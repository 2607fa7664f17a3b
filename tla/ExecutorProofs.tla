--------------------------- MODULE ExecutorProofs ---------------------------
(***************************************************************************)
(* Proofs about Executor for every number of workers, queue capacity and   *)
(* finite set of tasks, whatever the timers and the stale Worker fields    *)
(* shared by discarded and fresh threads do.                               *)
(***************************************************************************)
EXTENDS Executor, FiniteSetTheorems, SequenceTheorems, TLAPS

-----------------------------------------------------------------------------
(* The inductive invariant *)

\* The control thread's position and the slot it works on.
ControlShape ==
    /\ ctl.pc = "init" => nthreads = 0
    /\ ctl.pc \in {"discard", "replace", "create", "stop", "joining"} => ctl.slot \in Slots
    /\ ctl.pc = "join" => ctl.slot \in 1 .. N + 1

\* Threads are numbered in order of creation and each has a Worker; one that
\* arms or deletes a timer has a timed task.
ThreadShape ==
    /\ \A t \in Threads : pc[t] = "unborn" <=> t > nthreads
    /\ \A t \in Threads : pc[t] # "unborn" => slot[t] \in Slots
    /\ \A t \in Threads : pc[t] \in {"arm", "setid", "readid", "del"} => task[t] \in Timed

\* A timer is armed by the thread that took the task, and once.
TimerShape ==
    /\ \A t \in Threads : pc[t] = "arm" => timers[task[t]] = NULL
    /\ \A k \in Tasks : outcome[k] \in {"new", "queued"} => timers[k] = NULL

IInv == TypeOK /\ ControlShape /\ ThreadShape /\ TimerShape /\ TaskAccounting

\* Slots are among the threads: executor_start makes thread s for slot s.
LEMMA SlotsAreThreads == Slots \subseteq Threads /\ NULL \notin Slots
  BY PoolAssumption DEF Slots, Threads, NULL

\* The values the control thread's slot goes through.
LEMMA SlotRange ==
    /\ NULL \in 0 .. N + 1 /\ 1 \in 0 .. N + 1 /\ N + 1 \in 0 .. N + 1
    /\ \A s \in Slots : s \in 0 .. N + 1 /\ s + 1 \in 0 .. N + 1
    /\ \A s \in 1 .. N + 1 : s <= N => s \in Slots
    /\ 1 \in Slots /\ N \in 0 .. MaxThreads
  BY PoolAssumption DEF Slots, NULL

-----------------------------------------------------------------------------
(* Types *)

\* executor_init.
LEMMA InitIInv == Init => IInv
  <1> SUFFICES ASSUME Init PROVE IInv
    OBVIOUS
  <1>1. TypeOK
    <2>1. ctl \in Control
      BY PoolAssumption DEF Init, Control, NULL
    <2>2. nthreads \in 0 .. MaxThreads /\ queue \in Seq(Tasks \cup {Stop}) /\ Len(queue) <= MaxTasks
      BY PoolAssumption DEF Init
    <2>3. QED
      BY <2>1, <2>2 DEF Init, TypeOK, Outcomes
  <1>2. ControlShape /\ ThreadShape /\ TimerShape
    BY PoolAssumption DEF Init, ControlShape, ThreadShape, TimerShape, Threads
  <1>3. TaskAccounting
    BY DEF Init, TaskAccounting, Workers, Busy
  <1>4. QED
    BY <1>1, <1>2, <1>3 DEF IInv

\* Appending within the capacity, or not at all, keeps the queue's type.
LEMMA PutType ==
    ASSUME TypeOK, NEW k \in Tasks \cup {Stop}, ringbuffer_put(k)
    PROVE  queue' \in Seq(Tasks \cup {Stop}) /\ Len(queue') <= MaxTasks
  <1>1. queue \in Seq(Tasks \cup {Stop}) /\ Len(queue) \in Nat /\ Len(queue) <= MaxTasks
    BY DEF TypeOK
  <1>2. Append(queue, k) \in Seq(Tasks \cup {Stop}) /\ Len(Append(queue, k)) = Len(queue) + 1
    BY <1>1
  <1>3. QED
    BY <1>1, <1>2, PoolAssumption DEF ringbuffer_put

\* The result of a dispatch is an outcome.
LEMMA DispatchResultType ==
    ASSUME NEW k PROVE DispatchResult(k) \in {"too_much_data", "not_running", "queued"}
  BY DEF DispatchResult

\* A crash changes nothing but the flag.
LEMMA CrashIInv == ASSUME IInv, Crash PROVE IInv'
  BY DEF IInv, TypeOK, ControlShape, ThreadShape, TimerShape, TaskAccounting,
         Workers, Crash, wvars, tvars

\* Types are kept by the steps of the worker threads.
LEMMA WorkerTypes ==
    ASSUME IInv, NEW t \in Threads, worker_execute(t), ~Crash
    PROVE  TypeOK'
  <1> USE DEF IInv, TypeOK, Goto, wvars, tvars
  <1>1. CASE Fetch(t)
    BY <1>1 DEF Fetch
  <1>2. CASE ringbuffer_get(t)
    <2>1. /\ Tail(queue) \in Seq(Tasks \cup {Stop}) /\ Len(Tail(queue)) <= MaxTasks
          /\ Head(queue) \in Tasks \cup {Stop}
      BY <1>2, PoolAssumption DEF ringbuffer_get
    <2>2. QED
      BY <1>2, <2>1 DEF ringbuffer_get, Busy, Outcomes
  <1>3. CASE scheduler_add(t)
    BY <1>3 DEF scheduler_add, Busy
  <1>4. CASE SetSchedId(t)
    BY <1>4, TaskAssumption DEF SetSchedId, Busy, ThreadShape
  <1>5. CASE SetCurrent(t)
    BY <1>5 DEF SetCurrent, Busy
  <1>6. CASE WorkReturns(t)
    BY <1>6 DEF WorkReturns, Busy, NULL
  <1>7. CASE TestDiscarded(t)
    BY <1>7 DEF TestDiscarded, Busy
  <1>8. CASE ReadSchedId(t)
    <2>1. slot[t] \in Slots
      BY <1>8 DEF ReadSchedId, ThreadShape
    <2>2. QED
      BY <1>8, <2>1 DEF ReadSchedId, Busy
  <1>9. CASE DeleteTimer(t)
    BY <1>9 DEF DeleteTimer, scheduler_del, Busy, NULL
  <1>10. CASE Collect(t)
    BY <1>10 DEF Collect, Outcomes
  <1>11. QED
    BY <1>1, <1>2, <1>3, <1>4, <1>5, <1>6, <1>7, <1>8, <1>9, <1>10 DEF worker_execute

\* Types are kept by the steps of the control thread.
LEMMA ControlTypes ==
    ASSUME IInv, ~Crash,
           \/ executor_start \/ Discarding \/ Stopping
           \/ \E k \in Tasks : executor_dispatch(k) \/ worker_discard(k)
           \/ \E wait \in BOOLEAN : executor_stop(wait)
    PROVE  TypeOK'
  <1> USE DEF IInv, TypeOK, Goto, wvars, tvars
  <1>1. CASE executor_start
    <2>1. CASE UNCHANGED vars
      BY <2>1 DEF vars
    <2>2. CASE ctl.pc = "init"
      <3>1. ctl' \in Control
        BY <1>1, <2>2 DEF executor_start, Control
      <3>2. /\ ready' \in [Slots -> BOOLEAN] /\ thread' \in [Slots -> Threads \cup {NULL}]
            /\ pc' \in [Threads -> Busy \cup {"unborn", "fetch", "get", "exited"}]
            /\ slot' \in [Threads -> Slots \cup {NULL}]
        <4>1. /\ ready' = [s \in Slots |-> TRUE] /\ thread' = [s \in Slots |-> s]
              /\ pc' = [t \in Threads |-> IF t \in Slots THEN "fetch" ELSE "unborn"]
              /\ slot' = [t \in Threads |-> IF t \in Slots THEN t ELSE NULL]
          BY <1>1, <2>2 DEF executor_start
        <4>2. \A s \in Slots : s \in Threads
          BY SlotsAreThreads
        <4>3. thread' \in [Slots -> Threads \cup {NULL}]
          BY <4>1, <4>2
        <4>4. QED
          BY <4>1, <4>3
      <3>3. QED
        BY <1>1, <2>2, <3>1, <3>2, SlotRange DEF executor_start
    <2>3. QED
      BY <1>1, <2>1, <2>2 DEF executor_start
  <1>2. ASSUME NEW k \in Tasks, executor_dispatch(k) PROVE TypeOK'
    <2>1. queue' \in Seq(Tasks \cup {Stop}) /\ Len(queue') <= MaxTasks
      BY <1>2, PutType DEF executor_dispatch
    <2>2. outcome' \in [Tasks -> Outcomes]
      BY <1>2, DispatchResultType DEF executor_dispatch, Outcomes
    <2>3. QED
      BY <1>2, <2>1, <2>2 DEF executor_dispatch
  <1>3. ASSUME NEW k \in Tasks, worker_discard(k) PROVE TypeOK'
    <2>1. timers[k] \in Slots /\ current[timers[k]] \in Threads \cup {NULL}
      BY <1>3 DEF worker_discard
    <2>2. ctl' \in Control
      <3>1. timers[k] \in 0 .. N + 1
        BY <2>1, SlotRange
      <3>2. QED
        BY <1>3, <2>1, <3>1 DEF worker_discard, Control
    <2>3. QED
      BY <1>3, <2>2 DEF worker_discard
  <1>4. CASE FlagDiscarded
    <2>1. ctl' \in Control
      BY <1>4 DEF FlagDiscarded, Control
    <2>2. discarded' \in [Threads -> BOOLEAN]
      BY <1>4 DEF FlagDiscarded
    <2>3. QED
      BY <1>4, <2>1, <2>2 DEF FlagDiscarded
  <1>5. CASE WipeWorker
    <2>1. ctl' \in Control
      BY <1>5 DEF WipeWorker, Control
    <2>2. QED
      BY <1>5, <2>1 DEF WipeWorker
  <1>6. CASE CreateThread
    <2>1. ctl' \in Control /\ ctl.slot \in Slots
      BY <1>6, SlotRange DEF CreateThread, Control, ControlShape
    <2>2. nthreads + 1 \in Threads /\ nthreads + 1 \in 0 .. MaxThreads
      BY <1>6, PoolAssumption DEF CreateThread, Threads
    <2>3. QED
      BY <1>6, <2>1, <2>2 DEF CreateThread
  <1>7. ASSUME NEW wait \in BOOLEAN, executor_stop(wait) PROVE TypeOK'
    <2>1. ctl' \in Control
      BY <1>7, SlotRange DEF executor_stop, Control
    <2>2. QED
      BY <1>7, <2>1 DEF executor_stop
  <1>8. CASE executor_stop_worker
    <2>1. queue' \in Seq(Tasks \cup {Stop}) /\ Len(queue') <= MaxTasks
      BY <1>8, PutType DEF executor_stop_worker
    <2>2. ctl' \in Control
      <3>1. ctl.slot + 1 \in 0 .. N + 1
        BY <1>8, SlotRange DEF executor_stop_worker, ControlShape
      <3>2. QED
        BY <1>8, <3>1, SlotRange DEF executor_stop_worker, Control
    <2>3. QED
      BY <1>8, <2>1, <2>2 DEF executor_stop_worker
  <1>9. CASE JoinCheck
    <2>1. ctl' \in Control
      <3>1. ctl.slot + 1 \in 0 .. N + 1
        BY <1>9, SlotRange DEF JoinCheck, ControlShape
      <3>2. QED
        BY <1>9, <3>1 DEF JoinCheck, Control
    <2>2. QED
      BY <1>9, <2>1 DEF JoinCheck
  <1>10. CASE pthread_join
    <2>1. ctl' \in Control
      <3>1. ctl.slot + 1 \in 0 .. N + 1
        BY <1>10, SlotRange DEF pthread_join, ControlShape
      <3>2. QED
        BY <1>10, <3>1 DEF pthread_join, Control
    <2>2. QED
      BY <1>10, <2>1 DEF pthread_join
  <1>11. CASE StopReturns
    <2>1. ctl' \in Control
      BY <1>11, SlotRange DEF StopReturns, Control
    <2>2. QED
      BY <1>11, <2>1 DEF StopReturns
  <1>12. QED
    BY <1>1, <1>2, <1>3, <1>4, <1>5, <1>6, <1>7, <1>8, <1>9, <1>10, <1>11
       DEF Discarding, Stopping

-----------------------------------------------------------------------------
(* Tasks *)

\* What a step that moves no task has to leave alone.
LEMMA AccountingFrame ==
    ASSUME TaskAccounting, UNCHANGED <<queue, outcome>>, Workers' = Workers,
           \A t \in Workers : task'[t] = task[t]
    PROVE  TaskAccounting'
  BY DEF TaskAccounting

\* Announcing a new task as refused, or as queued at the end of the queue.
LEMMA DispatchAccounting ==
    ASSUME IInv, NEW k \in Tasks, executor_dispatch(k)
    PROVE  TaskAccounting'
  <1> USE DEF IInv
  <1>1. /\ outcome[k] = "new" /\ UNCHANGED <<pc, task>>
        /\ outcome' = [outcome EXCEPT ![k] = DispatchResult(k)]
    BY DEF executor_dispatch, tvars
  <1>2. /\ queue \in Seq(Tasks \cup {Stop}) /\ Len(queue) \in Nat
        /\ DOMAIN queue = 1 .. Len(queue) /\ outcome \in [Tasks -> Outcomes]
        /\ MaxTasks \in Nat
    BY PoolAssumption DEF TypeOK
  <1>3. /\ \A i \in DOMAIN queue : queue[i] # k
        /\ \A t \in Workers : task[t] # k
    BY <1>1 DEF TaskAccounting
  <1>4. Workers' = Workers
    BY <1>1 DEF Workers
  <1>5. CASE UNCHANGED queue /\ DispatchResult(k) # "queued"
    <2>1. DispatchResult(k) # "taken"
      BY DispatchResultType
    <2>2. QED
      BY <1>1, <1>2, <1>3, <1>4, <1>5, <2>1 DEF TaskAccounting
  <1>6. CASE queue' = Append(queue, k) /\ DispatchResult(k) = "queued"
    <2>1. /\ DOMAIN queue' = 1 .. Len(queue) + 1
          /\ queue'[Len(queue) + 1] = k
          /\ \A i \in 1 .. Len(queue) : queue'[i] = queue[i]
      BY <1>2, <1>6
    <2>2. \A i \in DOMAIN queue' : queue'[i] \in Tasks =>
              /\ outcome'[queue'[i]] = "queued"
              /\ \A j \in DOMAIN queue' : queue'[j] = queue'[i] => j = i
      BY <1>1, <1>2, <1>3, <1>6, <2>1 DEF TaskAccounting
    <2>3. \A t \in Workers' : task'[t] \in Tasks =>
              /\ outcome'[task'[t]] = "taken"
              /\ \A u \in Workers' : task'[u] = task'[t] => u = t
      BY <1>1, <1>2, <1>3, <1>4 DEF TaskAccounting
    <2>4. ASSUME NEW x \in Tasks
          PROVE  /\ outcome'[x] = "queued" => \E i \in DOMAIN queue' : queue'[i] = x
                 /\ outcome'[x] = "taken" => \E t \in Workers' : task'[t] = x
      <3>1. CASE x = k
        BY <1>1, <1>2, <1>6, <2>1, <3>1
      <3>2. CASE x # k
        <4>1. outcome'[x] = outcome[x]
          BY <1>1, <1>2, <3>2
        <4>2. DOMAIN queue \subseteq DOMAIN queue'
          BY <1>2, <2>1
        <4>3. QED
          BY <1>1, <1>2, <1>4, <2>1, <4>1, <4>2 DEF TaskAccounting
      <3>3. QED
        BY <3>1, <3>2
    <2>5. QED
      BY <2>2, <2>3, <2>4 DEF TaskAccounting
  <1>7. QED
    <2>1. CASE running /\ k \notin Oversized /\ Len(queue) < MaxTasks
      <3>1. DispatchResult(k) = "queued" /\ queue' = Append(queue, k)
        BY <1>2, <2>1 DEF executor_dispatch, ringbuffer_put, DispatchResult
      <3>2. QED
        BY <1>6, <3>1
    <2>2. CASE ~(running /\ k \notin Oversized /\ Len(queue) < MaxTasks)
      <3>1. DispatchResult(k) # "queued" /\ UNCHANGED queue
        BY <1>2, <2>2 DEF executor_dispatch, ringbuffer_put, DispatchResult
      <3>2. QED
        BY <1>5, <3>1
    <2>3. QED
      BY <2>1, <2>2

\* The head of the queue goes to a thread that has nothing.
LEMMA GetAccounting ==
    ASSUME IInv, NEW t \in Threads, ringbuffer_get(t)
    PROVE  TaskAccounting'
  <1> USE DEF IInv
  <1> DEFINE h == Head(queue)
  <1>1. /\ pc[t] = "get" /\ queue' = Tail(queue)
        /\ task' = [task EXCEPT ![t] = h]
        /\ pc' = [pc EXCEPT ![t] = IF h \in Timed THEN "arm" ELSE "setcur"]
        /\ outcome' = [k \in Tasks |-> IF k = h THEN "taken" ELSE outcome[k]]
    BY DEF ringbuffer_get, Goto
  <1>2. /\ queue \in Seq(Tasks \cup {Stop}) /\ queue # <<>> /\ Len(queue) \in Nat \ {0}
        /\ DOMAIN queue = 1 .. Len(queue) /\ h = queue[1]
    BY DEF TypeOK, ringbuffer_get
  <1>3. /\ DOMAIN queue' = 1 .. Len(queue) - 1
        /\ \A i \in 1 .. Len(queue) - 1 : queue'[i] = queue[i + 1]
    BY <1>1, <1>2
  <1>4. t \notin Workers /\ Workers' = Workers \cup {t}
    BY <1>1 DEF TypeOK, Workers, Busy
  <1>5. task'[t] = h /\ \A u \in Workers : task'[u] = task[u]
    BY <1>1, <1>4 DEF TypeOK, Workers
  <1>6. h \in Tasks => outcome[h] = "queued" /\ \A i \in 2 .. Len(queue) : queue[i] # h
    BY <1>2 DEF TaskAccounting
  <1>7. h \in Tasks => \A u \in Workers : task[u] # h
    BY <1>6 DEF TaskAccounting
  <1> HIDE DEF h
  <1>8. \A i \in DOMAIN queue' : queue'[i] \in Tasks =>
            /\ outcome'[queue'[i]] = "queued"
            /\ \A j \in DOMAIN queue' : queue'[j] = queue'[i] => j = i
    <2> SUFFICES ASSUME NEW i \in DOMAIN queue', queue'[i] \in Tasks
                 PROVE  /\ outcome'[queue'[i]] = "queued"
                        /\ \A j \in DOMAIN queue' : queue'[j] = queue'[i] => j = i
      OBVIOUS
    <2>1. i + 1 \in 2 .. Len(queue) /\ i + 1 \in DOMAIN queue /\ queue'[i] = queue[i + 1]
      BY <1>2, <1>3
    <2>2. outcome[queue[i + 1]] = "queued" /\ queue[i + 1] # h
      BY <1>6, <2>1 DEF TaskAccounting
    <2>3. \A j \in DOMAIN queue' : queue'[j] = queue'[i] => j + 1 = i + 1
      BY <1>2, <1>3, <2>1 DEF TaskAccounting
    <2>4. \A j \in DOMAIN queue' : j + 1 = i + 1 => j = i
      BY <1>2, <1>3
    <2>5. QED
      BY <1>1, <2>1, <2>2, <2>3, <2>4
  <1>9. \A u \in Workers' : task'[u] \in Tasks =>
            /\ outcome'[task'[u]] = "taken"
            /\ \A w \in Workers' : task'[w] = task'[u] => w = u
    BY <1>1, <1>4, <1>5, <1>7 DEF TaskAccounting
  <1>10. ASSUME NEW x \in Tasks
         PROVE  /\ outcome'[x] = "queued" => \E i \in DOMAIN queue' : queue'[i] = x
                /\ outcome'[x] = "taken" => \E u \in Workers' : task'[u] = x
    <2>1. CASE x = h
      BY <1>1, <1>4, <1>5, <2>1
    <2>2. CASE x # h
      <3>1. outcome'[x] = outcome[x]
        BY <1>1, <2>2
      <3>2. ASSUME outcome[x] = "queued" PROVE \E i \in DOMAIN queue' : queue'[i] = x
        <4>1. PICK i \in DOMAIN queue : queue[i] = x
          BY <3>2 DEF TaskAccounting
        <4>2. i # 1
          BY <1>2, <2>2, <4>1
        <4>3. i - 1 \in DOMAIN queue' /\ (i - 1) + 1 = i
          BY <1>2, <1>3, <4>2
        <4>4. queue'[i - 1] = x
          BY <1>3, <4>1, <4>3
        <4>5. QED
          BY <4>3, <4>4
      <3>3. outcome[x] = "taken" => \E u \in Workers' : task'[u] = x
        BY <1>4, <1>5 DEF TaskAccounting
      <3>4. QED
        BY <3>1, <3>2, <3>3
    <2>3. QED
      BY <2>1, <2>2
  <1>11. QED
    BY <1>8, <1>9, <1>10 DEF TaskAccounting

\* The thread that has a task reports it and lets go of it.
LEMMA CollectAccounting ==
    ASSUME IInv, NEW t \in Threads, Collect(t)
    PROVE  TaskAccounting'
  <1> USE DEF IInv
  <1>1. /\ t \in Workers /\ Workers' = Workers \ {t} /\ UNCHANGED <<queue, task>>
    BY DEF TypeOK, Collect, Goto, Workers, Busy
  <1>2. \A k \in Tasks : /\ k # task[t] => outcome'[k] = outcome[k]
                         /\ k = task[t] => outcome'[k] \in {"done", "timeout"}
    BY DEF Collect
  <1>3. \A i \in DOMAIN queue : queue[i] \in Tasks => queue[i] # task[t]
    BY <1>1 DEF TaskAccounting
  <1>4. \A u \in Workers' : task[u] \in Tasks => task[u] # task[t]
    BY <1>1 DEF TaskAccounting
  <1>5. QED
    BY <1>1, <1>2, <1>3, <1>4 DEF TaskAccounting

\* A stop token is no task.
LEMMA TokenAccounting ==
    ASSUME IInv, executor_stop_worker
    PROVE  TaskAccounting'
  <1> USE DEF IInv
  <1>1. UNCHANGED <<outcome, task>> /\ Workers' = Workers
    BY DEF executor_stop_worker, tvars, Workers
  <1>2. queue \in Seq(Tasks \cup {Stop}) /\ Len(queue) \in Nat /\ DOMAIN queue = 1 .. Len(queue)
    BY DEF TypeOK
  <1>3. CASE UNCHANGED queue
    BY <1>1, <1>3, AccountingFrame
  <1>4. CASE queue' = Append(queue, Stop)
    <2>1. /\ DOMAIN queue' = 1 .. Len(queue) + 1 /\ queue'[Len(queue) + 1] = Stop
          /\ \A i \in 1 .. Len(queue) : queue'[i] = queue[i]
      BY <1>2, <1>4
    <2>2. \A i \in DOMAIN queue' : queue'[i] \in Tasks =>
              i \in DOMAIN queue /\ queue'[i] = queue[i]
      BY <1>2, <2>1, TaskAssumption
    <2>3. \A i \in DOMAIN queue : i \in DOMAIN queue' /\ queue'[i] = queue[i]
      BY <1>2, <2>1
    <2>4. QED
      BY <1>1, <2>2, <2>3 DEF TaskAccounting
  <1>5. QED
    BY <1>3, <1>4 DEF executor_stop_worker, ringbuffer_put

-----------------------------------------------------------------------------
(* The invariant is inductive *)

\* A step of worker_execute that neither takes nor reports a task.
LEMMA QuietWorker ==
    ASSUME IInv, NEW t \in Threads, worker_execute(t), ~Crash,
           ~ringbuffer_get(t), ~Collect(t)
    PROVE  TaskAccounting'
  <1> USE DEF IInv, Goto
  <1>1. UNCHANGED <<queue, outcome>>
    BY DEF worker_execute, Fetch, scheduler_add, SetSchedId, SetCurrent,
           WorkReturns, TestDiscarded, ReadSchedId, DeleteTimer
  <1>2. CASE Fetch(t)
    <2>1. Workers' = Workers /\ t \notin Workers /\ \A u \in Workers : task'[u] = task[u]
      BY <1>2 DEF Fetch, TypeOK, Workers, Busy
    <2>2. QED
      BY <1>1, <2>1, AccountingFrame
  <1>3. CASE ~Fetch(t)
    <2>1. Workers' = Workers /\ UNCHANGED task
      BY <1>3 DEF worker_execute, scheduler_add, SetSchedId, SetCurrent,
                  WorkReturns, TestDiscarded, ReadSchedId, DeleteTimer, TypeOK, Workers, Busy, tvars
    <2>2. QED
      BY <1>1, <2>1, AccountingFrame
  <1>4. QED
    BY <1>2, <1>3

\* The shape of threads and timers is kept by the worker threads.
LEMMA WorkerShape ==
    ASSUME IInv, NEW t \in Threads, worker_execute(t), ~Crash
    PROVE  ControlShape' /\ ThreadShape' /\ TimerShape'
  <1> USE DEF IInv, Goto
  <1>0. UNCHANGED <<ctl, nthreads, slot>>
    BY DEF worker_execute, Fetch, ringbuffer_get, scheduler_add, SetSchedId,
           SetCurrent, WorkReturns, TestDiscarded, ReadSchedId, DeleteTimer, Collect, tvars
  <1>1. ControlShape'
    BY <1>0 DEF ControlShape
  <1>2. ThreadShape'
    BY <1>0 DEF worker_execute, Fetch, ringbuffer_get, scheduler_add, SetSchedId,
           SetCurrent, WorkReturns, TestDiscarded, ReadSchedId, DeleteTimer, Collect,
           ThreadShape, TypeOK, tvars
  <1>3. TimerShape'
    <2>0. \A u \in Threads : pc[u] = "arm" => task[u] \in Tasks
      BY TaskAssumption DEF ThreadShape
    <2>1. CASE Fetch(t)
      BY <2>1 DEF Fetch, TimerShape, TypeOK
    <2>2. CASE ringbuffer_get(t)
      <3>1. Head(queue) = queue[1] /\ 1 \in DOMAIN queue
        BY <2>2 DEF ringbuffer_get, TypeOK
      <3>2. Head(queue) \in Tasks => outcome[Head(queue)] = "queued"
        BY <3>1 DEF TaskAccounting
      <3>3. Head(queue) \in Timed => timers[Head(queue)] = NULL
        BY <3>2, TaskAssumption DEF TimerShape
      <3>4. QED
        BY <2>2, <3>3 DEF ringbuffer_get, TimerShape, TypeOK
    <2>3. CASE scheduler_add(t)
      <3>1. task[t] \in Tasks /\ t \in Workers
        BY <2>3, TaskAssumption DEF scheduler_add, ThreadShape, Workers, Busy
      <3>2. outcome[task[t]] = "taken"
        BY <3>1 DEF TaskAccounting
      <3>3. \A u \in Threads : pc[u] = "arm" /\ u # t => task[u] # task[t]
        BY <3>1 DEF TaskAccounting, Workers, Busy
      <3>4. QED
        BY <2>0, <2>3, <3>1, <3>2, <3>3 DEF scheduler_add, TimerShape, TypeOK, tvars
    <2>4. CASE DeleteTimer(t)
      BY <2>0, <2>4 DEF DeleteTimer, scheduler_del, TimerShape, TypeOK, tvars
    <2>5. CASE Collect(t)
      BY <2>5 DEF Collect, TimerShape, TypeOK, tvars
    <2>6. CASE \/ SetSchedId(t) \/ SetCurrent(t) \/ WorkReturns(t)
               \/ TestDiscarded(t) \/ ReadSchedId(t)
      BY <2>6 DEF SetSchedId, SetCurrent, WorkReturns, TestDiscarded, ReadSchedId,
                  TimerShape, TypeOK, tvars
    <2>7. QED
      BY <2>1, <2>2, <2>3, <2>4, <2>5, <2>6 DEF worker_execute
  <1>4. QED
    BY <1>1, <1>2, <1>3

\* The worker threads keep the invariant.
LEMMA WorkerIInv ==
    ASSUME IInv, NEW t \in Threads, worker_execute(t)
    PROVE  IInv'
  <1>1. CASE Crash
    BY <1>1, CrashIInv
  <1>2. CASE ~Crash
    <2>1. TaskAccounting'
      BY <1>2, QuietWorker, GetAccounting, CollectAccounting
    <2>2. QED
      BY <1>2, <2>1, WorkerTypes, WorkerShape DEF IInv
  <1>3. QED
    BY <1>1, <1>2

\* executor_start, the callbacks of the main loop and executor_stop keep it.
LEMMA ControlIInv ==
    ASSUME IInv,
           \/ executor_start \/ Discarding \/ Stopping
           \/ \E k \in Tasks : executor_dispatch(k) \/ worker_discard(k)
           \/ \E wait \in BOOLEAN : executor_stop(wait)
    PROVE  IInv'
  <1> SUFFICES ASSUME ~Crash PROVE IInv'
    BY CrashIInv
  <1>0. TypeOK'
    BY ControlTypes
  <1> USE DEF IInv, Goto, wvars, tvars
  <1>1. CASE executor_start
    <2>1. CASE UNCHANGED vars
      BY <2>1 DEF vars, TypeOK, ControlShape, ThreadShape, TimerShape, TaskAccounting, Workers
    <2>2. CASE ctl.pc = "init"
      <3>1. /\ pc' = [x \in Threads |-> IF x \in Slots THEN "fetch" ELSE "unborn"]
            /\ slot' = [x \in Threads |-> IF x \in Slots THEN x ELSE NULL]
            /\ nthreads' = N /\ ctl' = [ctl EXCEPT !.pc = "loop"]
            /\ UNCHANGED <<queue, outcome, task, timers>>
        BY <1>1, <2>2 DEF executor_start
      <3>2. Workers = {}
        BY <2>2 DEF ControlShape, ThreadShape, Threads, Workers, Busy
      <3>3. Workers' = {}
        BY <3>1 DEF Workers, Busy
      <3>4. TaskAccounting'
        BY <3>1, <3>2, <3>3, AccountingFrame
      <3>5. ControlShape'
        BY <3>1 DEF ControlShape, TypeOK, Control
      <3>6. ThreadShape'
        <4>1. \A x \in Threads : x \in Slots <=> ~(x > N)
          BY PoolAssumption DEF Threads, Slots
        <4>2. QED
          BY <3>1, <4>1 DEF ThreadShape
      <3>7. TimerShape'
        BY <3>1 DEF TimerShape
      <3>8. QED
        BY <1>0, <3>4, <3>5, <3>6, <3>7
    <2>3. QED
      BY <1>1, <2>1, <2>2 DEF executor_start
  <1>2. ASSUME NEW k \in Tasks, executor_dispatch(k) PROVE IInv'
    <2>1. TaskAccounting'
      BY <1>2, DispatchAccounting
    <2>2. ControlShape' /\ ThreadShape'
      BY <1>2 DEF executor_dispatch, ControlShape, ThreadShape
    <2>3. TimerShape'
      BY <1>2 DEF executor_dispatch, TimerShape, TypeOK
    <2>4. QED
      BY <1>0, <2>1, <2>2, <2>3
  <1>3. ASSUME NEW k \in Tasks, worker_discard(k) PROVE IInv'
    <2>1. TaskAccounting'
      BY <1>3, AccountingFrame DEF worker_discard, Workers
    <2>2. ControlShape' /\ ThreadShape'
      BY <1>3 DEF worker_discard, ControlShape, ThreadShape, TypeOK, Control
    <2>3. TimerShape'
      BY <1>3, TaskAssumption DEF worker_discard, TimerShape, ThreadShape, TypeOK
    <2>4. QED
      BY <1>0, <2>1, <2>2, <2>3
  <1>4. CASE FlagDiscarded \/ WipeWorker
    <2>1. TaskAccounting'
      BY <1>4, AccountingFrame DEF FlagDiscarded, WipeWorker, Workers
    <2>2. ControlShape' /\ ThreadShape'
      <3>1. /\ ctl'.pc \in {"replace", "create"} /\ ctl'.slot = ctl.slot
            /\ ctl.slot \in Slots /\ UNCHANGED <<nthreads, pc, slot, task>>
        BY <1>4 DEF FlagDiscarded, WipeWorker, ControlShape, TypeOK, Control
      <3>2. QED
        BY <3>1 DEF ControlShape, ThreadShape
    <2>3. TimerShape'
      BY <1>4 DEF FlagDiscarded, WipeWorker, TimerShape
    <2>4. QED
      BY <1>0, <2>1, <2>2, <2>3
  <1>5. CASE CreateThread
    <2>1. /\ nthreads' = nthreads + 1 /\ nthreads + 1 \in Threads /\ ctl.slot \in Slots
          /\ slot' = [slot EXCEPT ![nthreads + 1] = ctl.slot]
          /\ pc' = [pc EXCEPT ![nthreads + 1] = "fetch"]
          /\ ctl' = [ctl EXCEPT !.pc = "loop", !.slot = NULL]
          /\ UNCHANGED <<queue, outcome, task, timers>>
      BY <1>5, PoolAssumption DEF CreateThread, Threads, TypeOK, ControlShape
    <2>2. pc[nthreads + 1] = "unborn"
      BY <2>1 DEF ThreadShape, TypeOK
    <2>3. Workers' = Workers
      BY <2>1, <2>2 DEF Workers, Busy, TypeOK
    <2>4. TaskAccounting'
      BY <2>1, <2>3, AccountingFrame
    <2>5. ControlShape'
      BY <2>1 DEF ControlShape, TypeOK, Control
    <2>6. ThreadShape'
      <3>1. \A x \in Threads : x > nthreads + 1 <=> (x > nthreads /\ x # nthreads + 1)
        BY PoolAssumption DEF Threads, TypeOK
      <3>2. QED
        BY <2>1, <2>2, <3>1 DEF ThreadShape, TypeOK
    <2>7. TimerShape'
      BY <2>1 DEF TimerShape, TypeOK
    <2>8. QED
      BY <1>0, <2>4, <2>5, <2>6, <2>7
  <1>6. ASSUME NEW wait \in BOOLEAN, executor_stop(wait) PROVE IInv'
    <2>1. TaskAccounting'
      BY <1>6, AccountingFrame DEF executor_stop, Workers
    <2>2. ControlShape' /\ ThreadShape' /\ TimerShape'
      BY <1>6, SlotRange DEF executor_stop, ControlShape, ThreadShape, TimerShape,
                             TypeOK, Control
    <2>3. QED
      BY <1>0, <2>1, <2>2
  <1>7. CASE executor_stop_worker
    <2>1. TaskAccounting'
      BY <1>7, TokenAccounting
    <2>2. ThreadShape' /\ TimerShape'
      BY <1>7 DEF executor_stop_worker, ThreadShape, TimerShape
    <2>3. ControlShape'
      <3>1. CASE ctl.slot < N
        <4>1. ctl' = [ctl EXCEPT !.slot = @ + 1] /\ ctl.slot + 1 \in Slots
          BY <1>7, <3>1, PoolAssumption DEF executor_stop_worker, ControlShape, Slots
        <4>2. QED
          BY <1>7, <4>1 DEF executor_stop_worker, ControlShape, TypeOK, Control
      <3>2. CASE ~(ctl.slot < N)
        <4>1. ctl' = [ctl EXCEPT !.pc = "join", !.slot = IF ctl.wait THEN 1 ELSE N + 1]
          BY <1>7, <3>2 DEF executor_stop_worker
        <4>2. 1 \in 1 .. N + 1 /\ N + 1 \in 1 .. N + 1
          BY PoolAssumption
        <4>3. ctl'.pc = "join" /\ ctl'.slot \in 1 .. N + 1
          BY <4>1, <4>2 DEF TypeOK, Control
        <4>4. QED
          BY <4>3 DEF ControlShape
      <3>3. QED
        BY <3>1, <3>2
    <2>4. QED
      BY <1>0, <2>1, <2>2, <2>3
  <1>8. CASE JoinCheck \/ pthread_join \/ StopReturns
    <2>1. TaskAccounting'
      BY <1>8, AccountingFrame DEF JoinCheck, pthread_join, StopReturns, Workers
    <2>2. ThreadShape' /\ TimerShape'
      BY <1>8 DEF JoinCheck, pthread_join, StopReturns, ThreadShape, TimerShape
    <2>3. ControlShape'
      <3>1. \A s \in Slots : s + 1 \in 1 .. N + 1
        BY PoolAssumption DEF Slots
      <3>2. CASE JoinCheck
        <4>1. ctl.slot \in Slots
          BY <3>2, SlotRange DEF JoinCheck, ControlShape
        <4>2. QED
          BY <3>1, <3>2, <4>1 DEF JoinCheck, ControlShape, TypeOK, Control
      <3>3. CASE pthread_join
        BY <3>1, <3>3 DEF pthread_join, ControlShape, TypeOK, Control
      <3>4. CASE StopReturns
        BY <3>4 DEF StopReturns, ControlShape, TypeOK, Control
      <3>5. QED
        BY <1>8, <3>2, <3>3, <3>4
    <2>4. QED
      BY <1>0, <2>1, <2>2, <2>3
  <1>9. QED
    BY <1>1, <1>2, <1>3, <1>4, <1>5, <1>6, <1>7, <1>8 DEF Discarding, Stopping

\* Every step of the pool keeps the invariant.
LEMMA StepIInv == IInv /\ [Next]_vars => IInv'
  <1> SUFFICES ASSUME IInv, [Next]_vars PROVE IInv'
    OBVIOUS
  <1>1. CASE UNCHANGED vars
    BY <1>1 DEF vars, wvars, tvars, IInv, TypeOK, ControlShape, ThreadShape, TimerShape,
                TaskAccounting, Workers
  <1>2. CASE Next
    BY <1>2, WorkerIInv, ControlIInv DEF Next
  <1>3. QED
    BY <1>1, <1>2

\* The invariant holds in every reachable state.
LEMMA IInvHolds == Spec => []IInv
  BY InitIInv, StepIInv, PTL DEF Spec

\* Every variable of the executor keeps its type; in particular a stale
\* sched_id still names a task and the queue never exceeds its capacity.
THEOREM TypeCorrect == Spec => []TypeOK
  <1>1. IInv => TypeOK
    BY DEF IInv
  <1>2. QED
    BY <1>1, IInvHolds, PTL

\* No task is lost, duplicated, run twice or collected twice, however many
\* discarded threads share the workers' slots.
THEOREM TasksAccountedFor == Spec => []TaskAccounting
  <1>1. IInv => TaskAccounting
    BY DEF IInv
  <1>2. QED
    BY <1>1, IInvHolds, PTL

-----------------------------------------------------------------------------
(* The executor implements the task pool *)

\* executor_dispatch accepts or refuses.
LEMMA DispatchRefines ==
    ASSUME IInv, NEW k \in Tasks, executor_dispatch(k)
    PROVE  [TP!Next]_(TP!vars)
  <1>1. outcome[k] = "new" /\ outcome' = [outcome EXCEPT ![k] = DispatchResult(k)]
    BY DEF executor_dispatch
  <1>2. Len(queue) \in Nat /\ MaxTasks \in Nat
    BY PoolAssumption DEF IInv, TypeOK
  <1>3. CASE running /\ k \notin Oversized /\ Len(queue) < MaxTasks
    <2>1. DispatchResult(k) = "queued" /\ queue' = Append(queue, k)
      BY <1>2, <1>3 DEF executor_dispatch, ringbuffer_put, DispatchResult
    <2>2. TP!Accept(k)
      BY <1>1, <1>3, <2>1 DEF TP!Accept
    <2>3. QED
      BY <2>2 DEF TP!Next
  <1>4. CASE ~(running /\ k \notin Oversized /\ Len(queue) < MaxTasks)
    <2>1. DispatchResult(k) \in {"too_much_data", "not_running"} /\ UNCHANGED queue
      BY <1>2, <1>4 DEF executor_dispatch, ringbuffer_put, DispatchResult
    <2>2. TP!Refuse(k)
      BY <1>1, <2>1 DEF TP!Refuse, TP!Refusals
    <2>3. QED
      BY <2>2 DEF TP!Next
  <1>5. QED
    BY <1>3, <1>4

\* Getting from the queue takes its oldest task, or a stop token.
LEMMA GetRefines ==
    ASSUME IInv, NEW t \in Threads, ringbuffer_get(t)
    PROVE  [TP!Next]_(TP!vars)
  <1> DEFINE h == Head(queue)
  <1>1. /\ queue # <<>> /\ queue' = Tail(queue)
        /\ outcome' = [k \in Tasks |-> IF k = h THEN "taken" ELSE outcome[k]]
    BY DEF ringbuffer_get
  <1>2. h = queue[1] /\ 1 \in DOMAIN queue /\ h \in Tasks \cup {Stop}
    BY <1>1 DEF IInv, TypeOK
  <1>3. outcome \in [Tasks -> Outcomes]
    BY DEF IInv, TypeOK
  <1>4. CASE h \in Tasks
    <2>1. outcome[h] = "queued"
      BY <1>2, <1>4 DEF IInv, TaskAccounting
    <2>2. outcome' = [outcome EXCEPT ![h] = "taken"]
      BY <1>1, <1>3, <1>4
    <2>3. TP!Take(h)
      BY <1>1, <2>1, <2>2 DEF TP!Take
    <2>4. QED
      BY <1>4, <2>3 DEF TP!Next
  <1>5. CASE h = Stop
    <2>1. outcome' = outcome
      BY <1>1, <1>3, <1>5, TaskAssumption
    <2>2. TP!Token
      BY <1>1, <1>5, <2>1 DEF TP!Token
    <2>3. QED
      BY <2>2 DEF TP!Next
  <1>6. QED
    BY <1>2, <1>4, <1>5

\* The collect callback reports a task that was taken, with the flag.
LEMMA CollectRefines ==
    ASSUME IInv, NEW t \in Threads, Collect(t)
    PROVE  [TP!Next]_(TP!vars)
  <1>1. /\ UNCHANGED queue /\ t \in Workers /\ discarded[t] \in BOOLEAN
        /\ outcome' = [k \in Tasks |-> IF k # task[t] THEN outcome[k]
                                       ELSE IF discarded[t] THEN "timeout" ELSE "done"]
        /\ outcome \in [Tasks -> Outcomes]
    BY DEF Collect, IInv, TypeOK, Workers, Busy
  <1>2. CASE task[t] \in Tasks
    <2>1. outcome[task[t]] = "taken"
      BY <1>1, <1>2 DEF IInv, TaskAccounting
    <2>2. outcome' = [outcome EXCEPT ![task[t]] = IF discarded[t] THEN "timeout" ELSE "done"]
      BY <1>1, <1>2
    <2>3. TP!Report(task[t], discarded[t])
      BY <1>1, <2>1, <2>2 DEF TP!Report
    <2>4. QED
      BY <1>1, <1>2, <2>3 DEF TP!Next
  <1>3. CASE task[t] \notin Tasks
    <2>1. outcome' = outcome
      BY <1>1, <1>3
    <2>2. QED
      BY <1>1, <2>1 DEF TP!vars
  <1>4. QED
    BY <1>2, <1>3

\* Every other step leaves queue and outcomes alone, or queues a token.
LEMMA StepRefines ==
    ASSUME IInv, [Next]_vars
    PROVE  [TP!Next]_(TP!vars)
  <1>1. ASSUME NEW k \in Tasks, executor_dispatch(k) PROVE [TP!Next]_(TP!vars)
    BY <1>1, DispatchRefines
  <1>2. ASSUME NEW t \in Threads, worker_execute(t) PROVE [TP!Next]_(TP!vars)
    <2>1. CASE ringbuffer_get(t) \/ Collect(t)
      BY <2>1, GetRefines, CollectRefines
    <2>2. CASE ~(ringbuffer_get(t) \/ Collect(t))
      <3>1. UNCHANGED <<queue, outcome>>
        BY <1>2, <2>2 DEF worker_execute, Fetch, scheduler_add, SetSchedId,
                          SetCurrent, WorkReturns, TestDiscarded, ReadSchedId, DeleteTimer, Crash
      <3>2. QED
        BY <3>1 DEF TP!vars
    <2>3. QED
      BY <2>1, <2>2
  <1>3. CASE executor_stop_worker
    <2>1. UNCHANGED outcome /\ ringbuffer_put(Stop)
      BY <1>3 DEF executor_stop_worker
    <2>2. CASE Len(queue) < MaxTasks
      <3>1. TP!Token
        BY <2>1, <2>2 DEF TP!Token, ringbuffer_put
      <3>2. QED
        BY <3>1 DEF TP!Next
    <2>3. CASE ~(Len(queue) < MaxTasks)
      BY <2>1, <2>3 DEF TP!vars, ringbuffer_put
    <2>4. QED
      BY <2>2, <2>3
  <1>4. CASE \/ executor_start \/ Discarding \/ JoinCheck \/ pthread_join \/ StopReturns
             \/ \E k \in Tasks : worker_discard(k)
             \/ \E wait \in BOOLEAN : executor_stop(wait)
             \/ UNCHANGED vars
    <2>1. UNCHANGED <<queue, outcome>>
      BY <1>4 DEF executor_start, Discarding, FlagDiscarded, WipeWorker, CreateThread,
                  JoinCheck, pthread_join, StopReturns, worker_discard, executor_stop,
                  Crash, vars
    <2>2. QED
      BY <2>1 DEF TP!vars
  <1>5. QED
    BY <1>1, <1>2, <1>3, <1>4 DEF Next, Stopping

\* For any number of workers and any timeouts the executor is the task pool
\* its callers rely on: FIFO, at most one report per task, none invented.
THEOREM ExecutorIsTaskPool == Spec => ImplementsPool
  <1>1. Init => TP!Init
    BY DEF Init, TP!Init
  <1>2. QED
    BY <1>1, StepRefines, IInvHolds, PTL DEF Spec, ImplementsPool, TP!Spec

-----------------------------------------------------------------------------
(* The pool never shrinks *)

\* Adding or removing one element of a finite set.
LEMMA OneElement ==
    ASSUME NEW S, IsFiniteSet(S), NEW x
    PROVE  /\ Cardinality(S) \in Nat
           /\ Cardinality(S \cup {x}) = IF x \in S THEN Cardinality(S) ELSE Cardinality(S) + 1
           /\ Cardinality(S \ {x}) = IF x \in S THEN Cardinality(S) - 1 ELSE Cardinality(S)
  BY FS_CardinalityType, FS_AddElement, FS_RemoveElement

\* The sets that are counted are finite.
LEMMA CountedSetsFinite ==
    /\ IsFiniteSet(Armed) /\ IsFiniteSet(Guarded)
    /\ IsFiniteSet(Flagged) /\ IsFiniteSet(TimedOut)
  <1>1. IsFiniteSet(Threads)
    BY PoolAssumption, FS_Interval DEF Threads
  <1>2. Armed \subseteq Tasks /\ TimedOut \subseteq Tasks
    BY DEF Armed, TimedOut
  <1>3. Guarded \subseteq Threads /\ Flagged \subseteq Threads
    BY DEF Guarded, Flagged
  <1>4. QED
    BY <1>1, <1>2, <1>3, TaskAssumption, FS_Subset

\* executor_stop leaves the main loop's callbacks behind for good.
LEMMA StopPhases ==
    ASSUME TypeOK, Stopping \/ \E wait \in BOOLEAN : executor_stop(wait)
    PROVE  /\ ctl.pc \in {"loop", "stop", "join", "joining"}
           /\ ctl'.pc \in {"stop", "join", "joining", "stopped"}
           /\ UNCHANGED <<nthreads, pc, discarded, outcome>>
  <1>0. ctl \in Control
    BY DEF TypeOK
  <1>1. CASE \E wait \in BOOLEAN : executor_stop(wait)
    BY <1>0, <1>1 DEF executor_stop, Control, tvars
  <1>2. CASE executor_stop_worker
    BY <1>0, <1>2 DEF executor_stop_worker, Control, tvars
  <1>3. CASE JoinCheck
    BY <1>0, <1>3 DEF JoinCheck, Control, tvars
  <1>4. CASE pthread_join
    BY <1>0, <1>4 DEF pthread_join, Control, tvars
  <1>5. CASE StopReturns
    BY <1>0, <1>5 DEF StopReturns, Control, tvars
  <1>6. QED
    BY <1>1, <1>2, <1>3, <1>4, <1>5 DEF Stopping

\* Steps that neither arm, drop nor fire a timer.
LEMMA CapacityFrame ==
    ASSUME PoolCapacity, UNCHANGED <<ctl, nthreads>>, Armed' = Armed, Guarded' = Guarded
    PROVE  PoolCapacity'
  BY DEF PoolCapacity, Replacing

\* A guarded thread that ceases to be so may take one timer along.
LEMMA GiveUp ==
    ASSUME IInv, PoolCapacity, UNCHANGED <<ctl, nthreads>>, NEW t \in Guarded, NEW id,
           Guarded' = Guarded \ {t}, Armed' = Armed \ {id}
    PROVE  PoolCapacity'
  <1>1. /\ Cardinality(Guarded \ {t}) = Cardinality(Guarded) - 1
        /\ Cardinality(Armed) \in Nat /\ Cardinality(Guarded) \in Nat
    BY CountedSetsFinite, OneElement
  <1>2. Cardinality(Armed \ {id}) \in {Cardinality(Armed) - 1, Cardinality(Armed)}
    BY CountedSetsFinite, OneElement
  <1>3. /\ Cardinality(Armed') >= Cardinality(Armed) - 1
        /\ Cardinality(Guarded') = Cardinality(Guarded) - 1
        /\ Cardinality(Armed') \in Int
    BY <1>1, <1>2
  <1>4. QED
    BY <1>1, <1>3, PoolAssumption DEF PoolCapacity, Replacing, IInv, TypeOK

\* A worker arms its own timer when it starts to be guarded, and gives up at
\* most one timer when it ceases to be.
LEMMA WorkerCapacity ==
    ASSUME IInv, PoolCapacity, NEW t \in Threads, worker_execute(t)
    PROVE  PoolCapacity'
  <1> USE DEF IInv, Goto
  <1>0. UNCHANGED <<ctl, nthreads>>
    BY DEF worker_execute, Fetch, ringbuffer_get, scheduler_add, SetSchedId,
           SetCurrent, WorkReturns, TestDiscarded, ReadSchedId, DeleteTimer, Collect, Crash, tvars
  <1>1. CASE Crash
    <2>1. Armed' = Armed /\ Guarded' = Guarded
      BY <1>1 DEF Crash, tvars, Armed, Guarded
    <2>2. QED
      BY <1>0, <2>1, CapacityFrame
  <1>2. CASE (Fetch(t) \/ ringbuffer_get(t) \/ Collect(t)) /\ ~Crash
    <2>1. Armed' = Armed
      BY <1>2 DEF Fetch, ringbuffer_get, Collect, Armed
    <2>2. Guarded' = Guarded
      BY <1>2 DEF Fetch, ringbuffer_get, Collect, Guarded, TypeOK
    <2>3. QED
      BY <1>0, <2>1, <2>2, CapacityFrame
  <1>3. CASE SetSchedId(t) \/ SetCurrent(t) \/ WorkReturns(t) \/ ReadSchedId(t)
    <2>1. Armed' = Armed
      BY <1>3 DEF SetSchedId, SetCurrent, WorkReturns, ReadSchedId, Armed
    <2>2. Guarded' = Guarded
      BY <1>3 DEF SetSchedId, SetCurrent, WorkReturns, ReadSchedId, Guarded, TypeOK
    <2>3. QED
      BY <1>0, <2>1, <2>2, CapacityFrame
  <1>4. CASE scheduler_add(t) /\ ~Crash
    <2>1. /\ pc[t] = "arm" /\ pc' = [pc EXCEPT ![t] = "setid"] /\ UNCHANGED task
          /\ timers' = [timers EXCEPT ![task[t]] = slot[t]]
      BY <1>4 DEF scheduler_add
    <2>2. task[t] \in Timed /\ task[t] \in Tasks /\ timers[task[t]] = NULL /\ slot[t] # NULL
      BY <2>1, TaskAssumption, SlotsAreThreads DEF ThreadShape, TimerShape
    <2>3. Armed' = Armed \cup {task[t]} /\ task[t] \notin Armed
      BY <2>1, <2>2 DEF Armed, TypeOK
    <2>4. Guarded' = Guarded \cup {t} /\ t \notin Guarded
      BY <2>1, <2>2 DEF Guarded, TypeOK
    <2>5. /\ Cardinality(Armed') = Cardinality(Armed) + 1
          /\ Cardinality(Guarded') = Cardinality(Guarded) + 1
          /\ Cardinality(Armed) \in Nat /\ Cardinality(Guarded) \in Nat
      BY <2>3, <2>4, CountedSetsFinite, OneElement
    <2>6. QED
      BY <1>0, <2>5, PoolAssumption DEF PoolCapacity, Replacing, TypeOK
  <1>5. CASE TestDiscarded(t)
    <2>1. /\ pc[t] = "test" /\ UNCHANGED <<task, timers>>
          /\ pc' = [pc EXCEPT ![t] = IF task[t] \in Timed /\ ~discarded[t]
                                     THEN "readid" ELSE "collect"]
      BY <1>5 DEF TestDiscarded
    <2>2. Armed' = Armed
      BY <2>1 DEF Armed
    <2>3. CASE task[t] \notin Timed \/ ~discarded[t]
      <3>1. Guarded' = Guarded
        BY <2>1, <2>3 DEF Guarded, TypeOK
      <3>2. QED
        BY <1>0, <2>2, <3>1, CapacityFrame
    <2>4. CASE task[t] \in Timed /\ discarded[t]
      <3>1. Guarded' = Guarded \ {t} /\ t \in Guarded
        BY <2>1, <2>4 DEF Guarded, TypeOK
      <3>2. Armed' = Armed \ {NoTask}
        BY <2>2, TaskAssumption DEF Armed
      <3>3. QED
        BY <1>0, <3>1, <3>2, GiveUp
    <2>5. QED
      BY <2>3, <2>4
  <1>6. CASE DeleteTimer(t)
    <2>1. pc[t] = "del" /\ pc' = [pc EXCEPT ![t] = "collect"] /\ UNCHANGED task
      BY <1>6 DEF DeleteTimer
    <2>2. Guarded' = Guarded \ {t} /\ t \in Guarded
      BY <2>1 DEF Guarded, TypeOK, ThreadShape
    <2>3. CASE UNCHANGED timers
      <3>1. Armed' = Armed \ {NoTask}
        BY <2>3, TaskAssumption DEF Armed
      <3>2. QED
        BY <1>0, <2>2, <3>1, GiveUp
    <2>4. CASE timers' = [timers EXCEPT ![del_id[t]] = NULL]
      <3>1. Armed' = Armed \ {del_id[t]}
        BY <2>4 DEF Armed, TypeOK
      <3>2. QED
        BY <1>0, <2>2, <3>1, GiveUp
    <2>5. QED
      BY <1>6, <2>3, <2>4 DEF DeleteTimer, scheduler_del
  <1>7. QED
    BY <1>1, <1>2, <1>3, <1>4, <1>5, <1>6 DEF worker_execute

\* A timer that fires is traded for a replacement, and that for a thread.
LEMMA ControlCapacity ==
    ASSUME IInv, PoolCapacity,
           \/ executor_start \/ Discarding \/ Stopping
           \/ \E k \in Tasks : executor_dispatch(k) \/ worker_discard(k)
           \/ \E wait \in BOOLEAN : executor_stop(wait)
    PROVE  PoolCapacity'
  <1> USE DEF IInv, Goto, wvars, tvars
  <1>1. Cardinality(Armed) \in Nat /\ Cardinality(Guarded) \in Nat /\ nthreads \in Nat /\ N \in Nat
    BY CountedSetsFinite, FS_CardinalityType, PoolAssumption DEF TypeOK
  <1>2. CASE executor_start
    <2>1. CASE UNCHANGED vars
      BY <2>1 DEF vars, PoolCapacity, Replacing, Armed, Guarded
    <2>2. CASE ctl.pc = "init"
      <3>1. Armed' = Armed
        BY <1>2, <2>2 DEF executor_start, Armed, vars
      <3>2. Guarded' = {}
        <4>1. \A x \in Threads : pc'[x] \in {"fetch", "unborn"}
          BY <1>2, <2>2 DEF executor_start
        <4>2. QED
          BY <4>1 DEF Guarded
      <3>3. nthreads' = N /\ Cardinality(Guarded') = 0 /\ Replacing' \in Nat
        BY <1>2, <2>2, <3>2, FS_EmptySet DEF executor_start, Replacing
      <3>4. QED
        BY <1>1, <3>1, <3>3 DEF PoolCapacity
    <2>3. QED
      BY <1>2, <2>1, <2>2 DEF executor_start
  <1>3. ASSUME NEW k \in Tasks, executor_dispatch(k) PROVE PoolCapacity'
    BY <1>3, CapacityFrame DEF executor_dispatch, Armed, Guarded
  <1>4. ASSUME NEW k \in Tasks, worker_discard(k) PROVE PoolCapacity'
    <2>1. Armed' = Armed \ {k} /\ k \in Armed
      BY <1>4 DEF worker_discard, Armed, TypeOK
    <2>2. Guarded' = Guarded /\ UNCHANGED nthreads
      BY <1>4 DEF worker_discard, Guarded
    <2>3. ctl.pc = "loop" /\ ctl'.pc = "discard"
      BY <1>4 DEF worker_discard, TypeOK, Control
    <2>4. Cardinality(Armed') = Cardinality(Armed) - 1
      BY <2>1, CountedSetsFinite, OneElement
    <2>5. QED
      BY <1>1, <2>2, <2>3, <2>4 DEF PoolCapacity, Replacing
  <1>5. CASE FlagDiscarded \/ WipeWorker
    <2>1. Armed' = Armed /\ Guarded' = Guarded /\ UNCHANGED nthreads
      BY <1>5 DEF FlagDiscarded, WipeWorker, Crash, Armed, Guarded
    <2>2. /\ ctl.pc \in {"discard", "replace"} /\ ctl'.pc \in {"discard", "replace", "create"}
      BY <1>5 DEF FlagDiscarded, WipeWorker, Crash, TypeOK, Control
    <2>3. QED
      BY <2>1, <2>2 DEF PoolCapacity, Replacing
  <1>6. CASE CreateThread
    <2>1. /\ nthreads' = nthreads + 1 /\ nthreads + 1 \in Threads
          /\ pc' = [pc EXCEPT ![nthreads + 1] = "fetch"] /\ UNCHANGED <<task, timers>>
      BY <1>6, PoolAssumption DEF CreateThread, Threads, TypeOK
    <2>2. ctl.pc = "create" /\ ctl'.pc = "loop"
      BY <1>6 DEF CreateThread, TypeOK, Control
    <2>3. pc[nthreads + 1] = "unborn"
      BY <2>1 DEF ThreadShape, TypeOK
    <2>4. Armed' = Armed
      BY <2>1 DEF Armed
    <2>5. Guarded' = Guarded
      BY <2>1, <2>3 DEF Guarded, TypeOK
    <2>6. QED
      BY <1>1, <2>1, <2>2, <2>4, <2>5 DEF PoolCapacity, Replacing
  <1>7. CASE Stopping \/ \E wait \in BOOLEAN : executor_stop(wait)
    <2>1. ctl'.pc \in {"stop", "join", "joining", "stopped"}
      BY <1>7, StopPhases
    <2>2. QED
      BY <2>1 DEF PoolCapacity
  <1>8. QED
    BY <1>2, <1>3, <1>4, <1>5, <1>6, <1>7 DEF Discarding

\* Whatever timers workers delete for each other, every worker that is stuck
\* in a timed task has a thread or a timer to make up for it.
THEOREM PoolNeverShrinks == Spec => []PoolCapacity
  <1>1. Init => PoolCapacity
    BY DEF Init, PoolCapacity
  <1>2. IInv /\ PoolCapacity /\ [Next]_vars => PoolCapacity'
    <2> SUFFICES ASSUME IInv, PoolCapacity, [Next]_vars PROVE PoolCapacity'
      OBVIOUS
    <2>1. CASE UNCHANGED vars
      BY <2>1 DEF vars, tvars, PoolCapacity, Replacing, Armed, Guarded
    <2>2. CASE Next
      BY <2>2, WorkerCapacity, ControlCapacity DEF Next
    <2>3. QED
      BY <2>1, <2>2
  <1>3. QED
    BY <1>1, <1>2, IInvHolds, PTL DEF Spec

-----------------------------------------------------------------------------
(* Timeouts come from timers *)

\* Steps that flag no task and report none.
LEMMA BackedFrame ==
    ASSUME TimeoutsBacked, nthreads' = nthreads, ctl'.pc = ctl.pc,
           Flagged' = Flagged, TimedOut' = TimedOut
    PROVE  TimeoutsBacked'
  BY DEF TimeoutsBacked

\* A worker hands its flag, if any, over to the report of its task.
LEMMA WorkerBacked ==
    ASSUME IInv, TimeoutsBacked, NEW t \in Threads, worker_execute(t)
    PROVE  TimeoutsBacked'
  <1> USE DEF IInv, Goto
  <1>0. UNCHANGED <<ctl, nthreads>>
    BY DEF worker_execute, Fetch, ringbuffer_get, scheduler_add, SetSchedId,
           SetCurrent, WorkReturns, TestDiscarded, ReadSchedId, DeleteTimer, Collect, Crash, tvars
  <1>1. CASE Crash
    BY <1>0, <1>1, BackedFrame DEF Crash, tvars, Flagged, TimedOut
  <1>2. CASE Fetch(t) /\ ~Crash
    <2>1. Flagged' = Flagged /\ TimedOut' = TimedOut
      BY <1>2 DEF Fetch, Flagged, TimedOut, TypeOK, Busy
    <2>2. QED
      BY <1>0, <2>1, BackedFrame
  <1>3. CASE ringbuffer_get(t)
    <2>1. Flagged' = Flagged
      BY <1>3 DEF ringbuffer_get, Flagged, TypeOK, Busy
    <2>2. Head(queue) \in Tasks => outcome[Head(queue)] = "queued"
      <3>1. Head(queue) = queue[1] /\ 1 \in DOMAIN queue
        BY <1>3 DEF ringbuffer_get, TypeOK
      <3>2. QED
        BY <3>1 DEF TaskAccounting
    <2>3. TimedOut' = TimedOut
      BY <1>3, <2>2 DEF ringbuffer_get, TimedOut
    <2>4. QED
      BY <1>0, <2>1, <2>3, BackedFrame
  <1>4. CASE ~Crash /\ \/ scheduler_add(t) \/ SetSchedId(t) \/ SetCurrent(t) \/ WorkReturns(t)
                       \/ TestDiscarded(t) \/ ReadSchedId(t) \/ DeleteTimer(t)
    <2>1. Flagged' = Flagged
      BY <1>4 DEF scheduler_add, SetSchedId, SetCurrent, WorkReturns, TestDiscarded,
                  ReadSchedId, DeleteTimer, Flagged, TypeOK, Busy, tvars
    <2>2. TimedOut' = TimedOut
      BY <1>4 DEF scheduler_add, SetSchedId, SetCurrent, WorkReturns, TestDiscarded,
                  ReadSchedId, DeleteTimer, TimedOut
    <2>3. QED
      BY <1>0, <2>1, <2>2, BackedFrame
  <1>5. CASE Collect(t)
    <2>1. Flagged' = Flagged \ {t}
      BY <1>5 DEF Collect, Flagged, TypeOK, Busy
    <2>2. t \in Workers
      BY <1>5 DEF Collect, Workers, Busy
    <2>3. CASE discarded[t] /\ task[t] \in Tasks
      <3>1. TimedOut' = TimedOut \cup {task[t]} /\ task[t] \notin TimedOut
        BY <1>5, <2>2, <2>3 DEF Collect, TimedOut, TaskAccounting
      <3>2. t \in Flagged
        BY <1>5, <2>3 DEF Collect, Flagged, Busy
      <3>3. /\ Cardinality(TimedOut') = Cardinality(TimedOut) + 1
            /\ Cardinality(Flagged') = Cardinality(Flagged) - 1
            /\ Cardinality(TimedOut) \in Nat /\ Cardinality(Flagged) \in Nat
        BY <2>1, <3>1, <3>2, CountedSetsFinite, OneElement
      <3>4. Cardinality(TimedOut') + Cardinality(Flagged') = Cardinality(TimedOut) + Cardinality(Flagged)
        BY <3>3
      <3>5. QED
        BY <1>0, <3>4 DEF TimeoutsBacked
    <2>4. CASE ~(discarded[t] /\ task[t] \in Tasks)
      <3>1. TimedOut' = TimedOut
        BY <1>5, <2>2, <2>4 DEF Collect, TimedOut, TaskAccounting
      <3>2. /\ Cardinality(Flagged') \in {Cardinality(Flagged) - 1, Cardinality(Flagged)}
            /\ Cardinality(TimedOut) \in Nat /\ Cardinality(Flagged) \in Nat
        BY <2>1, CountedSetsFinite, OneElement
      <3>3. QED
        BY <1>0, <3>1, <3>2, PoolAssumption DEF TimeoutsBacked, TypeOK
    <2>5. QED
      BY <2>3, <2>4
  <1>6. QED
    BY <1>1, <1>2, <1>3, <1>4, <1>5 DEF worker_execute

\* worker_discard flags at most one thread per timer and then makes a thread.
LEMMA ControlBacked ==
    ASSUME IInv, TimeoutsBacked,
           \/ executor_start \/ Discarding \/ Stopping
           \/ \E k \in Tasks : executor_dispatch(k) \/ worker_discard(k)
           \/ \E wait \in BOOLEAN : executor_stop(wait)
    PROVE  TimeoutsBacked'
  <1> USE DEF IInv, Goto, wvars, tvars
  <1>1. Cardinality(Flagged) \in Nat /\ Cardinality(TimedOut) \in Nat /\ nthreads \in Nat /\ N \in Nat
    BY CountedSetsFinite, FS_CardinalityType, PoolAssumption DEF TypeOK
  <1>2. CASE executor_start
    <2>1. CASE UNCHANGED vars
      BY <2>1 DEF vars, TimeoutsBacked, Flagged, TimedOut
    <2>2. CASE ctl.pc = "init"
      <3>1. TimedOut' = TimedOut /\ nthreads' = N /\ ctl'.pc = "loop"
        BY <1>2, <2>2 DEF executor_start, TimedOut, vars, TypeOK, Control
      <3>2. Flagged' = {}
        <4>1. \A x \in Threads : pc'[x] \in {"fetch", "unborn"}
          BY <1>2, <2>2 DEF executor_start
        <4>2. QED
          BY <4>1 DEF Flagged, Busy
      <3>3. Cardinality(Flagged') = 0
        BY <3>2, FS_EmptySet
      <3>4. QED
        BY <1>1, <2>2, <3>1, <3>3 DEF TimeoutsBacked
    <2>3. QED
      BY <1>2, <2>1, <2>2 DEF executor_start
  <1>3. ASSUME NEW k \in Tasks, executor_dispatch(k) PROVE TimeoutsBacked'
    <2>1. TimedOut' = TimedOut
      BY <1>3, DispatchResultType DEF executor_dispatch, TimedOut, TypeOK
    <2>2. QED
      BY <1>3, <2>1, BackedFrame DEF executor_dispatch, Flagged
  <1>4. ASSUME NEW k \in Tasks, worker_discard(k) PROVE TimeoutsBacked'
    <2>1. ctl.pc = "loop" /\ ctl'.pc = "discard"
      BY <1>4 DEF worker_discard, TypeOK, Control
    <2>2. Flagged' = Flagged /\ TimedOut' = TimedOut /\ UNCHANGED nthreads
      BY <1>4 DEF worker_discard, Flagged, TimedOut
    <2>3. QED
      BY <2>1, <2>2 DEF TimeoutsBacked
  <1>5. CASE FlagDiscarded
    <2>1. CASE Crash
      BY <2>1, BackedFrame DEF Crash, Flagged, TimedOut
    <2>2. CASE ~Crash
      <3>1. ctl.pc = "discard" /\ ctl' = [ctl EXCEPT !.pc = "replace", !.ptr = NULL]
        BY <1>5, <2>2 DEF FlagDiscarded
      <3>2. ctl'.pc = "replace"
        BY <3>1 DEF TypeOK, Control
      <3>3. UNCHANGED <<outcome, nthreads, pc>>
        BY <1>5, <2>2 DEF FlagDiscarded
      <3>4. TimedOut' = TimedOut
        BY <3>3 DEF TimedOut
      <3>5. Cardinality(Flagged') \in {Cardinality(Flagged), Cardinality(Flagged) + 1}
        <4>1. CASE UNCHANGED discarded
          <5>1. Flagged' = Flagged
            BY <3>3, <4>1 DEF Flagged
          <5>2. QED
            BY <5>1
        <4>2. CASE \E p : p # NULL /\ discarded' = [discarded EXCEPT ![p] = TRUE]
          <5>1. PICK p : discarded' = [discarded EXCEPT ![p] = TRUE]
            BY <4>2
          <5>2. Flagged' = Flagged \/ Flagged' = Flagged \cup {p}
            <6>1. \A t \in Threads : discarded'[t] = (t = p \/ discarded[t])
              BY <5>1 DEF TypeOK
            <6>2. CASE p \in Threads /\ pc[p] \in Busy
              BY <3>3, <6>1, <6>2 DEF Flagged
            <6>3. CASE ~(p \in Threads /\ pc[p] \in Busy)
              BY <3>3, <6>1, <6>3 DEF Flagged
            <6>4. QED
              BY <6>2, <6>3
          <5>3. Cardinality(Flagged \cup {p}) \in {Cardinality(Flagged), Cardinality(Flagged) + 1}
            BY CountedSetsFinite, OneElement
          <5>4. QED
            BY <5>2, <5>3
        <4>3. QED
          BY <1>5, <2>2, <4>1, <4>2 DEF FlagDiscarded
      <3>6. QED
        BY <1>1, <3>1, <3>2, <3>3, <3>4, <3>5 DEF TimeoutsBacked
    <2>3. QED
      BY <2>1, <2>2
  <1>6. CASE WipeWorker
    <2>1. /\ ctl.pc = "replace" /\ ctl'.pc = "create"
          /\ TimedOut' = TimedOut /\ Flagged' = Flagged /\ UNCHANGED nthreads
      BY <1>6 DEF WipeWorker, Flagged, TimedOut, TypeOK, Control
    <2>2. QED
      BY <2>1 DEF TimeoutsBacked
  <1>7. CASE CreateThread
    <2>1. /\ nthreads' = nthreads + 1 /\ nthreads + 1 \in Threads
          /\ pc' = [pc EXCEPT ![nthreads + 1] = "fetch"] /\ UNCHANGED <<discarded, outcome>>
      BY <1>7, PoolAssumption DEF CreateThread, Threads, TypeOK
    <2>2. ctl.pc = "create" /\ ctl'.pc = "loop"
      BY <1>7 DEF CreateThread, TypeOK, Control
    <2>3. pc[nthreads + 1] = "unborn"
      BY <2>1 DEF ThreadShape, TypeOK
    <2>4. Flagged' = Flagged /\ TimedOut' = TimedOut
      BY <2>1, <2>3 DEF Flagged, TimedOut, TypeOK, Busy
    <2>5. QED
      BY <1>1, <2>1, <2>2, <2>4 DEF TimeoutsBacked
  <1>8. CASE Stopping \/ \E wait \in BOOLEAN : executor_stop(wait)
    <2>1. /\ ctl.pc \in {"loop", "stop", "join", "joining"}
          /\ ctl'.pc \in {"stop", "join", "joining", "stopped"}
          /\ UNCHANGED <<nthreads, pc, discarded, outcome>>
      BY <1>8, StopPhases
    <2>2. Flagged' = Flagged /\ TimedOut' = TimedOut
      BY <2>1 DEF Flagged, TimedOut
    <2>3. QED
      BY <2>1, <2>2 DEF TimeoutsBacked
  <1>9. QED
    BY <1>2, <1>3, <1>4, <1>5, <1>6, <1>7, <1>8 DEF Discarding

\* No expiry ever discards two tasks, even when the pointer worker_discard
\* tested is stale by the time it is written through.
THEOREM TimeoutsAlwaysBacked == Spec => []TimeoutsBacked
  <1>1. Init => TimeoutsBacked
    <2> SUFFICES ASSUME Init PROVE TimeoutsBacked
      OBVIOUS
    <2>1. Flagged = {} /\ TimedOut = {}
      BY DEF Init, Flagged, TimedOut, Busy
    <2>2. QED
      BY <2>1, FS_EmptySet DEF Init, TimeoutsBacked
  <1>2. IInv /\ TimeoutsBacked /\ [Next]_vars => TimeoutsBacked'
    <2> SUFFICES ASSUME IInv, TimeoutsBacked, [Next]_vars PROVE TimeoutsBacked'
      OBVIOUS
    <2>1. CASE UNCHANGED vars
      BY <2>1 DEF vars, tvars, TimeoutsBacked, Flagged, TimedOut
    <2>2. CASE Next
      BY <2>2, WorkerBacked, ControlBacked DEF Next
    <2>3. QED
      BY <2>1, <2>2
  <1>3. QED
    BY <1>1, <1>2, IInvHolds, PTL DEF Spec

-----------------------------------------------------------------------------
(* Timers are exact until a worker is replaced *)

\* No thread has been replaced, and none is being replaced.
Intact == nthreads = N /\ Replacing = 0

\* Until then thread s has slot s to itself and no task is discarded; before
\* executor_start there are no timers.
FirstThreads ==
    /\ ctl.pc # "init" => nthreads >= N
    /\ ctl.pc = "init" => /\ \A k \in Tasks : timers[k] = NULL
                          /\ \A t \in Threads : ~discarded[t]
    /\ Intact => /\ \A s \in Slots : slot[s] = s /\ thread[s] = s
                 /\ \A t \in Threads : ~discarded[t]

\* A step of worker_execute touches no other thread's stack, nor what the
\* control thread keeps.
LEMMA WorkerFrame ==
    ASSUME IInv, NEW t \in Threads, worker_execute(t)
    PROVE  /\ UNCHANGED <<ctl, nthreads, slot, thread, backlog, running>>
           /\ \A u \in Threads \ {t} : pc'[u] = pc[u] /\ task'[u] = task[u]
           /\ \A u \in Threads \ {t} : discarded'[u] = discarded[u] /\ del_id'[u] = del_id[u]
  <1>1. UNCHANGED <<ctl, nthreads, slot, thread, backlog, running>>
    BY DEF worker_execute, Fetch, ringbuffer_get, scheduler_add, SetSchedId, SetCurrent,
           WorkReturns, TestDiscarded, ReadSchedId, DeleteTimer, Collect, Crash, wvars, tvars
  <1>2. \A u \in Threads \ {t} : pc'[u] = pc[u]
    BY DEF worker_execute, Fetch, ringbuffer_get, scheduler_add, SetSchedId, SetCurrent,
           WorkReturns, TestDiscarded, ReadSchedId, DeleteTimer, Collect, Crash, tvars, Goto, IInv, TypeOK
  <1>3. \A u \in Threads \ {t} : task'[u] = task[u]
    BY DEF worker_execute, Fetch, ringbuffer_get, scheduler_add, SetSchedId, SetCurrent,
           WorkReturns, TestDiscarded, ReadSchedId, DeleteTimer, Collect, Crash, tvars, IInv, TypeOK
  <1>4. \A u \in Threads \ {t} : discarded'[u] = discarded[u] /\ del_id'[u] = del_id[u]
    BY DEF worker_execute, Fetch, ringbuffer_get, scheduler_add, SetSchedId, SetCurrent,
           WorkReturns, TestDiscarded, ReadSchedId, DeleteTimer, Collect, Crash, tvars, IInv, TypeOK
  <1>5. QED
    BY <1>1, <1>2, <1>3, <1>4

\* The worker threads set no discarded flag, and there are none before
\* executor_start.
LEMMA WorkerFirst ==
    ASSUME IInv, FirstThreads, NEW t \in Threads, worker_execute(t)
    PROVE  FirstThreads'
  <1>1. UNCHANGED <<ctl, nthreads, slot, thread>>
    BY WorkerFrame
  <1>2. ctl.pc # "init"
    <2>1. pc[t] # "unborn"
      BY DEF worker_execute, Fetch, ringbuffer_get, scheduler_add, SetSchedId, SetCurrent,
             WorkReturns, TestDiscarded, ReadSchedId, DeleteTimer, Collect
    <2>2. ~(t > nthreads) /\ t \in Nat \ {0}
      BY <2>1 DEF IInv, ThreadShape, Threads
    <2>3. QED
      BY <2>2 DEF IInv, ControlShape
  <1>3. discarded'[t] => discarded[t]
    BY DEF worker_execute, Fetch, ringbuffer_get, scheduler_add, SetSchedId, SetCurrent,
           WorkReturns, TestDiscarded, ReadSchedId, DeleteTimer, Collect, Crash, tvars, IInv, TypeOK
  <1>4. \A u \in Threads : ~discarded[u] => ~discarded'[u]
    BY <1>3, WorkerFrame
  <1>5. Intact' = Intact
    BY <1>1 DEF Intact, Replacing
  <1>6. QED
    BY <1>1, <1>2, <1>4, <1>5 DEF FirstThreads

\* Only executor_start makes an intact pool; a timer that expires, a
\* replacement under way and a new thread each make the premise false.
LEMMA ControlFirst ==
    ASSUME IInv, FirstThreads,
           \/ executor_start \/ Discarding \/ Stopping
           \/ \E k \in Tasks : executor_dispatch(k) \/ worker_discard(k)
           \/ \E wait \in BOOLEAN : executor_stop(wait)
    PROVE  FirstThreads'
  <1> USE DEF IInv, wvars, tvars
  <1>0. nthreads \in Nat /\ N \in Nat \ {0}
    BY PoolAssumption DEF TypeOK
  <1>1. CASE UNCHANGED <<ctl, nthreads, slot, thread, discarded, timers>>
    BY <1>1 DEF FirstThreads, Intact, Replacing
  <1>2. CASE executor_start /\ ctl.pc = "init"
    <2>1. /\ nthreads' = N /\ ctl' = [ctl EXCEPT !.pc = "loop"]
          /\ slot' = [x \in Threads |-> IF x \in Slots THEN x ELSE NULL]
          /\ thread' = [s \in Slots |-> s] /\ UNCHANGED discarded
      BY <1>2 DEF executor_start
    <2>2. ctl'.pc = "loop"
      BY <2>1 DEF TypeOK, Control
    <2>3. \A s \in Slots : slot'[s] = s /\ thread'[s] = s
      BY <2>1, SlotsAreThreads
    <2>4. \A t \in Threads : ~discarded[t]
      BY <1>2 DEF FirstThreads
    <2>5. QED
      BY <1>0, <2>1, <2>2, <2>3, <2>4 DEF FirstThreads
  <1>3. ASSUME NEW k \in Tasks, worker_discard(k) PROVE FirstThreads'
    <2>1. ctl.pc = "loop" /\ ctl'.pc = "discard" /\ UNCHANGED nthreads
      BY <1>3 DEF worker_discard, TypeOK, Control
    <2>2. ~Intact'
      BY <2>1 DEF Intact, Replacing
    <2>3. QED
      BY <2>1, <2>2 DEF FirstThreads
  <1>4. CASE (FlagDiscarded /\ ~Crash) \/ WipeWorker
    <2>1. ctl.pc \in {"discard", "replace"} /\ ctl'.pc \in {"replace", "create"} /\ UNCHANGED nthreads
      BY <1>4 DEF FlagDiscarded, WipeWorker, TypeOK, Control
    <2>2. ~Intact'
      BY <2>1 DEF Intact, Replacing
    <2>3. QED
      BY <2>1, <2>2 DEF FirstThreads
  <1>5. CASE CreateThread
    <2>1. ctl.pc = "create" /\ ctl'.pc = "loop" /\ nthreads' = nthreads + 1
      BY <1>5 DEF CreateThread, TypeOK, Control
    <2>2. nthreads' > N
      BY <1>0, <2>1 DEF FirstThreads
    <2>3. ~Intact' /\ nthreads' >= N
      BY <1>0, <2>1, <2>2 DEF Intact
    <2>4. QED
      BY <2>1, <2>3 DEF FirstThreads
  <1>6. CASE Stopping \/ \E wait \in BOOLEAN : executor_stop(wait)
    <2>1. /\ ctl.pc \in {"loop", "stop", "join", "joining"}
          /\ ctl'.pc \in {"stop", "join", "joining", "stopped"}
          /\ UNCHANGED <<nthreads, discarded>>
      BY <1>6, StopPhases
    <2>2. UNCHANGED <<slot, thread, timers>>
      BY <1>6 DEF Stopping, executor_stop, executor_stop_worker, JoinCheck, pthread_join, StopReturns
    <2>3. Intact' = Intact
      BY <2>1 DEF Intact, Replacing
    <2>4. QED
      BY <2>1, <2>2, <2>3 DEF FirstThreads
  <1>7. ASSUME NEW k \in Tasks, executor_dispatch(k) PROVE FirstThreads'
    <2>1. UNCHANGED <<ctl, nthreads, slot, thread, discarded, timers>>
      BY <1>7 DEF executor_dispatch
    <2>2. QED
      BY <1>1, <2>1
  <1>8. CASE Crash
    <2>1. UNCHANGED <<ctl, nthreads, slot, thread, discarded, timers>>
      BY <1>8 DEF Crash
    <2>2. QED
      BY <1>1, <2>1
  <1>9. CASE executor_start
    <2>1. CASE UNCHANGED vars
      BY <1>1, <2>1 DEF vars
    <2>2. QED
      BY <1>2, <1>9, <2>1 DEF executor_start
  <1>10. QED
    BY <1>3, <1>4, <1>5, <1>6, <1>7, <1>8, <1>9 DEF Discarding

\* The pool's first threads, for every step.
LEMMA FirstThreadsHold == Spec => [](IInv /\ FirstThreads)
  <1>1. Init => FirstThreads
    <2> SUFFICES ASSUME Init PROVE FirstThreads
      OBVIOUS
    <2>1. ctl.pc = "init" /\ nthreads # N
      BY PoolAssumption DEF Init
    <2>2. QED
      BY <2>1 DEF Init, FirstThreads, Intact
  <1>2. IInv /\ FirstThreads /\ [Next]_vars => FirstThreads'
    <2> SUFFICES ASSUME IInv, FirstThreads, [Next]_vars PROVE FirstThreads'
      OBVIOUS
    <2>1. CASE UNCHANGED vars
      BY <2>1 DEF vars, wvars, tvars, FirstThreads, Intact, Replacing
    <2>2. CASE Next
      BY <2>2, WorkerFirst, ControlFirst DEF Next
    <2>3. QED
      BY <2>1, <2>2
  <1>3. QED
    BY <1>1, <1>2, IInvHolds, PTL DEF Spec

\* What ExactTimers asks of one guarded thread, and that the timer it has
\* read from sched_id is its own.
Timer(t) ==
    /\ timers[task[t]] = slot[t]
    /\ pc[t] # "setid" => sched_id[slot[t]] = task[t]
    /\ pc[t] = "del" => del_id[t] = task[t]

\* ExactTimers, timer by timer and thread by thread.
TimersMatch ==
    Intact /\ ~Standalone =>
        /\ \A k \in Tasks : timers[k] # NULL => \E t \in Guarded : task[t] = k
        /\ \A t \in Guarded : Timer(t)

\* The two statements agree where there is a slot behind every timer.
LEMMA MatchIsExact == IInv /\ TimersMatch => ExactTimers
  <1> SUFFICES ASSUME IInv, TimersMatch, Intact, ~Standalone
               PROVE  /\ Armed = {task[t] : t \in Guarded}
                      /\ \A t \in Guarded : Timer(t)
    BY DEF ExactTimers, Intact, Timer
  <1>1. \A t \in Guarded : task[t] \in Tasks /\ slot[t] # NULL
    BY TaskAssumption, SlotsAreThreads DEF Guarded, IInv, ThreadShape
  <1>2. Armed = {task[t] : t \in Guarded}
    BY <1>1 DEF TimersMatch, Armed, Timer
  <1>3. QED
    BY <1>2 DEF TimersMatch

\* In an intact pool two threads share no slot, and guarded ones no task.
LEMMA NothingShared ==
    ASSUME IInv, FirstThreads, Intact, NEW t \in Workers, NEW u \in Workers, t # u
    PROVE  /\ slot[t] # slot[u] /\ slot[t] \in Slots
           /\ task[t] \in Tasks => task[t] # task[u]
  <1>1. \A x \in Workers : x \in Threads /\ pc[x] # "unborn"
    BY DEF Workers, Busy
  <1>2. \A x \in Workers : x \in Slots
    BY <1>1, PoolAssumption DEF IInv, ThreadShape, Intact, Threads, Slots
  <1>3. slot[t] = t /\ slot[u] = u
    BY <1>2 DEF FirstThreads
  <1>4. QED
    BY <1>2, <1>3 DEF IInv, TaskAccounting

\* A guarded thread is inside a timed task.
LEMMA GuardedType ==
    ASSUME IInv
    PROVE  \A t \in Guarded : t \in Workers /\ task[t] \in Timed /\ task[t] \in Tasks
  BY TaskAssumption DEF Guarded, Workers, Busy

\* A thread arms the timer of its own task in its own slot, and deletes it.
LEMMA WorkerMatch ==
    ASSUME IInv, FirstThreads, TimersMatch, NEW t \in Threads, worker_execute(t)
    PROVE  TimersMatch'
  <1>0. UNCHANGED <<ctl, nthreads, slot>> /\ Intact' = Intact
    BY WorkerFrame DEF Intact, Replacing
  <1> SUFFICES ASSUME Intact, ~Standalone
               PROVE  /\ \A k \in Tasks : timers'[k] # NULL => \E u \in Guarded' : task'[u] = k
                      /\ \A u \in Guarded' : Timer(u)'
    BY <1>0 DEF TimersMatch
  <1>1. /\ \A k \in Tasks : timers[k] # NULL => \E u \in Guarded : task[u] = k
        /\ \A u \in Guarded : Timer(u)
    BY DEF TimersMatch
  <1>2. \A u \in Threads \ {t} : u \in Guarded' <=> u \in Guarded
    BY WorkerFrame DEF Guarded
  <1>3. Guarded \subseteq Threads /\ Guarded' \subseteq Threads
    BY DEF Guarded
  <1>4. CASE Fetch(t) \/ ringbuffer_get(t) \/ Collect(t)
    <2>1. UNCHANGED <<timers, sched_id>>
      BY <1>4 DEF Fetch, ringbuffer_get, Collect, Crash, wvars
    <2>2. t \notin Guarded /\ t \notin Guarded'
      BY <1>4 DEF Fetch, ringbuffer_get, Collect, Crash, tvars, Goto, Guarded, IInv, TypeOK
    <2>3. Guarded' = Guarded
      BY <1>2, <1>3, <2>2
    <2>4. \A u \in Guarded : u \in Threads \ {t}
      BY <1>3, <2>2
    <2>5. QED
      BY <1>0, <1>1, <2>1, <2>3, <2>4, WorkerFrame DEF Timer
  <1>5. CASE Crash
    BY <1>1, <1>5 DEF Crash, wvars, tvars, Guarded, Timer
  <1>6. CASE scheduler_add(t) /\ ~Crash
    <2>1. /\ pc[t] = "arm" /\ timers' = [timers EXCEPT ![task[t]] = slot[t]]
          /\ pc' = [pc EXCEPT ![t] = "setid"] /\ UNCHANGED <<task, sched_id>>
      BY <1>6 DEF scheduler_add, Goto, wvars
    <2>2. task[t] \in Timed /\ task[t] \in Tasks /\ t \in Workers
      BY <2>1, TaskAssumption DEF IInv, ThreadShape, Workers, Busy
    <2>3. pc'[t] = "setid" /\ timers'[task[t]] = slot[t]
      BY <2>1, <2>2 DEF IInv, TypeOK
    <2>4. t \notin Guarded /\ Guarded' = Guarded \cup {t}
      BY <1>2, <1>3, <2>1, <2>2, <2>3 DEF Guarded
    <2>5. \A u \in Guarded : u \in Threads \ {t} /\ task[u] # task[t]
      BY <1>3, <2>2, <2>4, GuardedType, NothingShared
    <2>6. \A k \in Tasks : k # task[t] => timers'[k] = timers[k]
      BY <2>1 DEF IInv, TypeOK
    <2>7. ASSUME NEW u \in Guarded PROVE Timer(u)'
      <3>1. timers'[task[u]] = timers[task[u]] /\ pc'[u] = pc[u] /\ del_id'[u] = del_id[u]
        BY <2>5, <2>6, GuardedType, WorkerFrame
      <3>2. QED
        BY <1>0, <1>1, <2>1, <3>1 DEF Timer
    <2>8. Timer(t)'
      BY <1>0, <2>1, <2>3 DEF Timer
    <2>9. \A k \in Tasks : timers'[k] # NULL => \E u \in Guarded' : task'[u] = k
      BY <1>1, <2>1, <2>4, <2>6
    <2>10. QED
      BY <2>4, <2>7, <2>8, <2>9
  <1>7. CASE SetSchedId(t)
    <2>1. /\ pc[t] = "setid" /\ sched_id' = [sched_id EXCEPT ![slot[t]] = task[t]]
          /\ pc' = [pc EXCEPT ![t] = "setcur"] /\ UNCHANGED <<task, timers>>
      BY <1>7 DEF SetSchedId, Goto
    <2>2. task[t] \in Timed /\ pc'[t] = "setcur" /\ slot[t] \in Slots
      BY <2>1 DEF IInv, ThreadShape, TypeOK
    <2>3. t \in Guarded /\ Guarded' = Guarded
      BY <1>2, <1>3, <2>1, <2>2 DEF Guarded
    <2>4. sched_id'[slot[t]] = task[t] /\ \A s \in Slots : s # slot[t] => sched_id'[s] = sched_id[s]
      BY <2>1, <2>2 DEF IInv, TypeOK
    <2>5. ASSUME NEW u \in Guarded, u # t PROVE Timer(u)'
      <3>1. slot[u] # slot[t] /\ slot[u] \in Slots
        BY <2>3, <2>5, GuardedType, NothingShared
      <3>2. /\ pc'[u] = pc[u] /\ del_id'[u] = del_id[u]
            /\ sched_id'[slot[u]] = sched_id[slot[u]]
        BY <1>3, <2>4, <2>5, <3>1, WorkerFrame
      <3>3. QED
        BY <1>0, <1>1, <2>1, <3>2 DEF Timer
    <2>6. Timer(t)'
      BY <1>0, <1>1, <2>1, <2>3, <2>4 DEF Timer
    <2>7. QED
      BY <1>1, <2>1, <2>3, <2>5, <2>6
  <1>8. CASE SetCurrent(t) \/ WorkReturns(t)
    <2>1. /\ pc[t] \in {"setcur", "work"} /\ pc'[t] \in {"work", "test"}
          /\ UNCHANGED <<task, timers, sched_id>>
      BY <1>8 DEF SetCurrent, WorkReturns, Goto, IInv, TypeOK
    <2>2. Guarded' = Guarded
      BY <1>2, <1>3, <2>1 DEF Guarded
    <2>3. QED
      BY <1>0, <1>1, <1>3, <2>1, <2>2, WorkerFrame DEF Timer
  <1>9. CASE TestDiscarded(t)
    <2>1. /\ pc[t] = "test" /\ UNCHANGED <<task, timers, sched_id>>
          /\ pc'[t] = IF task[t] \in Timed THEN "readid" ELSE "collect"
      BY <1>9 DEF TestDiscarded, Goto, wvars, FirstThreads, IInv, TypeOK
    <2>2. Guarded' = Guarded
      BY <1>2, <1>3, <2>1 DEF Guarded
    <2>3. \A u \in Guarded : u = t => pc'[u] = "readid"
      BY <2>1, GuardedType
    <2>4. QED
      BY <1>0, <1>1, <1>3, <2>1, <2>2, <2>3, WorkerFrame DEF Timer
  <1>10. CASE ReadSchedId(t)
    <2>1. /\ pc[t] = "readid" /\ pc'[t] = "del" /\ UNCHANGED <<task, timers, sched_id>>
          /\ del_id'[t] = sched_id[slot[t]]
      BY <1>10 DEF ReadSchedId, Goto, wvars, IInv, TypeOK
    <2>2. Guarded' = Guarded
      BY <1>2, <1>3, <2>1 DEF Guarded
    <2>3. QED
      BY <1>0, <1>1, <1>3, <2>1, <2>2, WorkerFrame DEF Timer
  <1>11. CASE DeleteTimer(t)
    <2>1. /\ pc[t] = "del" /\ pc'[t] = "collect" /\ UNCHANGED <<task, sched_id>>
      BY <1>11 DEF DeleteTimer, Goto, wvars, IInv, TypeOK
    <2>2. t \in Guarded /\ Guarded' = Guarded \ {t}
      BY <1>2, <1>3, <2>1 DEF Guarded, IInv, ThreadShape
    <2>3. del_id[t] = task[t] /\ task[t] \in Tasks /\ task[t] # NoTask
      BY <1>1, <2>1, <2>2, GuardedType, TaskAssumption DEF Timer
    <2>4. timers' = [timers EXCEPT ![task[t]] = NULL]
      BY <1>11, <2>3 DEF DeleteTimer, scheduler_del
    <2>5. timers'[task[t]] = NULL /\ \A k \in Tasks : k # task[t] => timers'[k] = timers[k]
      BY <2>3, <2>4 DEF IInv, TypeOK
    <2>6. \A u \in Guarded' : /\ u \in Threads \ {t} /\ u \in Guarded
                              /\ task[u] # task[t] /\ task[u] \in Tasks
      BY <1>3, <2>2, GuardedType, NothingShared
    <2>7. \A u \in Guarded' : Timer(u)'
      BY <1>0, <1>1, <2>1, <2>5, <2>6, WorkerFrame DEF Timer
    <2>8. \A k \in Tasks : timers'[k] # NULL => \E u \in Guarded' : task'[u] = k
      BY <1>1, <2>1, <2>2, <2>5
    <2>9. QED
      BY <2>7, <2>8
  <1>12. QED
    BY <1>4, <1>5, <1>6, <1>7, <1>8, <1>9, <1>10, <1>11 DEF worker_execute

\* The control thread arms no timer, and one that expires starts a replacement.
LEMMA ControlMatch ==
    ASSUME IInv, FirstThreads, TimersMatch,
           \/ executor_start \/ Discarding \/ Stopping
           \/ \E k \in Tasks : executor_dispatch(k) \/ worker_discard(k)
           \/ \E wait \in BOOLEAN : executor_stop(wait)
    PROVE  TimersMatch'
  <1> USE DEF wvars, tvars
  <1>1. CASE UNCHANGED <<pc, slot, task, timers, sched_id, del_id>> /\ (Intact' => Intact)
    BY <1>1 DEF TimersMatch, Guarded, Timer
  <1>2. CASE executor_start
    <2>1. CASE UNCHANGED vars
      BY <1>1, <2>1 DEF vars, Intact, Replacing
    <2>2. CASE ctl.pc = "init"
      <3>1. /\ pc' = [x \in Threads |-> IF x \in Slots THEN "fetch" ELSE "unborn"]
            /\ UNCHANGED timers
        BY <1>2, <2>2 DEF executor_start, vars
      <3>2. Guarded' = {}
        BY <3>1 DEF Guarded
      <3>3. \A k \in Tasks : timers'[k] = NULL
        BY <2>2, <3>1 DEF FirstThreads
      <3>4. QED
        BY <3>2, <3>3 DEF TimersMatch
    <2>3. QED
      BY <1>2, <2>1, <2>2 DEF executor_start
  <1>3. ASSUME NEW k \in Tasks, executor_dispatch(k) PROVE TimersMatch'
    BY <1>1, <1>3 DEF executor_dispatch, Intact, Replacing
  <1>4. ASSUME NEW k \in Tasks, worker_discard(k) PROVE TimersMatch'
    <2>1. ctl'.pc = "discard"
      BY <1>4 DEF worker_discard, IInv, TypeOK, Control
    <2>2. QED
      BY <2>1 DEF TimersMatch, Intact, Replacing
  <1>5. CASE Crash
    BY <1>1, <1>5 DEF Crash, Intact, Replacing
  <1>6. CASE (FlagDiscarded /\ ~Crash) \/ WipeWorker
    <2>1. ctl'.pc \in {"replace", "create"}
      BY <1>6 DEF FlagDiscarded, WipeWorker, IInv, TypeOK, Control
    <2>2. QED
      BY <2>1 DEF TimersMatch, Intact, Replacing
  <1>7. CASE CreateThread
    <2>1. ctl.pc = "create" /\ nthreads' = nthreads + 1 /\ nthreads \in Nat /\ N \in Nat
      BY <1>7, PoolAssumption DEF CreateThread, IInv, TypeOK
    <2>2. nthreads' # N
      BY <2>1 DEF FirstThreads
    <2>3. QED
      BY <2>2 DEF TimersMatch, Intact
  <1>8. CASE Stopping \/ \E wait \in BOOLEAN : executor_stop(wait)
    <2>1. /\ ctl.pc \in {"loop", "stop", "join", "joining"} /\ UNCHANGED nthreads
          /\ ctl'.pc \in {"stop", "join", "joining", "stopped"}
      BY <1>8, StopPhases DEF IInv
    <2>2. UNCHANGED <<pc, slot, task, timers, sched_id, del_id>>
      BY <1>8 DEF Stopping, executor_stop, executor_stop_worker, JoinCheck, pthread_join, StopReturns
    <2>3. Intact' => Intact
      BY <2>1 DEF Intact, Replacing
    <2>4. QED
      BY <1>1, <2>2, <2>3
  <1>9. QED
    BY <1>2, <1>3, <1>4, <1>5, <1>6, <1>7, <1>8 DEF Discarding

\* As long as no timeout has replaced a worker, a timer is armed exactly while
\* a thread is inside the task it guards, it would discard that thread's slot,
\* and sched_id is the timer that thread will delete: no thread can disarm
\* another one's timer, for any number of workers.
THEOREM TimersAlwaysExact == Spec => []ExactTimers
  <1>1. Init => TimersMatch
    <2> SUFFICES ASSUME Init PROVE TimersMatch
      OBVIOUS
    <2>1. nthreads # N
      BY PoolAssumption DEF Init
    <2>2. QED
      BY <2>1 DEF TimersMatch, Intact
  <1>2. IInv /\ FirstThreads /\ TimersMatch /\ [Next]_vars => TimersMatch'
    <2> SUFFICES ASSUME IInv, FirstThreads, TimersMatch, [Next]_vars PROVE TimersMatch'
      OBVIOUS
    <2>1. CASE UNCHANGED vars
      BY <2>1 DEF vars, wvars, tvars, TimersMatch, Intact, Replacing, Guarded, Timer
    <2>2. CASE Next
      BY <2>2, WorkerMatch, ControlMatch DEF Next
    <2>3. QED
      BY <2>1, <2>2
  <1>3. QED
    BY <1>1, <1>2, FirstThreadsHold, MatchIsExact, PTL DEF Spec

-----------------------------------------------------------------------------
(* A NULL field is met inside a discard only *)

\* Once the pool has started, a Worker lacks its fields only while it is
\* being replaced, between WipeWorker and CreateThread.
FieldsSet ==
    /\ \A s \in Slots : ctl.pc # "init" /\ ~ready[s] => ctl.pc = "create" /\ s = ctl.slot
    /\ CrashOnlyInDiscard

\* A worker thread that crashes has found a wiped Worker.
LEMMA WorkerFields ==
    ASSUME IInv, FieldsSet, NEW t \in Threads, worker_execute(t)
    PROVE  FieldsSet'
  <1>0. UNCHANGED ctl
    BY WorkerFrame
  <1>1. pc[t] # "unborn"
    BY DEF worker_execute, Fetch, ringbuffer_get, scheduler_add, SetSchedId, SetCurrent,
           WorkReturns, TestDiscarded, ReadSchedId, DeleteTimer, Collect
  <1>2. slot[t] \in Slots /\ ctl.pc # "init"
    <2>1. ~(t > nthreads) /\ t \in Nat \ {0}
      BY <1>1 DEF IInv, ThreadShape, Threads
    <2>2. QED
      BY <1>1, <2>1 DEF IInv, ControlShape, ThreadShape
  <1>3. UNCHANGED ready
    BY DEF worker_execute, Fetch, ringbuffer_get, scheduler_add, SetSchedId, SetCurrent,
           WorkReturns, TestDiscarded, ReadSchedId, DeleteTimer, Collect, Crash, wvars
  <1>4. UNCHANGED crashed \/ ~ready[slot[t]]
    BY DEF worker_execute, Fetch, ringbuffer_get, scheduler_add, SetSchedId, SetCurrent,
           WorkReturns, TestDiscarded, ReadSchedId, DeleteTimer, Collect
  <1>5. CrashOnlyInDiscard'
    BY <1>0, <1>2, <1>4 DEF FieldsSet, CrashOnlyInDiscard
  <1>6. QED
    BY <1>0, <1>3, <1>5 DEF FieldsSet

\* The control thread wipes one Worker at a time, sets its fields before it
\* goes on, and itself trips over a NULL pointer in worker_discard only.
LEMMA ControlFields ==
    ASSUME IInv, FieldsSet, ~crashed,
           \/ executor_start \/ Discarding \/ Stopping
           \/ \E k \in Tasks : executor_dispatch(k) \/ worker_discard(k)
           \/ \E wait \in BOOLEAN : executor_stop(wait)
    PROVE  FieldsSet'
  <1> USE DEF wvars, tvars
  <1>0. ctl \in Control /\ ready \in [Slots -> BOOLEAN]
    BY DEF IInv, TypeOK
  <1>1. CASE executor_start
    <2>1. CASE UNCHANGED vars
      BY <2>1 DEF vars, FieldsSet, CrashOnlyInDiscard
    <2>2. CASE ctl.pc = "init"
      BY <1>1, <2>2 DEF executor_start, vars, FieldsSet, CrashOnlyInDiscard
    <2>3. QED
      BY <1>1, <2>1, <2>2 DEF executor_start
  <1>2. ASSUME NEW k \in Tasks, executor_dispatch(k) PROVE FieldsSet'
    BY <1>2 DEF executor_dispatch, FieldsSet, CrashOnlyInDiscard
  <1>3. ASSUME NEW k \in Tasks, worker_discard(k) PROVE FieldsSet'
    BY <1>0, <1>3 DEF worker_discard, FieldsSet, CrashOnlyInDiscard, Control
  <1>4. CASE FlagDiscarded
    <2>1. CASE Crash
      BY <1>4, <2>1 DEF FlagDiscarded, Crash, FieldsSet, CrashOnlyInDiscard
    <2>2. CASE ~Crash
      BY <1>0, <1>4, <2>2 DEF FlagDiscarded, FieldsSet, CrashOnlyInDiscard, Control
    <2>3. QED
      BY <2>1, <2>2
  <1>5. CASE WipeWorker
    <2>1. /\ ctl.pc = "replace" /\ ctl'.pc = "create" /\ ctl'.slot = ctl.slot
          /\ UNCHANGED crashed /\ ready' = [ready EXCEPT ![ctl.slot] = FALSE]
      BY <1>0, <1>5 DEF WipeWorker, Control
    <2>2. QED
      BY <1>0, <2>1 DEF FieldsSet, CrashOnlyInDiscard
  <1>6. CASE CreateThread
    <2>1. /\ ctl.pc = "create" /\ ctl'.pc = "loop"
          /\ UNCHANGED crashed /\ ready' = [ready EXCEPT ![ctl.slot] = TRUE]
      BY <1>0, <1>6 DEF CreateThread, Control
    <2>2. QED
      BY <1>0, <2>1 DEF FieldsSet, CrashOnlyInDiscard
  <1>7. CASE Stopping \/ \E wait \in BOOLEAN : executor_stop(wait)
    <2>1. ctl.pc \in {"loop", "stop", "join", "joining"}
      BY <1>7, StopPhases DEF IInv
    <2>2. UNCHANGED <<ready, crashed>>
      BY <1>7 DEF Stopping, executor_stop, executor_stop_worker, JoinCheck, pthread_join, StopReturns
    <2>3. QED
      BY <2>1, <2>2 DEF FieldsSet, CrashOnlyInDiscard
  <1>8. QED
    BY <1>1, <1>2, <1>3, <1>4, <1>5, <1>6, <1>7 DEF Discarding

\* A discarded thread and its replacement share a Worker for as long as the
\* old one lives, and still a NULL field can be met only in the two windows of
\* a discard: before worker_discard has written the flag, and before
\* worker_init has set the fields again.
THEOREM CrashConfined == Spec => []CrashOnlyInDiscard
  <1>1. Init => FieldsSet
    BY DEF Init, FieldsSet, CrashOnlyInDiscard
  <1>2. IInv /\ FieldsSet /\ [Next]_vars => FieldsSet'
    <2> SUFFICES ASSUME IInv, FieldsSet, [Next]_vars PROVE FieldsSet'
      OBVIOUS
    <2>1. CASE UNCHANGED vars
      BY <2>1 DEF vars, wvars, FieldsSet, CrashOnlyInDiscard
    <2>2. CASE Next
      BY <2>2, WorkerFields, ControlFields DEF Next
    <2>3. QED
      BY <2>1, <2>2
  <1>3. FieldsSet => CrashOnlyInDiscard
    BY DEF FieldsSet
  <1>4. QED
    BY <1>1, <1>2, <1>3, IInvHolds, PTL DEF Spec

-----------------------------------------------------------------------------
(* executor_stop(wait) drains an intact pool *)

StopPhase == {"stop", "join", "joining", "stopped"}

\* A thread that has got a stop token, or has acted on it.
HasToken(t) == pc[t] = "exited" \/ (pc[t] \in Busy /\ task[t] = Stop)

\* The tokens are behind the backlog in the queue, so that a thread gets one
\* only when nothing of the backlog is queued any more.
StopOrder ==
    /\ ctl.pc \notin StopPhase =>
           /\ backlog = {}
           /\ \A i \in DOMAIN queue : queue[i] # Stop
           /\ \A t \in Threads : ~HasToken(t)
    /\ \A k \in backlog : outcome[k] \in {"queued", "taken", "done", "timeout"}
    /\ \A i, j \in DOMAIN queue : queue[i] = Stop /\ queue[j] \in backlog => j < i
    /\ \A t \in Threads : HasToken(t) => \A j \in DOMAIN queue : queue[j] \notin backlog

\* The slots that executor_stop has gone past belong to threads that ended.
Joined ==
    Intact /\ ctl.wait /\ ~ctl.skipped =>
        /\ ctl.pc \in {"join", "joining"} => \A s \in Slots : s < ctl.slot => pc[s] = "exited"
        /\ ctl.pc = "stopped" => \A s \in Slots : pc[s] = "exited"

\* What a step that moves no task and no token leaves alone.
LEMMA OrderFrame ==
    ASSUME StopOrder, UNCHANGED <<queue, backlog, outcome>>,
           ctl'.pc \notin StopPhase => ctl.pc \notin StopPhase,
           \A t \in Threads : HasToken(t)' => HasToken(t)
    PROVE  StopOrder'
  BY DEF StopOrder

\* Threads take from the head: the backlog first, then the tokens.
LEMMA WorkerOrder ==
    ASSUME IInv, StopOrder, NEW t \in Threads, worker_execute(t)
    PROVE  StopOrder'
  <1>0. UNCHANGED <<ctl, backlog>> /\ \A u \in Threads \ {t} : HasToken(u)' <=> HasToken(u)
    BY WorkerFrame DEF HasToken
  <1>1. CASE ringbuffer_get(t)
    <2> DEFINE h == Head(queue)
    <2>1. /\ queue' = Tail(queue) /\ pc'[t] \in {"arm", "setcur"} /\ task'[t] = h
          /\ outcome' = [k \in Tasks |-> IF k = h THEN "taken" ELSE outcome[k]]
      BY <1>1 DEF ringbuffer_get, Goto, IInv, TypeOK
    <2>2. /\ queue \in Seq(Tasks \cup {Stop}) /\ Len(queue) \in Nat \ {0}
          /\ DOMAIN queue = 1 .. Len(queue) /\ h = queue[1] /\ 1 \in DOMAIN queue
      BY <1>1 DEF ringbuffer_get, IInv, TypeOK
    <2>3. /\ DOMAIN queue' = 1 .. Len(queue) - 1
          /\ \A i \in 1 .. Len(queue) - 1 : queue'[i] = queue[i + 1]
      BY <2>1, <2>2
    <2> HIDE DEF h
    <2>4. \A i \in DOMAIN queue' : i + 1 \in DOMAIN queue /\ queue'[i] = queue[i + 1] /\ i \in Nat
      BY <2>2, <2>3
    <2>5. HasToken(t)' <=> h = Stop
      BY <2>1 DEF HasToken, Busy
    <2>6. h = Stop => \A j \in DOMAIN queue' : queue'[j] \notin backlog
      <3> SUFFICES ASSUME h = Stop, NEW j \in DOMAIN queue', queue'[j] \in backlog PROVE FALSE
        OBVIOUS
      <3>1. j + 1 < 1
        BY <2>2, <2>4 DEF StopOrder
      <3>2. QED
        BY <2>4, <3>1
    <2>7. \A k \in backlog : outcome'[k] \in {"queued", "taken", "done", "timeout"}
      BY <2>1 DEF StopOrder, IInv, TypeOK
    <2>8. \A i, j \in DOMAIN queue' : queue'[i] = Stop /\ queue'[j] \in backlog => j < i
      <3> SUFFICES ASSUME NEW i \in DOMAIN queue', NEW j \in DOMAIN queue',
                          queue'[i] = Stop, queue'[j] \in backlog
                   PROVE  j < i
        OBVIOUS
      <3>1. j + 1 < i + 1
        BY <2>4 DEF StopOrder
      <3>2. QED
        BY <2>4, <3>1
    <2>9. \A u \in Threads : HasToken(u)' => \A j \in DOMAIN queue' : queue'[j] \notin backlog
      BY <1>0, <2>4, <2>5, <2>6 DEF StopOrder
    <2>10. ctl.pc \notin StopPhase => /\ backlog = {}
                                      /\ \A i \in DOMAIN queue' : queue'[i] # Stop
                                      /\ \A u \in Threads : ~HasToken(u)'
      BY <1>0, <2>2, <2>4, <2>5 DEF StopOrder
    <2>11. QED
      BY <1>0, <2>7, <2>8, <2>9, <2>10 DEF StopOrder
  <1>2. CASE Collect(t)
    <2>1. UNCHANGED <<queue, task>> /\ pc[t] = "collect"
      BY <1>2 DEF Collect
    <2>2. HasToken(t)' <=> HasToken(t)
      BY <1>2, <2>1 DEF Collect, Goto, HasToken, Busy, IInv, TypeOK
    <2>3. \A k \in Tasks : outcome'[k] \in {outcome[k], "done", "timeout"}
      BY <1>2 DEF Collect
    <2>4. \A k \in backlog : outcome'[k] \in {"queued", "taken", "done", "timeout"}
      BY <2>3 DEF StopOrder, IInv, TypeOK
    <2>5. QED
      BY <1>0, <2>1, <2>2, <2>4 DEF StopOrder
  <1>3. CASE ~ringbuffer_get(t) /\ ~Collect(t)
    <2>1. UNCHANGED <<queue, outcome>>
      BY <1>3 DEF worker_execute, Fetch, scheduler_add, SetSchedId, SetCurrent,
                  WorkReturns, TestDiscarded, ReadSchedId, DeleteTimer, Crash
    <2>2. HasToken(t)' => HasToken(t)
      BY <1>3 DEF worker_execute, Fetch, scheduler_add, SetSchedId, SetCurrent,
                  WorkReturns, TestDiscarded, ReadSchedId, DeleteTimer, Crash,
                  tvars, Goto, HasToken, Busy, IInv, TypeOK
    <2>3. QED
      BY <1>0, <2>1, <2>2, OrderFrame
  <1>4. QED
    BY <1>1, <1>2, <1>3

\* A task accepted during executor_stop is not of the backlog; a token goes
\* behind all that is queued.
LEMMA PutOrder ==
    ASSUME IInv, StopOrder, NEW x \in Tasks \cup {Stop}, x \notin backlog,
           UNCHANGED <<pc, task, backlog>>, queue' = queue \/ queue' = Append(queue, x),
           \A k \in backlog : outcome'[k] = outcome[k],
           ctl'.pc \notin StopPhase => ctl.pc \notin StopPhase /\ x # Stop
    PROVE  StopOrder'
  <1>1. \A t \in Threads : HasToken(t)' <=> HasToken(t)
    BY DEF HasToken
  <1>2. queue \in Seq(Tasks \cup {Stop}) /\ Len(queue) \in Nat /\ DOMAIN queue = 1 .. Len(queue)
    BY DEF IInv, TypeOK
  <1>3. CASE queue' = queue
    BY <1>1, <1>3 DEF StopOrder
  <1>4. CASE queue' = Append(queue, x)
    <2>1. /\ DOMAIN queue' = 1 .. Len(queue) + 1 /\ queue'[Len(queue) + 1] = x
          /\ \A i \in 1 .. Len(queue) : queue'[i] = queue[i]
      <3> DEFINE S == Tasks \cup {Stop}
      <3>1. queue \in Seq(S) /\ x \in S
        BY <1>2
      <3> HIDE DEF S
      <3>2. QED
        BY <1>2, <1>4, <3>1, AppendProperties
    <2>2. \A j \in DOMAIN queue' : queue'[j] \in backlog => j \in DOMAIN queue /\ queue[j] \in backlog
      BY <1>2, <2>1
    <2>3. \A j \in DOMAIN queue' : queue'[j] = Stop =>
              (j \in DOMAIN queue /\ queue[j] = Stop) \/ (j = Len(queue) + 1 /\ x = Stop)
      BY <1>2, <2>1
    <2>4. \A i, j \in DOMAIN queue' : queue'[i] = Stop /\ queue'[j] \in backlog => j < i
      <3> SUFFICES ASSUME NEW i \in DOMAIN queue', NEW j \in DOMAIN queue',
                          queue'[i] = Stop, queue'[j] \in backlog
                   PROVE  j < i
        OBVIOUS
      <3>1. j \in DOMAIN queue /\ queue[j] \in backlog
        BY <2>2
      <3>2. CASE i \in DOMAIN queue /\ queue[i] = Stop
        BY <3>1, <3>2 DEF StopOrder
      <3>3. CASE i = Len(queue) + 1
        BY <1>2, <3>1, <3>3
      <3>4. QED
        BY <2>3, <3>2, <3>3
    <2>5. \A t \in Threads : HasToken(t)' => \A j \in DOMAIN queue' : queue'[j] \notin backlog
      BY <1>1, <2>2 DEF StopOrder
    <2>6. QED
      BY <1>1, <2>3, <2>4, <2>5 DEF StopOrder
  <1>5. QED
    BY <1>3, <1>4

\* executor_stop fixes the backlog before it queues the first token.
LEMMA ControlOrder ==
    ASSUME IInv, StopOrder,
           \/ executor_start \/ Discarding \/ Stopping
           \/ \E k \in Tasks : executor_dispatch(k) \/ worker_discard(k)
           \/ \E wait \in BOOLEAN : executor_stop(wait)
    PROVE  StopOrder'
  <1> USE DEF wvars, tvars
  <1>1. CASE executor_start
    <2>1. CASE UNCHANGED vars
      BY <2>1, OrderFrame DEF vars, HasToken
    <2>2. CASE ctl.pc = "init"
      <3>1. /\ \A x \in Threads : pc'[x] \in {"fetch", "unborn"}
            /\ UNCHANGED <<queue, backlog, outcome>>
        BY <1>1, <2>2 DEF executor_start, vars, IInv, ControlShape, ThreadShape, Threads
      <3>2. \A x \in Threads : ~HasToken(x)'
        BY <3>1 DEF HasToken, Busy
      <3>3. QED
        BY <2>2, <3>1, <3>2, OrderFrame DEF StopPhase
    <2>3. QED
      BY <1>1, <2>1, <2>2 DEF executor_start
  <1>2. ASSUME NEW k \in Tasks, executor_dispatch(k) PROVE StopOrder'
    <2>1. outcome[k] = "new" /\ UNCHANGED <<pc, task, backlog, ctl>>
      BY <1>2 DEF executor_dispatch
    <2>2. queue' = queue \/ queue' = Append(queue, k)
      BY <1>2 DEF executor_dispatch, ringbuffer_put
    <2>3. k \notin backlog
      BY <2>1 DEF StopOrder
    <2>4. \A x \in backlog : outcome'[x] = outcome[x]
      BY <1>2, <2>3 DEF executor_dispatch, IInv, TypeOK
    <2>5. k # Stop
      BY TaskAssumption
    <2>6. QED
      BY <2>1, <2>2, <2>3, <2>4, <2>5, PutOrder
  <1>3. ASSUME NEW k \in Tasks, worker_discard(k) PROVE StopOrder'
    <2>1. UNCHANGED <<queue, backlog, outcome, pc, task>> /\ ctl.pc = "loop"
      BY <1>3 DEF worker_discard
    <2>2. QED
      BY <2>1, OrderFrame DEF HasToken, StopPhase
  <1>4. CASE FlagDiscarded \/ WipeWorker
    <2>1. UNCHANGED <<queue, backlog, outcome, pc, task>> /\ ctl.pc \in {"discard", "replace"}
      BY <1>4 DEF FlagDiscarded, WipeWorker, Crash
    <2>2. QED
      BY <2>1, OrderFrame DEF HasToken, StopPhase
  <1>5. CASE CreateThread
    <2>1. /\ nthreads + 1 \in Threads /\ pc' = [pc EXCEPT ![nthreads + 1] = "fetch"]
          /\ UNCHANGED <<queue, backlog, outcome, task>> /\ ctl.pc = "create"
      BY <1>5, PoolAssumption DEF CreateThread, Goto, Threads, IInv, TypeOK
    <2>2. \A x \in Threads : HasToken(x)' => HasToken(x)
      BY <2>1 DEF HasToken, Busy, IInv, TypeOK
    <2>3. QED
      BY <2>1, <2>2, OrderFrame DEF StopPhase
  <1>6. ASSUME NEW wait \in BOOLEAN, executor_stop(wait) PROVE StopOrder'
    <2>1. /\ ctl.pc = "loop" /\ UNCHANGED <<queue, outcome, pc, task>>
          /\ backlog' = {k \in Tasks : outcome[k] \in {"queued", "taken"}}
      BY <1>6 DEF executor_stop
    <2>2. ctl'.pc = "stop"
      BY <1>6 DEF executor_stop, IInv, TypeOK, Control
    <2>3. /\ \A i \in DOMAIN queue : queue[i] # Stop
          /\ \A t \in Threads : ~HasToken(t)
      BY <2>1 DEF StopOrder, StopPhase
    <2>4. \A t \in Threads : ~HasToken(t)'
      BY <2>1, <2>3 DEF HasToken
    <2>5. QED
      BY <2>1, <2>2, <2>3, <2>4 DEF StopOrder, StopPhase
  <1>7. CASE executor_stop_worker
    <2>1. /\ UNCHANGED <<pc, task, backlog, outcome>>
          /\ queue' = queue \/ queue' = Append(queue, Stop)
      BY <1>7 DEF executor_stop_worker, ringbuffer_put
    <2>2. ctl'.pc \in StopPhase
      BY <1>7, StopPhases DEF Stopping, IInv, StopPhase
    <2>3. Stop \notin backlog
      BY TaskAssumption DEF IInv, TypeOK
    <2>4. QED
      BY <2>1, <2>2, <2>3, PutOrder
  <1>8. CASE JoinCheck \/ pthread_join \/ StopReturns
    <2>1. UNCHANGED <<queue, backlog, outcome, pc, task>>
      BY <1>8 DEF JoinCheck, pthread_join, StopReturns
    <2>2. ctl'.pc \in StopPhase
      BY <1>8, StopPhases DEF Stopping, IInv, StopPhase
    <2>3. QED
      BY <2>1, <2>2, OrderFrame DEF HasToken
  <1>9. QED
    BY <1>1, <1>2, <1>3, <1>4, <1>5, <1>6, <1>7, <1>8 DEF Discarding, Stopping

\* A thread that has ended stays so: joins count for good.
LEMMA WorkerJoined ==
    ASSUME IInv, Joined, NEW t \in Threads, worker_execute(t)
    PROVE  Joined'
  <1>1. UNCHANGED <<ctl, nthreads>> /\ Intact' = Intact
    BY WorkerFrame DEF Intact, Replacing
  <1>2. pc[t] # "exited"
    BY DEF worker_execute, Fetch, ringbuffer_get, scheduler_add, SetSchedId, SetCurrent,
           WorkReturns, TestDiscarded, ReadSchedId, DeleteTimer, Collect
  <1>3. \A s \in Slots : pc[s] = "exited" => pc'[s] = "exited"
    BY <1>2, WorkerFrame, SlotsAreThreads
  <1>4. QED
    BY <1>1, <1>3 DEF Joined

\* pthread_join returns when the thread of the slot has ended; in an intact
\* pool that is the only thread the slot ever had.
LEMMA ControlJoined ==
    ASSUME IInv, FirstThreads, Joined,
           \/ executor_start \/ Discarding \/ Stopping
           \/ \E k \in Tasks : executor_dispatch(k) \/ worker_discard(k)
           \/ \E wait \in BOOLEAN : executor_stop(wait)
    PROVE  Joined'
  <1> USE DEF wvars, tvars
  <1>0. ctl \in Control
    BY DEF IInv, TypeOK
  <1>1. CASE UNCHANGED <<ctl, pc, nthreads>>
    BY <1>1 DEF Joined, Intact, Replacing
  <1>2. CASE ctl'.pc \notin {"join", "joining", "stopped"}
    BY <1>2 DEF Joined
  <1>3. CASE executor_start
    BY <1>0, <1>1, <1>2, <1>3 DEF executor_start, vars, Control
  <1>4. ASSUME NEW k \in Tasks, executor_dispatch(k) \/ worker_discard(k) PROVE Joined'
    <2>1. CASE executor_dispatch(k)
      BY <1>1, <2>1 DEF executor_dispatch
    <2>2. CASE worker_discard(k)
      BY <1>0, <1>2, <2>2 DEF worker_discard, Control
    <2>3. QED
      BY <1>4, <2>1, <2>2
  <1>5. CASE Discarding
    <2>1. CASE Crash
      BY <1>1, <2>1 DEF Crash
    <2>2. CASE ~Crash
      <3>1. ctl'.pc \in {"replace", "create", "loop"}
        BY <1>0, <1>5, <2>2 DEF Discarding, FlagDiscarded, WipeWorker, CreateThread, Control
      <3>2. QED
        BY <1>2, <3>1
    <2>3. QED
      BY <2>1, <2>2
  <1>6. ASSUME NEW wait \in BOOLEAN, executor_stop(wait) PROVE Joined'
    BY <1>0, <1>2, <1>6 DEF executor_stop, Control
  <1>7. CASE Stopping
    <2>0. UNCHANGED <<pc, nthreads>>
      BY <1>7, StopPhases DEF IInv
    <2> SUFFICES ASSUME Intact', ctl'.wait, ~ctl'.skipped
                 PROVE  /\ ctl'.pc \in {"join", "joining"} =>
                               \A s \in Slots : s < ctl'.slot => pc[s] = "exited"
                        /\ ctl'.pc = "stopped" => \A s \in Slots : pc[s] = "exited"
      BY <2>0 DEF Joined
    <2>1. ctl.wait /\ ~ctl.skipped /\ Intact
      <3>1. ctl.wait = ctl'.wait /\ (ctl.skipped => ctl'.skipped)
        BY <1>0, <1>7 DEF Stopping, executor_stop_worker, JoinCheck, pthread_join, StopReturns, Control
      <3>2. Replacing = 0
        BY <1>7, StopPhases DEF Replacing, IInv
      <3>3. QED
        BY <2>0, <3>1, <3>2 DEF Intact
    <2>2. CASE executor_stop_worker
      <3>1. CASE ctl.slot < N
        BY <1>0, <2>2, <3>1 DEF executor_stop_worker, Control
      <3>2. CASE ~(ctl.slot < N)
        <4>1. ctl'.pc = "join" /\ ctl'.slot = 1
          BY <1>0, <2>1, <2>2, <3>2 DEF executor_stop_worker, Control
        <4>2. \A s \in Slots : ~(s < 1)
          BY PoolAssumption DEF Slots
        <4>3. QED
          BY <4>1, <4>2
      <3>3. QED
        BY <3>1, <3>2
    <2>3. CASE JoinCheck
      <3>1. ctl'.pc = "joining" /\ ctl'.slot = ctl.slot /\ ctl.pc = "join"
        BY <1>0, <2>3 DEF JoinCheck, Control
      <3>2. QED
        BY <2>1, <3>1 DEF Joined
    <2>4. CASE pthread_join
      <3>1. ctl.pc = "joining" /\ ctl'.pc = "join" /\ ctl'.slot = ctl.slot + 1
        BY <1>0, <2>4 DEF pthread_join, Control
      <3>2. ctl.slot \in Slots /\ pc[thread[ctl.slot]] = "exited"
        BY <2>4, <3>1 DEF pthread_join, IInv, ControlShape
      <3>3. pc[ctl.slot] = "exited"
        BY <2>1, <3>2 DEF FirstThreads
      <3>4. \A s \in Slots : s < ctl.slot + 1 => s < ctl.slot \/ s = ctl.slot
        BY <3>2, PoolAssumption DEF Slots
      <3>5. QED
        BY <2>1, <3>1, <3>3, <3>4 DEF Joined
    <2>5. CASE StopReturns
      <3>1. ctl.pc = "join" /\ ctl.slot = N + 1 /\ ctl'.pc = "stopped"
        BY <1>0, <2>5 DEF StopReturns, Control
      <3>2. \A s \in Slots : s < N + 1
        BY PoolAssumption DEF Slots
      <3>3. QED
        BY <2>1, <3>1, <3>2 DEF Joined
    <2>6. QED
      BY <1>7, <2>2, <2>3, <2>4, <2>5 DEF Stopping
  <1>8. QED
    BY <1>3, <1>4, <1>5, <1>6, <1>7

\* When all threads have ended and nothing of the backlog is queued, all of
\* it has been collected.
LEMMA OrderDrains == IInv /\ FirstThreads /\ StopOrder /\ Joined => DrainedOnStop
  <1> SUFFICES ASSUME IInv, FirstThreads, StopOrder, Joined,
                      ctl.pc = "stopped", ctl.wait, ~ctl.skipped, nthreads = N, NEW k \in backlog
               PROVE  outcome[k] \in {"done", "timeout"}
    BY DEF DrainedOnStop
  <1>1. \A s \in Slots : pc[s] = "exited"
    BY DEF Joined, Intact, Replacing
  <1>2. \A t \in Threads : t \in Slots \/ pc[t] = "unborn"
    BY PoolAssumption DEF IInv, ThreadShape, Threads, Slots
  <1>3. Workers = {}
    BY <1>1, <1>2 DEF Workers, Busy
  <1>4. 1 \in Slots /\ 1 \in Threads /\ pc[1] = "exited"
    BY <1>1, SlotRange, SlotsAreThreads
  <1>5. \A j \in DOMAIN queue : queue[j] \notin backlog
    BY <1>4 DEF StopOrder, HasToken
  <1>6. k \in Tasks /\ outcome[k] \in {"queued", "taken", "done", "timeout"}
    BY DEF IInv, TypeOK, StopOrder
  <1>7. outcome[k] # "taken" /\ outcome[k] # "queued"
    BY <1>3, <1>5, <1>6 DEF IInv, TaskAccounting
  <1>8. QED
    BY <1>6, <1>7

\* When executor_stop(wait) returns from a pool that lost no worker to a
\* timeout and has waited for every one of them, every task that was queued or
\* running when it was called has been reported to its collect callback,
\* whatever tasks were accepted meanwhile.
THEOREM StopDrains == Spec => []DrainedOnStop
  <1>1. Init => StopOrder /\ Joined
    <2> SUFFICES ASSUME Init PROVE StopOrder /\ Joined
      OBVIOUS
    <2>1. ctl.pc = "init" /\ queue = <<>> /\ backlog = {} /\ DOMAIN queue = {}
      BY DEF Init
    <2>2. \A t \in Threads : ~HasToken(t)
      BY DEF Init, HasToken, Busy
    <2>3. QED
      BY <2>1, <2>2 DEF StopOrder, Joined
  <1>2. IInv /\ FirstThreads /\ StopOrder /\ Joined /\ [Next]_vars => StopOrder' /\ Joined'
    <2> SUFFICES ASSUME IInv, FirstThreads, StopOrder, Joined, [Next]_vars
                 PROVE  StopOrder' /\ Joined'
      OBVIOUS
    <2>1. CASE UNCHANGED vars
      <3>1. Joined'
        BY <2>1 DEF vars, tvars, Joined, Intact, Replacing
      <3>2. StopOrder'
        BY <2>1, OrderFrame DEF vars, tvars, HasToken
      <3>3. QED
        BY <3>1, <3>2
    <2>2. CASE Next
      BY <2>2, WorkerOrder, ControlOrder, WorkerJoined, ControlJoined DEF Next
    <2>3. QED
      BY <2>1, <2>2
  <1>3. QED
    BY <1>1, <1>2, FirstThreadsHold, OrderDrains, PTL DEF Spec
=============================================================================
