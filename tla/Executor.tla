------------------------------ MODULE Executor ------------------------------
(***************************************************************************)
(* lib/executor.c: a pool of worker threads that run queued tasks, with a  *)
(* timeout per task.  A timer that expires (worker_discard) flags the task *)
(* its worker runs as discarded and gives the worker's slot a fresh        *)
(* thread; the old thread lives on and shares the slot's Worker structure  *)
(* with the new one, without a lock.                                       *)
(*                                                                         *)
(* One step is one access to shared memory: the task queue, whose critical *)
(* sections RingBuffer shows to be those of a bounded FIFO queue, a timer  *)
(* call of the scheduler, or a field of a Worker.  The control thread is   *)
(* the one that runs the main loop: it starts the pool, runs the timers    *)
(* that expire, and stops the pool after the main loop has ended.          *)
(***************************************************************************)
EXTENDS Integers, FiniteSets, Sequences

CONSTANTS
    N,           \* exc->workers_count
    MaxTasks,    \* the capacity of exc->tasks
    Tasks,       \* the tasks callers dispatch, each of them once
    Timed,       \* those dispatched with a timeout
    Oversized,   \* those whose data exceed TASK_DATA_EMBED_MAX_SIZE
    Hanging,     \* those whose work function may never return
    Standalone,  \* the scheduler runs its own main context
    Stop,        \* the task queued by executor_stop_worker
    NoTask,      \* a zeroed TaskData, a zero timer id
    MaxThreads   \* bound: threads ever created

ASSUME PoolAssumption ==
    /\ N \in Nat \ {0} /\ MaxTasks \in Nat \ {0}
    /\ MaxThreads \in Nat /\ N <= MaxThreads
ASSUME TaskAssumption ==
    /\ IsFiniteSet(Tasks) /\ Stop \notin Tasks /\ NoTask \notin Tasks \cup {Stop}
    /\ Timed \subseteq Tasks /\ Oversized \subseteq Tasks /\ Hanging \subseteq Tasks
ASSUME ModeAssumption == Standalone \in BOOLEAN

Slots == 1 .. N                 \* exc->workers
Threads == 1 .. MaxThreads      \* in order of creation
NULL == 0                       \* no slot, no thread

VARIABLES
    queue, running,             \* exc->tasks, exc->running
    ready,                      \* ready[s]: executor and scheduler of slot s are set
    thread, sched_id, current,  \* of Worker s; current[s] is the thread whose
                                \* stack holds the task; a timer is named after
                                \* the task it was armed for
    timers,                     \* timers[k]: the slot to discard when the timer
                                \* of task k expires, NULL when not armed
    nthreads,                   \* pthread_create calls so far
    pc, slot, task, discarded,  \* per thread: the step of worker_execute, the
    del_id,                     \* Worker, the TaskData on its stack, and the
                                \* timer it is about to delete
    ctl,                        \* the control thread, see Control
    outcome,                    \* per task: what became of it
    backlog,                    \* tasks waiting or running when executor_stop began
    crashed                     \* a NULL Worker field was dereferenced

wvars == <<ready, thread, sched_id, current>>
tvars == <<nthreads, pc, slot, task, discarded, del_id>>
vars == <<queue, running, wvars, timers, tvars, ctl, outcome, backlog, crashed>>

\* ctl: the step, the slot being replaced or joined, the pointer read by
\* worker_discard, executor_stop's argument, its result, whether it skipped a join.
Control == [pc : {"init", "loop", "discard", "replace", "create", "stop",
                  "join", "joining", "stopped"},
            slot : 0 .. N + 1, ptr : Threads \cup {NULL}, wait : BOOLEAN,
            err : {0, -1}, skipped : BOOLEAN]

Outcomes == {"new", "too_much_data", "not_running", "queued", "taken", "done", "timeout"}

Busy == {"arm", "setid", "setcur", "work", "test", "readid", "del", "collect"}

Init ==
    /\ queue = <<>> /\ running = FALSE
    /\ ready = [s \in Slots |-> FALSE]
    /\ thread = [s \in Slots |-> NULL]
    /\ sched_id = [s \in Slots |-> NoTask]
    /\ current = [s \in Slots |-> NULL]
    /\ timers = [k \in Tasks |-> NULL]
    /\ nthreads = 0
    /\ pc = [t \in Threads |-> "unborn"]
    /\ slot = [t \in Threads |-> NULL]
    /\ task = [t \in Threads |-> NoTask]
    /\ discarded = [t \in Threads |-> FALSE]
    /\ del_id = [t \in Threads |-> NoTask]
    /\ ctl = [pc |-> "init", slot |-> NULL, ptr |-> NULL, wait |-> FALSE,
              err |-> 0, skipped |-> FALSE]
    /\ outcome = [k \in Tasks |-> "new"]
    /\ backlog = {} /\ crashed = FALSE

Crash == crashed' = TRUE /\ UNCHANGED <<queue, running, wvars, timers, tvars,
                                        ctl, outcome, backlog>>

-----------------------------------------------------------------------------
(* Starting the pool and dispatching tasks *)

\* All workers at once: until executor_start returns nothing can be queued,
\* so the first threads can only block on the empty queue.
executor_start ==
    \/ /\ ctl.pc = "init"
       /\ running' = TRUE
       /\ ready' = [s \in Slots |-> TRUE]
       /\ thread' = [s \in Slots |-> s]
       /\ nthreads' = N
       /\ pc' = [t \in Threads |-> IF t \in Slots THEN "fetch" ELSE "unborn"]
       /\ slot' = [t \in Threads |-> IF t \in Slots THEN t ELSE NULL]
       /\ ctl' = [ctl EXCEPT !.pc = "loop"]
       /\ UNCHANGED <<queue, sched_id, current, timers, task, discarded,
                      del_id, outcome, backlog, crashed>>
    \/ /\ ctl.pc = "loop" /\ running        \* EXECUTOR_ERROR_ALREADY_STARTED
       /\ UNCHANGED vars

\* Mutation: the buffer grows past its capacity.
ringbuffer_put_Unbounded(k) == queue' = Append(queue, k)
\* ringbuffer_put: refuses (-1) what does not fit.
ringbuffer_put(k) ==
    IF Len(queue) < MaxTasks THEN queue' = Append(queue, k) ELSE UNCHANGED queue

\* The control thread dispatches between callbacks and after executor_stop; a
\* task's work function dispatches from a worker thread.  A standalone
\* scheduler runs the callbacks in a thread of its own.
MayDispatch ==
    \/ ctl.pc \in {"loop", "stopped"}
    \/ Standalone /\ ctl.pc \in {"discard", "replace", "create"}
    \/ \E t \in Threads : pc[t] = "work" /\ task[t] # Stop

\* The -1 of a full ring buffer is what EXECUTOR_ERROR_NOT_RUNNING is, too.
DispatchResult(k) ==
    CASE k \in Oversized -> "too_much_data"
      [] k \notin Oversized /\ ~running -> "not_running"
      [] k \notin Oversized /\ running /\ Len(queue) >= MaxTasks -> "not_running"
      [] OTHER -> "queued"

\* Mutation: the task is announced as queued although the queue was full.
executor_dispatch_IgnoreFull(k) ==
    /\ MayDispatch
    /\ outcome[k] = "new"
    /\ running /\ k \notin Oversized
    /\ outcome' = [outcome EXCEPT ![k] = "queued"]
    /\ ringbuffer_put(k)
    /\ UNCHANGED <<running, wvars, timers, tvars, ctl, backlog, crashed>>
executor_dispatch(k) ==
    /\ MayDispatch
    /\ outcome[k] = "new"
    /\ outcome' = [outcome EXCEPT ![k] = DispatchResult(k)]
    /\ IF running /\ k \notin Oversized THEN ringbuffer_put(k) ELSE UNCHANGED queue
    /\ UNCHANGED <<running, wvars, timers, tvars, ctl, backlog, crashed>>

-----------------------------------------------------------------------------
(* worker_execute, as run over and over by worker_run in thread t *)

Goto(t, label) == pc' = [pc EXCEPT ![t] = label]

\* The TaskData on the stack is zeroed; wo->executor->tasks is read before
\* ringbuffer_get blocks.
Fetch(t) ==
    /\ pc[t] = "fetch"
    /\ \/ /\ ready[slot[t]]
          /\ task' = [task EXCEPT ![t] = NoTask]
          /\ discarded' = [discarded EXCEPT ![t] = FALSE]
          /\ Goto(t, "get")
          /\ UNCHANGED <<queue, running, wvars, timers, nthreads, slot, del_id, ctl,
                         outcome, backlog, crashed>>
       \/ ~ready[slot[t]] /\ Crash

\* The whole TaskData on the stack is overwritten, its flags too.
ringbuffer_get(t) ==
    /\ pc[t] = "get" /\ queue # <<>>
    /\ queue' = Tail(queue)
    /\ task' = [task EXCEPT ![t] = Head(queue)]
    /\ discarded' = [discarded EXCEPT ![t] = FALSE]
    /\ Goto(t, IF Head(queue) \in Timed THEN "arm" ELSE "setcur")
    /\ outcome' = [k \in Tasks |-> IF k = Head(queue) THEN "taken" ELSE outcome[k]]
    /\ UNCHANGED <<running, wvars, timers, nthreads, slot, del_id, ctl, backlog, crashed>>

\* scheduler_add(wo->scheduler, timeout, worker_discard, wo)
scheduler_add(t) ==
    /\ pc[t] = "arm"
    /\ \/ /\ ready[slot[t]]
          /\ timers' = [timers EXCEPT ![task[t]] = slot[t]]
          /\ Goto(t, "setid")
          /\ UNCHANGED <<queue, running, wvars, nthreads, slot, task, discarded,
                         del_id, ctl, outcome, backlog, crashed>>
       \/ ~ready[slot[t]] /\ Crash

SetSchedId(t) ==
    /\ pc[t] = "setid"
    /\ sched_id' = [sched_id EXCEPT ![slot[t]] = task[t]]
    /\ Goto(t, "setcur")
    /\ UNCHANGED <<queue, running, ready, thread, current, timers, nthreads,
                   slot, task, discarded, del_id, ctl, outcome, backlog, crashed>>

SetCurrent(t) ==
    /\ pc[t] = "setcur"
    /\ current' = [current EXCEPT ![slot[t]] = t]
    /\ Goto(t, "work")
    /\ UNCHANGED <<queue, running, ready, thread, sched_id, timers, nthreads,
                   slot, task, discarded, del_id, ctl, outcome, backlog, crashed>>

\* The work function returns and wo->current = NULL.
WorkReturns(t) ==
    /\ pc[t] = "work"
    /\ current' = [current EXCEPT ![slot[t]] = NULL]
    /\ Goto(t, "test")
    /\ UNCHANGED <<queue, running, ready, thread, sched_id, timers, nthreads,
                   slot, task, discarded, del_id, ctl, outcome, backlog, crashed>>

\* g_source_remove looks the id up in the default main context, so it finds
\* no timer of a standalone scheduler.
scheduler_del(id) ==
    IF Standalone \/ id = NoTask THEN UNCHANGED timers
    ELSE timers' = [timers EXCEPT ![id] = NULL]

\* Is there a timer to delete?  It may still expire after this.
TestDiscarded(t) ==
    /\ pc[t] = "test"
    /\ Goto(t, IF task[t] \in Timed /\ ~discarded[t] THEN "readid" ELSE "collect")
    /\ UNCHANGED <<queue, running, wvars, timers, nthreads, slot, task, discarded,
                   del_id, ctl, outcome, backlog, crashed>>

\* Whatever timer wo->sched_id names now.
ReadSchedId(t) ==
    /\ pc[t] = "readid"
    /\ del_id' = [del_id EXCEPT ![t] = sched_id[slot[t]]]
    /\ Goto(t, "del")
    /\ UNCHANGED <<queue, running, wvars, timers, nthreads, slot, task, discarded,
                   ctl, outcome, backlog, crashed>>

\* Mutation: the timer is not deleted.
DeleteTimer_Never(t) ==
    /\ pc[t] = "del"
    /\ del_id' = [del_id EXCEPT ![t] = NoTask]
    /\ Goto(t, "collect")
    /\ UNCHANGED <<queue, running, wvars, timers, nthreads, slot, task, discarded, ctl,
                   outcome, backlog, crashed>>
DeleteTimer(t) ==
    /\ pc[t] = "del"
    /\ scheduler_del(del_id[t])
    /\ del_id' = [del_id EXCEPT ![t] = NoTask]
    /\ Goto(t, "collect")
    /\ UNCHANGED <<queue, running, wvars, nthreads, slot, task, discarded, ctl,
                   outcome, backlog, crashed>>

\* Mutation: a thread that was replaced takes all its tasks for discarded ones.
Collect_Replaced(t) ==
    /\ pc[t] = "collect"
    /\ Goto(t, IF task[t] = Stop THEN "exited" ELSE "fetch")
    /\ outcome' = [k \in Tasks |-> IF k # task[t] THEN outcome[k]
                                   ELSE IF thread[slot[t]] # t THEN "timeout" ELSE "done"]
    /\ UNCHANGED <<queue, running, wvars, timers, nthreads, slot, task,
                   discarded, del_id, ctl, backlog, crashed>>
\* collect(data, err, discarded): 0 for the tasks of the sampler, so that
\* worker_run loops; StopCollect hands back StopWorker's 1 and ends it.
Collect(t) ==
    /\ pc[t] = "collect"
    /\ Goto(t, IF task[t] = Stop THEN "exited" ELSE "fetch")
    /\ outcome' = [k \in Tasks |-> IF k # task[t] THEN outcome[k]
                                   ELSE IF discarded[t] THEN "timeout" ELSE "done"]
    /\ UNCHANGED <<queue, running, wvars, timers, nthreads, slot, task,
                   discarded, del_id, ctl, backlog, crashed>>

worker_execute(t) ==
    Fetch(t) \/ ringbuffer_get(t) \/ scheduler_add(t) \/ SetSchedId(t)
      \/ SetCurrent(t) \/ WorkReturns(t) \/ TestDiscarded(t) \/ ReadSchedId(t)
      \/ DeleteTimer(t) \/ Collect(t)

-----------------------------------------------------------------------------
(* worker_discard, executor_replace and worker_init in the main loop *)

\* Mutation: a worker that runs nothing right now is not replaced.
worker_discard_SkipIdle(k) ==
    /\ ctl.pc = "loop" /\ timers[k] # NULL
    /\ timers' = [timers EXCEPT ![k] = NULL]
    /\ ctl' = IF current[timers[k]] = NULL THEN ctl
              ELSE [ctl EXCEPT !.pc = "discard", !.slot = timers[k],
                               !.ptr = current[timers[k]]]
    /\ UNCHANGED <<queue, running, wvars, tvars, outcome, backlog, crashed>>
\* Mutation: the timeout is reported as soon as the timer expires.
worker_discard_Reports(k) ==
    /\ ctl.pc = "loop" /\ timers[k] # NULL
    /\ timers' = [timers EXCEPT ![k] = NULL]
    /\ ctl' = [ctl EXCEPT !.pc = "discard", !.slot = timers[k],
                          !.ptr = current[timers[k]]]
    /\ outcome' = [outcome EXCEPT ![k] = "timeout"]
    /\ UNCHANGED <<queue, running, wvars, tvars, backlog, crashed>>
\* The timer of task k expires; worker_discard tests wo->current.
worker_discard(k) ==
    /\ ctl.pc = "loop" /\ timers[k] # NULL
    /\ timers' = [timers EXCEPT ![k] = NULL]
    /\ ctl' = [ctl EXCEPT !.pc = "discard", !.slot = timers[k],
                          !.ptr = current[timers[k]]]
    /\ UNCHANGED <<queue, running, wvars, tvars, outcome, backlog, crashed>>

\* wo->current->td.discarded = 1, through the pointer that was tested or
\* through one read again, as the compiler likes: the field is not protected.
FlagDiscarded ==
    /\ ctl.pc = "discard"
    /\ \/ /\ \/ ctl.ptr = NULL /\ UNCHANGED discarded
             \/ /\ ctl.ptr # NULL
                /\ \E p \in {ctl.ptr, current[ctl.slot]} \ {NULL} :
                       discarded' = [discarded EXCEPT ![p] = TRUE]
          /\ ctl' = [ctl EXCEPT !.pc = "replace", !.ptr = NULL]
          /\ UNCHANGED <<queue, running, wvars, timers, nthreads, pc, slot, task,
                         del_id, outcome, backlog, crashed>>
       \/ ctl.ptr # NULL /\ current[ctl.slot] = NULL /\ Crash

\* executor_replace, worker_init: the memset of the Worker.
WipeWorker ==
    /\ ctl.pc = "replace"
    /\ LET s == ctl.slot
       IN  /\ ready' = [ready EXCEPT ![s] = FALSE]
           /\ thread' = [thread EXCEPT ![s] = NULL]
           /\ sched_id' = [sched_id EXCEPT ![s] = NoTask]
           /\ current' = [current EXCEPT ![s] = NULL]
    /\ ctl' = [ctl EXCEPT !.pc = "create"]
    /\ UNCHANGED <<queue, running, timers, tvars, outcome, backlog, crashed>>

\* Mutation: the fields wiped by the memset are not set again.
CreateThread_NoFields ==
    /\ ctl.pc = "create" /\ nthreads < MaxThreads
    /\ LET s == ctl.slot  t == nthreads + 1
       IN  /\ thread' = [thread EXCEPT ![s] = t]
           /\ nthreads' = t
           /\ slot' = [slot EXCEPT ![t] = s]
           /\ Goto(t, "fetch")
    /\ ctl' = [ctl EXCEPT !.pc = "loop", !.slot = NULL]
    /\ UNCHANGED <<queue, running, ready, sched_id, current, timers, task,
                   discarded, del_id, outcome, backlog, crashed>>
\* worker_init goes on: the fields, then pthread_create.
CreateThread ==
    /\ ctl.pc = "create" /\ nthreads < MaxThreads
    /\ LET s == ctl.slot  t == nthreads + 1
       IN  /\ ready' = [ready EXCEPT ![s] = TRUE]
           /\ thread' = [thread EXCEPT ![s] = t]
           /\ nthreads' = t
           /\ slot' = [slot EXCEPT ![t] = s]
           /\ Goto(t, "fetch")
    /\ ctl' = [ctl EXCEPT !.pc = "loop", !.slot = NULL]
    /\ UNCHANGED <<queue, running, sched_id, current, timers, task, discarded,
                   del_id, outcome, backlog, crashed>>

-----------------------------------------------------------------------------
(* executor_stop, after the main loop has ended: no timer expires any more *)

executor_stop(wait) ==
    /\ ctl.pc = "loop"
    /\ ctl' = [ctl EXCEPT !.pc = "stop", !.slot = 1, !.wait = wait]
    /\ backlog' = {k \in Tasks : outcome[k] \in {"queued", "taken"}}
    /\ UNCHANGED <<queue, running, wvars, timers, tvars, outcome, crashed>>

\* Mutation: the last slot gets no token.
executor_stop_worker_OneShort ==
    /\ ctl.pc = "stop"
    /\ IF ctl.slot < N THEN ringbuffer_put(Stop) ELSE UNCHANGED queue
    /\ ctl' = IF ctl.slot < N THEN [ctl EXCEPT !.slot = @ + 1]
              ELSE [ctl EXCEPT !.pc = "join", !.slot = IF ctl.wait THEN 1 ELSE N + 1]
    /\ UNCHANGED <<running, wvars, timers, tvars, outcome, backlog, crashed>>
\* One token per slot; the result of ringbuffer_put is ignored.
executor_stop_worker ==
    /\ ctl.pc = "stop"
    /\ ringbuffer_put(Stop)
    /\ ctl' = IF ctl.slot < N THEN [ctl EXCEPT !.slot = @ + 1]
              ELSE [ctl EXCEPT !.pc = "join", !.slot = IF ctl.wait THEN 1 ELSE N + 1]
    /\ UNCHANGED <<running, wvars, timers, tvars, outcome, backlog, crashed>>

\* worker_join(wo, wait): a worker that runs something is not waited for, and
\* that is an error.
JoinCheck ==
    /\ ctl.pc = "join" /\ ctl.slot <= N
    /\ ctl' = IF current[ctl.slot] # NULL
              THEN [ctl EXCEPT !.slot = @ + 1, !.err = -1, !.skipped = TRUE]
              ELSE [ctl EXCEPT !.pc = "joining"]
    /\ UNCHANGED <<queue, running, wvars, timers, tvars, outcome, backlog, crashed>>

\* Mutation: the thread is not waited for.
pthread_join_Detach ==
    /\ ctl.pc = "joining"
    /\ ctl' = [ctl EXCEPT !.pc = "join", !.slot = @ + 1, !.err = 0]
    /\ UNCHANGED <<queue, running, wvars, timers, tvars, outcome, backlog, crashed>>
\* err is overwritten by each join: the last one decides.
pthread_join ==
    /\ ctl.pc = "joining" /\ pc[thread[ctl.slot]] = "exited"
    /\ ctl' = [ctl EXCEPT !.pc = "join", !.slot = @ + 1, !.err = 0]
    /\ UNCHANGED <<queue, running, wvars, timers, tvars, outcome, backlog, crashed>>

StopReturns ==
    /\ ctl.pc = "join" /\ ctl.slot = N + 1
    /\ running' = FALSE
    /\ ctl' = [ctl EXCEPT !.pc = "stopped", !.slot = NULL]
    /\ UNCHANGED <<queue, wvars, timers, tvars, outcome, backlog, crashed>>

-----------------------------------------------------------------------------
Discarding == FlagDiscarded \/ WipeWorker \/ CreateThread
Stopping == executor_stop_worker \/ JoinCheck \/ pthread_join \/ StopReturns

\* Nothing runs in a program that has crashed.
Next ==
    \/ ~crashed /\ executor_start
    \/ ~crashed /\ \E k \in Tasks : executor_dispatch(k) \/ worker_discard(k)
    \/ ~crashed /\ \E t \in Threads : worker_execute(t)
    \/ ~crashed /\ Discarding
    \/ ~crashed /\ \E wait \in BOOLEAN : executor_stop(wait)
    \/ ~crashed /\ Stopping

Spec == Init /\ [][Next]_vars

\* Threads are scheduled, a task that does not hang returns, and the main
\* loop runs the timers that have expired while it is alive.  Which thread
\* gets the next element is up to the condition variable: only some thread
\* that can take one does (ServesBlocked of RingBuffer).
Advances(t) ==
    ~crashed /\ \/ Fetch(t) \/ scheduler_add(t) \/ SetSchedId(t) \/ SetCurrent(t)
                \/ task[t] \notin Hanging /\ WorkReturns(t)
                \/ TestDiscarded(t) \/ ReadSchedId(t) \/ DeleteTimer(t) \/ Collect(t)
Fairness ==
    /\ WF_vars(~crashed /\ \E t \in Threads : ringbuffer_get(t))
    /\ \A t \in Threads : WF_vars(Advances(t))
    /\ WF_vars(~crashed /\ \E k \in Tasks : worker_discard(k))
    /\ WF_vars(~crashed /\ (Discarding \/ Stopping))
FairSpec == Spec /\ Fairness

-----------------------------------------------------------------------------
TypeOK ==
    /\ queue \in Seq(Tasks \cup {Stop}) /\ Len(queue) <= MaxTasks
    /\ running \in BOOLEAN /\ crashed \in BOOLEAN
    /\ ready \in [Slots -> BOOLEAN]
    /\ thread \in [Slots -> Threads \cup {NULL}]
    /\ sched_id \in [Slots -> Tasks \cup {NoTask}]
    /\ current \in [Slots -> Threads \cup {NULL}]
    /\ timers \in [Tasks -> Slots \cup {NULL}]
    /\ nthreads \in 0 .. MaxThreads
    /\ pc \in [Threads -> Busy \cup {"unborn", "fetch", "get", "exited"}]
    /\ slot \in [Threads -> Slots \cup {NULL}]
    /\ task \in [Threads -> Tasks \cup {Stop, NoTask}]
    /\ discarded \in [Threads -> BOOLEAN]
    /\ del_id \in [Threads -> Tasks \cup {NoTask}]
    /\ ctl \in Control
    /\ outcome \in [Tasks -> Outcomes]
    /\ backlog \subseteq Tasks

Workers == {t \in Threads : pc[t] \in Busy}

\* A task is in one place: it waits at one position of the queue, or one
\* thread has it, or it is in neither; so it is worked and collected once,
\* although two threads may share the Worker it runs in, and none gets lost.
TaskAccounting ==
    /\ \A i \in DOMAIN queue : queue[i] \in Tasks =>
           /\ outcome[queue[i]] = "queued"
           /\ \A j \in DOMAIN queue : queue[j] = queue[i] => j = i
    /\ \A t \in Workers : task[t] \in Tasks =>
           /\ outcome[task[t]] = "taken"
           /\ \A u \in Workers : task[u] = task[t] => u = t
    /\ \A k \in Tasks :
           /\ outcome[k] = "queued" => \E i \in DOMAIN queue : queue[i] = k
           /\ outcome[k] = "taken" => \E t \in Workers : task[t] = k

\* The executor as its callers see it: see TaskPool.
TP == INSTANCE TaskPool
ImplementsPool == TP!Spec

Armed == {k \in Tasks : timers[k] # NULL}
Replacing == IF ctl.pc \in {"discard", "replace", "create"} THEN 1 ELSE 0
\* The threads inside a task with a timeout, from arming its timer to the
\* point where that timer is given up.
Guarded == {t \in Threads :
    pc[t] \in {"setid", "setcur", "work", "test", "readid", "del"} /\ task[t] \in Timed}

\* The pool never shrinks: the threads not inside a timed task, the timers
\* that will replace a thread and the replacement under way are never fewer
\* than the configured workers, even though a thread may delete the timer of
\* another task through the sched_id they share (worker_execute:123).
PoolCapacity ==
    ctl.pc \in {"loop", "discard", "replace", "create"} =>
        nthreads + Cardinality(Armed) + Replacing >= N + Cardinality(Guarded)

Flagged == {t \in Threads : pc[t] \in Busy /\ discarded[t]}
TimedOut == {k \in Tasks : outcome[k] = "timeout"}

\* Each timeout reported to a collect callback has an expired timer of its
\* own behind it: one expiry never discards two tasks, stale pointers
\* (worker_discard:82-83) included.
TimeoutsBacked ==
    Cardinality(TimedOut) + Cardinality(Flagged)
        <= IF ctl.pc = "init" THEN 0
           ELSE nthreads - N + IF ctl.pc \in {"replace", "create"} THEN 1 ELSE 0

\* As long as no worker has been replaced the timers are exact: the armed
\* ones belong to the tasks being run, in the slot of their thread, and
\* sched_id names the timer its thread is going to delete.
ExactTimers ==
    nthreads = N /\ Replacing = 0 /\ ~Standalone =>
        /\ Armed = {task[t] : t \in Guarded}
        /\ \A t \in Guarded :
               /\ timers[task[t]] = slot[t]
               /\ pc[t] # "setid" => sched_id[slot[t]] = task[t]

\* The program dereferences a NULL field of a Worker in two windows only, both
\* of them inside a discard: worker_discard's second look at wo->current after
\* the thread has let go of it (worker_discard:82-83), and a thread that goes
\* for its next task or timer between the memset of its Worker and the fields
\* set again (worker_init:151-154).  Before and after, a thread that shares a
\* Worker with its replacement finds what it needs there.
CrashOnlyInDiscard == crashed => ctl.pc \in {"discard", "create"}

\* When executor_stop(wait) has waited for every worker of a pool that never
\* lost one to a timeout, what had been accepted before has been collected.
DrainedOnStop ==
    ctl.pc = "stopped" /\ ctl.wait /\ ~ctl.skipped /\ nthreads = N =>
        \A k \in backlog : outcome[k] \in {"done", "timeout"}

\* Every accepted task is taken by a worker, even when tasks hang, unless the
\* program stops first or runs into the wiped Worker.
TasksServed ==
    \A k \in Tasks : outcome[k] = "queued" ~>
        outcome[k] # "queued" \/ ctl.pc \in {"stop", "join", "joining", "stopped"} \/ crashed

\* executor_stop returns, as the tests' teardown (tests/test_executor.c:136)
\* needs it to.
StopCompletes == ctl.pc = "stop" ~> ctl.pc = "stopped" \/ crashed
=============================================================================
