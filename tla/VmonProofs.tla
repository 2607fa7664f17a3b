----------------------------- MODULE VmonProofs -----------------------------
(***************************************************************************)
(* Proofs about Vmon, for any number of workers, threads and dispatches    *)
(* and any set of command lines.                                           *)
(***************************************************************************)
EXTENDS Vmon, SequenceTheorems, TLAPS

Early == {"start", "log", "connect", "scheduler", "executor"}
Over == {"cleanup_sched", "cleanup_libvirt", "done", "exited"}
Elements == {"task", "stop"}
Connected == {"scheduler", "executor", "workers", "setup_io", "loop", "quit", "tokens", "join",
              "cleanup_sched", "cleanup_libvirt"}

USE VmonAssumption

(***************************************************************************)
(* Types                                                                   *)
(***************************************************************************)

LEMMA ConfType ==
    ASSUME TypeOK
    PROVE  /\ conf.threads \in Int /\ conf.threads <= MaxWorkers /\ conf.tasks \in Int
           /\ conf.timeout \in Int /\ conf.period \in Int
           /\ conf.log_level \in Int /\ conf.log_file \in BOOLEAN
  BY DEF TypeOK

\* What vmon_log adds.
LEMMA LogType ==
    ASSUME NEW t \in Threads \cup {Main}
    PROVE  /\ vmon_log(t) \subseteq {<<"log", t>>}
           /\ vmon_log(t)' \subseteq {<<"log", t>>}
  BY DEF vmon_log

LEMMA InitType == Init => TypeOK
<1> SUFFICES ASSUME Init PROVE TypeOK
  OBVIOUS
<1>1. queue \in Seq({"task", "stop"})
  BY EmptySeq DEF Init
<1>2. /\ th \in [Threads -> {"unborn", "idle", "busy", "stopping", "ended"}]
      /\ slot \in [Workers -> Threads \cup {None}]
  BY DEF Init
<1>3. conf \in Confs /\ pc \in Labels /\ j \in 0 .. MaxWorkers /\ err \in {0, -1}
  BY DEF Init, Labels
<1>4. /\ log = "none" /\ conn = "none" /\ sched = "none" /\ watch = FALSE
      /\ dispatched \in 0 .. MaxDispatch /\ events = {} /\ misuse = {}
  BY DEF Init
<1> QED
  BY <1>1, <1>2, <1>3, <1>4 DEF TypeOK

LEMMA StartType == TypeOK /\ Start => TypeOK'
<1> SUFFICES ASSUME TypeOK, Start PROVE TypeOK'
  OBVIOUS
<1>1. CASE config_parse_cmdline \/ vmon_setup_log \/ virConnectOpenReadOnly
  <2>1. /\ UNCHANGED <<conf, sched, watch, pool, events, misuse>>
        /\ pc' \in {"log", "done", "connect", "aborted", "scheduler"} /\ j' = j
        /\ err' \in {err, -1} /\ conn' \in {conn, "open"} /\ log' \in {log, "file", "stderr"}
    BY <1>1 DEF config_parse_cmdline, vmon_setup_log, virConnectOpenReadOnly, Goto, Fail, res
  <2> QED
    BY <2>1 DEF TypeOK, Labels, pool
<1>2. CASE scheduler_init \/ executor_init \/ ExecutorStarted \/ vmon_setup_io
  <2>1. /\ UNCHANGED <<conf, log, conn, pool, events, misuse>>
        /\ pc' \in {"executor", "workers", "setup_io", "loop", "cleanup_sched", "cleanup_libvirt"}
        /\ j' \in {j, 0} /\ err' \in {err, -1} /\ sched' \in {sched, "alive"}
    BY <1>2 DEF scheduler_init, executor_init, ExecutorStarted, vmon_setup_io, Goto, Fail, res
  <2>2. watch' \in BOOLEAN
    BY <1>2 DEF scheduler_init, executor_init, ExecutorStarted, vmon_setup_io, TypeOK, res
  <2> QED
    BY <2>1, <2>2 DEF TypeOK, Labels, pool
<1>3. CASE executor_start
  <2>1. j < conf.threads /\ j' = j + 1 /\ j \in Nat
    BY <1>3 DEF executor_start, TypeOK
  <2>2. j + 1 \in Workers /\ j' \in 0 .. MaxWorkers
    BY <2>1, ConfType DEF Workers
  <2>3. th' \in [Threads -> {"unborn", "idle", "busy", "stopping", "ended"}]
    BY <1>3 DEF executor_start, worker_init, TypeOK
  <2>4. slot' \in [Workers -> Threads \cup {None}]
    BY <1>3, <2>2 DEF executor_start, worker_init, TypeOK
  <2>5. events' \subseteq {"eof", "io_error", "discarded", "skipped", "no_thread", "no_token"}
    BY <1>3 DEF executor_start, worker_init, TypeOK
  <2>6. err' \in {0, -1} /\ UNCHANGED <<conf, pc, log, conn, sched, watch, queue, dispatched, misuse>>
    BY <1>3 DEF executor_start, res
  <2> QED
    BY <2>2, <2>3, <2>4, <2>5, <2>6 DEF TypeOK
<1> QED
  BY <1>1, <1>2, <1>3 DEF Start

\* executor_dispatch keeps the types of the pool.
LEMMA DispatchType ==
    ASSUME TypeOK, Dispatch \/ Refused \/ UNCHANGED pool
    PROVE  /\ queue' \in Seq({"task", "stop"}) /\ dispatched' \in 0 .. MaxDispatch
           /\ th' = th /\ slot' = slot
<1>1. CASE Dispatch
  <2>1. queue' = Append(queue, "task") /\ queue \in Seq(Elements)
    BY <1>1 DEF Dispatch, TypeOK, Elements
  <2>2. queue' \in Seq(Elements)
    BY <2>1, AppendProperties DEF Elements
  <2> QED
    BY <1>1, <2>2 DEF Dispatch, Accepted, TypeOK, Elements
<1>2. CASE Refused \/ UNCHANGED pool
  BY <1>2 DEF Refused, pool, TypeOK
<1> QED
  BY <1>1, <1>2

LEMMA LoopType == TypeOK /\ Loop => TypeOK'
<1> SUFFICES ASSUME TypeOK, Loop PROVE TypeOK'
  OBVIOUS
<1> DEFINE M == {"log", "sched", "conn"} \X (Threads \cup {Main})
<1>1. <<"log", Main>> \in M /\ misuse \subseteq M
  BY DEF TypeOK
<1> HIDE DEF M
<1>2. Done => misuse' \subseteq M
  BY <1>1, LogType DEF Done
<1>3. CASE vmon_io_callback
  <2>1. /\ UNCHANGED <<conf, conn, sched, j, err>> /\ misuse' \subseteq M
        /\ pc' \in {"loop", "quit"} /\ watch' \in BOOLEAN
        /\ log' \in {"none", "stderr", "file", "closed"}
        /\ events' \subseteq events \cup {"eof", "io_error"}
        /\ Dispatch \/ Refused \/ UNCHANGED pool
    BY <1>2, <1>3 DEF vmon_io_callback, IoNormal, IoError, IoEof, IoAgain, Goto, Happened,
                      vmon_teardown_log, main, res, TypeOK
  <2> QED
    BY <2>1, DispatchType DEF TypeOK, Labels, M
<1>4. CASE poll_libvirt
  <2>1. /\ UNCHANGED <<conf, main, res, events, misuse>>
        /\ Dispatch \/ Refused \/ UNCHANGED pool
    BY <1>4 DEF poll_libvirt
  <2> QED
    BY <2>1, DispatchType DEF TypeOK, main, res
<1>5. ASSUME NEW w \in Workers, worker_discard(w) PROVE TypeOK'
  <2>1. th' \in [Threads -> {"unborn", "idle", "busy", "stopping", "ended"}]
    BY <1>5 DEF worker_discard, worker_init, TypeOK
  <2>2. slot' \in [Workers -> Threads \cup {None}]
    BY <1>5 DEF worker_discard, worker_init, TypeOK
  <2>3. events' \subseteq {"eof", "io_error", "discarded", "skipped", "no_thread", "no_token"}
    BY <1>5 DEF worker_discard, worker_init, TypeOK
  <2>4. UNCHANGED <<conf, main, res, queue, dispatched, misuse>>
    BY <1>5 DEF worker_discard
  <2> QED
    BY <2>1, <2>2, <2>3, <2>4 DEF TypeOK, main, res
<1> QED
  BY <1>3, <1>4, <1>5 DEF Loop

LEMMA ShutdownType == TypeOK /\ Shutdown => TypeOK'
<1> SUFFICES ASSUME TypeOK, Shutdown PROVE TypeOK'
  OBVIOUS
<1> DEFINE M == {"log", "sched", "conn"} \X (Threads \cup {Main})
           Ev == {"eof", "io_error", "discarded", "skipped", "no_thread", "no_token"}
<1>1. <<"log", Main>> \in M /\ misuse \subseteq M /\ events \subseteq Ev
  BY DEF TypeOK
<1> HIDE DEF M
<1>2. CASE LoopEnds \/ TokensSent \/ Return
  <2>1. /\ UNCHANGED <<conf, res, pool, events, misuse, err>>
        /\ pc' \in {"tokens", "join", "exited"} /\ j' \in {j, 0}
    BY <1>2 DEF LoopEnds, TokensSent, Return, Goto
  <2> QED
    BY <2>1 DEF TypeOK, Labels, pool, res
<1>3. CASE WorkersJoined \/ scheduler_free \/ virConnectClose
  <2>1. /\ UNCHANGED <<conf, log, watch, pool, events, j, err>>
        /\ pc' \in {"cleanup_sched", "cleanup_libvirt", "done"}
        /\ sched' \in {sched, "freed"} /\ conn' \in {conn, "closed"}
    BY <1>3 DEF WorkersJoined, scheduler_free, virConnectClose, Goto, res
  <2>2. misuse' \subseteq M
    BY <1>1, <1>3, LogType DEF WorkersJoined, scheduler_free, virConnectClose
  <2> QED
    BY <2>1, <2>2 DEF TypeOK, Labels, pool, M
<1>4. CASE executor_stop_worker \/ worker_join
  <2>1. j < conf.threads /\ j' = j + 1 /\ j \in Nat
    BY <1>4 DEF executor_stop_worker, worker_join, TypeOK
  <2>2. j' \in 0 .. MaxWorkers
    BY <2>1, ConfType
  <2>3. /\ UNCHANGED <<conf, res, th, slot, dispatched, misuse, err>>
        /\ pc' \in {"tokens", "join", "aborted"}
    BY <1>4 DEF executor_stop_worker, worker_join, pool
  <2>4. events' \subseteq Ev
    BY <1>1, <1>4 DEF executor_stop_worker, worker_join, Happened
  <2>5. queue' \in Seq({"task", "stop"})
    <3>1. queue' = queue \/ queue' = Append(queue, "stop")
      BY <1>4 DEF executor_stop_worker, worker_join, pool
    <3>2. queue \in Seq(Elements) /\ "stop" \in Elements
      BY DEF TypeOK, Elements
    <3>3. queue' \in Seq(Elements)
      BY <3>1, <3>2, AppendProperties
    <3> QED
      BY <3>3 DEF Elements
  <2> QED
    BY <2>2, <2>3, <2>4, <2>5 DEF TypeOK, Labels, res
<1> QED
  BY <1>2, <1>3, <1>4 DEF Shutdown

LEMMA WorkerType == ASSUME TypeOK, NEW t \in Threads, Worker(t) PROVE TypeOK'
<1> DEFINE M == {"log", "sched", "conn"} \X (Threads \cup {Main})
<1>1. <<"log", t>> \in M /\ <<"sched", t>> \in M /\ <<"conn", t>> \in M /\ misuse \subseteq M
  BY DEF TypeOK
<1> HIDE DEF M
<1>2. CASE Take(t)
  <2>1. UNCHANGED <<conf, main, res, slot, dispatched, events>>
    BY <1>2 DEF Take
  <2>2. th' \in [Threads -> {"unborn", "idle", "busy", "stopping", "ended"}]
    BY <1>2 DEF Take, TypeOK
  <2>3. queue' \in Seq({"task", "stop"})
    <3>1. queue \in Seq(Elements) /\ queue # <<>> /\ queue' = Tail(queue)
      BY <1>2 DEF Take, TypeOK, Elements
    <3>2. queue' \in Seq(Elements)
      BY <3>1, HeadTailProperties
    <3> QED
      BY <3>2 DEF Elements
  <2>4. misuse' \subseteq M
    BY <1>1, <1>2, LogType DEF Take
  <2> QED
    BY <2>1, <2>2, <2>3, <2>4 DEF TypeOK, main, res, M
<1>3. CASE DispatchDomain(t)
  <2>1. UNCHANGED <<conf, main, res, events, misuse>> /\ Dispatch
    BY <1>3 DEF DispatchDomain
  <2> QED
    BY <2>1, DispatchType DEF TypeOK, main, res
<1>4. CASE Finish(t)
  <2>1. UNCHANGED <<conf, main, res, slot, queue, dispatched, events>>
    BY <1>4 DEF Finish
  <2>2. th' \in [Threads -> {"unborn", "idle", "busy", "stopping", "ended"}]
    BY <1>4 DEF Finish, TypeOK
  <2>3. misuse' \subseteq M
    BY <1>1, <1>4, LogType DEF Finish
  <2> QED
    BY <2>1, <2>2, <2>3 DEF TypeOK, main, res, M
<1> QED
  BY <1>2, <1>3, <1>4 DEF Worker

LEMMA NextType == TypeOK /\ [Next]_vars => TypeOK'
<1> SUFFICES ASSUME TypeOK, [Next]_vars PROVE TypeOK'
  OBVIOUS
<1>1. CASE UNCHANGED vars
  BY <1>1 DEF vars, main, res, pool, TypeOK
<1> QED
  BY <1>1, StartType, LoopType, ShutdownType, WorkerType DEF Next

\* Every variable of the process keeps its type.
THEOREM TypeCorrect == Spec => []TypeOK
  BY InitType, NextType, PTL DEF Spec

(***************************************************************************)
(* Acquisition and release                                                 *)
(***************************************************************************)

Resources ==
    /\ pc \in {"start", "log", "connect"} => conn = "none"
    /\ pc \in {"start", "log", "connect", "scheduler"} => sched = "none"
    /\ pc \in {"cleanup_libvirt", "done", "exited"} => sched # "alive"
    /\ pc \in {"done", "exited"} => conn # "open"
    /\ pc \in Connected => conn = "open"
    /\ pc \in Connected \ {"scheduler", "cleanup_libvirt"} => sched = "alive"
    /\ sched = "freed" => pc \in {"cleanup_libvirt", "done", "exited"}
    /\ conn = "closed" => pc \in {"done", "exited"}

LEMMA ResourcesNext == Resources /\ [Next]_vars => Resources'
<1> SUFFICES ASSUME Resources, [Next]_vars PROVE Resources'
  OBVIOUS
<1> USE DEF Resources, Connected
<1>1. CASE Start
  <2>1. CASE config_parse_cmdline \/ vmon_setup_log \/ virConnectOpenReadOnly
    BY <2>1 DEF config_parse_cmdline, vmon_setup_log, virConnectOpenReadOnly, Goto, Fail, res
  <2>2. CASE scheduler_init \/ executor_init \/ executor_start \/ ExecutorStarted \/ vmon_setup_io
    BY <2>2 DEF scheduler_init, executor_init, executor_start, ExecutorStarted, vmon_setup_io,
                Goto, Fail, res
  <2> QED
    BY <1>1, <2>1, <2>2 DEF Start
<1>2. CASE Loop
  <2>1. pc \in {"loop", "quit"} /\ pc' \in {"loop", "quit"} /\ UNCHANGED <<conn, sched>>
    BY <1>2 DEF Loop, vmon_io_callback, IoNormal, IoError, IoEof, IoAgain, poll_libvirt,
                worker_discard, Goto, main, res
  <2> QED
    BY <2>1
<1>3. CASE Shutdown
  BY <1>3 DEF Shutdown, LoopEnds, executor_stop_worker, TokensSent, worker_join, WorkersJoined,
              scheduler_free, virConnectClose, Return, Goto, res
<1>4. ASSUME NEW t \in Threads, Worker(t) PROVE Resources'
  BY <1>4 DEF Worker, Take, DispatchDomain, Finish, main, res
<1>5. CASE UNCHANGED vars
  BY <1>5 DEF vars, main, res
<1> QED
  BY <1>1, <1>2, <1>3, <1>4, <1>5 DEF Next

\* main releases the scheduler and the connection it acquired before it
\* returns, wherever the start-up fails and however the loop ends.
THEOREM AlwaysReleased == Spec => []Released
<1>1. Init => Resources
  BY DEF Init, Resources, Connected
<1>2. Resources => Released
  BY DEF Resources, Released, Connected
<1> QED
  BY <1>1, <1>2, ResourcesNext, PTL DEF Spec

(***************************************************************************)
(* Listening                                                               *)
(***************************************************************************)

\* Only a vmon that does not poll has the watch that can end its loop.
Listening == StaysListening /\ (watch => conf.period = 0)

LEMMA ListeningNext == Listening /\ [Next]_vars => Listening'
<1> SUFFICES ASSUME Listening, [Next]_vars PROVE Listening'
  OBVIOUS
<1> USE DEF Listening, StaysListening
<1>1. CASE Start
  <2>1. CASE vmon_setup_io
    <3>1. watch' = (conf.period = 0) /\ conf' = conf /\ pc' = "loop"
      BY <2>1 DEF vmon_setup_io, Goto
    <3> QED
      BY <3>1, Zenon
  <2>2. CASE ~vmon_setup_io
    <3>1. UNCHANGED <<conf, watch>> /\ pc' \notin {"loop", "quit", "tokens", "join"}
      BY <1>1, <2>2 DEF Start, config_parse_cmdline, vmon_setup_log, virConnectOpenReadOnly,
              scheduler_init, executor_init, executor_start, ExecutorStarted, Goto, Fail, res
    <3> QED
      BY <3>1
  <2> QED
    BY <2>1, <2>2
<1>2. CASE vmon_io_callback
  BY <1>2 DEF vmon_io_callback, IoNormal, IoError, IoEof, IoAgain, Goto, Happened, main, res
<1>3. CASE poll_libvirt
  BY <1>3 DEF poll_libvirt, main, res
<1>4. ASSUME NEW w \in Workers, worker_discard(w) PROVE Listening'
  <2>1. UNCHANGED <<conf, main, res>> /\ events \subseteq events'
    BY <1>4 DEF worker_discard, worker_init
  <2> QED
    BY <2>1 DEF main, res
<1>5. CASE Shutdown
  BY <1>5 DEF Shutdown, LoopEnds, executor_stop_worker, TokensSent, worker_join, WorkersJoined,
              scheduler_free, virConnectClose, Return, Goto, res
<1>6. ASSUME NEW t \in Threads, Worker(t) PROVE Listening'
  BY <1>6 DEF Worker, Take, DispatchDomain, Finish, main, res
<1>7. CASE UNCHANGED vars
  BY <1>7 DEF vars, main, res
<1> QED
  BY <1>1, <1>2, <1>3, <1>4, <1>5, <1>6, <1>7 DEF Next, Loop

\* A vmon that reads stdin is deaf only after an I/O error, and a polling one
\* polls for ever.
THEOREM AlwaysListening == Spec => []StaysListening
<1>1. Init => Listening
  BY DEF Init, Listening, StaysListening
<1>2. Listening => StaysListening
  BY DEF Listening
<1> QED
  BY <1>1, <1>2, ListeningNext, PTL DEF Spec

(***************************************************************************)
(* The pool                                                                *)
(***************************************************************************)

\* Threads and queue up to the end of the loop.
Pool ==
    /\ pc \notin {"start", "done", "exited"} => conf.threads > 0
    /\ pc \in Early =>
           queue = <<>> /\ (\A t \in Threads : th[t] = "unborn") /\ \A w \in Workers : slot[w] = None
    /\ pc \in {"workers", "setup_io"} =>
           queue = <<>> /\ \A t \in Threads : th[t] \in {"unborn", "idle"}
    /\ pc = "workers" => \A w \in Workers : w > j => slot[w] = None
    /\ pc \in {"loop", "quit"} =>
           queue \in Seq({"task"}) /\ \A t \in Threads : th[t] \in {"unborn", "idle", "busy"}

\* executor_start has succeeded with a thread, or reports its failure.
Serving ==
    /\ pc \in Early => j = 0
    /\ pc = "workers" /\ j > 0 /\ err = 0 => \E t \in Threads : th[t] = "idle"
    /\ pc \in {"setup_io", "loop"} => \E t \in Threads : th[t] \in {"idle", "busy"}

\* executor_start creates a thread, or notes that it could not.
LEMMA StartedThread ==
    ASSUME TypeOK, executor_start
    PROVE  /\ pc = "workers" /\ pc' = "workers" /\ j' = j + 1 /\ j < conf.threads /\ j \in Nat
           /\ j + 1 \in Workers /\ UNCHANGED <<conf, res, queue, misuse>> /\ events \subseteq events'
           /\ \/ \E t \in Threads : /\ th[t] = "unborn" /\ th' = [th EXCEPT ![t] = "idle"]
                                     /\ slot' = [slot EXCEPT ![j + 1] = t] /\ err' = 0
              \/ th' = th /\ slot' = [slot EXCEPT ![j + 1] = None] /\ err' = -1
<1>1. /\ pc = "workers" /\ pc' = "workers" /\ j' = j + 1 /\ j < conf.threads /\ j \in Nat
      /\ UNCHANGED <<conf, res, queue, misuse>> /\ events \subseteq events'
      /\ err' = IF slot'[j + 1] = None THEN -1 ELSE 0
  BY DEF executor_start, worker_init, TypeOK
<1>2. j + 1 \in Workers
  BY <1>1, ConfType DEF Workers
<1>3. \/ \E t \in Threads : /\ th[t] = "unborn" /\ th' = [th EXCEPT ![t] = "idle"]
                            /\ slot' = [slot EXCEPT ![j + 1] = t]
      \/ th' = th /\ slot' = [slot EXCEPT ![j + 1] = None]
  BY DEF executor_start, worker_init
<1>4. DOMAIN slot = Workers
  BY DEF TypeOK
<1>5. CASE th' = th /\ slot' = [slot EXCEPT ![j + 1] = None]
  BY <1>1, <1>2, <1>4, <1>5
<1>6. ASSUME NEW t \in Threads, th[t] = "unborn", th' = [th EXCEPT ![t] = "idle"],
             slot' = [slot EXCEPT ![j + 1] = t]
      PROVE  err' = 0
  <2>1. slot'[j + 1] = t /\ t # None
    BY <1>2, <1>4, <1>6 DEF Threads, None
  <2> QED
    BY <1>1, <2>1
<1> QED
  BY <1>1, <1>2, <1>3, <1>5, <1>6

LEMMA InitPool == Init => Pool /\ Serving
  BY DEF Init, Pool, Serving, Early

LEMMA PoolStart == TypeOK /\ Pool /\ Start => Pool'
<1> SUFFICES ASSUME TypeOK, Pool, Start PROVE Pool'
  OBVIOUS
<1>1. CASE config_parse_cmdline
  <2>1. /\ pc = "start" /\ UNCHANGED <<conf, th, slot, queue>>
        /\ (pc' = "log" /\ conf.threads > 0) \/ pc' = "done"
    BY <1>1 DEF config_parse_cmdline, Goto, Fail, ValidConf, pool
  <2> QED
    BY <2>1 DEF Pool, Early
<1>2. CASE vmon_setup_log \/ virConnectOpenReadOnly \/ scheduler_init \/ executor_init
  <2>1. /\ pc \in Early \ {"start"} /\ UNCHANGED <<conf, th, slot, queue, j>>
        /\ pc' \in (Early \ {"start"}) \cup {"aborted", "workers", "done", "cleanup_libvirt", "cleanup_sched"}
    BY <1>2 DEF vmon_setup_log, virConnectOpenReadOnly, scheduler_init, executor_init,
                Goto, Fail, Early, pool
  <2> QED
    BY <2>1 DEF Pool, Early
<1>3. CASE executor_start
  <2>1. /\ pc = "workers" /\ pc' = "workers" /\ UNCHANGED <<conf, queue>> /\ j' = j + 1 /\ j \in Nat
        /\ j + 1 \in Workers
    BY <1>3, StartedThread
  <2>2. \A t \in Threads : th'[t] \in {"unborn", "idle"}
    BY <1>3, <2>1, StartedThread DEF Pool, TypeOK
  <2>3. \A w \in Workers : w > j + 1 => slot'[w] = None
    <3>1. \A w \in Workers : w > j + 1 => w > j /\ w # j + 1
      BY <2>1 DEF Workers
    <3>2. \A w \in Workers : w # j + 1 => slot'[w] = slot[w]
      BY <1>3, StartedThread DEF TypeOK
    <3> QED
      BY <2>1, <3>1, <3>2 DEF Pool
  <2> QED
    BY <2>1, <2>2, <2>3 DEF Pool, Early
<1>4. CASE ExecutorStarted \/ vmon_setup_io
  <2>1. /\ UNCHANGED <<conf, th, slot, queue>>
        /\ \/ pc = "workers" /\ pc' \in {"setup_io", "cleanup_sched"}
           \/ pc = "setup_io" /\ pc' = "loop"
    BY <1>4 DEF ExecutorStarted, vmon_setup_io, Goto, pool
  <2>2. <<>> \in Seq({"task"})
    BY EmptySeq
  <2> QED
    BY <2>1, <2>2 DEF Pool, Early
<1> QED
  BY <1>1, <1>2, <1>3, <1>4 DEF Start

LEMMA PoolNext == TypeOK /\ Pool /\ [Next]_vars => Pool'
<1> SUFFICES ASSUME TypeOK, Pool, [Next]_vars PROVE Pool'
  OBVIOUS
<1>1. Dispatch /\ queue \in Seq({"task"}) => queue' \in Seq({"task"})
  BY AppendProperties DEF Dispatch
<1>2. CASE vmon_io_callback \/ poll_libvirt
  <2>1. /\ pc = "loop" /\ pc' \in {"loop", "quit"} /\ UNCHANGED <<conf, th, slot>>
        /\ Dispatch \/ queue' = queue
    BY <1>2 DEF vmon_io_callback, IoNormal, IoError, IoEof, IoAgain, poll_libvirt, Dispatch,
                Refused, Goto, main, pool
  <2> QED
    BY <1>1, <2>1 DEF Pool, Early
<1>3. ASSUME NEW w \in Workers, worker_discard(w) PROVE Pool'
  <2>1. pc \in {"loop", "quit"} /\ pc' = pc /\ UNCHANGED <<conf, queue>>
    BY <1>3 DEF worker_discard, main
  <2>2. \A t \in Threads : th'[t] \in {"unborn", "idle", "busy"}
    BY <1>3, <2>1 DEF worker_discard, worker_init, Pool, TypeOK
  <2> QED
    BY <2>1, <2>2 DEF Pool, Early
<1>4. CASE Shutdown
  <2>1. /\ conf' = conf /\ pc' \in {"tokens", "join", "aborted"} \cup Over
        /\ pc \in {"quit", "tokens", "join"} \cup Over
        /\ pc' \in {"done", "exited"} \/ pc \notin {"done", "exited"}
    BY <1>4 DEF Shutdown, LoopEnds, executor_stop_worker, TokensSent, worker_join, WorkersJoined,
                scheduler_free, virConnectClose, Return, Goto, Over
  <2> QED
    BY <2>1 DEF Pool, Early, Over
<1>5. ASSUME NEW t \in Threads, Worker(t) PROVE Pool'
  <2>1. UNCHANGED <<conf, main, slot>>
    BY <1>5 DEF Worker, Take, DispatchDomain, Finish, Dispatch
  <2>2. pc \notin Early \cup {"workers", "setup_io"}
    <3>1. th[t] \in {"busy", "stopping"} \/ (th[t] = "idle" /\ queue # <<>>)
      BY <1>5 DEF Worker, Take, DispatchDomain, Finish
    <3> QED
      BY <3>1 DEF Pool, Early
  <2>3. CASE pc \in {"loop", "quit"}
    <3>1. queue \in Seq({"task"}) /\ \A u \in Threads : th[u] \in {"unborn", "idle", "busy"}
      BY <2>3 DEF Pool
    <3>2. CASE Take(t)
      <4>1. Head(queue) = "task" /\ Tail(queue) \in Seq({"task"})
        BY <3>1, <3>2, HeadTailProperties DEF Take
      <4>2. queue' \in Seq({"task"}) /\ th' = [th EXCEPT ![t] = "busy"]
        BY <3>2, <4>1 DEF Take
      <4> QED
        BY <2>1, <2>2, <3>1, <4>2 DEF Pool, main, TypeOK
    <3>3. CASE DispatchDomain(t)
      BY <1>1, <2>1, <2>2, <3>1, <3>3 DEF DispatchDomain, Dispatch, Pool, main
    <3>4. CASE Finish(t)
      <4>1. queue' = queue /\ th' = [th EXCEPT ![t] = "idle"]
        BY <3>1, <3>4 DEF Finish, TypeOK
      <4> QED
        BY <2>1, <2>2, <3>1, <4>1 DEF Pool, main, TypeOK
    <3> QED
      BY <1>5, <3>2, <3>3, <3>4 DEF Worker
  <2>4. CASE pc \notin {"loop", "quit"}
    BY <2>1, <2>2, <2>4 DEF Pool, main
  <2> QED
    BY <2>3, <2>4
<1>6. CASE UNCHANGED vars
  BY <1>6 DEF vars, main, pool, Pool
<1> QED
  BY <1>2, <1>3, <1>4, <1>5, <1>6, PoolStart DEF Next, Loop

LEMMA ServingNext == TypeOK /\ Pool /\ Serving /\ [Next]_vars => Serving'
<1> SUFFICES ASSUME TypeOK, Pool, Serving, [Next]_vars PROVE Serving'
  OBVIOUS
<1>1. CASE config_parse_cmdline \/ vmon_setup_log \/ virConnectOpenReadOnly \/ scheduler_init
  <2>1. pc \in Early /\ j' = j /\ pc' \notin {"workers", "setup_io", "loop"}
    BY <1>1 DEF config_parse_cmdline, vmon_setup_log, virConnectOpenReadOnly, scheduler_init,
                Goto, Fail, Early
  <2> QED
    BY <2>1 DEF Serving
<1>2. CASE executor_init
  <2>1. pc = "executor" /\ j' = j /\ pc' \in {"workers", "cleanup_sched"}
    BY <1>2 DEF executor_init, Goto, Fail
  <2> QED
    BY <2>1 DEF Serving, Early
<1>3. CASE executor_start
  <2>1. pc' = "workers"
    BY <1>3, StartedThread
  <2>2. err' = 0 => \E t \in Threads : th'[t] = "idle"
    BY <1>3, StartedThread DEF TypeOK
  <2> QED
    BY <2>1, <2>2 DEF Serving, Early
<1>4. CASE ExecutorStarted
  <2>1. /\ pc = "workers" /\ j >= conf.threads /\ th' = th
        /\ pc' = IF err = 0 THEN "setup_io" ELSE "cleanup_sched"
    BY <1>4 DEF ExecutorStarted, pool
  <2>2. conf.threads > 0
    BY <2>1 DEF Pool
  <2>3. j > 0
    BY <2>1, <2>2, ConfType DEF TypeOK
  <2> QED
    BY <2>1, <2>3 DEF Serving, Early
<1>5. CASE vmon_setup_io
  BY <1>5 DEF vmon_setup_io, Goto, pool, Serving, Early
<1>6. CASE vmon_io_callback \/ poll_libvirt
  <2>1. pc = "loop" /\ pc' \in {"loop", "quit"} /\ th' = th
    BY <1>6 DEF vmon_io_callback, IoNormal, IoError, IoEof, IoAgain, poll_libvirt, Dispatch,
                Refused, Goto, main, pool
  <2> QED
    BY <2>1 DEF Serving, Early
<1>7. ASSUME NEW w \in Workers, worker_discard(w) PROVE Serving'
  <2>1. pc \in {"loop", "quit"} /\ pc' = pc
    BY <1>7 DEF worker_discard, main
  <2>2. \A t \in Threads : th[t] # "unborn" => th'[t] = th[t]
    BY <1>7 DEF worker_discard, worker_init, TypeOK
  <2> QED
    BY <2>1, <2>2 DEF Serving, Early
<1>8. CASE Shutdown
  <2>1. pc' \notin Early \cup {"workers", "setup_io", "loop"}
    BY <1>8 DEF Shutdown, LoopEnds, executor_stop_worker, TokensSent, worker_join, WorkersJoined,
                scheduler_free, virConnectClose, Return, Goto, Early
  <2> QED
    BY <2>1 DEF Serving
<1>9. ASSUME NEW t \in Threads, Worker(t) PROVE Serving'
  <2>1. UNCHANGED main
    BY <1>9 DEF Worker, Take, DispatchDomain, Finish
  <2>2. pc \notin {"workers", "setup_io"}
    BY <1>9 DEF Worker, Take, DispatchDomain, Finish, Pool
  <2>3. ASSUME pc = "loop" PROVE \E u \in Threads : th'[u] \in {"idle", "busy"}
    <3>1. queue \in Seq({"task"}) /\ \A u \in Threads : th[u] \in {"unborn", "idle", "busy"}
      BY <2>3 DEF Pool
    <3>2. CASE Take(t)
      <4>1. Head(queue) = "task"
        BY <3>1, <3>2, HeadTailProperties DEF Take
      <4>2. th'[t] = "busy"
        BY <3>2, <4>1 DEF Take, TypeOK
      <4> QED
        BY <4>2
    <3>3. CASE DispatchDomain(t)
      BY <3>3 DEF DispatchDomain, Dispatch
    <3>4. CASE Finish(t)
      <4>1. th'[t] = "idle"
        BY <3>1, <3>4 DEF Finish, TypeOK
      <4> QED
        BY <4>1
    <3> QED
      BY <1>9, <3>2, <3>3, <3>4 DEF Worker
  <2> QED
    BY <2>1, <2>2, <2>3 DEF Serving, main
<1>10. CASE UNCHANGED vars
  BY <1>10 DEF vars, main, pool, Serving
<1> QED
  BY <1>1, <1>2, <1>3, <1>4, <1>5, <1>6, <1>7, <1>8, <1>9, <1>10 DEF Next, Start, Loop

\* The main loop never runs without a worker thread: executor_start reports its
\* last pthread_create only, but that one is a thread when it succeeds.
THEOREM AlwaysServed == Spec => []ServedByWorker
<1>1. Serving => ServedByWorker
  BY DEF Serving, ServedByWorker
<1> QED
  BY <1>1, InitPool, PoolNext, ServingNext, TypeCorrect, PTL DEF Spec

(***************************************************************************)
(* What threads use after main has released it                             *)
(***************************************************************************)

\* Every thread has a slot, and executor_stop waited for each slot it passed;
\* when main cleans up no thread is inside a task and none can take one.
Quiet ==
    events \cap {"skipped", "discarded"} = {} =>
        /\ \A t \in Threads : th[t] # "unborn" =>
               \E w \in Workers : w <= conf.threads /\ slot[w] = t
        /\ pc = "join" => \A w \in Workers : w <= j => slot[w] = None \/ th[slot[w]] = "ended"
        /\ pc \in Over => \A t \in Threads : \/ th[t] \in {"unborn", "ended"}
                                             \/ th[t] = "idle" /\ queue = <<>>

LEMMA QuietStart == TypeOK /\ Pool /\ Quiet /\ Start => Quiet'
<1> SUFFICES ASSUME TypeOK, Pool, Quiet, Start PROVE Quiet'
  OBVIOUS
<1>1. CASE executor_start
  <2>1. /\ pc = "workers" /\ pc' = "workers" /\ j < conf.threads /\ j + 1 \in Workers
        /\ UNCHANGED conf /\ events \subseteq events' /\ j \in Nat
    BY <1>1, StartedThread
  <2>2. slot[j + 1] = None
    BY <2>1 DEF Pool
  <2>3. \A t \in Threads, w \in Workers : slot[w] = t => slot'[w] = t
    BY <1>1, <2>1, <2>2, StartedThread DEF TypeOK, Threads, None
  <2>4. j + 1 <= conf.threads
    BY <2>1, ConfType
  <2>5. ASSUME NEW t \in Threads, th'[t] # "unborn", th[t] = "unborn" PROVE slot'[j + 1] = t
    BY <1>1, <2>1, <2>5, StartedThread DEF TypeOK
  <2> QED
    BY <2>1, <2>3, <2>4, <2>5 DEF Quiet, Over
<1>2. CASE ~executor_start
  <2>1. /\ UNCHANGED <<conf, pool, events>> /\ pc' # "join"
        /\ pc \in Early \cup {"workers", "setup_io"}
    BY <1>2 DEF Start, config_parse_cmdline, vmon_setup_log, virConnectOpenReadOnly, scheduler_init,
                executor_init, ExecutorStarted, vmon_setup_io, Goto, Fail, Early
  <2>2. queue = <<>> /\ \A t \in Threads : th[t] \in {"unborn", "idle"}
    BY <2>1 DEF Pool
  <2> QED
    BY <2>1, <2>2 DEF Quiet, pool
<1> QED
  BY <1>1, <1>2

LEMMA QuietShutdown == TypeOK /\ Quiet /\ Shutdown => Quiet'
<1> SUFFICES ASSUME TypeOK, Quiet, Shutdown PROVE Quiet'
  OBVIOUS
<1>1. CASE worker_join
  <2>1. /\ pc = "join" /\ j < conf.threads /\ j' = j + 1 /\ j \in Nat /\ UNCHANGED <<conf, pool>>
        /\ pc' \in {"join", "aborted"} /\ events \subseteq events'
    BY <1>1 DEF worker_join, Happened, TypeOK
  <2>2. ASSUME events' \cap {"skipped", "discarded"} = {}
        PROVE  slot[j + 1] = None \/ th[slot[j + 1]] = "ended"
    BY <1>1, <2>2 DEF worker_join, Happened
  <2>3. \A w \in Workers : w <= j + 1 => w <= j \/ w = j + 1
    BY <2>1 DEF Workers
  <2> QED
    BY <2>1, <2>2, <2>3 DEF Quiet, Over, pool
<1>2. CASE WorkersJoined
  <2>1. pc = "join" /\ j >= conf.threads /\ UNCHANGED <<conf, pool, events>> /\ pc' = "cleanup_sched"
    BY <1>2 DEF WorkersJoined, Goto
  <2>2. \A w \in Workers : w <= conf.threads => w <= j
    BY <2>1, ConfType DEF TypeOK, Workers
  <2>3. ASSUME events \cap {"skipped", "discarded"} = {}, NEW t \in Threads, th[t] # "unborn"
        PROVE  th[t] = "ended"
    <3>1. PICK w \in Workers : w <= conf.threads /\ slot[w] = t
      BY <2>3 DEF Quiet
    <3>2. t # None
      BY DEF Threads, None
    <3> QED
      BY <2>1, <2>2, <2>3, <3>1, <3>2 DEF Quiet
  <2> QED
    BY <2>1, <2>3 DEF Quiet, pool
<1>3. CASE TokensSent
  <2>1. pc' = "join" /\ j' = 0 /\ UNCHANGED <<conf, pool, events>>
    BY <1>3 DEF TokensSent
  <2>2. \A w \in Workers : ~(w <= 0)
    BY DEF Workers
  <2> QED
    BY <2>1, <2>2 DEF Quiet, pool, Over
<1>4. CASE LoopEnds \/ executor_stop_worker
  <2>1. pc' = "tokens" /\ UNCHANGED <<conf, th, slot>> /\ events \subseteq events'
    BY <1>4 DEF LoopEnds, executor_stop_worker, Happened, pool
  <2> QED
    BY <2>1 DEF Quiet, Over
<1>5. CASE scheduler_free \/ virConnectClose \/ Return
  <2>1. pc \in Over /\ pc' \in Over /\ UNCHANGED <<conf, pool, events>>
    BY <1>5 DEF scheduler_free, virConnectClose, Return, Goto, Over
  <2> QED
    BY <2>1 DEF Quiet, pool, Over
<1> QED
  BY <1>1, <1>2, <1>3, <1>4, <1>5 DEF Shutdown

LEMMA QuietNext == TypeOK /\ Pool /\ Quiet /\ [Next]_vars => Quiet'
<1> SUFFICES ASSUME TypeOK, Pool, Quiet, [Next]_vars PROVE Quiet'
  OBVIOUS
<1>1. CASE vmon_io_callback \/ poll_libvirt
  <2>1. /\ pc' \in {"loop", "quit"} /\ UNCHANGED <<conf, th, slot>> /\ events \subseteq events'
    BY <1>1 DEF vmon_io_callback, IoNormal, IoError, IoEof, IoAgain, poll_libvirt, Dispatch,
                Refused, Goto, Happened, main, pool
  <2> QED
    BY <2>1 DEF Quiet, Over
<1>2. ASSUME NEW w \in Workers, worker_discard(w) PROVE Quiet'
  <2>1. "discarded" \in events'
    BY <1>2 DEF worker_discard, worker_init
  <2> QED
    BY <2>1 DEF Quiet
<1>3. ASSUME NEW t \in Threads, Worker(t) PROVE Quiet'
  <2>1. UNCHANGED <<conf, main, slot, events>>
    BY <1>3 DEF Worker, Take, DispatchDomain, Finish, Dispatch
  <2>2. /\ th[t] # "unborn" /\ th[t] # "ended"
        /\ \A u \in Threads : u # t => th'[u] = th[u]
    BY <1>3 DEF Worker, Take, DispatchDomain, Finish, Dispatch, TypeOK
  <2>3. pc \in Over => th[t] \in {"busy", "stopping"} \/ (th[t] = "idle" /\ queue # <<>>)
    BY <1>3 DEF Worker, Take, DispatchDomain, Finish, Over
  <2>4. ASSUME events \cap {"skipped", "discarded"} = {} PROVE pc \notin Over
    BY <2>2, <2>3, <2>4 DEF Quiet
  <2>5. \A u \in Threads \cup {None} : th[u] = "ended" /\ u \in Threads => th'[u] = "ended"
    BY <2>2
  <2>6. \A x \in Workers : slot[x] \in Threads \cup {None}
    BY DEF TypeOK
  <2> QED
    BY <2>1, <2>2, <2>4, <2>5, <2>6 DEF Quiet, main
<1>4. CASE UNCHANGED vars
  BY <1>4 DEF vars, main, pool, Quiet
<1> QED
  BY <1>1, <1>2, <1>3, <1>4, QuietStart, QuietShutdown DEF Next, Loop

LEMMA LateUseNext ==
    TypeOK /\ Resources /\ Quiet /\ NoLateUse /\ [Next]_vars => NoLateUse'
<1> SUFFICES ASSUME TypeOK, Resources, Quiet, NoLateUse, [Next]_vars PROVE NoLateUse'
  OBVIOUS
<1>1. CASE Start \/ Loop \/ Shutdown \/ UNCHANGED vars
  <2>1. events \subseteq events'
    BY <1>1 DEF Start, config_parse_cmdline, vmon_setup_log, virConnectOpenReadOnly, scheduler_init,
                executor_init, executor_start, worker_init, ExecutorStarted, vmon_setup_io,
                Loop, vmon_io_callback, IoNormal, IoError, IoEof, IoAgain, poll_libvirt,
                worker_discard, Shutdown, LoopEnds, executor_stop_worker, TokensSent, worker_join,
                WorkersJoined, scheduler_free, virConnectClose, Return, Happened, vars
  <2>2. misuse' \subseteq misuse \cup {<<"log", Main>>}
    BY <1>1 DEF Start, config_parse_cmdline, vmon_setup_log, virConnectOpenReadOnly, scheduler_init,
                executor_init, executor_start, ExecutorStarted, vmon_setup_io,
                Loop, vmon_io_callback, IoNormal, IoError, IoEof, IoAgain, poll_libvirt,
                worker_discard, Shutdown, LoopEnds, executor_stop_worker, TokensSent, worker_join,
                WorkersJoined, scheduler_free, virConnectClose, Return, Done, vmon_log, vars
  <2> QED
    BY <2>1, <2>2 DEF NoLateUse
<1>2. ASSUME NEW t \in Threads, Worker(t) PROVE NoLateUse'
  <2>1. events' = events
    BY <1>2 DEF Worker, Take, DispatchDomain, Finish
  <2>2. CASE events \cap {"skipped", "discarded"} # {}
    BY <2>1, <2>2 DEF NoLateUse
  <2>3. CASE events \cap {"skipped", "discarded"} = {}
    <3>1. pc \notin Over
      BY <1>2, <2>3 DEF Worker, Take, DispatchDomain, Finish, Quiet, Over
    <3>2. sched # "freed" /\ conn # "closed"
      BY <3>1 DEF Resources, Over
    <3>3. misuse' \subseteq misuse \cup {<<"log", t>>}
      BY <1>2, <3>2 DEF Worker, Take, DispatchDomain, Finish, vmon_log
    <3> QED
      BY <2>1, <3>3 DEF NoLateUse
  <2> QED
    BY <2>2, <2>3
<1> QED
  BY <1>1, <1>2 DEF Next

\* If executor_stop skipped no worker and none was discarded, no thread uses the
\* scheduler or the connection after main has released it.
THEOREM NothingUsedLate == Spec => []NoLateUse
<1>1. Init => Quiet /\ NoLateUse
  BY DEF Init, Quiet, NoLateUse, Over
<1>2. Init => Resources
  BY DEF Init, Resources, Connected
<1> QED
  BY <1>1, <1>2, InitPool, PoolNext, ResourcesNext, QuietNext, LateUseNext, TypeCorrect, PTL DEF Spec
=============================================================================
