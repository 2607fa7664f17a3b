-------------------------------- MODULE Vmon --------------------------------
(***************************************************************************)
(* The life of the vmon process: main of src/vmon.c with the log and the   *)
(* input callback of src/vmon_int.c, over a coarse executor.               *)
(*                                                                         *)
(* main acquires the log, the libvirt connection, the scheduler and the    *)
(* workers, runs the main loop, and releases them while the workers go on. *)
(* Executor has the workers in detail; here a thread is idle, inside a     *)
(* task (wo->current is set), inside a stop token, or ended, and an expired*)
(* timer gives the slot of a busy thread to a new one.                     *)
(***************************************************************************)
EXTENDS Integers, Sequences

CONSTANTS
    Confs,        \* what the command line may leave in a VmonConfig
    MaxWorkers,   \* no configuration asks for more threads
    MaxThreads,   \* bound on the threads ever created
    MaxDispatch   \* bound on the tasks dispatched

ASSUME VmonAssumption ==
    /\ Confs \subseteq [threads : Int, tasks : Int, timeout : Int, period : Int,
                        disk_usage_perc : Int, log_level : Int, log_file : BOOLEAN]
    /\ \A c \in Confs : c.threads <= MaxWorkers
    /\ MaxWorkers \in Nat /\ MaxThreads \in Nat /\ MaxDispatch \in Nat

Workers == 1 .. MaxWorkers
Threads == 1 .. MaxThreads
None == 0          \* a Worker whose pthread_create failed
Main == 0          \* the main thread, where a thread is named

VARIABLES
    conf,                  \* ctx.conf
    pc, j, err,            \* main: place, loop index, result
    log, conn, sched,      \* ctx.log, ctx.conn, ctx.scheduler
    watch,                 \* the I/O watch on stdin is installed
    th, slot, queue,       \* threads, exc->workers[].thread, exc->tasks
    dispatched,            \* tasks queued so far
    events,                \* what has happened to the process
    misuse                 \* <<resource, thread>>: used after its release

main == <<pc, j, err>>
res == <<log, conn, sched, watch>>
pool == <<th, slot, queue, dispatched>>
vars == <<conf, main, res, pool, events, misuse>>

Happened(e) == events' = events \cup {e}

-----------------------------------------------------------------------------
(* The log *)

MESSAGE == 32      \* G_LOG_LEVEL_MESSAGE
Mask(level) == (level % 256) - (level % 4)     \* level & 0xFC
log_enabled(current) == Mask(current) <= Mask(conf.log_level)

\* vmon_log: what thread t writes once the file is closed goes astray.
vmon_log(t) == IF log = "closed" /\ log_enabled(MESSAGE) THEN {<<"log", t>>} ELSE {}

\* Only end of input closes the log: a log file stays open on every other exit.
vmon_teardown_log == log' = IF log = "stderr" THEN log ELSE "closed"

-----------------------------------------------------------------------------
(* Start-up *)

Init ==
    /\ conf \in Confs
    /\ pc = "start" /\ j = 0 /\ err = 0
    /\ log = "none" /\ conn = "none" /\ sched = "none" /\ watch = FALSE
    /\ th = [t \in Threads |-> "unborn"]
    /\ slot = [w \in Workers |-> None]
    /\ queue = <<>> /\ dispatched = 0
    /\ events = {} /\ misuse = {}

\* Mutation: nothing bounds the number of threads from below.
ValidConf_NoThreads(c) == c.tasks > 0 /\ c.disk_usage_perc \in 0 .. 99
ValidConf(c) == c.threads > 0 /\ c.tasks > 0 /\ c.disk_usage_perc \in 0 .. 99

Fail(label) == err' = -1 /\ pc' = label /\ UNCHANGED j
Goto(label) == pc' = label /\ UNCHANGED <<j, err>>

\* g_option_context_parse may fail on a command line whose values would pass.
config_parse_cmdline ==
    /\ pc = "start"
    /\ (ValidConf(conf) /\ Goto("log")) \/ Fail("done")
    /\ UNCHANGED <<conf, res, pool, events, misuse>>

\* A log file that cannot be opened is a g_error, which aborts.
vmon_setup_log ==
    /\ pc = "log"
    /\ \/ log' = (IF conf.log_file THEN "file" ELSE "stderr") /\ Goto("connect")
       \/ conf.log_file /\ Goto("aborted") /\ UNCHANGED log
    /\ UNCHANGED <<conf, conn, sched, watch, pool, events, misuse>>

virConnectOpenReadOnly ==
    /\ pc = "connect"
    /\ \/ conn' = "open" /\ Goto("scheduler")
       \/ Fail("done") /\ UNCHANGED conn
    /\ UNCHANGED <<conf, log, sched, watch, pool, events, misuse>>

\* Mutation: the connection is left open.
scheduler_init_Leak ==
    /\ pc = "scheduler"
    /\ \/ sched' = "alive" /\ Goto("executor")
       \/ Fail("done") /\ UNCHANGED sched
    /\ UNCHANGED <<conf, log, conn, watch, pool, events, misuse>>
\* scheduler_init, and scheduler_start, which cannot fail in integrated mode.
scheduler_init ==
    /\ pc = "scheduler"
    /\ \/ sched' = "alive" /\ Goto("executor")
       \/ Fail("cleanup_libvirt") /\ UNCHANGED sched
    /\ UNCHANGED <<conf, log, conn, watch, pool, events, misuse>>

executor_init ==
    /\ pc = "executor"
    /\ Goto("workers") \/ Fail("cleanup_sched")
    /\ UNCHANGED <<conf, res, pool, events, misuse>>

\* worker_init: pthread_create for worker w, after the events es.
worker_init(w, es) ==
    \/ \E t \in Threads :
           /\ th[t] = "unborn" /\ \A u \in Threads : u < t => th[u] # "unborn"
           /\ th' = [th EXCEPT ![t] = "idle"]
           /\ slot' = [slot EXCEPT ![w] = t]
           /\ events' = events \cup es
    \/ /\ slot' = [slot EXCEPT ![w] = None]
       /\ events' = events \cup es \cup {"no_thread"} /\ UNCHANGED th

\* One turn of the loop of executor_start; err is that of the last one.
executor_start ==
    /\ pc = "workers" /\ j < conf.threads
    /\ worker_init(j + 1, {})
    /\ j' = j + 1 /\ UNCHANGED pc
    /\ err' = IF slot'[j + 1] = None THEN -1 ELSE 0
    /\ UNCHANGED <<conf, res, queue, dispatched, misuse>>

ExecutorStarted ==
    /\ pc = "workers" /\ j >= conf.threads
    /\ pc' = IF err = 0 THEN "setup_io" ELSE "cleanup_sched"
    /\ j' = 0 /\ UNCHANGED err
    /\ UNCHANGED <<conf, res, pool, events, misuse>>

\* A polling vmon does not read stdin.
vmon_setup_io ==
    /\ pc = "setup_io" /\ Goto("loop")
    /\ watch' = (conf.period = 0)
    /\ UNCHANGED <<conf, log, conn, sched, pool, events, misuse>>

-----------------------------------------------------------------------------
(* The main loop: input, the polling timer, the timers of the workers *)

Accepted == Len(queue) < conf.tasks /\ dispatched < MaxDispatch
Dispatch ==
    /\ Accepted
    /\ queue' = Append(queue, "task") /\ dispatched' = dispatched + 1
    /\ UNCHANGED <<th, slot>>
Refused == Len(queue) >= conf.tasks /\ UNCHANGED pool

\* vmon_io_callback ends by writing "done", after whatever the status did.
Done == misuse' = misuse \cup vmon_log(Main)'

\* G_IO_STATUS_NORMAL: a request that is not dispatched ends the loop.
IoNormal ==
    /\ pc = "loop" /\ watch
    /\ \/ Dispatch /\ UNCHANGED <<main, watch>>
       \/ Refused /\ Goto("quit") /\ watch' = FALSE
       \/ Goto("quit") /\ watch' = FALSE /\ UNCHANGED pool    \* does not parse
    /\ UNCHANGED <<conf, log, conn, sched, events>> /\ Done

\* G_IO_STATUS_ERROR: the watch goes, the loop stays.
IoError ==
    /\ pc = "loop" /\ watch
    /\ watch' = FALSE /\ Happened("io_error")
    /\ UNCHANGED <<conf, main, log, conn, sched, pool>> /\ Done

IoEof ==
    /\ pc = "loop" /\ watch
    /\ vmon_teardown_log /\ Goto("quit")
    /\ watch' = FALSE /\ Happened("eof")
    /\ UNCHANGED <<conf, conn, sched, pool>> /\ Done

\* Mutation: the watch is removed as after an error.
IoAgain_Removed ==
    /\ pc = "loop" /\ watch
    /\ watch' = FALSE
    /\ UNCHANGED <<conf, main, log, conn, sched, pool, events>> /\ Done
IoAgain ==
    /\ pc = "loop" /\ watch
    /\ UNCHANGED <<conf, main, res, pool, events>> /\ Done

vmon_io_callback == IoNormal \/ IoError \/ IoEof \/ IoAgain

\* An error is logged, and the timer stays.
poll_libvirt ==
    /\ pc = "loop" /\ conf.period # 0
    /\ Dispatch \/ Refused
    /\ UNCHANGED <<conf, main, res, events, misuse>>

\* A timer of a busy worker expires: worker_discard, executor_replace.  The
\* discarded thread keeps its task and will take others.  GLib still dispatches
\* the sources of the current iteration that are ready when the loop is quit.
worker_discard(w) ==
    /\ pc \in {"loop", "quit"} /\ conf.timeout # 0
    /\ slot[w] # None /\ th[slot[w]] = "busy"
    /\ worker_init(w, {"discarded"})
    /\ UNCHANGED <<conf, main, res, queue, dispatched, misuse>>

-----------------------------------------------------------------------------
(* Shutdown *)

\* The loop returns; scheduler_stop does nothing in integrated mode.
LoopEnds ==
    /\ pc = "quit"
    /\ pc' = "tokens" /\ j' = 0 /\ UNCHANGED err
    /\ UNCHANGED <<conf, res, pool, events, misuse>>

\* Mutation: one token for all workers.
executor_stop_worker_One ==
    /\ pc = "tokens" /\ j < conf.threads
    /\ j' = conf.threads /\ UNCHANGED <<pc, err>>
    /\ IF Len(queue) < conf.tasks
       THEN queue' = Append(queue, "stop") /\ UNCHANGED events
       ELSE Happened("no_token") /\ UNCHANGED queue
    /\ UNCHANGED <<conf, res, th, slot, dispatched, misuse>>
\* executor_stop: a stop token for each worker, lost when the queue is full.
executor_stop_worker ==
    /\ pc = "tokens" /\ j < conf.threads
    /\ j' = j + 1 /\ UNCHANGED <<pc, err>>
    /\ IF Len(queue) < conf.tasks
       THEN queue' = Append(queue, "stop") /\ UNCHANGED events
       ELSE Happened("no_token") /\ UNCHANGED queue
    /\ UNCHANGED <<conf, res, th, slot, dispatched, misuse>>

TokensSent ==
    /\ pc = "tokens" /\ j >= conf.threads
    /\ pc' = "join" /\ j' = 0 /\ UNCHANGED err
    /\ UNCHANGED <<conf, res, pool, events, misuse>>

\* wo->current of the Worker of thread t.  Once workers were replaced another
\* thread may have set it.
CurrentSet(t) ==
    \E u \in Threads : th[u] \in {"busy", "stopping"} /\ (u = t \/ "discarded" \in events)

\* Mutation: main does not wait for a worker that is not busy.
worker_join_NoWait ==
    /\ pc = "join" /\ j < conf.threads
    /\ j' = j + 1 /\ UNCHANGED <<err, pc, events>>
    /\ UNCHANGED <<conf, res, pool, misuse>>
\* worker_join for the next worker: busy ones are skipped, others waited for.
\* Joining a thread that was never created is undefined: an error or a crash.
worker_join ==
    /\ pc = "join" /\ j < conf.threads
    /\ j' = j + 1 /\ UNCHANGED err
    /\ LET t == slot[j + 1]
       IN  IF t = None THEN pc' \in {"join", "aborted"} /\ UNCHANGED events
           ELSE /\ UNCHANGED pc
                /\ \/ CurrentSet(t) /\ Happened("skipped")
                   \/ th[t] = "ended" /\ UNCHANGED events
    /\ UNCHANGED <<conf, res, pool, misuse>>

\* executor_stop returns, executor_free does nothing.
WorkersJoined ==
    /\ pc = "join" /\ j >= conf.threads /\ Goto("cleanup_sched")
    /\ UNCHANGED <<conf, res, pool, events>>
    /\ misuse' = misuse \cup vmon_log(Main)

scheduler_free ==
    /\ pc = "cleanup_sched" /\ Goto("cleanup_libvirt")
    /\ sched' = "freed"
    /\ UNCHANGED <<conf, log, conn, watch, pool, events, misuse>>

virConnectClose ==
    /\ pc = "cleanup_libvirt" /\ Goto("done")
    /\ conn' = "closed"
    /\ UNCHANGED <<conf, log, sched, watch, pool, events>>
    /\ misuse' = misuse \cup vmon_log(Main)

\* main returns and the process with all its threads is gone.
Return ==
    /\ pc = "done" /\ Goto("exited")
    /\ UNCHANGED <<conf, res, pool, events, misuse>>

-----------------------------------------------------------------------------
(* The threads *)

Running == pc \notin {"exited", "aborted"}

\* worker_execute takes an element.  A task with a timeout reads the scheduler
\* to arm its timer.
Take(t) ==
    /\ Running /\ th[t] = "idle" /\ queue # <<>>
    /\ queue' = Tail(queue)
    /\ th' = [th EXCEPT ![t] = IF Head(queue) = "stop" THEN "stopping" ELSE "busy"]
    /\ misuse' = misuse \cup vmon_log(t) \cup
           IF Head(queue) = "task" /\ conf.timeout # 0 /\ sched = "freed"
           THEN {<<"sched", t>>} ELSE {}
    /\ UNCHANGED <<conf, main, res, slot, dispatched, events>>

\* list_domains_work dispatches a task for a domain; not once executor_stop
\* has cleared exc->running.
DispatchDomain(t) ==
    /\ pc \in {"loop", "quit", "tokens", "join"} /\ th[t] = "busy"
    /\ Dispatch
    /\ UNCHANGED <<conf, main, res, events, misuse>>

\* The work function comes back from libvirt and its result is collected.
Finish(t) ==
    /\ Running /\ th[t] \in {"busy", "stopping"}
    /\ th' = [th EXCEPT ![t] = IF @ = "stopping" THEN "ended" ELSE "idle"]
    /\ misuse' = misuse \cup vmon_log(t) \cup
           IF th[t] = "busy" /\ conn = "closed" THEN {<<"conn", t>>} ELSE {}
    /\ UNCHANGED <<conf, main, res, slot, queue, dispatched, events>>

Start ==
    \/ config_parse_cmdline \/ vmon_setup_log \/ virConnectOpenReadOnly
    \/ scheduler_init \/ executor_init \/ executor_start \/ ExecutorStarted
    \/ vmon_setup_io
Loop == vmon_io_callback \/ poll_libvirt \/ \E w \in Workers : worker_discard(w)
Shutdown ==
    \/ LoopEnds \/ executor_stop_worker \/ TokensSent \/ worker_join
    \/ WorkersJoined \/ scheduler_free \/ virConnectClose \/ Return
Worker(t) == Take(t) \/ DispatchDomain(t) \/ Finish(t)

Next == Start \/ Loop \/ Shutdown \/ \E t \in Threads : Worker(t)

Spec == Init /\ [][Next]_vars

\* main goes on with what it has begun, an idle thread takes an element, a task
\* returns.  Input, polling and expiries owe nothing.
Fairness ==
    /\ WF_vars(Start) /\ WF_vars(Shutdown)
    /\ \A t \in Threads : WF_vars(Finish(t))
    /\ WF_vars(\E t \in Threads : Take(t))
FairSpec == Spec /\ Fairness

-----------------------------------------------------------------------------
Labels ==
    {"start", "log", "connect", "scheduler", "executor", "workers", "setup_io",
     "loop", "quit", "tokens", "join", "cleanup_sched", "cleanup_libvirt",
     "done", "exited", "aborted"}

TypeOK ==
    /\ conf \in Confs
    /\ pc \in Labels /\ j \in 0 .. MaxWorkers /\ err \in {0, -1}
    /\ log \in {"none", "stderr", "file", "closed"}
    /\ conn \in {"none", "open", "closed"} /\ sched \in {"none", "alive", "freed"}
    /\ watch \in BOOLEAN
    /\ th \in [Threads -> {"unborn", "idle", "busy", "stopping", "ended"}]
    /\ slot \in [Workers -> Threads \cup {None}]
    /\ queue \in Seq({"task", "stop"}) /\ dispatched \in 0 .. MaxDispatch
    /\ events \subseteq {"eof", "io_error", "discarded", "skipped", "no_thread", "no_token"}
    /\ misuse \subseteq {"log", "sched", "conn"} \X (Threads \cup {Main})

\* Whichever step of the start-up fails, and however the loop ends, main has
\* released the connection and the scheduler when it returns, and its labels
\* release only what was acquired and not released yet.
Released ==
    /\ pc = "cleanup_sched" => sched = "alive"
    /\ pc = "cleanup_libvirt" => conn = "open"
    /\ pc = "exited" => conn # "open" /\ sched # "alive"

\* The main loop runs only with a worker to serve it, although executor_start
\* reports just its last pthread_create and a failed replacement is ignored.
ServedByWorker == pc = "loop" => \E t \in Threads : th[t] \in {"idle", "busy"}

\* vmon goes on serving: one that reads stdin listens as long as its loop runs,
\* unless reading failed, and a polling one never leaves its loop, however full
\* the queue gets.
StaysListening ==
    /\ pc = "loop" /\ conf.period = 0 => watch \/ "io_error" \in events
    /\ pc \in {"quit", "tokens", "join"} => conf.period = 0

\* When executor_stop has waited for every worker and none was ever discarded,
\* no thread uses the scheduler or the connection that main has released.
NoLateUse ==
    (\E t \in Threads, r \in {"sched", "conn"} : <<r, t>> \in misuse) =>
        events \cap {"skipped", "discarded"} # {}

\* End of input ends the process, if no worker was replaced or missing and the
\* queue had room for the stop tokens.
EndOfInputEnds ==
    "eof" \in events ~>
        pc = "exited" \/ events \cap {"discarded", "no_thread", "no_token"} # {}
=============================================================================
