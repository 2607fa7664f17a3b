----------------------------- MODULE Scheduler ------------------------------
(***************************************************************************)
(* lib/scheduler.c: one-shot and periodic timers on top of a GLib main     *)
(* context.  An integrated scheduler uses the default context, which the   *)
(* program's main loop iterates; a standalone one makes a context and a    *)
(* loop of its own in a thread of its own.                                 *)
(*                                                                         *)
(* GLib is external: a context is the set of the sources attached to it,   *)
(* numbered per context; the thread that iterates it runs one callback at  *)
(* a time and destroys the source when the callback returns FALSE.         *)
(***************************************************************************)
EXTENDS Naturals

CONSTANTS
    Timers,       \* scheduler_add calls, each made once, by any thread
    Periodic      \* those whose callback returns TRUE

Contexts == {"default", "own"}
Idle == "idle"      \* no callback is being run

ASSUME TimersAssumption == Periodic \subseteq Timers /\ Idle \notin Timers

VARIABLES
    standalone, context, loop,  \* of struct Scheduler; loop: allocated yet
    is_running,     \* the flag inside the scheduler's own GMainLoop
    spc,            \* the thread that runs scheduler_run
    mpc,            \* the thread that starts and stops the scheduler
    at,             \* at[tm]: the context tm is attached to, or "none" or "gone"
    id,             \* id[tm]: what scheduler_add returned
    next_id,        \* per context: the next source number
    cb,             \* cb[c]: the timer whose callback context c is running
    fired,          \* timers whose callback has run
    deleted,        \* timers given to scheduler_del
    early,          \* scheduler_stop came before the thread ran its loop
    ready           \* what the iteration under way at g_main_loop_quit has left

gvars == <<at, id, next_id>>
vars == <<standalone, context, loop, is_running, spc, mpc, gvars, cb, fired, deleted, early, ready>>

scheduler_init ==
    /\ standalone \in BOOLEAN
    /\ context = "none" /\ loop = FALSE /\ is_running = FALSE
    /\ spc = "unborn" /\ mpc = "init"
    /\ at = [tm \in Timers |-> "none"]
    /\ id = [tm \in Timers |-> 0]
    /\ next_id = [c \in Contexts |-> 1]
    /\ cb = [c \in Contexts |-> Idle]
    /\ fired = {} /\ deleted = {} /\ early = FALSE /\ ready = {}

-----------------------------------------------------------------------------
\* Mutation: an integrated scheduler, too, gets a context nobody iterates.
scheduler_start_Private ==
    /\ mpc = "init" /\ mpc' = "started"
    /\ context' = "own" /\ UNCHANGED spc
    /\ UNCHANGED <<standalone, loop, is_running, gvars, cb, fired, deleted, early, ready>>
scheduler_start ==
    /\ mpc = "init" /\ mpc' = "started"
    /\ IF standalone THEN spc' = "new_context" /\ UNCHANGED context
       ELSE context' = "default" /\ UNCHANGED spc
    /\ UNCHANGED <<standalone, loop, is_running, gvars, cb, fired, deleted, early, ready>>

\* The steps of the standalone thread; g_main_loop_run sets is_running itself
\* and leaves when it finds it cleared at the end of an iteration.
scheduler_run ==
    /\ \/ spc = "new_context" /\ spc' = "new_loop"
          /\ context' = "own" /\ UNCHANGED <<loop, is_running>>
       \/ spc = "new_loop" /\ spc' = "run"
          /\ loop' = TRUE /\ UNCHANGED <<context, is_running>>
       \/ spc = "run" /\ spc' = "iterate"
          /\ is_running' = TRUE /\ UNCHANGED <<context, loop>>
       \/ spc = "iterate" /\ ~is_running /\ spc' = "ended"
          /\ cb["own"] = Idle /\ (\A tm \in ready : at[tm] # "own")
          /\ UNCHANGED <<context, loop, is_running>>
    /\ UNCHANGED <<standalone, mpc, gvars, cb, fired, deleted, early, ready>>

\* Mutation: the thread is joined without being told to quit.
StopQuit_NoQuit ==
    /\ mpc = "started"
    /\ mpc' = IF standalone THEN "join" ELSE "stopped"
    /\ early' = (spc # "iterate")
    /\ UNCHANGED <<standalone, context, loop, is_running, spc, gvars, cb, fired, deleted, ready>>
\* scheduler_stop: g_main_loop_quit, of a loop that may not exist yet, then
\* the join.  The sources ready in the current iteration are still dispatched.
\* An integrated scheduler has nothing to stop.
StopQuit ==
    /\ mpc = "started"
    /\ mpc' = IF standalone THEN "join" ELSE "stopped"
    /\ is_running' = IF standalone /\ loop THEN FALSE ELSE is_running
    /\ early' = (spc # "iterate")
    /\ ready' \in SUBSET {tm \in Timers : at[tm] = "own" /\ spc = "iterate"}
    /\ UNCHANGED <<standalone, context, loop, spc, gvars, cb, fired, deleted>>

\* Mutation: the thread is told to quit and not waited for.
StopJoin_Detach ==
    /\ mpc = "join" /\ mpc' = "stopped"
    /\ UNCHANGED <<standalone, context, loop, is_running, spc, gvars, cb, fired, deleted, early, ready>>
StopJoin ==
    /\ mpc = "join" /\ spc = "ended" /\ mpc' = "stopped"
    /\ UNCHANGED <<standalone, context, loop, is_running, spc, gvars, cb, fired, deleted, early, ready>>

scheduler_stop == StopQuit \/ StopJoin

\* A NULL context is the default one to g_source_attach.
scheduler_add(tm) ==
    LET c == IF context = "own" THEN "own" ELSE "default"
    IN  /\ mpc # "init" /\ at[tm] = "none"
        /\ at' = [at EXCEPT ![tm] = c]
        /\ id' = [id EXCEPT ![tm] = next_id[c]]
        /\ next_id' = [next_id EXCEPT ![c] = @ + 1]
        /\ UNCHANGED <<standalone, context, loop, is_running, spc, mpc, cb, fired, deleted, early, ready>>

\* Mutation: the source is left attached.
scheduler_del_Nop(tm) ==
    /\ at[tm] # "none" /\ deleted' = deleted \cup {tm}
    /\ UNCHANGED <<standalone, context, loop, is_running, spc, mpc, gvars, cb, fired, early, ready>>
\* Mutation: the first source of the context is taken for the caller's.
scheduler_del_First(tm) ==
    /\ at[tm] # "none" /\ deleted' = deleted \cup {tm}
    /\ at' = [x \in Timers |-> IF at[x] = "default" /\ id[x] = 1 THEN "gone" ELSE at[x]]
    /\ UNCHANGED <<standalone, context, loop, is_running, spc, mpc, id, next_id, cb, fired, early, ready>>
\* g_source_remove(id) destroys the source of that number in the default
\* context, whatever context the timer was attached to.
scheduler_del(tm) ==
    /\ at[tm] # "none" /\ deleted' = deleted \cup {tm}
    /\ at' = [x \in Timers |-> IF at[x] = "default" /\ id[x] = id[tm] THEN "gone" ELSE at[x]]
    /\ UNCHANGED <<standalone, context, loop, is_running, spc, mpc, id, next_id, cb, fired, early, ready>>

-----------------------------------------------------------------------------
(* GLib; the program iterates the default context from scheduler_start to
   scheduler_stop unless it has a standalone scheduler (vmon.c:199-206). *)

Iterated(c) ==
    IF c = "own" THEN spc = "iterate" /\ is_running ELSE ~standalone /\ mpc = "started"

g_main_dispatch(c, tm) ==
    /\ Iterated(c) \/ (c = "own" /\ spc = "iterate" /\ tm \in ready)
    /\ cb[c] = Idle /\ at[tm] = c
    /\ cb' = [cb EXCEPT ![c] = tm]
    /\ fired' = fired \cup {tm} /\ ready' = ready \ {tm}
    /\ UNCHANGED <<standalone, context, loop, is_running, spc, mpc, gvars, deleted, early>>

CallbackReturns(c) ==
    /\ cb[c] # Idle
    /\ at' = IF cb[c] \in Periodic THEN at ELSE [at EXCEPT ![cb[c]] = "gone"]
    /\ cb' = [cb EXCEPT ![c] = Idle]
    /\ UNCHANGED <<standalone, context, loop, is_running, spc, mpc, id, next_id, fired, deleted, early, ready>>

\* The thread of an integrated scheduler cannot stop it from inside a callback.
MainIdle == standalone \/ cb["default"] = Idle

Next ==
    \/ scheduler_start
    \/ scheduler_run
    \/ MainIdle /\ scheduler_stop
    \/ \E tm \in Timers : scheduler_add(tm) \/ scheduler_del(tm)
    \/ \E c \in Contexts : CallbackReturns(c) \/ \E tm \in Timers : g_main_dispatch(c, tm)

Spec == scheduler_init /\ [][Next]_vars

\* Threads run, callbacks return, the loop serves every expired source: GLib
\* walks all the sources of a context in each iteration.  Nobody has to add,
\* delete or stop anything; a stop that has begun goes on.
Fairness ==
    /\ WF_vars(scheduler_run) /\ WF_vars(StopJoin)
    /\ \A c \in Contexts : WF_vars(CallbackReturns(c))
    /\ \A c \in Contexts, tm \in Timers : SF_vars(g_main_dispatch(c, tm))
FairSpec == Spec /\ Fairness

-----------------------------------------------------------------------------
\* After scheduler_del(id) no thread starts the callback any more, in the
\* integrated mode vmon uses.
SilentAfterDel ==
    [][~standalone => \A c \in Contexts, tm \in deleted : cb'[c] = tm => cb[c] = tm]_vars

\* A timer goes away only because it was itself deleted or its own callback
\* returned FALSE: an integrated scheduler_del never hits somebody else's timer.
DelPrecise ==
    [][~standalone => \A tm \in Timers : at[tm] # "gone" /\ at'[tm] = "gone" =>
           tm \in deleted' \/ \E c \in Contexts : cb[c] = tm /\ tm \notin Periodic]_vars

\* "automatically rescheduled until returns FALSE" (scheduler.h:32): a timer
\* nobody deletes fires, and fires again and again when its callback returns
\* TRUE, as long as the scheduler is not stopped.  A standalone scheduler
\* keeps this promise to the timers that reached its own context.
Rescheduled ==
    \A tm \in Timers :
        mpc = "started" /\ at[tm] = (IF standalone THEN "own" ELSE "default") ~>
            \/ tm \in deleted \/ mpc # "started"
            \/ tm \in fired /\ (tm \in Periodic => \E c \in Contexts : cb[c] = tm)

\* Once scheduler_stop has returned the scheduler's own thread runs no
\* callback: the executor is stopped next, and worker_discard must not race it.
QuietAfterStop == mpc = "stopped" => cb["own"] = Idle /\ ~Iterated("own")

\* scheduler_stop returns, callbacks that are running or periodic timers
\* notwithstanding, if the thread was already running its loop.
StopReturns == mpc = "join" ~> mpc = "stopped" \/ early
=============================================================================
