------------------------------- MODULE Event --------------------------------
(***************************************************************************)
(* lib/threading.c: a flag that threads set, clear, test, and wait for     *)
(* with a timeout.                                                         *)
(*                                                                         *)
(* A step is one critical section of ev->lock, so event_wait is split at   *)
(* pthread_cond_timedwait.  That call returns because of a signal, for no  *)
(* reason, or because the deadline has passed; it is computed once, when   *)
(* the wait begins.                                                        *)
(***************************************************************************)
EXTENDS Naturals, FiniteSets

CONSTANTS
    Threads,     \* those that call event_wait and event_is_set
    Clock,       \* readings of CLOCK_REALTIME, as [tv_sec, tv_nsec]
    Timeouts,    \* in milliseconds
    MsPerSec, NsPerMs

NsPerSec == MsPerSec * NsPerMs

ASSUME EventAssumption ==
    /\ MsPerSec \in Nat \ {0} /\ NsPerMs \in Nat \ {0}
    /\ Clock \subseteq [tv_sec : Nat, tv_nsec : 0 .. NsPerSec - 1]
    /\ Timeouts \subseteq Nat /\ IsFiniteSet(Threads)

VARIABLES
    flag, nwaiters,   \* of struct Event
    st,               \* st[t]: "out" of event_wait, "asleep" in
                      \* pthread_cond_timedwait, or on the way out of it,
                      \* "woken" (rc = 0) or "expired" (rc = ETIMEDOUT)
    begun,            \* begun[t]: the clock and the timeout its wait began with
    due,              \* due[t]: the deadline has passed
    ret,              \* ret[t]: what its last call returned
    served            \* some wait returned TRUE since the last event_set

vars == <<flag, nwaiters, st, begun, due, ret, served>>

Asleep == {t \in Threads : st[t] = "asleep"}
Woken == {t \in Threads : st[t] = "woken"}

event_init ==
    /\ flag = FALSE /\ nwaiters = 0 /\ served = FALSE
    /\ st = [t \in Threads |-> "out"]
    /\ begun \in [Threads -> Clock \X {0}]
    /\ due = [t \in Threads |-> FALSE]
    /\ ret = [t \in Threads |-> FALSE]

\* One sleeper is woken, not all of them.
event_set ==
    /\ flag' = TRUE /\ served' = FALSE
    /\ IF nwaiters > 0 /\ Asleep # {}
       THEN \E t \in Asleep : st' = [st EXCEPT ![t] = "woken"]
       ELSE UNCHANGED st
    /\ UNCHANGED <<nwaiters, begun, due, ret>>

event_clear ==
    /\ flag' = FALSE
    /\ UNCHANGED <<nwaiters, st, begun, due, ret, served>>

event_is_set(t) ==
    /\ st[t] = "out"
    /\ ret' = [ret EXCEPT ![t] = flag]
    /\ UNCHANGED <<flag, nwaiters, st, begun, due, served>>

-----------------------------------------------------------------------------
\* Mutation: the carry of the nanoseconds is dropped.
timespec_addms_NoCarry(ts, ms) ==
    LET nsec == ts.tv_nsec + (ms % MsPerSec) * NsPerMs
    IN  [tv_sec |-> ts.tv_sec + ms \div MsPerSec, tv_nsec |-> nsec % NsPerSec]
timespec_addms(ts, ms) ==
    LET nsec == ts.tv_nsec + (ms % MsPerSec) * NsPerMs
    IN  [tv_sec |-> ts.tv_sec + nsec \div NsPerSec + ms \div MsPerSec,
         tv_nsec |-> nsec % NsPerSec]

\* The wait returns the flag.
Leave(t) ==
    /\ st' = [st EXCEPT ![t] = "out"]
    /\ ret' = [ret EXCEPT ![t] = flag]
    /\ served' = (served \/ flag)

\* Mutation: a thread is counted only after its first sleep.
WaitBegins_Uncounted(t) ==
    /\ st[t] = "out"
    /\ \E now \in Clock, ms \in Timeouts : begun' = [begun EXCEPT ![t] = <<now, ms>>]
    /\ due' = [due EXCEPT ![t] = FALSE]
    /\ IF flag THEN Leave(t)
       ELSE st' = [st EXCEPT ![t] = "asleep"] /\ UNCHANGED <<ret, served>>
    /\ UNCHANGED <<flag, nwaiters>>
\* event_wait up to the first sleep.  A wait that finds the flag set counts
\* itself in and out.
WaitBegins(t) ==
    /\ st[t] = "out"
    /\ \E now \in Clock, ms \in Timeouts : begun' = [begun EXCEPT ![t] = <<now, ms>>]
    /\ due' = [due EXCEPT ![t] = FALSE]
    /\ IF flag THEN Leave(t) /\ UNCHANGED nwaiters
       ELSE /\ st' = [st EXCEPT ![t] = "asleep"] /\ nwaiters' = nwaiters + 1
            /\ UNCHANGED <<ret, served>>
    /\ UNCHANGED flag

\* Mutation: the deadline is computed anew for each sleep.
WaitResumes_Again(t) ==
    /\ st[t] \in {"woken", "expired"}
    /\ IF flag \/ st[t] = "expired"
       THEN Leave(t) /\ nwaiters' = nwaiters - 1 /\ UNCHANGED due
       ELSE /\ st' = [st EXCEPT ![t] = "asleep"] /\ due' = [due EXCEPT ![t] = FALSE]
            /\ UNCHANGED <<nwaiters, ret, served>>
    /\ UNCHANGED <<flag, begun>>
\* The loop goes on after pthread_cond_timedwait; called with a deadline that
\* has passed, it returns at once.
WaitResumes(t) ==
    /\ st[t] \in {"woken", "expired"}
    /\ IF flag \/ st[t] = "expired"
       THEN Leave(t) /\ nwaiters' = nwaiters - 1
       ELSE /\ st' = [st EXCEPT ![t] = IF due[t] THEN "expired" ELSE "asleep"]
            /\ UNCHANGED <<nwaiters, ret, served>>
    /\ UNCHANGED <<flag, begun, due>>

-----------------------------------------------------------------------------
(* The clock and the condition variable *)

DeadlinePasses(t) ==
    /\ st[t] # "out" /\ ~due[t]
    /\ due' = [due EXCEPT ![t] = TRUE]
    /\ UNCHANGED <<flag, nwaiters, st, begun, ret, served>>

TimedOut(t) ==
    /\ st[t] = "asleep" /\ due[t]
    /\ st' = [st EXCEPT ![t] = "expired"]
    /\ UNCHANGED <<flag, nwaiters, begun, due, ret, served>>

SpuriousWakeup(t) ==
    /\ st[t] = "asleep"
    /\ st' = [st EXCEPT ![t] = "woken"]
    /\ UNCHANGED <<flag, nwaiters, begun, due, ret, served>>

Next ==
    \/ event_set \/ event_clear
    \/ \E t \in Threads :
           \/ event_is_set(t) \/ WaitBegins(t) \/ WaitResumes(t)
           \/ DeadlinePasses(t) \/ TimedOut(t) \/ SpuriousWakeup(t)

Spec == event_init /\ [][Next]_vars

\* Time passes, an expired wait returns, an awake thread runs.  Nobody has to
\* set the event.
Fairness ==
    \A t \in Threads :
        WF_vars(DeadlinePasses(t)) /\ WF_vars(TimedOut(t)) /\ WF_vars(WaitResumes(t))
FairSpec == Spec /\ Fairness

-----------------------------------------------------------------------------
TypeOK ==
    /\ flag \in BOOLEAN /\ served \in BOOLEAN
    /\ nwaiters \in Nat
    /\ st \in [Threads -> {"out", "asleep", "woken", "expired"}]
    /\ begun \in [Threads -> Clock \X (Timeouts \cup {0})]
    /\ due \in [Threads -> BOOLEAN] /\ ret \in [Threads -> BOOLEAN]

\* nwaiters, on which event_set decides whether to signal, is the number of
\* threads inside event_wait.
WaitersCounted == nwaiters = Cardinality({t \in Threads : st[t] # "out"})

\* A set event that threads sleep through has reached one of them: it is
\* awake, or one has returned TRUE since the event was set.
SetServesOne == flag /\ Asleep # {} => Woken # {} \/ served

\* The deadline of a wait is its beginning plus the timeout, in the form
\* pthread_cond_timedwait accepts.
DeadlineExact ==
    \A t \in Threads : st[t] # "out" =>
        LET now == begun[t][1]
            ts == timespec_addms(now, begun[t][2])
        IN  /\ ts.tv_nsec < NsPerSec
            /\ ts.tv_sec * NsPerSec + ts.tv_nsec
                   = now.tv_sec * NsPerSec + now.tv_nsec + begun[t][2] * NsPerMs

\* Every wait ends, although event_set wakes only one thread, the event may be
\* cleared before that one runs, and wakeups may be spurious.
WaitEnds == \A t \in Threads : st[t] # "out" ~> st[t] = "out"
=============================================================================
