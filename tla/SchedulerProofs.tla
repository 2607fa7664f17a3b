-------------------------- MODULE SchedulerProofs ---------------------------
(***************************************************************************)
(* Proofs about Scheduler, for any set of timers, periodic or not.         *)
(***************************************************************************)
EXTENDS Scheduler, TLAPS

USE TimersAssumption

Places == Contexts \cup {"none", "gone"}

TypeOK ==
    /\ standalone \in BOOLEAN /\ context \in Contexts \cup {"none"}
    /\ loop \in BOOLEAN /\ is_running \in BOOLEAN /\ early \in BOOLEAN
    /\ spc \in {"unborn", "new_context", "new_loop", "run", "iterate", "ended"}
    /\ mpc \in {"init", "started", "join", "stopped"}
    /\ at \in [Timers -> Places] /\ id \in [Timers -> Nat]
    /\ next_id \in [Contexts -> Nat]
    /\ cb \in [Contexts -> Timers \cup {Idle}]
    /\ fired \subseteq Timers /\ deleted \subseteq Timers /\ ready \subseteq Timers

LEMMA InitType == scheduler_init => TypeOK
<1> SUFFICES ASSUME scheduler_init PROVE TypeOK
  OBVIOUS
<1>1. at \in [Timers -> Places] /\ id \in [Timers -> Nat]
  BY DEF scheduler_init, Places
<1>2. next_id \in [Contexts -> Nat] /\ cb \in [Contexts -> Timers \cup {Idle}]
  BY DEF scheduler_init
<1> QED
  BY <1>1, <1>2 DEF scheduler_init, TypeOK

LEMMA NextType == TypeOK /\ [Next]_vars => TypeOK'
<1> SUFFICES ASSUME TypeOK, [Next]_vars PROVE TypeOK'
  OBVIOUS
<1>1. CASE scheduler_start \/ scheduler_run
  BY <1>1 DEF scheduler_start, scheduler_run, gvars, TypeOK, Contexts
<1>2. CASE StopQuit
  <2>1. early' \in BOOLEAN /\ is_running' \in BOOLEAN
    BY <1>2 DEF StopQuit, TypeOK
  <2> QED
    BY <1>2, <2>1 DEF StopQuit, gvars, TypeOK
<1>3. CASE StopJoin
  BY <1>3 DEF StopJoin, gvars, TypeOK
<1>4. ASSUME NEW tm \in Timers, scheduler_add(tm) PROVE TypeOK'
  <2> DEFINE c == IF context = "own" THEN "own" ELSE "default"
  <2>1. c \in Contexts /\ c \in Places
    BY DEF Contexts, Places
  <2>2. /\ at' = [at EXCEPT ![tm] = c] /\ id' = [id EXCEPT ![tm] = next_id[c]]
        /\ next_id' = [next_id EXCEPT ![c] = @ + 1]
        /\ UNCHANGED <<standalone, context, loop, is_running, spc, mpc, cb, fired, deleted, early, ready>>
    BY <1>4 DEF scheduler_add
  <2> HIDE DEF c
  <2> QED
    BY <2>1, <2>2 DEF TypeOK
<1>5. ASSUME NEW tm \in Timers, scheduler_del(tm) PROVE TypeOK'
  <2>1. at' \in [Timers -> Places]
    BY <1>5 DEF scheduler_del, TypeOK, Places
  <2> QED
    BY <1>5, <2>1 DEF scheduler_del, TypeOK
<1>6. ASSUME NEW c \in Contexts, CallbackReturns(c) PROVE TypeOK'
  <2>1. cb[c] \in Timers
    BY <1>6 DEF CallbackReturns, TypeOK
  <2>2. at' \in [Timers -> Places]
    BY <1>6, <2>1 DEF CallbackReturns, TypeOK, Places
  <2>3. cb' \in [Contexts -> Timers \cup {Idle}]
    BY <1>6 DEF CallbackReturns, TypeOK
  <2> QED
    BY <1>6, <2>2, <2>3 DEF CallbackReturns, TypeOK
<1>7. ASSUME NEW c \in Contexts, NEW tm \in Timers, g_main_dispatch(c, tm) PROVE TypeOK'
  BY <1>7 DEF g_main_dispatch, gvars, TypeOK
<1>8. CASE UNCHANGED vars
  BY <1>8 DEF vars, gvars, TypeOK
<1> QED
  BY <1>1, <1>2, <1>3, <1>4, <1>5, <1>6, <1>7, <1>8 DEF Next, scheduler_stop

(***************************************************************************)
(* The scheduler's own thread                                              *)
(***************************************************************************)

\* Only the thread of a standalone scheduler runs callbacks of the own context,
\* inside its loop, and scheduler_stop returns after it has ended.
OwnThread ==
    /\ spc # "iterate" => cb["own"] = Idle
    /\ ~standalone \/ mpc = "init" => spc = "unborn"
    /\ standalone /\ mpc = "stopped" => spc = "ended"

LEMMA OwnThreadNext == TypeOK /\ OwnThread /\ [Next]_vars => OwnThread'
<1> SUFFICES ASSUME TypeOK, OwnThread, [Next]_vars PROVE OwnThread'
  OBVIOUS
<1> USE DEF OwnThread
<1>1. CASE scheduler_start \/ scheduler_run \/ StopQuit \/ StopJoin
  <2>1. CASE scheduler_start
    BY <2>1 DEF scheduler_start
  <2>2. CASE scheduler_run
    BY <2>2 DEF scheduler_run
  <2>3. CASE StopQuit
    BY <2>3 DEF StopQuit
  <2>4. CASE StopJoin
    BY <2>4 DEF StopJoin
  <2> QED
    BY <1>1, <2>1, <2>2, <2>3, <2>4
<1>2. ASSUME NEW tm \in Timers, scheduler_add(tm) \/ scheduler_del(tm) PROVE OwnThread'
  BY <1>2 DEF scheduler_add, scheduler_del
<1>3. ASSUME NEW c \in Contexts, CallbackReturns(c) PROVE OwnThread'
  <2>1. cb'["own"] \in {cb["own"], Idle}
    BY <1>3 DEF CallbackReturns, TypeOK, Contexts
  <2> QED
    BY <1>3, <2>1 DEF CallbackReturns
<1>4. ASSUME NEW c \in Contexts, NEW tm \in Timers, g_main_dispatch(c, tm) PROVE OwnThread'
  <2>1. c = "own" => spc = "iterate"
    BY <1>4 DEF g_main_dispatch, Iterated
  <2>2. c # "own" => cb'["own"] = cb["own"]
    BY <1>4 DEF g_main_dispatch, TypeOK, Contexts
  <2> QED
    BY <1>4, <2>1, <2>2 DEF g_main_dispatch
<1>5. CASE UNCHANGED vars
  BY <1>5 DEF vars
<1> QED
  BY <1>1, <1>2, <1>3, <1>4, <1>5 DEF Next, scheduler_stop

\* Once scheduler_stop has returned, no callback runs in the scheduler's own
\* thread and none will.
THEOREM AlwaysQuietAfterStop == Spec => []QuietAfterStop
<1>1. scheduler_init => OwnThread
  BY DEF scheduler_init, OwnThread, Contexts
<1>2. TypeOK /\ OwnThread => QuietAfterStop
  BY DEF TypeOK, OwnThread, QuietAfterStop, Iterated
<1> QED
  BY <1>1, <1>2, InitType, NextType, OwnThreadNext, PTL DEF Spec

(***************************************************************************)
(* Source numbers                                                          *)
(***************************************************************************)

\* With an integrated scheduler every timer is in the default context, under a
\* number of its own, and a deleted one has left it.
Numbered ==
    ~standalone =>
        /\ context # "own"
        /\ \A tm \in Timers : at[tm] # "own" /\ (at[tm] # "none" => id[tm] < next_id["default"])
        /\ \A x, y \in Timers : at[x] # "none" /\ at[y] # "none" /\ id[x] = id[y] => x = y
        /\ \A tm \in deleted : at[tm] = "gone"

\* A callback that is run belongs to a timer that was added.
Attached == \A c \in Contexts : cb[c] # Idle => at[cb[c]] # "none"

LEMMA AttachedNext == TypeOK /\ Attached /\ [Next]_vars => Attached'
<1> SUFFICES ASSUME TypeOK, Attached, [Next]_vars PROVE Attached'
  OBVIOUS
<1>1. \A c \in Contexts : cb[c] # Idle => cb[c] \in Timers
  BY DEF TypeOK
<1>2. CASE scheduler_start \/ scheduler_run \/ StopQuit \/ StopJoin \/ UNCHANGED vars
  BY <1>2 DEF scheduler_start, scheduler_run, StopQuit, StopJoin, gvars, vars, Attached
<1>3. ASSUME NEW tm \in Timers, scheduler_add(tm) \/ scheduler_del(tm) PROVE Attached'
  <2>1. cb' = cb /\ \A x \in Timers : at[x] # "none" => at'[x] # "none"
    BY <1>3 DEF scheduler_add, scheduler_del, TypeOK
  <2> QED
    BY <1>1, <2>1 DEF Attached
<1>4. ASSUME NEW c \in Contexts, CallbackReturns(c) PROVE Attached'
  <2>1. \A x \in Timers : at[x] # "none" => at'[x] # "none"
    BY <1>1, <1>4 DEF CallbackReturns, TypeOK
  <2>2. \A d \in Contexts : cb'[d] \in {cb[d], Idle}
    BY <1>4 DEF CallbackReturns, TypeOK
  <2> QED
    BY <1>1, <2>1, <2>2 DEF Attached
<1>5. ASSUME NEW c \in Contexts, NEW tm \in Timers, g_main_dispatch(c, tm) PROVE Attached'
  <2>1. at' = at /\ at[tm] = c /\ cb' = [cb EXCEPT ![c] = tm]
    BY <1>5 DEF g_main_dispatch, gvars
  <2>2. c # "none"
    BY DEF Contexts
  <2> QED
    BY <2>1, <2>2 DEF Attached, TypeOK
<1> QED
  BY <1>2, <1>3, <1>4, <1>5 DEF Next, scheduler_stop

\* A step that only takes timers out of the context keeps the numbers.
LEMMA NumbersKept ==
    ASSUME TypeOK, Numbered, UNCHANGED <<standalone, context, id, next_id>>,
           \A tm \in Timers : at'[tm] = at[tm] \/ (at'[tm] = "gone" /\ at[tm] # "none"),
           \A tm \in deleted' : tm \in deleted \/ (~standalone => at'[tm] = "gone"),
           deleted' \subseteq Timers
    PROVE  Numbered'
<1> SUFFICES ASSUME ~standalone PROVE Numbered'
  BY DEF Numbered
<1>1. \A tm \in Timers : at'[tm] # "own" /\ (at'[tm] # "none" => at[tm] # "none")
  BY DEF Numbered
<1>2. \A tm \in deleted' : at'[tm] = "gone"
  BY DEF Numbered
<1> QED
  BY <1>1, <1>2 DEF Numbered

LEMMA NumberedNext ==
    TypeOK /\ OwnThread /\ Attached /\ Numbered /\ [Next]_vars => Numbered'
<1> SUFFICES ASSUME TypeOK, OwnThread, Attached, Numbered, [Next]_vars PROVE Numbered'
  OBVIOUS
<1>1. CASE scheduler_start \/ scheduler_run
  <2>1. UNCHANGED <<standalone, gvars, deleted>> /\ (~standalone => context' \in {context, "default"})
    BY <1>1 DEF scheduler_start, scheduler_run, OwnThread
  <2> QED
    BY <2>1 DEF Numbered, gvars
<1>2. CASE StopQuit \/ StopJoin \/ UNCHANGED vars
  BY <1>2 DEF StopQuit, StopJoin, vars, Numbered, gvars
<1>3. ASSUME NEW tm \in Timers, scheduler_add(tm), ~standalone PROVE Numbered'
  <2>1. context # "own"
    BY <1>3 DEF Numbered
  <2>2. /\ at[tm] = "none" /\ at' = [at EXCEPT ![tm] = "default"]
        /\ id' = [id EXCEPT ![tm] = next_id["default"]]
        /\ next_id' = [next_id EXCEPT !["default"] = @ + 1]
        /\ UNCHANGED <<standalone, context, deleted>>
    BY <1>3, <2>1 DEF scheduler_add
  <2>3. next_id["default"] \in Nat /\ next_id'["default"] = next_id["default"] + 1
    BY <2>2 DEF TypeOK, Contexts
  <2>4. \A x \in Timers : id[x] \in Nat /\ (x # tm => at'[x] = at[x] /\ id'[x] = id[x])
    BY <2>2 DEF TypeOK
  <2>5. at'[tm] = "default" /\ id'[tm] = next_id["default"]
    BY <2>2 DEF TypeOK
  <2>6. \A x \in Timers : at'[x] # "own" /\ (at'[x] # "none" => id'[x] < next_id'["default"])
    BY <1>3, <2>3, <2>4, <2>5 DEF Numbered
  <2>7. ASSUME NEW x \in Timers, at'[x] # "none", x # tm PROVE id'[x] # id'[tm]
    BY <1>3, <2>3, <2>4, <2>5, <2>7 DEF Numbered
  <2>8. \A x, y \in Timers : at'[x] # "none" /\ at'[y] # "none" /\ id'[x] = id'[y] => x = y
    BY <1>3, <2>4, <2>7 DEF Numbered
  <2>9. \A x \in deleted' : at'[x] = "gone"
    BY <1>3, <2>2, <2>4 DEF Numbered, TypeOK
  <2> QED
    BY <2>1, <2>2, <2>6, <2>8, <2>9 DEF Numbered
<1>4. ASSUME NEW tm \in Timers, scheduler_del(tm) PROVE Numbered'
  <2>1. /\ at[tm] # "none" /\ deleted' = deleted \cup {tm}
        /\ at' = [x \in Timers |-> IF at[x] = "default" /\ id[x] = id[tm] THEN "gone" ELSE at[x]]
        /\ UNCHANGED <<standalone, context, id, next_id>>
    BY <1>4 DEF scheduler_del
  <2>2. \A x \in Timers : at'[x] = at[x] \/ (at'[x] = "gone" /\ at[x] # "none")
    BY <2>1
  <2>3. ~standalone => at'[tm] = "gone"
    BY <2>1 DEF Numbered, TypeOK, Places, Contexts
  <2>4. deleted' \subseteq Timers
    BY <2>1 DEF TypeOK
  <2> QED
    BY <2>1, <2>2, <2>3, <2>4, NumbersKept
<1>5. ASSUME NEW c \in Contexts, CallbackReturns(c) PROVE Numbered'
  <2>1. UNCHANGED <<standalone, context, id, next_id, deleted>>
    BY <1>5 DEF CallbackReturns
  <2>2. CASE cb[c] \in Periodic
    BY <1>5, <2>1, <2>2 DEF CallbackReturns, Numbered
  <2>3. CASE cb[c] \notin Periodic
    <3>1. at' = [at EXCEPT ![cb[c]] = "gone"] /\ cb[c] \in Timers
      BY <1>5, <2>3 DEF CallbackReturns, TypeOK
    <3>2. at[cb[c]] # "none"
      BY <1>5 DEF CallbackReturns, Attached
    <3> QED
      BY <2>1, <3>1, <3>2, NumbersKept DEF TypeOK
  <2> QED
    BY <2>2, <2>3
<1>6. ASSUME NEW c \in Contexts, NEW tm \in Timers, g_main_dispatch(c, tm) PROVE Numbered'
  BY <1>6 DEF g_main_dispatch, gvars, Numbered
<1>7. ASSUME NEW tm \in Timers, scheduler_add(tm), standalone PROVE Numbered'
  BY <1>7 DEF scheduler_add, Numbered
<1> QED
  BY <1>1, <1>2, <1>3, <1>4, <1>5, <1>6, <1>7 DEF Next, scheduler_stop

LEMMA SilentStep ==
    TypeOK /\ Numbered /\ Next =>
        (~standalone => \A c \in Contexts, tm \in deleted : cb'[c] = tm => cb[c] = tm)
<1> SUFFICES ASSUME TypeOK, Numbered, Next, ~standalone, NEW c \in Contexts, NEW tm \in deleted,
                    cb'[c] = tm, cb[c] # tm
             PROVE  FALSE
  OBVIOUS
<1>1. tm \in Timers /\ at[tm] = "gone"
  BY DEF TypeOK, Numbered
<1>2. cb' # cb
  OBVIOUS
<1>3. ASSUME NEW d \in Contexts, CallbackReturns(d) PROVE FALSE
  <2>1. cb'[c] \in {cb[c], Idle}
    BY <1>3 DEF CallbackReturns, TypeOK
  <2> QED
    BY <1>1, <2>1
<1>4. ASSUME NEW d \in Contexts, NEW x \in Timers, g_main_dispatch(d, x) PROVE FALSE
  <2>1. at[x] = d /\ cb' = [cb EXCEPT ![d] = x]
    BY <1>4 DEF g_main_dispatch
  <2>2. x = tm
    BY <2>1 DEF TypeOK
  <2> QED
    BY <1>1, <2>1, <2>2 DEF Contexts
<1> QED
  BY <1>2, <1>3, <1>4 DEF Next, scheduler_start, scheduler_run, scheduler_stop, StopQuit, StopJoin,
                          scheduler_add, scheduler_del

\* With an integrated scheduler a timer that was given to scheduler_del never
\* starts its callback again.
THEOREM AlwaysSilentAfterDel == Spec => SilentAfterDel
<1>1. scheduler_init => OwnThread /\ Attached /\ Numbered
  BY DEF scheduler_init, OwnThread, Attached, Numbered, Contexts
<1>2. TypeOK /\ Numbered /\ [Next]_vars =>
          [~standalone => \A c \in Contexts, tm \in deleted : cb'[c] = tm => cb[c] = tm]_vars
  BY SilentStep
<1> QED
  BY <1>1, <1>2, InitType, NextType, OwnThreadNext, AttachedNext, NumberedNext, PTL
     DEF Spec, SilentAfterDel

LEMMA PreciseStep ==
    TypeOK /\ Numbered /\ Next =>
        (~standalone => \A tm \in Timers : at[tm] # "gone" /\ at'[tm] = "gone" =>
            tm \in deleted' \/ \E c \in Contexts : cb[c] = tm /\ tm \notin Periodic)
<1> SUFFICES ASSUME TypeOK, Numbered, Next, ~standalone, NEW tm \in Timers,
                    at[tm] # "gone", at'[tm] = "gone"
             PROVE  tm \in deleted' \/ \E c \in Contexts : cb[c] = tm /\ tm \notin Periodic
  OBVIOUS
<1>1. at' # at
  OBVIOUS
<1>2. ASSUME NEW x \in Timers, scheduler_add(x) PROVE FALSE
  BY <1>2 DEF scheduler_add, TypeOK
<1>3. ASSUME NEW x \in Timers, scheduler_del(x) PROVE tm \in deleted'
  <2>1. at[x] # "none" /\ at[tm] = "default" /\ id[tm] = id[x] /\ x \in deleted'
    BY <1>3 DEF scheduler_del
  <2>2. tm = x
    BY <2>1 DEF Numbered
  <2> QED
    BY <2>1, <2>2
<1>4. ASSUME NEW c \in Contexts, CallbackReturns(c)
      PROVE  cb[c] = tm /\ tm \notin Periodic
  BY <1>4 DEF CallbackReturns, TypeOK
<1> QED
  BY <1>1, <1>2, <1>3, <1>4 DEF Next, scheduler_start, scheduler_run, scheduler_stop, StopQuit,
                                StopJoin, g_main_dispatch, gvars

\* With an integrated scheduler a timer leaves the context only when it was
\* itself deleted or its callback returned FALSE.
THEOREM DelAlwaysPrecise == Spec => DelPrecise
<1>1. scheduler_init => OwnThread /\ Attached /\ Numbered
  BY DEF scheduler_init, OwnThread, Attached, Numbered, Contexts
<1>2. TypeOK /\ Numbered /\ [Next]_vars =>
          [~standalone => \A tm \in Timers : at[tm] # "gone" /\ at'[tm] = "gone" =>
              tm \in deleted' \/ \E c \in Contexts : cb[c] = tm /\ tm \notin Periodic]_vars
  BY PreciseStep
<1> QED
  BY <1>1, <1>2, InitType, NextType, OwnThreadNext, AttachedNext, NumberedNext, PTL
     DEF Spec, DelPrecise
=============================================================================
