---------------------------- MODULE EventProofs -----------------------------
(***************************************************************************)
(* Proofs about Event, for any finite set of threads and any clock.        *)
(***************************************************************************)
EXTENDS Event, FiniteSetTheorems, TLAPS

Inside(s) == {t \in Threads : s[t] # "out"}

IInv == TypeOK /\ WaitersCounted /\ SetServesOne

USE EventAssumption

(***************************************************************************)
(* Counting the threads inside event_wait                                  *)
(***************************************************************************)

\* A thread that moves inside event_wait does not change the count.
LEMMA InsideSame ==
    ASSUME TypeOK, NEW t \in Threads, NEW x \in {"asleep", "woken", "expired"}, st[t] # "out"
    PROVE  Inside([st EXCEPT ![t] = x]) = Inside(st)
  BY DEF Inside, TypeOK

\* A thread that enters event_wait is one more.
LEMMA InsideMore ==
    ASSUME TypeOK, NEW t \in Threads, st[t] = "out"
    PROVE  Cardinality(Inside([st EXCEPT ![t] = "asleep"])) = Cardinality(Inside(st)) + 1
<1>1. IsFiniteSet(Inside(st))
  BY FS_Subset DEF Inside
<1>2. Inside([st EXCEPT ![t] = "asleep"]) = Inside(st) \cup {t} /\ t \notin Inside(st)
  BY DEF Inside, TypeOK
<1> QED
  BY <1>1, <1>2, FS_AddElement

\* A thread that leaves event_wait is one less, and the count was positive.
LEMMA InsideLess ==
    ASSUME TypeOK, NEW t \in Threads, st[t] # "out"
    PROVE  /\ Cardinality(Inside(st)) \in Nat \ {0}
           /\ Cardinality(Inside([st EXCEPT ![t] = "out"])) = Cardinality(Inside(st)) - 1
<1>1. IsFiniteSet(Inside(st))
  BY FS_Subset DEF Inside
<1>2. Inside([st EXCEPT ![t] = "out"]) = Inside(st) \ {t} /\ t \in Inside(st)
  BY DEF Inside, TypeOK
<1>3. Cardinality(Inside(st)) \in Nat /\ Cardinality(Inside(st)) # 0
  BY <1>1, <1>2, FS_CardinalityType, FS_EmptySet
<1> QED
  BY <1>1, <1>2, <1>3, FS_RemoveElement

\* While a thread sleeps, event_set signals.
LEMMA SleepersSignalled ==
    ASSUME IInv, Asleep # {}
    PROVE  nwaiters > 0
<1>1. PICK t \in Threads : st[t] = "asleep"
  BY DEF Asleep
<1>2. Cardinality(Inside(st)) \in Nat \ {0}
  BY <1>1, InsideLess DEF IInv
<1> QED
  BY <1>2 DEF IInv, WaitersCounted, Inside

(***************************************************************************)
(* The inductive invariant                                                 *)
(***************************************************************************)

LEMMA InitInv == event_init => IInv
<1> SUFFICES ASSUME event_init PROVE IInv
  OBVIOUS
<1>1. TypeOK
  BY DEF event_init, TypeOK
<1>2. {t \in Threads : st[t] # "out"} = {}
  BY DEF event_init
<1>3. WaitersCounted
  BY <1>2, FS_EmptySet DEF event_init, WaitersCounted
<1> QED
  BY <1>1, <1>3 DEF IInv, SetServesOne, event_init

LEMMA SetKeeps == IInv /\ event_set => IInv'
<1> SUFFICES ASSUME IInv, event_set PROVE IInv'
  OBVIOUS
<1> USE DEF IInv
<1>1. CASE Asleep # {}
  <2>1. PICK t \in Asleep : st' = [st EXCEPT ![t] = "woken"]
    BY <1>1, SleepersSignalled DEF event_set
  <2>2. t \in Threads /\ st[t] = "asleep"
    BY DEF Asleep
  <2>3. TypeOK'
    BY <2>1, <2>2 DEF event_set, TypeOK
  <2>4. Inside(st') = Inside(st)
    BY <2>1, <2>2, InsideSame
  <2>5. WaitersCounted'
    BY <2>4 DEF WaitersCounted, Inside, event_set
  <2>6. t \in Woken'
    BY <2>1, <2>2 DEF Woken, TypeOK
  <2> QED
    BY <2>3, <2>5, <2>6 DEF SetServesOne
<1>2. CASE Asleep = {}
  BY <1>2 DEF event_set, TypeOK, WaitersCounted, SetServesOne, Asleep
<1> QED
  BY <1>1, <1>2

LEMMA ClearKeeps == IInv /\ event_clear => IInv'
  BY DEF IInv, event_clear, TypeOK, WaitersCounted, SetServesOne

LEMMA BeginKeeps == ASSUME IInv, NEW t \in Threads, WaitBegins(t) PROVE IInv'
<1> USE DEF IInv
<1>1. PICK now \in Clock, ms \in Timeouts : begun' = [begun EXCEPT ![t] = <<now, ms>>]
  BY DEF WaitBegins
<1>2. begun' \in [Threads -> Clock \X (Timeouts \cup {0})] /\ due' \in [Threads -> BOOLEAN]
  BY <1>1 DEF WaitBegins, TypeOK
<1>3. CASE flag
  <2>1. st' = st
    <3>1. st' = [st EXCEPT ![t] = "out"] /\ st[t] = "out"
      BY <1>3 DEF WaitBegins, Leave
    <3>2. st \in [Threads -> {"out", "asleep", "woken", "expired"}]
      BY DEF TypeOK
    <3> QED
      BY <3>1, <3>2
  <2>2. TypeOK'
    BY <1>2, <1>3, <2>1 DEF WaitBegins, Leave, TypeOK
  <2> QED
    BY <1>3, <2>1, <2>2 DEF WaitBegins, Leave, WaitersCounted, SetServesOne
<1>4. CASE ~flag
  <2>1. st' = [st EXCEPT ![t] = "asleep"] /\ st[t] = "out" /\ nwaiters' = nwaiters + 1
    BY <1>4 DEF WaitBegins
  <2>2. TypeOK'
    BY <1>2, <1>4, <2>1 DEF WaitBegins, TypeOK
  <2>3. WaitersCounted'
    BY <2>1, InsideMore DEF WaitersCounted, Inside
  <2> QED
    BY <1>4, <2>2, <2>3 DEF SetServesOne, WaitBegins
<1> QED
  BY <1>3, <1>4

LEMMA ResumeKeeps == ASSUME IInv, NEW t \in Threads, WaitResumes(t) PROVE IInv'
<1> USE DEF IInv
<1>1. st[t] # "out" /\ st[t] # "asleep" /\ flag' = flag /\ begun' = begun /\ due' = due
  BY DEF WaitResumes
<1>2. CASE flag \/ st[t] = "expired"
  <2>1. st' = [st EXCEPT ![t] = "out"] /\ nwaiters' = nwaiters - 1 /\ served' = (served \/ flag)
    BY <1>2 DEF WaitResumes, Leave
  <2>2. ret' \in [Threads -> BOOLEAN]
    BY <1>2 DEF WaitResumes, Leave, TypeOK
  <2>3. WaitersCounted' /\ nwaiters' \in Nat
    <3>1. /\ Cardinality(Inside(st)) \in Nat \ {0}
          /\ Cardinality(Inside(st')) = Cardinality(Inside(st)) - 1
      BY <1>1, <2>1, InsideLess
    <3>2. nwaiters = Cardinality(Inside(st)) /\ (WaitersCounted' <=> nwaiters' = Cardinality(Inside(st')))
      BY DEF WaitersCounted, Inside
    <3> QED
      BY <2>1, <3>1, <3>2
  <2>4. TypeOK'
    BY <1>1, <2>1, <2>2, <2>3 DEF TypeOK
  <2>5. SetServesOne'
    <3>1. CASE flag
      BY <3>1, <2>1 DEF SetServesOne
    <3>2. CASE ~flag
      BY <3>2, <1>1 DEF SetServesOne
    <3> QED
      BY <3>1, <3>2
  <2> QED
    BY <2>3, <2>4, <2>5
<1>3. CASE ~(flag \/ st[t] = "expired")
  <2>1. PICK x \in {"expired", "asleep"} : st' = [st EXCEPT ![t] = x]
    BY <1>3 DEF WaitResumes
  <2>2. UNCHANGED <<nwaiters, ret, served>>
    BY <1>3 DEF WaitResumes
  <2>3. TypeOK'
    BY <1>1, <2>1, <2>2 DEF TypeOK
  <2>4. WaitersCounted'
    BY <1>1, <2>1, <2>2, InsideSame DEF WaitersCounted, Inside
  <2> QED
    BY <1>1, <1>3, <2>3, <2>4 DEF SetServesOne
<1> QED
  BY <1>2, <1>3

LEMMA TimedOutKeeps == ASSUME IInv, NEW t \in Threads, TimedOut(t) PROVE IInv'
<1> USE DEF IInv
<1>1. TypeOK'
  BY DEF TimedOut, TypeOK
<1>2. WaitersCounted'
  BY InsideSame DEF TimedOut, WaitersCounted, Inside
<1>3. Asleep' \subseteq Asleep /\ Woken' = Woken
  BY DEF TimedOut, Asleep, Woken, TypeOK
<1> QED
  BY <1>1, <1>2, <1>3 DEF SetServesOne, TimedOut

LEMMA SpuriousKeeps == ASSUME IInv, NEW t \in Threads, SpuriousWakeup(t) PROVE IInv'
<1> USE DEF IInv
<1>1. TypeOK'
  BY DEF SpuriousWakeup, TypeOK
<1>2. WaitersCounted'
  BY InsideSame DEF SpuriousWakeup, WaitersCounted, Inside
<1>3. t \in Woken'
  BY DEF SpuriousWakeup, Woken, TypeOK
<1> QED
  BY <1>1, <1>2, <1>3 DEF SetServesOne

\* Steps that move no thread.
LEMMA QuietKeeps ==
    ASSUME IInv, NEW t \in Threads, event_is_set(t) \/ DeadlinePasses(t) PROVE IInv'
<1> USE DEF IInv
<1>1. TypeOK' /\ UNCHANGED <<flag, nwaiters, st, served>>
  BY DEF event_is_set, DeadlinePasses, TypeOK
<1> QED
  BY <1>1 DEF WaitersCounted, SetServesOne, Asleep, Woken

LEMMA NextInv == IInv /\ [Next]_vars => IInv'
<1> SUFFICES ASSUME IInv, [Next]_vars PROVE IInv'
  OBVIOUS
<1>1. CASE UNCHANGED vars
  BY <1>1 DEF vars, IInv, TypeOK, WaitersCounted, SetServesOne, Asleep, Woken
<1>2. ASSUME NEW t \in Threads,
             event_is_set(t) \/ WaitBegins(t) \/ WaitResumes(t)
                 \/ DeadlinePasses(t) \/ TimedOut(t) \/ SpuriousWakeup(t)
      PROVE  IInv'
  BY <1>2, BeginKeeps, ResumeKeeps, TimedOutKeeps, SpuriousKeeps, QuietKeeps
<1> QED
  BY <1>1, <1>2, SetKeeps, ClearKeeps DEF Next

LEMMA Invariance == Spec => []IInv
  BY InitInv, NextInv, PTL DEF Spec

(***************************************************************************)
(* The theorems                                                            *)
(***************************************************************************)

\* Every variable of the event keeps its type: nwaiters never drops below 0.
THEOREM TypeCorrect == Spec => []TypeOK
  BY Invariance, PTL DEF IInv

\* nwaiters is the number of threads inside event_wait, for any number of them.
THEOREM WaitersAlwaysCounted == Spec => []WaitersCounted
  BY Invariance, PTL DEF IInv

\* event_set reaches one of the sleepers, for any number of them.
THEOREM SetReachesOne == Spec => []SetServesOne
  BY Invariance, PTL DEF IInv

\* timespec_addms adds milliseconds and normalises, for every clock and timeout.
LEMMA AddMs ==
    ASSUME NEW ts \in [tv_sec : Nat, tv_nsec : Nat], NEW ms \in Nat
    PROVE  LET r == timespec_addms(ts, ms)
           IN  /\ r.tv_nsec < NsPerSec
               /\ r.tv_sec * NsPerSec + r.tv_nsec = ts.tv_sec * NsPerSec + ts.tv_nsec + ms * NsPerMs
<1> DEFINE q == ms \div MsPerSec
           e == ms % MsPerSec
           n == ts.tv_nsec + e * NsPerMs
           c == n \div NsPerSec
           d == n % NsPerSec
<1>1. q \in Nat /\ e \in Nat /\ ms = q * MsPerSec + e
  OBVIOUS
<1>2. NsPerSec \in Nat \ {0}
  BY DEF NsPerSec
<1>3. n \in Nat
  BY <1>1
<1>4. c \in Nat /\ d \in Nat /\ d < NsPerSec /\ n = c * NsPerSec + d
  BY <1>2, <1>3
<1>5. ms * NsPerMs = q * NsPerSec + e * NsPerMs
  <2>1. (q * MsPerSec) * NsPerMs = q * (MsPerSec * NsPerMs)
    BY <1>1
  <2>2. (q * MsPerSec + e) * NsPerMs = (q * MsPerSec) * NsPerMs + e * NsPerMs
    BY <1>1
  <2> QED
    BY <1>1, <2>1, <2>2 DEF NsPerSec
<1>6. timespec_addms(ts, ms) = [tv_sec |-> ts.tv_sec + c + q, tv_nsec |-> d]
  BY DEF timespec_addms
<1> HIDE DEF q, e, n, c, d
<1>7. (ts.tv_sec + c + q) * NsPerSec = ts.tv_sec * NsPerSec + c * NsPerSec + q * NsPerSec
  BY <1>1, <1>2, <1>4
<1>8. n = ts.tv_nsec + e * NsPerMs
  BY DEF n
<1>9. (ts.tv_sec + c + q) * NsPerSec + d = ts.tv_sec * NsPerSec + ts.tv_nsec + ms * NsPerMs
  <2> DEFINE A == ts.tv_sec * NsPerSec
             B == c * NsPerSec
             C == q * NsPerSec
             D == e * NsPerMs
  <2>1. A \in Nat /\ B \in Nat /\ C \in Nat /\ D \in Nat /\ ts.tv_nsec \in Nat
    BY <1>1, <1>2, <1>4
  <2>2. n = B + d /\ n = ts.tv_nsec + D /\ ms * NsPerMs = C + D
    BY <1>4, <1>5, <1>8
  <2>3. (ts.tv_sec + c + q) * NsPerSec = A + B + C
    BY <1>7
  <2> HIDE DEF A, B, C, D
  <2>4. A + B + C + d = A + ts.tv_nsec + (C + D)
    BY <2>1, <2>2, <1>4
  <2> QED
    BY <2>2, <2>3, <2>4 DEF A
<1> QED
  BY <1>4, <1>6, <1>9

\* The deadline of every wait is exact, whatever the clock says and however
\* long the timeout.
THEOREM DeadlineAlwaysExact == Spec => []DeadlineExact
<1>1. TypeOK => DeadlineExact
  <2> SUFFICES ASSUME TypeOK, NEW t \in Threads
               PROVE  LET now == begun[t][1]
                          ts == timespec_addms(now, begun[t][2])
                      IN  /\ ts.tv_nsec < NsPerSec
                          /\ ts.tv_sec * NsPerSec + ts.tv_nsec
                                 = now.tv_sec * NsPerSec + now.tv_nsec + begun[t][2] * NsPerMs
    BY DEF DeadlineExact
  <2>1. begun[t] \in Clock \X (Timeouts \cup {0})
    BY DEF TypeOK
  <2>2. begun[t][1] \in [tv_sec : Nat, tv_nsec : Nat] /\ begun[t][2] \in Nat
    <3>1. begun[t][1] \in Clock /\ begun[t][2] \in Timeouts \cup {0}
      <4> DEFINE T == Timeouts \cup {0}
      <4>1. begun[t] \in Clock \X T
        BY <2>1
      <4> HIDE DEF T
      <4>2. begun[t][1] \in Clock /\ begun[t][2] \in T
        BY <4>1
      <4> QED
        BY <4>2 DEF T
    <3>2. NsPerSec \in Nat
      BY DEF NsPerSec
    <3>3. begun[t][1] \in [tv_sec : Nat, tv_nsec : Nat]
      <4>1. begun[t][1] \in [tv_sec : Nat, tv_nsec : 0 .. NsPerSec - 1]
        BY <3>1
      <4>2. 0 .. NsPerSec - 1 \subseteq Nat
        BY <3>2
      <4> QED
        BY <4>1, <4>2
    <3>4. Timeouts \cup {0} \subseteq Nat
      OBVIOUS
    <3>5. begun[t][2] \in Nat
      BY <3>1, <3>4
    <3> QED
      BY <3>3, <3>5
  <2> QED
    BY <2>2, AddMs
<1> QED
  BY <1>1, TypeCorrect, PTL
=============================================================================
