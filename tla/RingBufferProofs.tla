-------------------------- MODULE RingBufferProofs --------------------------
(***************************************************************************)
(* Proofs about RingBuffer for every capacity and every finite set of      *)
(* getter threads.                                                         *)
(***************************************************************************)
EXTENDS RingBuffer, Sequences, FiniteSetTheorems, SequenceTheorems, TLAPS

-----------------------------------------------------------------------------
(* Index arithmetic *)

\* A remainder below the divisor is the dividend, and one wrap subtracts it.
LEMMA ModLemma ==
    ASSUME NEW n \in Nat \ {0}, NEW a \in Nat
    PROVE  /\ a < n => a % n = a
           /\ (n <= a /\ a < 2 * n) => a % n = a - n
  OBVIOUS

\* advance (ringbuffer.c:149 and 176) steps to the next slot and wraps.
LEMMA AdvanceStep ==
    ASSUME NEW p \in 0 .. size - 1
    PROVE  /\ advance(p) = IF p = size - 1 THEN 0 ELSE p + 1
           /\ advance(p) \in 0 .. size - 1
  <1>1. CASE p = size - 1
    <2>1. (p + 1) % size = p + 1 - size
      BY <1>1, SizeAssumption, ModLemma
    <2>2. QED
      BY <1>1, <2>1, SizeAssumption DEF advance
  <1>2. CASE p # size - 1
    <2>1. (p + 1) % size = p + 1
      BY <1>2, SizeAssumption, ModLemma
    <2>2. QED
      BY <1>2, <2>1, SizeAssumption DEF advance
  <1>3. QED
    BY <1>1, <1>2

\* rb_item_at addresses the element itself: no offset wraps below OffLimit.
LEMMA ItemAtIdentity ==
    ASSUME NEW p \in 0 .. size - 1
    PROVE  rb_item_at(p) = p
  BY SizeAssumption, OffsetAssumption, ModLemma DEF rb_item_at

-----------------------------------------------------------------------------
(* The inductive invariant *)

\* The four invariants together are inductive: TypeOK alone is not (waiters
\* could become negative), nor is NoLostWakeup (it needs the other counts).
IInv == TypeOK /\ IndicesAgree /\ WaitersCounted /\ NoLostWakeup

\* How a change of one thread's pc changes the sets of sleepers and woken.
LEMMA PcChange ==
    ASSUME TypeOK, NEW g \in Getters, NEW x \in {"idle", "waiting", "woken"},
           pc' = [pc EXCEPT ![g] = x]
    PROVE  /\ pc' \in [Getters -> {"idle", "waiting", "woken"}]
           /\ Waiting' = IF x = "waiting" THEN Waiting \cup {g} ELSE Waiting \ {g}
           /\ Woken' = IF x = "woken" THEN Woken \cup {g} ELSE Woken \ {g}
  BY DEF TypeOK, Waiting, Woken

\* The thread sets are finite, so their cardinalities behave.
LEMMA ThreadSetsFinite ==
    IsFiniteSet(Waiting) /\ IsFiniteSet(Woken) /\ IsFiniteSet(Waiting \cup Woken)
  BY GettersAssumption, FS_Subset DEF Waiting, Woken

\* ringbuffer_init establishes the invariant.
LEMMA InitIInv == Init => IInv
  <1> SUFFICES ASSUME Init PROVE IInv
    OBVIOUS
  <1>1. TypeOK
    BY SizeAssumption DEF Init, ringbuffer_init, TypeOK
  <1>2. Waiting = {} /\ Woken = {}
    BY DEF Init, ringbuffer_init, Waiting, Woken
  <1>3. IndicesAgree
    BY SizeAssumption DEF Init, ringbuffer_init, IndicesAgree, PosFrom
  <1>4. WaitersCounted
    BY <1>2, FS_EmptySet DEF Init, ringbuffer_init, WaitersCounted
  <1>5. QED
    BY <1>1, <1>2, <1>3, <1>4 DEF IInv, NoLostWakeup

\* pthread_cond_signal moves one sleeper, if any, to the woken threads.
LEMMA SignalEffect ==
    ASSUME IInv, pthread_cond_signal
    PROVE  /\ pc' \in [Getters -> {"idle", "waiting", "woken"}]
           /\ (Waiting \cup Woken)' = Waiting \cup Woken
           /\ Waiting' \subseteq Waiting
           /\ Waiting' # {} => Cardinality(Woken') = Cardinality(Woken) + 1
  <1>1. CASE Waiting = {}
    BY <1>1 DEF IInv, TypeOK, pthread_cond_signal, Waiting, Woken
  <1>2. CASE Waiting # {}
    <2>1. PICK g \in Waiting : pc' = [pc EXCEPT ![g] = "woken"]
      BY <1>2 DEF pthread_cond_signal
    <2>2. g \in Getters /\ g \notin Woken
      BY DEF Waiting, Woken
    <2>3. /\ pc' \in [Getters -> {"idle", "waiting", "woken"}]
          /\ Waiting' = Waiting \ {g}
          /\ Woken' = Woken \cup {g}
      BY <2>1, <2>2, PcChange DEF IInv
    <2>4. Cardinality(Woken') = Cardinality(Woken) + 1
      BY <2>2, <2>3, ThreadSetsFinite, FS_AddElement
    <2>5. QED
      BY <2>2, <2>3, <2>4
  <1>3. QED
    BY <1>1, <1>2

\* A put keeps the invariant: the new element comes with its own signal.
LEMMA PutIInv ==
    ASSUME IInv, NEW v \in Values, ringbuffer_put(v)
    PROVE  IInv'
  <1> USE DEF IInv
  <1>1. CASE rb_is_full /\ UNCHANGED vars
    BY <1>1 DEF TypeOK, IndicesAgree, PosFrom, WaitersCounted, NoLostWakeup,
                Waiting, Woken, vars
  <1>2. CASE ~rb_is_full /\ UNCHANGED <<start, waiters, got>> /\ notify
             /\ used' = used + 1 /\ end' = advance(end)
             /\ elems' = [elems EXCEPT ![rb_item_at(end)] = v]
    <2>1. end \in 0 .. size - 1 /\ used < size
      BY <1>2, SizeAssumption DEF TypeOK, rb_is_full
    <2>2. rb_item_at(end) = end
      BY <2>1, ItemAtIdentity
    <2>3. /\ advance(end) = IF end = size - 1 THEN 0 ELSE end + 1
          /\ advance(end) \in 0 .. size - 1
      BY <2>1, AdvanceStep
    <2>4. IndicesAgree'
      BY <1>2, <2>1, <2>3, SizeAssumption DEF TypeOK, IndicesAgree, PosFrom
    <2>5. CASE waiters > 0
      <3>1. pthread_cond_signal
        BY <1>2, <2>5 DEF notify
      <3>2. TypeOK'
        BY <1>2, <2>1, <2>2, <2>3, <3>1, SignalEffect, SizeAssumption DEF TypeOK
      <3>3. WaitersCounted'
        BY <1>2, <3>1, SignalEffect DEF WaitersCounted
      <3>4. NoLostWakeup'
        <4> SUFFICES ASSUME Waiting' # {} PROVE used' <= Cardinality(Woken')
          BY DEF NoLostWakeup
        <4>1. used <= Cardinality(Woken) /\ Cardinality(Woken') = Cardinality(Woken) + 1
          BY <3>1, SignalEffect DEF NoLostWakeup
        <4>2. Cardinality(Woken) \in Nat
          BY ThreadSetsFinite, FS_CardinalityType
        <4>3. QED
          BY <1>2, <4>1, <4>2 DEF TypeOK
      <3>5. QED
        BY <2>4, <3>2, <3>3, <3>4
    <2>6. CASE ~(waiters > 0)
      <3>1. UNCHANGED pc
        BY <1>2, <2>6 DEF notify
      <3>2. Waiting \cup Woken = {}
        <4>1. Cardinality(Waiting \cup Woken) = 0
          BY <2>6 DEF TypeOK, WaitersCounted
        <4>2. QED
          BY <4>1, ThreadSetsFinite, FS_EmptySet
      <3>3. TypeOK'
        BY <1>2, <2>1, <2>2, <2>3, <3>1, SizeAssumption DEF TypeOK
      <3>4. Waiting' = Waiting /\ Woken' = Woken
        BY <3>1 DEF Waiting, Woken
      <3>5. QED
        BY <1>2, <2>4, <3>2, <3>3, <3>4 DEF WaitersCounted, NoLostWakeup
    <2>7. QED
      BY <2>5, <2>6
  <1>3. QED
    BY <1>1, <1>2 DEF ringbuffer_put

\* The common part of both ways to take an element.
LEMMA TakeEffect ==
    ASSUME IInv, NEW g \in Getters, rb_take(g)
    PROVE  /\ used' \in 0 .. size /\ used' = used - 1
           /\ start' \in 0 .. size - 1 /\ end' \in 0 .. size - 1
           /\ elems' \in [0 .. size - 1 -> Values \cup {NoValue}]
           /\ got' \in [Getters -> Values \cup {NoValue}]
           /\ pc' \in [Getters -> {"idle", "waiting", "woken"}]
           /\ IndicesAgree'
           /\ Waiting' = Waiting \ {g} /\ Woken' = Woken \ {g}
  <1> USE DEF IInv
  <1>1. start \in 0 .. size - 1 /\ used \in 1 .. size
    BY SizeAssumption DEF TypeOK, rb_take, rb_is_empty
  <1>2. rb_item_at(start) = start
    BY <1>1, ItemAtIdentity
  <1>3. /\ advance(start) = IF start = size - 1 THEN 0 ELSE start + 1
        /\ advance(start) \in 0 .. size - 1
    BY <1>1, AdvanceStep
  <1>4. IndicesAgree'
    BY <1>1, <1>3, SizeAssumption DEF TypeOK, IndicesAgree, PosFrom, rb_take
  <1>5. /\ pc' \in [Getters -> {"idle", "waiting", "woken"}]
        /\ Waiting' = Waiting \ {g} /\ Woken' = Woken \ {g}
    BY PcChange DEF rb_take
  <1>6. got' \in [Getters -> Values \cup {NoValue}]
    BY <1>1, <1>2 DEF TypeOK, rb_take
  <1>7. QED
    BY <1>1, <1>3, <1>4, <1>5, <1>6, SizeAssumption DEF TypeOK, rb_take

\* Going to sleep happens only on an empty buffer.
LEMMA WaitEffect ==
    ASSUME IInv, NEW g \in Getters, rb_wait(g)
    PROVE  /\ used = 0 /\ UNCHANGED <<used, start, end, elems, got>>
           /\ pc' \in [Getters -> {"idle", "waiting", "woken"}]
           /\ Waiting' = Waiting \cup {g} /\ Woken' = Woken \ {g}
  BY PcChange DEF IInv, rb_wait, rb_is_empty

\* A first attempt to get, successful or not, keeps the invariant.
LEMMA GetEnterIInv ==
    ASSUME IInv, NEW g \in Getters, GetEnter(g)
    PROVE  IInv'
  <1> USE DEF IInv
  <1>1. g \notin Waiting /\ g \notin Woken
    BY DEF GetEnter, Waiting, Woken
  <1>2. CASE rb_take(g) /\ UNCHANGED waiters
    <2>1. Waiting' = Waiting /\ Woken' = Woken
      BY <1>1, <1>2, TakeEffect
    <2>2. TypeOK'
      BY <1>2, TakeEffect DEF TypeOK
    <2>3. WaitersCounted'
      BY <1>2, <2>1 DEF WaitersCounted
    <2>4. NoLostWakeup'
      <3>1. Cardinality(Woken) \in Nat
        BY ThreadSetsFinite, FS_CardinalityType
      <3>2. QED
        BY <1>2, <2>1, <3>1, TakeEffect DEF TypeOK, NoLostWakeup
    <2>5. QED
      BY <1>2, <2>2, <2>3, <2>4, TakeEffect
  <1>3. CASE rb_wait(g) /\ waiters' = waiters + 1
    <2>1. Waiting' = Waiting \cup {g} /\ Woken' = Woken
      BY <1>1, <1>3, WaitEffect
    <2>2. TypeOK'
      BY <1>3, WaitEffect DEF TypeOK
    <2>3. WaitersCounted'
      <3>1. (Waiting \cup Woken)' = (Waiting \cup Woken) \cup {g}
        BY <2>1
      <3>2. QED
        BY <1>1, <1>3, <3>1, ThreadSetsFinite, FS_AddElement DEF WaitersCounted
    <2>4. NoLostWakeup'
      <3>1. Cardinality(Woken) \in Nat
        BY ThreadSetsFinite, FS_CardinalityType
      <3>2. QED
        BY <1>3, <2>1, <3>1, WaitEffect DEF NoLostWakeup
    <2>5. IndicesAgree'
      BY <1>3, WaitEffect DEF IndicesAgree, PosFrom
    <2>6. QED
      BY <2>2, <2>3, <2>4, <2>5
  <1>4. QED
    BY <1>2, <1>3 DEF GetEnter

\* A woken thread that runs again keeps the invariant: it leaves with an
\* element, or it finds the buffer empty and nothing was left to serve.
LEMMA GetResumeIInv ==
    ASSUME IInv, NEW g \in Getters, GetResume(g)
    PROVE  IInv'
  <1> USE DEF IInv
  <1>1. g \notin Waiting /\ g \in Woken
    BY DEF GetResume, Waiting, Woken
  <1>2. /\ Cardinality(Woken) \in Nat
        /\ Cardinality(Woken \ {g}) = Cardinality(Woken) - 1
        /\ Cardinality(Woken \ {g}) \in Nat
    BY <1>1, ThreadSetsFinite, FS_RemoveElement, FS_CardinalityType
  <1>3. CASE rb_take(g) /\ waiters' = waiters - 1
    <2>1. Waiting' = Waiting /\ Woken' = Woken \ {g}
      BY <1>1, <1>3, TakeEffect
    <2>2. (Waiting \cup Woken)' = (Waiting \cup Woken) \ {g}
      BY <1>1, <2>1
    <2>3. WaitersCounted' /\ waiters' \in Nat
      <3>1. Cardinality((Waiting \cup Woken) \ {g}) = Cardinality(Waiting \cup Woken) - 1
        BY <1>1, ThreadSetsFinite, FS_RemoveElement
      <3>2. Cardinality((Waiting \cup Woken) \ {g}) \in Nat
        BY ThreadSetsFinite, FS_RemoveElement, FS_CardinalityType
      <3>3. QED
        BY <1>3, <2>2, <3>1, <3>2 DEF WaitersCounted
    <2>4. TypeOK'
      BY <1>3, <2>3, TakeEffect DEF TypeOK
    <2>5. NoLostWakeup'
      BY <1>2, <1>3, <2>1, TakeEffect DEF TypeOK, NoLostWakeup
    <2>6. QED
      BY <1>3, <2>3, <2>4, <2>5, TakeEffect
  <1>4. CASE rb_wait(g) /\ UNCHANGED waiters
    <2>1. Waiting' = Waiting \cup {g} /\ Woken' = Woken \ {g}
      BY <1>4, WaitEffect
    <2>2. TypeOK'
      BY <1>4, WaitEffect DEF TypeOK
    <2>3. (Waiting \cup Woken)' = Waiting \cup Woken
      BY <1>1, <2>1
    <2>4. WaitersCounted'
      BY <1>4, <2>3 DEF WaitersCounted
    <2>5. NoLostWakeup'
      BY <1>2, <1>4, <2>1, WaitEffect DEF NoLostWakeup
    <2>6. IndicesAgree'
      BY <1>4, WaitEffect DEF IndicesAgree, PosFrom
    <2>7. QED
      BY <2>2, <2>4, <2>5, <2>6
  <1>5. QED
    BY <1>3, <1>4 DEF GetResume

\* A spurious wakeup only adds a woken thread.
LEMMA SpuriousIInv ==
    ASSUME IInv, NEW g \in Getters, SpuriousWakeup(g)
    PROVE  IInv'
  <1> USE DEF IInv
  <1>1. g \in Waiting /\ g \notin Woken
    BY DEF SpuriousWakeup, Waiting, Woken
  <1>2. /\ pc' \in [Getters -> {"idle", "waiting", "woken"}]
        /\ Waiting' = Waiting \ {g} /\ Woken' = Woken \cup {g}
    BY PcChange DEF SpuriousWakeup
  <1>3. TypeOK' /\ IndicesAgree'
    BY <1>2 DEF SpuriousWakeup, TypeOK, IndicesAgree, PosFrom
  <1>4. WaitersCounted'
    <2>1. (Waiting \cup Woken)' = Waiting \cup Woken
      BY <1>1, <1>2
    <2>2. QED
      BY <2>1 DEF WaitersCounted, SpuriousWakeup
  <1>5. NoLostWakeup'
    <2>1. Cardinality(Woken') = Cardinality(Woken) + 1 /\ Cardinality(Woken) \in Nat
      BY <1>1, <1>2, ThreadSetsFinite, FS_AddElement, FS_CardinalityType
    <2>2. QED
      BY <1>1, <2>1 DEF NoLostWakeup, SpuriousWakeup, TypeOK
  <1>6. QED
    BY <1>3, <1>4, <1>5

\* Every step of every thread keeps the invariant.
LEMMA StepIInv == IInv /\ [Next]_vars => IInv'
  <1> SUFFICES ASSUME IInv, [Next]_vars PROVE IInv'
    OBVIOUS
  <1>1. ASSUME NEW v \in Values, ringbuffer_put(v) PROVE IInv'
    BY <1>1, PutIInv
  <1>2. ASSUME NEW g \in Getters, ringbuffer_get(g) PROVE IInv'
    BY <1>2, GetEnterIInv, GetResumeIInv DEF ringbuffer_get
  <1>3. ASSUME NEW g \in Getters, SpuriousWakeup(g) PROVE IInv'
    BY <1>3, SpuriousIInv
  <1>4. CASE UNCHANGED vars
    BY <1>4 DEF IInv, TypeOK, IndicesAgree, PosFrom, WaitersCounted, NoLostWakeup,
                Waiting, Woken, vars
  <1>5. QED
    BY <1>1, <1>2, <1>3, <1>4 DEF Next

\* All of ringbuffer.c keeps the strengthened invariant.
LEMMA IInvHolds == Spec => []IInv
  BY InitIInv, StepIInv, PTL DEF Spec

\* Every variable keeps its type; the indices never leave the buffer.
THEOREM TypeCorrect == Spec => []TypeOK
  <1>1. IInv => TypeOK
    BY DEF IInv
  <1>2. QED
    BY <1>1, IInvHolds, PTL

\* start, end and used stay consistent whatever the order of puts and gets.
THEOREM IndicesAlwaysAgree == Spec => []IndicesAgree
  <1>1. IInv => IndicesAgree
    BY DEF IInv
  <1>2. QED
    BY <1>1, IInvHolds, PTL

\* waiters is exactly the number of threads in pthread_cond_wait.
THEOREM WaitersAlwaysCounted == Spec => []WaitersCounted
  <1>1. IInv => WaitersCounted
    BY DEF IInv
  <1>2. QED
    BY <1>1, IInvHolds, PTL

\* No element is ever left behind with nobody awake to take it.
THEOREM NoWakeupIsLost == Spec => []NoLostWakeup
  <1>1. IInv => NoLostWakeup
    BY DEF IInv
  <1>2. QED
    BY <1>1, IInvHolds, PTL

-----------------------------------------------------------------------------
(* The circular buffer implements the bounded queue *)

Elements == Values \cup {NoValue}

\* The contents of the buffer form a sequence of the queued elements.
LEMMA ContentsIsSeq ==
    ASSUME NEW e \in [0 .. size - 1 -> Elements], NEW s \in 0 .. size - 1,
           NEW n \in 0 .. size
    PROVE  /\ Contents(e, s, n) \in Seq(Elements)
           /\ Len(Contents(e, s, n)) = n
           /\ \A i \in 1 .. n : Contents(e, s, n)[i] = e[PosFrom(s, i - 1)]
  <1>1. ASSUME NEW i \in 1 .. n
        PROVE  PosFrom(s, i - 1) \in 0 .. size - 1
    BY SizeAssumption DEF PosFrom
  <1>2. ASSUME NEW i \in 1 .. n
        PROVE  /\ Contents(e, s, n)[i] = e[PosFrom(s, i - 1)]
               /\ Contents(e, s, n)[i] \in Elements
    <2>1. rb_item_at(PosFrom(s, i - 1)) = PosFrom(s, i - 1)
      BY <1>1, ItemAtIdentity
    <2>2. QED
      BY <1>1, <2>1 DEF Contents
  <1>3. DOMAIN Contents(e, s, n) = 1 .. n /\ n \in Nat
    BY SizeAssumption DEF Contents
  <1>4. Contents(e, s, n) \in [1 .. n -> Elements]
    BY <1>2, <1>3 DEF Contents
  <1>5. QED
    BY <1>2, <1>3, <1>4

\* Writing behind the last element appends (ringbuffer.c:146-149).
LEMMA ContentsPut ==
    ASSUME NEW e \in [0 .. size - 1 -> Elements], NEW s \in 0 .. size - 1,
           NEW n \in 0 .. size - 1, NEW v \in Elements
    PROVE  Contents([e EXCEPT ![PosFrom(s, n)] = v], s, n + 1)
             = Append(Contents(e, s, n), v)
  <1> DEFINE f == [e EXCEPT ![PosFrom(s, n)] = v]
             old == Contents(e, s, n)
             new == Contents(f, s, n + 1)
  <1>1. n \in 0 .. size /\ n + 1 \in 0 .. size /\ PosFrom(s, n) \in 0 .. size - 1
    BY SizeAssumption DEF PosFrom
  <1>2. f \in [0 .. size - 1 -> Elements]
    BY <1>1
  <1>3. /\ old \in Seq(Elements) /\ Len(old) = n
        /\ \A i \in 1 .. n : old[i] = e[PosFrom(s, i - 1)]
    BY <1>1, ContentsIsSeq
  <1>4. /\ new \in Seq(Elements) /\ Len(new) = n + 1
        /\ \A i \in 1 .. n + 1 : new[i] = f[PosFrom(s, i - 1)]
    BY <1>1, <1>2, ContentsIsSeq
  <1> HIDE DEF old, new
  <1>5. Append(old, v) \in Seq(Elements) /\ Len(Append(old, v)) = n + 1
    BY <1>1, <1>3
  <1>6. ASSUME NEW i \in 1 .. n + 1
        PROVE  new[i] = Append(old, v)[i]
    <2>1. CASE i = n + 1
      <3>1. PosFrom(s, i - 1) = PosFrom(s, n)
        BY <1>1, <2>1
      <3>2. Append(old, v)[i] = v
        BY <1>3, <2>1
      <3>3. QED
        BY <1>1, <1>4, <3>1, <3>2
    <2>2. CASE i \in 1 .. n
      <3>1. PosFrom(s, i - 1) # PosFrom(s, n) /\ PosFrom(s, i - 1) \in 0 .. size - 1
        BY <1>1, <2>2, SizeAssumption DEF PosFrom
      <3>2. Append(old, v)[i] = old[i]
        BY <1>3, <2>2
      <3>3. QED
        BY <1>1, <1>3, <1>4, <2>2, <3>1, <3>2
    <2>3. i = n + 1 \/ i \in 1 .. n
      BY <1>1, SizeAssumption
    <2>4. QED
      BY <2>1, <2>2, <2>3
  <1>7. QED
    BY <1>4, <1>5, <1>6, SeqEqual DEF new, old

\* Advancing start drops the head (ringbuffer.c:173-176).
LEMMA ContentsTake ==
    ASSUME NEW e \in [0 .. size - 1 -> Elements], NEW s \in 0 .. size - 1,
           NEW n \in 1 .. size
    PROVE  /\ Contents(e, s, n) # <<>>
           /\ Head(Contents(e, s, n)) = e[s]
           /\ Contents(e, advance(s), n - 1) = Tail(Contents(e, s, n))
  <1> DEFINE old == Contents(e, s, n)
             new == Contents(e, advance(s), n - 1)
  <1>1. /\ n \in 0 .. size /\ n - 1 \in 0 .. size
        /\ advance(s) \in 0 .. size - 1
        /\ advance(s) = IF s = size - 1 THEN 0 ELSE s + 1
    BY SizeAssumption, AdvanceStep
  <1>2. /\ old \in Seq(Elements) /\ Len(old) = n
        /\ \A i \in 1 .. n : old[i] = e[PosFrom(s, i - 1)]
    BY <1>1, ContentsIsSeq
  <1>3. /\ new \in Seq(Elements) /\ Len(new) = n - 1
        /\ \A i \in 1 .. n - 1 : new[i] = e[PosFrom(advance(s), i - 1)]
    BY <1>1, ContentsIsSeq
  <1> HIDE DEF old, new
  <1>4. old # <<>> /\ Head(old) = old[1]
    BY <1>1, <1>2
  <1>5. PosFrom(s, 0) = s
    BY SizeAssumption DEF PosFrom
  <1>6. /\ Tail(old) \in Seq(Elements) /\ Len(Tail(old)) = n - 1
        /\ \A i \in 1 .. n - 1 : Tail(old)[i] = old[i + 1]
    BY <1>1, <1>2, <1>4, HeadTailProperties
  <1>7. ASSUME NEW i \in 1 .. n - 1
        PROVE  new[i] = Tail(old)[i]
    <2>1. PosFrom(advance(s), i - 1) = PosFrom(s, (i + 1) - 1)
      BY <1>1, SizeAssumption DEF PosFrom
    <2>2. old[i + 1] = e[PosFrom(s, (i + 1) - 1)]
      BY <1>1, <1>2
    <2>3. QED
      BY <1>3, <1>6, <2>1, <2>2
  <1>8. new = Tail(old)
    BY <1>3, <1>6, <1>7, SeqEqual
  <1>9. Head(old) = e[s]
    <2>1. old[1] = e[PosFrom(s, 1 - 1)]
      BY <1>1, <1>2
    <2>2. QED
      BY <1>4, <1>5, <2>1
  <1>10. QED
    BY <1>4, <1>8, <1>9 DEF old, new

-----------------------------------------------------------------------------
\* A buffer just initialised is an empty queue.
LEMMA InitRefines == Init => BQ!Init
  <1> SUFFICES ASSUME Init PROVE BQ!Init
    OBVIOUS
  <1> USE DEF Init, ringbuffer_init
  <1>1. queueBar = <<>>
    BY DEF queueBar, Contents
  <1>2. Waiting \cup Woken = {}
    BY DEF Waiting, Woken
  <1>3. QED
    BY <1>1, <1>2 DEF BQ!Init

\* A put appends to the queue, or is refused and changes nothing.
LEMMA PutRefines ==
    ASSUME IInv, NEW v \in Values, ringbuffer_put(v)
    PROVE  [BQ!Next]_(BQ!vars)
  <1>1. CASE UNCHANGED vars
    BY <1>1 DEF vars, BQ!vars, queueBar, Contents, rb_item_at, PosFrom, Waiting, Woken
  <1>2. CASE ~rb_is_full /\ ~UNCHANGED vars
    <2>1. /\ used' = used + 1 /\ elems' = [elems EXCEPT ![rb_item_at(end)] = v]
          /\ notify /\ UNCHANGED <<start, waiters, got>>
      BY <1>2 DEF ringbuffer_put
    <2>2. used \in 0 .. size - 1 /\ end \in 0 .. size - 1
      BY <1>2, SizeAssumption DEF IInv, TypeOK, rb_is_full
    <2>3. elems' = [elems EXCEPT ![PosFrom(start, used)] = v]
      BY <2>1, <2>2, ItemAtIdentity DEF IInv, IndicesAgree
    <2>4. start \in 0 .. size - 1 /\ elems \in [0 .. size - 1 -> Elements] /\ v \in Elements
      BY DEF IInv, TypeOK, Elements
    <2>5. queueBar' = Contents(elems', start, used + 1)
      BY <2>1 DEF queueBar, Contents, rb_item_at, PosFrom
    <2>6. queueBar' = Append(queueBar, v)
      BY <2>2, <2>3, <2>4, <2>5, ContentsPut DEF queueBar
    <2>7. Len(queueBar) < size
      <3>1. Len(queueBar) = used
        BY <2>2, <2>4, SizeAssumption, ContentsIsSeq DEF queueBar
      <3>2. QED
        BY <2>2, <3>1, SizeAssumption
    <2>8. (Waiting \cup Woken)' = Waiting \cup Woken
      BY <2>1 DEF IInv, TypeOK, notify, pthread_cond_signal, Waiting, Woken
    <2>9. BQ!Put(v)
      BY <2>1, <2>6, <2>7, <2>8 DEF BQ!Put
    <2>10. QED
      BY <2>9 DEF BQ!Next
  <1>3. QED
    BY <1>1, <1>2 DEF ringbuffer_put

\* Taking an element, from either critical section, is the queue's Take.
LEMMA TakeRefines ==
    ASSUME IInv, NEW g \in Getters, rb_take(g)
    PROVE  [BQ!Next]_(BQ!vars)
  <1>1. /\ used \in 1 .. size /\ start \in 0 .. size - 1
        /\ elems \in [0 .. size - 1 -> Elements]
    BY SizeAssumption DEF IInv, TypeOK, rb_take, rb_is_empty, Elements
  <1>2. /\ queueBar # <<>> /\ Head(queueBar) = elems[start]
        /\ Contents(elems, advance(start), used - 1) = Tail(queueBar)
    BY <1>1, ContentsTake DEF queueBar
  <1>3. queueBar' = Contents(elems, advance(start), used - 1)
    BY DEF rb_take, queueBar, Contents, rb_item_at, PosFrom
  <1>4. got' = [got EXCEPT ![g] = Head(queueBar)]
    BY <1>1, <1>2, ItemAtIdentity DEF rb_take
  <1>5. (Waiting \cup Woken)' = (Waiting \cup Woken) \ {g}
    BY DEF IInv, TypeOK, rb_take, Waiting, Woken
  <1>6. BQ!Take(g)
    BY <1>2, <1>3, <1>4, <1>5 DEF BQ!Take
  <1>7. QED
    BY <1>6 DEF BQ!Next

\* Going to sleep, for the first time or again, is the queue's Block.
LEMMA WaitRefines ==
    ASSUME IInv, NEW g \in Getters, rb_wait(g)
    PROVE  [BQ!Next]_(BQ!vars)
  <1>1. queueBar = <<>>
    BY DEF rb_wait, rb_is_empty, queueBar, Contents
  <1>2. queueBar' = queueBar
    BY DEF rb_wait, queueBar, Contents, rb_item_at, PosFrom
  <1>3. (Waiting \cup Woken)' = (Waiting \cup Woken) \cup {g}
    BY DEF IInv, TypeOK, rb_wait, Waiting, Woken
  <1>4. BQ!Block(g)
    BY <1>1, <1>2, <1>3 DEF BQ!Block, rb_wait
  <1>5. QED
    BY <1>4 DEF BQ!Next

\* Every step of the buffer is a step of the queue or leaves it alone.
LEMMA StepRefines ==
    ASSUME IInv, [Next]_vars
    PROVE  [BQ!Next]_(BQ!vars)
  <1>1. ASSUME NEW v \in Values, ringbuffer_put(v)
        PROVE  [BQ!Next]_(BQ!vars)
    BY <1>1, PutRefines
  <1>2. ASSUME NEW g \in Getters, ringbuffer_get(g)
        PROVE  [BQ!Next]_(BQ!vars)
    <2>1. rb_take(g) \/ rb_wait(g)
      BY <1>2 DEF ringbuffer_get, GetEnter, GetResume
    <2>2. QED
      BY <2>1, TakeRefines, WaitRefines
  <1>3. ASSUME NEW g \in Getters, SpuriousWakeup(g)
        PROVE  [BQ!Next]_(BQ!vars)
    <2>1. (Waiting \cup Woken)' = Waiting \cup Woken
      BY <1>3 DEF IInv, TypeOK, SpuriousWakeup, Waiting, Woken
    <2>2. queueBar' = queueBar /\ got' = got
      BY <1>3 DEF SpuriousWakeup, queueBar, Contents, rb_item_at, PosFrom
    <2>3. QED
      BY <2>1, <2>2 DEF BQ!vars
  <1>4. CASE UNCHANGED vars
    BY <1>4 DEF vars, BQ!vars, queueBar, Contents, rb_item_at, PosFrom, Waiting, Woken
  <1>5. QED
    BY <1>1, <1>2, <1>3, <1>4 DEF Next

\* For every capacity and any set of getters, the circular buffer with its
\* lock and condition variable implements the bounded FIFO queue.
THEOREM RingBufferIsQueue == Spec => ImplementsQueue
  <1>1. QED
    BY InitRefines, StepRefines, IInvHolds, PTL DEF Spec, ImplementsQueue, BQ!Spec
=============================================================================
