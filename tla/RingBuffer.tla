----------------------------- MODULE RingBuffer -----------------------------
(***************************************************************************)
(* lib/ringbuffer.c: a circular buffer of fixed-size elements shared by    *)
(* threads, with a blocking get and a non-blocking put.                    *)
(*                                                                         *)
(* Every access to the structure is made under rb->lock, so one critical   *)
(* section is one step.  pthread_cond_wait ends the critical section of    *)
(* ringbuffer_get; the thread runs again, in a new critical section, when  *)
(* it has been signalled (or woken spuriously) and has the lock back.      *)
(***************************************************************************)
EXTENDS Integers, FiniteSets

CONSTANTS
    Values,     \* the elements callers put
    NoValue,    \* zeroed memory: what calloc leaves in an element
    Getters,    \* the threads that call ringbuffer_get
    size,       \* rb->size, in elements
    OffLimit    \* 2^31 / elem_size: the first element whose byte offset
                \* does not fit the int computed by rb_item_at

ASSUME SizeAssumption == size \in Nat \ {0}
ASSUME OffsetAssumption == OffLimit \in Nat \ {0} /\ size <= OffLimit
ASSUME GettersAssumption == IsFiniteSet(Getters)

VARIABLES
    used, start, end,   \* as in struct RingBuffer
    elems,              \* the memory behind rb->elems, by element
    waiters,            \* rb->waiters
    pc,                 \* pc[g]: "idle" outside ringbuffer_get, "waiting" in
                        \* pthread_cond_wait, "woken" when it has to take
                        \* the lock again to leave pthread_cond_wait
    got                 \* got[g]: what ringbuffer_get last copied out for g

vars == <<used, start, end, elems, waiters, pc, got>>

Waiting == {g \in Getters : pc[g] = "waiting"}
Woken   == {g \in Getters : pc[g] = "woken"}

\* calloc, then ringbuffer_clear
ringbuffer_init ==
    /\ used = 0 /\ start = 0 /\ end = 0
    /\ elems = [p \in 0 .. size - 1 |-> NoValue]
    /\ waiters = 0
    /\ pc = [g \in Getters |-> "idle"]
    /\ got = [g \in Getters |-> NoValue]

rb_is_full == used = size

rb_is_empty == used = 0

\* The byte offset is an int: it wraps at 2^31, here counted in elements.
rb_item_at(pos) == ((pos + OffLimit) % (2 * OffLimit)) - OffLimit

advance(pos) == (pos + 1) % size

-----------------------------------------------------------------------------
\* pthread_cond_signal wakes one waiting thread, if there is any.
pthread_cond_signal ==
    IF Waiting = {} THEN UNCHANGED pc
    ELSE \E g \in Waiting : pc' = [pc EXCEPT ![g] = "woken"]

\* Mutation: signal only on the transition from empty to non-empty.
notify_FirstOnly ==
    IF waiters > 0 /\ used = 0 THEN pthread_cond_signal ELSE UNCHANGED pc
notify == IF waiters > 0 THEN pthread_cond_signal ELSE UNCHANGED pc

\* Mutation: the element overwrites the oldest one when the buffer is full.
ringbuffer_put_Overwrite(v) ==
    /\ used' = IF rb_is_full THEN used ELSE used + 1
    /\ elems' = [elems EXCEPT ![rb_item_at(end)] = v]
    /\ end' = advance(end)
    /\ notify
    /\ UNCHANGED <<start, waiters, got>>
ringbuffer_put(v) ==
    \/ /\ ~rb_is_full
       /\ used' = used + 1
       /\ elems' = [elems EXCEPT ![rb_item_at(end)] = v]
       /\ end' = advance(end)
       /\ notify
       /\ UNCHANGED <<start, waiters, got>>
    \/ /\ rb_is_full                        \* returns -1
       /\ UNCHANGED vars

-----------------------------------------------------------------------------
\* The tail of ringbuffer_get, run when the buffer is not empty.
rb_take(g) ==
    /\ ~rb_is_empty
    /\ used' = used - 1
    /\ got' = [got EXCEPT ![g] = elems[rb_item_at(start)]]
    /\ start' = advance(start)
    /\ pc' = [pc EXCEPT ![g] = "idle"]
    /\ UNCHANGED <<end, elems>>

rb_wait(g) ==
    /\ rb_is_empty
    /\ pc' = [pc EXCEPT ![g] = "waiting"]
    /\ UNCHANGED <<used, start, end, elems, got>>

\* The call: lock, waiters++, and either take at once (waiters--) or wait.
GetEnter(g) ==
    /\ pc[g] = "idle"
    /\ \/ rb_take(g) /\ UNCHANGED waiters
       \/ rb_wait(g) /\ waiters' = waiters + 1

\* Mutation: "if" instead of "while" around pthread_cond_wait.
GetResume_NoRecheck(g) ==
    /\ pc[g] = "woken"
    /\ used' = used - 1
    /\ got' = [got EXCEPT ![g] = elems[rb_item_at(start)]]
    /\ start' = advance(start)
    /\ pc' = [pc EXCEPT ![g] = "idle"]
    /\ waiters' = waiters - 1
    /\ UNCHANGED <<end, elems>>
\* Mutation: the thread forgets waiters-- when it leaves the loop.
GetResume_NoDecrement(g) ==
    /\ pc[g] = "woken"
    /\ rb_take(g) \/ rb_wait(g)
    /\ UNCHANGED waiters
\* Back from pthread_cond_wait with the lock: test the condition again.
GetResume(g) ==
    /\ pc[g] = "woken"
    /\ \/ rb_take(g) /\ waiters' = waiters - 1
       \/ rb_wait(g) /\ UNCHANGED waiters

\* POSIX lets pthread_cond_wait return without a signal.
SpuriousWakeup(g) ==
    /\ pc[g] = "waiting"
    /\ pc' = [pc EXCEPT ![g] = "woken"]
    /\ UNCHANGED <<used, start, end, elems, waiters, got>>

ringbuffer_get(g) == GetEnter(g) \/ GetResume(g)

Init == ringbuffer_init

Next ==
    \/ \E v \in Values : ringbuffer_put(v)
    \/ \E g \in Getters : ringbuffer_get(g) \/ SpuriousWakeup(g)

Spec == Init /\ [][Next]_vars

\* A woken thread gets the lock back: every critical section is short and
\* never blocks, so the lock is free again and again.
FairSpec == Spec /\ \A g \in Getters : WF_vars(GetResume(g))

-----------------------------------------------------------------------------
TypeOK ==
    /\ used \in 0 .. size
    /\ start \in 0 .. size - 1
    /\ end \in 0 .. size - 1
    /\ elems \in [0 .. size - 1 -> Values \cup {NoValue}]
    /\ waiters \in Nat
    /\ pc \in [Getters -> {"idle", "waiting", "woken"}]
    /\ got \in [Getters -> Values \cup {NoValue}]

\* The slot i places after slot s, around the buffer.
PosFrom(s, i) == IF s + i < size THEN s + i ELSE s + i - size

\* start, end and used describe the same run of elements: the write index
\* is the position just behind the last queued element (ringbuffer_put and
\* ringbuffer_get each move their own index and the shared counter).
IndicesAgree == end = PosFrom(start, used)

\* waiters counts exactly the threads inside pthread_cond_wait; ringbuffer_put
\* signals only when it is positive, so an undercount would lose a wakeup.
WaitersCounted == waiters = Cardinality(Waiting \cup Woken)

\* No lost wakeup: while a thread sleeps in ringbuffer_get there are at least
\* as many threads on their way out of pthread_cond_wait as queued elements.
\* One signal per put is enough even though a thread that never slept can
\* take the element a woken thread was signalled for.
NoLostWakeup == Waiting # {} => used <= Cardinality(Woken)

\* The n elements of memory e from slot s on, as a sequence.
Contents(e, s, n) == [i \in 1 .. n |-> e[rb_item_at(PosFrom(s, i - 1))]]

\* The abstract queue: the used elements from start on.
queueBar == Contents(elems, start, used)

BQ == INSTANCE BoundedQueue WITH queue <- queueBar, blocked <- Waiting \cup Woken

\* The circular buffer is a bounded FIFO queue: nothing is lost, duplicated,
\* reordered or overwritten, and a getter blocks only on an empty queue.
ImplementsQueue == BQ!Spec

\* While there is data some blocked getter is served: the one signal per put
\* is never spent on a thread that cannot use it.
ServesBlocked == BQ!Fairness
=============================================================================
