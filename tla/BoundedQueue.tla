---------------------------- MODULE BoundedQueue ----------------------------
(***************************************************************************)
(* What lib/ringbuffer.c promises its callers, with the circular buffer,   *)
(* the mutex and the condition variable abstracted away: a FIFO queue that *)
(* never holds more than size elements, refuses what does not fit, and     *)
(* blocks a getter only while the queue is empty.                          *)
(***************************************************************************)
EXTENDS Naturals, Sequences

CONSTANTS
    Values,     \* the elements that can be queued
    NoValue,    \* content of a getter's buffer before its first element
    Getters,    \* the threads that call ringbuffer_get
    size        \* the capacity given to ringbuffer_init

VARIABLES
    queue,      \* the queued elements, oldest first
    got,        \* got[g]: the element last handed to getter g
    blocked     \* the getters waiting inside ringbuffer_get

vars == <<queue, got, blocked>>

Init ==
    /\ queue = <<>>
    /\ got = [g \in Getters |-> NoValue]
    /\ blocked = {}

Put(v) ==
    /\ Len(queue) < size
    /\ queue' = Append(queue, v)
    /\ UNCHANGED <<got, blocked>>

Take(g) ==
    /\ queue # <<>>
    /\ got' = [got EXCEPT ![g] = Head(queue)]
    /\ queue' = Tail(queue)
    /\ blocked' = blocked \ {g}

Block(g) ==
    /\ queue = <<>>
    /\ blocked' = blocked \cup {g}
    /\ UNCHANGED <<queue, got>>

TakeBlocked == \E g \in Getters : g \in blocked /\ Take(g)

Next ==
    \/ \E v \in Values : Put(v)
    \/ \E g \in Getters : Take(g) \/ Block(g)

Spec == Init /\ [][Next]_vars

\* A blocked getter is served once the queue stays non-empty.
Fairness == WF_vars(TakeBlocked)
=============================================================================
