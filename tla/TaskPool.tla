------------------------------ MODULE TaskPool ------------------------------
(***************************************************************************)
(* What lib/executor.c promises those who dispatch tasks, with workers,    *)
(* timers and locks abstracted away: a dispatched task is refused or       *)
(* queued, queued tasks are taken in order, and a task that was taken is   *)
(* reported to its collect callback once, as done or as timed out.         *)
(***************************************************************************)
EXTENDS Naturals, Sequences

CONSTANTS
    MaxTasks,   \* the capacity of the queue
    Tasks,      \* the tasks callers dispatch, each of them once
    Stop        \* the task that ends a worker

VARIABLES
    queue,      \* queued tasks, oldest first
    outcome     \* per task: what became of it

vars == <<queue, outcome>>

Refusals == {"too_much_data", "not_running"}

Init == queue = <<>> /\ outcome = [k \in Tasks |-> "new"]

Accept(k) ==
    /\ outcome[k] = "new" /\ Len(queue) < MaxTasks
    /\ queue' = Append(queue, k)
    /\ outcome' = [outcome EXCEPT ![k] = "queued"]

Refuse(k) ==
    /\ outcome[k] = "new"
    /\ \E why \in Refusals : outcome' = [outcome EXCEPT ![k] = why]
    /\ UNCHANGED queue

Take(k) ==
    /\ outcome[k] = "queued" /\ queue # <<>> /\ Head(queue) = k
    /\ queue' = Tail(queue)
    /\ outcome' = [outcome EXCEPT ![k] = "taken"]

Report(k, late) ==
    /\ outcome[k] = "taken"
    /\ outcome' = [outcome EXCEPT ![k] = IF late THEN "timeout" ELSE "done"]
    /\ UNCHANGED queue

\* A stop token is queued, or taken.
Token ==
    /\ \/ Len(queue) < MaxTasks /\ queue' = Append(queue, Stop)
       \/ queue # <<>> /\ Head(queue) = Stop /\ queue' = Tail(queue)
    /\ UNCHANGED outcome

Next ==
    \/ \E k \in Tasks :
           Accept(k) \/ Refuse(k) \/ Take(k) \/ \E late \in BOOLEAN : Report(k, late)
    \/ Token

Spec == Init /\ [][Next]_vars
=============================================================================
