--------------------------- MODULE EventDelivery ---------------------------
(***************************************************************************)
(* What the outbox promises of the events committed to it, whatever        *)
(* happens inside: an event is owed from the moment its transaction        *)
(* commits, a job may be created for it as long as it is owed, and it stops *)
(* being owed once: as sent, with a job, or as given up.                   *)
(***************************************************************************)
EXTENDS Naturals

CONSTANT Events

VARIABLES
    state,  \* "none", "owed", "sent" or "given up"
    jobs    \* jobs created for the event

vars == <<state, jobs>>

Init ==
    /\ state = [e \in Events |-> "none"]
    /\ jobs = [e \in Events |-> 0]

Become(e, from, to) ==
    /\ state[e] = from
    /\ state' = [state EXCEPT ![e] = to]
    /\ UNCHANGED jobs

Commit(e) == Become(e, "none", "owed")

\* At least once: a recovered event may be dispatched again.
Enqueue(e) ==
    /\ state[e] = "owed"
    /\ jobs' = [jobs EXCEPT ![e] = @ + 1]
    /\ UNCHANGED state

Confirm(e) == jobs[e] > 0 /\ Become(e, "owed", "sent")

GiveUp(e) == Become(e, "owed", "given up")

Next == \E e \in Events : Commit(e) \/ Enqueue(e) \/ Confirm(e) \/ GiveUp(e)

Spec == Init /\ [][Next]_vars
=============================================================================
