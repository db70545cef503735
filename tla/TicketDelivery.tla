--------------------------- MODULE TicketDelivery ---------------------------
(***************************************************************************)
(* What a kitchen is promised of its tickets.  A ticket that is owed comes *)
(* out of a printer; its job is settled for good once it counts as printed *)
(* or is given up, and only a ticket that came out counts as printed.      *)
(* Until something disturbs the printing it comes out once, and no job is  *)
(* given up whose ticket is out.                                           *)
(***************************************************************************)
EXTENDS Naturals

CONSTANT Jobs

VARIABLES
    standing,  \* what has become of each job: "owed", "printed" or "dead"
    paper,     \* how many times its ticket has come out
    disturbed  \* more has gone wrong than a printer that refuses a ticket

vars == <<standing, paper, disturbed>>

Init ==
    /\ standing = [j \in Jobs |-> "owed"]
    /\ paper = [j \in Jobs |-> 0]
    /\ disturbed = FALSE

Disturb == disturbed' = TRUE /\ UNCHANGED <<standing, paper>>

\* The ticket comes out; what disturbs it may be this very print.
ComesOut(j) ==
    /\ standing[j] = "owed"
    /\ disturbed' \in {disturbed, TRUE}
    /\ paper[j] = 0 \/ disturbed'
    /\ paper' = [paper EXCEPT ![j] = @ + 1]
    /\ UNCHANGED standing

Confirm(j) ==
    /\ standing[j] = "owed" /\ paper[j] > 0
    /\ standing' = [standing EXCEPT ![j] = "printed"]
    /\ UNCHANGED <<paper, disturbed>>

GiveUp(j) ==
    /\ standing[j] = "owed" /\ (paper[j] = 0 \/ disturbed)
    /\ standing' = [standing EXCEPT ![j] = "dead"]
    /\ UNCHANGED <<paper, disturbed>>

Next == Disturb \/ \E j \in Jobs : ComesOut(j) \/ Confirm(j) \/ GiveUp(j)

Spec == Init /\ [][Next]_vars
=============================================================================
