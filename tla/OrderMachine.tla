---------------------------- MODULE OrderMachine ----------------------------
(***************************************************************************)
(* What a merchant is told of an order's status: it changes by one checked *)
(* step at a time, together with the row of its history.  The only other   *)
(* way is the sale over the counter, which is complete once it is accepted *)
(* and paid for, and whose history row comes later, or never.              *)
(***************************************************************************)
EXTENDS OrderStatus, Sequences

CONSTANT Orders

VARIABLES
    channel,  \* how the order came in
    status,   \* its status
    trail     \* its history, oldest first

vars == <<channel, status, trail>>

Init ==
    /\ channel \in [Orders -> {"marketplace", "delivery", "table", "counter"}]
    /\ status = [o \in Orders |-> "PENDING"]
    /\ trail = [o \in Orders |-> << [from |-> "PENDING", to |-> "PENDING"] >>]

\* The shop goes by the whitelist, short of the stages a marketplace's courier
\* owns; couriers and marketplaces may push anything on an order that is not over.
Permitted(via, from, to) ==
    \/ AssertTransition(from, to) /\ ~(via = "marketplace" /\ to \in PostReady)
    \/ /\ via \in {"marketplace", "delivery"}
       /\ to \in WebhookTargets
       /\ AssertWebhookTransition(from, to)

Note(o, from, to) ==
    trail' = [trail EXCEPT ![o] = Append(@, [from |-> from, to |-> to])]

Move(o, to) ==
    /\ Permitted(channel[o], status[o], to)
    /\ status' = [status EXCEPT ![o] = to]
    /\ Note(o, status[o], to)
    /\ UNCHANGED channel

Sell(o) ==
    /\ channel[o] = "counter" /\ status[o] = "ACCEPTED"
    /\ status' = [status EXCEPT ![o] = "COMPLETED"]
    /\ UNCHANGED <<channel, trail>>

NoteSale(o) ==
    /\ channel[o] = "counter" /\ status[o] = "COMPLETED"
    /\ Note(o, "ACCEPTED", "COMPLETED")
    /\ UNCHANGED <<channel, status>>

Next ==
    \E o \in Orders : (\E to \in Statuses : Move(o, to)) \/ Sell(o) \/ NoteSale(o)

Spec == Init /\ [][Next]_vars
=============================================================================
