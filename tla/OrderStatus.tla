---------------------------- MODULE OrderStatus ----------------------------
(***************************************************************************)
(* The order status machine: the statuses of an order, the whitelist of    *)
(* transitions (apps/api orders/order-state-machine.ts) and the rank that  *)
(* backs it up (packages/shared order-status-rank.ts).  No state here: the *)
(* modules that move orders use these definitions as their guards.         *)
(***************************************************************************)
EXTENDS Naturals

Terminal == {"COMPLETED", "CANCELLED", "REJECTED", "FAILED"}

\* isCancellation: the three ways an order is aborted.
Cancellation == {"CANCELLED", "REJECTED", "FAILED"}

InFlight == {"PENDING", "ACCEPTED", "PREPARING", "READY", "PENDING_DISPATCH",
             "ASSIGNED_DRIVER", "ACCEPTED_BY_DRIVER", "RIDER_ARRIVED",
             "OUT_FOR_DELIVERY", "DISPATCHED"}

Statuses == InFlight \union Terminal

StatusRank ==
    [s \in Statuses |->
        CASE s = "PENDING"            -> 10
          [] s = "ACCEPTED"           -> 20
          [] s = "PREPARING"          -> 30
          [] s = "READY"              -> 40
          [] s = "PENDING_DISPATCH"   -> 45
          [] s = "ASSIGNED_DRIVER"    -> 50
          [] s = "ACCEPTED_BY_DRIVER" -> 60
          [] s = "RIDER_ARRIVED"      -> 65
          [] s \in {"OUT_FOR_DELIVERY", "DISPATCHED"} -> 70
          [] OTHER                    -> 100]

\* The courier is on the road; DISPATCHED is the legacy synonym.
OnTheRoad == {"OUT_FOR_DELIVERY", "DISPATCHED"}

ValidTransitions ==
    [s \in Statuses |->
        CASE s = "PENDING"   -> {"ACCEPTED"} \union Cancellation
          [] s = "ACCEPTED"  -> {"PREPARING", "CANCELLED", "FAILED"}
          [] s = "PREPARING" -> {"READY", "CANCELLED", "FAILED"}
          [] s = "READY" ->
                {"COMPLETED", "ASSIGNED_DRIVER", "PENDING_DISPATCH",
                 "CANCELLED", "FAILED"} \union OnTheRoad
          [] s = "PENDING_DISPATCH" ->
                {"ASSIGNED_DRIVER", "ACCEPTED_BY_DRIVER",
                 "CANCELLED", "FAILED"} \union OnTheRoad
          [] s = "ASSIGNED_DRIVER" ->
                {"ACCEPTED_BY_DRIVER", "RIDER_ARRIVED",
                 "CANCELLED", "FAILED"} \union OnTheRoad
          [] s = "ACCEPTED_BY_DRIVER" ->
                {"RIDER_ARRIVED", "CANCELLED", "FAILED"} \union OnTheRoad
          [] s = "RIDER_ARRIVED" -> {"CANCELLED", "FAILED"} \union OnTheRoad
          [] s \in OnTheRoad     -> {"COMPLETED", "CANCELLED", "FAILED"}
          [] OTHER               -> {}]

\* canTransition: aborting is allowed from every status that is not terminal.
CanTransition(from, to) ==
    \/ from \notin Terminal /\ to \in Cancellation
    \/ to \in ValidTransitions[from]

\* assertMonotonicOrCancel, the rank backstop, as "does not throw".
MonotonicOrCancel(from, to) ==
    \/ to \in Cancellation
    \/ from \notin Terminal /\ StatusRank[to] >= StatusRank[from]

\* assertTransition, the check staff and system changes go through.
AssertTransition(from, to) ==
    /\ from \notin Terminal
    /\ MonotonicOrCancel(from, to)
    /\ CanTransition(from, to)

\* Mutant: a webhook moves a finished order too.
AssertWebhookTransitionAny(from, to) == from \in Statuses /\ to \in Statuses

\* assertWebhookTransition, the relaxed check for courier and marketplace pushes.
AssertWebhookTransition(from, to) == from = to \/ from \notin Terminal

\* What the courier and marketplace mappers turn their events into.
WebhookTargets == {"ACCEPTED", "PREPARING", "READY", "ASSIGNED_DRIVER",
                   "RIDER_ARRIVED", "OUT_FOR_DELIVERY"} \union Terminal

\* POST_READY in updateStatus: the stages a platform courier owns.
PostReady == {"PENDING_DISPATCH", "ASSIGNED_DRIVER", "ACCEPTED_BY_DRIVER",
              "RIDER_ARRIVED", "OUT_FOR_DELIVERY", "DISPATCHED", "COMPLETED"}
=============================================================================
