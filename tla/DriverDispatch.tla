--------------------------- MODULE DriverDispatch ---------------------------
(***************************************************************************)
(* Deliveries by the shop's own drivers: the order, its DriverAssignment   *)
(* (the stop) and the driver's presence are three rows, written by the     *)
(* operator's map (dispatch.service.ts), the driver's app                  *)
(* (driver-app.service.ts), whatever closes an order (orders.service.ts)   *)
(* and the settlement that follows (dispatch-settlement.service.ts).       *)
(*                                                                         *)
(* Every database statement is a step.  Only what keeps the three rows in  *)
(* step is here: not pay, hand-over PINs, positions, messages and the      *)
(* presence's activeAssignmentId, which only a screen shows.               *)
(***************************************************************************)
EXTENDS OrderStatus, FiniteSets

CONSTANTS
    Orders,    \* deliveries; an order has one stop at most
    Drivers,
    NoDriver,  \* the order has no stop yet
    Workers,   \* requests and cron runs that may be under way at once
    Faults,    \* which faults happen, of AllFaults
    MaxFaults  \* and how often in all

AllFaults == {"overlap", \* a request comes in while another is under way
              "stale",   \* a driver acts on a stop that is over
              "push",    \* staff or a marketplace moves the order
              "crash"}   \* the process of a handler dies

ASSUME FaultsAssumption == Faults \subseteq AllFaults /\ IsFiniteSet(Faults)
ASSUME MaxFaultsAssumption == MaxFaults \in Nat
ASSUME NoDriverAssumption == NoDriver \notin Drivers

VARIABLES
    order,     \* Order.status
    stop,      \* DriverAssignment: its driver and status
    presence,  \* DriverPresence.status
    work,      \* what each handler is doing
    faults     \* how many faults so far, and of which kinds

vars == <<order, stop, presence, work, faults>>

LiveStatuses == {"ASSIGNED", "ACCEPTED", "PICKED_UP"}
StopStatuses == LiveStatuses \union {"none", "DELIVERED", "CANCELLED"}

Live(o) == stop[o].status \in LiveStatuses
LiveStops(d) == {o \in Orders : stop[o].driver = d /\ Live(o)}

\* OWN_FLEET_ASSIGNABLE
Assignable == {"ACCEPTED", "PREPARING", "READY", "PENDING_DISPATCH"}

\* JobAction: a forward move is refused once the order is closed.
Forward == {"accept", "start", "arrived"}
Closing == {"delivered", "skip", "cancel"}

\* What an order is closed with by anybody but its driver.
Endings == {"COMPLETED", "CANCELLED"}

Ops == Forward \union Closing \union Endings \union {"none", "assign", "unassign", "sweep"}

Rows == [stop : Orders, driver : Drivers \union {NoDriver}, outcome : StopStatuses]

\* op: the operation; open: what it read lets it write the order; rows: what it
\* settles; todo: the drivers it is going to free.
At(pc, op, d, os, open) ==
    [pc |-> pc, op |-> op, driver |-> d, stops |-> os, open |-> open,
     rows |-> {}, todo |-> {}]
Idle == At("idle", "none", NoDriver, {}, FALSE)
Places == {"idle", "run", "busy", "check", "stop", "order", "count", "presence",
           "live", "sweep", "settle", "look", "free"}

AllIdle == \A w \in Workers : work[w] = Idle

Happen(kinds) ==
    IF kinds = {} THEN UNCHANGED faults
    ELSE /\ kinds \subseteq Faults
         /\ faults.n + Cardinality(kinds) <= MaxFaults
         /\ faults' = [n |-> faults.n + Cardinality(kinds),
                       kinds |-> faults.kinds \union kinds]

When(condition, kind) == IF condition THEN {kind} ELSE {}
Overlap == When(~AllIdle, "overlap")
-----------------------------------------------------------------------------
TypeOK ==
    /\ order \in [Orders -> Statuses]
    /\ stop \in [Orders -> [driver : Drivers \union {NoDriver}, status : StopStatuses]]
    /\ presence \in [Drivers -> {"ONLINE", "ON_JOB", "OFFLINE"}]
    /\ work \in [Workers -> [pc : Places, op : Ops, driver : Drivers \union {NoDriver},
                             stops : SUBSET Orders, open : BOOLEAN,
                             rows : SUBSET Rows, todo : SUBSET Drivers]]
    /\ faults \in [n : Nat, kinds : SUBSET AllFaults]

\* Every order is on the board; nobody is on shift.
Init ==
    /\ order = [o \in Orders |-> "READY"]
    /\ stop = [o \in Orders |-> [driver |-> NoDriver, status |-> "none"]]
    /\ presence = [d \in Drivers |-> "OFFLINE"]
    /\ work = [w \in Workers |-> Idle]
    /\ faults = [n |-> 0, kinds |-> {}]

Begin(w, job, kinds) ==
    /\ work[w] = Idle
    /\ work' = [work EXCEPT ![w] = job]
    /\ Happen(kinds \union Overlap)

GoOn(w, pc) == work' = [work EXCEPT ![w].pc = pc]
Finish(w) == work' = [work EXCEPT ![w] = Idle]

Present(d, status) == presence' = [presence EXCEPT ![d] = status]
-----------------------------------------------------------------------------
(* assignToDriver *)

AssignToDriver(w, d, os) ==
    /\ os # {}
    /\ \A o \in os : order[o] \in Assignable
    /\ Begin(w, At("run", "assign", d, os, TRUE), {})
    /\ UNCHANGED <<order, stop, presence>>

\* All or nothing, by id: nothing is checked again.
AssignRun(w) ==
    /\ work[w].pc = "run"
    /\ stop' = [o \in Orders |-> IF o \in work[w].stops
                                 THEN [driver |-> work[w].driver, status |-> "ASSIGNED"]
                                 ELSE stop[o]]
    /\ order' = [o \in Orders |-> IF o \in work[w].stops THEN "ASSIGNED_DRIVER" ELSE order[o]]
    /\ GoOn(w, "busy")
    /\ UNCHANGED <<presence, faults>>

AssignBusy(w) ==
    /\ work[w].pc = "busy"
    /\ Present(work[w].driver, "ON_JOB")
    /\ Finish(w)
    /\ UNCHANGED <<order, stop, faults>>
-----------------------------------------------------------------------------
(* unassign *)

Unassign(w, o) ==
    /\ stop[o].status # "none"
    /\ Begin(w, At("check", "unassign", stop[o].driver, {o}, Live(o)), {})
    /\ UNCHANGED <<order, stop, presence>>

\* Mutant: a second click goes through.
UnassignUnchecked(w) ==
    /\ work[w].pc = "check"
    /\ GoOn(w, "stop")
    /\ UNCHANGED <<order, stop, presence, faults>>

UnassignCheck(w) ==
    /\ work[w].pc = "check"
    /\ IF work[w].open /\ \A o \in work[w].stops : order[o] \notin Terminal
       THEN GoOn(w, "stop") ELSE Finish(w)
    /\ UNCHANGED <<order, stop, presence, faults>>

UnassignCount(w) ==
    /\ work[w].pc = "count"
    /\ IF LiveStops(work[w].driver) = {} THEN GoOn(w, "presence") ELSE Finish(w)
    /\ UNCHANGED <<order, stop, presence, faults>>
-----------------------------------------------------------------------------
(* jobAction: stop, order and presence in three statements *)

\* The status of the stop is not looked at, only its driver.
JobAction(w, d, o, a) ==
    /\ stop[o].driver = d
    /\ order[o] \in Terminal => a \in Closing
    /\ Begin(w, At("stop", a, d, {o}, order[o] \notin Terminal), When(~Live(o), "stale"))
    /\ UNCHANGED <<order, stop, presence>>

StopAfter(a, status) ==
    CASE a = "accept"    -> "ACCEPTED"
      [] a = "start"     -> "PICKED_UP"
      [] a = "delivered" -> "DELIVERED"
      [] a \in {"skip", "cancel", "unassign"} -> "CANCELLED"
      [] OTHER           -> status

OrderAfter(a) ==
    CASE a = "accept"    -> "ACCEPTED_BY_DRIVER"
      [] a = "start"     -> "OUT_FOR_DELIVERY"
      [] a = "arrived"   -> "RIDER_ARRIVED"
      [] a = "delivered" -> "COMPLETED"
      [] a = "skip"      -> "FAILED"
      [] OTHER           -> "READY"

WriteStop(w) ==
    /\ work[w].pc = "stop"
    /\ stop' = [o \in Orders |->
                   IF o \in work[w].stops
                   THEN [stop[o] EXCEPT !.status = StopAfter(work[w].op, stop[o].status)]
                   ELSE stop[o]]
    /\ GoOn(w, "order")
    /\ UNCHANGED <<order, presence, faults>>

WriteOrder(w) ==
    /\ work[w].pc = "order"
    /\ order' = [o \in Orders |-> IF o \in work[w].stops /\ work[w].open
                                  THEN OrderAfter(work[w].op) ELSE order[o]]
    /\ GoOn(w, IF work[w].op = "unassign" THEN "count" ELSE "presence")
    /\ UNCHANGED <<stop, presence, faults>>

\* Done with one stop, the driver is available, whatever stops are left.
WritePresence(w) ==
    /\ work[w].pc = "presence"
    /\ Present(work[w].driver, IF work[w].op \in Forward THEN "ON_JOB" ELSE "ONLINE")
    /\ Finish(w)
    /\ UNCHANGED <<order, stop, faults>>
-----------------------------------------------------------------------------
(* An order is closed, and its stop settled *)

\* updateStatus: staff, or a marketplace's webhook.
Close(w, o, ending) ==
    /\ order[o] \notin Terminal
    /\ order' = [order EXCEPT ![o] = ending]
    /\ Begin(w, At("live", ending, NoDriver, {o}, FALSE), {})
    /\ UNCHANGED <<stop, presence>>

\* Mutant: nothing to close, nothing to sweep.
RollOverOnly(w, os) ==
    /\ os # {}
    /\ \A o \in os : order[o] \notin Terminal
    /\ order' = [o \in Orders |-> IF o \in os THEN "COMPLETED" ELSE order[o]]
    /\ Begin(w, At("sweep", "sweep", NoDriver, {}, FALSE), {})
    /\ UNCHANGED <<stop, presence>>

\* The hourly rollover of orders nobody touched, which settles nothing itself,
\* and the sweep that follows it in any case.
RollOver(w, os) ==
    /\ \A o \in os : order[o] \notin Terminal
    /\ order' = [o \in Orders |-> IF o \in os THEN "COMPLETED" ELSE order[o]]
    /\ Begin(w, At("sweep", "sweep", NoDriver, {}, FALSE), {})
    /\ UNCHANGED <<stop, presence>>

\* Mutant: every stop of a finished order is paid.
OutcomeDelivered(status) == IF status \in Terminal THEN "DELIVERED" ELSE "ASSIGNED"

\* assignmentOutcomeFor
OutcomeFor(status) == IF status = "COMPLETED" THEN "DELIVERED" ELSE "CANCELLED"

Settling(w, rows) ==
    IF rows = {} THEN Finish(w)
    ELSE work' = [work EXCEPT ![w].pc = "settle", ![w].rows = rows]

Row(o, status) == [stop |-> o, driver |-> stop[o].driver, outcome |-> OutcomeFor(status)]

SettleForOrder(w) ==
    /\ work[w].pc = "live"
    /\ Settling(w, {Row(o, work[w].op) : o \in {p \in work[w].stops : Live(p)}})
    /\ UNCHANGED <<order, stop, presence, faults>>

SweepTerminalOrders(w) ==
    /\ work[w].pc = "sweep"
    /\ Settling(w, {Row(o, order[o]) : o \in {p \in Orders : Live(p) /\ order[p] \in Terminal}})
    /\ UNCHANGED <<order, stop, presence, faults>>

Settled(w) == {r.stop : r \in work[w].rows}

Settle(w) ==
    /\ work[w].pc = "settle"
    /\ stop' = [o \in Orders |->
                   IF o \in Settled(w)
                   THEN [stop[o] EXCEPT !.status =
                             (CHOOSE r \in work[w].rows : r.stop = o).outcome]
                   ELSE stop[o]]
    /\ GoOn(w, "look")
    /\ UNCHANGED <<order, presence, faults>>

\* Mutant: whoever was on a job is free.
IsFreeAnyway(d) == presence[d] = "ON_JOB"

\* freeDrivers, on what it reads: no stop left, and not gone home.
IsFree(d) == LiveStops(d) = {} /\ presence[d] = "ON_JOB"

Look(w) ==
    LET todo == {d \in Drivers : IsFree(d) /\ \E r \in work[w].rows : r.driver = d} IN
    /\ work[w].pc = "look"
    /\ IF todo = {} THEN Finish(w)
       ELSE work' = [work EXCEPT ![w].pc = "free", ![w].todo = todo]
    /\ UNCHANGED <<order, stop, presence, faults>>

\* One presence after the other.
FreeDriver(w) ==
    /\ work[w].pc = "free"
    /\ \E d \in work[w].todo :
           /\ Present(d, "ONLINE")
           /\ IF work[w].todo = {d} THEN Finish(w)
              ELSE work' = [work EXCEPT ![w].todo = @ \ {d}]
    /\ UNCHANGED <<order, stop, faults>>
-----------------------------------------------------------------------------
(* The driver's shift, and what else moves an order *)

\* goOnline, and the operator's forceOnline: whatever stops are left.
GoOnline(d) ==
    /\ Present(d, "ONLINE")
    /\ Happen(Overlap)
    /\ UNCHANGED <<order, stop, work>>

GoOffline(d) ==
    /\ Present(d, "OFFLINE")
    /\ Happen(Overlap)
    /\ UNCHANGED <<order, stop, work>>

Push(o, status) ==
    /\ order[o] \notin Terminal
    /\ order' = [order EXCEPT ![o] = status]
    /\ Happen({"push"} \union Overlap)
    /\ UNCHANGED <<stop, presence, work>>

Crash(w) ==
    /\ work[w] # Idle
    /\ Finish(w)
    /\ Happen({"crash"})
    /\ UNCHANGED <<order, stop, presence>>
-----------------------------------------------------------------------------
Step(w) ==
    \/ AssignRun(w) \/ AssignBusy(w)
    \/ UnassignCheck(w) \/ UnassignCount(w)
    \/ WriteStop(w) \/ WriteOrder(w) \/ WritePresence(w)
    \/ SettleForOrder(w) \/ SweepTerminalOrders(w)
    \/ Settle(w) \/ Look(w) \/ FreeDriver(w)

Request(w) ==
    \/ \E d \in Drivers :
           \/ \E os \in SUBSET Orders : AssignToDriver(w, d, os)
           \/ \E o \in Orders, a \in Forward \union Closing : JobAction(w, d, o, a)
    \/ \E o \in Orders : Unassign(w, o) \/ \E e \in Endings : Close(w, o, e)

Next ==
    \/ \E w \in Workers :
           \/ Request(w) \/ Step(w) \/ Crash(w)
           \/ \E os \in SUBSET Orders : RollOver(w, os)
    \/ \E d \in Drivers : GoOnline(d) \/ GoOffline(d)
    \/ \E o \in Orders, s \in {"READY", "OUT_FOR_DELIVERY"} : Push(o, s)

Spec == Init /\ [][Next]_vars

\* A handler goes on to its end; the cron comes round every hour, and finds a
\* free handler, which nothing in the code waits for.
FairSpec ==
    /\ Spec
    /\ \A w \in Workers : WF_vars(Step(w))
    /\ SF_vars(\E w \in Workers, os \in SUBSET Orders : RollOver(w, os))
-----------------------------------------------------------------------------
(* Properties *)

\* The driver has the order, or is to fetch it.
WithDriver == {"ASSIGNED_DRIVER", "ACCEPTED_BY_DRIVER", "RIDER_ARRIVED", "OUT_FOR_DELIVERY"}

\* An order is on the board or with a driver, never both and never neither.
BoardAgrees == \A o \in Orders : Live(o) <=> order[o] \in WithDriver

\* "it decides pay": the assignment's outcome mirrors the order's
\* (dispatch-settlement.service.ts:31).
PayAgrees == \A o \in Orders : stop[o].status = "DELIVERED" => order[o] = "COMPLETED"

\* "a shop quietly lost a rider" (dispatch-settlement.service.ts:23): who is on a
\* job has a stop to make.
RidersAgree == \A d \in Drivers : presence[d] = "ON_JOB" => LiveStops(d) # {}

\* Between requests that come one at a time the three rows agree, whoever closes
\* an order: its driver, the operator, a webhook or the rollover.  Pay stays right
\* also when staff and marketplaces move the order about.
DispatchAgrees ==
    AllIdle => /\ faults.kinds = {} => BoardAgrees /\ RidersAgree
               /\ faults.kinds \subseteq {"push"} => PayAgrees

\* "a finished order back on the live board" (dispatch-settlement.service.ts:25):
\* no stale job card and no second click moves an order that is over, after
\* whatever faults, as long as requests do not overlap.
FinishedStaysFinished ==
    [][\A o \in Orders : order[o] \in Terminal /\ "overlap" \notin faults.kinds
                            => order'[o] = order[o]]_vars

\* The settlement, or the unassignment, writes this driver's presence.
Frees(w) ==
    /\ \/ work[w].pc = "free"
       \/ work[w].pc = "presence" /\ work[w].op = "unassign"
    /\ work'[w] # work[w]

\* "still has live stops (multi-drop) - stays ON_JOB", "They went home; do not
\* put them back on shift" (dispatch-settlement.service.ts:194): a driver is put
\* back on the available list when no stop is left, by the settlement only if on
\* a job.
FreedMeansDone ==
    [][\A w \in Workers, d \in Drivers :
           /\ Frees(w) /\ presence'[d] # presence[d]
           /\ "overlap" \notin faults.kinds
           => /\ LiveStops(d) = {}
              /\ work[w].op # "unassign" => presence[d] = "ON_JOB"]_vars

Stranded(o) == Live(o) /\ order[o] \in Terminal

\* "The nightly sweep settles whatever this misses" (orders.service.ts:2752):
\* however requests overlap and whoever dies, no stop outlives its order for good.
StrandedIsSettled == \A o \in Orders : Stranded(o) ~> ~Stranded(o)
=============================================================================
