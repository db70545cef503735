------------------------ MODULE CardPaymentProofs ------------------------
(***************************************************************************)
(* What holds of CardPayment for any number of handlers, any amount, any   *)
(* statuses of the order and any faults: what our rows say of the money is *)
(* true of it at Stripe.  MoneyInv says of every place a handler may be in, *)
(* and of every event under way, what that lets us conclude of the charge; *)
(* RefundInv does the same for what went back, and CaptureInv finds, for   *)
(* money that is held, who is on the way to take it; ReleaseIsKept follows *)
(* the money of an order the shop did not take on its way back.            *)
(***************************************************************************)
EXTENDS CardPayment, FiniteSetTheorems, TLAPS

\* The step of the system, one disjunct per action.
LEMMA NextStep ==
    ASSUME Next
    PROVE  \/ Pays \/ Declined \/ HoldExpires
           \/ \E e \in events : EventLost(e)
           \/ \E to \in Stages : UpdateStatus(to)
           \/ \E w \in Workers, call \in spawned : StartSpawned(w, call)
           \/ \E w \in Workers, e \in events : Deliver(w, e)
           \/ \E w \in Workers : StartPoll(w) \/ Crash(w)
           \/ \E w \in Workers, amount \in 1 .. Total : StartPart(w, amount)
           \/ \E w \in Workers : Step(w)
  BY DEF Next

\* A handler is a record, and an event is one.
EventRecords == [type : EventTypes, amount : 0 .. Total]
Handlers == [pc : Places, ev : [type : EventTypes \union {"none"}, amount : 0 .. Total],
             seen : PaymentStatuses, amount : 0 .. Total, base : Nat]

MoneyType ==
    /\ capture \in {"manual", "automatic"}
    /\ pi \in IntentStatuses
    /\ returned \in 0 .. Total
    /\ pay \in PaymentStatuses
    /\ linked \in BOOLEAN
    /\ booked \in Nat
    /\ ledger \in Nat
    /\ order \in Statuses
    /\ accepted \in BOOLEAN
    /\ owed \in OrderPayments
    /\ spawned \subseteq {"capture", "refund"}
    /\ faults \in FaultLog

WorkType ==
    /\ events \subseteq EventRecords
    /\ work \in [Workers -> Handlers]

LEMMA TypeParts == TypeOK <=> MoneyType /\ WorkType
  BY DEF TypeOK, MoneyType, WorkType, EventRecords, Handlers

LEMMA TypePartsNext == TypeOK' <=> MoneyType' /\ WorkType'
  BY DEF TypeOK, MoneyType, WorkType, EventRecords, Handlers

LEMMA FaultType == ASSUME NEW f, faults \in FaultLog, Fault(f) PROVE faults' \in FaultLog
  BY FaultsAssumption DEF Fault, FaultLog

LEMMA EventType ==
    /\ \A type \in EventTypes : Event(type) \in EventRecords
    /\ \A sum \in 0 .. Total : RefundedEvent(sum) \in EventRecords
    /\ \A e \in EventRecords \union {NoEvent}, pc \in Places : At(pc, e) \in Handlers
    /\ Idle \in Handlers
  BY TotalAssumption DEF Event, RefundedEvent, EventRecords, NoEvent, At, Idle, Handlers,
     PaymentStatuses, Places, EventTypes

LEMMA HandlerType ==
    ASSUME WorkType, NEW w \in Workers
    PROVE  /\ work[w] \in Handlers
           /\ work[w].ev.amount \in 0 .. Total /\ work[w].amount \in 0 .. Total
           /\ work[w].amount \in Nat /\ work[w].base \in Nat
           /\ work[w].seen \in PaymentStatuses
           /\ \A pc \in Places : [work[w] EXCEPT !.pc = pc] \in Handlers
           /\ \A pc \in Places, s \in PaymentStatuses :
                  [work[w] EXCEPT !.pc = pc, !.seen = s] \in Handlers
  <1>1. work[w] \in Handlers BY DEF WorkType
  <1>2. 0 .. Total \subseteq Nat BY TotalAssumption
  <1> QED BY <1>1, <1>2 DEF Handlers

LEMMA GoOnType ==
    ASSUME WorkType, NEW w \in Workers, NEW pc \in Places,
           work' = [work EXCEPT ![w].pc = pc], events' \subseteq EventRecords
    PROVE  WorkType'
  <1>1. [work[w] EXCEPT !.pc = pc] \in Handlers BY HandlerType
  <1>2. work' = [work EXCEPT ![w] = [work[w] EXCEPT !.pc = pc]] OBVIOUS
  <1> QED BY <1>1, <1>2 DEF WorkType

LEMMA StartType ==
    ASSUME WorkType, NEW w \in Workers, NEW h \in Handlers,
           work' = [work EXCEPT ![w] = h], events' \subseteq events
    PROVE  WorkType'
  BY DEF WorkType

LEMMA FinishType ==
    ASSUME WorkType, NEW w \in Workers, NEW more \in SUBSET EventRecords, FinishWith(w, more)
    PROVE  WorkType'
  BY EventType DEF WorkType, FinishWith

LEMMA ToChargeType ==
    ASSUME WorkType, NEW w \in Workers, NEW seen \in PaymentStatuses, ToCharge(w, seen)
    PROVE  WorkType'
  <1>1. CASE seen \in Closed BY <1>1, FinishType DEF ToCharge, Finish
  <1>2. CASE seen \notin Closed
    <2>1. [work[w] EXCEPT !.pc = "charge", !.seen = seen] \in Handlers
      BY HandlerType DEF Places
    <2>2. work' = [work EXCEPT ![w] = [work[w] EXCEPT !.pc = "charge", !.seen = seen]]
      BY <1>2 DEF ToCharge
    <2>3. events' = events BY <1>2 DEF ToCharge
    <2> QED BY <2>1, <2>2, <2>3, StartType
  <1> QED BY <1>1, <1>2
-----------------------------------------------------------------------------
(* Type correctness *)

LEMMA CaptureTypeStep == ASSUME TypeOK, NEW w \in Workers, CaptureStep(w) PROVE TypeOK'
  <1> USE TypeParts, TypePartsNext DEF MoneyType, stripe, rows, placed
  <1>0. MoneyType /\ WorkType /\ events \subseteq EventRecords BY DEF WorkType
  <1>1. ASSUME CaptureRead(w) PROVE TypeOK'
    <2>1. MoneyType' BY <1>1 DEF CaptureRead
    <2>2. CASE linked BY <1>0, <1>1, <2>1, <2>2, ToChargeType DEF CaptureRead
    <2>3. CASE ~linked
      <3>1. [work[w] EXCEPT !.pc = "lookup", !.seen = pay] \in Handlers
        BY <1>0, HandlerType DEF Places
      <3>2. work' = [work EXCEPT ![w] = [work[w] EXCEPT !.pc = "lookup", !.seen = pay]]
        BY <1>1, <2>3 DEF CaptureRead
      <3>3. events' = events BY <1>1, <2>3 DEF CaptureRead
      <3> QED BY <2>1, <3>1, <3>2, <3>3, StartType
    <2> QED BY <2>2, <2>3
  <1>2. ASSUME CaptureLookup(w) PROVE TypeOK'
    <2>1. MoneyType' BY <1>2, <1>0, FaultType DEF CaptureLookup
    <2>2. WorkType'
      BY <1>2, <1>0, HandlerType, ToChargeType, FinishType DEF CaptureLookup, Finish
    <2> QED BY <2>1, <2>2
  <1>3. ASSUME Charge(w) PROVE TypeOK'
    <2>0. Event("succeeded") \in EventRecords BY EventType DEF EventTypes
    <2>1. MoneyType'
      BY <1>3, <1>0, FaultType DEF Charge, PaymentStatuses, OrderPayments, IntentStatuses
    <2>2. WorkType'
      BY <1>3, <1>0, <2>0, GoOnType, FinishType DEF Charge, GoOn, Finish, Places
    <2> QED BY <2>1, <2>2
  <1>4. ASSUME ChargedRow(w) PROVE TypeOK'
    <2>1. MoneyType'
      BY <1>4, <1>0, FaultType DEF ChargedRow, PaymentStatuses, OrderPayments, IntentStatuses
    <2>2. WorkType'
      BY <1>4, <1>0, GoOnType, FinishType DEF ChargedRow, GoOn, Finish, Places
    <2> QED BY <2>1, <2>2
  <1>5. ASSUME ChargedOrder(w) PROVE TypeOK'
    <2>1. MoneyType'
      BY <1>5, <1>0, FaultType DEF ChargedOrder, PaymentStatuses, OrderPayments, IntentStatuses
    <2>2. WorkType'
      BY <1>5, <1>0, GoOnType, FinishType DEF ChargedOrder, GoOn, Finish, Places
    <2> QED BY <2>1, <2>2
  <1> QED BY <1>1, <1>2, <1>3, <1>4, <1>5 DEF CaptureStep

LEMMA RefundTypeStep == ASSUME TypeOK, NEW w \in Workers, RefundStep(w) PROVE TypeOK'
  <1> USE TypeParts, TypePartsNext DEF MoneyType, stripe, rows, placed
  <1>0. MoneyType /\ WorkType /\ events \subseteq EventRecords BY DEF WorkType
  <1>1. ASSUME RefundRead(w) PROVE TypeOK'
    <2>1. MoneyType'
      BY <1>1, <1>0, FaultType DEF RefundRead, PaymentStatuses, OrderPayments, IntentStatuses
    <2>2. WorkType'
      BY <1>1, <1>0, GoOnType, FinishType DEF RefundRead, GoOn, Finish, Places
    <2> QED BY <2>1, <2>2
  <1>2. ASSUME Ask(w) PROVE TypeOK'
    <2>1. MoneyType'
      BY <1>2, <1>0, FaultType DEF Ask, PaymentStatuses, OrderPayments, IntentStatuses
    <2>2. WorkType'
      BY <1>2, <1>0, GoOnType, FinishType DEF Ask, GoOn, Finish, Places
    <2> QED BY <2>1, <2>2
  <1>3. ASSUME Return(w) PROVE TypeOK'
    <2>0. RefundedEvent(Total) \in EventRecords BY EventType, TotalAssumption
    <2>1. MoneyType' BY <1>3, <1>0, FaultType, TotalAssumption DEF Return
    <2>2. WorkType'
      BY <1>3, <1>0, <2>0, GoOnType, FinishType DEF Return, Finish, Places
    <2> QED BY <2>1, <2>2
  <1>4. ASSUME ReturnedRow(w) PROVE TypeOK'
    <2>1. MoneyType'
      BY <1>4, <1>0, FaultType DEF ReturnedRow, PaymentStatuses, OrderPayments, IntentStatuses
    <2>2. WorkType'
      BY <1>4, <1>0, GoOnType, FinishType DEF ReturnedRow, GoOn, Finish, Places
    <2> QED BY <2>1, <2>2
  <1>5. ASSUME ReturnedOrder(w) PROVE TypeOK'
    <2>1. MoneyType'
      BY <1>5, <1>0, FaultType DEF ReturnedOrder, PaymentStatuses, OrderPayments, IntentStatuses
    <2>2. WorkType'
      BY <1>5, <1>0, GoOnType, FinishType DEF ReturnedOrder, GoOn, Finish, Places
    <2> QED BY <2>1, <2>2
  <1>6. ASSUME Release(w) PROVE TypeOK'
    <2>1. MoneyType'
      BY <1>6, <1>0, FaultType DEF Release, PaymentStatuses, OrderPayments, IntentStatuses
    <2>2. WorkType'
      BY <1>6, <1>0, GoOnType, FinishType DEF Release, GoOn, Finish, Places
    <2> QED BY <2>1, <2>2
  <1>7. ASSUME Void(w) PROVE TypeOK'
    <2>0. Event("canceled") \in EventRecords BY EventType DEF EventTypes
    <2>1. MoneyType'
      BY <1>7, <1>0, FaultType DEF Void, PaymentStatuses, OrderPayments, IntentStatuses
    <2>2. WorkType'
      BY <1>7, <1>0, <2>0, GoOnType, FinishType DEF Void, GoOn, Finish, Places
    <2> QED BY <2>1, <2>2
  <1> QED BY <1>1, <1>2, <1>3, <1>4, <1>5, <1>6, <1>7 DEF RefundStep

LEMMA PartTypeStep == ASSUME TypeOK, NEW w \in Workers, PartStep(w) PROVE TypeOK'
  <1> USE TypeParts, TypePartsNext DEF MoneyType, stripe, rows, placed
  <1>0. MoneyType /\ WorkType /\ events \subseteq EventRecords BY DEF WorkType
  <1>1. ASSUME Part(w) PROVE TypeOK'
    <2>0. \A s \in 0 .. Total : RefundedEvent(s) \in EventRecords BY EventType
    <2>a. returned \in Nat BY <1>0, TotalAssumption
    <2>b. work[w].amount \in Nat BY <1>0, HandlerType
    <2>1. returned + work[w].amount \in Nat BY <2>a, <2>b
    <2>2. MoneyType' BY <1>1, <1>0, <2>1, FaultType DEF Part
    <2>3. WorkType'
      BY <1>1, <1>0, <2>0, <2>1, GoOnType, FinishType DEF Part, Finish, Places
    <2> QED BY <2>2, <2>3
  <1>2. ASSUME Book(w) PROVE TypeOK'
    <2>1. work[w].amount \in Nat BY <1>0, HandlerType
    <2>2. MoneyType' BY <1>2, <1>0, <2>1, FaultType DEF Book, OrderPayments, PaymentStatuses
    <2>3. WorkType' BY <1>2, <1>0, FinishType DEF Book, Finish
    <2> QED BY <2>2, <2>3
  <1> QED BY <1>1, <1>2 DEF PartStep

LEMMA WebhookTypeStep == ASSUME TypeOK, NEW w \in Workers, WebhookStep(w) PROVE TypeOK'
  <1> USE TypeParts, TypePartsNext DEF MoneyType, stripe, rows, placed
  <1>0. MoneyType /\ WorkType /\ events \subseteq EventRecords BY DEF WorkType
  <1>1. ASSUME Find(w) PROVE TypeOK'
    <2>1. MoneyType'
      BY <1>1, <1>0, FaultType DEF Find, PaymentStatuses, OrderPayments, IntentStatuses
    <2>2. WorkType'
      BY <1>1, <1>0, GoOnType, FinishType DEF Find, GoOn, Finish, Places
    <2> QED BY <2>1, <2>2
  <1>2. ASSUME Confirm(w) PROVE TypeOK'
    <2>1. MoneyType'
      BY <1>2, <1>0, FaultType DEF Confirm, PaymentStatuses, OrderPayments, IntentStatuses
    <2>2. WorkType'
      BY <1>2, <1>0, GoOnType, FinishType DEF Confirm, GoOn, Finish, Places
    <2> QED BY <2>1, <2>2
  <1>3. ASSUME Land(w) PROVE TypeOK'
    <2>1. MoneyType'
      BY <1>3, <1>0, FaultType DEF Land, PaymentStatuses, OrderPayments, IntentStatuses
    <2>2. WorkType'
      BY <1>3, <1>0, GoOnType, FinishType DEF Land, GoOn, Finish, Places
    <2> QED BY <2>1, <2>2
  <1>4. ASSUME Ledger(w) PROVE TypeOK'
    <2>1. MoneyType'
      BY <1>4, <1>0, FaultType DEF Ledger, PaymentStatuses, OrderPayments, IntentStatuses
    <2>2. WorkType'
      BY <1>4, <1>0, GoOnType, FinishType DEF Ledger, GoOn, Finish, Places
    <2> QED BY <2>1, <2>2
  <1>5. ASSUME Authorise(w) PROVE TypeOK'
    <2>1. MoneyType'
      BY <1>5, <1>0, FaultType DEF Authorise, PaymentStatuses, OrderPayments, IntentStatuses
    <2>2. WorkType'
      BY <1>5, <1>0, GoOnType, FinishType DEF Authorise, GoOn, Finish, Places
    <2> QED BY <2>1, <2>2
  <1>6. ASSUME Announce(w) PROVE TypeOK'
    <2>1. MoneyType'
      BY <1>6, <1>0, FaultType DEF Announce, PaymentStatuses, OrderPayments, IntentStatuses
    <2>2. WorkType'
      BY <1>6, <1>0, GoOnType, FinishType DEF Announce, GoOn, Finish, Places
    <2> QED BY <2>1, <2>2
  <1>7. ASSUME MarkCancelled(w) PROVE TypeOK'
    <2>1. MoneyType'
      BY <1>7, <1>0, FaultType DEF MarkCancelled, PaymentStatuses, OrderPayments, IntentStatuses
    <2>2. WorkType'
      BY <1>7, <1>0, GoOnType, FinishType DEF MarkCancelled, GoOn, Finish, Places
    <2> QED BY <2>1, <2>2
  <1>8. ASSUME PaymentFailed(w) PROVE TypeOK'
    <2>1. MoneyType'
      BY <1>8, <1>0, FaultType DEF PaymentFailed, PaymentStatuses, OrderPayments, IntentStatuses
    <2>2. WorkType'
      BY <1>8, <1>0, GoOnType, FinishType DEF PaymentFailed, GoOn, Finish, Places
    <2> QED BY <2>1, <2>2
  <1>9. ASSUME MarkRefunded(w) PROVE TypeOK'
    <2>1. MoneyType'
      BY <1>9, <1>0, FaultType DEF MarkRefunded, PaymentStatuses, OrderPayments, IntentStatuses
    <2>2. WorkType'
      BY <1>9, <1>0, GoOnType, FinishType DEF MarkRefunded, GoOn, Finish, Places
    <2> QED BY <2>1, <2>2
  <1>10. ASSUME Poll(w) PROVE TypeOK'
    <2>1. MoneyType' BY <1>10 DEF Poll
    <2>2. \/ GoOn(w, "capturable") \/ GoOn(w, "confirm") \/ GoOn(w, "canceled") \/ Finish(w)
      BY <1>10 DEF Poll
    <2>3. WorkType' BY <1>0, <2>2, GoOnType, FinishType DEF GoOn, Finish, Places, EventTypes
    <2> QED BY <2>1, <2>3
  <1> QED BY <1>1, <1>2, <1>3, <1>4, <1>5, <1>6, <1>7, <1>8, <1>9, <1>10 DEF WebhookStep

LEMMA OutsideTypeStep ==
    ASSUME TypeOK,
           \/ Pays \/ Declined \/ HoldExpires
           \/ \E e \in events : EventLost(e)
           \/ \E to \in Stages : UpdateStatus(to)
    PROVE  TypeOK'
  <1> USE TypeParts, TypePartsNext DEF MoneyType, stripe, rows, placed
  <1>0. MoneyType /\ WorkType /\ events \subseteq EventRecords BY DEF WorkType
  <1>1. Event("capturable") \in EventRecords /\ Event("succeeded") \in EventRecords
        /\ Event("failed") \in EventRecords /\ Event("canceled") \in EventRecords
    BY EventType DEF EventTypes
  <1>2. CASE Pays BY <1>0, <1>1, <1>2 DEF Pays, WorkType, IntentStatuses
  <1>3. CASE Declined BY <1>0, <1>1, <1>3 DEF Declined, WorkType
  <1>4. CASE HoldExpires
    BY <1>0, <1>1, <1>4, FaultType DEF HoldExpires, WorkType, IntentStatuses
  <1>5. ASSUME NEW e \in events, EventLost(e) PROVE TypeOK'
    BY <1>0, <1>5, FaultType DEF EventLost, WorkType
  <1>6. ASSUME NEW to \in Stages, UpdateStatus(to) PROVE TypeOK'
    <2>1. to \in Statuses BY StagesAssumption
    <2> QED BY <1>0, <1>6, <2>1 DEF UpdateStatus, WorkType
  <1> QED BY <1>2, <1>3, <1>4, <1>5, <1>6

LEMMA StartTypeStep ==
    ASSUME TypeOK, NEW w \in Workers,
           \/ \E call \in spawned : StartSpawned(w, call)
           \/ \E e \in events : Deliver(w, e)
           \/ StartPoll(w) \/ Crash(w)
           \/ \E amount \in 1 .. Total : StartPart(w, amount)
    PROVE  TypeOK'
  <1> USE TypeParts, TypePartsNext DEF MoneyType, stripe, rows, placed
  <1>0. MoneyType /\ WorkType /\ events \subseteq EventRecords BY DEF WorkType
  <1>1. ASSUME NEW call \in spawned, StartSpawned(w, call) PROVE TypeOK'
    <2>1. At(call, NoEvent) \in Handlers BY <1>0, EventType DEF Places
    <2>2. MoneyType' BY <1>0, <1>1 DEF StartSpawned
    <2>3. WorkType' BY <1>0, <1>1, <2>1, StartType DEF StartSpawned
    <2> QED BY <2>2, <2>3
  <1>2. ASSUME NEW e \in events, Deliver(w, e) PROVE TypeOK'
    <2>1. e \in EventRecords /\ e.type \in Places BY <1>0 DEF EventRecords, Places
    <2>2. At(e.type, e) \in Handlers BY <2>1, EventType
    <2>3. MoneyType' BY <1>0, <1>2, FaultType DEF Deliver
    <2>4. work' = [work EXCEPT ![w] = At(e.type, e)] /\ events' \subseteq events
      BY <1>2 DEF Deliver
    <2>5. WorkType' BY <1>0, <2>2, <2>4, StartType
    <2> QED BY <2>3, <2>5
  <1>3. ASSUME StartPoll(w) PROVE TypeOK'
    <2>1. At("poll", NoEvent) \in Handlers BY EventType DEF Places
    <2>2. MoneyType' BY <1>0, <1>3 DEF StartPoll
    <2>3. WorkType' BY <1>0, <1>3, <2>1, StartType DEF StartPoll
    <2> QED BY <2>2, <2>3
  <1>4. ASSUME Crash(w) PROVE TypeOK'
    <2>1. MoneyType' BY <1>0, <1>4, FaultType DEF Crash
    <2>2. WorkType' BY <1>0, <1>4, EventType, StartType DEF Crash
    <2> QED BY <2>1, <2>2
  <1>5. ASSUME NEW amount \in 1 .. Total, StartPart(w, amount) PROVE TypeOK'
    <2>1. At("part", NoEvent) \in Handlers BY EventType DEF Places
    <2>a. amount \in 0 .. Total /\ booked \in Nat BY <1>0, TotalAssumption
    <2>2. \A h \in Handlers : [h EXCEPT !.amount = amount, !.base = booked] \in Handlers
      BY <2>a DEF Handlers
    <2>3. MoneyType' BY <1>0, <1>5 DEF StartPart
    <2>4. WorkType' BY <1>0, <1>5, <2>1, <2>2, StartType DEF StartPart
    <2> QED BY <2>3, <2>4
  <1> QED BY <1>1, <1>2, <1>3, <1>4, <1>5

LEMMA TypeStep == ASSUME TypeOK, [Next]_vars PROVE TypeOK'
  <1>1. CASE Next
    <2>1. ASSUME NEW w \in Workers, Step(w) PROVE TypeOK'
      BY <2>1, CaptureTypeStep, RefundTypeStep, PartTypeStep, WebhookTypeStep DEF Step
    <2> QED BY <1>1, <2>1, NextStep, OutsideTypeStep, StartTypeStep
  <1>2. CASE UNCHANGED vars
    BY <1>2 DEF vars, stripe, rows, placed, TypeOK
  <1> QED BY <1>1, <1>2

LEMMA TypeInit == ASSUME Init PROVE TypeOK
  <1>1. Idle \in Handlers BY EventType
  <1>a. pi \in IntentStatuses /\ linked \in BOOLEAN BY DEF Init, IntentStatuses
  <1>b. faults \in FaultLog BY DEF Init, FaultLog
  <1>c. capture \in {"manual", "automatic"} /\ returned \in 0 .. Total /\ order \in Statuses
    BY TotalAssumption DEF Init, Statuses, InFlight
  <1>d. pay \in PaymentStatuses /\ owed \in OrderPayments /\ accepted \in BOOLEAN
    BY DEF Init, PaymentStatuses, OrderPayments
  <1>e. booked \in Nat /\ ledger \in Nat /\ spawned \subseteq {"capture", "refund"}
    BY DEF Init
  <1>2. MoneyType BY <1>a, <1>b, <1>c, <1>d, <1>e DEF MoneyType
  <1>3. WorkType BY <1>1 DEF Init, WorkType
  <1> QED BY <1>2, <1>3, TypeParts

\* The types of the rows, the money at Stripe, the events and the handlers hold
\* in every reachable state, for any number of handlers and any faults.
THEOREM CardTypeCorrect == Spec => []TypeOK
  BY TypeInit, TypeStep, PTL DEF Spec
-----------------------------------------------------------------------------
(* What our rows say of the money is true of it, and money held is taken only *)
(* for an order that was accepted.  The claim travels: Stripe's event, the    *)
(* handler that received it or that was told by a call, each carries it for   *)
(* as long as it takes.  The invariant says of every event and of every place *)
(* a handler can be at what must be true by then, and rests on Stripe never   *)
(* taking back "succeeded" or "canceled".                                      *)

ChargedTags == {"succeeded", "refunded", "confirm", "land", "ledger", "chargedRow",
                "chargedOrder"}
ReleasedTags == {"canceled", "cancelled"}
CaptureTags == {"capture", "lookup", "charge"}

\* tag is the type of an event or the place of a handler.
Holds(tag) ==
    /\ tag \in ChargedTags => pi = "succeeded"
    /\ tag \in ReleasedTags => pi = "canceled"
    /\ tag \in CaptureTags /\ capture = "manual" => accepted

EventsHold == \A e \in events : Holds(e.type)
HandlersHold == \A w \in Workers : Holds(work[w].pc)

RowsHold ==
    /\ PaidMeansCharged
    /\ CancelledMeansReleased
    /\ ChargedMeansAccepted

OrderHolds ==
    /\ "capture" \in spawned => Holds("capture")
    /\ capture = "manual" => accepted \/ order \in {"PENDING"} \union Cancellation

MoneyInv == RowsHold /\ OrderHolds /\ EventsHold /\ HandlersHold

\* What never changes back.
Settled ==
    /\ pi \in {"succeeded", "canceled"} => pi' = pi
    /\ capture' = capture
    /\ accepted => accepted'

LEMMA HoldsStays == ASSUME Settled, NEW tag, Holds(tag) PROVE Holds(tag)'
  BY DEF Settled, Holds, ChargedTags, ReleasedTags, CaptureTags

LEMMA HoldsVoid ==
    ASSUME NEW tag, tag \notin ChargedTags, tag \notin ReleasedTags, tag \notin CaptureTags
    PROVE  Holds(tag)'
  BY DEF Holds

LEMMA MoveHolds ==
    ASSUME WorkType, NEW w \in Workers, NEW h, Settled, EventsHold, HandlersHold,
           work' = [work EXCEPT ![w] = h], Holds(h.pc)',
           \A e \in events' : e \in events \/ Holds(e.type)'
    PROVE  EventsHold' /\ HandlersHold'
  <1>1. EventsHold' BY HoldsStays DEF EventsHold
  <1>2. ASSUME NEW v \in Workers PROVE Holds(work[v].pc)'
    <2>1. CASE v = w
      <3>1. work'[v] = h BY <2>1 DEF WorkType
      <3> QED BY <3>1 DEF Holds
    <2>2. CASE v # w
      <3>1. work'[v] = work[v] BY <2>2 DEF WorkType
      <3>2. Holds(work[v].pc) BY DEF HandlersHold
      <3> QED BY <3>1, <3>2, HoldsStays DEF Holds
    <2> QED BY <2>1, <2>2
  <1> QED BY <1>1, <1>2 DEF HandlersHold

LEMMA GoOnHolds ==
    ASSUME WorkType, NEW w \in Workers, NEW pc \in Places, Settled, EventsHold, HandlersHold,
           work' = [work EXCEPT ![w].pc = pc], Holds(pc)',
           \A e \in events' : e \in events \/ Holds(e.type)'
    PROVE  EventsHold' /\ HandlersHold'
  <1>1. work' = [work EXCEPT ![w] = [work[w] EXCEPT !.pc = pc]] OBVIOUS
  <1>2. [work[w] EXCEPT !.pc = pc].pc = pc BY HandlerType DEF Handlers
  <1> QED BY <1>1, <1>2, MoveHolds

LEMMA FinishHolds ==
    ASSUME WorkType, NEW w \in Workers, NEW more, Settled, EventsHold, HandlersHold,
           FinishWith(w, more), \A e \in more : Holds(e.type)'
    PROVE  EventsHold' /\ HandlersHold'
  <1>1. Idle.pc = "idle" BY DEF Idle, At
  <1>2. Holds(Idle.pc)'
    BY <1>1, HoldsVoid DEF ChargedTags, ReleasedTags, CaptureTags
  <1>3. work' = [work EXCEPT ![w] = Idle] /\ \A e \in events' : e \in events \/ e \in more
    BY DEF FinishWith
  <1> QED BY <1>2, <1>3, MoveHolds

LEMMA ToChargeHolds ==
    ASSUME WorkType, NEW w \in Workers, NEW seen \in PaymentStatuses, ToCharge(w, seen),
           Settled, EventsHold, HandlersHold, Holds("charge")'
    PROVE  EventsHold' /\ HandlersHold'
  <1>1. CASE seen \in Closed BY <1>1, FinishHolds DEF ToCharge, Finish
  <1>2. CASE seen \notin Closed
    <2>1. work' = [work EXCEPT ![w] = [work[w] EXCEPT !.pc = "charge", !.seen = seen]]
      BY <1>2 DEF ToCharge
    <2>2. [work[w] EXCEPT !.pc = "charge", !.seen = seen].pc = "charge"
      BY HandlerType DEF Handlers
    <2>3. events' = events BY <1>2 DEF ToCharge
    <2> QED BY <2>1, <2>2, <2>3, MoveHolds
  <1> QED BY <1>1, <1>2

LEMMA CaptureHolds ==
    ASSUME TypeOK, MoneyInv, NEW w \in Workers, CaptureStep(w)
    PROVE  MoneyInv'
  <1> USE DEF MoneyInv, RowsHold, OrderHolds, stripe, rows, placed
  <1>0. MoneyType /\ WorkType /\ Holds(work[w].pc) BY TypeParts DEF HandlersHold
  <1>1. ASSUME CaptureRead(w) PROVE MoneyInv'
    <2>1. Settled BY <1>1 DEF CaptureRead, Settled
    <2>2. RowsHold' /\ OrderHolds'
      BY <1>1, <1>0, <2>1 DEF CaptureRead, Settled, Holds, ChargedTags, ReleasedTags, CaptureTags,
         PaidMeansCharged, CancelledMeansReleased, ChargedMeansAccepted
    <2>3. Holds("charge")' /\ Holds("lookup")'
      BY <1>1, <1>0, <2>1, HoldsStays DEF CaptureRead, Holds, ChargedTags, ReleasedTags, CaptureTags
    <2>4. CASE linked BY <1>1, <1>0, <2>1, <2>2, <2>3, <2>4, ToChargeHolds DEF CaptureRead, MoneyType
    <2>5. CASE ~linked
      <3>1. work' = [work EXCEPT ![w] = [work[w] EXCEPT !.pc = "lookup", !.seen = pay]]
            /\ events' = events
        BY <1>1, <2>5 DEF CaptureRead
      <3>2. [work[w] EXCEPT !.pc = "lookup", !.seen = pay].pc = "lookup"
        BY <1>0, HandlerType DEF Handlers
      <3> QED BY <1>0, <2>1, <2>2, <2>3, <3>1, <3>2, MoveHolds
    <2> QED BY <2>4, <2>5
  <1>2. ASSUME CaptureLookup(w) PROVE MoneyInv'
    <2>1. Settled BY <1>2 DEF CaptureLookup, Settled
    <2>2. RowsHold' /\ OrderHolds'
      BY <1>2, <1>0, <2>1 DEF CaptureLookup, Settled, Holds, ChargedTags, ReleasedTags, CaptureTags,
         PaidMeansCharged, CancelledMeansReleased, ChargedMeansAccepted
    <2>3. Holds("charge")'
      BY <1>2, <1>0, <2>1, HoldsStays DEF CaptureLookup, Holds, ChargedTags, ReleasedTags, CaptureTags
    <2>4. ToCharge(w, work[w].seen) \/ FinishWith(w, {})
      BY <1>2 DEF CaptureLookup, Finish
    <2>5. work[w].seen \in PaymentStatuses BY <1>0, HandlerType
    <2>6. EventsHold' /\ HandlersHold'
      BY <1>0, <2>1, <2>3, <2>4, <2>5, ToChargeHolds, FinishHolds
    <2> QED BY <2>2, <2>6
  <1>3. ASSUME Charge(w) PROVE MoneyInv'
    <2>1. Settled BY <1>3 DEF Charge, Settled
    <2>2. RowsHold' /\ OrderHolds'
      BY <1>3, <1>0, <2>1 DEF Charge, Settled, Holds, ChargedTags, ReleasedTags, CaptureTags,
         PaidMeansCharged, CancelledMeansReleased, ChargedMeansAccepted
    <2>3. Event("succeeded").type = "succeeded" BY DEF Event, RefundedEvent
    <2>4. CASE pi' # pi
      <3>1. Holds("succeeded")'
        BY <1>3, <2>4 DEF Charge, Holds, ChargedTags, ReleasedTags, CaptureTags
      <3>2. \/ work' = [work EXCEPT ![w].pc = "chargedRow"] /\ events' = events \union {Event("succeeded")}
            \/ FinishWith(w, {Event("succeeded")})
        BY <1>3, <2>4 DEF Charge
      <3>3. Holds("chargedRow")' BY <1>3, <2>4 DEF Charge, Holds, ChargedTags, ReleasedTags, CaptureTags
      <3> QED BY <1>0, <2>1, <2>2, <2>3, <3>1, <3>2, <3>3, GoOnHolds, FinishHolds DEF Places
    <2>5. CASE ~(pi' # pi)
      <3>1. FinishWith(w, {}) BY <1>3, <2>5 DEF Charge, Finish
      <3> QED BY <1>0, <2>1, <2>2, <3>1, FinishHolds
    <2> QED BY <2>4, <2>5
  <1>4. ASSUME ChargedRow(w) PROVE MoneyInv'
    <2>1. Settled BY <1>4 DEF ChargedRow, Settled
    <2>2. RowsHold' /\ OrderHolds'
      BY <1>4, <1>0, <2>1 DEF ChargedRow, Settled, Holds, ChargedTags, ReleasedTags, CaptureTags,
         PaidMeansCharged, CancelledMeansReleased, ChargedMeansAccepted
    <2>3. EventsHold' /\ HandlersHold'
      BY <1>4, <1>0, <2>1, GoOnHolds, FinishHolds
      DEF ChargedRow, GoOn, Finish, Places, Holds, ChargedTags, ReleasedTags, CaptureTags
    <2> QED BY <2>2, <2>3
  <1>5. ASSUME ChargedOrder(w) PROVE MoneyInv'
    <2>1. Settled BY <1>5 DEF ChargedOrder, Settled
    <2>2. RowsHold' /\ OrderHolds'
      BY <1>5, <1>0, <2>1 DEF ChargedOrder, Settled, Holds, ChargedTags, ReleasedTags, CaptureTags,
         PaidMeansCharged, CancelledMeansReleased, ChargedMeansAccepted
    <2>3. EventsHold' /\ HandlersHold'
      BY <1>5, <1>0, <2>1, GoOnHolds, FinishHolds
      DEF ChargedOrder, GoOn, Finish, Places, Holds, ChargedTags, ReleasedTags, CaptureTags
    <2> QED BY <2>2, <2>3
  <1> QED BY <1>1, <1>2, <1>3, <1>4, <1>5 DEF CaptureStep

LEMMA RefundHolds ==
    ASSUME TypeOK, MoneyInv, NEW w \in Workers, RefundStep(w)
    PROVE  MoneyInv'
  <1> USE DEF MoneyInv, RowsHold, OrderHolds, stripe, rows, placed
  <1>0. MoneyType /\ WorkType /\ Holds(work[w].pc) BY TypeParts DEF HandlersHold
  <1>1. ASSUME RefundRead(w) PROVE MoneyInv'
    <2>1. Settled BY <1>1 DEF RefundRead, Settled
    <2>2. RowsHold' /\ OrderHolds'
      BY <1>1, <1>0, <2>1 DEF RefundRead, Settled, Holds, ChargedTags, ReleasedTags, CaptureTags,
         PaidMeansCharged, CancelledMeansReleased, ChargedMeansAccepted
    <2>3. EventsHold' /\ HandlersHold'
      BY <1>1, <1>0, <2>1, GoOnHolds, FinishHolds
      DEF RefundRead, GoOn, Finish, Places, Holds, ChargedTags, ReleasedTags, CaptureTags
    <2> QED BY <2>2, <2>3
  <1>2. ASSUME Ask(w) PROVE MoneyInv'
    <2>1. Settled BY <1>2 DEF Ask, Settled
    <2>2. RowsHold' /\ OrderHolds'
      BY <1>2, <1>0, <2>1 DEF Ask, Settled, Holds, ChargedTags, ReleasedTags, CaptureTags,
         PaidMeansCharged, CancelledMeansReleased, ChargedMeansAccepted
    <2>3. EventsHold' /\ HandlersHold'
      BY <1>2, <1>0, <2>1, GoOnHolds, FinishHolds
      DEF Ask, GoOn, Finish, Places, Holds, ChargedTags, ReleasedTags, CaptureTags
    <2> QED BY <2>2, <2>3
  <1>3. ASSUME Return(w) PROVE MoneyInv'
    <2>1. Settled BY <1>3 DEF Return, Settled
    <2>2. RowsHold' /\ OrderHolds'
      BY <1>3, <1>0, <2>1 DEF Return, Settled, Holds, ChargedTags, ReleasedTags, CaptureTags,
         PaidMeansCharged, CancelledMeansReleased, ChargedMeansAccepted
    <2>3. RefundedEvent(Total).type = "refunded" BY DEF Event, RefundedEvent
    <2>4. CASE returned' # returned
      <3>1. Holds("refunded")'
        BY <1>3, <2>4 DEF Return, Holds, ChargedTags, ReleasedTags, CaptureTags
      <3>2. \/ work' = [work EXCEPT ![w].pc = "returnedRow"] /\ events' = events \union {RefundedEvent(Total)}
            \/ FinishWith(w, {RefundedEvent(Total)})
        BY <1>3, <2>4 DEF Return
      <3>3. Holds("returnedRow")' BY <1>3, <2>4 DEF Return, Holds, ChargedTags, ReleasedTags, CaptureTags
      <3> QED BY <1>0, <2>1, <2>2, <2>3, <3>1, <3>2, <3>3, GoOnHolds, FinishHolds DEF Places
    <2>5. CASE ~(returned' # returned)
      <3>1. FinishWith(w, {}) BY <1>3, <2>5, TotalAssumption DEF Return, Finish
      <3> QED BY <1>0, <2>1, <2>2, <3>1, FinishHolds
    <2> QED BY <2>4, <2>5
  <1>4. ASSUME ReturnedRow(w) PROVE MoneyInv'
    <2>1. Settled BY <1>4 DEF ReturnedRow, Settled
    <2>2. RowsHold' /\ OrderHolds'
      BY <1>4, <1>0, <2>1 DEF ReturnedRow, Settled, Holds, ChargedTags, ReleasedTags, CaptureTags,
         PaidMeansCharged, CancelledMeansReleased, ChargedMeansAccepted
    <2>3. EventsHold' /\ HandlersHold'
      BY <1>4, <1>0, <2>1, GoOnHolds, FinishHolds
      DEF ReturnedRow, GoOn, Finish, Places, Holds, ChargedTags, ReleasedTags, CaptureTags
    <2> QED BY <2>2, <2>3
  <1>5. ASSUME ReturnedOrder(w) PROVE MoneyInv'
    <2>1. Settled BY <1>5 DEF ReturnedOrder, Settled
    <2>2. RowsHold' /\ OrderHolds'
      BY <1>5, <1>0, <2>1 DEF ReturnedOrder, Settled, Holds, ChargedTags, ReleasedTags, CaptureTags,
         PaidMeansCharged, CancelledMeansReleased, ChargedMeansAccepted
    <2>3. EventsHold' /\ HandlersHold'
      BY <1>5, <1>0, <2>1, GoOnHolds, FinishHolds
      DEF ReturnedOrder, GoOn, Finish, Places, Holds, ChargedTags, ReleasedTags, CaptureTags
    <2> QED BY <2>2, <2>3
  <1>6. ASSUME Release(w) PROVE MoneyInv'
    <2>1. Settled BY <1>6 DEF Release, Settled
    <2>2. RowsHold' /\ OrderHolds'
      BY <1>6, <1>0, <2>1 DEF Release, Settled, Holds, ChargedTags, ReleasedTags, CaptureTags,
         PaidMeansCharged, CancelledMeansReleased, ChargedMeansAccepted
    <2>3. EventsHold' /\ HandlersHold'
      BY <1>6, <1>0, <2>1, GoOnHolds, FinishHolds
      DEF Release, GoOn, Finish, Places, Holds, ChargedTags, ReleasedTags, CaptureTags
    <2> QED BY <2>2, <2>3
  <1>7. ASSUME Void(w) PROVE MoneyInv'
    <2>1. Settled BY <1>7 DEF Void, Settled, Open
    <2>2. RowsHold' /\ OrderHolds'
      BY <1>7, <1>0, <2>1 DEF Void, Settled, Holds, ChargedTags, ReleasedTags, CaptureTags,
         PaidMeansCharged, CancelledMeansReleased, ChargedMeansAccepted
    <2>3. Event("canceled").type = "canceled" BY DEF Event
    <2>4. CASE pi \in Open /\ pi' = "canceled"
      <3>1. Holds("canceled")' BY <2>4 DEF Holds, ChargedTags, ReleasedTags, CaptureTags
      <3>2. FinishWith(w, {Event("canceled")}) \/ FinishWith(w, {})
        BY <1>7, <2>4 DEF Void, Finish
      <3> QED BY <1>0, <2>1, <2>2, <2>3, <3>1, <3>2, FinishHolds
    <2>5. CASE ~(pi \in Open /\ pi' = "canceled")
      <3>1. FinishWith(w, {}) BY <1>7, <2>5 DEF Void, Finish
      <3> QED BY <1>0, <2>1, <2>2, <3>1, FinishHolds
    <2> QED BY <2>4, <2>5
  <1> QED BY <1>1, <1>2, <1>3, <1>4, <1>5, <1>6, <1>7 DEF RefundStep

LEMMA PartHolds ==
    ASSUME TypeOK, MoneyInv, NEW w \in Workers, PartStep(w)
    PROVE  MoneyInv'
  <1> USE DEF MoneyInv, RowsHold, OrderHolds, stripe, rows, placed
  <1>0. MoneyType /\ WorkType /\ Holds(work[w].pc) BY TypeParts DEF HandlersHold
  <1>1. ASSUME Part(w) PROVE MoneyInv'
    <2>1. Settled BY <1>1 DEF Part, Settled
    <2>2. RowsHold' /\ OrderHolds'
      BY <1>1, <1>0, <2>1 DEF Part, Settled, Holds, ChargedTags, ReleasedTags, CaptureTags,
         PaidMeansCharged, CancelledMeansReleased, ChargedMeansAccepted
    <2>3. \A sum : RefundedEvent(sum).type = "refunded" BY DEF RefundedEvent
    <2>4. CASE pi = "succeeded"
      <3>1. Holds("refunded")' /\ Holds("book")'
        BY <1>1, <2>4 DEF Part, Holds, ChargedTags, ReleasedTags, CaptureTags
      <3>2. PICK sum : \/ /\ work' = [work EXCEPT ![w].pc = "book"]
                          /\ events' = events \union {RefundedEvent(sum)}
                       \/ FinishWith(w, {RefundedEvent(sum)})
                       \/ FinishWith(w, {})
        BY <1>1 DEF Part, Finish
      <3> QED BY <1>0, <2>1, <2>2, <2>3, <3>1, <3>2, GoOnHolds, FinishHolds DEF Places
    <2>5. CASE pi # "succeeded"
      <3>1. FinishWith(w, {}) BY <1>1, <2>5 DEF Part, Finish
      <3> QED BY <1>0, <2>1, <2>2, <3>1, FinishHolds
    <2> QED BY <2>4, <2>5
  <1>2. ASSUME Book(w) PROVE MoneyInv'
    <2>1. Settled BY <1>2 DEF Book, Settled
    <2>2. RowsHold' /\ OrderHolds'
      BY <1>2, <1>0, <2>1 DEF Book, Settled, Holds, ChargedTags, ReleasedTags, CaptureTags,
         PaidMeansCharged, CancelledMeansReleased, ChargedMeansAccepted
    <2>3. EventsHold' /\ HandlersHold'
      BY <1>2, <1>0, <2>1, GoOnHolds, FinishHolds
      DEF Book, GoOn, Finish, Places, Holds, ChargedTags, ReleasedTags, CaptureTags
    <2> QED BY <2>2, <2>3
  <1> QED BY <1>1, <1>2 DEF PartStep

LEMMA WebhookHolds ==
    ASSUME TypeOK, MoneyInv, NEW w \in Workers, WebhookStep(w)
    PROVE  MoneyInv'
  <1> USE DEF MoneyInv, RowsHold, OrderHolds, stripe, rows, placed
  <1>0. MoneyType /\ WorkType /\ Holds(work[w].pc) BY TypeParts DEF HandlersHold
  <1>1. ASSUME Find(w) PROVE MoneyInv'
    <2>1. Settled BY <1>1 DEF Find, Settled
    <2>2. RowsHold' /\ OrderHolds'
      BY <1>1, <1>0, <2>1 DEF Find, Settled, Holds, ChargedTags, ReleasedTags, CaptureTags,
         PaidMeansCharged, CancelledMeansReleased, ChargedMeansAccepted
    <2>3. \/ work[w].pc = "succeeded" /\ GoOn(w, "confirm")
          \/ work[w].pc = "capturable" /\ GoOn(w, "authorise")
          \/ work[w].pc = "canceled" /\ GoOn(w, "cancelled")
      BY <1>1 DEF Find
    <2>4. PICK pc \in {"confirm", "authorise", "cancelled"} : GoOn(w, pc) /\ Holds(pc)'
      BY <1>1, <1>0, <2>1, <2>3 DEF Find, Holds, ChargedTags, ReleasedTags, CaptureTags
    <2> QED BY <1>0, <2>1, <2>2, <2>4, GoOnHolds DEF GoOn, Places
  <1>2. ASSUME Confirm(w) PROVE MoneyInv'
    <2>1. Settled BY <1>2 DEF Confirm, Settled
    <2>2. RowsHold' /\ OrderHolds'
      BY <1>2, <1>0, <2>1 DEF Confirm, Settled, Holds, ChargedTags, ReleasedTags, CaptureTags,
         PaidMeansCharged, CancelledMeansReleased, ChargedMeansAccepted
    <2>3. EventsHold' /\ HandlersHold'
      BY <1>2, <1>0, <2>1, GoOnHolds, FinishHolds
      DEF Confirm, GoOn, Finish, Places, Holds, ChargedTags, ReleasedTags, CaptureTags
    <2> QED BY <2>2, <2>3
  <1>3. ASSUME Land(w) PROVE MoneyInv'
    <2>1. Settled BY <1>3 DEF Land, Settled
    <2>2. RowsHold' /\ OrderHolds'
      BY <1>3, <1>0, <2>1 DEF Land, Settled, Holds, ChargedTags, ReleasedTags, CaptureTags,
         PaidMeansCharged, CancelledMeansReleased, ChargedMeansAccepted
    <2>3. EventsHold' /\ HandlersHold'
      BY <1>3, <1>0, <2>1, GoOnHolds, FinishHolds
      DEF Land, GoOn, Finish, Places, Holds, ChargedTags, ReleasedTags, CaptureTags
    <2> QED BY <2>2, <2>3
  <1>4. ASSUME Ledger(w) PROVE MoneyInv'
    <2>1. Settled BY <1>4 DEF Ledger, Settled
    <2>2. RowsHold' /\ OrderHolds'
      BY <1>4, <1>0, <2>1 DEF Ledger, Settled, Holds, ChargedTags, ReleasedTags, CaptureTags,
         PaidMeansCharged, CancelledMeansReleased, ChargedMeansAccepted
    <2>3. EventsHold' /\ HandlersHold'
      BY <1>4, <1>0, <2>1, GoOnHolds, FinishHolds
      DEF Ledger, GoOn, Finish, Places, Holds, ChargedTags, ReleasedTags, CaptureTags
    <2> QED BY <2>2, <2>3
  <1>5. ASSUME Authorise(w) PROVE MoneyInv'
    <2>1. Settled BY <1>5 DEF Authorise, Settled
    <2>2. RowsHold' /\ OrderHolds'
      BY <1>5, <1>0, <2>1 DEF Authorise, Settled, Holds, ChargedTags, ReleasedTags, CaptureTags,
         PaidMeansCharged, CancelledMeansReleased, ChargedMeansAccepted
    <2>3. EventsHold' /\ HandlersHold'
      BY <1>5, <1>0, <2>1, GoOnHolds, FinishHolds
      DEF Authorise, GoOn, Finish, Places, Holds, ChargedTags, ReleasedTags, CaptureTags
    <2> QED BY <2>2, <2>3
  <1>6. ASSUME Announce(w) PROVE MoneyInv'
    <2>1. Settled BY <1>6 DEF Announce, Settled
    <2>2. RowsHold' /\ OrderHolds'
      BY <1>6, <1>0, <2>1 DEF Announce, Settled, Holds, ChargedTags, ReleasedTags, CaptureTags,
         PaidMeansCharged, CancelledMeansReleased, ChargedMeansAccepted
    <2>3. CASE order \in AcceptedStates
      <3>1. GoOn(w, "capture") BY <1>6, <2>3 DEF Announce
      <3>2. capture = "manual" => accepted BY <2>3 DEF AcceptedStates, Cancellation
      <3>3. Holds("capture")'
        BY <2>1, <3>2 DEF Settled, Holds, ChargedTags, ReleasedTags, CaptureTags
      <3> QED BY <1>0, <2>1, <2>2, <3>1, <3>3, GoOnHolds DEF GoOn, Places
    <2>4. CASE order \notin AcceptedStates
      <3>1. FinishWith(w, {}) BY <1>6, <2>4 DEF Announce, Finish
      <3> QED BY <1>0, <2>1, <2>2, <3>1, FinishHolds
    <2> QED BY <2>3, <2>4
  <1>7. ASSUME MarkCancelled(w) PROVE MoneyInv'
    <2>1. Settled BY <1>7 DEF MarkCancelled, Settled
    <2>2. RowsHold' /\ OrderHolds'
      BY <1>7, <1>0, <2>1 DEF MarkCancelled, Settled, Holds, ChargedTags, ReleasedTags, CaptureTags,
         PaidMeansCharged, CancelledMeansReleased, ChargedMeansAccepted
    <2>3. EventsHold' /\ HandlersHold'
      BY <1>7, <1>0, <2>1, GoOnHolds, FinishHolds
      DEF MarkCancelled, GoOn, Finish, Places, Holds, ChargedTags, ReleasedTags, CaptureTags
    <2> QED BY <2>2, <2>3
  <1>8. ASSUME PaymentFailed(w) PROVE MoneyInv'
    <2>1. Settled BY <1>8 DEF PaymentFailed, Settled
    <2>2. RowsHold' /\ OrderHolds'
      BY <1>8, <1>0, <2>1 DEF PaymentFailed, Settled, Holds, ChargedTags, ReleasedTags, CaptureTags,
         PaidMeansCharged, CancelledMeansReleased, ChargedMeansAccepted
    <2>3. EventsHold' /\ HandlersHold'
      BY <1>8, <1>0, <2>1, GoOnHolds, FinishHolds
      DEF PaymentFailed, GoOn, Finish, Places, Holds, ChargedTags, ReleasedTags, CaptureTags
    <2> QED BY <2>2, <2>3
  <1>9. ASSUME MarkRefunded(w) PROVE MoneyInv'
    <2>1. Settled BY <1>9 DEF MarkRefunded, Settled
    <2>2. RowsHold' /\ OrderHolds'
      BY <1>9, <1>0, <2>1 DEF MarkRefunded, Settled, Holds, ChargedTags, ReleasedTags, CaptureTags,
         PaidMeansCharged, CancelledMeansReleased, ChargedMeansAccepted
    <2>3. EventsHold' /\ HandlersHold'
      BY <1>9, <1>0, <2>1, GoOnHolds, FinishHolds
      DEF MarkRefunded, GoOn, Finish, Places, Holds, ChargedTags, ReleasedTags, CaptureTags
    <2> QED BY <2>2, <2>3
  <1>10. ASSUME Poll(w) PROVE MoneyInv'
    <2>1. Settled BY <1>10 DEF Poll, Settled
    <2>2. RowsHold' /\ OrderHolds'
      BY <1>10, <1>0, <2>1 DEF Poll, Settled, Holds, ChargedTags, ReleasedTags, CaptureTags,
         PaidMeansCharged, CancelledMeansReleased, ChargedMeansAccepted
    <2>3. \/ GoOn(w, "capturable")
          \/ GoOn(w, "confirm") /\ pi = "succeeded"
          \/ GoOn(w, "canceled") /\ pi = "canceled"
          \/ Finish(w)
      BY <1>10 DEF Poll
    <2>4. CASE Finish(w) BY <1>0, <2>1, <2>2, <2>4, FinishHolds DEF Finish
    <2>5. CASE ~Finish(w)
      <3>1. PICK pc \in {"capturable", "confirm", "canceled"} : GoOn(w, pc) /\ Holds(pc)'
        BY <1>10, <2>3, <2>5 DEF Poll, Holds, ChargedTags, ReleasedTags, CaptureTags
      <3> QED BY <1>0, <2>1, <2>2, <3>1, GoOnHolds DEF GoOn, Places, EventTypes
    <2> QED BY <2>4, <2>5
  <1> QED BY <1>1, <1>2, <1>3, <1>4, <1>5, <1>6, <1>7, <1>8, <1>9, <1>10 DEF WebhookStep

LEMMA OutsideHolds ==
    ASSUME TypeOK, MoneyInv,
           \/ Pays \/ Declined \/ HoldExpires
           \/ \E e \in events : EventLost(e)
           \/ \E to \in Stages : UpdateStatus(to)
    PROVE  MoneyInv'
  <1> USE DEF MoneyInv, RowsHold, OrderHolds, stripe, rows, placed,
              PaidMeansCharged, CancelledMeansReleased, ChargedMeansAccepted
  <1>0. \A type : Event(type).type = type BY DEF Event
  <1>1. ASSUME work' = work, Settled, \A e \in events' : e \in events \/ Holds(e.type)'
        PROVE  EventsHold' /\ HandlersHold'
    <2>1. EventsHold' BY <1>1, HoldsStays DEF EventsHold
    <2>2. \A w \in Workers : Holds(work[w].pc)' BY <1>1, HoldsStays DEF HandlersHold, Holds
    <2> QED BY <2>1, <2>2 DEF HandlersHold
  <1>2. CASE Pays
    <2>1. Settled BY <1>2 DEF Pays, Settled
    <2>2. RowsHold' /\ OrderHolds'
      BY <1>2 DEF Pays, Holds, ChargedTags, ReleasedTags, CaptureTags
    <2>3. \A e \in events' : e \in events \/ Holds(e.type)'
      BY <1>0, <1>2 DEF Pays, Holds, ChargedTags, ReleasedTags, CaptureTags
    <2>4. work' = work BY <1>2 DEF Pays
    <2> QED BY <1>1, <2>1, <2>2, <2>3, <2>4
  <1>3. CASE Declined
    <2>1. Settled /\ work' = work BY <1>3 DEF Declined, Settled
    <2>2. RowsHold' /\ OrderHolds' BY <1>3 DEF Declined, Holds
    <2>3. \A e \in events' : e \in events \/ Holds(e.type)'
      BY <1>0, <1>3 DEF Declined, Holds, ChargedTags, ReleasedTags, CaptureTags
    <2> QED BY <1>1, <2>1, <2>2, <2>3
  <1>4. CASE HoldExpires
    <2>1. Settled /\ work' = work BY <1>4 DEF HoldExpires, Settled
    <2>2. RowsHold' /\ OrderHolds'
      BY <1>4 DEF HoldExpires, Holds, ChargedTags, ReleasedTags, CaptureTags
    <2>3. \A e \in events' : e \in events \/ Holds(e.type)'
      BY <1>0, <1>4 DEF HoldExpires, Holds, ChargedTags, ReleasedTags, CaptureTags
    <2> QED BY <1>1, <2>1, <2>2, <2>3
  <1>5. ASSUME NEW e \in events, EventLost(e) PROVE MoneyInv'
    <2>1. Settled /\ work' = work /\ events' \subseteq events BY <1>5 DEF EventLost, Settled
    <2>2. RowsHold' /\ OrderHolds' BY <1>5 DEF EventLost, Holds
    <2> QED BY <1>1, <2>1, <2>2
  <1>6. ASSUME NEW to \in Stages, UpdateStatus(to) PROVE MoneyInv'
    <2>1. Settled /\ work' = work /\ events' = events BY <1>6 DEF UpdateStatus, Settled
    <2>2. RowsHold' BY <1>6, <2>1 DEF UpdateStatus, Settled
    <2>3. ("capture" \in spawned => Holds("capture"))'
      <3>1. CASE to = "ACCEPTED"
        <4>1. accepted' BY <1>6, <3>1 DEF UpdateStatus
        <4> QED BY <4>1 DEF Holds, ChargedTags, ReleasedTags, CaptureTags
      <3>2. CASE to # "ACCEPTED"
        <4>1. "capture" \in spawned' => "capture" \in spawned BY <1>6, <3>2 DEF UpdateStatus
        <4> QED BY <2>1, <4>1, HoldsStays
      <3> QED BY <3>1, <3>2
    <2>4. (capture = "manual" => accepted \/ order \in {"PENDING"} \union Cancellation)'
      <3>1. CASE order = "PENDING"
        <4>1. to \in {"ACCEPTED"} \union Cancellation
          <5>1. ValidTransitions["PENDING"] = {"ACCEPTED"} \union Cancellation
            BY DEF ValidTransitions, OnTheRoad, Cancellation, Statuses, InFlight, Terminal
          <5> QED BY <1>6, <3>1, <5>1 DEF UpdateStatus, AssertTransition, CanTransition
        <4> QED BY <1>6, <4>1 DEF UpdateStatus
      <3>2. CASE order \in Cancellation
        BY <1>6, <3>2 DEF UpdateStatus, AssertTransition, Cancellation, Terminal
      <3>3. CASE order \notin {"PENDING"} \union Cancellation
        BY <1>6, <3>3 DEF UpdateStatus
      <3> QED BY <3>1, <3>2, <3>3
    <2> QED BY <1>1, <2>1, <2>2, <2>3, <2>4
  <1> QED BY <1>2, <1>3, <1>4, <1>5, <1>6

LEMMA StartHolds ==
    ASSUME TypeOK, MoneyInv, NEW w \in Workers,
           \/ \E call \in spawned : StartSpawned(w, call)
           \/ \E e \in events : Deliver(w, e)
           \/ StartPoll(w) \/ Crash(w)
           \/ \E amount \in 1 .. Total : StartPart(w, amount)
    PROVE  MoneyInv'
  <1> USE DEF MoneyInv, RowsHold, OrderHolds, stripe, rows, placed,
              PaidMeansCharged, CancelledMeansReleased, ChargedMeansAccepted
  <1>0. /\ MoneyType /\ WorkType
        /\ \A pc, ev : At(pc, ev).pc = pc
        /\ Idle.pc = "idle"
    BY TypeParts DEF At, Idle
  <1>1. ASSUME NEW h, UNCHANGED <<stripe, rows, order, accepted>>, events' \subseteq events,
               work' = [work EXCEPT ![w] = h], Holds(h.pc), spawned' \subseteq spawned
        PROVE  MoneyInv'
    <2>1. Settled BY <1>1 DEF Settled
    <2>2. Holds(h.pc)' BY <1>1, <2>1, HoldsStays
    <2>3. EventsHold' /\ HandlersHold' BY <1>0, <1>1, <2>1, <2>2, MoveHolds
    <2>4. RowsHold' BY <1>1
    <2>5. OrderHolds' BY <1>1, <2>1, HoldsStays
    <2> QED BY <2>3, <2>4, <2>5
  <1>2. ASSUME NEW call \in spawned, StartSpawned(w, call) PROVE MoneyInv'
    <2>1. call \in {"capture", "refund"} BY <1>0 DEF MoneyType
    <2>2. Holds(call) BY <2>1 DEF Holds, ChargedTags, ReleasedTags, CaptureTags
    <2>3. At(call, NoEvent).pc = call BY <1>0
    <2>4. /\ UNCHANGED <<stripe, rows, order, accepted>> /\ events' \subseteq events
          /\ work' = [work EXCEPT ![w] = At(call, NoEvent)] /\ spawned' \subseteq spawned
      BY <1>2 DEF StartSpawned
    <2> QED BY <1>1, <2>2, <2>3, <2>4
  <1>3. ASSUME NEW e \in events, Deliver(w, e) PROVE MoneyInv'
    <2>1. Holds(e.type) BY DEF EventsHold
    <2>2. events' \subseteq events BY <1>3 DEF Deliver
    <2>3. At(e.type, e).pc = e.type BY <1>0
    <2>4. /\ UNCHANGED <<stripe, rows, order, accepted>>
          /\ work' = [work EXCEPT ![w] = At(e.type, e)] /\ spawned' \subseteq spawned
      BY <1>3 DEF Deliver
    <2> QED BY <1>1, <2>1, <2>2, <2>3, <2>4
  <1>4. ASSUME StartPoll(w) PROVE MoneyInv'
    <2>1. Holds("poll") BY DEF Holds, ChargedTags, ReleasedTags, CaptureTags
    <2>2. At("poll", NoEvent).pc = "poll" BY <1>0
    <2>3. /\ UNCHANGED <<stripe, rows, order, accepted>> /\ events' \subseteq events
          /\ work' = [work EXCEPT ![w] = At("poll", NoEvent)] /\ spawned' \subseteq spawned
      BY <1>4 DEF StartPoll
    <2> QED BY <1>1, <2>1, <2>2, <2>3
  <1>5. ASSUME Crash(w) PROVE MoneyInv'
    <2>1. Holds("idle") BY DEF Holds, ChargedTags, ReleasedTags, CaptureTags
    <2> QED BY <1>0, <1>1, <1>5, <2>1 DEF Crash
  <1>6. ASSUME NEW amount \in 1 .. Total, StartPart(w, amount) PROVE MoneyInv'
    <2>1. Holds("part") BY DEF Holds, ChargedTags, ReleasedTags, CaptureTags
    <2>2. [At("part", NoEvent) EXCEPT !.amount = amount, !.base = booked].pc = "part"
      BY DEF At
    <2> QED BY <1>1, <1>6, <2>1, <2>2 DEF StartPart
  <1> QED BY <1>2, <1>3, <1>4, <1>5, <1>6

LEMMA MoneyStep == ASSUME TypeOK, MoneyInv, [Next]_vars PROVE MoneyInv'
  <1>1. CASE Next
    <2>1. ASSUME NEW w \in Workers, Step(w) PROVE MoneyInv'
      BY <2>1, CaptureHolds, RefundHolds, PartHolds, WebhookHolds DEF Step
    <2> QED BY <1>1, <2>1, NextStep, OutsideHolds, StartHolds
  <1>2. CASE UNCHANGED vars
    BY <1>2 DEF vars, stripe, rows, placed, MoneyInv, RowsHold, OrderHolds, EventsHold,
       HandlersHold, Holds, PaidMeansCharged, CancelledMeansReleased, ChargedMeansAccepted
  <1> QED BY <1>1, <1>2

LEMMA MoneyInit == ASSUME Init PROVE MoneyInv
  <1>1. RowsHold /\ OrderHolds /\ EventsHold
    BY DEF Init, RowsHold, OrderHolds, EventsHold, PaidMeansCharged, CancelledMeansReleased,
       ChargedMeansAccepted
  <1>2. \A w \in Workers : work[w].pc = "idle" BY DEF Init, Idle, At
  <1>3. HandlersHold BY <1>2 DEF HandlersHold, Holds, ChargedTags, ReleasedTags, CaptureTags
  <1> QED BY <1>1, <1>3 DEF MoneyInv

\* The invariant of the charging, from which the next three follow.
THEOREM MoneyCorrect == Spec => []MoneyInv
  BY MoneyInit, MoneyStep, CardTypeCorrect, PTL DEF Spec

\* For any number of handlers, any amount and any faults: our rows never say
\* that money was taken which Stripe has not charged.
THEOREM PaidCorrect == Spec => []PaidMeansCharged
  <1>1. MoneyInv => PaidMeansCharged BY DEF MoneyInv, RowsHold
  <1> QED BY <1>1, MoneyCorrect, PTL

\* A payment that counts as released can no longer be charged at Stripe.
THEOREM ReleasedCorrect == Spec => []CancelledMeansReleased
  <1>1. MoneyInv => CancelledMeansReleased BY DEF MoneyInv, RowsHold
  <1> QED BY <1>1, MoneyCorrect, PTL

\* Held money is taken only for an order that was accepted, whatever statuses
\* the order goes through and however the authorisation and the accept race.
THEOREM ChargedCorrect == Spec => []ChargedMeansAccepted
  <1>1. MoneyInv => ChargedMeansAccepted BY DEF MoneyInv, RowsHold
  <1> QED BY <1>1, MoneyCorrect, PTL
-----------------------------------------------------------------------------
(* Refunds: what our rows say went back did.  A handler that has moved money  *)
(* and not yet booked it is owed the booking; the sum of what is owed counts  *)
(* as the size of a set of units, one for each unit of money.                 *)

Neutral == Places \ {"returnedRow", "part", "book", "refunded"}

\* h may book, or turn the payment, when r of it went back.
Backed(h, r) ==
    /\ h.pc = "returnedRow" => r = Total
    /\ h.pc = "part" => h.base <= r
    /\ h.pc = "book" => h.base + h.amount <= r
    /\ h.pc = "refunded" => h.ev.amount <= r
EventBacked(e, r) == e.type = "refunded" => e.amount <= r

Owing == {u \in Workers \X (1 .. Total) :
             work[u[1]].pc = "book" /\ u[2] <= work[u[1]].amount}

RefundInv ==
    /\ IsFiniteSet(Owing)
    /\ booked + Cardinality(Owing) <= returned
    /\ pay = "REFUNDED" => returned = Total
    /\ \A e \in events : EventBacked(e, returned)
    /\ \A w \in Workers : Backed(work[w], returned)

\* The units of one handler.
LEMMA UnitsOf ==
    ASSUME NEW w, NEW a \in Nat
    PROVE  IsFiniteSet({w} \X (1 .. a)) /\ Cardinality({w} \X (1 .. a)) = a
  <1> DEFINE f == [k \in 1 .. a |-> <<w, k>>]
  <1>1. f \in Bijection(1 .. a, {w} \X (1 .. a))
    <2>1. f \in [1 .. a -> {w} \X (1 .. a)] OBVIOUS
    <2>2. \A j, k \in 1 .. a : f[j] = f[k] => j = k OBVIOUS
    <2>3. ASSUME NEW u \in {w} \X (1 .. a) PROVE \E k \in 1 .. a : f[k] = u
      <3>1. u = <<w, u[2]>> /\ u[2] \in 1 .. a OBVIOUS
      <3> QED BY <3>1
    <2> QED BY <2>1, <2>2, <2>3 DEF Bijection, Injection, Surjection, IsInjective
  <1>2. IsFiniteSet(1 .. a) /\ Cardinality(1 .. a) = a BY FS_Interval
  <1>3. ExistsBijection(1 .. a, {w} \X (1 .. a)) BY <1>1 DEF ExistsBijection
  <1> QED BY <1>2, <1>3, FS_Bijection

LEMMA UnitsAdd ==
    ASSUME NEW S, IsFiniteSet(S), NEW w, NEW a \in Nat, \A u \in S : u[1] # w
    PROVE  /\ IsFiniteSet(S \union ({w} \X (1 .. a)))
           /\ Cardinality(S \union ({w} \X (1 .. a))) = Cardinality(S) + a
  <1> DEFINE U == {w} \X (1 .. a)
  <1>1. IsFiniteSet(U) /\ Cardinality(U) = a BY UnitsOf
  <1>2. S \cap U = {} OBVIOUS
  <1>3. Cardinality(S \cap U) = 0 BY <1>2, FS_EmptySet
  <1>4. Cardinality(S) \in Nat BY FS_CardinalityType
  <1> HIDE DEF U
  <1>5. IsFiniteSet(S \union U) /\ Cardinality(S \union U) = Cardinality(S) + Cardinality(U) - Cardinality(S \cap U)
    BY <1>1, FS_Union
  <1>6. Cardinality(S \union U) = Cardinality(S) + a BY <1>1, <1>3, <1>4, <1>5
  <1> QED BY <1>5, <1>6 DEF U

\* A handler that goes to any place but "book" owes nothing new.
LEMMA OwingFalls ==
    ASSUME WorkType, NEW w \in Workers, NEW h, work' = [work EXCEPT ![w] = h], h.pc # "book",
           IsFiniteSet(Owing)
    PROVE  IsFiniteSet(Owing') /\ Cardinality(Owing') <= Cardinality(Owing)
           /\ Cardinality(Owing) \in Nat /\ Cardinality(Owing') \in Nat
  <1>1. Owing' \subseteq Owing
    <2>1. ASSUME NEW u \in Workers \X (1 .. Total), work'[u[1]].pc = "book",
                 u[2] <= work'[u[1]].amount
          PROVE  u \in Owing
      <3>1. u[1] \in Workers OBVIOUS
      <3>2. work'[w] = h /\ \A v \in Workers \ {w} : work'[v] = work[v] BY DEF WorkType
      <3>3. u[1] # w BY <2>1, <3>2
      <3>4. work'[u[1]] = work[u[1]] BY <3>1, <3>2, <3>3
      <3> QED BY <2>1, <3>4 DEF Owing
    <2> QED BY <2>1 DEF Owing
  <1> QED BY <1>1, FS_Subset, FS_CardinalityType

\* What was backed stays so as more goes back.
LEMMA BackedStays ==
    ASSUME NEW h \in Handlers, NEW r \in 0 .. Total, NEW s \in 0 .. Total, r <= s, Backed(h, r)
    PROVE  Backed(h, s)
  <1>1. /\ h.base \in Nat /\ h.amount \in Nat /\ h.ev.amount \in Nat
        /\ r \in Nat /\ s \in Nat /\ s <= Total /\ Total \in Nat
    BY TotalAssumption DEF Handlers
  <1> QED BY <1>1 DEF Backed

LEMMA EventStays ==
    ASSUME NEW e \in EventRecords, NEW r \in 0 .. Total, NEW s \in 0 .. Total, r <= s,
           EventBacked(e, r)
    PROVE  EventBacked(e, s)
  <1>1. e.amount \in Nat /\ r \in Nat /\ s \in Nat BY TotalAssumption DEF EventRecords
  <1> QED BY <1>1 DEF EventBacked

\* What a step that moves one handler leaves of the backing.
LEMMA BackingMoves ==
    ASSUME TypeOK, TypeOK', RefundInv, NEW w \in Workers, NEW h,
           work' = [work EXCEPT ![w] = h], Backed(h, returned'), returned <= returned',
           \A e \in events' : e \in events \/ EventBacked(e, returned')
    PROVE  /\ \A e \in events' : EventBacked(e, returned')
           /\ \A v \in Workers : Backed(work'[v], returned')
  <1>0. /\ WorkType /\ returned \in 0 .. Total /\ returned' \in 0 .. Total
        /\ events \subseteq EventRecords
    BY TypeParts, TypePartsNext DEF WorkType, MoneyType
  <1>1. ASSUME NEW e \in events' PROVE EventBacked(e, returned')
    BY <1>0, EventStays DEF RefundInv
  <1>2. ASSUME NEW v \in Workers PROVE Backed(work'[v], returned')
    <2>1. CASE v = w BY <1>0, <2>1 DEF WorkType
    <2>2. CASE v # w
      <3>1. work'[v] = work[v] /\ work[v] \in Handlers BY <1>0, <2>2 DEF WorkType
      <3> QED BY <1>0, <3>1, BackedStays DEF RefundInv
    <2> QED BY <2>1, <2>2
  <1> QED BY <1>1, <1>2

LEMMA MoveQuiet ==
    ASSUME TypeOK, TypeOK', RefundInv, NEW w \in Workers, NEW h, h.pc # "book",
           work' = [work EXCEPT ![w] = h], Backed(h, returned'), returned <= returned',
           booked' = booked, pay' = "REFUNDED" => returned' = Total,
           \A e \in events' : e \in events \/ EventBacked(e, returned')
    PROVE  RefundInv'
  <1>0. WorkType /\ returned \in Nat /\ returned' \in Nat /\ booked \in Nat
    BY TypeParts, TypePartsNext, TotalAssumption DEF MoneyType
  <1>1. /\ IsFiniteSet(Owing') /\ Cardinality(Owing') <= Cardinality(Owing)
        /\ Cardinality(Owing) \in Nat /\ Cardinality(Owing') \in Nat
    BY <1>0, OwingFalls DEF RefundInv
  <1>2. booked' + Cardinality(Owing') <= returned' BY <1>0, <1>1 DEF RefundInv
  <1>3. /\ \A e \in events' : EventBacked(e, returned')
        /\ \A v \in Workers : Backed(work'[v], returned')
    BY BackingMoves
  <1> QED BY <1>1, <1>2, <1>3 DEF RefundInv

\* The handler goes to a place that promises nothing of the refunds.
Moves(w) == \E h \in Handlers : work' = [work EXCEPT ![w] = h] /\ h.pc \in Neutral

LEMMA GoOnMoves ==
    ASSUME WorkType, NEW w \in Workers, NEW pc \in Neutral, work' = [work EXCEPT ![w].pc = pc]
    PROVE  Moves(w)
  <1>1. [work[w] EXCEPT !.pc = pc] \in Handlers BY HandlerType DEF Neutral
  <1>2. work' = [work EXCEPT ![w] = [work[w] EXCEPT !.pc = pc]] OBVIOUS
  <1>3. [work[w] EXCEPT !.pc = pc].pc = pc BY HandlerType DEF Handlers
  <1> QED BY <1>1, <1>2, <1>3 DEF Moves

LEMMA FinishMoves ==
    ASSUME NEW w \in Workers, NEW more, FinishWith(w, more)
    PROVE  Moves(w)
  <1>1. Idle.pc = "idle" BY DEF Idle, At
  <1> QED BY <1>1, EventType DEF FinishWith, Moves, Neutral, Places

LEMMA ToChargeMoves ==
    ASSUME WorkType, NEW w \in Workers, NEW seen \in PaymentStatuses, ToCharge(w, seen)
    PROVE  Moves(w) /\ events' \subseteq events
  <1>1. CASE seen \in Closed
    BY <1>1, FinishMoves DEF ToCharge, Finish, FinishWith
  <1>2. CASE seen \notin Closed
    <2>1. [work[w] EXCEPT !.pc = "charge", !.seen = seen] \in Handlers
      BY HandlerType DEF Places
    <2>2. work' = [work EXCEPT ![w] = [work[w] EXCEPT !.pc = "charge", !.seen = seen]]
      BY <1>2 DEF ToCharge
    <2>3. [work[w] EXCEPT !.pc = "charge", !.seen = seen].pc = "charge"
      BY HandlerType DEF Handlers
    <2> QED BY <1>2, <2>1, <2>2, <2>3 DEF Moves, ToCharge, Neutral, Places
  <1> QED BY <1>1, <1>2

LEMMA QuietHolds ==
    ASSUME TypeOK, TypeOK', RefundInv, NEW w \in Workers, Moves(w),
           returned' = returned, booked' = booked, pay' = "REFUNDED" => returned = Total,
           \A e \in events' : e \in events \/ e.type # "refunded"
    PROVE  RefundInv'
  <1>1. PICK h \in Handlers : work' = [work EXCEPT ![w] = h] /\ h.pc \in Neutral BY DEF Moves
  <1>2. h.pc # "book" /\ Backed(h, returned') BY <1>1 DEF Backed, Neutral
  <1>3. \A e \in events' : e \in events \/ EventBacked(e, returned') BY DEF EventBacked
  <1>4. returned <= returned' BY TotalAssumption DEF TypeOK
  <1> QED BY <1>1, <1>2, <1>3, <1>4, MoveQuiet

LEMMA CaptureBacked == ASSUME TypeOK, TypeOK', RefundInv, NEW w \in Workers, CaptureStep(w)
                       PROVE  RefundInv'
  <1>0. WorkType /\ (pay = "REFUNDED" => returned = Total) BY TypeParts DEF RefundInv
  <1>1. returned' = returned /\ booked' = booked /\ (pay' = "REFUNDED" => pay = "REFUNDED")
    BY DEF CaptureStep, CaptureRead, CaptureLookup, Charge, ChargedRow, ChargedOrder,
           stripe, rows
  <1>2. Event("succeeded").type # "refunded" BY DEF Event
  <1>3. Moves(w) /\ \A e \in events' : e \in events \/ e.type # "refunded"
    <2>1. ASSUME CaptureRead(w) PROVE Moves(w) /\ events' \subseteq events
      <3>1. CASE linked
        <4>1. pay \in PaymentStatuses BY DEF TypeOK
        <4> QED BY <1>0, <2>1, <3>1, <4>1, ToChargeMoves DEF CaptureRead
      <3>2. CASE ~linked
        <4>1. [work[w] EXCEPT !.pc = "lookup", !.seen = pay] \in Handlers
          BY <1>0, HandlerType DEF Places, TypeOK
        <4>2. work' = [work EXCEPT ![w] = [work[w] EXCEPT !.pc = "lookup", !.seen = pay]]
          BY <2>1, <3>2 DEF CaptureRead
        <4>3. [work[w] EXCEPT !.pc = "lookup", !.seen = pay].pc = "lookup"
          BY <1>0, HandlerType DEF Handlers
        <4> QED BY <2>1, <3>2, <4>1, <4>2, <4>3 DEF Moves, CaptureRead, Neutral, Places
      <3> QED BY <3>1, <3>2
    <2>2. ASSUME CaptureLookup(w) PROVE Moves(w) /\ events' \subseteq events
      <3>1. work[w].seen \in PaymentStatuses BY <1>0, HandlerType
      <3>2. ToCharge(w, work[w].seen) \/ FinishWith(w, {}) BY <2>2 DEF CaptureLookup, Finish
      <3> QED BY <1>0, <3>1, <3>2, ToChargeMoves, FinishMoves DEF FinishWith
    <2>3. ASSUME Charge(w) PROVE Moves(w) /\ events' \subseteq events \union {Event("succeeded")}
      BY <1>0, <2>3, GoOnMoves, FinishMoves DEF Charge, Finish, FinishWith, Neutral, Places
    <2>4. ASSUME ChargedRow(w) PROVE Moves(w) /\ events' \subseteq events
      BY <1>0, <2>4, GoOnMoves, FinishMoves DEF ChargedRow, GoOn, Finish, FinishWith, Neutral, Places
    <2>5. ASSUME ChargedOrder(w) PROVE Moves(w) /\ events' \subseteq events
      BY <1>0, <2>5, FinishMoves DEF ChargedOrder, Finish, FinishWith
    <2> QED BY <1>2, <2>1, <2>2, <2>3, <2>4, <2>5 DEF CaptureStep
  <1> QED BY <1>0, <1>1, <1>3, QuietHolds

LEMMA WebhookBacked == ASSUME TypeOK, TypeOK', RefundInv, NEW w \in Workers, WebhookStep(w)
                       PROVE  RefundInv'
  <1>0. WorkType /\ (pay = "REFUNDED" => returned = Total) BY TypeParts DEF RefundInv
  <1>1. returned' = returned /\ booked' = booked
    BY DEF WebhookStep, Find, Confirm, Land, Ledger, Authorise, Announce, MarkCancelled,
           PaymentFailed, MarkRefunded, Poll, stripe, rows
  <1>2. pay' = "REFUNDED" => returned = Total
    <2>1. CASE MarkRefunded(w)
      <3>1. work[w].ev.amount <= returned BY <2>1 DEF MarkRefunded, RefundInv, Backed
      <3>2. work[w].ev.amount \in Nat /\ returned \in Nat /\ returned <= Total
        <4>1. work[w].ev.amount \in 0 .. Total BY <1>0, HandlerType
        <4>2. returned \in 0 .. Total BY DEF TypeOK
        <4> QED BY <4>1, <4>2, TotalAssumption
      <3>3. work[w].ev.amount >= Total => returned = Total BY <3>1, <3>2, TotalAssumption
      <3> QED BY <1>0, <2>1, <3>3 DEF MarkRefunded
    <2>2. CASE ~MarkRefunded(w)
      BY <1>0, <2>2 DEF WebhookStep, Find, Confirm, Land, Ledger, Authorise, Announce,
         MarkCancelled, PaymentFailed, Poll, rows
    <2> QED BY <2>1, <2>2
  <1>3. Moves(w) /\ events' \subseteq events
    <2>1. ASSUME NEW pc \in Neutral, GoOn(w, pc) PROVE Moves(w) /\ events' \subseteq events
      BY <1>0, <2>1, GoOnMoves DEF GoOn
    <2>2. ASSUME Finish(w) PROVE Moves(w) /\ events' \subseteq events
      BY <2>2, FinishMoves DEF Finish, FinishWith
    <2>3. CASE Find(w) BY <2>1, <2>3 DEF Find, Neutral, Places
    <2>4. CASE Confirm(w) \/ Land(w) \/ Authorise(w)
      BY <2>1, <2>2, <2>4 DEF Confirm, Land, Authorise, Neutral, Places
    <2>5. CASE Announce(w) BY <2>1, <2>2, <2>5 DEF Announce, Neutral, Places
    <2>6. CASE Ledger(w) \/ MarkCancelled(w) \/ PaymentFailed(w) \/ MarkRefunded(w)
      BY <2>2, <2>6 DEF Ledger, MarkCancelled, PaymentFailed, MarkRefunded
    <2>7. CASE Poll(w)
      <3>1. \/ GoOn(w, "capturable") \/ GoOn(w, "confirm") \/ GoOn(w, "canceled") \/ Finish(w)
        BY <2>7 DEF Poll
      <3> QED BY <2>1, <2>2, <3>1 DEF Neutral, Places, EventTypes
    <2> QED BY <2>3, <2>4, <2>5, <2>6, <2>7 DEF WebhookStep
  <1> QED BY <1>0, <1>1, <1>2, <1>3, QuietHolds

LEMMA RefundBacked == ASSUME TypeOK, TypeOK', RefundInv, NEW w \in Workers, RefundStep(w)
                      PROVE  RefundInv'
  <1>0. WorkType /\ (pay = "REFUNDED" => returned = Total) BY TypeParts DEF RefundInv
  <1>1. CASE Return(w) /\ returned' # returned
    <2>1. /\ returned' = Total /\ returned <= returned' /\ booked' = booked
          /\ pay' = pay
      BY <1>1, TotalAssumption DEF Return, rows, TypeOK
    <2>2. EventBacked(RefundedEvent(Total), returned')
      BY <2>1, TotalAssumption DEF EventBacked, RefundedEvent
    <2>3. \A e \in events' : e \in events \/ EventBacked(e, returned')
      BY <1>1, <2>2 DEF Return, FinishWith
    <2>4. CASE work' = [work EXCEPT ![w].pc = "returnedRow"]
      <3>1. [work[w] EXCEPT !.pc = "returnedRow"].pc = "returnedRow"
        BY <1>0, HandlerType DEF Handlers
      <3>2. Backed([work[w] EXCEPT !.pc = "returnedRow"], returned') BY <2>1, <3>1 DEF Backed
      <3>3. work' = [work EXCEPT ![w] = [work[w] EXCEPT !.pc = "returnedRow"]] BY <2>4
      <3> QED BY <2>1, <2>3, <3>1, <3>2, <3>3, MoveQuiet
    <2>5. CASE work' = [work EXCEPT ![w] = Idle]
      <3>1. Idle.pc = "idle" BY DEF Idle, At
      <3>2. Backed(Idle, returned') BY <3>1 DEF Backed
      <3> QED BY <2>1, <2>3, <2>5, <3>1, <3>2, MoveQuiet
    <2> QED BY <1>1, <2>4, <2>5 DEF Return, FinishWith, Finish
  <1>2. CASE ~(Return(w) /\ returned' # returned)
    <2>1. returned' = returned /\ booked' = booked
      BY <1>2 DEF RefundStep, RefundRead, Ask, Return, ReturnedRow, ReturnedOrder, Release,
         Void, stripe, rows
    <2>2. pay' = "REFUNDED" => returned = Total
      <3>1. CASE ReturnedRow(w)
        BY <3>1 DEF ReturnedRow, RefundInv, Backed
      <3>2. CASE ~ReturnedRow(w)
        BY <1>0, <3>2 DEF RefundStep, RefundRead, Ask, Return, ReturnedOrder, Release, Void, rows
      <3> QED BY <3>1, <3>2
    <2>3. Moves(w) /\ \A e \in events' : e \in events \/ e.type # "refunded"
      <3>1. ASSUME NEW pc \in Neutral, GoOn(w, pc)
            PROVE  Moves(w) /\ \A e \in events' : e \in events \/ e.type # "refunded"
        BY <1>0, <3>1, GoOnMoves DEF GoOn
      <3>2. ASSUME Finish(w)
            PROVE  Moves(w) /\ \A e \in events' : e \in events \/ e.type # "refunded"
        BY <3>2, FinishMoves DEF Finish, FinishWith
      <3>3. CASE RefundRead(w) BY <3>1, <3>2, <3>3 DEF RefundRead, Neutral, Places
      <3>4. CASE Ask(w) BY <3>1, <3>2, <3>4 DEF Ask, Neutral, Places
      <3>5. CASE Return(w)
        <4>1. Finish(w) BY <1>2, <3>5, TotalAssumption DEF Return
        <4> QED BY <3>2, <4>1
      <3>6. CASE ReturnedRow(w) BY <3>1, <3>2, <3>6 DEF ReturnedRow, Neutral, Places
      <3>7. CASE ReturnedOrder(w) BY <3>2, <3>7 DEF ReturnedOrder
      <3>8. CASE Release(w) BY <3>1, <3>2, <3>8 DEF Release, Neutral, Places
      <3>9. CASE Void(w)
        <4>1. Event("canceled").type # "refunded" BY DEF Event
        <4>2. FinishWith(w, {Event("canceled")}) \/ Finish(w) BY <3>9 DEF Void
        <4> QED BY <3>2, <4>1, <4>2, FinishMoves DEF FinishWith
      <3> QED BY <3>3, <3>4, <3>5, <3>6, <3>7, <3>8, <3>9 DEF RefundStep
    <2> QED BY <2>1, <2>2, <2>3, QuietHolds
  <1> QED BY <1>1, <1>2

LEMMA OutsideBacked ==
    ASSUME TypeOK, RefundInv,
           \/ Pays \/ Declined \/ HoldExpires
           \/ \E e \in events : EventLost(e)
           \/ \E to \in Stages : UpdateStatus(to)
    PROVE  RefundInv'
  <1>1. /\ work' = work /\ returned' = returned /\ booked' = booked /\ pay' = pay
        /\ \A e \in events' : e \in events \/ e.type # "refunded"
    BY DEF Pays, Declined, HoldExpires, EventLost, UpdateStatus, stripe, rows, Event
  <1>2. Owing' = Owing BY <1>1 DEF Owing
  <1>3. \A e \in events' : EventBacked(e, returned') BY <1>1 DEF RefundInv, EventBacked
  <1>4. \A w \in Workers : Backed(work'[w], returned') BY <1>1 DEF RefundInv
  <1> QED BY <1>1, <1>2, <1>3, <1>4 DEF RefundInv

LEMMA StartBacked ==
    ASSUME TypeOK, TypeOK', RefundInv, NEW w \in Workers,
           \/ \E call \in spawned : StartSpawned(w, call)
           \/ \E e \in events : Deliver(w, e)
           \/ StartPoll(w) \/ Crash(w)
           \/ \E amount \in 1 .. Total : StartPart(w, amount)
    PROVE  RefundInv'
  <1>1. /\ returned' = returned /\ booked' = booked /\ pay' = pay /\ events' \subseteq events
    BY DEF StartSpawned, Deliver, StartPoll, Crash, StartPart, stripe, rows
  <1>2. returned \in Nat /\ returned' <= returned' /\ booked \in Nat
    BY <1>1, TotalAssumption DEF TypeOK
  <1>3. ASSUME NEW h, work' = [work EXCEPT ![w] = h], h.pc # "book", Backed(h, returned)
        PROVE  RefundInv'
    BY <1>1, <1>2, <1>3, MoveQuiet DEF RefundInv
  <1>4. ASSUME NEW call \in spawned, StartSpawned(w, call) PROVE RefundInv'
    <2>1. At(call, NoEvent).pc \in {"capture", "refund"} BY DEF TypeOK, At
    <2> QED BY <1>3, <1>4, <2>1 DEF StartSpawned, Backed
  <1>5. ASSUME NEW e \in events, Deliver(w, e) PROVE RefundInv'
    <2>1. At(e.type, e).pc = e.type /\ At(e.type, e).ev = e BY DEF At
    <2>2. e.type \in EventTypes BY DEF TypeOK
    <2>3. EventBacked(e, returned) BY DEF RefundInv
    <2>4. e.type \notin {"book", "part", "returnedRow"} BY <2>2 DEF EventTypes
    <2>5. Backed(At(e.type, e), returned) BY <2>1, <2>3, <2>4 DEF Backed, EventBacked
    <2> QED BY <1>3, <1>5, <2>1, <2>4, <2>5 DEF Deliver
  <1>6. ASSUME StartPoll(w) PROVE RefundInv'
    <2>1. At("poll", NoEvent).pc = "poll" BY DEF At
    <2> QED BY <1>3, <1>6, <2>1 DEF StartPoll, Backed
  <1>7. ASSUME Crash(w) PROVE RefundInv'
    <2>1. Idle.pc = "idle" BY DEF Idle, At
    <2> QED BY <1>3, <1>7, <2>1 DEF Crash, Backed
  <1>8. ASSUME NEW amount \in 1 .. Total, StartPart(w, amount) PROVE RefundInv'
    <2> DEFINE h == [At("part", NoEvent) EXCEPT !.amount = amount, !.base = booked]
    <2>1. h.pc = "part" /\ h.base = booked BY DEF At
    <2>2. Cardinality(Owing) \in Nat BY FS_CardinalityType DEF RefundInv
    <2>3. booked <= returned BY <1>2, <2>2 DEF RefundInv
    <2>4. Backed(h, returned) BY <2>1, <2>3 DEF Backed
    <2>5. work' = [work EXCEPT ![w] = h] BY <1>8 DEF StartPart
    <2> QED BY <1>3, <2>1, <2>4, <2>5
  <1> QED BY <1>4, <1>5, <1>6, <1>7, <1>8

\* The refund of a part: Stripe moves the money, then it is booked.
LEMMA PartBacked == ASSUME TypeOK, TypeOK', RefundInv, NEW w \in Workers, Part(w)
                    PROVE  RefundInv'
  <1>0. /\ WorkType /\ (pay = "REFUNDED" => returned = Total)
        /\ returned \in Nat /\ returned <= Total /\ booked \in Nat /\ Total \in Nat
        /\ booked' = booked /\ pay' = pay
    BY TypeParts, TotalAssumption DEF RefundInv, Part, rows, TypeOK
  <1>1. /\ work[w] \in Handlers /\ work[w].amount \in 0 .. Total
        /\ work[w].amount \in Nat /\ work[w].base \in Nat
        /\ work[w].pc = "part" /\ work[w].base <= returned
    BY <1>0, HandlerType DEF Part, RefundInv, Backed
  <1> DEFINE sum == returned + work[w].amount
  <1>2. CASE returned' = sum /\ sum <= Total
    <2>1. returned <= returned' BY <1>0, <1>1, <1>2
    <2>2. pay' = "REFUNDED" => returned' = Total BY <1>0, <1>1, <1>2
    <2>3. EventBacked(RefundedEvent(sum), returned')
      BY <1>0, <1>1, <1>2 DEF EventBacked, RefundedEvent
    <2>4. CASE events' = events \union {RefundedEvent(sum)} /\ work' = [work EXCEPT ![w].pc = "book"]
      <3> DEFINE h == [work[w] EXCEPT !.pc = "book"]
      <3>1. h.pc = "book" /\ h.base = work[w].base /\ h.amount = work[w].amount
        BY <1>1 DEF Handlers
      <3>2. work' = [work EXCEPT ![w] = h] BY <2>4
      <3>3. Backed(h, returned') BY <1>0, <1>1, <1>2, <3>1 DEF Backed
      <3>4. \A e \in events' : e \in events \/ EventBacked(e, returned') BY <2>3, <2>4
      <3> HIDE DEF h
      <3>5. /\ \A e \in events' : EventBacked(e, returned')
            /\ \A v \in Workers : Backed(work'[v], returned')
        BY <2>1, <3>2, <3>3, <3>4, BackingMoves
      <3>6. Owing' = Owing \union ({w} \X (1 .. work[w].amount))
        <4>1. work'[w] = h /\ \A v \in Workers \ {w} : work'[v] = work[v]
          BY <1>0, <3>2 DEF WorkType
        <4>2. \A u : u \in Owing' <=>
                 u \in Workers \X (1 .. Total) /\ work'[u[1]].pc = "book" /\ u[2] <= work'[u[1]].amount
          BY DEF Owing
        <4>3. ASSUME NEW u \in Owing' PROVE u \in Owing \union ({w} \X (1 .. work[w].amount))
          <5>1. CASE u[1] = w
            <6>1. u[2] \in 1 .. work[w].amount /\ u = <<u[1], u[2]>>
              BY <1>1, <3>1, <4>1, <4>2, <5>1
            <6> QED BY <5>1, <6>1
          <5>2. CASE u[1] # w BY <4>1, <4>2, <5>2 DEF Owing
          <5> QED BY <5>1, <5>2
        <4>4. ASSUME NEW u \in Owing PROVE u \in Owing'
          <5>1. u \in Workers \X (1 .. Total) /\ work[u[1]].pc = "book" BY DEF Owing
          <5>2. u[1] # w BY <1>1, <5>1
          <5>3. u[1] \in Workers BY <5>1
          <5>4. work'[u[1]] = work[u[1]] BY <4>1, <5>2, <5>3
          <5> QED BY <4>2, <5>4 DEF Owing
        <4>5. ASSUME NEW u \in {w} \X (1 .. work[w].amount) PROVE u \in Owing'
          <5>1. u[1] = w /\ u[2] \in 1 .. work[w].amount /\ u = <<u[1], u[2]>> OBVIOUS
          <5>2. u[2] \in 1 .. Total /\ u[2] <= work[w].amount BY <1>0, <1>1, <5>1
          <5>3. u \in Workers \X (1 .. Total) BY <5>1, <5>2
          <5> QED BY <3>1, <4>1, <4>2, <5>1, <5>2, <5>3
        <4> QED BY <4>3, <4>4, <4>5
      <3>7. \A u \in Owing : u[1] # w BY <1>1 DEF Owing
      <3>8. IsFiniteSet(Owing) /\ Cardinality(Owing) \in Nat
        BY FS_CardinalityType DEF RefundInv
      <3>9. IsFiniteSet(Owing') /\ Cardinality(Owing') = Cardinality(Owing) + work[w].amount
        BY <1>1, <3>6, <3>7, <3>8, UnitsAdd
      <3>10. booked' + Cardinality(Owing') <= returned'
        BY <1>0, <1>1, <1>2, <3>8, <3>9 DEF RefundInv
      <3> QED BY <2>2, <3>5, <3>9, <3>10 DEF RefundInv
    <2>5. CASE FinishWith(w, {RefundedEvent(sum)})
      <3>1. Idle.pc = "idle" BY DEF Idle, At
      <3>2. Backed(Idle, returned') BY <3>1 DEF Backed
      <3>3. \A e \in events' : e \in events \/ EventBacked(e, returned')
        BY <2>3, <2>5 DEF FinishWith
      <3>4. work' = [work EXCEPT ![w] = Idle] BY <2>5 DEF FinishWith
      <3> QED BY <1>0, <2>1, <2>2, <3>1, <3>2, <3>3, <3>4, MoveQuiet
    <2>6. CASE Finish(w) /\ returned' = returned
      <3>1. Moves(w) /\ \A e \in events' : e \in events BY <2>6, FinishMoves DEF Finish, FinishWith
      <3> QED BY <1>0, <2>6, <3>1, QuietHolds
    <2> QED BY <1>2, <2>4, <2>5, <2>6 DEF Part
  <1>3. CASE Finish(w) /\ returned' = returned
    <2>1. Moves(w) /\ \A e \in events' : e \in events BY <1>3, FinishMoves DEF Finish, FinishWith
    <2> QED BY <1>0, <1>3, <2>1, QuietHolds
  <1> QED BY <1>2, <1>3 DEF Part

LEMMA BookBacked == ASSUME TypeOK, TypeOK', RefundInv, NEW w \in Workers, Book(w)
                    PROVE  RefundInv'
  <1>0. /\ WorkType /\ (pay = "REFUNDED" => returned = Total)
        /\ returned \in Nat /\ returned <= Total /\ booked \in Nat /\ Total \in Nat
        /\ returned' = returned
    BY TypeParts, TotalAssumption DEF RefundInv, Book, stripe, TypeOK
  <1>1. /\ work[w] \in Handlers /\ work[w].amount \in 0 .. Total
        /\ work[w].amount \in Nat /\ work[w].base \in Nat
        /\ work[w].pc = "book" /\ work[w].base + work[w].amount <= returned
    BY <1>0, HandlerType DEF Book, RefundInv, Backed
  <1>2. Finish(w) /\ work' = [work EXCEPT ![w] = Idle] /\ events' \subseteq events
    BY DEF Book, Finish, FinishWith
  <1>3. pay' = "REFUNDED" => returned = Total
    <2>1. work[w].amount >= Total - work[w].base => returned = Total BY <1>0, <1>1
    <2> QED BY <1>0, <2>1 DEF Book
  <1>4. CASE booked' = booked
    <2>1. Moves(w) /\ \A e \in events' : e \in events BY <1>2, FinishMoves DEF Finish
    <2> QED BY <1>0, <1>3, <1>4, <2>1, QuietHolds
  <1>5. CASE booked' = booked + work[w].amount
    <2> DEFINE U == {w} \X (1 .. work[w].amount)
    <2>1. Idle.pc = "idle" BY DEF Idle, At
    <2>2. Backed(Idle, returned') BY <2>1 DEF Backed
    <2>3. /\ \A e \in events' : EventBacked(e, returned')
          /\ \A v \in Workers : Backed(work'[v], returned')
      <3>1. returned <= returned' BY <1>0
      <3>2. \A e \in events' : e \in events BY <1>2
      <3> QED BY <1>2, <2>2, <3>1, <3>2, BackingMoves
    <2>4. /\ IsFiniteSet(Owing') /\ Cardinality(Owing') \in Nat
      BY <1>0, <1>2, <2>1, OwingFalls DEF RefundInv
    <2>5. Owing = Owing' \union U /\ \A u \in Owing' : u[1] # w
      <3>1. work'[w] = Idle /\ \A v \in Workers \ {w} : work'[v] = work[v]
        BY <1>0, <1>2 DEF WorkType
      <3>2. \A u : u \in Owing' <=>
               u \in Workers \X (1 .. Total) /\ work'[u[1]].pc = "book" /\ u[2] <= work'[u[1]].amount
        BY DEF Owing
      <3>3. \A u \in Owing' : u[1] # w BY <2>1, <3>1, <3>2
      <3>4. ASSUME NEW u \in Owing PROVE u \in Owing' \union U
        <4>1. u \in Workers \X (1 .. Total) /\ work[u[1]].pc = "book" /\ u[2] <= work[u[1]].amount
          BY DEF Owing
        <4>2. CASE u[1] = w
          <5>1. u = <<u[1], u[2]>> /\ u[2] \in 1 .. work[w].amount BY <1>1, <4>1, <4>2
          <5> QED BY <4>2, <5>1
        <4>3. CASE u[1] # w
          <5>1. u[1] \in Workers BY <4>1
          <5>2. work'[u[1]] = work[u[1]] BY <3>1, <4>3, <5>1
          <5> QED BY <3>2, <4>1, <5>2
        <4> QED BY <4>2, <4>3
      <3>5. ASSUME NEW u \in Owing' PROVE u \in Owing
        <4>1. u \in Workers \X (1 .. Total) BY <3>2
        <4>2. u[1] \in Workers /\ u[1] # w BY <3>3, <4>1
        <4>3. work'[u[1]] = work[u[1]] BY <3>1, <4>2
        <4> QED BY <3>2, <4>3 DEF Owing
      <3>6. ASSUME NEW u \in U PROVE u \in Owing
        <4>1. u[1] = w /\ u[2] \in 1 .. work[w].amount /\ u = <<u[1], u[2]>> OBVIOUS
        <4>2. u[2] \in 1 .. Total /\ u[2] <= work[w].amount BY <1>0, <1>1, <4>1
        <4>3. u \in Workers \X (1 .. Total) BY <4>1, <4>2
        <4> QED BY <1>1, <4>1, <4>2, <4>3 DEF Owing
      <3> QED BY <3>3, <3>4, <3>5, <3>6
    <2> HIDE DEF U
    <2>6. Cardinality(Owing) = Cardinality(Owing') + work[w].amount
      BY <1>1, <2>4, <2>5, UnitsAdd DEF U
    <2>7. booked' + Cardinality(Owing') <= returned'
      BY <1>0, <1>1, <1>5, <2>4, <2>6 DEF RefundInv
    <2> QED BY <1>0, <1>3, <2>3, <2>4, <2>7 DEF RefundInv
  <1> QED BY <1>4, <1>5 DEF Book

LEMMA RefundInvStep == ASSUME TypeOK, TypeOK', RefundInv, [Next]_vars PROVE RefundInv'
  <1>1. CASE Next
    <2>1. ASSUME NEW w \in Workers, Step(w) PROVE RefundInv'
      BY <2>1, CaptureBacked, RefundBacked, PartBacked, BookBacked, WebhookBacked
      DEF Step, PartStep
    <2> QED BY <1>1, <2>1, NextStep, OutsideBacked, StartBacked
  <1>2. CASE UNCHANGED vars
    BY <1>2 DEF vars, stripe, rows, RefundInv, Owing
  <1> QED BY <1>1, <1>2

LEMMA RefundInvInit == ASSUME Init PROVE RefundInv
  <1>1. \A w \in Workers : work[w].pc = "idle" BY DEF Init, Idle, At
  <1>2. Owing = {} BY <1>1 DEF Owing
  <1>3. IsFiniteSet(Owing) /\ Cardinality(Owing) = 0 BY <1>2, FS_EmptySet
  <1>4. \A w \in Workers : Backed(work[w], returned) BY <1>1 DEF Backed
  <1> QED BY <1>3, <1>4 DEF Init, RefundInv

\* The refund bookkeeping invariant, from which the next two follow.
THEOREM RefundInvCorrect == Spec => []RefundInv
  <1>1. TypeOK /\ RefundInv /\ [Next]_vars => RefundInv' BY TypeStep, RefundInvStep
  <1> QED BY <1>1, RefundInvInit, CardTypeCorrect, PTL DEF Spec

\* A payment counts as refunded only when Stripe returned all of it, however
\* many refunds of parts, cancellations and webhooks run into each other.
THEOREM ReturnedCorrect == Spec => []RefundedMeansReturned
  <1>1. RefundInv => RefundedMeansReturned BY DEF RefundInv, RefundedMeansReturned
  <1> QED BY <1>1, RefundInvCorrect, PTL

LEMMA BookedBound == ASSUME TypeOK, RefundInv PROVE BookedMeansMoved
  <1>1. booked \in Nat /\ returned \in Nat BY TotalAssumption DEF TypeOK
  <1>2. Cardinality(Owing) \in Nat BY FS_CardinalityType DEF RefundInv
  <1> QED BY <1>1, <1>2 DEF RefundInv, BookedMeansMoved

\* The Refund rows never add up to more than Stripe moved, for any number of
\* refunds under way at once and whichever of their steps fail.
THEOREM BookedCorrect == Spec => []BookedMeansMoved
  BY BookedBound, RefundInvCorrect, CardTypeCorrect, PTL
-----------------------------------------------------------------------------
(* Held money of an accepted order: why it cannot be forgotten.  AcceptedIs-  *)
(* Captured says that it is taken in the end; what that rests on is that at   *)
(* any moment somebody still has the capture before him: a call that was      *)
(* spawned, an event on its way, or a handler on the path to the charge.      *)

CapturePath == {"capturable", "authorise", "announce", "capture", "lookup", "charge"}
Trail == CapturePath \union {"chargedRow", "chargedOrder"}

\* The stages of a delivery markAuthorized does not take for accepted.
Skipped == Statuses \ ({"PENDING"} \union Cancellation \union AcceptedStates)

\* The statuses in which held money is waited for: while the shop prepares the
\* order, and up to the end of one that never goes through the skipped stages.
Awaited ==
    {"ACCEPTED", "PREPARING", "READY"}
        \union {s \in AcceptedStates : Stages \intersect Skipped = {}}

\* Nobody died or failed, nothing was lost; holds may expire, events be doubled.
Quiet == faults.kinds \intersect {"crash", "stripe", "lost", "db"} = {}

OnTheWay ==
    \/ "capture" \in spawned
    \/ Event("capturable") \in events
    \/ \E w \in Workers : work[w].pc \in CapturePath

CaptureIsUnderWay == pi = "requires_capture" /\ order \in Awaited /\ Quiet => OnTheWay

\* What a handler has read as finished is finished at Stripe; and one that was
\* told of the authorisation keeps to the trail.
SeenAtStripe == \A w \in Workers : work[w].seen \in Closed => pi \in {"succeeded", "canceled"}
KeepsToTrail == \A w \in Workers : work[w].ev.type = "capturable" => work[w].pc \in Trail

CaptureInv ==
    /\ returned > 0 => pi = "succeeded"
    /\ Stages \intersect Skipped = {} => order \notin Skipped
    /\ SeenAtStripe
    /\ KeepsToTrail
    /\ CaptureIsUnderWay

\* Where the handler goes, what it keeps, and the only event it takes away.
Onward(w, S) ==
    \E h \in Handlers :
        /\ work' = [work EXCEPT ![w] = h]
        /\ h = Idle \/ (h.ev = work[w].ev /\ h.pc \in S /\ h.seen \in {work[w].seen, pay})
        /\ events \ {work[w].ev} \subseteq events'

LEMMA MoveOnward ==
    ASSUME NEW w \in Workers, NEW S, NEW h \in Handlers, h.ev = work[w].ev, h.pc \in S,
           h.seen \in {work[w].seen, pay},
           work' = [work EXCEPT ![w] = h], events \subseteq events'
    PROVE  Onward(w, S)
  BY DEF Onward

LEMMA GoOnOnward ==
    ASSUME WorkType, NEW w \in Workers, NEW S, NEW pc \in Places, pc \in S,
           work' = [work EXCEPT ![w].pc = pc], events \subseteq events'
    PROVE  Onward(w, S)
  <1>1. [work[w] EXCEPT !.pc = pc] \in Handlers BY HandlerType
  <1>2. work' = [work EXCEPT ![w] = [work[w] EXCEPT !.pc = pc]] OBVIOUS
  <1>3. /\ [work[w] EXCEPT !.pc = pc].pc = pc
        /\ [work[w] EXCEPT !.pc = pc].ev = work[w].ev
        /\ [work[w] EXCEPT !.pc = pc].seen = work[w].seen
    BY HandlerType DEF Handlers
  <1> QED BY <1>1, <1>2, <1>3 DEF Onward

LEMMA FinishOnward ==
    ASSUME NEW w \in Workers, NEW S, NEW more, FinishWith(w, more)
    PROVE  Onward(w, S)
  BY EventType DEF FinishWith, Onward

LEMMA ToChargeOnward ==
    ASSUME WorkType, NEW w \in Workers, NEW S, "charge" \in S,
           NEW seen \in PaymentStatuses, seen \in {work[w].seen, pay}, ToCharge(w, seen)
    PROVE  Onward(w, S)
  <1>1. CASE seen \in Closed BY <1>1, FinishOnward DEF ToCharge, Finish
  <1>2. CASE seen \notin Closed
    <2>1. [work[w] EXCEPT !.pc = "charge", !.seen = seen] \in Handlers
      BY HandlerType DEF Places
    <2>2. work' = [work EXCEPT ![w] = [work[w] EXCEPT !.pc = "charge", !.seen = seen]]
      BY <1>2 DEF ToCharge
    <2>3. /\ [work[w] EXCEPT !.pc = "charge", !.seen = seen].pc = "charge"
          /\ [work[w] EXCEPT !.pc = "charge", !.seen = seen].ev = work[w].ev
          /\ [work[w] EXCEPT !.pc = "charge", !.seen = seen].seen = seen
      BY HandlerType DEF Handlers
    <2> QED BY <1>2, <2>1, <2>2, <2>3 DEF ToCharge, Onward
  <1> QED BY <1>1, <1>2

\* A handler on the trail stays on it to its end.
Course(w) == IF work[w].pc \in Trail THEN Trail ELSE Places

LEMMA CaptureOnward ==
    ASSUME TypeOK, NEW w \in Workers, CaptureStep(w)
    PROVE  Onward(w, Course(w))
  <1> USE DEF Course, Trail, CapturePath, Places
  <1>0. WorkType /\ pay \in PaymentStatuses BY TypeParts DEF MoneyType
  <1>1. CASE CaptureRead(w)
    <2>1. CASE linked BY <1>0, <1>1, <2>1, ToChargeOnward DEF CaptureRead
    <2>2. CASE ~linked
      <3>1. work' = [work EXCEPT ![w] = [work[w] EXCEPT !.pc = "lookup", !.seen = pay]]
            /\ events' = events
        BY <1>1, <2>2 DEF CaptureRead
      <3>2. /\ [work[w] EXCEPT !.pc = "lookup", !.seen = pay] \in Handlers
            /\ [work[w] EXCEPT !.pc = "lookup", !.seen = pay].pc = "lookup"
            /\ [work[w] EXCEPT !.pc = "lookup", !.seen = pay].ev = work[w].ev
            /\ [work[w] EXCEPT !.pc = "lookup", !.seen = pay].seen = pay
        BY <1>0, HandlerType DEF Handlers
      <3>3. "lookup" \in Course(w) BY <1>1 DEF CaptureRead
      <3> QED BY <3>1, <3>2, <3>3, MoveOnward
    <2> QED BY <2>1, <2>2
  <1>2. CASE CaptureLookup(w)
    <2>1. work[w].seen \in PaymentStatuses BY <1>0, HandlerType
    <2>2. CASE Finish(w) BY <2>2, FinishOnward DEF Finish
    <2>3. CASE ~Finish(w)
      <3>1. ToCharge(w, work[w].seen) /\ work[w].pc = "lookup" BY <1>2, <2>3 DEF CaptureLookup
      <3> QED BY <1>0, <2>1, <3>1, ToChargeOnward
    <2> QED BY <2>2, <2>3
  <1>3. CASE Charge(w)
    <2>1. \/ work' = [work EXCEPT ![w].pc = "chargedRow"] /\ events \subseteq events'
          \/ FinishWith(w, {Event("succeeded")})
          \/ FinishWith(w, {})
      BY <1>3 DEF Charge, Finish
    <2> QED BY <1>0, <1>3, <2>1, GoOnOnward, FinishOnward DEF Charge
  <1>4. CASE ChargedRow(w)
    BY <1>0, <1>4, GoOnOnward, FinishOnward DEF ChargedRow, GoOn, Finish
  <1>5. CASE ChargedOrder(w)
    BY <1>5, FinishOnward DEF ChargedOrder, Finish
  <1> QED BY <1>1, <1>2, <1>3, <1>4, <1>5 DEF CaptureStep

LEMMA RefundOnward ==
    ASSUME TypeOK, NEW w \in Workers, RefundStep(w) \/ PartStep(w)
    PROVE  Onward(w, Course(w))
  <1> USE DEF Course, Trail, CapturePath, Places
  <1>0. WorkType BY TypeParts
  <1>1. ASSUME NEW pc \in {"return", "ask", "release", "void", "returnedOrder"},
               GoOn(w, pc), work[w].pc \notin Trail
        PROVE  Onward(w, Course(w))
    BY <1>0, <1>1, GoOnOnward DEF GoOn
  <1>2. ASSUME Finish(w) PROVE Onward(w, Course(w)) BY <1>2, FinishOnward DEF Finish
  <1>3. CASE RefundRead(w) BY <1>1, <1>2, <1>3 DEF RefundRead
  <1>4. CASE Ask(w) BY <1>1, <1>2, <1>4 DEF Ask
  <1>5. CASE Return(w)
    <2>1. \/ work' = [work EXCEPT ![w].pc = "returnedRow"] /\ events \subseteq events'
          \/ FinishWith(w, {RefundedEvent(Total)})
          \/ Finish(w)
      BY <1>5 DEF Return
    <2> QED BY <1>0, <1>2, <1>5, <2>1, GoOnOnward, FinishOnward DEF Return
  <1>6. CASE ReturnedRow(w) BY <1>1, <1>2, <1>6 DEF ReturnedRow
  <1>7. CASE ReturnedOrder(w) BY <1>2, <1>7 DEF ReturnedOrder
  <1>8. CASE Release(w) BY <1>1, <1>2, <1>8 DEF Release
  <1>9. CASE Void(w)
    <2>1. FinishWith(w, {Event("canceled")}) \/ Finish(w) BY <1>9 DEF Void
    <2> QED BY <1>2, <2>1, FinishOnward
  <1>10. CASE Part(w)
    <2>1. \/ work' = [work EXCEPT ![w].pc = "book"] /\ events \subseteq events'
          \/ FinishWith(w, {RefundedEvent(returned + work[w].amount)})
          \/ Finish(w)
      BY <1>10 DEF Part
    <2> QED BY <1>0, <1>2, <1>10, <2>1, GoOnOnward, FinishOnward DEF Part
  <1>11. CASE Book(w) BY <1>2, <1>11 DEF Book
  <1> QED BY <1>3, <1>4, <1>5, <1>6, <1>7, <1>8, <1>9, <1>10, <1>11 DEF RefundStep, PartStep

LEMMA WebhookOnward ==
    ASSUME TypeOK, NEW w \in Workers, WebhookStep(w)
    PROVE  Onward(w, Course(w))
  <1> USE DEF Course, Trail, CapturePath
  <1>0. WorkType BY TypeParts
  <1>1. ASSUME NEW pc \in Course(w) \intersect Places, GoOn(w, pc)
        PROVE  Onward(w, Course(w))
    BY <1>0, <1>1, GoOnOnward DEF GoOn
  <1>2. ASSUME Finish(w) PROVE Onward(w, Course(w)) BY <1>2, FinishOnward DEF Finish
  <1>3. CASE Find(w) BY <1>1, <1>3 DEF Find, Places
  <1>4. CASE Confirm(w) BY <1>1, <1>2, <1>4 DEF Confirm, Places
  <1>5. CASE Land(w) BY <1>1, <1>2, <1>5 DEF Land, Places
  <1>6. CASE Ledger(w) BY <1>2, <1>6 DEF Ledger
  <1>7. CASE Authorise(w) BY <1>1, <1>2, <1>7 DEF Authorise, Places
  <1>8. CASE Announce(w) BY <1>1, <1>2, <1>8 DEF Announce, Places
  <1>9. CASE MarkCancelled(w) BY <1>2, <1>9 DEF MarkCancelled
  <1>10. CASE PaymentFailed(w) BY <1>2, <1>10 DEF PaymentFailed
  <1>11. CASE MarkRefunded(w) BY <1>2, <1>11 DEF MarkRefunded
  <1>12. CASE Poll(w) BY <1>1, <1>2, <1>12 DEF Poll, Places, EventTypes
  <1> QED BY <1>3, <1>4, <1>5, <1>6, <1>7, <1>8, <1>9, <1>10, <1>11, <1>12 DEF WebhookStep

LEMMA StepOnward == ASSUME TypeOK, NEW w \in Workers, Step(w) PROVE Onward(w, Course(w))
  BY CaptureOnward, RefundOnward, WebhookOnward DEF Step

\* What no handler's step touches, and which way the charge and the faults go.
LEMMA StepKeeps ==
    ASSUME TypeOK, NEW w \in Workers, Step(w)
    PROVE  /\ order' = order /\ spawned' = spawned
           /\ pi' = pi \/ pi' \in {"succeeded", "canceled"}
           /\ Quiet' => Quiet
  <1>1. \A f : Fault(f) => faults.kinds \subseteq faults'.kinds BY DEF Fault
  <1>2. CASE CaptureStep(w)
    BY <1>1, <1>2 DEF CaptureStep, CaptureRead, CaptureLookup, Charge, ChargedRow, ChargedOrder,
       stripe, rows, placed, Quiet
  <1>3. CASE RefundStep(w)
    BY <1>1, <1>3 DEF RefundStep, RefundRead, Ask, Return, ReturnedRow, ReturnedOrder, Release,
       Void, stripe, rows, placed, Quiet
  <1>4. CASE PartStep(w)
    BY <1>1, <1>4 DEF PartStep, Part, Book, stripe, rows, placed, Quiet
  <1>5. CASE WebhookStep(w)
    BY <1>1, <1>5 DEF WebhookStep, Find, Confirm, Land, Ledger, Authorise, Announce,
       MarkCancelled, PaymentFailed, MarkRefunded, Poll, stripe, rows, placed, Quiet
  <1> QED BY <1>2, <1>3, <1>4, <1>5 DEF Step

\* Only a refund moves money back, and only money that was charged.
LEMMA StepReturns ==
    ASSUME TypeOK, NEW w \in Workers, Step(w), returned > 0 => pi = "succeeded"
    PROVE  returned' > 0 => pi' = "succeeded"
  <1>1. CASE CaptureStep(w)
    BY <1>1 DEF CaptureStep, CaptureRead, CaptureLookup, Charge, ChargedRow, ChargedOrder,
       stripe, rows, placed
  <1>2. CASE RefundStep(w)
    BY <1>2 DEF RefundStep, RefundRead, Ask, Return, ReturnedRow, ReturnedOrder, Release,
       Void, Open, stripe, rows, placed
  <1>3. CASE PartStep(w)
    BY <1>3 DEF PartStep, Part, Book, stripe, rows, placed
  <1>4. CASE WebhookStep(w)
    BY <1>4 DEF WebhookStep, Find, Confirm, Land, Ledger, Authorise, Announce,
       MarkCancelled, PaymentFailed, MarkRefunded, Poll, stripe, rows, placed
  <1> QED BY <1>1, <1>2, <1>3, <1>4 DEF Step

\* A row that reads finished is finished at Stripe.
LEMMA ClosedAtStripe ==
    ASSUME TypeOK, MoneyInv, RefundInv, CaptureInv, pay \in Closed
    PROVE  pi \in {"succeeded", "canceled"}
  <1>1. CASE pay = "REFUNDED"
    <2>1. returned > 0 BY <1>1, TotalAssumption DEF RefundInv
    <2> QED BY <2>1 DEF CaptureInv
  <1>2. CASE pay # "REFUNDED"
    BY <1>2 DEF Closed, MoneyInv, RowsHold, PaidMeansCharged, CancelledMeansReleased
  <1> QED BY <1>1, <1>2

LEMMA GoOnAt ==
    ASSUME WorkType, NEW w \in Workers, NEW pc, work' = [work EXCEPT ![w].pc = pc]
    PROVE  work'[w].pc = pc
  <1>1. work'[w] = [work[w] EXCEPT !.pc = pc] BY DEF WorkType
  <1> QED BY <1>1, HandlerType DEF Handlers

LEMMA ToChargeAt ==
    ASSUME WorkType, NEW w \in Workers, NEW seen, seen \notin Closed, ToCharge(w, seen)
    PROVE  work'[w].pc = "charge"
  <1>1. work'[w] = [work[w] EXCEPT !.pc = "charge", !.seen = seen]
    BY DEF WorkType, ToCharge
  <1> QED BY <1>1, HandlerType DEF Handlers

\* On the path the place says which statement comes next.
LEMMA StepAt ==
    ASSUME NEW w \in Workers, Step(w)
    PROVE  /\ work[w].pc = "capturable" => Find(w)
           /\ work[w].pc = "authorise" => Authorise(w)
           /\ work[w].pc = "announce" => Announce(w)
           /\ work[w].pc = "capture" => CaptureRead(w)
           /\ work[w].pc = "lookup" => CaptureLookup(w)
           /\ work[w].pc = "charge" => Charge(w)
  BY DEF Step, CaptureStep, RefundStep, PartStep, WebhookStep, Find, CaptureRead, CaptureLookup,
     Charge, ChargedRow, ChargedOrder, RefundRead, Ask, Return, ReturnedRow, ReturnedOrder,
     Release, Void, Part, Book, Confirm, Land, Ledger, Authorise, Announce, MarkCancelled,
     PaymentFailed, MarkRefunded, Poll

\* While the money is held and the order waits, the path leads to the charge.
LEMMA PathGoesOn ==
    ASSUME TypeOK, MoneyInv, RefundInv, CaptureInv, NEW w \in Workers, Step(w),
           work[w].pc \in CapturePath, pi' = "requires_capture", order \in Awaited, Quiet'
    PROVE  work'[w].pc \in CapturePath
  <1>0. WorkType BY TypeParts
  <1>1. pi = "requires_capture" /\ Quiet BY StepKeeps
  <1>2. pay \notin Closed BY <1>1, ClosedAtStripe
  <1>3. \A f \in {"crash", "stripe", "lost", "db"} : ~Fault(f) BY DEF Fault, Quiet
  <1>4. CASE work[w].pc = "capturable"
    <2>1. GoOn(w, "authorise") BY <1>4, StepAt DEF Find
    <2> QED BY <1>0, <2>1, GoOnAt DEF GoOn, CapturePath
  <1>5. CASE work[w].pc = "authorise"
    <2>1. Authorise(w) BY <1>5, StepAt
    <2>2. GoOn(w, "announce") BY <1>3, <2>1 DEF Authorise
    <2> QED BY <1>0, <2>2, GoOnAt DEF GoOn, CapturePath
  <1>6. CASE work[w].pc = "announce"
    <2>1. Announce(w) BY <1>6, StepAt
    <2>2. order \in AcceptedStates BY DEF Awaited, AcceptedStates
    <2>3. GoOn(w, "capture") BY <2>1, <2>2 DEF Announce
    <2> QED BY <1>0, <2>3, GoOnAt DEF GoOn, CapturePath
  <1>7. CASE work[w].pc = "capture"
    <2>1. CaptureRead(w) BY <1>7, StepAt
    <2>2. CASE linked BY <1>0, <1>2, <2>1, <2>2, ToChargeAt DEF CaptureRead, CapturePath
    <2>3. CASE ~linked
      <3>1. work'[w] = [work[w] EXCEPT !.pc = "lookup", !.seen = pay]
        BY <1>0, <2>1, <2>3 DEF CaptureRead, WorkType
      <3> QED BY <1>0, <3>1, HandlerType DEF Handlers, CapturePath
    <2> QED BY <2>2, <2>3
  <1>8. CASE work[w].pc = "lookup"
    <2>1. CaptureLookup(w) BY <1>8, StepAt
    <2>2. work[w].seen \notin Closed BY <1>1 DEF CaptureInv, SeenAtStripe
    <2>3. ToCharge(w, work[w].seen) BY <1>1, <1>3, <2>1 DEF CaptureLookup
    <2> QED BY <1>0, <2>2, <2>3, ToChargeAt DEF CapturePath
  <1>9. CASE work[w].pc = "charge"
    <2>1. Charge(w) BY <1>9, StepAt
    <2> QED BY <1>1, <1>3, <2>1 DEF Charge
  <1> QED BY <1>4, <1>5, <1>6, <1>7, <1>8, <1>9 DEF CapturePath

\* A step moves one handler: the others keep what they have before them.
LEMMA OthersStay ==
    ASSUME WorkType, NEW w \in Workers, NEW h, work' = [work EXCEPT ![w] = h]
    PROVE  work'[w] = h /\ \A v \in Workers \ {w} : work'[v] = work[v]
  BY DEF WorkType

LEMMA OnTheWayStep ==
    ASSUME TypeOK, MoneyInv, RefundInv, CaptureInv, NEW w \in Workers, Step(w)
    PROVE  CaptureIsUnderWay'
  <1> SUFFICES ASSUME pi' = "requires_capture", order' \in Awaited, Quiet'
               PROVE  OnTheWay'
    BY DEF CaptureIsUnderWay, Awaited
  <1>0. WorkType BY TypeParts
  <1>1. pi = "requires_capture" /\ order \in Awaited /\ Quiet /\ spawned' = spawned
    BY StepKeeps
  <1>2. PICK h \in Handlers : /\ work' = [work EXCEPT ![w] = h]
                             /\ events \ {work[w].ev} \subseteq events'
    BY StepOnward DEF Onward
  <1>3. CASE work[w].pc \in CapturePath BY <1>1, <1>3, PathGoesOn DEF OnTheWay
  <1>4. CASE work[w].pc \notin CapturePath
    <2>1. work[w].ev # Event("capturable")
      <3>1. SUFFICES ASSUME work[w].ev.type = "capturable" PROVE FALSE BY DEF Event
      <3>2. work[w].pc \in {"chargedRow", "chargedOrder"}
        BY <1>4, <3>1 DEF CaptureInv, KeepsToTrail, Trail
      <3>3. pi = "succeeded" BY <3>2 DEF MoneyInv, HandlersHold, Holds, ChargedTags
      <3> QED BY <1>1, <3>3
    <2>2. Event("capturable") \in events => Event("capturable") \in events' BY <1>2, <2>1
    <2>3. ASSUME NEW v \in Workers, work[v].pc \in CapturePath
          PROVE  work'[v].pc \in CapturePath
      BY <1>0, <1>2, <1>4, <2>3, OthersStay
    <2> QED BY <1>1, <2>2, <2>3 DEF CaptureInv, CaptureIsUnderWay, OnTheWay
  <1> QED BY <1>3, <1>4

LEMMA CaptureInvHandler ==
    ASSUME TypeOK, MoneyInv, RefundInv, CaptureInv, NEW w \in Workers, Step(w)
    PROVE  CaptureInv'
  <1>0. WorkType BY TypeParts
  <1>1. PICK h \in Handlers : /\ work' = [work EXCEPT ![w] = h]
                             /\ \/ h = Idle
                                \/ /\ h.ev = work[w].ev
                                   /\ work[w].pc \in Trail => h.pc \in Trail
                                   /\ h.seen \in {work[w].seen, pay}
    BY StepOnward DEF Onward, Course
  <1>2. (returned > 0 => pi = "succeeded")' BY StepReturns DEF CaptureInv
  <1>3. (Stages \intersect Skipped = {} => order \notin Skipped)'
    BY StepKeeps DEF CaptureInv, Skipped
  <1>4. KeepsToTrail'
    <2>1. h.ev.type = "capturable" => h.pc \in Trail
      BY <1>1 DEF CaptureInv, KeepsToTrail, Idle, At, NoEvent
    <2> QED BY <1>0, <1>1, <2>1, OthersStay DEF CaptureInv, KeepsToTrail
  <1>5. SeenAtStripe'
    <2> SUFFICES ASSUME NEW v \in Workers, work'[v].seen \in Closed
                 PROVE  pi' \in {"succeeded", "canceled"}
      BY DEF SeenAtStripe
    <2>1. CASE v # w
      <3>1. work'[v] = work[v] BY <1>0, <1>1, <2>1, OthersStay
      <3> QED BY <3>1, StepKeeps DEF CaptureInv, SeenAtStripe
    <2>2. CASE v = w
      <3>1. h.seen \in Closed BY <1>0, <1>1, <2>2, OthersStay
      <3>2. h # Idle BY <3>1 DEF Idle, At, Closed
      <3>3. work[w].seen \in Closed \/ pay \in Closed BY <1>1, <3>1, <3>2
      <3> QED BY <3>3, ClosedAtStripe, StepKeeps DEF CaptureInv, SeenAtStripe
    <2> QED BY <2>1, <2>2
  <1> QED BY <1>2, <1>3, <1>4, <1>5, OnTheWayStep DEF CaptureInv

\* The order comes to wait for the charge by an accept, or waited already.
LEMMA AwaitedBefore ==
    ASSUME TypeOK, CaptureInv, NEW to \in Stages, UpdateStatus(to), to \in Awaited, to # "ACCEPTED"
    PROVE  order \in Awaited
  <1>1. /\ order \in Statuses /\ to \in Statuses
        /\ Stages \intersect Skipped = {} => order \notin Skipped
    BY StagesAssumption DEF TypeOK, CaptureInv
  <1>2. to \in AcceptedStates BY DEF Awaited, AcceptedStates
  <1>3. order \notin Terminal /\ to \in ValidTransitions[order]
    BY <1>2 DEF UpdateStatus, AssertTransition, CanTransition, AcceptedStates, Cancellation
  <1>4. order # "PENDING"
    BY <1>2, <1>3 DEF ValidTransitions, AcceptedStates, Cancellation, OnTheRoad, Statuses,
       InFlight, Terminal
  <1>5. CASE Stages \intersect Skipped = {}
    <2>1. order \in AcceptedStates BY <1>1, <1>3, <1>4, <1>5 DEF Skipped, Cancellation, Terminal
    <2> QED BY <1>5, <2>1 DEF Awaited
  <1>6. CASE Stages \intersect Skipped # {}
    <2>1. to \in {"PREPARING", "READY"} BY <1>6 DEF Awaited
    <2>2. order \in {"ACCEPTED", "PREPARING"}
      BY <1>1, <1>3, <2>1 DEF ValidTransitions, OnTheRoad, Cancellation, Statuses, InFlight,
         Terminal
    <2> QED BY <2>2 DEF Awaited
  <1> QED BY <1>5, <1>6

LEMMA CaptureInvOutside ==
    ASSUME TypeOK, MoneyInv, CaptureInv,
           \/ Pays \/ Declined \/ HoldExpires
           \/ \E e \in events : EventLost(e)
           \/ \E to \in Stages : UpdateStatus(to)
    PROVE  CaptureInv'
  <1> USE DEF CaptureInv, SeenAtStripe, KeepsToTrail, CaptureIsUnderWay, OnTheWay,
              stripe, rows, placed, Quiet
  <1>1. CASE Pays BY <1>1 DEF Pays, Awaited, Skipped
  <1>2. CASE Declined BY <1>2 DEF Declined, Awaited, Skipped
  <1>3. CASE HoldExpires BY <1>3 DEF HoldExpires, Awaited, Skipped
  <1>4. ASSUME NEW e \in events, EventLost(e) PROVE CaptureInv'
    <2>1. ~Quiet' BY <1>4 DEF EventLost, Fault
    <2> QED BY <1>4, <2>1 DEF EventLost, Skipped
  <1>5. ASSUME NEW to \in Stages, UpdateStatus(to) PROVE CaptureInv'
    <2>1. /\ spawned \subseteq spawned'
          /\ to = "ACCEPTED" => "capture" \in spawned'
          /\ UNCHANGED <<stripe, rows, events, work, faults>> /\ order' = to
      BY <1>5 DEF UpdateStatus
    <2>2. order' \in Awaited /\ to # "ACCEPTED" => order \in Awaited
      BY <1>5, <2>1, AwaitedBefore
    <2>3. CaptureIsUnderWay'
      <3> SUFFICES ASSUME pi' = "requires_capture", order' \in Awaited, Quiet'
                   PROVE  OnTheWay'
        BY DEF Awaited
      <3>1. CASE to = "ACCEPTED" BY <2>1, <3>1
      <3>2. CASE to # "ACCEPTED"
        <4>1. OnTheWay BY <2>1, <2>2, <3>2
        <4> QED BY <2>1, <4>1
      <3> QED BY <3>1, <3>2
    <2>4. (Stages \intersect Skipped = {} => order \notin Skipped)' BY <2>1 DEF Skipped
    <2> QED BY <2>1, <2>3, <2>4
  <1> QED BY <1>1, <1>2, <1>3, <1>4, <1>5

LEMMA CaptureInvStart ==
    ASSUME TypeOK, CaptureInv, NEW w \in Workers,
           \/ \E call \in spawned : StartSpawned(w, call)
           \/ \E e \in events : Deliver(w, e)
           \/ StartPoll(w) \/ Crash(w)
           \/ \E amount \in 1 .. Total : StartPart(w, amount)
    PROVE  CaptureInv'
  <1> USE DEF SeenAtStripe, KeepsToTrail, stripe, rows, placed
  <1>0. /\ WorkType
        /\ \A pc, ev : At(pc, ev).pc = pc /\ At(pc, ev).ev = ev /\ At(pc, ev).seen = "PENDING"
        /\ Idle.pc = "idle" /\ Idle.ev = NoEvent /\ Idle.seen = "PENDING"
        /\ NoEvent.type = "none" /\ "PENDING" \notin Closed
    BY TypeParts DEF At, Idle, NoEvent, Closed
  <1>1. ASSUME NEW h, UNCHANGED <<stripe, rows, order>>, work' = [work EXCEPT ![w] = h],
               h.seen = "PENDING", h.ev.type = "capturable" => h.pc \in Trail,
               CaptureIsUnderWay'
        PROVE  CaptureInv'
    <2>1. work'[w] = h /\ \A v \in Workers \ {w} : work'[v] = work[v]
      BY <1>0, <1>1, OthersStay
    <2>2. SeenAtStripe' BY <1>0, <1>1, <2>1 DEF CaptureInv
    <2>3. KeepsToTrail' BY <1>1, <2>1 DEF CaptureInv
    <2> QED BY <1>1, <2>2, <2>3 DEF CaptureInv, Skipped
  <1>2. ASSUME NEW h, UNCHANGED <<stripe, rows, order>>, work' = [work EXCEPT ![w] = h],
               work[w] = Idle, Quiet' => Quiet,
               "capture" \in spawned => "capture" \in spawned' \/ h.pc \in CapturePath,
               Event("capturable") \in events
                   => Event("capturable") \in events' \/ h.pc \in CapturePath
        PROVE  CaptureIsUnderWay'
    <2>1. work'[w] = h /\ \A v \in Workers \ {w} : work'[v] = work[v]
      BY <1>0, <1>2, OthersStay
    <2>2. work[w].pc \notin CapturePath BY <1>0, <1>2 DEF CapturePath
    <2>3. OnTheWay => OnTheWay' BY <1>2, <2>1, <2>2 DEF OnTheWay
    <2> QED BY <1>2, <2>3 DEF CaptureInv, CaptureIsUnderWay, Awaited
  <1>3. ASSUME NEW call \in spawned, StartSpawned(w, call) PROVE CaptureInv'
    <2> DEFINE h == At(call, NoEvent)
    <2>1. h.pc = call /\ h.ev.type = "none" /\ h.seen = "PENDING" BY <1>0
    <2> HIDE DEF h
    <2>2. /\ work' = [work EXCEPT ![w] = h] /\ work[w] = Idle /\ events' = events
          /\ UNCHANGED <<stripe, rows, order, faults>> /\ spawned' = spawned \ {call}
      BY <1>3 DEF StartSpawned, h
    <2>3. CaptureIsUnderWay' BY <1>2, <2>1, <2>2 DEF Quiet, CapturePath
    <2> QED BY <1>1, <2>1, <2>2, <2>3
  <1>4. ASSUME NEW e \in events, Deliver(w, e) PROVE CaptureInv'
    <2> DEFINE h == At(e.type, e)
    <2>1. h.pc = e.type /\ h.ev = e /\ h.seen = "PENDING" BY <1>0
    <2> HIDE DEF h
    <2>2. /\ work' = [work EXCEPT ![w] = h] /\ work[w] = Idle /\ events \ {e} \subseteq events'
          /\ UNCHANGED <<stripe, rows, order, spawned>> /\ faults.kinds \subseteq faults'.kinds
      BY <1>4 DEF Deliver, Fault, h
    <2>3. Event("capturable") = e => h.pc \in CapturePath BY <2>1 DEF Event, CapturePath
    <2>4. CaptureIsUnderWay' BY <1>2, <2>2, <2>3 DEF Quiet
    <2> QED BY <1>1, <2>1, <2>2, <2>4 DEF Trail, CapturePath
  <1>5. CASE StartPoll(w)
    <2> DEFINE h == At("poll", NoEvent)
    <2>1. h.pc = "poll" /\ h.ev.type = "none" /\ h.seen = "PENDING" BY <1>0
    <2> HIDE DEF h
    <2>2. /\ work' = [work EXCEPT ![w] = h] /\ work[w] = Idle
          /\ UNCHANGED <<stripe, rows, order, spawned, events, faults>>
      BY <1>5 DEF StartPoll, h
    <2>3. CaptureIsUnderWay' BY <1>2, <2>2 DEF Quiet
    <2> QED BY <1>1, <2>1, <2>2, <2>3
  <1>6. CASE Crash(w)
    <2>1. ~Quiet' BY <1>6 DEF Crash, Fault, Quiet
    <2> QED BY <1>0, <1>1, <1>6, <2>1 DEF Crash, CaptureIsUnderWay
  <1>7. ASSUME NEW amount \in 1 .. Total, StartPart(w, amount) PROVE CaptureInv'
    <2> DEFINE h == [At("part", NoEvent) EXCEPT !.amount = amount, !.base = booked]
    <2>1. h.pc = "part" /\ h.ev.type = "none" /\ h.seen = "PENDING" BY <1>0 DEF At
    <2> HIDE DEF h
    <2>2. /\ work' = [work EXCEPT ![w] = h] /\ work[w] = Idle
          /\ UNCHANGED <<stripe, rows, order, spawned, events, faults>>
      BY <1>7 DEF StartPart, h
    <2>3. CaptureIsUnderWay' BY <1>2, <2>2 DEF Quiet
    <2> QED BY <1>1, <2>1, <2>2, <2>3
  <1> QED BY <1>3, <1>4, <1>5, <1>6, <1>7

LEMMA CaptureInvStep ==
    ASSUME TypeOK, MoneyInv, RefundInv, CaptureInv, [Next]_vars
    PROVE  CaptureInv'
  <1>1. CASE Next
    <2>1. CASE \E w \in Workers : Step(w) BY <2>1, CaptureInvHandler
    <2>2. CASE ~\E w \in Workers : Step(w)
      BY <1>1, <2>2, NextStep, CaptureInvOutside, CaptureInvStart
    <2> QED BY <2>1, <2>2
  <1>2. CASE UNCHANGED vars
    BY <1>2 DEF vars, stripe, rows, placed, CaptureInv, SeenAtStripe, KeepsToTrail,
       CaptureIsUnderWay, OnTheWay, Awaited, Skipped, Quiet
  <1> QED BY <1>1, <1>2

LEMMA CaptureInvInit == ASSUME Init PROVE CaptureInv
  <1>1. \A w \in Workers : work[w].seen = "PENDING" /\ work[w].ev.type = "none"
    BY DEF Init, Idle, At, NoEvent
  <1>2. order = "PENDING" /\ returned = 0 BY DEF Init
  <1> QED BY <1>1, <1>2 DEF CaptureInv, SeenAtStripe, KeepsToTrail, CaptureIsUnderWay, Closed,
         Awaited, AcceptedStates, Skipped, Cancellation

\* Money that is held for an order the shop accepted is never forgotten: until
\* the order is handed to a courier, somebody has its capture before him, for
\* any number of handlers, any repetition of the webhooks and whatever the order
\* of authorisation and accept, unless somebody died, failed or was not told.
THEOREM CaptureCorrect == Spec => []CaptureIsUnderWay
  <1>1. TypeOK /\ MoneyInv /\ RefundInv /\ CaptureInv /\ [Next]_vars => CaptureInv'
    BY CaptureInvStep
  <1>2. CaptureInv => CaptureIsUnderWay BY DEF CaptureInv
  <1> QED BY <1>1, <1>2, CaptureInvInit, CardTypeCorrect, MoneyCorrect, RefundInvCorrect, PTL
      DEF Spec
-----------------------------------------------------------------------------
(* The money of an order the shop did not take: why its return does not get   *)
(* stuck.  Each statement on the way reads either Stripe, or a row that may   *)
(* lag behind it; HoldKept says which lags there are.                         *)

\* A hold is of a session, and a session's card is never declined afterwards.
HoldKept ==
    /\ pi = "requires_capture" => capture = "manual"
    /\ capture = "manual" =>
           /\ pi # "requires_payment_method" /\ pay # "FAILED"
           /\ \A e \in events : e.type # "failed"
           /\ \A w \in Workers : work[w].pc # "failed"

\* A handler goes to any place but that of a declined card.
Undeclined(w) ==
    /\ work'[w].pc # "failed"
    /\ \A v \in Workers \ {w} : work'[v] = work[v]
    /\ \A e \in events' : e \in events \/ e.type # "failed"

LEMMA GoOnUndeclined ==
    ASSUME WorkType, NEW w \in Workers, NEW pc, pc # "failed",
           work' = [work EXCEPT ![w].pc = pc],
           \A e \in events' : e \in events \/ e.type # "failed"
    PROVE  Undeclined(w)
  BY GoOnAt DEF Undeclined, WorkType

LEMMA FinishUndeclined ==
    ASSUME WorkType, NEW w \in Workers, NEW more, FinishWith(w, more),
           \A e \in more : e.type # "failed"
    PROVE  Undeclined(w)
  <1>1. work'[w] = Idle /\ Idle.pc = "idle" BY DEF FinishWith, WorkType, Idle, At
  <1> QED BY <1>1 DEF Undeclined, FinishWith, WorkType

LEMMA ToChargeUndeclined ==
    ASSUME WorkType, NEW w \in Workers, NEW seen, ToCharge(w, seen)
    PROVE  Undeclined(w)
  <1>1. CASE seen \in Closed BY <1>1, FinishUndeclined DEF ToCharge, Finish
  <1>2. CASE seen \notin Closed
    <2>1. work'[w].pc = "charge" BY <1>2, ToChargeAt
    <2> QED BY <1>2, <2>1 DEF ToCharge, Undeclined, WorkType
  <1> QED BY <1>1, <1>2

LEMMA StepUndeclined == ASSUME TypeOK, NEW w \in Workers, Step(w) PROVE Undeclined(w)
  <1>0. WorkType BY TypeParts
  <1>1. /\ \A type : Event(type).type = type
        /\ \A sum : RefundedEvent(sum).type = "refunded"
    BY DEF Event, RefundedEvent
  <1>2. ASSUME NEW pc, GoOn(w, pc), pc # "failed" PROVE Undeclined(w)
    BY <1>0, <1>2, GoOnUndeclined DEF GoOn
  <1>3. ASSUME Finish(w) PROVE Undeclined(w) BY <1>0, <1>3, FinishUndeclined DEF Finish
  <1>4. CASE CaptureStep(w)
    <2>1. CASE CaptureRead(w)
      <3>1. CASE linked BY <1>0, <2>1, <3>1, ToChargeUndeclined DEF CaptureRead
      <3>2. CASE ~linked
        <4>1. work'[w] = [work[w] EXCEPT !.pc = "lookup", !.seen = pay]
          BY <1>0, <2>1, <3>2 DEF CaptureRead, WorkType
        <4>2. work'[w].pc = "lookup" BY <1>0, <4>1, HandlerType DEF Handlers
        <4> QED BY <1>0, <2>1, <3>2, <4>2 DEF CaptureRead, Undeclined, WorkType
      <3> QED BY <3>1, <3>2
    <2>2. CASE CaptureLookup(w)
      BY <1>0, <1>3, <2>2, ToChargeUndeclined DEF CaptureLookup
    <2>3. CASE Charge(w)
      <3>1. \/ /\ work' = [work EXCEPT ![w].pc = "chargedRow"]
               /\ events' = events \union {Event("succeeded")}
            \/ FinishWith(w, {Event("succeeded")})
            \/ Finish(w)
        BY <2>3 DEF Charge
      <3> QED BY <1>0, <1>1, <1>3, <3>1, GoOnUndeclined, FinishUndeclined
    <2>4. CASE ChargedRow(w) \/ ChargedOrder(w)
      BY <1>2, <1>3, <2>4 DEF ChargedRow, ChargedOrder
    <2> QED BY <1>4, <2>1, <2>2, <2>3, <2>4 DEF CaptureStep
  <1>5. CASE RefundStep(w)
    <2>1. CASE RefundRead(w) BY <1>2, <1>3, <2>1 DEF RefundRead
    <2>2. CASE Ask(w) BY <1>2, <1>3, <2>2 DEF Ask
    <2>3. CASE Return(w)
      <3>1. \/ /\ work' = [work EXCEPT ![w].pc = "returnedRow"]
               /\ events' = events \union {RefundedEvent(Total)}
            \/ FinishWith(w, {RefundedEvent(Total)})
            \/ Finish(w)
        BY <2>3 DEF Return
      <3> QED BY <1>0, <1>1, <1>3, <3>1, GoOnUndeclined, FinishUndeclined
    <2>4. CASE ReturnedRow(w) \/ ReturnedOrder(w) \/ Release(w)
      BY <1>2, <1>3, <2>4 DEF ReturnedRow, ReturnedOrder, Release
    <2>5. CASE Void(w)
      <3>1. FinishWith(w, {Event("canceled")}) \/ Finish(w) BY <2>5 DEF Void
      <3> QED BY <1>0, <1>1, <1>3, <3>1, FinishUndeclined
    <2> QED BY <1>5, <2>1, <2>2, <2>3, <2>4, <2>5 DEF RefundStep
  <1>6. CASE PartStep(w)
    <2>1. CASE Part(w)
      <3>1. \/ /\ work' = [work EXCEPT ![w].pc = "book"]
               /\ events' = events \union {RefundedEvent(returned + work[w].amount)}
            \/ FinishWith(w, {RefundedEvent(returned + work[w].amount)})
            \/ Finish(w)
        BY <2>1 DEF Part
      <3> QED BY <1>0, <1>1, <1>3, <3>1, GoOnUndeclined, FinishUndeclined
    <2>2. CASE Book(w) BY <1>3, <2>2 DEF Book
    <2> QED BY <1>6, <2>1, <2>2 DEF PartStep
  <1>7. CASE WebhookStep(w)
    <2>1. CASE Find(w) BY <1>2, <2>1 DEF Find
    <2>2. CASE Confirm(w) \/ Land(w) \/ Authorise(w) \/ Announce(w)
      BY <1>2, <1>3, <2>2 DEF Confirm, Land, Authorise, Announce
    <2>3. CASE Ledger(w) \/ MarkCancelled(w) \/ PaymentFailed(w) \/ MarkRefunded(w)
      BY <1>3, <2>3 DEF Ledger, MarkCancelled, PaymentFailed, MarkRefunded
    <2>4. CASE Poll(w) BY <1>2, <1>3, <2>4 DEF Poll
    <2> QED BY <1>7, <2>1, <2>2, <2>3, <2>4 DEF WebhookStep
  <1> QED BY <1>4, <1>5, <1>6, <1>7 DEF Step

\* What a handler may do to the intent and to the row.
LEMMA StepIntent ==
    ASSUME NEW w \in Workers, Step(w)
    PROVE  /\ capture' = capture /\ accepted' = accepted /\ (linked => linked')
           /\ \/ pi' = pi \/ pi' = "canceled"
              \/ pi' = "succeeded" /\ pi = "requires_capture" /\ work[w].pc = "charge"
           /\ pay' = "FAILED" => pay = "FAILED" \/ work[w].pc = "failed"
  <1>1. CASE CaptureStep(w)
    BY <1>1 DEF CaptureStep, CaptureRead, CaptureLookup, Charge, ChargedRow, ChargedOrder,
       stripe, rows, placed
  <1>2. CASE RefundStep(w)
    BY <1>2 DEF RefundStep, RefundRead, Ask, Return, ReturnedRow, ReturnedOrder, Release,
       Void, stripe, rows, placed
  <1>3. CASE PartStep(w)
    BY <1>3 DEF PartStep, Part, Book, stripe, rows, placed
  <1>4. CASE WebhookStep(w)
    BY <1>4 DEF WebhookStep, Find, Confirm, Land, Ledger, Authorise, Announce,
       MarkCancelled, PaymentFailed, MarkRefunded, Poll, stripe, rows, placed
  <1> QED BY <1>1, <1>2, <1>3, <1>4 DEF Step

LEMMA HoldKeptStep == ASSUME TypeOK, HoldKept, [Next]_vars PROVE HoldKept'
  <1> USE DEF HoldKept
  <1>0. WorkType /\ \A type : Event(type).type = type BY TypeParts DEF Event
  <1>1. ASSUME NEW w \in Workers, Step(w) PROVE HoldKept'
    <2>1. Undeclined(w) BY <1>1, StepUndeclined
    <2> QED BY <1>1, <2>1, StepIntent DEF Undeclined
  <1>2. CASE Pays BY <1>0, <1>2 DEF Pays, rows
  <1>3. CASE Declined BY <1>0, <1>3 DEF Declined, stripe, rows
  <1>4. CASE HoldExpires BY <1>0, <1>4 DEF HoldExpires, rows
  <1>5. ASSUME NEW e \in events, EventLost(e) PROVE HoldKept'
    BY <1>5 DEF EventLost, stripe, rows
  <1>6. ASSUME NEW to \in Stages, UpdateStatus(to) PROVE HoldKept'
    BY <1>6 DEF UpdateStatus, stripe, rows
  <1>7. ASSUME NEW w \in Workers, NEW h, work' = [work EXCEPT ![w] = h],
               UNCHANGED <<stripe, rows>>, events' \subseteq events,
               capture = "manual" => h.pc # "failed"
        PROVE  HoldKept'
    <2>1. work'[w] = h /\ \A v \in Workers \ {w} : work'[v] = work[v]
      BY <1>0, <1>7, OthersStay
    <2> QED BY <1>7, <2>1 DEF stripe, rows
  <1>8. \A pc, ev : At(pc, ev).pc = pc BY DEF At
  <1>9. ASSUME NEW w \in Workers, NEW call \in spawned, StartSpawned(w, call) PROVE HoldKept'
    <2>1. call # "failed" BY DEF TypeOK
    <2>2. At(call, NoEvent).pc = call BY <1>8
    <2>3. /\ work' = [work EXCEPT ![w] = At(call, NoEvent)]
          /\ UNCHANGED <<stripe, rows>> /\ events' \subseteq events
      BY <1>9 DEF StartSpawned
    <2> QED BY <1>7, <2>1, <2>2, <2>3
  <1>10. ASSUME NEW w \in Workers, NEW e \in events, Deliver(w, e) PROVE HoldKept'
    <2>1. At(e.type, e).pc = e.type BY <1>8
    <2>2. /\ work' = [work EXCEPT ![w] = At(e.type, e)]
          /\ UNCHANGED <<stripe, rows>> /\ events' \subseteq events
      BY <1>10 DEF Deliver
    <2>3. capture = "manual" => e.type # "failed" OBVIOUS
    <2> QED BY <1>7, <2>1, <2>2, <2>3
  <1>11. ASSUME NEW w \in Workers, StartPoll(w) PROVE HoldKept'
    <2>1. At("poll", NoEvent).pc = "poll" BY <1>8
    <2>2. /\ work' = [work EXCEPT ![w] = At("poll", NoEvent)]
          /\ UNCHANGED <<stripe, rows>> /\ events' \subseteq events
      BY <1>11 DEF StartPoll
    <2> QED BY <1>7, <2>1, <2>2
  <1>12. ASSUME NEW w \in Workers, Crash(w) PROVE HoldKept'
    <2>1. Idle.pc = "idle" BY <1>8 DEF Idle
    <2>2. /\ work' = [work EXCEPT ![w] = Idle]
          /\ UNCHANGED <<stripe, rows>> /\ events' \subseteq events
      BY <1>12 DEF Crash
    <2> QED BY <1>7, <2>1, <2>2
  <1>13. ASSUME NEW w \in Workers, NEW amount \in 1 .. Total, StartPart(w, amount) PROVE HoldKept'
    <2>1. [At("part", NoEvent) EXCEPT !.amount = amount, !.base = booked].pc = "part" BY DEF At
    <2>2. /\ work' = [work EXCEPT
                       ![w] = [At("part", NoEvent) EXCEPT !.amount = amount, !.base = booked]]
          /\ UNCHANGED <<stripe, rows>> /\ events' \subseteq events
      BY <1>13 DEF StartPart
    <2> QED BY <1>7, <2>1, <2>2
  <1>14. CASE UNCHANGED vars BY <1>14 DEF vars, stripe, rows
  <1> QED BY <1>1, <1>2, <1>3, <1>4, <1>5, <1>6, <1>9, <1>10, <1>11, <1>12, <1>13, <1>14, NextStep

LEMMA HoldKeptInit == ASSUME Init PROVE HoldKept
  <1>1. \A w \in Workers : work[w].pc = "idle" BY DEF Init, Idle, At
  <1> QED BY <1>1 DEF Init, HoldKept

\* On the way back the place says which statement comes next.
LEMMA ReleaseAt ==
    ASSUME NEW w \in Workers, Step(w)
    PROVE  /\ work[w].pc = "refund" => RefundRead(w)
           /\ work[w].pc = "ask" => Ask(w)
           /\ work[w].pc = "return" => Return(w)
           /\ work[w].pc = "release" => Release(w)
           /\ work[w].pc = "void" => Void(w)
  BY DEF Step, CaptureStep, RefundStep, PartStep, WebhookStep, Find, CaptureRead, CaptureLookup,
     Charge, ChargedRow, ChargedOrder, RefundRead, Ask, Return, ReturnedRow, ReturnedOrder,
     Release, Void, Part, Book, Confirm, Land, Ledger, Authorise, Announce, MarkCancelled,
     PaymentFailed, MarkRefunded, Poll

\* How a step that ends the wait ends it.
Ended ==
    pi' = "canceled" \/ returned' > 0 \/ faults'.kinds \intersect {"crash", "stripe"} # {}

LEMMA FaultEnds == ASSUME Fault("crash") \/ Fault("stripe") PROVE Ended
  BY DEF Fault, Ended

\* The handler that has the money before him takes it on, or moves it.
LEMMA ReleasingGoesOn ==
    ASSUME TypeOK, MoneyInv, RefundInv, HoldKept, ReleaseIsUnderWay,
           NEW w \in Workers, Step(w), Releasing(w), pi' = pi
    PROVE  Releasing(w)' \/ Ended
  <1>0. WorkType BY TypeParts
  <1>1. linked /\ pi \in {"requires_capture", "succeeded"} /\ returned = 0
    BY DEF ReleaseIsUnderWay
  <1>2. ASSUME NEW pc, GoOn(w, pc) PROVE work'[w].pc = pc BY <1>0, <1>2, GoOnAt DEF GoOn
  <1>3. CASE work[w].pc = "refund"
    <2>1. RefundRead(w) BY <1>3, ReleaseAt
    <2>2. pay = "SUCCEEDED" => pi = "succeeded" BY DEF MoneyInv, RowsHold, PaidMeansCharged
    <2>3. GoOn(w, "ask") \/ (GoOn(w, "return") /\ pi = "succeeded")
      BY <1>1, <2>1, <2>2 DEF RefundRead
    <2> QED BY <1>2, <2>3 DEF Releasing
  <1>4. CASE work[w].pc = "ask"
    <2>1. Ask(w) BY <1>4, ReleaseAt
    <2>2. \/ GoOn(w, "return") /\ pi = "succeeded"
          \/ GoOn(w, "release") /\ pi = "requires_capture"
          \/ Fault("stripe")
      BY <1>1, <2>1 DEF Ask, Open
    <2> QED BY <1>2, <2>2, FaultEnds DEF Releasing
  <1>5. CASE work[w].pc = "return"
    <2>1. Return(w) BY <1>5, ReleaseAt
    <2>2. pi = "succeeded" BY <1>5 DEF Releasing
    <2>3. returned' = Total \/ Fault("stripe") BY <1>1, <2>1, <2>2 DEF Return
    <2> QED BY <2>3, FaultEnds, TotalAssumption DEF Ended
  <1>6. CASE work[w].pc = "release"
    <2>1. Release(w) BY <1>6, ReleaseAt
    <2>2. pi = "requires_capture" BY <1>6 DEF Releasing
    <2>3. pay # "CANCELLED" BY <2>2 DEF MoneyInv, RowsHold, CancelledMeansReleased
    <2>4. pay # "REFUNDED" BY <1>1, TotalAssumption DEF RefundInv
    <2>5. pay # "FAILED" BY <2>2 DEF HoldKept
    <2>6. GoOn(w, "void") BY <1>1, <2>1, <2>3, <2>4, <2>5 DEF Release
    <2> QED BY <1>2, <2>2, <2>6 DEF Releasing
  <1>7. CASE work[w].pc = "void"
    <2>1. Void(w) BY <1>7, ReleaseAt
    <2>2. pi \in Open BY <1>7 DEF Releasing, Open
    <2>3. pi' = "canceled" \/ Fault("stripe") BY <2>1, <2>2 DEF Void
    <2> QED BY <2>3, FaultEnds DEF Ended
  <1> QED BY <1>3, <1>4, <1>5, <1>6, <1>7 DEF Releasing

\* Nobody can charge it meanwhile: a capture is on the way only when accepted.
LEMMA ReleaseStep ==
    ASSUME TypeOK, TypeOK', MoneyInv, RefundInv, HoldKept, ReleaseIsUnderWay,
           NEW w \in Workers, Step(w)
    PROVE  ReleaseIsUnderWay' \/ Ended
  <1>0. WorkType BY TypeParts
  <1>1. pi \in {"requires_capture", "succeeded"} /\ linked /\ ~accepted
    BY DEF ReleaseIsUnderWay
  <1>2. ~(pi = "requires_capture" /\ work[w].pc = "charge")
    BY <1>1 DEF HoldKept, MoneyInv, HandlersHold, Holds, CaptureTags
  <1>3. pi' = pi \/ pi' = "canceled" BY <1>2, StepIntent
  <1>4. CASE pi' = "canceled" \/ returned' # 0
    <2>1. returned' \in Nat BY TotalAssumption DEF TypeOK
    <2> QED BY <1>4, <2>1 DEF Ended
  <1>5. CASE pi' = pi /\ returned' = 0
    <2>1. order' = order /\ spawned' = spawned /\ accepted' = accepted /\ linked'
      BY <1>1, StepKeeps, StepIntent
    <2>2. ("refund" \in spawned' \/ \E v \in Workers : Releasing(v)') \/ Ended
      <3>1. CASE "refund" \in spawned BY <2>1, <3>1
      <3>2. CASE Releasing(w) BY <1>5, <3>2, ReleasingGoesOn
      <3>3. ASSUME NEW v \in Workers, v # w, Releasing(v) PROVE Releasing(v)'
        <4>1. work'[v] = work[v] BY <3>3, StepUndeclined DEF Undeclined
        <4> QED BY <1>5, <3>3, <4>1 DEF Releasing
      <3> QED BY <3>1, <3>2, <3>3 DEF ReleaseIsUnderWay
    <2> QED BY <1>5, <2>1, <2>2 DEF ReleaseIsUnderWay
  <1> QED BY <1>3, <1>4, <1>5

\* A call that starts, an event delivered: what was before another stays there.
LEMMA ReleaseStart ==
    ASSUME TypeOK, ReleaseIsUnderWay, NEW w \in Workers, NEW h, work[w] = Idle,
           work' = [work EXCEPT ![w] = h],
           "refund" \in spawned => "refund" \in spawned' \/ h.pc = "refund",
           UNCHANGED <<stripe, rows, order, accepted>>
    PROVE  ReleaseIsUnderWay'
  <1>1. work'[w] = h /\ \A v \in Workers \ {w} : work'[v] = work[v]
    BY TypeParts, OthersStay
  <1>2. ~Releasing(w) BY DEF Releasing, Idle, At
  <1>3. \A v \in Workers \ {w} : Releasing(v) => Releasing(v)'
    BY <1>1 DEF Releasing, stripe
  <1>4. h.pc = "refund" => Releasing(w)' BY <1>1 DEF Releasing
  <1>5. "refund" \in spawned' \/ \E v \in Workers : Releasing(v)'
    BY <1>2, <1>3, <1>4 DEF ReleaseIsUnderWay
  <1> QED BY <1>5 DEF ReleaseIsUnderWay, stripe, rows

LEMMA ReleaseNext ==
    ASSUME TypeOK, TypeOK', MoneyInv, RefundInv, HoldKept, ReleaseIsUnderWay, Next
    PROVE  ReleaseIsUnderWay' \/ Ended
  <1>0. \A pc, ev : At(pc, ev).pc = pc BY DEF At
  <1>1. ASSUME NEW w \in Workers, Step(w) PROVE ReleaseIsUnderWay' \/ Ended
    BY <1>1, ReleaseStep
  <1>2. ASSUME work' = work, UNCHANGED <<stripe, rows, placed>> PROVE ReleaseIsUnderWay'
    BY <1>2 DEF ReleaseIsUnderWay, Releasing, stripe, rows, placed
  <1>3. CASE Pays
    <2>1. pi \notin {"absent", "requires_payment_method"} BY DEF ReleaseIsUnderWay
    <2> QED BY <1>3, <2>1 DEF Pays
  <1>4. CASE Declined BY <1>2, <1>4 DEF Declined
  <1>5. CASE HoldExpires BY <1>5 DEF HoldExpires, Ended
  <1>6. ASSUME NEW e \in events, EventLost(e) PROVE ReleaseIsUnderWay'
    BY <1>2, <1>6 DEF EventLost
  <1>7. ASSUME NEW to \in Stages, UpdateStatus(to) PROVE FALSE
    BY <1>7 DEF ReleaseIsUnderWay, UpdateStatus, AssertTransition, Terminal
  <1>8. ASSUME NEW w \in Workers, NEW call \in spawned, StartSpawned(w, call)
        PROVE  ReleaseIsUnderWay'
    <2>1. "refund" \in spawned => "refund" \in spawned' \/ At(call, NoEvent).pc = "refund"
      BY <1>0, <1>8 DEF StartSpawned
    <2> QED BY <1>8, <2>1, ReleaseStart DEF StartSpawned
  <1>9. ASSUME NEW w \in Workers, NEW e \in events, Deliver(w, e) PROVE ReleaseIsUnderWay'
    BY <1>9, ReleaseStart DEF Deliver, placed
  <1>10. ASSUME NEW w \in Workers, StartPoll(w) PROVE ReleaseIsUnderWay'
    BY <1>10, ReleaseStart DEF StartPoll, placed
  <1>11. ASSUME NEW w \in Workers, Crash(w) PROVE Ended BY <1>11, FaultEnds DEF Crash
  <1>12. ASSUME NEW w \in Workers, NEW amount \in 1 .. Total, StartPart(w, amount)
         PROVE  ReleaseIsUnderWay'
    BY <1>12, ReleaseStart DEF StartPart, placed
  <1> QED BY <1>1, <1>3, <1>4, <1>5, <1>6, <1>7, <1>8, <1>9, <1>10, <1>11, <1>12, NextStep

\* The money of an order that was cancelled or rejected before it was accepted,
\* once its return was spawned, is on its way back until it moved: for any number
\* of handlers, polls, late webhooks, partial refunds and failed writes.
THEOREM ReleaseCorrect == Spec => ReleaseIsKept
  <1>1. TypeOK /\ TypeOK' /\ MoneyInv /\ RefundInv /\ HoldKept /\ [Next]_vars
            => [ReleaseIsUnderWay =>
                    \/ ReleaseIsUnderWay' \/ pi' = "canceled" \/ returned' > 0
                    \/ faults'.kinds \intersect {"crash", "stripe"} # {}]_vars
    BY ReleaseNext DEF Ended
  <1>2. TypeOK /\ HoldKept /\ [Next]_vars => HoldKept' BY HoldKeptStep
  <1> QED BY <1>1, <1>2, HoldKeptInit, CardTypeCorrect, MoneyCorrect, RefundInvCorrect, PTL
      DEF Spec, ReleaseIsKept
=============================================================================
