---------------------------- MODULE CardPayment ----------------------------
(***************************************************************************)
(* The card payment of one order: its Payment row and the order's payment  *)
(* status in our database, the PaymentIntent and its refunds at Stripe, and *)
(* everybody who moves them: the customer, the order's own status changes  *)
(* (accepting captures, cancelling releases or refunds), staff refunds,    *)
(* Stripe's webhooks and the storefront's polling.                         *)
(*                                                                         *)
(* A hosted Checkout session holds the money until the shop accepts        *)
(* ("manual"); the embedded Payment Element takes it outright              *)
(* ("automatic").  Every database statement and every call to Stripe is a  *)
(* step of its own.  Deadlines of Stripe and wallet top-ups are left out.  *)
(***************************************************************************)
EXTENDS OrderStatus, FiniteSets

CONSTANTS
    Workers,   \* handlers that may be under way at once
    Total,     \* amount and tip of the payment
    Stages,    \* the statuses the order takes after PENDING
    Faults,    \* which faults happen, of AllFaults
    MaxFaults  \* and how often in all

AllFaults == {"crash",      \* the process of a handler dies
              "db",         \* the database refuses a write
              "stripe",     \* a call to Stripe throws, done or not
              "duplicate",  \* Stripe delivers an event while it is handled
              "lost",       \* an event never arrives
              "expire"}     \* Stripe lets a hold go of its own accord

ASSUME TotalAssumption == Total \in Nat \ {0}
ASSUME StagesAssumption == Stages \subseteq Statuses
ASSUME FaultsAssumption == Faults \subseteq AllFaults
ASSUME MaxFaultsAssumption == MaxFaults \in Nat

VARIABLES
    capture,   \* the PaymentIntent's capture method
    pi,        \* its status at Stripe; "absent": the session is not completed
    returned,  \* what Stripe has refunded of it
    pay,       \* Payment.status
    linked,    \* Payment.stripePaymentIntentId is set
    booked,    \* the sum of the Refund rows
    ledger,    \* how many times the PAYMENT ledger entries were written
    order,     \* Order.status
    accepted,  \* Order.acceptedAt is set
    owed,      \* Order.paymentStatus
    spawned,   \* calls updateStatus has made and that have not started
    events,    \* webhook events that may still be delivered
    work,      \* what each handler is doing
    faults     \* how many faults so far, and of which kinds

stripe == <<capture, pi, returned>>
rows   == <<pay, linked, booked, ledger, owed>>
placed == <<order, accepted, spawned>>
vars   == <<stripe, rows, placed, events, work, faults>>

PaymentStatuses == {"PENDING", "PROCESSING", "SUCCEEDED", "FAILED", "CANCELLED", "REFUNDED"}
OrderPayments == {"PENDING", "AUTHORIZED", "PAID", "FAILED", "PARTIALLY_REFUNDED", "REFUNDED"}
IntentStatuses == {"absent", "requires_payment_method", "requires_capture",
                   "succeeded", "canceled"}

\* The PaymentIntents Stripe lets us cancel.
Open == {"requires_payment_method", "requires_capture"}

\* captureForOrder takes these for finished.
Closed == {"SUCCEEDED", "REFUNDED", "CANCELLED"}

\* ACCEPTED_STATES in markAuthorized.
AcceptedStates == {"ACCEPTED", "PREPARING", "READY", "OUT_FOR_DELIVERY", "COMPLETED"}

EventTypes == {"succeeded", "failed", "capturable", "canceled", "refunded"}
Event(type) == [type |-> type, amount |-> 0]
RefundedEvent(amount) == [type |-> "refunded", amount |-> amount]
NoEvent == [type |-> "none", amount |-> 0]

\* ev: the webhook being handled; seen: the Payment.status that was read;
\* amount, base: a staff refund, and the refunds it found booked.
At(pc, ev) == [pc |-> pc, ev |-> ev, seen |-> "PENDING", amount |-> 0, base |-> 0]
Idle == At("idle", NoEvent)

Places == {"idle", "capture", "lookup", "charge", "chargedRow", "chargedOrder",
           "refund", "ask", "return", "returnedRow", "returnedOrder", "release",
           "void", "part", "book", "confirm", "land", "ledger", "authorise",
           "announce", "cancelled", "poll"} \union EventTypes

FaultLog == [n : Nat, kinds : SUBSET AllFaults]

Fault(f) ==
    /\ f \in Faults
    /\ faults.n < MaxFaults
    /\ faults' = [n |-> faults.n + 1, kinds |-> faults.kinds \union {f}]
-----------------------------------------------------------------------------
TypeOK ==
    /\ capture \in {"manual", "automatic"}
    /\ pi \in IntentStatuses
    /\ returned \in 0 .. Total
    /\ pay \in PaymentStatuses
    /\ linked \in BOOLEAN
    /\ booked \in Nat
    /\ ledger \in Nat
    /\ order \in Statuses
    /\ accepted \in BOOLEAN
    /\ owed \in OrderPayments
    /\ spawned \subseteq {"capture", "refund"}
    /\ events \subseteq [type : EventTypes, amount : 0 .. Total]
    /\ work \in [Workers -> [pc : Places,
                             ev : [type : EventTypes \union {"none"}, amount : 0 .. Total],
                             seen : PaymentStatuses, amount : 0 .. Total, base : Nat]]
    /\ faults \in FaultLog

\* createCheckoutSession or createStorefrontPaymentIntent has made the row.
Init ==
    /\ capture \in {"manual", "automatic"}
    /\ pi = IF capture = "manual" THEN "absent" ELSE "requires_payment_method"
    /\ returned = 0
    /\ pay = "PENDING"
    /\ linked = (capture = "automatic")
    /\ booked = 0
    /\ ledger = 0
    /\ order = "PENDING"
    /\ accepted = FALSE
    /\ owed = "PENDING"
    /\ spawned = {}
    /\ events = {}
    /\ work = [w \in Workers |-> Idle]
    /\ faults = [n |-> 0, kinds |-> {}]

GoOn(w, pc) == work' = [work EXCEPT ![w].pc = pc] /\ UNCHANGED events

\* The handler is through: its event counts as processed, more are on the way.
FinishWith(w, more) ==
    /\ work' = [work EXCEPT ![w] = Idle]
    /\ events' = (events \ {work[w].ev}) \union more

Finish(w) == FinishWith(w, {})
-----------------------------------------------------------------------------
(* The customer, and Stripe of its own accord *)

Pays ==
    /\ \/ /\ capture = "manual" /\ pi = "absent"
          /\ pi' = "requires_capture"
          /\ events' = events \union {Event("capturable")}
       \/ /\ capture = "automatic" /\ pi = "requires_payment_method"
          /\ pi' = "succeeded"
          /\ events' = events \union {Event("succeeded")}
    /\ UNCHANGED <<capture, returned, rows, placed, work, faults>>

\* The card is declined; the customer may try again.
Declined ==
    /\ pi = "requires_payment_method"
    /\ events' = events \union {Event("failed")}
    /\ UNCHANGED <<stripe, rows, placed, work, faults>>

HoldExpires ==
    /\ pi = "requires_capture"
    /\ Fault("expire")
    /\ pi' = "canceled"
    /\ events' = events \union {Event("canceled")}
    /\ UNCHANGED <<capture, returned, rows, placed, work>>

EventLost(e) ==
    /\ Fault("lost")
    /\ events' = events \ {e}
    /\ UNCHANGED <<stripe, rows, placed, work>>
-----------------------------------------------------------------------------
(* OrdersService.updateStatus, and the handlers it and others start *)

\* Accepting spawns captureForOrder, aborting spawns refundForOrder.
UpdateStatus(to) ==
    /\ AssertTransition(order, to)
    /\ order' = to
    /\ accepted' = (accepted \/ to = "ACCEPTED")
    /\ spawned' = spawned \union
                    CASE to = "ACCEPTED" -> {"capture"}
                      [] to \in {"CANCELLED", "REJECTED"} -> {"refund"}
                      [] OTHER -> {}
    /\ UNCHANGED <<stripe, rows, events, work, faults>>

StartSpawned(w, call) ==
    /\ work[w] = Idle
    /\ spawned' = spawned \ {call}
    /\ work' = [work EXCEPT ![w] = At(call, NoEvent)]
    /\ UNCHANGED <<stripe, rows, order, accepted, events, faults>>

\* The webhook endpoint answers 200 at once and handles the event afterwards;
\* a second delivery is turned away only once the first is through.
Deliver(w, e) ==
    /\ work[w] = Idle
    /\ work' = [work EXCEPT ![w] = At(e.type, e)]
    /\ \/ events' = events \ {e} /\ UNCHANGED faults
       \/ Fault("duplicate") /\ UNCHANGED events
    /\ UNCHANGED <<stripe, rows, placed>>

\* reconcileOrderPayment, from the storefront's polling or the WhatsApp cron.
StartPoll(w) ==
    /\ work[w] = Idle
    /\ pay = "PENDING"
    /\ work' = [work EXCEPT ![w] = At("poll", NoEvent)]
    /\ UNCHANGED <<stripe, rows, placed, events, faults>>

\* createRefund reads the payment and its refunds and checks the amount.
StartPart(w, amount) ==
    /\ work[w] = Idle
    /\ pay = "SUCCEEDED" /\ linked
    /\ amount <= Total - booked
    /\ work' = [work EXCEPT ![w] =
                  [At("part", NoEvent) EXCEPT !.amount = amount, !.base = booked]]
    /\ UNCHANGED <<stripe, rows, placed, events, faults>>
-----------------------------------------------------------------------------
(* captureForOrder *)

\* Once the PaymentIntent is known: a payment read as finished is left alone.
ToCharge(w, seen) ==
    IF seen \in Closed THEN Finish(w)
    ELSE work' = [work EXCEPT ![w].pc = "charge", ![w].seen = seen] /\ UNCHANGED events

CaptureRead(w) ==
    /\ work[w].pc = "capture"
    /\ IF linked THEN ToCharge(w, pay)
       ELSE work' = [work EXCEPT ![w].pc = "lookup", ![w].seen = pay] /\ UNCHANGED events
    /\ UNCHANGED <<stripe, rows, placed, faults>>

\* The session names its PaymentIntent once the customer has completed it.
CaptureLookup(w) ==
    /\ work[w].pc = "lookup"
    /\ IF pi = "absent"
       THEN Finish(w) /\ UNCHANGED <<linked, faults>>
       ELSE \/ linked' = TRUE /\ ToCharge(w, work[w].seen) /\ UNCHANGED faults
            \/ Fault("stripe") /\ Finish(w) /\ UNCHANGED linked
    /\ UNCHANGED <<stripe, pay, booked, ledger, owed, placed>>

\* Mutant: the rows are flipped whatever Stripe answers.
ChargeUnasked(w) ==
    /\ work[w].pc = "charge"
    /\ GoOn(w, "chargedRow")
    /\ UNCHANGED <<stripe, rows, placed, faults>>

\* paymentIntents.capture: it throws unless the money is held.
Charge(w) ==
    /\ work[w].pc = "charge"
    /\ \/ /\ pi = "requires_capture"
          /\ pi' = "succeeded"
          /\ \/ /\ work' = [work EXCEPT ![w].pc = "chargedRow"]
                /\ events' = events \union {Event("succeeded")}
                /\ UNCHANGED faults
             \/ Fault("stripe") /\ FinishWith(w, {Event("succeeded")})
       \/ /\ pi # "requires_capture"
          /\ Finish(w)
          /\ UNCHANGED <<pi, faults>>
       \/ /\ Fault("stripe")
          /\ Finish(w)
          /\ UNCHANGED pi
    /\ UNCHANGED <<capture, returned, rows, placed>>

\* The optimistic flip, in two updates; an error is logged and both are over.
ChargedRow(w) ==
    /\ work[w].pc = "chargedRow"
    /\ \/ pay' = "SUCCEEDED" /\ GoOn(w, "chargedOrder") /\ UNCHANGED faults
       \/ Fault("db") /\ Finish(w) /\ UNCHANGED pay
    /\ UNCHANGED <<stripe, linked, booked, ledger, owed, placed>>

ChargedOrder(w) ==
    /\ work[w].pc = "chargedOrder"
    /\ Finish(w)
    /\ \/ owed' = "PAID" /\ UNCHANGED faults
       \/ Fault("db") /\ UNCHANGED owed
    /\ UNCHANGED <<stripe, pay, linked, booked, ledger, placed>>

CaptureStep(w) ==
    CaptureRead(w) \/ CaptureLookup(w) \/ Charge(w) \/ ChargedRow(w) \/ ChargedOrder(w)
-----------------------------------------------------------------------------
(* refundForOrder and cancelAuthForOrder *)

\* Mutant: a row still PENDING is taken for unpaid.
RefundReadTrusting(w) ==
    /\ work[w].pc = "refund"
    /\ IF ~linked \/ pay = "PENDING" THEN Finish(w)
       ELSE GoOn(w, IF pay = "SUCCEEDED" THEN "return" ELSE "ask")
    /\ UNCHANGED <<stripe, rows, placed, faults>>

\* Unlike the capture, it does not look for a PaymentIntent it has not stored.
RefundRead(w) ==
    /\ work[w].pc = "refund"
    /\ IF ~linked THEN Finish(w)
       ELSE GoOn(w, IF pay = "SUCCEEDED" THEN "return" ELSE "ask")
    /\ UNCHANGED <<stripe, rows, placed, faults>>

\* The row says nothing was taken: Stripe is asked.
Ask(w) ==
    /\ work[w].pc = "ask"
    /\ \/ /\ CASE pi = "succeeded" -> GoOn(w, "return")
               [] pi \in Open      -> GoOn(w, "release")
               [] OTHER            -> Finish(w)
          /\ UNCHANGED faults
       \/ Fault("stripe") /\ GoOn(w, "release")
    /\ UNCHANGED <<stripe, rows, placed>>

\* refunds.create of the full amount: it throws if some went back before.
Return(w) ==
    /\ work[w].pc = "return"
    /\ \/ /\ pi = "succeeded" /\ returned = 0
          /\ returned' = Total
          /\ \/ /\ work' = [work EXCEPT ![w].pc = "returnedRow"]
                /\ events' = events \union {RefundedEvent(Total)}
                /\ UNCHANGED faults
             \/ Fault("stripe") /\ FinishWith(w, {RefundedEvent(Total)})
       \/ /\ pi # "succeeded" \/ returned > 0
          /\ Finish(w)
          /\ UNCHANGED <<returned, faults>>
       \/ /\ Fault("stripe")
          /\ Finish(w)
          /\ UNCHANGED returned
    /\ UNCHANGED <<capture, pi, rows, placed>>

ReturnedRow(w) ==
    /\ work[w].pc = "returnedRow"
    /\ \/ pay' = "REFUNDED" /\ GoOn(w, "returnedOrder") /\ UNCHANGED faults
       \/ Fault("db") /\ Finish(w) /\ UNCHANGED pay
    /\ UNCHANGED <<stripe, linked, booked, ledger, owed, placed>>

ReturnedOrder(w) ==
    /\ work[w].pc = "returnedOrder"
    /\ Finish(w)
    /\ \/ owed' = "REFUNDED" /\ UNCHANGED faults
       \/ Fault("db") /\ UNCHANGED owed
    /\ UNCHANGED <<stripe, pay, linked, booked, ledger, placed>>

\* cancelAuthForOrder reads the row again.
Release(w) ==
    /\ work[w].pc = "release"
    /\ IF pay \in {"CANCELLED", "REFUNDED", "FAILED"} \/ ~linked
       THEN Finish(w) ELSE GoOn(w, "void")
    /\ UNCHANGED <<stripe, rows, placed, faults>>

\* paymentIntents.cancel; the rows are left to the webhook.
Void(w) ==
    /\ work[w].pc = "void"
    /\ \/ /\ pi \in Open
          /\ pi' = "canceled"
          /\ FinishWith(w, {Event("canceled")})
          /\ UNCHANGED faults
       \/ /\ pi \notin Open
          /\ Finish(w)
          /\ UNCHANGED <<pi, faults>>
       \/ /\ Fault("stripe")
          /\ Finish(w)
          /\ UNCHANGED pi
    /\ UNCHANGED <<capture, returned, rows, placed>>

RefundStep(w) ==
    \/ RefundRead(w) \/ Ask(w) \/ Return(w) \/ ReturnedRow(w) \/ ReturnedOrder(w)
    \/ Release(w) \/ Void(w)
-----------------------------------------------------------------------------
(* createRefund *)

\* Mutant: the refund is booked whatever Stripe answers.
PartUnasked(w) ==
    /\ work[w].pc = "part"
    /\ GoOn(w, "book")
    /\ UNCHANGED <<stripe, rows, placed, faults>>

\* refundStripeAmount: nothing is written unless Stripe moved the money.
Part(w) ==
    LET sum == returned + work[w].amount IN
    /\ work[w].pc = "part"
    /\ \/ /\ pi = "succeeded" /\ sum <= Total
          /\ returned' = sum
          /\ \/ /\ work' = [work EXCEPT ![w].pc = "book"]
                /\ events' = events \union {RefundedEvent(sum)}
                /\ UNCHANGED faults
             \/ Fault("stripe") /\ FinishWith(w, {RefundedEvent(sum)})
       \/ /\ pi # "succeeded" \/ sum > Total
          /\ Finish(w)
          /\ UNCHANGED <<returned, faults>>
       \/ /\ Fault("stripe")
          /\ Finish(w)
          /\ UNCHANGED returned
    /\ UNCHANGED <<capture, pi, rows, placed>>

\* One transaction: the Refund row, and what it makes of payment and order.
\* Full or not is decided on the refunds read at the start.
Book(w) ==
    /\ work[w].pc = "book"
    /\ Finish(w)
    /\ \/ /\ booked' = booked + work[w].amount
          /\ pay' = IF work[w].amount >= Total - work[w].base THEN "REFUNDED" ELSE pay
          /\ owed' = IF pay' \in {"SUCCEEDED", "REFUNDED"} /\ booked' < Total
                     THEN "PARTIALLY_REFUNDED" ELSE "REFUNDED"
          /\ UNCHANGED faults
       \/ Fault("db") /\ UNCHANGED <<booked, pay, owed>>
    /\ UNCHANGED <<stripe, linked, ledger, placed>>

PartStep(w) == Part(w) \/ Book(w)
-----------------------------------------------------------------------------
(* dispatchStripeEvent and reconcileOrderPayment *)

\* findPaymentForPi finds the row by the order and stores the PaymentIntent.
Find(w) ==
    /\ work[w].pc \in {"succeeded", "capturable", "canceled"}
    /\ GoOn(w, CASE work[w].pc = "succeeded"  -> "confirm"
                 [] work[w].pc = "capturable" -> "authorise"
                 [] OTHER                     -> "cancelled")
    /\ linked' = TRUE
    /\ UNCHANGED <<stripe, pay, booked, ledger, owed, placed, faults>>

\* confirmPayment: a payment read as SUCCEEDED is left alone.
Confirm(w) ==
    /\ work[w].pc = "confirm"
    /\ IF linked /\ pay # "SUCCEEDED" THEN GoOn(w, "land") ELSE Finish(w)
    /\ UNCHANGED <<stripe, rows, placed, faults>>

Land(w) ==
    /\ work[w].pc = "land"
    /\ \/ pay' = "SUCCEEDED" /\ GoOn(w, "ledger") /\ UNCHANGED faults
       \/ Fault("db") /\ Finish(w) /\ UNCHANGED pay
    /\ UNCHANGED <<stripe, linked, booked, ledger, owed, placed>>

\* One transaction; it then announces the order to a staff board.
Ledger(w) ==
    /\ work[w].pc = "ledger"
    /\ Finish(w)
    /\ \/ ledger' = ledger + 1 /\ owed' = "PAID" /\ UNCHANGED faults
       \/ Fault("db") /\ UNCHANGED <<ledger, owed>>
    /\ UNCHANGED <<stripe, pay, linked, booked, placed>>

\* markAuthorized asks nothing of the row it overwrites.
Authorise(w) ==
    /\ work[w].pc = "authorise"
    /\ \/ pay' = "PROCESSING" /\ owed' = "AUTHORIZED" /\ GoOn(w, "announce") /\ UNCHANGED faults
       \/ Fault("db") /\ Finish(w) /\ UNCHANGED <<pay, owed>>
    /\ UNCHANGED <<stripe, linked, booked, ledger, placed>>

\* Mutant: the capture of an order accepted earlier is forgotten.
AnnounceOnly(w) ==
    /\ work[w].pc = "announce"
    /\ Finish(w)
    /\ UNCHANGED <<stripe, rows, placed, faults>>

\* Mutant: captured whatever the order's status.
AnnounceAndCapture(w) ==
    /\ work[w].pc = "announce"
    /\ GoOn(w, "capture")
    /\ UNCHANGED <<stripe, rows, placed, faults>>

\* An order accepted before the money was held is captured now.
Announce(w) ==
    /\ work[w].pc = "announce"
    /\ IF order \in AcceptedStates THEN GoOn(w, "capture") ELSE Finish(w)
    /\ UNCHANGED <<stripe, rows, placed, faults>>

MarkCancelled(w) ==
    /\ work[w].pc = "cancelled"
    /\ Finish(w)
    /\ \/ pay' = "CANCELLED" /\ owed' = "FAILED" /\ UNCHANGED faults
       \/ Fault("db") /\ UNCHANGED <<pay, owed>>
    /\ UNCHANGED <<stripe, linked, booked, ledger, placed>>

\* payment_intent.payment_failed: updateMany by the stored PaymentIntent.
PaymentFailed(w) ==
    /\ work[w].pc = "failed"
    /\ Finish(w)
    /\ pay' = IF linked THEN "FAILED" ELSE pay
    /\ UNCHANGED <<stripe, linked, booked, ledger, owed, placed, faults>>

\* Mutant: any refund counts as a full one.
MarkRefundedFull(w) ==
    /\ work[w].pc = "refunded"
    /\ Finish(w)
    /\ pay' = IF linked THEN "REFUNDED" ELSE pay
    /\ owed' = IF linked THEN "REFUNDED" ELSE owed
    /\ UNCHANGED <<stripe, linked, booked, ledger, placed, faults>>

\* markRefunded: the event carries Stripe's running total.
MarkRefunded(w) ==
    LET full == work[w].ev.amount >= Total IN
    /\ work[w].pc = "refunded"
    /\ Finish(w)
    /\ pay' = CASE ~linked -> pay [] full -> "REFUNDED" [] OTHER -> "SUCCEEDED"
    /\ owed' = CASE ~linked -> owed [] full -> "REFUNDED" [] OTHER -> "PARTIALLY_REFUNDED"
    /\ UNCHANGED <<stripe, linked, booked, ledger, placed, faults>>

\* Mutant: what is not paid is taken for cancelled.
PollElseCancelled(w) ==
    /\ work[w].pc = "poll"
    /\ CASE pi = "requires_capture" -> GoOn(w, "capturable")
         [] pi = "succeeded" -> GoOn(w, IF capture = "manual" THEN "capturable" ELSE "confirm")
         [] OTHER            -> GoOn(w, "canceled")
    /\ UNCHANGED <<stripe, rows, placed, faults>>

\* The poll read the row as PENDING and acts on what Stripe says of it.
Poll(w) ==
    /\ work[w].pc = "poll"
    /\ CASE pi = "requires_capture" -> GoOn(w, "capturable")
         [] pi = "succeeded" -> GoOn(w, IF capture = "manual" THEN "capturable" ELSE "confirm")
         [] pi = "canceled"  -> GoOn(w, "canceled")
         [] OTHER            -> Finish(w)
    /\ UNCHANGED <<stripe, rows, placed, faults>>

WebhookStep(w) ==
    \/ Find(w) \/ Confirm(w) \/ Land(w) \/ Ledger(w) \/ Authorise(w) \/ Announce(w)
    \/ MarkCancelled(w) \/ PaymentFailed(w) \/ MarkRefunded(w) \/ Poll(w)
-----------------------------------------------------------------------------
Crash(w) ==
    /\ work[w] # Idle
    /\ Fault("crash")
    /\ work' = [work EXCEPT ![w] = Idle]
    /\ UNCHANGED <<stripe, rows, placed, events>>

Step(w) == CaptureStep(w) \/ RefundStep(w) \/ PartStep(w) \/ WebhookStep(w)

Next ==
    \/ Pays \/ Declined \/ HoldExpires
    \/ \E e \in events : EventLost(e)
    \/ \E to \in Stages : UpdateStatus(to)
    \/ \E w \in Workers :
           \/ \E call \in spawned : StartSpawned(w, call)
           \/ \E e \in events : Deliver(w, e)
           \/ StartPoll(w)
           \/ \E amount \in 1 .. Total : StartPart(w, amount)
           \/ Step(w) \/ Crash(w)

Spec == Init /\ [][Next]_vars

\* A handler goes on to its end, a spawned call starts and Stripe delivers.
\* The last two are strong: nothing in the code waits for a free handler.
FairSpec ==
    /\ Spec
    /\ \A w \in Workers : WF_vars(Step(w))
    /\ SF_vars(\E w \in Workers, call \in spawned : StartSpawned(w, call))
    /\ SF_vars(\E w \in Workers, e \in events : Deliver(w, e))
-----------------------------------------------------------------------------
(* Properties *)

\* We never say money was taken that Stripe has not charged.
PaidMeansCharged == pay = "SUCCEEDED" \/ owed = "PAID" => pi = "succeeded"

\* A payment counts as refunded only when all of it went back, though every
\* refund decides on what it read before the money moved.
RefundedMeansReturned == pay = "REFUNDED" => returned = Total

\* A payment counts as released only when Stripe can no longer charge it.
CancelledMeansReleased == pay = "CANCELLED" \/ owed = "FAILED" => pi = "canceled"

\* Held money is taken only for an order the shop has accepted: a rejected
\* customer "sees no charge on their statement" (payments.service.ts:2402).
ChargedMeansAccepted == capture = "manual" /\ pi = "succeeded" => accepted

\* "This never books money Stripe didn't move" (payments.service.ts:800).
BookedMeansMoved == booked <= returned

\* The money held for an accepted order is taken, in whichever order the accept
\* and the authorisation arrive, "or the money stays held"
\* (payments.service.ts:2767), unless somebody dies, fails or is not told.
AcceptedIsCaptured ==
    (pi = "requires_capture" /\ order \in AcceptedStates)
        ~> \/ pi # "requires_capture" \/ order \notin AcceptedStates
           \/ faults.kinds \intersect {"crash", "stripe", "lost", "db"} # {}

\* The money a customer parted with for an order that is then rejected is
\* released or goes back, however far the payment had come, though webhooks never
\* arrive and writes fail: a row that says nothing was taken is not believed.
RejectedIsReleased ==
    (order = "REJECTED" /\ "refund" \in spawned /\ linked /\ ~accepted
        /\ pi \in {"requires_capture", "succeeded"})
        ~> (pi = "canceled" \/ returned > 0 \/ faults.kinds \intersect {"crash", "stripe"} # {})

\* Who has the return or the release of the money before him.
Releasing(w) ==
    \/ work[w].pc \in {"refund", "ask"}
    \/ work[w].pc = "return" /\ pi = "succeeded"
    \/ work[w].pc \in {"release", "void"} /\ pi = "requires_capture"

ReleaseIsUnderWay ==
    /\ order \in {"CANCELLED", "REJECTED"} /\ ~accepted
    /\ linked /\ pi \in {"requires_capture", "succeeded"} /\ returned = 0
    /\ "refund" \in spawned \/ \E w \in Workers : Releasing(w)

\* Once the money of an order the shop did not take is on its way back, no poll,
\* late webhook, second refund or failed write lets it get stuck: each read of a
\* row that may lag behind Stripe leads on to the call that moves the money.
ReleaseIsKept ==
    [][ReleaseIsUnderWay =>
           \/ ReleaseIsUnderWay' \/ pi' = "canceled" \/ returned' > 0
           \/ faults'.kinds \intersect {"crash", "stripe"} # {}]_vars
=============================================================================
