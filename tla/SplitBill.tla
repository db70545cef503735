----------------------------- MODULE SplitBill -----------------------------
(***************************************************************************)
(* A bill that several guests pay part by part: tablets that take cash, or *)
(* that charge a card on a reader, and Stripe's webhook and the till's poll*)
(* that settle a card part.  Each part is one Payment row of the order; the*)
(* part that covers the bill marks the order PAID, completes it and frees  *)
(* the table.                                                              *)
(*                                                                         *)
(* Every database statement and call to Stripe is a step.  Amounts are     *)
(* whole units, without the rounding penny.  Tips, the items a part covers,*)
(* other card machines and refunds are left out.                           *)
(***************************************************************************)
EXTENDS Naturals, FiniteSets

CONSTANTS
    Parts,     \* the parts that may be paid; a card part is its PaymentIntent too
    Nobody,    \* no part
    Workers,   \* requests and webhooks that may be under way at once
    Total,     \* what the bill comes to
    Faults,    \* which faults happen, of AllFaults
    MaxFaults  \* and how often in all

AllFaults == {"early",   \* a webhook arrives before the row is written
              "decline", \* a card is declined, the customer tries another
              "late",    \* and that is reported after the other was taken
              "whole",   \* the whole bill is charged though a part is paid
              "twice",   \* Stripe delivers an event while it is handled
              "crash"}   \* a handler dies, or throws: the webhook swallows it

ASSUME PartsAssumption == IsFiniteSet(Parts)
ASSUME TotalAssumption == Total \in Nat \ {0}
ASSUME FaultsAssumption == Faults \subseteq AllFaults
ASSUME MaxFaultsAssumption == MaxFaults \in Nat
ASSUME NobodyAssumption == Nobody \notin Parts

VARIABLES
    kind,    \* how each part is paid
    amount,  \* Payment.amount
    row,     \* Payment.status of each part
    stored,  \* Payment.stripePaymentIntentId: unique in the table
    latest,  \* the card row created last
    intent,  \* the PaymentIntents at Stripe
    paid,    \* Order.paymentStatus is PAID
    freed,   \* the order is COMPLETED and the table is free
    overlap, \* a part was begun while another was under way
    events,  \* webhook events under way
    work,    \* what each handler is doing
    faults   \* how many faults so far, and of which kinds

part  == <<kind, amount>>
rows  == <<row, stored, latest>>
bill  == <<paid, freed>>
vars  == <<part, rows, intent, bill, overlap, events, work, faults>>

Kinds == {"none", "manual", "split", "whole"}
RowStatuses == {"none", "PROCESSING", "SUCCEEDED", "FAILED"}
Events == [type : {"succeeded", "failed"}, part : Parts]
Event(type, p) == [type |-> type, part |-> p]

\* part: the part or PaymentIntent being handled; row: the row found for it.
At(pc, p, r) == [pc |-> pc, part |-> p, row |-> r]
Idle == At("idle", Nobody, Nobody)
Places == {"idle", "create", "sum", "present", "record", "find", "bank", "check",
           "pay", "free"}

FaultLog == [n : Nat, kinds : SUBSET AllFaults]

Fault(f) ==
    /\ f \in Faults
    /\ faults.n < MaxFaults
    /\ faults' = [n |-> faults.n + 1, kinds |-> faults.kinds \union {f}]

\* What parts come to, unit by unit.
AmountOf(ps) == Cardinality({u \in ps \X (1 .. Total) : u[2] <= amount[u[1]]})

\* paymentSummary and paidSoFarGbp: only SUCCEEDED rows count.
Banked == AmountOf({p \in Parts : row[p] = "SUCCEEDED"})
-----------------------------------------------------------------------------
TypeOK ==
    /\ kind \in [Parts -> Kinds]
    /\ amount \in [Parts -> 0 .. Total]
    /\ row \in [Parts -> RowStatuses]
    /\ stored \in [Parts -> Parts \union {Nobody}]
    /\ latest \in Parts \union {Nobody}
    /\ intent \in [Parts -> {"none", "waiting", "succeeded"}]
    /\ paid \in BOOLEAN /\ freed \in BOOLEAN /\ overlap \in BOOLEAN
    /\ events \subseteq Events
    /\ work \in [Workers -> [pc : Places, part : Parts \union {Nobody},
                             row : Parts \union {Nobody}]]
    /\ faults \in FaultLog

\* An open tab at a table, nothing paid yet.
Init ==
    /\ kind = [p \in Parts |-> "none"]
    /\ amount = [p \in Parts |-> 0]
    /\ row = [p \in Parts |-> "none"]
    /\ stored = [p \in Parts |-> Nobody]
    /\ latest = Nobody
    /\ intent = [p \in Parts |-> "none"]
    /\ paid = FALSE /\ freed = FALSE /\ overlap = FALSE
    /\ events = {}
    /\ work = [w \in Workers |-> Idle]
    /\ faults = [n |-> 0, kinds |-> {}]

GoOn(w, pc) == work' = [work EXCEPT ![w].pc = pc]
Finish(w) == work' = [work EXCEPT ![w] = Idle]
-----------------------------------------------------------------------------
(* Taking a part: OrdersService.addPayment, TerminalService.chargeOrder *)

\* Money may still come in for the part, or is in and not yet counted.
UnderWay(p) ==
    \/ \E w \in Workers : work[w].part = p /\ work[w].pc \in {"create", "present", "record"}
    \/ intent[p] = "waiting"
    \/ intent[p] = "succeeded" /\ row[p] # "SUCCEEDED"

Begin(w, p, k, n, pc) ==
    /\ work[w] = Idle
    /\ kind[p] = "none"
    /\ kind' = [kind EXCEPT ![p] = k]
    /\ amount' = [amount EXCEPT ![p] = n]
    /\ work' = [work EXCEPT ![w] = At(pc, p, Nobody)]
    /\ overlap' = (overlap \/ \E q \in Parts : UnderWay(q))
    /\ UNCHANGED <<rows, intent, bill, events>>

\* Mutant: the ceiling is the bill, not what is still owed.
AddPaymentNaive(w, p, n) ==
    /\ Banked < Total /\ n <= Total
    /\ Begin(w, p, "manual", n, "create")
    /\ UNCHANGED faults

\* The amount is checked against what is owed now.
AddPayment(w, p, n) ==
    /\ Banked < Total /\ n <= Total - Banked
    /\ Begin(w, p, "manual", n, "create")
    /\ UNCHANGED faults

Create(w) ==
    /\ work[w].pc = "create"
    /\ row' = [row EXCEPT ![work[w].part] = "SUCCEEDED"]
    /\ GoOn(w, "sum")
    /\ UNCHANGED <<part, stored, latest, intent, bill, events, faults, overlap>>

\* Sums again, its own row included.
SumAfter(w) ==
    /\ work[w].pc = "sum"
    /\ IF Banked >= Total THEN GoOn(w, "pay") ELSE Finish(w)
    /\ UNCHANGED <<part, rows, intent, bill, events, faults, overlap>>

ChargeOrder(w, p, n) ==
    /\ ~paid
    /\ Banked < Total /\ n <= Total - Banked
    /\ Begin(w, p, "split", n, "present")
    /\ UNCHANGED faults

\* Without an amount the reader is sent the whole bill, whatever is paid of it
\* already.  The till's "Pay & close" sends none for what is left of a tab.
ChargeWhole(w, p) ==
    /\ ~paid
    /\ Begin(w, p, "whole", Total, "present")
    /\ \/ Banked = 0 /\ UNCHANGED faults
       \/ Banked > 0 /\ Fault("whole")

\* The PaymentIntent goes to the reader before there is a row for it.
Present(w) ==
    LET p == work[w].part IN
    /\ work[w].pc = "present"
    /\ intent' = [intent EXCEPT ![p] = "waiting"]
    /\ GoOn(w, "record")
    /\ UNCHANGED <<part, rows, bill, events, faults, overlap>>

Holder(p) == {r \in Parts : stored[r] = p}

\* The create throws when a row has the PaymentIntent already.
Record(w) ==
    LET p == work[w].part IN
    /\ work[w].pc = "record"
    /\ Finish(w)
    /\ IF Holder(p) = {}
       THEN /\ row' = [row EXCEPT ![p] = "PROCESSING"]
            /\ stored' = [stored EXCEPT ![p] = p]
            /\ latest' = p
       ELSE UNCHANGED rows
    /\ UNCHANGED <<part, intent, bill, events, faults, overlap>>

TakeStep(w) == Create(w) \/ SumAfter(w) \/ Present(w) \/ Record(w)
-----------------------------------------------------------------------------
(* The customer at the reader *)

Tap(p) ==
    /\ intent[p] = "waiting"
    /\ intent' = [intent EXCEPT ![p] = "succeeded"]
    /\ events' = events \union {Event("succeeded", p)}
    /\ UNCHANGED <<part, rows, bill, work, faults, overlap>>

\* Declined: the reader asks for another card.
Decline(p) ==
    /\ intent[p] = "waiting"
    /\ Fault("decline")
    /\ events' = events \union {Event("failed", p)}
    /\ UNCHANGED <<part, rows, intent, bill, work, overlap>>
-----------------------------------------------------------------------------
(* dispatchStripeEvent, TerminalService.status and settleTerminalPi *)

\* Mutant: a status Payment does not have.
DeliverDeclined(p) ==
    /\ Event("failed", p) \in events
    /\ row' = [r \in Parts |-> IF stored[r] = p THEN "DECLINED" ELSE row[r]]
    /\ events' = events \ {Event("failed", p)}
    /\ UNCHANGED <<part, stored, latest, intent, bill, work, faults, overlap>>

\* payment_intent.payment_failed: one updateMany, whatever the row says.
DeliverFailed(p) ==
    /\ Event("failed", p) \in events
    /\ faults' = IF intent[p] = "succeeded"
                 THEN [faults EXCEPT !.kinds = @ \union {"late"}] ELSE faults
    /\ row' = [r \in Parts |-> IF stored[r] = p THEN "FAILED" ELSE row[r]]
    /\ events' = events \ {Event("failed", p)}
    /\ UNCHANGED <<part, stored, latest, intent, bill, work, overlap>>

DeliverSucceeded(w, p) ==
    /\ work[w] = Idle
    /\ Event("succeeded", p) \in events
    /\ \/ Holder(p) # {} /\ UNCHANGED faults /\ events' = events \ {Event("succeeded", p)}
       \/ Holder(p) # {} /\ Fault("twice") /\ UNCHANGED events
       \/ Holder(p) = {} /\ Fault("early") /\ events' = events \ {Event("succeeded", p)}
    /\ work' = [work EXCEPT ![w] = At("find", p, Nobody)]
    /\ UNCHANGED <<part, rows, intent, bill, overlap>>

\* The charge of a card part has returned, and its till begins to ask how it stands.
Charged(p) == kind[p] # "manual" /\ row[p] # "none"

\* Mutant: the poll settles without asking Stripe.
PollUnasked(w, p) ==
    /\ work[w] = Idle
    /\ Charged(p)
    /\ work' = [work EXCEPT ![w] = At("find", p, Nobody)]
    /\ UNCHANGED <<part, rows, intent, bill, events, faults, overlap>>

\* status asks Stripe, never the row, and settles a card that was taken.  The till
\* calls it every two seconds until it is told paid, declined or cancelled or its
\* modal is closed, and then never again: no poll need ever come.
Poll(w, p) ==
    /\ work[w] = Idle
    /\ Charged(p)
    /\ intent[p] = "succeeded"
    /\ work' = [work EXCEPT ![w] = At("find", p, Nobody)]
    /\ UNCHANGED <<part, rows, intent, bill, events, faults, overlap>>

\* Mutant: a row a declined card left FAILED is taken for finished.
FindPending(w) ==
    /\ work[w].pc = "find"
    /\ \/ \E r \in Holder(work[w].part) :
              row[r] = "PROCESSING" /\ work' = [work EXCEPT ![w] = At("bank", work[w].part, r)]
       \/ (\A r \in Holder(work[w].part) : row[r] # "PROCESSING") /\ Finish(w)
    /\ UNCHANGED <<part, rows, intent, bill, events, faults, overlap>>

\* findPaymentForPi: failing a row of its own, the order's latest card row is
\* taken for it.  A row read as SUCCEEDED is left alone.
Find(w) ==
    LET p == work[w].part
        found == IF Holder(p) # {} THEN Holder(p) ELSE {latest} \ {Nobody} IN
    /\ work[w].pc = "find"
    /\ stored' = [r \in Parts |-> IF r \in found THEN p ELSE stored[r]]
    /\ \/ \E r \in found : row[r] # "SUCCEEDED" /\ work' = [work EXCEPT ![w] = At("bank", p, r)]
       \/ (\A r \in found : row[r] = "SUCCEEDED") /\ Finish(w)
    /\ UNCHANGED <<part, row, latest, intent, bill, events, faults, overlap>>

\* Mutant: a part of the bill pays the bill.
BankAsWhole(w) ==
    /\ work[w].pc = "bank"
    /\ row' = [row EXCEPT ![work[w].row] = "SUCCEEDED"]
    /\ paid' = TRUE
    /\ GoOn(w, "free")
    /\ UNCHANGED <<part, stored, latest, intent, freed, events, faults, overlap>>

\* A whole charge marks row and order in one transaction; a part only its row.
Bank(w) ==
    LET r == work[w].row IN
    /\ work[w].pc = "bank"
    /\ row' = [row EXCEPT ![r] = "SUCCEEDED"]
    /\ IF kind[r] = "whole"
       THEN paid' = TRUE /\ GoOn(w, "free")
       ELSE GoOn(w, "check") /\ UNCHANGED paid
    /\ UNCHANGED <<part, stored, latest, intent, freed, events, faults, overlap>>

\* Mutant: its own part is counted, those settled meanwhile are not.
CheckCoveredAlone(w) ==
    /\ work[w].pc = "check"
    /\ IF amount[work[w].row] >= Total THEN GoOn(w, "pay") ELSE Finish(w)
    /\ UNCHANGED <<part, rows, intent, bill, events, faults, overlap>>

\* settleSplitPart: do the parts cover the bill, with this one?
CheckCovered(w) ==
    /\ work[w].pc = "check"
    /\ IF Banked >= Total /\ ~paid THEN GoOn(w, "pay") ELSE Finish(w)
    /\ UNCHANGED <<part, rows, intent, bill, events, faults, overlap>>

SettleStep(w) == Find(w) \/ Bank(w) \/ CheckCovered(w)
-----------------------------------------------------------------------------
(* The bill is covered: PAID, then completeAndFreeTable *)

MarkPaid(w) ==
    /\ work[w].pc = "pay"
    /\ paid' = TRUE
    /\ GoOn(w, "free")
    /\ UNCHANGED <<part, rows, intent, freed, events, faults, overlap>>

\* In one step: what its parts can do to an order's status is in OrderLifecycle.
FreeTable(w) ==
    /\ work[w].pc = "free"
    /\ freed' = TRUE
    /\ Finish(w)
    /\ UNCHANGED <<part, rows, intent, paid, events, faults, overlap>>

CloseStep(w) == MarkPaid(w) \/ FreeTable(w)

Crash(w) ==
    /\ work[w] # Idle
    /\ Fault("crash")
    /\ Finish(w)
    /\ UNCHANGED <<part, rows, intent, bill, events, overlap>>
-----------------------------------------------------------------------------
Step(w) == TakeStep(w) \/ SettleStep(w) \/ CloseStep(w)

Next ==
    \/ \E p \in Parts : Tap(p) \/ Decline(p) \/ DeliverFailed(p)
    \/ \E w \in Workers :
           \/ \E p \in Parts :
                  \/ \E n \in 1 .. Total : AddPayment(w, p, n) \/ ChargeOrder(w, p, n)
                  \/ ChargeWhole(w, p) \/ DeliverSucceeded(w, p) \/ Poll(w, p)
           \/ Step(w) \/ Crash(w)

Spec == Init /\ [][Next]_vars

\* A handler goes on to its end, and Stripe delivers the event of a card that was
\* taken, for as long as it takes to find a free handler, which nothing in the
\* code waits for.  Nothing is promised of the till: it stops polling at any time.
FairSpec ==
    /\ Spec
    /\ \A w \in Workers : WF_vars(Step(w))
    /\ \A p \in Parts : SF_vars(\E w \in Workers : DeliverSucceeded(w, p))
-----------------------------------------------------------------------------
(* Properties *)

\* What customers have parted with.
Taken == AmountOf({p \in Parts : \/ kind[p] = "manual" /\ row[p] = "SUCCEEDED"
                                 \/ intent[p] = "succeeded"})

\* No part counts whose card was not taken, unless a webhook that came before
\* its own row made off with the row of another part.
BankedMeansCharged ==
    \A p \in Parts : /\ row[p] = "SUCCEEDED" /\ kind[p] # "manual"
                     /\ "early" \notin faults.kinds
                     => intent[p] = "succeeded"

\* A part "settles ITSELF, not the bill" (payments.service.ts:1251): an order is
\* PAID, and its table freed, only once the money taken covers it.
PaidMeansTaken ==
    (paid \/ freed) /\ "early" \notin faults.kinds => Taken >= Total

\* "the ceiling is what's still OWED, not the order total" (terminal.service.ts:600):
\* one part at a time a table is never overcharged, whoever takes the parts and
\* however late they are settled, unless a tab that is partly paid is closed with
\* a charge of the whole.
NeverOvercharged ==
    ~overlap /\ faults.kinds \intersect {"early", "late", "whole"} = {}
        => Taken <= Total

\* Whichever part closes the gap, however the parts race: somebody sees that the
\* bill is covered, and the table is freed, unless a handler died or the report of
\* an earlier decline took a part out of the sum again (settleSplitPart).
CoveredIsFreed ==
    (Banked >= Total) ~> (freed \/ Banked < Total \/ "crash" \in faults.kinds)

\* Stripe has the money of a card part and its row does not say so.
Unbanked(p) == intent[p] = "succeeded" /\ row[p] # "SUCCEEDED"

\* Money somebody is still to hear of: once the webhook is through and the report
\* of an earlier decline came after it, nobody is left to repair the row.
Owing(p) ==
    Unbanked(p) /\ (Event("succeeded", p) \in events \/ "late" \notin faults.kinds)

\* A card that was taken is banked by Stripe's webhook, with the till polling or
\* not, however often the two meet and whatever was declined before, unless the
\* webhook came before the row or its handler died (findPaymentForPi).
ChargedIsBanked ==
    \A p \in Parts :
        Owing(p) ~> (~Unbanked(p) \/ faults.kinds \intersect {"early", "crash"} # {})
=============================================================================
