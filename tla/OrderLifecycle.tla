--------------------------- MODULE OrderLifecycle ---------------------------
(***************************************************************************)
(* Every writer of an order's status in apps/api orders/, running          *)
(* concurrently against the order rows.  A handler reads a row, awaits,    *)
(* and writes; the steps between its database calls are separate actions.  *)
(*                                                                         *)
(* OrdersService.updateStatus commits under an optimistic check on the     *)
(* row's updatedAt.  The other writers (resyncMarketplaceItems,            *)
(* completeAndFreeTable, the 5am rollover) do not.  Handlers names the     *)
(* ones a configuration runs, so a property can be asked of the guarded    *)
(* writers alone and of all of them.                                       *)
(***************************************************************************)
EXTENDS OrderStatus, Sequences

CONSTANTS
    Orders,      \* order rows
    Requests,    \* handler invocations that may be in flight at once
    Handlers,    \* which writers run
    AutoAccept,  \* location setting autoAcceptOrders
    MaxWrites    \* no new handler starts on a row written this often

AllHandlers == {"staff", "webhook", "autoAccept", "retail", "resync",
                "tab", "rollover", "touch", "crash"}

ASSUME HandlersAssumption == Handlers \subseteq AllHandlers
ASSUME AutoAcceptAssumption == AutoAccept \in BOOLEAN
ASSUME MaxWritesAssumption == MaxWrites \in Nat

\* How an order came in: it fixes which handlers ever see the row.
Channels == {"marketplace", "delivery", "table", "counter"}

Actors == {"STAFF", "SYSTEM", "WEBHOOK"}

VARIABLES
    channel,    \* channel[o]: fixed when the order is created
    status,     \* Order.status
    updatedAt,  \* Order.updatedAt: grows with every write that stamps it
    paid,       \* Order.paymentStatus = PAID
    untouched,  \* nobody has written the row since before the rollover cutoff
    trail,      \* OrderStatusHistory rows, oldest first
    knocks,     \* maybeAutoAccept calls spawned and not yet run
    followUp,   \* create() has still to write its posUpdate
    req,        \* the handlers in flight
    rollover    \* the rows OrdersAutoCompleteCron has read and not yet written

row  == <<status, updatedAt, untouched>>
vars == <<channel, status, updatedAt, paid, untouched, trail, knocks,
          followUp, req, rollover>>

NotRead == "not read"
Idle == [pc |-> "idle"]
Request == [pc : {"load", "commit", "retail", "retailWrite", "retailAudit",
                  "resync", "tab", "tabAudit"},
            order : Orders, to : Statuses, seen : Statuses, ver : Nat]
Audit == [from : Statuses, to : Statuses]

Snapshot(pc, o, to) ==
    [pc |-> pc, order |-> o, to |-> to, seen |-> status[o], ver |-> updatedAt[o]]

-----------------------------------------------------------------------------
TypeOK ==
    /\ channel \in [Orders -> Channels]
    /\ status \in [Orders -> Statuses]
    /\ updatedAt \in [Orders -> Nat]
    /\ paid \in [Orders -> BOOLEAN]
    /\ untouched \in [Orders -> BOOLEAN]
    /\ trail \in [Orders -> Seq(Audit)]
    /\ knocks \in [Orders -> Nat]
    /\ followUp \in [Orders -> BOOLEAN]
    /\ req \in [Requests -> Request \union {Idle}]
    /\ rollover \in [Orders -> Statuses \union {NotRead}]

\* ingestCanonical: the row, its first history row and, unless the order waits
\* for our own card authorisation, one maybeAutoAccept.
Init ==
    /\ channel \in [Orders -> Channels]
    /\ status = [o \in Orders |-> "PENDING"]
    /\ updatedAt = [o \in Orders |-> 0]
    /\ paid = [o \in Orders |-> channel[o] = "marketplace"]
    /\ untouched = [o \in Orders |-> FALSE]
    /\ trail = [o \in Orders |-> << [from |-> "PENDING", to |-> "PENDING"] >>]
    /\ knocks = [o \in Orders |-> 1]
    /\ followUp = [o \in Orders |-> channel[o] # "marketplace"]
    /\ req = [r \in Requests |-> Idle]
    /\ rollover = [o \in Orders |-> NotRead]

\* Mutant: the write leaves updatedAt as it was, as raw SQL does.
StampNothing(o) ==
    /\ untouched' = [untouched EXCEPT ![o] = FALSE]
    /\ UNCHANGED updatedAt

\* A Prisma write of the row: @updatedAt is stamped with it.
Stamp(o) ==
    /\ updatedAt' = [updatedAt EXCEPT ![o] = @ + 1]
    /\ untouched' = [untouched EXCEPT ![o] = FALSE]

WriteStatus(o, to) ==
    /\ status' = [status EXCEPT ![o] = to]
    /\ Stamp(o)

Record(o, from, to) ==
    trail' = [trail EXCEPT ![o] = Append(@, [from |-> from, to |-> to])]

Become(r, q) == req' = [req EXCEPT ![r] = q]

\* A new handler may start on o.
MayStart(r, o) == req[r] = Idle /\ updatedAt[o] < MaxWrites
-----------------------------------------------------------------------------
(* OrdersService.updateStatus *)

\* What updateStatus refuses after reading the row.
Permits(o, to, actor) ==
    /\ IF actor = "WEBHOOK" THEN AssertWebhookTransition(status[o], to)
                            ELSE AssertTransition(status[o], to)
    /\ ~(channel[o] = "marketplace" /\ actor = "STAFF" /\ to \in PostReady)

\* Staff on the board, or a courier or marketplace webhook, asks for a status.
\* The checks run on the row as it is read here; a refused call changes nothing.
UpdateStatusRead(r, o, to, actor) ==
    /\ \/ actor = "STAFF" /\ "staff" \in Handlers
       \/ /\ actor = "WEBHOOK" /\ "webhook" \in Handlers
          /\ to \in WebhookTargets
          /\ channel[o] \in {"marketplace", "delivery"}
    /\ MayStart(r, o)
    /\ Permits(o, to, actor)
    /\ Become(r, Snapshot("commit", o, to))
    /\ UNCHANGED <<channel, row, paid, trail, knocks, followUp, rollover>>

\* Mutant: update by id, without the optimistic check.
UpdateStatusCommitById(r) ==
    LET q == req[r] IN
    /\ q.pc = "commit"
    /\ WriteStatus(q.order, q.to)
    /\ Record(q.order, q.seen, q.to)
    /\ Become(r, Idle)
    /\ UNCHANGED <<channel, paid, knocks, followUp, rollover>>

\* updateMany where updatedAt is still the one read, with its history row.
\* Accepting a shop's counter sale goes on to maybeCompleteRetailSale.
UpdateStatusCommit(r) ==
    LET q == req[r] IN
    /\ q.pc = "commit"
    /\ updatedAt[q.order] = q.ver
    /\ WriteStatus(q.order, q.to)
    /\ Record(q.order, q.seen, q.to)
    /\ Become(r, IF /\ "retail" \in Handlers
                    /\ q.to = "ACCEPTED" /\ channel[q.order] = "counter"
                 THEN [q EXCEPT !.pc = "retail"] ELSE Idle)
    /\ UNCHANGED <<channel, paid, knocks, followUp, rollover>>

\* ConflictException: the row moved on since it was read.
UpdateStatusConflict(r) ==
    /\ req[r].pc = "commit"
    /\ updatedAt[req[r].order] # req[r].ver
    /\ Become(r, Idle)
    /\ UNCHANGED <<channel, row, paid, trail, knocks, followUp, rollover>>

-----------------------------------------------------------------------------
(* Creation, payment and automatic acceptance *)

\* create() writes its POS columns in a second update, after ingestCanonical
\* has already spawned maybeAutoAccept.
CreateFollowUp(o) ==
    /\ followUp[o]
    /\ followUp' = [followUp EXCEPT ![o] = FALSE]
    /\ Stamp(o)
    /\ UNCHANGED <<channel, status, paid, trail, knocks, req, rollover>>

\* Mutant: the payment is written and nobody knocks.
SetPaymentStatusSilently(o, isPaid) ==
    /\ "staff" \in Handlers
    /\ updatedAt[o] < MaxWrites
    /\ paid' = [paid EXCEPT ![o] = isPaid]
    /\ Stamp(o)
    /\ UNCHANGED <<channel, status, trail, knocks, followUp, req, rollover>>

\* setPaymentStatus: PAID on a pending order knocks on the accept gate.
SetPaymentStatus(o, isPaid) ==
    /\ "staff" \in Handlers
    /\ updatedAt[o] < MaxWrites
    /\ paid' = [paid EXCEPT ![o] = isPaid]
    /\ Stamp(o)
    /\ knocks' = IF isPaid /\ status[o] = "PENDING"
                 THEN [knocks EXCEPT ![o] = @ + 1] ELSE knocks
    /\ UNCHANGED <<channel, status, trail, followUp, req, rollover>>

\* Any of the writers of other columns: courier fields, loyalty, table, edits.
Touch(o) ==
    /\ "touch" \in Handlers
    /\ updatedAt[o] < MaxWrites
    /\ Stamp(o)
    /\ UNCHANGED <<channel, status, paid, trail, knocks, followUp, req, rollover>>

\* maybeAutoAccept's own read: the location setting (a counter sale needs
\* none), the order still PENDING, and walk-in cash already taken.
AutoAcceptGate(o) ==
    /\ AutoAccept \/ channel[o] = "counter"
    /\ status[o] = "PENDING"
    /\ channel[o] = "counter" => paid[o]

\* Mutant: runs on orders nobody knocked for.
AutoAcceptCheckUnasked(r, o) ==
    /\ "autoAccept" \in Handlers
    /\ req[r] = Idle
    /\ knocks' = [knocks EXCEPT ![o] = @ - 1]
    /\ Become(r, IF AutoAcceptGate(o) THEN Snapshot("load", o, "ACCEPTED") ELSE Idle)
    /\ UNCHANGED <<channel, row, paid, trail, followUp, rollover>>

AutoAcceptCheck(r, o) ==
    /\ "autoAccept" \in Handlers
    /\ req[r] = Idle
    /\ knocks[o] > 0
    /\ knocks' = [knocks EXCEPT ![o] = @ - 1]
    /\ Become(r, IF AutoAcceptGate(o) THEN Snapshot("load", o, "ACCEPTED") ELSE Idle)
    /\ UNCHANGED <<channel, row, paid, trail, followUp, rollover>>

\* Its call of updateStatus reads the row again.
AutoAcceptLoad(r) ==
    LET q == req[r] IN
    /\ q.pc = "load"
    /\ Become(r, IF Permits(q.order, q.to, "SYSTEM")
                 THEN Snapshot("commit", q.order, q.to) ELSE Idle)
    /\ UNCHANGED <<channel, row, paid, trail, knocks, followUp, rollover>>

-----------------------------------------------------------------------------
(* OrdersService.maybeCompleteRetailSale *)

RetailRead(r) ==
    LET q == req[r] IN
    /\ q.pc = "retail"
    /\ Become(r, IF paid[q.order] /\ status[q.order] = "ACCEPTED"
                 THEN Snapshot("retailWrite", q.order, "COMPLETED") ELSE Idle)
    /\ UNCHANGED <<channel, row, paid, trail, knocks, followUp, rollover>>

\* updateMany where status is still ACCEPTED.
RetailWrite(r) ==
    LET q == req[r] IN
    /\ q.pc = "retailWrite"
    /\ IF status[q.order] = "ACCEPTED"
       THEN /\ WriteStatus(q.order, "COMPLETED")
            /\ Become(r, [q EXCEPT !.pc = "retailAudit"])
       ELSE Become(r, Idle) /\ UNCHANGED row
    /\ UNCHANGED <<channel, paid, trail, knocks, followUp, rollover>>

\* The history row is a statement of its own.
RetailAudit(r) ==
    /\ req[r].pc = "retailAudit"
    /\ Record(req[r].order, "ACCEPTED", "COMPLETED")
    /\ Become(r, Idle)
    /\ UNCHANGED <<channel, row, paid, knocks, followUp, rollover>>
-----------------------------------------------------------------------------
(* The writers without the optimistic check *)

\* resyncMarketplaceItems: a finished order is left alone, a re-offered one
\* goes back to PENDING, any other is to keep the status just read.
ResyncRead(r, o, reOffered) ==
    /\ "resync" \in Handlers
    /\ channel[o] = "marketplace"
    /\ MayStart(r, o)
    /\ status[o] \notin Terminal
    /\ Become(r, Snapshot("resync", o, IF reOffered THEN "PENDING" ELSE status[o]))
    /\ UNCHANGED <<channel, row, paid, trail, knocks, followUp, rollover>>

\* order.update by id, with its history row.
ResyncWrite(r) ==
    LET q == req[r] IN
    /\ q.pc = "resync"
    /\ WriteStatus(q.order, q.to)
    /\ Record(q.order, q.seen, q.to)
    /\ Become(r, Idle)
    /\ UNCHANGED <<channel, paid, knocks, followUp, rollover>>

\* completeAndFreeTable, called when the tab's last part is paid.
TabRead(r, o) ==
    /\ "tab" \in Handlers
    /\ channel[o] = "table"
    /\ MayStart(r, o)
    /\ status[o] \notin {"COMPLETED", "CANCELLED"}
    /\ Become(r, Snapshot("tab", o, "COMPLETED"))
    /\ UNCHANGED <<channel, row, paid, trail, knocks, followUp, rollover>>

TabWrite(r) ==
    /\ req[r].pc = "tab"
    /\ WriteStatus(req[r].order, "COMPLETED")
    /\ Become(r, [req[r] EXCEPT !.pc = "tabAudit"])
    /\ UNCHANGED <<channel, paid, trail, knocks, followUp, rollover>>

TabAudit(r) ==
    /\ req[r].pc = "tabAudit"
    /\ Record(req[r].order, req[r].seen, "COMPLETED")
    /\ Become(r, Idle)
    /\ UNCHANGED <<channel, row, paid, knocks, followUp, rollover>>

\* An hour passes, and the last 05:00, with nobody writing the row.
GoQuiet(o) ==
    /\ "rollover" \in Handlers
    /\ ~untouched[o]
    /\ untouched' = [untouched EXCEPT ![o] = TRUE]
    /\ UNCHANGED <<channel, status, updatedAt, paid, trail, knocks, followUp, req, rollover>>

\* OrdersAutoCompleteCron.run: open table tabs are held back.
RollsOver(o) == untouched[o] /\ status[o] \in InFlight /\ channel[o] # "table"

RolloverRead ==
    /\ "rollover" \in Handlers
    /\ \A o \in Orders : rollover[o] = NotRead
    /\ \E o \in Orders : RollsOver(o)
    /\ rollover' = [o \in Orders |-> IF RollsOver(o) THEN status[o] ELSE NotRead]
    /\ UNCHANGED <<channel, row, paid, trail, knocks, followUp, req>>

\* Mutant: the rollover writes no history rows.
RolloverWriteSilently ==
    LET ids == {o \in Orders : rollover[o] # NotRead} IN
    /\ ids # {}
    /\ status' = [o \in Orders |-> IF o \in ids THEN "COMPLETED" ELSE status[o]]
    /\ rollover' = [o \in Orders |-> NotRead]
    /\ UNCHANGED <<channel, updatedAt, paid, untouched, trail, knocks, followUp, req>>

\* The raw UPDATE by id: no status guard, and updatedAt deliberately kept.
RolloverWrite ==
    LET ids == {o \in Orders : rollover[o] # NotRead} IN
    /\ ids # {}
    /\ status' = [o \in Orders |-> IF o \in ids THEN "COMPLETED" ELSE status[o]]
    /\ trail' = [o \in Orders |->
                    IF o \in ids
                    THEN Append(trail[o], [from |-> rollover[o], to |-> "COMPLETED"])
                    ELSE trail[o]]
    /\ rollover' = [o \in Orders |-> NotRead]
    /\ UNCHANGED <<channel, updatedAt, paid, untouched, knocks, followUp, req>>

\* The API process dies between two database calls of a handler.
Crash(r) ==
    /\ "crash" \in Handlers
    /\ req[r] # Idle
    /\ Become(r, Idle)
    /\ UNCHANGED <<channel, row, paid, trail, knocks, followUp, rollover>>

-----------------------------------------------------------------------------
Start(r) ==
    \E o \in Orders :
        \/ \E to \in Statuses, actor \in {"STAFF", "WEBHOOK"} :
               UpdateStatusRead(r, o, to, actor)
        \/ AutoAcceptCheck(r, o)
        \/ \E reOffered \in BOOLEAN : ResyncRead(r, o, reOffered)
        \/ TabRead(r, o)

\* What a handler already under way does next.
Continue(r) ==
    \/ UpdateStatusCommit(r) \/ UpdateStatusConflict(r)
    \/ AutoAcceptLoad(r)
    \/ RetailRead(r) \/ RetailWrite(r) \/ RetailAudit(r)
    \/ ResyncWrite(r)
    \/ TabWrite(r) \/ TabAudit(r)

RowWrite(o) ==
    \/ CreateFollowUp(o) \/ Touch(o) \/ GoQuiet(o)
    \/ \E isPaid \in BOOLEAN : SetPaymentStatus(o, isPaid)

Next ==
    \/ \E r \in Requests : Start(r) \/ Continue(r) \/ Crash(r)
    \/ \E o \in Orders : RowWrite(o)
    \/ RolloverRead \/ RolloverWrite

Spec == Init /\ [][Next]_vars
-----------------------------------------------------------------------------
(* Properties *)

\* The optimistic check of updateStatus is sound: while the row still carries
\* the updatedAt a handler read, it still has the status that handler checked.
SnapshotCurrent ==
    \A r \in Requests :
        (req[r].pc = "commit" /\ req[r].ver = updatedAt[req[r].order])
            => req[r].seen = status[req[r].order]

\* Terminal states are final, whatever interleaving of handlers wrote them
\* (order-status-rank.ts:12, order-state-machine.ts:136).
TerminalIsFinal ==
    [][\A o \in Orders : status[o] \in Terminal => status'[o] = status[o]]_vars

\* Downgrades to a lower-rank status are rejected (order-status-rank.ts:11): no
\* writer, the unguarded ones included, moves a live order of the shop's own back.
RankNeverFalls ==
    [][\A o \in Orders :
           (channel[o] \in {"counter", "table"} /\ status[o] \notin Terminal)
               => StatusRank[status'[o]] >= StatusRank[status[o]]]_vars

\* Some handler has written COMPLETED on o and not yet its history row.
AuditPending(o) ==
    \E r \in Requests :
        req[r].pc \in {"retailAudit", "tabAudit"} /\ req[r].order = o

\* The history of an order is one unbroken story: each row starts where the
\* one before it ended, and the last one ends at the order's status.
AuditContiguous ==
    \A o \in Orders :
        /\ \A i \in 1 .. Len(trail[o]) - 1 : trail[o][i + 1].from = trail[o][i].to
        /\ trail[o][Len(trail[o])].to = status[o] \/ AuditPending(o)

\* Whoever wrote it, the status an order has was recorded in its history.
AuditExplainsStatus ==
    \A o \in Orders :
        (\E i \in 1 .. Len(trail[o]) : trail[o][i].to = status[o]) \/ AuditPending(o)

\* A counter sale that nothing but the accept gate moves on: paid and PENDING.
Waiting(o) == channel[o] = "counter" /\ paid[o] /\ status[o] = "PENDING"

\* An acceptance of o is under way.
Accepts(r, o) ==
    req[r].pc \in {"load", "commit"} /\ req[r].order = o /\ req[r].to = "ACCEPTED"

Accepting(o) == knocks[o] > 0 \/ \E r \in Requests : Accepts(r, o)

\* maybeAutoAccept and setPaymentStatus hand a paid counter sale to the board
\* between them (orders.service.ts:523, 3105): it is left PENDING with nobody
\* accepting it in one way only, that an acceptance meets a row written since it
\* was read (orders.service.ts:2702), or that its process dies.
AcceptLostOnlyByConflict ==
    [][\A o \in Orders :
           (Waiting(o) => Accepting(o)) /\ Waiting(o)' /\ ~Accepting(o)'
               => \E r \in Requests :
                      /\ Accepts(r, o)
                      /\ req'[r] = Idle
                      /\ \/ req[r].pc = "commit" /\ updatedAt[o] # req[r].ver
                         \/ "crash" \in Handlers]_vars

Machine == INSTANCE OrderMachine

\* However the handlers that check their row interleave, what comes of it is a
\* sequence of whole transitions, each permitted where it was made and written
\* into the history with it (order-state-machine.ts:107, orders.service.ts:2691).
FollowsTheMachine == Machine!Spec
=============================================================================
