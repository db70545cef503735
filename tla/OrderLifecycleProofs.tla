----------------------- MODULE OrderLifecycleProofs -----------------------
(*************************************************************************)
(* What holds of OrderLifecycle for any number of orders and of handlers *)
(* in flight: types, the soundness of the optimistic check, that         *)
(* terminal states are final when only the guarded writers run, that     *)
(* those writers implement OrderMachine, what the history tells of the   *)
(* status, that the shop's own orders never fall in rank, and how alone  *)
(* the acceptance of a paid sale is lost; and of the machine's tables,   *)
(* that they agree with each other.                                      *)
(*************************************************************************)
EXTENDS OrderLifecycle, TLAPS

\* Idle requests and requests under way are told apart by their pc.
LEMMA SnapshotType ==
    ASSUME TypeOK, NEW o \in Orders, NEW to \in Statuses,
           NEW pc \in {"load", "commit", "retail", "retailWrite", "retailAudit",
                       "resync", "tab", "tabAudit"}
    PROVE  Snapshot(pc, o, to) \in Request
BY DEF TypeOK, Snapshot, Request

LEMMA UnderWay ==
    ASSUME TypeOK, NEW r \in Requests, req[r].pc # "idle"
    PROVE  req[r] \in Request
BY DEF TypeOK, Idle

LEMMA NextStep ==
    ASSUME NEW q \in Request,
           NEW pc \in {"retail", "retailAudit", "tabAudit"}
    PROVE  [q EXCEPT !.pc = pc] \in Request
BY DEF Request

\* A history row keeps the history well typed.
LEMMA RecordType ==
    ASSUME TypeOK, NEW o \in Orders, NEW from \in Statuses, NEW to \in Statuses,
           Record(o, from, to)
    PROVE  trail' \in [Orders -> Seq(Audit)]
<1>1. [from |-> from, to |-> to] \in Audit
  BY DEF Audit
<1>2. Append(trail[o], [from |-> from, to |-> to]) \in Seq(Audit)
  BY <1>1 DEF TypeOK
<1>3. QED
  BY <1>2 DEF Record, TypeOK

LEMMA WriteType ==
    ASSUME TypeOK, NEW o \in Orders, NEW to \in Statuses, WriteStatus(o, to)
    PROVE  /\ status' \in [Orders -> Statuses]
           /\ updatedAt' \in [Orders -> Nat]
           /\ untouched' \in [Orders -> BOOLEAN]
BY DEF TypeOK, WriteStatus, Stamp

LEMMA StatusNames ==
    /\ {"PENDING", "ACCEPTED", "COMPLETED", "CANCELLED"} \subseteq Statuses
    /\ WebhookTargets \subseteq Statuses
    /\ Terminal \subseteq Statuses
    /\ NotRead \notin Statuses
BY DEF Statuses, InFlight, Terminal, WebhookTargets, NotRead

\* The types of every variable are kept by every step, whichever handlers run.
THEOREM TypeCorrect == Spec => []TypeOK
<1>1. Init => TypeOK
  BY StatusNames DEF Init, TypeOK, Audit, Channels
<1>2. TypeOK /\ [Next]_vars => TypeOK'
  <2> SUFFICES ASSUME TypeOK, [Next]_vars
               PROVE  TypeOK'
    OBVIOUS
  <2> USE StatusNames
  <2>1. ASSUME NEW r \in Requests, NEW o \in Orders, NEW to \in Statuses,
               NEW actor \in {"STAFF", "WEBHOOK"}, UpdateStatusRead(r, o, to, actor)
        PROVE  TypeOK'
    BY <2>1, SnapshotType DEF UpdateStatusRead, Become, row, TypeOK
  <2>2. ASSUME NEW r \in Requests, UpdateStatusCommit(r)
        PROVE  TypeOK'
    <3>1. req[r] \in Request
      BY <2>2, UnderWay DEF UpdateStatusCommit
    <3>2. /\ req[r].order \in Orders
          /\ req[r].to \in Statuses
          /\ req[r].seen \in Statuses
      BY <3>1 DEF Request
    <3>3. trail' \in [Orders -> Seq(Audit)]
      BY <2>2, <3>2, RecordType DEF UpdateStatusCommit
    <3>4. req' \in [Requests -> Request \union {Idle}]
      BY <2>2, <3>1, NextStep DEF UpdateStatusCommit, Become, TypeOK
    <3>5. QED
      BY <2>2, <3>2, <3>3, <3>4, WriteType DEF UpdateStatusCommit, TypeOK
  <2>3. ASSUME NEW r \in Requests, UpdateStatusConflict(r)
        PROVE  TypeOK'
    BY <2>3 DEF UpdateStatusConflict, Become, row, TypeOK
  <2>4. ASSUME NEW o \in Orders, CreateFollowUp(o)
        PROVE  TypeOK'
    BY <2>4 DEF CreateFollowUp, Stamp, TypeOK
  <2>5. ASSUME NEW o \in Orders, NEW isPaid \in BOOLEAN, SetPaymentStatus(o, isPaid)
        PROVE  TypeOK'
    BY <2>5 DEF SetPaymentStatus, Stamp, TypeOK
  <2>6. ASSUME NEW o \in Orders, Touch(o)
        PROVE  TypeOK'
    BY <2>6 DEF Touch, Stamp, TypeOK
  <2>7. ASSUME NEW r \in Requests, NEW o \in Orders, AutoAcceptCheck(r, o)
        PROVE  TypeOK'
    BY <2>7, SnapshotType DEF AutoAcceptCheck, Become, row, TypeOK
  <2>8. ASSUME NEW r \in Requests, AutoAcceptLoad(r)
        PROVE  TypeOK'
    <3>1. req[r] \in Request
      BY <2>8, UnderWay DEF AutoAcceptLoad
    <3>2. Snapshot("commit", req[r].order, req[r].to) \in Request
      BY <3>1, SnapshotType DEF Request
    <3>3. QED
      BY <2>8, <3>2 DEF AutoAcceptLoad, Become, row, TypeOK
  <2>9. ASSUME NEW r \in Requests, RetailRead(r)
        PROVE  TypeOK'
    <3>1. req[r] \in Request
      BY <2>9, UnderWay DEF RetailRead
    <3>2. Snapshot("retailWrite", req[r].order, "COMPLETED") \in Request
      BY <3>1, SnapshotType DEF Request
    <3>3. QED
      BY <2>9, <3>2 DEF RetailRead, Become, row, TypeOK
  <2>10. ASSUME NEW r \in Requests, RetailWrite(r)
         PROVE  TypeOK'
    <3>1. req[r] \in Request
      BY <2>10, UnderWay DEF RetailWrite
    <3>2. req' \in [Requests -> Request \union {Idle}]
      BY <2>10, <3>1, NextStep DEF RetailWrite, Become, TypeOK
    <3>3. CASE status[req[r].order] = "ACCEPTED"
      BY <2>10, <3>1, <3>2, <3>3, WriteType DEF RetailWrite, TypeOK, Request
    <3>4. CASE status[req[r].order] # "ACCEPTED"
      BY <2>10, <3>2, <3>4 DEF RetailWrite, row, TypeOK
    <3>5. QED
      BY <3>3, <3>4
  <2>11. ASSUME NEW r \in Requests, RetailAudit(r)
         PROVE  TypeOK'
    <3>1. req[r] \in Request
      BY <2>11, UnderWay DEF RetailAudit
    <3>2. trail' \in [Orders -> Seq(Audit)]
      BY <2>11, <3>1, RecordType DEF RetailAudit, Request, Terminal, Statuses, InFlight
    <3>3. QED
      BY <2>11, <3>2 DEF RetailAudit, Become, row, TypeOK
  <2>12. ASSUME NEW r \in Requests, NEW o \in Orders, NEW reOffered \in BOOLEAN,
                ResyncRead(r, o, reOffered)
         PROVE  TypeOK'
    <3>1. (IF reOffered THEN "PENDING" ELSE status[o]) \in Statuses
      BY DEF TypeOK
    <3>2. QED
      BY <2>12, <3>1, SnapshotType DEF ResyncRead, Become, row, TypeOK
  <2>13. ASSUME NEW r \in Requests, ResyncWrite(r)
         PROVE  TypeOK'
    <3>1. req[r] \in Request
      BY <2>13, UnderWay DEF ResyncWrite
    <3>2. /\ req[r].order \in Orders
          /\ req[r].to \in Statuses
          /\ req[r].seen \in Statuses
      BY <3>1 DEF Request
    <3>3. trail' \in [Orders -> Seq(Audit)]
      BY <2>13, <3>2, RecordType DEF ResyncWrite
    <3>4. QED
      BY <2>13, <3>2, <3>3, WriteType DEF ResyncWrite, Become, TypeOK
  <2>14. ASSUME NEW r \in Requests, NEW o \in Orders, TabRead(r, o)
         PROVE  TypeOK'
    BY <2>14, SnapshotType DEF TabRead, Become, row, TypeOK
  <2>15. ASSUME NEW r \in Requests, TabWrite(r)
         PROVE  TypeOK'
    <3>1. req[r] \in Request
      BY <2>15, UnderWay DEF TabWrite
    <3>2. req' \in [Requests -> Request \union {Idle}]
      BY <2>15, <3>1, NextStep DEF TabWrite, Become, TypeOK
    <3>3. QED
      BY <2>15, <3>1, <3>2, WriteType DEF TabWrite, TypeOK, Request
  <2>16. ASSUME NEW r \in Requests, TabAudit(r)
         PROVE  TypeOK'
    <3>1. req[r] \in Request
      BY <2>16, UnderWay DEF TabAudit
    <3>2. trail' \in [Orders -> Seq(Audit)]
      BY <2>16, <3>1, RecordType DEF TabAudit, Request
    <3>3. QED
      BY <2>16, <3>2 DEF TabAudit, Become, row, TypeOK
  <2>17. ASSUME NEW o \in Orders, GoQuiet(o)
         PROVE  TypeOK'
    BY <2>17 DEF GoQuiet, TypeOK
  <2>18. CASE RolloverRead
    BY <2>18 DEF RolloverRead, row, TypeOK
  <2>19. CASE RolloverWrite
    <3>1. \A o \in Orders : rollover[o] # NotRead =>
              [from |-> rollover[o], to |-> "COMPLETED"] \in Audit
      BY DEF TypeOK, Audit
    <3>2. ASSUME NEW o \in Orders
          PROVE  trail'[o] \in Seq(Audit)
      <4>1. CASE rollover[o] # NotRead
        <5>1. Append(trail[o], [from |-> rollover[o], to |-> "COMPLETED"]) \in Seq(Audit)
          BY <3>1, <4>1 DEF TypeOK
        <5>2. QED
          BY <2>19, <4>1, <5>1 DEF RolloverWrite
      <4>2. CASE rollover[o] = NotRead
        BY <2>19, <4>2 DEF RolloverWrite, TypeOK
      <4>3. QED
        BY <4>1, <4>2
    <3>3. trail' = [o \in Orders |-> trail'[o]]
      BY <2>19 DEF RolloverWrite
    <3>4. trail' \in [Orders -> Seq(Audit)]
      BY <3>2, <3>3
    <3>5. QED
      BY <2>19, <3>4 DEF RolloverWrite, TypeOK
  <2>20. ASSUME NEW r \in Requests, Crash(r)
         PROVE  TypeOK'
    BY <2>20 DEF Crash, Become, row, TypeOK
  <2>21. CASE UNCHANGED vars
    BY <2>21 DEF vars, row, TypeOK
  <2>22. QED
    BY <2>1, <2>2, <2>3, <2>4, <2>5, <2>6, <2>7, <2>8, <2>9, <2>10, <2>11, <2>12,
       <2>13, <2>14, <2>15, <2>16, <2>17, <2>18, <2>19, <2>20, <2>21
    DEF Next, Start, Continue, RowWrite
<1>3. QED
  BY <1>1, <1>2, PTL DEF Spec

-----------------------------------------------------------------------------
(* The optimistic check *)

\* No handler holds an updatedAt from the future, so stamping a row makes
\* every snapshot of it stale.
VersionsSeen ==
    \A r \in Requests :
        req[r].pc = "commit" => req[r].ver <= updatedAt[req[r].order]

\* Without the rollover nobody changes a status and keeps the row's updatedAt.
SnapshotInv ==
    /\ TypeOK
    /\ VersionsSeen
    /\ SnapshotCurrent
    /\ \A o \in Orders : rollover[o] = NotRead

\* A write that stamps the row leaves no matching snapshot of it behind.
LEMMA StampedWrite ==
    ASSUME TypeOK, VersionsSeen, SnapshotCurrent, NEW o \in Orders,
           updatedAt' = [updatedAt EXCEPT ![o] = @ + 1],
           \A p \in Orders \ {o} : status'[p] = status[p],
           \A r \in Requests : req'[r] = req[r] \/ req'[r].pc # "commit"
    PROVE  VersionsSeen' /\ SnapshotCurrent'
<1>1. SUFFICES ASSUME NEW r \in Requests, req'[r].pc = "commit"
               PROVE  /\ req'[r].ver <= updatedAt'[req'[r].order]
                      /\ req'[r].ver = updatedAt'[req'[r].order]
                            => req'[r].seen = status'[req'[r].order]
  BY DEF VersionsSeen, SnapshotCurrent
<1>2. req'[r] = req[r]
  BY <1>1
<1>3. req[r] \in Request
  BY <1>1, <1>2, UnderWay
<1>4. /\ req[r].order \in Orders /\ req[r].ver \in Nat
      /\ updatedAt[req[r].order] \in Nat
      /\ req[r].ver <= updatedAt[req[r].order]
      /\ req[r].ver = updatedAt[req[r].order] => req[r].seen = status[req[r].order]
  BY <1>1, <1>2, <1>3 DEF Request, TypeOK, VersionsSeen, SnapshotCurrent
<1>5. CASE req[r].order = o
  BY <1>2, <1>4, <1>5 DEF TypeOK
<1>6. CASE req[r].order # o
  BY <1>2, <1>4, <1>6 DEF TypeOK
<1>7. QED
  BY <1>5, <1>6

\* Reading a row takes a snapshot that is current.
LEMMA FreshRead ==
    ASSUME TypeOK, VersionsSeen, SnapshotCurrent, UNCHANGED <<status, updatedAt>>,
           \A r \in Requests :
               \/ req'[r] = req[r]
               \/ req'[r].pc # "commit"
               \/ \E o \in Orders, to \in Statuses : req'[r] = Snapshot("commit", o, to)
    PROVE  VersionsSeen' /\ SnapshotCurrent'
<1>1. SUFFICES ASSUME NEW r \in Requests, req'[r].pc = "commit"
               PROVE  /\ req'[r].ver <= updatedAt[req'[r].order]
                      /\ req'[r].ver = updatedAt[req'[r].order]
                            => req'[r].seen = status[req'[r].order]
  BY DEF VersionsSeen, SnapshotCurrent
<1>2. CASE req'[r] = req[r]
  BY <1>1, <1>2 DEF VersionsSeen, SnapshotCurrent
<1>3. CASE \E o \in Orders, to \in Statuses : req'[r] = Snapshot("commit", o, to)
  BY <1>3 DEF Snapshot, TypeOK
<1>4. QED
  BY <1>1, <1>2, <1>3

\* One step per writer: stamping steps by StampedWrite, the rest by FreshRead.
LEMMA SnapshotStep ==
    ASSUME "rollover" \notin Handlers, SnapshotInv, [Next]_vars
    PROVE  VersionsSeen' /\ SnapshotCurrent' /\ (\A o \in Orders : rollover'[o] = NotRead)
<1> USE DEF SnapshotInv
<1>1. ASSUME NEW r \in Requests, NEW o \in Orders, NEW to \in Statuses,
             NEW actor \in {"STAFF", "WEBHOOK"}, UpdateStatusRead(r, o, to, actor)
      PROVE  VersionsSeen' /\ SnapshotCurrent'
  <2>1. \A s \in Requests : req'[s] = req[s] \/ req'[s] = Snapshot("commit", o, to)
    BY <1>1 DEF UpdateStatusRead, Become, TypeOK
  <2>2. QED
    BY <1>1, <2>1, FreshRead DEF UpdateStatusRead, row
<1>2. ASSUME NEW r \in Requests, UpdateStatusCommit(r)
      PROVE  VersionsSeen' /\ SnapshotCurrent'
  <2>1. req[r] \in Request
    BY <1>2, UnderWay DEF UpdateStatusCommit
  <2>2. \A s \in Requests : req'[s] = req[s] \/ req'[s].pc # "commit"
    BY <1>2, <2>1 DEF UpdateStatusCommit, Become, TypeOK, Idle, Request
  <2>3. QED
    BY <1>2, <2>1, <2>2, StampedWrite
    DEF UpdateStatusCommit, WriteStatus, Stamp, TypeOK, Request
<1>3. ASSUME NEW r \in Requests,
             UpdateStatusConflict(r) \/ RetailAudit(r) \/ TabAudit(r) \/ Crash(r)
      PROVE  VersionsSeen' /\ SnapshotCurrent'
  <2>1. \A s \in Requests : req'[s] = req[s] \/ req'[s].pc # "commit"
    BY <1>3 DEF UpdateStatusConflict, RetailAudit, TabAudit, Crash, Become, TypeOK, Idle
  <2>2. UNCHANGED <<status, updatedAt>>
    BY <1>3 DEF UpdateStatusConflict, RetailAudit, TabAudit, Crash, row
  <2>3. QED
    BY <2>1, <2>2, FreshRead
<1>4. ASSUME NEW o \in Orders,
             \/ CreateFollowUp(o) \/ Touch(o)
             \/ \E isPaid \in BOOLEAN : SetPaymentStatus(o, isPaid)
      PROVE  VersionsSeen' /\ SnapshotCurrent'
  BY <1>4, StampedWrite DEF CreateFollowUp, Touch, SetPaymentStatus, Stamp
<1>5. ASSUME NEW r \in Requests, NEW o \in Orders,
             \/ AutoAcceptCheck(r, o) \/ TabRead(r, o)
             \/ \E reOffered \in BOOLEAN : ResyncRead(r, o, reOffered)
      PROVE  VersionsSeen' /\ SnapshotCurrent'
  <2>1. \A s \in Requests : req'[s] = req[s] \/ req'[s].pc # "commit"
    BY <1>5 DEF AutoAcceptCheck, TabRead, ResyncRead, Become, Snapshot, TypeOK, Idle
  <2>2. UNCHANGED <<status, updatedAt>>
    BY <1>5 DEF AutoAcceptCheck, TabRead, ResyncRead, row
  <2>3. QED
    BY <2>1, <2>2, FreshRead
<1>6. ASSUME NEW r \in Requests, AutoAcceptLoad(r)
      PROVE  VersionsSeen' /\ SnapshotCurrent'
  <2>1. req[r].order \in Orders /\ req[r].to \in Statuses
    BY <1>6, UnderWay DEF AutoAcceptLoad, Request
  <2>2. \A s \in Requests :
            \/ req'[s] = req[s] \/ req'[s].pc # "commit"
            \/ req'[s] = Snapshot("commit", req[r].order, req[r].to)
    BY <1>6 DEF AutoAcceptLoad, Become, TypeOK, Idle
  <2>3. QED
    BY <1>6, <2>1, <2>2, FreshRead DEF AutoAcceptLoad, row
<1>7. ASSUME NEW r \in Requests, RetailRead(r)
      PROVE  VersionsSeen' /\ SnapshotCurrent'
  <2>1. \A s \in Requests : req'[s] = req[s] \/ req'[s].pc # "commit"
    BY <1>7 DEF RetailRead, Become, Snapshot, TypeOK, Idle
  <2>2. QED
    BY <1>7, <2>1, FreshRead DEF RetailRead, row
<1>8. ASSUME NEW r \in Requests, RetailWrite(r)
      PROVE  VersionsSeen' /\ SnapshotCurrent'
  <2>1. req[r] \in Request
    BY <1>8, UnderWay DEF RetailWrite
  <2>2. \A s \in Requests : req'[s] = req[s] \/ req'[s].pc # "commit"
    BY <1>8, <2>1 DEF RetailWrite, Become, TypeOK, Idle, Request
  <2>3. CASE status[req[r].order] = "ACCEPTED"
    BY <1>8, <2>1, <2>2, <2>3, StampedWrite
    DEF RetailWrite, WriteStatus, Stamp, TypeOK, Request
  <2>4. CASE status[req[r].order] # "ACCEPTED"
    BY <1>8, <2>2, <2>4, FreshRead DEF RetailWrite, row
  <2>5. QED
    BY <2>3, <2>4
<1>9. ASSUME NEW r \in Requests, ResyncWrite(r) \/ TabWrite(r)
      PROVE  VersionsSeen' /\ SnapshotCurrent'
  <2>1. req[r] \in Request
    BY <1>9, UnderWay DEF ResyncWrite, TabWrite
  <2>2. \A s \in Requests : req'[s] = req[s] \/ req'[s].pc # "commit"
    BY <1>9, <2>1 DEF ResyncWrite, TabWrite, Become, TypeOK, Idle, Request
  <2>3. QED
    BY <1>9, <2>1, <2>2, StampedWrite
    DEF ResyncWrite, TabWrite, WriteStatus, Stamp, TypeOK, Request
<1>10. CASE UNCHANGED vars
  BY <1>10, FreshRead DEF vars, row
<1>11. /\ ~RolloverRead /\ ~RolloverWrite
       /\ \A o \in Orders : ~GoQuiet(o)
  BY DEF RolloverRead, RolloverWrite, GoQuiet
<1>12. UNCHANGED rollover
  <2>1. ASSUME NEW r \in Requests, Start(r)
        PROVE  UNCHANGED rollover
    BY <2>1 DEF Start, UpdateStatusRead, AutoAcceptCheck, ResyncRead, TabRead
  <2>2. ASSUME NEW r \in Requests, Continue(r) \/ Crash(r)
        PROVE  UNCHANGED rollover
    BY <2>2
    DEF Continue, UpdateStatusCommit, UpdateStatusConflict, AutoAcceptLoad, RetailRead,
        RetailWrite, RetailAudit, ResyncWrite, TabWrite, TabAudit, Crash
  <2>3. ASSUME NEW o \in Orders, RowWrite(o)
        PROVE  UNCHANGED rollover
    BY <1>11, <2>3 DEF RowWrite, CreateFollowUp, SetPaymentStatus, Touch
  <2>4. QED
    BY <1>11, <2>1, <2>2, <2>3 DEF Next, vars
<1>13. QED
  BY <1>1, <1>2, <1>3, <1>4, <1>5, <1>6, <1>7, <1>8, <1>9, <1>10, <1>11, <1>12
  DEF Next, Start, Continue, RowWrite

LEMMA SnapshotInvariant ==
    ASSUME "rollover" \notin Handlers
    PROVE  Spec => []SnapshotInv
<1>1. Init => VersionsSeen /\ SnapshotCurrent /\ \A o \in Orders : rollover[o] = NotRead
  BY DEF Init, VersionsSeen, SnapshotCurrent, Idle
<1>2. TypeOK /\ TypeOK' /\ SnapshotInv /\ [Next]_vars => SnapshotInv'
  BY SnapshotStep DEF SnapshotInv
<1>3. TypeOK /\ VersionsSeen /\ SnapshotCurrent /\ (\A o \in Orders : rollover[o] = NotRead)
        => SnapshotInv
  BY DEF SnapshotInv
<1>4. QED
  BY <1>1, <1>2, <1>3, TypeCorrect, PTL DEF Spec

\* updateStatus never commits against a status other than the one it checked:
\* true of any mix of writers that stamp updatedAt, so of all but the rollover.
THEOREM SnapshotCorrect ==
    ASSUME "rollover" \notin Handlers
    PROVE  Spec => []SnapshotCurrent
<1>1. SnapshotInv => SnapshotCurrent
  BY DEF SnapshotInv
<1>2. QED
  BY <1>1, SnapshotInvariant, PTL

-----------------------------------------------------------------------------
(* Terminal states *)

\* No handler writes by id alone.
GuardedWriters == Handlers \intersect {"resync", "tab", "rollover"} = {}

\* A handler about to commit checked a live order, or repeats its status.
FinalInv ==
    /\ SnapshotInv
    /\ \A r \in Requests :
          /\ req[r].pc \notin {"resync", "tab", "tabAudit"}
          /\ req[r].pc = "commit" => req[r].seen \notin Terminal \/ req[r].to = req[r].seen

\* What the two assertions of the state machine have in common.
LEMMA PermitsLive ==
    ASSUME NEW o \in Orders, NEW to \in Statuses, NEW actor \in Actors, Permits(o, to, actor)
    PROVE  status[o] \notin Terminal \/ to = status[o]
BY DEF Permits, AssertTransition, AssertWebhookTransition

\* Only a commit is checked: the handlers a step leaves alone stay as they were.
LEMMA FinalStep ==
    ASSUME GuardedWriters, FinalInv, SnapshotInv', [Next]_vars
    PROVE  FinalInv'
<1> SUFFICES ASSUME NEW s \in Requests
             PROVE  /\ req'[s].pc \notin {"resync", "tab", "tabAudit"}
                    /\ req'[s].pc = "commit" =>
                          req'[s].seen \notin Terminal \/ req'[s].to = req'[s].seen
  BY DEF FinalInv
<1> DEFINE Harmless(q) ==
        /\ q.pc \notin {"resync", "tab", "tabAudit"}
        /\ q.pc = "commit" => q.seen \notin Terminal \/ q.to = q.seen
<1>1. Harmless(req[s]) /\ Harmless(Idle)
  BY DEF FinalInv, Idle
<1>2. TypeOK
  BY DEF FinalInv, SnapshotInv
<1> HIDE DEF Harmless
<1>3. ASSUME NEW r \in Requests, NEW o \in Orders, NEW to \in Statuses,
             NEW actor \in {"STAFF", "WEBHOOK"}, UpdateStatusRead(r, o, to, actor)
      PROVE  Harmless(req'[s])
  <2>1. status[o] \notin Terminal \/ to = status[o]
    BY <1>3, PermitsLive DEF UpdateStatusRead, Actors
  <2>2. Harmless(Snapshot("commit", o, to))
    BY <2>1 DEF Harmless, Snapshot
  <2>3. QED
    BY <1>1, <1>2, <1>3, <2>2 DEF UpdateStatusRead, Become, TypeOK
<1>4. ASSUME NEW r \in Requests, UpdateStatusCommit(r)
      PROVE  Harmless(req'[s])
  <2>1. Harmless([req[r] EXCEPT !.pc = "retail"])
    BY <1>2, <1>4, UnderWay DEF UpdateStatusCommit, Harmless, Request
  <2>2. QED
    BY <1>1, <1>2, <1>4, <2>1 DEF UpdateStatusCommit, Become, TypeOK
<1>5. ASSUME NEW r \in Requests,
             UpdateStatusConflict(r) \/ RetailAudit(r) \/ TabAudit(r) \/ Crash(r)
      PROVE  Harmless(req'[s])
  BY <1>1, <1>2, <1>5
  DEF UpdateStatusConflict, RetailAudit, TabAudit, Crash, Become, TypeOK
<1>6. ASSUME NEW o \in Orders, RowWrite(o)
      PROVE  Harmless(req'[s])
  BY <1>1, <1>6 DEF RowWrite, CreateFollowUp, Touch, GoQuiet, SetPaymentStatus
<1>7. ASSUME NEW r \in Requests, NEW o \in Orders, AutoAcceptCheck(r, o)
      PROVE  Harmless(req'[s])
  <2>1. Harmless(Snapshot("load", o, "ACCEPTED"))
    BY DEF Harmless, Snapshot
  <2>2. QED
    BY <1>1, <1>2, <1>7, <2>1 DEF AutoAcceptCheck, Become, TypeOK
<1>8. ASSUME NEW r \in Requests, AutoAcceptLoad(r)
      PROVE  Harmless(req'[s])
  <2>1. req[r].order \in Orders /\ req[r].to \in Statuses
    BY <1>2, <1>8, UnderWay DEF AutoAcceptLoad, Request
  <2>2. Permits(req[r].order, req[r].to, "SYSTEM") =>
            Harmless(Snapshot("commit", req[r].order, req[r].to))
    BY <2>1, PermitsLive DEF Harmless, Snapshot, Actors
  <2>3. QED
    BY <1>1, <1>2, <1>8, <2>2 DEF AutoAcceptLoad, Become, TypeOK
<1>9. ASSUME NEW r \in Requests, RetailRead(r)
      PROVE  Harmless(req'[s])
  <2>1. Harmless(Snapshot("retailWrite", req[r].order, "COMPLETED"))
    BY DEF Harmless, Snapshot
  <2>2. QED
    BY <1>1, <1>2, <1>9, <2>1 DEF RetailRead, Become, TypeOK
<1>10. ASSUME NEW r \in Requests, RetailWrite(r)
       PROVE  Harmless(req'[s])
  <2>1. Harmless([req[r] EXCEPT !.pc = "retailAudit"])
    BY <1>2, <1>10, UnderWay DEF RetailWrite, Harmless, Request
  <2>2. QED
    BY <1>1, <1>2, <1>10, <2>1 DEF RetailWrite, Become, TypeOK
<1>11. \A r \in Requests : ~ResyncWrite(r) /\ ~TabWrite(r)
  BY DEF FinalInv, ResyncWrite, TabWrite
<1>12. \A r \in Requests, o \in Orders :
           ~TabRead(r, o) /\ \A reOffered \in BOOLEAN : ~ResyncRead(r, o, reOffered)
  BY DEF GuardedWriters, TabRead, ResyncRead
<1>13. ASSUME RolloverRead \/ RolloverWrite \/ UNCHANGED vars
       PROVE  Harmless(req'[s])
  BY <1>1, <1>13 DEF RolloverRead, RolloverWrite, vars
<1>14. Harmless(req'[s])
  BY <1>3, <1>4, <1>5, <1>6, <1>7, <1>8, <1>9, <1>10, <1>11, <1>12, <1>13
  DEF Next, Start, Continue
<1>15. QED
  BY <1>14 DEF Harmless

LEMMA FinalInvariant ==
    ASSUME GuardedWriters
    PROVE  Spec => []FinalInv
<1>1. Init /\ SnapshotInv => FinalInv
  BY DEF Init, FinalInv, Idle
<1>2. FinalInv /\ SnapshotInv' /\ [Next]_vars => FinalInv'
  BY FinalStep
<1>3. Spec => []SnapshotInv
  BY SnapshotInvariant DEF GuardedWriters
<1>4. QED
  BY <1>1, <1>2, <1>3, PTL DEF Spec

\* What a guarded step finds finished it leaves finished.
LEMMA FinalHolds ==
    ASSUME FinalInv, [Next]_vars, NEW o \in Orders, status[o] \in Terminal
    PROVE  status'[o] = status[o]
<1>1. CASE \E r \in Requests : UpdateStatusCommit(r)
  <2>1. PICK r \in Requests : UpdateStatusCommit(r)
    BY <1>1
  <2>2. req[r].seen = status[req[r].order]
    BY <2>1 DEF FinalInv, SnapshotInv, SnapshotCurrent, UpdateStatusCommit
  <2>3. req[r].order = o => req[r].to = status[o]
    BY <2>1, <2>2 DEF FinalInv, UpdateStatusCommit
  <2>4. QED
    BY <2>1, <2>3
    DEF UpdateStatusCommit, WriteStatus, FinalInv, SnapshotInv, TypeOK
<1>2. CASE \E r \in Requests : RetailWrite(r)
  BY <1>2
  DEF RetailWrite, WriteStatus, FinalInv, SnapshotInv, TypeOK, Terminal, row
<1>3. \A r \in Requests : ~ResyncWrite(r) /\ ~TabWrite(r)
  BY DEF FinalInv, ResyncWrite, TabWrite
<1>4. ~RolloverWrite
  BY DEF FinalInv, SnapshotInv, RolloverWrite
<1>5. QED
  BY <1>1, <1>2, <1>3, <1>4
  DEF Next, Start, Continue, RowWrite, UpdateStatusRead, UpdateStatusConflict,
      CreateFollowUp, SetPaymentStatus, Touch, GoQuiet, AutoAcceptCheck,
      AutoAcceptLoad, RetailRead, RetailAudit, ResyncRead, TabRead, TabAudit,
      RolloverRead, Crash, Stamp, row, vars

\* The guarded writers, in any interleaving of any number of them, leave a
\* finished order finished: a commit whose row still has the updatedAt it read
\* meets the status it checked, and that status was not terminal.
THEOREM FinalCorrect ==
    ASSUME GuardedWriters
    PROVE  Spec => TerminalIsFinal
<1>1. FinalInv /\ [Next]_vars =>
          [\A o \in Orders : status[o] \in Terminal => status'[o] = status[o]]_vars
  BY FinalHolds
<1>2. QED
  BY <1>1, FinalInvariant, PTL DEF Spec, TerminalIsFinal

-----------------------------------------------------------------------------
(* The machine's tables *)

LEMMA RankOf ==
    /\ StatusRank["PENDING"] = 10 /\ StatusRank["ACCEPTED"] = 20
    /\ StatusRank["PREPARING"] = 30 /\ StatusRank["READY"] = 40
    /\ StatusRank["PENDING_DISPATCH"] = 45 /\ StatusRank["ASSIGNED_DRIVER"] = 50
    /\ StatusRank["ACCEPTED_BY_DRIVER"] = 60 /\ StatusRank["RIDER_ARRIVED"] = 65
    /\ \A s \in OnTheRoad : StatusRank[s] = 70
    /\ \A s \in Terminal : StatusRank[s] = 100
BY DEF StatusRank, Statuses, InFlight, Terminal, OnTheRoad

LEMMA WaysOut ==
    /\ ValidTransitions["PENDING"] = {"ACCEPTED"} \union Cancellation
    /\ ValidTransitions["ACCEPTED"] = {"PREPARING", "CANCELLED", "FAILED"}
    /\ ValidTransitions["PREPARING"] = {"READY", "CANCELLED", "FAILED"}
    /\ ValidTransitions["READY"] =
           {"COMPLETED", "ASSIGNED_DRIVER", "PENDING_DISPATCH", "CANCELLED", "FAILED"}
               \union OnTheRoad
    /\ ValidTransitions["PENDING_DISPATCH"] =
           {"ASSIGNED_DRIVER", "ACCEPTED_BY_DRIVER", "CANCELLED", "FAILED"} \union OnTheRoad
    /\ ValidTransitions["ASSIGNED_DRIVER"] =
           {"ACCEPTED_BY_DRIVER", "RIDER_ARRIVED", "CANCELLED", "FAILED"} \union OnTheRoad
    /\ ValidTransitions["ACCEPTED_BY_DRIVER"] =
           {"RIDER_ARRIVED", "CANCELLED", "FAILED"} \union OnTheRoad
    /\ ValidTransitions["RIDER_ARRIVED"] = {"CANCELLED", "FAILED"} \union OnTheRoad
    /\ \A s \in OnTheRoad : ValidTransitions[s] = {"COMPLETED", "CANCELLED", "FAILED"}
    /\ \A s \in Terminal : ValidTransitions[s] = {}
BY DEF ValidTransitions, Statuses, InFlight, Terminal, OnTheRoad

\* The whitelist only leads upwards, so it has no way round: no sequence of
\* checked steps, however long, brings an order back to a status it has left.
THEOREM WhitelistClimbs ==
    \A from \in Statuses : \A to \in ValidTransitions[from] :
        to \in Statuses /\ StatusRank[to] > StatusRank[from]
<1> TAKE from \in Statuses
<1> TAKE to \in ValidTransitions[from]
<1>1. CASE from \in InFlight
  BY <1>1, RankOf, WaysOut DEF Statuses, InFlight, Terminal, Cancellation, OnTheRoad
<1>2. CASE from \in Terminal
  BY <1>2, WaysOut
<1>3. QED
  BY <1>1, <1>2 DEF Statuses

\* And it strands nobody: every status short of the end has a step onwards that
\* does not abort the order, and above a finished one there is nothing.
THEOREM WhitelistLeadsOn ==
    /\ \A from \in InFlight : ValidTransitions[from] \ Cancellation # {}
    /\ \A from \in Terminal, to \in Statuses : ~CanTransition(from, to)
<1>1. ASSUME NEW from \in InFlight
      PROVE  \E to \in ValidTransitions[from] : to \notin Cancellation
  BY <1>1, WaysOut DEF InFlight, Cancellation, OnTheRoad
<1>2. ASSUME NEW from \in Terminal, NEW to \in Statuses
      PROVE  ~CanTransition(from, to)
  BY WaysOut DEF CanTransition
<1>3. QED
  BY <1>1, <1>2

\* assertTransition tries the rank before the whitelist, and the rank never
\* refuses what the whitelist would let through: it is a second line, as
\* order-state-machine.ts means it, and not a second rule.
THEOREM RankIsABackstop ==
    \A from, to \in Statuses : AssertTransition(from, to) <=> CanTransition(from, to)
<1> TAKE from, to \in Statuses
<1>1. CanTransition(from, to) => from \notin Terminal
  BY WhitelistLeadsOn
<1>2. CanTransition(from, to) => MonotonicOrCancel(from, to)
  <2>1. CASE to \in Cancellation
    BY <2>1 DEF MonotonicOrCancel
  <2>2. CASE to \notin Cancellation
    <3>1. CanTransition(from, to) => StatusRank[to] > StatusRank[from]
      BY <2>2, WhitelistClimbs DEF CanTransition
    <3>2. StatusRank[from] \in Nat /\ StatusRank[to] \in Nat
      BY RankOf DEF Statuses, InFlight, Terminal, OnTheRoad
    <3>3. QED
      BY <1>1, <3>1, <3>2 DEF MonotonicOrCancel
  <2>3. QED
    BY <2>1, <2>2
<1>3. QED
  BY <1>1, <1>2 DEF AssertTransition

-----------------------------------------------------------------------------
(* The guarded writers implement OrderMachine *)

\* What a handler is about to write is a step of the machine from the status it
\* read, and a counter sale whose history row is missing is over.
Faithful(q, now) ==
    /\ q.pc = "commit" => Machine!Permitted(channel[q.order], q.seen, q.to)
    /\ q.pc = "load" => q.to = "ACCEPTED"
    /\ q.pc \in {"retail", "retailWrite", "retailAudit"} => channel[q.order] = "counter"
    /\ q.pc = "retailAudit" => now[q.order] = "COMPLETED"

MachineInv == \A r \in Requests : Faithful(req[r], status)

\* The machine's checks are the code's.
LEMMA MachineChecks ==
    /\ Machine!Statuses = Statuses
    /\ \A from, to : Machine!AssertTransition(from, to) <=> AssertTransition(from, to)
    /\ \A from, to : Machine!AssertWebhookTransition(from, to)
                        <=> AssertWebhookTransition(from, to)
    /\ Machine!PostReady = PostReady /\ Machine!WebhookTargets = WebhookTargets
<1>1. /\ Machine!Terminal = Terminal /\ Machine!InFlight = InFlight
      /\ Machine!Cancellation = Cancellation /\ Machine!OnTheRoad = OnTheRoad
      /\ Machine!PostReady = PostReady
  BY DEF Machine!Terminal, Terminal, Machine!InFlight, InFlight, Machine!Cancellation,
         Cancellation, Machine!OnTheRoad, OnTheRoad, Machine!PostReady, PostReady
<1>2. Machine!Statuses = Statuses /\ Machine!WebhookTargets = WebhookTargets
  BY <1>1 DEF Machine!Statuses, Statuses, Machine!WebhookTargets, WebhookTargets
<1>3. Machine!StatusRank = StatusRank
  BY <1>2, Zenon DEF Machine!StatusRank, StatusRank
<1>4. Machine!ValidTransitions = ValidTransitions
  BY DEF Machine!ValidTransitions, ValidTransitions, Machine!Statuses, Statuses,
         Machine!InFlight, InFlight, Machine!Terminal, Terminal,
         Machine!Cancellation, Cancellation, Machine!OnTheRoad, OnTheRoad
<1>5. \A from, to : Machine!CanTransition(from, to) <=> CanTransition(from, to)
  BY <1>1, <1>4 DEF Machine!CanTransition, CanTransition
<1>6. \A from, to : Machine!MonotonicOrCancel(from, to) <=> MonotonicOrCancel(from, to)
  BY <1>1, <1>3 DEF Machine!MonotonicOrCancel, MonotonicOrCancel
<1>7. QED
  BY <1>1, <1>2, <1>5, <1>6
  DEF Machine!AssertTransition, AssertTransition,
      Machine!AssertWebhookTransition, AssertWebhookTransition

\* What updateStatus lets through is a step of the machine.
LEMMA PermitsStep ==
    ASSUME NEW o \in Orders, NEW to \in Statuses
    PROVE  /\ Permits(o, to, "STAFF") => Machine!Permitted(channel[o], status[o], to)
           /\ Permits(o, to, "WEBHOOK") /\ to \in WebhookTargets
                    /\ channel[o] \in {"marketplace", "delivery"}
                 => Machine!Permitted(channel[o], status[o], to)
           /\ Permits(o, to, "SYSTEM") /\ to = "ACCEPTED"
                 => Machine!Permitted(channel[o], status[o], to)
<1>1. "ACCEPTED" \notin PostReady
  BY DEF PostReady
<1>2. QED
  BY <1>1, MachineChecks DEF Permits, Machine!Permitted

LEMMA ChannelFixed ==
    ASSUME [Next]_vars
    PROVE  channel' = channel
<1>1. ASSUME NEW r \in Requests, Start(r)
      PROVE  channel' = channel
  BY <1>1 DEF Start, UpdateStatusRead, AutoAcceptCheck, ResyncRead, TabRead
<1>2. ASSUME NEW r \in Requests, Continue(r) \/ Crash(r)
      PROVE  channel' = channel
  BY <1>2
  DEF Continue, UpdateStatusCommit, UpdateStatusConflict, AutoAcceptLoad, RetailRead,
      RetailWrite, RetailAudit, ResyncWrite, TabWrite, TabAudit, Crash
<1>3. ASSUME NEW o \in Orders, RowWrite(o)
      PROVE  channel' = channel
  BY <1>3 DEF RowWrite, CreateFollowUp, SetPaymentStatus, Touch, GoQuiet
<1>4. CASE RolloverRead \/ RolloverWrite \/ UNCHANGED vars
  BY <1>4 DEF RolloverRead, RolloverWrite, vars
<1>5. QED
  BY <1>1, <1>2, <1>3, <1>4 DEF Next

LEMMA FaithfulStep ==
    ASSUME GuardedWriters, FinalInv, MachineInv, [Next]_vars, NEW s \in Requests
    PROVE  Faithful(req'[s], status')
<1> DEFINE Good(q) == Faithful(q, status')
<1>0. TypeOK
  BY DEF FinalInv, SnapshotInv
<1>1. Good(req[s])
  <2>1. Faithful(req[s], status)
    BY DEF MachineInv
  <2>2. ASSUME req[s].pc = "retailAudit" PROVE status'[req[s].order] = "COMPLETED"
    <3>1. req[s].order \in Orders /\ status[req[s].order] = "COMPLETED"
      BY <1>0, <2>1, <2>2, UnderWay DEF Faithful, Request
    <3>2. QED
      BY <3>1, FinalHolds DEF Terminal
  <2>3. QED
    BY <2>1, <2>2 DEF Faithful
<1>2. Good(Idle)
  BY DEF Faithful, Idle
<1> HIDE DEF Good
<1>3. ASSUME NEW r \in Requests, NEW o \in Orders, NEW to \in Statuses,
             NEW actor \in {"STAFF", "WEBHOOK"}, UpdateStatusRead(r, o, to, actor)
      PROVE  Good(req'[s])
  <2>1. Machine!Permitted(channel[o], status[o], to)
    BY <1>3, PermitsStep DEF UpdateStatusRead
  <2>2. Good(Snapshot("commit", o, to))
    BY <2>1 DEF Good, Faithful, Snapshot
  <2>3. QED
    BY <1>0, <1>1, <1>3, <2>2 DEF UpdateStatusRead, Become, TypeOK
<1>4. ASSUME NEW r \in Requests, UpdateStatusCommit(r)
      PROVE  Good(req'[s])
  <2>1. channel[req[r].order] = "counter" => Good([req[r] EXCEPT !.pc = "retail"])
    BY <1>0, <1>4, UnderWay DEF UpdateStatusCommit, Good, Faithful, Request
  <2>2. QED
    BY <1>0, <1>1, <1>2, <1>4, <2>1 DEF UpdateStatusCommit, Become, TypeOK
<1>5. ASSUME NEW r \in Requests,
             UpdateStatusConflict(r) \/ RetailAudit(r) \/ TabAudit(r) \/ Crash(r)
      PROVE  Good(req'[s])
  BY <1>0, <1>1, <1>2, <1>5
  DEF UpdateStatusConflict, RetailAudit, TabAudit, Crash, Become, TypeOK
<1>6. ASSUME NEW o \in Orders, RowWrite(o)
      PROVE  Good(req'[s])
  BY <1>1, <1>6 DEF RowWrite, CreateFollowUp, Touch, GoQuiet, SetPaymentStatus
<1>7. ASSUME NEW r \in Requests, NEW o \in Orders, AutoAcceptCheck(r, o)
      PROVE  Good(req'[s])
  <2>1. Good(Snapshot("load", o, "ACCEPTED"))
    BY DEF Good, Faithful, Snapshot
  <2>2. QED
    BY <1>0, <1>1, <1>2, <1>7, <2>1 DEF AutoAcceptCheck, Become, TypeOK
<1>8. ASSUME NEW r \in Requests, AutoAcceptLoad(r)
      PROVE  Good(req'[s])
  <2>1. req[r].order \in Orders /\ req[r].to \in Statuses /\ req[r].to = "ACCEPTED"
    BY <1>0, <1>8, UnderWay DEF AutoAcceptLoad, Request, MachineInv, Faithful
  <2>2. Permits(req[r].order, req[r].to, "SYSTEM") =>
            Good(Snapshot("commit", req[r].order, req[r].to))
    BY <2>1, PermitsStep DEF Good, Faithful, Snapshot
  <2>3. QED
    BY <1>0, <1>1, <1>2, <1>8, <2>2 DEF AutoAcceptLoad, Become, TypeOK
<1>9. ASSUME NEW r \in Requests, RetailRead(r)
      PROVE  Good(req'[s])
  <2>1. channel[req[r].order] = "counter"
    BY <1>9 DEF RetailRead, MachineInv, Faithful
  <2>2. Good(Snapshot("retailWrite", req[r].order, "COMPLETED"))
    BY <2>1 DEF Good, Faithful, Snapshot
  <2>3. QED
    BY <1>0, <1>1, <1>2, <1>9, <2>2 DEF RetailRead, Become, TypeOK
<1>10. ASSUME NEW r \in Requests, RetailWrite(r)
       PROVE  Good(req'[s])
  <2>1. req[r] \in Request /\ req[r].order \in Orders /\ channel[req[r].order] = "counter"
    BY <1>0, <1>10, UnderWay DEF RetailWrite, Request, MachineInv, Faithful
  <2>2. status[req[r].order] = "ACCEPTED" => Good([req[r] EXCEPT !.pc = "retailAudit"])
    <3>1. ASSUME status[req[r].order] = "ACCEPTED"
          PROVE  status'[req[r].order] = "COMPLETED"
      BY <1>0, <1>10, <2>1, <3>1 DEF RetailWrite, WriteStatus, TypeOK
    <3>2. QED
      BY <2>1, <3>1 DEF Good, Faithful, Request
  <2>3. QED
    BY <1>0, <1>1, <1>2, <1>10, <2>2 DEF RetailWrite, Become, TypeOK
<1>11. \A r \in Requests : ~ResyncWrite(r) /\ ~TabWrite(r)
  BY DEF FinalInv, ResyncWrite, TabWrite
<1>12. \A r \in Requests, o \in Orders :
           ~TabRead(r, o) /\ \A reOffered \in BOOLEAN : ~ResyncRead(r, o, reOffered)
  BY DEF GuardedWriters, TabRead, ResyncRead
<1>13. ASSUME RolloverRead \/ RolloverWrite \/ UNCHANGED vars
       PROVE  Good(req'[s])
  BY <1>1, <1>13 DEF RolloverRead, RolloverWrite, vars
<1>14. Good(req'[s])
  BY <1>3, <1>4, <1>5, <1>6, <1>7, <1>8, <1>9, <1>10, <1>11, <1>12, <1>13
  DEF Next, Start, Continue
<1>15. QED
  BY <1>14 DEF Good

LEMMA MachineInvStep ==
    ASSUME GuardedWriters, FinalInv, MachineInv, [Next]_vars
    PROVE  MachineInv'
<1>1. ASSUME NEW s \in Requests PROVE Faithful(req[s], status)'
  <2>1. Faithful(req'[s], status') /\ channel' = channel
    BY FaithfulStep, ChannelFixed
  <2>2. QED
    BY <2>1 DEF Faithful, Machine!Permitted
<1>2. QED
  BY <1>1 DEF MachineInv

LEMMA MachineStep ==
    ASSUME GuardedWriters, FinalInv, MachineInv, [Next]_vars
    PROVE  [Machine!Next]_(Machine!vars)
<1>0. TypeOK
  BY DEF FinalInv, SnapshotInv
<1>1. ASSUME NEW r \in Requests, UpdateStatusCommit(r) PROVE Machine!Next
  <2>1. /\ req[r].order \in Orders /\ req[r].to \in Statuses
        /\ req[r].seen = status[req[r].order]
    BY <1>0, <1>1, UnderWay
    DEF UpdateStatusCommit, Request, FinalInv, SnapshotInv, SnapshotCurrent
  <2>2. Machine!Permitted(channel[req[r].order], status[req[r].order], req[r].to)
    BY <1>1, <2>1 DEF UpdateStatusCommit, MachineInv, Faithful
  <2>3. Machine!Move(req[r].order, req[r].to)
    BY <1>1, <2>1, <2>2
    DEF UpdateStatusCommit, WriteStatus, Record, Machine!Move, Machine!Note
  <2>4. QED
    BY <2>1, <2>3, MachineChecks DEF Machine!Next
<1>2. ASSUME NEW r \in Requests, RetailWrite(r), status[req[r].order] = "ACCEPTED"
      PROVE  Machine!Next
  <2>1. req[r].order \in Orders /\ channel[req[r].order] = "counter"
    BY <1>0, <1>2, UnderWay DEF RetailWrite, Request, MachineInv, Faithful
  <2>2. Machine!Sell(req[r].order)
    BY <1>2, <2>1 DEF RetailWrite, WriteStatus, Machine!Sell
  <2>3. QED
    BY <2>1, <2>2 DEF Machine!Next
<1>3. ASSUME NEW r \in Requests, RetailAudit(r) PROVE Machine!Next
  <2>1. /\ req[r].order \in Orders /\ channel[req[r].order] = "counter"
        /\ status[req[r].order] = "COMPLETED"
    BY <1>0, <1>3, UnderWay DEF RetailAudit, Request, MachineInv, Faithful
  <2>2. Machine!NoteSale(req[r].order)
    BY <1>3, <2>1 DEF RetailAudit, Record, row, Machine!NoteSale, Machine!Note
  <2>3. QED
    BY <2>1, <2>2 DEF Machine!Next
<1>4. ASSUME NEW r \in Requests, RetailWrite(r), status[req[r].order] # "ACCEPTED"
      PROVE  UNCHANGED Machine!vars
  BY <1>4 DEF RetailWrite, row, Machine!vars
<1>5. \A r \in Requests : ~ResyncWrite(r) /\ ~TabWrite(r) /\ ~TabAudit(r)
  BY DEF FinalInv, ResyncWrite, TabWrite, TabAudit
<1>6. ~RolloverWrite
  BY DEF FinalInv, SnapshotInv, RolloverWrite
<1>7. ASSUME NEW r \in Requests,
             \/ \E o \in Orders :
                    \/ \E to \in Statuses, actor \in {"STAFF", "WEBHOOK"} :
                           UpdateStatusRead(r, o, to, actor)
                    \/ AutoAcceptCheck(r, o) \/ TabRead(r, o)
                    \/ \E reOffered \in BOOLEAN : ResyncRead(r, o, reOffered)
             \/ UpdateStatusConflict(r) \/ AutoAcceptLoad(r) \/ RetailRead(r) \/ Crash(r)
      PROVE  UNCHANGED Machine!vars
  BY <1>7
  DEF UpdateStatusRead, AutoAcceptCheck, TabRead, ResyncRead, UpdateStatusConflict,
      AutoAcceptLoad, RetailRead, Crash, row, Machine!vars
<1>8. ASSUME (\E o \in Orders : RowWrite(o)) \/ RolloverRead \/ UNCHANGED vars
      PROVE  UNCHANGED Machine!vars
  BY <1>8
  DEF RowWrite, CreateFollowUp, Touch, GoQuiet, SetPaymentStatus, RolloverRead, row,
      vars, Machine!vars
<1>9. QED
  BY <1>1, <1>2, <1>3, <1>4, <1>5, <1>6, <1>7, <1>8 DEF Next, Start, Continue

\* Each step of the guarded writers, any number of them interleaved and dying
\* anywhere, is one step of the machine or none: a commit is a whole transition,
\* permitted from the status it overwrites, with its history row.
THEOREM MachineCorrect ==
    ASSUME GuardedWriters
    PROVE  Spec => FollowsTheMachine
<1>1. Init => Machine!Init
  BY DEF Init, Channels, Machine!Init
<1>2. Init => MachineInv
  BY DEF Init, MachineInv, Faithful, Idle
<1>3. FinalInv /\ MachineInv /\ [Next]_vars => MachineInv'
  BY MachineInvStep
<1>4. FinalInv /\ MachineInv /\ [Next]_vars => [Machine!Next]_(Machine!vars)
  BY MachineStep
<1>5. QED
  BY <1>1, <1>2, <1>3, <1>4, FinalInvariant, PTL
  DEF Spec, FollowsTheMachine, Machine!Spec

-----------------------------------------------------------------------------
(* The history *)

\* A history row goes behind those there are.
LEMMA Recorded ==
    ASSUME TypeOK, NEW o \in Orders, NEW from \in Statuses, NEW to \in Statuses,
           Record(o, from, to)
    PROVE  /\ Len(trail'[o]) = Len(trail[o]) + 1
           /\ trail'[o][Len(trail[o]) + 1] = [from |-> from, to |-> to]
           /\ \A i \in 1 .. Len(trail[o]) : trail'[o][i] = trail[o][i]
           /\ \A p \in Orders \ {o} : trail'[p] = trail[p]
<1>1. /\ trail[o] \in Seq(Audit) /\ [from |-> from, to |-> to] \in Audit
      /\ trail' = [trail EXCEPT ![o] = Append(@, [from |-> from, to |-> to])]
  BY DEF TypeOK, Audit, Record
<1>2. trail'[o] = Append(trail[o], [from |-> from, to |-> to])
  BY <1>1 DEF TypeOK
<1>3. \A p \in Orders \ {o} : trail'[p] = trail[p]
  BY <1>1 DEF TypeOK
<1>4. QED
  BY <1>1, <1>2, <1>3

\* updateStatus alone writes a status.
CheckedWriters == Handlers \intersect {"retail", "resync", "tab", "rollover"} = {}

\* The history of one order, and nobody about to add what is not so any more.
StoryOf(o) ==
    /\ Len(trail[o]) > 0
    /\ \A i \in 1 .. Len(trail[o]) - 1 : trail[o][i + 1].from = trail[o][i].to
    /\ trail[o][Len(trail[o])].to = status[o]

StoryInv ==
    /\ \A o \in Orders : StoryOf(o)
    /\ \A r \in Requests : req[r].pc \in {"idle", "load", "commit"}

LEMMA StoryStep ==
    ASSUME CheckedWriters, SnapshotInv, StoryInv, [Next]_vars
    PROVE  StoryInv'
<1>0. TypeOK
  BY DEF SnapshotInv
<1>a. ASSUME UNCHANGED <<status, trail>>,
             \A r \in Requests : req'[r] = req[r] \/ req'[r].pc \in {"idle", "load", "commit"}
      PROVE  StoryInv'
  BY <1>a DEF StoryInv, StoryOf
<1>1. ASSUME NEW r \in Requests, UpdateStatusCommit(r) PROVE StoryInv'
  <2>1. PICK o \in Orders, seen \in Statuses, to \in Statuses :
            /\ o = req[r].order /\ seen = req[r].seen /\ to = req[r].to
            /\ seen = status[o]
    BY <1>0, <1>1, UnderWay DEF UpdateStatusCommit, Request, SnapshotInv, SnapshotCurrent
  <2>2. Record(o, seen, to) /\ status' = [status EXCEPT ![o] = to]
    BY <1>1, <2>1 DEF UpdateStatusCommit, WriteStatus
  <2>3. /\ status'[o] = to /\ \A p \in Orders \ {o} : status'[p] = status[p]
    BY <1>0, <2>1, <2>2 DEF TypeOK
  <2>4. /\ Len(trail'[o]) = Len(trail[o]) + 1
        /\ trail'[o][Len(trail[o]) + 1] = [from |-> seen, to |-> to]
        /\ \A i \in 1 .. Len(trail[o]) : trail'[o][i] = trail[o][i]
        /\ \A p \in Orders \ {o} : trail'[p] = trail[p]
    BY <1>0, <2>1, <2>2, Recorded
  <2>5. Len(trail[o]) \in Nat
    BY <1>0, <2>1 DEF TypeOK
  <2>6. StoryOf(o)'
    <3>1. /\ Len(trail[o]) > 0
          /\ \A i \in 1 .. Len(trail[o]) - 1 : trail[o][i + 1].from = trail[o][i].to
          /\ trail[o][Len(trail[o])].to = seen
      BY <2>1 DEF StoryInv, StoryOf
    <3>2. ASSUME NEW i \in 1 .. Len(trail[o]) PROVE trail'[o][i + 1].from = trail'[o][i].to
      <4>1. CASE i = Len(trail[o])
        BY <2>4, <2>5, <3>1, <4>1
      <4>2. CASE i # Len(trail[o])
        <5>1. i \in 1 .. Len(trail[o]) - 1 /\ i + 1 \in 1 .. Len(trail[o])
          BY <2>5, <4>2
        <5>2. QED
          BY <2>4, <3>1, <5>1
      <4>3. QED
        BY <4>1, <4>2
    <3>3. QED
      BY <2>3, <2>4, <2>5, <3>2 DEF StoryOf
  <2>7. ASSUME NEW p \in Orders \ {o} PROVE StoryOf(p)'
    <3>1. StoryOf(p) /\ trail'[p] = trail[p] /\ status'[p] = status[p]
      BY <2>3, <2>4 DEF StoryInv
    <3>2. QED
      BY <3>1 DEF StoryOf
  <2>8. \A q \in Requests : req'[q] = req[q] \/ req'[q].pc = "idle"
    BY <1>0, <1>1 DEF UpdateStatusCommit, Become, CheckedWriters, Idle, TypeOK
  <2>9. QED
    BY <2>6, <2>7, <2>8 DEF StoryInv
<1>2. ASSUME NEW r \in Requests, NEW o \in Orders, NEW to \in Statuses,
             NEW actor \in {"STAFF", "WEBHOOK"}, UpdateStatusRead(r, o, to, actor)
      PROVE  StoryInv'
  BY <1>0, <1>2, <1>a DEF UpdateStatusRead, Become, Snapshot, TypeOK, row
<1>3. ASSUME NEW r \in Requests, NEW o \in Orders, AutoAcceptCheck(r, o) PROVE StoryInv'
  BY <1>0, <1>3, <1>a DEF AutoAcceptCheck, Become, Snapshot, Idle, TypeOK, row
<1>4. ASSUME NEW r \in Requests,
             UpdateStatusConflict(r) \/ AutoAcceptLoad(r) \/ Crash(r)
      PROVE  StoryInv'
  BY <1>0, <1>4, <1>a
  DEF UpdateStatusConflict, AutoAcceptLoad, Crash, Become, Snapshot, Idle, TypeOK, row
<1>5. ASSUME NEW o \in Orders, RowWrite(o) PROVE StoryInv'
  BY <1>5, <1>a DEF RowWrite, CreateFollowUp, Touch, GoQuiet, SetPaymentStatus
<1>6. \A r \in Requests :
          /\ ~RetailRead(r) /\ ~RetailWrite(r) /\ ~RetailAudit(r)
          /\ ~ResyncWrite(r) /\ ~TabWrite(r) /\ ~TabAudit(r)
  BY DEF StoryInv, RetailRead, RetailWrite, RetailAudit, ResyncWrite, TabWrite, TabAudit
<1>7. \A r \in Requests, o \in Orders :
          ~TabRead(r, o) /\ \A reOffered \in BOOLEAN : ~ResyncRead(r, o, reOffered)
  BY DEF CheckedWriters, TabRead, ResyncRead
<1>8. ~RolloverRead /\ ~RolloverWrite
  BY DEF SnapshotInv, CheckedWriters, RolloverRead, RolloverWrite
<1>9. CASE UNCHANGED vars
  BY <1>9, <1>a DEF vars
<1>10. QED
  BY <1>1, <1>2, <1>3, <1>4, <1>5, <1>6, <1>7, <1>8, <1>9 DEF Next, Start, Continue

\* Where updateStatus alone writes statuses, for staff, webhooks and automatic
\* acceptance, each history row starts at the status the last one ended with: the
\* status a commit records as the old one is the one it overwrites.
THEOREM AuditCorrect ==
    ASSUME CheckedWriters
    PROVE  Spec => []AuditContiguous
<1>1. Init => StoryInv
  BY DEF Init, StoryInv, StoryOf, Idle
<1>2. StoryInv => AuditContiguous
  BY DEF StoryInv, StoryOf, AuditContiguous
<1>3. SnapshotInv /\ StoryInv /\ [Next]_vars => StoryInv'
  BY StoryStep
<1>4. Spec => []SnapshotInv
  BY SnapshotInvariant DEF CheckedWriters
<1>5. QED
  BY <1>1, <1>2, <1>3, <1>4, PTL DEF Spec

-----------------------------------------------------------------------------
(* Every status is in the history *)

Told(o) == \E i \in 1 .. Len(trail[o]) : trail[o][i].to = status[o]

\* Only a completion is recorded in a statement of its own.
ToldInv == \A o \in Orders : Told(o) \/ (status[o] = "COMPLETED" /\ AuditPending(o))

\* Whoever has a history row still to write, keeps it in mind.
PendingKept ==
    \A r \in Requests : req[r].pc \in {"retailAudit", "tabAudit"} => req'[r] = req[r]

LEMMA RestKept ==
    ASSUME PendingKept, NEW p \in Orders,
           UNCHANGED <<status[p], trail[p]>>,
           Told(p) \/ (status[p] = "COMPLETED" /\ AuditPending(p))
    PROVE  Told(p)' \/ (status[p]' = "COMPLETED" /\ AuditPending(p)')
BY DEF PendingKept, Told, AuditPending

\* A status written together with its history row.
LEMMA WrittenTold ==
    ASSUME TypeOK, ToldInv, PendingKept,
           NEW o \in Orders, NEW from \in Statuses, NEW to \in Statuses,
           Record(o, from, to), status' = [status EXCEPT ![o] = to]
    PROVE  ToldInv'
<1>1. /\ Len(trail'[o]) = Len(trail[o]) + 1 /\ Len(trail[o]) \in Nat
      /\ trail'[o][Len(trail[o]) + 1].to = to /\ status'[o] = to
  <2>1. /\ Len(trail'[o]) = Len(trail[o]) + 1
        /\ trail'[o][Len(trail[o]) + 1] = [from |-> from, to |-> to]
    BY Recorded
  <2>2. Len(trail[o]) \in Nat /\ status'[o] = to
    BY DEF TypeOK
  <2>3. QED
    BY <2>1, <2>2
<1>2. Told(o)'
  BY <1>1 DEF Told
<1>3. ASSUME NEW p \in Orders \ {o}
      PROVE  Told(p)' \/ (status[p]' = "COMPLETED" /\ AuditPending(p)')
  <2>1. UNCHANGED <<status[p], trail[p]>>
    BY Recorded DEF TypeOK
  <2>2. QED
    BY <2>1, RestKept DEF ToldInv
<1>4. QED
  BY <1>2, <1>3 DEF ToldInv

LEMMA ToldStep ==
    ASSUME "crash" \notin Handlers, TypeOK, ToldInv, [Next]_vars
    PROVE  ToldInv'
<1>a. ASSUME UNCHANGED <<status, trail>>, PendingKept PROVE ToldInv'
  BY <1>a, RestKept DEF ToldInv
<1>1. ASSUME NEW r \in Requests, UpdateStatusCommit(r) \/ ResyncWrite(r) PROVE ToldInv'
  <2>1. PICK o \in Orders, seen \in Statuses, to \in Statuses :
            o = req[r].order /\ seen = req[r].seen /\ to = req[r].to
    BY <1>1, UnderWay DEF UpdateStatusCommit, ResyncWrite, Request
  <2>2. Record(o, seen, to) /\ status' = [status EXCEPT ![o] = to]
    BY <1>1, <2>1 DEF UpdateStatusCommit, ResyncWrite, WriteStatus
  <2>3. PendingKept
    BY <1>1 DEF UpdateStatusCommit, ResyncWrite, Become, PendingKept, TypeOK
  <2>4. QED
    BY <2>2, <2>3, WrittenTold
<1>2. ASSUME NEW r \in Requests, RetailWrite(r) \/ TabWrite(r) PROVE ToldInv'
  <2>1. PendingKept
    BY <1>2 DEF RetailWrite, TabWrite, Become, PendingKept, TypeOK
  <2>2. CASE UNCHANGED status
    BY <1>2, <1>a, <2>1, <2>2 DEF RetailWrite, TabWrite
  <2>3. CASE status' # status
    <3>1. PICK o \in Orders : o = req[r].order
      BY <1>2, UnderWay DEF RetailWrite, TabWrite, Request
    <3>2. /\ status' = [status EXCEPT ![o] = "COMPLETED"] /\ trail' = trail
          /\ req'[r].order = o /\ req'[r].pc \in {"retailAudit", "tabAudit"}
      <4>1. req[r] \in Request
        BY <1>2, UnderWay DEF RetailWrite, TabWrite
      <4>2. QED
        BY <1>2, <2>3, <3>1, <4>1
        DEF RetailWrite, TabWrite, WriteStatus, Become, row, TypeOK, Request
    <3>3. status'[o] = "COMPLETED" /\ AuditPending(o)'
      BY <3>2 DEF AuditPending, TypeOK
    <3>4. ASSUME NEW p \in Orders \ {o}
          PROVE  Told(p)' \/ (status[p]' = "COMPLETED" /\ AuditPending(p)')
      <4>1. UNCHANGED <<status[p], trail[p]>>
        BY <3>2 DEF TypeOK
      <4>2. QED
        BY <2>1, <4>1, RestKept DEF ToldInv
    <3>5. QED
      BY <3>3, <3>4 DEF ToldInv
  <2>4. QED
    BY <2>2, <2>3
<1>3. ASSUME NEW r \in Requests, RetailAudit(r) \/ TabAudit(r) PROVE ToldInv'
  <2>1. PICK o \in Orders, from \in Statuses : o = req[r].order /\ Record(o, from, "COMPLETED")
    <3>1. req[r] \in Request
      BY <1>3, UnderWay DEF RetailAudit, TabAudit
    <3>2. QED
      BY <1>3, <3>1 DEF RetailAudit, TabAudit, Request, Statuses, InFlight
  <2>2. status' = status /\ \A q \in Requests \ {r} : req'[q] = req[q]
    BY <1>3 DEF RetailAudit, TabAudit, row, Become, TypeOK
  <2>3. /\ Len(trail'[o]) = Len(trail[o]) + 1 /\ Len(trail[o]) \in Nat
        /\ trail'[o][Len(trail[o]) + 1].to = "COMPLETED"
        /\ \A i \in 1 .. Len(trail[o]) : trail'[o][i] = trail[o][i]
        /\ \A p \in Orders \ {o} : trail'[p] = trail[p]
    <3>1. "COMPLETED" \in Statuses
      BY DEF Statuses, Terminal
    <3>2. /\ Len(trail'[o]) = Len(trail[o]) + 1
          /\ trail'[o][Len(trail[o]) + 1] = [from |-> from, to |-> "COMPLETED"]
          /\ \A i \in 1 .. Len(trail[o]) : trail'[o][i] = trail[o][i]
          /\ \A p \in Orders \ {o} : trail'[p] = trail[p]
      BY <2>1, <3>1, Recorded
    <3>3. Len(trail[o]) \in Nat
      BY DEF TypeOK
    <3>4. QED
      BY <3>2, <3>3
  <2>4. Told(o)'
    <3>1. CASE status[o] = "COMPLETED"
      BY <2>2, <2>3, <3>1 DEF Told
    <3>2. CASE status[o] # "COMPLETED"
      <4>1. PICK i \in 1 .. Len(trail[o]) : trail[o][i].to = status[o]
        BY <3>2 DEF ToldInv, Told
      <4>2. i \in 1 .. Len(trail'[o]) /\ trail'[o][i].to = status'[o]
        BY <2>2, <2>3, <4>1
      <4>3. QED
        BY <4>2 DEF Told
    <3>3. QED
      BY <3>1, <3>2
  <2>5. ASSUME NEW p \in Orders \ {o}
        PROVE  Told(p)' \/ (status[p]' = "COMPLETED" /\ AuditPending(p)')
    <3>1. CASE Told(p)
      BY <2>2, <2>3, <3>1 DEF Told
    <3>2. CASE status[p] = "COMPLETED" /\ AuditPending(p)
      BY <2>1, <2>2, <3>2 DEF AuditPending
    <3>3. QED
      BY <3>1, <3>2 DEF ToldInv
  <2>6. QED
    BY <2>4, <2>5 DEF ToldInv
<1>4. ASSUME RolloverWrite PROVE ToldInv'
  <2>1. PendingKept
    BY <1>4 DEF RolloverWrite, PendingKept
  <2>2. ASSUME NEW o \in Orders
        PROVE  Told(o)' \/ (status[o]' = "COMPLETED" /\ AuditPending(o)')
    <3>1. CASE rollover[o] = NotRead
      <4>1. UNCHANGED <<status[o], trail[o]>>
        BY <1>4, <3>1 DEF RolloverWrite
      <4>2. QED
        BY <2>1, <4>1, RestKept DEF ToldInv
    <3>2. CASE rollover[o] # NotRead
      <4>1. /\ status'[o] = "COMPLETED"
            /\ trail'[o] = Append(trail[o], [from |-> rollover[o], to |-> "COMPLETED"])
        BY <1>4, <3>2 DEF RolloverWrite
      <4>2. trail[o] \in Seq(Audit) /\ [from |-> rollover[o], to |-> "COMPLETED"] \in Audit
        BY <3>2 DEF TypeOK, Audit, Statuses, Terminal
      <4>3. /\ Len(trail'[o]) = Len(trail[o]) + 1 /\ Len(trail[o]) \in Nat
            /\ trail'[o][Len(trail[o]) + 1].to = "COMPLETED"
        BY <4>1, <4>2
      <4>4. Told(o)'
        BY <4>1, <4>3 DEF Told
      <4>5. QED
        BY <4>4
    <3>3. QED
      BY <3>1, <3>2
  <2>3. QED
    BY <2>2 DEF ToldInv
<1>5. ASSUME NEW r \in Requests, NEW o \in Orders,
             \/ \E to \in Statuses, actor \in {"STAFF", "WEBHOOK"} :
                    UpdateStatusRead(r, o, to, actor)
             \/ AutoAcceptCheck(r, o) \/ TabRead(r, o)
             \/ \E reOffered \in BOOLEAN : ResyncRead(r, o, reOffered)
      PROVE  ToldInv'
  <2>1. UNCHANGED <<status, trail>>
    BY <1>5 DEF UpdateStatusRead, AutoAcceptCheck, TabRead, ResyncRead, row
  <2>2. req[r] = Idle /\ \A q \in Requests \ {r} : req'[q] = req[q]
    BY <1>5
    DEF UpdateStatusRead, AutoAcceptCheck, TabRead, ResyncRead, MayStart, Become, TypeOK
  <2>3. QED
    BY <1>a, <2>1, <2>2 DEF PendingKept, Idle
<1>6. ASSUME NEW r \in Requests,
             UpdateStatusConflict(r) \/ AutoAcceptLoad(r) \/ RetailRead(r)
      PROVE  ToldInv'
  <2>1. UNCHANGED <<status, trail>> /\ req[r].pc \notin {"retailAudit", "tabAudit"}
    BY <1>6 DEF UpdateStatusConflict, AutoAcceptLoad, RetailRead, row
  <2>2. \A q \in Requests \ {r} : req'[q] = req[q]
    BY <1>6 DEF UpdateStatusConflict, AutoAcceptLoad, RetailRead, Become, TypeOK
  <2>3. QED
    BY <1>a, <2>1, <2>2 DEF PendingKept
<1>7. ASSUME NEW o \in Orders, RowWrite(o) PROVE ToldInv'
  BY <1>7, <1>a
  DEF RowWrite, CreateFollowUp, Touch, GoQuiet, SetPaymentStatus, PendingKept
<1>8. ASSUME RolloverRead \/ UNCHANGED vars PROVE ToldInv'
  BY <1>8, <1>a DEF RolloverRead, vars, row, PendingKept
<1>9. \A r \in Requests : ~Crash(r)
  BY DEF Crash
<1>10. QED
  BY <1>1, <1>2, <1>3, <1>4, <1>5, <1>6, <1>7, <1>8, <1>9 DEF Next, Start, Continue

\* Every writer there is, the rollover and the by-id ones included, in any number:
\* the status an order has is in its history, or its writer is about to add it.
THEOREM ToldCorrect ==
    ASSUME "crash" \notin Handlers
    PROVE  Spec => []AuditExplainsStatus
<1>1. Init => ToldInv
  BY DEF Init, ToldInv, Told
<1>2. TypeOK /\ ToldInv /\ [Next]_vars => ToldInv'
  BY ToldStep
<1>3. ToldInv => AuditExplainsStatus
  BY DEF ToldInv, Told, AuditExplainsStatus
<1>4. QED
  BY <1>1, <1>2, <1>3, TypeCorrect, PTL DEF Spec

-----------------------------------------------------------------------------
(* No writer moves a live order of the shop's own back *)

OwnChannel(o) == channel[o] \in {"counter", "table"}

LEMMA RankTop ==
    ASSUME NEW s \in Statuses
    PROVE  StatusRank[s] <= 100 /\ (s \in Terminal => StatusRank[s] = 100)
BY DEF StatusRank, Statuses, InFlight, Terminal

LEMMA PermitsRank ==
    ASSUME TypeOK, NEW o \in Orders, NEW to \in Statuses, NEW actor \in Actors,
           Permits(o, to, actor), actor # "WEBHOOK"
    PROVE  StatusRank[to] >= StatusRank[status[o]]
<1>1. status[o] \in Statuses
  BY DEF TypeOK
<1>2. to \in Cancellation \/ StatusRank[to] >= StatusRank[status[o]]
  BY DEF Permits, AssertTransition, MonotonicOrCancel
<1>3. Cancellation \subseteq Terminal
  BY DEF Cancellation, Terminal
<1>4. \A s \in Statuses : StatusRank[s] \in Nat
  BY DEF StatusRank
<1>5. QED
  BY <1>1, <1>2, <1>3, <1>4, RankTop

\* A commit that the optimistic check lets through meets the status it checked,
\* or the COMPLETED the rollover wrote behind updatedAt's back.
RankInv ==
    \A r \in Requests :
        /\ req[r].pc = "commit" =>
              /\ req[r].ver <= updatedAt[req[r].order]
              /\ req[r].ver = updatedAt[req[r].order] =>
                    status[req[r].order] \in {req[r].seen, "COMPLETED"}
              /\ OwnChannel(req[r].order) => StatusRank[req[r].to] >= StatusRank[req[r].seen]
        /\ req[r].pc = "resync" => channel[req[r].order] = "marketplace"

\* A write that stamps the row makes what was read of it stale.
LEMMA RankStamped ==
    ASSUME TypeOK, RankInv, NEW o \in Orders, UNCHANGED channel,
           updatedAt' = [updatedAt EXCEPT ![o] = @ + 1],
           \A p \in Orders \ {o} : status'[p] = status[p],
           \A r \in Requests : req'[r] = req[r] \/ req'[r].pc \notin {"commit", "resync"}
    PROVE  RankInv'
<1>1. SUFFICES ASSUME NEW r \in Requests, req'[r].pc \in {"commit", "resync"}, req'[r] = req[r]
               PROVE  /\ req'[r].pc = "commit" =>
                            /\ req'[r].ver <= updatedAt'[req'[r].order]
                            /\ req'[r].ver = updatedAt'[req'[r].order] =>
                                  status'[req'[r].order] \in {req'[r].seen, "COMPLETED"}
                            /\ channel'[req'[r].order] \in {"counter", "table"} =>
                                  StatusRank[req'[r].to] >= StatusRank[req'[r].seen]
                      /\ req'[r].pc = "resync" => channel'[req'[r].order] = "marketplace"
  BY DEF RankInv, OwnChannel
<1>2. req[r] \in Request
  BY <1>1, UnderWay
<1>3. /\ req[r].order \in Orders /\ req[r].ver \in Nat
      /\ updatedAt[req[r].order] \in Nat /\ updatedAt[o] \in Nat
      /\ updatedAt'[o] = updatedAt[o] + 1
      /\ req[r].order # o => updatedAt'[req[r].order] = updatedAt[req[r].order]
  BY <1>2 DEF Request, TypeOK
<1>4. QED
  BY <1>1, <1>3 DEF RankInv, OwnChannel

\* Reading a row, or the rollover's write of it.
LEMMA RankRead ==
    ASSUME TypeOK, RankInv, UNCHANGED <<channel, updatedAt>>,
           \A p \in Orders : status'[p] = status[p] \/ status'[p] = "COMPLETED",
           \A r \in Requests : \/ req'[r] = req[r]
                               \/ req'[r].pc \notin {"commit", "resync"}
                               \/ /\ status' = status
                                  /\ \E o \in Orders, to \in Statuses :
                                        \/ /\ req'[r] = Snapshot("commit", o, to)
                                           /\ OwnChannel(o) => StatusRank[to] >= StatusRank[status[o]]
                                        \/ /\ req'[r] = Snapshot("resync", o, to)
                                           /\ channel[o] = "marketplace"
    PROVE  RankInv'
<1> SUFFICES ASSUME NEW r \in Requests
             PROVE  /\ req'[r].pc = "commit" =>
                          /\ req'[r].ver <= updatedAt'[req'[r].order]
                          /\ req'[r].ver = updatedAt'[req'[r].order] =>
                                status'[req'[r].order] \in {req'[r].seen, "COMPLETED"}
                          /\ channel'[req'[r].order] \in {"counter", "table"} =>
                                StatusRank[req'[r].to] >= StatusRank[req'[r].seen]
                    /\ req'[r].pc = "resync" => channel'[req'[r].order] = "marketplace"
  BY DEF RankInv, OwnChannel
<1>1. CASE req'[r] = req[r]
  <2>1. req[r].pc = "commit" => req[r].order \in Orders
    BY UnderWay DEF Request
  <2>2. QED
    BY <1>1, <2>1 DEF RankInv, OwnChannel
<1>2. CASE req'[r].pc \notin {"commit", "resync"}
  BY <1>2
<1>3. ASSUME NEW o \in Orders, NEW to \in Statuses, status' = status,
             \/ /\ req'[r] = Snapshot("commit", o, to)
                /\ OwnChannel(o) => StatusRank[to] >= StatusRank[status[o]]
             \/ /\ req'[r] = Snapshot("resync", o, to)
                /\ channel[o] = "marketplace"
      PROVE  /\ req'[r].pc = "commit" =>
                   /\ req'[r].ver <= updatedAt'[req'[r].order]
                   /\ req'[r].ver = updatedAt'[req'[r].order] =>
                         status'[req'[r].order] \in {req'[r].seen, "COMPLETED"}
                   /\ channel'[req'[r].order] \in {"counter", "table"} =>
                         StatusRank[req'[r].to] >= StatusRank[req'[r].seen]
             /\ req'[r].pc = "resync" => channel'[req'[r].order] = "marketplace"
  <2>1. updatedAt[o] \in Nat
    BY DEF TypeOK
  <2>2. QED
    BY <1>3, <2>1 DEF Snapshot, OwnChannel
<1>4. QED
  BY <1>1, <1>2, <1>3

LEMMA RankStep == ASSUME TypeOK, RankInv, [Next]_vars PROVE RankInv'
<1>1. ASSUME NEW r \in Requests, NEW o \in Orders, NEW to \in Statuses,
             NEW actor \in {"STAFF", "WEBHOOK"}, UpdateStatusRead(r, o, to, actor)
      PROVE  RankInv'
  <2>1. OwnChannel(o) => StatusRank[to] >= StatusRank[status[o]]
    BY <1>1, PermitsRank DEF UpdateStatusRead, Actors, OwnChannel
  <2>2. \A s \in Requests : req'[s] = req[s] \/ req'[s] = Snapshot("commit", o, to)
    BY <1>1 DEF UpdateStatusRead, Become, TypeOK
  <2>3. QED
    BY <1>1, <2>1, <2>2, RankRead DEF UpdateStatusRead, row
<1>2. ASSUME NEW r \in Requests,
             UpdateStatusCommit(r) \/ ResyncWrite(r) \/ TabWrite(r)
      PROVE  RankInv'
  <2>1. req[r] \in Request
    BY <1>2, UnderWay DEF UpdateStatusCommit, ResyncWrite, TabWrite
  <2>2. \A s \in Requests : req'[s] = req[s] \/ req'[s].pc \notin {"commit", "resync"}
    BY <1>2, <2>1 DEF UpdateStatusCommit, ResyncWrite, TabWrite, Become, TypeOK, Idle, Request
  <2>3. req[r].order \in Orders
    BY <2>1 DEF Request
  <2>4. QED
    BY <1>2, <2>2, <2>3, RankStamped
    DEF UpdateStatusCommit, ResyncWrite, TabWrite, WriteStatus, Stamp, TypeOK
<1>3. ASSUME NEW r \in Requests,
             \/ UpdateStatusConflict(r) \/ RetailAudit(r) \/ TabAudit(r) \/ Crash(r)
             \/ RetailRead(r)
      PROVE  RankInv'
  <2>1. \A s \in Requests : req'[s] = req[s] \/ req'[s].pc \notin {"commit", "resync"}
    BY <1>3
    DEF UpdateStatusConflict, RetailAudit, TabAudit, Crash, RetailRead, Become, Snapshot,
        TypeOK, Idle
  <2>2. UNCHANGED <<channel, status, updatedAt>>
    BY <1>3 DEF UpdateStatusConflict, RetailAudit, TabAudit, Crash, RetailRead, row
  <2>3. QED
    BY <2>1, <2>2, RankRead
<1>4. ASSUME NEW o \in Orders, RowWrite(o) PROVE RankInv'
  <2>1. CASE GoQuiet(o)
    BY <2>1, RankRead DEF GoQuiet
  <2>2. CASE ~GoQuiet(o)
    BY <1>4, <2>2, RankStamped DEF RowWrite, CreateFollowUp, Touch, SetPaymentStatus, Stamp
  <2>3. QED
    BY <2>1, <2>2
<1>5. ASSUME NEW r \in Requests, NEW o \in Orders, AutoAcceptCheck(r, o) \/ TabRead(r, o)
      PROVE  RankInv'
  <2>1. \A s \in Requests : req'[s] = req[s] \/ req'[s].pc \notin {"commit", "resync"}
    BY <1>5 DEF AutoAcceptCheck, TabRead, Become, Snapshot, TypeOK, Idle
  <2>2. UNCHANGED <<channel, status, updatedAt>>
    BY <1>5 DEF AutoAcceptCheck, TabRead, row
  <2>3. QED
    BY <2>1, <2>2, RankRead
<1>6. ASSUME NEW r \in Requests, NEW o \in Orders, NEW reOffered \in BOOLEAN,
             ResyncRead(r, o, reOffered)
      PROVE  RankInv'
  <2>1. PICK to \in Statuses : req' = [req EXCEPT ![r] = Snapshot("resync", o, to)]
    BY <1>6 DEF ResyncRead, Become, TypeOK, Statuses, InFlight
  <2>2. QED
    BY <1>6, <2>1, RankRead DEF ResyncRead, TypeOK, row
<1>7. ASSUME NEW r \in Requests, AutoAcceptLoad(r) PROVE RankInv'
  <2>1. PICK o \in Orders, to \in Statuses : o = req[r].order /\ to = req[r].to
    BY <1>7, UnderWay DEF AutoAcceptLoad, Request
  <2>2. Permits(o, to, "SYSTEM") => StatusRank[to] >= StatusRank[status[o]]
    BY PermitsRank DEF Actors
  <2>3. \A s \in Requests :
            \/ req'[s] = req[s] \/ req'[s].pc \notin {"commit", "resync"}
            \/ Permits(o, to, "SYSTEM") /\ req'[s] = Snapshot("commit", o, to)
    BY <1>7, <2>1 DEF AutoAcceptLoad, Become, TypeOK, Idle
  <2>4. UNCHANGED <<channel, status, updatedAt>>
    BY <1>7 DEF AutoAcceptLoad, row
  <2>5. QED
    BY <2>2, <2>3, <2>4, RankRead
<1>8. ASSUME NEW r \in Requests, RetailWrite(r) PROVE RankInv'
  <2>1. req[r] \in Request
    BY <1>8, UnderWay DEF RetailWrite
  <2>2. \A s \in Requests : req'[s] = req[s] \/ req'[s].pc \notin {"commit", "resync"}
    BY <1>8, <2>1 DEF RetailWrite, Become, TypeOK, Idle, Request
  <2>3. CASE status[req[r].order] = "ACCEPTED"
    BY <1>8, <2>1, <2>2, <2>3, RankStamped
    DEF RetailWrite, WriteStatus, Stamp, TypeOK, Request
  <2>4. CASE status[req[r].order] # "ACCEPTED"
    BY <1>8, <2>2, <2>4, RankRead DEF RetailWrite, row
  <2>5. QED
    BY <2>3, <2>4
<1>9. ASSUME RolloverRead \/ RolloverWrite \/ UNCHANGED vars PROVE RankInv'
  BY <1>9, RankRead DEF RolloverRead, RolloverWrite, vars, row
<1>10. QED
  BY <1>1, <1>2, <1>3, <1>4, <1>5, <1>6, <1>7, <1>8, <1>9 DEF Next, Start, Continue

\* Whichever writers run, in any number and any interleaving: a counter sale or a
\* table's order that is not over is never written a status of a lower rank.
THEOREM RankCorrect == Spec => RankNeverFalls
<1>1. ASSUME TypeOK, RankInv, [Next]_vars,
             NEW o \in Orders, OwnChannel(o), status[o] \notin Terminal
      PROVE  StatusRank[status'[o]] >= StatusRank[status[o]]
  <2>0. /\ status[o] \in Statuses
        /\ \A s \in Statuses : StatusRank[s] \in Nat
        /\ "COMPLETED" \in Statuses \intersect Terminal
    BY <1>1 DEF TypeOK, StatusRank, Statuses, Terminal
  <2>a. ASSUME status'[o] = status[o] \/ status'[o] = "COMPLETED"
        PROVE  StatusRank[status'[o]] >= StatusRank[status[o]]
    BY <2>0, <2>a, RankTop
  <2>1. ASSUME NEW r \in Requests, UpdateStatusCommit(r)
        PROVE  StatusRank[status'[o]] >= StatusRank[status[o]]
    <3>1. CASE req[r].order = o
      <4>1. status[o] = req[r].seen
        BY <1>1, <2>1, <3>1 DEF RankInv, UpdateStatusCommit, Terminal
      <4>2. status'[o] = req[r].to
        BY <1>1, <2>1, <3>1 DEF UpdateStatusCommit, WriteStatus, TypeOK
      <4>3. QED
        BY <1>1, <2>1, <3>1, <4>1, <4>2 DEF RankInv, UpdateStatusCommit
    <3>2. CASE req[r].order # o
      BY <1>1, <2>1, <2>a, <3>2 DEF UpdateStatusCommit, WriteStatus, TypeOK
    <3>3. QED
      BY <3>1, <3>2
  <2>2. ASSUME NEW r \in Requests, ResyncWrite(r)
        PROVE  StatusRank[status'[o]] >= StatusRank[status[o]]
    <3>1. req[r].order # o
      BY <1>1, <2>2 DEF RankInv, OwnChannel, ResyncWrite
    <3>2. QED
      BY <1>1, <2>2, <2>a, <3>1 DEF ResyncWrite, WriteStatus, TypeOK
  <2>3. ASSUME NEW r \in Requests, RetailWrite(r) \/ TabWrite(r)
        PROVE  StatusRank[status'[o]] >= StatusRank[status[o]]
    BY <1>1, <2>3, <2>a DEF RetailWrite, TabWrite, WriteStatus, TypeOK, row
  <2>4. ASSUME RolloverWrite
        PROVE  StatusRank[status'[o]] >= StatusRank[status[o]]
    BY <1>1, <2>4, <2>a DEF RolloverWrite
  <2>5. ASSUME NEW r \in Requests, Start(r) \/ Crash(r)
        PROVE  status'[o] = status[o]
    BY <2>5
    DEF Start, UpdateStatusRead, AutoAcceptCheck, ResyncRead, TabRead, Crash, row
  <2>6. ASSUME NEW r \in Requests,
               \/ UpdateStatusConflict(r) \/ AutoAcceptLoad(r) \/ RetailRead(r)
               \/ RetailAudit(r) \/ TabAudit(r)
        PROVE  status'[o] = status[o]
    BY <2>6
    DEF UpdateStatusConflict, AutoAcceptLoad, RetailRead, RetailAudit, TabAudit, row
  <2>7. ASSUME NEW p \in Orders, RowWrite(p)
        PROVE  status'[o] = status[o]
    BY <2>7 DEF RowWrite, CreateFollowUp, SetPaymentStatus, Touch, GoQuiet, Stamp, row
  <2>8. CASE RolloverRead \/ UNCHANGED vars
    BY <2>8, <2>a DEF RolloverRead, row, vars
  <2>9. QED
    BY <1>1, <2>1, <2>2, <2>3, <2>4, <2>5, <2>6, <2>7, <2>8, <2>a DEF Next, Continue
<1>2. TypeOK /\ RankInv /\ [Next]_vars =>
          [\A o \in Orders :
               (channel[o] \in {"counter", "table"} /\ status[o] \notin Terminal)
                   => StatusRank[status'[o]] >= StatusRank[status[o]]]_vars
  BY <1>1 DEF OwnChannel
<1>3. Init => RankInv
  BY DEF Init, RankInv, Idle
<1>4. TypeOK /\ RankInv /\ [Next]_vars => RankInv'
  BY RankStep
<1>5. QED
  BY <1>2, <1>3, <1>4, TypeCorrect, PTL DEF Spec, RankNeverFalls

-----------------------------------------------------------------------------
(* A paid counter sale is not left waiting *)

\* Nothing but the re-offer of a marketplace's order is about to write PENDING.
AheadInv ==
    \A r \in Requests :
        /\ req[r].pc \in {"load", "commit"} => req[r].to # "PENDING"
        /\ req[r].pc = "resync" => channel[req[r].order] = "marketplace"

LEMMA PermitsAhead ==
    ASSUME TypeOK, NEW o \in Orders, NEW to, NEW actor,
           Permits(o, to, actor),
           actor = "WEBHOOK" => to \in WebhookTargets
    PROVE  to # "PENDING"
<1>1. "PENDING" \notin WebhookTargets /\ "PENDING" \notin Cancellation
  BY DEF WebhookTargets, Cancellation, Terminal
<1>2. \A s \in Statuses : "PENDING" \notin ValidTransitions[s]
  BY DEF ValidTransitions, Cancellation, OnTheRoad
<1>3. ASSUME actor # "WEBHOOK"
      PROVE  to # "PENDING"
  <2>1. to \in Cancellation \/ to \in ValidTransitions[status[o]]
    BY <1>3 DEF Permits, AssertTransition, CanTransition
  <2>2. status[o] \in Statuses
    BY DEF TypeOK
  <2>3. QED
    BY <1>1, <1>2, <2>1, <2>2
<1>4. QED
  BY <1>1, <1>3

\* What a handler that reads the row again is about to write.
LEMMA AheadRead ==
    ASSUME AheadInv, UNCHANGED channel,
           \A r \in Requests :
               \/ req'[r] = req[r]
               \/ req'[r].pc \notin {"load", "commit", "resync"}
               \/ req'[r].pc \in {"load", "commit"} /\ req'[r].to # "PENDING"
               \/ req'[r].pc = "resync" /\ channel[req'[r].order] = "marketplace"
    PROVE  AheadInv'
BY DEF AheadInv

LEMMA AheadStep == ASSUME TypeOK, AheadInv, [Next]_vars PROVE AheadInv'
<1>0. channel' = channel
  BY ChannelFixed
<1>1. ASSUME NEW r \in Requests, NEW o \in Orders, NEW to \in Statuses,
             NEW actor \in {"STAFF", "WEBHOOK"}, UpdateStatusRead(r, o, to, actor)
      PROVE  AheadInv'
  <2>1. to # "PENDING"
    BY <1>1, PermitsAhead DEF UpdateStatusRead
  <2>2. Snapshot("commit", o, to).pc = "commit" /\ Snapshot("commit", o, to).to = to
    BY DEF Snapshot
  <2>3. \A s \in Requests : req'[s] = req[s] \/ req'[s] = Snapshot("commit", o, to)
    BY <1>1 DEF UpdateStatusRead, Become, TypeOK
  <2>4. QED
    BY <1>0, <2>1, <2>2, <2>3, AheadRead
<1>2. ASSUME NEW r \in Requests,
             \/ UpdateStatusConflict(r) \/ RetailAudit(r) \/ TabAudit(r) \/ Crash(r)
             \/ ResyncWrite(r)
      PROVE  AheadInv'
  <2>1. \A s \in Requests : req'[s] = req[s] \/ req'[s] = Idle
    BY <1>2
    DEF UpdateStatusConflict, RetailAudit, TabAudit, Crash, ResyncWrite, Become, TypeOK
  <2>2. QED
    BY <1>0, <2>1, AheadRead DEF Idle
<1>3. ASSUME NEW r \in Requests,
             UpdateStatusCommit(r) \/ RetailWrite(r) \/ TabWrite(r)
      PROVE  AheadInv'
  <2>1. req[r] \in Request
    BY <1>3, UnderWay DEF UpdateStatusCommit, RetailWrite, TabWrite
  <2>2. \A s \in Requests :
            req'[s] = req[s] \/ req'[s].pc \in {"idle", "retail", "retailAudit", "tabAudit"}
    BY <1>3, <2>1
    DEF UpdateStatusCommit, RetailWrite, TabWrite, Become, TypeOK, Idle, Request
  <2>3. QED
    BY <1>0, <2>2, AheadRead
<1>4. ASSUME NEW r \in Requests, NEW o \in Orders, AutoAcceptCheck(r, o)
      PROVE  AheadInv'
  <2>1. \A s \in Requests :
            \/ req'[s] = req[s] \/ req'[s] = Idle
            \/ req'[s] = Snapshot("load", o, "ACCEPTED")
    BY <1>4 DEF AutoAcceptCheck, Become, TypeOK
  <2>2. /\ Snapshot("load", o, "ACCEPTED").pc = "load"
        /\ Snapshot("load", o, "ACCEPTED").to = "ACCEPTED"
    BY DEF Snapshot
  <2>3. QED
    BY <1>0, <2>1, <2>2, AheadRead DEF Idle
<1>5. ASSUME NEW r \in Requests, AutoAcceptLoad(r)
      PROVE  AheadInv'
  <2>1. req[r].to # "PENDING"
    BY <1>5 DEF AutoAcceptLoad, AheadInv
  <2>2. \A s \in Requests :
            \/ req'[s] = req[s] \/ req'[s] = Idle
            \/ req'[s] = Snapshot("commit", req[r].order, req[r].to)
    BY <1>5 DEF AutoAcceptLoad, Become, TypeOK
  <2>3. /\ Snapshot("commit", req[r].order, req[r].to).pc = "commit"
        /\ Snapshot("commit", req[r].order, req[r].to).to = req[r].to
    BY DEF Snapshot
  <2>4. QED
    BY <1>0, <2>1, <2>2, <2>3, AheadRead DEF Idle
<1>6. ASSUME NEW r \in Requests, NEW o \in Orders, RetailRead(r) \/ TabRead(r, o)
      PROVE  AheadInv'
  <2>1. \A s \in Requests :
            req'[s] = req[s] \/ req'[s].pc \in {"idle", "retailWrite", "tab"}
    BY <1>6 DEF RetailRead, TabRead, Become, Snapshot, TypeOK, Idle
  <2>2. QED
    BY <1>0, <2>1, AheadRead
<1>7. ASSUME NEW r \in Requests, NEW o \in Orders, NEW reOffered \in BOOLEAN,
             ResyncRead(r, o, reOffered)
      PROVE  AheadInv'
  <2>1. \A s \in Requests :
            \/ req'[s] = req[s]
            \/ req'[s].pc = "resync" /\ req'[s].order = o
    BY <1>7 DEF ResyncRead, Become, Snapshot, TypeOK
  <2>2. channel[o] = "marketplace"
    BY <1>7 DEF ResyncRead
  <2>3. QED
    BY <1>0, <2>1, <2>2, AheadRead
<1>8. ASSUME NEW o \in Orders, RowWrite(o)
      PROVE  req' = req
  BY <1>8 DEF RowWrite, CreateFollowUp, Touch, SetPaymentStatus, GoQuiet
<1>9. ASSUME RolloverRead \/ RolloverWrite \/ UNCHANGED vars
      PROVE  req' = req
  BY <1>9 DEF RolloverRead, RolloverWrite, vars
<1>10. ASSUME req' = req
       PROVE  AheadInv'
  BY <1>0, <1>10, AheadRead
<1>11. ASSUME NEW r \in Requests, Start(r)
       PROVE  AheadInv'
  BY <1>1, <1>4, <1>6, <1>7, <1>11 DEF Start
<1>12. ASSUME NEW r \in Requests, Continue(r) \/ Crash(r)
       PROVE  AheadInv'
  <2>1. CASE RetailRead(r)
    <3>1. req[r].order \in Orders
      BY <2>1, UnderWay DEF RetailRead, Request
    <3>2. QED
      BY <1>6, <2>1, <3>1
  <2>2. CASE ~RetailRead(r)
    BY <1>2, <1>3, <1>5, <1>12, <2>2 DEF Continue
  <2>3. QED
    BY <2>1, <2>2
<1>13. QED
  BY <1>8, <1>9, <1>10, <1>11, <1>12 DEF Next

\* A counter sale that is PENDING after a step was PENDING before it.
LEMMA PendingBefore ==
    ASSUME TypeOK, AheadInv, [Next]_vars, NEW o \in Orders,
           channel[o] = "counter", status'[o] = "PENDING"
    PROVE  status[o] = "PENDING"
<1>1. ASSUME NEW r \in Requests, UpdateStatusCommit(r)
      PROVE  status'[o] \in {status[o], req[r].to} /\ req[r].to # "PENDING"
  BY <1>1 DEF UpdateStatusCommit, WriteStatus, TypeOK, AheadInv
<1>2. ASSUME NEW r \in Requests, ResyncWrite(r)
      PROVE  status'[o] = status[o]
  <2>1. req[r].order # o
    BY <1>2 DEF ResyncWrite, AheadInv
  <2>2. QED
    BY <1>2, <2>1 DEF ResyncWrite, WriteStatus, TypeOK
<1>3. ASSUME NEW r \in Requests, RetailWrite(r) \/ TabWrite(r)
      PROVE  status'[o] \in {status[o], "COMPLETED"}
  BY <1>3 DEF RetailWrite, TabWrite, WriteStatus, TypeOK, row
<1>4. ASSUME RolloverRead \/ RolloverWrite \/ UNCHANGED vars
      PROVE  status'[o] \in {status[o], "COMPLETED"}
  BY <1>4 DEF RolloverRead, RolloverWrite, vars, row
<1>5. ASSUME NEW r \in Requests, Start(r) \/ Crash(r)
      PROVE  status'[o] = status[o]
  BY <1>5 DEF Start, UpdateStatusRead, AutoAcceptCheck, ResyncRead, TabRead, Crash, row
<1>6. ASSUME NEW r \in Requests,
             \/ UpdateStatusConflict(r) \/ AutoAcceptLoad(r) \/ RetailRead(r)
             \/ RetailAudit(r) \/ TabAudit(r)
      PROVE  status'[o] = status[o]
  BY <1>6 DEF UpdateStatusConflict, AutoAcceptLoad, RetailRead, RetailAudit, TabAudit, row
<1>7. ASSUME NEW p \in Orders, RowWrite(p)
      PROVE  status'[o] = status[o]
  BY <1>7 DEF RowWrite, CreateFollowUp, SetPaymentStatus, Touch, GoQuiet
<1>8. QED
  BY <1>1, <1>2, <1>3, <1>4, <1>5, <1>6, <1>7 DEF Next, Continue

\* What is under way stays under way when a step leaves the knocks and the
\* acceptances alone.
LEMMA AcceptKept ==
    ASSUME NEW o \in Orders, Accepting(o), knocks'[o] = knocks[o],
           \A r \in Requests : Accepts(r, o) => Accepts(r, o)'
    PROVE  Accepting(o)'
BY DEF Accepting

\* An acceptance that finds the sale still waiting goes on.
LEMMA PermitsAccept ==
    ASSUME NEW o \in Orders, status[o] = "PENDING"
    PROVE  Permits(o, "ACCEPTED", "SYSTEM")
<1>1. "PENDING" \in Statuses /\ "PENDING" \notin Terminal /\ "ACCEPTED" \in Statuses
  BY DEF Statuses, InFlight, Terminal
<1>2. "ACCEPTED" \in ValidTransitions["PENDING"]
  BY <1>1, WaysOut
<1>3. StatusRank["ACCEPTED"] >= StatusRank["PENDING"]
  BY <1>1 DEF StatusRank
<1>4. QED
  BY <1>1, <1>2, <1>3 DEF Permits, AssertTransition, MonotonicOrCancel, CanTransition

\* One step per writer that touches a knock or an acceptance.
LEMMA AcceptStep ==
    ASSUME TypeOK, AheadInv, [Next]_vars, NEW o \in Orders,
           Waiting(o) => Accepting(o), Waiting(o)', ~Accepting(o)'
    PROVE  \E r \in Requests :
               /\ Accepts(r, o)
               /\ req'[r] = Idle
               /\ \/ req[r].pc = "commit" /\ updatedAt[o] # req[r].ver
                  \/ "crash" \in Handlers
<1> DEFINE Lost(r) == /\ Accepts(r, o)
                      /\ req'[r] = Idle
                      /\ \/ req[r].pc = "commit" /\ updatedAt[o] # req[r].ver
                         \/ "crash" \in Handlers
<1>1. channel' = channel /\ channel[o] = "counter" /\ status'[o] = "PENDING" /\ paid'[o]
  BY ChannelFixed DEF Waiting
<1>2. status[o] = "PENDING"
  BY <1>1, PendingBefore
<1>3. ASSUME NEW p \in Orders, NEW isPaid \in BOOLEAN, SetPaymentStatus(p, isPaid)
      PROVE  paid[o] /\ knocks'[o] = knocks[o] /\ req' = req
  <2>1. ~(knocks'[o] > 0)
    BY DEF Accepting
  <2>2. knocks[o] \in Nat /\ knocks \in [Orders -> Nat] /\ paid \in [Orders -> BOOLEAN]
    BY DEF TypeOK
  <2>3. ~(p = o /\ isPaid)
    BY <1>2, <1>3, <2>1, <2>2 DEF SetPaymentStatus
  <2>4. p # o
    BY <1>1, <1>3, <2>2, <2>3 DEF SetPaymentStatus
  <2>5. QED
    BY <1>1, <1>3, <2>2, <2>4 DEF SetPaymentStatus
<1>4. ASSUME NEW p \in Orders, RowWrite(p)
      PROVE  paid[o] /\ knocks'[o] = knocks[o] /\ req' = req
  BY <1>1, <1>3, <1>4 DEF RowWrite, CreateFollowUp, Touch, GoQuiet
<1>5. ASSUME RolloverRead \/ RolloverWrite \/ UNCHANGED vars
      PROVE  paid[o] /\ knocks'[o] = knocks[o] /\ req' = req
  BY <1>1, <1>5 DEF RolloverRead, RolloverWrite, vars
<1>6. ASSUME paid[o], knocks'[o] = knocks[o],
             \A r \in Requests : Accepts(r, o) => Accepts(r, o)'
      PROVE  FALSE
  BY <1>1, <1>2, <1>6, AcceptKept DEF Waiting
<1>7. ASSUME paid[o], knocks'[o] = knocks[o], req' = req
      PROVE  FALSE
  BY <1>6, <1>7 DEF Accepts
<1>8. ASSUME NEW r \in Requests, paid[o], knocks'[o] = knocks[o], ~Accepts(r, o),
             \A s \in Requests \ {r} : req'[s] = req[s]
      PROVE  FALSE
  BY <1>6, <1>8 DEF Accepts
<1>9. ASSUME NEW r \in Requests, NEW p \in Orders, AutoAcceptCheck(r, p)
      PROVE  FALSE
  <2>1. paid[o] /\ ~Accepts(r, o) /\ \A s \in Requests \ {r} : req'[s] = req[s]
    BY <1>1, <1>9 DEF AutoAcceptCheck, Become, Accepts, Idle, TypeOK
  <2>2. CASE p # o
    <3>1. knocks'[o] = knocks[o]
      BY <1>9, <2>2 DEF AutoAcceptCheck, TypeOK
    <3>2. QED
      BY <1>8, <2>1, <3>1
  <2>3. CASE p = o
    <3>1. AutoAcceptGate(o)
      BY <1>1, <1>2, <2>1 DEF AutoAcceptGate
    <3>2. req'[r] = Snapshot("load", o, "ACCEPTED")
      BY <1>9, <2>3, <3>1 DEF AutoAcceptCheck, Become, TypeOK
    <3>3. Accepts(r, o)'
      BY <3>2 DEF Accepts, Snapshot
    <3>4. QED
      BY <3>3 DEF Accepting
  <2>4. QED
    BY <2>2, <2>3
<1>10. ASSUME NEW r \in Requests, AutoAcceptLoad(r)
       PROVE  FALSE
  <2>1. /\ paid[o] /\ knocks'[o] = knocks[o]
        /\ \A s \in Requests \ {r} : req'[s] = req[s]
    BY <1>1, <1>10 DEF AutoAcceptLoad, Become, TypeOK
  <2>2. CASE ~Accepts(r, o)
    BY <1>8, <2>1, <2>2
  <2>3. CASE Accepts(r, o)
    <3>1. req[r].order = o /\ req[r].to = "ACCEPTED"
      BY <2>3 DEF Accepts
    <3>2. req'[r] = Snapshot("commit", o, "ACCEPTED")
      BY <1>2, <1>10, <3>1, PermitsAccept DEF AutoAcceptLoad, Become, TypeOK
    <3>3. Accepts(r, o)'
      BY <3>2 DEF Accepts, Snapshot
    <3>4. QED
      BY <3>3 DEF Accepting
  <2>4. QED
    BY <2>2, <2>3
<1>11. ASSUME NEW r \in Requests, UpdateStatusCommit(r)
       PROVE  FALSE
  <2>1. /\ paid[o] /\ knocks'[o] = knocks[o]
        /\ \A s \in Requests \ {r} : req'[s] = req[s]
    BY <1>1, <1>11 DEF UpdateStatusCommit, Become, TypeOK
  <2>2. req[r].order = o => status'[o] = req[r].to
    BY <1>11 DEF UpdateStatusCommit, WriteStatus, TypeOK
  <2>3. ~Accepts(r, o)
    BY <1>1, <2>2 DEF Accepts
  <2>4. QED
    BY <1>8, <2>1, <2>3
<1>12. ASSUME NEW r \in Requests,
              \/ RetailRead(r) \/ RetailWrite(r) \/ RetailAudit(r) \/ ResyncWrite(r)
              \/ TabWrite(r) \/ TabAudit(r)
       PROVE  FALSE
  <2>1. req[r].pc \notin {"load", "commit"}
    BY <1>12 DEF RetailRead, RetailWrite, RetailAudit, ResyncWrite, TabWrite, TabAudit
  <2>2. paid' = paid /\ knocks' = knocks
    BY <1>12 DEF RetailRead, RetailWrite, RetailAudit, ResyncWrite, TabWrite, TabAudit
  <2>3. \A s \in Requests \ {r} : req'[s] = req[s]
    BY <1>12
    DEF RetailRead, RetailWrite, RetailAudit, ResyncWrite, TabWrite, TabAudit, Become, TypeOK
  <2>4. QED
    BY <1>1, <1>8, <2>1, <2>2, <2>3 DEF Accepts
<1>13. ASSUME NEW r \in Requests, Start(r)
       PROVE  FALSE
  <2>1. CASE \E p \in Orders : AutoAcceptCheck(r, p)
    BY <1>9, <2>1
  <2>2. CASE ~\E p \in Orders : AutoAcceptCheck(r, p)
    <3>1. req[r] = Idle /\ paid' = paid /\ knocks' = knocks
      BY <1>13, <2>2 DEF Start, UpdateStatusRead, ResyncRead, TabRead, MayStart
    <3>2. \A s \in Requests \ {r} : req'[s] = req[s]
      BY <1>13, <2>2 DEF Start, UpdateStatusRead, ResyncRead, TabRead, Become, TypeOK
    <3>3. ~Accepts(r, o)
      BY <3>1 DEF Accepts, Idle
    <3>4. QED
      BY <1>1, <1>8, <3>1, <3>2, <3>3
  <2>3. QED
    BY <2>1, <2>2
<1>14. ASSUME NEW r \in Requests, UpdateStatusConflict(r)
       PROVE  Lost(r)
  <2>1. /\ paid[o] /\ knocks'[o] = knocks[o] /\ req'[r] = Idle
        /\ \A s \in Requests \ {r} : req'[s] = req[s]
    BY <1>1, <1>14 DEF UpdateStatusConflict, Become, TypeOK
  <2>2. Accepts(r, o)
    BY <1>8, <2>1
  <2>3. QED
    BY <1>14, <2>1, <2>2 DEF UpdateStatusConflict, Accepts
<1>15. ASSUME NEW r \in Requests, Crash(r)
       PROVE  Lost(r)
  <2>1. /\ paid[o] /\ knocks'[o] = knocks[o] /\ req'[r] = Idle
        /\ \A s \in Requests \ {r} : req'[s] = req[s]
    BY <1>1, <1>15 DEF Crash, Become, TypeOK
  <2>2. Accepts(r, o)
    BY <1>8, <2>1
  <2>3. QED
    BY <1>15, <2>1, <2>2 DEF Crash
<1>16. ASSUME NEW r \in Requests, Continue(r)
       PROVE  Lost(r)
  BY <1>10, <1>11, <1>12, <1>14, <1>16 DEF Continue
<1>17. QED
  BY <1>4, <1>5, <1>7, <1>13, <1>15, <1>16 DEF Next

\* A paid counter sale that is PENDING with nobody accepting it lost a race for
\* its row or its process, for any orders, requests and writers.
THEOREM AcceptCorrect == Spec => AcceptLostOnlyByConflict
<1>1. TypeOK /\ AheadInv /\ [Next]_vars =>
          [\A o \in Orders :
               (Waiting(o) => Accepting(o)) /\ Waiting(o)' /\ ~Accepting(o)'
                   => \E r \in Requests :
                          /\ Accepts(r, o)
                          /\ req'[r] = Idle
                          /\ \/ req[r].pc = "commit" /\ updatedAt[o] # req[r].ver
                             \/ "crash" \in Handlers]_vars
  BY AcceptStep
<1>2. Init => AheadInv
  BY DEF Init, AheadInv, Idle
<1>3. TypeOK /\ AheadInv /\ [Next]_vars => AheadInv'
  BY AheadStep
<1>4. QED
  BY <1>1, <1>2, <1>3, TypeCorrect, PTL DEF Spec, AcceptLostOnlyByConflict
=============================================================================
