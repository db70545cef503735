------------------------ MODULE DriverDispatchProofs ------------------------
(*************************************************************************)
(* What holds of DriverDispatch for any orders, drivers, handlers and    *)
(* faults. While requests come one at a time, an order that is over      *)
(* stays over, nobody is made available with a stop to make, and order,  *)
(* stop and driver agree between requests: though no handler checks      *)
(* again what it read.  A sweep settles what it found, however requests  *)
(* overlap.                                                              *)
(*************************************************************************)
EXTENDS DriverDispatch, FiniteSetTheorems, TLAPS

FaultLog == [n : Nat, kinds : SUBSET AllFaults]
Stops == [driver : Drivers \union {NoDriver}, status : StopStatuses]
Handlers == [pc : Places, op : Ops, driver : Drivers \union {NoDriver},
             stops : SUBSET Orders, open : BOOLEAN,
             rows : SUBSET Rows, todo : SUBSET Drivers]

OrderType == order \in [Orders -> Statuses]
StopType == stop \in [Orders -> Stops]
PresenceType == presence \in [Drivers -> {"ONLINE", "ON_JOB", "OFFLINE"}]
WorkType == work \in [Workers -> Handlers]
FaultsType == faults \in FaultLog

LEMMA TypeParts == TypeOK <=> OrderType /\ StopType /\ PresenceType /\ WorkType /\ FaultsType
  BY DEF TypeOK, OrderType, StopType, PresenceType, WorkType, FaultsType, FaultLog, Stops, Handlers

LEMMA TypePartsNext ==
    TypeOK' <=> OrderType' /\ StopType' /\ PresenceType' /\ WorkType' /\ FaultsType'
  BY DEF TypeOK, OrderType, StopType, PresenceType, WorkType, FaultsType, FaultLog, Stops, Handlers

LEMMA HappenType ==
    ASSUME FaultsType, NEW kinds \in SUBSET AllFaults, Happen(kinds)
    PROVE  FaultsType' /\ faults'.kinds = faults.kinds \union kinds
  <1>1. CASE kinds = {} BY <1>1 DEF Happen, FaultsType, FaultLog
  <1>2. CASE kinds # {}
    <2>1. kinds \subseteq Faults BY <1>2 DEF Happen
    <2>2. Cardinality(kinds) \in Nat BY <2>1, FaultsAssumption, FS_Subset, FS_CardinalityType
    <2>3. faults' = [n |-> faults.n + Cardinality(kinds), kinds |-> faults.kinds \union kinds]
      BY <1>2 DEF Happen, FaultsType, FaultLog
    <2> QED BY <2>2, <2>3 DEF FaultsType, FaultLog
  <1> QED BY <1>1, <1>2

LEMMA OverlapType ==
    /\ Overlap \in SUBSET AllFaults
    /\ \A c \in BOOLEAN : When(c, "stale") \in SUBSET AllFaults
    /\ {"push"} \union Overlap \in SUBSET AllFaults
  BY DEF Overlap, When, AllFaults

\* What an operation leaves the stop and the order in.
LEMMA OutcomeType ==
    /\ \A a \in Ops : OrderAfter(a) \in Statuses
    /\ \A a \in Ops, s \in StopStatuses : StopAfter(a, s) \in StopStatuses
    /\ \A s : OutcomeFor(s) \in StopStatuses
  <1>1. \A a \in Ops : OrderAfter(a) \in Statuses
    BY DEF OrderAfter, Statuses, InFlight, Terminal, Ops, Forward, Closing, Endings
  <1>2. \A a \in Ops, s \in StopStatuses : StopAfter(a, s) \in StopStatuses
    BY DEF StopAfter, StopStatuses, LiveStatuses
  <1>3. \A s : OutcomeFor(s) \in StopStatuses BY DEF OutcomeFor, StopStatuses
  <1> QED BY <1>1, <1>2, <1>3

LEMMA HandlerType ==
    ASSUME WorkType, NEW w \in Workers
    PROVE  /\ work[w] \in Handlers
           /\ work[w].pc \in Places /\ work[w].op \in Ops
           /\ work[w].driver \in Drivers \union {NoDriver}
           /\ work[w].stops \subseteq Orders /\ work[w].open \in BOOLEAN
           /\ work[w].rows \subseteq Rows /\ work[w].todo \subseteq Drivers
  BY DEF WorkType, Handlers

LEMMA PutType ==
    ASSUME WorkType, NEW w \in Workers, NEW h \in Handlers, work' = [work EXCEPT ![w] = h]
    PROVE  WorkType'
  BY DEF WorkType

LEMMA AtType ==
    ASSUME NEW pc \in Places, NEW op \in Ops, NEW d \in Drivers \union {NoDriver},
           NEW os \in SUBSET Orders, NEW open \in BOOLEAN
    PROVE  At(pc, op, d, os, open) \in Handlers
  BY DEF At, Handlers

LEMMA MoveType ==
    ASSUME WorkType, NEW w \in Workers
    PROVE  /\ \A pc \in Places : GoOn(w, pc) => WorkType'
           /\ Finish(w) => WorkType'
           /\ \A rows \in SUBSET Rows : Settling(w, rows) => WorkType'
  <1>1. ASSUME NEW pc \in Places, GoOn(w, pc) PROVE WorkType'
    <2>1. work' = [work EXCEPT ![w] = [work[w] EXCEPT !.pc = pc]] BY <1>1 DEF GoOn
    <2>2. [work[w] EXCEPT !.pc = pc] \in Handlers BY HandlerType DEF Handlers
    <2> QED BY <2>1, <2>2, PutType
  <1>2. ASSUME Finish(w) PROVE WorkType'
    <2>1. Idle \in Handlers BY AtType DEF Idle, Places, Ops
    <2> QED BY <1>2, <2>1, PutType DEF Finish
  <1>3. ASSUME NEW rows \in SUBSET Rows, Settling(w, rows) PROVE WorkType'
    <2>1. ASSUME rows # {} PROVE WorkType'
      <3>1. work' = [work EXCEPT ![w] = [work[w] EXCEPT !.pc = "settle", !.rows = rows]]
        BY <1>3, <2>1 DEF Settling
      <3>2. [work[w] EXCEPT !.pc = "settle", !.rows = rows] \in Handlers
        BY HandlerType DEF Handlers, Places
      <3> QED BY <3>1, <3>2, PutType
    <2> QED BY <1>2, <1>3, <2>1 DEF Settling
  <1> QED BY <1>1, <1>2, <1>3

LEMMA BeginType ==
    ASSUME TypeOK, NEW w \in Workers, NEW job \in Handlers, NEW kinds \in SUBSET AllFaults,
           Begin(w, job, kinds)
    PROVE  WorkType' /\ FaultsType'
  <1>0. WorkType /\ FaultsType BY TypeParts
  <1>1. WorkType' BY <1>0, PutType DEF Begin
  <1>2. kinds \union Overlap \in SUBSET AllFaults BY OverlapType
  <1>3. FaultsType' BY <1>0, <1>2, HappenType DEF Begin
  <1> QED BY <1>1, <1>3
-----------------------------------------------------------------------------
(* Type correctness *)

LEMMA RequestTypeStep == ASSUME TypeOK, NEW w \in Workers, Request(w) PROVE TypeOK'
  <1>0. OrderType /\ StopType /\ PresenceType /\ WorkType /\ FaultsType BY TypeParts
  <1>1. ASSUME NEW d \in Drivers, NEW os \in SUBSET Orders, AssignToDriver(w, d, os) PROVE TypeOK'
    <2>1. At("run", "assign", d, os, TRUE) \in Handlers BY AtType DEF Places, Ops
    <2>0. Begin(w, At("run", "assign", d, os, TRUE), {}) /\ {} \in SUBSET AllFaults BY <1>1 DEF AssignToDriver
    <2>2. WorkType' /\ FaultsType' BY <2>0, <2>1, BeginType
    <2>3. OrderType' /\ StopType' /\ PresenceType'
      BY <1>0, <1>1 DEF AssignToDriver, OrderType, StopType, PresenceType
    <2> QED BY <2>2, <2>3, TypePartsNext
  <1>2. ASSUME NEW d \in Drivers, NEW o \in Orders, NEW a \in Forward \union Closing,
               JobAction(w, d, o, a)
        PROVE  TypeOK'
    <2>1. At("stop", a, d, {o}, order[o] \notin Terminal) \in Handlers
      BY AtType DEF Places, Ops
    <2>2. When(~Live(o), "stale") \in SUBSET AllFaults BY DEF When, AllFaults
    <2>3. WorkType' /\ FaultsType' BY <1>2, <2>1, <2>2, BeginType DEF JobAction
    <2>4. OrderType' /\ StopType' /\ PresenceType'
      BY <1>0, <1>2 DEF JobAction, OrderType, StopType, PresenceType
    <2> QED BY <2>3, <2>4, TypePartsNext
  <1>3. ASSUME NEW o \in Orders, Unassign(w, o) PROVE TypeOK'
    <2>1. At("check", "unassign", stop[o].driver, {o}, Live(o)) \in Handlers
      <3>1. stop[o].driver \in Drivers \union {NoDriver} BY <1>0 DEF StopType, Stops
      <3>2. Live(o) \in BOOLEAN BY DEF Live
      <3> QED BY <3>1, <3>2, AtType DEF Places, Ops
    <2>2. WorkType' /\ FaultsType' BY <1>3, <2>1, BeginType DEF Unassign
    <2>3. OrderType' /\ StopType' /\ PresenceType'
      BY <1>0, <1>3 DEF Unassign, OrderType, StopType, PresenceType
    <2> QED BY <2>2, <2>3, TypePartsNext
  <1>4. ASSUME NEW o \in Orders, NEW e \in Endings, Close(w, o, e) PROVE TypeOK'
    <2>1. At("live", e, NoDriver, {o}, FALSE) \in Handlers BY AtType DEF Places, Ops
    <2>0. Begin(w, At("live", e, NoDriver, {o}, FALSE), {}) /\ {} \in SUBSET AllFaults BY <1>4 DEF Close
    <2>2. WorkType' /\ FaultsType' BY <2>0, <2>1, BeginType
    <2>3. e \in Statuses BY DEF Endings, Statuses, Terminal
    <2>4. OrderType' /\ StopType' /\ PresenceType'
      BY <1>0, <1>4, <2>3 DEF Close, OrderType, StopType, PresenceType
    <2> QED BY <2>2, <2>4, TypePartsNext
  <1> QED BY <1>1, <1>2, <1>3, <1>4 DEF Request

LEMMA WriteTypeStep ==
    ASSUME TypeOK, NEW w \in Workers,
           \/ AssignRun(w) \/ AssignBusy(w) \/ UnassignCheck(w) \/ UnassignCount(w)
           \/ WriteStop(w) \/ WriteOrder(w) \/ WritePresence(w)
    PROVE  TypeOK'
  <1>0. OrderType /\ StopType /\ PresenceType /\ WorkType /\ FaultsType BY TypeParts
  <1>1. FaultsType'
    BY <1>0 DEF FaultsType, AssignRun, AssignBusy, UnassignCheck, UnassignCount, WriteStop,
       WriteOrder, WritePresence
  <1>2. WorkType'
    <2>1. {"busy", "stop", "presence", "order", "count"} \subseteq Places BY DEF Places
    <2> QED BY <1>0, <2>1, MoveType
          DEF AssignRun, AssignBusy, UnassignCheck, UnassignCount, WriteStop, WriteOrder,
              WritePresence
  <1>3. OrderType'
    <2>1. CASE AssignRun(w)
      <3>1. "ASSIGNED_DRIVER" \in Statuses BY DEF Statuses, InFlight
      <3> QED BY <1>0, <2>1, <3>1 DEF AssignRun, OrderType
    <2>2. CASE WriteOrder(w)
      <3>1. OrderAfter(work[w].op) \in Statuses BY <1>0, HandlerType, OutcomeType
      <3> QED BY <1>0, <2>2, <3>1 DEF WriteOrder, OrderType
    <2>3. CASE ~AssignRun(w) /\ ~WriteOrder(w)
      BY <1>0, <2>3 DEF AssignBusy, UnassignCheck, UnassignCount, WriteStop, WritePresence, OrderType
    <2> QED BY <2>1, <2>2, <2>3
  <1>4. StopType'
    <2>1. CASE AssignRun(w)
      <3>1. [driver |-> work[w].driver, status |-> "ASSIGNED"] \in Stops
        BY <1>0, HandlerType DEF Stops, StopStatuses, LiveStatuses
      <3> QED BY <1>0, <2>1, <3>1 DEF AssignRun, StopType
    <2>2. CASE WriteStop(w)
      <3>1. ASSUME NEW o \in Orders
            PROVE  [stop[o] EXCEPT !.status = StopAfter(work[w].op, stop[o].status)] \in Stops
        <4>1. stop[o] \in Stops BY <1>0 DEF StopType
        <4>2. StopAfter(work[w].op, stop[o].status) \in StopStatuses
          BY <1>0, <4>1, HandlerType, OutcomeType DEF Stops
        <4> QED BY <4>1, <4>2 DEF Stops
      <3> QED BY <1>0, <2>2, <3>1 DEF WriteStop, StopType
    <2>3. CASE ~AssignRun(w) /\ ~WriteStop(w)
      BY <1>0, <2>3 DEF AssignBusy, UnassignCheck, UnassignCount, WriteOrder, WritePresence, StopType
    <2> QED BY <2>1, <2>2, <2>3
  <1>5. PresenceType'
    BY <1>0 DEF AssignRun, AssignBusy, UnassignCheck, UnassignCount, WriteStop, WriteOrder,
       WritePresence, Present, PresenceType
  <1> QED BY <1>1, <1>2, <1>3, <1>4, <1>5, TypePartsNext

LEMMA SettleTypeStep ==
    ASSUME TypeOK, NEW w \in Workers,
           SettleForOrder(w) \/ SweepTerminalOrders(w) \/ Settle(w) \/ Look(w) \/ FreeDriver(w)
    PROVE  TypeOK'
  <1>0. OrderType /\ StopType /\ PresenceType /\ WorkType /\ FaultsType BY TypeParts
  <1>1. FaultsType' /\ OrderType'
    BY <1>0 DEF FaultsType, OrderType, SettleForOrder, SweepTerminalOrders, Settle, Look, FreeDriver
  <1>2. ASSUME NEW o \in Orders, NEW s PROVE Row(o, s) \in Rows
    <2>1. stop[o].driver \in Drivers \union {NoDriver} BY <1>0 DEF StopType, Stops
    <2> QED BY <2>1, OutcomeType DEF Row, Rows
  <1>3. ASSUME SettleForOrder(w) PROVE TypeOK'
    <2>1. work[w].stops \subseteq Orders BY <1>0, HandlerType
    <2>2. {Row(o, work[w].op) : o \in {p \in work[w].stops : Live(p)}} \in SUBSET Rows
      BY <1>2, <2>1
    <2>3. WorkType' BY <1>0, <1>3, <2>2, MoveType DEF SettleForOrder
    <2>4. StopType' /\ PresenceType' BY <1>0, <1>3 DEF SettleForOrder, StopType, PresenceType
    <2> QED BY <1>1, <2>3, <2>4, TypePartsNext
  <1>4. ASSUME SweepTerminalOrders(w) PROVE TypeOK'
    <2>1. {Row(o, order[o]) : o \in {p \in Orders : Live(p) /\ order[p] \in Terminal}}
              \in SUBSET Rows
      BY <1>2
    <2>2. WorkType' BY <1>0, <1>4, <2>1, MoveType DEF SweepTerminalOrders
    <2>3. StopType' /\ PresenceType' BY <1>0, <1>4 DEF SweepTerminalOrders, StopType, PresenceType
    <2> QED BY <1>1, <2>2, <2>3, TypePartsNext
  <1>5. ASSUME Settle(w) PROVE TypeOK'
    <2>1. ASSUME NEW o \in Orders, o \in Settled(w)
          PROVE  [stop[o] EXCEPT !.status = (CHOOSE r \in work[w].rows : r.stop = o).outcome] \in Stops
      <3>1. (CHOOSE r \in work[w].rows : r.stop = o) \in work[w].rows BY <2>1 DEF Settled
      <3>2. (CHOOSE r \in work[w].rows : r.stop = o).outcome \in StopStatuses
        BY <1>0, <3>1, HandlerType DEF Rows
      <3>3. stop[o] \in Stops BY <1>0 DEF StopType
      <3> QED BY <3>2, <3>3 DEF Stops
    <2>2. StopType' BY <1>0, <1>5, <2>1 DEF Settle, StopType
    <2>3. WorkType' BY <1>0, <1>5, MoveType DEF Settle, Places
    <2>4. PresenceType' BY <1>0, <1>5 DEF Settle, PresenceType
    <2> QED BY <1>1, <2>2, <2>3, <2>4, TypePartsNext
  <1>6. ASSUME Look(w) PROVE TypeOK'
    <2> DEFINE todo == {d \in Drivers : IsFree(d) /\ \E r \in work[w].rows : r.driver = d}
    <2>1. ASSUME todo # {} PROVE WorkType'
      <3>1. work' = [work EXCEPT ![w] = [work[w] EXCEPT !.pc = "free", !.todo = todo]]
        BY <1>6, <2>1 DEF Look
      <3>2. todo \in SUBSET Drivers OBVIOUS
      <3>3. [work[w] EXCEPT !.pc = "free", !.todo = todo] \in Handlers
        BY <1>0, <3>2, HandlerType DEF Handlers, Places
      <3> QED BY <1>0, <3>1, <3>3, PutType
    <2>2. WorkType' BY <1>0, <1>6, <2>1, MoveType DEF Look
    <2>3. StopType' /\ PresenceType' BY <1>0, <1>6 DEF Look, StopType, PresenceType
    <2> QED BY <1>1, <2>2, <2>3, TypePartsNext
  <1>7. ASSUME FreeDriver(w) PROVE TypeOK'
    <2>1. PICK d \in work[w].todo :
              /\ Present(d, "ONLINE")
              /\ IF work[w].todo = {d} THEN Finish(w)
                 ELSE work' = [work EXCEPT ![w].todo = @ \ {d}]
      BY <1>7 DEF FreeDriver
    <2>2. ASSUME work[w].todo # {d} PROVE WorkType'
      <3>1. work' = [work EXCEPT ![w] = [work[w] EXCEPT !.todo = work[w].todo \ {d}]]
        BY <2>1, <2>2
      <3>2. [work[w] EXCEPT !.todo = work[w].todo \ {d}] \in Handlers
        BY <1>0, HandlerType DEF Handlers
      <3> QED BY <1>0, <3>1, <3>2, PutType
    <2>3. WorkType' BY <1>0, <2>1, <2>2, MoveType
    <2>4. StopType' /\ PresenceType' BY <1>0, <1>7, <2>1 DEF FreeDriver, Present, StopType, PresenceType
    <2> QED BY <1>1, <2>3, <2>4, TypePartsNext
  <1> QED BY <1>3, <1>4, <1>5, <1>6, <1>7

LEMMA OtherTypeStep ==
    ASSUME TypeOK,
           \/ \E w \in Workers : Crash(w) \/ \E os \in SUBSET Orders : RollOver(w, os)
           \/ \E d \in Drivers : GoOnline(d) \/ GoOffline(d)
           \/ \E o \in Orders, s \in {"READY", "OUT_FOR_DELIVERY"} : Push(o, s)
    PROVE  TypeOK'
  <1>0. OrderType /\ StopType /\ PresenceType /\ WorkType /\ FaultsType BY TypeParts
  <1>1. ASSUME NEW w \in Workers, Crash(w) PROVE TypeOK'
    <2>1. WorkType' BY <1>0, <1>1, MoveType DEF Crash
    <2>2. FaultsType' BY <1>0, <1>1, HappenType DEF Crash, AllFaults
    <2>3. OrderType' /\ StopType' /\ PresenceType'
      BY <1>0, <1>1 DEF Crash, OrderType, StopType, PresenceType
    <2> QED BY <2>1, <2>2, <2>3, TypePartsNext
  <1>2. ASSUME NEW w \in Workers, NEW os \in SUBSET Orders, RollOver(w, os) PROVE TypeOK'
    <2>1. At("sweep", "sweep", NoDriver, {}, FALSE) \in Handlers BY AtType DEF Places, Ops
    <2>0. Begin(w, At("sweep", "sweep", NoDriver, {}, FALSE), {}) /\ {} \in SUBSET AllFaults BY <1>2 DEF RollOver
    <2>2. WorkType' /\ FaultsType' BY <2>0, <2>1, BeginType
    <2>3. "COMPLETED" \in Statuses BY DEF Statuses, Terminal
    <2>4. OrderType' BY <1>0, <1>2, <2>3 DEF RollOver, OrderType
    <2>5. StopType' /\ PresenceType' BY <1>0, <1>2 DEF RollOver, StopType, PresenceType
    <2> QED BY <2>2, <2>4, <2>5, TypePartsNext
  <1>3. ASSUME NEW d \in Drivers, GoOnline(d) \/ GoOffline(d) PROVE TypeOK'
    <2>1. FaultsType' BY <1>0, <1>3, HappenType, OverlapType DEF GoOnline, GoOffline
    <2>2. PresenceType' BY <1>0, <1>3 DEF GoOnline, GoOffline, Present, PresenceType
    <2>3. OrderType' /\ StopType' /\ WorkType'
      BY <1>0, <1>3 DEF GoOnline, GoOffline, OrderType, StopType, WorkType
    <2> QED BY <2>1, <2>2, <2>3, TypePartsNext
  <1>4. ASSUME NEW o \in Orders, NEW s \in {"READY", "OUT_FOR_DELIVERY"}, Push(o, s) PROVE TypeOK'
    <2>1. FaultsType' BY <1>0, <1>4, HappenType, OverlapType DEF Push
    <2>2. s \in Statuses BY DEF Statuses, InFlight
    <2>3. OrderType' BY <1>0, <1>4, <2>2 DEF Push, OrderType
    <2>4. StopType' /\ PresenceType' /\ WorkType' BY <1>0, <1>4 DEF Push, StopType, PresenceType, WorkType
    <2> QED BY <2>1, <2>3, <2>4, TypePartsNext
  <1> QED BY <1>1, <1>2, <1>3, <1>4

LEMMA TypeStep == ASSUME TypeOK, [Next]_vars PROVE TypeOK'
  <1>1. CASE UNCHANGED vars BY <1>1 DEF vars, TypeOK
  <1>2. CASE Next
    BY <1>2, RequestTypeStep, WriteTypeStep, SettleTypeStep, OtherTypeStep DEF Next, Step
  <1> QED BY <1>1, <1>2

\* The types of orders, stops, presences and handlers hold.
THEOREM DriverTypeCorrect == Spec => []TypeOK
  <1>1. ASSUME Init PROVE TypeOK
    <2>1. "READY" \in Statuses BY DEF Statuses, InFlight
    <2>2. Idle \in Handlers BY AtType DEF Idle, Places, Ops
    <2>3. [driver |-> NoDriver, status |-> "none"] \in Stops BY DEF Stops, StopStatuses
    <2> QED BY <1>1, <2>1, <2>2, <2>3, TypeParts
          DEF Init, OrderType, StopType, PresenceType, WorkType, FaultsType, FaultLog
  <1> QED BY <1>1, TypeStep, PTL DEF Spec
-----------------------------------------------------------------------------
(* An order that is over stays over *)

Calm == "overlap" \notin faults.kinds

\* One request at a time.
Single == \A v, w \in Workers : work[v] # Idle /\ work[w] # Idle => v = w

\* What a handler read of its orders is still so when it writes them.
Reads ==
    \A w \in Workers :
        /\ work[w].pc = "run" => \A o \in work[w].stops : order[o] \in Assignable
        /\ work[w].pc \in {"stop", "order"} /\ work[w].open
              => \A o \in work[w].stops : order[o] \notin Terminal

FinishedInv == Calm => Single /\ Reads

\* A request that finds another under way counts as overlapping.
LEMMA OverlapNoted ==
    ASSUME TypeOK, NEW kinds \in SUBSET AllFaults, Happen(kinds \union Overlap), Calm'
    PROVE  AllIdle /\ Calm
  <1>1. FaultsType BY TypeParts
  <1>2. kinds \union Overlap \in SUBSET AllFaults BY OverlapType
  <1>3. faults'.kinds = faults.kinds \union (kinds \union Overlap) BY <1>1, <1>2, HappenType
  <1>4. "overlap" \notin Overlap BY <1>3 DEF Calm
  <1> QED BY <1>3, <1>4 DEF Overlap, When, Calm

LEMMA BeginStep ==
    ASSUME TypeOK, NEW w \in Workers, NEW job \in Handlers, NEW kinds \in SUBSET AllFaults,
           Begin(w, job, kinds), Calm',
           job.pc = "run" => \A o \in job.stops : order[o] \in Assignable /\ order'[o] = order[o],
           job.pc = "order" => FALSE,
           job.pc = "stop" /\ job.open
              => \A o \in job.stops : order[o] \notin Terminal /\ order'[o] = order[o]
    PROVE  Single' /\ Reads'
  <1>1. AllIdle BY OverlapNoted DEF Begin
  <1>2. work' = [work EXCEPT ![w] = job] BY DEF Begin
  <1>3. work \in [Workers -> Handlers] BY TypeParts DEF WorkType
  <1>4. \A v \in Workers : v # w => work'[v] = Idle BY <1>1, <1>2, <1>3 DEF AllIdle
  <1>5. work'[w] = job BY <1>2, <1>3
  <1>6. Single' BY <1>4 DEF Single
  <1>7. Idle.pc = "idle" BY DEF Idle, At
  <1>8. Reads' BY <1>4, <1>5, <1>7 DEF Reads
  <1> QED BY <1>6, <1>8

\* A handler under way goes on.
LEMMA GoOnStep ==
    ASSUME TypeOK, Single, Reads, NEW w \in Workers, work[w] # Idle,
           \A v \in Workers \ {w} : work'[v] = work[v],
           work'[w].pc \notin {"run", "order", "stop"} \/
              /\ work'[w].pc \in {"order", "stop"}
              /\ work'[w].open => \A o \in work'[w].stops : order'[o] \notin Terminal
    PROVE  Single' /\ Reads'
  <1>1. \A v \in Workers \ {w} : work'[v] = Idle BY DEF Single
  <1>2. Single' BY <1>1 DEF Single
  <1>3. Idle.pc = "idle" BY DEF Idle, At
  <1>4. \A v \in Workers \ {w} : work'[v].pc = "idle" BY <1>1, <1>3
  <1>5. Reads' BY <1>4 DEF Reads
  <1> QED BY <1>2, <1>5

LEMMA RequestStep ==
    ASSUME TypeOK, NEW w \in Workers, Calm',
           Request(w) \/ \E os \in SUBSET Orders : RollOver(w, os)
    PROVE  Single' /\ Reads'
  <1>0. OrderType /\ StopType BY TypeParts
  <1> USE DEF At
  <1>1. ASSUME NEW d \in Drivers, NEW os \in SUBSET Orders, AssignToDriver(w, d, os)
        PROVE  Single' /\ Reads'
    <2>1. At("run", "assign", d, os, TRUE) \in Handlers BY AtType DEF Places, Ops
    <2>2. Begin(w, At("run", "assign", d, os, TRUE), {}) /\ {} \in SUBSET AllFaults /\ order' = order
      BY <1>1 DEF AssignToDriver
    <2>3. \A o \in os : order[o] \in Assignable BY <1>1 DEF AssignToDriver
    <2> QED BY <2>1, <2>2, <2>3, BeginStep
  <1>2. ASSUME NEW d \in Drivers, NEW o \in Orders, NEW a \in Forward \union Closing,
               JobAction(w, d, o, a)
        PROVE  Single' /\ Reads'
    <2>1. At("stop", a, d, {o}, order[o] \notin Terminal) \in Handlers BY AtType DEF Places, Ops
    <2>2. Begin(w, At("stop", a, d, {o}, order[o] \notin Terminal), When(~Live(o), "stale"))
          /\ order' = order
      BY <1>2 DEF JobAction
    <2>3. When(~Live(o), "stale") \in SUBSET AllFaults BY DEF When, AllFaults
    <2> QED BY <2>1, <2>2, <2>3, BeginStep
  <1>3. ASSUME NEW o \in Orders, Unassign(w, o) PROVE Single' /\ Reads'
    <2>1. At("check", "unassign", stop[o].driver, {o}, Live(o)) \in Handlers
      <3>1. stop[o].driver \in Drivers \union {NoDriver} BY <1>0 DEF StopType, Stops
      <3>2. Live(o) \in BOOLEAN BY DEF Live
      <3> QED BY <3>1, <3>2, AtType DEF Places, Ops
    <2>2. Begin(w, At("check", "unassign", stop[o].driver, {o}, Live(o)), {})
          /\ {} \in SUBSET AllFaults
      BY <1>3 DEF Unassign
    <2> QED BY <2>1, <2>2, BeginStep
  <1>4. ASSUME NEW o \in Orders, NEW e \in Endings, Close(w, o, e) PROVE Single' /\ Reads'
    <2>1. At("live", e, NoDriver, {o}, FALSE) \in Handlers BY AtType DEF Places, Ops
    <2>2. Begin(w, At("live", e, NoDriver, {o}, FALSE), {}) /\ {} \in SUBSET AllFaults
      BY <1>4 DEF Close
    <2> QED BY <2>1, <2>2, BeginStep
  <1>5. ASSUME NEW os \in SUBSET Orders, RollOver(w, os) PROVE Single' /\ Reads'
    <2>1. At("sweep", "sweep", NoDriver, {}, FALSE) \in Handlers BY AtType DEF Places, Ops
    <2>2. Begin(w, At("sweep", "sweep", NoDriver, {}, FALSE), {}) /\ {} \in SUBSET AllFaults
      BY <1>5 DEF RollOver
    <2> QED BY <2>1, <2>2, BeginStep
  <1> QED BY <1>1, <1>2, <1>3, <1>4, <1>5 DEF Request

LEMMA HandlerStep ==
    ASSUME TypeOK, Single, Reads, NEW w \in Workers, Step(w) \/ Crash(w)
    PROVE  Single' /\ Reads'
  <1>0. work \in [Workers -> Handlers] BY TypeParts DEF WorkType
  <1>1. work[w] # Idle
    BY DEF Step, Crash, AssignRun, AssignBusy, UnassignCheck, UnassignCount, WriteStop, WriteOrder,
       WritePresence, SettleForOrder, SweepTerminalOrders, Settle, Look, FreeDriver, Idle, At
  <1>2. Idle.pc = "idle" BY DEF Idle, At
  <1>3. CASE WriteStop(w)
    <2>1. /\ \A v \in Workers \ {w} : work'[v] = work[v]
          /\ work'[w].pc = "order" /\ work'[w].open = work[w].open
          /\ work'[w].stops = work[w].stops /\ order' = order
      BY <1>0, <1>3 DEF WriteStop, GoOn, Handlers
    <2>2. work[w].open => \A o \in work[w].stops : order[o] \notin Terminal
      BY <1>3 DEF WriteStop, Reads
    <2> QED BY <1>1, <2>1, <2>2, GoOnStep
  <1>4. CASE UnassignCheck(w)
    <2>1. /\ \A v \in Workers \ {w} : work'[v] = work[v]
          /\ \/ work'[w] = Idle
             \/ /\ work'[w].pc = "stop" /\ work'[w].stops = work[w].stops /\ order' = order
                /\ \A o \in work[w].stops : order[o] \notin Terminal
      BY <1>0, <1>4 DEF UnassignCheck, GoOn, Finish, Handlers
    <2> QED BY <1>1, <1>2, <2>1, GoOnStep
  <1>5. CASE ~WriteStop(w) /\ ~UnassignCheck(w)
    <2>1. \/ \E pc \in {"busy", "presence", "count", "look"} : GoOn(w, pc)
          \/ Finish(w)
          \/ \E rows : work' = [work EXCEPT ![w].pc = "settle", ![w].rows = rows]
          \/ \E todo : work' = [work EXCEPT ![w].pc = "free", ![w].todo = todo]
          \/ work[w].pc = "free" /\ \E todo : work' = [work EXCEPT ![w].todo = todo]
      BY <1>5, Zenon DEF Step, Crash, AssignRun, AssignBusy, UnassignCount, WriteOrder, WritePresence,
         SettleForOrder, SweepTerminalOrders, Settling, Settle, Look, FreeDriver
    <2>2. /\ \A v \in Workers \ {w} : work'[v] = work[v]
          /\ work'[w].pc \in {"busy", "presence", "count", "look", "idle", "settle", "free"}
      BY <1>0, <1>2, <2>1 DEF GoOn, Finish, Handlers
    <2> QED BY <1>1, <2>2, GoOnStep
  <1> QED BY <1>3, <1>4, <1>5

LEMMA OutsideStep ==
    ASSUME TypeOK, Calm',
           \/ \E d \in Drivers : GoOnline(d) \/ GoOffline(d)
           \/ \E o \in Orders, s \in {"READY", "OUT_FOR_DELIVERY"} : Push(o, s)
    PROVE  Single' /\ Reads'
  <1>1. Happen({} \union Overlap) \/ Happen({"push"} \union Overlap)
    <2>1. {} \union Overlap = Overlap OBVIOUS
    <2> QED BY <2>1 DEF GoOnline, GoOffline, Push
  <1>2. {} \in SUBSET AllFaults /\ {"push"} \in SUBSET AllFaults BY DEF AllFaults
  <1>3. AllIdle BY <1>1, <1>2, OverlapNoted
  <1>4. work' = work BY DEF GoOnline, GoOffline, Push
  <1>5. \A v \in Workers : work'[v] = Idle BY <1>3, <1>4 DEF AllIdle
  <1>6. Idle.pc = "idle" BY DEF Idle, At
  <1> QED BY <1>5, <1>6 DEF Single, Reads

LEMMA CalmBefore == ASSUME TypeOK, Next, Calm' PROVE Calm
  <1>0. FaultsType BY TypeParts
  <1>1. ASSUME NEW w \in Workers, Request(w) \/ \E os \in SUBSET Orders : RollOver(w, os) PROVE Calm
    <2>1. \E kinds \in SUBSET AllFaults : Happen(kinds \union Overlap)
      <3>1. {} \in SUBSET AllFaults /\ \A o : When(~Live(o), "stale") \in SUBSET AllFaults
        BY DEF When, AllFaults
      <3> QED BY <1>1, <3>1 DEF Request, RollOver, AssignToDriver, JobAction, Unassign, Close, Begin
    <2> QED BY <2>1, OverlapNoted
  <1>2. ASSUME NEW w \in Workers, Step(w) PROVE Calm
    BY <1>2 DEF Step, AssignRun, AssignBusy, UnassignCheck, UnassignCount, WriteStop, WriteOrder,
       WritePresence, SettleForOrder, SweepTerminalOrders, Settle, Look, FreeDriver, Calm
  <1>3. ASSUME NEW w \in Workers, Crash(w) PROVE Calm
    BY <1>0, <1>3, HappenType DEF Crash, Calm, AllFaults
  <1>4. ASSUME \/ \E d \in Drivers : GoOnline(d) \/ GoOffline(d)
               \/ \E o \in Orders, s \in {"READY", "OUT_FOR_DELIVERY"} : Push(o, s)
        PROVE  Calm
    <2>1. Happen({} \union Overlap) \/ Happen({"push"} \union Overlap)
      <3>1. {} \union Overlap = Overlap OBVIOUS
      <3> QED BY <1>4, <3>1 DEF GoOnline, GoOffline, Push
    <2>2. {} \in SUBSET AllFaults /\ {"push"} \in SUBSET AllFaults BY DEF AllFaults
    <2> QED BY <2>1, <2>2, OverlapNoted
  <1> QED BY <1>1, <1>2, <1>3, <1>4 DEF Next

LEMMA FinishedStep == ASSUME TypeOK, FinishedInv, [Next]_vars PROVE FinishedInv'
  <1>1. CASE UNCHANGED vars BY <1>1 DEF vars, FinishedInv, Calm, Single, Reads
  <1>2. CASE Next
    <2>1. Calm' => Calm BY <1>2, CalmBefore
    <2>2. ASSUME Calm' PROVE Single' /\ Reads'
      BY <1>2, <2>1, <2>2, RequestStep, HandlerStep, OutsideStep DEF Next, FinishedInv
    <2> QED BY <2>2 DEF FinishedInv
  <1> QED BY <1>1, <1>2

StaysFinished ==
    \A o \in Orders : order[o] \in Terminal /\ "overlap" \notin faults.kinds => order'[o] = order[o]

LEMMA FinishedHolds == ASSUME TypeOK, FinishedInv, Next PROVE StaysFinished
  <1>0. order \in [Orders -> Statuses] BY TypeParts DEF OrderType
  <1>1. SUFFICES ASSUME NEW o \in Orders, order[o] \in Terminal, Calm PROVE order'[o] = order[o]
    BY DEF StaysFinished, Calm
  <1>2. Reads BY <1>1 DEF FinishedInv
  <1>3. ASSUME NEW w \in Workers, AssignRun(w) PROVE order'[o] = order[o]
    <2>1. o \notin work[w].stops BY <1>1, <1>2, <1>3 DEF AssignRun, Reads, Assignable, Terminal
    <2> QED BY <1>0, <1>3, <2>1 DEF AssignRun
  <1>4. ASSUME NEW w \in Workers, WriteOrder(w) PROVE order'[o] = order[o]
    <2>1. ~(o \in work[w].stops /\ work[w].open) BY <1>1, <1>2, <1>4 DEF WriteOrder, Reads
    <2> QED BY <1>0, <1>4, <2>1 DEF WriteOrder
  <1>5. ASSUME NEW w \in Workers, Step(w), ~AssignRun(w), ~WriteOrder(w) PROVE order'[o] = order[o]
    BY <1>5 DEF Step, AssignBusy, UnassignCheck, UnassignCount, WriteStop, WritePresence,
       SettleForOrder, SweepTerminalOrders, Settle, Look, FreeDriver
  <1>6. ASSUME NEW w \in Workers, Request(w) PROVE order'[o] = order[o]
    BY <1>0, <1>1, <1>6 DEF Request, AssignToDriver, JobAction, Unassign, Close
  <1>7. ASSUME NEW w \in Workers, NEW os \in SUBSET Orders, RollOver(w, os) PROVE order'[o] = order[o]
    BY <1>0, <1>1, <1>7 DEF RollOver
  <1>8. ASSUME NEW w \in Workers, Crash(w) PROVE order'[o] = order[o] BY <1>8 DEF Crash
  <1>9. ASSUME NEW d \in Drivers, GoOnline(d) \/ GoOffline(d) PROVE order'[o] = order[o]
    BY <1>9 DEF GoOnline, GoOffline
  <1>10. ASSUME NEW p \in Orders, NEW s \in {"READY", "OUT_FOR_DELIVERY"}, Push(p, s)
         PROVE  order'[o] = order[o]
    BY <1>0, <1>1, <1>10 DEF Push
  <1>11. ASSUME NEW w \in Workers, Step(w) PROVE order'[o] = order[o]
    BY <1>3, <1>4, <1>5, <1>11
  <1> QED BY <1>6, <1>7, <1>8, <1>9, <1>10, <1>11 DEF Next

\* Neither a stale job card, nor a second click, a sweep or a late write moves an
\* order that is over, as long as requests come one at a time.
THEOREM FinishedCorrect == Spec => FinishedStaysFinished
  <1>1. Init => FinishedInv
    BY DEF Init, FinishedInv, Calm, Single, Reads, Idle, At
  <1>2. TypeOK /\ FinishedInv /\ [Next]_vars => [StaysFinished]_vars
    <2>1. ASSUME TypeOK, FinishedInv, [Next]_vars PROVE [StaysFinished]_vars
      BY <2>1, FinishedHolds
    <2> QED BY <2>1
  <1>3. Spec => [][StaysFinished]_vars
    BY <1>1, <1>2, FinishedStep, DriverTypeCorrect, PTL DEF Spec
  <1> QED BY <1>3 DEF FinishedStaysFinished, StaysFinished
-----------------------------------------------------------------------------
(* Who is put back on the available list has nothing left to do *)

\* Nothing moves between the look at the live stops and the write.
FreesRightly(w) ==
    /\ work[w].pc = "free" => \A d \in work[w].todo : IsFree(d)
    /\ work[w].pc = "presence" /\ work[w].op = "unassign" => LiveStops(work[w].driver) = {}

Unburdened == \A w \in Workers : FreesRightly(w)

FreeInv == Calm => Unburdened

\* The only handler under way keeps the rest idle, and free drivers free.
LEMMA FreeHandler ==
    ASSUME TypeOK, Single, Unburdened, NEW w \in Workers, Step(w) \/ Crash(w)
    PROVE  Unburdened'
  <1>0. work \in [Workers -> Handlers] BY TypeParts DEF WorkType
  <1>1. work[w] # Idle
    BY DEF Step, Crash, AssignRun, AssignBusy, UnassignCheck, UnassignCount, WriteStop, WriteOrder,
       WritePresence, SettleForOrder, SweepTerminalOrders, Settle, Look, FreeDriver, Idle, At
  <1>2. Idle.pc = "idle" BY DEF Idle, At
  <1>3. \A v \in Workers \ {w} : work[v].pc = "idle" BY <1>1, <1>2 DEF Single
  <1>4. \A v \in Workers \ {w} : work'[v] = work[v]
    BY <1>0 DEF Step, Crash, AssignRun, AssignBusy, UnassignCheck, UnassignCount, WriteStop, WriteOrder,
       WritePresence, SettleForOrder, SweepTerminalOrders, Settling, Settle, Look, FreeDriver, GoOn, Finish
  <1>5. SUFFICES FreesRightly(w)'
    BY <1>3, <1>4 DEF Unburdened, FreesRightly
  <1>6. CASE UnassignCount(w)
    <2>1. /\ stop' = stop
          /\ \/ work'[w] = Idle
             \/ /\ LiveStops(work[w].driver) = {} /\ work'[w].pc = "presence"
                /\ work'[w].driver = work[w].driver
      BY <1>0, <1>6 DEF UnassignCount, GoOn, Finish, Handlers
    <2> QED BY <1>2, <2>1 DEF FreesRightly, LiveStops, Live
  <1>7. CASE Look(w)
    <2> DEFINE todo == {d \in Drivers : IsFree(d) /\ \E r \in work[w].rows : r.driver = d}
    <2>1. /\ stop' = stop /\ presence' = presence
          /\ work'[w] = Idle \/ (work'[w].pc = "free" /\ work'[w].todo = todo)
      BY <1>0, <1>7 DEF Look, Finish, Handlers
    <2> QED BY <1>2, <2>1 DEF FreesRightly, IsFree, LiveStops, Live
  <1>8. CASE FreeDriver(w)
    <2>1. PICK d \in work[w].todo :
              /\ Present(d, "ONLINE")
              /\ IF work[w].todo = {d} THEN Finish(w)
                 ELSE work' = [work EXCEPT ![w].todo = @ \ {d}]
      BY <1>8 DEF FreeDriver
    <2>2. stop' = stop /\ work[w].pc = "free" BY <1>8 DEF FreeDriver
    <2>3. work'[w] = Idle \/ (work'[w].pc = "free" /\ work'[w].todo = work[w].todo \ {d})
      BY <1>0, <2>1, <2>2 DEF Finish, Handlers
    <2>4. ASSUME NEW e \in work[w].todo \ {d} PROVE IsFree(e)'
      <3>1. IsFree(e) BY <2>2 DEF Unburdened, FreesRightly
      <3>2. presence \in [Drivers -> {"ONLINE", "ON_JOB", "OFFLINE"}] /\ e \in Drivers
        BY <1>0, TypeParts DEF PresenceType, Handlers
      <3>3. presence'[e] = presence[e] BY <2>1, <3>2 DEF Present
      <3> QED BY <2>2, <3>1, <3>3 DEF IsFree, LiveStops, Live
    <2> QED BY <1>2, <2>3, <2>4 DEF FreesRightly
  <1>9. CASE WriteOrder(w)
    <2>1. work'[w].pc \in {"count", "presence"} /\ (work'[w].pc = "presence" => work[w].op # "unassign")
          /\ work'[w].op = work[w].op
      BY <1>0, <1>9 DEF WriteOrder, GoOn, Handlers
    <2> QED BY <2>1 DEF FreesRightly
  <1>10. CASE ~UnassignCount(w) /\ ~Look(w) /\ ~FreeDriver(w) /\ ~WriteOrder(w)
    <2>1. \/ \E pc \in {"busy", "stop", "order", "look"} : GoOn(w, pc)
          \/ Finish(w)
          \/ \E rows : work' = [work EXCEPT ![w].pc = "settle", ![w].rows = rows]
      BY <1>10, Zenon DEF Step, Crash, AssignRun, AssignBusy, UnassignCheck, WriteStop, WritePresence,
         SettleForOrder, SweepTerminalOrders, Settling, Settle
    <2>2. work'[w].pc \in {"busy", "stop", "order", "look", "idle", "settle"}
      BY <1>0, <1>2, <2>1 DEF GoOn, Finish, Handlers
    <2> QED BY <2>2 DEF FreesRightly
  <1> QED BY <1>6, <1>7, <1>8, <1>9, <1>10

LEMMA FreeStart ==
    ASSUME TypeOK, Calm', NEW w \in Workers, NEW job, NEW kinds \in SUBSET AllFaults,
           job.pc \in {"run", "check", "stop", "live", "sweep"}, Begin(w, job, kinds)
    PROVE  Unburdened'
  <1>1. AllIdle BY OverlapNoted DEF Begin
  <1>2. work \in [Workers -> Handlers] BY TypeParts DEF WorkType
  <1>3. \A v \in Workers : work'[v] = Idle \/ work'[v] = job BY <1>1, <1>2 DEF Begin, AllIdle
  <1>4. \A v \in Workers : work'[v].pc \in {"idle", "run", "check", "stop", "live", "sweep"}
    BY <1>3 DEF Idle, At
  <1> QED BY <1>4 DEF Unburdened, FreesRightly

LEMMA FreeRequest ==
    ASSUME TypeOK, Calm', NEW w \in Workers,
           Request(w) \/ \E os \in SUBSET Orders : RollOver(w, os)
    PROVE  Unburdened'
  <1> USE DEF At
  <1>0. {} \in SUBSET AllFaults OBVIOUS
  <1>1. ASSUME NEW d \in Drivers, NEW os \in SUBSET Orders, AssignToDriver(w, d, os)
        PROVE  Unburdened'
    <2>1. Begin(w, At("run", "assign", d, os, TRUE), {}) BY <1>1 DEF AssignToDriver
    <2> QED BY <1>0, <2>1, FreeStart
  <1>2. ASSUME NEW d \in Drivers, NEW o \in Orders, NEW a \in Forward \union Closing,
               JobAction(w, d, o, a)
        PROVE  Unburdened'
    <2>1. Begin(w, At("stop", a, d, {o}, order[o] \notin Terminal), When(~Live(o), "stale"))
      BY <1>2 DEF JobAction
    <2>2. When(~Live(o), "stale") \in SUBSET AllFaults BY DEF When, AllFaults
    <2> QED BY <2>1, <2>2, FreeStart
  <1>3. ASSUME NEW o \in Orders, Unassign(w, o) PROVE Unburdened'
    <2>1. Begin(w, At("check", "unassign", stop[o].driver, {o}, Live(o)), {}) BY <1>3 DEF Unassign
    <2> QED BY <1>0, <2>1, FreeStart
  <1>4. ASSUME NEW o \in Orders, NEW e \in Endings, Close(w, o, e) PROVE Unburdened'
    <2>1. Begin(w, At("live", e, NoDriver, {o}, FALSE), {}) BY <1>4 DEF Close
    <2> QED BY <1>0, <2>1, FreeStart
  <1>5. ASSUME NEW os \in SUBSET Orders, RollOver(w, os) PROVE Unburdened'
    <2>1. Begin(w, At("sweep", "sweep", NoDriver, {}, FALSE), {}) BY <1>5 DEF RollOver
    <2> QED BY <1>0, <2>1, FreeStart
  <1> QED BY <1>1, <1>2, <1>3, <1>4, <1>5 DEF Request

LEMMA FreeOutside ==
    ASSUME TypeOK, Calm',
           \/ \E d \in Drivers : GoOnline(d) \/ GoOffline(d)
           \/ \E o \in Orders, s \in {"READY", "OUT_FOR_DELIVERY"} : Push(o, s)
    PROVE  Unburdened'
  <1>1. Happen({} \union Overlap) \/ Happen({"push"} \union Overlap)
    <2>1. {} \union Overlap = Overlap OBVIOUS
    <2> QED BY <2>1 DEF GoOnline, GoOffline, Push
  <1>2. {} \in SUBSET AllFaults /\ {"push"} \in SUBSET AllFaults BY DEF AllFaults
  <1>3. AllIdle BY <1>1, <1>2, OverlapNoted
  <1>4. work' = work BY DEF GoOnline, GoOffline, Push
  <1> QED BY <1>3, <1>4 DEF AllIdle, Idle, At, Unburdened, FreesRightly

LEMMA FreeStep == ASSUME TypeOK, FinishedInv, FreeInv, [Next]_vars PROVE FreeInv'
  <1>1. CASE UNCHANGED vars
    BY <1>1 DEF vars, FreeInv, Calm, Unburdened, FreesRightly, IsFree, LiveStops, Live
  <1>2. CASE Next
    <2>1. SUFFICES ASSUME Calm' PROVE Unburdened' BY DEF FreeInv
    <2>2. Calm BY <1>2, <2>1, CalmBefore
    <2>3. Single /\ Unburdened BY <2>2 DEF FinishedInv, FreeInv
    <2> QED BY <1>2, <2>1, <2>3, FreeHandler, FreeRequest, FreeOutside DEF Next
  <1> QED BY <1>1, <1>2

FreedRight ==
    \A w \in Workers, d \in Drivers :
        /\ Frees(w) /\ presence'[d] # presence[d]
        /\ "overlap" \notin faults.kinds
        => /\ LiveStops(d) = {}
           /\ work[w].op # "unassign" => presence[d] = "ON_JOB"

LEMMA FreedHolds == ASSUME TypeOK, FinishedInv, FreeInv, Next PROVE FreedRight
  <1>0. /\ work \in [Workers -> Handlers]
        /\ presence \in [Drivers -> {"ONLINE", "ON_JOB", "OFFLINE"}]
    BY TypeParts DEF WorkType, PresenceType
  <1>1. SUFFICES ASSUME NEW w \in Workers, NEW d \in Drivers, Frees(w),
                        presence'[d] # presence[d], Calm
                 PROVE  /\ LiveStops(d) = {}
                        /\ work[w].op # "unassign" => presence[d] = "ON_JOB"
    BY DEF FreedRight, Calm
  <1>2. Unburdened BY <1>1 DEF FreeInv
  <1>3. PICK v \in Workers : AssignBusy(v) \/ WritePresence(v) \/ FreeDriver(v)
    <2>1. presence' # presence /\ work' # work BY <1>1 DEF Frees
    <2> QED BY <2>1 DEF Next, Request, Step, Crash, RollOver, AssignToDriver, JobAction, Unassign, Close,
          AssignRun, UnassignCheck, UnassignCount, WriteStop, WriteOrder, SettleForOrder,
          SweepTerminalOrders, Settle, Look, GoOnline, GoOffline, Push
  <1>4. v = w
    BY <1>0, <1>1, <1>3 DEF Frees, AssignBusy, WritePresence, FreeDriver, Finish
  <1>5. CASE WritePresence(w)
    <2>1. work[w].op = "unassign" /\ d = work[w].driver
      BY <1>0, <1>1, <1>5 DEF Frees, WritePresence, Present
    <2> QED BY <1>2, <1>5, <2>1 DEF Unburdened, FreesRightly, WritePresence
  <1>6. CASE FreeDriver(w)
    <2>1. d \in work[w].todo /\ work[w].pc = "free" BY <1>0, <1>1, <1>6 DEF FreeDriver, Present
    <2> QED BY <1>2, <2>1 DEF Unburdened, FreesRightly, IsFree
  <1>7. CASE AssignBusy(w) BY <1>1, <1>7 DEF Frees, AssignBusy
  <1> QED BY <1>3, <1>4, <1>5, <1>6, <1>7

\* Neither the settlement nor an unassignment makes a driver available who has a
\* stop left, or the settlement one who is off shift, as long as requests come one
\* at a time.
THEOREM FreedCorrect == Spec => FreedMeansDone
  <1>1. Init => FinishedInv /\ FreeInv
    BY DEF Init, FinishedInv, Calm, Single, Reads, FreeInv, Unburdened, FreesRightly, Idle, At
  <1>2. TypeOK /\ FinishedInv /\ FreeInv /\ [Next]_vars => [FreedRight]_vars
    <2>1. ASSUME TypeOK, FinishedInv, FreeInv, [Next]_vars PROVE [FreedRight]_vars
      BY <2>1, FreedHolds
    <2> QED BY <2>1
  <1>3. Spec => [][FreedRight]_vars
    BY <1>1, <1>2, FinishedStep, FreeStep, DriverTypeCorrect, PTL DEF Spec
  <1> QED BY <1>3 DEF FreedMeansDone, FreedRight
-----------------------------------------------------------------------------
(* The three rows agree *)

\* Only staff or a marketplace interfered, and only between requests.
Pushed == faults.kinds \subseteq {"push"}

Pay(o) == stop[o].status = "DELIVERED" => order[o] = "COMPLETED"
Closed(o) == Live(o) /\ order[o] \in Terminal

\* Where pay stands while handler w is under way.
Paying(w) ==
    /\ \A o \in Orders :
          Pay(o) \/ (work[w].pc = "order" /\ work[w].op = "delivered" /\ o \in work[w].stops)
    /\ \A o \in Orders : Closed(o) =>
          \/ work[w].pc = "live" /\ o \in work[w].stops
          \/ work[w].pc = "sweep"
          \/ work[w].pc = "settle" /\ o \in Settled(w)
    /\ work[w].pc = "live" => \A o \in work[w].stops : order[o] = work[w].op
    /\ work[w].pc = "check" /\ work[w].open => \A o \in work[w].stops : Live(o)
    /\ work[w].pc = "stop" => work[w].open /\ \A o \in work[w].stops : Live(o)
    /\ work[w].pc = "order" => work[w].open
    /\ work[w].pc = "check" => work[w].op = "unassign"
    /\ work[w].pc = "stop" => work[w].op \in Forward \union Closing \union {"unassign"}
    /\ work[w].pc = "order" => \A o \in work[w].stops : Live(o) => work[w].op \in Forward
    /\ work[w].pc = "settle" => \A r \in work[w].rows : r.outcome = OutcomeFor(order[r.stop])

Paid == \A o \in Orders : Pay(o) /\ ~Closed(o)

PayParts ==
    /\ AllIdle => Paid
    /\ \A w \in Workers : work[w] # Idle => Paying(w)

PayInv == Pushed => PayParts

\* It is enough to look at the one handler that moved.
LEMMA PayPut ==
    ASSUME NEW w \in Workers, \A v \in Workers \ {w} : work'[v] = Idle, Paying(w)'
    PROVE  PayParts'
  <1>1. Idle.pc = "idle" BY DEF Idle, At
  <1>2. AllIdle' => Paid' BY <1>1 DEF AllIdle, Paid, Paying
  <1> QED BY <1>2 DEF PayParts

LEMMA OthersIdle ==
    ASSUME TypeOK, Single, NEW w \in Workers, Step(w) \/ Crash(w)
    PROVE  /\ work[w] # Idle
           /\ \A v \in Workers \ {w} : work'[v] = Idle
  <1>0. work \in [Workers -> Handlers] BY TypeParts DEF WorkType
  <1>1. work[w] # Idle
    BY DEF Step, Crash, AssignRun, AssignBusy, UnassignCheck, UnassignCount, WriteStop, WriteOrder,
       WritePresence, SettleForOrder, SweepTerminalOrders, Settle, Look, FreeDriver, Idle, At
  <1>2. \A v \in Workers \ {w} : work[v] = Idle BY <1>1 DEF Single
  <1>3. \A v \in Workers \ {w} : work'[v] = work[v]
    BY <1>0 DEF Step, Crash, AssignRun, AssignBusy, UnassignCheck, UnassignCount, WriteStop, WriteOrder,
       WritePresence, SettleForOrder, SweepTerminalOrders, Settling, Settle, Look, FreeDriver, GoOn, Finish
  <1> QED BY <1>1, <1>2, <1>3

\* Assigning, unassigning and presences.
LEMMA PayAssign ==
    ASSUME TypeOK, Reads, NEW w \in Workers, Paying(w),
           \/ AssignRun(w) \/ AssignBusy(w) \/ UnassignCheck(w) \/ UnassignCount(w)
           \/ WritePresence(w) \/ Look(w) \/ FreeDriver(w)
    PROVE  Paying(w)'
  <1>0. /\ work \in [Workers -> Handlers] /\ work[w].stops \subseteq Orders
        /\ stop \in [Orders -> Stops] /\ order \in [Orders -> Statuses]
    BY TypeParts, HandlerType DEF WorkType, StopType, OrderType
  <1>1. Idle.pc = "idle" BY DEF Idle, At
  <1>2. CASE AssignRun(w)
    <2>1. work'[w].pc = "busy" BY <1>0, <1>2 DEF AssignRun, GoOn, Handlers
    <2>2. ASSUME NEW o \in Orders, o \in work[w].stops
          PROVE  stop'[o].status = "ASSIGNED" /\ order'[o] = "ASSIGNED_DRIVER"
      BY <1>0, <1>2, <2>2 DEF AssignRun
    <2>3. ASSUME NEW o \in Orders, o \notin work[w].stops
          PROVE  stop'[o] = stop[o] /\ order'[o] = order[o]
      BY <1>0, <1>2, <2>3 DEF AssignRun
    <2>4. \A o \in Orders : Pay(o)' /\ ~Closed(o)'
      BY <1>2, <2>2, <2>3 DEF AssignRun, Paying, Pay, Closed, Live, Terminal
    <2> QED BY <2>1, <2>4 DEF Paying
  <1>3. CASE UnassignCheck(w)
    <2>1. /\ stop' = stop /\ order' = order /\ work[w].pc = "check"
          /\ \/ work'[w] = Idle
             \/ /\ work'[w].pc = "stop" /\ work'[w].open /\ work[w].open
                /\ work'[w].stops = work[w].stops /\ work'[w].op = work[w].op
      BY <1>0, <1>3 DEF UnassignCheck, GoOn, Finish, Handlers
    <2> QED BY <1>1, <2>1 DEF Paying, Pay, Closed, Live
  <1>4. CASE AssignBusy(w) \/ UnassignCount(w) \/ WritePresence(w) \/ Look(w) \/ FreeDriver(w)
    <2>1. /\ stop' = stop /\ order' = order
          /\ work[w].pc \in {"busy", "count", "presence", "look", "free"}
          /\ work'[w].pc \in {"idle", "presence", "free"}
      BY <1>0, <1>1, <1>4 DEF AssignBusy, UnassignCount, WritePresence, Look, FreeDriver, GoOn, Finish, Handlers
    <2> QED BY <2>1 DEF Paying, Pay, Closed, Live
  <1> QED BY <1>2, <1>3, <1>4

\* A stop is written and then its order.
LEMMA PayWrite ==
    ASSUME TypeOK, Reads, NEW w \in Workers, Paying(w), WriteStop(w) \/ WriteOrder(w)
    PROVE  Paying(w)'
  <1>0. /\ work \in [Workers -> Handlers] /\ work[w].stops \subseteq Orders /\ work[w].op \in Ops
        /\ stop \in [Orders -> Stops] /\ order \in [Orders -> Statuses]
    BY TypeParts, HandlerType DEF WorkType, StopType, OrderType
  <1>1. CASE WriteStop(w)
    <2>1. /\ work[w].pc = "stop" /\ order' = order
          /\ work'[w].pc = "order" /\ work'[w].op = work[w].op
          /\ work'[w].stops = work[w].stops /\ work'[w].open = work[w].open
      BY <1>0, <1>1 DEF WriteStop, GoOn, Handlers
    <2>2. ASSUME NEW o \in Orders, o \in work[w].stops
          PROVE  stop'[o].status = StopAfter(work[w].op, stop[o].status)
      BY <1>0, <1>1, <2>2 DEF WriteStop, Stops
    <2>3. ASSUME NEW o \in Orders, o \notin work[w].stops PROVE stop'[o] = stop[o]
      BY <1>0, <1>1, <2>3 DEF WriteStop
    <2>4. \A o \in work[w].stops : Live(o) /\ order[o] \notin Terminal /\ work[w].open
      BY <2>1 DEF Paying, Reads
    <2>5. ASSUME NEW o \in Orders, o \in work[w].stops
          PROVE  /\ Pay(o)' \/ work[w].op = "delivered"
                 /\ ~Closed(o)'
      BY <2>1, <2>2, <2>4, <2>5 DEF StopAfter, Pay, Closed, Live, LiveStatuses
    <2>6. ASSUME NEW o \in Orders, o \notin work[w].stops PROVE Pay(o)' /\ ~Closed(o)'
      BY <2>1, <2>3, <2>6 DEF Paying, Pay, Closed, Live
    <2>7. work[w].open BY <2>1 DEF Paying
    <2>8. ASSUME NEW o \in Orders, o \in work[w].stops, Live(o)' PROVE work[w].op \in Forward
      <3>1. work[w].op \in Forward \union Closing \union {"unassign"} BY <2>1 DEF Paying
      <3> QED BY <2>2, <2>8, <3>1 DEF StopAfter, Live, LiveStatuses, Closing
    <2> QED BY <1>0, <2>1, <2>5, <2>6, <2>7, <2>8 DEF Paying
  <1>2. CASE WriteOrder(w)
    <2>1. /\ work[w].pc = "order" /\ stop' = stop /\ work[w].open
          /\ work'[w].pc \in {"count", "presence"}
      BY <1>0, <1>2 DEF WriteOrder, GoOn, Handlers, Paying
    <2>2. ASSUME NEW o \in Orders, o \in work[w].stops
          PROVE  order'[o] = OrderAfter(work[w].op) /\ order[o] \notin Terminal
      BY <1>0, <1>2, <2>1, <2>2 DEF WriteOrder, Reads
    <2>3. ASSUME NEW o \in Orders, o \notin work[w].stops PROVE order'[o] = order[o]
      BY <1>0, <1>2, <2>3 DEF WriteOrder
    <2>4. ASSUME NEW o \in Orders, o \in work[w].stops, work[w].op = "delivered"
          PROVE  Pay(o)'
      BY <2>1, <2>2, <2>4 DEF OrderAfter, Pay
    <2>5. ASSUME NEW o \in Orders, o \in work[w].stops, work[w].op # "delivered"
          PROVE  Pay(o)'
      <3>1. Pay(o) BY <2>5 DEF Paying
      <3>2. "COMPLETED" \in Terminal BY DEF Terminal
      <3> QED BY <2>1, <2>2, <2>5, <3>1, <3>2 DEF Pay
    <2>6. ASSUME NEW o \in Orders, o \notin work[w].stops PROVE Pay(o)'
      BY <2>1, <2>3, <2>6 DEF Paying, Pay
    <2>7. ASSUME NEW o \in Orders PROVE ~Closed(o)'
      <3>1. CASE o \in work[w].stops /\ Live(o)
        <4>1. work[w].op \in Forward BY <2>1, <3>1 DEF Paying
        <4> QED BY <2>2, <3>1, <4>1 DEF OrderAfter, Closed, Forward, Terminal
      <3>2. CASE ~Live(o) BY <2>1, <3>2 DEF Closed, Live
      <3>3. CASE o \notin work[w].stops
        <4>1. ~Closed(o) BY <2>1 DEF Paying
        <4> QED BY <2>1, <2>3, <3>3, <4>1 DEF Closed, Live
      <3> QED BY <3>1, <3>2, <3>3
    <2> QED BY <2>1, <2>4, <2>5, <2>6, <2>7 DEF Paying
  <1> QED BY <1>1, <1>2

\* The settlement pays the stops it read, with the outcome of their orders.
LEMMA PaySettle ==
    ASSUME TypeOK, NEW w \in Workers, Paying(w),
           SettleForOrder(w) \/ SweepTerminalOrders(w) \/ Settle(w)
    PROVE  Paying(w)'
  <1>0. /\ work \in [Workers -> Handlers] /\ work[w].stops \subseteq Orders
        /\ work[w].rows \subseteq Rows
        /\ stop \in [Orders -> Stops] /\ order \in [Orders -> Statuses]
    BY TypeParts, HandlerType DEF WorkType, StopType, OrderType
  <1>1. Idle.pc = "idle" BY DEF Idle, At
  <1>2. ASSUME NEW os \in SUBSET Orders, NEW rows,
               order' = order, stop' = stop, work[w].pc \in {"live", "sweep"},
               Settling(w, rows), rows = {Row(o, order[o]) : o \in os},
               \A o \in Orders : Closed(o) => o \in os
        PROVE  Paying(w)'
    <2>1. \/ rows = {} /\ work'[w].pc = "idle"
          \/ rows # {} /\ work'[w].pc = "settle" /\ work'[w].rows = rows
      BY <1>0, <1>1, <1>2 DEF Settling, Finish, Handlers
    <2>2. \A o \in Orders : Pay(o)' BY <1>2 DEF Paying, Pay
    <2>3. \A r \in rows : r.outcome = OutcomeFor(order[r.stop]) BY <1>2 DEF Row
    <2>4. ASSUME NEW o \in os PROVE \E r \in rows : r.stop = o
      <3>1. Row(o, order[o]) \in rows /\ Row(o, order[o]).stop = o BY <1>2 DEF Row
      <3> QED BY <3>1
    <2>5. \A o \in Orders : Closed(o)' => \E r \in rows : r.stop = o
      BY <1>2, <2>4 DEF Closed, Live
    <2> QED BY <1>2, <2>1, <2>2, <2>3, <2>5 DEF Paying, Settled
  <1>3. CASE SettleForOrder(w)
    <2> DEFINE os == {p \in work[w].stops : Live(p)}
    <2>1. work[w].pc = "live" /\ order' = order /\ stop' = stop
          /\ Settling(w, {Row(o, work[w].op) : o \in os})
      BY <1>3 DEF SettleForOrder
    <2>2. \A o \in os : order[o] = work[w].op BY <2>1 DEF Paying
    <2>3. {Row(o, work[w].op) : o \in os} = {Row(o, order[o]) : o \in os} BY <2>2
    <2>4. \A o \in Orders : Closed(o) => o \in os BY <2>1 DEF Paying, Closed
    <2>5. os \in SUBSET Orders BY <1>0
    <2> QED BY <1>2, <2>1, <2>3, <2>4, <2>5
  <1>4. CASE SweepTerminalOrders(w)
    <2> DEFINE os == {p \in Orders : Live(p) /\ order[p] \in Terminal}
    <2>1. work[w].pc = "sweep" /\ order' = order /\ stop' = stop
          /\ Settling(w, {Row(o, order[o]) : o \in os})
      BY <1>4 DEF SweepTerminalOrders
    <2>2. \A o \in Orders : Closed(o) => o \in os BY DEF Closed
    <2>3. os \in SUBSET Orders OBVIOUS
    <2> QED BY <1>2, <2>1, <2>2, <2>3
  <1>5. CASE Settle(w)
    <2>1. /\ work[w].pc = "settle" /\ order' = order
          /\ work'[w].pc = "look"
      BY <1>0, <1>5 DEF Settle, GoOn, Handlers
    <2>2. ASSUME NEW o \in Orders, o \in Settled(w)
          PROVE  stop'[o].status = OutcomeFor(order[o])
      <3> DEFINE r == CHOOSE r \in work[w].rows : r.stop = o
      <3>1. r \in work[w].rows /\ r.stop = o BY <2>2 DEF Settled
      <3>2. r.outcome = OutcomeFor(order[o]) BY <2>1, <3>1 DEF Paying
      <3>3. stop'[o] = [stop[o] EXCEPT !.status = r.outcome] BY <1>0, <1>5, <2>2 DEF Settle
      <3> QED BY <1>0, <3>2, <3>3 DEF Stops
    <2>3. ASSUME NEW o \in Orders, o \notin Settled(w) PROVE stop'[o] = stop[o]
      BY <1>0, <1>5, <2>3 DEF Settle
    <2>4. ASSUME NEW o \in Orders, o \in Settled(w) PROVE Pay(o)' /\ ~Closed(o)'
      BY <2>1, <2>2, <2>4 DEF Pay, Closed, Live, OutcomeFor, LiveStatuses
    <2>5. ASSUME NEW o \in Orders, o \notin Settled(w) PROVE Pay(o)' /\ ~Closed(o)'
      <3>1. Pay(o) /\ ~Closed(o) BY <2>1, <2>5 DEF Paying
      <3> QED BY <2>1, <2>3, <2>5, <3>1 DEF Pay, Closed, Live
    <2> QED BY <2>1, <2>4, <2>5 DEF Paying
  <1> QED BY <1>3, <1>4, <1>5

LEMMA StartAlone ==
    ASSUME TypeOK, NEW w \in Workers, NEW job, NEW kinds, Begin(w, job, kinds), AllIdle
    PROVE  work'[w] = job /\ \A v \in Workers \ {w} : work'[v] = Idle
  BY TypeParts DEF WorkType, Begin, AllIdle

\* A request begins where everything is paid.
LEMMA PayRequest ==
    ASSUME TypeOK, AllIdle, Paid, "stale" \notin faults'.kinds, NEW w \in Workers,
           Request(w) \/ \E os \in SUBSET Orders : RollOver(w, os)
    PROVE  PayParts'
  <1> USE DEF At
  <1>0. stop \in [Orders -> Stops] /\ order \in [Orders -> Statuses] /\ FaultsType
    BY TypeParts DEF StopType, OrderType
  <1>1. ASSUME NEW job, NEW kinds, Begin(w, job, kinds), Paying(w)' PROVE PayParts'
    BY <1>1, StartAlone, PayPut
  <1>2. ASSUME NEW job, NEW kinds, Begin(w, job, kinds), order' = order, stop' = stop,
               \/ job.pc = "run"
               \/ job.pc = "check" /\ job.op = "unassign" /\ (job.open => \A o \in job.stops : Live(o))
               \/ /\ job.pc = "stop" /\ job.open /\ \A o \in job.stops : Live(o)
                  /\ job.op \in Forward \union Closing
        PROVE  PayParts'
    <2>1. work'[w] = job BY <1>2, StartAlone
    <2>2. Paying(w)' BY <1>2, <2>1 DEF Paying, Paid, Pay, Closed, Live
    <2> QED BY <1>1, <1>2, <2>2
  <1>3. ASSUME NEW d \in Drivers, NEW os \in SUBSET Orders, AssignToDriver(w, d, os)
        PROVE  PayParts'
    <2>1. Begin(w, At("run", "assign", d, os, TRUE), {}) /\ order' = order /\ stop' = stop
      BY <1>3 DEF AssignToDriver
    <2> QED BY <1>2, <2>1
  <1>4. ASSUME NEW d \in Drivers, NEW o \in Orders, NEW a \in Forward \union Closing,
               JobAction(w, d, o, a)
        PROVE  PayParts'
    <2>1. Begin(w, At("stop", a, d, {o}, order[o] \notin Terminal), When(~Live(o), "stale"))
          /\ order' = order /\ stop' = stop
      BY <1>4 DEF JobAction
    <2>2. Live(o)
      <3>1. SUFFICES ASSUME ~Live(o) PROVE FALSE OBVIOUS
      <3>2. When(~Live(o), "stale") = {"stale"} BY <3>1 DEF When
      <3>3. Happen({"stale"} \union Overlap) BY <2>1, <3>2 DEF Begin
      <3>4. {"stale"} \union Overlap \in SUBSET AllFaults BY OverlapType DEF AllFaults
      <3>5. faults'.kinds = faults.kinds \union ({"stale"} \union Overlap) BY <1>0, <3>3, <3>4, HappenType
      <3> QED BY <3>5
    <2>3. order[o] \notin Terminal BY <2>2 DEF Paid, Closed
    <2> QED BY <1>2, <2>1, <2>2, <2>3
  <1>5. ASSUME NEW o \in Orders, Unassign(w, o) PROVE PayParts'
    <2>1. Begin(w, At("check", "unassign", stop[o].driver, {o}, Live(o)), {})
          /\ order' = order /\ stop' = stop
      BY <1>5 DEF Unassign
    <2> QED BY <1>2, <2>1
  <1>6. ASSUME NEW o \in Orders, NEW e \in Endings, Close(w, o, e) PROVE PayParts'
    <2>1. Begin(w, At("live", e, NoDriver, {o}, FALSE), {}) /\ stop' = stop
          /\ order' = [order EXCEPT ![o] = e] /\ order[o] \notin Terminal
      BY <1>6 DEF Close
    <2>2. work'[w] = At("live", e, NoDriver, {o}, FALSE) BY <2>1, StartAlone
    <2>3. ASSUME NEW p \in Orders PROVE Pay(p)' /\ (Closed(p)' => p = o)
      <3>1. Pay(p) /\ ~Closed(p) BY DEF Paid
      <3>2. "COMPLETED" \in Terminal BY DEF Terminal
      <3> QED BY <1>0, <2>1, <3>1, <3>2 DEF Pay, Closed, Live
    <2>4. Paying(w)' BY <1>0, <2>1, <2>2, <2>3 DEF Paying
    <2> QED BY <1>1, <2>1, <2>4
  <1>7. ASSUME NEW os \in SUBSET Orders, RollOver(w, os) PROVE PayParts'
    <2>1. Begin(w, At("sweep", "sweep", NoDriver, {}, FALSE), {}) /\ stop' = stop
          /\ order' = [o \in Orders |-> IF o \in os THEN "COMPLETED" ELSE order[o]]
      BY <1>7 DEF RollOver
    <2>2. work'[w] = At("sweep", "sweep", NoDriver, {}, FALSE) BY <2>1, StartAlone
    <2>3. ASSUME NEW p \in Orders PROVE Pay(p)' BY <1>0, <2>1 DEF Paid, Pay
    <2>4. Paying(w)' BY <2>2, <2>3 DEF Paying
    <2> QED BY <1>1, <2>1, <2>4
  <1> QED BY <1>3, <1>4, <1>5, <1>6, <1>7 DEF Request

\* Shifts leave stops and orders alone; staff move no order that is over.
LEMMA PayOutside ==
    ASSUME TypeOK, AllIdle, Paid,
           \/ \E d \in Drivers : GoOnline(d) \/ GoOffline(d)
           \/ \E o \in Orders, s \in {"READY", "OUT_FOR_DELIVERY"} : Push(o, s)
    PROVE  PayParts'
  <1>0. order \in [Orders -> Statuses] BY TypeParts DEF OrderType
  <1>1. work' = work /\ stop' = stop BY DEF GoOnline, GoOffline, Push
  <1>2. Paid'
    <2>1. CASE order' = order BY <1>1, <2>1 DEF Paid, Pay, Closed, Live
    <2>2. ASSUME NEW o \in Orders, NEW s \in {"READY", "OUT_FOR_DELIVERY"}, Push(o, s) PROVE Paid'
      <3>1. order' = [order EXCEPT ![o] = s] /\ order[o] \notin Terminal BY <2>2 DEF Push
      <3>2. s \notin Terminal /\ "COMPLETED" \in Terminal BY DEF Terminal
      <3> QED BY <1>0, <1>1, <3>1, <3>2 DEF Paid, Pay, Closed, Live
    <2> QED BY <2>1, <2>2 DEF GoOnline, GoOffline
  <1> QED BY <1>1, <1>2 DEF PayParts, AllIdle

LEMMA StartsIdle ==
    ASSUME TypeOK, Calm',
           \/ \E w \in Workers : Request(w) \/ \E os \in SUBSET Orders : RollOver(w, os)
           \/ \E d \in Drivers : GoOnline(d) \/ GoOffline(d)
           \/ \E o \in Orders, s \in {"READY", "OUT_FOR_DELIVERY"} : Push(o, s)
    PROVE  AllIdle
  <1>1. \E kinds \in SUBSET AllFaults : Happen(kinds \union Overlap)
    <2>1. {} \in SUBSET AllFaults /\ {"push"} \in SUBSET AllFaults
          /\ \A o : When(~Live(o), "stale") \in SUBSET AllFaults
      BY DEF When, AllFaults
    <2>2. {} \union Overlap = Overlap OBVIOUS
    <2>3. ASSUME NEW w \in Workers, Request(w) \/ \E os \in SUBSET Orders : RollOver(w, os)
          PROVE  \E kinds \in SUBSET AllFaults : Happen(kinds \union Overlap)
      BY <2>1, <2>3 DEF Request, RollOver, AssignToDriver, JobAction, Unassign, Close, Begin
    <2>4. ASSUME NEW d \in Drivers, GoOnline(d) \/ GoOffline(d) PROVE Happen({} \union Overlap)
      BY <2>2, <2>4 DEF GoOnline, GoOffline
    <2>5. ASSUME NEW o \in Orders, NEW s \in {"READY", "OUT_FOR_DELIVERY"}, Push(o, s)
          PROVE  Happen({"push"} \union Overlap)
      BY <2>5 DEF Push
    <2> QED BY <2>1, <2>3, <2>4, <2>5
  <1> QED BY <1>1, OverlapNoted

\* What happened is not forgotten.
LEMMA KindsGrow == ASSUME TypeOK, Next PROVE faults.kinds \subseteq faults'.kinds
  <1>0. FaultsType BY TypeParts
  <1>1. ASSUME NEW kinds \in SUBSET AllFaults, Happen(kinds) PROVE faults.kinds \subseteq faults'.kinds
    BY <1>0, <1>1, HappenType
  <1>2. {} \union Overlap = Overlap /\ Overlap \in SUBSET AllFaults
        /\ {"crash"} \in SUBSET AllFaults /\ {"push"} \union Overlap \in SUBSET AllFaults
        /\ \A o : When(~Live(o), "stale") \union Overlap \in SUBSET AllFaults
    BY OverlapType DEF AllFaults, When
  <1>3. ASSUME NEW w \in Workers, Request(w) \/ \E os \in SUBSET Orders : RollOver(w, os)
        PROVE  faults.kinds \subseteq faults'.kinds
    <2>1. Happen({} \union Overlap) \/ \E o \in Orders : Happen(When(~Live(o), "stale") \union Overlap)
      BY <1>3 DEF Request, RollOver, AssignToDriver, JobAction, Unassign, Close, Begin
    <2> QED BY <1>1, <1>2, <2>1
  <1>4. ASSUME NEW w \in Workers, Step(w) PROVE faults.kinds \subseteq faults'.kinds
    BY <1>4 DEF Step, AssignRun, AssignBusy, UnassignCheck, UnassignCount, WriteStop, WriteOrder,
       WritePresence, SettleForOrder, SweepTerminalOrders, Settle, Look, FreeDriver
  <1>5. ASSUME NEW w \in Workers, Crash(w) PROVE faults.kinds \subseteq faults'.kinds
    BY <1>1, <1>2, <1>5 DEF Crash
  <1>6. ASSUME NEW d \in Drivers, GoOnline(d) \/ GoOffline(d) PROVE faults.kinds \subseteq faults'.kinds
    BY <1>1, <1>2, <1>6 DEF GoOnline, GoOffline
  <1>7. ASSUME NEW o \in Orders, NEW s \in {"READY", "OUT_FOR_DELIVERY"}, Push(o, s)
        PROVE  faults.kinds \subseteq faults'.kinds
    BY <1>1, <1>2, <1>7 DEF Push
  <1> QED BY <1>3, <1>4, <1>5, <1>6, <1>7 DEF Next

\* A crash is a fault of its own.
LEMMA CrashNoted == ASSUME TypeOK, NEW w \in Workers, Crash(w) PROVE "crash" \in faults'.kinds
  BY HappenType, TypeParts DEF Crash, AllFaults

LEMMA PayStep == ASSUME TypeOK, FinishedInv, PayInv, [Next]_vars PROVE PayInv'
  <1>1. CASE UNCHANGED vars
    BY <1>1 DEF vars, PayInv, Pushed, PayParts, AllIdle, Paid, Paying, Pay, Closed, Live, Settled
  <1>2. CASE Next
    <2>1. SUFFICES ASSUME Pushed' PROVE PayParts' BY DEF PayInv
    <2>2. Pushed /\ Calm /\ Calm' /\ "stale" \notin faults'.kinds
      BY <1>2, <2>1, KindsGrow DEF Pushed, Calm
    <2>3. Single /\ Reads /\ PayParts BY <2>2 DEF FinishedInv, PayInv
    <2>4. ASSUME NEW w \in Workers, Step(w) PROVE PayParts'
      <3>1. work[w] # Idle /\ \A v \in Workers \ {w} : work'[v] = Idle BY <2>3, <2>4, OthersIdle
      <3>2. Paying(w) BY <2>3, <3>1 DEF PayParts
      <3>3. Paying(w)' BY <2>3, <2>4, <3>2, PayAssign, PayWrite, PaySettle DEF Step
      <3> QED BY <3>1, <3>3, PayPut
    <2>5. \A w \in Workers : ~Crash(w) BY <2>1, CrashNoted DEF Pushed
    <2>6. CASE \/ \E w \in Workers : Request(w) \/ \E os \in SUBSET Orders : RollOver(w, os)
               \/ \E d \in Drivers : GoOnline(d) \/ GoOffline(d)
               \/ \E o \in Orders, s \in {"READY", "OUT_FOR_DELIVERY"} : Push(o, s)
      <3>1. AllIdle BY <2>2, <2>6, StartsIdle
      <3>2. Paid BY <2>3, <3>1 DEF PayParts
      <3> QED BY <2>2, <2>6, <3>1, <3>2, PayRequest, PayOutside
    <2> QED BY <1>2, <2>4, <2>5, <2>6 DEF Next
  <1> QED BY <1>1, <1>2

\* An order is with a driver exactly if its stop is live; who is on a job has one.
Board(o) == Live(o) <=> order[o] \in WithDriver
Rider(d) == presence[d] = "ON_JOB" => LiveStops(d) # {}

\* How far the rows are apart while handler w is under way.
Agreeing(w) ==
    /\ \A o \in Orders : Board(o) \/ Closed(o) \/ (work[w].pc = "order" /\ o \in work[w].stops)
    /\ work[w].pc = "order" => \A o \in work[w].stops : Live(o) <=> work[w].op \in Forward
    /\ work[w].pc \in {"check", "stop", "order"} =>
          \A o \in work[w].stops : stop[o].driver = work[w].driver
    /\ work[w].pc \in {"run", "check", "stop", "order"} => work[w].stops # {}
    /\ work[w].pc = "count" => work[w].op = "unassign"
    /\ work[w].pc = "busy" \/ (work[w].pc = "presence" /\ work[w].op \in Forward)
          => LiveStops(work[w].driver) # {}
    /\ work[w].pc = "live" => \A o \in work[w].stops : order[o] \in Terminal
    /\ work[w].pc = "settle" =>
          \A r \in work[w].rows : r.driver = stop[r.stop].driver /\ order[r.stop] \in Terminal
    /\ \A d \in Drivers : \/ Rider(d)
                          \/ work[w].pc \in {"order", "count", "presence"} /\ d = work[w].driver
                          \/ work[w].pc = "look" /\ \E r \in work[w].rows : r.driver = d
                          \/ work[w].pc = "free" /\ d \in work[w].todo

Agreed == BoardAgrees /\ RidersAgree

AgreeParts ==
    /\ AllIdle => Agreed
    /\ \A w \in Workers : work[w] # Idle => Agreeing(w)

AgreeInv == faults.kinds = {} => AgreeParts

LEMMA AgreePut ==
    ASSUME NEW w \in Workers, \A v \in Workers \ {w} : work'[v] = Idle, Agreeing(w)', Paying(w)'
    PROVE  AgreeParts'
  <1>1. Idle.pc = "idle" BY DEF Idle, At
  <1>2. ASSUME AllIdle' PROVE Agreed'
    <2>1. work'[w].pc = "idle" BY <1>1, <1>2 DEF AllIdle
    <2>2. BoardAgrees' BY <2>1 DEF Agreeing, Paying, Board, BoardAgrees
    <2>3. RidersAgree' BY <2>1 DEF Agreeing, Rider, RidersAgree
    <2> QED BY <2>2, <2>3 DEF Agreed
  <1> QED BY <1>2 DEF AgreeParts

\* A rider's stops are as they were if no stop of his was written.
LEMMA SameStops ==
    ASSUME NEW d, \A o \in Orders : stop[o].driver = d \/ stop'[o].driver = d => stop'[o] = stop[o]
    PROVE  LiveStops(d)' = LiveStops(d)
  BY DEF LiveStops, Live

\* Assigning: the orders were on the board, so nobody loses a stop.
LEMMA AgreeAssign ==
    ASSUME TypeOK, Reads, NEW w \in Workers, Paying(w), Agreeing(w),
           AssignRun(w) \/ AssignBusy(w)
    PROVE  Agreeing(w)'
  <1>0. /\ work \in [Workers -> Handlers] /\ work[w].stops \subseteq Orders
        /\ stop \in [Orders -> Stops] /\ order \in [Orders -> Statuses]
        /\ presence \in [Drivers -> {"ONLINE", "ON_JOB", "OFFLINE"}]
    BY TypeParts, HandlerType DEF WorkType, StopType, OrderType, PresenceType
  <1>1. Idle.pc = "idle" BY DEF Idle, At
  <1>2. CASE AssignRun(w)
    <2>1. /\ work[w].pc = "run" /\ presence' = presence
          /\ work'[w].pc = "busy" /\ work'[w].driver = work[w].driver
      BY <1>0, <1>2 DEF AssignRun, GoOn, Handlers
    <2>2. ASSUME NEW o \in Orders, o \in work[w].stops
          PROVE  /\ stop'[o] = [driver |-> work[w].driver, status |-> "ASSIGNED"]
                 /\ order'[o] = "ASSIGNED_DRIVER"
      BY <1>0, <1>2, <2>2 DEF AssignRun
    <2>3. ASSUME NEW o \in Orders, o \notin work[w].stops
          PROVE  stop'[o] = stop[o] /\ order'[o] = order[o]
      BY <1>0, <1>2, <2>3 DEF AssignRun
    <2>4. ASSUME NEW o \in Orders, o \in work[w].stops PROVE ~Live(o)
      <3>1. order[o] \in Assignable BY <2>1, <2>4 DEF Reads
      <3>2. order[o] \notin WithDriver /\ order[o] \notin Terminal
        BY <3>1 DEF Assignable, WithDriver, Terminal
      <3>3. Board(o) \/ Closed(o) BY <2>1 DEF Agreeing
      <3> QED BY <3>2, <3>3 DEF Board, Closed
    <2>5. ASSUME NEW o \in Orders PROVE Board(o)' \/ Closed(o)'
      <3>1. CASE o \in work[w].stops
        BY <2>2, <3>1 DEF Board, Live, LiveStatuses, WithDriver
      <3>2. CASE o \notin work[w].stops
        <4>1. Board(o) \/ Closed(o) BY <2>1 DEF Agreeing
        <4> QED BY <2>3, <3>2, <4>1 DEF Board, Closed, Live
      <3> QED BY <3>1, <3>2
    <2>6. ASSUME NEW d \in Drivers, NEW o \in LiveStops(d) PROVE o \in LiveStops(d)'
      BY <2>3, <2>4 DEF LiveStops, Live
    <2>7. \A d \in Drivers : Rider(d)'
      <3>1. \A d \in Drivers : Rider(d) BY <2>1 DEF Agreeing
      <3> QED BY <2>1, <2>6, <3>1 DEF Rider
    <2>8. LiveStops(work[w].driver)' # {}
      <3>1. PICK o \in work[w].stops : TRUE BY <2>1 DEF Agreeing
      <3>2. o \in LiveStops(work[w].driver)' BY <1>0, <2>1, <2>2 DEF LiveStops, Live, LiveStatuses
      <3> QED BY <3>2
    <2> QED BY <2>1, <2>5, <2>7, <2>8 DEF Agreeing
  <1>3. CASE AssignBusy(w)
    <2>1. /\ work[w].pc = "busy" /\ stop' = stop /\ order' = order
          /\ presence' = [presence EXCEPT ![work[w].driver] = "ON_JOB"]
          /\ work'[w].pc = "idle"
      BY <1>0, <1>1, <1>3 DEF AssignBusy, Finish, Present
    <2>2. \A o \in Orders : Board(o)' \/ Closed(o)'
      BY <2>1 DEF Agreeing, Board, Closed, Live
    <2>3. ASSUME NEW d \in Drivers PROVE Rider(d)'
      <3>1. Rider(d) /\ LiveStops(work[w].driver) # {} BY <2>1 DEF Agreeing
      <3>2. LiveStops(d)' = LiveStops(d) BY <2>1, SameStops
      <3> QED BY <1>0, <2>1, <3>1, <3>2 DEF Rider
    <2> QED BY <2>1, <2>2, <2>3 DEF Agreeing
  <1> QED BY <1>2, <1>3

\* A stop, its order and its driver are written one after the other.
LEMMA AgreeWrite ==
    ASSUME TypeOK, Reads, NEW w \in Workers, Paying(w), Agreeing(w),
           WriteStop(w) \/ WriteOrder(w) \/ WritePresence(w)
    PROVE  Agreeing(w)'
  <1>0. /\ work \in [Workers -> Handlers] /\ work[w].stops \subseteq Orders
        /\ stop \in [Orders -> Stops] /\ order \in [Orders -> Statuses]
        /\ presence \in [Drivers -> {"ONLINE", "ON_JOB", "OFFLINE"}]
    BY TypeParts, HandlerType DEF WorkType, StopType, OrderType, PresenceType
  <1>1. Idle.pc = "idle" BY DEF Idle, At
  <1>2. CASE WriteStop(w)
    <2>1. /\ work[w].pc = "stop" /\ order' = order /\ presence' = presence
          /\ work'[w].pc = "order" /\ work'[w].op = work[w].op
          /\ work'[w].stops = work[w].stops /\ work'[w].driver = work[w].driver
      BY <1>0, <1>2 DEF WriteStop, GoOn, Handlers
    <2>2. ASSUME NEW o \in Orders, o \in work[w].stops
          PROVE  /\ stop'[o].status = StopAfter(work[w].op, stop[o].status)
                 /\ stop'[o].driver = stop[o].driver
      BY <1>0, <1>2, <2>2 DEF WriteStop, Stops
    <2>3. ASSUME NEW o \in Orders, o \notin work[w].stops PROVE stop'[o] = stop[o]
      BY <1>0, <1>2, <2>3 DEF WriteStop
    <2>4. ASSUME NEW o \in Orders, o \notin work[w].stops PROVE Board(o)' \/ Closed(o)'
      <3>1. Board(o) \/ Closed(o) BY <2>1 DEF Agreeing
      <3> QED BY <2>1, <2>3, <2>4, <3>1 DEF Board, Closed, Live
    <2>5. ASSUME NEW o \in Orders, o \in work[w].stops PROVE Live(o)' <=> work[w].op \in Forward
      <3>1. work[w].op \in Forward \union Closing \union {"unassign"} /\ Live(o)
        BY <2>1, <2>5 DEF Paying
      <3> QED BY <2>2, <2>5, <3>1 DEF StopAfter, Live, LiveStatuses, Forward, Closing
    <2>6. \A o \in work[w].stops : stop[o].driver = work[w].driver /\ stop'[o].driver = work[w].driver
      BY <1>0, <2>1, <2>2 DEF Agreeing
    <2>7. ASSUME NEW d \in Drivers PROVE Rider(d)' \/ d = work[w].driver
      <3>1. SUFFICES ASSUME d # work[w].driver PROVE Rider(d)' OBVIOUS
      <3>2. \A o \in Orders : stop[o].driver = d \/ stop'[o].driver = d => stop'[o] = stop[o]
        BY <2>3, <2>6, <3>1
      <3>3. LiveStops(d)' = LiveStops(d) BY <3>2, SameStops
      <3>4. Rider(d) BY <2>1 DEF Agreeing
      <3> QED BY <2>1, <3>3, <3>4 DEF Rider
    <2>8. work[w].stops # {} BY <2>1 DEF Agreeing
    <2> QED BY <1>0, <2>1, <2>4, <2>5, <2>6, <2>7, <2>8 DEF Agreeing
  <1>3. CASE WriteOrder(w)
    <2>1. /\ work[w].pc = "order" /\ stop' = stop /\ presence' = presence /\ work[w].open
          /\ work'[w].pc = IF work[w].op = "unassign" THEN "count" ELSE "presence"
          /\ work'[w].driver = work[w].driver /\ work'[w].op = work[w].op
      BY <1>0, <1>3 DEF WriteOrder, GoOn, Handlers, Paying
    <2>2. ASSUME NEW o \in Orders, o \in work[w].stops PROVE order'[o] = OrderAfter(work[w].op)
      BY <1>0, <1>3, <2>1, <2>2 DEF WriteOrder
    <2>3. ASSUME NEW o \in Orders, o \notin work[w].stops PROVE order'[o] = order[o]
      BY <1>0, <1>3, <2>3 DEF WriteOrder
    <2>4. ASSUME NEW o \in Orders PROVE Board(o)' \/ Closed(o)'
      <3>1. CASE o \in work[w].stops
        <4>1. Live(o) <=> work[w].op \in Forward BY <2>1, <3>1 DEF Agreeing
        <4>2. OrderAfter(work[w].op) \in WithDriver <=> work[w].op \in Forward
          BY DEF OrderAfter, WithDriver, Forward
        <4> QED BY <2>1, <2>2, <3>1, <4>1, <4>2 DEF Board, Live
      <3>2. CASE o \notin work[w].stops
        <4>1. Board(o) \/ Closed(o) BY <2>1, <3>2 DEF Agreeing
        <4> QED BY <2>1, <2>3, <3>2, <4>1 DEF Board, Closed, Live
      <3> QED BY <3>1, <3>2
    <2>5. \A d : LiveStops(d)' = LiveStops(d) BY <2>1 DEF LiveStops, Live
    <2>6. ASSUME NEW d \in Drivers PROVE Rider(d)' \/ d = work[w].driver
      <3>1. Rider(d) \/ d = work[w].driver BY <2>1 DEF Agreeing
      <3> QED BY <2>1, <2>5, <3>1 DEF Rider
    <2>7. ASSUME work[w].op \in Forward PROVE LiveStops(work[w].driver) # {}
      <3>1. PICK o \in work[w].stops : TRUE BY <2>1 DEF Agreeing
      <3>2. Live(o) /\ stop[o].driver = work[w].driver BY <2>1, <2>7, <3>1 DEF Agreeing
      <3> QED BY <1>0, <3>2 DEF LiveStops
    <2>8. LiveStops(work[w].driver)' = LiveStops(work[w].driver)
      BY <2>1 DEF LiveStops, Live
    <2> QED BY <2>1, <2>4, <2>6, <2>7, <2>8 DEF Agreeing
  <1>4. CASE WritePresence(w)
    <2>1. /\ work[w].pc = "presence" /\ stop' = stop /\ order' = order
          /\ presence' = [presence EXCEPT ![work[w].driver] =
                             IF work[w].op \in Forward THEN "ON_JOB" ELSE "ONLINE"]
          /\ work'[w].pc = "idle"
      BY <1>0, <1>1, <1>4 DEF WritePresence, Finish, Present
    <2>2. \A o \in Orders : Board(o)' \/ Closed(o)' BY <2>1 DEF Agreeing, Board, Closed, Live
    <2>3. ASSUME NEW d \in Drivers PROVE Rider(d)'
      <3>1. LiveStops(d)' = LiveStops(d) BY <2>1, SameStops
      <3>2. Rider(d) \/ d = work[w].driver BY <2>1 DEF Agreeing
      <3>3. work[w].op \in Forward => LiveStops(work[w].driver) # {} BY <2>1 DEF Agreeing
      <3>4. CASE d = work[w].driver BY <1>0, <2>1, <3>1, <3>3, <3>4 DEF Rider
      <3>5. CASE d # work[w].driver BY <1>0, <2>1, <3>1, <3>2, <3>5 DEF Rider
      <3> QED BY <3>4, <3>5
    <2> QED BY <2>1, <2>2, <2>3 DEF Agreeing
  <1> QED BY <1>2, <1>3, <1>4

LEMMA AgreeUnassign ==
    ASSUME TypeOK, NEW w \in Workers, Paying(w), Agreeing(w),
           UnassignCheck(w) \/ UnassignCount(w)
    PROVE  Agreeing(w)'
  <1>0. work \in [Workers -> Handlers] BY TypeParts DEF WorkType
  <1>1. Idle.pc = "idle" BY DEF Idle, At
  <1>2. stop' = stop /\ order' = order /\ presence' = presence
    BY DEF UnassignCheck, UnassignCount
  <1>3. /\ \A d : Rider(d)' <=> Rider(d)
        /\ \A o : (Board(o)' <=> Board(o)) /\ (Closed(o)' <=> Closed(o))
    BY <1>2 DEF Rider, LiveStops, Board, Closed, Live
  <1>4. CASE UnassignCheck(w)
    <2>1. /\ work[w].pc = "check"
          /\ \/ work'[w] = Idle
             \/ /\ work'[w].pc = "stop" /\ work'[w].stops = work[w].stops
                /\ work'[w].driver = work[w].driver
      BY <1>0, <1>4 DEF UnassignCheck, GoOn, Finish, Handlers
    <2>2. \A o \in Orders : Board(o)' \/ Closed(o)' BY <1>3, <2>1 DEF Agreeing
    <2>3. \A d \in Drivers : Rider(d)' BY <1>3, <2>1 DEF Agreeing
    <2>4. \A o \in work[w].stops : stop'[o].driver = work[w].driver BY <1>2, <2>1 DEF Agreeing
    <2>5. work[w].stops # {} BY <2>1 DEF Agreeing
    <2> QED BY <1>1, <2>1, <2>2, <2>3, <2>4, <2>5 DEF Agreeing
  <1>5. CASE UnassignCount(w)
    <2>1. /\ work[w].pc = "count"
          /\ \/ work'[w] = Idle /\ LiveStops(work[w].driver) # {}
             \/ /\ work'[w].pc = "presence" /\ work'[w].op = work[w].op
                /\ work'[w].driver = work[w].driver
      BY <1>0, <1>5 DEF UnassignCount, GoOn, Finish, Handlers
    <2>2. \A o \in Orders : Board(o)' \/ Closed(o)' BY <1>3, <2>1 DEF Agreeing
    <2>3. \A d \in Drivers : Rider(d)' \/ d = work[w].driver BY <1>3, <2>1 DEF Agreeing
    <2>4. work[w].op \notin Forward BY <2>1 DEF Agreeing, Forward
    <2>5. CASE work'[w] = Idle
      <3>1. LiveStops(work[w].driver) # {} BY <1>1, <2>1, <2>5
      <3>2. \A d \in Drivers : d = work[w].driver => Rider(d) BY <3>1 DEF Rider
      <3>3. \A d \in Drivers : Rider(d)' BY <1>3, <2>3, <3>2
      <3> QED BY <1>1, <2>2, <2>5, <3>3 DEF Agreeing
    <2>6. CASE work'[w].pc = "presence" BY <2>1, <2>2, <2>3, <2>4, <2>6, <1>1 DEF Agreeing
    <2> QED BY <2>1, <2>5, <2>6
  <1> QED BY <1>4, <1>5

\* The settlement ends stops whose order is over, and frees whoever has none left.
LEMMA AgreeSettle ==
    ASSUME TypeOK, NEW w \in Workers, Paying(w), Agreeing(w),
           \/ SettleForOrder(w) \/ SweepTerminalOrders(w) \/ Settle(w)
           \/ Look(w) \/ FreeDriver(w)
    PROVE  Agreeing(w)'
  <1>0. /\ work \in [Workers -> Handlers] /\ work[w].rows \subseteq Rows
        /\ work[w].todo \subseteq Drivers
        /\ stop \in [Orders -> Stops] /\ order \in [Orders -> Statuses]
        /\ presence \in [Drivers -> {"ONLINE", "ON_JOB", "OFFLINE"}]
    BY TypeParts, HandlerType DEF WorkType, StopType, OrderType, PresenceType
  <1>1. Idle.pc = "idle" BY DEF Idle, At
  <1>2. ASSUME NEW rows, Settling(w, rows), work[w].pc \in {"live", "sweep"},
               order' = order, stop' = stop, presence' = presence,
               \A r \in rows : r.driver = stop[r.stop].driver /\ order[r.stop] \in Terminal
        PROVE  Agreeing(w)'
    <2>1. work'[w].pc = "idle" \/ (work'[w].pc = "settle" /\ work'[w].rows = rows)
      BY <1>0, <1>1, <1>2 DEF Settling, Finish, Handlers
    <2>2. /\ \A d : Rider(d)' <=> Rider(d)
          /\ \A o : (Board(o)' <=> Board(o)) /\ (Closed(o)' <=> Closed(o))
      BY <1>2 DEF Rider, LiveStops, Board, Closed, Live
    <2>3. (\A o \in Orders : Board(o) \/ Closed(o)) /\ (\A d \in Drivers : Rider(d))
      BY <1>2 DEF Agreeing
    <2> QED BY <1>2, <2>1, <2>2, <2>3 DEF Agreeing
  <1>3. CASE SettleForOrder(w)
    <2> DEFINE rows == {Row(o, work[w].op) : o \in {p \in work[w].stops : Live(p)}}
    <2>1. Settling(w, rows) /\ work[w].pc = "live" /\ UNCHANGED <<order, stop, presence>>
      BY <1>3 DEF SettleForOrder
    <2>2. \A r \in rows : r.driver = stop[r.stop].driver /\ order[r.stop] \in Terminal
      BY <2>1 DEF Row, Agreeing
    <2> QED BY <1>2, <2>1, <2>2
  <1>4. CASE SweepTerminalOrders(w)
    <2> DEFINE rows == {Row(o, order[o]) : o \in {p \in Orders : Live(p) /\ order[p] \in Terminal}}
    <2>1. Settling(w, rows) /\ work[w].pc = "sweep" /\ UNCHANGED <<order, stop, presence>>
      BY <1>4 DEF SweepTerminalOrders
    <2>2. \A r \in rows : r.driver = stop[r.stop].driver /\ order[r.stop] \in Terminal BY DEF Row
    <2> QED BY <1>2, <2>1, <2>2
  <1>5. CASE Settle(w)
    <2>1. /\ work[w].pc = "settle" /\ order' = order /\ presence' = presence
          /\ work'[w].pc = "look" /\ work'[w].rows = work[w].rows
      BY <1>0, <1>5 DEF Settle, GoOn, Handlers
    <2>2. ASSUME NEW o \in Orders, o \notin Settled(w) PROVE stop'[o] = stop[o]
      BY <1>0, <1>5, <2>2 DEF Settle
    <2>3. ASSUME NEW o \in Orders, o \in Settled(w)
          PROVE  /\ stop'[o].driver = stop[o].driver /\ ~Live(o)'
                 /\ \E r \in work[w].rows : r.stop = o /\ r.driver = stop[o].driver
      <3> DEFINE r == CHOOSE r \in work[w].rows : r.stop = o
      <3>1. r \in work[w].rows /\ r.stop = o BY <2>3 DEF Settled
      <3>2. r.outcome = OutcomeFor(order[o]) BY <2>1, <3>1 DEF Paying
      <3>3. stop'[o] = [stop[o] EXCEPT !.status = r.outcome] BY <1>0, <1>5, <2>3 DEF Settle
      <3>4. r.driver = stop[o].driver BY <2>1, <3>1 DEF Agreeing
      <3>5. r.outcome \notin LiveStatuses BY <3>2 DEF OutcomeFor, LiveStatuses
      <3>6. stop'[o].status = r.outcome /\ stop'[o].driver = stop[o].driver
        BY <1>0, <3>3 DEF Stops
      <3>7. ~Live(o)' BY <3>5, <3>6 DEF Live
      <3> QED BY <3>1, <3>4, <3>6, <3>7
    <2>4. ASSUME NEW o \in Orders PROVE Board(o)'
      <3>1. CASE o \in Settled(w)
        <4>1. PICK r \in work[w].rows : r.stop = o BY <3>1 DEF Settled
        <4>2. order[o] \in Terminal BY <2>1, <4>1 DEF Agreeing
        <4>3. order[o] \notin WithDriver BY <4>2 DEF Terminal, WithDriver
        <4> QED BY <2>1, <2>3, <3>1, <4>3 DEF Board
      <3>2. CASE o \notin Settled(w)
        <4>1. ~Closed(o) BY <2>1, <3>2 DEF Paying
        <4>2. Board(o) BY <2>1, <4>1 DEF Agreeing
        <4> QED BY <2>1, <2>2, <3>2, <4>2 DEF Board, Live
      <3> QED BY <3>1, <3>2
    <2>5. ASSUME NEW d \in Drivers PROVE Rider(d)' \/ \E r \in work[w].rows : r.driver = d
      <3>1. SUFFICES ASSUME \A r \in work[w].rows : r.driver # d PROVE Rider(d)' OBVIOUS
      <3>2. \A o \in Orders : stop[o].driver = d \/ stop'[o].driver = d => stop'[o] = stop[o]
        BY <2>2, <2>3, <3>1
      <3>3. LiveStops(d)' = LiveStops(d) BY <3>2, SameStops
      <3>4. Rider(d) BY <2>1 DEF Agreeing
      <3> QED BY <2>1, <3>3, <3>4 DEF Rider
    <2> QED BY <2>1, <2>4, <2>5 DEF Agreeing
  <1>6. CASE Look(w)
    <2> DEFINE todo == {d \in Drivers : IsFree(d) /\ \E r \in work[w].rows : r.driver = d}
    <2>1. /\ work[w].pc = "look" /\ order' = order /\ stop' = stop /\ presence' = presence
          /\ \/ work'[w].pc = "idle" /\ todo = {}
             \/ work'[w].pc = "free" /\ work'[w].todo = todo
      BY <1>0, <1>1, <1>6 DEF Look, Finish, Handlers
    <2>2. /\ \A d : Rider(d)' <=> Rider(d)
          /\ \A o : (Board(o)' <=> Board(o)) /\ (Closed(o)' <=> Closed(o))
      BY <2>1 DEF Rider, LiveStops, Board, Closed, Live
    <2>3. \A o \in Orders : Board(o)' \/ Closed(o)' BY <2>1, <2>2 DEF Agreeing
    <2>4. \A d \in Drivers : Rider(d)' \/ d \in todo
      BY <2>1, <2>2 DEF Agreeing, Rider, IsFree
    <2> QED BY <2>1, <2>3, <2>4 DEF Agreeing
  <1>7. CASE FreeDriver(w)
    <2>1. PICK d \in work[w].todo :
              /\ Present(d, "ONLINE")
              /\ IF work[w].todo = {d} THEN Finish(w)
                 ELSE work' = [work EXCEPT ![w].todo = @ \ {d}]
      BY <1>7 DEF FreeDriver
    <2>2. stop' = stop /\ order' = order /\ work[w].pc = "free" BY <1>7 DEF FreeDriver
    <2>3. \/ work'[w].pc = "idle" /\ work[w].todo = {d}
          \/ work'[w].pc = "free" /\ work'[w].todo = work[w].todo \ {d}
      BY <1>0, <1>1, <2>1, <2>2 DEF Finish, Handlers
    <2>4. \A o \in Orders : Board(o)' \/ Closed(o)'
      BY <2>2 DEF Agreeing, Board, Closed, Live
    <2>5. ASSUME NEW e \in Drivers PROVE Rider(e)' \/ e \in work[w].todo \ {d}
      <3>1. CASE e = d
        <4>1. presence'[e] = "ONLINE" BY <1>0, <2>1, <3>1 DEF Present
        <4> QED BY <4>1 DEF Rider
      <3>2. CASE e # d
        <4>1. presence'[e] = presence[e] BY <1>0, <2>1, <3>2 DEF Present
        <4>2. LiveStops(e)' = LiveStops(e) BY <2>2, SameStops
        <4>3. Rider(e) \/ e \in work[w].todo BY <2>2 DEF Agreeing
        <4> QED BY <3>2, <4>1, <4>2, <4>3 DEF Rider
      <3> QED BY <3>1, <3>2
    <2> QED BY <2>3, <2>4, <2>5 DEF Agreeing
  <1> QED BY <1>3, <1>4, <1>5, <1>6, <1>7

LEMMA AgreeRequest ==
    ASSUME TypeOK, AllIdle, Paid, Agreed, PayParts', NEW w \in Workers,
           Request(w) \/ \E os \in SUBSET Orders : RollOver(w, os)
    PROVE  AgreeParts'
  <1> USE DEF At
  <1>0. stop \in [Orders -> Stops] /\ order \in [Orders -> Statuses]
    BY TypeParts DEF StopType, OrderType
  <1>1. ASSUME NEW job, NEW kinds, Begin(w, job, kinds), job.pc # "idle", Agreeing(w)'
        PROVE  AgreeParts'
    <2>1. work'[w] = job /\ \A v \in Workers \ {w} : work'[v] = Idle BY <1>1, StartAlone
    <2>2. work'[w] # Idle BY <1>1, <2>1 DEF Idle
    <2>3. Paying(w)' BY <2>2 DEF PayParts
    <2> QED BY <1>1, <2>1, <2>3, AgreePut
  <1>2. ASSUME NEW job, NEW kinds, Begin(w, job, kinds), order' = order, stop' = stop,
               presence' = presence, job.stops # {},
               \/ job.pc = "run"
               \/ job.pc \in {"check", "stop"} /\ \A o \in job.stops : stop[o].driver = job.driver
        PROVE  AgreeParts'
    <2>1. work'[w] = job BY <1>2, StartAlone
    <2>2. \A o \in Orders : Board(o)' BY <1>2 DEF Agreed, BoardAgrees, Board, Live
    <2>3. \A d \in Drivers : Rider(d)' BY <1>2 DEF Agreed, RidersAgree, Rider, LiveStops, Live
    <2>4. Agreeing(w)' BY <1>2, <2>1, <2>2, <2>3 DEF Agreeing
    <2> QED BY <1>1, <1>2, <2>4
  <1>3. ASSUME NEW d \in Drivers, NEW os \in SUBSET Orders, AssignToDriver(w, d, os)
        PROVE  AgreeParts'
    <2>1. /\ Begin(w, At("run", "assign", d, os, TRUE), {}) /\ os # {}
          /\ UNCHANGED <<order, stop, presence>>
      BY <1>3 DEF AssignToDriver
    <2> QED BY <1>2, <2>1
  <1>4. ASSUME NEW d \in Drivers, NEW o \in Orders, NEW a \in Forward \union Closing,
               JobAction(w, d, o, a)
        PROVE  AgreeParts'
    <2>1. /\ Begin(w, At("stop", a, d, {o}, order[o] \notin Terminal), When(~Live(o), "stale"))
          /\ stop[o].driver = d /\ UNCHANGED <<order, stop, presence>>
      BY <1>4 DEF JobAction
    <2> QED BY <1>2, <2>1
  <1>5. ASSUME NEW o \in Orders, Unassign(w, o) PROVE AgreeParts'
    <2>1. /\ Begin(w, At("check", "unassign", stop[o].driver, {o}, Live(o)), {})
          /\ UNCHANGED <<order, stop, presence>>
      BY <1>5 DEF Unassign
    <2> QED BY <1>2, <2>1
  <1>6. ASSUME NEW job, NEW kinds, Begin(w, job, kinds), job.pc \in {"live", "sweep"},
               stop' = stop, presence' = presence,
               \A o \in Orders : order'[o] = order[o] \/ order'[o] \in Terminal,
               job.pc = "live" => \A o \in job.stops : order'[o] \in Terminal
        PROVE  AgreeParts'
    <2>1. work'[w] = job BY <1>6, StartAlone
    <2>2. ASSUME NEW o \in Orders PROVE Board(o)' \/ Closed(o)'
      <3>1. Board(o) BY DEF Agreed, BoardAgrees, Board
      <3>2. \A s \in Terminal : s \notin WithDriver BY DEF Terminal, WithDriver
      <3> QED BY <1>6, <3>1, <3>2 DEF Board, Closed, Live
    <2>3. \A d \in Drivers : Rider(d)' BY <1>6 DEF Agreed, RidersAgree, Rider, LiveStops, Live
    <2>4. Agreeing(w)' BY <1>6, <2>1, <2>2, <2>3 DEF Agreeing
    <2> QED BY <1>1, <1>6, <2>4
  <1>7. ASSUME NEW o \in Orders, NEW e \in Endings, Close(w, o, e) PROVE AgreeParts'
    <2>1. /\ Begin(w, At("live", e, NoDriver, {o}, FALSE), {})
          /\ order' = [order EXCEPT ![o] = e] /\ UNCHANGED <<stop, presence>>
      BY <1>7 DEF Close
    <2>2. e \in Terminal BY DEF Endings, Terminal
    <2> QED BY <1>0, <1>6, <2>1, <2>2
  <1>8. ASSUME NEW os \in SUBSET Orders, RollOver(w, os) PROVE AgreeParts'
    <2>1. /\ Begin(w, At("sweep", "sweep", NoDriver, {}, FALSE), {})
          /\ order' = [o \in Orders |-> IF o \in os THEN "COMPLETED" ELSE order[o]]
          /\ UNCHANGED <<stop, presence>>
      BY <1>8 DEF RollOver
    <2>2. "COMPLETED" \in Terminal BY DEF Terminal
    <2> QED BY <1>0, <1>6, <2>1, <2>2
  <1> QED BY <1>3, <1>4, <1>5, <1>7, <1>8 DEF Request

LEMMA AgreeShift ==
    ASSUME TypeOK, AllIdle, Agreed, NEW d \in Drivers, GoOnline(d) \/ GoOffline(d)
    PROVE  AgreeParts'
  <1>0. presence \in [Drivers -> {"ONLINE", "ON_JOB", "OFFLINE"}] BY TypeParts DEF PresenceType
  <1>1. /\ work' = work /\ stop' = stop /\ order' = order
        /\ presence' = [presence EXCEPT ![d] = "ONLINE"] \/ presence' = [presence EXCEPT ![d] = "OFFLINE"]
    BY DEF GoOnline, GoOffline, Present
  <1>2. BoardAgrees' BY <1>1 DEF Agreed, BoardAgrees, Live
  <1>3. ASSUME NEW e \in Drivers PROVE Rider(e)'
    <2>1. LiveStops(e)' = LiveStops(e) BY <1>1, SameStops
    <2>2. Rider(e) BY DEF Agreed, RidersAgree, Rider
    <2> QED BY <1>0, <1>1, <2>1, <2>2 DEF Rider
  <1>4. RidersAgree' BY <1>3 DEF RidersAgree, Rider
  <1> QED BY <1>1, <1>2, <1>4 DEF AgreeParts, Agreed, AllIdle

LEMMA AgreeStep ==
    ASSUME TypeOK, FinishedInv, PayInv, AgreeInv, [Next]_vars
    PROVE  AgreeInv'
  <1>1. CASE UNCHANGED vars
    BY <1>1 DEF vars, AgreeInv, AgreeParts, Agreed, AllIdle, BoardAgrees, RidersAgree,
       Agreeing, Board, Rider, Closed, LiveStops, Live
  <1>2. CASE Next
    <2>1. SUFFICES ASSUME faults'.kinds = {} PROVE AgreeParts' BY DEF AgreeInv
    <2>2. faults.kinds = {} /\ Calm /\ Calm' /\ Pushed /\ Pushed'
      BY <1>2, <2>1, KindsGrow DEF Pushed, Calm
    <2>3. Single /\ Reads /\ PayParts /\ AgreeParts BY <2>2 DEF FinishedInv, PayInv, AgreeInv
    <2>4. PayParts' BY <1>2, <2>2, PayStep DEF PayInv
    <2>5. ASSUME NEW w \in Workers, Step(w) PROVE AgreeParts'
      <3>1. work[w] # Idle /\ \A v \in Workers \ {w} : work'[v] = Idle BY <2>3, <2>5, OthersIdle
      <3>2. Paying(w) /\ Agreeing(w) BY <2>3, <3>1 DEF PayParts, AgreeParts
      <3>3. Paying(w)' BY <2>3, <2>5, <3>2, PayAssign, PayWrite, PaySettle DEF Step
      <3>4. Agreeing(w)'
        BY <2>3, <2>5, <3>2, AgreeAssign, AgreeWrite, AgreeUnassign, AgreeSettle DEF Step
      <3> QED BY <3>1, <3>3, <3>4, AgreePut
    <2>6. \A w \in Workers : ~Crash(w) BY <2>1, CrashNoted
    <2>7. \A o \in Orders, s \in {"READY", "OUT_FOR_DELIVERY"} : ~Push(o, s)
      <3>1. SUFFICES ASSUME Happen({"push"} \union Overlap) PROVE FALSE BY DEF Push
      <3>2. FaultsType /\ {"push"} \union Overlap \in SUBSET AllFaults BY TypeParts, OverlapType
      <3>3. "push" \in faults'.kinds BY <3>1, <3>2, HappenType
      <3> QED BY <2>1, <3>3
    <2>8. CASE \/ \E w \in Workers : Request(w) \/ \E os \in SUBSET Orders : RollOver(w, os)
               \/ \E d \in Drivers : GoOnline(d) \/ GoOffline(d)
      <3>1. AllIdle BY <2>2, <2>8, StartsIdle
      <3>2. Paid /\ Agreed BY <2>3, <3>1 DEF PayParts, AgreeParts
      <3> QED BY <2>4, <2>8, <3>1, <3>2, AgreeRequest, AgreeShift
    <2> QED BY <1>2, <2>5, <2>6, <2>7, <2>8 DEF Next
  <1> QED BY <1>1, <1>2

\* Between requests that come one at a time order, stop and driver agree, whoever
\* ends the delivery, and pay stays right when staff move orders about.
THEOREM AgreesCorrect == Spec => []DispatchAgrees
  <1>1. Init => FinishedInv /\ PayInv /\ AgreeInv
    <2>1. SUFFICES ASSUME Init PROVE FinishedInv /\ PayInv /\ AgreeInv OBVIOUS
    <2>2. FinishedInv BY <2>1 DEF Init, FinishedInv, Single, Reads, Idle, At
    <2>3. AllIdle BY <2>1 DEF Init, AllIdle
    <2>4. \A o \in Orders : ~Live(o) /\ order[o] = "READY" /\ stop[o].status = "none"
      BY <2>1 DEF Init, Live, LiveStatuses
    <2>5. PayInv BY <2>3, <2>4 DEF PayInv, PayParts, Paid, Pay, Closed, AllIdle
    <2>6. BoardAgrees BY <2>4 DEF BoardAgrees, WithDriver
    <2>7. RidersAgree BY <2>1 DEF Init, RidersAgree
    <2>8. AgreeInv BY <2>3, <2>6, <2>7 DEF AgreeInv, AgreeParts, Agreed, AllIdle
    <2> QED BY <2>2, <2>5, <2>8
  <1>2. PayInv /\ AgreeInv => DispatchAgrees
    BY DEF PayInv, Pushed, PayParts, Paid, Pay, AgreeInv, AgreeParts, Agreed, DispatchAgrees, PayAgrees
  <1> QED BY <1>1, <1>2, FinishedStep, PayStep, AgreeStep, DriverTypeCorrect, PTL DEF Spec

-----------------------------------------------------------------------------
(* What the sweep is owed *)

\* The sweep of w is going to settle o's stop.
InSweep(w, o) ==
    \/ work[w].pc = "sweep"
    \/ work[w].pc = "settle" /\ o \in Settled(w)

\* What a settlement is about to write ends a stop.
Outcomes == \A w \in Workers : \A r \in work[w].rows : r.outcome \notin LiveStatuses

\* However requests overlap, a sweep that is under way settles every stop whose
\* order is over, in the two statements it has itself: no other handler takes one
\* from its list, and only its own death keeps a stop stranded.
SweepSettles ==
    [][\A w \in Workers, o \in Orders :
           InSweep(w, o) /\ Stranded(o) /\ Stranded(o)'
               => \/ Crash(w)
                  \/ /\ InSweep(w, o)'
                     /\ work'[w] # work[w] => work[w].pc = "sweep" /\ work'[w].pc = "settle"]_vars

\* A handler is put in another's place, or starts or ends with nothing to settle.
LEMMA OutcomesPut ==
    ASSUME TypeOK, Outcomes, NEW w \in Workers, NEW h, work' = [work EXCEPT ![w] = h],
           \A r \in h.rows : r.outcome \notin LiveStatuses
    PROVE  Outcomes'
  <1>1. work \in [Workers -> Handlers] BY TypeParts DEF WorkType
  <1>2. \A v \in Workers : work'[v] = IF v = w THEN h ELSE work[v] BY <1>1
  <1> QED BY <1>2 DEF Outcomes

LEMMA OutcomesMove ==
    ASSUME TypeOK, Outcomes, NEW w \in Workers
    PROVE  /\ \A pc : GoOn(w, pc) => Outcomes'
           /\ Finish(w) => Outcomes'
           /\ \A pc, op, d, os, open, kinds : Begin(w, At(pc, op, d, os, open), kinds) => Outcomes'
           /\ \A rows : Settling(w, rows) /\ (\A r \in rows : r.outcome \notin LiveStatuses)
                  => Outcomes'
  <1>0. WorkType BY TypeParts
  <1>1. ASSUME NEW pc, GoOn(w, pc) PROVE Outcomes'
    <2>1. work' = [work EXCEPT ![w] = [work[w] EXCEPT !.pc = pc]] BY <1>1 DEF GoOn
    <2>2. [work[w] EXCEPT !.pc = pc].rows = work[w].rows BY <1>0, HandlerType DEF Handlers
    <2>3. \A r \in work[w].rows : r.outcome \notin LiveStatuses BY DEF Outcomes
    <2> QED BY <2>1, <2>2, <2>3, OutcomesPut
  <1>2. ASSUME Finish(w) PROVE Outcomes'
    <2>1. Idle.rows = {} BY DEF Idle, At
    <2> QED BY <1>2, <2>1, OutcomesPut DEF Finish
  <1>3. ASSUME NEW pc, NEW op, NEW d, NEW os, NEW open, NEW kinds,
               Begin(w, At(pc, op, d, os, open), kinds)
        PROVE  Outcomes'
    <2>1. At(pc, op, d, os, open).rows = {} BY DEF At
    <2> QED BY <1>3, <2>1, OutcomesPut DEF Begin
  <1>4. ASSUME NEW rows, Settling(w, rows), \A r \in rows : r.outcome \notin LiveStatuses,
               rows # {}
        PROVE  Outcomes'
    <2>1. work' = [work EXCEPT ![w] = [work[w] EXCEPT !.pc = "settle", !.rows = rows]]
      BY <1>4 DEF Settling
    <2>2. [work[w] EXCEPT !.pc = "settle", !.rows = rows].rows = rows
      BY <1>0, HandlerType DEF Handlers
    <2> QED BY <1>4, <2>1, <2>2, OutcomesPut
  <1> QED BY <1>1, <1>2, <1>3, <1>4 DEF Settling

LEMMA OutcomesStep == ASSUME TypeOK, Outcomes, [Next]_vars PROVE Outcomes'
  <1>0. WorkType BY TypeParts
  <1>1. \A s : OutcomeFor(s) \notin LiveStatuses BY DEF OutcomeFor, LiveStatuses
  <1>2. ASSUME NEW w \in Workers, Request(w) \/ \E os \in SUBSET Orders : RollOver(w, os)
        PROVE  Outcomes'
    <2>1. \E pc, op, d, os, open, kinds : Begin(w, At(pc, op, d, os, open), kinds)
      BY <1>2 DEF Request, RollOver, AssignToDriver, JobAction, Unassign, Close
    <2> QED BY <2>1, OutcomesMove
  <1>3. ASSUME NEW w \in Workers,
               \/ AssignRun(w) \/ AssignBusy(w) \/ UnassignCheck(w) \/ UnassignCount(w)
               \/ WriteStop(w) \/ WriteOrder(w) \/ WritePresence(w) \/ Settle(w) \/ Crash(w)
        PROVE  Outcomes'
    <2>1. Finish(w) \/ \E pc : GoOn(w, pc)
      BY <1>3 DEF AssignRun, AssignBusy, UnassignCheck, UnassignCount, WriteStop, WriteOrder,
         WritePresence, Settle, Crash
    <2> QED BY <2>1, OutcomesMove
  <1>4. ASSUME NEW w \in Workers, SettleForOrder(w) \/ SweepTerminalOrders(w) PROVE Outcomes'
    <2>1. PICK rows : Settling(w, rows) /\ \A r \in rows : \E o, s : r = Row(o, s)
      <3>1. CASE SettleForOrder(w)
        <4> DEFINE rows == {Row(o, work[w].op) : o \in {p \in work[w].stops : Live(p)}}
        <4>1. Settling(w, rows) BY <3>1 DEF SettleForOrder
        <4>2. \A r \in rows : \E o, s : r = Row(o, s) OBVIOUS
        <4> QED BY <4>1, <4>2
      <3>2. CASE SweepTerminalOrders(w)
        <4> DEFINE rows == {Row(o, order[o]) : o \in {p \in Orders : Live(p) /\ order[p] \in Terminal}}
        <4>1. Settling(w, rows) BY <3>2 DEF SweepTerminalOrders
        <4>2. \A r \in rows : \E o, s : r = Row(o, s) OBVIOUS
        <4> QED BY <4>1, <4>2
      <3> QED BY <1>4, <3>1, <3>2
    <2>2. \A r \in rows : r.outcome \notin LiveStatuses BY <1>1, <2>1 DEF Row
    <2> QED BY <2>1, <2>2, OutcomesMove
  <1>5. ASSUME NEW w \in Workers, Look(w) PROVE Outcomes'
    <2>1. Finish(w) \/ \E todo : work' = [work EXCEPT ![w] = [work[w] EXCEPT !.pc = "free", !.todo = todo]]
      BY <1>5 DEF Look
    <2>2. \A todo : [work[w] EXCEPT !.pc = "free", !.todo = todo].rows = work[w].rows
      BY <1>0, HandlerType DEF Handlers
    <2>3. \A r \in work[w].rows : r.outcome \notin LiveStatuses BY DEF Outcomes
    <2> QED BY <2>1, <2>2, <2>3, OutcomesMove, OutcomesPut
  <1>6. ASSUME NEW w \in Workers, FreeDriver(w) PROVE Outcomes'
    <2>1. Finish(w) \/ \E todo : work' = [work EXCEPT ![w] = [work[w] EXCEPT !.todo = todo]]
      BY <1>6 DEF FreeDriver
    <2>2. \A todo : [work[w] EXCEPT !.todo = todo].rows = work[w].rows
      BY <1>0, HandlerType DEF Handlers
    <2>3. \A r \in work[w].rows : r.outcome \notin LiveStatuses BY DEF Outcomes
    <2> QED BY <2>1, <2>2, <2>3, OutcomesMove, OutcomesPut
  <1>7. ASSUME \/ \E d \in Drivers : GoOnline(d) \/ GoOffline(d)
               \/ \E o \in Orders, s \in {"READY", "OUT_FOR_DELIVERY"} : Push(o, s)
               \/ UNCHANGED vars
        PROVE  Outcomes'
    BY <1>7 DEF GoOnline, GoOffline, Push, vars, Outcomes
  <1> QED BY <1>2, <1>3, <1>4, <1>5, <1>6, <1>7 DEF Next, Step

\* A step moves one handler, or none.
LEMMA OneMoves ==
    ASSUME TypeOK, [Next]_vars, NEW w \in Workers, work'[w] # work[w]
    PROVE  \/ Request(w) \/ Step(w) \/ Crash(w)
           \/ \E os \in SUBSET Orders : RollOver(w, os)
  <1>0. work \in [Workers -> Handlers] BY TypeParts DEF WorkType
  <1>1. ASSUME NEW v \in Workers, v # w, Request(v) \/ \E os \in SUBSET Orders : RollOver(v, os)
        PROVE  FALSE
    <2>1. \E job, kinds : Begin(v, job, kinds)
      BY <1>1 DEF Request, RollOver, AssignToDriver, JobAction, Unassign, Close
    <2> QED BY <1>0, <1>1, <2>1 DEF Begin
  <1>2. ASSUME NEW v \in Workers, v # w, Step(v) \/ Crash(v) PROVE FALSE
    BY <1>0, <1>2 DEF Step, Crash, AssignRun, AssignBusy, UnassignCheck, UnassignCount, WriteStop,
       WriteOrder, WritePresence, SettleForOrder, SweepTerminalOrders, Settling, Settle, Look,
       FreeDriver, GoOn, Finish
  <1>3. ASSUME \/ \E d \in Drivers : GoOnline(d) \/ GoOffline(d)
               \/ \E o \in Orders, s \in {"READY", "OUT_FOR_DELIVERY"} : Push(o, s)
               \/ UNCHANGED vars
        PROVE  FALSE
    BY <1>3 DEF GoOnline, GoOffline, Push, vars
  <1> QED BY <1>1, <1>2, <1>3 DEF Next

LEMMA SweepStep ==
    ASSUME TypeOK, Outcomes, [Next]_vars, NEW w \in Workers, NEW o \in Orders,
           InSweep(w, o), Stranded(o), Stranded(o)', ~Crash(w)
    PROVE  /\ InSweep(w, o)'
           /\ work'[w] # work[w] => work[w].pc = "sweep" /\ work'[w].pc = "settle"
  <1>0. work \in [Workers -> Handlers] /\ stop \in [Orders -> Stops] /\ work[w] \in Handlers
    BY TypeParts, HandlerType DEF WorkType, StopType
  <1>1. CASE work'[w] = work[w] BY <1>1 DEF InSweep, Settled
  <1>2. CASE work'[w] # work[w]
    <2>1. work[w].pc \in {"sweep", "settle"} /\ work[w] # Idle BY DEF InSweep, Idle, At
    <2>2. ~Request(w) /\ \A os \in SUBSET Orders : ~RollOver(w, os)
      BY <2>1 DEF Request, RollOver, AssignToDriver, JobAction, Unassign, Close, Begin
    <2>3. Step(w) BY <1>2, <2>2, OneMoves
    <2>4. SweepTerminalOrders(w) \/ Settle(w)
      BY <2>1, <2>3
      DEF Step, AssignRun, AssignBusy, UnassignCheck, UnassignCount, WriteStop, WriteOrder,
          WritePresence, SettleForOrder, Look, FreeDriver
    <2>5. CASE SweepTerminalOrders(w)
      <3> DEFINE rows == {Row(p, order[p]) : p \in {q \in Orders : Live(q) /\ order[q] \in Terminal}}
      <3>1. Row(o, order[o]) \in rows BY DEF Stranded
      <3>2. work' = [work EXCEPT ![w] = [work[w] EXCEPT !.pc = "settle", !.rows = rows]]
        BY <2>5, <3>1 DEF SweepTerminalOrders, Settling
      <3>3. work'[w].pc = "settle" /\ work'[w].rows = rows BY <1>0, <3>2 DEF Handlers
      <3>4. Row(o, order[o]).stop = o BY DEF Row
      <3>5. o \in Settled(w)' BY <3>1, <3>3, <3>4 DEF Settled
      <3> QED BY <2>5, <3>3, <3>5 DEF InSweep, SweepTerminalOrders
    <2>6. CASE Settle(w)
      <3> DEFINE r == CHOOSE x \in work[w].rows : x.stop = o
      <3>1. o \in Settled(w) BY <2>6 DEF InSweep, Settle
      <3>2. r \in work[w].rows BY <3>1 DEF Settled
      <3>3. r.outcome \notin LiveStatuses BY <3>2 DEF Outcomes
      <3>4. stop'[o] = [stop[o] EXCEPT !.status = r.outcome] BY <2>6, <3>1 DEF Settle
      <3>5. stop'[o].status = r.outcome BY <1>0, <3>4 DEF Stops
      <3> QED BY <3>3, <3>5 DEF Stranded, Live
    <2> QED BY <2>4, <2>5, <2>6
  <1> QED BY <1>1, <1>2

\* A sweep under way settles every stop whose order is over, for any overlap.
THEOREM SweepCorrect == Spec => SweepSettles
  <1>1. Init => Outcomes BY DEF Init, Outcomes, Idle, At
  <1>2. TypeOK /\ Outcomes /\ [Next]_vars => Outcomes' BY OutcomesStep
  <1>3. TypeOK /\ Outcomes /\ [Next]_vars =>
            [\A w \in Workers, o \in Orders :
                 InSweep(w, o) /\ Stranded(o) /\ Stranded(o)'
                     => \/ Crash(w)
                        \/ /\ InSweep(w, o)'
                           /\ work'[w] # work[w] =>
                                  work[w].pc = "sweep" /\ work'[w].pc = "settle"]_vars
    BY SweepStep
  <1> QED BY <1>1, <1>2, <1>3, DriverTypeCorrect, PTL DEF Spec, SweepSettles

\* Between requests that come one at a time no stop is left behind by its order,
\* however staff and marketplaces move the orders: the sweep is for what overlaps
\* and for processes that die.
NothingStranded == AllIdle /\ Pushed => \A o \in Orders : ~Stranded(o)

\* No delivery that came to its end one request at a time needs the sweep.
THEOREM StrandedCorrect == Spec => []NothingStranded
  <1>1. ASSUME Init PROVE FinishedInv /\ PayInv
    <2>1. FinishedInv BY <1>1 DEF Init, FinishedInv, Single, Reads, Idle, At
    <2>2. AllIdle BY <1>1 DEF Init, AllIdle
    <2>3. \A o \in Orders : ~Live(o) /\ stop[o].status = "none"
      BY <1>1 DEF Init, Live, LiveStatuses
    <2>4. PayInv BY <2>2, <2>3 DEF PayInv, PayParts, Paid, Pay, Closed, AllIdle
    <2> QED BY <2>1, <2>4
  <1>2. PayInv => NothingStranded
    BY DEF PayInv, PayParts, Paid, Closed, NothingStranded, Stranded
  <1> QED BY <1>1, <1>2, FinishedStep, PayStep, DriverTypeCorrect, PTL DEF Spec
=============================================================================
