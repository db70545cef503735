------------------------- MODULE AutoDispatchProofs -------------------------
(***************************************************************************)
(* What holds of AutoDispatch for any providers, any number of processes   *)
(* and attempts and any faults: ticks that die nowhere but between a       *)
(* booking and the write that follows it never send two couriers; and when *)
(* nothing is under way, the run and the wallet agree with what was booked.*)
(* And whatever fails: a run that ended is written over only by a process  *)
(* that took it back too late, and tried no oftener than AttemptsBounded   *)
(* allows.                                                                 *)
(***************************************************************************)
EXTENDS AutoDispatch, FiniteSetTheorems, TLAPS

\* The step of the system, one disjunct per action.
LEMMA NextStep ==
    ASSUME Next
    PROVE  \/ \E w \in Workers : Tick(w) \/ Step(w) \/ Fault(w) \/ Staff(w)
           \/ TakeBack \/ Close
           \/ \E r \in {"on", "dry", "off"} : UpdateRule(r)
  BY Zenon DEF Next

FaultLog == [n : Nat, kinds : SUBSET AllFaults]

RowsType ==
    /\ order \in [open : BOOLEAN, own : BOOLEAN, courier : Providers \union {NoProvider}]
    /\ rule \in {"on", "dry", "off", "deleted"}
    /\ run \in [status : RunStatuses, attempts : Nat]
    /\ booked \in [Bookers -> Nat]
    /\ fees \in Int

WorkType == work \in [Workers -> Handlers]
FaultsType == faults \in FaultLog

LEMMA TypeParts == TypeOK <=> RowsType /\ WorkType /\ FaultsType
  BY DEF TypeOK, RowsType, WorkType, FaultsType, FaultLog

LEMMA TypePartsNext == TypeOK' <=> RowsType' /\ WorkType' /\ FaultsType'
  BY DEF TypeOK, RowsType, WorkType, FaultsType, FaultLog

LEMMA HappenType ==
    ASSUME FaultsType, NEW kinds \in SUBSET AllFaults, Happen(kinds)
    PROVE  FaultsType' /\ faults'.kinds = faults.kinds \union kinds
  <1>1. CASE kinds = {} BY <1>1 DEF Happen, FaultsType
  <1>2. CASE kinds # {}
    <2>0. kinds \subseteq Faults BY <1>2 DEF Happen
    <2>1. Cardinality(kinds) \in Nat
      BY <2>0, FaultsAssumption, FS_Subset, FS_CardinalityType
    <2>2. faults' = [n |-> faults.n + Cardinality(kinds), kinds |-> faults.kinds \union kinds]
      BY <1>2 DEF Happen, FaultsType, FaultLog
    <2> QED BY <2>1, <2>2 DEF FaultsType, FaultLog
  <1> QED BY <1>1, <1>2

LEMMA HandlerType ==
    ASSUME WorkType, NEW w \in Workers
    PROVE  /\ work[w] \in Handlers
           /\ work[w].pc \in Places /\ work[w].by \in Bookers /\ work[w].seen \in Nat
           /\ work[w].left \in SUBSET Providers
           /\ work[w].provider \in Providers \union {NoProvider}
           /\ work[w].result \in RunStatuses
  BY DEF WorkType, Handlers

LEMMA PutType ==
    ASSUME WorkType, NEW w \in Workers, NEW h \in Handlers, work' = [work EXCEPT ![w] = h]
    PROVE  WorkType'
  BY DEF WorkType

\* How a handler goes on, and to what.
LEMMA MoveType ==
    ASSUME WorkType, NEW w \in Workers
    PROVE  /\ \A pc \in Places : GoOn(w, pc) => WorkType'
           /\ \A pc \in Places : Turn(w, pc) => WorkType'
           /\ \A result \in RunStatuses : EndWith(w, result) => WorkType'
           /\ Stop(w) => WorkType'
           /\ Refused(w) => WorkType'
  <1>0. USE HandlerType DEF Places, Engaged
  <1>1. ASSUME NEW pc \in Places, GoOn(w, pc) PROVE WorkType'
    <2>1. work' = [work EXCEPT ![w] = [work[w] EXCEPT !.pc = pc]] BY <1>1 DEF GoOn
    <2>2. [work[w] EXCEPT !.pc = pc] \in Handlers BY DEF Handlers
    <2> QED BY <2>1, <2>2, PutType
  <1>2. ASSUME NEW pc \in Places, Turn(w, pc) PROVE WorkType'
    <2>1. work' = [work EXCEPT ![w] = [work[w] EXCEPT !.pc = pc, !.provider = NoProvider]]
      BY <1>2 DEF Turn
    <2>2. [work[w] EXCEPT !.pc = pc, !.provider = NoProvider] \in Handlers BY DEF Handlers
    <2> QED BY <2>1, <2>2, PutType
  <1>3. ASSUME NEW result \in RunStatuses, EndWith(w, result) PROVE WorkType'
    <2>1. work' = [work EXCEPT ![w] = [work[w] EXCEPT !.pc = "finish", !.result = result,
                                                      !.provider = NoProvider]]
      BY <1>3 DEF EndWith
    <2>2. [work[w] EXCEPT !.pc = "finish", !.result = result, !.provider = NoProvider] \in Handlers
      BY DEF Handlers
    <2> QED BY <2>1, <2>2, PutType
  <1>4. ASSUME Stop(w) PROVE WorkType'
    <2>1. Idle \in Handlers BY DEF Idle, Handlers, Bookers, RunStatuses
    <2> QED BY <1>4, <2>1, PutType DEF Stop
  <1>5. Refused(w) => WorkType' BY <1>2, <1>4 DEF Refused
  <1> QED BY <1>1, <1>2, <1>3, <1>4, <1>5

\* And with more than its place changed.
LEMMA ResetType ==
    ASSUME WorkType, NEW w \in Workers, NEW pc \in {"new", "try"},
           work' = [work EXCEPT ![w].pc = pc, ![w].result = "none"]
    PROVE  WorkType'
  <1>1. pc \in Places /\ "none" \in RunStatuses BY DEF Places, Engaged, RunStatuses
  <1>2. work' = [work EXCEPT ![w] = [work[w] EXCEPT !.pc = pc, !.result = "none"]] OBVIOUS
  <1>3. [work[w] EXCEPT !.pc = pc, !.result = "none"] \in Handlers
    BY <1>1, HandlerType DEF Handlers
  <1> QED BY <1>2, <1>3, PutType

LEMMA SeenType ==
    ASSUME WorkType, NEW w \in Workers, NEW pc \in {"claim", "execute"}, NEW n \in Nat,
           work' = [work EXCEPT ![w].pc = pc, ![w].seen = n]
    PROVE  WorkType'
  <1>1. pc \in Places BY DEF Places, Engaged
  <1>2. work' = [work EXCEPT ![w] = [work[w] EXCEPT !.pc = pc, !.seen = n]] OBVIOUS
  <1>3. [work[w] EXCEPT !.pc = pc, !.seen = n] \in Handlers BY <1>1, HandlerType DEF Handlers
  <1> QED BY <1>2, <1>3, PutType

LEMMA TriesType ==
    ASSUME WorkType, NEW w \in Workers, NEW tries \in SUBSET Providers,
           \/ work' = [work EXCEPT ![w].pc = "try", ![w].left = tries]
           \/ work' = [work EXCEPT ![w].left = tries]
    PROVE  WorkType'
  <1>1. "try" \in Places BY DEF Places, Engaged
  <1>2. [work[w] EXCEPT !.left = tries] \in Handlers BY HandlerType DEF Handlers
  <1>3. [work[w] EXCEPT !.pc = "try", !.left = tries] \in Handlers
    BY <1>1, HandlerType DEF Handlers
  <1>4. \/ work' = [work EXCEPT ![w] = [work[w] EXCEPT !.pc = "try", !.left = tries]]
        \/ work' = [work EXCEPT ![w] = [work[w] EXCEPT !.left = tries]]
    OBVIOUS
  <1> QED BY <1>2, <1>3, <1>4, PutType

LEMMA DebitType ==
    ASSUME WorkType, NEW w \in Workers, NEW tries \in SUBSET Providers, NEW p \in Providers,
           work' = [work EXCEPT ![w].pc = "debit", ![w].provider = p, ![w].left = tries]
    PROVE  WorkType'
  <1>1. "debit" \in Places BY DEF Places, Engaged
  <1>2. work' = [work EXCEPT ![w] = [work[w] EXCEPT !.pc = "debit", !.provider = p,
                                                    !.left = tries]]
    OBVIOUS
  <1>3. [work[w] EXCEPT !.pc = "debit", !.provider = p, !.left = tries] \in Handlers
    BY <1>1, HandlerType DEF Handlers
  <1> QED BY <1>2, <1>3, PutType
-----------------------------------------------------------------------------
(* Type correctness *)

LEMMA TickType == ASSUME TypeOK, NEW w \in Workers, Tick(w) PROVE TypeOK'
  <1>0. RowsType /\ WorkType /\ FaultsType BY TypeParts
  <1>1. PICK result \in {"none", "DISPATCHED", "SCHEDULED"}, kinds \in SUBSET AllFaults :
            BeginTick(w, result, kinds)
    BY Zenon DEF Tick, Verdict, When, AllFaults
  <1>2. RowsType' BY <1>0, <1>1 DEF BeginTick, RowsType
  <1>3. [Idle EXCEPT !.pc = IF result = "none" THEN "new" ELSE "reclaim", !.result = result]
            \in Handlers
    BY DEF Idle, Handlers, Bookers, RunStatuses, Live, Places, Engaged
  <1>4. WorkType' BY <1>0, <1>1, <1>3, PutType DEF BeginTick
  <1>5. FaultsType' BY <1>0, <1>1, HappenType DEF BeginTick, When, AllFaults
  <1> QED BY <1>2, <1>4, <1>5, TypePartsNext

LEMMA RunTypeStep ==
    ASSUME TypeOK, NEW w \in Workers,
           Reclaim(w) \/ ScheduleNew(w) \/ Create(w) \/ RunDue(w) \/ Claim(w)
    PROVE  TypeOK'
  <1>0. RowsType /\ WorkType /\ FaultsType BY TypeParts
  <1> USE <1>0, HandlerType DEF RowsType, SetRun, RunStatuses, Live, Places, Engaged
  <1>1. ASSUME Reclaim(w) PROVE TypeOK'
    <2>1. RowsType' BY <1>1 DEF Reclaim
    <2>3. WorkType' BY <1>1, ResetType DEF Reclaim
    <2>4. FaultsType' BY <1>1 DEF Reclaim, Note, When, FaultsType, FaultLog, AllFaults
    <2> QED BY <2>1, <2>3, <2>4, TypePartsNext
  <1>2. ASSUME ScheduleNew(w) PROVE TypeOK'
    <2>1. RowsType' /\ FaultsType' BY <1>2 DEF ScheduleNew, FaultsType
    <2>2. WorkType' BY <1>2, MoveType DEF ScheduleNew
    <2> QED BY <2>1, <2>2, TypePartsNext
  <1>3. ASSUME Create(w) PROVE TypeOK'
    <2>1. RowsType' /\ FaultsType' BY <1>3 DEF Create, FaultsType
    <2>2. WorkType' BY <1>3, MoveType DEF Create
    <2> QED BY <2>1, <2>2, TypePartsNext
  <1>4. ASSUME RunDue(w) PROVE TypeOK'
    <2>1. RowsType' /\ FaultsType' BY <1>4 DEF RunDue, FaultsType
    <2>2. ASSUME run.status = "SCHEDULED" PROVE WorkType'
      <3>1. work' = [work EXCEPT ![w].pc = "claim", ![w].seen = run.attempts]
        BY <1>4, <2>2 DEF RunDue
      <3>2. run.attempts \in Nat OBVIOUS
      <3> QED BY <3>1, <3>2, SeenType
    <2>3. WorkType' BY <1>4, <2>2, MoveType DEF RunDue
    <2> QED BY <2>1, <2>3, TypePartsNext
  <1>5. ASSUME Claim(w) PROVE TypeOK'
    <2>1. RowsType' /\ FaultsType' BY <1>5 DEF Claim, ClaimIt, FaultsType
    <2>2. ASSUME run.status = "SCHEDULED" PROVE WorkType'
      <3>1. work' = [work EXCEPT ![w].pc = "execute", ![w].seen = work[w].seen + 1]
        BY <1>5, <2>2 DEF Claim, ClaimIt
      <3>2. work[w].seen + 1 \in Nat OBVIOUS
      <3> QED BY <3>1, <3>2, SeenType
    <2>3. WorkType' BY <1>5, <2>2, MoveType DEF Claim
    <2> QED BY <2>1, <2>3, TypePartsNext
  <1> QED BY <1>1, <1>2, <1>3, <1>4, <1>5

LEMMA ExecuteTypeStep ==
    ASSUME TypeOK, NEW w \in Workers, Execute(w) \/ Try(w) \/ Retry(w) \/ Finish(w)
    PROVE  TypeOK'
  <1>0. RowsType /\ WorkType /\ FaultsType BY TypeParts
  <1> USE <1>0, HandlerType DEF RowsType, SetRun, RunStatuses, Live, Places, Engaged
  <1>1. ASSUME Execute(w) PROVE TypeOK'
    <2>1. RowsType' /\ FaultsType' BY <1>1 DEF Execute, FaultsType
    <2>2. CASE rule \in {"off", "deleted"} \/ ~Eligible
      BY <1>1, <2>1, <2>2, MoveType, TypePartsNext DEF Execute
    <2>3. CASE ~(rule \in {"off", "deleted"} \/ ~Eligible)
      <3>1. PICK tries \in SUBSET Providers :
                IF tries # {} /\ rule = "dry" THEN EndWith(w, "DRY_RUN")
                ELSE work' = [work EXCEPT ![w].pc = "try", ![w].left = tries]
        BY <1>1, <2>3 DEF Execute
      <3>2. WorkType' BY <3>1, MoveType, TriesType
      <3> QED BY <2>1, <3>2, TypePartsNext
    <2> QED BY <2>2, <2>3
  <1>2. ASSUME Try(w) PROVE TypeOK'
    <2>1. RowsType' /\ FaultsType' BY <1>2 DEF Try, FaultsType
    <2>2. CASE work[w].left = {} BY <1>2, <2>1, <2>2, MoveType, TypePartsNext DEF Try
    <2>3. CASE work[w].left # {}
      <3>1. PICK p \in work[w].left :
                work' = IF order.courier = p THEN [work EXCEPT ![w].left = @ \ {p}]
                        ELSE [work EXCEPT ![w].pc = "debit", ![w].provider = p,
                                          ![w].left = @ \ {p}]
        BY <1>2, <2>3 DEF Try
      <3>2. work[w].left \ {p} \in SUBSET Providers /\ p \in Providers OBVIOUS
      <3>3. ASSUME order.courier = p PROVE WorkType'
        <4>1. work' = [work EXCEPT ![w].left = work[w].left \ {p}] BY <3>1, <3>3
        <4> QED BY <3>2, <4>1, TriesType
      <3>4. ASSUME order.courier # p PROVE WorkType'
        <4>1. work' = [work EXCEPT ![w].pc = "debit", ![w].provider = p,
                                   ![w].left = work[w].left \ {p}]
          BY <3>1, <3>4
        <4> QED BY <3>2, <4>1, DebitType
      <3>5. WorkType' BY <3>3, <3>4
      <3> QED BY <2>1, <3>5, TypePartsNext
    <2> QED BY <2>2, <2>3
  <1>3. ASSUME Retry(w) PROVE TypeOK'
    <2>1. RowsType' /\ FaultsType' BY <1>3 DEF Retry, FaultsType
    <2>2. WorkType' BY <1>3, MoveType DEF Retry
    <2> QED BY <2>1, <2>2, TypePartsNext
  <1>4. ASSUME Finish(w) PROVE TypeOK'
    <2>1. RowsType' /\ FaultsType' BY <1>4 DEF Finish, FaultsType
    <2>2. WorkType' BY <1>4, MoveType DEF Finish
    <2> QED BY <2>1, <2>2, TypePartsNext
  <1> QED BY <1>1, <1>2, <1>3, <1>4

LEMMA BookTypeStep ==
    ASSUME TypeOK, NEW w \in Workers,
           \/ Refuse(w) \/ Debit(w) \/ CreateJob(w) \/ CreateJobFails(w)
           \/ RefundDispatch(w) \/ Attach(w) \/ CreateJobTimesOut(w)
    PROVE  TypeOK'
  <1>0. RowsType /\ WorkType /\ FaultsType BY TypeParts
  <1> USE <1>0, HandlerType, MoveType DEF RunStatuses, Live, Places, Engaged
  <1>1. CASE CreateJobTimesOut(w)
    <2>1. FaultsType' BY <1>1, HappenType DEF CreateJobTimesOut, AllFaults
    <2>2. RowsType' BY <1>1 DEF CreateJobTimesOut, CountBooking, RowsType
    <2>3. WorkType' BY <1>1 DEF CreateJobTimesOut
    <2> QED BY <2>1, <2>2, <2>3, TypePartsNext
  <1>2. CASE ~CreateJobTimesOut(w)
    <2>1. FaultsType'
      BY <1>2 DEF FaultsType, Refuse, Debit, CreateJob, CreateJobFails, RefundDispatch, Attach
    <2>2. RowsType'
      BY <1>2 DEF RowsType, Refuse, Debit, CreateJob, CreateJobFails, RefundDispatch, Attach,
         CountBooking
    <2>3. WorkType'
      BY <1>2 DEF Refuse, Debit, CreateJob, CreateJobFails, RefundDispatch, Attach
    <2> QED BY <2>1, <2>2, <2>3, TypePartsNext
  <1> QED BY <1>1, <1>2

LEMMA FaultTypeStep ==
    ASSUME TypeOK, NEW w \in Workers, Throws(w) \/ Crash(w)
    PROVE  TypeOK'
  <1>0. RowsType /\ WorkType /\ FaultsType BY TypeParts
  <1>1. FaultsType' BY <1>0, HappenType DEF Throws, Crash, AllFaults
  <1>2. RowsType' BY <1>0 DEF Throws, Crash, RowsType
  <1>3. {"FAILED", "none"} \subseteq RunStatuses BY DEF RunStatuses
  <1>4. WorkType' BY <1>0, <1>3, MoveType, ResetType DEF Throws, Crash
  <1> QED BY <1>1, <1>2, <1>4, TypePartsNext

LEMMA StaffTypeStep ==
    ASSUME TypeOK, NEW w \in Workers, Staff(w) \/ WriteOwn(w) \/ SkipScheduled(w)
    PROVE  TypeOK'
  <1>0. RowsType /\ WorkType /\ FaultsType BY TypeParts
  <1>1. ASSUME NEW pc \in Places, NEW p \in Providers \union {NoProvider},
               NEW kinds \in SUBSET AllFaults, ByHand(w, pc, p, kinds)
        PROVE  TypeOK'
    <2>1. [Idle EXCEPT !.pc = pc, !.by = "staff", !.provider = p] \in Handlers
      BY DEF Idle, Handlers, Bookers, RunStatuses
    <2>2. WorkType' BY <1>0, <1>1, <2>1, PutType DEF ByHand
    <2>3. FaultsType' BY <1>0, <1>1, HappenType DEF ByHand, When, AllFaults
    <2>4. RowsType' BY <1>0, <1>1 DEF ByHand, RowsType
    <2> QED BY <2>2, <2>3, <2>4, TypePartsNext
  <1>2. ASSUME NEW p \in Providers, BookByHand(w, p) PROVE TypeOK'
    BY <1>1, <1>2 DEF BookByHand, When, AllFaults, Places, Engaged
  <1>3. CASE GiveToOwn(w) BY <1>1, <1>3 DEF GiveToOwn, Places, Engaged
  <1>4. CASE DeleteRule(w) \/ WriteOwn(w) \/ SkipScheduled(w)
    <2>1. WorkType' BY <1>0, <1>4, MoveType DEF DeleteRule, WriteOwn, SkipScheduled, Places
    <2>2. FaultsType' BY <1>0, <1>4 DEF DeleteRule, WriteOwn, SkipScheduled, FaultsType
    <2>3. RowsType'
      BY <1>0, <1>4 DEF DeleteRule, WriteOwn, SkipScheduled, RowsType, RunStatuses
    <2> QED BY <2>1, <2>2, <2>3, TypePartsNext
  <1> QED BY <1>2, <1>3, <1>4 DEF Staff

LEMMA OfficeTypeStep ==
    ASSUME TypeOK, TakeBack \/ Close \/ \E r \in {"on", "dry", "off"} : UpdateRule(r)
    PROVE  TypeOK'
  <1>0. RowsType /\ WorkType /\ FaultsType BY TypeParts
  <1>1. FaultsType'
    BY <1>0, HappenType DEF TakeBack, Close, UpdateRule, When, AllFaults, FaultsType
  <1>2. RowsType' BY <1>0 DEF TakeBack, Close, UpdateRule, RowsType
  <1>3. WorkType' BY <1>0 DEF TakeBack, Close, UpdateRule, WorkType
  <1> QED BY <1>1, <1>2, <1>3, TypePartsNext

LEMMA TypeStep == ASSUME TypeOK, [Next]_vars PROVE TypeOK'
  <1>1. CASE UNCHANGED vars BY <1>1 DEF vars, TypeOK
  <1>2. CASE Next
    BY <1>2, NextStep, TickType, RunTypeStep, ExecuteTypeStep, BookTypeStep, FaultTypeStep,
       StaffTypeStep, OfficeTypeStep DEF Step, Fault
  <1> QED BY <1>1, <1>2

\* The types of the run, the order, the rule, the wallet and the handlers hold.
THEOREM AutoTypeCorrect == Spec => []TypeOK
  <1>1. Init => TypeOK
    BY DEF Init, TypeOK, Idle, Handlers, Bookers, RunStatuses, Places, Engaged
  <1> QED BY <1>1, TypeStep, PTL DEF Spec
-----------------------------------------------------------------------------
(* One courier *)

Calm == faults.kinds \subseteq {"crash"}
Buying == {"debit", "call", "refund", "attach"}
Busy == Engaged \union {"own"}

\* Staff book, or give the order to a driver; who is booking knows with whom.
Placed ==
    \A w \in Workers :
        /\ ByStaff(w) => work[w].pc \in Buying \union {"own"}
        /\ work[w].pc = "own" => ByStaff(w)
        /\ work[w].pc \in Buying => work[w].provider \in Providers

\* The run is held by one handler, and staff have the order to themselves.
Alone ==
    /\ \A w \in Workers : AtRun(w) => run.status = "RUNNING"
    /\ \A v, w \in Workers : AtRun(v) /\ AtRun(w) => v = w
    /\ \A v, w \in Workers : ByStaff(w) /\ v # w => work[v].pc \in {"idle", "clean"}

\* There is a courier when the order says so, or is about to.
Road ==
    /\ Couriers <= 1
    /\ order.own => Couriers = 0
    /\ Couriers > 0 => \/ order.courier # NoProvider
                       \/ \E w \in Workers : work[w].pc = "attach"
    /\ \A w \in Workers :
           /\ work[w].pc \in {"try", "debit", "call", "refund"} => Couriers = 0 /\ ~order.own
           /\ work[w].pc = "attach" => Couriers = 1 /\ ~order.own
           /\ work[w].pc = "own" => Couriers = 0

OneInv == Placed /\ (Calm => Alone /\ Road)

\* A step of w touches no other handler.
Others(w) == \A v \in Workers \ {w} : work'[v] = work[v]

LEMMA Moves ==
    ASSUME WorkType, NEW w \in Workers, NEW pc
    PROVE  /\ GoOn(w, pc) => /\ Others(w) /\ work'[w].pc = pc /\ work'[w].by = work[w].by
                             /\ work'[w].provider = work[w].provider
           /\ Turn(w, pc) => Others(w) /\ work'[w].pc = pc /\ work'[w].by = work[w].by
           /\ Stop(w) => Others(w) /\ work'[w].pc = "idle" /\ work'[w].by = "tick"
           /\ \A result : EndWith(w, result) =>
                  Others(w) /\ work'[w].pc = "finish" /\ work'[w].by = work[w].by
  <1> USE DEF WorkType, Handlers
  <1>1. GoOn(w, pc) => /\ Others(w) /\ work'[w].pc = pc /\ work'[w].by = work[w].by
                       /\ work'[w].provider = work[w].provider
    BY DEF GoOn, Others
  <1>2. Turn(w, pc) => Others(w) /\ work'[w].pc = pc /\ work'[w].by = work[w].by
    BY DEF Turn, Others
  <1>3. Stop(w) => Others(w) /\ work'[w].pc = "idle" /\ work'[w].by = "tick"
    BY DEF Stop, Others, Idle
  <1>4. \A result : EndWith(w, result) =>
            Others(w) /\ work'[w].pc = "finish" /\ work'[w].by = work[w].by
    BY DEF EndWith, Others
  <1> QED BY <1>1, <1>2, <1>3, <1>4

\* Where a step of w leads it, and that nothing else about the handlers changes.
LEMMA PlacedBy ==
    ASSUME TypeOK, Placed, NEW w \in Workers, Others(w),
           work'[w].by = "staff" => work'[w].pc \in Buying \union {"own"},
           work'[w].pc = "own" => work'[w].by = "staff",
           work'[w].pc \in Buying => work'[w].provider \in Providers
    PROVE  Placed'
  BY DEF Placed, ByStaff, Others

\* Whoever is busy is so alone.
LEMMA Lonely ==
    ASSUME TypeOK, Placed, Alone, NEW w \in Workers, work[w].pc \in Busy
    PROVE  \A v \in Workers \ {w} : work[v].pc \notin Busy /\ ~ByStaff(v)
  <1>0. WorkType BY TypeParts
  <1>1. ASSUME NEW v \in Workers \ {w}, work[v].pc \in Busy PROVE FALSE
    <2>1. work[v].by \in Bookers /\ work[w].by \in Bookers BY <1>0, HandlerType
    <2>2. CASE ByStaff(v) \/ ByStaff(w)
      BY <1>1, <2>2 DEF Alone, Busy, Engaged
    <2>3. CASE ~ByStaff(v) /\ ~ByStaff(w)
      <3>1. AtRun(v) /\ AtRun(w)
        BY <1>1, <2>1, <2>3 DEF AtRun, ByStaff, Bookers, Busy, Placed
      <3> QED BY <3>1, <1>1 DEF Alone
    <2> QED BY <2>2, <2>3
  <1>2. ASSUME NEW v \in Workers \ {w}, ByStaff(v) PROVE FALSE
    <2>1. work[v].pc \in Busy BY <1>2 DEF Placed, Busy, Engaged, Buying
    <2> QED BY <1>1, <2>1
  <1> QED BY <1>1, <1>2

\* A busy handler goes on, or ends.
LEMMA BusyAlone ==
    ASSUME TypeOK, Placed, Alone, NEW w \in Workers, work[w].pc \in Busy, Others(w),
           work'[w].by = "staff" => ByStaff(w),
           AtRun(w)' => run'.status = "RUNNING"
    PROVE  /\ Alone'
           /\ \A v \in Workers \ {w} : work'[v].pc \notin Busy
  <1>1. \A v \in Workers \ {w} : work'[v].pc \notin Busy /\ work'[v].by # "staff"
    BY Lonely DEF Others, ByStaff
  <1>2. \A v \in Workers : AtRun(v)' => v = w BY <1>1 DEF AtRun, Busy
  <1>3. \A v \in Workers : ByStaff(v)' => v = w BY <1>1 DEF ByStaff
  <1>4. ASSUME ByStaff(w)', NEW v \in Workers, v # w PROVE work'[v].pc \in {"idle", "clean"}
    <2>1. ByStaff(w) /\ work'[v] = work[v] BY <1>4 DEF ByStaff, Others
    <2> QED BY <1>4, <2>1 DEF Alone
  <1> QED BY <1>1, <1>2, <1>3, <1>4 DEF Alone

\* A handler that is not busy, and does not become it.
LEMMA QuietStep ==
    ASSUME TypeOK, Placed, Alone, Road, NEW w \in Workers, Others(w),
           work[w].pc \notin Busy, work'[w].pc \notin Busy, work'[w].by = "tick",
           (\E v \in Workers : ByStaff(v)) => work'[w].pc \in {"idle", "clean"},
           (\E v \in Workers : AtRun(v)) => run'.status = run.status,
           UNCHANGED <<order, booked>>
    PROVE  Alone' /\ Road'
  <1>1. ~AtRun(w)' /\ ~ByStaff(w)' BY DEF AtRun, ByStaff, Busy
  <1>3. \A v \in Workers : AtRun(v)' => AtRun(v) BY <1>1 DEF AtRun, Others
  <1>4. Alone'
    <2>1. \A v \in Workers : AtRun(v)' => run'.status = "RUNNING" BY <1>3 DEF Alone
    <2>2. \A u, v \in Workers : AtRun(u)' /\ AtRun(v)' => u = v BY <1>3 DEF Alone
    <2>3. ASSUME NEW u \in Workers, NEW v \in Workers, ByStaff(v)', u # v
          PROVE  work'[u].pc \in {"idle", "clean"}
      <3>1. ByStaff(v) /\ v # w BY <1>1, <2>3 DEF ByStaff, Others
      <3>2. CASE u = w BY <3>1, <3>2
      <3>3. CASE u # w
        <4>1. work'[u] = work[u] BY <3>3 DEF Others
        <4> QED BY <2>3, <3>1, <4>1 DEF Alone
      <3> QED BY <3>2, <3>3
    <2> QED BY <2>1, <2>2, <2>3 DEF Alone
  <1>5. \A v \in Workers : work'[v].pc \in Busy => work'[v] = work[v] BY DEF Others
  <1>6. \A v \in Workers : work[v].pc = "attach" => work'[v].pc = "attach"
    BY DEF Others, Busy, Engaged
  <1>7. Couriers' = Couriers /\ order' = order BY DEF Couriers
  <1>8. Road' BY <1>5, <1>6, <1>7 DEF Road, Busy, Engaged
  <1> QED BY <1>4, <1>8

Kept == Placed' /\ (Alone /\ Road /\ Calm' => Alone' /\ Road')

\* What is not busy is a tick's.
LEMMA QuietIsTick ==
    ASSUME TypeOK, Placed, NEW w \in Workers, work[w].pc \notin Busy
    PROVE  work[w].by = "tick"
  <1>1. work[w].by \in Bookers BY TypeParts, HandlerType
  <1> QED BY <1>1 DEF Placed, ByStaff, Bookers, Busy, Engaged, Buying

LEMMA QuietKept ==
    ASSUME TypeOK, Placed, NEW w \in Workers, Others(w),
           work[w].pc \notin Busy, work'[w].pc \notin Busy, work'[w].by = "tick",
           Calm' => ((\E v \in Workers : ByStaff(v)) => work'[w].pc \in {"idle", "clean"}),
           Calm' => ((\E v \in Workers : AtRun(v)) /\ Alone => run'.status = run.status),
           UNCHANGED <<order, booked>>
    PROVE  Kept
  <1>1. Placed' BY PlacedBy DEF Busy, Engaged, Buying
  <1> QED BY <1>1, QuietStep DEF Kept

LEMMA NoStaffAround ==
    ASSUME TypeOK, Placed, Alone, NEW w \in Workers, work[w].pc \notin Busy \union {"idle", "clean"}
    PROVE  ~\E v \in Workers : ByStaff(v)
  <1>1. ~ByStaff(w) BY DEF Placed, Busy, Engaged, Buying
  <1> QED BY <1>1 DEF Alone

LEMMA TickKept == ASSUME TypeOK, Placed, NEW w \in Workers, Tick(w) PROVE Kept
  <1>0. WorkType /\ FaultsType BY TypeParts
  <1>1. PICK result \in {"none", "DISPATCHED", "SCHEDULED"}, kinds \in SUBSET AllFaults :
            BeginTick(w, result, kinds)
    BY Zenon DEF Tick, Verdict, When, AllFaults
  <1>2. work[w] = Idle /\ UNCHANGED <<order, run, booked>> BY <1>1 DEF BeginTick
  <1>3. Others(w) /\ work'[w].pc \in {"new", "reclaim"} /\ work'[w].by = "tick"
    BY <1>0, <1>1 DEF BeginTick, Others, WorkType, Idle
  <1>4. Calm' => ~\E v \in Workers : ByStaff(v)
    <2>1. kinds \union When(\E v \in Workers : ByStaff(v), "staff") \in SUBSET AllFaults
      BY DEF When, AllFaults
    <2>2. When(\E v \in Workers : ByStaff(v), "staff") \subseteq faults'.kinds
      BY <1>0, <1>1, <2>1, HappenType DEF BeginTick
    <2> QED BY <2>2 DEF When, Calm
  <1> QED BY <1>2, <1>3, <1>4, QuietKept DEF Busy, Engaged, Idle

LEMMA RunKept ==
    ASSUME TypeOK, Placed, NEW w \in Workers,
           Reclaim(w) \/ ScheduleNew(w) \/ Create(w) \/ RunDue(w)
    PROVE  Kept
  <1>0. WorkType /\ FaultsType BY TypeParts
  <1>1. work[w].pc \in {"reclaim", "new", "create", "due"}
    BY DEF Reclaim, ScheduleNew, Create, RunDue
  <1>2. work[w].pc \notin Busy \union {"idle", "clean"} BY <1>1 DEF Busy, Engaged
  <1>3. work[w].by = "tick" BY <1>2, QuietIsTick
  <1>4. /\ Others(w) /\ work'[w].pc \in {"new", "create", "due", "claim", "idle"}
        /\ work'[w].by = "tick"
    <2>1. CASE Reclaim(w) BY <2>1, <1>0, <1>3 DEF Reclaim, Others, WorkType, Handlers
    <2>2. CASE ScheduleNew(w) \/ Create(w)
      BY <2>2, <1>0, <1>3, Moves DEF ScheduleNew, Create
    <2>3. CASE RunDue(w)
      <3>1. CASE run.status = "SCHEDULED"
        BY <2>3, <3>1, <1>0, <1>3 DEF RunDue, Others, WorkType, Handlers
      <3>2. CASE run.status # "SCHEDULED" BY <2>3, <3>2, <1>0, Moves DEF RunDue
      <3> QED BY <3>1, <3>2
    <2> QED BY <2>1, <2>2, <2>3
  <1>5. UNCHANGED <<order, booked>> BY DEF Reclaim, ScheduleNew, Create, RunDue
  <1>6. Alone => ~\E v \in Workers : ByStaff(v) BY <1>2, NoStaffAround
  <1>7. ASSUME Calm', Alone, \E v \in Workers : AtRun(v) PROVE run'.status = run.status
    <2>1. CASE Reclaim(w)
      <3>1. "late" \notin faults'.kinds BY <1>7 DEF Calm
      <3>2. Stale BY <2>1, <3>1, <1>0 DEF Reclaim, Note, When, FaultsType, FaultLog
      <3> QED BY <1>7, <3>2 DEF Stale
    <2>2. CASE ScheduleNew(w) \/ RunDue(w) BY <2>2 DEF ScheduleNew, RunDue
    <2>3. CASE Create(w)
      <3>1. run.status = "RUNNING" BY <1>7 DEF Alone
      <3> QED BY <2>3, <3>1 DEF Create
    <2> QED BY <2>1, <2>2, <2>3
  <1>8. work'[w].pc \notin Busy BY <1>4 DEF Busy, Engaged
  <1>9. Placed' BY <1>4, PlacedBy DEF Buying
  <1>10. ASSUME Alone, Road, Calm' PROVE Alone' /\ Road'
    BY <1>2, <1>4, <1>5, <1>6, <1>7, <1>8, <1>10, QuietStep
  <1> QED BY <1>9, <1>10 DEF Kept

LEMMA ClaimKept == ASSUME TypeOK, Placed, NEW w \in Workers, Claim(w) PROVE Kept
  <1>0. WorkType BY TypeParts
  <1>1. work[w].pc = "claim" /\ UNCHANGED <<order, booked>> BY DEF Claim, ClaimIt
  <1>2. work[w].pc \notin Busy \union {"idle", "clean"} BY <1>1 DEF Busy, Engaged
  <1>3. work[w].by = "tick" BY <1>2, QuietIsTick
  <1>4. CASE run.status # "SCHEDULED"
    <2>1. Others(w) /\ work'[w].pc = "idle" /\ work'[w].by = "tick" /\ run' = run
      BY <1>0, <1>4, Moves DEF Claim
    <2> QED BY <1>1, <1>2, <2>1, QuietKept DEF Busy, Engaged
  <1>5. CASE run.status = "SCHEDULED"
    <2>1. /\ Others(w) /\ work'[w].pc = "execute" /\ work'[w].by = "tick"
          /\ run'.status = "RUNNING"
      BY <1>0, <1>3, <1>5 DEF Claim, ClaimIt, Others, WorkType, Handlers
    <2>2. Placed' BY <2>1, PlacedBy DEF Buying
    <2>3. ASSUME Alone, Road PROVE Alone' /\ Road'
      <3>1. \A v \in Workers : ~AtRun(v) /\ ~ByStaff(v)
        BY <1>2, <1>5, <2>3, NoStaffAround DEF Alone
      <3>2. \A v \in Workers : v # w => ~AtRun(v)' /\ ~ByStaff(v)'
        BY <2>1, <3>1 DEF AtRun, ByStaff, Others
      <3>3. Alone' BY <2>1, <3>2 DEF Alone, ByStaff
      <3>4. \A v \in Workers : work[v].pc = "attach" => work'[v].pc = "attach"
        BY <1>1, <2>1 DEF Others
      <3>5. \A v \in Workers :
                work'[v].pc \in Buying \union {"try", "own"} => work'[v] = work[v]
        BY <2>1 DEF Others, Buying
      <3>6. Couriers' = Couriers /\ order' = order BY <1>1 DEF Couriers
      <3>7. Road' BY <2>3, <3>4, <3>5, <3>6 DEF Road, Buying
      <3> QED BY <3>3, <3>7
    <2> QED BY <2>2, <2>3 DEF Kept
  <1> QED BY <1>4, <1>5

\* What a busy handler has to show: nobody else is where a courier is booked.
LEMMA BusyKept ==
    ASSUME TypeOK, Placed, NEW w \in Workers, work[w].pc \in Busy, Others(w),
           work'[w].by = "staff" => ByStaff(w) /\ work'[w].pc \in Buying \union {"own"},
           work'[w].pc = "own" => work'[w].by = "staff",
           work'[w].pc \in Buying => work'[w].provider \in Providers,
           AtRun(w) /\ AtRun(w)' => run'.status = run.status,
           AtRun(w)' => AtRun(w),
           Alone /\ Road /\ Calm' =>
              /\ Couriers' <= 1
              /\ order.own' => Couriers' = 0
              /\ Couriers' > 0 => order.courier' # NoProvider \/ work'[w].pc = "attach"
              /\ work'[w].pc \in {"try", "debit", "call", "refund"}
                    => Couriers' = 0 /\ ~order.own'
              /\ work'[w].pc = "attach" => Couriers' = 1 /\ ~order.own'
              /\ work'[w].pc = "own" => Couriers' = 0
    PROVE  Kept
  <1>1. Placed' BY PlacedBy
  <1>2. ASSUME Alone, Road, Calm' PROVE Alone' /\ Road'
    <2>1. AtRun(w)' => run'.status = "RUNNING" BY <1>2 DEF Alone
    <2>2. Alone' /\ \A v \in Workers \ {w} : work'[v].pc \notin Busy
      BY <1>2, <2>1, BusyAlone DEF ByStaff
    <2>3. Road' BY <1>2, <2>2 DEF Road, Busy, Engaged
    <2> QED BY <2>2, <2>3
  <1> QED BY <1>1, <1>2 DEF Kept

\* The places of a tick at its run are not staff's.
LEMMA TickAtRun ==
    ASSUME TypeOK, Placed, NEW w \in Workers,
           work[w].pc \in {"execute", "try", "retry", "finish"}
    PROVE  work[w].by = "tick" /\ work[w].pc \in Busy /\ AtRun(w)
  <1>1. work[w].by \in Bookers BY TypeParts, HandlerType
  <1> QED BY <1>1 DEF Placed, ByStaff, Bookers, Busy, Engaged, Buying, AtRun

\* Nobody else is about to write a courier on the order.
LEMMA NoneAttaching ==
    ASSUME TypeOK, Placed, Alone, Road, NEW w \in Workers, work[w].pc \in Busy,
           work[w].pc # "attach", order.courier = NoProvider
    PROVE  Couriers = 0
  <1>1. \A v \in Workers : work[v].pc # "attach" BY Lonely DEF Busy, Engaged
  <1>2. booked["tick"] \in Nat /\ booked["staff"] \in Nat BY DEF TypeOK, Bookers
  <1>3. ~(Couriers > 0) BY <1>1 DEF Road
  <1> QED BY <1>2, <1>3 DEF Couriers

LEMMA ExecuteKept ==
    ASSUME TypeOK, Placed, NEW w \in Workers, Execute(w) \/ Try(w) \/ Retry(w) \/ Finish(w)
    PROVE  Kept
  <1>0. WorkType BY TypeParts
  <1>1. work[w].pc \in {"execute", "try", "retry", "finish"}
    BY DEF Execute, Try, Retry, Finish
  <1>2. work[w].by = "tick" /\ work[w].pc \in Busy /\ AtRun(w) BY <1>1, TickAtRun
  <1>3. UNCHANGED <<order, booked>> /\ Couriers' = Couriers
    BY DEF Execute, Try, Retry, Finish, Couriers
  <1>4. CASE Execute(w)
    <2>1. /\ Others(w) /\ work'[w].pc \in {"finish", "try"} /\ work'[w].by = "tick"
          /\ work'[w].pc = "try" => Eligible
      <3>1. CASE rule \in {"off", "deleted"} \/ ~Eligible
        BY <1>0, <1>2, <1>4, <3>1, Moves DEF Execute
      <3>2. CASE ~(rule \in {"off", "deleted"} \/ ~Eligible)
        <4>1. PICK tries \in SUBSET Providers :
                  IF tries # {} /\ rule = "dry" THEN EndWith(w, "DRY_RUN")
                  ELSE work' = [work EXCEPT ![w].pc = "try", ![w].left = tries]
          BY <1>4, <3>2 DEF Execute
        <4>2. CASE EndWith(w, "DRY_RUN") BY <1>0, <1>2, <4>2, Moves
        <4>3. CASE work' = [work EXCEPT ![w].pc = "try", ![w].left = tries]
          BY <1>0, <1>2, <3>2, <4>3 DEF Others, WorkType, Handlers
        <4> QED BY <4>1, <4>2, <4>3
      <3> QED BY <3>1, <3>2
    <2>2. run' = run /\ work[w].pc = "execute" BY <1>4 DEF Execute
    <2>3. ASSUME Alone, Road, work'[w].pc = "try" PROVE Couriers = 0 /\ ~order.own
      BY <1>2, <2>1, <2>2, <2>3, NoneAttaching DEF Eligible
    <2>4. ASSUME Alone, Road, Couriers > 0 PROVE order.courier # NoProvider
      <3>1. booked["tick"] \in Nat /\ booked["staff"] \in Nat BY DEF TypeOK, Bookers
      <3> QED BY <1>2, <2>2, <2>4, <3>1, NoneAttaching DEF Couriers
    <2> QED BY <1>2, <1>3, <2>1, <2>2, <2>3, <2>4, BusyKept DEF Buying, Road
  <1>5. CASE Try(w)
    <2>1. /\ Others(w) /\ work'[w].pc \in {"retry", "try", "debit"} /\ work'[w].by = "tick"
          /\ work'[w].pc = "debit" => work'[w].provider \in Providers
      <3>1. CASE work[w].left = {} BY <1>0, <1>2, <1>5, <3>1, Moves DEF Try
      <3>2. CASE work[w].left # {}
        <4>1. PICK p \in work[w].left :
                  work' = IF order.courier = p THEN [work EXCEPT ![w].left = @ \ {p}]
                          ELSE [work EXCEPT ![w].pc = "debit", ![w].provider = p,
                                            ![w].left = @ \ {p}]
          BY <1>5, <3>2 DEF Try
        <4>2. p \in Providers BY <1>0, HandlerType
        <4>3. work[w].pc = "try" BY <1>5 DEF Try
        <4> QED BY <1>0, <1>2, <4>1, <4>2, <4>3 DEF Others, WorkType, Handlers
      <3> QED BY <3>1, <3>2
    <2>2. run' = run /\ work[w].pc = "try" BY <1>5 DEF Try
    <2>3. Road => Couriers = 0 /\ ~order.own BY <2>2 DEF Road
    <2>4. AtRun(w)' => AtRun(w) BY <1>2
    <2> QED BY <1>2, <1>3, <2>1, <2>2, <2>3, <2>4, BusyKept DEF Buying
  <1>6. CASE Retry(w) \/ Finish(w)
    <2>1. Others(w) /\ work'[w].pc = "idle" /\ work'[w].by = "tick"
      BY <1>0, <1>6, Moves DEF Retry, Finish
    <2>2. ~AtRun(w)' BY <2>1 DEF AtRun, Engaged
    <2>3. work[w].pc # "attach" BY <1>1
    <2>4. ASSUME Alone, Road, Couriers > 0 PROVE order.courier # NoProvider
      <3>1. booked["tick"] \in Nat /\ booked["staff"] \in Nat BY DEF TypeOK, Bookers
      <3> QED BY <1>2, <2>3, <2>4, <3>1, NoneAttaching DEF Couriers
    <2> QED BY <1>2, <1>3, <2>1, <2>2, <2>4, BusyKept DEF Buying, Road
  <1> QED BY <1>4, <1>5, <1>6

\* Refused leads on, or ends.
LEMMA RefusedMoves ==
    ASSUME TypeOK, NEW w \in Workers, Refused(w)
    PROVE  /\ Others(w) /\ work'[w].pc \in {"idle", "try"} /\ work'[w].by = "tick"
           /\ work'[w].pc = "try" => work[w].by = "tick"
  <1>0. WorkType BY TypeParts
  <1>1. CASE ByStaff(w) BY <1>0, <1>1, Moves DEF Refused
  <1>2. CASE ~ByStaff(w)
    <2>1. work[w].by = "tick" BY <1>0, <1>2, HandlerType DEF ByStaff, Bookers
    <2> QED BY <1>0, <1>2, <2>1, Moves DEF Refused
  <1> QED BY <1>1, <1>2

LEMMA BookingCounts ==
    ASSUME TypeOK, NEW w \in Workers, CountBooking(w)
    PROVE  Couriers' = Couriers + 1
  <1>1. work[w].by \in Bookers BY TypeParts, HandlerType
  <1>2. booked \in [Bookers -> Nat] BY DEF TypeOK
  <1>3. CASE work[w].by = "tick" BY <1>2, <1>3 DEF CountBooking, Couriers, Bookers
  <1>4. CASE work[w].by = "staff" BY <1>2, <1>4 DEF CountBooking, Couriers, Bookers
  <1> QED BY <1>1, <1>3, <1>4 DEF Bookers

LEMMA BuyKept ==
    ASSUME TypeOK, Placed, NEW w \in Workers,
           \/ Refuse(w) \/ Debit(w) \/ CreateJob(w) \/ CreateJobFails(w)
           \/ RefundDispatch(w) \/ Attach(w)
    PROVE  Kept
  <1>0. WorkType BY TypeParts
  <1>1. work[w].pc \in Buying /\ work[w].pc \in Busy /\ run' = run
    BY DEF Refuse, Debit, CreateJob, CreateJobFails, RefundDispatch, Attach, Buying, Busy, Engaged
  <1>2. work[w].provider \in Providers BY <1>1 DEF Placed
  <1>3. work[w].by = "tick" => AtRun(w) BY <1>1 DEF AtRun, Buying, Engaged
  <1>4. CASE Refuse(w) \/ RefundDispatch(w)
    <2>1. /\ Others(w) /\ work'[w].pc \in {"idle", "try"} /\ work'[w].by = "tick"
          /\ work'[w].pc = "try" => work[w].by = "tick"
      BY <1>4, RefusedMoves DEF Refuse, RefundDispatch
    <2>2. order' = order /\ Couriers' = Couriers BY <1>4 DEF Refuse, RefundDispatch, Couriers
    <2>3. Road => Couriers = 0 /\ ~order.own BY <1>4 DEF Refuse, RefundDispatch, Road
    <2>4. AtRun(w)' => AtRun(w) BY <1>3, <2>1 DEF AtRun, Engaged
    <2> QED BY <1>1, <2>1, <2>2, <2>3, <2>4, BusyKept DEF Buying
  <1>5. CASE Debit(w) \/ CreateJobFails(w)
    <2>1. /\ Others(w) /\ work'[w].pc \in {"call", "refund"} /\ work'[w].by = work[w].by
          /\ work'[w].provider \in Providers
      BY <1>0, <1>2, <1>5, Moves DEF Debit, CreateJobFails
    <2>2. order' = order /\ Couriers' = Couriers BY <1>5 DEF Debit, CreateJobFails, Couriers
    <2>3. Road => Couriers = 0 /\ ~order.own BY <1>5 DEF Debit, CreateJobFails, Road
    <2>4. AtRun(w)' => AtRun(w) BY <1>3, <2>1 DEF AtRun
    <2> QED BY <1>1, <2>1, <2>2, <2>3, <2>4, BusyKept DEF Buying, ByStaff
  <1>6. CASE CreateJob(w)
    <2>1. /\ Others(w) /\ work'[w].pc = "attach" /\ work'[w].by = work[w].by
          /\ work'[w].provider \in Providers
      BY <1>0, <1>2, <1>6, Moves DEF CreateJob
    <2>2. order' = order /\ Couriers' = Couriers + 1 BY <1>6, BookingCounts DEF CreateJob
    <2>3. Road => Couriers = 0 /\ ~order.own BY <1>6 DEF CreateJob, Road
    <2>4. AtRun(w)' => AtRun(w) BY <1>3, <2>1 DEF AtRun
    <2> QED BY <1>1, <2>1, <2>2, <2>3, <2>4, BusyKept DEF Buying, ByStaff
  <1>7. CASE Attach(w)
    <2>1. /\ Others(w) /\ work'[w].pc \in {"idle", "finish"}
          /\ work'[w].by = "tick" /\ (work'[w].pc = "finish" => work[w].by = "tick")
      <3>1. CASE ByStaff(w) BY <1>0, <1>7, <3>1, Moves DEF Attach
      <3>2. CASE ~ByStaff(w)
        <4>1. work[w].by = "tick" BY <1>0, <3>2, HandlerType DEF ByStaff, Bookers
        <4> QED BY <1>0, <1>7, <3>2, <4>1, Moves DEF Attach
      <3> QED BY <3>1, <3>2
    <2>2. order' = [order EXCEPT !.courier = work[w].provider] /\ Couriers' = Couriers
      BY <1>7 DEF Attach, Couriers
    <2>3. order'.own = order.own /\ order'.courier # NoProvider
      BY <1>2, <2>2, ProvidersAssumption DEF TypeOK
    <2>4. Road => Couriers = 1 /\ ~order.own BY <1>7 DEF Attach, Road
    <2>5. AtRun(w)' => AtRun(w) BY <1>3, <2>1 DEF AtRun, Engaged
    <2> QED BY <1>1, <2>1, <2>2, <2>3, <2>4, <2>5, BusyKept DEF Buying
  <1> QED BY <1>4, <1>5, <1>6, <1>7

\* Timeouts and throwing statements are out of the claim, and so is dying with a
\* courier that is not written down.
LEMMA FaultKept == ASSUME TypeOK, Placed, NEW w \in Workers, Fault(w) PROVE Kept
  <1>0. WorkType /\ FaultsType BY TypeParts
  <1>1. CASE CreateJobTimesOut(w)
    <2>1. ~Calm' BY <1>0, <1>1, HappenType DEF CreateJobTimesOut, Calm, AllFaults
    <2>2. Others(w) /\ work'[w].pc = "refund" /\ work'[w].by = work[w].by
          /\ work'[w].provider = work[w].provider
      BY <1>0, <1>1, Moves DEF CreateJobTimesOut
    <2>3. work[w].provider \in Providers BY <1>1 DEF CreateJobTimesOut, Placed, Buying
    <2>4. Placed' BY <2>2, <2>3, PlacedBy DEF Buying
    <2> QED BY <2>1, <2>4 DEF Kept
  <1>2. CASE Throws(w)
    <2>1. ~Calm' BY <1>0, <1>2, HappenType DEF Throws, Calm, AllFaults
    <2>2. /\ Others(w) /\ work'[w].pc \in {"idle", "try", "finish"} /\ work'[w].by = "tick"
      <3>1. CASE Refused(w) BY <3>1, RefusedMoves
      <3>2. CASE Stop(w) BY <1>0, <3>2, Moves
      <3>3. CASE ~Refused(w) /\ ~Stop(w)
        <4>1. work[w].by = "tick" BY <1>2, <3>3, TickAtRun DEF Throws
        <4>2. CASE EndWith(w, "FAILED") BY <1>0, <4>1, <4>2, Moves
        <4>3. CASE work' = [work EXCEPT ![w].pc = "try", ![w].result = "none"]
          BY <1>0, <4>1, <4>3 DEF Others, WorkType, Handlers
        <4> QED BY <1>2, <3>3, <4>2, <4>3 DEF Throws
      <3> QED BY <3>1, <3>2, <3>3
    <2>3. Placed' BY <2>2, PlacedBy DEF Buying
    <2> QED BY <2>1, <2>3 DEF Kept
  <1>3. CASE Crash(w)
    <2>1. Others(w) /\ work'[w].pc = "idle" /\ work'[w].by = "tick" BY <1>0, <1>3, Moves DEF Crash
    <2>2. UNCHANGED <<order, booked, run>> /\ Couriers' = Couriers BY <1>3 DEF Crash, Couriers
    <2>3. CASE work[w].pc \notin Busy
      BY <2>1, <2>2, <2>3, QuietKept DEF Busy, Engaged
    <2>4. CASE work[w].pc \in Busy
      <3>1. Calm' => work[w].pc # "attach"
        BY <1>0, <1>3, HappenType DEF Crash, Calm, AllFaults
      <3>2. ASSUME Alone, Road, Calm', Couriers > 0 PROVE order.courier # NoProvider
        <4>1. booked["tick"] \in Nat /\ booked["staff"] \in Nat BY DEF TypeOK, Bookers
        <4> QED BY <2>4, <3>1, <3>2, <4>1, NoneAttaching DEF Couriers
      <3>3. ~AtRun(w)' BY <2>1 DEF AtRun, Engaged
      <3> QED BY <2>1, <2>2, <2>4, <3>2, <3>3, BusyKept DEF Buying, Road
    <2> QED BY <2>3, <2>4
  <1> QED BY <1>1, <1>2, <1>3 DEF Fault

\* Staff begin: from here on they are alone, or it is a fault.
LEMMA ByHandKept ==
    ASSUME TypeOK, Placed, NEW w \in Workers, NEW p \in Providers \union {NoProvider},
           NEW pc \in {"debit", "own"}, NEW kinds \in SUBSET {"staff"}, ByHand(w, pc, p, kinds),
           pc = "debit" => p \in Providers,
           order.courier = NoProvider \/ "staff" \in kinds,
           pc = "debit" => ~order.own \/ "staff" \in kinds
    PROVE  Kept
  <1>0. WorkType /\ FaultsType BY TypeParts
  <1>1. work[w] = Idle /\ UNCHANGED <<order, booked, run>> BY DEF ByHand
  <1>2. /\ Others(w) /\ work'[w].pc = pc /\ work'[w].by = "staff" /\ work'[w].provider = p
    BY <1>0 DEF ByHand, Idle, Others, WorkType
  <1>3. Placed' BY <1>2, PlacedBy DEF Buying
  <1>4. ASSUME Alone, Road, Calm' PROVE Alone' /\ Road'
    <2>1. kinds \union When(~AllIdle, "staff") \in SUBSET AllFaults BY DEF When, AllFaults
    <2>2. kinds \union When(~AllIdle, "staff") \subseteq faults'.kinds
      BY <1>0, <2>1, HappenType DEF ByHand
    <2>3. "staff" \notin kinds /\ AllIdle BY <1>4, <2>2 DEF When, Calm
    <2>4. \A v \in Workers : work[v].pc = "idle" BY <2>3 DEF AllIdle, Idle
    <2>5. \A v \in Workers \ {w} : work'[v] = Idle BY <1>2, <2>3 DEF Others, AllIdle
    <2>6. Alone' BY <1>2, <2>5 DEF Alone, AtRun, ByStaff, Idle, Engaged
    <2>7. booked["tick"] \in Nat /\ booked["staff"] \in Nat BY DEF TypeOK, Bookers
    <2>8. Couriers = 0 BY <1>4, <2>3, <2>4, <2>7 DEF Road, Couriers
    <2>9. Couriers' = 0 /\ order' = order BY <1>1, <2>8 DEF Couriers
    <2>10. \A v \in Workers \ {w} : work'[v].pc = "idle" BY <2>5 DEF Idle
    <2>11. Road' BY <1>2, <2>3, <2>9, <2>10 DEF Road
    <2> QED BY <2>6, <2>11
  <1> QED BY <1>3, <1>4 DEF Kept

LEMMA StaffKept ==
    ASSUME TypeOK, Placed, NEW w \in Workers, Staff(w) \/ WriteOwn(w) \/ SkipScheduled(w)
    PROVE  Kept
  <1>0. WorkType BY TypeParts
  <1>1. ASSUME NEW p \in Providers, BookByHand(w, p) PROVE Kept
    <2>1. When(order.own \/ order.courier # NoProvider, "staff") \in SUBSET {"staff"} BY DEF When
    <2>2. \/ ~order.own /\ order.courier = NoProvider
          \/ "staff" \in When(order.own \/ order.courier # NoProvider, "staff")
      BY DEF When
    <2> QED BY <1>1, <2>1, <2>2, ByHandKept DEF BookByHand
  <1>2. CASE GiveToOwn(w) BY <1>2, ByHandKept DEF GiveToOwn
  <1>3. CASE DeleteRule(w)
    <2>1. Others(w) /\ work'[w].pc = "clean" /\ work'[w].by = work[w].by
      BY <1>0, <1>3, Moves DEF DeleteRule
    <2>2. work[w].pc = "idle" /\ work[w].by = "tick" BY <1>3 DEF DeleteRule, Idle
    <2>3. UNCHANGED <<order, booked, run>> BY <1>3 DEF DeleteRule
    <2> QED BY <2>1, <2>2, <2>3, QuietKept DEF Busy, Engaged
  <1>4. CASE SkipScheduled(w)
    <2>1. Others(w) /\ work'[w].pc = "idle" /\ work'[w].by = "tick"
      BY <1>0, <1>4, Moves DEF SkipScheduled
    <2>2. work[w].pc = "clean" /\ UNCHANGED <<order, booked>> BY <1>4 DEF SkipScheduled
    <2>3. Alone /\ (\E v \in Workers : AtRun(v)) => run'.status = run.status
      BY <1>4 DEF SkipScheduled, Alone
    <2> QED BY <2>1, <2>2, <2>3, QuietKept DEF Busy, Engaged
  <1>5. CASE WriteOwn(w)
    <2>1. Others(w) /\ work'[w].pc = "idle" /\ work'[w].by = "tick"
      BY <1>0, <1>5, Moves DEF WriteOwn
    <2>2. work[w].pc = "own" /\ work[w].pc \in Busy BY <1>5 DEF WriteOwn, Busy
    <2>3. Couriers' = Couriers BY <1>5 DEF WriteOwn, Couriers
    <2>4. ~AtRun(w)' BY <2>1 DEF AtRun, Engaged
    <2>5. Road => Couriers = 0 BY <2>2 DEF Road
    <2> QED BY <2>1, <2>2, <2>3, <2>4, <2>5, BusyKept DEF Buying
  <1> QED BY <1>1, <1>2, <1>3, <1>4, <1>5 DEF Staff

LEMMA OfficeKept ==
    ASSUME TypeOK, Placed, TakeBack \/ Close \/ \E r \in {"on", "dry", "off"} : UpdateRule(r)
    PROVE  Kept
  <1>1. UNCHANGED <<run, booked, work>> BY DEF TakeBack, Close, UpdateRule
  <1>2. order'.courier = order.courier /\ (order'.own => order.own)
    BY DEF TakeBack, Close, UpdateRule, TypeOK
  <1>3. Placed' BY <1>1 DEF Placed, ByStaff
  <1>4. Alone => Alone' BY <1>1 DEF Alone, AtRun, ByStaff
  <1>5. Couriers' = Couriers BY <1>1 DEF Couriers
  <1>6. Road => Road' BY <1>1, <1>2, <1>5 DEF Road
  <1> QED BY <1>3, <1>4, <1>6 DEF Kept

\* What went wrong is not forgotten.
LEMMA KindsGrow == ASSUME TypeOK, Next PROVE faults.kinds \subseteq faults'.kinds
  <1>0. FaultsType BY TypeParts
  <1> USE HappenType DEF AllFaults
  <1>1. ASSUME NEW w \in Workers, Tick(w) PROVE faults.kinds \subseteq faults'.kinds
    <2>1. PICK kinds \in SUBSET AllFaults :
              Happen(kinds \union When(\E v \in Workers : ByStaff(v), "staff"))
      BY <1>1 DEF Tick, BeginTick, When
    <2>2. kinds \union When(\E v \in Workers : ByStaff(v), "staff") \in SUBSET AllFaults
      BY DEF When
    <2> QED BY <1>0, <2>1, <2>2
  <1>2. ASSUME NEW w \in Workers, Step(w) PROVE faults.kinds \subseteq faults'.kinds
    <2>1. CASE Reclaim(w) BY <1>0, <2>1 DEF Reclaim, Note, FaultsType, FaultLog
    <2>2. Reclaim(w) \/ UNCHANGED faults
      BY <1>2 DEF Step, ScheduleNew, Create, RunDue, Claim, ClaimIt, Execute,
         Try, Retry, Finish, Refuse, Debit, CreateJob, CreateJobFails, RefundDispatch, Attach,
         WriteOwn, SkipScheduled
    <2> QED BY <2>1, <2>2
  <1>3. ASSUME NEW w \in Workers, Fault(w) PROVE faults.kinds \subseteq faults'.kinds
    BY <1>0, <1>3 DEF Fault, CreateJobTimesOut, Throws, Crash
  <1>4. ASSUME NEW w \in Workers, Staff(w) PROVE faults.kinds \subseteq faults'.kinds
    <2>1. \/ UNCHANGED faults
          \/ \E kinds \in SUBSET {"staff"} : Happen(kinds)
      BY <1>4 DEF Staff, BookByHand, GiveToOwn, ByHand, DeleteRule, When
    <2> QED BY <1>0, <2>1
  <1>5. ASSUME TakeBack \/ Close \/ \E r \in {"on", "dry", "off"} : UpdateRule(r)
        PROVE  faults.kinds \subseteq faults'.kinds
    BY <1>0, <1>5 DEF TakeBack, Close, UpdateRule, When
  <1> QED BY <1>1, <1>2, <1>3, <1>4, <1>5, NextStep

LEMMA CalmBefore == ASSUME TypeOK, Next, Calm' PROVE Calm
  BY KindsGrow DEF Calm

LEMMA OneStep == ASSUME TypeOK, OneInv, [Next]_vars PROVE OneInv'
  <1>1. CASE UNCHANGED vars
    BY <1>1 DEF vars, OneInv, Placed, ByStaff, Calm, Alone, AtRun, Road, Couriers
  <1>2. CASE Next
    <2>1. Placed BY DEF OneInv
    <2>2. Kept
      BY <1>2, <2>1, NextStep, TickKept, RunKept, ClaimKept, ExecuteKept, BuyKept, FaultKept,
         StaffKept, OfficeKept DEF Step
    <2>3. Calm' => Calm BY <1>2, CalmBefore
    <2> QED BY <2>2, <2>3 DEF Kept, OneInv
  <1> QED BY <1>1, <1>2

\* Ticks that crash, but neither between the booking and the write that follows
\* it nor while a run is taken back late, send one courier at most, and none
\* after one of the shop's own drivers, however many processes tick.
THEOREM OneCourierCorrect == Spec => []OneCourier
  <1>1. Init => OneInv
    BY DEF Init, OneInv, Placed, Alone, Road, Couriers, AtRun, ByStaff, Idle, Engaged, Buying,
       Bookers
  <1>2. OneInv => OneCourier BY DEF OneInv, Calm, Road, OneCourier
  <1> QED BY <1>1, <1>2, OneStep, AutoTypeCorrect, PTL DEF Spec
-----------------------------------------------------------------------------
(* Fees: BooksAgree's second half *)

\* Neither the courier's API nor a statement failed half-way, and nobody died
\* with a fee taken.
FeeCalm == faults.kinds \subseteq {"orphan", "slow", "late", "staff"}

\* A fee is taken, and what it was taken for has not happened yet.
Debited == {w \in Workers : work[w].pc \in {"call", "refund"}}

FeesInv == FeeCalm => fees = Couriers + Cardinality(Debited)

LEMMA DebitedFinite == IsFiniteSet(Debited) /\ IsFiniteSet(Debited')
                       /\ Cardinality(Debited) \in Nat /\ Cardinality(Debited') \in Nat
  BY WorkersAssumption, FS_Subset, FS_CardinalityType DEF Debited

LEMMA DebitedMoves ==
    ASSUME NEW w \in Workers, Others(w)
    PROVE  LET was == work[w].pc \in {"call", "refund"}
               is  == work'[w].pc \in {"call", "refund"}
           IN  /\ was = is => Cardinality(Debited') = Cardinality(Debited)
               /\ ~was /\ is => Cardinality(Debited') = Cardinality(Debited) + 1
               /\ was /\ ~is => Cardinality(Debited') = Cardinality(Debited) - 1
  <1> DEFINE was == work[w].pc \in {"call", "refund"}
             is  == work'[w].pc \in {"call", "refund"}
  <1>1. ASSUME was = is PROVE Debited' = Debited
    BY <1>1 DEF Debited, Others
  <1>2. ASSUME ~was, is PROVE Debited' = Debited \union {w} /\ w \notin Debited
    BY <1>2 DEF Debited, Others
  <1>3. ASSUME was, ~is PROVE Debited' = Debited \ {w} /\ w \in Debited
    BY <1>3 DEF Debited, Others
  <1>4. Debited' = Debited \union {w} /\ w \notin Debited
            => Cardinality(Debited') = Cardinality(Debited) + 1
    BY DebitedFinite, FS_AddElement
  <1>5. Debited' = Debited \ {w} /\ w \in Debited
            => Cardinality(Debited') = Cardinality(Debited) - 1
    BY DebitedFinite, FS_RemoveElement
  <1> QED BY <1>1, <1>2, <1>3, <1>4, <1>5

\* Where execute leads, and what it says when that is the end.
LEMMA ExecuteMoves ==
    ASSUME WorkType, NEW w \in Workers, Execute(w)
    PROVE  /\ Others(w) /\ work'[w].pc \in {"finish", "try"} /\ work'[w].by = work[w].by
           /\ work'[w].pc = "finish" => work'[w].result \in {"SKIPPED", "DRY_RUN"}
  <1> USE DEF Others, WorkType, Handlers
  <1>1. CASE rule \in {"off", "deleted"} \/ ~Eligible
    BY <1>1 DEF Execute, EndWith
  <1>2. CASE ~(rule \in {"off", "deleted"} \/ ~Eligible)
    <2>1. PICK tries \in SUBSET Providers :
              IF tries # {} /\ rule = "dry" THEN EndWith(w, "DRY_RUN")
              ELSE work' = [work EXCEPT ![w].pc = "try", ![w].left = tries]
      BY <1>2 DEF Execute
    <2>2. CASE EndWith(w, "DRY_RUN") BY <2>2 DEF EndWith
    <2>3. CASE work' = [work EXCEPT ![w].pc = "try", ![w].left = tries] BY <2>3
    <2> QED BY <2>1, <2>2, <2>3
  <1> QED BY <1>1, <1>2

LEMMA TryMoves ==
    ASSUME WorkType, NEW w \in Workers, Try(w)
    PROVE  Others(w) /\ work'[w].pc \in {"retry", "try", "debit"} /\ work'[w].by = work[w].by
  <1>0. work[w].pc = "try" BY DEF Try
  <1>1. CASE work[w].left = {} BY <1>1, Moves DEF Try
  <1>2. CASE work[w].left # {}
    <2>1. PICK p \in work[w].left :
              work' = IF order.courier = p THEN [work EXCEPT ![w].left = @ \ {p}]
                      ELSE [work EXCEPT ![w].pc = "debit", ![w].provider = p,
                                        ![w].left = @ \ {p}]
      BY <1>2 DEF Try
    <2> QED BY <1>0, <2>1 DEF Others, WorkType, Handlers
  <1> QED BY <1>1, <1>2

\* A step that neither books nor touches the wallet, nor the places between.
LEMMA FeesSame ==
    ASSUME FeesInv, FeeCalm' => FeeCalm, NEW w \in Workers, Others(w), UNCHANGED <<fees, booked>>,
           work[w].pc \notin {"call", "refund"}, work'[w].pc \notin {"call", "refund"}
    PROVE  FeesInv'
  <1>1. Cardinality(Debited') = Cardinality(Debited) BY DebitedMoves
  <1>2. Couriers' = Couriers BY DEF Couriers
  <1> QED BY <1>1, <1>2 DEF FeesInv

LEMMA FeeCalmBefore == ASSUME TypeOK, Next, FeeCalm' PROVE FeeCalm
  BY KindsGrow DEF FeeCalm

LEMMA TickFees ==
    ASSUME TypeOK, FeesInv, NEW w \in Workers, Tick(w), FeeCalm' => FeeCalm
    PROVE  FeesInv'
  <1>0. WorkType BY TypeParts
  <1>1. PICK result \in {"none", "DISPATCHED", "SCHEDULED"}, kinds \in SUBSET AllFaults :
            BeginTick(w, result, kinds)
    BY Zenon DEF Tick, Verdict, When, AllFaults
  <1>2. work[w].pc = "idle" /\ UNCHANGED <<fees, booked>> BY <1>1 DEF BeginTick, Idle
  <1>3. Others(w) /\ work'[w].pc \in {"new", "reclaim"}
    BY <1>0, <1>1 DEF BeginTick, Others, WorkType, Idle
  <1> QED BY <1>2, <1>3, FeesSame

LEMMA RunFees ==
    ASSUME TypeOK, FeesInv, NEW w \in Workers, FeeCalm' => FeeCalm,
           Reclaim(w) \/ ScheduleNew(w) \/ Create(w) \/ RunDue(w) \/ Claim(w)
    PROVE  FeesInv'
  <1>0. WorkType BY TypeParts
  <1>1. work[w].pc \notin {"call", "refund"} /\ UNCHANGED <<fees, booked>>
    BY DEF Reclaim, ScheduleNew, Create, RunDue, Claim, ClaimIt
  <1>2. Others(w) /\ work'[w].pc \in {"new", "create", "due", "claim", "idle", "execute"}
    <2>1. CASE Reclaim(w) BY <2>1, <1>0 DEF Reclaim, Others, WorkType, Handlers
    <2>2. CASE ScheduleNew(w) \/ Create(w) BY <2>2, <1>0, Moves DEF ScheduleNew, Create
    <2>3. CASE RunDue(w)
      <3>1. CASE run.status = "SCHEDULED"
        BY <2>3, <3>1, <1>0 DEF RunDue, Others, WorkType, Handlers
      <3>2. CASE run.status # "SCHEDULED" BY <2>3, <3>2, <1>0, Moves DEF RunDue
      <3> QED BY <3>1, <3>2
    <2>4. CASE Claim(w)
      <3>1. CASE run.status = "SCHEDULED"
        BY <2>4, <3>1, <1>0 DEF Claim, ClaimIt, Others, WorkType, Handlers
      <3>2. CASE run.status # "SCHEDULED" BY <2>4, <3>2, <1>0, Moves DEF Claim
      <3> QED BY <3>1, <3>2
    <2> QED BY <2>1, <2>2, <2>3, <2>4
  <1> QED BY <1>1, <1>2, FeesSame

LEMMA ExecuteFees ==
    ASSUME TypeOK, FeesInv, NEW w \in Workers, FeeCalm' => FeeCalm,
           Execute(w) \/ Try(w) \/ Retry(w) \/ Finish(w)
    PROVE  FeesInv'
  <1>0. WorkType BY TypeParts
  <1>1. work[w].pc \notin {"call", "refund"} /\ UNCHANGED <<fees, booked>>
    BY DEF Execute, Try, Retry, Finish
  <1>2. Others(w) /\ work'[w].pc \in {"finish", "try", "retry", "debit", "idle"}
    <2>1. CASE Execute(w) BY <2>1, <1>0, ExecuteMoves
    <2>2. CASE Try(w) BY <2>2, <1>0, TryMoves
    <2>3. CASE Retry(w) \/ Finish(w) BY <2>3, <1>0, Moves DEF Retry, Finish
    <2> QED BY <2>1, <2>2, <2>3
  <1> QED BY <1>1, <1>2, FeesSame

\* The fee is taken before the courier is asked for, and given back when there is none.
LEMMA BuyFees ==
    ASSUME TypeOK, FeesInv, NEW w \in Workers, FeeCalm' => FeeCalm,
           \/ Refuse(w) \/ Debit(w) \/ CreateJob(w) \/ CreateJobFails(w)
           \/ RefundDispatch(w) \/ Attach(w)
    PROVE  FeesInv'
  <1>0. WorkType BY TypeParts
  <1>1. /\ fees \in Int /\ Couriers \in Nat
        /\ Cardinality(Debited) \in Nat /\ Cardinality(Debited') \in Nat
    BY DebitedFinite DEF TypeOK, Couriers, Bookers
  <1>2. CASE Refuse(w) \/ RefundDispatch(w)
    <2>1. Others(w) /\ work'[w].pc \in {"idle", "try"}
      BY <1>0, <1>2, RefusedMoves DEF Refuse, RefundDispatch
    <2>2. Couriers' = Couriers BY <1>2 DEF Refuse, RefundDispatch, Couriers
    <2>3. CASE Refuse(w)
      BY <2>1, <2>3, FeesSame DEF Refuse
    <2>4. CASE RefundDispatch(w)
      <3>1. Cardinality(Debited') = Cardinality(Debited) - 1
        BY <2>1, <2>4, DebitedMoves DEF RefundDispatch
      <3>2. fees' = fees - 1 BY <2>4 DEF RefundDispatch
      <3> QED BY <1>1, <2>2, <3>1, <3>2 DEF FeesInv
    <2> QED BY <1>2, <2>3, <2>4
  <1>3. CASE Debit(w)
    <2>1. Others(w) /\ work'[w].pc = "call" /\ work[w].pc = "debit" BY <1>0, <1>3, Moves DEF Debit
    <2>2. Cardinality(Debited') = Cardinality(Debited) + 1 BY <2>1, DebitedMoves
    <2>3. fees' = fees + 1 /\ Couriers' = Couriers BY <1>3 DEF Debit, Couriers
    <2> QED BY <1>1, <2>2, <2>3 DEF FeesInv
  <1>4. CASE CreateJobFails(w)
    <2>1. Others(w) /\ work'[w].pc = "refund" /\ work[w].pc = "call"
      BY <1>0, <1>4, Moves DEF CreateJobFails
    <2>2. Cardinality(Debited') = Cardinality(Debited) BY <2>1, DebitedMoves
    <2>3. fees' = fees /\ Couriers' = Couriers BY <1>4 DEF CreateJobFails, Couriers
    <2> QED BY <2>2, <2>3 DEF FeesInv
  <1>5. CASE CreateJob(w)
    <2>1. Others(w) /\ work'[w].pc = "attach" /\ work[w].pc = "call"
      BY <1>0, <1>5, Moves DEF CreateJob
    <2>2. Cardinality(Debited') = Cardinality(Debited) - 1 BY <2>1, DebitedMoves
    <2>3. fees' = fees /\ Couriers' = Couriers + 1 BY <1>5, BookingCounts DEF CreateJob
    <2> QED BY <1>1, <2>2, <2>3 DEF FeesInv
  <1>6. CASE Attach(w)
    <2>1. Others(w) /\ work'[w].pc \in {"idle", "finish"} /\ work[w].pc = "attach"
      <3>1. CASE ByStaff(w) BY <1>0, <1>6, <3>1, Moves DEF Attach
      <3>2. CASE ~ByStaff(w) BY <1>0, <1>6, <3>2, Moves DEF Attach
      <3> QED BY <3>1, <3>2
    <2>2. UNCHANGED <<fees, booked>> BY <1>6 DEF Attach
    <2> QED BY <2>1, <2>2, FeesSame
  <1> QED BY <1>2, <1>3, <1>4, <1>5, <1>6

\* Timeouts, throwing statements and deaths with a fee taken are out of the claim.
LEMMA FaultFees ==
    ASSUME TypeOK, FeesInv, NEW w \in Workers, FeeCalm' => FeeCalm, Fault(w)
    PROVE  FeesInv'
  <1>0. WorkType /\ FaultsType BY TypeParts
  <1>1. CASE CreateJobTimesOut(w)
    <2>1. ~FeeCalm' BY <1>0, <1>1, HappenType DEF CreateJobTimesOut, FeeCalm, AllFaults
    <2> QED BY <2>1 DEF FeesInv
  <1>2. CASE Throws(w)
    <2>1. ~FeeCalm' BY <1>0, <1>2, HappenType DEF Throws, FeeCalm, AllFaults
    <2> QED BY <2>1 DEF FeesInv
  <1>3. CASE Crash(w)
    <2>1. CASE work[w].pc # "attach"
      <3>1. ~FeeCalm' BY <1>0, <1>3, <2>1, HappenType DEF Crash, FeeCalm, AllFaults
      <3> QED BY <3>1 DEF FeesInv
    <2>2. CASE work[w].pc = "attach"
      <3>1. Others(w) /\ work'[w].pc = "idle" BY <1>0, <1>3, Moves DEF Crash
      <3>2. UNCHANGED <<fees, booked>> BY <1>3 DEF Crash
      <3> QED BY <2>2, <3>1, <3>2, FeesSame
    <2> QED BY <2>1, <2>2
  <1> QED BY <1>1, <1>2, <1>3 DEF Fault

LEMMA StaffFees ==
    ASSUME TypeOK, FeesInv, NEW w \in Workers, FeeCalm' => FeeCalm,
           Staff(w) \/ WriteOwn(w) \/ SkipScheduled(w)
    PROVE  FeesInv'
  <1>0. WorkType BY TypeParts
  <1>1. ASSUME NEW pc \in {"debit", "own"}, NEW p, NEW kinds, ByHand(w, pc, p, kinds)
        PROVE  FeesInv'
    <2>1. work[w].pc = "idle" /\ UNCHANGED <<fees, booked>> BY <1>1 DEF ByHand, Idle
    <2>2. Others(w) /\ work'[w].pc = pc BY <1>0, <1>1 DEF ByHand, Others, WorkType, Idle
    <2> QED BY <2>1, <2>2, FeesSame
  <1>2. CASE \E p \in Providers : BookByHand(w, p) BY <1>1, <1>2 DEF BookByHand
  <1>3. CASE GiveToOwn(w) BY <1>1, <1>3 DEF GiveToOwn
  <1>4. CASE DeleteRule(w) \/ WriteOwn(w) \/ SkipScheduled(w)
    <2>1. work[w].pc \notin {"call", "refund"} /\ UNCHANGED <<fees, booked>>
      BY <1>4 DEF DeleteRule, WriteOwn, SkipScheduled, Idle
    <2>2. Others(w) /\ work'[w].pc \in {"idle", "clean"}
      BY <1>0, <1>4, Moves DEF DeleteRule, WriteOwn, SkipScheduled
    <2> QED BY <2>1, <2>2, FeesSame
  <1> QED BY <1>2, <1>3, <1>4 DEF Staff

LEMMA FeesStep == ASSUME TypeOK, FeesInv, [Next]_vars PROVE FeesInv'
  <1>1. CASE UNCHANGED vars
    BY <1>1 DEF vars, FeesInv, FeeCalm, Couriers, Debited
  <1>2. CASE Next
    <2>1. FeeCalm' => FeeCalm BY <1>2, FeeCalmBefore
    <2>2. CASE TakeBack \/ Close \/ \E r \in {"on", "dry", "off"} : UpdateRule(r)
      <3>1. UNCHANGED <<fees, booked, work>> BY <2>2 DEF TakeBack, Close, UpdateRule
      <3> QED BY <2>1, <3>1 DEF FeesInv, Couriers, Debited
    <2> QED BY <1>2, <2>1, <2>2, NextStep, TickFees, RunFees, ExecuteFees, BuyFees, FaultFees,
            StaffFees DEF Step
  <1> QED BY <1>1, <1>2

LEMMA FeesInit == ASSUME Init PROVE FeesInv
  <1>1. Debited = {} BY DEF Init, Debited, Idle
  <1>2. Couriers = 0 /\ fees = 0 BY DEF Init, Couriers, Bookers
  <1> QED BY <1>1, <1>2, FS_EmptySet DEF FeesInv

LEMMA FeesAtRest == ASSUME FeesInv, TypeOK, AllIdle, FeeCalm PROVE FeesMatch
  <1>1. Debited = {} BY DEF AllIdle, Debited, Idle
  <1>2. Couriers \in Nat BY DEF TypeOK, Couriers, Bookers
  <1> QED BY <1>1, <1>2, FS_EmptySet DEF FeesInv, FeesMatch
-----------------------------------------------------------------------------
(* What the run says: BooksAgree's first half *)

\* Processes die, but not with a courier booked and not written down, and no run
\* is taken back that somebody is still at.
TellCalm == faults.kinds \subseteq {"crash", "staff"}

\* A courier is booked, and the run is about to say so.
Coming(w) == \/ work[w].pc = "attach"
             \/ work[w].pc = "finish" /\ work[w].result = "DISPATCHED"

Held == \E w \in Workers : AtRun(w)

Holding ==
    /\ \A w \in Workers : AtRun(w) => run.status = "RUNNING"
    /\ \A v, w \in Workers : AtRun(v) /\ AtRun(w) => v = w

\* What ticks booked is with whoever holds the run, on the order, or told.
Told ==
    /\ run.status \notin {"RUNNING", "DISPATCHED"} => booked["tick"] = 0
    /\ run.status = "RUNNING" /\ ~Held /\ booked["tick"] > 0 => order.courier # NoProvider
    /\ run.status = "DISPATCHED" => Couriers > 0
    /\ order.courier # NoProvider => Couriers > 0

Word ==
    \A w \in Workers :
        /\ AtRun(w) /\ ~Coming(w) => booked["tick"] = 0
        /\ work[w].pc = "finish" /\ work[w].result = "DISPATCHED" => order.courier # NoProvider
        /\ work[w].pc = "attach" => booked[work[w].by] > 0

Tell == Holding /\ Told /\ Word
TellInv == TellCalm => Tell

LEMMA BookedType == booked \in [Bookers -> Nat]
                        => /\ booked["tick"] \in Nat /\ booked["staff"] \in Nat
                           /\ Couriers \in Nat
  BY DEF Bookers, Couriers

\* A step that neither takes nor leaves the run.
LEMMA ToldAside ==
    ASSUME TypeOK, Tell, NEW w \in Workers, Others(w), ~AtRun(w), ~AtRun(w)',
           order'.courier = order.courier, booked' = booked, run'.status = run.status,
           work'[w].pc \notin {"attach", "finish"}
    PROVE  Tell'
  <1>1. \A v \in Workers : AtRun(v)' <=> AtRun(v) BY DEF AtRun, Others
  <1>2. \A v \in Workers : AtRun(v)' => work'[v] = work[v] BY DEF Others
  <1>3. Held' <=> Held BY <1>1 DEF Held
  <1>4. Couriers' = Couriers BY DEF Couriers
  <1>5. Holding' BY <1>1 DEF Tell, Holding
  <1>6. Told' BY <1>3, <1>4 DEF Tell, Told
  <1>7. Word' BY <1>1, <1>2 DEF Tell, Word, Coming, Others
  <1> QED BY <1>5, <1>6, <1>7 DEF Tell

\* A step at the run that leaves what is booked, and what it says, alone.
LEMMA ToldAlong ==
    ASSUME TypeOK, Tell, NEW w \in Workers, Others(w), AtRun(w), AtRun(w)',
           order'.courier = order.courier, booked' = booked, run'.status = run.status,
           ~Coming(w), work'[w].pc # "attach",
           work'[w].pc = "finish" => work'[w].result # "DISPATCHED"
    PROVE  Tell'
  <1>1. \A v \in Workers : AtRun(v)' <=> AtRun(v) BY DEF AtRun, Others
  <1>3. Held' <=> Held BY <1>1 DEF Held
  <1>4. Couriers' = Couriers BY DEF Couriers
  <1>5. Holding' BY <1>1 DEF Tell, Holding
  <1>6. Told' BY <1>3, <1>4 DEF Tell, Told
  <1>7. booked["tick"] = 0 BY DEF Tell, Word
  <1>8. Word' BY <1>7 DEF Tell, Word, Coming, Others
  <1> QED BY <1>5, <1>6, <1>8 DEF Tell

\* A step after which nobody holds the run.
LEMMA ToldAtLast ==
    ASSUME TypeOK, Tell, NEW w \in Workers, Others(w), ~AtRun(w)',
           \A v \in Workers \ {w} : ~AtRun(v),
           order'.courier = order.courier, booked' = booked,
           work'[w].pc \notin {"attach", "finish"},
           run'.status \notin {"RUNNING", "DISPATCHED"} => booked["tick"] = 0,
           run'.status = "RUNNING" /\ booked["tick"] > 0 => order.courier # NoProvider,
           run'.status = "DISPATCHED" => Couriers > 0
    PROVE  Tell'
  <1>1. \A v \in Workers : ~AtRun(v)' BY DEF AtRun, Others
  <1>2. Couriers' = Couriers BY DEF Couriers
  <1>3. Holding' BY <1>1 DEF Holding
  <1>4. Told' BY <1>1, <1>2 DEF Tell, Told, Held
  <1>5. Word' BY <1>1 DEF Tell, Word, Others
  <1> QED BY <1>3, <1>4, <1>5 DEF Tell

\* Staff at work are not at the run.
LEMMA NotAtRun ==
    ASSUME TypeOK, Placed, NEW w \in Workers
    PROVE  /\ work[w].pc \notin Engaged => ~AtRun(w)
           /\ work[w].by # "tick" => ~AtRun(w)
           /\ work[w].pc \in Engaged /\ work[w].by = "tick" => AtRun(w)
           /\ work'[w].pc \notin Engaged => ~AtRun(w)'
           /\ work'[w].by # "tick" => ~AtRun(w)'
           /\ work'[w].pc \in Engaged /\ work'[w].by = "tick" => AtRun(w)'
  BY DEF AtRun

LEMMA OnlyOne ==
    ASSUME Tell, NEW w \in Workers, AtRun(w)
    PROVE  run.status = "RUNNING" /\ \A v \in Workers \ {w} : ~AtRun(v)
  BY DEF Tell, Holding

LEMMA NobodyAt ==
    ASSUME Tell, run.status # "RUNNING"
    PROVE  \A v \in Workers : ~AtRun(v)
  BY DEF Tell, Holding

LEMMA TickTells == ASSUME TypeOK, Placed, Tell, NEW w \in Workers, Tick(w) PROVE Tell'
  <1>0. WorkType BY TypeParts
  <1>1. PICK result \in {"none", "DISPATCHED", "SCHEDULED"}, kinds \in SUBSET AllFaults :
            BeginTick(w, result, kinds)
    BY Zenon DEF Tick, Verdict, When, AllFaults
  <1>2. work[w].pc = "idle" /\ UNCHANGED <<order, run, booked>> BY <1>1 DEF BeginTick, Idle
  <1>3. Others(w) /\ work'[w].pc \in {"new", "reclaim"}
    BY <1>0, <1>1 DEF BeginTick, Others, WorkType, Idle
  <1>4. ~AtRun(w) /\ ~AtRun(w)' BY <1>2, <1>3, NotAtRun DEF Engaged
  <1> QED BY <1>2, <1>3, <1>4, ToldAside

\* The look-up, the insert and what is due; the claim.
LEMMA RunTells ==
    ASSUME TypeOK, Placed, Tell, TellCalm', NEW w \in Workers,
           Reclaim(w) \/ ScheduleNew(w) \/ Create(w) \/ RunDue(w) \/ Claim(w)
    PROVE  Tell'
  <1>0. WorkType /\ FaultsType BY TypeParts
  <1>1. work[w].pc \in {"reclaim", "new", "create", "due", "claim"} /\ UNCHANGED <<order, booked>>
    BY DEF Reclaim, ScheduleNew, Create, RunDue, Claim, ClaimIt
  <1>2. ~AtRun(w) BY <1>1, NotAtRun DEF Engaged
  <1>3. CASE ScheduleNew(w)
    <2>1. Others(w) /\ work'[w].pc \in {"create", "due"} /\ run' = run
      BY <1>0, <1>3, Moves DEF ScheduleNew
    <2>2. ~AtRun(w)' BY <2>1, NotAtRun DEF Engaged
    <2> QED BY <1>1, <1>2, <2>1, <2>2, ToldAside
  <1>4. CASE RunDue(w)
    <2>1. Others(w) /\ work'[w].pc \in {"claim", "idle"}
      <3>1. CASE run.status = "SCHEDULED"
        BY <1>4, <3>1, <1>0 DEF RunDue, Others, WorkType, Handlers
      <3>2. CASE run.status # "SCHEDULED" BY <1>4, <3>2, <1>0, Moves DEF RunDue
      <3> QED BY <3>1, <3>2
    <2>2. run' = run BY <1>4 DEF RunDue
    <2>3. ~AtRun(w)' BY <2>1, NotAtRun DEF Engaged
    <2> QED BY <1>1, <1>2, <2>1, <2>2, <2>3, ToldAside
  <1>5. CASE Create(w)
    <2>1. Others(w) /\ work'[w].pc = "due" BY <1>0, <1>5, Moves DEF Create
    <2>2. ~AtRun(w)' BY <2>1, NotAtRun DEF Engaged
    <2>3. CASE run.status = "none"
      <3>1. run'.status = "SCHEDULED" BY <1>5, <2>3 DEF Create
      <3>2. booked["tick"] = 0 /\ \A v \in Workers : ~AtRun(v)
        BY <2>3, NobodyAt DEF Tell, Told
      <3> QED BY <1>1, <2>1, <2>2, <3>1, <3>2, ToldAtLast
    <2>4. CASE run.status # "none"
      <3>1. run' = run BY <1>5, <2>4 DEF Create
      <3> QED BY <1>1, <1>2, <2>1, <2>2, <3>1, ToldAside
    <2> QED BY <2>3, <2>4
  <1>6. CASE Reclaim(w)
    <2>1. Others(w) /\ work'[w].pc = "new" BY <1>0, <1>6 DEF Reclaim, Others, WorkType, Handlers
    <2>2. ~AtRun(w)' BY <2>1, NotAtRun DEF Engaged
    <2>3. Stale /\ work[w].result = Verdict
      <3>1. "late" \notin faults'.kinds BY DEF TellCalm
      <3> QED BY <1>6, <3>1, <1>0 DEF Reclaim, Note, When, FaultsType, FaultLog
    <2>4. run'.status = Verdict BY <1>6, <2>3 DEF Reclaim, SetRun, TypeOK
    <2>5. \A v \in Workers : ~AtRun(v) BY <2>3 DEF Stale
    <2>6. CASE order.courier # NoProvider
      <3>1. run'.status = "DISPATCHED" /\ Couriers > 0
        BY <2>4, <2>6 DEF Verdict, Tell, Told
      <3> QED BY <1>1, <2>1, <2>2, <2>5, <3>1, ToldAtLast
    <2>7. CASE order.courier = NoProvider
      <3>1. run'.status = "SCHEDULED" BY <2>4, <2>7 DEF Verdict
      <3>2. booked["tick"] = 0
        BY <2>3, <2>5, <2>7, BookedType DEF Stale, Tell, Told, Held, TypeOK
      <3> QED BY <1>1, <2>1, <2>2, <2>5, <3>1, <3>2, ToldAtLast
    <2> QED BY <2>6, <2>7
  <1>7. CASE Claim(w) /\ run.status # "SCHEDULED"
    <2>1. Others(w) /\ work'[w].pc = "idle" /\ run' = run BY <1>0, <1>7, Moves DEF Claim
    <2>2. ~AtRun(w)' BY <2>1, NotAtRun DEF Engaged
    <2> QED BY <1>1, <1>2, <2>1, <2>2, ToldAside
  <1>8. CASE Claim(w) /\ run.status = "SCHEDULED"
    <2>1. Others(w) /\ work'[w].pc = "execute" /\ run'.status = "RUNNING"
      BY <1>0, <1>8 DEF Claim, ClaimIt, Others, WorkType, Handlers
    <2>2. booked["tick"] = 0 /\ \A v \in Workers : ~AtRun(v)
      BY <1>8, NobodyAt DEF Tell, Told
    <2>3. \A v \in Workers \ {w} : ~AtRun(v)' BY <2>1, <2>2 DEF AtRun, Others
    <2>4. Couriers' = Couriers /\ booked' = booked /\ order' = order BY <1>1 DEF Couriers
    <2>5. Holding' BY <2>1, <2>3 DEF Holding
    <2>6. Told' BY <2>1, <2>2, <2>4, BookedType DEF Tell, Told, TypeOK
    <2>7. Word' BY <2>1, <2>2, <2>3, <2>4 DEF Tell, Word, Others
    <2> QED BY <2>5, <2>6, <2>7 DEF Tell
  <1> QED BY <1>3, <1>4, <1>5, <1>6, <1>7, <1>8

LEMMA ExecuteTells ==
    ASSUME TypeOK, Placed, Tell, NEW w \in Workers,
           Execute(w) \/ Try(w) \/ Retry(w) \/ Finish(w)
    PROVE  Tell'
  <1>0. WorkType BY TypeParts
  <1>1. work[w].pc \in {"execute", "try", "retry", "finish"} /\ UNCHANGED <<order, booked>>
    BY DEF Execute, Try, Retry, Finish
  <1>2. work[w].by = "tick" /\ AtRun(w) BY <1>1, TickAtRun
  <1>3. run.status = "RUNNING" /\ \A v \in Workers \ {w} : ~AtRun(v) BY <1>2, OnlyOne
  <1>4. CASE Execute(w) \/ Try(w)
    <2>1. /\ Others(w) /\ work'[w].pc \in {"finish", "try", "retry", "debit"}
          /\ work'[w].by = work[w].by
          /\ work'[w].pc = "finish" => work'[w].result \in {"SKIPPED", "DRY_RUN"}
      BY <1>0, <1>4, ExecuteMoves, TryMoves
    <2>2. AtRun(w)' BY <1>2, <2>1, NotAtRun DEF Engaged
    <2>3. ~Coming(w) /\ run' = run BY <1>4 DEF Execute, Try, Coming
    <2> QED BY <1>1, <1>2, <2>1, <2>2, <2>3, ToldAlong
  <1>5. CASE Retry(w)
    <2>1. Others(w) /\ work'[w].pc = "idle" BY <1>0, <1>5, Moves DEF Retry
    <2>2. ~AtRun(w)' BY <2>1, NotAtRun DEF Engaged
    <2>3. run'.status \in {"SCHEDULED", "FAILED"} BY <1>5 DEF Retry, SetRun, TypeOK
    <2>4. booked["tick"] = 0 BY <1>2, <1>5 DEF Retry, Tell, Word, Coming
    <2> QED BY <1>1, <1>3, <2>1, <2>2, <2>3, <2>4, ToldAtLast
  <1>6. CASE Finish(w)
    <2>1. Others(w) /\ work'[w].pc = "idle" BY <1>0, <1>6, Moves DEF Finish
    <2>2. ~AtRun(w)' BY <2>1, NotAtRun DEF Engaged
    <2>3. run'.status = work[w].result /\ work[w].pc = "finish" BY <1>6 DEF Finish, SetRun, TypeOK
    <2>4. CASE work[w].result = "DISPATCHED"
      <3>1. Couriers > 0 BY <2>3, <2>4 DEF Tell, Word, Told
      <3> QED BY <1>1, <1>3, <2>1, <2>2, <2>3, <2>4, <3>1, ToldAtLast
    <2>5. CASE work[w].result # "DISPATCHED"
      <3>1. booked["tick"] = 0 BY <1>2, <2>3, <2>5 DEF Tell, Word, Coming
      <3> QED BY <1>1, <1>3, <2>1, <2>2, <2>3, <2>5, <3>1, ToldAtLast
    <2> QED BY <2>4, <2>5
  <1> QED BY <1>4, <1>5, <1>6

\* The booking itself, for the tick or for staff.
LEMMA BuyTells ==
    ASSUME TypeOK, Placed, Tell, NEW w \in Workers,
           \/ Refuse(w) \/ Debit(w) \/ CreateJob(w) \/ CreateJobFails(w)
           \/ RefundDispatch(w) \/ Attach(w)
    PROVE  Tell'
  <1>0. WorkType BY TypeParts
  <1>1. work[w].pc \in Buying /\ run' = run
    BY DEF Refuse, Debit, CreateJob, CreateJobFails, RefundDispatch, Attach, Buying
  <1>2. work[w].provider \in Providers BY <1>1 DEF Placed
  <1>3. work[w].by \in Bookers BY <1>0, HandlerType
  <1>4. work[w].by = "tick" => AtRun(w) BY <1>1, NotAtRun DEF Buying, Engaged
  <1>5. /\ booked \in [Bookers -> Nat]
        /\ booked["tick"] \in Nat /\ booked["staff"] \in Nat /\ Couriers \in Nat
    BY BookedType DEF TypeOK
  <1>6. CASE Refuse(w) \/ RefundDispatch(w)
    <2>1. /\ Others(w) /\ work'[w].pc \in {"idle", "try"} /\ work'[w].by = "tick"
          /\ work'[w].pc = "try" => work[w].by = "tick"
      BY <1>6, RefusedMoves DEF Refuse, RefundDispatch
    <2>2. UNCHANGED <<order, booked>> /\ ~Coming(w)
      BY <1>6 DEF Refuse, RefundDispatch, Coming
    <2>3. CASE work[w].by = "tick"
      <3>1. AtRun(w) BY <1>4, <2>3
      <3>2. work'[w].pc = "try"
        BY <1>0, <1>6, <2>3, Moves DEF Refuse, RefundDispatch, Refused, ByStaff
      <3>3. AtRun(w)' BY <2>1, <3>2, NotAtRun DEF Engaged
      <3> QED BY <1>1, <2>1, <2>2, <3>1, <3>2, <3>3, ToldAlong
    <2>4. CASE work[w].by = "staff"
      <3>1. work'[w].pc = "idle" BY <2>1, <2>4
      <3>2. ~AtRun(w) /\ ~AtRun(w)' BY <2>4, <3>1, NotAtRun DEF Engaged
      <3> QED BY <1>1, <2>1, <2>2, <3>1, <3>2, ToldAside
    <2> QED BY <1>3, <2>3, <2>4 DEF Bookers
  <1>7. CASE Debit(w) \/ CreateJobFails(w)
    <2>1. Others(w) /\ work'[w].pc \in {"call", "refund"} /\ work'[w].by = work[w].by
      BY <1>0, <1>7, Moves DEF Debit, CreateJobFails
    <2>2. UNCHANGED <<order, booked>> /\ ~Coming(w) BY <1>7 DEF Debit, CreateJobFails, Coming
    <2>3. CASE work[w].by = "tick"
      <3>1. AtRun(w) /\ AtRun(w)' BY <1>4, <2>1, <2>3, NotAtRun DEF Engaged
      <3> QED BY <1>1, <2>1, <2>2, <3>1, ToldAlong
    <2>4. CASE work[w].by = "staff"
      <3>1. ~AtRun(w) /\ ~AtRun(w)' BY <2>1, <2>4, NotAtRun
      <3> QED BY <1>1, <2>1, <2>2, <3>1, ToldAside
    <2> QED BY <1>3, <2>3, <2>4 DEF Bookers
  <1>8. CASE CreateJob(w)
    <2>1. Others(w) /\ work'[w].pc = "attach" /\ work'[w].by = work[w].by
      BY <1>0, <1>8, Moves DEF CreateJob
    <2>2. order' = order /\ Couriers' = Couriers + 1 BY <1>8, BookingCounts DEF CreateJob
    <2>3. booked' = [booked EXCEPT ![work[w].by] = booked[work[w].by] + 1]
      BY <1>8 DEF CreateJob, CountBooking
    <2>4. booked'[work[w].by] = booked[work[w].by] + 1
          /\ \A b \in Bookers \ {work[w].by} : booked'[b] = booked[b]
      BY <1>3, <1>5, <2>3
    <2>5. booked[work[w].by] \in Nat BY <1>3, <1>5
    <2>6. \A v \in Workers : AtRun(v)' <=> AtRun(v)
      BY <1>8, <2>1 DEF AtRun, Others, CreateJob, Engaged
    <2>7. Held' <=> Held BY <2>6 DEF Held
    <2>8. Holding' BY <1>1, <2>6 DEF Tell, Holding
    <2>9. Word'
      <3>1. \A v \in Workers \ {w} : work[v].by \in Bookers BY <1>0, HandlerType
      <3>2. \A v \in Workers \ {w} : work[v].pc = "attach" => booked'[work[v].by] > 0
        BY <1>5, <2>4, <2>5, <3>1 DEF Tell, Word
      <3>3. \A v \in Workers \ {w} : AtRun(v) /\ ~Coming(v) => booked'["tick"] = 0
        <4>1. CASE work[w].by = "tick"
          BY <1>4, <4>1, OnlyOne
        <4>2. CASE work[w].by = "staff"
          <5>1. booked'["tick"] = booked["tick"] BY <2>4, <4>2 DEF Bookers
          <5> QED BY <5>1 DEF Tell, Word
        <4> QED BY <1>3, <4>1, <4>2 DEF Bookers
      <3>4. booked'[work'[w].by] > 0 BY <2>1, <2>4, <2>5
      <3> QED BY <2>1, <2>2, <2>6, <3>2, <3>3, <3>4 DEF Tell, Word, Coming, Others
    <2>10. Told'
      <3>1. Couriers' > 0 BY <1>5, <2>2
      <3>2. CASE work[w].by = "tick"
        <4>1. run.status = "RUNNING" /\ Held' BY <1>4, <2>7, <3>2, OnlyOne DEF Held
        <4> QED BY <1>1, <3>1, <4>1 DEF Told
      <3>3. CASE work[w].by = "staff"
        <4>1. booked'["tick"] = booked["tick"] BY <2>4, <3>3 DEF Bookers
        <4> QED BY <1>1, <2>2, <2>7, <3>1, <4>1 DEF Tell, Told
      <3> QED BY <1>3, <3>2, <3>3 DEF Bookers
    <2> QED BY <2>8, <2>9, <2>10 DEF Tell
  <1>9. CASE Attach(w)
    <2>1. booked' = booked /\ Couriers' = Couriers /\ work[w].pc = "attach"
      BY <1>9 DEF Attach, Couriers
    <2>2. order'.courier # NoProvider
      BY <1>2, <1>9, ProvidersAssumption DEF Attach, TypeOK
    <2>3. Couriers > 0 BY <1>3, <1>5, <2>1 DEF Tell, Word, Bookers, Couriers
    <2>4. /\ Others(w) /\ work'[w].by = "tick"
          /\ \/ ByStaff(w) /\ work'[w].pc = "idle"
             \/ work[w].by = "tick" /\ work'[w].pc = "finish" /\ work'[w].result = "DISPATCHED"
      <3>1. CASE ByStaff(w) BY <1>0, <1>9, <3>1, Moves DEF Attach
      <3>2. CASE ~ByStaff(w)
        <4>1. work[w].by = "tick" BY <1>3, <3>2 DEF ByStaff, Bookers
        <4>2. work'[w].result = "DISPATCHED"
          BY <1>0, <1>9, <3>2 DEF Attach, EndWith, WorkType, Handlers
        <4> QED BY <1>0, <1>9, <3>2, <4>1, <4>2, Moves DEF Attach
      <3> QED BY <3>1, <3>2
    <2>5. \A v \in Workers : AtRun(v)' <=> AtRun(v)
      BY <2>1, <2>4 DEF AtRun, Others, Engaged, ByStaff
    <2>6. Held' <=> Held BY <2>5 DEF Held
    <2>7. Holding' BY <1>1, <2>5 DEF Tell, Holding
    <2>8. Told' BY <1>1, <2>1, <2>2, <2>3, <2>6 DEF Tell, Told
    <2>9. Word'
      <3>1. ASSUME NEW v \in Workers, v # w
            PROVE  /\ AtRun(v)' /\ ~Coming(v)' => booked'["tick"] = 0
                   /\ work'[v].pc = "attach" => booked'[work'[v].by] > 0
        <4>1. work'[v] = work[v] BY <2>4, <3>1 DEF Others
        <4> QED BY <2>1, <2>5, <4>1 DEF Tell, Word, Coming
      <3>2. work'[w].pc # "attach" /\ (AtRun(w)' => Coming(w)')
        BY <2>4 DEF AtRun, Engaged, Coming
      <3> QED BY <2>2, <3>1, <3>2 DEF Word
    <2> QED BY <2>7, <2>8, <2>9 DEF Tell
  <1> QED BY <1>6, <1>7, <1>8, <1>9

\* Timeouts and throwing statements are out of the claim, and so is dying with a
\* courier that is not written down.
LEMMA FaultTells ==
    ASSUME TypeOK, Placed, Tell, TellCalm', NEW w \in Workers, Fault(w)
    PROVE  Tell'
  <1>0. WorkType /\ FaultsType BY TypeParts
  <1>1. CASE CreateJobTimesOut(w) \/ Throws(w)
    BY <1>0, <1>1, HappenType DEF CreateJobTimesOut, Throws, TellCalm, AllFaults
  <1>2. CASE Crash(w)
    <2>1. Others(w) /\ work'[w].pc = "idle" BY <1>0, <1>2, Moves DEF Crash
    <2>2. UNCHANGED <<order, booked, run>> BY <1>2 DEF Crash
    <2>3. work[w].pc # "attach" BY <1>0, <1>2, HappenType DEF Crash, TellCalm, AllFaults
    <2>4. ~AtRun(w)' BY <2>1, NotAtRun DEF Engaged
    <2>5. CASE ~AtRun(w) BY <2>1, <2>2, <2>4, <2>5, ToldAside
    <2>6. CASE AtRun(w)
      <3>1. run.status = "RUNNING" /\ \A v \in Workers \ {w} : ~AtRun(v) BY <2>6, OnlyOne
      <3>2. booked["tick"] > 0 => order.courier # NoProvider
        BY <2>3, <2>6, BookedType DEF Tell, Word, Coming, TypeOK
      <3> QED BY <2>1, <2>2, <2>4, <3>1, <3>2, ToldAtLast
    <2> QED BY <2>5, <2>6
  <1> QED BY <1>1, <1>2 DEF Fault

LEMMA StaffTells ==
    ASSUME TypeOK, Placed, Tell, NEW w \in Workers, Staff(w) \/ WriteOwn(w) \/ SkipScheduled(w)
    PROVE  Tell'
  <1>0. WorkType BY TypeParts
  <1>1. ASSUME NEW pc \in {"debit", "own"}, NEW p, NEW kinds, ByHand(w, pc, p, kinds)
        PROVE  Tell'
    <2>1. work[w].pc = "idle" /\ UNCHANGED <<order, run, booked>> BY <1>1 DEF ByHand, Idle
    <2>2. Others(w) /\ work'[w].pc = pc /\ work'[w].by = "staff"
      BY <1>0, <1>1 DEF ByHand, Others, WorkType, Idle
    <2>3. ~AtRun(w) /\ ~AtRun(w)' BY <2>1, <2>2, NotAtRun DEF Engaged
    <2> QED BY <2>1, <2>2, <2>3, ToldAside
  <1>2. CASE \E p \in Providers : BookByHand(w, p) BY <1>1, <1>2 DEF BookByHand
  <1>3. CASE GiveToOwn(w) BY <1>1, <1>3 DEF GiveToOwn
  <1>4. CASE DeleteRule(w) \/ WriteOwn(w) \/ SkipScheduled(w)
    <2>1. Others(w) /\ work'[w].pc \in {"idle", "clean"}
      BY <1>0, <1>4, Moves DEF DeleteRule, WriteOwn, SkipScheduled
    <2>2. work[w].pc \notin Engaged
      BY <1>4 DEF DeleteRule, WriteOwn, SkipScheduled, Idle, Engaged
    <2>3. ~AtRun(w) /\ ~AtRun(w)' BY <2>1, <2>2, NotAtRun DEF Engaged
    <2>4. booked' = booked /\ order'.courier = order.courier
      BY <1>4 DEF DeleteRule, WriteOwn, SkipScheduled, TypeOK
    <2>5. CASE SkipScheduled(w) /\ run.status = "SCHEDULED"
      <3>1. run'.status = "SKIPPED" BY <2>5 DEF SkipScheduled, TypeOK
      <3>2. booked["tick"] = 0 /\ \A v \in Workers : ~AtRun(v)
        BY <2>5, NobodyAt DEF Tell, Told
      <3> QED BY <2>1, <2>3, <2>4, <3>1, <3>2, ToldAtLast
    <2>6. CASE ~(SkipScheduled(w) /\ run.status = "SCHEDULED")
      <3>1. run' = run BY <1>4, <2>6 DEF DeleteRule, WriteOwn, SkipScheduled
      <3> QED BY <2>1, <2>3, <2>4, <3>1, ToldAside
    <2> QED BY <2>5, <2>6
  <1> QED BY <1>2, <1>3, <1>4 DEF Staff

LEMMA OfficeTells ==
    ASSUME TypeOK, Tell, TakeBack \/ Close \/ \E r \in {"on", "dry", "off"} : UpdateRule(r)
    PROVE  Tell'
  <1>1. UNCHANGED <<run, booked, work>> /\ order'.courier = order.courier
    BY DEF TakeBack, Close, UpdateRule, TypeOK
  <1> QED BY <1>1 DEF Tell, Holding, Told, Word, Coming, AtRun, Held, Couriers

LEMMA TellStep == ASSUME TypeOK, Placed, TellInv, [Next]_vars PROVE TellInv'
  <1>1. CASE UNCHANGED vars
    BY <1>1 DEF vars, TellInv, TellCalm, Tell, Holding, Told, Word, Coming, AtRun, Held, Couriers
  <1>2. CASE Next
    <2>1. SUFFICES ASSUME TellCalm' PROVE Tell'
      BY DEF TellInv
    <2>2. Tell BY <1>2, <2>1, KindsGrow DEF TellInv, TellCalm
    <2> QED BY <1>2, <2>1, <2>2, NextStep, TickTells, RunTells, ExecuteTells, BuyTells, FaultTells,
            StaffTells, OfficeTells DEF Step
  <1> QED BY <1>1, <1>2

LEMMA TellInit == ASSUME Init PROVE TellInv
  <1>1. \A w \in Workers : work[w].pc = "idle" BY DEF Init, Idle
  <1>2. \A w \in Workers : ~AtRun(w) BY <1>1 DEF AtRun, Engaged
  <1>3. run.status = "none" /\ order.courier = NoProvider /\ booked["tick"] = 0
    BY DEF Init, Bookers
  <1> QED BY <1>1, <1>2, <1>3 DEF TellInv, Tell, Holding, Told, Word

LEMMA AtRestTold == ASSUME TellInv, TellCalm PROVE RunTellsTheTruth
  BY DEF TellInv, Tell, Told, RunTellsTheTruth

\* When nothing is under way, the run says what was booked, and the wallet is
\* charged for it, whatever the providers, ticks, retries and deaths.
THEOREM BooksCorrect == Spec => []BooksAgree
  <1>1. Init => OneInv /\ FeesInv /\ TellInv
    BY FeesInit, TellInit
       DEF Init, OneInv, Placed, Alone, Road, Couriers, AtRun, ByStaff, Idle, Engaged, Buying,
           Bookers
  <1>2. OneInv => Placed BY DEF OneInv
  <1>3. TypeOK /\ FeesInv /\ TellInv => BooksAgree
    BY FeesAtRest, AtRestTold DEF BooksAgree, FeeCalm, TellCalm
  <1> QED BY <1>1, <1>2, <1>3, OneStep, FeesStep, TellStep, AutoTypeCorrect, PTL DEF Spec
-----------------------------------------------------------------------------
(* The end of a run is final *)

InTime == "late" \notin faults.kinds

\* One handler at most is at the run, and the run says so, after deaths, errors of
\* the database and couriers that come unannounced.
HoldInv == InTime => Holding

\* A step that leaves the run alone, and that nobody comes to it by.
Aside(w) == run' = run /\ Others(w) /\ (AtRun(w)' => AtRun(w))

LEMMA AsideHolds ==
    ASSUME Holding, NEW w \in Workers, Aside(w)
    PROVE  Holding'
  <1>1. \A v \in Workers : AtRun(v)' => AtRun(v) BY DEF Aside, Others, AtRun
  <1> QED BY <1>1 DEF Holding, Aside

LEMMA TickAside == ASSUME TypeOK, NEW w \in Workers, Tick(w) PROVE Aside(w)
  <1>0. WorkType BY TypeParts
  <1>1. PICK result \in {"none", "DISPATCHED", "SCHEDULED"}, kinds \in SUBSET AllFaults :
            BeginTick(w, result, kinds)
    BY Zenon DEF Tick, Verdict, When, AllFaults
  <1>2. run' = run BY <1>1 DEF BeginTick
  <1>3. Others(w) /\ work'[w].pc \in {"new", "reclaim"}
    BY <1>0, <1>1 DEF BeginTick, Others, WorkType, Idle
  <1> QED BY <1>2, <1>3 DEF Aside, AtRun, Engaged

LEMMA LookAside ==
    ASSUME TypeOK, NEW w \in Workers, ScheduleNew(w) \/ RunDue(w)
    PROVE  Aside(w)
  <1>0. WorkType BY TypeParts
  <1>1. run' = run BY DEF ScheduleNew, RunDue
  <1>2. Others(w) /\ work'[w].pc \in {"create", "due", "claim", "idle"}
    <2>1. CASE ScheduleNew(w) BY <1>0, <2>1, Moves DEF ScheduleNew
    <2>2. CASE RunDue(w) /\ run.status = "SCHEDULED"
      BY <1>0, <2>2 DEF RunDue, Others, WorkType, Handlers
    <2>3. CASE RunDue(w) /\ run.status # "SCHEDULED" BY <1>0, <2>3, Moves DEF RunDue
    <2> QED BY <2>1, <2>2, <2>3
  <1> QED BY <1>1, <1>2 DEF Aside, AtRun, Engaged

LEMMA BuyAside ==
    ASSUME TypeOK, NEW w \in Workers,
           \/ Execute(w) \/ Try(w) \/ Refuse(w) \/ Debit(w) \/ CreateJob(w)
           \/ CreateJobFails(w) \/ RefundDispatch(w) \/ Attach(w)
    PROVE  Aside(w)
  <1>0. WorkType BY TypeParts
  <1>1. run' = run /\ work[w].pc \in Engaged
    BY DEF Execute, Try, Refuse, Debit, CreateJob, CreateJobFails, RefundDispatch, Attach, Engaged
  <1>2. Others(w) /\ (work'[w].by = work[w].by \/ work'[w].pc = "idle"
                       \/ work[w].by = "tick")
    <2>1. CASE Execute(w) BY <1>0, <2>1, ExecuteMoves
    <2>2. CASE Try(w) BY <1>0, <2>2, TryMoves
    <2>3. CASE Refuse(w) \/ RefundDispatch(w)
      <3>1. Refused(w) BY <2>3 DEF Refuse, RefundDispatch
      <3> QED BY <3>1, RefusedMoves
    <2>4. CASE Debit(w) \/ CreateJob(w) \/ CreateJobFails(w)
      BY <1>0, <2>4, Moves DEF Debit, CreateJob, CreateJobFails
    <2>5. CASE Attach(w)
      <3>1. Stop(w) \/ EndWith(w, "DISPATCHED") BY <2>5 DEF Attach
      <3> QED BY <1>0, <3>1, Moves
    <2> QED BY <2>1, <2>2, <2>3, <2>4, <2>5
  <1> QED BY <1>1, <1>2 DEF Aside, AtRun, Engaged

LEMMA FaultAside ==
    ASSUME TypeOK, Placed, NEW w \in Workers, Fault(w)
    PROVE  Aside(w)
  <1>0. WorkType BY TypeParts
  <1>1. CASE CreateJobTimesOut(w)
    <2>1. Others(w) /\ work'[w].by = work[w].by BY <1>0, <1>1, Moves DEF CreateJobTimesOut
    <2> QED BY <1>1, <2>1 DEF CreateJobTimesOut, Aside, AtRun, Engaged
  <1>2. CASE Crash(w)
    <2>1. Others(w) /\ work'[w].pc = "idle" BY <1>0, <1>2, Moves DEF Crash
    <2> QED BY <1>2, <2>1 DEF Crash, Aside, AtRun, Engaged
  <1>3. CASE Throws(w)
    <2>1. run' = run BY <1>3 DEF Throws
    <2>2. CASE work[w].pc \in {"refund", "attach"} /\ Refused(w)
      <3>1. Others(w) /\ (work'[w].pc = "idle" \/ work[w].by = "tick")
        BY <2>2, RefusedMoves
      <3> QED BY <2>1, <2>2, <3>1 DEF Aside, AtRun, Engaged
    <2>3. CASE work[w].pc \in {"execute", "retry", "finish"}
      <3>1. AtRun(w) BY <2>3, TickAtRun
      <3>2. Others(w)
        BY <1>0, <1>3, <2>3, Moves DEF Throws, Others, WorkType, Handlers
      <3> QED BY <2>1, <3>1, <3>2 DEF Aside
    <2> QED BY <1>3, <2>2, <2>3 DEF Throws
  <1> QED BY <1>1, <1>2, <1>3 DEF Fault

LEMMA StaffAside ==
    ASSUME TypeOK, NEW w \in Workers, Staff(w) \/ WriteOwn(w)
    PROVE  Aside(w)
  <1>0. WorkType BY TypeParts
  <1>1. ASSUME NEW pc \in {"debit", "own"}, NEW p, NEW kinds, ByHand(w, pc, p, kinds)
        PROVE  Aside(w)
    <2>1. run' = run BY <1>1 DEF ByHand
    <2>2. Others(w) /\ work'[w].by = "staff"
      BY <1>0, <1>1 DEF ByHand, Others, WorkType, Idle
    <2> QED BY <2>1, <2>2 DEF Aside, AtRun
  <1>2. CASE \E p \in Providers : BookByHand(w, p) BY <1>1, <1>2 DEF BookByHand
  <1>3. CASE GiveToOwn(w) BY <1>1, <1>3 DEF GiveToOwn
  <1>4. CASE DeleteRule(w) \/ WriteOwn(w)
    <2>1. Others(w) /\ work'[w].pc \in {"idle", "clean"}
      BY <1>0, <1>4, Moves DEF DeleteRule, WriteOwn
    <2>2. run' = run BY <1>4 DEF DeleteRule, WriteOwn
    <2> QED BY <2>1, <2>2 DEF Aside, AtRun, Engaged
  <1> QED BY <1>2, <1>3, <1>4 DEF Staff

\* The steps that write the run: all but one find nobody at it, and that one is
\* whoever is.  None of them finds it ended.
Written == Holding' /\ (run' # run => run.status \in Live \union {"none"})

LEMMA NobodyThen ==
    ASSUME NEW w \in Workers, Others(w), work'[w].pc \notin Engaged,
           \A v \in Workers \ {w} : ~AtRun(v)
    PROVE  Holding'
  <1>1. \A v \in Workers : ~AtRun(v)' BY DEF AtRun, Others
  <1> QED BY <1>1 DEF Holding

LEMMA RunWritten ==
    ASSUME TypeOK, Placed, Holding, InTime', NEW w \in Workers,
           \/ Reclaim(w) \/ Create(w) \/ Claim(w) \/ Retry(w) \/ Finish(w)
           \/ SkipScheduled(w)
    PROVE  Written
  <1>0. WorkType /\ FaultsType BY TypeParts
  <1> USE DEF Written
  <1>1. ASSUME Others(w), work'[w].pc \notin Engaged, ~AtRun(w), run' = run PROVE Written
    BY <1>1, AsideHolds DEF Aside, AtRun
  <1>2. CASE Reclaim(w)
    <2>1. Others(w) /\ work'[w].pc = "new" BY <1>0, <1>2 DEF Reclaim, Others, WorkType, Handlers
    <2>2. Stale
      BY <1>2, <1>0 DEF Reclaim, Note, When, InTime, FaultsType, FaultLog
    <2> QED BY <2>1, <2>2, NobodyThen DEF Stale, Engaged, Live
  <1>3. CASE Create(w)
    <2>1. Others(w) /\ work'[w].pc = "due" BY <1>0, <1>3, Moves DEF Create
    <2>2. CASE run.status = "none"
      <3>1. \A v \in Workers : ~AtRun(v) BY <2>2 DEF Holding
      <3> QED BY <2>1, <2>2, <3>1, NobodyThen DEF Engaged
    <2>3. CASE run.status # "none"
      <3>1. run' = run /\ ~AtRun(w) BY <1>3, <2>3 DEF Create, AtRun, Engaged
      <3> QED BY <2>1, <3>1, <1>1 DEF Engaged
    <2> QED BY <2>2, <2>3
  <1>4. CASE Claim(w)
    <2>1. CASE run.status = "SCHEDULED"
      <3>1. Others(w) /\ work'[w].pc = "execute" /\ run'.status = "RUNNING"
        BY <1>0, <1>4, <2>1 DEF Claim, ClaimIt, Others, WorkType, Handlers
      <3>2. \A v \in Workers : ~AtRun(v) BY <2>1 DEF Holding
      <3>3. \A v \in Workers \ {w} : ~AtRun(v)' BY <3>1, <3>2 DEF AtRun, Others
      <3>4. Holding' BY <3>1, <3>3 DEF Holding
      <3> QED BY <2>1, <3>4 DEF Live
    <2>2. CASE run.status # "SCHEDULED"
      <3>1. Others(w) /\ work'[w].pc = "idle" /\ run' = run
        BY <1>0, <1>4, <2>2, Moves DEF Claim
      <3>2. ~AtRun(w) BY <1>4 DEF Claim, AtRun, Engaged
      <3> QED BY <3>1, <3>2, <1>1 DEF Engaged
    <2> QED BY <2>1, <2>2
  <1>5. CASE Retry(w) \/ Finish(w)
    <2>1. AtRun(w) BY <1>5, TickAtRun DEF Retry, Finish
    <2>2. Others(w) /\ work'[w].pc = "idle" BY <1>0, <1>5, Moves DEF Retry, Finish
    <2>3. run.status = "RUNNING" /\ \A v \in Workers \ {w} : ~AtRun(v)
      BY <2>1 DEF Holding
    <2> QED BY <2>2, <2>3, NobodyThen DEF Engaged, Live
  <1>6. CASE SkipScheduled(w)
    <2>1. Others(w) /\ work'[w].pc = "idle" BY <1>0, <1>6, Moves DEF SkipScheduled
    <2>2. CASE run.status = "SCHEDULED"
      <3>1. \A v \in Workers : ~AtRun(v) BY <2>2 DEF Holding
      <3> QED BY <2>1, <2>2, <3>1, NobodyThen DEF Engaged, Live
    <2>3. CASE run.status # "SCHEDULED"
      <3>1. run' = run /\ ~AtRun(w) BY <1>6, <2>3 DEF SkipScheduled, AtRun, Engaged
      <3> QED BY <2>1, <3>1, <1>1 DEF Engaged
    <2> QED BY <2>2, <2>3
  <1> QED BY <1>2, <1>3, <1>4, <1>5, <1>6

LEMMA HoldStep ==
    ASSUME TypeOK, Placed, HoldInv, [Next]_vars
    PROVE  /\ HoldInv'
           /\ InTime' /\ run' # run => run.status \in Live \union {"none"}
  <1>1. CASE UNCHANGED vars BY <1>1 DEF vars, HoldInv, InTime, Holding, AtRun
  <1>2. ASSUME Next, InTime' PROVE Written
    <2>1. Holding BY <1>2, KindsGrow DEF HoldInv, InTime
    <2>2. ASSUME NEW w \in Workers, Aside(w) PROVE Written
      BY <2>1, <2>2, AsideHolds DEF Written, Aside
    <2>3. ASSUME TakeBack \/ Close \/ \E r \in {"on", "dry", "off"} : UpdateRule(r)
          PROVE  Written
      BY <2>1, <2>3 DEF TakeBack, Close, UpdateRule, Written, Holding, AtRun
    <2> QED BY <1>2, <2>1, <2>2, <2>3, NextStep, TickAside, LookAside, BuyAside, FaultAside,
            StaffAside, RunWritten DEF Step
  <1> QED BY <1>1, <1>2 DEF HoldInv, Written

\* For any number of processes that tick, die and fail at any statement: once a
\* run has ended it is never written again, unless it was taken back too late.
THEOREM VerdictCorrect == Spec => VerdictIsFinal
  <1>1. Init => OneInv /\ HoldInv
    BY DEF Init, OneInv, Placed, Alone, Road, Couriers, AtRun, ByStaff, Idle, Engaged, Buying,
           Bookers, HoldInv, Holding
  <1>2. OneInv => Placed BY DEF OneInv
  <1>3. TypeOK /\ Placed /\ HoldInv /\ [Next]_vars
            => [run.status \notin Live \union {"none"} /\ run' # run
                    => "late" \in faults'.kinds]_vars
    BY HoldStep DEF InTime
  <1>4. TypeOK /\ Placed /\ HoldInv /\ [Next]_vars => HoldInv' BY HoldStep
  <1> QED BY <1>1, <1>2, <1>3, <1>4, OneStep, AutoTypeCorrect, PTL DEF Spec, VerdictIsFinal
-----------------------------------------------------------------------------
(* What RunSettles rests on: who leaves a run RUNNING, and how often it is tried *)

Verdicts == {"DISPATCHED", "DRY_RUN", "FAILED", "SKIPPED"}

\* What a handler is about to write ends the run, or puts it back.
ResultInv ==
    \A w \in Workers :
        /\ work[w].pc = "finish" => work[w].result \in Verdicts
        /\ work[w].pc = "reclaim" => work[w].result \in {"DISPATCHED", "SCHEDULED"}

LEMMA ResultBy ==
    ASSUME ResultInv, NEW w \in Workers, Others(w),
           work'[w].pc = "finish" => work'[w].result \in Verdicts,
           work'[w].pc = "reclaim" => work'[w].result \in {"DISPATCHED", "SCHEDULED"}
    PROVE  ResultInv'
  BY DEF ResultInv, Others

LEMMA EndsWith ==
    ASSUME WorkType, NEW w \in Workers, NEW result \in Verdicts, EndWith(w, result)
    PROVE  /\ Others(w) /\ work'[w].pc = "finish" /\ work'[w].result \in Verdicts
           /\ work'[w].by = work[w].by /\ work'[w].seen = work[w].seen
  BY DEF EndWith, Others, WorkType, Handlers

LEMMA RunResults ==
    ASSUME TypeOK, ResultInv, NEW w \in Workers,
           \/ Tick(w) \/ Reclaim(w) \/ ScheduleNew(w) \/ Create(w) \/ RunDue(w) \/ Claim(w)
           \/ Retry(w) \/ Finish(w)
    PROVE  ResultInv'
  <1>0. WorkType BY TypeParts
  <1>1. CASE Tick(w)
    <2>1. PICK result \in {"none", "DISPATCHED", "SCHEDULED"}, kinds \in SUBSET AllFaults :
              BeginTick(w, result, kinds)
      BY <1>1, Zenon DEF Tick, Verdict, When, AllFaults
    <2>2. Others(w) BY <1>0, <2>1 DEF BeginTick, Others, WorkType
    <2>3. work'[w] = [Idle EXCEPT !.pc = IF result = "none" THEN "new" ELSE "reclaim",
                                  !.result = result]
      BY <1>0, <2>1 DEF BeginTick, WorkType
    <2> QED BY <2>2, <2>3, ResultBy DEF Idle
  <1>2. CASE Reclaim(w)
    <2>1. Others(w) /\ work'[w].pc = "new" BY <1>0, <1>2 DEF Reclaim, Others, WorkType, Handlers
    <2> QED BY <2>1, ResultBy
  <1>3. CASE ScheduleNew(w) \/ Create(w) \/ RunDue(w)
    <2>1. Others(w) /\ work'[w].pc \in {"create", "due", "claim", "idle"}
      <3>1. CASE ScheduleNew(w) \/ Create(w) BY <1>0, <3>1, Moves DEF ScheduleNew, Create
      <3>2. CASE RunDue(w) /\ run.status = "SCHEDULED"
        BY <1>0, <3>2 DEF RunDue, Others, WorkType, Handlers
      <3>3. CASE RunDue(w) /\ run.status # "SCHEDULED" BY <1>0, <3>3, Moves DEF RunDue
      <3> QED BY <1>3, <3>1, <3>2, <3>3
    <2> QED BY <2>1, ResultBy
  <1>4. CASE Claim(w)
    <2>1. Others(w) /\ work'[w].pc \in {"execute", "idle"}
      <3>1. CASE ClaimIt(w) BY <1>0, <3>1 DEF ClaimIt, Others, WorkType, Handlers
      <3>2. CASE Stop(w) BY <1>0, <3>2, Moves
      <3> QED BY <1>4, <3>1, <3>2 DEF Claim
    <2> QED BY <2>1, ResultBy
  <1>5. CASE Retry(w) \/ Finish(w)
    <2>1. Others(w) /\ work'[w].pc = "idle" BY <1>0, <1>5, Moves DEF Retry, Finish
    <2> QED BY <2>1, ResultBy
  <1> QED BY <1>1, <1>2, <1>3, <1>4, <1>5

LEMMA BuyResults ==
    ASSUME TypeOK, ResultInv, NEW w \in Workers,
           \/ Execute(w) \/ Try(w) \/ Refuse(w) \/ Debit(w) \/ CreateJob(w)
           \/ CreateJobFails(w) \/ RefundDispatch(w) \/ Attach(w) \/ WriteOwn(w)
           \/ SkipScheduled(w)
    PROVE  ResultInv'
  <1>0. WorkType BY TypeParts
  <1>1. CASE Execute(w)
    <2>1. /\ Others(w) /\ work'[w].pc \in {"finish", "try"}
          /\ work'[w].pc = "finish" => work'[w].result \in {"SKIPPED", "DRY_RUN"}
      BY <1>0, <1>1, ExecuteMoves
    <2> QED BY <2>1, ResultBy DEF Verdicts
  <1>2. CASE Try(w)
    <2>1. Others(w) /\ work'[w].pc \in {"retry", "try", "debit"} BY <1>0, <1>2, TryMoves
    <2> QED BY <2>1, ResultBy
  <1>3. CASE Refuse(w) \/ RefundDispatch(w)
    <2>1. Refused(w) BY <1>3 DEF Refuse, RefundDispatch
    <2>2. Others(w) /\ work'[w].pc \in {"idle", "try"} BY <2>1, RefusedMoves
    <2> QED BY <2>2, ResultBy
  <1>4. CASE Debit(w) \/ CreateJob(w) \/ CreateJobFails(w)
    <2>1. Others(w) /\ work'[w].pc \in {"call", "attach", "refund"}
      BY <1>0, <1>4, Moves DEF Debit, CreateJob, CreateJobFails
    <2> QED BY <2>1, ResultBy
  <1>5. CASE Attach(w)
    <2>1. CASE Stop(w)
      <3>1. Others(w) /\ work'[w].pc = "idle" BY <1>0, <2>1, Moves
      <3> QED BY <3>1, ResultBy
    <2>2. CASE EndWith(w, "DISPATCHED")
      <3>1. "DISPATCHED" \in Verdicts BY DEF Verdicts
      <3>2. Others(w) /\ work'[w].pc = "finish" /\ work'[w].result \in Verdicts
        BY <1>0, <2>2, <3>1, EndsWith
      <3> QED BY <3>2, ResultBy
    <2> QED BY <1>5, <2>1, <2>2 DEF Attach
  <1>6. CASE WriteOwn(w) \/ SkipScheduled(w)
    <2>1. Others(w) /\ work'[w].pc = "idle" BY <1>0, <1>6, Moves DEF WriteOwn, SkipScheduled
    <2> QED BY <2>1, ResultBy
  <1> QED BY <1>1, <1>2, <1>3, <1>4, <1>5, <1>6

\* Where a statement that throws leads.
LEMMA ThrowsMoves ==
    ASSUME TypeOK, NEW w \in Workers, Throws(w)
    PROVE  /\ Others(w) /\ work'[w].pc \in {"idle", "try", "finish"}
           /\ work'[w].pc = "finish" => work'[w].result \in Verdicts
  <1>0. WorkType BY TypeParts
  <1>1. CASE Refused(w)
    <2>1. Others(w) /\ work'[w].pc \in {"idle", "try"} BY <1>1, RefusedMoves
    <2> QED BY <2>1
  <1>2. CASE work' = [work EXCEPT ![w].pc = "try", ![w].result = "none"]
    BY <1>0, <1>2 DEF Others, WorkType, Handlers
  <1>3. CASE EndWith(w, "FAILED")
    <2>1. "FAILED" \in Verdicts BY DEF Verdicts
    <2> QED BY <1>0, <1>3, <2>1, EndsWith
  <1>4. CASE Stop(w)
    <2>1. Others(w) /\ work'[w].pc = "idle" BY <1>0, <1>4, Moves
    <2> QED BY <2>1
  <1> QED BY <1>1, <1>2, <1>3, <1>4 DEF Throws

LEMMA OutsideResults ==
    ASSUME TypeOK, ResultInv, NEW w \in Workers, Fault(w) \/ Staff(w)
    PROVE  ResultInv'
  <1>0. WorkType BY TypeParts
  <1>1. CASE CreateJobTimesOut(w) \/ Crash(w) \/ DeleteRule(w)
    <2>1. Others(w) /\ work'[w].pc \in {"refund", "idle", "clean"}
      BY <1>0, <1>1, Moves DEF CreateJobTimesOut, Crash, DeleteRule
    <2> QED BY <2>1, ResultBy
  <1>2. CASE Throws(w)
    <2>1. /\ Others(w) /\ work'[w].pc \in {"idle", "try", "finish"}
          /\ work'[w].pc = "finish" => work'[w].result \in Verdicts
      BY <1>2, ThrowsMoves
    <2> QED BY <2>1, ResultBy
  <1>3. ASSUME NEW pc \in {"debit", "own"}, NEW p, NEW kinds, ByHand(w, pc, p, kinds)
        PROVE  ResultInv'
    <2>1. Others(w) /\ work'[w].pc = pc
      BY <1>0, <1>3 DEF ByHand, Others, WorkType, Idle
    <2> QED BY <2>1, ResultBy
  <1>4. CASE \E p \in Providers : BookByHand(w, p) BY <1>3, <1>4 DEF BookByHand
  <1>5. CASE GiveToOwn(w) BY <1>3, <1>5 DEF GiveToOwn
  <1> QED BY <1>1, <1>2, <1>4, <1>5 DEF Fault, Staff

LEMMA ResultStep == ASSUME TypeOK, ResultInv, [Next]_vars PROVE ResultInv'
  <1>1. CASE UNCHANGED vars BY <1>1 DEF vars, ResultInv
  <1>2. CASE TakeBack \/ Close \/ \E r \in {"on", "dry", "off"} : UpdateRule(r)
    <2>1. work' = work BY <1>2 DEF TakeBack, Close, UpdateRule
    <2> QED BY <2>1 DEF ResultInv
  <1> QED BY <1>1, <1>2, NextStep, RunResults, BuyResults, OutsideResults DEF Step

\* A handler at the run that goes on stays at it, and keeps its count.
LEMMA BuysOn ==
    ASSUME TypeOK, NEW w \in Workers,
           \/ Execute(w) \/ Try(w) \/ Refuse(w) \/ Debit(w) \/ CreateJob(w)
           \/ CreateJobFails(w) \/ RefundDispatch(w) \/ Attach(w) \/ CreateJobTimesOut(w)
    PROVE  /\ work'[w].pc # "claim"
           /\ AtRun(w) => AtRun(w)' /\ work'[w].seen = work[w].seen
  <1>0. WorkType BY TypeParts
  <1>1. CASE Execute(w)
    <2>1. work'[w].pc \in {"finish", "try"} /\ work'[w].by = work[w].by
      BY <1>0, <1>1, ExecuteMoves
    <2>2. work'[w].seen = work[w].seen
      <3>1. CASE rule \in {"off", "deleted"} \/ ~Eligible
        BY <1>0, <1>1, <3>1 DEF Execute, EndWith, WorkType, Handlers
      <3>2. CASE ~(rule \in {"off", "deleted"} \/ ~Eligible)
        BY <1>0, <1>1, <3>2 DEF Execute, EndWith, WorkType, Handlers
      <3> QED BY <3>1, <3>2
    <2> QED BY <2>1, <2>2 DEF AtRun, Engaged
  <1>2. CASE Try(w)
    <2>1. work'[w].pc \in {"retry", "try", "debit"} /\ work'[w].by = work[w].by
      BY <1>0, <1>2, TryMoves
    <2>2. work'[w].seen = work[w].seen
      <3>1. CASE work[w].left = {} BY <1>0, <1>2, <3>1 DEF Try, GoOn, WorkType, Handlers
      <3>2. CASE work[w].left # {}
        <4>1. PICK p \in work[w].left :
                  work' = IF order.courier = p THEN [work EXCEPT ![w].left = @ \ {p}]
                          ELSE [work EXCEPT ![w].pc = "debit", ![w].provider = p,
                                            ![w].left = @ \ {p}]
          BY <1>2, <3>2 DEF Try
        <4> QED BY <1>0, <4>1 DEF WorkType, Handlers
      <3> QED BY <3>1, <3>2
    <2> QED BY <2>1, <2>2 DEF AtRun, Engaged
  <1>3. CASE Refuse(w) \/ RefundDispatch(w)
    <2>1. Refused(w) BY <1>3 DEF Refuse, RefundDispatch
    <2>2. work'[w].pc \in {"idle", "try"} BY <2>1, RefusedMoves
    <2>3. ASSUME AtRun(w)
          PROVE  work'[w].pc = "try" /\ work'[w].by = "tick" /\ work'[w].seen = work[w].seen
      <3>1. Turn(w, "try") BY <2>1, <2>3 DEF Refused, ByStaff, AtRun
      <3> QED BY <1>0, <2>3, <3>1 DEF Turn, AtRun, WorkType, Handlers
    <2> QED BY <2>2, <2>3 DEF AtRun, Engaged
  <1>4. CASE Debit(w) \/ CreateJob(w) \/ CreateJobFails(w) \/ CreateJobTimesOut(w)
    <2>1. \E pc \in {"call", "attach", "refund"} : GoOn(w, pc)
      BY <1>4 DEF Debit, CreateJob, CreateJobFails, CreateJobTimesOut
    <2>2. /\ work'[w].pc \in {"call", "attach", "refund"} /\ work'[w].by = work[w].by
          /\ work'[w].seen = work[w].seen
      BY <1>0, <2>1 DEF GoOn, WorkType, Handlers
    <2> QED BY <2>2 DEF AtRun, Engaged
  <1>5. CASE Attach(w)
    <2>1. CASE ByStaff(w) BY <1>0, <1>5, <2>1, Moves DEF Attach, ByStaff, AtRun
    <2>2. CASE ~ByStaff(w)
      <3>1. "DISPATCHED" \in Verdicts BY DEF Verdicts
      <3>2. work'[w].pc = "finish" /\ work'[w].by = work[w].by /\ work'[w].seen = work[w].seen
        BY <1>0, <1>5, <2>2, <3>1, EndsWith DEF Attach
      <3> QED BY <3>2 DEF AtRun, Engaged
    <2> QED BY <2>1, <2>2
  <1> QED BY <1>1, <1>2, <1>3, <1>4, <1>5

\* Who looks, or works for staff, is not at the run.
LEMMA LooksOn ==
    ASSUME TypeOK, NEW w \in Workers,
           Tick(w) \/ ScheduleNew(w) \/ RunDue(w) \/ Staff(w) \/ WriteOwn(w)
    PROVE  ~AtRun(w) /\ (~RunDue(w) => work'[w].pc # "claim")
  <1>0. WorkType BY TypeParts
  <1>1. CASE Tick(w)
    <2>1. PICK result, kinds : BeginTick(w, result, kinds) BY <1>1, Zenon DEF Tick
    <2>2. work[w].pc = "idle" /\ work'[w].pc \in {"new", "reclaim"}
      BY <1>0, <2>1 DEF BeginTick, Idle, WorkType
    <2> QED BY <2>2 DEF AtRun, Engaged
  <1>2. CASE ScheduleNew(w) \/ RunDue(w)
    <2>1. work[w].pc \in {"new", "due"} BY <1>2 DEF ScheduleNew, RunDue
    <2>2. ScheduleNew(w) => work'[w].pc \in {"create", "due"} BY <1>0, Moves DEF ScheduleNew
    <2> QED BY <1>2, <2>1, <2>2 DEF AtRun, Engaged
  <1>3. ASSUME NEW pc \in {"debit", "own"}, NEW p, NEW kinds, ByHand(w, pc, p, kinds)
        PROVE  work[w].pc = "idle" /\ work'[w].pc # "claim"
    BY <1>0, <1>3 DEF ByHand, Idle, WorkType
  <1>4. CASE Staff(w)
    <2>1. work[w].pc = "idle" /\ work'[w].pc # "claim"
      <3>1. CASE \E p \in Providers : BookByHand(w, p) BY <1>3, <3>1 DEF BookByHand
      <3>2. CASE GiveToOwn(w) BY <1>3, <3>2 DEF GiveToOwn
      <3>3. CASE DeleteRule(w) BY <1>0, <3>3, Moves DEF DeleteRule, Idle
      <3> QED BY <1>4, <3>1, <3>2, <3>3 DEF Staff
    <2> QED BY <2>1 DEF AtRun, Engaged
  <1>5. CASE WriteOwn(w)
    <2>1. work[w].pc = "own" /\ work'[w].pc = "idle" BY <1>0, <1>5, Moves DEF WriteOwn
    <2> QED BY <2>1 DEF AtRun, Engaged
  <1> QED BY <1>1, <1>2, <1>4, <1>5

\* A tick that can still claim is not at the run, and works for no staff.
LEMMA NotYetAt ==
    ASSUME TypeOK, Placed, NEW w \in Workers,
           work[w].pc \in {"reclaim", "create", "due", "claim", "clean"}
    PROVE  ~AtRun(w) /\ work[w].by = "tick"
  <1>1. work[w].by \in Bookers BY TypeParts, HandlerType
  <1> QED BY <1>1 DEF AtRun, Engaged, Placed, ByStaff, Buying, Bookers

\* What goes wrong is counted.
LEMMA HappenCounts ==
    ASSUME FaultsType, NEW kinds \in SUBSET AllFaults, Happen(kinds)
    PROVE  /\ faults.n \in Nat /\ faults'.n \in Nat /\ faults.n <= faults'.n
           /\ \A kind : kinds = {kind} => faults'.n = faults.n + 1
  <1>1. CASE kinds = {} BY <1>1 DEF Happen, FaultsType, FaultLog
  <1>2. CASE kinds # {}
    <2>0. kinds \subseteq Faults BY <1>2 DEF Happen
    <2>1. Cardinality(kinds) \in Nat
      BY <2>0, FaultsAssumption, FS_Subset, FS_CardinalityType
    <2>2. faults'.n = faults.n + Cardinality(kinds)
      BY <1>2 DEF Happen, FaultsType, FaultLog
    <2>3. \A kind : kinds = {kind} => Cardinality(kinds) = 1 BY FS_Singleton
    <2> QED BY <2>1, <2>2, <2>3 DEF FaultsType, FaultLog
  <1> QED BY <1>1, <1>2

LEMMA FaultCounts ==
    ASSUME TypeOK, NEW w \in Workers, Fault(w)
    PROVE  faults.n \in Nat /\ faults'.n = faults.n + 1
  <1>0. FaultsType BY TypeParts
  <1>1. PICK kind \in AllFaults : Happen({kind})
    BY DEF Fault, CreateJobTimesOut, Throws, Crash, AllFaults
  <1> QED BY <1>0, <1>1, HappenCounts

LEMMA CountGrows ==
    ASSUME TypeOK, Next
    PROVE  faults.n \in Nat /\ faults'.n \in Nat /\ faults.n <= faults'.n
  <1>0. FaultsType BY TypeParts
  <1>1. CASE \/ UNCHANGED faults
             \/ \E kinds \in SUBSET AllFaults : Happen(kinds)
    BY <1>0, <1>1, HappenCounts DEF FaultsType, FaultLog
  <1>2. ASSUME NEW w \in Workers, Tick(w)
        PROVE  \E kinds \in SUBSET AllFaults : Happen(kinds)
    <2>1. PICK kinds \in SUBSET AllFaults :
              Happen(kinds \union When(\E v \in Workers : ByStaff(v), "staff"))
      BY <1>2 DEF Tick, BeginTick, When, AllFaults
    <2>2. kinds \union When(\E v \in Workers : ByStaff(v), "staff") \in SUBSET AllFaults
      BY DEF When, AllFaults
    <2> QED BY <2>1, <2>2
  <1>3. ASSUME NEW w \in Workers, Reclaim(w) PROVE faults'.n = faults.n
    BY <1>0, <1>3 DEF Reclaim, Note, FaultsType, FaultLog
  <1>4. ASSUME NEW w \in Workers, Step(w) PROVE Reclaim(w) \/ UNCHANGED faults
    BY <1>4 DEF Step, ScheduleNew, Create, RunDue, Claim, ClaimIt, Execute, Try, Retry, Finish,
       Refuse, Debit, CreateJob, CreateJobFails, RefundDispatch, Attach, WriteOwn, SkipScheduled
  <1>5. ASSUME NEW w \in Workers, Staff(w)
        PROVE  UNCHANGED faults \/ \E kinds \in SUBSET AllFaults : Happen(kinds)
    <2>1. UNCHANGED faults \/ \E kinds \in SUBSET {"staff"} : Happen(kinds)
      BY <1>5 DEF Staff, BookByHand, GiveToOwn, ByHand, DeleteRule, When
    <2> QED BY <2>1 DEF AllFaults
  <1>6. ASSUME TakeBack \/ Close \/ \E r \in {"on", "dry", "off"} : UpdateRule(r)
        PROVE  UNCHANGED faults \/ \E kinds \in SUBSET AllFaults : Happen(kinds)
    <2>1. UNCHANGED faults \/ \E kinds \in SUBSET {"staff"} : Happen(kinds)
      BY <1>6 DEF TakeBack, Close, UpdateRule, When
    <2> QED BY <2>1 DEF AllFaults
  <1>7. faults.n \in Nat BY <1>0 DEF FaultsType, FaultLog
  <1> QED BY <1>1, <1>2, <1>3, <1>4, <1>5, <1>6, <1>7, NextStep, FaultCounts
-----------------------------------------------------------------------------
(* "A tick that died mid-run leaves RUNNING behind" *)

\* Nothing but a death, or a statement that threw, leaves a run RUNNING that nobody
\* is at: this is all that reclaimStale is for (auto-dispatch.service.ts:458).
StaleMeansDeath == Stale => faults.kinds \intersect {"crash", "orphan", "db"} # {}

DeathInv == run.status = "RUNNING" /\ ~Held
                => faults.kinds \intersect {"crash", "orphan", "db"} # {}

\* A step that leaves the run as it is, and somebody at it if somebody was.
LEMMA DeathAside ==
    ASSUME DeathInv, faults.kinds \subseteq faults'.kinds, NEW w \in Workers, Aside(w),
           AtRun(w) => AtRun(w)'
    PROVE  DeathInv'
  <1>1. Held => Held' BY DEF Held, Aside, Others, AtRun
  <1> QED BY <1>1 DEF DeathInv, Aside

LEMMA DeathFault ==
    ASSUME TypeOK, Placed, DeathInv, NEW w \in Workers, Fault(w),
           faults.kinds \subseteq faults'.kinds
    PROVE  DeathInv'
  <1>0. FaultsType BY TypeParts
  <1>1. CASE CreateJobTimesOut(w) BY <1>1, FaultAside, BuysOn, DeathAside
  <1>2. CASE Throws(w) \/ Crash(w)
    <2>1. PICK kind \in {"db", "crash", "orphan"} : Happen({kind})
      BY <1>2 DEF Throws, Crash
    <2>2. {kind} \in SUBSET AllFaults BY <2>1 DEF AllFaults
    <2>3. kind \in faults'.kinds BY <1>0, <2>1, <2>2, HappenType
    <2> QED BY <2>1, <2>3 DEF DeathInv
  <1> QED BY <1>1, <1>2 DEF Fault

LEMMA DeathRun ==
    ASSUME TypeOK, Placed, DeathInv, ResultInv, NEW w \in Workers,
           \/ Reclaim(w) \/ Create(w) \/ Claim(w) \/ Retry(w) \/ Finish(w)
           \/ SkipScheduled(w),
           faults.kinds \subseteq faults'.kinds
    PROVE  DeathInv'
  <1>0. WorkType /\ RowsType BY TypeParts
  <1>1. ASSUME run'.status # "RUNNING" PROVE DeathInv' BY <1>1 DEF DeathInv
  <1>2. ASSUME run' = run, Others(w), ~AtRun(w), work'[w].pc \notin Engaged PROVE DeathInv'
    BY <1>2, DeathAside DEF Aside, AtRun
  <1>3. CASE Reclaim(w)
    <2>1. work[w].result \in {"DISPATCHED", "SCHEDULED"} BY <1>3 DEF Reclaim, ResultInv
    <2> QED BY <1>0, <1>1, <1>3, <2>1 DEF Reclaim, SetRun, RowsType
  <1>4. CASE Create(w)
    <2>1. Others(w) /\ work'[w].pc = "due" BY <1>0, <1>4, Moves DEF Create
    <2>2. ~AtRun(w) BY <1>4, NotYetAt DEF Create
    <2>3. run' = run \/ run'.status = "SCHEDULED" BY <1>4 DEF Create
    <2> QED BY <1>1, <1>2, <2>1, <2>2, <2>3 DEF Engaged
  <1>5. CASE Claim(w)
    <2>1. ~AtRun(w) /\ work[w].by = "tick" BY <1>5, NotYetAt DEF Claim
    <2>2. CASE ClaimIt(w)
      <3>1. work'[w].pc = "execute" /\ work'[w].by = "tick"
        BY <1>0, <2>1, <2>2 DEF ClaimIt, WorkType, Handlers
      <3> QED BY <3>1 DEF DeathInv, Held, AtRun, Engaged
    <2>3. CASE Stop(w) /\ run' = run
      <3>1. Others(w) /\ work'[w].pc = "idle" BY <1>0, <2>3, Moves
      <3> QED BY <1>2, <2>1, <2>3, <3>1 DEF Engaged
    <2> QED BY <1>5, <2>2, <2>3 DEF Claim
  <1>6. CASE Retry(w) BY <1>0, <1>1, <1>6 DEF Retry, SetRun, RowsType
  <1>7. CASE Finish(w)
    <2>1. work[w].result \in Verdicts BY <1>7 DEF Finish, ResultInv
    <2> QED BY <1>0, <1>1, <1>7, <2>1 DEF Finish, SetRun, RowsType, Verdicts
  <1>8. CASE SkipScheduled(w)
    <2>1. Others(w) /\ work'[w].pc = "idle" BY <1>0, <1>8, Moves DEF SkipScheduled
    <2>2. ~AtRun(w) BY <1>8, NotYetAt DEF SkipScheduled
    <2>3. run' = run \/ run'.status = "SKIPPED" BY <1>0, <1>8 DEF SkipScheduled, RowsType
    <2> QED BY <1>1, <1>2, <2>1, <2>2, <2>3 DEF Engaged
  <1> QED BY <1>3, <1>4, <1>5, <1>6, <1>7, <1>8

LEMMA DeathStep ==
    ASSUME TypeOK, Placed, DeathInv, ResultInv, [Next]_vars
    PROVE  DeathInv'
  <1>1. CASE UNCHANGED vars BY <1>1 DEF vars, DeathInv, Held, AtRun
  <1>2. CASE Next
    <2>1. faults.kinds \subseteq faults'.kinds BY <1>2, KindsGrow
    <2>2. ASSUME NEW w \in Workers,
                 Tick(w) \/ ScheduleNew(w) \/ RunDue(w) \/ Staff(w) \/ WriteOwn(w)
          PROVE  DeathInv'
      <3>1. Aside(w) BY <2>2, TickAside, LookAside, StaffAside
      <3> QED BY <2>1, <2>2, <3>1, LooksOn, DeathAside
    <2>3. ASSUME NEW w \in Workers,
                 \/ Execute(w) \/ Try(w) \/ Refuse(w) \/ Debit(w) \/ CreateJob(w)
                 \/ CreateJobFails(w) \/ RefundDispatch(w) \/ Attach(w)
          PROVE  DeathInv'
      <3>1. Aside(w) BY <2>3, BuyAside
      <3>2. AtRun(w) => AtRun(w)' BY <2>3, BuysOn
      <3> QED BY <2>1, <3>1, <3>2, DeathAside
    <2>4. ASSUME TakeBack \/ Close \/ \E r \in {"on", "dry", "off"} : UpdateRule(r)
          PROVE  DeathInv'
      BY <2>1, <2>4 DEF TakeBack, Close, UpdateRule, DeathInv, Held, AtRun
    <2> QED BY <1>2, <2>1, <2>2, <2>3, <2>4, NextStep, DeathFault, DeathRun DEF Step
  <1> QED BY <1>1, <1>2

\* However many processes tick, and however late: only a death, or a statement that
\* threw, leaves a run RUNNING behind, so a run that nobody is at is reclaimed for a
\* reason, and a tick that lives writes the end of what it claimed.
THEOREM StaleCorrect == Spec => []StaleMeansDeath
  <1>1. Init => OneInv /\ DeathInv /\ ResultInv
    BY DEF Init, OneInv, Placed, Alone, Road, Couriers, AtRun, ByStaff, Idle, Engaged, Buying,
       Bookers, DeathInv, ResultInv
  <1>2. OneInv => Placed BY DEF OneInv
  <1>3. DeathInv => StaleMeansDeath BY DEF DeathInv, StaleMeansDeath, Stale, Held
  <1> QED BY <1>1, <1>2, <1>3, OneStep, ResultStep, DeathStep, AutoTypeCorrect, PTL DEF Spec
-----------------------------------------------------------------------------
(* AttemptsBounded: what it takes to try once more *)

\* A claim on an old read: it will put the run back though others have tried it since.
Young == {w \in Workers : work[w].pc = "claim" /\ work[w].seen + 1 < MaxAttempts}

Slack == MaxAttempts - 2 + Cardinality(Workers) + faults.n

\* Each try from here on is paid for by a reader that counts too low, or by the fault
\* that left the run behind; only a last try, whose end is FAILED, is not.
Tries ==
    /\ run.attempts + Cardinality(Young) <= Slack + 1
    /\ run.status \in Live /\ (\A w \in Workers : AtRun(w) => work[w].seen < MaxAttempts)
           => run.attempts + Cardinality(Young) <= Slack

TriesInv == InTime => Tries

LEMMA YoungSize ==
    /\ Cardinality(Workers) \in Nat
    /\ IsFiniteSet(Young) /\ Cardinality(Young) \in Nat
    /\ IsFiniteSet(Young') /\ Cardinality(Young') \in Nat
    /\ Cardinality(Young') <= Cardinality(Workers)
  BY WorkersAssumption, FS_Subset, FS_CardinalityType DEF Young

LEMMA YoungMoves ==
    ASSUME NEW w \in Workers, Others(w), work'[w].pc # "claim"
    PROVE  /\ Cardinality(Young') <= Cardinality(Young)
           /\ w \in Young => Cardinality(Young') = Cardinality(Young) - 1
  <1>1. Young' = Young \ {w} BY DEF Young, Others
  <1>2. w \notin Young => Young' = Young BY <1>1
  <1>3. w \in Young => Cardinality(Young') = Cardinality(Young) - 1
    BY <1>1, YoungSize, FS_RemoveElement
  <1> QED BY <1>2, <1>3, YoungSize

LEMMA Numbers ==
    ASSUME TypeOK
    PROVE  /\ run.attempts \in Nat /\ Slack \in Int
           /\ \A w \in Workers : work[w].seen \in Nat
  <1>1. RowsType /\ WorkType /\ FaultsType BY TypeParts
  <1>2. faults.n \in Nat /\ run.attempts \in Nat
    BY <1>1 DEF RowsType, FaultsType, FaultLog
  <1>3. MaxAttempts \in Nat BY MaxAttemptsAssumption
  <1> QED BY <1>1, <1>2, <1>3, YoungSize, HandlerType DEF Slack

\* A step that leaves the run as it is: who is at it goes on, or a fault is counted.
LEMMA TriesAside ==
    ASSUME TypeOK, Tries, NEW w \in Workers, Aside(w), work'[w].pc # "claim",
           faults'.n \in Nat, faults.n <= faults'.n,
           \/ faults'.n = faults.n + 1
           \/ AtRun(w) => AtRun(w)' /\ work'[w].seen = work[w].seen
    PROVE  Tries'
  <1>0. /\ run.attempts \in Nat /\ Slack \in Int /\ faults.n \in Nat /\ MaxAttempts \in Nat
        /\ Cardinality(Young) \in Nat /\ Cardinality(Young') \in Nat
        /\ Cardinality(Workers) \in Nat
    BY Numbers, YoungSize, MaxAttemptsAssumption, TypeParts DEF FaultsType, FaultLog
  <1>1. run' = run /\ Others(w) BY DEF Aside
  <1>2. Cardinality(Young') <= Cardinality(Young) BY <1>1, YoungMoves
  <1>3. Slack' = Slack + (faults'.n - faults.n) BY <1>0 DEF Slack
  <1>4. CASE faults'.n = faults.n + 1 BY <1>0, <1>1, <1>2, <1>3, <1>4 DEF Tries
  <1>5. CASE AtRun(w) => AtRun(w)' /\ work'[w].seen = work[w].seen
    <2>1. (\A v \in Workers : AtRun(v)' => work'[v].seen < MaxAttempts)
              => (\A v \in Workers : AtRun(v) => work[v].seen < MaxAttempts)
      BY <1>1, <1>5 DEF Others, AtRun
    <2>2. Slack' \in Int /\ Slack <= Slack' BY <1>0, <1>3
    <2>3. run'.attempts + Cardinality(Young') <= run.attempts + Cardinality(Young)
      BY <1>0, <1>1, <1>2
    <2>4. run'.attempts + Cardinality(Young') <= Slack' + 1 BY <1>0, <1>1, <2>2, <2>3 DEF Tries
    <2>5. ASSUME run'.status \in Live, \A v \in Workers : AtRun(v)' => work'[v].seen < MaxAttempts
          PROVE  run'.attempts + Cardinality(Young') <= Slack'
      <3>1. run.attempts + Cardinality(Young) <= Slack BY <1>1, <2>1, <2>5 DEF Tries
      <3> QED BY <1>0, <1>1, <2>2, <2>3, <3>1
    <2> QED BY <2>4, <2>5 DEF Tries
  <1> QED BY <1>4, <1>5

\* A tick reads how often the run was tried.
LEMMA TriesRead ==
    ASSUME TypeOK, Tries, NEW w \in Workers, RunDue(w)
    PROVE  Tries'
  <1>0. /\ run.attempts \in Nat /\ Slack \in Int /\ faults.n \in Nat /\ MaxAttempts \in Nat
        /\ Cardinality(Young) \in Nat /\ Cardinality(Young') \in Nat
        /\ Cardinality(Workers) \in Nat /\ Cardinality(Young') <= Cardinality(Workers)
    BY Numbers, YoungSize, MaxAttemptsAssumption, TypeParts DEF FaultsType, FaultLog
  <1>1. /\ Aside(w) /\ ~AtRun(w) /\ faults' = faults /\ run' = run
        /\ work[w].pc = "due"
    BY LookAside, LooksOn DEF RunDue
  <1>2. CASE work'[w].pc # "claim" BY <1>0, <1>1, <1>2, TriesAside
  <1>3. CASE work'[w].pc = "claim" /\ run.attempts + 1 < MaxAttempts
    <2>1. Slack' = Slack BY <1>1 DEF Slack
    <2>2. run.attempts + Cardinality(Young') <= Slack BY <1>0, <1>3 DEF Slack
    <2> QED BY <1>0, <1>1, <2>1, <2>2 DEF Tries
  <1>4. CASE work'[w].pc = "claim" /\ ~(run.attempts + 1 < MaxAttempts)
    <2>1. WorkType BY TypeParts
    <2>2. run.status = "SCHEDULED"
      BY <1>4, <2>1, Moves DEF RunDue
    <2>3. work'[w].seen = run.attempts /\ Others(w)
      BY <1>1, <2>1, <2>2 DEF RunDue, Aside, WorkType, Handlers
    <2>4. Young' = Young BY <1>1, <1>4, <2>3 DEF Young, Others
    <2>5. \A v \in Workers : AtRun(v) <=> AtRun(v)'
      BY <1>1, <1>4, <2>3 DEF AtRun, Others, Engaged
    <2>6. \A v \in Workers : AtRun(v) => work'[v].seen = work[v].seen
      BY <1>1, <2>3 DEF Others
    <2>7. Slack' = Slack BY <1>1 DEF Slack
    <2> QED BY <1>1, <2>4, <2>5, <2>6, <2>7 DEF Tries
  <1> QED BY <1>2, <1>3, <1>4

\* The claim: a reader that counts too low is used up, any other makes the last try.
LEMMA TriesClaim ==
    ASSUME TypeOK, Placed, Holding, Tries, NEW w \in Workers, Claim(w)
    PROVE  Tries'
  <1>0. /\ run.attempts \in Nat /\ Slack \in Int /\ faults.n \in Nat /\ MaxAttempts \in Nat
        /\ Cardinality(Young) \in Nat /\ Cardinality(Young') \in Nat
        /\ Cardinality(Workers) \in Nat /\ work[w].seen \in Nat
    BY Numbers, YoungSize, MaxAttemptsAssumption, TypeParts DEF FaultsType, FaultLog
  <1>1. /\ WorkType /\ RowsType /\ faults' = faults /\ work[w].pc = "claim"
        /\ work[w].by = "tick" /\ ~AtRun(w)
    BY TypeParts, NotYetAt DEF Claim, ClaimIt
  <1>2. Slack' = Slack BY <1>1 DEF Slack
  <1>3. CASE run.status # "SCHEDULED"
    <2>1. Stop(w) /\ run' = run BY <1>3 DEF Claim
    <2>2. Others(w) /\ work'[w].pc = "idle" BY <1>1, <2>1, Moves
    <2>3. Aside(w) BY <2>1, <2>2 DEF Aside, AtRun, Engaged
    <2> QED BY <1>0, <1>1, <2>2, <2>3, TriesAside
  <1>4. CASE run.status = "SCHEDULED"
    <2>1. /\ run'.status = "RUNNING" /\ run'.attempts = run.attempts + 1 /\ Others(w)
          /\ work'[w].pc = "execute" /\ work'[w].by = "tick" /\ work'[w].seen = work[w].seen + 1
      BY <1>1, <1>4 DEF Claim, ClaimIt, Others, WorkType, Handlers
    <2>2. \A v \in Workers : ~AtRun(v) BY <1>4 DEF Holding
    <2>3. run.attempts + Cardinality(Young) <= Slack BY <1>4, <2>2 DEF Tries, Live
    <2>4. AtRun(w)' BY <2>1 DEF AtRun, Engaged
    <2>5. CASE w \in Young
      <3>1. Cardinality(Young') = Cardinality(Young) - 1 BY <2>1, <2>5, YoungMoves
      <3> QED BY <1>0, <1>2, <2>1, <2>3, <3>1 DEF Tries
    <2>6. CASE w \notin Young
      <3>1. ~(work'[w].seen < MaxAttempts) BY <1>0, <1>1, <2>1, <2>6 DEF Young
      <3>2. Cardinality(Young') <= Cardinality(Young) BY <2>1, YoungMoves
      <3>3. run'.attempts + Cardinality(Young') <= Slack' + 1
        BY <1>0, <1>2, <2>1, <2>3, <3>2
      <3> QED BY <2>4, <3>1, <3>3 DEF Tries
    <2> QED BY <2>5, <2>6
  <1> QED BY <1>3, <1>4

\* The other statements that write the run.
LEMMA TriesRun ==
    ASSUME TypeOK, Placed, Holding, ResultInv, Tries, InTime', NEW w \in Workers,
           Reclaim(w) \/ Create(w) \/ Retry(w) \/ Finish(w) \/ SkipScheduled(w)
    PROVE  Tries'
  <1>0. /\ run.attempts \in Nat /\ Slack \in Int /\ faults.n \in Nat /\ MaxAttempts \in Nat
        /\ Cardinality(Young) \in Nat /\ Cardinality(Young') \in Nat
        /\ Cardinality(Workers) \in Nat /\ work[w].seen \in Nat
    BY Numbers, YoungSize, MaxAttemptsAssumption, TypeParts DEF FaultsType, FaultLog
  <1>1. WorkType /\ RowsType /\ FaultsType BY TypeParts
  <1>2. /\ Others(w) /\ work'[w].pc \in {"new", "due", "idle"}
    <2>1. CASE Reclaim(w) BY <1>1, <2>1 DEF Reclaim, Others, WorkType, Handlers
    <2>2. CASE ~Reclaim(w)
      BY <1>1, <2>2, Moves DEF Create, Retry, Finish, SkipScheduled
    <2> QED BY <2>1, <2>2
  <1>3. faults'.n = faults.n
    BY <1>1 DEF Reclaim, Note, Create, Retry, Finish, SkipScheduled, FaultsType, FaultLog
  <1>4. Cardinality(Young') <= Cardinality(Young) BY <1>2, YoungMoves
  <1>5. Slack' = Slack BY <1>3 DEF Slack
  <1>6. ASSUME run' = run, ~AtRun(w) PROVE Tries'
    <2>1. Aside(w) BY <1>2, <1>6 DEF Aside, AtRun, Engaged
    <2> QED BY <1>0, <1>2, <1>3, <1>6, <2>1, TriesAside
  <1>7. ASSUME run'.attempts = run.attempts,
               run'.status \in Live => run.attempts + Cardinality(Young) <= Slack
        PROVE  Tries'
    BY <1>0, <1>4, <1>5, <1>7 DEF Tries
  <1>8. CASE Reclaim(w)
    <2>1. Stale BY <1>1, <1>8 DEF Reclaim, Note, When, InTime, FaultsType, FaultLog
    <2>2. run.attempts + Cardinality(Young) <= Slack BY <2>1 DEF Stale, Tries, Live
    <2>3. run'.attempts = run.attempts BY <1>1, <1>8 DEF Reclaim, SetRun, RowsType
    <2> QED BY <1>7, <2>2, <2>3
  <1>9. CASE Create(w)
    <2>1. ~AtRun(w) BY <1>9, NotYetAt DEF Create
    <2>2. CASE run.status # "none" BY <1>6, <1>9, <2>1, <2>2 DEF Create
    <2>3. CASE run.status = "none"
      <3>1. run'.attempts = 0 BY <1>9, <2>3 DEF Create
      <3>2. Cardinality(Young') <= Slack
        <4>1. CASE MaxAttempts >= 2 BY <1>0, <4>1, YoungSize DEF Slack
        <4>2. CASE ~(MaxAttempts >= 2)
          <5>1. \A v \in Workers : work[v].seen \in Nat BY Numbers
          <5>2. Young = {} BY <1>0, <4>2, <5>1 DEF Young
          <5>3. Cardinality(Young') = 0 BY <1>0, <1>4, <5>2, FS_EmptySet
          <5>4. Cardinality(Workers) >= 1
            BY <1>0, WorkersAssumption, FS_EmptySet
          <5> QED BY <1>0, <5>3, <5>4, MaxAttemptsAssumption DEF Slack
        <4> QED BY <4>1, <4>2
      <3> QED BY <1>0, <1>5, <3>1, <3>2 DEF Tries
    <2> QED BY <2>2, <2>3
  <1>10. CASE Retry(w)
    <2>1. AtRun(w) BY <1>10, TickAtRun DEF Retry
    <2>2. run.status = "RUNNING" /\ \A v \in Workers : AtRun(v) => v = w
      BY <2>1 DEF Holding
    <2>3. run'.attempts = run.attempts BY <1>1, <1>10 DEF Retry, SetRun, RowsType
    <2>4. run'.status \in Live => work[w].seen < MaxAttempts
      BY <1>1, <1>10 DEF Retry, SetRun, RowsType, Live
    <2>5. work[w].seen < MaxAttempts => run.attempts + Cardinality(Young) <= Slack
      BY <2>2 DEF Tries, Live
    <2> QED BY <1>7, <2>3, <2>4, <2>5
  <1>11. CASE Finish(w)
    <2>1. work[w].result \in Verdicts BY <1>11 DEF Finish, ResultInv
    <2>2. run'.attempts = run.attempts /\ run'.status \notin Live
      BY <1>1, <1>11, <2>1 DEF Finish, SetRun, RowsType, Verdicts, Live
    <2> QED BY <1>7, <2>2
  <1>12. CASE SkipScheduled(w)
    <2>1. ~AtRun(w) BY <1>12, NotYetAt DEF SkipScheduled
    <2>2. CASE run.status # "SCHEDULED" BY <1>6, <1>12, <2>1, <2>2 DEF SkipScheduled
    <2>3. CASE run.status = "SCHEDULED"
      <3>1. run'.attempts = run.attempts /\ run'.status \notin Live
        BY <1>1, <1>12, <2>3 DEF SkipScheduled, RowsType, Live
      <3> QED BY <1>7, <3>1
    <2> QED BY <2>2, <2>3
  <1> QED BY <1>8, <1>9, <1>10, <1>11, <1>12

LEMMA TriesStep ==
    ASSUME TypeOK, Placed, HoldInv, ResultInv, TriesInv, [Next]_vars
    PROVE  TriesInv'
  <1>1. CASE UNCHANGED vars
    BY <1>1 DEF vars, TriesInv, InTime, Tries, Slack, Young, AtRun
  <1>2. ASSUME Next, InTime' PROVE Tries'
    <2>1. Holding /\ Tries BY <1>2, KindsGrow DEF HoldInv, TriesInv, InTime
    <2>2. faults'.n \in Nat /\ faults.n <= faults'.n BY <1>2, CountGrows
    <2>3. ASSUME NEW w \in Workers, Tick(w) \/ ScheduleNew(w) \/ Staff(w) \/ WriteOwn(w)
          PROVE  Tries'
      <3>1. Aside(w) BY <2>3, TickAside, LookAside, StaffAside
      <3>2. ~AtRun(w) BY <2>3, LooksOn
      <3>3. work'[w].pc # "claim"
        <4>1. RunDue(w) => work[w].pc = "due" BY DEF RunDue
        <4>2. ~RunDue(w) => work'[w].pc # "claim" BY <2>3, LooksOn
        <4>3. CASE RunDue(w)
          <5>1. work[w] # Idle /\ ~ScheduleNew(w) /\ ~WriteOwn(w)
            BY <4>1, <4>3 DEF Idle, ScheduleNew, WriteOwn
          <5> QED BY <2>3, <5>1 DEF Tick, BeginTick, Staff, BookByHand, GiveToOwn, ByHand,
                     DeleteRule
        <4> QED BY <4>2, <4>3
      <3> QED BY <2>1, <2>2, <3>1, <3>2, <3>3, TriesAside
    <2>4. ASSUME NEW w \in Workers,
                 \/ Execute(w) \/ Try(w) \/ Refuse(w) \/ Debit(w) \/ CreateJob(w)
                 \/ CreateJobFails(w) \/ RefundDispatch(w) \/ Attach(w)
          PROVE  Tries'
      <3>1. Aside(w) BY <2>4, BuyAside
      <3>2. /\ work'[w].pc # "claim"
            /\ AtRun(w) => AtRun(w)' /\ work'[w].seen = work[w].seen
        BY <2>4, BuysOn
      <3> QED BY <2>1, <2>2, <3>1, <3>2, TriesAside
    <2>5. ASSUME NEW w \in Workers, Fault(w) PROVE Tries'
      <3>0. WorkType BY TypeParts
      <3>1. Aside(w) /\ faults'.n = faults.n + 1 BY <2>5, FaultAside, FaultCounts
      <3>2. work'[w].pc # "claim"
        <4>1. CASE CreateJobTimesOut(w) BY <4>1, BuysOn
        <4>2. CASE Throws(w) BY <4>2, ThrowsMoves
        <4>3. CASE Crash(w) BY <3>0, <4>3, Moves DEF Crash
        <4> QED BY <2>5, <4>1, <4>2, <4>3 DEF Fault
      <3> QED BY <2>1, <2>2, <3>1, <3>2, TriesAside
    <2>6. ASSUME TakeBack \/ Close \/ \E r \in {"on", "dry", "off"} : UpdateRule(r)
          PROVE  Tries'
      <3>1. run' = run /\ work' = work BY <2>6 DEF TakeBack, Close, UpdateRule
      <3>2. Young' = Young /\ \A w \in Workers : AtRun(w)' <=> AtRun(w)
        BY <3>1 DEF Young, AtRun
      <3>3. Slack \in Int /\ Slack' \in Int /\ Slack <= Slack'
        <4>1. Cardinality(Workers) \in Nat /\ MaxAttempts \in Nat /\ faults.n \in Nat
          BY <1>2, YoungSize, MaxAttemptsAssumption, CountGrows
        <4> QED BY <2>2, <4>1 DEF Slack
      <3>4. run.attempts \in Nat /\ Cardinality(Young) \in Nat BY Numbers, YoungSize
      <3> QED BY <2>1, <3>1, <3>2, <3>3, <3>4 DEF Tries
    <2> QED BY <1>2, <2>1, <2>3, <2>4, <2>5, <2>6, NextStep, TriesRead, TriesClaim, TriesRun
            DEF Step
  <1> QED BY <1>1, <1>2 DEF TriesInv

LEMMA TriesInit == ASSUME Init PROVE TriesInv
  <1>1. Young = {} BY DEF Init, Young, Idle
  <1>2. Cardinality(Young) = 0 BY <1>1, FS_EmptySet
  <1>3. Cardinality(Workers) \in Nat /\ MaxAttempts \in Nat \ {0}
    BY YoungSize, MaxAttemptsAssumption
  <1>4. run.attempts = 0 /\ run.status = "none" /\ faults.n = 0 BY DEF Init
  <1> QED BY <1>2, <1>3, <1>4 DEF TriesInv, Tries, Slack, Live

\* For any number of processes, tries and faults: a run is tried MAX_ATTEMPTS times, and
\* once more for every other process that counts from an old read and for every fault.
THEOREM AttemptsCorrect == Spec => []AttemptsBounded
  <1>1. Init => OneInv /\ HoldInv /\ ResultInv
    BY DEF Init, OneInv, Placed, Alone, Road, Couriers, AtRun, ByStaff, Idle, Engaged, Buying,
       Bookers, HoldInv, Holding, ResultInv
  <1>2. OneInv => Placed BY DEF OneInv
  <1>3. TypeOK /\ Placed /\ HoldInv /\ [Next]_vars => HoldInv' BY HoldStep
  <1>4. TypeOK /\ TriesInv => AttemptsBounded
    <2> SUFFICES ASSUME TypeOK, TriesInv, "late" \notin faults.kinds
                 PROVE  run.attempts < MaxAttempts + Cardinality(Workers) + faults.n
      BY DEF AttemptsBounded
    <2>1. run.attempts + Cardinality(Young) <= Slack + 1 BY DEF TriesInv, InTime, Tries
    <2>2. /\ run.attempts \in Nat /\ Cardinality(Young) \in Nat /\ faults.n \in Nat
          /\ MaxAttempts \in Nat /\ Cardinality(Workers) \in Nat
      BY Numbers, YoungSize, MaxAttemptsAssumption, TypeParts DEF FaultsType, FaultLog
    <2> QED BY <2>1, <2>2 DEF Slack
  <1> QED BY <1>1, <1>2, <1>3, <1>4, OneStep, ResultStep, TriesStep, TriesInit,
             AutoTypeCorrect, PTL DEF Spec
=============================================================================
