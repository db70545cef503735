--------------------------- MODULE SplitBillProofs ---------------------------
(***************************************************************************)
(* What holds of SplitBill for any parts, handlers, bills and faults: a    *)
(* card part counts only when its own card was taken, unless a webhook     *)
(* came before the row it is about; a bill is PAID only once the parts     *)
(* taken cover it; parts taken one at a time never come to more than it.   *)
(* And nothing owed is forgotten: a covered bill has a handler that will   *)
(* close it, a card that was taken its webhook to come or a handler on it. *)
(*                                                                         *)
(* What parts come to is the size of a set of units, so that sums grow and *)
(* add by the theorems about finite sets, without induction.               *)
(***************************************************************************)
EXTENDS SplitBill, FiniteSetTheorems, TLAPS

\* The step of the system, one disjunct per action.
LEMMA NextStep ==
    ASSUME Next
    PROVE  \/ \E p \in Parts : Tap(p) \/ Decline(p) \/ DeliverFailed(p)
           \/ \E w \in Workers :
                  \/ \E p \in Parts :
                         \/ \E n \in 1 .. Total : AddPayment(w, p, n) \/ ChargeOrder(w, p, n)
                         \/ ChargeWhole(w, p) \/ DeliverSucceeded(w, p) \/ Poll(w, p)
                  \/ Step(w) \/ Crash(w)
  BY Zenon DEF Next

Jobs == [pc : Places, part : Parts \union {Nobody}, row : Parts \union {Nobody}]

RowsType ==
    /\ kind \in [Parts -> Kinds]
    /\ amount \in [Parts -> 0 .. Total]
    /\ row \in [Parts -> RowStatuses]
    /\ stored \in [Parts -> Parts \union {Nobody}]
    /\ latest \in Parts \union {Nobody}
    /\ intent \in [Parts -> {"none", "waiting", "succeeded"}]
    /\ paid \in BOOLEAN /\ freed \in BOOLEAN /\ overlap \in BOOLEAN
    /\ events \subseteq Events

WorkType == work \in [Workers -> Jobs]
FaultsType == faults \in FaultLog

LEMMA TypeParts == TypeOK <=> RowsType /\ WorkType /\ FaultsType
  BY DEF TypeOK, RowsType, WorkType, FaultsType, Jobs

LEMMA TypePartsNext == TypeOK' <=> RowsType' /\ WorkType' /\ FaultsType'
  BY DEF TypeOK, RowsType, WorkType, FaultsType, Jobs

LEMMA FaultType ==
    ASSUME FaultsType, NEW f, Fault(f)
    PROVE  /\ FaultsType' /\ f \in faults'.kinds
           /\ faults.kinds \subseteq faults'.kinds
  BY FaultsAssumption DEF Fault, FaultsType, FaultLog

LEMMA JobType ==
    ASSUME WorkType, NEW w \in Workers
    PROVE  /\ work[w].pc \in Places
           /\ work[w].part \in Parts \union {Nobody}
           /\ work[w].row \in Parts \union {Nobody}
  BY DEF WorkType, Jobs

LEMMA PutType ==
    ASSUME WorkType, NEW w \in Workers, NEW pc \in Places,
           NEW p \in Parts \union {Nobody}, NEW r \in Parts \union {Nobody},
           work' = [work EXCEPT ![w] = At(pc, p, r)]
    PROVE  WorkType'
  BY DEF WorkType, Jobs, At

LEMMA MoveType ==
    ASSUME WorkType, NEW w \in Workers
    PROVE  /\ \A pc \in Places : GoOn(w, pc) => WorkType'
           /\ Finish(w) => WorkType'
  <1>1. ASSUME NEW pc \in Places, GoOn(w, pc) PROVE WorkType'
    BY <1>1 DEF GoOn, WorkType, Jobs
  <1>2. ASSUME Finish(w) PROVE WorkType'
    <2>1. "idle" \in Places BY DEF Places
    <2> QED BY <1>2, <2>1, PutType DEF Finish, Idle
  <1> QED BY <1>1, <1>2
-----------------------------------------------------------------------------
(* Type correctness *)

LEMMA BeginType ==
    ASSUME RowsType, WorkType, NEW w \in Workers, NEW p \in Parts, NEW k \in Kinds,
           NEW n \in 0 .. Total, NEW pc \in Places, Begin(w, p, k, n, pc)
    PROVE  RowsType' /\ WorkType'
  <1>1. RowsType'
    <2>1. kind' \in [Parts -> Kinds] /\ amount' \in [Parts -> 0 .. Total]
      BY DEF Begin, RowsType
    <2>2. overlap' \in BOOLEAN BY Zenon DEF Begin, RowsType
    <2>3. UNCHANGED <<row, stored, latest, intent, paid, freed, events>>
      BY DEF Begin, rows, bill
    <2> QED BY <2>1, <2>2, <2>3 DEF RowsType
  <1>2. WorkType' BY PutType DEF Begin
  <1> QED BY <1>1, <1>2

LEMMA TakeType ==
    ASSUME TypeOK, NEW w \in Workers, NEW p \in Parts, NEW n \in 1 .. Total,
           AddPayment(w, p, n) \/ ChargeOrder(w, p, n) \/ ChargeWhole(w, p)
    PROVE  TypeOK'
  <1>0. RowsType /\ WorkType /\ FaultsType BY TypeParts
  <1>1. PICK k \in Kinds, m \in 0 .. Total, pc \in Places : Begin(w, p, k, m, pc)
    BY TotalAssumption DEF AddPayment, ChargeOrder, ChargeWhole, Kinds, Places
  <1>2. RowsType' /\ WorkType' BY <1>0, <1>1, BeginType
  <1>3. FaultsType'
    BY <1>0, FaultType DEF AddPayment, ChargeOrder, ChargeWhole, FaultsType
  <1> QED BY <1>2, <1>3, TypePartsNext

LEMMA TakeStepType == ASSUME TypeOK, NEW w \in Workers, TakeStep(w) PROVE TypeOK'
  <1>0. RowsType /\ WorkType /\ FaultsType BY TypeParts
  <1>1. FaultsType' BY <1>0 DEF TakeStep, Create, SumAfter, Present, Record, FaultsType
  <1>2. WorkType'
    BY <1>0, MoveType DEF TakeStep, Create, SumAfter, Present, Record, Places
  <1>3. ASSUME Create(w) PROVE RowsType'
    BY <1>0, <1>3 DEF Create, RowsType, RowStatuses, part, bill
  <1>4. ASSUME SumAfter(w) PROVE RowsType'
    BY <1>0, <1>4 DEF SumAfter, RowsType, part, rows, bill
  <1>5. ASSUME Present(w) PROVE RowsType'
    BY <1>0, <1>5 DEF Present, RowsType, part, rows, bill
  <1>6. ASSUME Record(w) PROVE RowsType'
    <2>1. work[w].part \in Parts \union {Nobody} BY <1>0, JobType
    <2> QED BY <1>0, <1>6, <2>1 DEF Record, RowsType, RowStatuses, part, rows, bill
  <1> QED BY <1>1, <1>2, <1>3, <1>4, <1>5, <1>6, TypePartsNext DEF TakeStep

LEMMA ReaderType ==
    ASSUME TypeOK, NEW p \in Parts, Tap(p) \/ Decline(p) \/ DeliverFailed(p)
    PROVE  TypeOK'
  <1>0. RowsType /\ WorkType /\ FaultsType BY TypeParts
  <1>1. WorkType' BY <1>0 DEF Tap, Decline, DeliverFailed, WorkType
  <1>2. CASE Tap(p)
    BY <1>0, <1>1, <1>2, TypePartsNext DEF Tap, RowsType, FaultsType, Event, Events, part, rows, bill
  <1>3. CASE Decline(p)
    <2>1. FaultsType' BY <1>0, <1>3, FaultType DEF Decline
    <2> QED BY <1>0, <1>1, <1>3, <2>1, TypePartsNext
            DEF Decline, RowsType, Event, Events, part, rows, bill
  <1>4. CASE DeliverFailed(p)
    <2>1. FaultsType' BY <1>0, <1>4 DEF DeliverFailed, FaultsType, FaultLog, AllFaults
    <2> QED BY <1>0, <1>1, <1>4, <2>1, TypePartsNext
            DEF DeliverFailed, RowsType, RowStatuses, part, bill
  <1> QED BY <1>2, <1>3, <1>4

LEMMA SettleType ==
    ASSUME TypeOK, NEW w \in Workers,
           \/ \E p \in Parts : DeliverSucceeded(w, p) \/ Poll(w, p)
           \/ SettleStep(w) \/ CloseStep(w) \/ Crash(w)
    PROVE  TypeOK'
  <1>0. RowsType /\ WorkType /\ FaultsType BY TypeParts
  <1>1. ASSUME NEW p \in Parts, DeliverSucceeded(w, p) PROVE TypeOK'
    <2>1. WorkType' BY <1>0, <1>1, PutType DEF DeliverSucceeded, Places
    <2>2. FaultsType' BY <1>0, <1>1, FaultType DEF DeliverSucceeded, FaultsType
    <2>3. RowsType' BY <1>0, <1>1 DEF DeliverSucceeded, RowsType, part, rows, bill
    <2> QED BY <2>1, <2>2, <2>3, TypePartsNext
  <1>2. ASSUME NEW p \in Parts, Poll(w, p) PROVE TypeOK'
    <2>1. WorkType' BY <1>0, <1>2, PutType DEF Poll, Places
    <2>2. RowsType' /\ FaultsType' BY <1>0, <1>2 DEF Poll, RowsType, FaultsType, part, rows, bill
    <2> QED BY <2>1, <2>2, TypePartsNext
  <1>3. CASE Find(w)
    <2> DEFINE p == work[w].part
               found == IF Holder(p) # {} THEN Holder(p) ELSE {latest} \ {Nobody}
    <2>0. p \in Parts \union {Nobody} /\ found \subseteq Parts \union {Nobody}
      BY <1>0, JobType DEF Holder, RowsType
    <2>1. WorkType'
      <3>1. ASSUME NEW r \in found, work' = [work EXCEPT ![w] = At("bank", p, r)]
            PROVE  WorkType'
        BY <1>0, <2>0, <3>1, PutType DEF Places
      <3> QED BY <1>0, <1>3, <3>1, MoveType DEF Find
    <2>2. RowsType' BY <1>0, <1>3, <2>0 DEF Find, RowsType, part, bill
    <2>3. FaultsType' BY <1>0, <1>3 DEF Find, FaultsType
    <2> QED BY <2>1, <2>2, <2>3, TypePartsNext
  <1>4. CASE Bank(w)
    <2>1. WorkType' BY <1>0, <1>4, MoveType DEF Bank, Places
    <2>2. RowsType' /\ FaultsType'
      BY <1>0, <1>4 DEF Bank, RowsType, RowStatuses, FaultsType, part, bill
    <2> QED BY <2>1, <2>2, TypePartsNext
  <1>5. CASE CheckCovered(w) \/ CloseStep(w)
    <2>1. WorkType'
      BY <1>0, <1>5, MoveType DEF CheckCovered, CloseStep, MarkPaid, FreeTable, Places
    <2>2. RowsType' /\ FaultsType'
      BY <1>0, <1>5 DEF CheckCovered, CloseStep, MarkPaid, FreeTable, RowsType, FaultsType,
         part, rows, bill
    <2> QED BY <2>1, <2>2, TypePartsNext
  <1>6. CASE Crash(w)
    <2>1. WorkType' /\ FaultsType' BY <1>0, <1>6, MoveType, FaultType DEF Crash
    <2>2. RowsType' BY <1>0, <1>6 DEF Crash, RowsType, part, rows, bill
    <2> QED BY <2>1, <2>2, TypePartsNext
  <1> QED BY <1>1, <1>2, <1>3, <1>4, <1>5, <1>6 DEF SettleStep

LEMMA TypeStep == ASSUME TypeOK, [Next]_vars PROVE TypeOK'
  <1>1. CASE UNCHANGED vars BY <1>1 DEF vars, part, rows, bill, TypeOK
  <1>2. CASE Next
    <2>1. ASSUME NEW w \in Workers, NEW p \in Parts, ChargeWhole(w, p) PROVE TypeOK'
      <3>1. Total \in 1 .. Total BY TotalAssumption
      <3> QED BY <2>1, <3>1, TakeType
    <2> QED BY <1>2, <2>1, NextStep, TakeType, TakeStepType, ReaderType, SettleType DEF Step
  <1> QED BY <1>1, <1>2

\* The types of the bill, its parts, the money at Stripe and the handlers.
THEOREM SplitTypeCorrect == Spec => []TypeOK
  <1>1. Init => TypeOK
    <2> SUFFICES ASSUME Init PROVE TypeOK OBVIOUS
    <2>1. RowsType
      <3>1. kind \in [Parts -> Kinds] /\ row \in [Parts -> RowStatuses]
        BY DEF Init, Kinds, RowStatuses
      <3>2. amount \in [Parts -> 0 .. Total] BY TotalAssumption DEF Init
      <3>3. /\ stored \in [Parts -> Parts \union {Nobody}] /\ latest \in Parts \union {Nobody}
            /\ intent \in [Parts -> {"none", "waiting", "succeeded"}] /\ events \subseteq Events
        BY DEF Init
      <3>4. paid \in BOOLEAN /\ freed \in BOOLEAN /\ overlap \in BOOLEAN BY DEF Init
      <3> QED BY <3>1, <3>2, <3>3, <3>4 DEF RowsType
    <2>2. WorkType BY DEF Init, WorkType, Jobs, Idle, At, Places
    <2>3. FaultsType BY DEF Init, FaultsType, FaultLog
    <2> QED BY <2>1, <2>2, <2>3, TypeParts
  <1> QED BY <1>1, TypeStep, PTL DEF Spec
-----------------------------------------------------------------------------
(* BankedMeansCharged: its inductive invariant *)

Calm == "early" \notin faults.kinds

\* A PaymentIntent is sent to a reader once, by whoever began the part.
Reading ==
    /\ \A w \in Workers :
           /\ work[w].pc \in {"create", "present", "record"} => work[w].part \in Parts
           /\ work[w].pc = "create" => kind[work[w].part] = "manual"
           /\ work[w].pc = "present" => /\ kind[work[w].part] # "none"
                                        /\ intent[work[w].part] = "none"
    /\ \A v, w \in Workers : /\ work[v].pc = "present" /\ work[w].pc = "present"
                             /\ work[v].part = work[w].part
                             => v = w
    /\ \A p \in Parts : kind[p] = "none" => intent[p] = "none"
    /\ \A p \in Parts : Event("succeeded", p) \in events => intent[p] = "succeeded"

\* A row holds its own PaymentIntent or none, and whoever settles it knows that
\* the card was taken.
Charging ==
    /\ \A p \in Parts : /\ stored[p] \in {p, Nobody}
                        /\ row[p] \in {"PROCESSING", "FAILED"} => stored[p] = p
    /\ \A w \in Workers :
           /\ work[w].pc = "find" => /\ work[w].part \in Parts
                                     /\ intent[work[w].part] = "succeeded"
                                     /\ stored[work[w].part] = work[w].part
           /\ work[w].pc = "bank" => /\ work[w].row \in Parts
                                     /\ intent[work[w].row] = "succeeded"
                                     /\ stored[work[w].row] = work[w].row
    /\ \A p \in Parts : row[p] = "SUCCEEDED" /\ kind[p] # "manual"
                          => intent[p] = "succeeded" /\ stored[p] = p

BankedInv == Reading /\ (Calm => Charging)

\* What a step may do without breaking them.
LEMMA ReadingKept ==
    ASSUME Reading,
           \A v \in Workers : \/ work'[v] = work[v]
                              \/ work'[v].pc \notin {"create", "present", "record"},
           UNCHANGED <<kind, intent>>,
           \A p \in Parts : Event("succeeded", p) \in events' => Event("succeeded", p) \in events
    PROVE  Reading'
  BY DEF Reading

LEMMA ChargingKept ==
    ASSUME Charging,
           \A v \in Workers : work'[v] = work[v] \/ work'[v].pc \notin {"find", "bank"},
           \A p \in Parts : kind'[p] # "manual" => kind[p] # "manual",
           \A p \in Parts : intent[p] = "succeeded" => intent'[p] = "succeeded",
           UNCHANGED <<row, stored>>
    PROVE  Charging'
  BY DEF Charging

\* A step of w touches no other handler.
Others(w) == \A v \in Workers \ {w} : work'[v] = work[v]

LEMMA Moves ==
    ASSUME WorkType, NEW w \in Workers
    PROVE  /\ \A pc \in Places : GoOn(w, pc) =>
                  /\ Others(w) /\ work'[w].pc = pc
                  /\ work'[w].part = work[w].part /\ work'[w].row = work[w].row
           /\ Finish(w) => Others(w) /\ work'[w].pc = "idle"
           /\ \A pc, p, r : work' = [work EXCEPT ![w] = At(pc, p, r)] =>
                  /\ Others(w) /\ work'[w].pc = pc /\ work'[w].part = p /\ work'[w].row = r
  <1> USE DEF WorkType, Jobs
  <1>1. \A pc \in Places : GoOn(w, pc) =>
            /\ Others(w) /\ work'[w].pc = pc
            /\ work'[w].part = work[w].part /\ work'[w].row = work[w].row
    BY DEF GoOn, Others
  <1>2. Finish(w) => Others(w) /\ work'[w].pc = "idle" BY DEF Finish, Others, Idle, At
  <1>3. \A pc, p, r : work' = [work EXCEPT ![w] = At(pc, p, r)] =>
            /\ Others(w) /\ work'[w].pc = pc /\ work'[w].part = p /\ work'[w].row = r
    BY DEF Others, At
  <1> QED BY <1>1, <1>2, <1>3

\* What went wrong once has gone wrong.
Grown == faults.kinds \subseteq faults'.kinds

LEMMA FaultsGrow == ASSUME TypeOK, Next PROVE Grown
  <1>0. FaultsType BY TypeParts
  <1> USE FaultType DEF Grown
  <1>1. ASSUME NEW p \in Parts, Tap(p) \/ Decline(p) \/ DeliverFailed(p) PROVE Grown
    BY <1>0, <1>1 DEF Tap, Decline, DeliverFailed, FaultsType, FaultLog
  <1>2. ASSUME NEW w \in Workers, NEW p \in Parts, NEW n \in 1 .. Total,
               AddPayment(w, p, n) \/ ChargeOrder(w, p, n)
        PROVE  Grown
    BY <1>2 DEF AddPayment, ChargeOrder
  <1>3. ASSUME NEW w \in Workers, NEW p \in Parts,
               ChargeWhole(w, p) \/ DeliverSucceeded(w, p) \/ Poll(w, p)
        PROVE  Grown
    BY <1>0, <1>3 DEF ChargeWhole, DeliverSucceeded, Poll
  <1>4. ASSUME NEW w \in Workers, Step(w) \/ Crash(w) PROVE Grown
    BY <1>0, <1>4 DEF Step, TakeStep, SettleStep, CloseStep, Create, SumAfter, Present, Record,
       Find, Bank, CheckCovered, MarkPaid, FreeTable, Crash
  <1> QED BY <1>1, <1>2, <1>3, <1>4, NextStep

Kept == Reading' /\ (Calm' /\ Charging => Charging')

LEMMA BeginKept ==
    ASSUME TypeOK, Reading, NEW w \in Workers, NEW p \in Parts,
           NEW k \in Kinds, NEW m, NEW pc \in {"create", "present"},
           k # "none", pc = "create" => k = "manual", Begin(w, p, k, m, pc)
    PROVE  Kept
  <1>0. RowsType /\ WorkType BY TypeParts
  <1>2. /\ Others(w) /\ work'[w].pc = pc /\ work'[w].part = p
        /\ UNCHANGED <<row, stored, intent, events>>
        /\ kind[p] = "none" /\ kind' = [kind EXCEPT ![p] = k]
    <2>1. work' = [work EXCEPT ![w] = At(pc, p, Nobody)] BY DEF Begin
    <2>2. UNCHANGED <<row, stored, intent, events>> BY DEF Begin, rows
    <2>3. kind[p] = "none" /\ kind' = [kind EXCEPT ![p] = k] BY Zenon DEF Begin
    <2>4. Others(w) /\ work'[w].pc = pc /\ work'[w].part = p
      BY <1>0, <2>1 DEF WorkType, Jobs, At, Others
    <2> QED BY <2>2, <2>3, <2>4
  <1>3. intent[p] = "none" BY <1>2 DEF Reading
  <1>4. kind'[p] = k /\ \A q \in Parts \ {p} : kind'[q] = kind[q] BY <1>0, <1>2 DEF RowsType
  <1>5. Reading'
    <2>1. \A v \in Workers : work[v].pc \in {"create", "present"} => work[v].part # p
      BY <1>2 DEF Reading
    <2>2. \A v \in Workers : v # w /\ work'[v].pc \in {"create", "present"}
              => work'[v].part # p /\ work'[v] = work[v]
      BY <1>2, <2>1 DEF Others
    <2>3. \A v \in Workers :
              /\ work'[v].pc \in {"create", "present", "record"} => work'[v].part \in Parts
              /\ work'[v].pc = "create" => kind'[work'[v].part] = "manual"
              /\ work'[v].pc = "present" => /\ kind'[work'[v].part] # "none"
                                            /\ intent'[work'[v].part] = "none"
      <3>1. ASSUME NEW v \in Workers, v # w
            PROVE  /\ work'[v].pc \in {"create", "present", "record"} => work'[v].part \in Parts
                   /\ work'[v].pc = "create" => kind'[work'[v].part] = "manual"
                   /\ work'[v].pc = "present" => /\ kind'[work'[v].part] # "none"
                                                 /\ intent'[work'[v].part] = "none"
        <4>1. work'[v] = work[v] BY <1>2, <3>1 DEF Others
        <4> QED BY <1>2, <1>4, <2>2, <3>1, <4>1 DEF Reading
      <3> QED BY <1>2, <1>3, <1>4, <3>1
    <2>4. \A u, v \in Workers : /\ work'[u].pc = "present" /\ work'[v].pc = "present"
                                /\ work'[u].part = work'[v].part
                                => u = v
      BY <1>2, <2>2 DEF Reading
    <2>5. \A q \in Parts : kind'[q] = "none" => intent'[q] = "none"
      BY <1>2, <1>4 DEF Reading
    <2>6. \A q \in Parts : Event("succeeded", q) \in events' => intent'[q] = "succeeded"
      BY <1>2 DEF Reading
    <2> QED BY <2>3, <2>4, <2>5, <2>6 DEF Reading
  <1>6. ASSUME Charging PROVE Charging'
    <2>1. \A v \in Workers : work'[v] = work[v] \/ work'[v].pc \notin {"find", "bank"}
      BY <1>2 DEF Others
    <2>2. \A q \in Parts : kind'[q] # "manual" => kind[q] # "manual" BY <1>2, <1>4
    <2> QED BY <1>2, <1>6, <2>1, <2>2, ChargingKept
  <1> QED BY <1>5, <1>6 DEF Kept

LEMMA TakenKept ==
    ASSUME TypeOK, Reading, NEW w \in Workers, NEW p \in Parts, NEW n \in 1 .. Total,
           AddPayment(w, p, n) \/ ChargeOrder(w, p, n) \/ ChargeWhole(w, p)
    PROVE  Kept
  <1>1. CASE AddPayment(w, p, n) BY <1>1, BeginKept DEF AddPayment, Kinds
  <1>2. CASE ChargeOrder(w, p, n) BY <1>2, BeginKept DEF ChargeOrder, Kinds
  <1>3. CASE ChargeWhole(w, p) BY <1>3, BeginKept DEF ChargeWhole, Kinds
  <1> QED BY <1>1, <1>2, <1>3

LEMMA PresentKept ==
    ASSUME TypeOK, Reading, NEW w \in Workers, Present(w)
    PROVE  Kept
  <1>0. RowsType /\ WorkType BY TypeParts
  <1> DEFINE p == work[w].part
  <1>1. /\ work[w].pc = "present" /\ p \in Parts
        /\ intent[p] = "none" /\ kind[p] # "none"
    BY DEF Present, Reading
  <1>2. /\ Others(w) /\ work'[w].pc = "record" /\ work'[w].part = p
        /\ UNCHANGED <<kind, row, stored, events>>
        /\ intent' = [intent EXCEPT ![p] = "waiting"]
    <2>1. "record" \in Places BY DEF Places
    <2> QED BY <1>0, <2>1, Moves DEF Present, part, rows
  <1>3. intent'[p] = "waiting" /\ \A q \in Parts \ {p} : intent'[q] = intent[q]
    BY <1>0, <1>1, <1>2 DEF RowsType
  <1>4. Reading'
    <2>1. \A v \in Workers \ {w} :
              work'[v] = work[v] /\ (work[v].pc = "present" => work[v].part # p)
      BY <1>1, <1>2 DEF Others, Reading
    <2>2. \A v \in Workers :
              /\ work'[v].pc \in {"create", "present", "record"} => work'[v].part \in Parts
              /\ work'[v].pc = "create" => kind'[work'[v].part] = "manual"
              /\ work'[v].pc = "present" => /\ kind'[work'[v].part] # "none"
                                            /\ intent'[work'[v].part] = "none"
      BY <1>1, <1>2, <1>3, <2>1 DEF Reading
    <2>3. \A u, v \in Workers : /\ work'[u].pc = "present" /\ work'[v].pc = "present"
                                /\ work'[u].part = work'[v].part
                                => u = v
      BY <1>2, <2>1 DEF Reading
    <2>4. \A q \in Parts : kind'[q] = "none" => intent'[q] = "none"
      BY <1>1, <1>2, <1>3 DEF Reading
    <2>5. \A q \in Parts : Event("succeeded", q) \in events' => intent'[q] = "succeeded"
      BY <1>1, <1>2, <1>3 DEF Reading
    <2> QED BY <2>2, <2>3, <2>4, <2>5 DEF Reading
  <1>5. ASSUME Charging PROVE Charging'
    <2>1. \A v \in Workers : work'[v] = work[v] \/ work'[v].pc \notin {"find", "bank"}
      BY <1>2 DEF Others
    <2>2. \A q \in Parts : intent[q] = "succeeded" => intent'[q] = "succeeded"
      BY <1>1, <1>3
    <2> QED BY <1>2, <1>5, <2>1, <2>2, ChargingKept
  <1> QED BY <1>4, <1>5 DEF Kept

LEMMA RecordKept ==
    ASSUME TypeOK, Reading, NEW w \in Workers, Create(w) \/ Record(w)
    PROVE  Kept
  <1>0. RowsType /\ WorkType BY TypeParts
  <1> DEFINE p == work[w].part
  <1>1. /\ Others(w) /\ work'[w].pc \in {"sum", "idle"}
        /\ UNCHANGED <<kind, intent, events>>
    <2>1. "sum" \in Places BY DEF Places
    <2> QED BY <1>0, <2>1, Moves DEF Create, Record, part
  <1>2. \A v \in Workers :
            work'[v] = work[v] \/ work'[v].pc \notin {"create", "present", "record", "find", "bank"}
    BY <1>1 DEF Others
  <1>3. Reading' BY <1>1, <1>2, ReadingKept
  <1>4. ASSUME Charging, Create(w) PROVE Charging'
    <2>1. p \in Parts /\ kind[p] = "manual" BY <1>4 DEF Create, Reading
    <2>2. UNCHANGED stored /\ row' = [row EXCEPT ![p] = "SUCCEEDED"] BY <1>4 DEF Create
    <2>3. row'[p] = "SUCCEEDED" /\ \A q \in Parts \ {p} : row'[q] = row[q]
      BY <1>0, <2>1, <2>2 DEF RowsType
    <2> QED BY <1>1, <1>2, <1>4, <2>1, <2>2, <2>3 DEF Charging
  <1>5. ASSUME Charging, Record(w) PROVE Charging'
    <2>1. p \in Parts BY <1>5 DEF Record, Reading
    <2>2. CASE Holder(p) = {}
      <3>1. row' = [row EXCEPT ![p] = "PROCESSING"] /\ stored' = [stored EXCEPT ![p] = p]
        BY <1>5, <2>2 DEF Record
      <3>2. /\ row'[p] = "PROCESSING" /\ stored'[p] = p
            /\ \A q \in Parts \ {p} : row'[q] = row[q] /\ stored'[q] = stored[q]
        BY <1>0, <2>1, <3>1 DEF RowsType
      <3> QED BY <1>1, <1>2, <1>5, <3>2 DEF Charging
    <2>3. CASE Holder(p) # {}
      <3>1. UNCHANGED <<row, stored>> BY <1>5, <2>3 DEF Record, rows
      <3> QED BY <1>1, <1>2, <1>5, <3>1, ChargingKept
    <2> QED BY <2>2, <2>3
  <1> QED BY <1>3, <1>4, <1>5 DEF Kept

LEMMA ReaderKept ==
    ASSUME TypeOK, Reading, NEW p \in Parts, Tap(p) \/ Decline(p) \/ DeliverFailed(p)
    PROVE  Kept
  <1>0. RowsType BY TypeParts
  <1>1. UNCHANGED <<work, kind, stored>> BY DEF Tap, Decline, DeliverFailed, part, rows
  <1>2. CASE Tap(p)
    <2>1. intent[p] = "waiting" /\ intent' = [intent EXCEPT ![p] = "succeeded"] /\ row' = row
      BY <1>2 DEF Tap, rows
    <2>2. intent'[p] = "succeeded" /\ \A q \in Parts \ {p} : intent'[q] = intent[q]
      BY <1>0, <2>1 DEF RowsType
    <2>3. \A q \in Parts : Event("succeeded", q) \in events'
              => q = p \/ Event("succeeded", q) \in events
      BY <1>2 DEF Tap, Event
    <2>4. Reading' BY <1>1, <2>1, <2>2, <2>3 DEF Reading
    <2>5. Charging => Charging' BY <1>1, <2>1, <2>2, ChargingKept
    <2> QED BY <2>4, <2>5 DEF Kept
  <1>3. CASE Decline(p)
    <2>1. UNCHANGED <<row, intent>> /\ events' = events \union {Event("failed", p)}
      BY <1>3 DEF Decline, rows
    <2>2. \A q \in Parts : Event("succeeded", q) # Event("failed", p) BY DEF Event
    <2>3. Reading' BY <1>1, <2>1, <2>2, ReadingKept
    <2>4. Charging => Charging' BY <1>1, <2>1, ChargingKept
    <2> QED BY <2>3, <2>4 DEF Kept
  <1>4. CASE DeliverFailed(p)
    <2>1. /\ intent' = intent /\ events' \subseteq events
          /\ row' = [r \in Parts |-> IF stored[r] = p THEN "FAILED" ELSE row[r]]
      BY <1>4 DEF DeliverFailed
    <2>2. Reading' BY <1>1, <2>1, ReadingKept
    <2>3. ASSUME Charging PROVE Charging'
      <3>1. \A r \in Parts : row'[r] = row[r] \/ (row'[r] = "FAILED" /\ stored[r] = r)
        BY <2>1, <2>3, NobodyAssumption DEF Charging
      <3> QED BY <1>1, <2>1, <2>3, <3>1 DEF Charging
    <2> QED BY <2>2, <2>3 DEF Kept
  <1> QED BY <1>2, <1>3, <1>4

\* A webhook, or the poll, finds the row of the card it is about.
LEMMA SettlingKept ==
    ASSUME TypeOK, Reading, NEW w \in Workers, NEW p \in Parts,
           DeliverSucceeded(w, p) \/ Poll(w, p)
    PROVE  Kept
  <1>0. RowsType /\ WorkType /\ FaultsType BY TypeParts
  <1>1. /\ Others(w) /\ work'[w].pc = "find" /\ work'[w].part = p
        /\ UNCHANGED <<kind, row, stored, intent>> /\ events' \subseteq events
    BY <1>0, Moves DEF DeliverSucceeded, Poll, part, rows
  <1>2. \A v \in Workers : work'[v] = work[v] \/ v = w BY <1>1 DEF Others
  <1>3. Reading' BY <1>1, <1>2, ReadingKept
  <1>4. intent[p] = "succeeded" BY DEF DeliverSucceeded, Poll, Reading
  <1>5. ASSUME Charging, Calm' PROVE stored[p] = p
    <2>1. CASE Poll(w, p)
      <3>1. row[p] # "none" /\ kind[p] # "manual" BY <2>1 DEF Poll, Charged
      <3>2. row[p] \in RowStatuses BY <1>0 DEF RowsType
      <3> QED BY <1>5, <3>1, <3>2 DEF Charging, RowStatuses
    <2>2. CASE DeliverSucceeded(w, p)
      <3>1. Holder(p) # {}
        BY <1>0, <1>5, <2>2, FaultType DEF DeliverSucceeded, Calm
      <3> QED BY <1>5, <3>1, NobodyAssumption DEF Holder, Charging
    <2> QED BY <2>1, <2>2
  <1>6. Calm' /\ Charging => Charging' BY <1>1, <1>2, <1>4, <1>5 DEF Charging
  <1> QED BY <1>3, <1>6 DEF Kept

LEMMA FindKept == ASSUME TypeOK, Reading, NEW w \in Workers, Find(w) PROVE Kept
  <1>0. RowsType /\ WorkType BY TypeParts
  <1> DEFINE p == work[w].part
             found == IF Holder(p) # {} THEN Holder(p) ELSE {latest} \ {Nobody}
  <1>1. /\ work[w].pc = "find" /\ UNCHANGED <<kind, row, intent, events>>
        /\ stored' = [r \in Parts |-> IF r \in found THEN p ELSE stored[r]]
    BY DEF Find, part
  <1>2. /\ Others(w) /\ work'[w].pc \in {"bank", "idle"}
        /\ work'[w].pc = "bank" => work'[w].row \in found
    <2>1. ASSUME NEW r \in found, work' = [work EXCEPT ![w] = At("bank", p, r)]
          PROVE  Others(w) /\ work'[w].pc = "bank" /\ work'[w].row \in found
      <3>1. work'[w] = At("bank", p, r) BY <1>0, <2>1 DEF WorkType
      <3>2. Others(w) BY <1>0, <2>1 DEF WorkType, Others
      <3> QED BY <3>1, <3>2 DEF At
    <2>2. CASE Finish(w) BY <1>0, <2>2, Moves
    <2> QED BY <2>1, <2>2 DEF Find
  <1>3. \A v \in Workers : work'[v] = work[v] \/ v = w BY <1>2 DEF Others
  <1>4. Reading' BY <1>1, <1>2, <1>3, ReadingKept
  <1>5. ASSUME Charging PROVE Charging'
    <2>1. p \in Parts /\ intent[p] = "succeeded" /\ stored[p] = p BY <1>1, <1>5 DEF Charging
    <2>2. Holder(p) = {p} BY <1>5, <2>1, NobodyAssumption DEF Holder, Charging
    <2>3. found = {p} BY <2>2
    <2>4. stored' = stored BY <1>0, <1>1, <2>1, <2>3 DEF RowsType
    <2> QED BY <1>1, <1>2, <1>3, <1>5, <2>1, <2>3, <2>4 DEF Charging
  <1> QED BY <1>4, <1>5 DEF Kept

LEMMA BankKept == ASSUME TypeOK, Reading, NEW w \in Workers, Bank(w) PROVE Kept
  <1>0. RowsType /\ WorkType BY TypeParts
  <1>1. /\ Others(w) /\ work'[w].pc \in {"check", "free"} /\ work[w].pc = "bank"
        /\ UNCHANGED <<kind, stored, intent, events>>
        /\ row' = [row EXCEPT ![work[w].row] = "SUCCEEDED"]
    <2>1. "check" \in Places /\ "free" \in Places BY DEF Places
    <2>2. GoOn(w, "check") \/ GoOn(w, "free") BY DEF Bank
    <2>3. Others(w) /\ work'[w].pc \in {"check", "free"} BY <1>0, <2>1, <2>2, Moves
    <2> QED BY <2>3 DEF Bank, part
  <1>2. \A v \in Workers : work'[v] = work[v] \/ v = w BY <1>1 DEF Others
  <1>3. Reading' BY <1>1, <1>2, ReadingKept
  <1>4. ASSUME Charging PROVE Charging'
    <2>1. /\ work[w].row \in Parts /\ intent[work[w].row] = "succeeded"
          /\ stored[work[w].row] = work[w].row
      BY <1>1, <1>4 DEF Charging
    <2>2. \A q \in Parts :
              row'[q] = row[q] \/ (q = work[w].row /\ row'[q] = "SUCCEEDED")
      BY <1>0, <1>1, <2>1 DEF RowsType
    <2> QED BY <1>1, <1>2, <1>4, <2>1, <2>2 DEF Charging
  <1> QED BY <1>3, <1>4 DEF Kept

\* What is left looks at the bill, closes it, or dies.
LEMMA CloseKept ==
    ASSUME TypeOK, Reading, NEW w \in Workers,
           SumAfter(w) \/ CheckCovered(w) \/ CloseStep(w) \/ Crash(w)
    PROVE  Kept
  <1>0. WorkType BY TypeParts
  <1>1. Others(w) /\ work'[w].pc \in {"pay", "free", "idle"}
    <2>1. {"pay", "free"} \subseteq Places BY DEF Places
    <2> QED BY <1>0, <2>1, Moves DEF SumAfter, CheckCovered, CloseStep, MarkPaid, FreeTable, Crash
  <1>2. UNCHANGED <<kind, row, stored, intent, events>>
    BY DEF SumAfter, CheckCovered, CloseStep, MarkPaid, FreeTable, Crash, part, rows
  <1>3. \A v \in Workers : work'[v] = work[v] \/ v = w BY <1>1 DEF Others
  <1>4. Reading' BY <1>1, <1>2, <1>3, ReadingKept
  <1>5. Charging => Charging' BY <1>1, <1>2, <1>3, ChargingKept
  <1> QED BY <1>4, <1>5 DEF Kept

LEMMA BankedStep == ASSUME TypeOK, BankedInv, [Next]_vars PROVE BankedInv'
  <1>1. CASE UNCHANGED vars
    BY <1>1 DEF vars, part, rows, bill, BankedInv, Reading, Calm, Charging
  <1>2. CASE Next
    <2>1. Reading BY DEF BankedInv
    <2>2. ASSUME NEW w \in Workers, NEW p \in Parts, ChargeWhole(w, p) PROVE Kept
      <3>1. Total \in 1 .. Total BY TotalAssumption
      <3> QED BY <2>1, <2>2, <3>1, TakenKept
    <2>3. Kept
      BY <1>2, <2>1, <2>2, NextStep, TakenKept, PresentKept, RecordKept, ReaderKept,
         SettlingKept, FindKept, BankKept, CloseKept DEF Step, TakeStep, SettleStep
    <2>4. Calm' => Calm BY <1>2, FaultsGrow DEF Grown, Calm
    <2> QED BY <2>3, <2>4 DEF Kept, BankedInv
  <1> QED BY <1>1, <1>2

\* The invariant of the card parts.
THEOREM BankedInvCorrect == Spec => []BankedInv
  <1>1. Init => BankedInv
    BY DEF Init, BankedInv, Reading, Charging, Idle, At
  <1> QED BY <1>1, BankedStep, SplitTypeCorrect, PTL DEF Spec

\* For any parts taken at once, in whatever order webhooks and polls settle them,
\* after declined cards, doubled events and crashes: no part counts whose own
\* card was not taken.
THEOREM BankedCorrect == Spec => []BankedMeansCharged
  <1>1. BankedInv => BankedMeansCharged
    BY DEF BankedInv, Calm, Charging, BankedMeansCharged
  <1> QED BY <1>1, BankedInvCorrect, PTL
-----------------------------------------------------------------------------
(* Sums of parts: the units of the bill they come to *)

Units(a, ps) == {u \in ps \X (1 .. Total) : u[2] <= a[u[1]]}
Sum(a, ps) == Cardinality(Units(a, ps))

LEMMA SumType ==
    ASSUME NEW a, NEW ps \in SUBSET Parts
    PROVE  IsFiniteSet(Units(a, ps)) /\ Sum(a, ps) \in Nat
  <1>1. IsFiniteSet(ps) /\ IsFiniteSet(1 .. Total)
    BY PartsAssumption, TotalAssumption, FS_Subset, FS_Interval
  <1>2. IsFiniteSet(ps \X (1 .. Total)) BY <1>1, FS_Product
  <1>3. Units(a, ps) \subseteq ps \X (1 .. Total) BY DEF Units
  <1> QED BY <1>2, <1>3, FS_Subset, FS_CardinalityType DEF Sum

LEMMA SumGrows ==
    ASSUME NEW a, NEW b, NEW qs \in SUBSET Parts, NEW ps \in SUBSET qs,
           \A p \in ps : a[p] = b[p]
    PROVE  Sum(a, ps) <= Sum(b, qs)
  <1>1. Units(a, ps) \subseteq Units(b, qs) BY DEF Units
  <1> QED BY <1>1, SumType, FS_Subset DEF Sum

\* The units of one part.
LEMMA UnitsOf ==
    ASSUME NEW p, NEW n \in Nat
    PROVE  IsFiniteSet({p} \X (1 .. n)) /\ Cardinality({p} \X (1 .. n)) = n
  <1> DEFINE f == [k \in 1 .. n |-> <<p, k>>]
  <1>1. f \in Bijection(1 .. n, {p} \X (1 .. n))
    <2>1. f \in [1 .. n -> {p} \X (1 .. n)] OBVIOUS
    <2>2. \A j, k \in 1 .. n : f[j] = f[k] => j = k OBVIOUS
    <2>3. ASSUME NEW u \in {p} \X (1 .. n) PROVE \E k \in 1 .. n : f[k] = u
      <3>1. u = <<p, u[2]>> /\ u[2] \in 1 .. n OBVIOUS
      <3> QED BY <3>1
    <2> QED BY <2>1, <2>2, <2>3 DEF Bijection, Injection, Surjection, IsInjective
  <1>2. IsFiniteSet(1 .. n) /\ Cardinality(1 .. n) = n BY FS_Interval
  <1>3. ExistsBijection(1 .. n, {p} \X (1 .. n)) BY <1>1 DEF ExistsBijection
  <1> QED BY <1>2, <1>3, FS_Bijection

\* A part more adds what it comes to, at most.
LEMMA SumAdds ==
    ASSUME NEW a, NEW ps \in SUBSET Parts, NEW p \in Parts, a[p] \in 0 .. Total
    PROVE  Sum(a, ps \union {p}) <= Sum(a, ps) + a[p]
  <1> DEFINE S == Units(a, ps)
             U == {p} \X (1 .. a[p])
  <1>1. IsFiniteSet(S) /\ Cardinality(S) \in Nat BY SumType, FS_CardinalityType
  <1>2. a[p] \in Nat BY TotalAssumption
  <1>3. IsFiniteSet(U) /\ Cardinality(U) = a[p] BY <1>2, UnitsOf
  <1>4. Units(a, ps \union {p}) \subseteq S \union U
    <2>1. ASSUME NEW u \in Units(a, ps \union {p}) PROVE u \in S \union U
      <3>1. u \in (ps \union {p}) \X (1 .. Total) /\ u[2] <= a[u[1]] BY DEF Units
      <3>2. u = <<u[1], u[2]>> /\ u[1] \in ps \union {p} /\ u[2] \in 1 .. Total BY <3>1
      <3>3. CASE u[1] \in ps BY <3>1, <3>2, <3>3 DEF Units
      <3>4. CASE u[1] = p
        <4>1. u[2] \in 1 .. a[p] BY <1>2, <3>1, <3>2, <3>4, TotalAssumption
        <4> QED BY <3>2, <3>4, <4>1
      <3> QED BY <3>2, <3>3, <3>4
    <2> QED BY <2>1
  <1> HIDE DEF S, U
  <1>5. IsFiniteSet(S \union U)
        /\ Cardinality(S \union U) = Cardinality(S) + Cardinality(U) - Cardinality(S \cap U)
    BY <1>1, <1>3, FS_Union
  <1>6. Cardinality(S \cap U) \in Nat BY <1>1, FS_Intersection, FS_CardinalityType
  <1>7. Cardinality(Units(a, ps \union {p})) <= Cardinality(S \union U)
    BY <1>4, <1>5, FS_Subset
  <1>8. Cardinality(Units(a, ps \union {p})) \in Nat
    BY <1>4, <1>5, FS_Subset, FS_CardinalityType
  <1>9. Cardinality(S \union U) \in Nat BY <1>5, FS_CardinalityType
  <1> QED BY <1>1, <1>2, <1>3, <1>5, <1>6, <1>7, <1>8, <1>9 DEF Sum, S

LEMMA SumOfOne ==
    ASSUME NEW a, NEW ps \in SUBSET Parts, NEW p \in ps, a[p] = Total
    PROVE  Sum(a, ps) >= Total
  <1> DEFINE U == {p} \X (1 .. Total)
  <1>1. Total \in Nat BY TotalAssumption
  <1>2. IsFiniteSet(U) /\ Cardinality(U) = Total BY <1>1, UnitsOf
  <1>3. U \subseteq Units(a, ps)
    <2>1. ASSUME NEW u \in U PROVE u \in Units(a, ps)
      <3>1. u = <<p, u[2]>> /\ u[1] = p /\ u[2] \in 1 .. Total OBVIOUS
      <3>2. u[2] <= a[u[1]] BY <1>1, <3>1
      <3> QED BY <3>1, <3>2 DEF Units
    <2> QED BY <2>1
  <1>4. IsFiniteSet(Units(a, ps)) /\ Sum(a, ps) \in Nat BY SumType
  <1>5. Cardinality(U) <= Cardinality(Units(a, ps)) BY <1>3, <1>4, FS_Subset
  <1> QED BY <1>1, <1>2, <1>4, <1>5 DEF Sum

BankedSet == {p \in Parts : row[p] = "SUCCEEDED"}
TakenSet == {p \in Parts : (kind[p] = "manual" /\ row[p] = "SUCCEEDED") \/ intent[p] = "succeeded"}

LEMMA Sums ==
    /\ Banked = Sum(amount, BankedSet) /\ Taken = Sum(amount, TakenSet)
    /\ Banked' = Sum(amount', BankedSet') /\ Taken' = Sum(amount', TakenSet')
    /\ Banked \in Nat /\ Taken \in Nat /\ Banked' \in Nat /\ Taken' \in Nat
  <1>1. Banked = Sum(amount, BankedSet) /\ Taken = Sum(amount, TakenSet)
    BY DEF Banked, Taken, AmountOf, Sum, Units, BankedSet, TakenSet
  <1>2. Banked' = Sum(amount', BankedSet') /\ Taken' = Sum(amount', TakenSet')
    BY DEF Banked, Taken, AmountOf, Sum, Units, BankedSet, TakenSet
  <1>3. /\ BankedSet \in SUBSET Parts /\ TakenSet \in SUBSET Parts
        /\ BankedSet' \in SUBSET Parts /\ TakenSet' \in SUBSET Parts
    BY DEF BankedSet, TakenSet
  <1> QED BY <1>1, <1>2, <1>3, SumType
-----------------------------------------------------------------------------
(* PaidMeansTaken: its inductive invariant *)

CardKinds == {"split", "whole"}

\* Only what is charged to a card is on a reader, or has a PaymentIntent.
Cards ==
    /\ \A p \in Parts : kind[p] = "whole" => amount[p] = Total
    /\ \A p \in Parts : intent[p] # "none" => kind[p] \in CardKinds
    /\ \A w \in Workers :
           work[w].pc \in {"present", "record"} => kind[work[w].part] \in CardKinds

Stored == \A p \in Parts : stored[p] = p => kind[p] \in CardKinds

Closing == \E w \in Workers : work[w].pc \in {"pay", "free"}
Covered == paid \/ freed \/ Closing => Taken >= Total

PaidInv == Cards /\ (Calm => Stored /\ Covered)

LEMMA CardsKept ==
    ASSUME Cards, UNCHANGED part,
           \A p \in Parts : intent'[p] # "none" => kind[p] \in CardKinds,
           \A v \in Workers : work'[v].pc \in {"present", "record"}
                                  => /\ work[v].pc \in {"present", "record"}
                                     /\ work'[v].part = work[v].part
    PROVE  Cards'
  BY DEF Cards, part

LEMMA CardsBegin ==
    ASSUME TypeOK, Reading, Cards, NEW w \in Workers, NEW p \in Parts, NEW k \in Kinds,
           NEW m, NEW pc \in {"create", "present"}, pc = "present" => k \in CardKinds,
           k = "whole" => m = Total, Begin(w, p, k, m, pc)
    PROVE  /\ Cards' /\ (Stored => Stored')
           /\ TakenSet \subseteq TakenSet' /\ \A q \in TakenSet : amount'[q] = amount[q]
           /\ UNCHANGED bill /\ (Closing' => Closing)
  <1>0. RowsType /\ WorkType BY TypeParts
  <1>1. work' = [work EXCEPT ![w] = At(pc, p, Nobody)] /\ UNCHANGED <<row, stored, intent>>
        /\ UNCHANGED bill
    BY DEF Begin, rows
  <1>2. kind[p] = "none" /\ kind' = [kind EXCEPT ![p] = k] /\ amount' = [amount EXCEPT ![p] = m]
    BY Zenon DEF Begin
  <1>3. /\ work'[w].pc = pc /\ work'[w].part = p
        /\ \A v \in Workers \ {w} : work'[v] = work[v]
    BY <1>0, <1>1 DEF WorkType, At
  <1>4. /\ kind'[p] = k /\ amount'[p] = m
        /\ \A q \in Parts \ {p} : kind'[q] = kind[q] /\ amount'[q] = amount[q]
    BY <1>0, <1>2 DEF RowsType
  <1>5. intent[p] = "none" BY <1>2 DEF Reading
  <1>6. \A v \in Workers \ {w} : work[v].pc \in {"present", "record"} => work[v].part # p
    BY <1>2 DEF Cards, CardKinds
  <1>7. Cards'
    <2>1. \A q \in Parts : kind'[q] = "whole" => amount'[q] = Total BY <1>4 DEF Cards
    <2>2. \A q \in Parts : intent'[q] # "none" => kind'[q] \in CardKinds
      BY <1>1, <1>4, <1>5 DEF Cards
    <2>3. ASSUME NEW v \in Workers, work'[v].pc \in {"present", "record"}
          PROVE  kind'[work'[v].part] \in CardKinds
      <3>1. CASE v = w BY <1>3, <1>4, <2>3, <3>1
      <3>2. CASE v # w
        <4>1. work'[v] = work[v] /\ work[v].part # p BY <1>3, <1>6, <2>3, <3>2
        <4>2. work[v].part \in Parts BY <2>3, <4>1 DEF Reading
        <4> QED BY <1>4, <2>3, <4>1, <4>2 DEF Cards
      <3> QED BY <3>1, <3>2
    <2> QED BY <2>1, <2>2, <2>3 DEF Cards
  <1>8. Stored => Stored' BY <1>1, <1>2, <1>4 DEF Stored, CardKinds
  <1>9. p \notin TakenSet BY <1>2, <1>5 DEF TakenSet
  <1>10. TakenSet \subseteq TakenSet' /\ \A q \in TakenSet : amount'[q] = amount[q]
    BY <1>1, <1>4, <1>9 DEF TakenSet
  <1>11. Closing' => Closing BY <1>3 DEF Closing
  <1> QED BY <1>1, <1>7, <1>8, <1>10, <1>11

\* A step that leaves the parts alone, and whoever closes the bill had been at it.
LEMMA CoveredKept ==
    ASSUME Covered, TakenSet \subseteq TakenSet', \A q \in TakenSet : amount'[q] = amount[q],
           paid' \/ freed' \/ Closing' => paid \/ freed \/ Closing \/ Taken >= Total
    PROVE  Covered'
  <1>1. TakenSet' \in SUBSET Parts BY DEF TakenSet
  <1>2. Taken <= Taken' BY <1>1, Sums, SumGrows
  <1>3. paid' \/ freed' \/ Closing' => Taken >= Total BY DEF Covered
  <1>4. Taken \in Nat /\ Taken' \in Nat BY Sums
  <1> QED BY <1>2, <1>3, <1>4, TotalAssumption DEF Covered

PaidKept == Cards' /\ (Calm' /\ Charging /\ Stored /\ Covered => Stored' /\ Covered')

LEMMA BeginPaid ==
    ASSUME TypeOK, Reading, Cards, NEW w \in Workers, NEW p \in Parts, NEW n \in 1 .. Total,
           AddPayment(w, p, n) \/ ChargeOrder(w, p, n) \/ ChargeWhole(w, p)
    PROVE  PaidKept
  <1>1. ASSUME NEW k \in Kinds, NEW m, NEW pc \in {"create", "present"},
               pc = "present" => k \in CardKinds, k = "whole" => m = Total,
               Begin(w, p, k, m, pc)
        PROVE  PaidKept
    <2>1. /\ Cards' /\ (Stored => Stored')
          /\ TakenSet \subseteq TakenSet' /\ \A q \in TakenSet : amount'[q] = amount[q]
          /\ UNCHANGED bill /\ (Closing' => Closing)
      BY <1>1, CardsBegin
    <2>2. Covered => Covered' BY <2>1, CoveredKept DEF bill
    <2> QED BY <2>1, <2>2 DEF PaidKept
  <1>2. CASE AddPayment(w, p, n) BY <1>1, <1>2 DEF AddPayment, Kinds
  <1>3. CASE ChargeOrder(w, p, n) BY <1>1, <1>3 DEF ChargeOrder, Kinds, CardKinds
  <1>4. CASE ChargeWhole(w, p) BY <1>1, <1>4 DEF ChargeWhole, Kinds, CardKinds
  <1> QED BY <1>2, <1>3, <1>4

LEMMA TakeStepPaid == ASSUME TypeOK, Reading, Cards, NEW w \in Workers, TakeStep(w) PROVE PaidKept
  <1>0. RowsType /\ WorkType BY TypeParts
  <1> DEFINE p == work[w].part
  <1>1. UNCHANGED part /\ UNCHANGED bill
    BY DEF TakeStep, Create, SumAfter, Present, Record
  <1>2. CASE Create(w)
    <2>1. /\ Others(w) /\ work'[w].pc = "sum" /\ UNCHANGED <<stored, intent>>
          /\ row' = [row EXCEPT ![p] = "SUCCEEDED"]
      BY <1>0, <1>2, Moves DEF Create, Places
    <2>2. Cards' BY <1>1, <2>1, CardsKept DEF Cards, Others
    <2>3. Stored => Stored' BY <1>1, <2>1 DEF Stored, part
    <2>4. \A q \in Parts : row[q] = "SUCCEEDED" => row'[q] = "SUCCEEDED"
      BY <1>0, <2>1 DEF RowsType
    <2>5. TakenSet \subseteq TakenSet' /\ \A q \in TakenSet : amount'[q] = amount[q]
      BY <1>1, <2>1, <2>4 DEF TakenSet, part
    <2>6. Closing' => Closing BY <2>1 DEF Closing, Others
    <2> QED BY <1>1, <2>2, <2>3, <2>5, <2>6, CoveredKept DEF PaidKept, bill
  <1>3. CASE SumAfter(w)
    <2>1. /\ Others(w) /\ work'[w].pc \in {"pay", "idle"}
          /\ (work'[w].pc = "pay" => Banked >= Total)
          /\ UNCHANGED <<row, stored, intent>>
      BY <1>0, <1>3, Moves DEF SumAfter, Places, rows
    <2>2. Cards' BY <1>1, <2>1, CardsKept DEF Cards, Others
    <2>3. Stored => Stored' BY <1>1, <2>1 DEF Stored, part
    <2>4. TakenSet \subseteq TakenSet' /\ \A q \in TakenSet : amount'[q] = amount[q]
      BY <1>1, <2>1 DEF TakenSet, part
    <2>5. ASSUME Charging, Banked >= Total PROVE Taken >= Total
      <3>1. BankedSet \subseteq TakenSet /\ TakenSet \in SUBSET Parts
        BY <2>5 DEF Charging, BankedSet, TakenSet
      <3>2. Banked <= Taken BY <3>1, Sums, SumGrows
      <3> QED BY <2>5, <3>2, Sums, TotalAssumption
    <2>6. Charging /\ Closing' => Closing \/ Taken >= Total BY <2>1, <2>5 DEF Closing, Others
    <2> QED BY <1>1, <2>2, <2>3, <2>4, <2>6, CoveredKept DEF PaidKept, bill
  <1>4. CASE Present(w)
    <2>1. /\ Others(w) /\ work'[w].pc = "record" /\ work'[w].part = p
          /\ UNCHANGED <<row, stored>> /\ intent' = [intent EXCEPT ![p] = "waiting"]
      BY <1>0, <1>4, Moves DEF Present, Places, rows
    <2>2. work[w].pc = "present" /\ p \in Parts /\ kind[p] \in CardKinds /\ intent[p] = "none"
      BY <1>4 DEF Present, Reading, Cards
    <2>3. \A q \in Parts : q # p => intent'[q] = intent[q] BY <1>0, <2>1 DEF RowsType
    <2>4. Cards' BY <1>1, <2>1, <2>2, <2>3, CardsKept DEF Cards, Others
    <2>5. Stored => Stored' BY <1>1, <2>1 DEF Stored, part
    <2>6. TakenSet \subseteq TakenSet' /\ \A q \in TakenSet : amount'[q] = amount[q]
      BY <1>1, <2>1, <2>2, <2>3 DEF TakenSet, part
    <2>7. Closing' => Closing BY <2>1 DEF Closing, Others
    <2> QED BY <1>1, <2>4, <2>5, <2>6, <2>7, CoveredKept DEF PaidKept, bill
  <1>5. CASE Record(w)
    <2>1. Others(w) /\ work'[w].pc = "idle" /\ UNCHANGED intent
      BY <1>0, <1>5, Moves DEF Record
    <2>2. work[w].pc = "record" /\ p \in Parts /\ kind[p] \in CardKinds
      BY <1>5 DEF Record, Reading, Cards
    <2>3. \A q \in Parts : q # p => row'[q] = row[q] /\ stored'[q] = stored[q]
      BY <1>0, <1>5 DEF Record, RowsType, rows
    <2>4. Cards' BY <1>1, <2>1, CardsKept DEF Cards, Others
    <2>5. Stored => Stored' BY <1>1, <2>2, <2>3 DEF Stored, part
    <2>6. TakenSet \subseteq TakenSet' /\ \A q \in TakenSet : amount'[q] = amount[q]
      BY <1>1, <2>1, <2>2, <2>3 DEF TakenSet, part, CardKinds
    <2>7. Closing' => Closing BY <2>1 DEF Closing, Others
    <2> QED BY <1>1, <2>4, <2>5, <2>6, <2>7, CoveredKept DEF PaidKept, bill
  <1> QED BY <1>2, <1>3, <1>4, <1>5 DEF TakeStep

LEMMA ReaderPaid ==
    ASSUME TypeOK, Reading, Cards, NEW p \in Parts, Tap(p) \/ Decline(p) \/ DeliverFailed(p)
    PROVE  PaidKept
  <1>0. RowsType BY TypeParts
  <1>1. UNCHANGED <<work, stored, bill, part>>
    BY DEF Tap, Decline, DeliverFailed, rows
  <1>2. \A q \in Parts : /\ intent[q] = "succeeded" => intent'[q] = "succeeded"
                         /\ intent'[q] # "none" => intent[q] # "none"
    <2>1. CASE Tap(p)
      <3>1. intent[p] = "waiting" /\ intent' = [intent EXCEPT ![p] = "succeeded"]
        BY <2>1 DEF Tap
      <3> QED BY <1>0, <3>1 DEF RowsType
    <2>2. CASE ~Tap(p) BY <2>2 DEF Decline, DeliverFailed
    <2> QED BY <2>1, <2>2
  <1>3. Cards' BY <1>1, <1>2, CardsKept DEF Cards
  <1>4. Stored => Stored' BY <1>1 DEF Stored, part
  <1>5. ASSUME Charging, Stored
        PROVE  \A q \in Parts : kind[q] = "manual" /\ row[q] = "SUCCEEDED" => row'[q] = row[q]
    <2>1. CASE DeliverFailed(p)
      <3>1. row' = [r \in Parts |-> IF stored[r] = p THEN "FAILED" ELSE row[r]]
        BY <2>1 DEF DeliverFailed
      <3>2. \A q \in Parts : kind[q] = "manual" => stored[q] # p
        BY <1>5, NobodyAssumption DEF Charging, Stored, CardKinds
      <3> QED BY <3>1, <3>2
    <2>2. CASE ~DeliverFailed(p) BY <2>2 DEF Tap, Decline, rows
    <2> QED BY <2>1, <2>2
  <1>6. ASSUME Charging, Stored
        PROVE  TakenSet \subseteq TakenSet' /\ \A q \in TakenSet : amount'[q] = amount[q]
    <2>1. kind' = kind /\ amount' = amount BY <1>1 DEF part
    <2>2. \A q \in Parts : kind[q] = "manual" /\ row[q] = "SUCCEEDED" => row'[q] = row[q]
      BY <1>5, <1>6
    <2> QED BY <1>2, <2>1, <2>2 DEF TakenSet
  <1>7. Closing' => Closing BY <1>1 DEF Closing
  <1> QED BY <1>1, <1>3, <1>4, <1>6, <1>7, CoveredKept DEF PaidKept, bill

LEMMA SettlePaid ==
    ASSUME TypeOK, Reading, Cards, NEW w \in Workers,
           \/ \E p \in Parts : DeliverSucceeded(w, p) \/ Poll(w, p)
           \/ SettleStep(w) \/ CloseStep(w) \/ Crash(w)
    PROVE  PaidKept
  <1>0. RowsType /\ WorkType BY TypeParts
  <1>1. UNCHANGED part /\ UNCHANGED intent
    BY DEF DeliverSucceeded, Poll, SettleStep, Find, Bank, CheckCovered, CloseStep, MarkPaid,
           FreeTable, Crash
  <1>2. ASSUME Others(w), work'[w].pc \notin {"present", "record"} PROVE Cards'
    BY <1>1, <1>2, CardsKept DEF Cards, Others
  <1>3. ASSUME Others(w), work'[w].pc \notin {"present", "record"}, UNCHANGED <<row, bill>>,
               Charging /\ Stored => Stored',
               Charging /\ work'[w].pc \in {"pay", "free"}
                   => work[w].pc \in {"pay", "free"} \/ Taken >= Total
        PROVE  PaidKept
    <2>1. Cards' BY <1>2, <1>3
    <2>2. TakenSet \subseteq TakenSet' /\ \A q \in TakenSet : amount'[q] = amount[q]
      BY <1>1, <1>3 DEF TakenSet, part
    <2>3. Charging /\ Closing' => Closing \/ Taken >= Total BY <1>3 DEF Closing, Others
    <2> QED BY <1>3, <2>1, <2>2, <2>3, CoveredKept DEF PaidKept, bill
  <1>4. ASSUME NEW p \in Parts, DeliverSucceeded(w, p) \/ Poll(w, p) PROVE PaidKept
    <2>1. Others(w) /\ work'[w].pc = "find" /\ UNCHANGED <<row, bill, stored>>
      BY <1>0, <1>4, Moves DEF DeliverSucceeded, Poll, rows
    <2>2. Stored => Stored' BY <1>1, <2>1 DEF Stored, part
    <2> QED BY <1>3, <2>1, <2>2
  <1>5. CASE Find(w)
    <2> DEFINE p == work[w].part
               found == IF Holder(p) # {} THEN Holder(p) ELSE {latest} \ {Nobody}
    <2>1. /\ work[w].pc = "find" /\ UNCHANGED <<row, bill>>
          /\ stored' = [r \in Parts |-> IF r \in found THEN p ELSE stored[r]]
      BY <1>5 DEF Find
    <2>2. Others(w) /\ work'[w].pc \in {"bank", "idle"}
      <3>1. ASSUME NEW r \in found, work' = [work EXCEPT ![w] = At("bank", p, r)]
            PROVE  Others(w) /\ work'[w].pc = "bank"
        BY <1>0, <3>1, Moves
      <3>2. CASE Finish(w) BY <1>0, <3>2, Moves
      <3> QED BY <1>5, <3>1, <3>2 DEF Find
    <2>3. ASSUME Charging, Stored PROVE Stored'
      <3>1. p \in Parts /\ stored[p] = p BY <2>1, <2>3 DEF Charging
      <3>2. Holder(p) = {p} BY <2>3, <3>1, NobodyAssumption DEF Holder, Charging
      <3>3. found = {p} BY <3>2
      <3>4. stored' = stored BY <1>0, <2>1, <3>1, <3>3 DEF RowsType
      <3> QED BY <1>1, <2>3, <3>4 DEF Stored, part
    <2> QED BY <1>3, <2>1, <2>2, <2>3
  <1>6. CASE Bank(w)
    <2> DEFINE r == work[w].row
    <2>1. /\ Others(w) /\ work'[w].pc \in {"check", "free"} /\ work[w].pc = "bank"
          /\ UNCHANGED <<stored, freed>> /\ row' = [row EXCEPT ![r] = "SUCCEEDED"]
          /\ kind[r] # "whole" => paid' = paid /\ work'[w].pc = "check"
      <3>1. "check" \in Places /\ "free" \in Places BY DEF Places
      <3>2. \/ GoOn(w, "check") /\ paid' = paid
            \/ GoOn(w, "free") /\ kind[r] = "whole"
        BY <1>6 DEF Bank
      <3>3. Others(w) /\ work'[w].pc \in {"check", "free"}
            /\ (kind[r] # "whole" => paid' = paid /\ work'[w].pc = "check")
        BY <1>0, <3>1, <3>2, Moves
      <3> QED BY <1>6, <3>3 DEF Bank
    <2>2. Cards' BY <1>2, <2>1
    <2>3. Stored => Stored' BY <1>1, <2>1 DEF Stored, part
    <2>4. \A q \in Parts : row[q] = "SUCCEEDED" => row'[q] = "SUCCEEDED"
      BY <1>0, <2>1 DEF RowsType
    <2>5. TakenSet \subseteq TakenSet' /\ \A q \in TakenSet : amount'[q] = amount[q]
      BY <1>1, <2>4 DEF TakenSet, part
    <2>6. ASSUME Charging, kind[r] = "whole" PROVE Taken >= Total
      <3>1. r \in Parts /\ intent[r] = "succeeded" BY <2>1, <2>6 DEF Charging
      <3>2. r \in TakenSet /\ amount[r] = Total /\ TakenSet \in SUBSET Parts
        BY <2>6, <3>1 DEF Cards, TakenSet
      <3> QED BY <3>2, Sums, SumOfOne
    <2>7. Charging /\ (paid' \/ freed' \/ Closing') => paid \/ freed \/ Closing \/ Taken >= Total
      BY <2>1, <2>6 DEF Closing, Others
    <2> QED BY <2>2, <2>3, <2>5, <2>7, CoveredKept DEF PaidKept
  <1>7. CASE CheckCovered(w)
    <2>1. /\ Others(w) /\ work'[w].pc \in {"pay", "idle"} /\ UNCHANGED <<row, bill, stored>>
          /\ (work'[w].pc = "pay" => Banked >= Total)
      BY <1>0, <1>7, Moves DEF CheckCovered, Places, rows
    <2>2. Stored => Stored' BY <1>1, <2>1 DEF Stored, part
    <2>3. ASSUME Charging, Banked >= Total PROVE Taken >= Total
      <3>1. BankedSet \subseteq TakenSet /\ TakenSet \in SUBSET Parts
        BY <2>3 DEF Charging, BankedSet, TakenSet
      <3>2. Banked <= Taken BY <3>1, Sums, SumGrows
      <3> QED BY <2>3, <3>2, Sums, TotalAssumption
    <2> QED BY <1>3, <2>1, <2>2, <2>3
  <1>8. CASE CloseStep(w)
    <2>1. /\ Others(w) /\ work'[w].pc \in {"free", "idle"} /\ UNCHANGED <<row, stored>>
          /\ work[w].pc \in {"pay", "free"}
      BY <1>0, <1>8, Moves DEF CloseStep, MarkPaid, FreeTable, Places, rows
    <2>2. Cards' BY <1>2, <2>1
    <2>3. Stored => Stored' BY <1>1, <2>1 DEF Stored, part
    <2>4. TakenSet \subseteq TakenSet' /\ \A q \in TakenSet : amount'[q] = amount[q]
      BY <1>1, <2>1 DEF TakenSet, part
    <2>5. Closing BY <2>1 DEF Closing
    <2> QED BY <2>2, <2>3, <2>4, <2>5, CoveredKept DEF PaidKept
  <1>9. CASE Crash(w)
    <2>1. Others(w) /\ work'[w].pc = "idle" /\ UNCHANGED <<row, bill, stored>>
      BY <1>0, <1>9, Moves DEF Crash, rows
    <2>2. Stored => Stored' BY <1>1, <2>1 DEF Stored, part
    <2> QED BY <1>3, <2>1, <2>2
  <1> QED BY <1>4, <1>5, <1>6, <1>7, <1>8, <1>9 DEF SettleStep

LEMMA PaidStep == ASSUME TypeOK, BankedInv, PaidInv, [Next]_vars PROVE PaidInv'
  <1>1. CASE UNCHANGED vars
    <2>1. UNCHANGED <<kind, amount, row, stored, intent, paid, freed, work, faults>>
      BY <1>1 DEF vars, part, rows, bill
    <2>2. Taken' = Taken BY <2>1 DEF Taken, AmountOf
    <2> QED BY <2>1, <2>2 DEF PaidInv, Cards, Calm, Stored, Covered, Closing
  <1>2. CASE Next
    <2>1. Reading /\ Cards BY DEF BankedInv, PaidInv
    <2>2. ASSUME NEW w \in Workers, NEW p \in Parts, ChargeWhole(w, p) PROVE PaidKept
      <3>1. Total \in 1 .. Total BY TotalAssumption
      <3> QED BY <2>1, <2>2, <3>1, BeginPaid
    <2>3. PaidKept
      BY <1>2, <2>1, <2>2, NextStep, BeginPaid, TakeStepPaid, ReaderPaid, SettlePaid DEF Step
    <2>4. Calm' => Calm BY <1>2, FaultsGrow DEF Grown, Calm
    <2> QED BY <2>3, <2>4 DEF PaidKept, PaidInv, BankedInv
  <1> QED BY <1>1, <1>2

\* An order is PAID, and its table freed, only once the parts that were taken
\* come to the bill, whatever the bill, its parts and how they race.
THEOREM PaidCorrect == Spec => []PaidMeansTaken
  <1>1. Init => PaidInv
    BY NobodyAssumption DEF Init, PaidInv, Cards, Stored, Covered, Closing, Idle, At
  <1>2. PaidInv => PaidMeansTaken
    BY DEF PaidInv, Calm, Covered, PaidMeansTaken
  <1>3. TypeOK /\ BankedInv /\ PaidInv /\ [Next]_vars => PaidInv' BY PaidStep
  <1> QED BY <1>1, <1>2, <1>3, SplitTypeCorrect, BankedInvCorrect, PTL DEF Spec
-----------------------------------------------------------------------------
(* NeverOvercharged: its inductive invariant *)

Orderly == ~overlap /\ faults.kinds \intersect {"early", "late", "whole"} = {}

\* What is counted as paid, or is being paid.
Held == {p \in Parts : row[p] = "SUCCEEDED" \/ UnderWay(p)}

HeldInv == Orderly => Sum(amount, Held) <= Total

LEMMA OrderlyBefore ==
    ASSUME TypeOK, Next, Orderly'
    PROVE  Orderly
  <1>0. FaultsType /\ overlap \in BOOLEAN BY TypeParts DEF RowsType
  <1>1. overlap => overlap'
    <2>1. ASSUME NEW w \in Workers, NEW p, NEW k, NEW n, NEW pc, Begin(w, p, k, n, pc)
          PROVE  overlap => overlap'
      BY <2>1 DEF Begin
    <2>2. ASSUME NEW p \in Parts, Tap(p) \/ Decline(p) \/ DeliverFailed(p)
          PROVE  overlap => overlap'
      BY <2>2 DEF Tap, Decline, DeliverFailed
    <2>3. ASSUME NEW w \in Workers, NEW p \in Parts, NEW n \in 1 .. Total,
                 AddPayment(w, p, n) \/ ChargeOrder(w, p, n)
          PROVE  overlap => overlap'
      BY <2>1, <2>3 DEF AddPayment, ChargeOrder
    <2>4. ASSUME NEW w \in Workers, NEW p \in Parts,
                 ChargeWhole(w, p) \/ DeliverSucceeded(w, p) \/ Poll(w, p)
          PROVE  overlap => overlap'
      BY <2>1, <2>4 DEF ChargeWhole, DeliverSucceeded, Poll
    <2>5. ASSUME NEW w \in Workers, Step(w) \/ Crash(w)
          PROVE  overlap => overlap'
      BY <2>5 DEF Step, TakeStep, SettleStep, CloseStep, Create, SumAfter,
         Present, Record, Find, Bank, CheckCovered, MarkPaid, FreeTable, Crash
    <2> QED BY <2>2, <2>3, <2>4, <2>5, NextStep
  <1>2. faults.kinds \subseteq faults'.kinds BY FaultsGrow DEF Grown
  <1> QED BY <1>0, <1>1, <1>2 DEF Orderly

\* A part is begun when no other is under way, for what is still owed.
LEMMA HeldBegin ==
    ASSUME TypeOK, Reading, NEW w \in Workers, NEW p \in Parts, NEW n \in 1 .. Total,
           AddPayment(w, p, n) \/ ChargeOrder(w, p, n) \/ ChargeWhole(w, p), Orderly'
    PROVE  Sum(amount', Held') <= Total
  <1>0. RowsType /\ WorkType /\ FaultsType BY TypeParts
  <1>1. ASSUME NEW k, NEW m \in 1 .. Total, NEW pc, Begin(w, p, k, m, pc), m + Banked <= Total
        PROVE  Sum(amount', Held') <= Total
    <2>1. work' = [work EXCEPT ![w] = At(pc, p, Nobody)] /\ UNCHANGED <<row, intent>>
      BY <1>1 DEF Begin, rows
    <2>2. /\ amount' = [amount EXCEPT ![p] = m]
          /\ overlap' = (overlap \/ \E q \in Parts : UnderWay(q))
      BY <1>1, Zenon DEF Begin
    <2>3. work'[w].part = p /\ \A v \in Workers \ {w} : work'[v] = work[v]
      BY <1>0, <2>1 DEF WorkType, At
    <2>4. amount'[p] = m /\ \A q \in Parts \ {p} : amount'[q] = amount[q]
      BY <1>0, <2>2 DEF RowsType
    <2>5. \A q \in Parts : ~UnderWay(q) BY <2>2 DEF Orderly
    <2>6. ASSUME NEW q \in Parts, q # p, UnderWay(q)' PROVE UnderWay(q)
      <3>1. CASE \E v \in Workers : work'[v].part = q
                                    /\ work'[v].pc \in {"create", "present", "record"}
        BY <2>3, <2>6, <3>1 DEF UnderWay
      <3>2. CASE intent[q] = "waiting" \/ (intent[q] = "succeeded" /\ row[q] # "SUCCEEDED")
        BY <3>2 DEF UnderWay
      <3> QED BY <2>1, <2>6, <3>1, <3>2 DEF UnderWay
    <2>7. Held' \subseteq (BankedSet \ {p}) \union {p}
      BY <2>1, <2>5, <2>6 DEF Held, BankedSet
    <2> DEFINE rest == BankedSet \ {p}
    <2>8. rest \in SUBSET Parts /\ BankedSet \in SUBSET Parts /\ rest \union {p} \in SUBSET Parts
      BY DEF BankedSet
    <2>9. Sum(amount', Held') <= Sum(amount', rest \union {p})
      BY <2>7, <2>8, SumGrows
    <2>10. amount'[p] \in 0 .. Total BY <2>4
    <2>11. Sum(amount', rest \union {p}) <= Sum(amount', rest) + m
      BY <2>4, <2>8, <2>10, SumAdds
    <2>12. Sum(amount', rest) <= Sum(amount, BankedSet)
      BY <2>4, <2>8, SumGrows
    <2>13. /\ Sum(amount', Held') \in Nat /\ Sum(amount', rest \union {p}) \in Nat
           /\ Sum(amount', rest) \in Nat /\ Sum(amount, BankedSet) \in Nat
      BY <2>8, SumType DEF Held
    <2>14. Sum(amount, BankedSet) = Banked /\ m \in Nat /\ Total \in Nat
      BY Sums, TotalAssumption
    <2> HIDE DEF rest
    <2> QED BY <1>1, <2>9, <2>11, <2>12, <2>13, <2>14
  <1>2. Banked \in Nat /\ Total \in 1 .. Total /\ n \in Nat BY Sums, TotalAssumption
  <1>3. CASE AddPayment(w, p, n)
    <2>1. n + Banked <= Total BY <1>2, <1>3, TotalAssumption DEF AddPayment
    <2> QED BY <1>1, <1>3, <2>1 DEF AddPayment
  <1>4. CASE ChargeOrder(w, p, n)
    <2>1. n + Banked <= Total BY <1>2, <1>4, TotalAssumption DEF ChargeOrder
    <2> QED BY <1>1, <1>4, <2>1 DEF ChargeOrder
  <1>5. CASE ChargeWhole(w, p)
    <2>1. Banked = 0 BY <1>0, <1>5, FaultType DEF ChargeWhole, Orderly
    <2>2. Total + Banked <= Total BY <1>2, <2>1, TotalAssumption
    <2> QED BY <1>1, <1>2, <1>5, <2>2 DEF ChargeWhole
  <1> QED BY <1>3, <1>4, <1>5

LEMMA RowSet ==
    ASSUME RowsType, NEW p \in Parts, NEW s, row' = [row EXCEPT ![p] = s]
    PROVE  \A q \in Parts : row'[q] = row[q] \/ (q = p /\ row'[q] = s)
  BY DEF RowsType

\* A handler that goes on past the reader, and settles at most a part that is held.
LEMMA HeldKept ==
    ASSUME NEW w \in Workers, Others(w), intent' = intent,
           work'[w].pc \notin {"create", "present", "record"},
           \A q \in Parts : row'[q] = row[q] \/ (q \in Held /\ row'[q] = "SUCCEEDED")
    PROVE  Held' \subseteq Held
  <1> SUFFICES ASSUME NEW q \in Held' PROVE q \in Held
    OBVIOUS
  <1>1. q \in Parts /\ (row'[q] = "SUCCEEDED" \/ UnderWay(q)') BY DEF Held
  <1>2. CASE row'[q] = "SUCCEEDED" BY <1>1, <1>2 DEF Held
  <1>3. CASE UnderWay(q)' /\ row'[q] # "SUCCEEDED"
    <2>1. row'[q] = row[q] BY <1>1, <1>3
    <2> QED BY <1>1, <1>3, <2>1 DEF Held, UnderWay, Others
  <1> QED BY <1>1, <1>2, <1>3

\* What else happens adds nothing.
LEMMA HeldFalls ==
    ASSUME TypeOK, Reading, Charging, Next, Orderly', UNCHANGED part
    PROVE  Held' \subseteq Held
  <1>0. RowsType /\ WorkType /\ FaultsType BY TypeParts
  <1>1. ASSUME NEW p \in Parts, Tap(p) \/ Decline(p) \/ DeliverFailed(p)
        PROVE  Held' \subseteq Held
    <2>1. CASE Tap(p)
      <3>1. UNCHANGED <<row, work>> /\ intent[p] = "waiting"
            /\ intent' = [intent EXCEPT ![p] = "succeeded"]
        BY <2>1 DEF Tap, rows
      <3>2. \A q \in Parts : q # p => intent'[q] = intent[q] BY <1>0, <3>1 DEF RowsType
      <3> QED BY <3>1, <3>2 DEF Held, UnderWay
    <2>2. CASE Decline(p)
      <3>1. UNCHANGED <<row, work, intent>> BY <2>2 DEF Decline, rows
      <3> QED BY <3>1 DEF Held, UnderWay
    <2>3. CASE DeliverFailed(p)
      <3>1. UNCHANGED <<work, intent>>
            /\ row' = [r \in Parts |-> IF stored[r] = p THEN "FAILED" ELSE row[r]]
        BY <2>3 DEF DeliverFailed
      <3>2. intent[p] # "succeeded"
        <4>1. ASSUME intent[p] = "succeeded" PROVE "late" \in faults'.kinds
          BY <1>0, <2>3, <4>1 DEF DeliverFailed, FaultsType, FaultLog
        <4> QED BY <4>1 DEF Orderly
      <3>3. \A q \in Parts : row'[q] = row[q] \/ (q = p /\ row'[q] = "FAILED")
        BY <3>1, NobodyAssumption DEF Charging
      <3> QED BY <3>1, <3>2, <3>3 DEF Held, UnderWay
    <2> QED BY <1>1, <2>1, <2>2, <2>3
  <1>3. ASSUME NEW w \in Workers, TakeStep(w) PROVE Held' \subseteq Held
    <2> DEFINE p == work[w].part
    <2>1. CASE Create(w)
      <3>1. /\ work[w].pc = "create" /\ p \in Parts
            /\ Others(w) /\ work'[w].pc = "sum" /\ intent' = intent
            /\ row' = [row EXCEPT ![p] = "SUCCEEDED"]
        BY <1>0, <2>1, Moves DEF Create, Places, Reading
      <3>2. p \in Held BY <3>1 DEF Held, UnderWay
      <3>3. \A q \in Parts : row'[q] = row[q] \/ (q \in Held /\ row'[q] = "SUCCEEDED")
        BY <1>0, <3>1, <3>2, RowSet
      <3> HIDE DEF p
      <3> QED BY <3>1, <3>3, HeldKept
    <2>2. CASE SumAfter(w)
      <3>1. Others(w) /\ work'[w].pc \in {"pay", "idle"} /\ intent' = intent /\ row' = row
        BY <1>0, <2>2, Moves DEF SumAfter, Places, rows
      <3>2. \A q \in Parts : row'[q] = row[q] BY <3>1
      <3> QED BY <3>1, <3>2, HeldKept
    <2>3. CASE Present(w)
      <3>1. /\ work[w].pc = "present" /\ p \in Parts
            /\ Others(w) /\ work'[w].pc = "record" /\ work'[w].part = p /\ UNCHANGED row
            /\ intent' = [intent EXCEPT ![p] = "waiting"]
        BY <1>0, <2>3, Moves DEF Present, Places, rows, Reading
      <3>2. p \in Held BY <3>1 DEF Held, UnderWay
      <3>3. \A q \in Parts : q # p => intent'[q] = intent[q] BY <1>0, <3>1 DEF RowsType
      <3>4. \A q \in Parts : q # p /\ UnderWay(q)' => UnderWay(q)
        BY <3>1, <3>3 DEF UnderWay, Others
      <3> QED BY <3>1, <3>2, <3>4 DEF Held
    <2>4. CASE Record(w)
      <3>1. /\ work[w].pc = "record" /\ p \in Parts
            /\ Others(w) /\ work'[w].pc = "idle" /\ UNCHANGED intent
        BY <1>0, <2>4, Moves DEF Record, Reading
      <3>2. p \in Held BY <3>1 DEF Held, UnderWay
      <3>3. \A q \in Parts : q # p => row'[q] = row[q]
        BY <1>0, <2>4, <3>1 DEF Record, RowsType, rows
      <3>4. \A q \in Parts : q # p /\ UnderWay(q)' => UnderWay(q)
        BY <3>1, <3>3 DEF UnderWay, Others
      <3> QED BY <3>2, <3>3, <3>4 DEF Held
    <2> QED BY <1>3, <2>1, <2>2, <2>3, <2>4 DEF TakeStep
  <1>4. ASSUME NEW w \in Workers, NEW p \in Parts, DeliverSucceeded(w, p) \/ Poll(w, p)
        PROVE  Held' \subseteq Held
    <2>1. Others(w) /\ work'[w].pc = "find" /\ intent' = intent /\ row' = row
      BY <1>0, <1>4, Moves DEF DeliverSucceeded, Poll, rows
    <2>2. \A q \in Parts : row'[q] = row[q] BY <2>1
    <2> QED BY <2>1, <2>2, HeldKept
  <1>5. ASSUME NEW w \in Workers, SettleStep(w) \/ CloseStep(w) \/ Crash(w)
        PROVE  Held' \subseteq Held
    <2>1. CASE Find(w)
      <3> DEFINE p == work[w].part
                 found == IF Holder(p) # {} THEN Holder(p) ELSE {latest} \ {Nobody}
      <3>1. ASSUME NEW r \in found, work' = [work EXCEPT ![w] = At("bank", p, r)]
            PROVE  Others(w) /\ work'[w].pc = "bank"
        BY <1>0, <3>1, Moves
      <3>2. Finish(w) => Others(w) /\ work'[w].pc = "idle" BY <1>0, Moves
      <3>3. \/ \E r \in found : work' = [work EXCEPT ![w] = At("bank", p, r)]
            \/ Finish(w)
        BY <2>1 DEF Find
      <3>4. Others(w) /\ work'[w].pc \in {"bank", "idle"} BY <3>1, <3>2, <3>3
      <3>5. intent' = intent /\ row' = row BY <2>1 DEF Find
      <3>6. \A q \in Parts : row'[q] = row[q] BY <3>5
      <3> HIDE DEF p, found
      <3> QED BY <3>4, <3>5, <3>6, HeldKept
    <2>2. CASE Bank(w)
      <3> DEFINE r == work[w].row
      <3>1. /\ Others(w) /\ work'[w].pc \in {"check", "free"} /\ work[w].pc = "bank"
            /\ intent' = intent /\ row' = [row EXCEPT ![r] = "SUCCEEDED"]
        <4>1. "check" \in Places /\ "free" \in Places BY DEF Places
        <4>2. GoOn(w, "check") \/ GoOn(w, "free") BY <2>2 DEF Bank
        <4>3. Others(w) /\ work'[w].pc \in {"check", "free"} BY <1>0, <4>1, <4>2, Moves
        <4> QED BY <2>2, <4>3 DEF Bank
      <3>2. r \in Parts /\ intent[r] = "succeeded" BY <3>1 DEF Charging
      <3>3. r \in Held BY <3>2 DEF Held, UnderWay
      <3>4. \A q \in Parts : row'[q] = row[q] \/ (q \in Held /\ row'[q] = "SUCCEEDED")
        BY <1>0, <3>1, <3>2, <3>3, RowSet
      <3> HIDE DEF r
      <3> QED BY <3>1, <3>4, HeldKept
    <2>3. CASE CheckCovered(w) \/ CloseStep(w) \/ Crash(w)
      <3>1. Others(w) /\ work'[w].pc \in {"pay", "free", "idle"} /\ intent' = intent /\ row' = row
        BY <1>0, <2>3, Moves DEF CheckCovered, CloseStep, MarkPaid, FreeTable, Crash, Places, rows
      <3>2. \A q \in Parts : row'[q] = row[q] BY <3>1
      <3> QED BY <3>1, <3>2, HeldKept
    <2> QED BY <1>5, <2>1, <2>2, <2>3 DEF SettleStep
  <1>6. ASSUME NEW w \in Workers, NEW p \in Parts, NEW k, NEW n, NEW pc, k # "none",
               Begin(w, p, k, n, pc)
        PROVE  FALSE
    <2>1. kind[p] = "none" /\ kind' = [kind EXCEPT ![p] = k] BY <1>6, Zenon DEF Begin
    <2> QED BY <1>0, <1>6, <2>1 DEF RowsType, part
  <1>7. ASSUME NEW w \in Workers, NEW p \in Parts, NEW n \in 1 .. Total,
               AddPayment(w, p, n) \/ ChargeOrder(w, p, n) \/ ChargeWhole(w, p)
        PROVE  FALSE
    BY <1>6, <1>7 DEF AddPayment, ChargeOrder, ChargeWhole
  <1>8. Total \in 1 .. Total BY TotalAssumption
  <1> QED BY <1>1, <1>3, <1>4, <1>5, <1>7, <1>8, NextStep DEF Step

LEMMA HeldStep == ASSUME TypeOK, BankedInv, HeldInv, [Next]_vars PROVE HeldInv'
  <1>1. CASE UNCHANGED vars
    <2>1. UNCHANGED <<amount, row, intent, overlap, work, faults>> BY <1>1 DEF vars, part, rows
    <2> QED BY <2>1 DEF HeldInv, Orderly, Held, UnderWay, Sum, Units
  <1>2. ASSUME Next, Orderly' PROVE Sum(amount', Held') <= Total
    <2>1. Orderly /\ Reading BY <1>2, OrderlyBefore DEF BankedInv
    <2>2. Charging BY <2>1 DEF BankedInv, Calm, Orderly
    <2>3. ASSUME UNCHANGED part PROVE Sum(amount', Held') <= Total
      <3>1. Held' \subseteq Held /\ Held \in SUBSET Parts
        BY <1>2, <2>1, <2>2, <2>3, HeldFalls DEF Held
      <3>2. Sum(amount', Held') <= Sum(amount, Held) BY <2>3, <3>1, SumGrows DEF part
      <3>3. Sum(amount', Held') \in Nat /\ Sum(amount, Held) \in Nat
        BY <3>1, SumType
      <3> QED BY <2>1, <3>2, <3>3, TotalAssumption DEF HeldInv
    <2>4. ASSUME NEW w \in Workers, NEW p \in Parts, NEW n \in 1 .. Total,
                 AddPayment(w, p, n) \/ ChargeOrder(w, p, n) \/ ChargeWhole(w, p)
          PROVE  Sum(amount', Held') <= Total
      BY <1>2, <2>1, <2>4, HeldBegin
    <2>5. Total \in 1 .. Total BY TotalAssumption
    <2>6. ASSUME NEW p \in Parts, Tap(p) \/ Decline(p) \/ DeliverFailed(p)
          PROVE  UNCHANGED part
      BY <2>6 DEF Tap, Decline, DeliverFailed
    <2>7. ASSUME NEW w \in Workers, NEW p \in Parts, DeliverSucceeded(w, p) \/ Poll(w, p)
          PROVE  UNCHANGED part
      BY <2>7 DEF DeliverSucceeded, Poll
    <2>8. ASSUME NEW w \in Workers, Step(w) \/ Crash(w)
          PROVE  UNCHANGED part
      BY <2>8 DEF Step, TakeStep, SettleStep, CloseStep, Create, SumAfter, Present, Record, Find,
         Bank, CheckCovered, MarkPaid, FreeTable, Crash
    <2> QED BY <1>2, <2>3, <2>4, <2>5, <2>6, <2>7, <2>8, NextStep
  <1> QED BY <1>1, <1>2 DEF HeldInv

LEMMA HeldInit == ASSUME Init PROVE HeldInv
  <1>1. \A p \in Parts : row[p] = "none" /\ intent[p] = "none" BY DEF Init
  <1>2. \A w \in Workers : work[w].pc = "idle" BY DEF Init, Idle, At
  <1>3. Held = {} BY <1>1, <1>2 DEF Held, UnderWay
  <1>4. Units(amount, Held) = {} BY <1>3 DEF Units
  <1>5. Sum(amount, Held) = 0 BY <1>4, FS_EmptySet DEF Sum
  <1> QED BY <1>5, TotalAssumption DEF HeldInv

LEMMA HeldBounds == ASSUME HeldInv PROVE NeverOvercharged
  <1>1. TakenSet \subseteq Held /\ Held \in SUBSET Parts BY DEF TakenSet, Held, UnderWay
  <1>2. Sum(amount, TakenSet) <= Sum(amount, Held) BY <1>1, SumGrows
  <1>3. Sum(amount, TakenSet) \in Nat /\ Sum(amount, Held) \in Nat BY <1>1, SumType
  <1> QED BY <1>2, <1>3, Sums, TotalAssumption DEF HeldInv, Orderly, NeverOvercharged

\* One part at a time a table is never charged more than its bill, whoever takes
\* the parts and however late they are settled.
THEOREM OverchargeCorrect == Spec => []NeverOvercharged
  <1>1. TypeOK /\ BankedInv /\ HeldInv /\ [Next]_vars => HeldInv' BY HeldStep
  <1>2. HeldInv => NeverOvercharged BY HeldBounds
  <1>3. Init => HeldInv BY HeldInit
  <1> QED BY <1>1, <1>2, <1>3, SplitTypeCorrect, BankedInvCorrect, PTL DEF Spec
-----------------------------------------------------------------------------
(* What the two promises of a fair run rest on: whoever covers the bill, a    *)
(* handler that will free the table is on its way, and a card that was taken  *)
(* has its webhook still to come, or somebody about to bank it.               *)

Alive == "crash" \notin faults.kinds

\* A row is of a part that was begun, and a settling handler has found one.
Started ==
    /\ \A p \in Parts : stored[p] # Nobody \/ latest = p => row[p] # "none"
    /\ \A p \in Parts : row[p] # "none" => kind[p] # "none"
    /\ \A w \in Workers : work[w].pc = "find" => work[w].part \in Parts
    /\ \A w \in Workers : work[w].pc = "bank" => /\ work[w].row \in Parts
                                                 /\ row[work[w].row] # "none"

SomebodyAt(places) == \E w \in Workers : work[w].pc \in places
Counting == {"sum", "check", "pay"}

\* Who marked the order PAID goes on to free the table; until it is, whoever
\* banked last has yet to count, or has counted and will mark it.
Closes ==
    /\ paid /\ ~freed => SomebodyAt({"free"})
    /\ Banked >= Total /\ ~paid => SomebodyAt(Counting)

\* Who has the card of p in hand.
Handles(w, p) ==
    \/ work[w].pc = "find" /\ work[w].part = p
    \/ work[w].pc = "bank" /\ work[w].row = p

Banking ==
    \A p \in Parts : Owing(p) => \/ Event("succeeded", p) \in events
                                 \/ \E w \in Workers : Handles(w, p)

SettleInv == Started /\ (Alive => Closes) /\ (Alive /\ Calm => Banking)

\* As long as nobody dies, a covered bill has a handler that will free its table.
FreeingIsUnderWay ==
    Alive /\ ~freed /\ (paid \/ Banked >= Total) => SomebodyAt(Counting \union {"free"})

\* And as long as no webhook comes before the row it is about, a card that was
\* taken and is not banked has its webhook still to come, or a handler that will
\* bank this very row.
BankingIsUnderWay == Alive /\ Calm => Banking

\* What a step that nobody dies in has to keep.
Carried == /\ Started' /\ (Closes => Closes')
           /\ Grown /\ Calm' /\ Charging /\ Banking => Banking'

LEMMA StartedKept ==
    ASSUME Started, NEW w \in Workers, Others(w),
           \A q \in Parts : row[q] # "none" => row'[q] # "none",
           \A q \in Parts : kind[q] # "none" => kind'[q] # "none",
           \A q \in Parts : row'[q] # "none" => row[q] # "none" \/ kind'[q] # "none",
           \A q \in Parts : stored'[q] # Nobody \/ latest' = q
                                => stored[q] # Nobody \/ latest = q \/ row'[q] # "none",
           work'[w].pc = "find" => work'[w].part \in Parts,
           work'[w].pc = "bank" => work'[w].row \in Parts /\ row'[work'[w].row] # "none"
    PROVE  Started'
  <1>1. \A v \in Workers : v # w => work'[v] = work[v] BY DEF Others
  <1>2. \A v \in Workers : work'[v].pc = "bank" => /\ work'[v].row \in Parts
                                                 /\ row'[work'[v].row] # "none"
    BY <1>1 DEF Started
  <1>3. \A v \in Workers : work'[v].pc = "find" => work'[v].part \in Parts
    BY <1>1 DEF Started
  <1> QED BY <1>2, <1>3 DEF Started

LEMMA ClosesKept ==
    ASSUME Closes, NEW w \in Workers, Others(w), UNCHANGED bill,
           Banked' >= Total => Banked >= Total,
           work[w].pc \notin Counting \union {"free"}
    PROVE  Closes'
  <1>1. \A places \in {{"free"}, Counting} : SomebodyAt(places) => SomebodyAt(places)'
    BY DEF SomebodyAt, Others, Counting
  <1>2. SomebodyAt({"free"}) => SomebodyAt({"free"})' BY <1>1
  <1>3. SomebodyAt(Counting) => SomebodyAt(Counting)' BY <1>1
  <1> QED BY <1>2, <1>3 DEF Closes, bill

LEMMA BankingKept ==
    ASSUME Banking, Grown, NEW w \in Workers, Others(w), UNCHANGED events,
           \A q \in Parts : Unbanked(q)' => Unbanked(q),
           \A q \in Parts : Unbanked(q)' /\ Handles(w, q) => Handles(w, q)'
    PROVE  Banking'
  <1> SUFFICES ASSUME NEW p \in Parts, Owing(p)'
               PROVE  Event("succeeded", p) \in events' \/ \E v \in Workers : Handles(v, p)'
    BY DEF Banking
  <1>1. Unbanked(p)' /\ Owing(p) BY DEF Owing, Grown
  <1>2. Event("succeeded", p) \in events \/ \E v \in Workers : Handles(v, p)
    BY <1>1 DEF Banking
  <1>3. \A v \in Workers : Handles(v, p) => Handles(v, p)'
    BY <1>1 DEF Handles, Others
  <1> QED BY <1>2, <1>3

\* What is banked is the same as long as no row and no amount of a row changes.
LEMMA BankedSame ==
    ASSUME Started, NEW p, row' = row, \A q \in Parts : q # p => amount'[q] = amount[q],
           row[p] # "SUCCEEDED" \/ amount' = amount
    PROVE  Banked' = Banked
  <1>1. BankedSet' = BankedSet /\ BankedSet \in SUBSET Parts BY DEF BankedSet
  <1>2. \A q \in BankedSet : amount'[q] = amount[q] BY DEF BankedSet
  <1>3. Sum(amount, BankedSet) <= Sum(amount', BankedSet) BY <1>1, <1>2, SumGrows
  <1>4. Sum(amount', BankedSet) <= Sum(amount, BankedSet) BY <1>1, <1>2, SumGrows
  <1> QED BY <1>1, <1>3, <1>4, Sums

LEMMA BankedFalls ==
    ASSUME amount' = amount, BankedSet' \subseteq BankedSet
    PROVE  Banked' >= Total => Banked >= Total
  <1>1. BankedSet \in SUBSET Parts BY DEF BankedSet
  <1>2. Banked' <= Banked BY <1>1, Sums, SumGrows
  <1> QED BY <1>2, Sums, TotalAssumption

LEMMA BeginCarries ==
    ASSUME TypeOK, Started, NEW w \in Workers, NEW p \in Parts, NEW k, NEW m,
           NEW pc \in {"create", "present"}, k # "none", Begin(w, p, k, m, pc)
    PROVE  Carried
  <1>0. RowsType /\ WorkType BY TypeParts
  <1>1. work' = [work EXCEPT ![w] = At(pc, p, Nobody)] /\ work[w] = Idle
        /\ UNCHANGED <<rows, intent, bill>>
    BY DEF Begin
  <1>2. kind[p] = "none" /\ kind' = [kind EXCEPT ![p] = k] /\ amount' = [amount EXCEPT ![p] = m]
    BY Zenon DEF Begin
  <1>3. Others(w) /\ work'[w].pc = pc BY <1>0, <1>1, Moves
  <1>4. row' = row /\ stored' = stored /\ latest' = latest BY <1>1 DEF rows
  <1>5. row[p] = "none" BY <1>2 DEF Started
  <1>6. \A q \in Parts : q # p => amount'[q] = amount[q] BY <1>0, <1>2 DEF RowsType
  <1>7. Banked' = Banked BY <1>4, <1>5, <1>6, BankedSame
  <1>8. \A q \in Parts : kind[q] # "none" => kind'[q] # "none" BY <1>0, <1>2 DEF RowsType
  <1>9. Started' BY <1>3, <1>4, <1>8, StartedKept DEF Started
  <1>10. work[w].pc = "idle" BY <1>1 DEF Idle, At
  <1>11. Closes => Closes' BY <1>1, <1>3, <1>7, <1>10, ClosesKept DEF Counting
  <1>12. Banking /\ Grown => Banking'
    <2>1. UNCHANGED <<events, intent>> BY DEF Begin
    <2> QED BY <1>3, <1>4, <1>10, <2>1, BankingKept DEF Unbanked, Handles
  <1> QED BY <1>9, <1>11, <1>12 DEF Carried

LEMMA TakeCarries ==
    ASSUME TypeOK, Started, NEW w \in Workers, NEW p \in Parts, NEW n \in 1 .. Total,
           AddPayment(w, p, n) \/ ChargeOrder(w, p, n) \/ ChargeWhole(w, p)
    PROVE  Carried
  <1>1. CASE AddPayment(w, p, n) BY <1>1, BeginCarries DEF AddPayment
  <1>2. CASE ChargeOrder(w, p, n) BY <1>2, BeginCarries DEF ChargeOrder
  <1>3. CASE ChargeWhole(w, p) BY <1>3, BeginCarries DEF ChargeWhole
  <1> QED BY <1>1, <1>2, <1>3

LEMMA TakeStepCarries ==
    ASSUME TypeOK, Reading, Cards, Started, NEW w \in Workers, TakeStep(w)
    PROVE  Carried
  <1>0. RowsType /\ WorkType BY TypeParts
  <1> DEFINE p == work[w].part
  <1>1. CASE Create(w)
    <2>1. /\ p \in Parts /\ kind[p] = "manual" /\ work[w].pc = "create"
          /\ row' = [row EXCEPT ![p] = "SUCCEEDED"]
          /\ UNCHANGED <<kind, amount, stored, latest, intent, bill>>
      BY <1>1 DEF Create, Reading, part
    <2>2. Others(w) /\ work'[w].pc = "sum"
      <3>1. GoOn(w, "sum") /\ "sum" \in Places BY <1>1 DEF Create, Places
      <3> QED BY <1>0, <3>1, Moves
    <2>3. \A q \in Parts : row'[q] = row[q] \/ (q = p /\ row'[q] = "SUCCEEDED")
      BY <1>0, <2>1, RowSet
    <2>4. Started' BY <2>1, <2>2, <2>3, StartedKept DEF Started
    <2>5. Closes => Closes'
      <3>1. SomebodyAt({"free"}) => SomebodyAt({"free"})' BY <2>1, <2>2 DEF SomebodyAt, Others
      <3>2. SomebodyAt(Counting)' BY <2>2 DEF SomebodyAt, Counting
      <3> QED BY <2>1, <3>1, <3>2 DEF Closes, bill
    <2>6. Banking /\ Grown => Banking'
      <3>1. UNCHANGED events BY <1>1 DEF Create
      <3> QED BY <2>1, <2>2, <2>3, <3>1, BankingKept DEF Unbanked, Handles
    <2> QED BY <2>4, <2>5, <2>6 DEF Carried
  <1>2. CASE SumAfter(w)
    <2>1. work[w].pc = "sum" /\ UNCHANGED <<part, row, stored, latest, intent, bill>>
      BY <1>2 DEF SumAfter, rows
    <2>2. Others(w) /\ work'[w].pc \in {"pay", "idle"} /\ (Banked >= Total => work'[w].pc = "pay")
      <3>1. "pay" \in Places BY DEF Places
      <3> QED BY <1>0, <1>2, <3>1, Moves DEF SumAfter
    <2>3. UNCHANGED <<kind, amount>> BY <2>1 DEF part
    <2>4. Started' BY <2>1, <2>2, <2>3, StartedKept DEF Started
    <2>5. Banked' = Banked BY <2>1, <2>3 DEF Banked, AmountOf
    <2>6. Closes => Closes'
      <3>1. SomebodyAt({"free"}) => SomebodyAt({"free"})' BY <2>1, <2>2 DEF SomebodyAt, Others
      <3>2. Banked >= Total => SomebodyAt(Counting)' BY <2>2 DEF SomebodyAt, Counting
      <3> QED BY <2>1, <2>5, <3>1, <3>2 DEF Closes, bill
    <2>7. Banking /\ Grown => Banking'
      <3>1. UNCHANGED events BY <1>2 DEF SumAfter
      <3> QED BY <2>1, <2>2, <3>1, BankingKept DEF Unbanked, Handles
    <2> QED BY <2>4, <2>6, <2>7 DEF Carried
  <1>3. CASE Present(w)
    <2>1. /\ p \in Parts /\ work[w].pc = "present" /\ intent' = [intent EXCEPT ![p] = "waiting"]
          /\ UNCHANGED <<part, row, stored, latest, bill>>
      BY <1>3 DEF Present, Reading, rows
    <2>2. Others(w) /\ work'[w].pc = "record" /\ work'[w].part = p
      <3>1. GoOn(w, "record") /\ "record" \in Places BY <1>3 DEF Present, Places
      <3> QED BY <1>0, <3>1, Moves
    <2>3. UNCHANGED <<kind, amount>> BY <2>1 DEF part
    <2>4. Started' BY <2>1, <2>2, <2>3, StartedKept DEF Started
    <2>5. Banked' = Banked BY <2>1, <2>3 DEF Banked, AmountOf
    <2>6. Closes => Closes' BY <2>1, <2>2, <2>5, ClosesKept DEF Counting
    <2>7. Banking /\ Grown => Banking'
      <3>1. UNCHANGED events BY <1>3 DEF Present
      <3>2. \A q \in Parts : intent'[q] = "succeeded" => intent[q] = "succeeded"
        BY <1>0, <2>1 DEF RowsType
      <3> QED BY <2>1, <2>2, <3>1, <3>2, BankingKept DEF Unbanked, Handles
    <2> QED BY <2>4, <2>6, <2>7 DEF Carried
  <1>4. CASE Record(w)
    <2>1. /\ p \in Parts /\ kind[p] # "none" /\ work[w].pc = "record"
          /\ UNCHANGED <<part, intent, bill>> /\ Finish(w)
      BY <1>4 DEF Record, Reading, Cards, CardKinds
    <2>2. Others(w) /\ work'[w].pc = "idle" BY <1>0, <2>1, Moves
    <2>3. UNCHANGED <<kind, amount>> BY <2>1 DEF part
    <2>4. /\ \A q \in Parts : row'[q] = row[q] \/ (q = p /\ row'[q] = "PROCESSING")
          /\ \A q \in Parts : stored'[q] = stored[q] \/ q = p
          /\ latest' \in {latest, p}
          /\ Holder(p) = {} => row'[p] = "PROCESSING"
          /\ Holder(p) # {} => UNCHANGED rows
      BY <1>0, <1>4, <2>1 DEF Record, RowsType, rows
    <2>5. \A q \in Parts : stored'[q] # Nobody \/ latest' = q
                               => stored[q] # Nobody \/ latest = q \/ row'[q] # "none"
      <3>1. CASE Holder(p) = {} BY <2>4, <3>1
      <3>2. CASE Holder(p) # {} BY <2>4, <3>2 DEF rows
      <3> QED BY <3>1, <3>2
    <2>6. Started' BY <2>1, <2>2, <2>3, <2>4, <2>5, StartedKept DEF Started
    <2>7. Banked' >= Total => Banked >= Total BY <2>3, <2>4, BankedFalls DEF BankedSet
    <2>8. Closes => Closes' BY <2>1, <2>2, <2>7, ClosesKept DEF Counting
    <2>9. ASSUME Charging, Banking, Grown PROVE Banking'
      <3>1. UNCHANGED events BY <1>4 DEF Record
      <3>2. Holder(p) = {} => row[p] # "SUCCEEDED"
        <4>1. kind[p] # "manual" BY <1>4, <2>1 DEF Cards, CardKinds
        <4> QED BY <2>1, <2>9, <4>1 DEF Charging, Holder
      <3>3. row[p] = "SUCCEEDED" => row'[p] = "SUCCEEDED" BY <2>4, <3>2 DEF rows
      <3>4. ASSUME NEW q \in Parts, Unbanked(q)' PROVE Unbanked(q)
        <4>1. q # p => row'[q] = row[q] BY <2>4
        <4> QED BY <2>1, <3>3, <3>4, <4>1 DEF Unbanked
      <3> QED BY <2>1, <2>2, <2>9, <3>1, <3>4, BankingKept DEF Handles
    <2> QED BY <2>6, <2>8, <2>9 DEF Carried
  <1> QED BY <1>1, <1>2, <1>3, <1>4 DEF TakeStep

LEMMA ReaderCarries ==
    ASSUME TypeOK, Started, NEW p \in Parts, Tap(p) \/ Decline(p) \/ DeliverFailed(p)
    PROVE  Carried
  <1>0. RowsType BY TypeParts
  <1>1. UNCHANGED <<part, stored, latest, bill, work>>
    BY DEF Tap, Decline, DeliverFailed, rows
  <1>2. UNCHANGED <<kind, amount>> BY <1>1 DEF part
  <1>3. \A q \in Parts : row'[q] = row[q] \/ (stored[q] = p /\ row'[q] = "FAILED")
    BY <1>0 DEF Tap, Decline, DeliverFailed, rows, RowsType
  <1>4. \A q \in Parts : intent'[q] # "none" => intent[q] # "none"
    BY <1>0 DEF Tap, Decline, DeliverFailed, RowsType
  <1>5. \A q \in Parts : row[q] # "none" <=> row'[q] # "none"
    BY <1>3, NobodyAssumption DEF Started
  <1>6. Started' BY <1>1, <1>2, <1>5 DEF Started
  <1>7. Banked' >= Total => Banked >= Total BY <1>2, <1>3, BankedFalls DEF BankedSet
  <1>8. Closes => Closes' BY <1>1, <1>7 DEF Closes, SomebodyAt, Counting, bill
  <1>9. ASSUME Charging, Banking, Grown PROVE Banking'
    <2> SUFFICES ASSUME NEW q \in Parts, Owing(q)'
                 PROVE  Event("succeeded", q) \in events' \/ \E v \in Workers : Handles(v, q)'
      BY DEF Banking
    <2>1. Owing(q) => Event("succeeded", q) \in events \/ \E v \in Workers : Handles(v, q)'
      BY <1>1, <1>9 DEF Banking, Handles
    <2>2. CASE Tap(p)
      <3>1. row' = row /\ Event("succeeded", p) \in events' /\ events \subseteq events'
        BY <2>2 DEF Tap, rows
      <3>2. q # p => intent'[q] = intent[q] BY <1>0, <2>2 DEF Tap, RowsType
      <3>3. Event("succeeded", q) \in events' => q = p \/ Event("succeeded", q) \in events
        BY <2>2 DEF Tap, Event
      <3>4. q # p => Owing(q) BY <1>9, <3>1, <3>2, <3>3 DEF Owing, Unbanked, Grown
      <3> QED BY <2>1, <3>1, <3>4
    <2>3. CASE Decline(p)
      <3>1. UNCHANGED <<row, intent>> /\ events \subseteq events' BY <2>3 DEF Decline, rows
      <3>2. Event("succeeded", q) \in events' => Event("succeeded", q) \in events
        BY <2>3 DEF Decline, Event
      <3>3. Owing(q) BY <1>9, <3>1, <3>2 DEF Owing, Unbanked, Grown
      <3> QED BY <2>1, <3>1, <3>3
    <2>4. CASE DeliverFailed(p)
      <3>1. /\ intent' = intent /\ events' = events \ {Event("failed", p)}
            /\ intent[p] = "succeeded" => "late" \in faults'.kinds
        <4>1. FaultsType BY TypeParts
        <4> QED BY <2>4, <4>1 DEF DeliverFailed, FaultsType, FaultLog
      <3>2. Event("succeeded", q) # Event("failed", p) BY DEF Event
      <3>3. CASE intent[p] = "succeeded" BY <3>1, <3>3 DEF Owing
      <3>4. CASE intent[p] # "succeeded"
        <4>1. q # p BY <3>1, <3>4 DEF Owing, Unbanked
        <4>2. row'[q] = row[q] BY <1>3, <1>9, <4>1, NobodyAssumption DEF Charging
        <4>3. Owing(q) BY <1>9, <3>1, <4>2 DEF Owing, Unbanked, Grown
        <4> QED BY <2>1, <3>1, <3>2, <4>3
      <3> QED BY <3>3, <3>4
    <2> QED BY <2>2, <2>3, <2>4
  <1> QED BY <1>6, <1>8, <1>9 DEF Carried

LEMMA LookCarries ==
    ASSUME TypeOK, Started, NEW w \in Workers, NEW p \in Parts,
           DeliverSucceeded(w, p) \/ Poll(w, p)
    PROVE  Carried
  <1>0. WorkType BY TypeParts
  <1>1. /\ work' = [work EXCEPT ![w] = At("find", p, Nobody)] /\ work[w] = Idle
        /\ UNCHANGED <<part, rows, intent, bill>>
    BY DEF DeliverSucceeded, Poll
  <1>2. Others(w) /\ work'[w].pc = "find" /\ work'[w].part = p
    BY <1>0, <1>1 DEF WorkType, Jobs, Others, At
  <1>3. work[w].pc = "idle" BY <1>1 DEF Idle, At
  <1>4. UNCHANGED <<kind, amount, row, stored, latest>> BY <1>1 DEF part, rows
  <1>5. Started' BY <1>2, <1>4, StartedKept DEF Started
  <1>6. Banked' = Banked BY <1>4 DEF Banked, AmountOf
  <1>7. Closes => Closes' BY <1>1, <1>2, <1>3, <1>6, ClosesKept DEF Counting
  <1>8. ASSUME Banking, Grown PROVE Banking'
    <2> SUFFICES ASSUME NEW q \in Parts, Owing(q)'
                 PROVE  Event("succeeded", q) \in events' \/ \E v \in Workers : Handles(v, q)'
      BY DEF Banking
    <2>1. q = p => Handles(w, q)' BY <1>2 DEF Handles
    <2>2. /\ events' \subseteq events
          /\ q # p => (Event("succeeded", q) \in events => Event("succeeded", q) \in events')
      BY DEF DeliverSucceeded, Poll, Event
    <2>3. Owing(q) BY <1>1, <1>4, <1>8, <2>2 DEF Owing, Unbanked, Grown
    <2>4. \A v \in Workers : Handles(v, q) => Handles(v, q)' BY <1>2, <1>3 DEF Handles, Others
    <2> QED BY <1>8, <2>1, <2>2, <2>3, <2>4 DEF Banking
  <1> QED BY <1>5, <1>7, <1>8 DEF Carried

LEMMA SettleCarries ==
    ASSUME TypeOK, Started, NEW w \in Workers, SettleStep(w)
    PROVE  Carried
  <1>0. RowsType /\ WorkType BY TypeParts
  <1>1. CASE Find(w)
    <2> DEFINE p == work[w].part
               found == IF Holder(p) # {} THEN Holder(p) ELSE {latest} \ {Nobody}
    <2>1. /\ work[w].pc = "find" /\ p \in Parts
          /\ UNCHANGED <<part, row, latest, intent, bill>>
          /\ stored' = [r \in Parts |-> IF r \in found THEN p ELSE stored[r]]
      BY <1>1 DEF Find, Started
    <2>2. /\ Others(w) /\ work'[w].pc \in {"bank", "idle"}
          /\ work'[w].pc = "bank" => work'[w].row \in found
      <3>1. ASSUME NEW r \in found, work' = [work EXCEPT ![w] = At("bank", p, r)]
            PROVE  Others(w) /\ work'[w].pc = "bank" /\ work'[w].row \in found
        <4>1. work'[w] = At("bank", p, r) BY <1>0, <3>1 DEF WorkType
        <4>2. Others(w) BY <1>0, <3>1 DEF WorkType, Others
        <4> QED BY <4>1, <4>2 DEF At
      <3>2. CASE Finish(w) BY <1>0, <3>2, Moves
      <3> QED BY <1>1, <3>1, <3>2 DEF Find
    <2>3. \A r \in found : r \in Parts /\ (stored[r] = p \/ latest = r)
      BY <1>0 DEF RowsType, Holder
    <2>4. \A r \in found : r \in Parts /\ row[r] # "none"
      BY <2>1, <2>3, NobodyAssumption DEF Started
    <2>5. \A q \in Parts : stored'[q] = stored[q] \/ q \in found BY <2>1
    <2>6. UNCHANGED <<kind, amount>> BY <2>1 DEF part
    <2> HIDE DEF found
    <2>7. \A q \in Parts : stored'[q] # Nobody \/ latest' = q
                               => stored[q] # Nobody \/ latest = q \/ row'[q] # "none"
      BY <2>1, <2>4, <2>5
    <2>8. work'[w].pc = "bank" => work'[w].row \in Parts /\ row'[work'[w].row] # "none"
      BY <2>1, <2>2, <2>4
    <2>9. Started' BY <2>1, <2>2, <2>6, <2>7, <2>8, StartedKept DEF Started
    <2>10. Banked' = Banked BY <2>1, <2>6 DEF Banked, AmountOf
    <2>11. Closes => Closes' BY <2>1, <2>2, <2>10, ClosesKept DEF Counting
    <2>12. ASSUME Charging, Banking, Grown PROVE Banking'
      <3>1. UNCHANGED events BY <1>1 DEF Find
      <3>2. found = {p}
        <4>1. stored[p] = p BY <2>1, <2>12 DEF Charging
        <4>2. Holder(p) = {p} BY <2>1, <2>12, <4>1, NobodyAssumption DEF Charging, Holder
        <4> QED BY <4>2 DEF found
      <3>3. row[p] # "SUCCEEDED" => work'[w].pc = "bank"
        <4>1. \/ \E r \in found : work' = [work EXCEPT ![w] = At("bank", p, r)]
              \/ \A r \in found : row[r] = "SUCCEEDED"
          BY <1>1 DEF Find, found
        <4>2. ASSUME NEW r, work' = [work EXCEPT ![w] = At("bank", p, r)]
              PROVE  work'[w].pc = "bank"
          BY <1>0, <4>2 DEF WorkType, At
        <4> QED BY <3>2, <4>1, <4>2
      <3>4. ASSUME NEW q \in Parts, Unbanked(q)', Handles(w, q) PROVE Handles(w, q)'
        <4>1. q = p /\ row[p] # "SUCCEEDED" BY <2>1, <3>4 DEF Unbanked, Handles
        <4>2. work'[w].pc = "bank" /\ work'[w].row = p BY <2>2, <3>2, <3>3, <4>1
        <4> QED BY <4>1, <4>2 DEF Handles
      <3>5. \A q \in Parts : Unbanked(q)' => Unbanked(q) BY <2>1 DEF Unbanked
      <3> QED BY <2>2, <2>12, <3>1, <3>4, <3>5, BankingKept
    <2> QED BY <2>9, <2>11, <2>12 DEF Carried
  <1>2. CASE Bank(w)
    <2> DEFINE r == work[w].row
    <2>1. /\ work[w].pc = "bank" /\ r \in Parts /\ row[r] # "none"
          /\ row' = [row EXCEPT ![r] = "SUCCEEDED"]
          /\ UNCHANGED <<part, stored, latest, intent, freed>>
      BY <1>2 DEF Bank, Started
    <2>2. /\ Others(w)
          /\ \/ work'[w].pc = "free" /\ paid'
             \/ work'[w].pc = "check" /\ paid' = paid
      <3>1. "check" \in Places /\ "free" \in Places BY DEF Places
      <3> QED BY <1>0, <1>2, <3>1, Moves DEF Bank
    <2>3. UNCHANGED <<kind, amount>> BY <2>1 DEF part
    <2>4. \A q \in Parts : row'[q] = row[q] \/ (q = r /\ row'[q] = "SUCCEEDED")
      BY <1>0, <2>1, RowSet
    <2>5. Started' BY <2>1, <2>2, <2>3, <2>4, StartedKept DEF Started
    <2>6. Closes => Closes'
      <3>1. SomebodyAt({"free"}) => SomebodyAt({"free"})' BY <2>1, <2>2 DEF SomebodyAt, Others
      <3>2. CASE work'[w].pc = "free" /\ paid'
        BY <3>2 DEF Closes, SomebodyAt
      <3>3. CASE work'[w].pc = "check" /\ paid' = paid
        <4>1. SomebodyAt(Counting)' BY <3>3 DEF SomebodyAt, Counting
        <4> QED BY <2>1, <3>1, <3>3, <4>1 DEF Closes
      <3> QED BY <2>2, <3>2, <3>3
    <2>7. Banking /\ Grown => Banking'
      <3>1. UNCHANGED events BY <1>2 DEF Bank
      <3>2. row'[r] = "SUCCEEDED" BY <1>0, <2>1 DEF RowsType
      <3> QED BY <2>1, <2>2, <2>4, <3>1, <3>2, BankingKept DEF Unbanked, Handles
    <2> QED BY <2>5, <2>6, <2>7 DEF Carried
  <1>3. CASE CheckCovered(w)
    <2>1. work[w].pc = "check" /\ UNCHANGED <<part, row, stored, latest, intent, bill>>
      BY <1>3 DEF CheckCovered, rows
    <2>2. /\ Others(w) /\ work'[w].pc \in {"pay", "idle"}
          /\ Banked >= Total /\ ~paid => work'[w].pc = "pay"
      <3>1. "pay" \in Places BY DEF Places
      <3> QED BY <1>0, <1>3, <3>1, Moves DEF CheckCovered
    <2>3. UNCHANGED <<kind, amount>> BY <2>1 DEF part
    <2>4. Started' BY <2>1, <2>2, <2>3, StartedKept DEF Started
    <2>5. Banked' = Banked BY <2>1, <2>3 DEF Banked, AmountOf
    <2>6. Closes => Closes'
      <3>1. SomebodyAt({"free"}) => SomebodyAt({"free"})' BY <2>1, <2>2 DEF SomebodyAt, Others
      <3>2. Banked >= Total /\ ~paid => SomebodyAt(Counting)'
        BY <2>2 DEF SomebodyAt, Counting
      <3> QED BY <2>1, <2>5, <3>1, <3>2 DEF Closes, bill
    <2>7. Banking /\ Grown => Banking'
      <3>1. UNCHANGED events BY <1>3 DEF CheckCovered
      <3> QED BY <2>1, <2>2, <3>1, BankingKept DEF Unbanked, Handles
    <2> QED BY <2>4, <2>6, <2>7 DEF Carried
  <1> QED BY <1>1, <1>2, <1>3 DEF SettleStep

LEMMA CloseCarries ==
    ASSUME TypeOK, Started, NEW w \in Workers, CloseStep(w)
    PROVE  Carried
  <1>0. WorkType BY TypeParts
  <1>1. UNCHANGED <<part, row, stored, latest, intent>> /\ work[w].pc \in {"pay", "free"}
    BY DEF CloseStep, MarkPaid, FreeTable, rows
  <1>2. /\ Others(w)
        /\ \/ work'[w].pc = "free" /\ paid'
           \/ work[w].pc = "free" /\ work'[w].pc = "idle" /\ freed' /\ paid' = paid
    <2>1. "free" \in Places BY DEF Places
    <2> QED BY <1>0, <2>1, Moves DEF CloseStep, MarkPaid, FreeTable
  <1>3. UNCHANGED <<kind, amount>> BY <1>1 DEF part
  <1>4. Started' BY <1>1, <1>2, <1>3, StartedKept DEF Started
  <1>5. Closes => Closes'
    <2>1. CASE work'[w].pc = "free" /\ paid' BY <2>1 DEF Closes, SomebodyAt
    <2>2. CASE work[w].pc = "free" /\ work'[w].pc = "idle" /\ freed' /\ paid' = paid
      <3>1. SomebodyAt(Counting) => SomebodyAt(Counting)'
        BY <1>2, <2>2 DEF SomebodyAt, Others, Counting
      <3>2. Banked' = Banked BY <1>1, <1>3 DEF Banked, AmountOf
      <3> QED BY <2>2, <3>1, <3>2 DEF Closes
    <2> QED BY <1>2, <2>1, <2>2
  <1>6. Banking /\ Grown => Banking'
    <2>1. UNCHANGED events BY DEF CloseStep, MarkPaid, FreeTable
    <2> QED BY <1>1, <1>2, <2>1, BankingKept DEF Unbanked, Handles
  <1> QED BY <1>4, <1>5, <1>6 DEF Carried

\* Who dies takes his part of the work with him; nothing else changes.
LEMMA CrashStarted ==
    ASSUME TypeOK, Started, NEW w \in Workers, Crash(w)
    PROVE  Started' /\ ~Alive'
  <1>0. WorkType /\ FaultsType BY TypeParts
  <1>1. Finish(w) /\ UNCHANGED <<kind, row, stored, latest>> BY DEF Crash, part, rows
  <1>2. Others(w) /\ work'[w].pc = "idle" BY <1>0, <1>1, Moves
  <1>3. Started' BY <1>1, <1>2, StartedKept DEF Started
  <1>4. ~Alive' BY <1>0, FaultType DEF Crash, Alive
  <1> QED BY <1>3, <1>4

LEMMA SettleInvStep ==
    ASSUME TypeOK, BankedInv, Cards, SettleInv, [Next]_vars
    PROVE  SettleInv'
  <1>1. CASE UNCHANGED vars
    <2>1. UNCHANGED <<kind, amount, row, stored, latest, intent, paid, freed, events, work, faults>>
      BY <1>1 DEF vars, part, rows, bill
    <2>2. Banked' = Banked BY <2>1 DEF Banked, AmountOf
    <2> QED BY <2>1, <2>2 DEF SettleInv, Started, Alive, Calm, Closes, SomebodyAt, Counting,
            Banking, Handles, Owing, Unbanked
  <1>2. CASE Next
    <2>1. Reading /\ Started BY DEF BankedInv, SettleInv
    <2>2. ASSUME NEW w \in Workers, NEW p \in Parts, ChargeWhole(w, p) PROVE Carried
      <3>1. Total \in 1 .. Total BY TotalAssumption
      <3> QED BY <2>1, <2>2, <3>1, TakeCarries
    <2>3. Carried \/ (Started' /\ ~Alive')
      BY <1>2, <2>1, <2>2, NextStep, TakeCarries, TakeStepCarries, ReaderCarries, LookCarries,
         SettleCarries, CloseCarries, CrashStarted DEF Step
    <2>4. Grown BY <1>2, FaultsGrow
    <2>5. (Alive' => Alive) /\ (Calm' => Calm) BY <2>4 DEF Grown, Alive, Calm
    <2> QED BY <2>3, <2>4, <2>5 DEF Carried, SettleInv, BankedInv
  <1> QED BY <1>1, <1>2

LEMMA SettleInvCorrect == Spec => []SettleInv
  <1>1. Init => SettleInv
    <2>1. ASSUME Init PROVE SettleInv
      <3>1. Started BY <2>1, NobodyAssumption DEF Init, Started, Idle, At
      <3>2. ~(Banked >= Total)
        <4>1. BankedSet = {} BY <2>1 DEF Init, BankedSet
        <4>2. Units(amount, {}) = {} BY DEF Units
        <4>3. Banked = 0 BY <4>1, <4>2, Sums, FS_EmptySet DEF Sum
        <4> QED BY <4>3, TotalAssumption
      <3>3. Closes BY <2>1, <3>2 DEF Init, Closes
      <3>4. Banking BY <2>1 DEF Init, Banking, Owing, Unbanked
      <3> QED BY <3>1, <3>3, <3>4 DEF SettleInv
    <2> QED BY <2>1
  <1>2. Init => PaidInv
    BY NobodyAssumption DEF Init, PaidInv, Cards, Stored, Covered, Closing, Idle, At
  <1>3. TypeOK /\ BankedInv /\ PaidInv /\ [Next]_vars => PaidInv' BY PaidStep
  <1>4. PaidInv => Cards BY DEF PaidInv
  <1>5. TypeOK /\ BankedInv /\ Cards /\ SettleInv /\ [Next]_vars => SettleInv' BY SettleInvStep
  <1> QED BY <1>1, <1>2, <1>3, <1>4, <1>5, SplitTypeCorrect, BankedInvCorrect, PTL DEF Spec

\* Whichever part closes the gap, however the parts race, as long as no handler
\* dies: a bill that is covered, or PAID, and whose table is not free yet has a
\* handler that has still to count it, to mark it or to free its table.
THEOREM FreeingCorrect == Spec => []FreeingIsUnderWay
  <1>1. SettleInv => FreeingIsUnderWay
    BY DEF SettleInv, Closes, FreeingIsUnderWay, SomebodyAt
  <1> QED BY <1>1, SettleInvCorrect, PTL

\* What ChargedIsBanked rests on: a card that was taken and is not banked is never
\* forgotten, whatever was declined, doubled or polled, as long as no webhook comes
\* before its row and no handler dies: its webhook is still to come, or a handler
\* has found this very row and will bank it.
THEOREM BankingCorrect == Spec => []BankingIsUnderWay
  <1>1. SettleInv => BankingIsUnderWay BY DEF SettleInv, BankingIsUnderWay
  <1> QED BY <1>1, SettleInvCorrect, PTL
=============================================================================
