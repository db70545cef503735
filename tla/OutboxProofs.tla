---------------------------- MODULE OutboxProofs ----------------------------
(*************************************************************************)
(* What holds of the outbox for any number of rows, API processes and    *)
(* faults: a row dies only after all its attempts; a row marked          *)
(* PROCESSED had its job created as long as no two events share a jobId; *)
(* an event gets one job while Bull remembers jobIds; and one dispatcher *)
(* keeps to maxAttempts, and implements EventDelivery as long as the     *)
(* database answers.                                                     *)
(*************************************************************************)
EXTENDS Outbox, TLAPS

\* Every action of the model, so that a proof has one step for each.
LEMMA NextStep ==
    ASSUME [Next]_vars, NEW P,
           \A e \in Events : Commit(e) => P,
           \A e \in Events : FallDue(e) => P,
           \A e \in Events : GoStale(e) => P,
           \A i \in Instances : Tick(i) => P,
           \A i \in Instances, e \in Events : RecoverOne(i, e) => P,
           \A i \in Instances : RecoverThrows(i) => P,
           \A i \in Instances : Claim(i) => P,
           \A i \in Instances, e \in Events : Add(i, e) => P,
           \A i \in Instances, e \in Events : AddThrows(i, e) \/ FailThrows(i, e) => P,
           \A i \in Instances, e \in Events : Mark(i, e) => P,
           \A i \in Instances, e \in Events : MarkThrows(i, e) => P,
           \A i \in Instances, e \in Events : Fail(i, e) => P,
           \A i \in Instances : EndTick(i) => P,
           \A i \in Instances : Crash(i) => P,
           \A k \in JobIds : JobDone(k) \/ Evict(k) => P,
           UNCHANGED vars => P
    PROVE  P
BY DEF Next, Dispatch, Break

\* Moving one claimed row on keeps the types of every dispatcher's hand.
LEMMA ThenType ==
    ASSUME hand \in [Instances -> [Events -> HandStates]],
           NEW i \in Instances, NEW e \in Events, NEW next \in HandStates, Then(i, e, next)
    PROVE  hand' \in [Instances -> [Events -> HandStates]]
BY DEF Then

LEMMA FaultType ==
    ASSUME faults \in Nat, NEW kind, Fault(kind)
    PROVE  faults' \in Nat
BY DEF Fault

LEMMA AddType ==
    ASSUME job \in [JobIds -> {"none", "waiting", "kept"}],
           created \in [Events -> Nat],
           NEW i \in Instances, NEW e \in Events, Add(i, e)
    PROVE  /\ job' \in [JobIds -> {"none", "waiting", "kept"}]
           /\ created' \in [Events -> Nat]
<1>1. CASE job[JobOf[e]] = "none"
  BY <1>1 DEF Add
<1>2. CASE job[JobOf[e]] # "none"
  BY <1>2 DEF Add, bull
<1>3. QED
  BY <1>1, <1>2

LEMMA RowType ==
    ASSUME status \in [Events -> RowStatuses], stale \in [Events -> BOOLEAN],
           NEW e \in Events, NEW to \in RowStatuses, WriteRow(e, to)
    PROVE  status' \in [Events -> RowStatuses] /\ stale' \in [Events -> BOOLEAN]
BY DEF WriteRow

LEMMA TypeStep == TypeOK /\ [Next]_vars => TypeOK'
<1> SUFFICES ASSUME TypeOK, [Next]_vars
             PROVE  TypeOK'
  OBVIOUS
<1> USE DEF TypeOK, RowStatuses, HandStates, rows, bull
<1>1. ASSUME NEW e \in Events, Commit(e) PROVE TypeOK'
  BY <1>1 DEF Commit
<1>2. ASSUME NEW e \in Events, FallDue(e) PROVE TypeOK'
  BY <1>2 DEF FallDue
<1>3. ASSUME NEW e \in Events, GoStale(e) PROVE TypeOK'
  BY <1>3 DEF GoStale, Fault
<1>4. ASSUME NEW i \in Instances, Tick(i) PROVE TypeOK'
  BY <1>4 DEF Tick
<1>5. ASSUME NEW i \in Instances, NEW e \in Events, RecoverOne(i, e) PROVE TypeOK'
  <2>1. IsDead(i, e) \in BOOLEAN
    BY DEF IsDead
  <2>2. QED
    BY <1>5, <2>1 DEF RecoverOne, WriteRow, BackOff
<1>6. ASSUME NEW i \in Instances, RecoverThrows(i) PROVE TypeOK'
  BY <1>6 DEF RecoverThrows, Fault
<1>7. ASSUME NEW i \in Instances, Claim(i) PROVE TypeOK'
  BY <1>7 DEF Claim
<1>8. ASSUME NEW i \in Instances, NEW e \in Events, Add(i, e) PROVE TypeOK'
  <2>1. hand' \in [Instances -> [Events -> HandStates]]
    BY <1>8, ThenType DEF Add
  <2>2. /\ job' \in [JobIds -> {"none", "waiting", "kept"}]
        /\ created' \in [Events -> Nat]
    BY <1>8, AddType
  <2>3. QED
    BY <1>8, <2>1, <2>2 DEF Add
<1>9. ASSUME NEW i \in Instances, NEW e \in Events, AddThrows(i, e) \/ FailThrows(i, e)
      PROVE TypeOK'
  <2>1. hand' \in [Instances -> [Events -> HandStates]]
    BY <1>9, ThenType DEF AddThrows, FailThrows
  <2>2. QED
    BY <1>9, <2>1, FaultType DEF AddThrows, FailThrows
<1>10. ASSUME NEW i \in Instances, NEW e \in Events, Mark(i, e) PROVE TypeOK'
  BY <1>10 DEF Mark, WriteRow, Then
<1>11. ASSUME NEW i \in Instances, NEW e \in Events, MarkThrows(i, e) PROVE TypeOK'
  <2>1. hand' \in [Instances -> [Events -> HandStates]]
    BY <1>11, ThenType DEF MarkThrows
  <2>2. status' \in [Events -> RowStatuses] /\ stale' \in [Events -> BOOLEAN]
    <3>1. WriteRow(e, "PROCESSED") \/ UNCHANGED <<status, stale>>
      BY <1>11 DEF MarkThrows
    <3>2. CASE WriteRow(e, "PROCESSED")
      BY <3>2, RowType
    <3>3. QED
      BY <3>1, <3>2
  <2>3. QED
    BY <1>11, <2>1, <2>2, FaultType DEF MarkThrows
<1>12. ASSUME NEW i \in Instances, NEW e \in Events, Fail(i, e) PROVE TypeOK'
  <2>1. IsDead(i, e) \in BOOLEAN
    BY DEF IsDead
  <2>2. QED
    BY <1>12, <2>1 DEF Fail, WriteRow, BackOff, Then
<1>13. ASSUME NEW i \in Instances, EndTick(i) PROVE TypeOK'
  BY <1>13 DEF EndTick
<1>14. ASSUME NEW i \in Instances, Crash(i) PROVE TypeOK'
  BY <1>14 DEF Crash, Empty, Fault
<1>15. ASSUME NEW k \in JobIds, JobDone(k) \/ Evict(k) PROVE TypeOK'
  <2>1. CASE JobDone(k)
    BY <2>1 DEF JobDone
  <2>2. CASE Evict(k)
    BY <2>2, FaultType DEF Evict
  <2>3. QED
    BY <1>15, <2>1, <2>2
<1>16. CASE UNCHANGED vars
  BY <1>16 DEF vars
<1> HIDE DEF TypeOK
<1>17. QED
  BY <1>1, <1>2, <1>3, <1>4, <1>5, <1>6, <1>7, <1>8, <1>9, <1>10, <1>11, <1>12,
     <1>13, <1>14, <1>15, <1>16, NextStep

\* The types of the outbox's state hold in every reachable state.
THEOREM OutboxTypeCorrect == Spec => []TypeOK
<1>1. Init => TypeOK
  BY DEF Init, TypeOK, RowStatuses, HandStates, Empty
<1>2. QED
  BY <1>1, TypeStep, PTL DEF Spec

-----------------------------------------------------------------------------
(* Rows die of exhaustion only *)

\* A dispatcher never read more attempts than the row has: attempts only grow.
ReadBehind == \A i \in Instances, e \in Events : read[i][e] <= attempts[e]

DeadInv == TypeOK /\ ReadBehind /\ DeadOnlyWhenExhausted

\* A failed attempt on e, by a dispatcher that read the row at some time.
LEMMA BackOffKeeps ==
    ASSUME DeadInv, NEW i \in Instances, NEW e \in Events, NEW to,
           WriteRow(e, to), BackOff(e, IsDead(i, e)), UNCHANGED read,
           to = "DEAD" => IsDead(i, e)
    PROVE  ReadBehind' /\ DeadOnlyWhenExhausted'
<1>1. attempts' = [attempts EXCEPT ![e] = @ + 1] /\ status' = [status EXCEPT ![e] = to]
  BY DEF BackOff, WriteRow
<1>2. ReadBehind'
  BY <1>1 DEF DeadInv, ReadBehind, TypeOK
<1>3. IsDead(i, e) => attempts'[e] >= MaxAttempts
  BY <1>1, MaxAttemptsAssumption DEF DeadInv, ReadBehind, IsDead, TypeOK
<1>4. DeadOnlyWhenExhausted'
  BY <1>1, <1>3, MaxAttemptsAssumption DEF DeadInv, DeadOnlyWhenExhausted, TypeOK
<1>5. QED
  BY <1>2, <1>4

LEMMA DeadStep == DeadInv /\ [Next]_vars => ReadBehind' /\ DeadOnlyWhenExhausted'
<1> SUFFICES ASSUME DeadInv, [Next]_vars
             PROVE  ReadBehind' /\ DeadOnlyWhenExhausted'
  OBVIOUS
<1> DEFINE Goal == ReadBehind' /\ DeadOnlyWhenExhausted'
<1>a. ASSUME UNCHANGED <<attempts, read>>,
             \A e \in Events : status'[e] = status[e] \/ status'[e] # "DEAD"
      PROVE  Goal
  BY <1>a DEF DeadInv, ReadBehind, DeadOnlyWhenExhausted
<1> USE DEF rows, bull
<1>1. ASSUME NEW e \in Events, Commit(e) PROVE Goal
  BY <1>1, <1>a DEF Commit, DeadInv, TypeOK
<1>2. ASSUME NEW e \in Events, FallDue(e) PROVE Goal
  BY <1>2, <1>a DEF FallDue
<1>3. ASSUME NEW e \in Events, GoStale(e) PROVE Goal
  BY <1>3, <1>a DEF GoStale
<1>4. ASSUME NEW i \in Instances, Tick(i) PROVE Goal
  BY <1>4 DEF Tick, DeadInv, ReadBehind, DeadOnlyWhenExhausted, TypeOK
<1>5. ASSUME NEW i \in Instances, NEW e \in Events, RecoverOne(i, e) PROVE Goal
  BY <1>5, BackOffKeeps DEF RecoverOne
<1>6. ASSUME NEW i \in Instances, RecoverThrows(i) PROVE Goal
  BY <1>6, <1>a DEF RecoverThrows
<1>7. ASSUME NEW i \in Instances, Claim(i) PROVE Goal
  BY <1>7 DEF Claim, DeadInv, ReadBehind, DeadOnlyWhenExhausted, TypeOK
<1>8. ASSUME NEW i \in Instances, NEW e \in Events, Add(i, e) PROVE Goal
  BY <1>8, <1>a DEF Add
<1>9. ASSUME NEW i \in Instances, NEW e \in Events, AddThrows(i, e) \/ FailThrows(i, e)
      PROVE Goal
  BY <1>9, <1>a DEF AddThrows, FailThrows
<1>10. ASSUME NEW i \in Instances, NEW e \in Events, Mark(i, e) PROVE Goal
  BY <1>10, <1>a DEF Mark, WriteRow, DeadInv, TypeOK
<1>11. ASSUME NEW i \in Instances, NEW e \in Events, MarkThrows(i, e) PROVE Goal
  BY <1>11, <1>a DEF MarkThrows, WriteRow, DeadInv, TypeOK
<1>12. ASSUME NEW i \in Instances, NEW e \in Events, Fail(i, e) PROVE Goal
  BY <1>12, BackOffKeeps DEF Fail
<1>13. ASSUME NEW i \in Instances, EndTick(i) PROVE Goal
  BY <1>13, <1>a DEF EndTick
<1>14. ASSUME NEW i \in Instances, Crash(i) PROVE Goal
  BY <1>14, <1>a DEF Crash
<1>15. ASSUME NEW k \in JobIds, JobDone(k) \/ Evict(k) PROVE Goal
  BY <1>15, <1>a DEF JobDone, Evict
<1>16. ASSUME UNCHANGED vars PROVE Goal
  BY <1>16, <1>a DEF vars
<1> HIDE DEF Goal
<1>17. Goal
  BY <1>1, <1>2, <1>3, <1>4, <1>5, <1>6, <1>7, <1>8, <1>9, <1>10, <1>11, <1>12,
     <1>13, <1>14, <1>15, <1>16, NextStep
<1>18. QED
  BY <1>17 DEF Goal

\* However many processes recover or fail a row with counts read at different
\* times, and whatever breaks, it is given up only after maxAttempts attempts.
THEOREM DeadCorrect == Spec => []DeadOnlyWhenExhausted
<1>1. Init => ReadBehind /\ DeadOnlyWhenExhausted
  BY DEF Init, ReadBehind, DeadOnlyWhenExhausted
<1>2. TypeOK /\ ReadBehind /\ DeadOnlyWhenExhausted /\ [Next]_vars
        => ReadBehind' /\ DeadOnlyWhenExhausted'
  BY DeadStep DEF DeadInv
<1>3. QED
  BY <1>1, <1>2, OutboxTypeCorrect, PTL DEF Spec

-----------------------------------------------------------------------------
(* What counts as sent was queued *)

\* No two events share a jobId: an order takes each status at most once.
OwnJobIds == \A d, e \in Events : JobOf[d] = JobOf[e] => d = e

\* A jobId Bull holds is that of a job made for the event.
HeldWasCreated == \A e \in Events : job[JobOf[e]] # "none" => created[e] > 0

\* A dispatcher about to mark a row has had its job added.
MarkAfterAdd == \A i \in Instances, e \in Events : hand[i][e] = "mark" => created[e] > 0

QueuedInv == HeldWasCreated /\ MarkAfterAdd /\ ProcessedWasQueued

LEMMA JobIdType == ASSUME NEW e \in Events PROVE JobOf[e] \in JobIds
BY DEF JobIds

\* Steps that add no job keep what depends on the jobs created.
LEMMA QueuedKept ==
    ASSUME TypeOK, QueuedInv, UNCHANGED <<job, created>>,
           \A i \in Instances, e \in Events : hand'[i][e] = "mark" => hand[i][e] = "mark",
           \A e \in Events : status'[e] = "PROCESSED" =>
                 status[e] = "PROCESSED" \/ \E i \in Instances : hand[i][e] = "mark"
    PROVE  QueuedInv'
BY DEF QueuedInv, HeldWasCreated, MarkAfterAdd, ProcessedWasQueued

LEMMA QueuedStep ==
    ASSUME OwnJobIds, TypeOK, QueuedInv, [Next]_vars
    PROVE  QueuedInv'
<1> USE DEF rows, bull
<1>1. ASSUME NEW e \in Events, Commit(e) PROVE QueuedInv'
  BY <1>1, QueuedKept DEF Commit, TypeOK
<1>2. ASSUME NEW e \in Events, FallDue(e) PROVE QueuedInv'
  BY <1>2, QueuedKept DEF FallDue
<1>3. ASSUME NEW e \in Events, GoStale(e) PROVE QueuedInv'
  BY <1>3, QueuedKept DEF GoStale
<1>4. ASSUME NEW i \in Instances, Tick(i) PROVE QueuedInv'
  BY <1>4, QueuedKept DEF Tick
<1>5. ASSUME NEW i \in Instances, NEW e \in Events, RecoverOne(i, e) PROVE QueuedInv'
  BY <1>5, QueuedKept DEF RecoverOne, WriteRow, TypeOK
<1>6. ASSUME NEW i \in Instances, RecoverThrows(i) PROVE QueuedInv'
  BY <1>6, QueuedKept DEF RecoverThrows
<1>7. ASSUME NEW i \in Instances, Claim(i) PROVE QueuedInv'
  BY <1>7, QueuedKept DEF Claim, TypeOK
<1>8. ASSUME NEW i \in Instances, NEW e \in Events, Add(i, e) PROVE QueuedInv'
  <2>1. /\ created' \in [Events -> Nat]
        /\ created'[e] > 0
        /\ \A d \in Events : created'[d] >= created[d]
    <3>1. created' \in [Events -> Nat]
      BY <1>8, AddType DEF TypeOK
    <3>2. CASE job[JobOf[e]] = "none"
      <4>1. created' = [created EXCEPT ![e] = @ + 1]
        BY <1>8, <3>2 DEF Add
      <4>2. QED
        BY <3>1, <4>1 DEF TypeOK
    <3>3. CASE job[JobOf[e]] # "none"
      BY <1>8, <3>1, <3>3 DEF Add, TypeOK, QueuedInv, HeldWasCreated
    <3>4. QED
      BY <3>1, <3>2, <3>3
  <2>2. \A j \in Instances, d \in Events :
            hand'[j][d] = "mark" => hand[j][d] = "mark" \/ d = e
    <3>1. Then(i, e, "mark")
      BY <1>8 DEF Add
    <3>2. QED
      BY <3>1 DEF Then, TypeOK
  <2>3. HeldWasCreated'
    BY <1>8, <2>1, JobIdType
    DEF Add, TypeOK, QueuedInv, HeldWasCreated, OwnJobIds
  <2>4. MarkAfterAdd'
    BY <2>1, <2>2 DEF TypeOK, QueuedInv, MarkAfterAdd
  <2>5. UNCHANGED status
    BY <1>8 DEF Add
  <2>6. ProcessedWasQueued'
    BY <2>1, <2>5 DEF TypeOK, QueuedInv, ProcessedWasQueued
  <2>7. QED
    BY <2>3, <2>4, <2>6 DEF QueuedInv
<1>9. ASSUME NEW i \in Instances, NEW e \in Events, AddThrows(i, e) \/ FailThrows(i, e)
      PROVE QueuedInv'
  <2>1. Then(i, e, "fail") \/ Then(i, e, "-")
    BY <1>9 DEF AddThrows, FailThrows
  <2>2. \A j \in Instances, d \in Events : hand'[j][d] = "mark" => hand[j][d] = "mark"
    <3>1. CASE Then(i, e, "fail")
      BY <3>1 DEF Then, TypeOK
    <3>2. CASE Then(i, e, "-")
      BY <3>2 DEF Then, TypeOK
    <3>3. QED
      BY <2>1, <3>1, <3>2
  <2>3. QED
    BY <1>9, <2>2, QueuedKept DEF AddThrows, FailThrows
<1>10. ASSUME NEW i \in Instances, NEW e \in Events, Mark(i, e) PROVE QueuedInv'
  BY <1>10, QueuedKept DEF Mark, WriteRow, Then, TypeOK
<1>11. ASSUME NEW i \in Instances, NEW e \in Events, MarkThrows(i, e) PROVE QueuedInv'
  BY <1>11, QueuedKept DEF MarkThrows, WriteRow, Then, TypeOK
<1>12. ASSUME NEW i \in Instances, NEW e \in Events, Fail(i, e) PROVE QueuedInv'
  BY <1>12, QueuedKept DEF Fail, WriteRow, Then, TypeOK
<1>13. ASSUME NEW i \in Instances, EndTick(i) PROVE QueuedInv'
  BY <1>13, QueuedKept DEF EndTick
<1>14. ASSUME NEW i \in Instances, Crash(i) PROVE QueuedInv'
  BY <1>14, QueuedKept DEF Crash, Empty, TypeOK
<1>15. ASSUME NEW k \in JobIds, JobDone(k) \/ Evict(k) PROVE QueuedInv'
  <2>1. \A e \in Events : job'[JobOf[e]] # "none" => job[JobOf[e]] # "none"
    BY <1>15, JobIdType DEF JobDone, Evict, TypeOK
  <2>2. QED
    BY <1>15, <2>1
    DEF JobDone, Evict, QueuedInv, HeldWasCreated, MarkAfterAdd, ProcessedWasQueued
<1>16. ASSUME UNCHANGED vars PROVE QueuedInv'
  BY <1>16, QueuedKept DEF vars
<1>17. QED
  BY <1>1, <1>2, <1>3, <1>4, <1>5, <1>6, <1>7, <1>8, <1>9, <1>10, <1>11, <1>12,
     <1>13, <1>14, <1>15, <1>16, NextStep

\* When no two events share a jobId, no event is marked PROCESSED without a job
\* having been created for it, whatever crashes, throws or is evicted.
THEOREM ProcessedCorrect ==
    ASSUME OwnJobIds
    PROVE  Spec => []ProcessedWasQueued
<1>1. Init => QueuedInv
  BY JobIdType
  DEF Init, QueuedInv, HeldWasCreated, MarkAfterAdd, ProcessedWasQueued, Empty
<1>2. TypeOK /\ QueuedInv /\ [Next]_vars => QueuedInv'
  BY QueuedStep
<1>3. QueuedInv => ProcessedWasQueued
  BY DEF QueuedInv
<1>4. QED
  BY <1>1, <1>2, <1>3, OutboxTypeCorrect, PTL DEF Spec

-----------------------------------------------------------------------------
(* One job per event *)

\* Bull still holds the jobId of every job it was given.
OnceInv == NoDuplicateDispatch /\ \A e \in Events : created[e] > 0 => job[JobOf[e]] # "none"

LEMMA OnceStep ==
    ASSUME "evict" \notin Faults, TypeOK, OnceInv, [Next]_vars
    PROVE  OnceInv'
<1> USE DEF rows, bull
<1>a. ASSUME UNCHANGED <<job, created>> PROVE OnceInv'
  BY <1>a DEF OnceInv, NoDuplicateDispatch
<1>1. ASSUME NEW i \in Instances, NEW e \in Events, Add(i, e) PROVE OnceInv'
  <2>1. CASE job[JobOf[e]] = "none"
    <3>1. /\ job' = [job EXCEPT ![JobOf[e]] = "waiting"]
          /\ created' = [created EXCEPT ![e] = @ + 1]
      BY <1>1, <2>1 DEF Add
    <3>2. created[e] = 0
      BY <2>1 DEF OnceInv, TypeOK
    <3>3. \A d \in Events : job'[JobOf[d]] = "none" => job[JobOf[d]] = "none" /\ d # e
      BY <3>1, JobIdType DEF TypeOK
    <3>4. created'[e] = 1 /\ \A d \in Events : d # e => created'[d] = created[d]
      BY <3>1, <3>2 DEF TypeOK
    <3>5. QED
      BY <3>3, <3>4 DEF OnceInv, NoDuplicateDispatch
  <2>2. CASE job[JobOf[e]] # "none"
    BY <1>1, <1>a, <2>2 DEF Add
  <2>3. QED
    BY <2>1, <2>2
<1>2. ASSUME NEW k \in JobIds, JobDone(k) \/ Evict(k) PROVE OnceInv'
  <2>1. /\ UNCHANGED created
        /\ \A d \in Events : job[JobOf[d]] # "none" => job'[JobOf[d]] # "none"
    BY <1>2, JobIdType DEF JobDone, Evict, Fault, TypeOK
  <2>2. QED
    BY <2>1 DEF OnceInv, NoDuplicateDispatch
<1>3. ASSUME NEW e \in Events, Commit(e) \/ FallDue(e) \/ GoStale(e) PROVE OnceInv'
  BY <1>3, <1>a DEF Commit, FallDue, GoStale
<1>4. ASSUME NEW i \in Instances,
             Tick(i) \/ RecoverThrows(i) \/ Claim(i) \/ EndTick(i) \/ Crash(i)
      PROVE  OnceInv'
  BY <1>4, <1>a DEF Tick, RecoverThrows, Claim, EndTick, Crash
<1>5. ASSUME NEW i \in Instances, NEW e \in Events,
             \/ RecoverOne(i, e) \/ AddThrows(i, e) \/ FailThrows(i, e)
             \/ Mark(i, e) \/ MarkThrows(i, e) \/ Fail(i, e)
      PROVE  OnceInv'
  BY <1>5, <1>a DEF RecoverOne, AddThrows, FailThrows, Mark, MarkThrows, Fail
<1>6. ASSUME UNCHANGED vars PROVE OnceInv'
  BY <1>6, <1>a DEF vars
<1>7. QED
  BY <1>1, <1>2, <1>3, <1>4, <1>5, <1>6, NextStep

\* As long as Bull forgets no jobId, an event becomes one job at most, however many
\* processes claim, recover and dispatch its row, whatever of them dies or throws.
THEOREM OnceCorrect ==
    ASSUME "evict" \notin Faults
    PROVE  Spec => []NoDuplicateDispatch
<1>1. Init => OnceInv
  BY DEF Init, OnceInv, NoDuplicateDispatch
<1>2. TypeOK /\ OnceInv /\ [Next]_vars => OnceInv'
  BY OnceStep
<1>3. OnceInv => NoDuplicateDispatch
  BY DEF OnceInv
<1>4. QED
  BY <1>1, <1>2, <1>3, OutboxTypeCorrect, PTL DEF Spec

-----------------------------------------------------------------------------
(* One dispatcher delivers at least once *)

OneDispatcher == \A i, j \in Instances : i = j

\* A row in somebody's hands is his: claimed, in this tick.
HandsOn == \A i \in Instances, e \in Events :
               /\ hand[i][e] # "-" => pc[i] = "process" /\ status[e] = "PROCESSING"
               /\ e \in found[i] => pc[i] = "recover" /\ status[e] = "PROCESSING"

LEMMA HandsStep ==
    ASSUME OneDispatcher, "db" \notin Faults, TypeOK, HandsOn, [Next]_vars
    PROVE  HandsOn'
<1> USE DEF rows, bull
<1>a. ASSUME UNCHANGED <<pc, found, hand>>,
             \A e \in Events : status[e] = "PROCESSING" => status'[e] = "PROCESSING"
      PROVE  HandsOn'
  BY <1>a DEF HandsOn
<1>b. ASSUME NEW i \in Instances, NEW e \in Events, NEW next \in HandStates, Then(i, e, next)
      PROVE  /\ \A d \in Events : d # e => hand'[i][d] = hand[i][d]
             /\ hand'[i][e] = next
  BY <1>b DEF Then, TypeOK
<1>1. ASSUME NEW e \in Events, Commit(e) PROVE HandsOn'
  BY <1>1, <1>a DEF Commit, TypeOK
<1>2. ASSUME NEW e \in Events, FallDue(e) PROVE HandsOn'
  BY <1>2, <1>a DEF FallDue
<1>3. ASSUME NEW e \in Events, GoStale(e) PROVE HandsOn'
  BY <1>3, <1>a DEF GoStale
<1>4. ASSUME NEW i \in Instances, Tick(i) PROVE HandsOn'
  BY <1>4 DEF Tick, HandsOn, OneDispatcher, TypeOK
<1>5. ASSUME NEW i \in Instances, NEW e \in Events, RecoverOne(i, e) PROVE HandsOn'
  BY <1>5 DEF RecoverOne, WriteRow, HandsOn, OneDispatcher, TypeOK
<1>6. ASSUME NEW i \in Instances, RecoverThrows(i) PROVE HandsOn'
  BY <1>6 DEF RecoverThrows, Fault
<1>7. ASSUME NEW i \in Instances, Claim(i) PROVE HandsOn'
  BY <1>7 DEF Claim, Batch, Claimable, HandsOn, OneDispatcher, TypeOK
<1>8. ASSUME NEW i \in Instances, NEW e \in Events, Add(i, e) \/ AddThrows(i, e)
      PROVE  HandsOn'
  <2>1. Then(i, e, "mark") \/ Then(i, e, "fail")
    BY <1>8 DEF Add, AddThrows
  <2>2. \A d \in Events : hand'[i][d] # "-" => hand[i][d] # "-"
    BY <1>8, <1>b, <2>1 DEF Add, AddThrows, HandStates
  <2>3. QED
    BY <1>8, <2>2 DEF Add, AddThrows, HandsOn, OneDispatcher
<1>9. ASSUME NEW i \in Instances, NEW e \in Events, Mark(i, e) \/ Fail(i, e)
      PROVE  HandsOn'
  <2>1. /\ \A d \in Events : d # e => hand'[i][d] = hand[i][d]
        /\ hand'[i][e] = "-" /\ hand[i][e] # "-"
    BY <1>9, <1>b DEF Mark, Fail, HandStates
  <2>2. \A d \in Events : d # e => status'[d] = status[d]
    BY <1>9 DEF Mark, Fail, WriteRow, TypeOK
  <2>3. QED
    BY <1>9, <2>1, <2>2 DEF Mark, Fail, HandsOn, OneDispatcher
<1>10. ASSUME NEW i \in Instances, NEW e \in Events, FailThrows(i, e) \/ MarkThrows(i, e)
       PROVE HandsOn'
  BY <1>10 DEF FailThrows, MarkThrows, Fault
<1>11. ASSUME NEW i \in Instances, EndTick(i) PROVE HandsOn'
  BY <1>11 DEF EndTick, Empty, HandsOn, OneDispatcher, TypeOK
<1>12. ASSUME NEW i \in Instances, Crash(i) PROVE HandsOn'
  BY <1>12 DEF Crash, Empty, HandsOn, OneDispatcher, TypeOK
<1>13. ASSUME NEW k \in JobIds, JobDone(k) \/ Evict(k) PROVE HandsOn'
  BY <1>13, <1>a DEF JobDone, Evict
<1>14. ASSUME UNCHANGED vars PROVE HandsOn'
  BY <1>14, <1>a DEF vars
<1>15. QED
  BY <1>1, <1>2, <1>3, <1>4, <1>5, <1>6, <1>7, <1>8, <1>9, <1>10, <1>11, <1>12,
     <1>13, <1>14, NextStep

\* How the standing of a row follows its status.
LEMMA StandingOf ==
    ASSUME TypeOK, NEW e \in Events
    PROVE  /\ status[e] = "none" => Standing[e] = "none"
           /\ status[e] = "PROCESSED" => Standing[e] = "sent"
           /\ status[e] = "DEAD" => Standing[e] = "given up"
           /\ status[e] \in {"PENDING", "PROCESSING", "FAILED"} => Standing[e] = "owed"
BY DEF Standing, TypeOK, RowStatuses

\* A write that leaves every row standing as it was.
LEMMA Stutter ==
    ASSUME UNCHANGED created,
           \A e \in Events : \/ status'[e] = status[e]
                             \/ /\ status[e] \in {"PENDING", "PROCESSING", "FAILED"}
                                /\ status'[e] \in {"PENDING", "PROCESSING", "FAILED"},
           TypeOK, TypeOK'
    PROVE  UNCHANGED Delivery!vars
<1>1. \A e \in Events : Standing'[e] = Standing[e]
  BY DEF Standing
<1>2. Standing' = Standing
  BY <1>1 DEF Standing
<1>3. QED
  BY <1>2 DEF Delivery!vars

\* A write of one row that moves it on.
LEMMA MoveOn ==
    ASSUME UNCHANGED created, TypeOK, NEW e \in Events, NEW to \in RowStatuses,
           status' = [status EXCEPT ![e] = to], to \in {"PENDING", "PROCESSED", "DEAD"}
    PROVE  LET state == CASE to = "PENDING" -> "owed" [] to = "DEAD" -> "given up"
                          [] OTHER -> "sent"
           IN  Standing' = [Standing EXCEPT ![e] = state]
BY DEF Standing, TypeOK, RowStatuses

LEMMA DeliveryStep ==
    ASSUME "db" \notin Faults, TypeOK, TypeOK', HandsOn, QueuedInv, [Next]_vars
    PROVE  [Delivery!Next]_(Delivery!vars)
<1> DEFINE Goal == [Delivery!Next]_(Delivery!vars)
<1> USE DEF rows, bull
<1>a. ASSUME UNCHANGED <<status, created>> PROVE Goal
  BY <1>a, Stutter
<1>b. ASSUME NEW e \in Events, UNCHANGED created, status[e] = "PROCESSING",
             status' = [status EXCEPT ![e] = "DEAD"]
      PROVE  Goal
  <2>1. Standing[e] = "owed" /\ Standing' = [Standing EXCEPT ![e] = "given up"]
    BY <1>b, StandingOf, MoveOn DEF RowStatuses
  <2>2. QED
    BY <1>b, <2>1 DEF Delivery!Next, Delivery!GiveUp, Delivery!Become
<1>c. ASSUME NEW e \in Events, NEW to \in {"PENDING", "FAILED"}, UNCHANGED created,
             status[e] = "PROCESSING", status' = [status EXCEPT ![e] = to]
      PROVE  Goal
  <2>1. \A d \in Events : status'[d] = IF d = e THEN to ELSE status[d]
    BY <1>c DEF TypeOK
  <2>2. QED
    BY <1>c, <2>1, Stutter
<1>1. ASSUME NEW e \in Events, Commit(e) PROVE Goal
  <2>1. Standing[e] = "none" /\ Standing' = [Standing EXCEPT ![e] = "owed"]
    BY <1>1, StandingOf, MoveOn DEF Commit, RowStatuses
  <2>2. QED
    BY <1>1, <2>1 DEF Commit, Delivery!Next, Delivery!Commit, Delivery!Become
<1>2. ASSUME NEW e \in Events, FallDue(e) PROVE Goal
  BY <1>2, <1>a DEF FallDue
<1>3. ASSUME NEW e \in Events, GoStale(e) PROVE Goal
  BY <1>3, <1>a DEF GoStale
<1>4. ASSUME NEW i \in Instances, Tick(i) PROVE Goal
  BY <1>4, <1>a DEF Tick
<1>5. ASSUME NEW i \in Instances, NEW e \in Events, RecoverOne(i, e) PROVE Goal
  BY <1>5, <1>b, <1>c DEF RecoverOne, WriteRow, HandsOn
<1>6. ASSUME NEW i \in Instances, RecoverThrows(i) PROVE Goal
  BY <1>6, <1>a DEF RecoverThrows
<1>7. ASSUME NEW i \in Instances, Claim(i) PROVE Goal
  <2>1. \A e \in Events : \/ status'[e] = status[e]
                          \/ status[e] = "PENDING" /\ status'[e] = "PROCESSING"
    BY <1>7 DEF Claim, Batch, Claimable
  <2>2. QED
    BY <1>7, <2>1, Stutter DEF Claim
<1>8. ASSUME NEW i \in Instances, NEW e \in Events, Add(i, e) PROVE Goal
  <2>1. CASE job[JobOf[e]] = "none"
    <3>1. Standing' = Standing
      BY <1>8 DEF Add, Standing
    <3>2. Standing[e] = "owed"
      BY <1>8, StandingOf DEF Add, HandsOn
    <3>3. created' = [created EXCEPT ![e] = @ + 1]
      BY <1>8, <2>1 DEF Add
    <3>4. QED
      BY <3>1, <3>2, <3>3 DEF Delivery!Next, Delivery!Enqueue
  <2>2. CASE job[JobOf[e]] # "none"
    BY <1>8, <1>a, <2>2 DEF Add
  <2>3. QED
    BY <2>1, <2>2
<1>9. ASSUME NEW i \in Instances, NEW e \in Events, AddThrows(i, e) \/ FailThrows(i, e)
      PROVE Goal
  BY <1>9, <1>a DEF AddThrows, FailThrows
<1>10. ASSUME NEW i \in Instances, NEW e \in Events, Mark(i, e) PROVE Goal
  <2>1. created[e] > 0 /\ status[e] = "PROCESSING"
    BY <1>10 DEF Mark, HandsOn, QueuedInv, MarkAfterAdd
  <2>2. Standing[e] = "owed" /\ Standing' = [Standing EXCEPT ![e] = "sent"]
    BY <1>10, <2>1, StandingOf, MoveOn DEF Mark, WriteRow, RowStatuses
  <2>3. QED
    BY <1>10, <2>1, <2>2 DEF Mark, Delivery!Next, Delivery!Confirm, Delivery!Become
<1>11. ASSUME NEW i \in Instances, NEW e \in Events, MarkThrows(i, e) PROVE Goal
  BY <1>11 DEF MarkThrows, Fault
<1>12. ASSUME NEW i \in Instances, NEW e \in Events, Fail(i, e) PROVE Goal
  BY <1>12, <1>b, <1>c DEF Fail, WriteRow, HandsOn
<1>13. ASSUME NEW i \in Instances, EndTick(i) PROVE Goal
  BY <1>13, <1>a DEF EndTick
<1>14. ASSUME NEW i \in Instances, Crash(i) PROVE Goal
  BY <1>14, <1>a DEF Crash
<1>15. ASSUME NEW k \in JobIds, JobDone(k) \/ Evict(k) PROVE Goal
  BY <1>15, <1>a DEF JobDone, Evict
<1>16. ASSUME UNCHANGED vars PROVE Goal
  BY <1>16, <1>a DEF vars
<1> HIDE DEF Goal
<1>17. Goal
  BY <1>1, <1>2, <1>3, <1>4, <1>5, <1>6, <1>7, <1>8, <1>9, <1>10, <1>11, <1>12,
     <1>13, <1>14, <1>15, <1>16, NextStep
<1>18. QED
  BY <1>17 DEF Goal

\* A single dispatcher whose database does not fail under it delivers every event
\* at least once, in the sense of EventDelivery: each of its steps is one of the
\* abstract steps or none.
THEOREM DeliveryCorrect ==
    ASSUME OwnJobIds, OneDispatcher, "db" \notin Faults
    PROVE  Spec => DeliversAtLeastOnce
<1>1. Init => HandsOn /\ QueuedInv
  BY JobIdType
  DEF Init, HandsOn, QueuedInv, HeldWasCreated, MarkAfterAdd, ProcessedWasQueued, Empty
<1>2. Init => Delivery!Init
  BY DEF Init, Standing, Delivery!Init
<1>3. TypeOK /\ HandsOn /\ QueuedInv /\ [Next]_vars => HandsOn' /\ QueuedInv'
  BY HandsStep, QueuedStep
<1>4. TypeOK /\ TypeOK' /\ HandsOn /\ QueuedInv /\ [Next]_vars
        => [Delivery!Next]_(Delivery!vars)
  BY DeliveryStep
<1>5. QED
  BY <1>1, <1>2, <1>3, <1>4, OutboxTypeCorrect, PTL
  DEF Spec, DeliversAtLeastOnce, Delivery!Spec

-----------------------------------------------------------------------------
(* One dispatcher gives up in the end *)

\* Dispatcher i is going to count an attempt at e, or to mark it.
Mine(i, e) == e \in found[i] \/ hand[i][e] # "-"

\* The count it has read is the row's, for nobody else writes it.
CountInv ==
    \A i \in Instances, e \in Events :
        /\ hand[i][e] # "-" => pc[i] = "process"
        /\ e \in found[i] => pc[i] = "recover"
        /\ Mine(i, e) => read[i][e] = attempts[e] /\ attempts[e] < MaxAttempts
        /\ hand[i][e] = "add" => status[e] = "PROCESSING" /\ created[e] <= attempts[e]

\* Each attempt counted has made one job at most, and the one not yet counted
\* another: every way back to the queue counts one.
CountedRow(e) ==
    /\ attempts[e] <= MaxAttempts
    /\ status[e] # "DEAD" => attempts[e] < MaxAttempts
    /\ created[e] <= attempts[e] + 1
    /\ status[e] \in {"none", "PENDING", "FAILED", "DEAD"} => created[e] <= attempts[e]

Counted == \A e \in Events : CountedRow(e)

\* "After maxAttempts (default 10) the event moves to DEAD" (OUTBOX_ARCHITECTURE.md:114):
\* an event that is not dead has an attempt left, so it cannot go back to the queue
\* for ever, and Bull gets no more jobs for it than it has attempts, whatever Bull
\* forgets.
AttemptsCount ==
    \A e \in Events :
        /\ attempts[e] <= MaxAttempts /\ created[e] <= MaxAttempts
        /\ status[e] # "DEAD" => attempts[e] < MaxAttempts

\* Nothing happens to the counts, and nobody takes a row in hand.
LEMMA CountKept ==
    ASSUME CountInv, Counted, UNCHANGED <<attempts, created, read>>,
           \A i \in Instances, e \in Events :
               /\ hand'[i][e] # "-" => hand[i][e] # "-" /\ pc'[i] = pc[i]
               /\ hand'[i][e] = "add" => hand[i][e] = "add" /\ status'[e] = status[e]
               /\ e \in found'[i] => e \in found[i] /\ pc'[i] = pc[i],
           \A e \in Events :
               \/ status'[e] = status[e]
               \/ status'[e] = "PENDING" /\ status[e] = "none"
               \/ status'[e] = "PROCESSED" /\ attempts[e] < MaxAttempts
    PROVE  CountInv' /\ Counted'
<1>1. ASSUME NEW i \in Instances, NEW e \in Events
      PROVE  /\ hand'[i][e] # "-" => pc'[i] = "process"
             /\ e \in found'[i] => pc'[i] = "recover"
             /\ Mine(i, e)' => read'[i][e] = attempts'[e] /\ attempts'[e] < MaxAttempts
             /\ hand'[i][e] = "add" => status'[e] = "PROCESSING" /\ created'[e] <= attempts'[e]
  BY DEF CountInv, Mine
<1>2. ASSUME NEW e \in Events
      PROVE  CountedRow(e)'
  BY DEF Counted, CountedRow
<1>3. QED
  BY <1>1, <1>2 DEF CountInv, Counted

\* The one dispatcher counts an attempt at a row it has in hand or has found.
LEMMA CountOne ==
    ASSUME OneDispatcher, TypeOK, CountInv, Counted, NEW i \in Instances, NEW e \in Events,
           Mine(i, e), BackOff(e, IsDead(i, e)), UNCHANGED <<created, read, pc>>,
           NEW live \in {"PENDING", "FAILED"},
           status' = [status EXCEPT ![e] = IF IsDead(i, e) THEN "DEAD" ELSE live],
           \A d \in Events : /\ d # e => hand'[i][d] = hand[i][d]
                             /\ d \in found'[i] => d \in found[i] /\ d # e,
           hand'[i][e] = "-"
    PROVE  CountInv' /\ Counted'
<1>1. /\ MaxAttempts \in Nat /\ attempts \in [Events -> Nat] /\ created \in [Events -> Nat]
      /\ status \in [Events -> RowStatuses]
  BY MaxAttemptsAssumption DEF TypeOK
<1>2. /\ attempts'[e] = attempts[e] + 1 /\ attempts[e] < MaxAttempts
      /\ attempts'[e] >= MaxAttempts <=> IsDead(i, e)
      /\ \A d \in Events : d # e => attempts'[d] = attempts[d]
  BY <1>1 DEF BackOff, IsDead, CountInv
<1>3. /\ status'[e] = IF IsDead(i, e) THEN "DEAD" ELSE live
      /\ \A d \in Events : d # e => status'[d] = status[d]
  BY <1>1
<1>4. ASSUME NEW d \in Events
      PROVE  CountedRow(d)'
  <2>1. CASE d = e
    <3>1. created[e] <= attempts[e] + 1 /\ created[e] \in Nat /\ attempts[e] \in Nat
      BY <1>1 DEF Counted, CountedRow
    <3>2. attempts'[e] <= MaxAttempts /\ (status'[e] # "DEAD" => attempts'[e] < MaxAttempts)
      BY <1>1, <1>2, <1>3, <3>1
    <3>3. created'[e] <= attempts'[e]
      BY <1>2, <3>1
    <3>4. attempts'[e] \in Nat /\ created'[e] \in Nat
      BY <1>2, <3>1
    <3>5. QED
      BY <2>1, <3>2, <3>3, <3>4 DEF CountedRow
  <2>2. CASE d # e
    BY <1>2, <1>3, <2>2 DEF Counted, CountedRow
  <2>3. QED
    BY <2>1, <2>2
<1>5. ASSUME NEW j \in Instances, NEW d \in Events
      PROVE  /\ hand'[j][d] # "-" => pc'[j] = "process"
             /\ d \in found'[j] => pc'[j] = "recover"
             /\ Mine(j, d)' => read'[j][d] = attempts'[d] /\ attempts'[d] < MaxAttempts
             /\ hand'[j][d] = "add" => status'[d] = "PROCESSING" /\ created'[d] <= attempts'[d]
  <2>1. j = i
    BY DEF OneDispatcher
  <2>2. CASE d = e
    BY <2>1, <2>2 DEF Mine
  <2>3. CASE d # e
    BY <1>2, <1>3, <2>1, <2>3 DEF CountInv, Mine
  <2>4. QED
    BY <2>2, <2>3
<1>6. QED
  BY <1>4, <1>5 DEF CountInv, Counted

LEMMA CountStep ==
    ASSUME OneDispatcher, TypeOK, CountInv, Counted, [Next]_vars
    PROVE  CountInv' /\ Counted'
<1> USE DEF rows, bull
<1>0. /\ MaxAttempts \in Nat /\ attempts \in [Events -> Nat] /\ created \in [Events -> Nat]
      /\ status \in [Events -> RowStatuses] /\ hand \in [Instances -> [Events -> HandStates]]
      /\ pc \in [Instances -> {"idle", "recover", "process"}]
      /\ found \in [Instances -> SUBSET Events] /\ read \in [Instances -> [Events -> Nat]]
  BY MaxAttemptsAssumption DEF TypeOK
<1>a. ASSUME NEW i \in Instances, NEW e \in Events, NEW next \in HandStates, Then(i, e, next)
      PROVE  /\ hand'[i][e] = next
             /\ \A j \in Instances, d \in Events : j # i \/ d # e => hand'[j][d] = hand[j][d]
  BY <1>0, <1>a DEF Then
<1>b. ASSUME UNCHANGED <<status, attempts, created, read, pc, found, hand>>
      PROVE  CountInv' /\ Counted'
  BY <1>b, CountKept
<1>1. ASSUME NEW e \in Events, Commit(e)
      PROVE  CountInv' /\ Counted'
  <2>1. \A i \in Instances : hand[i][e] # "add"
    BY <1>1 DEF Commit, CountInv
  <2>2. \A d \in Events : status'[d] = IF d = e THEN "PENDING" ELSE status[d]
    BY <1>0, <1>1 DEF Commit
  <2>3. QED
    BY <1>1, <2>1, <2>2, CountKept DEF Commit
<1>2. ASSUME NEW e \in Events, FallDue(e) \/ GoStale(e)
      PROVE  CountInv' /\ Counted'
  BY <1>2, <1>b DEF FallDue, GoStale
<1>3. ASSUME NEW i \in Instances, Tick(i)
      PROVE  CountInv' /\ Counted'
  <2>1. ASSUME NEW e \in Events
        PROVE  /\ CountedRow(e)' /\ hand'[i][e] = "-"
               /\ e \in found'[i] => attempts[e] < MaxAttempts
    BY <1>0, <1>3 DEF Tick, CountInv, Counted, CountedRow
  <2>2. /\ pc'[i] = "recover" /\ attempts' = attempts /\ hand' = hand
        /\ \A e \in Events : read'[i][e] = attempts'[e]
    BY <1>0, <1>3 DEF Tick
  <2>3. \A j \in Instances : j = i
    BY DEF OneDispatcher
  <2>4. QED
    BY <2>1, <2>2, <2>3 DEF CountInv, Counted, Mine
<1>4. ASSUME NEW i \in Instances, NEW e \in Events, RecoverOne(i, e)
      PROVE  CountInv' /\ Counted'
  <2>1. Mine(i, e) /\ hand'[i] = hand[i]
    BY <1>4 DEF RecoverOne, Mine
  <2>2. hand[i][e] = "-"
    BY <1>4 DEF RecoverOne, CountInv
  <2>3. status' = [status EXCEPT ![e] = IF IsDead(i, e) THEN "DEAD" ELSE "PENDING"]
    BY <1>4 DEF RecoverOne, WriteRow
  <2>4. \A d \in Events : d \in found'[i] => d \in found[i] /\ d # e
    BY <1>0, <1>4 DEF RecoverOne
  <2>5. BackOff(e, IsDead(i, e)) /\ UNCHANGED <<created, read, pc>>
    BY <1>4 DEF RecoverOne
  <2>6. QED
    BY <2>1, <2>2, <2>3, <2>4, <2>5, CountOne
<1>5. ASSUME NEW i \in Instances, RecoverThrows(i) \/ EndTick(i) \/ Crash(i)
      PROVE  CountInv' /\ Counted'
  <2>1. \A j \in Instances : j = i
    BY DEF OneDispatcher
  <2>2. \A e \in Events : hand'[i][e] = "-" /\ e \notin found'[i]
    BY <1>0, <1>5 DEF RecoverThrows, EndTick, Crash, Empty, CountInv
  <2>3. UNCHANGED <<status, attempts, created, read>>
    BY <1>5 DEF RecoverThrows, EndTick, Crash
  <2>4. QED
    BY <2>1, <2>2, <2>3, CountKept
<1>6. ASSUME NEW i \in Instances, Claim(i)
      PROVE  CountInv' /\ Counted'
  <2>1. ASSUME NEW e \in Events
        PROVE  /\ CountedRow(e)' /\ e \notin found'[i]
               /\ hand'[i][e] # "-" => /\ attempts[e] < MaxAttempts /\ created[e] <= attempts[e]
                                       /\ status'[e] = "PROCESSING"
    <3>1. \/ e \notin Batch /\ status'[e] = status[e] /\ hand'[i][e] = "-"
          \/ e \in Batch /\ status[e] = "PENDING" /\ status'[e] = "PROCESSING"
      BY <1>0, <1>6 DEF Claim, Batch, Claimable
    <3>2. attempts' = attempts /\ created' = created /\ found' = found /\ found[i] = {}
      BY <1>6 DEF Claim
    <3>3. CountedRow(e)
      BY DEF Counted
    <3>4. CountedRow(e)'
      BY <1>0, <3>1, <3>2, <3>3 DEF CountedRow
    <3>5. QED
      BY <3>1, <3>2, <3>3, <3>4 DEF CountedRow
  <2>2. /\ pc'[i] = "process" /\ attempts' = attempts /\ created' = created
        /\ \A e \in Events : read'[i][e] = attempts'[e]
    BY <1>0, <1>6 DEF Claim
  <2>3. \A j \in Instances : j = i
    BY DEF OneDispatcher
  <2>4. QED
    BY <2>1, <2>2, <2>3 DEF CountInv, Counted, Mine
<1>7. ASSUME NEW i \in Instances, NEW e \in Events, Add(i, e)
      PROVE  CountInv' /\ Counted'
  <2>1. /\ status[e] = "PROCESSING" /\ created[e] <= attempts[e] /\ hand[i][e] # "-"
        /\ UNCHANGED <<status, attempts, read, pc, found>>
    BY <1>7 DEF Add, CountInv
  <2>2. hand'[i][e] = "mark"
        /\ \A j \in Instances, d \in Events : j # i \/ d # e => hand'[j][d] = hand[j][d]
    BY <1>7, <1>a DEF Add, HandStates
  <2>3. created'[e] <= attempts[e] + 1 /\ \A d \in Events : d # e => created'[d] = created[d]
    BY <1>0, <1>7, <2>1 DEF Add
  <2>4. ASSUME NEW d \in Events
        PROVE  CountedRow(d)'
    BY <1>0, <2>1, <2>3 DEF Counted, CountedRow
  <2>5. ASSUME NEW j \in Instances, NEW d \in Events
        PROVE  /\ hand'[j][d] # "-" => pc'[j] = "process"
               /\ d \in found'[j] => pc'[j] = "recover"
               /\ Mine(j, d)' => read'[j][d] = attempts'[d] /\ attempts'[d] < MaxAttempts
               /\ hand'[j][d] = "add" => status'[d] = "PROCESSING" /\ created'[d] <= attempts'[d]
    <3>1. j = i
      BY DEF OneDispatcher
    <3>2. QED
      BY <2>1, <2>2, <2>3, <3>1 DEF CountInv, Mine
  <2>6. QED
    BY <2>4, <2>5 DEF CountInv, Counted
<1>8. ASSUME NEW i \in Instances, NEW e \in Events,
             AddThrows(i, e) \/ Mark(i, e) \/ MarkThrows(i, e) \/ FailThrows(i, e)
      PROVE  CountInv' /\ Counted'
  <2>1. hand[i][e] # "-" /\ UNCHANGED <<attempts, created, read, pc, found>>
    BY <1>8 DEF AddThrows, Mark, MarkThrows, FailThrows
  <2>2. attempts[e] < MaxAttempts
    BY <2>1 DEF CountInv, Mine
  <2>3. \E next \in {"-", "fail"} : Then(i, e, next)
    BY <1>8 DEF AddThrows, Mark, MarkThrows, FailThrows
  <2>4. /\ hand'[i][e] \in {"-", "fail"}
        /\ \A j \in Instances, d \in Events : j # i \/ d # e => hand'[j][d] = hand[j][d]
    BY <1>a, <2>3 DEF HandStates
  <2>5. \A d \in Events : status'[d] = status[d] \/ (d = e /\ status'[d] = "PROCESSED")
    BY <1>0, <1>8 DEF AddThrows, Mark, MarkThrows, FailThrows, WriteRow
  <2>6. \A j \in Instances : j = i
    BY DEF OneDispatcher
  <2>7. QED
    BY <2>1, <2>2, <2>4, <2>5, <2>6, CountKept
<1>9. ASSUME NEW i \in Instances, NEW e \in Events, Fail(i, e)
      PROVE  CountInv' /\ Counted'
  <2>1. Mine(i, e) /\ found' = found
    BY <1>9 DEF Fail, Mine
  <2>2. e \notin found[i]
    BY <1>9 DEF Fail, CountInv
  <2>3. status' = [status EXCEPT ![e] = IF IsDead(i, e) THEN "DEAD" ELSE "FAILED"]
    BY <1>9 DEF Fail, WriteRow
  <2>4. hand'[i][e] = "-" /\ \A d \in Events : d # e => hand'[i][d] = hand[i][d]
    BY <1>9, <1>a DEF Fail, HandStates
  <2>5. BackOff(e, IsDead(i, e)) /\ UNCHANGED <<created, read, pc>>
    BY <1>9 DEF Fail
  <2>6. QED
    BY <2>1, <2>2, <2>3, <2>4, <2>5, CountOne
<1>10. ASSUME (\E k \in JobIds : JobDone(k) \/ Evict(k)) \/ UNCHANGED vars
       PROVE  CountInv' /\ Counted'
  BY <1>10, <1>b DEF JobDone, Evict, vars
<1>11. QED
  BY <1>1, <1>2, <1>3, <1>4, <1>5, <1>6, <1>7, <1>8, <1>9, <1>10, NextStep

\* A single dispatcher gives every event up after MaxAttempts, whatever fails and
\* however often, and never makes more jobs of it.
THEOREM GivenUpCorrect ==
    ASSUME OneDispatcher
    PROVE  Spec => []AttemptsCount
<1>1. Init => CountInv /\ Counted
  BY MaxAttemptsAssumption DEF Init, CountInv, Counted, CountedRow, Mine, Empty
<1>2. TypeOK /\ CountInv /\ Counted /\ [Next]_vars => CountInv' /\ Counted'
  BY CountStep
<1>3. TypeOK /\ Counted => AttemptsCount
  BY MaxAttemptsAssumption DEF TypeOK, Counted, CountedRow, AttemptsCount
<1>4. QED
  BY <1>1, <1>2, <1>3, OutboxTypeCorrect, PTL DEF Spec
=============================================================================
