------------------------------- MODULE Outbox -------------------------------
(***************************************************************************)
(* The transactional outbox of apps/api outbox/: event rows committed with *)
(* the order change they announce, and OutboxDispatcherCron, one per API   *)
(* process, which claims due rows, adds a Bull job for each and marks the  *)
(* row.  Every tick first recovers the rows a dead process left behind.    *)
(*                                                                         *)
(* Rows are numbered by createdAt.  Bull drops an added job whose jobId it *)
(* still holds; it holds a finished job until enough later ones finish     *)
(* (removeOnComplete), which is when the model may evict it.               *)
(***************************************************************************)
EXTENDS Naturals, FiniteSets

CONSTANTS
    NumEvents,    \* outbox rows, 1 .. NumEvents in createdAt order
    Instances,    \* API processes, each with one dispatcher
    JobOf,        \* JobOf[e]: the jobId event e is enqueued under
    BatchSize,    \* BATCH_SIZE
    MaxAttempts,  \* maxAttempts of a row
    Faults,       \* what may go wrong: "crash", "queue", "db", "slow", "evict"
    MaxFaults     \* how often, in all

Events == 1 .. NumEvents

ASSUME NumEventsAssumption == NumEvents \in Nat
ASSUME JobOfAssumption == JobOf \in [Events -> Nat]
ASSUME BatchSizeAssumption == BatchSize \in Nat \ {0}
ASSUME MaxAttemptsAssumption == MaxAttempts \in Nat \ {0}
ASSUME MaxFaultsAssumption == MaxFaults \in Nat

JobIds == {JobOf[e] : e \in Events}

VARIABLES
    status,    \* OutboxEvent.status, "none" until the row is committed
    attempts,  \* OutboxEvent.attempts
    due,       \* nextAttemptAt is null or has passed
    stale,     \* updatedAt is older than the processing timeout
    job,       \* Bull: "none", "waiting" or "kept" (finished, id still held)
    created,   \* created[e]: Bull jobs that came to exist with e's payload
    pc,        \* where each dispatcher is in its tick ("idle": running = false)
    found,     \* stuck rows it has read and not yet recovered
    hand,      \* hand[i][e]: what it does next with a claimed row
    read,      \* read[i][e]: the attempts it read from the row
    faults

rows == <<status, attempts, due, stale>>
bull == <<job, created>>
vars == <<status, attempts, due, stale, job, created, pc, found, hand, read, faults>>

RowStatuses == {"none", "PENDING", "PROCESSING", "PROCESSED", "FAILED", "DEAD"}

\* What a dispatcher does next with a row: add its job, mark the row
\* PROCESSED, or, in the catch block, FAILED or DEAD.
HandStates == {"-", "add", "mark", "fail"}

Empty == [e \in Events |-> "-"]

TypeOK ==
    /\ status \in [Events -> RowStatuses]
    /\ attempts \in [Events -> Nat]
    /\ due \in [Events -> BOOLEAN]
    /\ stale \in [Events -> BOOLEAN]
    /\ job \in [JobIds -> {"none", "waiting", "kept"}]
    /\ created \in [Events -> Nat]
    /\ pc \in [Instances -> {"idle", "recover", "process"}]
    /\ found \in [Instances -> SUBSET Events]
    /\ hand \in [Instances -> [Events -> HandStates]]
    /\ read \in [Instances -> [Events -> Nat]]
    /\ faults \in Nat

Init ==
    /\ status = [e \in Events |-> "none"]
    /\ attempts = [e \in Events |-> 0]
    /\ due = [e \in Events |-> TRUE]
    /\ stale = [e \in Events |-> FALSE]
    /\ job = [k \in JobIds |-> "none"]
    /\ created = [e \in Events |-> 0]
    /\ pc = [i \in Instances |-> "idle"]
    /\ found = [i \in Instances |-> {}]
    /\ hand = [i \in Instances |-> Empty]
    /\ read = [i \in Instances |-> [e \in Events |-> 0]]
    /\ faults = 0

\* One of the things that may go wrong, goes wrong.
Fault(kind) ==
    /\ kind \in Faults
    /\ faults < MaxFaults
    /\ faults' = faults + 1
-----------------------------------------------------------------------------
(* Rows *)

\* The transaction that writes the order writes its event.
Commit(e) ==
    /\ status[e] = "none"
    /\ \A d \in Events : d < e => status[d] # "none"
    /\ status' = [status EXCEPT ![e] = "PENDING"]
    /\ UNCHANGED <<attempts, due, stale, bull, pc, found, hand, read, faults>>

\* nextAttemptAt passes.
FallDue(e) ==
    /\ ~due[e]
    /\ due' = [due EXCEPT ![e] = TRUE]
    /\ UNCHANGED <<status, attempts, stale, bull, pc, found, hand, read, faults>>

\* Five minutes in PROCESSING: the process that claimed the row is gone, or,
\* a fault, it is still waiting for Redis or the database.
GoStale(e) ==
    /\ status[e] = "PROCESSING" /\ ~stale[e]
    /\ IF \E i \in Instances : hand[i][e] # "-" THEN Fault("slow")
                                                ELSE UNCHANGED faults
    /\ stale' = [stale EXCEPT ![e] = TRUE]
    /\ UNCHANGED <<status, attempts, due, bull, pc, found, hand, read>>

\* prisma.outboxEvent.update by id: @updatedAt is stamped with it.
WriteRow(e, to) ==
    /\ status' = [status EXCEPT ![e] = to]
    /\ stale' = [stale EXCEPT ![e] = FALSE]

\* Mutant: attempts counts down.
BackOffCountdown(e, isDead) ==
    /\ attempts' = [attempts EXCEPT ![e] = @ - 1]
    /\ due' = [due EXCEPT ![e] = isDead]

\* attempts and nextAttemptAt after a failed attempt: a dead row has no next
\* one, any other waits out its backoff.
BackOff(e, isDead) ==
    /\ attempts' = [attempts EXCEPT ![e] = @ + 1]
    /\ due' = [due EXCEPT ![e] = isDead]
-----------------------------------------------------------------------------
(* OutboxDispatcherCron *)

\* Mutant: the last attempt is one too early.
IsDeadEarly(i, e) == read[i][e] + 2 >= MaxAttempts

\* Dead or not is decided on the attempts that were read, not the row's.
IsDead(i, e) == read[i][e] + 1 >= MaxAttempts

\* Mutant: without the running flag.
TickReentrant(i) ==
    /\ pc' = [pc EXCEPT ![i] = "recover"]
    /\ found' = [found EXCEPT ![i] = {e \in Events : status[e] = "PROCESSING" /\ stale[e]}]
    /\ read' = [read EXCEPT ![i] = attempts]
    /\ UNCHANGED <<rows, bull, hand, faults>>

\* Mutant: without recoverStuckProcessing.
TickWithoutRecovery(i) ==
    /\ pc[i] = "idle"
    /\ pc' = [pc EXCEPT ![i] = "recover"]
    /\ UNCHANGED <<rows, bull, found, hand, read, faults>>

\* dispatch(), every five seconds, unless this process is still in the last
\* tick; recoverStuckProcessing reads the stuck rows.  The SELECT's row locks
\* end with the statement: it is not in a transaction with the updates.
Tick(i) ==
    /\ pc[i] = "idle"
    /\ pc' = [pc EXCEPT ![i] = "recover"]
    /\ found' = [found EXCEPT ![i] = {e \in Events : status[e] = "PROCESSING" /\ stale[e]}]
    /\ read' = [read EXCEPT ![i] = attempts]
    /\ UNCHANGED <<rows, bull, hand, faults>>

RecoverOne(i, e) ==
    /\ pc[i] = "recover"
    /\ e \in found[i]
    /\ found' = [found EXCEPT ![i] = @ \ {e}]
    /\ WriteRow(e, IF IsDead(i, e) THEN "DEAD" ELSE "PENDING")
    /\ BackOff(e, IsDead(i, e))
    /\ UNCHANGED <<bull, pc, hand, read, faults>>

\* The update throws: dispatch() logs it and the tick is over.
RecoverThrows(i) ==
    /\ pc[i] = "recover" /\ found[i] # {}
    /\ Fault("db")
    /\ found' = [found EXCEPT ![i] = {}]
    /\ pc' = [pc EXCEPT ![i] = "idle"]
    /\ UNCHANGED <<rows, bull, hand, read>>

Claimable == {e \in Events : status[e] = "PENDING" /\ due[e]}

\* The oldest BATCH_SIZE of them.
Batch == {e \in Claimable : Cardinality({d \in Claimable : d < e}) < BatchSize}

\* UPDATE ... WHERE id IN (SELECT ... FOR UPDATE SKIP LOCKED): one statement.
Claim(i) ==
    /\ pc[i] = "recover" /\ found[i] = {}
    /\ status' = [e \in Events |-> IF e \in Batch THEN "PROCESSING" ELSE status[e]]
    /\ stale' = [e \in Events |-> stale[e] /\ e \notin Batch]
    /\ hand' = [hand EXCEPT ![i] = [e \in Events |-> IF e \in Batch THEN "add" ELSE "-"]]
    /\ read' = [read EXCEPT ![i] = attempts]
    /\ pc' = [pc EXCEPT ![i] = "process"]
    /\ UNCHANGED <<attempts, due, bull, found, faults>>

Then(i, e, next) == hand' = [hand EXCEPT ![i][e] = next]

\* Mutant: a jobId of its own for every add.
AddAlways(i, e) ==
    /\ hand[i][e] = "add"
    /\ job' = [job EXCEPT ![JobOf[e]] = "waiting"]
    /\ created' = [created EXCEPT ![e] = @ + 1]
    /\ Then(i, e, "mark")
    /\ UNCHANGED <<rows, pc, found, read, faults>>

\* dispatch_event: orderQueue.add, dropped if Bull still holds the jobId.
Add(i, e) ==
    /\ hand[i][e] = "add"
    /\ IF job[JobOf[e]] = "none"
       THEN /\ job' = [job EXCEPT ![JobOf[e]] = "waiting"]
            /\ created' = [created EXCEPT ![e] = @ + 1]
       ELSE UNCHANGED bull
    /\ Then(i, e, "mark")
    /\ UNCHANGED <<rows, pc, found, read, faults>>

\* Mutant: the error of a failed add is swallowed.
AddSwallows(i, e) ==
    /\ hand[i][e] = "add"
    /\ Fault("queue")
    /\ Then(i, e, "mark")
    /\ UNCHANGED <<rows, bull, pc, found, read>>

AddThrows(i, e) ==
    /\ hand[i][e] = "add"
    /\ Fault("queue")
    /\ Then(i, e, "fail")
    /\ UNCHANGED <<rows, bull, pc, found, read>>

Mark(i, e) ==
    /\ hand[i][e] = "mark"
    /\ WriteRow(e, "PROCESSED")
    /\ Then(i, e, "-")
    /\ UNCHANGED <<attempts, due, bull, pc, found, read, faults>>

\* The update throws inside the try, applied or not: the row is then failed.
MarkThrows(i, e) ==
    /\ hand[i][e] = "mark"
    /\ Fault("db")
    /\ WriteRow(e, "PROCESSED") \/ UNCHANGED <<status, stale>>
    /\ Then(i, e, "fail")
    /\ UNCHANGED <<attempts, due, bull, pc, found, read>>

Fail(i, e) ==
    /\ hand[i][e] = "fail"
    /\ WriteRow(e, IF IsDead(i, e) THEN "DEAD" ELSE "FAILED")
    /\ BackOff(e, IsDead(i, e))
    /\ Then(i, e, "-")
    /\ UNCHANGED <<bull, pc, found, read, faults>>

\* The update in the catch block throws: allSettled swallows it.
FailThrows(i, e) ==
    /\ hand[i][e] = "fail"
    /\ Fault("db")
    /\ Then(i, e, "-")
    /\ UNCHANGED <<rows, bull, pc, found, read>>

\* Promise.allSettled: the tick ends when every claimed row is done with.
EndTick(i) ==
    /\ pc[i] = "process" /\ hand[i] = Empty
    /\ pc' = [pc EXCEPT ![i] = "idle"]
    /\ UNCHANGED <<rows, bull, found, hand, read, faults>>

\* The process dies and is started again.
Crash(i) ==
    /\ pc[i] # "idle"
    /\ Fault("crash")
    /\ pc' = [pc EXCEPT ![i] = "idle"]
    /\ found' = [found EXCEPT ![i] = {}]
    /\ hand' = [hand EXCEPT ![i] = Empty]
    /\ UNCHANGED <<rows, bull, read>>
-----------------------------------------------------------------------------
(* Bull *)

\* The worker finishes the job; its id stays taken.
JobDone(k) ==
    /\ job[k] = "waiting"
    /\ job' = [job EXCEPT ![k] = "kept"]
    /\ UNCHANGED <<rows, created, pc, found, hand, read, faults>>

\* A hundred later jobs have finished.
Evict(k) ==
    /\ job[k] = "kept"
    /\ Fault("evict")
    /\ job' = [job EXCEPT ![k] = "none"]
    /\ UNCHANGED <<rows, created, pc, found, hand, read>>
-----------------------------------------------------------------------------
\* What a dispatcher does of its own accord, and what befalls it.
Dispatch(i) ==
    \/ Tick(i) \/ Claim(i) \/ EndTick(i)
    \/ \E e \in Events : RecoverOne(i, e) \/ Add(i, e) \/ Mark(i, e) \/ Fail(i, e)

Break(i) ==
    \/ Crash(i) \/ RecoverThrows(i)
    \/ \E e \in Events : AddThrows(i, e) \/ MarkThrows(i, e) \/ FailThrows(i, e)

Next ==
    \/ \E e \in Events : Commit(e) \/ FallDue(e) \/ GoStale(e)
    \/ \E i \in Instances : Dispatch(i) \/ Break(i)
    \/ \E k \in JobIds : JobDone(k) \/ Evict(k)

Spec == Init /\ [][Next]_vars

\* The cron keeps ticking in every process and a tick goes on to its end; time
\* passes, so backoffs and the processing timeout run out.
FairSpec ==
    /\ Spec
    /\ \A i \in Instances : WF_vars(Dispatch(i))
    /\ \A e \in Events : WF_vars(FallDue(e)) /\ WF_vars(GoStale(e))
-----------------------------------------------------------------------------
(* Properties *)

\* A row is given up only when its attempts are used up, whichever processes
\* recovered or failed it with whatever count they had read.
DeadOnlyWhenExhausted ==
    \A e \in Events : status[e] = "DEAD" => attempts[e] >= MaxAttempts

\* A row marked PROCESSED had its job created: an event is never dropped while
\* it counts as sent (OUTBOX_ARCHITECTURE.md:38).
ProcessedWasQueued ==
    \A e \in Events : status[e] = "PROCESSED" => created[e] > 0

\* One job per event, however often its row was dispatched: "No duplicate
\* dispatch risk" (OUTBOX_ARCHITECTURE.md:144).
NoDuplicateDispatch == \A e \in Events : created[e] <= 1

\* Every committed event is sent, given up after its attempts, or failed: no
\* crash or stall leaves it with a process that is gone.
EventSettles ==
    \A e \in Events : status[e] = "PENDING" ~> status[e] \in {"PROCESSED", "DEAD", "FAILED"}

\* "FAILED events: Will be retried automatically on the next dispatcher tick
\* after nextAttemptAt" (OUTBOX_ARCHITECTURE.md:120).
FailedIsRetried ==
    \A e \in Events : status[e] = "FAILED" ~> status[e] # "FAILED"

\* A row as its event is seen from outside.
Standing ==
    [e \in Events |->
        CASE status[e] = "none" -> "none"
          [] status[e] = "PROCESSED" -> "sent"
          [] status[e] = "DEAD" -> "given up"
          [] OTHER -> "owed"]

Delivery == INSTANCE EventDelivery WITH state <- Standing, jobs <- created

\* The dispatcher of a single process delivers at least once: no job is created
\* for an event no longer owed, and neither a stall nor a recovery reopens one
\* (OUTBOX_ARCHITECTURE.md:38).
DeliversAtLeastOnce == Delivery!Spec
=============================================================================
