---------------------------- MODULE AutoDispatch ----------------------------
(***************************************************************************)
(* A courier for an order, booked by a rule (auto-dispatch.service.ts).    *)
(* Every API process ticks: it takes back what a dead tick left, picks up  *)
(* orders that match, and runs what is due, one provider after the other   *)
(* until one takes the order.  Staff book couriers and give orders to the  *)
(* shop's own drivers meanwhile.                                           *)
(*                                                                         *)
(* One order and one rule: the run of an order touches no other order.     *)
(* Statements that write are steps; the reads a decision is taken on are   *)
(* one step, apart from what is written on their strength.  Prices, quotes *)
(* and due times are left out: which providers are tried, and when, is     *)
(* open.                                                                   *)
(***************************************************************************)
EXTENDS Integers, FiniteSets

CONSTANTS
    Providers,   \* of couriers
    NoProvider,
    Workers,     \* ticks and requests that may be under way at once
    MaxAttempts, \* MAX_ATTEMPTS
    Faults,      \* which faults happen, of AllFaults
    MaxFaults    \* and how often in all

AllFaults == {"crash",   \* the process of a handler dies
              "orphan",  \* it dies with a courier booked, not written down
              "slow",    \* a tick takes back a run somebody is still at
              "late",    \* a run is taken back that is not stale any more
              "timeout", \* a courier is booked and the answer is an error
              "db",      \* a statement throws
              "staff"}   \* staff act on an order another handler is at

ASSUME WorkersAssumption == IsFiniteSet(Workers)
ASSUME ProvidersAssumption == NoProvider \notin Providers
ASSUME MaxAttemptsAssumption == MaxAttempts \in Nat \ {0}
ASSUME FaultsAssumption == Faults \subseteq AllFaults /\ IsFiniteSet(Faults)
ASSUME MaxFaultsAssumption == MaxFaults \in Nat

VARIABLES
    order,  \* open: in a status a rule picks up; own: a driver has it;
            \* courier: courierProvider, written with courierJobId
    rule,   \* AutoDispatchRule: on, dry (dryRun), off, or deleted
    run,    \* AutoDispatchRun of the order, if any
    booked, \* how many couriers ticks and staff have on the road
    fees,   \* dispatch fees taken from the wallet and not given back
    work,   \* what each handler is doing
    faults  \* how many faults so far, and of which kinds

vars == <<order, rule, run, booked, fees, work, faults>>

Live == {"SCHEDULED", "RUNNING"}
RunStatuses == Live \union {"none", "DISPATCHED", "DRY_RUN", "FAILED", "SKIPPED"}

\* by: who books; seen: the attempts it counts with; left: the providers still to
\* try; result: what it writes to the run.
Idle == [pc |-> "idle", by |-> "tick", seen |-> 0, left |-> {},
         provider |-> NoProvider, result |-> "none"]

Engaged == {"execute", "try", "debit", "call", "refund", "attach", "finish", "retry"}
Places == Engaged \union {"idle", "new", "create", "due", "claim", "reclaim", "own",
                          "clean"}

Bookers == {"tick", "staff"}
Handlers == [pc : Places, by : Bookers, seen : Nat, left : SUBSET Providers,
             provider : Providers \union {NoProvider}, result : RunStatuses]

AllIdle == \A w \in Workers : work[w] = Idle
ByStaff(w) == work[w].by = "staff"
\* Whose claim it is.
AtRun(w) == work[w].by = "tick" /\ work[w].pc \in Engaged

Happen(kinds) ==
    IF kinds = {} THEN UNCHANGED faults
    ELSE /\ kinds \subseteq Faults
         /\ faults.n + Cardinality(kinds) <= MaxFaults
         /\ faults' = [n |-> faults.n + Cardinality(kinds),
                       kinds |-> faults.kinds \union kinds]

When(condition, kind) == IF condition THEN {kind} ELSE {}

\* What follows from interleaving alone is noted, and not counted.
Note(kinds) == faults' = [faults EXCEPT !.kinds = @ \union kinds]
-----------------------------------------------------------------------------
TypeOK ==
    /\ order \in [open : BOOLEAN, own : BOOLEAN, courier : Providers \union {NoProvider}]
    /\ rule \in {"on", "dry", "off", "deleted"}
    /\ run \in [status : RunStatuses, attempts : Nat]
    /\ booked \in [Bookers -> Nat]
    /\ fees \in Int
    /\ work \in [Workers -> Handlers]
    /\ faults \in [n : Nat, kinds : SUBSET AllFaults]

\* The order is ready to be picked up, and no run was made for it.
Init ==
    /\ order = [open |-> TRUE, own |-> FALSE, courier |-> NoProvider]
    /\ rule = "on"
    /\ run = [status |-> "none", attempts |-> 0]
    /\ booked = [b \in Bookers |-> 0]
    /\ fees = 0
    /\ work = [w \in Workers |-> Idle]
    /\ faults = [n |-> 0, kinds |-> {}]

GoOn(w, pc) == work' = [work EXCEPT ![w].pc = pc]
Turn(w, pc) == work' = [work EXCEPT ![w].pc = pc, ![w].provider = NoProvider]
EndWith(w, result) ==
    work' = [work EXCEPT ![w].pc = "finish", ![w].result = result, ![w].provider = NoProvider]
Stop(w) == work' = [work EXCEPT ![w] = Idle]
SetRun(status) == run' = [run EXCEPT !.status = status]

\* ineligibleReason, and "Our own fleet has it".
Eligible == order.open /\ order.courier = NoProvider /\ ~order.own
-----------------------------------------------------------------------------
(* tick: reclaimStale, scheduleNew, runDue *)

BeginTick(w, result, kinds) ==
    /\ work[w] = Idle
    /\ work' = [work EXCEPT ![w] = [Idle EXCEPT !.pc = IF result = "none" THEN "new" ELSE "reclaim",
                                                !.result = result]]
    /\ Happen(kinds \union When(\E v \in Workers : ByStaff(v), "staff"))
    /\ UNCHANGED <<order, rule, run, booked, fees>>

Stale == run.status = "RUNNING" /\ ~\E v \in Workers : AtRun(v)
Verdict == IF order.courier # NoProvider THEN "DISPATCHED" ELSE "SCHEDULED"

\* Mutant: no run is ever stale.
TickOnly(w) == BeginTick(w, "none", {})

Tick(w) ==
    \/ /\ run.status = "RUNNING"
       /\ BeginTick(w, Verdict, When(~Stale, "slow"))
    \/ /\ ~Stale
       /\ BeginTick(w, "none", {})

\* Mutant: the order's courier is not looked at.
ReclaimBlind(w) ==
    /\ work[w].pc = "reclaim"
    /\ SetRun("SCHEDULED")
    /\ work' = [work EXCEPT ![w].pc = "new", ![w].result = "none"]
    /\ UNCHANGED <<order, rule, booked, fees, faults>>

\* By id, whatever the run is by now.
Reclaim(w) ==
    /\ work[w].pc = "reclaim"
    /\ SetRun(work[w].result)
    /\ work' = [work EXCEPT ![w].pc = "new", ![w].result = "none"]
    /\ Note(When(~Stale \/ work[w].result # Verdict, "late"))
    /\ UNCHANGED <<order, rule, booked, fees>>

ScheduleNew(w) ==
    /\ work[w].pc = "new"
    /\ GoOn(w, IF run.status = "none" /\ rule \in {"on", "dry"} /\ Eligible
               THEN "create" ELSE "due")
    /\ UNCHANGED <<order, rule, run, booked, fees, faults>>

\* "The unique orderId makes this insert the claim."
Create(w) ==
    /\ work[w].pc = "create"
    /\ run' = IF run.status = "none" THEN [status |-> "SCHEDULED", attempts |-> 0] ELSE run
    /\ GoOn(w, "due")
    /\ UNCHANGED <<order, rule, booked, fees, faults>>

RunDue(w) ==
    /\ work[w].pc = "due"
    /\ IF run.status = "SCHEDULED"
       THEN work' = [work EXCEPT ![w].pc = "claim", ![w].seen = run.attempts]
       ELSE Stop(w)
    /\ UNCHANGED <<order, rule, run, booked, fees, faults>>

ClaimIt(w) ==
    /\ run' = [status |-> "RUNNING", attempts |-> run.attempts + 1]
    /\ work' = [work EXCEPT ![w].pc = "execute", ![w].seen = @ + 1]
    /\ UNCHANGED <<order, rule, booked, fees, faults>>

\* Mutant: an update by id.
ClaimAnyway(w) == work[w].pc = "claim" /\ ClaimIt(w)

\* "Compare-and-set: only the tick that flips SCHEDULED -> RUNNING books."
Claim(w) ==
    \/ /\ work[w].pc = "claim" /\ run.status = "SCHEDULED"
       /\ ClaimIt(w)
    \/ /\ work[w].pc = "claim" /\ run.status # "SCHEDULED"
       /\ Stop(w)
       /\ UNCHANGED <<order, rule, run, booked, fees, faults>>
-----------------------------------------------------------------------------
(* execute *)

\* The rule, the order again, and what the quotes leave to try (rankProviders).
Execute(w) ==
    /\ work[w].pc = "execute"
    /\ IF rule \in {"off", "deleted"} \/ ~Eligible THEN EndWith(w, "SKIPPED")
       ELSE \E tries \in SUBSET Providers :
                IF tries # {} /\ rule = "dry" THEN EndWith(w, "DRY_RUN")
                ELSE work' = [work EXCEPT ![w].pc = "try", ![w].left = tries]
    /\ UNCHANGED <<order, rule, run, booked, fees, faults>>

\* One provider more.  Only a courier of its own is in its way.
Try(w) ==
    /\ work[w].pc = "try"
    /\ IF work[w].left = {} THEN GoOn(w, "retry")
       ELSE \E p \in work[w].left :
                work' = IF order.courier = p THEN [work EXCEPT ![w].left = @ \ {p}]
                        ELSE [work EXCEPT ![w].pc = "debit", ![w].provider = p,
                                          ![w].left = @ \ {p}]
    /\ UNCHANGED <<order, rule, run, booked, fees, faults>>

\* Mutant: one try too many.
RetryOnceMore(w) ==
    /\ work[w].pc = "retry"
    /\ SetRun(IF work[w].seen <= MaxAttempts THEN "SCHEDULED" ELSE "FAILED")
    /\ Stop(w)
    /\ UNCHANGED <<order, rule, booked, fees, faults>>

\* retryOrFail
Retry(w) ==
    /\ work[w].pc = "retry"
    /\ SetRun(IF work[w].seen < MaxAttempts THEN "SCHEDULED" ELSE "FAILED")
    /\ Stop(w)
    /\ UNCHANGED <<order, rule, booked, fees, faults>>

\* finish: by id, whatever the run is by now.
Finish(w) ==
    /\ work[w].pc = "finish"
    /\ SetRun(work[w].result)
    /\ Stop(w)
    /\ UNCHANGED <<order, rule, booked, fees, faults>>
-----------------------------------------------------------------------------
(* dispatch of a provider: for the tick, or for staff *)

\* The tick goes on to the next provider, staff get the error.
Refused(w) == IF ByStaff(w) THEN Stop(w) ELSE Turn(w, "try")

\* Not set up for this shop, or a wallet too low.
Refuse(w) ==
    /\ work[w].pc = "debit"
    /\ Refused(w)
    /\ UNCHANGED <<order, rule, run, booked, fees, faults>>

\* debitForDispatch: "Charge the wallet FIRST".
Debit(w) ==
    /\ work[w].pc = "debit"
    /\ fees' = fees + 1
    /\ GoOn(w, "call")
    /\ UNCHANGED <<order, rule, run, booked, faults>>

CountBooking(w) == booked' = [booked EXCEPT ![work[w].by] = @ + 1]

CreateJob(w) ==
    /\ work[w].pc = "call"
    /\ CountBooking(w)
    /\ GoOn(w, "attach")
    /\ UNCHANGED <<order, rule, run, fees, faults>>

CreateJobFails(w) ==
    /\ work[w].pc = "call"
    /\ GoOn(w, "refund")
    /\ UNCHANGED <<order, rule, run, booked, fees, faults>>

\* For the code this is the same, and a courier is on the way.
CreateJobTimesOut(w) ==
    /\ work[w].pc = "call"
    /\ CountBooking(w)
    /\ GoOn(w, "refund")
    /\ Happen({"timeout"})
    /\ UNCHANGED <<order, rule, run, fees>>

RefundDispatch(w) ==
    /\ work[w].pc = "refund"
    /\ fees' = fees - 1
    /\ Refused(w)
    /\ UNCHANGED <<order, rule, run, booked, faults>>

\* The courier is written on the order by id, whatever the order is by now.
Attach(w) ==
    /\ work[w].pc = "attach"
    /\ order' = [order EXCEPT !.courier = work[w].provider]
    /\ IF ByStaff(w) THEN Stop(w) ELSE EndWith(w, "DISPATCHED")
    /\ UNCHANGED <<rule, run, booked, fees, faults>>

\* A statement throws.  refundDispatch swallows it; a tick that has booked goes
\* on to the next provider; runDue writes FAILED, and if that throws the tick ends.
Throws(w) ==
    /\ \/ work[w].pc \in {"refund", "attach"} /\ Refused(w)
       \/ /\ work[w].pc = "finish" /\ work[w].result = "DISPATCHED"
          /\ work' = [work EXCEPT ![w].pc = "try", ![w].result = "none"]
       \/ /\ \/ work[w].pc \in {"execute", "retry"}
             \/ work[w].pc = "finish" /\ work[w].result \notin {"DISPATCHED", "FAILED"}
          /\ EndWith(w, "FAILED")
       \/ work[w].pc = "finish" /\ work[w].result = "FAILED" /\ Stop(w)
    /\ Happen({"db"})
    /\ UNCHANGED <<order, rule, run, booked, fees>>

Crash(w) ==
    /\ work[w] # Idle
    /\ Stop(w)
    /\ Happen({IF work[w].pc = "attach" THEN "orphan" ELSE "crash"})
    /\ UNCHANGED <<order, rule, run, booked, fees>>
-----------------------------------------------------------------------------
(* Staff *)

ByHand(w, pc, p, kinds) ==
    /\ work[w] = Idle
    /\ work' = [work EXCEPT ![w] = [Idle EXCEPT !.pc = pc, !.by = "staff", !.provider = p]]
    /\ Happen(kinds \union When(~AllIdle, "staff"))
    /\ UNCHANGED <<order, rule, run, booked, fees>>

\* The providers' controllers: a second courier may be ordered on purpose.
BookByHand(w, p) ==
    /\ order.courier # p
    /\ ByHand(w, "debit", p, When(order.own \/ order.courier # NoProvider, "staff"))

\* assignToDriver checks the order, then writes it by id.
GiveToOwn(w) ==
    /\ order.open /\ order.courier = NoProvider
    /\ ByHand(w, "own", NoProvider, {})

WriteOwn(w) ==
    /\ work[w].pc = "own"
    /\ order' = [order EXCEPT !.own = TRUE, !.open = FALSE]
    /\ Stop(w)
    /\ UNCHANGED <<rule, run, booked, fees, faults>>

\* unassign puts the order back on the board.
TakeBack ==
    /\ order.own
    /\ order' = [order EXCEPT !.own = FALSE, !.open = TRUE]
    /\ Happen(When(~AllIdle, "staff"))
    /\ UNCHANGED <<rule, run, booked, fees, work>>

\* The order is on its way, over, or cancelled.
Close ==
    /\ order.open
    /\ order' = [order EXCEPT !.open = FALSE]
    /\ UNCHANGED <<rule, run, booked, fees, work, faults>>

UpdateRule(r) ==
    /\ rule # "deleted" /\ rule # r
    /\ rule' = r
    /\ UNCHANGED <<order, run, booked, fees, work, faults>>

DeleteRule(w) ==
    /\ work[w] = Idle /\ rule # "deleted"
    /\ rule' = "deleted"
    /\ GoOn(w, "clean")
    /\ UNCHANGED <<order, run, booked, fees, faults>>

\* "Anything still waiting on this rule would otherwise fire after delete."
SkipScheduled(w) ==
    /\ work[w].pc = "clean"
    /\ run' = IF run.status = "SCHEDULED" THEN [run EXCEPT !.status = "SKIPPED"] ELSE run
    /\ Stop(w)
    /\ UNCHANGED <<order, rule, booked, fees, faults>>
-----------------------------------------------------------------------------
Step(w) ==
    \/ Reclaim(w) \/ ScheduleNew(w) \/ Create(w) \/ RunDue(w) \/ Claim(w)
    \/ Execute(w) \/ Try(w) \/ Retry(w) \/ Finish(w)
    \/ Refuse(w) \/ Debit(w) \/ CreateJob(w) \/ CreateJobFails(w)
    \/ RefundDispatch(w) \/ Attach(w) \/ WriteOwn(w) \/ SkipScheduled(w)

Fault(w) == CreateJobTimesOut(w) \/ Throws(w) \/ Crash(w)

Staff(w) ==
    \/ \E p \in Providers : BookByHand(w, p)
    \/ GiveToOwn(w) \/ DeleteRule(w)

Next ==
    \/ \E w \in Workers : Tick(w) \/ Step(w) \/ Fault(w) \/ Staff(w)
    \/ TakeBack \/ Close
    \/ \E r \in {"on", "dry", "off"} : UpdateRule(r)

Spec == Init /\ [][Next]_vars

\* A handler goes on to its end; every process ticks every 20 seconds, whatever
\* else it is doing (AutoDispatchCron).
FairSpec ==
    /\ Spec
    /\ \A w \in Workers : WF_vars(Step(w)) /\ SF_vars(Tick(w))
-----------------------------------------------------------------------------
(* Properties *)

Couriers == booked["tick"] + booked["staff"]

\* "two API instances can never both book a courier" (schema.prisma:7043), and
\* "Our own fleet has it - not ours to override" (auto-dispatch.service.ts:521):
\* ticks of any number of processes, some of which die, send one courier at most,
\* and none after a driver.
OneCourier ==
    faults.kinds \subseteq {"crash"} =>
        Couriers <= 1 /\ (order.own => Couriers = 0)

\* What the shop is told: a run that gave up, or was skipped, left no courier of
\* its own on the road ("dispatch it by hand"), one that says DISPATCHED booked
\* one, or found one.
RunTellsTheTruth ==
    /\ run.status = "DISPATCHED" => Couriers > 0
    /\ run.status \in {"FAILED", "SKIPPED", "DRY_RUN"} => booked["tick"] = 0

\* One fee for every courier: "refund if the Stuart job then fails to create"
\* (stuart-dispatch.service.ts:219).
FeesMatch == fees = Couriers

\* When nothing is under way, the run and the wallet agree with what happened,
\* unless a courier API or the database failed half-way.
BooksAgree ==
    AllIdle =>
        /\ faults.kinds \subseteq {"crash", "staff"} => RunTellsTheTruth
        /\ faults.kinds \subseteq {"orphan", "slow", "late", "staff"} => FeesMatch

\* "One row per order" (schema.prisma:7042): what the shop was told stands.  Every
\* end of a run is written by id, yet none is overwritten, unless the run was taken
\* back from somebody still at it, or by two ticks.
VerdictIsFinal ==
    [][run.status \notin Live \union {"none"} /\ run' # run
           => "late" \in faults'.kinds]_vars

\* "tried again this often, this many times in total" (auto-dispatch.service.ts:44):
\* MAX_ATTEMPTS, plus one for every other process that counts from an old read, and
\* one for every death and failure that costs a try.
AttemptsBounded ==
    "late" \notin faults.kinds =>
        run.attempts < MaxAttempts + Cardinality(Workers) + faults.n

\* A run that was picked up ends, whoever dies ("A tick that died mid-run leaves
\* RUNNING behind", auto-dispatch.service.ts:458) and whatever is refused.
RunSettles == run.status \in Live ~> run.status \notin Live
=============================================================================
