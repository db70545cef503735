----------------------------- MODULE PrintJobs -----------------------------
(***************************************************************************)
(* PrintJob rows and everybody who prints them: print-bridge agents that   *)
(* claim over HTTP, the API's own SERVER_DIRECT cron, a tablet that prints *)
(* on its own and tells the API afterwards, the housekeeping cron and the  *)
(* operator's "Clear queue".                                               *)
(*                                                                         *)
(* An agent's start, complete and fail are calls the API handles in two    *)
(* database steps: requireClaimedBy reads the row, the handler then writes *)
(* it by id.  A call whose answer never comes may still be under way.      *)
(***************************************************************************)
EXTENDS Integers, FiniteSets

CONSTANTS
    Jobs,        \* PrintJob rows
    Orders,      \* the orders they are of, each the set of its rows
    Agents,      \* print-bridge processes
    Ticks,       \* runs of ServerDirectPrintCron.tick that may overlap
    MaxRetries,  \* PrintJob.maxRetries
    Parts,       \* who takes part, of AllParts
    Faults,      \* which faults happen, of AllFaults
    MaxFaults    \* and how often in all

AllParts == {"agent", "direct", "tablet", "operator"}
AllFaults == {"send",   \* the printer cannot be reached
              "torn",   \* a send throws though the paper is out
              "slow",   \* work takes longer than the 60 s of a claim
              "lost",   \* a connection between agent and API breaks
              "crash",  \* an agent or the API process dies
              "db"}     \* the database refuses a write of the cron

ASSUME OrdersAssumption == Orders \subseteq SUBSET Jobs
ASSUME MaxRetriesAssumption == MaxRetries \in Nat \ {0}
ASSUME MaxFaultsAssumption == MaxFaults \in Nat
ASSUME PartsAssumption == Parts \subseteq AllParts
ASSUME FaultsAssumption == Faults \subseteq AllFaults

VARIABLES
    status,     \* PrintJob.status
    claimedBy,  \* PrintJob.claimedByAgentId
    held,       \* PrintJob.claimedAt is set
    attempts,   \* PrintJob.attempts
    paper,      \* how many times the ticket has come out of a printer
    agent,      \* what each agent is doing
    owed,       \* each agent's SQLite outbox: reports the API has not taken
    calls,      \* HTTP calls under way
    tick,       \* what each run of the cron is doing
    tablet,     \* how far the tablet is with each order, and the rows it has to write
    faults      \* how many faults so far, and of which kinds

row  == <<status, claimedBy, held, attempts>>
vars == <<status, claimedBy, held, attempts, paper, agent, owed, calls, tick,
          tablet, faults>>

JobStatuses == {"QUEUED", "CLAIMED", "PRINTING", "PRINTED", "FAILED", "RETRYING"}
Active == {"QUEUED", "CLAIMED", "PRINTING", "RETRYING"}
Nobody == "nobody"
Unread == -1

ASSUME NobodyAssumption == Nobody \notin Agents

\* The jobs a drain still has in hand, and the one it is at.
Ready(rest) == [pc |-> "ready", rest |-> rest]
At(pc, j, rest) == [pc |-> pc, job |-> j, rest |-> rest]

Kinds == {"start", "complete", "fail"}

\* from: who waits for the answer; seen: the attempts requireClaimedBy read.
Call(kind, from, a, j) ==
    [kind |-> kind, from |-> from, agent |-> a, job |-> j, seen |-> Unread]

FaultLog == [n : Nat, kinds : SUBSET AllFaults]

Fault(f) ==
    /\ f \in Faults
    /\ faults.n < MaxFaults
    /\ faults' = [n |-> faults.n + 1, kinds |-> faults.kinds \union {f}]
-----------------------------------------------------------------------------
TypeOK ==
    /\ status \in [Jobs -> JobStatuses]
    /\ claimedBy \in [Jobs -> Agents \union {Nobody}]
    /\ held \in [Jobs -> BOOLEAN]
    /\ attempts \in [Jobs -> Nat]
    /\ paper \in [Jobs -> Nat]
    /\ agent \in [Agents -> [pc : {"ready"}, rest : SUBSET Jobs]
                              \union [pc : {"start", "print", "complete", "fail"},
                                      job : Jobs, rest : SUBSET Jobs]]
    /\ owed \in [Agents -> SUBSET [kind : {"complete", "fail"}, job : Jobs]]
    /\ calls \subseteq [kind : Kinds, from : {"loop", "outbox", "nobody"},
                        agent : Agents, job : Jobs, seen : Nat \union {Unread}]
    /\ tick \in [Ticks -> [pc : {"ready"}, rest : SUBSET Jobs]
                            \union [pc : {"print", "printed", "failed"},
                                    job : Jobs, rest : SUBSET Jobs]]
    /\ tablet \in [Orders -> [at : {"unseen", "printed", "marked"}, todo : SUBSET Jobs]]
    /\ faults \in FaultLog

Init ==
    /\ status = [j \in Jobs |-> "QUEUED"]
    /\ claimedBy = [j \in Jobs |-> Nobody]
    /\ held = [j \in Jobs |-> FALSE]
    /\ attempts = [j \in Jobs |-> 0]
    /\ paper = [j \in Jobs |-> 0]
    /\ agent = [a \in Agents |-> Ready({})]
    /\ owed = [a \in Agents |-> {}]
    /\ calls = {}
    /\ tick = [t \in Ticks |-> Ready({})]
    /\ tablet = [o \in Orders |-> [at |-> "unseen", todo |-> {}]]
    /\ faults = [n |-> 0, kinds |-> {}]

SetStatus(j, s) == status' = [status EXCEPT ![j] = s]
Comes(j) == paper' = [paper EXCEPT ![j] = @ + 1]

\* Mutant: dead-lettered rows are claimed as well.
ClaimableDead(j) == status[j] \in {"QUEUED", "RETRYING", "FAILED"}

Claimable(j) == status[j] \in {"QUEUED", "RETRYING"}
-----------------------------------------------------------------------------
(* A print-bridge agent: Agent.drain and Agent.handle *)

\* Mutant: the claim leaves claimedAt unset.
TakeUndated(a, js) ==
    /\ status' = [j \in Jobs |-> IF j \in js THEN "CLAIMED" ELSE status[j]]
    /\ claimedBy' = [j \in Jobs |-> IF j \in js THEN a ELSE claimedBy[j]]
    /\ UNCHANGED <<held, attempts>>

\* claim: SELECT ... FOR UPDATE SKIP LOCKED and the update, one transaction.
Take(a, js) ==
    /\ status' = [j \in Jobs |-> IF j \in js THEN "CLAIMED" ELSE status[j]]
    /\ claimedBy' = [j \in Jobs |-> IF j \in js THEN a ELSE claimedBy[j]]
    /\ held' = [j \in Jobs |-> IF j \in js THEN TRUE ELSE held[j]]
    /\ UNCHANGED attempts

\* js: up to the limit, without the rows another claim has locked.  The answer
\* may be lost, and the agent never learns what it holds.
AgentClaim(a, js) ==
    /\ "agent" \in Parts
    /\ agent[a] = Ready({})
    /\ js # {} /\ \A j \in js : Claimable(j)
    /\ Take(a, js)
    /\ \/ agent' = [agent EXCEPT ![a] = Ready(js)] /\ UNCHANGED faults
       \/ Fault("lost") /\ UNCHANGED agent
    /\ UNCHANGED <<paper, owed, calls, tick, tablet>>

\* The agent waits for the answer of the call it makes.
Ask(a, kind, j) ==
    /\ agent' = [agent EXCEPT ![a] = At(kind, j, @.rest \ {j})]
    /\ calls' = calls \union {Call(kind, "loop", a, j)}

AgentStart(a, j) ==
    /\ agent[a].pc = "ready" /\ j \in agent[a].rest
    /\ Ask(a, "start", j)
    /\ UNCHANGED <<row, paper, owed, tick, tablet, faults>>

AgentPrint(a) ==
    /\ agent[a].pc = "print"
    /\ Comes(agent[a].job)
    /\ Ask(a, "complete", agent[a].job)
    /\ UNCHANGED <<row, owed, tick, tablet, faults>>

AgentPrintThrows(a) ==
    /\ agent[a].pc = "print"
    /\ \/ Fault("send") /\ UNCHANGED paper
       \/ Fault("torn") /\ Comes(agent[a].job)
    /\ Ask(a, "fail", agent[a].job)
    /\ UNCHANGED <<row, owed, tick, tablet>>

\* flushOutbox replays a report; one replay of it at a time.
Flush(a, op) ==
    /\ op \in owed[a]
    /\ ~\E c \in calls : c.from = "outbox" /\ c.agent = a
                          /\ c.kind = op.kind /\ c.job = op.job
    /\ calls' = calls \union {Call(op.kind, "outbox", a, op.job)}
    /\ UNCHANGED <<row, paper, agent, owed, tick, tablet, faults>>

\* The agent dies, or its renderer throws out of drain(): the jobs in hand stay
\* claimed.  The API goes on with the calls it has received.
AgentCrash(a) ==
    /\ agent[a] # Ready({})
    /\ Fault("crash")
    /\ agent' = [agent EXCEPT ![a] = Ready({})]
    /\ calls' = {IF c.agent = a THEN [c EXCEPT !.from = "nobody"] ELSE c : c \in calls}
    /\ UNCHANGED <<row, paper, owed, tick, tablet>>
-----------------------------------------------------------------------------
(* The API's side of a call, and its answer *)

Owe(c) == [owed EXCEPT ![c.agent] = @ \union {[kind |-> c.kind, job |-> c.job]}]
Settle(c) == [owed EXCEPT ![c.agent] = @ \ {[kind |-> c.kind, job |-> c.job]}]

\* What the agent does with the answer.  It prints whatever start answers, and
\* keeps a report that was not taken; the outbox forgets one that was.
Answer(c, ok) ==
    /\ agent' = IF c.from # "loop" THEN agent
                ELSE [agent EXCEPT ![c.agent] =
                         IF c.kind = "start" THEN At("print", c.job, @.rest)
                                             ELSE Ready(@.rest)]
    /\ owed' = IF c.from = "outbox" /\ ok THEN Settle(c)
               ELSE IF c.from = "loop" /\ ~ok /\ c.kind # "start" THEN Owe(c)
               ELSE owed

\* requireClaimedBy: only the claim is checked, never the status.
Authorise(c) ==
    /\ c.seen = Unread
    /\ IF claimedBy[c.job] = c.agent
       THEN /\ calls' = (calls \ {c}) \union {[c EXCEPT !.seen = attempts[c.job]]}
            /\ UNCHANGED <<agent, owed>>
       ELSE calls' = calls \ {c} /\ Answer(c, FALSE)
    /\ UNCHANGED <<row, paper, tick, tablet, faults>>

WillRetry(n) == n < MaxRetries

MarkFailed(j, n) ==
    /\ SetStatus(j, IF WillRetry(n) THEN "RETRYING" ELSE "FAILED")
    /\ attempts' = [attempts EXCEPT ![j] = n]
    /\ claimedBy' = [claimedBy EXCEPT ![j] = Nobody]
    /\ held' = [held EXCEPT ![j] = FALSE]

\* markStarted, markPrinted or markFailed writes the row by id.
Handle(c) ==
    /\ c.seen # Unread
    /\ \/ c.kind = "start" /\ SetStatus(c.job, "PRINTING")
                            /\ UNCHANGED <<claimedBy, held, attempts>>
       \/ c.kind = "complete" /\ SetStatus(c.job, "PRINTED")
                               /\ UNCHANGED <<claimedBy, held, attempts>>
       \/ c.kind = "fail" /\ MarkFailed(c.job, c.seen + 1)
    /\ calls' = calls \ {c}
    /\ Answer(c, TRUE)
    /\ UNCHANGED <<paper, tick, tablet, faults>>

\* The connection breaks with the request unread, or only its answer is lost.
\* handle() reports a start that threw as a failed print.
Disconnect(c) ==
    LET dead == [c EXCEPT !.from = "nobody"]
        a == c.agent IN
    /\ c.from # "nobody"
    /\ Fault("lost")
    /\ \E left \in {{}, {dead}} :
           IF c.from = "loop" /\ c.kind = "start"
           THEN /\ agent' = [agent EXCEPT ![a] = At("fail", c.job, @.rest)]
                /\ calls' = (calls \ {c}) \union left
                              \union {Call("fail", "loop", a, c.job)}
                /\ UNCHANGED owed
           ELSE /\ calls' = (calls \ {c}) \union left
                /\ Answer(c, FALSE)
    /\ UNCHANGED <<row, paper, tick, tablet>>
-----------------------------------------------------------------------------
(* ServerDirectPrintCron.drainOnce: no guard keeps two ticks apart *)

\* js: the oldest twenty of the last ten minutes for the printers it drives.
DirectRead(t, js) ==
    /\ "direct" \in Parts
    /\ tick[t] = Ready({})
    /\ js # {} /\ \A j \in js : status[j] = "QUEUED" /\ claimedBy[j] = Nobody
    /\ tick' = [tick EXCEPT ![t] = Ready(js)]
    /\ UNCHANGED <<row, paper, agent, owed, calls, tablet, faults>>

\* Mutant: the row is updated by id, whatever became of it since the read.
DirectClaimById(t, j) ==
    /\ tick[t].pc = "ready" /\ j \in tick[t].rest
    /\ SetStatus(j, "PRINTING")
    /\ held' = [held EXCEPT ![j] = TRUE]
    /\ tick' = [tick EXCEPT ![t] = At("print", j, @.rest \ {j})]
    /\ UNCHANGED <<claimedBy, attempts, paper, agent, owed, calls, tablet, faults>>

\* updateMany where status is still QUEUED; a row somebody else took is skipped.
DirectClaim(t, j) ==
    /\ tick[t].pc = "ready" /\ j \in tick[t].rest
    /\ IF status[j] = "QUEUED"
       THEN /\ SetStatus(j, "PRINTING")
            /\ held' = [held EXCEPT ![j] = TRUE]
            /\ tick' = [tick EXCEPT ![t] = At("print", j, @.rest \ {j})]
       ELSE /\ tick' = [tick EXCEPT ![t] = Ready(@.rest \ {j})]
            /\ UNCHANGED <<status, held>>
    /\ UNCHANGED <<claimedBy, attempts, paper, agent, owed, calls, tablet, faults>>

Proceed(t, pc) == tick' = [tick EXCEPT ![t] = [@ EXCEPT !.pc = pc]]

DirectPrint(t) ==
    /\ tick[t].pc = "print"
    /\ Comes(tick[t].job)
    /\ Proceed(t, "printed")
    /\ UNCHANGED <<row, agent, owed, calls, tablet, faults>>

\* Mutant: the result of the send is not looked at.
DirectPrintThrowsUnseen(t) ==
    /\ tick[t].pc = "print"
    /\ \/ Fault("send") /\ UNCHANGED paper
       \/ Fault("torn") /\ Comes(tick[t].job)
    /\ Proceed(t, "printed")
    /\ UNCHANGED <<row, agent, owed, calls, tablet>>

DirectPrintThrows(t) ==
    /\ tick[t].pc = "print"
    /\ \/ Fault("send") /\ UNCHANGED paper
       \/ Fault("torn") /\ Comes(tick[t].job)
    /\ Proceed(t, "failed")
    /\ UNCHANGED <<row, agent, owed, calls, tablet>>

DirectMark(t) ==
    /\ tick[t].pc = "printed"
    /\ SetStatus(tick[t].job, "PRINTED")
    /\ tick' = [tick EXCEPT ![t] = Ready(@.rest)]
    /\ UNCHANGED <<claimedBy, held, attempts, paper, agent, owed, calls, tablet, faults>>

\* That update, or the printer's after it, throws inside the same try.
DirectMarkThrows(t) ==
    /\ tick[t].pc = "printed"
    /\ Fault("db")
    /\ SetStatus(tick[t].job, "PRINTED") \/ UNCHANGED status
    /\ Proceed(t, "failed")
    /\ UNCHANGED <<claimedBy, held, attempts, paper, agent, owed, calls, tablet>>

\* The catch: RETRYING, whatever the attempts and whoever holds the row now.
DirectRetry(t) ==
    /\ tick[t].pc = "failed"
    /\ SetStatus(tick[t].job, "RETRYING")
    /\ attempts' = [attempts EXCEPT ![tick[t].job] = @ + 1]
    /\ tick' = [tick EXCEPT ![t] = Ready(@.rest)]
    /\ UNCHANGED <<claimedBy, held, paper, agent, owed, calls, tablet, faults>>

\* The API process dies, or the catch's own update throws out of the drain.
DirectCrash(t) ==
    /\ tick[t] # Ready({})
    /\ Fault("crash")
    /\ tick' = [tick EXCEPT ![t] = Ready({})]
    /\ UNCHANGED <<row, paper, agent, owed, calls, tablet>>
-----------------------------------------------------------------------------
(* Housekeeping, the operator and the tablet *)

\* promoteRetries, for a row whose nextRetryAt has passed.
PromoteRetry(j) ==
    /\ status[j] = "RETRYING"
    /\ SetStatus(j, "QUEUED")
    /\ UNCHANGED <<claimedBy, held, attempts, paper, agent, owed, calls, tick,
                   tablet, faults>>

\* Somebody is still at work on j; a tick has only read what waits in its list.
Has(r, j) == j \in r.rest \/ (r.pc # "ready" /\ r.job = j)
Busy(j) ==
    \/ \E a \in Agents : Has(agent[a], j)
    \/ \E t \in Ticks : tick[t].pc # "ready" /\ tick[t].job = j
    \/ \E c \in calls : c.job = j

\* Mutant: rows that got as far as PRINTING are not released.
StaleClaimedOnly(j) == status[j] = "CLAIMED" /\ held[j]

Stale(j) == status[j] \in {"CLAIMED", "PRINTING"} /\ held[j]

\* releaseStaleClaims, for a row claimed a minute ago.
ReleaseStale(j) ==
    /\ Stale(j)
    /\ IF Busy(j) THEN Fault("slow") ELSE UNCHANGED faults
    /\ SetStatus(j, "QUEUED")
    /\ claimedBy' = [claimedBy EXCEPT ![j] = Nobody]
    /\ held' = [held EXCEPT ![j] = FALSE]
    /\ UNCHANGED <<attempts, paper, agent, owed, calls, tick, tablet>>

\* Mutant: cleared rows get a status of their own.
ClearQueueCancelled ==
    /\ "operator" \in Parts
    /\ \E j \in Jobs : status[j] \in Active
    /\ status' = [j \in Jobs |-> IF status[j] \in Active THEN "CANCELLED" ELSE status[j]]
    /\ UNCHANGED <<claimedBy, held, attempts, paper, agent, owed, calls, tick,
                   tablet, faults>>

\* clearQueue: the claims stay on the rows.
ClearQueue ==
    /\ "operator" \in Parts
    /\ \E j \in Jobs : status[j] \in Active
    /\ status' = [j \in Jobs |-> IF status[j] \in Active THEN "FAILED" ELSE status[j]]
    /\ UNCHANGED <<claimedBy, held, attempts, paper, agent, owed, calls, tick,
                   tablet, faults>>

\* The tablet prints an order once, off its own feed of live orders, on the
\* printers it drives itself.  js: the jobs whose ticket is then out too; none,
\* when no row was for a printer it reached.
TabletPrint(o, js) ==
    /\ "tablet" \in Parts
    /\ tablet[o].at = "unseen"
    /\ paper' = [j \in Jobs |-> IF j \in js THEN paper[j] + 1 ELSE paper[j]]
    /\ tablet' = [tablet EXCEPT ![o].at = "printed"]
    /\ UNCHANGED <<row, agent, owed, calls, tick, faults>>

\* markOrderPrinted, once anything of the order came out, reads its pending jobs,
\* whichever printer each is for ...
MarkOrderRead(o) ==
    /\ tablet[o].at = "printed"
    /\ tablet' = [tablet EXCEPT ![o] =
                      [at |-> "marked", todo |-> {j \in o : status[j] \in Active}]]
    /\ UNCHANGED <<row, paper, agent, owed, calls, tick, faults>>

\* ... and writes each by id.
MarkOrderWrite(o, j) ==
    /\ tablet[o].at = "marked" /\ j \in tablet[o].todo
    /\ SetStatus(j, "PRINTED")
    /\ tablet' = [tablet EXCEPT ![o].todo = @ \ {j}]
    /\ UNCHANGED <<claimedBy, held, attempts, paper, agent, owed, calls, tick, faults>>
-----------------------------------------------------------------------------
AgentStep(a) ==
    \/ \E js \in SUBSET Jobs : AgentClaim(a, js)
    \/ \E j \in Jobs : AgentStart(a, j)
    \/ AgentPrint(a) \/ AgentPrintThrows(a)
    \/ \E op \in owed[a] : Flush(a, op)

CallStep(c) == Authorise(c) \/ Handle(c)

TickStep(t) ==
    \/ \E js \in SUBSET Jobs : DirectRead(t, js)
    \/ \E j \in Jobs : DirectClaim(t, j)
    \/ DirectPrint(t) \/ DirectPrintThrows(t)
    \/ DirectMark(t) \/ DirectMarkThrows(t) \/ DirectRetry(t)

Housekeeping(j) == PromoteRetry(j) \/ ReleaseStale(j)

Tablet(o) ==
    \/ \E js \in SUBSET o : TabletPrint(o, js)
    \/ MarkOrderRead(o)
    \/ \E j \in o : MarkOrderWrite(o, j)

Next ==
    \/ \E a \in Agents : AgentStep(a) \/ AgentCrash(a)
    \/ \E c \in calls : CallStep(c) \/ Disconnect(c)
    \/ \E t \in Ticks : TickStep(t) \/ DirectCrash(t)
    \/ \E j \in Jobs : Housekeeping(j)
    \/ \E o \in Orders : Tablet(o)
    \/ ClearQueue

Spec == Init /\ [][Next]_vars

\* Agents poll and finish what they hold, the API handles what it received, and
\* housekeeping runs every 30 seconds.
FairSpec ==
    /\ Spec
    /\ \A a \in Agents : WF_vars(AgentStep(a))
    /\ WF_vars(\E c \in calls : CallStep(c))
    /\ \A j \in Jobs : WF_vars(Housekeeping(j))
-----------------------------------------------------------------------------
(* Properties *)

\* The tablet has reported an order of this job as printed.
OrderReported(j) == \E o \in Orders : j \in o /\ tablet[o].at = "marked"

\* A job counts as printed only when its ticket came out of some printer,
\* however late the report and whoever held the row meanwhile (markPrinted,
\* server-direct), or when the tablet reported its order: markOrderPrinted marks
\* every pending job of it, a kitchen ticket that never came out included.
PrintedMeansPaper ==
    \A j \in Jobs : status[j] = "PRINTED" => paper[j] > 0 \/ OrderReported(j)

\* The tablet has printed no order of this job.
Unseen(j) == \A o \in Orders : j \in o => tablet[o].at = "unseen"

\* No ticket is printed twice: two agents racing the same job are safe
\* (print-jobs.service.ts:709), and so is an agent racing the cron
\* (server-direct.cron.ts:103), or the cron itself.
NoDuplicatePaper ==
    \A j \in Jobs :
        (faults.kinds \subseteq {"send"} /\ Unseen(j)) => paper[j] <= 1

\* What the rows tell of a job, and whether more broke than a send.
Standing ==
    [j \in Jobs |-> IF status[j] \in Active THEN "owed"
                   ELSE IF status[j] = "PRINTED" THEN "printed" ELSE "dead"]

Delivery == INSTANCE TicketDelivery
            WITH standing <- Standing, disturbed <- ~(faults.kinds \subseteq {"send"})

\* The agents and the cron deliver tickets as TicketDelivery promises: a job
\* that was marked printed or dead-lettered is over, whatever crashes, and no
\* ticket of it comes out any more (claim, markPrinted, markFailed).
DeliversTickets == Delivery!Spec

\* Dead-lettered rows never auto-retry (schema.prisma:2925).
DeadLetterIsFinal ==
    [][\A j \in Jobs : status[j] = "FAILED" => status'[j] = "FAILED"]_vars

\* A row somebody holds can be taken from them: releaseStaleClaims finds it by
\* its claimedAt, so no crash strands it.
HeldIsReleasable ==
    \A j \in Jobs : status[j] \in {"CLAIMED", "PRINTING"} => held[j]

\* Every job is printed or dead-lettered in the end.
JobSettles ==
    \A j \in Jobs : (status[j] \in Active) ~> (status[j] \in {"PRINTED", "FAILED"})
=============================================================================
