-------------------------- MODULE PrintJobsProofs --------------------------
(***************************************************************************)
(* What holds of PrintJobs for any jobs, agents, ticks and faults.         *)
(***************************************************************************)
EXTENDS PrintJobs, TLAPS

\* The step of the system, one disjunct per action.
LEMMA NextStep ==
    ASSUME Next
    PROVE  \/ \E a \in Agents, js \in SUBSET Jobs : AgentClaim(a, js)
           \/ \E a \in Agents, j \in Jobs : AgentStart(a, j)
           \/ \E a \in Agents : AgentPrint(a) \/ AgentPrintThrows(a) \/ AgentCrash(a)
           \/ \E a \in Agents : \E op \in owed[a] : Flush(a, op)
           \/ \E c \in calls : Authorise(c) \/ Handle(c) \/ Disconnect(c)
           \/ \E t \in Ticks, js \in SUBSET Jobs : DirectRead(t, js)
           \/ \E t \in Ticks, j \in Jobs : DirectClaim(t, j)
           \/ \E t \in Ticks : DirectPrint(t) \/ DirectPrintThrows(t) \/ DirectMark(t)
                               \/ DirectMarkThrows(t) \/ DirectRetry(t) \/ DirectCrash(t)
           \/ \E j \in Jobs : PromoteRetry(j) \/ ReleaseStale(j)
           \/ \E o \in Orders : \E js \in SUBSET o : TabletPrint(o, js)
           \/ \E o \in Orders : MarkOrderRead(o)
           \/ \E o \in Orders : \E j \in o : MarkOrderWrite(o, j)
           \/ ClearQueue
  BY DEF Next, AgentStep, CallStep, TickStep, Housekeeping, Tablet

\* The types, under short names the provers can carry around whole.
AgentStates == [pc : {"ready"}, rest : SUBSET Jobs]
                 \union [pc : {"start", "print", "complete", "fail"},
                         job : Jobs, rest : SUBSET Jobs]
TickStates == [pc : {"ready"}, rest : SUBSET Jobs]
                \union [pc : {"print", "printed", "failed"}, job : Jobs, rest : SUBSET Jobs]
Reports == [kind : {"complete", "fail"}, job : Jobs]
TabletStates == [at : {"unseen", "printed", "marked"}, todo : SUBSET Jobs]
Calls == [kind : Kinds, from : {"loop", "outbox", "nobody"},
          agent : Agents, job : Jobs, seen : Nat \union {Unread}]

RowType ==
    /\ status \in [Jobs -> JobStatuses]
    /\ claimedBy \in [Jobs -> Agents \union {Nobody}]
    /\ held \in [Jobs -> BOOLEAN]
    /\ attempts \in [Jobs -> Nat]
    /\ paper \in [Jobs -> Nat]
    /\ tablet \in [Orders -> TabletStates]
    /\ faults \in FaultLog

AgentType ==
    /\ agent \in [Agents -> AgentStates]
    /\ owed \in [Agents -> SUBSET Reports]
    /\ calls \subseteq Calls

TickType == tick \in [Ticks -> TickStates]

LEMMA TypeParts == TypeOK <=> RowType /\ AgentType /\ TickType
  BY DEF TypeOK, RowType, AgentType, TickType, AgentStates, TickStates, TabletStates,
     Reports, Calls

LEMMA TypePartsNext == TypeOK' <=> RowType' /\ AgentType' /\ TickType'
  BY DEF TypeOK, RowType, AgentType, TickType, AgentStates, TickStates, TabletStates,
     Reports, Calls

LEMMA FaultType == ASSUME NEW f, faults \in FaultLog, Fault(f) PROVE faults' \in FaultLog
  BY FaultsAssumption DEF Fault, FaultLog

\* A record of an agent's state.
LEMMA AgentRecords ==
    /\ \A js \in SUBSET Jobs : Ready(js) \in AgentStates
    /\ \A pc \in {"start", "print", "complete", "fail"}, j \in Jobs, js \in SUBSET Jobs :
           At(pc, j, js) \in AgentStates
    /\ \A s \in AgentStates : s.rest \in SUBSET Jobs
    /\ \A s \in AgentStates : s.pc # "ready" => s.job \in Jobs
    /\ \A s \in AgentStates : \A js \in SUBSET Jobs :
           s = Ready(js) => s.pc = "ready"
  BY DEF AgentStates, Ready, At

LEMMA TickRecords ==
    /\ \A js \in SUBSET Jobs : Ready(js) \in TickStates
    /\ \A j \in Jobs, js \in SUBSET Jobs : At("print", j, js) \in TickStates
    /\ \A s \in TickStates : s.rest \in SUBSET Jobs
    /\ \A s \in TickStates : s.pc # "ready" => s.job \in Jobs
    /\ \A s \in TickStates, pc \in {"print", "printed", "failed"} :
           s.pc # "ready" => [s EXCEPT !.pc = pc] \in TickStates
  BY DEF TickStates, Ready, At

LEMMA TabletRecords ==
    /\ [at |-> "unseen", todo |-> {}] \in TabletStates
    /\ \A at \in {"printed", "marked"}, js \in SUBSET Jobs :
           [at |-> at, todo |-> js] \in TabletStates
    /\ \A s \in TabletStates : [s EXCEPT !.at = "printed"] \in TabletStates
    /\ \A s \in TabletStates, j \in Jobs : [s EXCEPT !.todo = s.todo \ {j}] \in TabletStates
    /\ \A o \in Orders : o \in SUBSET Jobs
  BY OrdersAssumption DEF TabletStates

LEMMA CallRecords ==
    /\ \A k \in Kinds, f \in {"loop", "outbox", "nobody"}, a \in Agents, j \in Jobs :
           Call(k, f, a, j) \in Calls
    /\ \A c \in Calls : [c EXCEPT !.from = "nobody"] \in Calls
    /\ \A c \in Calls, n \in Nat : [c EXCEPT !.seen = n] \in Calls
    /\ \A c \in Calls : /\ c.agent \in Agents /\ c.job \in Jobs /\ c.kind \in Kinds
                        /\ c.seen # Unread => c.seen \in Nat
    /\ \A c \in Calls : c.kind # "start" => [kind |-> c.kind, job |-> c.job] \in Reports
  BY DEF Calls, Call, Kinds, Reports, Unread

LEMMA AskType ==
    ASSUME NEW a \in Agents, NEW kind \in Kinds, NEW j \in Jobs, AgentType, Ask(a, kind, j)
    PROVE  agent' \in [Agents -> AgentStates] /\ calls' \subseteq Calls
  <1>1. agent[a].rest \ {j} \in SUBSET Jobs BY AgentRecords DEF AgentType
  <1>2. At(kind, j, agent[a].rest \ {j}) \in AgentStates BY <1>1, AgentRecords DEF Kinds
  <1>3. agent' \in [Agents -> AgentStates] BY <1>2 DEF Ask, AgentType
  <1>4. Call(kind, "loop", a, j) \in Calls BY CallRecords
  <1> QED BY <1>3, <1>4 DEF Ask, AgentType

LEMMA AnswerType ==
    ASSUME NEW c \in Calls, NEW ok \in BOOLEAN, AgentType, Answer(c, ok)
    PROVE  agent' \in [Agents -> AgentStates] /\ owed' \in [Agents -> SUBSET Reports]
  <1>1. c.agent \in Agents /\ c.job \in Jobs BY CallRecords
  <1>2. agent[c.agent].rest \in SUBSET Jobs BY <1>1, AgentRecords DEF AgentType
  <1>3. /\ At("print", c.job, agent[c.agent].rest) \in AgentStates
        /\ Ready(agent[c.agent].rest) \in AgentStates
    BY <1>1, <1>2, AgentRecords
  <1>4. agent' \in [Agents -> AgentStates] BY <1>3 DEF Answer, AgentType
  <1>5. CASE c.from = "outbox" /\ ok
    BY <1>4, <1>5 DEF Answer, AgentType, Settle
  <1>6. CASE c.from = "loop" /\ ~ok /\ c.kind # "start"
    <2>1. [kind |-> c.kind, job |-> c.job] \in Reports BY <1>6, CallRecords
    <2>2. owed' = Owe(c) BY <1>6 DEF Answer
    <2>3. owed' \in [Agents -> SUBSET Reports] BY <2>1, <2>2 DEF Owe, AgentType
    <2> QED BY <1>4, <2>3
  <1>7. CASE ~(c.from = "outbox" /\ ok) /\ ~(c.from = "loop" /\ ~ok /\ c.kind # "start")
    BY <1>4, <1>7 DEF Answer, AgentType
  <1> QED BY <1>5, <1>6, <1>7
-----------------------------------------------------------------------------
(* Type correctness: one lemma per part of the system *)

LEMMA AgentTypeStep ==
    ASSUME TypeOK, NEW a \in Agents,
           \/ \E js \in SUBSET Jobs : AgentClaim(a, js)
           \/ \E j \in Jobs : AgentStart(a, j)
           \/ AgentPrint(a) \/ AgentPrintThrows(a) \/ AgentCrash(a)
           \/ \E op \in owed[a] : Flush(a, op)
    PROVE  TypeOK'
  <1> USE TypeParts, TypePartsNext DEF RowType, TickType
  <1>0. faults \in FaultLog /\ AgentType OBVIOUS
  <1>1. ASSUME NEW js \in SUBSET Jobs, AgentClaim(a, js) PROVE TypeOK'
    <2>1. RowType'
      <3>1. faults' \in FaultLog BY <1>1, FaultType DEF AgentClaim
      <3> QED BY <3>1, <1>1 DEF AgentClaim, Take, JobStatuses
    <2>2. AgentType'
      <3>1. Ready(js) \in AgentStates BY AgentRecords
      <3>2. agent' \in [Agents -> AgentStates] BY <3>1, <1>1 DEF AgentClaim, AgentType
      <3> QED BY <3>2, <1>1 DEF AgentClaim, AgentType
    <2>3. TickType' BY <1>1 DEF AgentClaim
    <2> QED BY <2>1, <2>2, <2>3
  <1>2. ASSUME NEW j \in Jobs, AgentStart(a, j) PROVE TypeOK'
    <2>1. RowType' BY <1>2 DEF AgentStart, row
    <2>2. AgentType' BY <1>0, <1>2, AskType DEF AgentStart, AgentType, Kinds
    <2>3. TickType' BY <1>2 DEF AgentStart
    <2> QED BY <2>1, <2>2, <2>3
  <1>3. ASSUME AgentPrint(a) PROVE TypeOK'
    <2>0. agent[a].job \in Jobs BY <1>0, <1>3, AgentRecords DEF AgentPrint, AgentType
    <2>1. RowType' BY <1>3, <2>0 DEF AgentPrint, Comes, row
    <2>2. Ask(a, "complete", agent[a].job) BY <1>3 DEF AgentPrint
    <2>3. AgentType' BY <1>0, <1>3, <2>0, <2>2, AskType DEF AgentPrint, AgentType, Kinds
    <2>4. TickType' BY <1>3 DEF AgentPrint
    <2> QED BY <2>1, <2>3, <2>4
  <1>4. ASSUME AgentPrintThrows(a) PROVE TypeOK'
    <2>0. agent[a].job \in Jobs BY <1>0, <1>4, AgentRecords DEF AgentPrintThrows, AgentType
    <2>1. faults' \in FaultLog BY <1>4, FaultType DEF AgentPrintThrows
    <2>2. RowType' BY <1>4, <2>0, <2>1 DEF AgentPrintThrows, Comes, row
    <2>3. Ask(a, "fail", agent[a].job) BY <1>4 DEF AgentPrintThrows
    <2>4. AgentType' BY <1>0, <1>4, <2>0, <2>3, AskType DEF AgentPrintThrows, AgentType, Kinds
    <2>5. TickType' BY <1>4 DEF AgentPrintThrows
    <2> QED BY <2>2, <2>4, <2>5
  <1>5. ASSUME AgentCrash(a) PROVE TypeOK'
    <2>1. faults' \in FaultLog BY <1>5, FaultType DEF AgentCrash
    <2>2. RowType' BY <1>5, <2>1 DEF AgentCrash, row
    <2>3. calls' \subseteq Calls BY <1>0, <1>5, CallRecords DEF AgentCrash, AgentType
    <2>4. agent' \in [Agents -> AgentStates] BY <1>0, <1>5, AgentRecords DEF AgentCrash, AgentType
    <2>5. AgentType' BY <1>0, <1>5, <2>3, <2>4 DEF AgentCrash, AgentType
    <2>6. TickType' BY <1>5 DEF AgentCrash
    <2> QED BY <2>2, <2>5, <2>6
  <1>6. ASSUME NEW op \in owed[a], Flush(a, op) PROVE TypeOK'
    <2>1. RowType' BY <1>6 DEF Flush, row
    <2>2. op.kind \in Kinds /\ op.job \in Jobs BY <1>0 DEF AgentType, Reports, Kinds
    <2>3. Call(op.kind, "outbox", a, op.job) \in Calls BY <2>2, CallRecords
    <2>4. AgentType' BY <1>0, <1>6, <2>3 DEF Flush, AgentType
    <2>5. TickType' BY <1>6 DEF Flush
    <2> QED BY <2>1, <2>4, <2>5
  <1> QED BY <1>1, <1>2, <1>3, <1>4, <1>5, <1>6

LEMMA CallTypeStep ==
    ASSUME TypeOK, NEW c \in calls, Authorise(c) \/ Handle(c) \/ Disconnect(c)
    PROVE  TypeOK'
  <1> USE TypeParts, TypePartsNext DEF RowType, TickType
  <1>0. /\ faults \in FaultLog /\ AgentType /\ c \in Calls
        /\ c.agent \in Agents /\ c.job \in Jobs
    BY CallRecords DEF AgentType
  <1>1. ASSUME Authorise(c) PROVE TypeOK'
    <2>1. RowType' BY <1>1 DEF Authorise, row
    <2>2. TickType' BY <1>1 DEF Authorise
    <2>3. CASE claimedBy[c.job] = c.agent
      <3>1. [c EXCEPT !.seen = attempts[c.job]] \in Calls BY <1>0, CallRecords
      <3>2. AgentType' BY <1>0, <1>1, <2>3, <3>1 DEF Authorise, AgentType
      <3> QED BY <2>1, <2>2, <3>2
    <2>4. CASE claimedBy[c.job] # c.agent
      <3>1. calls' = calls \ {c} /\ Answer(c, FALSE) BY <1>1, <2>4 DEF Authorise
      <3>2. AgentType' BY <1>0, <3>1, AnswerType DEF AgentType
      <3> QED BY <2>1, <2>2, <3>2
    <2> QED BY <2>3, <2>4
  <1>2. ASSUME Handle(c) PROVE TypeOK'
    <2>1. c.seen \in Nat BY <1>0, <1>2, CallRecords DEF Handle
    <2>2. RowType'
      <3>1. UNCHANGED <<paper, tablet, faults>> BY <1>2 DEF Handle
      <3>2. CASE c.kind = "fail" /\ MarkFailed(c.job, c.seen + 1)
        <4>1. c.seen + 1 \in Nat BY <2>1
        <4> QED BY <1>0, <3>1, <3>2, <4>1 DEF MarkFailed, SetStatus, JobStatuses
      <3>3. CASE \E s \in JobStatuses : SetStatus(c.job, s)
                 /\ UNCHANGED <<claimedBy, held, attempts>>
        BY <1>0, <3>1, <3>3 DEF SetStatus
      <3> QED BY <1>2, <3>2, <3>3 DEF Handle, JobStatuses
    <2>3. AgentType' BY <1>0, <1>2, AnswerType DEF Handle, AgentType
    <2>4. TickType' BY <1>2 DEF Handle
    <2> QED BY <2>2, <2>3, <2>4
  <1>3. ASSUME Disconnect(c) PROVE TypeOK'
    <2>1. faults' \in FaultLog BY <1>3, FaultType DEF Disconnect
    <2>2. RowType' BY <1>3, <2>1 DEF Disconnect, row
    <2>3. TickType' BY <1>3 DEF Disconnect
    <2>4. PICK left \in {{}, {[c EXCEPT !.from = "nobody"]}} :
             IF c.from = "loop" /\ c.kind = "start"
             THEN /\ agent' = [agent EXCEPT ![c.agent] = At("fail", c.job, @.rest)]
                  /\ calls' = (calls \ {c}) \union left
                                \union {Call("fail", "loop", c.agent, c.job)}
                  /\ UNCHANGED owed
             ELSE calls' = (calls \ {c}) \union left /\ Answer(c, FALSE)
      BY <1>3, Zenon DEF Disconnect
    <2>5. left \subseteq Calls BY <1>0, CallRecords
    <2>6. CASE c.from = "loop" /\ c.kind = "start"
      <3>1. At("fail", c.job, agent[c.agent].rest) \in AgentStates
        BY <1>0, AgentRecords DEF AgentType
      <3>2. Call("fail", "loop", c.agent, c.job) \in Calls BY <1>0, CallRecords DEF Kinds
      <3>3. AgentType' BY <1>0, <2>4, <2>5, <2>6, <3>1, <3>2 DEF AgentType
      <3> QED BY <2>2, <2>3, <3>3
    <2>7. CASE ~(c.from = "loop" /\ c.kind = "start")
      <3>1. calls' = (calls \ {c}) \union left /\ Answer(c, FALSE) BY <2>4, <2>7
      <3>2. AgentType' BY <1>0, <2>5, <3>1, AnswerType DEF AgentType
      <3> QED BY <2>2, <2>3, <3>2
    <2> QED BY <2>6, <2>7
  <1> QED BY <1>1, <1>2, <1>3

LEMMA DirectTypeStep ==
    ASSUME TypeOK, NEW t \in Ticks,
           \/ \E js \in SUBSET Jobs : DirectRead(t, js)
           \/ \E j \in Jobs : DirectClaim(t, j)
           \/ DirectPrint(t) \/ DirectPrintThrows(t) \/ DirectMark(t)
           \/ DirectMarkThrows(t) \/ DirectRetry(t) \/ DirectCrash(t)
    PROVE  TypeOK'
  <1> USE TypeParts, TypePartsNext, TickRecords DEF RowType, TickType, AgentType
  <1>0. faults \in FaultLog /\ tick[t] \in TickStates /\ tick[t].rest \in SUBSET Jobs OBVIOUS
  <1>1. ASSUME NEW js \in SUBSET Jobs, DirectRead(t, js) PROVE TypeOK'
    BY <1>1 DEF DirectRead, row
  <1>2. ASSUME NEW j \in Jobs, DirectClaim(t, j) PROVE TypeOK'
    <2>1. /\ At("print", j, tick[t].rest \ {j}) \in TickStates
          /\ Ready(tick[t].rest \ {j}) \in TickStates
      BY <1>0
    <2>2. TickType' BY <1>2, <2>1 DEF DirectClaim
    <2>3. RowType' /\ AgentType' BY <1>2 DEF DirectClaim, SetStatus, JobStatuses
    <2> QED BY <2>2, <2>3
  <1>3. ASSUME tick[t].pc # "ready", NEW pc \in {"printed", "failed"}, Proceed(t, pc)
        PROVE  TickType'
    <2>1. [tick[t] EXCEPT !.pc = pc] \in TickStates BY <1>0, <1>3
    <2> QED BY <1>3, <2>1 DEF Proceed
  <1>4. ASSUME DirectPrint(t) PROVE TypeOK'
    <2>1. tick[t].job \in Jobs BY <1>0, <1>4 DEF DirectPrint
    <2>2. RowType' /\ AgentType' BY <1>4, <2>1 DEF DirectPrint, Comes, row
    <2> QED BY <1>3, <1>4, <2>2 DEF DirectPrint
  <1>5. ASSUME DirectPrintThrows(t) PROVE TypeOK'
    <2>1. tick[t].job \in Jobs BY <1>0, <1>5 DEF DirectPrintThrows
    <2>2. faults' \in FaultLog BY <1>5, FaultType DEF DirectPrintThrows
    <2>3. RowType' /\ AgentType' BY <1>5, <2>1, <2>2 DEF DirectPrintThrows, Comes, row
    <2> QED BY <1>3, <1>5, <2>3 DEF DirectPrintThrows
  <1>6. ASSUME DirectMark(t) PROVE TypeOK'
    <2>1. RowType' /\ AgentType' BY <1>6 DEF DirectMark, SetStatus, JobStatuses
    <2>2. TickType' BY <1>0, <1>6 DEF DirectMark
    <2> QED BY <2>1, <2>2
  <1>7. ASSUME DirectMarkThrows(t) PROVE TypeOK'
    <2>1. faults' \in FaultLog BY <1>7, FaultType DEF DirectMarkThrows
    <2>2. RowType' /\ AgentType'
      BY <1>7, <2>1 DEF DirectMarkThrows, SetStatus, JobStatuses
    <2> QED BY <1>3, <1>7, <2>2 DEF DirectMarkThrows
  <1>8. ASSUME DirectRetry(t) PROVE TypeOK'
    <2>1. RowType' /\ AgentType' BY <1>8 DEF DirectRetry, SetStatus, JobStatuses
    <2>2. TickType' BY <1>0, <1>8 DEF DirectRetry
    <2> QED BY <2>1, <2>2
  <1>9. ASSUME DirectCrash(t) PROVE TypeOK'
    <2>1. faults' \in FaultLog BY <1>9, FaultType DEF DirectCrash
    <2>2. RowType' /\ AgentType' /\ TickType' BY <1>9, <2>1 DEF DirectCrash, row
    <2> QED BY <2>2
  <1> QED BY <1>1, <1>2, <1>4, <1>5, <1>6, <1>7, <1>8, <1>9

LEMMA OutsideTypeStep ==
    ASSUME TypeOK,
           \/ ClearQueue
           \/ \E j \in Jobs : PromoteRetry(j) \/ ReleaseStale(j)
           \/ \E o \in Orders : \E js \in SUBSET o : TabletPrint(o, js)
           \/ \E o \in Orders : MarkOrderRead(o)
           \/ \E o \in Orders : \E j \in o : MarkOrderWrite(o, j)
    PROVE  TypeOK'
  <1> USE TypeParts, TypePartsNext DEF RowType, TickType, AgentType
  <1>0. faults \in FaultLog OBVIOUS
  <1>1. ASSUME ClearQueue PROVE TypeOK' BY <1>1 DEF ClearQueue, JobStatuses
  <1>2. ASSUME NEW j \in Jobs, PromoteRetry(j) PROVE TypeOK'
    BY <1>2 DEF PromoteRetry, SetStatus, JobStatuses
  <1>3. ASSUME NEW j \in Jobs, ReleaseStale(j) PROVE TypeOK'
    <2>1. faults' \in FaultLog BY <1>0, <1>3, FaultType DEF ReleaseStale
    <2> QED BY <1>3, <2>1 DEF ReleaseStale, SetStatus, JobStatuses
  <1>4. ASSUME NEW o \in Orders, NEW js \in SUBSET o, TabletPrint(o, js) PROVE TypeOK'
    <2>1. tablet' \in [Orders -> TabletStates] BY <1>4, TabletRecords DEF TabletPrint
    <2>2. paper' \in [Jobs -> Nat] BY <1>4 DEF TabletPrint
    <2> QED BY <1>4, <2>1, <2>2 DEF TabletPrint, row
  <1>5. ASSUME NEW o \in Orders, MarkOrderRead(o) PROVE TypeOK'
    <2>1. {j \in o : status[j] \in Active} \in SUBSET Jobs BY TabletRecords
    <2>2. tablet' \in [Orders -> TabletStates] BY <1>5, <2>1, TabletRecords DEF MarkOrderRead
    <2> QED BY <1>5, <2>2 DEF MarkOrderRead, row
  <1>6. ASSUME NEW o \in Orders, NEW j \in o, MarkOrderWrite(o, j) PROVE TypeOK'
    <2>1. j \in Jobs BY TabletRecords
    <2>2. [tablet[o] EXCEPT !.todo = tablet[o].todo \ {j}] \in TabletStates
      BY <2>1, TabletRecords
    <2>3. tablet' \in [Orders -> TabletStates] BY <1>6, <2>2 DEF MarkOrderWrite
    <2> QED BY <1>6, <2>1, <2>3 DEF MarkOrderWrite, SetStatus, JobStatuses
  <1> QED BY <1>1, <1>2, <1>3, <1>4, <1>5, <1>6

LEMMA TypeStep == ASSUME TypeOK, [Next]_vars PROVE TypeOK'
  <1>1. CASE Next
    BY <1>1, NextStep, AgentTypeStep, CallTypeStep, DirectTypeStep, OutsideTypeStep
  <1>2. CASE UNCHANGED vars BY <1>2 DEF vars, TypeOK
  <1> QED BY <1>1, <1>2

LEMMA TypeInit == ASSUME Init PROVE TypeOK
  <1>1. Ready({}) \in AgentStates /\ Ready({}) \in TickStates
    BY AgentRecords, TickRecords
  <1> QED BY <1>1, TypeParts, TabletRecords
         DEF Init, RowType, AgentType, TickType, JobStatuses, FaultLog

\* The types of the rows, the agents, their outboxes and the calls hold in every
\* reachable state, for any number of them and any faults.
THEOREM PrintTypeCorrect == Spec => []TypeOK
  BY TypeInit, TypeStep, PTL DEF Spec
-----------------------------------------------------------------------------
(* A job that counts as printed has come out on paper, or the tablet reported  *)
(* its order.  The report of a job may be in a call, in an agent's outbox or   *)
(* in the cron, and reach the row long after the row was given to somebody     *)
(* else: the invariant says that each of them is carried by somebody who saw   *)
(* the paper, and that the tablet writes rows of an order it reported.         *)

ReportsPrinted == \A c \in calls : c.kind = "complete" => paper[c.job] > 0
OwedPrinted == \A a \in Agents : \A op \in owed[a] : op.kind = "complete" => paper[op.job] > 0
TicksPrinted == \A t \in Ticks : tick[t].pc = "printed" => paper[tick[t].job] > 0
TabletReports ==
    \A o \in Orders : tablet[o].at = "marked" => tablet[o].todo \subseteq o
PrintedInv == /\ PrintedMeansPaper /\ ReportsPrinted /\ OwedPrinted
              /\ TicksPrinted /\ TabletReports

\* Paper does not go back into the printer.
LEMMA PaperGrows ==
    ASSUME TypeOK, [Next]_vars
    PROVE  \A j \in Jobs : paper[j] \in Nat /\ paper'[j] >= paper[j]
  <1>0. paper \in [Jobs -> Nat] BY DEF TypeOK
  <1>1. CASE paper' = paper BY <1>0, <1>1
  <1>2. ASSUME NEW j, Comes(j) PROVE \A k \in Jobs : paper'[k] >= paper[k]
    BY <1>0, <1>2 DEF Comes
  <1>3. \/ paper' = paper \/ \E j : Comes(j)
        \/ \E js : paper' = [j \in Jobs |-> IF j \in js THEN paper[j] + 1 ELSE paper[j]]
    <2>1. CASE Next
      BY <2>1, NextStep DEF AgentClaim, AgentStart, AgentPrint, AgentPrintThrows,
         AgentCrash, Flush, Authorise, Handle, Disconnect, DirectRead, DirectClaim,
         DirectPrint, DirectPrintThrows, DirectMark, DirectMarkThrows, DirectRetry,
         DirectCrash, PromoteRetry, ReleaseStale, TabletPrint, MarkOrderRead,
         MarkOrderWrite, ClearQueue
    <2>2. CASE UNCHANGED vars BY <2>2 DEF vars
    <2> QED BY <2>1, <2>2
  <1>4. ASSUME NEW js, paper' = [j \in Jobs |-> IF j \in js THEN paper[j] + 1 ELSE paper[j]]
        PROVE  \A k \in Jobs : paper'[k] >= paper[k]
    BY <1>0, <1>4
  <1> QED BY <1>0, <1>1, <1>2, <1>3, <1>4

\* Who can make a row PRINTED: only somebody with a printed report in hand, or
\* the tablet, for an order it reported.
LEMMA WhoPrinted ==
    ASSUME TypeOK, Next, NEW j \in Jobs, status'[j] = "PRINTED", status[j] # "PRINTED"
    PROVE  \/ \E c \in calls : c.kind = "complete" /\ c.job = j
           \/ \E t \in Ticks : tick[t].pc = "printed" /\ tick[t].job = j
           \/ \E o \in Orders : tablet[o].at = "marked" /\ j \in tablet[o].todo
  <1>0. status \in [Jobs -> JobStatuses] BY DEF TypeOK
  <1>1. ASSUME NEW a \in Agents, NEW js \in SUBSET Jobs, AgentClaim(a, js) PROVE FALSE
    BY <1>0, <1>1 DEF AgentClaim, Take
  <1>2. ASSUME NEW c \in calls, Handle(c) PROVE c.kind = "complete" /\ c.job = j
    BY <1>0, <1>2 DEF Handle, MarkFailed, SetStatus
  <1>3. ASSUME NEW t \in Ticks, NEW k \in Jobs, DirectClaim(t, k) PROVE FALSE
    BY <1>0, <1>3 DEF DirectClaim, SetStatus
  <1>4. ASSUME NEW t \in Ticks, DirectMark(t) \/ DirectMarkThrows(t)
        PROVE  tick[t].pc = "printed" /\ tick[t].job = j
    BY <1>0, <1>4 DEF DirectMark, DirectMarkThrows, SetStatus
  <1>5. ASSUME NEW t \in Ticks, DirectRetry(t) PROVE FALSE
    BY <1>0, <1>5 DEF DirectRetry, SetStatus
  <1>6. ASSUME NEW k \in Jobs, PromoteRetry(k) \/ ReleaseStale(k) PROVE FALSE
    BY <1>0, <1>6 DEF PromoteRetry, ReleaseStale, SetStatus
  <1>7. ASSUME NEW o \in Orders, NEW k \in o, MarkOrderWrite(o, k)
        PROVE  tablet[o].at = "marked" /\ j \in tablet[o].todo
    BY <1>0, <1>7 DEF MarkOrderWrite, SetStatus
  <1>8. ASSUME ClearQueue PROVE FALSE BY <1>0, <1>8 DEF ClearQueue
  <1>9. \/ \E a \in Agents, js \in SUBSET Jobs : AgentClaim(a, js)
        \/ \E c \in calls : Handle(c)
        \/ \E t \in Ticks, k \in Jobs : DirectClaim(t, k)
        \/ \E t \in Ticks : DirectMark(t) \/ DirectMarkThrows(t) \/ DirectRetry(t)
        \/ \E k \in Jobs : PromoteRetry(k) \/ ReleaseStale(k)
        \/ \E o \in Orders : \E k \in o : MarkOrderWrite(o, k)
        \/ ClearQueue
    BY NextStep DEF AgentStart, AgentPrint, AgentPrintThrows, AgentCrash, Flush,
       Authorise, Disconnect, DirectRead, DirectPrint, DirectPrintThrows, DirectCrash,
       TabletPrint, MarkOrderRead, row
  <1> QED BY <1>1, <1>2, <1>3, <1>4, <1>5, <1>6, <1>7, <1>8, <1>9

\* A complete is sent after printing, or replayed from the outbox.
LEMMA WhoReports ==
    ASSUME TypeOK, Next, NEW c \in calls', c.kind = "complete"
    PROVE  \/ \E d \in calls : d.kind = "complete" /\ d.job = c.job
           \/ \E a \in Agents : \E op \in owed[a] : op.kind = "complete" /\ op.job = c.job
           \/ c.job \in Jobs /\ Comes(c.job)
  <1>0. AgentType BY TypeParts
  <1>1. ASSUME NEW a \in Agents, NEW j \in Jobs, AgentStart(a, j) PROVE c \in calls
    BY <1>1 DEF AgentStart, Ask, Call
  <1>2. ASSUME NEW a \in Agents, AgentPrint(a)
        PROVE  c \in calls \/ (c.job \in Jobs /\ Comes(c.job))
    <2>1. agent[a].job \in Jobs BY <1>0, <1>2, AgentRecords DEF AgentPrint, AgentType
    <2> QED BY <1>2, <2>1 DEF AgentPrint, Ask, Call
  <1>3. ASSUME NEW a \in Agents, AgentPrintThrows(a) PROVE c \in calls
    BY <1>3 DEF AgentPrintThrows, Ask, Call
  <1>4. ASSUME NEW a \in Agents, AgentCrash(a)
        PROVE  \E d \in calls : d.kind = "complete" /\ d.job = c.job
    <2>1. PICK d \in calls : c = IF d.agent = a THEN [d EXCEPT !.from = "nobody"] ELSE d
      BY <1>4 DEF AgentCrash
    <2>2. d \in Calls BY <1>0 DEF AgentType
    <2>3. c.kind = d.kind /\ c.job = d.job BY <2>1, <2>2 DEF Calls
    <2> QED BY <2>3
  <1>5. ASSUME NEW a \in Agents, NEW op \in owed[a], Flush(a, op)
        PROVE  c \in calls \/ (op.kind = "complete" /\ op.job = c.job)
    BY <1>5 DEF Flush, Call
  <1>6. ASSUME NEW d \in calls, Authorise(d)
        PROVE  \E e \in calls : e.kind = "complete" /\ e.job = c.job
    <2>1. d \in Calls BY <1>0 DEF AgentType
    <2>2. c \in calls \/ c = [d EXCEPT !.seen = attempts[d.job]] BY <1>6 DEF Authorise
    <2>3. CASE c = [d EXCEPT !.seen = attempts[d.job]]
      <3>1. c.kind = d.kind /\ c.job = d.job BY <2>1, <2>3 DEF Calls
      <3> QED BY <3>1
    <2> QED BY <2>2, <2>3
  <1>7. ASSUME NEW d \in calls, Handle(d) PROVE c \in calls BY <1>7 DEF Handle
  <1>8. ASSUME NEW d \in calls, Disconnect(d)
        PROVE  \E e \in calls : e.kind = "complete" /\ e.job = c.job
    <2>1. d \in Calls BY <1>0 DEF AgentType
    <2>2. \/ c \in calls \/ c = [d EXCEPT !.from = "nobody"]
          \/ c = Call("fail", "loop", d.agent, d.job)
      <3>1. PICK left \in {{}, {[d EXCEPT !.from = "nobody"]}} :
               \/ calls' = (calls \ {d}) \union left
               \/ calls' = (calls \ {d}) \union left
                              \union {Call("fail", "loop", d.agent, d.job)}
        BY <1>8, Zenon DEF Disconnect
      <3> QED BY <3>1
    <2>3. CASE c = [d EXCEPT !.from = "nobody"]
      <3>1. c.kind = d.kind /\ c.job = d.job BY <2>1, <2>3 DEF Calls
      <3> QED BY <3>1
    <2> QED BY <2>2, <2>3 DEF Call
  <1>9. CASE UNCHANGED calls BY <1>9
  <1>10. \/ UNCHANGED calls
         \/ \E a \in Agents, j \in Jobs : AgentStart(a, j)
         \/ \E a \in Agents : AgentPrint(a) \/ AgentPrintThrows(a) \/ AgentCrash(a)
         \/ \E a \in Agents : \E op \in owed[a] : Flush(a, op)
         \/ \E d \in calls : Authorise(d) \/ Handle(d) \/ Disconnect(d)
    BY NextStep DEF AgentClaim, DirectRead, DirectClaim, DirectPrint, DirectPrintThrows,
       DirectMark, DirectMarkThrows, DirectRetry, DirectCrash, PromoteRetry,
       ReleaseStale, TabletPrint, MarkOrderRead, MarkOrderWrite, ClearQueue
  <1> QED BY <1>1, <1>2, <1>3, <1>4, <1>5, <1>6, <1>7, <1>8, <1>9, <1>10

\* A report goes into the outbox when its call was not taken.
LEMMA WhoOwes ==
    ASSUME TypeOK, Next, NEW a \in Agents, NEW op \in owed'[a], op.kind = "complete"
    PROVE  op \in owed[a] \/ \E c \in calls : c.kind = "complete" /\ c.job = op.job
  <1>0. AgentType BY TypeParts
  <1>1. ASSUME NEW c \in calls, NEW ok \in BOOLEAN, Answer(c, ok)
        PROVE  op \in owed[a] \/ (c.kind = "complete" /\ c.job = op.job)
    <2>1. c.agent \in Agents BY <1>0, CallRecords DEF AgentType
    <2>2. owed' \in {Settle(c), Owe(c), owed} BY <1>1 DEF Answer
    <2>3. CASE owed' = Settle(c) BY <1>0, <2>1, <2>3 DEF Settle, AgentType
    <2>4. CASE owed' = Owe(c) BY <1>0, <2>1, <2>4 DEF Owe, AgentType
    <2>5. CASE owed' = owed BY <2>5
    <2> QED BY <2>2, <2>3, <2>4, <2>5
  <1>2. UNCHANGED owed \/ \E c \in calls : \E ok \in BOOLEAN : Answer(c, ok)
    <2>1. ASSUME NEW c \in calls, Authorise(c) PROVE UNCHANGED owed \/ Answer(c, FALSE)
      BY <2>1 DEF Authorise
    <2>2. ASSUME NEW c \in calls, Handle(c) PROVE Answer(c, TRUE) BY <2>2 DEF Handle
    <2>3. ASSUME NEW c \in calls, Disconnect(c) PROVE UNCHANGED owed \/ Answer(c, FALSE)
      BY <2>3, Zenon DEF Disconnect
    <2>4. UNCHANGED owed \/ \E c \in calls : Authorise(c) \/ Handle(c) \/ Disconnect(c)
      BY NextStep DEF AgentClaim, AgentStart, AgentPrint, AgentPrintThrows, AgentCrash,
         Flush, DirectRead, DirectClaim, DirectPrint, DirectPrintThrows, DirectMark,
         DirectMarkThrows, DirectRetry, DirectCrash, PromoteRetry, ReleaseStale,
         TabletPrint, MarkOrderRead, MarkOrderWrite, ClearQueue
    <2> QED BY <2>1, <2>2, <2>3, <2>4
  <1> QED BY <1>1, <1>2

LEMMA WhoTicked ==
    ASSUME TypeOK, Next, NEW t \in Ticks, tick'[t].pc = "printed"
    PROVE  \/ tick[t].pc = "printed" /\ tick[t].job = tick'[t].job
           \/ tick'[t].job \in Jobs /\ Comes(tick'[t].job)
  <1>0. tick \in [Ticks -> TickStates] BY TypeParts DEF TickType
  <1>1. CASE UNCHANGED tick BY <1>1
  <1>2. ASSUME NEW u \in Ticks,
               \/ \E js \in SUBSET Jobs : DirectRead(u, js)
               \/ DirectMark(u) \/ DirectRetry(u) \/ DirectCrash(u)
        PROVE  tick'[t] = tick[t]
    BY <1>0, <1>2 DEF DirectRead, DirectMark, DirectRetry, DirectCrash, Ready
  <1>3. ASSUME NEW u \in Ticks, NEW j \in Jobs, DirectClaim(u, j) PROVE tick'[t] = tick[t]
    BY <1>0, <1>3 DEF DirectClaim, Ready, At
  <1>4. ASSUME NEW u \in Ticks, NEW pc, u # t, Proceed(u, pc) PROVE tick'[t] = tick[t]
    BY <1>0, <1>4 DEF Proceed
  <1>5. ASSUME NEW u \in Ticks, DirectPrintThrows(u) \/ DirectMarkThrows(u)
        PROVE  tick'[t] = tick[t]
    <2>1. Proceed(u, "failed") /\ tick[u].pc # "ready"
      BY <1>5 DEF DirectPrintThrows, DirectMarkThrows
    <2>2. CASE u = t BY <1>0, <2>1, <2>2 DEF Proceed, TickStates
    <2> QED BY <1>4, <2>1, <2>2
  <1>6. ASSUME DirectPrint(t) PROVE tick'[t].job \in Jobs /\ Comes(tick'[t].job)
    <2>1. tick[t].job \in Jobs BY <1>0, <1>6, TickRecords DEF DirectPrint
    <2>2. tick'[t].job = tick[t].job BY <1>0, <1>6 DEF DirectPrint, Proceed, TickStates
    <2> QED BY <1>6, <2>1, <2>2 DEF DirectPrint
  <1>7. \/ UNCHANGED tick
        \/ \E u \in Ticks, js \in SUBSET Jobs : DirectRead(u, js)
        \/ \E u \in Ticks, j \in Jobs : DirectClaim(u, j)
        \/ \E u \in Ticks : DirectPrint(u) \/ DirectPrintThrows(u) \/ DirectMark(u)
                            \/ DirectMarkThrows(u) \/ DirectRetry(u) \/ DirectCrash(u)
    BY NextStep DEF AgentClaim, AgentStart, AgentPrint, AgentPrintThrows, AgentCrash,
       Flush, Authorise, Handle, Disconnect, PromoteRetry, ReleaseStale, TabletPrint,
       MarkOrderRead, MarkOrderWrite, ClearQueue
  <1>8. ASSUME NEW u \in Ticks, DirectPrint(u), u # t PROVE tick'[t] = tick[t]
    BY <1>4, <1>8 DEF DirectPrint
  <1> QED BY <1>1, <1>2, <1>3, <1>5, <1>6, <1>7, <1>8

\* What the tablet has reported stays reported, and it writes rows of no other order.
LEMMA TabletStep ==
    ASSUME TypeOK, TabletReports, Next
    PROVE  /\ TabletReports'
           /\ \A o \in Orders : tablet[o].at = "marked" => tablet'[o].at = "marked"
  <1>0. tablet \in [Orders -> TabletStates] BY TypeParts DEF RowType
  <1>1. ASSUME NEW o \in Orders, NEW js \in SUBSET o, TabletPrint(o, js)
        PROVE  /\ TabletReports'
               /\ \A p \in Orders : tablet[p].at = "marked" => tablet'[p].at = "marked"
    BY <1>0, <1>1 DEF TabletPrint, TabletReports, TabletStates
  <1>2. ASSUME NEW o \in Orders, MarkOrderRead(o)
        PROVE  /\ TabletReports'
               /\ \A p \in Orders : tablet[p].at = "marked" => tablet'[p].at = "marked"
    BY <1>0, <1>2 DEF MarkOrderRead, TabletReports, TabletStates
  <1>3. ASSUME NEW o \in Orders, NEW j \in o, MarkOrderWrite(o, j)
        PROVE  /\ TabletReports'
               /\ \A p \in Orders : tablet[p].at = "marked" => tablet'[p].at = "marked"
    <2>1. tablet' = [tablet EXCEPT ![o].todo = @ \ {j}]
      BY <1>3 DEF MarkOrderWrite
    <2>2. tablet[o] \in TabletStates BY <1>0
    <2>3. tablet'[o].at = tablet[o].at /\ tablet'[o].todo = tablet[o].todo \ {j}
      BY <1>0, <2>1, <2>2 DEF TabletStates
    <2>4. \A p \in Orders \ {o} : tablet'[p] = tablet[p] BY <1>0, <2>1
    <2>5. tablet[o].todo \subseteq o /\ tablet[o].at = "marked"
      BY <1>3 DEF MarkOrderWrite, TabletReports
    <2> QED BY <2>3, <2>4, <2>5 DEF TabletReports
  <1>4. CASE UNCHANGED tablet BY <1>4 DEF TabletReports
  <1>5. \/ UNCHANGED tablet
        \/ \E o \in Orders : \E js \in SUBSET o : TabletPrint(o, js)
        \/ \E o \in Orders : MarkOrderRead(o)
        \/ \E o \in Orders : \E j \in o : MarkOrderWrite(o, j)
    BY NextStep DEF AgentClaim, AgentStart, AgentPrint, AgentPrintThrows, AgentCrash,
       Flush, Authorise, Handle, Disconnect, DirectRead, DirectClaim, DirectPrint,
       DirectPrintThrows, DirectMark, DirectMarkThrows, DirectRetry, DirectCrash,
       PromoteRetry, ReleaseStale, ClearQueue
  <1> QED BY <1>1, <1>2, <1>3, <1>4, <1>5

LEMMA PrintedStep ==
    ASSUME TypeOK, PrintedInv, [Next]_vars
    PROVE  PrintedInv'
  <1>0. \A j \in Jobs : paper[j] > 0 => paper'[j] > 0
    <2>1. paper' \in [Jobs -> Nat] BY TypeStep DEF TypeOK
    <2>2. \A j \in Jobs : paper[j] \in Nat /\ paper'[j] \in Nat /\ paper'[j] >= paper[j]
      BY <2>1, PaperGrows
    <2> QED BY <2>2
  <1>1. ASSUME NEW j \in Jobs, Comes(j) PROVE paper'[j] > 0
    BY <1>1 DEF Comes, TypeOK
  <1>2. AgentType BY TypeParts
  <1>3. CASE Next
    <2>1. PrintedMeansPaper'
      <3> SUFFICES ASSUME NEW j \in Jobs, status'[j] = "PRINTED"
                   PROVE  paper'[j] > 0 \/ OrderReported(j)'
        BY DEF PrintedMeansPaper
      <3>0. OrderReported(j) => OrderReported(j)'
        BY <1>3, TabletStep DEF PrintedInv, OrderReported
      <3>1. CASE status[j] = "PRINTED"
        BY <1>0, <3>0, <3>1 DEF PrintedInv, PrintedMeansPaper
      <3>2. ASSUME NEW o \in Orders, tablet[o].at = "marked" /\ j \in tablet[o].todo
            PROVE  OrderReported(j)
        BY <3>2 DEF PrintedInv, TabletReports, OrderReported
      <3>3. CASE status[j] # "PRINTED"
        BY <1>0, <1>3, <3>0, <3>2, <3>3, WhoPrinted
           DEF PrintedInv, ReportsPrinted, TicksPrinted
      <3> QED BY <3>1, <3>3
    <2>2. ReportsPrinted'
      <3> SUFFICES ASSUME NEW c \in calls', c.kind = "complete" PROVE paper'[c.job] > 0
        BY DEF ReportsPrinted
      <3>1. ASSUME NEW d \in calls, d.kind = "complete", d.job = c.job
            PROVE  paper'[c.job] > 0
        <4>1. d.job \in Jobs BY <1>2, CallRecords DEF AgentType
        <4> QED BY <1>0, <3>1, <4>1 DEF PrintedInv, ReportsPrinted
      <3>2. ASSUME NEW a \in Agents, NEW op \in owed[a], op.kind = "complete", op.job = c.job
            PROVE  paper'[c.job] > 0
        <4>1. op.job \in Jobs BY <1>2 DEF AgentType, Reports
        <4> QED BY <1>0, <3>2, <4>1 DEF PrintedInv, OwedPrinted
      <3> QED BY <1>1, <1>3, <3>1, <3>2, WhoReports
    <2>3. OwedPrinted'
      <3> SUFFICES ASSUME NEW a \in Agents, NEW op \in owed'[a], op.kind = "complete"
                   PROVE  paper'[op.job] > 0
        BY DEF OwedPrinted
      <3>1. CASE op \in owed[a]
        <4>1. op.job \in Jobs BY <1>2, <3>1 DEF AgentType, Reports
        <4> QED BY <1>0, <3>1, <4>1 DEF PrintedInv, OwedPrinted
      <3>2. ASSUME NEW d \in calls, d.kind = "complete", d.job = op.job
            PROVE  paper'[op.job] > 0
        <4>1. d.job \in Jobs BY <1>2, CallRecords DEF AgentType
        <4> QED BY <1>0, <3>2, <4>1 DEF PrintedInv, ReportsPrinted
      <3> QED BY <1>3, <3>1, <3>2, WhoOwes
    <2>4. TicksPrinted'
      <3> SUFFICES ASSUME NEW t \in Ticks, tick'[t].pc = "printed"
                   PROVE  paper'[tick'[t].job] > 0
        BY DEF TicksPrinted
      <3>1. CASE tick[t].pc = "printed" /\ tick[t].job = tick'[t].job
        <4>1. tick[t].job \in Jobs BY <3>1, TypeParts, TickRecords DEF TickType
        <4> QED BY <1>0, <3>1, <4>1 DEF PrintedInv, TicksPrinted
      <3> QED BY <1>1, <1>3, <3>1, WhoTicked
    <2>5. TabletReports' BY <1>3, TabletStep DEF PrintedInv
    <2> QED BY <2>1, <2>2, <2>3, <2>4, <2>5 DEF PrintedInv
  <1>4. CASE UNCHANGED vars
    BY <1>4 DEF vars, PrintedInv, PrintedMeansPaper, OrderReported, ReportsPrinted,
       OwedPrinted, TicksPrinted, TabletReports
  <1> QED BY <1>3, <1>4

LEMMA PrintedInit == ASSUME Init PROVE PrintedInv
  BY DEF Init, PrintedInv, PrintedMeansPaper, ReportsPrinted, OwedPrinted,
     TicksPrinted, TabletReports, Ready

\* For any jobs, agents and overlapping ticks, whatever breaks, is lost, replayed
\* or comes late: a row says PRINTED only after its ticket came out, or after the
\* tablet reported its order as printed (markOrderPrinted).
THEOREM PrintedCorrect == Spec => []PrintedMeansPaper
  <1>1. Init => TypeOK /\ PrintedInv BY TypeInit, PrintedInit
  <1>2. TypeOK /\ PrintedInv /\ [Next]_vars => (TypeOK /\ PrintedInv)'
    BY TypeStep, PrintedStep
  <1>3. PrintedInv => PrintedMeansPaper BY DEF PrintedInv
  <1> QED BY <1>1, <1>2, <1>3, PTL DEF Spec
=============================================================================
