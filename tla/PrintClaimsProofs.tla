------------------------- MODULE PrintClaimsProofs -------------------------
(***************************************************************************)
(* One holder for each job: while no connection breaks and no work outlives *)
(* its claim, a row that is in somebody's hands is claimed by them alone    *)
(* and nobody else can take it.  From this, for any jobs, agents and ticks: *)
(* no ticket is printed twice, every held row can be released, a dead row   *)
(* stays dead, no ticket is tried more often than it may be, and tickets    *)
(* are delivered as TicketDelivery promises.                                *)
(***************************************************************************)
EXTENDS PrintJobsProofs

Calm == faults.kinds \intersect {"slow", "lost"} = {}

\* Somebody may yet take the row up: nobody may have it in hand.
Open(j) == Claimable(j) \/ ("operator" \notin Parts /\ status[j] = "FAILED")

Sends(t, j) == tick[t].pc # "ready" /\ tick[t].job = j

AgentsHold ==
    \A a \in Agents, j \in Jobs : Has(agent[a], j) => claimedBy[j] = a /\ ~Open(j)

CallsHold ==
    \A c \in calls :
        /\ claimedBy[c.job] = c.agent /\ ~Open(c.job)
        /\ c.from = "loop" => agent[c.agent].pc = c.kind /\ agent[c.agent].job = c.job
        /\ c.from # "loop" => ~Has(agent[c.agent], c.job)

TicksHold ==
    \A t \in Ticks, j \in Jobs :
        Sends(t, j) => /\ ~Open(j)
                       /\ \A a \in Agents : ~Has(agent[a], j)
                       /\ \A c \in calls : c.job # j
                       /\ \A u \in Ticks : Sends(u, j) => u = t

OneCall == \A c, d \in calls : c.job = d.job => c = d

\* No report is refused, so none is kept for later.
NothingOwed == \A a \in Agents : owed[a] = {}

JobOnce == \A a \in Agents : agent[a].pc # "ready" => agent[a].job \notin agent[a].rest

Hands == AgentsHold /\ CallsHold /\ TicksHold /\ OneCall /\ NothingOwed /\ JobOnce
HandsInv == Calm => Hands

LEMMA HasRecords ==
    /\ \A js, j : Has(Ready(js), j) <=> j \in js
    /\ \A pc, k, rest, j : pc # "ready" => (Has(At(pc, k, rest), j) <=> j \in rest \/ j = k)
  BY DEF Has, Ready, At

LEMMA FaultsMove ==
    ASSUME [Next]_vars
    PROVE  UNCHANGED faults \/ \E f : Fault(f)
  <1>1. CASE Next
    BY <1>1, NextStep DEF AgentClaim, AgentStart, AgentPrint, AgentPrintThrows,
       AgentCrash, Flush, Authorise, Handle, Disconnect, DirectRead, DirectClaim,
       DirectPrint, DirectPrintThrows, DirectMark, DirectMarkThrows, DirectRetry,
       DirectCrash, PromoteRetry, ReleaseStale, TabletPrint, MarkOrderRead,
       MarkOrderWrite, ClearQueue
  <1>2. CASE UNCHANGED vars BY <1>2 DEF vars
  <1> QED BY <1>1, <1>2

LEMMA CalmStays ==
    ASSUME TypeOK, [Next]_vars, Calm'
    PROVE  Calm /\ \A f \in {"slow", "lost"} : ~Fault(f)
  <1>1. faults \in FaultLog BY DEF TypeOK
  <1>2. UNCHANGED faults \/ \E f : Fault(f) BY FaultsMove
  <1>3. ASSUME NEW f, Fault(f) PROVE faults.kinds \subseteq faults'.kinds /\ f \in faults'.kinds
    BY <1>3 DEF Fault
  <1> QED BY <1>2, <1>3 DEF Calm

LEMMA CalmAlways ==
    ASSUME Faults \intersect {"slow", "lost"} = {}, Calm, [Next]_vars
    PROVE  Calm'
  <1>1. UNCHANGED faults \/ \E f : Fault(f) BY FaultsMove
  <1>2. CASE UNCHANGED faults BY <1>2 DEF Calm
  <1>3. ASSUME NEW f, Fault(f) PROVE Calm' BY <1>3 DEF Fault, Calm
  <1> QED BY <1>1, <1>2, <1>3

\* Whoever is busy with a job keeps it from everybody else.
LEMMA BusyHolds == ASSUME Hands, NEW j \in Jobs, Busy(j) PROVE ~Open(j)
  BY DEF Hands, AgentsHold, CallsHold, TicksHold, Busy, Sends

LEMMA BusyMeans ==
    ASSUME NEW j \in Jobs
    PROVE  /\ \A a \in Agents : Has(agent[a], j) => Busy(j)
           /\ \A c \in calls : c.job = j => Busy(j)
           /\ \A t \in Ticks : Sends(t, j) => Busy(j)
  BY DEF Busy, Sends

\* A step that leaves alone what everybody is doing keeps the rows they hold.
LEMMA RowsOnly ==
    ASSUME TypeOK, Hands, UNCHANGED <<agent, owed, calls, tick>>,
           \A j \in Jobs : Busy(j) => claimedBy'[j] = claimedBy[j] /\ ~Open(j)'
    PROVE  Hands'
  <1>0. \A c \in calls : c.job \in Jobs BY TypeParts, CallRecords DEF AgentType
  <1>1. AgentsHold' BY BusyMeans DEF Hands, AgentsHold, Has
  <1>2. CallsHold' BY <1>0, BusyMeans DEF Hands, CallsHold, Has
  <1>3. TicksHold'
    <2> SUFFICES ASSUME NEW t \in Ticks, NEW j \in Jobs, Sends(t, j)'
                 PROVE  /\ ~Open(j)'
                        /\ \A a \in Agents : ~Has(agent[a], j)'
                        /\ \A c \in calls' : c.job # j
                        /\ \A u \in Ticks : Sends(u, j)' => u = t
      BY Zenon DEF TicksHold
    <2>1. Sends(t, j) /\ \A u \in Ticks : Sends(u, j)' => Sends(u, j) BY DEF Sends
    <2>2. ~Open(j)' BY <2>1, BusyMeans
    <2> QED BY <2>1, <2>2 DEF Hands, TicksHold, Has
  <1> QED BY <1>1, <1>2, <1>3 DEF Hands, OneCall, NothingOwed, JobOnce
-----------------------------------------------------------------------------
(* The steps of an agent *)

LEMMA ClaimHands ==
    ASSUME TypeOK, Hands, NEW a \in Agents, NEW js \in SUBSET Jobs, AgentClaim(a, js),
           UNCHANGED faults, agent' = [agent EXCEPT ![a] = Ready(js)]
    PROVE  Hands'
  <1>0. AgentType /\ RowType BY TypeParts
  <1>1. \A j \in js : Open(j) /\ ~Busy(j) BY <1>0, BusyHolds DEF AgentClaim, Open
  <1>2. /\ UNCHANGED <<owed, calls, tick>> /\ agent[a] = Ready({})
        /\ \A j \in js : status'[j] = "CLAIMED" /\ claimedBy'[j] = a
        /\ \A j \in Jobs \ js : status'[j] = status[j] /\ claimedBy'[j] = claimedBy[j]
    BY <1>0 DEF AgentClaim, Take, RowType
  <1>3. /\ \A b \in Agents \ {a} : agent'[b] = agent[b]
        /\ agent'[a] = Ready(js)
    BY <1>0 DEF AgentType
  <1>4. \A j \in Jobs : ~Open(j) \/ j \in js => ~Open(j)'
    BY <1>2 DEF Open, Claimable
  <1>5. AgentsHold'
    <2> SUFFICES ASSUME NEW b \in Agents, NEW j \in Jobs, Has(agent[b], j)'
                 PROVE  claimedBy'[j] = b /\ ~Open(j)'
      BY DEF AgentsHold
    <2>1. CASE b = a
      <3>1. j \in js BY <1>3, <2>1, HasRecords
      <3> QED BY <1>2, <1>4, <2>1, <3>1
    <2>2. CASE b # a
      <3>1. Has(agent[b], j) BY <1>3, <2>2 DEF Has
      <3>2. j \notin js BY <1>1, <3>1, BusyMeans
      <3> QED BY <1>2, <1>4, <3>1, <3>2 DEF Hands, AgentsHold
    <2> QED BY <2>1, <2>2
  <1>6. CallsHold'
    <2> SUFFICES ASSUME NEW c \in calls
                 PROVE  /\ claimedBy'[c.job] = c.agent /\ ~Open(c.job)'
                        /\ c.from = "loop" => agent'[c.agent].pc = c.kind /\ agent'[c.agent].job = c.job
                        /\ c.from # "loop" => ~Has(agent[c.agent], c.job)'
      BY <1>2 DEF CallsHold
    <2>1. c.job \in Jobs /\ c.agent \in Agents /\ c.kind \in Kinds BY <1>0, CallRecords DEF AgentType
    <2>2. c.job \notin js BY <1>1, <2>1, BusyMeans
    <2>3. claimedBy'[c.job] = c.agent /\ ~Open(c.job)'
      BY <1>2, <1>4, <2>1, <2>2 DEF Hands, CallsHold
    <2>4. CASE c.agent # a BY <1>3, <2>1, <2>3, <2>4 DEF Hands, CallsHold, Has
    <2>5. CASE c.agent = a
      <3>1. c.from # "loop" BY <1>2, <2>1, <2>5 DEF Hands, CallsHold, Ready, Kinds
      <3>2. ~Has(agent[c.agent], c.job)' BY <1>3, <2>2, <2>5, HasRecords DEF Has
      <3> QED BY <2>3, <3>1, <3>2
    <2> QED BY <2>4, <2>5
  <1>7. TicksHold'
    <2> SUFFICES ASSUME NEW t \in Ticks, NEW j \in Jobs, Sends(t, j)'
                 PROVE  /\ ~Open(j)'
                        /\ \A b \in Agents : ~Has(agent[b], j)'
                        /\ \A c \in calls' : c.job # j
                        /\ \A u \in Ticks : Sends(u, j)' => u = t
      BY Zenon DEF TicksHold
    <2>1. Sends(t, j) /\ \A u \in Ticks : Sends(u, j)' => Sends(u, j) BY <1>2 DEF Sends
    <2>2. j \notin js BY <1>1, <2>1, BusyMeans
    <2>3. ~Open(j)' BY <1>4, <2>1 DEF Hands, TicksHold
    <2>4. ASSUME NEW b \in Agents PROVE ~Has(agent[b], j)'
      <3>1. CASE b = a BY <1>3, <2>2, <3>1, HasRecords
      <3>2. CASE b # a BY <1>3, <2>1, <3>2 DEF Hands, TicksHold
      <3> QED BY <3>1, <3>2
    <2> QED BY <1>2, <2>1, <2>3, <2>4 DEF Hands, TicksHold
  <1>8. JobOnce' BY <1>2, <1>3 DEF Hands, JobOnce, Ready
  <1> QED BY <1>2, <1>5, <1>6, <1>7, <1>8 DEF Hands, OneCall, NothingOwed

\* An agent makes the one call about a job it has in hand.
LEMMA AskHands ==
    ASSUME TypeOK, Hands, NEW a \in Agents, NEW j \in Jobs, NEW kind \in Kinds,
           Has(agent[a], j), agent[a].pc \in {"ready", "print"},
           agent[a].pc = "print" => agent[a].job = j,
           Ask(a, kind, j), UNCHANGED <<row, owed, tick>>
    PROVE  Hands'
  <1>0. AgentType BY TypeParts
  <1>1. agent[a].rest \in SUBSET Jobs BY <1>0, AgentRecords DEF AgentType
  <1> DEFINE here == At(kind, j, agent[a].rest \ {j})
             call == Call(kind, "loop", a, j)
  <1>2. /\ \A b \in Agents \ {a} : agent'[b] = agent[b]
        /\ agent'[a] = here
        /\ calls' = calls \union {call}
        /\ UNCHANGED <<status, claimedBy>>
    BY <1>0 DEF Ask, AgentType, row
  <1>3. kind # "ready" BY DEF Kinds
  <1>4. \A k \in Jobs : Has(agent[a], k)' <=> Has(agent[a], k)
    <2>1. \A k \in Jobs : Has(here, k) <=> k \in agent[a].rest \/ k = j
      BY <1>3, HasRecords
    <2>2. \A k \in Jobs : Has(agent[a], k) <=> k \in agent[a].rest \/ k = j
      BY DEF Has
    <2> QED BY <1>2, <2>1, <2>2 DEF Has
  <1>5. \A b \in Agents, k \in Jobs : Has(agent[b], k)' <=> Has(agent[b], k)
    BY <1>2, <1>4 DEF Has
  <1>6. \A k : Open(k)' <=> Open(k) BY <1>2 DEF Open, Claimable
  <1>7. AgentsHold' BY <1>2, <1>5, <1>6 DEF Hands, AgentsHold
  <1>8. /\ claimedBy[j] = a /\ ~Open(j) BY DEF Hands, AgentsHold
  <1>9. \A c \in calls : c.job # j
    <2> SUFFICES ASSUME NEW c \in calls, c.job = j PROVE FALSE OBVIOUS
    <2>1. c.kind \in Kinds BY <1>0, CallRecords DEF AgentType
    <2>2. c.agent = a BY <1>8 DEF Hands, CallsHold
    <2>3. c.from = "loop" /\ agent[a].pc = c.kind BY <2>2 DEF Hands, CallsHold
    <2> QED BY <2>1, <2>3 DEF Kinds
  <1>10. call.job = j /\ call.agent = a /\ call.kind = kind /\ call.from = "loop" BY DEF Call
  <1>11. here.pc = kind /\ here.job = j BY DEF At
  <1>12. CallsHold'
    <2> SUFFICES ASSUME NEW c \in calls'
                 PROVE  /\ claimedBy'[c.job] = c.agent /\ ~Open(c.job)'
                        /\ c.from = "loop" => agent'[c.agent].pc = c.kind /\ agent'[c.agent].job = c.job
                        /\ c.from # "loop" => ~Has(agent[c.agent], c.job)'
      BY DEF CallsHold
    <2>1. CASE c = call BY <1>2, <1>6, <1>8, <1>10, <1>11, <2>1
    <2>2. CASE c \in calls
      <3>1. c.job \in Jobs /\ c.agent \in Agents /\ c.kind \in Kinds BY <1>0, <2>2, CallRecords DEF AgentType
      <3>2. c.from = "loop" => c.agent # a
        BY <2>2, <3>1, <1>9 DEF Hands, CallsHold, Kinds
      <3> QED BY <1>2, <1>5, <1>6, <2>2, <3>1, <3>2 DEF Hands, CallsHold
    <2> QED BY <1>2, <2>1, <2>2
  <1>13. TicksHold'
    <2> SUFFICES ASSUME NEW t \in Ticks, NEW k \in Jobs, Sends(t, k)'
                 PROVE  /\ ~Open(k)'
                        /\ \A b \in Agents : ~Has(agent[b], k)'
                        /\ \A c \in calls' : c.job # k
                        /\ \A u \in Ticks : Sends(u, k)' => u = t
      BY Zenon DEF TicksHold
    <2>1. Sends(t, k) /\ \A u \in Ticks : Sends(u, k)' => Sends(u, k) BY DEF Sends
    <2>2. k # j BY <2>1 DEF Hands, TicksHold
    <2> QED BY <1>2, <1>5, <1>6, <1>10, <2>1, <2>2 DEF Hands, TicksHold
  <1>14. OneCall' BY <1>2, <1>9, <1>10 DEF Hands, OneCall
  <1>15. JobOnce'
    <2>1. here.job \notin here.rest BY DEF At
    <2> QED BY <1>2, <2>1 DEF Hands, JobOnce
  <1> QED BY <1>7, <1>12, <1>13, <1>14, <1>15 DEF Hands, NothingOwed

LEMMA AgentCrashHands ==
    ASSUME TypeOK, Hands, NEW a \in Agents, AgentCrash(a)
    PROVE  Hands'
  <1>0. AgentType BY TypeParts
  <1>1. /\ \A b \in Agents \ {a} : agent'[b] = agent[b]
        /\ agent'[a] = Ready({})
        /\ UNCHANGED <<status, claimedBy, owed, tick>>
    BY <1>0 DEF AgentCrash, AgentType, row
  <1>2. \A b \in Agents, k \in Jobs : Has(agent[b], k)' => Has(agent[b], k) /\ b # a
    BY <1>1, HasRecords DEF Has
  <1>3. \A k : Open(k)' <=> Open(k) BY <1>1 DEF Open, Claimable
  <1>4. AgentsHold' BY <1>1, <1>2, <1>3 DEF Hands, AgentsHold
  <1>5. ASSUME NEW c \in calls'
        PROVE  \E d \in calls : /\ d.job = c.job /\ d.agent = c.agent /\ d.kind = c.kind
                                /\ c = IF d.agent = a THEN [d EXCEPT !.from = "nobody"] ELSE d
                                /\ c.from = IF d.agent = a THEN "nobody" ELSE d.from
    <2>1. PICK d \in calls : c = IF d.agent = a THEN [d EXCEPT !.from = "nobody"] ELSE d
      BY <1>5 DEF AgentCrash
    <2>2. d \in Calls BY <1>0 DEF AgentType
    <2> QED BY <2>1, <2>2 DEF Calls
  <1>6. CallsHold'
    <2> SUFFICES ASSUME NEW c \in calls'
                 PROVE  /\ claimedBy'[c.job] = c.agent /\ ~Open(c.job)'
                        /\ c.from = "loop" => agent'[c.agent].pc = c.kind /\ agent'[c.agent].job = c.job
                        /\ c.from # "loop" => ~Has(agent[c.agent], c.job)'
      BY DEF CallsHold
    <2>1. PICK d \in calls : /\ d.job = c.job /\ d.agent = c.agent /\ d.kind = c.kind
                             /\ c.from = IF d.agent = a THEN "nobody" ELSE d.from
      BY <1>5
    <2>2. d.job \in Jobs /\ d.agent \in Agents BY <1>0, CallRecords DEF AgentType
    <2>3. claimedBy'[c.job] = c.agent /\ ~Open(c.job)'
      BY <1>1, <1>3, <2>1 DEF Hands, CallsHold
    <2>4. CASE d.agent = a BY <1>2, <2>1, <2>2, <2>3, <2>4
    <2>5. CASE d.agent # a BY <1>1, <1>2, <2>1, <2>2, <2>3, <2>5 DEF Hands, CallsHold
    <2> QED BY <2>4, <2>5
  <1>7. TicksHold'
    <2> SUFFICES ASSUME NEW t \in Ticks, NEW k \in Jobs, Sends(t, k)'
                 PROVE  /\ ~Open(k)'
                        /\ \A b \in Agents : ~Has(agent[b], k)'
                        /\ \A c \in calls' : c.job # k
                        /\ \A u \in Ticks : Sends(u, k)' => u = t
      BY Zenon DEF TicksHold
    <2>1. Sends(t, k) /\ \A u \in Ticks : Sends(u, k)' => Sends(u, k) BY <1>1 DEF Sends
    <2> QED BY <1>2, <1>3, <1>5, <2>1 DEF Hands, TicksHold
  <1>8. OneCall'
    <2> SUFFICES ASSUME NEW c1 \in calls', NEW c2 \in calls', c1.job = c2.job PROVE c1 = c2
      BY DEF OneCall
    <2>1. PICK d1 \in calls : /\ d1.job = c1.job
                              /\ c1 = IF d1.agent = a THEN [d1 EXCEPT !.from = "nobody"] ELSE d1
      BY <1>5
    <2>2. PICK d2 \in calls : /\ d2.job = c2.job
                              /\ c2 = IF d2.agent = a THEN [d2 EXCEPT !.from = "nobody"] ELSE d2
      BY <1>5
    <2>3. d1 = d2 BY <2>1, <2>2 DEF Hands, OneCall
    <2> QED BY <2>1, <2>2, <2>3
  <1>9. JobOnce' BY <1>1 DEF Hands, JobOnce, Ready
  <1> QED BY <1>1, <1>4, <1>6, <1>7, <1>8, <1>9 DEF Hands, NothingOwed
-----------------------------------------------------------------------------
(* The API's side *)

LEMMA AuthoriseHands ==
    ASSUME TypeOK, Hands, NEW c \in calls, Authorise(c)
    PROVE  Hands'
  <1>0. AgentType /\ c \in Calls BY TypeParts DEF AgentType
  <1> DEFINE read == [c EXCEPT !.seen = attempts[c.job]]
  <1>1. claimedBy[c.job] = c.agent BY DEF Hands, CallsHold
  <1>2. /\ calls' = (calls \ {c}) \union {read}
        /\ UNCHANGED <<agent, owed, tick, status, claimedBy>>
    BY <1>1 DEF Authorise, row
  <1>3. read.job = c.job /\ read.agent = c.agent /\ read.kind = c.kind /\ read.from = c.from
    BY <1>0 DEF Calls
  <1>4. /\ \A k : Open(k)' <=> Open(k)
        /\ \A b \in Agents : \A k : Has(agent[b], k)' <=> Has(agent[b], k)
    BY <1>2 DEF Open, Claimable, Has
  <1>5. AgentsHold' BY <1>2, <1>4 DEF Hands, AgentsHold
  <1>6. CallsHold'
    <2> SUFFICES ASSUME NEW d \in calls'
                 PROVE  /\ claimedBy'[d.job] = d.agent /\ ~Open(d.job)'
                        /\ d.from = "loop" => agent'[d.agent].pc = d.kind /\ agent'[d.agent].job = d.job
                        /\ d.from # "loop" => ~Has(agent[d.agent], d.job)'
      BY DEF CallsHold
    <2>1. PICK e \in calls : e.job = d.job /\ e.agent = d.agent /\ e.kind = d.kind /\ e.from = d.from
      BY <1>2, <1>3
    <2>2. e.agent \in Agents BY <1>0, CallRecords DEF AgentType
    <2> QED BY <1>2, <1>4, <2>1, <2>2 DEF Hands, CallsHold
  <1>7. TicksHold'
    <2> SUFFICES ASSUME NEW t \in Ticks, NEW k \in Jobs, Sends(t, k)'
                 PROVE  /\ ~Open(k)'
                        /\ \A b \in Agents : ~Has(agent[b], k)'
                        /\ \A d \in calls' : d.job # k
                        /\ \A u \in Ticks : Sends(u, k)' => u = t
      BY Zenon DEF TicksHold
    <2>1. Sends(t, k) /\ \A u \in Ticks : Sends(u, k)' => Sends(u, k) BY <1>2 DEF Sends
    <2> QED BY <1>2, <1>3, <1>4, <2>1 DEF Hands, TicksHold
  <1>8. OneCall'
    <2>1. \A d \in calls : d.job = c.job => d = c BY DEF Hands, OneCall
    <2> HIDE DEF read
    <2>2. \A d \in calls' : d = read \/ (d \in calls /\ d # c) BY <1>2
    <2>3. \A d \in calls' : d.job = c.job => d = read BY <2>1, <2>2
    <2>4. \A d \in calls' : d.job # c.job => d \in calls BY <1>3, <2>2
    <2> QED BY <2>3, <2>4 DEF Hands, OneCall
  <1> QED BY <1>2, <1>5, <1>6, <1>7, <1>8 DEF Hands, NothingOwed, JobOnce

\* Whoever reports a job printed or failed has it in hand no longer.
LEMMA HandleDrops ==
    ASSUME TypeOK, Hands, NEW c \in calls, Handle(c),
           NEW b \in Agents, NEW j \in Jobs, Has(agent[b], j)'
    PROVE  Has(agent[b], j) /\ (j = c.job => c.kind = "start")
  <1>0. /\ AgentType /\ c \in Calls
        /\ c.job \in Jobs /\ c.agent \in Agents /\ c.kind \in Kinds
    BY TypeParts, CallRecords DEF AgentType
  <1>1. Answer(c, TRUE) BY DEF Handle
  <1>2. c.from # "loop" => agent' = agent BY <1>1 DEF Answer
  <1>3. c.from = "loop" =>
           /\ agent[c.agent].pc = c.kind /\ agent[c.agent].job = c.job
           /\ c.job \notin agent[c.agent].rest
           /\ \A d \in Agents \ {c.agent} : agent'[d] = agent[d]
           /\ agent'[c.agent] = IF c.kind = "start" THEN At("print", c.job, agent[c.agent].rest)
                                                    ELSE Ready(agent[c.agent].rest)
    BY <1>0, <1>1 DEF Answer, AgentType, Hands, CallsHold, JobOnce, Kinds
  <1>4. CASE c.from # "loop"
    <2>1. Has(agent[b], j) BY <1>2, <1>4 DEF Has
    <2>2. j = c.job => b = c.agent BY <2>1 DEF Hands, AgentsHold, CallsHold
    <2> QED BY <1>4, <2>1, <2>2 DEF Hands, CallsHold
  <1>5. CASE c.from = "loop" /\ b # c.agent
    <2>1. Has(agent[b], j) BY <1>3, <1>5 DEF Has
    <2> QED BY <1>5, <2>1 DEF Hands, AgentsHold, CallsHold
  <1>6. CASE c.from = "loop" /\ b = c.agent /\ c.kind = "start"
    <2>1. j \in agent[b].rest \/ j = c.job BY <1>3, <1>6, HasRecords
    <2> QED BY <1>3, <1>6, <2>1 DEF Has, Kinds
  <1>7. CASE c.from = "loop" /\ b = c.agent /\ c.kind # "start"
    <2>1. j \in agent[b].rest BY <1>3, <1>7, HasRecords
    <2> QED BY <1>3, <1>7, <2>1 DEF Has, Kinds
  <1> QED BY <1>4, <1>5, <1>6, <1>7

\* What the API's write of a report does to those who hold jobs.
LEMMA HandleHands ==
    ASSUME TypeOK, Hands, NEW c \in calls, Handle(c)
    PROVE  Hands'
  <1>0. /\ AgentType /\ RowType /\ c \in Calls
        /\ c.job \in Jobs /\ c.agent \in Agents /\ c.kind \in Kinds
        /\ agent[c.agent].rest \in SUBSET Jobs
    BY TypeParts, CallRecords, AgentRecords DEF AgentType
  <1>1. calls' = calls \ {c} /\ UNCHANGED tick /\ Answer(c, TRUE) BY DEF Handle
  <1>2. \A d \in calls' : d \in calls /\ d.job # c.job BY <1>1 DEF Hands, OneCall
  <1>3. \A j \in Jobs \ {c.job} : claimedBy'[j] = claimedBy[j] /\ (Open(j)' <=> Open(j))
    BY <1>0 DEF Handle, MarkFailed, SetStatus, RowType, Open, Claimable
  <1>4. c.kind # "fail" => claimedBy' = claimedBy /\ ~Open(c.job)'
    BY <1>0 DEF Handle, SetStatus, RowType, Open, Claimable
  <1>5. NothingOwed'
    BY <1>0, <1>1 DEF Answer, Settle, Hands, NothingOwed, AgentType
  <1>6. c.from # "loop" => agent' = agent BY <1>1 DEF Answer
  <1>7. c.from = "loop" =>
           /\ agent[c.agent].pc = c.kind /\ agent[c.agent].job = c.job
           /\ c.job \notin agent[c.agent].rest
           /\ \A b \in Agents \ {c.agent} : agent'[b] = agent[b]
           /\ agent'[c.agent] = IF c.kind = "start" THEN At("print", c.job, agent[c.agent].rest)
                                                    ELSE Ready(agent[c.agent].rest)
    BY <1>0, <1>1 DEF Answer, AgentType, Hands, CallsHold, JobOnce, Kinds
  <1>8. ASSUME NEW b \in Agents, NEW j \in Jobs, Has(agent[b], j)'
        PROVE  Has(agent[b], j) /\ (j = c.job => c.kind = "start")
    BY <1>8, HandleDrops
  <1>9. AgentsHold'
    <2> SUFFICES ASSUME NEW b \in Agents, NEW j \in Jobs, Has(agent[b], j)'
                 PROVE  claimedBy'[j] = b /\ ~Open(j)'
      BY DEF AgentsHold
    <2>1. claimedBy[j] = b /\ ~Open(j) BY <1>8 DEF Hands, AgentsHold
    <2>2. CASE j = c.job BY <1>4, <1>8, <2>1, <2>2
    <2>3. CASE j # c.job BY <1>3, <2>1, <2>3
    <2> QED BY <2>2, <2>3
  <1>10. CallsHold'
    <2> SUFFICES ASSUME NEW d \in calls'
                 PROVE  /\ claimedBy'[d.job] = d.agent /\ ~Open(d.job)'
                        /\ d.from = "loop" => agent'[d.agent].pc = d.kind /\ agent'[d.agent].job = d.job
                        /\ d.from # "loop" => ~Has(agent[d.agent], d.job)'
      BY DEF CallsHold
    <2>1. d \in calls /\ d.job # c.job /\ d.job \in Jobs /\ d.agent \in Agents
      BY <1>0, <1>2, CallRecords DEF AgentType
    <2>2. claimedBy'[d.job] = d.agent /\ ~Open(d.job)' BY <1>3, <2>1 DEF Hands, CallsHold
    <2>3. d.from # "loop" => ~Has(agent[d.agent], d.job)' BY <1>8, <2>1 DEF Hands, CallsHold
    <2>4. d.from = "loop" => agent[d.agent].pc = d.kind /\ agent[d.agent].job = d.job
      BY <2>1 DEF Hands, CallsHold
    <2>5. d.from = "loop" => agent'[d.agent] = agent[d.agent]
      BY <1>6, <1>7, <2>1, <2>4
    <2> QED BY <2>2, <2>3, <2>4, <2>5
  <1>11. TicksHold'
    <2> SUFFICES ASSUME NEW t \in Ticks, NEW k \in Jobs, Sends(t, k)'
                 PROVE  /\ ~Open(k)'
                        /\ \A b \in Agents : ~Has(agent[b], k)'
                        /\ \A d \in calls' : d.job # k
                        /\ \A u \in Ticks : Sends(u, k)' => u = t
      BY Zenon DEF TicksHold
    <2>1. Sends(t, k) /\ \A u \in Ticks : Sends(u, k)' => Sends(u, k) BY <1>1 DEF Sends
    <2>2. k # c.job BY <2>1 DEF Hands, TicksHold
    <2> QED BY <1>2, <1>3, <1>8, <2>1, <2>2 DEF Hands, TicksHold
  <1>12. JobOnce'
    <2>1. At("print", c.job, agent[c.agent].rest).job = c.job
          /\ At("print", c.job, agent[c.agent].rest).rest = agent[c.agent].rest
          /\ Ready(agent[c.agent].rest).pc = "ready"
      BY DEF At, Ready
    <2> QED BY <1>6, <1>7, <2>1 DEF Hands, JobOnce
  <1> QED BY <1>2, <1>5, <1>9, <1>10, <1>11, <1>12 DEF Hands, OneCall
-----------------------------------------------------------------------------
(* The cron *)

\* A tick that takes up no job, and opens only the row it lets go of.
LEMMA TickKeeps ==
    ASSUME TypeOK, Hands, NEW t \in Ticks,
           UNCHANGED <<agent, owed, calls, claimedBy>>,
           \A u \in Ticks \ {t} : tick'[u] = tick[u],
           \A j \in Jobs : Sends(t, j)' => Sends(t, j),
           \A j \in Jobs : Open(j)' => Open(j) \/ (Sends(t, j) /\ ~Sends(t, j)')
    PROVE  Hands'
  <1>0. \A c \in calls : c.job \in Jobs BY TypeParts, CallRecords DEF AgentType
  <1>1. \A u \in Ticks, j \in Jobs : Sends(u, j)' => Sends(u, j) BY DEF Sends
  <1>2. \A b \in Agents : \A j : Has(agent[b], j)' <=> Has(agent[b], j) BY DEF Has
  <1>3. AgentsHold' BY <1>2 DEF Hands, AgentsHold, TicksHold
  <1>4. CallsHold' BY <1>0, <1>2 DEF Hands, CallsHold, TicksHold
  <1>5. TicksHold'
    <2> SUFFICES ASSUME NEW u \in Ticks, NEW k \in Jobs, Sends(u, k)'
                 PROVE  /\ ~Open(k)'
                        /\ \A b \in Agents : ~Has(agent[b], k)'
                        /\ \A c \in calls' : c.job # k
                        /\ \A v \in Ticks : Sends(v, k)' => v = u
      BY Zenon DEF TicksHold
    <2>1. Sends(u, k) BY <1>1
    <2>2. ~Open(k)' BY <2>1 DEF Hands, TicksHold
    <2> QED BY <1>1, <1>2, <2>1, <2>2 DEF Hands, TicksHold
  <1> QED BY <1>3, <1>4, <1>5 DEF Hands, OneCall, NothingOwed, JobOnce

\* The rows that the cron's update finds still QUEUED are in nobody's hands.
LEMMA DirectClaimHands ==
    ASSUME TypeOK, Hands, NEW t \in Ticks, NEW j \in Jobs, DirectClaim(t, j)
    PROVE  Hands'
  <1>0. /\ AgentType /\ RowType /\ tick \in [Ticks -> TickStates]
        /\ \A c \in calls : c.job \in Jobs /\ c.agent \in Agents
    BY TypeParts, CallRecords DEF TickType, AgentType
  <1>1. /\ UNCHANGED <<agent, owed, calls, claimedBy>>
        /\ \A u \in Ticks \ {t} : tick'[u] = tick[u]
        /\ \A k \in Jobs : ~Sends(t, k)
    BY <1>0 DEF DirectClaim, Sends
  <1>2. CASE status[j] # "QUEUED"
    <2>1. tick'[t].pc = "ready" /\ UNCHANGED status
      BY <1>0, <1>2 DEF DirectClaim, Ready
    <2>2. /\ \A k \in Jobs : ~Sends(t, k)'
          /\ \A k \in Jobs : Open(k)' => Open(k)
      BY <2>1 DEF Sends, Open, Claimable
    <2> QED BY <1>1, <2>2, TickKeeps
  <1>3. CASE status[j] = "QUEUED"
    <2>1. ~Busy(j) BY <1>3, BusyHolds DEF Open, Claimable
    <2>2. /\ status' = [status EXCEPT ![j] = "PRINTING"]
          /\ tick'[t].pc = "print" /\ tick'[t].job = j
      BY <1>0, <1>3 DEF DirectClaim, SetStatus, At
    <2>3. ~Open(j)' /\ \A k \in Jobs : Open(k)' => Open(k)
      BY <1>0, <2>2 DEF RowType, Open, Claimable
    <2>4. \A b \in Agents : \A k : Has(agent[b], k)' <=> Has(agent[b], k) BY <1>1 DEF Has
    <2>5. AgentsHold' BY <1>1, <2>3, <2>4 DEF Hands, AgentsHold
    <2>6. CallsHold' BY <1>0, <1>1, <2>3, <2>4 DEF Hands, CallsHold
    <2>7. \A u \in Ticks \ {t}, k \in Jobs : Sends(u, k)' => Sends(u, k) /\ k # j
      BY <1>1, <2>1, BusyMeans DEF Sends
    <2>8. \A k \in Jobs : Sends(t, k)' => k = j BY <2>2 DEF Sends
    <2>9. TicksHold'
      <3> SUFFICES ASSUME NEW u \in Ticks, NEW k \in Jobs, Sends(u, k)'
                   PROVE  /\ ~Open(k)'
                          /\ \A b \in Agents : ~Has(agent[b], k)'
                          /\ \A c \in calls' : c.job # k
                          /\ \A v \in Ticks : Sends(v, k)' => v = u
        BY Zenon DEF TicksHold
      <3>1. CASE u = t
        BY <1>1, <2>1, <2>3, <2>4, <2>7, <2>8, <3>1, BusyMeans
      <3>2. CASE u # t
        <4>1. Sends(u, k) /\ k # j BY <2>7, <3>2
        <4> QED BY <1>1, <2>3, <2>4, <2>7, <2>8, <4>1 DEF Hands, TicksHold
      <3> QED BY <3>1, <3>2
    <2> QED BY <1>1, <2>5, <2>6, <2>9 DEF Hands, OneCall, NothingOwed, JobOnce
  <1> QED BY <1>2, <1>3

LEMMA DirectHands ==
    ASSUME TypeOK, Hands, NEW t \in Ticks,
           \/ \E js \in SUBSET Jobs : DirectRead(t, js)
           \/ DirectPrint(t) \/ DirectPrintThrows(t) \/ DirectMark(t)
           \/ DirectMarkThrows(t) \/ DirectRetry(t) \/ DirectCrash(t)
    PROVE  Hands'
  <1>0. RowType /\ tick \in [Ticks -> TickStates] BY TypeParts DEF TickType
  <1>1. ASSUME NEW pc, pc # "ready", tick[t].pc # "ready", Proceed(t, pc)
        PROVE  /\ \A u \in Ticks \ {t} : tick'[u] = tick[u]
               /\ \A j \in Jobs : Sends(t, j)' <=> Sends(t, j)
    <2>1. tick'[t].pc = pc /\ tick'[t].job = tick[t].job
      BY <1>0, <1>1 DEF Proceed, TickStates
    <2> QED BY <1>0, <1>1, <2>1 DEF Proceed, Sends
  <1>2. ASSUME UNCHANGED status PROVE \A j \in Jobs : Open(j)' => Open(j)
    BY <1>2 DEF Open, Claimable
  <1>3. ASSUME NEW s \in JobStatuses, SetStatus(tick[t].job, s), tick[t].pc # "ready"
        PROVE  \A j \in Jobs : (~Sends(t, j) \/ s = "PRINTED") /\ Open(j)' => Open(j)
    BY <1>0, <1>3 DEF SetStatus, RowType, Open, Claimable, Sends
  <1>4. ASSUME NEW js \in SUBSET Jobs, DirectRead(t, js) PROVE Hands'
    <2>1. /\ \A u \in Ticks \ {t} : tick'[u] = tick[u]
          /\ \A j \in Jobs : ~Sends(t, j)'
      BY <1>0, <1>4 DEF DirectRead, Ready, Sends
    <2> QED BY <1>2, <1>4, <2>1, TickKeeps DEF DirectRead, row
  <1>5. CASE DirectPrint(t)
    BY <1>1, <1>2, <1>5, TickKeeps DEF DirectPrint, row
  <1>6. CASE DirectPrintThrows(t)
    BY <1>1, <1>2, <1>6, TickKeeps DEF DirectPrintThrows, row
  <1>7. CASE DirectMark(t) \/ DirectRetry(t)
    <2>1. /\ \A u \in Ticks \ {t} : tick'[u] = tick[u]
          /\ \A j \in Jobs : ~Sends(t, j)'
          /\ tick[t].pc # "ready" /\ UNCHANGED <<agent, owed, calls, claimedBy>>
      BY <1>0, <1>7 DEF DirectMark, DirectRetry, Ready, Sends
    <2>2. \A j \in Jobs : Open(j)' => Open(j) \/ Sends(t, j)
      BY <1>3, <1>7, <2>1 DEF DirectMark, DirectRetry, JobStatuses
    <2> QED BY <2>1, <2>2, TickKeeps
  <1>8. CASE DirectMarkThrows(t)
    <2>1. /\ tick[t].pc # "ready" /\ Proceed(t, "failed")
          /\ UNCHANGED <<agent, owed, calls, claimedBy>>
          /\ SetStatus(tick[t].job, "PRINTED") \/ UNCHANGED status
      BY <1>8 DEF DirectMarkThrows
    <2>2. \A j \in Jobs : Open(j)' => Open(j) BY <1>2, <1>3, <2>1 DEF JobStatuses
    <2> QED BY <1>1, <2>1, <2>2, TickKeeps
  <1>9. CASE DirectCrash(t)
    <2>1. /\ \A u \in Ticks \ {t} : tick'[u] = tick[u]
          /\ \A j \in Jobs : ~Sends(t, j)'
      BY <1>0, <1>9 DEF DirectCrash, Ready, Sends
    <2> QED BY <1>2, <1>9, <2>1, TickKeeps DEF DirectCrash, row
  <1> QED BY <1>4, <1>5, <1>6, <1>7, <1>8, <1>9
-----------------------------------------------------------------------------
(* Housekeeping, the operator and the tablet *)

LEMMA OutsideHands ==
    ASSUME TypeOK, Hands, \A f \in {"slow", "lost"} : ~Fault(f),
           \/ ClearQueue
           \/ \E j \in Jobs : PromoteRetry(j) \/ ReleaseStale(j)
           \/ \E o \in Orders : \E js \in SUBSET o : TabletPrint(o, js)
           \/ \E o \in Orders : MarkOrderRead(o)
           \/ \E o \in Orders : \E j \in o : MarkOrderWrite(o, j)
    PROVE  Hands'
  <1>0. RowType BY TypeParts
  <1>1. CASE ClearQueue
    <2>1. \A j \in Jobs : Open(j)' => Open(j)
      BY <1>0, <1>1 DEF ClearQueue, Open, Claimable, Active, RowType
    <2> QED BY <1>1, <2>1, BusyHolds, RowsOnly DEF ClearQueue
  <1>2. ASSUME NEW j \in Jobs, PromoteRetry(j) PROVE Hands'
    <2>1. \A k \in Jobs : Open(k)' => Open(k)
      BY <1>0, <1>2 DEF PromoteRetry, SetStatus, Open, Claimable, RowType
    <2> QED BY <1>2, <2>1, BusyHolds, RowsOnly DEF PromoteRetry
  <1>3. ASSUME NEW j \in Jobs, ReleaseStale(j) PROVE Hands'
    <2>1. ~Busy(j) BY <1>3 DEF ReleaseStale
    <2>2. \A k \in Jobs \ {j} : claimedBy'[k] = claimedBy[k] /\ (Open(k)' => Open(k))
      BY <1>0, <1>3 DEF ReleaseStale, SetStatus, Open, Claimable, RowType
    <2> QED BY <1>3, <2>1, <2>2, BusyHolds, RowsOnly DEF ReleaseStale
  <1>4. ASSUME NEW o \in Orders, MarkOrderRead(o) \/ \E js : TabletPrint(o, js) PROVE Hands'
    <2>1. \A k \in Jobs : Open(k)' => Open(k)
      BY <1>4 DEF TabletPrint, MarkOrderRead, row, Open, Claimable
    <2> QED BY <1>4, <2>1, BusyHolds, RowsOnly DEF TabletPrint, MarkOrderRead, row
  <1>5. ASSUME NEW o \in Orders, NEW j \in o, MarkOrderWrite(o, j) PROVE Hands'
    <2>1. \A k \in Jobs : Open(k)' => Open(k)
      BY <1>0, <1>5 DEF MarkOrderWrite, SetStatus, Open, Claimable, RowType
    <2> QED BY <1>5, <2>1, BusyHolds, RowsOnly DEF MarkOrderWrite
  <1> QED BY <1>1, <1>2, <1>3, <1>4, <1>5
-----------------------------------------------------------------------------
LEMMA HandsStep ==
    ASSUME TypeOK, HandsInv, [Next]_vars
    PROVE  HandsInv'
  <1> SUFFICES ASSUME Calm' PROVE Hands' BY DEF HandsInv
  <1>0. Hands /\ \A f \in {"slow", "lost"} : ~Fault(f) BY CalmStays DEF HandsInv
  <1>1. AgentType BY TypeParts
  <1>2. ASSUME NEW a \in Agents, NEW js \in SUBSET Jobs, AgentClaim(a, js) PROVE Hands'
    BY <1>0, <1>2, ClaimHands DEF AgentClaim
  <1>3. ASSUME NEW a \in Agents, NEW j \in Jobs, AgentStart(a, j) PROVE Hands'
    <2>1. Has(agent[a], j) BY <1>3 DEF AgentStart, Has
    <2> QED BY <1>0, <1>3, <2>1, AskHands DEF AgentStart, Kinds
  <1>4. ASSUME NEW a \in Agents, AgentPrint(a) \/ AgentPrintThrows(a) PROVE Hands'
    <2>1. agent[a].pc = "print" BY <1>4 DEF AgentPrint, AgentPrintThrows
    <2>2. agent[a].job \in Jobs BY <1>1, <2>1, AgentRecords DEF AgentType
    <2>3. Has(agent[a], agent[a].job) BY <2>1 DEF Has
    <2> QED BY <1>0, <1>4, <2>1, <2>2, <2>3, AskHands DEF AgentPrint, AgentPrintThrows, Kinds
  <1>5. ASSUME NEW a \in Agents, AgentCrash(a) PROVE Hands'
    BY <1>0, <1>5, AgentCrashHands
  <1>6. ASSUME NEW a \in Agents, NEW op \in owed[a] PROVE FALSE
    BY <1>0, <1>6 DEF Hands, NothingOwed
  <1>7. ASSUME NEW c \in calls, Authorise(c) \/ Handle(c) \/ Disconnect(c) PROVE Hands'
    <2>1. ~Disconnect(c) BY <1>0 DEF Disconnect
    <2> QED BY <1>0, <1>7, <2>1, AuthoriseHands, HandleHands
  <1>8. ASSUME NEW t \in Ticks, NEW j \in Jobs, DirectClaim(t, j) PROVE Hands'
    BY <1>0, <1>8, DirectClaimHands
  <1>9. CASE Next
    BY <1>0, <1>2, <1>3, <1>4, <1>5, <1>6, <1>7, <1>8, <1>9, NextStep, DirectHands, OutsideHands
  <1>10. CASE UNCHANGED vars
    <2>1. UNCHANGED <<agent, owed, calls, tick, claimedBy, status>> BY <1>10 DEF vars
    <2>2. \A j \in Jobs : Open(j)' => Open(j) BY <2>1 DEF Open, Claimable
    <2> QED BY <1>0, <2>1, <2>2, BusyHolds, RowsOnly
  <1> QED BY <1>9, <1>10

LEMMA HandsInit == ASSUME Init PROVE Hands
  BY DEF Init, Hands, AgentsHold, CallsHold, TicksHold, OneCall, NothingOwed, JobOnce,
     Has, Sends, Ready

LEMMA HandsCorrect == Spec => [](TypeOK /\ HandsInv)
  <1>1. Init => TypeOK /\ HandsInv BY TypeInit, HandsInit DEF HandsInv
  <1>2. TypeOK /\ HandsInv /\ [Next]_vars => (TypeOK /\ HandsInv)'
    BY TypeStep, HandsStep
  <1> QED BY <1>1, <1>2, PTL DEF Spec
-----------------------------------------------------------------------------
(* Who is busy with a job after a step was so before it *)

LEMMA ClaimBusy ==
    ASSUME TypeOK, NEW a \in Agents, NEW js \in SUBSET Jobs,
           AgentClaim(a, js), NEW j \in Jobs, j \notin js, Busy(j)'
    PROVE  Busy(j)
  <1>1. /\ \A b \in Agents \ {a} : agent'[b] = agent[b]
        /\ agent'[a] = agent[a] \/ agent'[a] = Ready(js)
        /\ UNCHANGED <<calls, tick>>
    BY TypeParts DEF AgentClaim, AgentType
  <1>2. ~Has(Ready(js), j) BY HasRecords
  <1>3. \A b \in Agents : Has(agent[b], j)' => Has(agent[b], j) BY <1>1, <1>2 DEF Has
  <1> QED BY <1>1, <1>3 DEF Busy

LEMMA AskBusy ==
    ASSUME TypeOK, NEW a \in Agents, NEW kind \in Kinds, NEW k \in Jobs, Has(agent[a], k),
           agent[a].pc \in {"ready", "print"}, agent[a].pc = "print" => agent[a].job = k,
           Ask(a, kind, k), UNCHANGED tick, NEW j \in Jobs, Busy(j)'
    PROVE  Busy(j)
  <1>1. /\ \A b \in Agents \ {a} : agent'[b] = agent[b]
        /\ agent'[a] = At(kind, k, agent[a].rest \ {k})
        /\ calls' = calls \union {Call(kind, "loop", a, k)}
    BY TypeParts DEF Ask, AgentType
  <1>2. Has(agent[a], j)' => Has(agent[a], j)
    <2>1. Has(At(kind, k, agent[a].rest \ {k}), j) => j \in agent[a].rest \/ j = k
      BY HasRecords DEF Kinds
    <2>2. j \in agent[a].rest => Has(agent[a], j) BY DEF Has
    <2> QED BY <1>1, <2>1, <2>2 DEF Has
  <1>3. \A b \in Agents : Has(agent[b], j)' => Has(agent[b], j) BY <1>1, <1>2 DEF Has
  <1>4. Call(kind, "loop", a, k).job = k BY DEF Call
  <1> QED BY <1>1, <1>3, <1>4 DEF Busy

LEMMA AgentBusy ==
    ASSUME TypeOK, NEW a \in Agents,
           \/ \E k \in Jobs : AgentStart(a, k)
           \/ AgentPrint(a) \/ AgentPrintThrows(a) \/ AgentCrash(a),
           NEW j \in Jobs, Busy(j)'
    PROVE  Busy(j)
  <1>0. AgentType BY TypeParts
  <1>1. ASSUME NEW k \in Jobs, AgentStart(a, k) PROVE Busy(j)
    <2>1. Has(agent[a], k) BY <1>1 DEF AgentStart, Has
    <2> QED BY <1>1, <2>1, AskBusy DEF AgentStart, Kinds
  <1>2. CASE AgentPrint(a) \/ AgentPrintThrows(a)
    <2>1. agent[a].pc = "print" BY <1>2 DEF AgentPrint, AgentPrintThrows
    <2>2. agent[a].job \in Jobs BY <1>0, <2>1, AgentRecords DEF AgentType
    <2>3. Has(agent[a], agent[a].job) BY <2>1 DEF Has
    <2> QED BY <1>2, <2>1, <2>2, <2>3, AskBusy DEF AgentPrint, AgentPrintThrows, Kinds
  <1>3. CASE AgentCrash(a)
    <2>1. /\ \A b \in Agents \ {a} : agent'[b] = agent[b]
          /\ agent'[a] = Ready({}) /\ UNCHANGED tick
      BY <1>0, <1>3 DEF AgentCrash, AgentType
    <2>2. ~Has(Ready({}), j) BY HasRecords
    <2>3. \A b \in Agents : Has(agent[b], j)' => Has(agent[b], j) BY <2>1, <2>2 DEF Has
    <2>4. \A c \in calls' : \E d \in calls : d.job = c.job
      BY <1>0, <1>3 DEF AgentCrash, AgentType, Calls
    <2> QED BY <2>1, <2>3, <2>4 DEF Busy
  <1> QED BY <1>1, <1>2, <1>3

LEMMA AuthoriseBusy ==
    ASSUME TypeOK, Hands, NEW c \in calls, Authorise(c), NEW j \in Jobs, Busy(j)'
    PROVE  Busy(j)
  <1>0. c \in Calls BY TypeParts DEF AgentType
  <1>1. claimedBy[c.job] = c.agent BY DEF Hands, CallsHold
  <1>2. /\ calls' = (calls \ {c}) \union {[c EXCEPT !.seen = attempts[c.job]]}
        /\ UNCHANGED <<agent, tick>>
    BY <1>1 DEF Authorise
  <1>3. [c EXCEPT !.seen = attempts[c.job]].job = c.job BY <1>0 DEF Calls
  <1> QED BY <1>2, <1>3 DEF Busy, Has

LEMMA HandleBusy ==
    ASSUME TypeOK, Hands, NEW c \in calls, Handle(c), NEW j \in Jobs, Busy(j)'
    PROVE  Busy(j) /\ (j = c.job => c.kind = "start")
  <1>1. /\ \A d \in calls' : d \in calls /\ d.job # c.job
        /\ UNCHANGED tick
    BY DEF Handle, Hands, OneCall
  <1>2. \A b \in Agents : Has(agent[b], j)' => Has(agent[b], j) /\ (j = c.job => c.kind = "start")
    BY HandleDrops
  <1>3. \A t \in Ticks : Sends(t, j) => j # c.job BY DEF Hands, TicksHold
  <1> QED BY <1>1, <1>2, <1>3 DEF Busy, Sends

-----------------------------------------------------------------------------
(* A held row can be taken back *)

\* The claim and its time are written and cleared together.
Dated == \A j \in Jobs : claimedBy[j] \in Agents => held[j]
HeldInv == Dated /\ (Calm => HeldIsReleasable)

LEMMA HeldStep ==
    ASSUME TypeOK, HandsInv, HeldInv, [Next]_vars
    PROVE  HeldInv'
  <1>0. RowType /\ AgentType BY TypeParts
  <1>1. Calm' => Calm BY CalmStays
  <1>2. ASSUME UNCHANGED <<claimedBy, held>>,
               \A j \in Jobs : status'[j] \in {"CLAIMED", "PRINTING"}
                                 => status[j] \in {"CLAIMED", "PRINTING"}
        PROVE  HeldInv'
    BY <1>1, <1>2 DEF HeldInv, Dated, HeldIsReleasable
  <1>3. ASSUME NEW a \in Agents, NEW js \in SUBSET Jobs, AgentClaim(a, js) PROVE HeldInv'
    BY <1>0, <1>1, <1>3 DEF AgentClaim, Take, RowType, HeldInv, Dated, HeldIsReleasable
  <1>4. ASSUME NEW c \in calls, Handle(c) PROVE HeldInv'
    <2>0. c.job \in Jobs /\ c.agent \in Agents BY <1>0, CallRecords DEF AgentType
    <2>1. CASE c.kind = "start" /\ SetStatus(c.job, "PRINTING") /\ UNCHANGED <<claimedBy, held>>
      <3>1. Calm => held[c.job]
        BY <2>0 DEF HandsInv, Hands, CallsHold, HeldInv, Dated
      <3> QED BY <1>0, <1>1, <2>0, <2>1, <3>1 DEF SetStatus, RowType, HeldInv, Dated, HeldIsReleasable
    <2>2. CASE SetStatus(c.job, "PRINTED") /\ UNCHANGED <<claimedBy, held>>
      BY <1>0, <1>2, <2>2 DEF SetStatus, RowType
    <2>3. CASE MarkFailed(c.job, c.seen + 1)
      <3>1. /\ status'[c.job] \notin {"CLAIMED", "PRINTING"} /\ claimedBy'[c.job] \notin Agents
            /\ \A j \in Jobs \ {c.job} : /\ status'[j] = status[j] /\ held'[j] = held[j]
                                         /\ claimedBy'[j] = claimedBy[j]
        BY <1>0, <2>0, <2>3, NobodyAssumption DEF MarkFailed, SetStatus, RowType
      <3> QED BY <1>1, <3>1 DEF HeldInv, Dated, HeldIsReleasable
    <2> QED BY <1>4, <2>1, <2>2, <2>3 DEF Handle
  <1>5. ASSUME NEW t \in Ticks, NEW j \in Jobs, DirectClaim(t, j) PROVE HeldInv'
    BY <1>0, <1>1, <1>5 DEF DirectClaim, SetStatus, RowType, HeldInv, Dated, HeldIsReleasable
  <1>6. ASSUME NEW j \in Jobs, ReleaseStale(j) PROVE HeldInv'
    BY <1>0, <1>1, <1>6, NobodyAssumption
       DEF ReleaseStale, SetStatus, RowType, HeldInv, Dated, HeldIsReleasable
  <1>7. ASSUME NEW j, PromoteRetry(j) \/ \E o \in Orders : MarkOrderWrite(o, j) PROVE HeldInv'
    BY <1>0, <1>2, <1>7 DEF PromoteRetry, MarkOrderWrite, SetStatus, RowType
  <1>8. ASSUME NEW t \in Ticks, DirectMark(t) \/ DirectMarkThrows(t) \/ DirectRetry(t) PROVE HeldInv'
    BY <1>0, <1>2, <1>8 DEF DirectMark, DirectMarkThrows, DirectRetry, SetStatus, RowType
  <1>9. CASE ClearQueue BY <1>0, <1>2, <1>9 DEF ClearQueue, RowType
  <1>10. CASE UNCHANGED row BY <1>2, <1>10 DEF row
  <1>11. CASE Next
    <2>1. \/ \E a \in Agents, js \in SUBSET Jobs : AgentClaim(a, js)
          \/ \E c \in calls : Handle(c)
          \/ \E t \in Ticks, j \in Jobs : DirectClaim(t, j)
          \/ \E j \in Jobs : PromoteRetry(j) \/ ReleaseStale(j)
          \/ \E o \in Orders : \E j \in o : MarkOrderWrite(o, j)
          \/ \E t \in Ticks : DirectMark(t) \/ DirectMarkThrows(t) \/ DirectRetry(t)
          \/ ClearQueue \/ UNCHANGED row
      BY <1>11, NextStep DEF AgentStart, AgentPrint, AgentPrintThrows, AgentCrash, Flush,
         Authorise, Disconnect, DirectRead, DirectPrint, DirectPrintThrows, DirectCrash,
         TabletPrint, MarkOrderRead
    <2> QED BY <1>3, <1>4, <1>5, <1>6, <1>7, <1>8, <1>9, <1>10, <2>1
  <1>12. CASE UNCHANGED vars BY <1>10, <1>12 DEF vars, row
  <1> QED BY <1>11, <1>12

\* As long as no connection breaks and no work outlives its claim, a row that is
\* CLAIMED or PRINTING carries the time by which it can be taken back: after any
\* crashes, refused sends and torn tickets, with the cron, the tablet and the
\* operator at work on the same rows.
THEOREM HeldCorrect ==
    ASSUME Faults \intersect {"slow", "lost"} = {}
    PROVE  Spec => []HeldIsReleasable
  <1>1. Init => HeldInv
    BY NobodyAssumption DEF Init, HeldInv, Dated, HeldIsReleasable
  <1>2. TypeOK /\ HandsInv /\ HeldInv /\ [Next]_vars => HeldInv' BY HeldStep
  <1>3. Init => Calm BY DEF Init, Calm
  <1>4. Calm /\ [Next]_vars => Calm' BY CalmAlways
  <1>5. Calm /\ HeldInv => HeldIsReleasable BY DEF HeldInv
  <1> QED BY <1>1, <1>2, <1>3, <1>4, <1>5, HandsCorrect, PTL DEF Spec
-----------------------------------------------------------------------------
(* A dead row stays dead *)

NoTablet == \A o \in Orders : tablet[o].at = "unseen"

LEMMA NoTabletStep ==
    ASSUME Parts \intersect {"operator", "tablet"} = {}, NoTablet, [Next]_vars
    PROVE  NoTablet'
  <1>1. CASE UNCHANGED tablet BY <1>1 DEF NoTablet
  <1>2. \A o \in Orders : /\ \A js \in SUBSET o : ~TabletPrint(o, js)
                          /\ ~MarkOrderRead(o)
                          /\ \A j \in o : ~MarkOrderWrite(o, j)
    BY DEF NoTablet, TabletPrint, MarkOrderRead, MarkOrderWrite
  <1>3. CASE Next
    BY <1>1, <1>2, <1>3, NextStep DEF AgentClaim, AgentStart, AgentPrint, AgentPrintThrows,
       AgentCrash, Flush, Authorise, Handle, Disconnect, DirectRead, DirectClaim,
       DirectPrint, DirectPrintThrows, DirectMark, DirectMarkThrows, DirectRetry,
       DirectCrash, PromoteRetry, ReleaseStale, ClearQueue
  <1>4. CASE UNCHANGED vars BY <1>1, <1>4 DEF vars
  <1> QED BY <1>3, <1>4

LEMMA DeadStep ==
    ASSUME TypeOK, Hands, NoTablet, "operator" \notin Parts, [Next]_vars,
           NEW j \in Jobs, status[j] = "FAILED"
    PROVE  status'[j] = "FAILED"
  <1>0. RowType /\ AgentType /\ Open(j) BY TypeParts DEF Open
  <1>1. ASSUME NEW a \in Agents, NEW js \in SUBSET Jobs, AgentClaim(a, js) PROVE j \notin js
    BY <1>1 DEF AgentClaim, Claimable
  <1>2. ASSUME NEW c \in calls, Handle(c) PROVE status'[j] = status[j]
    <2>1. c.job # j BY <1>0 DEF Hands, CallsHold
    <2> QED BY <1>0, <1>2, <2>1 DEF Handle, MarkFailed, SetStatus, RowType
  <1>3. ASSUME NEW t \in Ticks, DirectMark(t) \/ DirectMarkThrows(t) \/ DirectRetry(t)
        PROVE  status'[j] = status[j]
    <2>1. ~Sends(t, j) BY <1>0 DEF Hands, TicksHold
    <2> QED BY <1>0, <1>3, <2>1 DEF DirectMark, DirectMarkThrows, DirectRetry, Sends, SetStatus, RowType
  <1>4. ASSUME NEW t \in Ticks, NEW k \in Jobs, DirectClaim(t, k) PROVE status'[j] = status[j]
    BY <1>0, <1>4 DEF DirectClaim, SetStatus, RowType
  <1>5. ASSUME NEW k \in Jobs, PromoteRetry(k) \/ ReleaseStale(k) PROVE status'[j] = status[j]
    BY <1>0, <1>5 DEF PromoteRetry, ReleaseStale, Stale, SetStatus, RowType
  <1>6. ~ClearQueue /\ \A o \in Orders : \A k \in o : ~MarkOrderWrite(o, k)
    BY DEF ClearQueue, MarkOrderWrite, NoTablet
  <1>7. CASE Next
    <2>1. \/ \E a \in Agents, js \in SUBSET Jobs : AgentClaim(a, js)
          \/ \E c \in calls : Handle(c)
          \/ \E t \in Ticks, k \in Jobs : DirectClaim(t, k)
          \/ \E k \in Jobs : PromoteRetry(k) \/ ReleaseStale(k)
          \/ \E t \in Ticks : DirectMark(t) \/ DirectMarkThrows(t) \/ DirectRetry(t)
          \/ UNCHANGED status
      BY <1>6, <1>7, NextStep DEF AgentStart, AgentPrint, AgentPrintThrows, AgentCrash, Flush,
         Authorise, Disconnect, DirectRead, DirectPrint, DirectPrintThrows, DirectCrash,
         TabletPrint, MarkOrderRead, row
    <2> QED BY <1>0, <1>1, <1>2, <1>3, <1>4, <1>5, <2>1 DEF AgentClaim, Take, RowType
  <1>8. CASE UNCHANGED vars BY <1>8 DEF vars
  <1> QED BY <1>7, <1>8

\* A dead-lettered row is never taken up again by agents and crons, whatever
\* crashes or is refused, as long as no connection breaks and no work outlives its
\* claim; the operator's Clear queue and the tablet are left out, as they write
\* rows somebody has in hand.
THEOREM DeadLetterCorrect ==
    ASSUME Faults \intersect {"slow", "lost"} = {}, Parts \intersect {"operator", "tablet"} = {}
    PROVE  Spec => DeadLetterIsFinal
  <1> DEFINE dead == \A j \in Jobs : status[j] = "FAILED" => status'[j] = "FAILED"
  <1>1. Init => Calm /\ NoTablet BY DEF Init, Calm, NoTablet
  <1>2. Calm /\ [Next]_vars => Calm' BY CalmAlways
  <1>3. NoTablet /\ [Next]_vars => NoTablet' BY NoTabletStep
  <1>4. TypeOK /\ HandsInv /\ Calm /\ NoTablet /\ [Next]_vars => [dead]_vars
    BY DeadStep DEF HandsInv
  <1>5. Spec => [][dead]_vars
    <2> HIDE DEF dead
    <2> QED BY <1>1, <1>2, <1>3, <1>4, HandsCorrect, PTL DEF Spec
  <1> QED BY <1>5 DEF DeadLetterIsFinal
-----------------------------------------------------------------------------
(* A ticket is tried no more often than it may be *)

\* No tick of the cron ever begins: "direct" is not among the parts.
NoDirect == \A t \in Ticks : tick[t] = Ready({})

\* "After 3 attempts (configurable per job via maxRetries)" a job is dead-lettered
\* (docs/printers/LAN_PRINTING.md:46): what is still to be printed has an attempt left.
RetriesCounted ==
    \A j \in Jobs : /\ attempts[j] <= MaxRetries
                    /\ status[j] \in Active => attempts[j] < MaxRetries

\* markFailed counts from the attempts requireClaimedBy read: they are still the
\* row's.  A job in somebody's hands has an attempt left, whatever its row says.
ReadStands == \A c \in calls : c.seen # Unread => c.seen = attempts[c.job]
BusyMayTry == \A j \in Jobs : Busy(j) => attempts[j] < MaxRetries
RetryInv == RetriesCounted /\ ReadStands /\ BusyMayTry

LEMMA NoDirectStep ==
    ASSUME "direct" \notin Parts, NoDirect, [Next]_vars
    PROVE  NoDirect'
  <1>1. CASE UNCHANGED tick BY <1>1 DEF NoDirect
  <1>2. \A t \in Ticks : tick[t].pc = "ready" /\ tick[t].rest = {} BY DEF NoDirect, Ready
  <1>3. \A t \in Ticks, j \in Jobs : ~DirectClaim(t, j) BY <1>2 DEF DirectClaim
  <1>4. \A t \in Ticks :
           /\ \A js \in SUBSET Jobs : ~DirectRead(t, js)
           /\ ~DirectPrint(t) /\ ~DirectPrintThrows(t) /\ ~DirectMark(t)
           /\ ~DirectMarkThrows(t) /\ ~DirectRetry(t) /\ ~DirectCrash(t)
    BY <1>2 DEF NoDirect, DirectRead, DirectPrint, DirectPrintThrows, DirectMark,
       DirectMarkThrows, DirectRetry, DirectCrash
  <1>5. CASE Next
    BY <1>1, <1>3, <1>4, <1>5, NextStep DEF AgentClaim, AgentStart, AgentPrint,
       AgentPrintThrows, AgentCrash, Flush, Authorise, Handle, Disconnect, PromoteRetry,
       ReleaseStale, TabletPrint, MarkOrderRead, MarkOrderWrite, ClearQueue
  <1>6. CASE UNCHANGED vars BY <1>1, <1>6 DEF vars
  <1> QED BY <1>5, <1>6

\* A step that counts nothing, and sets on their way only jobs with an attempt left.
LEMMA RetryKept ==
    ASSUME RetryInv, UNCHANGED attempts,
           \A j \in Jobs : status'[j] \in Active => status[j] \in Active \/ Busy(j),
           \A j \in Jobs : Busy(j)' => Busy(j) \/ status[j] \in Active,
           \A c \in calls' : c.seen # Unread => \E d \in calls : d.seen = c.seen /\ d.job = c.job
    PROVE  RetryInv'
  <1>1. RetriesCounted' BY DEF RetryInv, RetriesCounted, BusyMayTry
  <1>2. ReadStands' BY DEF RetryInv, ReadStands
  <1>3. BusyMayTry' BY DEF RetryInv, RetriesCounted, BusyMayTry
  <1> QED BY <1>1, <1>2, <1>3 DEF RetryInv

LEMMA AgentRetry ==
    ASSUME TypeOK, RetryInv, NEW a \in Agents,
           \/ \E js \in SUBSET Jobs : AgentClaim(a, js)
           \/ \E k \in Jobs : AgentStart(a, k)
           \/ AgentPrint(a) \/ AgentPrintThrows(a) \/ AgentCrash(a)
    PROVE  RetryInv'
  <1>0. RowType /\ AgentType BY TypeParts
  <1>1. ASSUME NEW js \in SUBSET Jobs, AgentClaim(a, js) PROVE RetryInv'
    <2>1. UNCHANGED <<attempts, calls>> BY <1>1 DEF AgentClaim, Take
    <2>2. \A j \in js : status[j] \in Active BY <1>1 DEF AgentClaim, Claimable, Active
    <2>3. \A j \in Jobs : status'[j] \in Active => status[j] \in Active
      BY <1>1, <2>2 DEF AgentClaim, Take
    <2>4. \A j \in Jobs : Busy(j)' => Busy(j) \/ status[j] \in Active
      BY <1>1, <2>2, ClaimBusy
    <2> QED BY <2>1, <2>3, <2>4, RetryKept
  <1>2. CASE \/ \E k \in Jobs : AgentStart(a, k)
             \/ AgentPrint(a) \/ AgentPrintThrows(a) \/ AgentCrash(a)
    <2>1. UNCHANGED <<attempts, status>>
      BY <1>2 DEF AgentStart, AgentPrint, AgentPrintThrows, AgentCrash, row
    <2>2. \A j \in Jobs : Busy(j)' => Busy(j) BY <1>2, AgentBusy
    <2>3. CASE \E kind, k : calls' = calls \union {Call(kind, "loop", a, k)}
      <3>1. \A kind, k : Call(kind, "loop", a, k).seen = Unread BY DEF Call
      <3> QED BY <2>1, <2>2, <2>3, <3>1, RetryKept
    <2>4. CASE AgentCrash(a)
      <3>1. \A c \in calls : /\ [c EXCEPT !.from = "nobody"].seen = c.seen
                             /\ [c EXCEPT !.from = "nobody"].job = c.job
        BY <1>0 DEF AgentType, Calls
      <3>2. \A c \in calls' : c \in calls \/ \E d \in calls : c = [d EXCEPT !.from = "nobody"]
        BY <2>4 DEF AgentCrash
      <3>3. \A c \in calls' : \E d \in calls : d.seen = c.seen /\ d.job = c.job
        BY <3>1, <3>2
      <3> QED BY <2>1, <2>2, <3>3, RetryKept
    <2> QED BY <1>2, <2>3, <2>4 DEF AgentStart, AgentPrint, AgentPrintThrows, Ask
  <1> QED BY <1>1, <1>2

LEMMA CallRetry ==
    ASSUME TypeOK, Hands, RetryInv, NEW c \in calls, Authorise(c) \/ Handle(c)
    PROVE  RetryInv'
  <1>0. RowType /\ AgentType /\ c \in Calls /\ c.job \in Jobs /\ c.kind \in Kinds
    BY TypeParts, CallRecords DEF AgentType
  <1>1. Busy(c.job) BY <1>0, BusyMeans
  <1>2. CASE Authorise(c)
    <2> DEFINE read == [c EXCEPT !.seen = attempts[c.job]]
    <2>1. claimedBy[c.job] = c.agent BY DEF Hands, CallsHold
    <2>2. calls' = (calls \ {c}) \union {read} /\ UNCHANGED <<attempts, status>>
      BY <1>2, <2>1 DEF Authorise, row
    <2>3. read.seen = attempts[c.job] /\ read.job = c.job BY <1>0 DEF Calls
    <2>4. RetriesCounted' BY <2>2 DEF RetryInv, RetriesCounted
    <2>5. ReadStands'
      <3> HIDE DEF read
      <3> QED BY <2>2, <2>3 DEF RetryInv, ReadStands
    <2>6. BusyMayTry' BY <1>2, <2>2, AuthoriseBusy DEF RetryInv, BusyMayTry
    <2> QED BY <2>4, <2>5, <2>6 DEF RetryInv
  <1>3. CASE Handle(c)
    <2>1. c.seen = attempts[c.job] /\ attempts[c.job] < MaxRetries
      BY <1>0, <1>1, <1>3 DEF Handle, RetryInv, ReadStands, BusyMayTry
    <2>2. \A d \in calls' : d \in calls /\ d.job # c.job BY <1>3 DEF Handle, Hands, OneCall
    <2>3. \A j \in Jobs : Busy(j)' => Busy(j) /\ (j = c.job => c.kind = "start")
      BY <1>3, HandleBusy
    <2>4. CASE c.kind # "fail"
      <3>1. UNCHANGED attempts BY <1>3, <2>4 DEF Handle
      <3>2. \A j \in Jobs \ {c.job} : status'[j] = status[j]
        BY <1>0, <1>3, <2>4 DEF Handle, SetStatus, RowType
      <3> QED BY <1>1, <2>2, <2>3, <3>1, <3>2, RetryKept
    <2>5. CASE c.kind = "fail"
      <3>1. MarkFailed(c.job, attempts[c.job] + 1) BY <1>3, <2>1, <2>5 DEF Handle
      <3>2. \A j \in Jobs \ {c.job} : status'[j] = status[j] /\ attempts'[j] = attempts[j]
        BY <1>0, <3>1 DEF MarkFailed, SetStatus, RowType
      <3>3. /\ attempts'[c.job] = attempts[c.job] + 1
            /\ status'[c.job] = IF attempts[c.job] + 1 < MaxRetries THEN "RETRYING" ELSE "FAILED"
        BY <1>0, <3>1 DEF MarkFailed, SetStatus, RowType, WillRetry
      <3>4. RetriesCounted'
        <4> SUFFICES ASSUME NEW j \in Jobs
                     PROVE  /\ attempts'[j] <= MaxRetries
                            /\ status'[j] \in Active => attempts'[j] < MaxRetries
          BY DEF RetriesCounted
        <4>1. CASE j = c.job
          BY <1>0, <2>1, <3>3, <4>1, MaxRetriesAssumption DEF RowType, Active
        <4>2. CASE j # c.job BY <3>2, <4>2 DEF RetryInv, RetriesCounted
        <4> QED BY <4>1, <4>2
      <3>5. ReadStands'
        <4>1. \A d \in calls : d.job \in Jobs BY <1>0, CallRecords DEF AgentType
        <4> QED BY <2>2, <3>2, <4>1 DEF RetryInv, ReadStands
      <3>6. BusyMayTry' BY <2>3, <2>5, <3>2 DEF RetryInv, BusyMayTry
      <3> QED BY <3>4, <3>5, <3>6 DEF RetryInv
    <2> QED BY <2>4, <2>5
  <1> QED BY <1>2, <1>3

LEMMA OutsideRetry ==
    ASSUME TypeOK, RetryInv,
           \/ ClearQueue
           \/ \E j \in Jobs : PromoteRetry(j) \/ ReleaseStale(j)
           \/ \E o \in Orders : \E js \in SUBSET o : TabletPrint(o, js)
           \/ \E o \in Orders : MarkOrderRead(o)
           \/ \E o \in Orders : \E j \in o : MarkOrderWrite(o, j)
    PROVE  RetryInv'
  <1>0. RowType BY TypeParts
  <1>1. UNCHANGED <<attempts, agent, calls, tick>>
    BY DEF ClearQueue, PromoteRetry, ReleaseStale, TabletPrint, MarkOrderRead, MarkOrderWrite, row
  <1>2. \A j \in Jobs : Busy(j)' => Busy(j) BY <1>1 DEF Busy, Has
  <1>3. \A j \in Jobs : status'[j] \in Active => status[j] \in Active
    <2>1. CASE ClearQueue BY <1>0, <2>1 DEF ClearQueue, RowType, Active
    <2>2. ASSUME NEW k, \/ PromoteRetry(k) \/ ReleaseStale(k)
                        \/ \E o \in Orders : MarkOrderWrite(o, k)
          PROVE  \A j \in Jobs : status'[j] \in Active => status[j] \in Active
      BY <1>0, <2>2 DEF PromoteRetry, ReleaseStale, Stale, MarkOrderWrite, SetStatus, RowType, Active
    <2>3. ASSUME NEW o, MarkOrderRead(o) \/ \E js : TabletPrint(o, js) PROVE UNCHANGED status
      BY <2>3 DEF TabletPrint, MarkOrderRead, row
    <2> QED BY <2>1, <2>2, <2>3
  <1> QED BY <1>1, <1>2, <1>3, RetryKept

LEMMA RetryStep ==
    ASSUME TypeOK, Hands, NoDirect, "direct" \notin Parts, RetryInv, [Next]_vars,
           \A f \in {"slow", "lost"} : ~Fault(f)
    PROVE  RetryInv'
  <1>1. /\ \A c \in calls : ~Disconnect(c)
        /\ \A a \in Agents : owed[a] = {}
    BY DEF Disconnect, Hands, NothingOwed
  <1>2. CASE UNCHANGED <<status, attempts, agent, calls, tick>>
    <2>1. \A j \in Jobs : Busy(j)' => Busy(j) BY <1>2 DEF Busy, Has
    <2> QED BY <1>2, <2>1, RetryKept
  <1>3. \A t \in Ticks :
           /\ \A js \in SUBSET Jobs : ~DirectRead(t, js)
           /\ \A j \in Jobs : ~DirectClaim(t, j)
           /\ ~DirectPrint(t) /\ ~DirectPrintThrows(t) /\ ~DirectMark(t)
           /\ ~DirectMarkThrows(t) /\ ~DirectRetry(t) /\ ~DirectCrash(t)
    <2>1. \A t \in Ticks : tick[t].pc = "ready" /\ tick[t].rest = {} BY DEF NoDirect, Ready
    <2> QED BY <2>1 DEF NoDirect, DirectRead, DirectClaim, DirectPrint, DirectPrintThrows,
       DirectMark, DirectMarkThrows, DirectRetry, DirectCrash
  <1>4. CASE Next
    BY <1>1, <1>3, <1>4, NextStep, AgentRetry, CallRetry, OutsideRetry
  <1>5. CASE UNCHANGED vars BY <1>2, <1>5 DEF vars
  <1> QED BY <1>4, <1>5

\* At the printers the agents drive, a ticket is tried MaxRetries times at most, and
\* is given up at the last: after any crashes and torn tickets and claims taken back, with
\* the tablet and the operator at work, as long as no connection breaks and no work
\* outlives its claim.  So an agent that keeps failing does not try for ever.
THEOREM RetriesCorrect ==
    ASSUME Faults \intersect {"slow", "lost"} = {}, "direct" \notin Parts
    PROVE  Spec => []RetriesCounted
  <1>1. Init => Calm /\ NoDirect /\ RetryInv
    BY MaxRetriesAssumption DEF Init, Calm, NoDirect, RetryInv, RetriesCounted, ReadStands, BusyMayTry
  <1>2. Calm /\ [Next]_vars => Calm' BY CalmAlways
  <1>3. NoDirect /\ [Next]_vars => NoDirect' BY NoDirectStep
  <1>4. TypeOK /\ HandsInv /\ Calm /\ NoDirect /\ RetryInv /\ [Next]_vars => RetryInv'
    BY RetryStep DEF HandsInv, Fault
  <1>5. RetryInv => RetriesCounted BY DEF RetryInv
  <1> QED BY <1>1, <1>2, <1>3, <1>4, <1>5, HandsCorrect, PTL DEF Spec
-----------------------------------------------------------------------------
(* One ticket for each job *)

Quiet == faults.kinds \subseteq {"send"}

\* The ticket of j is out, and whoever printed it is about to say so.
AgentReports(j) == \E a \in Agents : agent[a].pc = "complete" /\ agent[a].job = j
TickReports(j) == \E t \in Ticks : tick[t].pc = "printed" /\ tick[t].job = j
Reported(j) == AgentReports(j) \/ TickReports(j)

\* Somebody has j in hand and has not printed it.
AgentFresh(j) ==
    \E a \in Agents : Has(agent[a], j) /\ ~(agent[a].pc = "complete" /\ agent[a].job = j)
TickFresh(j) == \E t \in Ticks : tick[t].pc \in {"print", "failed"} /\ tick[t].job = j
Fresh(j) == AgentFresh(j) \/ TickFresh(j)

Over(j) == status[j] \in {"PRINTED", "FAILED"}

Clean(j) ==
    /\ paper[j] <= 1
    /\ paper[j] = 1 => Reported(j) \/ Over(j)
    /\ Fresh(j) => paper[j] = 0

PaperInv ==
    Quiet => /\ \A c \in calls : c.from = "loop"
             /\ \A j \in Jobs : Unseen(j) => Clean(j)

LEMMA QuietStays ==
    ASSUME TypeOK, [Next]_vars, Quiet'
    PROVE  Quiet /\ Calm' /\ \A f \in AllFaults \ {"send"} : ~Fault(f)
  <1>1. faults \in FaultLog BY DEF TypeOK
  <1>2. UNCHANGED faults \/ \E f : Fault(f) BY FaultsMove
  <1>3. ASSUME NEW f, Fault(f) PROVE faults.kinds \subseteq faults'.kinds /\ f \in faults'.kinds
    BY <1>3 DEF Fault
  <1>4. Quiet BY <1>2, <1>3 DEF Quiet
  <1>5. Calm' BY DEF Quiet, Calm
  <1>6. \A f \in AllFaults \ {"send"} : ~Fault(f) BY <1>3 DEF Quiet
  <1> QED BY <1>4, <1>5, <1>6

LEMMA ReporterIsBusy ==
    ASSUME NEW j \in Jobs, Reported(j) \/ Fresh(j)
    PROVE  Busy(j)
  <1>1. CASE AgentReports(j) \/ AgentFresh(j) BY <1>1, BusyMeans DEF AgentReports, AgentFresh, Has
  <1>2. CASE TickReports(j) \/ TickFresh(j) BY <1>2, BusyMeans DEF TickReports, TickFresh, Sends
  <1> QED BY <1>1, <1>2 DEF Reported, Fresh

\* A row nobody is busy with has no ticket out, unless it is over.
LEMMA NoPaperYet ==
    ASSUME TypeOK, NEW j \in Jobs, Clean(j), ~Over(j), ~Busy(j)
    PROVE  paper[j] = 0
  <1>1. paper[j] \in Nat BY DEF TypeOK
  <1> QED BY <1>1, ReporterIsBusy DEF Clean

\* The two ways a step leaves a job's paper right.
LEMMA CleanBlank == ASSUME NEW j, paper'[j] = 0 PROVE Clean(j)'
  BY DEF Clean

LEMMA CleanSame ==
    ASSUME TypeOK, NEW j \in Jobs, Clean(j), paper'[j] = paper[j],
           AgentFresh(j)' => Fresh(j), TickFresh(j)' => Fresh(j),
           paper[j] = 1 /\ (Reported(j) \/ Over(j)) => Reported(j)' \/ Over(j)'
    PROVE  Clean(j)'
  BY DEF Clean, Fresh

\* A step that changes only rows, and never the row of a ticket that is out.
LEMMA CleanRows ==
    ASSUME TypeOK, NEW j \in Jobs, Clean(j), UNCHANGED <<agent, tick>>, paper'[j] = paper[j],
           status'[j] = status[j] \/ Over(j)' \/ (~Busy(j) /\ ~Over(j))
    PROVE  Clean(j)'
  <1>1. (Reported(j)' <=> Reported(j)) /\ (AgentFresh(j)' <=> AgentFresh(j))
        /\ (TickFresh(j)' <=> TickFresh(j))
    BY DEF Reported, AgentReports, TickReports, AgentFresh, TickFresh, Has
  <1>2. CASE status'[j] = status[j] \/ Over(j)'
    <2>1. Over(j) => Over(j)' BY <1>2 DEF Over
    <2> QED BY <1>1, <2>1, CleanSame DEF Fresh
  <1>3. CASE ~Busy(j) /\ ~Over(j) BY <1>3, NoPaperYet, CleanBlank
  <1> QED BY <1>2, <1>3

\* A step of one agent that prints nothing.
LEMMA CleanAgent ==
    ASSUME TypeOK, NEW j \in Jobs, Clean(j), NEW a \in Agents,
           \A b \in Agents \ {a} : agent'[b] = agent[b],
           UNCHANGED tick, paper'[j] = paper[j],
           Has(agent[a], j)' => Has(agent[a], j) /\ ~(agent[a].pc = "complete" /\ agent[a].job = j),
           agent[a].pc = "complete" /\ agent[a].job = j => Over(j)',
           Over(j) => Over(j)' \/ Fresh(j)
    PROVE  Clean(j)'
  <1>1. AgentFresh(j)' => AgentFresh(j)
    <2> SUFFICES ASSUME NEW b \in Agents, Has(agent[b], j)', ~(agent[b].pc = "complete" /\ agent[b].job = j)'
                 PROVE  AgentFresh(j)
      BY DEF AgentFresh
    <2>1. CASE b = a BY <2>1 DEF AgentFresh
    <2>2. CASE b # a
      <3>1. Has(agent[b], j) BY <2>2 DEF Has
      <3> QED BY <2>2, <3>1 DEF AgentFresh
    <2> QED BY <2>1, <2>2
  <1>2. (TickFresh(j)' <=> TickFresh(j)) /\ (TickReports(j)' <=> TickReports(j))
    BY DEF TickFresh, TickReports
  <1>3. AgentReports(j) => AgentReports(j)' \/ Over(j)' BY DEF AgentReports
  <1>4. paper[j] = 1 => ~Fresh(j) BY DEF Clean
  <1> QED BY <1>1, <1>2, <1>3, <1>4, CleanSame DEF Reported, Fresh

LEMMA ClaimClean ==
    ASSUME TypeOK, Hands, NEW j \in Jobs, Clean(j), NEW a \in Agents, NEW js \in SUBSET Jobs,
           AgentClaim(a, js), agent' = [agent EXCEPT ![a] = Ready(js)]
    PROVE  Clean(j)'
  <1>0. AgentType /\ RowType BY TypeParts
  <1>1. agent[a] = Ready({}) /\ UNCHANGED <<paper, tick>> BY DEF AgentClaim
  <1>2. CASE j \in js
    <2>1. Open(j) /\ ~Over(j) BY <1>2 DEF AgentClaim, Claimable, Open, Over
    <2>2. paper[j] = 0 BY <2>1, BusyHolds, NoPaperYet
    <2> QED BY <1>1, <2>2, CleanBlank
  <1>3. CASE j \notin js
    <2>1. status'[j] = status[j] BY <1>0, <1>3 DEF AgentClaim, Take
    <2>2. agent'[a] = Ready(js) /\ \A b \in Agents \ {a} : agent'[b] = agent[b]
      BY <1>0 DEF AgentType
    <2>3. ~Has(agent[a], j)'
      <3>1. ~Has(Ready(js), j) BY <1>3, HasRecords
      <3> QED BY <2>2, <3>1 DEF Has
    <2>4. agent[a].pc # "complete" BY <1>1 DEF Ready
    <2>5. Over(j) => Over(j)' BY <2>1 DEF Over
    <2> QED BY <1>1, <2>2, <2>3, <2>4, <2>5, CleanAgent
  <1> QED BY <1>2, <1>3

\* An agent asks to start, or reports a send that failed: nothing was printed.
LEMMA AskClean ==
    ASSUME TypeOK, NEW j \in Jobs, Clean(j), NEW a \in Agents, NEW k \in Jobs,
           NEW kind \in {"start", "fail"}, Has(agent[a], k), agent[a].pc \in {"ready", "print"},
           Ask(a, kind, k), UNCHANGED <<status, paper, tick>>
    PROVE  Clean(j)'
  <1>0. AgentType BY TypeParts
  <1>1. /\ agent'[a] = At(kind, k, agent[a].rest \ {k})
        /\ \A b \in Agents \ {a} : agent'[b] = agent[b]
    BY <1>0 DEF Ask, AgentType
  <1>2. Has(agent[a], j)' => Has(agent[a], j)
    <2>1. Has(At(kind, k, agent[a].rest \ {k}), j) => j \in agent[a].rest \/ j = k
      BY HasRecords
    <2>2. j \in agent[a].rest => Has(agent[a], j) BY DEF Has
    <2> QED BY <1>1, <2>1, <2>2 DEF Has
  <1>3. Over(j) => Over(j)' BY DEF Over
  <1> QED BY <1>1, <1>2, <1>3, CleanAgent

\* The ticket comes out: whoever had the job unprinted is alone with it.
LEMMA PrintClean ==
    ASSUME TypeOK, Hands, NEW j \in Jobs, Clean(j), NEW a \in Agents, AgentPrint(a)
    PROVE  Clean(j)'
  <1>0. AgentType /\ RowType BY TypeParts
  <1> DEFINE k == agent[a].job
             left == agent[a].rest \ {k}
  <1>1. /\ agent[a].pc = "print" /\ Comes(k) /\ Ask(a, "complete", k)
        /\ UNCHANGED <<status, tick>>
    BY DEF AgentPrint, row
  <1>2. k \in Jobs /\ agent[a].rest \in SUBSET Jobs BY <1>0, <1>1, AgentRecords DEF AgentType
  <1>3. /\ agent'[a] = At("complete", k, left)
        /\ \A b \in Agents \ {a} : agent'[b] = agent[b]
    BY <1>0, <1>1 DEF Ask, AgentType
  <1>4. \A b \in Agents \ {a} : Has(agent[b], j)' => Has(agent[b], j) BY <1>3 DEF Has
  <1>5. CASE k = j
    <2>1. Has(agent[a], j) /\ AgentFresh(j) BY <1>1, <1>5 DEF Has, AgentFresh
    <2>2. paper'[j] = 1 BY <1>0, <1>1, <1>5, <2>1 DEF Comes, RowType, Clean, Fresh
    <2>3. Reported(j)' BY <1>3, <1>5 DEF Reported, AgentReports, At
    <2>4. ~AgentFresh(j)'
      <3>1. \A b \in Agents \ {a} : ~Has(agent[b], j)'
        BY <1>4, <2>1 DEF Hands, AgentsHold
      <3>2. agent'[a].pc = "complete" /\ agent'[a].job = j BY <1>3, <1>5 DEF At
      <3> QED BY <3>1, <3>2 DEF AgentFresh
    <2>5. ~TickFresh(j)' BY <1>1, <2>1 DEF TickFresh, Hands, TicksHold, Sends
    <2> QED BY <2>2, <2>3, <2>4, <2>5 DEF Clean, Fresh
  <1>6. CASE k # j
    <2>1. paper'[j] = paper[j] BY <1>0, <1>1, <1>6 DEF Comes, RowType
    <2>2. Has(agent[a], j)' => Has(agent[a], j)
      <3>1. Has(At("complete", k, left), j) => j \in agent[a].rest BY <1>6, HasRecords
      <3>2. j \in agent[a].rest => Has(agent[a], j) BY DEF Has
      <3> QED BY <1>3, <3>1, <3>2 DEF Has
    <2>3. Over(j) => Over(j)' BY <1>1 DEF Over
    <2> QED BY <1>1, <1>3, <2>1, <2>2, <2>3, CleanAgent
  <1> QED BY <1>5, <1>6

LEMMA HandleClean ==
    ASSUME TypeOK, Hands, NEW j \in Jobs, Clean(j), NEW c \in calls, c.from = "loop", Handle(c)
    PROVE  Clean(j)'
  <1>0. /\ AgentType /\ RowType /\ c.job \in Jobs /\ c.agent \in Agents /\ c.kind \in Kinds
        /\ agent[c.agent].rest \in SUBSET Jobs
    BY TypeParts, CallRecords, AgentRecords DEF AgentType
  <1> DEFINE a == c.agent
             k == c.job
  <1>1. /\ agent[a].pc = c.kind /\ agent[a].job = k /\ k \notin agent[a].rest
        /\ Has(agent[a], k)
    BY <1>0 DEF Hands, CallsHold, JobOnce, Has, Kinds
  <1>2. /\ \A b \in Agents \ {a} : agent'[b] = agent[b]
        /\ agent'[a] = IF c.kind = "start" THEN At("print", k, agent[a].rest)
                                           ELSE Ready(agent[a].rest)
        /\ UNCHANGED <<paper, tick>>
    BY <1>0 DEF Handle, Answer, AgentType
  <1>3. Has(agent[a], j)' => j \in agent[a].rest \/ (c.kind = "start" /\ j = k)
    <2>1. Has(At("print", k, agent[a].rest), j) => j \in agent[a].rest \/ j = k BY HasRecords
    <2>2. Has(Ready(agent[a].rest), j) => j \in agent[a].rest BY HasRecords
    <2> QED BY <1>2, <2>1, <2>2 DEF Has
  <1>4. CASE j = k /\ c.kind # "complete"
    <2>1. Fresh(j) BY <1>0, <1>1, <1>4 DEF Fresh, AgentFresh
    <2> QED BY <1>2, <2>1, CleanBlank DEF Clean
  <1>5. CASE j # k \/ c.kind = "complete"
    <2>1. Has(agent[a], j)' => Has(agent[a], j) /\ j # k
      BY <1>1, <1>3, <1>5 DEF Has
    <2>2. Over(j) => Over(j)'
      BY <1>0, <1>5 DEF Handle, MarkFailed, SetStatus, RowType, Over
    <2>3. j = k => Over(j)' BY <1>0, <1>5 DEF Handle, SetStatus, RowType, Over
    <2> QED BY <1>0, <1>1, <1>2, <2>1, <2>2, <2>3, CleanAgent
  <1> QED BY <1>4, <1>5

\* A step of one tick.
LEMMA CleanTick ==
    ASSUME TypeOK, NEW j \in Jobs, Clean(j), NEW t \in Ticks,
           \A u \in Ticks \ {t} : tick'[u] = tick[u],
           UNCHANGED agent, paper'[j] = paper[j],
           tick'[t].pc \in {"print", "failed"} /\ tick'[t].job = j => Fresh(j),
           tick[t].pc = "printed" /\ tick[t].job = j => Over(j)',
           Over(j) => Over(j)' \/ Fresh(j)
    PROVE  Clean(j)'
  <1>1. TickFresh(j)' => Fresh(j)
    <2> SUFFICES ASSUME NEW u \in Ticks, tick'[u].pc \in {"print", "failed"}, tick'[u].job = j
                 PROVE  Fresh(j)
      BY DEF TickFresh
    <2>1. CASE u = t BY <2>1
    <2>2. CASE u # t BY <2>2 DEF Fresh, TickFresh
    <2> QED BY <2>1, <2>2
  <1>2. (AgentFresh(j)' <=> AgentFresh(j)) /\ (AgentReports(j)' <=> AgentReports(j))
    BY DEF AgentFresh, AgentReports, Has
  <1>3. TickReports(j) => TickReports(j)' \/ Over(j)' BY DEF TickReports
  <1>4. paper[j] = 1 => ~Fresh(j) BY DEF Clean
  <1> QED BY <1>1, <1>2, <1>3, <1>4, CleanSame DEF Reported, Fresh

LEMMA DirectClean ==
    ASSUME TypeOK, Hands, NEW j \in Jobs, Clean(j), NEW t \in Ticks,
           \A f \in AllFaults \ {"send"} : ~Fault(f),
           \/ \E js \in SUBSET Jobs : DirectRead(t, js)
           \/ \E k \in Jobs : DirectClaim(t, k)
           \/ DirectPrint(t) \/ DirectPrintThrows(t) \/ DirectMark(t)
           \/ DirectMarkThrows(t) \/ DirectRetry(t) \/ DirectCrash(t)
    PROVE  Clean(j)'
  <1>0. RowType /\ tick \in [Ticks -> TickStates] BY TypeParts DEF TickType
  <1>1. ~DirectMarkThrows(t) /\ ~DirectCrash(t)
    BY DEF DirectMarkThrows, DirectCrash, AllFaults
  <1>2. ASSUME NEW pc \in {"printed", "failed"}, tick[t].pc = "print", Proceed(t, pc)
        PROVE  /\ \A u \in Ticks \ {t} : tick'[u] = tick[u]
               /\ tick'[t].pc = pc /\ tick'[t].job = tick[t].job
    BY <1>0, <1>2 DEF Proceed, TickStates
  <1>3. ASSUME NEW js \in SUBSET Jobs, DirectRead(t, js) PROVE Clean(j)'
    <2>1. /\ \A u \in Ticks \ {t} : tick'[u] = tick[u]
          /\ tick'[t].pc = "ready" /\ tick[t].pc = "ready"
          /\ UNCHANGED <<status, paper, agent>>
      BY <1>0, <1>3 DEF DirectRead, Ready, row
    <2>2. Over(j) => Over(j)' BY <2>1 DEF Over
    <2> QED BY <2>1, <2>2, CleanTick
  <1>4. ASSUME NEW k \in Jobs, DirectClaim(t, k) PROVE Clean(j)'
    <2>1. /\ \A u \in Ticks \ {t} : tick'[u] = tick[u]
          /\ tick[t].pc = "ready" /\ UNCHANGED <<paper, agent>>
      BY <1>0, <1>4 DEF DirectClaim
    <2>2. CASE k = j /\ status[j] = "QUEUED"
      <3>1. Open(j) /\ ~Over(j) BY <2>2 DEF Open, Claimable, Over
      <3> QED BY <2>1, <3>1, BusyHolds, NoPaperYet, CleanBlank
    <2>3. CASE ~(k = j /\ status[j] = "QUEUED")
      <3>1. status'[j] = status[j] BY <1>0, <1>4, <2>3 DEF DirectClaim, SetStatus, RowType
      <3>2. tick'[t].pc = "ready" \/ tick'[t].job = k
        BY <1>0, <1>4 DEF DirectClaim, Ready, At
      <3>3. tick'[t].pc # "ready" => status[k] = "QUEUED"
        BY <1>0, <1>4 DEF DirectClaim, Ready
      <3>4. Over(j) => Over(j)' BY <3>1 DEF Over
      <3> QED BY <2>1, <2>3, <3>2, <3>3, <3>4, CleanTick
    <2> QED BY <2>2, <2>3
  <1>5. CASE DirectPrint(t)
    <2> DEFINE k == tick[t].job
    <2>1. /\ tick[t].pc = "print" /\ Comes(k) /\ Proceed(t, "printed")
          /\ UNCHANGED <<status, agent>>
      BY <1>5 DEF DirectPrint, row
    <2>2. /\ \A u \in Ticks \ {t} : tick'[u] = tick[u]
          /\ tick'[t].pc = "printed" /\ tick'[t].job = k
      BY <1>2, <2>1
    <2>3. CASE k = j
      <3>1. Sends(t, j) /\ TickFresh(j) BY <2>1, <2>3 DEF Sends, TickFresh
      <3>2. paper'[j] = 1 BY <1>0, <2>1, <2>3, <3>1 DEF Comes, RowType, Clean, Fresh
      <3>3. Reported(j)' BY <2>2, <2>3 DEF Reported, TickReports
      <3>4. ~TickFresh(j)'
        <4>1. \A u \in Ticks \ {t} : ~Sends(u, j) BY <3>1 DEF Hands, TicksHold
        <4> QED BY <2>2, <4>1 DEF TickFresh, Sends
      <3>5. ~AgentFresh(j)'
        <4>1. \A b \in Agents : ~Has(agent[b], j) BY <3>1 DEF Hands, TicksHold
        <4> QED BY <2>1, <4>1 DEF AgentFresh, Has
      <3> QED BY <3>2, <3>3, <3>4, <3>5 DEF Clean, Fresh
    <2>4. CASE k # j
      <3>1. paper'[j] = paper[j] BY <1>0, <2>1, <2>4 DEF Comes, RowType
      <3>2. Over(j) => Over(j)' BY <2>1 DEF Over
      <3> QED BY <2>1, <2>2, <2>4, <3>1, <3>2, CleanTick
    <2> QED BY <2>3, <2>4
  <1>6. CASE DirectPrintThrows(t)
    <2>1. /\ tick[t].pc = "print" /\ Proceed(t, "failed") /\ UNCHANGED <<status, agent, paper>>
      BY <1>6 DEF DirectPrintThrows, AllFaults, row
    <2>2. /\ \A u \in Ticks \ {t} : tick'[u] = tick[u]
          /\ tick'[t].pc = "failed" /\ tick'[t].job = tick[t].job
      BY <1>2, <2>1
    <2>3. tick[t].job = j => Fresh(j) BY <2>1 DEF Fresh, TickFresh
    <2>4. Over(j) => Over(j)' BY <2>1 DEF Over
    <2> QED BY <2>1, <2>2, <2>3, <2>4, CleanTick
  <1>7. CASE DirectMark(t)
    <2>1. /\ \A u \in Ticks \ {t} : tick'[u] = tick[u]
          /\ tick'[t].pc = "ready" /\ UNCHANGED <<paper, agent>>
      BY <1>0, <1>7 DEF DirectMark, Ready
    <2>2. (tick[t].job = j => Over(j)') /\ (Over(j) => Over(j)')
      BY <1>0, <1>7 DEF DirectMark, SetStatus, RowType, Over
    <2> QED BY <2>1, <2>2, CleanTick
  <1>8. CASE DirectRetry(t)
    <2>1. /\ \A u \in Ticks \ {t} : tick'[u] = tick[u]
          /\ tick'[t].pc = "ready" /\ tick[t].pc = "failed" /\ UNCHANGED <<paper, agent>>
      BY <1>0, <1>8 DEF DirectRetry, Ready
    <2>2. tick[t].job = j => Fresh(j) BY <2>1 DEF Fresh, TickFresh
    <2>3. tick[t].job # j => (Over(j) => Over(j)')
      BY <1>0, <1>8 DEF DirectRetry, SetStatus, RowType, Over
    <2> QED BY <2>1, <2>2, <2>3, CleanTick
  <1> QED BY <1>1, <1>3, <1>4, <1>5, <1>6, <1>7, <1>8

LEMMA OutsideClean ==
    ASSUME TypeOK, Hands, NEW j \in Jobs, Clean(j), Unseen(j), Unseen(j)',
           ~Fault("slow"),
           \/ ClearQueue
           \/ \E k \in Jobs : PromoteRetry(k) \/ ReleaseStale(k)
           \/ \E o \in Orders : \E js \in SUBSET o : TabletPrint(o, js)
           \/ \E o \in Orders : MarkOrderRead(o)
           \/ \E o \in Orders : \E k \in o : MarkOrderWrite(o, k)
    PROVE  Clean(j)'
  <1>0. RowType BY TypeParts
  <1>1. CASE ClearQueue
    BY <1>0, <1>1, CleanRows DEF ClearQueue, RowType, Over
  <1>2. ASSUME NEW k \in Jobs, PromoteRetry(k) PROVE Clean(j)'
    <2>1. k = j => ~Busy(j) /\ ~Over(j)
      BY <1>2, BusyHolds DEF PromoteRetry, Open, Claimable, Over
    <2>2. k # j => status'[j] = status[j]
      BY <1>0, <1>2 DEF PromoteRetry, SetStatus, RowType
    <2> QED BY <1>2, <2>1, <2>2, CleanRows DEF PromoteRetry
  <1>3. ASSUME NEW k \in Jobs, ReleaseStale(k) PROVE Clean(j)'
    <2>1. k = j => ~Busy(j) /\ ~Over(j) BY <1>3 DEF ReleaseStale, Stale, Over
    <2>2. k # j => status'[j] = status[j]
      BY <1>0, <1>3 DEF ReleaseStale, SetStatus, RowType
    <2> QED BY <1>3, <2>1, <2>2, CleanRows DEF ReleaseStale
  <1>4. ASSUME NEW o \in Orders, NEW js \in SUBSET o, TabletPrint(o, js) PROVE Clean(j)'
    <2>1. tablet'[o].at # "unseen"
      BY <1>0, <1>4 DEF TabletPrint, RowType, TabletStates
    <2>2. j \notin js BY <2>1 DEF Unseen
    <2>3. paper'[j] = paper[j] /\ UNCHANGED <<status, agent, tick>>
      BY <1>0, <1>4, <2>2 DEF TabletPrint, RowType, row
    <2> QED BY <2>3, CleanRows
  <1>5. ASSUME NEW o \in Orders, MarkOrderRead(o) PROVE Clean(j)'
    BY <1>5, CleanRows DEF MarkOrderRead, row
  <1>6. ASSUME NEW o \in Orders, NEW k \in o, MarkOrderWrite(o, k) PROVE Clean(j)'
    <2>1. k # j BY <1>6 DEF MarkOrderWrite, Unseen
    <2> QED BY <1>0, <1>6, <2>1, CleanRows DEF MarkOrderWrite, SetStatus, RowType
  <1> QED BY <1>1, <1>2, <1>3, <1>4, <1>5, <1>6

\* Without crashes and broken connections every call has somebody waiting for it.
LEMMA LoopStep ==
    ASSUME TypeOK, Hands, [Next]_vars, \A f \in AllFaults \ {"send"} : ~Fault(f),
           \A c \in calls : c.from = "loop"
    PROVE  \A c \in calls' : c.from = "loop"
  <1>0. AgentType BY TypeParts
  <1>1. CASE UNCHANGED calls BY <1>1
  <1>2. ASSUME NEW a \in Agents, NEW kind, NEW j, Ask(a, kind, j)
        PROVE  \A c \in calls' : c.from = "loop"
    BY <1>2 DEF Ask, Call
  <1>3. ASSUME NEW d \in calls, Authorise(d) PROVE \A c \in calls' : c.from = "loop"
    <2>1. [d EXCEPT !.seen = attempts[d.job]].from = d.from BY <1>0 DEF AgentType, Calls
    <2> QED BY <1>3, <2>1 DEF Authorise
  <1>4. ASSUME NEW d \in calls, Handle(d) PROVE \A c \in calls' : c.from = "loop"
    BY <1>4 DEF Handle
  <1>5. /\ \A a \in Agents : ~AgentCrash(a) /\ owed[a] = {}
        /\ \A d \in calls : ~Disconnect(d)
    BY DEF AgentCrash, Disconnect, AllFaults, Hands, NothingOwed
  <1>6. CASE Next
    <2>1. \/ UNCHANGED calls
          \/ \E a \in Agents : \E kind, j : Ask(a, kind, j)
          \/ \E d \in calls : Authorise(d) \/ Handle(d)
      BY <1>5, <1>6, NextStep DEF AgentClaim, AgentStart, AgentPrint, AgentPrintThrows,
         DirectRead, DirectClaim, DirectPrint, DirectPrintThrows,
         DirectMark, DirectMarkThrows, DirectRetry, DirectCrash, PromoteRetry,
         ReleaseStale, TabletPrint, MarkOrderRead, MarkOrderWrite, ClearQueue
    <2> QED BY <1>1, <1>2, <1>3, <1>4, <2>1
  <1>7. CASE UNCHANGED vars BY <1>1, <1>7 DEF vars
  <1> QED BY <1>6, <1>7

LEMMA UnseenBefore ==
    ASSUME TypeOK, [Next]_vars, NEW j \in Jobs, Unseen(j)'
    PROVE  Unseen(j)
  <1>0. tablet \in [Orders -> TabletStates] BY TypeParts DEF RowType
  <1>1. ASSUME NEW o \in Orders, NEW js, TabletPrint(o, js) PROVE Unseen(j)
    BY <1>0, <1>1 DEF TabletPrint, Unseen
  <1>2. ASSUME NEW o \in Orders, MarkOrderRead(o) PROVE Unseen(j)
    BY <1>0, <1>2 DEF MarkOrderRead, Unseen
  <1>3. ASSUME NEW o \in Orders, NEW k, MarkOrderWrite(o, k) PROVE Unseen(j)
    BY <1>0, <1>3 DEF MarkOrderWrite, Unseen, TabletStates
  <1>4. CASE UNCHANGED tablet BY <1>4 DEF Unseen
  <1>5. CASE Next
    <2>1. \/ UNCHANGED tablet
          \/ \E o \in Orders : \E js \in SUBSET o : TabletPrint(o, js)
          \/ \E o \in Orders : MarkOrderRead(o)
          \/ \E o \in Orders : \E k \in o : MarkOrderWrite(o, k)
      BY <1>5, NextStep DEF AgentClaim, AgentStart, AgentPrint, AgentPrintThrows, AgentCrash,
         Flush, Authorise, Handle, Disconnect, DirectRead, DirectClaim, DirectPrint,
         DirectPrintThrows, DirectMark, DirectMarkThrows, DirectRetry, DirectCrash,
         PromoteRetry, ReleaseStale, ClearQueue
    <2> QED BY <1>1, <1>2, <1>3, <1>4, <2>1
  <1>6. CASE UNCHANGED vars BY <1>4, <1>6 DEF vars
  <1> QED BY <1>5, <1>6

LEMMA PaperStep ==
    ASSUME TypeOK, HandsInv, PaperInv, [Next]_vars
    PROVE  PaperInv'
  <1> SUFFICES ASSUME Quiet'
               PROVE  /\ \A c \in calls' : c.from = "loop"
                      /\ \A j \in Jobs : Unseen(j)' => Clean(j)'
    BY DEF PaperInv
  <1>0. /\ Hands /\ \A f \in AllFaults \ {"send"} : ~Fault(f)
        /\ \A c \in calls : c.from = "loop"
        /\ \A j \in Jobs : Unseen(j) => Clean(j)
    BY QuietStays, CalmStays DEF HandsInv, PaperInv
  <1>1. \A c \in calls' : c.from = "loop" BY <1>0, LoopStep
  <1>2. AgentType /\ ~Fault("slow") /\ ~Fault("lost") /\ ~Fault("torn") /\ ~Fault("crash")
    BY <1>0, TypeParts DEF AllFaults
  <1> SUFFICES ASSUME NEW j \in Jobs, Unseen(j)' PROVE Clean(j)'
    BY <1>1
  <1>3. Unseen(j) /\ Clean(j) BY <1>0, UnseenBefore
  <1>4. ASSUME NEW a \in Agents, NEW js \in SUBSET Jobs, AgentClaim(a, js) PROVE Clean(j)'
    BY <1>0, <1>2, <1>3, <1>4, ClaimClean DEF AgentClaim
  <1>5. ASSUME NEW a \in Agents, NEW k \in Jobs, AgentStart(a, k) PROVE Clean(j)'
    <2>1. Has(agent[a], k) BY <1>5 DEF AgentStart, Has
    <2> QED BY <1>3, <1>5, <2>1, AskClean DEF AgentStart, row
  <1>6. ASSUME NEW a \in Agents, AgentPrint(a) PROVE Clean(j)'
    BY <1>0, <1>3, <1>6, PrintClean
  <1>7. ASSUME NEW a \in Agents, AgentPrintThrows(a) PROVE Clean(j)'
    <2>1. agent[a].pc = "print" BY <1>7 DEF AgentPrintThrows
    <2>2. agent[a].job \in Jobs BY <1>2, <2>1, AgentRecords DEF AgentType
    <2>3. Has(agent[a], agent[a].job) BY <2>1 DEF Has
    <2> QED BY <1>2, <1>3, <1>7, <2>1, <2>2, <2>3, AskClean DEF AgentPrintThrows, row
  <1>8. ASSUME NEW c \in calls, Authorise(c) PROVE Clean(j)'
    <2>1. claimedBy[c.job] = c.agent BY <1>0 DEF Hands, CallsHold
    <2> QED BY <1>3, <1>8, <2>1, CleanRows DEF Authorise, row
  <1>9. ASSUME NEW c \in calls, Handle(c) PROVE Clean(j)'
    BY <1>0, <1>3, <1>9, HandleClean
  <1>10. /\ \A a \in Agents : ~AgentCrash(a) /\ owed[a] = {}
         /\ \A c \in calls : ~Disconnect(c)
    BY <1>0, <1>2 DEF AgentCrash, Disconnect, Hands, NothingOwed
  <1>11. CASE Next
    BY <1>0, <1>2, <1>3, <1>4, <1>5, <1>6, <1>7, <1>8, <1>9, <1>10, <1>11, NextStep,
       DirectClean, OutsideClean
  <1>12. CASE UNCHANGED vars BY <1>3, <1>12, CleanRows DEF vars
  <1> QED BY <1>11, <1>12

\* However many agents and overlapping ticks go after the same rows, and whichever
\* sends fail: as long as nothing else breaks, a job the tablet has not printed
\* comes out of a printer at most once.
THEOREM OnePaperCorrect == Spec => []NoDuplicatePaper
  <1>1. Init => PaperInv
    BY DEF Init, PaperInv, Clean, Fresh, AgentFresh, TickFresh, Has, Ready
  <1>2. TypeOK /\ HandsInv /\ PaperInv /\ [Next]_vars => PaperInv' BY PaperStep
  <1>3. PaperInv => NoDuplicatePaper BY DEF PaperInv, Quiet, Clean, NoDuplicatePaper
  <1> QED BY <1>1, <1>2, <1>3, HandsCorrect, PTL DEF Spec
-----------------------------------------------------------------------------
(* The agents and the cron implement TicketDelivery *)

\* Nothing that is in somebody's hands is already printed.
Attended == \A j \in Jobs : Busy(j) => status[j] # "PRINTED"

\* A job somebody works at is still owed.
LEMMA BusyOwed ==
    ASSUME TypeOK, Hands, Attended, "operator" \notin Parts, NEW j \in Jobs, Busy(j)
    PROVE  status[j] \in {"CLAIMED", "PRINTING"}
  <1>1. ~Open(j) BY BusyHolds
  <1> QED BY <1>1 DEF Attended, Open, Claimable, TypeOK, JobStatuses

\* Nobody takes up j, and its row stays as it is or is not PRINTED.
LEMMA AttendedKept ==
    ASSUME Attended, NEW j \in Jobs, Busy(j)' => Busy(j),
           status'[j] = status[j] \/ status'[j] # "PRINTED"
    PROVE  Busy(j)' => status'[j] # "PRINTED"
  BY DEF Attended

LEMMA AgentAttended ==
    ASSUME TypeOK, Hands, Attended, NEW j \in Jobs, NEW a \in Agents,
           \/ \E js \in SUBSET Jobs : AgentClaim(a, js) /\ agent' = [agent EXCEPT ![a] = Ready(js)]
           \/ \E k \in Jobs : AgentStart(a, k)
           \/ AgentPrint(a) \/ AgentPrintThrows(a) \/ AgentCrash(a)
    PROVE  Busy(j)' => status'[j] # "PRINTED"
  <1>0. RowType BY TypeParts
  <1>1. ASSUME NEW js \in SUBSET Jobs, AgentClaim(a, js), agent' = [agent EXCEPT ![a] = Ready(js)]
        PROVE  Busy(j)' => status'[j] # "PRINTED"
    <2>1. CASE j \in js BY <1>0, <1>1, <2>1 DEF AgentClaim, Take, RowType
    <2>2. CASE j \notin js
      <3>1. status'[j] = status[j] BY <1>0, <1>1, <2>2 DEF AgentClaim, Take, RowType
      <3>2. Busy(j)' => Busy(j) BY <1>1, <2>2, ClaimBusy
      <3> QED BY <3>1, <3>2, AttendedKept
    <2> QED BY <2>1, <2>2
  <1>2. CASE \/ \E k \in Jobs : AgentStart(a, k)
             \/ AgentPrint(a) \/ AgentPrintThrows(a) \/ AgentCrash(a)
    <2>1. UNCHANGED status
      BY <1>2 DEF AgentStart, AgentPrint, AgentPrintThrows, AgentCrash, row
    <2>2. Busy(j)' => Busy(j) BY <1>2, AgentBusy
    <2> QED BY <2>1, <2>2, AttendedKept
  <1> QED BY <1>1, <1>2

LEMMA CallAttended ==
    ASSUME TypeOK, Hands, Attended, NEW j \in Jobs, NEW c \in calls, Authorise(c) \/ Handle(c)
    PROVE  Busy(j)' => status'[j] # "PRINTED"
  <1>0. AgentType /\ RowType /\ c.job \in Jobs /\ c.kind \in Kinds
    BY TypeParts, CallRecords DEF AgentType
  <1>1. CASE Authorise(c)
    <2>1. UNCHANGED status BY <1>1 DEF Authorise, row
    <2>2. Busy(j)' => Busy(j) BY <1>1, AuthoriseBusy
    <2> QED BY <2>1, <2>2, AttendedKept
  <1>2. CASE Handle(c)
    <2>1. Busy(j)' => Busy(j) /\ (j = c.job => c.kind = "start") BY <1>2, HandleBusy
    <2>2. c.kind # "complete" \/ j # c.job => status'[j] = status[j] \/ status'[j] # "PRINTED"
      BY <1>0, <1>2 DEF Handle, MarkFailed, SetStatus, RowType
    <2> QED BY <2>1, <2>2, AttendedKept
  <1> QED BY <1>1, <1>2

LEMMA DirectAttended ==
    ASSUME TypeOK, Hands, Attended, NEW j \in Jobs, NEW t \in Ticks, ~Fault("db"),
           \/ \E js \in SUBSET Jobs : DirectRead(t, js)
           \/ \E k \in Jobs : DirectClaim(t, k)
           \/ DirectPrint(t) \/ DirectPrintThrows(t) \/ DirectMark(t)
           \/ DirectMarkThrows(t) \/ DirectRetry(t) \/ DirectCrash(t)
    PROVE  Busy(j)' => status'[j] # "PRINTED"
  <1>0. RowType /\ tick \in [Ticks -> TickStates] BY TypeParts DEF TickType
  <1>1. ASSUME UNCHANGED <<agent, calls>>, \A u \in Ticks : Sends(u, j)' => Sends(u, j)
        PROVE  Busy(j)' => Busy(j)
    BY <1>1 DEF Busy, Has, Sends
  <1>2. ASSUME NEW pc, pc # "ready", tick[t].pc # "ready", Proceed(t, pc)
        PROVE  \A u \in Ticks : Sends(u, j)' => Sends(u, j)
    <2>1. tick'[t].pc = pc /\ tick'[t].job = tick[t].job
      BY <1>0, <1>2 DEF Proceed, TickStates
    <2> QED BY <1>0, <1>2, <2>1 DEF Proceed, Sends
  <1>3. ASSUME NEW js \in SUBSET Jobs, DirectRead(t, js) \/ DirectCrash(t)
        PROVE  Busy(j)' => status'[j] # "PRINTED"
    <2>1. \A u \in Ticks : Sends(u, j)' => Sends(u, j)
      BY <1>0, <1>3 DEF DirectRead, DirectCrash, Ready, Sends
    <2> QED BY <1>1, <1>3, <2>1, AttendedKept DEF DirectRead, DirectCrash, row
  <1>4. ASSUME NEW k \in Jobs, DirectClaim(t, k) PROVE Busy(j)' => status'[j] # "PRINTED"
    <2>1. CASE status[k] = "QUEUED" /\ k = j
      BY <1>0, <1>4, <2>1 DEF DirectClaim, SetStatus, RowType
    <2>2. CASE ~(status[k] = "QUEUED" /\ k = j)
      <3>1. status'[j] = status[j] BY <1>0, <1>4, <2>2 DEF DirectClaim, SetStatus, RowType
      <3>2. \A u \in Ticks : Sends(u, j)' => Sends(u, j)
        BY <1>0, <1>4, <2>2 DEF DirectClaim, Ready, At, Sends
      <3> QED BY <1>1, <1>4, <3>1, <3>2, AttendedKept DEF DirectClaim
    <2> QED BY <2>1, <2>2
  <1>5. CASE DirectPrint(t) \/ DirectPrintThrows(t)
    <2>1. \A u \in Ticks : Sends(u, j)' => Sends(u, j)
      BY <1>2, <1>5 DEF DirectPrint, DirectPrintThrows
    <2> QED BY <1>1, <1>5, <2>1, AttendedKept DEF DirectPrint, DirectPrintThrows, row
  <1>6. CASE DirectMark(t) \/ DirectRetry(t)
    <2>1. /\ \A u \in Ticks \ {t} : tick'[u] = tick[u]
          /\ ~Sends(t, j)' /\ tick[t].pc # "ready"
          /\ UNCHANGED <<agent, calls>>
      BY <1>0, <1>6 DEF DirectMark, DirectRetry, Ready, Sends
    <2>2. Busy(j)' => Busy(j) BY <1>1, <2>1 DEF Sends
    <2>3. CASE tick[t].job = j
      <3>1. Sends(t, j) BY <2>1, <2>3 DEF Sends
      <3>2. /\ \A a \in Agents : ~Has(agent[a], j)'
            /\ \A c \in calls' : c.job # j
            /\ \A u \in Ticks : ~Sends(u, j)'
        BY <2>1, <3>1 DEF Hands, TicksHold, Has, Sends
      <3> QED BY <3>2 DEF Busy, Sends
    <2>4. CASE tick[t].job # j
      <3>1. status'[j] = status[j]
        BY <1>0, <1>6, <2>4 DEF DirectMark, DirectRetry, SetStatus, RowType
      <3> QED BY <2>2, <3>1, AttendedKept
    <2> QED BY <2>3, <2>4
  <1>7. ~DirectMarkThrows(t) BY DEF DirectMarkThrows
  <1> QED BY <1>3, <1>4, <1>5, <1>6, <1>7

LEMMA AttendedStep ==
    ASSUME TypeOK, Hands, Attended, NoTablet, [Next]_vars,
           \A f \in {"slow", "lost", "db"} : ~Fault(f)
    PROVE  Attended'
  <1> SUFFICES ASSUME NEW j \in Jobs PROVE Busy(j)' => status'[j] # "PRINTED"
    BY DEF Attended
  <1>0. RowType BY TypeParts
  <1>1. ASSUME NEW a \in Agents, NEW js \in SUBSET Jobs, AgentClaim(a, js)
        PROVE  Busy(j)' => status'[j] # "PRINTED"
    <2>1. agent' = [agent EXCEPT ![a] = Ready(js)] BY <1>1 DEF AgentClaim
    <2> QED BY <1>1, <2>1, AgentAttended
  <1>2. ASSUME NEW k \in Jobs, PromoteRetry(k) \/ ReleaseStale(k)
        PROVE  Busy(j)' => status'[j] # "PRINTED"
    <2>1. Busy(j)' => Busy(j) BY <1>2 DEF PromoteRetry, ReleaseStale, Busy, Has
    <2>2. status'[j] = status[j] \/ status'[j] # "PRINTED"
      BY <1>0, <1>2 DEF PromoteRetry, ReleaseStale, SetStatus, RowType
    <2> QED BY <2>1, <2>2, AttendedKept
  <1>3. ASSUME NEW o \in Orders, \/ \E js \in SUBSET o : TabletPrint(o, js)
                               \/ MarkOrderRead(o) \/ \E k \in o : MarkOrderWrite(o, k)
        PROVE  Busy(j)' => status'[j] # "PRINTED"
    <2>1. UNCHANGED <<agent, calls, tick, status>>
      BY <1>3 DEF TabletPrint, MarkOrderRead, MarkOrderWrite, NoTablet, row
    <2> QED BY <2>1, AttendedKept DEF Busy, Has
  <1>4. CASE ClearQueue
    <2>1. Busy(j)' => Busy(j) BY <1>4 DEF ClearQueue, Busy, Has
    <2>2. status'[j] = status[j] \/ status'[j] # "PRINTED" BY <1>0, <1>4 DEF ClearQueue, RowType
    <2> QED BY <2>1, <2>2, AttendedKept
  <1>5. /\ \A c \in calls : ~Disconnect(c)
        /\ \A a \in Agents : owed[a] = {}
    BY DEF Disconnect, Hands, NothingOwed
  <1>6. CASE Next
    BY <1>1, <1>2, <1>3, <1>4, <1>5, <1>6, NextStep, AgentAttended, CallAttended, DirectAttended
  <1>7. CASE UNCHANGED vars
    <2>1. UNCHANGED <<agent, calls, tick, status>> BY <1>7 DEF vars
    <2> QED BY <2>1, AttendedKept DEF Busy, Has
  <1> QED BY <1>6, <1>7

Broke == ~(faults.kinds \subseteq {"send"})

\* Where a job stands, going by its row.
Stands(s) == IF s \in Active THEN "owed" ELSE IF s = "PRINTED" THEN "printed" ELSE "dead"

LEMMA StandingIs ==
    Standing = [j \in Jobs |-> Stands(status[j])] /\ Standing' = [j \in Jobs |-> Stands(status'[j])]
  BY DEF Standing, Stands

\* A row that keeps its side of things leaves every job where it stands.
LEMMA StandingSame ==
    ASSUME \A j \in Jobs : status'[j] = status[j] \/ (status[j] \in Active /\ status'[j] \in Active)
    PROVE  Standing' = Standing
  <1>1. \A j \in Jobs : Stands(status'[j]) = Stands(status[j]) BY DEF Stands
  <1> QED BY <1>1, StandingIs

LEMMA StandingMoves ==
    ASSUME NEW j \in Jobs, \A k \in Jobs \ {j} : status'[k] = status[k],
           status[j] \in {"CLAIMED", "PRINTING"}
    PROVE  /\ Standing[j] = "owed"
           /\ status'[j] = "PRINTED" => Standing' = [Standing EXCEPT ![j] = "printed"]
           /\ status'[j] = "FAILED" => Standing' = [Standing EXCEPT ![j] = "dead"]
           /\ status'[j] \in Active => Standing' = Standing
  <1>1. /\ Stands(status[j]) = "owed"
        /\ status'[j] = "PRINTED" => Stands(status'[j]) = "printed"
        /\ status'[j] = "FAILED" => Stands(status'[j]) = "dead"
    BY DEF Stands, Active
  <1>2. status'[j] \in Active => Standing' = Standing
    BY StandingSame DEF Active
  <1> QED BY <1>1, <1>2, StandingIs

\* Broken is broken.
LEMMA BrokeStays ==
    ASSUME TypeOK, [Next]_vars
    PROVE  Broke => Broke'
  <1>1. UNCHANGED faults \/ \E f : Fault(f) BY FaultsMove
  <1>2. ASSUME NEW f, Fault(f) PROVE faults.kinds \subseteq faults'.kinds BY <1>2 DEF Fault
  <1> QED BY <1>1, <1>2 DEF Broke

\* A step that prints nothing and settles nothing.
LEMMA DeliveryStutters ==
    ASSUME TypeOK, [Next]_vars, Standing' = Standing, UNCHANGED paper
    PROVE  [Delivery!Next]_(Delivery!vars)
  <1>1. Broke => Broke' BY BrokeStays
  <1>2. CASE Broke' <=> Broke
    BY <1>2 DEF Delivery!vars, Broke
  <1>3. CASE ~Broke /\ Broke'
    BY <1>3 DEF Delivery!Next, Delivery!Disturb, Broke
  <1> QED BY <1>1, <1>2, <1>3

\* A ticket comes out: its job is owed, and unless something broke it is the first.
LEMMA DeliveryPrints ==
    ASSUME TypeOK, [Next]_vars, NEW j \in Jobs, status[j] \in Active, UNCHANGED status,
           Comes(j), paper[j] = 0 \/ Broke'
    PROVE  Delivery!Next
  <1>1. Broke => Broke' BY BrokeStays
  <1>2. Standing' = Standing /\ Standing[j] = "owed" BY StandingSame DEF Standing
  <1>3. Delivery!ComesOut(j)
    BY <1>1, <1>2 DEF Delivery!ComesOut, Comes, Broke
  <1> QED BY <1>3 DEF Delivery!Next

\* What holds of the rows when nothing is lost, slow or refused by the database,
\* and the operator and the tablet keep out of it.
Delivering == TypeOK /\ Calm /\ Hands /\ NoTablet /\ Attended /\ PrintedInv /\ PaperInv

LEMMA HandleDelivers ==
    ASSUME Delivering, "operator" \notin Parts, [Next]_vars, NEW c \in calls, Handle(c)
    PROVE  [Delivery!Next]_(Delivery!vars)
  <1>0. /\ TypeOK /\ Hands /\ Attended /\ AgentType /\ RowType
        /\ c.job \in Jobs /\ c.kind \in Kinds /\ c.agent \in Agents
    BY TypeParts, CallRecords DEF AgentType, Delivering
  <1>1. status[c.job] \in {"CLAIMED", "PRINTING"} BY <1>0, BusyMeans, BusyOwed
  <1>2. /\ \A k \in Jobs \ {c.job} : status'[k] = status[k]
        /\ UNCHANGED <<paper, faults>>
    BY <1>0 DEF Handle, MarkFailed, SetStatus, RowType
  <1>3. CASE c.kind = "start"
    <2>1. status'[c.job] \in Active BY <1>0, <1>3 DEF Handle, SetStatus, RowType, Active
    <2>2. Standing' = Standing BY <1>0, <1>1, <1>2, <2>1, StandingMoves
    <2> QED BY <1>0, <1>2, <2>2, DeliveryStutters
  <1>4. CASE c.kind = "complete"
    <2>1. status'[c.job] = "PRINTED" BY <1>0, <1>4 DEF Handle, SetStatus, RowType
    <2>2. paper[c.job] > 0 BY <1>4 DEF Delivering, PrintedInv, ReportsPrinted
    <2>3. Delivery!Confirm(c.job)
      BY <1>0, <1>1, <1>2, <2>1, <2>2, StandingMoves DEF Delivery!Confirm
    <2> QED BY <1>0, <2>3 DEF Delivery!Next
  <1>5. CASE c.kind = "fail"
    <2>1. status'[c.job] \in {"RETRYING", "FAILED"}
      BY <1>0, <1>5 DEF Handle, MarkFailed, SetStatus, RowType
    <2>2. CASE status'[c.job] = "RETRYING"
      <3>1. Standing' = Standing BY <1>0, <1>1, <1>2, <2>2, StandingMoves DEF Active
      <3> QED BY <1>0, <1>2, <3>1, DeliveryStutters
    <2>3. CASE status'[c.job] = "FAILED"
      <3>1. paper[c.job] = 0 \/ Broke
        <4> SUFFICES ASSUME ~Broke PROVE paper[c.job] = 0 OBVIOUS
        <4>1. c.from = "loop" /\ Clean(c.job)
          BY <1>0 DEF Broke, Delivering, PaperInv, Quiet, NoTablet, Unseen
        <4>2. agent[c.agent].pc = "fail" /\ agent[c.agent].job = c.job
          BY <1>0, <1>5, <4>1 DEF Hands, CallsHold
        <4>3. Fresh(c.job) BY <1>0, <4>2 DEF Fresh, AgentFresh, Has
        <4> QED BY <4>1, <4>3 DEF Clean
      <3>2. Delivery!GiveUp(c.job)
        BY <1>0, <1>1, <1>2, <2>3, <3>1, StandingMoves DEF Delivery!GiveUp, Broke
      <3> QED BY <1>0, <3>2 DEF Delivery!Next
    <2> QED BY <2>1, <2>2, <2>3
  <1> QED BY <1>0, <1>3, <1>4, <1>5 DEF Kinds

LEMMA AgentDelivers ==
    ASSUME Delivering, "operator" \notin Parts, [Next]_vars, NEW a \in Agents,
           AgentPrint(a) \/ AgentPrintThrows(a)
    PROVE  [Delivery!Next]_(Delivery!vars)
  <1> DEFINE j == agent[a].job
  <1>0. /\ TypeOK /\ Hands /\ Attended /\ AgentType /\ agent[a].pc = "print" /\ UNCHANGED status
    BY TypeParts DEF Delivering, AgentPrint, AgentPrintThrows, row
  <1>1. j \in Jobs /\ Has(agent[a], j)
    BY <1>0, AgentRecords DEF AgentType, Has
  <1>2. status[j] \in Active BY <1>0, <1>1, BusyMeans, BusyOwed DEF Active
  <1>3. Broke \/ paper[j] = 0
    <2>1. Fresh(j) BY <1>0, <1>1 DEF Fresh, AgentFresh
    <2> QED BY <1>1, <2>1 DEF Broke, Delivering, PaperInv, Quiet, NoTablet, Unseen, Clean
  <1>4. Broke => Broke' BY <1>0, BrokeStays
  <1>5. CASE Comes(j) BY <1>0, <1>1, <1>2, <1>3, <1>4, <1>5, DeliveryPrints
  <1>6. CASE UNCHANGED paper
    <2>1. Standing' = Standing BY <1>0, StandingSame
    <2> QED BY <1>0, <1>6, <2>1, DeliveryStutters
  <1> QED BY <1>5, <1>6 DEF AgentPrint, AgentPrintThrows

LEMMA TickDelivers ==
    ASSUME Delivering, "operator" \notin Parts, ~Fault("db"), [Next]_vars, NEW t \in Ticks,
           \/ \E js \in SUBSET Jobs : DirectRead(t, js)
           \/ \E k \in Jobs : DirectClaim(t, k)
           \/ DirectPrint(t) \/ DirectPrintThrows(t) \/ DirectMark(t)
           \/ DirectMarkThrows(t) \/ DirectRetry(t) \/ DirectCrash(t)
    PROVE  [Delivery!Next]_(Delivery!vars)
  <1> DEFINE j == tick[t].job
  <1>0. /\ TypeOK /\ Hands /\ Attended /\ RowType /\ tick \in [Ticks -> TickStates]
    BY TypeParts DEF Delivering, TickType
  <1>1. ASSUME tick[t].pc # "ready"
        PROVE  j \in Jobs /\ Sends(t, j) /\ status[j] \in {"CLAIMED", "PRINTING"}
    <2>1. j \in Jobs /\ Sends(t, j) BY <1>0, <1>1, TickRecords DEF Sends
    <2> QED BY <1>0, <2>1, BusyMeans, BusyOwed
  <1>2. CASE UNCHANGED <<status, paper>>
    <2>1. Standing' = Standing BY <1>2, StandingSame
    <2> QED BY <1>0, <1>2, <2>1, DeliveryStutters
  <1>3. ASSUME NEW k \in Jobs, DirectClaim(t, k) PROVE [Delivery!Next]_(Delivery!vars)
    <2>1. Standing' = Standing
      BY <1>0, <1>3, StandingSame DEF DirectClaim, SetStatus, RowType, Active
    <2> QED BY <1>0, <1>3, <2>1, DeliveryStutters DEF DirectClaim
  <1>4. CASE tick[t].pc = "print" /\ Comes(j) /\ UNCHANGED status
    <2>1. j \in Jobs /\ status[j] \in Active BY <1>1, <1>4 DEF Active
    <2>2. Broke \/ paper[j] = 0
      <3>1. Fresh(j) BY <1>4 DEF Fresh, TickFresh
      <3> QED BY <2>1, <3>1 DEF Broke, Delivering, PaperInv, Quiet, NoTablet, Unseen, Clean
    <2>3. Broke => Broke' BY <1>0, BrokeStays
    <2> QED BY <1>0, <1>4, <2>1, <2>2, <2>3, DeliveryPrints
  <1>5. CASE DirectMark(t)
    <2>1. j \in Jobs /\ status[j] \in {"CLAIMED", "PRINTING"} BY <1>1, <1>5 DEF DirectMark
    <2>2. /\ status'[j] = "PRINTED" /\ \A k \in Jobs \ {j} : status'[k] = status[k]
          /\ UNCHANGED <<paper, faults>>
      BY <1>0, <1>5, <2>1 DEF DirectMark, SetStatus, RowType
    <2>3. paper[j] > 0 BY <1>5 DEF DirectMark, Delivering, PrintedInv, TicksPrinted
    <2>4. Delivery!Confirm(j) BY <2>1, <2>2, <2>3, StandingMoves DEF Delivery!Confirm
    <2> QED BY <2>1, <2>4 DEF Delivery!Next
  <1>6. CASE DirectRetry(t)
    <2>1. j \in Jobs /\ status[j] \in {"CLAIMED", "PRINTING"} BY <1>1, <1>6 DEF DirectRetry
    <2>2. /\ status'[j] \in Active /\ \A k \in Jobs \ {j} : status'[k] = status[k]
          /\ UNCHANGED paper
      BY <1>0, <1>6, <2>1 DEF DirectRetry, SetStatus, RowType, Active
    <2>3. Standing' = Standing BY <2>1, <2>2, StandingMoves
    <2> QED BY <1>0, <2>2, <2>3, DeliveryStutters
  <1>7. \/ UNCHANGED <<status, paper>> \/ DirectMark(t) \/ DirectRetry(t)
        \/ \E k \in Jobs : DirectClaim(t, k)
        \/ tick[t].pc = "print" /\ Comes(j) /\ UNCHANGED status
    BY DEF DirectRead, DirectPrint, DirectPrintThrows, DirectMarkThrows, DirectCrash, row
  <1> QED BY <1>2, <1>3, <1>4, <1>5, <1>6, <1>7

LEMMA DeliveryStep ==
    ASSUME Delivering, Parts \intersect {"operator", "tablet"} = {}, [Next]_vars,
           \A f \in {"slow", "lost", "db"} : ~Fault(f)
    PROVE  [Delivery!Next]_(Delivery!vars)
  <1>0. TypeOK /\ Hands /\ RowType BY TypeParts DEF Delivering
  <1>1. ASSUME UNCHANGED <<status, paper>> PROVE [Delivery!Next]_(Delivery!vars)
    <2>1. Standing' = Standing BY <1>1, StandingSame
    <2> QED BY <1>0, <1>1, <2>1, DeliveryStutters
  <1>2. ASSUME NEW a \in Agents, NEW js \in SUBSET Jobs, AgentClaim(a, js)
        PROVE  [Delivery!Next]_(Delivery!vars)
    <2>1. Standing' = Standing
      BY <1>0, <1>2, StandingSame DEF AgentClaim, Take, Claimable, RowType, Active
    <2> QED BY <1>0, <1>2, <2>1, DeliveryStutters DEF AgentClaim
  <1>3. ASSUME NEW k \in Jobs, PromoteRetry(k) \/ ReleaseStale(k)
        PROVE  [Delivery!Next]_(Delivery!vars)
    <2>1. Standing' = Standing
      BY <1>0, <1>3, StandingSame
      DEF PromoteRetry, ReleaseStale, Stale, SetStatus, RowType, Active
    <2> QED BY <1>0, <1>3, <2>1, DeliveryStutters DEF PromoteRetry, ReleaseStale
  <1>4. /\ \A o \in Orders : /\ \A js \in SUBSET o : ~TabletPrint(o, js)
                             /\ ~MarkOrderRead(o)
                             /\ \A j \in o : ~MarkOrderWrite(o, j)
        /\ ~ClearQueue /\ "operator" \notin Parts
        /\ \A c \in calls : ~Disconnect(c)
        /\ \A a \in Agents : owed[a] = {}
    BY DEF TabletPrint, MarkOrderRead, MarkOrderWrite, ClearQueue, Delivering, NoTablet,
       Disconnect, Hands, NothingOwed
  <1>5. ASSUME \/ \E a \in Agents : (\E j \in Jobs : AgentStart(a, j)) \/ AgentCrash(a)
               \/ \E c \in calls : Authorise(c)
        PROVE  UNCHANGED <<status, paper>>
    BY <1>5 DEF AgentStart, AgentCrash, Authorise, row
  <1>6. CASE Next
    BY <1>1, <1>2, <1>3, <1>4, <1>5, <1>6, NextStep, HandleDelivers, AgentDelivers, TickDelivers
  <1>7. CASE UNCHANGED vars BY <1>1, <1>7 DEF vars
  <1> QED BY <1>6, <1>7

\* For any jobs, agents and overlapping ticks of the cron, with sends that fail or
\* tear and processes that die anywhere: every step delivers tickets the way
\* TicketDelivery promises it, or is none of its business.  A connection that
\* breaks, work that outlives its claim, a database that refuses the cron's write,
\* the operator's Clear queue and the tablet each break the promise.
THEOREM DeliveryCorrect ==
    ASSUME Faults \intersect {"slow", "lost", "db"} = {},
           Parts \intersect {"operator", "tablet"} = {}
    PROVE  Spec => DeliversTickets
  <1>1. Init => Delivery!Init
    BY DEF Init, Delivery!Init, Standing, Active
  <1>2. Init => Delivering
    <2> SUFFICES ASSUME Init PROVE Delivering OBVIOUS
    <2>1. Calm /\ NoTablet BY DEF Init, Calm, NoTablet
    <2>2. Attended BY DEF Init, Attended
    <2>3. PaperInv
      BY DEF Init, PaperInv, Clean, Fresh, AgentFresh, TickFresh, Has, Ready
    <2> QED BY <2>1, <2>2, <2>3, TypeInit, HandsInit, PrintedInit DEF Delivering
  <1>3. \A f \in {"slow", "lost", "db"} : ~Fault(f) BY DEF Fault
  <1>4. Delivering /\ [Next]_vars => Delivering'
    <2> SUFFICES ASSUME Delivering, [Next]_vars PROVE Delivering' OBVIOUS
    <2>1. TypeOK /\ HandsInv /\ Hands /\ Calm /\ NoTablet /\ Attended /\ PrintedInv /\ PaperInv
      BY DEF Delivering, HandsInv
    <2>2. TypeOK' BY <2>1, TypeStep
    <2>3. Calm' BY <2>1, CalmAlways
    <2>4. HandsInv' BY <2>1, HandsStep
    <2>5. NoTablet' BY <2>1, NoTabletStep
    <2>6. Attended' BY <1>3, <2>1, AttendedStep
    <2>7. PrintedInv' BY <2>1, PrintedStep
    <2>8. PaperInv' BY <2>1, PaperStep
    <2> QED BY <2>2, <2>3, <2>4, <2>5, <2>6, <2>7, <2>8 DEF Delivering, HandsInv
  <1>5. Delivering /\ [Next]_vars => [Delivery!Next]_(Delivery!vars)
    BY <1>3, DeliveryStep
  <1> QED BY <1>1, <1>2, <1>4, <1>5, PTL DEF Spec, DeliversTickets, Delivery!Spec
=============================================================================
