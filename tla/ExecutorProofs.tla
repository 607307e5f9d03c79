--------------------------- MODULE ExecutorProofs ---------------------------
(***************************************************************************)
(* Two promises of the connectors, for any source, any caps and any number *)
(* of calls and of changes while a call is made: a token is not sent past  *)
(* its lifetime, and an answer not marked truncated is whole.              *)
(*                                                                         *)
(* The first needs only that the connector's measure of a token's age is   *)
(* the manager's (TokenInv).  The second needs that the rows held all      *)
(* through the step are still held (RowsInv), which source each request is *)
(* put to (PhaseInv), and what an answer under construction has so far     *)
(* (WholeInv).                                                             *)
(***************************************************************************)
EXTENDS ExecutorProperties, FiniteSetTheorems, TLAPS

TokenInv ==
  /\ token \in [valid : BOOLEAN, age : 0..TokenTTL, issued : 0..TokenTTL]
  /\ token.age = token.issued

LEMMA TokenInit == Init => TokenInv
  BY TTLAssumption DEF Init, TokenInv, NoToken

LEMMA TokenStep == TokenInv /\ [Next]_vars => TokenInv'
<1> SUFFICES ASSUME TokenInv, [Next]_vars PROVE TokenInv'
  OBVIOUS
<1> USE TTLAssumption DEF TokenInv
<1>1. CASE Execute
  BY <1>1 DEF Execute
<1>2. CASE ZabbixStep
  BY <1>2 DEF ZabbixStep, ZabbixPage, ZabbixCensus, ZabbixCensusOverflows, ZabbixLevel,
              ZabbixHostExists, ZabbixBreakdown, ZabbixCompare
<1>3. CASE WazuhStep
  <2>1. token' = token \/ token' = FreshToken
    BY <1>3 DEF WazuhStep, WazuhUseToken, WazuhMustLogIn, WazuhLogIn, WazuhRejected, WazuhAgents
  <2>2. 0 \in 0..TokenTTL
    OBVIOUS
  <2>3. FreshToken \in [valid : BOOLEAN, age : 0..TokenTTL, issued : 0..TokenTTL]
    BY <2>2, Zenon DEF FreshToken
  <2>4. FreshToken.age = FreshToken.issued
    BY DEF FreshToken
  <2>5. QED
    BY <2>1, <2>3, <2>4
<1>4. CASE RTStep
  BY <1>4 DEF RTStep, RTSearch, RTQueue, RTOwner
<1>5. CASE PegasusStep
  BY <1>5 DEF PegasusStep, PegasusBound, PegasusScan, PegasusCount
<1>6. CASE EndpointReply \/ RequestFails \/ Drift
  BY <1>6 DEF EndpointReply, RequestFails, Drift
<1>7. CASE TokenRevoked
  <2>1. token' = [token EXCEPT !.valid = FALSE]
    BY <1>7 DEF TokenRevoked
  <2>2. token' \in [valid : BOOLEAN, age : 0..TokenTTL, issued : 0..TokenTTL]
    BY <2>1
  <2>3. token'.age = token.age /\ token'.issued = token.issued
    BY <2>1
  <2>4. QED
    BY <2>2, <2>3
<1>8. CASE Tick
  <2>1. token' = [token EXCEPT !.age = token.age + 1, !.issued = token.issued + 1]
    BY <1>8 DEF Tick
  <2>2. token.age + 1 \in 0..TokenTTL
    BY <1>8 DEF Tick
  <2>3. token' \in [valid : BOOLEAN, age : 0..TokenTTL, issued : 0..TokenTTL]
    BY <2>1, <2>2
  <2>4. token'.age = token.age + 1 /\ token'.issued = token.issued + 1
    BY <2>1
  <2>5. QED
    BY <2>3, <2>4
<1>9. CASE Finished \/ UNCHANGED vars
  BY <1>9 DEF Finished, vars
<1>10. QED
  BY <1>1, <1>2, <1>3, <1>4, <1>5, <1>6, <1>7, <1>8, <1>9 DEF Next, Working

LEMMA OnlyWazuhSendsATokenInTime ==
  ASSUME TokenInv, [Next]_vars, pc = "token", pc' = "agents"
  PROVE  token'.issued < TokenTTL
<1> USE TTLAssumption DEF TokenInv
<1>1. CASE WazuhUseToken
  BY <1>1 DEF WazuhUseToken
<1>2. CASE WazuhStep /\ ~WazuhUseToken
  BY <1>2 DEF WazuhStep, WazuhMustLogIn, WazuhLogIn, WazuhRejected, WazuhAgents, Continue
<1>3. ~(Execute \/ ZabbixStep \/ RTStep \/ PegasusStep \/ EndpointReply \/ RequestFails)
  BY DEF Execute, ZabbixStep, ZabbixPage, ZabbixCensus, ZabbixCensusOverflows, ZabbixLevel,
         ZabbixHostExists, ZabbixBreakdown, ZabbixCompare, RTStep, RTSearch, RTQueue, RTOwner,
         PegasusStep, PegasusBound, PegasusScan, PegasusCount, EndpointReply, RequestFails
<1>4. ~(Drift \/ TokenRevoked \/ Tick \/ Finished \/ UNCHANGED vars)
  BY DEF Drift, TokenRevoked, Tick, Finished, vars
<1>5. QED
  BY <1>1, <1>2, <1>3, <1>4 DEF Next, Working

\* The Wazuh connector never sends a token as old as its lifetime, whatever
\* the manager forgets meanwhile (authenticate, wazuh.go:256).
THEOREM TokenIsSentInTime == Spec => NoOldTokenIsSent
<1>1. Init => TokenInv
  BY TokenInit
<1>2. TokenInv /\ [Next]_vars => TokenInv'
  BY TokenStep
<1>3. TokenInv /\ [Next]_vars => [pc = "token" /\ pc' = "agents" => token'.issued < TokenTTL]_vars
  BY OnlyWazuhSendsATokenInTime
<1>4. QED
  BY <1>1, <1>2, <1>3, PTL DEF Spec, NoOldTokenIsSent

-----------------------------------------------------------------------------
(* What the operators that build evidence leave alone.                      *)

Fields == {"error", "items", "total", "truncated", "summary", "breakdown", "warnings"}

Shaped(e) == e = [f \in Fields |-> e[f]]

\* e goes on from d: the same items, the same mark.
Keeps(e, d) == Shaped(e) /\ e.items = d.items /\ e.truncated = d.truncated

LEMMA BlankShaped ==
  /\ Shaped(Blank)
  /\ \A code : Shaped(Failed(code)) /\ Failed(code).error = code
  /\ \A items : Shaped(Page(items)) /\ Page(items).items = items
  BY DEF Shaped, Fields, Blank, Failed, Page, Noted

LEMMA NotedKeeps == ASSUME NEW e, Shaped(e), NEW t PROVE Keeps(Noted(e, t), e)
  BY DEF Keeps, Shaped, Fields, Noted

LEMMA WarnedKeeps == ASSUME NEW e, Shaped(e), NEW w PROVE Keeps(Warned(e, w), e)
  BY DEF Keeps, Shaped, Fields, Warned

LEMMA CountedKeeps ==
  ASSUME NEW e, Shaped(e), NEW name, NEW key, NEW n PROVE Keeps(Counted(e, name, key, n), e)
<1> DEFINE t == IF n > 0 THEN Over(Entry(key, n), Table(e, name)) ELSE Table(e, name)
           b == Over(Entry(name, t), e.breakdown)
<1>1. Counted(e, name, key, n) = [e EXCEPT !.breakdown = b]
  BY DEF Counted
<1> HIDE DEF b
<1>2. QED
  BY <1>1 DEF Keeps, Shaped, Fields

LEMMA JudgedMarks ==
  ASSUME NEW e, Shaped(e), NEW n
  PROVE  /\ Shaped(Judged(e, n)) /\ Judged(e, n).items = e.items
         /\ Judged(e, n).truncated = (n > Cardinality(e.items))
<1> DEFINE d == Noted(e, Entry("total_matching", n))
<1>1. Keeps(d, e)
  BY NotedKeeps
<1>2. Judged(e, n) = [d EXCEPT !.total = n, !.truncated = n > Cardinality(e.items)]
  BY DEF Judged
<1> HIDE DEF d
<1>3. QED
  BY <1>1, <1>2 DEF Keeps, Shaped, Fields

\* A page as long as everything that matched is everything that matched.
LEMMA FullPageIsWhole ==
  ASSUME NEW M, IsFiniteSet(M), NEW P \in SUBSET M, ~(Cardinality(M) > Cardinality(P))
  PROVE  P = M
  BY FS_Subset, FS_CardinalityType

-----------------------------------------------------------------------------
(* The invariant.                                                           *)

RowsInv ==
  /\ IsFiniteSet(rows) /\ always \subseteq rows
  /\ \A c \in site.changes : IsFiniteSet(c.in)
  /\ site.registered \subseteq Sources

ZabbixPhases == {"page", "census", "level", "host", "breakdown", "compare"}

PhaseInv ==
  /\ pc \in ZabbixPhases => step.source = "zabbix-api"
  /\ pc \in {"token", "login", "agents"} => step.source = "wazuh-api"
  /\ pc \in {"search", "queue", "owner"} => step.source = "rt-api"
  /\ pc \in {"bound", "scan", "count"} => step.source = "pegasus-db"
  /\ pc = "reply" => step.source = "sroiaaa-agent"

Paged == {"queue", "owner", "count"}

WholeInv ==
  /\ pc \in Paged => Shaped(evidence)
  /\ (pc \in Paged \/ (pc = "idle" /\ evidence.error = "none")) /\ ~evidence.truncated =>
       Wanted(always) \subseteq evidence.items

AnswerInv == RowsInv /\ PhaseInv /\ WholeInv

\* Everything but taking a step and a change of the source.
LEMMA RowsHeld ==
  ASSUME RowsInv, UNCHANGED <<work, held>>
  PROVE  RowsInv' /\ (Wanted(always))' = Wanted(always)
  BY DEF RowsInv, work, held, Wanted, Agents, OpenTickets, InWindow

LEMMA WantedGrows == ASSUME NEW A, NEW B, A \subseteq B PROVE Wanted(A) \subseteq Wanted(B)
<1>1. Agents(step, A) \subseteq Agents(step, B)
  BY DEF Agents
<1>2. OpenTickets(step, A) \subseteq OpenTickets(step, B)
  BY DEF OpenTickets
<1>3. QED
  BY <1>1, <1>2 DEF Wanted

LEMMA AnswerInit == Init => AnswerInv
<1> SUFFICES ASSUME Init PROVE AnswerInv
  OBVIOUS
<1>1. PICK s \in Scenarios : site = s.site /\ rows = s.rows /\ always = s.rows
  BY DEF Init, ConnectorInit
<1>2. pc = "idle" /\ evidence.error = "not asked"
  BY DEF Init, ConnectorInit, Blank
<1>3. QED
  BY <1>1, <1>2, ScenariosAssumption, RegisteredAssumption DEF AnswerInv, RowsInv, PhaseInv, WholeInv, ZabbixPhases, Paged

LEMMA ExecuteKeeps == AnswerInv /\ Execute => AnswerInv'
<1> SUFFICES ASSUME AnswerInv, Execute PROVE AnswerInv'
  OBVIOUS
<1> DEFINE s == Head(calls)
<1>1. RowsInv'
  BY DEF AnswerInv, RowsInv, Execute
<1>2. CASE Refusal(s) # "none"
  <2>1. pc' = "idle" /\ evidence'.error # "none"
    BY <1>2, BlankShaped DEF Execute
  <2>2. QED
    BY <1>1, <2>1 DEF AnswerInv, PhaseInv, WholeInv, ZabbixPhases, Paged
<1>3. CASE Refusal(s) = "none"
  <2>1. pc' = FirstRequest[s.source] /\ step' = s
    BY <1>3 DEF Execute
  <2>2. s.source \in Sources
    BY <1>3 DEF Refusal, AnswerInv, RowsInv
  <2>3. QED
    BY <1>1, <2>1, <2>2 DEF AnswerInv, PhaseInv, WholeInv, ZabbixPhases, Paged,
                              FirstRequest, Sources
<1>4. QED
  BY <1>2, <1>3

LEMMA DriftKeeps == AnswerInv /\ Drift => AnswerInv'
<1> SUFFICES ASSUME AnswerInv, Drift PROVE AnswerInv'
  OBVIOUS
<1>1. RowsInv'
  <2>1. PICK c \in site.changes : rows' = (rows \ c.out) \cup c.in
    BY DEF Drift
  <2>2. IsFiniteSet(rows \ c.out) /\ IsFiniteSet(c.in)
    BY FS_Difference DEF AnswerInv, RowsInv
  <2>3. IsFiniteSet(rows')
    BY <2>1, <2>2, FS_Union
  <2>4. QED
    BY <2>3 DEF Drift, AnswerInv, RowsInv, work
<1>2. pc' = pc /\ evidence' = evidence /\ step' = step /\ pc # "idle"
  BY DEF Drift, work
<1>3. (Wanted(always))' \subseteq Wanted(always)
  <2>1. (Wanted(always))' = Wanted(always \cap rows')
    BY DEF Drift, work, Wanted, Agents, OpenTickets, InWindow
  <2>2. QED
    BY <2>1, WantedGrows
<1>4. PhaseInv'
  BY <1>2 DEF AnswerInv, PhaseInv
<1>5. Shaped(evidence)' = Shaped(evidence)
  BY <1>2 DEF Shaped
<1>6. WholeInv'
  BY <1>2, <1>3, <1>5 DEF AnswerInv, WholeInv
<1>7. QED
  BY <1>1, <1>4, <1>6 DEF AnswerInv

\* An answer that failed promises nothing, and neither does one of a source
\* that is asked several times.
LEMMA FailsKeeps == AnswerInv /\ RequestFails => AnswerInv'
<1> SUFFICES ASSUME AnswerInv, RequestFails PROVE AnswerInv'
  OBVIOUS
<1>1. pc' = "idle" /\ evidence'.error # "none" /\ UNCHANGED <<work, held>>
  BY BlankShaped DEF RequestFails, Answer, Continue
<1>2. QED
  BY <1>1, RowsHeld DEF AnswerInv, PhaseInv, WholeInv, ZabbixPhases, Paged

LEMMA ZabbixKeeps == AnswerInv /\ ZabbixStep => AnswerInv'
<1> SUFFICES ASSUME AnswerInv, ZabbixStep PROVE AnswerInv'
  OBVIOUS
<1>1. AfterBreakdown \in ZabbixPhases \cup {"idle"}
  BY DEF AfterBreakdown, ZabbixPhases
<1>2. \A e : AfterHost(e) \in ZabbixPhases \cup {"idle"} /\ AfterCensus(e) \in ZabbixPhases \cup {"idle"}
  BY <1>1 DEF AfterHost, AfterCensus, ZabbixPhases
<1>3. \A e, n : CensusDone(e, n) => pc' \in ZabbixPhases \cup {"idle"} /\ UNCHANGED <<work, held>>
  BY <1>2 DEF CensusDone, Continue
<1>4. pc \in ZabbixPhases
  BY DEF ZabbixStep, ZabbixPage, ZabbixCensus, ZabbixCensusOverflows, ZabbixLevel,
         ZabbixHostExists, ZabbixBreakdown, ZabbixCompare, ZabbixPhases
<1>5. pc' \in ZabbixPhases \cup {"idle"} /\ UNCHANGED <<work, held>>
  <2>1. CASE ZabbixPage \/ ZabbixCensusOverflows \/ ZabbixCompare
    BY <2>1 DEF ZabbixPage, ZabbixCensusOverflows, ZabbixCompare, Answer, Continue, ZabbixPhases
  <2>2. CASE ZabbixCensus
    BY <2>2, <1>3 DEF ZabbixCensus
  <2>3. CASE ZabbixLevel
    BY <2>3, <1>3 DEF ZabbixLevel, Continue, ZabbixPhases
  <2>4. CASE ZabbixHostExists
    BY <2>4, <1>2 DEF ZabbixHostExists, Continue
  <2>5. CASE ZabbixBreakdown
    BY <2>5, <1>1 DEF ZabbixBreakdown, Continue
  <2>6. QED
    BY <2>1, <2>2, <2>3, <2>4, <2>5 DEF ZabbixStep
<1>6. step'.source = "zabbix-api"
  BY <1>4, <1>5 DEF AnswerInv, PhaseInv, work
<1>7. (Wanted(always))' = {}
  BY <1>6 DEF Wanted
<1>8. QED
  BY <1>5, <1>6, <1>7, RowsHeld DEF AnswerInv, PhaseInv, WholeInv, ZabbixPhases, Paged

LEMMA EndpointKeeps == AnswerInv /\ EndpointReply => AnswerInv'
<1> SUFFICES ASSUME AnswerInv, EndpointReply PROVE AnswerInv'
  OBVIOUS
<1>1. pc = "reply" /\ pc' = "idle" /\ UNCHANGED <<work, held>>
  BY DEF EndpointReply, Answer, Continue
<1>2. (Wanted(always))' = {}
  BY <1>1 DEF AnswerInv, PhaseInv, work, Wanted
<1>3. QED
  BY <1>1, <1>2, RowsHeld DEF AnswerInv, PhaseInv, WholeInv, ZabbixPhases, Paged

LEMMA WazuhKeeps == AnswerInv /\ WazuhStep => AnswerInv'
<1> SUFFICES ASSUME AnswerInv, WazuhStep PROVE AnswerInv'
  OBVIOUS
<1>1. UNCHANGED <<work, held>> /\ step.source = "wazuh-api"
  BY DEF AnswerInv, PhaseInv, WazuhStep, WazuhUseToken, WazuhMustLogIn, WazuhLogIn,
         WazuhRejected, WazuhAgents, Answer, Continue
<1>2. step'.source = "wazuh-api" /\ Wanted(always) = Agents(step, always)
  BY <1>1 DEF work, Wanted
<1>3. CASE WazuhUseToken \/ WazuhMustLogIn \/ WazuhLogIn
  <2>1. pc' \in {"token", "login", "agents"}
    BY <1>3 DEF WazuhUseToken, WazuhMustLogIn, WazuhLogIn, Continue
  <2>2. QED
    BY <1>1, <1>2, <2>1, RowsHeld DEF AnswerInv, PhaseInv, WholeInv, ZabbixPhases, Paged
<1>4. CASE WazuhRejected
  <2>1. pc' = "idle" /\ evidence'.error # "none"
    BY <1>4, BlankShaped DEF WazuhRejected, Answer, Continue
  <2>2. QED
    BY <1>1, <2>1, RowsHeld DEF AnswerInv, PhaseInv, WholeInv, ZabbixPhases, Paged
<1>5. CASE WazuhAgents
  <2> DEFINE M == Agents(step, rows)
             Before(a, b) == a.id < b.id
             e(P, items) == [Noted(Blank, summarizeAgents(P)) EXCEPT
                               !.items = items, !.total = Cardinality(M),
                               !.truncated = Cardinality(M) > Cardinality(items)]
             w == {x \in {"critical groups not evaluated"} : ~site.groups}
  <2>1. PICK P \in Top(M, WazuhMaxLimit, Before) : \E items \in FleetItems(step, P) :
          Answer(Warned(e(P, items), w))
    BY <1>5 DEF WazuhAgents
  <2>2. PICK items \in FleetItems(step, P) : Answer(Warned(e(P, items), w))
    BY <2>1
  <2>3. P \subseteq M /\ items \subseteq P
    BY <2>1, <2>2 DEF Top, FleetItems, kSubset
  <2>4. Shaped(e(P, items)) /\ e(P, items).items = items
          /\ e(P, items).truncated = (Cardinality(M) > Cardinality(items))
    <3>1. Shaped(Noted(Blank, summarizeAgents(P)))
      BY BlankShaped, NotedKeeps DEF Keeps
    <3> DEFINE d == Noted(Blank, summarizeAgents(P))
    <3> HIDE DEF d
    <3>2. Shaped(d)
      BY <3>1 DEF d
    <3>3. e(P, items) = [d EXCEPT !.items = items, !.total = Cardinality(M),
                                  !.truncated = Cardinality(M) > Cardinality(items)]
      BY DEF d
    <3>4. QED
      BY <3>2, <3>3 DEF Shaped, Fields
  <2>5. evidence' = Warned(e(P, items), w) /\ pc' = "idle"
    BY <2>2 DEF Answer, Continue
  <2> HIDE DEF e, w
  <2>6. evidence'.items = items /\ evidence'.truncated = (Cardinality(M) > Cardinality(items))
    BY <2>4, <2>5, WarnedKeeps DEF Keeps
  <2>7. IsFiniteSet(M)
    BY FS_Subset DEF AnswerInv, RowsInv, Agents
  <2>8. ~evidence'.truncated => items = M
    BY <2>3, <2>6, <2>7, FullPageIsWhole
  <2>9. Wanted(always) \subseteq M
    BY <1>2 DEF AnswerInv, RowsInv, Agents
  <2>10. QED
    BY <1>1, <1>2, <2>5, <2>6, <2>8, <2>9, RowsHeld
    DEF AnswerInv, PhaseInv, WholeInv, ZabbixPhases, Paged
<1>6. QED
  BY <1>3, <1>4, <1>5 DEF WazuhStep

LEMMA PegasusKeeps == AnswerInv /\ PegasusStep => AnswerInv'
<1> SUFFICES ASSUME AnswerInv, PegasusStep PROVE AnswerInv'
  OBVIOUS
<1>1. UNCHANGED <<work, held>> /\ step.source = "pegasus-db"
  BY DEF AnswerInv, PhaseInv, PegasusStep, PegasusBound, PegasusScan, PegasusCount, Answer, Continue
<1>2. step'.source = "pegasus-db" /\ Wanted(always) = always
  BY <1>1 DEF work, Wanted
<1>3. CASE PegasusBound
  <2>1. pc' = "scan"
    BY <1>3 DEF PegasusBound, Continue
  <2>2. QED
    BY <1>1, <1>2, <2>1, RowsHeld DEF AnswerInv, PhaseInv, WholeInv, ZabbixPhases, Paged
<1>4. CASE PegasusScan
  <2>1. PICK P \in SUBSET rows, capped \in BOOLEAN :
          /\ ScanStops(P, capped)
          /\ Continue([Page(P) EXCEPT !.truncated = capped], "count")
    BY <1>4 DEF PegasusScan
  <2>2. pc' = "count" /\ evidence' = [Page(P) EXCEPT !.truncated = capped]
    BY <2>1 DEF Continue
  <2>3. Shaped(evidence') /\ evidence'.items = P /\ evidence'.truncated = capped
    BY <2>2, BlankShaped DEF Shaped, Fields
  <2>4. ~capped => P = rows
    BY <2>1 DEF ScanStops
  <2>5. always \subseteq rows
    BY DEF AnswerInv, RowsInv
  <2>6. QED
    BY <1>1, <1>2, <2>2, <2>3, <2>4, <2>5, RowsHeld
    DEF AnswerInv, PhaseInv, WholeInv, ZabbixPhases, Paged, Shaped
<1>5. CASE PegasusCount
  <2> DEFINE e == Judged(evidence, Cardinality(rows))
             short == evidence.truncated \/ e.truncated
             t == IF short THEN Entry("row_limit", RowLimit(step)) ELSE EmptyTable
             d == Noted(e, t)
  <2>1. pc = "count" /\ pc' = "idle" /\ evidence' = [d EXCEPT !.truncated = short]
    BY <1>5 DEF PegasusCount, Answer, Continue
  <2>2. Shaped(evidence) /\ (~evidence.truncated => always \subseteq evidence.items)
    BY <1>2, <2>1 DEF AnswerInv, WholeInv, Paged
  <2>3. Shaped(e) /\ e.items = evidence.items
    BY <2>2, JudgedMarks
  <2> HIDE DEF e, t
  <2>4. Shaped(d) /\ d.items = evidence.items
    BY <2>3, NotedKeeps DEF Keeps
  <2> HIDE DEF d, short
  <2>5. evidence'.items = evidence.items /\ evidence'.truncated = short
    BY <2>1, <2>4 DEF Shaped, Fields
  <2>6. evidence.truncated => short
    BY DEF short
  <2>7. QED
    BY <1>1, <1>2, <2>1, <2>2, <2>5, <2>6, RowsHeld
    DEF AnswerInv, PhaseInv, WholeInv, ZabbixPhases, Paged
<1>6. QED
  BY <1>3, <1>4, <1>5 DEF PegasusStep

\* The owners' turn: the answer so far goes on as it is.
LEMMA OwnersNext ==
  ASSUME AnswerInv, step.source = "rt-api", NEW e, Shaped(e), ToOwners(e),
         ~e.truncated => Wanted(always) \subseteq e.items
  PROVE  AnswerInv'
<1>1. evidence' = e /\ pc' \in {"idle", "owner"} /\ UNCHANGED <<work, held>>
  BY DEF ToOwners, Continue
<1>2. step'.source = "rt-api"
  BY <1>1 DEF work
<1>3. QED
  BY <1>1, <1>2, RowsHeld DEF AnswerInv, PhaseInv, WholeInv, ZabbixPhases, Paged, Shaped

LEMMA QueuesNext ==
  ASSUME AnswerInv, step.source = "rt-api", NEW e, Shaped(e), NEW next \in {"queue", "owner", "idle"},
         Continue(e, next), ~e.truncated => Wanted(always) \subseteq e.items
  PROVE  AnswerInv'
<1>1. evidence' = e /\ pc' = next /\ UNCHANGED <<work, held>>
  BY DEF Continue
<1>2. step'.source = "rt-api"
  BY <1>1 DEF work
<1>3. QED
  BY <1>1, <1>2, RowsHeld DEF AnswerInv, PhaseInv, WholeInv, ZabbixPhases, Paged, Shaped

LEMMA RTKeeps == AnswerInv /\ RTStep => AnswerInv'
<1> SUFFICES ASSUME AnswerInv, RTStep PROVE AnswerInv'
  OBVIOUS
<1>1. step.source = "rt-api"
  BY DEF AnswerInv, PhaseInv, RTStep, RTSearch, RTQueue, RTOwner
<1>2. Wanted(always) = OpenTickets(step, always)
  BY <1>1 DEF Wanted
<1>3. CASE RTSearch
  <2> DEFINE M == OpenTickets(step, rows)
             e(P) == Judged(Page(P), Cardinality(M))
             f(P) == Warned(e(P), {"queues not counted"})
  <2>1. PICK P \in Top(M, step.limit, Newest) :
          ToOwners(f(P)) \/ Continue(e(P), "queue")
    BY <1>3 DEF RTSearch
  <2>2. P \in SUBSET M /\ IsFiniteSet(M)
    BY <2>1, FS_Subset DEF Top, kSubset, OpenTickets, AnswerInv, RowsInv
  <2>3. Shaped(e(P)) /\ e(P).items = P /\ e(P).truncated = (Cardinality(M) > Cardinality(P))
    BY BlankShaped, JudgedMarks
  <2> HIDE DEF e
  <2>4. Keeps(f(P), e(P))
    BY <2>3, WarnedKeeps
  <2> HIDE DEF f
  <2>5. ~e(P).truncated => P = M
    BY <2>2, <2>3, FullPageIsWhole
  <2>6. OpenTickets(step, always) \subseteq M
    BY DEF OpenTickets, AnswerInv, RowsInv
  <2>7. CASE ToOwners(f(P))
    BY <2>7, <1>1, <1>2, <2>3, <2>4, <2>5, <2>6, OwnersNext DEF Keeps
  <2>8. CASE Continue(e(P), "queue")
    BY <2>8, <1>1, <1>2, <2>3, <2>5, <2>6, QueuesNext
  <2>9. QED
    BY <2>1, <2>7, <2>8
<1>4. ASSUME pc \in {"queue", "owner"}
      PROVE  Shaped(evidence) /\ (~evidence.truncated => Wanted(always) \subseteq evidence.items)
  BY <1>4 DEF AnswerInv, WholeInv, Paged
<1>5. CASE RTQueue
  <2> DEFINE e == Counted(evidence, "tickets_by_queue", Head(todo),
                          Cardinality({t \in OpenTickets(step, rows) : t.queue = Head(todo)}))
  <2>1. pc = "queue" /\ (ToOwners(e) \/ Continue(e, "queue"))
    BY <1>5 DEF RTQueue
  <2>2. Keeps(e, evidence)
    BY <1>4, <2>1, CountedKeeps
  <2> HIDE DEF e
  <2>3. QED
    BY <1>1, <1>4, <2>1, <2>2, OwnersNext, QueuesNext DEF Keeps
<1>6. CASE RTOwner
  <2> DEFINE e == Counted(evidence, "tickets_by_owner", Head(todo),
                          Cardinality({t \in OpenTickets(step, rows) : t.owner = Head(todo)}))
             f == Warned(e, OwnerWarnings(e))
  <2>1. pc = "owner" /\ (Continue(f, "idle") \/ Continue(e, "owner"))
    BY <1>6 DEF RTOwner, Answer
  <2>2. Keeps(e, evidence)
    BY <1>4, <2>1, CountedKeeps
  <2> HIDE DEF e
  <2>3. Keeps(f, e)
    BY <2>2, WarnedKeeps DEF Keeps
  <2> HIDE DEF f
  <2>4. CASE Continue(f, "idle")
    BY <2>4, <1>1, <1>4, <2>1, <2>2, <2>3, QueuesNext DEF Keeps
  <2>5. CASE Continue(e, "owner")
    BY <2>5, <1>1, <1>4, <2>1, <2>2, QueuesNext DEF Keeps
  <2>6. QED
    BY <2>1, <2>4, <2>5
<1>7. QED
  BY <1>3, <1>5, <1>6 DEF RTStep

LEMMA AnswerStep == AnswerInv /\ [Next]_vars => AnswerInv'
<1> SUFFICES ASSUME AnswerInv, [Next]_vars PROVE AnswerInv'
  OBVIOUS
<1>1. CASE TokenRevoked \/ Tick \/ Finished \/ UNCHANGED vars
  <2>1. UNCHANGED <<work, held, pc, evidence>>
    BY <1>1 DEF TokenRevoked, Tick, Finished, vars, work, held
  <2>2. step' = step
    BY <2>1 DEF work
  <2>3. RowsInv' /\ (Wanted(always))' = Wanted(always)
    BY <2>1, RowsHeld DEF AnswerInv
  <2>4. QED
    BY <2>1, <2>2, <2>3 DEF AnswerInv, PhaseInv, WholeInv, Shaped
<1>2. QED
  BY <1>1, ExecuteKeeps, ZabbixKeeps, WazuhKeeps, RTKeeps, PegasusKeeps, EndpointKeeps,
     FailsKeeps, DriftKeeps DEF Next, Working

\* Evidence of Wazuh, Request Tracker and PegasusDB that is not marked truncated
\* holds all that was there throughout, however the source moved.
THEOREM UnmarkedIsWhole == Spec => []UnmarkedEvidenceIsWhole
<1>1. Init => AnswerInv
  BY AnswerInit
<1>2. AnswerInv /\ [Next]_vars => AnswerInv'
  BY AnswerStep
<1>3. AnswerInv => UnmarkedEvidenceIsWhole
  BY DEF AnswerInv, WholeInv, UnmarkedEvidenceIsWhole
<1>4. QED
  BY <1>1, <1>2, <1>3, PTL DEF Spec
=============================================================================
