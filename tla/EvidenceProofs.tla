--------------------------- MODULE EvidenceProofs ---------------------------
(***************************************************************************)
(* What the answers of the connectors say of their source, proved for any  *)
(* source, any caps, any number of calls of a session and of changes while *)
(* a call is made.                                                         *)
(*                                                                         *)
(* Everything is relative to TypedInv: the evidence has its type, and what *)
(* the source held was some of what a scenario allows.  The fleet and the  *)
(* listings of an endpoint come of a single reply, and their properties    *)
(* are inductive as they stand.  Tickets are counted by a request per      *)
(* queue and owner: TicketsInv says so of the tables filled so far.        *)
(* Problems are counted by up to ten requests: ZabbixInv says, for each    *)
(* request that may come next, what the evidence has by then.              *)
(***************************************************************************)
EXTENDS ExecutorProofs

-----------------------------------------------------------------------------
(* What the operators that build evidence make of its fields.               *)

LEMMA EntryTable ==
  ASSUME NEW key, NEW n
  PROVE  DOMAIN Entry(key, n) = {key} /\ Entry(key, n)[key] = n
  BY DEF Entry

LEMMA OverTable ==
  ASSUME NEW f, NEW g
  PROVE  /\ DOMAIN Over(f, g) = DOMAIN f \cup DOMAIN g
         /\ \A k \in DOMAIN f : Over(f, g)[k] = f[k]
         /\ \A k \in DOMAIN g : k \notin DOMAIN f => Over(f, g)[k] = g[k]
  BY DEF Over

LEMMA EntryOver ==
  ASSUME NEW key, NEW n, NEW g
  PROVE  /\ DOMAIN Over(Entry(key, n), g) = {key} \cup DOMAIN g
         /\ Over(Entry(key, n), g)[key] = n
         /\ \A k \in DOMAIN g : k # key => Over(Entry(key, n), g)[k] = g[k]
<1> DEFINE f == Entry(key, n)
<1>1. DOMAIN f = {key} /\ f[key] = n
  BY EntryTable
<1> HIDE DEF f
<1>2. /\ DOMAIN Over(f, g) = DOMAIN f \cup DOMAIN g
      /\ \A k \in DOMAIN f : Over(f, g)[k] = f[k]
      /\ \A k \in DOMAIN g : k \notin DOMAIN f => Over(f, g)[k] = g[k]
  BY OverTable
<1>3. /\ DOMAIN Over(f, g) = {key} \cup DOMAIN g
      /\ Over(f, g)[key] = n
      /\ \A k \in DOMAIN g : k # key => Over(f, g)[k] = g[k]
  BY <1>1, <1>2
<1>4. QED
  BY <1>3 DEF f

\* The same, at one key.
LEMMA OverAt ==
  ASSUME NEW f, NEW g, NEW k
  PROVE  /\ k \in DOMAIN Over(f, g) <=> k \in DOMAIN f \/ k \in DOMAIN g
         /\ k \in DOMAIN f => Over(f, g)[k] = f[k]
         /\ k \in DOMAIN g /\ k \notin DOMAIN f => Over(f, g)[k] = g[k]
  BY DEF Over

LEMMA EntryAt ==
  ASSUME NEW key, NEW n, NEW g, NEW k
  PROVE  /\ k \in DOMAIN Over(Entry(key, n), g) <=> k = key \/ k \in DOMAIN g
         /\ k = key => Over(Entry(key, n), g)[k] = n
         /\ k \in DOMAIN g /\ k # key => Over(Entry(key, n), g)[k] = g[k]
  BY DEF Over, Entry

LEMMA BlankFields ==
  /\ Shaped(Blank) /\ Blank.error = "none" /\ Blank.items = {} /\ Blank.total = 0
  /\ Blank.truncated = FALSE /\ Blank.summary = EmptyTable /\ Blank.breakdown = EmptyTable
  /\ Blank.warnings = {}
  BY DEF Shaped, Fields, Blank

LEMMA FailedFields ==
  ASSUME NEW code
  PROVE  /\ Shaped(Failed(code)) /\ Failed(code).error = code /\ Failed(code).items = {}
         /\ Failed(code).total = 0 /\ Failed(code).truncated = FALSE
         /\ Failed(code).summary = EmptyTable
<1>1. Failed(code) = [Blank EXCEPT !.error = code]
  BY DEF Failed
<1>2. QED
  BY <1>1, BlankFields DEF Shaped, Fields

LEMMA NotedFields ==
  ASSUME NEW e, Shaped(e), NEW t
  PROVE  /\ Shaped(Noted(e, t)) /\ Noted(e, t).error = e.error /\ Noted(e, t).items = e.items
         /\ Noted(e, t).total = e.total /\ Noted(e, t).truncated = e.truncated
         /\ Noted(e, t).summary = Over(t, e.summary)
         /\ Noted(e, t).breakdown = e.breakdown /\ Noted(e, t).warnings = e.warnings
  BY DEF Shaped, Fields, Noted

LEMMA WarnedFields ==
  ASSUME NEW e, Shaped(e), NEW w
  PROVE  /\ Shaped(Warned(e, w)) /\ Warned(e, w).error = e.error /\ Warned(e, w).items = e.items
         /\ Warned(e, w).total = e.total /\ Warned(e, w).truncated = e.truncated
         /\ Warned(e, w).summary = e.summary
         /\ Warned(e, w).breakdown = e.breakdown /\ Warned(e, w).warnings = e.warnings \cup w
  BY DEF Shaped, Fields, Warned

LEMMA CountedFields ==
  ASSUME NEW e, Shaped(e), NEW name, NEW key, NEW n
  PROVE  /\ Shaped(Counted(e, name, key, n)) /\ Counted(e, name, key, n).error = e.error
         /\ Counted(e, name, key, n).items = e.items
         /\ Counted(e, name, key, n).total = e.total
         /\ Counted(e, name, key, n).truncated = e.truncated
         /\ Counted(e, name, key, n).summary = e.summary
         /\ Counted(e, name, key, n).breakdown =
              Over(Entry(name, IF n > 0 THEN Over(Entry(key, n), Table(e, name))
                               ELSE Table(e, name)), e.breakdown)
<1> DEFINE b == Over(Entry(name, IF n > 0 THEN Over(Entry(key, n), Table(e, name))
                                 ELSE Table(e, name)), e.breakdown)
<1>1. Counted(e, name, key, n) = [e EXCEPT !.breakdown = b]
  BY DEF Counted
<1> HIDE DEF b
<1>2. /\ Shaped(Counted(e, name, key, n)) /\ Counted(e, name, key, n).error = e.error
      /\ Counted(e, name, key, n).items = e.items
      /\ Counted(e, name, key, n).total = e.total
      /\ Counted(e, name, key, n).truncated = e.truncated
      /\ Counted(e, name, key, n).summary = e.summary
      /\ Counted(e, name, key, n).breakdown = b
  BY <1>1 DEF Shaped, Fields
<1>3. QED
  BY <1>2 DEF b

\* The fields an answer is closed with.
Closed(e, n, mark) == [e EXCEPT !.total = n, !.truncated = mark]

LEMMA ClosedFields ==
  ASSUME NEW e, Shaped(e), NEW n, NEW mark, NEW d, d = Closed(e, n, mark)
  PROVE  /\ Shaped(d) /\ d.error = e.error /\ d.items = e.items /\ d.total = n
         /\ d.truncated = mark /\ d.summary = e.summary
         /\ d.breakdown = e.breakdown /\ d.warnings = e.warnings
  BY DEF Closed, Shaped, Fields

LEMMA JudgedFields ==
  ASSUME NEW e, Shaped(e), NEW n
  PROVE  /\ Shaped(Judged(e, n)) /\ Judged(e, n).error = e.error /\ Judged(e, n).items = e.items
         /\ Judged(e, n).total = n /\ Judged(e, n).truncated = (n > Cardinality(e.items))
         /\ Judged(e, n).summary = Over(Entry("total_matching", n), e.summary)
         /\ Judged(e, n).breakdown = e.breakdown /\ Judged(e, n).warnings = e.warnings
<1> DEFINE d == Noted(e, Entry("total_matching", n))
<1>1. /\ Shaped(d) /\ d.error = e.error /\ d.items = e.items
      /\ d.summary = Over(Entry("total_matching", n), e.summary)
      /\ d.breakdown = e.breakdown /\ d.warnings = e.warnings
  BY NotedFields
<1> DEFINE mark == n > Cardinality(e.items)
           j == Judged(e, n)
<1>2. j = Closed(d, n, mark)
  BY Zenon DEF Judged, Closed
<1> HIDE DEF d, mark, j
<1>3. /\ Shaped(j) /\ j.error = d.error /\ j.items = d.items /\ j.total = n
      /\ j.truncated = mark /\ j.summary = d.summary
      /\ j.breakdown = d.breakdown /\ j.warnings = d.warnings
  BY <1>1, <1>2, ClosedFields
<1>4. /\ Shaped(j) /\ j.error = e.error /\ j.items = e.items
      /\ j.total = n /\ j.truncated = mark
      /\ j.summary = Over(Entry("total_matching", n), e.summary)
      /\ j.breakdown = e.breakdown /\ j.warnings = e.warnings
  BY <1>1, <1>3
<1>5. QED
  BY <1>4 DEF j, mark

LEMMA PageFields ==
  ASSUME NEW P
  PROVE  /\ Shaped(Page(P)) /\ Page(P).error = "none" /\ Page(P).items = P /\ Page(P).total = 0
         /\ Page(P).truncated = FALSE /\ Page(P).breakdown = EmptyTable /\ Page(P).warnings = {}
         /\ Page(P).summary = Over(Entry("returned", Cardinality(P)), EmptyTable)
<1> DEFINE d == [Blank EXCEPT !.items = P]
<1>1. /\ Shaped(d) /\ d.error = "none" /\ d.items = P /\ d.total = 0 /\ d.truncated = FALSE
      /\ d.breakdown = EmptyTable /\ d.warnings = {} /\ d.summary = EmptyTable
  BY BlankFields DEF Shaped, Fields
<1>2. Page(P) = Noted(d, Entry("returned", Cardinality(P)))
  BY DEF Page
<1> HIDE DEF d
<1>3. QED
  BY <1>1, <1>2, NotedFields
-----------------------------------------------------------------------------
(* The types of the evidence and the history of its source.                 *)

Figured(table) == \A k \in DOMAIN table : table[k] \in Nat

EvidenceTyped(e) ==
  /\ Shaped(e)
  /\ e.items \subseteq ever
  /\ e.total \in Nat /\ e.truncated \in BOOLEAN
  /\ Figured(e.summary)

Phases == ZabbixPhases \cup {"idle", "token", "login", "agents", "search", "queue", "owner",
                             "bound", "scan", "count", "reply"}

\* The session is of one scenario, and its source holds what that one allows.
HistoryInv ==
  /\ \E s \in Scenarios :
       /\ site = s.site /\ ever \subseteq History(s)
       /\ step \in StepsOf(s) /\ calls \in Seq(StepsOf(s))
  /\ rows \subseteq ever /\ IsFiniteSet(ever)
  /\ drift \in 0..MaxDrift

SourceInv == HistoryInv /\ EvidenceTyped(evidence) /\ pc \in Phases

TypedInv == AnswerInv /\ TokenInv /\ SourceInv

LEMMA FiguredTables ==
  /\ Figured(EmptyTable)
  /\ \A key, n : n \in Nat => Figured(Entry(key, n))
  /\ \A f, g : Figured(f) /\ Figured(g) => Figured(Over(f, g))
<1>1. Figured(EmptyTable)
  BY DEF Figured, EmptyTable
<1>2. ASSUME NEW key, NEW n, n \in Nat PROVE Figured(Entry(key, n))
  <2> DEFINE t == Entry(key, n)
  <2>1. DOMAIN t = {key} /\ t[key] = n
    BY EntryTable
  <2> HIDE DEF t
  <2>2. Figured(t)
    BY <1>2, <2>1 DEF Figured
  <2>3. QED
    BY <2>2 DEF t
<1>3. ASSUME NEW f, NEW g, Figured(f), Figured(g) PROVE Figured(Over(f, g))
  <2> DEFINE t == Over(f, g)
  <2>1. /\ DOMAIN t = DOMAIN f \cup DOMAIN g
        /\ \A k \in DOMAIN f : t[k] = f[k]
        /\ \A k \in DOMAIN g : k \notin DOMAIN f => t[k] = g[k]
    BY OverTable
  <2> HIDE DEF t
  <2>2. Figured(t)
    BY <1>3, <2>1 DEF Figured
  <2>3. QED
    BY <2>2 DEF t
<1>4. QED
  BY <1>1, <1>2, <1>3

LEMMA EntryFigured == ASSUME NEW key, NEW n \in Nat PROVE Figured(Entry(key, n))
  BY FiguredTables

\* Typed, field by field.
LEMMA TypedFields ==
  ASSUME NEW e, Shaped(e), e.items \subseteq ever, e.total \in Nat,
         e.truncated \in BOOLEAN, Figured(e.summary)
  PROVE  EvidenceTyped(e)
  BY DEF EvidenceTyped

LEMMA BlankTyped ==
  EvidenceTyped(Blank) /\ \A code : EvidenceTyped(Failed(code))
<1>1. EvidenceTyped(Blank)
  <2>1. Shaped(Blank) /\ Blank.items \subseteq ever /\ Blank.total \in Nat /\ Figured(Blank.summary)
    BY BlankFields, FiguredTables
  <2>2. Blank.truncated \in BOOLEAN
    BY BlankFields
  <2>3. QED
    BY <2>1, <2>2, TypedFields
<1>2. ASSUME NEW code PROVE EvidenceTyped(Failed(code))
  <2>1. /\ Shaped(Failed(code)) /\ Failed(code).items \subseteq ever
        /\ Failed(code).total \in Nat /\ Figured(Failed(code).summary)
    <3>1. /\ Shaped(Failed(code)) /\ Failed(code).items = {} /\ Failed(code).total = 0
          /\ Failed(code).summary = EmptyTable
      BY FailedFields
    <3>2. QED
      BY <3>1, FiguredTables
  <2>2. Blank.truncated \in BOOLEAN
    BY BlankFields
  <2>3. Failed(code).truncated = Blank.truncated
    BY BlankFields DEF Failed, Shaped, Fields
  <2>4. Failed(code).truncated \in BOOLEAN
    BY <2>2, <2>3, Zenon
  <2>5. QED
    BY <2>1, <2>4, TypedFields
<1>3. QED
  BY <1>1, <1>2

LEMMA NotedTyped ==
  ASSUME NEW e, EvidenceTyped(e), NEW t, Figured(t) PROVE EvidenceTyped(Noted(e, t))
  BY NotedFields, FiguredTables DEF EvidenceTyped

LEMMA WarnedTyped ==
  ASSUME NEW e, EvidenceTyped(e), NEW w PROVE EvidenceTyped(Warned(e, w))
  BY WarnedFields DEF EvidenceTyped

LEMMA CountedTyped ==
  ASSUME NEW e, EvidenceTyped(e), NEW name, NEW key, NEW n
  PROVE  EvidenceTyped(Counted(e, name, key, n))
  BY CountedFields DEF EvidenceTyped

LEMMA JudgedTyped ==
  ASSUME NEW e, EvidenceTyped(e), NEW n \in Nat PROVE EvidenceTyped(Judged(e, n))
<1>1. Figured(Over(Entry("total_matching", n), e.summary))
  BY FiguredTables DEF EvidenceTyped
<1>3. /\ Shaped(Judged(e, n)) /\ Judged(e, n).items \subseteq ever
      /\ Judged(e, n).total \in Nat /\ Figured(Judged(e, n).summary)
  BY <1>1, JudgedFields DEF EvidenceTyped
<1> DEFINE mark == n > Cardinality(e.items)
<1>2. mark \in BOOLEAN
  OBVIOUS
<1>4. Judged(e, n).truncated \in BOOLEAN
  <2>1. Judged(e, n).truncated = mark
    BY JudgedFields DEF EvidenceTyped
  <2> HIDE DEF mark
  <2>2. QED
    BY <1>2, <2>1
<1>5. QED
  BY <1>3, <1>4, TypedFields

LEMMA PageTyped ==
  ASSUME NEW P, P \subseteq ever, IsFiniteSet(P) PROVE EvidenceTyped(Page(P))
<1>1. Figured(Over(Entry("returned", Cardinality(P)), EmptyTable))
  BY FiguredTables, FS_CardinalityType
<1>2. /\ Shaped(Page(P)) /\ Page(P).items \subseteq ever
      /\ Page(P).total \in Nat /\ Figured(Page(P).summary)
  <2>1. /\ Shaped(Page(P)) /\ Page(P).items = P /\ Page(P).total = 0
        /\ Page(P).summary = Over(Entry("returned", Cardinality(P)), EmptyTable)
    BY PageFields
  <2>2. QED
    BY <1>1, <2>1
<1>3. Page(P).truncated \in BOOLEAN
  <2>1. Blank.truncated \in BOOLEAN
    BY BlankFields
  <2>2. Page(P).truncated = Blank.truncated
    BY BlankFields DEF Page, Noted, Shaped, Fields
  <2>3. QED
    BY <2>1, <2>2, Zenon
<1>4. QED
  BY <1>2, <1>3, TypedFields

\* Finite sets of rows, and the sets of their keys.
LEMMA Selections ==
  ASSUME NEW R, IsFiniteSet(R)
  PROVE  /\ Matching(step, R) \subseteq Selected(step, R) /\ Selected(step, R) \subseteq R
         /\ Agents(step, R) \subseteq R /\ OpenTickets(step, R) \subseteq R
         /\ IsFiniteSet(Matching(step, R)) /\ IsFiniteSet(Selected(step, R))
         /\ IsFiniteSet(Agents(step, R)) /\ IsFiniteSet(OpenTickets(step, R))
<1>1. /\ Matching(step, R) \subseteq Selected(step, R) /\ Selected(step, R) \subseteq R
      /\ Agents(step, R) \subseteq R /\ OpenTickets(step, R) \subseteq R
  BY DEF Matching, Selected, Agents, OpenTickets
<1>2. QED
  BY <1>1, FS_Subset

LEMMA HostsFinite ==
  ASSUME NEW R, IsFiniteSet(R) PROVE IsFiniteSet(HostsOf(R)) /\ Cardinality(HostsOf(R)) \in Nat
<1> DEFINE f == [r \in R |-> r.host]
<1>1. f \in Surjection(R, HostsOf(R))
  BY DEF Surjection, HostsOf
<1>2. IsFiniteSet(HostsOf(R))
  BY <1>1, FS_Surjection
<1>3. QED
  BY <1>2, FS_CardinalityType

\* A part of a finite set has a count.
LEMMA PartCounted ==
  ASSUME NEW R, IsFiniteSet(R), NEW P, P \subseteq R
  PROVE  IsFiniteSet(P) /\ Cardinality(P) \in Nat /\ Cardinality(P) <= Cardinality(R)
  BY FS_Subset, FS_CardinalityType

\* What two sets do not share is in the proportion of the sets.
LEMMA Unshared ==
  ASSUME NEW S, IsFiniteSet(S), NEW M, IsFiniteSet(M), Cardinality(S) <= Cardinality(M),
         NEW W, W \subseteq S, W \subseteq M
  PROVE  Cardinality(S \ W) <= Cardinality(M \ W)
<1>1. S \cap W = W /\ M \cap W = W
  OBVIOUS
<1>2. /\ Cardinality(S \ W) = Cardinality(S) - Cardinality(W)
      /\ Cardinality(M \ W) = Cardinality(M) - Cardinality(W)
  <2>1. Cardinality(S \ W) = Cardinality(S) - Cardinality(S \cap W)
    BY FS_Difference
  <2>2. Cardinality(M \ W) = Cardinality(M) - Cardinality(M \cap W)
    BY FS_Difference
  <2>3. QED
    BY <1>1, <2>1, <2>2
<1>3. Cardinality(S) \in Nat /\ Cardinality(M) \in Nat /\ Cardinality(W) \in Nat
  BY PartCounted, FS_CardinalityType
<1>4. QED
  BY <1>2, <1>3

\* The step goes on: what is written is typed, and the source has not moved.
LEMMA TypedNext ==
  ASSUME HistoryInv, NEW e, EvidenceTyped(e), NEW next \in Phases, Continue(e, next)
  PROVE  SourceInv'
<1>1. evidence' = e /\ pc' = next /\ UNCHANGED <<work, held>>
  BY DEF Continue
<1>2. HistoryInv'
  BY <1>1 DEF HistoryInv, work, held
<1>3. EvidenceTyped(evidence)'
  BY <1>1 DEF EvidenceTyped, Shaped, Figured, held
<1>4. QED
  BY <1>1, <1>2, <1>3 DEF SourceInv

LEMMA SourceInit == Init => SourceInv
<1> SUFFICES ASSUME Init PROVE SourceInv
  OBVIOUS
<1>1. PICK s \in Scenarios : /\ site = s.site /\ calls = s.calls /\ rows = s.rows
                             /\ ever = s.rows /\ step = s.calls[1]
  BY DEF Init, ConnectorInit
<1>2. s.calls \in Seq(StepsOf(s)) /\ s.calls # <<>> /\ IsFiniteSet(s.rows)
  BY ScenariosAssumption
<1>3. step \in StepsOf(s)
  BY <1>1, <1>2 DEF StepsOf
<1>4. ever \subseteq History(s)
  BY <1>1 DEF History
<1>5. pc = "idle" /\ drift = 0
  BY DEF Init, ConnectorInit
<1>6. EvidenceTyped(evidence)
  BY BlankTyped DEF Init, ConnectorInit, Failed
<1>7. HistoryInv
  <2>1. site = s.site /\ ever \subseteq History(s) /\ step \in StepsOf(s)
        /\ calls \in Seq(StepsOf(s))
    BY <1>1, <1>2, <1>3, <1>4
  <2>2. rows \subseteq ever /\ IsFiniteSet(ever) /\ drift \in 0..MaxDrift
    BY <1>1, <1>2, <1>5, MaxDriftAssumption
  <2>3. QED
    BY <2>1, <2>2, Zenon DEF HistoryInv
<1>8. QED
  BY <1>5, <1>6, <1>7 DEF SourceInv, Phases

LEMMA SourceExecute == AnswerInv /\ SourceInv /\ Execute => SourceInv'
<1> SUFFICES ASSUME AnswerInv, SourceInv, Execute PROVE SourceInv'
  OBVIOUS
<1>1. PICK s \in Scenarios : /\ site = s.site /\ ever \subseteq History(s)
                             /\ step \in StepsOf(s) /\ calls \in Seq(StepsOf(s))
  BY DEF SourceInv, HistoryInv
<1>2. step' \in StepsOf(s) /\ calls' \in Seq(StepsOf(s))
  BY <1>1 DEF Execute
<1>3. HistoryInv'
  <2>1. rows \subseteq ever /\ IsFiniteSet(rows)
    BY DEF SourceInv, HistoryInv, AnswerInv, RowsInv
  <2>2. ever' \subseteq History(s) /\ rows' \subseteq ever'
        /\ IsFiniteSet(ever') /\ drift' = 0 /\ site' = site
    BY <1>1, <2>1 DEF Execute
  <2>3. QED
    BY <1>1, <1>2, <2>2, MaxDriftAssumption DEF HistoryInv
<1>4. EvidenceTyped(evidence)'
  <2>1. evidence' = Blank \/ \E code : evidence' = Failed(code)
    BY DEF Execute
  <2>2. evidence'.items = {} /\ EvidenceTyped(evidence')
    BY <2>1, BlankTyped, BlankFields, FailedFields
  <2>3. QED
    BY <2>2 DEF EvidenceTyped, Shaped, Figured
<1>5. pc' \in Phases
  <2>1. CASE pc' = "idle"
    BY <2>1 DEF Phases
  <2>2. CASE pc' = FirstRequest[step'.source]
    <3>1. step'.source \in Sources
      BY <1>2, StepsAssumption
    <3>2. QED
      BY <2>2, <3>1 DEF Phases, ZabbixPhases, FirstRequest, Sources
  <2>3. QED
    BY <2>1, <2>2 DEF Execute
<1>6. QED
  BY <1>3, <1>4, <1>5 DEF SourceInv

LEMMA SourceDrift == SourceInv /\ Drift => SourceInv'
<1> SUFFICES ASSUME SourceInv, Drift PROVE SourceInv'
  OBVIOUS
<1>1. PICK s \in Scenarios : /\ site = s.site /\ ever \subseteq History(s)
                             /\ step \in StepsOf(s) /\ calls \in Seq(StepsOf(s))
  BY DEF SourceInv, HistoryInv
<1>2. PICK c \in site.changes : rows' = (rows \ c.out) \cup c.in
  BY DEF Drift
<1>3. ever' = ever \cup c.in
  BY <1>2 DEF Drift, SourceInv, HistoryInv
<1>4. c.in \subseteq History(s) /\ IsFiniteSet(c.in)
  BY <1>1, <1>2, ScenariosAssumption DEF History
<1>5. ever' \subseteq History(s) /\ IsFiniteSet(ever')
  BY <1>1, <1>3, <1>4, FS_Union DEF SourceInv, HistoryInv
<1>6. rows' \subseteq ever' /\ drift' \in 0..MaxDrift /\ ever \subseteq ever'
  BY MaxDriftAssumption DEF Drift, SourceInv, HistoryInv
<1>7. HistoryInv'
  BY <1>1, <1>5, <1>6 DEF HistoryInv, Drift, work
<1>8. EvidenceTyped(evidence)'
  BY <1>6 DEF EvidenceTyped, SourceInv, Shaped, Figured, Drift
<1>9. QED
  BY <1>7, <1>8 DEF SourceInv, Drift

LEMMA SourceRest ==
  SourceInv /\ (RequestFails \/ TokenRevoked \/ Tick \/ Finished \/ UNCHANGED vars) => SourceInv'
<1> SUFFICES ASSUME SourceInv, RequestFails \/ TokenRevoked \/ Tick \/ Finished \/ UNCHANGED vars
             PROVE  SourceInv'
  OBVIOUS
<1>1. CASE RequestFails
  BY <1>1, BlankTyped, TypedNext DEF RequestFails, Answer, SourceInv, Phases
<1>2. CASE TokenRevoked \/ Tick \/ Finished \/ UNCHANGED vars
  <2>1. Continue(evidence, pc)
    BY <1>2 DEF Continue, TokenRevoked, Tick, Finished, vars, work, held
  <2>2. QED
    BY <2>1, TypedNext DEF SourceInv
<1>3. QED
  BY <1>1, <1>2

Filled(e, P, table) == [e EXCEPT !.items = P, !.summary = table]

LEMMA FilledFields ==
  ASSUME NEW e, Shaped(e), NEW P, NEW table, NEW d, d = Filled(e, P, table)
  PROVE  /\ Shaped(d) /\ d.error = e.error /\ d.items = P /\ d.total = e.total
         /\ d.truncated = e.truncated /\ d.summary = table
         /\ d.breakdown = e.breakdown /\ d.warnings = e.warnings
  BY DEF Filled, Shaped, Fields

LEMMA CountedDataFields ==
  ASSUME NEW r
  PROVE  /\ Shaped(CountedData(r)) /\ CountedData(r).error = "none"
         /\ CountedData(r).items = r.sent /\ CountedData(r).total = 0
         /\ CountedData(r).truncated = Blank.truncated
         /\ CountedData(r).summary = Entry(Figure[step.operation], Cardinality(r.sent))
         /\ CountedData(r).breakdown = EmptyTable /\ CountedData(r).warnings = {}
<1> DEFINE t == Entry(Figure[step.operation], Cardinality(r.sent))
           d == CountedData(r)
<1>1. d = [Blank EXCEPT !.items = r.sent, !.summary = t]
  BY Zenon DEF CountedData
<1> HIDE DEF t, d
<1>2. d = Filled(Blank, r.sent, t)
  BY <1>1 DEF Filled
<1>3. /\ Shaped(d) /\ d.error = "none" /\ d.items = r.sent /\ d.total = 0
      /\ d.truncated = Blank.truncated /\ d.summary = t
      /\ d.breakdown = EmptyTable /\ d.warnings = {}
  BY <1>2, BlankFields, FilledFields
<1>4. QED
  BY <1>3 DEF d, t

LEMMA AgentDataCases ==
  ASSUME NEW r, NEW e, e = summarizeAgentData(r)
  PROVE  \/ e = Blank /\ ~Listing(step.operation)
         \/ \E w : e = Warned(Blank, w) /\ (Listing(step.operation) => "no counts" \in w)
         \/ \E w : e = Warned(CountedData(r), w)
<1> DEFINE disagree == {w \in {"figures disagree"} : CrossChecked(step.operation) /\ r.surplus # 0}
           unlisted == {w \in {"no counts"} : Listing(step.operation)}
           none == {"no counts"}
<1>1. e = CASE ~r.object -> Warned(Blank, none)
            [] r.object /\ step.operation \in SingleRecord -> Blank
            [] r.object /\ step.operation \in DOMAIN Figure /\ ~r.list -> Warned(Blank, unlisted)
            [] r.object /\ step.operation \in DOMAIN Figure /\ r.list ->
                 Warned(CountedData(r), disagree)
            [] OTHER -> Warned(Blank, none)
  BY Zenon DEF summarizeAgentData
<1>2. step.operation \in SingleRecord => ~Listing(step.operation)
  BY DEF SingleRecord, Listing
<1>3. "no counts" \in none /\ (Listing(step.operation) => "no counts" \in unlisted)
  OBVIOUS
<1> HIDE DEF disagree, unlisted, none
<1>4. QED
  BY <1>1, <1>2, <1>3

LEMMA AgentDataTyped ==
  ASSUME HistoryInv, NEW r \in Replies PROVE EvidenceTyped(summarizeAgentData(r))
<1>1. EvidenceTyped(CountedData(r))
  <2>1. r.sent \subseteq ever /\ Cardinality(r.sent) \in Nat
    BY PartCounted DEF Replies, HistoryInv
  <2>2. Figured(Entry(Figure[step.operation], Cardinality(r.sent)))
    BY <2>1, EntryFigured
  <2>3. Blank.truncated \in BOOLEAN
    BY BlankFields
  <2>4. CountedData(r).truncated \in BOOLEAN
    BY <2>3, CountedDataFields, Zenon
  <2>5. /\ Shaped(CountedData(r)) /\ CountedData(r).items = r.sent /\ CountedData(r).total = 0
        /\ CountedData(r).summary = Entry(Figure[step.operation], Cardinality(r.sent))
    BY CountedDataFields
  <2>6. QED
    BY <2>1, <2>2, <2>4, <2>5, TypedFields
<1> DEFINE e == summarizeAgentData(r)
<1>2. \/ e = Blank
      \/ \E w : e = Warned(Blank, w)
      \/ \E w : e = Warned(CountedData(r), w)
  BY AgentDataCases
<1> HIDE DEF e
<1>3. EvidenceTyped(e)
  BY <1>1, <1>2, BlankTyped, WarnedTyped
<1>4. QED
  BY <1>3 DEF e

LEMMA SourceEndpoint == AnswerInv /\ SourceInv /\ EndpointReply => SourceInv'
<1> SUFFICES ASSUME AnswerInv, SourceInv, EndpointReply PROVE SourceInv'
  OBVIOUS
<1>1. PICK r \in Replies :
        /\ r.truncated = (r.sent # rows)
        /\ IF r.operation # step.operation
           THEN Answer(Failed("response_mismatch"))
           ELSE Answer([Warned(summarizeAgentData(r), {w \in {"agent truncated"} : r.truncated})
                          EXCEPT !.truncated = r.truncated])
  BY DEF EndpointReply
<1>2. CASE Answer(Failed("response_mismatch"))
  BY <1>2, BlankTyped, TypedNext DEF Answer, SourceInv, Phases
<1>3. CASE Answer([Warned(summarizeAgentData(r), {w \in {"agent truncated"} : r.truncated})
                     EXCEPT !.truncated = r.truncated])
  <2>1. EvidenceTyped(summarizeAgentData(r))
    BY AgentDataTyped DEF SourceInv
  <2> DEFINE d == Warned(summarizeAgentData(r), {w \in {"agent truncated"} : r.truncated})
  <2>2. EvidenceTyped(d)
    BY <2>1, WarnedTyped
  <2>3. r.truncated \in BOOLEAN
    BY DEF Replies
  <2>4. Answer([d EXCEPT !.truncated = r.truncated])
    BY <1>3
  <2> HIDE DEF d
  <2>5. EvidenceTyped([d EXCEPT !.truncated = r.truncated])
    BY <2>2, <2>3 DEF EvidenceTyped, Shaped, Fields
  <2>6. QED
    BY <2>4, <2>5, TypedNext DEF Answer, SourceInv, Phases
<1>4. QED
  BY <1>1, <1>2, <1>3

LEMMA SourcePegasus == AnswerInv /\ SourceInv /\ PegasusStep => SourceInv'
<1> SUFFICES ASSUME AnswerInv, SourceInv, PegasusStep PROVE SourceInv'
  OBVIOUS
<1>1. CASE PegasusBound
  BY <1>1, TypedNext DEF PegasusBound, SourceInv, Phases
<1>2. CASE PegasusScan
  <2>1. PICK P \in SUBSET rows, capped \in BOOLEAN :
          Continue([Page(P) EXCEPT !.truncated = capped], "count")
    BY <1>2 DEF PegasusScan
  <2>2. P \subseteq ever /\ IsFiniteSet(P)
    BY FS_Subset DEF SourceInv, HistoryInv
  <2> DEFINE d == Page(P)
  <2>3. EvidenceTyped(d)
    BY <2>2, PageTyped
  <2> HIDE DEF d
  <2>4. EvidenceTyped([d EXCEPT !.truncated = capped])
    BY <2>3 DEF EvidenceTyped, Shaped, Fields
  <2>5. Continue([d EXCEPT !.truncated = capped], "count")
    BY <2>1 DEF d
  <2>6. QED
    BY <2>4, <2>5, TypedNext DEF SourceInv, Phases
<1>3. CASE PegasusCount
  <2> DEFINE e == Judged(evidence, Cardinality(rows))
             short == evidence.truncated \/ e.truncated
             t == IF short THEN Entry("row_limit", RowLimit(step)) ELSE EmptyTable
             d == Noted(e, t)
  <2>1. Continue([d EXCEPT !.truncated = short], "idle")
    BY <1>3 DEF PegasusCount, Answer
  <2>2. EvidenceTyped(e)
    <3>1. Cardinality(rows) \in Nat
      BY PartCounted DEF SourceInv, HistoryInv
    <3>2. QED
      BY <3>1, JudgedTyped DEF SourceInv
  <2>3. RowLimit(step) \in Nat
    BY ScenariosAssumption, MaxRowsAssumption DEF SourceInv, HistoryInv, RowLimit
  <2>4. Figured(t)
    BY <2>3, FiguredTables
  <2> HIDE DEF t
  <2>5. EvidenceTyped(d)
    BY <2>2, <2>4, NotedTyped
  <2>6. short \in BOOLEAN
    OBVIOUS
  <2> HIDE DEF d, short
  <2>7. EvidenceTyped([d EXCEPT !.truncated = short])
    BY <2>5, <2>6 DEF EvidenceTyped, Shaped, Fields
  <2>8. QED
    BY <2>1, <2>7, TypedNext DEF SourceInv, Phases
<1>4. QED
  BY <1>1, <1>2, <1>3 DEF PegasusStep

LEMMA OwnersTyped ==
  ASSUME SourceInv, NEW e, EvidenceTyped(e), ToOwners(e) PROVE SourceInv'
  BY TypedNext DEF ToOwners, SourceInv, Phases

LEMMA SourceRT == AnswerInv /\ SourceInv /\ RTStep => SourceInv'
<1> SUFFICES ASSUME AnswerInv, SourceInv, RTStep PROVE SourceInv'
  OBVIOUS
<1>1. CASE RTSearch
  <2> DEFINE M == OpenTickets(step, rows)
             e(P) == Judged(Page(P), Cardinality(M))
  <2>1. PICK P \in Top(M, step.limit, Newest) :
          ToOwners(Warned(e(P), {"queues not counted"})) \/ Continue(e(P), "queue")
    BY <1>1 DEF RTSearch
  <2>2. M \subseteq ever /\ IsFiniteSet(M) /\ Cardinality(M) \in Nat
    BY PartCounted DEF OpenTickets, SourceInv, HistoryInv
  <2>3. P \subseteq ever /\ IsFiniteSet(P)
    BY <2>1, <2>2, FS_Subset DEF Top, kSubset
  <2>4. EvidenceTyped(e(P))
    BY <2>2, <2>3, PageTyped, JudgedTyped
  <2> HIDE DEF e
  <2>5. EvidenceTyped(Warned(e(P), {"queues not counted"}))
    BY <2>4, WarnedTyped
  <2>6. QED
    BY <2>1, <2>4, <2>5, OwnersTyped, TypedNext DEF SourceInv, Phases
<1>2. CASE RTQueue
  <2> DEFINE e == Counted(evidence, "tickets_by_queue", Head(todo),
                          Cardinality({t \in OpenTickets(step, rows) : t.queue = Head(todo)}))
  <2>1. ToOwners(e) \/ Continue(e, "queue")
    BY <1>2 DEF RTQueue
  <2>2. EvidenceTyped(e)
    BY CountedTyped DEF SourceInv
  <2> HIDE DEF e
  <2>3. QED
    BY <2>1, <2>2, OwnersTyped, TypedNext DEF SourceInv, Phases
<1>3. CASE RTOwner
  <2> DEFINE e == Counted(evidence, "tickets_by_owner", Head(todo),
                          Cardinality({t \in OpenTickets(step, rows) : t.owner = Head(todo)}))
             f == Warned(e, OwnerWarnings(e))
  <2>1. Continue(f, "idle") \/ Continue(e, "owner")
    BY <1>3 DEF RTOwner, Answer
  <2>2. EvidenceTyped(e)
    BY CountedTyped DEF SourceInv
  <2> HIDE DEF e
  <2>3. EvidenceTyped(f)
    BY <2>2, WarnedTyped
  <2> HIDE DEF f
  <2>4. QED
    BY <2>1, <2>2, <2>3, TypedNext DEF SourceInv, Phases
<1>4. QED
  BY <1>1, <1>2, <1>3 DEF RTStep

\* The evidence of a fleet.
FleetEvidence(P, items, n) ==
  [Noted(Blank, summarizeAgents(P)) EXCEPT
     !.items = items, !.total = n, !.truncated = n > Cardinality(items)]

Listed(e, items, n, mark) == [e EXCEPT !.items = items, !.total = n, !.truncated = mark]

LEMMA ListedFields ==
  ASSUME NEW e, Shaped(e), NEW items, NEW n, NEW mark, NEW d, d = Listed(e, items, n, mark)
  PROVE  /\ Shaped(d) /\ d.error = e.error /\ d.items = items /\ d.total = n
         /\ d.truncated = mark /\ d.summary = e.summary
         /\ d.breakdown = e.breakdown /\ d.warnings = e.warnings
  BY DEF Listed, Shaped, Fields

LEMMA FleetFields ==
  ASSUME NEW P, NEW items, NEW n, NEW d, d = FleetEvidence(P, items, n)
  PROVE  /\ Shaped(d) /\ d.error = "none" /\ d.items = items /\ d.total = n
         /\ d.truncated = (n > Cardinality(items)) /\ d.truncated \in BOOLEAN
         /\ d.summary = Over(summarizeAgents(P), EmptyTable)
         /\ d.breakdown = EmptyTable /\ d.warnings = {}
<1> DEFINE mark == n > Cardinality(items)
           b == Noted(Blank, summarizeAgents(P))
<1>1. /\ Shaped(b) /\ b.error = "none" /\ b.breakdown = EmptyTable /\ b.warnings = {}
      /\ b.summary = Over(summarizeAgents(P), EmptyTable)
  BY BlankFields, NotedFields
<1>2. d = Listed(b, items, n, mark)
  BY Zenon DEF FleetEvidence, Listed
<1>3. mark \in BOOLEAN
  OBVIOUS
<1> HIDE DEF mark, b
<1>4. /\ Shaped(d) /\ d.error = "none" /\ d.items = items /\ d.total = n
      /\ d.truncated = mark /\ d.truncated \in BOOLEAN
      /\ d.summary = Over(summarizeAgents(P), EmptyTable)
      /\ d.breakdown = EmptyTable /\ d.warnings = {}
  <2>1. /\ Shaped(d) /\ d.error = b.error /\ d.items = items /\ d.total = n
        /\ d.truncated = mark /\ d.summary = b.summary
        /\ d.breakdown = b.breakdown /\ d.warnings = b.warnings
    BY <1>1, <1>2, ListedFields
  <2>2. QED
    BY <1>1, <1>3, <2>1
<1>5. QED
  BY <1>4 DEF mark

LEMMA AgentsFigured == ASSUME NEW P, IsFiniteSet(P) PROVE Figured(summarizeAgents(P))
<1> DEFINE A == {a \in P : a.id # managerAgentID}
           C == {a \in A : a.critical}
           down == {a \in C : StateOf(a) # "active"}
           keys == {CriticalKey[StateOf(a)] : a \in down} \cup {"critical_disconnected"}
           byState == CountBy(A, {StateOf(a) : a \in A}, StateOf)
           byKey == CountBy(down, keys, LAMBDA a : CriticalKey[StateOf(a)])
<1>1. IsFiniteSet(A) /\ Cardinality(A) \in Nat
  BY PartCounted
<1>2. Cardinality(C) \in Nat /\ IsFiniteSet(down)
  <2>1. C \subseteq A /\ down \subseteq A
    OBVIOUS
  <2>2. QED
    BY <1>1, <2>1, PartCounted
<1>3. Figured(byState)
  <2>1. \A k : Cardinality({a \in A : StateOf(a) = k}) \in Nat
    BY <1>1, PartCounted
  <2> HIDE DEF A
  <2>2. QED
    BY <2>1 DEF Figured, CountBy
<1>4. Figured(byKey)
  <2>1. \A k : Cardinality({a \in down : CriticalKey[StateOf(a)] = k}) \in Nat
    BY <1>2, PartCounted
  <2> HIDE DEF down, keys
  <2>2. QED
    BY <2>1 DEF Figured, CountBy
<1>5. Figured(Over(Entry("total", Cardinality(A)), byState))
  BY <1>1, <1>3, FiguredTables
<1>6. Figured(Over(Entry("critical_total", Cardinality(C)), byKey))
  BY <1>2, <1>4, FiguredTables
<1>7. CriticalCounts(C) = Over(Entry("critical_total", Cardinality(C)), byKey)
  BY Zenon DEF CriticalCounts
<1>8. summarizeAgents(P) = IF site.groups
                           THEN Over(CriticalCounts(C),
                           Over(Entry("total", Cardinality(A)), byState))
                           ELSE Over(Entry("total", Cardinality(A)), byState)
  BY Zenon DEF summarizeAgents
<1> HIDE DEF A, C, byState, byKey
<1>9. QED
  BY <1>5, <1>6, <1>7, <1>8, FiguredTables

LEMMA FleetTyped ==
  ASSUME NEW P, IsFiniteSet(P), NEW items, items \subseteq ever, NEW n \in Nat
  PROVE  EvidenceTyped(FleetEvidence(P, items, n))
<1> DEFINE d == FleetEvidence(P, items, n)
<1>1. d = FleetEvidence(P, items, n)
  OBVIOUS
<1>2. Figured(Over(summarizeAgents(P), EmptyTable))
  BY AgentsFigured, FiguredTables
<1> HIDE DEF d
<1>3. /\ Shaped(d) /\ d.items = items /\ d.total = n /\ d.truncated \in BOOLEAN
      /\ d.summary = Over(summarizeAgents(P), EmptyTable)
  BY <1>1, FleetFields
<1>4. EvidenceTyped(d)
  BY <1>2, <1>3, TypedFields
<1>5. QED
  BY <1>1, <1>4

LEMMA SourceWazuh == AnswerInv /\ SourceInv /\ WazuhStep => SourceInv'
<1> SUFFICES ASSUME AnswerInv, SourceInv, WazuhStep PROVE SourceInv'
  OBVIOUS
<1>1. CASE WazuhUseToken \/ WazuhMustLogIn \/ WazuhLogIn
  BY <1>1, TypedNext DEF WazuhUseToken, WazuhMustLogIn, WazuhLogIn, SourceInv, Phases
<1>2. CASE WazuhRejected
  BY <1>2, BlankTyped, TypedNext DEF WazuhRejected, Answer, SourceInv, Phases
<1>3. CASE WazuhAgents
  <2> DEFINE M == Agents(step, rows)
             Before(a, b) == a.id < b.id
             w == {x \in {"critical groups not evaluated"} : ~site.groups}
  <2>0. PICK P \in Top(M, WazuhMaxLimit, Before) : \E items \in FleetItems(step, P) :
          Continue(Warned(FleetEvidence(P, items, Cardinality(M)), w), "idle")
    BY <1>3, Zenon DEF WazuhAgents, Answer, FleetEvidence
  <2>1. PICK items \in FleetItems(step, P) :
          Continue(Warned(FleetEvidence(P, items, Cardinality(M)), w), "idle")
    BY <2>0
  <2>2. M \subseteq ever /\ IsFiniteSet(M) /\ Cardinality(M) \in Nat
    BY PartCounted DEF Agents, SourceInv, HistoryInv
  <2>3. P \subseteq M /\ items \subseteq P /\ IsFiniteSet(P)
    BY <2>0, <2>1, <2>2, FS_Subset DEF Top, FleetItems, kSubset
  <2>4. EvidenceTyped(FleetEvidence(P, items, Cardinality(M)))
    BY <2>2, <2>3, FleetTyped
  <2> HIDE DEF w
  <2>5. QED
    BY <2>1, <2>4, WarnedTyped, TypedNext DEF SourceInv, Phases
<1>4. QED
  BY <1>1, <1>2, <1>3 DEF WazuhStep

-----------------------------------------------------------------------------
(* The steps of the Zabbix connector, in the shape the proofs use.          *)

Summed(e, n) == [e EXCEPT !.total = @ + n]

LEMMA SummedFields ==
  ASSUME NEW e, Shaped(e), NEW n, NEW d, d = Summed(e, n)
  PROVE  /\ Shaped(d) /\ d.error = e.error /\ d.items = e.items /\ d.total = e.total + n
         /\ d.truncated = e.truncated /\ d.summary = e.summary
         /\ d.breakdown = e.breakdown /\ d.warnings = e.warnings
  BY DEF Summed, Shaped, Fields

BrokenDown(e, table) == [e EXCEPT !.breakdown = table]

LEMMA BrokenDownFields ==
  ASSUME NEW e, Shaped(e), NEW table, NEW d, d = BrokenDown(e, table)
  PROVE  /\ Shaped(d) /\ d.error = e.error /\ d.items = e.items /\ d.total = e.total
         /\ d.truncated = e.truncated /\ d.summary = e.summary
         /\ d.breakdown = table /\ d.warnings = e.warnings
  BY DEF BrokenDown, Shaped, Fields

Severities(R) == CountBy(R, {Severity(r) : r \in R}, Severity)

AtLevel(R, k) == {r \in Matching(step, R) : r.level = k}

LevelCounted(k) ==
  Summed(Noted(evidence, Entry(zabbixPriority[k + 1], Cardinality(AtLevel(rows, k)))),
         Cardinality(AtLevel(rows, k)))

LEMMA PageAction ==
  ZabbixPage => /\ pc = "page" /\ UNCHANGED <<todo, token>>
                /\ \E P \in SUBSET Matching(step, rows) : Continue(Page(P), "census")
  BY DEF ZabbixPage, Top, kSubset

LEMMA CensusAction ==
  ZabbixCensus =>
    /\ pc = "census" /\ UNCHANGED <<todo, token>>
    /\ CensusDone(Noted(evidence, Severities(Matching(step, rows))),
                  Cardinality(Matching(step, rows)))
  BY Zenon DEF ZabbixCensus, Severities

LEMMA LevelAction ==
  ZabbixLevel =>
    /\ pc = "level" /\ todo' = Tail(todo) /\ UNCHANGED token
    /\ IF Len(todo) = 1 THEN CensusDone(LevelCounted(Head(todo)), LevelCounted(Head(todo)).total)
       ELSE Continue(LevelCounted(Head(todo)), "level")
  BY Zenon DEF ZabbixLevel, LevelCounted, AtLevel, Summed

BreakdownOf(R, named) ==
  Warned(BrokenDown(Noted(evidence, Entry("hosts_affected", Cardinality(HostsOf(R)))),
                    Entry("events_by_host", [h \in named |-> Cardinality({r \in R : r.host = h})])),
         HostWarnings(HostsOf(R), Cardinality(R), evidence.total))

LEMMA BreakdownAction ==
  ASSUME ZabbixBreakdown, Shaped(evidence), BreakdownHosts \in Nat
  PROVE  /\ pc = "breakdown" /\ UNCHANGED <<todo, token>>
         /\ \E R \in kSubset(Min({HostCensusCap, Cardinality(Matching(step, rows))}),
                            Matching(step, rows)) :
            \E named \in kSubset(Min({BreakdownHosts, Cardinality(HostsOf(R))}), HostsOf(R)) :
              Continue(BreakdownOf(R, named), AfterBreakdown)
<1>1. PICK R \in Top(Matching(step, rows), HostCensusCap, Later) :
        \E named \in topHosts(CountBy(R, HostsOf(R), HostOf)) :
          Continue(Warned(BrokenDown(
                            Noted(evidence, Entry("hosts_affected", Cardinality(HostsOf(R)))),
                            Entry("events_by_host",
                                  [h \in named |-> CountBy(R, HostsOf(R), HostOf)[h]])),
                          HostWarnings(HostsOf(R), Cardinality(R),
                            Noted(evidence,
                                  Entry("hosts_affected", Cardinality(HostsOf(R)))).total)),
                   AfterBreakdown)
  BY Zenon DEF ZabbixBreakdown, BrokenDown
<1> DEFINE counts == CountBy(R, HostsOf(R), HostOf)
<1>2. DOMAIN counts = HostsOf(R)
      /\ \A h \in HostsOf(R) : counts[h] = Cardinality({r \in R : r.host = h})
  BY DEF CountBy, HostOf
<1>3. R \in kSubset(Min({HostCensusCap, Cardinality(Matching(step, rows))}), Matching(step, rows))
  BY <1>1 DEF Top
<1> DEFINE e == Noted(evidence, Entry("hosts_affected", Cardinality(HostsOf(R))))
<1>4. e.total = evidence.total
  BY NotedFields
<1> HIDE DEF counts, e
<1>5. PICK named \in topHosts(counts) :
        Continue(Warned(BrokenDown(e, Entry("events_by_host", [h \in named |-> counts[h]])),
                        HostWarnings(HostsOf(R), Cardinality(R), e.total)), AfterBreakdown)
  BY <1>1 DEF counts, e
<1>6. named \in kSubset(Min({BreakdownHosts, Cardinality(HostsOf(R))}), HostsOf(R))
  BY <1>2, <1>5 DEF topHosts, Top
<1>7. [h \in named |-> counts[h]] = [h \in named |-> Cardinality({r \in R : r.host = h})]
  BY <1>2, <1>6 DEF kSubset
<1>8. Continue(BreakdownOf(R, named), AfterBreakdown)
  BY <1>4, <1>5, <1>7, Zenon DEF BreakdownOf, e
<1>9. QED
  BY <1>3, <1>6, <1>8 DEF ZabbixBreakdown

\* The figures of a finite set of rows, by severity.
LEMMA SeveritiesTable ==
  ASSUME NEW R, IsFiniteSet(R)
  PROVE  /\ Figured(Severities(R))
         /\ DOMAIN Severities(R) = {Severity(r) : r \in R}
         /\ \A l \in DOMAIN Severities(R) :
              Severities(R)[l] = Cardinality({r \in R : Severity(r) = l})
<1>1. \A l : Cardinality({r \in R : Severity(r) = l}) \in Nat
  BY PartCounted
<1> DEFINE levels == {Severity(r) : r \in R}
           t == Severities(R)
<1>2. t = [l \in levels |-> Cardinality({r \in R : Severity(r) = l})]
  BY Zenon DEF Severities, CountBy
<1>3. /\ DOMAIN t = levels
      /\ \A l \in levels : t[l] = Cardinality({r \in R : Severity(r) = l})
  BY <1>2, Zenon
<1> HIDE DEF levels, t
<1>4. Figured(t) /\ DOMAIN t = levels
      /\ \A l \in DOMAIN t : t[l] = Cardinality({r \in R : Severity(r) = l})
  BY <1>1, <1>3 DEF Figured
<1>5. QED
  BY <1>4 DEF t, levels

LEMMA SettledTyped ==
  ASSUME HistoryInv, NEW e, EvidenceTyped(e) PROVE EvidenceTyped(Settled(e))
<1>1. IsFiniteSet(e.items)
  BY FS_Subset DEF HistoryInv, EvidenceTyped
<1>2. Figured(Entry("hosts_affected", Cardinality(HostsOf(e.items))))
  BY <1>1, HostsFinite, EntryFigured
<1>3. QED
  BY <1>2, NotedTyped DEF Settled

LEMMA NextPhases ==
  /\ AfterBreakdown \in {"compare", "idle"}
  /\ \A e : AfterHost(e) \in {"breakdown", "compare", "idle"}
  /\ \A e : AfterCensus(e) \in {"host", "breakdown", "compare", "idle"}
<1>1. AfterBreakdown \in {"compare", "idle"}
  BY DEF AfterBreakdown
<1>2. \A e : AfterHost(e) \in {"breakdown", "compare", "idle"}
  BY <1>1 DEF AfterHost
<1>3. QED
  BY <1>1, <1>2 DEF AfterCensus

LEMMA CensusTyped ==
  ASSUME SourceInv, NEW e, EvidenceTyped(e), NEW n \in Nat, CensusDone(e, n)
  PROVE  SourceInv'
<1> DEFINE f == Settled(Judged(e, n))
<1>1. Continue(f, AfterCensus(f))
  BY DEF CensusDone
<1>2. EvidenceTyped(f)
  BY JudgedTyped, SettledTyped DEF SourceInv
<1> HIDE DEF f
<1>3. AfterCensus(f) \in Phases
  BY NextPhases DEF Phases, ZabbixPhases
<1>4. QED
  BY <1>1, <1>2, <1>3, TypedNext DEF SourceInv

LEMMA SourceZabbix == AnswerInv /\ SourceInv /\ ZabbixStep => SourceInv'
<1> SUFFICES ASSUME AnswerInv, SourceInv, ZabbixStep PROVE SourceInv'
  OBVIOUS
<1> DEFINE M == Matching(step, rows)
<1>1. M \subseteq ever /\ IsFiniteSet(M) /\ Cardinality(M) \in Nat
  BY PartCounted DEF Matching, Selected, SourceInv, HistoryInv
<1>2. EvidenceTyped(evidence) /\ Shaped(evidence)
  BY DEF SourceInv, EvidenceTyped
<1>3. CASE ZabbixPage
  <2>1. PICK P \in SUBSET M : Continue(Page(P), "census")
    BY <1>3, PageAction
  <2>2. P \subseteq ever /\ IsFiniteSet(P)
    BY <1>1, FS_Subset
  <2>3. QED
    BY <2>1, <2>2, PageTyped, TypedNext DEF SourceInv, Phases, ZabbixPhases
<1>4. CASE ZabbixCensus
  <2>1. CensusDone(Noted(evidence, Severities(M)), Cardinality(M))
    BY <1>4, CensusAction
  <2>2. EvidenceTyped(Noted(evidence, Severities(M)))
    BY <1>1, <1>2, SeveritiesTable, NotedTyped
  <2>3. QED
    BY <1>1, <2>1, <2>2, CensusTyped
<1>5. CASE ZabbixCensusOverflows
  BY <1>2, <1>5, TypedNext DEF ZabbixCensusOverflows, SourceInv, Phases, ZabbixPhases
<1>6. CASE ZabbixLevel
  <2> DEFINE k == Head(todo)
             n == Cardinality(AtLevel(rows, k))
             d == Noted(evidence, Entry(zabbixPriority[k + 1], n))
             e == LevelCounted(k)
  <2>1. n \in Nat
    BY PartCounted DEF AtLevel, Matching, Selected, SourceInv, HistoryInv
  <2>2. e = Summed(d, n)
    BY DEF LevelCounted
  <2> HIDE DEF n
  <2>3. EvidenceTyped(d)
    BY <1>2, <2>1, EntryFigured, NotedTyped
  <2> HIDE DEF d, e
  <2>4. EvidenceTyped(e)
    BY <2>1, <2>2, <2>3, SummedFields DEF EvidenceTyped
  <2>5. e.total \in Nat
    BY <2>4 DEF EvidenceTyped
  <2>6. CensusDone(e, e.total) \/ Continue(e, "level")
    BY <1>6, LevelAction DEF e
  <2>7. QED
    BY <2>4, <2>5, <2>6, CensusTyped, TypedNext DEF SourceInv, Phases, ZabbixPhases
<1>7. CASE ZabbixHostExists
  <2>1. PICK result \in {{step.host} \cap site.hosts, {}} :
          Continue(Noted(evidence, Entry("host_known", Cardinality(result))),
                   AfterHost(Noted(evidence, Entry("host_known", Cardinality(result)))))
    BY <1>7, Zenon DEF ZabbixHostExists
  <2>2. Cardinality(result) \in Nat
    <3>1. result \subseteq {step.host}
      OBVIOUS
    <3>2. QED
      BY <3>1, FS_Singleton, PartCounted
  <2> DEFINE e == Noted(evidence, Entry("host_known", Cardinality(result)))
  <2>3. EvidenceTyped(e)
    BY <1>2, <2>2, EntryFigured, NotedTyped
  <2> HIDE DEF e
  <2>4. Continue(e, AfterHost(e)) /\ AfterHost(e) \in Phases
    BY <2>1, NextPhases DEF e, Phases, ZabbixPhases
  <2>5. QED
    BY <2>3, <2>4, TypedNext DEF SourceInv
<1>8. CASE ZabbixBreakdown
  <2>0. PICK R \in SUBSET M : \E names : Continue(BreakdownOf(R, names), AfterBreakdown)
    BY <1>2, <1>8, BreakdownAction, CensusAssumption DEF kSubset
  <2>1. PICK named : Continue(BreakdownOf(R, named), AfterBreakdown)
    BY <2>0
  <2>2. Cardinality(HostsOf(R)) \in Nat
    BY <1>1, FS_Subset, HostsFinite
  <2> DEFINE d == Noted(evidence, Entry("hosts_affected", Cardinality(HostsOf(R))))
             t == Entry("events_by_host", [h \in named |-> Cardinality({r \in R : r.host = h})])
             e == BrokenDown(d, t)
  <2>3. EvidenceTyped(d)
    BY <1>2, <2>2, EntryFigured, NotedTyped
  <2> HIDE DEF d, t
  <2>4. e = BrokenDown(d, t)
    OBVIOUS
  <2> HIDE DEF e
  <2>5. EvidenceTyped(e)
    BY <2>3, <2>4, BrokenDownFields DEF EvidenceTyped
  <2>6. EvidenceTyped(BreakdownOf(R, named))
    BY <2>5, WarnedTyped DEF BreakdownOf, e, d, t
  <2>7. AfterBreakdown \in Phases
    BY NextPhases DEF Phases, ZabbixPhases
  <2>8. QED
    BY <2>1, <2>6, <2>7, TypedNext DEF SourceInv
<1>9. CASE ZabbixCompare
  <2> DEFINE n == Cardinality(Selected(step, rows))
             e == Noted(evidence, Entry("total_ignoring_time_bound", n))
             w == {x \in {"the window excludes problems"} : n > evidence.total}
  <2>1. Continue(Warned(e, w), "idle")
    BY <1>9, Zenon DEF ZabbixCompare, Answer
  <2>2. n \in Nat
    BY PartCounted DEF Selected, SourceInv, HistoryInv
  <2>3. EvidenceTyped(e)
    BY <1>2, <2>2, EntryFigured, NotedTyped
  <2> HIDE DEF e, w
  <2>4. QED
    BY <2>1, <2>3, WarnedTyped, TypedNext DEF SourceInv, Phases
<1>10. QED
  BY <1>3, <1>4, <1>5, <1>6, <1>7, <1>8, <1>9 DEF ZabbixStep

LEMMA TypedInit == Init => TypedInv
  BY AnswerInit, TokenInit, SourceInit DEF TypedInv

LEMMA TypedStep == TypedInv /\ [Next]_vars => TypedInv'
<1> SUFFICES ASSUME TypedInv, [Next]_vars PROVE TypedInv'
  OBVIOUS
<1>1. AnswerInv' /\ TokenInv'
  BY AnswerStep, TokenStep DEF TypedInv
<1>2. SourceInv'
  BY SourceExecute, SourceZabbix, SourceWazuh, SourceRT, SourcePegasus, SourceEndpoint,
     SourceDrift, SourceRest DEF TypedInv, Next, Working
<1>3. QED
  BY <1>1, <1>2 DEF TypedInv

\* The evidence of every connector is of its type, of rows its source held
\* while the step was made, for every scenario and cap.
THEOREM EvidenceIsTyped == Spec => []TypeOK
<1>1. TypedInv => TypeOK
  <2> SUFFICES ASSUME TypedInv PROVE TypeOK
    OBVIOUS
  <2>1. step.source \in Sources
    BY StepsAssumption DEF TypedInv, SourceInv, HistoryInv
  <2>2. pc \in {"idle", "page", "census", "level", "host", "breakdown", "compare", "token",
                "login", "agents", "search", "queue", "owner", "bound", "scan", "count", "reply"}
    BY DEF TypedInv, SourceInv, Phases, ZabbixPhases
  <2>3. /\ evidence.items \subseteq ever /\ evidence.total \in Nat /\ evidence.truncated \in BOOLEAN
        /\ \A k \in DOMAIN evidence.summary : evidence.summary[k] \in Nat
    BY DEF TypedInv, SourceInv, EvidenceTyped, Figured
  <2>4. token.valid \in BOOLEAN /\ token.age \in 0..TokenTTL /\ token.issued \in 0..TokenTTL
    BY DEF TypedInv, TokenInv
  <2>5. drift \in 0..MaxDrift /\ always \subseteq ever /\ rows \subseteq ever
    BY DEF TypedInv, SourceInv, HistoryInv, AnswerInv, RowsInv
  <2>6. QED
    BY <2>1, <2>2, <2>3, <2>4, <2>5 DEF TypeOK
<1>2. QED
  BY <1>1, TypedInit, TypedStep, PTL DEF Spec

-----------------------------------------------------------------------------
(* Who answers: the connector of the step's source, and nobody else.        *)

LEMMA Workers ==
  ASSUME TypedInv
  PROVE  /\ ZabbixStep => step.source = "zabbix-api"
         /\ WazuhStep => step.source = "wazuh-api"
         /\ RTStep => step.source = "rt-api"
         /\ PegasusStep => step.source = "pegasus-db"
         /\ EndpointReply => step.source = "sroiaaa-agent"
         /\ Working => UNCHANGED <<work, held>>
<1>1. ZabbixStep => step.source = "zabbix-api"
  BY DEF TypedInv, AnswerInv, PhaseInv, ZabbixPhases, ZabbixStep, ZabbixPage, ZabbixCensus,
         ZabbixCensusOverflows, ZabbixLevel, ZabbixHostExists, ZabbixBreakdown, ZabbixCompare
<1>2. WazuhStep => step.source = "wazuh-api"
  BY DEF TypedInv, AnswerInv, PhaseInv, WazuhStep, WazuhUseToken, WazuhMustLogIn, WazuhLogIn,
         WazuhRejected, WazuhAgents
<1>3. RTStep => step.source = "rt-api"
  BY DEF TypedInv, AnswerInv, PhaseInv, RTStep, RTSearch, RTQueue, RTOwner
<1>4. PegasusStep => step.source = "pegasus-db"
  BY DEF TypedInv, AnswerInv, PhaseInv, PegasusStep, PegasusBound, PegasusScan, PegasusCount
<1>5. EndpointReply => step.source = "sroiaaa-agent"
  BY DEF TypedInv, AnswerInv, PhaseInv, EndpointReply
<1>6. ZabbixStep => UNCHANGED <<work, held>>
  BY DEF ZabbixStep, ZabbixPage, ZabbixCensus, ZabbixCensusOverflows, ZabbixLevel,
         ZabbixHostExists, ZabbixBreakdown, ZabbixCompare, CensusDone, Answer, Continue
<1>7. WazuhStep => UNCHANGED <<work, held>>
  BY DEF WazuhStep, WazuhUseToken, WazuhMustLogIn, WazuhLogIn, WazuhRejected, WazuhAgents,
         Answer, Continue
<1>8. RTStep => UNCHANGED <<work, held>>
  BY DEF RTStep, RTSearch, RTQueue, RTOwner, ToOwners, Answer, Continue
<1>9. PegasusStep \/ EndpointReply => UNCHANGED <<work, held>>
  BY DEF PegasusStep, PegasusBound, PegasusScan, PegasusCount, EndpointReply, Answer, Continue
<1>10. QED
  BY <1>1, <1>2, <1>3, <1>4, <1>5, <1>6, <1>7, <1>8, <1>9 DEF Working

\* Evidence that a step of the session finds at rest was at rest before, unless
\* a connector has just answered.
LEMMA AtRest ==
  ASSUME TypedInv, [Next]_vars, ~Working, pc' = "idle", evidence'.error = "none"
  PROVE  pc = "idle" /\ UNCHANGED <<site, step, evidence, held>>
<1>1. CASE Execute
  <2>1. CASE Refusal(Head(calls)) = "none"
    <3>1. pc' = FirstRequest[step'.source]
      BY <1>1, <2>1 DEF Execute
    <3>2. step'.source \in Sources
      <4>1. step' = Head(calls) /\ calls # <<>>
        BY <1>1 DEF Execute
      <4>2. QED
        BY <4>1, StepsAssumption DEF TypedInv, SourceInv, HistoryInv
    <3>3. pc' # "idle"
      BY <3>1, <3>2 DEF FirstRequest, Sources
    <3>4. QED
      BY <3>3
  <2>2. CASE Refusal(Head(calls)) # "none"
    <3>1. evidence' = Failed(Refusal(Head(calls)))
      BY <1>1, <2>2 DEF Execute
    <3>2. evidence'.error = Refusal(Head(calls))
      BY <3>1, FailedFields
    <3>3. QED
      BY <2>2, <3>2
  <2>3. QED
    BY <2>1, <2>2
<1>2. CASE RequestFails
  <2>1. evidence' = Failed("request")
    BY <1>2 DEF RequestFails, Answer, Continue
  <2>2. evidence'.error = "request"
    BY <2>1, FailedFields
  <2>3. QED
    BY <2>2
<1>3. CASE Drift
  BY <1>3 DEF Drift
<1>4. CASE TokenRevoked \/ Tick \/ Finished \/ UNCHANGED vars
  BY <1>4 DEF TokenRevoked, Tick, Finished, vars, work, held
<1>5. QED
  BY <1>1, <1>2, <1>3, <1>4 DEF Next

-----------------------------------------------------------------------------
(* The endpoint agents' connector.                                          *)

Replied(r) == [Warned(summarizeAgentData(r), {w \in {"agent truncated"} : r.truncated})
                 EXCEPT !.truncated = r.truncated]

LEMMA ReplyAction ==
  ASSUME EndpointReply
  PROVE  \E r \in Replies :
           /\ r.truncated = (r.sent # rows)
           /\ Answer(Failed("response_mismatch")) \/ Answer(Replied(r))
  BY Zenon DEF EndpointReply, Replied

LEMMA RepliedFields ==
  ASSUME NEW r, Shaped(summarizeAgentData(r)), NEW d, d = Replied(r)
  PROVE  LET e == summarizeAgentData(r)
         IN  /\ d.items = e.items /\ d.summary = e.summary
             /\ e.warnings \subseteq d.warnings
             /\ r.truncated => "agent truncated" \in d.warnings
<1> DEFINE e == summarizeAgentData(r)
           w == {x \in {"agent truncated"} : r.truncated}
           f == Warned(e, w)
           mark == r.truncated
<1>1. /\ Shaped(f) /\ f.items = e.items /\ f.summary = e.summary /\ f.warnings = e.warnings \cup w
  BY WarnedFields
<1>2. d = [f EXCEPT !.truncated = mark]
  BY Zenon DEF Replied
<1>3. r.truncated => "agent truncated" \in w
  OBVIOUS
<1> HIDE DEF e, f, w, mark
<1>4. d.items = f.items /\ d.summary = f.summary /\ d.warnings = f.warnings
  BY <1>1, <1>2 DEF Shaped, Fields
<1>5. d.items = e.items /\ d.summary = e.summary /\ e.warnings \subseteq d.warnings
      /\ (r.truncated => "agent truncated" \in d.warnings)
  BY <1>1, <1>3, <1>4
<1>6. QED
  BY <1>5 DEF e

LEMMA ListingStep ==
  TypedInv /\ ListingIsCountedOrWarned /\ [Next]_vars => ListingIsCountedOrWarned'
<1> SUFFICES ASSUME TypedInv, ListingIsCountedOrWarned, [Next]_vars,
                    pc' = "idle", evidence'.error = "none", step'.source = "sroiaaa-agent",
                    Listing(step'.operation)
             PROVE  \/ "no counts" \in evidence'.warnings
                    \/ /\ evidence'.summary[Figure[step'.operation]] = Cardinality(evidence'.items)
                       /\ always' \subseteq evidence'.items
                          \/ "agent truncated" \in evidence'.warnings
  BY Zenon DEF ListingIsCountedOrWarned, Answered
<1>1. CASE ~Working
  <2>1. pc = "idle" /\ UNCHANGED <<site, step, evidence, held>>
    BY <1>1, AtRest
  <2>2. QED
    BY <2>1 DEF ListingIsCountedOrWarned, Answered, held
<1>2. CASE Working
  <2>1. UNCHANGED <<work, held>>
    BY <1>2, Workers
  <2>2. EndpointReply
    BY <1>2, <2>1, Workers DEF Working, work
  <2>3. PICK r \in Replies : /\ r.truncated = (r.sent # rows)
                             /\ Answer(Failed("response_mismatch")) \/ Answer(Replied(r))
    BY <2>2, ReplyAction
  <2>4. evidence' = Replied(r)
    <3>1. Failed("response_mismatch").error # "none"
      BY FailedFields
    <3>2. QED
      BY <2>3, <3>1 DEF Answer, Continue
  <2> DEFINE e == summarizeAgentData(r)
  <2>5. EvidenceTyped(e)
    BY AgentDataTyped DEF TypedInv, SourceInv
  <2>6. /\ evidence'.items = e.items /\ evidence'.summary = e.summary
        /\ e.warnings \subseteq evidence'.warnings
        /\ r.truncated => "agent truncated" \in evidence'.warnings
    BY <2>4, <2>5, RepliedFields DEF EvidenceTyped
  <2>7. \/ \E w : e = Warned(Blank, w) /\ (Listing(step.operation) => "no counts" \in w)
        \/ \E w : e = Warned(CountedData(r), w)
    <3>1. Listing(step.operation)
      BY <2>1 DEF work
    <3>2. e = summarizeAgentData(r)
      OBVIOUS
    <3> HIDE DEF e
    <3>3. QED
      BY <3>1, <3>2, AgentDataCases
  <2> HIDE DEF e
  <2>8. CASE \E w : e = Warned(Blank, w) /\ (Listing(step.operation) => "no counts" \in w)
    <3>1. PICK w : e = Warned(Blank, w) /\ (Listing(step.operation) => "no counts" \in w)
      BY <2>8
    <3>2. e.warnings = Blank.warnings \cup w
      BY <3>1, BlankFields, WarnedFields
    <3>3. "no counts" \in w
      BY <2>1, <3>1 DEF work
    <3>4. QED
      BY <2>6, <3>2, <3>3
  <2>9. CASE \E w : e = Warned(CountedData(r), w)
    <3>1. /\ Shaped(CountedData(r)) /\ CountedData(r).items = r.sent
          /\ CountedData(r).summary = Entry(Figure[step.operation], Cardinality(r.sent))
      BY CountedDataFields
    <3>2. e.items = r.sent /\ e.summary = Entry(Figure[step.operation], Cardinality(r.sent))
      BY <2>9, <3>1, WarnedFields
    <3>3. evidence'.summary[Figure[step.operation]] = Cardinality(evidence'.items)
      <4> DEFINE key == Figure[step.operation]
                 n == Cardinality(r.sent)
      <4>1. Entry(key, n)[key] = n
        BY EntryTable
      <4>2. evidence'.summary = Entry(key, n) /\ evidence'.items = r.sent
        BY <2>6, <3>2
      <4>3. QED
        BY <4>1, <4>2, Zenon
    <3>4. always' \subseteq rows
      BY <2>1 DEF TypedInv, AnswerInv, RowsInv, held
    <3>5. always' \subseteq evidence'.items \/ "agent truncated" \in evidence'.warnings
      BY <2>3, <2>6, <3>2, <3>4
    <3>6. QED
      BY <2>1, <3>3, <3>5 DEF work
  <2>10. QED
    BY <2>7, <2>8, <2>9
<1>3. QED
  BY <1>1, <1>2

\* A session has no evidence before its first step.
LEMMA NothingAsked == Init => evidence.error # "none"
<1> SUFFICES ASSUME Init PROVE evidence.error # "none"
  OBVIOUS
<1>1. evidence = Failed("not asked")
  BY DEF Init, ConnectorInit, Failed
<1>2. Failed("not asked").error = "not asked"
  BY FailedFields
<1>3. QED
  BY <1>1, <1>2

\* Whatever an endpoint's agent replies, a listing is handed on with the count
\* of its rows or with a warning (summarizeAgentData, sroiaaa.go:286).
THEOREM ListingsCounted == Spec => []ListingIsCountedOrWarned
<1>1. Init => TypedInv /\ ListingIsCountedOrWarned
  BY TypedInit, NothingAsked DEF ListingIsCountedOrWarned, Answered
<1>2. (TypedInv /\ ListingIsCountedOrWarned) /\ [Next]_vars
        => (TypedInv /\ ListingIsCountedOrWarned)'
  BY TypedStep, ListingStep
<1>3. QED
  BY <1>1, <1>2, PTL DEF Spec

-----------------------------------------------------------------------------
(* The Wazuh connector.                                                     *)

LEMMA Smaller ==
  ASSUME NEW a \in Nat, NEW b \in Nat
  PROVE  Min({a, b}) = IF a <= b THEN a ELSE b
  BY DEF Min

\* As many of a set as it has are all of it.
LEMMA FullTop ==
  ASSUME NEW R, IsFiniteSet(R), NEW n \in Nat, Cardinality(R) <= n,
         NEW P \in kSubset(Min({n, Cardinality(R)}), R)
  PROVE  P = R
<1>1. Cardinality(R) \in Nat
  BY FS_CardinalityType
<1>2. P \in SUBSET R /\ Cardinality(P) = Min({n, Cardinality(R)})
  BY DEF kSubset
<1>3. Cardinality(P) = Cardinality(R)
  BY <1>1, <1>2, Smaller
<1>4. QED
  BY <1>2, <1>3, FS_Subset

Unevaluated == {w \in {"critical groups not evaluated"} : ~site.groups}

\* An answer of the Wazuh connector: of the first agents of the reply.
LEMMA FleetAnswer ==
  ASSUME TypedInv, WazuhStep, pc' = "idle", evidence'.error = "none"
  PROVE  \E P \in kSubset(Min({WazuhMaxLimit, Cardinality(Agents(step, rows))}),
                         Agents(step, rows)) :
         \E items \in FleetItems(step, P) :
           evidence' = Warned(FleetEvidence(P, items, Cardinality(Agents(step, rows))), Unevaluated)
<1>1. ~(WazuhUseToken \/ WazuhMustLogIn \/ WazuhLogIn)
  BY DEF WazuhUseToken, WazuhMustLogIn, WazuhLogIn, Continue
<1>2. ~WazuhRejected
  <2>1. Failed("rejected").error = "rejected"
    BY FailedFields
  <2>2. QED
    BY <2>1 DEF WazuhRejected, Answer, Continue
<1>3. WazuhAgents
  BY <1>1, <1>2 DEF WazuhStep
<1> DEFINE M == Agents(step, rows)
           Before(a, b) == a.id < b.id
<1>4. \E P \in Top(M, WazuhMaxLimit, Before) : \E items \in FleetItems(step, P) :
        Answer(Warned(FleetEvidence(P, items, Cardinality(M)), Unevaluated))
  BY <1>3, Zenon DEF WazuhAgents, FleetEvidence, Unevaluated
<1>5. \E P \in kSubset(Min({WazuhMaxLimit, Cardinality(M)}), M) : \E items \in FleetItems(step, P) :
        Answer(Warned(FleetEvidence(P, items, Cardinality(M)), Unevaluated))
  BY <1>4 DEF Top
<1>6. QED
  BY <1>5 DEF Answer, Continue

LEMMA FleetAnswerFields ==
  ASSUME NEW P, NEW items, NEW n, NEW d,
         d = Warned(FleetEvidence(P, items, n), Unevaluated)
  PROVE  /\ d.items = items /\ d.total = n /\ d.truncated = (n > Cardinality(items))
         /\ d.summary = Over(summarizeAgents(P), EmptyTable) /\ d.warnings = Unevaluated
<1> DEFINE f == FleetEvidence(P, items, n)
           mark == n > Cardinality(items)
<1>1. f = FleetEvidence(P, items, n)
  OBVIOUS
<1>2. d = Warned(f, Unevaluated)
  OBVIOUS
<1> HIDE DEF f
<1>3. /\ Shaped(f) /\ f.items = items /\ f.total = n /\ f.truncated = mark
      /\ f.summary = Over(summarizeAgents(P), EmptyTable) /\ f.warnings = {}
  BY <1>1, FleetFields
<1> HIDE DEF mark
<1>4. /\ d.items = items /\ d.total = n /\ d.truncated = mark
      /\ d.summary = Over(summarizeAgents(P), EmptyTable) /\ d.warnings = Unevaluated
  <2> DEFINE w == Unevaluated
  <2>1. d = Warned(f, w)
    BY <1>2
  <2>2. Shaped(f)
    BY <1>3
  <2> HIDE DEF w
  <2>3. /\ d.items = f.items /\ d.total = f.total /\ d.truncated = f.truncated
        /\ d.summary = f.summary /\ d.warnings = f.warnings \cup w
    BY <2>1, <2>2, WarnedFields
  <2>4. d.warnings = w
    BY <1>3, <2>3
  <2>5. d.warnings = Unevaluated
    BY <2>4 DEF w
  <2>6. QED
    BY <1>3, <2>3, <2>5
<1>5. QED
  BY <1>4 DEF mark

LEMMA Ranks ==
  ASSUME site.groups, NEW a
  PROVE  itemRank(a) \in 0..3 /\ (Down(a) <=> itemRank(a) = 0)
  BY DEF itemRank, Down

LEMMA DownStep ==
  TypedInv /\ DownCriticalAgentsAreNamed /\ [Next]_vars => DownCriticalAgentsAreNamed'
<1> SUFFICES ASSUME TypedInv, DownCriticalAgentsAreNamed, [Next]_vars,
                    pc' = "idle", evidence'.error = "none", step'.source = "wazuh-api",
                    step'.action = "agents.list", site'.groups, evidence'.total <= WazuhMaxLimit
             PROVE  \/ {a \in always' : Down(a)} \subseteq {a \in evidence'.items : Down(a)}
                    \/ evidence'.truncated /\ {a \in evidence'.items : Down(a)} = evidence'.items
  BY Zenon DEF DownCriticalAgentsAreNamed, Answered, Down
<1>1. CASE ~Working
  <2>1. pc = "idle" /\ UNCHANGED <<site, step, evidence, held>>
    BY <1>1, AtRest
  <2>2. QED
    BY <2>1 DEF DownCriticalAgentsAreNamed, Answered, held
<1>2. CASE Working
  <2>1. UNCHANGED <<work, held>>
    BY <1>2, Workers
  <2>2. WazuhStep
    BY <1>2, <2>1, Workers DEF Working, work
  <2> DEFINE M == Agents(step, rows)
             n == Cardinality(M)
  <2>3. PICK P \in kSubset(Min({WazuhMaxLimit, n}), M) : \E items \in FleetItems(step, P) :
          evidence' = Warned(FleetEvidence(P, items, n), Unevaluated)
    BY <2>2, FleetAnswer
  <2>4. PICK items \in FleetItems(step, P) :
          evidence' = Warned(FleetEvidence(P, items, n), Unevaluated)
    BY <2>3
  <2>5. evidence'.items = items /\ evidence'.total = n
        /\ evidence'.truncated = (n > Cardinality(items))
    BY <2>4, FleetAnswerFields
  <2>6. IsFiniteSet(M) /\ n \in Nat /\ M = rows /\ always' \subseteq M
    <3>1. M = rows
      BY <2>1 DEF Agents, work
    <3>2. QED
      BY <2>1, <3>1, FS_CardinalityType DEF TypedInv, AnswerInv, RowsInv, held
  <2>7. P = M
    BY <2>3, <2>5, <2>6, FleetAssumption, FullTop
  <2>8. /\ items \subseteq M
        /\ \A r \in M \ items, p \in items : ~ListBefore(r, p)
    BY <2>1, <2>4, <2>7 DEF FleetItems, Top, kSubset, work
  <2>9. site.groups
    BY <2>1 DEF work
  <2>10. CASE {a \in always' : Down(a)} \subseteq items
    BY <2>5, <2>10
  <2>11. CASE ~({a \in always' : Down(a)} \subseteq items)
    <3>1. PICK lost \in M \ items : Down(lost)
      BY <2>6, <2>11
    <3>2. \A p \in items : Down(p)
      <4> SUFFICES ASSUME NEW p \in items PROVE Down(p)
        OBVIOUS
      <4>1. ~(itemRank(lost) < itemRank(p))
        BY <2>8, <3>1 DEF ListBefore
      <4>2. itemRank(lost) = 0 /\ itemRank(p) \in 0..3
        BY <2>9, <3>1, Ranks
      <4>3. itemRank(p) = 0
        BY <4>1, <4>2
      <4>4. QED
        BY <2>9, <4>3, Ranks
    <3>3. n > Cardinality(items)
      <4>1. items # M
        BY <3>1
      <4>2. Cardinality(items) \in Nat /\ Cardinality(items) <= n /\ Cardinality(items) # n
        BY <2>6, <2>8, <4>1, FS_Subset, FS_CardinalityType
      <4>3. QED
        BY <2>6, <4>2
    <3>4. QED
      BY <2>5, <3>2, <3>3
  <2>12. QED
    BY <2>10, <2>11
<1>3. QED
  BY <1>1, <1>2

\* A critical agent that was down all through the step is named, unless the
\* list has no room but for agents like it (normalizeAgents, wazuh.go:329).
THEOREM DownNamed == Spec => []DownCriticalAgentsAreNamed
<1>1. Init => TypedInv /\ DownCriticalAgentsAreNamed
  BY TypedInit, NothingAsked DEF DownCriticalAgentsAreNamed, Answered
<1>2. (TypedInv /\ DownCriticalAgentsAreNamed) /\ [Next]_vars
        => (TypedInv /\ DownCriticalAgentsAreNamed)'
  BY TypedStep, DownStep
<1>3. QED
  BY <1>1, <1>2, PTL DEF Spec

\* The states an agent is counted under, and the keys of the critical ones.
LEMMA CountedStates ==
  ASSUME NEW a, a.state \in AgentStates
  PROVE  /\ StateOf(a) \in {"active", "disconnected", "pending", "never_connected", "unknown"}
         /\ StateOf(a) = "disconnected" <=> a.state = "disconnected"
<1>1. Absent # "disconnected"
  BY Zenon DEF Absent
<1>2. QED
  BY <1>1 DEF StateOf, AgentStates

LEMMA CriticalKeys ==
  ASSUME NEW s \in {"disconnected", "pending", "never_connected", "unknown"}
  PROVE  /\ CriticalKey[s] \notin {"total", "critical_total"}
         /\ CriticalKey[s] = "critical_disconnected" <=> s = "disconnected"
  BY DEF CriticalKey

\* What a summary says of the agents it is of.
LEMMA SummaryFacts ==
  ASSUME NEW P, \A a \in P : a.state \in AgentStates
  PROVE  LET A == {a \in P : a.id # managerAgentID}
             t == Over(summarizeAgents(P), EmptyTable)
         IN  /\ t["total"] = Cardinality(A)
             /\ site.groups => t["critical_disconnected"] =
                  Cardinality({a \in A : a.critical /\ a.state = "disconnected"})
<1> DEFINE A == {a \in P : a.id # managerAgentID}
           C == {a \in A : a.critical}
           down == {a \in C : StateOf(a) # "active"}
           keys == {CriticalKey[StateOf(a)] : a \in down} \cup {"critical_disconnected"}
           byState == CountBy(A, {StateOf(a) : a \in A}, StateOf)
           byKey == CountBy(down, keys, LAMBDA a : CriticalKey[StateOf(a)])
           fleet == Over(Entry("total", Cardinality(A)), byState)
           critical == Over(Entry("critical_total", Cardinality(C)), byKey)
           lost == {a \in A : a.critical /\ a.state = "disconnected"}
           s == summarizeAgents(P)
           t == Over(s, EmptyTable)
<1> HIDE DEF byState, byKey
<1>1. "total" \in DOMAIN fleet /\ fleet["total"] = Cardinality(A)
  BY EntryAt
<1>2. \A a \in down : StateOf(a) \in {"disconnected", "pending", "never_connected", "unknown"}
  BY CountedStates
<1>3. "total" \notin keys
  BY <1>2, CriticalKeys
<1>4. DOMAIN byKey = keys
  <2> HIDE DEF down, keys
  <2>1. QED
    BY DEF CountBy, byKey
<1>5. byKey["critical_disconnected"]
        = Cardinality({a \in down : CriticalKey[StateOf(a)] = "critical_disconnected"})
  <2>1. "critical_disconnected" \in keys
    OBVIOUS
  <2> HIDE DEF down, keys
  <2>2. QED
    BY <2>1 DEF CountBy, byKey
<1>6. {a \in down : CriticalKey[StateOf(a)] = "critical_disconnected"} = lost
  <2>1. \A a \in down : CriticalKey[StateOf(a)] = "critical_disconnected"
          <=> a.state = "disconnected"
    BY <1>2, CountedStates, CriticalKeys
  <2>2. \A a \in lost : a \in down
    BY CountedStates
  <2>3. \A a \in down : a \in A /\ a.critical
    OBVIOUS
  <2> HIDE DEF down
  <2>4. QED
    BY <2>1, <2>2, <2>3
<1>7. /\ "total" \notin DOMAIN critical
      /\ "critical_disconnected" \in DOMAIN critical
      /\ critical["critical_disconnected"] = Cardinality(lost)
  <2>1. "critical_disconnected" \in keys
    OBVIOUS
  <2>2. byKey["critical_disconnected"] = Cardinality(lost)
    BY <1>5, <1>6
  <2> DEFINE n == Cardinality(C)
  <2> HIDE DEF n, keys, lost
  <2>3. "total" \notin DOMAIN critical
    BY <1>3, <1>4, EntryAt
  <2>4. /\ "critical_disconnected" \in DOMAIN critical
        /\ critical["critical_disconnected"] = byKey["critical_disconnected"]
    BY <1>4, <2>1, EntryAt
  <2>5. QED
    BY <2>2, <2>3, <2>4
<1>8. s = IF site.groups THEN Over(critical, fleet) ELSE fleet
  <2>1. CriticalCounts(C) = critical
    BY Zenon DEF CriticalCounts, byKey
  <2>2. s = IF site.groups THEN Over(CriticalCounts(C), fleet) ELSE fleet
    BY Zenon DEF summarizeAgents, byState
  <2>3. QED
    BY <2>1, <2>2, Zenon
<1> HIDE DEF A, C, fleet, critical, lost
<1>9. /\ "total" \in DOMAIN s /\ s["total"] = Cardinality(A)
      /\ site.groups => /\ "critical_disconnected" \in DOMAIN s
                        /\ s["critical_disconnected"] = Cardinality(lost)
  <2> HIDE DEF s
  <2>1. CASE site.groups
    <3>1. s = Over(critical, fleet)
      BY <1>8, <2>1
    <3>2. "total" \in DOMAIN s /\ s["total"] = fleet["total"]
      BY <1>1, <1>7, <3>1, OverAt
    <3>3. /\ "critical_disconnected" \in DOMAIN s
          /\ s["critical_disconnected"] = critical["critical_disconnected"]
      BY <1>7, <3>1, OverAt
    <3>4. QED
      BY <1>1, <1>7, <3>2, <3>3
  <2>2. CASE ~site.groups
    BY <1>1, <1>8, <2>2
  <2>3. QED
    BY <2>1, <2>2
<1> HIDE DEF s
<1>10. t["total"] = Cardinality(A)
       /\ (site.groups => t["critical_disconnected"] = Cardinality(lost))
  BY <1>9, OverAt
<1>11. QED
  BY <1>10, Zenon DEF t, s, A, lost

\* A number between the sizes of two sets.
Between(n, A, B) == Cardinality(A) <= n /\ n <= Cardinality(B)

LEMMA BetweenSets ==
  ASSUME NEW A, NEW B, NEW C, IsFiniteSet(C), A \subseteq B, B \subseteq C
  PROVE  Between(Cardinality(B), A, C)
<1>1. IsFiniteSet(B) /\ Cardinality(B) <= Cardinality(C)
  BY FS_Subset
<1>2. Cardinality(A) <= Cardinality(B)
  BY <1>1, FS_Subset
<1>3. QED
  BY <1>1, <1>2 DEF Between

\* The agents of a reply, without the manager, and those of them to worry about.
FleetOf(R) == {a \in Agents(step, R) : a.id # managerAgentID}
LostOf(R) == {a \in FleetOf(R) : a.critical /\ a.state = "disconnected"}

FleetHeld(e) ==
  /\ Between(e.summary["total"], FleetOf(always), FleetOf(ever))
  /\ IF site.groups
     THEN Between(e.summary["critical_disconnected"], LostOf(always), LostOf(ever))
     ELSE "critical groups not evaluated" \in e.warnings

LEMMA FleetNamed ==
  FleetIsCountedWhole
    <=> (Answered("wazuh-api") /\ evidence.total <= WazuhMaxLimit => FleetHeld(evidence))
  BY Zenon DEF FleetIsCountedWhole, FleetHeld, Between, Bounded, FleetOf, LostOf

LEMMA FleetStep == TypedInv /\ FleetIsCountedWhole /\ [Next]_vars => FleetIsCountedWhole'
<1> SUFFICES ASSUME TypedInv, FleetIsCountedWhole, [Next]_vars,
                    pc' = "idle", evidence'.error = "none", step'.source = "wazuh-api",
                    evidence'.total <= WazuhMaxLimit
             PROVE  FleetHeld(evidence)'
  BY Zenon DEF Answered, FleetIsCountedWhole, FleetHeld, Between, Bounded, FleetOf, LostOf
<1>1. CASE ~Working
  <2>1. pc = "idle" /\ UNCHANGED <<site, step, evidence, held>>
    BY <1>1, AtRest
  <2>2. FleetHeld(evidence)
    BY <2>1, FleetNamed DEF Answered
  <2>3. QED
    BY <2>1, <2>2 DEF FleetHeld, FleetOf, LostOf, Agents, Between, held
<1>2. CASE Working
  <2>1. UNCHANGED <<work, held>>
    BY <1>2, Workers
  <2>2. WazuhStep
    BY <1>2, <2>1, Workers DEF Working, work
  <2> DEFINE M == Agents(step, rows)
             n == Cardinality(M)
  <2>3. PICK P \in kSubset(Min({WazuhMaxLimit, n}), M) : \E items \in FleetItems(step, P) :
          evidence' = Warned(FleetEvidence(P, items, n), Unevaluated)
    BY <2>2, FleetAnswer
  <2>4. PICK items \in FleetItems(step, P) :
          evidence' = Warned(FleetEvidence(P, items, n), Unevaluated)
    BY <2>3
  <2>5. /\ evidence'.total = n /\ evidence'.warnings = Unevaluated
        /\ evidence'.summary = Over(summarizeAgents(P), EmptyTable)
    BY <2>4, FleetAnswerFields
  <2>6. IsFiniteSet(rows) /\ IsFiniteSet(M) /\ n \in Nat
        /\ always \subseteq rows /\ rows \subseteq ever
    BY FS_Subset, FS_CardinalityType DEF TypedInv, AnswerInv, RowsInv, Agents, SourceInv, HistoryInv
  <2>7. P = M
    BY <2>3, <2>5, <2>6, FleetAssumption, FullTop
  <2>8. \A a \in M : a.state \in AgentStates
    BY <2>1, StepsAssumption DEF Agents, work, TypedInv, SourceInv, HistoryInv
  <2>9. /\ evidence'.summary["total"] = Cardinality(FleetOf(rows))
        /\ site.groups => evidence'.summary["critical_disconnected"] = Cardinality(LostOf(rows))
    BY <2>5, <2>7, <2>8, SummaryFacts, Zenon DEF FleetOf, LostOf
  <2>10. /\ FleetOf(always) \subseteq FleetOf(rows) /\ FleetOf(rows) \subseteq FleetOf(ever)
         /\ LostOf(always) \subseteq LostOf(rows) /\ LostOf(rows) \subseteq LostOf(ever)
         /\ IsFiniteSet(FleetOf(ever)) /\ IsFiniteSet(LostOf(ever))
    <3>1. FleetOf(ever) \subseteq ever /\ LostOf(ever) \subseteq ever /\ IsFiniteSet(ever)
      BY DEF FleetOf, LostOf, Agents, TypedInv, SourceInv, HistoryInv
    <3>2. IsFiniteSet(FleetOf(ever)) /\ IsFiniteSet(LostOf(ever))
      BY <3>1, FS_Subset
    <3>3. QED
      BY <2>6, <3>2 DEF FleetOf, LostOf, Agents
  <2>11. /\ Between(evidence'.summary["total"], FleetOf(always), FleetOf(ever))
         /\ site.groups
              => Between(evidence'.summary["critical_disconnected"],
                         LostOf(always), LostOf(ever))
    BY <2>9, <2>10, BetweenSets
  <2>12. ~site.groups => "critical groups not evaluated" \in evidence'.warnings
    BY <2>5 DEF Unevaluated
  <2>13. FleetHeld(evidence')
    BY <2>11, <2>12 DEF FleetHeld
  <2>14. QED
    BY <2>1, <2>13 DEF FleetHeld, FleetOf, LostOf, Agents, Between, work, held
<1>3. QED
  BY <1>1, <1>2

\* A reply that held the fleet whole is counted whole: the agents without the
\* manager, and the critical ones that are disconnected (summarizeAgents,
\* wazuh.go:398).
THEOREM FleetCounted == Spec => []FleetIsCountedWhole
<1>1. Init => TypedInv /\ FleetIsCountedWhole
  BY TypedInit, NothingAsked DEF FleetIsCountedWhole, Answered
<1>2. (TypedInv /\ FleetIsCountedWhole) /\ [Next]_vars => (TypedInv /\ FleetIsCountedWhole)'
  BY TypedStep, FleetStep
<1>3. QED
  BY <1>1, <1>2, PTL DEF Spec

-----------------------------------------------------------------------------
(* Steps in flight that no connector takes.                                 *)

\* A request that is under way was under way before, of the same step, or the
\* step has just begun.  Nobody who finds the source still was there when it
\* moved.
LEMMA InFlight ==
  ASSUME TypedInv, [Next]_vars, ~Working, pc' # "idle"
  PROVE  \/ pc' \in {FirstRequest[s] : s \in Sources}
         \/ /\ pc' = pc /\ UNCHANGED <<site, step, evidence, todo>>
            /\ always' \subseteq always /\ ever \subseteq ever'
            /\ always' = ever' => UNCHANGED held
<1>1. CASE Execute
  <2>1. pc' = FirstRequest[step'.source]
    BY <1>1 DEF Execute
  <2>2. step'.source \in Sources
    <3>1. step' = Head(calls) /\ calls # <<>>
      BY <1>1 DEF Execute
    <3>2. QED
      BY <3>1, StepsAssumption DEF TypedInv, SourceInv, HistoryInv
  <2>3. QED
    BY <2>1, <2>2
<1>2. CASE RequestFails
  BY <1>2 DEF RequestFails, Answer, Continue
<1>3. CASE Drift
  <2>1. /\ pc' = pc /\ UNCHANGED <<site, step, evidence, todo>>
        /\ always' = always \cap rows' /\ ever' = ever \cup rows' /\ rows' # rows
    BY <1>3 DEF Drift, work
  <2>2. always \subseteq rows /\ rows \subseteq ever
    BY DEF TypedInv, AnswerInv, RowsInv, SourceInv, HistoryInv
  <2>4. always' # ever'
    BY <2>1, <2>2
  <2>5. QED
    BY <2>1, <2>4
<1>4. CASE TokenRevoked \/ Tick \/ Finished \/ UNCHANGED vars
  BY <1>4 DEF TokenRevoked, Tick, Finished, vars, work, held
<1>5. QED
  BY <1>1, <1>2, <1>3, <1>4 DEF Next

\* What a source that moved on leaves of the bounds.
LEMMA BetweenWider ==
  ASSUME NEW A, NEW B, NEW C, NEW D, IsFiniteSet(A), IsFiniteSet(D), C \subseteq A, B \subseteq D,
         NEW n \in Int, Between(n, A, B)
  PROVE  Between(n, C, D)
<1>1. Cardinality(C) <= Cardinality(A) /\ Cardinality(A) \in Nat /\ Cardinality(C) \in Nat
  BY PartCounted
<1>2. Cardinality(B) <= Cardinality(D) /\ Cardinality(B) \in Nat /\ Cardinality(D) \in Nat
  BY PartCounted
<1>3. QED
  BY <1>1, <1>2 DEF Between

-----------------------------------------------------------------------------
(* The Request Tracker connector: what its tables count.                    *)

TicketsOf(name, k, R) ==
  {t \in OpenTickets(step, R) : k = IF name = "tickets_by_queue" THEN t.queue ELSE t.owner}

TableHeld(name, t) ==
  \A k \in DOMAIN t :
    t[k] \in Nat \ {0} /\ Between(t[k], TicketsOf(name, k, always), TicketsOf(name, k, ever))

TablesHeld(e) == \A name \in DOMAIN e.breakdown : TableHeld(name, e.breakdown[name])

TicketsInv ==
  pc \in {"queue", "owner"} \/ (pc = "idle" /\ evidence.error = "none" /\ step.source = "rt-api")
    => TablesHeld(evidence)

LEMMA TicketsGrow ==
  ASSUME NEW A, NEW B, A \subseteq B, IsFiniteSet(B), NEW name, NEW k
  PROVE  /\ TicketsOf(name, k, A) \subseteq TicketsOf(name, k, B)
         /\ IsFiniteSet(TicketsOf(name, k, B))
<1>1. TicketsOf(name, k, A) \subseteq TicketsOf(name, k, B) /\ TicketsOf(name, k, B) \subseteq B
  BY DEF TicketsOf, OpenTickets
<1>2. QED
  BY <1>1, FS_Subset

\* A count taken now is right, and joins the tables.
LEMMA CountedHeld ==
  ASSUME TypedInv, NEW e, Shaped(e), TablesHeld(e), NEW name, NEW key, NEW n,
         n = Cardinality(TicketsOf(name, key, rows))
  PROVE  TablesHeld(Counted(e, name, key, n))
<1> DEFINE old == Table(e, name)
           t == IF n > 0 THEN Over(Entry(key, n), old) ELSE old
           b == Over(Entry(name, t), e.breakdown)
<1>1. Counted(e, name, key, n).breakdown = b
  BY CountedFields
<1>2. n \in Nat /\ Between(n, TicketsOf(name, key, always), TicketsOf(name, key, ever))
  <2>1. always \subseteq rows /\ rows \subseteq ever /\ IsFiniteSet(ever) /\ IsFiniteSet(rows)
    BY DEF TypedInv, AnswerInv, RowsInv, SourceInv, HistoryInv
  <2>2. /\ TicketsOf(name, key, always) \subseteq TicketsOf(name, key, rows)
        /\ TicketsOf(name, key, rows) \subseteq TicketsOf(name, key, ever)
        /\ IsFiniteSet(TicketsOf(name, key, ever)) /\ IsFiniteSet(TicketsOf(name, key, rows))
    BY <2>1, TicketsGrow
  <2>3. QED
    BY <2>2, BetweenSets, FS_CardinalityType
<1>3. TableHeld(name, old)
  <2>1. CASE name \in DOMAIN e.breakdown
    BY <2>1 DEF Table, TablesHeld
  <2>2. CASE name \notin DOMAIN e.breakdown
    BY <2>2 DEF Table, EmptyTable, TableHeld
  <2>3. QED
    BY <2>1, <2>2
<1> HIDE DEF old
<1>4. TableHeld(name, t)
  <2>1. CASE n > 0
    <3>1. t = Over(Entry(key, n), old)
      BY <2>1
    <3> HIDE DEF t
    <3> SUFFICES ASSUME NEW k \in DOMAIN t
                 PROVE  t[k] \in Nat \ {0}
                        /\ Between(t[k], TicketsOf(name, k, always),
                           TicketsOf(name, k, ever))
      BY DEF TableHeld
    <3>2. CASE k = key
      <4>1. t[k] = n
        BY <3>1, <3>2, EntryAt
      <4>2. QED
        BY <1>2, <2>1, <3>2, <4>1
    <3>3. CASE k # key
      <4>1. k \in DOMAIN old /\ t[k] = old[k]
        BY <3>1, <3>3, EntryAt
      <4>2. QED
        BY <1>3, <4>1 DEF TableHeld
    <3>4. QED
      BY <3>2, <3>3
  <2>2. CASE ~(n > 0)
    BY <1>3, <2>2
  <2>3. QED
    BY <2>1, <2>2
<1> HIDE DEF t
<1>5. \A x \in DOMAIN b : TableHeld(x, b[x])
  <2> SUFFICES ASSUME NEW x \in DOMAIN b PROVE TableHeld(x, b[x])
    OBVIOUS
  <2>1. CASE x = name
    <3>1. b[x] = t
      BY <2>1, EntryAt
    <3>2. QED
      BY <1>4, <2>1, <3>1
  <2>2. CASE x # name
    <3>1. x \in DOMAIN e.breakdown /\ b[x] = e.breakdown[x]
      BY <2>2, EntryAt
    <3>2. QED
      BY <3>1 DEF TablesHeld
  <2>3. QED
    BY <2>1, <2>2
<1> HIDE DEF b
<1>6. QED
  BY <1>1, <1>5 DEF TablesHeld

\* An answer that has no table yet.
LEMMA NoTables ==
  ASSUME NEW e, e.breakdown = EmptyTable PROVE TablesHeld(e)
  BY DEF TablesHeld, EmptyTable

\* What holds of the evidence and its source as they are after a step.
LEMMA TablesAfter ==
  ASSUME UNCHANGED <<site, step>>,
         \A name \in DOMAIN evidence'.breakdown : \A k \in DOMAIN evidence'.breakdown[name] :
           /\ evidence'.breakdown[name][k] \in Nat \ {0}
           /\ Between(evidence'.breakdown[name][k], TicketsOf(name, k, always'),
              TicketsOf(name, k, ever'))
  PROVE  TablesHeld(evidence)'
<1> SUFFICES ASSUME NEW name \in DOMAIN evidence'.breakdown,
                    NEW k \in DOMAIN evidence'.breakdown[name]
             PROVE  /\ evidence'.breakdown[name][k] \in Nat \ {0}
                    /\ Between(evidence'.breakdown[name][k],
                       TicketsOf(name, k, always)', TicketsOf(name, k, ever)')
  BY DEF TablesHeld, TableHeld, Between
<1>1. /\ TicketsOf(name, k, always)' = TicketsOf(name, k, always')
      /\ TicketsOf(name, k, ever)' = TicketsOf(name, k, ever')
  BY DEF TicketsOf, OpenTickets
<1>2. QED
  BY <1>1

\* The step goes on with tables that hold.
LEMMA TablesNext ==
  ASSUME NEW e, NEW next, Continue(e, next), TablesHeld(e)
  PROVE  TicketsInv'
<1>1. evidence' = e /\ UNCHANGED <<work, held>>
  BY DEF Continue
<1>2. TablesHeld(evidence)'
  <2>1. UNCHANGED <<site, step, always, ever>>
    BY <1>1 DEF work, held
  <2>2. QED
    BY <1>1, <2>1, TablesAfter DEF TablesHeld, TableHeld
<1>3. QED
  BY <1>2 DEF TicketsInv

LEMMA OwnersTables ==
  ASSUME NEW e, ToOwners(e), TablesHeld(e) PROVE TicketsInv'
  BY TablesNext DEF ToOwners

LEMMA TicketsRT == TypedInv /\ TicketsInv /\ RTStep => TicketsInv'
<1> SUFFICES ASSUME TypedInv, TicketsInv, RTStep PROVE TicketsInv'
  OBVIOUS
<1>1. CASE RTSearch
  <2> DEFINE M == OpenTickets(step, rows)
             e(P) == Judged(Page(P), Cardinality(M))
             f(P) == Warned(e(P), {"queues not counted"})
  <2>1. PICK P : ToOwners(f(P)) \/ Continue(e(P), "queue")
    BY <1>1 DEF RTSearch
  <2>2. Shaped(Page(P)) /\ Page(P).breakdown = EmptyTable
    BY PageFields
  <2>3. Shaped(e(P)) /\ e(P).breakdown = EmptyTable
    BY <2>2, JudgedFields
  <2> HIDE DEF e
  <2>4. f(P).breakdown = EmptyTable
    BY <2>3, WarnedFields
  <2>5. TablesHeld(e(P)) /\ TablesHeld(f(P))
    BY <2>3, <2>4, NoTables
  <2>6. QED
    BY <2>1, <2>5, OwnersTables, TablesNext
<1>2. CASE RTQueue
  <2> DEFINE n == Cardinality({t \in OpenTickets(step, rows) : t.queue = Head(todo)})
             e == Counted(evidence, "tickets_by_queue", Head(todo), n)
  <2>1. ToOwners(e) \/ Continue(e, "queue")
    BY <1>2 DEF RTQueue
  <2>2. TablesHeld(evidence) /\ Shaped(evidence)
    BY <1>2 DEF RTQueue, TicketsInv, TypedInv, SourceInv, EvidenceTyped
  <2>3. n = Cardinality(TicketsOf("tickets_by_queue", Head(todo), rows))
    <3>1. {t \in OpenTickets(step, rows) : t.queue = Head(todo)}
            = TicketsOf("tickets_by_queue", Head(todo), rows)
      BY DEF TicketsOf
    <3>2. QED
      BY <3>1, Zenon
  <2> HIDE DEF n
  <2>4. TablesHeld(e)
    BY <2>2, <2>3, CountedHeld
  <2> HIDE DEF e
  <2>5. QED
    BY <2>1, <2>4, OwnersTables, TablesNext
<1>3. CASE RTOwner
  <2> DEFINE n == Cardinality({t \in OpenTickets(step, rows) : t.owner = Head(todo)})
             e == Counted(evidence, "tickets_by_owner", Head(todo), n)
             f == Warned(e, OwnerWarnings(e))
  <2>1. Continue(f, "idle") \/ Continue(e, "owner")
    BY <1>3 DEF RTOwner, Answer
  <2>2. TablesHeld(evidence) /\ Shaped(evidence)
    BY <1>3 DEF RTOwner, TicketsInv, TypedInv, SourceInv, EvidenceTyped
  <2>3. n = Cardinality(TicketsOf("tickets_by_owner", Head(todo), rows))
    <3>1. {t \in OpenTickets(step, rows) : t.owner = Head(todo)}
            = TicketsOf("tickets_by_owner", Head(todo), rows)
      BY DEF TicketsOf
    <3>2. QED
      BY <3>1, Zenon
  <2> HIDE DEF n
  <2>4. Shaped(e) /\ TablesHeld(e)
    BY <2>2, <2>3, CountedHeld, CountedFields
  <2> HIDE DEF e
  <2>5. f.breakdown = e.breakdown
    BY <2>4, WarnedFields
  <2>6. TablesHeld(f)
    BY <2>4, <2>5 DEF TablesHeld
  <2> HIDE DEF f
  <2>7. QED
    BY <2>1, <2>4, <2>6, TablesNext
<1>4. QED
  BY <1>1, <1>2, <1>3 DEF RTStep

LEMMA TicketsStep == TypedInv /\ TicketsInv /\ [Next]_vars => TicketsInv'
<1> SUFFICES ASSUME TypedInv, TicketsInv, [Next]_vars PROVE TicketsInv'
  OBVIOUS
<1>1. CASE RTStep
  BY <1>1, TicketsRT
<1>2. CASE Working /\ ~RTStep
  <2>1. step'.source # "rt-api"
    BY <1>2, Workers DEF Working, work
  <2>2. AnswerInv'
    BY TypedStep DEF TypedInv
  <2>3. pc' \notin {"queue", "owner"}
    BY <2>1, <2>2 DEF AnswerInv, PhaseInv
  <2>4. QED
    BY <2>1, <2>3 DEF TicketsInv
<1>3. CASE ~Working /\ pc' = "idle"
  <2> SUFFICES ASSUME evidence'.error = "none", step'.source = "rt-api" PROVE TablesHeld(evidence)'
    BY <1>3 DEF TicketsInv
  <2>1. pc = "idle" /\ UNCHANGED <<site, step, evidence, held>>
    BY <1>3, AtRest
  <2>2. TablesHeld(evidence)
    BY <2>1 DEF TicketsInv
  <2>3. QED
    BY <2>1, <2>2, TablesAfter DEF TablesHeld, TableHeld, held
<1>4. CASE ~Working /\ pc' # "idle"
  <2> SUFFICES ASSUME pc' \in {"queue", "owner"} PROVE TablesHeld(evidence)'
    BY <1>4 DEF TicketsInv
  <2>1. pc' \notin {FirstRequest[s] : s \in Sources}
    BY DEF FirstRequest, Sources
  <2>2. /\ pc' = pc /\ UNCHANGED <<site, step, evidence>>
        /\ always' \subseteq always /\ ever \subseteq ever'
    BY <1>4, <2>1, InFlight
  <2>3. TablesHeld(evidence)
    BY <2>2 DEF TicketsInv
  <2>4. IsFiniteSet(always) /\ IsFiniteSet(ever')
    <3>1. IsFiniteSet(always)
      BY FS_Subset DEF TypedInv, AnswerInv, RowsInv
    <3>2. IsFiniteSet(ever)'
      BY TypedStep DEF TypedInv, SourceInv, HistoryInv
    <3>3. QED
      BY <3>1, <3>2
  <2> SUFFICES ASSUME NEW name \in DOMAIN evidence.breakdown,
                      NEW k \in DOMAIN evidence.breakdown[name]
               PROVE  /\ evidence.breakdown[name][k] \in Nat \ {0}
                      /\ Between(evidence.breakdown[name][k],
                         TicketsOf(name, k, always'), TicketsOf(name, k, ever'))
    BY <2>2, TablesAfter
  <2>5. /\ evidence.breakdown[name][k] \in Nat \ {0}
        /\ Between(evidence.breakdown[name][k], TicketsOf(name, k, always),
           TicketsOf(name, k, ever))
    BY <2>3 DEF TablesHeld, TableHeld
  <2>6. /\ TicketsOf(name, k, always') \subseteq TicketsOf(name, k, always)
        /\ TicketsOf(name, k, ever) \subseteq TicketsOf(name, k, ever')
        /\ IsFiniteSet(TicketsOf(name, k, always)) /\ IsFiniteSet(TicketsOf(name, k, ever'))
    BY <2>2, <2>4, TicketsGrow
  <2>7. QED
    BY <2>5, <2>6, BetweenWider
<1>5. QED
  BY <1>1, <1>2, <1>3, <1>4

\* Every figure of a table of tickets is the number its queue or owner had at
\* some moment of the step (queueCensus, ownerCensus, rt.go:328).
THEOREM TicketsCounted == Spec => []TicketCountsAreOfTheStep
<1>1. Init => TypedInv /\ TicketsInv
  BY TypedInit, NothingAsked DEF TicketsInv, Init, ConnectorInit
<1>2. (TypedInv /\ TicketsInv) /\ [Next]_vars => (TypedInv /\ TicketsInv)'
  BY TypedStep, TicketsStep
<1>3. TicketsInv => TicketCountsAreOfTheStep
  BY Zenon DEF TicketsInv, TicketCountsAreOfTheStep, Answered, TablesHeld,
     TableHeld, TicketsOf, Between, Bounded
<1>4. QED
  BY <1>1, <1>2, <1>3, PTL DEF Spec

-----------------------------------------------------------------------------
(* The Request Tracker connector: whose tickets are in its tables.          *)

\* A page that names an owner has some counted.
LEMMA AskedSome ==
  ASSUME NEW page, IsFiniteSet(page), Owners(page) # {}
  PROVE  Asked(ownersOnPage(page)) # <<>>
<1> DEFINE n == Cardinality(Owners(page))
           named == ownersOnPage(page)
<1>1. IsFiniteSet(Owners(page))
  <2> DEFINE f == [u \in page |-> u.owner]
  <2>1. f \in Surjection(page, {u.owner : u \in page})
    BY DEF Surjection
  <2>2. IsFiniteSet({u.owner : u \in page})
    BY <2>1, FS_Surjection
  <2>3. QED
    BY <2>2, FS_Subset DEF Owners
<1>2. n \in Nat \ {0}
  BY <1>1, FS_EmptySet, FS_CardinalityType
<1>3. named = [i \in 1..n |-> Met(page, i)]
  BY DEF ownersOnPage
<1>4. named = [i \in 1..n |-> named[i]]
  BY <1>3
<1> HIDE DEF n, named
<1>5. named \in Seq({named[i] : i \in 1..n}) /\ Len(named) = n
  BY <1>2, <1>4
<1>6. Min({Len(named), OwnerCensus}) \in Nat \ {0}
  BY <1>2, <1>5, Smaller, OwnerCensusAssumption
<1>7. QED
  <2> DEFINE k == Min({Len(named), OwnerCensus})
  <2> HIDE DEF k
  <2>1. k \in 1..n
    BY <1>2, <1>5, <1>6, Smaller, OwnerCensusAssumption DEF k
  <2>2. SubSeq(named, 1, k) \in Seq({named[i] : i \in 1..n}) /\ Len(SubSeq(named, 1, k)) = k
    BY <1>5, <2>1, <1>2
  <2> DEFINE s == SubSeq(named, 1, k)
  <2> HIDE DEF s
  <2>3. s # <<>>
    <3>1. Len(s) = k /\ k > 0
      BY <2>1, <2>2, <1>2 DEF s
    <3>2. QED
      BY <3>1
  <2>4. QED
    BY <2>3 DEF Asked, named, k, s

\* A table whose counts are each within what M has accounts for no more than
\* the tickets of M whose owners it names.
LEMMA AccountedWithin ==
  ASSUME NEW M, IsFiniteSet(M), NEW table,
         \A k \in DOMAIN table :
           table[k] \in Nat /\ table[k] <= Cardinality({t \in M : t.owner = k})
  PROVE  /\ Accounted(table) \in Nat
         /\ Accounted(table) <= Cardinality({t \in M : t.owner \in DOMAIN table})
<1> DEFINE Of(k) == {t \in M : t.owner = k}
           N == {t \in M : t.owner \in DOMAIN table}
           P == UNION {{k} \X (1..table[k]) : k \in DOMAIN table}
           b == [k \in DOMAIN table |-> CHOOSE f : f \in Bijection(1..Cardinality(Of(k)), Of(k))]
           g == [p \in P |-> b[p[1]][p[2]]]
<1>1. \A k \in DOMAIN table : b[k] \in Bijection(1..Cardinality(Of(k)), Of(k))
  <2> SUFFICES ASSUME NEW k \in DOMAIN table
               PROVE  b[k] \in Bijection(1..Cardinality(Of(k)), Of(k))
    OBVIOUS
  <2>1. IsFiniteSet(Of(k))
    BY FS_Subset
  <2>2. Bijection(1..Cardinality(Of(k)), Of(k)) # {}
    BY <2>1, FS_CardinalityType DEF ExistsBijection
  <2>3. QED
    BY <2>2
<1>2. \A k \in DOMAIN table :
        /\ b[k] \in [1..Cardinality(Of(k)) -> Of(k)]
        /\ \A i, j \in 1..Cardinality(Of(k)) : b[k][i] = b[k][j] => i = j
  <2> SUFFICES ASSUME NEW k \in DOMAIN table
               PROVE  /\ b[k] \in [1..Cardinality(Of(k)) -> Of(k)]
                      /\ \A i, j \in 1..Cardinality(Of(k)) : b[k][i] = b[k][j] => i = j
    OBVIOUS
  <2> DEFINE f == b[k]
             D == 1..Cardinality(Of(k))
             C == Of(k)
  <2>1. f \in Bijection(D, C)
    BY <1>1
  <2> HIDE DEF f, D, C
  <2>2. f \in [D -> C] /\ \A i, j \in D : f[i] = f[j] => i = j
    BY <2>1 DEF Bijection, Injection, IsInjective
  <2>3. QED
    BY <2>2 DEF f, D, C
<1> HIDE DEF b
<1>3. \A k \in DOMAIN table : 1..table[k] \subseteq 1..Cardinality(Of(k))
  <2> SUFFICES ASSUME NEW k \in DOMAIN table PROVE 1..table[k] \subseteq 1..Cardinality(Of(k))
    OBVIOUS
  <2>1. Cardinality(Of(k)) \in Nat /\ table[k] \in Nat /\ table[k] <= Cardinality(Of(k))
    BY FS_Subset, FS_CardinalityType
  <2>2. QED
    BY <2>1
<1>4. \A p \in P : p[1] \in DOMAIN table /\ p[2] \in 1..table[p[1]] /\ p = <<p[1], p[2]>>
  OBVIOUS
<1> HIDE DEF P
<1>5. \A p \in P : p[2] \in 1..Cardinality(Of(p[1]))
  <2> HIDE DEF Of
  <2>1. QED
    BY <1>3, <1>4
<1>6. \A p \in P : g[p] \in M /\ g[p].owner = p[1]
  <2> SUFFICES ASSUME NEW p \in P PROVE g[p] \in Of(p[1])
    OBVIOUS
  <2>1. p[1] \in DOMAIN table /\ p[2] \in 1..Cardinality(Of(p[1])) /\ g[p] = b[p[1]][p[2]]
    BY <1>4, <1>5
  <2>2. b[p[1]] \in [1..Cardinality(Of(p[1])) -> Of(p[1])]
    BY <1>2, <2>1
  <2> HIDE DEF g, Of
  <2>3. QED
    BY <2>1, <2>2
<1>7. g \in [P -> N]
  BY <1>4, <1>6
<1>8. ASSUME NEW p \in P, NEW q \in P, g[p] = g[q] PROVE p = q
  <2>1. p[1] = q[1]
    BY <1>6, <1>8
  <2>2. b[p[1]][p[2]] = b[p[1]][q[2]]
    BY <1>8, <2>1
  <2>3. /\ p[1] \in DOMAIN table
        /\ p[2] \in 1..Cardinality(Of(p[1])) /\ q[2] \in 1..Cardinality(Of(p[1]))
    BY <1>4, <1>5, <2>1
  <2> HIDE DEF g, Of
  <2>4. p[2] = q[2]
    BY <1>2, <2>2, <2>3
  <2>5. QED
    BY <1>4, <2>1, <2>4
<1>9. g \in Injection(P, N)
  BY <1>7, <1>8 DEF Injection, IsInjective
<1>10. IsFiniteSet(N)
  BY FS_Subset
<1> HIDE DEF g, N
<1>11. Cardinality(P) \in Nat /\ Cardinality(P) <= Cardinality(N)
  BY <1>9, <1>10, FS_Injection, FS_CardinalityType
<1>12. QED
  BY <1>11 DEF Accounted, P, N

LEMMA SomeCounted ==
  ASSUME NEW S, NEW n \in Nat \ {0}, n <= Cardinality(S)
  PROVE  S # {}
<1> SUFFICES ASSUME S = {} PROVE FALSE
  OBVIOUS
<1>1. Cardinality(S) = 0
  BY FS_EmptySet
<1>2. QED
  BY <1>1

LEMMA NotLess ==
  ASSUME NEW a \in Nat, NEW b \in Nat, NEW c \in Nat, NEW d \in Nat, a <= b, ~(c < b), c <= d
  PROVE  a <= d
  OBVIOUS

OwnersJudged(e) ==
  \/ Owners(e.items) = {}
  \/ e.warnings \cap {"owners capped", "owners are a floor"} # {}
  \/ ~(Accounted(Table(e, "tickets_by_owner")) < e.total)

TotalHeld(e) == Between(e.total, OpenTickets(step, always), OpenTickets(step, ever))

OwnersInv ==
  pc \in {"queue", "owner"} \/ Answered("rt-api") =>
    TotalHeld(evidence) /\ (pc = "idle" => OwnersJudged(evidence))

LEMMA OwnersAfter ==
  ASSUME NEW e, NEW next, Continue(e, next), TotalHeld(e), next # "idle" \/ OwnersJudged(e)
  PROVE  OwnersInv'
<1>1. evidence' = e /\ pc' = next /\ UNCHANGED <<site, step, always, ever>>
  BY DEF Continue, work, held
<1>2. /\ OpenTickets(step, always)' = OpenTickets(step, always)
      /\ OpenTickets(step, ever)' = OpenTickets(step, ever)
  BY <1>1 DEF OpenTickets
<1>3. TotalHeld(evidence)'
  BY <1>1, <1>2 DEF TotalHeld, Between
<1>4. OwnersJudged(evidence)' <=> OwnersJudged(e)
  BY <1>1 DEF OwnersJudged
<1>5. pc' = "idle" => OwnersJudged(evidence)'
  BY <1>1, <1>4
<1>6. QED
  BY <1>3, <1>5 DEF OwnersInv

LEMMA ToOwnersNext ==
  ASSUME NEW e, IsFiniteSet(e.items), TotalHeld(e), ToOwners(e)
  PROVE  OwnersInv'
<1> DEFINE asked == Asked(ownersOnPage(e.items))
<1>1. Continue(e, IF asked = <<>> THEN "idle" ELSE "owner")
  BY DEF ToOwners
<1>2. asked = <<>> => OwnersJudged(e)
  BY AskedSome DEF OwnersJudged
<1> HIDE DEF asked
<1>3. QED
  BY <1>1, <1>2, OwnersAfter

LEMMA OwnersRT == TypedInv /\ OwnersInv /\ RTStep => OwnersInv'
<1> SUFFICES ASSUME TypedInv, OwnersInv, RTStep PROVE OwnersInv'
  OBVIOUS
<1> DEFINE M == OpenTickets(step, rows)
<1>1. IsFiniteSet(evidence.items) /\ Shaped(evidence)
  BY FS_Subset DEF TypedInv, SourceInv, HistoryInv, EvidenceTyped
<1>2. CASE RTSearch
  <2> DEFINE e(P) == Judged(Page(P), Cardinality(M))
             f(P) == Warned(e(P), {"queues not counted"})
  <2>1. PICK P \in Top(M, step.limit, Newest) : ToOwners(f(P)) \/ Continue(e(P), "queue")
    BY <1>2 DEF RTSearch
  <2>2. /\ IsFiniteSet(M) /\ Between(Cardinality(M), OpenTickets(step, always), OpenTickets(step, ever))
    <3>1. always \subseteq rows /\ rows \subseteq ever /\ IsFiniteSet(ever)
      BY DEF TypedInv, AnswerInv, RowsInv, SourceInv, HistoryInv
    <3>2. /\ OpenTickets(step, always) \subseteq M /\ M \subseteq OpenTickets(step, ever)
          /\ OpenTickets(step, ever) \subseteq ever
      BY <3>1 DEF OpenTickets
    <3>3. IsFiniteSet(M) /\ IsFiniteSet(OpenTickets(step, ever))
      BY <3>1, <3>2, FS_Subset
    <3>4. QED
      BY <3>2, <3>3, BetweenSets
  <2>3. IsFiniteSet(P)
    BY <2>1, <2>2, FS_Subset DEF Top, kSubset
  <2>4. Shaped(Page(P)) /\ Page(P).items = P
    BY PageFields
  <2>5. Shaped(e(P)) /\ e(P).items = P /\ e(P).total = Cardinality(M)
    BY <2>4, JudgedFields
  <2> HIDE DEF e
  <2>6. f(P).items = P /\ f(P).total = Cardinality(M)
    BY <2>5, WarnedFields
  <2>7. TotalHeld(e(P)) /\ TotalHeld(f(P))
    BY <2>2, <2>5, <2>6 DEF TotalHeld
  <2> HIDE DEF f
  <2>8. QED
    BY <2>1, <2>3, <2>6, <2>7, OwnersAfter, ToOwnersNext
<1>3. CASE RTQueue
  <2> DEFINE e == Counted(evidence, "tickets_by_queue", Head(todo),
                          Cardinality({t \in M : t.queue = Head(todo)}))
  <2>1. ToOwners(e) \/ Continue(e, "queue")
    BY <1>3 DEF RTQueue
  <2>2. e.items = evidence.items /\ e.total = evidence.total
    BY <1>1, CountedFields
  <2>3. TotalHeld(evidence)
    BY <1>3 DEF RTQueue, OwnersInv
  <2> HIDE DEF e
  <2>4. TotalHeld(e)
    BY <2>2, <2>3 DEF TotalHeld
  <2>5. QED
    BY <1>1, <2>1, <2>2, <2>4, OwnersAfter, ToOwnersNext
<1>4. CASE RTOwner
  <2> DEFINE e == Counted(evidence, "tickets_by_owner", Head(todo),
                          Cardinality({t \in M : t.owner = Head(todo)}))
             f == Warned(e, OwnerWarnings(e))
  <2>1. Continue(f, "idle") \/ Continue(e, "owner")
    BY <1>4 DEF RTOwner, Answer
  <2>2. Shaped(e) /\ e.total = evidence.total
    BY <1>1, CountedFields
  <2>3. TotalHeld(evidence)
    BY <1>4 DEF RTOwner, OwnersInv
  <2> HIDE DEF e
  <2>4. /\ f.total = e.total /\ f.breakdown = e.breakdown
        /\ f.warnings = e.warnings \cup OwnerWarnings(e)
    BY <2>2, WarnedFields
  <2> HIDE DEF f
  <2>5. TotalHeld(e) /\ TotalHeld(f)
    BY <2>2, <2>3, <2>4 DEF TotalHeld
  <2>6. Table(f, "tickets_by_owner") = Table(e, "tickets_by_owner")
    BY <2>4 DEF Table
  <2>7. OwnersJudged(f)
    BY <2>4, <2>6 DEF OwnersJudged, OwnerWarnings
  <2>8. QED
    BY <2>1, <2>5, <2>7, OwnersAfter
<1>5. QED
  BY <1>2, <1>3, <1>4 DEF RTStep

LEMMA OwnersStep == TypedInv /\ OwnersInv /\ [Next]_vars => OwnersInv'
<1> SUFFICES ASSUME TypedInv, OwnersInv, [Next]_vars PROVE OwnersInv'
  OBVIOUS
<1>1. CASE RTStep
  BY <1>1, OwnersRT
<1>2. CASE Working /\ ~RTStep
  <2>1. step'.source # "rt-api"
    BY <1>2, Workers DEF Working, work
  <2>2. AnswerInv'
    BY TypedStep DEF TypedInv
  <2>3. pc' \notin {"queue", "owner"}
    BY <2>1, <2>2 DEF AnswerInv, PhaseInv
  <2>4. QED
    BY <2>1, <2>3 DEF OwnersInv, Answered
<1>3. CASE ~Working /\ pc' = "idle"
  <2> SUFFICES ASSUME evidence'.error = "none", step'.source = "rt-api"
               PROVE  TotalHeld(evidence)' /\ OwnersJudged(evidence)'
    BY <1>3 DEF OwnersInv, Answered
  <2>1. pc = "idle" /\ UNCHANGED <<site, step, evidence, always, ever>>
    BY <1>3, AtRest DEF held
  <2>2. TotalHeld(evidence) /\ OwnersJudged(evidence)
    BY <2>1 DEF OwnersInv, Answered
  <2>3. /\ OpenTickets(step, always)' = OpenTickets(step, always)
        /\ OpenTickets(step, ever)' = OpenTickets(step, ever)
    BY <2>1 DEF OpenTickets
  <2>4. QED
    BY <2>1, <2>2, <2>3 DEF TotalHeld, Between, OwnersJudged
<1>4. CASE ~Working /\ pc' # "idle"
  <2> SUFFICES ASSUME pc' \in {"queue", "owner"} PROVE TotalHeld(evidence)'
    BY <1>4 DEF OwnersInv, Answered
  <2>1. pc' \notin {FirstRequest[s] : s \in Sources}
    BY DEF FirstRequest, Sources
  <2>2. /\ pc' = pc /\ UNCHANGED <<site, step, evidence>>
        /\ always' \subseteq always /\ ever \subseteq ever'
    BY <1>4, <2>1, InFlight
  <2>3. Between(evidence.total, OpenTickets(step, always), OpenTickets(step, ever))
    BY <2>2 DEF OwnersInv, TotalHeld
  <2>4. IsFiniteSet(always) /\ IsFiniteSet(ever') /\ evidence.total \in Nat
    <3>1. IsFiniteSet(always) /\ evidence.total \in Nat
      BY FS_Subset DEF TypedInv, AnswerInv, RowsInv, SourceInv, HistoryInv, EvidenceTyped
    <3>2. IsFiniteSet(ever)'
      BY TypedStep DEF TypedInv, SourceInv, HistoryInv
    <3>3. QED
      BY <3>1, <3>2
  <2>5. /\ OpenTickets(step, always') \subseteq OpenTickets(step, always)
        /\ OpenTickets(step, ever) \subseteq OpenTickets(step, ever')
        /\ OpenTickets(step, always) \subseteq always /\ OpenTickets(step, ever') \subseteq ever'
    BY <2>2 DEF OpenTickets
  <2>6. IsFiniteSet(OpenTickets(step, always)) /\ IsFiniteSet(OpenTickets(step, ever'))
    BY <2>4, <2>5, FS_Subset
  <2>7. Between(evidence.total, OpenTickets(step, always'), OpenTickets(step, ever'))
    BY <2>3, <2>4, <2>5, <2>6, BetweenWider
  <2>8. /\ OpenTickets(step, always)' = OpenTickets(step, always')
        /\ OpenTickets(step, ever)' = OpenTickets(step, ever')
    BY <2>2 DEF OpenTickets
  <2>9. QED
    BY <2>2, <2>7, <2>8 DEF TotalHeld, Between
<1>5. QED
  BY <1>1, <1>2, <1>3, <1>4

\* A table of owners that comes without a warning leaves out no more of the
\* tickets open all through the step than its owners had others in it, and of a
\* source that did not move none: the sum of its counts is at least the total
\* (Execute, rt.go:234).
THEOREM OwnersNamed == Spec => []UnwarnedOwnersAreAll
<1> DEFINE Inv == TypedInv /\ TicketsInv /\ OwnersInv
<1>1. Init => Inv
  BY TypedInit, NothingAsked DEF TicketsInv, OwnersInv, Answered, Init, ConnectorInit
<1>2. Inv /\ [Next]_vars => Inv'
  BY TypedStep, TicketsStep, OwnersStep
<1>3. Inv => UnwarnedOwnersAreAll
  <2> DEFINE A == OpenTickets(step, always)
             E == OpenTickets(step, ever)
             T == Table(evidence, "tickets_by_owner")
             Known(R) == {t \in R : t.owner \in DOMAIN T}
  <2> SUFFICES ASSUME TypedInv, TicketsInv, OwnersInv, Answered("rt-api"),
                      Owners(evidence.items) # {},
                      evidence.warnings \cap {"owners capped", "owners are a floor"} = {}
               PROVE  /\ DOMAIN T \subseteq {t.owner : t \in E}
                      /\ Cardinality({t \in A : t.owner \notin DOMAIN T})
                           <= Cardinality({t \in E \ A : t.owner \in DOMAIN T})
    BY DEF UnwarnedOwnersAreAll
  <2>1. A \subseteq E /\ IsFiniteSet(E) /\ evidence.total \in Nat
    <3>1. always \subseteq ever /\ IsFiniteSet(ever) /\ evidence.total \in Nat
      BY DEF TypedInv, AnswerInv, RowsInv, SourceInv, HistoryInv, EvidenceTyped
    <3>2. A \subseteq E /\ E \subseteq ever
      BY <3>1 DEF OpenTickets
    <3>3. QED
      BY <3>1, <3>2, FS_Subset
  <2>2. Cardinality(A) <= evidence.total
    BY DEF OwnersInv, TotalHeld, Between
  <2>3. ~(Accounted(T) < evidence.total)
    BY DEF OwnersInv, OwnersJudged, Answered
  <2>4. TableHeld("tickets_by_owner", T)
    BY DEF TicketsInv, Answered, TablesHeld, Table, EmptyTable, TableHeld
  <2> HIDE DEF T
  <2>5. ASSUME NEW k \in DOMAIN T
        PROVE  T[k] \in Nat \ {0} /\ T[k] <= Cardinality({t \in E : t.owner = k})
    <3>1. TicketsOf("tickets_by_owner", k, ever) = {t \in E : t.owner = k}
      BY DEF TicketsOf
    <3> HIDE DEF E
    <3>2. QED
      BY <2>4, <3>1 DEF TableHeld, Between
  <2> HIDE DEF A, E
  <2>6. ASSUME NEW k \in DOMAIN T PROVE \E t \in E : t.owner = k
    <3>1. {t \in E : t.owner = k} # {}
      BY <2>5, SomeCounted, Zenon
    <3>2. QED
      BY <3>1
  <2>7. Accounted(T) \in Nat /\ Accounted(T) <= Cardinality(Known(E))
    BY <2>1, <2>5, AccountedWithin
  <2>8. /\ IsFiniteSet(A) /\ IsFiniteSet(Known(E))
        /\ Cardinality(A) \in Nat /\ Cardinality(Known(E)) \in Nat
    BY <2>1, PartCounted
  <2>9. Cardinality(A) <= Cardinality(Known(E))
    BY <2>1, <2>2, <2>3, <2>7, <2>8, NotLess, Zenon
  <2>10. /\ Known(A) \subseteq A /\ Known(A) \subseteq Known(E)
         /\ A \ Known(A) = {t \in A : t.owner \notin DOMAIN T}
         /\ Known(E) \ Known(A) = {t \in E \ A : t.owner \in DOMAIN T}
    BY <2>1
  <2>11. Cardinality(A \ Known(A)) <= Cardinality(Known(E) \ Known(A))
    BY <2>8, <2>9, <2>10, Unshared
  <2>12. QED
    BY <2>6, <2>10, <2>11
<1>4. QED
  BY <1>1, <1>2, <1>3, PTL DEF Spec

-----------------------------------------------------------------------------
(* The Zabbix connector: what its figures and its marks say.  These are of  *)
(* a step s whose source held the rows A all through, and B at any time.    *)

OfLevel(s, R, l) == {r \in Matching(s, R) : Severity(r) = l}
Below(s, R, k) == {r \in Matching(s, R) : r.level < k}
At(s, R, k) == {r \in Matching(s, R) : r.level = k}

\* The figure of a severity; one that is not there is none.
FigureOf(e, l) == IF l \in DOMAIN e.summary THEN e.summary[l] ELSE 0

LevelHeld(s, A, B, e, l) == Between(FigureOf(e, l), OfLevel(s, A, l), OfLevel(s, B, l))

\* Total and severities were all true of the source in the course of the step.
CountsHeld(s, A, B, e) ==
  /\ Between(e.total, Matching(s, A), Matching(s, B))
  /\ \A l \in LevelNames : LevelHeld(s, A, B, e, l)

\* A page that is all of it comes with the count of its own hosts.
MarkHeld(s, B, e) ==
  /\ e.items \subseteq Matching(s, B) /\ (e.truncated <=> e.total > Cardinality(e.items))
  /\ ~e.truncated => /\ "hosts_affected" \in DOMAIN e.summary
                     /\ e.summary["hosts_affected"] = Cardinality(HostsOf(e.items))
                     /\ "events_by_host" \notin DOMAIN e.breakdown

OfHost(R, h) == {r \in R : r.host = h}

HostTable(e) ==
  IF "events_by_host" \in DOMAIN e.breakdown THEN e.breakdown["events_by_host"]
  ELSE [h \in HostsOf(e.items) |-> Cardinality(OfHost(e.items, h))]

\* The hosts of M are n, and table has their counts, but for what is warned of.
HostsRight(M, n, table, warnings) ==
  /\ n <= Cardinality(HostsOf(M))
  /\ "hosts are a floor" \notin warnings => n = Cardinality(HostsOf(M))
  /\ warnings \cap {"hosts are a floor", "hosts not all named"} = {} => DOMAIN table = HostsOf(M)
  /\ \A h \in DOMAIN table :
       /\ table[h] <= Cardinality(OfHost(M, h))
       /\ "hosts are a floor" \notin warnings => table[h] = Cardinality(OfHost(M, h))

HostsHeld(s, A, B, e) ==
  /\ "hosts_affected" \in DOMAIN e.summary
  /\ A = B => HostsRight(Matching(s, B), e.summary["hosts_affected"], HostTable(e), e.warnings)

KnownHeld(s, hosts, e) ==
  OnTriggers(s) /\ s.host # 0 /\ e.total = 0 =>
    /\ "host_known" \in DOMAIN e.summary
    /\ e.summary["host_known"] = 1 => s.host \in hosts

NotCompared(e) == "total_ignoring_time_bound" \notin DOMAIN e.summary

ComparedHeld(s, A, B, e) ==
  "total_ignoring_time_bound" \in DOMAIN e.summary =>
    Between(e.summary["total_ignoring_time_bound"], Selected(s, A), Selected(s, B))

\* R is what the source has when the bounded count is compared.
WindowHeld(s, R, B, e) ==
  OnTriggers(s) /\ s.window # {} /\ "the window excludes problems" \notin e.warnings =>
    Cardinality(Selected(s, R)) <= Cardinality(Matching(s, B))

\* The page, before anything is counted.
PageHeld(s, B, e) ==
  /\ e.items \subseteq Matching(s, B) /\ e.total = 0 /\ e.breakdown = EmptyTable
  /\ DOMAIN e.summary = {"returned"}

\* Below level k everything is counted.
LevelsHeld(s, A, B, e, k) ==
  /\ e.items \subseteq Matching(s, B) /\ e.breakdown = EmptyTable /\ NotCompared(e)
  /\ Between(e.total, Below(s, A, k), Below(s, B, k))
  /\ \A j \in 0..5 : j < k => LevelHeld(s, A, B, e, zabbixPriority[j + 1])

\* The levels from k on are still to be counted.
FromLevel(keys, k) ==
  keys \in Seq(0..5) /\ Len(keys) = 6 - k /\ \A i \in 1..Len(keys) : keys[i] = k + i - 1

BaseHeld(s, A, B, e) == CountsHeld(s, A, B, e) /\ MarkHeld(s, B, e) /\ NotCompared(e)

DoneHeld(s, A, R, B, hosts, e) ==
  /\ CountsHeld(s, A, B, e) /\ MarkHeld(s, B, e)
  /\ HostsHeld(s, A, B, e) /\ KnownHeld(s, hosts, e)
  /\ ComparedHeld(s, A, B, e) /\ WindowHeld(s, R, B, e)

ZabbixInv ==
  /\ pc = "census" => PageHeld(step, ever, evidence)
  /\ pc = "level" =>
       \E k \in 0..5 : FromLevel(todo, k) /\ LevelsHeld(step, always, ever, evidence, k)
  /\ pc \in {"host", "breakdown", "compare"} => BaseHeld(step, always, ever, evidence)
  /\ pc = "host" => evidence.total = 0
  /\ pc = "breakdown" => evidence.truncated
  /\ pc = "compare" =>
       HostsHeld(step, always, ever, evidence) /\ KnownHeld(step, site.hosts, evidence)
  /\ pc = "idle" /\ evidence.error = "none" /\ step.source = "zabbix-api" =>
       DoneHeld(step, always, rows, ever, site.hosts, evidence)

\* The names of the levels differ, and no figure of the evidence has such a name.
LEMMA Priorities ==
  /\ \A i \in 0..5, j \in 0..5 : zabbixPriority[i + 1] = zabbixPriority[j + 1] => i = j
  /\ \A l \in LevelNames : \E i \in 0..5 : l = zabbixPriority[i + 1]
  /\ \A i \in 0..5 : zabbixPriority[i + 1] \in LevelNames
  /\ LevelNames \cap {"returned", "total_matching", "hosts_affected", "host_known",
                      "total_ignoring_time_bound"} = {}
<1>1. /\ zabbixPriority[1] = "not classified" /\ zabbixPriority[2] = "information"
      /\ zabbixPriority[3] = "warning" /\ zabbixPriority[4] = "average"
      /\ zabbixPriority[5] = "high" /\ zabbixPriority[6] = "disaster"
  BY DEF zabbixPriority
<1>2. LevelNames = {zabbixPriority[1], zabbixPriority[2], zabbixPriority[3],
                    zabbixPriority[4], zabbixPriority[5], zabbixPriority[6]}
  BY DEF LevelNames
<1>3. \A i \in 0..5, j \in 0..5 : zabbixPriority[i + 1] = zabbixPriority[j + 1] => i = j
  <2> SUFFICES ASSUME NEW i \in 0..5, NEW j \in 0..5, zabbixPriority[i + 1] = zabbixPriority[j + 1]
               PROVE  i = j
    OBVIOUS
  <2> DEFINE p == i + 1
             q == j + 1
  <2>1. p \in {1, 2, 3, 4, 5, 6} /\ q \in {1, 2, 3, 4, 5, 6}
        /\ zabbixPriority[p] = zabbixPriority[q]
    OBVIOUS
  <2> HIDE DEF p, q
  <2>2. p = q
    <3> DEFINE z == zabbixPriority
    <3> HIDE DEF z
    <3>1. /\ z[1] = "not classified" /\ z[2] = "information" /\ z[3] = "warning"
          /\ z[4] = "average" /\ z[5] = "high" /\ z[6] = "disaster"
      BY <1>1 DEF z
    <3>2. z[p] = z[q]
      BY <2>1 DEF z
    <3>3. CASE p = 1
      <4>1. z[q] = "not classified"
        BY <3>1, <3>2, <3>3
      <4>2. q # 2 /\ q # 3 /\ q # 4 /\ q # 5 /\ q # 6
        BY <3>1, <4>1
      <4>3. QED
        BY <2>1, <3>3, <4>2
    <3>4. CASE p = 2
      <4>1. z[q] = "information"
        BY <3>1, <3>2, <3>4
      <4>2. q # 1 /\ q # 3 /\ q # 4 /\ q # 5 /\ q # 6
        BY <3>1, <4>1
      <4>3. QED
        BY <2>1, <3>4, <4>2
    <3>5. CASE p = 3
      <4>1. z[q] = "warning"
        BY <3>1, <3>2, <3>5
      <4>2. q # 1 /\ q # 2 /\ q # 4 /\ q # 5 /\ q # 6
        BY <3>1, <4>1
      <4>3. QED
        BY <2>1, <3>5, <4>2
    <3>6. CASE p = 4
      <4>1. z[q] = "average"
        BY <3>1, <3>2, <3>6
      <4>2. q # 1 /\ q # 2 /\ q # 3 /\ q # 5 /\ q # 6
        BY <3>1, <4>1
      <4>3. QED
        BY <2>1, <3>6, <4>2
    <3>7. CASE p = 5
      <4>1. z[q] = "high"
        BY <3>1, <3>2, <3>7
      <4>2. q # 1 /\ q # 2 /\ q # 3 /\ q # 4 /\ q # 6
        BY <3>1, <4>1
      <4>3. QED
        BY <2>1, <3>7, <4>2
    <3>8. CASE p = 6
      <4>1. z[q] = "disaster"
        BY <3>1, <3>2, <3>8
      <4>2. q # 1 /\ q # 2 /\ q # 3 /\ q # 4 /\ q # 5
        BY <3>1, <4>1
      <4>3. QED
        BY <2>1, <3>8, <4>2
    <3>9. QED
      BY <2>1, <3>3, <3>4, <3>5, <3>6, <3>7, <3>8
  <2>3. QED
    BY <2>2 DEF p, q
<1>4. \A l \in LevelNames : \E i \in 0..5 : l = zabbixPriority[i + 1]
  BY <1>2
<1>5. \A i \in 0..5 : zabbixPriority[i + 1] \in LevelNames
  BY DEF LevelNames
<1>6. LevelNames \cap {"returned", "total_matching", "hosts_affected", "host_known",
                       "total_ignoring_time_bound"} = {}
  BY <1>1, <1>2
<1>7. QED
  BY <1>3, <1>4, <1>5, <1>6

\* Rows whose levels are those of Zabbix.
LEMMA LevelsOf ==
  ASSUME NEW s, NEW R, \A r \in R : r.level \in Levels
  PROVE  /\ Below(s, R, 0) = {} /\ Below(s, R, 6) = Matching(s, R)
         /\ \A k \in 0..5 : /\ OfLevel(s, R, zabbixPriority[k + 1]) = At(s, R, k)
                            /\ Below(s, R, k + 1) = Below(s, R, k) \cup At(s, R, k)
                            /\ Below(s, R, k) \cap At(s, R, k) = {}
<1>1. \A r \in Matching(s, R) : r.level \in 0..5
  BY DEF Matching, Selected, Levels
<1>2. Below(s, R, 0) = {} /\ Below(s, R, 6) = Matching(s, R)
  BY <1>1 DEF Below
<1>3. ASSUME NEW k \in 0..5 PROVE OfLevel(s, R, zabbixPriority[k + 1]) = At(s, R, k)
  BY <1>1, Priorities DEF OfLevel, At, Severity
<1>4. ASSUME NEW k \in 0..5
      PROVE  /\ Below(s, R, k + 1) = Below(s, R, k) \cup At(s, R, k)
             /\ Below(s, R, k) \cap At(s, R, k) = {}
  BY <1>1 DEF Below, At
<1>5. QED
  BY <1>2, <1>3, <1>4

\* More rows, more that match.
LEMMA MatchingGrows ==
  ASSUME NEW s, NEW A, NEW B, A \subseteq B, IsFiniteSet(B)
  PROVE  /\ Matching(s, A) \subseteq Matching(s, B) /\ Selected(s, A) \subseteq Selected(s, B)
         /\ \A l : OfLevel(s, A, l) \subseteq OfLevel(s, B, l) /\ IsFiniteSet(OfLevel(s, B, l))
         /\ \A k : Below(s, A, k) \subseteq Below(s, B, k) /\ IsFiniteSet(Below(s, B, k))
         /\ \A k : At(s, A, k) \subseteq At(s, B, k) /\ IsFiniteSet(At(s, B, k))
         /\ IsFiniteSet(Matching(s, B)) /\ IsFiniteSet(Selected(s, B))
<1>1. /\ Matching(s, A) \subseteq Matching(s, B) /\ Selected(s, A) \subseteq Selected(s, B)
      /\ Matching(s, B) \subseteq B /\ Selected(s, B) \subseteq B
  BY DEF Matching, Selected
<1>2. ASSUME NEW l
      PROVE  OfLevel(s, A, l) \subseteq OfLevel(s, B, l) /\ OfLevel(s, B, l) \subseteq B
  BY <1>1 DEF OfLevel
<1>3. ASSUME NEW k
      PROVE  Below(s, A, k) \subseteq Below(s, B, k) /\ Below(s, B, k) \subseteq B
  BY <1>1 DEF Below
<1>4. ASSUME NEW k
      PROVE  At(s, A, k) \subseteq At(s, B, k) /\ At(s, B, k) \subseteq B
  BY <1>1 DEF At
<1>5. QED
  BY <1>1, <1>2, <1>3, <1>4, FS_Subset

\* d has the figures of e, and one more.
Adds(d, e, key, n) == d.summary = Over(Entry(key, n), e.summary)

LEMMA FigureNoted ==
  ASSUME NEW e, NEW d, NEW key, NEW n, Adds(d, e, key, n), NEW l
  PROVE  /\ l # key => FigureOf(d, l) = FigureOf(e, l)
         /\ l = key => FigureOf(d, l) = n
         /\ l \in DOMAIN d.summary <=> l = key \/ l \in DOMAIN e.summary
         /\ l # key /\ l \in DOMAIN e.summary => d.summary[l] = e.summary[l]
<1> DEFINE t == e.summary
           u == d.summary
<1>1. u = Over(Entry(key, n), t)
  BY DEF Adds
<1> HIDE DEF t, u
<1>2. /\ l \in DOMAIN u <=> l = key \/ l \in DOMAIN t
      /\ l = key => u[l] = n
      /\ l \in DOMAIN t /\ l # key => u[l] = t[l]
  BY <1>1, EntryAt
<1>3. QED
  BY <1>2 DEF FigureOf, t, u

LEMMA CountsSame ==
  ASSUME NEW s, NEW A, NEW B, NEW e, NEW d, d.total = e.total,
         \A l \in LevelNames : FigureOf(d, l) = FigureOf(e, l), CountsHeld(s, A, B, e)
  PROVE  CountsHeld(s, A, B, d)
  BY DEF CountsHeld, LevelHeld

\* What one more figure, that is no severity nor the hosts, leaves as it was.
LEMMA NotedHeld ==
  ASSUME NEW s, NEW A, NEW B, NEW e, NEW d,
         NEW key \in {"host_known", "total_ignoring_time_bound"}, NEW n,
         d.items = e.items, d.total = e.total, d.truncated = e.truncated, d.breakdown = e.breakdown,
         Adds(d, e, key, n)
  PROVE  /\ CountsHeld(s, A, B, e) => CountsHeld(s, A, B, d)
         /\ MarkHeld(s, B, e) => MarkHeld(s, B, d)
         /\ HostTable(d) = HostTable(e)
<1>1. \A l \in LevelNames : l # key
  BY Priorities
<1>2. CountsHeld(s, A, B, e) => CountsHeld(s, A, B, d)
  <2>1. ASSUME NEW l \in LevelNames PROVE FigureOf(d, l) = FigureOf(e, l)
    <3>1. l # key
      BY <1>1
    <3>2. QED
      BY <3>1, FigureNoted
  <2>2. QED
    BY <2>1, CountsSame
<1>3. "hosts_affected" \in DOMAIN e.summary =>
        "hosts_affected" \in DOMAIN d.summary
        /\ d.summary["hosts_affected"] = e.summary["hosts_affected"]
  <2>1. "hosts_affected" # key
    OBVIOUS
  <2>2. QED
    BY <2>1, FigureNoted
<1>4. MarkHeld(s, B, e) => MarkHeld(s, B, d)
  BY <1>3 DEF MarkHeld
<1>5. HostTable(d) = HostTable(e)
  BY DEF HostTable
<1>6. QED
  BY <1>2, <1>4, <1>5

\* What a source that moves leaves true.
LEMMA HeldLater ==
  ASSUME NEW s, NEW A, NEW B, NEW C, NEW D, C \subseteq A, B \subseteq D,
         IsFiniteSet(A), IsFiniteSet(D), NEW e, EvidenceTyped(e)
  PROVE  /\ CountsHeld(s, A, B, e) => CountsHeld(s, C, D, e)
         /\ MarkHeld(s, B, e) => MarkHeld(s, D, e)
         /\ PageHeld(s, B, e) => PageHeld(s, D, e)
         /\ \A k \in 0..5 : LevelsHeld(s, A, B, e, k) => LevelsHeld(s, C, D, e, k)
<1>1. /\ Matching(s, C) \subseteq Matching(s, A) /\ IsFiniteSet(Matching(s, A))
      /\ Matching(s, B) \subseteq Matching(s, D) /\ IsFiniteSet(Matching(s, D))
  BY MatchingGrows
<1>2. e.total \in Int /\ \A l : FigureOf(e, l) \in Int
  BY DEF EvidenceTyped, Figured, FigureOf
<1>3. ASSUME NEW l, LevelHeld(s, A, B, e, l) PROVE LevelHeld(s, C, D, e, l)
  <2>1. /\ OfLevel(s, C, l) \subseteq OfLevel(s, A, l) /\ IsFiniteSet(OfLevel(s, A, l))
        /\ OfLevel(s, B, l) \subseteq OfLevel(s, D, l) /\ IsFiniteSet(OfLevel(s, D, l))
    BY MatchingGrows
  <2>2. QED
    BY <1>2, <1>3, <2>1, BetweenWider DEF LevelHeld
<1>4. CountsHeld(s, A, B, e) => CountsHeld(s, C, D, e)
  BY <1>1, <1>2, <1>3, BetweenWider DEF CountsHeld
<1>5. MarkHeld(s, B, e) => MarkHeld(s, D, e)
  BY <1>1 DEF MarkHeld
<1>6. PageHeld(s, B, e) => PageHeld(s, D, e)
  BY <1>1 DEF PageHeld
<1>7. ASSUME NEW k \in 0..5, LevelsHeld(s, A, B, e, k) PROVE LevelsHeld(s, C, D, e, k)
  <2>1. /\ Below(s, C, k) \subseteq Below(s, A, k) /\ IsFiniteSet(Below(s, A, k))
        /\ Below(s, B, k) \subseteq Below(s, D, k) /\ IsFiniteSet(Below(s, D, k))
    BY MatchingGrows
  <2>2. Between(e.total, Below(s, C, k), Below(s, D, k))
    BY <1>2, <1>7, <2>1, BetweenWider DEF LevelsHeld
  <2>3. QED
    BY <1>1, <1>3, <1>7, <2>2 DEF LevelsHeld
<1>8. QED
  BY <1>4, <1>5, <1>6, <1>7

\* Everything counted, the total is judged and the page's own hosts counted.
LEMMA SettledHeld ==
  ASSUME NEW s, NEW A, NEW B, IsFiniteSet(B), NEW e, EvidenceTyped(e),
         e.items \subseteq Matching(s, B), e.breakdown = EmptyTable, NotCompared(e),
         NEW n \in Nat, Between(n, Matching(s, A), Matching(s, B)),
         \A l \in LevelNames : LevelHeld(s, A, B, e, l)
  PROVE  BaseHeld(s, A, B, Settled(Judged(e, n)))
<1> DEFINE j == Judged(e, n)
           f == Settled(j)
           hosts == Cardinality(HostsOf(e.items))
           mark == n > Cardinality(e.items)
<1>1. Shaped(e)
  BY DEF EvidenceTyped
<1>2. /\ Shaped(j) /\ j.items = e.items /\ j.total = n /\ j.breakdown = e.breakdown
      /\ j.truncated = mark /\ j.summary = Over(Entry("total_matching", n), e.summary)
  BY <1>1, JudgedFields
<1>3. f = IF j.truncated THEN j
          ELSE Noted(j, Entry("hosts_affected", Cardinality(HostsOf(j.items))))
  BY DEF Settled
<1>4. mark <=> n > Cardinality(e.items)
  OBVIOUS
<1> HIDE DEF j, f, mark
<1>5. Adds(j, e, "total_matching", n)
  BY <1>2 DEF Adds
<1>6. /\ \A l \in LevelNames : l # "total_matching" /\ l # "hosts_affected"
      /\ "total_ignoring_time_bound" # "total_matching"
         /\ "total_ignoring_time_bound" # "hosts_affected"
  BY Priorities
<1>7. /\ \A l \in LevelNames : FigureOf(j, l) = FigureOf(e, l)
      /\ "total_ignoring_time_bound" \notin DOMAIN j.summary
  BY <1>5, <1>6, FigureNoted DEF NotCompared
<1>8. "events_by_host" \notin DOMAIN e.breakdown
  BY DEF EmptyTable
<1>9. CASE j.truncated
  <2>1. f = j
    BY <1>3, <1>9
  <2>2. CountsHeld(s, A, B, j)
    BY <1>2, <1>7 DEF CountsHeld, LevelHeld
  <2>3. MarkHeld(s, B, j)
    BY <1>2, <1>4, <1>9 DEF MarkHeld
  <2>4. BaseHeld(s, A, B, j)
    BY <1>7, <2>2, <2>3 DEF BaseHeld, NotCompared
  <2>5. QED
    BY <2>1, <2>4 DEF f, j
<1>10. CASE ~j.truncated
  <2>1. f = Noted(j, Entry("hosts_affected", hosts))
    BY <1>2, <1>3, <1>10
  <2> HIDE DEF hosts
  <2>2. /\ f.items = j.items /\ f.total = j.total /\ f.truncated = j.truncated
           /\ f.breakdown = j.breakdown
        /\ f.summary = Over(Entry("hosts_affected", hosts), j.summary)
    BY <1>2, <2>1, NotedFields
  <2>3. Adds(f, j, "hosts_affected", hosts)
    BY <2>2 DEF Adds
  <2>4. /\ \A l \in LevelNames : FigureOf(f, l) = FigureOf(j, l)
        /\ "total_ignoring_time_bound" \notin DOMAIN f.summary
    BY <1>6, <1>7, <2>3, FigureNoted
  <2>5. "hosts_affected" \in DOMAIN f.summary /\ f.summary["hosts_affected"] = hosts
    <3>1. "hosts_affected" \in DOMAIN f.summary /\ FigureOf(f, "hosts_affected") = hosts
      BY <2>3, FigureNoted
    <3>2. QED
      BY <3>1 DEF FigureOf
  <2>6. CountsHeld(s, A, B, f)
    BY <1>2, <1>7, <2>2, <2>4 DEF CountsHeld, LevelHeld
  <2>7. MarkHeld(s, B, f)
    BY <1>2, <1>4, <1>8, <1>10, <2>2, <2>5 DEF MarkHeld, hosts
  <2>8. QED
    BY <2>4, <2>6, <2>7 DEF BaseHeld, NotCompared, f, j
<1>11. QED
  BY <1>9, <1>10

\* Of a still source, a page that is not marked is everything, and its hosts
\* are everybody's.
LEMMA WholePage ==
  ASSUME NEW s, NEW B, IsFiniteSet(B), NEW e, CountsHeld(s, B, B, e),
         MarkHeld(s, B, e), ~e.truncated,
         e.total \in Nat
  PROVE  e.items = Matching(s, B)
<1>1. IsFiniteSet(Matching(s, B))
  BY MatchingGrows
<1>2. /\ e.items \subseteq Matching(s, B) /\ e.total <= Cardinality(e.items)
      /\ Cardinality(Matching(s, B)) <= e.total
  <2>1. Cardinality(e.items) \in Nat
    BY <1>1, PartCounted DEF MarkHeld
  <2>2. QED
    BY <2>1 DEF MarkHeld, CountsHeld, Between
<1>3. /\ Cardinality(e.items) <= Cardinality(Matching(s, B))
      /\ Cardinality(e.items) \in Nat /\ Cardinality(Matching(s, B)) \in Nat
  BY <1>1, <1>2, PartCounted
<1>4. Cardinality(e.items) = Cardinality(Matching(s, B))
  BY <1>2, <1>3
<1>5. QED
  BY <1>1, <1>2, <1>4, FS_Subset

LEMMA PageHosts ==
  ASSUME NEW s, NEW A, NEW B, IsFiniteSet(B), NEW e, e.total \in Nat,
         CountsHeld(s, A, B, e), MarkHeld(s, B, e), ~e.truncated
  PROVE  HostsHeld(s, A, B, e)
<1> SUFFICES ASSUME A = B
             PROVE  HostsRight(Matching(s, B), e.summary["hosts_affected"],
                    HostTable(e), e.warnings)
  BY DEF HostsHeld, MarkHeld
<1> DEFINE M == Matching(s, B)
           t == [h \in HostsOf(M) |-> Cardinality(OfHost(M, h))]
<1>1. e.items = M
  BY WholePage
<1>2. IsFiniteSet(M)
  BY MatchingGrows
<1> HIDE DEF M
<1>3. e.summary["hosts_affected"] = Cardinality(HostsOf(M)) /\ HostTable(e) = t
  BY <1>1 DEF MarkHeld, HostTable
<1>4. Cardinality(HostsOf(M)) \in Nat
  BY <1>2, HostsFinite
<1>5. \A h \in HostsOf(M) : Cardinality(OfHost(M, h)) \in Nat
  BY <1>2, PartCounted DEF OfHost
<1>6. HostsRight(M, Cardinality(HostsOf(M)), t, e.warnings)
  BY <1>4, <1>5 DEF HostsRight
<1>7. QED
  BY <1>3, <1>6 DEF M

-----------------------------------------------------------------------------
(* The requests of a Zabbix step, one by one.                               *)

\* A request that is answered with e, and followed by next.
LEMMA ZabbixNext ==
  ASSUME NEW e, NEW next, Continue(e, next),
         next = "census" => PageHeld(step, ever, e),
         next = "level" =>
           \E k \in 0..5 : FromLevel(todo', k) /\ LevelsHeld(step, always, ever, e, k),
         next \in {"host", "breakdown", "compare"} => BaseHeld(step, always, ever, e),
         next = "host" => e.total = 0,
         next = "breakdown" => e.truncated,
         next = "compare" => HostsHeld(step, always, ever, e) /\ KnownHeld(step, site.hosts, e),
         next = "idle" => DoneHeld(step, always, rows, ever, site.hosts, e)
  PROVE  ZabbixInv'
<1>1. evidence' = e /\ pc' = next /\ UNCHANGED <<site, step, rows, always, ever>>
  BY DEF Continue, work, held
<1>2. QED
  BY <1>1 DEF ZabbixInv

\* The hosts are right, and nothing but the time bound is left to compare.
LEMMA ToCompare ==
  ASSUME NEW e, Continue(e, AfterBreakdown), BaseHeld(step, always, ever, e),
         HostsHeld(step, always, ever, e), KnownHeld(step, site.hosts, e)
  PROVE  ZabbixInv'
<1>1. AfterBreakdown = IF OnTriggers(step) /\ step.window # {} THEN "compare" ELSE "idle"
  BY DEF AfterBreakdown
<1>2. CASE OnTriggers(step) /\ step.window # {}
  BY <1>1, <1>2, ZabbixNext
<1>3. CASE ~(OnTriggers(step) /\ step.window # {})
  <2>1. DoneHeld(step, always, rows, ever, site.hosts, e)
    BY <1>3 DEF DoneHeld, BaseHeld, NotCompared, ComparedHeld, WindowHeld
  <2>2. QED
    BY <1>1, <1>3, <2>1, ZabbixNext
<1>4. QED
  BY <1>2, <1>3

\* A page that is cut goes on to the hosts.
LEMMA ToHosts ==
  ASSUME TypedInv, NEW e, e.total \in Nat, Continue(e, AfterHost(e)),
         BaseHeld(step, always, ever, e), KnownHeld(step, site.hosts, e)
  PROVE  ZabbixInv'
<1>1. CASE e.truncated
  BY <1>1, ZabbixNext DEF AfterHost
<1>2. CASE ~e.truncated
  <2>1. IsFiniteSet(ever)
    BY DEF TypedInv, SourceInv, HistoryInv
  <2>2. HostsHeld(step, always, ever, e)
    BY <1>2, <2>1, PageHosts DEF BaseHeld
  <2>3. QED
    BY <1>2, <2>2, ToCompare DEF AfterHost
<1>3. QED
  BY <1>1, <1>2

LEMMA FromCensus ==
  ASSUME TypedInv, NEW e, EvidenceTyped(e), NEW n \in Nat, CensusDone(e, n),
         BaseHeld(step, always, ever, Settled(Judged(e, n)))
  PROVE  ZabbixInv'
<1> DEFINE f == Settled(Judged(e, n))
<1>1. Continue(f, AfterCensus(f))
  BY DEF CensusDone
<1>2. f.total \in Nat
  BY JudgedTyped, SettledTyped DEF TypedInv, SourceInv, EvidenceTyped
<1>3. BaseHeld(step, always, ever, f)
  OBVIOUS
<1> HIDE DEF f
<1>4. CASE OnTriggers(step) /\ step.host # 0 /\ f.total = 0
  BY <1>1, <1>3, <1>4, ZabbixNext DEF AfterCensus
<1>5. CASE ~(OnTriggers(step) /\ step.host # 0 /\ f.total = 0)
  <2>1. KnownHeld(step, site.hosts, f)
    BY <1>5 DEF KnownHeld
  <2>2. QED
    BY <1>1, <1>2, <1>3, <1>5, <2>1, ToHosts DEF AfterCensus
<1>6. QED
  BY <1>4, <1>5

\* What every request of the step finds.
LEMMA ZabbixRows ==
  ASSUME TypedInv, pc \in ZabbixPhases
  PROVE  /\ always \subseteq rows /\ rows \subseteq ever /\ IsFiniteSet(rows) /\ IsFiniteSet(ever)
         /\ \A r \in ever : r.level \in Levels
         /\ EvidenceTyped(evidence) /\ Shaped(evidence)
<1>1. /\ always \subseteq rows /\ rows \subseteq ever /\ IsFiniteSet(rows) /\ IsFiniteSet(ever)
      /\ EvidenceTyped(evidence) /\ Shaped(evidence)
  BY DEF TypedInv, AnswerInv, RowsInv, SourceInv, HistoryInv, EvidenceTyped
<1>2. \A r \in ever : r.level \in Levels
  <2>1. step.source = "zabbix-api"
    BY DEF TypedInv, AnswerInv, PhaseInv
  <2>2. QED
    BY <2>1, StepsAssumption DEF TypedInv, SourceInv, HistoryInv
<1>3. QED
  BY <1>1, <1>2

LEMMA PageHolds == TypedInv /\ ZabbixPage => ZabbixInv'
<1> SUFFICES ASSUME TypedInv, ZabbixPage PROVE ZabbixInv'
  OBVIOUS
<1>1. PICK P \in SUBSET Matching(step, rows) : Continue(Page(P), "census")
  BY PageAction
<1>2. P \subseteq Matching(step, ever)
  <2>1. rows \subseteq ever /\ IsFiniteSet(ever)
    BY DEF TypedInv, SourceInv, HistoryInv
  <2>2. QED
    BY <2>1, MatchingGrows
<1> DEFINE e == Page(P)
           n == Cardinality(P)
<1>3. /\ e.items = P /\ e.total = 0 /\ e.breakdown = EmptyTable
      /\ e.summary = Over(Entry("returned", n), EmptyTable)
  BY PageFields
<1> HIDE DEF e, n
<1>4. DOMAIN e.summary = {"returned"}
  <2>1. DOMAIN Over(Entry("returned", n), EmptyTable) = {"returned"}
    BY DEF Over, Entry, EmptyTable
  <2>2. QED
    BY <1>3, <2>1
<1>5. PageHeld(step, ever, e)
  BY <1>2, <1>3, <1>4 DEF PageHeld
<1>6. QED
  BY <1>1, <1>5, ZabbixNext DEF e

LEMMA CensusHolds == TypedInv /\ ZabbixInv /\ ZabbixCensus => ZabbixInv'
<1> SUFFICES ASSUME TypedInv, ZabbixInv, ZabbixCensus PROVE ZabbixInv'
  OBVIOUS
<1> DEFINE M == Matching(step, rows)
           n == Cardinality(M)
           t == Severities(M)
           e == Noted(evidence, t)
<1>1. pc = "census" /\ CensusDone(e, n)
  BY CensusAction
<1>2. PageHeld(step, ever, evidence)
  BY <1>1 DEF ZabbixInv
<1>3. /\ always \subseteq rows /\ rows \subseteq ever /\ IsFiniteSet(rows) /\ IsFiniteSet(ever)
      /\ EvidenceTyped(evidence) /\ Shaped(evidence)
  BY <1>1, ZabbixRows DEF ZabbixPhases
<1>4. IsFiniteSet(M) /\ n \in Nat /\ Between(n, Matching(step, always), Matching(step, ever))
  <2>1. /\ Matching(step, always) \subseteq M /\ M \subseteq Matching(step, ever)
        /\ IsFiniteSet(M) /\ IsFiniteSet(Matching(step, ever))
    BY <1>3, MatchingGrows
  <2>2. QED
    BY <2>1, BetweenSets, FS_CardinalityType
<1>5. /\ Figured(t) /\ DOMAIN t = {Severity(r) : r \in M}
      /\ \A l \in DOMAIN t : t[l] = Cardinality(OfLevel(step, rows, l))
  BY <1>4, SeveritiesTable DEF OfLevel
<1> HIDE DEF t, n
<1>6. EvidenceTyped(e)
  BY <1>3, <1>5, NotedTyped
<1>7. e.items = evidence.items /\ e.breakdown = evidence.breakdown
      /\ e.summary = Over(t, evidence.summary)
  BY <1>3, NotedFields
<1> HIDE DEF e
<1>8. ASSUME NEW l
      PROVE  /\ l \in DOMAIN e.summary <=> l \in DOMAIN t \/ l = "returned"
             /\ l \in DOMAIN t => e.summary[l] = t[l]
  <2> DEFINE old == evidence.summary
  <2>1. DOMAIN old = {"returned"}
    BY <1>2 DEF PageHeld
  <2> HIDE DEF old
  <2>2. /\ l \in DOMAIN Over(t, old) <=> l \in DOMAIN t \/ l \in DOMAIN old
        /\ l \in DOMAIN t => Over(t, old)[l] = t[l]
    BY OverAt
  <2>3. e.summary = Over(t, old)
    BY <1>7 DEF old
  <2>4. QED
    BY <2>1, <2>2, <2>3
<1>9. ASSUME NEW l \in LevelNames PROVE LevelHeld(step, always, ever, e, l)
  <2>1. FigureOf(e, l) = Cardinality(OfLevel(step, rows, l))
    <3>1. CASE l \in DOMAIN t
      BY <1>5, <1>8, <3>1 DEF FigureOf
    <3>2. CASE l \notin DOMAIN t
      <4>1. OfLevel(step, rows, l) = {}
        BY <1>5, <3>2 DEF OfLevel
      <4>2. l # "returned"
        BY Priorities
      <4>3. FigureOf(e, l) = 0
        BY <1>8, <3>2, <4>2 DEF FigureOf
      <4>4. QED
        BY <4>1, <4>3, FS_EmptySet
    <3>3. QED
      BY <3>1, <3>2
  <2>2. /\ OfLevel(step, always, l) \subseteq OfLevel(step, rows, l)
        /\ OfLevel(step, rows, l) \subseteq OfLevel(step, ever, l)
        /\ IsFiniteSet(OfLevel(step, ever, l))
    BY <1>3, MatchingGrows
  <2>3. QED
    BY <2>1, <2>2, BetweenSets DEF LevelHeld
<1>10. NotCompared(e)
  <2>1. "total_ignoring_time_bound" \notin LevelNames
    BY Priorities
  <2>2. DOMAIN t \subseteq LevelNames
    <3>1. \A r \in M : r.level \in 0..5
      BY <1>1, <1>3, ZabbixRows DEF ZabbixPhases, Levels, Matching, Selected
    <3>2. \A r \in M : Severity(r) \in LevelNames
      BY <3>1, Priorities DEF Severity
    <3>3. QED
      BY <1>5, <3>2
  <2>3. QED
    BY <1>8, <2>1, <2>2 DEF NotCompared
<1>11. BaseHeld(step, always, ever, Settled(Judged(e, n)))
  BY <1>2, <1>3, <1>4, <1>6, <1>7, <1>9, <1>10, SettledHeld DEF PageHeld, n
<1>12. QED
  BY <1>1, <1>4, <1>6, <1>11, FromCensus

LEMMA OverflowHolds == TypedInv /\ ZabbixInv /\ ZabbixCensusOverflows => ZabbixInv'
<1> SUFFICES ASSUME TypedInv, ZabbixInv, ZabbixCensusOverflows PROVE ZabbixInv'
  OBVIOUS
<1>1. pc = "census" /\ Continue(evidence, "level") /\ todo' = <<0, 1, 2, 3, 4, 5>>
  BY DEF ZabbixCensusOverflows
<1>2. PageHeld(step, ever, evidence)
  BY <1>1 DEF ZabbixInv
<1>3. \A r \in ever : r.level \in Levels
  BY <1>1, ZabbixRows DEF ZabbixPhases
<1>4. Below(step, always, 0) = {} /\ Below(step, ever, 0) = {}
  BY <1>1, <1>3, ZabbixRows, LevelsOf DEF ZabbixPhases
<1>5. Between(evidence.total, Below(step, always, 0), Below(step, ever, 0))
  BY <1>2, <1>4, FS_EmptySet DEF PageHeld, Between
<1>6. LevelsHeld(step, always, ever, evidence, 0)
  <2>1. "total_ignoring_time_bound" # "returned"
    OBVIOUS
  <2>2. QED
    BY <1>2, <1>5, <2>1 DEF LevelsHeld, PageHeld, NotCompared
<1>7. FromLevel(todo', 0)
  BY <1>1 DEF FromLevel
<1>8. QED
  BY <1>1, <1>6, <1>7, ZabbixNext

\* One level more is counted.
LEMMA LevelAdded ==
  ASSUME NEW s, NEW A, NEW B, NEW R, A \subseteq R, R \subseteq B, IsFiniteSet(R), IsFiniteSet(B),
         \A r \in B : r.level \in Levels,
         NEW e, EvidenceTyped(e), NEW k \in 0..5, LevelsHeld(s, A, B, e, k),
         NEW d, d.items = e.items, d.breakdown = e.breakdown,
         d.total = e.total + Cardinality(At(s, R, k)),
         Adds(d, e, zabbixPriority[k + 1], Cardinality(At(s, R, k)))
  PROVE  LevelsHeld(s, A, B, d, k + 1)
<1> DEFINE n == Cardinality(At(s, R, k))
           key == zabbixPriority[k + 1]
<1>1. /\ At(s, A, k) \subseteq At(s, R, k) /\ At(s, R, k) \subseteq At(s, B, k)
      /\ IsFiniteSet(At(s, R, k)) /\ IsFiniteSet(At(s, B, k)) /\ IsFiniteSet(At(s, A, k))
  BY MatchingGrows, FS_Subset
<1>2. n \in Nat /\ Between(n, At(s, A, k), At(s, B, k))
  BY <1>1, BetweenSets, FS_CardinalityType
<1>3. IsFiniteSet(Below(s, A, k)) /\ IsFiniteSet(Below(s, B, k))
  <2>1. IsFiniteSet(A)
    BY FS_Subset
  <2>2. QED
    BY <2>1, MatchingGrows
<1>4. /\ Cardinality(Below(s, A, k + 1)) = Cardinality(Below(s, A, k)) + Cardinality(At(s, A, k))
      /\ Cardinality(Below(s, B, k + 1)) = Cardinality(Below(s, B, k)) + Cardinality(At(s, B, k))
  <2>1. /\ Below(s, A, k + 1) = Below(s, A, k) \cup At(s, A, k)
        /\ Below(s, A, k) \cap At(s, A, k) = {}
    <3>1. \A r \in A : r.level \in Levels
      OBVIOUS
    <3>2. QED
      BY <3>1, LevelsOf
  <2>2. /\ Below(s, B, k + 1) = Below(s, B, k) \cup At(s, B, k)
        /\ Below(s, B, k) \cap At(s, B, k) = {}
    BY LevelsOf
  <2>3. /\ Cardinality({}) = 0
        /\ Cardinality(Below(s, A, k)) \in Nat /\ Cardinality(At(s, A, k)) \in Nat
        /\ Cardinality(Below(s, B, k)) \in Nat /\ Cardinality(At(s, B, k)) \in Nat
    BY <1>1, <1>3, FS_EmptySet, FS_CardinalityType
  <2>4. Cardinality(Below(s, A, k + 1)) =
          Cardinality(Below(s, A, k)) + Cardinality(At(s, A, k)) - Cardinality({})
    BY <1>1, <1>3, <2>1, FS_Union
  <2>5. Cardinality(Below(s, B, k + 1)) =
          Cardinality(Below(s, B, k)) + Cardinality(At(s, B, k)) - Cardinality({})
    BY <1>1, <1>3, <2>2, FS_Union
  <2>6. QED
    BY <2>3, <2>4, <2>5
<1>5. Between(d.total, Below(s, A, k + 1), Below(s, B, k + 1))
  <2>1. /\ Cardinality(Below(s, A, k)) \in Nat /\ Cardinality(Below(s, B, k)) \in Nat
        /\ Cardinality(At(s, A, k)) \in Nat /\ Cardinality(At(s, B, k)) \in Nat
    BY <1>1, <1>3, FS_CardinalityType
  <2>2. Cardinality(Below(s, A, k)) <= e.total
        /\ e.total <= Cardinality(Below(s, B, k)) /\ e.total \in Nat
    BY DEF LevelsHeld, Between, EvidenceTyped
  <2>3. d.total = e.total + n
    OBVIOUS
  <2>4. Cardinality(At(s, A, k)) <= n /\ n <= Cardinality(At(s, B, k))
    BY <1>2 DEF Between
  <2> HIDE DEF n
  <2>5. QED
    BY <1>2, <1>4, <2>1, <2>2, <2>3, <2>4 DEF Between
<1> HIDE DEF n
<1>6. Adds(d, e, key, n)
  BY DEF n
<1> HIDE DEF key
<1>7. ASSUME NEW j \in 0..5, j < k + 1 PROVE LevelHeld(s, A, B, d, zabbixPriority[j + 1])
  <2>1. CASE j = k
    <3>1. FigureOf(d, key) = n
      <4>1. /\ key \in DOMAIN d.summary /\ FigureOf(d, key) = n
        BY <1>6, FigureNoted
      <4>2. QED
        BY <4>1
    <3>2. OfLevel(s, A, key) = At(s, A, k) /\ OfLevel(s, B, key) = At(s, B, k)
      <4>1. \A r \in A : r.level \in Levels
        OBVIOUS
      <4>2. QED
        BY <4>1, LevelsOf DEF key
    <3>3. LevelHeld(s, A, B, d, key)
      BY <1>2, <3>1, <3>2 DEF LevelHeld
    <3>4. QED
      BY <2>1, <3>3 DEF key
  <2>2. CASE j # k
    <3>1. j < k /\ zabbixPriority[j + 1] # key
      BY <1>7, <2>2, Priorities DEF key
    <3>2. LevelHeld(s, A, B, e, zabbixPriority[j + 1])
      BY <3>1 DEF LevelsHeld
    <3>3. FigureOf(d, zabbixPriority[j + 1]) = FigureOf(e, zabbixPriority[j + 1])
      BY <1>6, <3>1, FigureNoted
    <3>4. QED
      BY <3>2, <3>3 DEF LevelHeld
  <2>3. QED
    BY <2>1, <2>2
<1>8. NotCompared(d)
  <2>1. "total_ignoring_time_bound" # key
    BY Priorities DEF key
  <2>2. QED
    BY <1>6, <2>1, FigureNoted DEF NotCompared, LevelsHeld
<1>9. QED
  BY <1>5, <1>7, <1>8 DEF LevelsHeld

LEMMA LevelHolds == TypedInv /\ ZabbixInv /\ ZabbixLevel => ZabbixInv'
<1> SUFFICES ASSUME TypedInv, ZabbixInv, ZabbixLevel PROVE ZabbixInv'
  OBVIOUS
<1>1. pc = "level" /\ todo' = Tail(todo)
  BY LevelAction
<1>2. PICK k \in 0..5 : FromLevel(todo, k) /\ LevelsHeld(step, always, ever, evidence, k)
  BY <1>1 DEF ZabbixInv
<1>3. Head(todo) = k /\ Len(todo) = 6 - k /\ todo # <<>>
  BY <1>2 DEF FromLevel
<1> DEFINE n == Cardinality(At(step, rows, k))
           d == Noted(evidence, Entry(zabbixPriority[k + 1], n))
           e == LevelCounted(k)
<1>4. IF k = 5 THEN CensusDone(e, e.total) ELSE Continue(e, "level")
  BY <1>3, LevelAction
<1>5. /\ always \subseteq rows /\ rows \subseteq ever /\ IsFiniteSet(rows) /\ IsFiniteSet(ever)
      /\ \A r \in ever : r.level \in Levels
      /\ EvidenceTyped(evidence) /\ Shaped(evidence)
  BY <1>1, ZabbixRows DEF ZabbixPhases
<1>6. n \in Nat
  BY <1>5, MatchingGrows, FS_CardinalityType
<1>7. e = Summed(d, n)
  BY Zenon DEF LevelCounted, At, AtLevel
<1> HIDE DEF n
<1>8. /\ Shaped(d) /\ d.items = evidence.items /\ d.total = evidence.total
      /\ d.breakdown = evidence.breakdown
      /\ d.summary = Over(Entry(zabbixPriority[k + 1], n), evidence.summary)
  BY <1>5, NotedFields
<1>9. EvidenceTyped(d)
  BY <1>5, <1>6, EntryFigured, NotedTyped
<1> HIDE DEF d, e
<1>10. /\ Shaped(e) /\ e.items = d.items /\ e.total = d.total + n
       /\ e.breakdown = d.breakdown /\ e.summary = d.summary /\ e.truncated = d.truncated
  BY <1>7, <1>8, SummedFields
<1>11. EvidenceTyped(e)
  BY <1>6, <1>9, <1>10 DEF EvidenceTyped
<1>12. Adds(e, evidence, zabbixPriority[k + 1], n)
  BY <1>8, <1>10 DEF Adds
<1>13. LevelsHeld(step, always, ever, e, k + 1)
  <2>1. e.items = evidence.items /\ e.breakdown = evidence.breakdown /\ e.total = evidence.total + n
    BY <1>8, <1>10
  <2>2. QED
    BY <1>2, <1>5, <1>12, <2>1, LevelAdded DEF n
<1>14. CASE k = 5
  <2>1. LevelsHeld(step, always, ever, e, 6)
    BY <1>13, <1>14
  <2>2. Between(e.total, Matching(step, always), Matching(step, ever))
    <3>1. \A r \in always : r.level \in Levels
      BY <1>5
    <3>2. Below(step, always, 6) = Matching(step, always)
          /\ Below(step, ever, 6) = Matching(step, ever)
      BY <1>5, <3>1, LevelsOf
    <3>3. QED
      BY <2>1, <3>2 DEF LevelsHeld
  <2>3. \A l \in LevelNames : LevelHeld(step, always, ever, e, l)
    <3>1. \A j \in 0..5 : LevelHeld(step, always, ever, e, zabbixPriority[j + 1])
      BY <2>1 DEF LevelsHeld
    <3>2. QED
      BY <3>1, Priorities
  <2>4. /\ e.items \subseteq Matching(step, ever) /\ e.breakdown = EmptyTable /\ NotCompared(e)
        /\ e.total \in Nat
    BY <1>11, <2>1 DEF LevelsHeld, EvidenceTyped
  <2>5. BaseHeld(step, always, ever, Settled(Judged(e, e.total)))
    BY <1>5, <1>11, <2>2, <2>3, <2>4, SettledHeld
  <2>6. QED
    BY <1>4, <1>11, <1>14, <2>4, <2>5, FromCensus
<1>15. CASE k # 5
  <2>1. FromLevel(todo', k + 1)
    BY <1>1, <1>2, <1>3, <1>15 DEF FromLevel
  <2>2. k + 1 \in 0..5 /\ Continue(e, "level")
    BY <1>4, <1>15
  <2>3. QED
    BY <1>13, <2>1, <2>2, ZabbixNext
<1>16. QED
  BY <1>14, <1>15

LEMMA HostHolds == TypedInv /\ ZabbixInv /\ ZabbixHostExists => ZabbixInv'
<1> SUFFICES ASSUME TypedInv, ZabbixInv, ZabbixHostExists PROVE ZabbixInv'
  OBVIOUS
<1>1. PICK result \in {{step.host} \cap site.hosts, {}} :
        Continue(Noted(evidence, Entry("host_known", Cardinality(result))),
                 AfterHost(Noted(evidence, Entry("host_known", Cardinality(result)))))
  BY Zenon DEF ZabbixHostExists
<1>2. BaseHeld(step, always, ever, evidence) /\ evidence.total = 0 /\ Shaped(evidence)
  BY DEF ZabbixHostExists, ZabbixInv, TypedInv, SourceInv, EvidenceTyped
<1>3. Cardinality(result) = 1 => step.host \in site.hosts
  <2>1. CASE result = {}
    BY <2>1, FS_EmptySet
  <2>2. CASE result # {}
    BY <1>1, <2>2
  <2>3. QED
    BY <2>1, <2>2
<1> DEFINE n == Cardinality(result)
           e == Noted(evidence, Entry("host_known", n))
<1>4. /\ e.items = evidence.items /\ e.total = evidence.total /\ e.truncated = evidence.truncated
      /\ e.breakdown = evidence.breakdown
         /\ e.summary = Over(Entry("host_known", n), evidence.summary)
  <2> HIDE DEF n
  <2>1. QED
    BY <1>2, NotedFields
<1>5. Continue(e, AfterHost(e))
  BY <1>1
<1> HIDE DEF n, e
<1>6. Adds(e, evidence, "host_known", n)
  BY <1>4 DEF Adds
<1>7. CountsHeld(step, always, ever, e) /\ MarkHeld(step, ever, e)
  BY <1>2, <1>4, <1>6, NotedHeld DEF BaseHeld
<1>8. NotCompared(e)
  BY <1>2, <1>6, FigureNoted DEF BaseHeld, NotCompared
<1>9. "host_known" \in DOMAIN e.summary /\ e.summary["host_known"] = n
  <2>1. "host_known" \in DOMAIN e.summary /\ FigureOf(e, "host_known") = n
    BY <1>6, FigureNoted
  <2>2. QED
    BY <2>1 DEF FigureOf
<1>10. KnownHeld(step, site.hosts, e)
  BY <1>3, <1>9 DEF KnownHeld, n
<1>11. e.total \in Nat
  BY <1>2, <1>4
<1>12. QED
  BY <1>5, <1>7, <1>8, <1>10, <1>11, ToHosts DEF BaseHeld

LEMMA NotMore == ASSUME NEW a \in Nat, NEW b \in Nat, ~(a > b) PROVE a <= b
  OBVIOUS

\* A census that is not as long as its cap, or is as long as the total, is all.
LEMMA NotCut ==
  ASSUME NEW r \in Nat, NEW m \in Nat, NEW cap \in Nat, r = IF cap <= m THEN cap ELSE m,
         ~(r >= cap /\ m > r)
  PROVE  r = m
  OBVIOUS

\* The hosts of the rows the census of hosts looked at, when nothing moved.
LEMMA HostsCounted ==
  ASSUME NEW M, IsFiniteSet(M), NEW R \in kSubset(Min({HostCensusCap, Cardinality(M)}), M),
         NEW named \in kSubset(Min({BreakdownHosts, Cardinality(HostsOf(R))}), HostsOf(R)),
         NEW warnings, NEW texts,
         warnings = texts \cup HostWarnings(HostsOf(R), Cardinality(R), Cardinality(M))
  PROVE  HostsRight(M, Cardinality(HostsOf(R)),
                    [h \in named |-> Cardinality(OfHost(R, h))], warnings)
<1> DEFINE t == [h \in named |-> Cardinality(OfHost(R, h))]
           short == HostWarnings(HostsOf(R), Cardinality(R), Cardinality(M))
<1>1. R \subseteq M /\ Cardinality(R) = Min({HostCensusCap, Cardinality(M)})
  BY DEF kSubset
<1>2. /\ IsFiniteSet(R) /\ Cardinality(M) \in Nat /\ Cardinality(R) \in Nat
      /\ IsFiniteSet(HostsOf(R)) /\ IsFiniteSet(HostsOf(M))
      /\ Cardinality(HostsOf(R)) \in Nat /\ Cardinality(HostsOf(M)) \in Nat
  BY <1>1, PartCounted, HostsFinite, FS_CardinalityType
<1>3. Cardinality(HostsOf(R)) <= Cardinality(HostsOf(M))
  <2>1. HostsOf(R) \subseteq HostsOf(M)
    BY <1>1 DEF HostsOf
  <2>2. QED
    BY <1>2, <2>1, FS_Subset
<1>4. \A h : Cardinality(OfHost(R, h)) <= Cardinality(OfHost(M, h))
  <2> SUFFICES ASSUME NEW h PROVE Cardinality(OfHost(R, h)) <= Cardinality(OfHost(M, h))
    OBVIOUS
  <2>1. OfHost(R, h) \subseteq OfHost(M, h) /\ OfHost(M, h) \subseteq M
    BY <1>1 DEF OfHost
  <2>2. QED
    BY <2>1, FS_Subset
<1>5. "hosts are a floor" \notin warnings => R = M
  <2> SUFFICES ASSUME "hosts are a floor" \notin warnings PROVE R = M
    OBVIOUS
  <2>1. ~(Cardinality(R) >= HostCensusCap /\ Cardinality(M) > Cardinality(R))
    BY DEF HostWarnings
  <2>2. Cardinality(R) = IF HostCensusCap <= Cardinality(M) THEN HostCensusCap ELSE Cardinality(M)
    BY <1>1, <1>2, Smaller, CensusAssumption
  <2> DEFINE r == Cardinality(R)
             m == Cardinality(M)
  <2>3. r \in Nat /\ m \in Nat /\ HostCensusCap \in Nat
    BY <1>2, CensusAssumption
  <2>4. ~(r >= HostCensusCap /\ m > r) /\ r = IF HostCensusCap <= m THEN HostCensusCap ELSE m
    BY <2>1, <2>2
  <2> HIDE DEF r, m
  <2>5. r = m
    BY <2>3, <2>4, NotCut, Zenon
  <2>6. QED
    BY <1>1, <2>5, FS_Subset DEF r, m
<1>6. "hosts not all named" \notin warnings => named = HostsOf(R)
  <2> SUFFICES ASSUME "hosts not all named" \notin warnings PROVE named = HostsOf(R)
    OBVIOUS
  <2>1. ~(Cardinality(HostsOf(R)) > BreakdownHosts)
    BY DEF HostWarnings
  <2>2. Cardinality(HostsOf(R)) <= BreakdownHosts
    <3> DEFINE n == Cardinality(HostsOf(R))
    <3>1. n \in Nat /\ BreakdownHosts \in Nat /\ ~(n > BreakdownHosts)
      BY <1>2, <2>1, CensusAssumption
    <3> HIDE DEF n
    <3>2. n <= BreakdownHosts
      BY <3>1, NotMore, Zenon
    <3>3. QED
      BY <3>2 DEF n
  <2>3. QED
    BY <1>2, <2>2, FullTop, CensusAssumption
<1>7. DOMAIN t = named /\ \A h \in named : t[h] = Cardinality(OfHost(R, h))
  OBVIOUS
<1> HIDE DEF t
<1>8. HostsRight(M, Cardinality(HostsOf(R)), t, warnings)
  <2>1. "hosts are a floor" \notin warnings => Cardinality(HostsOf(R)) = Cardinality(HostsOf(M))
    BY <1>5
  <2>2. warnings \cap {"hosts are a floor", "hosts not all named"} = {} => DOMAIN t = HostsOf(M)
    BY <1>5, <1>6, <1>7
  <2>3. \A h \in DOMAIN t :
          /\ t[h] <= Cardinality(OfHost(M, h))
          /\ "hosts are a floor" \notin warnings => t[h] = Cardinality(OfHost(M, h))
    BY <1>4, <1>5, <1>7
  <2>4. QED
    BY <1>3, <2>1, <2>2, <2>3 DEF HostsRight
<1>9. QED
  BY <1>8 DEF t

\* The fields of an answer with the table of its hosts.
LEMMA BreakdownFields ==
  ASSUME Shaped(evidence), NEW R, NEW named, NEW d, d = BreakdownOf(R, named)
  PROVE  /\ d.items = evidence.items /\ d.total = evidence.total /\ d.truncated = evidence.truncated
         /\ Adds(d, evidence, "hosts_affected", Cardinality(HostsOf(R)))
         /\ d.breakdown = Entry("events_by_host", [h \in named |-> Cardinality(OfHost(R, h))])
         /\ d.warnings = evidence.warnings \cup HostWarnings(HostsOf(R),
            Cardinality(R), evidence.total)
<1> DEFINE n == Cardinality(HostsOf(R))
           t == Entry("events_by_host", [h \in named |-> Cardinality(OfHost(R, h))])
           w == HostWarnings(HostsOf(R), Cardinality(R), evidence.total)
           f == Noted(evidence, Entry("hosts_affected", n))
           g == BrokenDown(f, t)
<1>1. d = Warned(g, w)
  BY Zenon DEF BreakdownOf, OfHost
<1> HIDE DEF n, t, w
<1>2. /\ Shaped(f) /\ f.items = evidence.items /\ f.total = evidence.total
      /\ f.truncated = evidence.truncated /\ f.warnings = evidence.warnings
      /\ f.summary = Over(Entry("hosts_affected", n), evidence.summary)
  BY NotedFields
<1> HIDE DEF f
<1>3. /\ Shaped(g) /\ g.items = f.items /\ g.total = f.total /\ g.truncated = f.truncated
      /\ g.summary = f.summary /\ g.breakdown = t /\ g.warnings = f.warnings
  BY <1>2, BrokenDownFields
<1> HIDE DEF g
<1>4. /\ d.items = g.items /\ d.total = g.total /\ d.truncated = g.truncated
      /\ d.summary = g.summary /\ d.breakdown = g.breakdown /\ d.warnings = g.warnings \cup w
  BY <1>1, <1>3, WarnedFields
<1>5. /\ d.items = evidence.items /\ d.total = evidence.total /\ d.truncated = evidence.truncated
      /\ d.summary = Over(Entry("hosts_affected", n), evidence.summary)
      /\ d.breakdown = t /\ d.warnings = evidence.warnings \cup w
  BY <1>2, <1>3, <1>4
<1>6. Adds(d, evidence, "hosts_affected", n)
  BY <1>5 DEF Adds
<1>7. QED
  BY <1>5, <1>6, Zenon DEF n, t, w

LEMMA BreakdownHolds == TypedInv /\ ZabbixInv /\ ZabbixBreakdown => ZabbixInv'
<1> SUFFICES ASSUME TypedInv, ZabbixInv, ZabbixBreakdown PROVE ZabbixInv'
  OBVIOUS
<1>1. pc = "breakdown"
  BY DEF ZabbixBreakdown
<1>2. /\ always \subseteq rows /\ rows \subseteq ever /\ IsFiniteSet(rows) /\ IsFiniteSet(ever)
      /\ EvidenceTyped(evidence) /\ Shaped(evidence)
  BY <1>1, ZabbixRows DEF ZabbixPhases
<1>3. BaseHeld(step, always, ever, evidence) /\ evidence.truncated /\ evidence.total \in Nat
  BY <1>1, <1>2 DEF ZabbixInv, EvidenceTyped
<1> DEFINE M == Matching(step, rows)
<1>4. PICK R \in kSubset(Min({HostCensusCap, Cardinality(M)}), M) :
      \E named \in kSubset(Min({BreakdownHosts, Cardinality(HostsOf(R))}), HostsOf(R)) :
        Continue(BreakdownOf(R, named), AfterBreakdown)
  BY <1>2, BreakdownAction, CensusAssumption
<1>5. PICK named \in kSubset(Min({BreakdownHosts, Cardinality(HostsOf(R))}), HostsOf(R)) :
        Continue(BreakdownOf(R, named), AfterBreakdown)
  BY <1>4
<1> DEFINE d == BreakdownOf(R, named)
           n == Cardinality(HostsOf(R))
           t == [h \in named |-> Cardinality(OfHost(R, h))]
           w == HostWarnings(HostsOf(R), Cardinality(R), evidence.total)
<1>6. /\ d.items = evidence.items /\ d.total = evidence.total /\ d.truncated = evidence.truncated
      /\ Adds(d, evidence, "hosts_affected", n) /\ d.breakdown = Entry("events_by_host", t)
      /\ d.warnings = evidence.warnings \cup w
  <2>1. d = BreakdownOf(R, named)
    OBVIOUS
  <2> HIDE DEF d
  <2>2. QED
    BY <1>2, <2>1, BreakdownFields, Zenon
<1>7. always = ever => HostsRight(Matching(step, ever), n, t, d.warnings)
  <2> SUFFICES ASSUME always = ever PROVE HostsRight(Matching(step, ever), n, t, d.warnings)
    OBVIOUS
  <2>1. rows = ever
    BY <1>2
  <2>2. IsFiniteSet(M) /\ Cardinality(M) \in Nat
    BY <1>2, MatchingGrows, FS_CardinalityType
  <2>3. evidence.total = Cardinality(M)
    <3>1. Between(evidence.total, M, M)
      BY <1>3, <2>1 DEF BaseHeld, CountsHeld
    <3>2. QED
      BY <1>3, <2>2, <3>1 DEF Between
  <2>4. d.warnings = evidence.warnings \cup HostWarnings(HostsOf(R), Cardinality(R), Cardinality(M))
    BY <1>6, <2>3, Zenon DEF w
  <2> HIDE DEF d
  <2>5. HostsRight(M, Cardinality(HostsOf(R)),
        [h \in named |-> Cardinality(OfHost(R, h))], d.warnings)
    BY <2>2, <2>4, HostsCounted
  <2>6. QED
    BY <2>1, <2>5, Zenon DEF M, n, t
<1>8. Continue(d, AfterBreakdown)
  BY <1>5
<1> HIDE DEF d, n, t, w
<1>9. /\ "events_by_host" \in DOMAIN d.breakdown /\ d.breakdown["events_by_host"] = t
  <2>1. LET u == Entry("events_by_host", t)
        IN  "events_by_host" \in DOMAIN u /\ u["events_by_host"] = t
    BY EntryTable
  <2>2. QED
    BY <1>6, <2>1
<1>10. "hosts_affected" \in DOMAIN d.summary /\ d.summary["hosts_affected"] = n
  <2>1. "hosts_affected" \in DOMAIN d.summary /\ FigureOf(d, "hosts_affected") = n
    BY <1>6, FigureNoted
  <2>2. QED
    BY <2>1 DEF FigureOf
<1>11. HostsHeld(step, always, ever, d)
  <2>1. HostTable(d) = t
    BY <1>9 DEF HostTable
  <2>2. QED
    BY <1>7, <1>10, <2>1 DEF HostsHeld
<1>12. CountsHeld(step, always, ever, d)
  <2>1. \A l \in LevelNames : l # "hosts_affected"
    BY Priorities
  <2>2. \A l \in LevelNames : FigureOf(d, l) = FigureOf(evidence, l)
    BY <1>6, <2>1, FigureNoted
  <2>3. QED
    BY <1>3, <1>6, <2>2, CountsSame DEF BaseHeld
<1>13. MarkHeld(step, ever, d)
  BY <1>3, <1>6 DEF BaseHeld, MarkHeld
<1>14. NotCompared(d)
  <2>1. "total_ignoring_time_bound" # "hosts_affected"
    OBVIOUS
  <2>2. QED
    BY <1>3, <1>6, <2>1, FigureNoted DEF BaseHeld, NotCompared
<1>15. KnownHeld(step, site.hosts, d)
  <2>1. d.total # 0
    <3>1. Cardinality(evidence.items) \in Nat
      BY <1>2, FS_Subset, FS_CardinalityType DEF EvidenceTyped
    <3>2. evidence.total > Cardinality(evidence.items)
      BY <1>3 DEF BaseHeld, MarkHeld
    <3>3. QED
      BY <1>3, <1>6, <3>1, <3>2
  <2>2. QED
    BY <2>1 DEF KnownHeld
<1>16. QED
  BY <1>8, <1>11, <1>12, <1>13, <1>14, <1>15, ToCompare DEF BaseHeld

LEMMA CompareHolds == TypedInv /\ ZabbixInv /\ ZabbixCompare => ZabbixInv'
<1> SUFFICES ASSUME TypedInv, ZabbixInv, ZabbixCompare PROVE ZabbixInv'
  OBVIOUS
<1>1. pc = "compare"
  BY DEF ZabbixCompare
<1>2. /\ always \subseteq rows /\ rows \subseteq ever /\ IsFiniteSet(rows) /\ IsFiniteSet(ever)
      /\ EvidenceTyped(evidence) /\ Shaped(evidence)
  BY <1>1, ZabbixRows DEF ZabbixPhases
<1>3. /\ BaseHeld(step, always, ever, evidence) /\ HostsHeld(step, always, ever, evidence)
      /\ KnownHeld(step, site.hosts, evidence) /\ evidence.total \in Nat
  BY <1>1, <1>2 DEF ZabbixInv, EvidenceTyped
<1> DEFINE n == Cardinality(Selected(step, rows))
           key == "total_ignoring_time_bound"
           e == Noted(evidence, Entry(key, n))
           w == {x \in {"the window excludes problems"} : n > evidence.total}
           d == Warned(e, w)
<1>4. Continue(d, "idle")
  BY Zenon DEF ZabbixCompare, Answer
<1>5. n \in Nat /\ Between(n, Selected(step, always), Selected(step, ever))
  <2>1. /\ Selected(step, always) \subseteq Selected(step, rows)
        /\ Selected(step, rows) \subseteq Selected(step, ever)
        /\ IsFiniteSet(Selected(step, rows)) /\ IsFiniteSet(Selected(step, ever))
    BY <1>2, MatchingGrows
  <2>2. QED
    BY <2>1, BetweenSets, FS_CardinalityType
<1>6. /\ n > evidence.total => "the window excludes problems" \in w
      /\ w \cap {"hosts are a floor", "hosts not all named"} = {}
  <2> HIDE DEF n
  <2>1. QED
    OBVIOUS
<1> HIDE DEF n, w
<1>7. /\ Shaped(e) /\ e.items = evidence.items /\ e.total = evidence.total
      /\ e.truncated = evidence.truncated /\ e.breakdown = evidence.breakdown
      /\ e.warnings = evidence.warnings /\ e.summary = Over(Entry(key, n), evidence.summary)
  BY <1>2, NotedFields
<1> HIDE DEF e
<1>8. /\ d.items = e.items /\ d.total = e.total /\ d.truncated = e.truncated
      /\ d.breakdown = e.breakdown /\ d.summary = e.summary /\ d.warnings = e.warnings \cup w
  BY <1>7, WarnedFields
<1> HIDE DEF d
<1>9. /\ d.items = evidence.items /\ d.total = evidence.total /\ d.truncated = evidence.truncated
      /\ d.breakdown = evidence.breakdown /\ d.warnings = evidence.warnings \cup w
      /\ Adds(d, evidence, key, n)
  BY <1>7, <1>8 DEF Adds
<1>10. /\ CountsHeld(step, always, ever, d) /\ MarkHeld(step, ever, d)
       /\ HostTable(d) = HostTable(evidence)
  BY <1>3, <1>9, NotedHeld DEF BaseHeld
<1>11. KnownHeld(step, site.hosts, d)
  <2>1. "host_known" # key
    OBVIOUS
  <2>2. "host_known" \in DOMAIN evidence.summary =>
          "host_known" \in DOMAIN d.summary
          /\ d.summary["host_known"] = evidence.summary["host_known"]
    BY <1>9, <2>1, FigureNoted
  <2>3. QED
    BY <1>3, <1>9, <2>2 DEF KnownHeld
<1>12. HostsHeld(step, always, ever, d)
  <2>3. /\ "hosts_affected" \in DOMAIN d.summary
        /\ d.summary["hosts_affected"] = evidence.summary["hosts_affected"]
    <3>1. "hosts_affected" # key
      OBVIOUS
    <3>2. QED
      BY <1>3, <1>9, <3>1, FigureNoted DEF HostsHeld
  <2> SUFFICES ASSUME always = ever
               PROVE  HostsRight(Matching(step, ever),
                      d.summary["hosts_affected"], HostTable(d), d.warnings)
    BY <2>3 DEF HostsHeld
  <2>1. HostsRight(Matching(step, ever), evidence.summary["hosts_affected"], HostTable(evidence),
                   evidence.warnings)
    BY <1>3 DEF HostsHeld
  <2>2. HostsRight(Matching(step, ever), evidence.summary["hosts_affected"],
        HostTable(evidence), d.warnings)
    BY <1>6, <1>9, <2>1 DEF HostsRight
  <2>4. QED
    BY <1>10, <2>2, <2>3
<1>13. key \in DOMAIN d.summary /\ d.summary[key] = n
  <2>1. key \in DOMAIN d.summary /\ FigureOf(d, key) = n
    BY <1>9, FigureNoted
  <2>2. QED
    BY <2>1 DEF FigureOf
<1>14. ComparedHeld(step, always, ever, d)
  BY <1>5, <1>13 DEF ComparedHeld
<1>15. WindowHeld(step, rows, ever, d)
  <2>1. CASE n > evidence.total
    BY <1>6, <1>9, <2>1 DEF WindowHeld
  <2>2. CASE ~(n > evidence.total)
    <3>1. evidence.total <= Cardinality(Matching(step, ever))
      BY <1>3 DEF BaseHeld, CountsHeld, Between
    <3>2. Cardinality(Matching(step, ever)) \in Nat
      BY <1>2, MatchingGrows, FS_CardinalityType
    <3>3. n <= Cardinality(Matching(step, ever))
      BY <1>3, <1>5, <2>2, <3>1, <3>2
    <3>4. QED
      BY <3>3 DEF WindowHeld, n
  <2>3. QED
    BY <2>1, <2>2
<1>16. DoneHeld(step, always, rows, ever, site.hosts, d)
  BY <1>10, <1>11, <1>12, <1>14, <1>15 DEF DoneHeld
<1>17. QED
  BY <1>4, <1>16, ZabbixNext

LEMMA ZabbixHolds == TypedInv /\ ZabbixInv /\ [Next]_vars => ZabbixInv'
<1> SUFFICES ASSUME TypedInv, ZabbixInv, [Next]_vars PROVE ZabbixInv'
  OBVIOUS
<1>1. CASE ZabbixStep
  BY <1>1, PageHolds, CensusHolds, OverflowHolds, LevelHolds, HostHolds, BreakdownHolds,
     CompareHolds DEF ZabbixStep
<1>2. CASE Working /\ ~ZabbixStep
  <2>1. step'.source # "zabbix-api"
    BY <1>2, Workers DEF Working, work
  <2>2. AnswerInv'
    BY TypedStep DEF TypedInv
  <2>3. pc' \notin ZabbixPhases
    BY <2>1, <2>2 DEF AnswerInv, PhaseInv
  <2>4. QED
    BY <2>1, <2>3 DEF ZabbixInv, ZabbixPhases
<1>3. CASE ~Working /\ pc' = "idle"
  <2> SUFFICES ASSUME evidence'.error = "none", step'.source = "zabbix-api"
               PROVE  DoneHeld(step, always, rows, ever, site.hosts, evidence)'
    BY <1>3 DEF ZabbixInv
  <2>1. pc = "idle" /\ UNCHANGED <<site, step, evidence, held>>
    BY <1>3, AtRest
  <2>2. DoneHeld(step, always, rows, ever, site.hosts, evidence)
    BY <2>1 DEF ZabbixInv
  <2>3. QED
    BY <2>1, <2>2 DEF held
<1>4. CASE ~Working /\ pc' # "idle"
  <2>1. CASE pc' \in {FirstRequest[s] : s \in Sources}
    <3>1. pc' \notin {"census", "level", "host", "breakdown", "compare", "idle"}
      BY <2>1 DEF FirstRequest, Sources
    <3>2. QED
      BY <3>1 DEF ZabbixInv
  <2>2. CASE pc' \notin {FirstRequest[s] : s \in Sources}
    <3>1. /\ pc' = pc /\ UNCHANGED <<site, step, evidence, todo>>
          /\ always' \subseteq always /\ ever \subseteq ever'
          /\ always' = ever' => UNCHANGED held
      BY <1>4, <2>2, InFlight
    <3>2. IsFiniteSet(always) /\ IsFiniteSet(ever') /\ EvidenceTyped(evidence)
      <4>1. IsFiniteSet(always) /\ EvidenceTyped(evidence)
        BY FS_Subset DEF TypedInv, AnswerInv, RowsInv, SourceInv
      <4>2. IsFiniteSet(ever)'
        BY TypedStep DEF TypedInv, SourceInv, HistoryInv
      <4>3. QED
        BY <4>1, <4>2
    <3>3. /\ CountsHeld(step, always, ever, evidence) => CountsHeld(step, always', ever', evidence)
          /\ MarkHeld(step, ever, evidence) => MarkHeld(step, ever', evidence)
          /\ PageHeld(step, ever, evidence) => PageHeld(step, ever', evidence)
          /\ \A k \in 0..5 : LevelsHeld(step, always, ever, evidence, k) =>
                               LevelsHeld(step, always', ever', evidence, k)
      BY <3>1, <3>2, HeldLater
    <3>4. HostsHeld(step, always, ever, evidence) => HostsHeld(step, always', ever', evidence)
      BY <3>1 DEF HostsHeld, held
    <3>5. /\ BaseHeld(step, always, ever, evidence) => BaseHeld(step, always', ever', evidence)
      BY <3>3 DEF BaseHeld
    <3>6. QED
      BY <1>4, <3>1, <3>3, <3>4, <3>5 DEF ZabbixInv
  <2>3. QED
    BY <2>1, <2>2
<1>5. QED
  BY <1>1, <1>2, <1>3, <1>4

\* What the evidence of a Zabbix step has before each of its requests, and in
\* its answer, is true of the source in the course of the step: the invariant
\* the theorems below rest on (Execute and executeEvents, zabbix.go:107).
THEOREM ZabbixAlways == Spec => [](TypedInv /\ ZabbixInv)
<1>1. Init => TypedInv /\ ZabbixInv
  BY TypedInit, NothingAsked DEF ZabbixInv, Init, ConnectorInit
<1>2. (TypedInv /\ ZabbixInv) /\ [Next]_vars => (TypedInv /\ ZabbixInv)'
  BY TypedStep, ZabbixHolds
<1>3. QED
  BY <1>1, <1>2, PTL DEF Spec

\* An answer of the Zabbix connector, at rest.
LEMMA ZabbixAnswer ==
  ASSUME TypedInv, ZabbixInv, Answered("zabbix-api")
  PROVE  /\ DoneHeld(step, always, rows, ever, site.hosts, evidence) /\ evidence.total \in Nat
         /\ always \subseteq rows /\ rows \subseteq ever /\ IsFiniteSet(ever)
         /\ always = ever => rows = ever
<1>1. DoneHeld(step, always, rows, ever, site.hosts, evidence)
  BY DEF ZabbixInv, Answered
<1>2. /\ evidence.total \in Nat /\ always \subseteq rows /\ rows \subseteq ever /\ IsFiniteSet(ever)
  BY DEF TypedInv, AnswerInv, RowsInv, SourceInv, HistoryInv, EvidenceTyped
<1>3. QED
  BY <1>1, <1>2

\* The total, each severity and the count without the time bound are numbers
\* the source had in the course of the step (census and exactCensus,
\* zabbix.go:690).
THEOREM ProblemsCounted == Spec => []ProblemCountsAreOfTheStep
<1>1. TypedInv /\ ZabbixInv => ProblemCountsAreOfTheStep
  <2> SUFFICES ASSUME TypedInv, ZabbixInv, Answered("zabbix-api")
               PROVE  /\ Between(evidence.total, Matching(step, always), Matching(step, ever))
                      /\ \A l \in LevelNames :
                           Between(FigureOf(evidence, l),
                           OfLevel(step, always, l), OfLevel(step, ever, l))
                      /\ "total_ignoring_time_bound" \in DOMAIN evidence.summary =>
                           Between(evidence.summary["total_ignoring_time_bound"],
                                   Selected(step, always), Selected(step, ever))
    BY Zenon DEF ProblemCountsAreOfTheStep, Between, Bounded, Figures, FigureOf, OfLevel
  <2>1. DoneHeld(step, always, rows, ever, site.hosts, evidence)
    BY ZabbixAnswer
  <2>2. QED
    BY <2>1 DEF DoneHeld, CountsHeld, LevelHeld, ComparedHeld
<1>2. QED
  BY <1>1, ZabbixAlways, PTL

\* Evidence that is not marked truncated lacks no more of the problems that
\* matched all through the step than it has of others, and of a source that did
\* not move it is every one: the census counts no fewer than matched all
\* through, and no more than are on the page (zabbix.go:174).
THEOREM ProblemsWhole == Spec => []UnmarkedProblemsAreWhole
<1>1. TypedInv /\ ZabbixInv => UnmarkedProblemsAreWhole
  <2> DEFINE S == Matching(step, always)
             I == evidence.items
  <2> SUFFICES ASSUME TypedInv, ZabbixInv, Answered("zabbix-api"), ~evidence.truncated
               PROVE  /\ I \subseteq Matching(step, ever)
                      /\ Cardinality(S \ I) <= Cardinality(I \ always)
    BY DEF UnmarkedProblemsAreWhole
  <2>1. /\ DoneHeld(step, always, rows, ever, site.hosts, evidence) /\ evidence.total \in Nat
        /\ always \subseteq ever /\ IsFiniteSet(ever)
    BY ZabbixAnswer
  <2>2. /\ I \subseteq Matching(step, ever) /\ ~(evidence.total > Cardinality(I))
        /\ Cardinality(S) <= evidence.total
    BY <2>1 DEF DoneHeld, MarkHeld, CountsHeld, Between
  <2>3. S \subseteq Matching(step, ever) /\ IsFiniteSet(Matching(step, ever))
    BY <2>1, MatchingGrows
  <2>4. /\ IsFiniteSet(S) /\ IsFiniteSet(I)
        /\ Cardinality(S) \in Nat /\ Cardinality(I) \in Nat
    BY <2>2, <2>3, PartCounted
  <2>5. S \ I = S \ (S \cap I) /\ I \ always = I \ (S \cap I)
    BY <2>2 DEF Matching, Selected
  <2> HIDE DEF S, I
  <2>6. Cardinality(S) <= Cardinality(I)
    BY <2>1, <2>2, <2>4
  <2>7. Cardinality(S \ (S \cap I)) <= Cardinality(I \ (S \cap I))
    BY <2>4, <2>6, Unshared
  <2>8. QED
    BY <2>2, <2>5, <2>7
<1>2. QED
  BY <1>1, ZabbixAlways, PTL

\* Of a source that did not move, the hosts are all named and counted, or a
\* warning says which of the two they are not (attachHostBreakdown,
\* zabbix.go:613).
THEOREM HostsKnown == Spec => []UnwarnedHostsAreAll
<1>1. TypedInv /\ ZabbixInv => UnwarnedHostsAreAll
  <2> DEFINE table == IF "events_by_host" \in DOMAIN evidence.breakdown
                      THEN evidence.breakdown["events_by_host"]
                      ELSE CountBy(evidence.items, HostsOf(evidence.items), HostOf)
             M == Matching(step, rows)
  <2> SUFFICES ASSUME TypedInv, ZabbixInv, Answered("zabbix-api"), always = ever
               PROVE  HostsRight(M, evidence.summary["hosts_affected"], table, evidence.warnings)
    BY DEF UnwarnedHostsAreAll, HostsRight, OfHost
  <2>1. DoneHeld(step, ever, rows, ever, site.hosts, evidence) /\ rows = ever
    BY ZabbixAnswer
  <2>2. HostsRight(M, evidence.summary["hosts_affected"], HostTable(evidence), evidence.warnings)
    BY <2>1 DEF DoneHeld, HostsHeld
  <2>3. HostTable(evidence) = table
    BY Zenon DEF HostTable, CountBy, HostOf, OfHost
  <2>4. QED
    BY <2>2, <2>3, Zenon
<1>2. QED
  BY <1>1, ZabbixAlways, PTL

\* A time bound that comes without a warning leaves out no more of the problems
\* firing when it is compared than it selected and saw clear: both counts are
\* of all it selects, but of two moments (compareAgainstNoTimeBound,
\* zabbix.go:471).
THEOREM WindowWarned == Spec => []WindowHidesNoMoreThanCleared
<1>1. TypedInv /\ ZabbixInv => WindowHidesNoMoreThanCleared
  <2> DEFINE S == Selected(step, rows)
             W == Matching(step, rows)
             M == Matching(step, ever)
  <2> SUFFICES ASSUME TypedInv, ZabbixInv, Answered("zabbix-api"), OnTriggers(step),
                      step.window # {}, "the window excludes problems" \notin evidence.warnings
               PROVE  Cardinality(S \ W) <= Cardinality(M \ rows)
    BY DEF WindowHidesNoMoreThanCleared, LeftOut
  <2>1. /\ DoneHeld(step, always, rows, ever, site.hosts, evidence)
        /\ rows \subseteq ever /\ IsFiniteSet(ever)
    BY ZabbixAnswer
  <2>2. Cardinality(S) <= Cardinality(M)
    BY <2>1 DEF DoneHeld, WindowHeld
  <2>3. IsFiniteSet(S) /\ IsFiniteSet(M)
    BY <2>1, FS_Subset, MatchingGrows
  <2>4. W \subseteq S /\ W \subseteq M /\ M \ W = M \ rows
    BY <2>1 DEF Matching, Selected
  <2> HIDE DEF S, W, M
  <2>5. QED
    BY <2>2, <2>3, <2>4, Unshared
<1>2. QED
  BY <1>1, ZabbixAlways, PTL

\* No problems on a named host: the evidence says whether Zabbix knows the
\* host, and says so of none that it does not have (zabbix.go:183).
THEOREM AbsenceExplained == Spec => []NoProblemsSaysWhetherKnown
<1>1. TypedInv /\ ZabbixInv => NoProblemsSaysWhetherKnown
  BY ZabbixAnswer DEF NoProblemsSaysWhetherKnown, DoneHeld, KnownHeld
<1>2. QED
  BY <1>1, ZabbixAlways, PTL
=============================================================================
