------------------------------- MODULE Wazuh -------------------------------
(***************************************************************************)
(* The Wazuh connector, wazuh.go: a token kept between calls, one reply    *)
(* about the agents, a list ordered by what matters and then cut, and      *)
(* counts computed from the reply.  An agent is [id, host, state,          *)
(* critical]; critical says that one of its groups is a critical group.    *)
(* A lower time bound, which the broker refuses on these steps, is left    *)
(* out, and so is the mutex: a session makes one call at a time.           *)
(***************************************************************************)
EXTENDS Connector

CONSTANTS
  WazuhMaxLimit, \* agents one reply may hold
  FleetItemCap,  \* agents named in the evidence of a whole fleet
  TokenTTL       \* ticks a cached token is used for

ASSUME TTLAssumption == TokenTTL \in Nat \ {0}

ASSUME FleetAssumption == WazuhMaxLimit \in Nat /\ FleetItemCap \in Nat

managerAgentID == 0

\* age is measured from tokenTime, issued from the manager's own clock.
\* Both stop at TokenTTL; a token that old, or none, is not used.
NoToken == [valid |-> FALSE, age |-> TokenTTL, issued |-> TokenTTL]
FreshToken == [valid |-> TRUE, age |-> 0, issued |-> 0]

WazuhRefusal(s) ==
  IF s.action = "agents.status" /\ s.host = 0 THEN "missing_host" ELSE "none"

Agents(s, R) == {a \in R : s.action = "agents.list" \/ a.host = s.host}

-----------------------------------------------------------------------------
(* normalizeAgents: critical agents that are down, others that are down,    *)
(* critical agents, the rest; by name within each.                          *)

itemRank(a) ==
  LET down == a.state \notin {"active", Absent}
  IN  CASE a.critical /\ site.groups /\ down -> 0
        [] ~(a.critical /\ site.groups) /\ down -> 1
        [] a.critical /\ site.groups /\ ~down -> 2
        [] OTHER -> 3

\* Mutant: the list is ordered by name alone.
ListBeforeByName(a, b) == a.host < b.host

ListBefore(a, b) ==
  itemRank(a) < itemRank(b) \/ (itemRank(a) = itemRank(b) /\ a.host < b.host)

\* The lists the evidence may name: there is one, as names are distinct.
FleetItems(s, P) ==
  IF s.action = "agents.list" THEN Top(P, FleetItemCap, ListBefore) ELSE {P}

-----------------------------------------------------------------------------
(* summarizeAgents: the manager's own record is not an agent.               *)

StateOf(a) == IF a.state = Absent THEN "unknown" ELSE a.state

CriticalKey ==
  [disconnected |-> "critical_disconnected", pending |-> "critical_pending",
   never_connected |-> "critical_never_connected", unknown |-> "critical_unknown"]

CriticalCounts(C) ==
  LET down == {a \in C : StateOf(a) # "active"}
      keys == {CriticalKey[StateOf(a)] : a \in down} \cup {"critical_disconnected"}
  IN  Over(Entry("critical_total", Cardinality(C)),
           CountBy(down, keys, LAMBDA a : CriticalKey[StateOf(a)]))

\* Mutant: the counts are of the agents listed.
summarizeListed(P) ==
  LET A == {a \in UNION FleetItems(step, P) : a.id # managerAgentID}
      t == Over(Entry("total", Cardinality(A)), CountBy(A, {StateOf(a) : a \in A}, StateOf))
  IN  IF site.groups THEN Over(CriticalCounts({a \in A : a.critical}), t) ELSE t

summarizeAgents(P) ==
  LET A == {a \in P : a.id # managerAgentID}
      t == Over(Entry("total", Cardinality(A)), CountBy(A, {StateOf(a) : a \in A}, StateOf))
  IN  IF site.groups THEN Over(CriticalCounts({a \in A : a.critical}), t) ELSE t

-----------------------------------------------------------------------------
\* Mutant: the time of the token is renewed each time it is used.
WazuhRenewToken ==
  /\ pc = "token"
  /\ token.age < TokenTTL
  /\ token' = [token EXCEPT !.age = 0]
  /\ Continue(evidence, "agents")
  /\ UNCHANGED todo

\* authenticate, with a cached token.
WazuhUseToken ==
  /\ pc = "token"
  /\ token.age < TokenTTL
  /\ Continue(evidence, "agents")
  /\ UNCHANGED <<todo, token>>

WazuhMustLogIn ==
  /\ pc = "token"
  /\ token.age = TokenTTL
  /\ Continue(evidence, "login")
  /\ UNCHANGED <<todo, token>>

\* authenticate, a request of its own; a failure keeps no token.
WazuhLogIn ==
  /\ pc = "login"
  /\ token' = FreshToken
  /\ Continue(evidence, "agents")
  /\ UNCHANGED todo

\* Mutant: a refused token is dropped and the call made again.
WazuhRetries ==
  /\ pc = "agents"
  /\ ~token.valid
  /\ token' = NoToken
  /\ Continue(evidence, "token")
  /\ UNCHANGED todo

\* A token the manager no longer honours is refused, and stays cached.
WazuhRejected ==
  /\ pc = "agents"
  /\ ~token.valid
  /\ Answer(Failed("rejected"))
  /\ UNCHANGED <<todo, token>>

WazuhAgents ==
  /\ pc = "agents"
  /\ token.valid
  /\ LET M == Agents(step, rows)
         Before(a, b) == a.id < b.id
     IN  \E P \in Top(M, WazuhMaxLimit, Before) : \E items \in FleetItems(step, P) :
           Answer(Warned([Noted(Blank, summarizeAgents(P)) EXCEPT
                            !.items = items, !.total = Cardinality(M),
                            !.truncated = Cardinality(M) > Cardinality(items)],
                         {w \in {"critical groups not evaluated"} : ~site.groups}))
  /\ UNCHANGED <<todo, token>>

\* External: a restart of the manager revokes the tokens it issued.
TokenRevoked ==
  /\ token.valid /\ token' = [token EXCEPT !.valid = FALSE]
  /\ UNCHANGED <<work, held, pc, todo, evidence>>

\* Time passes, between the steps of a session as during them.
Tick ==
  /\ token.issued < TokenTTL
  /\ token' = [token EXCEPT !.age = IF @ < TokenTTL THEN @ + 1 ELSE @,
                            !.issued = @ + 1]
  /\ UNCHANGED <<work, held, pc, todo, evidence>>

WazuhStep ==
  \/ WazuhUseToken \/ WazuhMustLogIn \/ WazuhLogIn \/ WazuhRejected \/ WazuhAgents
============================================================================
