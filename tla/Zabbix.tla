------------------------------- MODULE Zabbix -------------------------------
(***************************************************************************)
(* The Zabbix connector, zabbix.go: a page of problems, a census of all    *)
(* that match by severity, a census of their hosts when the page is short, *)
(* the existence of a host that has none, and the same count without the   *)
(* time bound.  A row is [id, host, level, at, state]; a trigger's host is *)
(* always known.  The substring filter narrows the rows as the host does   *)
(* and is left out.                                                        *)
(***************************************************************************)
EXTENDS Connector

CONSTANTS
  CensusCap,      \* maxCensusRows
  HostCensusCap,  \* maxHostCensusRows
  BreakdownHosts  \* maxBreakdownHosts

ASSUME CensusAssumption ==
  CensusCap \in Nat /\ HostCensusCap \in Nat /\ BreakdownHosts \in Nat

zabbixPriority ==
  <<"not classified", "information", "warning", "average", "high", "disaster">>

Severity(r) == zabbixPriority[r.level + 1]

OnTriggers(s) == s.action = "trigger.get"

\* What applySelectors asks for, without the time bound.
Selected(s, R) ==
  {r \in R : /\ s.host \in {0, r.host}
             /\ r.level >= s.floor
             /\ s.state \in {Absent, r.state}}

Matching(s, R) == {r \in Selected(s, R) : InWindow(s, r)}

ZabbixRefusal(s) ==
  IF OnTriggers(s) /\ s.state # Absent THEN "unsupported_filter" ELSE "none"

\* The page is sorted by severity, or by time under a lower time bound and
\* on the event log.
PageBefore(a, b) ==
  IF OnTriggers(step) /\ ~step.since THEN a.level > b.level ELSE a.at > b.at

Later(a, b) == a.at > b.at

-----------------------------------------------------------------------------
(* What is asked next, by what the step and the page call for.              *)

\* Mutant: only a lower bound is compared with no bound at all.
AfterBreakdownSince == IF OnTriggers(step) /\ step.since THEN "compare" ELSE "idle"

AfterBreakdown == IF OnTriggers(step) /\ step.window # {} THEN "compare" ELSE "idle"

AfterHost(e) == IF e.truncated THEN "breakdown" ELSE AfterBreakdown

\* Mutant: nothing is asked about a host without problems.
AfterCensusNoHost(e) == AfterHost(e)

AfterCensus(e) ==
  IF OnTriggers(step) /\ step.host # 0 /\ e.total = 0 THEN "host" ELSE AfterHost(e)

\* countHostsInPage, when the page holds every matching row.
Settled(e) ==
  IF e.truncated THEN e
  ELSE Noted(e, Entry("hosts_affected", Cardinality(HostsOf(e.items))))

CensusDone(e, total) == LET f == Settled(Judged(e, total)) IN Continue(f, AfterCensus(f))

-----------------------------------------------------------------------------
ZabbixPage ==
  /\ pc = "page"
  /\ \E page \in Top(Matching(step, rows), step.limit, PageBefore) :
       Continue(Page(page), "census")
  /\ UNCHANGED <<todo, token>>

\* Mutant: the census keeps the limit of the page.
ZabbixCensusOfPage ==
  /\ pc = "census"
  /\ \E M \in Top(Matching(step, rows), step.limit, PageBefore) :
       CensusDone(Noted(evidence, CountBy(M, {Severity(r) : r \in M}, Severity)),
                  Cardinality(M))
  /\ UNCHANGED <<todo, token>>

\* Mutant: a census that hit its own ceiling is taken for the count.
ZabbixCensusCapped ==
  /\ pc = "census"
  /\ \E M \in Top(Matching(step, rows), CensusCap, PageBefore) :
       CensusDone(Noted(evidence, CountBy(M, {Severity(r) : r \in M}, Severity)),
                  Cardinality(M))
  /\ UNCHANGED <<todo, token>>

\* census: the severities of every matching row, in one reply.
ZabbixCensus ==
  /\ pc = "census"
  /\ LET M == Matching(step, rows)
     IN  /\ Cardinality(M) < CensusCap
         /\ CensusDone(Noted(evidence, CountBy(M, {Severity(r) : r \in M}, Severity)),
                       Cardinality(M))
  /\ UNCHANGED <<todo, token>>

\* A census as long as its ceiling may be cut: each level is counted apart.
ZabbixCensusOverflows ==
  /\ pc = "census"
  /\ Cardinality(Matching(step, rows)) >= CensusCap
  /\ Continue(evidence, "level")
  /\ todo' = <<0, 1, 2, 3, 4, 5>>
  /\ UNCHANGED token

\* One round of exactCensus; the total is the sum of the levels.
ZabbixLevel ==
  /\ pc = "level"
  /\ LET n == Cardinality({r \in Matching(step, rows) : r.level = Head(todo)})
         e == [Noted(evidence, Entry(zabbixPriority[Head(todo) + 1], n))
                 EXCEPT !.total = @ + n]
     IN  IF Len(todo) = 1 THEN CensusDone(e, e.total) ELSE Continue(e, "level")
  /\ todo' = Tail(todo)
  /\ UNCHANGED token

\* hostExists decodes the result alone: a reply that is an error has none,
\* and reads as a host Zabbix does not know.
ZabbixHostExists ==
  /\ pc = "host"
  /\ \E result \in {{step.host} \cap site.hosts, {}} :
       LET e == Noted(evidence, Entry("host_known", Cardinality(result)))
       IN  Continue(e, AfterHost(e))
  /\ UNCHANGED <<todo, token>>

\* attachHostBreakdown: the hosts of the most recent rows, the busiest named.
BusyBefore(counts, a, b) == counts[a] > counts[b] \/ (counts[a] = counts[b] /\ a < b)

\* The sets of hosts the table may name: there is one, as the order is total.
topHosts(counts) ==
  Top(DOMAIN counts, BreakdownHosts, LAMBDA a, b : BusyBefore(counts, a, b))

\* Mutant: the census of hosts does not say that it was cut.
HostWarningsNoFloor(hosts, examined, total) ==
  IF Cardinality(hosts) > BreakdownHosts THEN {"hosts not all named"} ELSE {}

HostWarnings(hosts, examined, total) ==
  {w \in {"hosts not all named", "hosts are a floor"} :
     IF w = "hosts not all named" THEN Cardinality(hosts) > BreakdownHosts
     ELSE examined >= HostCensusCap /\ total > examined}

ZabbixBreakdown ==
  /\ pc = "breakdown"
  /\ \E R \in Top(Matching(step, rows), HostCensusCap, Later) :
       LET counts == CountBy(R, HostsOf(R), HostOf)
           e == Noted(evidence, Entry("hosts_affected", Cardinality(HostsOf(R))))
       IN  \E named \in topHosts(counts) :
             Continue(Warned([e EXCEPT !.breakdown =
                                Entry("events_by_host", [h \in named |-> counts[h]])],
                             HostWarnings(HostsOf(R), Cardinality(R), e.total)),
                      AfterBreakdown)
  /\ UNCHANGED <<todo, token>>

\* compareAgainstNoTimeBound
ZabbixCompare ==
  /\ pc = "compare"
  /\ LET unbounded == Cardinality(Selected(step, rows))
         e == Noted(evidence, Entry("total_ignoring_time_bound", unbounded))
     IN  Answer(Warned(e, {w \in {"the window excludes problems"} : unbounded > evidence.total}))
  /\ UNCHANGED <<todo, token>>

ZabbixStep ==
  \/ ZabbixPage \/ ZabbixCensus \/ ZabbixCensusOverflows \/ ZabbixLevel
  \/ ZabbixHostExists \/ ZabbixBreakdown \/ ZabbixCompare
============================================================================
