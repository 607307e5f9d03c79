------------------------- MODULE ExecutorProperties -------------------------
(***************************************************************************)
(* What the evidence of a step promises about its source.  A source that   *)
(* moves while it is asked has no single answer: rows held all through the *)
(* step (always) and rows held at any time in it (ever) bound every figure *)
(* from below and above, and the two meet when nothing moved.              *)
(***************************************************************************)
EXTENDS Executor

\* An answer that is evidence, at rest.
Answered(source) == pc = "idle" /\ evidence.error = "none" /\ step.source = source

Bounded(n, Count(_)) == Count(always) <= n /\ n <= Count(ever)

Figures(names) == DOMAIN evidence.summary \cap names

\* Types of the executor and of the evidence it hands on.
TypeOK ==
  /\ pc \in {"idle", "page", "census", "level", "host", "breakdown", "compare", "token",
             "login", "agents", "search", "queue", "owner", "bound", "scan", "count", "reply"}
  /\ step.source \in Sources
  /\ evidence.items \subseteq ever
  /\ evidence.total \in Nat /\ evidence.truncated \in BOOLEAN
  /\ \A k \in DOMAIN evidence.summary : evidence.summary[k] \in Nat
  /\ token.valid \in BOOLEAN /\ token.age \in 0..TokenTTL /\ token.issued \in 0..TokenTTL
  /\ drift \in 0..MaxDrift /\ always \subseteq ever /\ rows \subseteq ever

-----------------------------------------------------------------------------
(* Zabbix                                                                   *)

LevelNames == {zabbixPriority[i] : i \in 1..6}

\* Every count of problems is one the source had in the course of the step:
\* the total, each severity, the count without the time bound.  A census cut
\* at its ceiling must not pass for a count (zabbix.go:690), and the requests
\* of one step see different moments (zabbix.go:174).
ProblemCountsAreOfTheStep ==
  Answered("zabbix-api") =>
    LET Total(R)    == Cardinality(Matching(step, R))
        Unbound(R)  == Cardinality(Selected(step, R))
        Level(R, l) == Cardinality({r \in Matching(step, R) : Severity(r) = l})
    IN  /\ Bounded(evidence.total, Total)
        /\ \A l \in LevelNames :
             LET n == IF l \in DOMAIN evidence.summary THEN evidence.summary[l] ELSE 0
             IN  Level(always, l) <= n /\ n <= Level(ever, l)
        /\ \A f \in Figures({"total_ignoring_time_bound"}) : Bounded(evidence.summary[f], Unbound)

\* Evidence that is not marked truncated lacks no more of the problems that
\* matched all through the step than it has of others, and has none that never
\* matched: of a source that did not move it is every one.  The page and the
\* census are of two moments, so a problem on the page that clears before the
\* census hides one that is not on the page (zabbix.go:174).
UnmarkedProblemsAreWhole ==
  Answered("zabbix-api") /\ ~evidence.truncated =>
    /\ evidence.items \subseteq Matching(step, ever)
    /\ Cardinality(Matching(step, always) \ evidence.items)
         <= Cardinality(evidence.items \ always)

\* When nothing moved, the hosts are all there and all counted, or a warning
\* says which of the two they are not (zabbix.go:613).
UnwarnedHostsAreAll ==
  Answered("zabbix-api") /\ always = ever =>
    LET M     == Matching(step, rows)
        table == IF "events_by_host" \in DOMAIN evidence.breakdown
                 THEN evidence.breakdown["events_by_host"]
                 ELSE CountBy(evidence.items, HostsOf(evidence.items), HostOf)
        exact == "hosts are a floor" \notin evidence.warnings
    IN  /\ evidence.summary["hosts_affected"] <= Cardinality(HostsOf(M))
        /\ exact => evidence.summary["hosts_affected"] = Cardinality(HostsOf(M))
        /\ exact /\ "hosts not all named" \notin evidence.warnings => DOMAIN table = HostsOf(M)
        /\ \A h \in DOMAIN table :
             LET n == Cardinality({r \in M : r.host = h})
             IN  table[h] <= n /\ (exact => table[h] = n)

\* The problems a time bound leaves out although they are firing when the
\* evidence is compared with no bound at all: their absence must not read as
\* health (zabbix.go:442).
LeftOut(R) == Selected(step, R) \ Matching(step, R)

\* A time bound on current problems that comes without a warning leaves out no
\* more of those firing at the end than it selected and saw clear in the course
\* of the step; when none cleared it leaves out none.  More than this the code
\* does not give: it compares two counts of different moments (zabbix.go:471),
\* so each problem that clears between them hides one that was left out.
WindowHidesNoMoreThanCleared ==
  Answered("zabbix-api") /\ OnTriggers(step) /\ step.window # {}
    /\ "the window excludes problems" \notin evidence.warnings =>
      Cardinality(LeftOut(rows)) <= Cardinality(Matching(step, ever) \ rows)

\* No problems on a named host: the evidence says whether Zabbix knows it, and
\* says so of no host it does not have, monitored or not (zabbix.go:183).
NoProblemsSaysWhetherKnown ==
  Answered("zabbix-api") /\ OnTriggers(step) /\ step.host # 0 /\ evidence.total = 0 =>
    /\ "host_known" \in DOMAIN evidence.summary
    /\ evidence.summary["host_known"] = 1 => step.host \in site.hosts

\* docs/adding-a-connector.md:208: a host-scoped query that returns nothing
\* records in host_known which of the two empty results it is.
EmptyResultSaysWhich ==
  Answered("zabbix-api") /\ step.host # 0 /\ evidence.total = 0 =>
    /\ "host_known" \in DOMAIN evidence.summary
    /\ evidence.summary["host_known"] = Cardinality({step.host} \cap site.hosts)

-----------------------------------------------------------------------------
(* Wazuh                                                                    *)

Down(a) == a.critical /\ a.state \notin {"active", Absent}

\* The critical agents that are down are all named, before any other agent is,
\* and all counted, unless the reply itself was short of the fleet; one that
\* was down all through the step is never dropped for one that is up
\* (wazuh.go:359).
DownCriticalAgentsAreNamed ==
  Answered("wazuh-api") /\ step.action = "agents.list" /\ site.groups
    /\ evidence.total <= WazuhMaxLimit =>
    LET named == {a \in evidence.items : Down(a)}
    IN  \/ {a \in always : Down(a)} \subseteq named
        \/ evidence.truncated /\ named = evidence.items

\* The fleet is counted whole when the reply held it whole: the agents, and
\* the critical ones by state, without the manager (wazuh.go:398).
FleetIsCountedWhole ==
  Answered("wazuh-api") /\ evidence.total <= WazuhMaxLimit =>
    LET Fleet(R) == {a \in Agents(step, R) : a.id # managerAgentID}
        Total(R) == Cardinality(Fleet(R))
        Lost(R)  == Cardinality({a \in Fleet(R) : a.critical /\ a.state = "disconnected"})
    IN  /\ Bounded(evidence.summary["total"], Total)
        /\ IF site.groups
           THEN Bounded(evidence.summary["critical_disconnected"], Lost)
           ELSE "critical groups not evaluated" \in evidence.warnings

\* The token a request carries was issued less than its lifetime before: a
\* manager that forgot it refuses the calls of no longer a time than that
\* (wazuh.go:256).
NoOldTokenIsSent == [][pc = "token" /\ pc' = "agents" => token'.issued < TokenTTL]_vars

-----------------------------------------------------------------------------
(* Request Tracker, PegasusDB, the endpoint agents                          *)

\* The counts per queue and per owner are of the step, whatever moved.
TicketCountsAreOfTheStep ==
  Answered("rt-api") =>
    \A name \in DOMAIN evidence.breakdown : \A k \in DOMAIN evidence.breakdown[name] :
      LET Has(t)   == k = IF name = "tickets_by_queue" THEN t.queue ELSE t.owner
          Count(R) == Cardinality({t \in OpenTickets(step, R) : Has(t)})
      IN  Bounded(evidence.breakdown[name][k], Count)

\* A table of owners that comes without a warning names owners of tickets that
\* matched, and leaves out no more of the tickets open all through the step
\* than its owners had others come or go in it: of a source that did not move
\* it has every owner, those of tickets off the page too.  The total and the
\* counts are of different moments, so a ticket filed between them for an owner
\* on the page makes up for one of an owner who is not (rt.go:250).  A page
\* whose tickets name no owner comes without a table.
UnwarnedOwnersAreAll ==
  Answered("rt-api") /\ Owners(evidence.items) # {}
    /\ evidence.warnings \cap {"owners capped", "owners are a floor"} = {} =>
      LET named  == DOMAIN Table(evidence, "tickets_by_owner")
          open   == OpenTickets(step, always)
          movers == OpenTickets(step, ever) \ open
      IN  /\ named \subseteq {t.owner : t \in OpenTickets(step, ever)}
          /\ Cardinality({t \in open : t.owner \notin named})
               <= Cardinality({t \in movers : t.owner \in named})

\* What a step asks for, of the sources that are asked for their rows once.
Wanted(R) ==
  CASE step.source = "wazuh-api" -> Agents(step, R)
    [] step.source = "rt-api" -> OpenTickets(step, R)
    [] step.source = "pegasus-db" -> R
    [] OTHER -> {}

\* Evidence that is not marked truncated holds every row that was there all
\* through the step, whatever moved between the rows and their count
\* (pegasusdb.go:167, rt.go:212, wazuh.go:211).
UnmarkedEvidenceIsWhole ==
  pc = "idle" /\ evidence.error = "none" /\ ~evidence.truncated =>
    Wanted(always) \subseteq evidence.items

\* A listing of an endpoint comes with its count, of the rows sent, or with a
\* warning that there is none; an agent's figure that differs is warned of,
\* and so is a listing the agent cut (sroiaaa.go:347).
ListingIsCountedOrWarned ==
  Answered("sroiaaa-agent") /\ Listing(step.operation) =>
    \/ "no counts" \in evidence.warnings
    \/ /\ evidence.summary[Figure[step.operation]] = Cardinality(evidence.items)
       /\ always \subseteq evidence.items \/ "agent truncated" \in evidence.warnings

-----------------------------------------------------------------------------
\* A session's calls all come to an end, each with evidence or an error.
EveryCallEnds == <>(pc = "idle" /\ calls = <<>>)
=============================================================================
