------------------------------- MODULE Broker -------------------------------
(***************************************************************************)
(* The policy broker of internal/broker as operators: what Router.Plan     *)
(* makes of a request, and which plans Router.Verify accepts.              *)
(*                                                                         *)
(* Instants are ticks of the operator's local clock, fine enough to show   *)
(* the fraction of a second that RFC 3339 formatting drops; days have one  *)
(* length (daylight saving is left out).  The window a request opens is a  *)
(* pair of sets of at most one instant: the empty set is an open end, Go's *)
(* zero time.  An absent string field is "", as in the JSON.               *)
(***************************************************************************)
EXTENDS Integers, Sequences

CONSTANTS
  TicksPerSecond,  \* ticks in the second RFC 3339 rounds down to
  Minute,          \* ticks of tolerance for a clock ahead of ours
  Hour, HoursPerDay,
  DurationRange,   \* number of values of time.Duration, 2^64 in Go
  MaxSinceAge,     \* how far back a bound may reach
  WellFormedHosts, \* host selectors validateHostSelector accepts
  WellFormedNames, \* resource names validateResourceName accepts
  CanonicalPaths   \* absolute, clean paths

ASSUME ClockAssumption ==
  /\ TicksPerSecond \in Nat \ {0} /\ Minute \in Nat
  /\ Hour \in Nat \ {0} /\ HoursPerDay \in Nat \ {0}
  /\ DurationRange \in Nat \ {0} /\ MaxSinceAge \in Nat

ASSUME NoEmptyName == "" \notin WellFormedHosts /\ "" \notin WellFormedNames

Day == Hour * HoursPerDay

-----------------------------------------------------------------------------
(* Time bounds: since.go.                                                   *)

\* A bound as a request spells it: a form and its number.
NoBound == [form |-> "none", n |-> 0]

Spellings ==
  {NoBound} \cup
  [form : {"today", "yesterday", "rfc3339", "date", "days", "window", "malformed"}, n : Int]

Accepted(ends) == [ok |-> TRUE, ends |-> ends]
Refused == [ok |-> FALSE, ends |-> {}]

\* The value time.Duration holds after arithmetic that may overflow.
Wrapped(x) ==
  LET half == DurationRange \div 2
  IN  ((x + half) % DurationRange) - half

\* ParseDuration refuses hours it cannot hold; the multiplication by 24 that
\* follows is not checked.
parseDays(n) ==
  IF Wrapped(n * Hour) = n * Hour
  THEN Accepted({Wrapped(n * Hour * HoursPerDay)})
  ELSE Refused

\* Mutant: only the future is refused.
boundWithoutAge(moment, now) ==
  IF moment > now + Minute THEN Refused ELSE Accepted({moment})

bound(moment, now) ==
  IF moment > now + Minute \/ now - moment > MaxSinceAge
  THEN Refused
  ELSE Accepted({moment})

Midnight(now) == (now \div Day) * Day

ParseSince(b, now) ==
  CASE b.form = "none"      -> Accepted({})
    [] b.form = "today"     -> bound(Midnight(now), now)
    [] b.form = "yesterday" -> bound(Midnight(now) - Day, now)
    [] b.form = "rfc3339"   -> bound(b.n, now)
    [] b.form = "date"      -> bound(b.n * Day, now)
    [] b.form = "days" ->
         LET days == parseDays(b.n)
         IN  IF days.ok THEN bound(now - (CHOOSE d \in days.ends : TRUE), now)
                        ELSE Refused
    [] b.form = "window"    -> IF b.n <= 0 THEN Refused
                                           ELSE bound(now - b.n, now)
    [] b.form = "malformed" -> Refused

\* A plain date, or a word for a day, closes at the end of that day.
ParseUntil(b, now) ==
  CASE b.form = "date"      -> Accepted({(b.n + 1) * Day})
    [] b.form = "today"     -> Accepted({Midnight(now) + Day})
    [] b.form = "yesterday" -> Accepted({Midnight(now)})
    [] OTHER                -> ParseSince(b, now)

\* time.RFC3339 carries whole seconds.
Format(ends) == {t - (t % TicksPerSecond) : t \in ends}

\* Mutant: the verifier reads a bound back as the day it falls on.
FromPlanAsDate(ends) ==
  IF ends = {} THEN NoBound
  ELSE [form |-> "date", n |-> (CHOOSE t \in ends : TRUE) \div Day]

\* A bound read back from a plan.
FromPlan(ends) ==
  IF ends = {} THEN NoBound
  ELSE [form |-> "rfc3339", n |-> CHOOSE t \in ends : TRUE]

-----------------------------------------------------------------------------
(* Field validation: sql.go, monitoring.go.  Each spelling below stands for *)
(* the strings the validator treats alike.                                  *)

TrimSpace(query) == IF query = " select " THEN "select" ELSE query

\* One SELECT or WITH statement; "drop" and "select;select" are refused.
ValidateQuery(query) == TrimSpace(query) \in {"select", "with"}

normalizeSeverity(name) ==
  CASE name = "HIGH" -> "high" [] name = "Resolved" -> "resolved"
    [] OTHER -> name

SeverityNames == {"warning", "high"}
States == {"problem", "resolved"}

validateSeverity(name) == normalizeSeverity(name) \in SeverityNames
validateState(state) == normalizeSeverity(state) \in States

\* Leading or trailing blanks, control characters and length are refused.
validateMatch(match) == match \notin {" padded ", "control"}

DefaultMonitoringLimit == 25
MaxMonitoringLimit == 200
fleetInventoryLimit == 500
ticketSearchLimit == 100
maxQueryRows == 5000

resolveLimit(requested) ==
  IF requested = 0 THEN DefaultMonitoringLimit ELSE requested

-----------------------------------------------------------------------------
(* The policy file: policy.go.                                              *)

maxPolicyReadBytes == 65536
maxPolicyListItems == 256
NoParams == [offset |-> 0, maxBytes |-> 0, maxEntries |-> 0]

validateResource(r) ==
  /\ r.path \in CanonicalPaths
  /\ r.params.offset >= 0
  /\ \/ /\ r.operation = "filesystem.list"
        /\ r.params.maxEntries \in 1 .. maxPolicyListItems
        /\ r.params.offset = 0 /\ r.params.maxBytes = 0
     \/ r.operation = "filesystem.stat" /\ r.params = NoParams
     \/ /\ r.operation = "filesystem.read"
        /\ r.params.maxBytes \in 1 .. maxPolicyReadBytes
        /\ r.params.maxEntries = 0
     \/ /\ r.operation = "filesystem.tail"
        /\ r.params.maxBytes \in 1 .. maxPolicyReadBytes
        /\ r.params.offset = 0 /\ r.params.maxEntries = 0

\* policy.hosts maps a live host to its resource names, policy.resources a
\* name to its operation, path and parameters.
validatePolicy(policy) ==
  /\ \A name \in DOMAIN policy.resources :
       name \in WellFormedNames /\ validateResource(policy.resources[name])
  /\ \A host \in DOMAIN policy.hosts :
       /\ host \in WellFormedHosts
       /\ policy.hosts[host] \subseteq DOMAIN policy.resources

-----------------------------------------------------------------------------
(* Router.Plan: router.go.                                                  *)

Monitoring == {"monitoring.problems", "monitoring.history"}
Tickets == {"tickets.open", "tickets.for_host"}

AllIntents ==
  {"fleet.inventory", "agent.status", "live.evidence", "database.query"}
    \cup Monitoring \cup Tickets

NoRequest ==
  [intent |-> "", host |-> "", resource |-> "", query |-> "",
   since |-> NoBound, until |-> NoBound,
   match |-> "", severity |-> "", state |-> "", limit |-> 0]

NoStep ==
  [source |-> "", action |-> "", host |-> "", limit |-> 0, operation |-> "",
   query |-> "", since |-> {}, until |-> {}, match |-> "", severity |-> "",
   state |-> "", path |-> "", params |-> NoParams]

\* The early returns of a handler, in order: the first that applies decides.
FirstDenial(checks) ==
  LET failed == {i \in DOMAIN checks : checks[i].fails}
  IN  checks[CHOOSE i \in failed : \A j \in failed : i <= j].code

Check(fails, code) == [fails |-> fails, code |-> code]

HasBounds(req) == req.since # NoBound \/ req.until # NoBound
HasSelectors(req) ==
  req.match # "" \/ req.severity # "" \/ req.state # "" \/ req.limit # 0

\* The window both ends of which parsed is not empty.
WindowCloses(req, now) ==
  \A s \in ParseSince(req.since, now).ends,
     u \in ParseUntil(req.until, now).ends : u > s

CommonChecks(req, now) ==
  <<Check(~ParseSince(req.since, now).ok, "invalid_since"),
    Check(~ParseUntil(req.until, now).ok, "invalid_until"),
    Check(~WindowCloses(req, now), "invalid_until"),
    Check(req.intent \notin Monitoring /\ HasSelectors(req), "invalid_request")>>

requireHostOnly(req) ==
  <<Check(req.host = "", "missing_host"),
    Check(req.resource # "", "invalid_request"),
    Check(req.host \notin WellFormedHosts, "invalid_host")>>

monitoringSelectors(req, allowState) ==
  <<Check(req.match # "" /\ ~validateMatch(req.match), "invalid_match"),
    Check(req.severity # "" /\ ~validateSeverity(req.severity), "invalid_severity"),
    Check(req.state # "" /\ ~allowState, "invalid_request"),
    Check(req.state # "" /\ ~validateState(req.state), "invalid_state"),
    Check(req.limit < 0 \/ req.limit > MaxMonitoringLimit, "invalid_limit")>>

\* Mutant: authorization is looked up before the request is checked, and a
\* window is ignored.
liveEvidenceChecksEarly(req, policy) ==
  <<Check(req.host \notin DOMAIN policy.hosts, "host_not_authorized"),
    Check(req.host \in DOMAIN policy.hosts
            /\ req.resource \notin policy.hosts[req.host],
          "resource_not_authorized")>>

liveEvidenceChecks(req, policy) ==
  <<Check(req.host = "", "missing_host"),
    Check(req.host \notin WellFormedHosts, "invalid_host"),
    Check(req.resource = "", "missing_resource"),
    Check(req.resource \notin WellFormedNames, "invalid_resource"),
    Check(HasBounds(req), "invalid_request"),
    Check(req.host \notin DOMAIN policy.hosts, "host_not_authorized"),
    Check(req.host \in DOMAIN policy.hosts
            /\ req.resource \notin policy.hosts[req.host],
          "resource_not_authorized")>>

NoHostOrResource(req) ==
  Check(req.host # "" \/ req.resource # "", "invalid_request")

NoWindow(req) == Check(HasBounds(req), "invalid_request")

OptionalHost(req) ==
  <<Check(req.resource # "", "invalid_request"),
    Check(req.host # "" /\ req.host \notin WellFormedHosts, "invalid_host")>>

IntentChecks(req, policy) ==
  CASE req.intent = "fleet.inventory" ->
         <<NoHostOrResource(req), NoWindow(req)>>
    [] req.intent = "agent.status" ->
         requireHostOnly(req) \o <<NoWindow(req)>>
    [] req.intent = "monitoring.problems" ->
         OptionalHost(req) \o monitoringSelectors(req, FALSE)
    [] req.intent = "monitoring.history" ->
         OptionalHost(req)
           \o <<Check(req.since = NoBound, "missing_since")>>
           \o monitoringSelectors(req, TRUE)
    [] req.intent = "database.query" ->
         <<NoHostOrResource(req), NoWindow(req),
           Check(~ValidateQuery(req.query), "invalid_query")>>
    [] req.intent = "live.evidence" -> liveEvidenceChecks(req, policy)
    [] req.intent = "tickets.open" -> <<NoHostOrResource(req)>>
    [] req.intent = "tickets.for_host" -> requireHostOnly(req)
    [] OTHER -> <<Check(TRUE, "unknown_intent")>>

\* The window a step carries, to the second.
SinceStep(req, now) == Format(ParseSince(req.since, now).ends)
UntilStep(req, now) == Format(ParseUntil(req.until, now).ends)

InventoryStep ==
  [NoStep EXCEPT !.source = "wazuh-api", !.action = "agents.list",
                 !.limit = fleetInventoryLimit]

StatusStep(req) ==
  [NoStep EXCEPT !.source = "wazuh-api", !.action = "agents.status",
                 !.host = req.host]

MonitoringStep(req, now) ==
  [NoStep EXCEPT !.source = "zabbix-api",
     !.action = IF req.intent = "monitoring.history"
                THEN "event.get" ELSE "trigger.get",
     !.host = req.host, !.limit = resolveLimit(req.limit),
     !.since = SinceStep(req, now), !.until = UntilStep(req, now),
     !.match = req.match, !.severity = normalizeSeverity(req.severity),
     !.state = normalizeSeverity(req.state)]

QueryStep(req) ==
  [NoStep EXCEPT !.source = "pegasus-db", !.action = "query.execute",
                 !.query = TrimSpace(req.query), !.limit = maxQueryRows]

\* The policy, not the request, names the operation and its path.
planLiveEvidence(host, resource) ==
  [NoStep EXCEPT !.source = "sroiaaa-agent", !.action = "operations.execute",
                 !.host = host, !.operation = resource.operation,
                 !.path = resource.path, !.params = resource.params]

TicketStep(req, now) ==
  [NoStep EXCEPT !.source = "rt-api", !.action = "tickets.search",
                 !.host = req.host, !.limit = ticketSearchLimit,
                 !.since = SinceStep(req, now), !.until = UntilStep(req, now)]

\* The one step a permitted request becomes.
StepFor(req, policy, now) ==
  CASE req.intent = "fleet.inventory" -> InventoryStep
    [] req.intent = "agent.status"    -> StatusStep(req)
    [] req.intent \in Monitoring      -> MonitoringStep(req, now)
    [] req.intent = "database.query"  -> QueryStep(req)
    [] req.intent = "live.evidence"   ->
         planLiveEvidence(req.host, policy.resources[req.resource])
    [] req.intent \in Tickets         -> TicketStep(req, now)

newPlan(intent, step) ==
  [version |-> 1, intent |-> intent, steps |-> <<step>>]

\* Why Router.Plan denies a request.
Denial(req, policy, now) ==
  FirstDenial(CommonChecks(req, now) \o IntentChecks(req, policy))

AllPass(checks) == \A i \in DOMAIN checks : ~checks[i].fails

Permits(req, policy, now) ==
  AllPass(CommonChecks(req, now)) /\ AllPass(IntentChecks(req, policy))

Plan(req, policy, now) == newPlan(req.intent, StepFor(req, policy, now))

-----------------------------------------------------------------------------
(* Router.Verify: router.go.                                                *)

\* The requests that could have produced a plan: what the router derives is
\* never read from the plan.
candidateRequests(plan, policy) ==
  LET step == plan.steps[1]
      request == [NoRequest EXCEPT !.intent = plan.intent]
      windowed == [request EXCEPT !.since = FromPlan(step.since),
                                  !.until = FromPlan(step.until)]
  IN
  CASE plan.intent = "fleet.inventory" -> {request}
    [] plan.intent = "agent.status" -> {[request EXCEPT !.host = step.host]}
    [] plan.intent \in Monitoring ->
         {[windowed EXCEPT !.host = step.host, !.match = step.match,
                           !.severity = step.severity, !.state = step.state,
                           !.limit = step.limit]}
    [] plan.intent = "database.query" ->
         {[request EXCEPT !.query = step.query]}
    [] plan.intent = "live.evidence" ->
         IF step.host \in DOMAIN policy.hosts
         THEN {[request EXCEPT !.host = step.host, !.resource = resource] :
                 resource \in policy.hosts[step.host]}
         ELSE {}
    [] plan.intent = "tickets.open" -> {windowed}
    [] plan.intent = "tickets.for_host" ->
         {[windowed EXCEPT !.host = step.host]}
    [] OTHER -> {}

\* Mutant: it is enough that a candidate is permitted.
VerifyWithoutEquality(plan, policy, now) ==
  /\ plan.steps # <<>>
  /\ \E candidate \in candidateRequests(plan, policy) :
       Permits(candidate, policy, now)

Verify(plan, policy, now) ==
  /\ plan.steps # <<>>
  /\ \E candidate \in candidateRequests(plan, policy) :
       /\ Permits(candidate, policy, now)
       /\ Plan(candidate, policy, now) = plan

=============================================================================
