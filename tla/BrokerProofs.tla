---------------------------- MODULE BrokerProofs ----------------------------
(***************************************************************************)
(* Lemmas about the policy broker's operators, for every policy, request   *)
(* and clock: when a request is permitted, what its step carries, which    *)
(* denial it is given, and which plans the verifier takes back.            *)
(***************************************************************************)
EXTENDS PlanGate, SequenceTheorems, WellFoundedInduction, NaturalsInduction,
        TLAPS

-----------------------------------------------------------------------------
(* When every check of a handler passes.                                    *)

\* Checks in a row pass when each part does.
LEMMA PassTogether ==
  ASSUME NEW S, NEW s \in Seq(S), NEW T, NEW t \in Seq(T)
  PROVE  AllPass(s \o t) <=> AllPass(s) /\ AllPass(t)
<1> DEFINE U == S \cup T
<1>1. /\ s \in Seq(U) /\ t \in Seq(U)
  BY SeqMonotonic
<1>2. /\ s \o t \in Seq(U) /\ Len(s \o t) = Len(s) + Len(t)
      /\ \A i \in 1 .. Len(s) + Len(t) : (s \o t)[i]
         = IF i <= Len(s) THEN s[i] ELSE t[i - Len(s)]
  BY <1>1, ConcatProperties
<1>3. DOMAIN (s \o t) = 1 .. Len(s) + Len(t) /\ DOMAIN s = 1 .. Len(s)
      /\ DOMAIN t = 1 .. Len(t)
      /\ Len(s) \in Nat /\ Len(t) \in Nat
  BY <1>2, LenProperties
<1>4. ASSUME AllPass(s \o t) PROVE AllPass(s) /\ AllPass(t)
  <2>1. ASSUME NEW i \in 1 .. Len(s) PROVE ~s[i].fails
    BY <1>2, <1>3, <1>4 DEF AllPass
  <2>2. ASSUME NEW i \in 1 .. Len(t) PROVE ~t[i].fails
    <3>1. Len(s) + i \in 1 .. Len(s) + Len(t) /\ ~(Len(s) + i <= Len(s))
          /\ (Len(s) + i) - Len(s) = i
      BY <1>3
    <3>2. (s \o t)[Len(s) + i] = t[i]
      BY <1>2, <3>1
    <3>3. QED
      BY <1>3, <1>4, <3>1, <3>2 DEF AllPass
  <2>3. QED
    BY <1>3, <2>1, <2>2 DEF AllPass
<1>5. ASSUME AllPass(s), AllPass(t), NEW i \in 1 .. Len(s) + Len(t)
      PROVE  ~(s \o t)[i].fails
  <2>1. CASE i <= Len(s)
    BY <1>2, <1>3, <1>5, <2>1 DEF AllPass
  <2>2. CASE i > Len(s)
    <3>1. i - Len(s) \in 1 .. Len(t) /\ ~(i <= Len(s))
      BY <1>3, <2>2
    <3>2. (s \o t)[i] = t[i - Len(s)]
      BY <1>2, <3>1
    <3>3. QED
      BY <1>3, <1>5, <3>1, <3>2 DEF AllPass
  <2>3. QED
    BY <2>1, <2>2, <1>3
<1>6. QED
  BY <1>3, <1>4, <1>5 DEF AllPass

\* What the checks shared by every intent let through.
CommonAllows(req, at) ==
  /\ ParseSince(req.since, at).ok /\ ParseUntil(req.until, at).ok
  /\ WindowCloses(req, at)
  /\ req.intent \in Monitoring \/ ~HasSelectors(req)

\* What an intent that takes a host and nothing else lets through.
HostAllows(req) ==
  req.host # "" /\ req.resource = "" /\ req.host \in WellFormedHosts

\* The same, where the host may be left out.
OptionalHostAllows(req) ==
  req.resource = "" /\ (req.host # "" => req.host \in WellFormedHosts)

\* What the selectors of the monitoring intents must be.
SelectorsAllow(req, allowState) ==
  /\ req.match # "" => validateMatch(req.match)
  /\ req.severity # "" => validateSeverity(req.severity)
  /\ req.state # "" => allowState /\ validateState(req.state)
  /\ ~(req.limit < 0 \/ req.limit > MaxMonitoringLimit)

\* What live evidence asks of a request and of the policy.
LiveAllows(req, p) ==
  /\ req.host # "" /\ req.host \in WellFormedHosts
  /\ req.resource # "" /\ req.resource \in WellFormedNames
  /\ ~HasBounds(req)
  /\ req.host \in DOMAIN p.hosts /\ req.resource \in p.hosts[req.host]

\* What the handler of its intent lets through.
IntentAllows(req, p) ==
  CASE req.intent = "fleet.inventory" ->
         req.host = "" /\ req.resource = "" /\ ~HasBounds(req)
    [] req.intent = "agent.status" -> HostAllows(req) /\ ~HasBounds(req)
    [] req.intent = "monitoring.problems" ->
         OptionalHostAllows(req) /\ SelectorsAllow(req, FALSE)
    [] req.intent = "monitoring.history" ->
         OptionalHostAllows(req) /\ req.since # NoBound
         /\ SelectorsAllow(req, TRUE)
    [] req.intent = "database.query" ->
         req.host = "" /\ req.resource = "" /\ ~HasBounds(req)
         /\ ValidateQuery(req.query)
    [] req.intent = "live.evidence" ->
         LiveAllows(req, p)
    [] req.intent = "tickets.open" -> req.host = "" /\ req.resource = ""
    [] req.intent = "tickets.for_host" -> HostAllows(req)
    [] OTHER -> FALSE

\* A tuple of checks passes when each of them does.
LEMMA PassOne ==
  \A a : AllPass(<<a>>) <=>
    ~a.fails
BY DEF AllPass

LEMMA PassTwo ==
  \A a, b : AllPass(<<a, b>>) <=>
    ~a.fails /\ ~b.fails
BY DEF AllPass

LEMMA PassThree ==
  \A a, b, c : AllPass(<<a, b, c>>) <=>
    ~a.fails /\ ~b.fails /\ ~c.fails
BY DEF AllPass

LEMMA PassFour ==
  \A a, b, c, d : AllPass(<<a, b, c, d>>) <=>
    ~a.fails /\ ~b.fails /\ ~c.fails /\ ~d.fails
BY DEF AllPass

LEMMA PassFive ==
  \A a, b, c, d, e : AllPass(<<a, b, c, d, e>>) <=>
    ~a.fails /\ ~b.fails /\ ~c.fails /\ ~d.fails /\ ~e.fails
BY DEF AllPass

LEMMA PassSeven ==
  \A a, b, c, d, e, f, g : AllPass(<<a, b, c, d, e, f, g>>) <=>
    ~a.fails /\ ~b.fails /\ ~c.fails /\ ~d.fails /\ ~e.fails /\ ~f.fails
    /\ ~g.fails
BY DEF AllPass

\* Each group of checks passes exactly on the requests it is meant for.
LEMMA CommonPasses ==
  ASSUME NEW req, NEW at
  PROVE  AllPass(CommonChecks(req, at)) <=> CommonAllows(req, at)
<1>1. AllPass(CommonChecks(req, at)) <=>
        /\ ~Check(~ParseSince(req.since, at).ok, "invalid_since").fails
        /\ ~Check(~ParseUntil(req.until, at).ok, "invalid_until").fails
        /\ ~Check(~WindowCloses(req, at), "invalid_until").fails
        /\ ~Check(req.intent \notin Monitoring /\ HasSelectors(req),
           "invalid_request").fails
  BY PassFour, Zenon DEF CommonChecks
<1>2. QED
  BY <1>1, Zenon DEF Check, CommonAllows

LEMMA HostPasses ==
  ASSUME NEW req
  PROVE  AllPass(requireHostOnly(req)) <=> HostAllows(req)
<1>1. AllPass(requireHostOnly(req)) <=>
        /\ ~Check(req.host = "", "missing_host").fails
        /\ ~Check(req.resource # "", "invalid_request").fails
        /\ ~Check(req.host \notin WellFormedHosts, "invalid_host").fails
  BY PassThree, Zenon DEF requireHostOnly
<1>2. QED
  BY <1>1, Zenon DEF Check, HostAllows

LEMMA OptionalHostPasses ==
  ASSUME NEW req
  PROVE  AllPass(OptionalHost(req)) <=> OptionalHostAllows(req)
<1>1. AllPass(OptionalHost(req)) <=>
        /\ ~Check(req.resource # "", "invalid_request").fails
        /\ ~Check(req.host # "" /\ req.host \notin WellFormedHosts,
           "invalid_host").fails
  BY PassTwo, Zenon DEF OptionalHost
<1>2. QED
  BY <1>1, Zenon DEF Check, OptionalHostAllows

LEMMA SelectorsPass ==
  ASSUME NEW req, NEW allowState
  PROVE  AllPass(monitoringSelectors(req, allowState))
           <=> SelectorsAllow(req, allowState)
<1>1. AllPass(monitoringSelectors(req, allowState)) <=>
        /\ ~Check(req.match # "" /\ ~validateMatch(req.match),
           "invalid_match").fails
        /\ ~Check(req.severity # "" /\ ~validateSeverity(req.severity),
           "invalid_severity").fails
        /\ ~Check(req.state # "" /\ ~allowState, "invalid_request").fails
        /\ ~Check(req.state # "" /\ ~validateState(req.state),
           "invalid_state").fails
        /\ ~Check(req.limit < 0 \/ req.limit > MaxMonitoringLimit,
           "invalid_limit").fails
  BY PassFive, Zenon DEF monitoringSelectors
<1>2. QED
  BY <1>1, Zenon DEF Check, SelectorsAllow

LEMMA LivePasses ==
  ASSUME NEW req, NEW p
  PROVE  AllPass(liveEvidenceChecks(req, p)) <=> LiveAllows(req, p)
<1> DEFINE a == Check(req.host = "", "missing_host")
           b == Check(req.host \notin WellFormedHosts, "invalid_host")
           c == Check(req.resource = "", "missing_resource")
           d == Check(req.resource \notin WellFormedNames, "invalid_resource")
           e == Check(HasBounds(req), "invalid_request")
           f == Check(req.host \notin DOMAIN p.hosts, "host_not_authorized")
           g == Check(req.host \in DOMAIN p.hosts
                        /\ req.resource \notin p.hosts[req.host],
                      "resource_not_authorized")
<1>1. liveEvidenceChecks(req, p) = <<a, b, c, d, e, f, g>>
  BY Zenon DEF liveEvidenceChecks
<1>2. /\ ~a.fails <=> req.host # ""
      /\ ~b.fails <=> req.host \in WellFormedHosts
      /\ ~c.fails <=> req.resource # ""
      /\ ~d.fails <=> req.resource \in WellFormedNames
      /\ ~e.fails <=> ~HasBounds(req)
      /\ ~f.fails <=> req.host \in DOMAIN p.hosts
      /\ ~g.fails <=> (req.host \in DOMAIN p.hosts
           => req.resource \in p.hosts[req.host])
  BY Zenon DEF Check
<1> HIDE DEF a, b, c, d, e, f, g
<1>3. AllPass(liveEvidenceChecks(req, p)) <=>
        ~a.fails /\ ~b.fails /\ ~c.fails /\ ~d.fails /\ ~e.fails /\ ~f.fails
        /\ ~g.fails
  BY <1>1, PassSeven, SMT
<1>4. QED
  BY <1>2, <1>3, Zenon DEF LiveAllows

\* Every group of checks is a sequence.
LEMMA ChecksAreSequences ==
  ASSUME NEW req, NEW allowState
  PROVE  /\ \E S : requireHostOnly(req) \in Seq(S)
         /\ \E S : OptionalHost(req) \in Seq(S)
         /\ \E S : monitoringSelectors(req, allowState) \in Seq(S)
<1>1. \A a, b : \E S : <<a, b>> \in Seq(S)
  <2>1. \A a, b : <<a, b>> \in Seq({a, b})
    OBVIOUS
  <2>2. QED
    BY <2>1, Zenon
<1>2. \A a, b, c : \E S : <<a, b, c>> \in Seq(S)
  <2>1. \A a, b, c : <<a, b, c>> \in Seq({a, b, c})
    OBVIOUS
  <2>2. QED
    BY <2>1, Zenon
<1>3. \A a, b, c, d, e : \E S : <<a, b, c, d, e>> \in Seq(S)
  <2>1. \A a, b, c, d, e : <<a, b, c, d, e>> \in Seq({a, b, c, d, e})
    OBVIOUS
  <2>2. QED
    BY <2>1, Zenon
<1>4. \E S : requireHostOnly(req) \in Seq(S)
  BY <1>2, Zenon DEF requireHostOnly
<1>5. \E S : OptionalHost(req) \in Seq(S)
  BY <1>1, Zenon DEF OptionalHost
<1>6. \E S : monitoringSelectors(req, allowState) \in Seq(S)
  BY <1>3, Zenon DEF monitoringSelectors
<1>7. QED
  BY <1>4, <1>5, <1>6

LEMMA StatusPasses ==
  ASSUME NEW req
  PROVE  AllPass(requireHostOnly(req) \o <<NoWindow(req)>>)
           <=> HostAllows(req) /\ ~HasBounds(req)
<1>1. PICK S : requireHostOnly(req) \in Seq(S)
  BY ChecksAreSequences
<1>2. <<NoWindow(req)>> \in Seq({NoWindow(req)})
  OBVIOUS
<1>3. AllPass(requireHostOnly(req) \o <<NoWindow(req)>>) <=>
        AllPass(requireHostOnly(req)) /\ AllPass(<<NoWindow(req)>>)
  BY <1>1, <1>2, PassTogether
<1>4. AllPass(<<NoWindow(req)>>) <=> ~NoWindow(req).fails
  BY PassOne, Zenon
<1>5. ~NoWindow(req).fails <=> ~HasBounds(req)
  BY Zenon DEF NoWindow, Check
<1>6. QED
  BY <1>3, <1>4, <1>5, HostPasses

LEMMA ProblemsPasses ==
  ASSUME NEW req
  PROVE  AllPass(OptionalHost(req) \o monitoringSelectors(req, FALSE)) <=>
           OptionalHostAllows(req) /\ SelectorsAllow(req, FALSE)
<1>1. PICK S : OptionalHost(req) \in Seq(S)
  BY ChecksAreSequences
<1>2. PICK T : monitoringSelectors(req, FALSE) \in Seq(T)
  BY ChecksAreSequences
<1>3. QED
  BY <1>1, <1>2, PassTogether, OptionalHostPasses, SelectorsPass

LEMMA HistoryPasses ==
  ASSUME NEW req
  PROVE  AllPass(OptionalHost(req)
         \o <<Check(req.since = NoBound, "missing_since")>>
                   \o monitoringSelectors(req, TRUE)) <=>
           OptionalHostAllows(req) /\ req.since # NoBound
           /\ SelectorsAllow(req, TRUE)
<1> DEFINE since == Check(req.since = NoBound, "missing_since")
<1>1. PICK S : OptionalHost(req) \in Seq(S)
  BY ChecksAreSequences
<1>2. PICK T : monitoringSelectors(req, TRUE) \in Seq(T)
  BY ChecksAreSequences
<1>3. ~since.fails <=> req.since # NoBound
  BY Zenon DEF Check
<1> HIDE DEF since
<1>4. <<since>> \in Seq({since}) /\ (AllPass(<<since>>) <=> ~since.fails)
  BY PassOne
<1>5. AllPass(OptionalHost(req) \o <<since>>)
        <=> AllPass(OptionalHost(req)) /\ AllPass(<<since>>)
  BY <1>1, <1>4, PassTogether
<1>6. OptionalHost(req) \o <<since>> \in Seq(S \cup {since})
  BY <1>1, <1>4, SeqMonotonic, ConcatProperties
<1>7. AllPass(OptionalHost(req) \o <<since>>
      \o monitoringSelectors(req, TRUE)) <=>
        AllPass(OptionalHost(req) \o <<since>>)
        /\ AllPass(monitoringSelectors(req, TRUE))
  BY <1>2, <1>6, PassTogether
<1>8. QED
  BY <1>3, <1>4, <1>5, <1>7, OptionalHostPasses, SelectorsPass DEF since

\* The checks of a handler pass exactly on what the handler allows.
LEMMA IntentPasses ==
  ASSUME NEW req, NEW p
  PROVE  AllPass(IntentChecks(req, p)) <=> IntentAllows(req, p)
<1> USE DEF IntentChecks, IntentAllows
<1>2. (~NoHostOrResource(req).fails <=> req.host = "" /\ req.resource = "")
      /\ (~NoWindow(req).fails <=> ~HasBounds(req))
  BY Zenon DEF NoHostOrResource, NoWindow, Check
<1>3. CASE req.intent = "fleet.inventory"
  <2>1. AllPass(<<NoHostOrResource(req), NoWindow(req)>>) <=>
          ~NoHostOrResource(req).fails /\ ~NoWindow(req).fails
    BY PassTwo, Zenon
  <2>2. IntentChecks(req, p) = <<NoHostOrResource(req), NoWindow(req)>>
        /\ IntentAllows(req, p) = (req.host = "" /\ req.resource = ""
           /\ ~HasBounds(req))
    BY <1>3
  <2>3. QED
    BY <1>2, <2>1, <2>2, Zenon
<1>4. CASE req.intent = "agent.status"
  <2>1. IntentChecks(req, p) = requireHostOnly(req) \o <<NoWindow(req)>>
        /\ IntentAllows(req, p) = (HostAllows(req) /\ ~HasBounds(req))
    BY <1>4
  <2>2. QED
    BY <2>1, StatusPasses, Zenon
<1>5. CASE req.intent = "monitoring.problems"
  <2>1. IntentChecks(req, p) = OptionalHost(req)
        \o monitoringSelectors(req, FALSE)
        /\ IntentAllows(req, p) = (OptionalHostAllows(req)
           /\ SelectorsAllow(req, FALSE))
    BY <1>5
  <2>2. QED
    BY <2>1, ProblemsPasses, Zenon
<1>6. CASE req.intent = "monitoring.history"
  <2>1. IntentChecks(req, p) = OptionalHost(req)
        \o <<Check(req.since = NoBound, "missing_since")>>
                   \o monitoringSelectors(req, TRUE)
        /\ IntentAllows(req, p) = (OptionalHostAllows(req)
           /\ req.since # NoBound /\ SelectorsAllow(req, TRUE))
    BY <1>6
  <2>2. QED
    BY <2>1, HistoryPasses, Zenon
<1>7. CASE req.intent = "database.query"
  <2>1. IntentChecks(req, p) = <<NoHostOrResource(req), NoWindow(req),
           Check(~ValidateQuery(req.query), "invalid_query")>>
        /\ IntentAllows(req, p) = (req.host = "" /\ req.resource = ""
           /\ ~HasBounds(req) /\ ValidateQuery(req.query))
    BY <1>7
  <2>2. AllPass(<<NoHostOrResource(req), NoWindow(req),
        Check(~ValidateQuery(req.query), "invalid_query")>>) <=>
          /\ ~NoHostOrResource(req).fails /\ ~NoWindow(req).fails
          /\ ~Check(~ValidateQuery(req.query), "invalid_query").fails
    BY PassThree, Zenon
  <2>3. ~Check(~ValidateQuery(req.query), "invalid_query").fails
          <=> ValidateQuery(req.query)
    BY Zenon DEF Check
  <2>4. QED
    BY <1>2, <2>1, <2>2, <2>3, Zenon
<1>8. CASE req.intent = "live.evidence"
  <2>1. IntentChecks(req, p) = liveEvidenceChecks(req, p)
        /\ IntentAllows(req, p) = LiveAllows(req, p)
    BY <1>8
  <2>2. QED
    BY <2>1, LivePasses, Zenon
<1>9. CASE req.intent = "tickets.open"
  <2>1. IntentChecks(req, p) = <<NoHostOrResource(req)>>
        /\ IntentAllows(req, p) = (req.host = "" /\ req.resource = "")
    BY <1>9
  <2>2. AllPass(<<NoHostOrResource(req)>>) <=> ~NoHostOrResource(req).fails
    BY PassOne, Zenon
  <2>3. QED
    BY <1>2, <2>1, <2>2, Zenon
<1>10. CASE req.intent = "tickets.for_host"
  <2>1. IntentChecks(req, p) = requireHostOnly(req)
        /\ IntentAllows(req, p) = HostAllows(req)
    BY <1>10
  <2>2. QED
    BY <2>1, HostPasses, Zenon
<1>11. CASE req.intent \notin AllIntents
  <2>1. IntentChecks(req, p) = <<Check(TRUE, "unknown_intent")>>
        /\ IntentAllows(req, p) = FALSE
    BY <1>11 DEF AllIntents, Monitoring, Tickets
  <2>2. AllPass(<<Check(TRUE, "unknown_intent")>>)
          <=> ~Check(TRUE, "unknown_intent").fails
    BY PassOne, Zenon
  <2>3. Check(TRUE, "unknown_intent").fails
    BY Zenon DEF Check
  <2>4. QED
    BY <2>1, <2>2, <2>3, Zenon
<1>12. QED
  BY <1>3, <1>4, <1>5, <1>6, <1>7, <1>8, <1>9, <1>10, <1>11
     DEF AllIntents, Monitoring, Tickets

\* Router.Plan permits a request when the shared checks and its handler do.
LEMMA Permitted ==
  ASSUME NEW req, NEW p, NEW at
  PROVE  Permits(req, p, at) <=> CommonAllows(req, at) /\ IntentAllows(req, p)
BY CommonPasses, IntentPasses, Zenon DEF Permits

-----------------------------------------------------------------------------
(* Windows: what a bound opens, and what is read back from a plan.          *)

\* An accepted bound is neither too old nor in the future.
LEMMA BoundOpens ==
  ASSUME NEW at \in Int, NEW moment \in Int, bound(moment, at).ok
  PROVE  /\ bound(moment, at).ends = {moment}
         /\ at - MaxSinceAge <= moment /\ moment <= at + Minute
<1>1. ~(moment > at + Minute \/ at - moment > MaxSinceAge)
  BY DEF bound, Refused
<1>2. QED
  BY <1>1, ClockAssumption DEF bound, Accepted

\* What is read back from a step parses the same at both ends, and is in bounds.
LEMMA ReadBack ==
  ASSUME NEW E \in SUBSET Int, NEW at \in Int
  PROVE  /\ ParseUntil(FromPlan(E), at) = ParseSince(FromPlan(E), at)
         /\ FromPlan(E) = NoBound <=> E = {}
         /\ ParseSince(FromPlan(E), at).ok =>
              \/ E = {} /\ ParseSince(FromPlan(E), at).ends = {}
              \/ \E t \in E : /\ ParseSince(FromPlan(E), at).ends = {t}
                              /\ at - MaxSinceAge <= t /\ t <= at + Minute
<1>1. CASE E = {}
  <2>1. FromPlan(E) = NoBound /\ NoBound.form = "none"
    BY <1>1 DEF FromPlan, NoBound
  <2>2. ParseSince(NoBound, at) = Accepted({})
        /\ ParseUntil(NoBound, at) = ParseSince(NoBound, at)
    BY <2>1 DEF ParseSince, ParseUntil
  <2>3. ParseSince(NoBound, at).ends = {}
    BY <2>2 DEF Accepted
  <2>4. QED
    BY <1>1, <2>1, <2>2, <2>3, Zenon
<1>2. CASE E # {}
  <2> DEFINE t == CHOOSE x \in E : TRUE
  <2>1. t \in E /\ t \in Int
    BY <1>2
  <2>2. FromPlan(E) = [form |-> "rfc3339", n |-> t]
    BY <1>2 DEF FromPlan
  <2> HIDE DEF t
  <2>3. ParseSince(FromPlan(E), at) = bound(t, at)
        /\ ParseUntil(FromPlan(E), at) = ParseSince(FromPlan(E), at)
        /\ FromPlan(E) # NoBound
    BY <2>2 DEF ParseSince, ParseUntil, NoBound
  <2>4. QED
    BY <1>2, <2>1, <2>3, BoundOpens
<1>3. QED
  BY <1>1, <1>2

\* Formatting acts on each end of a window.
LEMMA FormatOne ==
  ASSUME NEW t \in Int
  PROVE  Format({t}) = {t - (t % TicksPerSecond)}
BY DEF Format

LEMMA FormatNone == Format({}) = {}
BY DEF Format

\* A bound read back from a step and written again is the one it was.
LEMMA SteadyBound ==
  ASSUME NEW E \in SUBSET Int, NEW at \in Int,
         ParseSince(FromPlan(E), at).ok,
         Format(ParseSince(FromPlan(E), at).ends) = E
  PROVE  /\ ParseSince(FromPlan(E), at).ends = E
         /\ \A t \in E : at - MaxSinceAge <= t /\ t <= at + Minute
<1>1. CASE E = {} /\ ParseSince(FromPlan(E), at).ends = {}
  BY <1>1
<1>2. ASSUME NEW t \in E, ParseSince(FromPlan(E), at).ends = {t},
             at - MaxSinceAge <= t, t <= at + Minute
      PROVE  /\ ParseSince(FromPlan(E), at).ends = E
             /\ \A u \in E : at - MaxSinceAge <= u /\ u <= at + Minute
  <2>1. E = {t - (t % TicksPerSecond)}
    BY <1>2, FormatOne
  <2>2. E = {t}
    BY <2>1
  <2>3. QED
    BY <1>2, <2>2
<1>3. QED
  BY <1>1, <1>2, ReadBack

\* The intents whose steps carry a window.
Windowed == Monitoring \cup Tickets

\* A decoded plan that verifies has one step, in the bounds of its intent.
LEMMA VerifiedWithinBounds ==
  ASSUME NEW plan, NEW p, NEW at \in Int, Decodes(plan), Verify(plan, p, at)
  PROVE  /\ Len(plan.steps) = 1
         /\ plan.intent \in AllIntents
         /\ plan.steps[1].source = SourceForIntent[plan.intent]
         /\ plan.steps[1].limit <= LimitFor(plan.intent)
         /\ plan.steps[1].limit > 0
              <=> plan.intent \notin {"agent.status", "live.evidence"}
         /\ \A t \in plan.steps[1].since \cup plan.steps[1].until :
              at - MaxSinceAge <= t /\ t <= at + Minute
         /\ \A s \in plan.steps[1].since, u \in plan.steps[1].until : s < u
<1> DEFINE step == plan.steps[1]
<1>1. PICK c \in candidateRequests(plan, p) : Permits(c, p, at)
           /\ Plan(c, p, at) = plan
  BY DEF Verify
<1>2. plan.steps = <<StepFor(c, p, at)>> /\ plan.intent = c.intent
  BY <1>1 DEF Plan, newPlan
<1>3. step = StepFor(c, p, at) /\ Len(plan.steps) = 1 /\ DOMAIN plan.steps = {1}
  BY <1>2
<1>4. step.limit \in Int /\ step.since \in SUBSET Int
      /\ step.until \in SUBSET Int
  BY <1>3 DEF Decodes
<1>5. CommonAllows(c, at) /\ IntentAllows(c, p)
  BY <1>1, Permitted
<1>6. plan.intent \in AllIntents
  BY <1>2, <1>5 DEF IntentAllows, AllIntents, Monitoring, Tickets
<1>7. CASE plan.intent \in {"fleet.inventory", "agent.status", "live.evidence",
           "database.query"}
  <2>1. /\ step.since = {} /\ step.until = {}
        /\ step.source = SourceForIntent[plan.intent]
        /\ step.limit = LimitFor(plan.intent)
    BY <1>2, <1>3, <1>6, <1>7
       DEF StepFor, InventoryStep, StatusStep, QueryStep, planLiveEvidence,
       NoStep,
       SourceForIntent, LimitFor, AllIntents, Monitoring, Tickets
  <2>2. LimitFor(plan.intent) \in Nat
        /\ (LimitFor(plan.intent) > 0
             <=> plan.intent \notin {"agent.status", "live.evidence"})
    BY <1>7 DEF LimitFor, Monitoring, Tickets, fleetInventoryLimit, maxQueryRows
  <2>3. QED
    BY <1>3, <1>6, <2>1, <2>2
<1>8. CASE plan.intent \in Windowed
  <2>1. c.since = FromPlan(step.since) /\ c.until = FromPlan(step.until)
    BY <1>8, <1>1
       DEF candidateRequests, Windowed, Monitoring, Tickets, NoRequest
  <2>2. step.since = SinceStep(c, at) /\ step.until = UntilStep(c, at)
    BY <1>2, <1>3, <1>8 DEF StepFor, Windowed, Monitoring, Tickets,
       MonitoringStep, TicketStep, NoStep
  <2>3. /\ ParseSince(c.since, at).ok /\ ParseUntil(c.until, at).ok
        /\ WindowCloses(c, at)
    BY <1>5 DEF CommonAllows
  <2>4. ParseUntil(c.until, at) = ParseSince(c.until, at)
    BY <1>4, <2>1, ReadBack
  <2>5. /\ ParseSince(c.since, at).ends = step.since
        /\ \A t \in step.since : at - MaxSinceAge <= t /\ t <= at + Minute
    BY <1>4, <2>1, <2>2, <2>3, SteadyBound DEF SinceStep
  <2>6. /\ ParseUntil(c.until, at).ends = step.until
        /\ \A t \in step.until : at - MaxSinceAge <= t /\ t <= at + Minute
    BY <1>4, <2>1, <2>2, <2>3, <2>4, SteadyBound DEF UntilStep
  <2>7. \A s \in step.since, u \in step.until : s < u
    BY <1>4, <2>3, <2>5, <2>6 DEF WindowCloses
  <2>8. step.source = SourceForIntent[plan.intent]
    BY <1>2, <1>3, <1>6, <1>8
       DEF StepFor, Windowed, Monitoring, Tickets, MonitoringStep, TicketStep,
       NoStep, SourceForIntent
  <2>9. step.limit <= LimitFor(plan.intent) /\ step.limit > 0
    <3>1. CASE plan.intent \in Monitoring
      <4>1. c.limit = step.limit
        BY <1>1, <3>1 DEF candidateRequests, Monitoring, NoRequest
      <4>2. step.limit = resolveLimit(c.limit)
        BY <1>2, <1>3, <3>1
           DEF StepFor, Monitoring, Tickets, MonitoringStep, NoStep
      <4>3. ~(c.limit < 0 \/ c.limit > MaxMonitoringLimit)
        BY <1>2, <1>5, <3>1 DEF IntentAllows, Monitoring, SelectorsAllow
      <4>4. LimitFor(plan.intent) = MaxMonitoringLimit
        BY <3>1 DEF LimitFor, Monitoring, Tickets
      <4>5. QED
        BY <1>4, <4>1, <4>2, <4>3, <4>4
           DEF resolveLimit, DefaultMonitoringLimit, MaxMonitoringLimit
    <3>2. CASE plan.intent \in Tickets
      BY <1>2, <1>3, <3>2 DEF StepFor, Monitoring, Tickets, TicketStep, NoStep,
         LimitFor, ticketSearchLimit
    <3>3. QED
      BY <1>8, <3>1, <3>2 DEF Windowed
  <2>10. QED
    BY <1>3, <1>6, <1>8, <2>5, <2>6, <2>7, <2>8, <2>9
       DEF Windowed, Monitoring, Tickets
<1>9. QED
  BY <1>6, <1>7, <1>8 DEF AllIntents, Windowed

\* The arithmetic of the clock stays within the integers.
LEMMA Products == \A x, y \in Int : x * y \in Int
OBVIOUS

LEMMA DayIsInt == Day \in Int /\ \A x \in Int : Midnight(x) \in Int
<1>1. Hour * HoursPerDay \in Nat \ {0}
  <2>1. \A x, y \in Nat \ {0} : x * y \in Nat \ {0}
    OBVIOUS
  <2>2. QED
    BY <2>1, ClockAssumption
<1>2. \A x \in Int : \A y \in Nat \ {0} : (x \div y) * y \in Int
  <2>1. \A x \in Int : \A y \in Nat \ {0} : (x \div y) \in Int /\ y \in Int
    OBVIOUS
  <2>2. QED
    BY <2>1, Products
<1>3. QED
  BY <1>1, <1>2 DEF Day, Midnight

LEMMA WrappedIsInt == \A x \in Int : Wrapped(x) \in Int
<1>1. \A w \in Nat \ {0}, x \in Int :
        ((x + (w \div 2)) % w) - (w \div 2) \in Int
  OBVIOUS
<1>2. QED
  BY <1>1, ClockAssumption DEF Wrapped

\* A bound that parses opens at one instant; only no bound opens at none.
LEMMA SpellingOpens ==
  ASSUME NEW b \in Spellings, NEW at \in Int
  PROVE  /\ b = NoBound => /\ ParseSince(b, at) = Accepted({})
                           /\ ParseUntil(b, at) = Accepted({})
         /\ b # NoBound /\ ParseSince(b, at).ok =>
              \E t \in Int : ParseSince(b, at).ends = {t}
         /\ b # NoBound /\ ParseUntil(b, at).ok =>
              \E t \in Int : ParseUntil(b, at).ends = {t}
<1>1. \A m \in Int : bound(m, at).ok => \E t \in Int : bound(m, at).ends = {t}
  BY BoundOpens
<1>2. ~Refused.ok
  BY DEF Refused
<1>3. b = NoBound => /\ ParseSince(b, at) = Accepted({})
                     /\ ParseUntil(b, at) = Accepted({})
  BY DEF ParseSince, ParseUntil, NoBound
<1>4. ASSUME b # NoBound
      PROVE  /\ b.form \in {"today", "yesterday", "rfc3339", "date", "days",
                "window", "malformed"}
             /\ b.n \in Int
  BY <1>4 DEF Spellings
<1>5. ASSUME b # NoBound, ParseSince(b, at).ok
      PROVE  \E t \in Int : ParseSince(b, at).ends = {t}
  <2>a. b.n \in Int
    BY <1>4, <1>5
  <2>b. b.n * Day \in Int
    BY <2>a, DayIsInt, Products, Zenon
  <2>1. Midnight(at) \in Int /\ Midnight(at) - Day \in Int /\ b.n * Day \in Int
    BY <2>b, DayIsInt
  <2>2. CASE b.form \in {"today", "yesterday", "rfc3339", "date"}
    BY <1>1, <1>4, <1>5, <2>1, <2>2 DEF ParseSince
  <2>3. CASE b.form = "days"
    <3>1. parseDays(b.n).ok
      BY <1>2, <1>5, <2>3 DEF ParseSince
    <3>a. Hour \in Int /\ HoursPerDay \in Int
      BY ClockAssumption
    <3>b. b.n * Hour \in Int
      BY <2>a, <3>a, Products, Zenon
    <3>2. b.n * Hour \in Int /\ b.n * Hour * HoursPerDay \in Int
      BY <3>a, <3>b, Products, Zenon
    <3>3. PICK d \in Int : parseDays(b.n).ends = {d}
      BY <3>1, <3>2, <1>2, WrappedIsInt DEF parseDays, Accepted
    <3>4. (CHOOSE x \in parseDays(b.n).ends : TRUE) = d
      BY <3>3
    <3>5. ParseSince(b, at) = bound(at - d, at)
      BY <2>3, <3>1, <3>4 DEF ParseSince
    <3>6. at - d \in Int /\ bound(at - d, at).ok
      BY <1>5, <3>5
    <3>7. QED
      BY <1>1, <3>5, <3>6
  <2>4. CASE b.form = "window"
    BY <1>1, <1>2, <1>4, <1>5, <2>4 DEF ParseSince
  <2>5. CASE b.form = "malformed"
    BY <1>2, <1>5, <2>5 DEF ParseSince
  <2>6. QED
    BY <1>4, <1>5, <2>2, <2>3, <2>4, <2>5
<1>6. ASSUME b # NoBound, ParseUntil(b, at).ok
      PROVE  \E t \in Int : ParseUntil(b, at).ends = {t}
  <2>1. (b.n + 1) * Day \in Int /\ Midnight(at) + Day \in Int
        /\ Midnight(at) \in Int
    BY <1>4, <1>6, DayIsInt, Products
  <2>2. CASE b.form \in {"date", "today", "yesterday"}
    BY <2>1, <2>2 DEF ParseUntil, Accepted
  <2>3. CASE b.form \notin {"date", "today", "yesterday"}
    BY <1>5, <1>6, <2>3 DEF ParseUntil
  <2>4. QED
    BY <2>2, <2>3
<1>7. QED
  BY <1>3, <1>5, <1>6

\* What a step is written with reads back as what was written.
LEMMA FormatSteady ==
  ASSUME NEW t \in Int
  PROVE  /\ t - (t % TicksPerSecond) \in Int
         /\ Format(Format({t})) = Format({t})
<1>1. \A w \in Nat \ {0}, x \in Int :
        x - (x % w) \in Int /\ (x - (x % w)) % w = 0
  OBVIOUS
<1>2. t - (t % TicksPerSecond) \in Int
      /\ (t - (t % TicksPerSecond)) % TicksPerSecond = 0
  BY <1>1, ClockAssumption
<1> DEFINE r == t - (t % TicksPerSecond)
<1>3. Format({t}) = {r}
  BY FormatOne
<1>4. Format({r}) = {r - (r % TicksPerSecond)}
  BY <1>2, FormatOne
<1>5. r - (r % TicksPerSecond) = r
  BY <1>2
<1> HIDE DEF r
<1>6. Format(Format({t})) = Format({t})
  BY <1>3, <1>4, <1>5
<1>7. QED
  BY <1>2, <1>6

\* The ends of a step's window, written by the planner.
Written(E, b) ==
  /\ E \in SUBSET Int /\ Format(E) = E
  /\ E = {} <=> b = NoBound
  /\ E = {} \/ \E r \in Int : E = {r}

LEMMA StepWindow ==
  ASSUME NEW b \in Spellings, NEW at \in Int
  PROVE  /\ ParseSince(b, at).ok => Written(Format(ParseSince(b, at).ends), b)
         /\ ParseUntil(b, at).ok => Written(Format(ParseUntil(b, at).ends), b)
<1> USE DEF Written
<1>1. \A t \in Int : \E r \in Int : Format({t}) = {r}
      /\ Format(Format({t})) = Format({t})
  BY FormatOne, FormatSteady
<1>2. Accepted({}).ends = {} /\ Format({}) = {}
  BY FormatNone DEF Accepted
<1>3. CASE b = NoBound
  BY <1>2, <1>3, SpellingOpens
<1>4. CASE b # NoBound
  <2>1. ASSUME ParseSince(b, at).ok
        PROVE  \E r \in Int : /\ Format(ParseSince(b, at).ends) = {r}
                                 /\ Format({r}) = {r}
    <3>1. PICK t \in Int : ParseSince(b, at).ends = {t}
      BY <1>4, <2>1, SpellingOpens
    <3>2. QED
      BY <1>1, <3>1
  <2>2. ASSUME ParseUntil(b, at).ok
        PROVE  \E r \in Int : /\ Format(ParseUntil(b, at).ends) = {r}
                                 /\ Format({r}) = {r}
    <3>1. PICK t \in Int : ParseUntil(b, at).ends = {t}
      BY <1>4, <2>2, SpellingOpens
    <3>2. QED
      BY <1>1, <3>1
  <2>3. QED
    BY <1>4, <2>1, <2>2
<1>5. QED
  BY <1>3, <1>4

\* A written window still in bounds reads back as it was written.
LEMMA SettledReadsBack ==
  ASSUME NEW E \in SUBSET Int, NEW at \in Int, E = {} \/ \E r \in Int : E = {r},
         \A t \in E : at - MaxSinceAge <= t /\ t <= at + Minute
  PROVE  /\ ParseSince(FromPlan(E), at).ok
            /\ ParseSince(FromPlan(E), at).ends = E
         /\ ParseUntil(FromPlan(E), at).ok
            /\ ParseUntil(FromPlan(E), at).ends = E
<1>1. CASE E = {}
  BY <1>1 DEF FromPlan, NoBound, ParseSince, ParseUntil, Accepted
<1>2. ASSUME NEW r \in Int, E = {r}
      PROVE  ParseSince(FromPlan(E), at).ok
             /\ ParseSince(FromPlan(E), at).ends = E
  <2>1. (CHOOSE t \in E : TRUE) = r /\ E # {}
    BY <1>2
  <2>2. FromPlan(E) = [form |-> "rfc3339", n |-> r]
    BY <2>1 DEF FromPlan
  <2>3. ParseSince(FromPlan(E), at) = bound(r, at)
    BY <2>2 DEF ParseSince
  <2>4. ~(r > at + Minute \/ at - r > MaxSinceAge)
    BY <1>2, ClockAssumption
  <2>5. bound(r, at) = Accepted({r})
    BY <2>4 DEF bound
  <2>6. QED
    BY <1>2, <2>3, <2>5 DEF Accepted
<1>3. QED
  BY <1>1, <1>2, ReadBack

-----------------------------------------------------------------------------
(* What a plan carries, and that it verifies.                               *)

\* What the planner normalizes, it leaves alone the second time.
LEMMA NormalizeSteady ==
  \A name :
    /\ normalizeSeverity(normalizeSeverity(name)) = normalizeSeverity(name)
    /\ normalizeSeverity(name) = "" <=> name = ""
BY DEF normalizeSeverity

LEMMA LimitSteady ==
  /\ \A n : resolveLimit(resolveLimit(n)) = resolveLimit(n)
     /\ (n # 0 => resolveLimit(n) = n)
  /\ \A n \in Int : ~(n < 0 \/ n > MaxMonitoringLimit) =>
        ~(resolveLimit(n) < 0 \/ resolveLimit(n) > MaxMonitoringLimit)
<1>1. \A n : resolveLimit(n) = IF n = 0 THEN 25 ELSE n
  BY DEF resolveLimit, DefaultMonitoringLimit
<1>2. \A n : resolveLimit(resolveLimit(n)) = resolveLimit(n)
      /\ (n # 0 => resolveLimit(n) = n)
  BY <1>1
<1>3. QED
  BY <1>1, <1>2 DEF MaxMonitoringLimit

LEMMA QuerySteady ==
  \A q : TrimSpace(TrimSpace(q)) = TrimSpace(q)
BY DEF TrimSpace

\* What narrows a request is in the step.
Carries(step, req, p) ==
  /\ step.host = req.host
  /\ req.resource # "" => step.path = p.resources[req.resource].path
  /\ req.since # NoBound => step.since # {}
  /\ req.until # NoBound => step.until # {}
  /\ step.match = req.match
  /\ req.severity # "" => step.severity # ""
  /\ req.state # "" => step.state # ""
  /\ req.limit # 0 => step.limit = req.limit

LEMMA StepCarries ==
  ASSUME NEW req, NEW p, NEW at \in Int, Permits(req, p, at),
         req.since \in Spellings, req.until \in Spellings
  PROVE  Carries(StepFor(req, p, at), req, p)
<1> USE DEF Carries
<1>1. CommonAllows(req, at) /\ IntentAllows(req, p)
  BY Permitted
<1>2. ParseSince(req.since, at).ok /\ ParseUntil(req.until, at).ok
  BY <1>1 DEF CommonAllows
<1>3. /\ req.since # NoBound => SinceStep(req, at) # {}
      /\ req.until # NoBound => UntilStep(req, at) # {}
  BY <1>2, StepWindow DEF SinceStep, UntilStep, Written
<1>4. req.intent \in AllIntents
  BY <1>1 DEF IntentAllows, AllIntents, Monitoring, Tickets
<1>5. req.intent \notin Monitoring =>
        req.match = "" /\ req.severity = "" /\ req.state = "" /\ req.limit = 0
  BY <1>1 DEF CommonAllows, HasSelectors
<1> USE DEF StepFor, NoStep, Monitoring, Tickets
<1>6. CASE req.intent = "fleet.inventory"
  <2>1. req.host = "" /\ req.resource = "" /\ req.since = NoBound
        /\ req.until = NoBound
    BY <1>1, <1>6 DEF IntentAllows, HasBounds
  <2>2. QED
    BY <1>5, <1>6, <2>1 DEF InventoryStep
<1>7. CASE req.intent = "agent.status"
  <2>1. req.resource = "" /\ req.since = NoBound /\ req.until = NoBound
    BY <1>1, <1>7 DEF IntentAllows, HostAllows, HasBounds
  <2>2. QED
    BY <1>5, <1>7, <2>1 DEF StatusStep
<1>8. CASE req.intent \in Monitoring
  <2>1. req.resource = ""
    BY <1>1, <1>8 DEF IntentAllows, OptionalHostAllows
  <2>2. QED
    BY <1>3, <1>8, <2>1, NormalizeSteady, LimitSteady DEF MonitoringStep
<1>9. CASE req.intent = "database.query"
  <2>1. req.host = "" /\ req.resource = "" /\ req.since = NoBound
        /\ req.until = NoBound
    BY <1>1, <1>9 DEF IntentAllows, HasBounds
  <2>2. QED
    BY <1>5, <1>9, <2>1 DEF QueryStep
<1>10. CASE req.intent = "live.evidence"
  <2>1. req.since = NoBound /\ req.until = NoBound
    BY <1>1, <1>10 DEF IntentAllows, LiveAllows, HasBounds
  <2>2. QED
    BY <1>5, <1>10, <2>1 DEF planLiveEvidence
<1>11. CASE req.intent \in Tickets
  <2>1. req.resource = ""
    BY <1>1, <1>11 DEF IntentAllows, HostAllows
  <2>2. QED
    BY <1>3, <1>5, <1>11, <2>1 DEF TicketStep
<1>12. QED
  BY <1>4, <1>6, <1>7, <1>8, <1>9, <1>10, <1>11 DEF AllIntents

\* The requests a candidate is made from.
Bare(intent) == [NoRequest EXCEPT !.intent = intent]

WindowOf(step, intent) ==
  [Bare(intent) EXCEPT !.since = FromPlan(step.since),
                       !.until = FromPlan(step.until)]

\* A window the verifier accepts at a moment.
SettledAt(step, at) ==
  /\ \A t \in step.since \cup step.until :
       at - MaxSinceAge <= t /\ t <= at + Minute
  /\ \A s \in step.since, u \in step.until : s < u

\* A candidate without a window passes the shared checks.
LEMMA BareAllows ==
  ASSUME NEW at \in Int, NEW req, req.since = NoBound, req.until = NoBound,
         req.intent \in Monitoring \/ ~HasSelectors(req)
  PROVE  CommonAllows(req, at)
<1>1. NoBound \in Spellings
  BY DEF Spellings
<1>2. ParseSince(NoBound, at) = Accepted({})
      /\ ParseUntil(NoBound, at) = Accepted({})
  BY <1>1, SpellingOpens
<1>3. QED
  BY <1>2 DEF CommonAllows, Accepted, WindowCloses

\* A candidate with a settled window passes them, and carries that window.
LEMMA WindowAllows ==
  ASSUME NEW at \in Int, NEW req, NEW E, NEW F, NEW b, NEW d,
         req.since = FromPlan(E), req.until = FromPlan(F), Written(E, b),
         Written(F, d),
         \A t \in E \cup F : at - MaxSinceAge <= t /\ t <= at + Minute,
         \A s \in E, u \in F : s < u,
         req.intent \in Monitoring \/ ~HasSelectors(req)
  PROVE  CommonAllows(req, at) /\ SinceStep(req, at) = E
         /\ UntilStep(req, at) = F
<1>1. ParseSince(req.since, at).ok /\ ParseSince(req.since, at).ends = E
  BY SettledReadsBack DEF Written
<1>2. ParseUntil(req.until, at).ok /\ ParseUntil(req.until, at).ends = F
  BY SettledReadsBack DEF Written
<1>3. \A s \in E, u \in F : u > s
  BY DEF Written
<1>4. QED
  BY <1>1, <1>2, <1>3
     DEF CommonAllows, WindowCloses, SinceStep, UntilStep, Written

\* The plan of a permitted request verifies, while its window is settled.
LEMMA PlanReadsBack ==
  ASSUME NEW req, NEW p, NEW from \in Int, NEW at \in Int,
         Permits(req, p, from),
         req.since \in Spellings, req.until \in Spellings, req.limit \in Int,
         SettledAt(StepFor(req, p, from), at)
  PROVE  Verify(Plan(req, p, from), p, at)
<1> DEFINE plan == Plan(req, p, from)
           step == StepFor(req, p, from)
<1> USE DEF Monitoring, Tickets
<1>1. plan.steps = <<step>> /\ plan.intent = req.intent /\ plan.steps[1] = step
      /\ plan.steps # <<>>
  BY DEF Plan, newPlan
<1>2. CommonAllows(req, from) /\ IntentAllows(req, p)
  BY Permitted
<1>3. req.intent \in AllIntents
  BY <1>2 DEF IntentAllows, AllIntents, Monitoring, Tickets
<1>4. req.intent \notin Monitoring =>
        req.match = "" /\ req.severity = "" /\ req.state = "" /\ req.limit = 0
  BY <1>2 DEF CommonAllows, HasSelectors
<1>5. ASSUME NEW c \in candidateRequests(plan, p), c.intent = req.intent,
             CommonAllows(c, at), IntentAllows(c, p), StepFor(c, p, at) = step
      PROVE  Verify(plan, p, at)
  <2>1. Permits(c, p, at)
    BY <1>5, Permitted
  <2>2. Plan(c, p, at) = plan
    BY <1>5 DEF Plan
  <2>3. QED
    BY <1>1, <1>5, <2>1, <2>2 DEF Verify
<1>6. CASE req.intent = "fleet.inventory"
  <2> DEFINE c == Bare(req.intent)
  <2>1. c \in candidateRequests(plan, p)
    BY <1>1, <1>6 DEF candidateRequests, Bare
  <2>2. c.intent = req.intent /\ c.since = NoBound /\ c.until = NoBound
        /\ ~HasSelectors(c)
        /\ c.host = "" /\ c.resource = ""
    BY DEF Bare, NoRequest, HasSelectors
  <2> HIDE DEF c
  <2>3. CommonAllows(c, at) /\ ~HasBounds(c)
    BY <2>2, BareAllows DEF HasBounds
  <2>4. IntentAllows(c, p)
    BY <1>6, <2>2, <2>3 DEF IntentAllows
  <2>5. StepFor(c, p, at) = step
    BY <1>6, <2>2 DEF StepFor
  <2>6. QED
    BY <1>5, <2>1, <2>2, <2>3, <2>4, <2>5
<1>7. CASE req.intent = "agent.status"
  <2> DEFINE c == [Bare(req.intent) EXCEPT !.host = step.host]
  <2>1. c \in candidateRequests(plan, p)
    BY <1>1, <1>7 DEF candidateRequests, Bare
  <2>a. step.host = req.host /\ step = StatusStep(req)
    BY <1>7 DEF StepFor, StatusStep, NoStep
  <2>2. c.intent = req.intent /\ c.since = NoBound /\ c.until = NoBound
        /\ ~HasSelectors(c)
        /\ c.host = req.host /\ c.resource = ""
    BY <2>a DEF Bare, NoRequest, HasSelectors
  <2> HIDE DEF c
  <2>3. CommonAllows(c, at) /\ ~HasBounds(c)
    BY <2>2, BareAllows DEF HasBounds
  <2>4. IntentAllows(c, p)
    BY <1>2, <1>7, <2>2, <2>3 DEF IntentAllows, HostAllows
  <2>5. StepFor(c, p, at) = step
    BY <1>7, <2>a, <2>2 DEF StepFor, StatusStep
  <2>6. QED
    BY <1>5, <2>1, <2>2, <2>3, <2>4, <2>5
<1>8. CASE req.intent = "database.query"
  <2> DEFINE c == [Bare(req.intent) EXCEPT !.query = step.query]
  <2>1. c \in candidateRequests(plan, p)
    BY <1>1, <1>8 DEF candidateRequests, Bare, Monitoring, Tickets
  <2>a. step.query = TrimSpace(req.query) /\ step = QueryStep(req)
    BY <1>8 DEF StepFor, QueryStep, NoStep, Monitoring, Tickets
  <2>2. c.intent = req.intent /\ c.since = NoBound /\ c.until = NoBound
        /\ ~HasSelectors(c)
        /\ c.host = "" /\ c.resource = "" /\ c.query = TrimSpace(req.query)
    BY <2>a DEF Bare, NoRequest, HasSelectors
  <2> HIDE DEF c
  <2>3. CommonAllows(c, at) /\ ~HasBounds(c)
    BY <2>2, BareAllows DEF HasBounds
  <2>4. IntentAllows(c, p)
    BY <1>2, <1>8, <2>2, <2>3, QuerySteady DEF IntentAllows, ValidateQuery
  <2>5. StepFor(c, p, at) = step
    <3>1. TrimSpace(c.query) = TrimSpace(req.query)
      BY <2>2, QuerySteady
    <3>2. QueryStep(c) = QueryStep(req)
      BY <3>1, Zenon DEF QueryStep
    <3>3. QED
      BY <1>8, <2>a, <2>2, <3>2 DEF StepFor
  <2>6. QED
    BY <1>5, <2>1, <2>2, <2>3, <2>4, <2>5
<1>9. CASE req.intent = "live.evidence"
  <2> DEFINE c == [Bare(req.intent) EXCEPT !.host = step.host,
             !.resource = req.resource]
  <2>a. step.host = req.host
        /\ step = planLiveEvidence(req.host, p.resources[req.resource])
    BY <1>9 DEF StepFor, planLiveEvidence, NoStep, Monitoring, Tickets
  <2>b. LiveAllows(req, p)
    BY <1>2, <1>9 DEF IntentAllows
  <2>1. c \in candidateRequests(plan, p)
    BY <1>1, <1>9, <2>a, <2>b
       DEF candidateRequests, Bare, Monitoring, Tickets, LiveAllows
  <2>2. c.intent = req.intent /\ c.since = NoBound /\ c.until = NoBound
        /\ ~HasSelectors(c)
        /\ c.host = req.host /\ c.resource = req.resource
    BY <2>a DEF Bare, NoRequest, HasSelectors
  <2> HIDE DEF c
  <2>3. CommonAllows(c, at) /\ ~HasBounds(c)
    BY <2>2, BareAllows DEF HasBounds
  <2>4. IntentAllows(c, p)
    BY <1>9, <2>b, <2>2, <2>3 DEF IntentAllows, LiveAllows
  <2>5. StepFor(c, p, at) = step
    BY <1>9, <2>a, <2>2 DEF StepFor, Monitoring, Tickets
  <2>6. QED
    BY <1>5, <2>1, <2>2, <2>3, <2>4, <2>5
<1>10. ASSUME req.intent \in Windowed
       PROVE  Written(step.since, req.since) /\ Written(step.until, req.until)
  <2>1. step.since = SinceStep(req, from) /\ step.until = UntilStep(req, from)
    BY <1>10 DEF StepFor, Windowed, Monitoring, Tickets, MonitoringStep,
       TicketStep, NoStep
  <2>2. ParseSince(req.since, from).ok /\ ParseUntil(req.until, from).ok
    BY <1>2 DEF CommonAllows
  <2>3. QED
    BY <2>1, <2>2, StepWindow DEF SinceStep, UntilStep
<1>11. /\ \A t \in step.since \cup step.until : at - MaxSinceAge <= t
          /\ t <= at + Minute
       /\ \A s \in step.since, u \in step.until : s < u
  BY DEF SettledAt
<1> HIDE DEF step
<1>12. CASE req.intent \in Tickets
  <2> DEFINE c == IF req.intent = "tickets.open" THEN WindowOf(step, req.intent)
                  ELSE [WindowOf(step, req.intent) EXCEPT !.host = step.host]
  <2>a. step.host = req.host /\ step = TicketStep(req, from)
    BY <1>12 DEF step, StepFor, TicketStep, NoStep, Monitoring, Tickets
  <2>b. req.intent = "tickets.open" => req.host = ""
    BY <1>2 DEF IntentAllows
  <2>1. c \in candidateRequests(plan, p)
    BY <1>1, <1>12 DEF candidateRequests, WindowOf, Bare
  <2>2. c.intent = req.intent /\ c.since = FromPlan(step.since)
        /\ c.until = FromPlan(step.until)
        /\ ~HasSelectors(c) /\ c.host = req.host /\ c.resource = ""
    BY <2>a, <2>b DEF WindowOf, Bare, NoRequest, HasSelectors
  <2> HIDE DEF c
  <2>3. CommonAllows(c, at) /\ SinceStep(c, at) = step.since
        /\ UntilStep(c, at) = step.until
    <3>1. c.intent \in Monitoring \/ ~HasSelectors(c)
      BY <1>12, <2>2
    <3>2. Written(step.since, req.since) /\ Written(step.until, req.until)
      BY <1>10, <1>12 DEF Windowed
    <3>3. QED
      BY <1>11, <2>2, <3>1, <3>2, WindowAllows
  <2>4. IntentAllows(c, p)
    BY <1>2, <1>12, <2>b, <2>2 DEF IntentAllows, HostAllows, Tickets
  <2>5. StepFor(c, p, at) = step
    <3>1. step.since = SinceStep(req, from) /\ step.until = UntilStep(req, from)
      BY <2>a DEF TicketStep, NoStep
    <3>2. TicketStep(c, at) = TicketStep(req, from)
      BY <2>2, <2>3, <3>1 DEF TicketStep
    <3>3. StepFor(c, p, at) = TicketStep(c, at)
      BY <1>12, <2>2 DEF StepFor, Monitoring, Tickets
    <3>4. QED
      BY <2>a, <3>2, <3>3
  <2>6. QED
    BY <1>5, <2>1, <2>2, <2>3, <2>4, <2>5
<1>13. CASE req.intent \in Monitoring
  <2> DEFINE c == [WindowOf(step, req.intent) EXCEPT
                     !.host = step.host, !.match = step.match,
                     !.severity = step.severity, !.state = step.state,
                     !.limit = step.limit]
  <2>a. /\ step.host = req.host /\ step.match = req.match
        /\ step.severity = normalizeSeverity(req.severity)
        /\ step.state = normalizeSeverity(req.state)
        /\ step.limit = resolveLimit(req.limit)
        /\ step = MonitoringStep(req, from)
    BY <1>13 DEF step, StepFor, MonitoringStep, NoStep
  <2>1. c \in candidateRequests(plan, p)
    BY <1>1, <1>13 DEF candidateRequests, WindowOf, Bare, Monitoring, Tickets
  <2>2. c.intent = req.intent /\ c.since = FromPlan(step.since)
        /\ c.until = FromPlan(step.until)
        /\ c.host = step.host /\ c.resource = "" /\ c.match = step.match
        /\ c.severity = step.severity /\ c.state = step.state
           /\ c.limit = step.limit
    BY DEF WindowOf, Bare, NoRequest
  <2> HIDE DEF c
  <2>3. CommonAllows(c, at) /\ SinceStep(c, at) = step.since
        /\ UntilStep(c, at) = step.until
    <3>1. c.intent \in Monitoring \/ ~HasSelectors(c)
      BY <1>13, <2>2
    <3>2. Written(step.since, req.since) /\ Written(step.until, req.until)
      BY <1>10, <1>13 DEF Windowed
    <3>3. c.since = FromPlan(step.since) /\ c.until = FromPlan(step.until)
      BY <2>2
    <3>4. QED
      BY <1>11, <3>1, <3>2, <3>3, WindowAllows
  <2>4. ASSUME NEW allowState, SelectorsAllow(req, allowState)
        PROVE  SelectorsAllow(c, allowState)
    <3>1. ~(req.limit < 0 \/ req.limit > MaxMonitoringLimit)
      BY <2>4 DEF SelectorsAllow
    <3>2. ~(c.limit < 0 \/ c.limit > MaxMonitoringLimit)
      BY <2>2, <2>a, <3>1, LimitSteady
    <3>3. c.severity # "" => validateSeverity(c.severity)
      BY <2>2, <2>a, <2>4, NormalizeSteady DEF SelectorsAllow, validateSeverity
    <3>4. c.state # "" => allowState /\ validateState(c.state)
      BY <2>2, <2>a, <2>4, NormalizeSteady DEF SelectorsAllow, validateState
    <3>5. c.match # "" => validateMatch(c.match)
      BY <2>2, <2>a, <2>4 DEF SelectorsAllow
    <3>6. QED
      BY <3>2, <3>3, <3>4, <3>5, Zenon DEF SelectorsAllow
  <2>5. OptionalHostAllows(req) => OptionalHostAllows(c)
    BY <2>2, <2>a DEF OptionalHostAllows
  <2>6. req.since # NoBound => c.since # NoBound
    BY <1>10, <1>13, <2>2, ReadBack DEF Windowed, Written
  <2>7. IntentAllows(c, p)
    BY <1>2, <1>13, <2>2, <2>4, <2>5, <2>6 DEF IntentAllows, Monitoring
  <2>8. StepFor(c, p, at) = step
    <3>1. step.since = SinceStep(req, from) /\ step.until = UntilStep(req, from)
      BY <2>a DEF MonitoringStep, NoStep
    <3>2. MonitoringStep(c, at) = MonitoringStep(req, from)
      <4>1. /\ c.host = req.host /\ c.match = req.match /\ c.intent = req.intent
            /\ normalizeSeverity(c.severity) = normalizeSeverity(req.severity)
            /\ normalizeSeverity(c.state) = normalizeSeverity(req.state)
            /\ resolveLimit(c.limit) = resolveLimit(req.limit)
            /\ SinceStep(c, at) = SinceStep(req, from)
               /\ UntilStep(c, at) = UntilStep(req, from)
        BY <2>a, <2>2, <2>3, <3>1, NormalizeSteady, LimitSteady
      <4>2. QED
        BY <4>1, Zenon DEF MonitoringStep
    <3>3. StepFor(c, p, at) = MonitoringStep(c, at)
      BY <1>13, <2>2 DEF StepFor, Monitoring
    <3>4. QED
      BY <2>a, <3>2, <3>3
  <2>9. QED
    BY <1>5, <2>1, <2>2, <2>3, <2>7, <2>8
<1>14. QED
  BY <1>3, <1>6, <1>7, <1>8, <1>9, <1>12, <1>13 DEF AllIntents

-----------------------------------------------------------------------------
(* Which denial a request is given.                                         *)

\* Every set of naturals that has an element has a least one.
LEMMA LeastExists ==
  ASSUME NEW F \in SUBSET Nat, F # {}
  PROVE  \E i \in F : \A j \in F : i <= j
<1> DEFINE R == {ss \in Nat \X Nat : ss[1] < ss[2]}
<1>1. R = OpToRel(<, Nat)
  BY Zenon DEF OpToRel
<1>2. IsWellFoundedOn(R, Nat)
  BY <1>1, NatLessThanWellFounded, Zenon
<1>3. \A i, j \in Nat : j < i => <<j, i>> \in R
  OBVIOUS
<1> HIDE DEF R
<1>4. PICK i \in F : \A j \in F : ~(<<j, i>> \in R)
  BY <1>2, WFMin
<1>5. \A j \in F : ~(j < i)
  BY <1>3, <1>4
<1>6. QED
  BY <1>5

\* A sequence of checks whose codes are all in a set.
Reports(checks, codes) ==
  \E S : checks \in Seq(S) /\ \A v \in S : v.code \in codes

\* When some check fails, the denial is the code of the first that does.
LEMMA FirstFails ==
  ASSUME NEW checks, NEW codes, Reports(checks, codes), ~AllPass(checks)
  PROVE  \E i \in 1 .. Len(checks) :
           /\ checks[i].fails /\ \A j \in 1 .. Len(checks) : j < i
                => ~checks[j].fails
           /\ FirstDenial(checks) = checks[i].code
           /\ checks[i].code \in codes
<1> DEFINE failed == {i \in DOMAIN checks : checks[i].fails}
<1>1. PICK S : checks \in Seq(S) /\ \A v \in S : v.code \in codes
  BY DEF Reports
<1>2. DOMAIN checks = 1 .. Len(checks) /\ Len(checks) \in Nat
  BY <1>1, LenProperties
<1>3. failed \in SUBSET Nat /\ failed # {}
  BY <1>2 DEF AllPass
<1>4. \E i \in failed : \A j \in failed : i <= j
  BY <1>3, LeastExists
<1> DEFINE first == CHOOSE i \in failed : \A j \in failed : i <= j
<1>5. first \in failed /\ \A j \in failed : first <= j
  BY <1>4, Zenon
<1>6. FirstDenial(checks) = checks[first].code
  BY Zenon DEF FirstDenial
<1> HIDE DEF first
<1>7. first \in 1 .. Len(checks) /\ checks[first].fails
  BY <1>2, <1>5
<1>8. checks[first].code \in codes
  BY <1>1, <1>2, <1>7, ElementOfSeq
<1>9. \A j \in 1 .. Len(checks) : j < first => ~checks[j].fails
  BY <1>2, <1>5, <1>7
<1>10. QED
  BY <1>6, <1>7, <1>8, <1>9

\* Checks in a row report what their parts report.
LEMMA ReportsTogether ==
  ASSUME NEW s, NEW t, NEW codes, Reports(s, codes), Reports(t, codes)
  PROVE  Reports(s \o t, codes)
<1>1. PICK S : s \in Seq(S) /\ \A v \in S : v.code \in codes
  BY DEF Reports
<1>2. PICK T : t \in Seq(T) /\ \A v \in T : v.code \in codes
  BY DEF Reports
<1>3. s \in Seq(S \cup T) /\ t \in Seq(S \cup T)
  BY <1>1, <1>2, SeqMonotonic
<1>4. s \o t \in Seq(S \cup T)
  BY <1>3, ConcatProperties
<1>5. QED
  BY <1>1, <1>2, <1>4 DEF Reports

LEMMA ReportsBy ==
  ASSUME NEW codes, NEW S, NEW checks \in Seq(S), \A v \in S : v.code \in codes
  PROVE  Reports(checks, codes)
BY DEF Reports

\* A tuple of checks reports the codes it is made of.
LEMMA ReportsOne ==
  ASSUME NEW codes
  PROVE  \A a : a.code \in codes => Reports(<<a>>, codes)
<1> SUFFICES ASSUME NEW a, a.code \in codes
             PROVE  Reports(<<a>>, codes)
  OBVIOUS
<1> DEFINE S == {a}
           checks == <<a>>
<1>1. checks \in Seq(S)
  OBVIOUS
<1> HIDE DEF checks
<1>2. Reports(checks, codes)
  BY <1>1, ReportsBy
<1>3. QED
  BY <1>2 DEF checks

LEMMA ReportsTwo ==
  ASSUME NEW codes
  PROVE  \A a, b : a.code \in codes /\ b.code \in codes
           => Reports(<<a, b>>, codes)
<1> SUFFICES ASSUME NEW a, NEW b, a.code \in codes, b.code \in codes
             PROVE  Reports(<<a, b>>, codes)
  OBVIOUS
<1> DEFINE S == {a, b}
           checks == <<a, b>>
<1>1. checks \in Seq(S)
  OBVIOUS
<1> HIDE DEF checks
<1>2. Reports(checks, codes)
  BY <1>1, ReportsBy
<1>3. QED
  BY <1>2 DEF checks

LEMMA ReportsThree ==
  ASSUME NEW codes
  PROVE  \A a, b, c : a.code \in codes /\ b.code \in codes /\ c.code \in codes
           => Reports(<<a, b, c>>, codes)
<1> SUFFICES ASSUME NEW a, NEW b, NEW c, a.code \in codes, b.code \in codes,
                    c.code \in codes
             PROVE  Reports(<<a, b, c>>, codes)
  OBVIOUS
<1> DEFINE S == {a, b, c}
           checks == <<a, b, c>>
<1>1. checks \in Seq(S)
  OBVIOUS
<1> HIDE DEF checks
<1>2. Reports(checks, codes)
  BY <1>1, ReportsBy
<1>3. QED
  BY <1>2 DEF checks

LEMMA ReportsFour ==
  ASSUME NEW codes
  PROVE  \A a, b, c, d : a.code \in codes /\ b.code \in codes
         /\ c.code \in codes /\ d.code \in codes
              => Reports(<<a, b, c, d>>, codes)
<1> SUFFICES ASSUME NEW a, NEW b, NEW c, NEW d, a.code \in codes,
                    b.code \in codes, c.code \in codes, d.code \in codes
             PROVE  Reports(<<a, b, c, d>>, codes)
  OBVIOUS
<1> DEFINE S == {a, b, c, d}
           checks == <<a, b, c, d>>
<1>1. checks \in Seq(S)
  OBVIOUS
<1> HIDE DEF checks
<1>2. Reports(checks, codes)
  BY <1>1, ReportsBy
<1>3. QED
  BY <1>2 DEF checks

LEMMA ReportsFive ==
  ASSUME NEW codes
  PROVE  \A a, b, c, d, e : a.code \in codes /\ b.code \in codes
         /\ c.code \in codes /\ d.code \in codes /\ e.code \in codes
              => Reports(<<a, b, c, d, e>>, codes)
<1> SUFFICES ASSUME NEW a, NEW b, NEW c, NEW d, NEW e, a.code \in codes,
                    b.code \in codes, c.code \in codes, d.code \in codes,
                    e.code \in codes
             PROVE  Reports(<<a, b, c, d, e>>, codes)
  OBVIOUS
<1> DEFINE S == {a, b, c, d, e}
           checks == <<a, b, c, d, e>>
<1>1. checks \in Seq(S)
  OBVIOUS
<1> HIDE DEF checks
<1>2. Reports(checks, codes)
  BY <1>1, ReportsBy
<1>3. QED
  BY <1>2 DEF checks

LEMMA ReportsSeven ==
  ASSUME NEW codes
  PROVE  \A a, b, c, d, e, f, g : a.code \in codes /\ b.code \in codes
         /\ c.code \in codes /\ d.code \in codes /\ e.code \in codes
            /\ f.code \in codes /\ g.code \in codes
                 => Reports(<<a, b, c, d, e, f, g>>, codes)
<1> SUFFICES ASSUME NEW a, NEW b, NEW c, NEW d, NEW e, NEW f, NEW g,
                    a.code \in codes, b.code \in codes, c.code \in codes,
                    d.code \in codes, e.code \in codes, f.code \in codes,
                    g.code \in codes
             PROVE  Reports(<<a, b, c, d, e, f, g>>, codes)
  OBVIOUS
<1> DEFINE S == {a, b, c, d, e, f, g}
           checks == <<a, b, c, d, e, f, g>>
<1>1. checks \in Seq(S)
  OBVIOUS
<1> HIDE DEF checks
<1>2. Reports(checks, codes)
  BY <1>1, ReportsBy
<1>3. QED
  BY <1>2 DEF checks

\* The denials that are not an authorization outcome.
Malformed == Denials \ (AuthorizationCodes \cup {"invalid_policy"})

\* Which codes each group of checks reports.
LEMMA PartsReport ==
  ASSUME NEW req, NEW at, NEW allowState
  PROVE  /\ Reports(CommonChecks(req, at), Malformed)
         /\ Reports(requireHostOnly(req), Malformed)
         /\ Reports(OptionalHost(req), Malformed)
         /\ Reports(monitoringSelectors(req, allowState), Malformed)
         /\ NoWindow(req).code \in Malformed
            /\ NoHostOrResource(req).code \in Malformed
         /\ Len(CommonChecks(req, at)) = 4
<1>1. \A f : \A code \in Malformed : Check(f, code).code \in Malformed
  BY Zenon DEF Check
<1>2. /\ "invalid_since" \in Malformed /\ "invalid_until" \in Malformed
      /\ "invalid_request" \in Malformed /\ "missing_host" \in Malformed
      /\ "invalid_host" \in Malformed /\ "invalid_match" \in Malformed
      /\ "invalid_severity" \in Malformed /\ "invalid_state" \in Malformed
      /\ "invalid_limit" \in Malformed
  BY DEF Malformed, Denials, AuthorizationCodes
<1>3. Reports(CommonChecks(req, at), Malformed)
  BY <1>1, <1>2, ReportsFour, Zenon DEF CommonChecks
<1>4. Reports(requireHostOnly(req), Malformed)
  <2>1. /\ Check(req.host = "", "missing_host").code \in Malformed
        /\ Check(req.resource # "", "invalid_request").code \in Malformed
        /\ Check(req.host \notin WellFormedHosts,
           "invalid_host").code \in Malformed
    BY <1>1, <1>2, Zenon
  <2>2. QED
    BY <2>1, ReportsThree, Zenon DEF requireHostOnly
<1>5. Reports(OptionalHost(req), Malformed)
  BY <1>1, <1>2, ReportsTwo, Zenon DEF OptionalHost
<1>6. Reports(monitoringSelectors(req, allowState), Malformed)
  <2>1. /\ Check(req.match # "" /\ ~validateMatch(req.match),
           "invalid_match").code \in Malformed
        /\ Check(req.severity # "" /\ ~validateSeverity(req.severity),
                 "invalid_severity").code \in Malformed
        /\ Check(req.state # "" /\ ~allowState,
           "invalid_request").code \in Malformed
        /\ Check(req.state # "" /\ ~validateState(req.state),
           "invalid_state").code \in Malformed
        /\ Check(req.limit < 0 \/ req.limit > MaxMonitoringLimit,
           "invalid_limit").code \in Malformed
    BY <1>1, <1>2, Zenon
  <2>2. QED
    BY <2>1, ReportsFive, Zenon DEF monitoringSelectors
<1>7. NoWindow(req).code \in Malformed
      /\ NoHostOrResource(req).code \in Malformed
  BY <1>1, <1>2, Zenon DEF NoWindow, NoHostOrResource
<1>8. Len(CommonChecks(req, at)) = 4
  <2>1. \A a, b, c, d : Len(<<a, b, c, d>>) = 4
    OBVIOUS
  <2>2. QED
    BY <2>1, Zenon DEF CommonChecks
<1>9. QED
  BY <1>3, <1>4, <1>5, <1>6, <1>7, <1>8, Zenon
\* Only the handler of live evidence reports an authorization outcome.
LEMMA IntentReports ==
  ASSUME NEW req, NEW p
  PROVE  /\ Reports(IntentChecks(req, p), Denials \ {"invalid_policy"})
         /\ req.intent # "live.evidence"
              => Reports(IntentChecks(req, p), Malformed)
<1> DEFINE Known == Denials \ {"invalid_policy"}
<1>1. /\ \A f : \A code \in Malformed : Check(f, code).code \in Malformed
      /\ \A f : \A code \in Known : Check(f, code).code \in Known
  BY Zenon DEF Check
<1>2. Malformed \subseteq Known
  BY DEF Malformed
<1>3. ASSUME NEW checks, Reports(checks, Malformed) PROVE Reports(checks, Known)
  BY <1>2, <1>3 DEF Reports
<1>4. /\ "invalid_query" \in Malformed /\ "missing_since" \in Malformed
         /\ "unknown_intent" \in Malformed
      /\ "missing_host" \in Known /\ "invalid_host" \in Known
         /\ "missing_resource" \in Known
      /\ "invalid_resource" \in Known /\ "invalid_request" \in Known
      /\ "host_not_authorized" \in Known /\ "resource_not_authorized" \in Known
  BY DEF Malformed, Denials, AuthorizationCodes
<1> USE DEF IntentChecks
<1>5. CASE req.intent = "fleet.inventory"
  <2>1. Reports(<<NoHostOrResource(req), NoWindow(req)>>, Malformed)
    BY PartsReport, ReportsTwo, Zenon
  <2>2. IntentChecks(req, p) = <<NoHostOrResource(req), NoWindow(req)>>
    BY <1>5
  <2>3. QED
    BY <1>3, <2>1, <2>2, Zenon
<1>6. CASE req.intent = "agent.status"
  <2>1. Reports(<<NoWindow(req)>>, Malformed)
    BY PartsReport, ReportsOne, Zenon
  <2>2. Reports(requireHostOnly(req) \o <<NoWindow(req)>>, Malformed)
    BY <2>1, PartsReport, ReportsTogether, Zenon
  <2>3. IntentChecks(req, p) = requireHostOnly(req) \o <<NoWindow(req)>>
    BY <1>6
  <2>4. QED
    BY <1>3, <2>2, <2>3, Zenon
<1>7. CASE req.intent = "monitoring.problems"
  <2>1. Reports(OptionalHost(req) \o monitoringSelectors(req, FALSE), Malformed)
    BY PartsReport, ReportsTogether, Zenon
  <2>2. IntentChecks(req, p) = OptionalHost(req)
        \o monitoringSelectors(req, FALSE)
    BY <1>7
  <2>3. QED
    BY <1>3, <2>1, <2>2, Zenon
<1>8. CASE req.intent = "monitoring.history"
  <2> DEFINE since == Check(req.since = NoBound, "missing_since")
  <2>1. since.code \in Malformed
    BY <1>1, <1>4, Zenon
  <2> HIDE DEF since
  <2>2. Reports(<<since>>, Malformed)
    BY <2>1, ReportsOne, Zenon
  <2>3. Reports(OptionalHost(req) \o <<since>>, Malformed)
    BY <2>2, PartsReport, ReportsTogether, Zenon
  <2>4. Reports(OptionalHost(req) \o <<since>>
        \o monitoringSelectors(req, TRUE), Malformed)
    BY <2>3, PartsReport, ReportsTogether, Zenon
  <2>5. IntentChecks(req, p) = OptionalHost(req) \o <<since>>
        \o monitoringSelectors(req, TRUE)
    BY <1>8 DEF since
  <2>6. QED
    BY <1>3, <2>4, <2>5, Zenon
<1>9. CASE req.intent = "database.query"
  <2> DEFINE query == Check(~ValidateQuery(req.query), "invalid_query")
  <2>1. query.code \in Malformed
    BY <1>1, <1>4, Zenon
  <2>2. IntentChecks(req, p) = <<NoHostOrResource(req), NoWindow(req), query>>
    BY <1>9
  <2> HIDE DEF query
  <2>3. Reports(<<NoHostOrResource(req), NoWindow(req), query>>, Malformed)
    BY <2>1, PartsReport, ReportsThree, Zenon
  <2>4. QED
    BY <1>3, <2>2, <2>3, Zenon
<1>10. CASE req.intent = "live.evidence"
  <2> DEFINE a == Check(req.host = "", "missing_host")
             b == Check(req.host \notin WellFormedHosts, "invalid_host")
             c == Check(req.resource = "", "missing_resource")
             d == Check(req.resource \notin WellFormedNames, "invalid_resource")
             e == Check(HasBounds(req), "invalid_request")
             f == Check(req.host \notin DOMAIN p.hosts, "host_not_authorized")
             g == Check(req.host \in DOMAIN p.hosts
                          /\ req.resource \notin p.hosts[req.host],
                        "resource_not_authorized")
  <2>1. liveEvidenceChecks(req, p) = <<a, b, c, d, e, f, g>>
    BY Zenon DEF liveEvidenceChecks
  <2>2. /\ a.code \in Known /\ b.code \in Known /\ c.code \in Known
           /\ d.code \in Known
        /\ e.code \in Known /\ f.code \in Known /\ g.code \in Known
    BY <1>1, <1>4, Zenon
  <2>3. IntentChecks(req, p) = liveEvidenceChecks(req, p)
    BY <1>10
  <2> HIDE DEF a, b, c, d, e, f, g
  <2>4. Reports(<<a, b, c, d, e, f, g>>, Known)
    BY <2>2, ReportsSeven
  <2>5. QED
    BY <1>10, <2>1, <2>3, <2>4
<1>11. CASE req.intent = "tickets.open"
  <2>1. Reports(<<NoHostOrResource(req)>>, Malformed)
    BY PartsReport, ReportsOne, Zenon
  <2>2. IntentChecks(req, p) = <<NoHostOrResource(req)>>
    BY <1>11
  <2>3. QED
    BY <1>3, <2>1, <2>2, Zenon
<1>12. CASE req.intent = "tickets.for_host"
  <2>1. IntentChecks(req, p) = requireHostOnly(req)
    BY <1>12
  <2>2. QED
    BY <1>3, <2>1, PartsReport, Zenon
<1>13. CASE req.intent \notin AllIntents
  <2> DEFINE unknown == Check(TRUE, "unknown_intent")
  <2>1. unknown.code \in Malformed
    BY <1>1, <1>4, Zenon
  <2>2. IntentChecks(req, p) = <<unknown>>
    BY <1>13 DEF AllIntents, Monitoring, Tickets
  <2> HIDE DEF unknown
  <2>3. Reports(<<unknown>>, Malformed)
    BY <2>1, ReportsOne, Zenon
  <2>4. QED
    BY <1>3, <2>2, <2>3, Zenon
<1>14. QED
  BY <1>5, <1>6, <1>7, <1>8, <1>9, <1>10, <1>11, <1>12, <1>13
     DEF AllIntents, Monitoring, Tickets

\* A denied request is given a denial, and one of the broker's own.
LEMMA DenialIsKnown ==
  ASSUME NEW req, NEW p, NEW at, ~Permits(req, p, at)
  PROVE  Denial(req, p, at) \in Denials \ {"invalid_policy"}
<1> DEFINE s == CommonChecks(req, at)
           t == IntentChecks(req, p)
           Known == Denials \ {"invalid_policy"}
<1>1. Malformed \subseteq Known
  BY DEF Malformed
<1>2. Reports(s, Known) /\ Reports(t, Known)
  BY <1>1, PartsReport, IntentReports DEF Reports
<1>3. Reports(s \o t, Known)
  BY <1>2, ReportsTogether, Zenon
<1>4. ~AllPass(s \o t)
  <2>1. PICK S, T : s \in Seq(S) /\ t \in Seq(T)
    BY <1>2 DEF Reports
  <2>2. ~(AllPass(s) /\ AllPass(t))
    BY Zenon DEF Permits
  <2>3. QED
    BY <2>1, <2>2, PassTogether
<1>5. QED
  BY <1>3, <1>4, FirstFails DEF Denial

\* A host or a resource is refused only when everything before is sound.
LEMMA RefusalIsSound ==
  ASSUME NEW req, NEW p, NEW at, ~Permits(req, p, at),
         Denial(req, p, at) \in AuthorizationCodes
  PROVE  /\ req.intent = "live.evidence"
         /\ req.host \in WellFormedHosts /\ req.resource \in WellFormedNames
         /\ ~HasBounds(req) /\ ~HasSelectors(req)
<1> DEFINE s == CommonChecks(req, at)
           t == IntentChecks(req, p)
           Known == Denials \ {"invalid_policy"}
<1>1. Malformed \cap AuthorizationCodes = {} /\ Malformed \subseteq Known
  BY DEF Malformed
<1>2. Reports(s, Malformed) /\ Reports(s, Known) /\ Reports(t, Known)
  BY <1>1, PartsReport, IntentReports DEF Reports
<1>3. PICK S, T : s \in Seq(S) /\ t \in Seq(T)
  BY <1>2 DEF Reports
<1>4. ~AllPass(s \o t)
  <2>1. ~(AllPass(s) /\ AllPass(t))
    BY Zenon DEF Permits
  <2>2. QED
    BY <1>3, <2>1, PassTogether
<1>5. req.intent = "live.evidence"
  <2> SUFFICES ASSUME req.intent # "live.evidence" PROVE FALSE
    OBVIOUS
  <2>1. Reports(t, Malformed)
    BY IntentReports
  <2>2. Reports(s \o t, Malformed)
    BY <1>2, <2>1, ReportsTogether, Zenon
  <2>3. Denial(req, p, at) \in Malformed
    BY <1>4, <2>2, FirstFails DEF Denial
  <2>4. QED
    BY <1>1, <2>3
<1> DEFINE a == Check(req.host = "", "missing_host")
           b == Check(req.host \notin WellFormedHosts, "invalid_host")
           c == Check(req.resource = "", "missing_resource")
           d == Check(req.resource \notin WellFormedNames, "invalid_resource")
           e == Check(HasBounds(req), "invalid_request")
           f == Check(req.host \notin DOMAIN p.hosts, "host_not_authorized")
           g == Check(req.host \in DOMAIN p.hosts
                        /\ req.resource \notin p.hosts[req.host],
                      "resource_not_authorized")
<1>6. t = <<a, b, c, d, e, f, g>>
  <2>1. liveEvidenceChecks(req, p) = <<a, b, c, d, e, f, g>>
    BY Zenon DEF liveEvidenceChecks
  <2>2. t = liveEvidenceChecks(req, p)
    BY <1>5 DEF IntentChecks
  <2>3. QED
    BY <2>1, <2>2
<1>7. /\ a.code \in Malformed /\ b.code \in Malformed /\ c.code \in Malformed
      /\ d.code \in Malformed /\ e.code \in Malformed
  <2>1. \A x : \A code \in Malformed : Check(x, code).code \in Malformed
    BY Zenon DEF Check
  <2>2. /\ "missing_host" \in Malformed /\ "invalid_host" \in Malformed
        /\ "missing_resource" \in Malformed /\ "invalid_resource" \in Malformed
        /\ "invalid_request" \in Malformed
    BY DEF Malformed, Denials, AuthorizationCodes
  <2>3. QED
    BY <2>1, <2>2, Zenon
<1>8. /\ ~b.fails <=> req.host \in WellFormedHosts
      /\ ~d.fails <=> req.resource \in WellFormedNames
      /\ ~e.fails <=> ~HasBounds(req)
  BY Zenon DEF Check
<1> HIDE DEF a, b, c, d, e, f, g, s, t
<1> DEFINE w == s \o t
<1> HIDE DEF w
<1>9. PICK i \in 1 .. Len(w) :
        /\ \A j \in 1 .. Len(w) : j < i => ~w[j].fails
        /\ Denial(req, p, at) = w[i].code
  <2>1. Reports(w, Known)
    BY <1>2, ReportsTogether, Zenon DEF w
  <2>2. Denial(req, p, at) = FirstDenial(w)
    BY Zenon DEF Denial, s, t, w
  <2>3. ~AllPass(w)
    BY <1>4 DEF w
  <2>4. QED
    BY <2>1, <2>2, <2>3, FirstFails
<1>10. Len(s) = 4 /\ Len(t) = 7
  BY <1>6, PartsReport DEF s
<1>11. /\ Len(w) = 11
       /\ \A j \in 1 .. 4 : w[j] = s[j]
       /\ \A j \in 5 .. 11 : w[j] = t[j - 4]
  <2>1. s \in Seq(S \cup T) /\ t \in Seq(S \cup T)
    BY <1>3, SeqMonotonic
  <2>2. Len(w) = Len(s) + Len(t)
        /\ \A j \in 1 .. Len(s) + Len(t) : w[j]
           = IF j <= Len(s) THEN s[j] ELSE t[j - Len(s)]
    BY <2>1, ConcatProperties DEF w
  <2>3. QED
    BY <1>10, <2>2
<1>12. \A j \in 1 .. 4 : s[j].code \in Malformed
  <2>1. PICK R : s \in Seq(R) /\ \A v \in R : v.code \in Malformed
    BY <1>2 DEF Reports
  <2>2. QED
    BY <1>10, <2>1, ElementOfSeq
<1>13. i \in 10 .. 11
  <2>1. CASE i \in 1 .. 4
    BY <1>1, <1>9, <1>11, <1>12, <2>1
  <2>2. CASE i \in 5 .. 9
    <3>1. w[i] = t[i - 4] /\ i - 4 \in 1 .. 5
      BY <1>11, <2>2
    <3>2. t[i - 4].code \in Malformed
      BY <1>6, <1>7, <3>1
    <3>3. QED
      BY <1>1, <1>9, <3>1, <3>2
  <2>3. QED
    BY <1>9, <1>11, <2>1, <2>2
<1>14. ~t[2].fails /\ ~t[4].fails /\ ~t[5].fails
  <2>1. ~w[6].fails /\ ~w[8].fails /\ ~w[9].fails
    BY <1>9, <1>11, <1>13
  <2>2. QED
    BY <1>11, <2>1
<1>15. t[2] = b /\ t[4] = d /\ t[5] = e
  BY <1>6
<1>16. AllPass(s)
  <2>1. DOMAIN s = 1 .. 4
    BY <1>3, <1>10, LenProperties
  <2>2. \A j \in 1 .. 4 : ~s[j].fails
    BY <1>9, <1>11, <1>13
  <2>3. QED
    BY <2>1, <2>2 DEF AllPass
<1>17. ~HasSelectors(req)
  BY <1>5, <1>16, CommonPasses DEF s, CommonAllows, Monitoring
<1>18. QED
  BY <1>5, <1>8, <1>14, <1>15, <1>17

=============================================================================
