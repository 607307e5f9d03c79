------------------------------ MODULE PlanGate ------------------------------
(***************************************************************************)
(* A route plan on its way from sroiaaa-broker-plan to                     *)
(* sroiaaa-broker-exec.  The planner prints a plan; it is a JSON document  *)
(* that waits, is edited, or outlives the policy it was made under; the    *)
(* executor verifies it against the policy file it finds and runs it.      *)
(* Time passes and the policy file changes between any two steps, the      *)
(* executor's own verification and execution included.                     *)
(***************************************************************************)
EXTENDS Broker

CONSTANTS
  Requests,        \* route requests the planner may be given
  Policies,        \* policy files an operator may install
  StartTimes,      \* when the planner runs
  MaxTime,         \* bound on the clock
  Edits(_)         \* documents someone may turn a plan into

ASSUME RequestsAssumption ==
  \A req \in Requests :
    req.since \in Spellings /\ req.until \in Spellings /\ req.limit \in Int

ASSUME TimesAssumption == MaxTime \in Nat /\ StartTimes \subseteq 0 .. MaxTime

VARIABLES
  now,       \* the clock
  policy,    \* the policy file
  stage,     \* where the plan is
  request,   \* what the planner was asked
  document,  \* the plan as it stands on disk
  denial,    \* the code the planner reported
  edited,    \* the document was changed after the planner printed it
  planned,   \* clock and policy when the planner ran
  verified   \* clock and policy when the executor accepted the document

vars == <<now, policy, stage, request, document, denial, edited, planned,
          verified>>

\* The plan handed to the executor's connectors.
Running == stage \in {"running", "done"}

NoPlanYet == [version |-> 0, intent |-> "", steps |-> <<>>]

Init ==
  /\ now \in StartTimes
  /\ policy \in Policies
  /\ stage = "idle"
  /\ request = NoRequest
  /\ document = NoPlanYet
  /\ denial = "none"
  /\ edited = FALSE
  /\ planned = [at |-> now, policy |-> policy]
  /\ verified = planned

\* Mutant: a denial is reported and the empty plan printed all the same.
BrokerPlanPrintsAnyway(req) ==
  /\ stage = "idle"
  /\ request' = req
  /\ planned' = [at |-> now, policy |-> policy]
  /\ IF ~validatePolicy(policy)
     THEN UNCHANGED document /\ denial' = "invalid_policy"
     ELSE IF Permits(req, policy, now)
          THEN document' = Plan(req, policy, now) /\ UNCHANGED denial
          ELSE UNCHANGED document /\ denial' = Denial(req, policy, now)
  /\ stage' = "document"
  /\ UNCHANGED <<now, policy, edited, verified>>

\* sroiaaa-broker-plan: the policy is loaded and validated, the request
\* planned, and the plan printed or the denial reported.
BrokerPlan(req) ==
  /\ stage = "idle"
  /\ request' = req
  /\ planned' = [at |-> now, policy |-> policy]
  /\ \/ /\ ~validatePolicy(policy)
        /\ stage' = "denied" /\ denial' = "invalid_policy"
        /\ UNCHANGED document
     \/ /\ validatePolicy(policy) /\ ~Permits(req, policy, now)
        /\ stage' = "denied" /\ denial' = Denial(req, policy, now)
        /\ UNCHANGED document
     \/ /\ validatePolicy(policy) /\ Permits(req, policy, now)
        /\ stage' = "document" /\ document' = Plan(req, policy, now)
        /\ UNCHANGED denial
  /\ UNCHANGED <<now, policy, edited, verified>>

\* Someone edits the document, or replaces it by one written by hand; any
\* number of edits come to one.
Edit ==
  /\ stage = "document" /\ ~edited
  /\ \E d \in Edits(document) : document' = d
  /\ edited' = TRUE
  /\ UNCHANGED <<now, policy, stage, request, denial, planned, verified>>

\* decodePlan: there are steps, and each field holds a value of its type.
Decodes(plan) ==
  /\ plan.steps # <<>>
  /\ \A i \in DOMAIN plan.steps :
       LET step == plan.steps[i]
       IN  step.limit \in Int /\ step.since \cup step.until \subseteq Int

\* sroiaaa-broker-exec up to its connectors: the document is decoded, and
\* verifyPlan loads the policy file as it is now and re-plans.
BrokerVerify ==
  /\ stage = "document"
  /\ verified' = [at |-> now, policy |-> policy]
  /\ stage' = IF /\ Decodes(document)
                 /\ validatePolicy(policy) /\ Verify(document, policy, now)
              THEN "running" ELSE "rejected"
  /\ UNCHANGED <<now, policy, request, document, denial, edited, planned>>

\* The executor hands every step to its connector.
BrokerExecute ==
  /\ stage = "running"
  /\ stage' = "done"
  /\ UNCHANGED <<now, policy, request, document, denial, edited, planned, verified>>

EditPolicy ==
  /\ stage \in {"document", "running"}
  /\ policy' \in Policies \ {policy}
  /\ UNCHANGED <<now, stage, request, document, denial, edited, planned, verified>>

Tick ==
  /\ stage \in {"document", "running"}
  /\ now < MaxTime
  /\ now' = now + 1
  /\ UNCHANGED <<policy, stage, request, document, denial, edited, planned, verified>>

Over == stage \in {"denied", "rejected", "done"} /\ UNCHANGED vars

Next ==
  \/ \E req \in Requests : BrokerPlan(req)
  \/ Edit \/ BrokerVerify \/ BrokerExecute \/ EditPolicy \/ Tick \/ Over

Spec == Init /\ [][Next]_vars

-----------------------------------------------------------------------------

\* What the planner may report instead of a plan.
Denials ==
  {"invalid_policy", "invalid_since", "invalid_until", "invalid_request",
   "invalid_host", "invalid_resource", "invalid_query", "invalid_match",
   "invalid_severity", "invalid_state", "invalid_limit", "missing_host",
   "missing_resource", "missing_since", "unknown_intent",
   "host_not_authorized", "resource_not_authorized"}

(* The clock stays in its bound, and the planner leaves either a plan or a  *)
(* reason, never both and never neither; only an edit can blank a plan.     *)
TypeOK ==
  /\ now \in Nat /\ now <= MaxTime
  /\ policy \in Policies
  /\ stage \in {"idle", "document", "running", "done", "denied", "rejected"}
  /\ request \in Requests \cup {NoRequest}
  /\ edited \in BOOLEAN
  /\ \A when \in {planned, verified} :
       when.at <= now /\ when.policy \in Policies
  /\ stage \in {"idle", "denied"} => document = NoPlanYet
  /\ stage \notin {"idle", "denied"} /\ ~edited => document # NoPlanYet
  /\ denial \in Denials \cup {"none"}
  /\ stage = "denied" <=> denial # "none"

\* The call to an endpoint that one resource of a policy stands for.
EndpointCall(host, resource) ==
  [NoStep EXCEPT !.source = "sroiaaa-agent", !.action = "operations.execute",
                 !.host = host, !.operation = resource.operation,
                 !.path = resource.path, !.params = resource.params]

(* However the document was edited, and whatever policy it was planned      *)
(* under, the only file operation that reaches an endpoint is the one the   *)
(* policy in force at verification gives an alias of that very host: one    *)
(* step, that operation, that path, those parameters (router.go:326-353,    *)
(* broker-exec main.go:74-80).                                              *)
OnlyAuthorizedTargetsRun ==
  Running /\ document.intent = "live.evidence" =>
    \E host \in DOMAIN verified.policy.hosts :
      \E name \in verified.policy.hosts[host] :
        document.steps =
          <<EndpointCall(host, verified.policy.resources[name])>>

(* A document that runs reaches one source, the one its intent routes to,   *)
(* within that source's cap on rows, and its window is one the broker would *)
(* open at that moment: no longer than the maximum age, not in the future,  *)
(* not empty (since.go:84-92, router.go:59).                                *)
SourceForIntent ==
  [intent \in AllIntents |->
     CASE intent \in {"fleet.inventory", "agent.status"} -> "wazuh-api"
       [] intent \in Monitoring -> "zabbix-api"
       [] intent = "live.evidence" -> "sroiaaa-agent"
       [] intent = "database.query" -> "pegasus-db"
       [] intent \in Tickets -> "rt-api"]

LimitFor(intent) ==
  CASE intent = "fleet.inventory" -> fleetInventoryLimit
    [] intent \in Monitoring -> MaxMonitoringLimit
    [] intent \in Tickets -> ticketSearchLimit
    [] intent = "database.query" -> maxQueryRows
    [] OTHER -> 0

RunsWithinBounds ==
  Running =>
    /\ Len(document.steps) = 1
    /\ document.intent \in AllIntents
    /\ LET step == document.steps[1] IN
       /\ step.source = SourceForIntent[document.intent]
       /\ step.limit <= LimitFor(document.intent)
       /\ step.limit > 0 <=> document.intent \notin {"agent.status", "live.evidence"}
       /\ \A t \in step.since \cup step.until :
            verified.at - MaxSinceAge <= t /\ t <= verified.at + Minute
       /\ \A s \in step.since, u \in step.until : s < u

(* What narrows a request narrows the plan: a host, a resource, a window or *)
(* a selector is either carried into the step or the request is denied,     *)
(* never dropped (router.go:70-74, 262-267).                                *)
NarrowingIsKept ==
  stage # "idle" /\ stage # "denied" /\ ~edited =>
    LET step == document.steps[1] IN
    /\ step.host = request.host
    /\ request.resource # "" =>
         step.path = planned.policy.resources[request.resource].path
    /\ request.since # NoBound => step.since # {}
    /\ request.until # NoBound => step.until # {}
    /\ step.match = request.match
    /\ request.severity # "" => step.severity # ""
    /\ request.state # "" => step.state # ""
    /\ request.limit # 0 => step.limit = request.limit

\* Denials that are an authorization outcome.
AuthorizationCodes == {"host_not_authorized", "resource_not_authorized"}

(* Being refused a host or a resource is said only of a request that is     *)
(* sound in every other way: a malformed request is told what is malformed, *)
(* and never learns what it would be allowed (router.go:248-279).           *)
OnlySoundRequestsAreRefused ==
  denial \in AuthorizationCodes =>
    /\ request.intent = "live.evidence"
    /\ request.host \in WellFormedHosts
    /\ request.resource \in WellFormedNames
    /\ ~HasBounds(request) /\ ~HasSelectors(request)

\* The window of an untouched plan is one the verifier can read back: wholly
\* in the past it accepts and still open after rounding to seconds.
Settled ==
  LET step == document.steps[1] IN
  /\ \A t \in step.since \cup step.until :
       now - MaxSinceAge <= t /\ t <= now + Minute
  /\ \A s \in step.since, u \in step.until : s < u

(* A plan nobody edited still verifies, however long it waited, while the   *)
(* policy that permitted it stands and its window is settled: the verifier  *)
(* reads back everything the planner wrote (router.go:359-412).             *)
SettledPlanVerifies ==
  stage = "document" /\ ~edited /\ policy = planned.policy /\ Settled
    => Verify(document, policy, now)

-----------------------------------------------------------------------------
(* What the repository says and the code does not do.                       *)

(* router.go:326-327: "Verify reports whether a plan is one this router     *)
(* would have produced under the current policy."                           *)
VerifyAcceptsWhatPlanProduced ==
  stage = "document" /\ ~edited /\ policy = planned.policy /\ now = planned.at
    => Verify(document, policy, now)

(* since.go:9-12: "maxSinceAge bounds how far back a request may reach. A   *)
(* window of years is not a filter": a request for n days is given n days   *)
(* or refused.                                                              *)
DayWindowIsItsLength ==
  stage = "document" /\ ~edited /\ request.since.form = "days" =>
    document.steps[1].since
      = Format({planned.at - request.since.n * Day})

=============================================================================
