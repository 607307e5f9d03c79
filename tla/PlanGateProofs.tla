--------------------------- MODULE PlanGateProofs ---------------------------
(***************************************************************************)
(* What reaches an endpoint is what its policy names, and the other        *)
(* promises of the plan gate, for every set of requests, policies and      *)
(* edits.  The invariant says where each thing came from: an unedited plan *)
(* is the planner's answer to a request it permits, a denial its word on   *)
(* one it does not, and whatever runs was decoded and verified.            *)
(***************************************************************************)
EXTENDS BrokerProofs

\* Clock and policy, now and when the planner and the executor read them.
Times ==
  /\ now \in Nat /\ now <= MaxTime
  /\ policy \in Policies
  /\ \A when \in {planned, verified} :
       when.at \in Nat /\ when.at <= now /\ when.policy \in Policies

\* A plan nobody edited is what the planner made of a request it permits.
Planned ==
  /\ stage \in {"idle", "denied"} => document = NoPlanYet
  /\ stage \notin {"idle", "denied"} =>
       /\ request \in Requests
       /\ Permits(request, planned.policy, planned.at)
       /\ ~edited => document = Plan(request, planned.policy, planned.at)

\* A denial is the planner's word on the request it was given.
Denied ==
  /\ stage = "denied" <=> denial # "none"
  /\ denial \notin {"none", "invalid_policy"} =>
       /\ ~Permits(request, planned.policy, planned.at)
       /\ denial = Denial(request, planned.policy, planned.at)

\* What runs is the document the executor verified.
RunningVerified ==
  Running => Decodes(document) /\ Verify(document, verified.policy, verified.at)

\* The inductive invariant.
GateInv ==
  /\ stage \in {"idle", "document", "running", "done", "denied", "rejected"}
  /\ request \in Requests \cup {NoRequest}
  /\ edited \in BOOLEAN
  /\ Times /\ Planned /\ Denied /\ RunningVerified

\* The gate starts with nothing planned.
LEMMA GateInit == Init => GateInv
<1> SUFFICES ASSUME Init PROVE GateInv
  OBVIOUS
<1> USE DEF Init
<1>1. now \in Nat /\ now <= MaxTime
  BY TimesAssumption
<1>2. Times
  BY <1>1 DEF Times
<1>3. Planned /\ Denied /\ RunningVerified
  BY DEF Planned, Denied, RunningVerified, Running
<1>4. QED
  BY <1>2, <1>3 DEF GateInv

\* The planner prints the plan of a request it permits, or its denial.
LEMMA GatePlans ==
  ASSUME NEW req \in Requests, GateInv, BrokerPlan(req)
  PROVE  GateInv'
<1> USE DEF GateInv, BrokerPlan
<1>1. Times'
  BY DEF Times
<1>2. RunningVerified'
      /\ stage' \in {"idle", "document", "running", "done", "denied",
         "rejected"}
  BY DEF RunningVerified, Running
<1>3. CASE /\ ~validatePolicy(policy)
           /\ stage' = "denied" /\ denial' = "invalid_policy"
           /\ UNCHANGED document
  BY <1>1, <1>2, <1>3 DEF Planned, Denied
<1>4. CASE /\ validatePolicy(policy) /\ ~Permits(req, policy, now)
           /\ stage' = "denied" /\ denial' = Denial(req, policy, now)
           /\ UNCHANGED document
  <2>1. denial' # "none"
    BY <1>4, DenialIsKnown DEF Denials
  <2>2. Denied'
    BY <1>4, <2>1 DEF Denied
  <2>3. Planned'
    BY <1>4 DEF Planned
  <2>4. QED
    BY <1>1, <1>2, <2>2, <2>3
<1>5. CASE /\ validatePolicy(policy) /\ Permits(req, policy, now)
           /\ stage' = "document" /\ document' = Plan(req, policy, now)
           /\ UNCHANGED denial
  <2>1. Denied' /\ Planned'
    BY <1>5 DEF Denied, Planned
  <2>2. QED
    BY <1>1, <1>2, <2>1
<1>6. QED
  BY <1>3, <1>4, <1>5

\* No later step changes what the planner said, but for the one edit.
LEMMA GateStep == GateInv /\ [Next]_vars => GateInv'
<1> SUFFICES ASSUME GateInv, [Next]_vars PROVE GateInv'
  OBVIOUS
<1> USE DEF GateInv, Times, Planned, Denied, RunningVerified, Running
<1>1. ASSUME NEW req \in Requests, BrokerPlan(req) PROVE GateInv'
  BY <1>1, GatePlans, Zenon
<1>2. CASE Edit
  BY <1>2 DEF Edit
<1>3. CASE BrokerVerify
  <2>1. /\ verified' = [at |-> now, policy |-> policy] /\ document' = document
        /\ UNCHANGED <<now, policy, request, document, denial, edited, planned>>
        /\ stage = "document" /\ stage' \in {"running", "rejected"}
    BY <1>3 DEF BrokerVerify
  <2>2. RunningVerified'
    BY <1>3 DEF BrokerVerify
  <2>3. Times'
    BY <2>1
  <2>4. Planned' /\ Denied'
    BY <2>1
  <2>5. QED
    BY <2>1, <2>2, <2>3, <2>4
<1>4. CASE BrokerExecute
  BY <1>4 DEF BrokerExecute
<1>5. CASE EditPolicy
  BY <1>5 DEF EditPolicy
<1>6. CASE Tick
  BY <1>6, TimesAssumption DEF Tick
<1>7. CASE Over \/ UNCHANGED vars
  BY <1>7 DEF Over, vars
<1>8. QED
  BY <1>1, <1>2, <1>3, <1>4, <1>5, <1>6, <1>7 DEF Next

LEMMA GateKept == Spec => []GateInv
BY GateInit, GateStep, PTL DEF Spec

(* The clock stays in its bound, and the planner leaves a plan or a reason, *)
(* never both and never neither; the reason is one of the broker's codes    *)
(* (broker-plan main.go, router.go:43-122).                                 *)
THEOREM GateTyped == Spec => []TypeOK
<1>1. GateInv => TypeOK
  <2> SUFFICES ASSUME GateInv PROVE TypeOK
    OBVIOUS
  <2> USE DEF GateInv
  <2>1. denial \in Denials \cup {"none"}
    BY DenialIsKnown DEF Denied, Denials
  <2>2. stage \notin {"idle", "denied"} /\ ~edited => document # NoPlanYet
    <3>1. \A req, p, at : Plan(req, p, at).version = 1
      BY DEF Plan, newPlan
    <3>2. NoPlanYet.version = 0
      BY DEF NoPlanYet
    <3>3. QED
      BY <3>1, <3>2 DEF Planned
  <2>3. QED
    BY <2>1, <2>2 DEF TypeOK, Times, Planned, Denied
<1>2. QED
  BY <1>1, GateKept, PTL

(* Whatever document is put before the executor, what runs is one step, of  *)
(* the source its intent routes to, within that source's cap, over a window *)
(* the broker would open at that moment (router.go:326-353).                *)
THEOREM WithinBounds == Spec => []RunsWithinBounds
<1>1. GateInv => RunsWithinBounds
  <2> SUFFICES ASSUME GateInv, Running PROVE RunsWithinBounds
    BY DEF RunsWithinBounds
  <2>1. Decodes(document) /\ Verify(document, verified.policy, verified.at)
    BY DEF GateInv, RunningVerified
  <2>2. verified.at \in Int
    BY DEF GateInv, Times
  <2>3. QED
    BY <2>1, <2>2, VerifiedWithinBounds DEF RunsWithinBounds
<1>2. QED
  BY <1>1, GateKept, PTL

(* A host, a resource, a window or a selector that narrows a request is in  *)
(* the plan the planner prints for it (router.go:70-74, 262-267).           *)
THEOREM NarrowingKept == Spec => []NarrowingIsKept
<1>1. GateInv => NarrowingIsKept
  <2> SUFFICES ASSUME GateInv, stage # "idle", stage # "denied", ~edited
               PROVE  NarrowingIsKept
    BY DEF NarrowingIsKept
  <2>1. /\ request \in Requests
        /\ Permits(request, planned.policy, planned.at)
        /\ document = Plan(request, planned.policy, planned.at)
    BY DEF GateInv, Planned
  <2>2. request.since \in Spellings /\ request.until \in Spellings
    BY <2>1, RequestsAssumption
  <2>3. planned.at \in Int
    BY DEF GateInv, Times
  <2>4. document.steps[1] = StepFor(request, planned.policy, planned.at)
    BY <2>1 DEF Plan, newPlan
  <2>5. Carries(document.steps[1], request, planned.policy)
    BY <2>1, <2>2, <2>3, <2>4, StepCarries
  <2>6. QED
    BY <2>5 DEF Carries, NarrowingIsKept
<1>2. QED
  BY <1>1, GateKept, PTL

(* Only a request sound in every other way is told it is not authorized: of *)
(* the checks of a live request, in their order, the two that look at the   *)
(* policy come last (router.go:248-279).                                    *)
THEOREM RefusedOnlySound == Spec => []OnlySoundRequestsAreRefused
<1>1. GateInv => OnlySoundRequestsAreRefused
  <2> SUFFICES ASSUME GateInv, denial \in AuthorizationCodes
               PROVE  OnlySoundRequestsAreRefused
    BY DEF OnlySoundRequestsAreRefused
  <2>1. /\ ~Permits(request, planned.policy, planned.at)
        /\ denial = Denial(request, planned.policy, planned.at)
    BY DEF GateInv, Denied, AuthorizationCodes
  <2>2. QED
    BY <2>1, RefusalIsSound DEF OnlySoundRequestsAreRefused
<1>2. QED
  BY <1>1, GateKept, PTL

(* The verifier reads back what the planner wrote: an unedited plan         *)
(* verifies while its policy stands and its window is settled               *)
(* (router.go:359-412).                                                     *)
THEOREM SettledVerifies == Spec => []SettledPlanVerifies
<1>1. GateInv => SettledPlanVerifies
  <2> SUFFICES ASSUME GateInv, stage = "document", ~edited,
                      policy = planned.policy, Settled
               PROVE  Verify(document, policy, now)
    BY DEF SettledPlanVerifies
  <2>1. /\ request \in Requests
        /\ Permits(request, policy, planned.at)
        /\ document = Plan(request, policy, planned.at)
    BY DEF GateInv, Planned
  <2>2. request.since \in Spellings /\ request.until \in Spellings
        /\ request.limit \in Int
    BY <2>1, RequestsAssumption
  <2>3. planned.at \in Int /\ now \in Int
    BY DEF GateInv, Times
  <2>4. document.steps[1] = StepFor(request, policy, planned.at)
    BY <2>1 DEF Plan, newPlan
  <2>5. SettledAt(StepFor(request, policy, planned.at), now)
    BY <2>4 DEF Settled, SettledAt
  <2>6. QED
    BY <2>1, <2>2, <2>3, <2>5, PlanReadsBack
<1>2. QED
  BY <1>1, GateKept, PTL

(* The request the verifier makes of a live plan names a host of the policy *)
(* and one of that host's resources.                                        *)
LEMMA LiveCandidate ==
  ASSUME NEW plan, NEW p, plan.intent = "live.evidence",
         NEW candidate \in candidateRequests(plan, p)
  PROVE  /\ candidate.intent = "live.evidence"
         /\ candidate.host \in DOMAIN p.hosts
         /\ candidate.resource \in p.hosts[candidate.host]
<1> DEFINE host == plan.steps[1].host
           bare == [NoRequest EXCEPT !.intent = plan.intent]
<1>1. candidate \in IF host \in DOMAIN p.hosts
                    THEN {[bare EXCEPT !.host = host, !.resource = resource] :
                            resource \in p.hosts[host]}
                    ELSE {}
  BY DEF candidateRequests, Monitoring
<1>2. /\ host \in DOMAIN p.hosts
      /\ \E resource \in p.hosts[host] :
           candidate = [bare EXCEPT !.host = host, !.resource = resource]
  BY <1>1
<1>3. QED
  BY <1>2 DEF NoRequest

(* The call the planner makes for a resource is the one it stands for.      *)
LEMMA LiveStep ==
  ASSUME NEW host, NEW resource
  PROVE  planLiveEvidence(host, resource) = EndpointCall(host, resource)
BY DEF planLiveEvidence, EndpointCall

(* A live plan the verifier accepts is one call of the policy it was        *)
(* verified against.                                                        *)
LEMMA LiveVerified ==
  ASSUME NEW plan, NEW p, NEW at, plan.intent = "live.evidence",
         Verify(plan, p, at)
  PROVE  \E host \in DOMAIN p.hosts : \E name \in p.hosts[host] :
           plan.steps = <<EndpointCall(host, p.resources[name])>>
<1>1. PICK candidate \in candidateRequests(plan, p) :
        Plan(candidate, p, at) = plan
  BY DEF Verify
<1>2. /\ candidate.intent = "live.evidence"
      /\ candidate.host \in DOMAIN p.hosts
      /\ candidate.resource \in p.hosts[candidate.host]
  BY LiveCandidate
<1>3. StepFor(candidate, p, at)
        = planLiveEvidence(candidate.host, p.resources[candidate.resource])
  BY <1>2 DEF StepFor, Monitoring, Tickets
<1>4. plan.steps = <<StepFor(candidate, p, at)>>
  BY <1>1 DEF Plan, newPlan
<1>5. plan.steps
        = <<EndpointCall(candidate.host, p.resources[candidate.resource])>>
  BY <1>3, <1>4, LiveStep
<1>6. QED
  BY <1>2, <1>5

(* However a plan was edited and whatever policy it was planned under, the  *)
(* only operation handed to an endpoint is one the policy in force at       *)
(* verification gives that host (router.go:326-353, broker-exec             *)
(* main.go:74-80).                                                          *)
THEOREM AuthorizedOnly == Spec => []OnlyAuthorizedTargetsRun
<1>1. GateInv => OnlyAuthorizedTargetsRun
  <2> SUFFICES ASSUME GateInv, Running, document.intent = "live.evidence"
               PROVE  OnlyAuthorizedTargetsRun
    BY DEF OnlyAuthorizedTargetsRun
  <2>1. Verify(document, verified.policy, verified.at)
    BY DEF GateInv, RunningVerified
  <2>2. QED
    BY <2>1, LiveVerified DEF OnlyAuthorizedTargetsRun
<1>2. QED
  BY <1>1, GateKept, PTL

=============================================================================
