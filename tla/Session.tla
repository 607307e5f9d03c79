------------------------------ MODULE Session ------------------------------
(***************************************************************************)
(* One question put to sroiaaa-chat: Session.Ask in                        *)
(* internal/orchestrator/session.go, the gateway call it makes each turn,  *)
(* the connector call a permitted plan leads to, the audit record written  *)
(* on the way out, and the printing of the answer by main.                 *)
(*                                                                         *)
(* The model gateway, the policy router and the connectors are the         *)
(* environment: each answers in any way the code is prepared for.  Text is *)
(* abstracted to what the loop tells apart (empty, describing a call,      *)
(* prose; saying or not that it is partial) and to its size in estimated   *)
(* tokens.  The overall deadline may pass, and the process may be killed,  *)
(* between any two steps.                                                  *)
(***************************************************************************)
EXTENDS Integers, Sequences

CONSTANTS
  MaxToolCalls,      \* turns one question may take
  ServedContext,     \* tokens the gateway serves, servedContextTokens
  PromptTokens,      \* system prompt, question, tool schema and answer reserve
  MaxReply,          \* tokens of the longest completion maxResponseBytes admits
  ReplySizes,        \* estimated tokens of an assistant message
  MaxNote,           \* tokens of the longest error handed back to the model
  NoteSizes,         \* estimated tokens of the messages the loop writes itself
  WrapperTokens,     \* role, name and call id around an evidence payload
  EvidenceSizes,     \* estimated tokens of an evidence payload
  EvidenceBudget     \* largest single payload accepted, evidenceBudget()

ASSUME SizesAssumption ==
  /\ MaxToolCalls \in Nat \ {0}
  /\ ServedContext \in Nat /\ PromptTokens \in Nat /\ EvidenceBudget \in Nat
  /\ WrapperTokens \in Nat /\ MaxReply \in Nat /\ MaxNote \in Nat
  /\ PromptTokens <= ServedContext
  /\ ReplySizes \subseteq 0 .. MaxReply /\ NoteSizes \subseteq 0 .. MaxNote
  /\ EvidenceSizes \subseteq Nat

VARIABLES
  pc,             \* where Ask is
  turn,           \* the loop counter
  forceTool,      \* the next completion names the tool in tool_choice
  budgetReached,  \* some result was withheld to stay inside the context
  used,           \* estimatedTokens of the messages accumulated so far
  trace,          \* decisions recorded, as -trace prints them
  event,          \* the audit event being filled in
  answer,         \* what Ask returns as text
  outcome,        \* why Ask returned
  refusal,        \* code of the denial that ended the session
  executed,       \* turns in which a connector was called
  shown,          \* turns whose evidence is in the message history
  expired,        \* the context deadline has passed
  record,         \* fate of the audit record
  printed         \* main wrote the answer to stdout

vars == <<pc, turn, forceTool, budgetReached, used, trace, event, answer,
          outcome, refusal, executed, shown, expired, record, printed>>

Turns == 0 .. MaxToolCalls - 1

-----------------------------------------------------------------------------
(* Route denials, by what they say of the request.                         *)

\* Denials isRetryableRouteError lets the model correct.
RetryableCodes ==
  {"invalid_request", "invalid_query", "invalid_since", "invalid_host",
   "invalid_resource", "missing_host", "missing_resource", "unknown_intent"}

\* Denials that are an authorization outcome.
AuthorizationCodes == {"host_not_authorized", "resource_not_authorized"}

\* Every code Router.Plan can return.
RouteErrorCodes ==
  RetryableCodes \cup AuthorizationCodes \cup
  {"invalid_until", "missing_since", "invalid_match", "invalid_severity",
   "invalid_state", "invalid_limit"}

isRetryableRouteError(code) == code \in RetryableCodes

-----------------------------------------------------------------------------
(* The trace and the audit event.                                          *)

Stages ==
  {"described_instead_of_called", "empty_answer", "model_answered_directly",
   "answer_synthesized", "tool_rejected", "intent_proposed",
   "intent_rejected", "policy_denied", "policy_allowed", "execution_failed",
   "evidence_withheld_for_context", "evidence_collected",
   "turn_limit_reached"}

Entry(stage, ok) == [stage |-> stage, allowed |-> ok]

Entries == [stage : Stages, allowed : BOOLEAN]

Recorded(stage) == \E i \in DOMAIN trace : trace[i].stage = stage

NoPlan == -1

Events ==
  [decision : {"no_tool_call", "denied", "allowed"},
   status : {"answered", "failed"},
   proposed : BOOLEAN,
   plan : Turns \cup {NoPlan},
   calls : SUBSET Turns,
   answered : BOOLEAN,
   error : Stages \cup {"none"}]

Init ==
  /\ pc = "complete"
  /\ turn = 0
  /\ forceTool = FALSE
  /\ budgetReached = FALSE
  /\ used = PromptTokens
  /\ trace = <<>>
  /\ event = [decision |-> "no_tool_call", status |-> "answered",
              proposed |-> FALSE, plan |-> NoPlan, calls |-> {},
              answered |-> FALSE, error |-> "none"]
  /\ answer = [kind |-> "none", mentions |-> FALSE, partial |-> FALSE]
  /\ outcome = "none"
  /\ refusal = "none"
  /\ executed = {}
  /\ shown = {}
  /\ expired = FALSE
  /\ record = "none"
  /\ printed = FALSE

-----------------------------------------------------------------------------
(* Parts of the loop that several branches share.                          *)

audit == <<record, printed>>

\* continue: the loop goes round with whatever was appended.
Continue(tokens) ==
  /\ used' = used + tokens
  /\ turn' = turn + 1
  /\ pc' = "complete"
  /\ UNCHANGED <<outcome, answer>>

\* return: the deferred writeAudit runs next.
Return(why) ==
  /\ outcome' = why
  /\ pc' = "returning"
  /\ UNCHANGED <<used, turn>>

\* A completion was requested and answered: forceTool is spent.
Completes ==
  /\ pc = "complete" /\ turn < MaxToolCalls
  /\ ~expired
  /\ forceTool' = FALSE
  /\ UNCHANGED <<expired, audit>>

-----------------------------------------------------------------------------
(* The turns of Ask.                                                       *)

\* Complete fails: transport, HTTP status, malformed body or the deadline.
GatewayError ==
  /\ pc = "complete" /\ turn < MaxToolCalls
  /\ forceTool' = FALSE
  /\ Return("gateway_error")
  /\ UNCHANGED <<budgetReached, trace, event, answer, refusal, executed,
                 shown, expired, audit>>

\* Mutant: the last turn asks again as well.
DescribesACallOnAnyTurn ==
  /\ pc = "complete" /\ turn <= MaxToolCalls
  /\ ~expired
  /\ trace' = Append(trace, Entry("described_instead_of_called", FALSE))
  /\ forceTool' = TRUE
  /\ \E reply \in ReplySizes, note \in NoteSizes : Continue(reply + note)
  /\ UNCHANGED <<budgetReached, event, refusal, executed, shown, expired,
                 audit>>

\* describesACallInstead with turns left: the prose is kept in the history
\* and the next completion names the tool.
DescribesACall ==
  /\ pc = "complete" /\ turn < MaxToolCalls - 1
  /\ ~expired
  /\ trace' = Append(trace, Entry("described_instead_of_called", FALSE))
  /\ forceTool' = TRUE
  /\ \E reply \in ReplySizes, note \in NoteSizes : Continue(reply + note)
  /\ UNCHANGED <<budgetReached, event, refusal, executed, shown, expired,
                 audit>>

EmptyAnswer ==
  /\ Completes
  /\ trace' = Append(trace, Entry("empty_answer", FALSE))
  /\ event' = [event EXCEPT !.status = "failed"]
  /\ Return("empty")
  /\ UNCHANGED <<budgetReached, answer, refusal, executed, shown>>

\* Text returned to the caller, by whether it contains one of the phrases the
\* code looks for ("withheld", "incomplete", "not all", "partial") and whether
\* it tells the reader evidence is missing.  Either may hold without the
\* other: "not allowed" contains "not all".
Answer(kind, mentions, partial) ==
  [kind |-> kind, mentions |-> mentions, partial |-> partial]

Answered ==
  [kind : {"none", "described", "prose"}, mentions : BOOLEAN,
   partial : BOOLEAN]

\* The limitation is appended when it applies and no phrase is found.
discloseWithheldEvidence(text, withheld) ==
  IF withheld /\ ~text.mentions
  THEN [text EXCEPT !.mentions = TRUE, !.partial = TRUE]
  ELSE text

\* On the last turn a described call is returned too: no turn is left to ask
\* again.
Answers(text) ==
  /\ Completes
  /\ text.kind = "described" => turn = MaxToolCalls - 1
  /\ trace' = Append(trace,
                IF turn = 0 THEN Entry("model_answered_directly", TRUE)
                            ELSE Entry("answer_synthesized", TRUE))
  /\ answer' = discloseWithheldEvidence(text, budgetReached)
  /\ event' = [event EXCEPT !.answered = TRUE]
  /\ Return("answer")
  /\ UNCHANGED <<budgetReached, refusal, executed, shown>>

UnknownTool ==
  /\ Completes
  /\ trace' = Append(trace, Entry("tool_rejected", FALSE))
  /\ Return("unknown_tool")
  /\ UNCHANGED <<budgetReached, event, answer, refusal, executed, shown>>

\* A tool call whose arguments DecodeRouteRequest refuses.
UndecodableIntent ==
  /\ Completes
  /\ trace' = trace \o <<Entry("intent_proposed", TRUE),
                         Entry("intent_rejected", FALSE)>>
  /\ event' = [event EXCEPT !.proposed = TRUE]
  /\ \E reply \in ReplySizes, note \in NoteSizes : Continue(reply + note)
  /\ UNCHANGED <<budgetReached, refusal, executed, shown>>

\* Mutant: a denial the model may correct overwrites an earlier permission.
DeniedEventOverwrites(code) ==
  [event EXCEPT !.proposed = TRUE, !.decision = "denied"]

\* The event of a call the router denied with this code.
DeniedEvent(code) ==
  [event EXCEPT !.proposed = TRUE,
                !.decision = IF ~isRetryableRouteError(code)
                                \/ @ = "no_tool_call"
                             THEN "denied" ELSE @]

\* Mutant: every denial is handed back to the model.
PolicyDeniesAndContinues(code) ==
  /\ Completes
  /\ trace' = trace \o <<Entry("intent_proposed", TRUE),
                         Entry("policy_denied", FALSE)>>
  /\ event' = DeniedEvent(code)
  /\ refusal' = IF isRetryableRouteError(code) THEN refusal ELSE code
  /\ \E reply \in ReplySizes, note \in NoteSizes : Continue(reply + note)
  /\ UNCHANGED <<budgetReached, executed, shown>>

\* A tool call Router.Plan denies.
PolicyDenies(code) ==
  /\ Completes
  /\ trace' = trace \o <<Entry("intent_proposed", TRUE),
                         Entry("policy_denied", FALSE)>>
  /\ event' = DeniedEvent(code)
  /\ \/ /\ isRetryableRouteError(code)
        /\ \E reply \in ReplySizes, note \in NoteSizes : Continue(reply + note)
        /\ UNCHANGED refusal
     \/ /\ ~isRetryableRouteError(code)
        /\ refusal' = code
        /\ Return("refused")
        /\ UNCHANGED answer
  /\ UNCHANGED <<budgetReached, executed, shown>>

\* Mutant: the plan is recorded once, like the proposal.
PolicyAllowsKeepsFirstPlan ==
  /\ Completes
  /\ trace' = trace \o <<Entry("intent_proposed", TRUE),
                         Entry("policy_allowed", TRUE)>>
  /\ event' = [event EXCEPT !.proposed = TRUE, !.decision = "allowed",
                            !.plan = IF @ = NoPlan THEN turn ELSE @]
  /\ executed' = executed \cup {turn}
  /\ \E reply \in ReplySizes : used' = used + reply
  /\ pc' = "executing"
  /\ UNCHANGED <<turn, budgetReached, answer, outcome, refusal, shown>>

\* A tool call Router.Plan allows; the connector is called with the plan.
PolicyAllows ==
  /\ Completes
  /\ trace' = trace \o <<Entry("intent_proposed", TRUE),
                         Entry("policy_allowed", TRUE)>>
  /\ event' = [event EXCEPT !.proposed = TRUE, !.decision = "allowed",
                            !.plan = turn]
  /\ executed' = executed \cup {turn}
  /\ \E reply \in ReplySizes : used' = used + reply
  /\ pc' = "executing"
  /\ UNCHANGED <<turn, budgetReached, answer, outcome, refusal, shown>>

ExecutionFails ==
  /\ pc = "executing"
  /\ trace' = Append(trace, Entry("execution_failed", FALSE))
  /\ \E note \in NoteSizes : Continue(note)
  /\ UNCHANGED <<forceTool, budgetReached, event, refusal, executed, shown,
                 expired, audit>>

\* Mutant: each result is weighed against the prompt alone.
roomForOne(addition) == PromptTokens + addition <= ServedContext

\* roomForMore, on the messages up to and including the assistant's call.
roomForMore(addition) == used + addition <= ServedContext

\* The result of a successful execution, by the two limits it is held to.
ResultTooLarge(size) ==
  /\ pc = "executing" /\ ~expired
  /\ size > EvidenceBudget
  /\ \E note \in NoteSizes : Continue(note)
  /\ UNCHANGED <<forceTool, budgetReached, trace, event, refusal, executed,
                 shown, expired, audit>>

ResultWithheld(size) ==
  /\ pc = "executing" /\ ~expired
  /\ size <= EvidenceBudget
  /\ ~roomForMore(size)
  /\ trace' = Append(trace, Entry("evidence_withheld_for_context", FALSE))
  /\ budgetReached' = TRUE
  /\ \E note \in NoteSizes : Continue(note)
  /\ UNCHANGED <<forceTool, event, refusal, executed, shown, expired, audit>>

\* Mutant: a result that fits makes the loop forget one that did not.
ResultCollectedForgets(size) ==
  /\ pc = "executing" /\ ~expired
  /\ size <= EvidenceBudget
  /\ roomForMore(size)
  /\ trace' = Append(trace, Entry("evidence_collected", TRUE))
  /\ event' = [event EXCEPT !.calls = @ \cup {turn}]
  /\ shown' = shown \cup {turn}
  /\ budgetReached' = FALSE
  /\ Continue(size + WrapperTokens)
  /\ UNCHANGED <<forceTool, refusal, executed, expired, audit>>

ResultCollected(size) ==
  /\ pc = "executing" /\ ~expired
  /\ size <= EvidenceBudget
  /\ roomForMore(size)
  /\ trace' = Append(trace, Entry("evidence_collected", TRUE))
  /\ event' = [event EXCEPT !.calls = @ \cup {turn}]
  /\ shown' = shown \cup {turn}
  /\ Continue(size + WrapperTokens)
  /\ UNCHANGED <<forceTool, budgetReached, refusal, executed, expired, audit>>

\* Mutant: the limit is looked for one turn too late.
TurnLimitOffByOne ==
  /\ pc = "complete" /\ turn > MaxToolCalls
  /\ trace' = Append(trace, Entry("turn_limit_reached", FALSE))
  /\ event' = [event EXCEPT !.status = "failed"]
  /\ Return("turn_limit")
  /\ UNCHANGED <<forceTool, budgetReached, answer, refusal, executed, shown,
                 expired, audit>>

TurnLimit ==
  /\ pc = "complete" /\ turn = MaxToolCalls
  /\ trace' = Append(trace, Entry("turn_limit_reached", FALSE))
  /\ event' = [event EXCEPT !.status = "failed"]
  /\ Return("turn_limit")
  /\ UNCHANGED <<forceTool, budgetReached, answer, refusal, executed, shown,
                 expired, audit>>

-----------------------------------------------------------------------------
(* Leaving Ask.                                                            *)

\* The reason writeAudit takes from the trace: its last entry not allowed.
LastRefusal ==
  LET refused == {i \in DOMAIN trace : ~trace[i].allowed}
  IN  IF refused = {} THEN "none"
      ELSE trace[CHOOSE i \in refused : \A j \in refused : j <= i].stage

\* Mutant: the error is filled in but the status left as it was.
FinalEventKeepsStatus ==
  IF ~event.answered /\ event.status = "answered"
  THEN [event EXCEPT !.error = LastRefusal]
  ELSE event

\* The event as writeAudit completes it.
FinalEvent ==
  IF ~event.answered /\ event.status = "answered"
  THEN [event EXCEPT !.status = "failed", !.error = LastRefusal]
  ELSE event

\* The deferred writeAudit.  A Record that fails is reported on stderr and
\* changes nothing else.  With no auditor configured nothing is filled in.
writeAudit ==
  /\ pc = "returning"
  /\ pc' = "returned"
  /\ \/ record' = "unaudited" /\ UNCHANGED event
     \/ record' \in {"written", "failed"} /\ event' = FinalEvent
  /\ UNCHANGED <<turn, forceTool, budgetReached, used, trace, answer, outcome,
                 refusal, executed, shown, expired, printed>>

\* Mutant: the answer is printed without waiting for the deferred record.
ExitBeforeAudit ==
  /\ pc \in {"returning", "returned"}
  /\ pc' = "exited"
  /\ printed' = (outcome = "answer")
  /\ UNCHANGED <<turn, forceTool, budgetReached, used, trace, event, answer,
                 outcome, refusal, executed, shown, expired, record>>

\* main prints the answer, or the error, and exits.
Exit ==
  /\ pc = "returned"
  /\ pc' = "exited"
  /\ printed' = (outcome = "answer")
  /\ UNCHANGED <<turn, forceTool, budgetReached, used, trace, event, answer,
                 outcome, refusal, executed, shown, expired, record>>

\* The deadline of the context main created passes while Ask is running.
Deadline ==
  /\ pc \in {"complete", "executing"} /\ ~expired
  /\ expired' = TRUE
  /\ UNCHANGED <<pc, turn, forceTool, budgetReached, used, trace, event,
                 answer, outcome, refusal, executed, shown, audit>>

\* The process is killed; deferred calls do not run.
Killed ==
  /\ pc \notin {"exited", "killed"}
  /\ pc' = "killed"
  /\ UNCHANGED <<turn, forceTool, budgetReached, used, trace, event, answer,
                 outcome, refusal, executed, shown, expired, audit>>

-----------------------------------------------------------------------------

GatewayReplies ==
  \/ GatewayError
  \/ DescribesACall
  \/ EmptyAnswer
  \/ \E kind \in {"described", "prose"}, mentions, partial \in BOOLEAN :
       Answers(Answer(kind, mentions, partial))
  \/ UnknownTool
  \/ UndecodableIntent
  \/ \E code \in RouteErrorCodes : PolicyDenies(code)
  \/ PolicyAllows

ConnectorReplies ==
  \/ ExecutionFails
  \/ \E size \in EvidenceSizes :
       ResultTooLarge(size) \/ ResultWithheld(size) \/ ResultCollected(size)

Step ==
  GatewayReplies \/ ConnectorReplies \/ TurnLimit \/ writeAudit \/ Exit

Done == pc \in {"exited", "killed"} /\ UNCHANGED vars

Next == Step \/ Deadline \/ Killed \/ Done

Spec == Init /\ [][Next]_vars

\* The HTTP clients carry the deadline, so a request is eventually answered
\* or fails: the process keeps taking steps unless it is killed.
FairSpec == Spec /\ WF_vars(Step)

=============================================================================
