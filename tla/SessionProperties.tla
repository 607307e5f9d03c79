------------------------- MODULE SessionProperties -------------------------
(* What a question put to sroiaaa-chat is promised, stated over Session.   *)
EXTENDS Session

Outcomes ==
  {"none", "answer", "gateway_error", "empty", "unknown_tool", "refused",
   "turn_limit"}

Records == {"none", "unaudited", "written", "failed"}

(* Every variable of the loop stays in its range, and the loop counter      *)
(* never passes the tool-call budget.                                       *)
TypeOK ==
  /\ pc \in {"complete", "executing", "returning", "returned", "exited",
             "killed"}
  /\ turn \in 0 .. MaxToolCalls
  /\ forceTool \in BOOLEAN
  /\ budgetReached \in BOOLEAN
  /\ used \in Nat
  /\ trace \in Seq(Entries)
  /\ event \in Events
  /\ answer \in Answered
  /\ outcome \in Outcomes
  /\ refusal \in RouteErrorCodes \cup {"none"}
  /\ executed \subseteq Turns
  /\ shown \subseteq Turns
  /\ expired \in BOOLEAN
  /\ record \in Records
  /\ printed \in BOOLEAN

-----------------------------------------------------------------------------
(* Safety.                                                                  *)

(* The one decision the audit record carries agrees with everything the     *)
(* trace recorded, however calls were interleaved: a refusal that ends the  *)
(* session is "denied" even after calls that were allowed, a denial the     *)
(* model recovered from never hides a later permitted call, and             *)
(* "no_tool_call" is left only when policy was never asked                  *)
(* (session.go:511-516, 527, 427).                                          *)
DecisionMatchesTrace ==
  event.decision =
    CASE outcome = "refused" -> "denied"
      [] outcome # "refused" /\ Recorded("policy_allowed") -> "allowed"
      [] outcome # "refused" /\ ~Recorded("policy_allowed")
           /\ Recorded("policy_denied") -> "denied"
      [] OTHER -> "no_tool_call"

(* What the audit record says ran is what the model was shown: its calls    *)
(* are exactly the evidence in the message history, each comes from a       *)
(* connector call, and its plan is that of the last connector call, never   *)
(* of an earlier one or of a call policy denied (session.go:527-530,        *)
(* 470-485).                                                                *)
AuditedCallsAreShownEvidence ==
  /\ event.calls = shown
  /\ shown \subseteq executed
  /\ executed # {} => event.plan \in executed
  /\ \A t \in executed : t <= event.plan

(* Once a result was withheld to stay inside the context, no answer leaves  *)
(* Ask without one of the phrases that mark it partial, whichever turn the  *)
(* result was withheld in and whatever happened between (session.go:397).   *)
WithheldEvidenceIsFlagged ==
  outcome = "answer" /\ Recorded("evidence_withheld_for_context")
    => answer.mentions

(* The recorded status is "answered" exactly when an answer was returned:   *)
(* every error path, the gateway's included, ends as "failed"               *)
(* (session.go:343, 385, 489, 546-547).                                     *)
StatusMatchesOutcome ==
  record \in {"written", "failed"} =>
    (event.status = "answered" <=> outcome = "answer")

\* The most one turn adds to the history without consulting roomForMore.
UnguardedGrowth == MaxReply + MaxNote + WrapperTokens

\* Turns that may have added something so far.
TurnsBegun == IF pc \in {"complete", "returning"} THEN turn ELSE turn + 1

(* roomForMore is consulted only when a payload is added; the assistant's   *)
(* own messages, the errors handed back and the wrapper around a payload    *)
(* are not held to it.  The history can therefore pass the served context,  *)
(* but by no more than what the turns taken so far add unguarded            *)
(* (session.go:417, 430, 442, 455, 460, 483).                               *)
HistoryOverrunBounded ==
  used <= ServedContext + UnguardedGrowth * TurnsBegun

(* The answer is printed only after the record of it was attempted, and a   *)
(* record that was written is of that answer (session.go:345, chat          *)
(* main.go:132-147).                                                        *)
AnswerIsRecordedFirst ==
  printed => /\ record # "none"
             /\ record = "written" => event.answered

(* An authorization refusal is final: no later step calls a connector,      *)
(* takes another turn, or shows the model more (session.go:426-429).        *)
RefusalIsFinal ==
  [][refusal # "none" => UNCHANGED <<executed, turn, used, shown>>]_vars

-----------------------------------------------------------------------------
(* Liveness.                                                                *)

(* A question is eventually answered or refused, whatever the model does:   *)
(* describing calls, proposing bad ones or asking for more is bounded by    *)
(* the turn budget (session.go:355, 488-490).                               *)
AskReturns == <>(pc \in {"exited", "killed"})

-----------------------------------------------------------------------------
(* What the repository says and the code does not do.                       *)

(* prompt_test.go:398-399: "The invariant is that the history never passes  *)
(* what the gateway serves."                                                *)
HistoryFitsServedContext == used <= ServedContext

(* session.go:518-519: "Being told a host is not authorized is an answer.   *)
(* Putting a value in the wrong field is a mistake. Only the second earns   *)
(* another attempt."                                                        *)
OnlyAuthorizationEndsTheSession ==
  refusal \in AuthorizationCodes \cup {"none"}

=============================================================================
