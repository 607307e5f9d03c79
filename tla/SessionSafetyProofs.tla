------------------------- MODULE SessionSafetyProofs -------------------------
(***************************************************************************)
(* The safety properties of Session for every value of its constants.      *)
(* Each needs an invariant of its own beside the type invariant: ReturnInv *)
(* ties what Ask returns to what it recorded, HistoryInv counts what the   *)
(* turns so far may have added, WithheldInv keeps the flag the answer is   *)
(* marked from, CallsInv orders the turns a connector was called in.       *)
(***************************************************************************)
EXTENDS SessionProofs

(* The facts of the type invariant the proofs below use.                    *)
LEMMA TypeFacts ==
  ASSUME TypeInv
  PROVE  /\ event \in Events /\ trace \in Seq(Entries)
         /\ turn \in Nat /\ used \in Nat /\ budgetReached \in BOOLEAN
BY SizesAssumption DEF TypeInv, TypeOK

\* Texts the model may answer with.
Texts ==
  {Answer(kind, mentions, partial) :
     kind \in {"described", "prose"}, mentions \in BOOLEAN,
     partial \in BOOLEAN}

-----------------------------------------------------------------------------
(* How Ask returns, and what is recorded of it.                             *)

\* Ask has not decided what to return.
InLoop == pc \in {"complete", "executing"}

ReturnInv ==
  /\ InLoop => /\ outcome = "none" /\ refusal = "none" /\ record = "none"
               /\ event.status = "answered"
  /\ pc = "returning" => record = "none"
  /\ pc \in {"returned", "exited"} => record # "none"
  /\ outcome = "answer" <=> event.answered
  /\ record = "none" /\ event.answered => event.status = "answered"
  /\ StatusMatchesOutcome
  /\ AnswerIsRecordedFirst

(* Nothing is returned or recorded initially.                               *)
LEMMA ReturnInit == Init => ReturnInv
BY DEF Init, ReturnInv, InLoop, StatusMatchesOutcome, AnswerIsRecordedFirst

(* Every step keeps the outcome, the event and the record in agreement.     *)
LEMMA ReturnStep == TypeInv /\ ReturnInv /\ [Next]_vars => ReturnInv'
<1> SUFFICES ASSUME TypeInv, ReturnInv, [Next]_vars PROVE ReturnInv'
  OBVIOUS
<1>1. event \in Events
  BY TypeFacts
<1> USE <1>1 DEF ReturnInv, InLoop, StatusMatchesOutcome,
                 AnswerIsRecordedFirst, Events, audit
<1>2. CASE GatewayError
  BY <1>2 DEF GatewayError, Return
<1>3. CASE DescribesACall
  BY <1>3 DEF DescribesACall, Continue
<1>4. CASE EmptyAnswer
  BY <1>4 DEF EmptyAnswer, Completes, Return
<1>5. ASSUME NEW text, Answers(text) PROVE ReturnInv'
  BY <1>5 DEF Answers, Completes, Return
<1>6. CASE UnknownTool
  BY <1>6 DEF UnknownTool, Completes, Return
<1>7. CASE UndecodableIntent
  BY <1>7 DEF UndecodableIntent, Completes, Continue
<1>8. ASSUME NEW code \in RouteErrorCodes, PolicyDenies(code)
      PROVE  ReturnInv'
  BY <1>8 DEF PolicyDenies, Completes, Continue, Return, DeniedEvent
<1>9. CASE PolicyAllows
  BY <1>9 DEF PolicyAllows, Completes
<1>10. CASE ExecutionFails
  BY <1>10 DEF ExecutionFails, Continue
<1>11. ASSUME NEW size, ResultTooLarge(size) PROVE ReturnInv'
  BY <1>11 DEF ResultTooLarge, Continue
<1>12. ASSUME NEW size, ResultWithheld(size) PROVE ReturnInv'
  BY <1>12 DEF ResultWithheld, Continue
<1>13. ASSUME NEW size, ResultCollected(size) PROVE ReturnInv'
  <2>1. event'.answered = event.answered /\ event'.status = event.status
    BY <1>13 DEF ResultCollected
  <2>2. QED
    BY <1>13, <2>1 DEF ResultCollected, Continue
<1>14. CASE TurnLimit
  BY <1>14 DEF TurnLimit, Return
<1>15. CASE writeAudit
  BY <1>15 DEF writeAudit, FinalEvent
<1>16. CASE Exit \/ Deadline \/ Killed \/ UNCHANGED vars
  BY <1>16 DEF Exit, Deadline, Killed, vars
<1>17. QED
  BY Steps, <1>2, <1>3, <1>4, <1>5, <1>6, <1>7, <1>8, <1>9, <1>10, <1>11,
     <1>12, <1>13, <1>14, <1>15, <1>16

(* The agreement holds in every state.                                      *)
LEMMA ReturnAlways == Spec => []ReturnInv
BY TypeAlways, ReturnInit, ReturnStep, PTL DEF Spec

(* The record says "answered" exactly when Ask returned an answer           *)
(* (session.go:343, 385, 489, 546-547).                                     *)
THEOREM StatusCorrect == Spec => []StatusMatchesOutcome
<1>1. ReturnInv => StatusMatchesOutcome
  BY DEF ReturnInv
<1>2. QED
  BY <1>1, ReturnAlways, PTL

(* No answer is printed before its record was attempted                     *)
(* (session.go:345, chat main.go:132-147).                                  *)
THEOREM RecordedFirst == Spec => []AnswerIsRecordedFirst
<1>1. ReturnInv => AnswerIsRecordedFirst
  BY DEF ReturnInv
<1>2. QED
  BY <1>1, ReturnAlways, PTL

(* An authorization refusal is final: the loop is over when it is made      *)
(* (session.go:426-429).                                                    *)
THEOREM RefusalFinal == Spec => RefusalIsFinal
<1> DEFINE Final == refusal # "none" => UNCHANGED <<executed, turn, used, shown>>
<1>1. ReturnInv /\ [Next]_vars => [Final]_vars
  <2> SUFFICES ASSUME ReturnInv, [Next]_vars, refusal # "none" PROVE Final
    OBVIOUS
  <2>1. ~InLoop
    BY DEF ReturnInv
  <2>2. CASE GatewayError \/ DescribesACall \/ ExecutionFails \/ TurnLimit
    BY <2>1, <2>2 DEF GatewayError, DescribesACall, ExecutionFails, TurnLimit,
                      InLoop
  <2>3. CASE EmptyAnswer \/ UnknownTool \/ UndecodableIntent \/ PolicyAllows
    BY <2>1, <2>3 DEF EmptyAnswer, UnknownTool, UndecodableIntent,
                      PolicyAllows, Completes, InLoop
  <2>4. ASSUME NEW text, Answers(text) PROVE Final
    BY <2>1, <2>4 DEF Answers, Completes, InLoop
  <2>5. ASSUME NEW code, PolicyDenies(code) PROVE Final
    BY <2>1, <2>5 DEF PolicyDenies, Completes, InLoop
  <2>6. ASSUME NEW size, \/ ResultTooLarge(size) \/ ResultWithheld(size)
                         \/ ResultCollected(size)
        PROVE  Final
    BY <2>1, <2>6 DEF ResultTooLarge, ResultWithheld, ResultCollected, InLoop
  <2>7. CASE writeAudit \/ Exit \/ Deadline \/ Killed \/ UNCHANGED vars
    BY <2>7 DEF writeAudit, Exit, Deadline, Killed, vars
  <2>8. QED
    BY Steps, <2>2, <2>3, <2>4, <2>5, <2>6, <2>7
<1>2. QED
  BY <1>1, ReturnAlways, PTL DEF Spec, RefusalIsFinal

-----------------------------------------------------------------------------
(* The message history.                                                     *)

\* Between turns the history is within what the turns so far account for; a
\* turn in progress has added at most the assistant's message.
HistoryInv ==
  /\ used <= ServedContext + UnguardedGrowth * turn + MaxReply
  /\ pc \in {"complete", "returning"}
       => used <= ServedContext + UnguardedGrowth * turn

(* One more turn accounts for one more unguarded growth.                    *)
LEMMA NextGrowth ==
  ASSUME NEW t \in Nat
  PROVE  /\ UnguardedGrowth \in Nat
         /\ UnguardedGrowth * t \in Nat
         /\ UnguardedGrowth * (t + 1) = UnguardedGrowth * t + UnguardedGrowth
BY SizesAssumption DEF UnguardedGrowth

(* Going round keeps the bound when the message added was held to the       *)
(* context, or is no longer than a reply and a note.                        *)
LEMMA ContinueHistory ==
  ASSUME turn \in Nat, used \in Nat, NEW tokens \in Nat, Continue(tokens),
         \/ used + tokens <= ServedContext + WrapperTokens
         \/ used + tokens <= ServedContext + UnguardedGrowth * turn
                               + MaxReply + MaxNote
  PROVE  HistoryInv'
<1>1. used' = used + tokens /\ turn' = turn + 1
  BY DEF Continue
<1>2. used' <= ServedContext + (UnguardedGrowth * turn + UnguardedGrowth)
  BY <1>1, NextGrowth, SizesAssumption DEF UnguardedGrowth
<1>3. UnguardedGrowth * turn' = UnguardedGrowth * turn + UnguardedGrowth
  BY <1>1, NextGrowth
<1>4. QED
  BY <1>1, <1>2, <1>3, NextGrowth, SizesAssumption DEF HistoryInv

(* A reply and a note after it keep the bound.                              *)
LEMMA ReplyHistory ==
  ASSUME turn \in Nat, used \in Nat, HistoryInv, pc = "complete",
         NEW reply \in ReplySizes, NEW note \in NoteSizes,
         Continue(reply + note)
  PROVE  HistoryInv'
<1>1. reply \in 0 .. MaxReply /\ note \in 0 .. MaxNote /\ reply + note \in Nat
  BY SizesAssumption
<1>2. UnguardedGrowth * turn \in Nat
  BY NextGrowth
<1>3. used + (reply + note) <= ServedContext + UnguardedGrowth * turn
                                 + MaxReply + MaxNote
  BY <1>1, <1>2, SizesAssumption DEF HistoryInv
<1>4. QED
  BY <1>1, <1>3, ContinueHistory

(* A note about an executed call keeps the bound.                           *)
LEMMA NoteHistory ==
  ASSUME turn \in Nat, used \in Nat, HistoryInv, NEW note \in NoteSizes,
         Continue(note)
  PROVE  HistoryInv'
<1>1. note \in 0 .. MaxNote
  BY SizesAssumption
<1>2. UnguardedGrowth * turn \in Nat
  BY NextGrowth
<1>3. used + note <= ServedContext + UnguardedGrowth * turn
                       + MaxReply + MaxNote
  BY <1>1, <1>2, SizesAssumption DEF HistoryInv
<1>4. QED
  BY <1>1, <1>3, ContinueHistory, SizesAssumption

(* Every step keeps the bound.                                              *)
LEMMA HistoryStep ==
  ASSUME TypeInv, HistoryInv, [Next]_vars
  PROVE  HistoryInv'
<1>1. turn \in Nat /\ used \in Nat
  BY TypeFacts
<1>2. CASE DescribesACall
  BY <1>1, <1>2, ReplyHistory DEF DescribesACall
<1>3. CASE UndecodableIntent
  BY <1>1, <1>3, ReplyHistory DEF UndecodableIntent, Completes
<1>4. ASSUME NEW code, PolicyDenies(code) PROVE HistoryInv'
  <2>1. CASE Return("refused")
    BY <1>4, <2>1 DEF PolicyDenies, Completes, Return, HistoryInv
  <2>2. CASE \E reply \in ReplySizes, note \in NoteSizes :
               Continue(reply + note)
    BY <1>1, <1>4, <2>2, ReplyHistory DEF PolicyDenies, Completes
  <2>3. QED
    BY <1>4, <2>1, <2>2 DEF PolicyDenies
<1>5. CASE PolicyAllows
  <2>1. PICK reply \in ReplySizes : used' = used + reply
    BY <1>5 DEF PolicyAllows
  <2>2. pc = "complete" /\ pc' = "executing" /\ turn' = turn
    BY <1>5 DEF PolicyAllows, Completes
  <2>3. reply \in 0 .. MaxReply
    BY SizesAssumption
  <2>4. QED
    BY <1>1, <2>1, <2>2, <2>3, NextGrowth, SizesAssumption DEF HistoryInv
<1>6. CASE ExecutionFails
  BY <1>1, <1>6, NoteHistory DEF ExecutionFails
<1>7. ASSUME NEW size, ResultTooLarge(size) \/ ResultWithheld(size)
      PROVE  HistoryInv'
  BY <1>1, <1>7, NoteHistory DEF ResultTooLarge, ResultWithheld
<1>8. ASSUME NEW size \in EvidenceSizes, ResultCollected(size)
      PROVE  HistoryInv'
  <2>1. Continue(size + WrapperTokens) /\ used + size <= ServedContext
    BY <1>8 DEF ResultCollected, roomForMore
  <2>2. /\ size \in Nat /\ WrapperTokens \in Nat /\ ServedContext \in Nat
        /\ size + WrapperTokens \in Nat
    BY SizesAssumption
  <2>3. used + (size + WrapperTokens) <= ServedContext + WrapperTokens
    BY <1>1, <2>1, <2>2
  <2>4. QED
    BY <1>1, <2>1, <2>2, <2>3, ContinueHistory
<1>9. CASE GatewayError \/ EmptyAnswer \/ UnknownTool \/ TurnLimit
  BY <1>9 DEF GatewayError, EmptyAnswer, UnknownTool, TurnLimit, Completes,
              Return, HistoryInv
<1>10. ASSUME NEW text, Answers(text) PROVE HistoryInv'
  BY <1>10 DEF Answers, Completes, Return, HistoryInv
<1>11. CASE writeAudit \/ Exit \/ Deadline \/ Killed \/ UNCHANGED vars
  BY <1>11 DEF writeAudit, Exit, Deadline, Killed, vars, HistoryInv
<1>12. QED
  BY Steps, <1>2, <1>3, <1>4, <1>5, <1>6, <1>7, <1>8, <1>9, <1>10, <1>11

(* The invariant bounds the history as the property does.                   *)
LEMMA HistoryBound ==
  ASSUME TypeInv, HistoryInv
  PROVE  HistoryOverrunBounded
<1>1. CASE pc \in {"complete", "returning"}
  BY <1>1 DEF HistoryInv, HistoryOverrunBounded, TurnsBegun
<1>2. CASE pc \notin {"complete", "returning"}
  <2>1. TurnsBegun = turn + 1
    BY <1>2 DEF TurnsBegun
  <2>2. MaxReply <= UnguardedGrowth /\ MaxReply \in Nat
    BY SizesAssumption DEF UnguardedGrowth
  <2>3. turn \in Nat /\ used \in Nat
    BY TypeFacts
  <2>4. UnguardedGrowth * (turn + 1) = UnguardedGrowth * turn + UnguardedGrowth
    BY <2>3, NextGrowth
  <2>5. UnguardedGrowth \in Nat /\ UnguardedGrowth * turn \in Nat
    BY <2>3, NextGrowth
  <2>6. used <= ServedContext + UnguardedGrowth * turn + MaxReply
    BY DEF HistoryInv
  <2>7. used <= ServedContext + UnguardedGrowth * (turn + 1)
    BY <2>2, <2>3, <2>4, <2>5, <2>6, SizesAssumption
  <2>8. QED
    BY <2>1, <2>7 DEF HistoryOverrunBounded
<1>3. QED
  BY <1>1, <1>2

(* The history passes the served context by no more than what the turns     *)
(* begun add without asking roomForMore, whatever the sizes                 *)
(* (session.go:311-314, 417, 442, 455, 460, 483).                           *)
THEOREM HistoryBounded == Spec => []HistoryOverrunBounded
<1>1. Init => HistoryInv
  BY SizesAssumption DEF Init, HistoryInv, UnguardedGrowth
<1>2. TypeInv /\ HistoryInv /\ [Next]_vars => HistoryInv'
  BY HistoryStep
<1>3. TypeInv /\ HistoryInv => HistoryOverrunBounded
  BY HistoryBound
<1>4. QED
  BY <1>1, <1>2, <1>3, TypeAlways, PTL DEF Spec

-----------------------------------------------------------------------------
(* What the trace has recorded.                                             *)

(* Appending one entry records its stage and nothing else.                  *)
LEMMA RecordedAppend ==
  ASSUME trace \in Seq(Entries), NEW stage \in Stages, NEW ok \in BOOLEAN,
         trace' = Append(trace, Entry(stage, ok)), NEW s
  PROVE  Recorded(s)' <=> Recorded(s) \/ s = stage
<1>1. /\ DOMAIN trace' = 1 .. Len(trace) + 1
      /\ DOMAIN trace = 1 .. Len(trace)
      /\ Len(trace) \in Nat
      /\ trace'[Len(trace) + 1] = Entry(stage, ok)
      /\ \A i \in 1 .. Len(trace) : trace'[i] = trace[i]
  BY EntryType
<1>2. Entry(stage, ok).stage = stage
  BY DEF Entry
<1>3. QED
  BY <1>1, <1>2 DEF Recorded

(* Appending two entries records their stages and nothing else.             *)
LEMMA RecordedTwo ==
  ASSUME trace \in Seq(Entries), NEW a \in Entries, NEW b \in Entries,
         trace' = trace \o <<a, b>>, NEW s
  PROVE  Recorded(s)' <=> Recorded(s) \/ s = a.stage \/ s = b.stage
<1>1. /\ DOMAIN trace' = 1 .. Len(trace) + 2
      /\ DOMAIN trace = 1 .. Len(trace)
      /\ Len(trace) \in Nat
      /\ trace'[Len(trace) + 1] = a
      /\ trace'[Len(trace) + 2] = b
      /\ \A i \in 1 .. Len(trace) : trace'[i] = trace[i]
  OBVIOUS
<1>2. ASSUME Recorded(s) PROVE Recorded(s)'
  BY <1>1, <1>2 DEF Recorded
<1>3. Recorded(a.stage)' /\ Recorded(b.stage)'
  <2>1. Len(trace) + 1 \in DOMAIN trace' /\ Len(trace) + 2 \in DOMAIN trace'
    BY <1>1
  <2>2. QED
    BY <1>1, <2>1 DEF Recorded
<1>4. ASSUME NEW i \in DOMAIN trace', trace'[i].stage = s,
             i \notin DOMAIN trace
      PROVE  s = a.stage \/ s = b.stage
  <2>1. i = Len(trace) + 1 \/ i = Len(trace) + 2
    BY <1>1, <1>4
  <2>2. QED
    BY <1>1, <1>4, <2>1
<1>5. ASSUME Recorded(s)', ~Recorded(s) PROVE s = a.stage \/ s = b.stage
  BY <1>1, <1>4, <1>5 DEF Recorded
<1>6. QED
  BY <1>2, <1>3, <1>5

(* A proposal and its fate are recorded together.                           *)
LEMMA RecordedProposal ==
  ASSUME trace \in Seq(Entries), NEW stage \in Stages, NEW ok \in BOOLEAN,
         trace' = trace \o <<Entry("intent_proposed", TRUE), Entry(stage, ok)>>,
         NEW s
  PROVE  Recorded(s)' <=> Recorded(s) \/ s = "intent_proposed" \/ s = stage
<1>1. PICK a \in Entries : a = Entry("intent_proposed", TRUE)
  BY EntryType DEF Stages
<1>2. PICK b \in Entries : b = Entry(stage, ok)
  BY EntryType
<1>3. trace' = trace \o <<a, b>>
  BY <1>1, <1>2
<1>4. a.stage = "intent_proposed" /\ b.stage = stage
  BY <1>1, <1>2 DEF Entry
<1>5. QED
  BY <1>3, <1>4, RecordedTwo

\* The stages the properties ask the trace about.
Watched ==
  {"evidence_withheld_for_context", "policy_allowed", "policy_denied"}

\* The steps that record none of them.
Unwatched ==
  \/ GatewayError \/ DescribesACall \/ EmptyAnswer
  \/ \E text \in Texts : Answers(text)
  \/ UnknownTool \/ UndecodableIntent \/ ExecutionFails
  \/ \E size \in EvidenceSizes : ResultTooLarge(size) \/ ResultCollected(size)
  \/ TurnLimit \/ writeAudit \/ Exit \/ Deadline \/ Killed \/ UNCHANGED vars

(* A step records a watched stage or is one of the others.                  *)
LEMMA WatchedSteps ==
  ASSUME [Next]_vars
  PROVE  \/ PolicyAllows
         \/ \E code \in RouteErrorCodes : PolicyDenies(code)
         \/ \E size \in EvidenceSizes : ResultWithheld(size)
         \/ Unwatched
<1>1. ASSUME NEW kind \in {"described", "prose"}, NEW mentions \in BOOLEAN,
             NEW partial \in BOOLEAN, Answers(Answer(kind, mentions, partial))
      PROVE  Unwatched
  BY <1>1 DEF Unwatched, Texts
<1>2. QED
  BY Steps, <1>1 DEF Unwatched

(* The other steps record no watched stage.                                 *)
LEMMA RecordKept ==
  ASSUME TypeInv, Unwatched, NEW s \in Watched
  PROVE  Recorded(s)' <=> Recorded(s)
<1>1. trace \in Seq(Entries)
  BY TypeFacts
<1> USE DEF Watched, Stages
<1>2. CASE DescribesACall
  BY <1>1, <1>2, RecordedAppend DEF DescribesACall
<1>3. CASE EmptyAnswer
  BY <1>1, <1>3, RecordedAppend DEF EmptyAnswer
<1>4. ASSUME NEW text, Answers(text) PROVE Recorded(s)' <=> Recorded(s)
  BY <1>1, <1>4, RecordedAppend DEF Answers
<1>5. CASE UnknownTool
  BY <1>1, <1>5, RecordedAppend DEF UnknownTool
<1>6. CASE UndecodableIntent
  <2>1. trace' = trace \o <<Entry("intent_proposed", TRUE),
                            Entry("intent_rejected", FALSE)>>
    BY <1>6 DEF UndecodableIntent
  <2>2. QED
    BY <1>1, <2>1, RecordedProposal
<1>7. CASE ExecutionFails
  BY <1>1, <1>7, RecordedAppend DEF ExecutionFails
<1>8. ASSUME NEW size, ResultCollected(size)
      PROVE  Recorded(s)' <=> Recorded(s)
  BY <1>1, <1>8, RecordedAppend DEF ResultCollected
<1>9. CASE TurnLimit
  BY <1>1, <1>9, RecordedAppend DEF TurnLimit
<1>10. ASSUME trace' = trace PROVE Recorded(s)' <=> Recorded(s)
  BY <1>10 DEF Recorded
<1>11. CASE GatewayError \/ writeAudit \/ Exit \/ Deadline \/ Killed
            \/ UNCHANGED vars
  BY <1>10, <1>11 DEF GatewayError, writeAudit, Exit, Deadline, Killed, vars
<1>12. ASSUME NEW size, ResultTooLarge(size)
       PROVE  Recorded(s)' <=> Recorded(s)
  BY <1>10, <1>12 DEF ResultTooLarge
<1>13. QED
  BY <1>2, <1>3, <1>4, <1>5, <1>6, <1>7, <1>8, <1>9, <1>11, <1>12
     DEF Unwatched

-----------------------------------------------------------------------------
(* Evidence that was withheld.                                              *)

\* A withheld result raises the flag for good, and an answer given with the
\* flag up says so.
WithheldInv ==
  /\ Recorded("evidence_withheld_for_context") => budgetReached
  /\ outcome = "answer" /\ budgetReached => answer.mentions

(* Every step keeps the flag and the mark in agreement.                     *)
LEMMA WithheldStep ==
  ASSUME TypeInv, ReturnInv, WithheldInv, [Next]_vars
  PROVE  WithheldInv'
<1> DEFINE R == Recorded("evidence_withheld_for_context")
<1>1. trace \in Seq(Entries)
  BY TypeFacts
<1>2. CASE PolicyAllows
  <2>1. trace' = trace \o <<Entry("intent_proposed", TRUE),
                            Entry("policy_allowed", TRUE)>>
    BY <1>2 DEF PolicyAllows
  <2>2. R' <=> R
    BY <1>1, <2>1, RecordedProposal DEF Stages
  <2>3. QED
    BY <1>2, <2>2 DEF PolicyAllows, WithheldInv
<1>3. ASSUME NEW code, PolicyDenies(code) PROVE WithheldInv'
  <2>1. trace' = trace \o <<Entry("intent_proposed", TRUE),
                            Entry("policy_denied", FALSE)>>
    BY <1>3 DEF PolicyDenies
  <2>2. R' <=> R
    BY <1>1, <2>1, RecordedProposal DEF Stages
  <2>3. outcome' # "answer"
    BY <1>3 DEF PolicyDenies, Completes, Continue, Return, ReturnInv, InLoop
  <2>4. QED
    BY <1>3, <2>2, <2>3 DEF PolicyDenies, WithheldInv
<1>4. ASSUME NEW size, ResultWithheld(size) PROVE WithheldInv'
  <2>1. outcome' # "answer" /\ budgetReached'
    BY <1>4 DEF ResultWithheld, Continue, ReturnInv, InLoop
  <2>2. QED
    BY <2>1 DEF WithheldInv
<1>5. CASE Unwatched
  <2>1. R' <=> R
    BY <1>5, RecordKept DEF Watched
  <2>2. ASSUME NEW text \in Texts, Answers(text) PROVE WithheldInv'
    <3>1. budgetReached => answer'.mentions
      BY <2>2 DEF Answers, discloseWithheldEvidence, Texts, Answer
    <3>2. QED
      BY <2>1, <2>2, <3>1 DEF Answers, WithheldInv
  <2>3. CASE DescribesACall \/ ExecutionFails
    <3>1. outcome' # "answer" /\ UNCHANGED budgetReached
      BY <2>3 DEF DescribesACall, ExecutionFails, Continue, ReturnInv, InLoop
    <3>2. QED
      BY <2>1, <3>1 DEF WithheldInv
  <2>4. CASE UndecodableIntent
    <3>1. outcome' # "answer" /\ UNCHANGED budgetReached
      BY <2>4 DEF UndecodableIntent, Completes, Continue, ReturnInv, InLoop
    <3>2. QED
      BY <2>1, <3>1 DEF WithheldInv
  <2>5. ASSUME NEW size, ResultTooLarge(size) \/ ResultCollected(size)
        PROVE  WithheldInv'
    <3>1. outcome' # "answer" /\ UNCHANGED budgetReached
      BY <2>5 DEF ResultTooLarge, ResultCollected, Continue, ReturnInv, InLoop
    <3>2. QED
      BY <2>1, <3>1 DEF WithheldInv
  <2>6. CASE GatewayError \/ EmptyAnswer \/ UnknownTool \/ TurnLimit
    <3>1. outcome' # "answer" /\ UNCHANGED budgetReached
      BY <2>6 DEF GatewayError, EmptyAnswer, UnknownTool, TurnLimit, Return
    <3>2. QED
      BY <2>1, <3>1 DEF WithheldInv
  <2>7. CASE writeAudit \/ Exit \/ Deadline \/ Killed \/ UNCHANGED vars
    <3>1. UNCHANGED <<outcome, budgetReached, answer>>
      BY <2>7 DEF writeAudit, Exit, Deadline, Killed, vars
    <3>2. QED
      BY <2>1, <3>1 DEF WithheldInv
  <2>8. QED
    BY <1>5, <2>2, <2>3, <2>4, <2>5, <2>6, <2>7 DEF Unwatched
<1>6. QED
  BY WatchedSteps, <1>2, <1>3, <1>4, <1>5

(* No answer leaves Ask unmarked once a result was withheld from the model, *)
(* however many turns came between (session.go:321-333, 397, 455-468).      *)
THEOREM WithheldFlagged == Spec => []WithheldEvidenceIsFlagged
<1>1. Init => WithheldInv
  BY DEF Init, WithheldInv, Recorded
<1>2. TypeInv /\ ReturnInv /\ WithheldInv /\ [Next]_vars => WithheldInv'
  BY WithheldStep
<1>3. WithheldInv => WithheldEvidenceIsFlagged
  BY DEF WithheldInv, WithheldEvidenceIsFlagged
<1>4. QED
  BY <1>1, <1>2, <1>3, TypeAlways, ReturnAlways, PTL DEF Spec

-----------------------------------------------------------------------------
(* The one decision of the record.                                          *)

(* The property case by case.                                               *)
LEMMA DecisionCases ==
  DecisionMatchesTrace <=>
    /\ outcome = "refused" => event.decision = "denied"
    /\ outcome # "refused" /\ Recorded("policy_allowed")
         => event.decision = "allowed"
    /\ outcome # "refused" /\ ~Recorded("policy_allowed")
         => event.decision = IF Recorded("policy_denied")
                             THEN "denied" ELSE "no_tool_call"
BY DEF DecisionMatchesTrace

(* The same in the next state.                                              *)
LEMMA DecisionCasesPrimed ==
  DecisionMatchesTrace' <=>
    /\ outcome' = "refused" => event'.decision = "denied"
    /\ outcome' # "refused" /\ Recorded("policy_allowed")'
         => event'.decision = "allowed"
    /\ outcome' # "refused" /\ ~Recorded("policy_allowed")'
         => event'.decision = IF Recorded("policy_denied")'
                              THEN "denied" ELSE "no_tool_call"
BY DEF DecisionMatchesTrace


(* A step that asks policy nothing keeps the decision, and whether the      *)
(* session was refused.                                                     *)
LEMMA DecisionKept ==
  ASSUME TypeInv, ReturnInv, Unwatched
  PROVE  /\ event'.decision = event.decision
         /\ outcome' = "refused" <=> outcome = "refused"
<1> DEFINE Kept == /\ event'.decision = event.decision
                   /\ outcome' = "refused" <=> outcome = "refused"
<1>1. event \in Events
  BY TypeFacts
<1> USE <1>1 DEF Events, ReturnInv, InLoop
<1>2. ASSUME NEW text, Answers(text) PROVE Kept
  BY <1>2 DEF Answers, Completes, Return
<1>3. CASE DescribesACall \/ ExecutionFails
  BY <1>3 DEF DescribesACall, ExecutionFails, Continue
<1>4. CASE UndecodableIntent
  BY <1>4 DEF UndecodableIntent, Continue
<1>5. ASSUME NEW size, ResultTooLarge(size) PROVE Kept
  BY <1>5 DEF ResultTooLarge, Continue
<1>6. ASSUME NEW size, ResultCollected(size) PROVE Kept
  BY <1>6 DEF ResultCollected, Continue
<1>7. CASE GatewayError
  BY <1>7 DEF GatewayError, Return
<1>8. CASE EmptyAnswer
  BY <1>8 DEF EmptyAnswer, Completes, Return
<1>9. CASE UnknownTool
  BY <1>9 DEF UnknownTool, Completes, Return
<1>10. CASE TurnLimit
  BY <1>10 DEF TurnLimit, Return
<1>11. CASE writeAudit
  BY <1>11 DEF writeAudit, FinalEvent
<1>12. CASE Exit \/ Deadline \/ Killed \/ UNCHANGED vars
  BY <1>12 DEF Exit, Deadline, Killed, vars
<1>13. QED
  BY <1>2, <1>3, <1>4, <1>5, <1>6, <1>7, <1>8, <1>9, <1>10, <1>11, <1>12
     DEF Unwatched

(* Every step keeps the decision in agreement with the trace.               *)
LEMMA DecisionStep ==
  ASSUME TypeInv, ReturnInv, DecisionMatchesTrace, [Next]_vars
  PROVE  DecisionMatchesTrace'
<1>1. trace \in Seq(Entries) /\ event \in Events
  BY TypeFacts
<1>2. CASE PolicyAllows
  <2>1. trace' = trace \o <<Entry("intent_proposed", TRUE),
                            Entry("policy_allowed", TRUE)>>
    BY <1>2 DEF PolicyAllows
  <2>2. Recorded("policy_allowed")'
    BY <1>1, <2>1, RecordedProposal DEF Stages
  <2>3. event'.decision = "allowed"
    BY <1>1, <1>2 DEF PolicyAllows, Events
  <2>4. outcome' # "refused"
    BY <1>2 DEF PolicyAllows, Completes, ReturnInv, InLoop
  <2>5. QED
    BY <2>2, <2>3, <2>4, DecisionCasesPrimed
<1>3. ASSUME NEW code, PolicyDenies(code) PROVE DecisionMatchesTrace'
  <2>1. trace' = trace \o <<Entry("intent_proposed", TRUE),
                            Entry("policy_denied", FALSE)>>
    BY <1>3 DEF PolicyDenies
  <2>2. /\ Recorded("policy_allowed")' <=> Recorded("policy_allowed")
        /\ Recorded("policy_denied")'
    BY <1>1, <2>1, RecordedProposal DEF Stages
  <2>3. outcome = "none"
    BY <1>3 DEF PolicyDenies, Completes, ReturnInv, InLoop
  <2>4. CASE isRetryableRouteError(code)
    <3>1. outcome' = outcome
      BY <1>3, <2>4 DEF PolicyDenies, Continue
    <3>2. event'.decision = IF event.decision = "no_tool_call" THEN "denied"
                                                     ELSE event.decision
      BY <1>1, <1>3, <2>4 DEF PolicyDenies, DeniedEvent, Events
    <3>3. QED
      BY <2>2, <2>3, <3>1, <3>2, DecisionCases, DecisionCasesPrimed
  <2>5. CASE ~isRetryableRouteError(code)
    <3>1. outcome' = "refused"
      BY <1>3, <2>5 DEF PolicyDenies, Return
    <3>2. event'.decision = "denied"
      BY <1>1, <1>3, <2>5 DEF PolicyDenies, DeniedEvent, Events
    <3>3. QED
      BY <3>1, <3>2, DecisionCasesPrimed
  <2>6. QED
    BY <2>4, <2>5
<1>4. ASSUME NEW size, ResultWithheld(size) PROVE DecisionMatchesTrace'
  <2>1. trace' = Append(trace, Entry("evidence_withheld_for_context", FALSE))
    BY <1>4 DEF ResultWithheld
  <2>2. /\ Recorded("policy_allowed")' <=> Recorded("policy_allowed")
        /\ Recorded("policy_denied")' <=> Recorded("policy_denied")
    BY <1>1, <2>1, RecordedAppend DEF Stages
  <2>3. UNCHANGED <<event, outcome>>
    BY <1>4 DEF ResultWithheld, Continue
  <2>4. QED
    BY <2>2, <2>3, DecisionCases, DecisionCasesPrimed
<1>5. CASE Unwatched
  <2>1. /\ Recorded("policy_allowed")' <=> Recorded("policy_allowed")
        /\ Recorded("policy_denied")' <=> Recorded("policy_denied")
    BY <1>5, RecordKept DEF Watched
  <2>2. QED
    BY <1>5, <2>1, DecisionKept, DecisionCases, DecisionCasesPrimed
<1>6. QED
  BY WatchedSteps, <1>2, <1>3, <1>4, <1>5

(* The one decision the audit record carries is the one the whole trace     *)
(* supports (session.go:511-516, 527, 427).                                 *)
THEOREM DecisionCorrect == Spec => []DecisionMatchesTrace
<1>1. Init => DecisionMatchesTrace
  BY DEF Init, DecisionMatchesTrace, Recorded
<1>2. TypeInv /\ ReturnInv /\ DecisionMatchesTrace /\ [Next]_vars
        => DecisionMatchesTrace'
  BY DecisionStep
<1>3. QED
  BY <1>1, <1>2, TypeAlways, ReturnAlways, PTL DEF Spec

-----------------------------------------------------------------------------
(* The calls of the record.                                                 *)

\* Connectors were called in turns already begun, the plan is the last one's,
\* and a call in progress is this turn's.
CallsInv ==
  /\ AuditedCallsAreShownEvidence
  /\ \A t \in executed : t <= turn
  /\ pc = "complete" => \A t \in executed : t < turn
  /\ pc = "executing" => turn \in executed

(* Every step keeps the calls in agreement.                                 *)
LEMMA CallsStep ==
  ASSUME TypeInv, CallsInv, [Next]_vars
  PROVE  CallsInv'
<1>1. /\ event \in Events /\ turn \in Nat
      /\ \A t \in executed : t \in Nat
  BY TypeFacts DEF TypeInv, TypeOK, Turns
<1> USE DEF CallsInv, AuditedCallsAreShownEvidence
<1>2. CASE DescribesACall \/ ExecutionFails
  <2>1. /\ UNCHANGED <<event, executed, shown>>
        /\ pc' = "complete" /\ turn' = turn + 1
    BY <1>2 DEF DescribesACall, ExecutionFails, Continue
  <2>2. QED
    BY <1>1, <2>1
<1>3. CASE UndecodableIntent
  BY <1>1, <1>3 DEF UndecodableIntent, Completes, Continue, Events
<1>4. ASSUME NEW code, PolicyDenies(code) PROVE CallsInv'
  <2>1. UNCHANGED <<executed, shown>> /\ pc = "complete"
    BY <1>4 DEF PolicyDenies, Completes
  <2>2. event'.calls = event.calls /\ event'.plan = event.plan
    BY <1>1, <1>4 DEF PolicyDenies, DeniedEvent, Events
  <2>3. \/ pc' = "complete" /\ turn' = turn + 1
        \/ pc' = "returning" /\ turn' = turn
    BY <1>4 DEF PolicyDenies, Continue, Return
  <2>4. QED
    BY <1>1, <2>1, <2>2, <2>3
<1>5. CASE PolicyAllows
  <2>1. event'.calls = event.calls /\ event'.plan = turn
    BY <1>1, <1>5 DEF PolicyAllows, Events
  <2>2. /\ executed' = executed \cup {turn} /\ UNCHANGED <<turn, shown>>
        /\ pc = "complete" /\ pc' = "executing"
    BY <1>5 DEF PolicyAllows, Completes
  <2>3. QED
    BY <1>1, <2>1, <2>2
<1>6. ASSUME NEW size, ResultTooLarge(size) \/ ResultWithheld(size)
      PROVE  CallsInv'
  <2>1. /\ UNCHANGED <<event, executed, shown>>
        /\ pc' = "complete" /\ turn' = turn + 1
    BY <1>6 DEF ResultTooLarge, ResultWithheld, Continue
  <2>2. QED
    BY <1>1, <2>1
<1>7. ASSUME NEW size, ResultCollected(size) PROVE CallsInv'
  <2>1. event'.calls = event.calls \cup {turn} /\ event'.plan = event.plan
    BY <1>1, <1>7 DEF ResultCollected, Events
  <2>2. /\ shown' = shown \cup {turn} /\ UNCHANGED executed
        /\ pc = "executing" /\ pc' = "complete" /\ turn' = turn + 1
    BY <1>7 DEF ResultCollected, Continue
  <2>3. QED
    BY <1>1, <2>1, <2>2
<1>8. CASE GatewayError \/ UnknownTool
  BY <1>1, <1>8 DEF GatewayError, UnknownTool, Return
<1>9. CASE EmptyAnswer \/ TurnLimit
  <2>1. event'.calls = event.calls /\ event'.plan = event.plan
    BY <1>1, <1>9 DEF EmptyAnswer, TurnLimit, Events
  <2>2. UNCHANGED <<executed, shown, turn>> /\ pc' = "returning"
    BY <1>9 DEF EmptyAnswer, TurnLimit, Return
  <2>3. QED
    BY <2>1, <2>2
<1>10. ASSUME NEW text, Answers(text) PROVE CallsInv'
  <2>1. event'.calls = event.calls /\ event'.plan = event.plan
    BY <1>1, <1>10 DEF Answers, Events
  <2>2. UNCHANGED <<executed, shown, turn>> /\ pc' = "returning"
    BY <1>10 DEF Answers, Return
  <2>3. QED
    BY <2>1, <2>2
<1>11. CASE writeAudit
  <2>1. event'.calls = event.calls /\ event'.plan = event.plan
    BY <1>1, <1>11 DEF writeAudit, FinalEvent, Events
  <2>2. UNCHANGED <<executed, shown, turn>> /\ pc' = "returned"
    BY <1>11 DEF writeAudit
  <2>3. QED
    BY <2>1, <2>2
<1>12. CASE Exit \/ Deadline \/ Killed \/ UNCHANGED vars
  BY <1>12 DEF Exit, Deadline, Killed, vars
<1>13. QED
  BY Steps, <1>2, <1>3, <1>4, <1>5, <1>6, <1>7, <1>8, <1>9, <1>10, <1>11,
     <1>12

(* The audited calls are exactly the evidence the model was shown, and the  *)
(* audited plan is the last one executed (session.go:527-530, 470-485).     *)
THEOREM CallsCorrect == Spec => []AuditedCallsAreShownEvidence
<1>1. Init => CallsInv
  BY DEF Init, CallsInv, AuditedCallsAreShownEvidence
<1>2. TypeInv /\ CallsInv /\ [Next]_vars => CallsInv'
  BY CallsStep
<1>3. CallsInv => AuditedCallsAreShownEvidence
  BY DEF CallsInv
<1>4. QED
  BY <1>1, <1>2, <1>3, TypeAlways, PTL DEF Spec

=============================================================================
