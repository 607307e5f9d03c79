--------------------------- MODULE SessionProofs ---------------------------
(***************************************************************************)
(* Type correctness of Session for every value of its constants.  The      *)
(* variables are typed in groups, each by a lemma with one step per action *)
(* that can disturb it; CallInTurn is what the groups need of each other.  *)
(***************************************************************************)
EXTENDS SessionProperties, WellFoundedInduction, TLAPS

(* The steps of the loop, for case splits.                                  *)
LEMMA Steps ==
  ASSUME [Next]_vars
  PROVE  \/ GatewayError \/ DescribesACall \/ EmptyAnswer
         \/ \E kind \in {"described", "prose"}, mentions, partial \in BOOLEAN :
              Answers(Answer(kind, mentions, partial))
         \/ UnknownTool \/ UndecodableIntent
         \/ \E code \in RouteErrorCodes : PolicyDenies(code)
         \/ PolicyAllows \/ ExecutionFails
         \/ \E size \in EvidenceSizes : ResultTooLarge(size)
         \/ \E size \in EvidenceSizes : ResultWithheld(size)
         \/ \E size \in EvidenceSizes : ResultCollected(size)
         \/ TurnLimit \/ writeAudit \/ Exit \/ Deadline \/ Killed
         \/ UNCHANGED vars
BY DEF Next, Step, GatewayReplies, ConnectorReplies, Done

(* A nonempty set of natural numbers has a least element.                   *)
LEMMA NatMin ==
  ASSUME NEW T \in SUBSET Nat, T # {}
  PROVE  \E x \in T : \A y \in T : x <= y
<1> DEFINE Less == {p \in Nat \X Nat : p[1] < p[2]}
<1>1. IsWellFoundedOn(Less, Nat)
  <2>1. OpToRel(<, Nat) = Less
    BY DEF OpToRel
  <2>2. QED
    BY <2>1, NatLessThanWellFounded
<1>2. PICK x \in T : \A y \in T : <<y, x>> \notin Less
  <2> HIDE DEF Less
  <2>1. QED
    BY <1>1, WFMin
<1>3. ASSUME NEW y \in T PROVE x <= y
  <2>1. <<y, x>> \in Nat \X Nat
    OBVIOUS
  <2>2. ~(y < x)
    BY <1>2, <2>1, Zenon
  <2>3. QED
    BY <2>2
<1>4. QED
  BY <1>3

-----------------------------------------------------------------------------
(* The trace.                                                               *)

(* What a step appends is an entry.                                         *)
LEMMA EntryType ==
  ASSUME NEW stage \in Stages, NEW ok \in BOOLEAN
  PROVE  Entry(stage, ok) \in Entries
BY DEF Entry, Entries

(* One entry appended, or two, leave a sequence of entries.                 *)
LEMMA Appended ==
  ASSUME NEW t \in Seq(Entries), NEW stage \in Stages, NEW ok \in BOOLEAN
  PROVE  Append(t, Entry(stage, ok)) \in Seq(Entries)
BY EntryType

(* The proposal and its fate are appended together.                         *)
LEMMA AppendedTwo ==
  ASSUME NEW t \in Seq(Entries), NEW s1 \in Stages, NEW ok1 \in BOOLEAN,
         NEW s2 \in Stages, NEW ok2 \in BOOLEAN
  PROVE  t \o <<Entry(s1, ok1), Entry(s2, ok2)>> \in Seq(Entries)
BY EntryType

(* The trace stays a sequence of entries.                                   *)
LEMMA TraceType ==
  ASSUME trace \in Seq(Entries), [Next]_vars
  PROVE  trace' \in Seq(Entries)
<1>1. CASE DescribesACall
  BY <1>1, Appended DEF DescribesACall, Stages
<1>2. CASE EmptyAnswer
  BY <1>2, Appended DEF EmptyAnswer, Stages
<1>3. ASSUME NEW text, Answers(text) PROVE trace' \in Seq(Entries)
  BY <1>3, Appended DEF Answers, Stages
<1>4. CASE UnknownTool
  BY <1>4, Appended DEF UnknownTool, Stages
<1>5. CASE UndecodableIntent
  BY <1>5, AppendedTwo DEF UndecodableIntent, Stages
<1>6. ASSUME NEW code, PolicyDenies(code) PROVE trace' \in Seq(Entries)
  BY <1>6, AppendedTwo DEF PolicyDenies, Stages
<1>7. CASE PolicyAllows
  BY <1>7, AppendedTwo DEF PolicyAllows, Stages
<1>8. CASE ExecutionFails
  BY <1>8, Appended DEF ExecutionFails, Stages
<1>9. ASSUME NEW size, ResultWithheld(size) PROVE trace' \in Seq(Entries)
  BY <1>9, Appended DEF ResultWithheld, Stages
<1>10. ASSUME NEW size, ResultCollected(size) PROVE trace' \in Seq(Entries)
  BY <1>10, Appended DEF ResultCollected, Stages
<1>11. CASE TurnLimit
  BY <1>11, Appended DEF TurnLimit, Stages
<1>12. CASE GatewayError \/ writeAudit \/ Exit \/ Deadline \/ Killed
  BY <1>12 DEF GatewayError, writeAudit, Exit, Deadline, Killed
<1>13. ASSUME NEW size, ResultTooLarge(size) PROVE trace' \in Seq(Entries)
  BY <1>13 DEF ResultTooLarge
<1>14. CASE UNCHANGED vars
  BY <1>14 DEF vars
<1>15. QED
  BY Steps, <1>1, <1>2, <1>3, <1>4, <1>5, <1>6, <1>7, <1>8, <1>9, <1>10,
     <1>11, <1>12, <1>13, <1>14

(* The last refusal of a trace exists when any entry refuses: counting back *)
(* from the end, its distance is the least.                                 *)
LEMMA LastRefusalType ==
  ASSUME trace \in Seq(Entries)
  PROVE  LastRefusal \in Stages \cup {"none"}
<1> DEFINE refused == {i \in DOMAIN trace : ~trace[i].allowed}
           Latest(i) == \A j \in refused : j <= i
<1>1. CASE refused = {}
  BY <1>1 DEF LastRefusal
<1>2. CASE refused # {}
  <2> DEFINE back == {Len(trace) - i : i \in refused}
  <2>1. back \in SUBSET Nat /\ back # {}
    BY <1>2
  <2>2. PICK b \in back : \A c \in back : b <= c
    <3> HIDE DEF back
    <3>1. QED
      BY <2>1, NatMin
  <2>3. PICK m \in refused : b = Len(trace) - m
    OBVIOUS
  <2>4. \A j \in refused : Len(trace) - j \in back /\ j \in Nat /\ m \in Nat
    OBVIOUS
  <2>5. ASSUME NEW j \in refused PROVE j <= m
    <3>1. b <= Len(trace) - j
      BY <2>2, <2>4
    <3>2. Len(trace) \in Nat /\ j \in Nat /\ m \in Nat
      BY <2>4
    <3> HIDE DEF refused, back
    <3>3. QED
      BY <2>3, <3>1, <3>2
  <2>6. (CHOOSE i \in refused : Latest(i)) \in refused
    BY <2>5
  <2>7. trace[CHOOSE i \in refused : Latest(i)] \in Entries
    BY <2>6
  <2>8. QED
    BY <1>2, <2>7 DEF LastRefusal, Entries
<1>3. QED
  BY <1>1, <1>2
-----------------------------------------------------------------------------
(* The audit event.                                                         *)

\* A connector is called only while a turn is left to use its result.
CallInTurn == pc = "executing" => turn < MaxToolCalls

(* writeAudit fills in an event of the same shape.                          *)
LEMMA FinalEventType ==
  ASSUME event \in Events, trace \in Seq(Entries)
  PROVE  FinalEvent \in Events
BY LastRefusalType DEF FinalEvent, Events

(* What each step makes of the audit event.                                 *)
LEMMA EventType ==
  ASSUME event \in Events, trace \in Seq(Entries), turn \in Nat, CallInTurn,
         [Next]_vars
  PROVE  event' \in Events
<1>1. CASE EmptyAnswer \/ TurnLimit
  BY <1>1 DEF EmptyAnswer, TurnLimit, Events
<1>2. ASSUME NEW text, Answers(text) PROVE event' \in Events
  BY <1>2 DEF Answers, Events
<1>3. CASE UndecodableIntent
  BY <1>3 DEF UndecodableIntent, Events
<1>4. ASSUME NEW code, PolicyDenies(code) PROVE event' \in Events
  BY <1>4 DEF PolicyDenies, DeniedEvent, Events
<1>5. CASE PolicyAllows
  <2>1. turn \in Turns
    BY <1>5, SizesAssumption DEF PolicyAllows, Completes, Turns
  <2>2. QED
    BY <1>5, <2>1 DEF PolicyAllows, Events
<1>6. ASSUME NEW size, ResultCollected(size) PROVE event' \in Events
  <2>1. turn \in Turns
    BY <1>6, SizesAssumption DEF ResultCollected, CallInTurn, Turns
  <2>2. QED
    BY <1>6, <2>1 DEF ResultCollected, Events
<1>7. CASE writeAudit
  BY <1>7, FinalEventType DEF writeAudit
<1>8. CASE GatewayError \/ DescribesACall \/ UnknownTool \/ ExecutionFails
  BY <1>8 DEF GatewayError, DescribesACall, UnknownTool, ExecutionFails
<1>9. ASSUME NEW size, ResultTooLarge(size) \/ ResultWithheld(size)
      PROVE  event' \in Events
  BY <1>9 DEF ResultTooLarge, ResultWithheld
<1>10. CASE Exit \/ Deadline \/ Killed \/ UNCHANGED vars
  BY <1>10 DEF Exit, Deadline, Killed, vars
<1>11. QED
  BY Steps, <1>1, <1>2, <1>3, <1>4, <1>5, <1>6, <1>7, <1>8, <1>9, <1>10

-----------------------------------------------------------------------------
(* The loop.                                                                *)

\* Where the loop is and what it has counted.
LoopOK ==
  /\ pc \in {"complete", "executing", "returning", "returned", "exited",
             "killed"}
  /\ turn \in 0 .. MaxToolCalls
  /\ used \in Nat
  /\ CallInTurn

(* Going round stays within the budget of turns.                            *)
LEMMA ContinueLoop ==
  ASSUME LoopOK, turn < MaxToolCalls, NEW tokens \in Nat, Continue(tokens)
  PROVE  LoopOK'
BY SizesAssumption DEF Continue, LoopOK, CallInTurn

(* Whatever is added to the history has a size.                             *)
LEMMA SizesNat ==
  /\ \A reply \in ReplySizes, note \in NoteSizes : reply + note \in Nat
  /\ \A reply \in ReplySizes : reply \in Nat
  /\ \A note \in NoteSizes : note \in Nat
  /\ \A size \in EvidenceSizes : size \in Nat /\ size + WrapperTokens \in Nat
BY SizesAssumption

(* The turn counter and the history size stay in their ranges.              *)
LEMMA LoopType ==
  ASSUME LoopOK, [Next]_vars
  PROVE  LoopOK'
<1>1. CASE DescribesACall
  BY <1>1, ContinueLoop, SizesNat, SizesAssumption DEF DescribesACall, LoopOK
<1>2. CASE UndecodableIntent
  BY <1>2, ContinueLoop, SizesNat DEF UndecodableIntent, Completes
<1>3. ASSUME NEW code, PolicyDenies(code) PROVE LoopOK'
  BY <1>3, ContinueLoop, SizesNat
     DEF PolicyDenies, Completes, Return, LoopOK, CallInTurn
<1>4. CASE PolicyAllows
  BY <1>4, SizesNat DEF PolicyAllows, Completes, LoopOK, CallInTurn
<1>5. CASE ExecutionFails
  BY <1>5, ContinueLoop, SizesNat DEF ExecutionFails, LoopOK, CallInTurn
<1>6. ASSUME NEW size \in EvidenceSizes,
             \/ ResultTooLarge(size) \/ ResultWithheld(size)
             \/ ResultCollected(size)
      PROVE  LoopOK'
  BY <1>6, ContinueLoop, SizesNat
     DEF ResultTooLarge, ResultWithheld, ResultCollected, LoopOK, CallInTurn
<1>7. CASE GatewayError \/ EmptyAnswer \/ UnknownTool \/ TurnLimit
  BY <1>7 DEF GatewayError, EmptyAnswer, UnknownTool, TurnLimit, Return, LoopOK,
              CallInTurn
<1>8. ASSUME NEW text, Answers(text) PROVE LoopOK'
  BY <1>8 DEF Answers, Return, LoopOK, CallInTurn
<1>9. CASE writeAudit \/ Exit \/ Deadline \/ Killed \/ UNCHANGED vars
  BY <1>9 DEF writeAudit, Exit, Deadline, Killed, vars, LoopOK, CallInTurn
<1>10. QED
  BY Steps, <1>1, <1>2, <1>3, <1>4, <1>5, <1>6, <1>7, <1>8, <1>9
-----------------------------------------------------------------------------
(* The remaining variables.                                                 *)

\* What Ask keeps besides the loop, the trace and the event.
RestOK ==
  /\ forceTool \in BOOLEAN
  /\ budgetReached \in BOOLEAN
  /\ answer \in Answered
  /\ outcome \in Outcomes
  /\ refusal \in RouteErrorCodes \cup {"none"}
  /\ executed \subseteq Turns
  /\ shown \subseteq Turns
  /\ expired \in BOOLEAN
  /\ record \in Records
  /\ printed \in BOOLEAN

(* The limitation appended to an answer leaves an answer.                   *)
LEMMA DisclosedType ==
  ASSUME NEW text \in Answered, NEW withheld \in BOOLEAN
  PROVE  discloseWithheldEvidence(text, withheld) \in Answered
BY DEF discloseWithheldEvidence, Answered

(* They keep their types.                                                   *)
LEMMA RestType ==
  ASSUME RestOK, LoopOK, [Next]_vars
  PROVE  RestOK'
<1> USE DEF RestOK, Outcomes, Records, audit
<1>1. CASE DescribesACall
  BY <1>1 DEF DescribesACall, Continue
<1>2. CASE UndecodableIntent
  BY <1>2 DEF UndecodableIntent, Completes, Continue
<1>3. ASSUME NEW code \in RouteErrorCodes, PolicyDenies(code) PROVE RestOK'
  BY <1>3 DEF PolicyDenies, Completes, Continue, Return
<1>4. CASE PolicyAllows
  <2>1. turn \in Turns
    BY <1>4, SizesAssumption DEF PolicyAllows, Completes, LoopOK, Turns
  <2>2. QED
    BY <1>4, <2>1 DEF PolicyAllows, Completes
<1>5. CASE ExecutionFails
  BY <1>5 DEF ExecutionFails, Continue
<1>6. ASSUME NEW size, ResultTooLarge(size) \/ ResultWithheld(size)
      PROVE  RestOK'
  BY <1>6 DEF ResultTooLarge, ResultWithheld, Continue
<1>7. ASSUME NEW size, ResultCollected(size) PROVE RestOK'
  <2>1. turn \in Turns
    BY <1>7, SizesAssumption DEF ResultCollected, LoopOK, CallInTurn, Turns
  <2>2. QED
    BY <1>7, <2>1 DEF ResultCollected, Continue
<1>8. CASE GatewayError \/ EmptyAnswer \/ UnknownTool \/ TurnLimit
  BY <1>8 DEF GatewayError, EmptyAnswer, UnknownTool, TurnLimit, Completes,
              Return
<1>9. ASSUME NEW text \in Answered, Answers(text) PROVE RestOK'
  BY <1>9, DisclosedType DEF Answers, Completes, Return
<1>10. CASE writeAudit \/ Exit \/ Deadline \/ Killed \/ UNCHANGED vars
  BY <1>10 DEF writeAudit, Exit, Deadline, Killed, vars
<1>11. \A kind \in {"described", "prose"}, mentions, partial \in BOOLEAN :
         Answer(kind, mentions, partial) \in Answered
  BY DEF Answer, Answered
<1>12. QED
  BY Steps, <1>1, <1>2, <1>3, <1>4, <1>5, <1>6, <1>7, <1>8, <1>9, <1>10, <1>11

-----------------------------------------------------------------------------
(* The whole.                                                               *)

\* The parts together, with what makes them inductive.
TypeInv == TypeOK /\ CallInTurn

(* The invariant by its groups.                                             *)
LEMMA TypeParts ==
  TypeInv <=> LoopOK /\ RestOK /\ trace \in Seq(Entries) /\ event \in Events
BY DEF TypeInv, TypeOK, LoopOK, RestOK

(* The same in the next state.                                              *)
LEMMA TypePartsPrimed ==
  TypeInv' <=> LoopOK' /\ RestOK' /\ trace' \in Seq(Entries)
                 /\ event' \in Events
BY DEF TypeInv, TypeOK, LoopOK, RestOK

(* It holds initially.                                                      *)
LEMMA TypeInit == Init => TypeInv
<1> SUFFICES ASSUME Init PROVE TypeInv
  OBVIOUS
<1>1. LoopOK
  BY SizesAssumption DEF Init, LoopOK, CallInTurn
<1>2. RestOK
  BY DEF Init, RestOK, Outcomes, Records, Answered
<1>3. trace \in Seq(Entries)
  BY DEF Init
<1>4. event \in Events
  BY DEF Init, Events
<1>5. QED
  BY <1>1, <1>2, <1>3, <1>4, TypeParts

(* Every step preserves it.                                                 *)
LEMMA TypeStep == TypeInv /\ [Next]_vars => TypeInv'
<1> SUFFICES ASSUME TypeInv, [Next]_vars PROVE TypeInv'
  OBVIOUS
<1>1. LoopOK /\ RestOK /\ trace \in Seq(Entries) /\ event \in Events
  BY TypeParts
<1>2. turn \in Nat /\ CallInTurn
  BY <1>1, SizesAssumption DEF LoopOK
<1>3. QED
  BY <1>1, <1>2, LoopType, RestType, TraceType, EventType, TypePartsPrimed

(* It holds in every state.                                                 *)
LEMMA TypeAlways == Spec => []TypeInv
BY TypeInit, TypeStep, PTL DEF Spec

(* Every variable of the loop stays in its range and the turn counter never *)
(* passes the budget, for every budget and every size of message            *)
(* (session.go:355, 488).                                                   *)
THEOREM TypeCorrect == Spec => []TypeOK
<1>1. TypeInv => TypeOK
  BY DEF TypeInv
<1>2. QED
  BY <1>1, TypeAlways, PTL

=============================================================================
