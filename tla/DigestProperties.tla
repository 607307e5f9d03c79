-------------------------- MODULE DigestProperties --------------------------
(***************************************************************************)
(* What the channel, the receipt and the watchdog say of one another.      *)
(***************************************************************************)
EXTENDS Digest

RunStates ==
  [pc : {"idle", "ask", "post", "receipt"}, byHand : BOOLEAN, dry : BOOLEAN,
   only : SUBSET Sections, section : Nat \ {0}, posted : Nat,
   age : 0..RunHours]

ReceiptStates ==
  [state : {"none", "spoiled", "good"}, age : 0..Long, posted : Nat, byHand : BOOLEAN]

\* The receipt and the run have the fields the scripts give them, and hours
\* stay within their bounds.
TypeOK ==
  /\ hour \in 0..(Day - 1)
  /\ run \in RunStates
  /\ receipt \in ReceiptStates
  /\ silence \in 0..Long
  /\ today \in {"due", "begun", "posted"}
  /\ verdict \in {"unchecked", "silent", "alarm"}

\* When the watchdog of zoom-watchdog.sh says nothing, a section of a digest
\* has reached the channel within the limit and the length of a run: no
\* killed, dry, failed or empty run passes for a digest.
SilenceIsNoticed ==
  [][verdict' = "silent" /\ verdict # "silent" => silence <= MaxAge + RunHours]_vars

\* While the receipt is there, whole and of a run of cron's, the watchdog alarms
\* exactly on the days when the run of that morning did not end with a section
\* posted: a failure is noticed the same day, and jitter does not alarm.  A run
\* killed between its posts and its receipt did not end so, and is alarmed about
\* although the channel has the digest; a receipt that was lost or spoiled is
\* alarmed about on a good day too.
AlarmTellsAboutToday ==
  [][Check /\ receipt.state = "good" /\ ~receipt.byHand =>
       (verdict' = "alarm" <=> today # "posted")]_vars

Letters(lines) == FlattenSeq(lines)

\* A section the run counts as posted has arrived whole, nothing lost where
\* its text was split and no message missing, repeated or out of order.
PostedIsInTheChannel ==
  [][run'.posted > run.posted =>
       /\ run'.posted = run.posted + 1
       /\ \E answer \in Answers :
            LET text == Message(Title(run.section), answer)
            IN  text # <<>> /\ Letters(FlattenSeq(channel')) = Letters(text)]_vars

\* If the digest goes on failing to reach the channel, however it fails, the
\* watchdog alarms.
SilenceIsHeard == []<>(verdict = "alarm" \/ silence <= MaxAge + RunHours)
=============================================================================
