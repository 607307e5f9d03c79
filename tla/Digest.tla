------------------------------- MODULE Digest -------------------------------
(***************************************************************************)
(* bin/zoom-digest.sh and bin/zoom-watchdog.sh.  Each day at DigestAt cron *)
(* starts a run that asks its questions and posts each answer as a section *)
(* into the channel, then writes the receipt; each day at CheckAt cron     *)
(* starts the watchdog, which reads the receipt and alarms or is silent.   *)
(* Anyone may start a run by hand.                                         *)
(*                                                                         *)
(* Cron may start nothing, a run may be killed at any point, and anyone    *)
(* may remove or spoil the receipt.  Runs do not overlap, and none lasts   *)
(* into a further hour than RunHours.                                      *)
(***************************************************************************)
EXTENDS Integers, Zoom

CONSTANTS
  Day, DigestAt, CheckAt, MaxAge, RunHours, \* hours; MaxAge is MAX_AGE_HOURS
  SectionCount,
  Answers  \* texts sroiaaa-chat may print, its errors included

ASSUME HoursAssumption ==
  /\ Day \in Nat /\ DigestAt \in Nat /\ CheckAt \in Nat
  /\ MaxAge \in Nat /\ RunHours \in Nat /\ SectionCount \in Nat
  /\ DigestAt + RunHours < CheckAt /\ CheckAt < Day

\* The coupling zoom-watchdog.sh asks for: at the check, the receipt of this
\* morning is not too old and the one of the day before is, by any minute.
ASSUME CouplingAssumption ==
  /\ CheckAt - DigestAt < MaxAge
  /\ Day + CheckAt - (DigestAt + RunHours) - 1 >= MaxAge

\* A character of a text is a byte.
ASSUME AnswersAssumption == Answers \subseteq Seq(Seq(Nat))

VARIABLES
  hour,     \* of the day
  run,      \* the run of the digest in progress
  parts,    \* messages of the section being posted
  channel,  \* messages of the section last posted, as they arrived
  receipt,
  silence,  \* hours since a message of a digest arrived
  today,    \* what became of the run cron owes this day
  verdict   \* of the watchdog this day

vars == <<hour, run, parts, channel, receipt, silence, today, verdict>>

Sections == 1..SectionCount

\* Hours are counted up to Long.
Long == MaxAge + RunHours + 2
Older(h) == IF h < Long THEN h + 1 ELSE h

Title(section) == <<section>>

NoRun == [pc |-> "idle", byHand |-> FALSE, dry |-> FALSE, only |-> {}, section |-> 1,
          posted |-> 0, age |-> 0]

\* byHand says which run wrote it; the file does not.
NoReceipt == [state |-> "none", age |-> 0, posted |-> 0, byHand |-> FALSE]

Init ==
  /\ hour = 0 /\ run = NoRun /\ parts = <<>> /\ channel = <<>>
  /\ receipt = NoReceipt /\ silence = Long /\ today = "due" /\ verdict = "unchecked"

-----------------------------------------------------------------------------
(* zoom-digest.sh                                                           *)

Ends == run' = NoRun /\ parts' = <<>> /\ channel' = <<>>

Begin(byHand, dry, only) ==
  /\ run.pc = "idle"
  /\ run' = [NoRun EXCEPT !.pc = "ask", !.byHand = byHand, !.dry = dry, !.only = only]
  /\ UNCHANGED <<hour, parts, channel, receipt, silence, verdict>>

\* A run that finds a variable missing or cannot build writes nothing, and is
\* one cron did not start.
CronRuns ==
  /\ hour = DigestAt /\ today = "due"
  /\ Begin(FALSE, FALSE, Sections)
  /\ today' = "begun"

\* ONLY is a substring of titles: it selects any of them, or none.
RunByHand ==
  /\ \E dry \in BOOLEAN, only \in SUBSET Sections : Begin(TRUE, dry, only)
  /\ UNCHANGED today

\* The run goes on with the next section, then with the receipt.  UNSENT, which
\* nothing reads, is left out.
Onward(r) ==
  [r EXCEPT !.pc = IF r.section < SectionCount THEN "ask" ELSE "receipt",
            !.section = IF r.section < SectionCount THEN @ + 1 ELSE @]

Posted(r) == Onward([r EXCEPT !.posted = @ + 1])

SkipSection ==
  /\ run.pc = "ask" /\ run.section \notin run.only
  /\ run' = Onward(run)
  /\ UNCHANGED <<hour, parts, channel, receipt, silence, today, verdict>>

\* digest(), to where sroiaaa-notify has split the text.  An answer of nothing
\* makes it fail; a dry run prints the section and counts nothing.
AskSection ==
  /\ run.pc = "ask" /\ run.section \in run.only
  /\ \E answer \in Answers :
       LET text == Message(Title(run.section), answer)
       IN  IF run.dry \/ text = <<>>
           THEN run' = Onward(run) /\ parts' = <<>>
           ELSE /\ run' = [run EXCEPT !.pc = "post"]
                /\ parts' = split(text)
  /\ channel' = <<>>
  /\ UNCHANGED <<hour, receipt, silence, today, verdict>>

Arrives ==
  /\ channel' = Append(channel, Head(parts))
  /\ silence' = 0

\* Post, one message.
PartPosted ==
  /\ run.pc = "post" /\ parts # <<>>
  /\ Arrives
  /\ parts' = Tail(parts)
  /\ run' = IF Len(parts) = 1 THEN Posted(run) ELSE run
  /\ UNCHANGED <<hour, receipt, today, verdict>>

\* Mutant: the parts after one that failed are sent.
PartFailsAlone ==
  /\ run.pc = "post" /\ parts # <<>>
  /\ Arrives \/ UNCHANGED <<channel, silence>>
  /\ parts' = Tail(parts)
  /\ run' = IF Len(parts) = 1 THEN Posted(run) ELSE run
  /\ UNCHANGED <<hour, receipt, today, verdict>>

\* The first failure stops the rest.  The message may have arrived all the
\* same, its reply lost.
PartFails ==
  /\ run.pc = "post" /\ parts # <<>>
  /\ Arrives \/ UNCHANGED <<channel, silence>>
  /\ parts' = <<>>
  /\ run' = Onward(run)
  /\ UNCHANGED <<hour, receipt, today, verdict>>

\* Mutant: a dry run leaves a receipt as well.
DryRunWrites ==
  /\ run.pc = "receipt"
  /\ receipt' = [state |-> "good", age |-> 0, byHand |-> run.byHand,
                 posted |-> IF run.dry THEN Cardinality(run.only) ELSE run.posted]
  /\ today' = IF run.byHand THEN today ELSE IF run.posted > 0 THEN "posted" ELSE today
  /\ Ends
  /\ UNCHANGED <<hour, silence, verdict>>

\* The end of the script: the receipt is moved into place whole.
WriteReceipt ==
  /\ run.pc = "receipt"
  /\ receipt' = IF run.dry THEN receipt
                ELSE [state |-> "good", age |-> 0, posted |-> run.posted, byHand |-> run.byHand]
  /\ today' = IF ~run.byHand /\ run.posted > 0 THEN "posted" ELSE today
  /\ Ends
  /\ UNCHANGED <<hour, silence, verdict>>

\* External.
Killed ==
  /\ run.pc # "idle"
  /\ Ends
  /\ UNCHANGED <<hour, receipt, silence, today, verdict>>

-----------------------------------------------------------------------------
(* zoom-watchdog.sh                                                         *)

\* Mutant: a receipt is good however little was posted.
TooOld(h) == receipt.state # "good" \/ h >= MaxAge

\* Mutant: the limit itself is not too old.
AlarmLate(h) == receipt.state # "good" \/ h > MaxAge \/ receipt.posted = 0

\* h is the age of the receipt in full hours.
Alarm(h) == receipt.state # "good" \/ h >= MaxAge \/ receipt.posted = 0

\* The minutes decide whether as many full hours have passed as clock hours
\* began.
FullHours == {h \in 0..receipt.age : receipt.age <= h + 1}

Check ==
  /\ hour = CheckAt /\ verdict = "unchecked"
  /\ \E h \in FullHours : verdict' = IF Alarm(h) THEN "alarm" ELSE "silent"
  /\ UNCHANGED <<hour, run, parts, channel, receipt, silence, today>>

\* External: the receipt is removed, or left without its time.
ReceiptLost ==
  /\ \E state \in {"none", "spoiled"} : receipt' = [NoReceipt EXCEPT !.state = state]
  /\ UNCHANGED <<hour, run, parts, channel, silence, today, verdict>>

Tick ==
  /\ run.pc = "idle" \/ run.age < RunHours
  /\ hour' = IF hour + 1 < Day THEN hour + 1 ELSE 0
  /\ run' = IF run.pc = "idle" THEN run ELSE [run EXCEPT !.age = @ + 1]
  /\ receipt' = IF receipt.state = "good" THEN [receipt EXCEPT !.age = Older(@)] ELSE receipt
  /\ silence' = Older(silence)
  /\ IF hour' = 0 THEN today' = "due" /\ verdict' = "unchecked"
     ELSE UNCHANGED <<today, verdict>>
  /\ UNCHANGED <<parts, channel>>

RunStep == SkipSection \/ AskSection \/ PartPosted \/ PartFails \/ WriteReceipt

Next ==
  \/ CronRuns \/ RunByHand \/ RunStep \/ Killed
  \/ Check \/ ReceiptLost \/ Tick

Spec == Init /\ [][Next]_vars

\* A run is bounded by the timeouts of its commands.  The watchdog may miss
\* days, but cron starts it again and again.
FairSpec == Spec /\ WF_vars(RunStep) /\ WF_vars(Tick) /\ SF_vars(Check)
=============================================================================
