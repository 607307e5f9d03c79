---------------------------- MODULE DigestProofs ----------------------------
(***************************************************************************)
(* Proofs about Digest, for any hours that satisfy the coupling and any    *)
(* answers.  The inductive invariant bounds the silence by the age of the  *)
(* run or of the receipt, and the age of a receipt cron's run wrote by the *)
(* hour and by what became of the run of today.  That a posted section is  *)
(* whole rests on what split does with any text: an induction over its     *)
(* lines, made by looking at a least number of lines for which it fails.   *)
(***************************************************************************)
EXTENDS DigestProperties, FiniteSetTheorems, SequenceTheorems, NaturalsInduction,
        WellFoundedInduction, TLAPS

\* A posted section has broken the silence since the run began; a receipt that
\* counts one is of a run that did.
SilenceIsBounded ==
  /\ run.posted > 0 => run.pc # "idle" /\ silence <= run.age
  /\ receipt.state = "good" /\ receipt.posted > 0 => silence <= receipt.age + RunHours

\* The run cron started today.
CronIsInTime ==
  /\ run.byHand = FALSE => run.dry = FALSE
  /\ run.pc # "idle" /\ run.byHand = FALSE =>
       today = "begun" /\ hour = DigestAt + run.age
  /\ today # "due" => DigestAt <= hour

CronWrote == receipt.state = "good" /\ receipt.byHand = FALSE

\* The receipt of a run of cron is from today or from a day before.
ReceiptIsDated ==
  CronWrote =>
    /\ today = "posted" =>
         /\ receipt.posted > 0
         /\ receipt.age <= hour - DigestAt
         /\ receipt.age > MaxAge \/ receipt.age >= hour - DigestAt - RunHours
    /\ today # "posted" /\ receipt.posted > 0 =>
         receipt.age > MaxAge \/ receipt.age >= hour + Day - DigestAt - RunHours

IInv == TypeOK /\ SilenceIsBounded /\ CronIsInTime /\ ReceiptIsDated

\* What a step of a run keeps of it.
GoesOn(r, q) ==
  /\ q \in RunStates /\ q.pc # "idle"
  /\ q.byHand = r.byHand /\ q.dry = r.dry /\ q.age = r.age

-----------------------------------------------------------------------------
(* Runs                                                                     *)

LEMMA OnwardGoesOn ==
  ASSUME NEW r \in RunStates
  PROVE  GoesOn(r, Onward(r)) /\ Onward(r).posted = r.posted
<1>1. r = [pc |-> r.pc, byHand |-> r.byHand, dry |-> r.dry, only |-> r.only,
           section |-> r.section, posted |-> r.posted, age |-> r.age]
  BY DEF RunStates
<1>2. PICK pc \in {"ask", "receipt"}, section \in Nat \ {0} :
        Onward(r) = [pc |-> pc, byHand |-> r.byHand, dry |-> r.dry, only |-> r.only,
                     section |-> section, posted |-> r.posted, age |-> r.age]
  <2>1. CASE r.section < SectionCount
    <3>1. r.section + 1 \in Nat \ {0}
      BY DEF RunStates
    <3>2. Onward(r) = [r EXCEPT !.pc = "ask", !.section = r.section + 1]
      BY <2>1 DEF Onward
    <3> QED BY <1>1, <3>1, <3>2
  <2>2. CASE ~(r.section < SectionCount)
    <3>1. r.section \in Nat \ {0}
      BY DEF RunStates
    <3>2. Onward(r) = [r EXCEPT !.pc = "receipt", !.section = r.section]
      BY <2>2 DEF Onward
    <3> QED BY <1>1, <3>1, <3>2
  <2> QED BY <2>1, <2>2
<1>3. Onward(r) \in RunStates
  BY <1>2 DEF RunStates
<1> QED BY <1>2, <1>3 DEF GoesOn

LEMMA PostedGoesOn ==
  ASSUME NEW r \in RunStates
  PROVE  GoesOn(r, Posted(r))
<1> DEFINE q == [r EXCEPT !.posted = @ + 1]
<1>1. q \in RunStates /\ q.byHand = r.byHand /\ q.dry = r.dry /\ q.age = r.age
  BY DEF RunStates
<1> HIDE DEF q
<1>2. GoesOn(q, Onward(q))
  BY <1>1, OnwardGoesOn
<1> QED BY <1>1, <1>2 DEF GoesOn, Posted, q

LEMMA NoRunIsARun ==
  /\ NoRun \in RunStates /\ NoRun.pc = "idle" /\ NoRun.posted = 0
  /\ NoRun.byHand = FALSE /\ NoRun.dry = FALSE
  BY HoursAssumption DEF NoRun, RunStates

\* Steps of a run that leave the receipt, the hour and the day alone.
LEMMA RunGoesOn ==
  ASSUME IInv, GoesOn(run, run'), run.pc # "idle",
         UNCHANGED <<hour, receipt, today, verdict>>,
         \/ silence' = silence /\ run'.posted = run.posted
         \/ silence' = 0
  PROVE  IInv'
<1>1. TypeOK'
  BY HoursAssumption DEF IInv, TypeOK, GoesOn, Long
<1>2. SilenceIsBounded'
  BY HoursAssumption DEF IInv, TypeOK, SilenceIsBounded, GoesOn, RunStates, ReceiptStates
<1>3. CronIsInTime'
  BY DEF IInv, CronIsInTime, GoesOn
<1>4. ReceiptIsDated'
  BY DEF IInv, ReceiptIsDated, CronWrote
<1> QED BY <1>1, <1>2, <1>3, <1>4 DEF IInv

LEMMA RunStepGoesOn ==
  ASSUME IInv, SkipSection \/ AskSection \/ PartPosted \/ PartFails
  PROVE  IInv'
<1> USE OnwardGoesOn, PostedGoesOn
<1>1. run \in RunStates
  BY DEF IInv, TypeOK
<1>2. CASE SkipSection
  BY <1>1, <1>2, RunGoesOn DEF SkipSection
<1>3. CASE AskSection
  <2>1. PICK answer \in Answers :
          LET text == Message(Title(run.section), answer)
          IN  IF run.dry \/ text = <<>>
              THEN run' = Onward(run) /\ parts' = <<>>
              ELSE run' = [run EXCEPT !.pc = "post"] /\ parts' = split(text)
    BY <1>3 DEF AskSection
  <2>2. run' = Onward(run) \/ run' = [run EXCEPT !.pc = "post"]
    BY <2>1
  <2>3. ASSUME run' = [run EXCEPT !.pc = "post"]
        PROVE  GoesOn(run, run') /\ run'.posted = run.posted
    BY <1>1, <2>3 DEF GoesOn, RunStates
  <2> QED BY <1>1, <1>3, <2>2, <2>3, RunGoesOn DEF AskSection
<1>4. CASE PartPosted
  <2>1. GoesOn(run, run')
    BY <1>1, <1>4 DEF PartPosted, GoesOn
  <2> QED BY <1>4, <2>1, RunGoesOn DEF PartPosted, Arrives
<1>5. CASE PartFails
  BY <1>1, <1>5, RunGoesOn DEF PartFails, Arrives
<1> QED BY <1>2, <1>3, <1>4, <1>5

LEMMA CronRunsKeeps ==
  ASSUME IInv, CronRuns
  PROVE  IInv'
<1>1. /\ run' \in RunStates
      /\ run'.byHand = FALSE /\ run'.dry = FALSE /\ run'.posted = 0 /\ run'.age = 0
  BY HoursAssumption, NoRunIsARun DEF CronRuns, Begin, NoRun, RunStates
<1>2. TypeOK'
  BY <1>1 DEF IInv, TypeOK, CronRuns, Begin
<1>3. SilenceIsBounded'
  BY <1>1 DEF IInv, SilenceIsBounded, CronRuns, Begin
<1>4. CronIsInTime'
  BY <1>1, HoursAssumption DEF CronIsInTime, CronRuns, Begin
<1>5. ReceiptIsDated'
  BY DEF IInv, ReceiptIsDated, CronWrote, CronRuns, Begin
<1> QED BY <1>2, <1>3, <1>4, <1>5 DEF IInv

LEMMA RunByHandKeeps ==
  ASSUME IInv, RunByHand
  PROVE  IInv'
<1>1. PICK dry \in BOOLEAN, only \in SUBSET Sections : Begin(TRUE, dry, only)
  BY DEF RunByHand
<1>2. run' \in RunStates
  BY <1>1, HoursAssumption, NoRunIsARun DEF Begin, NoRun, RunStates
<1>3. run'.byHand = TRUE /\ run'.posted = 0
  BY <1>1, NoRunIsARun DEF Begin, NoRun
<1>4. TypeOK'
  BY <1>1, <1>2 DEF IInv, TypeOK, RunByHand, Begin
<1>5. SilenceIsBounded'
  BY <1>1, <1>3 DEF IInv, SilenceIsBounded, Begin
<1>6. CronIsInTime'
  BY <1>1, <1>3 DEF IInv, CronIsInTime, RunByHand, Begin
<1>7. ReceiptIsDated'
  BY <1>1 DEF IInv, ReceiptIsDated, CronWrote, RunByHand, Begin
<1> QED BY <1>4, <1>5, <1>6, <1>7 DEF IInv

LEMMA KilledKeeps ==
  ASSUME IInv, Killed
  PROVE  IInv'
<1>1. TypeOK'
  BY NoRunIsARun DEF IInv, TypeOK, Killed, Ends
<1>2. SilenceIsBounded'
  BY NoRunIsARun DEF IInv, SilenceIsBounded, Killed, Ends
<1>3. CronIsInTime'
  BY NoRunIsARun DEF IInv, CronIsInTime, Killed, Ends
<1>4. ReceiptIsDated'
  BY DEF IInv, ReceiptIsDated, CronWrote, Killed
<1> QED BY <1>1, <1>2, <1>3, <1>4 DEF IInv

-----------------------------------------------------------------------------
(* The receipt, the watchdog and time                                       *)

LEMMA WriteReceiptKeeps ==
  ASSUME IInv, WriteReceipt
  PROVE  IInv'
<1>1. run' = NoRun /\ silence' = silence /\ hour' = hour /\ verdict' = verdict
  BY DEF WriteReceipt, Ends
<1>2. \/ run.dry = TRUE /\ receipt' = receipt
      \/ /\ run.dry = FALSE
         /\ receipt' = [state |-> "good", age |-> 0, posted |-> run.posted, byHand |-> run.byHand]
  BY DEF WriteReceipt, IInv, TypeOK, RunStates
<1>3. \/ run.byHand = FALSE /\ run.posted > 0 /\ today' = "posted"
      \/ ~(run.byHand = FALSE /\ run.posted > 0) /\ today' = today
  BY DEF WriteReceipt, IInv, TypeOK, RunStates
<1>4. TypeOK'
  <2>1. receipt' \in ReceiptStates
    BY <1>2, HoursAssumption DEF IInv, TypeOK, RunStates, ReceiptStates, Long
  <2> QED BY <1>1, <1>3, <2>1, NoRunIsARun DEF IInv, TypeOK
<1>5. SilenceIsBounded'
  BY <1>1, <1>2, NoRunIsARun, HoursAssumption
  DEF IInv, TypeOK, RunStates, SilenceIsBounded
<1>6. run.byHand = FALSE => today = "begun" /\ hour = DigestAt + run.age
  BY DEF IInv, CronIsInTime, WriteReceipt
<1>7. CronIsInTime'
  BY <1>1, <1>3, <1>6, NoRunIsARun, HoursAssumption
  DEF IInv, TypeOK, RunStates, CronIsInTime
<1>8. ReceiptIsDated'
  <2>1. CASE run.dry = TRUE
    BY <1>1, <1>2, <1>3, <2>1 DEF IInv, CronIsInTime, ReceiptIsDated, CronWrote
  <2>2. CASE run.dry = FALSE
    BY <1>1, <1>2, <1>3, <1>6, <2>2, HoursAssumption
    DEF IInv, TypeOK, RunStates, ReceiptIsDated, CronWrote
  <2> QED BY <2>1, <2>2 DEF IInv, TypeOK, RunStates
<1> QED BY <1>4, <1>5, <1>7, <1>8 DEF IInv

LEMMA CheckKeeps ==
  ASSUME IInv, Check
  PROVE  IInv'
<1>1. verdict' \in {"unchecked", "silent", "alarm"}
  BY DEF Check
<1>2. UNCHANGED <<hour, run, receipt, silence, today>>
  BY DEF Check
<1> QED BY <1>1, <1>2
        DEF IInv, TypeOK, SilenceIsBounded, CronIsInTime, ReceiptIsDated, CronWrote

LEMMA ReceiptLostKeeps ==
  ASSUME IInv, ReceiptLost
  PROVE  IInv'
<1>1. receipt' \in ReceiptStates /\ receipt'.state # "good"
  <2>1. PICK state \in {"none", "spoiled"} :
          receipt' = [state |-> state, age |-> 0, posted |-> 0, byHand |-> FALSE]
    BY DEF ReceiptLost, NoReceipt
  <2> QED BY <2>1, HoursAssumption DEF ReceiptStates, Long
<1>2. UNCHANGED <<hour, run, silence, today, verdict>>
  BY DEF ReceiptLost
<1> QED BY <1>1, <1>2
        DEF IInv, TypeOK, SilenceIsBounded, CronIsInTime, ReceiptIsDated, CronWrote

LEMMA OlderIsOlder ==
  ASSUME NEW h \in 0..Long
  PROVE  /\ Older(h) \in 0..Long
         /\ Older(h) = h + 1 \/ (Older(h) = h /\ h = Long)
  BY HoursAssumption DEF Older, Long

LEMMA TickKeeps ==
  ASSUME IInv, Tick
  PROVE  IInv'
<1>1. \/ run' = run /\ run.pc = "idle"
      \/ /\ run.pc # "idle" /\ run.age + 1 <= RunHours
         /\ run' \in RunStates /\ run'.pc # "idle"
         /\ run'.age = run.age + 1 /\ run'.posted = run.posted
         /\ run'.byHand = run.byHand /\ run'.dry = run.dry
  BY HoursAssumption DEF Tick, IInv, TypeOK, RunStates
<1>2. /\ receipt' \in ReceiptStates
      /\ receipt'.state = receipt.state /\ receipt'.posted = receipt.posted
      /\ receipt'.byHand = receipt.byHand
      /\ receipt.state = "good" => receipt'.age = Older(receipt.age)
  BY OlderIsOlder DEF Tick, IInv, TypeOK, ReceiptStates
<1>3. silence' = Older(silence)
  BY DEF Tick
<1>4. \/ hour' = 0 /\ hour = Day - 1 /\ today' = "due" /\ verdict' = "unchecked"
      \/ hour' = hour + 1 /\ hour' < Day /\ today' = today /\ verdict' = verdict
  <2>1. hour \in 0..(Day - 1)
    BY DEF IInv, TypeOK
  <2>2. CASE hour + 1 < Day
    BY <2>1, <2>2, HoursAssumption DEF Tick
  <2>3. CASE ~(hour + 1 < Day)
    BY <2>1, <2>3, HoursAssumption DEF Tick
  <2> QED BY <2>2, <2>3
<1>5. TypeOK'
  BY <1>1, <1>2, <1>3, <1>4, OlderIsOlder, HoursAssumption DEF IInv, TypeOK
<1>6. SilenceIsBounded'
  <2>1. /\ silence \in 0..Long /\ silence' \in 0..Long /\ receipt.age \in 0..Long
        /\ silence' = silence + 1 \/ (silence' = silence /\ silence = Long)
    BY <1>3, OlderIsOlder DEF IInv, TypeOK, ReceiptStates
  <2>2. run'.posted > 0 => run'.pc # "idle" /\ silence' <= run'.age
    BY <1>1, <2>1, HoursAssumption DEF IInv, TypeOK, RunStates, SilenceIsBounded, Long
  <2>3. receipt.state = "good" =>
          receipt'.age = receipt.age + 1 \/ (receipt'.age = receipt.age /\ receipt.age = Long)
    BY <1>2, <2>1, OlderIsOlder
  <2>4. receipt'.state = "good" /\ receipt'.posted > 0 => silence' <= receipt'.age + RunHours
    BY <1>2, <2>1, <2>3, HoursAssumption DEF IInv, SilenceIsBounded, Long
  <2> QED BY <2>2, <2>4 DEF SilenceIsBounded
<1>7. CronIsInTime'
  BY <1>1, <1>4, HoursAssumption DEF IInv, TypeOK, CronIsInTime, RunStates
<1>8. ReceiptIsDated'
  <2>1. /\ hour \in 0..(Day - 1) /\ receipt.age \in 0..Long
        /\ receipt.posted \in Nat /\ today # "due" => DigestAt <= hour
    BY DEF IInv, TypeOK, ReceiptStates, CronIsInTime
  <2>2. receipt.state = "good" =>
          receipt'.age = receipt.age + 1 \/ (receipt'.age = receipt.age /\ receipt.age = Long)
    BY <1>2, <2>1, OlderIsOlder
  <2>3. CASE hour' = 0
    <3>1. hour = Day - 1 /\ today' = "due"
      BY <1>4, <2>1, <2>3
    <3>2. ASSUME CronWrote', receipt'.posted > 0
          PROVE  receipt'.age > MaxAge \/ receipt'.age >= hour' + Day - DigestAt - RunHours
      <4>1. CronWrote /\ receipt.posted > 0
        BY <1>2, <3>2 DEF CronWrote
      <4>2. receipt.age > MaxAge \/ receipt.age >= hour - DigestAt - RunHours
        BY <2>1, <4>1, HoursAssumption DEF IInv, ReceiptIsDated
      <4> QED BY <2>1, <2>2, <2>3, <3>1, <4>1, <4>2, HoursAssumption DEF CronWrote, Long
    <3> QED BY <3>1, <3>2 DEF ReceiptIsDated
  <2>4. CASE hour' # 0
    <3>1. hour' = hour + 1 /\ today' = today
      BY <1>4, <2>4
    <3> QED BY <1>2, <2>1, <2>2, <3>1, HoursAssumption DEF IInv, ReceiptIsDated, CronWrote, Long
  <2> QED BY <2>3, <2>4
<1> QED BY <1>5, <1>6, <1>7, <1>8 DEF IInv

LEMMA Inductive ==
  ASSUME IInv, [Next]_vars
  PROVE  IInv'
<1>1. CASE UNCHANGED vars
  BY <1>1 DEF IInv, vars, TypeOK, SilenceIsBounded, CronIsInTime, ReceiptIsDated, CronWrote
<1>2. CASE Next
  BY <1>2, CronRunsKeeps, RunByHandKeeps, RunStepGoesOn, WriteReceiptKeeps, KilledKeeps,
     CheckKeeps, ReceiptLostKeeps, TickKeeps DEF Next, RunStep
<1> QED BY <1>1, <1>2

LEMMA Initially == Init => IInv
<1> SUFFICES ASSUME Init PROVE IInv
  OBVIOUS
<1>1. receipt \in ReceiptStates /\ receipt.state = "none"
  BY HoursAssumption DEF Init, NoReceipt, ReceiptStates, Long
<1>2. TypeOK
  BY <1>1, NoRunIsARun, HoursAssumption DEF Init, TypeOK, Long
<1> QED BY <1>1, <1>2, NoRunIsARun
        DEF Init, IInv, SilenceIsBounded, CronIsInTime, ReceiptIsDated, CronWrote

LEMMA Invariance == Spec => []IInv
  BY Initially, Inductive, PTL DEF Spec

-----------------------------------------------------------------------------
\* Only the watchdog gives a verdict; the receipt it reads is at most an hour
\* of the clock older than it takes it for.
LEMMA VerdictIsOfTheReceipt ==
  ASSUME IInv, [Next]_vars, verdict' # verdict, verdict' # "unchecked"
  PROVE  \E h \in FullHours :
           /\ verdict' = IF Alarm(h) THEN "alarm" ELSE "silent"
           /\ h \in Nat /\ h <= receipt.age /\ receipt.age <= h + 1
<1>1. Check
  BY DEF Next, vars, RunStep, CronRuns, RunByHand, Begin, SkipSection, AskSection,
         PartPosted, PartFails, WriteReceipt, Killed, ReceiptLost, Tick
<1>2. \A h \in FullHours : h \in Nat /\ h <= receipt.age /\ receipt.age <= h + 1
  BY DEF IInv, TypeOK, ReceiptStates, FullHours
<1> QED BY <1>1, <1>2 DEF Check

\* A watchdog that says nothing has a digest in the channel to go by, killed,
\* dry, failed and empty runs, and runs by hand, notwithstanding.
THEOREM SilentMeansPosted == Spec => SilenceIsNoticed
<1>1. ASSUME IInv, [Next]_vars, verdict' = "silent", verdict # "silent"
      PROVE  silence <= MaxAge + RunHours
  <2>1. PICK h \in FullHours :
          /\ verdict' = IF Alarm(h) THEN "alarm" ELSE "silent"
          /\ h \in Nat /\ h <= receipt.age /\ receipt.age <= h + 1
    BY <1>1, VerdictIsOfTheReceipt
  <2>2. receipt.state = "good" /\ h < MaxAge /\ receipt.posted > 0
    BY <1>1, <2>1, HoursAssumption DEF Alarm, IInv, TypeOK, ReceiptStates
  <2> QED BY <1>1, <2>1, <2>2, HoursAssumption
          DEF IInv, TypeOK, ReceiptStates, SilenceIsBounded
<1>2. IInv /\ [Next]_vars =>
        [verdict' = "silent" /\ verdict # "silent" => silence <= MaxAge + RunHours]_vars
  BY <1>1
<1> QED BY <1>2, Invariance, PTL DEF Spec, SilenceIsNoticed

\* The hours of the two scripts and the limit are coupled as the watchdog
\* asks: a failure of this morning's run alarms today, and nothing else does.
THEOREM AlarmIsOfToday == Spec => AlarmTellsAboutToday
<1>1. ASSUME IInv, Check, receipt.state = "good", receipt.byHand = FALSE
      PROVE  verdict' = "alarm" <=> today # "posted"
  <2>1. PICK h \in FullHours : verdict' = IF Alarm(h) THEN "alarm" ELSE "silent"
    BY <1>1 DEF Check
  <2>2. h \in Nat /\ h <= receipt.age /\ receipt.age <= h + 1 /\ receipt.age \in Nat
    BY <1>1 DEF IInv, TypeOK, ReceiptStates, FullHours
  <2>3. hour = CheckAt
    BY <1>1 DEF Check
  <2>4. CASE today = "posted"
    BY <1>1, <2>1, <2>2, <2>3, <2>4, HoursAssumption, CouplingAssumption
    DEF Alarm, IInv, ReceiptIsDated, CronWrote
  <2>5. CASE today # "posted"
    BY <1>1, <2>1, <2>2, <2>3, <2>5, HoursAssumption, CouplingAssumption
    DEF Alarm, IInv, TypeOK, ReceiptStates, ReceiptIsDated, CronWrote
  <2> QED BY <2>4, <2>5
<1>2. ASSUME IInv
      PROVE  Check /\ receipt.state = "good" /\ ~receipt.byHand =>
               (verdict' = "alarm" <=> today # "posted")
  BY <1>1, <1>2 DEF IInv, TypeOK, ReceiptStates
<1> QED BY <1>2, Invariance, PTL DEF AlarmTellsAboutToday

-----------------------------------------------------------------------------
(* What FlattenSeq of SequencesExt computes                                 *)

\* Every set of naturals that has an element has a least one.
LEMMA LeastExists ==
  ASSUME NEW F \in SUBSET Nat, F # {}
  PROVE  \E i \in F : \A j \in F : i <= j
<1> DEFINE R == {ss \in Nat \X Nat : ss[1] < ss[2]}
<1>1. R = OpToRel(<, Nat)
  BY Zenon DEF OpToRel
<1>2. IsWellFoundedOn(R, Nat)
  BY <1>1, NatLessThanWellFounded, Zenon
<1>3. \A i, j \in Nat : j < i => <<j, i>> \in R
  OBVIOUS
<1> HIDE DEF R
<1>4. PICK i \in F : \A j \in F : ~(<<j, i>> \in R)
  BY <1>2, WFMin
<1>5. \A j \in F : ~(j < i)
  BY <1>3, <1>4
<1>6. QED
  BY <1>5

\* f flattens the first n of s.
Flattens(f, s, n) ==
  f = [i \in 1..n |-> IF i = 1 THEN s[i] ELSE f[i - 1] \o s[i]]

\* What such an f is at a place.
LEMMA FlattensAt ==
  ASSUME NEW f, NEW s, NEW n, Flattens(f, s, n), NEW i \in 1..n
  PROVE  f[i] = IF i = 1 THEN s[i] ELSE f[i - 1] \o s[i]
<1> DEFINE g == [j \in 1..n |-> IF j = 1 THEN s[j] ELSE f[j - 1] \o s[j]]
<1>1. g[i] = IF i = 1 THEN s[i] ELSE f[i - 1] \o s[i]
  OBVIOUS
<1>2. f = g
  BY DEF Flattens
<1> HIDE DEF g
<1>3. QED
  BY <1>1, <1>2

\* The definition recurs on smaller numbers only, so some f satisfies it.
LEMMA FlattensExists ==
  ASSUME NEW s, NEW n \in Nat
  PROVE  \E f : Flattens(f, s, n)
<1> DEFINE bad == {m \in Nat : ~\E f : Flattens(f, s, m)}
<1>1. SUFFICES ASSUME bad # {} PROVE FALSE
  OBVIOUS
<1>2. \E m \in bad : \A k \in bad : m <= k
  <2>1. bad \in SUBSET Nat
    OBVIOUS
  <2> HIDE DEF bad
  <2>2. QED
    BY <1>1, <2>1, LeastExists
<1>3. PICK m \in bad : \A k \in bad : m <= k
  BY <1>2
<1>4. m # 0
  <2> DEFINE f == [i \in 1..0 |-> s[i]]
  <2>1. f = [i \in 1..0 |-> IF i = 1 THEN s[i] ELSE f[i - 1] \o s[i]]
    BY 1..0 = {}
  <2>2. Flattens(f, s, 0)
    BY <2>1 DEF Flattens
  <2>3. QED
    BY <2>2
<1>5. m \in Nat /\ m - 1 \in Nat /\ m - 1 \notin bad
  BY <1>3, <1>4
<1>6. PICK f : Flattens(f, s, m - 1)
  BY <1>5
<1> DEFINE next(i) == IF i = 1 THEN s[i] ELSE f[i - 1] \o s[i]
           g == [i \in 1..m |-> next(i)]
<1>7. \A i \in 1..(m - 1) : f[i] = next(i)
  BY <1>6, FlattensAt
<1>8. \A i \in 1..m : i # 1 => g[i - 1] = f[i - 1]
  <2> TAKE i \in 1..m
  <2> HAVE i # 1
  <2>1. i - 1 \in 1..(m - 1) /\ i - 1 \in 1..m
    BY <1>5
  <2> HIDE DEF next
  <2>2. g[i - 1] = next(i - 1)
    BY <2>1
  <2>3. QED
    BY <1>7, <2>1, <2>2
<1>9. g = [i \in 1..m |-> IF i = 1 THEN s[i] ELSE g[i - 1] \o s[i]]
  <2>1. \A i \in 1..m : next(i) = IF i = 1 THEN s[i] ELSE g[i - 1] \o s[i]
    BY <1>8
  <2>2. QED
    BY <2>1
<1>10. Flattens(g, s, m)
  BY <1>9 DEF Flattens
<1>11. QED
  BY <1>3, <1>10

\* s and t begin with the same n.
Agree(s, t, n) == \A i \in 1..n : s[i] = t[i]

\* It is determined: two sequences that agree are flattened alike.
LEMMA FlattensSame ==
  ASSUME NEW s, NEW t, NEW n \in Nat, NEW m \in Nat, NEW f, NEW g,
         Flattens(f, s, n), Flattens(g, t, m), n <= m, Agree(s, t, n)
  PROVE  Agree(f, g, n)
<1> USE DEF Agree
<1> DEFINE bad == {i \in 1..n : f[i] # g[i]}
<1>1. SUFFICES ASSUME bad # {} PROVE FALSE
  OBVIOUS
<1>2. \E i \in bad : \A k \in bad : i <= k
  <2>1. bad \in SUBSET Nat
    OBVIOUS
  <2> HIDE DEF bad
  <2>2. QED
    BY <1>1, <2>1, LeastExists
<1>3. PICK i \in bad : \A k \in bad : i <= k
  BY <1>2
<1>4. /\ f[i] = IF i = 1 THEN s[i] ELSE f[i - 1] \o s[i]
      /\ g[i] = IF i = 1 THEN t[i] ELSE g[i - 1] \o t[i]
  <2>1. i \in 1..n /\ i \in 1..m
    OBVIOUS
  <2> HIDE DEF bad
  <2>2. QED
    BY <2>1, FlattensAt
<1>5. i # 1 => i - 1 \in 1..n /\ i - 1 \notin bad
  BY <1>3
<1>6. QED
  BY <1>3, <1>4, <1>5

\* FlattenSeq, which chooses one, is the last value of it.
LEMMA FlattenIs ==
  ASSUME NEW s, Len(s) \in Nat \ {0}, NEW f, Flattens(f, s, Len(s))
  PROVE  FlattenSeq(s) = f[Len(s)]
<1> DEFINE g == CHOOSE g : g = [i \in 1..Len(s) |-> IF i = 1 THEN s[i] ELSE g[i - 1] \o s[i]]
<1>1. g = [i \in 1..Len(s) |-> IF i = 1 THEN s[i] ELSE g[i - 1] \o s[i]]
  <2>1. \E h : h = [i \in 1..Len(s) |-> IF i = 1 THEN s[i] ELSE h[i - 1] \o s[i]]
    BY DEF Flattens
  <2>2. QED
    BY <2>1, Zenon
<1>2. Flattens(g, s, Len(s))
  BY <1>1 DEF Flattens
<1>3. FlattenSeq(s) = g[Len(s)]
  BY Zenon DEF FlattenSeq
<1> HIDE DEF g
<1>4. Agree(s, s, Len(s))
  BY DEF Agree
<1>5. Agree(f, g, Len(s))
  BY <1>2, <1>4, FlattensSame
<1>6. QED
  BY <1>3, <1>5 DEF Agree

\* The same, without the choice.
LEMMA FlattenedIs ==
  ASSUME NEW C, NEW s \in Seq(Seq(C)), NEW f, Flattens(f, s, Len(s))
  PROVE  \A i \in 1..Len(s) : f[i] \in Seq(C)
<1> DEFINE bad == {i \in 1..Len(s) : f[i] \notin Seq(C)}
<1>1. SUFFICES ASSUME bad # {} PROVE FALSE
  OBVIOUS
<1>2. \E i \in bad : \A k \in bad : i <= k
  <2>1. bad \in SUBSET Nat
    OBVIOUS
  <2> HIDE DEF bad
  <2>2. QED
    BY <1>1, <2>1, LeastExists
<1>3. PICK i \in bad : \A k \in bad : i <= k
  BY <1>2
<1>4. i \in 1..Len(s) /\ s[i] \in Seq(C)
  BY LenProperties
<1>5. f[i] = IF i = 1 THEN s[i] ELSE f[i - 1] \o s[i]
  BY <1>4, FlattensAt
<1>6. i # 1 => i - 1 \in 1..Len(s) /\ i - 1 \notin bad
  BY <1>3
<1>7. QED
  BY <1>4, <1>5, <1>6, ConcatProperties

\* Sequences of sequences over a set flatten to sequences over it.
LEMMA FlattenTyped ==
  ASSUME NEW C, NEW s \in Seq(Seq(C))
  PROVE  FlattenSeq(s) \in Seq(C)
<1>1. Len(s) \in Nat /\ (Len(s) = 0 => s = <<>>)
  BY LenProperties, EmptySeq
<1>2. CASE Len(s) = 0
  BY <1>1, <1>2 DEF FlattenSeq
<1>3. CASE Len(s) # 0
  <2>1. PICK f : Flattens(f, s, Len(s))
    BY <1>1, FlattensExists
  <2>2. FlattenSeq(s) = f[Len(s)]
    BY <1>1, <1>3, <2>1, FlattenIs
  <2>3. QED
    BY <1>1, <1>3, <2>1, <2>2, FlattenedIs
<1>4. QED
  BY <1>2, <1>3

\* Nothing flattens to nothing.
LEMMA FlattenEmpty == FlattenSeq(<<>>) = <<>>
  BY DEF FlattenSeq

\* One more sequence is put behind the rest.
LEMMA FlattenAppend ==
  ASSUME NEW C, NEW s \in Seq(Seq(C)), NEW x \in Seq(C)
  PROVE  FlattenSeq(Append(s, x)) = FlattenSeq(s) \o x
<1> DEFINE n == Len(s)
           t == Append(s, x)
<1>1. n \in Nat /\ (n = 0 => s = <<>>)
  BY LenProperties, EmptySeq
<1>2. /\ t \in Seq(Seq(C)) /\ Len(t) = n + 1
      /\ \A i \in 1..n : t[i] = s[i]
      /\ t[n + 1] = x
  BY AppendProperties
<1> HIDE DEF t
<1>3. PICK g : Flattens(g, t, n + 1)
  <2>1. n + 1 \in Nat
    BY <1>1
  <2>2. QED
    BY <2>1, FlattensExists
<1>4. FlattenSeq(t) = g[n + 1]
  <2>1. Len(t) \in Nat \ {0} /\ Flattens(g, t, Len(t))
    BY <1>1, <1>2, <1>3
  <2>2. QED
    BY <1>2, <2>1, FlattenIs
<1>5. g[n + 1] = IF n + 1 = 1 THEN x ELSE g[(n + 1) - 1] \o x
  BY <1>1, <1>2, <1>3, FlattensAt
<1>6. CASE n = 0
  <2>1. FlattenSeq(s) \o x = x
    BY <1>1, <1>6, FlattenEmpty, ConcatEmptySeq
  <2>2. QED
    BY <1>4, <1>5, <1>6, <2>1 DEF t
<1>7. CASE n # 0
  <2>1. PICK f : Flattens(f, s, n)
    BY <1>1, FlattensExists
  <2>2. FlattenSeq(s) = f[n]
    BY <1>1, <1>7, <2>1, FlattenIs
  <2>3. Agree(f, g, n)
    <3> DEFINE m == n + 1
    <3>1. m \in Nat /\ n <= m /\ Agree(s, t, n)
      BY <1>1, <1>2 DEF Agree
    <3>2. Flattens(g, t, m)
      BY <1>3
    <3> HIDE DEF n, m
    <3>3. QED
      BY <1>1, <2>1, <3>1, <3>2, FlattensSame
  <2>4. (n + 1) - 1 = n /\ n \in 1..n /\ n + 1 # 1
    BY <1>1, <1>7
  <2>5. QED
    BY <1>4, <1>5, <2>2, <2>3, <2>4 DEF t, Agree
<1>8. QED
  BY <1>6, <1>7

\* One sequence flattens to itself.
LEMMA FlattenOne ==
  ASSUME NEW C, NEW x \in Seq(C)
  PROVE  FlattenSeq(<<x>>) = x
<1>1. <<>> \in Seq(Seq(C)) /\ <<x>> = Append(<<>>, x)
  OBVIOUS
<1>2. FlattenSeq(Append(<<>>, x)) = FlattenSeq(<<>>) \o x
  BY <1>1, FlattenAppend
<1>3. QED
  BY <1>1, <1>2, FlattenEmpty, ConcatEmptySeq

\* Concatenation is associative, in a form the provers instantiate.
LEMMA Associative == \A S : \A s, t, u \in Seq(S) : (s \o t) \o u = s \o (t \o u)
  BY ConcatAssociative

\* Appending to the second of two is appending to both.
LEMMA ConcatAppend ==
  ASSUME NEW S, NEW s \in Seq(S), NEW p \in Seq(S), NEW e \in S
  PROVE  s \o Append(p, e) = Append(s \o p, e)
<1>1. /\ <<e>> \in Seq(S) /\ s \o p \in Seq(S)
      /\ Append(p, e) = p \o <<e>>
  BY AppendIsConcat, ConcatProperties
<1>2. Append(s \o p, e) = (s \o p) \o <<e>>
  BY <1>1, AppendIsConcat
<1>3. (s \o p) \o <<e>> = s \o (p \o <<e>>)
  BY <1>1, ConcatAssociative
<1>4. QED
  BY <1>1, <1>2, <1>3

\* s and t flatten to what they flatten to one by one.
Together(s, t) == FlattenSeq(s \o t) = FlattenSeq(s) \o FlattenSeq(t)

\* If two flatten one after the other, so they do with one sequence more.
LEMMA TogetherAppend ==
  ASSUME NEW C, NEW s \in Seq(Seq(C)), NEW p \in Seq(Seq(C)), NEW e \in Seq(C),
         Together(s, p)
  PROVE  Together(s, Append(p, e))
<1> DEFINE a == FlattenSeq(s)
           b == FlattenSeq(p)
<1>1. a \in Seq(C) /\ b \in Seq(C) /\ s \o p \in Seq(Seq(C))
  BY FlattenTyped, ConcatProperties
<1> DEFINE q == s \o p
<1>2. s \o Append(p, e) = Append(q, e)
  BY ConcatAppend
<1>3. FlattenSeq(Append(q, e)) = (a \o b) \o e
  <2>1. q \in Seq(Seq(C)) /\ FlattenSeq(q) = a \o b
    BY <1>1 DEF Together
  <2> HIDE DEF q
  <2>2. FlattenSeq(Append(q, e)) = FlattenSeq(q) \o e
    BY <2>1, FlattenAppend
  <2>3. QED
    BY <2>1, <2>2
<1>4. FlattenSeq(Append(p, e)) = b \o e
  BY FlattenAppend
<1>5. (a \o b) \o e = a \o (b \o e)
  <2> HIDE DEF a, b
  <2> QED BY <1>1, Associative
<1>6. QED
  BY <1>2, <1>3, <1>4, <1>5 DEF Together

\* Flattening distributes over concatenation.
LEMMA FlattenConcat ==
  ASSUME NEW C, NEW s \in Seq(Seq(C)), NEW t \in Seq(Seq(C))
  PROVE  FlattenSeq(s \o t) = FlattenSeq(s) \o FlattenSeq(t)
<1> DEFINE part(n) == SubSeq(t, 1, n)
           bad == {n \in 0..Len(t) : ~Together(s, part(n))}
<1>1. Len(t) \in Nat /\ part(Len(t)) = t
  BY LenProperties, SubSeqFull
<1>2. SUFFICES ASSUME ~Together(s, t) PROVE FALSE
  BY DEF Together
<1>3. bad # {}
  <2>1. Len(t) \in 0..Len(t)
    BY <1>1
  <2>2. ~Together(s, part(Len(t)))
    BY <1>1, <1>2
  <2>3. QED
    BY <2>1, <2>2
<1>4. \E i \in bad : \A k \in bad : i <= k
  <2>1. bad \in SUBSET Nat
    OBVIOUS
  <2> HIDE DEF bad
  <2>2. QED
    BY <1>3, <2>1, LeastExists
<1>5. PICK n \in bad : \A k \in bad : n <= k
  BY <1>4
<1>6. n # 0
  <2>1. part(0) = <<>>
    BY SubSeqEmpty
  <2>2. s \o <<>> = s /\ FlattenSeq(s) \o <<>> = FlattenSeq(s)
    BY ConcatEmptySeq, FlattenTyped
  <2>3. QED
    BY <2>1, <2>2, FlattenEmpty DEF Together
<1>7. n \in 1..Len(t) /\ n - 1 \in 0..Len(t) /\ n - 1 \notin bad
  BY <1>1, <1>5, <1>6
<1>8. part(n - 1) \in Seq(Seq(C)) /\ t[n] \in Seq(C)
  BY <1>1, <1>7, LenProperties, SubSeqProperties
<1>9. part(n) = Append(part(n - 1), t[n])
  <2>1. part(n) = part(n - 1) \o <<t[n]>>
    BY <1>1, <1>7, SubSeqRecursiveSecond
  <2>2. QED
    BY <1>8, <2>1, AppendIsConcat
<1>10. Together(s, part(n - 1))
  BY <1>7
<1>11. Together(s, part(n))
  BY <1>8, <1>9, <1>10, TogetherAppend
<1>12. QED
  BY <1>11

-----------------------------------------------------------------------------
(* What FoldLeft makes of the lines of a text                               *)

\* What split begins with.
Start == [parts |-> <<>>, current |-> <<>>]

\* f is the function FoldLeft recurs by, on the first n lines of text.
Collects(f, text, n) ==
  f = [s \in SUBSET (1..n) |->
         IF s = {} THEN Start ELSE AddLine(f[s \ {Max(s)}], text[Max(s)])]

\* f at a set of lines adds the last of them to what the others make.
Adds(f, text, s) ==
  f[s] = IF s = {} THEN Start ELSE AddLine(f[s \ {Max(s)}], text[Max(s)])

\* What such an f is at a set of lines.
LEMMA CollectsAt ==
  ASSUME NEW f, NEW text, NEW n, Collects(f, text, n), NEW s, s \subseteq 1..n
  PROVE  Adds(f, text, s)
<1> DEFINE next(x) == IF x = {} THEN Start ELSE AddLine(f[x \ {Max(x)}], text[Max(x)])
           g == [x \in SUBSET (1..n) |-> next(x)]
<1>1. f = g
  BY DEF Collects
<1>2. g[s] = next(s)
  <2> HIDE DEF next
  <2> QED OBVIOUS
<1> HIDE DEF g
<1>3. QED
  BY <1>1, <1>2 DEF Adds

\* The last of the first m lines.
LEMMA GreatestIs ==
  ASSUME NEW m \in Int, NEW s \in SUBSET (1..m), m \in s
  PROVE  Max(s) = m
<1>1. \A x \in s : x \in Int /\ m >= x
  OBVIOUS
<1>2. \A x \in s : (\A y \in s : x >= y) => x = m
  BY <1>1
<1>3. QED
  BY <1>1, <1>2, Zenon DEF Max

\* The definition recurs on smaller sets only, so some f satisfies it.
LEMMA CollectsExists ==
  ASSUME NEW text, NEW n \in Nat
  PROVE  \E f : Collects(f, text, n)
<1> DEFINE bad == {m \in Nat : ~\E f : Collects(f, text, m)}
<1>1. SUFFICES ASSUME bad # {} PROVE FALSE
  OBVIOUS
<1>2. \E m \in bad : \A k \in bad : m <= k
  <2>1. bad \in SUBSET Nat
    OBVIOUS
  <2> HIDE DEF bad
  <2>2. QED
    BY <1>1, <2>1, LeastExists
<1>3. PICK m \in bad : \A k \in bad : m <= k
  BY <1>2
<1>4. m # 0
  <2> DEFINE f == [s \in SUBSET (1..0) |-> Start]
  <2>1. \A s \in SUBSET (1..0) :
          Start = IF s = {} THEN Start ELSE AddLine(f[s \ {Max(s)}], text[Max(s)])
    BY 1..0 = {}
  <2>2. Collects(f, text, 0)
    BY <2>1, Zenon DEF Collects
  <2>3. QED
    BY <2>2
<1>5. m \in Nat /\ m - 1 \in Nat /\ m - 1 \notin bad
  BY <1>3, <1>4
<1>6. PICK f : Collects(f, text, m - 1)
  BY <1>5
<1> DEFINE g == [s \in SUBSET (1..m) |->
                   IF m \in s THEN AddLine(f[s \ {m}], text[m]) ELSE f[s]]
           next(s) == IF s = {} THEN Start ELSE AddLine(g[s \ {Max(s)}], text[Max(s)])
<1>7. \A s \in SUBSET (1..m) : m \notin s => s \in SUBSET (1..(m - 1)) /\ g[s] = f[s]
  <2>1. \A s \in SUBSET (1..m) : m \notin s => s \in SUBSET (1..(m - 1))
    BY <1>5
  <2>2. QED
    BY <2>1
<1>8. \A s \in SUBSET (1..m) : g[s] = next(s)
  <2> TAKE s \in SUBSET (1..m)
  <2>1. CASE m \in s
    <3>1. Max(s) = m /\ s # {}
      BY <1>5, <2>1, GreatestIs
    <3>2. s \ {m} \in SUBSET (1..m) /\ m \notin s \ {m}
      OBVIOUS
    <3>3. g[s \ {m}] = f[s \ {m}]
      BY <1>7, <3>2
    <3>4. g[s] = AddLine(f[s \ {m}], text[m])
      BY <2>1
    <3> HIDE DEF g
    <3>5. QED
      BY <3>1, <3>3, <3>4
  <2>2. CASE m \notin s
    <3>1. s \in SUBSET (1..(m - 1)) /\ g[s] = f[s]
      BY <1>7, <2>2
    <3>2. Adds(f, text, s)
      BY <1>6, <3>1, CollectsAt
    <3>3. s \ {Max(s)} \in SUBSET (1..m) /\ m \notin s \ {Max(s)}
      BY <2>2
    <3>4. g[s \ {Max(s)}] = f[s \ {Max(s)}]
      BY <1>7, <3>3
    <3> HIDE DEF g
    <3>5. QED
      BY <3>1, <3>2, <3>4 DEF Adds
  <2>3. QED
    BY <2>1, <2>2
<1>9. Collects(g, text, m)
  <2>1. g = [s \in SUBSET (1..m) |-> g[s]]
    OBVIOUS
  <2> HIDE DEF g
  <2>2. QED
    BY <1>8, <2>1, Zenon DEF Collects
<1>10. QED
  BY <1>3, <1>9

\* The lines are added one after the other.
LEMMA CollectedIs ==
  ASSUME NEW S, NEW text \in Seq(S)
  PROVE  \E f : /\ f[0] = Start
                /\ \A n \in 1..Len(text) : f[n] = AddLine(f[n - 1], text[n])
                /\ FoldLeft(AddLine, Start, text) = f[Len(text)]
<1> DEFINE all == DOMAIN text
           g == CHOOSE g : g = [s \in SUBSET all |->
                  IF s = {} THEN Start ELSE AddLine(g[s \ {Max(s)}], text[Max(s)])]
<1>1. all = 1..Len(text) /\ Len(text) \in Nat
  BY LenProperties
<1>2. Collects(g, text, Len(text))
  <2>1. \E h : h = [s \in SUBSET all |->
          IF s = {} THEN Start ELSE AddLine(h[s \ {Max(s)}], text[Max(s)])]
    <3>1. PICK h : Collects(h, text, Len(text))
      BY <1>1, CollectsExists
    <3>2. QED
      BY <1>1, <3>1, Zenon DEF Collects
  <2>2. g = [s \in SUBSET all |->
          IF s = {} THEN Start ELSE AddLine(g[s \ {Max(s)}], text[Max(s)])]
    BY <2>1, Zenon
  <2> HIDE DEF g
  <2>3. QED
    BY <1>1, <2>2, Zenon DEF Collects
<1>3. FoldLeft(AddLine, Start, text) = g[all]
  BY Zenon DEF FoldLeft, MapThenFoldSet
<1> HIDE DEF g
<1> DEFINE f == [n \in 0..Len(text) |-> g[1..n]]
<1>4. f[0] = Start
  <2>1. {} \in SUBSET (1..Len(text)) /\ 1..0 = {} /\ f[0] = g[1..0]
    BY <1>1
  <2>2. QED
    BY <1>2, <2>1, CollectsAt DEF Adds
<1>5. ASSUME NEW n \in 1..Len(text) PROVE f[n] = AddLine(f[n - 1], text[n])
  <2>1. /\ n \in Int /\ n \in 1..n /\ n \in 0..Len(text) /\ n - 1 \in 0..Len(text)
        /\ \A i \in Int : i \in 1..n /\ i # n <=> i \in 1..(n - 1)
        /\ \A i \in 1..n : i \in 1..Len(text)
    BY <1>1
  <2> DEFINE upTo == 1..n
  <2>2. /\ upTo \in SUBSET (1..Len(text)) /\ upTo # {}
        /\ upTo \ {n} = 1..(n - 1)
    <3>1. upTo \subseteq Int /\ 1..(n - 1) \subseteq Int
      OBVIOUS
    <3>2. QED
      BY <2>1, <3>1
  <2>2a. Max(upTo) = n
    BY <2>1, GreatestIs
  <2>3. f[n] = g[1..n] /\ f[n - 1] = g[1..(n - 1)]
    BY <2>1
  <2>4. g[upTo] = AddLine(g[upTo \ {n}], text[n])
    <3> HIDE DEF f, upTo
    <3>1. Adds(g, text, upTo)
      BY <1>2, <2>2, CollectsAt
    <3>2. QED
      BY <2>2, <2>2a, <3>1 DEF Adds
  <2>5. QED
    <3> HIDE DEF f
    <3> QED BY <2>2, <2>3, <2>4
<1>6. FoldLeft(AddLine, Start, text) = f[Len(text)]
  <2>1. Len(text) \in 0..Len(text)
    BY <1>1
  <2>2. QED
    BY <1>1, <1>3, <2>1
<1>7. QED
  BY <1>4, <1>5, <1>6

-----------------------------------------------------------------------------
(* Trimming                                                                 *)

\* Lines of characters.
Lines == Seq(Seq(Nat))

\* Every set of the first m naturals that has an element has a greatest one.
LEMMA GreatestExists ==
  ASSUME NEW m \in Nat, NEW F \in SUBSET (1..m), F # {}
  PROVE  \E i \in F : \A j \in F : i >= j
<1> DEFINE G == {m - i : i \in F}
<1>1. G \in SUBSET Nat /\ G # {}
  <2>1. ASSUME NEW i \in F PROVE m - i \in Nat
    <3>1. i \in 1..m
      OBVIOUS
    <3>2. QED
      BY <3>1
  <2>2. G \subseteq Nat
    BY <2>1
  <2>3. QED
    BY <2>2
<1>2. \E k \in G : \A l \in G : k <= l
  <2> HIDE DEF G
  <2> QED BY <1>1, LeastExists
<1>3. PICK i \in F : \A l \in G : m - i <= l
  BY <1>2
<1>4. ASSUME NEW j \in F PROVE i >= j
  <2>1. m - i <= m - j
    BY <1>3
  <2>2. QED
    BY <2>1
<1>5. QED
  BY <1>4

\* Lines of nothing have no letter.
LEMMA BlankLines ==
  ASSUME NEW lines \in Lines, \A i \in DOMAIN lines : lines[i] = <<>>
  PROVE  FlattenSeq(lines) = <<>>
<1>1. lines \in Seq(Seq({}))
  <2>1. DOMAIN lines = 1..Len(lines) /\ Len(lines) \in Nat /\ lines \in [1..Len(lines) -> Seq(Nat)]
    BY LenProperties DEF Lines
  <2>2. \A i \in 1..Len(lines) : lines[i] \in Seq({})
    BY <2>1, EmptySeq
  <2>3. lines \in [1..Len(lines) -> Seq({})]
    BY <2>1, <2>2
  <2>4. QED
    BY <2>1, <2>3, SeqDef
<1>2. FlattenSeq(lines) \in Seq({})
  BY <1>1, FlattenTyped
<1>3. Len(FlattenSeq(lines)) = 0
  <2> DEFINE f == FlattenSeq(lines)
  <2>1. f \in Seq({})
    BY <1>2
  <2> HIDE DEF f
  <2>2. Len(f) \in Nat /\ f \in [1..Len(f) -> {}]
    BY <2>1, LenProperties
  <2>3. Len(f) # 0 => 1 \in 1..Len(f) /\ f[1] \in {}
    BY <2>2
  <2>4. QED
    BY <2>3 DEF f
<1>4. QED
  BY <1>2, <1>3, EmptySeq

\* Leaving out lines of nothing on either side leaves out no letter.
LEMMA Trimmed ==
  ASSUME NEW lines \in Lines, NEW m \in 1..Len(lines), NEW n \in m..Len(lines),
         \A i \in 1..Len(lines) : i < m \/ n < i => lines[i] = <<>>
  PROVE  SubSeq(lines, m, n) \in Lines /\ FlattenSeq(SubSeq(lines, m, n)) = FlattenSeq(lines)
<1> DEFINE k == Len(lines)
           a == SubSeq(lines, 1, m - 1)
           b == SubSeq(lines, m, n)
           c == SubSeq(lines, n + 1, k)
<1>1. /\ k \in Nat /\ m \in 1..k /\ n \in m..k
      /\ \A i \in 1..k : lines[i] \in Seq(Nat)
  BY LenProperties DEF Lines
<1>2. /\ a \in Lines /\ Len(a) = m - 1 /\ \A i \in 1..(m - 1) : a[i] = lines[i]
  <2>1. m - 1 \in Int /\ \A i \in 1..(m - 1) : lines[i] \in Seq(Nat)
    BY <1>1
  <2>2. QED
    BY <1>1, <2>1, SubSeqProperties DEF Lines
<1>3. b \in Lines
  <2>1. m \in Int /\ n \in Int /\ \A i \in m..n : lines[i] \in Seq(Nat)
    BY <1>1
  <2>2. QED
    BY <2>1, SubSeqProperties DEF Lines
<1>4. /\ c \in Lines /\ Len(c) = k - n /\ \A i \in 1..(k - n) : c[i] = lines[n + i]
  <2>1. n + 1 \in Int /\ k \in Int /\ \A i \in (n + 1)..k : lines[i] \in Seq(Nat)
    BY <1>1
  <2>2. /\ c \in Seq(Seq(Nat))
        /\ Len(c) = IF n + 1 <= k THEN k - (n + 1) + 1 ELSE 0
        /\ \A i \in 1..(k - (n + 1) + 1) : c[i] = lines[(n + 1) + i - 1]
    BY <2>1, SubSeqProperties
  <2>3. QED
    BY <1>1, <2>2 DEF Lines
<1>5. lines = (a \o b) \o c
  <2>1. a \o b = SubSeq(lines, 1, n)
    <3>1. 1 \in 1..(k + 1) /\ m - 1 \in (1 - 1)..k /\ n \in (m - 1)..k /\ (m - 1) + 1 = m
      BY <1>1
    <3>2. QED
      BY <3>1, ConcatAdjacentSubSeq DEF Lines
  <2>2. SubSeq(lines, 1, n) \o c = SubSeq(lines, 1, k)
    <3>1. 1 \in 1..(k + 1) /\ n \in (1 - 1)..k /\ k \in n..k
      BY <1>1
    <3>2. QED
      BY <3>1, ConcatAdjacentSubSeq DEF Lines
  <2>3. SubSeq(lines, 1, k) = lines
    BY SubSeqFull DEF Lines
  <2>4. QED
    BY <2>1, <2>2, <2>3
<1>6. FlattenSeq(a) = <<>>
  <2>1. \A i \in 1..(m - 1) : i \in 1..k /\ i < m
    BY <1>1
  <2>2. DOMAIN a = 1..(m - 1)
    BY <1>2, LenProperties DEF Lines
  <2>3. QED
    BY <1>2, <2>1, <2>2, BlankLines
<1>7. FlattenSeq(c) = <<>>
  <2>1. \A i \in 1..(k - n) : n + i \in 1..k /\ n < n + i
    BY <1>1
  <2>2. DOMAIN c = 1..(k - n)
    BY <1>4, LenProperties DEF Lines
  <2>3. QED
    BY <1>4, <2>1, <2>2, BlankLines
<1> HIDE DEF a, b, c
<1>8. FlattenSeq((a \o b) \o c) = FlattenSeq(b)
  <2>1. a \o b \in Lines
    BY <1>2, <1>3, ConcatProperties DEF Lines
  <2>2. FlattenSeq((a \o b) \o c) = FlattenSeq(a \o b) \o FlattenSeq(c)
    BY <1>4, <2>1, FlattenConcat DEF Lines
  <2>3. FlattenSeq(a \o b) = FlattenSeq(a) \o FlattenSeq(b)
    BY <1>2, <1>3, FlattenConcat DEF Lines
  <2>4. FlattenSeq(b) \in Seq(Nat)
    BY <1>3, FlattenTyped DEF Lines
  <2>5. QED
    BY <1>6, <1>7, <2>2, <2>3, <2>4, ConcatEmptySeq
<1>9. QED
  BY <1>3, <1>5, <1>8 DEF b

\* TrimRight and TrimSpace lose no letter.
LEMMA TrimmedKeeps ==
  ASSUME NEW lines \in Lines
  PROVE  /\ TrimRight(lines) \in Lines /\ FlattenSeq(TrimRight(lines)) = FlattenSeq(lines)
         /\ TrimSpace(lines) \in Lines /\ FlattenSeq(TrimSpace(lines)) = FlattenSeq(lines)
<1> DEFINE k == Len(lines)
<1>1. k \in Nat /\ DOMAIN lines = 1..k
  BY LenProperties DEF Lines
<1>2. CASE Inked(lines) = {}
  <2>1. \A i \in DOMAIN lines : lines[i] = <<>>
    BY <1>2 DEF Inked
  <2>2. FlattenSeq(lines) = <<>>
    BY <2>1, BlankLines
  <2>3. <<>> \in Lines
    BY DEF Lines
  <2>4. QED
    BY <1>2, <2>2, <2>3, FlattenEmpty DEF TrimRight, TrimSpace
<1>3. CASE Inked(lines) # {}
  <2> DEFINE F == Inked(lines)
             m == Min(F)
             n == Max(F)
  <2>1. F \in SUBSET (1..k) /\ F \in SUBSET Nat
    BY <1>1 DEF Inked
  <2>2. m \in F /\ \A i \in F : m <= i
    <3>1. \E i \in F : \A j \in F : i <= j
      BY <1>3, <2>1, LeastExists
    <3>2. QED
      BY <3>1, Zenon DEF Min
  <2>3. n \in F /\ \A i \in F : n >= i
    <3>1. \E i \in F : \A j \in F : i >= j
      BY <1>1, <1>3, <2>1, GreatestExists
    <3>2. QED
      BY <3>1, Zenon DEF Max
  <2>4. \A i \in 1..k : i \notin F => lines[i] = <<>>
    BY <1>1 DEF Inked
  <2> HIDE DEF F, m, n
  <2>5. m \in 1..k /\ n \in m..k /\ 1 \in 1..k /\ n \in 1..k
    BY <1>1, <2>1, <2>2, <2>3
  <2>6. \A i \in 1..k : i < m \/ n < i => lines[i] = <<>>
    BY <1>1, <2>1, <2>2, <2>3, <2>4, <2>5
  <2>7. \A i \in 1..k : i < 1 \/ n < i => lines[i] = <<>>
    BY <1>1, <2>6
  <2>8. /\ SubSeq(lines, m, n) \in Lines
        /\ FlattenSeq(SubSeq(lines, m, n)) = FlattenSeq(lines)
    BY <2>5, <2>6, Trimmed
  <2>9. /\ SubSeq(lines, 1, n) \in Lines
        /\ FlattenSeq(SubSeq(lines, 1, n)) = FlattenSeq(lines)
    BY <2>5, <2>7, Trimmed
  <2>10. TrimRight(lines) = SubSeq(lines, 1, n) /\ TrimSpace(lines) = SubSeq(lines, m, n)
    BY <1>3 DEF TrimRight, TrimSpace, m, n, F
  <2>11. QED
    BY <2>8, <2>9, <2>10
<1>4. QED
  BY <1>2, <1>3

-----------------------------------------------------------------------------
(* split                                                                    *)

\* The letters of the messages so far and of the lines collected.
LettersOf(s) == FlattenSeq(FlattenSeq(s.parts)) \o FlattenSeq(s.current)

\* The states of split.
Collected == [parts : Seq(Lines), current : Lines]

\* The letters a state of the split holds, and what it flattens to.
LEMMA LettersTyped ==
  ASSUME NEW s \in Collected
  PROVE  /\ FlattenSeq(s.parts) \in Lines
         /\ FlattenSeq(FlattenSeq(s.parts)) \in Seq(Nat)
         /\ FlattenSeq(s.current) \in Seq(Nat)
         /\ Size(s.current) \in Nat
<1>1. s.parts \in Seq(Seq(Seq(Nat))) /\ s.current \in Seq(Seq(Nat))
  BY DEF Collected, Lines
<1>2. FlattenSeq(s.parts) \in Seq(Seq(Nat))
  BY <1>1, FlattenTyped
<1>3. FlattenSeq(FlattenSeq(s.parts)) \in Seq(Nat)
  BY <1>2, FlattenTyped
<1>4. FlattenSeq(s.current) \in Seq(Nat)
  BY <1>1, FlattenTyped
<1>5. Size(s.current) \in Nat
  <2>1. Len(s.current) \in Nat
    BY <1>1, LenProperties
  <2>2. Len(FlattenSeq(s.current)) \in Nat
    BY <1>4, LenProperties
  <2> DEFINE a == Len(s.current)
             b == Len(FlattenSeq(s.current))
  <2>3. Size(s.current) = b + a
    BY Zenon DEF Size
  <2>4. a \in Nat /\ b \in Nat
    BY <2>1, <2>2
  <2> HIDE DEF a, b
  <2>5. QED
    BY <2>3, <2>4
<1>6. QED
  BY <1>2, <1>3, <1>4, <1>5 DEF Lines

\* Flushing moves the letters collected into the messages, and loses none.
LEMMA FlushKeeps ==
  ASSUME NEW s \in Collected
  PROVE  /\ Flush(s) \in Collected /\ Flush(s).current = <<>>
         /\ LettersOf(Flush(s)) = LettersOf(s)
         /\ FlattenSeq(FlattenSeq(Flush(s).parts)) = LettersOf(s)
<1>1. /\ s.parts \in Seq(Lines) /\ s.current \in Lines
  BY DEF Collected
<1>0. <<>> \in Lines
  BY DEF Lines
<1>2. CASE s.current = <<>>
  <2>1. Flush(s) = s
    BY <1>2 DEF Flush
  <2>2. FlattenSeq(s.current) = <<>>
    BY <1>2, FlattenEmpty
  <2>3. FlattenSeq(FlattenSeq(s.parts)) \in Seq(Nat)
    BY LettersTyped
  <2>4. LettersOf(s) = FlattenSeq(FlattenSeq(s.parts))
    BY <2>2, <2>3, ConcatEmptySeq DEF LettersOf
  <2>5. QED
    BY <1>2, <2>1, <2>4
<1>3. CASE s.current # <<>>
  <2> DEFINE last == TrimRight(s.current)
             p == Append(s.parts, last)
  <2>1. last \in Lines /\ FlattenSeq(last) = FlattenSeq(s.current)
    BY <1>1, TrimmedKeeps
  <2> HIDE DEF last
  <2>2. p \in Seq(Lines)
    BY <1>1, <2>1, AppendProperties
  <2>3. FlattenSeq(p) = FlattenSeq(s.parts) \o last
    BY <1>1, <2>1, FlattenAppend DEF Lines
  <2>4. FlattenSeq(FlattenSeq(p)) = FlattenSeq(FlattenSeq(s.parts)) \o FlattenSeq(last)
    <3>1. FlattenSeq(s.parts) \in Lines
      BY LettersTyped
    <3>2. QED
      BY <2>1, <2>3, <3>1, FlattenConcat DEF Lines
  <2>5. FlattenSeq(FlattenSeq(p)) = LettersOf(s)
    BY <2>1, <2>4 DEF LettersOf
  <2>6. FlattenSeq(FlattenSeq(p)) \in Seq(Nat)
    <3>1. FlattenSeq(p) \in Seq(Seq(Nat))
      BY <2>2, FlattenTyped DEF Lines
    <3>2. QED
      BY <3>1, FlattenTyped
  <2>7. Flush(s) = [parts |-> p, current |-> <<>>]
    BY <1>3 DEF Flush, last
  <2> HIDE DEF p
  <2>8. Flush(s).parts = p /\ Flush(s).current = <<>>
    BY <2>7
  <2>9. Flush(s) \in Collected
    BY <1>0, <2>2, <2>7 DEF Collected
  <2>10. LettersOf(Flush(s)) = FlattenSeq(FlattenSeq(p))
    BY <2>6, <2>8, FlattenEmpty, ConcatEmptySeq DEF LettersOf
  <2>11. QED
    BY <2>5, <2>8, <2>9, <2>10
<1>4. QED
  BY <1>2, <1>3

\* A line is cut so often that the last piece is no longer than a message.
LEMMA CutsAre ==
  ASSUME NEW line \in Seq(Nat)
  PROVE  /\ Cuts(line) \in Nat
         /\ Cuts(line) * maxMessageBytes <= Len(line)
         /\ Len(line) <= (Cuts(line) + 1) * maxMessageBytes
<1>1. maxMessageBytes \in Nat /\ maxMessageBytes > 0 /\ Len(line) \in Nat
  BY SizesAssumption, LenProperties
<1>2. CASE line = <<>>
  <2>1. Cuts(line) = 0 /\ Len(line) = 0
    BY <1>2 DEF Cuts
  <2>2. QED
    BY <1>1, <2>1
<1>3. CASE line # <<>>
  <2> DEFINE l == Len(line) - 1
             q == l \div maxMessageBytes
             r == l % maxMessageBytes
  <2>1. l \in Nat
    BY <1>1, <1>3, EmptySeq
  <2> HIDE DEF l
  <2>2. q \in Int /\ r \in 0..(maxMessageBytes - 1) /\ l = q * maxMessageBytes + r
    BY <1>1, <2>1, SMTT(60)
  <2>3. Cuts(line) = q
    BY <1>3 DEF Cuts, l
  <2> HIDE DEF q, r
  <2>4. q >= 0
    <3>1. q < 0 => q * maxMessageBytes <= -maxMessageBytes
      BY <1>1, <2>2
    <3>2. QED
      BY <1>1, <2>1, <2>2, <3>1
  <2>5. /\ (q + 1) * maxMessageBytes = q * maxMessageBytes + maxMessageBytes
        /\ q * maxMessageBytes \in Nat
    BY <1>1, <2>2, <2>4
  <2>6. Len(line) = l + 1
    BY <1>1 DEF l
  <2>7. QED
    BY <1>1, <2>1, <2>2, <2>3, <2>4, <2>5, <2>6
<1>4. QED
  BY <1>2, <1>3

\* A piece cut off is of the length of a message, the last one the rest of the line.
LEMMA PieceIs ==
  ASSUME NEW line \in Seq(Nat), NEW i \in 1..(Cuts(line) + 1)
  PROVE  /\ Piece(line, i) \in Seq(Nat)
         /\ i <= Cuts(line) =>
              Piece(line, i) =
                SubSeq(line, (i - 1) * maxMessageBytes + 1, i * maxMessageBytes)
         /\ i = Cuts(line) + 1 =>
              Piece(line, i) =
                SubSeq(line, Cuts(line) * maxMessageBytes + 1, Len(line))
<1> DEFINE k == i * maxMessageBytes
           m == (i - 1) * maxMessageBytes
           n == Min({k, Len(line)})
<1>1. /\ maxMessageBytes \in Nat /\ Len(line) \in Nat
      /\ \A j \in 1..Len(line) : line[j] \in Nat
  BY SizesAssumption, LenProperties
<1>2. Cuts(line) \in Nat /\ i \in Nat /\ i >= 1
  BY CutsAre
<1>3. k \in Nat /\ m \in Nat
  BY <1>1, <1>2
<1>4. n = IF k <= Len(line) THEN k ELSE Len(line)
  <2> HIDE DEF k
  <2>1. n = CHOOSE x \in {k, Len(line)} : \A y \in {k, Len(line)} : x <= y
    BY DEF Min
  <2>2. \E x \in {k, Len(line)} : \A y \in {k, Len(line)} : x <= y
    BY <1>1, <1>3
  <2>3. n \in {k, Len(line)} /\ \A y \in {k, Len(line)} : n <= y
    <3> HIDE DEF n
    <3> QED BY <2>1, <2>2, Zenon
  <2> HIDE DEF n
  <2>4. QED
    BY <1>1, <1>3, <2>3
<1>5. i <= Cuts(line) => k <= Len(line)
  <2>1. i <= Cuts(line) => k <= Cuts(line) * maxMessageBytes
    <3> SUFFICES ASSUME i <= Cuts(line) PROVE k <= Cuts(line) * maxMessageBytes
      OBVIOUS
    <3> DEFINE d == Cuts(line) - i
    <3>1. d \in Nat /\ Cuts(line) = i + d
      BY <1>2
    <3> HIDE DEF d
    <3>2. (i + d) * maxMessageBytes = k + d * maxMessageBytes /\ d * maxMessageBytes \in Nat
      BY <1>1, <1>2, <3>1
    <3>3. QED
      BY <1>3, <3>1, <3>2
  <2>2. Cuts(line) * maxMessageBytes <= Len(line) /\ Cuts(line) * maxMessageBytes \in Nat
    BY <1>1, <1>2, CutsAre
  <2>3. QED
    BY <1>1, <1>3, <2>1, <2>2
<1>6. i = Cuts(line) + 1 => Len(line) <= k /\ m = Cuts(line) * maxMessageBytes
  BY <1>2, CutsAre
<1>7. n \in Nat /\ n <= Len(line)
  BY <1>1, <1>3, <1>4
<1>8. Piece(line, i) = SubSeq(line, m + 1, n)
  BY DEF Piece
<1> HIDE DEF m, n
<1>9. Piece(line, i) \in Seq(Nat)
  <2>1. m + 1 \in Int /\ n \in Int /\ \A j \in (m + 1)..n : line[j] \in Nat
    BY <1>1, <1>3, <1>7
  <2>2. QED
    BY <1>8, <2>1, SubSeqProperties
<1>10. i <= Cuts(line) => n = k
  BY <1>4, <1>5
<1>11. i = Cuts(line) + 1 => n = Len(line)
  <2> HIDE DEF k
  <2> QED BY <1>1, <1>3, <1>4, <1>6
<1>12. QED
  BY <1>6, <1>8, <1>9, <1>10, <1>11 DEF m

\* The first k pieces cut from a line, a message each.
Pieces(line, k) == [i \in 1..k |-> <<Piece(line, i)>>]

\* k pieces are the letters of k messages.
PiecesAre(line, k) ==
  FlattenSeq(FlattenSeq(Pieces(line, k))) = SubSeq(line, 1, k * maxMessageBytes)

\* The pieces are messages of a line each.
LEMMA PiecesTyped ==
  ASSUME NEW line \in Seq(Nat), NEW k \in 0..Cuts(line)
  PROVE  /\ Pieces(line, k) \in Seq(Lines)
         /\ FlattenSeq(Pieces(line, k)) \in Lines
<1>1. Cuts(line) \in Nat /\ k \in Nat
  BY CutsAre
<1>2. \A i \in 1..k : <<Piece(line, i)>> \in Lines
  <2> TAKE i \in 1..k
  <2>1. i \in 1..(Cuts(line) + 1)
    BY <1>1
  <2>2. Piece(line, i) \in Seq(Nat)
    BY <2>1, PieceIs
  <2>3. QED
    BY <2>2 DEF Lines
<1>3. Pieces(line, k) \in [1..k -> Lines]
  BY <1>2 DEF Pieces
<1>4. Pieces(line, k) \in Seq(Lines)
  BY <1>1, <1>3, SeqDef
<1>5. QED
  BY <1>4, FlattenTyped DEF Lines

\* The next piece goes on where the ones before end.
LEMMA OnePieceMore ==
  ASSUME NEW line \in Seq(Nat), NEW k \in Nat, k + 1 <= Cuts(line), PiecesAre(line, k)
  PROVE  PiecesAre(line, k + 1)
<1> DEFINE p == Pieces(line, k)
           q == Piece(line, k + 1)
<1>1. Cuts(line) \in Nat /\ k \in 0..Cuts(line) /\ k + 1 \in 1..(Cuts(line) + 1)
  BY CutsAre
<1>2. p \in Seq(Lines) /\ FlattenSeq(p) \in Lines
  BY <1>1, PiecesTyped
<1>3. q \in Seq(Nat) /\ q = SubSeq(line, k * maxMessageBytes + 1, (k + 1) * maxMessageBytes)
  <2>1. (k + 1) - 1 = k
    OBVIOUS
  <2>2. QED
    BY <1>1, <2>1, PieceIs
<1>4. Pieces(line, k + 1) = Append(p, <<q>>)
  <2>1. p = [i \in 1..k |-> <<Piece(line, i)>>]
    BY DEF Pieces
  <2>2. Len(p) = k
    <3>1. DOMAIN p = 1..k
      BY <2>1
    <3>2. QED
      BY <1>2, <3>1, LenProperties
  <2>3. \A i \in 1..(k + 1) : <<Piece(line, i)>> \in Lines
    <3> TAKE i \in 1..(k + 1)
    <3>1. i \in 1..(Cuts(line) + 1)
      BY <1>1
    <3>2. Piece(line, i) \in Seq(Nat)
      BY <3>1, PieceIs
    <3>3. QED
      BY <3>2 DEF Lines
  <2> HIDE DEF p
  <2>4. <<q>> \in Lines
    BY <1>3 DEF Lines
  <2>5. /\ Append(p, <<q>>) \in Seq(Lines)
        /\ Len(Append(p, <<q>>)) = k + 1
        /\ \A i \in 1..k : Append(p, <<q>>)[i] = p[i]
        /\ Append(p, <<q>>)[k + 1] = <<q>>
    BY <1>2, <2>2, <2>4, AppendProperties
  <2>6. \A i \in 1..k : p[i] = <<Piece(line, i)>>
    BY <2>1
  <2> DEFINE r == Append(p, <<q>>)
  <2>7. r = [i \in 1..(k + 1) |-> r[i]]
    <3> HIDE DEF r
    <3>1. r \in Seq(Lines) /\ Len(r) = k + 1
      BY <2>5 DEF r
    <3>2. r \in [1..(k + 1) -> Lines]
      BY <3>1, LenProperties
    <3>3. QED
      BY <3>2
  <2>8. \A i \in 1..(k + 1) : r[i] = <<Piece(line, i)>>
    <3>1. \A i \in 1..(k + 1) : i \in 1..k \/ i = k + 1
      OBVIOUS
    <3>2. QED
      BY <2>5, <2>6, <3>1
  <2> HIDE DEF r
  <2>9. r = Pieces(line, k + 1)
    BY <2>7, <2>8, Zenon DEF Pieces
  <2>10. QED
    BY <2>9 DEF r
<1> HIDE DEF p, q
<1>5. FlattenSeq(Pieces(line, k + 1)) = FlattenSeq(p) \o <<q>>
  <2>1. <<q>> \in Seq(Seq(Nat)) /\ p \in Seq(Seq(Seq(Nat)))
    BY <1>2, <1>3 DEF Lines
  <2>2. FlattenSeq(Append(p, <<q>>)) = FlattenSeq(p) \o <<q>>
    BY <2>1, FlattenAppend
  <2>3. QED
    BY <1>4, <2>2
<1>6. FlattenSeq(FlattenSeq(Pieces(line, k + 1))) = FlattenSeq(FlattenSeq(p)) \o q
  <2>1. <<q>> \in Seq(Seq(Nat)) /\ FlattenSeq(<<q>>) = q
    <3>1. q \in Seq(Nat)
      BY <1>3
    <3>2. FlattenSeq(<<q>>) = q
      BY <3>1, FlattenOne
    <3>3. QED
      BY <3>1, <3>2
  <2>2. FlattenSeq(p) \in Seq(Seq(Nat))
    BY <1>2 DEF Lines
  <2>3. FlattenSeq(FlattenSeq(p) \o <<q>>) = FlattenSeq(FlattenSeq(p)) \o FlattenSeq(<<q>>)
    BY <2>1, <2>2, FlattenConcat
  <2>4. QED
    BY <1>5, <2>1, <2>3
<1>7. FlattenSeq(FlattenSeq(p)) = SubSeq(line, 1, k * maxMessageBytes)
  BY DEF PiecesAre, p
<1>8. SubSeq(line, 1, k * maxMessageBytes)
        \o SubSeq(line, k * maxMessageBytes + 1, (k + 1) * maxMessageBytes)
      = SubSeq(line, 1, (k + 1) * maxMessageBytes)
  <2> DEFINE m == k * maxMessageBytes
             n == (k + 1) * maxMessageBytes
  <2>1. /\ maxMessageBytes \in Nat /\ Len(line) \in Nat /\ m \in Nat /\ n = m + maxMessageBytes
    BY SizesAssumption, LenProperties
  <2>2. n <= Cuts(line) * maxMessageBytes
    BY <1>1, <2>1
  <2>3. Cuts(line) * maxMessageBytes <= Len(line) /\ Cuts(line) * maxMessageBytes \in Nat
    BY <1>1, <2>1, CutsAre
  <2> HIDE DEF m, n
  <2>4. 1 \in 1..(Len(line) + 1) /\ m \in (1 - 1)..Len(line) /\ n \in m..Len(line)
    BY <2>1, <2>2, <2>3
  <2>5. SubSeq(line, 1, m) \o SubSeq(line, m + 1, n) = SubSeq(line, 1, n)
    BY <2>4, ConcatAdjacentSubSeq
  <2>6. QED
    BY <2>5 DEF m, n
<1>9. QED
  BY <1>3, <1>6, <1>7, <1>8 DEF PiecesAre

\* The pieces cut off are the line up to its rest.
LEMMA PiecesHold ==
  ASSUME NEW line \in Seq(Nat)
  PROVE  PiecesAre(line, Cuts(line))
<1> DEFINE bad == {k \in 0..Cuts(line) : ~PiecesAre(line, k)}
<1>1. Cuts(line) \in Nat
  BY CutsAre
<1>2. SUFFICES ASSUME bad # {} PROVE FALSE
  BY <1>1
<1>3. \E k \in bad : \A l \in bad : k <= l
  <2>1. bad \in SUBSET Nat
    BY <1>1
  <2> HIDE DEF bad
  <2>2. QED
    BY <1>2, <2>1, LeastExists
<1>4. PICK k \in bad : \A l \in bad : k <= l
  BY <1>3
<1>5. PiecesAre(line, 0)
  <2>1. Pieces(line, 0) = <<>>
    <3>1. 1..0 = {}
      OBVIOUS
    <3>2. Pieces(line, 0) \in Seq(Lines)
      BY <1>1, PiecesTyped
    <3>3. DOMAIN Pieces(line, 0) = {}
      BY <3>1 DEF Pieces
    <3>4. QED
      BY <3>2, <3>3, EmptySeq, LenProperties
  <2>2. SubSeq(line, 1, 0) = <<>>
    BY SubSeqEmpty, 0 \in Int, 1 \in Int
  <2>3. 0 * maxMessageBytes = 0
    BY SizesAssumption
  <2>4. QED
    BY <2>1, <2>2, <2>3, FlattenEmpty DEF PiecesAre
<1>6. k \in Nat /\ k \in 0..Cuts(line) /\ ~PiecesAre(line, k) /\ k # 0
  BY <1>1, <1>4, <1>5
<1>7. k - 1 \in 0..Cuts(line) /\ k - 1 \notin bad
  BY <1>1, <1>4, <1>6
<1>8. PiecesAre(line, k - 1)
  BY <1>7
<1>9. k - 1 \in Nat /\ (k - 1) + 1 = k /\ (k - 1) + 1 <= Cuts(line)
  BY <1>1, <1>6
<1>10. PiecesAre(line, (k - 1) + 1)
  <2> HIDE DEF bad
  <2> QED BY <1>8, <1>9, OnePieceMore
<1>11. QED
  BY <1>6, <1>9, <1>10

\* The state with the pieces of a line put behind its messages.
CutOf(s, line) ==
  IF Cuts(line) = 0 THEN s
  ELSE [Flush(s) EXCEPT !.parts = @ \o Pieces(line, Cuts(line))]

\* The state with room for the rest of the line.
RoomOf(c, rest) ==
  IF Size(c.current) + Len(rest) + 1 <= maxMessageBytes THEN c ELSE Flush(c)

\* AddLine, its two steps named.
LEMMA AddLineIs ==
  ASSUME NEW s, NEW line
  PROVE  AddLine(s, line) =
           [RoomOf(CutOf(s, line), Piece(line, Cuts(line) + 1))
              EXCEPT !.current = Append(@, Piece(line, Cuts(line) + 1))]
BY Zenon DEF AddLine, CutOf, RoomOf, Pieces

\* Cutting a line adds the letters of its pieces and no other.
LEMMA CutKeeps ==
  ASSUME NEW s \in Collected, NEW line \in Seq(Nat)
  PROVE  /\ CutOf(s, line) \in Collected
         /\ LettersOf(CutOf(s, line)) =
              LettersOf(s) \o SubSeq(line, 1, Cuts(line) * maxMessageBytes)
<1>1. Cuts(line) \in Nat
  BY CutsAre
<1>0. LettersOf(s) \in Seq(Nat)
  <2>1. FlattenSeq(FlattenSeq(s.parts)) \in Seq(Nat) /\ FlattenSeq(s.current) \in Seq(Nat)
    BY LettersTyped
  <2>2. QED
    BY <2>1, ConcatProperties DEF LettersOf
<1>2. CASE Cuts(line) = 0
  <2>1. 0 * maxMessageBytes = 0
    BY SizesAssumption
  <2>2. SubSeq(line, 1, 0) = <<>>
    BY SubSeqEmpty, 0 \in Int, 1 \in Int
  <2>3. SubSeq(line, 1, Cuts(line) * maxMessageBytes) = <<>>
    BY <1>2, <2>1, <2>2
  <2>4. CutOf(s, line) = s
    BY <1>2 DEF CutOf
  <2>5. LettersOf(s) \o <<>> = LettersOf(s)
    BY <1>0, ConcatEmptySeq
  <2>6. QED
    BY <2>3, <2>4, <2>5
<1>3. CASE Cuts(line) # 0
  <2> DEFINE f == Flush(s)
             p == Pieces(line, Cuts(line))
             q == f.parts \o p
  <2>1. f \in Collected /\ f.current = <<>> /\ FlattenSeq(FlattenSeq(f.parts)) = LettersOf(s)
    BY FlushKeeps
  <2>2. p \in Seq(Lines) /\ FlattenSeq(p) \in Lines
    BY <1>1, PiecesTyped
  <2>3. FlattenSeq(FlattenSeq(p)) = SubSeq(line, 1, Cuts(line) * maxMessageBytes)
    BY PiecesHold DEF PiecesAre
  <2>4. CutOf(s, line) = [f EXCEPT !.parts = q]
    BY <1>3, Zenon DEF CutOf
  <2> HIDE DEF f, p
  <2>5. f.parts \in Seq(Lines) /\ FlattenSeq(f.parts) \in Lines
    BY <2>1, LettersTyped DEF Collected
  <2>6. q \in Seq(Lines)
    BY <2>2, <2>5, ConcatProperties
  <2>7. FlattenSeq(q) = FlattenSeq(f.parts) \o FlattenSeq(p)
    <3>1. f.parts \in Seq(Seq(Seq(Nat))) /\ p \in Seq(Seq(Seq(Nat)))
      BY <2>2, <2>5 DEF Lines
    <3>2. QED
      BY <3>1, FlattenConcat
  <2>8. FlattenSeq(FlattenSeq(q)) = LettersOf(s) \o FlattenSeq(FlattenSeq(p))
    <3>1. FlattenSeq(f.parts) \in Seq(Seq(Nat)) /\ FlattenSeq(p) \in Seq(Seq(Nat))
      BY <2>2, <2>5 DEF Lines
    <3>2. FlattenSeq(FlattenSeq(f.parts) \o FlattenSeq(p))
            = FlattenSeq(FlattenSeq(f.parts)) \o FlattenSeq(FlattenSeq(p))
      BY <3>1, FlattenConcat
    <3>3. QED
      BY <2>1, <2>7, <3>2
  <2> HIDE DEF q
  <2>9. CutOf(s, line) \in Collected /\ CutOf(s, line).parts = q /\ CutOf(s, line).current = <<>>
    BY <2>1, <2>4, <2>6 DEF Collected
  <2>10. LettersOf(CutOf(s, line)) = FlattenSeq(FlattenSeq(q))
    <3>1. FlattenSeq(FlattenSeq(q)) \in Seq(Nat)
      BY <2>9, LettersTyped
    <3>2. LettersOf(CutOf(s, line)) = FlattenSeq(FlattenSeq(q)) \o <<>>
      BY <2>9, FlattenEmpty DEF LettersOf
    <3>3. QED
      BY <3>1, <3>2, ConcatEmptySeq
  <2>11. QED
    BY <2>3, <2>8, <2>9, <2>10
<1>4. QED
  BY <1>2, <1>3

\* Associative, of letters.
LEMMA LettersJoin ==
  \A s, t, u \in Seq(Nat) : (s \o t) \o u = s \o (t \o u)
BY Associative

\* A line more is the letters of it more: whether it is cut, fits, or begins a
\* message.
LEMMA AddLineKeeps ==
  ASSUME NEW s \in Collected, NEW line \in Seq(Nat)
  PROVE  AddLine(s, line) \in Collected /\ LettersOf(AddLine(s, line)) = LettersOf(s) \o line
<1> DEFINE max == Cuts(line) * maxMessageBytes
           first == SubSeq(line, 1, max)
           rest == Piece(line, Cuts(line) + 1)
           c == CutOf(s, line)
           r == RoomOf(c, rest)
           current == Append(r.current, rest)
<1>1. Cuts(line) \in Nat /\ Cuts(line) + 1 \in 1..(Cuts(line) + 1)
  BY CutsAre
<1>2. rest \in Seq(Nat) /\ rest = SubSeq(line, max + 1, Len(line))
  BY <1>1, PieceIs
<1>3. first \o rest = line /\ first \in Seq(Nat)
  <2>1. max <= Len(line) /\ max \in Nat /\ Len(line) \in Nat
    BY <1>1, CutsAre, SizesAssumption, LenProperties
  <2> HIDE DEF max, rest
  <2>2. 1 \in 1..(Len(line) + 1) /\ max \in (1 - 1)..Len(line) /\ Len(line) \in max..Len(line)
    BY <2>1
  <2>3. first \o SubSeq(line, max + 1, Len(line)) = SubSeq(line, 1, Len(line))
    BY <2>2, ConcatAdjacentSubSeq
  <2>4. \A i \in 1..max : line[i] \in Nat
    <3>1. \A i \in 1..max : i \in 1..Len(line)
      BY <2>1
    <3>2. QED
      BY <3>1, LenProperties
  <2>5. first \in Seq(Nat)
    BY <2>1, <2>4, SubSeqProperties
  <2>6. QED
    BY <1>2, <2>3, <2>5, SubSeqFull
<1>4. c \in Collected /\ LettersOf(c) = LettersOf(s) \o first
  BY CutKeeps
<1>5. r \in Collected /\ LettersOf(r) = LettersOf(c)
  <2> HIDE DEF c, rest
  <2>1. r = c \/ r = Flush(c)
    BY DEF RoomOf
  <2>2. QED
    BY <1>4, <2>1, FlushKeeps
<1>6. AddLine(s, line) = [r EXCEPT !.current = current]
  BY AddLineIs, Zenon
<1> HIDE DEF c, r, rest, first, max
<1>7. r.current \in Seq(Seq(Nat)) /\ r.parts \in Seq(Lines)
  BY <1>5 DEF Collected, Lines
<1>8. current \in Lines
  BY <1>2, <1>7, AppendProperties DEF Lines
<1>9. FlattenSeq(current) = FlattenSeq(r.current) \o rest
  BY <1>2, <1>7, FlattenAppend
<1> HIDE DEF current
<1>10. /\ AddLine(s, line) \in Collected
       /\ AddLine(s, line).parts = r.parts /\ AddLine(s, line).current = current
  BY <1>5, <1>6, <1>8 DEF Collected
<1>11. /\ FlattenSeq(FlattenSeq(r.parts)) \in Seq(Nat)
       /\ FlattenSeq(r.current) \in Seq(Nat)
       /\ FlattenSeq(FlattenSeq(s.parts)) \in Seq(Nat)
       /\ FlattenSeq(s.current) \in Seq(Nat)
  BY <1>5, LettersTyped
<1>12. LettersOf(AddLine(s, line)) =
         FlattenSeq(FlattenSeq(r.parts)) \o (FlattenSeq(r.current) \o rest)
  BY <1>9, <1>10, Zenon DEF LettersOf
<1>13. LettersOf(AddLine(s, line)) = LettersOf(r) \o rest
  <2> DEFINE a == FlattenSeq(FlattenSeq(r.parts))
             b == FlattenSeq(r.current)
  <2>1. a \in Seq(Nat) /\ b \in Seq(Nat) /\ LettersOf(r) = a \o b
    BY <1>11, Zenon DEF LettersOf
  <2>2. LettersOf(AddLine(s, line)) = a \o (b \o rest)
    BY <1>12
  <2> HIDE DEF a, b
  <2>3. (a \o b) \o rest = a \o (b \o rest)
    <3>1. a \in Seq(Nat) /\ b \in Seq(Nat) /\ rest \in Seq(Nat)
      BY <1>2, <2>1
    <3>2. QED
      BY <3>1, LettersJoin, Zenon
  <2>4. QED
    BY <2>1, <2>2, <2>3
<1>14. (LettersOf(s) \o first) \o rest = LettersOf(s) \o (first \o rest)
  <2>1. LettersOf(s) \in Seq(Nat)
    <3> DEFINE a == FlattenSeq(FlattenSeq(s.parts))
               b == FlattenSeq(s.current)
    <3>1. a \in Seq(Nat) /\ b \in Seq(Nat) /\ LettersOf(s) = a \o b
      BY <1>11, Zenon DEF LettersOf
    <3> HIDE DEF a, b
    <3>2. QED
      BY <3>1, ConcatProperties
  <2> DEFINE a == LettersOf(s)
  <2>2. a \in Seq(Nat) /\ first \in Seq(Nat) /\ rest \in Seq(Nat)
    BY <1>2, <1>3, <2>1
  <2> HIDE DEF a
  <2>3. (a \o first) \o rest = a \o (first \o rest)
    BY <2>2, LettersJoin, Zenon
  <2>4. QED
    BY <2>3 DEF a
<1>15. QED
  BY <1>3, <1>4, <1>5, <1>10, <1>13, <1>14

\* f[n] is what the first n lines of text make.
Made(f, text, n) ==
  f[n] \in Collected /\ LettersOf(f[n]) = FlattenSeq(SubSeq(text, 1, n))

\* No line has been added.
LEMMA StartIs == Start \in Collected /\ LettersOf(Start) = <<>>
<1>1. <<>> \in Lines /\ <<>> \in Seq(Lines) /\ <<>> \in Seq(Nat)
  BY DEF Lines
<1>2. Start.parts = <<>> /\ Start.current = <<>> /\ Start \in Collected
  BY <1>1 DEF Start, Collected
<1>3. LettersOf(Start) = <<>> \o <<>>
  BY <1>2, FlattenEmpty DEF LettersOf
<1>4. QED
  BY <1>1, <1>2, <1>3, ConcatEmptySeq

\* The induction over the lines of a text.
LEMMA OneLineMore ==
  ASSUME NEW text \in Lines, NEW f, NEW n \in 1..Len(text),
         f[n] = AddLine(f[n - 1], text[n]), Made(f, text, n - 1)
  PROVE  Made(f, text, n)
<1>1. Len(text) \in Nat /\ n \in Nat /\ n - 1 \in Nat /\ text[n] \in Seq(Nat)
  BY LenProperties DEF Lines
<1>2. f[n - 1] \in Collected /\ LettersOf(f[n - 1]) = FlattenSeq(SubSeq(text, 1, n - 1))
  BY DEF Made
<1>3. f[n] \in Collected /\ LettersOf(f[n]) = LettersOf(f[n - 1]) \o text[n]
  BY <1>1, <1>2, AddLineKeeps
<1> DEFINE before == SubSeq(text, 1, n - 1)
           upTo == SubSeq(text, 1, n)
<1>4. before \in Seq(Seq(Nat))
  <2>1. \A i \in 1..(n - 1) : text[i] \in Seq(Nat)
    <3>1. \A i \in 1..(n - 1) : i \in 1..Len(text)
      BY <1>1
    <3>2. QED
      BY <3>1, LenProperties DEF Lines
  <2>2. 1 \in Int /\ n - 1 \in Int
    BY <1>1
  <2>3. QED
    BY <2>1, <2>2, SubSeqProperties
<1>5. upTo = Append(before, text[n])
  <2>1. upTo = before \o SubSeq(text, n, n)
    <3>1. /\ 1 \in 1..(Len(text) + 1) /\ n - 1 \in (1 - 1)..Len(text) /\ n \in (n - 1)..Len(text)
          /\ (n - 1) + 1 = n
      BY <1>1
    <3>2. QED
      BY <3>1, ConcatAdjacentSubSeq DEF Lines
  <2>2. SubSeq(text, n, n) = <<text[n]>>
    <3> DEFINE one == SubSeq(text, n, n)
    <3>1. n \in Int /\ \A i \in n..n : text[i] \in Seq(Nat)
      <4>1. \A i \in n..n : i = n
        BY <1>1
      <4>2. QED
        BY <1>1, <4>1
    <3>2. /\ one \in Seq(Seq(Nat)) /\ Len(one) = (IF n <= n THEN n - n + 1 ELSE 0)
          /\ \A i \in 1..(n - n + 1) : one[i] = text[n + i - 1]
      BY <3>1, SubSeqProperties
    <3> HIDE DEF one
    <3>3. one \in Seq(Seq(Nat)) /\ Len(one) = 1 /\ one[1] = text[n]
      BY <1>1, <3>2
    <3>4. DOMAIN one = 1..1 /\ one = [i \in 1..1 |-> one[i]]
      BY <3>3, LenProperties
    <3>5. one = <<one[1]>>
      <4>1. \A i \in 1..1 : one[i] = one[1]
        OBVIOUS
      <4>2. [i \in 1..1 |-> one[i]] = <<one[1]>>
        BY <4>1
      <4>3. QED
        BY <3>4, <4>2
    <3>6. QED
      BY <3>3, <3>5 DEF one
  <2>3. QED
    BY <1>1, <1>4, <2>1, <2>2, AppendIsConcat
<1> HIDE DEF before, upTo
<1>6. FlattenSeq(upTo) = FlattenSeq(before) \o text[n]
  BY <1>1, <1>4, <1>5, FlattenAppend
<1>7. QED
  BY <1>2, <1>3, <1>6 DEF Made, before, upTo

\* What AddLine makes of all the lines of a text holds its letters.
LEMMA CollectedKeeps ==
  ASSUME NEW text \in Lines
  PROVE  LET s == FoldLeft(AddLine, Start, text)
         IN  s \in Collected /\ LettersOf(s) = FlattenSeq(text)
<1>1. PICK f : /\ f[0] = Start
               /\ \A n \in 1..Len(text) : f[n] = AddLine(f[n - 1], text[n])
               /\ FoldLeft(AddLine, Start, text) = f[Len(text)]
  BY CollectedIs DEF Lines
<1>2. Len(text) \in Nat
  BY LenProperties DEF Lines
<1>3. Made(f, text, 0)
  <2>1. SubSeq(text, 1, 0) = <<>>
    BY SubSeqEmpty, 0 \in Int, 1 \in Int
  <2>2. QED
    BY <1>1, <2>1, StartIs, FlattenEmpty DEF Made
<1>4. \A n \in 0..Len(text) : Made(f, text, n)
  <2> DEFINE bad == {n \in 0..Len(text) : ~Made(f, text, n)}
  <2>1. SUFFICES ASSUME bad # {} PROVE FALSE
    OBVIOUS
  <2>2. \E n \in bad : \A m \in bad : n <= m
    <3>1. bad \in SUBSET Nat
      BY <1>2
    <3> HIDE DEF bad
    <3>2. QED
      BY <2>1, <3>1, LeastExists
  <2>3. PICK n \in bad : \A m \in bad : n <= m
    BY <2>2
  <2>4. n \in 0..Len(text) /\ ~Made(f, text, n) /\ n # 0
    BY <1>3, <2>3
  <2>5. n \in 1..Len(text) /\ n - 1 \in 0..Len(text) /\ n - 1 \notin bad
    BY <1>2, <2>3, <2>4
  <2>6. Made(f, text, n - 1)
    BY <2>5
  <2>7. f[n] = AddLine(f[n - 1], text[n])
    BY <1>1, <2>5
  <2>8. Made(f, text, n)
    <3> HIDE DEF bad
    <3> QED BY <2>5, <2>6, <2>7, OneLineMore
  <2>9. QED
    BY <2>4, <2>8
<1>5. Made(f, text, Len(text))
  BY <1>2, <1>4
<1>6. SubSeq(text, 1, Len(text)) = text
  BY SubSeqFull DEF Lines
<1>7. QED
  BY <1>1, <1>5, <1>6 DEF Made

\* split loses no letter, and doubles none.
LEMMA SplitKeeps ==
  ASSUME NEW lines \in Lines
  PROVE  /\ split(lines) \in Seq(Lines)
         /\ Letters(FlattenSeq(split(lines))) = Letters(lines)
<1> DEFINE text == TrimSpace(lines)
           s == FoldLeft(AddLine, Start, text)
<1>1. text \in Lines /\ FlattenSeq(text) = FlattenSeq(lines)
  BY TrimmedKeeps
<1> HIDE DEF text
<1>2. /\ text = <<>> => split(lines) = <<>>
      /\ text # <<>> /\ Size(text) - 1 <= maxMessageBytes => split(lines) = <<text>>
      /\ text # <<>> /\ ~(Size(text) - 1 <= maxMessageBytes) => split(lines) = Flush(s).parts
  BY Zenon DEF split, Start, text
<1>3. CASE text = <<>>
  <2>1. split(lines) = <<>> /\ <<>> \in Seq(Lines)
    BY <1>2, <1>3
  <2>2. QED
    BY <1>1, <1>3, <2>1, FlattenEmpty DEF Letters
<1>4. CASE text # <<>> /\ Size(text) - 1 <= maxMessageBytes
  <2>1. split(lines) = <<text>>
    BY <1>2, <1>4
  <2>2. <<text>> \in Seq(Lines)
    BY <1>1
  <2>3. FlattenSeq(<<text>>) = text
    BY <1>1, FlattenOne DEF Lines
  <2>4. QED
    BY <1>1, <2>1, <2>2, <2>3 DEF Letters
<1>5. CASE text # <<>> /\ ~(Size(text) - 1 <= maxMessageBytes)
  <2>1. split(lines) = Flush(s).parts
    BY <1>2, <1>5
  <2>2. s \in Collected /\ LettersOf(s) = FlattenSeq(text)
    BY <1>1, CollectedKeeps
  <2> HIDE DEF s
  <2>3. Flush(s) \in Collected /\ FlattenSeq(FlattenSeq(Flush(s).parts)) = LettersOf(s)
    BY <2>2, FlushKeeps
  <2>4. Flush(s).parts \in Seq(Lines)
    BY <2>3 DEF Collected
  <2>5. QED
    BY <1>1, <2>1, <2>2, <2>3, <2>4 DEF Letters
<1>6. QED
  BY <1>3, <1>4, <1>5

-----------------------------------------------------------------------------
(* What is posted                                                           *)

\* What is left of a line that is cut is a line.
LEMMA CutIsTyped ==
  ASSUME NEW line \in Seq(Nat), NEW room \in Int
  PROVE  SubSeq(line, 1, Min({Len(line), room})) \in Seq(Nat)
<1> DEFINE n == Min({Len(line), room})
<1>1. Len(line) \in Nat /\ \A j \in 1..Len(line) : line[j] \in Nat
  BY LenProperties
<1>2. n \in {Len(line), room} /\ \A y \in {Len(line), room} : n <= y
  <2>1. n = CHOOSE x \in {Len(line), room} : \A y \in {Len(line), room} : x <= y
    BY DEF Min
  <2>2. \E x \in {Len(line), room} : \A y \in {Len(line), room} : x <= y
    BY <1>1
  <2> HIDE DEF n
  <2>3. QED
    BY <2>1, <2>2, Zenon
<1> HIDE DEF n
<1>3. n \in Int /\ 1 \in Int /\ \A j \in 1..n : line[j] \in Nat
  BY <1>1, <1>2
<1>4. SubSeq(line, 1, n) \in Seq(Nat)
  BY <1>3, SubSeqProperties
<1>5. QED
  BY <1>4 DEF n

\* What sroiaaa-notify reads of lines is lines.
LEMMA ReadInputTyped ==
  ASSUME NEW lines \in Lines
  PROVE  ReadInput(lines) \in Lines
<1> DEFINE Before(i) == Size(SubSeq(lines, 1, i - 1))
           B == {i \in DOMAIN lines : Before(i) < MaxInput}
           begun == Cardinality(B)
           cut(i) == SubSeq(lines[i], 1, Min({Len(lines[i]), MaxInput - Before(i)}))
           read == [i \in 1..begun |-> cut(i)]
<1>1. /\ Len(lines) \in Nat /\ DOMAIN lines = 1..Len(lines) /\ MaxInput \in Nat
      /\ \A i \in 1..Len(lines) : lines[i] \in Seq(Nat)
  BY SizesAssumption, LenProperties DEF Lines
<1>2. begun \in Nat /\ begun <= Len(lines)
  <2>1. IsFiniteSet(1..Len(lines)) /\ Cardinality(1..Len(lines)) = Len(lines)
    <3>1. 1 \in Int /\ Len(lines) \in Int
      BY <1>1
    <3>2. /\ IsFiniteSet(1..Len(lines))
          /\ Cardinality(1..Len(lines)) = IF 1 > Len(lines) THEN 0 ELSE Len(lines) - 1 + 1
      BY <3>1, FS_Interval
    <3>3. QED
      BY <1>1, <3>2
  <2>2. B \subseteq 1..Len(lines)
    BY <1>1
  <2> HIDE DEF B
  <2>3. IsFiniteSet(B) /\ Cardinality(B) <= Cardinality(1..Len(lines))
    BY <2>1, <2>2, FS_Subset
  <2>4. Cardinality(B) \in Nat
    BY <2>3, FS_CardinalityType
  <2>5. QED
    BY <2>1, <2>3, <2>4
<1> HIDE DEF begun
<1>3. ASSUME NEW i \in 1..begun PROVE cut(i) \in Seq(Nat)
  <2>1. i \in 1..Len(lines) /\ i - 1 \in Int /\ i - 1 <= Len(lines)
    BY <1>1, <1>2
  <2>2. lines[i] \in Seq(Nat)
    BY <1>1, <2>1
  <2> DEFINE before == SubSeq(lines, 1, i - 1)
  <2>3. before \in Seq(Seq(Nat))
    <3>1. \A j \in 1..(i - 1) : lines[j] \in Seq(Nat)
      <4>1. \A j \in 1..(i - 1) : j \in 1..Len(lines)
        BY <1>1, <2>1
      <4>2. QED
        BY <1>1, <4>1
    <3>2. QED
      BY <2>1, <3>1, 1 \in Int, SubSeqProperties
  <2> HIDE DEF before
  <2>4. Size(before) \in Nat
    <3> DEFINE a == Len(before)
               b == Len(FlattenSeq(before))
    <3>1. a \in Nat
      BY <2>3, LenProperties
    <3>2. FlattenSeq(before) \in Seq(Nat)
      BY <2>3, FlattenTyped
    <3>3. b \in Nat
      BY <3>2, LenProperties
    <3>4. Size(before) = b + a
      BY Zenon DEF Size
    <3> HIDE DEF a, b
    <3>5. QED
      BY <3>1, <3>3, <3>4
  <2> DEFINE room == MaxInput - Size(before)
  <2>5. room \in Int
    BY <1>1, <2>4
  <2> HIDE DEF room
  <2>6. SubSeq(lines[i], 1, Min({Len(lines[i]), room})) \in Seq(Nat)
    BY <2>2, <2>5, CutIsTyped
  <2>7. QED
    BY <2>6 DEF room, before
<1>4. read \in Seq(Seq(Nat))
  <2> HIDE DEF cut
  <2>1. read \in [1..begun -> Seq(Nat)]
    BY <1>3
  <2> HIDE DEF read
  <2>2. QED
    BY <1>2, <2>1, SeqDef
<1>5. ReadInput(lines) = read
  BY Zenon DEF ReadInput, read, cut, begun, B, Before
<1> HIDE DEF read
<1>6. QED
  BY <1>4, <1>5 DEF Lines

\* What is posted is lines.
LEMMA MessageTyped ==
  ASSUME NEW title \in Seq(Nat), NEW input \in Lines
  PROVE  Message(title, input) \in Lines
<1> DEFINE text == TrimSpace(ReadInput(input))
<1>1. text \in Lines
  BY ReadInputTyped, TrimmedKeeps
<1>2. Message(title, input) = IF text = <<>> THEN <<>> ELSE <<title>> \o text
  BY Zenon DEF Message
<1> HIDE DEF text
<1>3. <<title>> \o text \in Lines
  <2>1. <<title>> \in Seq(Seq(Nat)) /\ text \in Seq(Seq(Nat))
    BY <1>1 DEF Lines
  <2>2. QED
    BY <2>1, ConcatProperties DEF Lines
<1>4. <<>> \in Lines
  BY DEF Lines
<1>5. QED
  BY <1>2, <1>3, <1>4

\* The messages that arrived and those to send are what an answer was split
\* into, in its order.
PostIsOfTheAnswer ==
  run.pc = "post" =>
    /\ channel \in Seq(Lines) /\ parts \in Seq(Lines)
    /\ \E answer \in Answers :
         LET text == Message(Title(run.section), answer)
         IN  text # <<>> /\ channel \o parts = split(text)

\* A section's title is a line, and so is each of an answer.
LEMMA TextTyped ==
  ASSUME NEW r \in RunStates, NEW answer \in Answers
  PROVE  Message(Title(r.section), answer) \in Lines
<1>1. Title(r.section) \in Seq(Nat)
  BY DEF RunStates, Title
<1>2. answer \in Lines
  BY AnswersAssumption DEF Lines
<1>3. QED
  BY <1>1, <1>2, MessageTyped

\* A section that is asked leaves its messages to post and an empty channel.
LEMMA AskSectionSplits ==
  ASSUME TypeOK, AskSection
  PROVE  PostIsOfTheAnswer' /\ run'.posted = run.posted
<1>1. PICK answer \in Answers :
        LET text == Message(Title(run.section), answer)
        IN  IF run.dry \/ text = <<>>
            THEN run' = Onward(run) /\ parts' = <<>>
            ELSE run' = [run EXCEPT !.pc = "post"] /\ parts' = split(text)
  BY DEF AskSection
<1> DEFINE text == Message(Title(run.section), answer)
<1>2. run \in RunStates /\ channel' = <<>>
  BY DEF AskSection, TypeOK
<1>3. text \in Lines
  BY <1>2, TextTyped
<1> HIDE DEF text
<1>4. CASE run.dry \/ text = <<>>
  <2>1. run' = Onward(run)
    BY <1>1, <1>4 DEF text
  <2>2. run'.posted = run.posted /\ run'.pc # "post"
    BY <1>2, <2>1 DEF Onward, RunStates
  <2>3. QED
    BY <2>2 DEF PostIsOfTheAnswer
<1>5. CASE ~(run.dry \/ text = <<>>)
  <2>1. run' = [run EXCEPT !.pc = "post"] /\ parts' = split(text)
    BY <1>1, <1>5 DEF text
  <2>2. run'.posted = run.posted /\ run'.section = run.section
    BY <1>2, <2>1 DEF RunStates
  <2>3. parts' \in Seq(Lines) /\ channel' \in Seq(Lines)
    BY <1>2, <1>3, <2>1, SplitKeeps
  <2>4. channel' \o parts' = split(text)
    BY <1>2, <2>1, <2>3, ConcatEmptySeq
  <2>5. text # <<>> /\ text = Message(Title(run'.section), answer)
    BY <1>5, <2>2 DEF text
  <2>6. PostIsOfTheAnswer'
    BY <2>3, <2>4, <2>5 DEF PostIsOfTheAnswer
  <2>7. QED
    BY <2>2, <2>6
<1>6. QED
  BY <1>4, <1>5

\* A message that arrives goes from the messages to send to those that came.
LEMMA ArrivesInOrder ==
  ASSUME NEW c \in Seq(Lines), NEW p \in Seq(Lines), p # <<>>
  PROVE  /\ Append(c, Head(p)) \in Seq(Lines) /\ Tail(p) \in Seq(Lines)
         /\ Append(c, Head(p)) \o Tail(p) = c \o p
         /\ Len(p) = 1 => Append(c, Head(p)) = c \o p
<1>1. Head(p) \in Lines /\ Tail(p) \in Seq(Lines) /\ <<Head(p)>> \o Tail(p) = p
  BY HeadTailProperties
<1>2. Append(c, Head(p)) \in Seq(Lines) /\ Append(c, Head(p)) = c \o <<Head(p)>>
  BY <1>1, AppendProperties, AppendIsConcat
<1>3. (c \o <<Head(p)>>) \o Tail(p) = c \o (<<Head(p)>> \o Tail(p))
  BY <1>1, ConcatAssociative
<1>4. Append(c, Head(p)) \o Tail(p) = c \o p
  BY <1>1, <1>2, <1>3
<1>5. Len(p) = 1 => Tail(p) = <<>>
  <2>1. Len(Tail(p)) = Len(p) - 1
    BY HeadTailProperties
  <2>2. Len(p) = 1 => Len(Tail(p)) = 0
    BY <2>1
  <2>3. QED
    BY <1>1, <2>2, EmptySeq
<1>6. QED
  BY <1>1, <1>2, <1>4, <1>5, ConcatEmptySeq

\* The step PostedIsInTheChannel speaks of.
PostsWhole ==
  run'.posted > run.posted =>
    /\ run'.posted = run.posted + 1
    /\ \E answer \in Answers :
         LET text == Message(Title(run.section), answer)
         IN  text # <<>> /\ Letters(FlattenSeq(channel')) = Letters(text)

\* A message that arrives keeps the messages of the section; the last one
\* completes it.
LEMMA PartPostedKeeps ==
  ASSUME TypeOK, PostIsOfTheAnswer, PartPosted
  PROVE  PostIsOfTheAnswer' /\ PostsWhole
<1>1. /\ run \in RunStates /\ run.pc = "post" /\ parts # <<>>
      /\ channel' = Append(channel, Head(parts)) /\ parts' = Tail(parts)
      /\ run' = IF Len(parts) = 1 THEN Posted(run) ELSE run
  BY DEF TypeOK, PartPosted, Arrives
<1>2. channel \in Seq(Lines) /\ parts \in Seq(Lines)
  BY <1>1 DEF PostIsOfTheAnswer
<1>3. PICK answer \in Answers :
        LET text == Message(Title(run.section), answer)
        IN  text # <<>> /\ channel \o parts = split(text)
  BY <1>1 DEF PostIsOfTheAnswer
<1> DEFINE text == Message(Title(run.section), answer)
<1>4. text # <<>> /\ channel \o parts = split(text)
  BY <1>3
<1>5. text \in Lines
  BY <1>1, TextTyped
<1> HIDE DEF text
<1>6. /\ channel' \in Seq(Lines) /\ parts' \in Seq(Lines)
      /\ channel' \o parts' = channel \o parts
      /\ Len(parts) = 1 => channel' = channel \o parts
  BY <1>1, <1>2, ArrivesInOrder
<1>7. CASE Len(parts) = 1
  <2>1. run' = Posted(run) /\ channel' = split(text)
    BY <1>1, <1>4, <1>6, <1>7
  <2>2. run'.posted = run.posted + 1 /\ run'.pc # "post"
    BY <1>1, <2>1 DEF Posted, Onward, RunStates
  <2>3. Letters(FlattenSeq(channel')) = Letters(text)
    BY <1>5, <2>1, SplitKeeps
  <2>4. PostsWhole
    BY <1>4, <2>2, <2>3 DEF PostsWhole, text
  <2>5. QED
    BY <2>2, <2>4 DEF PostIsOfTheAnswer
<1>8. CASE Len(parts) # 1
  <2>1. run' = run
    BY <1>1, <1>8
  <2>2. channel' \o parts' = split(text)
    BY <1>4, <1>6
  <2>3. PostIsOfTheAnswer'
    BY <1>4, <1>6, <2>1, <2>2 DEF PostIsOfTheAnswer, text
  <2>4. run.posted \in Nat
    BY <1>1 DEF RunStates
  <2>5. PostsWhole
    BY <2>1, <2>4 DEF PostsWhole
  <2>6. QED
    BY <2>3, <2>5
<1>9. QED
  BY <1>7, <1>8

\* The other steps post nothing.
LEMMA OthersPostNothing ==
  ASSUME TypeOK, PostIsOfTheAnswer,
         \/ CronRuns \/ RunByHand \/ SkipSection \/ PartFails \/ WriteReceipt
         \/ Killed \/ Check \/ ReceiptLost \/ Tick \/ UNCHANGED vars
  PROVE  PostIsOfTheAnswer' /\ ~(run'.posted > run.posted)
<1>1. run \in RunStates /\ run.posted \in Nat
  BY DEF TypeOK, RunStates
<1>2. CASE CronRuns \/ RunByHand
  <2>1. run'.pc = "ask" /\ run'.posted = 0
    BY <1>2 DEF CronRuns, RunByHand, Begin, NoRun
  <2>2. QED
    BY <1>1, <2>1 DEF PostIsOfTheAnswer
<1>3. CASE SkipSection \/ PartFails
  <2>1. run' = Onward(run)
    BY <1>3 DEF SkipSection, PartFails
  <2>2. run'.posted = run.posted /\ run'.pc # "post"
    BY <1>1, <2>1 DEF Onward, RunStates
  <2>3. QED
    BY <1>1, <2>2 DEF PostIsOfTheAnswer
<1>4. CASE WriteReceipt \/ Killed
  <2>1. run' = NoRun
    BY <1>4 DEF WriteReceipt, Killed, Ends
  <2>2. run'.posted = 0 /\ run'.pc = "idle"
    BY <2>1 DEF NoRun
  <2>3. QED
    BY <1>1, <2>2 DEF PostIsOfTheAnswer
<1>5. CASE Check \/ ReceiptLost \/ Tick \/ UNCHANGED vars
  <2>1. channel' = channel /\ parts' = parts
    BY <1>5 DEF Check, ReceiptLost, Tick, vars
  <2>2. run' = run \/ run' = [run EXCEPT !.age = @ + 1]
    BY <1>5 DEF Check, ReceiptLost, Tick, vars
  <2>3. run'.pc = run.pc /\ run'.section = run.section /\ run'.posted = run.posted
    BY <1>1, <2>2 DEF RunStates
  <2>4. PostIsOfTheAnswer'
    BY <2>1, <2>3 DEF PostIsOfTheAnswer
  <2>5. QED
    BY <1>1, <2>3, <2>4
<1>6. QED
  BY <1>2, <1>3, <1>4, <1>5

\* Every step keeps them and counts no section that is not whole.
LEMMA StepPostsWhole ==
  ASSUME TypeOK, PostIsOfTheAnswer, [Next]_vars
  PROVE  PostIsOfTheAnswer' /\ PostsWhole
<1>1. CASE AskSection
  <2>1. run.posted \in Nat
    BY DEF TypeOK, RunStates
  <2>2. QED
    BY <1>1, <2>1, AskSectionSplits DEF PostsWhole
<1>2. CASE PartPosted
  BY <1>2, PartPostedKeeps
<1>3. CASE ~AskSection /\ ~PartPosted
  <2>1. \/ CronRuns \/ RunByHand \/ SkipSection \/ PartFails \/ WriteReceipt
        \/ Killed \/ Check \/ ReceiptLost \/ Tick \/ UNCHANGED vars
    BY <1>3 DEF Next, RunStep
  <2>2. PostIsOfTheAnswer' /\ ~(run'.posted > run.posted)
    BY <2>1, OthersPostNothing
  <2>3. QED
    BY <2>2 DEF PostsWhole
<1>4. QED
  BY <1>1, <1>2, <1>3

\* What zoom-digest.sh counts as posted is in the channel as sroiaaa-notify
\* read it, for any sizes and answers: split loses no letter, and Post sends
\* each part once and in order.
THEOREM PostedIsWhole == Spec => PostedIsInTheChannel
<1>1. Init => PostIsOfTheAnswer
  BY DEF Init, NoRun, PostIsOfTheAnswer
<1>2. TypeOK /\ PostIsOfTheAnswer /\ [Next]_vars => PostIsOfTheAnswer'
  BY StepPostsWhole
<1>3. Spec => []TypeOK
  BY Invariance, PTL DEF IInv
<1>4. Spec => []PostIsOfTheAnswer
  BY <1>1, <1>2, <1>3, PTL DEF Spec
<1>5. TypeOK /\ PostIsOfTheAnswer /\ [Next]_vars => [PostsWhole]_vars
  BY StepPostsWhole
<1>6. Spec => [][PostsWhole]_vars
  BY <1>3, <1>4, <1>5, PTL DEF Spec
<1>7. [PostsWhole]_vars <=>
        [run'.posted > run.posted =>
           /\ run'.posted = run.posted + 1
           /\ \E answer \in Answers :
                LET text == Message(Title(run.section), answer)
                IN  text # <<>> /\ Letters(FlattenSeq(channel')) = Letters(text)]_vars
  BY DEF PostsWhole
<1>8. QED
  BY <1>6, <1>7, PTL DEF PostedIsInTheChannel

-----------------------------------------------------------------------------
(* No message is longer than the limit                                      *)

\* A message ends without a newline.
MessageFits(message) == Size(message) - 1 <= maxMessageBytes

MessagesFit(messages) == \A i \in DOMAIN messages : MessageFits(messages[i])

\* Sizes are numbers.
LEMMA SizeIs ==
  ASSUME NEW lines \in Lines
  PROVE  /\ Size(lines) = Len(FlattenSeq(lines)) + Len(lines)
         /\ Len(FlattenSeq(lines)) \in Nat /\ Len(lines) \in Nat
<1>1. Len(lines) \in Nat
  BY LenProperties DEF Lines
<1>2. FlattenSeq(lines) \in Seq(Nat)
  BY FlattenTyped DEF Lines
<1>3. Len(FlattenSeq(lines)) \in Nat
  BY <1>2, LenProperties
<1>4. QED
  BY <1>1, <1>3, Zenon DEF Size

\* Trimming makes a text no longer.
LEMMA TrimRightFits ==
  ASSUME NEW lines \in Lines, MessageFits(lines)
  PROVE  MessageFits(TrimRight(lines))
<1> DEFINE t == TrimRight(lines)
<1>1. t \in Lines /\ FlattenSeq(t) = FlattenSeq(lines)
  BY TrimmedKeeps
<1>2. Len(t) <= Len(lines)
  <2>1. CASE Inked(lines) = {}
    <3>1. t = <<>> /\ Len(<<>>) = 0
      BY <2>1 DEF TrimRight
    <3>2. QED
      BY <3>1, SizeIs
  <2>2. CASE Inked(lines) # {}
    <3> DEFINE F == Inked(lines)
               n == Max(F)
    <3>1. F \in SUBSET (1..Len(lines)) /\ Len(lines) \in Nat
      BY LenProperties DEF Inked, Lines
    <3>2. n \in F
      <4>1. \E i \in F : \A j \in F : i >= j
        BY <2>2, <3>1, GreatestExists
      <4>2. QED
        BY <4>1, Zenon DEF Max
    <3>3. t = SubSeq(lines, 1, n)
      BY <2>2 DEF TrimRight
    <3> HIDE DEF F, n, t
    <3>4. n \in 1..Len(lines)
      BY <3>1, <3>2
    <3>5. Len(SubSeq(lines, 1, n)) = n
      <4>1. 1 \in Int /\ n \in Int /\ 1 <= n /\ \A i \in 1..n : lines[i] \in Seq(Nat)
        <5>1. \A i \in 1..n : i \in 1..Len(lines)
          BY <3>1, <3>4
        <5>2. QED
          BY <3>1, <3>4, <5>1, LenProperties DEF Lines
      <4>2. Len(SubSeq(lines, 1, n)) = IF 1 <= n THEN n - 1 + 1 ELSE 0
        BY <4>1, SubSeqProperties
      <4>3. QED
        BY <4>1, <4>2
    <3>6. QED
      BY <3>1, <3>3, <3>4, <3>5
  <2>3. QED
    BY <2>1, <2>2
<1> HIDE DEF t
<1>3. Size(t) <= Size(lines) /\ Size(t) \in Nat /\ Size(lines) \in Nat
  <2>1. Size(lines) = Len(FlattenSeq(lines)) + Len(lines)
    BY SizeIs
  <2>2. Size(t) = Len(FlattenSeq(lines)) + Len(t)
    BY <1>1, SizeIs
  <2>3. Len(t) \in Nat /\ Len(lines) \in Nat /\ Len(FlattenSeq(lines)) \in Nat
    BY <1>1, SizeIs
  <2>4. QED
    BY <1>2, <2>1, <2>2, <2>3
<1>4. QED
  BY <1>3, SizesAssumption DEF MessageFits, t

\* A message of one line is as long as the line.
LEMMA OneLineFits ==
  ASSUME NEW line \in Seq(Nat), Len(line) <= maxMessageBytes
  PROVE  MessageFits(<<line>>)
<1>1. <<line>> \in Lines /\ Len(<<line>>) = 1
  BY DEF Lines
<1>2. FlattenSeq(<<line>>) = line
  BY FlattenOne
<1>3. Size(<<line>>) = Len(line) + 1
  BY <1>1, <1>2, SizeIs
<1>4. Len(line) \in Nat
  BY LenProperties
<1>5. QED
  BY <1>3, <1>4 DEF MessageFits

\* The messages so far fit, and so do the lines collected.
SplitFits(s) == MessagesFit(s.parts) /\ MessageFits(s.current)

\* One message more that fits.
LEMMA AppendFits ==
  ASSUME NEW p \in Seq(Lines), NEW m \in Lines, MessagesFit(p), MessageFits(m)
  PROVE  MessagesFit(Append(p, m))
<1> DEFINE q == Append(p, m)
<1>1. /\ Len(p) \in Nat /\ DOMAIN p = 1..Len(p) /\ DOMAIN q = 1..(Len(p) + 1)
      /\ \A i \in 1..Len(p) : q[i] = p[i]
      /\ q[Len(p) + 1] = m
  BY AppendProperties, LenProperties
<1> HIDE DEF q
<1>2. ASSUME NEW i \in DOMAIN q PROVE MessageFits(q[i])
  <2>1. i \in 1..Len(p) \/ i = Len(p) + 1
    BY <1>1
  <2>2. QED
    BY <1>1, <2>1 DEF MessagesFit
<1>3. QED
  BY <1>2 DEF MessagesFit, q

\* Messages that fit behind messages that fit.
LEMMA ConcatFits ==
  ASSUME NEW p \in Seq(Lines), NEW q \in Seq(Lines), MessagesFit(p), MessagesFit(q)
  PROVE  MessagesFit(p \o q)
<1> DEFINE r == p \o q
<1>1. /\ Len(p) \in Nat /\ Len(q) \in Nat
      /\ DOMAIN p = 1..Len(p) /\ DOMAIN q = 1..Len(q) /\ DOMAIN r = 1..(Len(p) + Len(q))
      /\ \A i \in 1..(Len(p) + Len(q)) : r[i] = IF i <= Len(p) THEN p[i] ELSE q[i - Len(p)]
  BY ConcatProperties, LenProperties
<1> HIDE DEF r
<1>2. ASSUME NEW i \in DOMAIN r PROVE MessageFits(r[i])
  <2>1. \/ i \in 1..Len(p) /\ r[i] = p[i]
        \/ i - Len(p) \in 1..Len(q) /\ r[i] = q[i - Len(p)]
    BY <1>1
  <2>2. QED
    BY <1>1, <2>1 DEF MessagesFit
<1>3. QED
  BY <1>2 DEF MessagesFit, r

\* No line is a message that fits.
LEMMA NothingFits == MessageFits(<<>>)
<1>1. Size(<<>>) = 0
  <2>1. Len(<<>>) = 0 /\ FlattenSeq(<<>>) = <<>>
    BY FlattenEmpty
  <2>2. <<>> \in Lines
    BY DEF Lines
  <2>3. QED
    BY <2>1, <2>2, SizeIs
<1>2. QED
  BY <1>1, SizesAssumption DEF MessageFits

\* Flushing makes a message that fits of lines that fit.
LEMMA FlushFits ==
  ASSUME NEW s \in Collected, SplitFits(s)
  PROVE  SplitFits(Flush(s))
<1>1. s.parts \in Seq(Lines) /\ s.current \in Lines
  BY DEF Collected
<1>2. CASE s.current = <<>>
  BY <1>2 DEF Flush
<1>3. CASE s.current # <<>>
  <2> DEFINE last == TrimRight(s.current)
             p == Append(s.parts, last)
  <2>1. last \in Lines /\ MessageFits(last)
    BY <1>1, TrimmedKeeps, TrimRightFits DEF SplitFits
  <2> HIDE DEF last
  <2>2. MessagesFit(p)
    BY <1>1, <2>1, AppendFits DEF SplitFits
  <2>3. Flush(s) = [parts |-> p, current |-> <<>>]
    BY <1>3 DEF Flush, last
  <2> HIDE DEF p
  <2>4. Flush(s).parts = p /\ Flush(s).current = <<>>
    BY <2>3
  <2>5. QED
    BY <2>2, <2>4, NothingFits DEF SplitFits
<1>4. QED
  BY <1>2, <1>3

\* No piece of a line is longer than a message.
LEMMA PieceFits ==
  ASSUME NEW line \in Seq(Nat), NEW i \in 1..(Cuts(line) + 1)
  PROVE  Len(Piece(line, i)) <= maxMessageBytes
<1> DEFINE max == maxMessageBytes
           c == Cuts(line)
<1>1. max \in Nat /\ Len(line) \in Nat /\ \A j \in 1..Len(line) : line[j] \in Nat
  BY SizesAssumption, LenProperties
<1>2. c \in Nat /\ c * max <= Len(line) /\ Len(line) <= (c + 1) * max
  BY CutsAre
<1>3. i \in Nat /\ (c + 1) * max = c * max + max /\ c * max \in Nat
  BY <1>1, <1>2
<1>4. ASSUME NEW m \in Nat, NEW n \in Nat, m <= n, n <= m + max, n <= Len(line)
      PROVE  Len(SubSeq(line, m + 1, n)) <= max
  <2>1. m + 1 \in Int /\ n \in Int /\ \A j \in (m + 1)..n : line[j] \in Nat
    <3>1. \A j \in (m + 1)..n : j \in 1..Len(line)
      BY <1>1, <1>4
    <3>2. QED
      BY <1>1, <3>1
  <2>2. Len(SubSeq(line, m + 1, n)) = IF m + 1 <= n THEN n - (m + 1) + 1 ELSE 0
    BY <2>1, SubSeqProperties
  <2>3. QED
    BY <1>1, <1>4, <2>2
<1>5. CASE i <= c
  <2> DEFINE m == (i - 1) * max
             n == i * max
  <2>1. i * max = (i - 1) * max + max /\ (i - 1) * max \in Nat /\ i * max \in Nat
    BY <1>1, <1>3
  <2>2. i * max <= c * max
    <3> DEFINE d == c - i
    <3>1. d \in Nat /\ c = i + d
      BY <1>2, <1>3, <1>5
    <3> HIDE DEF d, c
    <3>2. (i + d) * max = i * max + d * max /\ d * max \in Nat
      BY <1>1, <1>3, <3>1
    <3>3. QED
      BY <2>1, <3>1, <3>2
  <2>3. Piece(line, i) = SubSeq(line, m + 1, n)
    <3>1. i <= Cuts(line)
      BY <1>5
    <3>2. QED
      BY <3>1, PieceIs, Zenon
  <2> DEFINE all == c * max
  <2>31. m \in Nat /\ n \in Nat /\ n = m + max /\ n <= all
    BY <2>1, <2>2
  <2>32. all \in Nat /\ all <= Len(line)
    BY <1>2, <1>3
  <2> HIDE DEF c, m, n, all
  <2>4. m \in Nat /\ n \in Nat /\ m <= n /\ n <= m + max /\ n <= Len(line)
    BY <1>1, <2>31, <2>32
  <2>5. QED
    BY <1>4, <2>3, <2>4
<1>6. CASE ~(i <= c)
  <2>1. i = c + 1
    BY <1>2, <1>3, <1>6
  <2> DEFINE m == c * max
  <2>2. Piece(line, i) = SubSeq(line, m + 1, Len(line))
    BY <2>1, PieceIs
  <2>3. m \in Nat /\ m <= Len(line) /\ Len(line) <= m + max
    BY <1>1, <1>2, <1>3
  <2> HIDE DEF m
  <2>4. QED
    BY <1>1, <1>4, <2>2, <2>3
<1>7. QED
  BY <1>5, <1>6

\* Pieces cut from a line fit.
LEMMA PiecesFit ==
  ASSUME NEW line \in Seq(Nat)
  PROVE  MessagesFit(Pieces(line, Cuts(line)))
<1>1. Cuts(line) \in Nat
  BY CutsAre
<1>2. ASSUME NEW i \in 1..Cuts(line) PROVE MessageFits(<<Piece(line, i)>>)
  <2>1. i \in 1..(Cuts(line) + 1)
    BY <1>1
  <2>2. Piece(line, i) \in Seq(Nat) /\ Len(Piece(line, i)) <= maxMessageBytes
    BY <2>1, PieceIs, PieceFits
  <2>3. QED
    BY <2>2, OneLineFits
<1>3. QED
  BY <1>2 DEF MessagesFit, Pieces

\* So a line may be cut.
LEMMA CutFits ==
  ASSUME NEW s \in Collected, NEW line \in Seq(Nat), SplitFits(s)
  PROVE  SplitFits(CutOf(s, line))
<1>1. CASE Cuts(line) = 0
  BY <1>1 DEF CutOf
<1>2. CASE Cuts(line) # 0
  <2> DEFINE f == Flush(s)
             p == Pieces(line, Cuts(line))
             q == f.parts \o p
  <2>1. f \in Collected /\ SplitFits(f)
    BY FlushKeeps, FlushFits
  <2>2. p \in Seq(Lines) /\ MessagesFit(p)
    <3>1. Cuts(line) \in 0..Cuts(line)
      BY CutsAre
    <3>2. QED
      BY <3>1, PiecesTyped, PiecesFit
  <2>3. CutOf(s, line) = [f EXCEPT !.parts = q]
    BY <1>2, Zenon DEF CutOf
  <2> HIDE DEF f, p
  <2>4. f.parts \in Seq(Lines) /\ MessagesFit(f.parts) /\ MessageFits(f.current)
    BY <2>1 DEF Collected, SplitFits
  <2>5. MessagesFit(q)
    BY <2>2, <2>4, ConcatFits
  <2> HIDE DEF q
  <2>6. CutOf(s, line).parts = q /\ CutOf(s, line).current = f.current
    BY <2>1, <2>3 DEF Collected
  <2>7. QED
    BY <2>4, <2>5, <2>6 DEF SplitFits
<1>3. QED
  BY <1>1, <1>2

\* Lines for which there is room for one more.
LEMMA OneLineMoreFits ==
  ASSUME NEW lines \in Lines, NEW line \in Seq(Nat),
         Size(lines) + Len(line) + 1 <= maxMessageBytes
  PROVE  MessageFits(Append(lines, line))
<1> DEFINE more == Append(lines, line)
<1>1. lines \in Seq(Seq(Nat)) /\ Len(line) \in Nat
  BY LenProperties DEF Lines
<1>2. more \in Seq(Seq(Nat)) /\ Len(more) = Len(lines) + 1
  BY <1>1, AppendProperties
<1>3. FlattenSeq(more) = FlattenSeq(lines) \o line
  BY <1>1, FlattenAppend
<1>4. FlattenSeq(lines) \in Seq(Nat)
  BY <1>1, FlattenTyped
<1>5. Len(FlattenSeq(lines) \o line) = Len(FlattenSeq(lines)) + Len(line)
  BY <1>4, ConcatProperties
<1> HIDE DEF more
<1>6. Size(more) = Size(lines) + Len(line) + 1
  <2>1. more \in Lines
    BY <1>2 DEF Lines
  <2>2. Size(more) = Len(FlattenSeq(more)) + Len(more)
    BY <2>1, SizeIs
  <2>3. /\ Size(lines) = Len(FlattenSeq(lines)) + Len(lines)
        /\ Len(FlattenSeq(lines)) \in Nat /\ Len(lines) \in Nat
    BY SizeIs
  <2>4. QED
    BY <1>1, <1>2, <1>3, <1>5, <2>2, <2>3
<1>7. Size(lines) \in Nat
  BY SizeIs
<1>8. QED
  BY <1>1, <1>6, <1>7, SizesAssumption DEF MessageFits, more

\* A line is added where there is room for it.
LEMMA AddLineFits ==
  ASSUME NEW s \in Collected, NEW line \in Seq(Nat), SplitFits(s)
  PROVE  SplitFits(AddLine(s, line))
<1> DEFINE rest == Piece(line, Cuts(line) + 1)
           c == CutOf(s, line)
           r == RoomOf(c, rest)
           current == Append(r.current, rest)
<1>1. rest \in Seq(Nat) /\ Len(rest) <= maxMessageBytes
  <2>1. Cuts(line) + 1 \in 1..(Cuts(line) + 1)
    BY CutsAre
  <2>2. QED
    BY <2>1, PieceIs, PieceFits
<1>2. c \in Collected /\ SplitFits(c)
  BY CutKeeps, CutFits
<1>3. AddLine(s, line) = [r EXCEPT !.current = current]
  BY AddLineIs, Zenon
<1> HIDE DEF c, rest
<1>4. r \in Collected /\ MessagesFit(r.parts) /\ MessageFits(current)
  <2>1. CASE Size(c.current) + Len(rest) + 1 <= maxMessageBytes
    <3>1. r = c
      BY <2>1 DEF RoomOf
    <3>2. c.current \in Lines
      BY <1>2 DEF Collected
    <3>3. MessageFits(Append(c.current, rest))
      BY <1>1, <2>1, <3>2, OneLineMoreFits
    <3>4. QED
      BY <1>2, <3>1, <3>3 DEF SplitFits
  <2>2. CASE ~(Size(c.current) + Len(rest) + 1 <= maxMessageBytes)
    <3>1. r = Flush(c)
      BY <2>2 DEF RoomOf
    <3>2. r \in Collected /\ r.current = <<>> /\ SplitFits(r)
      BY <1>2, <3>1, FlushKeeps, FlushFits
    <3>3. current = <<rest>>
      BY <1>1, <3>2
    <3>4. QED
      BY <1>1, <3>2, <3>3, OneLineFits DEF SplitFits
  <2>3. QED
    BY <2>1, <2>2
<1> HIDE DEF r, current
<1>5. AddLine(s, line).parts = r.parts /\ AddLine(s, line).current = current
  BY <1>3, <1>4 DEF Collected
<1>6. QED
  BY <1>4, <1>5 DEF SplitFits

\* The induction over the lines of a text.
LEMMA CollectedFits ==
  ASSUME NEW text \in Lines
  PROVE  LET s == FoldLeft(AddLine, Start, text)
         IN  s \in Collected /\ SplitFits(s)
<1>1. PICK f : /\ f[0] = Start
               /\ \A n \in 1..Len(text) : f[n] = AddLine(f[n - 1], text[n])
               /\ FoldLeft(AddLine, Start, text) = f[Len(text)]
  BY CollectedIs DEF Lines
<1>2. Len(text) \in Nat /\ \A n \in 1..Len(text) : text[n] \in Seq(Nat)
  BY LenProperties DEF Lines
<1> DEFINE Good(n) == f[n] \in Collected /\ SplitFits(f[n])
<1>3. Good(0)
  <2>1. Start \in Collected /\ Start.parts = <<>> /\ Start.current = <<>>
    BY StartIs DEF Start
  <2>2. MessagesFit(<<>>)
    <3>1. DOMAIN <<>> = {}
      OBVIOUS
    <3>2. QED
      BY <3>1 DEF MessagesFit
  <2>3. QED
    BY <1>1, <2>1, <2>2, NothingFits DEF SplitFits
<1>4. ASSUME NEW n \in 1..Len(text), Good(n - 1) PROVE Good(n)
  BY <1>1, <1>2, <1>4, AddLineKeeps, AddLineFits
<1>5. \A n \in 0..Len(text) : Good(n)
  <2> HIDE DEF Good
  <2> DEFINE bad == {n \in 0..Len(text) : ~Good(n)}
  <2>1. SUFFICES ASSUME bad # {} PROVE FALSE
    OBVIOUS
  <2>2. \E n \in bad : \A m \in bad : n <= m
    <3>1. bad \in SUBSET Nat
      BY <1>2
    <3> HIDE DEF bad
    <3>2. QED
      BY <2>1, <3>1, LeastExists
  <2>3. PICK n \in bad : \A m \in bad : n <= m
    BY <2>2
  <2>4. n \in 0..Len(text) /\ ~Good(n) /\ n # 0
    BY <1>3, <2>3
  <2>5. n \in 1..Len(text) /\ n - 1 \in 0..Len(text) /\ n - 1 \notin bad
    BY <1>2, <2>3, <2>4
  <2>6. Good(n - 1)
    BY <2>5
  <2>7. QED
    BY <1>4, <2>4, <2>5, <2>6
<1>6. Good(Len(text))
  BY <1>2, <1>5
<1>7. QED
  BY <1>1, <1>6

\* split keeps what client.go promises of it: no message of any text is longer
\* than the limit.
LEMMA SplitIsWithinLimit ==
  ASSUME NEW lines \in Lines
  PROVE  MessagesFit(split(lines))
<1> DEFINE text == TrimSpace(lines)
           s == FoldLeft(AddLine, Start, text)
<1>1. text \in Lines
  BY TrimmedKeeps
<1> HIDE DEF text
<1>2. /\ text = <<>> => split(lines) = <<>>
      /\ text # <<>> /\ Size(text) - 1 <= maxMessageBytes => split(lines) = <<text>>
      /\ text # <<>> /\ ~(Size(text) - 1 <= maxMessageBytes) => split(lines) = Flush(s).parts
  BY Zenon DEF split, Start, text
<1>3. CASE text = <<>>
  <2>1. split(lines) = <<>>
    BY <1>2, <1>3
  <2>2. DOMAIN split(lines) = {}
    BY <2>1
  <2>3. QED
    BY <2>2 DEF MessagesFit
<1>4. CASE text # <<>> /\ Size(text) - 1 <= maxMessageBytes
  <2>1. split(lines) = <<text>>
    BY <1>2, <1>4
  <2>2. DOMAIN split(lines) = {1} /\ split(lines)[1] = text
    BY <2>1
  <2>3. MessageFits(text)
    BY <1>4 DEF MessageFits
  <2>4. QED
    BY <2>2, <2>3 DEF MessagesFit
<1>5. CASE text # <<>> /\ ~(Size(text) - 1 <= maxMessageBytes)
  <2>1. split(lines) = Flush(s).parts
    BY <1>2, <1>5
  <2>2. s \in Collected /\ SplitFits(s)
    BY <1>1, CollectedFits
  <2> HIDE DEF s
  <2>3. SplitFits(Flush(s))
    BY <2>2, FlushFits
  <2>4. QED
    BY <2>1, <2>3 DEF SplitFits
<1>6. QED
  BY <1>3, <1>4, <1>5

\* Whatever is asked and whatever fails, the messages to send and those in the
\* channel are each within the limit (client.go:285), the counter that Post
\* puts before a part aside.
MessagesWithinLimit == MessagesFit(parts) /\ MessagesFit(channel)

\* Inductive with TypeOK.
FitInv == parts \in Seq(Lines) /\ channel \in Seq(Lines) /\ MessagesWithinLimit

\* The messages of a section are made by split, and sent as they are.
LEMMA StepFits ==
  ASSUME TypeOK, FitInv, [Next]_vars
  PROVE  FitInv'
<1>1. parts \in Seq(Lines) /\ channel \in Seq(Lines) /\ MessagesFit(parts) /\ MessagesFit(channel)
  BY DEF FitInv, MessagesWithinLimit
<1>0. <<>> \in Seq(Lines) /\ MessagesFit(<<>>)
  <2>1. DOMAIN <<>> = {}
    OBVIOUS
  <2>2. QED
    BY <2>1 DEF MessagesFit
<1>2. CASE AskSection
  <2>1. PICK answer \in Answers :
          LET text == Message(Title(run.section), answer)
          IN  parts' = <<>> \/ parts' = split(text)
    BY <1>2 DEF AskSection
  <2> DEFINE text == Message(Title(run.section), answer)
  <2>2. text \in Lines
    BY TextTyped DEF TypeOK
  <2>3. parts' = <<>> \/ parts' = split(text)
    BY <2>1
  <2> HIDE DEF text
  <2>4. parts' \in Seq(Lines) /\ MessagesFit(parts')
    BY <1>0, <2>2, <2>3, SplitKeeps, SplitIsWithinLimit
  <2>5. channel' = <<>>
    BY <1>2 DEF AskSection
  <2>6. QED
    BY <1>0, <2>4, <2>5 DEF FitInv, MessagesWithinLimit
<1>3. ASSUME Arrives, parts # <<>>
      PROVE  channel' \in Seq(Lines) /\ MessagesFit(channel')
  <2>1. channel' = Append(channel, Head(parts))
    BY <1>3 DEF Arrives
  <2>2. Head(parts) \in Lines /\ Head(parts) = parts[1] /\ 1 \in DOMAIN parts
    BY <1>1, <1>3, HeadTailProperties, LenProperties, EmptySeq
  <2>3. MessageFits(Head(parts))
    BY <1>1, <2>2 DEF MessagesFit
  <2>4. Append(channel, Head(parts)) \in Seq(Lines)
    BY <1>1, <2>2, AppendProperties
  <2>5. QED
    BY <1>1, <2>1, <2>2, <2>3, <2>4, AppendFits
<1>4. CASE PartPosted
  <2>1. parts # <<>> /\ Arrives /\ parts' = Tail(parts)
    BY <1>4 DEF PartPosted
  <2>2. parts' \in Seq(Lines) /\ MessagesFit(parts')
    <3>1. /\ Tail(parts) \in Seq(Lines) /\ Len(parts) \in Nat
          /\ DOMAIN parts = 1..Len(parts) /\ DOMAIN Tail(parts) = 1..(Len(parts) - 1)
          /\ \A i \in 1..(Len(parts) - 1) : Tail(parts)[i] = parts[i + 1]
      BY <1>1, <2>1, HeadTailProperties, LenProperties
    <3>2. ASSUME NEW i \in DOMAIN Tail(parts) PROVE MessageFits(Tail(parts)[i])
      <4>1. i \in 1..(Len(parts) - 1) /\ i + 1 \in DOMAIN parts
        BY <3>1
      <4>2. QED
        BY <1>1, <3>1, <4>1 DEF MessagesFit
    <3>3. QED
      BY <2>1, <3>1, <3>2 DEF MessagesFit
  <2>3. QED
    BY <1>3, <2>1, <2>2 DEF FitInv, MessagesWithinLimit
<1>5. CASE PartFails
  <2>1. /\ parts # <<>> /\ parts' = <<>>
        /\ Arrives \/ channel' = channel
    BY <1>5 DEF PartFails
  <2>2. QED
    BY <1>1, <1>0, <1>3, <2>1 DEF FitInv, MessagesWithinLimit
<1>6. CASE ~AskSection /\ ~PartPosted /\ ~PartFails
  <2>1. \/ parts' = parts /\ channel' = channel
        \/ parts' = <<>> /\ channel' = <<>>
    BY <1>6 DEF Next, RunStep, vars, CronRuns, RunByHand, Begin, SkipSection, WriteReceipt,
         Killed, Ends, Check, ReceiptLost, Tick
  <2>2. QED
    BY <1>1, <1>0, <2>1 DEF FitInv, MessagesWithinLimit
<1>7. QED
  BY <1>2, <1>4, <1>5, <1>6

\* No message is longer than the limit, in any state of the digest.
THEOREM MessagesAreWithinLimit == Spec => []MessagesWithinLimit
<1>1. Init => FitInv
  <2>1. DOMAIN <<>> = {} /\ <<>> \in Seq(Lines)
    OBVIOUS
  <2>2. QED
    BY <2>1 DEF Init, FitInv, MessagesWithinLimit, MessagesFit
<1>2. TypeOK /\ FitInv /\ [Next]_vars => FitInv'
  BY StepFits
<1>3. Spec => []TypeOK
  BY Invariance, PTL DEF IInv
<1>4. QED
  BY <1>1, <1>2, <1>3, PTL DEF Spec, FitInv
=============================================================================
