--------------------------- MODULE PollersProofs ---------------------------
(***************************************************************************)
(* Proofs about Pollers, for every interval, timeout and duration of a     *)
(* poll: what the loops report is true, how long they run, and that they   *)
(* notice what the mirror node shows.                                      *)
(***************************************************************************)
EXTENDS Pollers, TLAPS

\* What consensus has decided stays so, and every answer was true once.
AnswersAreOld ==
  /\ mirror \in EndStates => truth = mirror
  /\ snapshot \in EndStates => truth = snapshot
  /\ visibleAt # None => mirror \in EndStates
  /\ outcome \in EndStates => truth = outcome

\* The timers of the loop, and what they leave of the timeout.
Schedules ==
  /\ phase = "called" => now = 0
  /\ pollBegan <= now
  /\ phase \in {"polling", "answered", "sleeping"} => now <= wakeAt
  /\ phase \in {"polling", "answered"} =>
       /\ wakeAt = pollBegan + MaxPoll
       /\ pollBegan <= Timeout + Interval
  /\ phase = "sleeping" =>
       /\ wakeAt <= now + Interval
       /\ wakeAt <= Timeout + Interval

\* A call that runs has no outcome yet.
OpenWhileRunning == phase # "settled" => outcome = None

\* An answer that does not show an end state was given before the mirror node
\* showed one, or met an evicted cache entry.
AnswersAreFair ==
  (phase \in {"answered", "sleeping"} /\ visibleAt # None) =>
    snapshot \in EndStates \cup {"null"} \/ visibleAt >= pollBegan

\* Neither loop sleeps over an end state, waitFor only over a 404.
SleepsAreDue ==
  phase = "sleeping" => snapshot \notin EndStates /\ (Transaction => snapshot = "absent")

Round == MaxPoll + Interval

\* How long ago the transaction may have become visible, by what waitFor does.
NoticeBudget ==
  (Transaction /\ visibleAt # None) =>
    /\ phase = "called" => visibleAt = 0
    /\ phase = "sleeping" => wakeAt <= visibleAt + Round
    /\ phase \in {"polling", "answered"} => pollBegan <= visibleAt + Round

\* What the steps preserve together.
Invariant ==
  /\ TypeOK
  /\ AnswersAreOld
  /\ OpenWhileRunning
  /\ Schedules
  /\ WaitIsBounded
  /\ AnswersAreFair
  /\ SleepsAreDue
  /\ NoticeBudget
  /\ NothingVisibleIsMissed

\* No time has passed.
LEMMA InvariantInit ==
  ASSUME Init
  PROVE  Invariant
<1>0. None # "timed out" /\ None # "null" /\ None \notin EndStates
  BY PollersAssumption DEF EndStates
<1>1. Interval \in Nat /\ Timeout \in Nat /\ MaxPoll \in Nat
  BY PollersAssumption
<1>2. TypeOK
  <2>1. truth \in States /\ mirror \in States /\ visibleAt \in Nat \cup {None}
    BY DEF Init, States, EndStates
  <2>2. expiry \in Int \cup {None}
    BY <1>1 DEF Init
  <2> QED BY <1>1, <2>1, <2>2 DEF Init, TypeOK
<1>3. AnswersAreOld
  BY <1>0 DEF Init, AnswersAreOld, EndStates
<1>4. Schedules
  BY DEF Init, Schedules
<1>7. WaitIsBounded
  <2>1. outcome # "timed out"
    BY <1>0 DEF Init
  <2>2. now <= Timeout + Interval + MaxPoll
    BY <1>1 DEF Init
  <2> QED BY <2>1, <2>2 DEF WaitIsBounded
<1>6. AnswersAreFair /\ NothingVisibleIsMissed /\ OpenWhileRunning
  BY <1>0 DEF Init, AnswersAreFair, NothingVisibleIsMissed, OpenWhileRunning
<1>5. NoticeBudget /\ SleepsAreDue
  BY <1>1 DEF Init, NoticeBudget, SleepsAreDue
<1> QED BY <1>2, <1>3, <1>4, <1>5, <1>6, <1>7 DEF Invariant

\* An external step leaves the loop and the clock alone.
LEMMA WorldKeepsInvariant ==
  ASSUME Invariant, Consensus \/ Ingest
  PROVE  Invariant'
<1>0. None # "timed out" /\ None # "null" /\ None \notin EndStates
  BY PollersAssumption DEF EndStates
<1>1. Interval \in Nat /\ Timeout \in Nat /\ MaxPoll \in Nat
  BY PollersAssumption
<1>2. UNCHANGED <<target, expiry, now, aborted, phase, snapshot, wakeAt, outcome, pollBegan>>
  BY DEF Consensus, Ingest, Reaches, loop
<1>3. CASE Consensus
  <2>1. UNCHANGED <<mirror, visibleAt>> /\ truth \in {"absent", "pending"} /\ truth' \in States
    BY <1>3 DEF Consensus, Reaches, States, EndStates
  <2>2. TypeOK'
    BY <1>2, <2>1 DEF Invariant, TypeOK
  <2>3. AnswersAreOld'
    BY <1>2, <2>1 DEF Invariant, AnswersAreOld, EndStates
  <2>4. /\ Schedules' /\ WaitIsBounded' /\ AnswersAreFair' /\ NoticeBudget' /\ NothingVisibleIsMissed'
        /\ OpenWhileRunning' /\ SleepsAreDue'
    BY <1>2, <2>1 DEF Invariant, Schedules, AnswersAreFair, NoticeBudget, SleepsAreDue,
                      NothingVisibleIsMissed, OpenWhileRunning, WaitIsBounded, Transaction
  <2> QED BY <2>2, <2>3, <2>4 DEF Invariant
<1>4. CASE Ingest
  <2>1. /\ mirror' = truth /\ truth' = truth /\ mirror # truth
        /\ visibleAt' = IF truth \in EndStates THEN now ELSE visibleAt
    BY <1>4 DEF Ingest
  <2>2. mirror \notin EndStates /\ visibleAt = None
    BY <2>1 DEF Invariant, AnswersAreOld
  <2>3. now \in Nat /\ pollBegan \in Nat /\ pollBegan <= now /\ truth \in States
    BY DEF Invariant, TypeOK, Schedules
  <2>4. visibleAt' = IF truth \in EndStates THEN now ELSE None
    BY <2>1, <2>2
  <2>5. TypeOK'
    <3>1. visibleAt' \in Nat \cup {None}
      BY <1>2, <2>3, <2>4
    <3> QED BY <1>2, <2>1, <2>3, <3>1 DEF Invariant, TypeOK
  <2>6. AnswersAreOld'
    BY <1>2, <2>1, <2>4 DEF Invariant, AnswersAreOld
  <2>7. Schedules' /\ WaitIsBounded' /\ OpenWhileRunning'
    BY <1>2 DEF Invariant, Schedules, WaitIsBounded, OpenWhileRunning
  <2>8. AnswersAreFair' /\ NothingVisibleIsMissed' /\ SleepsAreDue'
    BY <1>2, <2>3, <2>4 DEF Invariant, AnswersAreFair, NothingVisibleIsMissed, SleepsAreDue,
                            Transaction
  <2>9. NoticeBudget'
    <3>1. phase = "called" => now = 0
      BY DEF Invariant, Schedules
    <3>2. phase = "sleeping" => wakeAt <= now + Interval
      BY DEF Invariant, Schedules
    <3>3. wakeAt \in Nat
      BY <1>1, <2>3 DEF Invariant, TypeOK
    <3>4. CASE truth \in EndStates
      BY <1>1, <1>2, <2>3, <2>4, <3>1, <3>2, <3>3, <3>4 DEF NoticeBudget, Round
    <3>5. CASE truth \notin EndStates
      BY <2>4, <3>5 DEF NoticeBudget
    <3> QED BY <3>4, <3>5
  <2> QED BY <2>5, <2>6, <2>7, <2>8, <2>9 DEF Invariant
<1> QED BY <1>3, <1>4

----------------------------------------------------------------------------
(* The three things the loop can do *)

\* It settles with a result that is true, and not too early if it gives up.
LEMMA SettleKeepsInvariant ==
  ASSUME Invariant, NEW result, Settle(result),
         result \in EndStates \cup
           {"expired", "timed out", "error", "HieroNotFoundError", "AbortError"},
         result \in EndStates => truth = result,
         result = "timed out" =>
           /\ now >= Timeout
           /\ visibleAt # None => visibleAt >= pollBegan \/ snapshot = "null",
         UNCHANGED <<world, now>>, aborted' \in BOOLEAN
  PROVE  Invariant'
<1>1. /\ phase' = "settled" /\ outcome' = result
      /\ UNCHANGED <<target, expiry, truth, mirror, visibleAt, now, snapshot, wakeAt, pollBegan>>
  BY DEF Settle, world
<1>2. TypeOK'
  BY <1>1 DEF Invariant, TypeOK
<1>3. AnswersAreOld'
  BY <1>1 DEF Invariant, AnswersAreOld
<1>4. Schedules' /\ WaitIsBounded' /\ OpenWhileRunning'
  BY <1>1 DEF Invariant, Schedules, WaitIsBounded, OpenWhileRunning
<1>5. AnswersAreFair' /\ NoticeBudget' /\ NothingVisibleIsMissed' /\ SleepsAreDue'
  BY <1>1 DEF AnswersAreFair, NoticeBudget, NothingVisibleIsMissed, SleepsAreDue
<1> QED BY <1>2, <1>3, <1>4, <1>5 DEF Invariant

\* It polls, at the beginning or when its sleep is over.
LEMMA LoopHeadKeepsInvariant ==
  ASSUME Invariant, LoopHead, UNCHANGED <<world, now, aborted>>,
         phase = "called" \/ (phase = "sleeping" /\ now >= wakeAt)
  PROVE  Invariant'
<1>0. None # "timed out" /\ None # "null" /\ None \notin EndStates
  BY PollersAssumption DEF EndStates
<1>1. Interval \in Nat /\ Timeout \in Nat /\ MaxPoll \in Nat
  BY PollersAssumption
<1>2. CASE aborted
  <2>1. Settle("AbortError") /\ aborted' \in BOOLEAN
    BY <1>2 DEF LoopHead, Invariant, TypeOK
  <2> QED BY <2>1, SettleKeepsInvariant DEF EndStates
<1>3. CASE ~ aborted
  <2>1. /\ phase' = "polling" /\ wakeAt' = now + MaxPoll /\ pollBegan' = now
        /\ UNCHANGED <<target, expiry, truth, mirror, visibleAt, now, aborted, snapshot, outcome>>
    BY <1>3 DEF LoopHead, Poll, world
  <2>2. now \in Nat /\ wakeAt \in Nat /\ now <= Timeout + Interval
    <3>1. now \in Nat /\ wakeAt \in Nat
      BY <1>1 DEF Invariant, TypeOK
    <3>2. phase = "called" => now = 0
      BY DEF Invariant, Schedules
    <3>3. phase = "sleeping" => now <= wakeAt /\ wakeAt <= Timeout + Interval
      BY DEF Invariant, Schedules
    <3> QED BY <1>1, <3>1, <3>2, <3>3
  <2>3. TypeOK'
    <3>1. wakeAt' \in Nat /\ pollBegan' \in Nat
      BY <1>1, <2>1, <2>2
    <3> QED BY <2>1, <3>1 DEF Invariant, TypeOK
  <2>4. AnswersAreOld'
    BY <2>1 DEF Invariant, AnswersAreOld
  <2>5. Schedules' /\ WaitIsBounded'
    <3>1. now <= now + MaxPoll /\ now <= Timeout + Interval + MaxPoll
      BY <1>1, <2>2
    <3>2. outcome' # "timed out"
      <4>1. outcome' = None
        BY <2>1 DEF Invariant, OpenWhileRunning
      <4> QED BY <4>1, <1>0
    <3>3. Schedules'
      BY <1>1, <2>1, <2>2 DEF Schedules
    <3>4. WaitIsBounded'
      BY <2>1, <3>1, <3>2 DEF WaitIsBounded
    <3> QED BY <3>3, <3>4
  <2>6. AnswersAreFair' /\ SleepsAreDue'
    BY <2>1 DEF AnswersAreFair, SleepsAreDue
  <2>7. NothingVisibleIsMissed'
    <3>1. outcome = None
      BY DEF Invariant, OpenWhileRunning
    <3> QED BY <1>0, <2>1, <3>1 DEF NothingVisibleIsMissed
  <2>9. OpenWhileRunning'
    BY <2>1 DEF Invariant, OpenWhileRunning
  <2>8. NoticeBudget'
    <3>1. visibleAt = None \/ visibleAt \in Nat
      BY DEF Invariant, TypeOK
    <3>2. phase = "called" => now = 0
      BY DEF Invariant, Schedules
    <3>3. phase = "sleeping" => now <= wakeAt
      BY DEF Invariant, Schedules
    <3> QED BY <1>1, <2>1, <2>2, <3>1, <3>2, <3>3 
           DEF Invariant, NoticeBudget, Round, Transaction
  <2> QED BY <2>3, <2>4, <2>5, <2>6, <2>7, <2>8, <2>9 DEF Invariant
<1> QED BY <1>2, <1>3

\* It goes to sleep: the answer showed no end state.
LEMMA SleepKeepsInvariant ==
  ASSUME Invariant, Sleep, phase = "answered", now < Timeout,
         snapshot \notin EndStates, Transaction => snapshot = "absent",
         UNCHANGED <<world, now, aborted>>
  PROVE  Invariant'
<1>0. Interval \in Nat /\ Timeout \in Nat /\ MaxPoll \in Nat
  BY PollersAssumption
<1>1. /\ phase' = "sleeping" /\ wakeAt' = now + Interval
      /\ UNCHANGED <<target, expiry, truth, mirror, visibleAt, now, aborted,
                     snapshot, outcome, pollBegan>>
  BY DEF Sleep, world
<1>2. /\ now \in Nat /\ wakeAt \in Nat /\ pollBegan \in Nat
      /\ visibleAt = None \/ visibleAt \in Nat
  BY DEF Invariant, TypeOK
<1>3. now <= wakeAt /\ wakeAt = pollBegan + MaxPoll /\ pollBegan <= now
  BY DEF Invariant, Schedules
<1>4. TypeOK'
  <2>1. wakeAt' \in Nat
    BY <1>0, <1>1, <1>2
  <2> QED BY <1>1, <2>1 DEF Invariant, TypeOK
<1>5. AnswersAreOld' /\ OpenWhileRunning'
  BY <1>1 DEF Invariant, AnswersAreOld, OpenWhileRunning
<1>6. Schedules' /\ WaitIsBounded'
  <2>1. Schedules'
    BY <1>0, <1>1, <1>2, <1>3 DEF Schedules
  <2>2. WaitIsBounded'
    BY <1>1 DEF Invariant, WaitIsBounded
  <2> QED BY <2>1, <2>2
<1>7. AnswersAreFair' /\ NothingVisibleIsMissed' /\ SleepsAreDue'
  BY <1>1 DEF Invariant, AnswersAreFair, NothingVisibleIsMissed, SleepsAreDue, Transaction
<1>8. NoticeBudget'
  <2> SUFFICES ASSUME Transaction, visibleAt # None
               PROVE  now + Interval <= visibleAt + Round
    BY <1>1 DEF NoticeBudget, Transaction
  <2>1. visibleAt >= pollBegan
    BY DEF Invariant, AnswersAreFair, EndStates
  <2> QED BY <1>0, <1>2, <1>3, <2>1 DEF Round
<1> QED BY <1>4, <1>5, <1>6, <1>7, <1>8 DEF Invariant

\* After an answer that shows no end state the loop gives up, stops because of
\* the signal, or sleeps.
LEMMA GoOnKeepsInvariant ==
  ASSUME Invariant, GoOn, phase = "answered", snapshot \notin EndStates,
         Transaction => snapshot = "absent", UNCHANGED <<world, now, aborted>>
  PROVE  Invariant'
<1>0. aborted' \in BOOLEAN /\ UNCHANGED <<world, now>>
  BY DEF Invariant, TypeOK
<1>1. CASE now >= Timeout /\ Settle("timed out")
  <2>1. visibleAt # None => visibleAt >= pollBegan \/ snapshot = "null"
    BY DEF Invariant, AnswersAreFair
  <2> QED BY <1>0, <1>1, <2>1, SettleKeepsInvariant DEF EndStates
<1>2. CASE Settle("AbortError")
  BY <1>0, <1>2, SettleKeepsInvariant DEF EndStates
<1>3. CASE now < Timeout /\ Sleep
  BY <1>3, SleepKeepsInvariant
<1> QED BY <1>1, <1>2, <1>3 DEF GoOn

----------------------------------------------------------------------------
(* The steps *)

\* The mirror node answers with what it has ingested, or with null.
LEMMA MirrorAnswersKeepsInvariant ==
  ASSUME Invariant, MirrorAnswers
  PROVE  Invariant'
<1>0. Interval \in Nat /\ Timeout \in Nat /\ MaxPoll \in Nat
  BY PollersAssumption
<1>1. /\ phase = "polling" /\ phase' = "answered"
      /\ snapshot' = mirror \/ (snapshot # "null" /\ snapshot' = "null")
      /\ UNCHANGED <<target, expiry, truth, mirror, visibleAt, now, aborted,
                     wakeAt, outcome, pollBegan>>
  BY DEF MirrorAnswers, world
<1>2. TypeOK'
  BY <1>1 DEF Invariant, TypeOK
<1>3. AnswersAreOld' /\ OpenWhileRunning'
  BY <1>1 DEF Invariant, AnswersAreOld, OpenWhileRunning, EndStates
<1>4. Schedules' /\ WaitIsBounded'
  BY <1>1 DEF Invariant, Schedules, WaitIsBounded
<1>5. AnswersAreFair'
  BY <1>1 DEF Invariant, AnswersAreOld, AnswersAreFair
<1>6. NothingVisibleIsMissed'
  <2>1. outcome' = None /\ None # "timed out"
    BY <1>1, PollersAssumption DEF Invariant, OpenWhileRunning
  <2> QED BY <2>1 DEF NothingVisibleIsMissed
<1>7. NoticeBudget' /\ SleepsAreDue'
  BY <1>1 DEF Invariant, NoticeBudget, SleepsAreDue, Transaction
<1> QED BY <1>2, <1>3, <1>4, <1>5, <1>6, <1>7 DEF Invariant

\* Time passes only while a timer is not due.
LEMMA TickKeepsInvariant ==
  ASSUME Invariant, Tick
  PROVE  Invariant'
<1>0. Interval \in Nat /\ Timeout \in Nat /\ MaxPoll \in Nat
  BY PollersAssumption
<1>1. /\ phase \in {"polling", "answered", "sleeping"}
      /\ now < wakeAt /\ now' = now + 1
      /\ UNCHANGED <<target, expiry, truth, mirror, visibleAt, aborted, phase,
                     snapshot, wakeAt, outcome, pollBegan>>
  BY DEF Tick, world, loop
<1>2. now \in Nat /\ wakeAt \in Nat /\ pollBegan \in Nat /\ pollBegan <= now
  BY DEF Invariant, TypeOK, Schedules
<1>3. TypeOK'
  <2>1. now' \in Nat
    BY <1>1, <1>2
  <2> QED BY <1>1, <2>1 DEF Invariant, TypeOK
<1>4. AnswersAreOld' /\ OpenWhileRunning' /\ AnswersAreFair' /\ NothingVisibleIsMissed'
  BY <1>1 DEF Invariant, AnswersAreOld, OpenWhileRunning, AnswersAreFair,
              NothingVisibleIsMissed
<1>5. Schedules'
  <2>1. phase = "sleeping" => wakeAt <= now + Interval
    BY DEF Invariant, Schedules
  <2>2. now' <= wakeAt /\ pollBegan <= now' /\ (phase = "sleeping" => wakeAt <= now' + Interval)
    BY <1>0, <1>1, <1>2, <2>1
  <2> QED BY <1>1, <2>2 DEF Invariant, Schedules
<1>6. WaitIsBounded'
  <2>1. wakeAt <= Timeout + Interval + MaxPoll
    <3>1. phase = "sleeping" => wakeAt <= Timeout + Interval
      BY DEF Invariant, Schedules
    <3>2. phase # "sleeping" => wakeAt = pollBegan + MaxPoll /\ pollBegan <= Timeout + Interval
      BY <1>1 DEF Invariant, Schedules
    <3> QED BY <1>0, <1>2, <3>1, <3>2
  <2>2. now' <= Timeout + Interval + MaxPoll
    BY <1>0, <1>1, <1>2, <2>1
  <2>3. outcome' # "timed out"
    <3>1. outcome' = None /\ None # "timed out"
      BY <1>1, PollersAssumption DEF Invariant, OpenWhileRunning
    <3> QED BY <3>1
  <2> QED BY <2>2, <2>3 DEF WaitIsBounded
<1>7. NoticeBudget' /\ SleepsAreDue'
  BY <1>1 DEF Invariant, NoticeBudget, SleepsAreDue, Transaction
<1> QED BY <1>3, <1>4, <1>5, <1>6, <1>7 DEF Invariant

\* A caller that aborts ends a sleep and nothing else.
LEMMA AbortKeepsInvariant ==
  ASSUME Invariant, Abort
  PROVE  Invariant'
<1>1. UNCHANGED <<world, now>> /\ aborted' \in BOOLEAN
  BY DEF Abort
<1>2. CASE Settle("AbortError")
  BY <1>1, <1>2, SettleKeepsInvariant DEF EndStates
<1>3. CASE UNCHANGED loop
  <2>1. UNCHANGED <<target, expiry, truth, mirror, visibleAt, now, phase, snapshot,
                    wakeAt, outcome, pollBegan>>
    BY <1>1, <1>3 DEF world, loop
  <2>2. TypeOK'
    BY <1>1, <2>1 DEF Invariant, TypeOK
  <2> QED BY <2>1, <2>2 DEF Invariant, AnswersAreOld, OpenWhileRunning, Schedules,
                            WaitIsBounded, AnswersAreFair, NoticeBudget,
                            NothingVisibleIsMissed, SleepsAreDue, Transaction
<1> QED BY <1>2, <1>3 DEF Abort

\* One case for every action.
LEMMA InvariantStep ==
  ASSUME Invariant, [Next]_vars
  PROVE  Invariant'
<1>1. ASSUME TransactionAnswered
      PROVE  Invariant'
  <2>0. phase = "answered" /\ UNCHANGED <<world, now, aborted>> /\ aborted' \in BOOLEAN
    BY <1>1 DEF TransactionAnswered, Invariant, TypeOK
  <2>1. CASE snapshot = "reached" /\ Settle("reached")
    <3>1. truth = "reached"
      BY <2>1 DEF Invariant, AnswersAreOld, EndStates
    <3> QED BY <2>0, <2>1, <3>1, SettleKeepsInvariant DEF EndStates
  <2>2. CASE snapshot = "absent" /\ GoOn
    BY <2>0, <2>2, GoOnKeepsInvariant DEF EndStates
  <2>3. CASE Settle("error")
    BY <2>0, <2>3, SettleKeepsInvariant DEF EndStates
  <2> QED BY <1>1, <2>1, <2>2, <2>3 DEF TransactionAnswered
<1>2. ASSUME ScheduleAnswered
      PROVE  Invariant'
  <2>0. phase = "answered" /\ UNCHANGED <<world, now, aborted>> /\ aborted' \in BOOLEAN
    BY <1>2 DEF ScheduleAnswered, Invariant, TypeOK
  <2>1. CASE Settle("HieroNotFoundError") \/ Settle("expired")
    BY <2>0, <2>1, SettleKeepsInvariant DEF EndStates
  <2>2. CASE snapshot \in EndStates /\ Settle(snapshot)
    <3>1. truth = snapshot /\ snapshot # "timed out"
      BY <2>2 DEF Invariant, AnswersAreOld, EndStates
    <3> QED BY <2>0, <2>2, <3>1, SettleKeepsInvariant
  <2>3. CASE snapshot \notin EndStates /\ GoOn
    BY <1>2, <2>0, <2>3, GoOnKeepsInvariant DEF ScheduleAnswered, Schedule, Transaction
  <2> QED BY <1>2, <2>1, <2>2, <2>3 DEF ScheduleAnswered
<1>3. ASSUME PollFails
      PROVE  Invariant'
  <2>1. Settle("error") /\ UNCHANGED <<world, now>> /\ aborted' \in BOOLEAN
    BY <1>3 DEF PollFails, Invariant, TypeOK
  <2> QED BY <2>1, SettleKeepsInvariant DEF EndStates
<1>4. ASSUME Call \/ Wake
      PROVE  Invariant'
  BY <1>4, LoopHeadKeepsInvariant DEF Call, Wake
<1>5. CASE UNCHANGED vars
  <2>1. UNCHANGED <<target, expiry, truth, mirror, visibleAt, now, phase, snapshot,
                    wakeAt, aborted, outcome, pollBegan>>
    BY <1>5 DEF vars
  <2>2. TypeOK'
    BY <2>1 DEF Invariant, TypeOK
  <2> QED BY <2>1, <2>2 DEF Invariant, AnswersAreOld, OpenWhileRunning, Schedules,
                            WaitIsBounded, AnswersAreFair, NoticeBudget,
                            NothingVisibleIsMissed, SleepsAreDue, Transaction
<1> QED
  BY <1>1, <1>2, <1>3, <1>4, <1>5, WorldKeepsInvariant, MirrorAnswersKeepsInvariant,
     AbortKeepsInvariant, TickKeepsInvariant DEF Next

----------------------------------------------------------------------------
(* Theorems *)

\* The loops keep their bookkeeping, for every interval and timeout.
THEOREM InvariantHolds == Spec => []Invariant
<1>1. Init => Invariant
  BY InvariantInit
<1>2. Invariant /\ [Next]_vars => Invariant'
  BY InvariantStep
<1> QED BY <1>1, <1>2, PTL DEF Spec

\* The variables of both loops stay well typed: an outcome is one of those that
\* waitFor and waitForExecution can settle with.
THEOREM TypeCorrect == Spec => []TypeOK
<1>1. Invariant => TypeOK
  BY DEF Invariant
<1> QED BY <1>1, InvariantHolds, PTL

\* What waitFor and waitForExecution resolve with is what consensus decided.
THEOREM ReportsAreTrue == Spec => []OutcomeIsTrue
<1>1. Invariant => OutcomeIsTrue
  BY DEF Invariant, AnswersAreOld, OutcomeIsTrue
<1> QED BY <1>1, InvariantHolds, PTL

\* They give up at the timeout, at most a sleep and a poll later, never before.
THEOREM TimeoutIsKept == Spec => []WaitIsBounded
<1>1. Invariant => WaitIsBounded
  BY DEF Invariant
<1> QED BY <1>1, InvariantHolds, PTL

\* They do not give up on what the mirror node showed before the last poll.
THEOREM NothingIsMissed == Spec => []NothingVisibleIsMissed
<1>1. Invariant => NothingVisibleIsMissed
  BY DEF Invariant
<1> QED BY <1>1, InvariantHolds, PTL

\* A poll that began after an end state became visible ends the sleeping, and
\* waitFor is done within one sleep and two polls.
THEOREM EndStatesAreNoticedInTime == Spec => []EndStatesAreNoticed
<1>1. ASSUME Invariant, visibleAt # None, Transaction, phase # "settled"
      PROVE  now <= visibleAt + (Interval + (2 * MaxPoll))
  <2>0. Interval \in Nat /\ Timeout \in Nat /\ MaxPoll \in Nat
    BY PollersAssumption
  <2>1. /\ visibleAt \in Nat /\ now \in Nat /\ wakeAt \in Nat /\ pollBegan \in Nat
        /\ phase \in {"called", "polling", "answered", "sleeping"}
    BY <1>1 DEF Invariant, TypeOK
  <2>2. CASE phase = "called"
    <3>1. now = 0
      BY <1>1, <2>2 DEF Invariant, Schedules
    <3> QED BY <2>0, <2>1, <3>1
  <2>3. CASE phase = "sleeping"
    <3>1. now <= wakeAt
      BY <1>1, <2>3 DEF Invariant, Schedules
    <3>2. wakeAt <= visibleAt + Round
      BY <1>1, <2>3 DEF Invariant, NoticeBudget
    <3> QED BY <2>0, <2>1, <3>1, <3>2 DEF Round
  <2>4. CASE phase \in {"polling", "answered"}
    <3>1. now <= wakeAt /\ wakeAt = pollBegan + MaxPoll
      BY <1>1, <2>4 DEF Invariant, Schedules
    <3>2. pollBegan <= visibleAt + Round
      BY <1>1, <2>4 DEF Invariant, NoticeBudget
    <3> QED BY <2>0, <2>1, <3>1, <3>2 DEF Round
  <2> QED BY <2>1, <2>2, <2>3, <2>4
<1>2. ASSUME Invariant, visibleAt # None, phase = "sleeping", pollBegan > visibleAt
      PROVE  snapshot = "null"
  <2>1. snapshot \notin EndStates
    BY <1>2 DEF Invariant, SleepsAreDue
  <2>2. ~ (visibleAt >= pollBegan)
    <3>1. visibleAt \in Nat /\ pollBegan \in Nat
      BY <1>2 DEF Invariant, TypeOK
    <3> QED BY <1>2, <3>1
  <2> QED BY <1>2, <2>1, <2>2 DEF Invariant, AnswersAreFair
<1>3. ASSUME Invariant, visibleAt # None, Transaction, phase # "settled"
      PROVE  now <= visibleAt + Interval + 2 * MaxPoll
  <2>1. now <= visibleAt + (Interval + (2 * MaxPoll))
    BY <1>1, <1>3
  <2>2. visibleAt \in Nat /\ now \in Nat /\ Interval \in Nat /\ MaxPoll \in Nat
    BY <1>3, PollersAssumption DEF Invariant, TypeOK
  <2> QED BY <2>1, <2>2
<1>4. Invariant => EndStatesAreNoticed
  BY <1>2, <1>3 DEF EndStatesAreNoticed
<1> QED BY <1>4, InvariantHolds, PTL

\* Once the signal is aborted neither loop begins another poll.
THEOREM AbortEndsPolling == Spec => NoPollAfterAbort
<1>1. [Next]_vars => [aborted /\ phase # "polling" => phase' # "polling"]_vars
  BY DEF Next, Consensus, Reaches, Ingest, Call, LoopHead, MirrorAnswers,
         TransactionAnswered, ScheduleAnswered, GoOn, Sleep, Settle, PollFails,
         Wake, Abort, Tick, loop, vars
<1> QED BY <1>1, PTL DEF Spec, NoPollAfterAbort
=============================================================================
