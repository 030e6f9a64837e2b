------------------------------ MODULE Pollers ------------------------------
(***************************************************************************)
(* The polling loops of TransactionsResource.waitFor                       *)
(* (src/resources/transactions.ts) and of waitForExecution                 *)
(* (src/helpers/scheduled-transactions.ts), against a network whose mirror *)
(* node lags behind consensus.                                             *)
(*                                                                         *)
(* The two loops differ in what they wait for and in what an answer means  *)
(* to them; check of the signal, poll, check of the timeout and sleep are  *)
(* the same.  `now` is Date.now() counted from the start of the call, in   *)
(* ticks.  HttpClient is external here: a poll takes up to MaxPoll ticks   *)
(* and does not see the loop's signal, which is not passed to get().       *)
(***************************************************************************)
EXTENDS Integers

CONSTANTS
  Interval,  \* options.interval
  Timeout,   \* options.timeout
  MaxPoll,   \* how long a get() takes at most, with its retries
  None       \* null

ASSUME PollersAssumption ==
  /\ Interval \in Nat
  /\ Timeout \in Nat
  /\ MaxPoll \in Nat
  /\ None \notin Int \cup {"timed out", "null", "reached", "executed", "deleted"}

VARIABLES
  target,   \* what the loop waits for
  expiry,   \* external: when the schedule expires, or None
  truth,    \* external: what consensus has made of the target
  mirror,   \* external: what the mirror node has ingested of it
  now,      \* Date.now() - startTime
  phase,    \* where the loop is
  snapshot, \* what the mirror node answered to the last poll, or None
  wakeAt,   \* when the poll under way has to settle, or the sleep is over
  aborted,  \* options.signal.aborted
  outcome,  \* what the call settled with, or None
  visibleAt,  \* history: when the mirror node first showed an end state, or None
  pollBegan   \* history: when the last poll began

vars == <<target, expiry, truth, mirror, now, phase, snapshot, wakeAt, aborted,
          outcome, visibleAt, pollBegan>>

loop == <<phase, snapshot, wakeAt, outcome, pollBegan>>
world == <<target, expiry, truth, mirror, visibleAt>>

Transaction == target = "transaction"
Schedule == target = "schedule"

\* The states of the target that end the waiting when the mirror node shows them.
EndStates == {"reached", "executed", "deleted"}

----------------------------------------------------------------------------
(* External: consensus and ingestion *)

Expired == expiry # None /\ now >= expiry

Reaches(state) ==
  /\ truth' = state
  /\ UNCHANGED <<target, expiry, mirror, visibleAt, now, aborted, loop>>

\* A transaction reaches consensus, a schedule is created; a schedule then is
\* executed or deleted, or executes or lapses once it has expired.
Consensus ==
  \/ Transaction /\ truth = "absent" /\ Reaches("reached")
  \/ Schedule /\ truth = "absent" /\ ~ Expired /\ Reaches("pending")
  \/ Schedule /\ truth = "pending" /\ Reaches("executed")
  \/ Schedule /\ truth = "pending" /\ ~ Expired /\ Reaches("deleted")
  \/ Schedule /\ truth = "pending" /\ Expired /\ Reaches("lapsed")

\* The mirror node ingests what consensus has reached by now.
Ingest ==
  /\ mirror # truth
  /\ mirror' = truth
  /\ visibleAt' = IF truth \in EndStates THEN now ELSE visibleAt
  /\ UNCHANGED <<target, expiry, truth, now, aborted, loop>>

----------------------------------------------------------------------------
(* The loop *)

Init ==
  /\ target \in {"transaction", "schedule"}
  /\ expiry \in IF Transaction THEN {None} ELSE -1 .. Timeout \cup {None}
  /\ truth \in IF Transaction THEN {"absent", "reached"}
               ELSE {"absent", "pending", "executed", "deleted"}
  /\ mirror \in IF truth \in {"executed", "deleted"} THEN {"absent", "pending", truth}
                ELSE {"absent", truth}
  /\ visibleAt = IF mirror \in EndStates THEN 0 ELSE None
  /\ now = 0
  /\ phase = "called" /\ snapshot = None /\ wakeAt = 0 /\ pollBegan = 0
  /\ aborted \in BOOLEAN
  /\ outcome = None

Settle(result) ==
  /\ phase' = "settled"
  /\ outcome' = result
  /\ UNCHANGED <<snapshot, wakeAt, pollBegan>>

Poll ==
  /\ phase' = "polling"
  /\ wakeAt' = now + MaxPoll
  /\ pollBegan' = now
  /\ UNCHANGED <<snapshot, outcome>>

Sleep ==
  /\ phase' = "sleeping"
  /\ wakeAt' = now + Interval
  /\ UNCHANGED <<snapshot, outcome, pollBegan>>

\* Mutant: the signal is left to the sleep.
HeadUnchecked == Poll

\* The head of the loop.
LoopHead == IF aborted THEN Settle("AbortError") ELSE Poll

Call ==
  /\ phase = "called"
  /\ LoopHead
  /\ UNCHANGED <<world, now, aborted>>

\* External: the mirror node answers the poll from what it has ingested.  A 304
\* whose cached body is gone by then arrives as null; the next GET for the url
\* is then unconditional.
MirrorAnswers ==
  /\ phase = "polling"
  /\ phase' = "answered"
  /\ \/ snapshot' = mirror
     \/ mirror # "absent" /\ snapshot # "null" /\ snapshot' = "null"
  /\ UNCHANGED <<world, now, aborted, wakeAt, outcome, pollBegan>>

\* Mutant: the timeout is forgotten.
GoOnForever == IF aborted THEN Settle("AbortError") ELSE Sleep

\* The check of the timeout, and the head of the sleep.
GoOn ==
  \/ now >= Timeout /\ Settle("timed out")
  \/ now < Timeout /\ aborted /\ Settle("AbortError")
  \/ now < Timeout /\ ~ aborted /\ Sleep

\* waitFor: the transaction, a 404 or, for null, an error of unwrapTransaction.
TransactionAnswered ==
  /\ Transaction
  /\ phase = "answered"
  /\ \/ snapshot = "reached" /\ Settle("reached")
     \/ snapshot = "absent" /\ GoOn
     \/ snapshot = "null" /\ Settle("error")
  /\ UNCHANGED <<world, now, aborted>>

\* What the local clock makes of the expiration time in a schedule.  The mirror
\* node does not mark a schedule that has lapsed.
LooksExpired ==
  snapshot \in {"pending", "lapsed"} /\ expiry # None /\ now > expiry

\* Mutant: the timeout is checked before the answer.
ScheduleAnsweredTooLate ==
  /\ Schedule
  /\ phase = "answered"
  /\ \/ now >= Timeout /\ Settle("timed out")
     \/ now < Timeout /\ snapshot \in EndStates /\ Settle(snapshot)
     \/ now < Timeout /\ snapshot = "absent" /\ Settle("HieroNotFoundError")
     \/ now < Timeout /\ LooksExpired /\ Settle("expired")
     \/ now < Timeout /\ snapshot \notin EndStates \cup {"absent"} /\ ~ LooksExpired /\ GoOn
  /\ UNCHANGED <<world, now, aborted>>

\* Mutant: a schedule that has expired is taken to have been executed.
ScheduleAnsweredHopefully ==
  /\ Schedule
  /\ phase = "answered"
  /\ \/ snapshot = "absent" /\ Settle("HieroNotFoundError")
     \/ snapshot \in EndStates /\ Settle(snapshot)
     \/ LooksExpired /\ Settle("executed")
     \/ snapshot \notin EndStates \cup {"absent"} /\ ~ LooksExpired /\ GoOn
  /\ UNCHANGED <<world, now, aborted>>

\* Mutant: `deleted` is not looked at.
ScheduleAnsweredUndeleted ==
  /\ Schedule
  /\ phase = "answered"
  /\ \/ snapshot = "absent" /\ Settle("HieroNotFoundError")
     \/ snapshot \in EndStates \ {"deleted"} /\ Settle(snapshot)
     \/ LooksExpired /\ Settle("expired")
     \/ snapshot \in {"pending", "lapsed", "deleted", "null"} /\ ~ LooksExpired /\ GoOn
  /\ UNCHANGED <<world, now, aborted>>

\* waitForExecution: a 404 rejects, an end state resolves, and so does a
\* schedule that looks expired.  Of null mapSchedule makes a schedule with no
\* times at all.
ScheduleAnswered ==
  /\ Schedule
  /\ phase = "answered"
  /\ \/ snapshot = "absent" /\ Settle("HieroNotFoundError")
     \/ snapshot \in EndStates /\ Settle(snapshot)
     \/ LooksExpired /\ Settle("expired")
     \/ snapshot \notin EndStates \cup {"absent"} /\ ~ LooksExpired /\ GoOn
  /\ UNCHANGED <<world, now, aborted>>

\* get() rejects with another error, or options.onPoll throws.
PollFails ==
  /\ phase = "polling" \/ (Schedule /\ phase = "answered" /\ snapshot # "absent")
  /\ Settle("error")
  /\ UNCHANGED <<world, now, aborted>>

Wake ==
  /\ phase = "sleeping"
  /\ now >= wakeAt
  /\ LoopHead
  /\ UNCHANGED <<world, now, aborted>>

\* Mutant: the timer of the sleep is cleared but its promise is forgotten.
AbortHangs ==
  /\ ~ aborted
  /\ phase # "settled"
  /\ aborted' = TRUE
  /\ phase' = IF phase = "sleeping" THEN "hung" ELSE phase
  /\ UNCHANGED <<world, now, snapshot, wakeAt, outcome, pollBegan>>

\* The caller aborts: a sleep rejects at once, anything else goes on.
Abort ==
  /\ ~ aborted
  /\ phase # "settled"
  /\ aborted' = TRUE
  /\ IF phase = "sleeping" THEN Settle("AbortError") ELSE UNCHANGED loop
  /\ UNCHANGED <<world, now>>

\* Time passes.  Timers are on time, and a poll takes no longer than MaxPoll.
Tick ==
  /\ phase \in {"polling", "answered", "sleeping"}
  /\ now < wakeAt
  /\ now' = now + 1
  /\ UNCHANGED <<world, aborted, loop>>

Next ==
  \/ Consensus
  \/ Ingest
  \/ Call
  \/ MirrorAnswers
  \/ TransactionAnswered
  \/ ScheduleAnswered
  \/ PollFails
  \/ Wake
  \/ Abort
  \/ Tick

\* Every poll settles (HttpClient) and time goes on.  Neither consensus nor
\* ingestion need ever happen.
Fairness ==
  /\ WF_vars(Call)
  /\ WF_vars(MirrorAnswers)
  /\ WF_vars(TransactionAnswered \/ ScheduleAnswered)
  /\ WF_vars(Wake)
  /\ WF_vars(Tick)

Spec == Init /\ [][Next]_vars /\ Fairness

----------------------------------------------------------------------------
(* Properties *)

States == {"absent", "pending", "lapsed"} \cup EndStates

\* The loop and the network are well typed.
TypeOK ==
  /\ target \in {"transaction", "schedule"}
  /\ expiry \in Int \cup {None}
  /\ truth \in States
  /\ mirror \in States
  /\ now \in Nat
  /\ phase \in {"called", "polling", "answered", "sleeping", "settled"}
  /\ snapshot \in States \cup {"null", None}
  /\ wakeAt \in Nat
  /\ aborted \in BOOLEAN
  /\ outcome \in EndStates \cup
       {"expired", "timed out", "error", "HieroNotFoundError", "AbortError", None}
  /\ visibleAt \in Nat \cup {None}
  /\ pollBegan \in Nat

\* A call that resolves with a transaction, or with an executed or a deleted
\* schedule, tells what consensus has decided, although every answer is old.
OutcomeIsTrue == outcome \in EndStates => outcome = truth

\* The loop outlives its timeout by no more than one sleep and one poll, and
\* never gives up before it.
WaitIsBounded ==
  /\ now <= Timeout + Interval + MaxPoll
  /\ outcome = "timed out" => now >= Timeout

\* Neither loop sleeps again after a poll that began when the mirror node showed
\* an end state, unless that poll met an evicted cache entry.  waitFor, whose
\* interval is said to be the time between polls, is then done within one sleep
\* and two polls, the one that was answered just before and the one that finds
\* the transaction.  For waitForExecution no time is claimed: its comment says
\* that it polls less and less often.
EndStatesAreNoticed ==
  visibleAt # None =>
    /\ (phase = "sleeping" /\ pollBegan > visibleAt) => snapshot = "null"
    /\ (Transaction /\ phase # "settled") => now <= visibleAt + Interval + 2 * MaxPoll

\* The loop never gives up although the mirror node showed an end state before
\* the last poll, unless that poll met an evicted cache entry.
NothingVisibleIsMissed ==
  (outcome = "timed out" /\ visibleAt # None) =>
    visibleAt >= pollBegan \/ snapshot = "null"

\* Once the signal is aborted no further poll begins.
NoPollAfterAbort ==
  [][aborted /\ phase # "polling" => phase' # "polling"]_vars

\* Every call settles.
EveryWaitSettles == <>(phase = "settled")

\* The comment on waitForExecution: it polls "until it reaches a terminal
\* state (executed, deleted, or expired)", so a schedule that is reported
\* expired has not been executed, then or later.
ExpiredIsFinal ==
  outcome = "expired" => truth # "executed"
=============================================================================
