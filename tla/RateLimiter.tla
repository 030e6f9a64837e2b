---------------------------- MODULE RateLimiter ----------------------------
(***************************************************************************)
(* The client-side token bucket of src/http/rate-limiter.ts, shared by     *)
(* every request of one HttpClient.                                        *)
(*                                                                         *)
(* Tokens are fractional in the code.  Here they are counted in units of   *)
(* 1/MsPerSecond token, so that one millisecond refills Rps units and one  *)
(* request costs MsPerSecond units: the arithmetic is exact in Int.        *)
(* The bucket keeps no queue: a caller that finds no token arms a timer of *)
(* its own, and all armed timers share the one counter.                    *)
(***************************************************************************)
EXTENDS Integers, Sequences, FiniteSets

CONSTANTS
  Callers,      \* the promises that may be inside acquire() at one time
  Rps,          \* tokensPerSecond, also the capacity of the bucket
  MsPerSecond,  \* clock ticks in a second (1000 in the code)
  Horizon       \* bound: no acquire() starts at or after this tick

ASSUME CallersAssumption == IsFiniteSet(Callers)
ASSUME RpsAssumption == Rps \in Nat \ {0}
ASSUME MsPerSecondAssumption == MsPerSecond \in Nat \ {0}
ASSUME HorizonAssumption == Horizon \in Nat

VARIABLES
  now,         \* Date.now(), 0 when the limiter is constructed
  tokens,      \* this.tokens, in units of 1/MsPerSecond token
  lastRefill,  \* this.lastRefillTime
  timer,       \* the tick at which a caller's setTimeout is due, or NoTimer
  grants       \* history: the tick of every resolved acquire(), in order

vars == <<now, tokens, lastRefill, timer, grants>>

NoTimer == -1
Cost == MsPerSecond
MaxTokens == Rps * MsPerSecond

Waiting == {c \in Callers : timer[c] # NoTimer}

----------------------------------------------------------------------------

\* Mutant: the refill forgets the capacity.
UncappedRefill == tokens + Rps * (now - lastRefill)

\* What refill() leaves in the bucket at the current tick.
Available ==
  LET refilled == tokens + Rps * (now - lastRefill)
  IN IF refilled > MaxTokens THEN MaxTokens ELSE refilled

\* Mutant: the caller sleeps one tick after its token is there.
WaitMsLate(held) == (Cost - held) \div Rps + 1

\* Ticks until a bucket holding `held` units holds one whole token again.
WaitMs(held) == (Cost - held + Rps - 1) \div Rps

\* Mutant: the refill time is not reset, so elapsed time counts twice.
RefillForgets == UNCHANGED lastRefill

\* refill() also notes when it ran.
Refill == lastRefill' = now

Init ==
  /\ now = 0
  /\ tokens = MaxTokens
  /\ lastRefill = 0
  /\ timer = [c \in Callers |-> NoTimer]
  /\ grants = <<>>

\* acquire() finds a token: it is taken at once, whatever the signal says.
AcquireNow(c) ==
  /\ now < Horizon
  /\ timer[c] = NoTimer
  /\ Available >= Cost
  /\ Refill
  /\ tokens' = Available - Cost
  /\ grants' = Append(grants, now)
  /\ UNCHANGED <<now, timer>>

\* acquire() finds none and the signal is not aborted: the caller arms a
\* timer for the tick at which the present deficit is refilled.
AcquireWait(c) ==
  /\ now < Horizon
  /\ timer[c] = NoTimer
  /\ Available < Cost
  /\ Refill
  /\ tokens' = Available
  /\ timer' = [timer EXCEPT ![c] = now + WaitMs(Available)]
  /\ UNCHANGED <<now, grants>>

\* acquire() finds none and the signal is already aborted: it throws after
\* the refill, with no timer armed.
AcquireAborted(c) ==
  /\ now < Horizon
  /\ timer[c] = NoTimer
  /\ Available < Cost
  /\ Refill
  /\ tokens' = Available
  /\ UNCHANGED <<now, timer, grants>>

\* Mutant: the callback takes its token but stays armed.
TimerFiresAgain(c) ==
  /\ c \in Waiting
  /\ timer[c] <= now
  /\ Refill
  /\ tokens' = Available - Cost
  /\ grants' = Append(grants, now)
  /\ UNCHANGED <<now, timer>>

\* Mutant: the callback looks for a token first, and does not re-arm.
TimerFiresIfToken(c) ==
  /\ c \in Waiting
  /\ timer[c] <= now
  /\ Available >= Cost
  /\ Refill
  /\ tokens' = Available - Cost
  /\ timer' = [timer EXCEPT ![c] = NoTimer]
  /\ grants' = Append(grants, now)
  /\ UNCHANGED now

\* The timer callback: refill, take a token without looking, resolve.  Timers
\* may be late, so the callback runs at any tick from the due one on.
TimerFires(c) ==
  /\ c \in Waiting
  /\ timer[c] <= now
  /\ Refill
  /\ tokens' = Available - Cost
  /\ timer' = [timer EXCEPT ![c] = NoTimer]
  /\ grants' = Append(grants, now)
  /\ UNCHANGED now

\* onAbort of a waiting caller: the timer is cleared, no token is taken.
AbortWait(c) ==
  /\ c \in Waiting
  /\ timer' = [timer EXCEPT ![c] = NoTimer]
  /\ UNCHANGED <<now, tokens, lastRefill, grants>>

\* The availableTokens getter refills too.
ReadAvailable ==
  /\ Refill
  /\ tokens' = Available
  /\ UNCHANGED <<now, timer, grants>>

\* Time passes.  Past the horizon it goes on only for the pending timers.
Tick ==
  /\ now < Horizon \/ \E c \in Waiting : timer[c] > now
  /\ now' = now + 1
  /\ UNCHANGED <<tokens, lastRefill, timer, grants>>

Next ==
  \/ \E c \in Callers :
       \/ AcquireNow(c)
       \/ AcquireWait(c)
       \/ AcquireAborted(c)
       \/ TimerFires(c)
       \/ AbortWait(c)
  \/ ReadAvailable
  \/ Tick

\* The event loop runs a due timer eventually, and time does not stop.
Fairness ==
  /\ WF_vars(Tick)
  /\ \A c \in Callers : WF_vars(TimerFires(c))

Spec == Init /\ [][Next]_vars /\ Fairness

----------------------------------------------------------------------------

\* The limiter's state is well typed: tokens may be negative, a timer is a
\* tick or absent, and the refill time never lies in the future.
TypeOK ==
  /\ now \in Nat
  /\ tokens \in Int
  /\ tokens <= MaxTokens
  /\ lastRefill \in 0 .. now
  /\ timer \in [Callers -> Nat \cup {NoTimer}]
  /\ grants \in Seq(Nat)

\* The callers whose timer is due by tick t.
DueBy(t) == {c \in Waiting : timer[c] <= t}

\* At every tick of Ticks from the last refill on, the bucket, left alone,
\* covers the callers due by then but for one token per other caller.
SolventAt(t) ==
  tokens + Rps * (t - lastRefill)
    >= Cost * (Cardinality(DueBy(t)) - (Cardinality(Callers) - 1))

Solvent(Ticks) == \A t \in Ticks : t >= lastRefill => SolventAt(t)

\* However the acquire() calls, their timers and their aborts interleave, the
\* unconditional `this.tokens -= 1` of the timer callback overdraws the bucket
\* by at most one token for each other caller.
DebtBounded == tokens >= Cost * (1 - Cardinality(Callers))

\* One tick before its timer is due a waiting caller is still short of a token.
Starved ==
  \A c \in Waiting : tokens + Rps * (timer[c] - 1 - lastRefill) < Cost

\* A caller that has to wait is not overtaken: until its timer is due no
\* newcomer finds a token in the bucket (acquire() has no queue to ensure it).
NoOvertaking == \A c \in Waiting : timer[c] > now => Available < Cost

\* Conformance of the admitted requests over every window between two grants:
\* the burst of a full bucket, plus the refill of the window, plus the debt.
WindowConformance ==
  \A i \in DOMAIN grants : \A j \in i .. Len(grants) :
    Cost * (j - i + 1)
      <= MaxTokens + Rps * (grants[j] - grants[i])
           + Cost * (Cardinality(Callers) - 1)

\* The window that is still open: what was granted since grant i, and what is
\* left in the bucket, came from the full bucket and the refill since then.
Metered ==
  \A i \in DOMAIN grants :
    /\ grants[i] <= lastRefill
    /\ tokens + Cost * (Len(grants) - i + 1)
         <= MaxTokens + Rps * (lastRefill - grants[i])

\* Every caller that waits is let through or aborted.
EveryWaiterSettles ==
  \A c \in Callers : (c \in Waiting) ~> (c \notin Waiting)

\* The module comment's claim: a caller waits until a token is available, so
\* the bucket is never overdrawn.
NeverOverdrawn == tokens >= 0
=============================================================================
