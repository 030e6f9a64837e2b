------------------------ MODULE RateLimiterProofs ------------------------
(***************************************************************************)
(* Proofs about RateLimiter for every number of callers, every rate and    *)
(* every length of the run: typing, the bound on the debt of the bucket,   *)
(* and that waiting callers are not overtaken.                             *)
(***************************************************************************)
EXTENDS RateLimiter, FiniteSetTheorems, SequenceTheorems, TLAPS

----------------------------------------------------------------------------
(* Arithmetic *)

\* Multiplication distributes over the elapsed time.
LEMMA MulDistributes ==
  ASSUME NEW k \in Int, NEW a \in Int, NEW b \in Int
  PROVE  /\ k * (a + b) = k * a + k * b
         /\ k * (a - b) = k * a - k * b
OBVIOUS

\* A longer wait refills more.
LEMMA MulMonotone ==
  ASSUME NEW k \in Nat, NEW a \in Int, NEW b \in Int, a <= b
  PROVE  k * a <= k * b
OBVIOUS

\* A product of integers is an integer.
LEMMA ProductIsInt ==
  ASSUME NEW k \in Int, NEW a \in Int
  PROVE  k * a \in Int
OBVIOUS

\* The rounding of waitMs: enough, and not one tick more than enough.
LEMMA CeilingDivision ==
  ASSUME NEW d \in Nat, NEW r \in Nat \ {0}
  PROVE  /\ (d + r - 1) \div r \in Nat
         /\ r * ((d + r - 1) \div r) >= d
         /\ r * ((d + r - 1) \div r - 1) < d
<1> DEFINE a == d + r - 1
           q == a \div r
<1>1. a \in Nat
  OBVIOUS
<1>2. q \in Int /\ a = (r * q) + (a % r) /\ (a % r) \in 0 .. (r - 1)
  BY <1>1
<1>3. q >= 0
  BY <1>1
<1>4. r * (q - 1) = r * q - r
  BY <1>2, MulDistributes
<1> QED BY <1>1, <1>2, <1>3, <1>4

\* A caller that arms a timer at tick `now` over `held` units finds a whole
\* token when it is due, and not one tick earlier.
LEMMA WaitCovers ==
  ASSUME NEW held \in Int, held < Cost
  PROVE  /\ WaitMs(held) \in Nat
         /\ held + Rps * WaitMs(held) >= Cost
         /\ held + Rps * (WaitMs(held) - 1) < Cost
<1>1. Cost - held \in Nat
  BY MsPerSecondAssumption DEF Cost
<1>2. WaitMs(held) = ((Cost - held) + Rps - 1) \div Rps
  BY DEF WaitMs
<1> QED
  BY <1>1, <1>2, CeilingDivision, RpsAssumption, MsPerSecondAssumption DEF Cost

\* The capacity of the bucket is at least one token.
LEMMA CapacityHoldsAToken ==
  MaxTokens \in Nat /\ Cost \in Nat /\ Cost > 0 /\ MaxTokens >= Cost
<1>1. MsPerSecond * 1 <= MsPerSecond * Rps
  BY MulMonotone, RpsAssumption, MsPerSecondAssumption
<1> QED BY <1>1, RpsAssumption, MsPerSecondAssumption DEF MaxTokens, Cost

\* A refill leaves the bucket full, or adds the refill of the elapsed time.
LEMMA AvailableBounds ==
  ASSUME TypeOK
  PROVE  /\ Available \in Int
         /\ Available <= MaxTokens
         /\ Available >= tokens
         /\ Available <= tokens + Rps * (now - lastRefill)
         /\ Available = MaxTokens \/ Available = tokens + Rps * (now - lastRefill)
<1>1. now - lastRefill \in Nat
  BY DEF TypeOK
<1>2. Rps * (now - lastRefill) \in Nat
  BY <1>1, RpsAssumption
<1> QED
  BY <1>2, CapacityHoldsAToken DEF Available, TypeOK

----------------------------------------------------------------------------
(* Typing *)

\* The new limiter is well typed.
LEMMA TypeInit == Init => TypeOK
BY CapacityHoldsAToken DEF Init, TypeOK, NoTimer

\* Every step keeps the state well typed.
LEMMA TypeStep ==
  ASSUME TypeOK, [Next]_vars
  PROVE  TypeOK'
<1>0. /\ Available \in Int
      /\ Available <= MaxTokens
      /\ Cost \in Nat /\ MaxTokens \in Nat
  BY AvailableBounds, CapacityHoldsAToken
<1>1. ASSUME NEW c \in Callers, AcquireNow(c)
      PROVE  TypeOK'
  BY <1>0, <1>1 DEF AcquireNow, Refill, TypeOK
<1>2. ASSUME NEW c \in Callers, AcquireWait(c)
      PROVE  TypeOK'
  <2>1. WaitMs(Available) \in Nat
    BY <1>0, <1>2, WaitCovers DEF AcquireWait
  <2> QED BY <1>0, <1>2, <2>1 DEF AcquireWait, Refill, TypeOK
<1>3. ASSUME NEW c \in Callers, AcquireAborted(c)
      PROVE  TypeOK'
  BY <1>0, <1>3 DEF AcquireAborted, Refill, TypeOK
<1>4. ASSUME NEW c \in Callers, TimerFires(c)
      PROVE  TypeOK'
  BY <1>0, <1>4 DEF TimerFires, Refill, TypeOK
<1>5. ASSUME NEW c \in Callers, AbortWait(c)
      PROVE  TypeOK'
  BY <1>5 DEF AbortWait, TypeOK
<1>6. CASE ReadAvailable
  BY <1>0, <1>6 DEF ReadAvailable, Refill, TypeOK
<1>7. CASE Tick
  BY <1>7 DEF Tick, TypeOK
<1>8. CASE UNCHANGED vars
  BY <1>8 DEF vars, TypeOK
<1> QED
  BY <1>1, <1>2, <1>3, <1>4, <1>5, <1>6, <1>7, <1>8 DEF Next

\* Typing holds in every reachable state.
THEOREM TypeCorrect == Spec => []TypeOK
<1>1. TypeOK /\ [Next]_vars => TypeOK'
  BY TypeStep
<1> QED
  BY <1>1, TypeInit, PTL DEF Spec

----------------------------------------------------------------------------
(* The debt of the bucket *)

\* The number of callers due by a tick is a natural number, at most one for
\* each caller.
LEMMA DueByBounds ==
  ASSUME NEW t \in Int
  PROVE  /\ IsFiniteSet(DueBy(t))
         /\ Cardinality(DueBy(t)) \in Nat
         /\ Cardinality(Callers) \in Nat
         /\ Cardinality(DueBy(t)) <= Cardinality(Callers)
<1>1. DueBy(t) \in SUBSET Callers
  BY DEF DueBy, Waiting
<1> QED
  BY <1>1, CallersAssumption, FS_Subset, FS_CardinalityType

\* A caller that is not waiting is not counted.
LEMMA DueByOthers ==
  ASSUME NEW t \in Int, NEW c \in Callers, c \notin Waiting
  PROVE  Cardinality(DueBy(t)) <= Cardinality(Callers) - 1
<1>1. DueBy(t) \in SUBSET (Callers \ {c})
  BY DEF DueBy, Waiting
<1>2. /\ IsFiniteSet(Callers \ {c})
      /\ Cardinality(Callers \ {c}) = Cardinality(Callers) - 1
  BY CallersAssumption, FS_RemoveElement
<1> QED
  BY <1>1, <1>2, FS_Subset

\* The slope of Cost: a smaller count asks for less.
LEMMA CostMonotone ==
  ASSUME NEW a \in Int, NEW b \in Int, a <= b
  PROVE  /\ Cost * a \in Int
         /\ Cost * a <= Cost * b
         /\ Cost * (a - 1) = Cost * a - Cost
BY MulMonotone, MulDistributes, CapacityHoldsAToken

\* A refill at tick `now` keeps the bucket solvent for the same callers.
LEMMA RefillKeepsSolvent ==
  ASSUME TypeOK, Solvent(Nat), NEW t \in Nat, t >= now
  PROVE  Available + Rps * (t - now)
           >= Cost * (Cardinality(DueBy(t)) - (Cardinality(Callers) - 1))
<1> DEFINE k == Cardinality(DueBy(t)) - (Cardinality(Callers) - 1)
<1>1. k \in Int /\ k <= 1
  BY DueByBounds
<1>2. Rps * (t - now) \in Nat
  BY RpsAssumption DEF TypeOK
<1>3. Cost * k <= Cost /\ Cost * k \in Int
  BY <1>1, MulMonotone, CapacityHoldsAToken
<1>4. CASE Available = MaxTokens
  BY <1>2, <1>3, <1>4, CapacityHoldsAToken
<1>5. CASE Available = tokens + Rps * (now - lastRefill)
  <2>1. tokens + Rps * (t - lastRefill) >= Cost * k
    BY DEF Solvent, SolventAt, TypeOK
  <2>2. Rps * (t - lastRefill) = Rps * (now - lastRefill) + Rps * (t - now)
    <3>1. t - lastRefill = (now - lastRefill) + (t - now)
      BY DEF TypeOK
    <3> QED BY <3>1, MulDistributes, RpsAssumption DEF TypeOK
  <2>3. Rps * (now - lastRefill) \in Int
    BY RpsAssumption DEF TypeOK
  <2> QED BY <1>2, <1>3, <1>5, <2>1, <2>2, <2>3 DEF TypeOK
<1> QED
  BY <1>4, <1>5, AvailableBounds

\* Every step keeps the bucket solvent.
LEMMA SolventStep ==
  ASSUME TypeOK, Solvent(Nat), [Next]_vars
  PROVE  Solvent(Nat)'
<1> SUFFICES ASSUME NEW t \in Nat, t >= lastRefill'
             PROVE  tokens' + Rps * (t - lastRefill')
                      >= Cost * (Cardinality(DueBy(t)') - (Cardinality(Callers) - 1))
  BY DEF Solvent, SolventAt
<1> DEFINE n == Cardinality(Callers)
           due == Cardinality(DueBy(t))
           k == due - (n - 1)
<1>0. /\ Available \in Int /\ Cost \in Nat /\ Cost > 0
      /\ due \in Nat /\ n \in Nat /\ due <= n /\ k \in Int
      /\ Cost * k \in Int
      /\ now \in Nat /\ now >= lastRefill /\ lastRefill \in Nat /\ tokens \in Int
  <2>1. t \in Int
    OBVIOUS
  <2>2. /\ IsFiniteSet(DueBy(t)) /\ due \in Nat /\ n \in Nat /\ due <= n
    BY <2>1, DueByBounds
  <2>3. k \in Int /\ Cost * k \in Int
    BY <2>2, CapacityHoldsAToken
  <2>4. now \in Nat /\ now >= lastRefill /\ lastRefill \in Nat /\ tokens \in Int
    BY DEF TypeOK
  <2> QED BY <2>2, <2>3, <2>4, AvailableBounds, CapacityHoldsAToken
<1>1. ASSUME NEW c \in Callers, AcquireNow(c)
      PROVE  tokens' + Rps * (t - lastRefill') >= Cost * (Cardinality(DueBy(t)') - (n - 1))
  <2>1. DueBy(t)' = DueBy(t) /\ lastRefill' = now /\ tokens' >= 0 /\ tokens' \in Int
    BY <1>0, <1>1 DEF AcquireNow, Refill, DueBy, Waiting
  <2>2. k <= 0
    <3>1. t \in Int /\ c \notin Waiting
      BY <1>1 DEF AcquireNow, Waiting
    <3>2. due <= n - 1
      BY <3>1, DueByOthers
    <3> QED BY <1>0, <3>2
  <2>3. Cost * k <= 0
    BY <1>0, <2>2, MulMonotone
  <2>4. Rps * (t - now) \in Nat
    BY <1>0, <2>1, RpsAssumption
  <2> QED BY <1>0, <2>1, <2>3, <2>4
<1>2. ASSUME NEW c \in Callers, AcquireWait(c)
      PROVE  tokens' + Rps * (t - lastRefill') >= Cost * (Cardinality(DueBy(t)') - (n - 1))
  <2>1. /\ lastRefill' = now /\ tokens' = Available /\ t >= now
        /\ WaitMs(Available) \in Nat
        /\ Available + Rps * WaitMs(Available) >= Cost
    BY <1>0, <1>2, WaitCovers DEF AcquireWait, Refill
  <2>2. timer' = [timer EXCEPT ![c] = now + WaitMs(Available)]
    BY <1>2 DEF AcquireWait
  <2>3. CASE t < now + WaitMs(Available)
    <3>1. DueBy(t)' = DueBy(t)
      BY <1>0, <1>2, <2>1, <2>2, <2>3 DEF AcquireWait, DueBy, Waiting, TypeOK, NoTimer
    <3> QED BY <2>1, <3>1, RefillKeepsSolvent
  <2>4. CASE t >= now + WaitMs(Available)
    <3>1. Rps * WaitMs(Available) <= Rps * (t - now)
      BY <1>0, <2>1, <2>4, MulMonotone, RpsAssumption
    <3>2. DueBy(t)' \in SUBSET Callers
      BY DEF DueBy, Waiting
    <3>3. Cardinality(DueBy(t)') \in Nat /\ Cardinality(DueBy(t)') <= n
      BY <3>2, CallersAssumption, FS_Subset, FS_CardinalityType
    <3>4. /\ Cost * (Cardinality(DueBy(t)') - (n - 1)) <= Cost
          /\ Cost * (Cardinality(DueBy(t)') - (n - 1)) \in Int
      BY <1>0, <3>3, MulMonotone
    <3>5. Rps * WaitMs(Available) \in Int /\ Rps * (t - now) \in Int
      BY <1>0, <2>1, RpsAssumption
    <3> QED BY <1>0, <2>1, <3>1, <3>4, <3>5
  <2> QED BY <1>0, <2>1, <2>3, <2>4
<1>3. ASSUME NEW c \in Callers, AcquireAborted(c)
      PROVE  tokens' + Rps * (t - lastRefill') >= Cost * (Cardinality(DueBy(t)') - (n - 1))
  BY <1>3, RefillKeepsSolvent DEF AcquireAborted, Refill, DueBy, Waiting
<1>4. ASSUME NEW c \in Callers, TimerFires(c)
      PROVE  tokens' + Rps * (t - lastRefill') >= Cost * (Cardinality(DueBy(t)') - (n - 1))
  <2>1. /\ lastRefill' = now /\ tokens' = Available - Cost /\ t >= now
        /\ timer' = [timer EXCEPT ![c] = NoTimer]
        /\ c \in DueBy(t)
    BY <1>4, <1>0 DEF TimerFires, Refill, DueBy, Waiting, TypeOK, NoTimer
  <2>2. DueBy(t)' = DueBy(t) \ {c}
    BY <2>1 DEF DueBy, Waiting, TypeOK, NoTimer
  <2>3. Cardinality(DueBy(t)') = due - 1
    <3>1. IsFiniteSet(DueBy(t))
      BY DueByBounds
    <3>2. Cardinality(DueBy(t) \ {c}) = due - 1
      BY <2>1, <3>1, FS_RemoveElement
    <3> QED BY <2>2, <3>2
  <2>4. Cost * (Cardinality(DueBy(t)') - (n - 1)) = Cost * k - Cost
    <3>1. Cardinality(DueBy(t)') - (n - 1) = k - 1
      BY <1>0, <2>3
    <3> QED BY <1>0, <3>1, CostMonotone
  <2>5. Rps * (t - now) \in Int
    BY <1>0, RpsAssumption
  <2> QED BY <1>0, <2>1, <2>4, <2>5, RefillKeepsSolvent
<1>5. ASSUME NEW c \in Callers, AbortWait(c)
      PROVE  tokens' + Rps * (t - lastRefill') >= Cost * (Cardinality(DueBy(t)') - (n - 1))
  <2>1. DueBy(t)' \in SUBSET DueBy(t) /\ tokens' = tokens /\ lastRefill' = lastRefill
    BY <1>5 DEF AbortWait, DueBy, Waiting, TypeOK, NoTimer
  <2>2. Cardinality(DueBy(t)') <= due /\ Cardinality(DueBy(t)') \in Nat
    BY <2>1, DueByBounds, FS_Subset, FS_CardinalityType
  <2>3. /\ Cost * (Cardinality(DueBy(t)') - (n - 1)) <= Cost * k
        /\ Cost * (Cardinality(DueBy(t)') - (n - 1)) \in Int
    BY <1>0, <2>2, CostMonotone
  <2>4. Rps * (t - lastRefill) \in Int
    BY <1>0, RpsAssumption
  <2>5. tokens + Rps * (t - lastRefill) >= Cost * k
    BY <2>1 DEF Solvent, SolventAt
  <2> QED BY <1>0, <2>1, <2>3, <2>4, <2>5
<1>6. CASE ReadAvailable
  BY <1>6, RefillKeepsSolvent DEF ReadAvailable, Refill, DueBy, Waiting
<1>7. CASE Tick
  BY <1>7 DEF Tick, Solvent, SolventAt, DueBy, Waiting
<1>8. CASE UNCHANGED vars
  BY <1>8 DEF vars, Solvent, SolventAt, DueBy, Waiting
<1> QED
  BY <1>1, <1>2, <1>3, <1>4, <1>5, <1>6, <1>7, <1>8 DEF Next

----------------------------------------------------------------------------
(* Waiting callers are not overtaken *)

\* A refill at tick `now` leaves every waiting caller short before its timer.
LEMMA RefillKeepsStarved ==
  ASSUME TypeOK, Starved, NEW c \in Waiting
  PROVE  Available + Rps * (timer[c] - 1 - now) < Cost
<1>1. timer[c] \in Nat
  BY DEF Waiting, TypeOK
<1>2. Rps * (timer[c] - 1 - lastRefill)
        = Rps * (now - lastRefill) + Rps * (timer[c] - 1 - now)
  <2>1. timer[c] - 1 - lastRefill = (now - lastRefill) + (timer[c] - 1 - now)
    BY <1>1 DEF TypeOK
  <2> QED BY <1>1, <2>1, MulDistributes, RpsAssumption DEF TypeOK
<1>3. /\ Rps * (now - lastRefill) \in Int
      /\ Rps * (timer[c] - 1 - now) \in Int
  BY <1>1, RpsAssumption DEF TypeOK
<1>4. tokens + Rps * (timer[c] - 1 - lastRefill) < Cost
  BY DEF Starved
<1> QED
  BY <1>2, <1>3, <1>4, AvailableBounds, CapacityHoldsAToken DEF TypeOK

\* Every step keeps every waiting caller short before its timer.
LEMMA StarvedStep ==
  ASSUME TypeOK, Starved, [Next]_vars
  PROVE  Starved'
<1>0. /\ Available \in Int /\ Cost \in Nat /\ Cost > 0 /\ now \in Nat
      /\ \A c \in Waiting : Rps * (timer[c] - 1 - now) \in Int
  BY AvailableBounds, CapacityHoldsAToken, RpsAssumption DEF TypeOK, Waiting
<1>1. ASSUME NEW c \in Callers, AcquireNow(c)
      PROVE  Starved'
  <2>1. /\ Waiting' = Waiting /\ timer' = timer
        /\ lastRefill' = now /\ tokens' = Available - Cost
    BY <1>1 DEF AcquireNow, Refill, Waiting
  <2>2. \A w \in Waiting : (Available - Cost) + Rps * (timer[w] - 1 - now) < Cost
    BY <1>0, RefillKeepsStarved
  <2> QED BY <2>1, <2>2 DEF Starved
<1>2. ASSUME NEW c \in Callers, AcquireWait(c)
      PROVE  Starved'
  <2>1. /\ lastRefill' = now /\ tokens' = Available
        /\ WaitMs(Available) \in Nat
        /\ Available + Rps * (WaitMs(Available) - 1) < Cost
    BY <1>0, <1>2, WaitCovers DEF AcquireWait, Refill
  <2>2. timer' = [timer EXCEPT ![c] = now + WaitMs(Available)]
    BY <1>2 DEF AcquireWait
  <2>3. ASSUME NEW w \in Waiting'
        PROVE  tokens' + Rps * (timer'[w] - 1 - lastRefill') < Cost
    <3>1. CASE w = c
      <4>1. timer'[w] - 1 - now = WaitMs(Available) - 1
        BY <1>0, <2>1, <2>2, <3>1 DEF TypeOK
      <4> QED BY <2>1, <4>1
    <3>2. CASE w # c
      <4>1. w \in Waiting /\ timer'[w] = timer[w]
        BY <2>2, <2>3, <3>2 DEF Waiting, TypeOK
      <4> QED BY <2>1, <4>1, RefillKeepsStarved
    <3> QED BY <3>1, <3>2
  <2> QED BY <2>3 DEF Starved
<1>3. ASSUME NEW c \in Callers, AcquireAborted(c)
      PROVE  Starved'
  BY <1>3, RefillKeepsStarved DEF AcquireAborted, Refill, Waiting, Starved
<1>4. ASSUME NEW c \in Callers, TimerFires(c)
      PROVE  Starved'
  <2>1. /\ lastRefill' = now /\ tokens' = Available - Cost
        /\ timer' = [timer EXCEPT ![c] = NoTimer]
    BY <1>4 DEF TimerFires, Refill
  <2>2. ASSUME NEW w \in Waiting'
        PROVE  tokens' + Rps * (timer'[w] - 1 - lastRefill') < Cost
    <3>1. w \in Waiting /\ timer'[w] = timer[w]
      BY <2>1, <2>2 DEF Waiting, TypeOK
    <3> QED BY <1>0, <2>1, <3>1, RefillKeepsStarved
  <2> QED BY <2>2 DEF Starved
<1>5. ASSUME NEW c \in Callers, AbortWait(c)
      PROVE  Starved'
  <2>1. \A w \in Waiting' : w \in Waiting /\ timer'[w] = timer[w]
    BY <1>5 DEF AbortWait, Waiting, TypeOK
  <2> QED BY <1>5, <2>1 DEF AbortWait, Starved
<1>6. CASE ReadAvailable
  BY <1>6, RefillKeepsStarved DEF ReadAvailable, Refill, Waiting, Starved
<1>7. CASE Tick
  BY <1>7 DEF Tick, Starved, Waiting
<1>8. CASE UNCHANGED vars
  BY <1>8 DEF vars, Starved, Waiting
<1> QED
  BY <1>1, <1>2, <1>3, <1>4, <1>5, <1>6, <1>7, <1>8 DEF Next

----------------------------------------------------------------------------
(* Conformance of the admitted requests *)

\* Two bounds that share a summand add up.
LEMMA BoundsAddUp ==
  ASSUME NEW a \in Int, NEW b \in Int, NEW c \in Int, NEW m \in Int,
         NEW x \in Int, NEW y \in Int,
         a <= b + x, b + c <= m + y
  PROVE  a + c <= m + (x + y)
OBVIOUS

\* A refill pays for the open windows up to tick `now`.
LEMMA RefillKeepsMetered ==
  ASSUME TypeOK, Metered, NEW i \in DOMAIN grants
  PROVE  /\ grants[i] \in Nat
         /\ grants[i] <= now
         /\ Available + Cost * (Len(grants) - i + 1)
              <= MaxTokens + Rps * (now - grants[i])
<1>1. grants[i] \in Nat /\ i \in Nat /\ Len(grants) \in Nat
  BY DEF TypeOK
<1>2. /\ grants[i] <= lastRefill
      /\ tokens + Cost * (Len(grants) - i + 1)
           <= MaxTokens + Rps * (lastRefill - grants[i])
  BY DEF Metered
<1>3. Rps * (now - grants[i])
        = Rps * (now - lastRefill) + Rps * (lastRefill - grants[i])
  <2>1. now - grants[i] = (now - lastRefill) + (lastRefill - grants[i])
    BY <1>1 DEF TypeOK
  <2> QED BY <1>1, <2>1, MulDistributes, RpsAssumption DEF TypeOK
<1>4. /\ Rps * (now - lastRefill) \in Int
      /\ Rps * (lastRefill - grants[i]) \in Int
      /\ Cost * (Len(grants) - i + 1) \in Int
  BY <1>1, CapacityHoldsAToken, RpsAssumption DEF TypeOK
<1>5. grants[i] <= now
  BY <1>1, <1>2 DEF TypeOK
<1>6. /\ Available \in Int /\ tokens \in Int /\ MaxTokens \in Int
      /\ Available <= tokens + Rps * (now - lastRefill)
  BY AvailableBounds, CapacityHoldsAToken DEF TypeOK
<1>7. Available + Cost * (Len(grants) - i + 1)
        <= MaxTokens + (Rps * (now - lastRefill) + Rps * (lastRefill - grants[i]))
  BY <1>2, <1>4, <1>6, BoundsAddUp
<1> QED
  BY <1>1, <1>3, <1>5, <1>7

\* A grant after a refill keeps the meter of the open windows.
LEMMA GrantKeepsMetered ==
  ASSUME TypeOK, Metered,
         lastRefill' = now,
         tokens' = Available - Cost,
         grants' = Append(grants, now)
  PROVE  Metered'
<1> DEFINE len == Len(grants)
<1>0. /\ Available \in Int /\ Available <= MaxTokens
      /\ Cost \in Nat /\ MaxTokens \in Nat /\ now \in Nat
  BY AvailableBounds, CapacityHoldsAToken DEF TypeOK
<1>1. /\ len \in Nat /\ Len(grants') = len + 1
      /\ DOMAIN grants' = 1 .. len + 1
      /\ \A i \in 1 .. len : grants'[i] = grants[i]
      /\ grants'[len + 1] = now
  BY <1>0, AppendProperties DEF TypeOK
<1>2. ASSUME NEW i \in DOMAIN grants'
      PROVE  /\ grants'[i] <= lastRefill'
             /\ tokens' + Cost * (Len(grants') - i + 1)
                  <= MaxTokens + Rps * (lastRefill' - grants'[i])
  <2>1. CASE i = len + 1
    <3>1. Len(grants') - i + 1 = 1 /\ lastRefill' - grants'[i] = 0
      BY <1>0, <1>1, <2>1
    <3>2. Cost * 1 = Cost /\ Rps * 0 = 0
      BY <1>0, RpsAssumption
    <3> QED BY <1>0, <1>1, <2>1, <3>1, <3>2
  <2>2. CASE i # len + 1
    <3>1. i \in DOMAIN grants /\ i \in Nat /\ grants'[i] = grants[i]
      BY <1>1, <1>2, <2>2 DEF TypeOK
    <3>2. Cost * (Len(grants') - i + 1) = Cost * (len - i + 1) + Cost
      <4>1. Len(grants') - i + 1 = (len - i + 1) + 1
        BY <1>1, <3>1
      <4> QED BY <1>0, <1>1, <3>1, <4>1, MulDistributes
    <3>3. /\ grants[i] \in Nat /\ grants[i] <= now
          /\ Available + Cost * (len - i + 1) <= MaxTokens + Rps * (now - grants[i])
      BY <3>1, RefillKeepsMetered
    <3>4. len - i + 1 \in Int /\ now - grants[i] \in Int
      <4>1. len \in Int /\ i \in Int /\ now \in Int /\ grants[i] \in Int
        BY <1>0, <1>1, <3>1, <3>3
      <4> QED BY <4>1
    <3>5. Cost * (len - i + 1) \in Int /\ Rps * (now - grants[i]) \in Int
      BY <1>0, <3>4, RpsAssumption
    <3>6. tokens' + (Cost * (len - i + 1) + Cost) = Available + Cost * (len - i + 1)
      BY <1>0, <3>5
    <3> QED BY <1>0, <3>1, <3>2, <3>3, <3>5, <3>6
  <2> QED BY <2>1, <2>2
<1> QED BY <1>2 DEF Metered

\* Every step keeps the meter of the open windows.
LEMMA MeteredStep ==
  ASSUME TypeOK, Metered, [Next]_vars
  PROVE  Metered'
<1>1. ASSUME NEW c \in Callers, AcquireNow(c) \/ TimerFires(c)
      PROVE  Metered'
  BY <1>1, GrantKeepsMetered DEF AcquireNow, TimerFires, Refill
<1>2. ASSUME NEW c \in Callers,
             AcquireWait(c) \/ AcquireAborted(c) \/ ReadAvailable
      PROVE  Metered'
  <2>1. lastRefill' = now /\ tokens' = Available /\ grants' = grants
    BY <1>2 DEF AcquireWait, AcquireAborted, ReadAvailable, Refill
  <2> QED BY <2>1, RefillKeepsMetered DEF Metered
<1>3. CASE ReadAvailable
  BY <1>3, RefillKeepsMetered DEF ReadAvailable, Refill, Metered
<1>4. ASSUME NEW c \in Callers, AbortWait(c)
      PROVE  Metered'
  BY <1>4 DEF AbortWait, Metered
<1>5. CASE Tick
  BY <1>5 DEF Tick, Metered
<1>6. CASE UNCHANGED vars
  BY <1>6 DEF vars, Metered
<1> QED
  BY <1>1, <1>2, <1>3, <1>4, <1>5, <1>6 DEF Next

\* Windows that are metered, and a bounded debt, make the windows conform.
LEMMA GrantKeepsConformance ==
  ASSUME TypeOK, WindowConformance, Metered', DebtBounded',
         tokens' \in Int, lastRefill' = now,
         grants' = Append(grants, now)
  PROVE  WindowConformance'
<1> DEFINE len == Len(grants)
           n == Cardinality(Callers)
<1>0. /\ Cost \in Nat /\ MaxTokens \in Nat /\ now \in Nat /\ n \in Nat
  BY CapacityHoldsAToken, CallersAssumption, FS_CardinalityType DEF TypeOK
<1>1. /\ len \in Nat /\ Len(grants') = len + 1
      /\ DOMAIN grants' = 1 .. len + 1
      /\ \A i \in 1 .. len : grants'[i] = grants[i] /\ grants[i] \in Nat
      /\ grants'[len + 1] = now
  BY <1>0, AppendProperties DEF TypeOK
<1>2. ASSUME NEW i \in DOMAIN grants', NEW j \in i .. Len(grants')
      PROVE  Cost * (j - i + 1)
               <= MaxTokens + Rps * (grants'[j] - grants'[i]) + Cost * (n - 1)
  <2>1. CASE j = len + 1
    <3>1. tokens' + Cost * (j - i + 1) <= MaxTokens + Rps * (grants'[j] - grants'[i])
      BY <1>1, <2>1 DEF Metered
    <3>2. tokens' >= Cost * (1 - n)
      BY DEF DebtBounded
    <3>3. /\ Cost * (1 - n) + Cost * (n - 1) = 0
          /\ Cost * (1 - n) \in Int /\ Cost * (n - 1) \in Int
      <4>1. Cost * (1 - n) = Cost * 1 - Cost * n /\ Cost * (n - 1) = Cost * n - Cost * 1
        BY <1>0, MulDistributes
      <4> QED BY <1>0, <4>1
    <3>4. grants'[j] - grants'[i] \in Int /\ j - i + 1 \in Int
      BY <1>0, <1>1, <1>2
    <3>5. Cost * (j - i + 1) \in Int /\ Rps * (grants'[j] - grants'[i]) \in Int
      BY <1>0, <3>4, ProductIsInt, RpsAssumption
    <3>6. PICK charged \in Int, income \in Int, debt \in Int :
            /\ charged = Cost * (j - i + 1)
            /\ income = Rps * (grants'[j] - grants'[i])
            /\ debt = Cost * (n - 1)
      BY <3>3, <3>5
    <3>7. tokens' + charged <= MaxTokens + income
      BY <3>1, <3>6
    <3>8. tokens' + debt >= 0
      <4>1. tokens' >= Cost * (1 - n) /\ Cost * (1 - n) + debt = 0
        BY <3>2, <3>3, <3>6
      <4> QED BY <3>3, <3>6, <4>1
    <3>9. charged <= MaxTokens + income + debt
      <4>1. PICK held \in Int, burst \in Int : held = tokens' /\ burst = MaxTokens
        BY <1>0
      <4>2. held + charged <= burst + income /\ held + debt >= 0
        BY <3>7, <3>8, <4>1
      <4>3. charged <= burst + income + debt
        BY <4>2
      <4> QED BY <4>1, <4>3
    <3> QED BY <3>6, <3>9
  <2>2. CASE j # len + 1
    <3>1. /\ i \in DOMAIN grants /\ j \in i .. Len(grants)
          /\ grants'[i] = grants[i] /\ grants'[j] = grants[j]
      BY <1>1, <1>2, <2>2 DEF TypeOK
    <3> QED BY <3>1 DEF WindowConformance
  <2> QED BY <2>1, <2>2
<1> QED BY <1>2 DEF WindowConformance

----------------------------------------------------------------------------
(* The theorems *)

\* What the steps preserve together.
Invariant ==
  /\ TypeOK
  /\ Solvent(Nat)
  /\ Starved
  /\ Metered
  /\ WindowConformance

\* At the last refill itself, solvency is the bound on the debt.
LEMMA SolventBoundsDebt ==
  ASSUME TypeOK, Solvent(Nat)
  PROVE  DebtBounded
<1> DEFINE n == Cardinality(Callers)
           due == Cardinality(DueBy(lastRefill))
<1>1. lastRefill \in Nat /\ lastRefill \in Int /\ tokens \in Int
  BY DEF TypeOK
<1>2. due \in Nat /\ n \in Nat
  BY <1>1, DueByBounds
<1>3. tokens + Rps * (lastRefill - lastRefill) >= Cost * (due - (n - 1))
  BY <1>1 DEF Solvent, SolventAt
<1>4. Rps * (lastRefill - lastRefill) = 0
  BY <1>1, RpsAssumption
<1>5. Cost * (1 - n) <= Cost * (due - (n - 1))
  BY <1>2, MulMonotone, CapacityHoldsAToken
<1>6. Cost * (1 - n) \in Int /\ Cost * (due - (n - 1)) \in Int
  BY <1>2, CapacityHoldsAToken
<1> QED
  BY <1>1, <1>3, <1>4, <1>5, <1>6 DEF DebtBounded

\* The steps preserve the invariant.
LEMMA InvariantStep ==
  ASSUME Invariant, [Next]_vars
  PROVE  Invariant'
<1>1. TypeOK'
  BY TypeStep DEF Invariant
<1>2. Solvent(Nat)'
  BY SolventStep DEF Invariant
<1>3. DebtBounded'
  <2>1. TypeOK' /\ Solvent(Nat)' => DebtBounded'
    BY SolventBoundsDebt, PTL
  <2> QED BY <1>1, <1>2, <2>1
<1>4. Starved' /\ Metered'
  BY StarvedStep, MeteredStep DEF Invariant
<1>5. WindowConformance'
  <2>1. ASSUME NEW c \in Callers, AcquireNow(c) \/ TimerFires(c)
        PROVE  WindowConformance'
    BY <1>1, <1>3, <1>4, <2>1, GrantKeepsConformance
    DEF Invariant, AcquireNow, TimerFires, Refill, TypeOK
  <2>2. CASE grants' = grants
    BY <2>2 DEF Invariant, WindowConformance
  <2> QED
    BY <2>1, <2>2
    DEF Next, vars, AcquireWait, AcquireAborted, AbortWait, ReadAvailable, Tick
<1> QED BY <1>1, <1>2, <1>4, <1>5 DEF Invariant

\* The invariant holds in every reachable state.
THEOREM InvariantHolds == Spec => []Invariant
<1>1. Init => Invariant
  <2> SUFFICES ASSUME Init
               PROVE  Invariant
    OBVIOUS
  <2>1. TypeOK
    BY TypeInit
  <2>2. Solvent(Nat)
    <3> SUFFICES ASSUME NEW t \in Nat, t >= lastRefill
                 PROVE  SolventAt(t)
      BY DEF Solvent
    <3>1. DueBy(t) = {}
      BY DEF Init, DueBy, Waiting
    <3>2. Cardinality(DueBy(t)) = 0 /\ Cardinality(Callers) \in Nat
      BY <3>1, FS_EmptySet, FS_CardinalityType, CallersAssumption
    <3>3. Cost * (0 - (Cardinality(Callers) - 1)) <= Cost * 1
      BY <3>2, MulMonotone, CapacityHoldsAToken
    <3>4. Rps * (t - lastRefill) \in Nat
      BY RpsAssumption DEF Init
    <3>5. Cost * (0 - (Cardinality(Callers) - 1)) \in Int /\ Cost * 1 = Cost
      BY <3>2, CapacityHoldsAToken
    <3> QED
      BY <3>2, <3>3, <3>4, <3>5, CapacityHoldsAToken DEF SolventAt, Init
  <2>3. Starved /\ Metered /\ WindowConformance
    BY DEF Init, Starved, Waiting, Metered, WindowConformance
  <2> QED BY <2>1, <2>2, <2>3 DEF Invariant
<1>2. Invariant /\ [Next]_vars => Invariant'
  BY InvariantStep
<1> QED
  BY <1>1, <1>2, PTL DEF Spec

\* The bucket is never overdrawn by more than one token per other caller.
THEOREM DebtIsBounded == Spec => []DebtBounded
<1>1. Invariant => DebtBounded
  BY SolventBoundsDebt DEF Invariant
<1> QED
  BY <1>1, InvariantHolds, PTL

\* No newcomer finds a token before a waiting caller is due.
THEOREM WaitersAreNotOvertaken == Spec => []NoOvertaking
<1>1. Invariant => NoOvertaking
  <2> SUFFICES ASSUME Invariant, NEW c \in Waiting, timer[c] > now
               PROVE  Available < Cost
    BY DEF NoOvertaking
  <2>1. TypeOK /\ timer[c] \in Nat /\ now \in Nat
    BY DEF Invariant, TypeOK, Waiting
  <2>2. Available + Rps * (timer[c] - 1 - now) < Cost
    BY RefillKeepsStarved DEF Invariant
  <2>3. Rps * (timer[c] - 1 - now) \in Nat
    BY <2>1, RpsAssumption
  <2> QED
    BY <2>1, <2>2, <2>3, AvailableBounds, CapacityHoldsAToken
<1> QED
  BY <1>1, InvariantHolds, PTL

\* Every window of admitted requests conforms to the rate, the burst of a full
\* bucket and the bounded debt.
THEOREM WindowsConform == Spec => []WindowConformance
<1>1. Invariant => WindowConformance
  BY DEF Invariant
<1> QED
  BY <1>1, InvariantHolds, PTL

==========================================================================
