------------------------- MODULE ConversionsProofs -------------------------
(***************************************************************************)
(* Proofs about Conversions, for every precision of numbers, every unit of *)
(* hbars and of time and every value to start from: amounts and instants   *)
(* survive any chain of conversions, compare() orders what it parsed as    *)
(* the instants it was parsed from, and bytes survive hex and base64 in    *)
(* any host.  Every spelling of a path and of an identifier leads to the   *)
(* same one, for paths of any length.  They hold of the program that also  *)
(* makes calls (ClientCalls), and so of the one that only converts.  Of    *)
(* those calls, whatever ids and parameters they are given and whatever    *)
(* integers are answered: the mirror node is asked for what was meant, and *)
(* the result says what it answered.                                       *)
(***************************************************************************)
EXTENDS ClientCalls, OperatorProofs

\* The program that only converts is one that makes no calls.
LEMMA ConvertingIsPartOfCalling == Spec => ClientSpec
<1>1. Init => Init \/ ClientInit
  OBVIOUS
<1>2. [Next]_vars => [Next \/ ClientNext]_vars
  OBVIOUS
<1> QED BY <1>1, <1>2, PTL DEF Spec, ClientSpec

\* What the steps of a call hold is nothing that conversions apply to.
LEMMA CallsAreNotConverted ==
  /\ ClientInit => form \in {"tool", "call"}
  /\ ClientNext => form' \in {"call", "rejected", "request", "object", "field"}
<1>1. ClientInit => form \in {"tool", "call"}
  BY DEF ClientInit
<1>2. ClientNext => form' \in {"call", "rejected", "request", "object", "field"}
  <2>1. CallTool => form' = "call"
    BY DEF CallTool, Becomes
  <2>2. Send => form' \in {"rejected", "request"}
    BY DEF Send, Becomes, Reject
  <2>3. Answer => form' = "object"
    BY DEF Answer, Becomes
  <2>4. ReadField => form' = "field"
    BY DEF ReadField, Becomes
  <2>5. ReadPart => form' \in {"object", "field"}
    BY DEF ReadPart, Becomes
  <2> QED BY <2>1, <2>2, <2>3, <2>4, <2>5 DEF ClientNext
<1> QED BY <1>1, <1>2

----------------------------------------------------------------------------
(* Decimal strings *)

\* The powers of ten are positive, and split into two when they are divided.
LEMMA PowersOfTen ==
  ASSUME NEW m \in Nat, NEW n \in Nat, m <= n
  PROVE  /\ Power(10, m) \in Nat \ {0}
         /\ Power(10, n - m) \in Nat \ {0}
         /\ Power(10, n) = Power(10, m) * Power(10, n - m)
<1>1. n - m \in Nat /\ m + (n - m) = n
  OBVIOUS
<1> QED BY <1>1, PowerIsPositive, PowerOfSum

\* A fraction with room to spare is padded: nothing is cut off.
LEMMA ShortFraction ==
  ASSUME NEW s, NEW n \in Nat, s.whole \in Nat, s.frac \in Nat, s.places \in Nat,
         s.places <= n
  PROVE  Scaled(s, Power(10, n)) =
           s.whole * Power(10, n) + s.frac * Power(10, n - s.places)
<1> DEFINE p == Power(10, s.places)
           k == Power(10, n - s.places)
           q == s.whole * (p * k) + s.frac * k
<1>1. p \in Nat \ {0} /\ k \in Nat \ {0} /\ Power(10, n) = p * k
  BY PowersOfTen
<1>2. Scaled(s, Power(10, n)) = ((s.whole * p + s.frac) * (p * k)) \div p
  BY <1>1 DEF Scaled
<1> HIDE DEF p, k
<1>3. (s.whole * p + s.frac) * (p * k) = q * p + 0
  BY <1>1
<1>4. q \in Int /\ 0 \in 0 .. p - 1
  BY <1>1
<1> HIDE DEF q
<1>5. (q * p + 0) \div p = q
  BY <1>1, <1>4, Quotient
<1> QED BY <1>1, <1>2, <1>3, <1>5 DEF p, k, q

\* A longer fraction is cut off behind the last digit that counts.
LEMMA LongFraction ==
  ASSUME NEW s, NEW n \in Nat, s.whole \in Nat, s.frac \in Nat, s.places \in Nat,
         n <= s.places
  PROVE  Scaled(s, Power(10, n)) =
           s.whole * Power(10, n) + (s.frac \div Power(10, s.places - n))
<1> DEFINE u == Power(10, n)
           k == Power(10, s.places - n)
           a == s.frac \div k
           b == s.frac % k
<1>1. u \in Nat \ {0} /\ k \in Nat \ {0} /\ Power(10, s.places) = u * k
  BY PowersOfTen
<1>2. Scaled(s, u) = ((s.whole * (u * k) + s.frac) * u) \div (u * k)
  BY <1>1 DEF Scaled
<1>3. a \in Int /\ b \in 0 .. k - 1 /\ s.frac = (a * k) + b
  <2> HIDE DEF k
  <2>1. s.frac \in Int /\ k \in Nat \ {0}
    BY <1>1
  <2> QED BY <2>1, Division, Zenon
<1> HIDE DEF u, k, a, b
<1>4. (s.whole * (u * k) + ((a * k) + b)) * u = (s.whole * u + a) * (u * k) + b * u
  BY <1>1, <1>3
<1>5. u * k \in Nat \ {0} /\ s.whole * u + a \in Int
  BY <1>1, <1>3
<1>6. b * u \in 0 .. u * k - 1
  <2>1. b * u >= 0 /\ b * u \in Int
    BY <1>1, <1>3
  <2>2. b + 1 <= k
    BY <1>1, <1>3
  <2>3. (b + 1) * u <= k * u
    BY <1>1, <1>3, <2>2
  <2>4. (b + 1) * u = b * u + u /\ k * u = u * k
    BY <1>1, <1>3
  <2> QED BY <1>1, <2>1, <2>3, <2>4
<1>7. ((s.whole * u + a) * (u * k) + b * u) \div (u * k) = s.whole * u + a
  BY <1>5, <1>6, Quotient
<1> QED BY <1>2, <1>3, <1>4, <1>7 DEF u, k, a

\* The digits behind the point never make a whole.
LEMMA FractionIsBelowOne ==
  ASSUME NEW n \in Nat, NEW s \in Decimals
  PROVE  /\ s.places <= n => s.frac * Power(10, n - s.places) \in 0 .. Power(10, n) - 1
         /\ n <= s.places => s.frac \div Power(10, s.places - n) \in 0 .. Power(10, n) - 1
<1>0. s.frac \in Nat /\ s.places \in Nat /\ s.frac < Power(10, s.places)
  BY DEF Decimals
<1>1. ASSUME s.places <= n
      PROVE  s.frac * Power(10, n - s.places) \in 0 .. Power(10, n) - 1
  <2> DEFINE p == Power(10, s.places)
             k == Power(10, n - s.places)
  <2>1. p \in Nat \ {0} /\ k \in Nat \ {0} /\ Power(10, n) = p * k
    BY <1>0, <1>1, PowersOfTen
  <2> HIDE DEF k
  <2>2. s.frac + 1 <= p
    BY <1>0, <2>1
  <2> HIDE DEF p
  <2>3. (s.frac + 1) * k <= p * k
    BY <1>0, <2>1, <2>2
  <2>4. (s.frac + 1) * k = s.frac * k + k /\ s.frac * k \in Nat
    BY <1>0, <2>1
  <2>5. s.frac * k \in 0 .. (p * k) - 1
    BY <1>0, <2>1, <2>3, <2>4
  <2> QED BY <2>1, <2>5 DEF k
<1>2. ASSUME n <= s.places
      PROVE  s.frac \div Power(10, s.places - n) \in 0 .. Power(10, n) - 1
  <2> DEFINE u == Power(10, n)
             k == Power(10, s.places - n)
             a == s.frac \div k
             b == s.frac % k
  <2>1. u \in Nat \ {0} /\ k \in Nat \ {0} /\ Power(10, s.places) = u * k
    BY <1>0, <1>2, PowersOfTen
  <2>2. s.frac < u * k
    BY <1>0, <2>1
  <2>3. a \in Int /\ b \in 0 .. k - 1 /\ s.frac = (a * k) + b
    <3> HIDE DEF k
    <3>1. s.frac \in Int /\ k \in Nat \ {0}
      BY <1>0, <2>1
    <3> QED BY <3>1, Division, Zenon
  <2> HIDE DEF u, k, a, b
  <2>4. a >= 0
    <3>1. a < 0 => (a + 1) * k <= 0 /\ (a + 1) * k = a * k + k
      BY <2>1, <2>3
    <3> QED BY <1>0, <2>1, <2>3, <3>1
  <2>5. a < u
    <3>1. a >= u => a * k >= u * k
      BY <2>1, <2>3
    <3> QED BY <1>0, <2>1, <2>2, <2>3, <3>1
  <2> QED BY <2>1, <2>3, <2>4, <2>5 DEF u, k, a
<1> QED BY <1>1, <1>2

----------------------------------------------------------------------------
(* Instants *)

\* A second has a whole number of milliseconds, and those of nanoseconds.
LEMMA UnitsOfTime ==
  /\ MsPerSecond \in Nat \ {0}
  /\ NanosPerMs \in Nat \ {0}
  /\ NanosPerSecond \in Nat \ {0}
  /\ NanosPerSecond = MsPerSecond * NanosPerMs
<1>1. NanoPlaces \in Nat /\ MsPlaces \in Nat /\ MsPlaces <= NanoPlaces
  BY TimestampsAssumption
<1> QED BY <1>1, PowersOfTen, PowerIsPositive DEF MsPerSecond, NanosPerMs, NanosPerSecond

\* A timestamp that stands for the nanoseconds since 1970.
StandsFor(t, nanos) ==
  /\ t.seconds \in Nat
  /\ t.nanos \in 0 .. NanosPerSecond - 1
  /\ t.seconds * NanosPerSecond + t.nanos = nanos

\* A timestamp string that is not before 1970.
IsTimeString(s) == s \in Decimals /\ ~ s.neg

\* Parsing keeps what a string stands for.
LEMMA ParsingKeeps ==
  ASSUME NEW s, IsTimeString(s)
  PROVE  StandsFor(FromString(s), NanosOf(s))
<1>0. /\ s \in Decimals /\ ~ s.neg
      /\ s.whole \in Nat /\ s.frac \in Nat /\ s.places \in Nat /\ NanoPlaces \in Nat
  BY TimestampsAssumption DEF IsTimeString, Decimals
<1>1. FromString(s).seconds = s.whole
  BY <1>0 DEF FromString, Parsed, BigInt
<1>2. CASE s.places <= NanoPlaces
  <2>1. FromString(s).nanos = s.frac * Power(10, NanoPlaces - s.places)
    BY <1>2 DEF FromString, Parsed
  <2>2. FromString(s).nanos \in 0 .. NanosPerSecond - 1
    BY <1>0, <1>2, <2>1, FractionIsBelowOne DEF NanosPerSecond
  <2>3. NanosOf(s) = s.whole * NanosPerSecond + FromString(s).nanos
    BY <1>0, <1>2, <2>1, ShortFraction DEF NanosOf, NanosPerSecond
  <2> QED BY <1>0, <1>1, <2>2, <2>3 DEF StandsFor
<1>3. CASE ~ (s.places <= NanoPlaces)
  <2>0. NanoPlaces <= s.places
    BY <1>0, <1>3
  <2>1. FromString(s).nanos = s.frac \div Power(10, s.places - NanoPlaces)
    BY <1>3 DEF FromString, Parsed
  <2>2. FromString(s).nanos \in 0 .. NanosPerSecond - 1
    BY <1>0, <2>0, <2>1, FractionIsBelowOne DEF NanosPerSecond
  <2>3. NanosOf(s) = s.whole * NanosPerSecond + FromString(s).nanos
    BY <1>0, <2>0, <2>1, LongFraction DEF NanosOf, NanosPerSecond
  <2> QED BY <1>0, <1>1, <2>2, <2>3 DEF StandsFor
<1> QED BY <1>2, <1>3

\* A string with all the digits keeps what it is printed of.
LEMMA PrintingKeeps ==
  ASSUME NEW seconds \in Nat, NEW nanos \in 0 .. NanosPerSecond - 1
  PROVE  LET s == Decimal(FALSE, seconds, nanos, NanoPlaces)
         IN IsTimeString(s) /\ NanosOf(s) = seconds * NanosPerSecond + nanos
<1> DEFINE s == Decimal(FALSE, seconds, nanos, NanoPlaces)
<1>1. /\ s.whole = seconds /\ s.frac = nanos /\ s.places = NanoPlaces /\ ~ s.neg
      /\ NanoPlaces \in Nat /\ nanos \in Nat /\ nanos < NanosPerSecond
  BY TimestampsAssumption, UnitsOfTime DEF Decimal
<1>2. s \in Decimals
  <2>1. s \in [neg : BOOLEAN, whole : Nat, frac : Nat, places : Nat]
    BY <1>1 DEF Decimal
  <2> HIDE DEF s
  <2> QED BY <1>1, <2>1 DEF Decimals, NanosPerSecond
<1> HIDE DEF s
<1>3. Scaled(s, Power(10, NanoPlaces)) =
        s.whole * Power(10, NanoPlaces) + s.frac * Power(10, NanoPlaces - s.places)
  BY <1>1, ShortFraction
<1>4. NanoPlaces - s.places = 0 /\ Power(10, 0) = 1
  BY <1>1, PowerStep
<1>5. s.frac * 1 = nanos
  BY <1>1
<1> QED BY <1>1, <1>2, <1>3, <1>4, <1>5 DEF s, IsTimeString, NanosOf, NanosPerSecond

\* A Date splits into the seconds and the nanoseconds of a timestamp.
LEMMA DatesSplit ==
  ASSUME NEW ms \in Nat
  PROVE  /\ ms \div MsPerSecond \in Nat
         /\ Remainder(ms, MsPerSecond) * NanosPerMs \in 0 .. NanosPerSecond - 1
         /\ (ms \div MsPerSecond) * NanosPerSecond + Remainder(ms, MsPerSecond) * NanosPerMs
              = ms * NanosPerMs
<1> DEFINE d == MsPerSecond
           k == NanosPerMs
           q == ms \div d
           r == ms % d
<1>1. d \in Nat \ {0} /\ k \in Nat \ {0} /\ NanosPerSecond = d * k
  BY UnitsOfTime
<1>2. Remainder(ms, d) = r
  BY DEF Remainder
<1> HIDE DEF d, k
<1>3. q \in Int /\ r \in 0 .. d - 1 /\ ms = (q * d) + r
  <2>1. ms \in Int /\ d \in Nat \ {0}
    BY <1>1
  <2> QED BY <2>1, Division, Zenon
<1> HIDE DEF q, r
<1>4. q >= 0
  <2>1. q < 0 => (q + 1) * d <= 0 /\ (q + 1) * d = q * d + d
    BY <1>1, <1>3
  <2> QED BY <1>1, <1>3, <2>1
<1>5. r * k \in 0 .. (d * k) - 1
  <2>1. r + 1 <= d
    BY <1>1, <1>3
  <2>2. (r + 1) * k <= d * k /\ (r + 1) * k = r * k + k /\ r * k >= 0 /\ r * k \in Int
    BY <1>1, <1>3, <2>1
  <2> QED BY <1>1, <2>2
<1>6. q * (d * k) + r * k = ms * k
  BY <1>1, <1>3
<1> QED BY <1>1, <1>2, <1>3, <1>4, <1>5, <1>6 DEF d, k, q

\* A number of nanoseconds splits into those of a timestamp.
LEMMA NanosSplit ==
  ASSUME NEW nanos \in Nat
  PROVE  /\ nanos \div NanosPerSecond \in Nat
         /\ nanos % NanosPerSecond \in 0 .. NanosPerSecond - 1
         /\ (nanos \div NanosPerSecond) * NanosPerSecond + (nanos % NanosPerSecond) = nanos
<1> DEFINE d == NanosPerSecond
           q == nanos \div d
           r == nanos % d
<1>1. d \in Nat \ {0}
  BY UnitsOfTime
<1> HIDE DEF d
<1>2. q \in Int /\ r \in 0 .. d - 1 /\ nanos = (q * d) + r
  <2>1. nanos \in Int /\ d \in Nat \ {0}
    BY <1>1
  <2> QED BY <2>1, Division, Zenon
<1> HIDE DEF q, r
<1>3. q >= 0
  <2>1. q < 0 => (q + 1) * d <= 0 /\ (q + 1) * d = q * d + d
    BY <1>1, <1>2
  <2> QED BY <1>1, <1>2, <2>1
<1> QED BY <1>2, <1>3 DEF d, q, r

\* A Date is cut off at the millisecond, and what it is cut off from is not
\* before 1970 if the result is not.
LEMMA DatesAreClosest ==
  /\ \A nanos \in Int : ClosestBefore(nanos) \in Int /\ ClosestBefore(nanos) <= nanos
  /\ \A t, nanos : StandsFor(t, nanos) =>
       ToDate(t) \in Int /\ ToDate(t) * NanosPerMs = ClosestBefore(nanos)
<1> DEFINE k == NanosPerMs
<1>1. k \in Nat \ {0}
  BY UnitsOfTime
<1>2. ASSUME NEW nanos \in Int
      PROVE  ClosestBefore(nanos) \in Int /\ ClosestBefore(nanos) <= nanos
  <2> HIDE DEF k
  <2>1. nanos % k \in 0 .. k - 1
    BY <1>1, <1>2, Division, Zenon
  <2>2. ClosestBefore(nanos) = nanos - (nanos % k)
    BY DEF ClosestBefore, k
  <2> QED BY <1>1, <2>1, <2>2
<1>3. ASSUME NEW t, NEW nanos, StandsFor(t, nanos)
      PROVE  ToDate(t) \in Int /\ ToDate(t) * NanosPerMs = ClosestBefore(nanos)
  <2> DEFINE d == MsPerSecond
             q == t.nanos \div k
             r == t.nanos % k
             ms == t.seconds * d + q
  <2>1. /\ d \in Nat \ {0} /\ NanosPerSecond = d * k
        /\ t.seconds \in Nat /\ t.nanos \in Int
        /\ nanos = t.seconds * (d * k) + t.nanos
    BY <1>3, UnitsOfTime DEF StandsFor
  <2>2. ToDate(t) = ms /\ ClosestBefore(nanos) = nanos - (nanos % k)
    BY DEF ToDate, ClosestBefore
  <2> HIDE DEF k, d
  <2>3. q \in Int /\ r \in 0 .. k - 1 /\ t.nanos = (q * k) + r
    BY <1>1, <2>1, Division, Zenon
  <2> HIDE DEF q, r
  <2>4. ms \in Int
    BY <2>1, <2>3
  <2>5. nanos = ms * k + r
    BY <1>1, <2>1, <2>3
  <2> HIDE DEF ms
  <2>6. nanos % k = r
    BY <1>1, <2>3, <2>4, <2>5, Quotient
  <2>7. ms * k \in Int
    BY <1>1, <2>4
  <2>8. ms * k = nanos - r
    BY <2>3, <2>5, <2>7
  <2> QED BY <2>2, <2>4, <2>6, <2>8 DEF k
<1> QED BY <1>2, <1>3

\* What holds an instant stands for it exactly, from 1970 on.
Keeps1970 ==
  /\ form \in {"timestamp string", "HieroTimestamp"} =>
       IsTimeString(value) /\ NanosOf(value) = meant
  /\ form = "Date" => value \in Int /\ value * NanosPerMs = meant
  /\ form = "ParsedTimestamp" => StandsFor(value, meant)

Instants == HoldsInstant => (meant \in Int /\ (meant >= 0 => Keeps1970))

\* The timestamp strings stand for themselves, the Dates for their milliseconds.
LEMMA InstantsInit ==
  ASSUME Init \/ ClientInit, HoldsInstant
  PROVE  meant \in Int /\ Keeps1970
<1>0. Init
  BY CallsAreNotConverted DEF HoldsInstant
<1>1. CASE form = "timestamp string"
  <2>1. IsTimeString(value) /\ NanosOf(value) = meant
    BY <1>0, <1>1, ConversionsAssumption DEF Init, IdKinds, IsTimeString
  <2>2. /\ FromString(value).seconds \in Nat /\ FromString(value).nanos \in Int
        /\ NanosPerSecond \in Nat
        /\ FromString(value).seconds * NanosPerSecond + FromString(value).nanos = NanosOf(value)
    BY <2>1, ParsingKeeps, UnitsOfTime DEF StandsFor
  <2>3. \A a, b, c \in Int : a * b + c \in Int
    OBVIOUS
  <2>4. NanosOf(value) \in Int
    BY <2>2, <2>3
  <2> QED BY <1>1, <2>1, <2>4 DEF Keeps1970
<1>2. CASE form = "Date"
  <2>1. value \in Int /\ meant = value * NanosPerMs
    BY <1>0, <1>2, ConversionsAssumption DEF Init, IdKinds
  <2> QED BY <1>2, <2>1, UnitsOfTime DEF Keeps1970
<1>3. form \notin {"HieroTimestamp", "ParsedTimestamp"}
  BY <1>0, ConversionsAssumption DEF Init, IdKinds
<1> QED BY <1>1, <1>2, <1>3 DEF HoldsInstant

\* Every conversion of an instant keeps it, but for what a Date cannot hold.
LEMMA InstantsStep ==
  ASSUME Instants, [Next \/ ClientNext]_vars
  PROVE  Instants'
<1>1. CASE ParseTimestamp
  <2>1. /\ form \in {"timestamp string", "HieroTimestamp"} /\ form' = "ParsedTimestamp"
        /\ value' = FromString(value) /\ meant' = meant /\ HoldsInstant
    BY <1>1 DEF ParseTimestamp, Becomes, HoldsInstant
  <2>2. meant >= 0 => StandsFor(value', meant')
    BY <2>1, ParsingKeeps DEF Instants, Keeps1970
  <2> QED BY <2>1, <2>2 DEF Instants, Keeps1970, StandsFor, NanosPerSecond
<1>2. CASE PrintTimestamp
  <2>1. form = "ParsedTimestamp" /\ meant' = meant /\ HoldsInstant
    BY <1>2 DEF PrintTimestamp, HoldsInstant
  <2>2. CASE value.nanos < 0
    BY <1>2, <2>2 DEF PrintTimestamp, Becomes, Instants, HoldsInstant
  <2>3. CASE ~ (value.nanos < 0)
    <3>1. form' = "timestamp string" /\ value' = ParsedToString(value)
      BY <1>2, <2>3 DEF PrintTimestamp, Becomes
    <3>2. ASSUME meant >= 0
          PROVE  IsTimeString(value') /\ NanosOf(value') = meant'
      <4>1. StandsFor(value, meant)
        BY <2>1, <3>2 DEF Instants, Keeps1970
      <4>2. value' = Decimal(FALSE, value.seconds, value.nanos, NanoPlaces)
        <5>1. value.seconds \in Nat /\ (value.seconds < 0) = FALSE
          BY <4>1 DEF StandsFor
        <5>2. Magnitude(value.seconds) = value.seconds
          BY <5>1 DEF Magnitude
        <5> QED BY <3>1, <5>1, <5>2, Zenon DEF ParsedToString
      <4> QED BY <2>1, <4>1, <4>2, PrintingKeeps DEF StandsFor
    <3> QED BY <2>1, <3>1, <3>2
            DEF Instants, Keeps1970, IsTimeString, Decimals, NanosOf, Scaled, NanosPerSecond
  <2> QED BY <2>2, <2>3
<1>3. CASE ConvertToDate
  <2>1. /\ form = "ParsedTimestamp" /\ form' = "Date" /\ value' = ToDate(value)
        /\ meant' = ClosestBefore(meant) /\ HoldsInstant
    BY <1>3 DEF ConvertToDate, Becomes, HoldsInstant
  <2>2. meant \in Int /\ meant' \in Int /\ meant' <= meant
    BY <2>1, DatesAreClosest DEF Instants
  <2>3. ASSUME meant' >= 0
        PROVE  value' \in Int /\ value' * NanosPerMs = meant'
    <3>1. StandsFor(value, meant)
      BY <2>1, <2>2, <2>3 DEF Instants, Keeps1970
    <3> QED BY <2>1, <3>1, DatesAreClosest
  <2> QED BY <2>1, <2>2, <2>3 DEF Instants, Keeps1970, NanosPerMs
<1>4. CASE ConvertFromDate
  <2>1. /\ form = "Date" /\ form' = "ParsedTimestamp" /\ value' = FromDate(value)
        /\ meant' = meant /\ HoldsInstant
    BY <1>4 DEF ConvertFromDate, Becomes, HoldsInstant
  <2>2. ASSUME meant >= 0
        PROVE  StandsFor(value', meant')
    <3>1. value \in Int /\ value * NanosPerMs = meant
      BY <2>1, <2>2 DEF Instants, Keeps1970
    <3>2. value \in Nat
      BY <2>2, <3>1, UnitsOfTime
    <3> QED BY <2>1, <3>1, <3>2, DatesSplit DEF StandsFor, FromDate, Parsed
  <2> QED BY <2>1, <2>2 DEF Instants, Keeps1970, StandsFor, NanosPerSecond
<1>5. CASE MakeHieroTimestamp
  <2>1. HoldsInstant /\ meant' = meant /\ form' \in {"HieroTimestamp", "rejected"}
    BY <1>5 DEF MakeHieroTimestamp, HoldsInstant, Becomes, Reject
  <2>2. ASSUME meant >= 0, form' = "HieroTimestamp"
        PROVE  IsTimeString(value') /\ NanosOf(value') = meant'
    <3>1. CASE form = "timestamp string"
      <4>1. value' = value
        BY <1>5, <2>2, <3>1 DEF MakeHieroTimestamp, Becomes, Reject
      <4> QED BY <2>1, <2>2, <3>1, <4>1 DEF Instants, Keeps1970
    <3>2. CASE form = "Date"
      <4>1. value \in Int /\ value * NanosPerMs = meant
        BY <2>1, <2>2, <3>2 DEF Instants, Keeps1970
      <4>2. value \in Nat
        BY <2>2, <4>1, UnitsOfTime
      <4>3. CASE value' = HieroFromMs(value)
        BY <2>1, <4>1, <4>2, <4>3, DatesSplit, PrintingKeeps DEF HieroFromMs
      <4>4. CASE value % MsPerSecond = 0 /\ value' = HieroFromSeconds(value \div MsPerSecond)
        <5>1. Remainder(value, MsPerSecond) = 0
          BY <4>2, <4>4 DEF Remainder
        <5>2. Remainder(value, MsPerSecond) * NanosPerMs = 0
          BY <5>1, UnitsOfTime
        <5> QED BY <2>1, <4>1, <4>2, <4>4, <5>2, DatesSplit, PrintingKeeps DEF HieroFromSeconds
      <4> QED BY <1>5, <2>2, <3>2, <4>3, <4>4 DEF MakeHieroTimestamp, Becomes, Reject
    <3>3. CASE form = "ParsedTimestamp"
      <4>1. StandsFor(value, meant) /\ meant \in Nat
        BY <2>1, <2>2, <3>3 DEF Instants, Keeps1970
      <4>2. value' = HieroFromNanos(meant)
        BY <1>5, <2>2, <3>3, <4>1 DEF MakeHieroTimestamp, Becomes, Reject, StandsFor
      <4> QED BY <2>1, <4>1, <4>2, NanosSplit, PrintingKeeps DEF HieroFromNanos
    <3> QED BY <1>5, <3>1, <3>2, <3>3 DEF MakeHieroTimestamp
  <2> QED BY <2>1, <2>2
          DEF Instants, HoldsInstant, Keeps1970, IsTimeString, Decimals, NanosOf, Scaled,
              NanosPerSecond
<1>6. ASSUME \/ FromBytes \/ FromHex \/ FromBase64 \/ DecodeText \/ Validate
             \/ Parse \/ TakeStr \/ TakeNum \/ ToHbar \/ ToTinybar \/ BuildUrl
      PROVE  ~ HoldsInstant'
  BY <1>6
     DEF FromBytes, FromHex, FromBase64, DecodeText, Validate, Validator, Parse, TakeStr, TakeNum,
         ToHbar, ToTinybar, BuildUrl, Becomes, Reject, HoldsInstant
<1>7. CASE UNCHANGED vars
  BY <1>7 DEF vars, Instants, HoldsInstant, Keeps1970, IsTimeString, Decimals, NanosOf, Scaled,
              NanosPerSecond, NanosPerMs, StandsFor
<1>8. CASE ClientNext
  BY <1>8, CallsAreNotConverted DEF Instants, HoldsInstant
<1> QED BY <1>1, <1>2, <1>3, <1>4, <1>5, <1>6, <1>7, <1>8 DEF Next, Instants

\* Whatever holds an instant holds it exactly.
THEOREM InstantsHold == ClientSpec => []Instants
<1>1. Init \/ ClientInit => Instants
  BY InstantsInit DEF Instants
<1>2. Instants /\ [Next \/ ClientNext]_vars => Instants'
  BY InstantsStep
<1> QED BY <1>1, <1>2, PTL DEF ClientSpec

\* Instants from 1970 on survive any chain of conversions between timestamp
\* strings, Dates and both timestamp classes, but for what a Date cannot hold.
THEOREM InstantsSurvive == ClientSpec => []InstantsAreKept
<1>1. Instants => InstantsAreKept
  BY DEF Instants, Keeps1970, InstantsAreKept, StandsFor
<1> QED BY <1>1, InstantsHold, PTL

\* Timestamps with fewer seconds stand for less, whatever their nanoseconds.
LEMMA SecondsComeFirst ==
  ASSUME NEW a, NEW b, NEW m, NEW n, StandsFor(a, m), StandsFor(b, n), a.seconds < b.seconds
  PROVE  m < n
<1> DEFINE u == NanosPerSecond
<1>1. /\ u \in Nat \ {0} /\ a.seconds \in Nat /\ b.seconds \in Nat
      /\ a.nanos \in 0 .. u - 1 /\ b.nanos \in 0 .. u - 1
      /\ m = a.seconds * u + a.nanos /\ n = b.seconds * u + b.nanos
  BY UnitsOfTime DEF StandsFor
<1> HIDE DEF u
<1>2. (a.seconds + 1) * u <= b.seconds * u
  BY <1>1
<1>3. (a.seconds + 1) * u = a.seconds * u + u /\ a.seconds * u \in Int /\ b.seconds * u \in Int
  BY <1>1
<1> QED BY <1>1, <1>2, <1>3

\* compare() orders timestamps as what they stand for.
LEMMA ComparisonIsChronological ==
  ASSUME NEW a, NEW b, NEW m, NEW n, StandsFor(a, m), StandsFor(b, n)
  PROVE  /\ m < n => Compare(a, b) = -1
         /\ m > n => Compare(a, b) = 1
         /\ m = n => Compare(a, b) = 0
         /\ m \in Int /\ n \in Int
<1> DEFINE u == NanosPerSecond
<1>1. /\ u \in Nat \ {0} /\ a.seconds \in Nat /\ b.seconds \in Nat
      /\ a.nanos \in Int /\ b.nanos \in Int
      /\ m = a.seconds * u + a.nanos /\ n = b.seconds * u + b.nanos
  BY UnitsOfTime DEF StandsFor
<1> HIDE DEF u
<1>2. m \in Int /\ n \in Int
  <2>1. a.seconds * u \in Int /\ b.seconds * u \in Int
    BY <1>1
  <2> QED BY <1>1, <2>1
<1>3. CASE a.seconds < b.seconds
  <2>1. Compare(a, b) = -1
    BY <1>1, <1>3 DEF Compare
  <2> QED BY <1>2, <1>3, <2>1, SecondsComeFirst
<1>4. CASE a.seconds > b.seconds
  <2>1. Compare(a, b) = 1
    BY <1>1, <1>4 DEF Compare
  <2>2. b.seconds < a.seconds
    BY <1>1, <1>4
  <2>3. n < m
    BY <2>2, SecondsComeFirst
  <2> QED BY <1>2, <2>1, <2>3
<1>5. CASE a.seconds = b.seconds
  <2>1. PICK w \in Int : m = w + a.nanos /\ n = w + b.nanos
    <3>1. a.seconds * u \in Int
      BY <1>1
    <3> QED BY <1>1, <1>5, <3>1
  <2>2. /\ m < n => a.nanos < b.nanos
        /\ m > n => a.nanos > b.nanos
        /\ m = n => a.nanos = b.nanos
    BY <1>1, <2>1
  <2> QED BY <1>1, <1>2, <1>5, <2>2 DEF Compare
<1> QED BY <1>1, <1>2, <1>3, <1>4, <1>5

\* compare() orders the ParsedTimestamps that any chain of conversions leads to
\* as the instants they were made of.
THEOREM ComparisonsAreTrue == ClientSpec => []ComparesChronologically
<1>1. ASSUME Instants, form = "ParsedTimestamp", meant >= 0, NEW s \in TimeStrings
      PROVE  Compare(value, FromString(s)) =
               (CASE meant < NanosOf(s) -> -1 [] meant > NanosOf(s) -> 1 [] OTHER -> 0)
  <2>1. StandsFor(value, meant)
    BY <1>1 DEF Instants, HoldsInstant, Keeps1970
  <2>2. StandsFor(FromString(s), NanosOf(s))
    BY ParsingKeeps, ConversionsAssumption DEF IsTimeString
  <2>3. /\ meant < NanosOf(s) => Compare(value, FromString(s)) = -1
        /\ meant > NanosOf(s) => Compare(value, FromString(s)) = 1
        /\ meant = NanosOf(s) => Compare(value, FromString(s)) = 0
        /\ meant \in Int /\ NanosOf(s) \in Int
    BY <2>1, <2>2, ComparisonIsChronological
  <2>4. meant < NanosOf(s) \/ meant > NanosOf(s) \/ meant = NanosOf(s)
    BY <2>3
  <2> QED BY <2>3, <2>4
<1>2. Instants => ComparesChronologically
  BY <1>1 DEF ComparesChronologically
<1> QED BY <1>2, InstantsHold, PTL

----------------------------------------------------------------------------
(* Amounts *)

\* How many bits a number has too many: the exponent that ToNumber chooses.
LEMMA ExcessExists ==
  ASSUME NEW m \in Nat
  PROVE  \E k \in 0 .. m :
           /\ m < Power(2, Precision + k)
           /\ k > 0 => m >= Power(2, Precision + k - 1)
<1> DEFINE Enough == {k \in Nat : m < Power(2, Precision + k)}
<1>0. Precision \in Nat \ {0}
  BY AmountsAssumption
<1>1. m \in Enough
  <2>0. 2 \in Nat \ {0}
    OBVIOUS
  <2>1. /\ m < Power(2, m) /\ Power(2, Precision + m) = Power(2, Precision) * Power(2, m)
        /\ Power(2, Precision) \in Nat \ {0} /\ Power(2, m) \in Nat
    <3>1. Power(2, Precision + m) = Power(2, Precision) * Power(2, m)
      BY <1>0, <2>0, PowerOfSum
    <3>2. m < Power(2, m)
      BY PowersOfTwoGrow
    <3>3. \A n \in Nat : Power(2, n) \in Nat \ {0}
      BY <2>0, PowerIsPositive
    <3> QED BY <1>0, <3>1, <3>2, <3>3
  <2>2. \A a \in Nat \ {0}, b \in Nat : b <= a * b /\ a * b \in Nat
    OBVIOUS
  <2>3. Power(2, m) <= Power(2, Precision + m) /\ Power(2, Precision + m) \in Nat
    BY <2>1, <2>2
  <2> QED BY <2>1, <2>3
<1>2. Enough \in SUBSET Nat
  OBVIOUS
<1>3. PICK k \in Enough : \A j \in Enough : k <= j
  <2> HIDE DEF Enough
  <2> QED BY <1>1, <1>2, LeastMember
<1>4. k \in 0 .. m
  BY <1>1, <1>3
<1>5. ASSUME k > 0
      PROVE  m >= Power(2, Precision + k - 1)
  <2>1. k - 1 \in Nat /\ k - 1 \notin Enough
    BY <1>3, <1>5
  <2>2. Precision + (k - 1) = Precision + k - 1 /\ Precision + (k - 1) \in Nat
    BY <1>0, <2>1
  <2>3. ~ (m < Power(2, Precision + k - 1)) /\ Power(2, Precision + k - 1) \in Nat
    BY <2>1, <2>2, PowerIsPositive
  <2> QED BY <2>3
<1> QED BY <1>3, <1>4, <1>5

\* A number holds a safe integer exactly, and no other integer becomes a safe
\* one by being rounded.
LEMMA NumbersHold ==
  ASSUME NEW n \in Int
  PROVE  /\ ToNumber(n) \in Int
         /\ IsSafeInteger(n) => ToNumber(n) = n
         /\ ~ IsSafeInteger(n) => ~ IsSafeInteger(ToNumber(n))
         /\ n >= 0 => ToNumber(n) >= 0
<1> DEFINE m == Magnitude(n)
           excess == CHOOSE k \in 0 .. m :
                       /\ m < Power(2, Precision + k)
                       /\ k > 0 => m >= Power(2, Precision + k - 1)
           ulp == Power(2, excess)
           down == m \div ulp
           rest == m % ulp
           up == 2 * rest > ulp \/ (2 * rest = ulp /\ down % 2 = 1)
           rounded == (IF up THEN down + 1 ELSE down) * ulp
           safe == Power(2, Precision)
<1>0. Precision \in Nat \ {0} /\ m \in Nat
  BY AmountsAssumption DEF Magnitude
<1>1. ToNumber(n) = IF n < 0 THEN -rounded ELSE rounded
  BY DEF ToNumber
<1>2. /\ excess \in 0 .. m /\ m < Power(2, Precision + excess)
      /\ excess > 0 => m >= Power(2, Precision + excess - 1)
  <2> HIDE DEF m
  <2> QED BY <1>0, ExcessExists
<1> HIDE DEF excess
<1>3. \A k \in Nat : Power(2, k) \in Nat \ {0}
  BY PowerIsPositive
<1>4. ulp \in Nat \ {0} /\ safe \in Nat \ {0}
  BY <1>0, <1>2, <1>3
<1> HIDE DEF ulp, m
<1>5. down \in Int /\ rest \in 0 .. ulp - 1 /\ m = (down * ulp) + rest
  <2>1. m \in Int
    BY <1>0
  <2> QED BY <1>4, <2>1, Division, Zenon
<1> HIDE DEF down, rest, safe
<1>6. down >= 0
  <2>1. down < 0 => (down + 1) * ulp <= 0 /\ (down + 1) * ulp = down * ulp + ulp
    BY <1>4, <1>5
  <2> QED BY <1>0, <1>4, <1>5, <2>1
<1>7. rounded \in {down * ulp, (down + 1) * ulp}
  OBVIOUS
<1>8. rounded \in Nat /\ rounded >= down * ulp /\ down * ulp \in Nat
  <2>1. /\ down * ulp \in Nat /\ (down + 1) * ulp \in Nat
        /\ (down + 1) * ulp = down * ulp + ulp
    BY <1>4, <1>5, <1>6
  <2> QED BY <1>4, <1>7, <2>1
<1>9. IsSafeInteger(n) <=> m < safe
  BY DEF IsSafeInteger, m, safe
<1>10. IsSafeInteger(ToNumber(n)) <=> rounded < safe
  <2> HIDE DEF rounded
  <2>1. Magnitude(ToNumber(n)) = rounded
    BY <1>1, <1>8 DEF Magnitude
  <2> QED BY <2>1 DEF IsSafeInteger, safe
<1>11. ASSUME m < safe
       PROVE  ToNumber(n) = n
  <2>1. excess = 0
    <3>1. SUFFICES ASSUME excess > 0 PROVE FALSE
      BY <1>2
    <3>2. /\ Precision + excess - 1 = Precision + (excess - 1) /\ excess - 1 \in Nat
      BY <1>0, <1>2, <3>1
    <3>3. Power(2, Precision + (excess - 1)) = safe * Power(2, excess - 1)
      BY <1>0, <3>2, PowerOfSum DEF safe
    <3>4. Power(2, excess - 1) \in Nat \ {0}
      BY <1>3, <3>2
    <3>5. safe * Power(2, excess - 1) >= safe
      <4>1. \A a, b \in Nat \ {0} : a * b >= a
        OBVIOUS
      <4> QED BY <1>4, <3>4, <4>1
    <3>6. m >= safe * Power(2, excess - 1) /\ safe * Power(2, excess - 1) \in Nat
      BY <1>2, <1>4, <3>1, <3>2, <3>3, <3>4
    <3> QED BY <1>0, <1>4, <1>11, <3>5, <3>6
  <2>2. ulp = 1
    BY <2>1, PowerStep DEF ulp
  <2>3. rest = 0 /\ down = m
    BY <1>0, <1>5, <2>2
  <2>4. ~ up
    BY <2>2, <2>3
  <2>5. rounded = m
    BY <1>0, <2>2, <2>3, <2>4
  <2> HIDE DEF rounded
  <2> QED BY <1>1, <2>5 DEF m, Magnitude
<1>12. ASSUME ~ (m < safe)
       PROVE  ~ (rounded < safe)
  <2>1. excess > 0
    <3>1. excess = 0 => Precision + excess = Precision
      BY <1>0
    <3> QED BY <1>2, <1>12, <3>1 DEF safe
  <2> DEFINE half == Power(2, Precision - 1)
  <2>2. /\ Precision - 1 \in Nat /\ (Precision - 1) + 1 = Precision
        /\ Precision + excess - 1 = (Precision - 1) + excess /\ excess \in Nat
    BY <1>0, <1>2
  <2>3. half \in Nat \ {0} /\ safe = 2 * half
    BY <1>3, <2>2, PowerStep DEF safe
  <2>4. m >= half * ulp
    <3>1. Power(2, (Precision - 1) + excess) = half * ulp
      BY <2>2, PowerOfSum DEF ulp
    <3> QED BY <1>2, <2>1, <2>2, <3>1
  <2>5. ulp >= 2
    <3>1. excess - 1 \in Nat /\ (excess - 1) + 1 = excess
      BY <2>1, <2>2
    <3>2. ulp = 2 * Power(2, excess - 1) /\ Power(2, excess - 1) \in Nat \ {0}
      BY <1>3, <3>1, PowerStep DEF ulp
    <3> QED BY <3>2
  <2> HIDE DEF half
  <2>6. down >= half
    <3>1. SUFFICES ASSUME down + 1 <= half PROVE FALSE
      BY <1>5, <2>3
    <3>2. (down + 1) * ulp <= half * ulp /\ (down + 1) * ulp = down * ulp + ulp
      BY <1>4, <1>5, <2>3, <3>1
    <3>3. half * ulp \in Nat
      BY <1>4, <2>3
    <3> QED BY <1>0, <1>4, <1>5, <1>8, <2>4, <3>2, <3>3
  <2>7. down * ulp >= half * 2
    <3>1. down * ulp >= half * ulp
      BY <1>4, <1>5, <2>3, <2>6
    <3>2. half * ulp >= half * 2 /\ half * ulp \in Nat
      BY <1>4, <2>3, <2>5
    <3> QED BY <1>8, <2>3, <3>1, <3>2
  <2> HIDE DEF rounded
  <2> QED BY <1>4, <1>8, <2>3, <2>7
<1>13. ToNumber(n) \in Int /\ (n >= 0 => ToNumber(n) >= 0)
  <2> HIDE DEF rounded
  <2> QED BY <1>1, <1>8
<1> QED BY <1>9, <1>10, <1>11, <1>12, <1>13

\* Rounding makes nothing negative, and nothing zero.
LEMMA RoundingKeepsSigns ==
  ASSUME NEW n \in Int
  PROVE  /\ n >= 0 => ToNumber(n) >= 0
         /\ n >= 1 => ToNumber(n) >= 1
<1>1. CASE IsSafeInteger(n)
  BY <1>1, NumbersHold
<1>2. CASE ~ IsSafeInteger(n)
  <2>1. ToNumber(n) \in Int /\ ~ IsSafeInteger(ToNumber(n))
    BY <1>2, NumbersHold
  <2>2. Power(2, Precision) \in Nat \ {0}
    BY PowerIsPositive, AmountsAssumption
  <2>3. ToNumber(n) # 0
    BY <2>1, <2>2 DEF IsSafeInteger, Magnitude
  <2> QED BY <2>1, <2>3, NumbersHold
<1> QED BY <1>1, <1>2

\* A sign and the digits make the integer they were made of.
LEMMA IntegerStringsKeep ==
  ASSUME NEW n \in Int
  PROVE  /\ IntegerString(n) \in [neg : BOOLEAN, whole : Nat, frac : Nat, places : Nat]
         /\ BigInt(IntegerString(n)) = n
<1>1. /\ (n < 0) \in BOOLEAN /\ Magnitude(n) \in Nat
      /\ n = IF n < 0 THEN -Magnitude(n) ELSE Magnitude(n)
  BY DEF Magnitude
<1>2. /\ IntegerString(n).neg = (n < 0) /\ IntegerString(n).whole = Magnitude(n)
      /\ IntegerString(n) \in [neg : BOOLEAN, whole : Nat, frac : Nat, places : Nat]
  BY <1>1 DEF IntegerString, Decimal
<1> QED BY <1>1, <1>2 DEF BigInt

\* What a reviver makes of a literal is the integer itself, as a number or as
\* a string.
IsNumeral(v, n) ==
  \/ v.type = "number" /\ v.number = n
  \/ v.type = "string" /\ v.string = IntegerString(n)

\* The reviver keeps every digit of a plain literal: what it leaves a number is
\* one that JSON.parse did not round.
LEMMA ReviverKeeps ==
  ASSUME NEW n \in Int, NEW literal, literal.plain \in BOOLEAN, literal.number = n
  PROVE  IsNumeral(SafeReviver(literal), IF literal.plain THEN n ELSE ToNumber(n))
<1>1. /\ IsSafeInteger(n) => ToNumber(n) = n
      /\ ~ IsSafeInteger(n) => ~ IsSafeInteger(ToNumber(n))
  BY NumbersHold
<1>2. CASE literal.plain /\ ~ IsSafeInteger(ToNumber(n))
  <2>1. SafeReviver(literal) = JsString(IntegerString(n))
    BY <1>2 DEF SafeReviver
  <2> QED BY <1>2, <2>1 DEF IsNumeral, JsString
<1>3. CASE ~ (literal.plain /\ ~ IsSafeInteger(ToNumber(n)))
  <2>1. SafeReviver(literal) = JsNumber(ToNumber(n))
    BY <1>3 DEF SafeReviver
  <2>2. literal.plain => ToNumber(n) = n
    BY <1>1, <1>3
  <2> QED BY <1>3, <2>1, <2>2 DEF IsNumeral, JsNumber
<1> QED BY <1>2, <1>3

\* Dropping trailing zeros drops nothing of an amount: what is left of the
\* remainder, padded again, is the remainder.
LEMMA PrintedHbarsKeep ==
  ASSUME NEW s, BigInt(s) \in Int
  PROVE  LET hbar == TinybarToHbar(s)
         IN /\ hbar \in [neg : BOOLEAN, whole : Nat, frac : Nat, places : Nat]
            /\ TinybarsOf(hbar) = BigInt(s)
<1> DEFINE n == BigInt(s)
           abs == Magnitude(n)
           T == TinybarsPerHbar
           q == abs \div T
           remainder == abs % T
           S == {k \in 0 .. HbarPlaces : remainder % Power(10, HbarPlaces - k) = 0}
           places == Min(S)
           unit == Power(10, HbarPlaces - places)
           frac == remainder \div unit
           hbar == Decimal(n < 0, q, frac, places)
<1>0. HbarPlaces \in Nat /\ n \in Int /\ abs \in Nat /\ n = (IF n < 0 THEN -abs ELSE abs)
  BY AmountsAssumption DEF Magnitude
<1>1. TinybarToHbar(s) = hbar
  BY DEF TinybarToHbar
<1>2. T \in Nat \ {0}
  BY <1>0, PowerIsPositive DEF TinybarsPerHbar
<1>3. abs \in Int /\ T \in Nat \ {0}
  BY <1>0, <1>2
<1> HIDE DEF n, abs, T
<1>4. q \in Int /\ remainder \in 0 .. T - 1 /\ abs = (q * T) + remainder
  BY <1>3, Division, Zenon
<1> HIDE DEF q, remainder
<1>5. q >= 0
  <2>1. q < 0 => (q + 1) * T <= 0 /\ (q + 1) * T = q * T + T
    BY <1>2, <1>4
  <2> QED BY <1>0, <1>2, <1>4, <2>1
<1>6. places \in 0 .. HbarPlaces /\ remainder % unit = 0
  <2>1. HbarPlaces \in S
    <3>1. HbarPlaces - HbarPlaces = 0 /\ Power(10, 0) = 1 /\ remainder \in Int
      BY <1>0, <1>4, PowerStep
    <3> QED BY <1>0, <3>1
  <2>2. S \in SUBSET Nat /\ S # {}
    BY <1>0, <2>1
  <2>3. PICK m \in S : \A k \in S : m <= k
    BY <2>2, LeastMember
  <2> HIDE DEF S
  <2>4. places \in S
    BY <2>3 DEF Min
  <2> QED BY <2>4 DEF S
<1> HIDE DEF places
<1>7. HbarPlaces - places \in Nat /\ places \in Nat /\ places <= HbarPlaces
  BY <1>0, <1>6
<1>8. unit \in Nat \ {0}
  BY <1>7, PowersOfTen
<1> HIDE DEF unit
<1>9. frac \in Int /\ remainder = (frac * unit) + 0
  <2>1. remainder \in Int /\ unit \in Nat \ {0}
    BY <1>4, <1>8
  <2>2. frac \in Int /\ remainder = (frac * unit) + (remainder % unit)
    BY <2>1, Division, Zenon
  <2> QED BY <1>6, <2>2
<1> HIDE DEF frac
<1>10. frac >= 0
  <2>1. frac < 0 => (frac + 1) * unit <= 0 /\ (frac + 1) * unit = frac * unit + unit
    BY <1>8, <1>9
  <2> QED BY <1>4, <1>8, <1>9, <2>1
<1>11. /\ hbar.neg = (n < 0) /\ hbar.whole = q /\ hbar.frac = frac /\ hbar.places = places
       /\ hbar \in [neg : BOOLEAN, whole : Nat, frac : Nat, places : Nat]
  BY <1>4, <1>5, <1>7, <1>9, <1>10 DEF Decimal
<1> HIDE DEF hbar
<1>12. hbar.whole \in Nat /\ hbar.frac \in Nat /\ hbar.places \in Nat /\ hbar.places <= HbarPlaces
  BY <1>4, <1>5, <1>7, <1>9, <1>10, <1>11
<1>13. Scaled(hbar, T) = q * T + frac * unit
  BY <1>0, <1>11, <1>12, ShortFraction DEF T, TinybarsPerHbar, unit
<1>14. frac * unit = remainder
  BY <1>8, <1>9
<1>15. Scaled(hbar, T) = abs
  BY <1>4, <1>13, <1>14
<1>16. TinybarsOf(hbar) = IF n < 0 THEN -abs ELSE abs
  BY <1>11, <1>15 DEF TinybarsOf, T
<1> QED BY <1>0, <1>1, <1>11, <1>16 DEF n

\* An hbar string with no more places than an hbar has makes exactly its tinybars.
LEMMA ParsedHbarsKeep ==
  ASSUME NEW hbar \in [neg : BOOLEAN, whole : Nat, frac : Nat, places : Nat],
         ~ TooPrecise(hbar)
  PROVE  /\ HbarToTinybar(hbar) \in [neg : BOOLEAN, whole : Nat, frac : Nat, places : Nat]
         /\ BigInt(HbarToTinybar(hbar)) = TinybarsOf(hbar)
<1>1. /\ HbarPlaces \in Nat /\ hbar.neg \in BOOLEAN /\ hbar.whole \in Nat /\ hbar.frac \in Nat
      /\ hbar.places \in Nat /\ hbar.places <= HbarPlaces
  BY AmountsAssumption DEF TooPrecise
<1> DEFINE unit == Power(10, HbarPlaces - hbar.places)
           total == hbar.whole * TinybarsPerHbar + hbar.frac * unit
<1>2. Scaled(hbar, TinybarsPerHbar) = total
  BY <1>1, ShortFraction DEF TinybarsPerHbar
<1>3. TinybarsPerHbar \in Nat /\ unit \in Nat
  BY <1>1, PowerIsPositive DEF TinybarsPerHbar
<1>4. HbarToTinybar(hbar) = Decimal(hbar.neg, total, 0, 0)
  BY DEF HbarToTinybar
<1> HIDE DEF unit
<1>5. total \in Nat
  BY <1>1, <1>3
<1> HIDE DEF total
<1> QED BY <1>1, <1>2, <1>4, <1>5 DEF Decimal, BigInt, TinybarsOf

\* What an amount stands for, on every stop of its journey.
Kept ==
  /\ form = "literal" =>
       /\ value.plain \in BOOLEAN /\ value.number \in Int
       /\ meant = IF value.plain THEN value.number ELSE ToNumber(value.number)
  /\ form = "parsed JSON" => meant \in Int /\ IsNumeral(value, meant)
  /\ form = "tinybars" => meant \in Int /\ BigInt(value) = meant
  /\ form = "hbar" =>
       /\ value \in [neg : BOOLEAN, whole : Nat, frac : Nat, places : Nat]
       /\ TinybarsOf(value) = meant
  /\ form = "number" /\ IsSafeInteger(meant) => value = meant

\* Tinybars are integers, whatever the digits behind an hbar's point.
LEMMA TinybarsAreIntegers ==
  ASSUME NEW hbar \in [neg : BOOLEAN, whole : Nat, frac : Nat, places : Nat]
  PROVE  ~ TooPrecise(hbar) => TinybarsOf(hbar) \in Int
<1>1. SUFFICES ASSUME ~ TooPrecise(hbar) PROVE TinybarsOf(hbar) \in Int
  OBVIOUS
<1>2. /\ HbarToTinybar(hbar) \in [neg : BOOLEAN, whole : Nat, frac : Nat, places : Nat]
      /\ BigInt(HbarToTinybar(hbar)) = TinybarsOf(hbar)
  BY <1>1, ParsedHbarsKeep
<1> QED BY <1>2 DEF BigInt

\* Amounts begin as literals or as hbar strings.
LEMMA KeptInit ==
  ASSUME Init \/ ClientInit
  PROVE  Kept
<1>0. ClientInit => Kept
  BY CallsAreNotConverted DEF Kept
<1>1. CASE form = "literal"
  <2>1. PICK n \in Amounts, plain \in BOOLEAN :
          value = [plain |-> plain, number |-> n] /\ meant = IF plain THEN n ELSE ToNumber(n)
    BY <1>1, CallsAreNotConverted, ConversionsAssumption DEF Init, IdKinds
  <2>2. n \in Int
    BY ConversionsAssumption
  <2> QED BY <1>1, <2>1, <2>2 DEF Kept
<1>2. CASE form = "hbar"
  <2>1. value \in Hbars /\ meant = TinybarsOf(value)
    BY <1>2, CallsAreNotConverted, ConversionsAssumption DEF Init, IdKinds
  <2>2. value \in [neg : BOOLEAN, whole : Nat, frac : Nat, places : Nat]
    BY <2>1, ConversionsAssumption DEF Decimals
  <2> QED BY <1>2, <2>1, <2>2 DEF Kept
<1>3. form \notin {"parsed JSON", "tinybars", "number"}
  BY CallsAreNotConverted, ConversionsAssumption DEF Init, IdKinds
<1> QED BY <1>0, <1>1, <1>2, <1>3 DEF Kept

\* Every conversion of an amount keeps it.
LEMMA KeptStep ==
  ASSUME Kept, [Next \/ ClientNext]_vars
  PROVE  Kept'
<1>1. CASE Parse
  <2>1. form = "literal" /\ form' = "parsed JSON" /\ value' = SafeReviver(value) /\ meant' = meant
    BY <1>1 DEF Parse, Becomes
  <2>2. /\ value.plain \in BOOLEAN /\ value.number \in Int
        /\ meant = IF value.plain THEN value.number ELSE ToNumber(value.number)
    BY <2>1 DEF Kept
  <2>3. IsNumeral(SafeReviver(value), meant)
    BY <2>2, ReviverKeeps
  <2>4. meant' \in Int
    BY <2>1, <2>2, NumbersHold
  <2> QED BY <2>1, <2>3, <2>4 DEF Kept, IsNumeral
<1>2. CASE TakeStr
  <2>1. form = "parsed JSON" /\ form' = "tinybars" /\ value' = Str(value) /\ meant' = meant
    BY <1>2 DEF TakeStr, Becomes
  <2>2. meant \in Int /\ IsNumeral(value, meant)
    BY <2>1 DEF Kept
  <2>3. value' = IntegerString(meant)
    BY <2>1, <2>2 DEF Str, IsNumeral
  <2>4. BigInt(value') = meant
    BY <2>2, <2>3, IntegerStringsKeep
  <2> QED BY <2>1, <2>2, <2>4 DEF Kept, BigInt
<1>3. CASE TakeNum
  <2>1. form = "parsed JSON" /\ form' = "number" /\ value' = Num(value) /\ meant' = meant
    BY <1>3 DEF TakeNum, Becomes
  <2>2. meant \in Int /\ IsNumeral(value, meant)
    BY <2>1 DEF Kept
  <2>3. value' = meant \/ value' = ToNumber(meant)
    BY <2>1, <2>2, IntegerStringsKeep DEF Num, IsNumeral
  <2>4. IsSafeInteger(meant) => value' = meant
    BY <2>2, <2>3, NumbersHold
  <2> QED BY <2>1, <2>4 DEF Kept, IsSafeInteger
<1>4. CASE ToHbar
  <2>1. form = "tinybars" /\ form' = "hbar" /\ value' = TinybarToHbar(value) /\ meant' = meant
    BY <1>4 DEF ToHbar, Becomes
  <2>2. meant \in Int /\ BigInt(value) = meant
    BY <2>1 DEF Kept
  <2>3. /\ value' \in [neg : BOOLEAN, whole : Nat, frac : Nat, places : Nat]
        /\ TinybarsOf(value') = meant
    BY <2>1, <2>2, PrintedHbarsKeep
  <2> QED BY <2>1, <2>3 DEF Kept, TinybarsOf, Scaled, TinybarsPerHbar
<1>5. CASE ToTinybar
  <2>1. form = "hbar" /\ meant' = meant
    BY <1>5 DEF ToTinybar
  <2>2. /\ value \in [neg : BOOLEAN, whole : Nat, frac : Nat, places : Nat]
        /\ TinybarsOf(value) = meant
    BY <2>1 DEF Kept
  <2>3. CASE TooPrecise(value)
    BY <1>5, <2>3 DEF ToTinybar, Becomes, Reject, Kept
  <2>4. CASE ~ TooPrecise(value)
    <3>1. form' = "tinybars" /\ value' = HbarToTinybar(value)
      BY <1>5, <2>4 DEF ToTinybar, Becomes
    <3>2. BigInt(value') = meant' /\ meant' \in Int
      BY <2>1, <2>2, <2>4, <3>1, ParsedHbarsKeep, TinybarsAreIntegers
    <3> QED BY <3>1, <3>2 DEF Kept, BigInt
  <2> QED BY <2>3, <2>4
<1>6. ASSUME \/ FromBytes \/ FromHex \/ FromBase64 \/ DecodeText \/ Validate \/ BuildUrl
             \/ ParseTimestamp \/ PrintTimestamp \/ ConvertToDate \/ ConvertFromDate
             \/ MakeHieroTimestamp
      PROVE  form' \notin {"literal", "parsed JSON", "tinybars", "hbar", "number"}
  BY <1>6
     DEF FromBytes, FromHex, FromBase64, DecodeText, Validate, Validator, BuildUrl,
         ParseTimestamp, PrintTimestamp, ConvertToDate, ConvertFromDate, MakeHieroTimestamp,
         Becomes, Reject
<1>7. CASE UNCHANGED vars
  BY <1>7 DEF vars, Kept, IsNumeral, BigInt, TinybarsOf, Scaled, TinybarsPerHbar, IsSafeInteger
<1>8. CASE ClientNext
  BY <1>8, CallsAreNotConverted DEF Kept
<1> QED BY <1>1, <1>2, <1>3, <1>4, <1>5, <1>6, <1>7, <1>8 DEF Next, Kept

\* Every form of an amount stands for it.
THEOREM AmountsHold == ClientSpec => []Kept
<1>1. Init \/ ClientInit => Kept
  BY KeptInit
<1>2. Kept /\ [Next \/ ClientNext]_vars => Kept'
  BY KeptStep
<1> QED BY <1>1, <1>2, PTL DEF ClientSpec

\* Amounts survive the journey from the body through any number of hbar and
\* tinybar strings; a number field is exact as far as numbers are.
THEOREM AmountsSurvive == ClientSpec => []AmountsAreKept
<1>1. Kept => AmountsAreKept
  BY DEF Kept, AmountsAreKept
<1> QED BY <1>1, AmountsHold, PTL

----------------------------------------------------------------------------
(* Paths *)

\* What is left of the beginnings of a path.
Chooses(chosen, path, positions, T) ==
  /\ chosen \in [Nat -> Seq(T)]
  /\ chosen[0] = << >>
  /\ \A n \in Nat : chosen[n + 1] = IF n + 1 \in positions THEN Append(chosen[n], path[n + 1])
                                    ELSE chosen[n]

\* ChosenUpTo is the function that its recursion describes.
LEMMA ChosenByStep ==
  ASSUME NEW T, NEW path \in Seq(T), NEW positions \in SUBSET DOMAIN path
  PROVE  Chooses(ChosenUpTo(path, positions), path, positions, T)
<1> DEFINE step == [n \in Nat |-> [s \in Seq(T) |->
                      IF n + 1 \in positions THEN Append(s, path[n + 1]) ELSE s]]
           chosen == ChosenUpTo(path, positions)
<1>1. step \in [Nat -> [Seq(T) -> Seq(T)]]
  <2>1. \A n \in Nat, s \in Seq(T) : n + 1 \in positions => Append(s, path[n + 1]) \in Seq(T)
    <3>1. \A i \in DOMAIN path : path[i] \in T
      BY ElementOfSeq, LenProperties
    <3> QED BY <3>1, AppendProperties
  <2> QED BY <2>1
<1>2. \A n \in Nat, s \in Seq(T) :
        step[n][s] = IF n + 1 \in positions THEN Append(s, path[n + 1]) ELSE s
  OBVIOUS
<1>3. << >> \in Seq(T)
  OBVIOUS
<1> HIDE DEF step
<1>4. PICK f \in [Nat -> Seq(T)] : Recurs(f, << >>, step)
  BY <1>1, <1>3, RecursionExists
<1>5. ASSUME NEW n \in Nat
      PROVE  f[n] = IF n = 0 THEN << >>
                    ELSE IF n \in positions THEN Append(f[n - 1], path[n]) ELSE f[n - 1]
  <2>1. CASE n = 0
    BY <1>4, <2>1 DEF Recurs
  <2>2. CASE n # 0
    <3>1. PICK m \in Nat : n = m + 1 /\ n - 1 = m
      <4>1. n - 1 \in Nat /\ n = (n - 1) + 1
        BY <2>2
      <4> QED BY <4>1
    <3>2. f[m + 1] = step[m][f[m]] /\ f[m] \in Seq(T)
      BY <1>4 DEF Recurs
    <3> QED BY <1>2, <2>2, <3>1, <3>2
  <2> QED BY <2>1, <2>2
<1>6. f = [n \in Nat |-> IF n = 0 THEN << >>
                         ELSE IF n \in positions THEN Append(f[n - 1], path[n]) ELSE f[n - 1]]
  <2>1. f = [n \in Nat |-> f[n]]
    OBVIOUS
  <2> QED BY <1>5, <2>1
<1>7. chosen = [n \in Nat |-> IF n = 0 THEN << >>
                              ELSE IF n \in positions THEN Append(chosen[n - 1], path[n])
                              ELSE chosen[n - 1]]
  BY <1>6 DEF ChosenUpTo
<1> HIDE DEF chosen
<1>8. \A n \in Nat : chosen[n] = IF n = 0 THEN << >>
                                 ELSE IF n \in positions THEN Append(chosen[n - 1], path[n])
                                 ELSE chosen[n - 1]
  BY <1>7
<1>9. chosen[0] = << >>
  BY <1>8
<1>10. \A n \in Nat : chosen[n + 1] = IF n + 1 \in positions THEN Append(chosen[n], path[n + 1])
                                      ELSE chosen[n]
  <2>1. \A n \in Nat : n + 1 \in Nat /\ n + 1 # 0 /\ (n + 1) - 1 = n
    OBVIOUS
  <2> QED BY <1>8, <2>1
<1>11. chosen \in [Nat -> Seq(T)]
  <2> DEFINE Typed == {n \in Nat : chosen[n] \in Seq(T)}
  <2>1. 0 \in Typed
    BY <1>3, <1>9
  <2>2. ASSUME NEW n \in Typed
        PROVE  n + 1 \in Typed
    <3>1. n \in Nat /\ n + 1 \in Nat /\ chosen[n] \in Seq(T)
      OBVIOUS
    <3> HIDE DEF Typed
    <3>2. chosen[n + 1] = step[n][chosen[n]]
      BY <1>2, <1>10, <3>1
    <3>3. chosen[n + 1] \in Seq(T)
      BY <1>1, <3>1, <3>2
    <3> QED BY <3>1, <3>3 DEF Typed
  <2> HIDE DEF Typed
  <2>3. Typed = Nat
    <3>1. Typed \in SUBSET Nat
      BY DEF Typed
    <3> QED BY <2>1, <2>2, <3>1, Induction
  <2>4. \A n \in Nat : chosen[n] \in Seq(T)
    BY <2>3 DEF Typed
  <2>5. chosen = [n \in Nat |-> chosen[n]]
    BY <1>7
  <2> QED BY <2>4, <2>5
<1> QED BY <1>9, <1>10, <1>11 DEF chosen, Chooses

\* What is chosen of a path is some of its tokens.
LEMMA ChosenAreTokens ==
  ASSUME NEW T, NEW path \in Seq(T), NEW positions \in SUBSET DOMAIN path
  PROVE  /\ Chosen(path, positions) \in Seq(T)
         /\ \A i \in DOMAIN Chosen(path, positions) :
              \E j \in positions : Chosen(path, positions)[i] = path[j]
<1> DEFINE chosen == ChosenUpTo(path, positions)
           Taken == {path[j] : j \in positions}
           Typed == {n \in Nat : chosen[n] \in Seq(Taken)}
<1>1. Chooses(chosen, path, positions, T)
  BY ChosenByStep
<1>2. Len(path) \in Nat
  BY LenProperties
<1> HIDE DEF chosen
<1>3. 0 \in Typed
  BY <1>1 DEF Chooses
<1>4. ASSUME NEW n \in Typed
      PROVE  n + 1 \in Typed
  <2>1. n + 1 \in positions => path[n + 1] \in Taken
    OBVIOUS
  <2>2. n \in Nat /\ n + 1 \in Nat /\ chosen[n] \in Seq(Taken)
    OBVIOUS
  <2> HIDE DEF Taken, Typed
  <2>3. n + 1 \in positions => Append(chosen[n], path[n + 1]) \in Seq(Taken)
    BY <2>1, <2>2, AppendProperties
  <2>4. chosen[n + 1] \in Seq(Taken)
    BY <1>1, <2>2, <2>3 DEF Chooses
  <2> QED BY <2>2, <2>4 DEF Typed
<1> HIDE DEF Typed
<1>5. Typed = Nat
  <2>1. Typed \in SUBSET Nat
    BY DEF Typed
  <2> QED BY <1>3, <1>4, <2>1, Induction
<1>6. chosen[Len(path)] \in Seq(Taken)
  BY <1>2, <1>5 DEF Typed
<1>7. \A i \in DOMAIN chosen[Len(path)] : chosen[Len(path)][i] \in Taken
  <2> HIDE DEF Taken
  <2> QED BY <1>6, ElementOfSeq, LenProperties
<1> QED BY <1>1, <1>2, <1>7 DEF Chosen, Chooses, chosen

\* The positions I of c are those J of a and, behind them, those K of b.
AreParts(c, I, a, J, b, K) ==
  /\ c = a \o b
  /\ I \in SUBSET DOMAIN c /\ J \in SUBSET DOMAIN a /\ K \in SUBSET DOMAIN b
  /\ \A i \in DOMAIN a : i \in I <=> i \in J
  /\ \A i \in DOMAIN b : Len(a) + i \in I <=> i \in K

\* Choosing goes part by part.
LEMMA PartsAreChosen ==
  ASSUME NEW T, NEW a \in Seq(T), NEW b \in Seq(T), NEW c, NEW I, NEW J, NEW K,
         AreParts(c, I, a, J, b, K)
  PROVE  Chosen(c, I) = Chosen(a, J) \o Chosen(b, K)
<1> DEFINE cc == ChosenUpTo(c, I)
           aa == ChosenUpTo(a, J)
           bb == ChosenUpTo(b, K)
           m == Len(a)
           joined == [n \in Nat |-> aa[m] \o bb[n]]
<1>1. /\ c \in Seq(T) /\ Len(c) = m + Len(b)
      /\ m \in Nat /\ Len(b) \in Nat
      /\ \A n \in Nat : n + 1 <= m => c[n + 1] = a[n + 1] /\ (n + 1 \in I <=> n + 1 \in J)
      /\ \A n \in Nat : n + 1 <= Len(b) =>
           /\ c[(m + n) + 1] = b[n + 1] /\ b[n + 1] \in T
           /\ (m + n) + 1 \in I <=> n + 1 \in K
  <2>1. /\ c \in Seq(T) /\ Len(c) = Len(a) + Len(b)
        /\ \A i \in 1 .. Len(a) + Len(b) : c[i] = IF i <= Len(a) THEN a[i] ELSE b[i - Len(a)]
    BY ConcatProperties DEF AreParts
  <2>2. Len(a) \in Nat /\ Len(b) \in Nat /\ DOMAIN a = 1 .. Len(a) /\ DOMAIN b = 1 .. Len(b)
    BY LenProperties
  <2>3. ASSUME NEW n \in Nat, n + 1 <= Len(a)
        PROVE  c[n + 1] = a[n + 1] /\ (n + 1 \in I <=> n + 1 \in J)
    <3>1. n + 1 \in 1 .. Len(a) /\ n + 1 \in 1 .. Len(a) + Len(b)
      BY <2>2, <2>3
    <3> QED BY <2>1, <2>2, <2>3, <3>1 DEF AreParts
  <2>4. ASSUME NEW n \in Nat, n + 1 <= Len(b)
        PROVE  /\ c[(Len(a) + n) + 1] = b[n + 1] /\ b[n + 1] \in T
               /\ (Len(a) + n) + 1 \in I <=> n + 1 \in K
    <3>1. /\ n + 1 \in 1 .. Len(b) /\ (Len(a) + n) + 1 = Len(a) + (n + 1)
          /\ (Len(a) + n) + 1 \in 1 .. Len(a) + Len(b) /\ ~ ((Len(a) + n) + 1 <= Len(a))
          /\ ((Len(a) + n) + 1) - Len(a) = n + 1
      BY <2>2, <2>4
    <3>2. c[(Len(a) + n) + 1] = b[n + 1]
      BY <2>1, <3>1
    <3>3. b[n + 1] \in T
      BY <3>1, ElementOfSeq
    <3>4. (Len(a) + n) + 1 \in I <=> n + 1 \in K
      BY <2>2, <3>1 DEF AreParts
    <3> QED BY <3>2, <3>3, <3>4
  <2> QED BY <2>1, <2>2, <2>3, <2>4
<1>2. Chooses(cc, c, I, T)
  BY <1>1, ChosenByStep DEF AreParts
<1>3. Chooses(aa, a, J, T)
  BY ChosenByStep DEF AreParts
<1>4. Chooses(bb, b, K, T)
  BY ChosenByStep DEF AreParts
<1>5. Chosen(c, I) = cc[Len(c)] /\ Chosen(a, J) = aa[m] /\ Chosen(b, K) = bb[Len(b)]
  BY DEF Chosen
<1> HIDE DEF aa, bb, cc, m
<1>6. /\ joined[0] = aa[m]
      /\ joined[Len(b)] = aa[m] \o bb[Len(b)]
      /\ \A n \in Nat : n + 1 <= Len(b) =>
           joined[n + 1] = IF n + 1 \in K THEN Append(joined[n], b[n + 1]) ELSE joined[n]
  <2>1. aa[m] \in Seq(T)
    BY <1>1, <1>3 DEF Chooses
  <2>2. aa[m] \o << >> = aa[m]
    BY <2>1, ConcatEmptySeq
  <2>3. ASSUME NEW n \in Nat, n + 1 <= Len(b)
        PROVE  joined[n + 1] = IF n + 1 \in K THEN Append(joined[n], b[n + 1]) ELSE joined[n]
    <3>1. bb[n] \in Seq(T) /\ b[n + 1] \in T /\ n + 1 \in Nat
      BY <1>1, <1>4, <2>3 DEF Chooses
    <3>2. joined[n] = aa[m] \o bb[n] /\ joined[n + 1] = aa[m] \o bb[n + 1]
      BY <3>1
    <3>3. aa[m] \o Append(bb[n], b[n + 1]) = Append(aa[m] \o bb[n], b[n + 1])
      <4>1. \A s, t \in Seq(T) : \A x \in T : s \o Append(t, x) = Append(s \o t, x)
        <5> SUFFICES ASSUME NEW s \in Seq(T), NEW t \in Seq(T), NEW x \in T
                     PROVE  s \o Append(t, x) = Append(s \o t, x)
          OBVIOUS
        <5>1. <<x>> \in Seq(T) /\ s \o t \in Seq(T)
          BY ConcatProperties
        <5>2. Append(t, x) = t \o <<x>> /\ Append(s \o t, x) = (s \o t) \o <<x>>
          BY <5>1, AppendIsConcat
        <5>3. (s \o t) \o <<x>> = s \o (t \o <<x>>)
          BY <5>1, ConcatAssociative
        <5> QED BY <5>2, <5>3
      <4> QED BY <2>1, <3>1, <4>1
    <3>4. bb[n + 1] = IF n + 1 \in K THEN Append(bb[n], b[n + 1]) ELSE bb[n]
      BY <1>4 DEF Chooses
    <3> HIDE DEF joined
    <3> QED BY <3>2, <3>3, <3>4
  <2>4. bb[0] = << >>
    BY <1>4 DEF Chooses
  <2> QED BY <1>1, <2>2, <2>3, <2>4
<1> HIDE DEF joined
<1>7. cc[m] = aa[m]
  <2> DEFINE Same == {n \in Nat : n <= m => cc[n] = aa[n]}
  <2>1. 0 \in Same
    BY <1>2, <1>3 DEF Chooses
  <2>2. ASSUME NEW n \in Same
        PROVE  n + 1 \in Same
    <3>1. n \in Nat /\ n + 1 \in Nat /\ (n + 1 <= m => n <= m)
      BY <1>1
    <3>2. n + 1 <= m => cc[n] = aa[n]
      BY <3>1
    <3> HIDE DEF Same
    <3>3. /\ cc[n + 1] = IF n + 1 \in I THEN Append(cc[n], c[n + 1]) ELSE cc[n]
          /\ aa[n + 1] = IF n + 1 \in J THEN Append(aa[n], a[n + 1]) ELSE aa[n]
      BY <1>2, <1>3, <3>1 DEF Chooses
    <3>4. n + 1 <= m => c[n + 1] = a[n + 1] /\ (n + 1 \in I <=> n + 1 \in J)
      BY <1>1, <3>1
    <3>5. n + 1 <= m => cc[n + 1] = aa[n + 1]
      BY <3>2, <3>3, <3>4
    <3> QED BY <3>1, <3>5 DEF Same
  <2> HIDE DEF Same
  <2>3. Same = Nat
    <3>1. Same \in SUBSET Nat
      BY DEF Same
    <3> QED BY <2>1, <2>2, <3>1, Induction
  <2> QED BY <1>1, <2>3 DEF Same
<1>8. cc[m + Len(b)] = joined[Len(b)]
  <2> DEFINE Same == {n \in Nat : n <= Len(b) => cc[m + n] = joined[n]}
  <2>1. 0 \in Same
    <3>1. m + 0 = m
      BY <1>1
    <3> QED BY <1>6, <1>7, <3>1
  <2>2. ASSUME NEW n \in Same
        PROVE  n + 1 \in Same
    <3>1. /\ n \in Nat /\ n + 1 \in Nat /\ (n + 1 <= Len(b) => n <= Len(b))
          /\ m + n \in Nat /\ m + (n + 1) = (m + n) + 1
      BY <1>1
    <3>2. n + 1 <= Len(b) => cc[m + n] = joined[n]
      BY <3>1
    <3> HIDE DEF Same
    <3>3. cc[(m + n) + 1] = IF (m + n) + 1 \in I THEN Append(cc[m + n], c[(m + n) + 1]) ELSE cc[m + n]
      BY <1>2, <3>1 DEF Chooses
    <3>4. n + 1 <= Len(b) => c[(m + n) + 1] = b[n + 1] /\ ((m + n) + 1 \in I <=> n + 1 \in K)
      BY <1>1, <3>1
    <3>5. n + 1 <= Len(b) =>
            joined[n + 1] = IF n + 1 \in K THEN Append(joined[n], b[n + 1]) ELSE joined[n]
      BY <1>6, <3>1
    <3>6. n + 1 <= Len(b) => cc[(m + n) + 1] = joined[n + 1]
      BY <3>2, <3>3, <3>4, <3>5
    <3> QED BY <3>1, <3>6 DEF Same
  <2> HIDE DEF Same
  <2>3. Same = Nat
    <3>1. Same \in SUBSET Nat
      BY DEF Same
    <3> QED BY <2>1, <2>2, <3>1, Induction
  <2> QED BY <1>1, <2>3 DEF Same
<1> QED BY <1>1, <1>5, <1>6, <1>8

\* Nothing goes when every position is chosen.
LEMMA AllAreChosen ==
  ASSUME NEW T, NEW path \in Seq(T)
  PROVE  Chosen(path, DOMAIN path) = path
<1> DEFINE chosen == ChosenUpTo(path, DOMAIN path)
           Same == {n \in Nat : n <= Len(path) =>
                      Len(chosen[n]) = n /\ \A i \in 1 .. n : chosen[n][i] = path[i]}
<1>1. Len(path) \in Nat /\ DOMAIN path = 1 .. Len(path)
  BY LenProperties
<1>2. Chooses(chosen, path, DOMAIN path, T)
  <2>1. DOMAIN path \in SUBSET DOMAIN path
    OBVIOUS
  <2> QED BY <2>1, ChosenByStep
<1> HIDE DEF chosen
<1>3. 0 \in Same
  BY <1>2 DEF Chooses
<1>4. ASSUME NEW n \in Same
      PROVE  n + 1 \in Same
  <2>1. SUFFICES ASSUME n + 1 <= Len(path)
                 PROVE  /\ Len(chosen[n + 1]) = n + 1
                        /\ \A i \in 1 .. n + 1 : chosen[n + 1][i] = path[i]
    OBVIOUS
  <2>2. n \in Nat /\ n <= Len(path) /\ n + 1 \in DOMAIN path
    BY <1>1, <2>1
  <2>3. Len(chosen[n]) = n /\ \A i \in 1 .. n : chosen[n][i] = path[i]
    BY <2>2
  <2> HIDE DEF Same
  <2>4. chosen[n] \in Seq(T) /\ path[n + 1] \in T /\ chosen[n + 1] = Append(chosen[n], path[n + 1])
    BY <1>1, <1>2, <2>2, ElementOfSeq DEF Chooses
  <2>5. /\ Len(chosen[n + 1]) = Len(chosen[n]) + 1
        /\ \A i \in 1 .. Len(chosen[n]) : chosen[n + 1][i] = chosen[n][i]
        /\ chosen[n + 1][Len(chosen[n]) + 1] = path[n + 1]
    BY <2>4, AppendProperties
  <2>6. \A i \in 1 .. n + 1 : i \in 1 .. n \/ i = n + 1
    BY <2>2
  <2> QED BY <2>3, <2>5, <2>6
<1> HIDE DEF Same
<1>5. Same = Nat
  <2>1. Same \in SUBSET Nat
    BY DEF Same
  <2> QED BY <1>3, <1>4, <2>1, Induction
<1>6. /\ Len(chosen[Len(path)]) = Len(path)
      /\ \A i \in 1 .. Len(path) : chosen[Len(path)][i] = path[i]
  BY <1>1, <1>5 DEF Same
<1>7. chosen[Len(path)] = path
  BY <1>1, <1>2, <1>6, SeqEqual DEF Chooses
<1> QED BY <1>7 DEF Chosen, chosen

\* A token behind a path without redundant slashes makes none, unless it is one.
LEMMA PlainAppend ==
  ASSUME NEW T, NEW s \in Seq(T), NEW x \in T, \A i \in 1 .. Len(s) : ~ Redundant(s, i),
         x = "/" /\ Len(s) > 0 /\ s[Len(s)] = "/" => Len(s) > 1 /\ s[Len(s) - 1] = ":"
  PROVE  \A i \in 1 .. Len(Append(s, x)) : ~ Redundant(Append(s, x), i)
<1> DEFINE t == Append(s, x)
           n == Len(s)
<1>1. n \in Nat /\ Len(t) = n + 1 /\ (\A i \in 1 .. n : t[i] = s[i]) /\ t[n + 1] = x
  BY AppendProperties, LenProperties
<1> HIDE DEF t
<1>2. ASSUME NEW i \in 1 .. n
      PROVE  ~ Redundant(t, i)
  <2>1. /\ t[i] = s[i]
        /\ i > 1 => i - 1 \in 1 .. n /\ t[i - 1] = s[i - 1]
        /\ i > 2 => i - 2 \in 1 .. n /\ t[i - 2] = s[i - 2]
    BY <1>1
  <2>2. ~ Redundant(s, i)
    OBVIOUS
  <2> QED BY <2>1, <2>2 DEF Redundant
<1>3. ~ Redundant(t, n + 1)
  <2> SUFFICES ASSUME n + 1 > 1, x = "/", t[n] = "/"
               PROVE  n + 1 > 2 /\ t[n - 1] = ":"
    <3>1. (n + 1) - 1 = n /\ (n + 1) - 2 = n - 1
      BY <1>1
    <3> QED BY <1>1, <3>1 DEF Redundant
  <2>1. n > 0 /\ n \in 1 .. n /\ t[n] = s[n]
    BY <1>1
  <2>2. n > 1 /\ s[n - 1] = ":"
    BY <2>1
  <2>3. n - 1 \in 1 .. n
    BY <1>1, <2>2
  <2> QED BY <1>1, <2>2, <2>3
<1>4. \A i \in 1 .. n + 1 : i \in 1 .. n \/ i = n + 1
  BY <1>1
<1> QED BY <1>1, <1>2, <1>3, <1>4 DEF t

\* Collapsing leaves no redundant slash, and the last token where it was.
LEMMA CollapsedIsPlain ==
  ASSUME NEW T, NEW path \in Seq(T)
  PROVE  /\ CollapseSlashes(path) \in Seq(T)
         /\ \A i \in 1 .. Len(CollapseSlashes(path)) : ~ Redundant(CollapseSlashes(path), i)
         /\ Len(path) > 0 =>
              /\ Len(CollapseSlashes(path)) > 0
              /\ CollapseSlashes(path)[Len(CollapseSlashes(path))] = path[Len(path)]
<1> DEFINE plain == {i \in DOMAIN path : ~ Redundant(path, i)}
           chosen == ChosenUpTo(path, plain)
           Shape(s, n) ==
             /\ \A i \in 1 .. Len(s) : ~ Redundant(s, i)
             /\ n > 0 => Len(s) > 0 /\ s[Len(s)] = path[n]
             /\ n > 1 /\ path[n] = "/" /\ path[n - 1] = ":" => Len(s) > 1 /\ s[Len(s) - 1] = ":"
           Good == {n \in Nat : n <= Len(path) => Shape(chosen[n], n)}
<1>1. Len(path) \in Nat /\ DOMAIN path = 1 .. Len(path)
  BY LenProperties
<1>2. Chooses(chosen, path, plain, T)
  <2>1. plain \in SUBSET DOMAIN path
    OBVIOUS
  <2> HIDE DEF plain
  <2> QED BY <2>1, ChosenByStep
<1> HIDE DEF chosen
<1>3. 0 \in Good
  <2>1. Len(chosen[0]) = 0
    BY <1>2 DEF Chooses
  <2> QED BY <2>1
<1>4. ASSUME NEW n \in Good
      PROVE  n + 1 \in Good
  <2>1. SUFFICES ASSUME n + 1 <= Len(path) PROVE Shape(chosen[n + 1], n + 1)
    OBVIOUS
  <2>2. n \in Nat /\ n <= Len(path) /\ n + 1 \in 1 .. Len(path) /\ (n + 1) - 1 = n /\ (n + 1) - 2 = n - 1
    BY <1>1, <2>1
  <2>3. Shape(chosen[n], n)
    BY <2>2
  <2> DEFINE s == chosen[n]
             x == path[n + 1]
  <2>4. s \in Seq(T) /\ x \in T /\ Len(s) \in Nat
    BY <1>2, <2>2, ElementOfSeq, LenProperties DEF Chooses
  <2>5. chosen[n + 1] = IF n + 1 \in plain THEN Append(s, x) ELSE s
    BY <1>2, <2>2 DEF Chooses
  <2>6. CASE Redundant(path, n + 1)
    <3>1. x = "/" /\ path[n] = "/" /\ n > 0
      BY <2>2, <2>6 DEF Redundant
    <3>2. chosen[n + 1] = s
      BY <2>5, <2>6
    <3>3. path[(n + 1) - 1] # ":"
      BY <2>2, <3>1
    <3> QED BY <2>2, <2>3, <3>1, <3>2, <3>3
  <2>7. CASE ~ Redundant(path, n + 1)
    <3>1. chosen[n + 1] = Append(s, x)
      BY <1>1, <2>2, <2>5, <2>7
    <3>2. /\ Len(Append(s, x)) = Len(s) + 1
          /\ \A i \in 1 .. Len(s) : Append(s, x)[i] = s[i]
          /\ Append(s, x)[Len(s) + 1] = x
      BY <2>4, AppendProperties
    <3>3. n = 0 => Len(s) = 0
      BY <1>2 DEF Chooses
    <3>4. x = "/" /\ Len(s) > 0 /\ s[Len(s)] = "/" => Len(s) > 1 /\ s[Len(s) - 1] = ":"
      <4> SUFFICES ASSUME x = "/", Len(s) > 0, s[Len(s)] = "/"
                   PROVE  Len(s) > 1 /\ s[Len(s) - 1] = ":"
        OBVIOUS
      <4>1. n > 0 /\ path[n] = "/"
        BY <2>2, <2>3, <3>3
      <4>2. n + 1 > 2 /\ path[n - 1] = ":"
        BY <2>2, <2>7, <4>1 DEF Redundant
      <4> QED BY <2>2, <2>3, <4>1, <4>2
    <3>5. \A i \in 1 .. Len(Append(s, x)) : ~ Redundant(Append(s, x), i)
      BY <2>3, <2>4, <3>4, PlainAppend
    <3>6. n + 1 > 1 /\ path[n] = ":" => Len(s) + 1 > 1 /\ Append(s, x)[Len(s)] = ":"
      <4>1. n + 1 > 1 => Len(s) > 0 /\ Len(s) \in 1 .. Len(s) /\ s[Len(s)] = path[n]
        BY <2>2, <2>3, <2>4
      <4> QED BY <2>4, <3>2, <4>1
    <3>7. (Len(s) + 1) - 1 = Len(s) /\ Len(s) + 1 > 0
      BY <2>4
    <3> QED BY <2>2, <3>1, <3>2, <3>5, <3>6, <3>7
  <2> QED BY <2>6, <2>7
<1> HIDE DEF Good
<1>5. Good = Nat
  <2>1. Good \in SUBSET Nat
    BY DEF Good
  <2> QED BY <1>3, <1>4, <2>1, Induction
<1>6. Shape(chosen[Len(path)], Len(path))
  <2>1. Len(path) <= Len(path)
    BY <1>1
  <2> QED BY <1>1, <1>5, <2>1 DEF Good
<1>7. chosen[Len(path)] = CollapseSlashes(path) /\ chosen[Len(path)] \in Seq(T)
  BY <1>1, <1>2 DEF CollapseSlashes, Chosen, Chooses, chosen
<1> QED BY <1>6, <1>7

\* Nulls go, and nothing else.
LEMMA NullsGo ==
  ASSUME NEW T, NEW path \in Seq(T)
  PROVE  /\ StripNulls(path) \in Seq(T)
         /\ \A i \in DOMAIN StripNulls(path) : StripNulls(path)[i] # "NUL"
<1> DEFINE named == {i \in DOMAIN path : path[i] # "NUL"}
<1>1. named \in SUBSET DOMAIN path /\ \A i \in named : path[i] # "NUL"
  OBVIOUS
<1>2. StripNulls(path) = Chosen(path, named)
  BY DEF StripNulls
<1> HIDE DEF named
<1>3. /\ Chosen(path, named) \in Seq(T)
      /\ \A i \in DOMAIN Chosen(path, named) : \E j \in named : Chosen(path, named)[i] = path[j]
  BY <1>1, ChosenAreTokens
<1> QED BY <1>1, <1>2, <1>3

\* Nulls go from each part of a path.
LEMMA NullsGoByParts ==
  ASSUME NEW T, NEW a \in Seq(T), NEW b \in Seq(T)
  PROVE  StripNulls(a \o b) = StripNulls(a) \o StripNulls(b)
<1> DEFINE Named(path) == {i \in DOMAIN path : path[i] # "NUL"}
<1>1. PICK c : c = a \o b
  OBVIOUS
<1>2. /\ c \in Seq(T) /\ Len(c) = Len(a) + Len(b)
      /\ \A i \in 1 .. Len(a) + Len(b) : c[i] = IF i <= Len(a) THEN a[i] ELSE b[i - Len(a)]
  BY <1>1, ConcatProperties
<1>3. /\ Len(a) \in Nat /\ Len(b) \in Nat
      /\ DOMAIN a = 1 .. Len(a) /\ DOMAIN b = 1 .. Len(b) /\ DOMAIN c = 1 .. Len(c)
  BY <1>2, LenProperties
<1>4. \A i \in DOMAIN a : i \in Named(c) <=> i \in Named(a)
  BY <1>2, <1>3
<1>5. ASSUME NEW i \in DOMAIN b
      PROVE  Len(a) + i \in Named(c) <=> i \in Named(b)
  <2>1. Len(a) + i \in 1 .. Len(a) + Len(b) /\ ~ (Len(a) + i <= Len(a)) /\ (Len(a) + i) - Len(a) = i
    BY <1>3
  <2> QED BY <1>2, <1>3, <2>1
<1>6. Named(a) \in SUBSET DOMAIN a /\ Named(b) \in SUBSET DOMAIN b /\ Named(c) \in SUBSET DOMAIN c
  OBVIOUS
<1>7. /\ StripNulls(a) = Chosen(a, Named(a))
      /\ StripNulls(b) = Chosen(b, Named(b))
      /\ StripNulls(c) = Chosen(c, Named(c))
  BY DEF StripNulls
<1> HIDE DEF Named
<1>8. AreParts(c, Named(c), a, Named(a), b, Named(b))
  BY <1>1, <1>4, <1>5, <1>6 DEF AreParts
<1>9. Chosen(c, Named(c)) = Chosen(a, Named(a)) \o Chosen(b, Named(b))
  BY <1>8, PartsAreChosen
<1> QED BY <1>1, <1>7, <1>9

\* A path that nothing has to go from is left alone.
LEMMA CleanIsLeftAlone ==
  ASSUME NEW T, NEW path \in Seq(T)
  PROVE  /\ (\A i \in DOMAIN path : path[i] # "NUL") => StripNulls(path) = path
         /\ (\A i \in DOMAIN path : ~ Redundant(path, i)) => CollapseSlashes(path) = path
<1>1. Chosen(path, DOMAIN path) = path
  BY AllAreChosen
<1>2. ASSUME \A i \in DOMAIN path : path[i] # "NUL"
      PROVE  StripNulls(path) = path
  <2>1. {i \in DOMAIN path : path[i] # "NUL"} = DOMAIN path
    BY <1>2
  <2> QED BY <1>1, <2>1 DEF StripNulls
<1>3. ASSUME \A i \in DOMAIN path : ~ Redundant(path, i)
      PROVE  CollapseSlashes(path) = path
  <2>1. {i \in DOMAIN path : ~ Redundant(path, i)} = DOMAIN path
    BY <1>3
  <2> QED BY <1>1, <2>1 DEF CollapseSlashes
<1> QED BY <1>2, <1>3

\* Collapsing moves no null to where there was none.
LEMMA CollapsedHasNoNulls ==
  ASSUME NEW T, NEW path \in Seq(T), \A i \in DOMAIN path : path[i] # "NUL"
  PROVE  \A i \in DOMAIN CollapseSlashes(path) : CollapseSlashes(path)[i] # "NUL"
<1> DEFINE plain == {i \in DOMAIN path : ~ Redundant(path, i)}
<1>1. plain \in SUBSET DOMAIN path
  OBVIOUS
<1>2. CollapseSlashes(path) = Chosen(path, plain)
  BY DEF CollapseSlashes
<1> HIDE DEF plain
<1>3. \A i \in DOMAIN Chosen(path, plain) : \E j \in plain : Chosen(path, plain)[i] = path[j]
  BY <1>1, ChosenAreTokens
<1> QED BY <1>1, <1>2, <1>3

\* The last step takes one slash from a path, or nothing.
LEMMA SlashIsStripped ==
  ASSUME NEW T, NEW path \in Seq(T)
  PROVE  /\ StripTrailingSlash(path) \in Seq(T)
         /\ Len(path) > 1 /\ path[Len(path)] = "/" =>
              /\ Len(StripTrailingSlash(path)) = Len(path) - 1
              /\ \A i \in 1 .. Len(path) - 1 : StripTrailingSlash(path)[i] = path[i]
         /\ ~ (Len(path) > 1 /\ path[Len(path)] = "/") => StripTrailingSlash(path) = path
<1>1. Len(path) \in Nat /\ \A i \in 1 .. Len(path) : path[i] \in T
  BY LenProperties, ElementOfSeq
<1>2. CASE Len(path) > 1 /\ path[Len(path)] = "/"
  <2>1. StripTrailingSlash(path) = SubSeq(path, 1, Len(path) - 1)
    BY <1>2 DEF StripTrailingSlash, Last, Front
  <2> DEFINE n == Len(path) - 1
  <2>2. n \in Nat /\ n > 0 /\ \A i \in 1 .. n : i \in 1 .. Len(path) /\ path[i] \in T
    BY <1>1, <1>2
  <2> HIDE DEF n
  <2>3. /\ SubSeq(path, 1, n) \in Seq(T)
        /\ Len(SubSeq(path, 1, n)) = n
        /\ \A i \in 1 .. n : SubSeq(path, 1, n)[i] = path[i]
    BY <2>2
  <2> QED BY <1>2, <2>1, <2>3 DEF n
<1>3. CASE ~ (Len(path) > 1 /\ path[Len(path)] = "/")
  BY <1>3 DEF StripTrailingSlash, Last
<1> QED BY <1>2, <1>3

\* A cleaned path (buildUrl) has no null byte and no slash too many, at its end
\* only if it is nothing else or ends as "://" did, and cleaning it again changes
\* nothing.
THEOREM PathsAreCleaned ==
  ASSUME NEW T, NEW path \in Seq(T)
  PROVE  LET clean == CleanPath(path)
             endsInSlash == Len(clean) > 1 /\ clean[Len(clean)] = "/"
         IN /\ clean \in Seq(T)
            /\ \A i \in 1 .. Len(clean) : clean[i] # "NUL" /\ ~ Redundant(clean, i)
            /\ endsInSlash => clean[Len(clean) - 1] = ":"
            /\ ~ endsInSlash => CleanPath(clean) = clean
<1> DEFINE named == StripNulls(path)
           collapsed == CollapseSlashes(named)
           clean == CleanPath(path)
<1>1. named \in Seq(T) /\ \A i \in DOMAIN named : named[i] # "NUL"
  BY NullsGo
<1> HIDE DEF named
<1>2. /\ collapsed \in Seq(T)
      /\ \A i \in 1 .. Len(collapsed) : ~ Redundant(collapsed, i)
  BY <1>1, CollapsedIsPlain
<1>3. \A i \in DOMAIN collapsed : collapsed[i] # "NUL"
  BY <1>1, CollapsedHasNoNulls
<1>4. clean = StripTrailingSlash(collapsed)
  BY DEF CleanPath, named
<1> HIDE DEF collapsed, clean
<1>5. /\ clean \in Seq(T) /\ Len(clean) \in Nat /\ Len(collapsed) \in Nat
      /\ DOMAIN clean = 1 .. Len(clean) /\ DOMAIN collapsed = 1 .. Len(collapsed)
  BY <1>2, <1>4, SlashIsStripped, LenProperties
<1>6. \A i \in 1 .. Len(clean) : i \in 1 .. Len(collapsed) /\ clean[i] = collapsed[i]
  BY <1>2, <1>4, <1>5, SlashIsStripped
<1>7. ASSUME NEW i \in 1 .. Len(clean)
      PROVE  clean[i] # "NUL" /\ ~ Redundant(clean, i)
  <2>1. /\ clean[i] = collapsed[i] /\ i \in 1 .. Len(collapsed)
        /\ i > 1 => i - 1 \in 1 .. Len(clean) /\ clean[i - 1] = collapsed[i - 1]
        /\ i > 2 => i - 2 \in 1 .. Len(clean) /\ clean[i - 2] = collapsed[i - 2]
    BY <1>5, <1>6
  <2>2. ~ Redundant(collapsed, i)
    BY <1>2, <2>1
  <2> QED BY <1>3, <1>5, <2>1, <2>2 DEF Redundant
<1>8. ASSUME Len(clean) > 1, clean[Len(clean)] = "/"
      PROVE  clean[Len(clean) - 1] = ":"
  <2> DEFINE n == Len(collapsed)
  <2>1. n > 1 /\ collapsed[n] = "/" /\ Len(clean) = n - 1
    <3>1. clean = collapsed \/ (n > 1 /\ collapsed[n] = "/")
      BY <1>2, <1>4, SlashIsStripped
    <3>2. clean = collapsed => n > 1 /\ collapsed[n] = "/"
      BY <1>8
    <3>3. n > 1 /\ collapsed[n] = "/"
      BY <3>1, <3>2
    <3> QED BY <1>2, <1>4, <3>3, SlashIsStripped
  <2>2. n - 1 \in 1 .. Len(clean) /\ n - 2 \in 1 .. Len(clean) /\ n \in 1 .. n /\ n > 2
    BY <1>5, <1>8, <2>1
  <2>3. collapsed[n - 1] = "/" /\ collapsed[n - 2] = clean[n - 2]
    BY <1>6, <1>8, <2>1, <2>2
  <2>4. collapsed[n - 2] = ":"
    BY <1>2, <2>1, <2>2, <2>3 DEF Redundant
  <2>5. Len(clean) - 1 = n - 2
    BY <1>5, <2>1
  <2> QED BY <2>3, <2>4, <2>5
<1>9. ASSUME ~ (Len(clean) > 1 /\ clean[Len(clean)] = "/")
      PROVE  CleanPath(clean) = clean
  <2>1. StripNulls(clean) = clean /\ CollapseSlashes(clean) = clean
    BY <1>5, <1>7, CleanIsLeftAlone
  <2>2. StripTrailingSlash(clean) = clean
    BY <1>5, <1>9, SlashIsStripped
  <2> QED BY <2>1, <2>2 DEF CleanPath
<1> QED BY <1>5, <1>7, <1>8, <1>9 DEF clean

\* No positions, no tokens.
LEMMA NothingIsChosen ==
  ASSUME NEW T, NEW path \in Seq(T)
  PROVE  Chosen(path, {}) = << >>
<1>1. PICK none : none = {}
  OBVIOUS
<1>2. none \in SUBSET DOMAIN path
  BY <1>1
<1>3. /\ Chosen(path, none) \in Seq(T)
      /\ \A i \in DOMAIN Chosen(path, none) : \E j \in none : Chosen(path, none)[i] = path[j]
  BY <1>2, ChosenAreTokens
<1>4. Len(Chosen(path, none)) \in Nat /\ DOMAIN Chosen(path, none) = 1 .. Len(Chosen(path, none))
  BY <1>3, LenProperties
<1>5. Len(Chosen(path, none)) = 0
  <2>1. DOMAIN Chosen(path, none) = {}
    BY <1>1, <1>3
  <2> QED BY <1>4, <2>1
<1> QED BY <1>1, <1>3, <1>5, EmptySeq

\* What is behind a path is collapsed with what is in front of it in view.
LEMMA CollapseByParts ==
  ASSUME NEW T, NEW a \in Seq(T), NEW b \in Seq(T)
  PROVE  CollapseSlashes(a \o b) =
           CollapseSlashes(a)
             \o Chosen(b, {i \in DOMAIN b : ~ Redundant(a \o b, Len(a) + i)})
<1> DEFINE Plain(path) == {i \in DOMAIN path : ~ Redundant(path, i)}
<1>1. PICK c : c = a \o b
  OBVIOUS
<1> DEFINE behind == {i \in DOMAIN b : ~ Redundant(c, Len(a) + i)}
<1>2. /\ c \in Seq(T) /\ Len(c) = Len(a) + Len(b)
      /\ \A i \in 1 .. Len(a) + Len(b) : c[i] = IF i <= Len(a) THEN a[i] ELSE b[i - Len(a)]
  BY <1>1, ConcatProperties
<1>3. /\ Len(a) \in Nat /\ Len(b) \in Nat
      /\ DOMAIN a = 1 .. Len(a) /\ DOMAIN b = 1 .. Len(b) /\ DOMAIN c = 1 .. Len(c)
  BY <1>2, LenProperties
<1>4. ASSUME NEW i \in DOMAIN a
      PROVE  i \in Plain(c) <=> i \in Plain(a)
  <2>1. /\ i \in DOMAIN c /\ c[i] = a[i]
        /\ i > 1 => c[i - 1] = a[i - 1]
        /\ i > 2 => c[i - 2] = a[i - 2]
    BY <1>2, <1>3
  <2>2. Redundant(c, i) <=> Redundant(a, i)
    BY <1>3, <2>1 DEF Redundant
  <2> QED BY <2>1, <2>2
<1>5. ASSUME NEW i \in DOMAIN b
      PROVE  Len(a) + i \in Plain(c) <=> i \in behind
  <2>1. Len(a) + i \in DOMAIN c
    BY <1>2, <1>3
  <2> QED BY <2>1
<1>6. /\ Plain(a) \in SUBSET DOMAIN a /\ behind \in SUBSET DOMAIN b
      /\ Plain(c) \in SUBSET DOMAIN c
  OBVIOUS
<1>7. CollapseSlashes(a) = Chosen(a, Plain(a)) /\ CollapseSlashes(c) = Chosen(c, Plain(c))
  BY DEF CollapseSlashes
<1>8. behind = {i \in DOMAIN b : ~ Redundant(a \o b, Len(a) + i)}
  BY <1>1
<1> HIDE DEF Plain, behind
<1>9. AreParts(c, Plain(c), a, Plain(a), b, behind)
  BY <1>1, <1>4, <1>5, <1>6 DEF AreParts
<1>10. Chosen(c, Plain(c)) = Chosen(a, Plain(a)) \o Chosen(b, behind)
  BY <1>9, PartsAreChosen
<1> QED BY <1>1, <1>7, <1>8, <1>10

\* A slash at the end is redundant behind a slash that is not right behind a colon.
LEMMA CollapsedSlash ==
  ASSUME NEW T, NEW a \in Seq(T), "/" \in T
  PROVE  CollapseSlashes(a \o <<"/">>) =
           IF Len(a) > 0 /\ a[Len(a)] = "/" /\ ~ (Len(a) > 1 /\ a[Len(a) - 1] = ":")
           THEN CollapseSlashes(a) ELSE CollapseSlashes(a) \o <<"/">>
<1> DEFINE redundant == Len(a) > 0 /\ a[Len(a)] = "/" /\ ~ (Len(a) > 1 /\ a[Len(a) - 1] = ":")
           c == a \o <<"/">>
           n == Len(a)
<1>1. <<"/">> \in Seq(T) /\ Len(<<"/">>) = 1 /\ DOMAIN <<"/">> = {1} /\ <<"/">>[1] = "/"
  OBVIOUS
<1>2. /\ c \in Seq(T) /\ Len(c) = n + 1 /\ n \in Nat
      /\ \A i \in 1 .. n : c[i] = a[i]
      /\ c[n + 1] = "/"
  BY <1>1, ConcatProperties, LenProperties
<1>3. CollapseSlashes(a) \in Seq(T)
  BY CollapsedIsPlain
<1>4. CollapseSlashes(c) =
        CollapseSlashes(a) \o Chosen(<<"/">>, {i \in {1} : ~ Redundant(c, n + i)})
  BY <1>1, CollapseByParts
<1> HIDE DEF c
<1>5. Redundant(c, n + 1) <=> redundant
  <2>1. n > 0 => c[n] = a[n]
    BY <1>2
  <2>2. n > 1 => c[n - 1] = a[n - 1]
    BY <1>2
  <2>3. (n + 1) - 1 = n /\ (n + 1) - 2 = n - 1 /\ (n + 1 > 1 <=> n > 0) /\ (n + 1 > 2 <=> n > 1)
    BY <1>2
  <2> QED BY <1>2, <2>1, <2>2, <2>3 DEF Redundant
<1>6. CASE redundant
  <2>1. {i \in {1} : ~ Redundant(c, n + i)} = {}
    BY <1>5, <1>6
  <2>2. Chosen(<<"/">>, {}) = << >>
    BY <1>1, NothingIsChosen
  <2> QED BY <1>3, <1>4, <1>6, <2>1, <2>2, ConcatEmptySeq DEF c
<1>7. CASE ~ redundant
  <2>1. {i \in {1} : ~ Redundant(c, n + i)} = DOMAIN <<"/">>
    BY <1>1, <1>5, <1>7
  <2>2. Chosen(<<"/">>, DOMAIN <<"/">>) = <<"/">>
    BY <1>1, AllAreChosen
  <2> QED BY <1>4, <1>7, <2>1, <2>2 DEF c
<1> QED BY <1>6, <1>7

\* One slash or two make no difference, but for those of a "://".
LEMMA SlashesAreOne ==
  ASSUME NEW T, NEW a \in Seq(T), NEW b \in Seq(T), "/" \in T,
         Len(a) > 0, a[Len(a)] = "/", ~ (Len(a) > 1 /\ a[Len(a) - 1] = ":")
  PROVE  CollapseSlashes((a \o <<"/">>) \o b) = CollapseSlashes(a \o b)
<1> DEFINE n == Len(a)
           slash == a \o <<"/">>
           long == slash \o b
           short == a \o b
<1>1. <<"/">> \in Seq(T) /\ Len(<<"/">>) = 1 /\ <<"/">>[1] = "/"
  OBVIOUS
<1>2. /\ slash \in Seq(T) /\ Len(slash) = n + 1 /\ n \in Nat /\ Len(b) \in Nat
      /\ \A i \in 1 .. n : slash[i] = a[i]
      /\ slash[n + 1] = "/"
      /\ DOMAIN b = 1 .. Len(b)
  BY <1>1, ConcatProperties, LenProperties
<1>3. CollapseSlashes(slash) = CollapseSlashes(a)
  BY CollapsedSlash
<1>4. CollapseSlashes(short) =
        CollapseSlashes(a) \o Chosen(b, {i \in DOMAIN b : ~ Redundant(short, n + i)})
  BY CollapseByParts
<1> HIDE DEF slash
<1>5. CollapseSlashes(long) =
        CollapseSlashes(slash) \o Chosen(b, {i \in DOMAIN b : ~ Redundant(long, Len(slash) + i)})
  BY <1>2, CollapseByParts
<1>6. /\ \A i \in 1 .. n + Len(b) : short[i] = IF i <= n THEN a[i] ELSE b[i - n]
      /\ \A i \in 1 .. (n + 1) + Len(b) :
           long[i] = IF i <= n + 1 THEN slash[i] ELSE b[i - (n + 1)]
  BY <1>2, ConcatProperties
<1> HIDE DEF long, short
<1>7. ASSUME NEW i \in DOMAIN b
      PROVE  Redundant(long, (n + 1) + i) <=> Redundant(short, n + i)
  <2>1. n > 0 /\ i \in Nat /\ i > 0 /\ i <= Len(b)
    BY <1>2
  <2>2. /\ long[(n + 1) + i] = b[i]
        /\ long[((n + 1) + i) - 1] = IF i = 1 THEN "/" ELSE b[i - 1]
        /\ long[((n + 1) + i) - 2] = IF i = 1 THEN "/" ELSE IF i = 2 THEN "/" ELSE b[i - 2]
    <3>1. long[(n + 1) + i] = b[i]
      BY <1>2, <1>6, <2>1
    <3>2. long[((n + 1) + i) - 1] = IF i = 1 THEN "/" ELSE b[i - 1]
      <4>1. CASE i = 1
        BY <1>2, <1>6, <2>1, <4>1
      <4>2. CASE i > 1
        <5>1. /\ ((n + 1) + i) - 1 \in 1 .. (n + 1) + Len(b) /\ ~ (((n + 1) + i) - 1 <= n + 1)
              /\ (((n + 1) + i) - 1) - (n + 1) = i - 1
          BY <1>2, <2>1, <4>2
        <5> QED BY <1>6, <4>2, <5>1
      <4> QED BY <2>1, <4>1, <4>2
    <3>3. long[((n + 1) + i) - 2] = IF i = 1 THEN "/" ELSE IF i = 2 THEN "/" ELSE b[i - 2]
      <4>1. CASE i = 1
        <5>1. ((n + 1) + i) - 2 = n /\ n \in 1 .. n /\ n \in 1 .. (n + 1) + Len(b) /\ n <= n + 1
          BY <1>2, <2>1, <4>1
        <5> QED BY <1>2, <1>6, <4>1, <5>1
      <4>2. CASE i = 2
        <5>1. ((n + 1) + i) - 2 = n + 1 /\ n + 1 \in 1 .. (n + 1) + Len(b) /\ n + 1 <= n + 1
          BY <1>2, <2>1, <4>2
        <5> QED BY <1>2, <1>6, <4>2, <5>1
      <4>3. CASE i > 2
        <5>1. /\ ((n + 1) + i) - 2 \in 1 .. (n + 1) + Len(b) /\ ~ (((n + 1) + i) - 2 <= n + 1)
              /\ (((n + 1) + i) - 2) - (n + 1) = i - 2
          BY <1>2, <2>1, <4>3
        <5> QED BY <1>6, <4>3, <5>1
      <4> QED BY <2>1, <4>1, <4>2, <4>3
    <3> QED BY <3>1, <3>2, <3>3
  <2>3. /\ short[n + i] = b[i]
        /\ short[(n + i) - 1] = IF i = 1 THEN "/" ELSE b[i - 1]
    <3>1. short[n + i] = b[i]
      BY <1>2, <1>6, <2>1
    <3>2. CASE i = 1
      <4>1. (n + i) - 1 = n /\ n \in 1 .. n + Len(b) /\ n <= n
        BY <1>2, <2>1, <3>2
      <4> QED BY <1>6, <3>1, <3>2, <4>1
    <3>3. CASE i > 1
      <4>1. /\ (n + i) - 1 \in 1 .. n + Len(b) /\ ~ ((n + i) - 1 <= n)
            /\ ((n + i) - 1) - n = i - 1
        BY <1>2, <2>1, <3>3
      <4> QED BY <1>6, <3>1, <3>3, <4>1
    <3> QED BY <2>1, <3>2, <3>3
  <2>4. n + i > 2 => short[(n + i) - 2] = IF i = 1 THEN a[n - 1] ELSE IF i = 2 THEN "/" ELSE b[i - 2]
    <3>1. CASE i = 1
      <4>1. n + i > 2 => (n + i) - 2 = n - 1 /\ n - 1 \in 1 .. n + Len(b) /\ n - 1 <= n
        BY <1>2, <2>1, <3>1
      <4> QED BY <1>6, <3>1, <4>1
    <3>2. CASE i = 2
      <4>1. (n + i) - 2 = n /\ n \in 1 .. n + Len(b) /\ n <= n
        BY <1>2, <2>1, <3>2
      <4> QED BY <1>6, <3>2, <4>1
    <3>3. CASE i > 2
      <4>1. /\ (n + i) - 2 \in 1 .. n + Len(b) /\ ~ ((n + i) - 2 <= n)
            /\ ((n + i) - 2) - n = i - 2
        BY <1>2, <2>1, <3>3
      <4> QED BY <1>6, <3>3, <4>1
    <3> QED BY <2>1, <3>1, <3>2, <3>3
  <2>5. (n + 1) + i > 1 /\ (n + 1) + i > 2 /\ n + i > 1
        /\ (n + i > 2 <=> n > 1 \/ i > 1)
    BY <1>2, <2>1
  <2>6. CASE i = 1
    <3>1. ~ (n + i > 2 /\ short[(n + i) - 2] = ":")
      BY <2>4, <2>5, <2>6
    <3> QED BY <2>2, <2>3, <2>5, <2>6, <3>1 DEF Redundant
  <2>7. CASE i # 1
    <3>1. n + i > 2 /\ short[(n + i) - 2] = IF i = 2 THEN "/" ELSE b[i - 2]
      BY <2>1, <2>4, <2>5, <2>7
    <3> QED BY <2>2, <2>3, <2>5, <2>7, <3>1 DEF Redundant
  <2> QED BY <2>6, <2>7
<1>8. {i \in DOMAIN b : ~ Redundant(long, Len(slash) + i)} =
        {i \in DOMAIN b : ~ Redundant(short, n + i)}
  BY <1>2, <1>7
<1> QED BY <1>3, <1>4, <1>5, <1>8 DEF slash, long, short

\* A null byte anywhere in a path makes no difference (url-builder.ts:43).
LEMMA NullsMakeNoDifference ==
  ASSUME NEW T, NEW a \in Seq(T), NEW b \in Seq(T), "NUL" \in T
  PROVE  StripNulls((a \o <<"NUL">>) \o b) = StripNulls(a \o b)
<1>1. <<"NUL">> \in Seq(T) /\ a \o <<"NUL">> \in Seq(T) /\ StripNulls(a) \in Seq(T)
  BY ConcatProperties, NullsGo
<1>2. StripNulls(<<"NUL">>) = << >>
  <2>1. {i \in DOMAIN <<"NUL">> : <<"NUL">>[i] # "NUL"} = {}
    OBVIOUS
  <2> QED BY <1>1, <2>1, NothingIsChosen DEF StripNulls
<1>3. \A x, y \in Seq(T) : StripNulls(x \o y) = StripNulls(x) \o StripNulls(y)
  BY NullsGoByParts
<1>4. StripNulls(a) \o << >> = StripNulls(a)
  BY <1>1, ConcatEmptySeq
<1>5. StripNulls(a \o <<"NUL">>) = StripNulls(a)
  BY <1>1, <1>2, <1>3, <1>4
<1>6. StripNulls((a \o <<"NUL">>) \o b) = StripNulls(a \o <<"NUL">>) \o StripNulls(b)
  BY <1>1, <1>3
<1>7. StripNulls(a \o b) = StripNulls(a) \o StripNulls(b)
  BY <1>3
<1> QED BY <1>5, <1>6, <1>7

\* Slashes have no null bytes to strip.
LEMMA SlashIsNoNull ==
  ASSUME NEW T, "/" \in T
  PROVE  <<"/">> \in Seq(T) /\ StripNulls(<<"/">>) = <<"/">>
<1>1. <<"/">> \in Seq(T) /\ \A i \in DOMAIN <<"/">> : <<"/">>[i] # "NUL"
  OBVIOUS
<1> QED BY <1>1, CleanIsLeftAlone

\* Ways of spelling a path that make no difference to what buildUrl makes of it:
\* a null byte anywhere, two slashes for one unless they begin right behind a
\* colon, and a slash at the end of what does not end in ":/".
THEOREM SpellingsOfPathsAgree ==
  ASSUME NEW T, NEW a \in Seq(T), NEW b \in Seq(T), "/" \in T, "NUL" \in T
  PROVE  LET named == StripNulls(a)
             n == Len(named)
         IN /\ CleanPath((a \o <<"NUL">>) \o b) = CleanPath(a \o b)
            /\ ~ (n > 0 /\ named[n] = ":") =>
                 CleanPath(((a \o <<"/">>) \o <<"/">>) \o b) = CleanPath((a \o <<"/">>) \o b)
            /\ n > 0 /\ ~ (n > 1 /\ named[n - 1] = ":" /\ named[n] = "/") =>
                 CleanPath(a \o <<"/">>) = CleanPath(a)
<1> DEFINE named == StripNulls(a)
           n == Len(named)
<1>1. CleanPath((a \o <<"NUL">>) \o b) = CleanPath(a \o b)
  BY NullsMakeNoDifference DEF CleanPath
<1>2. /\ named \in Seq(T) /\ StripNulls(b) \in Seq(T) /\ n \in Nat
      /\ <<"/">> \in Seq(T) /\ StripNulls(<<"/">>) = <<"/">>
      /\ a \o <<"/">> \in Seq(T) /\ (a \o <<"/">>) \o <<"/">> \in Seq(T)
  BY NullsGo, SlashIsNoNull, ConcatProperties, LenProperties
<1>3. \A x, y \in Seq(T) : StripNulls(x \o y) = StripNulls(x) \o StripNulls(y)
  BY NullsGoByParts
<1>4. StripNulls(a \o <<"/">>) = named \o <<"/">>
  <2>1. StripNulls(a \o <<"/">>) = StripNulls(a) \o StripNulls(<<"/">>)
    <3>1. <<"/">> \in Seq(T)
      BY <1>2
    <3> QED BY <1>3, <3>1
  <2> QED BY <1>2, <2>1
<1>5. StripNulls((a \o <<"/">>) \o <<"/">>) = (named \o <<"/">>) \o <<"/">>
  BY <1>2, <1>3, <1>4, ZenonT(40)
<1> HIDE DEF named
<1>6. ASSUME ~ (n > 0 /\ named[n] = ":")
      PROVE  CleanPath(((a \o <<"/">>) \o <<"/">>) \o b) = CleanPath((a \o <<"/">>) \o b)
  <2>1. /\ StripNulls((a \o <<"/">>) \o b) = (named \o <<"/">>) \o StripNulls(b)
        /\ StripNulls(((a \o <<"/">>) \o <<"/">>) \o b) =
             ((named \o <<"/">>) \o <<"/">>) \o StripNulls(b)
    BY <1>2, <1>3, <1>4, <1>5
  <2> DEFINE slash == named \o <<"/">>
  <2>2. /\ slash \in Seq(T) /\ Len(slash) = n + 1
        /\ slash[n + 1] = "/" /\ \A i \in 1 .. n : slash[i] = named[i]
    BY <1>2, ConcatProperties
  <2> HIDE DEF slash
  <2>3. Len(slash) > 0 /\ slash[Len(slash)] = "/" /\ ~ (Len(slash) > 1 /\ slash[Len(slash) - 1] = ":")
    <3>1. (n + 1) - 1 = n /\ (n + 1 > 1 => n > 0 /\ n \in 1 .. n)
      BY <1>2
    <3> QED BY <1>2, <1>6, <2>2, <3>1
  <2>4. CollapseSlashes((slash \o <<"/">>) \o StripNulls(b)) = CollapseSlashes(slash \o StripNulls(b))
    BY <1>2, <2>2, <2>3, SlashesAreOne
  <2> QED BY <2>1, <2>4 DEF CleanPath, slash
<1>7. ASSUME n > 0, ~ (n > 1 /\ named[n - 1] = ":" /\ named[n] = "/")
      PROVE  CleanPath(a \o <<"/">>) = CleanPath(a)
  <2> DEFINE k == CollapseSlashes(named)
  <2>1. k \in Seq(T) /\ Len(k) \in Nat /\ Len(k) > 0 /\ k[Len(k)] = named[n]
    BY <1>2, <1>7, CollapsedIsPlain, LenProperties
  <2>2. CollapseSlashes(named \o <<"/">>) =
          IF n > 0 /\ named[n] = "/" /\ ~ (n > 1 /\ named[n - 1] = ":") THEN k ELSE k \o <<"/">>
    BY <1>2, CollapsedSlash
  <2> HIDE DEF k
  <2>3. CASE named[n] = "/"
    <3>1. CollapseSlashes(named \o <<"/">>) = k
      BY <1>7, <2>2, <2>3
    <3> QED BY <1>4, <3>1 DEF CleanPath, k, named
  <2>4. CASE named[n] # "/"
    <3> DEFINE c == k \o <<"/">>
    <3>1. /\ c \in Seq(T) /\ Len(c) = Len(k) + 1
          /\ c[Len(k) + 1] = "/" /\ \A i \in 1 .. Len(k) : c[i] = k[i]
      BY <1>2, <2>1, ConcatProperties
    <3> HIDE DEF c
    <3>2. CollapseSlashes(named \o <<"/">>) = c
      BY <2>2, <2>4 DEF c
    <3>3. Len(c) > 1 /\ c[Len(c)] = "/"
      BY <2>1, <3>1
    <3>4. /\ StripTrailingSlash(c) \in Seq(T)
          /\ Len(StripTrailingSlash(c)) = Len(c) - 1
          /\ \A i \in 1 .. Len(c) - 1 : StripTrailingSlash(c)[i] = c[i]
      BY <3>1, <3>3, SlashIsStripped
    <3>5. StripTrailingSlash(c) = k
      <4>1. Len(c) - 1 = Len(k)
        BY <2>1, <3>1
      <4> QED BY <2>1, <3>1, <3>4, <4>1, SeqEqual
    <3>6. StripTrailingSlash(k) = k
      BY <2>1, <2>4, SlashIsStripped
    <3> QED BY <1>4, <3>2, <3>5, <3>6 DEF CleanPath, k, named
  <2> QED BY <2>3, <2>4
<1> QED BY <1>1, <1>6, <1>7 DEF named

\* The two parts of a path that a token is put between.
ArePartsOf(path, k, token, a, b) ==
  /\ a \o b = path /\ Len(a) = k /\ Len(b) = Len(path) - k
  /\ \A i \in 1 .. k : a[i] = path[i]
  /\ InsertAt(path, k + 1, token) = (a \o <<token>>) \o b

\* A token that is put into a path parts it in two.
LEMMA InsertedBetween ==
  ASSUME NEW T, NEW path \in Seq(T), NEW k \in 0 .. Len(path), NEW token \in T
  PROVE  \E a, b \in Seq(T) : ArePartsOf(path, k, token, a, b)
<1> DEFINE a == SubSeq(path, 1, k)
           b == SubSeq(path, k + 1, Len(path))
           n == Len(path)
<1>1. n \in Nat /\ k \in Nat /\ k <= n /\ \A i \in 1 .. n : path[i] \in T
  BY LenProperties, ElementOfSeq
<1>2. /\ a \in Seq(T) /\ Len(a) = k /\ \A i \in 1 .. k : a[i] = path[i]
  <2>1. \A i \in 1 .. k : path[i] \in T
    BY <1>1
  <2> QED BY <1>1, <2>1
<1>3. /\ b \in Seq(T) /\ Len(b) = n - k /\ \A i \in 1 .. n - k : b[i] = path[k + i]
  <2>1. \A i \in k + 1 .. n : path[i] \in T
    BY <1>1
  <2> QED BY <1>1, <2>1
<1> HIDE DEF a, b
<1>4. a \o b = path
  <2>1. /\ a \o b \in Seq(T) /\ Len(a \o b) = Len(a) + Len(b)
        /\ \A i \in 1 .. Len(a) + Len(b) : (a \o b)[i] = IF i <= Len(a) THEN a[i] ELSE b[i - Len(a)]
    BY <1>2, <1>3, ConcatProperties
  <2>2. Len(a \o b) = n /\ \A i \in 1 .. n : (a \o b)[i] = IF i <= k THEN a[i] ELSE b[i - k]
    BY <1>1, <1>2, <1>3, <2>1
  <2>3. ASSUME NEW i \in 1 .. n
        PROVE  (a \o b)[i] = path[i]
    <3>1. CASE i <= k
      BY <1>1, <1>2, <2>2, <3>1
    <3>2. CASE ~ (i <= k)
      <4>1. i - k \in 1 .. n - k /\ k + (i - k) = i
        BY <1>1, <3>2
      <4> QED BY <1>3, <2>2, <3>2, <4>1
    <3> QED BY <3>1, <3>2
  <2> HIDE DEF n
  <2>4. Len(path) = n
    BY DEF n
  <2> QED BY <2>1, <2>2, <2>3, <2>4, SeqEqual
<1>5. InsertAt(path, k + 1, token) = (a \o <<token>>) \o b
  <2>1. (k + 1) - 1 = k
    BY <1>1
  <2> QED BY <2>1 DEF InsertAt, a, b
<1> QED BY <1>2, <1>3, <1>4, <1>5 DEF ArePartsOf

\* A sequence with one more at its end.
LEMMA OneMore ==
  ASSUME NEW T, NEW s \in Seq(T), NEW x \in T
  PROVE  /\ <<x>> \in Seq(T) /\ s \o <<x>> \in Seq(T) /\ Len(s \o <<x>>) = Len(s) + 1
         /\ \A i \in 1 .. Len(s) : (s \o <<x>>)[i] = s[i]
         /\ (s \o <<x>>)[Len(s) + 1] = x
<1>1. <<x>> \in Seq(T) /\ Len(<<x>>) = 1 /\ <<x>>[1] = x
  OBVIOUS
<1>2. Len(s) \in Nat
  BY LenProperties, SMTT(30)
<1> QED BY <1>1, <1>2, ConcatProperties

\* A sequence that has something is its front and its end.
LEMMA FrontAndEnd ==
  ASSUME NEW T, NEW s \in Seq(T), Len(s) > 0
  PROVE  \E front \in Seq(T) :
           /\ Len(front) = Len(s) - 1
           /\ \A i \in 1 .. Len(s) - 1 : front[i] = s[i]
           /\ s[Len(s)] \in T
           /\ s = front \o <<s[Len(s)]>>
<1> DEFINE n == Len(s) - 1
           front == SubSeq(s, 1, n)
<1>1. n \in Nat /\ Len(s) = n + 1 /\ \A i \in 1 .. n : s[i] \in T
  BY LenProperties, ElementOfSeq
<1>2. s[Len(s)] \in T
  BY LenProperties, ElementOfSeq
<1> HIDE DEF n
<1>3. front \in Seq(T) /\ Len(front) = n /\ \A i \in 1 .. n : front[i] = s[i]
  BY <1>1
<1> HIDE DEF front
<1> DEFINE whole == front \o <<s[Len(s)]>>
<1>4. /\ whole \in Seq(T) /\ Len(whole) = n + 1
      /\ \A i \in 1 .. n : whole[i] = front[i]
      /\ whole[n + 1] = s[Len(s)]
  BY <1>2, <1>3, OneMore
<1> HIDE DEF whole
<1>5. \A i \in 1 .. n + 1 : i \in 1 .. n \/ i = n + 1
  BY <1>1
<1>6. \A i \in 1 .. n + 1 : s[i] = whole[i]
  BY <1>1, <1>3, <1>4, <1>5
<1>7. s = whole
  BY <1>1, <1>4, <1>6, SeqEqual
<1> QED BY <1>1, <1>2, <1>3, <1>7 DEF whole, n

\* Stripping the null bytes of a path that does not end in one leaves its end.
LEMMA EndIsNamed ==
  ASSUME NEW T, NEW path \in Seq(T), Len(path) > 0, path[Len(path)] # "NUL"
  PROVE  /\ Len(StripNulls(path)) \in Nat /\ Len(StripNulls(path)) > 0
         /\ StripNulls(path)[Len(StripNulls(path))] = path[Len(path)]
<1> DEFINE last == path[Len(path)]
<1>1. PICK front \in Seq(T) : last \in T /\ path = front \o <<last>>
  BY FrontAndEnd
<1> HIDE DEF last
<1>2. <<last>> \in Seq(T) /\ \A i \in DOMAIN <<last>> : <<last>>[i] # "NUL"
  BY <1>1 DEF last
<1>3. StripNulls(<<last>>) = <<last>>
  BY <1>2, CleanIsLeftAlone
<1>4. StripNulls(front \o <<last>>) = StripNulls(front) \o StripNulls(<<last>>)
  BY <1>1, <1>2, NullsGoByParts
<1>5. StripNulls(front) \in Seq(T) /\ Len(StripNulls(front)) \in Nat
  BY <1>1, NullsGo, LenProperties
<1> DEFINE named == StripNulls(front)
<1> HIDE DEF named
<1>6. Len(named \o <<last>>) = Len(named) + 1 /\ (named \o <<last>>)[Len(named) + 1] = last
  BY <1>1, <1>5, OneMore DEF named
<1>7. StripNulls(path) = named \o <<last>>
  BY <1>1, <1>3, <1>4 DEF named
<1>8. Len(named) \in Nat
  BY <1>5 DEF named
<1> QED BY <1>6, <1>7, <1>8 DEF last

\* A clean path is cleaned already.
LEMMA CleanStaysClean ==
  ASSUME NEW T, NEW path \in Seq(T), IsClean(path)
  PROVE  CleanPath(path) = path
<1>1. Len(path) \in Nat /\ DOMAIN path = 1 .. Len(path)
  BY LenProperties
<1>2. StripNulls(path) = path
  BY CleanIsLeftAlone DEF IsClean
<1>3. CollapseSlashes(path) = path
  <2>1. \A i \in DOMAIN path : ~ Redundant(path, i)
    BY <1>1 DEF IsClean, Redundant
  <2> QED BY <2>1, CleanIsLeftAlone
<1>4. StripTrailingSlash(path) = path
  BY SlashIsStripped DEF IsClean
<1> QED BY <1>2, <1>3, <1>4 DEF CleanPath

\* What respells a path makes no difference to what buildUrl makes of it.
LEMMA RespellingsAgree ==
  ASSUME NEW T, NEW path \in Seq(T), "/" \in T, "NUL" \in T,
         NEW other \in Respellings(path)
  PROVE  CleanPath(other) = CleanPath(path)
<1>1. Len(path) \in Nat /\ DOMAIN path = 1 .. Len(path)
  BY LenProperties
<1>0. \A k \in 0 .. Len(path), token \in T : \E a, b \in Seq(T) : ArePartsOf(path, k, token, a, b)
  BY InsertedBetween
<1>2. ASSUME NEW k \in 1 .. Len(path) + 1, other = InsertAt(path, k, "NUL")
      PROVE  CleanPath(other) = CleanPath(path)
  <2>1. k - 1 \in 0 .. Len(path) /\ (k - 1) + 1 = k
    BY <1>1
  <2>2. PICK a, b \in Seq(T) : a \o b = path /\ InsertAt(path, k, "NUL") = (a \o <<"NUL">>) \o b
    <3>1. PICK a, b \in Seq(T) : ArePartsOf(path, k - 1, "NUL", a, b)
      BY <1>0, <2>1
    <3> QED BY <2>1, <3>1 DEF ArePartsOf
  <2>3. CleanPath((a \o <<"NUL">>) \o b) = CleanPath(a \o b)
    BY SpellingsOfPathsAgree
  <2> QED BY <1>2, <2>2, <2>3
<1>3. ASSUME NEW k \in 1 .. Len(path), other = InsertAt(path, k + 1, "/"),
             path[k] = "/", k > 1 => path[k - 1] \notin {":", "NUL"}
      PROVE  CleanPath(other) = CleanPath(path)
  <2>0. k \in Nat /\ k >= 1 /\ k <= Len(path) /\ \A i \in 1 .. Len(path) : path[i] \in T
    BY <1>1, ElementOfSeq
  <2>1. PICK c, b \in Seq(T) : /\ c \o b = path /\ Len(c) = k /\ Len(b) = Len(path) - k
                               /\ \A i \in 1 .. k : c[i] = path[i]
                               /\ InsertAt(path, k + 1, "/") = (c \o <<"/">>) \o b
    <3>1. k \in 0 .. Len(path)
      BY <2>0
    <3>2. PICK c, b \in Seq(T) : ArePartsOf(path, k, "/", c, b)
      BY <1>0, <3>1
    <3> QED BY <3>2 DEF ArePartsOf
  <2> DEFINE a == SubSeq(path, 1, k - 1)
  <2>2. a \in Seq(T) /\ Len(a) = k - 1 /\ \A i \in 1 .. k - 1 : a[i] = path[i]
    <3>1. \A i \in 1 .. k - 1 : path[i] \in T
      BY <2>0
    <3> QED BY <2>0, <3>1
  <2> HIDE DEF a
  <2>3. c = a \o <<"/">>
    <3>1. /\ a \o <<"/">> \in Seq(T) /\ Len(a \o <<"/">>) = k
          /\ \A i \in 1 .. k - 1 : (a \o <<"/">>)[i] = path[i]
          /\ (a \o <<"/">>)[k] = "/"
      <4>1. /\ a \o <<"/">> \in Seq(T) /\ Len(a \o <<"/">>) = Len(a) + 1
            /\ \A i \in 1 .. Len(a) : (a \o <<"/">>)[i] = a[i]
            /\ (a \o <<"/">>)[Len(a) + 1] = "/"
        <5>1. \A x \in T : /\ a \o <<x>> \in Seq(T) /\ Len(a \o <<x>>) = Len(a) + 1
                           /\ \A i \in 1 .. Len(a) : (a \o <<x>>)[i] = a[i]
                           /\ (a \o <<x>>)[Len(a) + 1] = x
          BY <2>2, OneMore
        <5> QED BY <5>1
      <4>2. Len(a) + 1 = k /\ Len(a) = k - 1
        BY <2>0, <2>2
      <4> QED BY <2>2, <4>1, <4>2
    <3>2. \A i \in 1 .. k : i \in 1 .. k - 1 \/ i = k
      BY <2>0
    <3>3. \A i \in 1 .. k : c[i] = (a \o <<"/">>)[i]
      BY <1>3, <2>0, <2>1, <3>1, <3>2
    <3> QED BY <2>1, <3>1, <3>3, SeqEqual
  <2> DEFINE named == StripNulls(a)
  <2>4. ~ (Len(named) > 0 /\ named[Len(named)] = ":")
    <3>1. CASE k > 1
      <4>1. Len(a) > 0 /\ a[Len(a)] = path[k - 1]
        BY <2>0, <2>2, <3>1
      <4>2. named[Len(named)] = path[k - 1]
        BY <1>3, <2>2, <3>1, <4>1, EndIsNamed
      <4> QED BY <1>3, <3>1, <4>2
    <3>2. CASE k = 1
      <4>1. a = << >>
        BY <2>2, <3>2, EmptySeq
      <4>2. \A i \in DOMAIN a : a[i] # "NUL"
        BY <4>1
      <4>3. named = << >>
        BY <2>2, <4>1, <4>2, CleanIsLeftAlone
      <4> QED BY <4>3
    <3> QED BY <2>0, <3>1, <3>2
  <2>5. CleanPath(((a \o <<"/">>) \o <<"/">>) \o b) = CleanPath((a \o <<"/">>) \o b)
    BY <2>1, <2>2, <2>4, SpellingsOfPathsAgree
  <2> QED BY <1>3, <2>1, <2>3, <2>5
<1>4. ASSUME NEW k \in 1 .. Len(path), other = InsertAt(path, k + 1, "/"),
             path[k] \notin {"/", "NUL"}, k = Len(path)
      PROVE  CleanPath(other) = CleanPath(path)
  <2> DEFINE named == StripNulls(path)
  <2>1. PICK c, b \in Seq(T) : /\ c \o b = path /\ Len(c) = k /\ Len(b) = Len(path) - k
                               /\ \A i \in 1 .. k : c[i] = path[i]
                               /\ InsertAt(path, k + 1, "/") = (c \o <<"/">>) \o b
    <3>1. k \in 0 .. Len(path)
      BY <1>1
    <3>2. PICK c, b \in Seq(T) : ArePartsOf(path, k, "/", c, b)
      BY <1>0, <3>1
    <3> QED BY <3>2 DEF ArePartsOf
  <2>2. b = << >>
    <3>1. Len(b) = 0
      BY <1>1, <1>4, <2>1
    <3> QED BY <3>1, EmptySeq
  <2>3. c = path
    BY <1>4, <2>1, SeqEqual
  <2>4. <<"/">> \in Seq(T)
    OBVIOUS
  <2>5. path \o <<"/">> \in Seq(T)
    BY <2>4, ConcatProperties
  <2>6. other = path \o <<"/">>
    <3>1. (path \o <<"/">>) \o << >> = path \o <<"/">>
      BY <2>5, ConcatEmptySeq
    <3> QED BY <1>4, <2>1, <2>2, <2>3, <3>1
  <2>7. Len(named) \in Nat /\ Len(named) > 0 /\ named[Len(named)] # "/"
    BY <1>1, <1>4, EndIsNamed
  <2>8. CleanPath(path \o <<"/">>) = CleanPath(path)
    BY <2>7, SpellingsOfPathsAgree
  <2> QED BY <2>6, <2>8
<1> QED BY <1>1, <1>2, <1>3, <1>4 DEF Respellings

\* Cleaning undoes any number of respellings.
LEMMA CleaningUndoesRespelling ==
  ASSUME NEW T, NEW path \in Seq(Seq(T)), "/" \in T, "NUL" \in T, IsRespelled(path)
  PROVE  /\ CleanPath(path[1]) = path[1]
         /\ CleanPath(Last(path)) = path[1]
<1>1. /\ Len(path) \in Nat /\ Len(path) > 0
      /\ \A i \in 1 .. Len(path) : path[i] \in Seq(T)
  BY LenProperties, ElementOfSeq DEF IsRespelled
<1>2. path[1] \in Seq(T) /\ CleanPath(path[1]) = path[1]
  BY <1>1, CleanStaysClean DEF IsRespelled
<1> DEFINE I == {n \in Nat : n < Len(path) => CleanPath(path[n + 1]) = path[1]}
<1>3. 0 \in I
  BY <1>2
<1>4. ASSUME NEW n \in I
      PROVE  n + 1 \in I
  <2>1. CASE n + 1 < Len(path)
    <3>1. CleanPath(path[n + 1]) = path[1] /\ n + 1 \in 1 .. Len(path) - 1
      BY <1>1, <2>1
    <3>2. path[n + 1] \in Seq(T) /\ path[(n + 1) + 1] \in Respellings(path[n + 1])
      BY <1>1, <3>1 DEF IsRespelled
    <3>3. CleanPath(path[(n + 1) + 1]) = CleanPath(path[n + 1])
      BY <3>2, RespellingsAgree
    <3> QED BY <3>1, <3>3
  <2>2. CASE ~ (n + 1 < Len(path))
    BY <2>2
  <2> QED BY <2>1, <2>2
<1>5. I = Nat
  BY <1>3, <1>4, Induction
<1>6. PICK n \in Nat : n + 1 = Len(path) /\ n < Len(path)
  <2>1. Len(path) - 1 \in Nat /\ (Len(path) - 1) + 1 = Len(path) /\ Len(path) - 1 < Len(path)
    BY <1>1
  <2> QED BY <2>1
<1>7. CleanPath(path[Len(path)]) = path[1]
  <2>1. n \in I
    BY <1>5, <1>6
  <2> QED BY <1>6, <2>1
<1> QED BY <1>2, <1>7 DEF Last

----------------------------------------------------------------------------
(* Identifiers *)

\* What a validator that gives id back as normal, or refuses it, makes of it.
IsSettled(denoted, valid, normal) ==
  IF valid THEN denoted # None /\ normal = denoted ELSE denoted = None

\* The same, but for the zeros in front of its fields.
IsSettledButZeros(denoted, valid, normal) ==
  IF valid THEN denoted # None /\ normal = WithZerosOf(denoted, normal) ELSE denoted = None

Separators == {".", "-", "at", "/"}

\* Ids with the same fields and separators differ in their zeros only.
LEMMA ZerosAreApart ==
  \A f, s, a, other : WithZerosOf(Id(f, s, a), other) = Id(f, s, other.zeros)
BY DEF Id, WithZerosOf

\* What is made of fields and separators is an id.
LEMMA IdsAreMade ==
  ASSUME NEW f \in Seq(Nat \cup {Junk}), NEW s \in Seq(Separators), NEW a \in BOOLEAN,
         Len(f) = Len(s) + 1
  PROVE  Id(f, s, a) \in FieldIds /\ Id(f, s, a) # None
<1>1. /\ Id(f, s, a) \in [fields : Seq(Nat \cup {Junk}), separators : Seq(Separators),
                          zeros : BOOLEAN]
      /\ Id(f, s, a).fields = f /\ Id(f, s, a).separators = s
  BY DEF Id
<1>2. Id(f, s, a) \in FieldIds
  BY <1>1 DEF FieldIds, Separators
<1>3. None \notin FieldIds
  <2>1. "entity id" \in IdKinds /\ IdsOf("entity id") = FieldIds
    BY DEF IdKinds, IdsOf
  <2> QED BY <2>1, ConversionsAssumption
<1> QED BY <1>2, <1>3

\* What an id is made of.
LEMMA FieldIdsAreIds ==
  ASSUME NEW id \in FieldIds
  PROVE  /\ id = Id(id.fields, id.separators, id.zeros)
         /\ id.fields \in Seq(Nat \cup {Junk}) /\ id.separators \in Seq(Separators)
         /\ id.zeros \in BOOLEAN
         /\ Len(id.fields) = Len(id.separators) + 1
         /\ DOMAIN id.fields = 1 .. Len(id.fields)
         /\ Len(id.fields) \in Nat /\ Len(id.separators) \in Nat
<1>1. /\ id \in [fields : Seq(Nat \cup {Junk}), separators : Seq(Separators), zeros : BOOLEAN]
      /\ Len(id.fields) = Len(id.separators) + 1
  BY DEF FieldIds, Separators
<1>2. /\ id = Id(id.fields, id.separators, id.zeros)
      /\ id.fields \in Seq(Nat \cup {Junk}) /\ id.separators \in Seq(Separators)
      /\ id.zeros \in BOOLEAN
  BY <1>1 DEF Id
<1> QED BY <1>1, <1>2, LenProperties

\* A short entity id is one of shard 0 and realm 0, and no other is changed.
LEMMA EntityIdsSettle ==
  ASSUME NEW id \in FieldIds
  PROVE  /\ IsSettledButZeros(TheEntityId(id), IsValidEntityId(id), NormalizeEntityId(id))
         /\ IsValidEntityId(id) =>
              /\ IsValidEntityId(NormalizeEntityId(id))
              /\ NormalizeEntityId(NormalizeEntityId(id)) = NormalizeEntityId(id)
<1> DEFINE two == <<".", ".">>
           F == Nat \cup {Junk}
           z == id.zeros
<1>1. /\ id = Id(id.fields, id.separators, z)
      /\ id.fields \in Seq(F) /\ id.separators \in Seq(Separators)
      /\ z \in BOOLEAN
      /\ Len(id.fields) = Len(id.separators) + 1
      /\ DOMAIN id.fields = 1 .. Len(id.fields)
      /\ Len(id.fields) \in Nat /\ Len(id.separators) \in Nat
  BY FieldIdsAreIds
<1>2. Contains(id.fields, Junk) <=> \E i \in DOMAIN id.fields : id.fields[i] = Junk
  BY <1>1 DEF Contains
<1>3. two # << >> /\ Len(two) = 2 /\ two \in Seq(Separators)
  BY DEF Separators
<1> HIDE DEF two, F
<1>4. TheEntityId(id) =
        IF Contains(id.fields, Junk) THEN None
        ELSE IF Len(id.fields) = 1 THEN Id(<<0, 0, id.fields[1]>>, two, FALSE)
        ELSE IF id.separators = two THEN Id(id.fields, two, FALSE) ELSE None
  BY DEF TheEntityId, two
<1>5. CASE id.separators = two
  <2>1. Len(id.fields) = 3
    <3>1. Len(id.separators) = 2
      BY <1>3, <1>5
    <3> QED BY <1>1, <3>1
  <2>2. NormalizeEntityId(id) = id
    BY <1>3, <1>5 DEF NormalizeEntityId
  <2>3. id.separators \in {<< >>, two}
    BY <1>5
  <2>4. IsValidEntityId(id) <=> ~ Contains(id.fields, Junk)
    BY <1>2, <2>3 DEF IsValidEntityId, two
  <2>5. id = WithZerosOf(Id(id.fields, two, FALSE), id)
    BY <1>1, <1>5, ZerosAreApart
  <2>6. Id(id.fields, two, FALSE) # None
    BY <1>1, <1>3, <1>5, IdsAreMade DEF F
  <2>7. IsSettledButZeros(TheEntityId(id), IsValidEntityId(id), id)
    <3>1. ~ Contains(id.fields, Junk) => TheEntityId(id) = Id(id.fields, two, FALSE)
      BY <1>4, <1>5, <2>1
    <3>2. Contains(id.fields, Junk) => TheEntityId(id) = None
      BY <1>4
    <3> QED BY <2>4, <2>5, <2>6, <3>1, <3>2 DEF IsSettledButZeros
  <2> QED BY <2>2, <2>7
<1>6. CASE id.separators = << >>
  <2>1. Len(id.fields) = 1
    BY <1>1, <1>6
  <2> DEFINE n == id.fields[1]
             long == <<0, 0>> \o id.fields
  <2>2. n \in F
    BY <1>1, <2>1
  <2>3. 0 \in F
    BY DEF F
  <2>4. long = <<0, 0, n>> /\ long \in Seq(F) /\ Len(long) = 3
    <3>1. <<0, 0>> \in Seq(F) /\ Len(<<0, 0>>) = 2 /\ <<0, 0>>[1] = 0 /\ <<0, 0>>[2] = 0
      BY <2>3
    <3>2. /\ long \in Seq(F) /\ Len(long) = Len(<<0, 0>>) + Len(id.fields)
          /\ \A i \in 1 .. Len(<<0, 0>>) + Len(id.fields) :
               long[i] = IF i <= Len(<<0, 0>>) THEN <<0, 0>>[i] ELSE id.fields[i - Len(<<0, 0>>)]
      BY <1>1, <3>1, ConcatProperties
    <3> HIDE DEF long
    <3>3. Len(long) = 3 /\ long[1] = 0 /\ long[2] = 0 /\ long[3] = n
      BY <2>1, <3>1, <3>2
    <3>4. /\ <<0, 0, n>> \in Seq(F) /\ Len(<<0, 0, n>>) = 3
          /\ <<0, 0, n>>[1] = 0 /\ <<0, 0, n>>[2] = 0 /\ <<0, 0, n>>[3] = n
      BY <2>2, <2>3
    <3> DEFINE three == <<0, 0, n>>
    <3> HIDE DEF three, n
    <3>5. three \in Seq(F) /\ Len(three) = 3 /\ three[1] = 0 /\ three[2] = 0 /\ three[3] = n
      BY <3>4 DEF three
    <3>6. \A i \in 1 .. 3 : i = 1 \/ i = 2 \/ i = 3
      OBVIOUS
    <3>7. \A i \in 1 .. Len(long) : long[i] = three[i]
      BY <3>3, <3>5, <3>6
    <3>8. long = three
      BY <3>2, <3>3, <3>5, <3>7, SeqEqual
    <3> QED BY <3>2, <3>3, <3>8 DEF three
  <2> DEFINE normal == Id(long, two, z)
  <2>5. NormalizeEntityId(id) = normal
    BY <1>6 DEF NormalizeEntityId, two
  <2>6. normal.fields = <<0, 0, n>> /\ normal.separators = two /\ normal.zeros = z
    <3> HIDE DEF long
    <3>1. normal.fields = long /\ normal.separators = two /\ normal.zeros = z
      BY DEF Id
    <3> QED BY <2>4, <3>1
  <2>7. normal = WithZerosOf(Id(long, two, FALSE), normal)
    <3> HIDE DEF long
    <3>1. normal.zeros = z
      BY DEF Id
    <3> HIDE DEF normal
    <3>2. WithZerosOf(Id(long, two, FALSE), normal) = Id(long, two, normal.zeros)
      BY ZerosAreApart, Zenon
    <3> QED BY <3>1, <3>2 DEF normal
  <2>8. Id(long, two, FALSE) # None
    <3> HIDE DEF long
    <3>1. long \in Seq(Nat \cup {Junk}) /\ two \in Seq(Separators) /\ Len(long) = Len(two) + 1
      BY <1>3, <2>4 DEF F
    <3> QED BY <3>1, IdsAreMade
  <2>9. IsValidEntityId(id) <=> ~ Contains(id.fields, Junk)
    BY <1>2, <1>6 DEF IsValidEntityId
  <2>10. TheEntityId(id) = IF Contains(id.fields, Junk) THEN None ELSE Id(long, two, FALSE)
    BY <1>4, <2>1, <2>4
  <2> HIDE DEF normal
  <2>11. IsSettledButZeros(TheEntityId(id), IsValidEntityId(id), normal)
    BY <2>6, <2>7, <2>8, <2>9, <2>10 DEF IsSettledButZeros
  <2>12. ASSUME IsValidEntityId(id)
        PROVE  IsValidEntityId(normal)
    <3>1. n # Junk
      BY <1>1, <2>1, <2>12 DEF IsValidEntityId
    <3>2. \A i \in DOMAIN <<0, 0, n>> : <<0, 0, n>>[i] # Junk
      BY <2>2, <3>1 DEF Junk
    <3> QED BY <2>6, <3>2 DEF IsValidEntityId, two
  <2>13. NormalizeEntityId(normal) = normal
    BY <1>3, <2>6 DEF NormalizeEntityId
  <2> QED BY <2>5, <2>11, <2>12, <2>13
<1>7. CASE id.separators \notin {<< >>, two}
  <2>1. Len(id.separators) # 0
    BY <1>1, <1>7, EmptySeq
  <2>2. Len(id.fields) # 1
    BY <1>1, <2>1
  <2> QED BY <1>4, <1>7, <2>2 DEF IsSettledButZeros, IsValidEntityId, two
<1> QED BY <1>5, <1>6, <1>7

\* A transaction id written with an @ is the one written with dashes.
LEMMA TransactionIdsSettle ==
  ASSUME NEW id \in FieldIds
  PROVE  /\ IsSettledButZeros(TheTransactionId(id), IsValidTransactionId(id),
                              NormalizeTransactionId(id))
         /\ IsValidTransactionId(id) =>
              /\ IsValidTransactionId(NormalizeTransactionId(id))
              /\ NormalizeTransactionId(NormalizeTransactionId(id)) = NormalizeTransactionId(id)
<1> DEFINE dashes == <<".", ".", "-", "-">>
           at == <<".", ".", "at", ".">>
           normal == NormalizeTransactionId(id)
           denoted == Id(id.fields, dashes, FALSE)
<1>1. /\ id = Id(id.fields, id.separators, id.zeros)
      /\ id.fields \in Seq(Nat \cup {Junk}) /\ id.zeros \in BOOLEAN
      /\ Len(id.fields) = Len(id.separators) + 1
      /\ DOMAIN id.fields = 1 .. Len(id.fields)
  BY FieldIdsAreIds
<1>2. Contains(id.fields, Junk) <=> \E i \in DOMAIN id.fields : id.fields[i] = Junk
  BY <1>1 DEF Contains
<1>3. Len(dashes) = 4 /\ Len(at) = 4 /\ dashes \in Seq(Separators)
  BY DEF Separators
<1> HIDE DEF at, dashes
<1>4. TheTransactionId(id) =
        IF ~ Contains(id.fields, Junk) /\ id.separators \in {at, dashes} THEN denoted ELSE None
  BY DEF TheTransactionId, at, dashes
<1>5. \A f, s, b : NormalizeTransactionId(Id(f, s, b)) = Id(f, dashes, b)
  BY DEF NormalizeTransactionId, Id, dashes
<1>6. normal = Id(id.fields, dashes, id.zeros)
  BY <1>1, <1>5, Zenon
<1>7. normal.fields = id.fields /\ normal.separators = dashes /\ normal.zeros = id.zeros
  BY <1>6 DEF Id
<1>8. NormalizeTransactionId(normal) = normal
  BY <1>6, <1>5, Zenon
<1>9. IsValidTransactionId(id) => IsValidTransactionId(normal)
  BY <1>7 DEF IsValidTransactionId, dashes
<1>10. IsValidTransactionId(id) <=> ~ Contains(id.fields, Junk) /\ id.separators \in {at, dashes}
  BY <1>2 DEF IsValidTransactionId, at, dashes
<1>11. normal = WithZerosOf(denoted, normal)
  <2>1. WithZerosOf(denoted, normal) = Id(id.fields, dashes, normal.zeros)
    BY ZerosAreApart, Zenon
  <2> QED BY <1>6, <1>7, <2>1
<1>12. id.separators \in {at, dashes} => denoted # None
  <2>1. ASSUME id.separators \in {at, dashes} PROVE Len(id.fields) = Len(dashes) + 1
    BY <1>1, <1>3, <2>1
  <2>2. ASSUME Len(id.fields) = Len(dashes) + 1 PROVE denoted # None
    BY <1>1, <1>3, <2>2, IdsAreMade
  <2> QED BY <2>1, <2>2
<1> HIDE DEF normal, denoted
<1>13. IsSettledButZeros(TheTransactionId(id), IsValidTransactionId(id), normal)
  BY <1>4, <1>7, <1>10, <1>11, <1>12 DEF IsSettledButZeros
<1> QED BY <1>8, <1>9, <1>13 DEF normal

\* An address is given its prefix, a hash its prefix and its lower case.
LEMMA HexIdsSettle ==
  ASSUME NEW id \in HexIds
  PROVE  /\ IsSettled(TheEvmAddress(id), IsValidEvmAddress(id), ValidateEvmAddress(id))
         /\ IsValidEvmAddress(id) =>
              /\ IsValidEvmAddress(ValidateEvmAddress(id))
              /\ ValidateEvmAddress(ValidateEvmAddress(id)) = ValidateEvmAddress(id)
         /\ id.prefix # "0X" =>
              IsSettled(TheBlockHash(id), IsValidBlockHash(id), NormalizeBlockHash(id))
         /\ IsValidBlockHash(id) =>
              /\ id.prefix # "0X"
              /\ IsValidBlockHash(NormalizeBlockHash(id))
              /\ NormalizeBlockHash(NormalizeBlockHash(id)) = NormalizeBlockHash(id)
         /\ IsSettled(ThePublicKey(id), IsValidPublicKey(id), id)
<1>1. id \in [prefix : {"", "0x", "0X"}, length : Nat, hex : BOOLEAN, upper : BOOLEAN]
  BY DEF HexIds
<1>2. \A other \in HexIds : other # None
  <2>1. "evm address" \in IdKinds /\ IdsOf("evm address") = HexIds
    BY DEF IdKinds, IdsOf
  <2> QED BY <2>1, ConversionsAssumption
<1>3. /\ IsSettled(TheEvmAddress(id), IsValidEvmAddress(id), ValidateEvmAddress(id))
      /\ IsValidEvmAddress(id) =>
           /\ IsValidEvmAddress(ValidateEvmAddress(id))
           /\ ValidateEvmAddress(ValidateEvmAddress(id)) = ValidateEvmAddress(id)
  <2>1. [id EXCEPT !.prefix = "0x"] \in HexIds
    BY <1>1 DEF HexIds
  <2>2. [id EXCEPT !.prefix = "0x"] # None
    BY <1>2, <2>1
  <2> QED BY <1>1, <2>2 DEF TheEvmAddress, IsSettled, IsValidEvmAddress, ValidateEvmAddress
<1>4. /\ id.prefix # "0X" =>
           IsSettled(TheBlockHash(id), IsValidBlockHash(id), NormalizeBlockHash(id))
      /\ IsValidBlockHash(id) =>
           /\ id.prefix # "0X"
           /\ IsValidBlockHash(NormalizeBlockHash(id))
           /\ NormalizeBlockHash(NormalizeBlockHash(id)) = NormalizeBlockHash(id)
  <2> DEFINE normal == [prefix |-> "0x", length |-> id.length, hex |-> id.hex, upper |-> FALSE]
  <2>1. NormalizeBlockHash(id) = normal
    BY DEF NormalizeBlockHash
  <2>2. id.hex => normal = [prefix |-> "0x", length |-> id.length, hex |-> TRUE, upper |-> FALSE]
    <3>1. id.hex => id.hex = TRUE
      BY <1>1
    <3> QED BY <3>1
  <2>3. id.prefix # "0X" <=> id.prefix \in {"", "0x"}
    BY <1>1
  <2>4. normal # None
    <3>1. normal \in HexIds
      BY <1>1 DEF HexIds
    <3> QED BY <1>2, <3>1
  <2>5. id.prefix # "0X" => IsSettled(TheBlockHash(id), IsValidBlockHash(id), normal)
    BY <2>2, <2>3, <2>4 DEF TheBlockHash, IsSettled, IsValidBlockHash
  <2>6. IsValidBlockHash(id) => IsValidBlockHash(normal) /\ id.prefix # "0X"
    BY DEF IsValidBlockHash
  <2>7. NormalizeBlockHash(normal) = normal
    BY DEF NormalizeBlockHash
  <2> QED BY <2>1, <2>5, <2>6, <2>7
<1>5. IsSettled(ThePublicKey(id), IsValidPublicKey(id), id)
  <2>1. id # None
    BY <1>2
  <2> QED BY <2>1 DEF ThePublicKey, IsSettled, IsValidPublicKey
<1> QED BY <1>3, <1>4, <1>5

\* What a validator that lets more through than it says makes of a number.
IsRounded(denoted, valid, normal) ==
  /\ valid /\ denoted # None => normal = OwnNumber(ToNumber(denoted.whole))
  /\ ~ valid => denoted = None

\* A number is one of its own, whatever it was written like, and as close to what
\* was written as numbers are.
LEMMA NumbersSettle ==
  ASSUME NEW id \in NumberIds, NEW least \in {0, 1}
  PROVE  /\ IsRounded(TheNumber(id, least), IsInteger(id) /\ ParseInt(id) >= least, WholeNumber(id))
         /\ WholeNumber(id).whole = ParseInt(id)
         /\ ParseInt(WholeNumber(id)) = ParseInt(id)
         /\ IsInteger(id) => IsInteger(WholeNumber(id))
         /\ WholeNumber(WholeNumber(id)) = WholeNumber(id)
<1>0. /\ id \in [digits : BOOLEAN, text : BOOLEAN, more : BOOLEAN, whole : Int]
      /\ id.text \/ ToNumber(id.whole) = id.whole
  BY DEF NumberIds
<1>1. TheNumber(id, least) =
        IF id.digits /\ ~ id.more /\ id.whole >= least THEN OwnNumber(id.whole) ELSE None
  BY DEF TheNumber
<1>2. ParseInt(id) = ToNumber(id.whole)
  BY <1>0 DEF ParseInt
<1>3. WholeNumber(id) = [digits |-> id.digits, text |-> FALSE, more |-> FALSE, whole |-> ParseInt(id)]
  BY DEF WholeNumber
<1>4. /\ WholeNumber(id).whole = ParseInt(id) /\ WholeNumber(id).digits = id.digits
      /\ ~ WholeNumber(id).more /\ WholeNumber(id).text = FALSE
  BY <1>3
<1>5. ParseInt(WholeNumber(id)) = ParseInt(id)
  BY <1>4 DEF ParseInt
<1>6. WholeNumber(WholeNumber(id)) = WholeNumber(id)
  <2>1. WholeNumber(WholeNumber(id)) =
          [digits |-> WholeNumber(id).digits, text |-> FALSE, more |-> FALSE,
           whole |-> ParseInt(WholeNumber(id))]
    BY DEF WholeNumber
  <2> QED BY <1>3, <1>4, <1>5, <2>1
<1>7. IsInteger(id) => IsInteger(WholeNumber(id))
  BY <1>4 DEF IsInteger
<1>8. id.digits => WholeNumber(id) = OwnNumber(ToNumber(id.whole))
  <2>1. id.digits => id.digits = TRUE
    BY <1>0
  <2> QED BY <1>2, <1>3, <2>1 DEF OwnNumber
<1>9. OwnNumber(id.whole).whole = id.whole
  BY DEF OwnNumber
<1>10. id.whole >= least => ParseInt(id) >= least
  BY <1>0, <1>2, NumbersHold, RoundingKeepsSigns
<1>11. id.digits /\ ~ id.more => IsInteger(id)
  BY DEF IsInteger
<1>12. IsRounded(TheNumber(id, least), IsInteger(id) /\ ParseInt(id) >= least, WholeNumber(id))
  BY <1>1, <1>8, <1>9, <1>10, <1>11 DEF IsRounded
<1> QED BY <1>4, <1>5, <1>6, <1>7, <1>12

\* What the program holds of a path and of an identifier.
IsCanonical(f, v, m) ==
  /\ f = "path" => CleanPath(v) = m /\ CleanPath(m) = m
  /\ f = "url" => v = m /\ CleanPath(m) = m
  /\ f \in {"entity id", "transaction id"} => v \in FieldIds
  /\ f \in {"evm address", "block hash", "public key"} => v \in HexIds
  /\ f \in {"block number", "serial number"} => v \in NumberIds
  /\ f \in IdKinds => m = Denoted(f, v)
  /\ f \in {"normal entity id", "normal transaction id"} =>
       m # None /\ v = WithZerosOf(m, v)
  /\ f = "normal entity id" => IsValidEntityId(v) /\ NormalizeEntityId(v) = v
  /\ f = "normal transaction id" => IsValidTransactionId(v) /\ NormalizeTransactionId(v) = v
  /\ f \in {"normal evm address", "normal block hash", "normal public key"} => m # None /\ v = m
  /\ f = "normal evm address" => IsValidEvmAddress(m) /\ ValidateEvmAddress(m) = m
  /\ f = "normal block hash" => IsValidBlockHash(m) /\ NormalizeBlockHash(m) = m
  /\ f = "normal public key" => IsValidPublicKey(m)
  /\ f \in {"normal block number", "normal serial number"} =>
       /\ m # None => v = OwnNumber(ToNumber(m.whole))
       /\ WholeNumber(v) = v /\ v.whole = ParseInt(v)
  /\ f = "normal block number" => IsValidBlockNumber(v)
  /\ f = "normal serial number" => IsValidSerialNumber(v)
  /\ f = "invalid" /\ m # None => v \in HexIds /\ v.prefix = "0X" /\ v.length \in {64, 96}

Canonical == IsCanonical(form, value, meant)

\* The forms that the program holds a path or an identifier in.
Spelled ==
  {"path", "url", "invalid", "normal entity id", "normal transaction id", "normal evm address",
   "normal block hash", "normal public key", "normal block number", "normal serial number"}
    \cup IdKinds

\* Sequences stay sequences when more is allowed in them.
LEMMA WiderSequences ==
  ASSUME NEW S, NEW T, S \subseteq T, NEW s \in Seq(S)
  PROVE  s \in Seq(T)
<1>1. Len(s) \in Nat /\ s \in [1 .. Len(s) -> S]
  BY LenProperties
<1>2. s \in [1 .. Len(s) -> T]
  BY <1>1
<1> QED BY <1>1, <1>2

\* Paths begin as spellings of a clean one, identifiers as what they denote.
LEMMA CanonicalInit ==
  ASSUME Init \/ ClientInit
  PROVE  Canonical
<1>1. CASE form \notin Spelled
  BY <1>1 DEF Canonical, IsCanonical, Spelled, IdKinds
<1>2. CASE form \in Spelled
  <2>1. Init
    BY <1>2, CallsAreNotConverted DEF Spelled, IdKinds
  <2>2. CASE form = "path"
    <3>1. PICK path \in Paths : value = Last(path) /\ meant = path[1]
      BY <2>1, <2>2, ConversionsAssumption DEF Init, IdKinds
    <3> DEFINE Symbol == STRING \cup {"/", "NUL"}
    <3>2. path \in Seq(Seq(Symbol)) /\ IsRespelled(path)
      <4>1. path \in Seq(Seq(STRING)) /\ IsRespelled(path)
        BY ConversionsAssumption
      <4>2. STRING \subseteq Symbol
        OBVIOUS
      <4> HIDE DEF Symbol
      <4>3. Seq(STRING) \subseteq Seq(Symbol)
        BY <4>2, WiderSequences
      <4> QED BY <4>1, <4>3, WiderSequences
    <3>3. "/" \in Symbol /\ "NUL" \in Symbol
      OBVIOUS
    <3> HIDE DEF Symbol
    <3>4. CleanPath(path[1]) = path[1] /\ CleanPath(Last(path)) = path[1]
      BY <3>2, <3>3, CleaningUndoesRespelling
    <3> QED BY <2>2, <3>1, <3>4 DEF Canonical, IsCanonical, IdKinds
  <2>3. CASE form \in IdKinds
    <3>1. form \in DOMAIN GivenIds /\ value \in GivenIds[form] /\ meant = Denoted(form, value)
      BY <2>1, <2>3, ConversionsAssumption DEF Init, IdKinds
    <3>2. value \in IdsOf(form)
      BY <3>1, ConversionsAssumption
    <3> QED BY <2>3, <3>1, <3>2 DEF Canonical, IsCanonical, IdKinds, IdsOf
  <2>4. form = "path" \/ form \in IdKinds
    BY <1>2, <2>1, ConversionsAssumption DEF Init, IdKinds, Spelled
  <2> QED BY <2>2, <2>3, <2>4
<1> QED BY <1>1, <1>2

\* Each validator gives the one spelling, and leaves it alone from then on.
LEMMA ValidatorsKeep ==
  ASSUME Canonical, Validate
  PROVE  Canonical'
<1>0. meant' = meant
  BY DEF Validate
<1>1. CASE Validator("entity id", "normal entity id", IsValidEntityId, NormalizeEntityId)
  <2>1. CASE form = "entity id"
    <3>1. /\ IsSettledButZeros(meant, IsValidEntityId(value), NormalizeEntityId(value))
          /\ IsValidEntityId(value) =>
               /\ IsValidEntityId(NormalizeEntityId(value))
               /\ NormalizeEntityId(NormalizeEntityId(value)) = NormalizeEntityId(value)
      <4>1. value \in FieldIds /\ meant = TheEntityId(value)
        BY <2>1 DEF Canonical, IsCanonical, IdKinds, Denoted
      <4> QED BY <4>1, EntityIdsSettle
    <3> QED BY <1>0, <1>1, <3>1
            DEF Canonical, IsCanonical, IdKinds, IsSettledButZeros, Validator, Becomes
  <2>2. CASE form = "normal entity id"
    BY <1>0, <1>1, <2>2 DEF Canonical, IsCanonical, IdKinds, Validator, Becomes
  <2> QED BY <1>1, <2>1, <2>2 DEF Validator
<1>2. CASE Validator("transaction id", "normal transaction id", IsValidTransactionId, NormalizeTransactionId)
  <2>1. CASE form = "transaction id"
    <3>1. /\ IsSettledButZeros(meant, IsValidTransactionId(value), NormalizeTransactionId(value))
          /\ IsValidTransactionId(value) =>
               /\ IsValidTransactionId(NormalizeTransactionId(value))
               /\ NormalizeTransactionId(NormalizeTransactionId(value)) = NormalizeTransactionId(value)
      <4>1. value \in FieldIds /\ meant = TheTransactionId(value)
        BY <2>1 DEF Canonical, IsCanonical, IdKinds, Denoted
      <4> QED BY <4>1, TransactionIdsSettle
    <3> QED BY <1>0, <1>2, <3>1
            DEF Canonical, IsCanonical, IdKinds, IsSettledButZeros, Validator, Becomes
  <2>2. CASE form = "normal transaction id"
    BY <1>0, <1>2, <2>2 DEF Canonical, IsCanonical, IdKinds, Validator, Becomes
  <2> QED BY <1>2, <2>1, <2>2 DEF Validator
<1>3. CASE Validator("evm address", "normal evm address", IsValidEvmAddress, ValidateEvmAddress)
  <2>1. CASE form = "evm address"
    <3>1. /\ IsSettled(meant, IsValidEvmAddress(value), ValidateEvmAddress(value))
          /\ IsValidEvmAddress(value) =>
               /\ IsValidEvmAddress(ValidateEvmAddress(value))
               /\ ValidateEvmAddress(ValidateEvmAddress(value)) = ValidateEvmAddress(value)
      <4>1. value \in HexIds /\ meant = TheEvmAddress(value)
        BY <2>1 DEF Canonical, IsCanonical, IdKinds, Denoted
      <4> QED BY <4>1, HexIdsSettle
    <3> QED BY <1>0, <1>3, <3>1
            DEF Canonical, IsCanonical, IdKinds, IsSettled, Validator, Becomes
  <2>2. CASE form = "normal evm address"
    BY <1>0, <1>3, <2>2 DEF Canonical, IsCanonical, IdKinds, Validator, Becomes
  <2> QED BY <1>3, <2>1, <2>2 DEF Validator
<1>4. CASE Validator("block hash", "normal block hash", IsValidBlockHash, NormalizeBlockHash)
  <2>1. CASE form = "block hash"
    <3>1. /\ value \in HexIds
          /\ meant # None => value.length \in {64, 96}
          /\ value.prefix # "0X" =>
               IsSettled(meant, IsValidBlockHash(value), NormalizeBlockHash(value))
          /\ IsValidBlockHash(value) =>
               /\ value.prefix # "0X"
               /\ IsValidBlockHash(NormalizeBlockHash(value))
               /\ NormalizeBlockHash(NormalizeBlockHash(value)) = NormalizeBlockHash(value)
      <4>1. value \in HexIds /\ meant = TheBlockHash(value)
        BY <2>1 DEF Canonical, IsCanonical, IdKinds, Denoted
      <4>2. meant # None => value.length \in {64, 96}
        BY <4>1 DEF TheBlockHash
      <4> QED BY <4>1, <4>2, HexIdsSettle
    <3> QED BY <1>0, <1>4, <3>1
            DEF Canonical, IsCanonical, IdKinds, IsSettled, Validator, Becomes
  <2>2. CASE form = "normal block hash"
    BY <1>0, <1>4, <2>2 DEF Canonical, IsCanonical, IdKinds, Validator, Becomes
  <2> QED BY <1>4, <2>1, <2>2 DEF Validator
<1>5. CASE Validator("public key", "normal public key", IsValidPublicKey, LAMBDA key : key)
  <2>1. CASE form = "public key"
    <3>1. IsSettled(meant, IsValidPublicKey(value), value)
      <4>1. value \in HexIds /\ meant = ThePublicKey(value)
        BY <2>1 DEF Canonical, IsCanonical, IdKinds, Denoted
      <4> QED BY <4>1, HexIdsSettle
    <3> QED BY <1>0, <1>5, <3>1
            DEF Canonical, IsCanonical, IdKinds, IsSettled, Validator, Becomes
  <2>2. CASE form = "normal public key"
    BY <1>0, <1>5, <2>2 DEF Canonical, IsCanonical, IdKinds, Validator, Becomes
  <2> QED BY <1>5, <2>1, <2>2 DEF Validator
<1>6. CASE Validator("block number", "normal block number", IsValidBlockNumber, WholeNumber)
  <2>1. CASE form = "block number"
    <3> DEFINE w == WholeNumber(value)
    <3>1. /\ IsRounded(meant, IsValidBlockNumber(value), w)
          /\ IsValidBlockNumber(value) => IsValidBlockNumber(w)
          /\ WholeNumber(w) = w /\ w.whole = ParseInt(w)
      <4>1. value \in NumberIds /\ meant = TheNumber(value, 0)
        BY <2>1 DEF Canonical, IsCanonical, IdKinds, Denoted
      <4> QED BY <4>1, NumbersSettle DEF IsValidBlockNumber
    <3> HIDE DEF w
    <3>2. IF IsValidBlockNumber(value) THEN Becomes("normal block number", w)
          ELSE Becomes("invalid", value)
      BY <1>6 DEF Validator, w
    <3> QED BY <1>0, <3>1, <3>2 DEF Canonical, IsCanonical, IdKinds, IsRounded, Becomes
  <2>2. CASE form = "normal block number"
    BY <1>0, <1>6, <2>2 DEF Canonical, IsCanonical, IdKinds, Validator, Becomes
  <2> QED BY <1>6, <2>1, <2>2 DEF Validator
<1>7. CASE Validator("serial number", "normal serial number", IsValidSerialNumber, WholeNumber)
  <2>1. CASE form = "serial number"
    <3> DEFINE w == WholeNumber(value)
    <3>1. /\ IsRounded(meant, IsValidSerialNumber(value), w)
          /\ IsValidSerialNumber(value) => IsValidSerialNumber(w)
          /\ WholeNumber(w) = w /\ w.whole = ParseInt(w)
      <4>1. value \in NumberIds /\ meant = TheNumber(value, 1)
        BY <2>1 DEF Canonical, IsCanonical, IdKinds, Denoted
      <4> QED BY <4>1, NumbersSettle DEF IsValidSerialNumber
    <3> HIDE DEF w
    <3>2. IF IsValidSerialNumber(value) THEN Becomes("normal serial number", w)
          ELSE Becomes("invalid", value)
      BY <1>7 DEF Validator, w
    <3> QED BY <1>0, <3>1, <3>2 DEF Canonical, IsCanonical, IdKinds, IsRounded, Becomes
  <2>2. CASE form = "normal serial number"
    BY <1>0, <1>7, <2>2 DEF Canonical, IsCanonical, IdKinds, Validator, Becomes
  <2> QED BY <1>7, <2>1, <2>2 DEF Validator
<1> QED BY <1>1, <1>2, <1>3, <1>4, <1>5, <1>6, <1>7 DEF Validate

\* Every step keeps what is clean and what is normal.
LEMMA CanonicalStep ==
  ASSUME Canonical, [Next \/ ClientNext]_vars
  PROVE  Canonical'
<1>1. CASE BuildUrl
  <2>1. /\ form \in {"path", "url"} /\ form' = "url" /\ value' = CleanPath(value)
        /\ meant' = meant
    BY <1>1 DEF BuildUrl, Becomes
  <2>2. CleanPath(value) = meant /\ CleanPath(meant) = meant
    BY <2>1 DEF Canonical, IsCanonical
  <2> QED BY <2>1, <2>2 DEF Canonical, IsCanonical, IdKinds
<1>2. CASE Validate
  BY <1>2, ValidatorsKeep
<1>3. ASSUME form' \notin Spelled
      PROVE  Canonical'
  BY <1>3 DEF Canonical, IsCanonical, Spelled, IdKinds
<1>4. ASSUME \/ FromBytes \/ FromHex \/ FromBase64 \/ DecodeText
             \/ Parse \/ TakeStr \/ TakeNum \/ ToHbar \/ ToTinybar
             \/ ParseTimestamp \/ PrintTimestamp \/ ConvertToDate \/ ConvertFromDate
             \/ MakeHieroTimestamp
      PROVE  form' \notin Spelled
  BY <1>4
     DEF Spelled, IdKinds, FromBytes, FromHex, FromBase64, DecodeText, Parse, TakeStr, TakeNum,
         ToHbar, ToTinybar, ParseTimestamp, PrintTimestamp, ConvertToDate, ConvertFromDate,
         MakeHieroTimestamp, Becomes, Reject
<1>5. ClientNext => form' \notin Spelled
  BY CallsAreNotConverted DEF Spelled, IdKinds
<1>6. CASE UNCHANGED vars
  <2>1. form' = form /\ value' = value /\ meant' = meant
    BY <1>6 DEF vars
  <2> QED BY <2>1 DEF Canonical
<1> QED BY <1>1, <1>2, <1>3, <1>4, <1>5, <1>6 DEF Next

\* Whatever is held of a path or an identifier stands for the one spelling.
THEOREM CanonicalHolds == ClientSpec => []Canonical
<1>1. Init \/ ClientInit => Canonical
  BY CanonicalInit
<1>2. Canonical /\ [Next \/ ClientNext]_vars => Canonical'
  BY CanonicalStep
<1> QED BY <1>1, <1>2, PTL DEF ClientSpec

\* Every spelling of a path gives the same url, and every spelling of an id, a hex
\* identifier or a number that the validators take the one normal spelling; but
\* zeros in front of a field stay, and a number is as close as numbers are.  No id
\* and no hex identifier that is none comes out, no block number below 0 and no
\* serial number below 1; and only the prefix "0X" of a block hash keeps what is an
\* identifier from being taken.
THEOREM SpellingsSurvive == ClientSpec => []SpellingsAreCanonical
<1>1. Canonical => SpellingsAreCanonical
  <2>1. SUFFICES ASSUME Canonical PROVE SpellingsAreCanonical
    OBVIOUS
  <2>2. form = "normal block number" => value.whole >= 0
    BY <2>1 DEF Canonical, IsCanonical, IsValidBlockNumber
  <2>3. form = "normal serial number" => value.whole >= 1
    BY <2>1 DEF Canonical, IsCanonical, IsValidSerialNumber
  <2> QED BY <2>1, <2>2, <2>3 DEF Canonical, IsCanonical, SpellingsAreCanonical
<1> QED BY <1>1, CanonicalHolds, PTL

----------------------------------------------------------------------------
(* Bytes *)

\* The numbers that pairs of bits make.
PairValues == 0 .. Pair - 1
Of2(a, b) == a * Pair + b
Of3(a, b, c) == (a * Pair + b) * Pair + c
Of4(a, b, c, d) == ((a * Pair + b) * Pair + c) * Pair + d

\* What there are of digits, symbols and bytes, by how many pairs each is.
LEMMA PowersOfPair ==
  /\ Pair \in Nat \ {0}
  /\ Power(Pair, 0) = 1
  /\ Power(Pair, 1) = Pair
  /\ HexDigits = Pair * Pair
  /\ Symbols = (Pair * Pair) * Pair
  /\ ByteValues = ((Pair * Pair) * Pair) * Pair
<1>1. Pair \in Nat \ {0} /\ Pair \in Int
  BY EncodingsAssumption
<1>2. /\ Power(Pair, 0) = 1
      /\ Power(Pair, 1) = Pair * Power(Pair, 0)
      /\ Power(Pair, 2) = Pair * Power(Pair, 1)
      /\ Power(Pair, 3) = Pair * Power(Pair, 2)
      /\ Power(Pair, 4) = Pair * Power(Pair, 3)
  <2>1. 1 = 0 + 1 /\ 2 = 1 + 1 /\ 3 = 2 + 1 /\ 4 = 3 + 1
    OBVIOUS
  <2> QED BY <1>1, <2>1, PowerStep
<1>3. Power(Pair, 1) = Pair
  BY <1>1, <1>2
<1>4. Power(Pair, 2) = Pair * Pair
  BY <1>2, <1>3
<1>5. Power(Pair, 3) = (Pair * Pair) * Pair
  BY <1>1, <1>2, <1>4
<1>6. Power(Pair, 4) = ((Pair * Pair) * Pair) * Pair
  BY <1>1, <1>2, <1>5
<1> QED BY <1>1, <1>2, <1>3, <1>4, <1>5, <1>6 DEF HexDigits, Symbols, ByteValues

\* Numbers are told apart where two pairs, three or four of them meet.
LEMMA PairsAreApart ==
  ASSUME NEW h \in Int, NEW a \in PairValues, NEW b \in PairValues, NEW c \in PairValues
  PROVE  /\ (h * Pair + a) \div Pair = h
         /\ (h * Pair + a) % Pair = a
         /\ ((h * Pair + a) * Pair + b) \div HexDigits = h
         /\ ((h * Pair + a) * Pair + b) % HexDigits = Of2(a, b)
         /\ (((h * Pair + a) * Pair + b) * Pair + c) \div Symbols = h
         /\ (((h * Pair + a) * Pair + b) * Pair + c) % Symbols = Of3(a, b, c)
<1> DEFINE P == Pair
<1>0. P \in Nat \ {0} /\ HexDigits = P * P /\ Symbols = (P * P) * P
  BY PowersOfPair
<1>1. a \in 0 .. P - 1 /\ b \in 0 .. P - 1 /\ c \in 0 .. P - 1
  BY DEF PairValues
<1> HIDE DEF P
<1>2. (h * P + a) \div P = h /\ (h * P + a) % P = a
  BY <1>0, <1>1, Quotient
<1>3. a * P + b \in 0 .. (P * P) - 1 /\ P * P \in Nat \ {0}
  <2>1. a + 1 <= P
    BY <1>0, <1>1
  <2>2. (a + 1) * P <= P * P /\ (a + 1) * P = a * P + P /\ a * P >= 0
    BY <1>0, <1>1, <2>1
  <2> QED BY <1>0, <1>1, <2>2
<1>4. /\ ((h * P + a) * P + b) \div (P * P) = h
      /\ ((h * P + a) * P + b) % (P * P) = a * P + b
  <2> DEFINE low == a * P + b
             unit == P * P
  <2>1. (h * P + a) * P + b = (h * unit) + low
    BY <1>0, <1>1
  <2>2. low \in 0 .. unit - 1 /\ unit \in Nat \ {0}
    BY <1>3
  <2> HIDE DEF low, unit
  <2>3. ((h * unit) + low) \div unit = h /\ ((h * unit) + low) % unit = low
    BY <2>2, Quotient
  <2> QED BY <2>1, <2>3 DEF low, unit
<1>5. (a * P + b) * P + c \in 0 .. ((P * P) * P) - 1 /\ (P * P) * P \in Nat \ {0}
  <2> DEFINE high == a * P + b
             unit == P * P
  <2>1. high \in 0 .. unit - 1 /\ unit \in Nat \ {0}
    BY <1>3
  <2> HIDE DEF high, unit
  <2>2. high + 1 <= unit
    BY <2>1
  <2>3. (high + 1) * P <= unit * P /\ (high + 1) * P = high * P + P /\ high * P >= 0
    BY <1>0, <2>1, <2>2
  <2>4. high * P + c \in 0 .. (unit * P) - 1 /\ unit * P \in Nat \ {0}
    BY <1>0, <1>1, <2>1, <2>3
  <2> QED BY <2>4 DEF high, unit
<1>6. /\ (((h * P + a) * P + b) * P + c) \div ((P * P) * P) = h
      /\ (((h * P + a) * P + b) * P + c) % ((P * P) * P) = (a * P + b) * P + c
  <2> DEFINE low == (a * P + b) * P + c
             unit == (P * P) * P
  <2>1. ((h * P + a) * P + b) * P + c = (h * unit) + low
    BY <1>0, <1>1
  <2>2. low \in 0 .. unit - 1 /\ unit \in Nat \ {0}
    BY <1>5
  <2> HIDE DEF low, unit
  <2>3. ((h * unit) + low) \div unit = h /\ ((h * unit) + low) % unit = low
    BY <2>2, Quotient
  <2> QED BY <2>1, <2>3 DEF low, unit
<1> QED BY <1>0, <1>2, <1>4, <1>6 DEF P, Of2, Of3

\* A quotient of what is below a product is below the other factor.
LEMMA QuotientIsBelow ==
  ASSUME NEW d \in Nat \ {0}, NEW m \in Nat, NEW n \in 0 .. (m * d) - 1
  PROVE  /\ n \div d \in 0 .. m - 1 /\ n % d \in 0 .. d - 1
         /\ n = ((n \div d) * d) + (n % d)
<1> DEFINE q == n \div d
           r == n % d
<1>1. n \in Int /\ d \in Nat \ {0}
  <2>1. m * d \in Int
    OBVIOUS
  <2> QED BY <2>1
<1>2. q \in Int /\ r \in 0 .. d - 1 /\ n = (q * d) + r
  BY <1>1, Division, Zenon
<1>3. n >= 0 /\ n < m * d /\ m * d \in Int
  <2>1. m * d \in Int
    OBVIOUS
  <2> QED BY <2>1
<1> HIDE DEF q, r
<1>4. q >= 0
  <2>1. q < 0 => (q + 1) * d <= 0 /\ (q + 1) * d = q * d + d
    BY <1>2
  <2> QED BY <1>1, <1>2, <1>3, <2>1
<1>5. q < m
  <2>1. q >= m => q * d >= m * d
    BY <1>2
  <2> QED BY <1>2, <1>3, <2>1
<1> QED BY <1>2, <1>4, <1>5 DEF q, r

\* A byte is four pairs, a symbol three.
LEMMA NumbersArePairs ==
  /\ \A n \in 0 .. Symbols - 1 : \E a, b, c \in PairValues : n = Of3(a, b, c)
  /\ \A n \in 0 .. ByteValues - 1 : \E a, b, c, d \in PairValues : n = Of4(a, b, c, d)
<1> DEFINE P == Pair
<1>0. /\ P \in Nat \ {0} /\ Symbols = (P * P) * P /\ ByteValues = ((P * P) * P) * P
      /\ P * P \in Nat /\ (P * P) * P \in Nat
  <2>1. P \in Nat \ {0} /\ Symbols = (P * P) * P /\ ByteValues = ((P * P) * P) * P
    BY PowersOfPair
  <2> HIDE DEF P
  <2>2. P * P \in Nat
    BY <2>1
  <2>3. (P * P) * P \in Nat
    BY <2>1, <2>2
  <2> QED BY <2>1, <2>2, <2>3
<1> HIDE DEF P
<1>1. ASSUME NEW n \in 0 .. (P * P) - 1
      PROVE  \E a, b \in 0 .. P - 1 : n = a * P + b
  <2>1. n \div P \in 0 .. P - 1 /\ n % P \in 0 .. P - 1 /\ n = ((n \div P) * P) + (n % P)
    BY <1>0, QuotientIsBelow
  <2> QED BY <2>1
<1>2. ASSUME NEW n \in 0 .. ((P * P) * P) - 1
      PROVE  \E a, b, c \in 0 .. P - 1 : n = (a * P + b) * P + c
  <2>1. n \div P \in 0 .. (P * P) - 1 /\ n % P \in 0 .. P - 1 /\ n = ((n \div P) * P) + (n % P)
    BY <1>0, QuotientIsBelow
  <2>2. \E a, b \in 0 .. P - 1 : n \div P = a * P + b
    BY <1>1, <2>1
  <2> QED BY <2>1, <2>2
<1>3. ASSUME NEW n \in 0 .. (((P * P) * P) * P) - 1
      PROVE  \E a, b, c, d \in 0 .. P - 1 : n = ((a * P + b) * P + c) * P + d
  <2>1. /\ n \div P \in 0 .. ((P * P) * P) - 1 /\ n % P \in 0 .. P - 1
        /\ n = ((n \div P) * P) + (n % P)
    BY <1>0, QuotientIsBelow
  <2>2. \E a, b, c \in 0 .. P - 1 : n \div P = (a * P + b) * P + c
    BY <1>2, <2>1
  <2> QED BY <2>1, <2>2
<1> QED BY <1>0, <1>2, <1>3 DEF P, PairValues, Of3, Of4

\* The pairs of a symbol are where PairAt looks for them, behind the end too.
LEMMA PairsOfSymbols ==
  ASSUME NEW symbols \in Seq(0 .. Symbols - 1), NEW i \in Nat
  PROVE  \E a, b, c \in PairValues :
           /\ At(symbols, i + 1) = Of3(a, b, c)
           /\ PairAt(symbols, 3, 3 * i + 1) = a
           /\ PairAt(symbols, 3, 3 * i + 2) = b
           /\ PairAt(symbols, 3, 3 * i + 3) = c
<1> DEFINE n == At(symbols, i + 1)
<1>1. Pair \in Nat \ {0} /\ Symbols \in Nat \ {0}
  BY PowersOfPair, EncodingsAssumption, PowerIsPositive DEF Symbols
<1>2. n \in 0 .. Symbols - 1
  <2>1. i + 1 <= Len(symbols) => i + 1 \in 1 .. Len(symbols)
    BY LenProperties
  <2>2. i + 1 <= Len(symbols) => symbols[i + 1] \in 0 .. Symbols - 1
    BY <2>1, ElementOfSeq
  <2> QED BY <1>1, <2>2 DEF At
<1>3. PICK a, b, c \in PairValues : n = Of3(a, b, c)
  BY <1>2, NumbersArePairs
<1>4. 0 \in PairValues
  BY <1>1 DEF PairValues
<1>5. /\ (3 * i + 1 - 1) \div 3 = i /\ (3 * i + 1 - 1) % 3 = 0
      /\ (3 * i + 2 - 1) \div 3 = i /\ (3 * i + 2 - 1) % 3 = 1
      /\ (3 * i + 3 - 1) \div 3 = i /\ (3 * i + 3 - 1) % 3 = 2
      /\ 3 - 1 - 0 = 2 /\ 3 - 1 - 1 = 1 /\ 3 - 1 - 2 = 0
  OBVIOUS
<1>6. /\ PairAt(symbols, 3, 3 * i + 1) = (n \div Power(Pair, 2)) % Pair
      /\ PairAt(symbols, 3, 3 * i + 2) = (n \div Power(Pair, 1)) % Pair
      /\ PairAt(symbols, 3, 3 * i + 3) = (n \div Power(Pair, 0)) % Pair
  BY <1>5 DEF PairAt
<1> HIDE DEF n
<1>7. n \in Int /\ a \in Int /\ b \in Int /\ c \in Int
  BY <1>2, <1>3 DEF PairValues
<1>8. n \div Power(Pair, 2) = a /\ a % Pair = a
  <2>1. n = (a * Pair + b) * Pair + c
    BY <1>3 DEF Of3
  <2>2. a = 0 * Pair + a
    BY <1>1, <1>7
  <2>3. ((a * Pair + b) * Pair + c) \div HexDigits = a
    BY <1>3, <1>7, PairsAreApart
  <2>4. (0 * Pair + a) % Pair = a
    BY <1>3, PairsAreApart
  <2> QED BY <2>1, <2>2, <2>3, <2>4 DEF HexDigits
<1>9. (n \div Power(Pair, 1)) % Pair = b
  <2>1. a * Pair + b \in Int /\ n = (a * Pair + b) * Pair + c
    BY <1>1, <1>3, <1>7 DEF Of3
  <2>2. n \div Pair = a * Pair + b
    BY <1>3, <2>1, PairsAreApart
  <2>3. (a * Pair + b) % Pair = b
    BY <1>3, <1>7, PairsAreApart
  <2> QED BY <2>2, <2>3, PowersOfPair
<1>10. (n \div Power(Pair, 0)) % Pair = c
  <2>1. a * Pair + b \in Int /\ n = (a * Pair + b) * Pair + c
    BY <1>1, <1>3, <1>7 DEF Of3
  <2>2. n % Pair = c
    BY <1>3, <2>1, PairsAreApart
  <2>3. n \div 1 = n
    BY <1>7
  <2> QED BY <2>2, <2>3, PowersOfPair
<1> QED BY <1>3, <1>6, <1>8, <1>9, <1>10 DEF n

\* Likewise of a byte.
LEMMA PairsOfBytes ==
  ASSUME NEW bytes \in Seq(0 .. ByteValues - 1), NEW i \in Nat
  PROVE  \E a, b, c, d \in PairValues :
           /\ At(bytes, i + 1) = Of4(a, b, c, d)
           /\ PairAt(bytes, 4, 4 * i + 1) = a
           /\ PairAt(bytes, 4, 4 * i + 2) = b
           /\ PairAt(bytes, 4, 4 * i + 3) = c
           /\ PairAt(bytes, 4, 4 * i + 4) = d
<1> DEFINE n == At(bytes, i + 1)
<1>1. Pair \in Nat \ {0} /\ ByteValues \in Nat \ {0}
  BY PowersOfPair, EncodingsAssumption, PowerIsPositive DEF ByteValues
<1>2. n \in 0 .. ByteValues - 1
  <2>1. i + 1 <= Len(bytes) => i + 1 \in 1 .. Len(bytes)
    BY LenProperties
  <2>2. i + 1 <= Len(bytes) => bytes[i + 1] \in 0 .. ByteValues - 1
    BY <2>1, ElementOfSeq
  <2> QED BY <1>1, <2>2 DEF At
<1>3. PICK a, b, c, d \in PairValues : n = Of4(a, b, c, d)
  BY <1>2, NumbersArePairs
<1>4. 0 \in PairValues
  BY <1>1 DEF PairValues
<1>5. /\ (4 * i + 1 - 1) \div 4 = i /\ (4 * i + 1 - 1) % 4 = 0
      /\ (4 * i + 2 - 1) \div 4 = i /\ (4 * i + 2 - 1) % 4 = 1
      /\ (4 * i + 3 - 1) \div 4 = i /\ (4 * i + 3 - 1) % 4 = 2
      /\ (4 * i + 4 - 1) \div 4 = i /\ (4 * i + 4 - 1) % 4 = 3
      /\ 4 - 1 - 0 = 3 /\ 4 - 1 - 1 = 2 /\ 4 - 1 - 2 = 1 /\ 4 - 1 - 3 = 0
  OBVIOUS
<1>6. /\ PairAt(bytes, 4, 4 * i + 1) = (n \div Power(Pair, 3)) % Pair
      /\ PairAt(bytes, 4, 4 * i + 2) = (n \div Power(Pair, 2)) % Pair
      /\ PairAt(bytes, 4, 4 * i + 3) = (n \div Power(Pair, 1)) % Pair
      /\ PairAt(bytes, 4, 4 * i + 4) = (n \div Power(Pair, 0)) % Pair
  BY <1>5 DEF PairAt
<1> HIDE DEF n
<1> DEFINE two == a * Pair + b
           three == two * Pair + c
<1>7. /\ n \in Int /\ a \in Int /\ b \in Int /\ c \in Int /\ d \in Int
      /\ two \in Int /\ three \in Int /\ n = three * Pair + d
  BY <1>1, <1>2, <1>3 DEF PairValues, Of4
<1>8. n \div Power(Pair, 3) = a /\ a % Pair = a
  <2>1. ((((a * Pair) + b) * Pair + c) * Pair + d) \div Symbols = a
    BY <1>3, <1>7, PairsAreApart
  <2>2. a = 0 * Pair + a
    BY <1>1, <1>7
  <2>3. (0 * Pair + a) % Pair = a
    BY <1>3, PairsAreApart
  <2> QED BY <1>7, <2>1, <2>2, <2>3 DEF Symbols
<1>9. (n \div Power(Pair, 2)) % Pair = b
  <2>1. two % Pair = b
    BY <1>3, <1>7, PairsAreApart
  <2> HIDE DEF two
  <2>2. ((two * Pair + c) * Pair + d) \div HexDigits = two
    BY <1>3, <1>7, PairsAreApart
  <2> QED BY <1>7, <2>1, <2>2 DEF HexDigits
<1>10. (n \div Power(Pair, 1)) % Pair = c
  <2> HIDE DEF two
  <2>1. three % Pair = c
    BY <1>3, <1>7, PairsAreApart
  <2> HIDE DEF three
  <2>2. (three * Pair + d) \div Pair = three
    BY <1>3, <1>7, PairsAreApart
  <2> QED BY <1>7, <2>1, <2>2, PowersOfPair
<1>11. (n \div Power(Pair, 0)) % Pair = d
  <2> HIDE DEF three
  <2>1. (three * Pair + d) % Pair = d
    BY <1>3, <1>7, PairsAreApart
  <2>2. n \div 1 = n
    BY <1>7
  <2> QED BY <1>7, <2>1, <2>2, PowersOfPair
<1> QED BY <1>3, <1>6, <1>8, <1>9, <1>10, <1>11 DEF n

\* The pairs in front of, and behind, each place where the pairs of a symbol meet.
LEMMA PairsOfThree ==
  ASSUME NEW a \in PairValues, NEW b \in PairValues, NEW c \in PairValues
  PROVE  /\ Of3(a, b, c) \div Pair = Of2(a, b) /\ Of3(a, b, c) % Pair = c
         /\ Of3(a, b, c) \div HexDigits = a /\ Of3(a, b, c) % HexDigits = Of2(b, c)
<1>1. a \in Int /\ a * Pair + b \in Int
  BY EncodingsAssumption DEF PairValues
<1>2. ((a * Pair + b) * Pair + c) \div HexDigits = a
      /\ ((a * Pair + b) * Pair + c) % HexDigits = Of2(b, c)
  BY <1>1, PairsAreApart
<1> DEFINE h == a * Pair + b
<1>3. (h * Pair + c) \div Pair = h /\ (h * Pair + c) % Pair = c
  <2>1. h \in Int
    BY <1>1
  <2> HIDE DEF h
  <2> QED BY <2>1, PairsAreApart
<1> QED BY <1>2, <1>3 DEF Of2, Of3

\* Likewise where those of a byte meet.
LEMMA PairsOfFour ==
  ASSUME NEW a \in PairValues, NEW b \in PairValues, NEW c \in PairValues, NEW d \in PairValues
  PROVE  /\ Of4(a, b, c, d) \div Pair = Of3(a, b, c) /\ Of4(a, b, c, d) % Pair = d
         /\ Of4(a, b, c, d) \div HexDigits = Of2(a, b) /\ Of4(a, b, c, d) % HexDigits = Of2(c, d)
         /\ Of4(a, b, c, d) \div Symbols = a /\ Of4(a, b, c, d) % Symbols = Of3(b, c, d)
<1> DEFINE h == a * Pair + b
           i == h * Pair + c
<1>1. a \in Int /\ h \in Int
  BY EncodingsAssumption DEF PairValues
<1>2. i \in Int
  <2> HIDE DEF h
  <2> QED BY <1>1, EncodingsAssumption DEF PairValues
<1>3. ((h * Pair + c) * Pair + d) \div Symbols = a
      /\ ((h * Pair + c) * Pair + d) % Symbols = Of3(b, c, d)
  BY <1>1, PairsAreApart
<1>4. ((h * Pair + c) * Pair + d) \div HexDigits = h
      /\ ((h * Pair + c) * Pair + d) % HexDigits = Of2(c, d)
  <2> HIDE DEF h
  <2> QED BY <1>1, PairsAreApart
<1>5. (i * Pair + d) \div Pair = i /\ (i * Pair + d) % Pair = d
  <2> HIDE DEF i
  <2> QED BY <1>2, PairsAreApart
<1> QED BY <1>3, <1>4, <1>5 DEF Of2, Of3, Of4

\* Three pairs make a symbol.
LEMMA ThreePairsMakeASymbol ==
  \A a, b, c \in PairValues : Of3(a, b, c) \in 0 .. Symbols - 1
<1> DEFINE P == Pair
<1>0. P \in Nat \ {0} /\ Symbols = (P * P) * P
  BY PowersOfPair
<1>1. SUFFICES ASSUME NEW a \in 0 .. P - 1, NEW b \in 0 .. P - 1, NEW c \in 0 .. P - 1
               PROVE  (a * P + b) * P + c \in 0 .. ((P * P) * P) - 1
  BY <1>0 DEF PairValues, Of3
<1> HIDE DEF P
<1> DEFINE h == a * P + b
           s == P * P
<1>2. h \in Nat /\ s \in Nat /\ h + 1 <= s
  <2>1. a + 1 <= P /\ a \in Nat
    BY <1>0
  <2>2. (a + 1) * P <= P * P /\ (a + 1) * P = a * P + P /\ a * P >= 0
    BY <1>0, <2>1
  <2> QED BY <1>0, <2>2
<1> HIDE DEF h, s
<1>3. (h + 1) * P <= s * P /\ (h + 1) * P = h * P + P /\ h * P >= 0
  BY <1>0, <1>2
<1>4. h * P + c \in 0 .. (s * P) - 1
  BY <1>0, <1>2, <1>3
<1> QED BY <1>4 DEF h, s

\* A symbol tells which pairs it was made of.
LEMMA PairsTellThemselves ==
  ASSUME NEW a \in PairValues, NEW b \in PairValues, NEW c \in PairValues,
         NEW x \in PairValues, NEW y \in PairValues, NEW z \in PairValues,
         Of3(a, b, c) = Of3(x, y, z)
  PROVE  a = x /\ b = y /\ c = z
<1>1. a = x /\ Of2(b, c) = Of2(y, z) /\ c = z
  BY PairsOfThree
<1>2. Of2(b, c) \div Pair = b /\ Of2(y, z) \div Pair = y
  <2>1. \A h, i \in PairValues : Of2(h, i) \div Pair = h
    BY PairsAreApart DEF Of2, PairValues
  <2> QED BY <2>1
<1> QED BY <1>1, <1>2

\* Bytes become the same symbols with btoa() and without it.
LEMMA EncodersAgree ==
  ASSUME NEW bytes \in Seq(0 .. ByteValues - 1)
  PROVE  FallbackEncode(bytes) = Btoa(bytes)
<1> DEFINE L == Len(bytes)
           K == 1 .. 4 * ((L + 2) \div 3)
           p(i) == PairAt(bytes, 4, i)
<1>0. L \in Nat /\ Pair \in Nat \ {0}
  BY LenProperties, PowersOfPair
<1>1. SUFFICES ASSUME NEW k \in K
               PROVE  FallbackEncode(bytes)[k] = Btoa(bytes)[k]
  BY DEF FallbackEncode, Btoa
<1> DEFINE q == (k - 1) \div 4
<1>2. q \in Nat /\ k \in Int
      /\ \/ k % 4 = 1 /\ k = 4 * q + 1
         \/ k % 4 = 2 /\ k = 4 * q + 2
         \/ k % 4 = 3 /\ k = 4 * q + 3
         \/ k % 4 = 0 /\ k = 4 * q + 4
  <2>1. k \in Int /\ k >= 1
    OBVIOUS
  <2> HIDE DEF K
  <2> QED BY <2>1
<1> DEFINE a == At(bytes, 3 * q + 1)
           b == At(bytes, 3 * q + 2)
           c == At(bytes, 3 * q + 3)
<1>3. FallbackEncode(bytes)[k] =
        CASE k % 4 = 1 -> a \div Pair
          [] k % 4 = 2 -> (a % Pair) * HexDigits + b \div HexDigits
          [] k % 4 = 3 -> IF 3 * q + 1 < L THEN (b % HexDigits) * Pair + c \div Symbols ELSE Pad
          [] k % 4 = 0 -> IF 3 * q + 2 < L THEN c % Symbols ELSE Pad
  BY DEF FallbackEncode
<1>4. Btoa(bytes)[k] =
        IF 3 * k <= 4 * L + 2
        THEN Of3(p(3 * (k - 1) + 1), p(3 * (k - 1) + 2), p(3 * (k - 1) + 3)) ELSE Pad
  BY DEF Btoa, Of3
<1>5. PICK a1, a2, a3, a4 \in PairValues :
        /\ a = Of4(a1, a2, a3, a4)
        /\ p(12 * q + 1) = a1 /\ p(12 * q + 2) = a2 /\ p(12 * q + 3) = a3 /\ p(12 * q + 4) = a4
  <2>1. 3 * q \in Nat /\ 4 * (3 * q) = 12 * q
    BY <1>2
  <2> HIDE DEF q
  <2> QED BY <2>1, PairsOfBytes, SMTT(30)
<1>6. PICK b1, b2, b3, b4 \in PairValues :
        /\ b = Of4(b1, b2, b3, b4)
        /\ p(12 * q + 5) = b1 /\ p(12 * q + 6) = b2 /\ p(12 * q + 7) = b3 /\ p(12 * q + 8) = b4
  <2>1. /\ 3 * q + 1 \in Nat /\ 3 * q + 1 + 1 = 3 * q + 2
        /\ 4 * (3 * q + 1) + 1 = 12 * q + 5 /\ 4 * (3 * q + 1) + 2 = 12 * q + 6
        /\ 4 * (3 * q + 1) + 3 = 12 * q + 7 /\ 4 * (3 * q + 1) + 4 = 12 * q + 8
    BY <1>2
  <2> HIDE DEF q
  <2> QED BY <2>1, PairsOfBytes, SMTT(30)
<1>7. PICK c1, c2, c3, c4 \in PairValues :
        /\ c = Of4(c1, c2, c3, c4)
        /\ p(12 * q + 9) = c1 /\ p(12 * q + 10) = c2 /\ p(12 * q + 11) = c3 /\ p(12 * q + 12) = c4
  <2>1. /\ 3 * q + 2 \in Nat /\ 3 * q + 2 + 1 = 3 * q + 3
        /\ 4 * (3 * q + 2) + 1 = 12 * q + 9 /\ 4 * (3 * q + 2) + 2 = 12 * q + 10
        /\ 4 * (3 * q + 2) + 3 = 12 * q + 11 /\ 4 * (3 * q + 2) + 4 = 12 * q + 12
    BY <1>2
  <2> HIDE DEF q
  <2> QED BY <2>1, PairsOfBytes
<1>8. \A h \in PairValues : h \in Int
  BY DEF PairValues
<1>9. /\ a \div Pair = Of3(a1, a2, a3) /\ a % Pair = a4
      /\ b \div HexDigits = Of2(b1, b2) /\ b % HexDigits = Of2(b3, b4)
      /\ c \div Symbols = c1 /\ c % Symbols = Of3(c2, c3, c4)
  <2>1. /\ Of4(a1, a2, a3, a4) \div Pair = Of3(a1, a2, a3) /\ Of4(a1, a2, a3, a4) % Pair = a4
        /\ Of4(b1, b2, b3, b4) \div HexDigits = Of2(b1, b2)
        /\ Of4(b1, b2, b3, b4) % HexDigits = Of2(b3, b4)
        /\ Of4(c1, c2, c3, c4) \div Symbols = c1 /\ Of4(c1, c2, c3, c4) % Symbols = Of3(c2, c3, c4)
    BY PairsOfFour
  <2> HIDE DEF a, b, c
  <2> QED BY <1>5, <1>6, <1>7, <2>1
<1> HIDE DEF a, b, c, p, L, K, q
<1>10. CASE k % 4 = 1 /\ k = 4 * q + 1
  <2>1. FallbackEncode(bytes)[k] = Of3(a1, a2, a3)
    BY <1>3, <1>9, <1>10
  <2>2. 3 * (k - 1) = 12 * q
    BY <1>2, <1>10
  <2>3. 3 * k <= 4 * L + 2
    BY <1>0, <1>1, <1>2, <1>10 DEF K
  <2> QED BY <1>4, <1>5, <2>1, <2>2, <2>3
<1>11. CASE k % 4 = 2 /\ k = 4 * q + 2
  <2>1. FallbackEncode(bytes)[k] = a4 * HexDigits + Of2(b1, b2)
    BY <1>3, <1>9, <1>11
  <2>2. 3 * (k - 1) + 1 = 12 * q + 4 /\ 3 * (k - 1) + 2 = 12 * q + 5 /\ 3 * (k - 1) + 3 = 12 * q + 6
    BY <1>2, <1>11
  <2>3. 3 * k <= 4 * L + 2
    BY <1>0, <1>1, <1>2, <1>11 DEF K
  <2>4. a4 * (Pair * Pair) + (b1 * Pair + b2) = (a4 * Pair + b1) * Pair + b2
    <3>1. a4 \in Int /\ b1 \in Int /\ b2 \in Int
      BY <1>5, <1>6, <1>8
    <3> QED BY <1>0, <3>1
  <2> QED BY <1>4, <1>5, <1>6, <2>1, <2>2, <2>3, <2>4, PowersOfPair DEF Of2, Of3
<1>12. CASE k % 4 = 3 /\ k = 4 * q + 3
  <2>1. FallbackEncode(bytes)[k] =
          IF 3 * q + 1 < L THEN Of2(b3, b4) * Pair + c1 ELSE Pad
    BY <1>2, <1>3, <1>9, <1>12
  <2>2. 3 * (k - 1) + 1 = 12 * q + 7 /\ 3 * (k - 1) + 2 = 12 * q + 8 /\ 3 * (k - 1) + 3 = 12 * q + 9
    BY <1>2, <1>12
  <2>3. 3 * k <= 4 * L + 2 <=> 3 * q + 1 < L
    BY <1>0, <1>2, <1>12
  <2> QED BY <1>4, <1>6, <1>7, <2>1, <2>2, <2>3 DEF Of2, Of3
<1>13. CASE k % 4 = 0 /\ k = 4 * q + 4
  <2>1. FallbackEncode(bytes)[k] = IF 3 * q + 2 < L THEN Of3(c2, c3, c4) ELSE Pad
    BY <1>2, <1>3, <1>9, <1>13
  <2>2. 3 * (k - 1) + 1 = 12 * q + 10 /\ 3 * (k - 1) + 2 = 12 * q + 11 /\ 3 * (k - 1) + 3 = 12 * q + 12
    BY <1>2, <1>13
  <2>3. 3 * k <= 4 * L + 2 <=> 3 * q + 2 < L
    BY <1>0, <1>2, <1>13
  <2> QED BY <1>4, <1>7, <2>1, <2>2, <2>3
<1> QED BY <1>2, <1>10, <1>11, <1>12, <1>13

\* Symbols become the same bytes with atob() and without it.
LEMMA DecodersAgree ==
  ASSUME NEW base64, Unpadded(base64) \in Seq(0 .. Symbols - 1)
  PROVE  FallbackDecode(base64) = Atob(base64)
<1> DEFINE symbols == Unpadded(base64)
           L == Len(symbols)
           K == 1 .. (3 * L) \div 4
           p(i) == PairAt(symbols, 3, i)
<1>0. L \in Nat /\ Pair \in Nat \ {0} /\ L * 3 = 3 * L
  BY LenProperties, PowersOfPair
<1>1. SUFFICES ASSUME NEW k \in K
               PROVE  FallbackDecode(base64)[k] = Atob(base64)[k]
  BY <1>0 DEF FallbackDecode, Atob
<1> DEFINE q == (k - 1) \div 3
<1>2. q \in Nat /\ k \in Int
      /\ \/ k % 3 = 1 /\ k = 3 * q + 1
         \/ k % 3 = 2 /\ k = 3 * q + 2
         \/ k % 3 = 0 /\ k = 3 * q + 3
  <2>1. k \in Int /\ k >= 1
    OBVIOUS
  <2> HIDE DEF K
  <2> QED BY <2>1
<1> DEFINE a == At(symbols, 4 * q + 1)
           b == At(symbols, 4 * q + 2)
           c == At(symbols, 4 * q + 3)
           d == At(symbols, 4 * q + 4)
<1>3. FallbackDecode(base64)[k] =
        CASE k % 3 = 1 -> a * Pair + b \div HexDigits
          [] k % 3 = 2 -> (b % HexDigits) * HexDigits + c \div Pair
          [] k % 3 = 0 -> (c % Pair) * Symbols + d
  BY <1>0 DEF FallbackDecode
<1>4. Atob(base64)[k] =
        Of4(p(4 * (k - 1) + 1), p(4 * (k - 1) + 2), p(4 * (k - 1) + 3), p(4 * (k - 1) + 4))
  BY DEF Atob, Of4
<1>5. PICK a1, a2, a3 \in PairValues :
        a = Of3(a1, a2, a3) /\ p(12 * q + 1) = a1 /\ p(12 * q + 2) = a2 /\ p(12 * q + 3) = a3
  <2>1. 4 * q \in Nat /\ 3 * (4 * q) = 12 * q
    BY <1>2
  <2> HIDE DEF q
  <2> QED BY <2>1, PairsOfSymbols
<1>6. PICK b1, b2, b3 \in PairValues :
        b = Of3(b1, b2, b3) /\ p(12 * q + 4) = b1 /\ p(12 * q + 5) = b2 /\ p(12 * q + 6) = b3
  <2>1. /\ 4 * q + 1 \in Nat /\ 4 * q + 1 + 1 = 4 * q + 2 /\ 3 * (4 * q + 1) + 1 = 12 * q + 4
        /\ 3 * (4 * q + 1) + 2 = 12 * q + 5 /\ 3 * (4 * q + 1) + 3 = 12 * q + 6
    BY <1>2
  <2> HIDE DEF q
  <2> QED BY <2>1, PairsOfSymbols
<1>7. PICK c1, c2, c3 \in PairValues :
        c = Of3(c1, c2, c3) /\ p(12 * q + 7) = c1 /\ p(12 * q + 8) = c2 /\ p(12 * q + 9) = c3
  <2>1. /\ 4 * q + 2 \in Nat /\ 4 * q + 2 + 1 = 4 * q + 3 /\ 3 * (4 * q + 2) + 1 = 12 * q + 7
        /\ 3 * (4 * q + 2) + 2 = 12 * q + 8 /\ 3 * (4 * q + 2) + 3 = 12 * q + 9
    BY <1>2
  <2> HIDE DEF q
  <2> QED BY <2>1, PairsOfSymbols
<1>8. PICK d1, d2, d3 \in PairValues :
        d = Of3(d1, d2, d3) /\ p(12 * q + 10) = d1 /\ p(12 * q + 11) = d2 /\ p(12 * q + 12) = d3
  <2>1. /\ 4 * q + 3 \in Nat /\ 4 * q + 3 + 1 = 4 * q + 4 /\ 3 * (4 * q + 3) + 1 = 12 * q + 10
        /\ 3 * (4 * q + 3) + 2 = 12 * q + 11 /\ 3 * (4 * q + 3) + 3 = 12 * q + 12
    BY <1>2
  <2> HIDE DEF q
  <2> QED BY <2>1, PairsOfSymbols
<1>9. /\ a1 \in Int /\ a2 \in Int /\ a3 \in Int /\ b1 \in Int /\ b2 \in Int /\ b3 \in Int
      /\ c1 \in Int /\ c2 \in Int /\ c3 \in Int /\ d1 \in Int /\ d2 \in Int /\ d3 \in Int
  BY <1>5, <1>6, <1>7, <1>8 DEF PairValues
<1>10. /\ b \div HexDigits = b1 /\ b % HexDigits = Of2(b2, b3)
       /\ c \div Pair = Of2(c1, c2) /\ c % Pair = c3
  <2>1. /\ Of3(b1, b2, b3) \div HexDigits = b1 /\ Of3(b1, b2, b3) % HexDigits = Of2(b2, b3)
        /\ Of3(c1, c2, c3) \div Pair = Of2(c1, c2) /\ Of3(c1, c2, c3) % Pair = c3
    BY PairsOfThree
  <2> HIDE DEF b, c
  <2> QED BY <1>6, <1>7, <2>1
<1> HIDE DEF a, b, c, d, p, L, K, q, symbols
<1>11. CASE k % 3 = 1 /\ k = 3 * q + 1
  <2>1. FallbackDecode(base64)[k] = a * Pair + b1
    BY <1>3, <1>10, <1>11
  <2>2. 4 * (k - 1) = 12 * q
    BY <1>2, <1>11
  <2> QED BY <1>4, <1>5, <1>6, <2>1, <2>2 DEF Of3, Of4
<1>12. CASE k % 3 = 2 /\ k = 3 * q + 2
  <2>1. FallbackDecode(base64)[k] = Of2(b2, b3) * HexDigits + Of2(c1, c2)
    BY <1>3, <1>10, <1>12
  <2>2. /\ 4 * (k - 1) + 1 = 12 * q + 5 /\ 4 * (k - 1) + 2 = 12 * q + 6
        /\ 4 * (k - 1) + 3 = 12 * q + 7 /\ 4 * (k - 1) + 4 = 12 * q + 8
    BY <1>2, <1>12
  <2>3. (b2 * Pair + b3) * (Pair * Pair) + (c1 * Pair + c2)
          = ((b2 * Pair + b3) * Pair + c1) * Pair + c2
    <3> DEFINE h == b2 * Pair + b3
    <3>1. h \in Int
      BY <1>0, <1>9
    <3> HIDE DEF h
    <3>2. h * (Pair * Pair) + (c1 * Pair + c2) = (h * Pair + c1) * Pair + c2
      BY <1>0, <1>9, <3>1
    <3> QED BY <3>2 DEF h
  <2> QED BY <1>4, <1>6, <1>7, <2>1, <2>2, <2>3, PowersOfPair DEF Of2, Of4
<1>13. CASE k % 3 = 0 /\ k = 3 * q + 3
  <2>1. FallbackDecode(base64)[k] = c3 * Symbols + Of3(d1, d2, d3)
    BY <1>2, <1>3, <1>8, <1>10, <1>13
  <2>2. /\ 4 * (k - 1) + 1 = 12 * q + 9 /\ 4 * (k - 1) + 2 = 12 * q + 10
        /\ 4 * (k - 1) + 3 = 12 * q + 11 /\ 4 * (k - 1) + 4 = 12 * q + 12
    BY <1>2, <1>13
  <2>3. c3 * ((Pair * Pair) * Pair) + ((d1 * Pair + d2) * Pair + d3)
          = ((c3 * Pair + d1) * Pair + d2) * Pair + d3
    BY <1>0, <1>9
  <2> QED BY <1>4, <1>7, <1>8, <2>1, <2>2, <2>3, PowersOfPair DEF Of3, Of4
<1> QED BY <1>2, <1>11, <1>12, <1>13

\* Bytes come back from the symbols that begin with their bits.
LEMMA DecodingKeeps ==
  ASSUME NEW base64, Unpadded(base64) \in Seq(0 .. Symbols - 1),
         NEW bytes \in Seq(0 .. ByteValues - 1), IsBase64Of(Unpadded(base64), bytes)
  PROVE  Atob(base64) = bytes
<1> DEFINE symbols == Unpadded(base64)
           L == Len(bytes)
<1>1. L \in Nat /\ bytes = [k \in 1 .. L |-> bytes[k]]
  BY LenProperties
<1>2. (3 * Len(symbols)) \div 4 = L
  <2>1. Len(symbols) = (4 * L + 2) \div 3
    BY DEF IsBase64Of
  <2>2. \A l \in Nat : (3 * ((4 * l + 2) \div 3)) \div 4 = l
    BY SMTT(30)
  <2> HIDE DEF symbols, L
  <2> QED BY <1>1, <2>1, <2>2
<1>3. SUFFICES ASSUME NEW k \in 1 .. L
               PROVE  Of4(PairAt(symbols, 3, 4 * (k - 1) + 1), PairAt(symbols, 3, 4 * (k - 1) + 2),
                          PairAt(symbols, 3, 4 * (k - 1) + 3), PairAt(symbols, 3, 4 * (k - 1) + 4))
                        = bytes[k]
  BY <1>1, <1>2 DEF Atob, Of4
<1>4. /\ 4 * (k - 1) + 1 \in 1 .. 4 * L /\ 4 * (k - 1) + 2 \in 1 .. 4 * L
      /\ 4 * (k - 1) + 3 \in 1 .. 4 * L /\ 4 * (k - 1) + 4 \in 1 .. 4 * L
      /\ k - 1 \in Nat /\ (k - 1) + 1 = k /\ k <= L
  BY <1>1, SMTT(30)
<1>5. At(bytes, (k - 1) + 1) = bytes[k]
  BY <1>4 DEF At
<1>6. At(bytes, (k - 1) + 1) =
        Of4(PairAt(bytes, 4, 4 * (k - 1) + 1), PairAt(bytes, 4, 4 * (k - 1) + 2),
            PairAt(bytes, 4, 4 * (k - 1) + 3), PairAt(bytes, 4, 4 * (k - 1) + 4))
  BY <1>4, PairsOfBytes
<1> QED BY <1>4, <1>5, <1>6 DEF IsBase64Of

Base64Strings == Seq({Pad} \cup 0 .. Symbols - 1)

\* btoa() writes symbols that begin with the bits of the bytes, and pads.
LEMMA EncodingKeeps ==
  ASSUME NEW bytes \in Seq(0 .. ByteValues - 1)
  PROVE  /\ Btoa(bytes) \in Base64Strings
         /\ Unpadded(Btoa(bytes)) \in Seq(0 .. Symbols - 1)
         /\ IsBase64Of(Unpadded(Btoa(bytes)), bytes)
<1> DEFINE L == Len(bytes)
           n == (4 * L + 2) \div 3
           K == 4 * ((L + 2) \div 3)
           p(i) == PairAt(bytes, 4, i)
           symbol(k) == Of3(p(3 * (k - 1) + 1), p(3 * (k - 1) + 2), p(3 * (k - 1) + 3))
           base64 == Btoa(bytes)
           S == {0} \cup {i \in DOMAIN base64 : base64[i] # Pad}
           symbols == SubSeq(base64, 1, n)
<1>1. /\ L \in Nat /\ n \in Nat /\ K \in Nat /\ n <= K
      /\ \A k \in 1 .. K : 3 * k <= 4 * L + 2 <=> k <= n
  <2>1. L \in Nat
    BY LenProperties
  <2> HIDE DEF L
  <2> QED BY <2>1
<1>2. Pair \in Nat \ {0} /\ Symbols = (Pair * Pair) * Pair /\ Symbols \in Nat \ {0}
  BY PowersOfPair, EncodingsAssumption, PowerIsPositive DEF Symbols
<1>3. \A i \in Nat \ {0} : p(i) \in PairValues
  <2>1. SUFFICES ASSUME NEW i \in Nat \ {0} PROVE p(i) \in PairValues
    OBVIOUS
  <2>2. PICK j \in Nat : i = 4 * j + 1 \/ i = 4 * j + 2 \/ i = 4 * j + 3 \/ i = 4 * j + 4
    <3>1. (i - 1) \div 4 \in Nat
      OBVIOUS
    <3>2. LET j == (i - 1) \div 4
          IN i = 4 * j + 1 \/ i = 4 * j + 2 \/ i = 4 * j + 3 \/ i = 4 * j + 4
      OBVIOUS
    <3> QED BY <3>1, <3>2
  <2>3. /\ p(4 * j + 1) \in PairValues /\ p(4 * j + 2) \in PairValues
        /\ p(4 * j + 3) \in PairValues /\ p(4 * j + 4) \in PairValues
    BY PairsOfBytes
  <2> HIDE DEF p
  <2> QED BY <2>2, <2>3
<1>4. /\ DOMAIN base64 = 1 .. K
      /\ \A k \in 1 .. K : base64[k] = IF k <= n THEN symbol(k) ELSE Pad
  BY <1>1 DEF Btoa, Of3
<1>5. \A k \in Nat \ {0} : symbol(k) \in 0 .. Symbols - 1
  <2>1. SUFFICES ASSUME NEW k \in Nat \ {0} PROVE symbol(k) \in 0 .. Symbols - 1
    OBVIOUS
  <2>2. /\ 3 * (k - 1) + 1 \in Nat \ {0} /\ 3 * (k - 1) + 2 \in Nat \ {0}
        /\ 3 * (k - 1) + 3 \in Nat \ {0}
    OBVIOUS
  <2>3. PICK a, b, c \in PairValues : symbol(k) = Of3(a, b, c)
    <3> HIDE DEF p
    <3> QED BY <1>3, <2>2
  <2> HIDE DEF symbol
  <2> QED BY <2>3, ThreePairsMakeASymbol
<1>6. Unpadded(base64) = symbols
  <2>1. n \in S /\ \A y \in S : n >= y
    <3>1. n = 0 \/ n \in 1 .. K
      BY <1>1
    <3>2. n \in 1 .. K => base64[n] # Pad
      <4> HIDE DEF symbol, n, K, base64
      <4> QED BY <1>1, <1>2, <1>4, <1>5 DEF Pad
    <3>3. \A y \in 1 .. K : base64[y] # Pad => y <= n
      <4> HIDE DEF symbol, n, K, base64
      <4> QED BY <1>1, <1>4
    <3> HIDE DEF symbol, n, K, base64
    <3> QED BY <1>1, <1>4, <3>1, <3>2, <3>3
  <2>2. \A y \in S : y \in Nat
    <3> HIDE DEF base64
    <3> QED BY <1>4
  <2> HIDE DEF S, n
  <2>3. Max(S) = n
    <3>1. \A x \in S : (\A y \in S : x >= y) => x = n
      BY <1>1, <2>1, <2>2
    <3> QED BY <2>1, <3>1 DEF Max
  <2> QED BY <2>3 DEF Unpadded, S
<1>7. /\ symbols \in Seq(0 .. Symbols - 1)
      /\ Len(symbols) = n /\ \A k \in 1 .. n : symbols[k] = symbol(k)
  <2>1. \A k \in 1 .. n : base64[k] = symbol(k) /\ symbol(k) \in 0 .. Symbols - 1
    <3> HIDE DEF symbol, n, K, base64
    <3> QED BY <1>1, <1>4, <1>5
  <2> HIDE DEF symbol, n, K, base64
  <2>2. /\ symbols \in Seq(0 .. Symbols - 1)
        /\ Len(symbols) = IF 1 <= n THEN n - 1 + 1 ELSE 0
        /\ \A k \in 1 .. n - 1 + 1 : symbols[k] = base64[1 + k - 1]
    <3>1. n \in Int /\ 1 \in Int /\ \A k \in 1 .. n : base64[k] \in 0 .. Symbols - 1
      BY <1>1, <2>1
    <3> QED BY <3>1, SubSeqProperties
  <2>3. n - 1 + 1 = n /\ \A k \in 1 .. n : 1 + k - 1 = k
    BY <1>1
  <2> QED BY <1>1, <2>1, <2>2, <2>3
<1>8. ASSUME NEW i \in 1 .. 4 * L
       PROVE  PairAt(symbols, 3, i) = p(i)
  <2> DEFINE j == (i - 1) \div 3
  <2>1. /\ j \in Nat /\ j + 1 \in 1 .. n
        /\ i = 3 * j + 1 \/ i = 3 * j + 2 \/ i = 3 * j + 3
        /\ 3 * (j + 1 - 1) = 3 * j
    <3>1. i \in Int /\ i >= 1 /\ i <= 4 * L
      BY <1>1
    <3> HIDE DEF L
    <3> QED BY <1>1, <3>1
  <2> HIDE DEF j
  <2>2. At(symbols, j + 1) = Of3(p(3 * j + 1), p(3 * j + 2), p(3 * j + 3))
    <3> HIDE DEF n, p, symbols
    <3>1. At(symbols, j + 1) = symbols[j + 1]
      BY <1>1, <1>7, <2>1 DEF At
    <3> QED BY <1>7, <2>1, <3>1
  <2>3. PICK a, b, c \in PairValues :
          /\ At(symbols, j + 1) = Of3(a, b, c)
          /\ PairAt(symbols, 3, 3 * j + 1) = a
          /\ PairAt(symbols, 3, 3 * j + 2) = b
          /\ PairAt(symbols, 3, 3 * j + 3) = c
    <3> HIDE DEF symbols
    <3> QED BY <1>7, <2>1, PairsOfSymbols
  <2>4. /\ p(3 * j + 1) \in PairValues /\ p(3 * j + 2) \in PairValues
        /\ p(3 * j + 3) \in PairValues
    <3>1. 3 * j + 1 \in Nat \ {0} /\ 3 * j + 2 \in Nat \ {0} /\ 3 * j + 3 \in Nat \ {0}
      BY <2>1
    <3> QED BY <1>3, <3>1
  <2>5. a = p(3 * j + 1) /\ b = p(3 * j + 2) /\ c = p(3 * j + 3)
    <3> HIDE DEF p, symbols
    <3> QED BY <2>2, <2>3, <2>4, PairsTellThemselves
  <2> HIDE DEF p, symbols
  <2> QED BY <2>1, <2>3, <2>5
<1>9. base64 \in Base64Strings
  <2>1. \A k \in 1 .. K : base64[k] \in {Pad} \cup 0 .. Symbols - 1
    <3> HIDE DEF symbol, n, K, base64
    <3> QED BY <1>1, <1>4, <1>5
  <2>2. base64 = [k \in 1 .. K |-> base64[k]]
    BY DEF Btoa
  <2> HIDE DEF base64, K
  <2> QED BY <1>1, <2>1, <2>2 DEF Base64Strings
<1> QED BY <1>6, <1>7, <1>8, <1>9 DEF IsBase64Of

\* The digits of bytes are theirs again.
LEMMA HexKeeps ==
  ASSUME NEW bytes \in Seq(0 .. ByteValues - 1)
  PROVE  /\ IsHexOf(BytesToHex(bytes).digits, bytes)
         /\ ~ OddLength(BytesToHex(bytes))
<1> DEFINE L == Len(bytes)
           digits == BytesToHex(bytes).digits
<1>1. L \in Nat /\ DOMAIN bytes = 1 .. L
  BY LenProperties
<1>2. digits = [i \in 1 .. 2 * L |->
                  IF i % 2 = 1 THEN bytes[(i + 1) \div 2] \div HexDigits
                  ELSE bytes[(i + 1) \div 2] % HexDigits]
  BY DEF BytesToHex, Hex
<1>3. Len(digits) = 2 * L
  <2> HIDE DEF L, digits
  <2>1. 2 * L \in Nat /\ DOMAIN digits = 1 .. 2 * L
    BY <1>1, <1>2
  <2>2. digits \in Seq({digits[i] : i \in 1 .. 2 * L})
    <3> DEFINE R == {digits[i] : i \in 1 .. 2 * L}
    <3>1. digits \in [1 .. 2 * L -> R]
      BY <1>2
    <3> HIDE DEF R
    <3> QED BY <2>1, <3>1, SeqDef DEF R
  <2> QED BY <2>1, <2>2, LenProperties
<1>4. ASSUME NEW i \in 1 .. L
      PROVE  bytes[i] = digits[2 * i - 1] * HexDigits + digits[2 * i]
  <2>1. /\ 2 * i - 1 \in 1 .. 2 * L /\ (2 * i - 1) % 2 = 1 /\ (2 * i - 1 + 1) \div 2 = i
        /\ 2 * i \in 1 .. 2 * L /\ (2 * i) % 2 # 1 /\ (2 * i + 1) \div 2 = i
    <3> HIDE DEF L
    <3> QED BY <1>1
  <2>2. digits[2 * i - 1] = bytes[i] \div HexDigits /\ digits[2 * i] = bytes[i] % HexDigits
    <3> HIDE DEF L, digits
    <3> QED BY <1>2, <2>1
  <2>3. bytes[i] \in Int
    <3>1. bytes[i] \in 0 .. ByteValues - 1
      BY ElementOfSeq
    <3>2. ByteValues \in Nat
      BY PowersOfPair, EncodingsAssumption, PowerIsPositive DEF ByteValues
    <3> QED BY <3>1, <3>2
  <2>4. HexDigits \in Nat \ {0}
    BY PowersOfPair, EncodingsAssumption, PowerIsPositive DEF HexDigits
  <2> HIDE DEF digits
  <2>5. bytes[i] = ((bytes[i] \div HexDigits) * HexDigits) + (bytes[i] % HexDigits)
    BY <2>3, <2>4, Division, Zenon
  <2> QED BY <2>2, <2>5
<1>5. ~ OddLength(BytesToHex(bytes))
  <2> HIDE DEF L, digits
  <2>1. (2 * L) % 2 # 1
    BY <1>1, SMTT(30)
  <2> QED BY <1>3, <2>1 DEF OddLength, digits
<1> QED BY <1>1, <1>3, <1>4, <1>5 DEF IsHexOf

\* Bytes come back from their digits.
LEMMA UnhexingKeeps ==
  ASSUME NEW hex, NEW bytes \in Seq(0 .. ByteValues - 1), IsHexOf(hex.digits, bytes)
  PROVE  HexToBytes(hex) = bytes
<1>1. /\ Len(bytes) \in Nat /\ DOMAIN bytes = 1 .. Len(bytes)
      /\ bytes = [i \in 1 .. Len(bytes) |-> bytes[i]]
  BY LenProperties, SMTT(30)
<1>2. Len(hex.digits) \div 2 = Len(bytes)
  <2>1. \A l \in Nat : (2 * l) \div 2 = l
    OBVIOUS
  <2> QED BY <1>1, <2>1 DEF IsHexOf
<1> QED BY <1>1, <1>2 DEF IsHexOf, HexToBytes

\* The symbols of a string are no more than it has.
LEMMA UnpaddedIsShorter ==
  ASSUME NEW base64 \in Base64Strings, Unpadded(base64) \in Seq(0 .. Symbols - 1)
  PROVE  Len(Unpadded(base64)) <= Len(base64)
<1> DEFINE L == Len(base64)
           S == {0} \cup {i \in DOMAIN base64 : base64[i] # Pad}
           Bounds == {n \in Nat : \A i \in S : i <= n}
<1>1. L \in Nat /\ DOMAIN base64 = 1 .. L
  BY LenProperties DEF Base64Strings
<1>2. S \subseteq 0 .. L /\ 0 \in S
  BY <1>1
<1> HIDE DEF S, L
<1>3. L \in Bounds /\ Bounds \in SUBSET Nat
  BY <1>1, <1>2
<1>4. PICK m \in Bounds : \A n \in Bounds : m <= n
  <2> HIDE DEF Bounds
  <2> QED BY <1>3, LeastMember
<1>5. m \in S
  <2>1. SUFFICES ASSUME m \notin S PROVE FALSE
    OBVIOUS
  <2>2. m - 1 \in Nat /\ \A i \in S : i <= m - 1
    BY <1>1, <1>2, <1>4, <2>1
  <2> QED BY <1>4, <2>2
<1>6. \A x \in S : (\A y \in S : x >= y) => x = m
  BY <1>2, <1>4, <1>5
<1>7. \A y \in S : m >= y
  BY <1>2, <1>4
<1>8. Max(S) = m
  BY <1>5, <1>6, <1>7 DEF Max
<1>9. Unpadded(base64) = SubSeq(base64, 1, m) /\ m <= L
  BY <1>3, <1>4, <1>8 DEF Unpadded, S
<1>10. Len(SubSeq(base64, 1, m)) = IF 1 <= m THEN m - 1 + 1 ELSE 0
  <2>1. \A k \in 1 .. m : base64[k] \in {Pad} \cup 0 .. Symbols - 1
    BY <1>1, <1>3, <1>4, <1>9 DEF Base64Strings
  <2> QED BY <1>4, <2>1, SubSeqProperties
<1> QED BY <1>1, <1>4, <1>9, <1>10 DEF L

\* atob() throws at the wrong number of pads and at one symbol left over.
LEMMA AtobIsParticular ==
  ASSUME NEW base64 \in Base64Strings, Unpadded(base64) \in Seq(0 .. Symbols - 1)
  PROVE  AtobThrows(base64) <=> (~ IsPaddedWell(base64) \/ Len(Unpadded(base64)) % 4 = 1)
<1> DEFINE n == Len(Unpadded(base64))
           L == Len(base64)
<1>1. n \in Nat /\ L \in Nat /\ n <= L
  BY UnpaddedIsShorter, LenProperties DEF Base64Strings
<1>2. ~ Contains(Unpadded(base64), Pad)
  <2>1. \A i \in 1 .. n : Unpadded(base64)[i] \in 0 .. Symbols - 1
    <3>1. \A S, s : s \in Seq(S) => \A i \in 1 .. Len(s) : s[i] \in S
      OBVIOUS
    <3> QED BY <3>1
  <2>2. -1 \notin 0 .. Symbols - 1
    <3>1. \A m : -1 \notin 0 .. m
      OBVIOUS
    <3> QED BY <3>1
  <2>3. \A i \in 1 .. n : Unpadded(base64)[i] # Pad
    BY <2>1, <2>2 DEF Pad
  <2> QED BY <2>3 DEF Contains
<1>3. AtobThrows(base64) <=> n % 4 = 1 \/ (L - n > 0 /\ (L - n > 2 \/ L % 4 # 0))
  BY <1>2 DEF AtobThrows
<1>4. IsPaddedWell(base64) <=> L = n \/ L = 4 * ((n + 3) \div 4)
  BY DEF IsPaddedWell
<1> HIDE DEF n, L
<1>5. PICK q \in Nat, r \in 0 .. 3 : n = 4 * q + r
  <2>1. n \div 4 \in Nat /\ n % 4 \in 0 .. 3 /\ n = 4 * (n \div 4) + (n % 4)
    BY <1>1
  <2> QED BY <2>1
<1>6. n % 4 = r /\ (n + 3) \div 4 = IF r = 0 THEN q ELSE q + 1
  BY <1>5
<1> QED BY <1>1, <1>3, <1>4, <1>5, <1>6 DEF n

\* What bytes are held as stands for them.
IsBytes(bytes) == bytes \in Seq(0 .. ByteValues - 1)

HeldBytes ==
  /\ form \in {"bytes", "text"} => value = meant /\ IsBytes(meant)
  /\ form = "hex" =>
       IF OddLength(value) THEN meant = None
       ELSE IsBytes(meant) /\ IsHexOf(value.digits, meant)
  /\ form = "base64" =>
       /\ IsBytes(meant)
       /\ value \in Base64Strings
       /\ Unpadded(value) \in Seq(0 .. Symbols - 1)
       /\ IsBase64Of(Unpadded(value), meant)
  /\ form = "undecodable" => meant \in {None, << >>}
  /\ form = "refused" => ~ IsPaddedWell(value)

\* Bytes come back from base64 in any host.
LEMMA DecoderKeeps ==
  ASSUME NEW base64, Unpadded(base64) \in Seq(0 .. Symbols - 1), NEW native,
         NEW bytes, IsBytes(bytes), IsBase64Of(Unpadded(base64), bytes)
  PROVE  Base64ToBytes(base64, native) = bytes
BY DecodersAgree, DecodingKeeps DEF IsBytes, Base64ToBytes

\* Any host writes base64 that begins with the bits of the bytes.
LEMMA EncoderKeeps ==
  ASSUME NEW bytes, IsBytes(bytes), NEW native
  PROVE  /\ BytesToBase64(bytes, native) \in Base64Strings
         /\ Unpadded(BytesToBase64(bytes, native)) \in Seq(0 .. Symbols - 1)
         /\ IsBase64Of(Unpadded(BytesToBase64(bytes, native)), bytes)
<1>1. BytesToBase64(bytes, native) = Btoa(bytes)
  BY EncodersAgree DEF IsBytes, BytesToBase64
<1> QED BY <1>1, EncodingKeeps DEF IsBytes

\* Bytes begin as they are, or as a spelling of them.
LEMMA HeldBytesInit ==
  ASSUME Init \/ ClientInit
  PROVE  HeldBytes
<1>0. CASE ClientInit
  BY <1>0 DEF ClientInit, HeldBytes
<1>1. CASE form = "bytes"
  <2>1. Init => value \in ByteStrings /\ meant = value
    BY <1>1, ConversionsAssumption DEF Init, IdKinds
  <2> QED BY <1>0, <1>1, <2>1, ConversionsAssumption DEF HeldBytes, IsBytes
<1>2. CASE Init /\ form = "hex"
  <2>1. PICK s \in Spellings["hex"] : value = s.spelling /\ meant = s.meant
    BY <1>2, ConversionsAssumption DEF Init, IdKinds
  <2>2. "hex" \in DOMAIN Spellings
    BY <1>2, ConversionsAssumption DEF Init, IdKinds
  <2> QED BY <1>2, <2>1, <2>2, ConversionsAssumption DEF HeldBytes, IsBytes
<1>3. CASE Init /\ form = "base64"
  <2>1. PICK s \in Spellings["base64"] : value = s.spelling /\ meant = s.meant
    BY <1>3, ConversionsAssumption DEF Init, IdKinds
  <2>2. "base64" \in DOMAIN Spellings
    BY <1>3, ConversionsAssumption DEF Init, IdKinds
  <2> QED BY <1>3, <2>1, <2>2, ConversionsAssumption DEF HeldBytes, IsBytes, Base64Strings
<1>4. Init => form \notin {"text", "undecodable", "refused"}
  BY ConversionsAssumption DEF Init, IdKinds
<1> QED BY <1>0, <1>1, <1>2, <1>3, <1>4 DEF HeldBytes

\* Every conversion of bytes keeps them.
LEMMA HeldBytesStep ==
  ASSUME HeldBytes, [Next \/ ClientNext]_vars
  PROVE  HeldBytes'
<1>1. CASE FromBytes
  <2>1. /\ form = "bytes" /\ form' = "hex" /\ value' = BytesToHex(value) /\ meant' = meant
        /\ value = meant /\ IsBytes(meant)
    BY <1>1 DEF FromBytes, Becomes, HeldBytes
  <2>2. IsHexOf(BytesToHex(meant).digits, meant) /\ ~ OddLength(BytesToHex(meant))
    BY <2>1, HexKeeps DEF IsBytes
  <2> QED BY <2>1, <2>2 DEF HeldBytes, IsBytes, IsHexOf, OddLength
<1>2. CASE FromHex
  <2>1. form = "hex" /\ meant' = meant
    BY <1>2 DEF FromHex
  <2>2. CASE OddLength(value)
    <3>1. form' = "undecodable" /\ meant = None
      BY <1>2, <2>1, <2>2 DEF FromHex, Becomes, HeldBytes
    <3> QED BY <2>1, <3>1 DEF HeldBytes
  <2>3. CASE ~ OddLength(value)
    <3>1. IsBytes(meant) /\ IsHexOf(value.digits, meant)
      BY <2>1, <2>3 DEF HeldBytes
    <3>2. HexToBytes(value) = meant
      BY <3>1, UnhexingKeeps DEF IsBytes
    <3>3. CASE form' = "bytes" /\ value' = HexToBytes(value)
      BY <2>1, <3>1, <3>2, <3>3 DEF HeldBytes, IsBytes
    <3>4. ASSUME NEW native \in BOOLEAN, form' = "base64", value' = HexToBase64(value, native)
          PROVE  HeldBytes'
      <4>1. value' = BytesToBase64(meant, native)
        BY <3>2, <3>4 DEF HexToBase64
      <4>2. /\ BytesToBase64(meant, native) \in Base64Strings
            /\ Unpadded(BytesToBase64(meant, native)) \in Seq(0 .. Symbols - 1)
            /\ IsBase64Of(Unpadded(BytesToBase64(meant, native)), meant)
        BY <3>1, EncoderKeeps
      <4>3. /\ value' \in Base64Strings /\ Unpadded(value') \in Seq(0 .. Symbols - 1)
            /\ IsBase64Of(Unpadded(value'), meant)
        BY <4>1, <4>2
      <4> QED BY <2>1, <3>1, <3>4, <4>3 DEF HeldBytes, IsBytes
    <3> QED BY <1>2, <2>3, <3>3, <3>4 DEF FromHex, Becomes
  <2> QED BY <2>2, <2>3
<1>3. CASE FromBase64
  <2>1. /\ form = "base64" /\ meant' = meant /\ IsBytes(meant) /\ value \in Base64Strings
        /\ Unpadded(value) \in Seq(0 .. Symbols - 1) /\ IsBase64Of(Unpadded(value), meant)
    BY <1>3 DEF FromBase64, HeldBytes
  <2>2. \A native : Base64ToBytes(value, native) = meant
    BY <2>1, DecoderKeeps
  <2>3. CASE form' = "bytes" /\ value' = meant
    BY <2>1, <2>3 DEF HeldBytes, IsBytes
  <2>4. CASE form' = "hex" /\ value' = BytesToHex(meant)
    <3>1. IsHexOf(BytesToHex(meant).digits, meant) /\ ~ OddLength(BytesToHex(meant))
      BY <2>1, HexKeeps DEF IsBytes
    <3> QED BY <2>1, <2>4, <3>1 DEF HeldBytes, IsBytes, IsHexOf, OddLength
  <2>5. CASE form' = "refused" /\ value' = value /\ AtobThrows(value)
    <3>1. Len(Unpadded(value)) % 4 # 1
      <4>1. Len(Unpadded(value)) = (4 * Len(meant) + 2) \div 3 /\ Len(meant) \in Nat
        BY <2>1, LenProperties DEF IsBase64Of, IsBytes
      <4>2. \A l \in Nat : ((4 * l + 2) \div 3) % 4 # 1
        <5>1. SUFFICES ASSUME NEW l \in Nat PROVE ((4 * l + 2) \div 3) % 4 # 1
          OBVIOUS
        <5>2. PICK q \in Nat, r \in 0 .. 2 : l = 3 * q + r
          <6>1. l \div 3 \in Nat /\ l % 3 \in 0 .. 2 /\ l = 3 * (l \div 3) + (l % 3)
            OBVIOUS
          <6> QED BY <6>1
        <5> QED BY <5>2
      <4> QED BY <4>1, <4>2
    <3>2. ~ IsPaddedWell(value)
      BY <2>1, <2>5, <3>1, AtobIsParticular
    <3> QED BY <2>1, <2>5, <3>2 DEF HeldBytes, IsPaddedWell, Unpadded
  <2> QED BY <1>3, <2>2, <2>3, <2>4, <2>5 DEF FromBase64, Becomes, Base64ToHex, Undecodable
<1>4. CASE DecodeText
  <2>1. form = "hex" /\ meant' = meant
    BY <1>4 DEF DecodeText
  <2>2. CASE OddLength(value)
    <3>1. form' = "undecodable" /\ meant = None
      BY <1>4, <2>1, <2>2 DEF DecodeText, Decodable, Becomes, HeldBytes
    <3> QED BY <2>1, <3>1 DEF HeldBytes
  <2>3. CASE ~ OddLength(value)
    <3>1. IsBytes(meant) /\ IsHexOf(value.digits, meant)
      BY <2>1, <2>3 DEF HeldBytes
    <3>2. HexToBytes(value) = meant
      BY <3>1, UnhexingKeeps DEF IsBytes
    <3>3. CASE value.digits = << >>
      <4>1. form' = "undecodable"
        BY <1>4, <3>3 DEF DecodeText, Decodable, Becomes
      <4>2. Len(meant) = 0
        <5>1. Len(value.digits) = 0 /\ Len(meant) \in Nat
          BY <3>1, <3>3, LenProperties, EmptySeq DEF IsBytes
        <5> QED BY <3>1, <5>1 DEF IsHexOf
      <4>3. meant = << >>
        BY <3>1, <4>2, EmptySeq DEF IsBytes
      <4> QED BY <2>1, <4>1, <4>3 DEF HeldBytes
    <3>4. CASE value.digits # << >>
      <4>1. form' = "text" /\ value' = meant
        BY <1>4, <2>3, <3>2, <3>4 DEF DecodeText, Decodable, Becomes
      <4> QED BY <2>1, <3>1, <4>1 DEF HeldBytes, IsBytes
    <3> QED BY <3>3, <3>4
  <2> QED BY <2>2, <2>3
<1>5. ASSUME \/ Validate \/ BuildUrl \/ Parse \/ TakeStr \/ TakeNum \/ ToHbar \/ ToTinybar
             \/ ParseTimestamp \/ PrintTimestamp \/ ConvertToDate \/ ConvertFromDate
             \/ MakeHieroTimestamp
      PROVE  form' \notin {"bytes", "text", "hex", "base64", "undecodable", "refused"}
  BY <1>5
     DEF Validate, Validator, BuildUrl, Parse, TakeStr, TakeNum, ToHbar, ToTinybar,
         ParseTimestamp, PrintTimestamp, ConvertToDate, ConvertFromDate, MakeHieroTimestamp,
         Becomes, Reject
<1>6. ClientNext => form' \notin {"bytes", "text", "hex", "base64", "undecodable", "refused"}
  BY CallsAreNotConverted
<1>7. CASE UNCHANGED vars
  BY <1>7
     DEF vars, HeldBytes, IsBytes, IsHexOf, IsBase64Of, OddLength, Unpadded, IsPaddedWell
<1> QED BY <1>1, <1>2, <1>3, <1>4, <1>5, <1>6, <1>7 DEF Next, HeldBytes

\* Whatever holds bytes stands for them.
THEOREM BytesHold == ClientSpec => []HeldBytes
<1>1. Init \/ ClientInit => HeldBytes
  BY HeldBytesInit
<1>2. HeldBytes /\ [Next \/ ClientNext]_vars => HeldBytes'
  BY HeldBytesStep
<1> QED BY <1>1, <1>2, PTL DEF ClientSpec

\* Bytes survive any chain of hex and base64, whichever host each step runs in;
\* only an odd number of digits, or none at all, cannot be decoded, and only base64
\* with the wrong number of pads is refused.
THEOREM BytesSurvive == ClientSpec => []BytesAreKept
<1>1. HeldBytes => BytesAreKept
  BY DEF HeldBytes, BytesAreKept
<1> QED BY <1>1, BytesHold, PTL

\* The hosts write the same base64, and read the same in what both of them read:
\* atob() and the code that does without differ just where atob() throws, at the
\* wrong number of pads and at one symbol left over.
THEOREM HostsAgree ==
  /\ \A bytes \in Seq(0 .. ByteValues - 1) :
       BytesToBase64(bytes, TRUE) = BytesToBase64(bytes, FALSE)
  /\ \A base64 \in Base64Strings : Unpadded(base64) \in Seq(0 .. Symbols - 1) =>
       /\ ~ Undecodable(base64, FALSE)
       /\ Undecodable(base64, TRUE) <=>
            (~ IsPaddedWell(base64) \/ Len(Unpadded(base64)) % 4 = 1)
       /\ ~ Undecodable(base64, TRUE) => Base64ToBytes(base64, TRUE) = Base64ToBytes(base64, FALSE)
BY EncodersAgree, DecodersAgree, AtobIsParticular
   DEF BytesToBase64, Base64ToBytes, Undecodable

\* The same on an interval that begins with 0.
RecursUpTo(L, f, start, step) == f[0] = start /\ \A n \in 1 .. L : f[n] = step[n][f[n - 1]]

\* A start and steps on an interval make a function.
LEMMA BoundedRecursion ==
  ASSUME NEW S, NEW L \in Nat, NEW start \in S, NEW step \in [1 .. L -> [S -> S]]
  PROVE  \E f \in [0 .. L -> S] : RecursUpTo(L, f, start, step)
<1> DEFINE on == [n \in Nat |-> IF n + 1 \in 1 .. L THEN step[n + 1] ELSE [s \in S |-> s]]
<1>1. on \in [Nat -> [S -> S]]
  OBVIOUS
<1>2. \A n \in 1 .. L : n - 1 \in Nat /\ (n - 1) + 1 = n /\ on[n - 1] = step[n]
  OBVIOUS
<1> HIDE DEF on
<1>3. PICK g \in [Nat -> S] : Recurs(g, start, on)
  BY <1>1, RecursionExists
<1> DEFINE f == [n \in 0 .. L |-> g[n]]
<1>4. f \in [0 .. L -> S] /\ f[0] = start
  BY <1>3 DEF Recurs
<1>5. ASSUME NEW n \in 1 .. L
      PROVE  f[n] = step[n][f[n - 1]]
  <2>1. g[(n - 1) + 1] = on[n - 1][g[n - 1]]
    BY <1>2, <1>3 DEF Recurs
  <2>2. f[n] = g[n] /\ f[n - 1] = g[n - 1]
    OBVIOUS
  <2> QED BY <1>2, <2>1, <2>2
<1> HIDE DEF f
<1>6. RecursUpTo(L, f, start, step)
  BY <1>4, <1>5 DEF RecursUpTo
<1> QED BY <1>4, <1>6

----------------------------------------------------------------------------
(* Paths put together and taken apart *)

\* JoinedUpTo is the function that its recursion describes.
LEMMA JoinedByStep ==
  ASSUME NEW T, "/" \in T, NEW texts \in Seq(Seq(T))
  PROVE  /\ JoinedUpTo(texts)[0] = << >>
         /\ \A n \in 1 .. Len(texts) :
              JoinedUpTo(texts)[n] = (JoinedUpTo(texts)[n - 1] \o <<"/">>) \o texts[n]
<1> DEFINE L == Len(texts)
           step == [n \in 1 .. L |-> [s \in Seq(T) |-> (s \o <<"/">>) \o texts[n]]]
           joined == JoinedUpTo(texts)
<1>1. L \in Nat /\ \A n \in 1 .. L : texts[n] \in Seq(T)
  BY LenProperties, ElementOfSeq
<1>2. step \in [1 .. L -> [Seq(T) -> Seq(T)]]
  <2>1. <<"/">> \in Seq(T)
    OBVIOUS
  <2>2. \A n \in 1 .. L, s \in Seq(T) : (s \o <<"/">>) \o texts[n] \in Seq(T)
    BY <1>1, <2>1, ConcatProperties
  <2> HIDE DEF L
  <2> QED BY <2>2
<1>3. \A n \in 1 .. L, s \in Seq(T) : step[n][s] = (s \o <<"/">>) \o texts[n]
  OBVIOUS
<1>4. << >> \in Seq(T)
  OBVIOUS
<1> HIDE DEF step, L
<1>5. PICK f \in [0 .. L -> Seq(T)] : RecursUpTo(L, f, << >>, step)
  BY <1>1, <1>2, <1>4, BoundedRecursion
<1>6. ASSUME NEW n \in 0 .. L
      PROVE  f[n] = IF n = 0 THEN << >> ELSE (f[n - 1] \o <<"/">>) \o texts[n]
  <2>1. CASE n = 0
    BY <1>5, <2>1 DEF RecursUpTo
  <2>2. CASE n # 0
    <3>1. n \in 1 .. L /\ n - 1 \in 0 .. L
      BY <1>1, <2>2
    <3>2. f[n - 1] \in Seq(T)
      BY <1>5, <3>1
    <3> QED BY <1>3, <1>5, <2>2, <3>1, <3>2 DEF RecursUpTo
  <2> QED BY <2>1, <2>2
<1>7. f = [n \in 0 .. L |-> IF n = 0 THEN << >> ELSE (f[n - 1] \o <<"/">>) \o texts[n]]
  <2>1. f = [n \in 0 .. L |-> f[n]]
    BY <1>5
  <2> QED BY <1>6, <2>1, Zenon
<1>8. joined = [n \in 0 .. L |-> IF n = 0 THEN << >> ELSE (joined[n - 1] \o <<"/">>) \o texts[n]]
  BY <1>7, Zenon DEF JoinedUpTo, L
<1> HIDE DEF joined
<1>9. \A n \in 0 .. L : joined[n] = IF n = 0 THEN << >> ELSE (joined[n - 1] \o <<"/">>) \o texts[n]
  BY <1>8, Zenon
<1>10. 0 \in 0 .. L /\ \A n \in 1 .. L : n \in 0 .. L /\ n # 0
  BY <1>1
<1> QED BY <1>9, <1>10, Zenon DEF joined, L

\* SplitUpTo is the function that its recursion describes.
LEMMA SplitByStep ==
  ASSUME NEW T, NEW path \in Seq(T)
  PROVE  /\ SplitUpTo(path) \in [0 .. Len(path) -> Seq(Seq(T)) \ {<< >>}]
         /\ SplitUpTo(path)[0] = <<<< >>>>
         /\ \A n \in 1 .. Len(path) :
              LET texts == SplitUpTo(path)[n - 1]
              IN SplitUpTo(path)[n] =
                   IF path[n] = "/" THEN Append(texts, << >>)
                   ELSE Append(Front(texts), Append(Last(texts), path[n]))
<1> DEFINE L == Len(path)
           S == Seq(Seq(T)) \ {<< >>}
           Next1(s, n) == IF path[n] = "/" THEN Append(s, << >>)
                          ELSE Append(Front(s), Append(Last(s), path[n]))
           step == [n \in 1 .. L |-> [s \in S |-> Next1(s, n)]]
           split == SplitUpTo(path)
<1>1. L \in Nat /\ \A n \in 1 .. L : path[n] \in T
  BY LenProperties, ElementOfSeq
<1>2. ASSUME NEW n \in 1 .. L, NEW s \in S
      PROVE  Next1(s, n) \in S
  <2>1. s \in Seq(Seq(T)) /\ Len(s) \in Nat /\ Len(s) > 0
    <3>1. s \in Seq(Seq(T)) /\ s # << >>
      OBVIOUS
    <3> HIDE DEF S
    <3> QED BY <3>1, LenProperties, EmptySeq
  <2>2. Last(s) \in Seq(T)
    BY <2>1, ElementOfSeq DEF Last
  <2>3. Front(s) \in Seq(Seq(T))
    <3> DEFINE m == Len(s) - 1
    <3>1. m \in Int /\ \A i \in 1 .. m : s[i] \in Seq(T)
      <4>1. \A i \in 1 .. m : i \in 1 .. Len(s)
        BY <2>1
      <4> QED BY <2>1, <4>1, ElementOfSeq
    <3> HIDE DEF m
    <3>2. SubSeq(s, 1, m) \in Seq(Seq(T))
      BY <3>1, SubSeqProperties
    <3> QED BY <3>2 DEF Front, m
  <2>4. Append(Last(s), path[n]) \in Seq(T)
    BY <1>1, <2>2, AppendProperties
  <2>5. << >> \in Seq(T)
    OBVIOUS
  <2>6. \A r \in Seq(Seq(T)), t \in Seq(T) : Append(r, t) \in S
    <3>1. \A r \in Seq(Seq(T)), t \in Seq(T) : Append(r, t) \in Seq(Seq(T)) /\ Len(Append(r, t)) = Len(r) + 1
      BY AppendProperties
    <3>2. \A r \in Seq(Seq(T)) : Len(r) \in Nat /\ Len(r) + 1 # 0
      BY LenProperties
    <3>3. Len(<< >>) = 0
      BY EmptySeq
    <3> QED BY <3>1, <3>2, <3>3
  <2> QED BY <2>1, <2>2, <2>3, <2>4, <2>5, <2>6
<1> HIDE DEF Next1
<1>3. step \in [1 .. L -> [S -> S]]
  BY <1>2
<1>4. \A n \in 1 .. L, s \in S : step[n][s] = Next1(s, n)
  OBVIOUS
<1>5. <<<< >>>> \in S
  OBVIOUS
<1> HIDE DEF step, L, S
<1>6. PICK f \in [0 .. L -> S] : RecursUpTo(L, f, <<<< >>>>, step)
  BY <1>1, <1>3, <1>5, BoundedRecursion
<1>7. ASSUME NEW n \in 0 .. L
      PROVE  f[n] = IF n = 0 THEN <<<< >>>> ELSE Next1(f[n - 1], n)
  <2>1. CASE n = 0
    BY <1>6, <2>1 DEF RecursUpTo
  <2>2. CASE n # 0
    <3>1. n \in 1 .. L /\ n - 1 \in 0 .. L
      BY <1>1, <2>2
    <3>2. f[n - 1] \in S
      BY <1>6, <3>1
    <3> QED BY <1>4, <1>6, <2>2, <3>1, <3>2 DEF RecursUpTo
  <2> QED BY <2>1, <2>2
<1>8. f = [n \in 0 .. L |-> IF n = 0 THEN <<<< >>>> ELSE Next1(f[n - 1], n)]
  <2>1. f = [n \in 0 .. L |-> f[n]]
    BY <1>6
  <2> QED BY <1>7, <2>1, Zenon
<1>9. /\ split = [n \in 0 .. L |-> IF n = 0 THEN <<<< >>>> ELSE Next1(split[n - 1], n)]
      /\ split \in [0 .. L -> S]
  <2> DEFINE Is(h) == h = [n \in 0 .. L |-> IF n = 0 THEN <<<< >>>> ELSE Next1(h[n - 1], n)]
  <2>1. split = CHOOSE h : Is(h)
    BY DEF SplitUpTo, L, Next1
  <2>2. Is(split)
    BY <1>8, <2>1, Zenon
  <2>3. \A n \in 0 .. L : split[n] = IF n = 0 THEN <<<< >>>> ELSE Next1(split[n - 1], n)
    BY <2>2, Zenon
  <2> HIDE DEF split
  <2> DEFINE I == {n \in Nat : n <= L => split[n] \in S}
  <2>4. 0 \in I
    <3>1. 0 \in 0 .. L
      BY <1>1
    <3> QED BY <1>5, <2>3, <3>1
  <2>5. ASSUME NEW n \in I
        PROVE  n + 1 \in I
    <3>1. CASE n + 1 <= L
      <4>1. /\ n + 1 \in 0 .. L /\ n + 1 \in 1 .. L /\ n + 1 # 0 /\ (n + 1) - 1 = n /\ n <= L
        BY <1>1, <3>1
      <4>2. split[n] \in S
        BY <4>1
      <4>3. split[n + 1] = Next1(split[n], n + 1)
        BY <2>3, <4>1
      <4> QED BY <1>2, <4>1, <4>2, <4>3
    <3> QED BY <3>1
  <2>6. I = Nat
    <3> HIDE DEF I
    <3>1. I \in SUBSET Nat
      BY DEF I
    <3> QED BY <2>4, <2>5, <3>1, Induction
  <2>7. \A n \in 0 .. L : split[n] \in S
    BY <1>1, <2>6
  <2> QED BY <2>2, <2>7
<1> HIDE DEF split
<1>10. \A n \in 0 .. L : split[n] = IF n = 0 THEN <<<< >>>> ELSE Next1(split[n - 1], n)
  BY <1>9, Zenon
<1>11. 0 \in 0 .. L /\ \A n \in 1 .. L : n \in 0 .. L /\ n # 0
  BY <1>1
<1>12. split[0] = <<<< >>>> /\ \A n \in 1 .. L : split[n] = Next1(split[n - 1], n)
  BY <1>10, <1>11, Zenon
<1> QED BY <1>9, <1>12, Zenon DEF split, L, S, Next1

\* A segment is behind a path without any slash behind it, and slashes are alone.
IsTidy(path) ==
  \A i \in DOMAIN path :
    path[i] # "NUL" /\ (path[i] = "/" => i < Len(path) /\ path[i + 1] # "/")

\* A text that can be the segment of a path.
IsSegment(text, T) ==
  /\ text \in Seq(T)
  /\ Len(text) > 0
  /\ \A i \in DOMAIN text : text[i] \notin {"/", "NUL"}

\* What a slash and a text more make of a path.
LEMMA SegmentAdded ==
  ASSUME NEW T, "/" \in T, NEW path \in Seq(T), NEW text \in Seq(T)
  PROVE  /\ (path \o <<"/">>) \o text \in Seq(T)
         /\ Len((path \o <<"/">>) \o text) = Len(path) + 1 + Len(text)
         /\ \A i \in 1 .. Len(path) : ((path \o <<"/">>) \o text)[i] = path[i]
         /\ ((path \o <<"/">>) \o text)[Len(path) + 1] = "/"
         /\ \A i \in 1 .. Len(text) : ((path \o <<"/">>) \o text)[Len(path) + 1 + i] = text[i]
<1> DEFINE p == path \o <<"/">>
           m == Len(path)
           n == Len(text)
<1>1. m \in Nat /\ n \in Nat
  BY LenProperties
<1>2. /\ p \in Seq(T) /\ Len(p) = m + 1
      /\ \A i \in 1 .. m : p[i] = path[i]
      /\ p[m + 1] = "/"
  BY OneMore
<1> HIDE DEF p
<1>3. /\ p \o text \in Seq(T)
      /\ Len(p \o text) = Len(p) + n
      /\ \A i \in 1 .. Len(p) + n :
           (p \o text)[i] = IF i <= Len(p) THEN p[i] ELSE text[i - Len(p)]
  BY <1>2, ConcatProperties
<1> DEFINE q == p \o text
<1> HIDE DEF q
<1>4. /\ q \in Seq(T) /\ Len(q) = (m + 1) + n
      /\ \A i \in 1 .. (m + 1) + n : q[i] = IF i <= m + 1 THEN p[i] ELSE text[i - (m + 1)]
  BY <1>2, <1>3 DEF q
<1> HIDE DEF m, n
<1>5. \A i \in 1 .. m : q[i] = path[i]
  <2>1. \A i \in 1 .. m : i \in 1 .. (m + 1) + n /\ i <= m + 1
    BY <1>1
  <2> QED BY <1>2, <1>4, <2>1
<1>6. q[m + 1] = "/"
  <2>1. m + 1 \in 1 .. (m + 1) + n /\ m + 1 <= m + 1
    BY <1>1
  <2> QED BY <1>2, <1>4, <2>1
<1>7. \A i \in 1 .. n : q[m + 1 + i] = text[i]
  <2>1. \A i \in 1 .. n : /\ m + 1 + i \in 1 .. (m + 1) + n
                          /\ ~ (m + 1 + i <= m + 1) /\ (m + 1 + i) - (m + 1) = i
    BY <1>1
  <2> QED BY <1>4, <2>1
<1> QED BY <1>4, <1>5, <1>6, <1>7 DEF q, p, m, n

\* A path that ends in a segment is tidy after one segment more.
LEMMA SegmentKeepsTidy ==
  ASSUME NEW T, "/" \in T, NEW path \in Seq(T), IsTidy(path), NEW text, IsSegment(text, T)
  PROVE  IsTidy((path \o <<"/">>) \o text)
<1> DEFINE q == (path \o <<"/">>) \o text
           m == Len(path)
           n == Len(text)
<1>1. /\ m \in Nat /\ n \in Nat /\ n > 0 /\ text \in Seq(T)
      /\ DOMAIN path = 1 .. m /\ DOMAIN text = 1 .. n
  BY LenProperties DEF IsSegment
<1>2. /\ q \in Seq(T) /\ Len(q) = m + 1 + n
      /\ \A i \in 1 .. m : q[i] = path[i]
      /\ q[m + 1] = "/"
      /\ \A i \in 1 .. n : q[m + 1 + i] = text[i]
  BY <1>1, SegmentAdded
<1> HIDE DEF q
<1>3. DOMAIN q = 1 .. m + 1 + n
  BY <1>2, LenProperties
<1>4. \A i \in 1 .. m : q[i] # "NUL" /\ (q[i] = "/" => i < m /\ q[i + 1] # "/")
  <2>1. \A i \in 1 .. m : path[i] # "NUL" /\ (path[i] = "/" => i < m /\ path[i + 1] # "/")
    BY <1>1 DEF IsTidy
  <2>2. \A i \in 1 .. m : i < m => i + 1 \in 1 .. m
    BY <1>1
  <2> HIDE DEF m, n
  <2> QED BY <1>2, <2>1, <2>2
<1>5. \A i \in 1 .. n : q[m + 1 + i] # "/" /\ q[m + 1 + i] # "NUL"
  <2>1. \A i \in 1 .. n : text[i] # "/" /\ text[i] # "NUL"
    BY <1>1 DEF IsSegment
  <2> QED BY <1>2, <2>1
<1> HIDE DEF m, n
<1>6. \A i \in 1 .. m + 1 + n : q[i] # "NUL" /\ (q[i] = "/" => i < m + 1 + n /\ q[i + 1] # "/")
  <2> SUFFICES ASSUME NEW i \in 1 .. m + 1 + n
               PROVE  q[i] # "NUL" /\ (q[i] = "/" => i < m + 1 + n /\ q[i + 1] # "/")
    OBVIOUS
  <2>1. CASE i \in 1 .. m
    <3>1. i < m + 1 + n
      BY <1>1, <2>1
    <3> QED BY <1>4, <2>1, <3>1
  <2>2. CASE i = m + 1
    <3>1. i < m + 1 + n /\ 1 \in 1 .. n
      BY <1>1, <2>2
    <3> QED BY <1>2, <1>5, <2>2, <3>1
  <2>3. CASE i > m + 1
    <3>1. i - (m + 1) \in 1 .. n /\ i = m + 1 + (i - (m + 1))
      BY <1>1, <2>3
    <3>2. q[i] # "/" /\ q[i] # "NUL"
      BY <1>5, <3>1
    <3> QED BY <3>2
  <2>4. i \in 1 .. m \/ i = m + 1 \/ i > m + 1
    BY <1>1
  <2> QED BY <2>1, <2>2, <2>3, <2>4
<1> QED BY <1>2, <1>3, <1>6 DEF IsTidy, q

\* A tidy path is clean.
LEMMA TidyIsClean ==
  ASSUME NEW T, NEW path \in Seq(T), IsTidy(path)
  PROVE  IsClean(path)
<1>1. Len(path) \in Nat /\ DOMAIN path = 1 .. Len(path)
  BY LenProperties
<1>2. \A i \in DOMAIN path : ~ (i > 1 /\ path[i] = "/" /\ path[i - 1] = "/")
  <2> SUFFICES ASSUME NEW i \in DOMAIN path, i > 1, path[i] = "/", path[i - 1] = "/"
               PROVE  FALSE
    OBVIOUS
  <2>1. i - 1 \in DOMAIN path /\ (i - 1) + 1 = i
    BY <1>1
  <2> QED BY <2>1 DEF IsTidy
<1>3. Len(path) > 1 => path[Len(path)] # "/"
  <2>1. Len(path) > 1 => Len(path) \in DOMAIN path /\ ~ (Len(path) < Len(path))
    BY <1>1
  <2> QED BY <2>1 DEF IsTidy
<1>4. \A i \in DOMAIN path : path[i] # "NUL"
  BY DEF IsTidy
<1> QED BY <1>2, <1>3, <1>4 DEF IsClean

\* How a path is split depends on the tokens so far only.
LEMMA SplitSoFar ==
  ASSUME NEW T, NEW path \in Seq(T), NEW longer \in Seq(T), Len(path) <= Len(longer),
         \A i \in 1 .. Len(path) : longer[i] = path[i]
  PROVE  SplitUpTo(longer)[Len(path)] = Split(path)
<1>1. Len(path) \in Nat /\ Len(longer) \in Nat
  BY LenProperties
<1> DEFINE I == {n \in Nat : n <= Len(path) => SplitUpTo(longer)[n] = SplitUpTo(path)[n]}
<1>2. 0 \in I
  BY SplitByStep
<1>3. ASSUME NEW n \in I
      PROVE  n + 1 \in I
  <2>1. CASE n + 1 <= Len(path)
    <3>1. /\ n + 1 \in 1 .. Len(path) /\ n + 1 \in 1 .. Len(longer) /\ (n + 1) - 1 = n
          /\ SplitUpTo(longer)[n] = SplitUpTo(path)[n]
      BY <1>1, <2>1
    <3>2. longer[n + 1] = path[n + 1]
      BY <3>1
    <3> DEFINE texts == SplitUpTo(path)[n]
    <3>3. SplitUpTo(path)[n + 1] =
            IF path[n + 1] = "/" THEN Append(texts, << >>)
            ELSE Append(Front(texts), Append(Last(texts), path[n + 1]))
      BY <3>1, SplitByStep
    <3>4. SplitUpTo(longer)[n + 1] =
            IF longer[n + 1] = "/" THEN Append(texts, << >>)
            ELSE Append(Front(texts), Append(Last(texts), longer[n + 1]))
      BY <3>1, SplitByStep
    <3> QED BY <3>2, <3>3, <3>4
  <2> QED BY <2>1
<1>4. I = Nat
  <2> HIDE DEF I
  <2>1. I \in SUBSET Nat
    BY DEF I
  <2> QED BY <1>2, <1>3, <2>1, Induction
<1>5. SplitUpTo(longer)[Len(path)] = SplitUpTo(path)[Len(path)]
  <2>1. Len(path) \in I
    BY <1>1, <1>4
  <2> QED BY <1>1, <2>1
<1> QED BY <1>5 DEF Split

\* What is appended last is the last, in front of it is what was there before.
LEMMA AppendedIsLast ==
  ASSUME NEW T, NEW s \in Seq(T), NEW x \in T
  PROVE  Front(Append(s, x)) = s /\ Last(Append(s, x)) = x
<1> DEFINE n == Len(s)
           a == Append(s, x)
<1>1. n \in Nat /\ DOMAIN s = 1 .. n /\ s = [i \in 1 .. n |-> s[i]]
  BY LenProperties
<1>2. a \in Seq(T) /\ Len(a) = n + 1 /\ (\A i \in 1 .. n : a[i] = s[i]) /\ a[n + 1] = x
  BY AppendProperties
<1> HIDE DEF a, n
<1>3. Last(a) = x
  BY <1>2 DEF Last
<1> DEFINE f == SubSeq(a, 1, n)
<1>4. f \in Seq(T) /\ Len(f) = n /\ \A i \in 1 .. n : f[i] = a[i]
  <2>1. \A i \in 1 .. n : a[i] \in T
    <3>1. \A i \in 1 .. n : i \in 1 .. Len(a)
      BY <1>1, <1>2
    <3> QED BY <1>2, <3>1, ElementOfSeq
  <2> QED BY <1>1, <2>1
<1> HIDE DEF f
<1>5. f = [i \in 1 .. n |-> f[i]]
  BY <1>4, LenProperties
<1>6. f = s
  BY <1>1, <1>2, <1>4, <1>5
<1>7. Front(a) = f
  <2>1. Len(a) - 1 = n
    BY <1>1, <1>2
  <2> QED BY <2>1 DEF Front, f
<1> QED BY <1>3, <1>6, <1>7 DEF a

\* A segment more is one more to be found.
LEMMA SplitFindsSegment ==
  ASSUME NEW T, "/" \in T, NEW path \in Seq(T), NEW text, IsSegment(text, T)
  PROVE  Split((path \o <<"/">>) \o text) = Append(Split(path), text)
<1> DEFINE q == (path \o <<"/">>) \o text
           m == Len(path)
           n == Len(text)
           split == SplitUpTo(q)
           found == Split(path)
<1>1. /\ m \in Nat /\ n \in Nat /\ n > 0 /\ text \in Seq(T)
      /\ DOMAIN path = 1 .. m /\ DOMAIN text = 1 .. n /\ text = [i \in 1 .. n |-> text[i]]
  BY LenProperties DEF IsSegment
<1>2. /\ q \in Seq(T) /\ Len(q) = m + 1 + n
      /\ \A i \in 1 .. m : q[i] = path[i]
      /\ q[m + 1] = "/"
      /\ \A i \in 1 .. n : q[m + 1 + i] = text[i]
  BY <1>1, SegmentAdded
<1> HIDE DEF q
<1>3. \A i \in 1 .. n : text[i] \in T /\ text[i] # "/"
  BY <1>1, ElementOfSeq DEF IsSegment
<1>4. found \in Seq(Seq(T)) /\ split[m] = found
  <2>1. SplitUpTo(path)[m] \in Seq(Seq(T)) \ {<< >>}
    <3>1. m \in 0 .. Len(path)
      BY <1>1
    <3> QED BY <3>1, SplitByStep
  <2>2. m <= Len(q)
    BY <1>1, <1>2
  <2>3. split[m] = found
    BY <1>2, <2>2, SplitSoFar
  <2> QED BY <2>1, <2>3 DEF Split
<1>5. \A i \in 1 .. m + 1 + n :
        LET texts == split[i - 1]
        IN split[i] = IF q[i] = "/" THEN Append(texts, << >>)
                      ELSE Append(Front(texts), Append(Last(texts), q[i]))
  BY <1>2, SplitByStep
<1> HIDE DEF split, found, m, n
<1>6. split[m + 1] = Append(found, << >>)
  <2>1. m + 1 \in 1 .. m + 1 + n /\ (m + 1) - 1 = m
    BY <1>1
  <2> QED BY <1>2, <1>4, <1>5, <2>1
<1> DEFINE part(k) == SubSeq(text, 1, k)
           Found(k) == part(k) \in Seq(T) /\ split[m + 1 + k] = Append(found, part(k))
           I == {k \in Nat : k <= n => Found(k)}
<1>7. 0 \in I
  <2>1. part(0) = << >>
    BY <1>1
  <2>2. << >> \in Seq(T) /\ m + 1 + 0 = m + 1
    BY <1>1
  <2> HIDE DEF part
  <2>3. Found(0)
    BY <1>6, <2>1, <2>2
  <2> HIDE DEF Found
  <2> QED BY <2>3
<1>8. ASSUME NEW k \in I
      PROVE  k + 1 \in I
  <2>1. CASE k + 1 <= n
    <3> HIDE DEF Found
    <3>0. k \in Nat /\ k <= n /\ Found(k)
      BY <1>1, <2>1
    <3>1. /\ k \in Nat /\ k <= n /\ k + 1 \in 1 .. n
          /\ m + 1 + (k + 1) \in 1 .. m + 1 + n /\ (m + 1 + (k + 1)) - 1 = m + 1 + k
      <4> HIDE DEF I
      <4> QED BY <1>1, <2>1, <3>0
    <3>2. part(k) \in Seq(T) /\ split[m + 1 + k] = Append(found, part(k))
      BY <3>0 DEF Found
    <3>3. part(k + 1) = Append(part(k), text[k + 1])
      <4>1. /\ Len(part(k)) = k /\ \A i \in 1 .. k : part(k)[i] = text[i]
        <5>1. \A i \in 1 .. k : text[i] \in T
          BY <1>1, <1>3, <3>1
        <5> QED BY <3>1, <5>1, SubSeqProperties
      <4> DEFINE K == k + 1
      <4>2. K \in Nat /\ K = k + 1 /\ \A i \in 1 .. K : text[i] \in T
        BY <1>1, <1>3, <3>1
      <4> HIDE DEF K
      <4>3. part(K) \in Seq(T) /\ Len(part(K)) = K /\ \A i \in 1 .. K : part(K)[i] = text[i]
        BY <4>2, SubSeqProperties
      <4>4. /\ Append(part(k), text[k + 1]) \in Seq(T) /\ Len(Append(part(k), text[k + 1])) = k + 1
            /\ \A i \in 1 .. k : Append(part(k), text[k + 1])[i] = part(k)[i]
            /\ Append(part(k), text[k + 1])[k + 1] = text[k + 1]
        <5>1. text[k + 1] \in T
          BY <1>3, <3>1
        <5> HIDE DEF part
        <5> QED BY <3>2, <4>1, <5>1, AppendProperties
      <4> HIDE DEF part
      <4> DEFINE a == Append(part(k), text[k + 1])
                 b == part(K)
      <4>5. a = [i \in 1 .. K |-> a[i]] /\ b = [i \in 1 .. K |-> b[i]]
        <5> HIDE DEF a, b
        <5>1. a \in Seq(T) /\ b \in Seq(T) /\ Len(a) = K /\ Len(b) = K
          BY <4>2, <4>3, <4>4 DEF a, b
        <5> QED BY <5>1, LenProperties
      <4>6. \A i \in 1 .. K : a[i] = b[i]
        <5>1. \A i \in 1 .. K : i \in 1 .. k \/ i = k + 1
          BY <3>1, <4>2
        <5> QED BY <4>1, <4>2, <4>3, <4>4, <5>1
      <4> HIDE DEF a, b
      <4>7. a = b
        BY <4>5, <4>6
      <4> QED BY <4>2, <4>7 DEF a, b
    <3> HIDE DEF part
    <3>4. text[k + 1] \in T /\ text[k + 1] # "/" /\ q[m + 1 + (k + 1)] = text[k + 1]
      BY <1>2, <1>3, <3>1
    <3>5. /\ Front(Append(found, part(k))) = found
          /\ Last(Append(found, part(k))) = part(k)
      BY <1>4, <3>2, AppendedIsLast
    <3>6. split[m + 1 + (k + 1)] = Append(found, Append(part(k), text[k + 1]))
      BY <1>5, <3>1, <3>2, <3>4, <3>5
    <3>7. Append(part(k), text[k + 1]) \in Seq(T)
      BY <3>2, <3>4, AppendProperties
    <3>8. Found(k + 1)
      BY <3>3, <3>6, <3>7 DEF Found
    <3> QED BY <3>1, <3>8
  <2>2. CASE ~ (k + 1 <= n)
    <3> HIDE DEF Found
    <3>1. k \in Nat
      OBVIOUS
    <3> QED BY <2>2, <3>1
  <2> QED BY <2>1, <2>2
<1> HIDE DEF part, Found
<1>9. I = Nat
  <2> HIDE DEF I
  <2>1. I \in SUBSET Nat
    BY DEF I
  <2> QED BY <1>7, <1>8, <2>1, Induction
<1>10. split[m + 1 + n] = Append(found, part(n))
  <2>1. n \in I /\ n <= n
    BY <1>1, <1>9
  <2>2. Found(n)
    BY <2>1
  <2> QED BY <2>2 DEF Found
<1>11. part(n) = text
  BY <1>1, SubSeqFull DEF part, n
<1>12. Split(q) = split[m + 1 + n]
  BY <1>2 DEF Split, split
<1> QED BY <1>10, <1>11, <1>12 DEF q, found

\* Segments put together are a path that cleaning leaves alone and that falls
\* apart into them again.
LEMMA JoinedFallsApart ==
  ASSUME NEW T, "/" \in T, NEW texts \in Seq(Seq(T)),
         \A i \in 1 .. Len(texts) : IsSegment(texts[i], T)
  PROVE  /\ CleanPath(Joined(texts)) = Joined(texts)
         /\ Split(Joined(texts)) \in Seq(Seq(T))
         /\ Len(Split(Joined(texts))) = Len(texts) + 1
         /\ \A i \in 1 .. Len(texts) : Split(Joined(texts))[i + 1] = texts[i]
<1> DEFINE L == Len(texts)
           joined == JoinedUpTo(texts)
           Apart(path, n) ==
             /\ path \in Seq(T)
             /\ IsTidy(path)
             /\ Split(path) \in Seq(Seq(T))
             /\ Len(Split(path)) = n + 1
             /\ \A i \in 1 .. n : Split(path)[i + 1] = texts[i]
<1>1. L \in Nat
  BY LenProperties
<1>2. joined[0] = << >> /\ \A n \in 1 .. L : joined[n] = (joined[n - 1] \o <<"/">>) \o texts[n]
  BY JoinedByStep
<1> HIDE DEF joined
<1> DEFINE I == {n \in Nat : n <= L => Apart(joined[n], n)}
<1>3. 0 \in I
  <2>1. << >> \in Seq(T) /\ Len(<< >>) = 0 /\ DOMAIN << >> = {}
    OBVIOUS
  <2>2. IsTidy(<< >>)
    BY <2>1 DEF IsTidy
  <2>3. Split(<< >>) = <<<< >>>>
    BY <2>1, SplitByStep DEF Split
  <2>4. <<<< >>>> \in Seq(Seq(T)) /\ Len(<<<< >>>>) = 0 + 1
    BY <2>1
  <2>5. \A i \in 1 .. 0 : Split(<< >>)[i + 1] = texts[i]
    OBVIOUS
  <2>6. Split(<< >>) \in Seq(Seq(T)) /\ Len(Split(<< >>)) = 0 + 1
    BY <2>3, <2>4, Zenon
  <2>7. Apart(<< >>, 0)
    BY <2>1, <2>2, <2>5, <2>6, Zenon
  <2> HIDE DEF Apart
  <2> QED BY <1>2, <2>7
<1>4. ASSUME NEW n \in I
      PROVE  n + 1 \in I
  <2>1. CASE n + 1 <= L
    <3> DEFINE path == joined[n]
               text == texts[n + 1]
               q == (path \o <<"/">>) \o text
    <3>1. n + 1 \in 1 .. L /\ (n + 1) - 1 = n /\ n \in Nat /\ Apart(path, n)
      BY <1>1, <2>1
    <3>2. joined[n + 1] = q /\ IsSegment(text, T) /\ text \in Seq(T)
      BY <1>2, <3>1 DEF IsSegment
    <3> HIDE DEF path, text
    <3>3. Split(q) = Append(Split(path), text)
      BY <3>1, <3>2, SplitFindsSegment
    <3>4. q \in Seq(T) /\ IsTidy(q)
      BY <3>1, <3>2, SegmentAdded, SegmentKeepsTidy
    <3> HIDE DEF q
    <3>5. /\ Split(q) \in Seq(Seq(T)) /\ Len(Split(q)) = (n + 1) + 1
          /\ \A i \in 1 .. n + 1 : Split(q)[i] = Split(path)[i]
          /\ Split(q)[(n + 1) + 1] = text
      BY <3>1, <3>2, <3>3, AppendProperties
    <3>6. \A i \in 1 .. n + 1 : Split(q)[i + 1] = texts[i]
      <4>1. \A i \in 1 .. n : i + 1 \in 1 .. n + 1
        BY <3>1
      <4>2. \A i \in 1 .. n : Split(q)[i + 1] = texts[i]
        BY <3>1, <3>5, <4>1
      <4>3. \A i \in 1 .. n + 1 : i \in 1 .. n \/ i = n + 1
        BY <3>1
      <4> QED BY <3>5, <4>2, <4>3 DEF text
    <3>7. Apart(q, n + 1)
      BY <3>4, <3>5, <3>6
    <3> HIDE DEF Apart
    <3> QED BY <3>1, <3>2, <3>7
  <2>2. CASE ~ (n + 1 <= L)
    <3> HIDE DEF Apart
    <3> QED BY <2>2
  <2> QED BY <2>1, <2>2
<1>5. I = Nat
  <2> HIDE DEF I
  <2>1. I \in SUBSET Nat
    <3> HIDE DEF Apart
    <3> QED BY DEF I
  <2> QED BY <1>3, <1>4, <2>1, Induction
<1>6. Apart(Joined(texts), L)
  <2> HIDE DEF Apart
  <2>1. L \in I /\ L <= L
    BY <1>1, <1>5
  <2> QED BY <2>1 DEF Joined, joined
<1>7. CleanPath(Joined(texts)) = Joined(texts)
  BY <1>6, TidyIsClean, CleanStaysClean
<1> QED BY <1>6, <1>7

\* What every token of a path is.
PathTokens == STRING \cup {"/", "api", "v1"} \cup {Escapes[token] : token \in DOMAIN Escapes}

\* No two tokens are escaped alike, and none as what a path would choke on.
LEMMA EscapesTellApart ==
  /\ DOMAIN Escapes = {"/", ":", "NUL"}
  /\ \A token, other \in DOMAIN Escapes : Escapes[token] = Escapes[other] => token = other
  /\ \A token \in DOMAIN Escapes : Escapes[token] \notin {"/", "NUL"}
BY DEF Escapes

\* An escaped argument is a segment, no word of the api, and can be unescaped.
LEMMA EscapingIsUndone ==
  ASSUME NEW text, IsArgument(text)
  PROVE  /\ IsSegment(EncodeURIComponent(text), PathTokens)
         /\ Unescaped(EncodeURIComponent(text)) = text
         /\ \A word \in Words : EncodeURIComponent(text) # <<word>>
<1> DEFINE n == Len(text)
           escaped == EncodeURIComponent(text)
<1>1. /\ n \in Nat /\ n > 0 /\ DOMAIN text = 1 .. n /\ text = [i \in 1 .. n |-> text[i]]
      /\ \A i \in 1 .. n : text[i] \in STRING
  <2>1. text \in Seq(STRING) /\ text # << >>
    BY DEF IsArgument
  <2> QED BY <2>1, LenProperties, EmptySeq, ElementOfSeq
<1> DEFINE Escaped(token) == IF token \in DOMAIN Escapes THEN Escapes[token] ELSE token
<1>2. escaped = [i \in 1 .. n |-> Escaped(text[i])]
  BY <1>1 DEF EncodeURIComponent
<1>3. \A i \in 1 .. n : Escaped(text[i]) \in PathTokens \ {"/", "NUL"}
  BY <1>1, EscapesTellApart DEF PathTokens
<1>4. \A i \in 1 .. n : \A token \in DOMAIN Escapes : text[i] # Escapes[token]
  BY <1>1 DEF IsArgument
<1> HIDE DEF n
<1>5. escaped \in Seq(PathTokens) /\ Len(escaped) = n
  <2> HIDE DEF Escaped, escaped
  <2> DEFINE f == [i \in 1 .. n |-> Escaped(text[i])]
  <2>1. f \in [1 .. n -> PathTokens]
    BY <1>3
  <2> HIDE DEF f
  <2>2. f \in Seq(PathTokens) /\ Len(f) = n
    BY <1>1, <2>1, SeqDef, LenProperties
  <2> QED BY <1>2, <2>2 DEF f
<1>6. IsSegment(escaped, PathTokens)
  <2>1. DOMAIN escaped = 1 .. n
    BY <1>2
  <2> HIDE DEF escaped, Escaped
  <2> QED BY <1>1, <1>2, <1>3, <1>5, <2>1 DEF IsSegment
<1> DEFINE Back(token) == IF \E t \in DOMAIN Escapes : Escapes[t] = token
                          THEN CHOOSE t \in DOMAIN Escapes : Escapes[t] = token
                          ELSE token
<1>7. ASSUME NEW i \in 1 .. n
      PROVE  Back(Escaped(text[i])) = text[i]
  <2>1. CASE text[i] \in DOMAIN Escapes
    <3>1. Escaped(text[i]) = Escapes[text[i]]
      BY <2>1
    <3>2. \A token \in DOMAIN Escapes : Escapes[token] = Escapes[text[i]] => token = text[i]
      BY <2>1, EscapesTellApart
    <3> HIDE DEF Escaped
    <3> QED BY <2>1, <3>1, <3>2
  <2>2. CASE text[i] \notin DOMAIN Escapes
    <3>1. Escaped(text[i]) = text[i]
      BY <2>2
    <3> HIDE DEF Escaped
    <3> QED BY <1>4, <3>1
  <2> QED BY <2>1, <2>2
<1>8. Unescaped(escaped) = text
  <2>1. DOMAIN escaped = 1 .. n /\ \A i \in 1 .. n : escaped[i] = Escaped(text[i])
    BY <1>2
  <2>2. Unescaped(escaped) = [i \in DOMAIN escaped |-> Back(escaped[i])]
    BY Zenon DEF Unescaped
  <2> HIDE DEF escaped, Escaped, Back
  <2>3. \A i \in 1 .. n : Back(escaped[i]) = text[i]
    BY <1>7, <2>1
  <2> QED BY <1>1, <2>1, <2>2, <2>3
<1> HIDE DEF Back
<1>9. ASSUME NEW word \in Words, escaped = <<word>>
      PROVE  FALSE
  <2>1. n = 1 /\ Escaped(text[1]) = word
    <3>1. Len(<<word>>) = 1 /\ <<word>>[1] = word
      OBVIOUS
    <3>2. n = 1
      BY <1>5, <1>9, <3>1
    <3>3. escaped[1] = Escaped(text[1])
      <4>1. 1 \in 1 .. n
        BY <3>2
      <4> HIDE DEF Escaped, escaped
      <4> QED BY <1>2, <4>1
    <3> QED BY <1>9, <3>1, <3>2, <3>3
  <2>2. text[1] \notin DOMAIN Escapes
    BY <2>1, TablesAgree
  <2>3. text[1] = word
    BY <2>1, <2>2
  <2>4. text = <<word>>
    <3>1. text = [i \in 1 .. 1 |-> text[i]]
      BY <1>1, <2>1
    <3> HIDE DEF Escaped, escaped
    <3> QED BY <2>3, <3>1
  <2> QED BY <2>4 DEF IsArgument
<1> QED BY <1>6, <1>8, <1>9 DEF escaped

\* A plain text needs no escaping.
LEMMA PlainTextsStay ==
  ASSUME NEW text, IsArgument(text), \A i \in DOMAIN text : text[i] \notin DOMAIN Escapes
  PROVE  EncodeURIComponent(text) = text
<1>1. DOMAIN text = 1 .. Len(text) /\ text = [i \in 1 .. Len(text) |-> text[i]]
  <2>1. text \in Seq(STRING)
    BY DEF IsArgument
  <2> QED BY <2>1, LenProperties
<1> QED BY <1>1, Zenon DEF EncodeURIComponent

\* A slot is for one of the arguments.
LEMMA PlaceIsOneOfThem ==
  ASSUME NEW n \in Nat, NEW slots \in SUBSET (1 .. n), NEW i \in slots
  PROVE  /\ IsFiniteSet(slots) /\ Cardinality(slots) \in Nat
         /\ Place(slots, i) \in 1 .. Cardinality(slots)
<1> DEFINE upTo == {j \in slots : j <= i}
<1>1. IsFiniteSet(1 .. n)
  BY FS_Interval
<1>2. IsFiniteSet(slots)
  BY <1>1, FS_Subset
<1>3. IsFiniteSet(upTo) /\ Cardinality(upTo) <= Cardinality(slots)
  BY <1>2, FS_Subset
<1>4. i \in upTo
  OBVIOUS
<1>5. Cardinality(upTo) # 0
  <2> HIDE DEF upTo
  <2> QED BY <1>3, <1>4, FS_EmptySet
<1>6. Cardinality(upTo) \in Nat /\ Cardinality(slots) \in Nat
  <2> HIDE DEF upTo
  <2> QED BY <1>2, <1>3, FS_CardinalityType
<1> HIDE DEF upTo
<1>7. Cardinality(upTo) \in 1 .. Cardinality(slots)
  BY <1>3, <1>5, <1>6
<1> QED BY <1>2, <1>6, <1>7 DEF Place, upTo

\* The segments are those of an endpoint, with the arguments where it has them.
Spell(segments, name, args) ==
  LET template == EndpointOf(name).path
      slots == Wildcards(template)
  IN /\ segments \in Seq(Seq(PathTokens)) /\ Len(segments) = Len(template)
     /\ \A i \in 1 .. Len(template) : IsSegment(segments[i], PathTokens)
     /\ \A i \in slots : /\ Unescaped(segments[i]) = args[Place(slots, i)]
                         /\ \A word \in Words : segments[i] # <<word>>
     /\ \A i \in DOMAIN template \ slots : segments[i] = <<template[i]>>

SegmentsOf(name, args) ==
  LET path == OperationOf(name).path
  IN [i \in DOMAIN path |-> Segment(path, args, i)]

\* An operation puts the words of its endpoint and its arguments in their places.
LEMMA OperationsSpell ==
  ASSUME NEW name \in EndpointNames, NEW args \in ArgumentsFor(name), NothingToEscape(name, args)
  PROVE  Spell(SegmentsOf(name, args), name, args)
<1> DEFINE path == OperationOf(name).path
           template == EndpointOf(name).path
           slots == Wildcards(template)
           n == Len(path)
           segments == SegmentsOf(name, args)
<1>1. /\ path \in Seq(STRING) /\ template \in Seq(STRING) /\ Len(template) = n
      /\ Slots(path) = slots
      /\ \A i \in DOMAIN path \ Slots(path) : path[i] = template[i]
  BY TablesAgree DEF AsksItsEndpoint
<1>2. /\ n \in Nat /\ DOMAIN path = 1 .. n /\ DOMAIN template = 1 .. n
      /\ \A i \in 1 .. n : path[i] \in STRING
  <2> HIDE DEF path, template
  <2> QED BY <1>1, LenProperties, ElementOfSeq
<1>3. slots \in SUBSET (1 .. n)
  BY <1>2 DEF Wildcards
<1>4. /\ args \in [1 .. Cardinality(slots) -> Arguments]
      /\ \A i \in slots : path[i] = Raw =>
           \A token \in ToSet(args[Place(slots, i)]) : token \notin DOMAIN Escapes
  <2>1. Slots(path) = slots
    BY <1>1
  <2> QED BY <2>1 DEF ArgumentsFor, NothingToEscape
<1>5. segments = [i \in 1 .. n |-> Segment(path, args, i)]
  BY <1>2 DEF SegmentsOf
<1> HIDE DEF n, segments
<1>6. ASSUME NEW i \in slots
      PROVE  /\ i \in 1 .. n
             /\ IsSegment(segments[i], PathTokens)
             /\ Unescaped(segments[i]) = args[Place(slots, i)]
             /\ \A word \in Words : segments[i] # <<word>>
  <2> DEFINE text == args[Place(slots, i)]
  <2>1. IsArgument(text)
    <3> HIDE DEF slots
    <3>1. Place(slots, i) \in 1 .. Cardinality(slots)
      BY <1>2, <1>3, PlaceIsOneOfThem
    <3> QED BY <1>4, <3>1, ClientCallsAssumption
  <2>2. path[i] \in {Encoded, Raw}
    <3>1. i \in Slots(path)
      BY <1>1
    <3> QED BY <3>1 DEF Slots
  <2>3. Segment(path, args, i) = EncodeURIComponent(text)
    <3>1. CASE path[i] = Encoded
      <4>1. Segment(path, args, i) = EncodeURIComponent(args[Place(Slots(path), i)])
        BY <3>1 DEF Segment, Encoded, Raw
      <4> QED BY <1>1, <4>1
    <3>2. CASE path[i] = Raw
      <4>1. Segment(path, args, i) = args[Place(Slots(path), i)]
        BY <3>2 DEF Segment, Encoded, Raw
      <4>2. \A token \in ToSet(text) : token \notin DOMAIN Escapes
        BY <1>4, <3>2
      <4>3. EncodeURIComponent(text) = text
        <5> HIDE DEF text
        <5>1. \A k \in DOMAIN text : text[k] \in ToSet(text)
          BY DEF ToSet
        <5> QED BY <2>1, <4>2, <5>1, PlainTextsStay
      <4> QED BY <1>1, <4>1, <4>3
    <3> QED BY <2>2, <3>1, <3>2
  <2>4. i \in 1 .. n
    BY <1>3
  <2>5. segments[i] = EncodeURIComponent(text)
    <3> HIDE DEF path, text, slots
    <3> QED BY <1>5, <2>3, <2>4
  <2> HIDE DEF text
  <2>6. /\ IsSegment(segments[i], PathTokens)
        /\ Unescaped(segments[i]) = text
        /\ \A word \in Words : segments[i] # <<word>>
    BY <2>1, <2>5, EscapingIsUndone
  <2> QED BY <2>4, <2>6 DEF text
<1>7. ASSUME NEW i \in (1 .. n) \ slots
      PROVE  /\ IsSegment(segments[i], PathTokens)
             /\ segments[i] = <<template[i]>>
  <2>1. i \in DOMAIN path /\ path[i] \notin {Encoded, Raw}
    BY <1>1, <1>2 DEF Slots
  <2>2. Segment(path, args, i) = <<path[i]>>
    BY <2>1 DEF Segment
  <2>3. path[i] = template[i] /\ path[i] \in STRING
    BY <1>1, <1>2, <2>1
  <2>4. segments[i] = <<template[i]>>
    <3> HIDE DEF path, template, slots
    <3> QED BY <1>5, <2>2, <2>3
  <2>5. template[i] \in Words
    <3>1. i \in DOMAIN template \ Wildcards(template)
      BY <1>2
    <3> QED BY <3>1 DEF Words
  <2>6. template[i] \notin {"/", "NUL"}
    BY <2>5, TablesAgree, EscapesTellApart
  <2>7. IsSegment(<<template[i]>>, PathTokens)
    <3> DEFINE word == template[i]
    <3>1. word \in PathTokens
      BY <2>3 DEF PathTokens
    <3>2. word \notin {"/", "NUL"}
      BY <2>6
    <3> HIDE DEF word
    <3>3. <<word>> \in Seq(PathTokens) /\ Len(<<word>>) = 1 /\ DOMAIN <<word>> = 1 .. 1 /\ <<word>>[1] = word
      BY <3>1
    <3> QED BY <3>2, <3>3 DEF IsSegment, word
  <2> QED BY <2>4, <2>7
<1>8. \A i \in 1 .. n : IsSegment(segments[i], PathTokens)
  <2>1. \A i \in 1 .. n : i \in slots \/ i \in (1 .. n) \ slots
    OBVIOUS
  <2> HIDE DEF slots
  <2> QED BY <1>6, <1>7, <2>1
<1>9. segments \in Seq(Seq(PathTokens)) /\ Len(segments) = n
  <2>1. \A i \in 1 .. n : segments[i] \in Seq(PathTokens)
    BY <1>8 DEF IsSegment
  <2>2. segments \in [1 .. n -> Seq(PathTokens)]
    <3> HIDE DEF path
    <3> QED BY <1>5, <2>1
  <2> QED BY <1>2, <2>2, SeqDef, LenProperties
<1>10. \A i \in DOMAIN template \ slots : segments[i] = <<template[i]>>
  <2> HIDE DEF slots, template
  <2> QED BY <1>2, <1>7
<1>11. \A i \in slots : /\ Unescaped(segments[i]) = args[Place(slots, i)]
                        /\ \A word \in Words : segments[i] # <<word>>
  BY <1>6
<1>12. /\ segments \in Seq(Seq(PathTokens)) /\ Len(segments) = Len(template)
       /\ \A i \in 1 .. Len(template) : IsSegment(segments[i], PathTokens)
  BY <1>1, <1>8, <1>9, Zenon
<1> QED BY <1>10, <1>11, <1>12, Zenon DEF Spell, segments

\* An endpoint that fits as well spells out less.
LEMMA OthersSpellLess ==
  ASSUME NEW name \in EndpointNames, NEW args, NEW segments, Spell(segments, name, args),
         NEW other \in EndpointNames, Serves(other, EndpointOf(name).verb, segments),
         other # name
  PROVE  /\ Literals(name) \in Nat /\ Literals(other) \in Nat
         /\ Literals(other) < Literals(name)
<1> DEFINE n == Len(segments)
           path == EndpointOf(name).path
           less == EndpointOf(other).path
           spelled == DOMAIN path \ Wildcards(path)
           fewer == DOMAIN less \ Wildcards(less)
<1>1. /\ path \in Seq(STRING) /\ less \in Seq(STRING)
      /\ EndpointOf(name).verb = EndpointOf(other).verb /\ path = less => name = other
  BY TablesAgree DEF AsksItsEndpoint, EndpointsDiffer
<1>2. /\ n \in Nat /\ Len(path) = n /\ Len(less) = n
      /\ DOMAIN path = 1 .. n /\ DOMAIN less = 1 .. n /\ DOMAIN segments = 1 .. n
      /\ path = [i \in 1 .. n |-> path[i]] /\ less = [i \in 1 .. n |-> less[i]]
  <2>1. segments \in Seq(Seq(PathTokens)) /\ Len(segments) = Len(path)
    BY DEF Spell
  <2>2. Len(less) = Len(segments)
    BY DEF Serves
  <2> HIDE DEF path, less
  <2> QED BY <1>1, <2>1, <2>2, LenProperties
<1>3. EndpointOf(other).verb = EndpointOf(name).verb
  BY DEF Serves
<1>4. \A i \in 1 .. n : less[i] = Argument \/ segments[i] = <<less[i]>>
  BY <1>2 DEF Serves
<1>5. ASSUME NEW i \in fewer
      PROVE  i \in spelled /\ path[i] = less[i]
  <2>1. i \in 1 .. n /\ less[i] # Argument
    BY <1>2 DEF Wildcards
  <2>2. segments[i] = <<less[i]>>
    BY <1>4, <2>1
  <2>3. less[i] \in Words
    BY DEF Words
  <2>4. i \notin Wildcards(path)
    BY <2>2, <2>3 DEF Spell
  <2>5. i \in spelled
    BY <1>2, <2>1, <2>4
  <2>6. segments[i] = <<path[i]>>
    BY <2>5 DEF Spell
  <2>7. path[i] = less[i]
    <3> HIDE DEF path, less
    <3>1. <<path[i]>>[1] = path[i] /\ <<less[i]>>[1] = less[i]
      OBVIOUS
    <3> QED BY <2>2, <2>6, <3>1
  <2> QED BY <2>5, <2>7
<1>6. fewer # spelled
  <2> SUFFICES ASSUME fewer = spelled
               PROVE  FALSE
    OBVIOUS
  <2>1. \A i \in 1 .. n : path[i] = less[i]
    <3> SUFFICES ASSUME NEW i \in 1 .. n
                 PROVE  path[i] = less[i]
      OBVIOUS
    <3>1. CASE i \in fewer
      BY <1>5, <3>1
    <3>2. CASE i \notin fewer
      <4>1. i \in Wildcards(path) /\ i \in Wildcards(less)
        BY <1>2, <3>2
      <4> QED BY <4>1 DEF Wildcards
    <3> QED BY <3>1, <3>2
  <2>2. path = less
    <3> HIDE DEF path, less
    <3> QED BY <1>2, <2>1
  <2> QED BY <1>1, <1>3, <2>2
<1>7. IsFiniteSet(spelled) /\ fewer \subseteq spelled
  <2>1. IsFiniteSet(1 .. n)
    BY <1>2, FS_Interval
  <2>2. spelled \subseteq 1 .. n
    BY <1>2
  <2>3. fewer \subseteq spelled
    BY <1>5
  <2> HIDE DEF spelled, fewer
  <2> QED BY <2>1, <2>2, <2>3, FS_Subset
<1>8. /\ Cardinality(spelled) \in Nat /\ Cardinality(fewer) \in Nat
      /\ Cardinality(fewer) <= Cardinality(spelled)
      /\ Cardinality(fewer) = Cardinality(spelled) => fewer = spelled
  <2> HIDE DEF spelled, fewer
  <2> QED BY <1>7, FS_Subset, FS_CardinalityType
<1>9. Literals(name) = Cardinality(spelled) /\ Literals(other) = Cardinality(fewer)
  BY DEF Literals
<1> HIDE DEF spelled, fewer
<1> QED BY <1>6, <1>8, <1>9

\* The mirror node finds the endpoint that the segments spell.
LEMMA RouteFinds ==
  ASSUME NEW name \in EndpointNames, NEW args, NEW segments, Spell(segments, name, args)
  PROVE  Route(EndpointOf(name).verb, segments) = name
<1> DEFINE verb == EndpointOf(name).verb
           path == EndpointOf(name).path
           fitting == {other \in EndpointNames : Serves(other, verb, segments)}
<1>1. path \in Seq(STRING)
  BY TablesAgree DEF AsksItsEndpoint
<1>2. Serves(name, verb, segments)
  <2>1. segments \in Seq(Seq(PathTokens)) /\ Len(path) = Len(segments)
    BY DEF Spell
  <2>2. DOMAIN path = DOMAIN segments
    <3> HIDE DEF path
    <3> QED BY <1>1, <2>1, LenProperties
  <2>3. \A i \in DOMAIN segments : path[i] = Argument \/ segments[i] = <<path[i]>>
    BY <2>2 DEF Spell, Wildcards
  <2> QED BY <2>1, <2>3 DEF Serves
<1>3. \A other \in fitting : other # name =>
        /\ Literals(name) \in Nat /\ Literals(other) \in Nat
        /\ Literals(other) < Literals(name)
  BY OthersSpellLess
<1>4. Literals(name) \in Nat
  <2> DEFINE spelled == DOMAIN path \ Wildcards(path)
  <2>1. spelled \subseteq 1 .. Len(path) /\ Len(path) \in Nat
    <3> HIDE DEF path
    <3> QED BY <1>1, LenProperties
  <2> HIDE DEF spelled
  <2>2. IsFiniteSet(1 .. Len(path))
    <3> HIDE DEF path
    <3> QED BY <2>1, FS_Interval
  <2>3. Cardinality(spelled) \in Nat
    <3> HIDE DEF path
    <3> QED BY <2>1, <2>2, FS_Subset, FS_CardinalityType
  <2> QED BY <2>3 DEF Literals, spelled
<1>5. name \in fitting
  BY <1>2
<1> HIDE DEF fitting
<1>6. \A other \in fitting : Literals(name) >= Literals(other)
  BY <1>3, <1>4
<1>7. \A best \in fitting : (\A other \in fitting : Literals(best) >= Literals(other)) => best = name
  <2>1. \A a, b \in Nat : a < b => ~ (a >= b)
    OBVIOUS
  <2> QED BY <1>3, <1>5, <2>1
<1>8. Route(verb, segments) =
        CHOOSE best \in fitting : \A other \in fitting : Literals(best) >= Literals(other)
  BY <1>5 DEF Route, fitting
<1> QED BY <1>5, <1>6, <1>7, <1>8

\* A request for what a call says arrives as it was meant.
LEMMA RequestsArrive ==
  ASSUME NEW name \in EndpointNames, NEW args \in ArgumentsFor(name), NothingToEscape(name, args),
         NEW request,
         request.verb = OperationOf(name).verb,
         request.path = CleanPath(Path(OperationOf(name), args))
  PROVE  Served(request) = name /\ Spell(Segments(request.path), name, args)
<1> DEFINE segments == SegmentsOf(name, args)
           front == <<<<"api">>, <<"v1">>>>
           texts == front \o segments
           L == Len(segments)
           T == PathTokens
           found == Split(Joined(texts))
<1>1. Spell(segments, name, args)
  BY OperationsSpell
<1>2. /\ segments \in Seq(Seq(T)) /\ L \in Nat
      /\ \A i \in 1 .. L : IsSegment(segments[i], T)
      /\ segments = [i \in 1 .. L |-> segments[i]]
  <2> HIDE DEF segments
  <2> QED BY <1>1, LenProperties DEF Spell
<1>3. /\ "/" \in T
      /\ front \in Seq(Seq(T)) /\ Len(front) = 2
      /\ IsSegment(front[1], T) /\ IsSegment(front[2], T)
  <2>1. "/" \in T /\ "api" \in T /\ "v1" \in T
    BY DEF PathTokens
  <2> HIDE DEF T
  <2>2. \A word \in T : word \notin {"/", "NUL"} => IsSegment(<<word>>, T)
    BY DEF IsSegment
  <2>3. IsSegment(<<"api">>, T) /\ IsSegment(<<"v1">>, T)
    BY <2>1, <2>2
  <2> QED BY <2>1, <2>3
<1>4. Path(OperationOf(name), args) = Joined(texts)
  BY DEF Path, SegmentsOf
<1> HIDE DEF segments, front, T
<1>5. /\ texts \in Seq(Seq(T)) /\ Len(texts) = 2 + L
      /\ \A i \in 1 .. 2 + L : texts[i] = IF i <= 2 THEN front[i] ELSE segments[i - 2]
  <2>1. /\ front \o segments \in Seq(Seq(T))
        /\ Len(front \o segments) = Len(front) + Len(segments)
        /\ \A i \in 1 .. Len(front) + Len(segments) : (front \o segments)[i] =
             IF i <= Len(front) THEN front[i] ELSE segments[i - Len(front)]
    BY <1>2, <1>3, ConcatProperties
  <2> QED BY <1>3, <2>1
<1> HIDE DEF texts, L
<1>6. /\ \A i \in 1 .. 2 + L : IsSegment(texts[i], T)
      /\ \A i \in 1 .. L : texts[i + 2] = segments[i]
  <2>1. \A i \in 1 .. 2 + L : (i = 1 /\ i <= 2) \/ (i = 2 /\ i <= 2) \/ (i - 2 \in 1 .. L /\ ~ (i <= 2))
    BY <1>2
  <2>2. \A i \in 1 .. L : i + 2 \in 1 .. 2 + L /\ ~ (i + 2 <= 2) /\ (i + 2) - 2 = i
    BY <1>2
  <2>3. \A i \in 1 .. 2 + L : IsSegment(texts[i], T)
    <3> SUFFICES ASSUME NEW i \in 1 .. 2 + L
                 PROVE  IsSegment(texts[i], T)
      OBVIOUS
    <3>1. texts[i] = IF i <= 2 THEN front[i] ELSE segments[i - 2]
      BY <1>5
    <3> QED BY <1>2, <1>3, <2>1, <3>1
  <2> QED BY <1>5, <2>2, <2>3
<1>7. /\ CleanPath(Joined(texts)) = Joined(texts)
      /\ found \in Seq(Seq(T)) /\ Len(found) = Len(texts) + 1
      /\ \A i \in 1 .. Len(texts) : found[i + 1] = texts[i]
  <2>1. \A i \in 1 .. Len(texts) : IsSegment(texts[i], T)
    BY <1>5, <1>6
  <2> QED BY <1>3, <1>5, <2>1, JoinedFallsApart
<1> HIDE DEF found
<1>8. \A i \in 1 .. L : found[i + 3] = segments[i]
  <2> DEFINE m == Len(texts)
  <2>1. L \in Nat /\ m = 2 + L
    BY <1>2, <1>5
  <2> HIDE DEF m
  <2>2. \A i \in 1 .. L : i + 2 \in 1 .. m /\ (i + 2) + 1 = i + 3
    BY <2>1
  <2> QED BY <1>6, <1>7, <2>2 DEF m
<1> DEFINE n == L + 3
           back == SubSeq(found, 4, n)
<1>9. Len(found) = n /\ n \in Nat
  BY <1>2, <1>5, <1>7
<1>10. back \in Seq(Seq(T)) /\ Len(back) = L /\ \A i \in 1 .. L : back[i] = found[i + 3]
  <2>1. \A i \in 4 .. n : found[i] \in Seq(T)
    <3>1. \A i \in 4 .. n : i \in 1 .. Len(found)
      BY <1>2, <1>9
    <3> QED BY <1>7, <3>1, ElementOfSeq
  <2>2. n \in Int /\ n = L + 3
    BY <1>9
  <2> HIDE DEF n
  <2>3. /\ back \in Seq(Seq(T))
        /\ Len(back) = IF 4 <= n THEN n - 4 + 1 ELSE 0
        /\ \A i \in 1 .. n - 4 + 1 : back[i] = found[4 + i - 1]
    BY <2>1, <2>2, SubSeqProperties
  <2>4. \A i \in 1 .. L : 4 + i - 1 = i + 3 /\ i \in 1 .. n - 4 + 1
    BY <1>2, <2>2
  <2>5. Len(back) = L
    BY <1>2, <2>2, <2>3
  <2> HIDE DEF back
  <2> QED BY <2>3, <2>4, <2>5
<1> HIDE DEF back, n
<1>11. back = segments
  <2>1. back = [i \in 1 .. L |-> back[i]]
    BY <1>10, LenProperties
  <2> QED BY <1>2, <1>8, <1>10, <2>1
<1>12. Segments(request.path) = segments
  BY <1>4, <1>7, <1>9, <1>11 DEF Segments, found, back
<1>13. request.verb = EndpointOf(name).verb
  BY TablesAgree DEF AsksItsEndpoint
<1> QED BY <1>1, <1>12, <1>13, RouteFinds DEF Served

\* A call conveys what is meant: the endpoint, its arguments, and as parameters
\* the constraints, but for a limit that nobody asked for and for parameters
\* that buildUrl does not declare.
Conveys(call, m) ==
  LET name == <<call.resource, call.op>>
  IN /\ name \in EndpointNames /\ m.endpoint = name
     /\ call.args \in ArgumentsFor(name) /\ m.args = call.args
     /\ ~ OperationOf(name).filtered => DOMAIN m.constraints = {}
     /\ DOMAIN m.constraints \subseteq DOMAIN call.params
     /\ \A key \in DOMAIN m.constraints : m.constraints[key] # {}
     /\ \A key \in DOMAIN call.params \ m.undeclared :
          /\ IsParameter(call.params[key]) /\ IsQueryParamValue(call.params[key])
          /\ \/ Asked(call.params[key]) = IF key \in DOMAIN m.constraints THEN m.constraints[key] ELSE {}
             \/ key = "limit" /\ key \notin DOMAIN m.constraints

\* So does a request.
Arrives(request, m) ==
  LET segments == Segments(request.path)
      slots == Wildcards(EndpointOf(m.endpoint).path)
      query == request.query
      asked == m.constraints
  IN /\ m.endpoint \in EndpointNames
     /\ Len(m.args) = Cardinality(slots)
     /\ NothingToEscape(m.endpoint, m.args) =>
          /\ Served(request) = m.endpoint
          /\ \A i \in slots : Unescaped(segments[i]) = m.args[Place(slots, i)]
     /\ DOMAIN asked \ m.undeclared \subseteq DOMAIN query
     /\ \A key \in DOMAIN query \ m.undeclared :
          \/ ToSet(query[key]) = (IF key \in DOMAIN asked THEN asked[key] ELSE {})
          \/ key = "limit" /\ key \notin DOMAIN asked

\* A parameter is written as often as it asks for something.
LEMMA QueriesSay ==
  ASSUME NEW params, NEW key \in DOMAIN params,
         IsParameter(params[key]), IsQueryParamValue(params[key])
  PROVE  /\ Asked(params[key]) # {} => key \in DOMAIN BuildQuery(params)
         /\ key \in DOMAIN BuildQuery(params) => ToSet(BuildQuery(params)[key]) = Asked(params[key])
<1> DEFINE p == params[key]
           query == BuildQuery(params)
           items == WithOperator(p.items)
           written == CASE p.is = "array" -> [i \in DOMAIN items |-> Text(items[i])]
                        [] p.is = "filter" -> <<ObjectText>>
                        [] OTHER -> <<Text(p)>>
<1>1. key \in DOMAIN query <=> p.is \notin {"undefined", "empty"}
  BY DEF BuildQuery
<1>2. Asked(p) # {} => p.is \notin {"undefined", "empty"}
  BY DEF Asked
<1>3. key \in DOMAIN query => query[key] = written
  BY DEF BuildQuery
<1> HIDE DEF query, p
<1>4. CASE p.is \in {"scalar", "operator"}
  <2> DEFINE text == Text(p)
  <2>1. written = <<text>> /\ Asked(p) = {text}
    BY <1>4 DEF Asked
  <2> HIDE DEF written, text
  <2>2. ToSet(<<text>>) = {text}
    BY DEF ToSet
  <2> QED BY <1>1, <1>2, <1>3, <2>1, <2>2 DEF p, query
<1>5. CASE p.is = "array"
  <2>1. items = p.items
    <3>1. /\ p.items \in Seq(Items)
          /\ {i \in DOMAIN p.items : p.items[i].is = "operator"} = DOMAIN p.items
      BY <1>5 DEF IsParameter, IsQueryParamValue, p
    <3> QED BY <3>1, AllAreChosen DEF WithOperator
  <2>2. written = [i \in DOMAIN p.items |-> Text(p.items[i])]
    BY <1>5, <2>1
  <2>3. Asked(p) = {Text(item) : item \in ToSet(p.items)}
    BY <1>5 DEF Asked
  <2> HIDE DEF written
  <2>4. ToSet(written) = {Text(item) : item \in ToSet(p.items)}
    BY <2>2 DEF ToSet
  <2> QED BY <1>1, <1>2, <1>3, <2>3, <2>4 DEF p, query
<1>6. CASE p.is \in {"undefined", "empty"}
  BY <1>1, <1>2, <1>6 DEF p, query
<1>7. p.is \in {"undefined", "empty", "scalar", "operator", "array"}
  BY DEF IsQueryParamValue, ParameterKinds, p
<1> QED BY <1>4, <1>5, <1>6, <1>7 DEF p

\* What a call conveys arrives.
LEMMA CallsArrive ==
  ASSUME NEW call, NEW m, Conveys(call, m)
  PROVE  /\ Arrives(Request(call), m)
         /\ OperationOf(<<call.resource, call.op>>) = OperationOf(m.endpoint)
<1> DEFINE name == <<call.resource, call.op>>
           op == OperationOf(name)
           request == Request(call)
           slots == Wildcards(EndpointOf(name).path)
           query == BuildQuery(call.params)
           asked == m.constraints
<1>1. name \in EndpointNames /\ m.endpoint = name /\ m.args = call.args /\ call.args \in ArgumentsFor(name)
  BY DEF Conveys
<1>2. /\ request.verb = op.verb /\ request.path = CleanPath(Path(op, call.args))
      /\ request.query = IF op.filtered THEN query ELSE << >>
  BY DEF Request
<1> HIDE DEF request, op, name
<1>3. NothingToEscape(name, m.args) =>
        Served(request) = name /\ Spell(Segments(request.path), name, call.args)
  BY <1>1, <1>2, RequestsArrive DEF op
<1>4. Len(m.args) = Cardinality(slots)
  <2>1. Slots(op.path) = slots
    BY <1>1, TablesAgree DEF AsksItsEndpoint, op
  <2>2. m.args \in [1 .. Cardinality(slots) -> Arguments]
    BY <1>1, <2>1 DEF ArgumentsFor, op
  <2>3. Cardinality(slots) \in Nat
    <3> DEFINE path == EndpointOf(name).path
    <3>1. path \in Seq(STRING)
      BY <1>1, TablesAgree DEF AsksItsEndpoint
    <3>2. DOMAIN path = 1 .. Len(path) /\ Len(path) \in Nat
      <4> HIDE DEF path
      <4> QED BY <3>1, LenProperties
    <3>3. slots \subseteq 1 .. Len(path)
      BY <3>2 DEF Wildcards
    <3> HIDE DEF slots, path
    <3>4. IsFiniteSet(1 .. Len(path))
      BY <3>2, FS_Interval
    <3> QED BY <3>3, <3>4, FS_Subset, FS_CardinalityType
  <2> HIDE DEF slots
  <2> QED BY <2>2, <2>3, LenProperties, SeqDef
<1>5. NothingToEscape(name, m.args) =>
        \A i \in slots : Unescaped(Segments(request.path)[i]) = m.args[Place(slots, i)]
  BY <1>1, <1>3 DEF Spell
<1>6. /\ \A key \in DOMAIN asked : asked[key] # {} /\ key \in DOMAIN call.params
      /\ ~ op.filtered => DOMAIN asked = {}
      /\ \A key \in DOMAIN call.params \ m.undeclared :
          /\ IsParameter(call.params[key]) /\ IsQueryParamValue(call.params[key])
          /\ \/ Asked(call.params[key]) = IF key \in DOMAIN asked THEN asked[key] ELSE {}
             \/ key = "limit" /\ key \notin DOMAIN asked
  BY DEF Conveys, op, name
<1>7. /\ DOMAIN asked \ m.undeclared \subseteq DOMAIN request.query
      /\ \A key \in DOMAIN request.query \ m.undeclared :
          \/ ToSet(request.query[key]) = (IF key \in DOMAIN asked THEN asked[key] ELSE {})
          \/ key = "limit" /\ key \notin DOMAIN asked
  <2>1. CASE op.filtered
    <3>1. request.query = query
      BY <1>2, <2>1
    <3>2. \A key \in DOMAIN query : key \in DOMAIN call.params
      BY DEF BuildQuery
    <3> HIDE DEF query
    <3>3. \A key \in DOMAIN query \ m.undeclared : ToSet(query[key]) = Asked(call.params[key])
      BY <1>6, <3>2, QueriesSay DEF query
    <3>4. \A key \in DOMAIN asked \ m.undeclared : key \in DOMAIN query
      <4> SUFFICES ASSUME NEW key \in DOMAIN asked \ m.undeclared
                   PROVE  key \in DOMAIN query
        OBVIOUS
      <4>1. key \in DOMAIN call.params /\ Asked(call.params[key]) # {}
        BY <1>6
      <4> QED BY <1>6, <4>1, QueriesSay DEF query
    <3> HIDE DEF asked
    <3> QED BY <1>6, <3>1, <3>2, <3>3, <3>4
  <2>2. CASE ~ op.filtered
    <3>1. request.query = << >> /\ DOMAIN asked = {}
      BY <1>2, <1>6, <2>2
    <3> HIDE DEF asked
    <3> QED BY <3>1
  <2> QED BY <2>1, <2>2
<1> QED BY <1>1, <1>3, <1>4, <1>5, <1>7 DEF Arrives, request, name

\* A method's call conveys what its caller says.
LEMMA MethodsConvey ==
  ASSUME NEW name \in EndpointNames, NEW args \in ArgumentsFor(name), NEW params \in ParametersFor(name)
  PROVE  Conveys(Call(name[1], name[2], args, params),
                 Meant(name, args, Constraints(params), Undeclared(params)))
<1> DEFINE call == Call(name[1], name[2], args, params)
           asked == Constraints(params)
           m == Meant(name, args, asked, Undeclared(params))
<1>1. <<call.resource, call.op>> = name /\ call.args = args /\ call.params = params
  <2>1. name = <<name[1], name[2]>>
    BY DEF EndpointNames
  <2> QED BY <2>1 DEF Call
<1>2. /\ m.endpoint = name /\ m.args = args /\ m.constraints = asked
      /\ m.undeclared = {key \in DOMAIN params : ~ IsQueryParamValue(params[key])}
  BY DEF Meant, Undeclared
<1>3. /\ DOMAIN asked = {key \in DOMAIN params : Asked(params[key]) # {}}
      /\ \A key \in DOMAIN asked : asked[key] = Asked(params[key])
  BY DEF Constraints
<1>4. \A key \in DOMAIN params : IsParameter(params[key])
  BY ClientCallsAssumption DEF ParametersFor
<1>5. ~ OperationOf(name).filtered => DOMAIN params = {}
  BY DEF ParametersFor
<1> HIDE DEF asked, call, m
<1> QED BY <1>1, <1>2, <1>3, <1>4, <1>5 DEF Conveys, asked, call, m

\* A plain value is a parameter, and asks for itself.
LEMMA ScalarsAreDeclared ==
  ASSUME NEW text
  PROVE  /\ Asked(Scalar(text)) = {text}
         /\ IsParameter(Scalar(text)) /\ IsQueryParamValue(Scalar(text))
BY DEF Asked, Text, Scalar, IsParameter, IsQueryParamValue, ParameterKinds

\* A tool's call conveys what the tool promises.
LEMMA ToolsConvey ==
  ASSUME NEW tool \in DOMAIN Promises, NEW input \in InputsFor(tool)
  PROVE  Conveys(UseTool(tool, input), MeantByTool(tool, input))
<1> DEFINE t == Tools[tool]
           p == Promises[tool]
           ids == Ids(p)
           filters == ((p.required \cup p.optional) \ ids) \ {"limit"}
           given == DOMAIN input \ ids
           call == UseTool(tool, input)
           m == MeantByTool(tool, input)
           op == OperationOf(p.endpoint)
           Given(name) == IF name \in DOMAIN input THEN Scalar(input[name]) ELSE Missing
           Behind(key) == CHOOSE name \in given : Filter(name) = key
           limits == IF t.limit = "none" THEN {} ELSE {"limit"}
<1>1. KeepsItsPromise(tool)
  BY TablesAgree
<1>2. /\ p.endpoint = <<t.resource, t.op>> /\ p.endpoint \in EndpointNames
      /\ \/ ids = {} /\ t.args = << >>
         \/ \E name \in ids : ids = {name} /\ t.args = <<name>>
      /\ Cardinality(Slots(op.path)) = Len(t.args)
      /\ \A i \in Slots(op.path) : op.path[i] # Raw
  BY <1>1 DEF KeepsItsPromise
<1>3. /\ DOMAIN t.filters = {Filter(name) : name \in filters}
      /\ \A name \in filters : t.filters[Filter(name)] = name /\ Filter(name) # "limit"
      /\ t.limit \in {"input", "one", "none"}
      /\ "limit" \notin p.required /\ (t.limit = "input" <=> "limit" \in p.optional)
      /\ ~ op.filtered => t.limit = "none" /\ filters = {}
  BY <1>1 DEF KeepsItsPromise
<1>4. /\ p.required \subseteq DOMAIN input /\ DOMAIN input \subseteq p.required \cup p.optional
      /\ \A name \in DOMAIN input : input[name] \in Arguments
  BY DEF InputsFor
<1>5. ids \subseteq p.required
  BY DEF Ids
<1>6. /\ call.resource = t.resource /\ call.op = t.op
      /\ call.args = [i \in DOMAIN t.args |-> input[t.args[i]]]
      /\ call.params = [k \in DOMAIN t.filters \cup limits |->
             IF k \in DOMAIN t.filters THEN Given(t.filters[k])
             ELSE IF t.limit = "one" THEN Scalar(<<"1">>) ELSE Given("limit")]
  BY DEF UseTool, Call
<1>7. /\ m.endpoint = p.endpoint /\ m.undeclared = {}
      /\ m.args = IF ids = {} THEN << >> ELSE <<input[CHOOSE name \in ids : TRUE]>>
      /\ m.constraints = [key \in {Filter(name) : name \in given} |-> {input[Behind(key)]}]
  BY DEF MeantByTool, Meant
<1>8. Filter("limit") = "limit"
  BY DEF Filter
<1> HIDE DEF t, p, ids, call, m, op, Given
<1>9. call.args = m.args /\ call.args \in ArgumentsFor(p.endpoint)
  <2>1. CASE ids = {} /\ t.args = << >>
    <3>1. call.args = << >> /\ m.args = << >> /\ Len(t.args) = 0
      BY <1>6, <1>7, <2>1
    <3>2. call.args \in [1 .. Len(t.args) -> Arguments]
      BY <3>1
    <3> QED BY <1>2, <3>1, <3>2 DEF ArgumentsFor, op
  <2>2. ASSUME NEW name \in ids, ids = {name}, t.args = <<name>>
        PROVE  call.args = m.args /\ call.args \in ArgumentsFor(p.endpoint)
    <3>1. name \in DOMAIN input /\ input[name] \in Arguments
      BY <1>4, <1>5
    <3>2. (CHOOSE other \in ids : TRUE) = name
      BY <2>2
    <3>3. m.args = <<input[name]>>
      BY <1>7, <2>2, <3>2
    <3>4. call.args = <<input[name]>> /\ Len(t.args) = 1
      BY <1>6, <2>2
    <3>5. call.args \in [1 .. Len(t.args) -> Arguments]
      BY <3>1, <3>4
    <3> QED BY <1>2, <3>3, <3>4, <3>5 DEF ArgumentsFor, op
  <2> QED BY <1>2, <2>1, <2>2
<1>10. \A name \in given : name = "limit" \/ name \in filters
  BY <1>4
<1>11. \A name, other \in filters \cup {"limit"} : Filter(name) = Filter(other) => name = other
  BY <1>3, <1>8
<1>12. /\ DOMAIN m.constraints = {Filter(name) : name \in given}
       /\ \A name \in given : m.constraints[Filter(name)] = {input[name]}
  <2>1. DOMAIN m.constraints = {Filter(name) : name \in given}
    BY <1>7
  <2>2. ASSUME NEW name \in given
        PROVE  m.constraints[Filter(name)] = {input[name]}
    <3>1. Behind(Filter(name)) = name
      BY <1>10, <1>11
    <3> HIDE DEF Behind
    <3> QED BY <1>7, <3>1
  <2> QED BY <2>1, <2>2
<1> DEFINE asked == m.constraints
           params == call.params
<1>13. \A name \in (filters \cup {"limit"}) \ given : Filter(name) \notin DOMAIN asked
  BY <1>10, <1>11, <1>12
<1>14. /\ DOMAIN params = DOMAIN t.filters \cup limits
       /\ \A name \in filters : params[Filter(name)] = Given(name)
       /\ t.limit = "input" => params["limit"] = Given("limit")
       /\ t.limit = "one" => params["limit"] = Scalar(<<"1">>)
  <2>1. \A name \in filters : Filter(name) \in DOMAIN t.filters
    BY <1>3
  <2>2. "limit" \notin DOMAIN t.filters
    BY <1>3
  <2> HIDE DEF filters
  <2> QED BY <1>3, <1>6, <2>1, <2>2
<1>15. \A name \in filters \cup {"limit"} :
         /\ IsParameter(Given(name)) /\ IsQueryParamValue(Given(name))
         /\ Asked(Given(name)) = IF Filter(name) \in DOMAIN asked THEN asked[Filter(name)] ELSE {}
  <2> SUFFICES ASSUME NEW name \in filters \cup {"limit"}
               PROVE  /\ IsParameter(Given(name)) /\ IsQueryParamValue(Given(name))
                      /\ Asked(Given(name)) =
                           IF Filter(name) \in DOMAIN asked THEN asked[Filter(name)] ELSE {}
    OBVIOUS
  <2>1. CASE name \in DOMAIN input
    <3>1. name \in given
      BY <1>3, <1>5, <2>1
    <3>2. Given(name) = Scalar(input[name])
      BY <2>1 DEF Given
    <3>3. /\ Asked(Scalar(input[name])) = {input[name]}
          /\ IsParameter(Scalar(input[name])) /\ IsQueryParamValue(Scalar(input[name]))
      BY ScalarsAreDeclared
    <3> QED BY <1>12, <3>1, <3>2, <3>3
  <2>2. CASE name \notin DOMAIN input
    <3>1. Filter(name) \notin DOMAIN asked
      BY <1>13, <2>2
    <3>2. Given(name) = Missing
      BY <2>2 DEF Given
    <3>3. Asked(Missing) = {} /\ IsParameter(Missing) /\ IsQueryParamValue(Missing)
      BY DEF Asked, Missing, IsParameter, IsQueryParamValue, ParameterKinds
    <3> QED BY <3>1, <3>2, <3>3
  <2> QED BY <2>1, <2>2
<1>16. \A key \in DOMAIN params :
         /\ IsParameter(params[key]) /\ IsQueryParamValue(params[key])
         /\ \/ Asked(params[key]) = IF key \in DOMAIN asked THEN asked[key] ELSE {}
            \/ key = "limit" /\ key \notin DOMAIN asked
  <2> SUFFICES ASSUME NEW key \in DOMAIN params
               PROVE  /\ IsParameter(params[key]) /\ IsQueryParamValue(params[key])
                      /\ \/ Asked(params[key]) = IF key \in DOMAIN asked THEN asked[key] ELSE {}
                         \/ key = "limit" /\ key \notin DOMAIN asked
    OBVIOUS
  <2>1. CASE key \in DOMAIN t.filters
    <3>1. PICK name \in filters : key = Filter(name)
      BY <1>3, <2>1
    <3> HIDE DEF asked, params, filters
    <3> QED BY <1>14, <1>15, <3>1
  <2>2. CASE key = "limit" /\ t.limit = "input"
    <3> HIDE DEF asked, params, filters
    <3> QED BY <1>8, <1>14, <1>15, <2>2
  <2>3. CASE key = "limit" /\ t.limit = "one"
    <3>1. "limit" \notin given
      BY <1>3, <1>4, <2>3
    <3>2. "limit" \notin DOMAIN asked
      BY <1>8, <1>13, <3>1
    <3>3. IsParameter(params[key]) /\ IsQueryParamValue(params[key])
      BY <1>14, <2>3, ScalarsAreDeclared
    <3> QED BY <2>3, <3>2, <3>3
  <2>4. key \in DOMAIN t.filters \/ (key = "limit" /\ t.limit \in {"input", "one"})
    BY <1>3, <1>14
  <2> QED BY <2>1, <2>2, <2>3, <2>4
<1>17. DOMAIN asked \subseteq DOMAIN params /\ \A key \in DOMAIN asked : asked[key] # {}
  <2> SUFFICES ASSUME NEW name \in given
               PROVE  Filter(name) \in DOMAIN params /\ asked[Filter(name)] # {}
    BY <1>12
  <2>1. asked[Filter(name)] # {}
    BY <1>12
  <2>2. CASE name = "limit"
    <3>1. t.limit = "input"
      BY <1>3, <1>4, <2>2
    <3> QED BY <1>8, <1>14, <2>1, <2>2, <3>1
  <2>3. CASE name # "limit"
    <3>1. name \in filters
      BY <1>10, <2>3
    <3> QED BY <1>3, <1>14, <2>1, <3>1
  <2> QED BY <2>2, <2>3
<1>18. ~ op.filtered => DOMAIN asked = {}
  <2>1. ~ op.filtered => given = {}
    BY <1>3, <1>4, <1>10
  <2> QED BY <1>12, <2>1
<1>19. <<call.resource, call.op>> = p.endpoint /\ m.endpoint = p.endpoint /\ p.endpoint \in EndpointNames
  BY <1>2, <1>6, <1>7
<1> HIDE DEF asked, params
<1> QED BY <1>9, <1>16, <1>17, <1>18, <1>19 DEF Conveys, asked, params, call, m, op

\* What the client holds of a call says what its caller does.
CallSays(f, v, m) ==
  /\ f = "tool" => v.tool \in DOMAIN Promises /\ v.input \in InputsFor(v.tool)
                   /\ m = MeantByTool(v.tool, v.input)
  /\ f = "call" => Conveys(v, m)
  /\ f = "request" => Arrives(v.sent, m) /\ v.expects = OperationOf(m.endpoint)

Called == CallSays(form, value, meant)

\* Callers say what they mean.
LEMMA CalledInit ==
  ASSUME Init \/ ClientInit
  PROVE  Called
<1>1. CASE Init
  <2>1. form \notin {"tool", "call", "request"}
    BY <1>1, ConversionsAssumption DEF Init, IdKinds
  <2> QED BY <2>1 DEF Called, CallSays
<1>2. CASE ClientInit
  <2>1. ASSUME NEW tool \in DOMAIN Promises, NEW input \in InputsFor(tool),
               form = "tool", value = [tool |-> tool, input |-> input],
               meant = MeantByTool(tool, input)
        PROVE  Called
    BY <2>1 DEF Called, CallSays
  <2>2. ASSUME NEW name \in EndpointNames, NEW args \in ArgumentsFor(name),
               NEW params \in ParametersFor(name), form = "call",
               value = Call(name[1], name[2], args, params),
               meant = Meant(name, args, Constraints(params), Undeclared(params))
        PROVE  Called
    <3>1. Conveys(value, meant)
      BY <2>2, MethodsConvey
    <3> QED BY <2>2, <3>1 DEF Called, CallSays
  <2> QED BY <1>2, <2>1, <2>2 DEF ClientInit
<1> QED BY <1>1, <1>2

\* No step loses any of it.
LEMMA CalledStep ==
  ASSUME Called, [Next \/ ClientNext]_vars
  PROVE  Called'
<1>1. CASE CallTool
  <2>1. /\ form = "tool" /\ form' = "call" /\ value' = UseTool(value.tool, value.input)
        /\ meant' = meant
    BY <1>1 DEF CallTool, Becomes
  <2>2. value.tool \in DOMAIN Promises /\ value.input \in InputsFor(value.tool)
        /\ meant = MeantByTool(value.tool, value.input)
    BY <2>1 DEF Called, CallSays
  <2>3. Conveys(value', meant')
    BY <2>1, <2>2, ToolsConvey
  <2> QED BY <2>1, <2>3 DEF Called, CallSays
<1>2. CASE Send
  <2>1. form = "call" /\ meant' = meant
    BY <1>2 DEF Send
  <2>2. Conveys(value, meant)
    BY <2>1 DEF Called, CallSays
  <2>3. CASE form' = "rejected"
    BY <2>3 DEF Called, CallSays
  <2>4. CASE /\ form' = "request"
             /\ value' = [sent |-> Request(value),
                          expects |-> OperationOf(<<value.resource, value.op>>)]
    <3>1. value'.sent = Request(value) /\ value'.expects = OperationOf(<<value.resource, value.op>>)
      BY <2>4
    <3>2. Arrives(value'.sent, meant') /\ value'.expects = OperationOf(meant'.endpoint)
      BY <2>1, <2>2, <3>1, CallsArrive
    <3> QED BY <2>4, <3>2 DEF Called, CallSays
  <2> QED BY <1>2, <2>3, <2>4 DEF Send, Reject, Becomes
<1>3. ASSUME Answer \/ ReadField \/ ReadPart
      PROVE  form' \in {"object", "field"}
  BY <1>3 DEF Answer, ReadField, ReadPart, Becomes
<1>4. Next => form' \notin {"tool", "call", "request"}
  BY DEF Next, FromBytes, FromHex, FromBase64, DecodeText, Validate, Validator, BuildUrl, Parse,
         TakeStr, TakeNum, ToHbar, ToTinybar, ParseTimestamp, PrintTimestamp, ConvertToDate,
         ConvertFromDate, MakeHieroTimestamp, Becomes, Reject
<1>5. CASE UNCHANGED vars
  BY <1>5 DEF vars, Called
<1>6. form' \notin {"tool", "call", "request"} => Called'
  BY DEF Called, CallSays
<1> QED BY <1>1, <1>2, <1>3, <1>4, <1>5, <1>6 DEF ClientNext

\* What the client holds of a call always says what its caller does.
THEOREM CallsHold == ClientSpec => []Called
<1>1. Init \/ ClientInit => Called
  BY CalledInit
<1>2. Called /\ [Next \/ ClientNext]_vars => Called'
  BY CalledStep
<1> QED BY <1>1, <1>2, PTL DEF ClientSpec

\* The mirror node is asked for what the caller of a method or of a tool asked
\* for, whatever ids and parameters those pass: but for a serial or sequence number
\* with something in it that would have to be escaped, and for a condition of a kind
\* that buildUrl does not declare.
THEOREM RequestsAreMeant == ClientSpec => []RequestsSayWhatWasAsked
<1>1. Called => RequestsSayWhatWasAsked
  BY DEF Called, CallSays, Arrives, RequestsSayWhatWasAsked
<1> QED BY <1>1, CallsHold, PTL

\* What a reading makes of an integer tells it.
LEMMA IntegersAreTold ==
  ASSUME NEW n \in Int, NEW wide, NEW how, NEW name,
         \/ how \in {"str", "strReq", "ensureString"}
         \/ how \in {"num", "numOrNull"} /\ (wide => name \in DeclaredNumbers)
  PROVE  Says(Reading(how, InBody(Integer(n, wide))), Integer(n, wide), name)
<1> DEFINE sent == Integer(n, wide)
           body == InBody(sent)
           told == Reading(how, body)
<1>1. sent.type = "integer" /\ sent.number = n /\ sent.wide = wide
  BY DEF Integer, sent
<1>2. ToNumber(n) \in Int /\ (IsSafeInteger(n) => ToNumber(n) = n)
      /\ (~ IsSafeInteger(n) => ~ IsSafeInteger(ToNumber(n)))
  BY NumbersHold
<1> HIDE DEF sent
<1>3. \/ body = JsNumber(ToNumber(n)) /\ ToNumber(n) = n
      \/ body = JsString(IntegerString(n))
  BY <1>1, <1>2 DEF InBody, SafeReviver, body
<1> HIDE DEF body
<1>4. BigInt(IntegerString(n)) = n
  BY IntegerStringsKeep
<1>5. ~ IsMissing(body)
  BY <1>3 DEF IsMissing, JsNumber, JsString
<1>6. Str(body) = IntegerString(n) /\ Num(body) = ToNumber(n)
  BY <1>3, <1>4 DEF Str, Num, JsNumber, JsString
<1>7. \/ told = JsString(IntegerString(n))
      \/ how \in {"num", "numOrNull"} /\ told = JsNumber(ToNumber(n))
  BY <1>5, <1>6 DEF Reading, told
<1>8. ~ IsMissing(sent) /\ sent # EmptyText
  BY <1>1 DEF IsMissing, EmptyText, JsString
<1> HIDE DEF told
<1>9. ASSUME told = JsString(IntegerString(n))
      PROVE  Says(told, sent, name)
  <2>1. told.type = "string" /\ told.string = IntegerString(n)
    BY <1>9 DEF JsString
  <2> QED BY <1>1, <1>8, <2>1 DEF Says
<1>10. ASSUME how \in {"num", "numOrNull"}, told = JsNumber(ToNumber(n))
       PROVE  Says(told, sent, name)
  <2>1. told.type = "number" /\ told.number = ToNumber(n)
    BY <1>10 DEF JsNumber
  <2>2. wide => name \in DeclaredNumbers
    BY <1>10
  <2> QED BY <1>1, <1>2, <1>8, <2>1, <2>2 DEF Says
<1> QED BY <1>7, <1>9, <1>10 DEF sent, body, told

\* What is missing is told by a blank, however it is read.
LEMMA BlanksAreTold ==
  ASSUME NEW sent, sent \in {Undefined, Null}, NEW name,
         NEW how
  PROVE  /\ how \in Ways => Says(Reading(how, InBody(sent)), sent, name)
         /\ IsPart(how) => Says(OfWrongPart(how), sent, name)
<1>1. IsMissing(sent) /\ InBody(sent) = sent /\ sent.type # "integer"
  BY DEF IsMissing, InBody, Undefined, Null
<1>2. how \in Ways => Reading(how, sent) \in Blanks
  BY <1>1 DEF Ways, Reading, Blanks
<1>3. IsPart(how) => OfWrongPart(how) \in Blanks
  BY DEF IsPart, OfWrongPart, Blanks
<1> QED BY <1>1, <1>2, <1>3 DEF Says

\* A text is told as it is, or as what it decodes to.
LEMMA TextsAreTold ==
  ASSUME NEW text, NEW how, NEW name, Tells(how, "text", name)
  PROVE  Says(Reading(how, InBody(JsString(text))), JsString(text), name)
<1> DEFINE sent == JsString(text)
<1>1. sent.type = "string" /\ sent.string = text
  BY DEF JsString
<1>2. ~ IsMissing(sent) /\ InBody(sent) = sent /\ Str(sent) = text
  BY <1>1 DEF IsMissing, InBody, Str
<1> HIDE DEF sent
<1>3. CASE name \in DecodedFields
  <2>1. how \in {"decodeHexString", "decodeBase64"}
    BY <1>3 DEF Tells
  <2>2. sent # EmptyText => Reading(how, sent) = Decoded(sent)
    BY <1>2, <2>1 DEF Reading
  <2>3. sent = EmptyText => Reading(how, sent) \in {Null, Decoded(EmptyText)}
    BY <1>2, <2>1 DEF Reading
  <2>4. sent = EmptyText => Reading(how, sent) \in Blanks
    BY <2>3 DEF Blanks
  <2>5. sent # EmptyText => Says(Reading(how, sent), sent, name)
    BY <1>1, <1>2, <1>3, <2>2 DEF Says
  <2>6. sent = EmptyText => Says(Reading(how, sent), sent, name)
    BY <1>1, <2>4 DEF Says
  <2> QED BY <1>2, <2>5, <2>6 DEF sent
<1>4. CASE name \notin DecodedFields
  <2>1. how \in {"str", "strReq", "ensureString", "asIs"}
    BY <1>4 DEF Tells
  <2>2. Reading(how, sent) = sent
    BY <1>2, <2>1 DEF Reading, sent
  <2>3. EmptyText \in Blanks
    BY DEF Blanks
  <2>4. sent = EmptyText => Says(sent, sent, name)
    BY <1>1, <2>3 DEF Says
  <2>5. sent # EmptyText => Says(sent, sent, name)
    BY <1>1, <1>2, <1>4 DEF Says
  <2> QED BY <1>2, <2>2, <2>4, <2>5 DEF sent
<1> QED BY <1>3, <1>4

\* What is neither an integer nor a text is told as it is.
LEMMA ValuesAreTold ==
  ASSUME NEW field, field.is \in {"flag", "texts", "object", "list"}, NEW how, NEW name,
         Tells(how, field.is, name), NEW sent \in ValuesOf(field),
         sent \notin {Undefined, Null}
  PROVE  /\ how \in Ways => Says(Reading(how, InBody(sent)), sent, name)
         /\ IsPart(how) /\ ~ Fits(how, sent) => Says(OfWrongPart(how), sent, name)
<1>1. /\ field.is = "flag" => \E b \in BOOLEAN : sent = JsBoolean(b)
      /\ field.is = "texts" => sent \in {EmptyArray, ArrayOf("texts")}
      /\ field.is = "object" => sent = ObjectOf(field.of)
      /\ field.is = "list" => sent \in {EmptyArray, ArrayOf(field.of)}
  BY DEF ValuesOf
<1>2. sent.type \in {"boolean", "emptyArray", "array", "object"}
  BY <1>1 DEF EmptyArray, ArrayOf, ObjectOf, JsBoolean
<1>3. ~ IsMissing(sent) /\ InBody(sent) = sent /\ sent # EmptyText
  BY <1>2 DEF IsMissing, InBody, EmptyText, JsString
<1>4. name \notin DecodedFields
  BY DEF Tells
<1>5. \/ field.is = "flag" /\ how \in {"bool", "boolOrNull"}
      \/ field.is = "texts" /\ how = "arr"
      \/ field.is = "object" /\ how \in {"part", "partOrNull", "asIs"}
      \/ field.is = "list" /\ how = "parts"
  BY <1>4 DEF Tells
<1>6. \A told : told = sent => Says(told, sent, name)
  BY <1>2, <1>3, <1>4 DEF Says
<1>7. how \in Ways => Reading(how, sent) = sent
  <2>1. CASE field.is = "texts"
    BY <1>1, <1>5, <2>1 DEF Reading, EmptyArray, ArrayOf
  <2>2. CASE field.is = "flag" \/ (field.is = "object" /\ how = "asIs")
    BY <1>3, <1>5, <2>2 DEF Reading
  <2>3. CASE (field.is = "object" /\ how # "asIs") \/ field.is = "list"
    BY <1>5, <2>3 DEF Ways
  <2> QED BY <2>1, <2>2, <2>3
<1>8. IsPart(how) /\ ~ Fits(how, sent) => OfWrongPart(how) = sent
  BY <1>1, <1>5 DEF IsPart, Fits, OfWrongPart, EmptyArray, ArrayOf, ObjectOf
<1> QED BY <1>3, <1>6, <1>7, <1>8

\* What a mirror node sends in a field is told by every way of reading that suits
\* the field.
LEMMA ReadingsTell ==
  ASSUME NEW field, NEW how, NEW name, Tells(how, field.is, name), NEW sent \in ValuesOf(field)
  PROVE  /\ ~ IsPart(how) => Says(Reading(how, InBody(sent)), sent, name)
         /\ IsPart(how) /\ ~ Fits(how, sent) => Says(OfWrongPart(how), sent, name)
<1>1. how \in Ways \/ IsPart(how)
  BY DEF Tells, Ways, IsPart
<1>2. CASE sent \in {Undefined, Null}
  BY <1>1, <1>2, BlanksAreTold
<1>3. CASE sent \notin {Undefined, Null} /\ field.is \in {"int64", "int32"}
  <2>1. PICK n \in WireNumbers :
          \/ field.is = "int64" /\ sent = Integer(n, TRUE)
          \/ field.is = "int32" /\ sent = Integer(n, FALSE)
    BY <1>3 DEF ValuesOf
  <2>2. n \in Int
    BY ClientCallsAssumption
  <2>3. \/ how \in {"str", "strReq", "ensureString"}
        \/ how \in {"num", "numOrNull"} /\ (field.is = "int64" => name \in DeclaredNumbers)
    BY <1>3 DEF Tells
  <2>4. ~ IsPart(how)
    BY <2>3 DEF IsPart
  <2>5. CASE field.is = "int64" /\ sent = Integer(n, TRUE)
    BY <2>2, <2>3, <2>4, <2>5, IntegersAreTold
  <2>6. CASE field.is = "int32" /\ sent = Integer(n, FALSE)
    BY <2>2, <2>3, <2>4, <2>6, IntegersAreTold
  <2> QED BY <2>1, <2>5, <2>6
<1>4. CASE sent \notin {Undefined, Null} /\ field.is = "text"
  <2>1. \E text : sent = JsString(text)
    BY <1>4 DEF ValuesOf, EmptyText
  <2>2. Tells(how, "text", name)
    BY <1>4
  <2>3. ~ IsPart(how)
    BY <2>2 DEF IsPart, Tells
  <2> QED BY <2>1, <2>2, <2>3, TextsAreTold
<1>5. CASE sent \notin {Undefined, Null} /\ field.is \in {"flag", "texts", "object", "list"}
  BY <1>1, <1>5, ValuesAreTold
<1>6. field.is \in {"int64", "int32", "text", "flag", "texts", "object", "list"}
  BY DEF Tells
<1> QED BY <1>2, <1>3, <1>4, <1>5, <1>6

\* A mapper that is given objects as in the tables tells what it reads of them.
LEMMA FieldsAreTold ==
  ASSUME NEW object \in ObjectsRead, NEW name \in DOMAIN Mappers[object.mapper],
         ~ IsPart(Mappers[object.mapper][name].how),
         NEW sent \in MaySend(object.schema, Source(object.mapper, name))
  PROVE  Says(Reading(Mappers[object.mapper][name].how, InBody(sent)), sent, name)
<1> DEFINE how == Mappers[object.mapper][name].how
           fields == Schemas[object.schema]
           source == Source(object.mapper, name)
<1>1. IF source \in DOMAIN fields THEN Tells(how, fields[source].is, name)
      ELSE how \in Ways \/ IsPart(how)
  BY MappersAgree DEF Agrees
<1>2. sent \in IF source \in DOMAIN fields THEN ValuesOf(fields[source]) ELSE {Undefined}
  BY DEF MaySend
<1>3. ~ IsPart(how)
  OBVIOUS
<1> HIDE DEF how, fields, source
<1>4. CASE source \in DOMAIN fields
  BY <1>1, <1>2, <1>3, <1>4, ReadingsTell DEF how
<1>5. CASE source \notin DOMAIN fields
  BY <1>1, <1>2, <1>3, <1>5, BlanksAreTold DEF how
<1> QED BY <1>4, <1>5

\* The parts of such an object are such objects again, and a part that is not there
\* is told by a blank.
LEMMA PartsAreTold ==
  ASSUME NEW object \in ObjectsRead, NEW name \in DOMAIN Mappers[object.mapper],
         IsPart(Mappers[object.mapper][name].how), NEW sent \in MaySend(object.schema, name)
  PROVE  LET reading == Mappers[object.mapper][name]
         IN /\ Fits(reading.how, sent) => Object(reading.of, sent.of) \in ObjectsRead
            /\ ~ Fits(reading.how, sent) => Says(OfWrongPart(reading.how), sent, name)
<1> DEFINE reading == Mappers[object.mapper][name]
           how == reading.how
           fields == Schemas[object.schema]
<1>1. Source(object.mapper, name) = name
  BY DEF Source, IsPart
<1>2. IF name \in DOMAIN fields THEN Tells(how, fields[name].is, name)
      ELSE how \in Ways \/ IsPart(how)
  BY <1>1, MappersAgree DEF Agrees
<1>3. sent \in IF name \in DOMAIN fields THEN ValuesOf(fields[name]) ELSE {Undefined}
  BY DEF MaySend
<1>4. IsPart(how)
  OBVIOUS
<1>5. name \in DOMAIN fields => Object(reading.of, fields[name].of) \in ObjectsRead
  BY <1>4, MappersAgree DEF PartsOf
<1> HIDE DEF how, fields
<1>6. CASE name \in DOMAIN fields
  <2>1. ~ Fits(how, sent) => Says(OfWrongPart(how), sent, name)
    BY <1>2, <1>3, <1>4, <1>6, ReadingsTell
  <2>2. \/ fields[name].is = "object" /\ how \in {"part", "partOrNull"}
        \/ fields[name].is = "list" /\ how = "parts"
    BY <1>2, <1>4, <1>6 DEF Tells, IsPart
  <2>3. Fits(how, sent) => sent.of = fields[name].of
    <3> DEFINE field == fields[name]
    <3>1. sent \in ValuesOf(field)
      BY <1>3, <1>6
    <3>2. \/ field.is = "object" /\ how \in {"part", "partOrNull"}
          \/ field.is = "list" /\ how = "parts"
      BY <2>2
    <3> HIDE DEF field
    <3>3. CASE field.is = "object"
      <4>1. sent \in {Undefined, Null, ObjectOf(field.of)}
        BY <3>1, <3>3 DEF ValuesOf
      <4>2. Fits(how, sent) => sent.type = "object"
        BY <3>2, <3>3 DEF Fits
      <4>3. Fits(how, sent) => sent = ObjectOf(field.of)
        BY <4>1, <4>2 DEF Undefined, Null
      <4> QED BY <4>3 DEF ObjectOf, field
    <3>4. CASE field.is = "list"
      <4>1. sent \in {Undefined, Null, EmptyArray, ArrayOf(field.of)}
        BY <3>1, <3>4 DEF ValuesOf
      <4>2. Fits(how, sent) => sent.type = "array"
        BY <3>2, <3>4 DEF Fits
      <4>3. Fits(how, sent) => sent = ArrayOf(field.of)
        BY <4>1, <4>2 DEF Undefined, Null, EmptyArray
      <4> QED BY <4>3 DEF ArrayOf, field
    <3> QED BY <3>2, <3>3, <3>4
  <2> QED BY <1>5, <1>6, <2>1, <2>3 DEF how
<1>7. CASE name \notin DOMAIN fields
  <2>1. sent = Undefined
    BY <1>3, <1>7
  <2>2. ~ Fits(how, sent)
    BY <2>1 DEF Fits, Undefined
  <2> QED BY <1>4, <2>1, <2>2, BlanksAreTold DEF how
<1> QED BY <1>6, <1>7

\* What the client holds of an answer to what was asked: an object with a mapper
\* that suits it, or what a field of one tells.
ResultSays(f, v, m) ==
  /\ f = "object" /\ m.asked => v \in ObjectsRead
  /\ f = "field" /\ m.asked => Says(v.told, m.sent, v.name)

Answering == ResultSays(form, value, meant)

\* Nothing has been answered yet.
LEMMA AnsweringInit == Init \/ ClientInit => Answering
<1>1. Init => form \notin {"object", "field"}
  BY ConversionsAssumption DEF Init, IdKinds
<1>2. ClientInit => form \notin {"object", "field"}
  BY DEF ClientInit
<1> QED BY <1>1, <1>2 DEF Answering, ResultSays

\* A request is answered with objects for its mapper, which are read part by part
\* and field by field.
LEMMA AnsweringStep == Called /\ Answering /\ [Next \/ ClientNext]_vars => Answering'
<1> SUFFICES ASSUME Called, Answering, [Next \/ ClientNext]_vars
             PROVE  Answering'
  OBVIOUS
<1>1. ASSUME Answer
      PROVE  Answering'
  <2>1. /\ form = "request" /\ value.expects.mapper # Untouched
        /\ form' = "object"
        /\ value' = Unwrapped(value.expects, EndpointOf(Served(value.sent)))
        /\ meant' = [asked |-> Served(value.sent) = meant.endpoint]
    BY <1>1 DEF Answer, Becomes
  <2>2. meant.endpoint \in EndpointNames /\ value.expects = OperationOf(meant.endpoint)
    BY <2>1 DEF Called, CallSays, Arrives
  <2>3. meant'.asked => Served(value.sent) = meant.endpoint
    BY <2>1
  <2>4. meant'.asked => value' \in Answered
    BY <2>1, <2>2, <2>3 DEF Answered
  <2> QED BY <2>1, <2>4, MappersAgree DEF Answering, ResultSays
<1>2. ASSUME ReadField
      PROVE  Answering'
  <2>1. form = "object" /\ form' = "field"
    BY <1>2 DEF ReadField, Becomes
  <2>2. PICK name \in DOMAIN Mappers[value.mapper] :
          /\ ~ IsPart(Mappers[value.mapper][name].how)
          /\ \E sent \in MaySend(value.schema, Source(value.mapper, name)) :
               /\ value' = Field(value.mapper, name,
                                 Reading(Mappers[value.mapper][name].how, InBody(sent)))
               /\ meant' = [asked |-> meant.asked, sent |-> sent]
    BY <1>2 DEF ReadField, Becomes
  <2>3. PICK sent \in MaySend(value.schema, Source(value.mapper, name)) :
          /\ value' = Field(value.mapper, name,
                            Reading(Mappers[value.mapper][name].how, InBody(sent)))
          /\ meant' = [asked |-> meant.asked, sent |-> sent]
    BY <2>2
  <2>4. meant'.asked = meant.asked /\ meant'.sent = sent
    BY <2>3
  <2>5. value'.told = Reading(Mappers[value.mapper][name].how, InBody(sent)) /\ value'.name = name
    BY <2>3 DEF Field
  <2>6. meant.asked => value \in ObjectsRead
    BY <2>1 DEF Answering, ResultSays
  <2>7. meant.asked => Says(Reading(Mappers[value.mapper][name].how, InBody(sent)), sent, name)
    BY <2>2, <2>3, <2>6, FieldsAreTold
  <2> QED BY <2>1, <2>4, <2>5, <2>7 DEF Answering, ResultSays
<1>3. ASSUME ReadPart
      PROVE  Answering'
  <2>1. form = "object"
    BY <1>3 DEF ReadPart
  <2>2. PICK name \in DOMAIN Mappers[value.mapper] :
          LET reading == Mappers[value.mapper][name]
          IN /\ IsPart(reading.how)
             /\ \E sent \in MaySend(value.schema, name) :
                  \/ /\ Fits(reading.how, sent)
                     /\ form' = "object" /\ value' = Object(reading.of, sent.of) /\ meant' = meant
                  \/ /\ ~ Fits(reading.how, sent)
                     /\ form' = "field" /\ meant' = [asked |-> meant.asked, sent |-> sent]
                     /\ value' = Field(value.mapper, name, OfWrongPart(reading.how))
    BY <1>3 DEF ReadPart, Becomes
  <2>3. meant.asked => value \in ObjectsRead
    BY <2>1 DEF Answering, ResultSays
  <2> DEFINE reading == Mappers[value.mapper][name]
  <2>4. PICK sent \in MaySend(value.schema, name) :
          \/ /\ Fits(reading.how, sent)
             /\ form' = "object" /\ value' = Object(reading.of, sent.of) /\ meant' = meant
          \/ /\ ~ Fits(reading.how, sent)
             /\ form' = "field" /\ meant' = [asked |-> meant.asked, sent |-> sent]
             /\ value' = Field(value.mapper, name, OfWrongPart(reading.how))
    BY <2>2
  <2>5. meant.asked =>
          /\ Fits(reading.how, sent) => Object(reading.of, sent.of) \in ObjectsRead
          /\ ~ Fits(reading.how, sent) => Says(OfWrongPart(reading.how), sent, name)
    BY <2>2, <2>3, PartsAreTold
  <2> HIDE DEF reading
  <2>6. CASE Fits(reading.how, sent)
    BY <2>4, <2>5, <2>6 DEF Answering, ResultSays
  <2>7. CASE ~ Fits(reading.how, sent)
    <3>1. value'.told = OfWrongPart(reading.how) /\ value'.name = name
      BY <2>4, <2>7 DEF Field
    <3>2. form' = "field" /\ meant'.asked = meant.asked /\ meant'.sent = sent
      BY <2>4, <2>7
    <3> QED BY <2>5, <2>7, <3>1, <3>2 DEF Answering, ResultSays
  <2> QED BY <2>6, <2>7
<1>4. CallTool \/ Send => form' \notin {"object", "field"}
  BY DEF CallTool, Send, Becomes, Reject
<1>5. Next => form' \notin {"object", "field"}
  BY DEF Next, FromBytes, FromHex, FromBase64, DecodeText, Validate, Validator, BuildUrl, Parse,
         TakeStr, TakeNum, ToHbar, ToTinybar, ParseTimestamp, PrintTimestamp, ConvertToDate,
         ConvertFromDate, MakeHieroTimestamp, Becomes, Reject
<1>6. CASE UNCHANGED vars
  BY <1>6 DEF vars, Answering
<1>7. form' \notin {"object", "field"} => Answering'
  BY DEF Answering, ResultSays
<1> QED BY <1>1, <1>2, <1>3, <1>4, <1>5, <1>6, <1>7 DEF ClientNext

\* The fields that mappers read say what was answered, whatever integers mirror
\* nodes send and however many bits of them a number holds.
THEOREM ResultsAreTrue == ClientSpec => []ResultsSayWhatWasAnswered
<1>1. Init \/ ClientInit => Answering
  BY AnsweringInit
<1>2. Called /\ Answering /\ [Next \/ ClientNext]_vars => Answering'
  BY AnsweringStep
<1>3. Answering => ResultsSayWhatWasAnswered
  BY DEF Answering, ResultSays, ResultsSayWhatWasAnswered
<1> QED BY <1>1, <1>2, <1>3, CallsHold, PTL DEF ClientSpec
=============================================================================
