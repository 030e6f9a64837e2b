----------------------------- MODULE Timestamps -----------------------------
(***************************************************************************)
(* The timestamps of src/utils/timestamp.ts (ParsedTimestamp) and of       *)
(* src/validation/timestamp.ts (HieroTimestamp).                           *)
(*                                                                         *)
(* A timestamp string is a Decimal of seconds.  A Date is its getTime().   *)
(***************************************************************************)
EXTENDS Amounts

CONSTANTS
  MsPlaces,   \* digits of a second that a Date tells apart
  NanoPlaces  \* digits of a second that a timestamp tells apart

ASSUME TimestampsAssumption ==
  /\ MsPlaces \in Nat
  /\ NanoPlaces \in Nat
  /\ MsPlaces <= NanoPlaces

MsPerSecond == Power(10, MsPlaces)
NanosPerMs == Power(10, NanoPlaces - MsPlaces)
NanosPerSecond == Power(10, NanoPlaces)

\* The language: a % b has the sign of a.
Remainder(a, b) == IF a < 0 THEN -((-a) % b) ELSE a % b

----------------------------------------------------------------------------
(* ParsedTimestamp *)

Parsed(seconds, nanos) == [seconds |-> seconds, nanos |-> nanos]

\* Mutant: short fractions are not padded.
FromStringUnpadded(s) ==
  Parsed(BigInt(s),
         IF s.places <= NanoPlaces THEN s.frac
         ELSE s.frac \div Power(10, s.places - NanoPlaces))

\* Short fractions are padded, long ones cut off.
FromString(s) ==
  Parsed(BigInt(s),
         IF s.places <= NanoPlaces THEN s.frac * Power(10, NanoPlaces - s.places)
         ELSE s.frac \div Power(10, s.places - NanoPlaces))

FromDate(ms) ==
  Parsed(ms \div MsPerSecond, Remainder(ms, MsPerSecond) * NanosPerMs)

\* toString() of a timestamp whose nanos are not negative.
ParsedToString(t) == Decimal(t.seconds < 0, Magnitude(t.seconds), t.nanos, NanoPlaces)

ToDate(t) == t.seconds * MsPerSecond + t.nanos \div NanosPerMs

\* Mutant: nanoseconds decide whatever the seconds say.
CompareNanosFirst(a, b) ==
  CASE a.nanos < b.nanos -> -1
    [] a.nanos > b.nanos -> 1
    [] a.nanos = b.nanos /\ a.seconds < b.seconds -> -1
    [] a.nanos = b.nanos /\ a.seconds > b.seconds -> 1
    [] OTHER -> 0

Compare(a, b) ==
  CASE a.seconds < b.seconds -> -1
    [] a.seconds > b.seconds -> 1
    [] a.seconds = b.seconds /\ a.nanos < b.nanos -> -1
    [] a.seconds = b.seconds /\ a.nanos > b.nanos -> 1
    [] OTHER -> 0

----------------------------------------------------------------------------
(* HieroTimestamp, by its value *)

IsValidTimestamp(s) == ~ s.neg /\ s.places \in 1 .. NanoPlaces

\* fromMs, and fromDate of a Date's getTime(); both reject what is negative.
HieroFromMs(ms) ==
  Decimal(FALSE, ms \div MsPerSecond, Remainder(ms, MsPerSecond) * NanosPerMs, NanoPlaces)

\* fromSeconds, which rejects what is negative or no integer.
HieroFromSeconds(seconds) == Decimal(FALSE, seconds, 0, NanoPlaces)

\* fromNanos, which rejects what is negative.
HieroFromNanos(nanos) ==
  Decimal(FALSE, nanos \div NanosPerSecond, nanos % NanosPerSecond, NanoPlaces)
=============================================================================
