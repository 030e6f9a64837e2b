------------------------------ MODULE Amounts ------------------------------
(***************************************************************************)
(* Integers and amounts on their way from a response body to the caller:   *)
(* safeJsonParse (src/http/json-parser.ts), the field helpers of           *)
(* src/mappers/common.ts and the hbar conversions of src/utils/hbar.ts.    *)
(*                                                                         *)
(* A decimal string is a Decimal: a sign, the number before the point, and *)
(* the number after it together with how many digits write it, so that     *)
(* 1.05 has frac 5 and places 2.  Without a point, places is 0.            *)
(***************************************************************************)
EXTENDS Powers, FiniteSetsExt

CONSTANTS
  Precision,  \* bits in the mantissa of a number
  HbarPlaces  \* decimal places of an hbar

ASSUME AmountsAssumption ==
  /\ Precision \in Nat \ {0}
  /\ HbarPlaces \in Nat

Magnitude(n) == IF n < 0 THEN -n ELSE n

Decimal(neg, whole, frac, places) ==
  [neg |-> neg, whole |-> whole, frac |-> frac, places |-> places]

\* The decimal strings: the number behind the point has the digits that write it.
Decimals ==
  {d \in [neg : BOOLEAN, whole : Nat, frac : Nat, places : Nat] : d.frac < Power(10, d.places)}

IntegerString(n) == Decimal(n < 0, Magnitude(n), 0, 0)

\* BigInt(s) of a decimal string without a point.
BigInt(s) == IF s.neg THEN -s.whole ELSE s.whole

----------------------------------------------------------------------------
(* src/http/json-parser.ts *)

\* The language: what a number can hold of n, rounded half to even.
ToNumber(n) ==
  LET excess == CHOOSE k \in 0 .. Magnitude(n) :
                  /\ Magnitude(n) < Power(2, Precision + k)
                  /\ k > 0 => Magnitude(n) >= Power(2, Precision + k - 1)
      ulp == Power(2, excess)
      down == Magnitude(n) \div ulp
      rest == Magnitude(n) % ulp
      up == 2 * rest > ulp \/ (2 * rest = ulp /\ down % 2 = 1)
      rounded == (IF up THEN down + 1 ELSE down) * ulp
  IN IF n < 0 THEN -rounded ELSE rounded

IsSafeInteger(n) == Magnitude(n) < Power(2, Precision)

JsNumber(n) == [type |-> "number", number |-> n]
JsString(s) == [type |-> "string", string |-> s]

\* Mutant: one past the largest safe integer is taken for safe.
SafeReviverUpTo(literal) ==
  IF literal.plain /\ Magnitude(ToNumber(literal.number)) > Power(2, Precision)
  THEN JsString(IntegerString(literal.number))
  ELSE JsNumber(ToNumber(literal.number))

\* A literal is plain if it has neither a point nor an exponent.  JSON.parse
\* has rounded it by the time the reviver looks at it; where JSON.parse does not
\* give the literal, lossless-json does, and the conditions are the same.
SafeReviver(literal) ==
  IF literal.plain /\ ~ IsSafeInteger(ToNumber(literal.number))
  THEN JsString(IntegerString(literal.number))
  ELSE JsNumber(ToNumber(literal.number))

----------------------------------------------------------------------------
(* src/mappers/common.ts, for a field that is there *)

Str(value) ==
  IF value.type = "string" THEN value.string ELSE IntegerString(value.number)

Num(value) ==
  IF value.type = "number" THEN value.number ELSE ToNumber(BigInt(value.string))

----------------------------------------------------------------------------
(* src/utils/hbar.ts *)

TinybarsPerHbar == Power(10, HbarPlaces)

\* The remainder is padded to all its places, then trailing zeros go, and with
\* the last of them the point.
TinybarToHbar(tinybars) ==
  LET abs == Magnitude(BigInt(tinybars))
      remainder == abs % TinybarsPerHbar
      places == Min({k \in 0 .. HbarPlaces : remainder % Power(10, HbarPlaces - k) = 0})
  IN Decimal(BigInt(tinybars) < 0, abs \div TinybarsPerHbar,
             remainder \div Power(10, HbarPlaces - places), places)

TooPrecise(hbar) == hbar.places > HbarPlaces

\* The sign is copied: an hbar string "-0" becomes the tinybar string "-0".
HbarToTinybar(hbar) ==
  Decimal(hbar.neg,
          hbar.whole * TinybarsPerHbar + hbar.frac * Power(10, HbarPlaces - hbar.places), 0, 0)
============================================================================
