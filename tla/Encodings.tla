----------------------------- MODULE Encodings -----------------------------
(***************************************************************************)
(* Bytes as hex and as base64: src/utils/encoding.ts and the decoders of   *)
(* src/mappers/common.ts.  Everything is built of pairs of bits: a hex     *)
(* digit is two of them, a base64 symbol three, a byte four.               *)
(*                                                                         *)
(* A hex string is its prefix and its digits; a base64 string a sequence   *)
(* of symbols that may end in Pad.  Strings with other characters are      *)
(* left out.                                                               *)
(***************************************************************************)
EXTENDS Powers, Sequences, SequencesExt

CONSTANT Pair  \* how many values a pair of bits has: 4 in the code

ASSUME EncodingsAssumption == Pair \in Nat \ {0, 1}

\* How many hex digits, base64 symbols and bytes there are.
HexDigits == Power(Pair, 2)
Symbols == Power(Pair, 3)
ByteValues == Power(Pair, 4)

Pad == -1  \* "="

Hex(prefix, digits) == [prefix |-> prefix, digits |-> digits]

----------------------------------------------------------------------------
(* Hex *)

BytesToHex(bytes) ==
  Hex("", [i \in 1 .. 2 * Len(bytes) |->
             LET byte == bytes[(i + 1) \div 2]
             IN IF i % 2 = 1 THEN byte \div HexDigits ELSE byte % HexDigits])

OddLength(hex) == Len(hex.digits) % 2 = 1

HexToBytes(hex) ==
  [i \in 1 .. Len(hex.digits) \div 2 |->
     hex.digits[2 * i - 1] * HexDigits + hex.digits[2 * i]]

----------------------------------------------------------------------------
(* Base64 *)

\* Up to the last symbol that is no pad.
Unpadded(base64) ==
  SubSeq(base64, 1, Max({0} \cup {i \in DOMAIN base64 : base64[i] # Pad}))

\* The number at i, zero behind the end: indexOf('A'), indexOf(''), and ?? 0.
At(numbers, i) == IF i <= Len(numbers) THEN numbers[i] ELSE 0

----------------------------------------------------------------------------
(* Where atob() and btoa() exist: the host reads pairs of bits *)

\* The pair at i of numbers that are so many pairs each.
PairAt(numbers, size, i) ==
  (At(numbers, (i - 1) \div size + 1) \div Power(Pair, size - 1 - ((i - 1) % size))) % Pair

\* Pads before the end, one symbol left over behind the last full group, or pads
\* that do not fill the last group up; no pads at all are fine.
AtobThrows(base64) ==
  LET symbols == Unpadded(base64)
      pads == Len(base64) - Len(symbols)
  IN \/ Contains(symbols, Pad)
     \/ Len(symbols) % 4 = 1
     \/ pads > 0 /\ (pads > 2 \/ Len(base64) % 4 # 0)

\* Where it does not throw.
Atob(base64) ==
  LET symbols == Unpadded(base64)
  IN [k \in 1 .. (3 * Len(symbols)) \div 4 |->
        LET p(i) == PairAt(symbols, 3, 4 * (k - 1) + i)
        IN ((p(1) * Pair + p(2)) * Pair + p(3)) * Pair + p(4)]

Btoa(bytes) ==
  [k \in 1 .. 4 * ((Len(bytes) + 2) \div 3) |->
     LET p(i) == PairAt(bytes, 4, 3 * (k - 1) + i)
     IN IF 3 * k <= 4 * Len(bytes) + 2 THEN (p(1) * Pair + p(2)) * Pair + p(3) ELSE Pad]

----------------------------------------------------------------------------
(* Where they do not *)

\* Mutant: the byte length is rounded up.
FallbackDecodeTooLong(base64) ==
  LET cleaned == Unpadded(base64)
  IN [k \in 1 .. (Len(cleaned) * 3 + 3) \div 4 |->
        LET g == 4 * ((k - 1) \div 3)
            a == At(cleaned, g + 1)
            b == At(cleaned, g + 2)
            c == At(cleaned, g + 3)
            d == At(cleaned, g + 4)
        IN CASE k % 3 = 1 -> a * Pair + b \div HexDigits
             [] k % 3 = 2 -> (b % HexDigits) * HexDigits + c \div Pair
             [] k % 3 = 0 -> (c % Pair) * Symbols + d]

\* Four symbols make three bytes; what would lie behind the byte length is
\* written nowhere.
FallbackDecode(base64) ==
  LET cleaned == Unpadded(base64)
  IN [k \in 1 .. (Len(cleaned) * 3) \div 4 |->
        LET g == 4 * ((k - 1) \div 3)
            a == At(cleaned, g + 1)
            b == At(cleaned, g + 2)
            c == At(cleaned, g + 3)
            d == At(cleaned, g + 4)
        IN CASE k % 3 = 1 -> a * Pair + b \div HexDigits
             [] k % 3 = 2 -> (b % HexDigits) * HexDigits + c \div Pair
             [] k % 3 = 0 -> (c % Pair) * Symbols + d]

\* Three bytes make four symbols, the last two of them pads where the bytes end.
FallbackEncode(bytes) ==
  [k \in 1 .. 4 * ((Len(bytes) + 2) \div 3) |->
     LET i == 3 * ((k - 1) \div 4)
         a == At(bytes, i + 1)
         b == At(bytes, i + 2)
         c == At(bytes, i + 3)
     IN CASE k % 4 = 1 -> a \div Pair
          [] k % 4 = 2 -> (a % Pair) * HexDigits + b \div HexDigits
          [] k % 4 = 3 -> IF i + 1 < Len(bytes) THEN (b % HexDigits) * Pair + c \div Symbols ELSE Pad
          [] k % 4 = 0 -> IF i + 2 < Len(bytes) THEN c % Symbols ELSE Pad]

----------------------------------------------------------------------------
(* Either of them, by the host: native says whether it has the two *)

Undecodable(base64, native) == native /\ AtobThrows(base64)

\* Of what is not undecodable.
Base64ToBytes(base64, native) ==
  IF native THEN Atob(base64) ELSE FallbackDecode(base64)

BytesToBase64(bytes, native) ==
  IF native THEN Btoa(bytes) ELSE FallbackEncode(bytes)

Base64ToHex(base64, native) == BytesToHex(Base64ToBytes(base64, native))

HexToBase64(hex, native) == BytesToBase64(HexToBytes(hex), native)

\* What a mapper makes of a hex message: nothing of an empty or an odd one.
Decodable(hex) == hex.digits # << >> /\ ~ OddLength(hex)
============================================================================
