---------------------------- MODULE Conversions ----------------------------
(***************************************************************************)
(* A value that a program holds while it applies the client's conversions  *)
(* to it, in any order that fits: amounts between response body, field,    *)
(* tinybars and hbars; instants between timestamp strings, Dates and both  *)
(* timestamp classes; paths on their way into a url; bytes as hex and as   *)
(* base64; identifiers and what their validators make of them.             *)
(***************************************************************************)
EXTENDS Timestamps, UrlPaths, Encodings, Identifiers

CONSTANTS
  Amounts,      \* the tinybars to start from
  Hbars,        \* the hbar strings to start from, as Decimals
  TimeStrings,  \* the timestamp strings to start from, as Decimals
  Dates,        \* the Dates to start from
  EarliestDate, \* bound: Dates before 1970 drift back with every conversion
  Paths,        \* the paths to start from, each with how it came to be spelled so
  ByteStrings,  \* the bytes to start from
  Spellings,    \* by form: hex and base64, each with the bytes it stands for
  GivenIds,     \* by form: the identifiers to start from
  None          \* no value

\* The digits of bytes, two for each, and symbols that begin with their bits.
IsHexOf(digits, bytes) ==
  /\ Len(digits) = 2 * Len(bytes)
  /\ \A i \in DOMAIN bytes : bytes[i] = digits[2 * i - 1] * HexDigits + digits[2 * i]

IsBase64Of(symbols, bytes) ==
  /\ Len(symbols) = (4 * Len(bytes) + 2) \div 3
  /\ \A i \in 1 .. 4 * Len(bytes) : PairAt(symbols, 3, i) = PairAt(bytes, 4, i)

\* No pads, or as many as fill the last group of four up.
IsPaddedWell(base64) ==
  LET symbols == Len(Unpadded(base64))
  IN Len(base64) \in {symbols, 4 * ((symbols + 3) \div 4)}

----------------------------------------------------------------------------
(* What paths and identifiers stand for, whatever they are spelled like    *)

\* No null byte, no two slashes in a row but those of a "://", none at the end.
IsClean(path) ==
  /\ \A i \in DOMAIN path : path[i] # "NUL"
  /\ \A i \in DOMAIN path : i > 1 /\ path[i] = "/" /\ path[i - 1] = "/" => i > 2 /\ path[i - 2] = ":"
  /\ Len(path) > 1 => path[Len(path)] # "/"

\* The same path with one token more: a null byte anywhere, a slash behind one
\* that could not be the first of a "://", or a slash at the end.
Respellings(path) ==
  LET Doubles(k) == path[k] = "/" /\ (k > 1 => path[k - 1] \notin {":", "NUL"})
      Ends(k) == path[k] \notin {"/", "NUL"} /\ k = Len(path)
  IN {InsertAt(path, k, "NUL") : k \in 1 .. Len(path) + 1}
       \cup {InsertAt(path, k + 1, "/") : k \in {j \in DOMAIN path : Doubles(j) \/ Ends(j)}}

\* A path is given as its clean spelling and, one token at a time, the others on
\* the way to the one that the program holds.
IsRespelled(path) ==
  /\ Len(path) > 0
  /\ IsClean(path[1])
  /\ \A i \in 1 .. Len(path) - 1 : path[i + 1] \in Respellings(path[i])

\* The one spelling of an identifier, by what Hedera and the validators' own
\* documentation call one: None if it is not.  Addresses and keys keep their case.
TheEntityId(id) ==
  IF Contains(id.fields, Junk) THEN None
  ELSE IF Len(id.fields) = 1 THEN Id(<<0, 0, id.fields[1]>>, <<".", ".">>, FALSE)
  ELSE IF id.separators = <<".", ".">> THEN Id(id.fields, <<".", ".">>, FALSE) ELSE None

TheTransactionId(id) ==
  IF /\ ~ Contains(id.fields, Junk)
     /\ id.separators \in {<<".", ".", "at", ".">>, <<".", ".", "-", "-">>}
  THEN Id(id.fields, <<".", ".", "-", "-">>, FALSE) ELSE None

TheEvmAddress(id) == IF id.hex /\ id.length = 40 THEN [id EXCEPT !.prefix = "0x"] ELSE None

TheBlockHash(id) ==
  IF id.hex /\ id.length \in {64, 96}
  THEN [prefix |-> "0x", length |-> id.length, hex |-> TRUE, upper |-> FALSE] ELSE None

ThePublicKey(id) == IF id.hex /\ id.length \in {64, 66} /\ id.prefix = "" THEN id ELSE None

OwnNumber(n) == [digits |-> TRUE, text |-> FALSE, more |-> FALSE, whole |-> n]

TheNumber(id, least) ==
  IF id.digits /\ ~ id.more /\ id.whole >= least THEN OwnNumber(id.whole) ELSE None

Denoted(kind, id) ==
  CASE kind = "entity id"      -> TheEntityId(id)
    [] kind = "transaction id" -> TheTransactionId(id)
    [] kind = "evm address"    -> TheEvmAddress(id)
    [] kind = "block hash"     -> TheBlockHash(id)
    [] kind = "public key"     -> ThePublicKey(id)
    [] kind = "block number"   -> TheNumber(id, 0)
    [] kind = "serial number"  -> TheNumber(id, 1)

IdKinds ==
  {"entity id", "transaction id", "evm address", "block hash", "public key", "block number",
   "serial number"}

FieldIds ==
  {id \in [fields : Seq(Nat \cup {Junk}), separators : Seq({".", "-", "at", "/"}), zeros : BOOLEAN] :
     Len(id.fields) = Len(id.separators) + 1}

HexIds == [prefix : {"", "0x", "0X"}, length : Nat, hex : BOOLEAN, upper : BOOLEAN]

NumberIds ==
  {id \in [digits : BOOLEAN, text : BOOLEAN, more : BOOLEAN, whole : Int] :
     id.text \/ ToNumber(id.whole) = id.whole}

IdsOf(kind) ==
  CASE kind \in {"entity id", "transaction id"} -> FieldIds
    [] kind \in {"evm address", "block hash", "public key"} -> HexIds
    [] OTHER -> NumberIds

\* No timestamp is before 1970, the given spellings are of what has more than
\* one, and those of bytes stand for what hex and base64 say they do.
ASSUME ConversionsAssumption ==
  /\ Amounts \subseteq Int
  /\ \A d \in Hbars \cup TimeStrings : d \in Decimals
  /\ \A s \in TimeStrings : ~ s.neg
  /\ Dates \subseteq Int
  /\ EarliestDate \in Int
  /\ \A path \in Paths : path \in Seq(Seq(STRING)) /\ IsRespelled(path)
  /\ \A kind \in DOMAIN GivenIds : kind \in IdKinds /\ GivenIds[kind] \subseteq IdsOf(kind)
  /\ \A kind \in IdKinds : None \notin IdsOf(kind)
  /\ DOMAIN Spellings \subseteq {"hex", "base64"}
  /\ ByteStrings \subseteq Seq(0 .. ByteValues - 1)
  /\ "hex" \in DOMAIN Spellings => \A s \in Spellings["hex"] :
       /\ s.spelling.digits \in Seq(0 .. HexDigits - 1)
       /\ IF OddLength(s.spelling) THEN s.meant = None
          ELSE s.meant \in Seq(0 .. ByteValues - 1) /\ IsHexOf(s.spelling.digits, s.meant)
  /\ "base64" \in DOMAIN Spellings => \A s \in Spellings["base64"] :
       /\ s.meant \in Seq(0 .. ByteValues - 1)
       /\ s.spelling \in Seq({Pad} \cup 0 .. Symbols - 1)
       /\ Unpadded(s.spelling) \in Seq(0 .. Symbols - 1)
       /\ IsBase64Of(Unpadded(s.spelling), s.meant)

VARIABLES
  form,   \* what the program holds
  value,  \* the value itself
  meant   \* history: the tinybars, nanoseconds, bytes, clean path or
          \* one spelling that the value stands for; None for nonsense

vars == <<form, value, meant>>

\* What strings stand for, cut off at the last digit that counts.
Scaled(s, unit) == ((s.whole * Power(10, s.places) + s.frac) * unit) \div Power(10, s.places)

NanosOf(s) == Scaled(s, NanosPerSecond)

TinybarsOf(hbar) ==
  IF hbar.neg THEN -Scaled(hbar, TinybarsPerHbar) ELSE Scaled(hbar, TinybarsPerHbar)

ClosestBefore(nanos) == nanos - (nanos % NanosPerMs)

Init ==
  \/ /\ form = "literal"
     /\ \E n \in Amounts, plain \in BOOLEAN :
          /\ value = [plain |-> plain, number |-> n]
          /\ meant = IF plain THEN n ELSE ToNumber(n)
  \/ form = "hbar" /\ value \in Hbars /\ meant = TinybarsOf(value)
  \/ form = "timestamp string" /\ value \in TimeStrings /\ meant = NanosOf(value)
  \/ form = "Date" /\ value \in Dates /\ meant = value * NanosPerMs
  \/ form = "path" /\ \E path \in Paths : value = Last(path) /\ meant = path[1]
  \/ form = "bytes" /\ value \in ByteStrings /\ meant = value
  \/ \E kind \in DOMAIN Spellings : \E s \in Spellings[kind] :
       form = kind /\ value = s.spelling /\ meant = s.meant
  \/ \E kind \in DOMAIN GivenIds : \E id \in GivenIds[kind] :
       form = kind /\ value = id /\ meant = Denoted(kind, id)

Becomes(newForm, newValue) ==
  /\ form' = newForm
  /\ value' = newValue

Reject == Becomes("rejected", None)

----------------------------------------------------------------------------
(* Amounts *)

Parse ==
  /\ form = "literal"
  /\ Becomes("parsed JSON", SafeReviver(value))
  /\ UNCHANGED meant

TakeStr ==
  /\ form = "parsed JSON"
  /\ Becomes("tinybars", Str(value))
  /\ UNCHANGED meant

TakeNum ==
  /\ form = "parsed JSON"
  /\ Becomes("number", Num(value))
  /\ UNCHANGED meant

ToHbar ==
  /\ form = "tinybars"
  /\ Becomes("hbar", TinybarToHbar(value))
  /\ UNCHANGED meant

ToTinybar ==
  /\ form = "hbar"
  /\ IF TooPrecise(value) THEN Reject ELSE Becomes("tinybars", HbarToTinybar(value))
  /\ UNCHANGED meant

----------------------------------------------------------------------------
(* Instants *)

ParseTimestamp ==
  /\ form \in {"timestamp string", "HieroTimestamp"}
  /\ Becomes("ParsedTimestamp", FromString(value))
  /\ UNCHANGED meant

\* Negative nanos are padded in front of their sign: no timestamp any more.
PrintTimestamp ==
  /\ form = "ParsedTimestamp"
  /\ IF value.nanos < 0 THEN Becomes("malformed", None)
     ELSE Becomes("timestamp string", ParsedToString(value))
  /\ UNCHANGED meant

\* A Date cannot hold what is below a millisecond.
ConvertToDate ==
  /\ form = "ParsedTimestamp"
  /\ ToDate(value) >= EarliestDate
  /\ Becomes("Date", ToDate(value))
  /\ meant' = ClosestBefore(meant)

ConvertFromDate ==
  /\ form = "Date"
  /\ Becomes("ParsedTimestamp", FromDate(value))
  /\ UNCHANGED meant

\* The factories of HieroTimestamp: fromString, fromDate and fromMs,
\* fromSeconds of a Date's seconds, fromNanos.
MakeHieroTimestamp ==
  /\ \/ /\ form = "timestamp string"
        /\ IF IsValidTimestamp(value) THEN Becomes("HieroTimestamp", value) ELSE Reject
     \/ /\ form = "Date"
        /\ IF value < 0 THEN Reject ELSE Becomes("HieroTimestamp", HieroFromMs(value))
     \/ /\ form = "Date"
        /\ IF value < 0 \/ value % MsPerSecond # 0 THEN Reject
           ELSE Becomes("HieroTimestamp", HieroFromSeconds(value \div MsPerSecond))
     \/ /\ form = "ParsedTimestamp"
        /\ LET nanos == value.seconds * NanosPerSecond + value.nanos
           IN IF nanos < 0 THEN Reject ELSE Becomes("HieroTimestamp", HieroFromNanos(nanos))
  /\ UNCHANGED meant

----------------------------------------------------------------------------
(* Paths *)

\* A path, or a url that is used as one again.
BuildUrl ==
  /\ form \in {"path", "url"}
  /\ Becomes("url", CleanPath(value))
  /\ UNCHANGED meant

----------------------------------------------------------------------------
(* Bytes: each base64 step in a host with atob() and btoa(), and in one    *)
(* without                                                                 *)

FromBytes ==
  /\ form = "bytes"
  /\ Becomes("hex", BytesToHex(value))
  /\ UNCHANGED meant

FromHex ==
  /\ form = "hex"
  /\ IF OddLength(value) THEN Becomes("undecodable", None)
     ELSE \/ Becomes("bytes", HexToBytes(value))
          \/ \E native \in BOOLEAN : Becomes("base64", HexToBase64(value, native))
  /\ UNCHANGED meant

\* decodeTransactionBody does this too, and decodeBase64 where there is atob(): what
\* atob() throws goes on to the caller.
FromBase64 ==
  /\ form = "base64"
  /\ \E native \in BOOLEAN :
       IF Undecodable(value, native) THEN Becomes("refused", value)
       ELSE \/ Becomes("hex", Base64ToHex(value, native))
            \/ native /\ Becomes("bytes", Base64ToBytes(value, native))
  /\ UNCHANGED meant

\* The text that TextDecoder finds is told by its bytes.
DecodeText ==
  /\ form = "hex"
  /\ IF Decodable(value) THEN Becomes("text", HexToBytes(value)) ELSE Becomes("undecodable", None)
  /\ UNCHANGED meant

----------------------------------------------------------------------------
(* Identifiers, given by a caller or normalized before *)

\* The error names what was given.
Validator(given, normal, IsValid(_), Normal(_)) ==
  /\ form \in {given, normal}
  /\ IF IsValid(value) THEN Becomes(normal, Normal(value)) ELSE Becomes("invalid", value)

Validate ==
  /\ \/ Validator("entity id", "normal entity id", IsValidEntityId, NormalizeEntityId)
     \/ Validator("transaction id", "normal transaction id", IsValidTransactionId,
                  NormalizeTransactionId)
     \/ Validator("evm address", "normal evm address", IsValidEvmAddress, ValidateEvmAddress)
     \/ Validator("block hash", "normal block hash", IsValidBlockHash, NormalizeBlockHash)
     \/ Validator("public key", "normal public key", IsValidPublicKey, LAMBDA key : key)
     \/ Validator("block number", "normal block number", IsValidBlockNumber, WholeNumber)
     \/ Validator("serial number", "normal serial number", IsValidSerialNumber, WholeNumber)
  /\ UNCHANGED meant

Next ==
  \/ FromBytes \/ FromHex \/ FromBase64 \/ DecodeText \/ Validate
  \/ Parse \/ TakeStr \/ TakeNum \/ ToHbar \/ ToTinybar
  \/ ParseTimestamp \/ PrintTimestamp \/ ConvertToDate \/ ConvertFromDate
  \/ MakeHieroTimestamp
  \/ BuildUrl

Spec == Init /\ [][Next]_vars

----------------------------------------------------------------------------
(* Properties *)

\* Amounts survive the journey from the body through any number of hbar and
\* tinybar strings; a number field is exact as far as numbers are.
AmountsAreKept ==
  /\ form = "tinybars" => BigInt(value) = meant
  /\ form = "hbar" => TinybarsOf(value) = meant
  /\ form = "number" /\ IsSafeInteger(meant) => value = meant

HoldsInstant ==
  form \in {"timestamp string", "HieroTimestamp", "Date", "ParsedTimestamp"}

\* Instants from 1970 on survive any chain of conversions but for what a Date
\* cannot hold, and no chain leaves nanoseconds that are out of range.
InstantsAreKept ==
  (HoldsInstant /\ meant >= 0) =>
    /\ form \in {"timestamp string", "HieroTimestamp"} => NanosOf(value) = meant
    /\ form = "Date" => value * NanosPerMs = meant
    /\ form = "ParsedTimestamp" =>
         /\ value.nanos \in 0 .. NanosPerSecond - 1
         /\ value.seconds * NanosPerSecond + value.nanos = meant

\* compare() orders the ParsedTimestamps as the instants they were made of.
ComparesChronologically ==
  (form = "ParsedTimestamp" /\ meant >= 0) =>
    \A s \in TimeStrings :
      Compare(value, FromString(s)) =
        (CASE meant < NanosOf(s) -> -1 [] meant > NanosOf(s) -> 1 [] OTHER -> 0)

WithZerosOf(id, other) == [id EXCEPT !.zeros = other.zeros]

\* Every spelling of a path gives the same url, and every spelling of an id, a hex
\* identifier or a number that the validators take the one normal spelling, which
\* they leave alone from then on; but zeros in front of a field stay, and a number
\* is as close as numbers are.  No id and no hex identifier that is none comes out,
\* no block number below 0 and no serial number below 1; and only the prefix "0X" of
\* a block hash keeps what is an identifier from being taken.
SpellingsAreCanonical ==
  /\ form = "url" => value = meant
  /\ form \in {"normal entity id", "normal transaction id"} =>
       meant # None /\ value = WithZerosOf(meant, value)
  /\ form \in {"normal evm address", "normal block hash", "normal public key"} =>
       meant # None /\ value = meant
  /\ form \in {"normal block number", "normal serial number"} /\ meant # None =>
       value = OwnNumber(ToNumber(meant.whole))
  /\ form = "normal block number" => value.whole >= 0
  /\ form = "normal serial number" => value.whole >= 1
  /\ form = "invalid" /\ meant # None =>
       value \in HexIds /\ value.prefix = "0X" /\ value.length \in {64, 96}

\* Bytes survive any chain of hex and base64, whichever host each step runs
\* in; only an odd number of digits, or none at all, cannot be decoded, and only
\* base64 with the wrong number of pads, by a host with atob(), is refused.
BytesAreKept ==
  /\ form \in {"bytes", "text"} => value = meant
  /\ form = "undecodable" => meant \in {None, << >>}
  /\ form = "refused" => ~ IsPaddedWell(value)
============================================================================
