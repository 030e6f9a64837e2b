---------------------------- MODULE Identifiers ----------------------------
(***************************************************************************)
(* The validators of src/validation that a caller sends identifiers        *)
(* through.  Each gives the one spelling that the client stands by, or     *)
(* rejects.                                                                *)
(*                                                                         *)
(* An id is a sequence of fields and, between them, separators: 0.0.5@7.9  *)
(* has fields <<0, 0, 5, 7, 9>> and separators <<".", ".", "at", ".">>; a  *)
(* field that is not digits is Junk, and zeros says whether some field is  *)
(* written with zeros in front of its number.  A hex identifier is its     *)
(* prefix, its length without it, whether all of it are hex digits, and    *)
(* whether some are upper case.  A number is given as one or as text, by   *)
(* the digits that stand in front and whether there is more behind them:   *)
(* a fraction, or in a text anything else.                                 *)
(***************************************************************************)
EXTENDS Amounts, Sequences

Junk == -1

Id(fields, separators, zeros) ==
  [fields |-> fields, separators |-> separators, zeros |-> zeros]

IsValidEntityId(id) ==
  /\ \A i \in DOMAIN id.fields : id.fields[i] # Junk
  /\ id.separators \in {<< >>, <<".", ".">>}

NormalizeEntityId(id) ==
  IF id.separators = << >> THEN Id(<<0, 0>> \o id.fields, <<".", ".">>, id.zeros) ELSE id

IsValidTransactionId(id) ==
  /\ \A i \in DOMAIN id.fields : id.fields[i] # Junk
  /\ id.separators \in {<<".", ".", "-", "-">>, <<".", ".", "at", ".">>}

NormalizeTransactionId(id) == [id EXCEPT !.separators = <<".", ".", "-", "-">>]

IsValidEvmAddress(hex) == hex.hex /\ hex.length = 40

ValidateEvmAddress(hex) == [hex EXCEPT !.prefix = "0x"]

\* The pattern knows no "0X", though the line behind it strips one.
IsValidBlockHash(hex) ==
  hex.hex /\ hex.length \in {64, 96} /\ hex.prefix \in {"", "0x"}

NormalizeBlockHash(hex) ==
  [prefix |-> "0x", length |-> hex.length, hex |-> hex.hex, upper |-> FALSE]

\* The x of a prefix is no hex digit.
IsValidPublicKey(hex) == hex.hex /\ hex.length \in {64, 66} /\ hex.prefix = ""

\* parseInt reads the digits that a text begins with, and rounds what they say
\* to a number; what is a number already is taken as it is.
ParseInt(n) == IF n.text THEN ToNumber(n.whole) ELSE n.whole

IsInteger(n) == n.digits /\ (n.text \/ ~ n.more)

WholeNumber(n) == [digits |-> n.digits, text |-> FALSE, more |-> FALSE, whole |-> ParseInt(n)]

IsValidBlockNumber(n) == IsInteger(n) /\ ParseInt(n) >= 0

IsValidSerialNumber(n) == IsInteger(n) /\ ParseInt(n) >= 1
============================================================================
