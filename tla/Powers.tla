------------------------------- MODULE Powers -------------------------------
(***************************************************************************)
(* Powers, which JavaScript writes with ** or as a literal: 10 ** 8,       *)
(* 1_000_000_000n and 2 ** attempt in the code.                            *)
(***************************************************************************)
EXTENDS Integers

PowersOf(base) ==
  LET power[n \in Nat] == IF n = 0 THEN 1 ELSE base * power[n - 1] IN power

Power(base, n) == PowersOf(base)[n]
=============================================================================
