--------------------------- MODULE MCRateLimiter ---------------------------
(***************************************************************************)
(* Small instance of RateLimiter for TLC: three concurrent callers, a      *)
(* bucket of two tokens, and a second of three ticks, so that a token is   *)
(* not a whole number of ticks and the rounding of waitMs matters.         *)
(***************************************************************************)
EXTENDS RateLimiter
=============================================================================
