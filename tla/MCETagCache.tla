---------------------------- MODULE MCETagCache ----------------------------
(***************************************************************************)
(* Small instance of ETagCache for TLC: one key more than the cache holds, *)
(* and a time-to-live shorter than the run, so that entries are evicted    *)
(* and expire in every order.                                              *)
(***************************************************************************)
EXTENDS ETagCache
============================================================================
