----------------------------- MODULE MCPollers -----------------------------
(***************************************************************************)
(* One call of each poller: time for several polls before the timeout,     *)
(* polls that outlast it, and schedules that expire before, during and     *)
(* after the call.                                                         *)
(***************************************************************************)
EXTENDS Pollers
=============================================================================
