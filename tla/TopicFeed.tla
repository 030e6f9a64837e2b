----------------------------- MODULE TopicFeed -----------------------------
(***************************************************************************)
(* What a subscription to a topic promises, whatever the polling behind it *)
(* does: from the start position on, the subscriber receives the messages  *)
(* of the topic one by one, none skipped, none repeated, none reordered,   *)
(* until it hangs up.  A message that cannot be read is never skipped.     *)
(***************************************************************************)
EXTENDS Integers, Sequences

CONSTANTS Kinds, Good, StartAt

VARIABLES
  log,        \* the topic: the kind of each message, in consensus order
  delivered,  \* the positions delivered, in the order of delivery
  open        \* whether the subscription is still alive

vars == <<log, delivered, open>>

Init ==
  /\ log \in [1 .. StartAt -> Kinds]
  /\ delivered = << >>
  /\ open = TRUE

Publish ==
  /\ \E kind \in Kinds : log' = Append(log, kind)
  /\ UNCHANGED <<delivered, open>>

Deliver ==
  LET next == StartAt + Len(delivered) + 1
  IN /\ open
     /\ next <= Len(log)
     /\ log[next] = Good
     /\ delivered' = Append(delivered, next)
     /\ UNCHANGED <<log, open>>

Close ==
  /\ open
  /\ open' = FALSE
  /\ UNCHANGED <<log, delivered>>

Next == Publish \/ Deliver \/ Close

Spec == Init /\ [][Next]_vars
=============================================================================
