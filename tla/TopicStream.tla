---------------------------- MODULE TopicStream ----------------------------
(***************************************************************************)
(* The polling subscription of src/pagination/stream.ts: an async          *)
(* generator that asks for the messages after its cursor, hands them to    *)
(* the consumer one at a time, and sleeps between two polls.               *)
(*                                                                         *)
(* The topic is external: a growing sequence of messages, each named by    *)
(* its position, which also stands for its consensus timestamp.  A message *)
(* is good, or one that mapTopicMessage throws on.  The promise of a poll  *)
(* is HttpClient's: it settles, with a response or an error.               *)
(***************************************************************************)
EXTENDS Integers, Sequences

CONSTANTS
  Good, Bad,     \* the kinds of messages
  StartAt,       \* options.startTimestamp: the last position not asked for
  Limit,         \* options.limit
  BaseInterval,  \* options.interval, in ms
  MinInterval,   \* TopicStream.MIN_INTERVAL, 500 in the code
  MaxInterval,   \* TopicStream.MAX_INTERVAL, 5000 in the code
  MaxMessages    \* bound on the length of the topic

ASSUME StreamAssumption ==
  /\ Good # Bad
  /\ StartAt \in Nat
  /\ Limit \in Nat \ {0}
  /\ BaseInterval \in Nat
  /\ MinInterval \in Nat
  /\ MaxInterval \in Nat
  /\ MinInterval <= MaxInterval
  /\ MaxMessages \in Nat

VARIABLES
  log,        \* external: the kinds of the topic's messages, in order
  phase,      \* where the generator is
  cursor,     \* the position of the last message the consumer is done with
  batch,      \* the positions of the current response not yet done with
  interval,   \* currentInterval
  aborted,    \* options.signal.aborted
  delivered,  \* history: the positions yielded, in order
  abortedAt   \* history: how many were yielded when the signal was aborted

vars == <<log, phase, cursor, batch, interval, aborted, delivered, abortedAt>>

Kinds == {Good, Bad}

Phases ==
  {"head",      \* about to test the condition of the while loop
   "polling",   \* awaiting client.get()
   "yielded",   \* suspended at a yield, until the consumer asks for more
   "sleeping",  \* awaiting sleep()
   "ended",     \* returned by itself
   "left"}      \* returned by the consumer

Over == phase \in {"ended", "left"}

AtMost(n, limit) == IF n > limit THEN limit ELSE n

\* BACKOFF_FACTOR is 1.5; fractions of a millisecond are dropped.
BackedOff(ms) == AtMost((ms * 3) \div 2, MaxInterval)

\* Mutant: the interval after an error is not capped.
BackedOffOnErrorUncapped(ms) == ms * 3

BackedOffOnError(ms) == AtMost(ms * 3, MaxInterval)

Init ==
  /\ log \in [1 .. StartAt -> Kinds]
  /\ phase = "head"
  /\ cursor = StartAt
  /\ batch = << >>
  /\ interval = BaseInterval
  /\ aborted = FALSE
  /\ delivered = << >>
  /\ abortedAt = 0

\* Mutant: a page is asked for from the cursor on, not after it.
MessagesFromCursor ==
  [i \in 1 .. AtMost(Len(log) - cursor + 1, Limit) |-> cursor + i - 1]

\* Mutant: the page size is left out of the query.
AllMessagesAfterCursor == [i \in 1 .. Len(log) - cursor |-> cursor + i]

\* The mirror node's answer to timestamp=gt:cursor, limit, order=asc.
MessagesAfterCursor ==
  [i \in 1 .. AtMost(Len(log) - cursor, Limit) |-> cursor + i]

Poll ==
  /\ phase = "head"
  /\ ~ aborted
  /\ phase' = "polling"
  /\ UNCHANGED <<log, cursor, batch, interval, aborted, delivered, abortedAt>>

Exit ==
  /\ phase = "head"
  /\ aborted
  /\ phase' = "ended"
  /\ UNCHANGED <<log, cursor, batch, interval, aborted, delivered, abortedAt>>

\* Mutant: any error ends the stream.
CaughtEnds(current) ==
  /\ batch' = << >>
  /\ phase' = "ended"
  /\ interval' = current
  /\ UNCHANGED delivered

\* The catch clause: leave when aborted, otherwise back off and sleep.
Caught(current) ==
  /\ batch' = << >>
  /\ IF aborted
     THEN phase' = "ended" /\ interval' = current
     ELSE phase' = "sleeping" /\ interval' = BackedOffOnError(current)
  /\ UNCHANGED delivered

\* Mutant: a message that cannot be mapped is passed over.
HandSkippingBad(messages, current) ==
  LET good == SelectSeq(messages, LAMBDA i : log[i] = Good)
  IN /\ batch' = good
     /\ interval' = current
     /\ IF good = << >>
        THEN phase' = "sleeping" /\ UNCHANGED delivered
        ELSE phase' = "yielded" /\ delivered' = Append(delivered, Head(good))

\* The for loop goes on with `messages`: sleep after the last one, yield the
\* next one, or throw when it cannot be mapped.
Hand(messages, current) ==
  IF messages = << >>
  THEN /\ phase' = "sleeping"
       /\ batch' = << >>
       /\ interval' = current
       /\ UNCHANGED delivered
  ELSE IF log[Head(messages)] = Good
       THEN /\ phase' = "yielded"
            /\ batch' = messages
            /\ delivered' = Append(delivered, Head(messages))
            /\ interval' = current
       ELSE Caught(current)

\* The poll resolves: an empty page backs off, a page with messages resets
\* the interval before its first message is mapped.
PollSucceeds ==
  /\ phase = "polling"
  /\ Hand(MessagesAfterCursor,
          IF MessagesAfterCursor = << >> THEN BackedOff(interval) ELSE MinInterval)
  /\ UNCHANGED <<log, cursor, aborted, abortedAt>>

\* The poll rejects, or resolves with something that has no messages to read
\* (a 304 whose body left the cache: data is null).
PollFails ==
  /\ phase = "polling"
  /\ Caught(interval)
  /\ UNCHANGED <<log, cursor, aborted, abortedAt>>

\* Mutant: the cursor stays behind until the page is finished.
ResumeLate ==
  /\ phase = "yielded"
  /\ cursor' = IF Len(batch) = 1 THEN Head(batch) ELSE cursor
  /\ Hand(Tail(batch), interval)
  /\ UNCHANGED <<log, aborted, abortedAt>>

\* The consumer calls next(): the cursor moves past the message it is done
\* with, and the loop goes on.  The signal is not looked at.
Resume ==
  /\ phase = "yielded"
  /\ cursor' = Head(batch)
  /\ Hand(Tail(batch), interval)
  /\ UNCHANGED <<log, aborted, abortedAt>>

\* The consumer leaves its for-await loop: return() ends the generator.
Return ==
  /\ phase = "yielded"
  /\ phase' = "left"
  /\ batch' = << >>
  /\ UNCHANGED <<log, cursor, interval, aborted, delivered, abortedAt>>

\* The timer of sleep().
Wake ==
  /\ phase = "sleeping"
  /\ phase' = "head"
  /\ UNCHANGED <<log, cursor, batch, interval, aborted, delivered, abortedAt>>

\* Mutant: aborting a sleep clears its timer but does not resolve it.
AbortHangs ==
  /\ ~ aborted
  /\ aborted' = TRUE
  /\ abortedAt' = Len(delivered)
  /\ phase' = IF phase = "sleeping" THEN "hung" ELSE phase
  /\ UNCHANGED <<log, cursor, batch, interval, delivered>>

\* Aborting ends a sleep at once; a sleep begun after the abort runs its time.
Abort ==
  /\ ~ aborted
  /\ aborted' = TRUE
  /\ abortedAt' = Len(delivered)
  /\ phase' = IF phase = "sleeping" THEN "head" ELSE phase
  /\ UNCHANGED <<log, cursor, batch, interval, delivered>>

\* External: a message is added to the topic.
Publish ==
  /\ Len(log) < MaxMessages
  /\ \E kind \in Kinds : log' = Append(log, kind)
  /\ UNCHANGED <<phase, cursor, batch, interval, aborted, delivered, abortedAt>>

Next ==
  \/ Poll
  \/ Exit
  \/ PollSucceeds
  \/ PollFails
  \/ Resume
  \/ Return
  \/ Wake
  \/ Abort
  \/ Publish

\* The generator and its timer run; every poll settles (HttpClient), and they
\* do not fail for ever; the consumer asks for more or leaves.
Fairness ==
  /\ WF_vars(Poll)
  /\ WF_vars(Exit)
  /\ WF_vars(PollSucceeds \/ PollFails)
  /\ SF_vars(PollSucceeds)
  /\ WF_vars(Wake)
  /\ WF_vars(Resume)

Spec == Init /\ [][Next]_vars /\ Fairness

----------------------------------------------------------------------------

\* The generator's state is well typed, and the interval never exceeds the
\* maximum but for the base interval the caller asked for.
TypeOK ==
  /\ log \in Seq(Kinds)
  /\ phase \in Phases
  /\ cursor \in StartAt .. Len(log)
  /\ batch \in Seq(StartAt + 1 .. Len(log))
  /\ Len(batch) <= Limit
  /\ interval \in 0 .. MaxInterval \/ interval = BaseInterval
  /\ aborted \in BOOLEAN
  /\ delivered \in Seq(StartAt + 1 .. Len(log))
  /\ abortedAt \in 0 .. Len(delivered)

\* The cursor accounts for what the consumer has: it stands at the last
\* message yielded, or just before it while the consumer still holds that
\* one, so that a poll after any failure asks for exactly what is missing.
CursorAccountsForDeliveries ==
  ~ Over =>
    cursor = StartAt + Len(delivered) - (IF phase = "yielded" THEN 1 ELSE 0)

\* Cancelling takes effect late but boundedly: the page that is being handed
\* out, or the one that is under way, is the last the consumer sees.
LateDeliveriesAreBounded == aborted => Len(delivered) - abortedAt <= Limit

\* Polling implements the abstract subscription.
Feed == INSTANCE TopicFeed WITH open <- ~ Over
ImplementsFeed == Feed!Spec

\* The messages before the first one that cannot be read.
Readable(n) == n \in StartAt + 1 .. Len(log) /\ \A i \in StartAt + 1 .. n : log[i] = Good

\* Every message not preceded by an unreadable one is delivered, unless the
\* consumer cancels or leaves.
EveryReadableMessageArrives ==
  \A n \in StartAt + 1 .. MaxMessages :
    Readable(n) ~> (Len(delivered) >= n - StartAt \/ aborted \/ phase = "left")

\* A cancelled stream ends.
CancellingEnds == aborted ~> Over
=============================================================================
