------------------------- MODULE TopicStreamProofs -------------------------
(***************************************************************************)
(* Proofs about TopicStream, for every topic, page size and interval: its  *)
(* types, that the cursor accounts for what was delivered, that a cancel   *)
(* takes effect within a page, and that it implements TopicFeed.           *)
(***************************************************************************)
EXTENDS TopicStream, SequenceTheorems, TLAPS

\* The page being handed out is the run of positions right after the cursor.
PageFollowsCursor ==
  /\ phase = "yielded" <=> batch # << >>
  /\ \A i \in DOMAIN batch : batch[i] = cursor + i

\* What a cancelled stream may still hand out, with what it already did since
\* the abort, is at most one page.
CancelBudget ==
  aborted =>
    /\ Len(delivered) - abortedAt <= Limit
    /\ phase = "polling" => Len(delivered) = abortedAt
    /\ phase = "yielded" => Len(delivered) - abortedAt + Len(batch) <= Limit + 1

\* What the steps preserve together.
Invariant ==
  /\ TypeOK
  /\ CursorAccountsForDeliveries
  /\ PageFollowsCursor
  /\ CancelBudget

\* The intervals the generator may hold.
Interval(ms) == ms \in 0 .. MaxInterval \/ ms = BaseInterval

\* Both ways of backing off keep the interval within its bounds.
LEMMA BackOffIsInterval ==
  ASSUME NEW ms, Interval(ms)
  PROVE  /\ Interval(BackedOff(ms))
         /\ Interval(BackedOffOnError(ms))
         /\ Interval(MinInterval)
<1>1. ms \in Nat /\ MaxInterval \in Nat /\ MinInterval \in 0 .. MaxInterval
  BY StreamAssumption DEF Interval
<1>2. (ms * 3) \div 2 \in Nat /\ ms * 3 \in Nat
  BY <1>1
<1>3. \A n \in Nat : AtMost(n, MaxInterval) \in 0 .. MaxInterval
  BY <1>1 DEF AtMost
<1> QED BY <1>1, <1>2, <1>3 DEF Interval, BackedOff, BackedOffOnError

----------------------------------------------------------------------------
(* The invariant *)

\* A new stream has delivered nothing and stands at its starting point.
LEMMA InvariantInit ==
  ASSUME Init
  PROVE  Invariant
<1>1. StartAt \in Nat /\ Limit \in Nat /\ BaseInterval \in Nat
  BY StreamAssumption
<1>2. log \in Seq(Kinds) /\ Len(log) = StartAt
  BY <1>1 DEF Init
<1>3. /\ batch \in Seq(StartAt + 1 .. Len(log)) /\ Len(batch) = 0
      /\ delivered \in Seq(StartAt + 1 .. Len(log)) /\ Len(delivered) = 0
      /\ DOMAIN batch = {}
  BY EmptySeq DEF Init
<1>4. TypeOK
  <2>1. cursor \in StartAt .. Len(log) /\ abortedAt \in 0 .. Len(delivered)
    BY <1>1, <1>2, <1>3 DEF Init
  <2>2. phase \in Phases /\ aborted \in BOOLEAN /\ interval = BaseInterval
    BY DEF Init, Phases
  <2>3. Len(batch) <= Limit
    BY <1>1, <1>3
  <2> QED BY <1>2, <1>3, <2>1, <2>2, <2>3 DEF TypeOK
<1>5. CursorAccountsForDeliveries
  BY <1>1, <1>3 DEF Init, CursorAccountsForDeliveries
<1>6. PageFollowsCursor
  BY <1>3 DEF Init, PageFollowsCursor
<1> QED BY <1>4, <1>5, <1>6 DEF Init, Invariant, CancelBudget

\* The catch clause keeps the invariant, wherever the error came from.
LEMMA CaughtKeepsInvariant ==
  ASSUME Invariant,
         NEW current, Interval(current), Caught(current),
         cursor' \in StartAt .. Len(log),
         cursor' = StartAt + Len(delivered),
         UNCHANGED <<log, aborted, abortedAt>>
  PROVE  Invariant'
<1>1. /\ batch' = << >> /\ delivered' = delivered /\ log' = log
      /\ aborted' = aborted /\ abortedAt' = abortedAt
      /\ phase' \in {"ended", "sleeping"}
      /\ interval' \in {current, BackedOffOnError(current)}
  BY DEF Caught
<1>2. /\ batch' \in Seq(StartAt + 1 .. Len(log)) /\ Len(batch') = 0
      /\ DOMAIN batch' = {}
  BY <1>1, EmptySeq
<1>3. Interval(interval')
  BY <1>1, BackOffIsInterval
<1>4. TypeOK'
  BY <1>1, <1>2, <1>3, StreamAssumption DEF Invariant, TypeOK, Interval, Phases
<1>5. CursorAccountsForDeliveries'
  BY <1>1 DEF Invariant, TypeOK, CursorAccountsForDeliveries
<1>6. PageFollowsCursor'
  BY <1>1, <1>2 DEF PageFollowsCursor
<1>7. CancelBudget'
  BY <1>1 DEF Invariant, CancelBudget
<1> QED BY <1>4, <1>5, <1>6, <1>7 DEF Invariant

\* Handing out the messages right after the cursor keeps the invariant.
LEMMA HandKeepsInvariant ==
  ASSUME Invariant,
         NEW messages \in Seq(StartAt + 1 .. Len(log)),
         NEW current, Interval(current), Hand(messages, current),
         Len(messages) <= Limit,
         cursor' \in StartAt .. Len(log),
         cursor' = StartAt + Len(delivered),
         \A i \in DOMAIN messages : messages[i] = cursor' + i,
         aborted => Len(delivered) - abortedAt + Len(messages) <= Limit,
         UNCHANGED <<log, aborted, abortedAt>>
  PROVE  Invariant'
<1>0. /\ StartAt \in Nat /\ Limit \in Nat /\ Len(log) \in Nat
      /\ Len(delivered) \in Nat /\ abortedAt \in Nat
      /\ Len(messages) \in Nat /\ DOMAIN messages = 1 .. Len(messages)
      /\ log' = log /\ aborted' = aborted /\ abortedAt' = abortedAt
  BY StreamAssumption, LenProperties DEF Invariant, TypeOK
<1>1. CASE messages = << >>
  <2>1. /\ phase' = "sleeping" /\ batch' = << >> /\ interval' = current
        /\ delivered' = delivered
    BY <1>1 DEF Hand
  <2>2. batch' \in Seq(StartAt + 1 .. Len(log)) /\ Len(batch') = 0 /\ DOMAIN batch' = {}
    BY <2>1, EmptySeq
  <2>3. TypeOK'
    BY <1>0, <2>1, <2>2 DEF Invariant, TypeOK, Interval, Phases
  <2>4. CursorAccountsForDeliveries'
    BY <1>0, <2>1 DEF CursorAccountsForDeliveries
  <2>5. PageFollowsCursor' /\ CancelBudget'
    BY <1>0, <2>1, <2>2 DEF Invariant, PageFollowsCursor, CancelBudget
  <2> QED BY <2>3, <2>4, <2>5 DEF Invariant
<1>2. CASE messages # << >> /\ log[Head(messages)] = Good
  <2>1. /\ phase' = "yielded" /\ batch' = messages /\ interval' = current
        /\ delivered' = Append(delivered, Head(messages))
    BY <1>2 DEF Hand
  <2>2. /\ Head(messages) \in StartAt + 1 .. Len(log)
        /\ delivered \in Seq(StartAt + 1 .. Len(log))
    BY <1>2, HeadTailProperties DEF Invariant, TypeOK
  <2>3. /\ delivered' \in Seq(StartAt + 1 .. Len(log))
        /\ Len(delivered') = Len(delivered) + 1
    BY <2>1, <2>2, AppendProperties
  <2>4. TypeOK'
    BY <1>0, <2>1, <2>3 DEF Invariant, TypeOK, Interval, Phases
  <2>5. CursorAccountsForDeliveries'
    BY <1>0, <2>1, <2>3 DEF CursorAccountsForDeliveries
  <2>6. PageFollowsCursor'
    BY <1>0, <1>2, <2>1 DEF PageFollowsCursor
  <2>7. CancelBudget'
    <3>1. Len(messages) >= 1
      BY <1>0, <1>2, EmptySeq
    <3> QED BY <1>0, <2>1, <2>3, <3>1 DEF CancelBudget
  <2> QED BY <2>4, <2>5, <2>6, <2>7 DEF Invariant
<1>3. CASE messages # << >> /\ log[Head(messages)] # Good
  BY <1>3, CaughtKeepsInvariant DEF Hand
<1> QED BY <1>1, <1>2, <1>3

\* The answer of the mirror node is a page of what follows the cursor.
LEMMA AnswerFollowsCursor ==
  ASSUME TypeOK
  PROVE  /\ MessagesAfterCursor \in Seq(StartAt + 1 .. Len(log))
         /\ Len(MessagesAfterCursor) <= Limit
         /\ \A i \in DOMAIN MessagesAfterCursor : MessagesAfterCursor[i] = cursor + i
<1> DEFINE n == AtMost(Len(log) - cursor, Limit)
<1>1. /\ StartAt \in Nat /\ Limit \in Nat /\ Len(log) \in Nat
      /\ cursor \in StartAt .. Len(log)
  BY StreamAssumption, LenProperties DEF TypeOK
<1>2. n \in Nat /\ n <= Limit /\ n <= Len(log) - cursor
  BY <1>1 DEF AtMost
<1>3. MessagesAfterCursor = [i \in 1 .. n |-> cursor + i]
  BY DEF MessagesAfterCursor
<1>4. \A i \in 1 .. n : cursor + i \in StartAt + 1 .. Len(log)
  BY <1>1, <1>2
<1> HIDE DEF n
<1>5. MessagesAfterCursor \in [1 .. n -> StartAt + 1 .. Len(log)]
  BY <1>3, <1>4
<1>6. MessagesAfterCursor \in Seq(StartAt + 1 .. Len(log))
  BY <1>2, <1>5, SeqDef, Zenon
<1>7. Len(MessagesAfterCursor) = n
  BY <1>2, <1>3, <1>6, LenProperties
<1> QED BY <1>2, <1>3, <1>6, <1>7

\* A resolved poll hands out the page after the cursor.
LEMMA PollSucceedsKeepsInvariant ==
  ASSUME Invariant, PollSucceeds
  PROVE  Invariant'
<1> DEFINE current == IF MessagesAfterCursor = << >> THEN BackedOff(interval) ELSE MinInterval
<1>1. /\ Hand(MessagesAfterCursor, current) /\ phase = "polling"
      /\ UNCHANGED <<log, cursor, aborted, abortedAt>>
  BY DEF PollSucceeds
<1>2. Interval(current)
  BY BackOffIsInterval DEF Invariant, TypeOK, Interval
<1>3. cursor = StartAt + Len(delivered) /\ cursor \in StartAt .. Len(log)
  BY <1>1, StreamAssumption
  DEF Invariant, TypeOK, CursorAccountsForDeliveries, Over
<1>4. aborted => Len(delivered) - abortedAt + Len(MessagesAfterCursor) <= Limit
  <2>1. aborted => Len(delivered) = abortedAt
    BY <1>1 DEF Invariant, CancelBudget
  <2>2. Len(MessagesAfterCursor) \in Nat /\ Len(MessagesAfterCursor) <= Limit
    BY AnswerFollowsCursor, LenProperties DEF Invariant
  <2> QED BY <2>1, <2>2, StreamAssumption DEF Invariant, TypeOK
<1> HIDE DEF current
<1> QED
  BY <1>1, <1>2, <1>3, <1>4, AnswerFollowsCursor, HandKeepsInvariant DEF Invariant

\* The rest of the page follows the cursor once it has moved on.
LEMMA RestFollowsCursor ==
  ASSUME Invariant, phase = "yielded"
  PROVE  /\ batch # << >>
         /\ Head(batch) = cursor + 1
         /\ Head(batch) = StartAt + Len(delivered)
         /\ Head(batch) \in StartAt + 1 .. Len(log)
         /\ Tail(batch) \in Seq(StartAt + 1 .. Len(log))
         /\ Len(Tail(batch)) = Len(batch) - 1
         /\ \A i \in DOMAIN Tail(batch) : Tail(batch)[i] = Head(batch) + i
<1>1. /\ batch # << >> /\ batch \in Seq(StartAt + 1 .. Len(log))
      /\ \A i \in DOMAIN batch : batch[i] = cursor + i
  BY DEF Invariant, TypeOK, PageFollowsCursor
<1>2. /\ Tail(batch) \in Seq(StartAt + 1 .. Len(log))
      /\ Len(Tail(batch)) = Len(batch) - 1
      /\ Head(batch) \in StartAt + 1 .. Len(log)
      /\ \A i \in 1 .. Len(Tail(batch)) : Tail(batch)[i] = batch[i + 1]
  BY <1>1, HeadTailProperties
<1>3. /\ Len(batch) \in Nat /\ DOMAIN batch = 1 .. Len(batch) /\ Len(batch) # 0
      /\ DOMAIN Tail(batch) = 1 .. Len(Tail(batch))
  BY <1>1, <1>2, LenProperties, EmptySeq
<1>4. cursor \in Int /\ cursor = StartAt + Len(delivered) - 1
      /\ StartAt \in Int /\ Len(delivered) \in Int
  BY StreamAssumption DEF Invariant, TypeOK, CursorAccountsForDeliveries, Over
<1>5. Head(batch) = cursor + 1
  BY <1>1, <1>3
<1>6. \A i \in DOMAIN Tail(batch) : Tail(batch)[i] = Head(batch) + i
  BY <1>1, <1>2, <1>3, <1>4, <1>5
<1> QED BY <1>1, <1>2, <1>4, <1>5, <1>6

\* The consumer's next() hands out the rest of the page.
LEMMA ResumeKeepsInvariant ==
  ASSUME Invariant, Resume
  PROVE  Invariant'
<1>1. /\ phase = "yielded" /\ cursor' = Head(batch)
      /\ Hand(Tail(batch), interval)
      /\ UNCHANGED <<log, aborted, abortedAt>>
  BY DEF Resume
<1>2. Interval(interval)
  BY DEF Invariant, TypeOK, Interval
<1>3. cursor' = StartAt + Len(delivered) /\ cursor' \in StartAt .. Len(log)
  BY <1>1, RestFollowsCursor, StreamAssumption DEF Invariant, TypeOK
<1>4. /\ Len(batch) \in Nat /\ Len(batch) <= Limit /\ Limit \in Nat
      /\ Len(delivered) \in Nat /\ abortedAt \in Nat
  BY StreamAssumption, LenProperties DEF Invariant, TypeOK
<1>5. Len(Tail(batch)) <= Limit
  BY <1>1, <1>4, RestFollowsCursor
<1>6. aborted => Len(delivered) - abortedAt + Len(Tail(batch)) <= Limit
  BY <1>1, <1>4, RestFollowsCursor DEF Invariant, CancelBudget
<1> QED
  BY <1>1, <1>2, <1>3, <1>5, <1>6, RestFollowsCursor, HandKeepsInvariant

\* Every step keeps the invariant.
LEMMA InvariantStep ==
  ASSUME Invariant, [Next]_vars
  PROVE  Invariant'
<1> USE DEF Invariant
<1>1. CASE Poll
  BY <1>1 DEF Poll, TypeOK, Phases, CursorAccountsForDeliveries, Over,
              PageFollowsCursor, CancelBudget
<1>2. CASE Exit
  BY <1>2 DEF Exit, TypeOK, Phases, CursorAccountsForDeliveries, Over,
              PageFollowsCursor, CancelBudget
<1>3. CASE PollSucceeds
  BY <1>3, PollSucceedsKeepsInvariant
<1>4. CASE PollFails
  <2>1. cursor = StartAt + Len(delivered) /\ Interval(interval)
    BY <1>4, StreamAssumption
    DEF PollFails, TypeOK, CursorAccountsForDeliveries, Over, Interval
  <2> QED BY <1>4, <2>1, CaughtKeepsInvariant DEF PollFails, TypeOK
<1>5. CASE Resume
  BY <1>5, ResumeKeepsInvariant
<1>6. CASE Return
  <2>1. batch' \in Seq(StartAt + 1 .. Len(log)) /\ Len(batch') = 0 /\ DOMAIN batch' = {}
    BY <1>6, EmptySeq DEF Return
  <2> QED
    BY <1>6, <2>1, StreamAssumption
    DEF Return, TypeOK, Phases, CursorAccountsForDeliveries, Over,
        PageFollowsCursor, CancelBudget
<1>7. CASE Wake
  BY <1>7 DEF Wake, TypeOK, Phases, CursorAccountsForDeliveries, Over,
              PageFollowsCursor, CancelBudget
<1>8. CASE Abort
  <2>1. Len(delivered) \in Nat /\ Len(batch) <= Limit /\ Limit \in Nat
        /\ Len(batch) \in Nat
    BY StreamAssumption, LenProperties DEF TypeOK
  <2>2. TypeOK'
    BY <1>8, <2>1 DEF Abort, TypeOK, Phases
  <2>3. CursorAccountsForDeliveries' /\ PageFollowsCursor'
    BY <1>8 DEF Abort, CursorAccountsForDeliveries, Over, PageFollowsCursor
  <2>4. CancelBudget'
    BY <1>8, <2>1 DEF Abort, CancelBudget
  <2> QED BY <2>2, <2>3, <2>4
<1>9. CASE Publish
  <2>1. PICK kind \in Kinds : log' = Append(log, kind)
    BY <1>9 DEF Publish
  <2>2. log' \in Seq(Kinds) /\ Len(log') = Len(log) + 1 /\ Len(log) \in Nat
    BY <2>1, AppendProperties, LenProperties DEF TypeOK
  <2>3. StartAt + 1 .. Len(log) \subseteq StartAt + 1 .. Len(log')
    BY <2>2, StreamAssumption
  <2>4. /\ batch' \in Seq(StartAt + 1 .. Len(log'))
        /\ delivered' \in Seq(StartAt + 1 .. Len(log'))
    BY <1>9, <2>3, SeqMonotonic DEF Publish, TypeOK
  <2>5. TypeOK'
    BY <1>9, <2>2, <2>4, StreamAssumption DEF Publish, TypeOK
  <2>6. CursorAccountsForDeliveries' /\ PageFollowsCursor' /\ CancelBudget'
    BY <1>9 DEF Publish, CursorAccountsForDeliveries, Over, PageFollowsCursor, CancelBudget
  <2> QED BY <2>5, <2>6
<1>10. CASE UNCHANGED vars
  BY <1>10 DEF vars, TypeOK, CursorAccountsForDeliveries, Over, PageFollowsCursor, CancelBudget
<1> QED
  BY <1>1, <1>2, <1>3, <1>4, <1>5, <1>6, <1>7, <1>8, <1>9, <1>10 DEF Next

----------------------------------------------------------------------------
(* The theorems *)

\* The invariant holds in every reachable state.
THEOREM InvariantHolds == Spec => []Invariant
<1>1. Init => Invariant
  BY InvariantInit
<1>2. Invariant /\ [Next]_vars => Invariant'
  BY InvariantStep
<1> QED BY <1>1, <1>2, PTL DEF Spec

\* The generator's state stays well typed, its interval within its bounds.
THEOREM TypeCorrect == Spec => []TypeOK
<1>1. Invariant => TypeOK
  BY DEF Invariant
<1> QED BY <1>1, InvariantHolds, PTL

\* The cursor (stream.ts:79) and what the consumer has got never drift apart,
\* whatever errors, unreadable messages and aborts interrupt a page.
THEOREM CursorIsAccurate == Spec => []CursorAccountsForDeliveries
<1>1. Invariant => CursorAccountsForDeliveries
  BY DEF Invariant
<1> QED BY <1>1, InvariantHolds, PTL

\* After an abort at most one page is still handed out, for every page size.
THEOREM CancelIsPrompt == Spec => []LateDeliveriesAreBounded
<1>1. Invariant => LateDeliveriesAreBounded
  BY DEF Invariant, CancelBudget, LateDeliveriesAreBounded
<1> QED BY <1>1, InvariantHolds, PTL

\* One hand-out is a delivery of the abstract subscription, its end, or nothing.
LEMMA HandImplementsFeed ==
  ASSUME ~ Over, log' = log,
         NEW messages, NEW current, Hand(messages, current),
         messages # << >> => /\ Head(messages) = StartAt + Len(delivered) + 1
                             /\ Head(messages) <= Len(log)
  PROVE  [Feed!Next]_Feed!vars
<1>1. CASE messages = << >>
  BY <1>1 DEF Hand, Over, Feed!vars
<1>2. CASE messages # << >> /\ log[Head(messages)] = Good
  <2>1. Feed!Deliver
    BY <1>2 DEF Hand, Over, Feed!Deliver
  <2> QED BY <2>1 DEF Feed!Next
<1>3. CASE messages # << >> /\ log[Head(messages)] # Good
  <2>1. CASE aborted
    BY <1>3, <2>1 DEF Hand, Caught, Over, Feed!Next, Feed!Close
  <2>2. CASE ~ aborted
    BY <1>3, <2>2 DEF Hand, Caught, Over, Feed!vars
  <2> QED BY <2>1, <2>2
<1> QED BY <1>1, <1>2, <1>3

\* Every step of the polling is one of the subscription, or invisible to it.
LEMMA StepImplementsFeed ==
  ASSUME Invariant, [Next]_vars
  PROVE  [Feed!Next]_Feed!vars
<1>1. CASE Poll \/ Wake
  BY <1>1 DEF Poll, Wake, Over, Feed!vars
<1>2. CASE Exit \/ Return
  BY <1>2 DEF Exit, Return, Over, Feed!Next, Feed!Close
<1>3. CASE PollSucceeds
  <2>1. ~ Over /\ cursor = StartAt + Len(delivered) /\ log' = log
    BY <1>3, StreamAssumption
    DEF PollSucceeds, Over, Invariant, TypeOK, CursorAccountsForDeliveries
  <2>2. ASSUME MessagesAfterCursor # << >>
        PROVE  /\ Head(MessagesAfterCursor) = cursor + 1
               /\ Head(MessagesAfterCursor) <= Len(log)
    <3>1. MessagesAfterCursor \in Seq(StartAt + 1 .. Len(log))
      BY AnswerFollowsCursor DEF Invariant
    <3>2. Head(MessagesAfterCursor) \in StartAt + 1 .. Len(log)
      BY <2>2, <3>1, HeadTailProperties
    <3>3. 1 \in DOMAIN MessagesAfterCursor
      BY <2>2, <3>1, LenProperties, EmptySeq
    <3>4. Head(MessagesAfterCursor) = MessagesAfterCursor[1]
      BY <3>1
    <3> QED BY <3>2, <3>3, <3>4, AnswerFollowsCursor DEF Invariant, TypeOK
  <2> QED BY <1>3, <2>1, <2>2, HandImplementsFeed DEF PollSucceeds
<1>4. CASE PollFails
  <2>1. CASE aborted
    BY <1>4, <2>1 DEF PollFails, Caught, Over, Feed!Next, Feed!Close
  <2>2. CASE ~ aborted
    BY <1>4, <2>2 DEF PollFails, Caught, Over, Feed!vars
  <2> QED BY <2>1, <2>2
<1>5. CASE Resume
  <2>1. ~ Over /\ log' = log /\ phase = "yielded" /\ Hand(Tail(batch), interval)
    BY <1>5 DEF Resume, Over
  <2>2. ASSUME Tail(batch) # << >>
        PROVE  /\ Head(Tail(batch)) = Head(batch) + 1
               /\ Head(Tail(batch)) <= Len(log)
    <3>1. /\ Tail(batch) \in Seq(StartAt + 1 .. Len(log))
          /\ \A i \in DOMAIN Tail(batch) : Tail(batch)[i] = Head(batch) + i
      BY <2>1, RestFollowsCursor
    <3>2. Head(Tail(batch)) \in StartAt + 1 .. Len(log)
      BY <2>2, <3>1, HeadTailProperties
    <3>3. 1 \in DOMAIN Tail(batch)
      BY <2>2, <3>1, LenProperties, EmptySeq
    <3>4. Head(Tail(batch)) = Tail(batch)[1]
      <4>1. PICK rest \in Seq(StartAt + 1 .. Len(log)) : rest = Tail(batch)
        BY <3>1
      <4>2. Head(rest) = rest[1]
        OBVIOUS
      <4> QED BY <4>1, <4>2
    <3> QED BY <3>1, <3>2, <3>3, <3>4 DEF Invariant, TypeOK
  <2>3. Head(batch) = StartAt + Len(delivered)
    BY <2>1, RestFollowsCursor
  <2> QED BY <2>1, <2>2, <2>3, HandImplementsFeed
<1>6. CASE Abort
  BY <1>6 DEF Abort, Over, Feed!vars
<1>7. CASE Publish
  BY <1>7 DEF Publish, Over, Feed!Next, Feed!Publish, Kinds
<1>8. CASE UNCHANGED vars
  BY <1>8 DEF vars, Over, Feed!vars
<1> QED
  BY <1>1, <1>2, <1>3, <1>4, <1>5, <1>6, <1>7, <1>8 DEF Next

\* Polling implements the abstract subscription: every message once, in
\* order, none skipped, for every topic and page size.
THEOREM StreamImplementsFeed == Spec => ImplementsFeed
<1>1. Init => Feed!Init
  BY DEF Init, Feed!Init, Over, Kinds
<1>2. Invariant /\ [Next]_vars => [Feed!Next]_Feed!vars
  BY StepImplementsFeed
<1> QED
  BY <1>1, <1>2, InvariantHolds, PTL DEF Spec, ImplementsFeed, Feed!Spec
=============================================================================
