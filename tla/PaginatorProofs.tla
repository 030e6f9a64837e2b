-------------------------- MODULE PaginatorProofs --------------------------
(***************************************************************************)
(* Proofs about Paginator, for every number of walks, page size and length *)
(* of the list: its types, that items arrive in order, and that a walk     *)
(* that ends by itself has handed out the whole list.                      *)
(***************************************************************************)
EXTENDS Paginator, SequenceTheorems, TLAPS

\* Data is a run of items right behind the first `n` of the list.
RunBehind(n, data) == \A i \in DOMAIN data : data[i] = n + i

\* A cached response was the page of its path, and links only if it is full.
CachedWasPage ==
  \A p \in 0 .. MaxItems :
    cached[p] # None =>
      /\ RunBehind(p, cached[p].data)
      /\ {cached[p].inBody, cached[p].inHeader} \subseteq {None, p + Limit}
      /\ NextOf(cached[p]) # None => Len(cached[p].data) = Limit

\* A walk that has not begun has no use yet.
IdleIsUnused(w) == use[w] = None => phase[w] = "idle"

\* A walk that asks for a page has handed out exactly the items before it.
FetchesAtItsEnd(w) ==
  /\ phase[w] = "idle" => path[w] = 0
  /\ phase[w] \in {"idle", "fetching"} =>
       /\ left[w] = << >>
       /\ Len(delivered[w]) = path[w]
       /\ path[w] <= total

\* What a walk holds continues what it has handed out, and its link what it
\* holds; without a link there was nothing more, unless a 304 hid it.
HoldsTheNextItems(w) ==
  phase[w] = "held" =>
    LET end == Len(delivered[w]) + Len(left[w])
    IN /\ RunBehind(Len(delivered[w]), left[w])
       /\ link[w] # None => link[w] = end /\ end <= total
       /\ (link[w] = None /\ ~ cutShort[w]) => end = asOf[w]

\* The two properties, of one walk.
InOrder(w) == RunBehind(0, delivered[w])

Complete(w) ==
  (phase[w] = "done" /\ use[w] # "await" /\ ~ cutShort[w]) =>
    Len(delivered[w]) = asOf[w]

WalkInvariant(w) ==
  /\ IdleIsUnused(w)
  /\ FetchesAtItsEnd(w)
  /\ HoldsTheNextItems(w)
  /\ InOrder(w)
  /\ Complete(w)

\* What the steps preserve together.
Invariant ==
  /\ TypeOK
  /\ CachedWasPage
  /\ \A w \in Walks : WalkInvariant(w)

----------------------------------------------------------------------------
(* What a get() resolves with *)

\* The part of the list that a response keeps from the walk.
Hides(p, response) ==
  \/ response.data # PageAt(p)
  \/ LinkAt(p) \notin {response.inBody, response.inHeader}

\* A response of the page `p` is a run of items right behind the first `p`; it
\* links right behind itself, within the list; and without a link it ends
\* where the list ends, unless it hides something.
Answers(p, response) ==
  LET end == p + Len(response.data)
  IN /\ response \in Responses
     /\ RunBehind(p, response.data)
     /\ {response.inBody, response.inHeader} \subseteq {None, p + Limit}
     /\ NextOf(response) # None =>
          /\ Len(response.data) = Limit
          /\ NextOf(response) = end
          /\ end <= total
     /\ (NextOf(response) = None /\ ~ Hides(p, response)) => end = total

\* The page of a path is a run of items of the list.
LEMMA PageAtIsARun ==
  ASSUME total \in 0 .. MaxItems, NEW p \in 0 .. total
  PROVE  /\ PageAt(p) \in Seq(1 .. MaxItems)
         /\ Len(PageAt(p)) = IF p + Limit <= total THEN Limit ELSE total - p
         /\ RunBehind(p, PageAt(p))
<1> DEFINE n == IF p + Limit <= total THEN Limit ELSE total - p
<1>1. /\ n \in Nat /\ p + n <= total /\ p \in Nat
      /\ total \in Nat /\ MaxItems \in Nat /\ total <= MaxItems
  BY PaginatorAssumption
<1>2. PageAt(p) = [i \in 1 .. n |-> p + i]
  BY DEF PageAt
<1>3. \A i \in 1 .. n : p + i \in 1 .. MaxItems
  BY <1>1
<1> HIDE DEF n
<1>4. [i \in 1 .. n |-> p + i] \in Seq(1 .. MaxItems)
  BY <1>1, <1>3, IsASeq
<1>5. Len(PageAt(p)) = n
  BY <1>1, <1>2, <1>4, LenProperties
<1>6. RunBehind(p, PageAt(p))
  BY <1>2 DEF RunBehind
<1> QED BY <1>2, <1>4, <1>5, <1>6 DEF n

\* A fresh response answers for its path, and is fit for the cache.
LEMMA FreshResponsesAnswer ==
  ASSUME total \in 0 .. MaxItems, NEW p \in 0 .. total,
         NEW response \in FreshResponses(p)
  PROVE  Answers(p, response)
<1>1. /\ total \in Nat /\ p \in Nat /\ p <= total /\ MaxItems \in Nat
      /\ total <= MaxItems /\ Limit \in Nat \ {0} /\ None \notin Nat
  BY PaginatorAssumption
<1>2. /\ response.data = PageAt(p)
      /\ response.inBody \in {None, LinkAt(p)}
      /\ response.inHeader \in {None, LinkAt(p)}
      /\ LinkAt(p) \in {response.inBody, response.inHeader}
      /\ response = [data |-> response.data, inBody |-> response.inBody,
                     inHeader |-> response.inHeader]
  BY DEF FreshResponses, Response
<1>3. LinkAt(p) \in 0 .. MaxItems \cup {None}
  BY <1>1 DEF LinkAt
<1>4. response \in Responses
  BY <1>2, <1>3, PageAtIsARun DEF Responses
<1>5. NextOf(response) = LinkAt(p)
  BY <1>2 DEF NextOf
<1>6. LinkAt(p) # None => LinkAt(p) = p + Limit /\ p + Limit <= total
  BY DEF LinkAt
<1>7. LinkAt(p) = None => ~ (p + Limit <= total)
  BY <1>1 DEF LinkAt
<1> QED BY <1>1, <1>2, <1>4, <1>5, <1>6, <1>7, PageAtIsARun DEF Answers

\* So does a 304, with what is left of the page.
LEMMA NotModifiedResponsesAnswer ==
  ASSUME TypeOK, CachedWasPage, NEW p \in 0 .. total,
         NEW response \in NotModifiedResponses(p)
  PROVE  Answers(p, response)
<1>1. /\ total \in Nat /\ p \in Nat /\ p <= total /\ MaxItems \in Nat
      /\ total <= MaxItems /\ Limit \in Nat \ {0} /\ None \notin Nat
      /\ total \in 0 .. MaxItems /\ p \in 0 .. MaxItems
  BY PaginatorAssumption DEF TypeOK
<1>2. cached[p] # None /\ cached[p].data = PageAt(p)
  BY DEF NotModifiedResponses
<1>3. cached[p] \in Responses
  BY <1>1, <1>2 DEF TypeOK
<1>4. /\ {cached[p].inBody, cached[p].inHeader} \subseteq {None, p + Limit}
      /\ NextOf(cached[p]) # None => Len(PageAt(p)) = Limit
  BY <1>1, <1>2 DEF CachedWasPage
<1>5. Len(PageAt(p)) = Limit => p + Limit <= total
  BY <1>1, PageAtIsARun
<1>6. CASE response = Response(<< >>, None, None)
  <2>1. /\ response \in Responses /\ Len(response.data) = 0
        /\ RunBehind(p, response.data)
    BY <1>6, EmptySeq DEF Response, Responses, RunBehind
  <2>2. NextOf(response) = None /\ response.inBody = None /\ response.inHeader = None
    BY <1>6 DEF Response, NextOf
  <2>3. ~ Hides(p, response) => Len(PageAt(p)) = 0 /\ ~ (p + Limit <= total)
    BY <1>1, <1>6, <2>1, <2>2 DEF Hides, LinkAt
  <2> QED BY <1>1, <2>1, <2>2, <2>3, PageAtIsARun DEF Answers
<1>7. CASE response \in {cached[p], [cached[p] EXCEPT !.inHeader = None]}
  <2>1. /\ response \in Responses
        /\ response.data = PageAt(p)
        /\ response.inBody = cached[p].inBody
        /\ response.inHeader \in {None, cached[p].inHeader}
    BY <1>2, <1>3, <1>7 DEF Responses
  <2>2. /\ {response.inBody, response.inHeader} \subseteq {None, p + Limit}
        /\ NextOf(response) \in {None, p + Limit}
        /\ NextOf(response) # None => NextOf(cached[p]) # None
    BY <1>4, <2>1 DEF NextOf
  <2>3. (NextOf(response) = None /\ ~ Hides(p, response)) => ~ (p + Limit <= total)
    BY <1>1, <2>1 DEF NextOf, Hides, LinkAt
  <2> QED BY <1>1, <1>4, <1>5, <2>1, <2>2, <2>3, PageAtIsARun DEF Answers
<1> QED BY <1>2, <1>6, <1>7 DEF NotModifiedResponses

----------------------------------------------------------------------------
(* The steps *)

\* The types of the variables that belong to the walks.
WalkTypes ==
  /\ use \in [Walks -> Uses \cup {None}]
  /\ phase \in [Walks -> {"idle", "fetching", "held"} \cup Ended]
  /\ path \in [Walks -> 0 .. MaxItems]
  /\ left \in [Walks -> Seq(1 .. MaxItems)]
  /\ link \in [Walks -> 0 .. MaxItems \cup {None}]
  /\ delivered \in [Walks -> Seq(1 .. MaxItems)]

\* A step that does not concern a walk keeps what is known of it.
LEMMA UntouchedWalkIsKept ==
  ASSUME TypeOK, NEW w \in Walks, WalkInvariant(w),
         total' \in Nat, total <= total',
         use'[w] = use[w], phase'[w] = phase[w], path'[w] = path[w],
         left'[w] = left[w], link'[w] = link[w],
         delivered'[w] = delivered[w], asOf'[w] = asOf[w],
         cutShort'[w] = cutShort[w]
  PROVE  WalkInvariant(w)'
<1>1. /\ total \in Nat /\ path[w] \in Nat
      /\ Len(delivered[w]) \in Nat /\ Len(left[w]) \in Nat
      /\ MaxItems \in Nat
  BY PaginatorAssumption, LenProperties DEF TypeOK
<1>2. IdleIsUnused(w)' /\ InOrder(w)' /\ Complete(w)'
  BY DEF WalkInvariant, IdleIsUnused, InOrder, Complete, RunBehind
<1>3. FetchesAtItsEnd(w)'
  BY <1>1 DEF WalkInvariant, FetchesAtItsEnd
<1>4. ASSUME phase[w] = "held"
      PROVE  /\ RunBehind(Len(delivered[w]), left[w])
             /\ link[w] # None => /\ link[w] = Len(delivered[w]) + Len(left[w])
                                  /\ Len(delivered[w]) + Len(left[w]) <= total'
             /\ (link[w] = None /\ ~ cutShort[w]) =>
                  Len(delivered[w]) + Len(left[w]) = asOf[w]
  <2>1. /\ RunBehind(Len(delivered[w]), left[w])
        /\ link[w] # None => /\ link[w] = Len(delivered[w]) + Len(left[w])
                             /\ Len(delivered[w]) + Len(left[w]) <= total
        /\ (link[w] = None /\ ~ cutShort[w]) =>
             Len(delivered[w]) + Len(left[w]) = asOf[w]
    BY <1>4 DEF WalkInvariant, HoldsTheNextItems
  <2>2. \A n \in Nat : n <= total => n <= total'
    BY <1>1
  <2>3. Len(delivered[w]) + Len(left[w]) \in Nat
    <3>1. \A m, n \in Nat : m + n \in Nat
      OBVIOUS
    <3> QED BY <1>1, <3>1, Zenon
  <2> QED BY <2>1, <2>2, <2>3, Zenon
<1>5. HoldsTheNextItems(w)'
  BY <1>4 DEF HoldsTheNextItems, RunBehind
<1> QED BY <1>2, <1>3, <1>5 DEF WalkInvariant

\* A walk at the end of what it holds goes on behind it, or is done.
LEMMA FollowKeepsWalk ==
  ASSUME Invariant, NEW w \in Walks, NEW next \in 0 .. MaxItems \cup {None},
         Follow(w, next), use[w] # None,
         total' = total, use'[w] = use[w], left'[w] = << >>,
         delivered'[w] = delivered[w],
         next # None => next = Len(delivered[w]) /\ next <= total,
         (next = None /\ ~ cutShort'[w]) => Len(delivered[w]) = asOf'[w]
  PROVE  WalkInvariant(w)'
<1>1. phase'[w] \in {"done", "fetching"}
  BY DEF Follow, Invariant, TypeOK
<1>2. phase'[w] = "fetching" => path'[w] = Len(delivered[w]) /\ path'[w] <= total
  BY DEF Follow, Invariant, TypeOK
<1>3. phase'[w] = "done" => next = None
  BY DEF Follow, Invariant, TypeOK
<1>4. IdleIsUnused(w)' /\ HoldsTheNextItems(w)'
  BY <1>1 DEF IdleIsUnused, HoldsTheNextItems
<1>5. FetchesAtItsEnd(w)'
  BY <1>1, <1>2 DEF FetchesAtItsEnd
<1>6. InOrder(w)' /\ Complete(w)'
  BY <1>3 DEF Invariant, WalkInvariant, InOrder, Complete, RunBehind
<1> QED BY <1>4, <1>5, <1>6 DEF WalkInvariant

\* Following a link keeps the types.
LEMMA FollowKeepsTypes ==
  ASSUME Invariant, NEW w \in Walks, NEW next \in 0 .. MaxItems \cup {None},
         Follow(w, next)
  PROVE  /\ path' \in [Walks -> 0 .. MaxItems]
         /\ phase' \in [Walks -> {"idle", "fetching", "held"} \cup Ended]
BY DEF Follow, Invariant, TypeOK, Ended

\* Handing out the items next in order keeps them in order.
LEMMA HandOutKeepsOrder ==
  ASSUME Invariant, NEW w \in Walks,
         NEW items \in Seq(1 .. MaxItems), NEW rest \in Seq(1 .. MaxItems),
         HandOut(w, items, rest), RunBehind(Len(delivered[w]), items)
  PROVE  /\ delivered' \in [Walks -> Seq(1 .. MaxItems)]
         /\ left' \in [Walks -> Seq(1 .. MaxItems)]
         /\ left'[w] = rest
         /\ Len(delivered'[w]) = Len(delivered[w]) + Len(items)
         /\ InOrder(w)'
<1>1. /\ delivered \in [Walks -> Seq(1 .. MaxItems)]
      /\ left \in [Walks -> Seq(1 .. MaxItems)]
      /\ Len(delivered[w]) \in Nat /\ Len(items) \in Nat
      /\ DOMAIN delivered[w] = 1 .. Len(delivered[w])
      /\ DOMAIN items = 1 .. Len(items)
  BY LenProperties DEF Invariant, TypeOK
<1>2. delivered'[w] = delivered[w] \o items /\ left'[w] = rest
  BY <1>1 DEF HandOut
<1>3. /\ delivered[w] \o items \in Seq(1 .. MaxItems)
      /\ Len(delivered[w] \o items) = Len(delivered[w]) + Len(items)
      /\ \A i \in 1 .. Len(delivered[w]) + Len(items) :
           (delivered[w] \o items)[i] =
             IF i <= Len(delivered[w]) THEN delivered[w][i]
                                       ELSE items[i - Len(delivered[w])]
  BY <1>1, ConcatProperties
<1>4. /\ delivered' \in [Walks -> Seq(1 .. MaxItems)]
      /\ left' \in [Walks -> Seq(1 .. MaxItems)]
  BY <1>1, <1>3 DEF HandOut
<1>5. /\ \A i \in DOMAIN delivered[w] : delivered[w][i] = 0 + i
      /\ \A i \in DOMAIN items : items[i] = Len(delivered[w]) + i
  BY DEF Invariant, WalkInvariant, InOrder, RunBehind
<1>6. ASSUME NEW i \in 1 .. Len(delivered[w]) + Len(items)
      PROVE  (delivered[w] \o items)[i] = 0 + i
  <2>1. CASE i <= Len(delivered[w])
    <3>1. i \in 1 .. Len(delivered[w]) /\ i \in DOMAIN delivered[w]
      BY <1>1, <2>1
    <3> QED BY <1>3, <1>5, <2>1, <3>1
  <2>2. CASE ~ (i <= Len(delivered[w]))
    <3>1. i - Len(delivered[w]) \in 1 .. Len(items)
      BY <1>1, <2>2
    <3>2. items[i - Len(delivered[w])] = Len(delivered[w]) + (i - Len(delivered[w]))
      BY <1>1, <1>5, <3>1
    <3>3. Len(delivered[w]) + (i - Len(delivered[w])) = 0 + i
      BY <1>1
    <3> QED BY <1>3, <2>2, <3>2, <3>3
  <2> QED BY <2>1, <2>2
<1>7. DOMAIN delivered'[w] = 1 .. Len(delivered[w]) + Len(items)
  BY <1>2, <1>3, LenProperties
<1>8. InOrder(w)'
  BY <1>2, <1>6, <1>7 DEF InOrder, RunBehind
<1> QED BY <1>2, <1>3, <1>4, <1>8

\* The first item of a run, and what is left of the run behind it.
LEMMA HeadOfRun ==
  ASSUME NEW n \in Nat, NEW data \in Seq(1 .. MaxItems), data # << >>,
         RunBehind(n, data)
  PROVE  /\ << Head(data) >> \in Seq(1 .. MaxItems)
         /\ Len(<< Head(data) >>) = 1
         /\ RunBehind(n, << Head(data) >>)
         /\ Tail(data) \in Seq(1 .. MaxItems)
         /\ Len(Tail(data)) = Len(data) - 1
         /\ RunBehind(n + 1, Tail(data))
<1>1. /\ Len(data) \in Nat \ {0} /\ DOMAIN data = 1 .. Len(data)
  BY EmptySeq, LenProperties
<1>2. Head(data) = data[1]
  BY <1>1
<1>3. data[1] = n + 1 /\ data[1] \in 1 .. MaxItems
  <2>1. 1 \in 1 .. Len(data)
    BY <1>1
  <2>2. data[1] \in 1 .. MaxItems
    BY <2>1, ElementOfSeq
  <2> QED BY <1>1, <2>1, <2>2 DEF RunBehind
<1>4. /\ Tail(data) \in Seq(1 .. MaxItems)
      /\ Len(Tail(data)) = Len(data) - 1
      /\ \A i \in 1 .. Len(Tail(data)) : Tail(data)[i] = data[i + 1]
  BY HeadTailProperties
<1>5. DOMAIN Tail(data) = 1 .. Len(data) - 1
  BY <1>4, LenProperties
<1>6. RunBehind(n + 1, Tail(data))
  BY <1>1, <1>4, <1>5 DEF RunBehind
<1>7. << Head(data) >> \in Seq(1 .. MaxItems) /\ Len(<< Head(data) >>) = 1
  BY <1>2, <1>3
<1>8. RunBehind(n, << Head(data) >>)
  BY <1>2, <1>3 DEF RunBehind
<1> QED BY <1>4, <1>6, <1>7, <1>8

\* A response reaches its walk, whatever the walk makes of it.
Arrival(w, response) ==
  /\ Invariant
  /\ phase[w] = "fetching"
  /\ Answers(path[w], response)
  /\ UNCHANGED <<total, use>>
  /\ asOf'[w] = total
  /\ ~ cutShort'[w] => ~ Hides(path[w], response)

\* The response continues what the walk has handed out.
LEMMA ArrivalContinues ==
  ASSUME NEW w \in Walks, NEW response, Arrival(w, response)
  PROVE  LET end == Len(delivered[w]) + Len(response.data)
         IN /\ Len(delivered[w]) \in Nat /\ Len(response.data) \in Nat
            /\ use[w] # None /\ use'[w] = use[w]
            /\ response.data \in Seq(1 .. MaxItems)
            /\ RunBehind(Len(delivered[w]), response.data)
            /\ response.inBody \in 0 .. MaxItems \cup {None}
            /\ NextOf(response) \in 0 .. MaxItems \cup {None}
            /\ NextOf(response) # None =>
                 /\ NextOf(response) = end
                 /\ end <= total
                 /\ response.data # << >>
            /\ (NextOf(response) = None /\ ~ cutShort'[w]) => end = asOf'[w]
<1>1. /\ FetchesAtItsEnd(w) /\ IdleIsUnused(w) /\ TypeOK
  BY DEF Arrival, Invariant, WalkInvariant
<1>2. Len(delivered[w]) = path[w] /\ use[w] # None
  BY <1>1 DEF Arrival, FetchesAtItsEnd, IdleIsUnused
<1>3. response \in Responses
  BY DEF Arrival, Answers
<1>4. /\ response.data \in Seq(1 .. MaxItems)
      /\ response.inBody \in 0 .. MaxItems \cup {None}
      /\ NextOf(response) \in 0 .. MaxItems \cup {None}
  BY <1>3 DEF Responses, NextOf
<1>5. Len(delivered[w]) \in Nat /\ Len(response.data) \in Nat
  BY <1>1, <1>4, LenProperties DEF TypeOK
<1>6. Len(response.data) = Limit => response.data # << >>
  BY PaginatorAssumption, EmptySeq
<1>7. /\ RunBehind(Len(delivered[w]), response.data)
      /\ NextOf(response) # None =>
           /\ NextOf(response) = Len(delivered[w]) + Len(response.data)
           /\ Len(delivered[w]) + Len(response.data) <= total
           /\ Len(response.data) = Limit
      /\ (NextOf(response) = None /\ ~ cutShort'[w]) =>
           Len(delivered[w]) + Len(response.data) = asOf'[w]
  BY <1>2 DEF Arrival, Answers
<1>8. use'[w] = use[w]
  BY DEF Arrival
<1> QED BY <1>2, <1>4, <1>5, <1>6, <1>7, <1>8

\* await: the page is handed out, and the walk is over.
LEMMA ArriveAwaitedKeeps ==
  ASSUME NEW w \in Walks, NEW response, Arrival(w, response),
         ArriveAwaited(w, response)
  PROVE  WalkInvariant(w)' /\ WalkTypes'
<1>1. Invariant /\ TypeOK /\ use' = use
  BY DEF Arrival, Invariant
<1>2. << >> \in Seq(1 .. MaxItems)
  BY EmptySeq
<1>3. /\ delivered' \in [Walks -> Seq(1 .. MaxItems)]
      /\ left' \in [Walks -> Seq(1 .. MaxItems)]
      /\ InOrder(w)'
  BY <1>1, <1>2, ArrivalContinues, HandOutKeepsOrder DEF ArriveAwaited
<1>4. phase'[w] = "done" /\ use'[w] = "await"
  BY <1>1 DEF ArriveAwaited, TypeOK
<1>5. WalkInvariant(w)'
  BY <1>3, <1>4, PaginatorAssumption
  DEF WalkInvariant, IdleIsUnused, FetchesAtItsEnd, HoldsTheNextItems, Complete, Uses
<1>6. WalkTypes'
  BY <1>1, <1>3, ArrivalContinues DEF ArriveAwaited, TypeOK, WalkTypes, Ended
<1> QED BY <1>5, <1>6

\* pages(): the page is handed out, and held until the consumer comes back.
LEMMA ArrivePageKeeps ==
  ASSUME NEW w \in Walks, NEW response, Arrival(w, response),
         ArrivePage(w, response)
  PROVE  WalkInvariant(w)' /\ WalkTypes'
<1>1. Invariant /\ TypeOK /\ use' = use /\ total' = total
  BY DEF Arrival, Invariant
<1>2. << >> \in Seq(1 .. MaxItems) /\ Len(<< >>) = 0
  BY EmptySeq
<1>3. /\ delivered' \in [Walks -> Seq(1 .. MaxItems)]
      /\ left' \in [Walks -> Seq(1 .. MaxItems)]
      /\ left'[w] = << >>
      /\ Len(delivered'[w]) = Len(delivered[w]) + Len(response.data)
      /\ InOrder(w)'
  BY <1>1, <1>2, ArrivalContinues, HandOutKeepsOrder DEF ArrivePage
<1>4. phase'[w] = "held" /\ link'[w] = NextOf(response)
  BY <1>1 DEF ArrivePage, TypeOK
<1>5. Len(delivered'[w]) + Len(left'[w]) = Len(delivered[w]) + Len(response.data)
  BY <1>2, <1>3, ArrivalContinues
<1>6. RunBehind(Len(delivered[w]), left[w])'
  BY <1>3 DEF RunBehind
<1>7. HoldsTheNextItems(w)'
  BY <1>1, <1>4, <1>5, <1>6, ArrivalContinues DEF HoldsTheNextItems
<1>8. WalkInvariant(w)'
  BY <1>3, <1>4, <1>7, ArrivalContinues
  DEF WalkInvariant, IdleIsUnused, FetchesAtItsEnd, Complete
<1>9. WalkTypes'
  BY <1>1, <1>3, ArrivalContinues DEF ArrivePage, TypeOK, WalkTypes
<1> QED BY <1>8, <1>9

\* The item iterator: the first item is handed out, or the next page asked for.
LEMMA ArriveItemsKeeps ==
  ASSUME NEW w \in Walks, NEW response, Arrival(w, response),
         ArriveItems(w, response)
  PROVE  WalkInvariant(w)' /\ WalkTypes'
<1>1. Invariant /\ TypeOK /\ use' = use /\ total' = total
  BY DEF Arrival, Invariant
<1>2. link' \in [Walks -> 0 .. MaxItems \cup {None}] /\ link'[w] = NextOf(response)
  BY <1>1, ArrivalContinues DEF ArriveItems, TypeOK
<1>3. CASE response.data = << >>
  <2>1. /\ Follow(w, NextOf(response)) /\ delivered' = delivered /\ left' = left
    BY <1>3 DEF ArriveItems
  <2>2. left'[w] = << >>
    BY <1>1, <2>1 DEF Arrival, Invariant, WalkInvariant, FetchesAtItsEnd
  <2>3. NextOf(response) = None
    BY <1>3, ArrivalContinues
  <2>4. ~ cutShort'[w] => Len(delivered[w]) = asOf'[w]
    <3>1. Len(response.data) = 0 /\ Len(delivered[w]) \in Nat
      BY <1>3, ArrivalContinues, EmptySeq
    <3>2. Len(delivered[w]) + Len(response.data) = Len(delivered[w])
      BY <3>1
    <3> QED BY <2>3, <3>2, ArrivalContinues
  <2>5. WalkInvariant(w)'
    BY <1>1, <2>1, <2>2, <2>3, <2>4, ArrivalContinues, FollowKeepsWalk
  <2>6. WalkTypes'
    BY <1>1, <1>2, <2>1, ArrivalContinues, FollowKeepsTypes DEF WalkTypes, TypeOK
  <2> QED BY <2>5, <2>6
<1>4. CASE response.data # << >>
  <2> DEFINE first == << Head(response.data) >>
             rest == Tail(response.data)
  <2>1. /\ HandOut(w, first, rest) /\ phase' = [phase EXCEPT ![w] = "held"]
        /\ path' = path
    BY <1>4 DEF ArriveItems
  <2>2. /\ first \in Seq(1 .. MaxItems) /\ Len(first) = 1
        /\ RunBehind(Len(delivered[w]), first)
        /\ rest \in Seq(1 .. MaxItems)
        /\ Len(rest) = Len(response.data) - 1
        /\ RunBehind(Len(delivered[w]) + 1, rest)
    BY <1>4, ArrivalContinues, HeadOfRun
  <2> HIDE DEF first, rest
  <2>3. /\ delivered' \in [Walks -> Seq(1 .. MaxItems)]
        /\ left' \in [Walks -> Seq(1 .. MaxItems)]
        /\ left'[w] = rest
        /\ Len(delivered'[w]) = Len(delivered[w]) + 1
        /\ InOrder(w)'
    BY <1>1, <2>1, <2>2, HandOutKeepsOrder
  <2>4. phase'[w] = "held"
    BY <1>1, <2>1 DEF TypeOK
  <2>5. Len(delivered'[w]) + Len(left'[w]) = Len(delivered[w]) + Len(response.data)
    <3>1. Len(delivered[w]) \in Nat /\ Len(response.data) \in Nat
      BY ArrivalContinues
    <3>2. \A m, n \in Nat : (m + 1) + (n - 1) = m + n
      OBVIOUS
    <3>3. Len(left'[w]) = Len(response.data) - 1
      BY <2>2, <2>3
    <3> QED BY <2>3, <3>1, <3>2, <3>3
  <2>6. RunBehind(Len(delivered[w]), left[w])'
    BY <2>2, <2>3 DEF RunBehind
  <2>7. HoldsTheNextItems(w)'
    BY <1>1, <1>2, <2>4, <2>5, <2>6, ArrivalContinues DEF HoldsTheNextItems
  <2>8. WalkInvariant(w)'
    BY <2>3, <2>4, <2>7, ArrivalContinues
    DEF WalkInvariant, IdleIsUnused, FetchesAtItsEnd, Complete
  <2>9. WalkTypes'
    BY <1>1, <1>2, <2>1, <2>3 DEF TypeOK, WalkTypes
  <2> QED BY <2>8, <2>9
<1> QED BY <1>3, <1>4

\* What get() resolves with keeps the invariant, and so does caching it.
LEMMA ResolvingKeepsInvariant ==
  ASSUME Invariant, NEW w \in Walks, GetResolves(w)
  PROVE  Invariant'
<1>1. TypeOK /\ CachedWasPage /\ UNCHANGED <<total, use>> /\ phase[w] = "fetching"
  BY DEF Invariant, GetResolves
<1>2. path[w] \in 0 .. total /\ path[w] \in 0 .. MaxItems /\ total \in 0 .. MaxItems
  BY <1>1, PaginatorAssumption DEF Invariant, WalkInvariant, FetchesAtItsEnd, TypeOK
<1>3. PICK response \in FreshResponses(path[w]) \cup NotModifiedResponses(path[w]) :
        /\ ArriveAwaited(w, response) \/ ArrivePage(w, response) \/ ArriveItems(w, response)
        /\ cached' \in {cached, [cached EXCEPT ![path[w]] = response]}
        /\ response \notin FreshResponses(path[w]) => cached' = cached
        /\ cutShort' = [cutShort EXCEPT ![w] = @ \/ Hides(path[w], response)]
  BY DEF GetResolves, Hides
<1>4. asOf' = [asOf EXCEPT ![w] = total]
  BY DEF GetResolves
<1>5. Answers(path[w], response)
  BY <1>1, <1>2, FreshResponsesAnswer, NotModifiedResponsesAnswer
<1>6. /\ asOf' \in [Walks -> 0 .. total] /\ asOf'[w] = total
      /\ cutShort' \in [Walks -> BOOLEAN]
      /\ cutShort'[w] = (cutShort[w] \/ Hides(path[w], response))
  BY <1>1, <1>2, <1>3, <1>4 DEF TypeOK
<1>7. Arrival(w, response)
  BY <1>1, <1>5, <1>6 DEF Arrival
<1>8. WalkInvariant(w)' /\ WalkTypes'
  BY <1>3, <1>7, ArriveAwaitedKeeps, ArrivePageKeeps, ArriveItemsKeeps
<1>9. ASSUME NEW v \in Walks, v # w
      PROVE  WalkInvariant(v)'
  <2>1. /\ phase'[v] = phase[v] /\ path'[v] = path[v] /\ left'[v] = left[v]
        /\ link'[v] = link[v] /\ delivered'[v] = delivered[v]
    BY <1>1, <1>3, <1>9
    DEF ArriveAwaited, ArrivePage, ArriveItems, HandOut, Follow, TypeOK
  <2>2. asOf'[v] = asOf[v] /\ cutShort'[v] = cutShort[v] /\ use'[v] = use[v]
    BY <1>1, <1>3, <1>4, <1>9 DEF TypeOK
  <2>3. total' \in Nat /\ total <= total'
    BY <1>1, <1>2, PaginatorAssumption
  <2> QED BY <1>1, <2>1, <2>2, <2>3, UntouchedWalkIsKept DEF Invariant
<1>10. cached' \in [0 .. MaxItems -> Responses \cup {None}]
  BY <1>1, <1>2, <1>3, <1>5 DEF TypeOK, Answers
<1>11. CachedWasPage'
  <2> SUFFICES ASSUME NEW p \in 0 .. MaxItems, cached'[p] # None
               PROVE  /\ RunBehind(p, cached'[p].data)
                      /\ {cached'[p].inBody, cached'[p].inHeader} \subseteq {None, p + Limit}
                      /\ NextOf(cached'[p]) # None => Len(cached'[p].data) = Limit
    BY DEF CachedWasPage, RunBehind, NextOf
  <2>1. CASE cached'[p] = cached[p]
    BY <1>1, <2>1 DEF CachedWasPage
  <2>2. CASE cached'[p] # cached[p]
    <3>1. p = path[w] /\ cached'[p] = response
      BY <1>1, <1>2, <1>3, <2>2 DEF TypeOK
    <3> QED BY <1>5, <3>1 DEF Answers
  <2> QED BY <2>1, <2>2
<1>12. TypeOK'
  BY <1>1, <1>2, <1>6, <1>8, <1>10 DEF TypeOK, WalkTypes, Responses
<1> QED BY <1>8, <1>9, <1>11, <1>12 DEF Invariant

\* A walk that only moves between its phases, or is handed what it holds.
LEMMA ConsumerStepKeepsInvariant ==
  ASSUME Invariant, NEW w \in Walks,
         UNCHANGED <<total, cached, asOf, cutShort, link>>,
         WalkTypes', WalkInvariant(w)',
         \A v \in Walks \ {w} :
           /\ use'[v] = use[v] /\ phase'[v] = phase[v] /\ path'[v] = path[v]
           /\ left'[v] = left[v] /\ delivered'[v] = delivered[v]
  PROVE  Invariant'
<1>1. TypeOK'
  BY DEF Invariant, TypeOK, WalkTypes, Responses
<1>2. CachedWasPage'
  BY DEF Invariant, CachedWasPage, RunBehind, NextOf
<1>3. ASSUME NEW v \in Walks, v # w
      PROVE  WalkInvariant(v)'
  <2>1. total' \in Nat /\ total <= total'
    BY PaginatorAssumption DEF Invariant, TypeOK
  <2> QED BY <1>3, <2>1, UntouchedWalkIsKept DEF Invariant
<1> QED BY <1>1, <1>2, <1>3 DEF Invariant

\* The consumer takes the next item of what the walk holds, or its link.
LEMMA ResumingKeepsInvariant ==
  ASSUME Invariant, NEW w \in Walks, Resume(w)
  PROVE  Invariant'
<1>1. /\ TypeOK /\ WalkInvariant(w) /\ phase[w] = "held"
      /\ UNCHANGED <<total, cached, asOf, cutShort, link, use>>
      /\ left[w] \in Seq(1 .. MaxItems) /\ Len(delivered[w]) \in Nat
      /\ link[w] \in 0 .. MaxItems \cup {None}
  BY LenProperties DEF Invariant, Resume, TypeOK
<1>2. use[w] # None
  BY <1>1 DEF WalkInvariant, IdleIsUnused
<1>3. /\ RunBehind(Len(delivered[w]), left[w])
      /\ link[w] # None => /\ link[w] = Len(delivered[w]) + Len(left[w])
                           /\ Len(delivered[w]) + Len(left[w]) <= total
      /\ (link[w] = None /\ ~ cutShort[w]) =>
           Len(delivered[w]) + Len(left[w]) = asOf[w]
  BY <1>1 DEF WalkInvariant, HoldsTheNextItems
<1>4. CASE left[w] = << >>
  <2>1. Follow(w, link[w]) /\ delivered' = delivered /\ left' = left
    BY <1>4 DEF Resume
  <2>2. Len(delivered[w]) + Len(left[w]) = Len(delivered[w])
    BY <1>1, <1>4, EmptySeq
  <2>3. WalkInvariant(w)'
    BY <1>1, <1>2, <1>3, <1>4, <2>1, <2>2, FollowKeepsWalk
  <2>4. WalkTypes'
    BY <1>1, <2>1, FollowKeepsTypes DEF TypeOK, WalkTypes
  <2>5. \A v \in Walks \ {w} :
          /\ use'[v] = use[v] /\ phase'[v] = phase[v] /\ path'[v] = path[v]
          /\ left'[v] = left[v] /\ delivered'[v] = delivered[v]
    BY <1>1, <2>1 DEF Follow, TypeOK
  <2> QED BY <1>1, <2>3, <2>4, <2>5, ConsumerStepKeepsInvariant
<1>5. CASE left[w] # << >>
  <2> DEFINE first == << Head(left[w]) >>
             rest == Tail(left[w])
  <2>1. HandOut(w, first, rest) /\ path' = path /\ phase' = phase
    BY <1>5 DEF Resume
  <2>2. /\ first \in Seq(1 .. MaxItems) /\ Len(first) = 1
        /\ RunBehind(Len(delivered[w]), first)
        /\ rest \in Seq(1 .. MaxItems)
        /\ Len(rest) = Len(left[w]) - 1
        /\ RunBehind(Len(delivered[w]) + 1, rest)
    BY <1>1, <1>3, <1>5, HeadOfRun
  <2> HIDE DEF first, rest
  <2>3. /\ delivered' \in [Walks -> Seq(1 .. MaxItems)]
        /\ left' \in [Walks -> Seq(1 .. MaxItems)]
        /\ left'[w] = rest
        /\ Len(delivered'[w]) = Len(delivered[w]) + 1
        /\ InOrder(w)'
    BY <2>1, <2>2, HandOutKeepsOrder
  <2>4. Len(delivered'[w]) + Len(left'[w]) = Len(delivered[w]) + Len(left[w])
    <3>1. Len(left[w]) \in Nat
      BY <1>1, LenProperties
    <3>2. \A m, n \in Nat : (m + 1) + (n - 1) = m + n
      OBVIOUS
    <3> QED BY <1>1, <2>2, <2>3, <3>1, <3>2
  <2>5. RunBehind(Len(delivered[w]), left[w])'
    BY <2>2, <2>3 DEF RunBehind
  <2>6. HoldsTheNextItems(w)'
    BY <1>1, <1>3, <2>4, <2>5 DEF HoldsTheNextItems
  <2>7. WalkInvariant(w)'
    BY <1>1, <1>2, <2>1, <2>3, <2>6
    DEF WalkInvariant, IdleIsUnused, FetchesAtItsEnd, Complete
  <2>8. WalkTypes'
    BY <1>1, <2>1, <2>3 DEF TypeOK, WalkTypes
  <2>9. \A v \in Walks \ {w} :
          /\ use'[v] = use[v] /\ phase'[v] = phase[v] /\ path'[v] = path[v]
          /\ left'[v] = left[v] /\ delivered'[v] = delivered[v]
    BY <1>1, <2>1 DEF HandOut, TypeOK
  <2> QED BY <1>1, <2>7, <2>8, <2>9, ConsumerStepKeepsInvariant
<1> QED BY <1>4, <1>5

\* The other actions of one walk only change its phase, or its use.
LEMMA MovingKeepsInvariant ==
  ASSUME Invariant, NEW w \in Walks,
         \/ \E u \in Uses : Begin(w, u)
         \/ GetRejects(w)
         \/ Leave(w)
  PROVE  Invariant'
<1>1. /\ TypeOK /\ WalkInvariant(w)
      /\ UNCHANGED <<total, cached, asOf, cutShort, link, path, left, delivered>>
  BY DEF Invariant, Begin, GetRejects, Leave
<1>2. WalkTypes'
  BY <1>1 DEF Begin, GetRejects, Leave, TypeOK, WalkTypes, Ended
<1>3. WalkInvariant(w)'
  <2>1. CASE \E u \in Uses : Begin(w, u)
    <3>1. phase[w] = "idle" /\ phase'[w] = "fetching" /\ use'[w] # None
      BY <1>1, <2>1, PaginatorAssumption DEF Begin, WalkInvariant, IdleIsUnused, TypeOK
    <3> QED BY <1>1, <3>1
        DEF WalkInvariant, IdleIsUnused, FetchesAtItsEnd, HoldsTheNextItems, InOrder,
            RunBehind, Complete
  <2>2. CASE GetRejects(w) \/ Leave(w)
    <3>1. phase[w] # "idle" /\ phase'[w] \in {"failed", "left"} /\ use' = use
      BY <1>1, <2>2 DEF GetRejects, Leave, TypeOK
    <3> QED BY <1>1, <3>1
        DEF WalkInvariant, IdleIsUnused, FetchesAtItsEnd, HoldsTheNextItems, InOrder,
            RunBehind, Complete
  <2> QED BY <2>1, <2>2
<1>4. \A v \in Walks \ {w} :
        /\ use'[v] = use[v] /\ phase'[v] = phase[v] /\ path'[v] = path[v]
        /\ left'[v] = left[v] /\ delivered'[v] = delivered[v]
  BY <1>1 DEF Begin, GetRejects, Leave, TypeOK
<1> QED BY <1>1, <1>2, <1>3, <1>4, ConsumerStepKeepsInvariant

\* Growth adds behind everything that a walk knows of.
LEMMA GrowingKeepsInvariant ==
  ASSUME Invariant, Grow
  PROVE  Invariant'
<1>1. /\ TypeOK /\ total \in Nat /\ MaxItems \in Nat
      /\ total' \in 0 .. MaxItems /\ total' \in Nat /\ total <= total'
      /\ UNCHANGED <<cached, use, phase, path, left, link, delivered, asOf, cutShort>>
  BY PaginatorAssumption DEF Invariant, Grow, TypeOK
<1>2. asOf' \in [Walks -> 0 .. total']
  BY <1>1 DEF TypeOK
<1>3. TypeOK'
  BY <1>1, <1>2 DEF TypeOK, Responses
<1>4. CachedWasPage'
  BY <1>1 DEF Invariant, CachedWasPage, RunBehind, NextOf
<1>5. \A w \in Walks : WalkInvariant(w)'
  BY <1>1, UntouchedWalkIsKept DEF Invariant
<1> QED BY <1>3, <1>4, <1>5 DEF Invariant

\* A paginator nobody has used yet stands at the head of the list.
LEMMA InvariantInit ==
  ASSUME Init
  PROVE  Invariant
<1>1. << >> \in Seq(1 .. MaxItems) /\ Len(<< >>) = 0 /\ DOMAIN << >> = {}
  BY EmptySeq
<1>2. MaxItems \in Nat /\ total \in 0 .. MaxItems /\ 0 \in 0 .. MaxItems /\ 0 \in 0 .. total
  BY PaginatorAssumption DEF Init
<1>3. TypeOK
  BY <1>1, <1>2 DEF Init, TypeOK
<1>4. CachedWasPage
  BY DEF Init, CachedWasPage
<1>5. ASSUME NEW w \in Walks
      PROVE  WalkInvariant(w)
  <2>1. /\ use[w] = None /\ phase[w] = "idle" /\ path[w] = 0
        /\ left[w] = << >> /\ delivered[w] = << >>
    BY DEF Init
  <2>2. IdleIsUnused(w) /\ HoldsTheNextItems(w) /\ Complete(w)
    BY <2>1 DEF IdleIsUnused, HoldsTheNextItems, Complete
  <2>3. FetchesAtItsEnd(w)
    BY <1>1, <1>2, <2>1 DEF FetchesAtItsEnd
  <2>4. InOrder(w)
    BY <1>1, <2>1 DEF InOrder, RunBehind
  <2> QED BY <2>2, <2>3, <2>4 DEF WalkInvariant
<1> QED BY <1>3, <1>4, <1>5 DEF Invariant

\* Every action, and stuttering, keeps the invariant.
LEMMA StepKeepsInvariant ==
  ASSUME Invariant, [Next]_vars
  PROVE  Invariant'
<1>1. CASE Grow
  BY <1>1, GrowingKeepsInvariant
<1>2. ASSUME NEW w \in Walks,
             \/ \E u \in Uses : Begin(w, u)
             \/ GetResolves(w)
             \/ GetRejects(w)
             \/ Resume(w)
             \/ Leave(w)
      PROVE  Invariant'
  BY <1>2, MovingKeepsInvariant, ResolvingKeepsInvariant, ResumingKeepsInvariant
<1>3. CASE UNCHANGED vars
  <2>1. TypeOK' /\ CachedWasPage'
    BY <1>3 DEF Invariant, vars, TypeOK, Responses, CachedWasPage, RunBehind, NextOf
  <2>2. total' \in Nat /\ total <= total'
    BY <1>3, PaginatorAssumption DEF Invariant, vars, TypeOK
  <2>3. \A w \in Walks : WalkInvariant(w)'
    BY <1>3, <2>2, UntouchedWalkIsKept DEF Invariant, vars
  <2> QED BY <2>1, <2>3 DEF Invariant
<1> QED BY <1>1, <1>2, <1>3 DEF Next

----------------------------------------------------------------------------
(* The theorems *)

\* The invariant holds throughout.
LEMMA InvariantHolds == Spec => []Invariant
<1>1. Init => Invariant
  BY InvariantInit
<1>2. Invariant /\ [Next]_vars => Invariant'
  BY StepKeepsInvariant
<1> QED BY <1>1, <1>2, PTL DEF Spec

\* Every walk is somewhere in the list, whatever it meets (paginator.ts:104).
THEOREM TypeCorrect == Spec => []TypeOK
<1>1. Invariant => TypeOK
  BY DEF Invariant
<1> QED BY <1>1, InvariantHolds, PTL

\* The items of a walk (paginator.ts:104-135) arrive in order, none twice and
\* none skipped, whatever other walks cache and however the list grows.
THEOREM ItemsArriveInOrder == Spec => []ItemsInOrder
<1>1. Invariant => ItemsInOrder
  <2>1. ASSUME Invariant, NEW w \in Walks, NEW i \in DOMAIN delivered[w]
        PROVE  delivered[w][i] = i
    <3>1. DOMAIN delivered[w] = 1 .. Len(delivered[w]) /\ Len(delivered[w]) \in Nat
      BY <2>1, LenProperties DEF Invariant, TypeOK
    <3>2. delivered[w][i] = 0 + i
      BY <2>1 DEF Invariant, WalkInvariant, InOrder, RunBehind
    <3> QED BY <2>1, <3>1, <3>2
  <2> QED BY <2>1 DEF ItemsInOrder
<1> QED BY <1>1, InvariantHolds, PTL

\* A walk that ends by itself has handed out the list as it stood at its last
\* request, unless a 304 hid something from it.
THEOREM WalksAreComplete == Spec => []IterationsAreComplete
<1>1. Invariant => IterationsAreComplete
  BY DEF Invariant, WalkInvariant, Complete, IterationsAreComplete
<1> QED BY <1>1, InvariantHolds, PTL
============================================================================
