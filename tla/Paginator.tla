----------------------------- MODULE Paginator -----------------------------
(***************************************************************************)
(* The page walks of src/pagination/paginator.ts over a list that grows:   *)
(* `await`, the pages() generator and the item iterator built on it.       *)
(*                                                                         *)
(* The mirror node lists the items 1, 2, ... in order, Limit on a page.    *)
(* The path of a page is the number of the items before it, so the initial *)
(* path is 0 and a link is the path of the next page.  The mirror node     *)
(* links a page only if it is full, in the body, in the Link header or in  *)
(* both.  HttpClient is external here: a get() settles with what the       *)
(* mirror node answers, or with a 304 and the body cached for the path.    *)
(***************************************************************************)
EXTENDS Integers, Sequences

CONSTANTS
  Walks,     \* the uses of paginators
  Limit,     \* items on a page
  MaxItems,  \* bound on the length of the list
  None       \* null

Uses == {"await", "pages", "items"}
Ended == {"done", "failed", "left"}

ASSUME PaginatorAssumption ==
  /\ Limit \in Nat \ {0}
  /\ MaxItems \in Nat
  /\ None \notin Nat \cup Uses

VARIABLES
  total,      \* external: how many items the list has
  cached,     \* external: the response cached for each path, or None
  use,        \* for each walk how the paginator is used, or None
  phase,      \* for each walk where its generator stands
  path,       \* nextPath, the page a walk is fetching or holds
  left,       \* the items of the page held that yield* has yet to hand out
  link,       \* page.links.next of the page held
  delivered,  \* history: the items a walk's consumer has received
  asOf,       \* history: the length of the list when it was last asked
  cutShort    \* history: whether a 304 hid a page or its link from the walk

vars == <<total, cached, use, phase, path, left, link, delivered, asOf, cutShort>>

----------------------------------------------------------------------------
(* What get() resolves with *)

Response(data, inBody, inHeader) == [data |-> data, inBody |-> inBody, inHeader |-> inHeader]

PageAt(p) == [i \in 1 .. (IF p + Limit <= total THEN Limit ELSE total - p) |-> p + i]

LinkAt(p) == IF p + Limit <= total THEN p + Limit ELSE None

FreshResponses(p) ==
  {Response(PageAt(p), LinkAt(p), LinkAt(p)),
   Response(PageAt(p), LinkAt(p), None),
   Response(PageAt(p), None, LinkAt(p))}

\* A 304 comes with the cached body, or with null when that is gone by then,
\* and with or without the Link header of the page.
NotModifiedResponses(p) ==
  IF cached[p] # None /\ cached[p].data = PageAt(p)
  THEN {cached[p], [cached[p] EXCEPT !.inHeader = None], Response(<< >>, None, None)}
  ELSE {}

----------------------------------------------------------------------------

Init ==
  /\ total \in 0 .. MaxItems
  /\ cached = [p \in 0 .. MaxItems |-> None]
  /\ use = [w \in Walks |-> None]
  /\ phase = [w \in Walks |-> "idle"]
  /\ path = [w \in Walks |-> 0]
  /\ left = [w \in Walks |-> << >>]
  /\ link = [w \in Walks |-> None]
  /\ delivered = [w \in Walks |-> << >>]
  /\ asOf = [w \in Walks |-> 0]
  /\ cutShort = [w \in Walks |-> FALSE]

\* External: the list grows.
Grow ==
  /\ total < MaxItems
  /\ total' = total + 1
  /\ UNCHANGED <<cached, use, phase, path, left, link, delivered, asOf, cutShort>>

\* The paginator is awaited or iterated: the initial path is fetched.
Begin(w, u) ==
  /\ use[w] = None
  /\ use' = [use EXCEPT ![w] = u]
  /\ phase' = [phase EXCEPT ![w] = "fetching"]
  /\ UNCHANGED <<total, cached, path, left, link, delivered, asOf, cutShort>>

\* Mutant: the Link header is not looked at.
NextOfBody(response) == response.inBody

\* links.next of the page that pages() yields: the Link header is the
\* fallback.
NextOf(response) ==
  IF response.inBody # None THEN response.inBody ELSE response.inHeader

\* Mutant: the end of the list is not noticed.
FollowUnchecked(w, next) ==
  /\ path' = [path EXCEPT ![w] = next]
  /\ phase' = [phase EXCEPT ![w] = "fetching"]

\* The head of the loop of pages().
Follow(w, next) ==
  /\ path' = IF next = None THEN path ELSE [path EXCEPT ![w] = next]
  /\ phase' = [phase EXCEPT ![w] = IF next = None THEN "done" ELSE "fetching"]

\* The consumer receives items and holds the walk until it comes back.
HandOut(w, items, rest) ==
  /\ delivered' = [delivered EXCEPT ![w] = @ \o items]
  /\ left' = [left EXCEPT ![w] = rest]

\* await: the page as it was extracted, without the fallback.
ArriveAwaited(w, response) ==
  /\ use[w] = "await"
  /\ HandOut(w, response.data, << >>)
  /\ link' = [link EXCEPT ![w] = response.inBody]
  /\ phase' = [phase EXCEPT ![w] = "done"]
  /\ UNCHANGED path

ArrivePage(w, response) ==
  /\ use[w] = "pages"
  /\ HandOut(w, response.data, << >>)
  /\ link' = [link EXCEPT ![w] = NextOf(response)]
  /\ phase' = [phase EXCEPT ![w] = "held"]
  /\ UNCHANGED path

\* yield* hands out the first item; over a page without items the iterator
\* goes on to the next page by itself.
ArriveItems(w, response) ==
  /\ use[w] = "items"
  /\ link' = [link EXCEPT ![w] = NextOf(response)]
  /\ IF response.data = << >>
     THEN /\ Follow(w, NextOf(response))
          /\ UNCHANGED <<left, delivered>>
     ELSE /\ HandOut(w, <<Head(response.data)>>, Tail(response.data))
          /\ phase' = [phase EXCEPT ![w] = "held"]
          /\ UNCHANGED path

\* get() resolves; a fresh response may be cached, that is carry an ETag.
GetResolves(w) ==
  /\ phase[w] = "fetching"
  /\ \E response \in FreshResponses(path[w]) \cup NotModifiedResponses(path[w]) :
       /\ ArriveAwaited(w, response) \/ ArrivePage(w, response) \/ ArriveItems(w, response)
       /\ cached' \in {cached, [cached EXCEPT ![path[w]] = response]}
       /\ response \notin FreshResponses(path[w]) => cached' = cached
       /\ cutShort' = [cutShort EXCEPT ![w] =
            \/ @
            \/ response.data # PageAt(path[w])
            \/ LinkAt(path[w]) \notin {response.inBody, response.inHeader}]
  /\ asOf' = [asOf EXCEPT ![w] = total]
  /\ UNCHANGED <<total, use>>

\* Mutant: the failure of a get() settles nothing.
GetRejectsSilently(w) ==
  /\ phase[w] = "fetching"
  /\ phase' = [phase EXCEPT ![w] = "idle"]
  /\ UNCHANGED <<total, cached, use, path, left, link, delivered, asOf, cutShort>>

\* get() rejects or the extractor throws: so does the walk, and it is over.
GetRejects(w) ==
  /\ phase[w] = "fetching"
  /\ phase' = [phase EXCEPT ![w] = "failed"]
  /\ UNCHANGED <<total, cached, use, path, left, link, delivered, asOf, cutShort>>

\* Mutant: the next page is fetched before the page held is handed out.
ResumeEagerly(w) ==
  /\ phase[w] = "held"
  /\ Follow(w, link[w])
  /\ left' = [left EXCEPT ![w] = << >>]
  /\ UNCHANGED <<total, cached, use, link, delivered, asOf, cutShort>>

\* The consumer asks for the next item or page.
Resume(w) ==
  /\ phase[w] = "held"
  /\ IF left[w] # << >>
     THEN HandOut(w, <<Head(left[w])>>, Tail(left[w])) /\ UNCHANGED <<path, phase>>
     ELSE Follow(w, link[w]) /\ UNCHANGED <<delivered, left>>
  /\ UNCHANGED <<total, cached, use, link, asOf, cutShort>>

\* The consumer breaks out of its loop.
Leave(w) ==
  /\ phase[w] = "held"
  /\ phase' = [phase EXCEPT ![w] = "left"]
  /\ UNCHANGED <<total, cached, use, path, left, link, delivered, asOf, cutShort>>

Next ==
  \/ Grow
  \/ \E w \in Walks :
       \/ \E u \in Uses : Begin(w, u)
       \/ GetResolves(w)
       \/ GetRejects(w)
       \/ Resume(w)
       \/ Leave(w)

\* Every get() settles (HttpClient), and the consumer comes back or leaves.
Fairness ==
  \A w \in Walks :
    /\ WF_vars(GetResolves(w) \/ GetRejects(w))
    /\ WF_vars(Resume(w) \/ Leave(w))

Spec == Init /\ [][Next]_vars /\ Fairness

----------------------------------------------------------------------------
(* Properties *)

Responses ==
  [data : Seq(1 .. MaxItems), inBody : 0 .. MaxItems \cup {None},
   inHeader : 0 .. MaxItems \cup {None}]

\* Every walk is somewhere in the list.
TypeOK ==
  /\ total \in 0 .. MaxItems
  /\ cached \in [0 .. MaxItems -> Responses \cup {None}]
  /\ use \in [Walks -> Uses \cup {None}]
  /\ phase \in [Walks -> {"idle", "fetching", "held"} \cup Ended]
  /\ path \in [Walks -> 0 .. MaxItems]
  /\ left \in [Walks -> Seq(1 .. MaxItems)]
  /\ link \in [Walks -> 0 .. MaxItems \cup {None}]
  /\ delivered \in [Walks -> Seq(1 .. MaxItems)]
  /\ asOf \in [Walks -> 0 .. total]
  /\ cutShort \in [Walks -> BOOLEAN]

\* A consumer receives the items of the list in order, none twice and none
\* skipped, however the list grows between two pages, wherever the links are
\* and whatever other walks put into the cache.
ItemsInOrder ==
  \A w \in Walks : \A i \in DOMAIN delivered[w] : delivered[w][i] = i

\* An iteration that ends by itself has handed out everything that was in the
\* list when it asked for the last page, unless a 304 hid something from it.
IterationsAreComplete ==
  \A w \in Walks :
    (phase[w] = "done" /\ use[w] # "await" /\ ~ cutShort[w]) =>
      Len(delivered[w]) = asOf[w]

\* Every walk over a list that does not grow for ever comes to an end.
WalksEnd == \A w \in Walks : use[w] # None ~> phase[w] \in Ended
============================================================================
