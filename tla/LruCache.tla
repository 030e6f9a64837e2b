----------------------------- MODULE LruCache -----------------------------
(***************************************************************************)
(* What a bounded least-recently-used cache with a time-to-live promises,  *)
(* apart from how src/http/etag-cache.ts keeps its order: a function from  *)
(* the cached keys to their entries, and the order in which the cached     *)
(* keys were last used.                                                    *)
(***************************************************************************)
EXTENDS Integers, FiniteSets, Functions

CONSTANTS Keys, Values, MaxSize, Ttl

VARIABLES
  now,      \* the clock
  entries,  \* a function from the cached keys to [value, createdAt]
  usedAfter,\* <<a, b>> when the cached key b was used after the cached key a
  reply     \* the answer to the last lookup, or Absent

vars == <<now, entries, usedAfter, reply>>

Absent == [hit |-> FALSE]
Hit(value) == [hit |-> TRUE, value |-> value]

Cached == DOMAIN entries
Expired(key) == now - entries[key].createdAt > Ttl

\* The order once `key` is the last one used, among the keys of `live`.
MadeNewest(key, live) ==
  (usedAfter \cap (live \ {key}) \X (live \ {key})) \cup ((live \ {key}) \X {key})

Init ==
  /\ now = 0
  /\ entries = << >>
  /\ usedAfter = {}
  /\ reply = Absent

LookupHit(key) ==
  /\ key \in Cached
  /\ ~ Expired(key)
  /\ reply' = Hit(entries[key].value)
  /\ usedAfter' = MadeNewest(key, Cached)
  /\ UNCHANGED <<now, entries>>

\* An expired entry is found expired, and dropped, only when it is looked up.
LookupMiss(key) ==
  /\ key \in Cached => Expired(key)
  /\ reply' = Absent
  /\ entries' = Restrict(entries, Cached \ {key})
  /\ usedAfter' = usedAfter \cap (Cached \ {key}) \X (Cached \ {key})
  /\ UNCHANGED now

LeastRecentlyUsed == {k \in Cached : \A j \in Cached : <<j, k>> \notin usedAfter}

\* A new key in a full cache replaces the least recently used one.
Store(key, value) ==
  LET victims == IF key \notin Cached /\ Cardinality(Cached) = MaxSize
                 THEN LeastRecentlyUsed ELSE {}
      live == (Cached \ victims) \cup {key}
  IN /\ entries' = [k \in live |->
                      IF k = key THEN [value |-> value, createdAt |-> now]
                                 ELSE entries[k]]
     /\ usedAfter' = MadeNewest(key, live)
     /\ UNCHANGED <<now, reply>>

Remove(gone) ==
  /\ entries' = Restrict(entries, Cached \ gone)
  /\ usedAfter' = usedAfter \cap (Cached \ gone) \X (Cached \ gone)
  /\ UNCHANGED <<now, reply>>

Tick ==
  /\ now' = now + 1
  /\ UNCHANGED <<entries, usedAfter, reply>>

Next ==
  \/ \E key \in Keys :
       \/ LookupHit(key)
       \/ LookupMiss(key)
       \/ \E value \in Values : Store(key, value)
       \/ Remove({key})
  \/ Remove(Keys)
  \/ Tick

Spec == Init /\ [][Next]_vars
===========================================================================
