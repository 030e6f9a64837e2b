----------------------------- MODULE ETagCache -----------------------------
(***************************************************************************)
(* The conditional-request cache of src/http/etag-cache.ts on its own: its *)
(* operations called in any order, with the clock it reads.                *)
(*                                                                         *)
(* A url is a key and the number of its trailing slashes, which the cache  *)
(* strips before it uses the url as a key.  A value stands for an ETag and *)
(* the body it came with: set() receives them together.                    *)
(***************************************************************************)
EXTENDS ETagStore, FiniteSets

CONSTANTS
  Keys,     \* urls without their trailing slashes
  Values,   \* (etag, body) pairs of responses
  MaxSize,  \* options.maxSize, 500 by default
  Ttl,      \* options.ttlMs, 300 000 by default
  MaxTime   \* bound on the clock

ASSUME MaxSizeAssumption == MaxSize \in Nat \ {0}
ASSUME TtlAssumption == Ttl \in Nat
ASSUME MaxTimeAssumption == MaxTime \in Nat

VARIABLES
  now,     \* Date.now()
  store,   \* this.store, oldest entry first
  reply,   \* what the last getETag() or getCachedBody() returned
  latest,  \* history: for each key what set() last stored, unless deleted since
  usedSince\* history: for each key the keys used after its last use

vars == <<now, store, reply, latest, usedSince>>

Urls == [key : Keys, slashes : 0 .. 1]

\* Mutant: only urls without a slash are recognised.
KeepSlashes(url) == <<url.key, url.slashes>>

NormalizeKey(url) == url.key

Absent == [hit |-> FALSE]
Hit(value) == [hit |-> TRUE, value |-> value]

Nothing == [written |-> FALSE]
Written(value) == [written |-> TRUE, value |-> value, createdAt |-> now]

\* What was used after each key, once `key` is used.
UsedLast(key) == [k \in Keys |-> IF k = key THEN {} ELSE usedSince[k] \cup {key}]

----------------------------------------------------------------------------

Init ==
  /\ now = 0
  /\ store = << >>
  /\ reply = Absent
  /\ latest = [key \in Keys |-> Nothing]
  /\ usedSince = [key \in Keys |-> {}]

\* Mutant: no entry ever expires.
NeverExpired(entry) == FALSE

Expired(entry) == now - entry.createdAt > Ttl

\* getEntry() behind getETag() and getCachedBody(): absent, expired and then
\* deleted, or found and moved to the newest position.
GetEntryAbsent(url) ==
  /\ NormalizeKey(url) \notin KeysOf(store)
  /\ reply' = Absent
  /\ UNCHANGED <<now, store, latest, usedSince>>

GetEntryExpired(url) ==
  LET key == NormalizeKey(url)
  IN /\ key \in KeysOf(store)
     /\ Expired(EntryOf(store, key))
     /\ store' = Without(store, key)
     /\ reply' = Absent
     /\ UNCHANGED <<now, latest, usedSince>>

GetEntryHit(url) ==
  LET key == NormalizeKey(url)
  IN /\ key \in KeysOf(store)
     /\ ~ Expired(EntryOf(store, key))
     /\ store' = Refreshed(store, key)
     /\ reply' = Hit(EntryOf(store, key).value)
     /\ usedSince' = UsedLast(key)
     /\ UNCHANGED <<now, latest>>

GetEntry(url) == GetEntryAbsent(url) \/ GetEntryExpired(url) \/ GetEntryHit(url)

Set(url, value) ==
  LET key == NormalizeKey(url)
      entry == [key |-> key, value |-> value, createdAt |-> now]
  IN /\ store' = Put(store, entry, MaxSize)
     /\ latest' = [latest EXCEPT ![key] = Written(value)]
     /\ usedSince' = UsedLast(key)
     /\ UNCHANGED <<now, reply>>

Delete(url) ==
  /\ store' = Without(store, NormalizeKey(url))
  /\ latest' = [latest EXCEPT ![NormalizeKey(url)] = Nothing]
  /\ UNCHANGED <<now, reply, usedSince>>

Clear ==
  /\ store' = << >>
  /\ latest' = [key \in Keys |-> Nothing]
  /\ UNCHANGED <<now, reply, usedSince>>

Tick ==
  /\ now < MaxTime
  /\ now' = now + 1
  /\ UNCHANGED <<store, reply, latest, usedSince>>

Next ==
  \/ \E url \in Urls :
       \/ GetEntry(url)
       \/ \E value \in Values : Set(url, value)
       \/ Delete(url)
  \/ Clear
  \/ Tick

Spec == Init /\ [][Next]_vars

----------------------------------------------------------------------------

\* The store is an ordered map of at most MaxSize entries: no operation
\* leaves two entries for one key, and no order of operations overfills it.
TypeOK ==
  /\ now \in 0 .. MaxTime
  /\ store \in Seq([key : Keys, value : Values, createdAt : 0 .. now])
  /\ \A i, j \in DOMAIN store : store[i].key = store[j].key => i = j
  /\ Len(store) <= MaxSize
  /\ reply \in {Absent} \cup {Hit(value) : value \in Values}

\* A lookup answers with nothing, or with what was last stored under the
\* normalized url, provided that this is not older than the time-to-live.
RepliesAreCurrent ==
  [][\A url \in Urls : GetEntry(url) /\ reply'.hit =>
       LET last == latest[NormalizeKey(url)]
       IN /\ last.written
          /\ reply'.value = last.value
          /\ now - last.createdAt <= Ttl]_vars

\* A key is kept as long as it is written, young, and fewer than MaxSize
\* other keys were used after it: neither expired entries of other keys nor
\* deletions nor re-insertions push it out earlier.
RecentKeysAreRetained ==
  \A key \in Keys :
    (/\ latest[key].written
     /\ now - latest[key].createdAt <= Ttl
     /\ Cardinality(usedSince[key]) < MaxSize)
    => key \in KeysOf(store)

\* The insertion order of the Map implements a least-recently-used cache.
Lru == INSTANCE LruCache WITH
  entries <- [key \in KeysOf(store) |->
                [value |-> EntryOf(store, key).value,
                 createdAt |-> EntryOf(store, key).createdAt]],
  usedAfter <- {pair \in KeysOf(store) \X KeysOf(store) :
                  IndexOf(store, pair[1]) < IndexOf(store, pair[2])}

\* Every behaviour of the cache is one of the abstract LRU cache.
ImplementsLru == Lru!Spec
=============================================================================
