---------------------------- MODULE ETagStore ----------------------------
(***************************************************************************)
(* The ordered Map behind src/http/etag-cache.ts, as operators.            *)
(*                                                                         *)
(* A JavaScript Map iterates in insertion order, and the cache uses that   *)
(* order for its LRU policy: a store is the sequence of its entries,       *)
(* oldest first, at most one for each key.  An entry is a record with a    *)
(* field `key`; its other fields are its user's.                           *)
(***************************************************************************)
EXTENDS Integers, Sequences

KeysOf(store) == {store[i].key : i \in DOMAIN store}

IndexOf(store, key) == CHOOSE i \in DOMAIN store : store[i].key = key

EntryOf(store, key) == store[IndexOf(store, key)]

\* Map.prototype.delete: nothing happens when the key is absent.
Without(store, key) ==
  LET i == IndexOf(store, key)
  IN IF key \in KeysOf(store)
     THEN SubSeq(store, 1, i - 1) \o SubSeq(store, i + 1, Len(store))
     ELSE store

\* Mutant: a hit does not move its entry.
NotRefreshed(store, key) == store

\* A hit deletes and re-inserts its entry, which makes it the newest.
Refreshed(store, key) == Append(Without(store, key), EntryOf(store, key))

\* Mutant: the newest entry makes room, not the oldest.
NewestDropped(store, maxSize) ==
  IF Len(store) >= maxSize THEN SubSeq(store, 1, maxSize - 1) ELSE store

\* Mutant: off by one, room is made only once the store has overflowed.
DroppedTooLate(store, maxSize) ==
  IF Len(store) > maxSize
  THEN SubSeq(store, Len(store) - maxSize + 2, Len(store))
  ELSE store

\* The eviction loop of set(): the oldest entries go until there is room.
OldestDropped(store, maxSize) ==
  IF Len(store) >= maxSize
  THEN SubSeq(store, Len(store) - maxSize + 2, Len(store))
  ELSE store

\* Mutant: room is made before the old entry of the key is deleted.
PutEvictingFirst(store, entry, maxSize) ==
  Append(Without(OldestDropped(store, maxSize), entry.key), entry)

\* set(): the key's old entry goes first, then room is made, then the new
\* entry is inserted as the newest.
Put(store, entry, maxSize) ==
  Append(OldestDropped(Without(store, entry.key), maxSize), entry)
==========================================================================
