-------------------------- MODULE ETagCacheProofs --------------------------
(***************************************************************************)
(* Proofs about ETagCache, for every set of urls and bodies, capacity and  *)
(* time-to-live: its types, that lookups are current, that recently used   *)
(* keys are retained, and that it implements LruCache.                     *)
(***************************************************************************)
EXTENDS ETagCache, OperatorProofs, FiniteSetTheorems

\* The entries that the cache may hold by now.
Entries == [key : Keys, value : Values, createdAt : 0 .. now]

Writings == {Nothing} \cup [written : {TRUE}, value : Values, createdAt : 0 .. now]

\* The histories are about the keys, and what was used is finite.
HistoryTypes ==
  /\ latest \in [Keys -> Writings]
  /\ usedSince \in [Keys -> SUBSET Keys]
  /\ \A key \in Keys : IsFiniteSet(usedSince[key])

\* An entry is what was last stored for its key.
EntriesAreLatest ==
  \A key \in KeysOf(store) :
    /\ latest[key].written
    /\ EntryOf(store, key).value = latest[key].value
    /\ EntryOf(store, key).createdAt = latest[key].createdAt

\* The order of the entries is the order of their last use.
OrderIsUse ==
  \A a, b \in KeysOf(store) : IsOlder(store, a, b) => b \in usedSince[a]

\* What the steps preserve together.
Invariant ==
  /\ TypeOK
  /\ HistoryTypes
  /\ EntriesAreLatest
  /\ OrderIsUse
  /\ RecentKeysAreRetained

----------------------------------------------------------------------------
(* The invariant *)

\* The invariant, read as facts about the store.
LEMMA StoreIsOrderedMap ==
  ASSUME Invariant
  PROVE  /\ store \in Seq(Entries)
         /\ Distinct(store)
         /\ Len(store) <= MaxSize
         /\ MaxSize \in Nat \ {0}
         /\ \A k \in KeysOf(store) :
              EntryOf(store, k) \in Entries /\ EntryOf(store, k).key = k
         /\ KeysOf(store) \subseteq Keys
<1>1. store \in Seq(Entries) /\ Distinct(store) /\ Len(store) <= MaxSize
  BY DEF Invariant, TypeOK, Entries, Distinct
<1>2. \A k \in KeysOf(store) : EntryOf(store, k) \in Entries /\ EntryOf(store, k).key = k
  BY <1>1, KeyHasIndex
<1>3. KeysOf(store) \subseteq Keys
  BY <1>2 DEF Entries
<1> QED BY <1>1, <1>2, <1>3, MaxSizeAssumption

\* Using a key only adds it to what was used after the other keys.
LEMMA UseOnlyAdds ==
  ASSUME HistoryTypes, NEW key \in Keys, usedSince' = UsedLast(key)
  PROVE  /\ usedSince' \in [Keys -> SUBSET Keys]
         /\ \A k \in Keys : IsFiniteSet(usedSince'[k])
         /\ \A k \in Keys \ {key} :
              /\ usedSince'[k] = usedSince[k] \cup {key}
              /\ Cardinality(usedSince[k]) \in Nat
              /\ Cardinality(usedSince'[k]) \in Nat
              /\ Cardinality(usedSince[k]) <= Cardinality(usedSince'[k])
<1>1. usedSince' = [k \in Keys |-> IF k = key THEN {} ELSE usedSince[k] \cup {key}]
  BY DEF UsedLast
<1>2. ASSUME NEW k \in Keys \ {key}
      PROVE  /\ usedSince'[k] = usedSince[k] \cup {key}
             /\ IsFiniteSet(usedSince'[k])
             /\ Cardinality(usedSince[k]) \in Nat
             /\ Cardinality(usedSince'[k]) \in Nat
             /\ Cardinality(usedSince[k]) <= Cardinality(usedSince'[k])
  <2>1. usedSince'[k] = usedSince[k] \cup {key} /\ IsFiniteSet(usedSince[k])
    BY <1>1 DEF HistoryTypes
  <2>2. IsFiniteSet(usedSince[k] \cup {key})
    BY <2>1, FS_AddElement
  <2>3. usedSince[k] \in SUBSET (usedSince[k] \cup {key})
    OBVIOUS
  <2>4. Cardinality(usedSince[k]) <= Cardinality(usedSince[k] \cup {key})
    BY <2>2, <2>3, FS_Subset
  <2> QED BY <2>1, <2>2, <2>4, FS_CardinalityType
<1>3. usedSince'[key] = {} /\ IsFiniteSet({})
  BY <1>1, FS_EmptySet
<1>4. usedSince' \in [Keys -> SUBSET Keys]
  BY <1>1 DEF HistoryTypes
<1> QED BY <1>2, <1>3, <1>4

\* The cache is empty at first.
LEMMA InvariantInit ==
  ASSUME Init
  PROVE  Invariant
<1>1. KeysOf(store) = {} /\ store \in Seq(Entries) /\ Len(store) = 0 /\ DOMAIN store = {}
  BY DEF Init, KeysOf
<1>2. TypeOK
  BY <1>1, MaxSizeAssumption, MaxTimeAssumption DEF Init, TypeOK, Entries
<1>3. HistoryTypes
  BY FS_EmptySet DEF Init, HistoryTypes, Writings
<1>4. RecentKeysAreRetained
  BY DEF Init, RecentKeysAreRetained, Nothing
<1> QED BY <1>1, <1>2, <1>3, <1>4 DEF Invariant, EntriesAreLatest, OrderIsUse

\* A lookup that finds nothing changes nothing but the answer.
LEMMA AbsentKeepsInvariant ==
  ASSUME Invariant, NEW url \in Urls, GetEntryAbsent(url)
  PROVE  Invariant'
<1>1. UNCHANGED <<now, store, latest, usedSince>> /\ reply' = Absent
  BY DEF GetEntryAbsent
<1>2. TypeOK'
  BY <1>1 DEF Invariant, TypeOK
<1>3. HistoryTypes' /\ EntriesAreLatest' /\ OrderIsUse' /\ RecentKeysAreRetained'
  BY <1>1 DEF Invariant, HistoryTypes, Writings, EntriesAreLatest, OrderIsUse,
              RecentKeysAreRetained
<1> QED BY <1>2, <1>3 DEF Invariant

\* Deleting one key's entry, because it has expired or on request.
LEMMA WithoutKeepsInvariant ==
  ASSUME Invariant, NEW key \in Keys, store' = Without(store, key),
         UNCHANGED <<now, usedSince>>, reply' \in {Absent, reply},
         latest' \in [Keys -> Writings],
         \A k \in Keys \ {key} : latest'[k] = latest[k],
         latest'[key].written => now - latest'[key].createdAt > Ttl
  PROVE  Invariant'
<1>1. /\ store' \in Seq(Entries) /\ Distinct(store')
      /\ KeysOf(store') = KeysOf(store) \ {key}
      /\ Agree(store', store, KeysOf(store) \ {key})
      /\ Len(store') = IF key \in KeysOf(store) THEN Len(store) - 1 ELSE Len(store)
  BY StoreIsOrderedMap, WithoutKeeps DEF Keeps
<1>2. TypeOK'
  <2>1. Len(store) \in Nat /\ Len(store) <= MaxSize /\ MaxSize \in Nat
    BY StoreIsOrderedMap, LenProperties
  <2>2. Len(store') <= MaxSize
    BY <1>1, <2>1
  <2> QED BY <1>1, <2>2 DEF Invariant, TypeOK, Distinct, Entries
<1>3. HistoryTypes'
  BY DEF Invariant, HistoryTypes, Writings
<1>4. EntriesAreLatest'
  <2>1. KeysOf(store) \subseteq Keys
    BY StoreIsOrderedMap
  <2> QED BY <1>1, <2>1 DEF Invariant, EntriesAreLatest, Agree
<1>5. OrderIsUse'
  BY <1>1 DEF Invariant, OrderIsUse, Agree
<1>6. RecentKeysAreRetained'
  <2>1. latest'[key].written => latest'[key].createdAt \in 0 .. now
    <3>1. latest'[key] \in Writings
      OBVIOUS
    <3>2. CASE latest'[key] = Nothing
      BY <3>2 DEF Nothing
    <3>3. CASE latest'[key] \in [written : {TRUE}, value : Values, createdAt : 0 .. now]
      BY <3>3
    <3> QED BY <3>1, <3>2, <3>3 DEF Writings
  <2>2. now \in Int /\ Ttl \in Int
    BY TtlAssumption DEF Invariant, TypeOK
  <2>3. latest'[key].written => ~ (now - latest'[key].createdAt <= Ttl)
    BY <2>1, <2>2
  <2> QED BY <1>1, <2>3 DEF Invariant, RecentKeysAreRetained
<1> QED BY <1>2, <1>3, <1>4, <1>5, <1>6 DEF Invariant

\* A lookup that finds an entry makes its key the last one used.
LEMMA HitKeepsInvariant ==
  ASSUME Invariant, NEW url \in Urls, GetEntryHit(url)
  PROVE  Invariant'
<1> DEFINE key == NormalizeKey(url)
<1>1. /\ key \in Keys /\ key \in KeysOf(store)
      /\ store' = Refreshed(store, key)
      /\ usedSince' = UsedLast(key)
      /\ reply' = Hit(EntryOf(store, key).value)
      /\ UNCHANGED <<now, latest>>
  BY DEF GetEntryHit, Urls, NormalizeKey
<1> HIDE DEF key
<1>2. store \in Seq(Entries) /\ Distinct(store) /\ Len(store) <= MaxSize
  BY StoreIsOrderedMap
<1>3. /\ store' \in Seq(Entries) /\ Distinct(store')
      /\ Len(store') = Len(store)
      /\ KeysOf(store') = KeysOf(store)
      /\ \A k \in KeysOf(store) : EntryOf(store', k) = EntryOf(store, k)
      /\ \A a, b \in KeysOf(store) \ {key} : IsOlder(store', a, b) <=> IsOlder(store, a, b)
      /\ \A a \in KeysOf(store) \ {key} : ~ IsOlder(store', key, a)
      /\ ~ IsOlder(store', key, key)
  BY <1>1, <1>2, RefreshedKeeps
<1>4. TypeOK'
  <2>1. EntryOf(store, key).value \in Values
    BY <1>1, StoreIsOrderedMap DEF Entries
  <2> QED BY <1>1, <1>2, <1>3, <2>1 DEF Invariant, TypeOK, Distinct, Entries
<1>5. HistoryTypes /\ HistoryTypes'
  BY <1>1, UseOnlyAdds DEF Invariant, HistoryTypes, Writings
<1>6. EntriesAreLatest'
  BY <1>1, <1>3 DEF Invariant, EntriesAreLatest
<1>7. OrderIsUse'
  <2>1. \A k \in Keys \ {key} : usedSince'[k] = usedSince[k] \cup {key}
    BY <1>1, <1>5, UseOnlyAdds
  <2>2. KeysOf(store) \subseteq Keys
    BY StoreIsOrderedMap
  <2> QED BY <1>3, <2>1, <2>2 DEF Invariant, OrderIsUse
<1>8. RecentKeysAreRetained'
  <2>1. \A k \in Keys \ {key} :
          Cardinality(usedSince'[k]) < MaxSize => Cardinality(usedSince[k]) < MaxSize
    <3>1. \A k \in Keys \ {key} :
            /\ Cardinality(usedSince[k]) \in Nat
            /\ Cardinality(usedSince'[k]) \in Nat
            /\ Cardinality(usedSince[k]) <= Cardinality(usedSince'[k])
      BY <1>1, <1>5, UseOnlyAdds
    <3> QED BY <3>1, MaxSizeAssumption
  <2> QED BY <1>1, <1>3, <2>1 DEF Invariant, RecentKeysAreRetained
<1> QED BY <1>4, <1>5, <1>6, <1>7, <1>8 DEF Invariant

\* What set() keeps of the store, and what it pushes out.
LEMMA SetChangesStore ==
  ASSUME Invariant, NEW url \in Urls, NEW value \in Values, Set(url, value)
  PROVE  LET key == NormalizeKey(url)
             kept == KeysOf(store') \ {key}
         IN /\ key \in Keys
            /\ store' \in Seq(Entries) /\ Distinct(store') /\ Len(store') <= MaxSize
            /\ key \in KeysOf(store')
            /\ EntryOf(store', key) = [key |-> key, value |-> value, createdAt |-> now]
            /\ kept \subseteq KeysOf(store)
            /\ Agree(store', store, kept)
            /\ \A a \in kept : IsOlder(store', a, key) /\ ~ IsOlder(store', key, a)
            /\ ~ IsOlder(store', key, key)
            /\ \/ /\ kept = KeysOf(store) \ {key}
                  /\ key \in KeysOf(store) \/ Len(store) < MaxSize
               \/ /\ key \notin KeysOf(store) /\ Len(store) = MaxSize
                  /\ store[1].key \in KeysOf(store)
                  /\ kept = KeysOf(store) \ {store[1].key}
                  /\ \A k \in kept : IsOlder(store, store[1].key, k)
<1> DEFINE key == NormalizeKey(url)
           entry == [key |-> key, value |-> value, createdAt |-> now]
<1>1. key \in Keys /\ entry \in Entries /\ entry.key = key
      /\ store' = Put(store, entry, MaxSize)
  BY DEF Set, Urls, NormalizeKey, Entries, Invariant, TypeOK
<1> HIDE DEF key, entry
<1>2. /\ store \in Seq(Entries) /\ Distinct(store) /\ Len(store) <= MaxSize
      /\ MaxSize \in Nat \ {0}
  BY StoreIsOrderedMap
<1>3. LET result == Put(store, entry, MaxSize)
          kept == KeysOf(result) \ {entry.key}
          others == KeysOf(store) \ {entry.key}
      IN /\ result \in Seq(Entries)
         /\ Distinct(result)
         /\ Len(result) <= MaxSize
         /\ entry.key \in KeysOf(result)
         /\ EntryOf(result, entry.key) = entry
         /\ Agree(result, store, kept)
         /\ \A a \in kept :
              IsOlder(result, a, entry.key) /\ ~ IsOlder(result, entry.key, a)
         /\ ~ IsOlder(result, entry.key, entry.key)
         /\ (entry.key \in KeysOf(store) \/ Len(store) < MaxSize) => kept = others
         /\ (entry.key \notin KeysOf(store) /\ Len(store) = MaxSize) =>
              /\ store[1].key \in KeysOf(store)
              /\ kept = KeysOf(store) \ {store[1].key}
              /\ \A k \in kept : IsOlder(store, store[1].key, k)
  BY <1>1, <1>2, PutKeeps
<1>4. Len(store) < MaxSize \/ Len(store) = MaxSize
  <2>1. \A m, n \in Nat : m <= n => m < n \/ m = n
    OBVIOUS
  <2>2. Len(store) \in Nat
    BY <1>2, LenProperties
  <2> QED BY <1>2, <2>1, <2>2, Zenon
<1> QED BY <1>1, <1>3, <1>4 DEF key, entry

\* A full cache pushes out the key after which all the others were used.
LEMMA EvictedIsOldest ==
  ASSUME Invariant, NEW key \in Keys \ KeysOf(store), NEW old \in KeysOf(store),
         Len(store) = MaxSize, usedSince' = UsedLast(key),
         \A k \in KeysOf(store) \ {old} : IsOlder(store, old, k)
  PROVE  ~ Cardinality(usedSince'[old]) < MaxSize
<1>1. old \in Keys \ {key}
  BY StoreIsOrderedMap
<1>2. usedSince'[old] = usedSince[old] \cup {key} /\ IsFiniteSet(usedSince'[old])
  BY <1>1, UseOnlyAdds DEF Invariant
<1> DEFINE others == KeysOf(store) \ {old}
<1>3. others \cup {key} \in SUBSET usedSince'[old]
  BY <1>2 DEF Invariant, OrderIsUse
<1>4. IsFiniteSet(KeysOf(store)) /\ Cardinality(KeysOf(store)) = MaxSize
  BY StoreIsOrderedMap, KeysAreCounted
<1>5. IsFiniteSet(others) /\ Cardinality(others) = MaxSize - 1
  BY <1>4, FS_RemoveElement
<1>6. Cardinality(others \cup {key}) = MaxSize
  <2>1. key \notin others
    OBVIOUS
  <2>2. Cardinality(others \cup {key}) = Cardinality(others) + 1
    BY <1>5, <2>1, FS_AddElement
  <2> QED BY <1>5, <2>2, MaxSizeAssumption
<1>7. Cardinality(others \cup {key}) <= Cardinality(usedSince'[old])
  BY <1>2, <1>3, FS_Subset
<1>8. Cardinality(usedSince'[old]) \in Nat
  BY <1>2, FS_CardinalityType
<1> QED BY <1>6, <1>7, <1>8, MaxSizeAssumption

\* set() pushes out no key that is recent.
LEMMA SetKeepsInvariant ==
  ASSUME Invariant, NEW url \in Urls, NEW value \in Values, Set(url, value)
  PROVE  Invariant'
<1> DEFINE key == NormalizeKey(url)
           kept == KeysOf(store') \ {key}
<1>1. /\ latest' = [latest EXCEPT ![key] = Written(value)]
      /\ usedSince' = UsedLast(key)
      /\ UNCHANGED <<now, reply>>
  BY DEF Set
<1>2. /\ key \in Keys
      /\ store' \in Seq(Entries) /\ Distinct(store') /\ Len(store') <= MaxSize
      /\ key \in KeysOf(store')
      /\ EntryOf(store', key) = [key |-> key, value |-> value, createdAt |-> now]
      /\ kept \subseteq KeysOf(store)
      /\ Agree(store', store, kept)
      /\ \A a \in kept : IsOlder(store', a, key) /\ ~ IsOlder(store', key, a)
      /\ ~ IsOlder(store', key, key)
      /\ \/ /\ kept = KeysOf(store) \ {key}
            /\ key \in KeysOf(store) \/ Len(store) < MaxSize
         \/ /\ key \notin KeysOf(store) /\ Len(store) = MaxSize
            /\ store[1].key \in KeysOf(store)
            /\ kept = KeysOf(store) \ {store[1].key}
            /\ \A k \in kept : IsOlder(store, store[1].key, k)
  BY SetChangesStore, Zenon
<1> HIDE DEF key
<1>3. TypeOK'
  BY <1>1, <1>2 DEF Invariant, TypeOK, Distinct, Entries
<1>4. HistoryTypes /\ HistoryTypes'
  <2>1. HistoryTypes /\ now \in 0 .. now
    BY DEF Invariant, TypeOK
  <2>2. Written(value) \in Writings
    BY <2>1 DEF Written, Writings
  <2>3. latest' \in [Keys -> Writings]
    BY <1>1, <2>1, <2>2 DEF HistoryTypes
  <2> QED BY <1>1, <1>2, <2>1, <2>3, UseOnlyAdds DEF HistoryTypes, Writings
<1>5. EntriesAreLatest'
  <2>1. KeysOf(store) \subseteq Keys
    BY StoreIsOrderedMap
  <2>2. latest'[key] = Written(value) /\ \A k \in Keys \ {key} : latest'[k] = latest[k]
    BY <1>1, <1>2, <1>4 DEF HistoryTypes
  <2>3. \A k \in kept : EntryOf(store', k) = EntryOf(store, k)
    BY <1>2 DEF Agree
  <2> QED BY <1>2, <2>1, <2>2, <2>3 DEF Invariant, EntriesAreLatest, Written
<1>6. OrderIsUse'
  <2>1. \A k \in Keys \ {key} : usedSince'[k] = usedSince[k] \cup {key}
    BY <1>1, <1>2, <1>4, UseOnlyAdds
  <2>2. KeysOf(store) \subseteq Keys
    BY StoreIsOrderedMap
  <2> QED BY <1>2, <2>1, <2>2 DEF Invariant, OrderIsUse, Agree
<1>7. RecentKeysAreRetained'
  <2> SUFFICES ASSUME NEW k \in Keys \ {key}, latest'[k].written,
                      now - latest'[k].createdAt <= Ttl,
                      Cardinality(usedSince'[k]) < MaxSize
               PROVE  k \in KeysOf(store')
    BY <1>1, <1>2 DEF RecentKeysAreRetained
  <2>1. latest'[k] = latest[k]
    BY <1>1, <1>4 DEF HistoryTypes
  <2>2. Cardinality(usedSince[k]) < MaxSize
    <3>1. /\ Cardinality(usedSince[k]) \in Nat
          /\ Cardinality(usedSince'[k]) \in Nat
          /\ Cardinality(usedSince[k]) <= Cardinality(usedSince'[k])
      BY <1>1, <1>2, <1>4, UseOnlyAdds
    <3> QED BY <3>1, MaxSizeAssumption
  <2>3. k \in KeysOf(store)
    BY <2>1, <2>2 DEF Invariant, RecentKeysAreRetained
  <2>4. CASE k \notin kept
    <3>1. /\ key \in Keys \ KeysOf(store) /\ Len(store) = MaxSize
          /\ k = store[1].key
          /\ \A j \in KeysOf(store) \ {k} : IsOlder(store, k, j)
      <4>1. kept # KeysOf(store) \ {key} /\ \A j \in kept : j \in KeysOf(store) /\ j # key
        BY <1>2, <2>3, <2>4
      <4>2. /\ key \in Keys /\ key \notin KeysOf(store) /\ Len(store) = MaxSize
            /\ kept = KeysOf(store) \ {store[1].key}
            /\ \A j \in kept : IsOlder(store, store[1].key, j)
        BY <1>2, <4>1, Zenon
      <4> HIDE DEF kept
      <4> QED BY <2>3, <2>4, <4>2
    <3> QED BY <1>1, <2>3, <3>1, EvictedIsOldest
  <2> QED BY <2>4
<1> QED BY <1>3, <1>4, <1>5, <1>6, <1>7 DEF Invariant

\* An emptied cache retains nothing, and nothing is expected of it.
LEMMA ClearKeepsInvariant ==
  ASSUME Invariant, Clear
  PROVE  Invariant'
<1>1. /\ store' = << >> /\ latest' = [key \in Keys |-> Nothing]
      /\ UNCHANGED <<now, reply, usedSince>>
  BY DEF Clear
<1>2. /\ KeysOf(store') = {} /\ store' \in Seq(Entries) /\ Len(store') = 0
      /\ DOMAIN store' = {}
  BY <1>1 DEF KeysOf
<1>3. TypeOK'
  BY <1>1, <1>2, MaxSizeAssumption DEF Invariant, TypeOK, Entries
<1>4. HistoryTypes'
  BY <1>1 DEF Invariant, HistoryTypes, Writings
<1>5. RecentKeysAreRetained'
  BY <1>1 DEF RecentKeysAreRetained, Nothing
<1> QED BY <1>2, <1>3, <1>4, <1>5 DEF Invariant, EntriesAreLatest, OrderIsUse

\* What was last stored for a key was stored by now.
LEMMA WrittenByNow ==
  ASSUME HistoryTypes, NEW k \in Keys, latest[k].written
  PROVE  latest[k] \in [written : {TRUE}, value : Values, createdAt : 0 .. now]
<1>1. latest[k] \in Writings
  BY DEF HistoryTypes
<1>2. latest[k] # Nothing
  BY DEF Nothing
<1> QED BY <1>1, <1>2 DEF Writings

\* As time passes keys only grow older.
LEMMA TickKeepsInvariant ==
  ASSUME Invariant, Tick
  PROVE  Invariant'
<1>1. /\ now < MaxTime /\ now' = now + 1
      /\ UNCHANGED <<store, reply, latest, usedSince>>
  BY DEF Tick
<1>2. now \in Nat /\ now' \in 0 .. MaxTime /\ 0 .. now \subseteq 0 .. now'
  BY <1>1, MaxTimeAssumption DEF Invariant, TypeOK
<1>3. TypeOK'
  <2>1. Entries \subseteq Entries'
    BY <1>2 DEF Entries
  <2>2. store \in Seq(Entries')
    <3>1. store \in Seq(Entries)
      BY StoreIsOrderedMap
    <3>2. \A i \in 1 .. Len(store) : store[i] \in Entries'
      BY <2>1, <3>1, ElementOfSeq
    <3>3. store = [i \in 1 .. Len(store) |-> store[i]] /\ Len(store) \in Nat
      BY <3>1, LenProperties
    <3> QED BY <3>2, <3>3, IsASeq
  <2> QED BY <1>1, <1>2, <2>2 DEF Invariant, TypeOK, Entries
<1>4. HistoryTypes'
  <2>1. \A k \in Keys : latest[k] \in Writings'
    BY <1>2 DEF Invariant, HistoryTypes, Writings
  <2> QED BY <1>1, <2>1 DEF Invariant, HistoryTypes
<1>5. EntriesAreLatest' /\ OrderIsUse'
  BY <1>1 DEF Invariant, EntriesAreLatest, OrderIsUse
<1>6. RecentKeysAreRetained'
  <2>1. ASSUME NEW k \in Keys, latest[k].written, now' - latest[k].createdAt <= Ttl
        PROVE  now - latest[k].createdAt <= Ttl
    <3>1. latest[k].createdAt \in 0 .. now
      BY <2>1, WrittenByNow DEF Invariant
    <3> QED BY <1>1, <1>2, <2>1, <3>1, TtlAssumption
  <2> QED BY <1>1, <2>1 DEF Invariant, RecentKeysAreRetained
<1> QED BY <1>3, <1>4, <1>5, <1>6 DEF Invariant

\* An expired entry is deleted by the lookup that finds it.
LEMMA ExpiredKeepsInvariant ==
  ASSUME Invariant, NEW url \in Urls, GetEntryExpired(url)
  PROVE  Invariant'
<1> DEFINE key == NormalizeKey(url)
<1>1. /\ key \in Keys /\ key \in KeysOf(store)
      /\ now - EntryOf(store, key).createdAt > Ttl
      /\ store' = Without(store, key)
      /\ reply' = Absent
      /\ UNCHANGED <<now, latest, usedSince>>
  BY DEF GetEntryExpired, Urls, NormalizeKey, Expired
<1>2. latest' \in [Keys -> Writings]
  BY <1>1 DEF Invariant, HistoryTypes
<1>3. now - latest'[key].createdAt > Ttl
  BY <1>1 DEF Invariant, EntriesAreLatest
<1> HIDE DEF key
<1> QED BY <1>1, <1>2, <1>3, WithoutKeepsInvariant

\* delete() forgets the key.
LEMMA DeleteKeepsInvariant ==
  ASSUME Invariant, NEW url \in Urls, Delete(url)
  PROVE  Invariant'
<1> DEFINE key == NormalizeKey(url)
<1>1. /\ key \in Keys
      /\ store' = Without(store, key)
      /\ latest' = [latest EXCEPT ![key] = Nothing]
      /\ UNCHANGED <<now, reply, usedSince>>
  BY DEF Delete, Urls, NormalizeKey
<1> HIDE DEF key
<1>2. /\ latest' \in [Keys -> Writings]
      /\ \A k \in Keys \ {key} : latest'[k] = latest[k]
      /\ ~ latest'[key].written
  BY <1>1 DEF Invariant, HistoryTypes, Writings, Nothing
<1> QED BY <1>1, <1>2, WithoutKeepsInvariant

\* Every step keeps the invariant.
LEMMA StepKeepsInvariant == Invariant /\ [Next]_vars => Invariant'
<1> SUFFICES ASSUME Invariant, [Next]_vars
             PROVE  Invariant'
  OBVIOUS
<1>1. ASSUME NEW url \in Urls, GetEntry(url)
      PROVE  Invariant'
  BY <1>1, AbsentKeepsInvariant, ExpiredKeepsInvariant, HitKeepsInvariant DEF GetEntry
<1>2. ASSUME NEW url \in Urls, NEW value \in Values, Set(url, value)
      PROVE  Invariant'
  BY <1>2, SetKeepsInvariant
<1>3. ASSUME NEW url \in Urls, Delete(url)
      PROVE  Invariant'
  BY <1>3, DeleteKeepsInvariant
<1>4. CASE Clear
  BY <1>4, ClearKeepsInvariant
<1>5. CASE Tick
  BY <1>5, TickKeepsInvariant
<1>6. CASE UNCHANGED vars
  BY <1>6 DEF vars, Invariant, TypeOK, HistoryTypes, Writings, EntriesAreLatest,
              OrderIsUse, RecentKeysAreRetained
<1> QED BY <1>1, <1>2, <1>3, <1>4, <1>5, <1>6 DEF Next

\* The invariant holds in every state.
THEOREM InvariantHolds == Spec => []Invariant
BY InvariantInit, StepKeepsInvariant, PTL DEF Spec

----------------------------------------------------------------------------
(* What the cache guarantees *)

\* The store is an ordered map within its capacity, whatever the capacity.
THEOREM TypeCorrect == Spec => []TypeOK
BY InvariantHolds, PTL DEF Invariant

\* No key that is written, young and recently used is ever pushed out.
THEOREM RetainsRecentKeys == Spec => []RecentKeysAreRetained
BY InvariantHolds, PTL DEF Invariant

\* A lookup never answers with what is overwritten, deleted or too old.
THEOREM AnswersAreCurrent == Spec => RepliesAreCurrent
<1> DEFINE Current ==
      \A url \in Urls : GetEntry(url) /\ reply'.hit =>
        LET last == latest[NormalizeKey(url)]
        IN /\ last.written
           /\ reply'.value = last.value
           /\ now - last.createdAt <= Ttl
<1>1. Invariant /\ [Next]_vars => [Current]_vars
  <2> SUFFICES ASSUME Invariant, NEW url \in Urls, GetEntry(url), reply'.hit
               PROVE  /\ latest[NormalizeKey(url)].written
                      /\ reply'.value = latest[NormalizeKey(url)].value
                      /\ now - latest[NormalizeKey(url)].createdAt <= Ttl
    BY DEF Current
  <2>1. GetEntryHit(url)
    BY DEF GetEntry, GetEntryAbsent, GetEntryExpired, Absent
  <2> DEFINE key == NormalizeKey(url)
             entry == EntryOf(store, key)
  <2>2. /\ key \in KeysOf(store)
        /\ ~ (now - entry.createdAt > Ttl)
        /\ reply'.value = entry.value
    BY <2>1 DEF GetEntryHit, Expired, Hit
  <2>3. now \in Nat /\ entry.createdAt \in 0 .. now
    BY <2>2, StoreIsOrderedMap DEF Entries, Invariant, TypeOK
  <2>4. now - entry.createdAt <= Ttl
    BY <2>2, <2>3, TtlAssumption
  <2> QED BY <2>2, <2>4 DEF Invariant, EntriesAreLatest
<1> QED BY <1>1, InvariantHolds, PTL DEF Spec, RepliesAreCurrent

----------------------------------------------------------------------------
(* The least-recently-used cache that it implements *)

\* The entries and the order of use that a store stands for.
EntriesOf(s) ==
  [key \in KeysOf(s) |->
     [value |-> EntryOf(s, key).value, createdAt |-> EntryOf(s, key).createdAt]]

OrderOf(s) ==
  {pair \in KeysOf(s) \X KeysOf(s) : IndexOf(s, pair[1]) < IndexOf(s, pair[2])}

\* When entries go, what is left is a restriction.
LEMMA KeptIsRestriction ==
  ASSUME NEW t, NEW s, Agree(s, t, KeysOf(s)), KeysOf(s) \subseteq KeysOf(t)
  PROVE  /\ EntriesOf(s) = [k \in KeysOf(s) |-> EntriesOf(t)[k]]
         /\ OrderOf(s) = OrderOf(t) \cap KeysOf(s) \X KeysOf(s)
<1>1. EntriesOf(s) = [k \in KeysOf(s) |-> EntriesOf(t)[k]]
  BY DEF EntriesOf, Agree
<1>2. \A pair \in KeysOf(s) \X KeysOf(s) :
        pair \in OrderOf(s) <=> pair \in OrderOf(t)
  BY DEF OrderOf, Agree, IsOlder
<1>3. OrderOf(s) \subseteq KeysOf(s) \X KeysOf(s)
  BY DEF OrderOf
<1> QED BY <1>1, <1>2, <1>3

\* When a key becomes the newest, the order among the others stays.
LEMMA NewestIsLast ==
  ASSUME NEW t, NEW s, NEW key, key \in KeysOf(s), KeysOf(s) \ {key} \subseteq KeysOf(t),
         \A a, b \in KeysOf(s) \ {key} : IsOlder(s, a, b) <=> IsOlder(t, a, b),
         \A a \in KeysOf(s) \ {key} : IsOlder(s, a, key) /\ ~ IsOlder(s, key, a),
         ~ IsOlder(s, key, key)
  PROVE  LET others == KeysOf(s) \ {key}
         IN OrderOf(s) = (OrderOf(t) \cap others \X others) \cup (others \X {key})
<1> DEFINE others == KeysOf(s) \ {key}
           order == (OrderOf(t) \cap others \X others) \cup (others \X {key})
<1>1. ASSUME NEW a \in KeysOf(s), NEW b \in KeysOf(s)
      PROVE  <<a, b>> \in OrderOf(s) <=> <<a, b>> \in order
  <2>1. <<a, b>> \in OrderOf(s) <=> IsOlder(s, a, b)
    BY DEF OrderOf, IsOlder
  <2>2. CASE a # key /\ b # key
    <3>1. <<a, b>> \in OrderOf(t) <=> IsOlder(t, a, b)
      BY <2>2 DEF OrderOf, IsOlder
    <3> QED BY <2>1, <2>2, <3>1
  <2>3. CASE a # key /\ b = key
    BY <2>1, <2>3
  <2>4. CASE a = key
    BY <2>1, <2>4
  <2> QED BY <2>2, <2>3, <2>4
<1>2. OrderOf(s) \subseteq KeysOf(s) \X KeysOf(s) /\ order \subseteq KeysOf(s) \X KeysOf(s)
  BY DEF OrderOf
<1> QED BY <1>1, <1>2

\* A lookup without an answer, deletion and clear() leave entries out.
LEMMA WithoutIsRestriction ==
  ASSUME Invariant, NEW key, store' = Without(store, key)
  PROVE  LET live == KeysOf(store) \ {key}
         IN /\ KeysOf(store') = live
            /\ EntriesOf(store') = [k \in live |-> EntriesOf(store)[k]]
            /\ OrderOf(store') = OrderOf(store) \cap live \X live
<1>1. KeysOf(store') = KeysOf(store) \ {key} /\ Agree(store', store, KeysOf(store'))
  <2>1. store \in Seq(Entries) /\ Distinct(store)
    BY StoreIsOrderedMap
  <2>2. Keeps(Without(store, key), store, KeysOf(store) \ {key}, Entries)
    BY <2>1, WithoutKeeps
  <2> QED BY <2>2 DEF Keeps
<1>2. KeysOf(store') \subseteq KeysOf(store)
  BY <1>1
<1> QED BY <1>1, <1>2, KeptIsRestriction

\* The empty cache is the initial LRU cache.
LEMMA InitIsLru ==
  ASSUME Init
  PROVE  Lru!Init
<1>1. KeysOf(store) = {}
  BY DEF Init, KeysOf
<1>2. EntriesOf(store) = << >>
  BY <1>1 DEF EntriesOf
<1>3. OrderOf(store) = {}
  BY <1>1 DEF OrderOf
<1> QED BY <1>2, <1>3 DEF Init, Lru!Init, EntriesOf, OrderOf, Absent, Lru!Absent

\* A lookup of an absent key is a miss that leaves nothing out.
LEMMA AbsentIsMiss ==
  ASSUME Invariant, NEW url \in Urls, GetEntryAbsent(url)
  PROVE  Lru!LookupMiss(NormalizeKey(url))
<1> DEFINE key == NormalizeKey(url)
<1>1. /\ key \notin KeysOf(store) /\ reply' = Absent
      /\ UNCHANGED <<now, store, latest, usedSince>>
  BY DEF GetEntryAbsent
<1> HIDE DEF key
<1>2. Without(store, key) = store
  BY <1>1 DEF Without
<1>3. LET live == KeysOf(store) \ {key}
      IN /\ EntriesOf(store') = [k \in live |-> EntriesOf(store)[k]]
         /\ OrderOf(store') = OrderOf(store) \cap live \X live
  BY <1>1, <1>2, WithoutIsRestriction
<1> QED BY <1>1, <1>3 DEF Lru!LookupMiss, Lru!Cached, Lru!Expired, Lru!Absent, Absent,
           Lru!Restrict, EntriesOf, OrderOf, key

\* The lookup of an expired key is a miss that drops it.
LEMMA ExpiredIsMiss ==
  ASSUME Invariant, NEW url \in Urls, GetEntryExpired(url)
  PROVE  Lru!LookupMiss(NormalizeKey(url))
<1> DEFINE key == NormalizeKey(url)
<1>1. /\ key \in KeysOf(store) /\ reply' = Absent
      /\ now - EntryOf(store, key).createdAt > Ttl
      /\ store' = Without(store, key)
      /\ UNCHANGED now
  BY DEF GetEntryExpired, Expired
<1> HIDE DEF key
<1>2. LET live == KeysOf(store) \ {key}
      IN /\ EntriesOf(store') = [k \in live |-> EntriesOf(store)[k]]
         /\ OrderOf(store') = OrderOf(store) \cap live \X live
  BY <1>1, WithoutIsRestriction
<1>3. key \in DOMAIN EntriesOf(store) /\ now - EntriesOf(store)[key].createdAt > Ttl
  BY <1>1 DEF EntriesOf
<1> QED BY <1>1, <1>2, <1>3 DEF Lru!LookupMiss, Lru!Cached, Lru!Expired, Lru!Absent, Absent,
           Lru!Restrict, EntriesOf, OrderOf, key

\* A lookup that finds an entry is a hit of the LRU cache.
LEMMA HitIsHit ==
  ASSUME Invariant, NEW url \in Urls, GetEntryHit(url)
  PROVE  Lru!LookupHit(NormalizeKey(url))
<1> DEFINE key == NormalizeKey(url)
           others == KeysOf(store) \ {key}
<1>1. /\ key \in KeysOf(store)
      /\ ~ (now - EntryOf(store, key).createdAt > Ttl)
      /\ store' = Refreshed(store, key)
      /\ reply' = Hit(EntryOf(store, key).value)
      /\ UNCHANGED now
  BY DEF GetEntryHit, Expired
<1> HIDE DEF key
<1>2. /\ KeysOf(store') = KeysOf(store)
      /\ \A k \in KeysOf(store) : EntryOf(store', k) = EntryOf(store, k)
      /\ \A a, b \in others : IsOlder(store', a, b) <=> IsOlder(store, a, b)
      /\ \A a \in others : IsOlder(store', a, key) /\ ~ IsOlder(store', key, a)
      /\ ~ IsOlder(store', key, key)
  <2>1. store \in Seq(Entries) /\ Distinct(store)
    BY StoreIsOrderedMap
  <2> QED BY <1>1, <2>1, RefreshedKeeps
<1>3. OrderOf(store') = (OrderOf(store) \cap others \X others) \cup (others \X {key})
  BY <1>1, <1>2, NewestIsLast
<1>4. EntriesOf(store') = EntriesOf(store) /\ DOMAIN EntriesOf(store) = KeysOf(store)
  BY <1>2 DEF EntriesOf
<1>5. EntriesOf(store)[key] =
        [value |-> EntryOf(store, key).value, createdAt |-> EntryOf(store, key).createdAt]
  BY <1>1 DEF EntriesOf
<1> QED BY <1>1, <1>3, <1>4, <1>5 DEF Lru!LookupHit, Lru!Cached, Lru!Expired, Lru!Hit, Hit,
           Lru!MadeNewest, EntriesOf, OrderOf, key

\* What set() pushes out is the least recently used key of a full cache.
LEMMA VictimIsOldest ==
  ASSUME Invariant, NEW old \in KeysOf(store),
         \A k \in KeysOf(store) \ {old} : IsOlder(store, old, k)
  PROVE  {old} = {k \in KeysOf(store) : \A j \in KeysOf(store) : <<j, k>> \notin OrderOf(store)}
<1>1. \A k \in KeysOf(store) : IndexOf(store, k) \in Int
  <2>1. store \in Seq(Entries)
    BY StoreIsOrderedMap
  <2>2. \A k \in KeysOf(store) : IndexOf(store, k) \in 1 .. Len(store)
    BY <2>1, KeyHasIndex
  <2>3. \A n : n \in 1 .. Len(store) => n \in Int
    BY <2>1, LenProperties
  <2> QED BY <2>2, <2>3, Zenon
<1>2. \A j, k \in KeysOf(store) : <<j, k>> \in OrderOf(store) <=> IsOlder(store, j, k)
  BY DEF OrderOf, IsOlder
<1>3. \A j \in KeysOf(store) : ~ IsOlder(store, j, old)
  <2>1. \A i, j \in Int : i < j => ~ (j < i)
    OBVIOUS
  <2>2. \A i \in Int : ~ (i < i)
    OBVIOUS
  <2> QED BY <1>1, <2>1, <2>2 DEF IsOlder
<1> QED BY <1>2, <1>3

\* set() stores the entry in place of the same victim.
LEMMA SetIsStore ==
  ASSUME Invariant, NEW url \in Urls, NEW value \in Values, Set(url, value)
  PROVE  Lru!Store(NormalizeKey(url), value)
<1> DEFINE key == NormalizeKey(url)
           kept == KeysOf(store') \ {key}
           victims == IF key \notin KeysOf(store) /\ Cardinality(KeysOf(store)) = MaxSize
                      THEN {k \in KeysOf(store) :
                              \A j \in KeysOf(store) : <<j, k>> \notin OrderOf(store)}
                      ELSE {}
           live == (KeysOf(store) \ victims) \cup {key}
<1>1. UNCHANGED <<now, reply>>
  BY DEF Set
<1>2. /\ key \in Keys
      /\ store' \in Seq(Entries) /\ Distinct(store') /\ Len(store') <= MaxSize
      /\ key \in KeysOf(store')
      /\ EntryOf(store', key) = [key |-> key, value |-> value, createdAt |-> now]
      /\ kept \subseteq KeysOf(store)
      /\ Agree(store', store, kept)
      /\ \A a \in kept : IsOlder(store', a, key) /\ ~ IsOlder(store', key, a)
      /\ ~ IsOlder(store', key, key)
      /\ \/ /\ kept = KeysOf(store) \ {key}
            /\ key \in KeysOf(store) \/ Len(store) < MaxSize
         \/ /\ key \notin KeysOf(store) /\ Len(store) = MaxSize
            /\ store[1].key \in KeysOf(store)
            /\ kept = KeysOf(store) \ {store[1].key}
            /\ \A k \in kept : IsOlder(store, store[1].key, k)
  BY SetChangesStore, Zenon
<1>3. Cardinality(KeysOf(store)) = Len(store) /\ Len(store) \in Nat
  BY StoreIsOrderedMap, KeysAreCounted, LenProperties
<1> HIDE DEF key
<1>4. KeysOf(store') = live
  <2>1. CASE key \in KeysOf(store) \/ Len(store) < MaxSize
    <3>1. victims = {}
      BY <1>3, <2>1, MaxSizeAssumption
    <3>2. kept = KeysOf(store) \ {key}
      BY <1>2, <1>3, <2>1, MaxSizeAssumption
    <3> QED BY <1>2, <3>1, <3>2
  <2>2. CASE /\ key \notin KeysOf(store) /\ Len(store) = MaxSize
             /\ store[1].key \in KeysOf(store)
             /\ kept = KeysOf(store) \ {store[1].key}
             /\ \A k \in kept : IsOlder(store, store[1].key, k)
    <3>1. victims = {store[1].key}
      BY <1>3, <2>2, VictimIsOldest
    <3> QED BY <1>2, <2>2, <3>1
  <2> QED BY <1>2, <2>1, <2>2
<1>5. OrderOf(store') = (OrderOf(store) \cap (live \ {key}) \X (live \ {key}))
                         \cup ((live \ {key}) \X {key})
  <2>1. \A a, b \in kept : IsOlder(store', a, b) <=> IsOlder(store, a, b)
    BY <1>2 DEF Agree
  <2>2. OrderOf(store') = (OrderOf(store) \cap kept \X kept) \cup (kept \X {key})
    BY <1>2, <2>1, NewestIsLast
  <2> QED BY <1>4, <2>2
<1>6. EntriesOf(store') = [k \in live |-> IF k = key THEN [value |-> value, createdAt |-> now]
                                                  ELSE EntriesOf(store)[k]]
  <2>1. \A k \in kept : EntryOf(store', k) = EntryOf(store, k)
    BY <1>2 DEF Agree
  <2> HIDE DEF live
  <2> QED BY <1>2, <1>4, <2>1 DEF EntriesOf
<1>7. DOMAIN EntriesOf(store) = KeysOf(store)
  BY DEF EntriesOf
<1>8. \A S : Lru!Cardinality(S) = Cardinality(S)
  BY DEF Lru!Cardinality, Cardinality
<1> QED BY <1>1, <1>5, <1>6, <1>7, <1>8 DEF Lru!Store, Lru!Cached, Lru!LeastRecentlyUsed,
           Lru!MadeNewest, EntriesOf, OrderOf, key

\* delete() takes the key out of the LRU cache, if it is there.
LEMMA DeleteIsRemove ==
  ASSUME Invariant, NEW url \in Urls, Delete(url)
  PROVE  Lru!Remove({NormalizeKey(url)})
<1> DEFINE key == NormalizeKey(url)
<1>1. store' = Without(store, key) /\ UNCHANGED <<now, reply>>
  BY DEF Delete
<1> HIDE DEF key
<1>2. LET live == KeysOf(store) \ {key}
      IN /\ EntriesOf(store') = [k \in live |-> EntriesOf(store)[k]]
         /\ OrderOf(store') = OrderOf(store) \cap live \X live
  BY <1>1, WithoutIsRestriction
<1>3. DOMAIN EntriesOf(store) = KeysOf(store)
  BY DEF EntriesOf
<1> QED BY <1>1, <1>2, <1>3 DEF Lru!Remove, Lru!Cached, Lru!Restrict, EntriesOf, OrderOf, key

\* clear() takes every key out.
LEMMA ClearIsRemove ==
  ASSUME Invariant, Clear
  PROVE  Lru!Remove(Keys)
<1>1. KeysOf(store') = {} /\ UNCHANGED <<now, reply>>
  BY DEF Clear, KeysOf
<1>2. KeysOf(store) \ Keys = {}
  BY StoreIsOrderedMap
<1>3. EntriesOf(store') = [k \in KeysOf(store) \ Keys |-> EntriesOf(store)[k]]
  BY <1>1, <1>2 DEF EntriesOf
<1>4. OrderOf(store') = OrderOf(store) \cap (KeysOf(store) \ Keys) \X (KeysOf(store) \ Keys)
  BY <1>1, <1>2 DEF OrderOf
<1>5. DOMAIN EntriesOf(store) = KeysOf(store)
  BY DEF EntriesOf
<1> QED BY <1>1, <1>3, <1>4, <1>5 DEF Lru!Remove, Lru!Cached, Lru!Restrict, EntriesOf, OrderOf

\* Every step is one of the LRU cache, or changes nothing that it sees.
LEMMA StepImplementsLru == Invariant /\ [Next]_vars => [Lru!Next]_Lru!vars
<1> SUFFICES ASSUME Invariant, [Next]_vars
             PROVE  [Lru!Next]_Lru!vars
  OBVIOUS
<1>0. \A url \in Urls : NormalizeKey(url) \in Keys
  BY DEF Urls, NormalizeKey
<1>1. ASSUME NEW url \in Urls, GetEntry(url)
      PROVE  Lru!Next
  BY <1>0, <1>1, AbsentIsMiss, ExpiredIsMiss, HitIsHit DEF GetEntry, Lru!Next
<1>2. ASSUME NEW url \in Urls, NEW value \in Values, Set(url, value)
      PROVE  Lru!Next
  BY <1>0, <1>2, SetIsStore DEF Lru!Next
<1>3. ASSUME NEW url \in Urls, Delete(url)
      PROVE  Lru!Next
  BY <1>0, <1>3, DeleteIsRemove DEF Lru!Next
<1>4. CASE Clear
  BY <1>4, ClearIsRemove DEF Lru!Next
<1>5. CASE Tick
  BY <1>5 DEF Tick, Lru!Next, Lru!Tick
<1>6. CASE UNCHANGED vars
  BY <1>6 DEF vars, Lru!vars
<1> QED BY <1>1, <1>2, <1>3, <1>4, <1>5, <1>6 DEF Next

\* The insertion order of the Map is a least-recently-used policy, whatever
\* the capacity: every behaviour of the cache is one of the abstract cache.
THEOREM CacheImplementsLru == Spec => ImplementsLru
<1>1. Init => Lru!Init
  BY InitIsLru
<1> QED
  BY <1>1, StepImplementsLru, InvariantHolds, PTL DEF Spec, ImplementsLru, Lru!Spec

============================================================================
