-------------------------- MODULE OperatorProofs --------------------------
(***************************************************************************)
(* Lemmas about the operators that the components share.  The ordered map  *)
(* of ETagStore, for every set of entries: which keys its operators keep,  *)
(* that they change no other entry and keep the order of the others.  The  *)
(* powers of Powers: what their recursion computes, with the induction     *)
(* that shows it.  ETagCache, HttpClient and Conversions rest on them.     *)
(***************************************************************************)
EXTENDS ETagStore, Powers, SequenceTheorems, FunctionTheorems, FiniteSetTheorems, TLAPS

----------------------------------------------------------------------------
(* Ordered maps *)

\* A store has one entry for each of its keys.
Distinct(store) ==
  \A i, j \in DOMAIN store : store[i].key = store[j].key => i = j

\* Which of two keys comes first.
IsOlder(store, a, b) == IndexOf(store, a) < IndexOf(store, b)

\* Entries, and their order, are the same in both stores for some of the keys.
Agree(store, other, keys) ==
  /\ \A k \in keys : EntryOf(store, k) = EntryOf(other, k)
  /\ \A a, b \in keys : IsOlder(store, a, b) <=> IsOlder(other, a, b)

\* A key leads to its position and to its entry.
LEMMA IndexOfKey ==
  ASSUME NEW E, NEW store \in Seq(E), Distinct(store), NEW i \in 1 .. Len(store)
  PROVE  /\ store[i].key \in KeysOf(store)
         /\ IndexOf(store, store[i].key) = i
         /\ EntryOf(store, store[i].key) = store[i]
<1>1. DOMAIN store = 1 .. Len(store)
  BY LenProperties
<1>2. IndexOf(store, store[i].key) = i
  BY <1>1 DEF IndexOf, Distinct
<1> QED BY <1>1, <1>2 DEF KeysOf, EntryOf

\* The position of a key is one of the store's, and its entry is found there.
LEMMA KeyHasIndex ==
  ASSUME NEW E, NEW store \in Seq(E), NEW key \in KeysOf(store)
  PROVE  /\ IndexOf(store, key) \in 1 .. Len(store)
         /\ store[IndexOf(store, key)].key = key
         /\ EntryOf(store, key) \in E
         /\ EntryOf(store, key).key = key
<1>1. DOMAIN store = 1 .. Len(store)
  BY LenProperties
<1>2. PICK i \in DOMAIN store : store[i].key = key
  BY DEF KeysOf
<1>3. IndexOf(store, key) \in DOMAIN store /\ store[IndexOf(store, key)].key = key
  BY <1>2 DEF IndexOf
<1>4. store[IndexOf(store, key)] \in E
  BY <1>1, <1>3, ElementOfSeq
<1> QED BY <1>1, <1>3, <1>4 DEF EntryOf

\* A store has as many keys as entries.
LEMMA KeysAreCounted ==
  ASSUME NEW E, NEW store \in Seq(E), Distinct(store)
  PROVE  IsFiniteSet(KeysOf(store)) /\ Cardinality(KeysOf(store)) = Len(store)
<1> DEFINE position == [i \in 1 .. Len(store) |-> store[i].key]
<1>1. DOMAIN store = 1 .. Len(store) /\ Len(store) \in Nat
  BY LenProperties
<1>2. position \in Bijection(1 .. Len(store), KeysOf(store))
  <2>1. position \in [1 .. Len(store) -> KeysOf(store)]
    BY <1>1 DEF KeysOf
  <2>2. \A i, j \in 1 .. Len(store) : position[i] = position[j] => i = j
    BY <1>1 DEF Distinct
  <2>3. \A k \in KeysOf(store) : \E i \in 1 .. Len(store) : position[i] = k
    BY <1>1 DEF KeysOf
  <2> QED BY <2>1, <2>2, <2>3, Fun_IsBij
<1>3. IsFiniteSet(1 .. Len(store)) /\ Cardinality(1 .. Len(store)) = Len(store)
  BY <1>1, FS_Interval
<1>4. ExistsBijection(1 .. Len(store), KeysOf(store))
  BY <1>2 DEF ExistsBijection
<1> QED BY <1>3, <1>4, FS_Bijection

\* Leaving entries out, in whatever place, leaves the others as they were.
LEMMA Thinned ==
  ASSUME NEW E, NEW store \in Seq(E), Distinct(store), NEW thin \in Seq(E),
         NEW at \in [1 .. Len(thin) -> 1 .. Len(store)],
         \A i \in 1 .. Len(thin) : thin[i] = store[at[i]],
         \A i, j \in 1 .. Len(thin) : i < j => at[i] < at[j]
  PROVE  /\ Distinct(thin)
         /\ KeysOf(thin) \subseteq KeysOf(store)
         /\ Agree(thin, store, KeysOf(thin))
<1>1. /\ DOMAIN thin = 1 .. Len(thin) /\ DOMAIN store = 1 .. Len(store)
      /\ Len(thin) \in Nat /\ Len(store) \in Nat
  BY LenProperties
<1>2. \A i, j \in 1 .. Len(thin) : at[i] = at[j] => i = j
  <2> SUFFICES ASSUME NEW i \in 1 .. Len(thin), NEW j \in 1 .. Len(thin), at[i] = at[j]
               PROVE  i = j
    OBVIOUS
  <2>1. at[i] \in Int /\ at[j] \in Int /\ i \in Int /\ j \in Int
    BY <1>1
  <2>2. ~ (i < j) /\ ~ (j < i)
    BY <2>1
  <2> QED BY <2>1, <2>2
<1>3. Distinct(thin)
  BY <1>1, <1>2 DEF Distinct
<1>5. \A i \in 1 .. Len(thin) :
        /\ IndexOf(thin, thin[i].key) = i
        /\ IndexOf(store, thin[i].key) = at[i]
        /\ thin[i].key \in KeysOf(store)
  BY <1>3, IndexOfKey
<1>6. \A i, j \in 1 .. Len(thin) : i < j <=> at[i] < at[j]
  <2> SUFFICES ASSUME NEW i \in 1 .. Len(thin), NEW j \in 1 .. Len(thin), at[i] < at[j]
               PROVE  i < j
    OBVIOUS
  <2>1. at[i] \in Int /\ at[j] \in Int /\ i \in Int /\ j \in Int
    BY <1>1
  <2>2. i # j /\ ~ (j < i)
    BY <2>1
  <2> QED BY <2>1, <2>2
<1>7. \A k \in KeysOf(thin) : \E i \in 1 .. Len(thin) : k = thin[i].key
  BY <1>1 DEF KeysOf
<1>8. KeysOf(thin) \subseteq KeysOf(store)
  BY <1>5, <1>7
<1>9. \A k \in KeysOf(thin) : EntryOf(thin, k) = EntryOf(store, k)
  <2> SUFFICES ASSUME NEW i \in 1 .. Len(thin)
               PROVE  EntryOf(thin, thin[i].key) = EntryOf(store, thin[i].key)
    BY <1>7
  <2>1. EntryOf(thin, thin[i].key) = thin[i]
    BY <1>5 DEF EntryOf
  <2>2. EntryOf(store, thin[i].key) = store[at[i]]
    BY <1>5 DEF EntryOf
  <2> QED BY <2>1, <2>2
<1>10. \A a, b \in KeysOf(thin) : IsOlder(thin, a, b) <=> IsOlder(store, a, b)
  BY <1>5, <1>6, <1>7 DEF IsOlder
<1> QED BY <1>3, <1>8, <1>9, <1>10 DEF Agree

----------------------------------------------------------------------------
(* The operators *)

\* What a store becomes when entries go: it keeps `keys`, in their order.
Keeps(result, store, keys, E) ==
  /\ result \in Seq(E)
  /\ Distinct(result)
  /\ KeysOf(result) = keys
  /\ Agree(result, store, keys)

\* A store agrees with itself.
LEMMA AgreeIsReflexive == \A store, keys : Agree(store, store, keys)
BY DEF Agree

\* Map.prototype.delete removes the key's entry and changes no other.
LEMMA WithoutKeeps ==
  ASSUME NEW E, NEW store \in Seq(E), Distinct(store), NEW key
  PROVE  /\ Keeps(Without(store, key), store, KeysOf(store) \ {key}, E)
         /\ Len(Without(store, key)) =
              IF key \in KeysOf(store) THEN Len(store) - 1 ELSE Len(store)
<1>1. CASE key \notin KeysOf(store)
  BY <1>1, AgreeIsReflexive DEF Without, Keeps
<1>2. CASE key \in KeysOf(store)
  <2> DEFINE n == IndexOf(store, key)
             front == SubSeq(store, 1, n - 1)
             back == SubSeq(store, n + 1, Len(store))
             result == Without(store, key)
             at == [i \in 1 .. Len(store) - 1 |-> IF i < n THEN i ELSE i + 1]
  <2>1. n \in 1 .. Len(store) /\ Len(store) \in Nat /\ store[n].key = key
    BY <1>2, KeyHasIndex, LenProperties
  <2>2. result = front \o back
    BY <1>2 DEF Without
  <2> HIDE DEF n
  <2>3. \A i \in 1 .. Len(store) : store[i] \in E
    BY ElementOfSeq
  <2>4. /\ front \in Seq(E) /\ Len(front) = n - 1
        /\ \A i \in 1 .. n - 1 : front[i] = store[i]
    <3>1. \A i \in 1 .. n - 1 : store[i] \in E
      BY <2>1, <2>3
    <3>2. 1 \in Int /\ n - 1 \in Int
      BY <2>1
    <3>3. /\ front \in Seq(E)
          /\ Len(front) = IF 1 <= n - 1 THEN n - 1 - 1 + 1 ELSE 0
          /\ \A i \in 1 .. n - 1 - 1 + 1 : front[i] = store[1 + i - 1]
      BY <3>1, <3>2, SubSeqProperties
    <3> QED BY <2>1, <3>3
  <2>5. /\ back \in Seq(E) /\ Len(back) = Len(store) - n
        /\ \A i \in 1 .. Len(store) - n : back[i] = store[n + i]
    <3>1. \A i \in n + 1 .. Len(store) : store[i] \in E
      BY <2>1, <2>3
    <3>2. n + 1 \in Int /\ Len(store) \in Int
      BY <2>1
    <3>3. /\ back \in Seq(E)
          /\ Len(back) = IF n + 1 <= Len(store) THEN Len(store) - (n + 1) + 1 ELSE 0
          /\ \A i \in 1 .. Len(store) - (n + 1) + 1 : back[i] = store[n + 1 + i - 1]
      BY <3>1, <3>2, SubSeqProperties
    <3> QED BY <2>1, <3>3
  <2> HIDE DEF front, back
  <2>6. /\ result \in Seq(E) /\ Len(result) = Len(store) - 1
        /\ \A i \in 1 .. Len(store) - 1 : result[i] = store[at[i]]
    <3>1. /\ front \o back \in Seq(E)
          /\ Len(front \o back) = Len(front) + Len(back)
          /\ \A i \in 1 .. Len(front) + Len(back) : (front \o back)[i] =
               IF i <= Len(front) THEN front[i] ELSE back[i - Len(front)]
      BY <2>4, <2>5, ConcatProperties
    <3>2. Len(front) + Len(back) = Len(store) - 1
      BY <2>1, <2>4, <2>5
    <3>3. ASSUME NEW i \in 1 .. Len(store) - 1
          PROVE  (front \o back)[i] = store[at[i]]
      <4>1. CASE i < n
        <5>1. i <= Len(front) /\ i \in 1 .. n - 1 /\ at[i] = i
          BY <2>1, <2>4, <4>1
        <5> QED BY <2>4, <3>1, <3>2, <5>1
      <4>2. CASE ~ (i < n)
        <5>1. /\ ~ (i <= Len(front)) /\ i - Len(front) \in 1 .. Len(store) - n
              /\ at[i] = i + 1 /\ n + (i - Len(front)) = i + 1
          BY <2>1, <2>4, <4>2
        <5> QED BY <2>5, <3>1, <3>2, <5>1
      <4> QED BY <4>1, <4>2
    <3> QED BY <2>2, <3>1, <3>2, <3>3
  <2>7. at \in [1 .. Len(result) -> 1 .. Len(store)]
    BY <2>1, <2>6
  <2>8. \A i, j \in 1 .. Len(result) : i < j => at[i] < at[j]
    BY <2>1, <2>6
  <2>9. KeysOf(result) = KeysOf(store) \ {key}
    <3>1. \A i \in 1 .. Len(result) : at[i] \in (1 .. Len(store)) \ {n}
      BY <2>1, <2>6
    <3>2. \A j \in (1 .. Len(store)) \ {n} : \E i \in 1 .. Len(result) : at[i] = j
      <4> SUFFICES ASSUME NEW j \in (1 .. Len(store)) \ {n}
                   PROVE  \E i \in 1 .. Len(result) : at[i] = j
        OBVIOUS
      <4>1. CASE j < n
        <5>1. j \in 1 .. Len(result) /\ at[j] = j
          BY <2>1, <2>6, <4>1
        <5> QED BY <5>1
      <4>2. CASE ~ (j < n)
        <5>1. j - 1 \in 1 .. Len(result) /\ at[j - 1] = j
          BY <2>1, <2>6, <4>2
        <5> QED BY <5>1
      <4> QED BY <4>1, <4>2
    <3>3. DOMAIN store = 1 .. Len(store)
      BY LenProperties
    <3>4. \A j \in 1 .. Len(store) : store[j].key = key <=> j = n
      BY <2>1, <3>3 DEF Distinct
    <3>5. /\ DOMAIN result = 1 .. Len(result)
          /\ \A i \in 1 .. Len(result) : result[i] = store[at[i]]
      BY <2>6, LenProperties
    <3> HIDE DEF at, result
    <3>6. \A k \in KeysOf(result) : k \in KeysOf(store) \ {key}
      BY <3>1, <3>3, <3>4, <3>5 DEF KeysOf
    <3>7. \A k \in KeysOf(store) \ {key} : k \in KeysOf(result)
      BY <2>1, <3>2, <3>3, <3>5 DEF KeysOf
    <3> QED BY <3>6, <3>7
  <2> HIDE DEF at, result
  <2>10. /\ Distinct(result)
         /\ Agree(result, store, KeysOf(result))
    <3>1. result \in Seq(E) /\ \A i \in 1 .. Len(result) : result[i] = store[at[i]]
      BY <2>6
    <3> QED BY <3>1, <2>7, <2>8, Thinned
  <2> QED BY <1>2, <2>6, <2>9, <2>10 DEF Keeps, result
<1> QED BY <1>1, <1>2

\* An entry with a new key is appended behind the others.
LEMMA AppendAddsNewest ==
  ASSUME NEW E, NEW store \in Seq(E), Distinct(store),
         NEW entry \in E, entry.key \notin KeysOf(store)
  PROVE  LET result == Append(store, entry)
         IN /\ result \in Seq(E)
            /\ Distinct(result)
            /\ Len(result) = Len(store) + 1
            /\ KeysOf(result) = KeysOf(store) \cup {entry.key}
            /\ EntryOf(result, entry.key) = entry
            /\ Agree(result, store, KeysOf(store))
            /\ \A a \in KeysOf(store) :
                 IsOlder(result, a, entry.key) /\ ~ IsOlder(result, entry.key, a)
            /\ ~ IsOlder(result, entry.key, entry.key)
<1> DEFINE result == Append(store, entry)
           n == Len(store) + 1
<1>1. /\ DOMAIN store = 1 .. Len(store) /\ Len(store) \in Nat
      /\ n \in Nat /\ n \in 1 .. n
  BY LenProperties
<1>2. /\ result \in Seq(E) /\ Len(result) = n
      /\ \A i \in 1 .. Len(store) : result[i] = store[i]
      /\ result[n] = entry
  BY AppendProperties
<1> HIDE DEF result
<1>3. DOMAIN result = 1 .. n
  BY <1>2, LenProperties
<1>4. \A i \in 1 .. n : i \in 1 .. Len(store) \/ i = n
  BY <1>1
<1>5. \A i \in 1 .. Len(store) : i \in 1 .. n /\ i < n /\ i # n /\ ~ (n < i)
  BY <1>1
<1>6. \A i \in 1 .. Len(store) : store[i].key \in KeysOf(store)
  BY <1>1 DEF KeysOf
<1>7. KeysOf(result) = KeysOf(store) \cup {entry.key}
  BY <1>1, <1>2, <1>3, <1>4, <1>5 DEF KeysOf
<1>8. Distinct(result)
  BY <1>1, <1>2, <1>3, <1>4, <1>5, <1>6 DEF Distinct
<1>9. /\ IndexOf(result, entry.key) = n
      /\ EntryOf(result, entry.key) = entry
  BY <1>1, <1>2, <1>8, IndexOfKey DEF n
<1>10. ASSUME NEW k \in KeysOf(store)
       PROVE  /\ IndexOf(result, k) = IndexOf(store, k)
              /\ IndexOf(result, k) \in 1 .. Len(store)
              /\ EntryOf(result, k) = EntryOf(store, k)
  <2>1. PICK i \in 1 .. Len(store) : store[i].key = k
    BY <1>1 DEF KeysOf
  <2>2. IndexOf(store, k) = i /\ EntryOf(store, k) = store[i]
    BY <2>1, IndexOfKey
  <2>3. i \in 1 .. Len(result) /\ result[i] = store[i] /\ result[i].key = k
    BY <1>2, <1>5, <2>1
  <2>4. IndexOf(result, k) = i /\ EntryOf(result, k) = result[i]
    BY <1>2, <1>8, <2>3, IndexOfKey
  <2> QED BY <2>2, <2>3, <2>4
<1>11. Agree(result, store, KeysOf(store))
  BY <1>10 DEF Agree, IsOlder
<1>12. \A a \in KeysOf(store) :
         IsOlder(result, a, entry.key) /\ ~ IsOlder(result, entry.key, a)
  BY <1>5, <1>9, <1>10 DEF IsOlder
<1>13. ~ IsOlder(result, entry.key, entry.key)
  BY <1>1, <1>9 DEF IsOlder
<1> QED BY <1>2, <1>7, <1>8, <1>9, <1>11, <1>12, <1>13 DEF result, n

\* A hit moves its entry to the newest place and changes nothing else.
LEMMA RefreshedKeeps ==
  ASSUME NEW E, NEW store \in Seq(E), Distinct(store), NEW key \in KeysOf(store)
  PROVE  LET result == Refreshed(store, key)
         IN /\ result \in Seq(E)
            /\ Distinct(result)
            /\ Len(result) = Len(store)
            /\ KeysOf(result) = KeysOf(store)
            /\ \A k \in KeysOf(store) : EntryOf(result, k) = EntryOf(store, k)
            /\ \A a, b \in KeysOf(store) \ {key} :
                 IsOlder(result, a, b) <=> IsOlder(store, a, b)
            /\ \A a \in KeysOf(store) \ {key} :
                 IsOlder(result, a, key) /\ ~ IsOlder(result, key, a)
            /\ ~ IsOlder(result, key, key)
<1> DEFINE rest == Without(store, key)
           entry == EntryOf(store, key)
<1>1. /\ rest \in Seq(E) /\ Distinct(rest)
      /\ KeysOf(rest) = KeysOf(store) \ {key}
      /\ Agree(rest, store, KeysOf(store) \ {key})
      /\ Len(rest) = Len(store) - 1
  BY WithoutKeeps DEF Keeps
<1>2. entry \in E /\ entry.key = key
  BY KeyHasIndex
<1>3. Len(store) \in Nat
  BY LenProperties
<1>4. Refreshed(store, key) = Append(rest, entry)
  BY DEF Refreshed
<1> HIDE DEF rest, entry
<1> DEFINE result == Append(rest, entry)
<1>5. /\ result \in Seq(E) /\ Distinct(result)
      /\ Len(result) = Len(rest) + 1
      /\ KeysOf(result) = KeysOf(rest) \cup {key}
      /\ EntryOf(result, key) = entry
      /\ Agree(result, rest, KeysOf(rest))
      /\ \A a \in KeysOf(rest) : IsOlder(result, a, key) /\ ~ IsOlder(result, key, a)
      /\ ~ IsOlder(result, key, key)
  BY <1>1, <1>2, AppendAddsNewest
<1> HIDE DEF result
<1>6. Len(result) = Len(store)
  BY <1>1, <1>3, <1>5
<1>7. KeysOf(result) = KeysOf(store)
  BY <1>1, <1>5
<1>8. \A k \in KeysOf(store) : EntryOf(result, k) = EntryOf(store, k)
  BY <1>1, <1>5 DEF Agree, entry
<1>9. \A a, b \in KeysOf(store) \ {key} :
        IsOlder(result, a, b) <=> IsOlder(store, a, b)
  BY <1>1, <1>5 DEF Agree
<1> QED BY <1>1, <1>4, <1>5, <1>6, <1>7, <1>8, <1>9 DEF result

\* Room is made by leaving out the oldest entries, as few as necessary.
LEMMA OldestDroppedKeeps ==
  ASSUME NEW E, NEW store \in Seq(E), Distinct(store),
         NEW maxSize \in Nat \ {0}, Len(store) <= maxSize
  PROVE  LET result == OldestDropped(store, maxSize)
         IN /\ Keeps(result, store, KeysOf(result), E)
            /\ Len(result) < maxSize
            /\ Len(store) < maxSize => result = store
            /\ Len(store) = maxSize =>
                 /\ Len(result) = Len(store) - 1
                 /\ store[1].key \in KeysOf(store)
                 /\ KeysOf(result) = KeysOf(store) \ {store[1].key}
                 /\ \A k \in KeysOf(result) : IsOlder(store, store[1].key, k)
<1> DEFINE result == OldestDropped(store, maxSize)
<1>1. Len(store) \in Nat /\ DOMAIN store = 1 .. Len(store)
  BY LenProperties
<1>2. CASE Len(store) < maxSize
  <2>1. result = store
    BY <1>1, <1>2 DEF OldestDropped
  <2>2. Len(store) # maxSize
    <3>1. \A m, n \in Nat : m < n => m # n
      OBVIOUS
    <3> QED BY <1>1, <1>2, <3>1, Zenon
  <2>3. Keeps(store, store, KeysOf(store), E)
    BY AgreeIsReflexive DEF Keeps
  <2> QED BY <1>2, <2>1, <2>2, <2>3
<1>3. CASE Len(store) = maxSize
  <2> DEFINE tail == SubSeq(store, 2, Len(store))
             at == [i \in 1 .. Len(store) - 1 |-> i + 1]
  <2>1. result = tail
    BY <1>1, <1>3 DEF OldestDropped
  <2>2. \A i \in 2 .. Len(store) : store[i] \in E
    BY <1>1, ElementOfSeq
  <2>3. /\ tail \in Seq(E)
        /\ Len(tail) = IF 2 <= Len(store) THEN Len(store) - 2 + 1 ELSE 0
        /\ \A i \in 1 .. Len(store) - 2 + 1 : tail[i] = store[2 + i - 1]
    BY <1>1, <2>2, SubSeqProperties
  <2> HIDE DEF tail
  <2>4. /\ Len(tail) = Len(store) - 1 /\ Len(tail) \in Nat
        /\ \A i \in 1 .. Len(tail) : tail[i] = store[at[i]]
    BY <1>1, <1>3, <2>3
  <2>5. at \in [1 .. Len(tail) -> 1 .. Len(store)]
    BY <1>1, <2>4
  <2>6. \A i, j \in 1 .. Len(tail) : i < j => at[i] < at[j]
    BY <2>4
  <2>7. \A i \in 1 .. Len(tail) : 1 < at[i] /\ at[i] \in 1 .. Len(store)
    BY <1>1, <2>4
  <2>8. \A j \in 2 .. Len(store) : j - 1 \in 1 .. Len(tail) /\ at[j - 1] = j
    BY <1>1, <2>4
  <2> HIDE DEF at
  <2>9. Distinct(tail) /\ Agree(tail, store, KeysOf(tail))
    BY <2>3, <2>4, <2>5, <2>6, Thinned
  <2>10. 1 \in 1 .. Len(store) /\ store[1].key \in KeysOf(store)
    BY <1>1, <1>3 DEF KeysOf
  <2>11. DOMAIN tail = 1 .. Len(tail)
    BY <2>3, LenProperties
  <2>12. ASSUME NEW k \in KeysOf(tail)
         PROVE  k \in KeysOf(store) \ {store[1].key} /\ IsOlder(store, store[1].key, k)
    <3>1. PICK i \in 1 .. Len(tail) : k = store[at[i]].key
      BY <2>4, <2>11 DEF KeysOf
    <3>2. at[i] \in 1 .. Len(store) /\ 1 < at[i] /\ at[i] # 1
      BY <1>1, <2>7
    <3>3. k \in KeysOf(store) /\ IndexOf(store, k) = at[i]
      BY <3>1, <3>2, IndexOfKey
    <3>4. IndexOf(store, store[1].key) = 1
      BY <2>10, IndexOfKey
    <3> QED BY <3>2, <3>3, <3>4 DEF IsOlder
  <2>13. ASSUME NEW k \in KeysOf(store) \ {store[1].key}
         PROVE  k \in KeysOf(tail)
    <3>1. PICK j \in 1 .. Len(store) : k = store[j].key
      BY <1>1 DEF KeysOf
    <3>2. j \in 2 .. Len(store)
      BY <1>1, <3>1
    <3>3. j - 1 \in 1 .. Len(tail) /\ at[j - 1] = j
      BY <2>8, <3>2
    <3>4. tail[j - 1].key = k
      BY <2>4, <3>1, <3>3
    <3> QED BY <2>11, <3>3, <3>4 DEF KeysOf
  <2>14. KeysOf(tail) = KeysOf(store) \ {store[1].key}
    BY <2>12, <2>13
  <2>15. Len(tail) < maxSize /\ ~ (Len(store) < maxSize)
    BY <1>1, <1>3, <2>4
  <2> QED BY <2>1, <2>3, <2>4, <2>9, <2>10, <2>12, <2>14, <2>15 DEF Keeps, result
<1>4. Len(store) < maxSize \/ Len(store) = maxSize
  <2>1. \A m, n \in Nat : m <= n => m < n \/ m = n
    OBVIOUS
  <2> QED BY <1>1, <2>1, Zenon
<1> QED BY <1>2, <1>3, <1>4

\* set(): of a store with room for it, or with the key already in it, nothing
\* but the old entry of the key goes; of a full one the oldest entry does.
LEMMA PutKeeps ==
  ASSUME NEW E, NEW store \in Seq(E), Distinct(store),
         NEW maxSize \in Nat \ {0}, Len(store) <= maxSize, NEW entry \in E
  PROVE  LET result == Put(store, entry, maxSize)
             kept == KeysOf(result) \ {entry.key}
             others == KeysOf(store) \ {entry.key}
         IN /\ result \in Seq(E)
            /\ Distinct(result)
            /\ Len(result) <= maxSize
            /\ entry.key \in KeysOf(result)
            /\ EntryOf(result, entry.key) = entry
            /\ Agree(result, store, kept)
            /\ \A a \in kept :
                 IsOlder(result, a, entry.key) /\ ~ IsOlder(result, entry.key, a)
            /\ ~ IsOlder(result, entry.key, entry.key)
            /\ (entry.key \in KeysOf(store) \/ Len(store) < maxSize) => kept = others
            /\ (entry.key \notin KeysOf(store) /\ Len(store) = maxSize) =>
                 /\ store[1].key \in KeysOf(store)
                 /\ kept = KeysOf(store) \ {store[1].key}
                 /\ \A k \in kept : IsOlder(store, store[1].key, k)
<1> DEFINE rest == Without(store, entry.key)
           room == OldestDropped(rest, maxSize)
           result == Append(room, entry)
<1>0. Put(store, entry, maxSize) = result
  BY DEF Put
<1>1. /\ rest \in Seq(E) /\ Distinct(rest)
      /\ KeysOf(rest) = KeysOf(store) \ {entry.key}
      /\ Agree(rest, store, KeysOf(store) \ {entry.key})
      /\ Len(rest) = IF entry.key \in KeysOf(store) THEN Len(store) - 1 ELSE Len(store)
  BY WithoutKeeps DEF Keeps
<1>2. Len(store) \in Nat /\ Len(rest) \in Nat /\ Len(rest) <= maxSize
  BY <1>1, LenProperties
<1>3. entry.key \notin KeysOf(store) => rest = store
  BY DEF Without
<1> HIDE DEF rest
<1>4. /\ room \in Seq(E) /\ Distinct(room)
      /\ Agree(room, rest, KeysOf(room))
      /\ Len(room) < maxSize
      /\ Len(rest) < maxSize => room = rest
      /\ Len(rest) = maxSize =>
           /\ rest[1].key \in KeysOf(rest)
           /\ KeysOf(room) = KeysOf(rest) \ {rest[1].key}
           /\ \A k \in KeysOf(room) : IsOlder(rest, rest[1].key, k)
  BY <1>1, <1>2, OldestDroppedKeeps DEF Keeps
<1> HIDE DEF room
<1>5. KeysOf(room) \subseteq KeysOf(rest) /\ entry.key \notin KeysOf(room)
  <2>1. Len(rest) < maxSize \/ Len(rest) = maxSize
    BY <1>2
  <2> QED BY <1>1, <1>4, <2>1
<1>6. /\ result \in Seq(E) /\ Distinct(result)
      /\ Len(result) = Len(room) + 1
      /\ KeysOf(result) = KeysOf(room) \cup {entry.key}
      /\ EntryOf(result, entry.key) = entry
      /\ Agree(result, room, KeysOf(room))
      /\ \A a \in KeysOf(room) :
           IsOlder(result, a, entry.key) /\ ~ IsOlder(result, entry.key, a)
      /\ ~ IsOlder(result, entry.key, entry.key)
  BY <1>4, <1>5, AppendAddsNewest
<1> HIDE DEF result
<1>7. KeysOf(result) \ {entry.key} = KeysOf(room)
  BY <1>5, <1>6
<1>8. Agree(result, store, KeysOf(room))
  BY <1>1, <1>4, <1>5, <1>6 DEF Agree
<1>9. Len(result) <= maxSize
  <2>1. Len(room) \in Nat
    BY <1>4, LenProperties
  <2> QED BY <1>4, <1>6, <2>1
<1>10. (entry.key \in KeysOf(store) \/ Len(store) < maxSize) =>
         KeysOf(room) = KeysOf(store) \ {entry.key}
  <2>1. (entry.key \in KeysOf(store) \/ Len(store) < maxSize) => Len(rest) < maxSize
    BY <1>1, <1>2
  <2> QED BY <1>1, <1>4, <2>1
<1>11. (entry.key \notin KeysOf(store) /\ Len(store) = maxSize) =>
         /\ store[1].key \in KeysOf(store)
         /\ KeysOf(room) = KeysOf(store) \ {store[1].key}
         /\ \A k \in KeysOf(room) : IsOlder(store, store[1].key, k)
  BY <1>3, <1>4
<1> QED BY <1>0, <1>6, <1>7, <1>8, <1>9, <1>10, <1>11

\* An entry that is replaced in its place keeps the keys and the other entries.
LEMMA ReplacedKeeps ==
  ASSUME NEW E, NEW store \in Seq(E), Distinct(store), NEW key \in KeysOf(store),
         NEW entry \in E, entry.key = key,
         NEW result \in Seq(E), Len(result) = Len(store),
         result[IndexOf(store, key)] = entry,
         \A i \in 1 .. Len(store) : i # IndexOf(store, key) => result[i] = store[i]
  PROVE  /\ Distinct(result)
         /\ KeysOf(result) = KeysOf(store)
         /\ EntryOf(result, key) = entry
         /\ \A k \in KeysOf(store) \ {key} : EntryOf(result, k) = EntryOf(store, k)
<1> DEFINE n == IndexOf(store, key)
<1>1. n \in 1 .. Len(store) /\ store[n].key = key
  BY KeyHasIndex
<1>2. DOMAIN store = 1 .. Len(store) /\ Len(store) \in Nat
  BY LenProperties
<1>3. result[n] = entry /\ \A i \in 1 .. Len(store) : i # n => result[i] = store[i]
  OBVIOUS
<1> HIDE DEF n
<1>4. DOMAIN result = 1 .. Len(store)
  BY <1>3, LenProperties
<1>5. \A i \in 1 .. Len(store) : result[i].key = store[i].key
  BY <1>1, <1>3
<1>6. Distinct(result)
  BY <1>2, <1>4, <1>5 DEF Distinct
<1>7. KeysOf(result) = KeysOf(store)
  <2>1. \A k \in KeysOf(result) : k \in KeysOf(store)
    BY <1>2, <1>4, <1>5 DEF KeysOf
  <2>2. \A k \in KeysOf(store) : k \in KeysOf(result)
    BY <1>2, <1>4, <1>5 DEF KeysOf
  <2> QED BY <2>1, <2>2
<1>8. \A i \in 1 .. Len(store) :
        EntryOf(result, store[i].key) = result[i] /\ EntryOf(store, store[i].key) = store[i]
  BY <1>3, <1>5, <1>6, IndexOfKey
<1>9. \A k \in KeysOf(store) : \E i \in 1 .. Len(store) : k = store[i].key
  BY <1>2 DEF KeysOf
<1>10. EntryOf(result, key) = entry
  BY <1>1, <1>3, <1>8
<1>11. \A k \in KeysOf(store) \ {key} : EntryOf(result, k) = EntryOf(store, k)
  <2> SUFFICES ASSUME NEW k \in KeysOf(store) \ {key}
               PROVE  EntryOf(result, k) = EntryOf(store, k)
    OBVIOUS
  <2>1. PICK i \in 1 .. Len(store) : k = store[i].key
    BY <1>9
  <2>2. i # n
    BY <1>1, <2>1
  <2>3. EntryOf(result, k) = result[i] /\ EntryOf(store, k) = store[i]
    BY <1>8, <2>1
  <2> QED BY <1>3, <2>2, <2>3
<1> QED BY <1>3, <1>6, <1>7, <1>10, <1>11

----------------------------------------------------------------------------
(* Induction *)

\* Some number is the least of a set: smaller intervals are strict subsets, and
\* the strict subset ordering of finite sets is well founded.
LEMMA LeastMember ==
  ASSUME NEW S \in SUBSET Nat, S # {}
  PROVE  \E m \in S : \A n \in S : m <= n
<1> DEFINE R == StrictSubsetOrdering(Nat)
           T == {0 .. n : n \in S}
<1>1. IsWellFoundedOn(R, FiniteSubsetsOf(Nat))
  BY FS_StrictSubsetOrderingWellFounded
<1>2. T \subseteq FiniteSubsetsOf(Nat) /\ T # {}
  <2>1. \A n \in S : IsFiniteSet(0 .. n) /\ 0 .. n \subseteq Nat
    BY FS_Interval
  <2> QED BY <2>1 DEF FiniteSubsetsOf
<1> HIDE DEF R
<1>3. PICK x \in T : \A y \in T : ~ (<<y, x>> \in R)
  BY <1>1, <1>2, WFMin
<1>4. PICK m \in S : x = 0 .. m
  OBVIOUS
<1>5. ASSUME NEW n \in S, n < m
      PROVE  FALSE
  <2>1. 0 .. n \in T /\ 0 .. n \subseteq Nat /\ 0 .. m \subseteq Nat
        /\ 0 .. n \subseteq 0 .. m /\ 0 .. n # 0 .. m
    <3>1. m \in 0 .. m /\ m \notin 0 .. n
      BY <1>5
    <3> QED BY <1>5, <3>1
  <2>2. <<0 .. n, 0 .. m>> \in R
    BY <2>1 DEF R, StrictSubsetOrdering
  <2> QED BY <1>3, <1>4, <2>1, <2>2
<1> QED BY <1>5

\* Induction, for a set of numbers.
LEMMA Induction ==
  ASSUME NEW S \in SUBSET Nat, 0 \in S, \A n \in S : n + 1 \in S
  PROVE  S = Nat
<1>1. SUFFICES ASSUME Nat \ S # {} PROVE FALSE
  OBVIOUS
<1>2. PICK m \in Nat \ S : \A n \in Nat \ S : m <= n
  BY <1>1, LeastMember
<1>3. m - 1 \in Nat /\ m - 1 \in S
  BY <1>2
<1>4. (m - 1) + 1 = m
  BY <1>2
<1> QED BY <1>2, <1>3, <1>4

\* A function on the numbers has a start, and a step from each number to the next.
Recurs(f, start, step) == f[0] = start /\ \A n \in Nat : f[n + 1] = step[n][f[n]]

\* A start and a step make a function.
LEMMA RecursionExists ==
  ASSUME NEW S, NEW start \in S, NEW step \in [Nat -> [S -> S]]
  PROVE  \E f \in [Nat -> S] : Recurs(f, start, step)
<1> DEFINE Prefixes(n) == {g \in [0 .. n -> S] :
                             g[0] = start /\ \A i \in 0 .. n - 1 : g[i + 1] = step[i][g[i]]}
           Start == {n \in Nat : Prefixes(n) # {}}
<1>1. Start = Nat
  <2>1. 0 \in Start
    <3>1. [i \in 0 .. 0 |-> start] \in Prefixes(0)
      OBVIOUS
    <3> QED BY <3>1
  <2>2. ASSUME NEW n \in Start
        PROVE  n + 1 \in Start
    <3>1. PICK g : g \in Prefixes(n)
      OBVIOUS
    <3> DEFINE h == [i \in 0 .. n + 1 |-> IF i \in 0 .. n THEN g[i] ELSE step[n][g[n]]]
    <3>2. h \in [0 .. n + 1 -> S]
      <4>1. step[n][g[n]] \in S
        BY <3>1
      <4> QED BY <3>1, <4>1
    <3>3. h[0] = start
      BY <3>1
    <3>4. ASSUME NEW i \in 0 .. n
          PROVE  h[i + 1] = step[i][h[i]]
      <4>1. i \in 0 .. n + 1 /\ i + 1 \in 0 .. n + 1 /\ h[i] = g[i]
        OBVIOUS
      <4>2. CASE i + 1 \in 0 .. n
        <5>1. i \in 0 .. n - 1
          BY <4>2
        <5>2. g[i + 1] = step[i][g[i]]
          BY <3>1, <5>1
        <5> QED BY <4>1, <4>2, <5>2
      <4>3. CASE i + 1 \notin 0 .. n
        <5>1. i = n
          BY <4>3
        <5> QED BY <4>1, <4>3, <5>1
      <4> QED BY <4>2, <4>3
    <3>5. (n + 1) - 1 = n
      OBVIOUS
    <3>6. h \in Prefixes(n + 1)
      BY <3>2, <3>3, <3>4, <3>5
    <3> HIDE DEF h, Prefixes
    <3>7. n + 1 \in Nat /\ Prefixes(n + 1) # {}
      BY <3>6
    <3> QED BY <3>7
  <2> HIDE DEF Start
  <2>3. Start \in SUBSET Nat
    BY DEF Start
  <2> QED BY <2>1, <2>2, <2>3, Induction
<1>2. ASSUME NEW n \in Nat, NEW g \in Prefixes(n), NEW m \in Nat, NEW h \in Prefixes(m)
      PROVE  \A i \in Nat : i <= n /\ i <= m => g[i] = h[i]
  <2> DEFINE Same == {i \in Nat : i <= n /\ i <= m => g[i] = h[i]}
  <2>1. 0 \in Same
    OBVIOUS
  <2>2. ASSUME NEW i \in Same
        PROVE  i + 1 \in Same
    <3>1. SUFFICES ASSUME i + 1 <= n, i + 1 <= m PROVE g[i + 1] = h[i + 1]
      OBVIOUS
    <3>2. i \in 0 .. n - 1 /\ i \in 0 .. m - 1
      BY <3>1
    <3>3. g[i] = h[i]
      BY <3>1
    <3> QED BY <3>2, <3>3
  <2> HIDE DEF Same
  <2>3. Same = Nat
    <3>1. Same \in SUBSET Nat
      BY DEF Same
    <3> QED BY <2>1, <2>2, <3>1, Induction
  <2> QED BY <2>3 DEF Same
<1> DEFINE f == [n \in Nat |-> (CHOOSE g \in Prefixes(n) : TRUE)[n]]
<1>3. \A n \in Nat : (CHOOSE g \in Prefixes(n) : TRUE) \in Prefixes(n)
  <2>1. \A n \in Nat : Prefixes(n) # {}
    BY <1>1
  <2> HIDE DEF Prefixes
  <2> QED BY <2>1
<1>4. f \in [Nat -> S] /\ f[0] = start
  <2>1. \A n \in Nat : f[n] \in S
    <3>1. \A n \in Nat : n \in 0 .. n
      OBVIOUS
    <3> QED BY <1>3, <3>1
  <2>2. f[0] = start
    BY <1>3
  <2> QED BY <2>1, <2>2
<1>5. ASSUME NEW n \in Nat
      PROVE  f[n + 1] = step[n][f[n]]
  <2>1. n + 1 \in Nat
    OBVIOUS
  <2>2. PICK g \in Prefixes(n + 1) : f[n + 1] = g[n + 1]
    BY <1>3, <2>1
  <2>3. PICK h \in Prefixes(n) : f[n] = h[n]
    BY <1>3
  <2>4. g[n] = h[n]
    <3>1. n <= n + 1 /\ n <= n
      OBVIOUS
    <3> HIDE DEF Prefixes
    <3> QED BY <1>2, <2>1, <3>1
  <2>5. g[n + 1] = step[n][g[n]]
    <3>1. n \in 0 .. (n + 1) - 1
      OBVIOUS
    <3> QED BY <2>2, <3>1
  <2> QED BY <2>2, <2>3, <2>4, <2>5
<1> HIDE DEF f
<1> QED BY <1>4, <1>5 DEF Recurs

----------------------------------------------------------------------------
(* Powers *)

\* PowersOf is the function that its recursion describes.
LEMMA PowersAreDefined ==
  ASSUME NEW base \in Int
  PROVE  PowersOf(base) =
           [n \in Nat |-> IF n = 0 THEN 1 ELSE base * PowersOf(base)[n - 1]]
<1> DEFINE step == [n \in Nat |-> [p \in Int |-> base * p]]
<1>1. step \in [Nat -> [Int -> Int]]
  <2>1. \A p \in Int : base * p \in Int
    OBVIOUS
  <2> QED BY <2>1
<1>2. \A n \in Nat, p \in Int : step[n][p] = base * p
  OBVIOUS
<1> HIDE DEF step
<1>3. PICK f \in [Nat -> Int] : Recurs(f, 1, step)
  <2>1. 1 \in Int
    OBVIOUS
  <2> QED BY <1>1, <2>1, RecursionExists
<1>4. \A n \in Nat : f[n] = IF n = 0 THEN 1 ELSE base * f[n - 1]
  <2>1. \A n \in Nat : n # 0 => n - 1 \in Nat /\ (n - 1) + 1 = n
    OBVIOUS
  <2>2. \A n \in Nat : f[n + 1] = base * f[n]
    BY <1>2, <1>3 DEF Recurs
  <2> QED BY <1>3, <2>1, <2>2 DEF Recurs
<1>5. f = [n \in Nat |-> IF n = 0 THEN 1 ELSE base * f[n - 1]]
  <2>1. f = [n \in Nat |-> f[n]]
    OBVIOUS
  <2> QED BY <1>4, <2>1
<1> QED BY <1>5 DEF PowersOf

\* A power is a product.
LEMMA PowerStep ==
  ASSUME NEW base \in Int
  PROVE  /\ Power(base, 0) = 1
         /\ \A n \in Nat : Power(base, n + 1) = base * Power(base, n)
<1> DEFINE f == PowersOf(base)
<1>1. f = [n \in Nat |-> IF n = 0 THEN 1 ELSE base * f[n - 1]]
  BY PowersAreDefined
<1> HIDE DEF f
<1>2. f[0] = 1 /\ \A n \in Nat : f[n + 1] = base * f[n]
  <2>1. \A n \in Nat : f[n] = IF n = 0 THEN 1 ELSE base * f[n - 1]
    BY <1>1
  <2>2. \A n \in Nat : n + 1 \in Nat /\ n + 1 # 0 /\ (n + 1) - 1 = n
    OBVIOUS
  <2> QED BY <2>1, <2>2
<1> QED BY <1>2 DEF f, Power

\* The powers of a positive number are positive.
LEMMA PowerIsPositive ==
  ASSUME NEW base \in Nat \ {0}
  PROVE  \A n \in Nat : Power(base, n) \in Nat \ {0}
<1> DEFINE S == {n \in Nat : Power(base, n) \in Nat \ {0}}
<1>1. 0 \in S
  BY PowerStep
<1>2. ASSUME NEW n \in S
      PROVE  n + 1 \in S
  <2>1. \A p \in Nat \ {0} : base * p \in Nat \ {0}
    OBVIOUS
  <2>2. Power(base, n + 1) = base * Power(base, n)
    BY PowerStep
  <2> QED BY <2>1, <2>2
<1>3. S \in SUBSET Nat
  OBVIOUS
<1> HIDE DEF S
<1>4. S = Nat
  BY <1>1, <1>2, <1>3, Induction
<1> QED BY <1>4 DEF S

\* Exponents add up.
LEMMA PowerOfSum ==
  ASSUME NEW base \in Nat \ {0}, NEW m \in Nat
  PROVE  \A n \in Nat : Power(base, m + n) = Power(base, m) * Power(base, n)
<1> DEFINE S == {n \in Nat : Power(base, m + n) = Power(base, m) * Power(base, n)}
<1>0. \A n \in Nat : Power(base, n) \in Nat
  BY PowerIsPositive
<1>1. 0 \in S
  <2>1. m + 0 = m /\ Power(base, 0) = 1 /\ Power(base, m) \in Nat
    BY <1>0, PowerStep
  <2>2. Power(base, m) * 1 = Power(base, m)
    BY <2>1
  <2> QED BY <2>1, <2>2
<1>2. ASSUME NEW n \in S
      PROVE  n + 1 \in S
  <2>1. /\ m + (n + 1) = (m + n) + 1
        /\ Power(base, (m + n) + 1) = base * Power(base, m + n)
        /\ Power(base, n + 1) = base * Power(base, n)
    BY PowerStep
  <2>2. \A a, b, c \in Nat : a * (b * c) = b * (a * c)
    OBVIOUS
  <2>3. Power(base, m + n) = Power(base, m) * Power(base, n)
    OBVIOUS
  <2>4. base * (Power(base, m) * Power(base, n)) = Power(base, m) * (base * Power(base, n))
    BY <1>0, <2>2
  <2> QED BY <2>1, <2>3, <2>4
<1>3. S \in SUBSET Nat
  OBVIOUS
<1> HIDE DEF S
<1>4. S = Nat
  BY <1>1, <1>2, <1>3, Induction
<1> QED BY <1>4 DEF S

\* Any number is below some power of two.
LEMMA PowersOfTwoGrow ==
  \A n \in Nat : n < Power(2, n)
<1> DEFINE S == {n \in Nat : n < Power(2, n)}
<1>1. 0 \in S
  BY PowerStep
<1>2. ASSUME NEW n \in S
      PROVE  n + 1 \in S
  <2>1. Power(2, n + 1) = 2 * Power(2, n) /\ Power(2, n) \in Nat
    BY PowerStep, PowerIsPositive
  <2> QED BY <2>1
<1>3. S \in SUBSET Nat
  OBVIOUS
<1> HIDE DEF S
<1>4. S = Nat
  BY <1>1, <1>2, <1>3, Induction
<1> QED BY <1>4 DEF S

----------------------------------------------------------------------------
(* Division *)

\* The quotient and the remainder are the only ones that add up.
LEMMA Quotient ==
  ASSUME NEW d \in Nat \ {0}, NEW q \in Int, NEW r \in 0 .. d - 1
  PROVE  (q * d + r) \div d = q /\ (q * d + r) % d = r
OBVIOUS

\* A dividend is a multiple of its divisor and a remainder.
LEMMA Division ==
  ASSUME NEW d \in Nat \ {0}, NEW n \in Int
  PROVE  /\ n \div d \in Int /\ n % d \in 0 .. d - 1
         /\ n = ((n \div d) * d) + (n % d)
OBVIOUS
=============================================================================
