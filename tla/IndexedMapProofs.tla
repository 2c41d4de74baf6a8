-------------------------- MODULE IndexedMapProofs --------------------------
(* IndexedMap implements AbstractMap for any keys, values and sample size.   *)
(* The invariant is that table and list are inverse to each other; it gives   *)
(* that the list is as long as the map is large and that different indexes    *)
(* lead to different keys, which is all that the draws need.                  *)
EXTENDS IndexedMap, FiniteSetTheorems, FunctionTheorems, TLAPS

Inv == TypeOK /\ IndexesInverse

-----------------------------------------------------------------------------
(* The invariant. *)

LEMMA InitInv == Init => Inv
  BY DEF Init, Inv, TypeOK, IndexesInverse, EmptyMap, Size, KeyAtIndex

\* A new key gets the index of its place in the list.
LEMMA PutNewInv ==
    ASSUME Inv, NEW key \in Key, NEW value \in Value, Put(key, value),
           key \notin DOMAIN m
    PROVE  Inv'
<1>. USE DEF KeyAtIndex, Size, Entry
<1>1. m' = With(m, key, Entry(value, Size)) /\ keyList' = Append(keyList, key)
  BY DEF Put
<1>2. keyList \in Seq(Key) /\ Len(keyList) \in Nat /\ Len(keyList') = Len(keyList) + 1
  BY <1>1 DEF Inv, TypeOK
<1>3. /\ \A i \in 1 .. Len(keyList) : keyList'[i] = keyList[i]
      /\ keyList'[Len(keyList) + 1] = key
      /\ keyList' \in Seq(Key)
  BY <1>1, <1>2
<1>4. DOMAIN m' = DOMAIN m \cup {key}
      /\ \A x \in DOMAIN m' : m'[x] = IF x = key THEN Entry(value, Size) ELSE m[x]
  BY <1>1 DEF With
<1>5. TypeOK'
  <2>1. \A x \in DOMAIN m : m[x].value \in Value /\ m[x].index \in 0 .. Len(keyList) - 1
    BY DEF Inv, TypeOK
  <2>2. \A x \in DOMAIN m' : m'[x].value \in Value /\ m'[x].index \in 0 .. Len(keyList') - 1
    BY <1>2, <1>4, <2>1
  <2>3. DOMAIN m' \subseteq Key
    BY <1>4 DEF Inv, TypeOK
  <2>. QED BY <1>3, <2>2, <2>3 DEF TypeOK
<1>6. ASSUME NEW x \in DOMAIN m'
      PROVE  keyList'[m'[x].index + 1] = x
  <2>1. CASE x = key
    BY <1>2, <1>3, <1>4, <2>1
  <2>2. CASE x # key
    <3>1. x \in DOMAIN m /\ m'[x] = m[x] /\ m[x].index \in 0 .. Len(keyList) - 1
      BY <1>4, <2>2 DEF Inv, TypeOK
    <3>2. keyList[m[x].index + 1] = x
      BY <3>1 DEF Inv, IndexesInverse
    <3>. QED BY <1>2, <1>3, <3>1, <3>2
  <2>. QED BY <2>1, <2>2
<1>7. ASSUME NEW i \in 0 .. Len(keyList') - 1
      PROVE  keyList'[i + 1] \in DOMAIN m' /\ m'[keyList'[i + 1]].index = i
  <2>1. CASE i = Len(keyList)
    BY <1>2, <1>3, <1>4, <2>1
  <2>2. CASE i \in 0 .. Len(keyList) - 1
    <3>1. keyList[i + 1] \in DOMAIN m /\ m[keyList[i + 1]].index = i
      BY <2>2 DEF Inv, IndexesInverse
    <3>2. keyList'[i + 1] = keyList[i + 1]
      BY <1>2, <1>3, <2>2
    <3>. QED BY <1>4, <3>1, <3>2
  <2>. QED BY <1>2, <2>1, <2>2
<1>8. IndexesInverse'
  BY <1>6, <1>7 DEF IndexesInverse
<1>. QED BY <1>5, <1>8 DEF Inv

\* A known key keeps its index.
LEMMA PutKnownInv ==
    ASSUME Inv, NEW key \in Key, NEW value \in Value, Put(key, value),
           key \in DOMAIN m
    PROVE  Inv'
<1>. USE DEF KeyAtIndex, Size, Entry
<1>1. m' = With(m, key, Entry(value, m[key].index)) /\ UNCHANGED keyList
  BY DEF Put
<1>2. DOMAIN m' = DOMAIN m
      /\ \A x \in DOMAIN m' : m'[x] = IF x = key THEN Entry(value, m[key].index) ELSE m[x]
  BY <1>1 DEF With
<1>3. m[key].index \in 0 .. Size - 1 /\ UNCHANGED Size
  BY <1>1 DEF Inv, TypeOK
<1>4. \A x \in DOMAIN m' : m'[x].value \in Value /\ m'[x].index = m[x].index
  BY <1>2 DEF Inv, TypeOK
<1>5. TypeOK'
  BY <1>1, <1>2, <1>3, <1>4 DEF Inv, TypeOK
<1>6. IndexesInverse'
  BY <1>1, <1>2, <1>4 DEF Inv, TypeOK, IndexesInverse
<1>. QED BY <1>5, <1>6 DEF Inv

\* What a removal of a member makes of table and list.
LEMMA RemoveMember ==
    ASSUME Inv, NEW key, key \in DOMAIN m
    PROVE  /\ LastKey \in DOMAIN m /\ m[LastKey].index = Size - 1
           /\ DOMAIN FilledTable(key) = DOMAIN m \ {key}
           /\ \A x \in DOMAIN m \ {key} :
                 FilledTable(key)[x] = IF x = LastKey THEN Entry(m[x].value, m[key].index) ELSE m[x]
<1>1. Size \in Nat /\ Size - 1 \in 0 .. Size - 1
  BY DEF Inv, TypeOK, Size
<1>2. LastKey \in DOMAIN m /\ m[LastKey].index = Size - 1
  BY <1>1 DEF Inv, IndexesInverse, LastKey
<1>3. DOMAIN Reindexed(key) = DOMAIN m
      /\ \A x \in DOMAIN m : Reindexed(key)[x] =
            IF x = LastKey THEN Entry(m[x].value, m[key].index) ELSE m[x]
  BY <1>2 DEF Reindexed, With
<1>4. DOMAIN FilledTable(key) = DOMAIN m \ {key}
      /\ \A x \in DOMAIN m \ {key} : FilledTable(key)[x] = Reindexed(key)[x]
  BY <1>3 DEF FilledTable, Without
<1>. QED BY <1>2, <1>3, <1>4

LEMMA RemoveInv ==
    ASSUME Inv, NEW key \in Key, Remove(key)
    PROVE  Inv'
<1>1. CASE key \notin DOMAIN m
  BY <1>1 DEF Inv, TypeOK, IndexesInverse, Remove, KeyAtIndex, Size
<1>2. CASE key \in DOMAIN m
  <2>. DEFINE hole == m[key].index
  <2>1. m' = FilledTable(key) /\ keyList' = FilledList(key)
    BY <1>2 DEF Remove
  <2>2. Size \in Nat /\ hole \in 0 .. Size - 1 /\ keyList \in Seq(Key)
    BY <1>2 DEF Inv, TypeOK, Size
  <2>3. LastKey \in Key /\ LastKey \in DOMAIN m
    BY <1>2, RemoveMember DEF Inv, TypeOK
  <2>4. /\ keyList' \in Seq(Key) /\ Size' = Size - 1
        /\ \A i \in 0 .. Size - 2 :
              keyList'[i + 1] = IF i = hole THEN LastKey ELSE KeyAtIndex(i)
    BY <2>1, <2>2, <2>3 DEF FilledList, Size, KeyAtIndex
  <2>5. DOMAIN m' = DOMAIN m \ {key}
        /\ \A x \in DOMAIN m' : m'[x] = IF x = LastKey THEN Entry(m[x].value, hole) ELSE m[x]
    BY <1>2, <2>1, RemoveMember
  <2>6. m[LastKey].index = Size - 1 /\ KeyAtIndex(hole) = key
    BY <1>2, RemoveMember DEF Inv, IndexesInverse
  <2>. HIDE DEF hole
  <2>7. TypeOK'
    <3>1. \A x \in DOMAIN m' : m[x].index \in 0 .. Size - 1 /\ m[x].value \in Value /\ x \in Key
      BY <2>5 DEF Inv, TypeOK
    <3>2. \A x \in DOMAIN m' : x # LastKey => m[x].index # Size - 1
      BY <2>2, <2>5 DEF Inv, IndexesInverse, LastKey
    <3>3. LastKey \in DOMAIN m' => hole # Size - 1
      BY <2>2, <2>5, <2>6 DEF LastKey
    <3>4. \A x \in DOMAIN m' : m'[x].value \in Value /\ m'[x].index \in 0 .. Size - 2
      BY <2>2, <2>5, <3>1, <3>2, <3>3 DEF Entry
    <3>. QED BY <2>1, <2>2, <2>4, <3>1, <3>4 DEF TypeOK
  <2>8. ASSUME NEW x \in DOMAIN m'
        PROVE  keyList'[m'[x].index + 1] = x
    <3>1. m'[x].index \in 0 .. Size - 2
      <4>1. Size' - 1 = Size - 2
        BY <2>2, <2>4
      <4>. QED BY <2>7, <4>1 DEF TypeOK
    <3>2. keyList'[m'[x].index + 1] =
             IF m'[x].index = hole THEN LastKey ELSE KeyAtIndex(m'[x].index)
      BY <2>4, <3>1
    <3>3. CASE x = LastKey
      BY <2>5, <3>2, <3>3 DEF Entry
    <3>4. CASE x # LastKey
      <4>1. m'[x] = m[x] /\ KeyAtIndex(m[x].index) = x /\ x # key
        BY <2>5, <3>4 DEF Inv, IndexesInverse
      <4>. QED BY <2>6, <3>2, <4>1
    <3>. QED BY <3>3, <3>4
  <2>9. ASSUME NEW i \in 0 .. Size - 2
        PROVE  keyList'[i + 1] \in DOMAIN m' /\ m'[keyList'[i + 1]].index = i
    <3>1. i \in 0 .. Size - 1 /\ i # Size - 1
      BY <2>2
    <3>2. KeyAtIndex(i) \in DOMAIN m /\ m[KeyAtIndex(i)].index = i
      BY <3>1 DEF Inv, IndexesInverse
    <3>3. CASE i = hole
      <4>1. LastKey # key
        BY <2>6, <3>1, <3>2, <3>3
      <4>. QED BY <2>3, <2>4, <2>5, <3>3, <4>1 DEF Entry
    <3>4. CASE i # hole
      <4>1. KeyAtIndex(i) # key /\ KeyAtIndex(i) # LastKey
        BY <2>6, <3>1, <3>2, <3>4 DEF hole
      <4>. QED BY <2>4, <2>5, <3>2, <3>4, <4>1
    <3>. QED BY <3>3, <3>4
  <2>10. IndexesInverse'
    <3>1. /\ \A x \in DOMAIN m' : keyList'[m'[x].index + 1] = x
          /\ \A i \in 0 .. Size' - 1 :
                keyList'[i + 1] \in DOMAIN m' /\ m'[keyList'[i + 1]].index = i
      BY <2>2, <2>4, <2>8, <2>9
    <3>. QED BY <3>1 DEF IndexesInverse, KeyAtIndex
  <2>. QED BY <2>7, <2>10 DEF Inv
<1>. QED BY <1>1, <1>2

LEMMA DrawInv ==
    ASSUME Inv, Draw
    PROVE  Inv'
  BY DEF Inv, TypeOK, IndexesInverse, Draw, KeyAtIndex, Size

\* Table and list keep their types and stay inverse to each other after any
\* sequence of Put, Remove and draws (indexedmap.go).
THEOREM TableAndListAgree == Spec => [](TypeOK /\ IndexesInverse)
<1>1. Inv /\ [Next]_vars => Inv'
  <2>. SUFFICES ASSUME Inv, [Next]_vars PROVE Inv'
    OBVIOUS
  <2>1. ASSUME NEW key \in Key, NEW value \in Value, Put(key, value) PROVE Inv'
    BY <2>1, PutNewInv, PutKnownInv
  <2>2. ASSUME NEW key \in Key, Remove(key) PROVE Inv'
    BY <2>2, RemoveInv
  <2>3. CASE Draw
    BY <2>3, DrawInv
  <2>4. CASE UNCHANGED vars
    BY <2>4 DEF vars, Inv, TypeOK, IndexesInverse, KeyAtIndex, Size
  <2>. QED BY <2>1, <2>2, <2>3, <2>4 DEF Next
<1>2. Inv => TypeOK /\ IndexesInverse
  BY DEF Inv
<1>. QED BY <1>1, <1>2, InitInv, PTL DEF Spec

\* Every index that the table holds is a place of the list, always: what Remove
\* reads and writes is there (indexedmap.go).
COROLLARY IndexesInRange == Spec => []TypeOK
BY TableAndListAgree, PTL

-----------------------------------------------------------------------------
(* The implementation. *)

\* The list is as long as the map is large.
LEMMA SizeOfMap ==
    ASSUME Inv
    PROVE  Size \in Nat /\ IsFiniteSet(DOMAIN m) /\ Cardinality(DOMAIN m) = Size
<1>. DEFINE at == [i \in 0 .. Size - 1 |-> KeyAtIndex(i)]
<1>1. Size \in Nat
  BY DEF Inv, TypeOK, Size
<1>2. at \in Bijection(0 .. Size - 1, DOMAIN m)
  <2>1. at \in [0 .. Size - 1 -> DOMAIN m]
    BY DEF Inv, IndexesInverse
  <2>2. \A i, j \in 0 .. Size - 1 : at[i] = at[j] => i = j
    BY DEF Inv, IndexesInverse
  <2>3. \A key \in DOMAIN m : m[key].index \in 0 .. Size - 1 /\ at[m[key].index] = key
    BY DEF Inv, TypeOK, IndexesInverse
  <2>. QED BY <2>1, <2>2, <2>3, Fun_IsBij, Zenon
<1>3. IsFiniteSet(0 .. Size - 1) /\ Cardinality(0 .. Size - 1) = Size
  BY <1>1, FS_Interval
<1>. QED BY <1>1, <1>2, <1>3, FS_Bijection DEF ExistsBijection

\* Different indexes lead to different keys.
LEMMA KeysOfIndexes ==
    ASSUME Inv, NEW indexes \in SUBSET (0 .. Size - 1)
    PROVE  /\ { KeyAtIndex(i) : i \in indexes } \subseteq DOMAIN m
           /\ Cardinality({ KeyAtIndex(i) : i \in indexes }) = Cardinality(indexes)
<1>. DEFINE keys == { KeyAtIndex(i) : i \in indexes }
            at == [i \in indexes |-> KeyAtIndex(i)]
<1>1. at \in Bijection(indexes, keys)
  <2>1. at \in [indexes -> keys]
    OBVIOUS
  <2>2. \A i, j \in indexes : at[i] = at[j] => i = j
    BY DEF Inv, IndexesInverse
  <2>3. \A key \in keys : \E i \in indexes : at[i] = key
    OBVIOUS
  <2>. QED BY <2>1, <2>2, <2>3 DEF Bijection, Injection, Surjection, IsInjective
<1>2. IsFiniteSet(indexes)
  <2>1. IsFiniteSet(0 .. Size - 1)
    BY SizeOfMap, FS_Interval
  <2>. QED BY <2>1, FS_Subset
<1>3. keys \subseteq DOMAIN m
  BY DEF Inv, IndexesInverse
<1>. QED BY <1>1, <1>2, <1>3, FS_Bijection DEF ExistsBijection

LEMMA PutPuts ==
    ASSUME Inv, NEW key \in Key, NEW value \in Value, Put(key, value)
    PROVE  Abstract!Put(key, value)
<1>1. DOMAIN m' = DOMAIN m \cup {key}
      /\ \A x \in DOMAIN m' : m'[x].value = IF x = key THEN value ELSE m[x].value
  BY DEF Put, With, Entry
<1>. QED BY <1>1 DEF Abstract!Put, Values, Abstract!With, Put

LEMMA RemoveRemoves ==
    ASSUME Inv, NEW key \in Key, Remove(key)
    PROVE  Abstract!Remove(key)
<1>1. DOMAIN m' = DOMAIN m \ {key} /\ \A x \in DOMAIN m' : m'[x].value = m[x].value
  <2>1. CASE key \in DOMAIN m
    <3>1. m' = FilledTable(key)
      BY <2>1 DEF Remove
    <3>2. /\ DOMAIN FilledTable(key) = DOMAIN m \ {key}
          /\ \A x \in DOMAIN m \ {key} :
                FilledTable(key)[x] = IF x = LastKey THEN Entry(m[x].value, m[key].index) ELSE m[x]
      BY <2>1, RemoveMember
    <3>3. \A x : Entry(m[x].value, m[key].index).value = m[x].value
      BY DEF Entry
    <3>. QED BY <3>1, <3>2, <3>3
  <2>2. CASE key \notin DOMAIN m
    BY <2>2 DEF Remove
  <2>. QED BY <2>1, <2>2
<1>. QED BY <1>1 DEF Abstract!Remove, Values, Abstract!Without, Remove

LEMMA DrawDraws ==
    ASSUME Inv, Draw
    PROVE  Abstract!Draw
<1>1. PICK indexes \in Sample(Size) : call' = <<"Draw", {KeyAtIndex(i) : i \in indexes}>>
  BY DEF Draw
<1>. DEFINE drawn == {KeyAtIndex(i) : i \in indexes}
<1>2. /\ indexes \in SUBSET (0 .. Size - 1)
      /\ Cardinality(indexes) = IF SampleSize <= Size THEN SampleSize ELSE Size
  BY DEF Sample
<1>3. drawn \in SUBSET DOMAIN m /\ Cardinality(drawn) = Cardinality(indexes)
  BY <1>2, KeysOfIndexes
<1>4. DOMAIN Values = DOMAIN m
  BY DEF Values
<1>5. Abstract!Cardinality(drawn) = Cardinality(drawn)
      /\ Abstract!Cardinality(DOMAIN m) = Cardinality(DOMAIN m)
  BY DEF Abstract!Cardinality, Cardinality
<1>6. call' = <<"Draw", drawn>> /\ UNCHANGED Values
  BY <1>1 DEF Draw, Values
<1>. HIDE DEF drawn
<1>. QED BY <1>2, <1>3, <1>4, <1>5, <1>6, SizeOfMap DEF Abstract!Draw

\* Every operation of the indexed map is the operation of a plain map on its
\* values, and the draws that the rounds make through its indexes are draws of
\* as many different keys of that map (indexedmap.go, indexedset.go).
THEOREM MapImplemented == Spec => ImplementsMap
<1>1. Init => Abstract!Init
  BY DEF Init, Abstract!Init, Values, EmptyMap, Abstract!EmptyMap
<1>2. Inv /\ [Next]_vars => [Abstract!Next]_<<Values, call>>
  <2>. SUFFICES ASSUME Inv, [Next]_vars PROVE Abstract!Next \/ UNCHANGED <<Values, call>>
    OBVIOUS
  <2>1. ASSUME NEW key \in Key, NEW value \in Value, Put(key, value)
        PROVE  Abstract!Next
    BY <2>1, PutPuts DEF Abstract!Next
  <2>2. ASSUME NEW key \in Key, Remove(key) PROVE Abstract!Next
    BY <2>2, RemoveRemoves DEF Abstract!Next
  <2>3. CASE Draw
    BY <2>3, DrawDraws DEF Abstract!Next
  <2>4. CASE UNCHANGED vars
    BY <2>4 DEF vars, Values
  <2>. QED BY <2>1, <2>2, <2>3, <2>4 DEF Next
<1>3. Inv <=> TypeOK /\ IndexesInverse
  BY DEF Inv
<1>. QED BY <1>1, <1>2, <1>3, TableAndListAgree, PTL DEF Spec, ImplementsMap, Abstract!Spec, Abstract!vars
=============================================================================
