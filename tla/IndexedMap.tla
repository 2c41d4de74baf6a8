----------------------------- MODULE IndexedMap -----------------------------
(* The indexed map of src/src/datastruct: a hash table m from keys to        *)
(* a value and an index, and the list of keys that these indexes point into. *)
(* The controllers draw random peers and items through the list while they   *)
(* look them up and iterate through the table, so the two must agree.  The   *)
(* indexed set is the same structure with a single value.                    *)
EXTENDS Integers, Sequences, FiniteSets, Maps

CONSTANTS
    Key, Value,
    SampleSize   \* how many keys a round draws: degree, alphaSize, ...

ASSUME SampleSizeAssumption == SampleSize \in Nat

VARIABLES
    m,         \* key -> [value, index], indexes count from 0
    keyList,   \* the keys in the order of their indexes
    call       \* the last call, with its result when it is a draw

vars == <<m, keyList, call>>

Size == Len(keyList)

KeyAtIndex(i) == keyList[i + 1]

Entry(value, index) == [value |-> value, index |-> index]
-----------------------------------------------------------------------------
Init == m = EmptyMap /\ keyList = <<>> /\ call = <<"New">>

\* Put: a new key goes to the end of the list, a known one keeps its index.
Put(key, value) ==
    /\ \/ /\ key \notin DOMAIN m
          /\ m' = With(m, key, Entry(value, Size))
          /\ keyList' = Append(keyList, key)
       \/ /\ key \in DOMAIN m
          /\ m' = With(m, key, Entry(value, m[key].index))
          /\ UNCHANGED keyList
    /\ call' = <<"Put", key, value>>

\* The last key of the list fills the hole that key leaves.
LastKey == KeyAtIndex(Size - 1)

\* Fault: the list is cut short without moving its last key.
CutList(key) == SubSeq(keyList, 1, Size - 1)

FilledList(key) ==
    [i \in 1 .. Size - 1 |-> IF i = m[key].index + 1 THEN LastKey ELSE keyList[i]]

\* The index of the last key is corrected first, then key is deleted: the two
\* may be the same.
ForgetIndex(key) == m   \* fault: the moved key keeps the index it had

Reindexed(key) == With(m, LastKey, Entry(m[LastKey].value, m[key].index))

\* Fault: the last key is deleted in place of key.
LastDeleted(key) == Without(Reindexed(key), LastKey)

FilledTable(key) == Without(Reindexed(key), key)

Remove(key) ==
    /\ \/ /\ key \in DOMAIN m
          /\ m' = FilledTable(key)
          /\ keyList' = FilledList(key)
       \/ /\ key \notin DOMAIN m
          /\ UNCHANGED <<m, keyList>>
    /\ call' = <<"Remove", key>>

\* mrand.Perm(size)[:Min(SampleSize, size)]: different indexes, then their keys.
Sample(size) ==
    { indexes \in SUBSET (0 .. size - 1) :
        Cardinality(indexes) = IF SampleSize <= size THEN SampleSize ELSE size }

Draw ==
    /\ \E indexes \in Sample(Size) : call' = <<"Draw", {KeyAtIndex(i) : i \in indexes}>>
    /\ UNCHANGED <<m, keyList>>

Next ==
    \/ \E key \in Key, value \in Value : Put(key, value)
    \/ \E key \in Key : Remove(key)
    \/ Draw

Spec == Init /\ [][Next]_vars
-----------------------------------------------------------------------------
(* Properties *)

\* The table holds entries, the list holds keys.
TypeOK ==
    /\ DOMAIN m \subseteq Key
    /\ \A key \in DOMAIN m : m[key].value \in Value /\ m[key].index \in 0 .. Size - 1
    /\ keyList \in Seq(Key)

\* Table and list are inverse to each other, whatever was put and removed in
\* whatever order: each key is at its index, and each place of the list belongs
\* to a key of the table that has this index (Put and Remove keep both up).
IndexesInverse ==
    /\ \A key \in DOMAIN m : KeyAtIndex(m[key].index) = key
    /\ \A i \in 0 .. Size - 1 :
          KeyAtIndex(i) \in DOMAIN m /\ m[KeyAtIndex(i)].index = i

\* The value of each key, without the indexes.
Values == [key \in DOMAIN m |-> m[key].value]

Abstract == INSTANCE AbstractMap WITH map <- Values

\* Every call does to the values what it does to a map, and a draw by index is a
\* draw of as many different keys, all of them in the map (Put, Remove, KeyAtIndex).
ImplementsMap == Abstract!Spec
=============================================================================
