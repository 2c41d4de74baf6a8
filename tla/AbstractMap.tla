---------------------------- MODULE AbstractMap ----------------------------
(* What the controllers rely on when they keep peers and gossip in an        *)
(* indexed set or map: a map, and draws of different keys from all of it.    *)
EXTENDS Naturals, FiniteSets, Maps

CONSTANTS Key, Value, SampleSize

VARIABLES
    map,
    call   \* the last call, with its result when it is a draw

vars == <<map, call>>

Init == map = EmptyMap /\ call = <<"New">>

Put(key, value) == map' = With(map, key, value) /\ call' = <<"Put", key, value>>

Remove(key) == map' = Without(map, key) /\ call' = <<"Remove", key>>

\* As many different keys as asked for, or all of them when there are fewer.
Draw ==
    LET size == Cardinality(DOMAIN map)
    IN /\ \E drawn \in SUBSET DOMAIN map :
             /\ Cardinality(drawn) = IF SampleSize <= size THEN SampleSize ELSE size
             /\ call' = <<"Draw", drawn>>
       /\ UNCHANGED map

Next ==
    \/ \E key \in Key, value \in Value : Put(key, value)
    \/ \E key \in Key : Remove(key)
    \/ Draw

Spec == Init /\ [][Next]_vars
=============================================================================
