-------------------------------- MODULE Maps --------------------------------
(* Go maps as functions whose domain is the set of keys present. *)

EmptyMap == [x \in {} |-> x]

\* The map m without key k, and with k bound to v.
Without(m, k) == [x \in DOMAIN m \ {k} |-> m[x]]
With(m, k, v) == [x \in DOMAIN m \cup {k} |-> IF x = k THEN v ELSE m[x]]
=============================================================================
