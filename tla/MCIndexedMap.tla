---------------------------- MODULE MCIndexedMap ----------------------------
(* Constants for checking IndexedMap. *)
EXTENDS IndexedMap

CONSTANTS k1, k2, k3, k4, v1, v2

=============================================================================
