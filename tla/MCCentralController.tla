------------------------ MODULE MCCentralController ------------------------
(* CentralController on small instances; peers are interchangeable. *)
EXTENDS CentralController, TLC

CONSTANTS p1, p2, i1, i2, c1, c2

Interchangeable == Permutations(Peer)
=============================================================================
