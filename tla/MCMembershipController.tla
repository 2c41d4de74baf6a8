----------------------- MODULE MCMembershipController -----------------------
(* MembershipController on small instances. *)
EXTENDS MembershipController, TLC

CONSTANTS p1, p2, p3, p4, s1, s2

\* Two permutations, opposite to each other.
Rank == [p \in Peer |-> CASE p = p1 -> 1 [] p = p2 -> 2 [] p = p3 -> 3 [] p = p4 -> 4]

MCPermuter == {Rank, [p \in Peer |-> 5 - Rank[p]]}

\* The samplers are alike; the peers are not, since they have ranks.
Symmetry == Permutations(Sampler)
=============================================================================
