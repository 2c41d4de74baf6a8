-------------------------- MODULE MembershipProofs --------------------------
(***************************************************************************)
(* Theorems about MembershipController, for any set of peers and samplers, *)
(* any permutations and any shares of the view: types, the filing and the  *)
(* accounting of samplers, their minimality, the limit on pull replies,    *)
(* and that the orders implement ViewOrders.                               *)
(***************************************************************************)
EXTENDS MembershipController, WellFoundedInduction, FiniteSetTheorems, TLAPS

-----------------------------------------------------------------------------
(* Lemmas about the operators *)

\* Cardinalities of sets of peers and samplers are numbers.
LEMMA FiniteSets ==
    /\ \A S \in SUBSET Peer : IsFiniteSet(S) /\ Cardinality(S) \in Nat
    /\ \A S \in SUBSET Sampler : IsFiniteSet(S) /\ Cardinality(S) \in Nat
BY PeersAssumption, SamplersAssumption, FS_Subset, FS_CardinalityType

\* A draw is a subset of the size that was asked for, if there are as many.
LEMMA DrawnIsSubset ==
    ASSUME NEW n \in Nat, NEW S, IsFiniteSet(S), NEW T \in Drawn(n, S)
    PROVE  /\ T \subseteq S /\ IsFiniteSet(T)
           /\ Cardinality(T) \in Nat /\ Cardinality(T) <= n
           /\ Cardinality(S) >= n => Cardinality(T) = n
<1>1. T \subseteq S /\ Cardinality(T) = Minimum(n, Cardinality(S))
  BY DEF Drawn
<1>2. IsFiniteSet(T) /\ Cardinality(S) \in Nat /\ Cardinality(T) \in Nat
  BY <1>1, FS_Subset, FS_CardinalityType
<1> QED
  BY <1>1, <1>2 DEF Minimum

\* Some peer of a non-empty set has the lowest rank.
LEMMA LowestIsLowest ==
    ASSUME NEW order \in Permuter, NEW S \in SUBSET Peer, S # {}
    PROVE  /\ Lowest(order, S) \in S
           /\ \A q \in S : order[Lowest(order, S)] <= order[q]
<1>1. order \in [Peer -> Nat]
  BY SamplersAssumption
<1> DEFINE Ranks == {order[q] : q \in S}
<1>2. Ranks \in SUBSET Nat /\ Ranks # {}
  BY <1>1
<1>3. \E n \in Ranks : \A m \in Ranks : n <= m
  <2> HIDE DEF Ranks
  <2>1. IsWellFoundedOn(OpToRel(<, Nat), Nat)
    BY NatLessThanWellFounded
  <2>2. PICK n \in Ranks : \A m \in Ranks : ~ (<<m, n>> \in OpToRel(<, Nat))
    BY <1>2, <2>1, WFMin
  <2>3. ASSUME NEW m \in Ranks PROVE n <= m
    <3>1. m \in Nat /\ n \in Nat
      BY <1>2
    <3>2. ~ (<<m, n>>[1] < <<m, n>>[2])
      BY <2>2, <3>1, Zenon DEF OpToRel
    <3> QED BY <3>1, <3>2
  <2> QED BY <2>3
<1>4. \E p \in S : \A q \in S : order[p] <= order[q]
  BY <1>3
<1> QED
  BY <1>4 DEF Lowest

-----------------------------------------------------------------------------
(* Samplers *)

\* The inductive invariant of the samplers.
SamplerInv ==
    /\ TypeOK
    /\ sampleList \in [DOMAIN sampleList -> SUBSET Sampler]
    /\ SamplersFiled
    /\ CapacityAccounted

\* A sampler in use is filed under its peer, and only there.
LEMMA FiledUnderItsPeer ==
    ASSUME SamplerInv
    PROVE  /\ \A s \in InUse : sampled[s] \in DOMAIN sampleList /\ s \in sampleList[sampled[s]]
           /\ \A p \in DOMAIN sampleList : sampleList[p] \subseteq InUse
BY DEF SamplerInv, SamplersFiled, InUse

\* Sampling leaves a sampler with a peer that is the lowest of its own and the new.
LEMMA SamplingIsLowest ==
    ASSUME SamplerInv, NEW s \in InUse, NEW newPeers \in SUBSET Peer
    PROVE  /\ Sampling(s, newPeers) \in newPeers \cup {sampled[s]}
           /\ Sampling(s, newPeers) \in Peer
           /\ \A q \in newPeers \cup {sampled[s]} :
                 permuter[s][Sampling(s, newPeers)] <= permuter[s][q]
<1>1. permuter[s] \in Permuter /\ sampled[s] \in Peer
  BY DEF SamplerInv, TypeOK
<1>2. newPeers \cup {sampled[s]} \in SUBSET Peer /\ newPeers \cup {sampled[s]} # {}
  BY <1>1
<1> QED
  BY <1>1, <1>2, LowestIsLowest DEF Sampling

\* New samplers are as many as there is room for, none of them in use before.
LEMMA FreshSamplers ==
    ASSUME SamplerInv, NEW newPeers, NEW fresh \in Fresh(newPeers)
    PROVE  /\ fresh \subseteq Sampler \ InUse
           /\ Cardinality(fresh) \in Nat /\ Cardinality(fresh) <= sampleListRemainingCap
           /\ newPeers = {} => fresh = {}
<1>1. CASE newPeers = {}
  <2>1. fresh = {} /\ Cardinality(fresh) = 0
    BY <1>1, FS_EmptySet DEF Fresh
  <2> QED BY <1>1, <2>1 DEF SamplerInv, TypeOK
<1>2. CASE newPeers # {}
  <2>1. fresh \in Drawn(sampleListRemainingCap, Sampler \ InUse)
    BY <1>2 DEF Fresh
  <2>2. sampleListRemainingCap \in Nat /\ IsFiniteSet(Sampler \ InUse)
    BY FiniteSets DEF SamplerInv, TypeOK
  <2> QED BY <1>2, <2>1, <2>2, DrawnIsSubset
<1> QED BY <1>1, <1>2

\* The part of the invariant that speaks of the samplers only.
SamplersOK ==
    /\ DOMAIN sampleList \subseteq Peer /\ InUse \subseteq Sampler
    /\ sampleListRemainingCap \in Nat
    /\ sampled \in [InUse -> Peer] /\ permuter \in [InUse -> Permuter]
    /\ shown \in [InUse -> SUBSET Peer]
    /\ sampleList \in [DOMAIN sampleList -> SUBSET Sampler]
    /\ SamplersFiled
    /\ CapacityAccounted

\* A round takes the new samplers into use and frees none, and every sampler is
\* then filed under its peer again.
LEMMA RoundInUse ==
    ASSUME SamplerInv,
           NEW newPeers \in SUBSET Peer, NEW fresh \in SUBSET (Sampler \ InUse),
           sampled' \in [InUse \cup fresh -> Peer],
           \A s \in InUse : sampled'[s] = Sampling(s, newPeers),
           sampleList' = Regrouped(Kept(Moved(newPeers)), Moved(newPeers) \cup fresh, sampled')
    PROVE  /\ InUse' = InUse \cup fresh
           /\ DOMAIN sampleList' \subseteq Peer
           /\ sampleList' \in [DOMAIN sampleList' -> SUBSET Sampler]
           /\ SamplersFiled'
<1> DEFINE moved == Moved(newPeers)
           changed == moved \cup fresh
           kept == Kept(moved)
<1>1. moved \subseteq InUse /\ \A s \in InUse \ moved : sampled'[s] = sampled[s]
  BY DEF Moved
<1>2. /\ DOMAIN kept = {q \in DOMAIN sampleList : sampleList[q] \ moved # {}}
      /\ \A q \in DOMAIN kept : kept[q] = sampleList[q] \ moved
  BY DEF Kept
<1>3. \A q \in DOMAIN kept : kept[q] = {s \in InUse \ moved : sampled'[s] = q}
  <2> SUFFICES ASSUME NEW q \in DOMAIN kept
               PROVE  kept[q] = {s \in InUse \ moved : sampled'[s] = q}
    OBVIOUS
  <2>1. \A s \in kept[q] : s \in InUse \ moved /\ sampled[s] = q
    BY <1>2, FiledUnderItsPeer DEF SamplerInv, SamplersFiled
  <2>2. \A s \in InUse \ moved : sampled[s] = q => s \in kept[q]
    BY <1>2, FiledUnderItsPeer
  <2> QED BY <1>1, <2>1, <2>2
<1>4. \A s \in InUse \ moved : sampled'[s] \in DOMAIN kept
  BY <1>1, <1>2, FiledUnderItsPeer
<1>5. \A q \in DOMAIN kept : q \in Peer /\ kept[q] # {}
  BY <1>2 DEF SamplerInv, TypeOK
<1>6. /\ DOMAIN sampleList' = DOMAIN kept \cup {sampled'[s] : s \in changed}
      /\ \A p \in DOMAIN sampleList' :
            sampleList'[p] = (IF p \in DOMAIN kept THEN kept[p] ELSE {}) \cup {s \in changed : sampled'[s] = p}
  BY DEF Regrouped
<1> HIDE DEF kept, moved
<1>10. sampleList' = [p \in DOMAIN sampleList' |-> sampleList'[p]]
  BY DEF Regrouped
<1>7. \A p \in DOMAIN sampleList' : sampleList'[p] = {s \in InUse \cup fresh : sampled'[s] = p}
  <2> SUFFICES ASSUME NEW p \in DOMAIN sampleList'
               PROVE  sampleList'[p] = {s \in InUse \cup fresh : sampled'[s] = p}
    OBVIOUS
  <2>1. p \in DOMAIN kept => kept[p] = {s \in InUse \ moved : sampled'[s] = p}
    BY <1>3
  <2>2. p \notin DOMAIN kept => {s \in InUse \ moved : sampled'[s] = p} = {}
    BY <1>4
  <2>3. sampleList'[p] = {s \in InUse \ moved : sampled'[s] = p} \cup {s \in changed : sampled'[s] = p}
    BY <1>6, <2>1, <2>2
  <2>4. moved \subseteq InUse
    BY <1>1
  <2> QED BY <2>3, <2>4
<1>8. ASSUME NEW p \in DOMAIN sampleList' PROVE p \in Peer /\ sampleList'[p] # {}
  <2>1. CASE p \in DOMAIN kept
    BY <1>5, <1>6, <2>1
  <2>2. CASE p \notin DOMAIN kept
    <3>1. PICK s \in changed : sampled'[s] = p
      BY <1>6, <2>2
    <3>2. s \in InUse \cup fresh
      BY <1>1
    <3>3. s \in sampleList'[p]
      BY <1>7, <3>1, <3>2
    <3> QED BY <3>1, <3>2, <3>3
  <2> QED BY <2>1, <2>2
<1>9. \A s \in InUse \cup fresh : sampled'[s] \in DOMAIN sampleList'
  BY <1>4, <1>6
<1>11. InUse' = UNION {sampleList'[p] : p \in DOMAIN sampleList'}
  BY DEF InUse
<1>12. ASSUME NEW s \in InUse \cup fresh PROVE s \in InUse'
  <2>1. sampled'[s] \in DOMAIN sampleList' /\ s \in sampleList'[sampled'[s]]
    BY <1>7, <1>9
  <2> QED BY <1>11, <2>1
<1>13. ASSUME NEW p \in DOMAIN sampleList'
       PROVE  sampleList'[p] \subseteq InUse \cup fresh
  BY <1>7
<1>14. InUse' = InUse \cup fresh
  <2>1. ASSUME NEW s \in InUse' PROVE s \in InUse \cup fresh
    BY <1>11, <1>13
  <2> QED BY <1>12, <2>1
<1>15. InUse \cup fresh \subseteq Sampler
  <2>1. InUse \subseteq Sampler
    BY DEF SamplerInv, TypeOK
  <2> QED BY <2>1
<1>16. sampleList' \in [DOMAIN sampleList' -> SUBSET Sampler]
  BY <1>10, <1>13, <1>15
<1>17. SamplersFiled'
  <2>1. ASSUME NEW p \in DOMAIN sampleList'
        PROVE  sampleList'[p] # {} /\ \A s \in sampleList'[p] : sampled'[s] = p
    BY <1>7, <1>8
  <2> QED BY <2>1 DEF SamplersFiled
<1> QED BY <1>8, <1>14, <1>16, <1>17

\* A round of sampling keeps the samplers filed, the capacity accounted for, and
\* every sampler with the lowest of all the peers that it was shown.
LEMMA UpdateSampleRoundKeepsSamplers ==
    ASSUME SamplerInv, UpdateSampleRound
    PROVE  SamplersOK' /\ (SamplesAreLowest => SamplesAreLowest')
<1> DEFINE newPeers == pushRequests \cup pullReplies
           moved == Moved(newPeers)
<1>1. newPeers \in SUBSET Peer
  BY DEF SamplerInv, TypeOK
<1>2. PICK fresh \in Fresh(newPeers) : \E new \in [fresh -> Permuter] :
          /\ sampleListRemainingCap' = sampleListRemainingCap - Cardinality(fresh)
          /\ sampled' = [s \in InUse \cup fresh |->
                           IF s \in fresh THEN Lowest(new[s], newPeers) ELSE Sampling(s, newPeers)]
          /\ permuter' = [s \in InUse \cup fresh |-> IF s \in fresh THEN new[s] ELSE permuter[s]]
          /\ shown' = [s \in InUse \cup fresh |->
                           newPeers \cup (IF s \in fresh THEN {} ELSE shown[s])]
          /\ sampleList' = Regrouped(Kept(moved), moved \cup fresh, sampled')
  BY DEF UpdateSampleRound
<1> HIDE DEF newPeers
<1>3. PICK new \in [fresh -> Permuter] :
          /\ sampleListRemainingCap' = sampleListRemainingCap - Cardinality(fresh)
          /\ sampled' = [s \in InUse \cup fresh |->
                           IF s \in fresh THEN Lowest(new[s], newPeers) ELSE Sampling(s, newPeers)]
          /\ permuter' = [s \in InUse \cup fresh |-> IF s \in fresh THEN new[s] ELSE permuter[s]]
          /\ shown' = [s \in InUse \cup fresh |->
                           newPeers \cup (IF s \in fresh THEN {} ELSE shown[s])]
          /\ sampleList' = Regrouped(Kept(moved), moved \cup fresh, sampled')
  BY <1>2
<1>4. /\ fresh \subseteq Sampler \ InUse
      /\ Cardinality(fresh) \in Nat /\ Cardinality(fresh) <= sampleListRemainingCap
      /\ newPeers = {} => fresh = {}
  BY FreshSamplers
<1>5. \A s \in fresh : Lowest(new[s], newPeers) \in Peer
  BY <1>1, <1>4, LowestIsLowest
<1>6. \A s \in InUse : Sampling(s, newPeers) \in Peer
  BY <1>1, SamplingIsLowest
<1>7. /\ sampled' \in [InUse \cup fresh -> Peer]
      /\ \A s \in InUse : sampled'[s] = Sampling(s, newPeers)
  BY <1>3, <1>4, <1>5, <1>6
<1>8. /\ InUse' = InUse \cup fresh
      /\ DOMAIN sampleList' \subseteq Peer
      /\ sampleList' \in [DOMAIN sampleList' -> SUBSET Sampler]
      /\ SamplersFiled'
  BY <1>1, <1>3, <1>4, <1>7, RoundInUse
<1>9. InUse' \subseteq Sampler /\ sampled' \in [InUse' -> Peer]
  BY <1>4, <1>7, <1>8 DEF SamplerInv, TypeOK
<1>10. permuter' \in [InUse' -> Permuter] /\ shown' \in [InUse' -> SUBSET Peer]
  BY <1>1, <1>3, <1>4, <1>8 DEF SamplerInv, TypeOK
<1>11. sampleListRemainingCap' \in Nat /\ CapacityAccounted'
  <2>1. IsFiniteSet(InUse) /\ IsFiniteSet(fresh) /\ InUse \cap fresh = {}
    BY <1>4, FiniteSets DEF SamplerInv, TypeOK
  <2>2. Cardinality(InUse \cup fresh) = Cardinality(InUse) + Cardinality(fresh)
    <3>1. Cardinality(InUse \cup fresh)
             = Cardinality(InUse) + Cardinality(fresh) - Cardinality(InUse \cap fresh)
      BY <2>1, FS_Union
    <3>2. Cardinality(InUse \cap fresh) = 0
      BY <2>1, FS_EmptySet
    <3> QED BY <2>1, <3>1, <3>2, FS_CardinalityType
  <2>3. /\ sampleListRemainingCap \in Nat /\ Cardinality(InUse) \in Nat
        /\ sampleListRemainingCap + Cardinality(InUse) = Cardinality(Sampler)
    BY <2>1, FS_CardinalityType DEF SamplerInv, TypeOK, CapacityAccounted
  <2>4. Cardinality(InUse') = Cardinality(InUse) + Cardinality(fresh)
    BY <2>2, <1>8
  <2>5. sampleListRemainingCap' = sampleListRemainingCap - Cardinality(fresh)
    BY <1>3
  <2> QED BY <1>4, <2>3, <2>4, <2>5 DEF CapacityAccounted
<1>12. SamplesAreLowest => SamplesAreLowest'
  <2> SUFFICES ASSUME SamplesAreLowest, NEW s \in InUse'
               PROVE  /\ sampled'[s] \in shown'[s]
                      /\ \A p \in shown'[s] : permuter'[s][sampled'[s]] <= permuter'[s][p]
    BY DEF SamplesAreLowest
  <2>1. CASE s \in fresh
    <3>1. /\ sampled'[s] = Lowest(new[s], newPeers) /\ permuter'[s] = new[s]
          /\ shown'[s] = newPeers /\ newPeers # {} /\ new[s] \in Permuter
      BY <1>3, <1>4, <2>1
    <3> QED BY <1>1, <3>1, LowestIsLowest
  <2>2. CASE s \in InUse /\ s \notin fresh
    <3>1. /\ sampled'[s] = Sampling(s, newPeers) /\ permuter'[s] = permuter[s]
          /\ shown'[s] = newPeers \cup shown[s]
      BY <1>3, <2>2
    <3>2. /\ Sampling(s, newPeers) \in newPeers \cup {sampled[s]}
          /\ Sampling(s, newPeers) \in Peer
          /\ \A q \in newPeers \cup {sampled[s]} :
                permuter[s][Sampling(s, newPeers)] <= permuter[s][q]
      BY <1>1, <2>2, SamplingIsLowest
    <3>3. sampled[s] \in shown[s] /\ \A p \in shown[s] : permuter[s][sampled[s]] <= permuter[s][p]
      BY <2>2 DEF SamplesAreLowest
    <3>4. permuter[s] \in [Peer -> Nat] /\ sampled[s] \in Peer /\ shown[s] \subseteq Peer
      BY <2>2, SamplersAssumption DEF SamplerInv, TypeOK
    <3>5. ASSUME NEW p \in newPeers \cup shown[s]
          PROVE  permuter[s][Sampling(s, newPeers)] <= permuter[s][p]
      <4>1. CASE p \in newPeers
        BY <3>2, <4>1
      <4>2. CASE p \in shown[s]
        <5>1. permuter[s][Sampling(s, newPeers)] <= permuter[s][sampled[s]]
          BY <3>2
        <5>2. permuter[s][sampled[s]] <= permuter[s][p]
          BY <3>3, <4>2
        <5>3. /\ permuter[s][Sampling(s, newPeers)] \in Nat
              /\ permuter[s][sampled[s]] \in Nat /\ permuter[s][p] \in Nat
          BY <3>2, <3>4, <4>2
        <5> QED BY <5>1, <5>2, <5>3
      <4> QED BY <4>1, <4>2
    <3> QED BY <3>1, <3>2, <3>3, <3>5
  <2> QED BY <1>8, <2>1, <2>2
<1> QED BY <1>8, <1>9, <1>10, <1>11, <1>12 DEF SamplersOK

\* The samplers of a peer that is removed are freed, and no others.
LEMMA RemovedInUse ==
    ASSUME SamplerInv, NEW peer \in Peer, sampleList' = Without(sampleList, peer)
    PROVE  /\ Freed(peer) \subseteq InUse /\ InUse' = InUse \ Freed(peer)
           /\ DOMAIN sampleList' \subseteq Peer
           /\ sampleList' \in [DOMAIN sampleList' -> SUBSET Sampler]
           /\ \A p \in DOMAIN sampleList' : p \in DOMAIN sampleList /\ sampleList'[p] = sampleList[p]
<1>1. /\ DOMAIN sampleList' = DOMAIN sampleList \ {peer}
      /\ \A p \in DOMAIN sampleList' : p \in DOMAIN sampleList /\ sampleList'[p] = sampleList[p]
      /\ sampleList' \in [DOMAIN sampleList' -> SUBSET Sampler]
      /\ DOMAIN sampleList' \subseteq Peer
  BY DEF Without, SamplerInv, TypeOK
<1>2. Freed(peer) \subseteq InUse
  BY FiledUnderItsPeer DEF Freed
<1>3. InUse' = UNION {sampleList'[p] : p \in DOMAIN sampleList'}
  BY DEF InUse
<1>4. ASSUME NEW s \in InUse \ Freed(peer)
      PROVE  s \in UNION {sampleList'[p] : p \in DOMAIN sampleList'}
  <2>1. sampled[s] \in DOMAIN sampleList /\ s \in sampleList[sampled[s]]
    BY FiledUnderItsPeer
  <2>2. sampled[s] # peer
    BY <2>1 DEF Freed
  <2> QED BY <1>1, <2>1, <2>2
<1>5. ASSUME NEW p \in DOMAIN sampleList', NEW s \in sampleList'[p]
      PROVE  s \in InUse \ Freed(peer)
  <2>1. p \in DOMAIN sampleList /\ s \in sampleList[p] /\ sampled[s] = p /\ p # peer
    BY <1>1 DEF SamplerInv, SamplersFiled
  <2>2. s \in InUse
    BY <2>1, FiledUnderItsPeer
  <2>3. s \notin Freed(peer)
    BY <2>1 DEF Freed, SamplerInv, SamplersFiled
  <2> QED BY <2>2, <2>3
<1>6. InUse' = InUse \ Freed(peer)
  BY <1>3, <1>4, <1>5
<1> QED BY <1>1, <1>2, <1>6

\* A peer that is removed gives back the capacity of its samplers; the others
\* keep what they sample.
LEMMA RemovePeerKeepsSamplers ==
    ASSUME SamplerInv, NEW peer \in Peer, RemovePeer(peer)
    PROVE  SamplersOK' /\ (SamplesAreLowest => SamplesAreLowest')
<1>1. /\ Freed(peer) \subseteq InUse /\ InUse' = InUse \ Freed(peer)
      /\ DOMAIN sampleList' \subseteq Peer
      /\ sampleList' \in [DOMAIN sampleList' -> SUBSET Sampler]
      /\ \A p \in DOMAIN sampleList' : p \in DOMAIN sampleList /\ sampleList'[p] = sampleList[p]
  BY RemovedInUse DEF RemovePeer
<1>2. InUse \subseteq Sampler /\ InUse' \subseteq Sampler
  BY <1>1 DEF SamplerInv, TypeOK
<1>3. /\ sampled \in [InUse -> Peer] /\ permuter \in [InUse -> Permuter]
      /\ shown \in [InUse -> SUBSET Peer]
  BY DEF SamplerInv, TypeOK
<1>4. /\ sampled' \in [InUse' -> Peer] /\ permuter' \in [InUse' -> Permuter]
      /\ shown' \in [InUse' -> SUBSET Peer]
      /\ \A s \in InUse' : /\ sampled'[s] = sampled[s] /\ permuter'[s] = permuter[s]
                           /\ shown'[s] = shown[s]
  BY <1>1, <1>3 DEF RemovePeer, WithoutSamplers
<1>5. SamplersFiled'
  <2> SUFFICES ASSUME NEW p \in DOMAIN sampleList'
               PROVE  sampleList'[p] # {} /\ \A s \in sampleList'[p] : sampled'[s] = p
    BY DEF SamplersFiled
  <2>1. sampleList[p] # {} /\ \A s \in sampleList[p] : sampled[s] = p
    BY <1>1 DEF SamplerInv, SamplersFiled
  <2>2. sampleList'[p] \subseteq InUse'
    BY DEF InUse
  <2> QED BY <1>1, <1>4, <2>1, <2>2
<1>6. sampleListRemainingCap' \in Nat /\ CapacityAccounted'
  <2>1. IsFiniteSet(InUse) /\ IsFiniteSet(Freed(peer)) /\ IsFiniteSet(InUse')
    BY <1>1, <1>2, FiniteSets, FS_Subset
  <2>2. /\ Cardinality(InUse) \in Nat /\ Cardinality(Freed(peer)) \in Nat
        /\ Cardinality(InUse') \in Nat
    BY <2>1, FS_CardinalityType
  <2>3. InUse = InUse' \cup Freed(peer) /\ InUse' \cap Freed(peer) = {}
    BY <1>1
  <2>4. Cardinality(InUse) = Cardinality(InUse') + Cardinality(Freed(peer))
    <3>1. Cardinality(InUse' \cup Freed(peer))
             = Cardinality(InUse') + Cardinality(Freed(peer)) - Cardinality(InUse' \cap Freed(peer))
      BY <2>1, FS_Union
    <3>2. Cardinality(InUse' \cap Freed(peer)) = 0
      BY <2>3, FS_EmptySet
    <3> QED BY <2>2, <2>3, <3>1, <3>2
  <2>5. /\ sampleListRemainingCap \in Nat
        /\ sampleListRemainingCap + Cardinality(InUse) = Cardinality(Sampler)
    BY DEF SamplerInv, TypeOK, CapacityAccounted
  <2>6. sampleListRemainingCap' = sampleListRemainingCap + Cardinality(Freed(peer))
    BY DEF RemovePeer, Returned
  <2> QED BY <2>2, <2>4, <2>5, <2>6 DEF CapacityAccounted
<1>7. SamplesAreLowest => SamplesAreLowest'
  BY <1>1, <1>4 DEF SamplesAreLowest
<1> QED BY <1>1, <1>2, <1>4, <1>5, <1>6, <1>7 DEF SamplersOK

-----------------------------------------------------------------------------
(* The view, the pulls and the orders *)

\* The view has room: as many peers as pushes, pulls and samples together.
ViewBounded == IsFiniteSet(viewList) /\ Cardinality(viewList) <= ViewListCap

\* The inductive invariant of the whole controller.
MembershipInv == SamplerInv /\ SamplesAreLowest /\ AnswersBounded /\ ViewBounded

\* What the orders of a step promise, and the type of all that follows from them.
OrdersOK ==
    /\ viewList' \subseteq Peer /\ removed' \subseteq viewList /\ added' \subseteq Peer \ viewList
    /\ viewList' = (viewList \ removed') \cup added'
    /\ ViewBounded'

\* Replacing the view orders exactly the difference to the old one.
LEMMA ReplacedByOrders ==
    ASSUME TypeOK, NEW newViewList \in SUBSET Peer, ReplaceViewList(newViewList),
           IsFiniteSet(newViewList), Cardinality(newViewList) <= ViewListCap
    PROVE  OrdersOK /\ removed' \subseteq Peer /\ added' \subseteq Peer
<1>1. removed' = viewList \ newViewList /\ added' = newViewList \ viewList
  BY DEF ReplaceViewList
<1>2. viewList' = (viewList \ removed') \cup added'
  BY DEF ReplaceViewList
<1>3. viewList' = newViewList
  BY <1>1, <1>2
<1>4. viewList \subseteq Peer
  BY DEF TypeOK
<1> QED BY <1>1, <1>2, <1>3, <1>4 DEF OrdersOK, ViewBounded

\* A round never makes the view larger than the shares allow.
LEMMA UpdateRoundOrders ==
    ASSUME TypeOK, ViewBounded, UpdateRound
    PROVE  OrdersOK /\ removed' \subseteq Peer /\ added' \subseteq Peer
<1>1. CASE ~TooManyPushes /\ \E pulled \in Drawn(betaSize, pullReplies),
                               samples \in Drawn(gammaSize, DOMAIN sampleList) :
                               ReplaceViewList(pushRequests \cup pulled \cup samples)
  <2>1. PICK pulled \in Drawn(betaSize, pullReplies),
             samples \in Drawn(gammaSize, DOMAIN sampleList) :
             ReplaceViewList(pushRequests \cup pulled \cup samples)
    BY <1>1
  <2>2. /\ pushRequests \subseteq Peer /\ pullReplies \subseteq Peer
        /\ DOMAIN sampleList \subseteq Peer
    BY DEF TypeOK
  <2>3. /\ IsFiniteSet(pushRequests) /\ IsFiniteSet(pullReplies)
        /\ IsFiniteSet(DOMAIN sampleList)
    BY <2>2, FiniteSets
  <2>4. pulled \subseteq pullReplies /\ IsFiniteSet(pulled) /\ Cardinality(pulled) <= betaSize
    BY <2>3, SizesAssumption, DrawnIsSubset
  <2>5. /\ samples \subseteq DOMAIN sampleList /\ IsFiniteSet(samples)
        /\ Cardinality(samples) <= gammaSize
    BY <2>3, SizesAssumption, DrawnIsSubset
  <2>6. ~(Cardinality(pushRequests) > alphaSize)
    BY <1>1 DEF TooManyPushes
  <2>7. /\ IsFiniteSet(pushRequests \cup pulled)
        /\ Cardinality(pushRequests \cup pulled) <= Cardinality(pushRequests) + Cardinality(pulled)
    <3>1. Cardinality(pushRequests \cup pulled) =
             Cardinality(pushRequests) + Cardinality(pulled) - Cardinality(pushRequests \cap pulled)
      BY <2>3, <2>4, FS_Union
    <3>2. Cardinality(pushRequests \cap pulled) \in Nat
      BY <2>3, FS_Intersection, FS_CardinalityType
    <3>3. IsFiniteSet(pushRequests \cup pulled)
      BY <2>3, <2>4, FS_Union
    <3> QED BY <2>3, <2>4, <3>1, <3>2, <3>3, FS_CardinalityType
  <2>8. /\ IsFiniteSet(pushRequests \cup pulled \cup samples)
        /\ Cardinality(pushRequests \cup pulled \cup samples)
             <= Cardinality(pushRequests \cup pulled) + Cardinality(samples)
    <3>1. Cardinality(pushRequests \cup pulled \cup samples) =
             Cardinality(pushRequests \cup pulled) + Cardinality(samples)
                - Cardinality((pushRequests \cup pulled) \cap samples)
      BY <2>5, <2>7, FS_Union
    <3>2. Cardinality((pushRequests \cup pulled) \cap samples) \in Nat
      BY <2>7, FS_Intersection, FS_CardinalityType
    <3>3. IsFiniteSet(pushRequests \cup pulled \cup samples)
      BY <2>5, <2>7, FS_Union
    <3> QED BY <2>5, <2>7, <3>1, <3>2, <3>3, FS_CardinalityType
  <2>9. Cardinality(pushRequests \cup pulled \cup samples) <= ViewListCap
    <3>1. /\ Cardinality(pushRequests) \in Nat /\ Cardinality(pulled) \in Nat
          /\ Cardinality(samples) \in Nat /\ Cardinality(pushRequests \cup pulled) \in Nat
          /\ Cardinality(pushRequests \cup pulled \cup samples) \in Nat
      BY <2>3, <2>4, <2>5, <2>7, <2>8, FS_CardinalityType
    <3> QED BY <2>4, <2>5, <2>6, <2>7, <2>8, <3>1, SizesAssumption DEF ViewListCap
  <2>10. pushRequests \cup pulled \cup samples \in SUBSET Peer
    BY <2>2, <2>4, <2>5
  <2> QED BY <2>1, <2>8, <2>9, <2>10, ReplacedByOrders
<1>2. CASE removed' = {} /\ added' = {} /\ UNCHANGED viewList
  BY <1>2 DEF OrdersOK, ViewBounded, TypeOK
<1> QED BY <1>1, <1>2 DEF UpdateRound

\* A pull round asks at most betaSize peers of the view.
LEMMA PullRoundAsks ==
    ASSUME NEW view \in SUBSET Peer, PullRound(view)
    PROVE  pullPeers' \subseteq Peer /\ repliers' \subseteq Peer /\ AnswersBounded'
<1>1. IsFiniteSet(view) /\ pullPeers' \in Drawn(betaSize, view) /\ repliers' = {}
  BY FiniteSets DEF PullRound
<1>2. /\ pullPeers' \subseteq view /\ Cardinality(pullPeers') \in Nat
      /\ Cardinality(pullPeers') <= betaSize
  BY <1>1, SizesAssumption, DrawnIsSubset
<1>3. Cardinality(repliers') = 0
  BY <1>1, FS_EmptySet
<1> QED BY <1>1, <1>2, <1>3, SizesAssumption DEF AnswersBounded

-----------------------------------------------------------------------------
(* One step of the controller *)

\* What the samplers do not need to know: the rest of the type invariant.
RestTypeOK ==
    /\ status \in {"starting", "running", "closed"}
    /\ viewList \subseteq Peer
    /\ pushRequests \subseteq Peer /\ pullReplies \subseteq Peer
    /\ pullPeers \subseteq Peer /\ repliers \subseteq Peer
    /\ removed \subseteq Peer /\ added \subseteq Peer

\* The invariant of the samplers is that of both parts.
LEMMA SamplerParts == SamplerInv <=> SamplersOK /\ RestTypeOK
BY DEF SamplerInv, TypeOK, SamplersOK, RestTypeOK

\* The same of the next state.
LEMMA SamplerPartsNext == SamplersOK' /\ RestTypeOK' => SamplerInv'
BY DEF SamplerInv, TypeOK, SamplersOK, RestTypeOK

\* The inductive invariant holds at the start, when no sampler is in use.
LEMMA MembershipInit == Init => MembershipInv
<1> SUFFICES ASSUME Init PROVE MembershipInv
  OBVIOUS
<1>1. DOMAIN sampleList = {} /\ sampleList = EmptyMap
  BY DEF Init, EmptyMap
<1>2. InUse = {}
  BY <1>1 DEF InUse
<1>3. Cardinality({}) = 0 /\ IsFiniteSet({}) /\ Cardinality(Sampler) \in Nat
  BY FS_EmptySet, FS_CardinalityType, SamplersAssumption
<1>4. SamplersOK
  BY <1>1, <1>2, <1>3 DEF Init, EmptyMap, SamplersOK, SamplersFiled, CapacityAccounted
<1>5. RestTypeOK
  BY DEF Init, RestTypeOK
<1>6. SamplesAreLowest
  BY <1>2 DEF SamplesAreLowest
<1>7. AnswersBounded /\ ViewBounded
  BY <1>3, SizesAssumption DEF Init, AnswersBounded, ViewBounded, ViewListCap
<1> QED BY <1>4, <1>5, <1>6, <1>7, SamplerParts DEF MembershipInv

\* Steps that leave the samplers alone keep what is known of them.
LEMMA SamplersKept ==
    ASSUME SamplersOK, SamplesAreLowest, UNCHANGED samplers
    PROVE  SamplersOK' /\ SamplesAreLowest'
<1>1. /\ sampleList' = sampleList /\ sampleListRemainingCap' = sampleListRemainingCap
      /\ sampled' = sampled /\ permuter' = permuter /\ shown' = shown
  BY DEF samplers
<1>2. InUse' = InUse
  BY <1>1 DEF InUse
<1>3. SamplersFiled' /\ CapacityAccounted'
  BY <1>1, <1>2 DEF SamplersOK, SamplersFiled, CapacityAccounted
<1>4. SamplesAreLowest'
  BY <1>1, <1>2 DEF SamplesAreLowest
<1> QED BY <1>1, <1>2, <1>3, <1>4 DEF SamplersOK

\* A peer that disconnects takes its answer with it.
LEMMA AnswersKeptWithout ==
    ASSUME SamplerInv, AnswersBounded, NEW peer,
           pullPeers' = pullPeers \ {peer}, repliers' = repliers
    PROVE  AnswersBounded'
<1>1. pullPeers \subseteq Peer /\ repliers \subseteq Peer
  BY DEF SamplerInv, TypeOK
<1>2. /\ IsFiniteSet(pullPeers) /\ Cardinality(pullPeers) \in Nat
      /\ Cardinality(repliers) \in Nat
  BY <1>1, FiniteSets
<1>3. /\ Cardinality(pullPeers') \in Nat /\ Cardinality(pullPeers') <= Cardinality(pullPeers)
  BY <1>2, FS_Subset, FS_CardinalityType
<1> QED BY <1>2, <1>3, SizesAssumption DEF AnswersBounded

\* An answer moves a peer from those that were asked to those that answered.
LEMMA AnsweredOnce ==
    ASSUME SamplerInv, AnswersBounded, NEW from \in pullPeers,
           pullPeers' = Answered(from), repliers' = repliers \cup {from}
    PROVE  AnswersBounded'
<1>1. pullPeers \subseteq Peer /\ repliers \subseteq Peer
  BY DEF SamplerInv, TypeOK
<1>2. /\ IsFiniteSet(pullPeers) /\ Cardinality(pullPeers) \in Nat
      /\ IsFiniteSet(repliers) /\ Cardinality(repliers) \in Nat
  BY <1>1, FiniteSets
<1>3. Cardinality(pullPeers') = Cardinality(pullPeers) - 1
  BY <1>2, FS_RemoveElement DEF Answered
<1>4. from \notin repliers
  BY DEF AnswersBounded
<1>5. Cardinality(repliers') = Cardinality(repliers) + 1
  BY <1>2, <1>4, FS_AddElement
<1> QED BY <1>2, <1>3, <1>4, <1>5 DEF AnswersBounded, Answered

\* A handler that removes a peer.
LEMMA RemovePeerStep ==
    ASSUME MembershipInv, NEW peer \in Peer, Handling, RemovePeer(peer)
    PROVE  MembershipInv' /\ OrdersOK
<1>1. SamplersOK' /\ SamplesAreLowest'
  BY RemovePeerKeepsSamplers DEF MembershipInv
<1>2. viewList \subseteq Peer /\ IsFiniteSet(viewList) /\ Cardinality(viewList) <= ViewListCap
  BY DEF MembershipInv, SamplerInv, TypeOK, ViewBounded
<1>3. /\ removed' = viewList \cap {peer} /\ added' = {} /\ viewList' = viewList \ {peer}
      /\ pullPeers' = pullPeers \ {peer} /\ repliers' = repliers
  BY DEF RemovePeer
<1>4. ViewBounded'
  <2>1. IsFiniteSet(viewList') /\ Cardinality(viewList') <= Cardinality(viewList)
    BY <1>2, <1>3, FS_Subset
  <2>2. Cardinality(viewList') \in Nat /\ Cardinality(viewList) \in Nat
    BY <1>2, <2>1, FS_CardinalityType
  <2> QED BY <1>2, <2>1, <2>2, SizesAssumption DEF ViewBounded, ViewListCap
<1>5. OrdersOK
  BY <1>2, <1>3, <1>4 DEF OrdersOK
<1>6. RestTypeOK'
  BY DEF MembershipInv, SamplerInv, TypeOK, RestTypeOK, RemovePeer, Handling
<1>7. AnswersBounded'
  BY <1>3, AnswersKeptWithout DEF MembershipInv
<1> QED BY <1>1, <1>4, <1>5, <1>6, <1>7, SamplerPartsNext DEF MembershipInv

\* A round.
LEMMA MembershipRoundStep ==
    ASSUME MembershipInv, MembershipRound
    PROVE  MembershipInv' /\ OrdersOK
<1>1. SamplersOK' /\ SamplesAreLowest'
  BY UpdateSampleRoundKeepsSamplers DEF MembershipRound, MembershipInv
<1>2. TypeOK /\ viewList \in SUBSET Peer
  BY DEF MembershipInv, SamplerInv, TypeOK
<1>3. OrdersOK /\ removed' \subseteq Peer /\ added' \subseteq Peer
  BY <1>2, UpdateRoundOrders DEF MembershipRound, MembershipInv
<1>4. pullPeers' \subseteq Peer /\ repliers' \subseteq Peer /\ AnswersBounded'
  BY <1>2, PullRoundAsks DEF MembershipRound
<1>5. pushRequests' = {} /\ pullReplies' = {}
  BY DEF MembershipRound, UpdateSampleRound
<1>6. status' \in {"starting", "running", "closed"}
  BY DEF MembershipRound
<1>7. RestTypeOK' /\ ViewBounded'
  BY <1>3, <1>4, <1>5, <1>6 DEF RestTypeOK, OrdersOK
<1> QED BY <1>1, <1>3, <1>4, <1>7, SamplerPartsNext DEF MembershipInv

\* The start of the controller.
LEMMA BootstrapStep ==
    ASSUME MembershipInv, Bootstrap
    PROVE  MembershipInv' /\ (OrdersOK \/ UNCHANGED <<viewList, removed, added>>)
<1>1. SamplersOK' /\ SamplesAreLowest'
  BY SamplersKept, SamplerParts DEF Bootstrap, MembershipInv
<1>2. TypeOK /\ status' = "running" /\ UNCHANGED incoming
  BY DEF MembershipInv, SamplerInv, Bootstrap
<1>3. CASE bootstrapper = NoPeer /\ UNCHANGED <<viewList, pulls, orders>>
  <2>1. RestTypeOK'
    BY <1>2, <1>3 DEF TypeOK, RestTypeOK, incoming, pulls, orders
  <2>2. AnswersBounded' /\ ViewBounded' /\ UNCHANGED <<viewList, removed, added>>
    BY <1>3 DEF MembershipInv, AnswersBounded, ViewBounded, pulls, orders
  <2> QED BY <1>1, <2>1, <2>2, SamplerPartsNext DEF MembershipInv
<1>4. CASE bootstrapper # NoPeer /\ ReplaceViewList({bootstrapper}) /\ PullRound({bootstrapper})
  <2>1. {bootstrapper} \in SUBSET Peer
    BY <1>4, PeersAssumption
  <2>2. /\ IsFiniteSet({bootstrapper}) /\ Cardinality({bootstrapper}) = 1
    BY FS_Singleton
  <2>3. Cardinality({bootstrapper}) <= ViewListCap
    BY <2>2, SizesAssumption DEF ViewListCap
  <2>4. OrdersOK /\ removed' \subseteq Peer /\ added' \subseteq Peer
    BY <1>2, <1>4, <2>1, <2>2, <2>3, ReplacedByOrders
  <2>5. pullPeers' \subseteq Peer /\ repliers' \subseteq Peer /\ AnswersBounded'
    BY <1>4, <2>1, PullRoundAsks
  <2>6. RestTypeOK' /\ ViewBounded'
    BY <1>2, <2>4, <2>5 DEF RestTypeOK, OrdersOK, TypeOK, incoming
  <2> QED BY <1>1, <2>4, <2>5, <2>6, SamplerPartsNext DEF MembershipInv
<1> QED BY <1>3, <1>4 DEF Bootstrap

\* Pushes and replies only add to what the next round looks at.
LEMMA QuietStep ==
    ASSUME MembershipInv, NEW from \in Peer, NEW viewOfSender \in SUBSET Peer,
           \/ IncomingPushRequestHandler(from)
           \/ IncomingPullReplyHandler(from, viewOfSender)
    PROVE  MembershipInv' /\ OrdersOK
<1>1. Handling /\ Quiet /\ SamplersOK /\ TypeOK
  BY SamplerParts DEF IncomingPushRequestHandler, IncomingPullReplyHandler, MembershipInv, SamplerInv
<1>2. SamplersOK' /\ SamplesAreLowest'
  BY <1>1, SamplersKept DEF Quiet, MembershipInv
<1>3. viewList' = viewList /\ removed' = {} /\ added' = {} /\ ViewBounded'
  BY <1>1 DEF Quiet, MembershipInv, ViewBounded
<1>4. OrdersOK
  BY <1>1, <1>3 DEF OrdersOK, TypeOK
<1>5. CASE IncomingPushRequestHandler(from)
  <2>1. RestTypeOK'
    BY <1>1, <1>3, <1>5 DEF RestTypeOK, TypeOK, IncomingPushRequestHandler, Handling, pulls
  <2>2. AnswersBounded'
    BY <1>5 DEF MembershipInv, AnswersBounded, IncomingPushRequestHandler, pulls
  <2> QED BY <1>2, <1>3, <1>4, <2>1, <2>2, SamplerPartsNext DEF MembershipInv
<1>6. CASE IncomingPullReplyHandler(from, viewOfSender)
  <2>1. from \in pullPeers /\ pullPeers' = Answered(from) /\ repliers' = repliers \cup {from}
    BY <1>6 DEF IncomingPullReplyHandler
  <2>2. RestTypeOK'
    BY <1>1, <1>3, <1>6 DEF RestTypeOK, TypeOK, IncomingPullReplyHandler, Handling, Answered
  <2>3. AnswersBounded'
    BY <2>1, AnsweredOnce DEF MembershipInv
  <2> QED BY <1>2, <1>3, <1>4, <2>2, <2>3, SamplerPartsNext DEF MembershipInv
<1> QED BY <1>5, <1>6

\* Every step keeps the inductive invariant, and what it orders fits the view.
LEMMA MembershipStep ==
    ASSUME MembershipInv, [Next]_vars
    PROVE  MembershipInv' /\ (OrdersOK \/ UNCHANGED <<viewList, removed, added>>)
<1>1. CASE Bootstrap
  BY <1>1, BootstrapStep
<1>2. CASE MembershipRound
  BY <1>2, MembershipRoundStep
<1>3. ASSUME NEW peer \in Peer, PeerDisconnectedHandler(peer) \/ ProbePeerReplyHandler(peer)
      PROVE  MembershipInv' /\ OrdersOK
  BY <1>3, RemovePeerStep DEF PeerDisconnectedHandler, ProbePeerReplyHandler
<1>4. ASSUME NEW peer \in Peer, NEW viewOfSender \in SUBSET Peer,
             IncomingPushRequestHandler(peer) \/ IncomingPullReplyHandler(peer, viewOfSender)
      PROVE  MembershipInv' /\ OrdersOK
  BY <1>4, QuietStep
<1>5. CASE CloseHandler \/ UNCHANGED vars
  <2>1. /\ status' \in {"starting", "running", "closed"}
        /\ UNCHANGED <<viewList, samplers, incoming, pulls, orders>>
    BY <1>5 DEF CloseHandler, vars, MembershipInv, SamplerInv, TypeOK
  <2>2. SamplersOK' /\ SamplesAreLowest'
    BY <2>1, SamplersKept, SamplerParts DEF MembershipInv
  <2>3. RestTypeOK'
    BY <2>1 DEF MembershipInv, SamplerInv, TypeOK, RestTypeOK, incoming, pulls, orders
  <2>4. AnswersBounded' /\ ViewBounded' /\ UNCHANGED <<viewList, removed, added>>
    BY <2>1 DEF MembershipInv, AnswersBounded, ViewBounded, pulls, orders
  <2> QED BY <2>2, <2>3, <2>4, SamplerPartsNext DEF MembershipInv
<1> QED
  <2>1. ASSUME NEW peer \in Peer, IncomingPushRequestHandler(peer) PROVE MembershipInv' /\ OrdersOK
    <3>1. {} \in SUBSET Peer
      OBVIOUS
    <3> QED BY <1>4, <2>1, <3>1
  <2> QED BY <1>1, <1>2, <1>3, <1>4, <1>5, <2>1 DEF Next

-----------------------------------------------------------------------------
(* Theorems *)

\* The inductive invariant holds in every reachable state.
THEOREM MembershipInvariant == Spec => []MembershipInv
BY MembershipInit, MembershipStep, PTL DEF Spec

\* The types of the state, for any peers and samplers.
THEOREM MembershipTypes == Spec => []TypeOK
<1>1. MembershipInv => TypeOK
  BY DEF MembershipInv, SamplerInv
<1> QED BY <1>1, MembershipInvariant, PTL

\* A sampler is always filed under the peer that it samples, and no peer is kept
\* without samplers (updateSampleRound, removePeer).
THEOREM SamplersStayFiled == Spec => []SamplersFiled
<1>1. MembershipInv => SamplersFiled
  BY DEF MembershipInv, SamplerInv
<1> QED BY <1>1, MembershipInvariant, PTL

\* No sampler is lost or counted twice over rounds and disconnections: the
\* remaining capacity is always the number of samplers not in use.
THEOREM CapacityStaysAccounted == Spec => []CapacityAccounted
<1>1. MembershipInv => CapacityAccounted
  BY DEF MembershipInv, SamplerInv
<1> QED BY <1>1, MembershipInvariant, PTL

\* A sampler has the lowest ranked of all peers that it was ever shown, for any
\* permutations (NextSet, updateSampleRound).
THEOREM SamplesStayLowest == Spec => []SamplesAreLowest
<1>1. MembershipInv => SamplesAreLowest
  BY DEF MembershipInv
<1> QED BY <1>1, MembershipInvariant, PTL

\* At most betaSize peers contribute to the pull replies of a round, whatever
\* answers arrive (pullRound, incomingPullReplyHandler).
THEOREM AnswersStayBounded == Spec => []AnswersBounded
<1>1. MembershipInv => AnswersBounded
  BY DEF MembershipInv
<1> QED BY <1>1, MembershipInvariant, PTL

\* The orders that the Membership controller sends implement ViewOrders: nothing
\* is added or removed twice, and the view never outgrows its cap.
THEOREM OrdersImplemented == Spec => ImplementsViewOrders
<1>1. Init => Orders!Init
  BY DEF Init, Orders!Init
<1>2. MembershipInv /\ [Next]_vars => [Orders!Order]_(Orders!vars)
  <2> SUFFICES ASSUME MembershipInv, [Next]_vars
               PROVE  [Orders!Order]_(Orders!vars)
    OBVIOUS
  <2>1. OrdersOK \/ UNCHANGED <<viewList, removed, added>>
    BY MembershipStep
  <2>2. CASE OrdersOK
    <3>1. IsFiniteSet(viewList') => Orders!IsFiniteSet(viewList')
      BY DEF IsFiniteSet, Orders!IsFiniteSet
    <3>2. Orders!Cardinality(viewList') = Cardinality(viewList')
      BY DEF Cardinality, Orders!Cardinality
    <3>3. Orders!Order
      BY <2>2, <3>1, <3>2 DEF OrdersOK, ViewBounded, Orders!Order
    <3> QED BY <3>3
  <2>3. CASE UNCHANGED <<viewList, removed, added>>
    BY <2>3 DEF Orders!vars
  <2> QED BY <2>1, <2>2, <2>3
<1> QED BY <1>1, <1>2, MembershipInvariant, PTL DEF Spec, ImplementsViewOrders, Orders!Spec

=============================================================================
