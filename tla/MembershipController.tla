------------------------ MODULE MembershipController ------------------------
(* The Membership controller: a single goroutine that keeps the view, the    *)
(* samplers and the peers that were pushed and pulled since the last round,   *)
(* after the BRAHMS protocol.  A round and each handler run to their end      *)
(* without sharing state with another goroutine, so each is one action; the   *)
(* orders that a step sends to the Central controller are recorded.          *)
(*                                                                           *)
(* Messages from the network come in any order and number: the connections    *)
(* are not trusted to ask before they answer.  Addresses that do not resolve  *)
(* and pushes whose proof of work fails are dropped on arrival and left out.  *)
EXTENDS Integers, FiniteSets, FiniteSetsExt, Maps

CONSTANTS
    Peer,
    NoPeer,                           \* the zero value of a peer
    bootstrapper,                     \* a peer, or NoPeer when none is configured
    alphaSize, betaSize, gammaSize,   \* shares of pushes, pulls and samples in the view
    Sampler,                          \* the samplers that fit in the sample list
    Permuter,                         \* the permutations: functions from peers to ranks
    MaxPushes,                        \* bound: peers that push between two rounds
    MaxReply                          \* bound: peers in one pull reply

ViewListCap == alphaSize + betaSize + gammaSize

ASSUME SizesAssumption ==
    alphaSize \in Nat /\ betaSize \in Nat /\ gammaSize \in Nat /\ ViewListCap > 0

ASSUME PeersAssumption ==
    IsFiniteSet(Peer) /\ NoPeer \notin Peer /\ bootstrapper \in Peer \cup {NoPeer}

ASSUME SamplersAssumption ==
    /\ IsFiniteSet(Sampler)
    /\ Permuter # {}
    /\ \A permuter \in Permuter :
          /\ permuter \in [Peer -> Nat]
          /\ \A p, q \in Peer : permuter[p] = permuter[q] => p = q

VARIABLES
    status,          \* "starting" | "running" | "closed"
    viewList,
    sampleList,      \* peer -> the samplers that sample it
    sampleListRemainingCap,
    sampled,         \* sampler in use -> its peer
    permuter,        \* sampler in use -> its permutation
    pushRequests, pullReplies,
    pullPeers,       \* the peers that were asked and have not answered
    removed, added,  \* the last PeerRemoveMSGs and PeerAddMSGs
    repliers,        \* history: the peers whose reply was taken since the last round
    shown            \* history: sampler in use -> all peers that it was shown

samplers == <<sampleList, sampleListRemainingCap, sampled, permuter, shown>>
incoming == <<pushRequests, pullReplies>>
pulls    == <<pullPeers, repliers>>
orders   == <<removed, added>>
vars == <<status, viewList, samplers, incoming, pulls, orders>>

InUse == UNION {sampleList[p] : p \in DOMAIN sampleList}

Minimum(a, b) == IF a <= b THEN a ELSE b

\* mrand.Perm(size)[:Min(n, size)] and the elements at these indexes.
Drawn(n, S) == {T \in SUBSET S : Cardinality(T) = Minimum(n, Cardinality(S))}
-----------------------------------------------------------------------------
(* Rounds *)

\* replaceViewList
ReplaceViewList(newViewList) ==
    /\ removed' = viewList \ newViewList
    /\ added' = newViewList \ viewList
    /\ viewList' = (viewList \ removed') \cup added'

\* pullRound asks peers of the view as it is before the round changes it.
PullRound(view) ==
    /\ pullPeers' \in Drawn(betaSize, view)
    /\ repliers' = {}

\* updateRound: nothing changes when too many pushes came, or nothing at all.
TooManyByOne == Cardinality(pushRequests) > alphaSize + 1   \* fault: off by one

TooManyPushes == Cardinality(pushRequests) > alphaSize

UpdateRound ==
    \/ /\ ~TooManyPushes
       /\ pushRequests \cup pullReplies # {}
       /\ \E pulled \in Drawn(betaSize, pullReplies),
             samples \in Drawn(gammaSize, DOMAIN sampleList) :
             ReplaceViewList(pushRequests \cup pulled \cup samples)
    \/ /\ TooManyPushes \/ pushRequests \cup pullReplies = {}
       /\ removed' = {} /\ added' = {}
       /\ UNCHANGED viewList

\* NextSet: the sampler ends up with the lowest of its own peer and the new ones.
Lowest(order, peers) == CHOOSE p \in peers : \A q \in peers : order[p] <= order[q]

\* Fault: any new peer is taken, however high its rank.
SamplingNewest(s, newPeers) ==
    IF newPeers = {} THEN sampled[s] ELSE Lowest(permuter[s], newPeers)

Sampling(s, newPeers) == Lowest(permuter[s], newPeers \cup {sampled[s]})

Moved(newPeers) == {s \in InUse : Sampling(s, newPeers) # sampled[s]}

\* The sets that keep a sampler, and the changed samplers put under their peers.
KeptAll(moved) == sampleList   \* fault: a changed sampler stays under its old peer, too

Kept(moved) ==
    LET left(p) == sampleList[p] \ moved
    IN  [p \in {q \in DOMAIN sampleList : left(q) # {}} |-> left(p)]

Regrouped(kept, changed, peerOf) ==
    [p \in DOMAIN kept \cup {peerOf[s] : s \in changed} |->
        (IF p \in DOMAIN kept THEN kept[p] ELSE {}) \cup {s \in changed : peerOf[s] = p}]

\* New samplers use up the remaining capacity, as soon as there are peers for them.
Fresh(newPeers) ==
    IF newPeers = {} THEN {{}} ELSE Drawn(sampleListRemainingCap, Sampler \ InUse)

UpdateSampleRound ==
    LET newPeers == pushRequests \cup pullReplies
        moved    == Moved(newPeers)
    IN \E fresh \in Fresh(newPeers) : \E new \in [fresh -> Permuter] :
          /\ sampleListRemainingCap' = sampleListRemainingCap - Cardinality(fresh)
          /\ sampled' = [s \in InUse \cup fresh |->
                           IF s \in fresh THEN Lowest(new[s], newPeers) ELSE Sampling(s, newPeers)]
          /\ permuter' = [s \in InUse \cup fresh |-> IF s \in fresh THEN new[s] ELSE permuter[s]]
          /\ shown' = [s \in InUse \cup fresh |->
                           newPeers \cup (IF s \in fresh THEN {} ELSE shown[s])]
          /\ sampleList' = Regrouped(Kept(moved), moved \cup fresh, sampled')
          /\ pushRequests' = {} /\ pullReplies' = {}

MembershipRound ==
    /\ status = "running"
    /\ PullRound(viewList) /\ UpdateRound /\ UpdateSampleRound
    /\ UNCHANGED status
-----------------------------------------------------------------------------
(* Start, handlers *)

Init ==
    /\ status = "starting"
    /\ viewList = {}
    /\ sampleList = EmptyMap /\ sampleListRemainingCap = Cardinality(Sampler)
    /\ sampled = EmptyMap /\ permuter = EmptyMap /\ shown = EmptyMap
    /\ pushRequests = {} /\ pullReplies = {}
    /\ pullPeers = {} /\ repliers = {}
    /\ removed = {} /\ added = {}

Bootstrap ==
    /\ status = "starting"
    /\ status' = "running"
    /\ \/ /\ bootstrapper = NoPeer
          /\ UNCHANGED <<viewList, pulls, orders>>
       \/ /\ bootstrapper # NoPeer
          /\ ReplaceViewList({bootstrapper})
          /\ PullRound({bootstrapper})
    /\ UNCHANGED <<samplers, incoming>>

Handling == status = "running" /\ UNCHANGED status

\* Fault: the samplers stay in use without a peer.
FreedNever(peer) == {}

\* removePeer: the samplers of the peer make room for new ones.
Freed(peer) == IF peer \in DOMAIN sampleList THEN sampleList[peer] ELSE {}

ReturnedOne(peer) == 1   \* fault: counts peers, not samplers

Returned(peer) == Cardinality(Freed(peer))

WithoutSamplers(f, S) == [s \in DOMAIN f \ S |-> f[s]]

RemovePeer(peer) ==
    /\ removed' = viewList \cap {peer} /\ added' = {}
    /\ viewList' = viewList \ {peer}
    /\ sampleListRemainingCap' = sampleListRemainingCap + Returned(peer)
    /\ sampleList' = Without(sampleList, peer)
    /\ sampled' = WithoutSamplers(sampled, Freed(peer))
    /\ permuter' = WithoutSamplers(permuter, Freed(peer))
    /\ shown' = WithoutSamplers(shown, Freed(peer))
    /\ pushRequests' = pushRequests \ {peer}
    /\ pullReplies' = pullReplies \ {peer}
    /\ pullPeers' = pullPeers \ {peer}
    /\ UNCHANGED repliers

PeerDisconnectedHandler(peer) == Handling /\ RemovePeer(peer)

\* A probe that failed; one that succeeded changes nothing.
ProbePeerReplyHandler(peer) == Handling /\ RemovePeer(peer)

Quiet == removed' = {} /\ added' = {} /\ UNCHANGED <<viewList, samplers>>

IncomingPushRequestHandler(from) ==
    /\ Handling /\ Quiet
    /\ pushRequests' = pushRequests \cup {from}
    /\ Cardinality(pushRequests') <= MaxPushes
    /\ UNCHANGED <<pullReplies, pulls>>

\* Fault: the peer may answer again.
StillAsked(from) == pullPeers

Answered(from) == pullPeers \ {from}

\* Only a peer that was asked, and once.
IncomingPullReplyHandler(from, viewOfSender) ==
    /\ Handling /\ Quiet
    /\ from \in pullPeers /\ Cardinality(viewOfSender) <= MaxReply
    /\ pullPeers' = Answered(from)
    /\ repliers' = repliers \cup {from}
    /\ pullReplies' = pullReplies \cup viewOfSender
    /\ UNCHANGED pushRequests

CloseHandler ==
    /\ status = "running" /\ status' = "closed"
    /\ UNCHANGED <<viewList, samplers, incoming, pulls, orders>>

Next ==
    \/ Bootstrap
    \/ MembershipRound
    \/ \E peer \in Peer :
          \/ PeerDisconnectedHandler(peer)
          \/ ProbePeerReplyHandler(peer)
          \/ IncomingPushRequestHandler(peer)
          \/ \E viewOfSender \in SUBSET Peer : IncomingPullReplyHandler(peer, viewOfSender)
    \/ CloseHandler

Spec == Init /\ [][Next]_vars
-----------------------------------------------------------------------------
(* Properties *)

TypeOK ==
    /\ status \in {"starting", "running", "closed"}
    /\ viewList \subseteq Peer
    /\ DOMAIN sampleList \subseteq Peer /\ InUse \subseteq Sampler
    /\ sampleListRemainingCap \in Nat
    /\ sampled \in [InUse -> Peer] /\ permuter \in [InUse -> Permuter]
    /\ shown \in [InUse -> SUBSET Peer]
    /\ pushRequests \subseteq Peer /\ pullReplies \subseteq Peer
    /\ pullPeers \subseteq Peer /\ repliers \subseteq Peer
    /\ removed \subseteq Peer /\ added \subseteq Peer

\* A sampler is filed under the peer that it samples and under no other, and no
\* peer is kept without samplers (sampleList, updateSampleRound, removePeer).
SamplersFiled ==
    \A p \in DOMAIN sampleList :
        sampleList[p] # {} /\ \A s \in sampleList[p] : sampled[s] = p

\* Samplers that fill up in a round, change their peer or are freed with it are
\* all accounted for: the remaining capacity is the number of those not in use.
CapacityAccounted == sampleListRemainingCap + Cardinality(InUse) = Cardinality(Sampler)

\* What makes the samples hard to bias: each sampler has the lowest ranked of all
\* peers that came in since it was made, over all rounds and disconnections
\* (NextSet, updateSampleRound, removePeer).
SamplesAreLowest ==
    \A s \in InUse : sampled[s] \in shown[s]
        /\ \A p \in shown[s] : permuter[s][sampled[s]] <= permuter[s][p]

\* At most betaSize peers put addresses into the pull replies of a round, whatever
\* answers arrive, late, twice or unasked (pullRound, incomingPullReplyHandler).
AnswersBounded ==
    /\ pullPeers \cap repliers = {}
    /\ Cardinality(pullPeers) + Cardinality(repliers) <= betaSize

\* The orders to the Central controller: nothing twice, never more than the cap
\* (replaceViewList, removePeer, updateRound).
Orders == INSTANCE ViewOrders WITH view <- viewList

ImplementsViewOrders == Orders!Spec
=============================================================================
