------------------------------ MODULE Gossiper ------------------------------
(***************************************************************************)
(* The Gossiper goroutine of src/core/gossiper.go: one node's part of the  *)
(* median-counter gossip protocol.  Its only inputs are the messages the   *)
(* Central controller puts in MsgInQueue and its own round ticker, and it  *)
(* handles one at a time, so a handler is one action.  A gossip round is   *)
(* four methods called in a row; `phase' says which comes next, and no     *)
(* message is handled before the round is over.  A pull reply is a loop    *)
(* over the items it carries; phase "reply" is that loop.                  *)
(*                                                                         *)
(* go.mod asks for Go 1.14, where the variable of a `for range' loop is    *)
(* one variable for the whole loop.  The loops of the Gossiper keep its    *)
(* address: after the loop every kept pointer is the item visited last,    *)
(* and a goroutine that reads one during the loop may see the item of any  *)
(* later iteration.  Map iteration order is random, so the order (`ord',   *)
(* `last') and what a racing reader sees (`read') are chosen by \E.        *)
(***************************************************************************)
EXTENDS MedianCounter, Maps, Sequences, FiniteSets

CONSTANTS
    Item,          \* gossip items
    Peer,          \* remote peers
    Client,        \* API clients
    DataType,      \* data types of gossip items
    dataType,      \* the data type of each item
    NoItem,        \* the nil *GossipItem
    cacheSize,     \* capacity of gossipList and of incomingGossips
    degree,        \* peers an item is pushed to per round
    maxTTL,        \* rounds an item may be pushed for
    bMax, cMax,    \* thresholds of states B and C
    ByteSize,      \* 2^8 in the code: ttl and counter are uint8
    IDSpace,       \* 2^16 in the code: notification IDs are uint16
    MaxRequests,   \* bound: a round starts with fewer requests pending
    MaxReply       \* bound: items in a pull reply

ASSUME ItemAssumption == NoItem \notin Item /\ IsFiniteSet(Item)
ASSUME DataTypeAssumption == dataType \in [Item -> DataType]
ASSUME ConfigAssumption ==
    /\ cacheSize \in Nat \ {0}
    /\ degree \in Nat \ {0}
    /\ ByteSize \in 1..256
    /\ IDSpace \in Nat \ {0}
    /\ maxTTL \in 1..(ByteSize - 1)
    /\ bMax \in 1..(ByteSize - 1)
    /\ cMax \in 1..(ByteSize - 1)
    /\ MaxRequests \in Nat
    /\ MaxReply \in Nat

VARIABLES
    status,              \* "running", "crashed" (a panic) or "closed"
    phase,               \* "idle", the next method of the round, or "reply"
    gossipList,          \* item -> state, counter, ttl, medianRule, peerList
    oldGossipList,       \* item -> ttl
    incomingGossips,     \* item -> state, counter
    nextRoundPullPeers,
    pullPeers,
    apiClientsToNotify,  \* client -> notifyDataTypes, validationMap, nextAvailableID
    requests,            \* peer list requests the Central controller has not answered
    reply,               \* the pull reply being read: from, left, upTo
    out                  \* the other messages the last step put in MsgOutQueue

lists == <<gossipList, oldGossipList, incomingGossips>>
pulls == <<nextRoundPullPeers, pullPeers, reply>>
vars == <<status, phase, lists, pulls, apiClientsToNotify, requests, out>>

-----------------------------------------------------------------------------
(* Helpers *)

NoReply == [from |-> NoItem, left |-> 0, upTo |-> 0]

\* The orders in which `range' may visit the keys in S.
Orders(S) ==
    {f \in [1..Cardinality(S) -> S] :
        \A a, b \in 1..Cardinality(S) : f[a] = f[b] => a = b}

\* The item visited k-th or a later one: what &item may point at from then on.
FromOn(ord, k) == {ord[j] : j \in {j \in DOMAIN ord : j >= k}}

\* A fault: a counter wider than a byte.
ByteUnbounded(n) == n

\* uint8 arithmetic
Byte(n) == n % ByteSize

\* A fault: off by one.
HasRoomForOneMore(list) == Cardinality(DOMAIN list) <= cacheSize

HasRoom(list) == Cardinality(DOMAIN list) < cacheSize

Idle == status = "running" /\ phase = "idle"

\* A new entry of gossipList; its peers are still to be asked for.
NewInfo(state, counter, ttl) ==
    [state |-> state, counter |-> counter, ttl |-> ttl,
     medianRule |-> 0, peerList |-> <<>>]

Request(item, num) == [related |-> item, num |-> num]

Release(peers) == [type |-> "RandomPeerListRelease", peers |-> peers]

Init ==
    /\ status = "running"
    /\ phase = "idle"
    /\ gossipList = EmptyMap
    /\ oldGossipList = EmptyMap
    /\ incomingGossips = EmptyMap
    /\ nextRoundPullPeers = {}
    /\ pullPeers = {}
    /\ apiClientsToNotify = EmptyMap
    /\ requests = <<>>
    /\ reply = NoReply
    /\ out = {}

-----------------------------------------------------------------------------
(* pushRound *)

\* The indexes into the peer list an item is pushed at in this round.
PeerIndexes(info) ==
    LET N == Len(info.peerList)
    IN  {(info.ttl * degree + i) % N :
            i \in 0..((IF degree < N THEN degree ELSE N) - 1)}

\* The item after the round: an item in state C counts down as well, unless
\* its ttl has just run out.
Age(info) ==
    LET ttl == Byte(info.ttl - 1)
    IN  [state |-> info.state,
         counter |-> IF ttl # 0 /\ info.state = StateC
                     THEN Byte(info.counter + 1) ELSE info.counter,
         ttl |-> ttl, medianRule |-> info.medianRule, peerList |-> info.peerList]

\* A fault: an item is retired only once it has reached state C.
DueOnlyInC(info) == info.state = StateC /\ (info.ttl = 0 \/ info.counter >= cMax)

\* Whether an aged item is to be removed.
Due(info) == info.ttl = 0 \/ (info.state = StateC /\ info.counter >= cMax)

\* Every item is pushed and aged.  itemsToRemove holds one pointer per due
\* item, and they all point at the item visited last, ord[n]: that item is
\* retired, and a second pointer then dereferences a missing map entry.
PushRound ==
    /\ Idle
    /\ Len(requests) < MaxRequests
    /\ \E ord \in Orders(DOMAIN gossipList) :
       LET n == Cardinality(DOMAIN gossipList)
           aged == [i \in DOMAIN gossipList |-> Age(gossipList[i])]
           due == {i \in DOMAIN gossipList : Due(aged[i])}
           pushed == {p \in (1..n) \X (0..(degree * maxTTL)) :
                        p[2] \in PeerIndexes(gossipList[ord[p[1]]])}
       IN  \E read \in [pushed -> Item] :
           /\ \A p \in pushed : read[p] \in FromOn(ord, p[1])
           /\ out' = {[type |-> "GossipPush", item |-> read[p],
                       state |-> gossipList[ord[p[1]]].state,
                       counter |-> gossipList[ord[p[1]]].counter,
                       to |-> gossipList[ord[p[1]]].peerList[p[2] + 1]] : p \in pushed}
                     \cup {Release(aged[ord[n]].peerList) : i \in due}
           /\ IF due = {}
              THEN gossipList' = aged /\ UNCHANGED oldGossipList
              ELSE /\ gossipList' = Without(aged, ord[n])
                   /\ oldGossipList' = With(oldGossipList, ord[n], maxTTL)
           /\ IF Cardinality(due) < 2
              THEN phase' = "pull" /\ UNCHANGED status
              ELSE status' = "crashed" /\ UNCHANGED phase
    /\ UNCHANGED <<incomingGossips, pulls, apiClientsToNotify, requests>>

(* pullRound *)

\* Pull from the peers collected since the last round, and ask for the peers
\* to pull from in the next one.
PullRound ==
    /\ status = "running" /\ phase = "pull"
    /\ out' = {[type |-> "GossipPullRequest", to |-> p] : p \in nextRoundPullPeers}
    /\ pullPeers' = nextRoundPullPeers
    /\ nextRoundPullPeers' = {}
    /\ requests' = Append(requests, Request(NoItem, degree))
    /\ phase' = "update"
    /\ UNCHANGED <<status, lists, reply, apiClientsToNotify>>

-----------------------------------------------------------------------------
(* notifyClients *)

\* The clients after being notified of the items in the sequence `news', when
\* every pointer they were given ends up pointing at `target'.
Notified(news, target) ==
    [c \in DOMAIN apiClientsToNotify |->
        LET info == apiClientsToNotify[c]
            n == Cardinality({k \in DOMAIN news :
                                dataType[news[k]] \in info.notifyDataTypes})
            ids == {(info.nextAvailableID + k) % IDSpace : k \in 0..(n - 1)}
        IN  [notifyDataTypes |-> info.notifyDataTypes,
             validationMap |->
                [id \in DOMAIN info.validationMap \cup ids |->
                    IF id \in ids THEN target ELSE info.validationMap[id]],
             nextAvailableID |-> (info.nextAvailableID + n) % IDSpace]]

\* The clients to notify of the k-th item of `news', and the ID each is given.
Interested(news, k) ==
    {c \in DOMAIN apiClientsToNotify :
        dataType[news[k]] \in apiClientsToNotify[c].notifyDataTypes}

NotificationID(news, k, c) ==
    (apiClientsToNotify[c].nextAvailableID
        + Cardinality({j \in 1..(k - 1) : c \in Interested(news, j)})) % IDSpace

\* The notifications; read[<<k, c>>] is the item client c's endpoint finds
\* behind the pointer when it writes the k-th notification out.
Notifications(news, read) ==
    {[type |-> "GossipNotification", who |-> p[2], item |-> read[p],
      id |-> NotificationID(news, p[1], p[2])] : p \in DOMAIN read}

NotificationSlots(news) ==
    {p \in (DOMAIN news) \X Client : p[2] \in Interested(news, p[1])}

-----------------------------------------------------------------------------
(* updateRound *)

\* The incoming items that are neither held nor remembered as old.
NewItems == DOMAIN incomingGossips \ (DOMAIN gossipList \cup DOMAIN oldGossipList)

\* The part of the order `news' the gossip list still has room for.
Admitted(news) ==
    {k \in DOMAIN news : Cardinality(DOMAIN gossipList) + k <= cacheSize}

\* A fault: the threshold is passed by one before the item leaves state B.
ApplyMedianRuleLate(info) ==
    IF info.state = StateB /\ info.medianRule > 0
    THEN IF info.counter = bMax
         THEN Standing(info, StateC, 0, 0)
         ELSE Standing(info, StateB, Byte(info.counter + 1), 0)
    ELSE IF info.state = StateB THEN Standing(info, StateB, info.counter, 0) ELSE info

\* The median rule: a B item most of whose incoming copies were at least as
\* far counts up, and becomes C on reaching bMax exactly.
ApplyMedianRule(info) ==
    IF info.state # StateB THEN info
    ELSE IF info.medianRule > 0
         THEN IF Byte(info.counter + 1) = bMax
              THEN Standing(info, StateC, 0, 0)
              ELSE Standing(info, StateB, Byte(info.counter + 1), 0)
         ELSE Standing(info, StateB, info.counter, 0)

\* What an incoming item becomes when it is added, and how many peers are
\* asked for on its behalf.
AddedInfo(inc) == NewInfo(inc.state, IF inc.state = StateB THEN 1 ELSE 0, maxTTL)
AddedNum(inc) == degree * (IF inc.state = StateB THEN maxTTL ELSE cMax)

\* The items visited: `news' is the order among the new ones, `last' the item
\* visited last of all.  The request made for a new item, its notification and
\* its validation entry all carry the pointer to the loop variable, so the
\* Central controller's answers will name `last'.
UpdateRound ==
    /\ status = "running" /\ phase = "update"
    /\ \E news \in Orders(NewItems) :
       \E last \in (IF DOMAIN incomingGossips = {} THEN {NoItem} ELSE DOMAIN incomingGossips) :
       \E read \in [NotificationSlots(news) -> Item] :
       LET n == Cardinality(NewItems)
           added == {news[k] : k \in Admitted(news)}
           fresh == {i \in DOMAIN incomingGossips : i \notin DOMAIN oldGossipList}
       IN  /\ last \in NewItems => last = news[n]
           /\ \A p \in NotificationSlots(news) :
                read[p] \in FromOn(news, p[1])
                           \cup (IF news[p[1]] = last THEN {}
                                ELSE DOMAIN incomingGossips \ NewItems)
           /\ gossipList' =
                [i \in DOMAIN gossipList \cup added |->
                    ApplyMedianRule(
                        IF i \in added THEN AddedInfo(incomingGossips[i])
                        ELSE IF i \in fresh
                             THEN UpdateItemInfo(gossipList[i], incomingGossips[i])
                        ELSE gossipList[i])]
           /\ requests' = requests \o
                [k \in 1..Cardinality(added) |->
                    Request(last, AddedNum(incomingGossips[news[k]]))]
           /\ apiClientsToNotify' = Notified(news, last)
           /\ out' = Notifications(news, read)
    /\ incomingGossips' = EmptyMap
    /\ phase' = "old"
    /\ UNCHANGED <<status, oldGossipList, pulls>>

(* updateOldGossipsRound *)

\* Every remembered item ages; however many are due, one item is forgotten,
\* the one visited last.
UpdateOldGossipsRound ==
    /\ status = "running" /\ phase = "old"
    /\ LET aged == [i \in DOMAIN oldGossipList |-> Byte(oldGossipList[i] - 1)]
       IN  IF \E i \in DOMAIN aged : aged[i] = 0
           THEN \E last \in DOMAIN aged : oldGossipList' = Without(aged, last)
           ELSE oldGossipList' = aged
    /\ phase' = "idle"
    /\ out' = {}
    /\ UNCHANGED <<status, gossipList, incomingGossips, pulls, apiClientsToNotify, requests>>

-----------------------------------------------------------------------------
(* Messages from the Central controller *)

\* The Central controller's answer: at most num different peers of its view,
\* in a random order.
PeerLists(num) ==
    {f \in UNION {[1..n -> Peer] : n \in 0..Cardinality(Peer)} :
        /\ Len(f) <= num
        /\ \A a, b \in DOMAIN f : f[a] = f[b] => a = b}

\* The answer to the oldest peer list request arrives.  Peers nobody needs any
\* more are released.
RandomPeerListReplyHandler ==
    /\ Idle
    /\ requests # <<>>
    /\ LET related == Head(requests).related
       IN  \E peers \in PeerLists(Head(requests).num) :
           \/ /\ related = NoItem
              /\ nextRoundPullPeers' =
                    nextRoundPullPeers \cup {peers[k] : k \in DOMAIN peers}
              /\ out' = {}
              /\ UNCHANGED gossipList
           \/ /\ related \in DOMAIN gossipList
              /\ gossipList' = [gossipList EXCEPT ![related].peerList = peers]
              /\ out' = {}
              /\ UNCHANGED nextRoundPullPeers
           \/ /\ related \notin DOMAIN gossipList \cup {NoItem}
              /\ out' = {Release(peers)}
              /\ UNCHANGED <<gossipList, nextRoundPullPeers>>
    /\ requests' = Tail(requests)
    /\ UNCHANGED <<status, phase, oldGossipList, incomingGossips, pullPeers, reply,
                   apiClientsToNotify>>

\* Faults: an announced item is looked up in one of the two lists only.
KnownIfHeld(item) == item \in DOMAIN gossipList
KnownIfOld(item) == item \in DOMAIN oldGossipList

Known(item) == item \in DOMAIN gossipList \cup DOMAIN oldGossipList

\* An API client announces an item.  Clients are notified of it first, known
\* or not; then the item is added if there is room and it is not known.
AnnounceHandler(item, annoTTL) ==
    LET ttl == IF annoTTL = 0 \/ annoTTL > maxTTL THEN maxTTL ELSE annoTTL
    IN  /\ Idle
        /\ apiClientsToNotify' = Notified(<<item>>, item)
        /\ out' = Notifications(<<item>>, [p \in NotificationSlots(<<item>>) |-> item])
        /\ IF HasRoom(gossipList) /\ ~Known(item)
           THEN /\ gossipList' = With(gossipList, item, NewInfo(StateB, 1, ttl))
                /\ requests' = Append(requests, Request(item, degree * ttl))
           ELSE UNCHANGED <<gossipList, requests>>
        /\ UNCHANGED <<status, phase, oldGossipList, incomingGossips, pulls>>

\* A client registers, or adds a data type to those it is registered for.
NotifyHandler(client, type) ==
    /\ Idle
    /\ apiClientsToNotify' =
        IF client \in DOMAIN apiClientsToNotify
        THEN [apiClientsToNotify EXCEPT ![client].notifyDataTypes = @ \cup {type}]
        ELSE With(apiClientsToNotify, client,
                  [notifyDataTypes |-> {type}, validationMap |-> EmptyMap,
                   nextAvailableID |-> 0])
    /\ out' = {}
    /\ UNCHANGED <<status, phase, lists, pulls, requests>>

\* A client's endpoint is gone.
UnnotifyHandler(client) ==
    /\ Idle
    /\ apiClientsToNotify' = Without(apiClientsToNotify, client)
    /\ out' = {}
    /\ UNCHANGED <<status, phase, lists, pulls, requests>>

\* A fault: an item a client found invalid is dropped but not remembered.
RejectForgetfully(item) ==
    /\ gossipList' = Without(gossipList, item)
    /\ incomingGossips' = Without(incomingGossips, item)
    /\ oldGossipList' = oldGossipList

\* An item a client found invalid is retired at once.  Its peers are not
\* released.
Reject(item) ==
    /\ gossipList' = Without(gossipList, item)
    /\ incomingGossips' = Without(incomingGossips, item)
    /\ oldGossipList' = With(oldGossipList, item, maxTTL)

\* A client answers the notification `id'; any other answer is ignored.
ValidationHandler(client, id, valid) ==
    /\ Idle
    /\ client \in DOMAIN apiClientsToNotify
    /\ id \in DOMAIN apiClientsToNotify[client].validationMap
    /\ IF valid
       THEN UNCHANGED lists
       ELSE Reject(apiClientsToNotify[client].validationMap[id])
    /\ apiClientsToNotify' = [apiClientsToNotify EXCEPT
                                ![client].validationMap = Without(@, id)]
    /\ out' = {}
    /\ UNCHANGED <<status, phase, pulls, requests>>

-----------------------------------------------------------------------------
(* Gossip from remote peers *)

\* The extended items a peer running this code sends: it pushes what its
\* gossip list holds.
Extended ==
    [item : Item, state : {StateB}, counter : 1..bMax]
        \cup [item : Item, state : {StateC}, counter : 0..cMax]

\* An item is accepted below the threshold of its state only; what is kept of
\* a C item does not include its counter.
Acceptable(ext) ==
    \/ ext.state = StateB /\ ext.counter < bMax
    \/ ext.state = StateC /\ ext.counter < cMax

Incoming(ext) ==
    [state |-> ext.state, counter |-> IF ext.state = StateB THEN ext.counter ELSE 0]

\* Whether an incoming item is to be stored over what is there.
Supersedes(ext) ==
    /\ Acceptable(ext)
    /\ ext.item \in DOMAIN incomingGossips =>
            Cmp(incomingGossips[ext.item], Incoming(ext)) < 0

CheckAndAddIncomingGossip(ext) ==
    incomingGossips' =
        IF Supersedes(ext)
        THEN With(incomingGossips, ext.item, Incoming(ext))
        ELSE incomingGossips

IncomingPushHandler(ext) ==
    /\ Idle
    /\ HasRoom(incomingGossips)
    /\ CheckAndAddIncomingGossip(ext)
    /\ out' = {}
    /\ UNCHANGED <<status, phase, gossipList, oldGossipList, pulls,
                   apiClientsToNotify, requests>>

\* A peer pulls.  The pointers in the list all point at the item visited last.
IncomingPullRequestHandler(from) ==
    /\ Idle
    /\ \E last \in (IF DOMAIN gossipList = {} THEN {NoItem} ELSE DOMAIN gossipList) :
        out' = {[type |-> "GossipPullReply", to |-> from,
                 itemList |-> {[item |-> last, state |-> gossipList[i].state,
                                counter |-> gossipList[i].counter] :
                                    i \in DOMAIN gossipList}]}
    /\ UNCHANGED <<status, phase, lists, pulls, apiClientsToNotify, requests>>

\* A pull reply of `n' items arrives from a peer that was asked for one.
IncomingPullReplyHandler(from, n) ==
    /\ Idle
    /\ from \in pullPeers
    /\ reply' = [from |-> from, left |-> n,
                 upTo |-> cacheSize - Cardinality(DOMAIN incomingGossips)]
    /\ phase' = "reply"
    /\ out' = {}
    /\ UNCHANGED <<status, lists, nextRoundPullPeers, pullPeers, apiClientsToNotify,
                   requests>>

\* One turn of its loop; only an item that was not there counts against upTo.
PullReplyItem(ext) ==
    /\ status = "running" /\ phase = "reply"
    /\ reply.left > 0 /\ reply.upTo > 0
    /\ CheckAndAddIncomingGossip(ext)
    /\ reply' = [reply EXCEPT !.left = @ - 1,
                    !.upTo = IF Acceptable(ext) /\ ext.item \notin DOMAIN incomingGossips
                             THEN @ - 1 ELSE @]
    /\ UNCHANGED <<status, phase, gossipList, oldGossipList, nextRoundPullPeers,
                   pullPeers, apiClientsToNotify, requests, out>>

\* The loop is over: a peer's reply is used once.
PullReplyDone ==
    /\ status = "running" /\ phase = "reply"
    /\ reply.left = 0 \/ reply.upTo = 0
    /\ pullPeers' = pullPeers \ {reply.from}
    /\ reply' = NoReply
    /\ phase' = "idle"
    /\ UNCHANGED <<status, lists, nextRoundPullPeers, apiClientsToNotify, requests, out>>

\* The input queue is drained and the goroutine returns.
CloseHandler ==
    /\ Idle
    /\ status' = "closed"
    /\ out' = {[type |-> "GossiperClosed"]}
    /\ UNCHANGED <<phase, lists, pulls, apiClientsToNotify, requests>>

-----------------------------------------------------------------------------
(* The specification *)

GossipRound ==
    PushRound \/ PullRound \/ UpdateRound \/ UpdateOldGossipsRound

\* The steps that bring an item to the node.
Arrival ==
    \/ \E item \in Item, ttl \in {0, 1, Byte(maxTTL + 1)} : AnnounceHandler(item, ttl)
    \/ \E ext \in Extended : IncomingPushHandler(ext) \/ PullReplyItem(ext)

Next ==
    \/ GossipRound
    \/ Arrival
    \/ RandomPeerListReplyHandler
    \/ \E c \in Client, t \in DataType : NotifyHandler(c, t)
    \/ \E c \in DOMAIN apiClientsToNotify : UnnotifyHandler(c)
    \/ \E c \in Client, id \in 0..(IDSpace - 1), v \in BOOLEAN : ValidationHandler(c, id, v)
    \/ \E p \in Peer : IncomingPullRequestHandler(p)
    \/ \E p \in Peer, n \in 0..MaxReply : IncomingPullReplyHandler(p, n)
    \/ PullReplyDone
    \/ CloseHandler

Spec == Init /\ [][Next]_vars

\* The round ticker keeps firing, a started loop runs on, and the Central
\* controller answers every peer list request.
FairSpec ==
    /\ Spec
    /\ WF_vars(GossipRound)
    /\ WF_vars(PullReplyDone)
    /\ WF_vars(\E ext \in Extended : PullReplyItem(ext))
    /\ WF_vars(RandomPeerListReplyHandler)

-----------------------------------------------------------------------------
(* Properties *)

Info ==
    [state : {StateB, StateC}, counter : 0..(ByteSize - 1), ttl : 0..(ByteSize - 1),
     medianRule : Int, peerList : Seq(Peer)]

ClientInfo ==
    [notifyDataTypes : SUBSET DataType,
     validationMap : UNION {[ids -> Item] : ids \in SUBSET (0..(IDSpace - 1))},
     nextAvailableID : 0..(IDSpace - 1)]

HotTypeOK ==
    /\ DOMAIN gossipList \subseteq Item
    /\ \A i \in DOMAIN gossipList : gossipList[i] \in Info

OldTypeOK ==
    /\ DOMAIN oldGossipList \subseteq Item
    /\ \A i \in DOMAIN oldGossipList : oldGossipList[i] \in 0..(ByteSize - 1)

IncomingTypeOK ==
    /\ DOMAIN incomingGossips \subseteq Item
    /\ \A i \in DOMAIN incomingGossips :
            incomingGossips[i] \in [state : {StateB, StateC}, counter : 0..(ByteSize - 1)]

ClientsTypeOK ==
    /\ DOMAIN apiClientsToNotify \subseteq Client
    /\ \A c \in DOMAIN apiClientsToNotify : apiClientsToNotify[c] \in ClientInfo

\* The values each variable of the Gossiper takes.
TypeOK ==
    /\ status \in {"running", "crashed", "closed"}
    /\ phase \in {"idle", "pull", "update", "old", "reply"}
    /\ HotTypeOK
    /\ OldTypeOK
    /\ IncomingTypeOK
    /\ ClientsTypeOK
    /\ nextRoundPullPeers \subseteq Peer
    /\ pullPeers \subseteq Peer
    /\ requests \in Seq([related : Item \cup {NoItem}, num : Nat])
    /\ reply \in [from : Peer \cup {NoItem}, left : Nat, upTo : Int]

\* An item is never both hot and old: one that was retired, or that a client
\* rejected, is not gossiped again while the node remembers it.
ListsDisjoint == DOMAIN gossipList \cap DOMAIN oldGossipList = {}

\* Neither the hot items nor the items waiting for the round ever outgrow the
\* configured cache size, whichever way they come in.
CacheBounded ==
    /\ Cardinality(DOMAIN gossipList) <= cacheSize
    /\ Cardinality(DOMAIN incomingGossips) <= cacheSize

\* The threshold of state B is met exactly: it is tested with ==, and no item
\* is ever beyond it while still in state B.
BCounterBelowMax ==
    \A i \in DOMAIN gossipList :
        gossipList[i].state = StateB => gossipList[i].counter \in 1..(bMax - 1)

\* The votes on the median rule are settled within the round that counts them:
\* none is left for the next one.
MedianRuleSettled ==
    \A i \in DOMAIN gossipList : gossipList[i].medianRule = 0

\* gossiper.go:280-287: the median rule moves every item on in time and starts
\* each round from nothing.
MedianRuleKept == BCounterBelowMax /\ MedianRuleSettled

\* An item only moves forward, both while it is hot and while it waits for the
\* round: B before C, and a growing counter in each, whatever copies arrive in
\* whatever order (for as long as the C counter does not wrap around).
StatesOnlyAdvance ==
    [][/\ \A i \in DOMAIN gossipList \cap DOMAIN gossipList' :
            \/ Cmp(gossipList[i], gossipList'[i]) <= 0
            \/ gossipList[i].state = StateC /\ gossipList[i].counter = ByteSize - 1
                    /\ gossipList'[i].state = StateC
       /\ \A i \in DOMAIN incomingGossips \cap DOMAIN incomingGossips' :
            Cmp(incomingGossips[i], incomingGossips'[i]) <= 0]_vars

\* An item stops being hot only by becoming old, with its full time to be
\* remembered ahead of it: no handler loses one.
RetiredIsRemembered ==
    [][\A i \in DOMAIN gossipList \ DOMAIN gossipList' :
            i \in DOMAIN oldGossipList' /\ oldGossipList'[i] = maxTTL]_vars

\* Once no more gossip arrives the node falls silent: every item is retired and
\* in the end forgotten, unless a round crashes first.
GossipDiesOut ==
    <>[][~Arrival]_vars =>
        <>[](status # "running" \/ DOMAIN gossipList \cup DOMAIN oldGossipList = {})

-----------------------------------------------------------------------------
(* What comments of the code say, and the code does not do *)

\* gossiper.go:169, "Remove the items to be removed into oldGossipList": however
\* many items are due in one round, the push round does that and goes on.
RoundDoesNotPanic == status # "crashed"
=============================================================================
