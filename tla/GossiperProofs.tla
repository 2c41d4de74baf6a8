--------------------------- MODULE GossiperProofs ---------------------------
(***************************************************************************)
(* Theorems about Gossiper, for any number of items, peers and clients and *)
(* any configuration: its variables keep their types, the hot and the old  *)
(* items are disjoint, a retired item is remembered, the cache keeps its   *)
(* size, and items only move forward through the states of the median      *)
(* counter.                                                                *)
(***************************************************************************)
EXTENDS Gossiper, FiniteSetTheorems, TLAPS

USE ConfigAssumption

Bytes == 0..(ByteSize - 1)

-----------------------------------------------------------------------------
(* Lemmas about the operators *)

\* uint8 arithmetic stays within a byte.
LEMMA ByteInRange ==
    ASSUME NEW n \in Int
    PROVE  Byte(n) \in 0..(ByteSize - 1)
BY DEF Byte

\* Ageing an item gives an item.
LEMMA AgeType ==
    ASSUME NEW info \in Info
    PROVE  Age(info) \in Info
<1>1. info.ttl - 1 \in Int /\ info.counter + 1 \in Int
  BY DEF Info
<1>2. Byte(info.ttl - 1) \in Bytes /\ Byte(info.counter + 1) \in Bytes
  BY <1>1, ByteInRange DEF Bytes
<1> QED
  BY <1>2 DEF Age, Info, Bytes, StateB, StateC

\* An entry as the round and the announcement add it is an item.
LEMMA NewInfoType ==
    ASSUME NEW st \in {StateB, StateC}, NEW k \in {0, 1}, NEW t \in 0..maxTTL
    PROVE  NewInfo(st, k, t) \in Info
BY DEF NewInfo, Info

\* An item updated from an incoming copy, and then by the rule, is an item.
LEMMA UpdateType ==
    ASSUME NEW info \in Info, NEW inc
    PROVE  UpdateItemInfo(info, inc) \in Info
BY DEF UpdateItemInfo, Standing, Info, StateB, StateC

LEMMA MedianRuleType ==
    ASSUME NEW info \in Info
    PROVE  ApplyMedianRule(info) \in Info
<1>1. info.counter + 1 \in Int
  BY DEF Info
<1>2. Byte(info.counter + 1) \in 0..(ByteSize - 1)
  BY <1>1, ByteInRange
<1> QED
  BY <1>2 DEF ApplyMedianRule, Standing, Info, StateB, StateC

\* The last item of an order of a non-empty finite set is one of its members.
LEMMA LastOfOrder ==
    ASSUME NEW S, IsFiniteSet(S), S # {}, NEW ord \in Orders(S)
    PROVE  Cardinality(S) \in 1..Cardinality(S) /\ ord[Cardinality(S)] \in S
<1>1. Cardinality(S) \in Nat /\ Cardinality(S) # 0
  BY FS_CardinalityType, FS_EmptySet
<1> QED
  BY <1>1 DEF Orders

-----------------------------------------------------------------------------
(* Type correctness *)

\* What an answer of the Central controller is.
LEMMA PeerListsType ==
    ASSUME NEW num, NEW peers \in PeerLists(num)
    PROVE  peers \in Seq(Peer) /\ \A k \in DOMAIN peers : peers[k] \in Peer
BY DEF PeerLists

\* Any map from IDs to items will do as the validation map of a client.
LEMMA ClientInfoType ==
    ASSUME NEW types \in SUBSET DataType, NEW next \in 0..(IDSpace - 1),
           NEW ids \in SUBSET (0..(IDSpace - 1)), NEW map \in [ids -> Item]
    PROVE  [notifyDataTypes |-> types, validationMap |-> map, nextAvailableID |-> next]
                \in ClientInfo
<1>1. map \in UNION {[is -> Item] : is \in SUBSET (0..(IDSpace - 1))}
  BY Zenon
<1> QED
  BY <1>1 DEF ClientInfo

\* Notifying clients leaves well-formed clients, provided the pointer recorded
\* for a notification is an item.
LEMMA NotifiedType ==
    ASSUME NEW news, NEW target,
           ClientsTypeOK, apiClientsToNotify' = Notified(news, target),
           NEW len \in Nat, DOMAIN news = 1..len,
           target \in Item \/ DOMAIN news = {}
    PROVE  ClientsTypeOK'
<1>1. DOMAIN Notified(news, target) = DOMAIN apiClientsToNotify
  BY DEF Notified
<1> SUFFICES ASSUME NEW c \in DOMAIN apiClientsToNotify
             PROVE  Notified(news, target)[c] \in ClientInfo
  BY <1>1 DEF ClientsTypeOK
<1> DEFINE info == apiClientsToNotify[c]
           wanted == {k \in DOMAIN news : dataType[news[k]] \in info.notifyDataTypes}
           n == Cardinality(wanted)
           ids == {(info.nextAvailableID + k) % IDSpace : k \in 0..(n - 1)}
           vm == [id \in DOMAIN info.validationMap \cup ids |->
                    IF id \in ids THEN target ELSE info.validationMap[id]]
           new == [notifyDataTypes |-> info.notifyDataTypes, validationMap |-> vm,
                   nextAvailableID |-> (info.nextAvailableID + n) % IDSpace]
<1>2. Notified(news, target)[c] = new
  BY DEF Notified
<1>3. /\ info.notifyDataTypes \subseteq DataType
      /\ DOMAIN info.validationMap \subseteq 0..(IDSpace - 1)
      /\ \A id \in DOMAIN info.validationMap : info.validationMap[id] \in Item
      /\ info.nextAvailableID \in 0..(IDSpace - 1)
  <2>1. info \in ClientInfo
    BY DEF ClientsTypeOK
  <2>2. PICK is \in SUBSET (0..(IDSpace - 1)) : info.validationMap \in [is -> Item]
    BY <2>1 DEF ClientInfo
  <2>3. info.notifyDataTypes \subseteq DataType /\ info.nextAvailableID \in 0..(IDSpace - 1)
    BY <2>1 DEF ClientInfo
  <2> QED BY <2>2, <2>3
<1>4. IsFiniteSet(wanted) /\ n \in Nat
  <2>1. IsFiniteSet(1..len)
    BY FS_Interval
  <2>2. IsFiniteSet(DOMAIN news) /\ wanted \subseteq DOMAIN news
    BY <2>1
  <2>3. IsFiniteSet(wanted)
    BY <2>2, FS_Subset
  <2> QED BY <2>3, FS_CardinalityType
<1>5. DOMAIN news = {} => n = 0
  BY FS_EmptySet
<1>6. ids \subseteq 0..(IDSpace - 1)
  <2> HIDE DEF n
  <2> QED BY <1>3, <1>4
<1>7. ids # {} => target \in Item
  <2> HIDE DEF n
  <2> QED BY <1>4, <1>5
<1> HIDE DEF ids
<1>8. /\ DOMAIN info.validationMap \cup ids \in SUBSET (0..(IDSpace - 1))
      /\ vm \in [DOMAIN info.validationMap \cup ids -> Item]
  BY <1>3, <1>6, <1>7
<1> HIDE DEF n, vm
<1>9. (info.nextAvailableID + n) % IDSpace \in 0..(IDSpace - 1)
  <2>1. info.nextAvailableID + n \in Nat /\ IDSpace \in Nat \ {0}
    BY <1>3, <1>4 DEF ClientInfo
  <2> HIDE DEF ClientInfo
  <2>2. \A a \in Nat, b \in Nat \ {0} : a % b \in 0..(b - 1)
    OBVIOUS
  <2> QED BY <2>1, <2>2
<1>10. new \in ClientInfo
  <2> DEFINE types == info.notifyDataTypes
             next == (info.nextAvailableID + n) % IDSpace
  <2>1. types \in SUBSET DataType /\ next \in 0..(IDSpace - 1)
    BY <1>3, <1>9
  <2>2. new = [notifyDataTypes |-> types, validationMap |-> vm, nextAvailableID |-> next]
    OBVIOUS
  <2> HIDE DEF types, next, info
  <2> QED BY <1>8, <2>1, <2>2, ClientInfoType
<1> QED
  BY <1>2, <1>10

LEMMA InitType == Init => TypeOK
BY DEF Init, TypeOK, HotTypeOK, OldTypeOK, IncomingTypeOK, ClientsTypeOK, EmptyMap, NoReply

\* Retiring an item: it leaves the hot items for the old ones.
LEMMA RetireType ==
    ASSUME NEW list, NEW item \in Item,
           DOMAIN list \subseteq Item, \A i \in DOMAIN list : list[i] \in Info, OldTypeOK,
           gossipList' = Without(list, item),
           oldGossipList' = With(oldGossipList, item, maxTTL)
    PROVE  HotTypeOK' /\ OldTypeOK'
BY DEF HotTypeOK, OldTypeOK, With, Without

LEMMA PushRoundType == TypeOK /\ PushRound => TypeOK'
<1> SUFFICES ASSUME TypeOK, PushRound PROVE TypeOK'
  OBVIOUS
<1> DEFINE held == DOMAIN gossipList
           n == Cardinality(held)
           aged == [i \in held |-> Age(gossipList[i])]
           due == {i \in held : Due(aged[i])}
<1>1. PICK ord \in Orders(held) :
        /\ IF due = {}
           THEN gossipList' = aged /\ UNCHANGED oldGossipList
           ELSE /\ gossipList' = Without(aged, ord[n])
                /\ oldGossipList' = With(oldGossipList, ord[n], maxTTL)
        /\ IF Cardinality(due) < 2
           THEN phase' = "pull" /\ UNCHANGED status
           ELSE status' = "crashed" /\ UNCHANGED phase
  BY Zenon DEF PushRound
<1>2. held \subseteq Item /\ \A i \in held : aged[i] \in Info
  BY AgeType DEF TypeOK, HotTypeOK
<1>3. due # {} => ord[n] \in Item
  <2>1. IsFiniteSet(held)
    BY <1>2, ItemAssumption, FS_Subset
  <2> QED BY <1>2, <2>1, LastOfOrder
<1>4. DOMAIN aged = held
  OBVIOUS
<1> HIDE DEF aged, due, n
<1>5. HotTypeOK' /\ OldTypeOK'
  <2>1. CASE due = {}
    BY <1>1, <1>2, <1>4, <2>1 DEF TypeOK, HotTypeOK, OldTypeOK
  <2>2. CASE due # {}
    BY <1>1, <1>2, <1>3, <1>4, <2>2, RetireType DEF TypeOK
  <2> QED BY <2>1, <2>2
<1>6. /\ status' \in {"running", "crashed", "closed"}
      /\ phase' \in {"idle", "pull", "update", "old", "reply"}
  BY <1>1 DEF TypeOK
<1>7. UNCHANGED <<incomingGossips, pulls, apiClientsToNotify, requests>>
  BY DEF PushRound
<1> QED
  BY <1>5, <1>6, <1>7 DEF TypeOK, IncomingTypeOK, ClientsTypeOK, pulls

LEMMA PullRoundType == TypeOK /\ PullRound => TypeOK'
<1> SUFFICES ASSUME TypeOK, PullRound PROVE TypeOK'
  OBVIOUS
<1>1. Request(NoItem, degree) \in [related : Item \cup {NoItem}, num : Nat]
  BY DEF Request
<1>2. requests' \in Seq([related : Item \cup {NoItem}, num : Nat])
  BY <1>1 DEF TypeOK, PullRound
<1> QED
  BY <1>2 DEF TypeOK, HotTypeOK, OldTypeOK, IncomingTypeOK, ClientsTypeOK, PullRound, lists

\* The items a round adds come from the incoming ones.
LEMMA AddedItems ==
    ASSUME TypeOK, NEW news \in Orders(NewItems)
    PROVE  /\ Cardinality(NewItems) \in Nat
           /\ news \in [1..Cardinality(NewItems) -> NewItems]
           /\ NewItems \subseteq DOMAIN incomingGossips
           /\ {news[k] : k \in Admitted(news)} \subseteq NewItems
           /\ DOMAIN incomingGossips = {} => Cardinality(NewItems) = 0
<1>1. NewItems \subseteq DOMAIN incomingGossips
  BY DEF NewItems
<1>2. Cardinality(NewItems) \in Nat
  BY <1>1, ItemAssumption, FS_Subset, FS_CardinalityType DEF TypeOK, IncomingTypeOK
<1>3. news \in [1..Cardinality(NewItems) -> NewItems]
  BY DEF Orders
<1>4. {news[k] : k \in Admitted(news)} \subseteq NewItems
  BY <1>3 DEF Admitted
<1> QED
  BY <1>1, <1>2, <1>3, <1>4, FS_EmptySet

LEMMA UpdateRoundType == TypeOK /\ UpdateRound => TypeOK'
<1> SUFFICES ASSUME TypeOK, UpdateRound PROVE TypeOK'
  OBVIOUS
<1> DEFINE added(news) == {news[k] : k \in Admitted(news)}
           fresh == {i \in DOMAIN incomingGossips : i \notin DOMAIN oldGossipList}
           incomingItem(news, i) ==
               IF i \in added(news) THEN AddedInfo(incomingGossips[i])
               ELSE IF i \in fresh THEN UpdateItemInfo(gossipList[i], incomingGossips[i])
               ELSE gossipList[i]
<1>1. PICK news \in Orders(NewItems),
           last \in (IF DOMAIN incomingGossips = {} THEN {NoItem}
                    ELSE DOMAIN incomingGossips) :
        /\ gossipList' = [i \in DOMAIN gossipList \cup added(news) |->
                            ApplyMedianRule(incomingItem(news, i))]
        /\ requests' = requests \o
                [k \in 1..Cardinality(added(news)) |->
                    Request(last, AddedNum(incomingGossips[news[k]]))]
        /\ apiClientsToNotify' = Notified(news, last)
  BY Zenon DEF UpdateRound
<1>2. /\ Cardinality(NewItems) \in Nat /\ DOMAIN news = 1..Cardinality(NewItems)
      /\ NewItems \subseteq DOMAIN incomingGossips
      /\ added(news) \subseteq NewItems
      /\ DOMAIN incomingGossips = {} => DOMAIN news = {}
  BY AddedItems
<1>3. DOMAIN incomingGossips \subseteq Item /\ last \in Item \cup {NoItem}
  BY DEF TypeOK, IncomingTypeOK
<1>4. last \in Item \/ DOMAIN news = {}
  BY <1>2, <1>3
<1>5. ClientsTypeOK'
  BY <1>1, <1>2, <1>4, NotifiedType DEF TypeOK
<1>6. ASSUME NEW i \in DOMAIN gossipList \cup added(news)
      PROVE  ApplyMedianRule(incomingItem(news, i)) \in Info
  <2>1. CASE i \in added(news)
    <3>1. incomingGossips[i].state \in {StateB, StateC}
      BY <1>2, <2>1 DEF TypeOK, IncomingTypeOK
    <3>2. AddedInfo(incomingGossips[i]) \in Info
      BY <3>1, NewInfoType DEF AddedInfo
    <3> QED BY <2>1, <3>2, MedianRuleType
  <2>2. CASE i \notin added(news)
    <3>1. gossipList[i] \in Info
      BY <2>2 DEF TypeOK, HotTypeOK
    <3>2. UpdateItemInfo(gossipList[i], incomingGossips[i]) \in Info
      BY <3>1, UpdateType
    <3> QED BY <2>2, <3>1, <3>2, MedianRuleType
  <2> QED BY <2>1, <2>2
<1>7. HotTypeOK'
  <2> HIDE DEF added, incomingItem
  <2> QED BY <1>1, <1>2, <1>3, <1>6 DEF TypeOK, HotTypeOK
<1>8. requests' \in Seq([related : Item \cup {NoItem}, num : Nat])
  <2> DEFINE m == Cardinality(added(news))
             asked == [k \in 1..m |-> Request(last, AddedNum(incomingGossips[news[k]]))]
  <2>1. m \in Nat
    BY <1>2, <1>3, ItemAssumption, FS_Subset, FS_CardinalityType
  <2>2. \A i : AddedNum(incomingGossips[i]) \in Nat
    BY DEF AddedNum
  <2>3. asked \in Seq([related : Item \cup {NoItem}, num : Nat])
    <3> HIDE DEF m
    <3> QED BY <1>3, <2>1, <2>2 DEF Request
  <2>4. requests' = requests \o asked
    BY <1>1
  <2> HIDE DEF asked
  <2> QED BY <2>3, <2>4 DEF TypeOK
<1>9. /\ incomingGossips' = EmptyMap /\ phase' = "old"
      /\ UNCHANGED <<status, oldGossipList, pulls>>
  BY DEF UpdateRound
<1> QED
  BY <1>5, <1>7, <1>8, <1>9 DEF TypeOK, OldTypeOK, IncomingTypeOK, pulls, EmptyMap

LEMMA UpdateOldGossipsRoundType == TypeOK /\ UpdateOldGossipsRound => TypeOK'
<1> SUFFICES ASSUME TypeOK, UpdateOldGossipsRound PROVE TypeOK'
  OBVIOUS
<1> DEFINE aged == [i \in DOMAIN oldGossipList |-> Byte(oldGossipList[i] - 1)]
<1>1. \/ oldGossipList' = aged
      \/ \E last \in DOMAIN aged : oldGossipList' = Without(aged, last)
  BY DEF UpdateOldGossipsRound
<1>2. ASSUME NEW i \in DOMAIN oldGossipList PROVE aged[i] \in 0..(ByteSize - 1)
  <2>1. oldGossipList[i] - 1 \in Int
    BY DEF TypeOK, OldTypeOK
  <2> QED BY <2>1, ByteInRange
<1>3. DOMAIN aged = DOMAIN oldGossipList
  OBVIOUS
<1> HIDE DEF aged
<1>4. OldTypeOK'
  BY <1>1, <1>2, <1>3 DEF TypeOK, OldTypeOK, Without
<1>5. /\ phase' = "idle"
      /\ UNCHANGED <<status, gossipList, incomingGossips, pulls, apiClientsToNotify, requests>>
  BY DEF UpdateOldGossipsRound
<1> QED
  BY <1>4, <1>5 DEF TypeOK, HotTypeOK, IncomingTypeOK, ClientsTypeOK, pulls

LEMMA RandomPeerListReplyHandlerType == TypeOK /\ RandomPeerListReplyHandler => TypeOK'
<1> SUFFICES ASSUME TypeOK, RandomPeerListReplyHandler PROVE TypeOK'
  OBVIOUS
<1> DEFINE related == Head(requests).related
<1>1. PICK peers \in PeerLists(Head(requests).num) :
        \/ /\ nextRoundPullPeers' = nextRoundPullPeers \cup {peers[k] : k \in DOMAIN peers}
           /\ UNCHANGED gossipList
        \/ /\ related \in DOMAIN gossipList
           /\ gossipList' = [gossipList EXCEPT ![related].peerList = peers]
           /\ UNCHANGED nextRoundPullPeers
        \/ UNCHANGED <<gossipList, nextRoundPullPeers>>
  BY Zenon DEF RandomPeerListReplyHandler
<1> HIDE DEF related
<1>2. peers \in Seq(Peer) /\ \A k \in DOMAIN peers : peers[k] \in Peer
  BY PeerListsType
<1>3. ASSUME related \in DOMAIN gossipList,
             gossipList' = [gossipList EXCEPT ![related].peerList = peers]
      PROVE  HotTypeOK'
  <2>1. /\ DOMAIN gossipList' = DOMAIN gossipList
        /\ \A i \in DOMAIN gossipList : i # related => gossipList'[i] = gossipList[i]
        /\ gossipList'[related] = [gossipList[related] EXCEPT !.peerList = peers]
    BY <1>3
  <2>2. gossipList[related] \in Info
    BY <1>3 DEF TypeOK, HotTypeOK
  <2>3. gossipList'[related] \in Info
    BY <1>2, <2>1, <2>2 DEF Info
  <2> QED BY <2>1, <2>3 DEF TypeOK, HotTypeOK
<1>4. HotTypeOK'
  BY <1>1, <1>3 DEF TypeOK, HotTypeOK
<1>5. nextRoundPullPeers' \subseteq Peer
  BY <1>1, <1>2 DEF TypeOK
<1>6. requests' \in Seq([related : Item \cup {NoItem}, num : Nat])
  BY DEF TypeOK, RandomPeerListReplyHandler
<1> QED
  BY <1>4, <1>5, <1>6
     DEF TypeOK, OldTypeOK, IncomingTypeOK, ClientsTypeOK, RandomPeerListReplyHandler

LEMMA AnnounceHandlerType ==
    ASSUME NEW item \in Item, NEW annoTTL \in Nat, TypeOK, AnnounceHandler(item, annoTTL)
    PROVE  TypeOK'
<1> DEFINE ttl == IF annoTTL = 0 \/ annoTTL > maxTTL THEN maxTTL ELSE annoTTL
           r == Request(item, degree * ttl)
<1>1. /\ apiClientsToNotify' = Notified(<<item>>, item)
      /\ \/ /\ gossipList' = With(gossipList, item, NewInfo(StateB, 1, ttl))
            /\ requests' = Append(requests, r)
         \/ UNCHANGED <<gossipList, requests>>
      /\ UNCHANGED <<status, phase, oldGossipList, incomingGossips, pulls>>
  BY Zenon DEF AnnounceHandler
<1>2. ttl \in 0..maxTTL /\ degree * ttl \in Nat
  OBVIOUS
<1>3. r \in [related : Item \cup {NoItem}, num : Nat]
  BY <1>2 DEF Request
<1> HIDE DEF ttl, r
<1>4. NewInfo(StateB, 1, ttl) \in Info
  BY <1>2, NewInfoType
<1>5. DOMAIN <<item>> = 1..1
  OBVIOUS
<1>6. ClientsTypeOK'
  BY <1>1, <1>5, NotifiedType DEF TypeOK
<1>7. HotTypeOK'
  BY <1>1, <1>4 DEF TypeOK, HotTypeOK, With
<1>8. requests' \in Seq([related : Item \cup {NoItem}, num : Nat])
  <2>1. requests \in Seq([related : Item \cup {NoItem}, num : Nat])
    BY DEF TypeOK
  <2>2. Append(requests, r) \in Seq([related : Item \cup {NoItem}, num : Nat])
    BY <1>3, <2>1
  <2> QED BY <1>1, <2>1, <2>2
<1> QED
  BY <1>1, <1>6, <1>7, <1>8 DEF TypeOK, OldTypeOK, IncomingTypeOK, pulls

LEMMA NotifyHandlerType ==
    ASSUME NEW client \in Client, NEW type \in DataType, TypeOK, NotifyHandler(client, type)
    PROVE  TypeOK'
<1> DEFINE registered == [notifyDataTypes |-> {type}, validationMap |-> EmptyMap,
                          nextAvailableID |-> 0]
<1>1. registered \in ClientInfo
  <2>1. {} \in SUBSET (0..(IDSpace - 1)) /\ EmptyMap \in [{} -> Item]
    BY DEF EmptyMap
  <2>2. {type} \in SUBSET DataType /\ 0 \in 0..(IDSpace - 1)
    OBVIOUS
  <2> QED BY <2>1, <2>2, ClientInfoType
<1>2. ClientsTypeOK'
  <2>1. CASE client \in DOMAIN apiClientsToNotify
    <3> DEFINE info == apiClientsToNotify[client]
               new == [apiClientsToNotify EXCEPT ![client].notifyDataTypes = @ \cup {type}]
    <3>1. apiClientsToNotify' = new
      BY <2>1 DEF NotifyHandler
    <3>2. /\ DOMAIN new = DOMAIN apiClientsToNotify
          /\ \A c \in DOMAIN new : c # client => new[c] = apiClientsToNotify[c]
          /\ new[client] = [info EXCEPT !.notifyDataTypes = @ \cup {type}]
      BY <2>1
    <3>3. info \in ClientInfo
      BY <2>1 DEF TypeOK, ClientsTypeOK
    <3> HIDE DEF new, info
    <3>4. new[client] \in ClientInfo
      BY <3>2, <3>3 DEF ClientInfo
    <3> QED BY <3>1, <3>2, <3>4 DEF TypeOK, ClientsTypeOK
  <2>2. CASE client \notin DOMAIN apiClientsToNotify
    <3>1. apiClientsToNotify' = With(apiClientsToNotify, client, registered)
      BY <2>2 DEF NotifyHandler
    <3> HIDE DEF registered
    <3> QED BY <1>1, <3>1 DEF TypeOK, ClientsTypeOK, With
  <2> QED BY <2>1, <2>2
<1> QED
  BY <1>2 DEF NotifyHandler, TypeOK, HotTypeOK, OldTypeOK, IncomingTypeOK, lists, pulls

LEMMA UnnotifyHandlerType ==
    ASSUME NEW client, TypeOK, UnnotifyHandler(client)
    PROVE  TypeOK'
<1>1. ClientsTypeOK'
  BY DEF TypeOK, UnnotifyHandler, ClientsTypeOK, Without
<1> QED
  BY <1>1 DEF UnnotifyHandler, TypeOK, HotTypeOK, OldTypeOK, IncomingTypeOK, lists, pulls

\* An item in a validation map is an item, and answering leaves a client.
LEMMA AnsweredType ==
    ASSUME NEW info \in ClientInfo, NEW id \in DOMAIN info.validationMap
    PROVE  /\ info.validationMap[id] \in Item
           /\ [info EXCEPT !.validationMap = Without(@, id)] \in ClientInfo
<1> DEFINE left == DOMAIN info.validationMap \ {id}
           map == Without(info.validationMap, id)
<1>1. PICK ids \in SUBSET (0..(IDSpace - 1)) : info.validationMap \in [ids -> Item]
  BY DEF ClientInfo
<1>2. left \in SUBSET (0..(IDSpace - 1)) /\ map \in [left -> Item]
  BY <1>1 DEF Without
<1>3. info.notifyDataTypes \in SUBSET DataType /\ info.nextAvailableID \in 0..(IDSpace - 1)
  BY DEF ClientInfo
<1> HIDE DEF left, map
<1>4. [notifyDataTypes |-> info.notifyDataTypes, validationMap |-> map,
       nextAvailableID |-> info.nextAvailableID] \in ClientInfo
  BY <1>2, <1>3, ClientInfoType
<1>5. [info EXCEPT !.validationMap = map] =
        [notifyDataTypes |-> info.notifyDataTypes, validationMap |-> map,
         nextAvailableID |-> info.nextAvailableID]
  BY DEF ClientInfo
<1> QED
  BY <1>1, <1>4, <1>5 DEF map

LEMMA ValidationHandlerType ==
    ASSUME NEW client, NEW id, NEW valid, TypeOK, ValidationHandler(client, id, valid)
    PROVE  TypeOK'
<1> DEFINE info == apiClientsToNotify[client]
           item == info.validationMap[id]
           new == [apiClientsToNotify EXCEPT ![client].validationMap = Without(@, id)]
<1>1. /\ client \in DOMAIN apiClientsToNotify /\ id \in DOMAIN info.validationMap
      /\ UNCHANGED lists \/ Reject(item)
      /\ apiClientsToNotify' = new
      /\ UNCHANGED <<status, phase, pulls, requests>>
  BY DEF ValidationHandler
<1>2. info \in ClientInfo
  BY <1>1 DEF TypeOK, ClientsTypeOK
<1>3. /\ DOMAIN new = DOMAIN apiClientsToNotify
      /\ \A c \in DOMAIN new : c # client => new[c] = apiClientsToNotify[c]
      /\ new[client] = [info EXCEPT !.validationMap = Without(@, id)]
  BY <1>1
<1> HIDE DEF new, info
<1>4. item \in Item /\ new[client] \in ClientInfo
  BY <1>1, <1>2, <1>3, AnsweredType
<1> HIDE DEF item
<1>5. ClientsTypeOK'
  BY <1>1, <1>3, <1>4 DEF TypeOK, ClientsTypeOK
<1>6. HotTypeOK' /\ OldTypeOK'
  <2>1. CASE UNCHANGED lists
    BY <2>1 DEF TypeOK, HotTypeOK, OldTypeOK, lists
  <2>2. CASE Reject(item)
    BY <1>4, <2>2, RetireType DEF Reject, TypeOK, HotTypeOK
  <2> QED BY <1>1, <2>1, <2>2
<1>7. IncomingTypeOK'
  BY <1>1 DEF Reject, Without, TypeOK, IncomingTypeOK, lists
<1> QED
  BY <1>1, <1>5, <1>6, <1>7 DEF TypeOK, pulls

\* Storing an incoming item keeps the incoming items well formed.
LEMMA CheckAndAddType ==
    ASSUME NEW ext \in Extended, TypeOK, CheckAndAddIncomingGossip(ext)
    PROVE  IncomingTypeOK'
<1>1. /\ ext.item \in Item
      /\ Incoming(ext) \in [state : {StateB, StateC}, counter : 0..(ByteSize - 1)]
  BY DEF Extended, Incoming, StateB, StateC
<1> QED
  BY <1>1 DEF TypeOK, IncomingTypeOK, CheckAndAddIncomingGossip, With

LEMMA IncomingPushHandlerType ==
    ASSUME NEW ext \in Extended, TypeOK, IncomingPushHandler(ext)
    PROVE  TypeOK'
<1>1. IncomingTypeOK'
  BY CheckAndAddType DEF IncomingPushHandler
<1> QED
  BY <1>1 DEF TypeOK, IncomingPushHandler, HotTypeOK, OldTypeOK, ClientsTypeOK, pulls

LEMMA PullReplyItemType ==
    ASSUME NEW ext \in Extended, TypeOK, PullReplyItem(ext)
    PROVE  TypeOK'
<1>1. IncomingTypeOK'
  BY CheckAndAddType DEF PullReplyItem
<1>2. reply \in [from : Peer \cup {NoItem}, left : Nat, upTo : Int]
  BY DEF TypeOK
<1>3. /\ reply.left > 0
      /\ \E upTo \in {reply.upTo, reply.upTo - 1} :
            reply' = [from |-> reply.from, left |-> reply.left - 1, upTo |-> upTo]
  BY <1>2 DEF PullReplyItem
<1>4. reply' \in [from : Peer \cup {NoItem}, left : Nat, upTo : Int]
  BY <1>2, <1>3
<1> QED
  BY <1>1, <1>4 DEF TypeOK, PullReplyItem, HotTypeOK, OldTypeOK, ClientsTypeOK

LEMMA IncomingPullReplyHandlerType ==
    ASSUME NEW p \in Peer, NEW n \in 0..MaxReply, TypeOK, IncomingPullReplyHandler(p, n)
    PROVE  TypeOK'
<1>1. Cardinality(DOMAIN incomingGossips) \in Nat
  BY ItemAssumption, FS_Subset, FS_CardinalityType DEF TypeOK, IncomingTypeOK
<1> QED
  BY <1>1 DEF TypeOK, IncomingPullReplyHandler, lists, HotTypeOK, OldTypeOK, IncomingTypeOK,
              ClientsTypeOK

\* Every step preserves the types.
LEMMA NextType == TypeOK /\ [Next]_vars => TypeOK'
<1> SUFFICES ASSUME TypeOK, [Next]_vars PROVE TypeOK'
  OBVIOUS
<1> USE DEF HotTypeOK, OldTypeOK, IncomingTypeOK, ClientsTypeOK
<1>1. CASE GossipRound
  BY <1>1, PushRoundType, PullRoundType, UpdateRoundType, UpdateOldGossipsRoundType
     DEF GossipRound
<1>2. CASE Arrival
  <2>1. Byte(maxTTL + 1) \in Nat
    BY ByteInRange
  <2> QED
    BY <1>2, <2>1, AnnounceHandlerType, IncomingPushHandlerType, PullReplyItemType DEF Arrival
<1>3. CASE RandomPeerListReplyHandler
  BY <1>3, RandomPeerListReplyHandlerType
<1>4. CASE \E c \in Client, t \in DataType : NotifyHandler(c, t)
  BY <1>4, NotifyHandlerType
<1>5. CASE \E c \in DOMAIN apiClientsToNotify : UnnotifyHandler(c)
  BY <1>5, UnnotifyHandlerType
<1>6. CASE \E c \in Client, id \in 0..(IDSpace - 1), v \in BOOLEAN : ValidationHandler(c, id, v)
  BY <1>6, ValidationHandlerType
<1>7. CASE \E p \in Peer : IncomingPullRequestHandler(p)
  BY <1>7 DEF TypeOK, IncomingPullRequestHandler, lists, pulls
<1>8. CASE \E p \in Peer, n \in 0..MaxReply : IncomingPullReplyHandler(p, n)
  BY <1>8, IncomingPullReplyHandlerType
<1>9. CASE PullReplyDone
  BY <1>9 DEF TypeOK, PullReplyDone, NoReply, lists
<1>10. CASE CloseHandler
  BY <1>10 DEF TypeOK, CloseHandler, lists, pulls
<1>11. CASE UNCHANGED vars
  BY <1>11 DEF TypeOK, vars, lists, pulls
<1> QED
  BY <1>1, <1>2, <1>3, <1>4, <1>5, <1>6, <1>7, <1>8, <1>9, <1>10, <1>11 DEF Next

\* The state of the Gossiper is well typed, whatever the number of items, peers
\* and clients and whatever the configuration.
THEOREM TypeCorrect == Spec => []TypeOK
BY InitType, NextType, PTL DEF Spec

-----------------------------------------------------------------------------
(* The lists of items *)

\* What each step may do to the hot and the old items, as far as the lists they
\* are in go: every other step leaves both lists' domains alone.
Retires(item) ==
    /\ DOMAIN gossipList' = DOMAIN gossipList \ {item}
    /\ DOMAIN oldGossipList' = DOMAIN oldGossipList \cup {item}
    /\ oldGossipList'[item] = maxTTL

Adds(items) ==
    /\ DOMAIN gossipList' = DOMAIN gossipList \cup items
    /\ items \cap (DOMAIN gossipList \cup DOMAIN oldGossipList) = {}
    /\ items # {} => Cardinality(DOMAIN gossipList') <= cacheSize
    /\ UNCHANGED oldGossipList

Forgets ==
    /\ DOMAIN gossipList' = DOMAIN gossipList
    /\ DOMAIN oldGossipList' \subseteq DOMAIN oldGossipList

LEMMA PushRoundMoves ==
    ASSUME TypeOK, PushRound
    PROVE  (\E item : Retires(item)) \/ Forgets
<1> DEFINE held == DOMAIN gossipList
           aged == [i \in held |-> Age(gossipList[i])]
           due == {i \in held : Due(aged[i])}
<1>1. PICK ord \in Orders(held) :
        IF due = {}
        THEN gossipList' = aged /\ UNCHANGED oldGossipList
        ELSE /\ gossipList' = Without(aged, ord[Cardinality(held)])
             /\ oldGossipList' = With(oldGossipList, ord[Cardinality(held)], maxTTL)
  BY Zenon DEF PushRound
<1>2. DOMAIN aged = held
  OBVIOUS
<1> HIDE DEF aged, due
<1>3. CASE due = {}
  BY <1>1, <1>2, <1>3 DEF Forgets
<1>4. CASE due # {}
  <2> DEFINE last == ord[Cardinality(held)]
  <2>1. gossipList' = Without(aged, last) /\ oldGossipList' = With(oldGossipList, last, maxTTL)
    BY <1>1, <1>4
  <2> HIDE DEF last
  <2>2. Retires(last)
    BY <1>2, <2>1 DEF Retires, With, Without
  <2> QED BY <2>2
<1> QED
  BY <1>3, <1>4

\* A round admits no more items than the list has room for.
LEMMA AdmittedFit ==
    ASSUME TypeOK, NEW news \in Orders(NewItems), Admitted(news) # {}
    PROVE  Cardinality(DOMAIN gossipList \cup {news[k] : k \in Admitted(news)}) <= cacheSize
<1> DEFINE held == DOMAIN gossipList
           h == Cardinality(held)
           A == Admitted(news)
           items == {news[k] : k \in A}
<1>1. IsFiniteSet(held) /\ h \in Nat
  BY ItemAssumption, FS_Subset, FS_CardinalityType DEF TypeOK, HotTypeOK
<1> HIDE DEF h
<1>2. Cardinality(NewItems) \in Nat /\ news \in [1..Cardinality(NewItems) -> NewItems]
  BY AddedItems
<1>3. A \subseteq 1..(cacheSize - h) /\ cacheSize - h >= 1
  BY <1>1, <1>2 DEF Admitted, h
<1>4. IsFiniteSet(A) /\ Cardinality(A) <= cacheSize - h
  <2>1. IsFiniteSet(1..(cacheSize - h)) /\ Cardinality(1..(cacheSize - h)) = cacheSize - h
    BY <1>1, <1>3, FS_Interval
  <2> QED BY <1>3, <2>1, FS_Subset
<1>5. IsFiniteSet(items) /\ Cardinality(items) <= Cardinality(A)
  <2> DEFINE visit == [k \in A |-> news[k]]
  <2>1. visit \in Surjection(A, items)
    BY DEF Surjection
  <2> QED BY <1>4, <2>1, FS_Surjection
<1> HIDE DEF A, items
<1>6. Cardinality(held \cup items) = h + Cardinality(items) - Cardinality(held \cap items)
  BY <1>1, <1>5, FS_Union DEF h
<1>7. /\ Cardinality(held \cap items) \in Nat /\ Cardinality(items) \in Nat
      /\ Cardinality(A) \in Nat
  BY <1>1, <1>4, <1>5, FS_Intersection, FS_CardinalityType
<1>8. Cardinality(held \cup items) <= cacheSize
  BY <1>1, <1>4, <1>5, <1>6, <1>7
<1> QED
  BY <1>8 DEF A, items

LEMMA UpdateRoundMoves ==
    ASSUME TypeOK, UpdateRound
    PROVE  \E items : Adds(items)
<1>1. PICK news \in Orders(NewItems) :
        DOMAIN gossipList' = DOMAIN gossipList \cup {news[k] : k \in Admitted(news)}
  BY DEF UpdateRound
<1> DEFINE items == {news[k] : k \in Admitted(news)}
<1>2. items \subseteq NewItems
  BY AddedItems
<1>3. items # {} => Cardinality(DOMAIN gossipList') <= cacheSize
  BY <1>1, AdmittedFit
<1>4. Adds(items)
  BY <1>1, <1>2, <1>3 DEF Adds, NewItems, UpdateRound
<1> QED
  BY <1>4

LEMMA NextMoves ==
    ASSUME TypeOK, [Next]_vars
    PROVE  \/ \E item : Retires(item)
           \/ \E items : Adds(items)
           \/ Forgets
<1>1. CASE PushRound
  BY <1>1, PushRoundMoves
<1>2. CASE UpdateRound
  BY <1>2, UpdateRoundMoves
<1>3. CASE PullRound
  BY <1>3 DEF PullRound, Forgets, lists
<1>4. CASE UpdateOldGossipsRound
  <2> DEFINE aged == [i \in DOMAIN oldGossipList |-> Byte(oldGossipList[i] - 1)]
  <2>1. /\ \/ oldGossipList' = aged
           \/ \E last \in DOMAIN aged : oldGossipList' = Without(aged, last)
        /\ UNCHANGED gossipList
    BY <1>4 DEF UpdateOldGossipsRound
  <2> QED BY <2>1 DEF Forgets, Without
<1>5. CASE Arrival
  <2>1. ASSUME NEW item \in Item, NEW ttl, AnnounceHandler(item, ttl)
        PROVE  (\E items : Adds(items)) \/ Forgets
    <3>1. CASE HasRoom(gossipList) /\ ~Known(item)
      <4>1. DOMAIN gossipList' = DOMAIN gossipList \cup {item} /\ UNCHANGED oldGossipList
        BY <2>1, <3>1 DEF AnnounceHandler, With
      <4>2. IsFiniteSet(DOMAIN gossipList) /\ Cardinality(DOMAIN gossipList) \in Nat
        BY ItemAssumption, FS_Subset, FS_CardinalityType DEF TypeOK, HotTypeOK
      <4>3. Cardinality(DOMAIN gossipList') <= cacheSize
        <5>1. Cardinality(DOMAIN gossipList \cup {item})
                 <= Cardinality(DOMAIN gossipList) + 1
          BY <4>2, FS_AddElement
        <5>2. Cardinality(DOMAIN gossipList \cup {item}) \in Nat
          BY <4>2, FS_AddElement, FS_CardinalityType
        <5>3. Cardinality(DOMAIN gossipList) < cacheSize
          BY <3>1 DEF HasRoom
        <5> QED BY <4>1, <4>2, <5>1, <5>2, <5>3
      <4>4. Adds({item})
        BY <3>1, <4>1, <4>3 DEF Known, Adds
      <4> QED BY <4>4
    <3>2. CASE ~(HasRoom(gossipList) /\ ~Known(item))
      BY <2>1, <3>2 DEF AnnounceHandler, Forgets
    <3> QED BY <3>1, <3>2
  <2>2. ASSUME NEW ext, IncomingPushHandler(ext) \/ PullReplyItem(ext)
        PROVE  Forgets
    BY <2>2 DEF IncomingPushHandler, PullReplyItem, Forgets
  <2> QED BY <1>5, <2>1, <2>2 DEF Arrival
<1>6. CASE RandomPeerListReplyHandler
  BY <1>6 DEF RandomPeerListReplyHandler, Forgets
<1>7. CASE \E c \in Client, t \in DataType : NotifyHandler(c, t)
  BY <1>7 DEF NotifyHandler, Forgets, lists
<1>8. CASE \E c \in DOMAIN apiClientsToNotify : UnnotifyHandler(c)
  BY <1>8 DEF UnnotifyHandler, Forgets, lists
<1>9. CASE \E c \in Client, id \in 0..(IDSpace - 1), v \in BOOLEAN : ValidationHandler(c, id, v)
  <2>1. PICK item : UNCHANGED lists \/ Reject(item)
    BY <1>9 DEF ValidationHandler
  <2>2. CASE UNCHANGED lists
    BY <2>2 DEF lists, Forgets
  <2>3. CASE Reject(item)
    <3>1. Retires(item)
      BY <2>3 DEF Reject, Retires, With, Without
    <3> QED BY <3>1
  <2> QED BY <2>1, <2>2, <2>3
<1>10. CASE \/ \E p \in Peer : IncomingPullRequestHandler(p)
            \/ \E p \in Peer, n \in 0..MaxReply : IncomingPullReplyHandler(p, n)
            \/ PullReplyDone
            \/ CloseHandler
  BY <1>10 DEF IncomingPullRequestHandler, IncomingPullReplyHandler, PullReplyDone,
               CloseHandler, Forgets, lists
<1>11. CASE UNCHANGED vars
  BY <1>11 DEF vars, lists, Forgets
<1> QED
  BY <1>1, <1>2, <1>3, <1>4, <1>5, <1>6, <1>7, <1>8, <1>9, <1>10, <1>11 DEF Next, GossipRound

\* No item is ever hot and old at once: a retired or rejected item is not
\* gossiped again for as long as the node remembers it.
THEOREM HotOrOld == Spec => []ListsDisjoint
<1>1. Init => ListsDisjoint
  BY DEF Init, ListsDisjoint, EmptyMap
<1>2. TypeOK /\ ListsDisjoint /\ [Next]_vars => ListsDisjoint'
  <2> SUFFICES ASSUME TypeOK, ListsDisjoint, [Next]_vars PROVE ListsDisjoint'
    OBVIOUS
  <2>1. ASSUME NEW item, Retires(item) PROVE ListsDisjoint'
    BY <2>1 DEF Retires, ListsDisjoint
  <2>2. ASSUME NEW items, Adds(items) PROVE ListsDisjoint'
    BY <2>2 DEF Adds, ListsDisjoint
  <2>3. CASE Forgets
    BY <2>3 DEF Forgets, ListsDisjoint
  <2> QED BY <2>1, <2>2, <2>3, NextMoves
<1> QED
  BY <1>1, <1>2, TypeCorrect, PTL DEF Spec

\* An item that stops being hot is remembered, for the full time: no step of any
\* handler or round loses one.
THEOREM RetiredRemembered == Spec => RetiredIsRemembered
<1> DEFINE Kept == \A i \in DOMAIN gossipList \ DOMAIN gossipList' :
                i \in DOMAIN oldGossipList' /\ oldGossipList'[i] = maxTTL
<1>1. TypeOK /\ [Next]_vars => [Kept]_vars
  <2> SUFFICES ASSUME TypeOK, [Next]_vars PROVE Kept
    OBVIOUS
  <2>1. ASSUME NEW item, Retires(item) PROVE Kept
    BY <2>1 DEF Retires
  <2>2. ASSUME NEW items, Adds(items) PROVE Kept
    BY <2>2 DEF Adds
  <2>3. CASE Forgets
    BY <2>3 DEF Forgets
  <2> QED BY <2>1, <2>2, <2>3, NextMoves
<1> QED
  BY <1>1, TypeCorrect, PTL DEF Spec, RetiredIsRemembered

-----------------------------------------------------------------------------
(* The limit of the cache *)

\* The strengthening that the loop over a pull reply needs: what it may still add
\* fits beside what is there.
ReplyFits ==
    phase = "reply" =>
        reply.upTo \in Nat /\ Cardinality(DOMAIN incomingGossips) + reply.upTo <= cacheSize

\* The hot items fit whatever the step adds to them.
LEMMA HotFits ==
    ASSUME TypeOK, CacheBounded, [Next]_vars
    PROVE  Cardinality(DOMAIN gossipList') <= cacheSize
<1>1. /\ IsFiniteSet(DOMAIN gossipList) /\ Cardinality(DOMAIN gossipList) \in Nat
      /\ Cardinality(DOMAIN gossipList) <= cacheSize
  BY ItemAssumption, FS_Subset, FS_CardinalityType DEF TypeOK, HotTypeOK, CacheBounded
<1>2. ASSUME DOMAIN gossipList' \subseteq DOMAIN gossipList
      PROVE  Cardinality(DOMAIN gossipList') <= cacheSize
  <2>1. /\ IsFiniteSet(DOMAIN gossipList')
        /\ Cardinality(DOMAIN gossipList') <= Cardinality(DOMAIN gossipList)
    BY <1>1, <1>2, FS_Subset
  <2> QED BY <1>1, <2>1, FS_CardinalityType
<1>3. ASSUME NEW item, Retires(item) PROVE DOMAIN gossipList' \subseteq DOMAIN gossipList
  BY <1>3 DEF Retires
<1>4. ASSUME NEW items, Adds(items) PROVE Cardinality(DOMAIN gossipList') <= cacheSize
  BY <1>2, <1>4 DEF Adds
<1>5. CASE Forgets
  BY <1>2, <1>5 DEF Forgets
<1> QED
  BY <1>2, <1>3, <1>4, <1>5, NextMoves

\* An incoming item takes at most one place, and none if it is rejected or known.
LEMMA CheckAndAddTakes ==
    ASSUME TypeOK, NEW ext, CheckAndAddIncomingGossip(ext)
    PROVE  LET n == Cardinality(DOMAIN incomingGossips)
               new == Acceptable(ext) /\ ext.item \notin DOMAIN incomingGossips
           IN  n \in Nat /\ Cardinality(DOMAIN incomingGossips') = IF new THEN n + 1 ELSE n
<1>1. /\ IsFiniteSet(DOMAIN incomingGossips) /\ Cardinality(DOMAIN incomingGossips) \in Nat
  BY ItemAssumption, FS_Subset, FS_CardinalityType DEF TypeOK, IncomingTypeOK
<1>2. DOMAIN incomingGossips' =
        IF Supersedes(ext) THEN DOMAIN incomingGossips \cup {ext.item} ELSE DOMAIN incomingGossips
  BY DEF CheckAndAddIncomingGossip, With
<1>3. CASE Acceptable(ext) /\ ext.item \notin DOMAIN incomingGossips
  <2>1. DOMAIN incomingGossips' = DOMAIN incomingGossips \cup {ext.item}
    BY <1>2, <1>3 DEF Supersedes
  <2> QED BY <1>1, <1>3, <2>1, FS_AddElement
<1>4. CASE ~(Acceptable(ext) /\ ext.item \notin DOMAIN incomingGossips)
  <2>1. DOMAIN incomingGossips' = DOMAIN incomingGossips
    BY <1>2, <1>4 DEF Supersedes
  <2> QED BY <1>1, <1>4, <2>1
<1> QED BY <1>3, <1>4

\* The incoming items fit, and so does what is left of a pull reply.
LEMMA IncomingFits ==
    ASSUME TypeOK, CacheBounded, ReplyFits, [Next]_vars
    PROVE  Cardinality(DOMAIN incomingGossips') <= cacheSize /\ ReplyFits'
<1> DEFINE n == Cardinality(DOMAIN incomingGossips)
<1>1. IsFiniteSet(DOMAIN incomingGossips) /\ n \in Nat /\ n <= cacheSize
  BY ItemAssumption, FS_Subset, FS_CardinalityType DEF TypeOK, IncomingTypeOK, CacheBounded
<1>2. CASE PushRound \/ PullRound \/ UpdateOldGossipsRound
  BY <1>1, <1>2 DEF PushRound, PullRound, UpdateOldGossipsRound, ReplyFits, Idle, lists, pulls
<1>3. CASE UpdateRound
  <2>1. incomingGossips' = EmptyMap /\ phase' = "old" /\ DOMAIN EmptyMap = {}
    BY <1>3 DEF UpdateRound, EmptyMap
  <2> QED BY <2>1, FS_EmptySet DEF ReplyFits
<1>4. ASSUME NEW item, NEW ttl, AnnounceHandler(item, ttl)
      PROVE  incomingGossips' = incomingGossips /\ phase' = phase /\ phase = "idle"
  BY <1>4 DEF AnnounceHandler, Idle
<1>5. ASSUME NEW ext, IncomingPushHandler(ext)
      PROVE  Cardinality(DOMAIN incomingGossips') <= cacheSize /\ ReplyFits'
  <2>1. n < cacheSize /\ phase' = "idle"
    BY <1>5 DEF IncomingPushHandler, HasRoom, Idle
  <2>2. Cardinality(DOMAIN incomingGossips') \in {n, n + 1}
    BY <1>5, CheckAndAddTakes DEF IncomingPushHandler
  <2> QED BY <1>1, <2>1, <2>2 DEF ReplyFits
<1>6. ASSUME NEW ext, PullReplyItem(ext)
      PROVE  Cardinality(DOMAIN incomingGossips') <= cacheSize /\ ReplyFits'
  <2> DEFINE new == Acceptable(ext) /\ ext.item \notin DOMAIN incomingGossips
  <2>1. Cardinality(DOMAIN incomingGossips') = IF new THEN n + 1 ELSE n
    BY <1>6, CheckAndAddTakes DEF PullReplyItem
  <2>2. phase = "reply" /\ reply.upTo > 0 /\ reply.upTo \in Nat /\ n + reply.upTo <= cacheSize
    BY <1>6 DEF PullReplyItem, ReplyFits
  <2>3. reply'.upTo = IF new THEN reply.upTo - 1 ELSE reply.upTo
    BY <1>6 DEF PullReplyItem, TypeOK
  <2> HIDE DEF new, n
  <2> QED BY <1>1, <2>1, <2>2, <2>3 DEF ReplyFits
<1>7. ASSUME NEW p \in Peer, NEW k, IncomingPullReplyHandler(p, k)
      PROVE  incomingGossips' = incomingGossips /\ ReplyFits'
  <2>1. incomingGossips' = incomingGossips /\ reply'.upTo = cacheSize - n
    BY <1>7 DEF IncomingPullReplyHandler, lists
  <2> HIDE DEF n
  <2> QED BY <1>1, <2>1 DEF ReplyFits, n
<1>8. ASSUME NEW c, NEW id, NEW v, ValidationHandler(c, id, v)
      PROVE  Cardinality(DOMAIN incomingGossips') <= cacheSize /\ phase' = "idle"
  <2>1. PICK item : UNCHANGED lists \/ Reject(item)
    BY <1>8 DEF ValidationHandler
  <2>2. DOMAIN incomingGossips' \in SUBSET DOMAIN incomingGossips
    BY <2>1 DEF lists, Reject, Without
  <2>3. /\ IsFiniteSet(DOMAIN incomingGossips') /\ Cardinality(DOMAIN incomingGossips') <= n
    BY <1>1, <2>2, FS_Subset
  <2>4. Cardinality(DOMAIN incomingGossips') \in Nat
    BY <2>3, FS_CardinalityType
  <2>5. phase' = "idle"
    BY <1>8 DEF ValidationHandler, Idle
  <2> HIDE DEF n
  <2> QED BY <1>1, <2>3, <2>4, <2>5
<1>9. CASE \/ RandomPeerListReplyHandler \/ PullReplyDone \/ CloseHandler
           \/ \E c \in Client, t \in DataType : NotifyHandler(c, t)
           \/ \E c \in DOMAIN apiClientsToNotify : UnnotifyHandler(c)
           \/ \E p \in Peer : IncomingPullRequestHandler(p)
  <2>1. incomingGossips' = incomingGossips /\ phase' = "idle"
    BY <1>9 DEF RandomPeerListReplyHandler, PullReplyDone, CloseHandler, NotifyHandler,
                UnnotifyHandler, IncomingPullRequestHandler, Idle, lists
  <2> QED BY <1>1, <2>1 DEF ReplyFits
<1>10. CASE UNCHANGED vars
  BY <1>1, <1>10 DEF ReplyFits, vars, lists, pulls
<1> QED
  BY <1>1, <1>2, <1>3, <1>4, <1>5, <1>6, <1>7, <1>8, <1>9, <1>10
     DEF Next, GossipRound, Arrival, ReplyFits

\* Neither the hot nor the incoming items ever outgrow the cache, through whichever
\* of the handlers they come in (gossiper.go: announcement, push, pull, round).
THEOREM CacheStaysBounded == Spec => []CacheBounded
<1>1. Init => CacheBounded /\ ReplyFits
  <2>1. DOMAIN EmptyMap = {}
    BY DEF EmptyMap
  <2> QED BY <2>1, FS_EmptySet DEF Init, CacheBounded, ReplyFits
<1>2. TypeOK /\ CacheBounded /\ ReplyFits /\ [Next]_vars => CacheBounded' /\ ReplyFits'
  BY HotFits, IncomingFits DEF CacheBounded
<1> QED
  BY <1>1, <1>2, TypeCorrect, PTL DEF Spec

-----------------------------------------------------------------------------
(* The median rule *)

\* An item between two rounds: below the threshold of state B, no votes open.
Between(info) ==
    /\ info.state = StateB => info.counter \in 1..(bMax - 1)
    /\ info.medianRule = 0

\* An item moves forward, or the counter of state C wraps around.
Advances(old, new) ==
    \/ Cmp(old, new) <= 0
    \/ old.state = StateC /\ old.counter = ByteSize - 1 /\ new.state = StateC

\* What a comparison compares are numbers.
LEMMA Compared ==
    ASSUME NEW x \in Info
    PROVE  x.state \in {StateB, StateC} /\ x.counter \in Nat /\ x.counter <= 255
<1>1. x.state \in {StateB, StateC} /\ x.counter \in 0..(ByteSize - 1)
  BY DEF Info
<1>2. ByteSize \in Nat /\ ByteSize <= 256
  OBVIOUS
<1> QED
  BY <1>1, <1>2

\* The order of states and counters, spelled out.
LEMMA Forward ==
    ASSUME NEW old \in Info, NEW new \in Info,
           \/ new.state = old.state /\ new.counter >= old.counter
           \/ old.state = StateB /\ new.state = StateC
    PROVE  Cmp(old, new) <= 0
<1> DEFINE l == old.state * 256 + old.counter
           r == new.state * 256 + new.counter
<1>1. /\ old.state \in {StateB, StateC} /\ old.counter \in Nat /\ old.counter <= 255
      /\ new.state \in {StateB, StateC} /\ new.counter \in Nat /\ new.counter <= 255
  BY Compared
<1>2. StateB \in Nat /\ StateC \in Nat /\ StateB * 256 + 255 <= StateC * 256
  BY DEF StateB, StateC
<1>3. CASE new.state = old.state /\ new.counter >= old.counter
  <2>1. l \in Int /\ r \in Int /\ l <= r
    BY <1>1, <1>2, <1>3
  <2> QED BY <2>1 DEF Cmp
<1>4. CASE old.state = StateB /\ new.state = StateC
  <2>1. l \in Int /\ r \in Int /\ l <= r
    BY <1>1, <1>2, <1>4
  <2> QED BY <2>1 DEF Cmp
<1> QED
  BY <1>3, <1>4

\* A byte that does not overflow counts up.
LEMMA ByteCounts ==
    ASSUME NEW n \in 0..(ByteSize - 1)
    PROVE  Byte(n) = n
BY DEF Byte

\* Ageing touches neither the rule nor a B item's counter.
LEMMA AgeAdvances ==
    ASSUME NEW info \in Info, Between(info)
    PROVE  Between(Age(info)) /\ Advances(info, Age(info))
<1>1. Age(info) \in Info
  BY AgeType
<1>2. Age(info).state = info.state /\ Age(info).medianRule = info.medianRule
  BY DEF Age
<1>3. \/ Age(info).counter = info.counter
      \/ info.state = StateC /\ Age(info).counter = Byte(info.counter + 1)
  BY DEF Age
<1>4. Between(Age(info))
  BY <1>2, <1>3 DEF Between, StateB, StateC
<1>5. CASE Age(info).counter = info.counter
  <2>1. Age(info).counter >= info.counter
    BY <1>5 DEF Info
  <2> QED BY <1>1, <1>2, <1>4, <2>1, Forward DEF Advances
<1>6. CASE info.state = StateC /\ Age(info).counter = Byte(info.counter + 1)
  <2>1. info.counter \in 0..(ByteSize - 1)
    BY DEF Info
  <2>2. CASE info.counter = ByteSize - 1
    BY <1>2, <1>4, <1>6, <2>2 DEF Advances
  <2>3. CASE info.counter # ByteSize - 1
    <3>1. Age(info).counter = info.counter + 1
      BY <1>6, <2>1, <2>3, ByteCounts
    <3>2. Age(info).counter >= info.counter
      BY <2>1, <3>1
    <3> QED BY <1>1, <1>2, <1>4, <3>2, Forward DEF Advances
  <2> QED BY <2>2, <2>3
<1> QED BY <1>3, <1>5, <1>6

\* The rule moves an item below the threshold forward, settles its votes, and
\* takes it out of state B where it meets the threshold.
LEMMA RuleAdvances ==
    ASSUME bMax > 1, NEW info \in Info,
           info.state = StateB => info.counter \in 1..(bMax - 1),
           info.state = StateC => info.medianRule = 0
    PROVE  /\ Between(ApplyMedianRule(info)) /\ Cmp(info, ApplyMedianRule(info)) <= 0
<1> DEFINE new == ApplyMedianRule(info)
<1>1. new \in Info
  BY MedianRuleType
<1>2. CASE info.state = StateC
  <2>1. new = info
    BY <1>2 DEF ApplyMedianRule, StateB, StateC
  <2>2. new.counter >= info.counter
    BY <2>1 DEF Info
  <2> HIDE DEF new
  <2>3. Between(new)
    BY <1>2, <2>1 DEF Between, StateB, StateC
  <2> QED BY <1>1, <2>1, <2>2, <2>3, Forward DEF new
<1>3. CASE info.state = StateB
  <2>1. info.counter \in 1..(bMax - 1)
    BY <1>3
  <2>2. Byte(info.counter + 1) = info.counter + 1
    BY <2>1, ByteCounts
  <2>3. \/ /\ new.state = StateC /\ new.medianRule = 0
        \/ /\ new.state = StateB /\ new.medianRule = 0
           /\ new.counter \in 1..(bMax - 1) /\ new.counter >= info.counter
    BY <1>3, <2>1, <2>2 DEF ApplyMedianRule, Standing
  <2> HIDE DEF new
  <2>4. Between(new)
    BY <2>3 DEF Between, StateB, StateC
  <2>5. Cmp(info, new) <= 0
    BY <1>1, <1>3, <2>3, Forward
  <2> QED BY <2>4, <2>5 DEF new
<1> QED BY <1>2, <1>3 DEF Info

\* A copy that came in moves an item forward, before the rule is applied.
LEMMA CopyAdvances ==
    ASSUME NEW info \in Info, Between(info), NEW inc
    PROVE  LET new == UpdateItemInfo(info, inc)
           IN  /\ new \in Info /\ Cmp(info, new) <= 0
               /\ new.state = StateB => new.counter \in 1..(bMax - 1)
               /\ new.state = StateC => new.medianRule = 0
<1> DEFINE new == UpdateItemInfo(info, inc)
<1>1. new \in Info
  BY UpdateType
<1>2. \/ new = info
      \/ info.state = StateB /\ new.state = StateC /\ new.medianRule = 0
      \/ info.state = StateB /\ new.state = StateB /\ new.counter = info.counter
  BY DEF UpdateItemInfo, Standing
<1> HIDE DEF new
<1>3. info.counter \in Nat
  BY DEF Info
<1>4. Cmp(info, new) <= 0
  BY <1>1, <1>2, <1>3, Forward
<1>5. /\ new.state = StateB => new.counter \in 1..(bMax - 1)
      /\ new.state = StateC => new.medianRule = 0
  BY <1>2 DEF Between, StateB, StateC
<1> QED BY <1>1, <1>4, <1>5 DEF new

\* The comparison is transitive.
LEMMA CmpTransitive ==
    ASSUME NEW a \in Info, NEW b \in Info, NEW c \in Info, Cmp(a, b) <= 0, Cmp(b, c) <= 0
    PROVE  Cmp(a, c) <= 0
<1> DEFINE n(x) == x.state * 256 + x.counter
<1>1. \A x \in Info : n(x) \in Int
  BY Compared DEF StateB, StateC
<1>2. \A x, y \in Info : Cmp(x, y) <= 0 <=> n(x) <= n(y)
  BY <1>1 DEF Cmp
<1> HIDE DEF n
<1>3. n(a) \in Int /\ n(b) \in Int /\ n(c) \in Int /\ n(a) <= n(b) /\ n(b) <= n(c)
  BY <1>1, <1>2
<1> QED
  BY <1>2, <1>3

\* What a step does to the items that stay hot, and the items that it adds.
HotAdvance ==
    /\ \A i \in DOMAIN gossipList' : Between(gossipList'[i])
    /\ \A i \in DOMAIN gossipList \cap DOMAIN gossipList' :
          Advances(gossipList[i], gossipList'[i])

LEMMA HotStays ==
    ASSUME HotTypeOK, MedianRuleKept,
           \A i \in DOMAIN gossipList' :
               /\ i \in DOMAIN gossipList
               /\ gossipList'[i].state = gossipList[i].state
               /\ gossipList'[i].counter = gossipList[i].counter
               /\ gossipList'[i].medianRule = gossipList[i].medianRule
    PROVE  HotAdvance
<1>1. ASSUME NEW i \in DOMAIN gossipList' PROVE Between(gossipList'[i])
  BY DEF MedianRuleKept, BCounterBelowMax, MedianRuleSettled, Between
<1>2. ASSUME NEW i \in DOMAIN gossipList' PROVE Advances(gossipList[i], gossipList'[i])
  <2>1. gossipList[i] \in Info
    BY DEF HotTypeOK
  <2>2. Cmp(gossipList[i], gossipList'[i]) <= 0
    BY <2>1 DEF Cmp, Info, StateB, StateC
  <2> QED BY <2>2 DEF Advances
<1> QED BY <1>1, <1>2 DEF HotAdvance

LEMMA PushRoundAdvances ==
    ASSUME TypeOK, MedianRuleKept, PushRound
    PROVE  HotAdvance
<1> DEFINE held == DOMAIN gossipList
           aged == [i \in held |-> Age(gossipList[i])]
<1>1. \/ gossipList' = aged
      \/ \E item : gossipList' = Without(aged, item)
  BY Zenon DEF PushRound
<1>2. \A i \in DOMAIN gossipList' : i \in held /\ gossipList'[i] = Age(gossipList[i])
  BY <1>1 DEF Without
<1>3. \A i \in held : gossipList[i] \in Info /\ Between(gossipList[i])
  BY DEF TypeOK, HotTypeOK, MedianRuleKept, BCounterBelowMax, MedianRuleSettled, Between
<1> QED
  BY <1>2, <1>3, AgeAdvances DEF HotAdvance

LEMMA UpdateRoundAdvances ==
    ASSUME bMax > 1, TypeOK, MedianRuleKept, UpdateRound
    PROVE  HotAdvance
<1> DEFINE added(news) == {news[k] : k \in Admitted(news)}
           fresh == {i \in DOMAIN incomingGossips : i \notin DOMAIN oldGossipList}
           incomingItem(news, i) ==
               IF i \in added(news) THEN AddedInfo(incomingGossips[i])
               ELSE IF i \in fresh THEN UpdateItemInfo(gossipList[i], incomingGossips[i])
               ELSE gossipList[i]
<1>1. PICK news \in Orders(NewItems) :
        gossipList' = [i \in DOMAIN gossipList \cup added(news) |->
                            ApplyMedianRule(incomingItem(news, i))]
  BY Zenon DEF UpdateRound
<1>2. added(news) \subseteq NewItems /\ NewItems \subseteq DOMAIN incomingGossips
  BY AddedItems
<1>3. ASSUME NEW i \in DOMAIN gossipList'
      PROVE  /\ Between(gossipList'[i])
             /\ i \in DOMAIN gossipList => Advances(gossipList[i], gossipList'[i])
  <2>1. gossipList'[i] = ApplyMedianRule(incomingItem(news, i))
    BY <1>1
  <2>2. CASE i \in added(news)
    <3>1. i \notin DOMAIN gossipList
      BY <1>2, <2>2 DEF NewItems
    <3>2. incomingGossips[i].state \in {StateB, StateC}
      BY <1>2, <2>2 DEF TypeOK, IncomingTypeOK
    <3> DEFINE info == AddedInfo(incomingGossips[i])
    <3>3. info \in Info
      BY <3>2, NewInfoType DEF AddedInfo
    <3>4. /\ info.state = StateB => info.counter \in 1..(bMax - 1)
          /\ info.medianRule = 0
      BY DEF AddedInfo, NewInfo
    <3>5. gossipList'[i] = ApplyMedianRule(info)
      BY <2>1, <2>2
    <3> HIDE DEF info
    <3>6. Between(ApplyMedianRule(info))
      BY <3>3, <3>4, RuleAdvances
    <3> QED BY <3>1, <3>5, <3>6
  <2>3. CASE i \notin added(news)
    <3>1. i \in DOMAIN gossipList
      BY <1>1, <2>3
    <3>2. gossipList[i] \in Info /\ Between(gossipList[i])
      BY <3>1 DEF TypeOK, HotTypeOK, MedianRuleKept, BCounterBelowMax, MedianRuleSettled, Between
    <3>3. PICK info \in {gossipList[i], UpdateItemInfo(gossipList[i], incomingGossips[i])} :
             gossipList'[i] = ApplyMedianRule(info)
      BY <2>1, <2>3
    <3>4. /\ info \in Info /\ Cmp(gossipList[i], info) <= 0
          /\ info.state = StateB => info.counter \in 1..(bMax - 1)
          /\ info.state = StateC => info.medianRule = 0
      <4>1. CASE info = UpdateItemInfo(gossipList[i], incomingGossips[i])
        BY <3>2, <4>1, CopyAdvances
      <4>2. CASE info = gossipList[i]
        <5>1. info.counter >= info.counter
          BY <3>2, <4>2 DEF Info
        <5> QED BY <3>2, <4>2, <5>1, Forward DEF Between
      <4> QED BY <3>3, <4>1, <4>2
    <3>5. /\ Between(ApplyMedianRule(info)) /\ Cmp(info, ApplyMedianRule(info)) <= 0
          /\ ApplyMedianRule(info) \in Info
      BY <3>4, RuleAdvances, MedianRuleType
    <3>6. Cmp(gossipList[i], ApplyMedianRule(info)) <= 0
      BY <3>2, <3>4, <3>5, CmpTransitive
    <3> QED BY <3>3, <3>5, <3>6 DEF Advances
  <2> QED BY <2>2, <2>3
<1> QED
  BY <1>3 DEF HotAdvance

LEMMA NextAdvances ==
    ASSUME bMax > 1, TypeOK, MedianRuleKept, [Next]_vars
    PROVE  HotAdvance
<1>1. CASE PushRound
  BY <1>1, PushRoundAdvances
<1>2. CASE UpdateRound
  BY <1>2, UpdateRoundAdvances
<1>3. ASSUME NEW item \in Item, NEW ttl, AnnounceHandler(item, ttl)
      PROVE  HotAdvance
  <2>1. CASE HasRoom(gossipList) /\ ~Known(item)
    <3>1. PICK t : gossipList' = With(gossipList, item, NewInfo(StateB, 1, t))
      BY <1>3, <2>1 DEF AnnounceHandler
    <3>2. item \notin DOMAIN gossipList
      BY <2>1 DEF Known
    <3>3. /\ DOMAIN gossipList' = DOMAIN gossipList \cup {item}
          /\ gossipList'[item] = NewInfo(StateB, 1, t)
          /\ \A i \in DOMAIN gossipList : gossipList'[i] = gossipList[i]
      BY <3>1, <3>2 DEF With
    <3>4. Between(gossipList'[item])
      BY <3>3 DEF Between, NewInfo
    <3>5. ASSUME NEW i \in DOMAIN gossipList
          PROVE  Between(gossipList'[i]) /\ Advances(gossipList[i], gossipList'[i])
      <4>1. gossipList[i] \in Info /\ Between(gossipList[i])
        BY DEF TypeOK, HotTypeOK, MedianRuleKept, BCounterBelowMax, MedianRuleSettled, Between
      <4>2. gossipList[i].counter >= gossipList[i].counter
        BY <4>1 DEF Info
      <4>3. Cmp(gossipList[i], gossipList[i]) <= 0
        BY <4>1, <4>2, Forward
      <4> QED BY <3>3, <4>1, <4>3 DEF Advances
    <3> QED BY <3>3, <3>4, <3>5 DEF HotAdvance
  <2>2. CASE ~(HasRoom(gossipList) /\ ~Known(item))
    <3>1. gossipList' = gossipList
      BY <1>3, <2>2 DEF AnnounceHandler
    <3> QED BY <3>1, HotStays DEF TypeOK
  <2> QED BY <2>1, <2>2
<1>4. CASE RandomPeerListReplyHandler
  <2>1. \/ UNCHANGED gossipList
        \/ \E peers : gossipList' = [gossipList EXCEPT ![Head(requests).related].peerList = peers]
    BY <1>4 DEF RandomPeerListReplyHandler
  <2>2. \A i \in DOMAIN gossipList' :
               /\ i \in DOMAIN gossipList
               /\ gossipList'[i].state = gossipList[i].state
               /\ gossipList'[i].counter = gossipList[i].counter
               /\ gossipList'[i].medianRule = gossipList[i].medianRule
    <3> DEFINE r == Head(requests).related
    <3>1. \A i \in DOMAIN gossipList : gossipList[i] \in Info
      BY DEF TypeOK, HotTypeOK
    <3>2. CASE UNCHANGED gossipList
      BY <3>2
    <3>3. ASSUME NEW peers, gossipList' = [gossipList EXCEPT ![r].peerList = peers],
                 NEW i \in DOMAIN gossipList'
          PROVE  /\ i \in DOMAIN gossipList
                 /\ gossipList'[i].state = gossipList[i].state
                 /\ gossipList'[i].counter = gossipList[i].counter
                 /\ gossipList'[i].medianRule = gossipList[i].medianRule
      <4> HIDE DEF r
      <4>1. /\ DOMAIN gossipList' = DOMAIN gossipList
            /\ i # r => gossipList'[i] = gossipList[i]
            /\ i = r => gossipList'[i] = [gossipList[i] EXCEPT !.peerList = peers]
        BY <3>3
      <4>2. gossipList[i] \in Info
        BY <3>1, <4>1
      <4> QED BY <4>1, <4>2 DEF Info
    <3> QED BY <2>1, <3>2, <3>3
  <2> QED BY <2>2, HotStays DEF TypeOK
<1>5. ASSUME NEW c, NEW id, NEW v, ValidationHandler(c, id, v)
      PROVE  HotAdvance
  <2>1. PICK item : UNCHANGED lists \/ Reject(item)
    BY <1>5 DEF ValidationHandler
  <2>2. \A i \in DOMAIN gossipList' : i \in DOMAIN gossipList /\ gossipList'[i] = gossipList[i]
    BY <2>1 DEF lists, Reject, Without
  <2> QED BY <2>2, HotStays DEF TypeOK
<1>6. CASE \/ PullRound \/ UpdateOldGossipsRound \/ PullReplyDone \/ CloseHandler
           \/ \E ext \in Extended : IncomingPushHandler(ext) \/ PullReplyItem(ext)
           \/ \E c \in Client, t \in DataType : NotifyHandler(c, t)
           \/ \E c \in DOMAIN apiClientsToNotify : UnnotifyHandler(c)
           \/ \E p \in Peer : IncomingPullRequestHandler(p)
           \/ \E p \in Peer, n \in 0..MaxReply : IncomingPullReplyHandler(p, n)
           \/ UNCHANGED vars
  <2>1. gossipList' = gossipList
    BY <1>6 DEF PullRound, UpdateOldGossipsRound, PullReplyDone, CloseHandler,
                IncomingPushHandler, PullReplyItem, NotifyHandler, UnnotifyHandler,
                IncomingPullRequestHandler, IncomingPullReplyHandler, lists, vars
  <2> QED BY <2>1, HotStays DEF TypeOK
<1> QED
  BY <1>1, <1>2, <1>3, <1>4, <1>5, <1>6 DEF Next, GossipRound, Arrival

\* The copies that wait for the round are only replaced by later ones.
LEMMA IncomingAdvances ==
    ASSUME [Next]_vars
    PROVE  \A i \in DOMAIN incomingGossips \cap DOMAIN incomingGossips' :
               \/ incomingGossips'[i] = incomingGossips[i]
               \/ Cmp(incomingGossips[i], incomingGossips'[i]) <= 0
<1>1. ASSUME NEW ext, CheckAndAddIncomingGossip(ext)
      PROVE  \A i \in DOMAIN incomingGossips :
                 \/ incomingGossips'[i] = incomingGossips[i]
                 \/ Cmp(incomingGossips[i], incomingGossips'[i]) <= 0
  BY <1>1 DEF CheckAndAddIncomingGossip, Supersedes, With, Cmp
<1>2. CASE UpdateRound
  BY <1>2 DEF UpdateRound, EmptyMap
<1>3. CASE \E ext \in Extended : IncomingPushHandler(ext) \/ PullReplyItem(ext)
  BY <1>1, <1>3 DEF IncomingPushHandler, PullReplyItem
<1>4. ASSUME NEW c, NEW id, NEW v, ValidationHandler(c, id, v)
      PROVE  \A i \in DOMAIN incomingGossips' : incomingGossips'[i] = incomingGossips[i]
  <2>1. PICK item : UNCHANGED lists \/ Reject(item)
    BY <1>4 DEF ValidationHandler
  <2> QED BY <2>1 DEF lists, Reject, Without
<1>5. CASE \/ PushRound \/ PullRound \/ UpdateOldGossipsRound \/ PullReplyDone \/ CloseHandler
           \/ RandomPeerListReplyHandler
           \/ \E item \in Item, ttl \in {0, 1, Byte(maxTTL + 1)} : AnnounceHandler(item, ttl)
           \/ \E c \in Client, t \in DataType : NotifyHandler(c, t)
           \/ \E c \in DOMAIN apiClientsToNotify : UnnotifyHandler(c)
           \/ \E p \in Peer : IncomingPullRequestHandler(p)
           \/ \E p \in Peer, n \in 0..MaxReply : IncomingPullReplyHandler(p, n)
           \/ UNCHANGED vars
  <2>1. incomingGossips' = incomingGossips
    BY <1>5 DEF PushRound, PullRound, UpdateOldGossipsRound, PullReplyDone, CloseHandler,
                RandomPeerListReplyHandler, AnnounceHandler, NotifyHandler, UnnotifyHandler,
                IncomingPullRequestHandler, IncomingPullReplyHandler, lists, vars
  <2> QED BY <2>1
<1> QED
  BY <1>2, <1>3, <1>4, <1>5 DEF Next, GossipRound, Arrival

\* No item is beyond the threshold of state B, which is tested with == only, and
\* every round starts without open votes (gossiper.go:280-287), if the
\* configuration gives state B a range at all: bMax is 1 for a degree of 9 or 10.
THEOREM MedianRuleStays == ASSUME bMax > 1 PROVE Spec => []MedianRuleKept
<1>1. Init => MedianRuleKept
  BY DEF Init, MedianRuleKept, BCounterBelowMax, MedianRuleSettled, EmptyMap
<1>2. TypeOK /\ MedianRuleKept /\ [Next]_vars => MedianRuleKept'
  BY NextAdvances
     DEF HotAdvance, Between, MedianRuleKept, BCounterBelowMax, MedianRuleSettled
<1> QED
  BY <1>1, <1>2, TypeCorrect, PTL DEF Spec

\* An item only moves forward, hot or waiting for the round, whatever copies of it
\* arrive in whatever order.
THEOREM ItemsOnlyAdvance == ASSUME bMax > 1 PROVE Spec => StatesOnlyAdvance
<1> DEFINE Forwards ==
      /\ \A i \in DOMAIN gossipList \cap DOMAIN gossipList' :
            \/ Cmp(gossipList[i], gossipList'[i]) <= 0
            \/ gossipList[i].state = StateC /\ gossipList[i].counter = ByteSize - 1
                    /\ gossipList'[i].state = StateC
      /\ \A i \in DOMAIN incomingGossips \cap DOMAIN incomingGossips' :
            Cmp(incomingGossips[i], incomingGossips'[i]) <= 0
<1>1. TypeOK /\ MedianRuleKept /\ [Next]_vars => [Forwards]_vars
  <2> SUFFICES ASSUME TypeOK, MedianRuleKept, [Next]_vars PROVE Forwards
    OBVIOUS
  <2>1. HotAdvance
    BY NextAdvances
  <2>2. ASSUME NEW i \in DOMAIN incomingGossips \cap DOMAIN incomingGossips'
        PROVE  Cmp(incomingGossips[i], incomingGossips'[i]) <= 0
    <3>1. incomingGossips[i].state \in {0, 1} /\ incomingGossips[i].counter \in Nat
      BY DEF TypeOK, IncomingTypeOK, StateB, StateC
    <3>2. Cmp(incomingGossips[i], incomingGossips[i]) <= 0
      BY <3>1 DEF Cmp
    <3> QED BY <3>2, IncomingAdvances
  <2> QED BY <2>1, <2>2 DEF HotAdvance, Advances
<1>2. Spec => []MedianRuleKept
  BY MedianRuleStays
<1> QED
  BY <1>1, <1>2, TypeCorrect, PTL DEF Spec, StatesOnlyAdvance
=============================================================================
