--------------------------- MODULE CentralProofs ---------------------------
(***************************************************************************)
(* Theorems about CentralController, for any peers, clients, capacities    *)
(* and bounds.                                                             *)
(***************************************************************************)
EXTENDS CentralController, FiniteSetTheorems, TLAPS

-----------------------------------------------------------------------------
(* Types *)

\* TypeOK, but for the sign of Run's counter, which GoroutinesCounted gives.
Typed ==
    /\ status \in {"running", "done", "crashed"}
    /\ isStopping \in BOOLEAN
    /\ totalGoroutines \in Int
    /\ inbox \in Seq(Message)
    /\ IsMap(viewList, Peer, Info)
    /\ IsMap(awaitingRemovalViewList, Peer, Info)
    /\ IsMap(activelyCreatedPeers, Peer, BOOLEAN)
    /\ IsMap(activelyProbedPeers, Peer, BOOLEAN)
    /\ IsMap(incomingViewList, Inbound, Info)
    /\ IsMap(apiClients, Client, Info)
    /\ submodules \subseteq Submodule
    /\ active \in [Submodule -> {"running", "closing", "ended"}]
    /\ running \subseteq Endpoint \X Half
    /\ closing \subseteq Endpoint
    /\ connected \subseteq Endpoint
    /\ dials \in [Peer -> Nat]
    /\ probes \in [Peer -> Nat]
    /\ members \subseteq Peer
    /\ mInbox \in Seq([type : {"PeerDisconnected"}, peer : Peer])
    /\ loans \in [Peer -> Nat]
    /\ views \in Nat /\ asked \in Nat /\ arrivals \in Nat

LEMMA WithIsMap ==
    ASSUME NEW m, NEW K, NEW V, IsMap(m, K, V), NEW k \in K, NEW v \in V
    PROVE  IsMap(With(m, k, v), K, V)
BY DEF IsMap, With

LEMMA WithoutIsMap ==
    ASSUME NEW m, NEW K, NEW V, IsMap(m, K, V), NEW k
    PROVE  IsMap(Without(m, k), K, V)
BY DEF IsMap, Without

\* What the fields of a message are, by its type.
LEMMA MessageFields ==
    ASSUME NEW m \in Message
    PROVE  /\ m.type \in PeerMessageType => m.peer \in Peer
           /\ m.type = "OutgoingP2PCreated" => m.endp \in Peer /\ m.ok \in BOOLEAN
           /\ m.type = "EndpointCreated" => m.endp \in Inbound \cup Client /\ m.ok = TRUE
           /\ m.type = "EndpointClosed" =>
                m.endp \in Endpoint /\ m.half \in Half /\ m.err \in BOOLEAN
           /\ m.type = "SubmoduleClosed" => m.which \in Submodule
<1>1. CASE m \in [type : PeerMessageType, peer : Peer]
  BY <1>1 DEF PeerMessageType
<1>2. CASE m \in [type : {"OutgoingP2PCreated"}, endp : Peer, ok : BOOLEAN]
  BY <1>2 DEF PeerMessageType
<1>3. CASE m \in [type : {"EndpointCreated"}, endp : Inbound \cup Client, ok : {TRUE}]
  BY <1>3 DEF PeerMessageType
<1>4. CASE m \in [type : {"EndpointClosed"}, endp : Endpoint, half : Half, err : BOOLEAN]
  BY <1>4 DEF PeerMessageType
<1>5. CASE m \in [type : {"SubmoduleClosed"}, which : Submodule]
  BY <1>5 DEF PeerMessageType
<1>6. CASE m \in {CentralClose, CentralCrash}
  BY <1>6 DEF PeerMessageType, CentralClose, CentralCrash
<1> QED
  BY <1>1, <1>2, <1>3, <1>4, <1>5, <1>6 DEF Message

LEMMA MessagesBuilt ==
    /\ \A t \in PeerMessageType, p \in Peer : ForPeer(t, p) \in Message
    /\ \A p \in Peer, ok \in BOOLEAN : Created("OutgoingP2PCreated", p, ok) \in Message
    /\ \A e \in Inbound \cup Client : Created("EndpointCreated", e, TRUE) \in Message
    /\ \A e \in Endpoint, h \in Half, err \in BOOLEAN : Closed(e, h, err) \in Message
    /\ \A s \in Submodule : SubmoduleClosed(s) \in Message
    /\ CentralClose \in Message /\ CentralCrash \in Message
BY DEF Message, ForPeer, Created, Closed, SubmoduleClosed

LEMMA InfoBuilt ==
    /\ Fresh \in Info
    /\ \A info \in Info : \A n \in Int : Used(info, n) \in Info
    /\ \A info \in Info, half \in Half, err \in BOOLEAN : Stopped(info, half, err) \in Info
BY DEF Fresh, Info, Used, Stopped, Half

\* The marks of peers being dialled and probed.
LEMMA MarkIsMap ==
    ASSUME NEW m, IsMap(m, Peer, BOOLEAN), NEW p \in Peer
    PROVE  /\ IsMap(With(m, p, TRUE), Peer, BOOLEAN)
           /\ IsMap(With(m, p, FALSE), Peer, BOOLEAN)
<1>1. TRUE \in BOOLEAN /\ FALSE \in BOOLEAN
  OBVIOUS
<1> QED BY <1>1, WithIsMap, Zenon

LEMMA MapAt ==
    ASSUME NEW m, NEW K, NEW V, IsMap(m, K, V), NEW k \in DOMAIN m
    PROVE  k \in K /\ m[k] \in V
BY DEF IsMap

LEMMA EmptyIsMap == \A K, V : IsMap(EmptyMap, K, V)
BY DEF IsMap, EmptyMap

LEMMA InitTyped == Init => Typed
<1>1. Cardinality(Submodule) \in Nat
  <2>1. IsFiniteSet({"membership", "gossiper", "p2pListener", "apiListener"})
    <3>1. IsFiniteSet({"membership"} \cup {"gossiper"} \cup {"p2pListener"} \cup {"apiListener"})
      BY FS_Singleton, FS_Union
    <3> QED BY <3>1
  <2> QED BY <2>1, FS_Subset, FS_CardinalityType, SubmoduleAssumption
<1>2. Init => /\ totalGoroutines \in Int /\ inbox \in Seq(Message)
              /\ active \in [Submodule -> {"running", "closing", "ended"}]
              /\ dials \in [Peer -> Nat] /\ probes \in [Peer -> Nat]
              /\ loans \in [Peer -> Nat]
              /\ mInbox \in Seq([type : {"PeerDisconnected"}, peer : Peer])
  BY <1>1 DEF Init
<1>3. Init => /\ IsMap(viewList, Peer, Info) /\ IsMap(awaitingRemovalViewList, Peer, Info)
              /\ IsMap(activelyCreatedPeers, Peer, BOOLEAN)
              /\ IsMap(activelyProbedPeers, Peer, BOOLEAN)
              /\ IsMap(incomingViewList, Inbound, Info) /\ IsMap(apiClients, Client, Info)
  BY EmptyIsMap DEF Init
<1>5. Init => isStopping \in BOOLEAN
  BY DEF Init
<1>4. Init => /\ status \in {"running", "done", "crashed"}
              /\ submodules \subseteq Submodule /\ running \subseteq Endpoint \X Half
              /\ closing \subseteq Endpoint /\ connected \subseteq Endpoint
              /\ members \subseteq Peer /\ views \in Nat /\ asked \in Nat /\ arrivals \in Nat
  BY DEF Init
<1> QED BY <1>2, <1>3, <1>4, <1>5 DEF Typed

\* What a handler that has received a message may take it to be, and what its
\* queue is afterwards.
LEMMA Received ==
    ASSUME Typed, NEW type, Receive(type)
    PROVE  /\ Msg \in Message /\ Msg.type = type
           /\ Tail(inbox) \in Seq(Message)
           /\ \A m \in Message : Append(Tail(inbox), m) \in Seq(Message)
BY DEF Typed, Receive, Msg

LEMMA PeerAddTyped == Typed /\ PeerAddHandler => Typed'
<1> SUFFICES ASSUME Typed, PeerAddHandler PROVE Typed'
  OBVIOUS
<1> DEFINE p == Msg.peer
<1>1. p \in Peer /\ Tail(inbox) \in Seq(Message)
  BY Received, MessageFields DEF PeerAddHandler, PeerMessageType
<1>2. IsMap(viewList, Peer, Info) /\ IsMap(awaitingRemovalViewList, Peer, Info)
  BY DEF Typed
<1> HIDE DEF p
<1>3. p \in DOMAIN awaitingRemovalViewList => awaitingRemovalViewList[p] \in Info
  BY <1>2, MapAt
<1>4. IsMap(viewList', Peer, Info)
  BY <1>1, <1>2, <1>3, WithIsMap DEF PeerAddHandler, lists, p
<1>5. IsMap(awaitingRemovalViewList', Peer, Info)
  BY <1>1, <1>2, WithoutIsMap DEF PeerAddHandler, lists, p
<1>6. IsMap(activelyCreatedPeers', Peer, BOOLEAN)
  <2>1. \/ activelyCreatedPeers' = activelyCreatedPeers
        \/ activelyCreatedPeers' = With(activelyCreatedPeers, p, FALSE)
    BY DEF PeerAddHandler, marks, p
  <2>2. IsMap(activelyCreatedPeers, Peer, BOOLEAN)
    BY DEF Typed
  <2> QED BY <1>1, <2>1, <2>2, MarkIsMap
<1>7. IsMap(activelyProbedPeers', Peer, BOOLEAN)
  <2>1. \/ activelyProbedPeers' = activelyProbedPeers
        \/ activelyProbedPeers' = With(activelyProbedPeers, p, TRUE)
    BY DEF PeerAddHandler, marks, p
  <2>2. IsMap(activelyProbedPeers, Peer, BOOLEAN)
    BY DEF Typed
  <2> QED BY <1>1, <2>1, <2>2, MarkIsMap
<1>8. dials' \in [Peer -> Nat]
  <2>1. dials' = dials \/ dials' = [dials EXCEPT ![p] = @ + 1]
    BY DEF PeerAddHandler, p
  <2>2. dials \in [Peer -> Nat]
    BY DEF Typed
  <2> QED BY <1>1, <2>1, <2>2
<1>9. inbox' \in Seq(Message)
  BY <1>1 DEF PeerAddHandler, Dequeue
<1> QED
  BY <1>4, <1>5, <1>6, <1>7, <1>8, <1>9 DEF Typed, PeerAddHandler, served, endpoints, membership

LEMMA PeerRemoveTyped == Typed /\ PeerRemoveHandler => Typed'
<1> SUFFICES ASSUME Typed, PeerRemoveHandler PROVE Typed'
  OBVIOUS
<1> DEFINE p == Msg.peer
<1>1. p \in Peer /\ Tail(inbox) \in Seq(Message)
  BY Received, MessageFields DEF PeerRemoveHandler, PeerMessageType
<1>2. inbox' \in Seq(Message)
  BY <1>1 DEF PeerRemoveHandler, Dequeue
<1> HIDE DEF p
<1>3. \/ UNCHANGED <<lists, marks, endpoints>>
      \/ p \in DOMAIN viewList /\ PeerRemoveListed(p)
      \/ PeerRemoveMarked(p)
  BY DEF PeerRemoveHandler, p
<1>4. CASE UNCHANGED <<lists, marks, endpoints>>
  BY <1>2, <1>4 DEF Typed, PeerRemoveHandler, lists, marks, served, endpoints, others, membership
<1>5. CASE p \in DOMAIN viewList /\ PeerRemoveListed(p)
  <2>1. IsMap(viewList, Peer, Info) /\ IsMap(awaitingRemovalViewList, Peer, Info)
    BY DEF Typed
  <2>2. viewList[p] \in Info
    BY <1>5, <2>1, MapAt
  <2>3. IsMap(viewList', Peer, Info)
    BY <1>5, <2>1, WithoutIsMap DEF PeerRemoveListed
  <2>4. IsMap(awaitingRemovalViewList', Peer, Info)
    BY <1>1, <1>5, <2>1, <2>2, WithIsMap, WithoutIsMap DEF PeerRemoveListed
  <2>5. closing' \subseteq Endpoint /\ UNCHANGED <<running, connected>>
    BY <1>1, <1>5 DEF PeerRemoveListed, CloseAll, Typed, Endpoint
  <2>6. UNCHANGED marks
    BY <1>5 DEF PeerRemoveListed
  <2> QED
    BY <1>2, <2>3, <2>4, <2>5, <2>6
       DEF Typed, PeerRemoveHandler, marks, served, others, membership
<1>6. CASE PeerRemoveMarked(p)
  <2>1. IsMap(activelyCreatedPeers', Peer, BOOLEAN)
    <3>1. \/ activelyCreatedPeers' = activelyCreatedPeers
          \/ activelyCreatedPeers' = With(activelyCreatedPeers, p, TRUE)
      BY <1>6 DEF PeerRemoveMarked
    <3>2. IsMap(activelyCreatedPeers, Peer, BOOLEAN)
      BY DEF Typed
    <3> QED BY <1>1, <3>1, <3>2, MarkIsMap
  <2>2. IsMap(activelyProbedPeers', Peer, BOOLEAN)
    <3>1. \/ activelyProbedPeers' = activelyProbedPeers
          \/ activelyProbedPeers' = [q \in DOMAIN activelyProbedPeers |->
                                          q # p /\ activelyProbedPeers[q]]
      BY <1>6 DEF PeerRemoveMarked
    <3>2. IsMap(activelyProbedPeers, Peer, BOOLEAN)
      BY DEF Typed
    <3> QED BY <3>1, <3>2, MarkIsMap DEF IsMap
  <2>3. UNCHANGED <<lists, endpoints>>
    BY <1>6 DEF PeerRemoveMarked
  <2> QED
    BY <1>2, <2>1, <2>2, <2>3
       DEF Typed, PeerRemoveHandler, lists, served, endpoints, others, membership
<1> QED
  BY <1>3, <1>4, <1>5, <1>6

LEMMA ProbeTyped ==
    Typed /\ (ProbePeerRequestHandler \/ CentralProbePeerReplyHandler) => Typed'
<1>1. ASSUME Typed, ProbePeerRequestHandler PROVE Typed'
  <2> DEFINE p == Msg.peer
  <2>1. p \in Peer /\ inbox' \in Seq(Message)
    BY <1>1, Received, MessageFields DEF ProbePeerRequestHandler, PeerMessageType, Dequeue
  <2>2. IsMap(activelyProbedPeers', Peer, BOOLEAN)
    <3>1. \/ activelyProbedPeers' = activelyProbedPeers
          \/ activelyProbedPeers' = With(activelyProbedPeers, p, FALSE)
      BY <1>1 DEF ProbePeerRequestHandler
    <3>2. IsMap(activelyProbedPeers, Peer, BOOLEAN)
      BY <1>1 DEF Typed
    <3> HIDE DEF p
    <3> QED BY <2>1, <3>1, <3>2, MarkIsMap
  <2>3. probes' \in [Peer -> Nat]
    <3>1. probes' = probes \/ probes' = [probes EXCEPT ![p] = @ + 1]
      BY <1>1 DEF ProbePeerRequestHandler
    <3>2. probes \in [Peer -> Nat]
      BY <1>1 DEF Typed
    <3> HIDE DEF p
    <3> QED BY <2>1, <3>1, <3>2
  <2> QED
    BY <1>1, <2>1, <2>2, <2>3 DEF Typed, ProbePeerRequestHandler, lists, served, endpoints, membership
<1>2. ASSUME Typed, CentralProbePeerReplyHandler PROVE Typed'
  <2> DEFINE p == Msg.peer
  <2>1. p \in Peer
    BY <1>2, Received, MessageFields DEF CentralProbePeerReplyHandler, PeerMessageType
  <2>2. ForPeer("PeerAdd", p) \in Message
    BY <2>1, MessagesBuilt DEF PeerMessageType
  <2>3. inbox' \in Seq(Message)
    BY <1>2, <2>2, Received DEF CentralProbePeerReplyHandler, Dequeue, DequeueAndSend
  <2>4. IsMap(activelyProbedPeers', Peer, BOOLEAN)
    BY <1>2, WithoutIsMap DEF CentralProbePeerReplyHandler, Typed
  <2> QED
    BY <1>2, <2>3, <2>4
       DEF Typed, CentralProbePeerReplyHandler, lists, served, endpoints, others, membership
<1> QED
  BY <1>1, <1>2

LEMMA OutgoingCreatedTyped == Typed /\ OutgoingP2PCreatedHandler => Typed'
<1> SUFFICES ASSUME Typed, OutgoingP2PCreatedHandler PROVE Typed'
  OBVIOUS
<1> DEFINE p == Msg.endp
<1>1. p \in Peer
  BY Received, MessageFields DEF OutgoingP2PCreatedHandler
<1>2. Tail(inbox) \in Seq(Message) /\ Append(Tail(inbox), ForPeer("PeerRemove", p)) \in Seq(Message)
  <2>1. ForPeer("PeerRemove", p) \in Message
    BY <1>1, MessagesBuilt DEF PeerMessageType
  <2> QED BY <2>1, Received DEF OutgoingP2PCreatedHandler
<1>3. /\ inbox' \in Seq(Message)
      /\ \/ UNCHANGED <<viewList, activelyCreatedPeers, endpoints, totalGoroutines>>
         \/ /\ activelyCreatedPeers' = Without(activelyCreatedPeers, p)
            /\ Start(p, Msg.ok)
            /\ totalGoroutines' = totalGoroutines + TwoHalves
            /\ viewList' = With(viewList, p, Fresh)
  BY <1>2 DEF OutgoingP2PCreatedHandler, Dequeue, DequeueAndSend
<1> HIDE DEF p
<1>4. IsMap(viewList', Peer, Info)
  <2>1. IsMap(viewList, Peer, Info)
    BY DEF Typed
  <2> QED BY <1>1, <1>3, <2>1, WithIsMap, InfoBuilt
<1>5. IsMap(activelyCreatedPeers', Peer, BOOLEAN)
  <2>1. IsMap(activelyCreatedPeers, Peer, BOOLEAN)
    BY DEF Typed
  <2> QED BY <1>3, <2>1, WithoutIsMap
<1>6. /\ running' \subseteq Endpoint \X Half /\ closing' \subseteq Endpoint
      /\ connected' \subseteq Endpoint /\ totalGoroutines' \in Int
  BY <1>1, <1>3 DEF Typed, Start, TwoHalves, endpoints, Endpoint
<1> QED
  BY <1>3, <1>4, <1>5, <1>6
     DEF Typed, OutgoingP2PCreatedHandler, served, others, membership

LEMMA OutgoingClosedTyped == Typed /\ OutgoingPeerClosed => Typed'
<1> SUFFICES ASSUME Typed, OutgoingPeerClosed PROVE Typed'
  OBVIOUS
<1> DEFINE p == Msg.endp
           held == IF p \in DOMAIN viewList THEN viewList ELSE awaitingRemovalViewList
           info == Stopped(held[p], Msg.half, Msg.err)
<1>1. p \in Peer /\ Msg.half \in Half /\ Msg.err \in BOOLEAN /\ inbox' \in Seq(Message)
  BY Received, MessageFields DEF OutgoingPeerClosed, Dequeue
<1>2. \/ UNCHANGED <<lists, mInbox, endpoints, totalGoroutines, status>>
      \/ /\ p \in DOMAIN held
         /\ totalGoroutines' = totalGoroutines - 1
         /\ OutgoingPeerCompletelyClosed(p, info) \/ OutgoingHalfClosed(p, info)
  BY DEF OutgoingPeerClosed
<1>3. p \in DOMAIN held => info \in Info
  <2>1. p \in DOMAIN held => held[p] \in Info
    BY MapAt DEF Typed
  <2> QED BY <1>1, <2>1, InfoBuilt
<1> HIDE DEF info, held, p
<1>4. IsMap(viewList, Peer, Info) /\ IsMap(awaitingRemovalViewList, Peer, Info)
  BY DEF Typed
<1>5. CASE UNCHANGED <<lists, mInbox, endpoints, totalGoroutines, status>>
  BY <1>1, <1>5 DEF Typed, OutgoingPeerClosed, marks, served, others, lists, endpoints
<1>6. CASE /\ p \in DOMAIN held
           /\ totalGoroutines' = totalGoroutines - 1
           /\ OutgoingPeerCompletelyClosed(p, info)
  <2>1. IsMap(viewList', Peer, Info)
    <3>1. \/ viewList' = viewList
          \/ viewList' = Without(viewList, p)
          \/ viewList' = With(viewList, p, info)
      BY <1>6 DEF OutgoingPeerCompletelyClosed
    <3> QED BY <1>1, <1>3, <1>4, <1>6, <3>1, WithIsMap, WithoutIsMap
  <2>4. IsMap(awaitingRemovalViewList', Peer, Info)
    <3>1. \/ awaitingRemovalViewList' = awaitingRemovalViewList
          \/ awaitingRemovalViewList' = Without(awaitingRemovalViewList, p)
          \/ awaitingRemovalViewList' = With(awaitingRemovalViewList, p, info)
      BY <1>6 DEF OutgoingPeerCompletelyClosed
    <3> QED BY <1>1, <1>3, <1>4, <1>6, <3>1, WithIsMap, WithoutIsMap
  <2>2. mInbox' \in Seq([type : {"PeerDisconnected"}, peer : Peer])
    <3> DEFINE m == ForPeer("PeerDisconnected", p)
               S == [type : {"PeerDisconnected"}, peer : Peer]
    <3>1. mInbox' = mInbox \/ mInbox' = Append(mInbox, m)
      BY <1>6 DEF OutgoingPeerCompletelyClosed
    <3>2. m \in S
      BY <1>1 DEF ForPeer
    <3>3. mInbox \in Seq(S)
      BY DEF Typed
    <3> HIDE DEF m, S
    <3>4. mInbox' \in Seq(S)
      BY <3>1, <3>2, <3>3
    <3> QED BY <3>4 DEF S
  <2>3. status' \in {"running", "done", "crashed"} /\ totalGoroutines' \in Int /\ UNCHANGED endpoints
    BY <1>6 DEF OutgoingPeerCompletelyClosed, Finish, Typed
  <2> QED
    BY <1>1, <2>1, <2>2, <2>3, <2>4 DEF Typed, OutgoingPeerClosed, marks, served, others, endpoints
<1>7. CASE /\ p \in DOMAIN held
           /\ totalGoroutines' = totalGoroutines - 1
           /\ OutgoingHalfClosed(p, info)
  <2>1. IsMap(viewList', Peer, Info) /\ IsMap(awaitingRemovalViewList', Peer, Info)
    BY <1>1, <1>3, <1>4, <1>7, WithIsMap DEF OutgoingHalfClosed
  <2>2. closing' \subseteq Endpoint /\ UNCHANGED <<running, connected, mInbox, status>>
    BY <1>1, <1>7 DEF OutgoingHalfClosed, CloseAll, Typed, Endpoint
  <2>3. totalGoroutines' \in Int
    BY <1>7 DEF Typed
  <2> QED
    BY <1>1, <2>1, <2>2, <2>3 DEF Typed, OutgoingPeerClosed, marks, served, others
<1> QED
  BY <1>2, <1>5, <1>6, <1>7

\* The three variables of a table of served endpoints and its goroutines.
LEMMA ServeTyped ==
    ASSUME Typed, NEW table, NEW table1, NEW K \in SUBSET Endpoint, NEW admitted,
           IsMap(table, K, Info), Msg.endp \in K,
           \/ /\ table1 = With(table, Msg.endp, Fresh)
              /\ totalGoroutines' = totalGoroutines + TwoHalves
              /\ Start(Msg.endp, Msg.ok)
           \/ table1 = table /\ UNCHANGED <<totalGoroutines, endpoints>>
    PROVE  /\ IsMap(table1, K, Info) /\ totalGoroutines' \in Int
           /\ running' \subseteq Endpoint \X Half /\ closing' \subseteq Endpoint
           /\ connected' \subseteq Endpoint
<1>1. IsMap(table1, K, Info)
  BY WithIsMap, InfoBuilt
<1> QED
  BY <1>1 DEF Typed, Start, TwoHalves, endpoints

LEMMA ServedTyped ==
    ASSUME Typed, IncomingP2PCreatedHandler \/ APIEndpointCreatedHandler
    PROVE  Typed'
<1>1. CASE IncomingP2PCreatedHandler
  <2>1. inbox' \in Seq(Message)
    BY <1>1, Received DEF IncomingP2PCreatedHandler, Dequeue
  <2>2. /\ IsMap(incomingViewList', Inbound, Info) /\ totalGoroutines' \in Int
        /\ running' \subseteq Endpoint \X Half /\ closing' \subseteq Endpoint
        /\ connected' \subseteq Endpoint
    <3>1. \/ /\ incomingViewList' = With(incomingViewList, Msg.endp, Fresh)
             /\ totalGoroutines' = totalGoroutines + TwoHalves
             /\ Start(Msg.endp, Msg.ok)
          \/ UNCHANGED <<incomingViewList, totalGoroutines, endpoints>>
      BY <1>1 DEF IncomingP2PCreatedHandler, Serve
    <3>2. Msg.endp \in Inbound /\ IsMap(incomingViewList, Inbound, Info) /\ Inbound \subseteq Endpoint
      BY <1>1 DEF IncomingP2PCreatedHandler, Typed, Endpoint
    <3> QED BY <3>1, <3>2, ServeTyped
  <2> QED
    BY <1>1, <2>1, <2>2 DEF Typed, IncomingP2PCreatedHandler, lists, marks, others, membership
<1>2. CASE APIEndpointCreatedHandler
  <2>1. inbox' \in Seq(Message)
    BY <1>2, Received DEF APIEndpointCreatedHandler, Dequeue
  <2>2. /\ IsMap(apiClients', Client, Info) /\ totalGoroutines' \in Int
        /\ running' \subseteq Endpoint \X Half /\ closing' \subseteq Endpoint
        /\ connected' \subseteq Endpoint
    <3>1. \/ /\ apiClients' = With(apiClients, Msg.endp, Fresh)
             /\ totalGoroutines' = totalGoroutines + TwoHalves
             /\ Start(Msg.endp, Msg.ok)
          \/ UNCHANGED <<apiClients, totalGoroutines, endpoints>>
      BY <1>2 DEF APIEndpointCreatedHandler, Serve
    <3>2. Msg.endp \in Client /\ IsMap(apiClients, Client, Info) /\ Client \subseteq Endpoint
      BY <1>2 DEF APIEndpointCreatedHandler, Typed, Endpoint
    <3> QED BY <3>1, <3>2, ServeTyped
  <2> QED
    BY <1>2, <2>1, <2>2 DEF Typed, APIEndpointCreatedHandler, lists, marks, others, membership
<1> QED
  BY <1>1, <1>2

LEMMA ServedClosedTyped ==
    ASSUME Typed, NEW table, NEW table1, NEW K \in SUBSET Endpoint,
           IsMap(table, K, Info), Msg.endp \in K, Msg.half \in Half, Msg.err \in BOOLEAN,
           \/ table1 = table /\ UNCHANGED <<totalGoroutines, endpoints>>
           \/ /\ Msg.endp \in DOMAIN table
              /\ totalGoroutines' = totalGoroutines - 1
              /\ \/ table1 = Without(table, Msg.endp) /\ UNCHANGED endpoints
                 \/ /\ table1 = With(table, Msg.endp,
                                     Stopped(table[Msg.endp], Msg.half, Msg.err))
                    /\ CloseAll({Msg.endp}) \/ CloseAll({})
    PROVE  /\ IsMap(table1, K, Info) /\ totalGoroutines' \in Int
           /\ running' \subseteq Endpoint \X Half /\ closing' \subseteq Endpoint
           /\ connected' \subseteq Endpoint
<1>1. Msg.endp \in DOMAIN table => Stopped(table[Msg.endp], Msg.half, Msg.err) \in Info
  BY MapAt, InfoBuilt
<1>2. IsMap(table1, K, Info)
  BY <1>1, WithIsMap, WithoutIsMap
<1>3. totalGoroutines' \in Int
  BY DEF Typed
<1> QED
  BY <1>2, <1>3 DEF Typed, CloseAll, endpoints

LEMMA ServedEndsTyped ==
    ASSUME Typed, IncomingPeerClosed \/ APIEndpointClosed
    PROVE  Typed'
<1>1. CASE IncomingPeerClosed
  <2>1. /\ inbox' \in Seq(Message) /\ Msg.endp \in Inbound
        /\ Msg.half \in Half /\ Msg.err \in BOOLEAN
    BY <1>1, Received, MessageFields DEF IncomingPeerClosed, Dequeue
  <2>2. /\ IsMap(incomingViewList', Inbound, Info) /\ totalGoroutines' \in Int
        /\ running' \subseteq Endpoint \X Half /\ closing' \subseteq Endpoint
        /\ connected' \subseteq Endpoint
    <3>1. \/ UNCHANGED <<incomingViewList, totalGoroutines, endpoints>>
          \/ /\ Msg.endp \in DOMAIN incomingViewList
             /\ totalGoroutines' = totalGoroutines - 1
             /\ \/ incomingViewList' = Without(incomingViewList, Msg.endp) /\ UNCHANGED endpoints
                \/ /\ incomingViewList' = With(incomingViewList, Msg.endp,
                           Stopped(incomingViewList[Msg.endp], Msg.half, Msg.err))
                   /\ CloseAll({Msg.endp}) \/ CloseAll({})
      BY <1>1, Zenon DEF IncomingPeerClosed, ServedClosed
    <3>2. IsMap(incomingViewList, Inbound, Info) /\ Inbound \subseteq Endpoint
      BY DEF Typed, Endpoint
    <3> QED BY <2>1, <3>1, <3>2, ServedClosedTyped
  <2>3. status' \in {"running", "done", "crashed"}
    BY <1>1 DEF IncomingPeerClosed, Finish, Typed
  <2> QED
    BY <1>1, <2>1, <2>2, <2>3 DEF Typed, IncomingPeerClosed, lists, marks, others, membership
<1>2. CASE APIEndpointClosed
  <2>1. /\ inbox' \in Seq(Message) /\ Msg.endp \in Client
        /\ Msg.half \in Half /\ Msg.err \in BOOLEAN
    BY <1>2, Received, MessageFields DEF APIEndpointClosed, Dequeue
  <2>2. /\ IsMap(apiClients', Client, Info) /\ totalGoroutines' \in Int
        /\ running' \subseteq Endpoint \X Half /\ closing' \subseteq Endpoint
        /\ connected' \subseteq Endpoint
    <3>1. \/ UNCHANGED <<apiClients, totalGoroutines, endpoints>>
          \/ /\ Msg.endp \in DOMAIN apiClients
             /\ totalGoroutines' = totalGoroutines - 1
             /\ \/ apiClients' = Without(apiClients, Msg.endp) /\ UNCHANGED endpoints
                \/ /\ apiClients' = With(apiClients, Msg.endp,
                           Stopped(apiClients[Msg.endp], Msg.half, Msg.err))
                   /\ CloseAll({Msg.endp}) \/ CloseAll({})
      BY <1>2, Zenon DEF APIEndpointClosed, ServedClosed
    <3>2. IsMap(apiClients, Client, Info) /\ Client \subseteq Endpoint
      BY DEF Typed, Endpoint
    <3> QED BY <2>1, <3>1, <3>2, ServedClosedTyped
  <2>3. status' \in {"running", "done", "crashed"}
    BY <1>2 DEF APIEndpointClosed, Finish, Typed
  <2> QED
    BY <1>2, <2>1, <2>2, <2>3 DEF Typed, APIEndpointClosed, lists, marks, others, membership
<1> QED
  BY <1>1, <1>2

LEMMA LoansTyped ==
    ASSUME Typed
    PROVE  /\ RandomPeerListRequestHandler => Typed'
           /\ \A peers \in SUBSET Peer : RandomPeerListReleaseHandler(peers) => Typed'
           /\ \A peer \in Peer : GossiperForgets(peer) => Typed'
<1>1. ASSUME RandomPeerListRequestHandler PROVE Typed'
  <2>1. PICK ps \in SUBSET DOMAIN viewList :
           /\ viewList' = [p \in DOMAIN viewList |->
                              IF p \in ps THEN Used(viewList[p], 1) ELSE viewList[p]]
           /\ loans' = [p \in Peer |-> IF p \in ps THEN loans[p] + 1 ELSE loans[p]]
    BY <1>1, Zenon DEF RandomPeerListRequestHandler
  <2>2. IsMap(viewList', Peer, Info)
    <3>1. IsMap(viewList, Peer, Info)
      BY DEF Typed
    <3> QED BY <2>1, <3>1, InfoBuilt DEF IsMap
  <2>3. loans' \in [Peer -> Nat]
    BY <2>1 DEF Typed
  <2> QED
    BY <1>1, <2>2, <2>3
       DEF Typed, RandomPeerListRequestHandler, marks, served, endpoints, others, membership
<1>2. ASSUME NEW peers \in SUBSET Peer, RandomPeerListReleaseHandler(peers) PROVE Typed'
  <2> DEFINE waiting == peers \cap (DOMAIN awaitingRemovalViewList \ DOMAIN viewList)
             returned == [p \in waiting |-> Used(awaitingRemovalViewList[p], -1)]
             gone == {p \in waiting : RemovedAtOnce(returned[p])}
  <2>1. /\ \A p \in peers : loans[p] > 0
        /\ loans' = [p \in Peer |-> IF p \in peers THEN loans[p] - 1 ELSE loans[p]]
        /\ viewList' = [p \in DOMAIN viewList |->
                           IF p \in peers THEN Used(viewList[p], -1) ELSE viewList[p]]
        /\ awaitingRemovalViewList' = [p \in DOMAIN awaitingRemovalViewList \ gone |->
                  IF p \in waiting THEN returned[p] ELSE awaitingRemovalViewList[p]]
        /\ CloseAll(ToClose(returned))
    BY <1>2, Zenon DEF RandomPeerListReleaseHandler
  <2>2. IsMap(viewList', Peer, Info)
    <3>1. IsMap(viewList, Peer, Info)
      BY DEF Typed
    <3> QED BY <2>1, <3>1, InfoBuilt DEF IsMap
  <2>3. IsMap(awaitingRemovalViewList', Peer, Info)
    <3>1. IsMap(awaitingRemovalViewList, Peer, Info)
      BY DEF Typed
    <3>2. \A p \in waiting : returned[p] \in Info
      BY <3>1, InfoBuilt, MapAt
    <3> HIDE DEF gone, returned, waiting
    <3> QED BY <2>1, <3>1, <3>2 DEF IsMap
  <2>4. loans' \in [Peer -> Nat]
    <3>1. loans \in [Peer -> Nat]
      BY DEF Typed
    <3> QED BY <2>1, <3>1
  <2>5. closing' \subseteq Endpoint /\ UNCHANGED <<running, connected>>
    BY <2>1 DEF CloseAll, ToClose, Typed, Endpoint
  <2> QED
    BY <1>2, <2>2, <2>3, <2>4, <2>5
       DEF Typed, RandomPeerListReleaseHandler, marks, served, others, membership
<1>3. ASSUME NEW peer \in Peer, GossiperForgets(peer) PROVE Typed'
  <2>1. loans' \in [Peer -> Nat]
    BY <1>3 DEF GossiperForgets, Typed
  <2> QED
    BY <1>3, <2>1 DEF Typed, GossiperForgets, central, lists, marks, served, endpoints,
                      others, membership
<1> QED
  BY <1>1, <1>2, <1>3

LEMMA ShutdownTyped ==
    ASSUME Typed, CloseHandler \/ SubmoduleClosedHandler \/ CrashHandler \/ DropMessage
    PROVE  Typed'
<1>1. CASE CloseHandler
  <2>1. inbox' \in Seq(Message)
    BY <1>1, Received DEF CloseHandler, Dequeue
  <2>2. active' \in [Submodule -> {"running", "closing", "ended"}]
    BY <1>1 DEF CloseHandler, Typed
  <2>3. closing' \subseteq Endpoint /\ UNCHANGED <<running, connected>>
    BY <1>1 DEF CloseHandler, CloseAll, AllOutgoing, Typed, IsMap, Endpoint
  <2>4. IsMap(activelyCreatedPeers', Peer, BOOLEAN)
    BY <1>1 DEF CloseHandler, Typed, IsMap
  <2>5. IsMap(activelyProbedPeers', Peer, BOOLEAN)
    BY <1>1 DEF CloseHandler, Typed, IsMap
  <2>6. isStopping' \in BOOLEAN
    BY <1>1 DEF CloseHandler
  <2> QED
    BY <1>1, <2>1, <2>2, <2>3, <2>4, <2>5, <2>6
       DEF Typed, CloseHandler, lists, served, membership
<1>2. CASE SubmoduleClosedHandler
  <2>1. inbox' \in Seq(Message)
    BY <1>2, Received DEF SubmoduleClosedHandler, Dequeue
  <2>2. /\ submodules' \subseteq Submodule /\ totalGoroutines' \in Int
        /\ status' \in {"running", "done", "crashed"}
    BY <1>2 DEF SubmoduleClosedHandler, Finish, Typed
  <2> QED
    BY <1>2, <2>1, <2>2
       DEF Typed, SubmoduleClosedHandler, lists, marks, served, endpoints, others, membership
<1>3. CASE CrashHandler
  <2>1. inbox' \in Seq(Message)
    BY <1>3, Received DEF CrashHandler, Dequeue
  <2> QED
    BY <1>3, <2>1
       DEF Typed, CrashHandler, central, lists, marks, served, endpoints, others, membership
<1>4. CASE DropMessage
  <2>1. inbox' \in Seq(Message)
    BY <1>4 DEF DropMessage, Dequeue, Typed
  <2> QED
    BY <1>4, <2>1
       DEF Typed, DropMessage, central, lists, marks, served, endpoints, others, membership
<1> QED
  BY <1>1, <1>2, <1>3, <1>4

LEMMA Sent ==
    ASSUME Typed, NEW m \in Message, Send(m)
    PROVE  inbox' \in Seq(Message)
BY DEF Typed, Send

LEMMA GoroutinesTyped ==
    ASSUME Typed
    PROVE  /\ \A peer \in Peer, ok \in BOOLEAN :
                 DialEnds(peer, ok) \/ ProbeEnds(peer, ok) => Typed'
           /\ \A endp \in Endpoint, half \in Half :
                 EndpointCloses(endp, half) \/ EndpointCrashes(endp, half) => Typed'
           /\ \A endp \in Inbound \cup Client : ListenerAccepts(endp) => Typed'
           /\ \A s \in Submodule : SubmoduleCloses(s) \/ SubmoduleCrashes(s) => Typed'
           /\ UserInterrupts \/ ClosureTimesOut => Typed'
<1>1. ASSUME NEW peer \in Peer, NEW ok \in BOOLEAN, DialEnds(peer, ok) PROVE Typed'
  <2>1. inbox' \in Seq(Message)
    BY <1>1, Sent, MessagesBuilt DEF DialEnds
  <2>2. dials' \in [Peer -> Nat]
    BY <1>1 DEF DialEnds, Typed
  <2> QED
    BY <1>1, <2>1, <2>2
       DEF Typed, DialEnds, central, lists, marks, served, endpoints, membership
<1>2. ASSUME NEW peer \in Peer, NEW ok \in BOOLEAN, ProbeEnds(peer, ok) PROVE Typed'
  <2>1. ForPeer("CentralProbePeerReply", peer) \in Message
    BY MessagesBuilt DEF PeerMessageType
  <2>2. inbox' \in Seq(Message) /\ status' \in {"running", "done", "crashed"}
    BY <1>2, <2>1, Sent DEF ProbeEnds, Typed
  <2>3. probes' \in [Peer -> Nat]
    BY <1>2 DEF ProbeEnds, Typed
  <2> QED
    BY <1>2, <2>2, <2>3
       DEF Typed, ProbeEnds, central, lists, marks, served, endpoints, membership
<1>3. ASSUME NEW endp \in Endpoint, NEW half \in Half, NEW err \in BOOLEAN, Ends(endp, half, err)
      PROVE  Typed'
  <2>1. inbox' \in Seq(Message)
    BY <1>3, Sent, MessagesBuilt DEF Ends
  <2>2. running' \subseteq Endpoint \X Half
    BY <1>3 DEF Ends, Typed
  <2> QED
    BY <1>3, <2>1, <2>2 DEF Typed, Ends, central, lists, marks, served, others, membership
<1>4. ASSUME NEW endp \in Endpoint, NEW half \in Half,
             EndpointCloses(endp, half) \/ EndpointCrashes(endp, half)
      PROVE  Typed'
  BY <1>3, <1>4 DEF EndpointCloses, EndpointCrashes
<1>5. ASSUME NEW endp \in Inbound \cup Client, ListenerAccepts(endp) PROVE Typed'
  <2>1. inbox' \in Seq(Message)
    BY <1>5, Sent, MessagesBuilt DEF ListenerAccepts
  <2>2. arrivals' \in Nat
    BY <1>5 DEF ListenerAccepts, Typed
  <2> QED
    BY <1>5, <2>1, <2>2
       DEF Typed, ListenerAccepts, central, lists, marks, served, endpoints, membership
<1>6. ASSUME NEW s \in Submodule, SubmoduleCloses(s) PROVE Typed'
  <2>1. inbox' \in Seq(Message)
    BY <1>6, Sent, MessagesBuilt DEF SubmoduleCloses
  <2>2. /\ active' \in [Submodule -> {"running", "closing", "ended"}]
        /\ mInbox' \in Seq([type : {"PeerDisconnected"}, peer : Peer])
    BY <1>6 DEF SubmoduleCloses, Typed
  <2> QED
    BY <1>6, <2>1, <2>2 DEF Typed, SubmoduleCloses, central, lists, marks, served, endpoints
<1>7. ASSUME NEW s \in Submodule, SubmoduleCrashes(s) PROVE Typed'
  <2>1. inbox' \in Seq(Message)
    BY <1>7, Sent, MessagesBuilt DEF SubmoduleCrashes
  <2>2. active' \in [Submodule -> {"running", "closing", "ended"}]
    BY <1>7 DEF SubmoduleCrashes, Typed
  <2> QED
    BY <1>7, <2>1, <2>2
       DEF Typed, SubmoduleCrashes, central, lists, marks, served, endpoints, membership
<1>8. ASSUME UserInterrupts \/ ClosureTimesOut PROVE Typed'
  <2>1. inbox' \in Seq(Message)
    BY <1>8, Sent, MessagesBuilt DEF UserInterrupts, ClosureTimesOut
  <2> QED
    BY <1>8, <2>1 DEF Typed, UserInterrupts, ClosureTimesOut, central, lists, marks, served,
                      endpoints, others, membership
<1> QED
  BY <1>1, <1>2, <1>4, <1>5, <1>6, <1>7, <1>8

\* A block of orders of one type, as ReplaceViewList sends it.
LEMMA OrdersInBlock ==
    ASSUME NEW type \in {"PeerRemove", "PeerAdd"}, NEW S \in SUBSET Peer,
           NEW f \in [1..Cardinality(S) -> {ForPeer(type, p) : p \in S}]
    PROVE  /\ f \in Seq(Message)
           /\ \A i \in DOMAIN f : f[i].type = type
<1>1. IsFiniteSet(S) /\ Cardinality(S) \in Nat
  BY EndpointAssumption, FS_Subset, FS_CardinalityType
<1>2. \A i \in 1..Cardinality(S) : f[i] \in Message /\ f[i].type = type
  BY MessagesBuilt DEF ForPeer, PeerMessageType
<1> QED
  BY <1>1, <1>2

LEMMA MembershipTyped ==
    ASSUME Typed
    PROVE  /\ \A newViewList \in Views : ReplaceViewList(newViewList) => Typed'
           /\ \A peer \in Peer : MembershipProbes(peer) => Typed'
           /\ PeerDisconnectedHandler => Typed'
<1>1. ASSUME NEW newViewList \in Views, ReplaceViewList(newViewList) PROVE Typed'
  <2>1. PICK removals \in [1..Cardinality(members \ newViewList) ->
                               {ForPeer("PeerRemove", p) : p \in members \ newViewList}],
             additions \in [1..Cardinality(newViewList \ members) ->
                               {ForPeer("PeerAdd", p) : p \in newViewList \ members}] :
           inbox' = inbox \o removals \o additions
    BY <1>1, Zenon DEF ReplaceViewList
  <2>2. members \ newViewList \in SUBSET Peer /\ newViewList \ members \in SUBSET Peer
    BY DEF Typed, Views
  <2>3. removals \in Seq(Message) /\ additions \in Seq(Message)
    BY <2>2, OrdersInBlock
  <2>4. inbox' \in Seq(Message)
    BY <2>1, <2>3 DEF Typed
  <2>5. members' \subseteq Peer /\ views' \in Nat
    BY <1>1 DEF ReplaceViewList, Views, Typed
  <2> QED
    BY <1>1, <2>4, <2>5
       DEF Typed, ReplaceViewList, central, lists, marks, served, endpoints, others
<1>2. ASSUME NEW peer \in Peer, MembershipProbes(peer) PROVE Typed'
  <2>1. ForPeer("ProbePeerRequest", peer) \in Message
    BY MessagesBuilt DEF PeerMessageType
  <2>2. inbox' \in Seq(Message) /\ asked' \in Nat
    BY <1>2, <2>1, Sent DEF MembershipProbes, Typed
  <2> QED
    BY <1>2, <2>2
       DEF Typed, MembershipProbes, central, lists, marks, served, endpoints, others
<1>3. ASSUME PeerDisconnectedHandler PROVE Typed'
  <2> DEFINE m == Head(mInbox)
             S == [type : {"PeerDisconnected"}, peer : Peer]
  <2>1. m \in S /\ mInbox' \in Seq(S)
    <3>1. mInbox \in Seq(S) /\ mInbox # <<>> /\ mInbox' = Tail(mInbox)
      BY <1>3 DEF PeerDisconnectedHandler, Typed
    <3> HIDE DEF S
    <3> QED BY <3>1
  <2>2. ForPeer("PeerRemove", m.peer) \in Message
    BY <2>1, MessagesBuilt DEF PeerMessageType
  <2>3. inbox' \in Seq(Message) /\ members' \subseteq Peer
    BY <1>3, <2>2, Sent DEF PeerDisconnectedHandler, Typed
  <2> QED
    BY <1>3, <2>1, <2>3
       DEF Typed, PeerDisconnectedHandler, central, lists, marks, served, endpoints, others
<1> QED
  BY <1>1, <1>2, <1>3

LEMMA NextTyped == Typed /\ [Next]_vars => Typed'
<1> SUFFICES ASSUME Typed, [Next]_vars PROVE Typed'
  OBVIOUS
<1>1. CASE Handler
  BY <1>1, PeerAddTyped, PeerRemoveTyped, ProbeTyped, OutgoingCreatedTyped, OutgoingClosedTyped,
     ServedTyped, ServedEndsTyped, ShutdownTyped DEF Handler
<1>2. CASE UNCHANGED vars
  BY <1>2 DEF Typed, vars, central, lists, marks, served, endpoints, others, membership
<1>3. Crashing \subseteq Submodule
  BY SubmoduleAssumption
<1> QED
  BY <1>1, <1>2, <1>3, LoansTyped, GoroutinesTyped, MembershipTyped DEF Next

-----------------------------------------------------------------------------
(* The places of a peer and the loans to the Gossiper *)

Places == OnePlace /\ NoneOverdue /\ LoansAccounted

LEMMA WithoutAt ==
    ASSUME NEW m, NEW k
    PROVE  /\ DOMAIN Without(m, k) = DOMAIN m \ {k}
           /\ \A x \in DOMAIN m \ {k} : Without(m, k)[x] = m[x]
BY DEF Without

LEMMA InitPlaces == Init => Places
BY DEF Init, Places, OnePlace, NoneOverdue, LoansAccounted, AllOutgoing, EmptyMap

\* Places speaks of the tables, the marks, the loans and the shutdown only.
LEMMA PlacesStay ==
    ASSUME Places, UNCHANGED <<lists, marks, loans, isStopping>>
    PROVE  Places'
BY DEF Places, OnePlace, NoneOverdue, LoansAccounted, AllOutgoing, lists, marks

LEMMA PeerAddPlaces == Typed /\ Places /\ PeerAddHandler => Places'
<1> SUFFICES ASSUME Typed, Places, PeerAddHandler PROVE Places'
  OBVIOUS
<1> DEFINE p == Msg.peer
<1>1. UNCHANGED <<loans, isStopping>>
  BY DEF PeerAddHandler
<1>2. \/ UNCHANGED <<lists, marks>>
      \/ /\ p \in DOMAIN awaitingRemovalViewList \ DOMAIN viewList
         /\ viewList' = With(viewList, p, awaitingRemovalViewList[p])
         /\ awaitingRemovalViewList' = Without(awaitingRemovalViewList, p)
         /\ UNCHANGED marks
      \/ /\ p \notin DOMAIN viewList \cup DOMAIN awaitingRemovalViewList
         /\ UNCHANGED lists
         /\ IF p \in DOMAIN activelyProbedPeers \ DOMAIN activelyCreatedPeers
            THEN /\ activelyProbedPeers' = With(activelyProbedPeers, p, TRUE)
                 /\ UNCHANGED activelyCreatedPeers
            ELSE /\ activelyCreatedPeers' = With(activelyCreatedPeers, p, FALSE)
                 /\ UNCHANGED activelyProbedPeers
  BY DEF PeerAddHandler
<1> HIDE DEF p
<1>3. CASE UNCHANGED <<lists, marks>>
  BY <1>1, <1>3, PlacesStay
<1>4. CASE /\ p \in DOMAIN awaitingRemovalViewList \ DOMAIN viewList
           /\ viewList' = With(viewList, p, awaitingRemovalViewList[p])
           /\ awaitingRemovalViewList' = Without(awaitingRemovalViewList, p)
           /\ UNCHANGED marks
  <2>1. /\ DOMAIN viewList' = DOMAIN viewList \cup {p}
        /\ viewList'[p] = awaitingRemovalViewList[p]
        /\ \A x \in DOMAIN viewList : x # p => viewList'[x] = viewList[x]
        /\ DOMAIN awaitingRemovalViewList' = DOMAIN awaitingRemovalViewList \ {p}
        /\ \A x \in DOMAIN awaitingRemovalViewList \ {p} :
              awaitingRemovalViewList'[x] = awaitingRemovalViewList[x]
    BY <1>4 DEF With, Without
  <2>2. OnePlace'
    BY <1>4, <2>1 DEF Places, OnePlace, marks
  <2>3. NoneOverdue'
    BY <2>1 DEF Places, NoneOverdue
  <2>4. LoansAccounted'
    BY <1>1, <1>4, <2>1 DEF Places, LoansAccounted, AllOutgoing
  <2> QED BY <2>2, <2>3, <2>4 DEF Places
<1>5. CASE /\ p \notin DOMAIN viewList \cup DOMAIN awaitingRemovalViewList
           /\ UNCHANGED lists
           /\ IF p \in DOMAIN activelyProbedPeers \ DOMAIN activelyCreatedPeers
              THEN /\ activelyProbedPeers' = With(activelyProbedPeers, p, TRUE)
                   /\ UNCHANGED activelyCreatedPeers
              ELSE /\ activelyCreatedPeers' = With(activelyCreatedPeers, p, FALSE)
                   /\ UNCHANGED activelyProbedPeers
  <2>1. \/ /\ DOMAIN activelyProbedPeers' = DOMAIN activelyProbedPeers
           /\ DOMAIN activelyCreatedPeers' = DOMAIN activelyCreatedPeers
        \/ /\ p \notin DOMAIN activelyProbedPeers \/ p \in DOMAIN activelyCreatedPeers
           /\ DOMAIN activelyProbedPeers' = DOMAIN activelyProbedPeers
           /\ DOMAIN activelyCreatedPeers' = DOMAIN activelyCreatedPeers \cup {p}
    BY <1>5 DEF With
  <2>2. OnePlace'
    BY <1>5, <2>1 DEF Places, OnePlace, lists
  <2> QED BY <1>1, <1>5, <2>2 DEF Places, NoneOverdue, LoansAccounted, AllOutgoing, lists
<1> QED
  BY <1>2, <1>3, <1>4, <1>5

LEMMA PeerRemovePlaces == Typed /\ Places /\ PeerRemoveHandler => Places'
<1> SUFFICES ASSUME Typed, Places, PeerRemoveHandler PROVE Places'
  OBVIOUS
<1> DEFINE p == Msg.peer
<1>1. UNCHANGED <<loans, isStopping>>
  BY DEF PeerRemoveHandler
<1>2. \/ UNCHANGED <<lists, marks>>
      \/ /\ p \in DOMAIN viewList \ DOMAIN awaitingRemovalViewList
         /\ PeerRemoveListed(p)
      \/ PeerRemoveMarked(p)
  BY DEF PeerRemoveHandler
<1> HIDE DEF p
<1>3. CASE UNCHANGED <<lists, marks>>
  BY <1>1, <1>3, PlacesStay
<1>4. CASE p \in DOMAIN viewList \ DOMAIN awaitingRemovalViewList /\ PeerRemoveListed(p)
  <2>1. /\ DOMAIN viewList' = DOMAIN viewList \ {p}
        /\ \A x \in DOMAIN viewList \ {p} : viewList'[x] = viewList[x]
        /\ UNCHANGED marks
    BY <1>4, WithoutAt DEF PeerRemoveListed
  <2>2. CASE RemovedAtOnce(viewList[p])
    <3>1. /\ DOMAIN awaitingRemovalViewList' = DOMAIN awaitingRemovalViewList \ {p}
          /\ \A x \in DOMAIN awaitingRemovalViewList \ {p} :
                awaitingRemovalViewList'[x] = awaitingRemovalViewList[x]
      BY <1>4, <2>2, WithoutAt DEF PeerRemoveListed
    <3>2. isStopping \/ (p \in Peer => loans[p] = 0)
      <4>1. viewList[p] \in Info /\ viewList[p].usageCounter <= 0
        BY <1>4, <2>2, MapAt DEF RemovedAtOnce, Typed
      <4>2. loans \in [Peer -> Nat]
        BY DEF Typed
      <4>3. isStopping \/ (p \in Peer => viewList[p].usageCounter >= loans[p])
        BY <1>4 DEF Places, LoansAccounted, AllOutgoing
      <4> QED BY <4>1, <4>2, <4>3 DEF Info
    <3>3. OnePlace'
      BY <2>1, <3>1 DEF Places, OnePlace, marks
    <3>4. NoneOverdue'
      BY <3>1 DEF Places, NoneOverdue
    <3>5. LoansAccounted'
      BY <1>1, <2>1, <3>1, <3>2 DEF Places, LoansAccounted, AllOutgoing
    <3> QED BY <3>3, <3>4, <3>5 DEF Places
  <2>3. CASE ~RemovedAtOnce(viewList[p])
    <3>1. /\ DOMAIN awaitingRemovalViewList' = DOMAIN awaitingRemovalViewList \cup {p}
          /\ awaitingRemovalViewList'[p] = viewList[p]
          /\ \A x \in DOMAIN awaitingRemovalViewList :
                x # p => awaitingRemovalViewList'[x] = awaitingRemovalViewList[x]
      BY <1>4, <2>3 DEF PeerRemoveListed, With
    <3>2. HaveBothStopped(viewList[p]) => viewList[p].usageCounter > 0
      <4>1. viewList[p] \in Info
        BY <1>4, MapAt DEF Typed
      <4> QED BY <2>3, <4>1 DEF RemovedAtOnce, Info
    <3>3. OnePlace'
      BY <1>4, <2>1, <3>1 DEF Places, OnePlace, marks
    <3>4. NoneOverdue'
      BY <3>1, <3>2 DEF Places, NoneOverdue, HaveBothStopped
    <3>5. LoansAccounted'
      BY <1>1, <1>4, <2>1, <3>1 DEF Places, LoansAccounted, AllOutgoing
    <3> QED BY <3>3, <3>4, <3>5 DEF Places
  <2> QED BY <2>2, <2>3
<1>5. CASE PeerRemoveMarked(p)
  <2>1. /\ UNCHANGED lists
        /\ DOMAIN activelyProbedPeers' = DOMAIN activelyProbedPeers
        /\ DOMAIN activelyCreatedPeers' = DOMAIN activelyCreatedPeers
    <3>1. p \in DOMAIN activelyCreatedPeers =>
            DOMAIN With(activelyCreatedPeers, p, TRUE) = DOMAIN activelyCreatedPeers
      BY DEF With
    <3> QED BY <1>5, <3>1 DEF PeerRemoveMarked
  <2> QED
    BY <1>1, <2>1 DEF Places, OnePlace, NoneOverdue, LoansAccounted, AllOutgoing, lists
<1> QED
  BY <1>2, <1>3, <1>4, <1>5

LEMMA MarksPlaces ==
    Typed /\ Places /\ (ProbePeerRequestHandler \/ CentralProbePeerReplyHandler) => Places'
<1>1. ASSUME Typed, Places, ProbePeerRequestHandler PROVE Places'
  <2>1. /\ UNCHANGED <<lists, activelyCreatedPeers, loans, isStopping>>
        /\ \/ UNCHANGED activelyProbedPeers
           \/ /\ ~KnownPeer(Msg.peer)
              /\ DOMAIN activelyProbedPeers' = DOMAIN activelyProbedPeers \cup {Msg.peer}
    BY <1>1 DEF ProbePeerRequestHandler, With
  <2>2. OnePlace'
    BY <1>1, <2>1 DEF Places, OnePlace, KnownPeer, lists
  <2> QED BY <1>1, <2>1, <2>2 DEF Places, NoneOverdue, LoansAccounted, AllOutgoing, lists
<1>2. ASSUME Typed, Places, CentralProbePeerReplyHandler PROVE Places'
  <2>1. /\ UNCHANGED <<lists, activelyCreatedPeers, loans, isStopping>>
        /\ DOMAIN activelyProbedPeers' = DOMAIN activelyProbedPeers \ {Msg.peer}
    BY <1>2, WithoutAt DEF CentralProbePeerReplyHandler
  <2>2. OnePlace'
    BY <1>2, <2>1 DEF Places, OnePlace, lists
  <2> QED BY <1>2, <2>1, <2>2 DEF Places, NoneOverdue, LoansAccounted, AllOutgoing, lists
<1> QED
  BY <1>1, <1>2

LEMMA OutgoingCreatedPlaces == Typed /\ Places /\ OutgoingP2PCreatedHandler => Places'
<1> SUFFICES ASSUME Typed, Places, OutgoingP2PCreatedHandler PROVE Places'
  OBVIOUS
<1> DEFINE p == Msg.endp
<1>1. UNCHANGED <<awaitingRemovalViewList, activelyProbedPeers, loans, isStopping>>
  BY DEF OutgoingP2PCreatedHandler
<1>2. \/ UNCHANGED <<viewList, activelyCreatedPeers>>
      \/ /\ p \in DOMAIN activelyCreatedPeers
         /\ DOMAIN activelyCreatedPeers' = DOMAIN activelyCreatedPeers \ {p}
         /\ DOMAIN viewList' = DOMAIN viewList \cup {p}
         /\ viewList'[p] = Fresh
         /\ \A x \in DOMAIN viewList : x # p => viewList'[x] = viewList[x]
  BY DEF OutgoingP2PCreatedHandler, With, Without
<1> HIDE DEF p
<1>3. CASE UNCHANGED <<viewList, activelyCreatedPeers>>
  BY <1>1, <1>3, PlacesStay DEF lists, marks
<1>4. CASE /\ p \in DOMAIN activelyCreatedPeers
           /\ DOMAIN activelyCreatedPeers' = DOMAIN activelyCreatedPeers \ {p}
           /\ DOMAIN viewList' = DOMAIN viewList \cup {p}
           /\ viewList'[p] = Fresh
           /\ \A x \in DOMAIN viewList : x # p => viewList'[x] = viewList[x]
  <2>1. OnePlace'
    BY <1>1, <1>4 DEF Places, OnePlace
  <2>2. NoneOverdue'
    BY <1>1 DEF Places, NoneOverdue
  <2>3. Fresh.usageCounter = 0
    BY DEF Fresh
  <2>4. p \notin DOMAIN viewList /\ p \notin DOMAIN awaitingRemovalViewList
    BY <1>4 DEF Places, OnePlace
  <2>5. LoansAccounted'
    BY <1>1, <1>4, <2>3, <2>4 DEF Places, LoansAccounted, AllOutgoing
  <2> QED BY <2>1, <2>2, <2>5 DEF Places
<1> QED
  BY <1>2, <1>3, <1>4

\* The record of a peer of the view or of one that waits for removal.
RecordOf(p) == IF p \in DOMAIN viewList THEN viewList[p] ELSE awaitingRemovalViewList[p]

\* A peer's record is replaced where it is, or the peer is forgotten.
Replaced(p, info) ==
    \/ /\ p \in DOMAIN viewList
       /\ viewList' = With(viewList, p, info) /\ UNCHANGED awaitingRemovalViewList
    \/ /\ p \in DOMAIN awaitingRemovalViewList \ DOMAIN viewList
       /\ HaveBothStopped(info) => info.usageCounter > 0
       /\ awaitingRemovalViewList' = With(awaitingRemovalViewList, p, info)
       /\ UNCHANGED viewList

Erased(p, info) ==
    /\ HaveBothStopped(info)
    /\ isStopping \/ (info.usageCounter <= 0 /\ p \in DOMAIN awaitingRemovalViewList)
    /\ viewList' = Without(viewList, p)
    /\ awaitingRemovalViewList' = Without(awaitingRemovalViewList, p)

\* What becomes of the peer whose goroutine has ended.
LEMMA OutgoingClosedSteps ==
    ASSUME Typed, Places, OutgoingPeerClosed,
           NEW p, p = Msg.endp, NEW info, info = Stopped(RecordOf(p), Msg.half, Msg.err)
    PROVE  /\ p \in Peer /\ Msg.half \in Half
           /\ \/ UNCHANGED <<lists, totalGoroutines>>
                 /\ (p \notin AllOutgoing \/ HasStopped(RecordOf(p), Msg.half))
              \/ /\ p \in AllOutgoing /\ ~HasStopped(RecordOf(p), Msg.half)
                 /\ RecordOf(p) \in Info /\ info \in Info
                 /\ totalGoroutines' = totalGoroutines - 1
                 /\ Replaced(p, info) \/ Erased(p, info)
<1> DEFINE held == IF p \in DOMAIN viewList THEN viewList ELSE awaitingRemovalViewList
<1>1. p \in Peer /\ Msg.half \in Half /\ Msg.err \in BOOLEAN
  BY Received, MessageFields DEF OutgoingPeerClosed
<1>2. held[p] = RecordOf(p) /\ (p \in DOMAIN held <=> p \in AllOutgoing)
  BY DEF AllOutgoing, RecordOf
<1>3. \/ /\ UNCHANGED <<lists, totalGoroutines>>
         /\ p \notin AllOutgoing \/ HasStopped(RecordOf(p), Msg.half)
      \/ /\ p \in AllOutgoing /\ ~HasStopped(RecordOf(p), Msg.half)
         /\ totalGoroutines' = totalGoroutines - 1
         /\ \/ HaveBothStopped(info) /\ OutgoingPeerCompletelyClosed(p, info)
            \/ ~HaveBothStopped(info) /\ OutgoingHalfClosed(p, info)
  <2>1. LET h == IF Msg.endp \in DOMAIN viewList THEN viewList ELSE awaitingRemovalViewList
            i == Stopped(h[Msg.endp], Msg.half, Msg.err)
        IN  IF Msg.endp \notin DOMAIN h \/ HasStopped(h[Msg.endp], Msg.half)
            THEN UNCHANGED <<lists, totalGoroutines>>
            ELSE /\ totalGoroutines' = totalGoroutines - 1
                 /\ IF HaveBothStopped(i)
                    THEN OutgoingPeerCompletelyClosed(Msg.endp, i)
                    ELSE OutgoingHalfClosed(Msg.endp, i)
    BY DEF OutgoingPeerClosed
  <2>2. IF p \notin AllOutgoing \/ HasStopped(RecordOf(p), Msg.half)
        THEN UNCHANGED <<lists, totalGoroutines>>
        ELSE /\ totalGoroutines' = totalGoroutines - 1
             /\ IF HaveBothStopped(info)
                THEN OutgoingPeerCompletelyClosed(p, info)
                ELSE OutgoingHalfClosed(p, info)
    BY <1>2, <2>1
  <2> QED BY <2>2
<1>4. p \in AllOutgoing => RecordOf(p) \in Info /\ info \in Info
  <2>1. p \in AllOutgoing => RecordOf(p) \in Info
    BY MapAt DEF Typed, AllOutgoing, RecordOf
  <2> QED BY <1>1, <2>1, InfoBuilt
<1>5. ~(p \in DOMAIN viewList /\ p \in DOMAIN awaitingRemovalViewList)
  BY DEF Places, OnePlace
<1>6. ASSUME p \in AllOutgoing, ~HaveBothStopped(info), OutgoingHalfClosed(p, info)
      PROVE  Replaced(p, info)
  BY <1>6 DEF OutgoingHalfClosed, Replaced, AllOutgoing
<1>7. ASSUME p \in AllOutgoing, HaveBothStopped(info), OutgoingPeerCompletelyClosed(p, info)
      PROVE  Replaced(p, info) \/ Erased(p, info)
  <2>1. p \notin DOMAIN viewList => Without(viewList, p) = viewList
    <3>1. p \notin DOMAIN viewList => DOMAIN viewList \ {p} = DOMAIN viewList
      OBVIOUS
    <3>2. viewList = [x \in DOMAIN viewList |-> viewList[x]]
      BY DEF Typed, IsMap
    <3> QED BY <3>1, <3>2 DEF Without
  <2>2. ~(info.usageCounter <= 0) => info.usageCounter > 0
    BY <1>4, <1>7 DEF Info
  <2>3. p \in DOMAIN viewList \/ p \in DOMAIN awaitingRemovalViewList
    BY <1>7 DEF AllOutgoing
  <2>4. CASE isStopping
    BY <1>7, <2>4 DEF OutgoingPeerCompletelyClosed, Erased
  <2>5. CASE ~isStopping /\ p \notin DOMAIN awaitingRemovalViewList
    BY <1>7, <2>3, <2>5 DEF OutgoingPeerCompletelyClosed, Replaced
  <2>6. CASE ~isStopping /\ p \in DOMAIN awaitingRemovalViewList
    BY <1>5, <1>7, <2>1, <2>2, <2>6
       DEF OutgoingPeerCompletelyClosed, Forgotten, Replaced, Erased
  <2> QED BY <2>4, <2>5, <2>6
<1> QED
  BY <1>1, <1>3, <1>4, <1>6, <1>7

LEMMA OutgoingClosedPlaces == Typed /\ Places /\ OutgoingPeerClosed => Places'
<1> SUFFICES ASSUME Typed, Places, OutgoingPeerClosed PROVE Places'
  OBVIOUS
<1> DEFINE p == Msg.endp
           old == RecordOf(p)
           info == Stopped(old, Msg.half, Msg.err)
<1>1. UNCHANGED <<marks, loans, isStopping>>
  BY DEF OutgoingPeerClosed
<1>2. /\ p \in Peer
      /\ \/ UNCHANGED lists
         \/ p \in AllOutgoing /\ old \in Info /\ (Replaced(p, info) \/ Erased(p, info))
  BY OutgoingClosedSteps
<1>3. info.usageCounter = old.usageCounter
  BY DEF Stopped
<1>4. old = IF p \in DOMAIN viewList THEN viewList[p] ELSE awaitingRemovalViewList[p]
  BY DEF RecordOf
<1> HIDE DEF info, old, p
<1>5. CASE UNCHANGED lists
  BY <1>1, <1>5, PlacesStay
<1>6. CASE p \in AllOutgoing /\ Replaced(p, info)
  <2>1. /\ DOMAIN viewList' = DOMAIN viewList
        /\ DOMAIN awaitingRemovalViewList' = DOMAIN awaitingRemovalViewList
        /\ \A x \in DOMAIN viewList : x # p => viewList'[x] = viewList[x]
        /\ \A x \in DOMAIN awaitingRemovalViewList :
              x # p => awaitingRemovalViewList'[x] = awaitingRemovalViewList[x]
        /\ p \in DOMAIN viewList => viewList'[p] = info
        /\ p \in DOMAIN awaitingRemovalViewList \ DOMAIN viewList =>
              /\ awaitingRemovalViewList'[p] = info
              /\ HaveBothStopped(info) => info.usageCounter > 0
    BY <1>6 DEF Replaced, With
  <2>2. OnePlace'
    BY <1>1, <2>1 DEF Places, OnePlace, marks
  <2>3. p \notin DOMAIN viewList \/ p \notin DOMAIN awaitingRemovalViewList
    BY DEF Places, OnePlace
  <2>4. NoneOverdue'
    BY <1>6, <2>1, <2>3 DEF Places, NoneOverdue, Replaced
  <2>5. LoansAccounted'
    BY <1>1, <1>3, <1>4, <2>1 DEF Places, LoansAccounted, AllOutgoing
  <2> QED BY <2>2, <2>4, <2>5 DEF Places
<1>7. CASE p \in AllOutgoing /\ old \in Info /\ Erased(p, info)
  <2>1. /\ DOMAIN viewList' = DOMAIN viewList \ {p}
        /\ DOMAIN awaitingRemovalViewList' = DOMAIN awaitingRemovalViewList \ {p}
        /\ \A x \in DOMAIN viewList' : viewList'[x] = viewList[x]
        /\ \A x \in DOMAIN awaitingRemovalViewList' :
              awaitingRemovalViewList'[x] = awaitingRemovalViewList[x]
    BY <1>7 DEF Erased, Without
  <2>2. OnePlace'
    BY <1>1, <2>1 DEF Places, OnePlace, marks
  <2>3. NoneOverdue'
    BY <2>1 DEF Places, NoneOverdue
  <2>4. isStopping \/ loans[p] = 0
    <3>1. isStopping \/ old.usageCounter >= loans[p]
      BY <1>2, <1>4, <1>7 DEF Places, LoansAccounted, AllOutgoing
    <3>2. loans[p] \in Nat
      BY <1>2 DEF Typed
    <3>3. isStopping \/ old.usageCounter <= 0
      BY <1>3, <1>7 DEF Erased
    <3> QED BY <1>7, <3>1, <3>2, <3>3 DEF Info
  <2>5. LoansAccounted'
    BY <1>1, <2>1, <2>4 DEF Places, LoansAccounted, AllOutgoing
  <2> QED BY <2>2, <2>3, <2>5 DEF Places
<1> QED
  BY <1>2, <1>5, <1>6, <1>7

LEMMA LoansPlaces ==
    ASSUME Typed, Places
    PROVE  /\ RandomPeerListRequestHandler => Places'
           /\ \A peers \in SUBSET Peer : RandomPeerListReleaseHandler(peers) => Places'
           /\ \A peer \in Peer : GossiperForgets(peer) => Places'
<1>1. ASSUME RandomPeerListRequestHandler PROVE Places'
  <2>1. PICK ps \in SUBSET DOMAIN viewList :
           /\ viewList' = [p \in DOMAIN viewList |->
                              IF p \in ps THEN Used(viewList[p], 1) ELSE viewList[p]]
           /\ loans' = [p \in Peer |-> IF p \in ps THEN loans[p] + 1 ELSE loans[p]]
    BY <1>1, Zenon DEF RandomPeerListRequestHandler
  <2>2. UNCHANGED <<awaitingRemovalViewList, marks, isStopping>>
    BY <1>1 DEF RandomPeerListRequestHandler
  <2>3. DOMAIN viewList' = DOMAIN viewList /\ DOMAIN viewList \subseteq Peer
    BY <2>1 DEF Typed, IsMap
  <2>4. OnePlace'
    BY <2>2, <2>3 DEF Places, OnePlace, marks
  <2>5. NoneOverdue'
    BY <2>2 DEF Places, NoneOverdue
  <2>6. LoansAccounted'
    <3> SUFFICES ASSUME ~isStopping, NEW p \in Peer
                 PROVE  IF p \in AllOutgoing
                        THEN RecordOf(p)'.usageCounter >= loans'[p] ELSE loans'[p] = 0
      BY <2>2, <2>3 DEF LoansAccounted, AllOutgoing, RecordOf
    <3>1. IF p \in AllOutgoing THEN RecordOf(p).usageCounter >= loans[p] ELSE loans[p] = 0
      BY DEF Places, LoansAccounted, AllOutgoing, RecordOf
    <3>2. loans[p] \in Nat /\ (p \in AllOutgoing => RecordOf(p) \in Info)
      BY MapAt DEF Typed, AllOutgoing, RecordOf
    <3>3. CASE p \in ps
      <4>1. loans'[p] = loans[p] + 1 /\ RecordOf(p)'.usageCounter = RecordOf(p).usageCounter + 1
        BY <2>1, <2>3, <3>3 DEF RecordOf, Used
      <4>2. p \in AllOutgoing
        BY <3>3 DEF AllOutgoing
      <4> QED BY <3>1, <3>2, <4>1, <4>2 DEF Info
    <3>4. CASE p \notin ps
      <4>1. loans'[p] = loans[p] /\ (p \in AllOutgoing => RecordOf(p)' = RecordOf(p))
        BY <2>1, <2>2, <2>3, <3>4 DEF RecordOf
      <4> QED BY <3>1, <4>1
    <3> QED BY <3>3, <3>4
  <2> QED BY <2>4, <2>5, <2>6 DEF Places
<1>2. ASSUME NEW peers \in SUBSET Peer, RandomPeerListReleaseHandler(peers) PROVE Places'
  <2> DEFINE waiting == peers \cap (DOMAIN awaitingRemovalViewList \ DOMAIN viewList)
             returned == [p \in waiting |-> Used(awaitingRemovalViewList[p], -1)]
             gone == {p \in waiting : RemovedAtOnce(returned[p])}
  <2>1. /\ ~isStopping /\ \A p \in peers : loans[p] > 0
        /\ loans' = [p \in Peer |-> IF p \in peers THEN loans[p] - 1 ELSE loans[p]]
        /\ viewList' = [p \in DOMAIN viewList |->
                           IF p \in peers THEN Used(viewList[p], -1) ELSE viewList[p]]
        /\ awaitingRemovalViewList' = [p \in DOMAIN awaitingRemovalViewList \ gone |->
                  IF p \in waiting THEN returned[p] ELSE awaitingRemovalViewList[p]]
        /\ UNCHANGED <<marks, isStopping>>
    BY <1>2, Zenon DEF RandomPeerListReleaseHandler
  <2>2. /\ \A p \in waiting : returned[p] = Used(awaitingRemovalViewList[p], -1)
        /\ \A p \in waiting : p \in gone <=> RemovedAtOnce(returned[p])
        /\ \A p : p \in waiting <=> p \in peers /\ p \in DOMAIN awaitingRemovalViewList
                                    /\ p \notin DOMAIN viewList
        /\ gone \subseteq waiting
    OBVIOUS
  <2> HIDE DEF waiting, returned, gone
  <2>3. /\ DOMAIN viewList' = DOMAIN viewList
        /\ DOMAIN awaitingRemovalViewList' = DOMAIN awaitingRemovalViewList \ gone
    BY <2>1
  <2>4. OnePlace'
    BY <2>1, <2>3 DEF Places, OnePlace, marks
  <2>5. \A p \in DOMAIN awaitingRemovalViewList : awaitingRemovalViewList[p] \in Info
    BY MapAt DEF Typed
  <2>6. NoneOverdue'
    <3> SUFFICES ASSUME NEW p \in DOMAIN awaitingRemovalViewList',
                        HaveBothStopped(awaitingRemovalViewList'[p])
                 PROVE  awaitingRemovalViewList'[p].usageCounter > 0
      BY DEF NoneOverdue
    <3>1. CASE p \in waiting
      <4>1. awaitingRemovalViewList'[p] = returned[p] /\ ~RemovedAtOnce(returned[p])
        BY <2>1, <2>2, <2>3, <3>1
      <4>2. awaitingRemovalViewList[p] \in Info
        BY <2>2, <2>5, <3>1
      <4>3. returned[p] \in Info
        BY <2>2, <3>1, <4>2, InfoBuilt
      <4> QED BY <4>1, <4>3 DEF RemovedAtOnce, Info
    <3>2. CASE p \notin waiting
      BY <2>1, <2>3, <3>2 DEF Places, NoneOverdue
    <3> QED BY <3>1, <3>2
  <2>7. LoansAccounted'
    <3> SUFFICES ASSUME NEW p \in Peer
                 PROVE  IF p \in AllOutgoing'
                        THEN RecordOf(p)'.usageCounter >= loans'[p] ELSE loans'[p] = 0
      BY <2>1, <2>3 DEF LoansAccounted, AllOutgoing, RecordOf
    <3>1. IF p \in AllOutgoing THEN RecordOf(p).usageCounter >= loans[p] ELSE loans[p] = 0
      BY <2>1 DEF Places, LoansAccounted, AllOutgoing, RecordOf
    <3>2. loans[p] \in Nat /\ (p \in AllOutgoing => RecordOf(p) \in Info)
      BY MapAt DEF Typed, AllOutgoing, RecordOf
    <3>3. CASE p \in peers /\ p \in DOMAIN viewList
      <4>1. loans'[p] = loans[p] - 1 /\ RecordOf(p)'.usageCounter = RecordOf(p).usageCounter - 1
        BY <2>1, <2>3, <3>3 DEF RecordOf, Used
      <4>2. p \in AllOutgoing /\ p \in AllOutgoing'
        BY <2>3, <3>3 DEF AllOutgoing
      <4> QED BY <3>1, <3>2, <4>1, <4>2 DEF Info
    <3>4. CASE p \in waiting
      <4>1. /\ loans'[p] = loans[p] - 1 /\ loans[p] > 0
            /\ p \in AllOutgoing /\ (p \in AllOutgoing' <=> p \notin gone)
        BY <2>1, <2>2, <2>3, <3>4 DEF AllOutgoing
      <4>2. returned[p].usageCounter = RecordOf(p).usageCounter - 1
        <5>1. returned[p] = Used(RecordOf(p), -1) /\ RecordOf(p) \in Info
          BY <2>2, <3>2, <3>4, <4>1 DEF RecordOf
        <5> QED BY <5>1 DEF Used, Info
      <4>3. p \in gone => returned[p].usageCounter <= 0
        BY <2>2, <3>4 DEF RemovedAtOnce
      <4>4. p \notin gone => RecordOf(p)' = returned[p]
        BY <2>1, <2>2, <2>3, <3>4 DEF RecordOf
      <4> QED BY <3>1, <3>2, <4>1, <4>2, <4>3, <4>4 DEF Info
    <3>5. CASE p \in peers /\ p \notin AllOutgoing
      BY <2>1, <3>1, <3>5
    <3>6. CASE p \notin peers
      <4>1. /\ loans'[p] = loans[p] /\ (p \in AllOutgoing => RecordOf(p)' = RecordOf(p))
            /\ p \in AllOutgoing' <=> p \in AllOutgoing
        BY <2>1, <2>2, <2>3, <3>6 DEF RecordOf, AllOutgoing
      <4> QED BY <3>1, <4>1
    <3> QED BY <2>2, <3>3, <3>4, <3>5, <3>6 DEF AllOutgoing
  <2> QED BY <2>4, <2>6, <2>7 DEF Places
<1>3. ASSUME NEW peer \in Peer, GossiperForgets(peer) PROVE Places'
  <2>1. /\ UNCHANGED <<lists, marks, isStopping>>
        /\ loans' = [loans EXCEPT ![peer] = @ - 1] /\ loans[peer] > 0
    BY <1>3 DEF GossiperForgets, central
  <2>2. OnePlace' /\ NoneOverdue'
    BY <2>1 DEF Places, OnePlace, NoneOverdue, lists, marks
  <2>3. LoansAccounted'
    <3> SUFFICES ASSUME ~isStopping, NEW p \in Peer
                 PROVE  IF p \in AllOutgoing
                        THEN RecordOf(p).usageCounter >= loans'[p] ELSE loans'[p] = 0
      BY <2>1 DEF LoansAccounted, AllOutgoing, RecordOf, lists
    <3>1. IF p \in AllOutgoing THEN RecordOf(p).usageCounter >= loans[p] ELSE loans[p] = 0
      BY DEF Places, LoansAccounted, AllOutgoing, RecordOf
    <3>2. loans[p] \in Nat /\ (p \in AllOutgoing => RecordOf(p) \in Info)
      BY MapAt DEF Typed, AllOutgoing, RecordOf
    <3>3. loans'[p] = IF p = peer THEN loans[p] - 1 ELSE loans[p]
      BY <2>1 DEF Typed
    <3> QED BY <2>1, <3>1, <3>2, <3>3 DEF Info
  <2> QED BY <2>2, <2>3 DEF Places
<1> QED
  BY <1>1, <1>2, <1>3

LEMMA ClosePlaces == Typed /\ Places /\ CloseHandler => Places'
BY DEF Places, OnePlace, NoneOverdue, LoansAccounted, CloseHandler, lists

\* The other steps leave the places alone.
LEMMA OthersPlaces ==
    ASSUME \/ IncomingP2PCreatedHandler \/ APIEndpointCreatedHandler
           \/ IncomingPeerClosed \/ APIEndpointClosed
           \/ SubmoduleClosedHandler \/ CrashHandler \/ DropMessage
           \/ \E peer \in Peer, ok \in BOOLEAN : DialEnds(peer, ok) \/ ProbeEnds(peer, ok)
           \/ \E endp \in Endpoint, half \in Half :
                 EndpointCloses(endp, half) \/ EndpointCrashes(endp, half)
           \/ \E endp \in Inbound \cup Client : ListenerAccepts(endp)
           \/ \E s \in Submodule : SubmoduleCloses(s) \/ SubmoduleCrashes(s)
           \/ UserInterrupts \/ ClosureTimesOut
           \/ \E newViewList \in Views : ReplaceViewList(newViewList)
           \/ \E peer \in Peer : MembershipProbes(peer)
           \/ PeerDisconnectedHandler
           \/ UNCHANGED vars
    PROVE  UNCHANGED <<lists, marks, loans, isStopping>>
<1>1. CASE \/ IncomingP2PCreatedHandler \/ APIEndpointCreatedHandler
           \/ IncomingPeerClosed \/ APIEndpointClosed
           \/ SubmoduleClosedHandler \/ CrashHandler \/ DropMessage \/ UNCHANGED vars
  BY <1>1 DEF IncomingP2PCreatedHandler, APIEndpointCreatedHandler, IncomingPeerClosed,
              APIEndpointClosed, SubmoduleClosedHandler, CrashHandler, DropMessage, central, vars
<1>2. CASE \E peer \in Peer, ok \in BOOLEAN : DialEnds(peer, ok) \/ ProbeEnds(peer, ok)
  BY <1>2 DEF DialEnds, ProbeEnds, central
<1>3. CASE \E endp \in Endpoint, half \in Half :
              EndpointCloses(endp, half) \/ EndpointCrashes(endp, half)
  BY <1>3 DEF EndpointCloses, EndpointCrashes, Ends, central
<1>4. CASE \E endp \in Inbound \cup Client : ListenerAccepts(endp)
  BY <1>4 DEF ListenerAccepts, central
<1>5. CASE \/ \E s \in Submodule : SubmoduleCloses(s) \/ SubmoduleCrashes(s)
           \/ UserInterrupts \/ ClosureTimesOut
  BY <1>5 DEF SubmoduleCloses, SubmoduleCrashes, UserInterrupts, ClosureTimesOut, central, membership
<1>6. CASE \/ \E newViewList \in Views : ReplaceViewList(newViewList)
           \/ \E peer \in Peer : MembershipProbes(peer)
           \/ PeerDisconnectedHandler
  BY <1>6 DEF ReplaceViewList, MembershipProbes, PeerDisconnectedHandler, central
<1> QED
  BY <1>1, <1>2, <1>3, <1>4, <1>5, <1>6

LEMMA NextPlaces == Typed /\ Places /\ [Next]_vars => Places'
<1> SUFFICES ASSUME Typed, Places, [Next]_vars PROVE Places'
  OBVIOUS
<1>1. CASE \/ PeerAddHandler \/ PeerRemoveHandler \/ ProbePeerRequestHandler
           \/ CentralProbePeerReplyHandler \/ OutgoingP2PCreatedHandler
           \/ OutgoingPeerClosed \/ CloseHandler
  BY <1>1, PeerAddPlaces, PeerRemovePlaces, MarksPlaces, OutgoingCreatedPlaces,
     OutgoingClosedPlaces, ClosePlaces
<1>2. CASE \/ RandomPeerListRequestHandler
           \/ \E peers \in SUBSET Peer : RandomPeerListReleaseHandler(peers)
           \/ \E peer \in Peer : GossiperForgets(peer)
  BY <1>2, LoansPlaces
<1>3. CASE UNCHANGED <<lists, marks, loans, isStopping>>
  BY <1>3, PlacesStay
<1>4. Crashing \subseteq Submodule
  BY SubmoduleAssumption
<1> QED
  BY <1>1, <1>2, <1>3, <1>4, OthersPlaces DEF Next, Handler

LEMMA AlwaysPlaces == Spec => [](Typed /\ Places)
BY InitTyped, NextTyped, InitPlaces, NextPlaces, PTL DEF Spec

\* A peer is never in two of the places where the handlers look for it one
\* after the other, whatever messages cross: an order to remove it while it is
\* being dialled, a probe that ends after an addition (controller.go).
THEOREM PeersInOnePlace == Spec => []OnePlace
<1>1. Places => OnePlace
  BY DEF Places
<1> QED BY <1>1, AlwaysPlaces, PTL

\* A peer that has stopped and waits for removal is there only because it is
\* used: no order of the last loan's return and the ends of its two goroutines
\* leaves it behind (controller.go).
THEOREM NoPeerOverdue == Spec => []NoneOverdue
<1>1. Places => NoneOverdue
  BY DEF Places
<1> QED BY <1>1, AlwaysPlaces, PTL

\* Until a shutdown every loan that is out is counted in the record of a peer
\* that is still there, through removals, returns to the view and failures of
\* the connection (controller.go:588-591).
THEOREM LoansStayAccounted == Spec => []LoansAccounted
<1>1. Places => LoansAccounted
  BY DEF Places
<1> QED BY <1>1, AlwaysPlaces, PTL

=============================================================================
