------------------------- MODULE CentralController -------------------------
(***************************************************************************)
(* The connections of one node: the Central controller                     *)
(* (src/core/controller.go), which owns them and handles one message of    *)
(* MsgInQueue at a time, and the goroutines that send to that queue: the   *)
(* reader and the writer of every endpoint, the goroutines that dial and   *)
(* probe peers, the two listeners, the Membership controller (which says   *)
(* which peers to be connected to), the Gossiper (which borrows connected  *)
(* peers and returns them) and the User (who asks for the shutdown).       *)
(*                                                                         *)
(* MsgInQueue is one FIFO queue, `inbox', and the Membership controller's  *)
(* is `mInbox'.  Messages that change no connection are left out: gossip,  *)
(* pushes, pulls, notifications and probe results that are positive.       *)
(* Channels do not fill up here.                                           *)
(***************************************************************************)
EXTENDS Integers, Sequences, FiniteSets, Maps

CONSTANTS
    Peer,                 \* listen addresses of remote peers
    Inbound,              \* addresses remote peers connect from
    Client,               \* addresses API clients connect from
    Submodule,            \* the submodules; a small instance may do without some
    ViewListCap,          \* size of the Membership controller's view
    incomingViewListMAX,  \* incoming connections served at once
    apiClientsMAX,        \* API connections served at once
    MaxViews,             \* bound: views the Membership controller chooses
    MaxProbes,            \* bound: probes it asks for
    MaxArrivals,          \* bound: connections the listeners accept
    MaxLoans,             \* bound: loans of one peer to the Gossiper
    Crashing,             \* bound: the submodules that may crash
    Interrupts            \* bound: whether the User asks for a shutdown

ASSUME EndpointAssumption ==
    /\ Peer \cap Inbound = {} /\ Peer \cap Client = {} /\ Inbound \cap Client = {}
    /\ IsFiniteSet(Peer) /\ IsFiniteSet(Inbound) /\ IsFiniteSet(Client)
ASSUME CapacityAssumption ==
    /\ ViewListCap \in Nat /\ incomingViewListMAX \in Nat /\ apiClientsMAX \in Nat
    /\ MaxViews \in Nat /\ MaxProbes \in Nat /\ MaxArrivals \in Nat /\ MaxLoans \in Nat
    /\ Interrupts \in BOOLEAN

ASSUME SubmoduleAssumption ==
    /\ Submodule \subseteq {"membership", "gossiper", "p2pListener", "apiListener"}
    /\ Crashing \subseteq Submodule

\* An endpoint is named by the address of its peer or client.
Endpoint == Peer \cup Inbound \cup Client

Half == {"reader", "writer"}

VARIABLES
    status,                   \* "running", "done" (Run returned) or "crashed"
    isStopping,
    totalGoroutines,
    inbox,                    \* MsgInQueue of the Central controller
    viewList,                 \* peer -> PeerInfoCentral
    awaitingRemovalViewList,  \* peer -> PeerInfoCentral
    activelyCreatedPeers,     \* peer -> is it to be removed?
    activelyProbedPeers,      \* peer -> is it to be added?
    incomingViewList,         \* inbound address -> PeerInfoCentral
    apiClients,               \* client -> APIClientInfoCentral
    submodules,               \* the submodules whose pointers are not nil
    active,                   \* submodule -> "running", "closing" or "ended"
    running,                  \* the endpoint halves that run: <<endpoint, half>>
    closing,                  \* the endpoints whose Close was called
    connected,                \* the endpoints whose conn is not nil
    dials, probes,            \* peer -> goroutines dialling or probing it
    members,                  \* viewList of the Membership controller
    mInbox,                   \* MsgInQueue of the Membership controller
    loans,                    \* peer -> times the Gossiper holds it
    views, asked, arrivals    \* views chosen, probes asked for, connections made

lists == <<viewList, awaitingRemovalViewList>>
marks == <<activelyCreatedPeers, activelyProbedPeers>>
served == <<incomingViewList, apiClients>>
endpoints == <<running, closing, connected>>
central == <<lists, marks, served, submodules, isStopping, totalGoroutines>>
membership == <<members, mInbox, views, asked>>
others == <<active, dials, probes, arrivals>>
vars == <<status, inbox, central, endpoints, others, membership, loans>>
-----------------------------------------------------------------------------
(* Messages to the Central controller *)

ForPeer(type, peer) == [type |-> type, peer |-> peer]

Created(type, endp, ok) == [type |-> type, endp |-> endp, ok |-> ok]

\* P2PEndpointClosedMSG and APIEndpointClosedMSG, or, with err, the Crashed ones.
Closed(endp, half, err) ==
    [type |-> "EndpointClosed", endp |-> endp, half |-> half, err |-> err]

SubmoduleClosed(s) == [type |-> "SubmoduleClosed", which |-> s]

CentralClose == [type |-> "CentralClose"]
CentralCrash == [type |-> "CentralCrash"]

PeerMessageType == {"PeerAdd", "PeerRemove", "ProbePeerRequest", "CentralProbePeerReply"}

Message ==
    [type : PeerMessageType, peer : Peer]
    \cup [type : {"OutgoingP2PCreated"}, endp : Peer, ok : BOOLEAN]
    \cup [type : {"EndpointCreated"}, endp : Inbound \cup Client, ok : {TRUE}]
    \cup [type : {"EndpointClosed"}, endp : Endpoint, half : Half, err : BOOLEAN]
    \cup [type : {"SubmoduleClosed"}, which : Submodule]
    \cup {CentralClose, CentralCrash}

\* What a Central controller that is stopping still handles.
StopMessage == {"PeerRemove", "OutgoingP2PCreated", "EndpointCreated",
                "EndpointClosed", "SubmoduleClosed", "CentralCrash"}

\* The Central controller takes a message of this type off its queue.
Receive(type) ==
    /\ status = "running"
    /\ inbox # <<>>
    /\ Head(inbox).type = type
    /\ isStopping => type \in StopMessage

Msg == Head(inbox)

Dequeue == inbox' = Tail(inbox)

DequeueAndSend(m) == inbox' = Append(Tail(inbox), m)

(* Endpoints *)

\* The information about an endpoint whose goroutines have just been started.
Fresh == [usageCounter |-> 0, readerState |-> "RUNNING", writerState |-> "RUNNING",
          hasCrashed |-> FALSE]

Info == [usageCounter : Int, readerState : {"RUNNING", "STOPPED"},
         writerState : {"RUNNING", "STOPPED"}, hasCrashed : BOOLEAN]

HaveBothStopped(info) == info.readerState = "STOPPED" /\ info.writerState = "STOPPED"

HasStopped(info, half) ==
    (IF half = "reader" THEN info.readerState ELSE info.writerState) = "STOPPED"

Used(info, n) ==
    [usageCounter |-> info.usageCounter + n, readerState |-> info.readerState,
     writerState |-> info.writerState, hasCrashed |-> info.hasCrashed]

Stopped(info, half, err) ==
    [usageCounter |-> info.usageCounter,
     readerState |-> IF half = "reader" THEN "STOPPED" ELSE info.readerState,
     writerState |-> IF half = "writer" THEN "STOPPED" ELSE info.writerState,
     hasCrashed |-> info.hasCrashed \/ err]

\* Faults: the writer, or both goroutines, are not accounted for.
OneHalf == 1
NoHalf == 0

\* RunReaderGoroutine and RunWriterGoroutine on a new endpoint, and what they
\* add to totalGoroutines.
TwoHalves == 2

Start(endp, ok) ==
    /\ running' = running \cup ({endp} \X Half)
    /\ closing' = closing \ {endp}
    /\ connected' = IF ok THEN connected \cup {endp} ELSE connected \ {endp}

\* endpoint.Close() of every endpoint in the set.
CloseAll(endps) ==
    /\ closing' = closing \cup endps
    /\ UNCHANGED <<running, connected>>

Init ==
    /\ status = "running"
    /\ isStopping = FALSE
    /\ totalGoroutines = Cardinality(Submodule)
    /\ inbox = <<>>
    /\ viewList = EmptyMap
    /\ awaitingRemovalViewList = EmptyMap
    /\ activelyCreatedPeers = EmptyMap
    /\ activelyProbedPeers = EmptyMap
    /\ incomingViewList = EmptyMap
    /\ apiClients = EmptyMap
    /\ submodules = Submodule
    /\ active = [s \in Submodule |-> "running"]
    /\ running = {} /\ closing = {} /\ connected = {}
    /\ dials = [p \in Peer |-> 0]
    /\ probes = [p \in Peer |-> 0]
    /\ members = {}
    /\ mInbox = <<>>
    /\ loans = [p \in Peer |-> 0]
    /\ views = 0 /\ asked = 0 /\ arrivals = 0
-----------------------------------------------------------------------------
(* Orders of the Membership controller *)

\* A peer the Membership controller removed before is taken back as it is,
\* whatever the state of its endpoint.
PeerAddHandler ==
    /\ Receive("PeerAdd")
    /\ LET peer == Msg.peer
       IN  CASE peer \in DOMAIN viewList -> UNCHANGED <<lists, marks, dials>>
             [] peer \in DOMAIN awaitingRemovalViewList \ DOMAIN viewList ->
                  /\ viewList' = With(viewList, peer, awaitingRemovalViewList[peer])
                  /\ awaitingRemovalViewList' = Without(awaitingRemovalViewList, peer)
                  /\ UNCHANGED <<marks, dials>>
             [] peer \notin DOMAIN viewList \cup DOMAIN awaitingRemovalViewList ->
                  /\ IF peer \in DOMAIN activelyProbedPeers \ DOMAIN activelyCreatedPeers
                     THEN /\ activelyProbedPeers' = With(activelyProbedPeers, peer, TRUE)
                          /\ UNCHANGED activelyCreatedPeers
                     ELSE /\ activelyCreatedPeers' = With(activelyCreatedPeers, peer, FALSE)
                          /\ UNCHANGED activelyProbedPeers
                  /\ dials' = IF peer \in DOMAIN activelyCreatedPeers \cup DOMAIN activelyProbedPeers
                              THEN dials ELSE [dials EXCEPT ![peer] = @ + 1]
                  /\ UNCHANGED lists
    /\ Dequeue
    /\ UNCHANGED <<status, served, submodules, isStopping, totalGoroutines, endpoints,
                   active, probes, arrivals, membership, loans>>

\* Faults: a peer that is not used is forgotten at once, or none is.
ForgottenAtOnce(info) == info.usageCounter <= 0
ForgottenNever(info) == FALSE

\* The peer waits for removal; it leaves at once if it has stopped already,
\* and is closed if the Gossiper does not use it.
RemovedAtOnce(info) == info.usageCounter <= 0 /\ HaveBothStopped(info)

PeerRemoveListed(peer) ==
    LET info == viewList[peer]
    IN  /\ viewList' = Without(viewList, peer)
        /\ awaitingRemovalViewList' = IF RemovedAtOnce(info)
                                      THEN Without(awaitingRemovalViewList, peer)
                                      ELSE With(awaitingRemovalViewList, peer, info)
        /\ CloseAll(IF info.usageCounter <= 0 /\ ~HaveBothStopped(info) THEN {peer} ELSE {})
        /\ UNCHANGED marks

PeerRemoveMarked(peer) ==
    /\ IF peer \in DOMAIN activelyCreatedPeers
       THEN /\ activelyCreatedPeers' = With(activelyCreatedPeers, peer, TRUE)
            /\ UNCHANGED activelyProbedPeers
       ELSE /\ activelyProbedPeers' = [p \in DOMAIN activelyProbedPeers |->
                                          p # peer /\ activelyProbedPeers[p]]
            /\ UNCHANGED activelyCreatedPeers
    /\ UNCHANGED <<lists, endpoints>>

PeerRemoveHandler ==
    /\ Receive("PeerRemove")
    /\ LET peer == Msg.peer
       IN  CASE peer \in DOMAIN awaitingRemovalViewList -> UNCHANGED <<lists, marks, endpoints>>
             [] peer \in DOMAIN viewList \ DOMAIN awaitingRemovalViewList -> PeerRemoveListed(peer)
             [] peer \notin DOMAIN viewList \cup DOMAIN awaitingRemovalViewList ->
                  PeerRemoveMarked(peer)
    /\ Dequeue
    /\ UNCHANGED <<status, served, submodules, isStopping, totalGoroutines,
                   others, membership, loans>>

\* A fault: peers being dialled are probed as well.
KnownIfListed(peer) ==
    peer \in DOMAIN viewList \cup DOMAIN awaitingRemovalViewList

KnownPeer(peer) ==
    peer \in DOMAIN viewList \cup DOMAIN awaitingRemovalViewList \cup DOMAIN activelyCreatedPeers

\* A probe of an unknown peer starts a goroutine; a mark that the peer is to
\* be added after an earlier probe is overwritten.
ProbePeerRequestHandler ==
    /\ Receive("ProbePeerRequest")
    /\ IF KnownPeer(Msg.peer)
       THEN UNCHANGED <<activelyProbedPeers, probes>>
       ELSE /\ activelyProbedPeers' = With(activelyProbedPeers, Msg.peer, FALSE)
            /\ probes' = [probes EXCEPT ![Msg.peer] = @ + 1]
    /\ Dequeue
    /\ UNCHANGED <<status, lists, activelyCreatedPeers, served, submodules, isStopping,
                   totalGoroutines, endpoints, active, dials, arrivals, membership, loans>>

\* The probe is over; an addition that waited for it is sent to the back of
\* the Central controller's own queue.
CentralProbePeerReplyHandler ==
    /\ Receive("CentralProbePeerReply")
    /\ activelyProbedPeers' = Without(activelyProbedPeers, Msg.peer)
    /\ IF Msg.peer \in DOMAIN activelyProbedPeers /\ activelyProbedPeers[Msg.peer]
       THEN DequeueAndSend(ForPeer("PeerAdd", Msg.peer))
       ELSE Dequeue
    /\ UNCHANGED <<status, lists, activelyCreatedPeers, served, submodules, isStopping,
                   totalGoroutines, endpoints, others, membership, loans>>

\* The dial is over, successfully or not: the endpoint joins the view and its
\* goroutines run.  A removal that waited for it is sent to the back of the
\* Central controller's own queue.
OutgoingP2PCreatedHandler ==
    /\ Receive("OutgoingP2PCreated")
    /\ LET peer == Msg.endp
       IN  IF peer \notin DOMAIN activelyCreatedPeers
           THEN Dequeue /\ UNCHANGED <<viewList, activelyCreatedPeers, endpoints, totalGoroutines>>
           ELSE /\ activelyCreatedPeers' = Without(activelyCreatedPeers, peer)
                /\ Start(peer, Msg.ok)
                /\ totalGoroutines' = totalGoroutines + TwoHalves
                /\ viewList' = With(viewList, peer, Fresh)
                /\ IF activelyCreatedPeers[peer]
                   THEN DequeueAndSend(ForPeer("PeerRemove", peer))
                   ELSE Dequeue
    /\ UNCHANGED <<status, awaitingRemovalViewList, activelyProbedPeers, served, submodules,
                   isStopping, others, membership, loans>>
-----------------------------------------------------------------------------
(* Endpoints that stop *)

\* Run returns when the last goroutine has been accounted for.
Finish == status' = IF totalGoroutines' <= 0 THEN "done" ELSE status

\* The first half of an outgoing endpoint; the other one is stopped if this
\* one crashed.
OutgoingHalfClosed(peer, info) ==
    /\ IF peer \in DOMAIN viewList
       THEN viewList' = With(viewList, peer, info) /\ UNCHANGED awaitingRemovalViewList
       ELSE /\ awaitingRemovalViewList' = With(awaitingRemovalViewList, peer, info)
            /\ UNCHANGED viewList
    /\ CloseAll(IF info.hasCrashed THEN {peer} ELSE {})
    /\ UNCHANGED <<mInbox, status>>

\* A fault: a peer that has stopped is forgotten while it is still used.
ForgottenOnceStopped(info) == TRUE

Forgotten(info) == info.usageCounter <= 0

\* Both halves have stopped.  The peer is forgotten if it waited for removal
\* and is not used, or at a shutdown; otherwise the Membership controller is
\* told, if it did not ask for the removal itself.
OutgoingPeerCompletelyClosed(peer, info) ==
    /\ IF isStopping
       THEN /\ viewList' = Without(viewList, peer)
            /\ awaitingRemovalViewList' = Without(awaitingRemovalViewList, peer)
            /\ UNCHANGED mInbox
       ELSE IF peer \notin DOMAIN awaitingRemovalViewList
       THEN /\ viewList' = With(viewList, peer, info)
            /\ mInbox' = Append(mInbox, ForPeer("PeerDisconnected", peer))
            /\ UNCHANGED awaitingRemovalViewList
       ELSE /\ awaitingRemovalViewList' = IF Forgotten(info)
                                          THEN Without(awaitingRemovalViewList, peer)
                                          ELSE With(awaitingRemovalViewList, peer, info)
            /\ UNCHANGED <<viewList, mInbox>>
    /\ Finish
    /\ UNCHANGED endpoints

OutgoingPeerClosed ==
    /\ Receive("EndpointClosed")
    /\ Msg.endp \in Peer
    /\ LET peer == Msg.endp
           held == IF peer \in DOMAIN viewList THEN viewList ELSE awaitingRemovalViewList
       IN  IF peer \notin DOMAIN held \/ HasStopped(held[peer], Msg.half)
           THEN UNCHANGED <<lists, mInbox, endpoints, totalGoroutines, status>>
           ELSE LET info == Stopped(held[peer], Msg.half, Msg.err)
                IN  /\ totalGoroutines' = totalGoroutines - 1
                    /\ IF HaveBothStopped(info)
                       THEN OutgoingPeerCompletelyClosed(peer, info)
                       ELSE OutgoingHalfClosed(peer, info)
    /\ Dequeue
    /\ UNCHANGED <<marks, served, submodules, isStopping, others, members, views, asked, loans>>
-----------------------------------------------------------------------------
(* Incoming connections and API clients *)

\* A fault: a second connection from an address replaces the first.
AdmitsAgain(table, endp, max) == Cardinality(DOMAIN table) < max

\* Whether there is a place in the table for a new connection.
Admits(table, endp, max) == Cardinality(DOMAIN table) < max /\ endp \notin DOMAIN table

\* A connection that is not admitted is closed without running its goroutines.
Serve(table, endp, admitted) ==
    IF admitted
    THEN /\ table' = With(table, endp, Fresh)
         /\ totalGoroutines' = totalGoroutines + TwoHalves
         /\ Start(endp, Msg.ok)
    ELSE UNCHANGED <<table, totalGoroutines, endpoints>>

IncomingP2PCreatedHandler ==
    /\ Receive("EndpointCreated")
    /\ Msg.endp \in Inbound
    /\ Serve(incomingViewList, Msg.endp,
             Admits(incomingViewList, Msg.endp, incomingViewListMAX) /\ ~isStopping)
    /\ Dequeue
    /\ UNCHANGED <<status, lists, marks, apiClients, submodules, isStopping,
                   others, membership, loans>>

APIEndpointCreatedHandler ==
    /\ Receive("EndpointCreated")
    /\ Msg.endp \in Client
    /\ Serve(apiClients, Msg.endp,
             Admits(apiClients, Msg.endp, apiClientsMAX) /\ ~isStopping)
    /\ Dequeue
    /\ UNCHANGED <<status, lists, marks, incomingViewList, submodules, isStopping,
                   others, membership, loans>>

\* One half of a served endpoint has stopped.  If that was the first one and
\* it crashed the other is stopped as well; after the second one the endpoint
\* leaves the table.
ServedClosed(table) ==
    IF Msg.endp \notin DOMAIN table \/ HasStopped(table[Msg.endp], Msg.half)
    THEN UNCHANGED <<table, totalGoroutines, endpoints>>
    ELSE LET info == Stopped(table[Msg.endp], Msg.half, Msg.err)
         IN  /\ totalGoroutines' = totalGoroutines - 1
             /\ IF HaveBothStopped(info)
                THEN table' = Without(table, Msg.endp) /\ UNCHANGED endpoints
                ELSE /\ table' = With(table, Msg.endp, info)
                     /\ CloseAll(IF info.hasCrashed THEN {Msg.endp} ELSE {})

IncomingPeerClosed ==
    /\ Receive("EndpointClosed")
    /\ Msg.endp \in Inbound
    /\ ServedClosed(incomingViewList)
    /\ Finish
    /\ Dequeue
    /\ UNCHANGED <<lists, marks, apiClients, submodules, isStopping, others, membership, loans>>

\* The Gossiper is told that an API client has gone, through the queue of a
\* Gossiper that may be nil by then.
APIEndpointClosed ==
    /\ Receive("EndpointClosed")
    /\ Msg.endp \in Client
    /\ ServedClosed(apiClients)
    /\ IF Msg.endp \in DOMAIN apiClients \ DOMAIN apiClients' /\ "gossiper" \notin submodules
       THEN status' = "crashed"
       ELSE Finish
    /\ Dequeue
    /\ UNCHANGED <<lists, marks, incomingViewList, submodules, isStopping,
                   others, membership, loans>>

(* Loans of peers to the Gossiper *)

\* RandomPeerListRequestMSG: some peers of the view are lent to the Gossiper,
\* whether or not their endpoints still run.
RandomPeerListRequestHandler ==
    /\ status = "running" /\ ~isStopping
    /\ \E randomPeers \in SUBSET DOMAIN viewList \ {{}} :
       /\ \A p \in randomPeers : loans[p] < MaxLoans /\ viewList[p].usageCounter < MaxLoans
       /\ viewList' = [p \in DOMAIN viewList |->
                          IF p \in randomPeers THEN Used(viewList[p], 1) ELSE viewList[p]]
       /\ loans' = [p \in Peer |-> IF p \in randomPeers THEN loans[p] + 1 ELSE loans[p]]
    /\ UNCHANGED <<status, inbox, awaitingRemovalViewList, marks, served, submodules,
                   isStopping, totalGoroutines, endpoints, others, membership>>

\* A fault: a returned peer that waits for removal is not closed.
ToCloseNever(returned) == {}

\* The returned peers that wait for removal and are used no longer.
ToClose(returned) == {p \in DOMAIN returned : returned[p].usageCounter <= 0 /\ ~HaveBothStopped(returned[p])}

\* RandomPeerListReleaseMSG: the Gossiper returns a list of peers.
RandomPeerListReleaseHandler(peers) ==
    /\ status = "running" /\ ~isStopping
    /\ peers # {} /\ \A p \in peers : loans[p] > 0
    /\ loans' = [p \in Peer |-> IF p \in peers THEN loans[p] - 1 ELSE loans[p]]
    /\ viewList' = [p \in DOMAIN viewList |->
                       IF p \in peers THEN Used(viewList[p], -1) ELSE viewList[p]]
    /\ LET waiting == peers \cap (DOMAIN awaitingRemovalViewList \ DOMAIN viewList)
           returned == [p \in waiting |-> Used(awaitingRemovalViewList[p], -1)]
           gone == {p \in waiting : RemovedAtOnce(returned[p])}
       IN  /\ awaitingRemovalViewList' = [p \in DOMAIN awaitingRemovalViewList \ gone |->
                  IF p \in waiting THEN returned[p] ELSE awaitingRemovalViewList[p]]
           /\ CloseAll(ToClose(returned))
    /\ UNCHANGED <<status, inbox, marks, served, submodules, isStopping, totalGoroutines,
                   others, membership>>

\* The Gossiper drops a peer list without returning it: it does so with the
\* peers it pulls from and with the items that a client rejects.
GossiperForgets(peer) ==
    /\ status = "running" /\ loans[peer] > 0
    /\ loans' = [loans EXCEPT ![peer] = @ - 1]
    /\ UNCHANGED <<status, inbox, central, endpoints, others, membership>>
-----------------------------------------------------------------------------
(* Shutdown *)

\* A fault: the endpoints that wait for removal are not closed.
ListedOutgoing == DOMAIN viewList

AllOutgoing == DOMAIN viewList \cup DOMAIN awaitingRemovalViewList

CloseHandler ==
    /\ Receive("CentralClose")
    /\ active' = [s \in Submodule |-> IF active[s] = "running" THEN "closing" ELSE active[s]]
    /\ CloseAll(AllOutgoing \cup DOMAIN incomingViewList \cup DOMAIN apiClients)
    /\ activelyCreatedPeers' = [p \in DOMAIN activelyCreatedPeers |-> TRUE]
    /\ activelyProbedPeers' = [p \in DOMAIN activelyProbedPeers |-> FALSE]
    /\ isStopping' = TRUE
    /\ Dequeue
    /\ UNCHANGED <<status, lists, served, submodules, totalGoroutines,
                   dials, probes, arrivals, membership, loans>>

SubmoduleClosedHandler ==
    /\ Receive("SubmoduleClosed")
    /\ submodules' = submodules \ {Msg.which}
    /\ totalGoroutines' = totalGoroutines - 1
    /\ Finish
    /\ Dequeue
    /\ UNCHANGED <<lists, marks, served, isStopping, endpoints, others, membership, loans>>

\* The timer of the shutdown went off before Run returned: log.Fatalln.
CrashHandler ==
    /\ Receive("CentralCrash")
    /\ status' = "crashed"
    /\ Dequeue
    /\ UNCHANGED <<central, endpoints, others, membership, loans>>

\* While stopping, a message of any other type is dropped.
DropMessage ==
    /\ status = "running" /\ isStopping
    /\ inbox # <<>> /\ Msg.type \notin StopMessage
    /\ Dequeue
    /\ UNCHANGED <<status, central, endpoints, others, membership, loans>>

Handler ==
    \/ PeerAddHandler \/ PeerRemoveHandler \/ ProbePeerRequestHandler
    \/ CentralProbePeerReplyHandler \/ OutgoingP2PCreatedHandler
    \/ OutgoingPeerClosed \/ IncomingP2PCreatedHandler \/ APIEndpointCreatedHandler
    \/ IncomingPeerClosed \/ APIEndpointClosed \/ CloseHandler
    \/ SubmoduleClosedHandler \/ CrashHandler \/ DropMessage
-----------------------------------------------------------------------------
(* The goroutines that send to the Central controller *)

Send(m) == inbox' = Append(inbox, m)

\* A dial ends; ok says whether there is a connection.
DialEnds(peer, ok) ==
    /\ status = "running" /\ dials[peer] > 0
    /\ dials' = [dials EXCEPT ![peer] = @ - 1]
    /\ Send(Created("OutgoingP2PCreated", peer, ok))
    /\ UNCHANGED <<status, central, endpoints, active, probes, arrivals, membership, loans>>

\* A probe ends.  After a failed dial the nil connection is closed, which
\* panics outside of every recover.
ProbeEnds(peer, ok) ==
    /\ status = "running" /\ probes[peer] > 0
    /\ probes' = [probes EXCEPT ![peer] = @ - 1]
    /\ IF ok
       THEN Send(ForPeer("CentralProbePeerReply", peer)) /\ UNCHANGED status
       ELSE status' = "crashed" /\ UNCHANGED inbox
    /\ UNCHANGED <<central, endpoints, active, dials, arrivals, membership, loans>>

Ends(endp, half, err) ==
    /\ status = "running" /\ <<endp, half>> \in running
    /\ running' = running \ {<<endp, half>>}
    /\ Send(Closed(endp, half, err))
    /\ UNCHANGED <<status, central, closing, connected, others, membership, loans>>

\* A half that was told to close does so; the reader of an endpoint without a
\* connection crashes on its first use.
EndpointCloses(endp, half) ==
    \/ endp \in closing /\ Ends(endp, half, FALSE)
    \/ half = "reader" /\ endp \notin connected /\ Ends(endp, half, TRUE)

\* A reader crashes when the remote side goes away or sends what cannot be
\* decoded.  Errors of a writer are only logged, but without a connection it
\* crashes on the first message that it sends.
EndpointCrashes(endp, half) ==
    /\ half = "writer" => endp \notin connected
    /\ Ends(endp, half, TRUE)

\* A listener accepts a connection; it may still do so after Close.
ListenerAccepts(endp) ==
    /\ status = "running" /\ arrivals < MaxArrivals
    /\ LET listener == IF endp \in Client THEN "apiListener" ELSE "p2pListener"
       IN  listener \in Submodule => active[listener] # "ended"
    /\ arrivals' = arrivals + 1
    /\ Send(Created("EndpointCreated", endp, TRUE))
    /\ UNCHANGED <<status, central, endpoints, active, dials, probes, membership, loans>>

\* A submodule that was told to close says so; the Membership controller
\* discards what is left in its queue.
SubmoduleCloses(s) ==
    /\ status = "running" /\ active[s] = "closing"
    /\ active' = [active EXCEPT ![s] = "ended"]
    /\ mInbox' = IF s = "membership" THEN <<>> ELSE mInbox
    /\ Send(SubmoduleClosed(s))
    /\ UNCHANGED <<status, central, endpoints, dials, probes, arrivals,
                   members, views, asked, loans>>

\* A submodule that panics sends MembershipCrashedMSG, GossiperCrashedMSG, ...;
\* the Central controller panics on each of them as on CentralCrashMSG.
SubmoduleCrashes(s) ==
    /\ status = "running" /\ active[s] # "ended"
    /\ active' = [active EXCEPT ![s] = "ended"]
    /\ Send(CentralCrash)
    /\ UNCHANGED <<status, central, endpoints, dials, probes, arrivals, membership, loans>>

UserInterrupts ==
    /\ Interrupts /\ status = "running" /\ ~isStopping
    /\ \A i \in DOMAIN inbox : inbox[i].type # "CentralClose"
    /\ Send(CentralClose)
    /\ UNCHANGED <<status, central, endpoints, others, membership, loans>>

ClosureTimesOut ==
    /\ status = "running" /\ isStopping
    /\ \A i \in DOMAIN inbox : inbox[i].type # "CentralCrash"
    /\ Send(CentralCrash)
    /\ UNCHANGED <<status, central, endpoints, others, membership, loans>>
-----------------------------------------------------------------------------
(* The Membership controller *)

MembershipRuns == "membership" \in Submodule => active["membership"] # "ended"

\* replaceViewList: orders to remove the peers that left the view, then to add
\* the new ones.  They go to the queue as a block: a message of another sender
\* in between would concern other peers or be handled the same.
ReplaceViewList(newViewList) ==
    /\ status = "running" /\ MembershipRuns
    /\ views < MaxViews
    /\ views' = views + 1
    /\ members' = newViewList
    /\ LET Block(type, S) == {f \in [1..Cardinality(S) -> {ForPeer(type, p) : p \in S}] :
                                 \A i, j \in 1..Cardinality(S) : f[i] = f[j] => i = j}
       IN  \E removals \in Block("PeerRemove", members \ newViewList),
              additions \in Block("PeerAdd", newViewList \ members) :
              inbox' = inbox \o removals \o additions
    /\ UNCHANGED <<status, central, endpoints, others, mInbox, asked, loans>>

\* probePeerRound, for one sampled peer
MembershipProbes(peer) ==
    /\ status = "running" /\ MembershipRuns
    /\ asked < MaxProbes
    /\ asked' = asked + 1
    /\ Send(ForPeer("ProbePeerRequest", peer))
    /\ UNCHANGED <<status, central, endpoints, others, members, mInbox, views, loans>>

\* peerDisconnectedHandler
PeerDisconnectedHandler ==
    /\ status = "running" /\ MembershipRuns
    /\ mInbox # <<>>
    /\ mInbox' = Tail(mInbox)
    /\ LET peer == Head(mInbox).peer
       IN  IF peer \in members
           THEN members' = members \ {peer} /\ Send(ForPeer("PeerRemove", peer))
           ELSE UNCHANGED <<members, inbox>>
    /\ UNCHANGED <<status, central, endpoints, others, views, asked, loans>>

Views == {S \in SUBSET Peer : Cardinality(S) <= ViewListCap}

Next ==
    \/ Handler
    \/ RandomPeerListRequestHandler
    \/ \E peers \in SUBSET Peer : RandomPeerListReleaseHandler(peers)
    \/ \E peer \in Peer : GossiperForgets(peer)
    \/ \E peer \in Peer, ok \in BOOLEAN : DialEnds(peer, ok) \/ ProbeEnds(peer, ok)
    \/ \E endp \in Endpoint, half \in Half :
          EndpointCloses(endp, half) \/ EndpointCrashes(endp, half)
    \/ \E endp \in Inbound \cup Client : ListenerAccepts(endp)
    \/ \E s \in Submodule : SubmoduleCloses(s)
    \/ \E s \in Crashing : SubmoduleCrashes(s)
    \/ UserInterrupts
    \/ ClosureTimesOut
    \/ \E newViewList \in Views : ReplaceViewList(newViewList)
    \/ \E peer \in Peer : MembershipProbes(peer)
    \/ PeerDisconnectedHandler

Spec == Init /\ [][Next]_vars

\* Goroutines are scheduled, dials and probes time out, a half that was told to
\* close notices within closureCheckTimeout, and the Gossiper retires every item
\* in the end and returns its peers.
Fairness ==
    /\ WF_vars(Handler)
    /\ WF_vars(PeerDisconnectedHandler)
    /\ \A peer \in Peer :
          /\ WF_vars(\E ok \in BOOLEAN : DialEnds(peer, ok))
          /\ WF_vars(\E ok \in BOOLEAN : ProbeEnds(peer, ok))
          /\ WF_vars(RandomPeerListReleaseHandler({peer}))
    /\ \A endp \in Endpoint, half \in Half : WF_vars(EndpointCloses(endp, half))
    /\ \A s \in Submodule : WF_vars(SubmoduleCloses(s))

FairSpec == Spec /\ Fairness
-----------------------------------------------------------------------------
(* Properties *)

IsMap(m, K, V) == DOMAIN m \subseteq K /\ m \in [DOMAIN m -> V]

TypeOK ==
    /\ status \in {"running", "done", "crashed"}
    /\ isStopping \in BOOLEAN
    /\ totalGoroutines \in Nat
    /\ inbox \in Seq(Message)
    /\ IsMap(viewList, Peer, Info)
    /\ IsMap(awaitingRemovalViewList, Peer, Info)
    /\ IsMap(activelyCreatedPeers, Peer, BOOLEAN)
    /\ IsMap(activelyProbedPeers, Peer, BOOLEAN)
    /\ IsMap(incomingViewList, Inbound, Info)
    /\ IsMap(apiClients, Client, Info)
    /\ submodules \subseteq Submodule
    /\ active \in [Submodule -> {"running", "closing", "ended"}]
    /\ running \subseteq Endpoint \X Half
    /\ closing \subseteq Endpoint
    /\ connected \subseteq Endpoint
    /\ dials \in [Peer -> Nat]
    /\ probes \in [Peer -> Nat]
    /\ members \subseteq Peer
    /\ mInbox \in Seq([type : {"PeerDisconnected"}, peer : Peer])
    /\ loans \in [Peer -> Nat]
    /\ views \in Nat /\ asked \in Nat /\ arrivals \in Nat

\* A peer is in the view, waits for removal, is being dialled or is being
\* probed, and never in two of these at once: the handlers look a peer up in
\* one map after the other and stop at the first.
OnePlace ==
    LET Apart(f, g) == DOMAIN f \cap DOMAIN g = {}
    IN  /\ Apart(viewList, awaitingRemovalViewList)
        /\ Apart(viewList, activelyCreatedPeers)
        /\ Apart(viewList, activelyProbedPeers)
        /\ Apart(awaitingRemovalViewList, activelyCreatedPeers)
        /\ Apart(awaitingRemovalViewList, activelyProbedPeers)
        /\ Apart(activelyCreatedPeers, activelyProbedPeers)

\* The halves that a map of endpoints says are running.
Halves(table) ==
    {eh \in (DOMAIN table) \X Half : ~HasStopped(table[eh[1]], eh[2])}

Recorded ==
    Halves(viewList) \cup Halves(awaitingRemovalViewList)
    \cup Halves(incomingViewList) \cup Halves(apiClients)

\* The messages in the queue that say that this half has ended.
Endings(endp, half) ==
    {i \in DOMAIN inbox : /\ inbox[i].type = "EndpointClosed"
                          /\ inbox[i].endp = endp /\ inbox[i].half = half}

\* Messages name an endpoint by its address only.  Still the controller's
\* records agree with the goroutines: a half is recorded as running if and only
\* if it runs or its last message is under way, and there is one such message.
\* So no message of an old connection is taken for one of its successor.
RecordsMatchGoroutines ==
    \A endp \in Endpoint, half \in Half :
        LET runs == <<endp, half>> \in running
            n == Cardinality(Endings(endp, half))
        IN  /\ runs => n = 0
            /\ n <= 1
            /\ <<endp, half>> \in Recorded <=> runs \/ n = 1

\* Run's only counter is right: the submodules and the halves recorded as running.
GoroutinesCounted ==
    totalGoroutines = Cardinality(submodules) + Cardinality(Recorded)

\* controller.go:588-591: until a shutdown a peer that the Gossiper holds is
\* still there to be returned, and counts at least the loans that are out.
LoansAccounted ==
    isStopping \/
    \A p \in Peer :
        LET listed == AllOutgoing
            held == IF p \in DOMAIN viewList THEN viewList ELSE awaitingRemovalViewList
        IN  IF p \in listed THEN held[p].usageCounter >= loans[p] ELSE loans[p] = 0

\* controller.go:90-98, one direction: a peer is forgotten only when its two
\* goroutines have ended and, but for a shutdown, when the Gossiper holds no
\* loan of it and the Membership controller wants it no longer.
ForgottenByTheRule ==
    [][\A p \in AllOutgoing \ AllOutgoing' :
          /\ \A half \in Half : <<p, half>> \notin running /\ Endings(p, half)' = {}
          /\ isStopping \/ (loans'[p] = 0 /\ (p \in DOMAIN awaitingRemovalViewList
                                              \/ Msg.type = "PeerRemove"))]_vars

\* The other direction: a peer that has stopped and waits for removal is still
\* there only because it is used.
NoneOverdue ==
    \A p \in DOMAIN awaitingRemovalViewList :
        HaveBothStopped(awaitingRemovalViewList[p])
            => awaitingRemovalViewList[p].usageCounter > 0

\* controller.go:1317-1318: Run returns only when no goroutine of an endpoint
\* and no submodule is left.
DoneMeansAllEnded ==
    status = "done" => running = {} /\ \A s \in Submodule : active[s] = "ended"

\* A peer that waits for removal is removed, unless a peer list it was on is lost.
RemovalDrains ==
    \A p \in Peer :
        (p \in DOMAIN awaitingRemovalViewList) ~>
            \/ p \notin DOMAIN awaitingRemovalViewList
            \/ awaitingRemovalViewList[p].usageCounter > loans[p]
            \/ isStopping \/ status # "running"

\* A shutdown comes to an end, without the help of its timer.
ShutdownEnds == isStopping ~> status # "running"
-----------------------------------------------------------------------------
(* What comments of the source say and the code does not do *)

Quiet ==
    /\ status = "running" /\ ~isStopping
    /\ inbox = <<>> /\ mInbox = <<>>
    /\ \A p \in Peer : dials[p] = 0 /\ probes[p] = 0

\* membership_controller.go:343-346: the view lists of both controllers agree
\* in the end, here when no message and no goroutine is under way.
ViewsAgreeWhenQuiet == Quiet => DOMAIN viewList = members

\* controller.go:1317-1318: a shutdown that the timer does not cut short is graceful.
GracefulShutdown ==
    [][isStopping /\ status' = "crashed" => Msg.type = "CentralCrash"]_vars
=============================================================================
