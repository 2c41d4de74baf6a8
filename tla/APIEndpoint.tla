---------------------------- MODULE APIEndpoint ----------------------------
(***************************************************************************)
(* The API (src/core/api.go) from a client to the Gossiper and back: a     *)
(* client that connects from one address again and again, the endpoint of  *)
(* its connection with its two goroutines, the Central controller as far   *)
(* as it keeps apiClients and passes messages on, and the Gossiper as far  *)
(* as it registers the client.  Both controllers handle one FIFO queue.    *)
(*                                                                         *)
(* Connections are numbered; the code knows the address only, so that the  *)
(* number in a message is history.  A message of the client is two units   *)
(* of the TCP stream, a header with the size and the rest; TCP may join    *)
(* messages and take them apart.  That the rest of a message, taken for a  *)
(* header, gives its own size by chance is left out.                       *)
(*                                                                         *)
(* notifyClients keeps a pointer, in the notification and in validationMap.*)
(* In a round of gossip it points to the variable of a loop, which later   *)
(* turns set to other items.  A pointer is named by the first item that it *)
(* pointed to when it was given away.                                      *)
(***************************************************************************)
EXTENDS Integers, Sequences, FiniteSets, Maps

CONSTANTS
    MaxConns,  \* bound: connections of the client, one after the other
    MaxSends,  \* bound: connection -> messages it sends
    MaxItems,  \* bound: new items
    IDSpace,   \* message IDs, 2^16 in the code
    Buffered,  \* units that the 4096 bytes of the bufio reader hold
    Quota      \* units that the 65535 bytes of the LimitReader make

Conn == 1..MaxConns

ASSUME BoundAssumption ==
    /\ MaxConns \in Nat /\ MaxSends \in [Conn -> Nat] /\ MaxItems \in Nat
    /\ IDSpace \in Nat \ {0} /\ Buffered \in Nat /\ Quota \in Nat

Item == 1..MaxItems
ID == 0..(IDSpace - 1)
Half == {"reader", "writer"}

VARIABLES
    stream,           \* connection -> units sent by the client and not read yet
    current,          \* the latest connection of the client, 0 before the first
    gone,             \* the connections the client has closed
    shut,             \* the connections the node has closed
    shown,            \* history: connection -> the notifications written to it
    sends,            \* messages the client has sent on it
    apiClients,       \* the connection whose endpoint is in apiClients, or 0
    stopped, hasCrashed,  \* its state in apiClients
    running,          \* the goroutines that run: <<connection, half>>
    closing,          \* the connections whose endpoint was told to close
    MsgInQueue,       \* of the endpoint in apiClients
    budget,           \* units its LimitReader still lets through
    isStopping,       \* has the User interrupted the node?
    inbox,            \* MsgInQueue of the Central controller
    gossiper,         \* MsgInQueue of the Gossiper
    registered,       \* is the address in apiClientsToNotify?
    validationMap, nextAvailableID,  \* its entry there
    registrant,       \* history: the connection that registered it, or 0
    forwarded,        \* history: the connections whose GOSSIP NOTIFY was passed on
    strayed,          \* history: the connections shown notifications of an earlier one
    items, rejected,  \* items that have come, items a client has rejected
    looping,          \* the pointer to the variable of the loop that runs, or 0
    held,             \* pointer -> the item it points to
    visits            \* history: pointer -> the items it has pointed to

clientVars == <<current, gone, sends>>
endpointVars == <<stopped, hasCrashed, running, closing, MsgInQueue, budget>>
loopVars == <<looping, held, visits>>
gossiperVars == <<registered, validationMap, nextAvailableID, registrant, items, rejected, loopVars>>
vars == <<stream, clientVars, shut, shown, apiClients, endpointVars, isStopping, inbox,
          gossiper, gossiperVars, forwarded, strayed>>

Request == [kind : {"Notify", "Announce"}]
           \cup [kind : {"Validation"}, ID : ID, valid : BOOLEAN]

Pointer == Item

Notification == [kind : {"Notification"}, ID : ID, item : Pointer, registrant : Conn]

Shown == [ID : ID, pointer : Pointer, item : Item]

CloseMSG == [kind |-> "Close"]

CentralMessage ==
    [kind : {"EndpointCreated"}, conn : Conn]
    \cup [kind : {"IncomingAPI"}, conn : Conn, request : Request]
    \cup [kind : {"EndpointClosed"}, conn : Conn, half : Half, err : BOOLEAN]
    \cup Notification

GossiperMessage == [kind : {"Unnotify"}] \cup [conn : Conn, request : Request]

Init ==
    /\ stream = [c \in Conn |-> <<>>]
    /\ current = 0 /\ gone = {} /\ shut = {} /\ sends = 0
    /\ shown = [c \in Conn |-> {}]
    /\ apiClients = 0 /\ stopped = {} /\ hasCrashed = FALSE
    /\ running = {} /\ closing = {} /\ MsgInQueue = <<>> /\ budget = Quota
    /\ isStopping = FALSE
    /\ inbox = <<>> /\ gossiper = <<>>
    /\ registered = FALSE /\ validationMap = EmptyMap /\ nextAvailableID = 0
    /\ registrant = 0 /\ forwarded = {} /\ strayed = {}
    /\ items = 0 /\ rejected = {}
    /\ looping = 0 /\ held = [p \in Pointer |-> p] /\ visits = [p \in Pointer |-> {p}]

SendCentral(m) == inbox' = Append(inbox, m)

\* handleGossipAnnounce, handleGossipNotify, handleGossipValidation
Incoming(c, r) == [kind |-> "IncomingAPI", conn |-> c, request |-> r]
-----------------------------------------------------------------------------
(* The client, and the listener that accepts it *)

Open == current \in Conn \ gone

ClientConnects ==
    /\ ~Open /\ current < MaxConns
    /\ current' = current + 1 /\ sends' = 0
    /\ SendCentral([kind |-> "EndpointCreated", conn |-> current + 1])
    /\ UNCHANGED <<stream, gone, shut, shown, apiClients, endpointVars, gossiper,
                   gossiperVars, forwarded, strayed, isStopping>>

\* It validates what it was shown, also more than once.  What it sends to a node
\* that stops is ignored, and left out.
ClientSends ==
    /\ Open /\ sends < MaxSends[current] /\ ~isStopping
    /\ sends' = sends + 1
    /\ \E r \in Request :
          /\ r.kind = "Validation" => \E n \in shown[current] : n.ID = r.ID
          /\ stream' = [stream EXCEPT ![current] = @ \o <<<<r, 1>>, <<r, 2>>>>]
    /\ UNCHANGED <<current, gone, shut, shown, apiClients, endpointVars, inbox, gossiper,
                   gossiperVars, forwarded, strayed, isStopping>>

ClientLeaves ==
    /\ Open
    /\ gone' = gone \cup {current}
    /\ UNCHANGED <<stream, current, sends, shut, shown, apiClients, endpointVars, inbox,
                   gossiper, gossiperVars, forwarded, strayed, isStopping>>
-----------------------------------------------------------------------------
(* The endpoint *)

Smaller(m, n) == IF m < n THEN m ELSE n

\* What one Read may return: as many of the first units as have arrived and fit.
Chunks(c) == {SubSeq(stream[c], 1, n) :
                 n \in 1..Smaller(Smaller(Len(stream[c]), Buffered), budget)}

\* The size in the header is the size of the chunk.
IsMessage(chunk) == chunk[1][2] = 1 /\ Len(chunk) = 2

\* Whatever is not one whole message is dropped.
ReaderReads(c) ==
    /\ <<c, "reader">> \in running
    /\ \E chunk \in Chunks(c) :
          /\ stream' = [stream EXCEPT ![c] = SubSeq(@, Len(chunk) + 1, Len(@))]
          /\ budget' = budget - Len(chunk)
          /\ IF IsMessage(chunk)
             THEN SendCentral(Incoming(c, chunk[1][1]))
             ELSE UNCHANGED inbox
    /\ UNCHANGED <<clientVars, shut, shown, apiClients, stopped, hasCrashed, running, closing,
                   MsgInQueue, gossiper, gossiperVars, forwarded, strayed, isStopping>>

Ends(c, half, err) ==
    /\ running' = running \ {<<c, half>>}
    /\ SendCentral([kind |-> "EndpointClosed", conn |-> c, half |-> half, err |-> err])
    /\ UNCHANGED <<stream, clientVars, shut, shown, apiClients, stopped, hasCrashed, closing,
                   budget, gossiper, gossiperVars, forwarded, strayed, isStopping>>

ReaderCloses(c) ==
    /\ <<c, "reader">> \in running /\ c \in closing
    /\ Ends(c, "reader", FALSE) /\ UNCHANGED MsgInQueue

\* An announcement may be shorter than its own fields: make panics on the
\* negative size of its data.
MayBeTooShort(chunk) == IsMessage(chunk) /\ chunk[1][1].kind = "Announce"

\* Peek finds the end of the stream, or of what the LimitReader lets through;
\* a client that leaves may take back what was not read.
ReaderCrashes(c) ==
    /\ <<c, "reader">> \in running
    /\ \/ c \in gone \/ budget = 0
       \/ \E chunk \in Chunks(c) : MayBeTooShort(chunk)
    /\ Ends(c, "reader", TRUE) /\ UNCHANGED MsgInQueue

\* A notification is written, or lost to an error or a deadline.  It shows the item
\* that the pointer finds now.
WriterWrites(c) ==
    /\ <<c, "writer">> \in running /\ MsgInQueue # <<>> /\ Head(MsgInQueue) # CloseMSG
    /\ LET n == Head(MsgInQueue)
       IN  \/ /\ c \notin gone
              /\ shown' = [shown EXCEPT ![c] = @ \cup
                                {[ID |-> n.ID, pointer |-> n.item, item |-> held[n.item]]}]
              /\ strayed' = IF n.registrant = c THEN strayed ELSE strayed \cup {c}
           \/ UNCHANGED <<shown, strayed>>
    /\ MsgInQueue' = Tail(MsgInQueue)
    /\ UNCHANGED <<stream, clientVars, shut, apiClients, stopped, hasCrashed, running, closing,
                   budget, inbox, gossiper, gossiperVars, forwarded, isStopping>>

WriterCloses(c) ==
    /\ <<c, "writer">> \in running /\ MsgInQueue # <<>> /\ Head(MsgInQueue) = CloseMSG
    /\ MsgInQueue' = Tail(MsgInQueue)
    /\ Ends(c, "writer", FALSE)
-----------------------------------------------------------------------------
(* The Central controller *)

\* centralControllerStopMessages
StopMessage == {"EndpointCreated", "EndpointClosed"}

CentralTakes(kind) ==
    /\ inbox # <<>> /\ Head(inbox).kind = kind
    /\ isStopping => kind \in StopMessage
    /\ inbox' = Tail(inbox)

\* Run ignores all others while stopping.
CentralIgnores ==
    /\ isStopping /\ inbox # <<>> /\ Head(inbox).kind \notin StopMessage
    /\ inbox' = Tail(inbox)
    /\ UNCHANGED <<stream, clientVars, shut, shown, apiClients, endpointVars, gossiper,
                   gossiperVars, forwarded, strayed, isStopping>>

\* A fault: a new connection replaces that of the same address.
MayServeAgain == ~isStopping

\* Connections are also refused at the limit.
MayServe == apiClients = 0 /\ ~isStopping

APIEndpointCreatedHandler ==
    /\ CentralTakes("EndpointCreated")
    /\ LET c == Head(inbox).conn
       IN  \/ /\ MayServe
              /\ apiClients' = c /\ stopped' = {} /\ hasCrashed' = FALSE
              /\ running' = running \cup ({c} \X Half)
              /\ MsgInQueue' = <<>> /\ budget' = Quota
              /\ UNCHANGED shut
           \/ shut' = shut \cup {c} /\ UNCHANGED <<apiClients, stopped, hasCrashed, running,
                                                   MsgInQueue, budget>>
    /\ UNCHANGED <<stream, clientVars, shown, closing, gossiper, gossiperVars, forwarded, strayed, isStopping>>

\* A fault: a goroutine that goes on after the other one has crashed.
StopsNever(crashed) == FALSE

StopsOther(crashed) == crashed

\* The end of one goroutine; the other one is told to close after a crash, and
\* the client is forgotten when both have ended.
APIEndpointClosed ==
    /\ CentralTakes("EndpointClosed")
    /\ LET m == Head(inbox)
           crashed == hasCrashed \/ m.err
       IN  IF apiClients = 0 \/ m.half \in stopped
           THEN UNCHANGED <<apiClients, stopped, hasCrashed, shut, closing, MsgInQueue, gossiper>>
           ELSE /\ stopped' = stopped \cup {m.half}
                /\ hasCrashed' = crashed
                /\ IF stopped' = Half
                   THEN /\ apiClients' = 0
                        /\ shut' = shut \cup {m.conn}
                        /\ gossiper' = Append(gossiper, [kind |-> "Unnotify"])
                        /\ UNCHANGED <<closing, MsgInQueue>>
                   ELSE /\ closing' = IF StopsOther(crashed) THEN closing \cup {apiClients} ELSE closing
                        /\ MsgInQueue' = IF StopsOther(crashed) /\ apiClients \notin closing
                                         THEN Append(MsgInQueue, CloseMSG) ELSE MsgInQueue
                        /\ UNCHANGED <<apiClients, shut, gossiper>>
    /\ UNCHANGED <<stream, clientVars, shown, running, budget, gossiperVars, forwarded, strayed, isStopping>>

\* Requests are passed on without looking at apiClients.
IncomingAPIHandler ==
    /\ CentralTakes("IncomingAPI")
    /\ LET m == Head(inbox)
       IN  /\ gossiper' = Append(gossiper, [conn |-> m.conn, request |-> m.request])
           /\ forwarded' = IF m.request.kind = "Notify" THEN forwarded \cup {m.conn} ELSE forwarded
    /\ UNCHANGED <<stream, clientVars, shut, shown, apiClients, endpointVars, gossiperVars, strayed, isStopping>>

\* To whichever connection is in apiClients under the address.
GossipNotificationHandler ==
    /\ CentralTakes("Notification")
    /\ MsgInQueue' = IF apiClients # 0 /\ "writer" \notin stopped
                     THEN Append(MsgInQueue, Head(inbox)) ELSE MsgInQueue
    /\ UNCHANGED <<stream, clientVars, shut, shown, apiClients, stopped, hasCrashed, running,
                   closing, budget, gossiper, gossiperVars, forwarded, strayed, isStopping>>

Closes == {apiClients} \ ({0} \cup closing)

\* closeHandler, and Close of the endpoint.  What the Gossiper still does then is
\* left out: none of it is a stop message.
CloseHandler ==
    /\ ~isStopping
    /\ isStopping' = TRUE
    /\ closing' = closing \cup Closes
    /\ MsgInQueue' = IF Closes = {} THEN MsgInQueue ELSE Append(MsgInQueue, CloseMSG)
    /\ UNCHANGED <<stream, clientVars, shut, shown, apiClients, stopped, hasCrashed, running,
                   budget, inbox, gossiper, gossiperVars, forwarded, strayed>>
-----------------------------------------------------------------------------
(* The Gossiper *)

\* Faults: the next notification has the same ID, or IDs do not wrap around.
SameID(id) == id
UnboundedID(id) == id + 1

NextID(id) == (id + 1) % IDSpace

\* notifyClients, for an item that has come and a pointer to it.
NotifyClients(pointer) ==
    /\ items < MaxItems
    /\ items' = items + 1
    /\ IF registered
       THEN /\ SendCentral([kind |-> "Notification", ID |-> nextAvailableID, item |-> pointer,
                            registrant |-> registrant])
            /\ validationMap' = With(validationMap, nextAvailableID, pointer)
            /\ nextAvailableID' = NextID(nextAvailableID)
       ELSE UNCHANGED <<inbox, validationMap, nextAvailableID>>
    /\ UNCHANGED <<registered, registrant, rejected>>

\* The loop of updateRound has one variable for all its turns.  With nobody
\* registered no pointer to it is kept, and no more is said of the round.
Visits(pointer, item) ==
    /\ looping' = IF registered THEN pointer ELSE 0
    /\ held' = [held EXCEPT ![pointer] = item]
    /\ visits' = [visits EXCEPT ![pointer] = @ \cup {item}]

NewItem ==
    LET pointer == IF looping = 0 THEN items + 1 ELSE looping
    IN  NotifyClients(pointer) /\ Visits(pointer, items + 1)

\* A copy of an item that has come before, whatever became of that.
KnownItem ==
    /\ looping # 0
    /\ \E item \in (1..items) \ visits[looping] : Visits(looping, item)
    /\ UNCHANGED <<inbox, registered, validationMap, nextAvailableID, registrant, items, rejected>>

RoundEnds ==
    /\ looping # 0 /\ looping' = 0
    /\ UNCHANGED <<inbox, registered, validationMap, nextAvailableID, registrant, items, rejected,
                   held, visits>>

\* The rounds in which no item is new, and the turns before the first one that
\* is, concern no client.
UpdateRound ==
    /\ ~isStopping
    /\ NewItem \/ KnownItem \/ RoundEnds
    /\ UNCHANGED <<stream, clientVars, shut, shown, apiClients, endpointVars, gossiper,
                   forwarded, strayed, isStopping>>

NotifyHandler(m) ==
    /\ IF registered
       THEN UNCHANGED <<registered, validationMap, nextAvailableID, registrant>>
       ELSE /\ registered' = TRUE /\ registrant' = m.conn
            /\ validationMap' = EmptyMap /\ nextAvailableID' = 0
    /\ UNCHANGED <<items, rejected, loopVars>>

UnnotifyHandler ==
    /\ registered' = FALSE /\ registrant' = 0
    /\ validationMap' = EmptyMap /\ nextAvailableID' = 0
    /\ UNCHANGED <<items, rejected, loopVars>>

ValidationHandler(r) ==
    /\ IF registered /\ r.ID \in DOMAIN validationMap
       THEN /\ validationMap' = Without(validationMap, r.ID)
            /\ rejected' = IF r.valid THEN rejected ELSE rejected \cup {held[validationMap[r.ID]]}
       ELSE UNCHANGED <<validationMap, rejected>>
    /\ UNCHANGED <<registered, registrant, nextAvailableID, items, loopVars>>

\* The pointer to an announced item is its own.
GossiperHandles ==
    /\ ~isStopping /\ gossiper # <<>> /\ looping = 0
    /\ gossiper' = Tail(gossiper)
    /\ LET m == Head(gossiper)
       IN  \/ "request" \notin DOMAIN m /\ UnnotifyHandler /\ UNCHANGED inbox
           \/ /\ "request" \in DOMAIN m
              /\ \/ m.request.kind = "Notify" /\ NotifyHandler(m) /\ UNCHANGED inbox
                 \/ m.request.kind = "Validation" /\ ValidationHandler(m.request) /\ UNCHANGED inbox
                 \/ m.request.kind = "Announce" /\ NotifyClients(items + 1) /\ UNCHANGED loopVars
                 \/ /\ m.request.kind = "Announce" /\ items = MaxItems
                    /\ UNCHANGED <<inbox, gossiperVars>>
    /\ UNCHANGED <<stream, clientVars, shut, shown, apiClients, endpointVars, forwarded, strayed, isStopping>>

Central == APIEndpointCreatedHandler \/ APIEndpointClosed \/ IncomingAPIHandler
           \/ GossipNotificationHandler \/ CentralIgnores

Reader(c) == ReaderReads(c) \/ ReaderCloses(c) \/ ReaderCrashes(c)

Writer(c) == WriterWrites(c) \/ WriterCloses(c)

Next ==
    \/ ClientConnects \/ ClientSends \/ ClientLeaves
    \/ Central \/ CloseHandler \/ UpdateRound \/ GossiperHandles
    \/ \E c \in Conn : Reader(c) \/ Writer(c)

\* All goroutines are scheduled; a round of gossip comes to its end.
Fairness ==
    /\ WF_vars(Central) /\ WF_vars(GossiperHandles \/ (UpdateRound /\ looping' = 0))
    /\ \A c \in Conn : WF_vars(Reader(c)) /\ WF_vars(Writer(c))

Spec == Init /\ [][Next]_vars /\ Fairness
-----------------------------------------------------------------------------
(* Properties *)

TypeOK ==
    /\ \A c \in Conn : stream[c] \in Seq(Request \X {1, 2})
    /\ current \in 0..MaxConns /\ gone \subseteq Conn /\ shut \subseteq Conn
    /\ \A c \in Conn : shown[c] \subseteq Shown
    /\ apiClients \in 0..MaxConns /\ stopped \subseteq Half /\ hasCrashed \in BOOLEAN
    /\ running \subseteq Conn \X Half /\ closing \subseteq Conn
    /\ MsgInQueue \in Seq(Notification \cup {CloseMSG})
    /\ budget \in 0..Quota
    /\ isStopping \in BOOLEAN
    /\ inbox \in Seq(CentralMessage) /\ gossiper \in Seq(GossiperMessage)
    /\ registered \in BOOLEAN /\ registrant \in 0..MaxConns
    /\ validationMap \in [DOMAIN validationMap -> Pointer] /\ DOMAIN validationMap \subseteq ID
    /\ nextAvailableID \in ID
    /\ forwarded \subseteq Conn /\ strayed \subseteq Conn
    /\ rejected \subseteq Item
    /\ looping \in 0..MaxItems /\ held \in [Pointer -> Item] /\ visits \in [Pointer -> SUBSET Item]

\* What the registration will be when the Gossiper has emptied its queue: what the
\* last message that decides it says, or what it is if there is none.
WillBeRegistered ==
    LET Deciding == {i \in DOMAIN gossiper : \/ "request" \notin DOMAIN gossiper[i]
                                             \/ gossiper[i].request.kind = "Notify"}
    IN  \/ Deciding = {} /\ registered
        \/ \E i \in Deciding : /\ "request" \in DOMAIN gossiper[i]
                               /\ \A j \in Deciding : j <= i

\* api.go:312, controller.go:863: messages name the client by its address, but
\* the address is registered, once the Gossiper is up to date, if and only if a
\* connection is served from which a GOSSIP NOTIFY was passed on.  Nobody stays
\* registered who has left, and the end of a connection does not undo the
\* registration of its successor.
RegistrationFollowsConnection ==
    ~isStopping => (WillBeRegistered <=> apiClients # 0 /\ apiClients \in forwarded)

\* gossiper.go:427-429: an item is rejected on behalf of a client only if its
\* connection was shown a notification under this ID, and this item: or, against
\* what the comment says, another one of the same round, if later turns of the loop
\* came after it (216-221).  Of several rounds nothing is ever mixed up.  Excepted are
\* connections that were shown a notification meant for an earlier one from their
\* address, and the time after there were more items than IDs, when IDs are given
\* away again.
RejectsWhatWasShown ==
    [][\A x \in rejected' \ rejected :
          LET m == Head(gossiper)
          IN  \/ \E n \in shown[m.conn] :
                    n.ID = m.request.ID /\ {n.item, x} \subseteq visits[n.pointer]
              \/ m.conn \in strayed \/ items > IDSpace]_vars

\* A client that has left, or that a stopping node serves, is forgotten in the end:
\* neither served nor registered, its goroutines ended, and no message to come
\* that could change this.
Forgotten(c) ==
    /\ apiClients # c /\ \A h \in Half : <<c, h>> \notin running
    /\ \A i \in DOMAIN inbox : inbox[i] # [kind |-> "EndpointCreated", conn |-> c]
    /\ isStopping \/ (registrant # c /\ \A i \in DOMAIN gossiper :
                          "conn" \in DOMAIN gossiper[i] => gossiper[i].conn # c)

GoneIsForgotten ==
    \A c \in Conn : (c \in gone \/ (isStopping /\ c = apiClients)) ~> Forgotten(c)
=============================================================================
