----------------------------- MODULE APIProofs -----------------------------
(***************************************************************************)
(* Theorems about APIEndpoint, for any connections, items, IDs and limits. *)
(***************************************************************************)
EXTENDS APIEndpoint, TLAPS

-----------------------------------------------------------------------------
(* Types *)

\* TypeOK with what the types of single values need to stay: whole functions, the
\* count of items, and a registration that knows who asked for it.
Typed ==
    /\ TypeOK
    /\ stream \in [Conn -> Seq(Request \X {1, 2})]
    /\ shown \in [Conn -> SUBSET Shown]
    /\ items \in 0..MaxItems
    /\ registered <=> registrant # 0

\* A message of the Gossiper's queue that an endpoint sent.
FromClient(m) == "request" \in DOMAIN m

LEMMA CentralMessages ==
    ASSUME NEW m \in CentralMessage
    PROVE  /\ m.kind \in {"EndpointCreated", "IncomingAPI", "EndpointClosed", "Notification"}
           /\ m.kind # "Notification" => m.conn \in Conn
           /\ m.kind = "IncomingAPI" => m.request \in Request
           /\ m.kind = "EndpointClosed" => m.half \in Half /\ m.err \in BOOLEAN
           /\ m.kind = "Notification" => m \in Notification
BY DEF CentralMessage, Notification

LEMMA GossiperMessages ==
    /\ \A m \in GossiperMessage : FromClient(m) => m.conn \in Conn /\ m.request \in Request
    /\ \A c \in Conn, r \in Request :
          LET m == [conn |-> c, request |-> r]
          IN  m \in GossiperMessage /\ FromClient(m) /\ m.conn = c /\ m.request = r
    /\ [kind |-> "Unnotify"] \in GossiperMessage /\ ~FromClient([kind |-> "Unnotify"])
BY DEF GossiperMessage, FromClient

LEMMA MessagesBuilt ==
    /\ \A c \in Conn : [kind |-> "EndpointCreated", conn |-> c] \in CentralMessage
    /\ \A c \in Conn, r \in Request :
          Incoming(c, r) \in CentralMessage /\ Incoming(c, r).kind = "IncomingAPI"
          /\ Incoming(c, r).conn = c /\ Incoming(c, r).request = r
    /\ \A c \in Conn, h \in Half, e \in BOOLEAN :
          [kind |-> "EndpointClosed", conn |-> c, half |-> h, err |-> e] \in CentralMessage
    /\ \A n \in ID, x \in Pointer, c \in Conn :
          LET m == [kind |-> "Notification", ID |-> n, item |-> x, registrant |-> c]
          IN  m \in CentralMessage /\ m \in Notification
BY DEF CentralMessage, Notification, Incoming

LEMMA Sent ==
    \A S : \A q \in Seq(S), m \in S : Append(q, m) \in Seq(S)
OBVIOUS

LEMMA InitTyped == Init => Typed
<1> SUFFICES ASSUME Init PROVE Typed
  OBVIOUS
<1>1. /\ stream \in [Conn -> Seq(Request \X {1, 2})]
      /\ shown \in [Conn -> SUBSET Shown]
  BY DEF Init
<1>2. /\ inbox \in Seq(CentralMessage) /\ gossiper \in Seq(GossiperMessage)
      /\ MsgInQueue \in Seq(Notification \cup {CloseMSG})
  BY DEF Init
<1>3. /\ validationMap \in [DOMAIN validationMap -> Pointer] /\ DOMAIN validationMap \subseteq ID
      /\ nextAvailableID \in ID
  BY BoundAssumption DEF Init, EmptyMap, ID
<1>4. /\ current \in 0..MaxConns /\ apiClients \in 0..MaxConns /\ registrant \in 0..MaxConns
      /\ budget \in 0..Quota /\ items \in 0..MaxItems
  BY BoundAssumption DEF Init
<1>5. registered \in BOOLEAN /\ (registered <=> registrant # 0)
  BY DEF Init
<1>6. /\ gone \subseteq Conn /\ shut \subseteq Conn /\ stopped \subseteq Half
      /\ running \subseteq Conn \X Half /\ closing \subseteq Conn
      /\ forwarded \subseteq Conn /\ strayed \subseteq Conn /\ rejected \subseteq Item
      /\ hasCrashed \in BOOLEAN /\ isStopping \in BOOLEAN
  BY DEF Init
<1>7. /\ looping \in 0..MaxItems /\ held \in [Pointer -> Item]
      /\ visits \in [Pointer -> SUBSET Item]
  BY BoundAssumption DEF Init, Pointer
<1> QED
  BY <1>1, <1>2, <1>3, <1>4, <1>5, <1>6, <1>7 DEF Typed, TypeOK

\* The handlers of the Central controller take a message of its type.
LEMMA Taken ==
    ASSUME Typed, NEW kind, CentralTakes(kind)
    PROVE  Head(inbox) \in CentralMessage /\ inbox' \in Seq(CentralMessage)
BY DEF CentralTakes, Typed, TypeOK

LEMMA ClientTyped == Typed /\ (ClientConnects \/ ClientSends \/ ClientLeaves) => Typed'
<1> SUFFICES ASSUME Typed, ClientConnects \/ ClientSends \/ ClientLeaves PROVE Typed'
  OBVIOUS
<1> USE DEF clientVars, endpointVars, loopVars, gossiperVars
<1>1. CASE ClientConnects
  <2>1. current + 1 \in Conn
    BY <1>1, BoundAssumption DEF ClientConnects, Typed, TypeOK, Conn
  <2>2. inbox' \in Seq(CentralMessage) /\ current' \in 0..MaxConns
    BY <1>1, <2>1, MessagesBuilt DEF ClientConnects, SendCentral, Typed, TypeOK, Conn
  <2> QED BY <1>1, <2>2 DEF ClientConnects, Typed, TypeOK
<1>2. CASE ClientSends
  <2>1. PICK r \in Request : stream' = [stream EXCEPT ![current] = @ \o <<<<r, 1>>, <<r, 2>>>>]
    BY <1>2 DEF ClientSends
  <2>2. current \in Conn /\ <<<<r, 1>>, <<r, 2>>>> \in Seq(Request \X {1, 2})
    BY <1>2 DEF ClientSends, Open
  <2>3. stream' \in [Conn -> Seq(Request \X {1, 2})]
    BY <2>1, <2>2 DEF Typed
  <2> QED BY <1>2, <2>3 DEF ClientSends, Typed, TypeOK
<1>3. CASE ClientLeaves
  BY <1>3 DEF ClientLeaves, Open, Typed, TypeOK
<1> QED
  BY <1>1, <1>2, <1>3

LEMMA ChunksOfStream ==
    ASSUME Typed, NEW c \in Conn, NEW chunk \in Chunks(c)
    PROVE  /\ chunk \in Seq(Request \X {1, 2}) /\ Len(chunk) \in 1..budget
           /\ Len(chunk) <= Len(stream[c])
           /\ \A i \in DOMAIN chunk : chunk[i] = stream[c][i]
<1>1. PICK n \in 1..Smaller(Smaller(Len(stream[c]), Buffered), budget) :
          chunk = SubSeq(stream[c], 1, n)
  BY DEF Chunks
<1>2. stream[c] \in Seq(Request \X {1, 2}) /\ Len(stream[c]) \in Nat /\ budget \in Nat
  <2>1. stream[c] \in Seq(Request \X {1, 2})
    BY DEF Typed
  <2>2. budget \in Nat
    BY BoundAssumption DEF Typed, TypeOK
  <2> QED BY <2>1, <2>2
<1>3. n \in Nat /\ 1 <= n /\ n <= Len(stream[c]) /\ n <= budget
  BY <1>2, BoundAssumption DEF Smaller
<1> QED
  BY <1>1, <1>2, <1>3

LEMMA EndpointTyped ==
    ASSUME Typed, NEW c \in Conn, Reader(c) \/ Writer(c)
    PROVE  Typed'
<1> USE DEF clientVars, endpointVars, loopVars, gossiperVars
<1>1. CASE ReaderReads(c)
  <2>1. PICK chunk \in Chunks(c) :
            /\ stream' = [stream EXCEPT ![c] = SubSeq(@, Len(chunk) + 1, Len(@))]
            /\ budget' = budget - Len(chunk)
            /\ IF IsMessage(chunk)
               THEN SendCentral(Incoming(c, chunk[1][1]))
               ELSE UNCHANGED inbox
    BY <1>1 DEF ReaderReads
  <2>2. /\ chunk \in Seq(Request \X {1, 2}) /\ Len(chunk) \in 1..budget
        /\ Len(chunk) <= Len(stream[c])
    BY ChunksOfStream
  <2>3. stream[c] \in Seq(Request \X {1, 2})
    BY DEF Typed
  <2>4. SubSeq(stream[c], Len(chunk) + 1, Len(stream[c])) \in Seq(Request \X {1, 2})
    BY <2>2, <2>3
  <2>5. stream' \in [Conn -> Seq(Request \X {1, 2})]
    BY <2>1, <2>4 DEF Typed
  <2>6. budget' \in 0..Quota
    <3>1. budget \in 0..Quota /\ Quota \in Nat
      BY BoundAssumption DEF Typed, TypeOK
    <3>2. Len(chunk) \in 1..budget /\ budget' = budget - Len(chunk)
      BY <2>1, <2>2
    <3> QED BY <3>1, <3>2
  <2>7. chunk[1][1] \in Request
    BY <2>2
  <2>8. inbox' \in Seq(CentralMessage)
    <3> DEFINE r == chunk[1][1]
    <3>1. Incoming(c, r) \in CentralMessage
      BY <2>7, MessagesBuilt
    <3>2. inbox \in Seq(CentralMessage)
      BY DEF Typed, TypeOK
    <3>3. inbox' = inbox \/ inbox' = Append(inbox, Incoming(c, r))
      BY <2>1 DEF SendCentral
    <3> HIDE DEF r
    <3> QED BY <3>1, <3>2, <3>3, Sent
  <2> QED BY <1>1, <2>5, <2>6, <2>8 DEF ReaderReads, Typed, TypeOK
<1>2. ASSUME NEW half \in Half, NEW err \in BOOLEAN, Ends(c, half, err),
             MsgInQueue' \in Seq(Notification \cup {CloseMSG})
      PROVE  Typed'
  <2>1. inbox' \in Seq(CentralMessage)
    BY <1>2, MessagesBuilt DEF Ends, SendCentral, Typed, TypeOK
  <2> QED BY <1>2, <2>1 DEF Ends, Typed, TypeOK
<1>3. CASE ReaderCloses(c) \/ ReaderCrashes(c)
  BY <1>2, <1>3 DEF ReaderCloses, ReaderCrashes, Half, Typed, TypeOK
<1>4. MsgInQueue # <<>> => /\ Tail(MsgInQueue) \in Seq(Notification \cup {CloseMSG})
                           /\ Head(MsgInQueue) \in Notification \cup {CloseMSG}
  BY DEF Typed, TypeOK
<1>5. CASE WriterCloses(c)
  BY <1>2, <1>4, <1>5 DEF WriterCloses, Half
<1>6. CASE WriterWrites(c)
  <2> DEFINE n == Head(MsgInQueue)
  <2>1. n \in Notification
    BY <1>4, <1>6 DEF WriterWrites
  <2> DEFINE p == [ID |-> n.ID, pointer |-> n.item, item |-> held[n.item]]
  <2>2. p \in Shown
    BY <2>1 DEF Notification, Shown, Typed, TypeOK
  <2> HIDE DEF n, p
  <2>3. shown' \in [Conn -> SUBSET Shown]
    <3>1. \/ shown' = [shown EXCEPT ![c] = @ \cup {p}]
          \/ shown' = shown
      BY <1>6 DEF WriterWrites, n, p
    <3>2. shown \in [Conn -> SUBSET Shown]
      BY DEF Typed
    <3> QED BY <2>2, <3>1, <3>2
  <2>4. strayed' \subseteq Conn
    BY <1>6 DEF WriterWrites, Typed, TypeOK
  <2> QED BY <1>4, <1>6, <2>3, <2>4 DEF WriterWrites, Typed, TypeOK
<1> QED
  BY <1>1, <1>3, <1>5, <1>6 DEF Reader, Writer

LEMMA CentralTyped == Typed /\ (Central \/ CloseHandler) => Typed'
<1> SUFFICES ASSUME Typed, Central \/ CloseHandler PROVE Typed'
  OBVIOUS
<1> USE DEF clientVars, endpointVars, loopVars, gossiperVars
<1> DEFINE m == Head(inbox)
<1>1. CASE APIEndpointCreatedHandler
  <2>1. m.conn \in Conn /\ inbox' \in Seq(CentralMessage)
    BY <1>1, Taken, CentralMessages DEF APIEndpointCreatedHandler, CentralTakes
  <2>2. m.conn \in 1..MaxConns /\ m.conn \in 0..MaxConns
    BY <2>1, BoundAssumption DEF Conn
  <2> HIDE DEF m
  <2>3. MsgInQueue' \in Seq(Notification \cup {CloseMSG}) /\ budget' \in 0..Quota
    <3>1. /\ MsgInQueue' = <<>> \/ MsgInQueue' = MsgInQueue
          /\ budget' = Quota \/ budget' = budget
      BY <1>1 DEF APIEndpointCreatedHandler
    <3>2. MsgInQueue \in Seq(Notification \cup {CloseMSG}) /\ budget \in 0..Quota
      BY DEF Typed, TypeOK
    <3>3. Quota \in 0..Quota
      BY BoundAssumption
    <3>4. <<>> \in Seq(Notification \cup {CloseMSG})
      OBVIOUS
    <3>5. budget' \in 0..Quota
      BY <3>1, <3>2, <3>3
    <3>6. MsgInQueue' \in Seq(Notification \cup {CloseMSG})
      BY <3>1, <3>2, <3>4
    <3> QED BY <3>5, <3>6
  <2>4. /\ apiClients' \in 0..MaxConns /\ stopped' \subseteq Half /\ hasCrashed' \in BOOLEAN
        /\ running' \subseteq Conn \X Half /\ shut' \subseteq Conn
    BY <1>1, <2>1, <2>2 DEF APIEndpointCreatedHandler, Typed, TypeOK, m
  <2> QED BY <1>1, <2>1, <2>3, <2>4 DEF APIEndpointCreatedHandler, Typed, TypeOK
<1>2. CASE APIEndpointClosed
  <2>1. m.conn \in Conn /\ m.half \in Half /\ m.err \in BOOLEAN /\ inbox' \in Seq(CentralMessage)
    BY <1>2, Taken, CentralMessages DEF APIEndpointClosed, CentralTakes
  <2>2. apiClients # 0 => apiClients \in Conn
    BY BoundAssumption DEF Typed, TypeOK, Conn
  <2> HIDE DEF m
  <2>3. /\ apiClients' = apiClients \/ apiClients' = 0
        /\ stopped' = stopped \/ stopped' = stopped \cup {m.half}
        /\ hasCrashed' = hasCrashed \/ hasCrashed' = (hasCrashed \/ m.err)
        /\ shut' = shut \/ shut' = shut \cup {m.conn}
        /\ closing' = closing \/ (apiClients # 0 /\ closing' = closing \cup {apiClients})
        /\ MsgInQueue' = MsgInQueue \/ MsgInQueue' = Append(MsgInQueue, CloseMSG)
        /\ gossiper' = gossiper \/ gossiper' = Append(gossiper, [kind |-> "Unnotify"])
    BY <1>2 DEF APIEndpointClosed, m
  <2>4. /\ apiClients' \in 0..MaxConns /\ stopped' \subseteq Half
        /\ closing' \subseteq Conn /\ shut' \subseteq Conn
    <3>1. /\ apiClients \in 0..MaxConns /\ stopped \subseteq Half
          /\ closing \subseteq Conn /\ shut \subseteq Conn /\ 0 \in 0..MaxConns
      BY BoundAssumption DEF Typed, TypeOK
    <3>2. apiClients' \in 0..MaxConns
      BY <2>3, <3>1
    <3>3. stopped' \subseteq Half
      BY <2>1, <2>3, <3>1
    <3>4. closing' \subseteq Conn
      BY <2>2, <2>3, <3>1
    <3>5. shut' \subseteq Conn
      BY <2>1, <2>3, <3>1
    <3> QED BY <3>2, <3>3, <3>4, <3>5
  <2>5. hasCrashed' \in BOOLEAN
    BY <2>1, <2>3 DEF Typed, TypeOK
  <2>6. MsgInQueue' \in Seq(Notification \cup {CloseMSG})
    <3> DEFINE S == Notification \cup {CloseMSG}
    <3>1. MsgInQueue \in Seq(S) /\ CloseMSG \in S
      BY DEF Typed, TypeOK
    <3> HIDE DEF S
    <3>2. MsgInQueue' \in Seq(S)
      BY <2>3, <3>1, Sent
    <3> QED BY <3>2 DEF S
  <2>7. gossiper' \in Seq(GossiperMessage)
    <3>1. gossiper \in Seq(GossiperMessage)
      BY DEF Typed, TypeOK
    <3> DEFINE u == [kind |-> "Unnotify"]
    <3>2. u \in GossiperMessage /\ (gossiper' = gossiper \/ gossiper' = Append(gossiper, u))
      BY <2>3, GossiperMessages
    <3> HIDE DEF u
    <3> QED BY <3>1, <3>2, Sent
  <2> QED BY <1>2, <2>1, <2>4, <2>5, <2>6, <2>7 DEF APIEndpointClosed, Typed, TypeOK
<1>3. CASE IncomingAPIHandler
  <2>1. m.conn \in Conn /\ m.request \in Request /\ inbox' \in Seq(CentralMessage)
    BY <1>3, Taken, CentralMessages DEF IncomingAPIHandler, CentralTakes
  <2> HIDE DEF m
  <2>2. gossiper' \in Seq(GossiperMessage) /\ forwarded' \subseteq Conn
    BY <1>3, <2>1, GossiperMessages DEF IncomingAPIHandler, Typed, TypeOK, m
  <2> QED BY <1>3, <2>1, <2>2 DEF IncomingAPIHandler, Typed, TypeOK
<1>4. CASE GossipNotificationHandler
  <2>1. m \in Notification /\ inbox' \in Seq(CentralMessage)
    BY <1>4, Taken, CentralMessages DEF GossipNotificationHandler, CentralTakes
  <2> HIDE DEF m
  <2>2. MsgInQueue' \in Seq(Notification \cup {CloseMSG})
    BY <1>4, <2>1 DEF GossipNotificationHandler, Typed, TypeOK, m
  <2> QED BY <1>4, <2>1, <2>2 DEF GossipNotificationHandler, Typed, TypeOK
<1>5. CASE CentralIgnores
  <2>1. inbox' \in Seq(CentralMessage)
    BY <1>5 DEF CentralIgnores, Typed, TypeOK
  <2> QED BY <1>5, <2>1 DEF CentralIgnores, Typed, TypeOK
<1>6. CASE CloseHandler
  <2>1. Closes \subseteq Conn
    BY BoundAssumption DEF Closes, Typed, TypeOK, Conn
  <2>2. MsgInQueue' \in Seq(Notification \cup {CloseMSG})
    BY <1>6 DEF CloseHandler, Typed, TypeOK
  <2> QED BY <1>6, <2>1, <2>2 DEF CloseHandler, Typed, TypeOK
<1> QED
  BY <1>1, <1>2, <1>3, <1>4, <1>5, <1>6 DEF Central

LEMMA NextIDType == \A id \in ID : NextID(id) \in ID
BY BoundAssumption DEF ID, NextID

LEMMA NotifyTyped ==
    ASSUME Typed, NEW pointer \in Pointer, NotifyClients(pointer)
    PROVE  /\ inbox' \in Seq(CentralMessage)
           /\ validationMap' \in [DOMAIN validationMap' -> Pointer] /\ DOMAIN validationMap' \subseteq ID
           /\ nextAvailableID' \in ID /\ items' \in 0..MaxItems
           /\ UNCHANGED <<registered, registrant, rejected>>
<1>1. items + 1 \in Item /\ items' \in 0..MaxItems
  BY BoundAssumption DEF NotifyClients, Item, Typed
<1>2. CASE registered
  <2>1. registrant \in Conn /\ nextAvailableID \in ID
    BY <1>2, BoundAssumption DEF Typed, TypeOK, Conn
  <2>2. inbox' \in Seq(CentralMessage)
    <3> DEFINE m == [kind |-> "Notification", ID |-> nextAvailableID, item |-> pointer,
                     registrant |-> registrant]
    <3>1. m \in CentralMessage
      BY <1>1, <2>1, MessagesBuilt
    <3>2. inbox' = Append(inbox, m) /\ inbox \in Seq(CentralMessage)
      BY <1>2 DEF NotifyClients, SendCentral, Typed, TypeOK
    <3> HIDE DEF m
    <3> QED BY <3>1, <3>2, Sent
  <2>3. /\ validationMap' \in [DOMAIN validationMap' -> Pointer]
        /\ DOMAIN validationMap' \subseteq ID
    BY <1>2, <2>1 DEF NotifyClients, With, Typed, TypeOK
  <2> QED BY <1>1, <1>2, <2>1, <2>2, <2>3, NextIDType DEF NotifyClients
<1>3. CASE ~registered
  BY <1>1, <1>3 DEF NotifyClients, Typed, TypeOK
<1> QED
  BY <1>2, <1>3

\* The turns of the loop keep what its pointer finds among the items.
LEMMA VisitsTyped ==
    ASSUME Typed, NEW pointer \in Pointer, NEW item \in Item, Visits(pointer, item)
    PROVE  /\ looping' \in 0..MaxItems /\ held' \in [Pointer -> Item]
           /\ visits' \in [Pointer -> SUBSET Item]
<1>1. looping' \in 0..MaxItems
  BY BoundAssumption DEF Visits, Pointer, Item
<1>2. held' \in [Pointer -> Item]
  BY DEF Visits, Typed, TypeOK
<1>3. visits' \in [Pointer -> SUBSET Item]
  BY DEF Visits, Typed, TypeOK
<1> QED BY <1>1, <1>2, <1>3

\* A new item is visited through a pointer of this round.
LEMMA NewItemPointer ==
    ASSUME Typed, NewItem
    PROVE  \E pointer \in Pointer : /\ NotifyClients(pointer) /\ Visits(pointer, items + 1)
                                   /\ items + 1 \in Item
<1>1. items + 1 \in Item
  BY BoundAssumption DEF NewItem, NotifyClients, Item, Typed
<1>2. looping # 0 => looping \in Pointer
  BY BoundAssumption DEF Typed, TypeOK, Pointer, Item
<1> QED BY <1>1, <1>2 DEF NewItem, Pointer

LEMMA RoundTyped == Typed /\ UpdateRound => Typed'
<1> SUFFICES ASSUME Typed, UpdateRound PROVE Typed'
  OBVIOUS
<1>1. UNCHANGED <<stream, clientVars, shut, shown, apiClients, endpointVars, gossiper,
                  forwarded, strayed, isStopping>>
  BY DEF UpdateRound
<1> USE DEF clientVars, endpointVars, loopVars, gossiperVars
<1>2. CASE NewItem
  <2>1. PICK pointer \in Pointer : /\ NotifyClients(pointer) /\ Visits(pointer, items + 1)
                                  /\ items + 1 \in Item
    BY <1>2, NewItemPointer
  <2>2. /\ looping' \in 0..MaxItems /\ held' \in [Pointer -> Item]
        /\ visits' \in [Pointer -> SUBSET Item]
    BY <2>1, VisitsTyped
  <2>3. /\ inbox' \in Seq(CentralMessage)
        /\ validationMap' \in [DOMAIN validationMap' -> Pointer] /\ DOMAIN validationMap' \subseteq ID
        /\ nextAvailableID' \in ID /\ items' \in 0..MaxItems
        /\ UNCHANGED <<registered, registrant, rejected>>
    BY <2>1, NotifyTyped
  <2>4. TypeOK'
    BY <1>1, <2>2, <2>3 DEF Typed, TypeOK
  <2> QED BY <1>1, <2>3, <2>4 DEF Typed
<1>3. CASE KnownItem
  <2>1. looping \in Pointer /\ (1..items) \subseteq Item
    BY <1>3, BoundAssumption DEF KnownItem, Typed, TypeOK, Pointer, Item
  <2>2. PICK item \in Item : Visits(looping, item)
    BY <1>3, <2>1 DEF KnownItem
  <2>3. /\ looping' \in 0..MaxItems /\ held' \in [Pointer -> Item]
        /\ visits' \in [Pointer -> SUBSET Item]
    BY <2>1, <2>2, VisitsTyped
  <2>4. TypeOK'
    BY <1>1, <1>3, <2>3 DEF KnownItem, Typed, TypeOK
  <2> QED BY <1>1, <1>3, <2>4 DEF KnownItem, Typed
<1>4. CASE RoundEnds
  <2>1. looping' \in 0..MaxItems
    BY <1>4, BoundAssumption DEF RoundEnds
  <2>2. TypeOK'
    BY <1>1, <1>4, <2>1 DEF RoundEnds, Typed, TypeOK
  <2> QED BY <1>1, <1>4, <2>2 DEF RoundEnds, Typed
<1> QED
  BY <1>2, <1>3, <1>4 DEF UpdateRound

LEMMA GossiperTyped == Typed /\ GossiperHandles => Typed'
<1> SUFFICES ASSUME Typed, GossiperHandles PROVE Typed'
  OBVIOUS
<1> USE DEF clientVars, endpointVars, loopVars, gossiperVars
<1>1. CASE GossiperHandles
  <2> DEFINE m == Head(gossiper)
  <2>1. m \in GossiperMessage /\ gossiper' \in Seq(GossiperMessage)
    BY <1>1 DEF GossiperHandles, Typed, TypeOK
  <2> SUFFICES /\ inbox' \in Seq(CentralMessage)
               /\ validationMap' \in [DOMAIN validationMap' -> Pointer]
               /\ DOMAIN validationMap' \subseteq ID
               /\ nextAvailableID' \in ID /\ items' \in 0..MaxItems
               /\ registered' \in BOOLEAN /\ registrant' \in 0..MaxConns
               /\ registered' <=> registrant' # 0
               /\ rejected' \subseteq Item
               /\ UNCHANGED loopVars
    BY <1>1, <2>1 DEF GossiperHandles, Typed, TypeOK
  <2>2. CASE ~FromClient(m) /\ UnnotifyHandler /\ UNCHANGED inbox
    <3>1. /\ registered' \in BOOLEAN /\ (registered' <=> registrant' # 0)
      BY <2>2 DEF UnnotifyHandler
    <3>2. /\ validationMap' \in [DOMAIN validationMap' -> Pointer]
          /\ DOMAIN validationMap' \subseteq ID /\ nextAvailableID' \in ID
          /\ registrant' \in 0..MaxConns
      BY <2>2, BoundAssumption DEF UnnotifyHandler, EmptyMap, ID
    <3> QED BY <2>2, <3>1, <3>2 DEF UnnotifyHandler, Typed, TypeOK
  <2>3. CASE FromClient(m) /\ NotifyHandler(m) /\ UNCHANGED inbox
    <3>1. m.conn \in 1..MaxConns /\ 0 \in ID
      BY <2>1, <2>3, GossiperMessages, BoundAssumption DEF Conn, ID
    <3> HIDE DEF m
    <3>2. CASE registered
      BY <2>3, <3>2 DEF NotifyHandler, Typed, TypeOK
    <3>3. CASE ~registered
      <4>1. /\ registered' = TRUE /\ registrant' = m.conn /\ validationMap' = EmptyMap
            /\ nextAvailableID' = 0 /\ UNCHANGED <<items, rejected, inbox, loopVars>>
        BY <2>3, <3>3 DEF NotifyHandler
      <4>2. /\ validationMap' \in [DOMAIN validationMap' -> Pointer]
            /\ DOMAIN validationMap' \subseteq ID
        BY <4>1 DEF EmptyMap
      <4>3. registrant' \in 0..MaxConns /\ registrant' # 0
        BY <3>1, <4>1, BoundAssumption
      <4> QED BY <3>1, <4>1, <4>2, <4>3 DEF Typed, TypeOK
    <3> QED BY <3>2, <3>3
  <2>4. CASE ValidationHandler(m.request) /\ UNCHANGED inbox
    <3> HIDE DEF m
    <3>1. registered /\ m.request.ID \in DOMAIN validationMap
             => held[validationMap[m.request.ID]] \in Item
      BY DEF Typed, TypeOK
    <3>2. /\ validationMap' \in [DOMAIN validationMap' -> Pointer]
          /\ DOMAIN validationMap' \subseteq ID
      BY <2>4 DEF ValidationHandler, Without, Typed, TypeOK
    <3>3. rejected' \subseteq Item
      BY <2>4, <3>1 DEF ValidationHandler, Typed, TypeOK
    <3> QED BY <2>4, <3>2, <3>3 DEF ValidationHandler, Typed, TypeOK
  <2>5. CASE NotifyClients(items + 1) /\ UNCHANGED loopVars
    <3>1. items + 1 \in Pointer
      BY <2>5, BoundAssumption DEF NotifyClients, Pointer, Item, Typed
    <3> QED BY <2>5, <3>1, NotifyTyped DEF Typed, TypeOK
  <2>6. CASE UNCHANGED <<inbox, gossiperVars>>
    BY <2>6 DEF Typed, TypeOK
  <2> QED BY <1>1, <2>2, <2>3, <2>4, <2>5, <2>6 DEF GossiperHandles, FromClient
<1> QED
  BY <1>1

LEMMA NextTyped == Typed /\ [Next]_vars => Typed'
<1>1. Typed /\ UNCHANGED vars => Typed'
  BY DEF vars, clientVars, endpointVars, loopVars, gossiperVars, Typed, TypeOK
<1> QED
  BY <1>1, ClientTyped, EndpointTyped, CentralTyped, RoundTyped, GossiperTyped DEF Next

\* The types of the API's path: queues carry what their readers take, and the
\* validation map holds items under IDs.
THEOREM APITypes == Spec => []TypeOK
<1>1. Typed => TypeOK
  BY DEF Typed
<1> QED
  BY <1>1, InitTyped, NextTyped, PTL DEF Spec
-----------------------------------------------------------------------------
(* Queues *)

LEMMA AfterAppend ==
    ASSUME NEW S, NEW q \in Seq(S), NEW m \in S
    PROVE  LET r == Append(q, m)
           IN  /\ r \in Seq(S) /\ DOMAIN q \subseteq DOMAIN r
               /\ \A i \in DOMAIN q : r[i] = q[i] /\ i \in Nat /\ i < Len(q) + 1
               /\ Len(q) + 1 \in DOMAIN r /\ r[Len(q) + 1] = m
               /\ \A i \in DOMAIN r : i \in DOMAIN q \/ i = Len(q) + 1
               /\ Len(r) = Len(q) + 1
OBVIOUS

LEMMA AfterTail ==
    ASSUME NEW S, NEW q \in Seq(S), q # <<>>
    PROVE  LET r == Tail(q)
           IN  /\ r \in Seq(S) /\ 1 \in DOMAIN q /\ Head(q) = q[1] /\ Head(q) \in S
               /\ \A i \in DOMAIN r : i \in Nat \ {0} /\ i + 1 \in DOMAIN q /\ r[i] = q[i + 1]
               /\ \A i \in DOMAIN q : /\ i \in Nat \ {0}
                                      /\ i = 1 \/ (i - 1 \in DOMAIN r /\ q[i] = r[i - 1])
               /\ Len(r) = Len(q) - 1
OBVIOUS

-----------------------------------------------------------------------------
(* Who is served *)

EndsAt(q, i, half) == q[i].kind = "EndpointClosed" /\ q[i].half = half

\* Messages name an endpoint by its address.  That this is safe rests on this: all
\* ends and requests in the queue q are of the connection that apiClients holds, api;
\* an end is announced once, after what ended has stopped and before it is recorded;
\* and every request precedes the end of the reader that sent it.
ServedIn(q, api, st, run) ==
    /\ \A c \in Conn, h \in Half : <<c, h>> \in run => c = api /\ h \notin st
    /\ \A i \in DOMAIN q : q[i].kind = "EndpointClosed" =>
          /\ q[i].conn = api /\ q[i].half \notin st /\ <<api, q[i].half>> \notin run
          /\ \A j \in DOMAIN q : EndsAt(q, j, q[i].half) => i = j
    /\ \A i \in DOMAIN q : q[i].kind = "IncomingAPI" =>
          /\ q[i].conn = api
          /\ <<api, "reader">> \in run \/ \E j \in DOMAIN q : i < j /\ EndsAt(q, j, "reader")

Served == ServedIn(inbox, apiClients, stopped, running)

LEMMA ServedWith ==
    ASSUME NEW q \in Seq(CentralMessage), NEW m \in CentralMessage,
           NEW api, NEW st, NEW run, ServedIn(q, api, st, run),
           m.kind \in {"EndpointCreated", "Notification"}
    PROVE  ServedIn(Append(q, m), api, st, run)
<1> DEFINE r == Append(q, m)
           n == Len(q) + 1
<1>1. /\ DOMAIN q \subseteq DOMAIN r
      /\ \A i \in DOMAIN q : r[i] = q[i]
      /\ r[n] = m
      /\ \A i \in DOMAIN r : i \in DOMAIN q \/ i = n
  BY AfterAppend
<1> HIDE DEF r, n
<1>2. \A i \in DOMAIN r : r[i].kind \in {"EndpointClosed", "IncomingAPI"} => i \in DOMAIN q
  BY <1>1
<1>3. ServedIn(r, api, st, run)
  BY <1>1, <1>2 DEF ServedIn, EndsAt
<1> QED
  BY <1>3 DEF r

LEMMA ServedWithRequest ==
    ASSUME NEW q \in Seq(CentralMessage), NEW m \in CentralMessage,
           NEW api, NEW st, NEW run, ServedIn(q, api, st, run),
           m.kind = "IncomingAPI", <<m.conn, "reader">> \in run
    PROVE  ServedIn(Append(q, m), api, st, run)
<1> DEFINE r == Append(q, m)
           n == Len(q) + 1
<1>1. /\ DOMAIN q \subseteq DOMAIN r
      /\ \A i \in DOMAIN q : r[i] = q[i]
      /\ r[n] = m
      /\ \A i \in DOMAIN r : i \in DOMAIN q \/ i = n
  BY AfterAppend
<1>2. m.conn = api
  BY CentralMessages DEF ServedIn, Half
<1> HIDE DEF r, n
<1>3. \A i \in DOMAIN r : r[i].kind = "EndpointClosed" => i \in DOMAIN q
  BY <1>1
<1>4. ServedIn(r, api, st, run)
  BY <1>1, <1>2, <1>3 DEF ServedIn, EndsAt
<1> QED
  BY <1>4 DEF r

LEMMA ServedWithEnd ==
    ASSUME NEW q \in Seq(CentralMessage), NEW m \in CentralMessage,
           NEW api, NEW st, NEW run, ServedIn(q, api, st, run),
           m.kind = "EndpointClosed", <<m.conn, m.half>> \in run
    PROVE  ServedIn(Append(q, m), api, st, run \ {<<m.conn, m.half>>})
<1> DEFINE r == Append(q, m)
           n == Len(q) + 1
           left == run \ {<<m.conn, m.half>>}
<1>1. /\ DOMAIN q \subseteq DOMAIN r
      /\ \A i \in DOMAIN q : r[i] = q[i] /\ i < n
      /\ r[n] = m /\ n \in DOMAIN r
      /\ \A i \in DOMAIN r : i \in DOMAIN q \/ i = n
  BY AfterAppend
<1>2. m.conn = api /\ m.half \notin st /\ m.half \in Half
  BY CentralMessages DEF ServedIn
<1> HIDE DEF r, n
<1>3. \A i \in DOMAIN q : ~EndsAt(q, i, m.half)
  BY <1>2 DEF ServedIn, EndsAt
<1>4. \A c \in Conn, h \in Half : <<c, h>> \in left => c = api /\ h \notin st
  BY DEF ServedIn
<1>5. ASSUME NEW i \in DOMAIN r, r[i].kind = "EndpointClosed"
      PROVE  /\ r[i].conn = api /\ r[i].half \notin st /\ <<api, r[i].half>> \notin left
             /\ \A j \in DOMAIN r : EndsAt(r, j, r[i].half) => i = j
  BY <1>1, <1>2, <1>3, <1>5 DEF ServedIn, EndsAt
<1>6. ASSUME NEW i \in DOMAIN r, r[i].kind = "IncomingAPI"
      PROVE  /\ r[i].conn = api
             /\ <<api, "reader">> \in left \/ \E j \in DOMAIN r : i < j /\ EndsAt(r, j, "reader")
  <2>1. i \in DOMAIN q /\ q[i] = r[i] /\ i < n
    BY <1>1, <1>6
  <2>2. CASE m.half = "reader"
    BY <1>1, <2>1, <2>2, <1>6 DEF ServedIn, EndsAt
  <2>3. CASE m.half # "reader"
    BY <1>1, <2>1, <2>3, <1>6 DEF ServedIn, EndsAt
  <2> QED BY <2>2, <2>3
<1>7. ServedIn(r, api, st, left)
  BY <1>4, <1>5, <1>6 DEF ServedIn
<1> QED
  BY <1>7 DEF r, left

LEMMA ServedWithout ==
    ASSUME NEW q \in Seq(CentralMessage), q # <<>>,
           NEW api, NEW st, NEW run, ServedIn(q, api, st, run),
           Head(q).kind # "EndpointClosed"
    PROVE  ServedIn(Tail(q), api, st, run)
<1> DEFINE r == Tail(q)
<1>1. /\ 1 \in DOMAIN q /\ Head(q) = q[1]
      /\ \A i \in DOMAIN r : i \in Nat \ {0} /\ i + 1 \in DOMAIN q /\ r[i] = q[i + 1]
      /\ \A i \in DOMAIN q : i \in Nat \ {0}
                             /\ (i = 1 \/ (i - 1 \in DOMAIN r /\ q[i] = r[i - 1]))
  BY AfterTail
<1> HIDE DEF r
<1>2. ASSUME NEW i \in DOMAIN r, r[i].kind = "EndpointClosed"
      PROVE  /\ r[i].conn = api /\ r[i].half \notin st /\ <<api, r[i].half>> \notin run
             /\ \A j \in DOMAIN r : EndsAt(r, j, r[i].half) => i = j
  <2>1. i + 1 \in DOMAIN q /\ r[i] = q[i + 1]
    BY <1>1
  <2>2. ASSUME NEW j \in DOMAIN r, EndsAt(r, j, r[i].half) PROVE i = j
    <3>1. j + 1 \in DOMAIN q /\ EndsAt(q, j + 1, q[i + 1].half)
      BY <1>1, <2>1, <2>2 DEF EndsAt
    <3>2. i + 1 = j + 1
      BY <1>2, <2>1, <3>1 DEF ServedIn
    <3> QED BY <1>1, <3>2
  <2> QED BY <1>2, <2>1, <2>2 DEF ServedIn
<1>3. ASSUME NEW i \in DOMAIN r, r[i].kind = "IncomingAPI"
      PROVE  /\ r[i].conn = api
             /\ <<api, "reader">> \in run \/ \E j \in DOMAIN r : i < j /\ EndsAt(r, j, "reader")
  <2>1. i + 1 \in DOMAIN q /\ r[i] = q[i + 1] /\ i \in Nat
    BY <1>1
  <2>2. ASSUME NEW j \in DOMAIN q, i + 1 < j, EndsAt(q, j, "reader")
        PROVE  j - 1 \in DOMAIN r /\ i < j - 1 /\ EndsAt(r, j - 1, "reader")
    BY <1>1, <2>1, <2>2 DEF EndsAt
  <2>3. /\ q[i + 1].conn = api
        /\ <<api, "reader">> \in run \/ \E j \in DOMAIN q : i + 1 < j /\ EndsAt(q, j, "reader")
    BY <1>3, <2>1 DEF ServedIn
  <2> QED BY <2>1, <2>2, <2>3
<1>4. ServedIn(r, api, st, run)
  BY <1>2, <1>3 DEF ServedIn
<1> QED
  BY <1>4 DEF r

\* A connection is served only when nothing of an earlier one is left.
LEMMA ServedAnew ==
    ASSUME NEW q \in Seq(CentralMessage), NEW st, NEW run \in SUBSET (Conn \X Half),
           ServedIn(q, 0, st, run), NEW c \in Conn
    PROVE  /\ run = {}
           /\ \A i \in DOMAIN q : q[i].kind \notin {"EndpointClosed", "IncomingAPI"}
           /\ ServedIn(q, c, {}, run \cup ({c} \X Half))
<1>1. 0 \notin Conn
  BY BoundAssumption DEF Conn
<1>2. run = {}
  BY <1>1 DEF ServedIn
<1>3. \A i \in DOMAIN q : q[i] \in CentralMessage
  OBVIOUS
<1>4. \A i \in DOMAIN q : q[i].kind \notin {"EndpointClosed", "IncomingAPI"}
  BY <1>1, <1>3, CentralMessages DEF ServedIn
<1> QED
  BY <1>2, <1>4 DEF ServedIn

\* The first end in the queue is that of one half of the endpoint that is served;
\* when both halves have ended, nothing of the endpoint is left.
LEMMA ServedWithoutEnd ==
    ASSUME NEW q \in Seq(CentralMessage), q # <<>>,
           NEW api, NEW st \in SUBSET Half, NEW run \in SUBSET (Conn \X Half),
           ServedIn(q, api, st, run), Head(q).kind = "EndpointClosed"
    PROVE  LET m == Head(q)
           IN  /\ m.conn = api /\ m.half \notin st
               /\ st \cup {m.half} # Half => ServedIn(Tail(q), api, st \cup {m.half}, run)
               /\ st \cup {m.half} = Half => ServedIn(Tail(q), 0, st \cup {m.half}, run)
<1> DEFINE r == Tail(q)
           m == Head(q)
           st1 == st \cup {m.half}
<1>1. /\ 1 \in DOMAIN q /\ m = q[1] /\ m \in CentralMessage /\ r \in Seq(CentralMessage)
      /\ \A i \in DOMAIN r : i \in Nat \ {0} /\ i + 1 \in DOMAIN q /\ r[i] = q[i + 1]
      /\ \A i \in DOMAIN q : i \in Nat \ {0}
                             /\ (i = 1 \/ (i - 1 \in DOMAIN r /\ q[i] = r[i - 1]))
  BY AfterTail
<1>2. m.conn = api /\ m.half \notin st /\ <<api, m.half>> \notin run
      /\ \A j \in DOMAIN q : EndsAt(q, j, m.half) => 1 = j
  BY <1>1 DEF ServedIn
<1>3. m.conn \in Conn /\ m.half \in Half
  BY <1>1, CentralMessages
<1>0. \A i \in DOMAIN r : r[i] \in CentralMessage
  BY <1>1
<1>9. m.kind = "EndpointClosed"
  OBVIOUS
<1> HIDE DEF r, m
<1>4. \A c \in Conn, h \in Half : <<c, h>> \in run => c = api /\ h \notin st1
  BY <1>2 DEF ServedIn
<1>5. ASSUME NEW i \in DOMAIN r, r[i].kind = "EndpointClosed"
      PROVE  /\ r[i].conn = api /\ r[i].half \notin st1 /\ <<api, r[i].half>> \notin run
             /\ \A j \in DOMAIN r : EndsAt(r, j, r[i].half) => i = j
  <2>1. i + 1 \in DOMAIN q /\ r[i] = q[i + 1] /\ i \in Nat \ {0}
    BY <1>1
  <2>2. ASSUME NEW j \in DOMAIN r, EndsAt(r, j, r[i].half) PROVE i = j
    <3>1. j + 1 \in DOMAIN q /\ EndsAt(q, j + 1, q[i + 1].half)
      BY <1>1, <2>1, <2>2 DEF EndsAt
    <3>2. i + 1 = j + 1
      BY <1>5, <2>1, <3>1 DEF ServedIn
    <3> QED BY <1>1, <3>2
  <2>3. r[i].half # m.half
    <3>1. EndsAt(q, i + 1, q[i + 1].half)
      BY <1>5, <2>1 DEF EndsAt
    <3> QED BY <1>2, <2>1, <3>1
  <2> QED BY <1>5, <2>1, <2>2, <2>3 DEF ServedIn
<1>6. ASSUME NEW i \in DOMAIN r, r[i].kind = "IncomingAPI"
      PROVE  /\ r[i].conn = api
             /\ <<api, "reader">> \in run \/ \E j \in DOMAIN r : i < j /\ EndsAt(r, j, "reader")
  <2>1. i + 1 \in DOMAIN q /\ r[i] = q[i + 1] /\ i \in Nat
    BY <1>1
  <2>2. ASSUME NEW j \in DOMAIN q, i + 1 < j, EndsAt(q, j, "reader")
        PROVE  j - 1 \in DOMAIN r /\ i < j - 1 /\ EndsAt(r, j - 1, "reader")
    BY <1>1, <2>1, <2>2 DEF EndsAt
  <2>3. /\ q[i + 1].conn = api
        /\ <<api, "reader">> \in run \/ \E j \in DOMAIN q : i + 1 < j /\ EndsAt(q, j, "reader")
    BY <1>6, <2>1 DEF ServedIn
  <2> QED BY <2>1, <2>2, <2>3
<1>7. ServedIn(r, api, st1, run)
  BY <1>4, <1>5, <1>6 DEF ServedIn
<1>8. ASSUME st1 = Half PROVE ServedIn(r, 0, st1, run)
  <2>1. run = {}
    BY <1>4, <1>8
  <2>2. \A i \in DOMAIN r : r[i].kind # "EndpointClosed"
    BY <1>0, <1>5, <1>8, CentralMessages
  <2>3. \A i \in DOMAIN r : r[i].kind # "IncomingAPI"
    BY <1>6, <2>1, <2>2 DEF EndsAt
  <2> QED BY <2>1, <2>2, <2>3 DEF ServedIn
<1> QED
  BY <1>2, <1>7, <1>8 DEF r, m

\* What NotifyClients sends.
LEMMA Notifies ==
    ASSUME Typed, NEW pointer \in Pointer, NotifyClients(pointer)
    PROVE  \/ UNCHANGED inbox
           \/ \E m \in CentralMessage : m.kind = "Notification" /\ inbox' = Append(inbox, m)
<1>1. CASE registered
  <2>1. nextAvailableID \in ID /\ registrant \in Conn
    BY <1>1, BoundAssumption DEF Conn, Typed, TypeOK
  <2> DEFINE m == [kind |-> "Notification", ID |-> nextAvailableID, item |-> pointer,
                   registrant |-> registrant]
  <2>2. m \in CentralMessage /\ m.kind = "Notification"
    BY <2>1, MessagesBuilt
  <2>3. inbox' = Append(inbox, m)
    BY <1>1 DEF NotifyClients, SendCentral
  <2> HIDE DEF m
  <2> QED BY <2>2, <2>3
<1>2. CASE ~registered
  BY <1>2 DEF NotifyClients
<1> QED
  BY <1>1, <1>2

\* What a round of gossip and the Gossiper's queue send.
LEMMA RoundNotifies ==
    ASSUME Typed, UpdateRound \/ GossiperHandles
    PROVE  UNCHANGED inbox \/ \E pointer \in Pointer : NotifyClients(pointer)
<1>1. CASE UpdateRound
  BY <1>1, NewItemPointer DEF UpdateRound, KnownItem, RoundEnds
<1>2. CASE GossiperHandles
  <2>1. NotifyClients(items + 1) \/ UNCHANGED inbox
    BY <1>2 DEF GossiperHandles
  <2>2. NotifyClients(items + 1) => items + 1 \in Pointer
    BY BoundAssumption DEF NotifyClients, Pointer, Item, Typed
  <2> QED BY <2>1, <2>2
<1> QED BY <1>1, <1>2

LEMMA ServedInit == Init => Served
BY DEF Init, Served, ServedIn

LEMMA ServedNext == Typed /\ Served /\ [Next]_vars => Served'
<1> SUFFICES ASSUME Typed, Served, [Next]_vars PROVE Served'
  OBVIOUS
<1> USE DEF clientVars, endpointVars, loopVars, gossiperVars
<1>0. /\ inbox \in Seq(CentralMessage) /\ apiClients \in 0..MaxConns /\ stopped \in SUBSET Half
      /\ running \in SUBSET (Conn \X Half)
      /\ ServedIn(inbox, apiClients, stopped, running)
  BY DEF Typed, TypeOK, Served
<1>1. ASSUME UNCHANGED <<apiClients, stopped, running>>,
             \/ UNCHANGED inbox
             \/ \E m \in CentralMessage : /\ m.kind \in {"EndpointCreated", "Notification"}
                                          /\ inbox' = Append(inbox, m)
      PROVE  Served'
  BY <1>0, <1>1, ServedWith DEF Served
<1>2. CASE UNCHANGED vars
  BY <1>1, <1>2 DEF vars
<1>3. CASE ClientConnects
  <2> DEFINE m == [kind |-> "EndpointCreated", conn |-> current + 1]
  <2>1. current + 1 \in Conn
    BY <1>3, BoundAssumption DEF ClientConnects, Typed, TypeOK, Conn
  <2>2. m \in CentralMessage /\ m.kind = "EndpointCreated"
    BY <2>1, MessagesBuilt
  <2>3. inbox' = Append(inbox, m)
    BY <1>3 DEF ClientConnects, SendCentral
  <2> HIDE DEF m
  <2> QED BY <1>1, <1>3, <2>2, <2>3 DEF ClientConnects
<1>4. CASE ClientSends \/ ClientLeaves \/ CloseHandler \/ \E c \in Conn : WriterWrites(c)
  BY <1>1, <1>4 DEF ClientSends, ClientLeaves, CloseHandler, WriterWrites
<1>5. ASSUME NEW c \in Conn, ReaderReads(c) PROVE Served'
  <2>1. PICK chunk \in Chunks(c) :
            IF IsMessage(chunk)
            THEN SendCentral(Incoming(c, chunk[1][1]))
            ELSE UNCHANGED inbox
    BY <1>5 DEF ReaderReads
  <2>2. chunk[1][1] \in Request
    BY ChunksOfStream
  <2> DEFINE m == Incoming(c, chunk[1][1])
  <2>3. m \in CentralMessage /\ m.kind = "IncomingAPI" /\ m.conn = c
    BY <2>2, MessagesBuilt
  <2>4. inbox' = inbox \/ inbox' = Append(inbox, m)
    BY <2>1 DEF SendCentral
  <2> HIDE DEF m
  <2>5. <<m.conn, "reader">> \in running /\ UNCHANGED <<apiClients, stopped, running>>
    BY <1>5, <2>3 DEF ReaderReads
  <2> QED BY <1>0, <1>1, <2>3, <2>4, <2>5, ServedWithRequest DEF Served
<1>6. ASSUME NEW c \in Conn, ReaderCloses(c) \/ ReaderCrashes(c) \/ WriterCloses(c)
      PROVE  Served'
  <2>1. PICK h \in Half, e \in BOOLEAN : Ends(c, h, e) /\ <<c, h>> \in running
    BY <1>6 DEF ReaderCloses, ReaderCrashes, WriterCloses, Half
  <2> DEFINE m == [kind |-> "EndpointClosed", conn |-> c, half |-> h, err |-> e]
  <2>2. m \in CentralMessage /\ m.kind = "EndpointClosed" /\ m.conn = c /\ m.half = h
    BY MessagesBuilt
  <2>3. inbox' = Append(inbox, m)
    BY <2>1 DEF Ends, SendCentral
  <2> HIDE DEF m
  <2>4. running' = running \ {<<m.conn, m.half>>} /\ UNCHANGED <<apiClients, stopped>>
    BY <2>1, <2>2 DEF Ends
  <2>5. <<m.conn, m.half>> \in running
    BY <2>1, <2>2
  <2> QED BY <1>0, <2>2, <2>3, <2>4, <2>5, ServedWithEnd DEF Served
<1>7. CASE APIEndpointCreatedHandler
  <2> DEFINE m == Head(inbox)
  <2>1. /\ inbox # <<>> /\ m.kind = "EndpointCreated" /\ inbox' = Tail(inbox)
        /\ m.conn \in Conn
    BY <1>7, Taken, CentralMessages DEF APIEndpointCreatedHandler, CentralTakes
  <2>2. ServedIn(inbox', apiClients, stopped, running)
    BY <1>0, <2>1, ServedWithout
  <2> HIDE DEF m
  <2>3. CASE /\ MayServe /\ apiClients' = m.conn /\ stopped' = {}
             /\ running' = running \cup ({m.conn} \X Half)
    <3>1. apiClients = 0 /\ inbox' \in Seq(CentralMessage)
      BY <1>0, <2>1, <2>3 DEF MayServe
    <3>2. ServedIn(inbox', m.conn, {}, running \cup ({m.conn} \X Half))
      BY <1>0, <2>1, <2>2, <3>1, ServedAnew
    <3> QED BY <2>3, <3>2 DEF Served
  <2>4. CASE UNCHANGED <<apiClients, stopped, running>>
    BY <2>2, <2>4 DEF Served
  <2> QED BY <1>7, <2>3, <2>4 DEF APIEndpointCreatedHandler, m
<1>8. CASE APIEndpointClosed
  <2> DEFINE m == Head(inbox)
             st == stopped \cup {m.half}
  <2>1. /\ inbox # <<>> /\ m.kind = "EndpointClosed" /\ inbox' = Tail(inbox)
        /\ m.conn \in Conn /\ UNCHANGED running
    BY <1>8, Taken, CentralMessages DEF APIEndpointClosed, CentralTakes
  <2>2. /\ m.conn = apiClients /\ m.half \notin stopped
        /\ st # Half => ServedIn(inbox', apiClients, st, running)
        /\ st = Half => ServedIn(inbox', 0, st, running)
    BY <1>0, <2>1, ServedWithoutEnd
  <2>3. apiClients # 0
    BY <2>1, <2>2, BoundAssumption DEF Conn
  <2>4. stopped' = st /\ IF st = Half THEN apiClients' = 0 ELSE apiClients' = apiClients
    BY <1>8, <2>2, <2>3 DEF APIEndpointClosed
  <2> HIDE DEF m, st
  <2> QED BY <2>1, <2>2, <2>4 DEF Served
<1>9. CASE IncomingAPIHandler \/ GossipNotificationHandler \/ CentralIgnores
  <2>1. /\ inbox # <<>> /\ Head(inbox).kind # "EndpointClosed" /\ inbox' = Tail(inbox)
        /\ UNCHANGED <<apiClients, stopped, running>>
    BY <1>9 DEF IncomingAPIHandler, GossipNotificationHandler, CentralIgnores, CentralTakes,
                StopMessage
  <2>2. ServedIn(Tail(inbox), apiClients, stopped, running)
    BY <1>0, <2>1, ServedWithout
  <2> QED BY <2>1, <2>2 DEF Served
<1>10. CASE UpdateRound \/ GossiperHandles
  <2>1. UNCHANGED <<apiClients, stopped, running>>
    BY <1>10 DEF UpdateRound, GossiperHandles
  <2> QED BY <1>1, <1>10, <2>1, RoundNotifies, Notifies
<1> QED
  BY <1>2, <1>3, <1>4, <1>5, <1>6, <1>7, <1>8, <1>9, <1>10
     DEF Next, Central, Reader, Writer

-----------------------------------------------------------------------------
(* One connection after the other *)

\* The connection that the Gossiper hears of at each place of its queue g: what it
\* has registered at the front, 0 for the end of a connection, and at the back the
\* connection in apiClients or, if there is none, any later one.
Heard(g, reg, api, i) ==
    CASE i = 0 -> reg
      [] i \in DOMAIN g -> IF FromClient(g[i]) THEN g[i].conn ELSE 0
      [] OTHER -> IF api = 0 THEN MaxConns + 1 ELSE api

Ended(g, i, j) == \E k \in DOMAIN g : i < k /\ k < j /\ ~FromClient(g[k])

\* Connections follow each other, and the end of each is announced before the
\* next is heard of.
InTurn(g, reg, api) ==
    \A i, j \in 0..(Len(g) + 1) :
        i < j /\ Heard(g, reg, api, i) # 0 /\ Heard(g, reg, api, j) # 0 =>
            /\ Heard(g, reg, api, i) <= Heard(g, reg, api, j)
            /\ Heard(g, reg, api, i) # Heard(g, reg, api, j) <=> Ended(g, i, j)

LEMMA HeardType ==
    ASSUME NEW g \in Seq(GossiperMessage), NEW reg \in 0..MaxConns, NEW api \in 0..MaxConns,
           NEW i \in 0..(Len(g) + 1)
    PROVE  /\ Heard(g, reg, api, i) \in 0..(MaxConns + 1)
           /\ i <= Len(g) => Heard(g, reg, api, i) \in 0..MaxConns
           /\ i = Len(g) + 1 => Heard(g, reg, api, i) = IF api = 0 THEN MaxConns + 1 ELSE api
<1>1. MaxConns \in Nat
  BY BoundAssumption
<1>2. DOMAIN g = 1..Len(g) /\ Len(g) \in Nat
  OBVIOUS
<1>3. i \in DOMAIN g => g[i] \in GossiperMessage
  OBVIOUS
<1>4. i \in DOMAIN g /\ FromClient(g[i]) => g[i].conn \in 1..MaxConns
  BY <1>3, GossiperMessages DEF Conn
<1> QED
  BY <1>1, <1>2, <1>4 DEF Heard

\* The Gossiper takes a message, and registers what it is from or nothing.
LEMMA InTurnWithout ==
    ASSUME NEW g \in Seq(GossiperMessage), g # <<>>, NEW reg \in 0..MaxConns,
           NEW api \in 0..MaxConns, InTurn(g, reg, api),
           NEW reg1 \in {0, Heard(g, reg, api, 1)}
    PROVE  InTurn(Tail(g), reg1, api)
<1> DEFINE t == Tail(g)
<1>1. /\ DOMAIN g = 1..Len(g) /\ Len(g) \in Nat /\ Len(t) = Len(g) - 1 /\ DOMAIN t = 1..Len(t)
      /\ \A i \in DOMAIN t : i \in Nat \ {0} /\ i + 1 \in DOMAIN g /\ t[i] = g[i + 1]
      /\ \A i \in DOMAIN g : i \in Nat \ {0}
                             /\ (i = 1 \/ (i - 1 \in DOMAIN t /\ g[i] = t[i - 1]))
  BY AfterTail
<1> HIDE DEF t
<1>2. ASSUME NEW i \in 0..(Len(t) + 1)
      PROVE  /\ i + 1 \in 0..(Len(g) + 1)
             /\ i # 0 => Heard(t, reg1, api, i) = Heard(g, reg, api, i + 1)
             /\ i = 0 => Heard(t, reg1, api, i) \in {0, Heard(g, reg, api, 1)}
  BY <1>1 DEF Heard
<1>3. ASSUME NEW i \in 0..(Len(t) + 1), NEW j \in 0..(Len(t) + 1)
      PROVE  Ended(t, i, j) <=> Ended(g, i + 1, j + 1)
  <2>1. ASSUME NEW k \in DOMAIN t, i < k, k < j, ~FromClient(t[k])
        PROVE  k + 1 \in DOMAIN g /\ i + 1 < k + 1 /\ k + 1 < j + 1 /\ ~FromClient(g[k + 1])
    BY <1>1, <2>1
  <2>2. ASSUME NEW k \in DOMAIN g, i + 1 < k, k < j + 1, ~FromClient(g[k])
        PROVE  k - 1 \in DOMAIN t /\ i < k - 1 /\ k - 1 < j /\ ~FromClient(t[k - 1])
    BY <1>1, <2>2
  <2> QED BY <2>1, <2>2 DEF Ended
<1>4. ASSUME NEW i \in 0..(Len(t) + 1), NEW j \in 0..(Len(t) + 1), i < j,
             Heard(t, reg1, api, i) # 0, Heard(t, reg1, api, j) # 0
      PROVE  /\ Heard(t, reg1, api, i) <= Heard(t, reg1, api, j)
             /\ Heard(t, reg1, api, i) # Heard(t, reg1, api, j) <=> Ended(t, i, j)
  <2>1. /\ Heard(t, reg1, api, j) = Heard(g, reg, api, j + 1)
        /\ Heard(t, reg1, api, i) = Heard(g, reg, api, i + 1)
    BY <1>2, <1>4
  <2>2. i + 1 \in 0..(Len(g) + 1) /\ j + 1 \in 0..(Len(g) + 1) /\ i + 1 < j + 1
    BY <1>2, <1>4
  <2> QED BY <1>3, <1>4, <2>1, <2>2 DEF InTurn
<1>5. InTurn(t, reg1, api)
  BY <1>4 DEF InTurn
<1> QED
  BY <1>5 DEF t

\* Central passes on a request of the connection that is served.
LEMMA InTurnWithRequest ==
    ASSUME NEW g \in Seq(GossiperMessage), NEW m \in GossiperMessage, FromClient(m),
           NEW reg \in 0..MaxConns, NEW api \in 1..MaxConns, m.conn = api,
           InTurn(g, reg, api)
    PROVE  InTurn(Append(g, m), reg, api)
<1> DEFINE r == Append(g, m)
           n == Len(g) + 1
<1>1. /\ DOMAIN g = 1..Len(g) /\ Len(g) \in Nat /\ DOMAIN r = 1..n /\ Len(r) = n
      /\ \A i \in DOMAIN g : r[i] = g[i]
      /\ r[n] = m
  OBVIOUS
<1>2. n \in Nat /\ n = Len(g) + 1
  BY <1>1
<1> HIDE DEF r, n
<1>3. /\ \A i \in 0..n : Heard(r, reg, api, i) = Heard(g, reg, api, i)
      /\ Heard(r, reg, api, n + 1) = api /\ Heard(g, reg, api, n) = api
  BY <1>1, <1>2, BoundAssumption DEF Heard
<1>4. \A i, j \in 0..n : Ended(r, i, j) <=> Ended(g, i, j)
  BY <1>1, <1>2 DEF Ended
<1>5. \A i \in 0..n : Ended(r, i, n + 1) <=> Ended(g, i, n)
  BY <1>1, <1>2 DEF Ended
<1>6. ASSUME NEW i \in 0..(n + 1), NEW j \in 0..(n + 1), i < j,
             Heard(r, reg, api, i) # 0, Heard(r, reg, api, j) # 0
      PROVE  /\ Heard(r, reg, api, i) <= Heard(r, reg, api, j)
             /\ Heard(r, reg, api, i) # Heard(r, reg, api, j) <=> Ended(r, i, j)
  <2>1. CASE j # n + 1
    <3>1. i \in 0..n /\ j \in 0..n
      BY <1>2, <1>6, <2>1
    <3> QED BY <1>2, <1>3, <1>4, <1>6, <3>1 DEF InTurn
  <2>2. CASE j = n + 1 /\ i # n
    <3>1. i \in 0..n /\ n \in 0..n /\ i < n
      BY <1>2, <1>6, <2>2
    <3> QED BY <1>2, <1>3, <1>5, <1>6, <2>2, <3>1 DEF InTurn
  <2>3. CASE j = n + 1 /\ i = n
    <3>1. ~Ended(r, n, n + 1)
      BY <1>1, <1>2 DEF Ended
    <3> QED BY <1>2, <1>3, <2>3, <3>1
  <2> QED BY <1>2, <1>6, <2>1, <2>2, <2>3
<1>7. InTurn(r, reg, api)
  BY <1>1, <1>6 DEF InTurn
<1> QED
  BY <1>7 DEF r

\* Central announces the end of the connection that was served.
LEMMA InTurnWithEnd ==
    ASSUME NEW g \in Seq(GossiperMessage), NEW m \in GossiperMessage, ~FromClient(m),
           NEW reg \in 0..MaxConns, NEW api \in 1..MaxConns, InTurn(g, reg, api)
    PROVE  InTurn(Append(g, m), reg, 0)
<1> DEFINE r == Append(g, m)
           n == Len(g) + 1
<1>1. /\ DOMAIN g = 1..Len(g) /\ Len(g) \in Nat /\ DOMAIN r = 1..n /\ Len(r) = n
      /\ \A i \in DOMAIN g : r[i] = g[i]
      /\ r[n] = m
  OBVIOUS
<1>2. n \in Nat /\ n = Len(g) + 1
  BY <1>1
<1> HIDE DEF r, n
<1>3. /\ \A i \in 0..Len(g) : Heard(r, reg, 0, i) = Heard(g, reg, api, i)
      /\ Heard(r, reg, 0, n) = 0 /\ Heard(r, reg, 0, n + 1) = MaxConns + 1
  BY <1>1, <1>2 DEF Heard
<1>4. \A i, j \in 0..Len(g) : Ended(r, i, j) <=> Ended(g, i, j)
  BY <1>1, <1>2 DEF Ended
<1>5. \A i \in 0..Len(g) : Ended(r, i, n + 1)
  BY <1>1, <1>2 DEF Ended
<1>6. ASSUME NEW i \in 0..(n + 1), NEW j \in 0..(n + 1), i < j,
             Heard(r, reg, 0, i) # 0, Heard(r, reg, 0, j) # 0
      PROVE  /\ Heard(r, reg, 0, i) <= Heard(r, reg, 0, j)
             /\ Heard(r, reg, 0, i) # Heard(r, reg, 0, j) <=> Ended(r, i, j)
  <2>1. i # n /\ j # n /\ i \in 0..Len(g)
    BY <1>1, <1>2, <1>3, <1>6
  <2>2. CASE j # n + 1
    <3>1. j \in 0..Len(g) /\ i \in 0..(Len(g) + 1) /\ j \in 0..(Len(g) + 1)
      BY <1>1, <1>2, <1>6, <2>1, <2>2
    <3>2. /\ Heard(r, reg, 0, i) = Heard(g, reg, api, i)
          /\ Heard(r, reg, 0, j) = Heard(g, reg, api, j)
          /\ Ended(r, i, j) <=> Ended(g, i, j)
      BY <1>3, <1>4, <2>1, <3>1
    <3>3. Heard(g, reg, api, i) # 0 /\ Heard(g, reg, api, j) # 0 =>
            /\ Heard(g, reg, api, i) <= Heard(g, reg, api, j)
            /\ Heard(g, reg, api, i) # Heard(g, reg, api, j) <=> Ended(g, i, j)
      BY <1>6, <3>1 DEF InTurn
    <3> QED BY <1>6, <3>2, <3>3
  <2>3. CASE j = n + 1
    <3>1. Heard(g, reg, api, i) \in 0..MaxConns
      BY <1>1, <2>1, HeardType
    <3> QED BY <1>3, <1>5, <2>1, <2>3, <3>1, BoundAssumption
  <2> QED BY <2>2, <2>3
<1>7. InTurn(r, reg, 0)
  BY <1>1, <1>6 DEF InTurn
<1> QED
  BY <1>7 DEF r

\* Central serves a connection that is later than all that was heard of.
LEMMA InTurnAnew ==
    ASSUME NEW g \in Seq(GossiperMessage), NEW reg \in 0..MaxConns, NEW c \in 1..MaxConns,
           InTurn(g, reg, 0),
           \A i \in 0..Len(g) : Heard(g, reg, 0, i) < c
    PROVE  InTurn(g, reg, c)
<1>1. DOMAIN g = 1..Len(g) /\ Len(g) \in Nat /\ MaxConns \in Nat
  BY BoundAssumption
<1>2. /\ \A i \in 0..Len(g) : Heard(g, reg, c, i) = Heard(g, reg, 0, i)
      /\ Heard(g, reg, 0, Len(g) + 1) = MaxConns + 1 /\ Heard(g, reg, c, Len(g) + 1) = c
  BY <1>1 DEF Heard
<1>3. ASSUME NEW i \in 0..(Len(g) + 1), NEW j \in 0..(Len(g) + 1), i < j,
             Heard(g, reg, c, i) # 0, Heard(g, reg, c, j) # 0
      PROVE  /\ Heard(g, reg, c, i) <= Heard(g, reg, c, j)
             /\ Heard(g, reg, c, i) # Heard(g, reg, c, j) <=> Ended(g, i, j)
  <2>0. i \in 0..Len(g) /\ 0 \in 0..MaxConns
    BY <1>1, <1>3
  <2>1. i \in 0..Len(g) /\ Heard(g, reg, 0, i) \in 0..MaxConns
    BY <1>1, <2>0, HeardType
  <2>2. CASE j # Len(g) + 1
    <3>1. j \in 0..Len(g)
      BY <1>1, <2>2
    <3> QED BY <1>2, <1>3, <2>1, <3>1 DEF InTurn
  <2>3. CASE j = Len(g) + 1
    <3>1. Heard(g, reg, 0, i) < c /\ Heard(g, reg, 0, i) # MaxConns + 1
      BY <1>1, <2>1
    <3>2. Ended(g, i, j)
      BY <1>1, <1>2, <1>3, <2>1, <2>3, <3>1 DEF InTurn
    <3> QED BY <1>2, <2>1, <2>3, <3>1, <3>2
  <2> QED BY <2>2, <2>3
<1> QED
  BY <1>3 DEF InTurn

-----------------------------------------------------------------------------
(* What the steps do to the queues *)

Tells(m, c, id, item) ==
    m.kind = "Notification" /\ m.registrant = c /\ m.ID = id /\ m.item = item

InboxStep ==
    \/ UNCHANGED <<inbox, current>>
    \/ inbox # <<>> /\ inbox' = Tail(inbox) /\ UNCHANGED current
    \/ \E m \in CentralMessage :
          /\ inbox' = Append(inbox, m)
          /\ \/ m.kind \notin {"EndpointCreated", "Notification"} /\ UNCHANGED current
             \/ /\ registrant # 0 /\ UNCHANGED current
                /\ \E pointer \in Pointer :
                      NotifyClients(pointer) /\ Tells(m, registrant, nextAvailableID, pointer)
             \/ m.kind = "EndpointCreated" /\ m.conn = current + 1 /\ current' = current + 1

LEMMA NotifiesInbox ==
    ASSUME Typed, NEW pointer \in Pointer, NotifyClients(pointer), UNCHANGED current
    PROVE  InboxStep
<1>1. CASE registered
  <2>1. nextAvailableID \in ID /\ registrant \in Conn /\ registrant # 0
    BY <1>1, BoundAssumption DEF Conn, Typed, TypeOK
  <2> DEFINE m == [kind |-> "Notification", ID |-> nextAvailableID, item |-> pointer,
                   registrant |-> registrant]
  <2>2. m \in CentralMessage /\ Tells(m, registrant, nextAvailableID, pointer)
    BY <2>1, MessagesBuilt DEF Tells
  <2>3. inbox' = Append(inbox, m)
    BY <1>1 DEF NotifyClients, SendCentral
  <2> HIDE DEF m
  <2> QED BY <2>1, <2>2, <2>3 DEF InboxStep
<1>2. CASE ~registered
  BY <1>2 DEF NotifyClients, InboxStep
<1> QED
  BY <1>1, <1>2

LEMMA InboxMoves == Typed /\ [Next]_vars => InboxStep
<1> SUFFICES ASSUME Typed, [Next]_vars PROVE InboxStep
  OBVIOUS
<1> USE DEF clientVars, endpointVars, loopVars, gossiperVars
<1>1. ASSUME NEW m \in CentralMessage, inbox' = Append(inbox, m),
             m.kind \notin {"EndpointCreated", "Notification"}, UNCHANGED current
      PROVE  InboxStep
  BY <1>1 DEF InboxStep
<1>2. CASE \/ UNCHANGED vars
           \/ ClientSends \/ ClientLeaves \/ CloseHandler \/ \E c \in Conn : WriterWrites(c)
  BY <1>2 DEF vars, ClientSends, ClientLeaves, CloseHandler, WriterWrites, InboxStep
<1>3. CASE ClientConnects
  <2> DEFINE m == [kind |-> "EndpointCreated", conn |-> current + 1]
  <2>1. current + 1 \in Conn
    BY <1>3, BoundAssumption DEF ClientConnects, Typed, TypeOK, Conn
  <2>2. m \in CentralMessage /\ m.kind = "EndpointCreated" /\ m.conn = current + 1
    BY <2>1, MessagesBuilt
  <2>3. inbox' = Append(inbox, m) /\ current' = current + 1
    BY <1>3 DEF ClientConnects, SendCentral
  <2> HIDE DEF m
  <2> QED BY <2>2, <2>3 DEF InboxStep
<1>4. ASSUME NEW c \in Conn, ReaderReads(c) PROVE InboxStep
  <2>1. PICK chunk \in Chunks(c) :
            IF IsMessage(chunk)
            THEN SendCentral(Incoming(c, chunk[1][1]))
            ELSE UNCHANGED inbox
    BY <1>4 DEF ReaderReads
  <2>2. chunk[1][1] \in Request
    BY ChunksOfStream
  <2> DEFINE m == Incoming(c, chunk[1][1])
  <2>3. m \in CentralMessage /\ m.kind = "IncomingAPI"
    BY <2>2, MessagesBuilt
  <2>4. (inbox' = inbox \/ inbox' = Append(inbox, m)) /\ UNCHANGED current
    BY <1>4, <2>1 DEF SendCentral, ReaderReads
  <2> HIDE DEF m
  <2>5. CASE inbox' = inbox
    BY <2>4, <2>5 DEF InboxStep
  <2> QED BY <1>1, <2>3, <2>4, <2>5
<1>5. ASSUME NEW c \in Conn, ReaderCloses(c) \/ ReaderCrashes(c) \/ WriterCloses(c)
      PROVE  InboxStep
  <2>1. PICK h \in Half, e \in BOOLEAN : Ends(c, h, e)
    BY <1>5 DEF ReaderCloses, ReaderCrashes, WriterCloses, Half
  <2> DEFINE m == [kind |-> "EndpointClosed", conn |-> c, half |-> h, err |-> e]
  <2>2. m \in CentralMessage /\ m.kind = "EndpointClosed"
    BY MessagesBuilt
  <2>3. inbox' = Append(inbox, m) /\ UNCHANGED current
    BY <2>1 DEF Ends, SendCentral
  <2> HIDE DEF m
  <2> QED BY <1>1, <2>2, <2>3
<1>6. CASE Central
  <2>1. inbox # <<>> /\ inbox' = Tail(inbox) /\ UNCHANGED current
    BY <1>6 DEF Central, APIEndpointCreatedHandler, APIEndpointClosed, IncomingAPIHandler,
                GossipNotificationHandler, CentralIgnores, CentralTakes
  <2> QED BY <2>1 DEF InboxStep
<1>7. CASE UpdateRound \/ GossiperHandles
  <2>1. UNCHANGED current
    BY <1>7 DEF UpdateRound, GossiperHandles
  <2>2. CASE UNCHANGED inbox
    BY <2>1, <2>2 DEF InboxStep
  <2> QED BY <1>7, <2>1, <2>2, RoundNotifies, NotifiesInbox
<1> QED
  BY <1>2, <1>3, <1>4, <1>5, <1>6, <1>7 DEF Next, Reader, Writer

\* The endpoint's queue, and what its writer takes from it.
NotesStep ==
    \/ /\ UNCHANGED <<shown, strayed>>
       /\ \/ MsgInQueue' = MsgInQueue \/ MsgInQueue' = <<>>
          \/ MsgInQueue' = Append(MsgInQueue, CloseMSG)
          \/ inbox # <<>> /\ MsgInQueue' = Append(MsgInQueue, Head(inbox))
          \/ MsgInQueue # <<>> /\ MsgInQueue' = Tail(MsgInQueue)
    \/ /\ MsgInQueue # <<>> /\ MsgInQueue' = Tail(MsgInQueue)
       /\ \E c \in Conn :
             LET n == Head(MsgInQueue)
             IN  /\ shown' = [shown EXCEPT ![c] = @ \cup
                        {[ID |-> n.ID, pointer |-> n.item, item |-> held[n.item]]}]
                 /\ strayed' = IF n.registrant = c THEN strayed ELSE strayed \cup {c}
                 /\ n # CloseMSG

LEMMA NotesMove == Typed /\ [Next]_vars => NotesStep
<1> SUFFICES ASSUME Typed, [Next]_vars PROVE NotesStep
  OBVIOUS
<1> USE DEF clientVars, endpointVars, loopVars, gossiperVars
<1>1. CASE \/ UNCHANGED vars \/ ClientConnects \/ ClientSends \/ ClientLeaves
           \/ UpdateRound \/ GossiperHandles
           \/ \E c \in Conn : Reader(c)
  BY <1>1 DEF vars, ClientConnects, ClientSends, ClientLeaves, UpdateRound, GossiperHandles,
              Reader, ReaderReads, ReaderCloses, ReaderCrashes, Ends, NotesStep
<1>2. CASE CloseHandler \/ APIEndpointClosed \/ IncomingAPIHandler \/ CentralIgnores
  BY <1>2 DEF CloseHandler, APIEndpointClosed, IncomingAPIHandler, CentralIgnores, NotesStep
<1>3. CASE APIEndpointCreatedHandler \/ GossipNotificationHandler
  BY <1>3 DEF APIEndpointCreatedHandler, GossipNotificationHandler, CentralTakes, NotesStep
<1>4. ASSUME NEW c \in Conn, WriterCloses(c) PROVE NotesStep
  BY <1>4 DEF WriterCloses, Ends, NotesStep
<1>5. ASSUME NEW c \in Conn, WriterWrites(c) PROVE NotesStep
  BY <1>5 DEF WriterWrites, NotesStep
<1> QED
  BY <1>1, <1>2, <1>3, <1>4, <1>5 DEF Next, Central, Writer

\* A connection is told of what a pointer finds under an ID: the notification is under
\* way, or it was shown, and the connection was shown none meant for another.
Notified(c, id, item) ==
    \/ \E i \in DOMAIN inbox : Tells(inbox[i], c, id, item)
    \/ \E i \in DOMAIN MsgInQueue : Tells(MsgInQueue[i], c, id, item)
    \/ c \notin strayed /\ \E n \in shown[c] : n.ID = id /\ n.pointer = item

LEMMA NotifiedStep ==
    ASSUME Typed, [Next]_vars, NEW c \in Conn, NEW id \in ID, NEW item \in Pointer,
           Notified(c, id, item)'
    PROVE  \/ Notified(c, id, item)
           \/ NotifyClients(item) /\ registrant = c /\ id = nextAvailableID
<1>0. /\ inbox \in Seq(CentralMessage) /\ MsgInQueue \in Seq(Notification \cup {CloseMSG})
      /\ shown \in [Conn -> SUBSET Shown]
  BY DEF Typed, TypeOK
<1>1. CASE \E i \in DOMAIN inbox' : Tells(inbox'[i], c, id, item)
  <2>1. PICK i \in DOMAIN inbox' : Tells(inbox'[i], c, id, item)
    BY <1>1
  <2>2. InboxStep
    BY InboxMoves
  <2>3. CASE inbox' = inbox
    BY <2>1, <2>3 DEF Notified
  <2>4. CASE inbox # <<>> /\ inbox' = Tail(inbox)
    <3>1. i + 1 \in DOMAIN inbox /\ inbox'[i] = inbox[i + 1]
      BY <1>0, <2>1, <2>4
    <3> QED BY <2>1, <3>1 DEF Notified
  <2>5. ASSUME NEW m \in CentralMessage, inbox' = Append(inbox, m),
               ~(i \in DOMAIN inbox /\ inbox'[i] = inbox[i])
        PROVE  inbox'[i] = m
    BY <1>0, <2>1, <2>5
  <2>6. ASSUME NEW m \in CentralMessage, inbox' = Append(inbox, m),
               \/ m.kind # "Notification"
               \/ \E p \in Pointer : NotifyClients(p) /\ Tells(m, registrant, nextAvailableID, p)
        PROVE  \/ Notified(c, id, item)
               \/ NotifyClients(item) /\ registrant = c /\ id = nextAvailableID
    BY <2>1, <2>5, <2>6 DEF Notified, Tells
  <2> QED BY <2>2, <2>3, <2>4, <2>6 DEF InboxStep
<1>2. CASE \E i \in DOMAIN MsgInQueue' : Tells(MsgInQueue'[i], c, id, item)
  <2>1. PICK i \in DOMAIN MsgInQueue' : Tells(MsgInQueue'[i], c, id, item)
    BY <1>2
  <2>2. NotesStep
    BY NotesMove
  <2>3. CASE MsgInQueue' = MsgInQueue
    BY <2>1, <2>3 DEF Notified
  <2>4. CASE MsgInQueue' = <<>>
    BY <2>1, <2>4
  <2>5. CASE MsgInQueue # <<>> /\ MsgInQueue' = Tail(MsgInQueue)
    <3>1. i + 1 \in DOMAIN MsgInQueue /\ MsgInQueue'[i] = MsgInQueue[i + 1]
      BY <1>0, <2>1, <2>5
    <3> QED BY <2>1, <3>1 DEF Notified
  <2>6. ASSUME NEW m, MsgInQueue' = Append(MsgInQueue, m)
        PROVE  (i \in DOMAIN MsgInQueue /\ MsgInQueue'[i] = MsgInQueue[i]) \/ MsgInQueue'[i] = m
    BY <1>0, <2>1, <2>6
  <2>7. CASE MsgInQueue' = Append(MsgInQueue, CloseMSG)
    <3>1. CloseMSG.kind # "Notification"
      BY DEF CloseMSG
    <3> QED BY <2>1, <2>6, <2>7, <3>1 DEF Notified, Tells
  <2>8. CASE inbox # <<>> /\ MsgInQueue' = Append(MsgInQueue, Head(inbox))
    <3>1. 1 \in DOMAIN inbox /\ Head(inbox) = inbox[1]
      BY <1>0, <2>8
    <3> QED BY <2>1, <2>6, <2>8, <3>1 DEF Notified
  <2> QED BY <2>2, <2>3, <2>4, <2>5, <2>7, <2>8 DEF NotesStep
<1>3. CASE c \notin strayed' /\ \E e \in shown'[c] : e.ID = id /\ e.pointer = item
  <2>0. PICK e \in shown'[c] : e.ID = id /\ e.pointer = item
    BY <1>3
  <2>1. CASE UNCHANGED <<shown, strayed>>
    BY <1>3, <2>1 DEF Notified
  <2>2. ASSUME NEW a \in Conn, NEW n, MsgInQueue # <<>>, n = Head(MsgInQueue), n # CloseMSG,
               shown' = [shown EXCEPT ![a] = @ \cup
                            {[ID |-> n.ID, pointer |-> n.item, item |-> held[n.item]]}],
               strayed' = IF n.registrant = a THEN strayed ELSE strayed \cup {a}
        PROVE  Notified(c, id, item)
    <3>1. 1 \in DOMAIN MsgInQueue /\ n = MsgInQueue[1] /\ n \in Notification
      BY <1>0, <2>2
    <3>2. n.kind = "Notification"
      BY <3>1 DEF Notification
    <3>3. c \notin strayed
      BY <1>3, <2>2
    <3>4. CASE e \in shown[c]
      BY <2>0, <3>3, <3>4 DEF Notified
    <3>5. CASE e \notin shown[c]
      <4>1. a = c /\ e = [ID |-> n.ID, pointer |-> n.item, item |-> held[n.item]]
        BY <1>0, <2>0, <2>2, <3>5
      <4>2. n.registrant = c
        BY <1>3, <2>2, <4>1
      <4>3. id = n.ID /\ item = n.item
        BY <2>0, <4>1
      <4> QED BY <3>1, <3>2, <4>2, <4>3 DEF Notified, Tells
    <3> QED BY <3>4, <3>5
  <2>3. NotesStep
    BY NotesMove
  <2> QED BY <2>1, <2>2, <2>3 DEF NotesStep
<1> QED
  BY <1>1, <1>2, <1>3 DEF Notified

-----------------------------------------------------------------------------
(* Connections to come *)

\* The connections that the controllers have heard of.
Known ==
    {c \in Conn :
        \/ c \in forwarded \/ c = apiClients \/ c = registrant
        \/ \E i \in DOMAIN gossiper : FromClient(gossiper[i]) /\ gossiper[i].conn = c
        \/ \E id \in ID, item \in Pointer : Notified(c, id, item)}

\* Those announced in the queue q are later, and come in their order.
ArrivalsIn(q, cur, known) ==
    /\ \A k \in known : k <= cur
    /\ \A i \in DOMAIN q : q[i].kind = "EndpointCreated" =>
          /\ q[i].conn <= cur
          /\ \A k \in known : k < q[i].conn
          /\ \A j \in DOMAIN q : i < j /\ q[j].kind = "EndpointCreated" => q[i].conn < q[j].conn

Arrivals == ArrivalsIn(inbox, current, Known)

\* The connection that a message makes known.
MadeKnown(m) == IF m.kind = "EndpointCreated" THEN {m.conn} ELSE {}

LEMMA ArrivalsFewer ==
    ASSUME NEW q, NEW cur, NEW known, ArrivalsIn(q, cur, known), NEW some \in SUBSET known
    PROVE  ArrivalsIn(q, cur, some)
BY DEF ArrivalsIn

LEMMA ArrivalsWithout ==
    ASSUME NEW q \in Seq(CentralMessage), q # <<>>, NEW cur \in Nat, NEW known,
           ArrivalsIn(q, cur, known)
    PROVE  ArrivalsIn(Tail(q), cur, known \cup MadeKnown(Head(q)))
<1> DEFINE r == Tail(q)
           m == Head(q)
<1>1. /\ 1 \in DOMAIN q /\ m = q[1]
      /\ \A i \in DOMAIN r : i \in Nat \ {0} /\ i + 1 \in DOMAIN q /\ r[i] = q[i + 1]
  BY AfterTail
<1> HIDE DEF r, m
<1>2. \A k \in known \cup MadeKnown(m) : k <= cur
  BY <1>1 DEF ArrivalsIn, MadeKnown
<1>3. ASSUME NEW i \in DOMAIN r, r[i].kind = "EndpointCreated"
      PROVE  /\ r[i].conn <= cur
             /\ \A k \in known \cup MadeKnown(m) : k < r[i].conn
             /\ \A j \in DOMAIN r : i < j /\ r[j].kind = "EndpointCreated" => r[i].conn < r[j].conn
  <2>1. i \in Nat \ {0} /\ i + 1 \in DOMAIN q /\ r[i] = q[i + 1] /\ 1 < i + 1
    BY <1>1
  <2>2. m.kind = "EndpointCreated" => m.conn < r[i].conn
    BY <1>1, <1>3, <2>1 DEF ArrivalsIn
  <2>3. ASSUME NEW j \in DOMAIN r, i < j, r[j].kind = "EndpointCreated"
        PROVE  r[i].conn < r[j].conn
    <3>1. j + 1 \in DOMAIN q /\ r[j] = q[j + 1] /\ i + 1 < j + 1
      BY <1>1, <2>1, <2>3
    <3> QED BY <1>3, <2>1, <2>3, <3>1 DEF ArrivalsIn
  <2> QED BY <1>3, <2>1, <2>2, <2>3 DEF ArrivalsIn, MadeKnown
<1>4. ArrivalsIn(r, cur, known \cup MadeKnown(m))
  BY <1>2, <1>3 DEF ArrivalsIn
<1> QED
  BY <1>4 DEF r, m

LEMMA ArrivalsWith ==
    ASSUME NEW q \in Seq(CentralMessage), NEW m \in CentralMessage, NEW cur \in Nat,
           NEW known \in SUBSET Nat, ArrivalsIn(q, cur, known)
    PROVE  /\ m.kind # "EndpointCreated" => ArrivalsIn(Append(q, m), cur, known)
           /\ m.kind = "EndpointCreated" /\ m.conn = cur + 1
                => ArrivalsIn(Append(q, m), cur + 1, known)
<1> DEFINE r == Append(q, m)
           n == Len(q) + 1
<1>1. /\ DOMAIN q \subseteq DOMAIN r
      /\ \A i \in DOMAIN q : r[i] = q[i] /\ i < n /\ i \in Nat
      /\ r[n] = m /\ n \in DOMAIN r /\ n \in Nat
      /\ \A i \in DOMAIN r : i \in DOMAIN q \/ i = n
  BY AfterAppend
<1>2. \A i \in DOMAIN q : q[i].kind = "EndpointCreated" => q[i].conn \in Nat
  <2>1. \A i \in DOMAIN q : q[i] \in CentralMessage
    OBVIOUS
  <2>2. \A i \in DOMAIN q : q[i].kind = "EndpointCreated" => q[i].conn \in Conn
    BY <2>1, CentralMessages
  <2> QED BY <2>2, BoundAssumption DEF Conn
<1> HIDE DEF r, n
<1>3. CASE m.kind # "EndpointCreated"
  <2>1. \A i \in DOMAIN r : r[i].kind = "EndpointCreated" => i \in DOMAIN q
    BY <1>1, <1>3
  <2>2. ArrivalsIn(r, cur, known)
    BY <1>1, <2>1 DEF ArrivalsIn
  <2> QED BY <1>3, <2>2 DEF r
<1>4. CASE m.kind = "EndpointCreated" /\ m.conn = cur + 1
  <2>1. \A k \in known : k <= cur /\ k <= cur + 1 /\ k < cur + 1
    BY DEF ArrivalsIn
  <2>2. ASSUME NEW i \in DOMAIN r, r[i].kind = "EndpointCreated"
        PROVE  /\ r[i].conn <= cur + 1
               /\ \A k \in known : k < r[i].conn
               /\ \A j \in DOMAIN r : i < j /\ r[j].kind = "EndpointCreated"
                                        => r[i].conn < r[j].conn
    <3>1. CASE i = n
      <4>1. \A j \in DOMAIN r : ~(i < j)
        BY <1>1, <3>1
      <4> QED BY <1>1, <1>4, <2>1, <3>1, <4>1
    <3>2. CASE i \in DOMAIN q
      <4>1. r[i].conn \in Nat /\ r[i].conn <= cur /\ r[i].conn < cur + 1 /\ r[i].conn <= cur + 1
        BY <1>1, <1>2, <2>2, <3>2 DEF ArrivalsIn
      <4> QED BY <1>1, <1>4, <2>2, <3>2, <4>1 DEF ArrivalsIn
    <3> QED BY <1>1, <3>1, <3>2
  <2>3. ArrivalsIn(r, cur + 1, known)
    BY <2>1, <2>2 DEF ArrivalsIn
  <2> QED BY <1>4, <2>3 DEF r
<1> QED
  BY <1>3, <1>4

\* What the Gossiper does when it takes a message.
HeadStep ==
    /\ gossiper # <<>> /\ gossiper' = Tail(gossiper)
    /\ UNCHANGED <<apiClients, forwarded>>
    /\ \/ ~FromClient(Head(gossiper)) /\ registrant' = 0
       \/ /\ FromClient(Head(gossiper)) /\ Head(gossiper).request.kind = "Notify"
          /\ registrant' = IF registrant = 0 THEN Head(gossiper).conn ELSE registrant
       \/ /\ FromClient(Head(gossiper)) /\ Head(gossiper).request.kind # "Notify"
          /\ registrant' = registrant

ServeStep ==
    /\ inbox # <<>> /\ Head(inbox).kind = "EndpointCreated" /\ apiClients = 0
    /\ apiClients' = Head(inbox).conn /\ UNCHANGED <<gossiper, registrant, forwarded, current>>
    /\ inbox' = Tail(inbox)

RequestStep ==
    /\ inbox # <<>> /\ Head(inbox).kind = "IncomingAPI"
    /\ inbox' = Tail(inbox) /\ UNCHANGED <<apiClients, registrant>>
    /\ gossiper' = Append(gossiper, [conn |-> Head(inbox).conn, request |-> Head(inbox).request])
    /\ forwarded' = IF Head(inbox).request.kind = "Notify"
                    THEN forwarded \cup {Head(inbox).conn} ELSE forwarded

EndStep ==
    /\ apiClients # 0 /\ apiClients' = 0
    /\ gossiper' = Append(gossiper, [kind |-> "Unnotify"])
    /\ UNCHANGED <<registrant, forwarded>>

LEMMA ControllersMove ==
    ASSUME Typed, [Next]_vars
    PROVE  \/ UNCHANGED <<apiClients, gossiper, registrant, forwarded>>
           \/ HeadStep \/ ServeStep \/ RequestStep \/ EndStep
<1> USE DEF clientVars, endpointVars, loopVars, gossiperVars
<1> DEFINE Rest == UNCHANGED <<apiClients, gossiper, registrant, forwarded>>
<1>1. CASE \/ UNCHANGED vars \/ ClientConnects \/ ClientSends \/ ClientLeaves
           \/ CloseHandler \/ GossipNotificationHandler \/ CentralIgnores
  <2>1. Rest
    BY <1>1 DEF vars, ClientConnects, ClientSends, ClientLeaves, CloseHandler,
                GossipNotificationHandler, CentralIgnores
  <2> QED BY <2>1
<1>2. ASSUME NEW c \in Conn, Reader(c) \/ Writer(c) PROVE Rest
  BY <1>2 DEF Reader, Writer, ReaderReads, ReaderCloses, ReaderCrashes, WriterWrites,
              WriterCloses, Ends
<1>3. CASE UpdateRound
  <2>1. Rest
    BY <1>3 DEF UpdateRound, NewItem, KnownItem, RoundEnds, NotifyClients
  <2> QED BY <2>1
<1>4. CASE APIEndpointCreatedHandler
  BY <1>4 DEF APIEndpointCreatedHandler, CentralTakes, MayServe, ServeStep
<1>5. CASE APIEndpointClosed
  BY <1>5 DEF APIEndpointClosed, EndStep
<1>6. CASE IncomingAPIHandler
  BY <1>6 DEF IncomingAPIHandler, CentralTakes, RequestStep
<1>7. CASE GossiperHandles
  <2> DEFINE m == Head(gossiper)
  <2>1. gossiper # <<>> /\ gossiper' = Tail(gossiper) /\ UNCHANGED <<apiClients, forwarded>>
    BY <1>7 DEF GossiperHandles
  <2>2. \/ ~FromClient(m) /\ UnnotifyHandler
        \/ FromClient(m) /\ m.request.kind = "Notify" /\ NotifyHandler(m)
        \/ FromClient(m) /\ m.request.kind # "Notify" /\ UNCHANGED registrant
    BY <1>7 DEF GossiperHandles, FromClient, ValidationHandler, NotifyClients
  <2> HIDE DEF m
  <2>3. ASSUME NotifyHandler(m)
        PROVE  registrant' = IF registrant = 0 THEN m.conn ELSE registrant
    <3>1. registered <=> registrant # 0
      BY DEF Typed
    <3>2. CASE registered
      BY <2>3, <3>1, <3>2 DEF NotifyHandler
    <3>3. CASE ~registered
      BY <2>3, <3>1, <3>3 DEF NotifyHandler
    <3> QED BY <3>2, <3>3
  <2>4. HeadStep
    BY <2>1, <2>2, <2>3 DEF UnnotifyHandler, HeadStep, m
  <2> QED BY <2>4
<1> QED
  BY <1>1, <1>2, <1>3, <1>4, <1>5, <1>6, <1>7 DEF Next, Central

LEMMA RequestIsServed ==
    ASSUME Typed, Served, RequestStep
    PROVE  /\ apiClients \in Conn /\ Head(inbox).conn = apiClients
           /\ Head(inbox).request \in Request
<1>1. /\ 1 \in DOMAIN inbox /\ Head(inbox) = inbox[1] /\ Head(inbox) \in CentralMessage
  BY DEF RequestStep, Typed, TypeOK
<1> QED
  BY <1>1, CentralMessages DEF RequestStep, Served, ServedIn

LEMMA KnownStep ==
    ASSUME Typed, Served, [Next]_vars
    PROVE  \/ Known' \subseteq Known
           \/ ServeStep /\ Known' \subseteq Known \cup MadeKnown(Head(inbox))
<1>0. gossiper \in Seq(GossiperMessage)
  BY DEF Typed, TypeOK
<1>1. ASSUME NEW c \in Conn, NEW id \in ID, NEW item \in Pointer, Notified(c, id, item)'
      PROVE  c \in Known
  BY <1>1, NotifiedStep DEF Known
<1>2. ASSUME \A c \in Conn :
                (\/ c \in forwarded' \/ c = apiClients' \/ c = registrant'
                 \/ \E i \in DOMAIN gossiper' : FromClient(gossiper'[i]) /\ gossiper'[i].conn = c)
                => c \in Known
      PROVE  Known' \subseteq Known
  BY <1>1, <1>2 DEF Known
<1>3. CASE UNCHANGED <<apiClients, gossiper, registrant, forwarded>>
  <2>1. Known' \subseteq Known
    BY <1>2, <1>3 DEF Known
  <2> QED BY <2>1
<1>4. CASE HeadStep
  <2>1. /\ 1 \in DOMAIN gossiper /\ Head(gossiper) = gossiper[1]
        /\ \A i \in DOMAIN gossiper' : i + 1 \in DOMAIN gossiper /\ gossiper'[i] = gossiper[i + 1]
    BY <1>0, <1>4, AfterTail DEF HeadStep
  <2>2. ASSUME NEW c \in Conn,
               \/ c \in forwarded' \/ c = apiClients' \/ c = registrant'
               \/ \E i \in DOMAIN gossiper' : FromClient(gossiper'[i]) /\ gossiper'[i].conn = c
        PROVE  c \in Known
    <3>1. CASE c \in forwarded' \/ c = apiClients'
      BY <1>4, <3>1 DEF HeadStep, Known
    <3>2. CASE c = registrant'
      <4>1. 0 \notin Conn
        BY BoundAssumption DEF Conn
      <4> QED BY <1>4, <2>1, <3>2, <4>1 DEF HeadStep, Known
    <3>3. CASE \E i \in DOMAIN gossiper' : FromClient(gossiper'[i]) /\ gossiper'[i].conn = c
      BY <2>1, <3>3 DEF Known
    <3> QED BY <2>2, <3>1, <3>2, <3>3
  <2> QED BY <1>2, <2>2
<1>5. CASE ServeStep
  <2>1. \A c \in Conn : c \in Known' => c \in Known \/ c = apiClients'
    BY <1>1, <1>5 DEF ServeStep, Known
  <2>2. Known' \subseteq Known \cup MadeKnown(Head(inbox))
    BY <1>5, <2>1 DEF ServeStep, MadeKnown, Known
  <2> QED BY <1>5, <2>2
<1>6. CASE RequestStep
  <2> DEFINE m == [conn |-> Head(inbox).conn, request |-> Head(inbox).request]
  <2>1. /\ apiClients \in Conn /\ Head(inbox).conn = apiClients
        /\ m \in GossiperMessage /\ m.conn = apiClients
    BY <1>6, RequestIsServed, GossiperMessages
  <2>2. gossiper' = Append(gossiper, m)
    BY <1>6 DEF RequestStep
  <2> HIDE DEF m
  <2>3. \A i \in DOMAIN gossiper' :
            (i \in DOMAIN gossiper /\ gossiper'[i] = gossiper[i]) \/ gossiper'[i] = m
    BY <1>0, <2>1, <2>2, AfterAppend
  <2>4. /\ apiClients' = apiClients /\ registrant' = registrant
        /\ forwarded' \subseteq forwarded \cup {apiClients}
    BY <1>6, <2>1 DEF RequestStep
  <2>5. ASSUME NEW c \in Conn,
               \/ c \in forwarded' \/ c = apiClients' \/ c = registrant'
               \/ \E i \in DOMAIN gossiper' : FromClient(gossiper'[i]) /\ gossiper'[i].conn = c
        PROVE  c \in Known
    BY <2>1, <2>3, <2>4, <2>5 DEF Known
  <2> QED BY <1>2, <2>5
<1>7. CASE EndStep
  <2> DEFINE m == [kind |-> "Unnotify"]
  <2>1. m \in GossiperMessage /\ ~FromClient(m)
    BY GossiperMessages
  <2>2. gossiper' = Append(gossiper, m)
    BY <1>7 DEF EndStep
  <2> HIDE DEF m
  <2>3. \A i \in DOMAIN gossiper' :
            (i \in DOMAIN gossiper /\ gossiper'[i] = gossiper[i]) \/ gossiper'[i] = m
    BY <1>0, <2>1, <2>2, AfterAppend
  <2>4. apiClients' \notin Conn /\ registrant' = registrant /\ forwarded' = forwarded
    BY <1>7, BoundAssumption DEF EndStep, Conn
  <2>5. ASSUME NEW c \in Conn,
               \/ c \in forwarded' \/ c = apiClients' \/ c = registrant'
               \/ \E i \in DOMAIN gossiper' : FromClient(gossiper'[i]) /\ gossiper'[i].conn = c
        PROVE  c \in Known
    BY <2>1, <2>3, <2>4, <2>5 DEF Known
  <2> QED BY <1>2, <2>5
<1> QED
  BY <1>3, <1>4, <1>5, <1>6, <1>7, ControllersMove

LEMMA ArrivalsInit == Init => Arrivals
<1> SUFFICES ASSUME Init PROVE Arrivals
  OBVIOUS
<1>0. ASSUME NEW c \in Conn PROVE c \notin Known
  <2>1. c \notin forwarded /\ c # apiClients /\ c # registrant /\ DOMAIN gossiper = {}
    BY BoundAssumption DEF Init, Conn
  <2>2. \A id \in ID, item \in Pointer : ~Notified(c, id, item)
    BY DEF Init, Notified
  <2> QED BY <2>1, <2>2 DEF Known
<1>1. Known = {}
  BY <1>0 DEF Known
<1> QED
  BY <1>1 DEF Init, Arrivals, ArrivalsIn

LEMMA ArrivalsNext == Typed /\ Served /\ Arrivals /\ [Next]_vars => Arrivals'
<1> SUFFICES ASSUME Typed, Served, Arrivals, [Next]_vars PROVE Arrivals'
  OBVIOUS
<1>0. /\ inbox \in Seq(CentralMessage) /\ current \in Nat
      /\ Known \in SUBSET Nat /\ ArrivalsIn(inbox, current, Known)
  BY BoundAssumption DEF Typed, TypeOK, Arrivals, Known, Conn
<1>1. CASE ServeStep /\ Known' \subseteq Known \cup MadeKnown(Head(inbox))
  <2>1. inbox # <<>> /\ inbox' = Tail(inbox) /\ current' = current
    BY <1>1 DEF ServeStep
  <2>2. ArrivalsIn(inbox', current', Known \cup MadeKnown(Head(inbox)))
    BY <1>0, <2>1, ArrivalsWithout
  <2>3. ArrivalsIn(inbox', current', Known')
    BY <1>1, <2>2, ArrivalsFewer
  <2> QED BY <2>3 DEF Arrivals
<1>2. CASE Known' \subseteq Known
  <2>1. ASSUME ArrivalsIn(inbox', current', Known) PROVE Arrivals'
    <3>1. ArrivalsIn(inbox', current', Known')
      BY <1>2, <2>1, ArrivalsFewer
    <3> QED BY <3>1 DEF Arrivals
  <2>2. CASE UNCHANGED <<inbox, current>>
    BY <1>0, <2>1, <2>2
  <2>3. CASE inbox # <<>> /\ inbox' = Tail(inbox) /\ UNCHANGED current
    <3>1. ArrivalsIn(inbox', current', Known \cup MadeKnown(Head(inbox)))
      BY <1>0, <2>3, ArrivalsWithout
    <3>2. ArrivalsIn(inbox', current', Known)
      BY <3>1, ArrivalsFewer
    <3> QED BY <2>1, <3>2
  <2>4. ASSUME NEW m \in CentralMessage, inbox' = Append(inbox, m),
               \/ m.kind # "EndpointCreated" /\ UNCHANGED current
               \/ m.kind = "EndpointCreated" /\ m.conn = current + 1 /\ current' = current + 1
        PROVE  Arrivals'
    <3>1. ArrivalsIn(inbox', current', Known)
      BY <1>0, <2>4, ArrivalsWith
    <3> QED BY <2>1, <3>1
  <2> QED BY <2>2, <2>3, <2>4, InboxMoves DEF InboxStep, Tells
<1> QED
  BY <1>1, <1>2, KnownStep

Ordered == InTurn(gossiper, registrant, apiClients)

LEMMA OrderedInit == Init => Ordered
BY BoundAssumption DEF Init, Ordered, InTurn, Heard

LEMMA OrderedNext == Typed /\ Served /\ Arrivals /\ Ordered /\ [Next]_vars => Ordered'
<1> SUFFICES ASSUME Typed, Served, Arrivals, Ordered, [Next]_vars PROVE Ordered'
  OBVIOUS
<1> DEFINE g == gossiper
           H(i) == Heard(gossiper, registrant, apiClients, i)
<1>0. /\ g \in Seq(GossiperMessage) /\ registrant \in 0..MaxConns /\ apiClients \in 0..MaxConns
      /\ InTurn(g, registrant, apiClients) /\ 0 \notin Conn
  BY BoundAssumption DEF Typed, TypeOK, Ordered, Conn
<1>1. CASE UNCHANGED <<apiClients, gossiper, registrant, forwarded>>
  BY <1>0, <1>1 DEF Ordered
<1>2. CASE HeadStep
  <2> DEFINE m == Head(g)
  <2>1. /\ 1 \in DOMAIN g /\ m = g[1] /\ m \in GossiperMessage /\ g # <<>> /\ g' = Tail(g)
        /\ Len(g) \in Nat /\ Len(g) >= 1
    BY <1>0, <1>2 DEF HeadStep
  <2>2. registrant' \in {0, H(1)}
    <3>1. CASE ~FromClient(m)
      BY <1>2, <3>1 DEF HeadStep
    <3>2. CASE FromClient(m)
      <4>1. H(1) = m.conn /\ m.conn # 0
        BY <1>0, <2>1, <3>2, GossiperMessages DEF Heard
      <4>2. CASE registrant = 0
        BY <1>2, <3>2, <4>1, <4>2 DEF HeadStep
      <4>3. CASE registrant # 0
        <5>1. H(0) = registrant /\ 0 \in 0..(Len(g) + 1) /\ 1 \in 0..(Len(g) + 1) /\ 0 < 1
          BY <2>1 DEF Heard
        <5>2. ~Ended(g, 0, 1)
          BY <1>0 DEF Ended
        <5>3. H(0) = H(1)
          BY <1>0, <4>1, <4>3, <5>1, <5>2 DEF InTurn
        <5>4. registrant' = registrant
          BY <1>2, <3>2, <4>3 DEF HeadStep
        <5> QED BY <5>1, <5>3, <5>4
      <4> QED BY <4>2, <4>3
    <3> QED BY <3>1, <3>2
  <2>3. InTurn(Tail(g), registrant', apiClients)
    BY <1>0, <2>1, <2>2, InTurnWithout
  <2> QED BY <1>2, <2>1, <2>3 DEF HeadStep, Ordered
<1>3. CASE ServeStep
  <2> DEFINE c == Head(inbox).conn
  <2>1. /\ 1 \in DOMAIN inbox /\ Head(inbox) = inbox[1] /\ inbox[1] \in CentralMessage
    BY <1>3 DEF ServeStep, Typed, TypeOK
  <2>2. c \in 1..MaxConns /\ \A k \in Known : k < c
    BY <1>3, <2>1, CentralMessages DEF ServeStep, Conn, Arrivals, ArrivalsIn
  <2> HIDE DEF c
  <2>3. ASSUME NEW i \in 0..Len(g) PROVE Heard(g, registrant, 0, i) < c
    <3>0. i \in 0..(Len(g) + 1) /\ i <= Len(g) /\ 0 \in 0..MaxConns
      BY <1>0, BoundAssumption
    <3>1. Heard(g, registrant, 0, i) \in 0..MaxConns
      BY <1>0, <3>0, HeardType
    <3>2. Heard(g, registrant, 0, i) \in Known \cup {0}
      <4>1. CASE i = 0
        BY <1>0, <4>1 DEF Heard, Known, Conn
      <4>2. CASE i # 0
        <5>1. i \in DOMAIN g
          BY <1>0, <4>2
        <5>2. CASE FromClient(g[i])
          <6>1. Heard(g, registrant, 0, i) = g[i].conn /\ g[i].conn \in Conn
            BY <1>0, <4>2, <5>1, <5>2, GossiperMessages DEF Heard
          <6> QED BY <5>1, <5>2, <6>1 DEF Known
        <5>3. CASE ~FromClient(g[i])
          BY <4>2, <5>1, <5>3 DEF Heard
        <5> QED BY <5>2, <5>3
      <4> QED BY <4>1, <4>2
    <3> QED BY <2>2, <3>2
  <2>4. InTurn(g, registrant, c)
    BY <1>0, <1>3, <2>2, <2>3, InTurnAnew DEF ServeStep
  <2> QED BY <1>3, <2>4 DEF ServeStep, Ordered, c
<1>4. CASE RequestStep
  <2> DEFINE m == [conn |-> Head(inbox).conn, request |-> Head(inbox).request]
  <2>1. /\ apiClients \in 1..MaxConns
        /\ m \in GossiperMessage /\ FromClient(m) /\ m.conn = apiClients
    BY <1>4, RequestIsServed, GossiperMessages DEF Conn
  <2>2. g' = Append(g, m)
    BY <1>4 DEF RequestStep
  <2> HIDE DEF m
  <2>3. InTurn(g', registrant, apiClients)
    BY <1>0, <2>1, <2>2, InTurnWithRequest
  <2> QED BY <1>4, <2>3 DEF RequestStep, Ordered
<1>5. CASE EndStep
  <2> DEFINE m == [kind |-> "Unnotify"]
  <2>1. m \in GossiperMessage /\ ~FromClient(m) /\ apiClients \in 1..MaxConns
    BY <1>0, <1>5, GossiperMessages DEF EndStep
  <2>2. g' = Append(g, m)
    BY <1>5 DEF EndStep
  <2> HIDE DEF m
  <2>3. InTurn(g', registrant, 0)
    BY <1>0, <2>1, <2>2, InTurnWithEnd
  <2> QED BY <1>5, <2>3 DEF EndStep, Ordered
<1> QED
  BY <1>1, <1>2, <1>3, <1>4, <1>5, ControllersMove

-----------------------------------------------------------------------------
(* The registration *)

Decides(m) == ~FromClient(m) \/ m.request.kind = "Notify"

\* WillBeRegistered for a queue g and what is registered now.
WillBe(g, reg) ==
    \/ (\A i \in DOMAIN g : ~Decides(g[i])) /\ reg # 0
    \/ \E i \in DOMAIN g : /\ Decides(g[i]) /\ FromClient(g[i])
                           /\ \A j \in DOMAIN g : Decides(g[j]) => j <= i

LEMMA WillBeWith ==
    ASSUME NEW g \in Seq(GossiperMessage), NEW m \in GossiperMessage, NEW reg
    PROVE  WillBe(Append(g, m), reg) <=> IF Decides(m) THEN FromClient(m) ELSE WillBe(g, reg)
<1> DEFINE r == Append(g, m)
           n == Len(g) + 1
<1>1. /\ DOMAIN g \subseteq DOMAIN r
      /\ \A i \in DOMAIN g : r[i] = g[i] /\ i \in Nat /\ i < n /\ i <= n
      /\ n \in DOMAIN r /\ n \in Nat /\ r[n] = m
      /\ \A i \in DOMAIN r : i \in DOMAIN g \/ i = n
  BY AfterAppend
<1> HIDE DEF r, n
<1>2. CASE Decides(m)
  <2>1. \A i \in DOMAIN r : (\A j \in DOMAIN r : Decides(r[j]) => j <= i) => i = n
    BY <1>1, <1>2
  <2>2. \A j \in DOMAIN r : j <= n
    BY <1>1
  <2>3. WillBe(r, reg) <=> FromClient(m)
    BY <1>1, <1>2, <2>1, <2>2 DEF WillBe
  <2> QED BY <1>2, <2>3 DEF r
<1>3. CASE ~Decides(m)
  <2>1. \A i \in DOMAIN r : Decides(r[i]) => i \in DOMAIN g
    BY <1>1, <1>3
  <2>2. WillBe(r, reg) <=> WillBe(g, reg)
    BY <1>1, <2>1 DEF WillBe
  <2> QED BY <1>3, <2>2 DEF r
<1> QED
  BY <1>2, <1>3

LEMMA WillBeWithout ==
    ASSUME NEW g \in Seq(GossiperMessage), g # <<>>, NEW reg, NEW reg1,
           Decides(Head(g)) => (reg1 # 0 <=> FromClient(Head(g))),
           ~Decides(Head(g)) => reg1 = reg
    PROVE  WillBe(Tail(g), reg1) <=> WillBe(g, reg)
<1> DEFINE t == Tail(g)
           m == Head(g)
<1>1. /\ 1 \in DOMAIN g /\ m = g[1]
      /\ \A i \in DOMAIN t : i \in Nat \ {0} /\ i + 1 \in DOMAIN g /\ t[i] = g[i + 1]
      /\ \A i \in DOMAIN g : i \in Nat \ {0}
                             /\ (i = 1 \/ (i - 1 \in DOMAIN t /\ g[i] = t[i - 1]))
  BY AfterTail
<1>0. /\ Decides(m) => (reg1 # 0 <=> FromClient(m))
      /\ ~Decides(m) => reg1 = reg
  OBVIOUS
<1> HIDE DEF t, m
<1>2. ASSUME NEW i \in DOMAIN t, Decides(t[i]), FromClient(t[i]),
             \A j \in DOMAIN t : Decides(t[j]) => j <= i
      PROVE  WillBe(g, reg)
  <2>1. i + 1 \in DOMAIN g /\ t[i] = g[i + 1] /\ i \in Nat \ {0}
    BY <1>1
  <2>2. \A j \in DOMAIN g : Decides(g[j]) => j <= i + 1
    <3> SUFFICES ASSUME NEW j \in DOMAIN g, Decides(g[j]), j # 1 PROVE j <= i + 1
      BY <2>1
    <3>1. j - 1 \in DOMAIN t /\ Decides(t[j - 1]) /\ j \in Nat
      BY <1>1
    <3>2. j - 1 <= i
      BY <1>2, <3>1
    <3> QED BY <2>1, <3>1, <3>2
  <2> QED BY <1>2, <2>1, <2>2 DEF WillBe
<1>3. ASSUME NEW i \in DOMAIN g, i # 1, Decides(g[i]), FromClient(g[i]),
             \A j \in DOMAIN g : Decides(g[j]) => j <= i
      PROVE  WillBe(t, reg1)
  <2>1. i - 1 \in DOMAIN t /\ g[i] = t[i - 1] /\ i \in Nat \ {0}
    BY <1>1, <1>3
  <2>2. \A j \in DOMAIN t : Decides(t[j]) => j <= i - 1
    <3> SUFFICES ASSUME NEW j \in DOMAIN t, Decides(t[j]) PROVE j <= i - 1
      OBVIOUS
    <3>1. j \in Nat /\ j + 1 \in DOMAIN g /\ Decides(g[j + 1])
      BY <1>1
    <3>2. j + 1 <= i
      BY <1>3, <3>1
    <3> QED BY <2>1, <3>1, <3>2
  <2> QED BY <1>3, <2>1, <2>2 DEF WillBe
<1>4. CASE \A i \in DOMAIN t : ~Decides(t[i])
  <2>1. \A i \in DOMAIN g : Decides(g[i]) => i = 1
    BY <1>1, <1>4
  <2>2. WillBe(t, reg1) <=> reg1 # 0
    BY <1>4 DEF WillBe
  <2>3. CASE Decides(m)
    <3>1. WillBe(g, reg) <=> FromClient(m)
      BY <1>1, <2>1, <2>3 DEF WillBe
    <3> QED BY <1>0, <2>2, <2>3, <3>1 DEF t
  <2>4. CASE ~Decides(m)
    <3>1. \A i \in DOMAIN g : ~Decides(g[i])
      BY <1>1, <2>1, <2>4
    <3>2. WillBe(g, reg) <=> reg # 0
      BY <3>1 DEF WillBe
    <3> QED BY <1>0, <2>2, <2>4, <3>2 DEF t
  <2> QED BY <2>3, <2>4
<1>5. CASE ~\A i \in DOMAIN t : ~Decides(t[i])
  <2>1. PICK k \in DOMAIN t : Decides(t[k])
    BY <1>5
  <2>2. k + 1 \in DOMAIN g /\ Decides(g[k + 1]) /\ ~(k + 1 <= 1)
    BY <1>1, <2>1
  <2>3. WillBe(g, reg) => WillBe(t, reg1)
    BY <1>3, <2>2 DEF WillBe
  <2>4. WillBe(t, reg1) => WillBe(g, reg)
    BY <1>2, <2>1 DEF WillBe
  <2> QED BY <2>3, <2>4 DEF t
<1> QED
  BY <1>4, <1>5

Follows == WillBe(gossiper, registrant) <=> apiClients # 0 /\ apiClients \in forwarded

LEMMA FollowsInit == Init => Follows
BY DEF Init, Follows, WillBe

LEMMA FollowsNext == Typed /\ Served /\ Arrivals /\ Follows /\ [Next]_vars => Follows'
<1> SUFFICES ASSUME Typed, Served, Arrivals, Follows, [Next]_vars PROVE Follows'
  OBVIOUS
<1>0. gossiper \in Seq(GossiperMessage) /\ 0 \notin Conn
  BY BoundAssumption DEF Typed, TypeOK, Conn
<1>1. CASE UNCHANGED <<apiClients, gossiper, registrant, forwarded>>
  BY <1>1 DEF Follows
<1>2. CASE HeadStep
  <2> DEFINE m == Head(gossiper)
  <2>1. gossiper # <<>> /\ gossiper' = Tail(gossiper) /\ m \in GossiperMessage
    BY <1>0, <1>2 DEF HeadStep
  <2>2. FromClient(m) => m.conn # 0
    BY <1>0, <2>1, GossiperMessages
  <2>3. /\ Decides(m) => (registrant' # 0 <=> FromClient(m))
        /\ ~Decides(m) => registrant' = registrant
    BY <1>2, <2>2 DEF HeadStep, Decides
  <2>4. WillBe(gossiper', registrant') <=> WillBe(gossiper, registrant)
    BY <1>0, <2>1, <2>3, WillBeWithout
  <2> QED BY <1>2, <2>4 DEF HeadStep, Follows
<1>3. CASE ServeStep
  <2> DEFINE c == Head(inbox).conn
  <2>1. /\ 1 \in DOMAIN inbox /\ Head(inbox) = inbox[1] /\ inbox[1] \in CentralMessage
    BY <1>3 DEF ServeStep, Typed, TypeOK
  <2>2. c \in Conn /\ \A k \in Known : k < c
    BY <1>3, <2>1, CentralMessages DEF ServeStep, Arrivals, ArrivalsIn
  <2>3. c \notin forwarded
    BY <2>2, BoundAssumption DEF Known, Conn
  <2> HIDE DEF c
  <2>4. ~WillBe(gossiper, registrant)
    BY <1>3 DEF ServeStep, Follows
  <2> QED BY <1>3, <2>3, <2>4 DEF ServeStep, Follows, c
<1>4. CASE RequestStep
  <2> DEFINE m == [conn |-> Head(inbox).conn, request |-> Head(inbox).request]
  <2>1. /\ apiClients \in Conn /\ apiClients # 0 /\ Head(inbox).conn = apiClients
        /\ m \in GossiperMessage /\ FromClient(m) /\ m.request = Head(inbox).request
    BY <1>0, <1>4, RequestIsServed, GossiperMessages
  <2>2. /\ gossiper' = Append(gossiper, m)
        /\ forwarded' = IF m.request.kind = "Notify"
                        THEN forwarded \cup {apiClients} ELSE forwarded
        /\ UNCHANGED <<apiClients, registrant>>
    BY <1>4, <2>1 DEF RequestStep
  <2> HIDE DEF m
  <2>3. WillBe(gossiper', registrant) <=>
            IF Decides(m) THEN FromClient(m) ELSE WillBe(gossiper, registrant)
    BY <1>0, <2>1, <2>2, WillBeWith
  <2>4. CASE m.request.kind = "Notify"
    BY <2>1, <2>2, <2>3, <2>4 DEF Decides, Follows
  <2>5. CASE m.request.kind # "Notify"
    BY <2>1, <2>2, <2>3, <2>5 DEF Decides, Follows
  <2> QED BY <2>4, <2>5
<1>5. CASE EndStep
  <2> DEFINE m == [kind |-> "Unnotify"]
  <2>1. m \in GossiperMessage /\ ~FromClient(m)
    BY GossiperMessages
  <2>2. gossiper' = Append(gossiper, m) /\ apiClients' = 0 /\ UNCHANGED registrant
    BY <1>5 DEF EndStep
  <2> HIDE DEF m
  <2>3. ~WillBe(gossiper', registrant)
    BY <1>0, <2>1, <2>2, WillBeWith DEF Decides
  <2> QED BY <2>2, <2>3 DEF Follows
<1> QED
  BY <1>1, <1>2, <1>3, <1>4, <1>5, ControllersMove

-----------------------------------------------------------------------------

\* The inductive invariant of the path from a client to the Gossiper.
PathInv == Typed /\ Served /\ Arrivals /\ Ordered /\ Follows

LEMMA PathAlways == Spec => []PathInv
<1>1. Init => PathInv
  BY InitTyped, ServedInit, ArrivalsInit, OrderedInit, FollowsInit DEF PathInv
<1>2. PathInv /\ [Next]_vars => PathInv'
  BY NextTyped, ServedNext, ArrivalsNext, OrderedNext, FollowsNext DEF PathInv
<1> QED
  BY <1>1, <1>2, PTL DEF Spec

\* The address is registered, once the Gossiper is up to date, if and only if the
\* connection served now has asked for it, however often clients reconnect.
THEOREM RegistrationStaysRight == Spec => []RegistrationFollowsConnection
<1>1. PathInv => RegistrationFollowsConnection
  <2> SUFFICES ASSUME PathInv
               PROVE  WillBeRegistered <=> apiClients # 0 /\ apiClients \in forwarded
    BY DEF RegistrationFollowsConnection
  <2>1. registered <=> registrant # 0
    BY DEF PathInv, Typed
  <2>2. WillBeRegistered <=> WillBe(gossiper, registrant)
    BY <2>1 DEF WillBeRegistered, WillBe, Decides, FromClient
  <2> QED BY <2>2 DEF PathInv, Follows
<1> QED
  BY <1>1, PathAlways, PTL

-----------------------------------------------------------------------------
(* What a client validates *)

\* A validation names an ID under which its connection was shown an item.
AskedBy(c, r, all) == r.kind = "Validation" => \E n \in all[c] : n.ID = r.ID

Asking ==
    /\ \A c \in Conn : \A i \in DOMAIN stream[c] : AskedBy(c, stream[c][i][1], shown)
    /\ \A i \in DOMAIN inbox :
          inbox[i].kind = "IncomingAPI" => AskedBy(inbox[i].conn, inbox[i].request, shown)
    /\ \A i \in DOMAIN gossiper :
          FromClient(gossiper[i]) => AskedBy(gossiper[i].conn, gossiper[i].request, shown)

\* All that has been said of a connection of which a new one has taken the place.
Past(c) ==
    /\ c # registrant
    /\ \A i \in 1..(Len(gossiper) + 1) :
          LET h == Heard(gossiper, registrant, apiClients, i) IN h # 0 => c < h

\* What a connection was told of is what the validation map holds for it, or it is
\* past: neither can it be registered nor can it validate anything any more.
Noted ==
    /\ nextAvailableID <= items
    /\ \A c \in Conn, id \in ID, item \in Pointer :
          Notified(c, id, item) =>
              \/ /\ registrant = c
                 /\ items <= IDSpace /\ id \in DOMAIN validationMap => validationMap[id] = item
                 /\ id < nextAvailableID \/ items >= IDSpace
              \/ Past(c)

LEMMA ShownStays ==
    ASSUME Typed, [Next]_vars
    PROVE  \A c \in Conn : shown[c] \subseteq shown'[c]
BY NotesMove DEF NotesStep, Typed

LEMMA AskingInit == Init => Asking
BY DEF Init, Asking

LEMMA AskingNext == Typed /\ Served /\ Asking /\ [Next]_vars => Asking'
<1> SUFFICES ASSUME Typed, Served, Asking, [Next]_vars PROVE Asking'
  OBVIOUS
<1> USE DEF clientVars, endpointVars, loopVars, gossiperVars
<1>0. /\ inbox \in Seq(CentralMessage) /\ gossiper \in Seq(GossiperMessage)
      /\ stream \in [Conn -> Seq(Request \X {1, 2})]
  BY DEF Typed, TypeOK
<1>1. \A c \in Conn : \A r : AskedBy(c, r, shown) => AskedBy(c, r, shown')
  BY ShownStays DEF AskedBy
<1>2. \A c \in Conn : \A i \in DOMAIN stream'[c] : AskedBy(c, stream'[c][i][1], shown)
  <2>1. CASE UNCHANGED stream
    BY <2>1 DEF Asking
  <2>2. CASE ClientSends
    <3>1. PICK r \in Request :
              /\ r.kind = "Validation" => \E n \in shown[current] : n.ID = r.ID
              /\ stream' = [stream EXCEPT ![current] = @ \o <<<<r, 1>>, <<r, 2>>>>]
      BY <2>2 DEF ClientSends
    <3>2. current \in Conn
      BY <2>2 DEF ClientSends, Open
    <3>3. AskedBy(current, r, shown)
      BY <3>1 DEF AskedBy
    <3> DEFINE s == stream[current]
               s1 == s \o <<<<r, 1>>, <<r, 2>>>>
    <3>4. s \in Seq(Request \X {1, 2}) /\ Len(s) \in Nat
      BY <1>0, <3>2
    <3>5. ASSUME NEW i \in DOMAIN s1
          PROVE  (i \in DOMAIN s /\ s1[i] = s[i]) \/ s1[i] = <<r, 1>> \/ s1[i] = <<r, 2>>
      <4>1. i \in 1..(Len(s) + 2)
        BY <3>4
      <4>2. CASE i \in 1..Len(s)
        BY <3>4, <4>2
      <4>3. CASE i = Len(s) + 1
        BY <3>4, <4>3
      <4>4. CASE i = Len(s) + 2
        BY <3>4, <4>4
      <4> QED BY <3>4, <4>1, <4>2, <4>3, <4>4
    <3>6. \A i \in DOMAIN s1 : AskedBy(current, s1[i][1], shown)
      <4> SUFFICES ASSUME NEW i \in DOMAIN s1 PROVE AskedBy(current, s1[i][1], shown)
        OBVIOUS
      <4>1. CASE i \in DOMAIN s /\ s1[i] = s[i]
        BY <3>2, <4>1 DEF Asking
      <4>2. CASE s1[i] = <<r, 1>> \/ s1[i] = <<r, 2>>
        <5>1. s1[i][1] = r
          BY <4>2
        <5> QED BY <3>3, <5>1
      <4> QED BY <3>5, <4>1, <4>2
    <3>7. stream'[current] = s1 /\ \A c \in Conn : c # current => stream'[c] = stream[c]
      BY <1>0, <3>1, <3>2
    <3> HIDE DEF s, s1
    <3> QED BY <3>6, <3>7 DEF Asking
  <2>3. ASSUME NEW c \in Conn, ReaderReads(c)
        PROVE  \A a \in Conn : \A i \in DOMAIN stream'[a] : AskedBy(a, stream'[a][i][1], shown)
    <3>1. PICK chunk \in Chunks(c) :
              stream' = [stream EXCEPT ![c] = SubSeq(@, Len(chunk) + 1, Len(@))]
      BY <2>3 DEF ReaderReads
    <3>2. Len(chunk) \in Nat /\ Len(chunk) <= Len(stream[c]) /\ stream[c] \in Seq(Request \X {1, 2})
      <4>1. chunk \in Seq(Request \X {1, 2}) /\ Len(chunk) <= Len(stream[c])
        BY ChunksOfStream
      <4>2. stream[c] \in Seq(Request \X {1, 2})
        BY DEF Typed
      <4> QED BY <4>1, <4>2
    <3>3. \A i \in DOMAIN stream'[c] :
              /\ i + Len(chunk) \in DOMAIN stream[c]
              /\ stream'[c][i] = stream[c][i + Len(chunk)]
      <4>1. stream'[c] = SubSeq(stream[c], Len(chunk) + 1, Len(stream[c]))
        BY <1>0, <3>1
      <4> QED BY <3>2, <4>1
    <3>4. \A a \in Conn : a # c => stream'[a] = stream[a]
      BY <1>0, <3>1
    <3> QED BY <3>3, <3>4 DEF Asking
  <2>4. UNCHANGED stream \/ ClientSends \/ \E c \in Conn : ReaderReads(c)
    BY DEF Next, vars, ClientConnects, ClientLeaves, Central, APIEndpointCreatedHandler,
           APIEndpointClosed, IncomingAPIHandler, GossipNotificationHandler, CentralIgnores,
           CloseHandler, UpdateRound, GossiperHandles, Reader, Writer, ReaderCloses,
           ReaderCrashes, WriterWrites, WriterCloses, Ends
  <2> QED BY <2>1, <2>2, <2>3, <2>4
<1>3. \A i \in DOMAIN inbox' :
          inbox'[i].kind = "IncomingAPI" => AskedBy(inbox'[i].conn, inbox'[i].request, shown)
  <2> DEFINE Fine(m) == m.kind = "IncomingAPI" => AskedBy(m.conn, m.request, shown)
  <2>0. \A i \in DOMAIN inbox : Fine(inbox[i])
    BY DEF Asking
  <2>1. CASE UNCHANGED inbox
    BY <2>0, <2>1
  <2>2. CASE inbox # <<>> /\ inbox' = Tail(inbox)
    <3>1. \A i \in DOMAIN inbox' : i + 1 \in DOMAIN inbox /\ inbox'[i] = inbox[i + 1]
      BY <1>0, <2>2, AfterTail
    <3> QED BY <2>0, <3>1
  <2>3. ASSUME NEW m \in CentralMessage, inbox' = Append(inbox, m), Fine(m)
        PROVE  \A i \in DOMAIN inbox' : Fine(inbox'[i])
    <3>1. \A i \in DOMAIN inbox' :
              (i \in DOMAIN inbox /\ inbox'[i] = inbox[i]) \/ inbox'[i] = m
      BY <1>0, <2>3, AfterAppend
    <3> QED BY <2>0, <2>3, <3>1
  <2>4. ASSUME NEW c \in Conn, ReaderReads(c)
        PROVE  \A i \in DOMAIN inbox' : Fine(inbox'[i])
    <3>1. PICK chunk \in Chunks(c) :
              IF IsMessage(chunk)
              THEN SendCentral(Incoming(c, chunk[1][1]))
              ELSE UNCHANGED inbox
      BY <2>4 DEF ReaderReads
    <3> DEFINE r == chunk[1][1]
               m == Incoming(c, r)
    <3>2. /\ 1 \in DOMAIN chunk /\ chunk[1] = stream[c][1] /\ 1 \in DOMAIN stream[c]
          /\ r \in Request
      BY <1>0, ChunksOfStream
    <3>3. AskedBy(c, r, shown)
      BY <3>2 DEF Asking
    <3>4. m \in CentralMessage /\ m.conn = c /\ m.request = r
      BY <3>2, MessagesBuilt
    <3>5. inbox' = inbox \/ inbox' = Append(inbox, m)
      BY <3>1 DEF SendCentral
    <3> HIDE DEF r, m
    <3>6. Fine(m)
      BY <3>3, <3>4
    <3> HIDE DEF Fine
    <3> QED BY <2>0, <2>3, <3>4, <3>5, <3>6
  <2>5. InboxStep
    BY InboxMoves
  <2> HIDE DEF Fine
  <2>6. ASSUME NEW m \in CentralMessage, m.kind # "IncomingAPI" PROVE Fine(m)
    BY <2>6 DEF Fine
  <2>7. ASSUME NEW m \in CentralMessage, inbox' = Append(inbox, m), m.kind = "IncomingAPI"
        PROVE  \E c \in Conn : ReaderReads(c)
    <3>1. inbox' # inbox /\ inbox'[Len(inbox) + 1] = m /\ Len(inbox') = Len(inbox) + 1
      BY <1>0, <2>7
    <3>2. CASE ClientConnects
      BY <1>0, <2>7, <3>1, <3>2 DEF ClientConnects, SendCentral
    <3>3. ASSUME NEW c \in Conn, NEW h \in Half, NEW e \in BOOLEAN, Ends(c, h, e) PROVE FALSE
      BY <1>0, <2>7, <3>1, <3>3 DEF Ends, SendCentral
    <3>4. ASSUME NEW p \in Pointer, NotifyClients(p) PROVE FALSE
      BY <1>0, <2>7, <3>1, <3>4 DEF NotifyClients, SendCentral
    <3>5. CASE Central
      <4>1. inbox # <<>> /\ inbox' = Tail(inbox)
        BY <3>5 DEF Central, APIEndpointCreatedHandler, APIEndpointClosed, IncomingAPIHandler,
                    GossipNotificationHandler, CentralIgnores, CentralTakes
      <4>2. Len(inbox') = Len(inbox) - 1 /\ Len(inbox) \in Nat
        BY <1>0, <4>1
      <4> QED BY <3>1, <4>2
    <3>6. \A c \in Conn : ReaderCloses(c) \/ ReaderCrashes(c) \/ WriterCloses(c)
                            => \E h \in Half, e \in BOOLEAN : Ends(c, h, e)
      BY DEF ReaderCloses, ReaderCrashes, WriterCloses, Half
    <3>7. \/ UNCHANGED inbox \/ ClientConnects \/ Central
          \/ \E p \in Pointer : NotifyClients(p)
          \/ \E c \in Conn : \/ ReaderReads(c)
                             \/ ReaderCloses(c) \/ ReaderCrashes(c) \/ WriterCloses(c)
      BY RoundNotifies DEF Next, vars, ClientSends, ClientLeaves, CloseHandler, Reader, Writer,
             WriterWrites
    <3> QED BY <3>1, <3>2, <3>3, <3>4, <3>5, <3>6, <3>7
  <2>8. ASSUME NEW m \in CentralMessage, inbox' = Append(inbox, m)
        PROVE  \A i \in DOMAIN inbox' : Fine(inbox'[i])
    BY <2>3, <2>4, <2>6, <2>7, <2>8
  <2>9. \A i \in DOMAIN inbox' : Fine(inbox'[i])
    BY <2>1, <2>2, <2>5, <2>8 DEF InboxStep, Fine
  <2> QED BY <2>9 DEF Fine
<1>4. \A i \in DOMAIN gossiper' :
          FromClient(gossiper'[i]) => AskedBy(gossiper'[i].conn, gossiper'[i].request, shown)
  <2> DEFINE Fine(m) == FromClient(m) => AskedBy(m.conn, m.request, shown)
  <2>0. \A i \in DOMAIN gossiper : Fine(gossiper[i])
    BY DEF Asking
  <2>1. CASE UNCHANGED gossiper
    BY <2>0, <2>1
  <2>2. CASE gossiper # <<>> /\ gossiper' = Tail(gossiper)
    <3>1. \A i \in DOMAIN gossiper' : i + 1 \in DOMAIN gossiper /\ gossiper'[i] = gossiper[i + 1]
      BY <1>0, <2>2, AfterTail
    <3> QED BY <2>0, <3>1
  <2>3. ASSUME NEW m \in GossiperMessage, gossiper' = Append(gossiper, m), Fine(m)
        PROVE  \A i \in DOMAIN gossiper' : Fine(gossiper'[i])
    <3>1. \A i \in DOMAIN gossiper' :
              (i \in DOMAIN gossiper /\ gossiper'[i] = gossiper[i]) \/ gossiper'[i] = m
      BY <1>0, <2>3, AfterAppend
    <3> QED BY <2>0, <2>3, <3>1
  <2>4. CASE EndStep
    <3> DEFINE u == [kind |-> "Unnotify"]
    <3>1. u \in GossiperMessage /\ ~FromClient(u) /\ gossiper' = Append(gossiper, u)
      BY <2>4, GossiperMessages DEF EndStep
    <3> HIDE DEF u
    <3> QED BY <2>3, <3>1
  <2>5. CASE RequestStep
    <3> DEFINE h == Head(inbox)
               m == [conn |-> h.conn, request |-> h.request]
    <3>1. 1 \in DOMAIN inbox /\ h = inbox[1] /\ h.kind = "IncomingAPI"
      BY <1>0, <2>5 DEF RequestStep
    <3>2. AskedBy(h.conn, h.request, shown)
      BY <3>1 DEF Asking
    <3>3. h.conn \in Conn /\ h.request \in Request
      BY <2>5, RequestIsServed
    <3> HIDE DEF h
    <3>4. m \in GossiperMessage /\ m.conn = h.conn /\ m.request = h.request
      BY <3>3, GossiperMessages
    <3>5. gossiper' = Append(gossiper, m)
      BY <2>5 DEF RequestStep, h
    <3> HIDE DEF m
    <3>6. Fine(m)
      BY <3>2, <3>4
    <3> HIDE DEF Fine
    <3>7. \A i \in DOMAIN gossiper' : Fine(gossiper'[i])
      BY <2>3, <3>4, <3>5, <3>6
    <3> QED BY <3>7 DEF Fine
  <2> QED BY <2>1, <2>2, <2>4, <2>5, ControllersMove DEF HeadStep, ServeStep
<1>5. /\ \A c \in Conn : \A i \in DOMAIN stream'[c] : AskedBy(c, stream'[c][i][1], shown')
      /\ \A i \in DOMAIN inbox' :
            inbox'[i].kind = "IncomingAPI" => AskedBy(inbox'[i].conn, inbox'[i].request, shown')
      /\ \A i \in DOMAIN gossiper' :
            FromClient(gossiper'[i]) => AskedBy(gossiper'[i].conn, gossiper'[i].request, shown')
  <2>1. inbox' \in Seq(CentralMessage) /\ gossiper' \in Seq(GossiperMessage)
    BY NextTyped DEF Typed, TypeOK
  <2>2. \A i \in DOMAIN inbox' : inbox'[i] \in CentralMessage
    BY <2>1
  <2>3. \A i \in DOMAIN gossiper' : gossiper'[i] \in GossiperMessage
    BY <2>1
  <2>4. \A i \in DOMAIN inbox' : inbox'[i].kind = "IncomingAPI" => inbox'[i].conn \in Conn
    BY <2>2, CentralMessages
  <2>5. \A i \in DOMAIN gossiper' : FromClient(gossiper'[i]) => gossiper'[i].conn \in Conn
    BY <2>3, GossiperMessages
  <2> QED BY <1>1, <1>2, <1>3, <1>4, <2>4, <2>5
<1> QED
  BY <1>5 DEF Asking

LEMMA PastStays ==
    ASSUME Typed, Served, Arrivals, Ordered, [Next]_vars, NEW c \in Known, Past(c)
    PROVE  Past(c)'
<1> DEFINE g == gossiper
           H(i) == Heard(gossiper, registrant, apiClients, i)
           H1(i) == Heard(gossiper', registrant', apiClients', i)
<1>0. /\ g \in Seq(GossiperMessage) /\ Len(g) \in Nat /\ DOMAIN g = 1..Len(g)
      /\ c \in Conn /\ 0 \notin Conn /\ c \in Nat /\ MaxConns \in Nat /\ c <= MaxConns
  <2>1. g \in Seq(GossiperMessage) /\ c \in Conn
    BY DEF Typed, TypeOK, Known
  <2>2. Len(g) \in Nat /\ DOMAIN g = 1..Len(g)
    BY <2>1
  <2>3. 0 \notin Conn /\ c \in Nat /\ MaxConns \in Nat /\ c <= MaxConns
    BY <2>1, BoundAssumption DEF Conn
  <2> QED BY <2>1, <2>2, <2>3
<1>1. c # registrant /\ \A i \in 1..(Len(g) + 1) : H(i) # 0 => c < H(i)
  BY DEF Past
<1>2. ASSUME c # registrant',
             \A i \in 1..(Len(g') + 1) : H1(i) # 0 => c < H1(i)
      PROVE  Past(c)'
  BY <1>2 DEF Past
<1>3. CASE UNCHANGED <<apiClients, gossiper, registrant, forwarded>>
  BY <1>1, <1>2, <1>3
<1>4. CASE HeadStep
  <2>1. /\ 1 \in DOMAIN g /\ Head(g) = g[1] /\ g' = Tail(g) /\ Len(g') = Len(g) - 1
        /\ DOMAIN g' = 1..Len(g')
        /\ \A i \in DOMAIN g' : i + 1 \in DOMAIN g /\ g'[i] = g[i + 1]
    BY <1>0, <1>4 DEF HeadStep
  <2>2. c # registrant'
    <3>1. FromClient(Head(g)) => H(1) = Head(g).conn /\ Head(g).conn \in Conn
      BY <1>0, <2>1, GossiperMessages DEF Heard
    <3>2. FromClient(Head(g)) => c < Head(g).conn
      BY <1>0, <1>1, <3>1
    <3>3. registrant' \in {0, registrant} \/ (FromClient(Head(g)) /\ registrant' = Head(g).conn)
      BY <1>4 DEF HeadStep
    <3> QED BY <1>0, <1>1, <3>1, <3>2, <3>3
  <2>3. ASSUME NEW i \in 1..(Len(g') + 1)
        PROVE  i + 1 \in 1..(Len(g) + 1) /\ H1(i) = H(i + 1)
    <3>1. i \in Nat \ {0} /\ i + 1 \in 1..(Len(g) + 1) /\ apiClients' = apiClients
      BY <1>0, <1>4, <2>1 DEF HeadStep
    <3>2. CASE i \in DOMAIN g'
      BY <2>1, <3>1, <3>2 DEF Heard
    <3>3. CASE i \notin DOMAIN g'
      <4>1. i + 1 \notin DOMAIN g
        BY <1>0, <2>1, <3>1, <3>3
      <4> QED BY <3>1, <3>3, <4>1 DEF Heard
    <3> QED BY <3>1, <3>2, <3>3
  <2> QED BY <1>1, <1>2, <2>2, <2>3
<1>5. CASE ServeStep
  <2>1. /\ 1 \in DOMAIN inbox /\ Head(inbox) = inbox[1]
        /\ g' = g /\ registrant' = registrant /\ apiClients' = Head(inbox).conn
    BY <1>5 DEF ServeStep, Typed, TypeOK
  <2>2. c < apiClients'
    BY <1>5, <2>1 DEF ServeStep, Arrivals, ArrivalsIn
  <2>3. ASSUME NEW i \in 1..(Len(g') + 1), H1(i) # 0 PROVE c < H1(i)
    <3>1. CASE i \in DOMAIN g
      <4>1. H1(i) = H(i)
        BY <1>0, <2>1, <3>1 DEF Heard
      <4> QED BY <1>1, <2>1, <2>3, <4>1
    <3>2. CASE i \notin DOMAIN g
      <4>1. H1(i) = apiClients'
        BY <1>0, <2>1, <2>2, <3>2 DEF Heard
      <4> QED BY <2>2, <4>1
    <3> QED BY <3>1, <3>2
  <2> QED BY <1>1, <1>2, <2>1, <2>3
<1>6. ASSUME NEW m \in GossiperMessage, gossiper' = Append(gossiper, m), registrant' = registrant,
             \/ FromClient(m) /\ m.conn = apiClients /\ apiClients' = apiClients
                  /\ apiClients \in Conn
             \/ ~FromClient(m) /\ apiClients' = 0
      PROVE  Past(c)'
  <2> DEFINE n == Len(g) + 1
  <2>1. /\ DOMAIN g' = 1..n /\ Len(g') = n /\ g'[n] = m
        /\ \A i \in DOMAIN g : g'[i] = g[i]
    BY <1>0, <1>6
  <2>2. n \in 1..(Len(g) + 1) /\ n \notin DOMAIN g /\ n # 0
    BY <1>0
  <2>3. ASSUME NEW i \in 1..(Len(g') + 1), H1(i) # 0 PROVE c < H1(i)
    <3>1. i \in 1..(n + 1)
      BY <2>1
    <3> HIDE DEF n
    <3>2. CASE i \in DOMAIN g
      <4>1. H1(i) = H(i) /\ i \in 1..(Len(g) + 1)
        BY <1>0, <1>6, <2>1, <3>2 DEF Heard, n
      <4> QED BY <1>1, <2>3, <4>1
    <3>3. CASE i \notin DOMAIN g /\ FromClient(m)
      <4>1. apiClients # 0 /\ H(n) = apiClients
        BY <1>0, <1>6, <2>2, <3>3 DEF Heard
      <4>2. c < apiClients
        BY <1>1, <2>2, <4>1
      <4>3. H1(i) = apiClients
        BY <1>0, <1>6, <2>1, <2>2, <3>1, <3>3, <4>1 DEF Heard, n
      <4> QED BY <4>2, <4>3
    <3>4. CASE i \notin DOMAIN g /\ ~FromClient(m)
      <4>1. H1(i) = 0 \/ H1(i) = MaxConns + 1
        BY <1>0, <1>6, <2>1, <2>2, <3>1, <3>4 DEF Heard, n
      <4> QED BY <1>0, <2>3, <4>1
    <3> QED BY <3>2, <3>3, <3>4
  <2> QED BY <1>1, <1>2, <1>6, <2>3
<1>7. CASE RequestStep
  <2> DEFINE m == [conn |-> Head(inbox).conn, request |-> Head(inbox).request]
  <2>1. /\ apiClients \in Conn /\ m \in GossiperMessage /\ FromClient(m) /\ m.conn = apiClients
    BY <1>7, RequestIsServed, GossiperMessages
  <2>2. gossiper' = Append(gossiper, m) /\ UNCHANGED <<registrant, apiClients>>
    BY <1>7 DEF RequestStep
  <2> HIDE DEF m
  <2> QED BY <1>6, <2>1, <2>2
<1>8. CASE EndStep
  <2> DEFINE m == [kind |-> "Unnotify"]
  <2>1. m \in GossiperMessage /\ ~FromClient(m)
    BY GossiperMessages
  <2>2. gossiper' = Append(gossiper, m) /\ apiClients' = 0 /\ UNCHANGED registrant
    BY <1>8 DEF EndStep
  <2> HIDE DEF m
  <2> QED BY <1>6, <2>1, <2>2
<1> QED
  BY <1>3, <1>4, <1>5, <1>7, <1>8, ControllersMove

\* When the Gossiper takes the end of the connection it has registered, that
\* connection is past.
LEMMA BecomesPast ==
    ASSUME Typed, Ordered, HeadStep, ~FromClient(Head(gossiper)), registrant # 0
    PROVE  \A c \in Conn : c = registrant => Past(c)'
<1> SUFFICES ASSUME NEW c \in Conn, c = registrant PROVE Past(c)'
  OBVIOUS
<1> DEFINE g == gossiper
           H(i) == Heard(gossiper, registrant, apiClients, i)
           H1(i) == Heard(gossiper', registrant', apiClients', i)
<1>0. /\ g \in Seq(GossiperMessage) /\ Len(g) \in Nat /\ DOMAIN g = 1..Len(g)
      /\ registrant \in 0..MaxConns /\ apiClients \in 0..MaxConns /\ c \in Nat
  BY BoundAssumption DEF Typed, TypeOK, Conn
<1>1. /\ 1 \in DOMAIN g /\ Head(g) = g[1] /\ g' = Tail(g) /\ Len(g') = Len(g) - 1
      /\ DOMAIN g' = 1..Len(g')
      /\ \A i \in DOMAIN g' : i + 1 \in DOMAIN g /\ g'[i] = g[i + 1]
  BY <1>0 DEF HeadStep
<1>2. registrant' = 0 /\ apiClients' = apiClients
  BY DEF HeadStep
<1>3. ASSUME NEW i \in 1..(Len(g') + 1), H1(i) # 0
      PROVE  c < H1(i)
  <2>1. i \in Nat \ {0} /\ i + 1 \in 0..(Len(g) + 1) /\ 0 \in 0..(Len(g) + 1) /\ 0 < i + 1
    BY <1>0, <1>1
  <2>2. H1(i) = H(i + 1)
    <3>1. CASE i \in DOMAIN g'
      BY <1>1, <1>2, <2>1, <3>1 DEF Heard
    <3>2. CASE i \notin DOMAIN g'
      <4>1. i + 1 \notin DOMAIN g
        BY <1>0, <1>1, <2>1, <3>2
      <4> QED BY <1>2, <2>1, <3>2, <4>1 DEF Heard
    <3> QED BY <3>1, <3>2
  <2>3. Ended(g, 0, i + 1)
    BY <1>1, <2>1 DEF Ended
  <2>4. H(0) = c
    BY DEF Heard
  <2>5. H(0) <= H(i + 1) /\ H(0) # H(i + 1)
    BY <1>3, <2>1, <2>2, <2>3, <2>4 DEF Ordered, InTurn
  <2>6. H(i + 1) \in 0..(MaxConns + 1)
    BY <1>0, <2>1, HeardType
  <2> QED BY <1>0, <2>2, <2>4, <2>5, <2>6
<1>4. c # registrant'
  BY <1>2
<1> QED
  BY <1>3, <1>4 DEF Past

\* What happens to a registration.
KeepsNotes ==
    UNCHANGED <<registrant, validationMap, nextAvailableID, items>>

NotesItem ==
    /\ registrant # 0 /\ registrant' = registrant
    /\ items' = items + 1 /\ nextAvailableID' = NextID(nextAvailableID)
    /\ \E pointer \in Pointer : validationMap' = With(validationMap, nextAvailableID, pointer)

SkipsItem ==
    registrant = 0 /\ items' = items + 1 /\ UNCHANGED <<registrant, validationMap, nextAvailableID>>

ForgetsID ==
    /\ UNCHANGED <<registrant, nextAvailableID, items>>
    /\ \E id \in ID : validationMap' = Without(validationMap, id)

StartsNotes == registrant # registrant' /\ nextAvailableID' = 0 /\ items' = items

LEMMA NotesSteps ==
    ASSUME Typed, [Next]_vars
    PROVE  \/ KeepsNotes \/ (NotesItem \/ SkipsItem) \/ ForgetsID
           \/ StartsNotes \/ (registrant = 0 /\ registrant' = 0 /\ nextAvailableID' = 0
                              /\ items' = items)
<1> USE DEF clientVars, endpointVars, loopVars, gossiperVars
<1>0. (registered <=> registrant # 0) /\ (registered' <=> registrant' # 0)
  BY NextTyped DEF Typed
<1>1. ASSUME NEW p \in Pointer, NotifyClients(p) PROVE NotesItem \/ SkipsItem
  <2>1. CASE registered
    BY <1>0, <1>1, <2>1 DEF NotifyClients, NotesItem
  <2>2. CASE ~registered
    BY <1>0, <1>1, <2>2 DEF NotifyClients, SkipsItem
  <2> QED BY <2>1, <2>2
<1>2. CASE GossiperHandles
  <2> DEFINE m == Head(gossiper)
  <2>1. m \in GossiperMessage
    BY <1>2 DEF GossiperHandles, Typed, TypeOK
  <2>2. FromClient(m) => m.conn # 0 /\ m.request \in Request
    BY <2>1, GossiperMessages, BoundAssumption DEF Conn
  <2>3. \/ UnnotifyHandler
        \/ FromClient(m) /\ NotifyHandler(m)
        \/ FromClient(m) /\ m.request.kind = "Validation" /\ ValidationHandler(m.request)
        \/ NotifyClients(items + 1) \/ KeepsNotes
    BY <1>2 DEF GossiperHandles, FromClient, KeepsNotes
  <2> HIDE DEF m
  <2>4. CASE UnnotifyHandler
    BY <2>4 DEF UnnotifyHandler, StartsNotes
  <2>5. CASE FromClient(m) /\ NotifyHandler(m)
    <3>1. CASE registered
      BY <2>5, <3>1 DEF NotifyHandler, KeepsNotes
    <3>2. CASE ~registered
      BY <1>0, <2>2, <2>5, <3>2 DEF NotifyHandler, StartsNotes
    <3> QED BY <3>1, <3>2
  <2>6. CASE FromClient(m) /\ m.request.kind = "Validation" /\ ValidationHandler(m.request)
    <3>1. m.request.ID \in ID
      BY <2>2, <2>6 DEF Request
    <3> QED BY <2>6, <3>1 DEF ValidationHandler, ForgetsID, KeepsNotes
  <2>7. NotifyClients(items + 1) => items + 1 \in Pointer
    BY BoundAssumption DEF NotifyClients, Pointer, Item, Typed
  <2> QED BY <1>1, <2>3, <2>4, <2>5, <2>6, <2>7
<1>3. CASE UpdateRound
  BY <1>1, <1>3, NewItemPointer DEF UpdateRound, KnownItem, RoundEnds, KeepsNotes
<1>4. GossiperHandles \/ UpdateRound \/ UNCHANGED gossiperVars
  BY DEF Next, vars, ClientConnects, ClientSends, ClientLeaves, Central,
         APIEndpointCreatedHandler, APIEndpointClosed, IncomingAPIHandler,
         GossipNotificationHandler, CentralIgnores, CloseHandler, Reader, Writer, ReaderReads,
         ReaderCloses, ReaderCrashes, WriterWrites, WriterCloses, Ends
<1>5. CASE UNCHANGED gossiperVars
  BY <1>5 DEF KeepsNotes
<1> QED
  BY <1>2, <1>3, <1>4, <1>5

LEMMA IDsGoUp ==
    ASSUME NEW id \in ID
    PROVE  \/ NextID(id) = id + 1
           \/ NextID(id) = 0 /\ id = IDSpace - 1
<1>1. IDSpace \in Nat \ {0} /\ id \in 0..(IDSpace - 1)
  BY BoundAssumption DEF ID
<1>2. CASE id = IDSpace - 1
  BY <1>1, <1>2 DEF NextID
<1>3. CASE id # IDSpace - 1
  BY <1>1, <1>3 DEF NextID
<1> QED
  BY <1>2, <1>3

LEMMA NotedInit == Init => Noted
BY DEF Init, Noted, Notified

LEMMA NotedNext == PathInv /\ Noted /\ [Next]_vars => Noted'
<1> SUFFICES ASSUME PathInv, Noted, [Next]_vars PROVE Noted'
  OBVIOUS
<1>00. Typed /\ Served /\ Arrivals /\ Ordered /\ Typed'
  BY NextTyped DEF PathInv
<1>01. /\ nextAvailableID \in ID /\ nextAvailableID \in Nat /\ items \in Nat
       /\ IDSpace \in Nat \ {0}
  BY <1>00, BoundAssumption DEF Typed, TypeOK, ID
<1>0. /\ Typed /\ Served /\ Arrivals /\ Ordered /\ Typed'
      /\ nextAvailableID \in ID /\ nextAvailableID \in Nat /\ items \in Nat
      /\ IDSpace \in Nat \ {0}
  BY <1>00, <1>01
<1>1. nextAvailableID' <= items'
  <2>1. nextAvailableID <= items
    BY DEF Noted
  <2>2. CASE NotesItem
    BY <1>0, <2>1, <2>2, IDsGoUp DEF NotesItem
  <2> QED BY <1>0, <2>1, <2>2, NotesSteps
       DEF KeepsNotes, SkipsItem, ForgetsID, StartsNotes
<1>2. ASSUME NEW c \in Conn, NEW id \in ID, NEW item \in Pointer, Notified(c, id, item)',
             ~Past(c)'
      PROVE  /\ registrant' = c
             /\ items' <= IDSpace /\ id \in DOMAIN validationMap' => validationMap'[id] = item
             /\ id < nextAvailableID' \/ items' >= IDSpace
  <2>0. id \in Nat /\ c # 0
    BY BoundAssumption DEF ID, Conn
  <2>1. CASE NotifyClients(item) /\ registrant = c /\ id = nextAvailableID
    <3>1. /\ registrant' = c /\ items' = items + 1 /\ nextAvailableID' = NextID(nextAvailableID)
          /\ validationMap' = With(validationMap, id, item)
      BY <1>0, <2>0, <2>1 DEF NotifyClients, Typed
    <3>2. validationMap'[id] = item
      BY <3>1 DEF With
    <3>3. id < nextAvailableID' \/ items' >= IDSpace
      BY <1>0, <2>1, <3>1, IDsGoUp DEF Noted
    <3> QED BY <3>1, <3>2, <3>3
  <2>2. CASE Notified(c, id, item)
    <3>1. c \in Known
      BY <2>2 DEF Known
    <3>2. ~Past(c)
      BY <1>0, <1>2, <3>1, PastStays
    <3>3. /\ registrant = c
          /\ items <= IDSpace /\ id \in DOMAIN validationMap => validationMap[id] = item
          /\ id < nextAvailableID \/ items >= IDSpace
      BY <2>2, <3>2 DEF Noted
    <3>4. registrant' = registrant
      <4>1. \/ UNCHANGED registrant
            \/ HeadStep /\ ~FromClient(Head(gossiper))
        BY <1>0, <2>0, <3>3, ControllersMove DEF HeadStep, ServeStep, RequestStep, EndStep
      <4>2. ~(HeadStep /\ ~FromClient(Head(gossiper)))
        BY <1>0, <1>2, <2>0, <3>3, BecomesPast
      <4> QED BY <4>1, <4>2
    <3>5. CASE KeepsNotes
      BY <3>3, <3>5 DEF KeepsNotes
    <3>6. CASE NotesItem
      <4>1. items' <= IDSpace => id # nextAvailableID
        BY <1>0, <2>0, <3>3, <3>6 DEF NotesItem
      <4>2. items' <= IDSpace => items <= IDSpace
        BY <1>0, <3>6 DEF NotesItem
      <4>3. items' <= IDSpace /\ id \in DOMAIN validationMap' => validationMap'[id] = item
        BY <3>3, <3>6, <4>1, <4>2 DEF NotesItem, With
      <4>4. id < nextAvailableID' \/ items' >= IDSpace
        BY <1>0, <2>0, <3>3, <3>6, IDsGoUp DEF NotesItem, Noted
      <4> QED BY <3>3, <3>4, <4>3, <4>4
    <3>7. CASE ForgetsID
      BY <3>3, <3>7 DEF ForgetsID, Without
    <3> QED BY <2>0, <3>3, <3>4, <3>5, <3>6, <3>7, <1>0, NotesSteps DEF SkipsItem, StartsNotes
  <2> QED BY <1>0, <1>2, <2>1, <2>2, NotifiedStep
<1>3. \A c \in Conn, id \in ID, item \in Pointer :
          Notified(c, id, item)' =>
              \/ /\ registrant' = c
                 /\ items' <= IDSpace /\ id \in DOMAIN validationMap' => validationMap'[id] = item
                 /\ id < nextAvailableID' \/ items' >= IDSpace
              \/ Past(c)'
  BY <1>2
<1> QED
  BY <1>1, <1>3 DEF Noted

-----------------------------------------------------------------------------
(* What the pointers find *)

\* What a pointer finds, or has found when a notification was written, it has visited.
Visited ==
    /\ \A p \in Pointer : held[p] \in visits[p]
    /\ \A c \in Conn : \A n \in shown[c] : n.item \in visits[n.pointer]

LEMMA VisitsMove ==
    ASSUME Typed, [Next]_vars
    PROVE  \/ UNCHANGED <<held, visits>>
           \/ /\ UNCHANGED shown
              /\ \E p \in Pointer, item \in Item : Visits(p, item)
<1> USE DEF clientVars, endpointVars, loopVars, gossiperVars
<1>1. CASE UpdateRound
  <2>1. CASE NewItem
    BY <1>1, <2>1, NewItemPointer DEF UpdateRound
  <2>2. CASE KnownItem
    <3>1. looping \in Pointer /\ (1..items) \subseteq Item
      BY <2>2, BoundAssumption DEF KnownItem, Typed, TypeOK, Pointer, Item
    <3> QED BY <1>1, <2>2, <3>1 DEF UpdateRound, KnownItem
  <2>3. CASE RoundEnds
    BY <2>3 DEF RoundEnds
  <2> QED BY <1>1, <2>1, <2>2, <2>3 DEF UpdateRound
<1>2. CASE GossiperHandles
  BY <1>2 DEF GossiperHandles, UnnotifyHandler, NotifyHandler, ValidationHandler
<1>3. GossiperHandles \/ UpdateRound \/ UNCHANGED gossiperVars
  BY DEF Next, vars, ClientConnects, ClientSends, ClientLeaves, Central,
         APIEndpointCreatedHandler, APIEndpointClosed, IncomingAPIHandler,
         GossipNotificationHandler, CentralIgnores, CloseHandler, Reader, Writer, ReaderReads,
         ReaderCloses, ReaderCrashes, WriterWrites, WriterCloses, Ends
<1> QED BY <1>1, <1>2, <1>3

LEMMA VisitedNext == Typed /\ Visited /\ [Next]_vars => Visited'
<1> SUFFICES ASSUME Typed, Visited, [Next]_vars PROVE Visited'
  OBVIOUS
<1>0. /\ shown \in [Conn -> SUBSET Shown] /\ held \in [Pointer -> Item]
      /\ visits \in [Pointer -> SUBSET Item]
      /\ MsgInQueue \in Seq(Notification \cup {CloseMSG})
  BY DEF Typed, TypeOK
<1>1. ASSUME NEW p \in Pointer, NEW item \in Item, Visits(p, item), UNCHANGED shown
      PROVE  Visited'
  <2>1. \A q \in Pointer : visits[q] \subseteq visits'[q] /\ held'[q] \in visits'[q]
    BY <1>0, <1>1 DEF Visits, Visited
  <2>2. \A c \in Conn : \A n \in shown[c] : n.pointer \in Pointer
    BY <1>0 DEF Shown
  <2> QED BY <1>1, <2>1, <2>2 DEF Visited
<1>2. CASE UNCHANGED <<held, visits, shown>>
  BY <1>2 DEF Visited
<1>3. ASSUME NEW a \in Conn, NEW n, MsgInQueue # <<>>, n = Head(MsgInQueue), n # CloseMSG,
             shown' = [shown EXCEPT ![a] = @ \cup
                          {[ID |-> n.ID, pointer |-> n.item, item |-> held[n.item]]}],
             UNCHANGED <<held, visits>>
      PROVE  Visited'
  <2>1. n \in Notification
    BY <1>0, <1>3
  <2>2. n.item \in Pointer
    BY <2>1 DEF Notification
  <2>3. \A c \in Conn : \A e \in shown'[c] :
            e \in shown[c] \/ e = [ID |-> n.ID, pointer |-> n.item, item |-> held[n.item]]
    BY <1>0, <1>3
  <2> QED BY <1>3, <2>2, <2>3 DEF Visited
<1>4. UNCHANGED <<held, visits>> => Visited'
  BY <1>2, <1>3, NotesMove DEF NotesStep
<1> QED
  BY <1>1, <1>4, VisitsMove

LEMMA NotesAlways == Spec => [](PathInv /\ Asking /\ Noted /\ Visited)
<1>1. Init => PathInv /\ Asking /\ Noted /\ Visited
  BY InitTyped, ServedInit, ArrivalsInit, OrderedInit, FollowsInit, AskingInit, NotedInit
     DEF PathInv, Init, Visited
<1>2. PathInv /\ Asking /\ Noted /\ Visited /\ [Next]_vars
        => (PathInv /\ Asking /\ Noted /\ Visited)'
  BY NextTyped, ServedNext, ArrivalsNext, OrderedNext, FollowsNext, AskingNext, NotedNext,
     VisitedNext
     DEF PathInv
<1> QED
  BY <1>1, <1>2, PTL DEF Spec

\* An item is rejected for a client only if its connection was shown, under the ID
\* that it names, an item through the same pointer: the same item, or another one of
\* the same round of gossip.  This holds until IDs are given away again, and for
\* connections that were shown no notification meant for an earlier one.
THEOREM RejectionsWereShown == Spec => RejectsWhatWasShown
<1> DEFINE A == \A x \in rejected' \ rejected :
                    LET m == Head(gossiper)
                    IN  \/ \E n \in shown[m.conn] :
                              n.ID = m.request.ID /\ {n.item, x} \subseteq visits[n.pointer]
                        \/ m.conn \in strayed \/ items > IDSpace
<1>1. PathInv /\ Asking /\ Noted /\ Visited /\ [Next]_vars => [A]_vars
  <2> SUFFICES ASSUME PathInv, Asking, Noted, Visited, [Next]_vars, NEW x \in rejected' \ rejected
               PROVE  LET m == Head(gossiper)
                      IN  \/ \E n \in shown[m.conn] :
                                n.ID = m.request.ID /\ {n.item, x} \subseteq visits[n.pointer]
                          \/ m.conn \in strayed \/ items > IDSpace
    OBVIOUS
  <2> USE DEF clientVars, endpointVars, loopVars, gossiperVars
  <2> DEFINE m == Head(gossiper)
             r == m.request
             c == m.conn
  <2>1. GossiperHandles
    BY DEF Next, vars, ClientConnects, ClientSends, ClientLeaves, Central,
           APIEndpointCreatedHandler, APIEndpointClosed, IncomingAPIHandler,
           GossipNotificationHandler, CentralIgnores, CloseHandler, Reader, Writer, ReaderReads,
           ReaderCloses, ReaderCrashes, WriterWrites, WriterCloses, Ends, UpdateRound, NewItem,
           KnownItem, RoundEnds, NotifyClients
  <2>2. FromClient(m) /\ r.kind = "Validation" /\ ValidationHandler(r) /\ gossiper # <<>>
    BY <2>1 DEF GossiperHandles, FromClient, NotifyHandler, UnnotifyHandler, NotifyClients
  <2>3. registered /\ r.ID \in DOMAIN validationMap /\ x = held[validationMap[r.ID]]
    BY <2>2 DEF ValidationHandler
  <2>4. Typed
    BY DEF PathInv
  <2>5. /\ 1 \in DOMAIN gossiper /\ m = gossiper[1] /\ m \in GossiperMessage
        /\ 1 \in 1..(Len(gossiper) + 1)
    BY <2>2, <2>4 DEF Typed, TypeOK
  <2>6. c \in Conn /\ c # 0 /\ r \in Request /\ items \in Nat /\ IDSpace \in Nat
    BY <2>2, <2>4, <2>5, GossiperMessages, BoundAssumption DEF Conn, Typed
  <2>7. PICK n \in shown[c] : n.ID = r.ID
    BY <2>2, <2>5 DEF Asking, AskedBy
  <2>8. n \in Shown /\ r.ID \in ID /\ n.pointer \in Pointer
    BY <2>4, <2>6, <2>7 DEF Typed, Shown
  <2>9. c \notin strayed => Notified(c, r.ID, n.pointer)
    BY <2>7, <2>8 DEF Notified
  <2>10. ~Past(c)
    <3>1. Heard(gossiper, registrant, apiClients, 1) = c
      BY <2>2, <2>5 DEF Heard
    <3>2. ~(c < c)
      BY <2>6, BoundAssumption DEF Conn
    <3> QED BY <2>5, <2>6, <3>1, <3>2 DEF Past
  <2>11. c \notin strayed => items > IDSpace \/ validationMap[r.ID] = n.pointer
    BY <2>3, <2>6, <2>8, <2>9, <2>10 DEF Noted
  <2>12. n.item \in visits[n.pointer] /\ held[n.pointer] \in visits[n.pointer]
    BY <2>6, <2>7, <2>8 DEF Visited
  <2> QED BY <2>3, <2>7, <2>11, <2>12
<1> QED
  BY <1>1, NotesAlways, PTL DEF Spec, RejectsWhatWasShown
=============================================================================
