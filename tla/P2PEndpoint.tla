---------------------------- MODULE P2PEndpoint ----------------------------
(***************************************************************************)
(* Two P2PEndpoints (src/core/peer.go) at the two ends of one secure       *)
(* connection: on each side a reader and a writer goroutine, and the       *)
(* Central controller as far as it uses the endpoint: it starts it, sends  *)
(* messages to its MsgInQueue, calls Close, and closes the connection when *)
(* both goroutines have ended.  The reader sets the deadline of the        *)
(* connection for both.  Messages are numbered in the order they are sent. *)
(***************************************************************************)
EXTENDS SecureConn

CONSTANTS
    outQueueSize,     \* capacity of MsgInQueue
    InternalMessage,  \* the type of what the endpoints send to each other
    TypeOf,           \* side -> its messages -> the type of their payload
    Inner             \* type -> the types of its fields or elements, in their order

ASSUME QueueAssumption == outQueueSize \in Nat \ {0}

ASSUME TypesAssumption ==
    /\ InternalMessage \in Type
    /\ TypeOf \in [Side -> [1..HighestMessage -> Type \ {InternalMessage}]]
    /\ Inner \in [Type -> Seq(Type)] /\ Inner[InternalMessage] = <<>>

VARIABLES
    reader,      \* side -> "none", "begin", "reading", "delivering", "closed", "crashed"
    writer,      \* side -> "none", "waiting", "writing", "closed", "crashed"
    MsgInQueue,  \* side -> messages to send, and Close
    writing,     \* side -> the message its writer encodes
    received,    \* side -> the message its reader sends to MsgOutQueue
    described,   \* side -> the types its gobEncoder has sent
    toDescribe,  \* side -> the types to visit before the rest of the message
    encoding,    \* side -> its Encode is "fresh", or has sent the head of its
                 \* message: "begun"; "failed" if a later write met an error
    knows,       \* side -> the types its gobDecoder knows
    inside,      \* the sides whose Decode is behind the head of a message
    cut,         \* history: the sides one of whose messages was cut off behind
                 \* its head: a write or a read there met an error
    closing,     \* the sides whose Close was called (closeOnce)
    sent,        \* side -> messages sent to its MsgInQueue
    accepted,    \* history: side -> messages that Encode reported as written
    delivered    \* history: side -> messages given to its Central controller

queues == <<MsgInQueue, closing, sent>>
encoder == <<described, toDescribe, encoding>>
decoder == <<knows, inside>>
coding == <<writing, received, encoder, decoder, cut>>
history == <<accepted, delivered>>
vars == <<conns, reader, writer, queues, coding, history>>

Close == 0

Init ==
    /\ ConnInit
    /\ reader = [s \in Side |-> "none"]
    /\ writer = [s \in Side |-> "none"]
    /\ MsgInQueue = [s \in Side |-> <<>>]
    /\ writing = [s \in Side |-> NoMessage]
    /\ received = [s \in Side |-> NoMessage]
    /\ described = [s \in Side |-> {}]
    /\ toDescribe = [s \in Side |-> <<>>]
    /\ encoding = [s \in Side |-> "fresh"]
    /\ knows = [s \in Side |-> {}]
    /\ inside = {} /\ cut = {} /\ closing = {}
    /\ sent = [s \in Side |-> 0]
    /\ accepted = [s \in Side |-> <<>>]
    /\ delivered = [s \in Side |-> <<>>]

\* The client's endpoint has no connection when its dial failed.
HasConn(s) == s = "server" \/ dialled = "connected"

Ended(s) == reader[s] \in {"closed", "crashed"} /\ writer[s] \in {"closed", "crashed"}

Crashed(s) == "crashed" \in {reader[s], writer[s]}

ReaderGoes(s, state) == reader' = [reader EXCEPT ![s] = state]

WriterGoes(s, state) == writer' = [writer EXCEPT ![s] = state]

\* A fault: the channel takes one message more than its capacity.
RoomForOneMore(s) == Len(MsgInQueue[s]) <= outQueueSize

HasRoom(s) == Len(MsgInQueue[s]) < outQueueSize

RunGoroutines(s) == ReaderGoes(s, "begin") /\ WriterGoes(s, "waiting")
-----------------------------------------------------------------------------
(* The beginning: dial, and the Central controller of the server *)

Dials ==
    /\ ClientSendsHandshake \/ ClientReadsReply
    /\ UNCHANGED <<shut, deadline, willing, handshakeMutex, dialled,
                   reader, writer, queues, coding, history>>

DialReturns ==
    /\ dialled = "pending" /\ stage["client"] = "done"
    /\ dialled' = "connected"
    /\ RunGoroutines("client")
    /\ UNCHANGED <<stream, shut, deadline, willing, stage, handshakeMutex,
                   queues, coding, history>>

\* A fault: the connection that was given up stays open.
LeftOpen == shut

GivenUp == shut \cup {"client"}

\* The connection is closed; the endpoint is created and run without it.
DialFails ==
    /\ dialled = "pending"
    /\ dialled' = "failed"
    /\ shut' = GivenUp
    /\ RunGoroutines("client")
    /\ UNCHANGED <<stream, deadline, willing, stage, handshakeMutex, queues, coding, history>>

HandshakeEndsDial == ClientHandshakeFails /\ DialFails

\* The timer of connectionTimeout goes off first: the handshake may be over.
DialTimesOut == DialFails

ServerStarts ==
    /\ reader["server"] = "none" /\ "server" \notin shut
    /\ RunGoroutines("server")
    /\ UNCHANGED <<conns, queues, coding, history>>

\* Central controllers refuse connections at the limit and when they stop.
ServerRefuses ==
    /\ reader["server"] = "none"
    /\ shut' = shut \cup {"server"}
    /\ UNCHANGED <<stream, deadline, willing, stage, handshakeMutex, dialled,
                   reader, writer, queues, coding, history>>
-----------------------------------------------------------------------------
(* The reader *)

\* The next turn of its loop: it ends if it was told to, otherwise it gives
\* itself and the writer a new deadline.
NextTurn(s) ==
    CASE s \in closing -> ReaderGoes(s, "closed") /\ UNCHANGED deadline
      [] s \notin closing /\ ~HasConn(s) -> ReaderGoes(s, "crashed") /\ UNCHANGED deadline
      [] s \notin closing /\ HasConn(s) ->
           ReaderGoes(s, "reading") /\ deadline' = [deadline EXCEPT ![s] = "ahead"]

ReaderBegins(s) ==
    /\ reader[s] = "begin"
    /\ NextTurn(s)
    /\ UNCHANGED <<stream, shut, willing, stage, handshakeMutex, dialled,
                   writer, queues, coding, history>>

\* A descriptor of a type that it knows is an error.
Registers(s, f) == f.kind = "type" /\ f.type \notin knows[s]

\* The name of the payload and its descriptor: Decode goes on behind them.
Begins(s, f) ==
    /\ f.kind = "head" /\ s \notin inside
    /\ InternalMessage \in knows[s] /\ f.type \notin knows[s]

\* A value is compiled from all types that it may reach.
Compiles(types, T) ==
    \E known \in SUBSET types :
        T \in known /\ \A U \in known : \A i \in DOMAIN Inner[U] : Inner[U][i] \in known

Decodable(s, f) ==
    /\ f.kind = IF s \in inside THEN "rest" ELSE "value"
    /\ InternalMessage \in knows[s] /\ Compiles(knows[s], f.type)
    /\ f.msg \notin Oversized[Other(s)]

\* One read of Decode.
ReaderReads(s) ==
    /\ reader[s] = "reading" /\ stage[s] = "done"
    /\ CanRead(s) /\ Consume(s)
    /\ LET f == Head(Incoming(s))
       IN  \/ /\ Registers(s, f) \/ Begins(s, f)
              /\ knows' = [knows EXCEPT ![s] = @ \cup {f.type}]
              /\ inside' = IF f.kind = "head" THEN inside \cup {s} ELSE inside
              /\ UNCHANGED <<reader, received>>
           \/ /\ Decodable(s, f)
              /\ ReaderGoes(s, "delivering")
              /\ received' = [received EXCEPT ![s] = f.msg]
              /\ inside' = inside \ {s}
              /\ UNCHANGED knows
           \/ /\ ~Registers(s, f) /\ ~Begins(s, f) /\ ~Decodable(s, f)
              /\ ReaderGoes(s, "crashed")
              /\ UNCHANGED <<received, decoder>>
    /\ UNCHANGED <<shut, deadline, willing, stage, handshakeMutex, dialled,
                   writer, queues, writing, encoder, cut, history>>

ReaderFails(s) ==
    /\ reader[s] = "reading" /\ stage[s] = "done"
    /\ ReadFails(s)
    /\ ReaderGoes(s, "crashed")
    /\ UNCHANGED <<shut, deadline, willing, stage, handshakeMutex, dialled,
                   writer, queues, coding, history>>

\* Decode forgets what it has read of a message, and not the types.
ReaderTimesOut(s) ==
    /\ reader[s] = "reading" /\ stage[s] = "done"
    /\ ReadTimesOut(s)
    /\ inside' = inside \ {s}
    /\ cut' = IF s \in inside THEN cut \cup {Other(s)} ELSE cut
    /\ NextTurn(s)
    /\ UNCHANGED <<shut, willing, stage, handshakeMutex, dialled,
                   writer, queues, writing, received, encoder, knows, history>>

\* Sending to the Central controller may take longer than the deadline.
ReaderDelivers(s) ==
    /\ reader[s] = "delivering"
    /\ delivered' = [delivered EXCEPT ![s] = Append(@, received[s])]
    /\ received' = [received EXCEPT ![s] = NoMessage]
    /\ NextTurn(s)
    /\ UNCHANGED <<stream, shut, willing, stage, handshakeMutex, dialled,
                   writer, queues, writing, encoder, decoder, cut, accepted>>
-----------------------------------------------------------------------------
(* The writer *)

WriterTakes(s) ==
    /\ writer[s] = "waiting" /\ MsgInQueue[s] # <<>>
    /\ LET m == Head(MsgInQueue[s])
       IN  IF m = Close
           THEN WriterGoes(s, "closed") /\ UNCHANGED writing
           ELSE WriterGoes(s, "writing") /\ writing' = [writing EXCEPT ![s] = m]
    /\ MsgInQueue' = [MsgInQueue EXCEPT ![s] = Tail(@)]
    /\ UNCHANGED <<conns, reader, closing, sent, received, encoder, decoder, cut, history>>

WriterForgets(s) == writing' = [writing EXCEPT ![s] = NoMessage]

\* An error of Encode is logged, and the message is lost.
WriterGivesUp(s) == WriterGoes(s, "waiting") /\ WriterForgets(s)

Encodes(s) == writer[s] = "writing" /\ HasConn(s) /\ stage[s] = "done"

Payload(s) == TypeOf[s][writing[s]]

\* The encoder remembers a type once it is written, and then visits its fields.
Remembers(s, T, others) ==
    /\ described' = [described EXCEPT ![s] = @ \cup {T}]
    /\ toDescribe' = [toDescribe EXCEPT ![s] = Inner[T] \o others]

Visited(s) == toDescribe' = [toDescribe EXCEPT ![s] = Tail(@)]

\* The types of a message go out first, each in a write of its own.
WriterDescribes(s) ==
    /\ Encodes(s) /\ encoding[s] = "fresh"
    /\ ~({InternalMessage, Payload(s)} \subseteq described[s])
    /\ LET frame == IF InternalMessage \notin described[s]
                    THEN Frame("type", NoMessage, InternalMessage)
                    ELSE Frame("head", writing[s], Payload(s))
       IN  \/ /\ WriteSucceeds(s, frame)
              /\ Remembers(s, frame.type, <<>>)
              /\ encoding' = [encoding EXCEPT ![s] = IF frame.kind = "head" THEN "begun" ELSE @]
              /\ UNCHANGED <<writer, writing>>
           \/ WriteFails(s, frame) /\ WriterGivesUp(s) /\ UNCHANGED encoder
    /\ UNCHANGED <<shut, deadline, willing, stage, handshakeMutex, dialled,
                   reader, queues, received, decoder, cut, history>>

\* The types inside the one whose head is sent.  After an error the encoder
\* still tries the others, and remembers none of them.
WriterDescribesInner(s) ==
    /\ Encodes(s) /\ toDescribe[s] # <<>>
    /\ LET T == Head(toDescribe[s])
           frame == Frame("type", NoMessage, T)
       IN  \/ T \in described[s] /\ Visited(s) /\ UNCHANGED <<stream, described, encoding, cut>>
           \/ /\ T \notin described[s] /\ WriteSucceeds(s, frame)
              /\ IF encoding[s] = "begun" THEN Remembers(s, T, Tail(toDescribe[s]))
                                          ELSE Visited(s) /\ UNCHANGED described
              /\ UNCHANGED <<encoding, cut>>
           \/ /\ T \notin described[s] /\ WriteFails(s, frame)
              /\ Visited(s)
              /\ encoding' = [encoding EXCEPT ![s] = "failed"]
              /\ cut' = cut \cup {s}
              /\ UNCHANGED described
    /\ UNCHANGED <<shut, deadline, willing, stage, handshakeMutex, dialled,
                   reader, writer, queues, writing, received, decoder, history>>

\* The value, or what is left of it; Encode has failed if a type was not sent.
WriterWrites(s) ==
    /\ Encodes(s) /\ toDescribe[s] = <<>> /\ {InternalMessage, Payload(s)} \subseteq described[s]
    /\ LET begun == encoding[s] # "fresh"
           frame == Frame(IF begun THEN "rest" ELSE "value", writing[s], Payload(s))
       IN  \/ /\ encoding[s] # "failed" /\ WriteSucceeds(s, frame)
              /\ accepted' = [accepted EXCEPT ![s] = Append(@, writing[s])]
              /\ UNCHANGED cut
           \/ /\ encoding[s] # "failed" /\ WriteFails(s, frame)
              /\ cut' = IF begun THEN cut \cup {s} ELSE cut
              /\ UNCHANGED accepted
           \/ encoding[s] = "failed" /\ UNCHANGED <<stream, cut, accepted>>
    /\ WriterGivesUp(s)
    /\ encoding' = [encoding EXCEPT ![s] = "fresh"]
    /\ UNCHANGED <<shut, deadline, willing, stage, handshakeMutex, dialled,
                   reader, queues, received, described, toDescribe, decoder, delivered>>

WriterCrashes(s) ==
    /\ writer[s] = "writing" /\ ~HasConn(s)
    /\ WriterGoes(s, "crashed") /\ WriterForgets(s)
    /\ UNCHANGED <<conns, reader, queues, received, encoder, decoder, cut, history>>
-----------------------------------------------------------------------------
(* The server's handshake inside Read or Write *)

Handshakes(g) ==
    IF g = "reader" THEN reader["server"] = "reading" ELSE writer["server"] = "writing"

Handshake(g) ==
    /\ Handshakes(g)
    /\ \/ ServerTakesMutex(g) /\ UNCHANGED stream
       \/ ServerReadsHandshake(g)
       \/ ServerReplies(g)
    /\ UNCHANGED <<shut, deadline, willing, dialled, reader, writer, queues, coding, history>>

\* A reader panics on an error and goes on after a timeout; a writer loses its
\* message.
HandshakeFails(g) ==
    /\ Handshakes(g) /\ ServerHandshakeFails(g)
    /\ IF g = "reader" THEN ReaderGoes("server", "crashed") /\ UNCHANGED <<writer, writing>>
                       ELSE WriterGivesUp("server") /\ UNCHANGED reader
    /\ UNCHANGED <<shut, deadline, willing, dialled, queues, received, encoder, decoder, cut, history>>

HandshakeTimesOut(g) ==
    /\ Handshakes(g) /\ ServerHandshakeTimesOut(g)
    /\ IF g = "reader" THEN NextTurn("server") /\ UNCHANGED <<writer, writing>>
                       ELSE WriterGivesUp("server") /\ UNCHANGED <<reader, deadline>>
    /\ UNCHANGED <<shut, willing, dialled, queues, received, encoder, decoder, cut, history>>
-----------------------------------------------------------------------------
(* The Central controller *)

\* What it queues behind Close is never taken, and left out.
CentralSends(s) ==
    /\ reader[s] # "none" /\ s \notin closing /\ ~Ended(s)
    /\ sent[s] < MaxSends[s] /\ HasRoom(s)
    /\ sent' = [sent EXCEPT ![s] = @ + 1]
    /\ MsgInQueue' = [MsgInQueue EXCEPT ![s] = Append(@, sent[s] + 1)]
    /\ UNCHANGED <<conns, reader, writer, closing, coding, history>>

\* Close: blocks while MsgInQueue is full.
CentralCloses(s) ==
    /\ reader[s] # "none" /\ s \notin closing /\ ~Ended(s)
    /\ HasRoom(s)
    /\ MsgInQueue' = [MsgInQueue EXCEPT ![s] = Append(@, Close)]
    /\ closing' = closing \cup {s}
    /\ UNCHANGED <<conns, reader, writer, sent, coding, history>>

\* The conn is closed in a goroutine once both halves have stopped.
CentralShuts(s) ==
    /\ Ended(s) /\ HasConn(s) /\ s \notin shut
    /\ shut' = shut \cup {s}
    /\ UNCHANGED <<stream, deadline, willing, stage, handshakeMutex, dialled,
                   reader, writer, queues, coding, history>>

DeadlineStep(s) == DeadlinePasses(s) /\ UNCHANGED <<reader, writer, queues, coding, history>>

ReaderPanics(s) == ReaderFails(s) \/ (s = "server" /\ HandshakeFails("reader"))

Reader(s) ==
    \/ ReaderBegins(s) \/ ReaderReads(s) \/ ReaderTimesOut(s) \/ ReaderDelivers(s)
    \/ ReaderPanics(s)
    \/ s = "server" /\ (Handshake("reader") \/ HandshakeTimesOut("reader"))

Writer(s) ==
    \/ WriterTakes(s) \/ WriterCrashes(s)
    \/ WriterDescribes(s) \/ WriterDescribesInner(s) \/ WriterWrites(s)
    \/ /\ s = "server"
       /\ Handshake("writer") \/ HandshakeFails("writer") \/ HandshakeTimesOut("writer")

Next ==
    \/ Dials \/ DialReturns \/ HandshakeEndsDial \/ DialTimesOut
    \/ ServerStarts \/ ServerRefuses
    \/ \E s \in Side :
          \/ Reader(s) \/ Writer(s) \/ DeadlineStep(s)
          \/ CentralSends(s) \/ CentralCloses(s) \/ CentralShuts(s)

\* Goroutines are scheduled, timers go off, a Central controller closes an
\* endpoint one half of which crashed, and a reader does not for ever come too
\* late for its own deadline.
Fairness ==
    /\ WF_vars(DialReturns \/ DialTimesOut)
    /\ WF_vars(ServerStarts \/ ServerRefuses)
    /\ \A s \in Side :
          /\ WF_vars(Reader(s)) /\ WF_vars(Writer(s)) /\ WF_vars(DeadlineStep(s))
          /\ SF_vars(ReaderReads(s) \/ ReaderPanics(s))
          /\ WF_vars((Crashed(s) /\ CentralCloses(s)) \/ CentralShuts(s))

Spec == Init /\ [][Next]_vars /\ Fairness
-----------------------------------------------------------------------------
(* Properties *)

TypeOK ==
    /\ wire \in [Side -> Seq(Frames)]
    /\ torn \subseteq Side /\ shut \subseteq Side
    /\ willing \subseteq Side
    /\ budget \in [Side -> 0..Quota]
    /\ deadline \in [Side -> {"none", "ahead", "passed"}]
    /\ stage \in [Side -> {"start", "midway", "done"}]
    /\ handshakeMutex \in {"none", "reader", "writer"}
    /\ dialled \in {"pending", "connected", "failed"}
    /\ reader \in [Side -> {"none", "begin", "reading", "delivering", "closed", "crashed"}]
    /\ writer \in [Side -> {"none", "waiting", "writing", "closed", "crashed"}]
    /\ MsgInQueue \in [Side -> Seq(0..HighestMessage)]
    /\ \A s \in Side : Len(MsgInQueue[s]) <= outQueueSize
    /\ writing \in [Side -> 0..HighestMessage] /\ received \in [Side -> 0..HighestMessage]
    /\ described \in [Side -> SUBSET Type] /\ knows \in [Side -> SUBSET Type]
    /\ toDescribe \in [Side -> Seq(Type)]
    /\ encoding \in [Side -> {"fresh", "begun", "failed"}]
    /\ inside \subseteq Side /\ cut \subseteq Side /\ closing \subseteq Side
    /\ sent \in [Side -> 0..HighestMessage]
    /\ accepted \in [Side -> Seq(1..HighestMessage)] /\ delivered \in [Side -> Seq(1..HighestMessage)]

Carries(f) == f.kind \in {"value", "rest"}

\* What Encode reported as written is delivered in the same order and once, or
\* still under way, unless a deadline has torn a frame of that direction or the
\* reader has crashed (peer.go:218, 285): timeouts in between lose nothing else.
\* upTo counts the messages accepted up to each frame on the way; those before
\* the first are delivered or in the hand of the reader.
AcceptedIsDelivered ==
    \A s \in Side :
        LET r == Other(s)
            fs == wire[s]
            read == delivered[r] \o IF received[r] = NoMessage THEN <<>> ELSE <<received[r]>>
        IN  s \notin torn /\ reader[r] # "crashed"
                => \E upTo \in [0..Len(fs) -> 0..Len(accepted[s])] :
                      /\ read = SubSeq(accepted[s], 1, upTo[0])
                      /\ upTo[Len(fs)] = Len(accepted[s])
                      /\ \A i \in 1..Len(fs) :
                            IF Carries(fs[i])
                            THEN upTo[i] = upTo[i - 1] + 1 /\ accepted[s][upTo[i]] = fs[i].msg
                            ELSE upTo[i] = upTo[i - 1]

\* handshake_client.go:102, handshake_server.go:70: no message passes, in either
\* direction, unless both sides trust each other and have proved their work.
DeliveryNeedsTrust ==
    (\E s \in Side : delivered[s] # <<>>) => willing = Side

\* peer.go:222: what a reader panics about.  With both sides there, a stream of
\* whole frames makes no sense to it for one reason only (peer.go:219, 285): the
\* first message of its type was cut off behind its head, by an error of the
\* writer or a timeout of the reader; whatever else is given up, and whenever,
\* no type is missing and none comes twice.
CrashHasACause ==
    \A s \in Side :
        reader[s] = "crashed" =>
            \/ ~HasConn(s) \/ Other(s) \in shut \/ Other(s) \in torn \cup cut
            \/ willing # Side
            \/ budget[s] = 0
            \/ \E i \in DOMAIN accepted[Other(s)] : accepted[Other(s)][i] \in Oversized[Other(s)]

\* Once a Central controller closes its endpoint or refuses the connection, or
\* the client gives up its dial, all goroutines of both sides end and both
\* sides close the connection: nobody is left behind half open.
\* Excepted is an endpoint that was closed before its reader ever set a deadline:
\* its writer may wait for room in the TCP buffers without end.
Over ==
    shut = Side /\ \A s \in Side : Ended(s) \/ (s = "server" /\ reader[s] = "none")

Unguarded(s) == reader[s] = "closed" /\ deadline[s] = "none" /\ writer[s] = "writing"

OneEndEndsBoth ==
    (closing # {} \/ shut # {}) ~> Over \/ \E s \in Side : Unguarded(s)
=============================================================================
