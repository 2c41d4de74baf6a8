----------------------------- MODULE SecureConn -----------------------------
(***************************************************************************)
(* One TCP connection with the handshake and the sealed frames that        *)
(* src/crypto/securecomm puts on it.  The client is the side that dialled, *)
(* the server the side that accepted.                                      *)
(*                                                                         *)
(* The bytes one side sends are a sequence of frames, each one message of  *)
(* the gob encoder `output': a handshake, or one sealed write of the gob   *)
(* stream of the endpoint: the descriptor of a type, the head of a message *)
(* with the descriptor of its payload, its rest, or a message in one go.   *)
(* A frame is torn when a deadline cut off the one who wrote or read it:   *)
(* what is left of it is then taken for the beginning of a frame.  The     *)
(* descriptors of `output' travel with the handshake, without which a      *)
(* connection is given up.  A client sends one handshake, so that there is *)
(* one key and it is left out.                                             *)
(***************************************************************************)
EXTENDS Integers, Sequences

CONSTANTS
    MaxSends,   \* bound: side -> messages it sends
    Oversized,  \* side -> its messages that do not fit the 4096 bytes of the reader's buffer
    Type,       \* the types of the gob stream of an endpoint
    WireCap,    \* bound: frames the two TCP buffers of one direction hold
    Quota,      \* frames that make up 65580*cacheSize bytes
    OneTear     \* bound: TRUE if deadlines tear one frame only

Side == {"client", "server"}

ASSUME WireAssumption ==
    /\ MaxSends \in [Side -> Nat] /\ Oversized \in [Side -> SUBSET Nat]
    /\ WireCap \in Nat \ {0} /\ Quota \in Nat /\ OneTear \in BOOLEAN

Other(s) == IF s = "client" THEN "server" ELSE "client"

VARIABLES
    wire,            \* side -> the frames it sent that were not read yet
    torn,            \* history: the sides of whose frames one was torn
    budget,          \* side -> frames its LimitReader still lets through
    shut,            \* the sides that closed the TCP connection
    deadline,        \* side -> "none", "ahead" or "passed"
    willing,         \* the sides that trust the identity of the other one and
                     \* find a nonce for their proof of work
    stage,           \* side -> "start", "midway", "done" (handShakeCompleted)
    handshakeMutex,  \* of the server; only the dialling goroutine wants the client's
    dialled          \* "pending", "connected" or "failed"

stream == <<wire, torn, budget>>
conns == <<stream, shut, deadline, willing, stage, handshakeMutex, dialled>>

NoMessage == 0

HighestMessage == IF MaxSends["client"] > MaxSends["server"]
                  THEN MaxSends["client"] ELSE MaxSends["server"]

NoType == "none"

Frame(kind, m, type) == [kind |-> kind, msg |-> m, type |-> type, whole |-> TRUE]

HandshakeFrame == Frame("handshake", NoMessage, NoType)

Kinds == {"handshake", "type", "head", "rest", "value"}

Frames ==
    [kind : Kinds, msg : 0..HighestMessage, type : Type \cup {NoType}, whole : BOOLEAN]

Incoming(s) == wire[Other(s)]

ConnInit ==
    /\ wire = [s \in Side |-> <<>>]
    /\ torn = {}
    /\ budget = [s \in Side |-> Quota]
    /\ shut = {}
    /\ deadline = [s \in Side |-> "none"]
    /\ willing \in SUBSET Side
    /\ stage = [s \in Side |-> "start"]
    /\ handshakeMutex = "none"
    /\ dialled = "pending"
-----------------------------------------------------------------------------
(* read and write *)

Torn(f) == [f EXCEPT !.whole = FALSE]

TornHead(fs) == <<Torn(Head(fs))>> \o Tail(fs)

CanRead(s) == budget[s] > 0 /\ Incoming(s) # <<>> /\ Head(Incoming(s)).whole

Consume(s) ==
    /\ wire' = [wire EXCEPT ![Other(s)] = Tail(@)]
    /\ budget' = [budget EXCEPT ![s] = @ - 1]
    /\ UNCHANGED torn

\* A fault: a timeout is an error like any other.
ReadFailsAtOnce(s) ==
    (Other(s) \in shut \/ budget[s] = 0 \/ deadline[s] = "passed") /\ UNCHANGED stream

\* Decode fails for good: nothing more comes, the limit of the reader is
\* reached, or the rest of a torn frame makes no sense.
ReadFails(s) ==
    /\ \/ Other(s) \in shut
       \/ budget[s] = 0
       \/ Incoming(s) # <<>> /\ ~Head(Incoming(s)).whole
    /\ UNCHANGED stream

\* What may be left to read after a Decode that met its deadline: it drops
\* what it has read of a frame; in the rest of a torn one it takes any bytes
\* for a length and drops as many of the following as have come.
LeftAfterTimeout(fs) ==
    LET From(i) == SubSeq(fs, i, Len(fs))
    IN  {fs} \cup
        IF fs = <<>> THEN {}
        ELSE IF Head(fs).whole THEN {TornHead(fs)}
        ELSE {From(i) : i \in 2..(Len(fs) + 1)} \cup {TornHead(From(i)) : i \in 2..Len(fs)}

MayTear == torn = {} \/ ~OneTear

Tears(fs, left) == left \notin {fs, <<>>} /\ ~Head(left).whole

ReadTimesOut(s) ==
    /\ deadline[s] = "passed"
    /\ \E left \in LeftAfterTimeout(Incoming(s)) :
          LET dropped == Len(Incoming(s)) - Len(left)
          IN  /\ Tears(Incoming(s), left) => MayTear
              /\ wire' = [wire EXCEPT ![Other(s)] = left]
              /\ torn' = IF left = Incoming(s) THEN torn ELSE torn \cup {Other(s)}
              /\ budget' = [budget EXCEPT ![s] = IF @ > dropped THEN @ - dropped ELSE 0]

\* A fault: a frame for which there is no room is dropped.
WriteDrops(s, frame) ==
    /\ deadline[s] # "passed"
    /\ wire' = [wire EXCEPT ![s] = IF Len(@) < WireCap THEN Append(@, frame) ELSE @]
    /\ UNCHANGED <<torn, budget>>

\* Encode succeeds: the frame is in the TCP buffers.
WriteSucceeds(s, frame) ==
    /\ deadline[s] # "passed"
    /\ Len(wire[s]) < WireCap
    /\ wire' = [wire EXCEPT ![s] = Append(@, frame)]
    /\ UNCHANGED <<torn, budget>>

\* Encode fails: the other side is gone, or the deadline has passed; if the
\* buffers were full it may have passed in the middle of the frame.
WriteFails(s, frame) ==
    \/ (Other(s) \in shut \/ deadline[s] = "passed") /\ UNCHANGED stream
    \/ /\ deadline[s] = "passed" /\ Len(wire[s]) = WireCap /\ MayTear
       /\ wire' = [wire EXCEPT ![s] = Append(@, Torn(frame))]
       /\ torn' = torn \cup {s}
       /\ UNCHANGED budget

DeadlinePasses(s) ==
    /\ deadline[s] = "ahead"
    /\ deadline' = [deadline EXCEPT ![s] = "passed"]
    /\ UNCHANGED <<stream, shut, willing, stage, handshakeMutex, dialled>>
-----------------------------------------------------------------------------
(* Handshake *)

\* A fault: the identity is not checked.
AcceptsAnyone(s, frame) == frame.kind = "handshake"

\* checkProofOfWorkValidity and CheckIdentity, and ProofOfWork of its own.
Trusts(s) == s \in willing

\* A sealed message is no handshake.  That isValid, the addresses and the
\* signature are right is part of its kind.
Accepts(s, frame) == frame.kind = "handshake" /\ Trusts(s)

\* The client's goroutine inside dial writes a handshake ...
ClientSendsHandshake ==
    /\ dialled = "pending" /\ stage["client"] = "start"
    /\ WriteSucceeds("client", HandshakeFrame)
    /\ stage' = [stage EXCEPT !["client"] = "midway"]

\* ... and reads the answer, both without a deadline of the connection.
ClientReadsReply ==
    /\ dialled = "pending" /\ stage["client"] = "midway"
    /\ CanRead("client") /\ Accepts("client", Head(Incoming("client")))
    /\ Consume("client")
    /\ stage' = [stage EXCEPT !["client"] = "done"]

ClientHandshakeFails ==
    /\ dialled = "pending"
    /\ \/ stage["client"] = "start" /\ ~Trusts("client")
       \/ stage["client"] = "start" /\ "server" \in shut
       \/ stage["client"] = "midway" /\ ReadFails("client")
       \/ /\ stage["client"] = "midway" /\ CanRead("client")
          /\ ~Accepts("client", Head(Incoming("client")))
    /\ UNCHANGED stream

\* The server's handshake, run by the goroutine that reads or writes first.
ServerTakesMutex(g) ==
    /\ stage["server"] # "done" /\ handshakeMutex = "none"
    /\ handshakeMutex' = g
    /\ UNCHANGED stage

ServerReadsHandshake(g) ==
    /\ stage["server"] = "start" /\ handshakeMutex = g
    /\ CanRead("server") /\ Accepts("server", Head(Incoming("server")))
    /\ Consume("server")
    /\ stage' = [stage EXCEPT !["server"] = "midway"]
    /\ UNCHANGED handshakeMutex

\* The result of writing the answer is not looked at.
ServerReplies(g) ==
    /\ stage["server"] = "midway" /\ handshakeMutex = g
    /\ WriteSucceeds("server", HandshakeFrame) \/ WriteFails("server", HandshakeFrame)
    /\ stage' = [stage EXCEPT !["server"] = "done"]
    /\ handshakeMutex' = "none"

\* The next Read or Write starts a new handshake.
ServerHandshakeFails(g) ==
    /\ stage["server"] = "start" /\ handshakeMutex = g
    /\ \/ ReadFails("server")
       \/ /\ CanRead("server") /\ Consume("server")
          /\ ~Accepts("server", Head(Incoming("server")))
    /\ handshakeMutex' = "none"
    /\ UNCHANGED stage

ServerHandshakeTimesOut(g) ==
    /\ stage["server"] = "start" /\ handshakeMutex = g
    /\ ReadTimesOut("server")
    /\ handshakeMutex' = "none"
    /\ UNCHANGED stage
=============================================================================
