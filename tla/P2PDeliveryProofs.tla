-------------------------- MODULE P2PDeliveryProofs --------------------------
(***************************************************************************)
(* What passes between two P2PEndpoints, whatever they send and whatever   *)
(* their deadlines tear: messages pass between sides that trust each other *)
(* only, a reader crashes for a reason only, and what was written is       *)
(* delivered in order and once.                                            *)
(***************************************************************************)
EXTENDS P2PProofs

-----------------------------------------------------------------------------
(* Frames move towards the reader *)

\* Frames of s may have been read or lost; the others kept their order.
Taken(s) ==
    \A i \in DOMAIN wire'[s] :
        \E j \in DOMAIN wire[s] : i <= j /\ SameFrame(wire'[s][i], wire[s][j])

\* f, or what was written of it, is the last frame of s.
Added(s, f) ==
    \A i \in DOMAIN wire'[s] :
        \/ i \in DOMAIN wire[s] /\ SameFrame(wire'[s][i], wire[s][i])
        \/ i = Len(wire[s]) + 1 /\ SameFrame(wire'[s][i], f)

LEMMA FramesMove ==
    ASSUME StreamTyped, NEW s \in Side
    PROVE  /\ CanRead(s) /\ Consume(s) =>
                /\ wire'[s] = wire[s] /\ Taken(Other(s))
                /\ \A i \in DOMAIN wire'[Other(s)] :
                      /\ i + 1 \in DOMAIN wire[Other(s)]
                      /\ wire'[Other(s)][i] = wire[Other(s)][i + 1]
           /\ ReadTimesOut(s) => wire'[s] = wire[s] /\ Taken(Other(s))
           /\ \A f \in Frames :
                 WriteSucceeds(s, f) \/ WriteFails(s, f)
                 => wire'[Other(s)] = wire[Other(s)] /\ Added(s, f)
<1> DEFINE r == Other(s)
<1>0. r \in Side /\ r # s /\ wire \in [Side -> Seq(Frames)]
  BY OtherSide DEF StreamTyped
<1>1. ASSUME CanRead(s), Consume(s)
      PROVE  /\ wire'[s] = wire[s] /\ Taken(r)
             /\ \A i \in DOMAIN wire'[r] :
                   i + 1 \in DOMAIN wire[r] /\ wire'[r][i] = wire[r][i + 1]
  <2>1. wire[r] \in Seq(Frames) /\ wire[r] # <<>> /\ wire' = [wire EXCEPT ![r] = Tail(@)]
    BY <1>0, <1>1 DEF CanRead, Consume, Incoming
  <2> HIDE DEF r
  <2>2. wire'[s] = wire[s] /\ wire'[r] = Tail(wire[r])
    BY <1>0, <2>1
  <2>3. \A i \in DOMAIN wire'[r] :
           i \in Nat /\ i + 1 \in DOMAIN wire[r] /\ wire'[r][i] = wire[r][i + 1]
    <3> DEFINE fs == wire[r]
               t == Tail(fs)
    <3>1. fs \in Seq(Frames) /\ fs # <<>>
      BY <2>1
    <3> HIDE DEF fs
    <3>2. \A i \in DOMAIN t : i \in Nat /\ i + 1 \in DOMAIN fs /\ t[i] = fs[i + 1]
      BY <3>1
    <3> QED BY <2>2, <3>2 DEF fs
  <2> QED BY <2>2, <2>3 DEF Taken, SameFrame
<1>2. ASSUME ReadTimesOut(s) PROVE wire'[s] = wire[s] /\ Taken(r)
  <2>1. PICK left \in LeftAfterTimeout(wire[r]) : wire' = [wire EXCEPT ![r] = left]
    BY <1>2 DEF ReadTimesOut, Incoming
  <2>2. wire[r] \in Seq(Frames)
    BY <1>0
  <2> HIDE DEF r
  <2>3. PICK d \in 0..Len(wire[r]) : LastOf(left, wire[r], d)
    BY <2>2, LeftIsLast
  <2>4. wire'[s] = wire[s] /\ wire'[r] = left
    BY <1>0, <2>1
  <2>5. ASSUME NEW i \in DOMAIN left
        PROVE  \E j \in DOMAIN wire[r] : i <= j /\ SameFrame(left[i], wire[r][j])
    <3> DEFINE j == d + i
    <3>1. i \in 1..Len(left) /\ Len(left) = Len(wire[r]) - d
      BY <2>3 DEF LastOf
    <3>2. j \in DOMAIN wire[r] /\ i <= j
      BY <2>2, <3>1
    <3>3. SameFrame(left[i], wire[r][j])
      BY <2>3, <3>1 DEF LastOf, SameFrame
    <3> QED BY <3>2, <3>3
  <2> QED BY <2>4, <2>5 DEF Taken
<1>3. ASSUME NEW f \in Frames, NEW g, g = f \/ g = Torn(f),
             wire' = [wire EXCEPT ![s] = Append(@, g)]
      PROVE  wire'[r] = wire[r] /\ Added(s, f)
  <2>1. wire[s] \in Seq(Frames) /\ wire'[s] = Append(wire[s], g) /\ wire'[r] = wire[r]
    BY <1>0, <1>3
  <2>2. g \in Frames /\ SameFrame(g, f)
    BY <1>3, FramesBuilt DEF SameFrame
  <2>3. \A i \in DOMAIN wire'[s] : \/ i \in DOMAIN wire[s] /\ wire'[s][i] = wire[s][i]
                                   \/ i = Len(wire[s]) + 1 /\ wire'[s][i] = g
    BY <2>1, <2>2
  <2> QED BY <2>1, <2>2, <2>3 DEF Added, SameFrame
<1>4. ASSUME NEW f \in Frames, UNCHANGED stream
      PROVE  wire'[r] = wire[r] /\ Added(s, f)
  BY <1>4 DEF stream, Added, SameFrame
<1>5. ASSUME NEW f \in Frames, WriteSucceeds(s, f) \/ WriteFails(s, f)
      PROVE  wire'[r] = wire[r] /\ Added(s, f)
  BY <1>3, <1>4, <1>5 DEF WriteSucceeds, WriteFails
<1> QED
  BY <1>1, <1>2, <1>5

-----------------------------------------------------------------------------
(* Trust *)

\* How far the handshake has come on both sides.
Stages ==
    /\ stage["server"] # "start" => "server" \in willing
    /\ wire["server"] # <<>> => stage["server"] = "done"
    /\ stage["client"] = "done" => willing = Side /\ stage["server"] = "done"
    /\ stage["client"] = "start" => wire["client"] = <<>> /\ stage["server"] = "start"

\* A handshake is the first frame that waits to be read, and its reader waits
\* for it; everything else is sent when the handshake is over.
Ordered ==
    \A s \in Side : \A i \in DOMAIN wire[s] :
        /\ wire[s][i].kind = "handshake" =>
              /\ i = 1 /\ stage[Other(s)] # "done"
              /\ s = "client" => stage["server"] = "start"
        /\ wire[s][i].kind # "handshake" => stage[s] = "done"

Passed ==
    \A s \in Side : reader[s] = "delivering" \/ delivered[s] # <<>> => willing = Side

Trusting == Stages /\ Ordered /\ Passed

LEMMA BothSides ==
    Side = {"client", "server"} /\ Other("client") = "server" /\ Other("server") = "client"
BY DEF Side, Other

\* No frame goes by while the stages stay, or one whose time has come.
LEMMA StagesStay ==
    ASSUME Typed, Stages, Ordered, UNCHANGED <<stage, willing>>, StreamTyped',
           \A s \in Side :
              \/ wire'[s] = wire[s] \/ Taken(s)
              \/ \E f \in Frames :
                    Added(s, f) /\ stage[s] = "done" /\ f.kind # "handshake"
    PROVE  Stages' /\ Ordered'
<1> wire \in [Side -> Seq(Frames)] /\ wire' \in [Side -> Seq(Frames)]
  BY DEF Typed, StreamTyped
<1>1. ASSUME NEW s \in Side, wire'[s] # <<>>
      PROVE  wire[s] # <<>> \/ stage[s] = "done"
  <2>1. 1 \in DOMAIN wire'[s]
    BY <1>1
  <2>2. CASE Taken(s)
    BY <2>1, <2>2 DEF Taken
  <2> QED BY <1>1, <2>2
<1>2. Stages'
  BY <1>1, BothSides DEF Stages
<1>3. ASSUME NEW s \in Side, NEW i \in DOMAIN wire'[s]
      PROVE  \/ \E j \in DOMAIN wire[s] : i <= j /\ SameFrame(wire'[s][i], wire[s][j])
             \/ stage[s] = "done" /\ wire'[s][i].kind # "handshake"
  <2>0. i \in Nat
    OBVIOUS
  <2>1. CASE wire'[s] = wire[s]
    BY <2>0, <2>1 DEF SameFrame
  <2>2. CASE Taken(s)
    BY <2>2 DEF Taken
  <2>3. ASSUME NEW f \in Frames, Added(s, f), stage[s] = "done", f.kind # "handshake"
        PROVE  \/ \E j \in DOMAIN wire[s] : i <= j /\ SameFrame(wire'[s][i], wire[s][j])
               \/ stage[s] = "done" /\ wire'[s][i].kind # "handshake"
    <3>1. CASE i \in DOMAIN wire[s] /\ SameFrame(wire'[s][i], wire[s][i])
      <4>1. i <= i
        BY <2>0
      <4> QED BY <3>1, <4>1, Zenon
    <3>2. CASE SameFrame(wire'[s][i], f)
      BY <2>3, <3>2 DEF SameFrame
    <3> QED BY <2>3, <3>1, <3>2 DEF Added
  <2> QED BY <2>1, <2>2, <2>3
<1>4. ASSUME NEW s \in Side, NEW i \in DOMAIN wire'[s], NEW j \in DOMAIN wire[s], i <= j,
             SameFrame(wire'[s][i], wire[s][j])
      PROVE  /\ wire'[s][i].kind = "handshake" =>
                   /\ i = 1 /\ stage[Other(s)] # "done"
                   /\ s = "client" => stage["server"] = "start"
             /\ wire'[s][i].kind # "handshake" => stage[s] = "done"
  <2>1. i \in Nat \ {0} /\ j \in Nat
    OBVIOUS
  <2> QED BY <1>4, <2>1 DEF Ordered, SameFrame
<1>5. Ordered'
  BY <1>3, <1>4 DEF Ordered
<1> QED
  BY <1>2, <1>5

LEMMA TrustInit == Init => Trusting
BY BothSides DEF Init, ConnInit, Trusting, Stages, Ordered, Passed

\* A step of Encode writes one frame at most, and no handshake.
LEMMA WriterSends ==
    ASSUME Typed, NEW s \in Side,
           WriterDescribes(s) \/ WriterDescribesInner(s) \/ WriterWrites(s)
    PROVE  \E f \in Frames :
              /\ f.kind # "handshake"
              /\ WriteSucceeds(s, f) \/ WriteFails(s, f) \/ UNCHANGED stream
<1>1. writing[s] \in 1..HighestMessage /\ Payload(s) \in Type
  <2>1. writing[s] \in 1..HighestMessage
    BY HighestIsHighest
       DEF WriterDescribes, WriterDescribesInner, WriterWrites, Encodes, Typed, HalvesTyped
  <2> QED BY <2>1, TypesAssumption DEF Payload
<1>2. 0 \in 0..HighestMessage /\ writing[s] \in 0..HighestMessage /\ NoMessage = 0
  BY <1>1, HighestIsHighest DEF NoMessage
<1>3. ASSUME NEW kind \in {"type", "head", "rest", "value"}, NEW m \in 0..HighestMessage,
             NEW T \in Type,
             \/ WriteSucceeds(s, Frame(kind, m, T)) \/ WriteFails(s, Frame(kind, m, T))
             \/ UNCHANGED stream
      PROVE  \E f \in Frames :
                /\ f.kind # "handshake"
                /\ WriteSucceeds(s, f) \/ WriteFails(s, f) \/ UNCHANGED stream
  <2>1. Frame(kind, m, T) \in Frames /\ Frame(kind, m, T).kind # "handshake"
    BY FramesBuilt DEF Kinds
  <2> QED BY <1>3, <2>1
<1>4. CASE WriterDescribes(s)
  <2>1. \/ /\ \/ WriteSucceeds(s, Frame("type", NoMessage, InternalMessage))
              \/ WriteFails(s, Frame("type", NoMessage, InternalMessage))
        \/ /\ \/ WriteSucceeds(s, Frame("head", writing[s], Payload(s)))
              \/ WriteFails(s, Frame("head", writing[s], Payload(s)))
    BY <1>4 DEF WriterDescribes
  <2> QED BY <1>1, <1>2, <1>3, <2>1, TypesAssumption
<1>5. CASE WriterDescribesInner(s)
  <2>1. Head(toDescribe[s]) \in Type
    BY <1>5, VisitTyped DEF WriterDescribesInner, Typed
  <2>2. \/ WriteSucceeds(s, Frame("type", NoMessage, Head(toDescribe[s])))
        \/ WriteFails(s, Frame("type", NoMessage, Head(toDescribe[s])))
        \/ UNCHANGED stream
    BY <1>5 DEF WriterDescribesInner
  <2> QED BY <1>2, <1>3, <2>1, <2>2
<1>6. CASE WriterWrites(s)
  <2>1. \E kind \in {"rest", "value"} :
           \/ WriteSucceeds(s, Frame(kind, writing[s], Payload(s)))
           \/ WriteFails(s, Frame(kind, writing[s], Payload(s)))
           \/ UNCHANGED stream
    BY <1>6 DEF WriterWrites
  <2> QED BY <1>1, <1>2, <1>3, <2>1
<1> QED
  BY <1>4, <1>5, <1>6

LEMMA HandshakeTrusts ==
    ASSUME Typed, Stages, Ordered, StreamTyped', UNCHANGED willing,
           \/ ClientSendsHandshake \/ ClientReadsReply
           \/ \E g \in {"reader", "writer"} : ServerReadsHandshake(g) \/ ServerReplies(g)
    PROVE  Stages' /\ Ordered'
<1> DEFINE hs == HandshakeFrame
<1>0. /\ wire \in [Side -> Seq(Frames)] /\ wire' \in [Side -> Seq(Frames)]
      /\ stage \in [Side -> {"start", "midway", "done"}]
      /\ hs \in Frames /\ hs.kind = "handshake"
      /\ "client" \in Side /\ "server" \in Side
  BY FramesBuilt DEF Typed, StreamTyped, LinkTyped, Side
<1> HIDE DEF hs
\* A direction in which nothing waited and a handshake may have been sent.
<1>1. ASSUME NEW s \in Side, wire[s] = <<>>, Added(s, hs), NEW i \in DOMAIN wire'[s]
      PROVE  i = 1 /\ wire'[s][i].kind = "handshake"
  <2>1. DOMAIN wire[s] = {} /\ Len(wire[s]) = 0
    BY <1>1
  <2> QED BY <1>0, <1>1, <2>1 DEF Added, SameFrame
\* A direction from which a frame was read.
<1>2. ASSUME NEW s \in Side, wire[s] # <<>>, Taken(s), NEW i \in DOMAIN wire'[s],
             i + 1 \in DOMAIN wire[s], wire'[s][i] = wire[s][i + 1]
      PROVE  wire'[s][i].kind # "handshake" /\ stage[s] = "done"
  <2>1. i \in Nat \ {0} /\ i + 1 # 1
    BY <1>0
  <2> QED BY <1>2, <2>1 DEF Ordered
<1>3. CASE ClientSendsHandshake
  <2>1. /\ stage["client"] = "start" /\ stage' = [stage EXCEPT !["client"] = "midway"]
        /\ wire'["server"] = wire["server"] /\ Added("client", hs)
    BY <1>0, <1>3, FramesMove, BothSides DEF ClientSendsHandshake, Typed, hs
  <2>2. wire["client"] = <<>> /\ stage["server"] = "start" /\ wire["server"] = <<>>
    BY <2>1 DEF Stages
  <2>3. Stages'
    BY <1>0, <2>1, <2>2 DEF Stages
  <2>4. Ordered'
    BY <1>0, <1>1, <2>1, <2>2, BothSides DEF Ordered
  <2> QED BY <2>3, <2>4
<1>4. CASE ClientReadsReply
  <2>1. /\ stage["client"] = "midway" /\ stage' = [stage EXCEPT !["client"] = "done"]
        /\ "client" \in willing /\ wire["server"] # <<>>
        /\ CanRead("client") /\ Consume("client")
    BY <1>4, BothSides DEF ClientReadsReply, CanRead, Incoming, Accepts, Trusts
  <2>2. /\ wire'["client"] = wire["client"] /\ Taken("server")
        /\ \A i \in DOMAIN wire'["server"] :
              i + 1 \in DOMAIN wire["server"] /\ wire'["server"][i] = wire["server"][i + 1]
    BY <1>0, <2>1, FramesMove, BothSides DEF Typed
  <2>3. stage["server"] = "done" /\ "server" \in willing /\ willing = Side
    BY <2>1, BothSides DEF Stages, Typed, LinkTyped
  <2>4. Stages'
    BY <1>0, <2>1, <2>2, <2>3 DEF Stages
  <2>5. \A i \in DOMAIN wire'["server"] : wire'["server"][i].kind # "handshake"
    BY <1>0, <1>2, <2>1, <2>2
  <2>6. Ordered'
    BY <1>0, <2>1, <2>2, <2>3, <2>5, BothSides DEF Ordered
  <2> QED BY <2>4, <2>6
<1>5. CASE \E g \in {"reader", "writer"} : ServerReadsHandshake(g)
  <2>1. /\ stage["server"] = "start" /\ stage' = [stage EXCEPT !["server"] = "midway"]
        /\ "server" \in willing /\ wire["client"] # <<>>
        /\ CanRead("server") /\ Consume("server")
    BY <1>5, BothSides DEF ServerReadsHandshake, CanRead, Incoming, Accepts, Trusts
  <2>2. /\ wire'["server"] = wire["server"] /\ Taken("client")
        /\ \A i \in DOMAIN wire'["client"] :
              i + 1 \in DOMAIN wire["client"] /\ wire'["client"][i] = wire["client"][i + 1]
    BY <1>0, <2>1, FramesMove, BothSides DEF Typed
  <2>3. wire["server"] = <<>> /\ stage["client"] # "done" /\ stage["client"] # "start"
    BY <2>1 DEF Stages
  <2>4. Stages'
    BY <1>0, <2>1, <2>2, <2>3 DEF Stages
  <2>5. \A i \in DOMAIN wire'["client"] :
           /\ wire'["client"][i].kind # "handshake" /\ stage["client"] = "done"
    BY <1>0, <1>2, <2>1, <2>2
  <2>6. Ordered'
    BY <1>0, <2>1, <2>2, <2>3, <2>5, BothSides DEF Ordered
  <2> QED BY <2>4, <2>6
<1>6. CASE \E g \in {"reader", "writer"} : ServerReplies(g)
  <2>1. /\ stage["server"] = "midway" /\ stage' = [stage EXCEPT !["server"] = "done"]
        /\ WriteSucceeds("server", hs) \/ WriteFails("server", hs)
    BY <1>6 DEF ServerReplies, hs
  <2>2. wire'["client"] = wire["client"] /\ Added("server", hs)
    BY <1>0, <2>1, FramesMove, BothSides DEF Typed
  <2>3. wire["server"] = <<>> /\ stage["client"] # "done" /\ stage["client"] # "start"
        /\ "server" \in willing
    BY <2>1 DEF Stages
  <2>4. Stages'
    BY <1>0, <2>1, <2>2, <2>3 DEF Stages
  <2>5. Ordered'
    BY <1>0, <1>1, <2>1, <2>2, <2>3, BothSides DEF Ordered
  <2> QED BY <2>4, <2>5
<1> QED
  BY <1>3, <1>4, <1>5, <1>6

\* Steps of which the only effect on what is on the way is that of a frame of
\* the endpoints, or of one that is given up.
LEMMA EndpointTrusts ==
    ASSUME Typed, Stages, Ordered, StreamTyped', NEW s \in Side,
           \/ ReaderReads(s) \/ ReaderTimesOut(s)
           \/ WriterDescribes(s) \/ WriterDescribesInner(s) \/ WriterWrites(s)
           \/ /\ s = "server"
              /\ \E g \in {"reader", "writer"} : HandshakeFails(g) \/ HandshakeTimesOut(g)
    PROVE  Stages' /\ Ordered'
<1>0. /\ Side = {s, Other(s)} /\ s \in Side /\ Other(s) \in Side
      /\ UNCHANGED <<stage, willing>>
  BY BothSides DEF ReaderReads, ReaderTimesOut, WriterDescribes, WriterDescribesInner, WriterWrites,
                   HandshakeFails, HandshakeTimesOut, ServerHandshakeFails, ServerHandshakeTimesOut
<1>1. ASSUME wire'[s] = wire[s], wire'[Other(s)] = wire[Other(s)] \/ Taken(Other(s))
      PROVE  Stages' /\ Ordered'
  <2>1. \A x \in Side : wire'[x] = wire[x] \/ Taken(x)
    BY <1>0, <1>1
  <2> QED BY <1>0, <2>1, StagesStay
<1>2. ASSUME NEW f \in Frames, WriteSucceeds(s, f) \/ WriteFails(s, f),
             stage[s] = "done", f.kind # "handshake"
      PROVE  Stages' /\ Ordered'
  <2>1. wire'[Other(s)] = wire[Other(s)] /\ Added(s, f)
    BY <1>2, FramesMove DEF Typed
  <2>2. \A x \in Side :
              \/ wire'[x] = wire[x] \/ Taken(x)
              \/ \E g \in Frames :
                    Added(x, g) /\ stage[x] = "done" /\ g.kind # "handshake"
    BY <1>0, <1>2, <2>1
  <2> QED BY <1>0, <2>2, StagesStay
<1>3. ASSUME (CanRead(s) /\ Consume(s)) \/ ReadTimesOut(s) \/ UNCHANGED stream
      PROVE  Stages' /\ Ordered'
  <2>1. UNCHANGED stream => UNCHANGED wire
    BY DEF stream
  <2> QED BY <1>1, <1>3, <2>1, FramesMove DEF Typed
<1>4. CASE ReaderReads(s) \/ ReaderTimesOut(s)
  BY <1>3, <1>4 DEF ReaderReads, ReaderTimesOut
<1>5. CASE WriterDescribes(s) \/ WriterDescribesInner(s) \/ WriterWrites(s)
  <2>1. PICK f \in Frames :
           /\ f.kind # "handshake"
           /\ WriteSucceeds(s, f) \/ WriteFails(s, f) \/ UNCHANGED stream
    BY <1>5, WriterSends
  <2>2. stage[s] = "done"
    BY <1>5 DEF WriterDescribes, WriterDescribesInner, WriterWrites, Encodes
  <2> QED BY <1>2, <1>3, <2>1, <2>2
<1>6. CASE /\ s = "server"
           /\ \E g \in {"reader", "writer"} : HandshakeFails(g) \/ HandshakeTimesOut(g)
  BY <1>3, <1>6 DEF HandshakeFails, HandshakeTimesOut, ServerHandshakeFails,
                    ServerHandshakeTimesOut, ReadFails
<1> QED
  BY <1>4, <1>5, <1>6

LEMMA WillingStays == [Next]_vars => UNCHANGED willing
BY DEF Next, Dials, DialReturns, HandshakeEndsDial, DialTimesOut, DialFails, ServerStarts,
       ServerRefuses, Reader, ReaderBegins, ReaderReads, ReaderTimesOut, ReaderDelivers,
       ReaderPanics, ReaderFails, Handshake, HandshakeFails, HandshakeTimesOut,
       Writer, WriterTakes, WriterDescribes, WriterDescribesInner, WriterWrites, WriterCrashes,
       DeadlineStep, DeadlinePasses, CentralSends, CentralCloses, CentralShuts, vars, conns

\* What is delivered was sealed by a side whose handshake was over.
LEMMA PassedStays ==
    ASSUME Typed, Trusting, Typed', [Next]_vars
    PROVE  Passed'
<1>1. UNCHANGED willing
  BY WillingStays
<1>2. ASSUME NEW s \in Side, ReaderReads(s), reader'[s] = "delivering"
      PROVE  willing = Side
  <2>1. /\ Incoming(s) # <<>> /\ Head(Incoming(s)).kind # "handshake" /\ stage[s] = "done"
        /\ reader[s] = "reading" /\ reader \in [Side -> {"none", "begin", "reading", "delivering", "closed", "crashed"}]
    BY <1>2 DEF ReaderReads, CanRead, ReaderGoes, Decodable, Typed, HalvesTyped
  <2>2. /\ wire[Other(s)] # <<>> /\ wire[Other(s)][1].kind # "handshake"
        /\ 1 \in DOMAIN wire[Other(s)] /\ Other(s) \in Side
    BY <2>1, OtherSide DEF Incoming, Typed, StreamTyped
  <2>3. stage[Other(s)] = "done"
    BY <2>2 DEF Trusting, Ordered
  <2>4. stage["client"] = "done"
    BY <2>1, <2>3, BothSides
  <2> QED BY <2>4 DEF Trusting, Stages
<1>3. ASSUME NEW s \in Side, reader'[s] = "delivering"
      PROVE  reader[s] = "delivering" \/ ReaderReads(s)
  <2> DEFINE Goes == \E x \in Side, state \in {"begin", "reading", "closed", "crashed"} :
                        ReaderGoes(x, state)
  <2>1. CASE Goes
    BY <1>3, <2>1 DEF ReaderGoes, Typed, HalvesTyped
  <2>2. ASSUME NEW x \in Side, NextTurn(x) PROVE Goes
    BY <2>2 DEF NextTurn
  <2>3. ASSUME NEW x \in Side, RunGoroutines(x) PROVE Goes
    BY <2>3 DEF RunGoroutines
  <2>4. CASE \E x \in Side : ReaderReads(x)
    <3>1. PICK x \in Side : ReaderReads(x)
      BY <2>4
    <3>2. UNCHANGED reader \/ ReaderGoes(x, "delivering") \/ Goes
      BY <3>1 DEF ReaderReads
    <3> QED BY <1>3, <2>1, <3>1, <3>2 DEF ReaderGoes, Typed, HalvesTyped
  <2>5. CASE \/ DialReturns \/ DialFails \/ ServerStarts
             \/ \E x \in Side : \/ ReaderBegins(x) \/ ReaderTimesOut(x) \/ ReaderDelivers(x)
                                \/ ReaderFails(x)
    BY <2>1, <2>2, <2>3, <2>5, BothSides
       DEF DialReturns, DialFails, ServerStarts, ReaderBegins, ReaderTimesOut, ReaderDelivers,
           ReaderFails
  <2>6. CASE \E g \in {"reader", "writer"} : HandshakeFails(g) \/ HandshakeTimesOut(g)
    <3>1. ReaderGoes("server", "crashed") \/ NextTurn("server") \/ UNCHANGED reader
      BY <2>6 DEF HandshakeFails, HandshakeTimesOut
    <3> QED BY <1>3, <2>1, <2>2, <3>1, BothSides
  <2>7. CASE \/ UNCHANGED vars \/ Dials \/ ServerRefuses
             \/ \E g \in {"reader", "writer"} : Handshake(g)
             \/ \E x \in Side :
                   \/ WriterTakes(x) \/ WriterDescribes(x) \/ WriterDescribesInner(x) \/ WriterWrites(x)
                   \/ WriterCrashes(x)
                   \/ DeadlineStep(x) \/ CentralSends(x) \/ CentralCloses(x) \/ CentralShuts(x)
    <3>1. UNCHANGED reader
      BY <2>7 DEF vars, Dials, ServerRefuses, Handshake, WriterTakes, WriterDescribes,
                  WriterDescribesInner, WriterWrites, WriterCrashes, DeadlineStep, CentralSends, CentralCloses,
                  CentralShuts
    <3> QED BY <1>3, <3>1
  <2> QED
    BY <2>4, <2>5, <2>6, <2>7
       DEF Next, HandshakeEndsDial, DialTimesOut, Reader, Writer, ReaderPanics
<1>4. ASSUME NEW s \in Side, delivered'[s] # <<>>
      PROVE  delivered[s] # <<>> \/ reader[s] = "delivering"
  BY <1>4, BothSides
     DEF Next, Dials, DialReturns, HandshakeEndsDial, DialTimesOut, DialFails, ServerStarts,
         ServerRefuses, Reader, ReaderBegins, ReaderReads, ReaderTimesOut, ReaderDelivers,
         ReaderPanics, ReaderFails, Handshake, HandshakeFails, HandshakeTimesOut,
         Writer, WriterTakes, WriterDescribes, WriterDescribesInner, WriterWrites, WriterCrashes,
         DeadlineStep, CentralSends, CentralCloses, CentralShuts, vars, history,
         Typed, RestTyped
<1> QED
  BY <1>1, <1>2, <1>3, <1>4 DEF Trusting, Passed

LEMMA TrustNext ==
    ASSUME Typed, Trusting, Typed', [Next]_vars
    PROVE  Trusting'
<1>0. Stages /\ Ordered /\ StreamTyped'
  BY DEF Trusting, Typed
<1>1. Stages' /\ Ordered'
  <2>1. CASE Dials
    BY <1>0, <2>1, HandshakeTrusts DEF Dials, coding
  <2>2. CASE \E g \in {"reader", "writer"} : Handshake(g)
    <3>1. PICK g \in {"reader", "writer"} : Handshake(g)
      BY <2>2
    <3>2. CASE UNCHANGED <<stream, stage>>
      BY <1>0, <3>1, <3>2, StagesStay DEF Handshake, coding, stream
    <3>3. CASE ServerReadsHandshake(g) \/ ServerReplies(g)
      BY <1>0, <3>1, <3>3, HandshakeTrusts DEF Handshake, coding
    <3> QED BY <3>1, <3>2, <3>3 DEF Handshake, ServerTakesMutex
  <2>3. CASE \E s \in Side :
           \/ ReaderReads(s) \/ ReaderTimesOut(s)
           \/ WriterDescribes(s) \/ WriterDescribesInner(s) \/ WriterWrites(s)
           \/ /\ s = "server"
              /\ \E g \in {"reader", "writer"} : HandshakeFails(g) \/ HandshakeTimesOut(g)
    BY <1>0, <2>3, EndpointTrusts
  <2>4. CASE \/ UNCHANGED vars \/ DialReturns \/ DialFails \/ ServerStarts \/ ServerRefuses
             \/ \E s \in Side :
                   \/ ReaderBegins(s) \/ ReaderFails(s) \/ ReaderDelivers(s)
                   \/ WriterTakes(s) \/ WriterCrashes(s)
                   \/ DeadlineStep(s) \/ CentralSends(s) \/ CentralCloses(s) \/ CentralShuts(s)
    <3>1. UNCHANGED <<wire, stage, willing>>
      BY <2>4 DEF vars, DialReturns, DialFails, ServerStarts, ServerRefuses, ReaderBegins,
                  ReaderFails, ReadFails, ReaderDelivers, WriterTakes, WriterCrashes,
                  DeadlineStep, DeadlinePasses, CentralSends, CentralCloses, CentralShuts,
                  conns, stream, coding
    <3> QED BY <1>0, <3>1, StagesStay
  <2> QED
    BY <2>1, <2>2, <2>3, <2>4
       DEF Next, HandshakeEndsDial, DialTimesOut, Reader, Writer, ReaderPanics
<1> QED
  BY <1>1, PassedStays DEF Trusting

\* No message is delivered, in either direction, unless both sides trust each
\* other and have proved their work.
THEOREM DeliveryIsTrusted == Spec => []DeliveryNeedsTrust
<1>1. Init => Typed /\ Trusting
  BY InitTyped, TrustInit
<1>2. Typed /\ Trusting /\ [Next]_vars => (Typed /\ Trusting)'
  BY NextTyped, TrustNext
<1>3. Typed /\ Trusting => DeliveryNeedsTrust
  BY DEF Trusting, Passed, DeliveryNeedsTrust
<1> QED
  BY <1>1, <1>2, <1>3, PTL DEF Spec

-----------------------------------------------------------------------------
(* Chains: what a sequence of frames leads to *)

\* Each frame of fs leads from one state to the next, by the triples of R.
Chain(R, fs, h) == \A i \in 1..Len(fs) : <<fs[i], h[i - 1], h[i]>> \in R

Leads(R, S, fs, x, y) ==
    \E h \in [0..Len(fs) -> S] : h[0] = x /\ h[Len(fs)] = y /\ Chain(R, fs, h)

LEMMA EmptyLeads ==
    ASSUME NEW R, NEW S, NEW x \in S
    PROVE  Leads(R, S, <<>>, x, x)
<1>1. Len(<<>>) = 0 /\ 0..0 = {0} /\ 1..0 = {}
  OBVIOUS
<1> DEFINE h == [i \in 0..0 |-> x]
<1>2. h \in [0..0 -> S] /\ h[0] = x
  OBVIOUS
<1> HIDE DEF h
<1> QED
  BY <1>1, <1>2 DEF Leads, Chain

LEMMA MoreLeads ==
    ASSUME NEW R, NEW R1, R \subseteq R1, NEW S, NEW S1, S \subseteq S1,
           NEW fs \in Seq(Frames), NEW x, NEW y, Leads(R, S, fs, x, y)
    PROVE  Leads(R1, S1, fs, x, y)
<1>1. PICK h \in [0..Len(fs) -> S] : h[0] = x /\ h[Len(fs)] = y /\ Chain(R, fs, h)
  BY DEF Leads
<1>2. h \in [0..Len(fs) -> S1]
  OBVIOUS
<1>3. Chain(R1, fs, h)
  BY <1>1, <1>2 DEF Chain
<1> QED
  BY <1>1, <1>2, <1>3 DEF Leads

LEMMA AppendLeads ==
    ASSUME NEW R, NEW S, NEW fs \in Seq(Frames), NEW f \in Frames, NEW x, NEW y, NEW z \in S,
           Leads(R, S, fs, x, y), <<f, y, z>> \in R
    PROVE  Leads(R, S, Append(fs, f), x, z)
<1>1. PICK h \in [0..Len(fs) -> S] : h[0] = x /\ h[Len(fs)] = y /\ Chain(R, fs, h)
  BY DEF Leads
<1> DEFINE n == Len(fs)
           gs == Append(fs, f)
           g == [i \in 0..(n + 1) |-> IF i = n + 1 THEN z ELSE h[i]]
<1>2. n \in Nat /\ h \in [0..n -> S] /\ h[0] = x /\ h[n] = y
  BY <1>1
<1>3. Len(gs) = n + 1 /\ gs[n + 1] = f /\ \A i \in 1..n : gs[i] = fs[i]
  OBVIOUS
<1>4. \A i \in 1..n : <<fs[i], h[i - 1], h[i]>> \in R
  BY <1>1 DEF Chain
<1> HIDE DEF n, gs
<1>5. /\ g \in [0..(n + 1) -> S] /\ g[n + 1] = z /\ \A i \in 0..n : g[i] = h[i]
  BY <1>2
<1> HIDE DEF g
<1>6. ASSUME NEW i \in 1..(n + 1) PROVE <<gs[i], g[i - 1], g[i]>> \in R
  <2>1. CASE i = n + 1
    <3>1. i - 1 = n /\ n \in 0..n
      BY <1>2, <2>1
    <3> QED BY <1>2, <1>3, <1>5, <2>1, <3>1
  <2>2. CASE i # n + 1
    <3>1. i \in 1..n /\ i \in 0..n /\ i - 1 \in 0..n
      BY <1>2, <2>2
    <3> QED BY <1>3, <1>4, <1>5, <3>1
  <2> QED BY <2>1, <2>2
<1>7. g[0] = x /\ g[Len(gs)] = z /\ g \in [0..Len(gs) -> S]
  <2>1. 0 \in 0..n
    BY <1>2
  <2> QED BY <1>2, <1>3, <1>5, <2>1
<1>8. Chain(R, gs, g)
  BY <1>3, <1>6, <1>7 DEF Chain
<1> QED
  BY <1>7, <1>8 DEF Leads, gs

LEMMA TailLeads ==
    ASSUME NEW R, NEW S, NEW fs \in Seq(Frames), fs # <<>>, NEW x, NEW y,
           Leads(R, S, fs, x, y)
    PROVE  \E z \in S : <<Head(fs), x, z>> \in R /\ Leads(R, S, Tail(fs), z, y)
<1>1. PICK h \in [0..Len(fs) -> S] : h[0] = x /\ h[Len(fs)] = y /\ Chain(R, fs, h)
  BY DEF Leads
<1> DEFINE gs == Tail(fs)
           n == Len(gs)
           g == [i \in 0..n |-> h[i + 1]]
<1>2. /\ n \in Nat /\ Len(fs) = n + 1 /\ Head(fs) = fs[1]
      /\ \A i \in 1..n : gs[i] = fs[i + 1]
  OBVIOUS
<1>3. /\ h \in [0..(n + 1) -> S] /\ h[0] = x /\ h[n + 1] = y
      /\ \A i \in 1..(n + 1) : <<fs[i], h[i - 1], h[i]>> \in R
  BY <1>1, <1>2 DEF Chain
<1> HIDE DEF gs, n
<1>4. /\ g \in [0..n -> S] /\ \A i \in 0..n : g[i] = h[i + 1]
  BY <1>2, <1>3
<1> HIDE DEF g
<1>5. h[1] \in S /\ <<Head(fs), x, h[1]>> \in R
  <2>1. 1 \in 1..(n + 1) /\ 1 \in 0..(n + 1) /\ 1 - 1 = 0
    BY <1>2
  <2> QED BY <1>2, <1>3, <2>1
<1>6. ASSUME NEW i \in 1..n PROVE <<gs[i], g[i - 1], g[i]>> \in R
  <2> DEFINE j == i + 1
  <2>1. j \in 1..(n + 1) /\ j - 1 = i /\ i - 1 \in 0..n /\ i \in 0..n /\ (i - 1) + 1 = i
    BY <1>2
  <2>2. <<fs[j], h[j - 1], h[j]>> \in R
    BY <1>3, <2>1
  <2>3. gs[i] = fs[j] /\ g[i - 1] = h[i] /\ g[i] = h[j]
    BY <1>2, <1>4, <2>1
  <2> QED BY <2>1, <2>2, <2>3
<1>7. g[0] = h[1] /\ g[n] = y
  <2>1. 0 \in 0..n /\ n \in 0..n /\ 0 + 1 = 1
    BY <1>2
  <2> QED BY <1>3, <1>4, <2>1
<1>8. Leads(R, S, gs, h[1], y)
  <2>1. Chain(R, gs, g) /\ g \in [0..Len(gs) -> S] /\ g[Len(gs)] = y
    BY <1>4, <1>6, <1>7 DEF Chain, n
  <2> QED BY <1>7, <2>1 DEF Leads
<1> QED
  BY <1>5, <1>8 DEF gs

-----------------------------------------------------------------------------
(* The encoder *)

\* While no message of s was cut off behind its head, its encoder has sent the
\* types inside those it has sent, or is going to.
Describing ==
    \A s \in Side \ cut :
        /\ encoding[s] # "failed"
        /\ encoding[s] = "fresh" => toDescribe[s] = <<>>
        /\ encoding[s] = "begun" =>
              /\ writer[s] = "writing" /\ HasConn(s) /\ stage[s] = "done"
              /\ InternalMessage \in described[s] /\ Payload(s) \in described[s]
        /\ \A T \in described[s] : \A i \in DOMAIN Inner[T] :
              \/ Inner[T][i] \in described[s]
              \/ \E k \in DOMAIN toDescribe[s] : toDescribe[s][k] = Inner[T][i]

LEMMA DescribingInit == Init => Describing
BY DEF Init, ConnInit, Describing

\* Whatever is not a step of the encoder leaves it in the middle of its message.
LEMMA DescribingStays ==
    ASSUME Typed, Describing, cut \subseteq cut', UNCHANGED encoder,
           \A s \in Side : encoding[s] = "begun" /\ s \notin cut =>
              /\ writer'[s] = writer[s] /\ writing'[s] = writing[s]
              /\ stage'[s] = stage[s] /\ (HasConn(s) => HasConn(s)')
    PROVE  Describing'
<1> SUFFICES ASSUME NEW s \in Side, s \notin cut'
             PROVE  /\ encoding'[s] # "failed"
                    /\ encoding'[s] = "fresh" => toDescribe'[s] = <<>>
                    /\ encoding'[s] = "begun" =>
                          /\ writer'[s] = "writing" /\ HasConn(s)' /\ stage'[s] = "done"
                          /\ InternalMessage \in described'[s] /\ Payload(s)' \in described'[s]
                    /\ \A T \in described'[s] : \A i \in DOMAIN Inner[T] :
                          \/ Inner[T][i] \in described'[s]
                          \/ \E k \in DOMAIN toDescribe'[s] : toDescribe'[s][k] = Inner[T][i]
  BY DEF Describing
<1>1. s \notin cut /\ UNCHANGED <<described, toDescribe, encoding>>
  BY DEF encoder
<1>2. encoding[s] = "begun" => Payload(s)' = Payload(s)
  BY <1>1 DEF Payload
<1> QED
  BY <1>1, <1>2 DEF Describing

LEMMA WriterDescribing ==
    ASSUME Typed, Describing, NEW s \in Side,
           WriterDescribes(s) \/ WriterDescribesInner(s) \/ WriterWrites(s)
    PROVE  Describing'
<1> DEFINE Complete(types, later) ==
              \A T \in types : \A i \in DOMAIN Inner[T] :
                 \/ Inner[T][i] \in types
                 \/ \E k \in DOMAIN later : later[k] = Inner[T][i]
<1>0. /\ described \in [Side -> SUBSET Type] /\ toDescribe \in [Side -> Seq(Type)]
      /\ encoding \in [Side -> {"fresh", "begun", "failed"}]
      /\ writer[s] = "writing" /\ HasConn(s) /\ stage[s] = "done"
      /\ cut \subseteq cut' /\ UNCHANGED <<stage, dialled>>
      /\ \A x \in Side \ {s} : /\ writer'[x] = writer[x] /\ writing'[x] = writing[x]
                               /\ described'[x] = described[x] /\ toDescribe'[x] = toDescribe[x]
                               /\ encoding'[x] = encoding[x]
  <2>1. /\ UNCHANGED writer \/ WriterGoes(s, "waiting")
        /\ UNCHANGED writing \/ WriterForgets(s)
        /\ \/ UNCHANGED <<described, toDescribe>>
           \/ UNCHANGED described /\ Visited(s)
           \/ \E T, others : Remembers(s, T, others)
        /\ UNCHANGED encoding \/ \E e : encoding' = [encoding EXCEPT ![s] = e]
    BY DEF WriterDescribes, WriterDescribesInner, WriterWrites, WriterGivesUp, encoder
  <2>2. /\ cut \subseteq cut' /\ UNCHANGED <<stage, dialled>>
        /\ writer[s] = "writing" /\ HasConn(s) /\ stage[s] = "done"
    BY DEF WriterDescribes, WriterDescribesInner, WriterWrites, Encodes
  <2> QED BY <2>1, <2>2 DEF Typed, CodersTyped, HalvesTyped, WriterGoes, WriterForgets, Visited, Remembers
<1>1. ASSUME s \notin cut' =>
                /\ encoding'[s] # "failed"
                /\ encoding'[s] = "fresh" => toDescribe'[s] = <<>>
                /\ encoding'[s] = "begun" =>
                      /\ writer'[s] = "writing"
                      /\ InternalMessage \in described'[s] /\ Payload(s)' \in described'[s]
                /\ Complete(described'[s], toDescribe'[s])
      PROVE  Describing'
  <2>1. ASSUME NEW x \in Side \ {s}, x \notin cut'
        PROVE  /\ x \notin cut /\ Payload(x)' = Payload(x) /\ HasConn(x)' = HasConn(x)
               /\ stage'[x] = stage[x] /\ writer'[x] = writer[x]
    BY <1>0, <2>1 DEF Payload, HasConn
  <2>2. HasConn(s)' /\ stage'[s] = "done"
    BY <1>0 DEF HasConn
  <2>3. SUFFICES ASSUME NEW x \in Side, x \notin cut'
               PROVE  /\ encoding'[x] # "failed"
                      /\ encoding'[x] = "fresh" => toDescribe'[x] = <<>>
                      /\ encoding'[x] = "begun" =>
                            /\ writer'[x] = "writing" /\ HasConn(x)' /\ stage'[x] = "done"
                            /\ InternalMessage \in described'[x] /\ Payload(x)' \in described'[x]
                      /\ Complete(described'[x], toDescribe'[x])
    BY DEF Describing
  <2>4. CASE x = s
    BY <1>1, <2>2, <2>3, <2>4
  <2>5. CASE x # s
    <3>1. /\ described'[x] = described[x] /\ toDescribe'[x] = toDescribe[x]
          /\ encoding'[x] = encoding[x] /\ x \notin cut
      BY <1>0, <2>3, <2>5
    <3>2. Complete(described[x], toDescribe[x])
      BY <3>1 DEF Describing
    <3> HIDE DEF Complete
    <3> QED BY <2>1, <2>3, <2>5, <3>1, <3>2 DEF Describing
  <2> QED BY <2>4, <2>5
<1>2. s \notin cut => /\ encoding[s] # "failed"
                      /\ encoding[s] = "fresh" => toDescribe[s] = <<>>
                      /\ encoding[s] = "begun" => InternalMessage \in described[s] /\ Payload(s) \in described[s]
                      /\ Complete(described[s], toDescribe[s])
  BY DEF Describing
<1>3. CASE WriterDescribes(s)
  <2> DEFINE frame == IF InternalMessage \notin described[s]
                      THEN Frame("type", NoMessage, InternalMessage)
                      ELSE Frame("head", writing[s], Payload(s))
  <2>1. /\ encoding[s] = "fresh" /\ UNCHANGED cut
        /\ \/ /\ Remembers(s, frame.type, <<>>)
              /\ encoding' = [encoding EXCEPT ![s] = IF frame.kind = "head" THEN "begun" ELSE @]
              /\ UNCHANGED <<writer, writing>>
           \/ UNCHANGED encoder
    BY <1>3 DEF WriterDescribes
  <2>2. CASE UNCHANGED encoder
    <3>1. UNCHANGED <<described, toDescribe, encoding>>
      BY <2>2 DEF encoder
    <3> QED BY <1>1, <1>2, <2>1, <3>1
  <2>3. CASE /\ Remembers(s, frame.type, <<>>)
             /\ encoding' = [encoding EXCEPT ![s] = IF frame.kind = "head" THEN "begun" ELSE @]
             /\ UNCHANGED <<writer, writing>>
    <3>1. s \notin cut => toDescribe[s] = <<>>
      BY <1>2, <2>1
    <3>2. \/ /\ InternalMessage \notin described[s]
             /\ frame.type = InternalMessage /\ frame.kind = "type"
          \/ /\ InternalMessage \in described[s] /\ frame.type = Payload(s) /\ frame.kind = "head"
      BY DEF Frame
    <3> HIDE DEF frame
    <3> DEFINE T == frame.type
               q == Inner[T] \o <<>>
    <3>3. T \in Type
      <4>1. writing[s] \in 1..HighestMessage
        BY <1>0, HighestIsHighest DEF Typed, HalvesTyped
      <4>2. Payload(s) \in Type
        BY <4>1, TypesAssumption DEF Payload
      <4> QED BY <3>2, <4>2, TypesAssumption
    <3>4. q = Inner[T] /\ Inner[T] \in Seq(Type)
      BY <3>3, TypesAssumption
    <3>5. described'[s] = described[s] \cup {T} /\ toDescribe'[s] = q
      BY <1>0, <2>3 DEF Remembers
    <3> HIDE DEF q
    <3>6. s \notin cut => Complete(described'[s], toDescribe'[s])
      <4> SUFFICES ASSUME s \notin cut, NEW U \in described[s] \cup {T}, NEW i \in DOMAIN Inner[U]
                   PROVE  \/ Inner[U][i] \in described[s] \cup {T}
                          \/ \E k \in DOMAIN q : q[k] = Inner[U][i]
        BY <3>5
      <4>1. CASE U = T
        BY <3>4, <4>1
      <4>2. CASE U \in described[s]
        BY <1>2, <3>1, <4>2
      <4> QED BY <4>1, <4>2
    <3>7. frame.kind = "type" => q = <<>>
      BY <3>2, <3>4, TypesAssumption
    <3>8. encoding'[s] = IF frame.kind = "head" THEN "begun" ELSE "fresh"
      BY <1>0, <2>1, <2>3
    <3>9. Payload(s)' = Payload(s) /\ writer'[s] = "writing"
      BY <1>0, <2>3 DEF Payload
    <3> QED BY <1>1, <2>1, <3>2, <3>5, <3>6, <3>7, <3>8, <3>9
  <2> QED BY <2>1, <2>2, <2>3
<1>4. CASE WriterDescribesInner(s)
  <2> DEFINE T == Head(toDescribe[s])
             rest == Tail(toDescribe[s])
  <2>1. toDescribe[s] # <<>> /\ toDescribe[s] \in Seq(Type)
    BY <1>0, <1>4 DEF WriterDescribesInner
  <2>2. /\ T \in Type /\ rest \in Seq(Type)
        /\ \A k \in DOMAIN toDescribe[s] :
              toDescribe[s][k] = T \/ \E j \in DOMAIN rest : rest[j] = toDescribe[s][k]
    <3> DEFINE q == toDescribe[s]
    <3>1. q \in Seq(Type) /\ q # <<>>
      BY <2>1
    <3> HIDE DEF q
    <3>2. Head(q) \in Type /\ Tail(q) \in Seq(Type) /\ Len(Tail(q)) = Len(q) - 1 /\ Head(q) = q[1]
          /\ \A j \in DOMAIN Tail(q) : Tail(q)[j] = q[j + 1]
      BY <3>1
    <3>3. ASSUME NEW k \in DOMAIN q, k # 1
          PROVE  \E j \in DOMAIN Tail(q) : Tail(q)[j] = q[k]
      <4> DEFINE j == k - 1
      <4>1. j \in DOMAIN Tail(q) /\ j + 1 = k
        BY <3>1, <3>2, <3>3
      <4> HIDE DEF j
      <4> QED BY <3>2, <4>1
    <3> QED BY <3>2, <3>3 DEF q
  <2>3. /\ UNCHANGED <<writer, writing>>
        /\ \/ /\ T \in described[s] /\ UNCHANGED <<described, encoding, cut>>
              /\ toDescribe' = [toDescribe EXCEPT ![s] = rest]
           \/ /\ encoding[s] = "begun" /\ Remembers(s, T, rest) /\ UNCHANGED <<encoding, cut>>
           \/ encoding[s] # "begun" /\ UNCHANGED cut
           \/ s \in cut'
    BY <1>4 DEF WriterDescribesInner, Visited
  <2> HIDE DEF T, rest
  <2>4. s \notin cut => encoding[s] = "begun"
    BY <1>0, <1>2, <2>1
  <2>5. Payload(s)' = Payload(s) /\ writer'[s] = "writing"
    BY <1>0, <2>3 DEF Payload
  <2>6. CASE /\ T \in described[s] /\ UNCHANGED <<described, encoding, cut>>
             /\ toDescribe' = [toDescribe EXCEPT ![s] = rest]
    <3>1. toDescribe'[s] = rest /\ described'[s] = described[s] /\ encoding'[s] = encoding[s]
      BY <1>0, <2>6
    <3>2. s \notin cut => Complete(described[s], rest)
      BY <1>2, <2>2, <2>6
    <3> QED BY <1>1, <1>2, <2>4, <2>5, <2>6, <3>1, <3>2
  <2>7. CASE encoding[s] = "begun" /\ Remembers(s, T, rest) /\ UNCHANGED <<encoding, cut>>
    <3> DEFINE q == Inner[T] \o rest
    <3>1. described'[s] = described[s] \cup {T} /\ toDescribe'[s] = q /\ encoding'[s] = "begun"
      BY <1>0, <2>7 DEF Remembers
    <3>2. /\ \A i \in DOMAIN Inner[T] : \E k \in DOMAIN q : q[k] = Inner[T][i]
          /\ \A j \in DOMAIN rest : \E k \in DOMAIN q : q[k] = rest[j]
      <4> DEFINE p == Inner[T]
      <4>1. p \in Seq(Type) /\ rest \in Seq(Type) /\ q = p \o rest
        BY <2>2, TypesAssumption
      <4> HIDE DEF p, q
      <4>2. \A i \in DOMAIN p : i \in DOMAIN q /\ q[i] = p[i]
        BY <4>1
      <4>3. \A j \in DOMAIN rest : Len(p) + j \in DOMAIN q /\ q[Len(p) + j] = rest[j]
        BY <4>1
      <4> QED BY <4>2, <4>3 DEF p
    <3> HIDE DEF q
    <3>3. s \notin cut => Complete(described[s] \cup {T}, q)
      <4> SUFFICES ASSUME s \notin cut, NEW U \in described[s] \cup {T}, NEW i \in DOMAIN Inner[U]
                   PROVE  \/ Inner[U][i] \in described[s] \cup {T}
                          \/ \E k \in DOMAIN q : q[k] = Inner[U][i]
        OBVIOUS
      <4>1. CASE U = T
        BY <3>2, <4>1
      <4>2. CASE U \in described[s]
        <5>1. \/ Inner[U][i] \in described[s]
              \/ \E k \in DOMAIN toDescribe[s] : toDescribe[s][k] = Inner[U][i]
          BY <1>2, <4>2
        <5> QED BY <2>2, <3>2, <5>1
      <4> QED BY <4>1, <4>2
    <3> QED BY <1>1, <1>2, <2>5, <2>7, <3>1, <3>3
  <2>8. CASE \/ encoding[s] # "begun" /\ UNCHANGED cut
             \/ s \in cut'
    BY <1>1, <2>4, <2>8
  <2> QED BY <2>3, <2>6, <2>7, <2>8
<1>5. CASE WriterWrites(s)
  <2>1. /\ toDescribe[s] = <<>> /\ UNCHANGED <<described, toDescribe>>
        /\ encoding' = [encoding EXCEPT ![s] = "fresh"]
    BY <1>5 DEF WriterWrites
  <2>2. encoding'[s] = "fresh"
    BY <1>0, <2>1
  <2>3. s \notin cut' => s \notin cut
    BY <1>0
  <2> QED BY <1>1, <1>2, <2>1, <2>2, <2>3
<1> QED
  BY <1>3, <1>4, <1>5

LEMMA DescribingNext ==
    ASSUME Typed, Describing, [Next]_vars
    PROVE  Describing'
<1>1. ASSUME cut \subseteq cut', UNCHANGED <<encoder, dialled, stage>>,
             NEW a, encoding[a] = "begun" => a \in cut,
             \A s \in Side \ {a} : writer'[s] = writer[s] /\ writing'[s] = writing[s]
      PROVE  Describing'
  BY <1>1, DescribingStays DEF HasConn
<1>2. \A s \in Side : encoding[s] = "begun" =>
                         s \in cut \/ (writer[s] = "writing" /\ HasConn(s) /\ stage[s] = "done")
  BY DEF Describing
<1>3. /\ writer \in [Side -> {"none", "waiting", "writing", "closed", "crashed"}]
      /\ writing \in [Side -> 0..HighestMessage]
      /\ stage \in [Side -> {"start", "midway", "done"}]
      /\ "server" \in Side /\ "client" \in Side
  BY BothSides DEF Typed, HalvesTyped, LinkTyped
<1>4. ASSUME NEW s \in Side, WriterTakes(s) \/ WriterCrashes(s) PROVE Describing'
  <2>1. /\ UNCHANGED <<encoder, dialled, stage, cut>>
        /\ writer[s] = "waiting" \/ ~HasConn(s)
        /\ \E state : WriterGoes(s, state)
        /\ UNCHANGED writing \/ \E m : writing' = [writing EXCEPT ![s] = m]
    BY <1>4 DEF WriterTakes, WriterCrashes, WriterForgets, conns
  <2>2. \A x \in Side \ {s} : writer'[x] = writer[x] /\ writing'[x] = writing[x]
    BY <1>3, <2>1 DEF WriterGoes
  <2> QED BY <1>1, <1>2, <2>1, <2>2
<1>5. ASSUME NEW g \in {"reader", "writer"},
             Handshake(g) \/ HandshakeFails(g) \/ HandshakeTimesOut(g)
      PROVE  Describing'
  <2>1. /\ UNCHANGED <<encoder, dialled, cut>> /\ stage["server"] # "done"
        /\ UNCHANGED stage \/ \E x : stage' = [stage EXCEPT !["server"] = x]
        /\ UNCHANGED <<writer, writing>> \/ WriterGivesUp("server")
    BY <1>5 DEF Handshake, HandshakeFails, HandshakeTimesOut, ServerTakesMutex,
                ServerReadsHandshake, ServerReplies, ServerHandshakeFails, ServerHandshakeTimesOut,
                coding
  <2>2. \A x \in Side : x # "server" =>
           writer'[x] = writer[x] /\ writing'[x] = writing[x] /\ stage'[x] = stage[x]
    BY <1>3, <2>1 DEF WriterGivesUp, WriterGoes, WriterForgets
  <2> QED BY <1>2, <2>1, <2>2, DescribingStays DEF HasConn
<1>6. CASE Dials \/ DialReturns \/ DialFails
  <2>1. /\ UNCHANGED <<encoder, cut, writing>> /\ dialled = "pending"
        /\ UNCHANGED stage \/ \E x : stage' = [stage EXCEPT !["client"] = x]
        /\ UNCHANGED writer \/ \E x : WriterGoes("client", x)
    BY <1>6 DEF Dials, ClientSendsHandshake, ClientReadsReply, DialReturns, DialFails,
                RunGoroutines, coding
  <2>2. \A x \in Side : x # "client" =>
           /\ writer'[x] = writer[x] /\ writing'[x] = writing[x] /\ stage'[x] = stage[x]
           /\ HasConn(x)'
    BY <1>3, <2>1, BothSides DEF WriterGoes, HasConn
  <2>3. ~HasConn("client")
    BY <2>1 DEF HasConn
  <2> QED BY <1>2, <2>1, <2>2, <2>3, DescribingStays
<1>7. CASE ServerStarts
  <2>1. /\ UNCHANGED <<encoder, cut, writing, dialled, stage>> /\ reader["server"] = "none"
        /\ WriterGoes("server", "waiting")
    BY <1>7 DEF ServerStarts, RunGoroutines, coding, conns
  <2>2. writer["server"] = "none"
    BY <1>3, <2>1 DEF Typed, HalvesTyped
  <2>3. \A x \in Side \ {"server"} : writer'[x] = writer[x] /\ writing'[x] = writing[x]
    BY <1>3, <2>1 DEF WriterGoes
  <2>4. encoding["server"] = "begun" => "server" \in cut
    BY <1>2, <1>3, <2>2
  <2>5. cut \subseteq cut' /\ UNCHANGED <<encoder, dialled, stage>>
    BY <2>1
  <2> QED BY <1>1, <2>3, <2>4, <2>5
<1>8. CASE \/ UNCHANGED vars \/ ServerRefuses
           \/ \E s \in Side :
                 \/ ReaderBegins(s) \/ ReaderReads(s) \/ ReaderTimesOut(s) \/ ReaderDelivers(s)
                 \/ ReaderFails(s)
                 \/ DeadlineStep(s) \/ CentralSends(s) \/ CentralCloses(s) \/ CentralShuts(s)
  <2>1. UNCHANGED <<encoder, dialled, stage, writer, writing>> /\ cut \subseteq cut'
    BY <1>8 DEF vars, ServerRefuses, ReaderBegins, ReaderReads, ReaderTimesOut, ReaderDelivers,
                ReaderFails, DeadlineStep, DeadlinePasses, CentralSends, CentralCloses,
                CentralShuts, coding, conns
  <2> QED BY <2>1, DescribingStays DEF HasConn
<1> QED
  BY <1>4, <1>5, <1>6, <1>7, <1>8, WriterDescribing
     DEF Next, HandshakeEndsDial, DialTimesOut, Reader, Writer, ReaderPanics

-----------------------------------------------------------------------------
(* The steps of one direction *)

\* What matters of a coder: the types it knows, and whether it is behind the
\* head of a message.
CoderStates == [known : SUBSET Type, at : {"between", "inside"}]

Encoder(s) ==
    [known |-> described[s], at |-> IF encoding[s] = "begun" THEN "inside" ELSE "between"]

Decoder(s) == [known |-> knows[s], at |-> IF s \in inside THEN "inside" ELSE "between"]

LEMMA CodersAreStates ==
    Typed => \A s \in Side : Encoder(s) \in CoderStates /\ Decoder(s) \in CoderStates
BY DEF Typed, CodersTyped, Encoder, Decoder, CoderStates

\* f makes sense to a decoder in state x, and leaves it in state y.
MakesSense(f, x, y) ==
    /\ f.whole
    /\ y.known = x.known \cup IF f.kind \in {"type", "head"} THEN {f.type} ELSE {}
    /\ y.at = IF f.kind = "head" THEN "inside" ELSE IF Carries(f) THEN "between" ELSE x.at
    /\ f.kind \in {"type", "head"} => f.type \notin x.known
    /\ f.kind \in {"head", "rest", "value"} => InternalMessage \in x.known
    /\ f.kind \in {"head", "value"} => x.at = "between"
    /\ f.kind = "rest" => x.at = "inside"
    /\ Carries(f) => Compiles(x.known, f.type)

SenderKeeps(s) == accepted'[s] = accepted[s] /\ (s \in cut' \/ Encoder(s)' = Encoder(s))

ReceiverKeeps(s) ==
    LET r == Other(s)
    IN  /\ delivered'[r] = delivered[r] /\ received'[r] = received[r]
        /\ s \in cut' \/ Decoder(r)' = Decoder(r)

Rests(s) == wire'[s] = wire[s] /\ SenderKeeps(s) /\ ReceiverKeeps(s)

Writing(s, f) ==
    /\ accepted'[s] = IF Carries(f) THEN Append(accepted[s], f.msg) ELSE accepted[s]
    /\ s \in cut' \/ MakesSense(f, Encoder(s), Encoder(s)')

Sends(s) ==
    ReceiverKeeps(s) /\ \E f \in Frames : wire'[s] = Append(wire[s], f) /\ Writing(s, f)

Takes(s, r, f) ==
    /\ wire[s] # <<>> /\ f = Head(wire[s]) /\ wire'[s] = Tail(wire[s]) /\ SenderKeeps(s)
    /\ delivered'[r] = delivered[r]
    /\ IF Carries(f) THEN received[r] = NoMessage /\ received'[r] = f.msg
                     ELSE received'[r] = received[r]
    /\ MakesSense(f, Decoder(r), Decoder(r)')

Delivers(s, r) ==
    /\ wire'[s] = wire[s] /\ SenderKeeps(s)
    /\ received[r] # NoMessage /\ received'[r] = NoMessage
    /\ delivered'[r] = Append(delivered[r], received[r])
    /\ Decoder(r)' = Decoder(r)

DirectionStep(s) ==
    \/ s \in torn' \/ reader'[Other(s)] = "crashed"
    \/ Rests(s) \/ Sends(s) \/ Takes(s, Other(s), Head(wire[s])) \/ Delivers(s, Other(s))

LEMMA CodersKeep ==
    /\ UNCHANGED encoder => \A s \in Side : Encoder(s)' = Encoder(s)
    /\ UNCHANGED decoder => \A s \in Side : Decoder(s)' = Decoder(s)
BY DEF encoder, decoder, Encoder, Decoder

\* One side reads: in its own direction nothing happens.
LEMMA ReadStep ==
    ASSUME Typed, NEW a \in Side, UNCHANGED <<accepted, encoder, cut>>, CanRead(a), Consume(a),
           \/ Head(Incoming(a)).kind = "handshake" /\ UNCHANGED <<delivered, received, decoder>>
           \/ ReaderReads(a)
    PROVE  \A s \in Side : DirectionStep(s)
<1> DEFINE b == Other(a)
<1>0. /\ Side = {a, b} /\ b \in Side /\ a # b /\ Other(b) = a
      /\ wire \in [Side -> Seq(Frames)] /\ received \in [Side -> 0..HighestMessage]
      /\ knows \in [Side -> SUBSET Type] /\ inside \subseteq Side
  BY BothSides DEF Typed, StreamTyped, HalvesTyped, CodersTyped
<1>1. /\ wire[b] # <<>> /\ wire' = [wire EXCEPT ![b] = Tail(@)]
      /\ Incoming(a) = wire[b] /\ Head(wire[b]).whole
  BY DEF CanRead, Consume, Incoming
<1> HIDE DEF b
<1> DEFINE f == Head(wire[b])
<1>2. wire'[a] = wire[a] /\ wire'[b] = Tail(wire[b]) /\ SenderKeeps(a) /\ SenderKeeps(b)
  BY <1>0, <1>1, CodersKeep DEF SenderKeeps
<1>3. CASE f.kind = "handshake" /\ UNCHANGED <<delivered, received, decoder>>
  <2>1. Decoder(a)' = Decoder(a) /\ Decoder(b)' = Decoder(b)
    BY <1>0, <1>3, CodersKeep
  <2>2. ReceiverKeeps(a)
    BY <1>3, <2>1 DEF ReceiverKeeps, b
  <2>3. MakesSense(f, Decoder(a), Decoder(a)) /\ ~Carries(f)
    BY <1>1, <1>3 DEF MakesSense, Carries
  <2>4. Takes(b, a, f)
    BY <1>1, <1>2, <1>3, <2>1, <2>3 DEF Takes
  <2> QED BY <1>0, <1>2, <2>2, <2>4 DEF DirectionStep, Rests
<1>4. CASE ReaderReads(a)
  <2> HIDE DEF f
  <2>1. /\ reader[a] = "reading" /\ UNCHANGED delivered
        /\ \/ /\ Registers(a, f) \/ Begins(a, f)
              /\ knows' = [knows EXCEPT ![a] = @ \cup {f.type}]
              /\ inside' = IF f.kind = "head" THEN inside \cup {a} ELSE inside
              /\ UNCHANGED received
           \/ /\ Decodable(a, f)
              /\ received' = [received EXCEPT ![a] = f.msg]
              /\ inside' = inside \ {a} /\ UNCHANGED knows
           \/ ReaderGoes(a, "crashed") /\ UNCHANGED <<received, knows, inside>>
    BY <1>1, <1>4 DEF ReaderReads, history, decoder, f
  <2>2. received[a] = NoMessage
    BY <2>1 DEF Typed, HalvesTyped, NoMessage
  <2>3. ReceiverKeeps(a)
    <3>1. received'[b] = received[b] /\ delivered'[b] = delivered[b]
      BY <1>0, <2>1
    <3>2. knows'[b] = knows[b] /\ (b \in inside' <=> b \in inside)
      BY <1>0, <2>1
    <3> QED BY <3>1, <3>2 DEF ReceiverKeeps, Decoder, b
  <2>4. DirectionStep(a)
    BY <1>2, <2>3 DEF DirectionStep, Rests
  <2>5. CASE ReaderGoes(a, "crashed")
    <3>1. reader'[a] = "crashed"
      BY <2>5 DEF ReaderGoes, Typed, HalvesTyped
    <3> QED BY <1>0, <2>4, <3>1 DEF DirectionStep
  <2>6. CASE /\ Registers(a, f) \/ Begins(a, f)
             /\ knows' = [knows EXCEPT ![a] = @ \cup {f.type}]
             /\ inside' = IF f.kind = "head" THEN inside \cup {a} ELSE inside
             /\ UNCHANGED received
    <3>1. ~Carries(f) /\ knows'[a] = knows[a] \cup {f.type}
          /\ (a \in inside' <=> f.kind = "head" \/ a \in inside)
      BY <1>0, <2>6 DEF Registers, Begins, Carries
    <3>2. MakesSense(f, Decoder(a), Decoder(a)')
      BY <1>1, <2>6, <3>1 DEF MakesSense, Decoder, Registers, Begins, f
    <3>3. Takes(b, a, f)
      BY <1>1, <1>2, <2>1, <2>6, <3>1, <3>2 DEF Takes, f
    <3> QED BY <1>0, <2>4, <3>3 DEF DirectionStep, f
  <2>7. CASE /\ Decodable(a, f)
             /\ received' = [received EXCEPT ![a] = f.msg]
             /\ inside' = inside \ {a} /\ UNCHANGED knows
    <3>1. Carries(f) /\ received'[a] = f.msg /\ a \notin inside'
      BY <1>0, <2>7 DEF Decodable, Carries
    <3>2. MakesSense(f, Decoder(a), Decoder(a)')
      BY <1>1, <2>7, <3>1 DEF MakesSense, Decoder, Decodable, Carries, f
    <3>3. Takes(b, a, f)
      BY <1>1, <1>2, <2>1, <2>2, <3>1, <3>2 DEF Takes, f
    <3> QED BY <1>0, <2>4, <3>3 DEF DirectionStep, f
  <2> QED BY <2>1, <2>5, <2>6, <2>7
<1> QED
  BY <1>1, <1>3, <1>4

LEMMA TimeOutStep ==
    ASSUME Typed, NEW a \in Side, ReadTimesOut(a),
           UNCHANGED <<accepted, encoder, delivered, received, knows>>,
           inside' = inside \/ (inside' = inside \ {a} /\ (a \in inside => Other(a) \in cut'))
    PROVE  \A s \in Side : DirectionStep(s)
<1> DEFINE b == Other(a)
<1>0. /\ Side = {a, b} /\ b \in Side /\ a # b /\ Other(b) = a
      /\ wire \in [Side -> Seq(Frames)]
  BY BothSides DEF Typed, StreamTyped
<1>1. \A s \in Side : SenderKeeps(s)
  BY CodersKeep DEF SenderKeeps
<1>2. PICK left : /\ wire' = [wire EXCEPT ![b] = left]
                  /\ torn' = IF left = wire[b] THEN torn ELSE torn \cup {b}
  BY DEF ReadTimesOut, Incoming
<1>3. wire'[a] = wire[a] /\ (wire'[b] = wire[b] \/ b \in torn')
  BY <1>0, <1>2
<1>4. ReceiverKeeps(a) /\ ReceiverKeeps(b)
  BY <1>0 DEF ReceiverKeeps, Decoder
<1> QED
  BY <1>0, <1>1, <1>3, <1>4 DEF DirectionStep, Rests

LEMMA WriteStep ==
    ASSUME Typed, NEW a \in Side, NEW f \in Frames,
           UNCHANGED <<delivered, received, decoder>>, \A s \in Side \ {a} : SenderKeeps(s),
           \/ WriteSucceeds(a, f) /\ Writing(a, f)
           \/ WriteFails(a, f) /\ SenderKeeps(a)
           \/ UNCHANGED stream /\ SenderKeeps(a)
    PROVE  \A s \in Side : DirectionStep(s)
<1> DEFINE b == Other(a)
<1>0. Side = {a, b} /\ b \in Side /\ a # b /\ wire \in [Side -> Seq(Frames)]
  BY BothSides DEF Typed, StreamTyped
<1>1. \A s \in Side : ReceiverKeeps(s)
  BY CodersKeep, OtherSide DEF ReceiverKeeps
<1>2. wire'[b] = wire[b]
  BY <1>0 DEF WriteSucceeds, WriteFails, stream
<1>3. DirectionStep(b)
  BY <1>0, <1>1, <1>2 DEF DirectionStep, Rests
<1>4. CASE WriteSucceeds(a, f) /\ Writing(a, f)
  <2>1. wire'[a] = Append(wire[a], f)
    BY <1>0, <1>4 DEF WriteSucceeds
  <2>2. Sends(a)
    BY <1>1, <1>4, <2>1 DEF Sends
  <2> QED BY <1>0, <1>3, <2>2 DEF DirectionStep
<1>5. CASE (WriteFails(a, f) \/ UNCHANGED stream) /\ SenderKeeps(a)
  <2>1. wire'[a] = wire[a] \/ a \in torn'
    BY <1>5 DEF WriteFails, stream
  <2> QED BY <1>0, <1>1, <1>3, <1>5, <2>1 DEF DirectionStep, Rests
<1> QED
  BY <1>4, <1>5

\* The three steps of Encode.
LEMMA EncodeStep ==
    ASSUME Typed, Describing, NEW a \in Side,
           WriterDescribes(a) \/ WriterDescribesInner(a) \/ WriterWrites(a)
    PROVE  \A s \in Side : DirectionStep(s)
<1>0. /\ described \in [Side -> SUBSET Type] /\ toDescribe \in [Side -> Seq(Type)]
      /\ encoding \in [Side -> {"fresh", "begun", "failed"}]
      /\ accepted \in [Side -> Seq(1..HighestMessage)]
      /\ UNCHANGED <<delivered, received, decoder>> /\ cut \subseteq cut'
  BY DEF WriterDescribes, WriterDescribesInner, WriterWrites, history, Typed, CodersTyped, RestTyped
<1>1. /\ writing[a] \in 1..HighestMessage /\ writing[a] \in 0..HighestMessage
      /\ Payload(a) \in Type /\ NoMessage \in 0..HighestMessage
  <2>1. writing[a] \in 1..HighestMessage
    BY HighestIsHighest
       DEF WriterDescribes, WriterDescribesInner, WriterWrites, Encodes, Typed, HalvesTyped
  <2>2. Payload(a) \in Type
    BY <2>1, TypesAssumption DEF Payload
  <2> QED BY <2>1, <2>2, HighestIsHighest DEF NoMessage
<1>2. \A s \in Side \ {a} : SenderKeeps(s)
  <2>1. /\ UNCHANGED accepted \/ \E m : accepted' = [accepted EXCEPT ![a] = m]
        /\ \/ UNCHANGED described
           \/ \E T, others : Remembers(a, T, others)
        /\ UNCHANGED encoding \/ \E e : encoding' = [encoding EXCEPT ![a] = e]
    BY DEF WriterDescribes, WriterDescribesInner, WriterWrites, encoder, history
  <2> QED BY <1>0, <2>1 DEF SenderKeeps, Encoder, Remembers
<1>3. a \notin cut => /\ encoding[a] # "failed"
                      /\ encoding[a] = "fresh" => toDescribe[a] = <<>>
                      /\ encoding[a] = "begun" => InternalMessage \in described[a]
                      /\ \A T \in described[a] : \A i \in DOMAIN Inner[T] :
                            \/ Inner[T][i] \in described[a]
                            \/ \E k \in DOMAIN toDescribe[a] : toDescribe[a][k] = Inner[T][i]
  BY DEF Describing
<1>4. CASE WriterDescribes(a)
  <2> DEFINE frame == IF InternalMessage \notin described[a]
                      THEN Frame("type", NoMessage, InternalMessage)
                      ELSE Frame("head", writing[a], Payload(a))
  <2>1. /\ encoding[a] = "fresh" /\ UNCHANGED <<accepted, cut>>
        /\ InternalMessage \in described[a] => Payload(a) \notin described[a]
        /\ \/ /\ WriteSucceeds(a, frame) /\ Remembers(a, frame.type, <<>>)
              /\ encoding' = [encoding EXCEPT ![a] = IF frame.kind = "head" THEN "begun" ELSE @]
           \/ WriteFails(a, frame) /\ UNCHANGED encoder
    BY <1>4 DEF WriterDescribes, history
  <2>2. /\ frame \in Frames /\ frame.whole /\ ~Carries(frame)
        /\ \/ /\ InternalMessage \notin described[a]
              /\ frame.type = InternalMessage /\ frame.kind = "type"
           \/ /\ InternalMessage \in described[a] /\ frame.type = Payload(a) /\ frame.kind = "head"
    BY <1>1, FramesBuilt, TypesAssumption DEF Kinds, Carries
  <2> HIDE DEF frame
  <2>3. CASE WriteFails(a, frame) /\ UNCHANGED encoder
    <3>1. SenderKeeps(a)
      BY <2>1, <2>3, CodersKeep DEF SenderKeeps
    <3> QED BY <1>0, <1>2, <2>2, <2>3, <3>1, WriteStep
  <2>4. CASE /\ WriteSucceeds(a, frame) /\ Remembers(a, frame.type, <<>>)
             /\ encoding' = [encoding EXCEPT ![a] = IF frame.kind = "head" THEN "begun" ELSE @]
    <3>1. /\ described'[a] = described[a] \cup {frame.type}
          /\ encoding'[a] = IF frame.kind = "head" THEN "begun" ELSE "fresh"
      BY <1>0, <2>1, <2>4 DEF Remembers
    <3>2. MakesSense(frame, Encoder(a), Encoder(a)')
      BY <2>1, <2>2, <3>1 DEF MakesSense, Encoder
    <3>3. Writing(a, frame)
      BY <2>1, <2>2, <3>2 DEF Writing
    <3> QED BY <1>0, <1>2, <2>2, <2>4, <3>3, WriteStep
  <2> QED BY <2>1, <2>3, <2>4
<1>5. CASE WriterDescribesInner(a)
  <2> DEFINE T == Head(toDescribe[a])
             frame == Frame("type", NoMessage, T)
  <2>1. /\ toDescribe[a] # <<>> /\ UNCHANGED accepted
        /\ \/ UNCHANGED <<stream, described, encoding>>
           \/ /\ T \notin described[a] /\ WriteSucceeds(a, frame)
              /\ encoding[a] = "begun" => Remembers(a, T, Tail(toDescribe[a]))
              /\ UNCHANGED <<encoding, cut>>
           \/ WriteFails(a, frame) /\ a \in cut'
    BY <1>5 DEF WriterDescribesInner, history
  <2>2. T \in Type
    BY <2>1, VisitTyped DEF Typed
  <2> HIDE DEF T
  <2>3. /\ frame \in Frames /\ frame.whole /\ ~Carries(frame)
        /\ frame.type = T /\ frame.kind = "type"
    BY <1>1, <2>2, FramesBuilt DEF Kinds, Carries
  <2> HIDE DEF frame
  <2>4. CASE \/ UNCHANGED <<stream, described, encoding>>
             \/ WriteFails(a, frame) /\ a \in cut'
    <3>1. SenderKeeps(a)
      BY <2>1, <2>4 DEF SenderKeeps, Encoder
    <3> QED BY <1>0, <1>2, <2>3, <2>4, <3>1, WriteStep
  <2>5. CASE /\ T \notin described[a] /\ WriteSucceeds(a, frame)
             /\ encoding[a] = "begun" => Remembers(a, T, Tail(toDescribe[a]))
             /\ UNCHANGED <<encoding, cut>>
    <3>1. a \in cut' \/ encoding[a] = "begun"
      BY <1>0, <1>3, <2>1, <2>5
    <3>2. ASSUME encoding[a] = "begun" PROVE MakesSense(frame, Encoder(a), Encoder(a)')
      <4>1. described'[a] = described[a] \cup {T} /\ encoding'[a] = "begun"
        BY <1>0, <2>5, <3>2 DEF Remembers
      <4> QED BY <2>3, <2>5, <3>2, <4>1 DEF MakesSense, Encoder
    <3>3. Writing(a, frame)
      BY <2>1, <2>3, <3>1, <3>2 DEF Writing
    <3> QED BY <1>0, <1>2, <2>3, <2>5, <3>3, WriteStep
  <2> QED BY <2>1, <2>4, <2>5
<1>6. CASE WriterWrites(a)
  <2> DEFINE begun == encoding[a] # "fresh"
             frame == Frame(IF begun THEN "rest" ELSE "value", writing[a], Payload(a))
  <2>1. /\ toDescribe[a] = <<>> /\ InternalMessage \in described[a] /\ Payload(a) \in described[a]
        /\ encoding' = [encoding EXCEPT ![a] = "fresh"] /\ UNCHANGED described
        /\ \/ /\ encoding[a] # "failed" /\ WriteSucceeds(a, frame)
              /\ accepted' = [accepted EXCEPT ![a] = Append(@, writing[a])]
           \/ WriteFails(a, frame) /\ (begun => a \in cut') /\ UNCHANGED accepted
           \/ encoding[a] = "failed" /\ UNCHANGED <<stream, accepted>>
    BY <1>6 DEF WriterWrites
  <2>2. /\ frame \in Frames /\ frame.whole /\ Carries(frame) /\ frame.msg = writing[a]
        /\ frame.type = Payload(a)
        /\ frame.kind = IF begun THEN "rest" ELSE "value"
    BY <1>1, FramesBuilt DEF Kinds, Carries
  <2> HIDE DEF frame
  <2>3. encoding'[a] = "fresh"
    BY <1>0, <2>1
  <2>4. CASE \/ WriteFails(a, frame) /\ (begun => a \in cut') /\ UNCHANGED accepted
             \/ encoding[a] = "failed" /\ UNCHANGED <<stream, accepted>>
    <3>1. a \in cut' \/ encoding[a] = "fresh"
      BY <1>0, <1>3, <2>4
    <3>2. SenderKeeps(a)
      BY <2>1, <2>3, <2>4, <3>1 DEF SenderKeeps, Encoder
    <3> QED BY <1>0, <1>2, <2>2, <2>4, <3>2, WriteStep
  <2>5. CASE /\ encoding[a] # "failed" /\ WriteSucceeds(a, frame)
             /\ accepted' = [accepted EXCEPT ![a] = Append(@, writing[a])]
    <3>1. accepted'[a] = Append(accepted[a], frame.msg)
      BY <1>0, <2>2, <2>5
    <3>2. ASSUME a \notin cut' PROVE MakesSense(frame, Encoder(a), Encoder(a)')
      <4>1. \A U \in described[a] : \A i \in DOMAIN Inner[U] : Inner[U][i] \in described[a]
        <5>1. DOMAIN toDescribe[a] = {}
          BY <2>1
        <5> QED BY <1>0, <1>3, <3>2, <5>1
      <4>2. Compiles(described[a], Payload(a))
        BY <2>1, <4>1 DEF Compiles
      <4> QED BY <1>0, <2>1, <2>2, <2>3, <2>5, <4>2 DEF MakesSense, Encoder, Carries
    <3>3. Writing(a, frame)
      BY <2>2, <3>1, <3>2 DEF Writing
    <3> QED BY <1>0, <1>2, <2>2, <2>5, <3>3, WriteStep
  <2> QED BY <2>1, <2>4, <2>5
<1> QED
  BY <1>4, <1>5, <1>6

LEMMA EveryStep ==
    ASSUME Typed, Trusting, Describing, [Next]_vars
    PROVE  \A s \in Side : DirectionStep(s)
<1> DEFINE hs == HandshakeFrame
<1>0. /\ hs \in Frames /\ hs.kind = "handshake" /\ hs.whole
      /\ "client" \in Side /\ "server" \in Side
  BY FramesBuilt, BothSides
<1>1. ASSUME UNCHANGED <<wire, accepted, encoder, delivered, received, decoder>>
      PROVE  \A s \in Side : DirectionStep(s)
  BY <1>1, CodersKeep, OtherSide DEF DirectionStep, Rests, SenderKeeps, ReceiverKeeps
<1>2. ASSUME NEW s \in Side, UNCHANGED <<accepted, encoder, delivered, received, decoder>>,
             WriteSucceeds(s, hs) \/ WriteFails(s, hs)
      PROVE  \A x \in Side : DirectionStep(x)
  <2>1. \A x \in Side : SenderKeeps(x) /\ Encoder(x)' = Encoder(x)
    BY <1>2, CodersKeep DEF SenderKeeps
  <2>2. Writing(s, hs)
    BY <1>0, <1>2, <2>1 DEF Writing, Carries, MakesSense
  <2> HIDE DEF hs
  <2> QED BY <1>0, <1>2, <2>1, <2>2, WriteStep
<1>3. CASE \/ UNCHANGED vars \/ DialReturns \/ DialFails \/ ServerStarts \/ ServerRefuses
           \/ \E s \in Side :
                 \/ ReaderBegins(s) \/ ReaderFails(s) \/ WriterTakes(s) \/ WriterCrashes(s)
                 \/ DeadlineStep(s) \/ CentralSends(s) \/ CentralCloses(s) \/ CentralShuts(s)
  <2>1. UNCHANGED <<wire, accepted, encoder, delivered, received, decoder>>
    BY <1>3 DEF vars, DialReturns, DialFails, ServerStarts, ServerRefuses, ReaderBegins,
                ReaderFails, ReadFails, WriterTakes, WriterCrashes,
                DeadlineStep, DeadlinePasses, CentralSends, CentralCloses, CentralShuts,
                conns, stream, coding, history
  <2> QED BY <1>1, <2>1
<1>4. CASE Dials
  <2>1. UNCHANGED <<accepted, encoder, delivered, received, decoder, cut>>
    BY <1>4 DEF Dials, coding, history
  <2>2. CASE ClientSendsHandshake
    BY <1>0, <1>2, <2>1, <2>2 DEF ClientSendsHandshake
  <2>3. CASE ClientReadsReply
    <3>1. CanRead("client") /\ Consume("client") /\ Head(Incoming("client")).kind = "handshake"
      BY <2>3 DEF ClientReadsReply, Accepts
    <3> QED BY <1>0, <2>1, <3>1, ReadStep
  <2> QED BY <1>4, <2>2, <2>3 DEF Dials
<1>5. CASE \E g \in {"reader", "writer"} : Handshake(g)
  <2>1. PICK g \in {"reader", "writer"} : Handshake(g)
    BY <1>5
  <2>2. UNCHANGED <<accepted, encoder, delivered, received, decoder, cut>>
    BY <2>1 DEF Handshake, coding, history
  <2>3. CASE ServerReadsHandshake(g)
    <3>1. CanRead("server") /\ Consume("server") /\ Head(Incoming("server")).kind = "handshake"
      BY <2>3 DEF ServerReadsHandshake, Accepts
    <3> QED BY <1>0, <2>2, <3>1, ReadStep
  <2>4. CASE ServerReplies(g)
    BY <1>0, <1>2, <2>2, <2>4 DEF ServerReplies
  <2>5. CASE UNCHANGED stream
    BY <1>1, <2>2, <2>5 DEF stream
  <2> QED BY <2>1, <2>3, <2>4, <2>5 DEF Handshake
<1>6. CASE \E g \in {"reader", "writer"} : HandshakeFails(g) \/ HandshakeTimesOut(g)
  <2>1. UNCHANGED <<accepted, encoder, delivered, received, decoder, cut>>
    BY <1>6 DEF HandshakeFails, HandshakeTimesOut, history
  <2>2. \/ UNCHANGED stream
        \/ CanRead("server") /\ Consume("server") /\ stage["server"] = "start"
        \/ ReadTimesOut("server")
    BY <1>6 DEF HandshakeFails, HandshakeTimesOut, ServerHandshakeFails, ServerHandshakeTimesOut,
                ReadFails
  <2>3. CASE UNCHANGED stream
    BY <1>1, <2>1, <2>3 DEF stream
  <2>4. CASE CanRead("server") /\ Consume("server") /\ stage["server"] = "start"
    <3>1. wire["client"] \in Seq(Frames) /\ wire["client"] # <<>> /\ Incoming("server") = wire["client"]
      BY <1>0, <2>4, BothSides DEF CanRead, Incoming, Typed, StreamTyped
    <3>2. 1 \in DOMAIN wire["client"] /\ Head(Incoming("server")) = wire["client"][1]
      BY <3>1
    <3>3. Head(Incoming("server")).kind = "handshake"
      BY <1>0, <2>4, <3>2 DEF Trusting, Ordered, Stages
    <3> QED BY <1>0, <2>1, <2>4, <3>3, ReadStep
  <2>5. CASE ReadTimesOut("server")
    BY <1>0, <2>1, <2>5, TimeOutStep DEF decoder
  <2> QED BY <2>2, <2>3, <2>4, <2>5
<1>7. ASSUME NEW a \in Side, ReaderReads(a) PROVE \A s \in Side : DirectionStep(s)
  <2>1. CanRead(a) /\ Consume(a) /\ UNCHANGED <<accepted, encoder, cut>>
    BY <1>7 DEF ReaderReads, history
  <2> QED BY <1>7, <2>1, ReadStep
<1>8. ASSUME NEW a \in Side, ReaderTimesOut(a) PROVE \A s \in Side : DirectionStep(s)
  <2>1. /\ ReadTimesOut(a) /\ UNCHANGED <<accepted, encoder, delivered, received, knows>>
        /\ inside' = inside \ {a} /\ (a \in inside => Other(a) \in cut')
    BY <1>8 DEF ReaderTimesOut, history
  <2> QED BY <2>1, TimeOutStep
<1>9. ASSUME NEW a \in Side, ReaderDelivers(a) PROVE \A s \in Side : DirectionStep(s)
  <2>1. /\ reader[a] = "delivering"
        /\ delivered' = [delivered EXCEPT ![a] = Append(@, received[a])]
        /\ received' = [received EXCEPT ![a] = NoMessage]
        /\ UNCHANGED <<wire, accepted, encoder, decoder>>
    BY <1>9 DEF ReaderDelivers, stream
  <2>2. received[a] # NoMessage
    BY <2>1 DEF Typed, HalvesTyped, NoMessage
  <2>3. \A s \in Side : SenderKeeps(s) /\ wire'[s] = wire[s] /\ Decoder(s)' = Decoder(s)
    BY <2>1, CodersKeep DEF SenderKeeps
  <2>4. /\ delivered \in [Side -> Seq(1..HighestMessage)]
        /\ received \in [Side -> 0..HighestMessage]
    BY DEF Typed, HalvesTyped, RestTyped
  <2>5. \A s \in Side : Other(s) # a => ReceiverKeeps(s)
    BY <2>1, <2>3, <2>4, OtherSide DEF ReceiverKeeps
  <2>6. \A s \in Side : Other(s) = a => Delivers(s, a)
    BY <2>1, <2>2, <2>3, <2>4 DEF Delivers
  <2> QED BY <2>3, <2>5, <2>6 DEF DirectionStep, Rests
<1> QED
  BY <1>3, <1>4, <1>5, <1>6, <1>7, <1>8, <1>9, EncodeStep
     DEF Next, HandshakeEndsDial, DialTimesOut, Reader, Writer, ReaderPanics

\* What is never undone.
LEMMA Forever ==
    ASSUME Typed, [Next]_vars
    PROVE  /\ torn \subseteq torn' /\ cut \subseteq cut' /\ shut \subseteq shut' /\ UNCHANGED willing
           /\ \A s \in Side :
                 /\ reader[s] = "crashed" => reader'[s] = "crashed"
                 /\ budget[s] = 0 => budget'[s] = 0
                 /\ reader[s] # "none" /\ ~HasConn(s) => ~HasConn(s)'
                 /\ \A i \in DOMAIN accepted[s] :
                       i \in DOMAIN accepted'[s] /\ accepted'[s][i] = accepted[s][i]
<1>1. torn \subseteq torn' /\ \A s \in Side : budget[s] = 0 => budget'[s] = 0
  <2> DEFINE P == torn \subseteq torn' /\ \A s \in Side : budget[s] = 0 => budget'[s] = 0
  <2>0. /\ budget \in [Side -> 0..Quota] /\ Quota \in Nat
        /\ wire \in [Side -> Seq(Frames)]
    BY WireAssumption DEF Typed, StreamTyped
  <2>1. ASSUME NEW a \in Side, CanRead(a), Consume(a) PROVE P
    BY <2>0, <2>1 DEF CanRead, Consume
  <2>2. ASSUME NEW a \in Side, ReadTimesOut(a) PROVE P
    <3>1. PICK left, dropped :
             /\ torn' = IF left = Incoming(a) THEN torn ELSE torn \cup {Other(a)}
             /\ budget' = [budget EXCEPT ![a] = IF @ > dropped THEN @ - dropped ELSE 0]
             /\ left \in LeftAfterTimeout(Incoming(a))
             /\ dropped = Len(Incoming(a)) - Len(left)
      BY <2>2 DEF ReadTimesOut
    <3>2. PICK d \in 0..Len(Incoming(a)) : LastOf(left, Incoming(a), d)
      BY <2>0, <3>1, OtherSide, LeftIsLast DEF Incoming
    <3>3. Len(Incoming(a)) \in Nat
      BY <2>0, OtherSide DEF Incoming
    <3>4. dropped \in Nat
      BY <3>1, <3>2, <3>3 DEF LastOf
    <3> QED BY <2>0, <3>1, <3>4
  <2>3. ASSUME NEW a \in Side, NEW f, WriteSucceeds(a, f) \/ WriteFails(a, f) PROVE P
    BY <2>3 DEF WriteSucceeds, WriteFails, stream
  <2>4. UNCHANGED <<torn, budget>> => P
    OBVIOUS
  <2> SUFFICES P
    OBVIOUS
  <2> HIDE DEF P
  <2>5. ASSUME \/ UNCHANGED <<torn, budget>>
               \/ \E a \in Side : \/ CanRead(a) /\ Consume(a)
                                \/ ReadTimesOut(a)
                                \/ \E f \in Frames : WriteSucceeds(a, f) \/ WriteFails(a, f)
        PROVE  P
    BY <2>1, <2>2, <2>3, <2>4, <2>5
  <2>6. CASE Dials
    BY <2>5, <2>6, FramesBuilt, BothSides DEF Dials, ClientSendsHandshake, ClientReadsReply
  <2>7. CASE \E g \in {"reader", "writer"} : Handshake(g) \/ HandshakeFails(g) \/ HandshakeTimesOut(g)
    <3>1. UNCHANGED stream => UNCHANGED <<torn, budget>>
      BY DEF stream
    <3>2. CASE \E g \in {"reader", "writer"} : Handshake(g)
      BY <2>5, <3>1, <3>2, FramesBuilt, BothSides
         DEF Handshake, ServerReadsHandshake, ServerReplies
    <3>3. CASE \E g \in {"reader", "writer"} : HandshakeFails(g) \/ HandshakeTimesOut(g)
      BY <2>5, <3>1, <3>3, BothSides
         DEF HandshakeFails, ServerHandshakeFails, ReadFails, HandshakeTimesOut,
             ServerHandshakeTimesOut
    <3> QED BY <2>7, <3>2, <3>3
  <2>8. CASE \E a \in Side : ReaderReads(a) \/ ReaderTimesOut(a)
    BY <2>5, <2>8 DEF ReaderReads, ReaderTimesOut
  <2>9. CASE \E a \in Side : WriterDescribes(a) \/ WriterDescribesInner(a) \/ WriterWrites(a)
    <3>1. PICK a \in Side, f \in Frames : WriteSucceeds(a, f) \/ WriteFails(a, f) \/ UNCHANGED stream
      BY <2>9, WriterSends
    <3>2. UNCHANGED stream => UNCHANGED <<torn, budget>>
      BY DEF stream
    <3> QED BY <2>5, <3>1, <3>2
  <2>10. CASE \/ UNCHANGED vars \/ DialReturns \/ DialFails \/ ServerStarts \/ ServerRefuses
              \/ \E s \in Side :
                    \/ ReaderBegins(s) \/ ReaderFails(s) \/ ReaderDelivers(s)
                    \/ WriterTakes(s) \/ WriterCrashes(s)
                    \/ DeadlineStep(s) \/ CentralSends(s) \/ CentralCloses(s) \/ CentralShuts(s)
    <3>1. UNCHANGED <<torn, budget>>
      BY <2>10
         DEF vars, DialReturns, DialFails, ServerStarts, ServerRefuses, ReaderBegins,
             ReaderFails, ReadFails, ReaderDelivers, WriterTakes, WriterCrashes,
             DeadlineStep, DeadlinePasses, CentralSends, CentralCloses, CentralShuts, conns, stream
    <3> QED BY <2>4, <3>1
  <2> QED
    BY <2>6, <2>7, <2>8, <2>9, <2>10
       DEF Next, HandshakeEndsDial, DialTimesOut, Reader, Writer, ReaderPanics
<1>2. shut \subseteq shut' /\ cut \subseteq cut' /\ (dialled # "pending" => UNCHANGED dialled)
  BY DEF Next, Dials, DialReturns, HandshakeEndsDial, DialTimesOut, DialFails, GivenUp, ServerStarts,
         ServerRefuses, Reader, ReaderBegins, ReaderReads, ReaderTimesOut, ReaderDelivers,
         ReaderPanics, ReaderFails, Handshake, HandshakeFails, HandshakeTimesOut,
         Writer, WriterTakes, WriterDescribes, WriterDescribesInner, WriterWrites, WriterCrashes,
         DeadlineStep, DeadlinePasses, CentralSends, CentralCloses, CentralShuts, vars, conns,
         coding
<1>3. ASSUME NEW s \in Side, reader[s] = "crashed" PROVE reader'[s] = "crashed"
  <2> DEFINE From == {"none", "begin", "reading", "delivering"}
             Goes == \E x \in Side, state \in From \cup {"closed", "crashed"} :
                        reader[x] \in From /\ ReaderGoes(x, state)
  <2>1. CASE Goes
    BY <1>3, <2>1 DEF ReaderGoes, Typed, HalvesTyped
  <2>2. ASSUME NEW x \in Side, NextTurn(x), reader[x] \in From PROVE Goes
    BY <2>2 DEF NextTurn
  <2>3. ASSUME NEW x \in Side, RunGoroutines(x), reader[x] \in From PROVE Goes
    BY <2>3 DEF RunGoroutines
  <2>4. CASE \E x \in Side : ReaderReads(x)
    BY <1>3, <2>1, <2>4 DEF ReaderReads
  <2>5. CASE \/ DialReturns \/ DialFails \/ ServerStarts
    <3>1. dialled = "pending" => reader["client"] = "none"
      BY DEF Typed, HalvesTyped
    <3> QED BY <2>1, <2>3, <2>5, <3>1, BothSides DEF DialReturns, DialFails, ServerStarts
  <2>6. CASE \E x \in Side : \/ ReaderBegins(x) \/ ReaderTimesOut(x) \/ ReaderDelivers(x)
                           \/ ReaderFails(x)
    BY <2>1, <2>2, <2>6 DEF ReaderBegins, ReaderTimesOut, ReaderDelivers, ReaderFails
  <2>7. CASE \E g \in {"reader", "writer"} : HandshakeFails(g) \/ HandshakeTimesOut(g)
    <3>1. \/ reader["server"] = "reading" /\ (ReaderGoes("server", "crashed") \/ NextTurn("server"))
          \/ UNCHANGED reader
      BY <2>7 DEF HandshakeFails, HandshakeTimesOut, Handshakes
    <3> QED BY <1>3, <2>1, <2>2, <3>1, BothSides
  <2>8. CASE \/ UNCHANGED vars \/ Dials \/ ServerRefuses
             \/ \E g \in {"reader", "writer"} : Handshake(g)
             \/ \E x \in Side :
                   \/ WriterTakes(x) \/ WriterDescribes(x) \/ WriterDescribesInner(x) \/ WriterWrites(x)
                   \/ WriterCrashes(x)
                   \/ DeadlineStep(x) \/ CentralSends(x) \/ CentralCloses(x) \/ CentralShuts(x)
    <3>1. UNCHANGED reader
      BY <2>8 DEF vars, Dials, ServerRefuses, Handshake, WriterTakes, WriterDescribes,
                  WriterDescribesInner, WriterWrites, WriterCrashes, DeadlineStep, CentralSends, CentralCloses,
                  CentralShuts
    <3> QED BY <1>3, <3>1
  <2> QED
    BY <2>4, <2>5, <2>6, <2>7, <2>8
       DEF Next, HandshakeEndsDial, DialTimesOut, Reader, Writer, ReaderPanics
<1>4. ASSUME NEW s \in Side, reader[s] # "none", ~HasConn(s) PROVE ~HasConn(s)'
  <2>1. s = "client" /\ dialled # "pending" /\ dialled # "connected"
    BY <1>4, BothSides DEF HasConn, Typed, HalvesTyped
  <2> QED BY <1>2, <2>1 DEF HasConn
<1>5. ASSUME NEW s \in Side, NEW i \in DOMAIN accepted[s]
      PROVE  i \in DOMAIN accepted'[s] /\ accepted'[s][i] = accepted[s][i]
  <2>1. \/ UNCHANGED accepted
        \/ \E a \in Side : accepted' = [accepted EXCEPT ![a] = Append(@, writing[a])]
    BY DEF Next, Dials, DialReturns, HandshakeEndsDial, DialTimesOut, DialFails, ServerStarts,
           ServerRefuses, Reader, ReaderBegins, ReaderReads, ReaderTimesOut, ReaderDelivers,
           ReaderPanics, ReaderFails, Handshake, HandshakeFails, HandshakeTimesOut,
           Writer, WriterTakes, WriterDescribes, WriterDescribesInner, WriterWrites, WriterCrashes,
           DeadlineStep, CentralSends, CentralCloses, CentralShuts, vars, history
  <2>2. accepted[s] \in Seq(1..HighestMessage) /\ accepted \in [Side -> Seq(1..HighestMessage)]
    BY DEF Typed, RestTyped
  <2>3. accepted'[s] = accepted[s] \/ \E m : accepted'[s] = Append(accepted[s], m)
    BY <2>1, <2>2
  <2>4. ASSUME NEW m, accepted'[s] = Append(accepted[s], m)
        PROVE  i \in DOMAIN accepted'[s] /\ accepted'[s][i] = accepted[s][i]
    BY <2>2, <2>4
  <2> QED BY <2>3, <2>4
<1> QED
  BY <1>1, <1>2, <1>3, <1>4, <1>5, WillingStays

-----------------------------------------------------------------------------
(* In order and once *)

\* A frame counts the message it carries as the next one of acc.
Counted(acc) ==
    {t \in Frames \X (0..Len(acc)) \X (0..Len(acc)) :
        IF Carries(t[1]) THEN t[3] = t[2] + 1 /\ acc[t[3]] = t[1].msg ELSE t[3] = t[2]}

LEMMA CountedMeans ==
    ASSUME NEW acc, NEW f \in Frames, NEW n \in 0..Len(acc), NEW m \in 0..Len(acc)
    PROVE  <<f, n, m>> \in Counted(acc) <=>
              IF Carries(f) THEN m = n + 1 /\ acc[m] = f.msg ELSE m = n
BY DEF Counted

InHand(r) == IF received[r] = NoMessage THEN <<>> ELSE <<received[r]>>

\* What was delivered, with what the reader has in hand.
Read(r) == delivered[r] \o InHand(r)

\* n messages of s were read, and the others are on the way.
OnTheWay(s, n) ==
    /\ n \in 0..Len(accepted[s])
    /\ Read(Other(s)) = SubSeq(accepted[s], 1, n)
    /\ Leads(Counted(accepted[s]), 0..Len(accepted[s]), wire[s], n, Len(accepted[s]))

AllOnTheWay ==
    \A s \in Side : s \notin torn /\ reader[Other(s)] # "crashed" => \E n : OnTheWay(s, n)

LEMMA AllOnTheWayMeans == Typed => (AllOnTheWay <=> AcceptedIsDelivered)
<1> SUFFICES ASSUME Typed PROVE AllOnTheWay <=> AcceptedIsDelivered
  OBVIOUS
<1> DEFINE Chained(s, upTo) ==
              /\ Read(Other(s)) = SubSeq(accepted[s], 1, upTo[0])
              /\ upTo[Len(wire[s])] = Len(accepted[s])
              /\ \A i \in 1..Len(wire[s]) :
                    IF Carries(wire[s][i])
                    THEN upTo[i] = upTo[i - 1] + 1 /\ accepted[s][upTo[i]] = wire[s][i].msg
                    ELSE upTo[i] = upTo[i - 1]
<1>1. AcceptedIsDelivered <=>
         \A s \in Side : s \notin torn /\ reader[Other(s)] # "crashed" =>
            \E upTo \in [0..Len(wire[s]) -> 0..Len(accepted[s])] : Chained(s, upTo)
  BY Zenon DEF AcceptedIsDelivered, Read, InHand
<1>2. ASSUME NEW s \in Side
      PROVE  (\E n : OnTheWay(s, n)) <=>
                \E upTo \in [0..Len(wire[s]) -> 0..Len(accepted[s])] : Chained(s, upTo)
  <2> DEFINE fs == wire[s]
             acc == accepted[s]
             N == Len(acc)
  <2>1. /\ fs \in Seq(Frames) /\ Len(fs) \in Nat
        /\ 0 \in 0..Len(fs) /\ Len(fs) \in 0..Len(fs)
        /\ \A i \in 1..Len(fs) : fs[i] \in Frames /\ i \in 0..Len(fs) /\ i - 1 \in 0..Len(fs)
    BY DEF Typed, StreamTyped
  <2>2. ASSUME NEW upTo \in [0..Len(fs) -> 0..N]
        PROVE  Chain(Counted(acc), fs, upTo) <=>
                  \A i \in 1..Len(fs) :
                     IF Carries(fs[i]) THEN upTo[i] = upTo[i - 1] + 1 /\ acc[upTo[i]] = fs[i].msg
                                       ELSE upTo[i] = upTo[i - 1]
    <3>1. \A i \in 1..Len(fs) :
             <<fs[i], upTo[i - 1], upTo[i]>> \in Counted(acc) <=>
                IF Carries(fs[i]) THEN upTo[i] = upTo[i - 1] + 1 /\ acc[upTo[i]] = fs[i].msg
                                  ELSE upTo[i] = upTo[i - 1]
      <4> SUFFICES ASSUME NEW i \in 1..Len(fs)
                   PROVE  <<fs[i], upTo[i - 1], upTo[i]>> \in Counted(acc) <=>
                             IF Carries(fs[i])
                             THEN upTo[i] = upTo[i - 1] + 1 /\ acc[upTo[i]] = fs[i].msg
                             ELSE upTo[i] = upTo[i - 1]
        OBVIOUS
      <4>1. fs[i] \in Frames /\ upTo[i - 1] \in 0..N /\ upTo[i] \in 0..N
        BY <2>1
      <4> HIDE DEF fs, acc
      <4> QED BY <4>1, CountedMeans DEF N
    <3> HIDE DEF fs, acc
    <3> QED BY <3>1 DEF Chain
  <2>3. ASSUME NEW n, OnTheWay(s, n)
        PROVE  \E upTo \in [0..Len(fs) -> 0..N] : Chained(s, upTo)
    <3>1. PICK upTo \in [0..Len(fs) -> 0..N] :
             upTo[0] = n /\ upTo[Len(fs)] = N /\ Chain(Counted(acc), fs, upTo)
      BY <2>3, Zenon DEF OnTheWay, Leads
    <3>2. Chained(s, upTo)
      BY <2>2, <2>3, <3>1 DEF OnTheWay
    <3> QED BY <3>2
  <2>4. ASSUME NEW upTo \in [0..Len(fs) -> 0..N], Chained(s, upTo)
        PROVE  \E n : OnTheWay(s, n)
    <3>1. upTo[0] \in 0..N
      BY <2>1
    <3>2. Chain(Counted(acc), fs, upTo)
      BY <2>2, <2>4
    <3>3. Leads(Counted(acc), 0..N, fs, upTo[0], N)
      BY <2>4, <3>2, Zenon DEF Leads
    <3>4. OnTheWay(s, upTo[0])
      BY <2>4, <3>1, <3>3 DEF OnTheWay
    <3> QED BY <3>4
  <2> QED BY <2>3, <2>4
<1> HIDE DEF Chained
<1> QED
  BY <1>1, <1>2 DEF AllOnTheWay

LEMMA OrderInit == Init => AllOnTheWay
<1> SUFFICES ASSUME Init, NEW s \in Side PROVE OnTheWay(s, 0)
  BY DEF AllOnTheWay
<1>1. wire[s] = <<>> /\ accepted[s] = <<>> /\ Read(Other(s)) = <<>> \o <<>>
  BY OtherSide DEF Init, ConnInit, Read, InHand
<1>2. Len(<<>>) = 0 /\ <<>> \o <<>> = <<>> /\ SubSeq(<<>>, 1, 0) = <<>> /\ 0 \in 0..0
  OBVIOUS
<1>3. Leads(Counted(<<>>), 0..0, <<>>, 0, 0)
  BY <1>2, EmptyLeads
<1> QED
  BY <1>1, <1>2, <1>3 DEF OnTheWay

LEMMA SameSequence ==
    ASSUME NEW T, NEW x \in Seq(T), NEW y \in Seq(T), Len(x) = Len(y),
           \A i \in 1..Len(x) : x[i] = y[i]
    PROVE  x = y
OBVIOUS

LEMMA SubSeqSteps ==
    ASSUME NEW acc \in Seq(1..HighestMessage), NEW n \in 0..Len(acc)
    PROVE  /\ SubSeq(acc, 1, n) \in Seq(1..HighestMessage)
           /\ \A m \in 1..HighestMessage :
                 /\ SubSeq(Append(acc, m), 1, n) = SubSeq(acc, 1, n)
                 /\ n + 1 \in 0..Len(acc) /\ acc[n + 1] = m =>
                       SubSeq(acc, 1, n + 1) = Append(SubSeq(acc, 1, n), m)
<1> DEFINE S == 1..HighestMessage
           q == SubSeq(acc, 1, n)
<1>0. acc \in Seq(S) /\ n \in Nat /\ Len(acc) \in Nat /\ n <= Len(acc)
  OBVIOUS
<1> HIDE DEF S
<1>1. q \in Seq(S) /\ Len(q) = n /\ \A i \in 1..n : q[i] = acc[i]
  BY <1>0
<1>2. ASSUME NEW m \in S PROVE SubSeq(Append(acc, m), 1, n) = q
  <2> DEFINE t == SubSeq(Append(acc, m), 1, n)
  <2>1. t \in Seq(S) /\ Len(t) = n /\ \A i \in 1..n : t[i] = acc[i]
    <3> DEFINE a == Append(acc, m)
    <3>1. a \in Seq(S) /\ Len(a) = Len(acc) + 1 /\ \A i \in 1..Len(acc) : a[i] = acc[i]
      BY <1>0
    <3> HIDE DEF a
    <3>2. SubSeq(a, 1, n) \in Seq(S) /\ Len(SubSeq(a, 1, n)) = n
          /\ \A i \in 1..n : SubSeq(a, 1, n)[i] = a[i]
      BY <1>0, <3>1
    <3>3. \A i \in 1..n : i \in 1..Len(acc)
      BY <1>0
    <3> QED BY <3>1, <3>2, <3>3 DEF a
  <2> HIDE DEF t, q
  <2> QED BY <1>1, <2>1, SameSequence DEF t
<1>3. ASSUME NEW m \in S, n + 1 \in 0..Len(acc), acc[n + 1] = m
      PROVE  SubSeq(acc, 1, n + 1) = Append(q, m)
  <2> DEFINE t == SubSeq(acc, 1, n + 1)
             a == Append(q, m)
  <2>1. t \in Seq(S) /\ Len(t) = n + 1 /\ \A i \in 1..(n + 1) : t[i] = acc[i]
    BY <1>0, <1>3
  <2> HIDE DEF q
  <2>2. a \in Seq(S) /\ Len(a) = n + 1 /\ a[n + 1] = m /\ \A i \in 1..n : a[i] = q[i]
    BY <1>1
  <2> HIDE DEF t, a
  <2>3. ASSUME NEW i \in 1..(n + 1) PROVE t[i] = a[i]
    <3>1. CASE i = n + 1
      BY <1>0, <1>3, <2>1, <2>2, <3>1
    <3>2. CASE i # n + 1
      <4>1. i \in 1..n
        BY <1>0, <3>2
      <4> QED BY <1>1, <2>1, <2>2, <4>1
    <3> QED BY <3>1, <3>2
  <2> QED BY <2>1, <2>2, <2>3, SameSequence DEF t, a
<1> QED
  BY <1>1, <1>2, <1>3 DEF S

\* What the reader has in hand counts as read.
HandCounts ==
    \A r \in Side :
        /\ received[r] = NoMessage => Read(r) = delivered[r]
        /\ received[r] # NoMessage => Read(r) = Append(delivered[r], received[r])

LEMMA HandAlwaysCounts == Typed => HandCounts
<1> SUFFICES ASSUME Typed, NEW r \in Side
             PROVE  /\ received[r] = NoMessage => Read(r) = delivered[r]
                    /\ received[r] # NoMessage => Read(r) = Append(delivered[r], received[r])
  BY DEF HandCounts
<1> DEFINE S == 1..HighestMessage
           d == delivered[r]
           m == received[r]
<1>1. d \in Seq(S)
  BY DEF Typed, RestTyped
<1>2. received[r] # NoMessage => m \in S
  BY HighestIsHighest DEF Typed, HalvesTyped, NoMessage
<1> HIDE DEF S, d, m
<1>3. d \o <<>> = d /\ (m \in S => d \o <<m>> = Append(d, m))
  BY <1>1
<1> QED
  BY <1>2, <1>3 DEF Read, InHand, d, m

LEMMA OrderNext ==
    ASSUME Typed, Trusting, Describing, AllOnTheWay, [Next]_vars, Typed'
    PROVE  AllOnTheWay'
<1> SUFFICES ASSUME NEW s \in Side, s \notin torn', reader'[Other(s)] # "crashed"
             PROVE  \E n : OnTheWay(s, n)'
  BY DEF AllOnTheWay
<1> DEFINE r == Other(s)
           acc == accepted[s]
           acc1 == accepted'[s]
           fs == wire[s]
           fs1 == wire'[s]
           S == 1..HighestMessage
<1>0. /\ r \in Side /\ fs \in Seq(Frames) /\ fs1 \in Seq(Frames) /\ acc \in Seq(S)
      /\ received[r] \in 0..HighestMessage
      /\ \A i \in DOMAIN fs : WellFormed(fs[i])
  BY OtherSide DEF Typed, StreamTyped, HalvesTyped, RestTyped
<1>1. s \notin torn /\ reader[r] # "crashed"
  BY <1>0, Forever
<1>2. PICK n : OnTheWay(s, n)
  BY <1>1 DEF AllOnTheWay
<1>3. /\ n \in 0..Len(acc) /\ Read(r) = SubSeq(acc, 1, n)
      /\ Leads(Counted(acc), 0..Len(acc), fs, n, Len(acc))
  BY <1>2 DEF OnTheWay
<1>4. ASSUME NEW k \in 0..Len(acc1), Read(r)' = SubSeq(acc1, 1, k),
             Leads(Counted(acc1), 0..Len(acc1), fs1, k, Len(acc1))
      PROVE  \E m : OnTheWay(s, m)'
  BY <1>4 DEF OnTheWay
<1>5. /\ received[r] = NoMessage => Read(r) = delivered[r]
      /\ received[r] # NoMessage => Read(r) = Append(delivered[r], received[r])
      /\ received'[r] = NoMessage => Read(r)' = delivered'[r]
      /\ received'[r] # NoMessage => Read(r)' = Append(delivered'[r], received'[r])
  <2>1. HandCounts /\ HandCounts'
    BY HandAlwaysCounts, PTL
  <2> QED BY <1>0, <2>1 DEF HandCounts
<1>6. ASSUME delivered'[r] = delivered[r], received'[r] = received[r] PROVE Read(r)' = Read(r)
  BY <1>5, <1>6
<1>7. CASE Rests(s) \/ Delivers(s, r)
  <2>1. fs1 = fs /\ acc1 = acc
    BY <1>7 DEF Rests, Delivers, SenderKeeps
  <2>2. Read(r)' = Read(r)
    BY <1>5, <1>6, <1>7 DEF Rests, ReceiverKeeps, Delivers
  <2> QED BY <1>3, <1>4, <2>1, <2>2
<1>8. CASE Sends(s)
  <2>1. PICK f \in Frames : fs1 = Append(fs, f) /\ Writing(s, f)
    BY <1>8 DEF Sends
  <2>2. Read(r)' = Read(r)
    BY <1>6, <1>8 DEF Sends, ReceiverKeeps
  <2>3. CASE ~Carries(f)
    <3>1. acc1 = acc /\ Len(acc) \in 0..Len(acc)
      BY <1>0, <2>1, <2>3 DEF Writing
    <3>2. <<f, Len(acc), Len(acc)>> \in Counted(acc)
      BY <2>3, <3>1, CountedMeans
    <3>3. Leads(Counted(acc), 0..Len(acc), fs1, n, Len(acc))
      BY <1>0, <1>3, <2>1, <3>1, <3>2, AppendLeads
    <3> QED BY <1>3, <1>4, <2>2, <3>1, <3>3
  <2>4. CASE Carries(f)
    <3> DEFINE m == f.msg
    <3>1. acc1 = Append(acc, m)
      BY <2>1, <2>4 DEF Writing
    <3>2. m \in S
      <4>1. fs1[Len(fs) + 1] = f /\ Len(fs) + 1 \in DOMAIN fs1
        BY <1>0, <2>1
      <4>2. WellFormed(f) /\ f.msg \in 0..HighestMessage
        BY <4>1 DEF Typed, StreamTyped, Frames
      <4> QED BY <2>4, <4>2, HighestIsHighest DEF WellFormed, NoMessage
    <3> HIDE DEF acc, acc1, m, S
    <3>3. /\ Len(acc1) = Len(acc) + 1 /\ acc1[Len(acc) + 1] = m /\ Len(acc) \in Nat
          /\ \A i \in 1..Len(acc) : acc1[i] = acc[i]
      BY <1>0, <3>1, <3>2
    <3>4. 0..Len(acc) \subseteq 0..Len(acc1) /\ Counted(acc) \subseteq Counted(acc1)
      <4>1. 0..Len(acc) \subseteq 0..Len(acc1)
        BY <3>3
      <4>2. ASSUME NEW t \in Counted(acc) PROVE t \in Counted(acc1)
        <5>1. PICK g \in Frames, x \in 0..Len(acc), y \in 0..Len(acc) : t = <<g, x, y>>
          BY DEF Counted
        <5>2. IF Carries(g) THEN y = x + 1 /\ acc[y] = g.msg ELSE y = x
          BY <4>2, <5>1, CountedMeans
        <5>3. IF Carries(g) THEN y = x + 1 /\ acc1[y] = g.msg ELSE y = x
          <6>1. y = x + 1 => y \in 1..Len(acc)
            BY <3>3
          <6> QED BY <3>3, <5>2, <6>1
        <5>4. x \in 0..Len(acc1) /\ y \in 0..Len(acc1)
          BY <4>1
        <5> QED BY <5>1, <5>3, <5>4, CountedMeans
      <4> QED BY <4>1, <4>2
    <3>5. Leads(Counted(acc1), 0..Len(acc1), fs, n, Len(acc))
      BY <1>0, <1>3, <3>4, MoreLeads
    <3>6. /\ Len(acc) \in 0..Len(acc1) /\ Len(acc1) \in 0..Len(acc1)
          /\ <<f, Len(acc), Len(acc1)>> \in Counted(acc1)
      <4>1. Len(acc) \in 0..Len(acc1) /\ Len(acc1) \in 0..Len(acc1)
        BY <3>3
      <4> QED BY <2>4, <3>3, <4>1, CountedMeans DEF m
    <3>7. Leads(Counted(acc1), 0..Len(acc1), fs1, n, Len(acc1))
      BY <1>0, <2>1, <3>5, <3>6, AppendLeads
    <3>8. n \in 0..Len(acc1) /\ SubSeq(acc1, 1, n) = SubSeq(acc, 1, n)
      <4>1. n \in 0..Len(acc1)
        BY <1>3, <3>4
      <4>2. SubSeq(Append(acc, m), 1, n) = SubSeq(acc, 1, n)
        BY <1>0, <1>3, <3>2, SubSeqSteps DEF S
      <4> QED BY <3>1, <4>1, <4>2
    <3> QED BY <1>3, <1>4, <2>2, <3>7, <3>8
  <2> QED BY <2>3, <2>4
<1>9. CASE Takes(s, r, Head(fs))
  <2> DEFINE f == Head(fs)
  <2>1. /\ fs # <<>> /\ fs1 = Tail(fs) /\ acc1 = acc /\ delivered'[r] = delivered[r]
        /\ IF Carries(f) THEN received[r] = NoMessage /\ received'[r] = f.msg
                         ELSE received'[r] = received[r]
    BY <1>9 DEF Takes, SenderKeeps
  <2>2. PICK k \in 0..Len(acc) :
           <<f, n, k>> \in Counted(acc) /\ Leads(Counted(acc), 0..Len(acc), Tail(fs), k, Len(acc))
    BY <1>0, <1>3, <2>1, TailLeads
  <2>3. f \in Frames /\ WellFormed(f)
    <3>1. 1 \in DOMAIN fs /\ f = fs[1] /\ fs[1] \in Frames
      BY <1>0, <2>1
    <3> QED BY <1>0, <3>1
  <2> HIDE DEF f
  <2>4. IF Carries(f) THEN k = n + 1 /\ acc[k] = f.msg ELSE k = n
    BY <1>3, <2>2, <2>3, CountedMeans
  <2>5. Read(r)' = SubSeq(acc, 1, k)
    <3>1. CASE ~Carries(f)
      BY <1>3, <1>6, <2>1, <2>4, <3>1
    <3>2. CASE Carries(f)
      <4> DEFINE m == f.msg
      <4>1. m \in S /\ m # NoMessage
        <5>1. f.msg \in 0..HighestMessage
          BY <2>3 DEF Frames
        <5> QED BY <2>3, <3>2, <5>1, HighestIsHighest DEF WellFormed, NoMessage
      <4>2. Read(r) = delivered[r] /\ Read(r)' = Append(delivered[r], m)
        BY <1>5, <2>1, <3>2, <4>1
      <4> HIDE DEF m
      <4>3. n + 1 \in 0..Len(acc) /\ acc[n + 1] = m /\ k = n + 1
        BY <2>4, <3>2 DEF m
      <4>4. SubSeq(acc, 1, n + 1) = Append(SubSeq(acc, 1, n), m)
        BY <1>0, <1>3, <4>1, <4>3, SubSeqSteps
      <4> QED BY <1>3, <4>2, <4>3, <4>4
    <3> QED BY <3>1, <3>2
  <2> QED BY <1>4, <2>1, <2>2, <2>5
<1> QED
  BY <1>1, <1>7, <1>8, <1>9, EveryStep DEF DirectionStep

-----------------------------------------------------------------------------
(* Why a reader crashes *)

\* The frames that take a decoder from one state to another.
Sense ==
    {t \in Frames \X CoderStates \X CoderStates : MakesSense(t[1], t[2], t[3])}

LEMMA SenseMeans ==
    ASSUME NEW f \in Frames, NEW x \in CoderStates, NEW y \in CoderStates
    PROVE  /\ <<f, x, y>> \in Sense <=> MakesSense(f, x, y)
           /\ \A z \in CoderStates : MakesSense(f, x, y) /\ MakesSense(f, x, z) => y = z
<1>1. <<f, x, y>> \in Sense <=> MakesSense(f, x, y)
  BY DEF Sense
<1>2. ASSUME NEW z \in CoderStates, MakesSense(f, x, y), MakesSense(f, x, z) PROVE y = z
  <2>1. y.known = z.known /\ y.at = z.at
    BY <1>2 DEF MakesSense
  <2>2. \A u \in CoderStates : u = [known |-> u.known, at |-> u.at]
    BY DEF CoderStates
  <2> QED BY <2>1, <2>2
<1> QED
  BY <1>1, <1>2

\* As long as no frame of a side is torn and no message is cut off, what is on
\* the way brings the decoder to where the encoder is.
Sensible ==
    \A s \in Side : s \notin torn \cup cut /\ reader[Other(s)] # "crashed" =>
        Leads(Sense, CoderStates, wire[s], Decoder(Other(s)), Encoder(s))

LEMMA SensibleInit == Init => Sensible
<1> SUFFICES ASSUME Init, NEW s \in Side
             PROVE  Leads(Sense, CoderStates, wire[s], Decoder(Other(s)), Encoder(s))
  BY DEF Sensible
<1>1. wire[s] = <<>> /\ Decoder(Other(s)) = Encoder(s)
  BY OtherSide DEF Init, ConnInit, Decoder, Encoder
<1>2. Encoder(s) \in CoderStates
  BY InitTyped, CodersAreStates
<1> QED
  BY <1>1, <1>2, EmptyLeads

LEMMA SensibleNext ==
    ASSUME Typed, Trusting, Describing, Sensible, Typed', [Next]_vars
    PROVE  Sensible'
<1> SUFFICES ASSUME NEW s \in Side, s \notin torn' \cup cut', reader'[Other(s)] # "crashed"
             PROVE  Leads(Sense, CoderStates, wire'[s], Decoder(Other(s))', Encoder(s)')
  BY DEF Sensible, Leads, Chain, Sense
<1> DEFINE r == Other(s)
<1>0. /\ r \in Side /\ wire[s] \in Seq(Frames)
      /\ Decoder(r) \in CoderStates /\ Encoder(s) \in CoderStates
      /\ Decoder(r)' \in CoderStates /\ Encoder(s)' \in CoderStates
  <2>1. \A x \in Side : Encoder(x)' \in CoderStates /\ Decoder(x)' \in CoderStates
    BY DEF Typed, CodersTyped, Encoder, Decoder, CoderStates
  <2> QED BY <2>1, OtherSide, CodersAreStates DEF Typed, StreamTyped
<1>1. Leads(Sense, CoderStates, wire[s], Decoder(r), Encoder(s))
  BY <1>0, Forever DEF Sensible
<1>2. CASE Rests(s) \/ Delivers(s, r)
  <2>1. wire'[s] = wire[s] /\ Encoder(s)' = Encoder(s) /\ Decoder(r)' = Decoder(r)
    BY <1>2 DEF Rests, Delivers, SenderKeeps, ReceiverKeeps
  <2> QED BY <1>1, <2>1
<1>3. CASE Sends(s)
  <2>1. PICK f \in Frames : wire'[s] = Append(wire[s], f) /\ Writing(s, f)
    BY <1>3 DEF Sends
  <2>2. Decoder(r)' = Decoder(r) /\ MakesSense(f, Encoder(s), Encoder(s)')
    BY <1>3, <2>1 DEF Sends, ReceiverKeeps, Writing
  <2>3. <<f, Encoder(s), Encoder(s)'>> \in Sense
    BY <1>0, <2>2, SenseMeans
  <2> QED BY <1>0, <1>1, <2>1, <2>2, <2>3, AppendLeads
<1>4. CASE Takes(s, r, Head(wire[s]))
  <2> DEFINE f == Head(wire[s])
  <2>1. /\ wire[s] # <<>> /\ wire'[s] = Tail(wire[s]) /\ Encoder(s)' = Encoder(s)
        /\ MakesSense(f, Decoder(r), Decoder(r)')
    BY <1>4 DEF Takes, SenderKeeps
  <2>2. PICK z \in CoderStates :
           /\ <<f, Decoder(r), z>> \in Sense
           /\ Leads(Sense, CoderStates, Tail(wire[s]), z, Encoder(s))
    BY <1>0, <1>1, <2>1, TailLeads
  <2>3. f \in Frames
    BY <1>0, <2>1
  <2> HIDE DEF f
  <2>4. z = Decoder(r)'
    BY <1>0, <2>1, <2>2, <2>3, SenseMeans
  <2> QED BY <2>1, <2>2, <2>4
<1> QED
  BY <1>2, <1>3, <1>4, EveryStep DEF DirectionStep

Cause(s) ==
    \/ ~HasConn(s) \/ Other(s) \in shut \/ Other(s) \in torn \cup cut
    \/ willing # Side
    \/ budget[s] = 0
    \/ \E i \in DOMAIN accepted[Other(s)] : accepted[Other(s)][i] \in Oversized[Other(s)]

LEMMA CauseStays ==
    ASSUME Typed, [Next]_vars, NEW s \in Side, reader[s] # "none", Cause(s)
    PROVE  Cause(s)'
<1>1. CASE \/ ~HasConn(s) \/ Other(s) \in shut \/ Other(s) \in torn \cup cut \/ willing # Side
           \/ budget[s] = 0
  BY <1>1, Forever DEF Cause
<1>2. CASE \E i \in DOMAIN accepted[Other(s)] : accepted[Other(s)][i] \in Oversized[Other(s)]
  BY <1>2, Forever, OtherSide DEF Cause
<1> QED
  BY <1>1, <1>2 DEF Cause

LEMMA CrashBegins ==
    ASSUME Typed, Trusting, Sensible, AllOnTheWay, [Next]_vars, NEW s \in Side,
           reader[s] # "crashed", reader'[s] = "crashed"
    PROVE  reader[s] # "none" /\ Cause(s)
<1> DEFINE b == Other(s)
<1>0. /\ b \in Side /\ wire[b] \in Seq(Frames)
      /\ reader \in [Side -> {"none", "begin", "reading", "delivering", "closed", "crashed"}]
      /\ Incoming(s) = wire[b]
  BY OtherSide DEF Typed, StreamTyped, HalvesTyped, Incoming
<1>1. ASSUME wire[b] # <<>>
      PROVE  /\ 1 \in DOMAIN wire[b] /\ Head(wire[b]) = wire[b][1]
             /\ Head(wire[b]) \in Frames
             /\ b \notin torn \cup cut => \E y : MakesSense(Head(wire[b]), Decoder(s), y)
  <2>1. 1 \in DOMAIN wire[b] /\ Head(wire[b]) = wire[b][1] /\ wire[b][1] \in Frames
    BY <1>0, <1>1
  <2>2. ASSUME b \notin torn \cup cut PROVE \E y : MakesSense(Head(wire[b]), Decoder(s), y)
    <3>1. Leads(Sense, CoderStates, wire[b], Decoder(s), Encoder(b))
      BY <1>0, <2>2, OtherSide DEF Sensible
    <3>2. PICK y \in CoderStates : <<Head(wire[b]), Decoder(s), y>> \in Sense
      BY <1>0, <1>1, <3>1, TailLeads
    <3> QED BY <2>1, <3>2, CodersAreStates, SenseMeans
  <2> QED BY <2>1, <2>2
<1>2. ReadFails(s) => Cause(s)
  BY <1>0, <1>1 DEF ReadFails, Cause, MakesSense
<1>3. ASSUME NEW x \in Side, NextTurn(x), reader[x] # "none"
      PROVE  reader[s] # "none" /\ Cause(s)
  <2>1. CASE x = s
    BY <1>0, <1>3, <2>1 DEF NextTurn, ReaderGoes, Cause
  <2>2. CASE x # s
    <3>1. reader'[s] = reader[s]
      BY <1>0, <1>3, <2>2 DEF NextTurn, ReaderGoes
    <3> QED BY <3>1
  <2> QED BY <2>1, <2>2
<1>4. ASSUME NEW x \in Side, NEW state, ReaderGoes(x, state)
      PROVE  x = s /\ state = "crashed"
  BY <1>0, <1>4 DEF ReaderGoes
<1>5. CASE ReaderReads(s)
  <2> DEFINE f == Head(wire[b])
  <2>1. /\ reader[s] = "reading" /\ stage[s] = "done" /\ wire[b] # <<>>
        /\ ~Registers(s, f) /\ ~Begins(s, f) /\ ~Decodable(s, f)
    <3>1. ~UNCHANGED reader /\ ~ReaderGoes(s, "delivering")
      BY <1>4
    <3>2. /\ reader[s] = "reading" /\ stage[s] = "done" /\ CanRead(s)
          /\ \/ UNCHANGED reader
             \/ ReaderGoes(s, "delivering")
             \/ ~Registers(s, f) /\ ~Begins(s, f) /\ ~Decodable(s, f)
      BY <1>0, <1>5 DEF ReaderReads
    <3> QED BY <1>0, <3>1, <3>2 DEF CanRead
  <2>2. f.kind # "handshake" /\ f \in Frames
    BY <1>0, <1>1, <2>1, OtherSide DEF Trusting, Ordered
  <2>3. CASE b \in torn \cup cut
    BY <2>1, <2>3 DEF Cause
  <2>4. CASE b \notin torn \cup cut
    <3>1. PICK y : MakesSense(f, Decoder(s), y)
      BY <1>1, <2>1, <2>4
    <3>2. Carries(f)
      BY <2>1, <2>2, <3>1 DEF MakesSense, Decoder, Registers, Begins, Carries, Frames, Kinds
    <3>3. f.msg \in Oversized[b]
      BY <2>1, <3>1, <3>2 DEF MakesSense, Decoder, Decodable, Carries
    <3>4. PICK n : OnTheWay(b, n)
      BY <1>0, <2>4, OtherSide DEF AllOnTheWay
    <3>5. PICK k \in 0..Len(accepted[b]) : <<f, n, k>> \in Counted(accepted[b])
      BY <1>0, <2>1, <3>4, TailLeads DEF OnTheWay
    <3>6. k = n + 1 /\ accepted[b][k] = f.msg /\ n \in 0..Len(accepted[b])
      BY <2>2, <3>2, <3>4, <3>5, CountedMeans DEF OnTheWay
    <3>7. k \in DOMAIN accepted[b]
      <4>1. accepted[b] \in Seq(1..HighestMessage)
        BY <1>0 DEF Typed, RestTyped
      <4> QED BY <3>6, <4>1
    <3> QED BY <2>1, <3>3, <3>6, <3>7 DEF Cause
  <2> QED BY <2>3, <2>4
<1>6. CASE \E x \in Side : ReaderReads(x)
  <2>1. PICK x \in Side : ReaderReads(x)
    BY <1>6
  <2>2. x = s
    <3>1. UNCHANGED reader \/ \E state : ReaderGoes(x, state)
      BY <2>1 DEF ReaderReads
    <3>2. ~UNCHANGED reader
      OBVIOUS
    <3> QED BY <1>4, <3>1, <3>2
  <2> QED BY <1>5, <2>1, <2>2
<1>7. CASE \E x \in Side : ReaderFails(x)
  BY <1>2, <1>4, <1>7 DEF ReaderFails
<1>8. CASE \E x \in Side : ReaderBegins(x) \/ ReaderTimesOut(x) \/ ReaderDelivers(x)
  BY <1>3, <1>8 DEF ReaderBegins, ReaderTimesOut, ReaderDelivers
<1>9. CASE \E g \in {"reader", "writer"} : HandshakeFails(g) \/ HandshakeTimesOut(g)
  <2>1. PICK g \in {"reader", "writer"} : HandshakeFails(g) \/ HandshakeTimesOut(g)
    BY <1>9
  <2>2. ~UNCHANGED reader /\ "server" \in Side
    BY BothSides
  <2>3. CASE HandshakeFails(g)
    <3>1. /\ ServerHandshakeFails(g) /\ reader["server"] = "reading" /\ ReaderGoes("server", "crashed")
      BY <2>1, <2>2, <2>3 DEF HandshakeFails, Handshakes
    <3>2. s = "server"
      BY <1>4, <2>2, <3>1
    <3>3. /\ stage[s] = "start"
          /\ ReadFails(s) \/ (CanRead(s) /\ ~Accepts(s, Head(wire[b])))
      BY <1>0, <3>1, <3>2 DEF ServerHandshakeFails
    <3>4. CASE CanRead(s) /\ ~Accepts(s, Head(wire[b]))
      <4>1. wire[b] # <<>> /\ b = "client"
        BY <1>0, <3>2, <3>4, BothSides DEF CanRead
      <4>2. Head(wire[b]).kind = "handshake"
        BY <1>0, <1>1, <3>2, <3>3, <4>1 DEF Trusting, Ordered, Stages
      <4> QED BY <3>1, <3>2, <3>4, <4>2 DEF Accepts, Trusts, Cause
    <3> QED BY <1>2, <3>1, <3>2, <3>3, <3>4
  <2>4. CASE HandshakeTimesOut(g)
    BY <1>3, <2>1, <2>2, <2>4 DEF HandshakeTimesOut, Handshakes
  <2> QED BY <2>1, <2>3, <2>4
<1>10. CASE DialReturns \/ DialFails \/ ServerStarts
  <2>1. ASSUME NEW x \in Side, RunGoroutines(x) PROVE FALSE
    BY <1>4, <2>1 DEF RunGoroutines
  <2> QED BY <1>10, <2>1, BothSides DEF DialReturns, DialFails, ServerStarts
<1>11. CASE \/ UNCHANGED vars \/ Dials \/ ServerRefuses
            \/ \E g \in {"reader", "writer"} : Handshake(g)
            \/ \E x \in Side :
                  \/ WriterTakes(x) \/ WriterDescribes(x) \/ WriterDescribesInner(x) \/ WriterWrites(x)
                   \/ WriterCrashes(x)
                  \/ DeadlineStep(x) \/ CentralSends(x) \/ CentralCloses(x) \/ CentralShuts(x)
  <2>1. UNCHANGED reader
    BY <1>11 DEF vars, Dials, ServerRefuses, Handshake, WriterTakes, WriterDescribes,
                WriterDescribesInner, WriterWrites, WriterCrashes, DeadlineStep, CentralSends, CentralCloses,
                CentralShuts
  <2> QED BY <2>1
<1> QED
  BY <1>6, <1>7, <1>8, <1>9, <1>10, <1>11
     DEF Next, HandshakeEndsDial, DialTimesOut, Reader, Writer, ReaderPanics

\* The inductive invariant of everything that passes.
Passing == Typed /\ Trusting /\ Describing /\ AllOnTheWay /\ Sensible

LEMMA PassingAlways == Spec => []Passing
<1>1. Init => Passing
  BY InitTyped, TrustInit, DescribingInit, OrderInit, SensibleInit DEF Passing
<1>2. Passing /\ [Next]_vars => Passing'
  BY NextTyped, TrustNext, DescribingNext, OrderNext, SensibleNext DEF Passing
<1> QED
  BY <1>1, <1>2, PTL DEF Spec

\* What Encode reported as written is delivered in the same order and once, or
\* still under way, unless a deadline has torn a frame of that direction or the
\* reader has crashed.
THEOREM DeliveredInOrder == Spec => []AcceptedIsDelivered
<1>1. Passing => AcceptedIsDelivered
  BY AllOnTheWayMeans DEF Passing
<1> QED
  BY <1>1, PassingAlways, PTL

\* A reader crashes only when its dial failed, the other side closed the
\* connection, a deadline tore a frame that comes to it or an error cut off a
\* message behind its head, a handshake was refused, its limit was reached, or a
\* message was too long for its buffer: however Encode spreads the types over
\* its writes, and whatever it gives up, no type is missing and none comes twice.
THEOREM CrashesHaveACause == Spec => []CrashHasACause
<1>1. Init => CrashHasACause
  BY DEF Init, CrashHasACause
<1>2. CrashHasACause /\ Passing /\ [Next]_vars => CrashHasACause'
  <2> SUFFICES ASSUME CrashHasACause, Passing, [Next]_vars, NEW s \in Side, reader'[s] = "crashed"
               PROVE  Cause(s)'
    BY DEF CrashHasACause, Cause
  <2>1. reader[s] # "none" /\ Cause(s)
    <3>1. CASE reader[s] = "crashed"
      BY <3>1 DEF CrashHasACause, Cause
    <3>2. CASE reader[s] # "crashed"
      BY <3>2, CrashBegins DEF Passing
    <3> QED BY <3>1, <3>2
  <2> QED BY <2>1, CauseStays DEF Passing
<1> QED
  BY <1>1, <1>2, PassingAlways, PTL DEF Spec

=============================================================================
