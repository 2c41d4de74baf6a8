----------------------------- MODULE P2PProofs -----------------------------
(***************************************************************************)
(* Theorems about P2PEndpoint, for any number and size of messages, any    *)
(* capacity of the TCP buffers and of MsgInQueue, and any quota.           *)
(***************************************************************************)
EXTENDS P2PEndpoint, TLAPS

-----------------------------------------------------------------------------
(* Frames on the way *)

LEMMA HighestIsHighest ==
    /\ HighestMessage \in Nat
    /\ \A s \in Side : MaxSends[s] \in Nat /\ MaxSends[s] <= HighestMessage
BY WireAssumption DEF HighestMessage, Side

LEMMA OtherSide ==
    \A s \in Side : Other(s) \in Side /\ Other(s) # s /\ Other(Other(s)) = s
BY DEF Other, Side

\* What matters of a frame to a reader that gets all of it.
SameFrame(f, g) == f.kind = g.kind /\ f.msg = g.msg /\ f.type = g.type

LEMMA FramesBuilt ==
    /\ HandshakeFrame \in Frames /\ HandshakeFrame.kind = "handshake" /\ HandshakeFrame.whole
    /\ \A kind \in Kinds, m \in 0..HighestMessage, T \in Type :
          /\ Frame(kind, m, T) \in Frames /\ Frame(kind, m, T).whole
          /\ Frame(kind, m, T).kind = kind /\ Frame(kind, m, T).msg = m
          /\ Frame(kind, m, T).type = T
    /\ \A f \in Frames : Torn(f) \in Frames /\ SameFrame(Torn(f), f)
<1>1. 0 \in 0..HighestMessage
  BY HighestIsHighest
<1>2. \A f \in Frames : Torn(f) \in Frames /\ SameFrame(Torn(f), f)
  BY DEF Torn, Frames, SameFrame
<1>3. \A kind \in Kinds, m \in 0..HighestMessage, T \in Type \cup {NoType} :
         /\ Frame(kind, m, T) \in Frames /\ Frame(kind, m, T).whole
         /\ Frame(kind, m, T).kind = kind /\ Frame(kind, m, T).msg = m
         /\ Frame(kind, m, T).type = T
  BY DEF Frame, Frames
<1> QED
  BY <1>1, <1>2, <1>3 DEF HandshakeFrame, NoMessage, Kinds

\* What is left after a timeout are the last frames, one of them perhaps torn.
LastOf(left, fs, d) ==
    /\ left \in Seq(Frames) /\ Len(left) = Len(fs) - d
    /\ \A i \in 1..Len(left) : SameFrame(left[i], fs[d + i])

LEMMA LeftIsLast ==
    ASSUME NEW fs \in Seq(Frames), NEW left \in LeftAfterTimeout(fs)
    PROVE  \E d \in 0..Len(fs) : LastOf(left, fs, d)
<1> DEFINE From(i) == SubSeq(fs, i, Len(fs))
<1>1. ASSUME NEW gs \in Seq(Frames), gs # <<>>
      PROVE  /\ TornHead(gs) \in Seq(Frames) /\ Len(TornHead(gs)) = Len(gs)
             /\ \A i \in 1..Len(gs) : SameFrame(TornHead(gs)[i], gs[i])
  <2> DEFINE h == Torn(Head(gs))
             t == Tail(gs)
  <2>1. h \in Frames /\ SameFrame(h, gs[1])
    BY <1>1, FramesBuilt
  <2>2. /\ t \in Seq(Frames) /\ Len(t) = Len(gs) - 1 /\ Len(gs) \in Nat \ {0}
        /\ \A i \in 1..Len(t) : t[i] = gs[i + 1]
    BY <1>1
  <2> HIDE DEF h, t
  <2>3. /\ <<h>> \o t \in Seq(Frames) /\ Len(<<h>> \o t) = Len(gs)
        /\ \A i \in 1..Len(gs) : (<<h>> \o t)[i] = IF i = 1 THEN h ELSE t[i - 1]
    BY <2>1, <2>2
  <2>4. ASSUME NEW i \in 1..Len(gs), i # 1
        PROVE  t[i - 1] = gs[i]
    <3>1. i - 1 \in 1..Len(t)
      BY <2>2, <2>4
    <3> QED BY <2>2, <3>1
  <2> QED
    BY <2>1, <2>3, <2>4 DEF TornHead, h, t, SameFrame
<1>2. ASSUME NEW i \in 2..(Len(fs) + 1)
      PROVE  i - 1 \in 0..Len(fs) /\ LastOf(From(i), fs, i - 1)
  <2>1. /\ From(i) \in Seq(Frames) /\ Len(From(i)) = Len(fs) - (i - 1)
        /\ i - 1 \in 0..Len(fs)
        /\ \A j \in 1..Len(From(i)) : From(i)[j] = fs[(i - 1) + j]
    OBVIOUS
  <2> HIDE DEF From
  <2> QED BY <2>1 DEF LastOf, SameFrame
<1>3. 0 \in 0..Len(fs) /\ LastOf(fs, fs, 0)
  BY DEF LastOf, SameFrame
<1>4. ASSUME NEW gs \in Seq(Frames), gs # <<>>, NEW d \in 0..Len(fs), LastOf(gs, fs, d)
      PROVE  LastOf(TornHead(gs), fs, d)
  <2> DEFINE t == TornHead(gs)
  <2>1. /\ t \in Seq(Frames) /\ Len(t) = Len(gs)
        /\ \A i \in 1..Len(gs) : SameFrame(t[i], gs[i])
    BY <1>1, <1>4
  <2> HIDE DEF t
  <2>2. LastOf(t, fs, d)
    BY <1>4, <2>1 DEF LastOf, SameFrame
  <2> QED BY <2>2 DEF t
<1>5. CASE \E i \in 2..(Len(fs) + 1) : left = From(i)
  <2>1. PICK i \in 2..(Len(fs) + 1) : left = From(i)
    BY <1>5
  <2> DEFINE d == i - 1
  <2>2. d \in 0..Len(fs) /\ LastOf(left, fs, d)
    BY <1>2, <2>1
  <2> HIDE DEF d
  <2> QED BY <2>2
<1>6. CASE fs # <<>> /\ \E i \in 2..Len(fs) : left = TornHead(From(i))
  <2>1. PICK i \in 2..Len(fs) : left = TornHead(From(i))
    BY <1>6
  <2> DEFINE gs == From(i)
             d == i - 1
  <2>2. d \in 0..Len(fs) /\ LastOf(gs, fs, d) /\ d < Len(fs)
    BY <1>2
  <2>3. left = TornHead(gs)
    BY <2>1
  <2> HIDE DEF gs, d
  <2>4. gs \in Seq(Frames) /\ gs # <<>>
    BY <2>2 DEF LastOf
  <2> QED BY <1>4, <2>2, <2>3, <2>4
<1>7. \/ left = fs
      \/ fs # <<>> /\ left = TornHead(fs)
      \/ \E i \in 2..(Len(fs) + 1) : left = From(i)
      \/ fs # <<>> /\ \E i \in 2..Len(fs) : left = TornHead(From(i))
  BY DEF LeftAfterTimeout
<1> QED
  BY <1>3, <1>4, <1>5, <1>6, <1>7

-----------------------------------------------------------------------------
(* Types *)

\* A message is not numbered NoMessage, and sealed frames have a type.
WellFormed(f) ==
    /\ Carries(f) => f.msg # NoMessage
    /\ f.kind # "handshake" => f.type \in Type

StreamTyped ==
    /\ wire \in [Side -> Seq(Frames)]
    /\ torn \subseteq Side
    /\ budget \in [Side -> 0..Quota]
    /\ \A s \in Side : \A i \in DOMAIN wire[s] : WellFormed(wire[s][i])

\* The connection, but for what is on its way.
LinkTyped ==
    /\ willing \subseteq Side /\ shut \subseteq Side
    /\ deadline \in [Side -> {"none", "ahead", "passed"}]
    /\ stage \in [Side -> {"start", "midway", "done"}]
    /\ handshakeMutex \in {"none", "reader", "writer"}
    /\ dialled \in {"pending", "connected", "failed"}

\* The halves.  One has a message in hand if and only if it is about to write
\* or to deliver it, and they are run once.
HalvesTyped ==
    /\ reader \in [Side -> {"none", "begin", "reading", "delivering", "closed", "crashed"}]
    /\ writer \in [Side -> {"none", "waiting", "writing", "closed", "crashed"}]
    /\ writing \in [Side -> 0..HighestMessage] /\ received \in [Side -> 0..HighestMessage]
    /\ \A s \in Side : /\ writer[s] = "writing" <=> writing[s] # 0
                       /\ reader[s] = "delivering" <=> received[s] # 0
                       /\ reader[s] = "none" <=> writer[s] = "none"
    /\ reader["client"] # "none" => dialled # "pending"

QueuesTyped ==
    /\ MsgInQueue \in [Side -> Seq(0..HighestMessage)]
    /\ \A s \in Side : Len(MsgInQueue[s]) <= outQueueSize
    /\ sent \in [Side -> 0..HighestMessage]

RestTyped ==
    /\ closing \subseteq Side
    /\ accepted \in [Side -> Seq(1..HighestMessage)]
    /\ delivered \in [Side -> Seq(1..HighestMessage)]

CodersTyped ==
    /\ described \in [Side -> SUBSET Type] /\ toDescribe \in [Side -> Seq(Type)]
    /\ encoding \in [Side -> {"fresh", "begun", "failed"}]
    /\ knows \in [Side -> SUBSET Type] /\ inside \subseteq Side
    /\ cut \subseteq Side

Typed == StreamTyped /\ LinkTyped /\ HalvesTyped /\ QueuesTyped /\ CodersTyped /\ RestTyped

LEMMA TypedGivesTypes == Typed => TypeOK
BY DEF Typed, StreamTyped, LinkTyped, HalvesTyped, QueuesTyped, CodersTyped, RestTyped, TypeOK

\* What a step leaves alone keeps its type.
LEMMA TypesStay ==
    /\ StreamTyped /\ UNCHANGED stream => StreamTyped'
    /\ LinkTyped /\ UNCHANGED <<shut, deadline, willing, stage, handshakeMutex, dialled>>
         => LinkTyped'
    /\ HalvesTyped /\ UNCHANGED <<reader, writer, writing, received, dialled>> => HalvesTyped'
    /\ QueuesTyped /\ UNCHANGED <<MsgInQueue, sent>> => QueuesTyped'
    /\ CodersTyped /\ UNCHANGED <<encoder, decoder, cut>> => CodersTyped'
    /\ RestTyped /\ UNCHANGED <<closing, accepted, delivered>> => RestTyped'
BY DEF stream, encoder, decoder, StreamTyped, LinkTyped, HalvesTyped, QueuesTyped, CodersTyped,
       RestTyped

LEMMA StreamSteps ==
    ASSUME StreamTyped, NEW s \in Side
    PROVE  /\ CanRead(s) /\ Consume(s) => StreamTyped'
           /\ ReadTimesOut(s) => StreamTyped'
           /\ \A f \in Frames :
                 /\ WellFormed(f)
                 /\ WriteSucceeds(s, f) \/ WriteFails(s, f)
                 => StreamTyped'
           /\ UNCHANGED stream => StreamTyped'
           /\ ReadFails(s) => StreamTyped'
<1> DEFINE r == Other(s)
<1>0. r \in Side
  BY OtherSide
<1>1. ASSUME CanRead(s), Consume(s) PROVE StreamTyped'
  <2> DEFINE t == Tail(wire[r])
  <2>1. /\ wire[r] \in Seq(Frames) /\ wire[r] # <<>> /\ budget[s] > 0
        /\ wire' = [wire EXCEPT ![r] = t]
        /\ budget' = [budget EXCEPT ![s] = @ - 1] /\ torn' = torn
    BY <1>0, <1>1 DEF CanRead, Consume, Incoming, StreamTyped
  <2>2. t \in Seq(Frames) /\ \A i \in DOMAIN t : i + 1 \in DOMAIN wire[r] /\ t[i] = wire[r][i + 1]
    BY <2>1
  <2> HIDE DEF t, r
  <2>3. wire' \in [Side -> Seq(Frames)]
    BY <1>0, <2>1, <2>2 DEF StreamTyped
  <2>4. budget' \in [Side -> 0..Quota]
    BY <2>1, WireAssumption DEF StreamTyped
  <2>5. \A x \in Side : \A i \in DOMAIN wire'[x] : WellFormed(wire'[x][i])
    BY <1>0, <2>1, <2>2 DEF StreamTyped
  <2> QED BY <2>1, <2>3, <2>4, <2>5 DEF StreamTyped
<1>2. ASSUME ReadTimesOut(s) PROVE StreamTyped'
  <2>1. PICK left \in LeftAfterTimeout(wire[r]) :
           LET dropped == Len(wire[r]) - Len(left)
           IN  /\ wire' = [wire EXCEPT ![r] = left]
               /\ torn' = IF left = wire[r] THEN torn ELSE torn \cup {r}
               /\ budget' = [budget EXCEPT ![s] = IF @ > dropped THEN @ - dropped ELSE 0]
    BY <1>2, Zenon DEF ReadTimesOut, Incoming
  <2>2. wire[r] \in Seq(Frames)
    BY <1>0 DEF StreamTyped
  <2> HIDE DEF r
  <2>3. PICK d \in 0..Len(wire[r]) : LastOf(left, wire[r], d)
    BY <2>2, LeftIsLast
  <2>4. /\ left \in Seq(Frames) /\ Len(left) = Len(wire[r]) - d
        /\ \A i \in 1..Len(left) : SameFrame(left[i], wire[r][d + i])
    BY <2>3 DEF LastOf
  <2>5. wire' \in [Side -> Seq(Frames)] /\ torn' \subseteq Side
    BY <1>0, <2>1, <2>4 DEF StreamTyped
  <2>6. budget' \in [Side -> 0..Quota]
    <3> DEFINE k == Len(wire[r]) - Len(left)
    <3>1. k \in Nat
      BY <2>2, <2>4
    <3>2. budget' = [budget EXCEPT ![s] = IF @ > k THEN @ - k ELSE 0]
      BY <2>1
    <3> HIDE DEF k
    <3> QED BY <3>1, <3>2, WireAssumption DEF StreamTyped
  <2>7. \A i \in DOMAIN left : WellFormed(left[i])
    <3> SUFFICES ASSUME NEW i \in DOMAIN left
                 PROVE  WellFormed(left[i])
      OBVIOUS
    <3>1. i \in 1..Len(left) /\ d + i \in DOMAIN wire[r]
      BY <2>2, <2>4
    <3>2. WellFormed(wire[r][d + i]) /\ SameFrame(left[i], wire[r][d + i])
      BY <1>0, <2>4, <3>1 DEF StreamTyped
    <3> QED BY <3>2 DEF WellFormed, SameFrame, Carries
  <2>8. \A x \in Side : \A i \in DOMAIN wire'[x] : WellFormed(wire'[x][i])
    BY <1>0, <2>1, <2>7 DEF StreamTyped
  <2> QED BY <2>5, <2>6, <2>8 DEF StreamTyped
<1>3. ASSUME NEW f \in Frames, WellFormed(f),
             NEW g \in {f, Torn(f)}, wire' = [wire EXCEPT ![s] = Append(@, g)],
             torn' \subseteq Side, UNCHANGED budget
      PROVE  StreamTyped'
  <2>1. g \in Frames /\ WellFormed(g)
    BY <1>3, FramesBuilt DEF WellFormed, SameFrame, Carries
  <2> DEFINE t == Append(wire[s], g)
  <2>2. wire[s] \in Seq(Frames)
    BY DEF StreamTyped
  <2>3. t \in Seq(Frames) /\ \A i \in DOMAIN t : t[i] = g \/ (i \in DOMAIN wire[s] /\ t[i] = wire[s][i])
    BY <2>1, <2>2
  <2>4. wire' = [wire EXCEPT ![s] = t]
    BY <1>3
  <2> HIDE DEF t
  <2>5. wire' \in [Side -> Seq(Frames)]
    BY <2>3, <2>4 DEF StreamTyped
  <2>6. \A x \in Side : \A i \in DOMAIN wire'[x] : WellFormed(wire'[x][i])
    BY <2>1, <2>3, <2>4 DEF StreamTyped
  <2> QED BY <1>3, <2>5, <2>6 DEF StreamTyped
<1>4. UNCHANGED stream => StreamTyped'
  BY DEF StreamTyped, stream
<1>5. ASSUME NEW f \in Frames, WellFormed(f),
             WriteSucceeds(s, f) \/ WriteFails(s, f)
      PROVE  StreamTyped'
  <2>1. CASE WriteSucceeds(s, f)
    <3>1. wire' = [wire EXCEPT ![s] = Append(@, f)] /\ torn' \subseteq Side /\ UNCHANGED budget
      BY <2>1 DEF WriteSucceeds, StreamTyped
    <3> QED BY <1>3, <1>5, <3>1
  <2>2. CASE WriteFails(s, f)
    <3>1. CASE UNCHANGED stream
      BY <1>4, <3>1
    <3>2. CASE /\ wire' = [wire EXCEPT ![s] = Append(@, Torn(f))]
               /\ torn' = torn \cup {s} /\ UNCHANGED budget
      <4>1. torn' \subseteq Side
        BY <3>2 DEF StreamTyped
      <4> QED BY <1>3, <1>5, <3>2, <4>1
    <3> QED BY <2>2, <3>1, <3>2 DEF WriteFails
  <2> QED BY <1>5, <2>1, <2>2
<1>6. ReadFails(s) => StreamTyped'
  BY <1>4 DEF ReadFails
<1> QED
  BY <1>1, <1>2, <1>4, <1>5, <1>6

LEMMA InitTyped == Init => Typed
<1> SUFFICES ASSUME Init PROVE Typed
  OBVIOUS
<1>1. StreamTyped
  BY WireAssumption DEF Init, ConnInit, StreamTyped
<1>2. LinkTyped
  BY DEF Init, ConnInit, LinkTyped
<1>3. HalvesTyped
  <2>1. 0 \in 0..HighestMessage
    BY HighestIsHighest
  <2>2. /\ reader = [s \in Side |-> "none"] /\ writer = [s \in Side |-> "none"]
        /\ writing = [s \in Side |-> 0] /\ received = [s \in Side |-> 0]
        /\ dialled = "pending"
    BY DEF Init, ConnInit, NoMessage
  <2>3. "client" \in Side
    BY DEF Side
  <2> QED BY <2>1, <2>2, <2>3 DEF HalvesTyped
<1>4. QueuesTyped
  BY HighestIsHighest, QueueAssumption DEF Init, QueuesTyped
<1>5. CodersTyped /\ RestTyped
  BY DEF Init, CodersTyped, RestTyped
<1> QED
  BY <1>1, <1>2, <1>3, <1>4, <1>5 DEF Typed

\* The half takes up or ends something.
LEMMA HalfGoes ==
    ASSUME HalvesTyped, UNCHANGED dialled, NEW s \in Side
    PROVE  /\ \A state \in {"reading", "closed", "crashed"} :
                 /\ reader[s] \notin {"none", "delivering"} /\ ReaderGoes(s, state)
                 /\ UNCHANGED <<writer, writing, received>>
                 => HalvesTyped'
           /\ \A state \in {"reading", "closed", "crashed"} :
                 /\ reader[s] = "delivering" /\ ReaderGoes(s, state)
                 /\ received' = [received EXCEPT ![s] = NoMessage]
                 /\ UNCHANGED <<writer, writing>>
                 => HalvesTyped'
           /\ \A m \in 1..HighestMessage :
                 /\ reader[s] = "reading" /\ ReaderGoes(s, "delivering")
                 /\ received' = [received EXCEPT ![s] = m]
                 /\ UNCHANGED <<writer, writing>>
                 => HalvesTyped'
           /\ \A m \in 1..HighestMessage :
                 /\ writer[s] = "waiting" /\ WriterGoes(s, "writing")
                 /\ writing' = [writing EXCEPT ![s] = m]
                 /\ UNCHANGED <<reader, received>>
                 => HalvesTyped'
           /\ /\ writer[s] = "waiting" /\ WriterGoes(s, "closed")
              /\ UNCHANGED <<reader, received, writing>>
              => HalvesTyped'
           /\ \A state \in {"waiting", "crashed"} :
                 /\ writer[s] = "writing" /\ WriterGoes(s, state) /\ WriterForgets(s)
                 /\ UNCHANGED <<reader, received>>
                 => HalvesTyped'
<1>1. 0 \in 0..HighestMessage /\ \A m \in 1..HighestMessage : m \in 0..HighestMessage /\ m # 0
  BY HighestIsHighest
<1>2. ASSUME NEW state \in {"reading", "closed", "crashed"},
             reader[s] \notin {"none", "delivering"}, ReaderGoes(s, state),
             UNCHANGED <<writer, writing, received>>
      PROVE  HalvesTyped'
  BY <1>2 DEF HalvesTyped, ReaderGoes
<1>3. ASSUME NEW state \in {"reading", "closed", "crashed"},
             reader[s] = "delivering", ReaderGoes(s, state),
             received' = [received EXCEPT ![s] = NoMessage], UNCHANGED <<writer, writing>>
      PROVE  HalvesTyped'
  BY <1>1, <1>3 DEF HalvesTyped, ReaderGoes, NoMessage
<1>4. ASSUME NEW m \in 1..HighestMessage, reader[s] = "reading", ReaderGoes(s, "delivering"),
             received' = [received EXCEPT ![s] = m], UNCHANGED <<writer, writing>>
      PROVE  HalvesTyped'
  BY <1>1, <1>4 DEF HalvesTyped, ReaderGoes
<1>5. ASSUME NEW m \in 1..HighestMessage, writer[s] = "waiting", WriterGoes(s, "writing"),
             writing' = [writing EXCEPT ![s] = m], UNCHANGED <<reader, received>>
      PROVE  HalvesTyped'
  BY <1>1, <1>5 DEF HalvesTyped, WriterGoes
<1>6. ASSUME writer[s] = "waiting", WriterGoes(s, "closed"), UNCHANGED <<reader, received, writing>>
      PROVE  HalvesTyped'
  BY <1>6 DEF HalvesTyped, WriterGoes
<1>7. ASSUME NEW state \in {"waiting", "crashed"}, writer[s] = "writing", WriterGoes(s, state),
             WriterForgets(s), UNCHANGED <<reader, received>>
      PROVE  HalvesTyped'
  BY <1>1, <1>7 DEF HalvesTyped, WriterGoes, WriterForgets, NoMessage
<1> QED
  BY <1>2, <1>3, <1>4, <1>5, <1>6, <1>7

\* The next turn of a reader.
LEMMA NextTurnGoes ==
    ASSUME LinkTyped, NEW s \in Side, NextTurn(s)
    PROVE  /\ \E state \in {"reading", "closed", "crashed"} :
                 ReaderGoes(s, state) /\ (state = "crashed" => ~HasConn(s))
           /\ deadline' \in [Side -> {"none", "ahead", "passed"}]
BY DEF NextTurn, LinkTyped

LEMMA BeginningTyped ==
    ASSUME Typed, Dials \/ DialReturns \/ DialFails \/ ServerStarts \/ ServerRefuses
    PROVE  Typed'
<1>1. StreamTyped'
  <2>1. CASE ClientSendsHandshake
    <3>1. WriteSucceeds("client", HandshakeFrame) /\ "client" \in Side
      BY <2>1 DEF ClientSendsHandshake, Side
    <3> QED BY <3>1, StreamSteps, FramesBuilt DEF Typed, WellFormed, Carries
  <2>2. CASE ClientReadsReply
    BY <2>2, StreamSteps DEF ClientReadsReply, Typed, Side
  <2>3. CASE DialReturns \/ DialFails \/ ServerStarts \/ ServerRefuses
    BY <2>3, TypesStay DEF DialReturns, DialFails, ServerStarts, ServerRefuses, conns, Typed
  <2> QED BY <2>1, <2>2, <2>3 DEF Dials
<1>2. UNCHANGED <<queues, coding, history>>
  BY DEF Dials, DialReturns, DialFails, ServerStarts, ServerRefuses
<1>3. LinkTyped'
  <2>1. CASE Dials
    BY <2>1 DEF Dials, ClientSendsHandshake, ClientReadsReply, Typed, LinkTyped
  <2>2. CASE DialReturns \/ DialFails \/ ServerStarts \/ ServerRefuses
    BY <2>2 DEF DialReturns, DialFails, GivenUp, ServerStarts, ServerRefuses, conns,
                Typed, LinkTyped, Side
  <2> QED BY <2>1, <2>2
<1>4. HalvesTyped'
  <2>1. CASE Dials \/ ServerRefuses
    BY <1>2, <2>1, TypesStay DEF Dials, ServerRefuses, coding, Typed
  <2>2. ASSUME NEW s \in Side, RunGoroutines(s), reader[s] = "none",
               s = "client" => dialled' # "pending",
               s = "server" => UNCHANGED dialled
        PROVE  HalvesTyped'
    <3>1. "client" \in Side /\ "client" # "server" /\ s \in {"client", "server"}
      BY DEF Side
    <3>2. writer[s] = "none" /\ UNCHANGED <<writing, received>>
      BY <1>2, <2>2 DEF Typed, HalvesTyped, coding
    <3> QED
      BY <2>2, <3>1, <3>2 DEF RunGoroutines, ReaderGoes, WriterGoes, Typed, HalvesTyped
  <2>3. CASE DialReturns \/ DialFails
    <3>1. RunGoroutines("client") /\ dialled = "pending" /\ dialled' # "pending"
      BY <2>3 DEF DialReturns, DialFails
    <3>2. reader["client"] = "none" /\ "client" \in Side
      BY <3>1 DEF Typed, HalvesTyped, Side
    <3> QED BY <2>2, <3>1, <3>2
  <2>4. CASE ServerStarts
    <3>1. RunGoroutines("server") /\ UNCHANGED dialled /\ reader["server"] = "none"
          /\ "server" \in Side
      BY <2>4 DEF ServerStarts, conns, Side
    <3> QED BY <2>2, <3>1
  <2> QED BY <2>1, <2>3, <2>4
<1> QED
  BY <1>1, <1>2, <1>3, <1>4, TypesStay DEF Typed, queues, coding, history

LEMMA ReaderTyped ==
    ASSUME Typed, NEW s \in Side,
           \/ ReaderBegins(s) \/ ReaderReads(s) \/ ReaderFails(s) \/ ReaderTimesOut(s)
           \/ ReaderDelivers(s)
    PROVE  Typed'
<1>1. QueuesTyped' /\ UNCHANGED <<shut, willing, stage, handshakeMutex, dialled, writer, writing, encoder>>
  BY TypesStay DEF ReaderBegins, ReaderReads, ReaderFails, ReaderTimesOut, ReaderDelivers,
                   queues, coding, Typed
<1>2. ASSUME \/ UNCHANGED deadline
             \/ NextTurn(s)
      PROVE  LinkTyped'
  BY <1>1, <1>2, NextTurnGoes DEF Typed, LinkTyped
<1>3. CASE ReaderBegins(s)
  <2>1. StreamTyped'
    BY <1>3, TypesStay DEF ReaderBegins, Typed
  <2>2. NextTurn(s) /\ reader[s] = "begin" /\ UNCHANGED <<coding, queues, history>>
    BY <1>3 DEF ReaderBegins
  <2>3. PICK state \in {"reading", "closed", "crashed"} : ReaderGoes(s, state)
    BY <2>2, NextTurnGoes DEF Typed
  <2>4. HalvesTyped'
    BY <1>1, <2>2, <2>3, HalfGoes DEF Typed, coding
  <2>5. CodersTyped' /\ RestTyped'
    BY <2>2, TypesStay DEF coding, queues, history, Typed
  <2> QED BY <1>1, <1>2, <2>1, <2>2, <2>4, <2>5 DEF Typed
<1>4. CASE ReaderReads(s)
  <2> DEFINE f == Head(Incoming(s))
  <2>1. StreamTyped'
    BY <1>4, StreamSteps DEF ReaderReads, Typed
  <2>2. f \in Frames /\ WellFormed(f)
    <3>1. wire[Other(s)] \in Seq(Frames) /\ wire[Other(s)] # <<>>
      BY <1>4, OtherSide DEF ReaderReads, CanRead, Incoming, Typed, StreamTyped
    <3>2. f = wire[Other(s)][1] /\ 1 \in DOMAIN wire[Other(s)]
      BY <3>1 DEF Incoming
    <3>3. f \in Frames
      BY <3>1, <3>2
    <3>4. WellFormed(f)
      BY <3>2, OtherSide DEF Typed, StreamTyped
    <3> QED BY <3>3, <3>4
  <2>3. /\ f.kind \in {"type", "head"} => f.type \in Type
        /\ Carries(f) => f.msg \in 1..HighestMessage
    <3>1. f.msg \in 0..HighestMessage
      BY <2>2 DEF Frames
    <3> QED BY <2>2, <3>1, HighestIsHighest DEF WellFormed, Carries, NoMessage
  <2>4. \/ /\ f.kind \in {"type", "head"} /\ knows' = [knows EXCEPT ![s] = @ \cup {f.type}]
           /\ inside' \in {inside, inside \cup {s}} /\ UNCHANGED <<reader, received>>
        \/ /\ Carries(f) /\ ReaderGoes(s, "delivering")
           /\ received' = [received EXCEPT ![s] = f.msg]
           /\ inside' = inside \ {s} /\ UNCHANGED knows
        \/ ReaderGoes(s, "crashed") /\ UNCHANGED <<received, knows, inside>>
    BY <1>4 DEF ReaderReads, Registers, Begins, Decodable, Carries, decoder
  <2>5. /\ reader[s] = "reading"
        /\ UNCHANGED <<deadline, closing, accepted, delivered, described, toDescribe, encoding, cut>>
    BY <1>4 DEF ReaderReads, queues, history, encoder
  <2> HIDE DEF f
  <2>6. HalvesTyped'
    <3>1. CASE UNCHANGED <<reader, received>>
      BY <1>1, <3>1, TypesStay DEF Typed
    <3>2. CASE /\ Carries(f) /\ ReaderGoes(s, "delivering")
               /\ received' = [received EXCEPT ![s] = f.msg]
      BY <1>1, <2>3, <2>5, <3>2, HalfGoes DEF Typed
    <3>3. CASE ReaderGoes(s, "crashed") /\ UNCHANGED received
      BY <1>1, <2>5, <3>3, HalfGoes DEF Typed
    <3> QED BY <2>4, <3>1, <3>2, <3>3
  <2>7. CodersTyped'
    <3>1. knows' \in [Side -> SUBSET Type] /\ inside' \subseteq Side
      BY <2>3, <2>4 DEF Typed, CodersTyped
    <3> QED BY <2>5, <3>1 DEF Typed, CodersTyped
  <2>8. RestTyped'
    BY <2>5, TypesStay DEF Typed
  <2> QED BY <1>1, <1>2, <2>1, <2>5, <2>6, <2>7, <2>8 DEF Typed
<1>5. CASE ReaderFails(s)
  <2>1. StreamTyped'
    BY <1>5, StreamSteps DEF ReaderFails, Typed
  <2>2. /\ reader[s] = "reading" /\ ReaderGoes(s, "crashed")
        /\ UNCHANGED <<deadline, coding, queues, history>>
    BY <1>5 DEF ReaderFails
  <2>3. HalvesTyped'
    BY <1>1, <2>2, HalfGoes DEF Typed, coding
  <2>4. CodersTyped' /\ RestTyped'
    BY <2>2, TypesStay DEF coding, queues, history, Typed
  <2> QED BY <1>1, <1>2, <2>1, <2>2, <2>3, <2>4 DEF Typed
<1>6. CASE ReaderTimesOut(s)
  <2>1. StreamTyped'
    BY <1>6, StreamSteps DEF ReaderTimesOut, Typed
  <2>2. /\ NextTurn(s) /\ reader[s] = "reading"
        /\ inside' = inside \ {s} /\ cut' \in {cut, cut \cup {Other(s)}}
        /\ UNCHANGED <<received, described, toDescribe, encoding, knows, closing, accepted, delivered>>
    BY <1>6 DEF ReaderTimesOut, encoder, queues, history
  <2>3. PICK state \in {"reading", "closed", "crashed"} : ReaderGoes(s, state)
    BY <2>2, NextTurnGoes DEF Typed
  <2>4. HalvesTyped'
    BY <1>1, <2>2, <2>3, HalfGoes DEF Typed
  <2>5. CodersTyped'
    BY <2>2, OtherSide DEF Typed, CodersTyped
  <2>6. RestTyped'
    BY <2>2, TypesStay DEF Typed
  <2> QED BY <1>1, <1>2, <2>1, <2>2, <2>4, <2>5, <2>6 DEF Typed
<1>7. CASE ReaderDelivers(s)
  <2>1. StreamTyped'
    BY <1>7, TypesStay DEF ReaderDelivers, Typed
  <2>2. /\ NextTurn(s) /\ reader[s] = "delivering"
        /\ delivered' = [delivered EXCEPT ![s] = Append(@, received[s])]
        /\ received' = [received EXCEPT ![s] = NoMessage]
        /\ UNCHANGED <<queues, encoder, decoder, cut, accepted>>
    BY <1>7 DEF ReaderDelivers
  <2>3. received[s] \in 1..HighestMessage
    BY <2>2, HighestIsHighest DEF Typed, HalvesTyped
  <2>4. delivered' \in [Side -> Seq(1..HighestMessage)]
    BY <2>2, <2>3 DEF Typed, RestTyped
  <2>5. PICK state \in {"reading", "closed", "crashed"} : ReaderGoes(s, state)
    BY <2>2, NextTurnGoes DEF Typed
  <2>6. HalvesTyped'
    BY <1>1, <2>2, <2>5, HalfGoes DEF Typed
  <2>7. CodersTyped' /\ RestTyped'
    BY <2>2, <2>4, TypesStay DEF Typed, RestTyped, queues
  <2> QED BY <1>1, <1>2, <2>1, <2>2, <2>6, <2>7 DEF Typed
<1> QED
  BY <1>3, <1>4, <1>5, <1>6, <1>7

\* The types to visit next.
LEMMA VisitTyped ==
    ASSUME CodersTyped, NEW s \in Side
    PROVE  /\ \A T \in Type, others \in Seq(Type) :
                 Remembers(s, T, others) =>
                    /\ described' \in [Side -> SUBSET Type] /\ toDescribe' \in [Side -> Seq(Type)]
           /\ toDescribe[s] # <<>> =>
                 Head(toDescribe[s]) \in Type /\ Tail(toDescribe[s]) \in Seq(Type)
           /\ toDescribe[s] # <<>> /\ Visited(s) => toDescribe' \in [Side -> Seq(Type)]
<1>1. ASSUME NEW T \in Type, NEW others \in Seq(Type), Remembers(s, T, others)
      PROVE  described' \in [Side -> SUBSET Type] /\ toDescribe' \in [Side -> Seq(Type)]
  <2> DEFINE q == Inner[T] \o others
  <2>1. q \in Seq(Type)
    BY TypesAssumption
  <2>2. toDescribe' = [toDescribe EXCEPT ![s] = q]
    BY <1>1 DEF Remembers
  <2> HIDE DEF q
  <2> QED BY <1>1, <2>1, <2>2 DEF Remembers, CodersTyped
<1>2. ASSUME toDescribe[s] # <<>>
      PROVE  Head(toDescribe[s]) \in Type /\ Tail(toDescribe[s]) \in Seq(Type)
  <2>1. toDescribe[s] \in Seq(Type)
    BY DEF CodersTyped
  <2> QED BY <1>2, <2>1
<1>3. ASSUME toDescribe[s] # <<>>, Visited(s) PROVE toDescribe' \in [Side -> Seq(Type)]
  <2> DEFINE q == Tail(toDescribe[s])
  <2>1. q \in Seq(Type) /\ toDescribe' = [toDescribe EXCEPT ![s] = q]
    BY <1>2, <1>3 DEF Visited
  <2> HIDE DEF q
  <2> QED BY <2>1 DEF CodersTyped
<1> QED
  BY <1>1, <1>2, <1>3

LEMMA WriterTyped ==
    ASSUME Typed, NEW s \in Side,
           \/ WriterTakes(s) \/ WriterDescribes(s) \/ WriterDescribesInner(s) \/ WriterWrites(s)
           \/ WriterCrashes(s)
    PROVE  Typed'
<1>1. LinkTyped' /\ UNCHANGED <<dialled, reader, received, closing, knows, inside, delivered>>
  BY TypesStay DEF WriterTakes, WriterDescribes, WriterDescribesInner, WriterWrites, WriterCrashes,
                   queues, conns, history, decoder, Typed
<1>2. CASE WriterTakes(s)
  <2> DEFINE m == Head(MsgInQueue[s])
             q == Tail(MsgInQueue[s])
  <2>1. MsgInQueue[s] \in Seq(0..HighestMessage) /\ MsgInQueue[s] # <<>>
        /\ Len(MsgInQueue[s]) <= outQueueSize
    BY <1>2 DEF WriterTakes, Typed, QueuesTyped
  <2>2. m \in 0..HighestMessage /\ q \in Seq(0..HighestMessage) /\ Len(q) = Len(MsgInQueue[s]) - 1
    <3> DEFINE S == 0..HighestMessage
    <3>1. MsgInQueue[s] \in Seq(S) /\ MsgInQueue[s] # <<>>
      BY <2>1
    <3> HIDE DEF S
    <3>2. m \in S /\ q \in Seq(S) /\ Len(q) = Len(MsgInQueue[s]) - 1
      BY <3>1
    <3> QED BY <3>2 DEF S
  <2>3. Len(MsgInQueue[s]) \in Nat
    BY <2>1
  <2>4. Len(q) <= outQueueSize
    BY <2>1, <2>2, <2>3, QueueAssumption
  <2>5. /\ MsgInQueue' = [MsgInQueue EXCEPT ![s] = q]
        /\ writer[s] = "waiting" /\ UNCHANGED <<stream, sent, encoder, decoder, cut, accepted>>
        /\ \/ WriterGoes(s, "closed") /\ UNCHANGED writing
           \/ m # 0 /\ WriterGoes(s, "writing") /\ writing' = [writing EXCEPT ![s] = m]
    BY <1>2 DEF WriterTakes, Close, conns, history
  <2> HIDE DEF m, q
  <2>6. QueuesTyped'
    BY <2>2, <2>4, <2>5 DEF Typed, QueuesTyped
  <2>7. HalvesTyped'
    <3>1. m # 0 => m \in 1..HighestMessage
      BY <2>2, HighestIsHighest
    <3> QED BY <1>1, <2>5, <3>1, HalfGoes DEF Typed
  <2> QED BY <1>1, <2>5, <2>6, <2>7, TypesStay DEF Typed
<1>3. writer[s] = "writing" => writing[s] \in 1..HighestMessage /\ Payload(s) \in Type
  <2>1. writer[s] = "writing" => writing[s] \in 1..HighestMessage
    BY HighestIsHighest DEF Typed, HalvesTyped
  <2> QED BY <2>1, TypesAssumption DEF Payload
<1>4. CASE WriterDescribes(s)
  <2>1. /\ writer[s] = "writing"
        /\ UNCHANGED <<MsgInQueue, sent, accepted, cut>>
        /\ \E frame \in {Frame("type", NoMessage, InternalMessage),
                         Frame("head", writing[s], Payload(s))} :
              \/ /\ WriteSucceeds(s, frame) /\ Remembers(s, frame.type, <<>>)
                 /\ encoding' = [encoding EXCEPT ![s] = IF frame.kind = "head" THEN "begun" ELSE @]
                 /\ UNCHANGED <<writer, writing>>
              \/ /\ WriteFails(s, frame) /\ WriterGivesUp(s)
                 /\ UNCHANGED <<described, toDescribe, encoding>>
    BY <1>4 DEF WriterDescribes, Encodes, queues, history, encoder
  <2>2. PICK frame \in {Frame("type", NoMessage, InternalMessage),
                        Frame("head", writing[s], Payload(s))} :
              \/ /\ WriteSucceeds(s, frame) /\ Remembers(s, frame.type, <<>>)
                 /\ encoding' = [encoding EXCEPT ![s] = IF frame.kind = "head" THEN "begun" ELSE @]
                 /\ UNCHANGED <<writer, writing>>
              \/ /\ WriteFails(s, frame) /\ WriterGivesUp(s)
                 /\ UNCHANGED <<described, toDescribe, encoding>>
    BY <2>1
  <2>3. frame \in Frames /\ frame.kind \in {"type", "head"} /\ frame.type \in Type
    <3>1. writing[s] \in 0..HighestMessage /\ NoMessage \in 0..HighestMessage
      BY HighestIsHighest DEF Typed, HalvesTyped, NoMessage
    <3> QED BY <1>3, <2>1, <2>2, <3>1, FramesBuilt, TypesAssumption DEF Kinds
  <2>4. StreamTyped'
    BY <2>2, <2>3, StreamSteps DEF Typed, WellFormed, Carries
  <2>5. HalvesTyped'
    BY <1>1, <2>1, <2>2, HalfGoes, TypesStay DEF Typed, WriterGivesUp
  <2>6. CodersTyped'
    <3>1. <<>> \in Seq(Type)
      OBVIOUS
    <3>2. described' \in [Side -> SUBSET Type] /\ toDescribe' \in [Side -> Seq(Type)]
      BY <2>2, <2>3, <3>1, VisitTyped DEF Typed, CodersTyped
    <3>3. encoding' \in [Side -> {"fresh", "begun", "failed"}]
      BY <2>2 DEF Typed, CodersTyped
    <3> QED BY <1>1, <2>1, <3>2, <3>3 DEF Typed, CodersTyped
  <2>7. QueuesTyped' /\ RestTyped'
    BY <1>1, <2>1, TypesStay DEF Typed
  <2> QED BY <1>1, <2>4, <2>5, <2>6, <2>7 DEF Typed
<1>5. CASE WriterDescribesInner(s)
  <2> DEFINE T == Head(toDescribe[s])
             frame == Frame("type", NoMessage, T)
  <2>1. /\ toDescribe[s] # <<>>
        /\ UNCHANGED <<MsgInQueue, sent, accepted, writer, writing>>
        /\ \/ Visited(s) /\ UNCHANGED <<stream, described, encoding, cut>>
           \/ /\ WriteSucceeds(s, frame)
              /\ \/ Remembers(s, T, Tail(toDescribe[s]))
                 \/ Visited(s) /\ UNCHANGED described
              /\ UNCHANGED <<encoding, cut>>
           \/ /\ WriteFails(s, frame) /\ Visited(s) /\ UNCHANGED described
              /\ encoding' = [encoding EXCEPT ![s] = "failed"] /\ cut' = cut \cup {s}
    BY <1>5 DEF WriterDescribesInner, queues, history
  <2>2. T \in Type /\ Tail(toDescribe[s]) \in Seq(Type)
    BY <2>1, VisitTyped DEF Typed
  <2> HIDE DEF T
  <2>3. frame \in Frames /\ WellFormed(frame)
    <3>1. NoMessage \in 0..HighestMessage
      BY HighestIsHighest DEF NoMessage
    <3>2. frame \in Frames /\ frame.kind = "type" /\ frame.type \in Type
      BY <2>2, <3>1, FramesBuilt DEF Kinds
    <3> QED BY <3>2 DEF WellFormed, Carries
  <2> HIDE DEF frame
  <2>4. StreamTyped'
    BY <2>1, <2>3, StreamSteps DEF Typed
  <2>5. CodersTyped'
    <3>1. toDescribe' \in [Side -> Seq(Type)] /\ described' \in [Side -> SUBSET Type]
      BY <2>1, <2>2, VisitTyped DEF Typed, CodersTyped
    <3>2. encoding' \in [Side -> {"fresh", "begun", "failed"}] /\ cut' \subseteq Side
      BY <2>1 DEF Typed, CodersTyped
    <3> QED BY <1>1, <3>1, <3>2 DEF Typed, CodersTyped
  <2>6. HalvesTyped' /\ QueuesTyped' /\ RestTyped'
    BY <1>1, <2>1, TypesStay DEF Typed
  <2> QED BY <1>1, <2>4, <2>5, <2>6 DEF Typed
<1>6. CASE WriterWrites(s)
  <2>1. /\ writer[s] = "writing" /\ WriterGoes(s, "waiting") /\ WriterForgets(s)
        /\ \E frame \in {Frame("rest", writing[s], Payload(s)), Frame("value", writing[s], Payload(s))} :
              WriteSucceeds(s, frame) \/ WriteFails(s, frame) \/ UNCHANGED stream
        /\ accepted' \in {accepted, [accepted EXCEPT ![s] = Append(@, writing[s])]}
        /\ cut' \in {cut, cut \cup {s}} /\ encoding' = [encoding EXCEPT ![s] = "fresh"]
        /\ UNCHANGED <<MsgInQueue, sent, described, toDescribe>>
    <3>1. PICK kind \in {"rest", "value"} :
             LET frame == Frame(kind, writing[s], Payload(s))
             IN  \/ WriteSucceeds(s, frame) /\ accepted' = [accepted EXCEPT ![s] = Append(@, writing[s])]
                    /\ UNCHANGED cut
                 \/ WriteFails(s, frame) /\ cut' \in {cut, cut \cup {s}} /\ UNCHANGED accepted
                 \/ UNCHANGED <<stream, cut, accepted>>
      BY <1>6 DEF WriterWrites
    <3>2. \E frame \in {Frame("rest", writing[s], Payload(s)), Frame("value", writing[s], Payload(s))} :
              WriteSucceeds(s, frame) \/ WriteFails(s, frame) \/ UNCHANGED stream
      BY <3>1
    <3>3. /\ accepted' \in {accepted, [accepted EXCEPT ![s] = Append(@, writing[s])]}
          /\ cut' \in {cut, cut \cup {s}}
      BY <3>1
    <3> QED BY <1>6, <3>2, <3>3 DEF WriterWrites, Encodes, WriterGivesUp, queues
  <2>2. writing[s] \in 1..HighestMessage /\ Payload(s) \in Type
    BY <1>3, <2>1
  <2>3. StreamTyped'
    <3>1. PICK frame \in {Frame("rest", writing[s], Payload(s)), Frame("value", writing[s], Payload(s))} :
             WriteSucceeds(s, frame) \/ WriteFails(s, frame) \/ UNCHANGED stream
      BY <2>1
    <3>2. frame \in Frames /\ frame.msg = writing[s] /\ frame.type \in Type
      BY <2>2, FramesBuilt, HighestIsHighest DEF Kinds
    <3>3. WellFormed(frame)
      BY <2>2, <3>2 DEF WellFormed, NoMessage
    <3> QED BY <3>1, <3>2, <3>3, StreamSteps DEF Typed
  <2>4. accepted' \in [Side -> Seq(1..HighestMessage)]
    <3> DEFINE S == 1..HighestMessage
               t == Append(accepted[s], writing[s])
    <3>1. accepted \in [Side -> Seq(S)] /\ writing[s] \in S
      BY <2>2 DEF Typed, RestTyped
    <3> HIDE DEF S
    <3>2. t \in Seq(S)
      BY <3>1
    <3> HIDE DEF t
    <3>3. accepted' = accepted \/ accepted' = [accepted EXCEPT ![s] = t]
      BY <2>1 DEF t
    <3>4. accepted' \in [Side -> Seq(S)]
      BY <3>1, <3>2, <3>3
    <3> QED BY <3>4 DEF S
  <2>5. HalvesTyped'
    BY <1>1, <2>1, HalfGoes DEF Typed
  <2>6. RestTyped'
    BY <1>1, <2>4 DEF Typed, RestTyped
  <2>7. CodersTyped'
    BY <1>1, <2>1 DEF Typed, CodersTyped
  <2> QED BY <1>1, <2>1, <2>3, <2>5, <2>6, <2>7, TypesStay DEF Typed
<1>7. CASE WriterCrashes(s)
  <2>1. /\ WriterGoes(s, "crashed") /\ WriterForgets(s) /\ writer[s] = "writing"
        /\ UNCHANGED <<stream, MsgInQueue, sent, encoder, decoder, cut, accepted>>
    BY <1>7 DEF WriterCrashes, conns, queues, history
  <2>2. HalvesTyped'
    BY <1>1, <2>1, HalfGoes DEF Typed
  <2> QED BY <1>1, <2>1, <2>2, TypesStay DEF Typed
<1> QED
  BY <1>2, <1>4, <1>5, <1>6, <1>7

LEMMA HandshakeTyped ==
    ASSUME Typed, NEW g \in {"reader", "writer"},
           Handshake(g) \/ HandshakeFails(g) \/ HandshakeTimesOut(g)
    PROVE  Typed'
<1>1. QueuesTyped' /\ CodersTyped' /\ RestTyped' /\ UNCHANGED <<dialled, received>>
  BY TypesStay DEF Handshake, HandshakeFails, HandshakeTimesOut, queues, coding, history, Typed
<1>2. "server" \in Side
  BY DEF Side
<1>3. StreamTyped'
  <2>1. CASE Handshake(g)
    BY <1>2, <2>1, FramesBuilt, StreamSteps
       DEF Handshake, ServerReadsHandshake, ServerReplies, Typed, WellFormed, Carries
  <2>2. CASE HandshakeFails(g)
    BY <1>2, <2>2, StreamSteps DEF HandshakeFails, ServerHandshakeFails, Typed
  <2>3. CASE HandshakeTimesOut(g)
    BY <1>2, <2>3, StreamSteps DEF HandshakeTimesOut, ServerHandshakeTimesOut, Typed
  <2> QED BY <2>1, <2>2, <2>3
<1>4. LinkTyped'
  <2>1. CASE Handshake(g)
    BY <1>1, <2>1 DEF Handshake, ServerTakesMutex, ServerReadsHandshake, ServerReplies, Typed, LinkTyped
  <2>2. CASE HandshakeFails(g)
    BY <1>1, <2>2 DEF HandshakeFails, ServerHandshakeFails, Typed, LinkTyped
  <2>3. CASE HandshakeTimesOut(g)
    <3>1. /\ UNCHANGED <<shut, willing, stage, dialled>> /\ handshakeMutex' = "none"
          /\ UNCHANGED deadline \/ NextTurn("server")
      BY <2>3 DEF HandshakeTimesOut, ServerHandshakeTimesOut
    <3> QED BY <1>2, <3>1, NextTurnGoes DEF Typed, LinkTyped
  <2> QED BY <2>1, <2>2, <2>3
<1>5. HalvesTyped'
  <2>1. CASE Handshake(g)
    BY <1>1, <2>1, TypesStay DEF Handshake, coding, Typed
  <2>2. CASE HandshakeFails(g)
    <3>1. \/ /\ reader["server"] = "reading" /\ ReaderGoes("server", "crashed")
             /\ UNCHANGED <<writer, writing>>
          \/ /\ writer["server"] = "writing" /\ WriterGoes("server", "waiting")
             /\ WriterForgets("server") /\ UNCHANGED reader
      BY <2>2 DEF HandshakeFails, Handshakes, WriterGivesUp
    <3> QED BY <1>1, <1>2, <3>1, HalfGoes DEF Typed
  <2>3. CASE HandshakeTimesOut(g)
    <3>1. \/ /\ reader["server"] = "reading" /\ NextTurn("server")
             /\ UNCHANGED <<writer, writing>>
          \/ /\ writer["server"] = "writing" /\ WriterGoes("server", "waiting")
             /\ WriterForgets("server") /\ UNCHANGED reader
      BY <2>3 DEF HandshakeTimesOut, Handshakes, WriterGivesUp
    <3>2. NextTurn("server") =>
            \E state \in {"reading", "closed", "crashed"} : ReaderGoes("server", state)
      BY <1>2, NextTurnGoes DEF Typed
    <3> QED BY <1>1, <1>2, <3>1, <3>2, HalfGoes DEF Typed
  <2> QED BY <2>1, <2>2, <2>3
<1> QED
  BY <1>1, <1>3, <1>4, <1>5 DEF Typed

LEMMA CentralTyped ==
    ASSUME Typed, NEW s \in Side,
           CentralSends(s) \/ CentralCloses(s) \/ CentralShuts(s) \/ DeadlineStep(s)
    PROVE  Typed'
<1>1. StreamTyped' /\ HalvesTyped' /\ CodersTyped'
  BY TypesStay DEF CentralSends, CentralCloses, CentralShuts, DeadlineStep, DeadlinePasses, conns,
         coding, Typed
<1>2. CASE CentralSends(s)
  <2> DEFINE m == sent[s] + 1
  <2>1. /\ sent[s] \in Nat /\ sent[s] < MaxSends[s] /\ MaxSends[s] \in Nat
        /\ MaxSends[s] <= HighestMessage /\ HighestMessage \in Nat
    BY <1>2, HighestIsHighest DEF CentralSends, Typed, QueuesTyped
  <2>2. m \in 0..HighestMessage
    BY <2>1
  <2>3. /\ Len(MsgInQueue[s]) < outQueueSize
        /\ sent' = [sent EXCEPT ![s] = m]
        /\ MsgInQueue' = [MsgInQueue EXCEPT ![s] = Append(@, m)]
    BY <1>2 DEF CentralSends, HasRoom
  <2> HIDE DEF m
  <2>4. QueuesTyped'
    BY <2>2, <2>3, QueueAssumption DEF Typed, QueuesTyped
  <2>5. LinkTyped' /\ RestTyped'
    BY <1>2, TypesStay DEF CentralSends, conns, coding, history, Typed
  <2> QED BY <1>1, <2>4, <2>5 DEF Typed
<1>3. CASE CentralCloses(s)
  <2>1. /\ Len(MsgInQueue[s]) < outQueueSize /\ UNCHANGED sent
        /\ MsgInQueue' = [MsgInQueue EXCEPT ![s] = Append(@, 0)]
    BY <1>3 DEF CentralCloses, HasRoom, Close
  <2>2. 0 \in 0..HighestMessage
    BY HighestIsHighest
  <2>3. QueuesTyped'
    BY <2>1, <2>2, QueueAssumption DEF Typed, QueuesTyped
  <2>4. LinkTyped' /\ RestTyped'
    BY <1>3, TypesStay DEF CentralCloses, conns, coding, history, Typed, RestTyped
  <2> QED BY <1>1, <2>3, <2>4 DEF Typed
<1>4. CASE CentralShuts(s) \/ DeadlineStep(s)
  <2>1. QueuesTyped' /\ RestTyped'
    BY <1>4, TypesStay DEF CentralShuts, DeadlineStep, queues, coding, history, Typed
  <2>2. LinkTyped'
    BY <1>4 DEF CentralShuts, DeadlineStep, DeadlinePasses, Typed, LinkTyped
  <2> QED BY <1>1, <2>1, <2>2 DEF Typed
<1> QED
  BY <1>2, <1>3, <1>4

LEMMA NextTyped == Typed /\ [Next]_vars => Typed'
<1> SUFFICES ASSUME Typed, [Next]_vars PROVE Typed'
  OBVIOUS
<1>1. CASE UNCHANGED vars
  BY <1>1, TypesStay DEF vars, conns, queues, coding, history, Typed
<1> QED
  BY <1>1, BeginningTyped, ReaderTyped, WriterTyped, HandshakeTyped, CentralTyped
     DEF Next, HandshakeEndsDial, DialTimesOut, Reader, Writer, ReaderPanics

\* The types of the state of P2PEndpoint: among others, MsgInQueue never holds
\* more than it may, and only messages that were sent travel.
THEOREM P2PTypes == Spec => []TypeOK
BY InitTyped, NextTyped, TypedGivesTypes, PTL DEF Spec
=============================================================================
