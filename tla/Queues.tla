------------------------------- MODULE Queues -------------------------------
(***************************************************************************)
(* The bounded channels between the goroutines of a node, for what blocks: *)
(* the Central controller, the Membership controller and the Gossiper,     *)
(* each with its MsgInQueue, and the endpoint of one peer, whose writer    *)
(* takes from a MsgInQueue of its own.  A send to a full channel blocks    *)
(* the goroutine in the middle of its turn.                                *)
(*                                                                         *)
(* Messages are told apart by what handling them may send, and what makes  *)
(* a handler send one or the other is a choice here: the state it depends  *)
(* on is that of the modules Gossiper, MembershipController and            *)
(* CentralController.  Readers, listeners, dials and probes send to the    *)
(* Central controller only and keep nobody waiting when they block, so     *)
(* that their sends are single steps.  A shutdown is left out.             *)
(***************************************************************************)
EXTENDS Naturals, Sequences

CONSTANTS
    inQueueSize,   \* capacity of the Central controller's MsgInQueue, 1024 in the code
    outQueueSize,  \* capacity of every other MsgInQueue, 64 in the code
    Burst          \* bound: messages of a kind that one part of a round sends

Controller == {"membership", "gossiper"}
Process == Controller \cup {"central", "writer"}

VARIABLES
    MsgInQueue,  \* process -> the kinds of message in its channel
    unsent,      \* process -> <<to, kind>> of what its current turn has yet to send
    connected,   \* has the endpoint a conn, or did its dial fail?
    closed,      \* was Close of the endpoint called (closeOnce)?
    writerEnded, \* has the writer left its loop?
    writerState  \* of the endpoint, as the Central controller knows it

vars == <<MsgInQueue, unsent, connected, closed, writerEnded, writerState>>

Init ==
    /\ MsgInQueue = [p \in Process |-> <<>>]
    /\ unsent = [p \in Process |-> <<>>]
    /\ connected \in BOOLEAN
    /\ closed = FALSE /\ writerEnded = FALSE /\ writerState = "RUNNING"

Capacity(p) == IF p = "central" THEN inQueueSize ELSE outQueueSize

IsFull(p) == Len(MsgInQueue[p]) >= Capacity(p)

\* The next of the sends a process has to make before its turn is over.
Sends(p) ==
    /\ unsent[p] # <<>>
    /\ LET to == unsent[p][1][1]
           kind == unsent[p][1][2]
       IN  /\ ~IsFull(to)
           /\ MsgInQueue' = [MsgInQueue EXCEPT ![to] = Append(@, kind)]
    /\ unsent' = [unsent EXCEPT ![p] = Tail(@)]
    /\ UNCHANGED <<connected, closed, writerEnded, writerState>>

Takes(p) ==
    /\ unsent[p] = <<>> /\ MsgInQueue[p] # <<>>
    /\ MsgInQueue' = [MsgInQueue EXCEPT ![p] = Tail(@)]

\* Readers, probes: a message of a peer or a client, a probe result, a crash.
OthersSend ==
    /\ ~IsFull("central")
    /\ \E kind \in {"Incoming", "CentralProbePeerReply", "ReaderEnded"} :
          MsgInQueue' = [MsgInQueue EXCEPT !["central"] = Append(@, kind)]
    /\ UNCHANGED <<unsent, connected, closed, writerEnded, writerState>>
-----------------------------------------------------------------------------
(* The Central controller *)

Nothing == <<>>
To(p, kind) == <<<<p, kind>>>>

\* The peer may be unknown by now; the length of the queue is not looked at.
ToEndpoint == {Nothing} \cup IF writerState = "RUNNING" THEN {To("writer", "ToPeer")} ELSE {}

\* What the handlers pass on.
PassesOn(kind) ==
    CASE kind = "ToPeer" -> ToEndpoint
      [] kind = "RandomPeerListRequest" -> {To("gossiper", "RandomPeerListReply")}
      [] kind = "ProbePeerRequest" -> {Nothing, To("membership", "ProbePeerReply")}
      [] kind = "CentralProbePeerReply" ->
           {To("membership", "ProbePeerReply"),
            To("membership", "ProbePeerReply") \o To("central", "PeerAdd")}
      [] kind = "Incoming" -> {To(p, k) : p \in Controller, k \in {"PullRequest", "Other"}}
      [] kind = "WriterEnded" -> {Nothing, To("membership", "PeerDisconnected")}
      [] OTHER -> {Nothing}

\* endpoint.Close(), whatever writerState is: both halves have stopped only
\* after a Close.
MayClose(kind) ==
    ~closed /\ kind \in {"PeerRemove", "RandomPeerListRelease", "ReaderEnded", "WriterEnded"}

CentralHandles ==
    /\ Takes("central")
    /\ LET kind == Head(MsgInQueue["central"])
       IN  /\ \/ /\ unsent' \in {[unsent EXCEPT !["central"] = s] : s \in PassesOn(kind)}
                 /\ UNCHANGED closed
              \/ /\ MayClose(kind) /\ closed' = TRUE
                 /\ unsent' = [unsent EXCEPT !["central"] = To("writer", "Close")]
           /\ writerState' = IF kind = "WriterEnded" THEN "STOPPED" ELSE writerState
    /\ UNCHANGED <<connected, writerEnded>>
-----------------------------------------------------------------------------
(* The controllers and the writer *)

Times(n, kind) == [i \in 1..n |-> <<"central", kind>>]

\* pushRound, pullRound and updateRound: pushes, releases of the peers of
\* retired items, pull requests, and peer lists for the next round and new items.
GossipRound ==
    {Times(push, "ToPeer") \o Times(retired, "RandomPeerListRelease")
     \o Times(pull, "ToPeer") \o Times(1 + new, "RandomPeerListRequest") :
        push \in 0..Burst, retired \in 0..Burst, pull \in 0..Burst, new \in 0..Burst}

\* pushRound, pullRound, updateRound and probePeerRound.
MembershipRound ==
    {Times(asked, "ToPeer") \o Times(out, "PeerRemove") \o Times(in, "PeerAdd")
     \o Times(probed, "ProbePeerRequest") :
        asked \in 0..Burst, out \in 0..Burst, in \in 0..Burst, probed \in 0..Burst}

Round(p) == IF p = "gossiper" THEN GossipRound ELSE MembershipRound

\* Answers of a handler; "Other" is among others an announcement.
Answers(p, kind) ==
    CASE kind = "PullRequest" -> {Times(1, "ToPeer")}
      [] kind = "RandomPeerListReply" -> {Nothing, Times(1, "RandomPeerListRelease")}
      [] kind \in {"ProbePeerReply", "PeerDisconnected"} -> {Nothing, Times(1, "PeerRemove")}
      [] kind = "Other" ->
           {Nothing} \cup IF p = "gossiper" THEN {Times(1, "RandomPeerListRequest")} ELSE {}

ControllerHandles(p) ==
    /\ Takes(p)
    /\ unsent' \in {[unsent EXCEPT ![p] = s] : s \in Answers(p, Head(MsgInQueue[p]))}
    /\ UNCHANGED <<connected, closed, writerEnded, writerState>>

RoundTicks(p) ==
    /\ unsent[p] = <<>>
    /\ unsent' \in {[unsent EXCEPT ![p] = s] : s \in Round(p)}
    /\ UNCHANGED <<MsgInQueue, connected, closed, writerEnded, writerState>>

\* A write ends after closureCheckTimeout at the latest.  The writer ends at
\* Close, or with a panic at its first message when conn is nil.
WriterHandles ==
    /\ ~writerEnded /\ Takes("writer")
    /\ writerEnded' = (Head(MsgInQueue["writer"]) = "Close" \/ ~connected)
    /\ unsent' = IF writerEnded' THEN [unsent EXCEPT !["writer"] = To("central", "WriterEnded")]
                 ELSE unsent
    /\ UNCHANGED <<connected, closed, writerState>>

Next ==
    \/ OthersSend \/ CentralHandles \/ WriterHandles
    \/ \E p \in Process : Sends(p)
    \/ \E p \in Controller : ControllerHandles(p) \/ RoundTicks(p)

Spec == Init /\ [][Next]_vars
-----------------------------------------------------------------------------
(* Properties *)

BlockedBy(p, q) == unsent[p] # <<>> /\ unsent[p][1][1] = q /\ IsFull(q)

\* docs/midterm-report.md:22: "each task that the controller has to manage, will
\* be done in a non-blocking way, so that new tasks can be received and
\* initiated".  The Central controller does not wait for a queue that nobody
\* will ever empty: its own, that of a controller that waits for it, or that of
\* a writer that has ended.
ByItself == BlockedBy("central", "central")
ByAController == \E p \in Controller : BlockedBy("central", p) /\ BlockedBy(p, "central")
ByAnEndedWriter == BlockedBy("central", "writer") /\ writerEnded

CentralGetsOn == ~(ByItself \/ ByAController \/ ByAnEndedWriter)
=============================================================================
