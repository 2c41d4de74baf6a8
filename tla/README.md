# Verification of the gossip module

TLA+ models, TLC runs and TLAPS proofs for the gossip module of this repository:
a Go program that spreads data items through a peer-to-peer network on behalf of
local API clients. Line numbers refer to files under `src/`; `gossiper.go` is
`src/src/core/gossiper.go`, and so on.

## 1. The system

One process is one node. It runs a handful of goroutines that share no memory by
design and talk through bounded channels (`MsgInQueue`, `MsgOutQueue`). The Central
controller is the hub: every message passes through it.

| Component | State | Operations | Talks to |
|---|---|---|---|
| **Gossiper** (`gossiper.go`) | hot items (`gossipList`), retired items (`oldGossipList`), items waiting for the round (`incomingGossips`), peers to be answered, API clients with their validation IDs | a round every 2 s (push, pull, update, old items), handlers for announcements, validations, registrations, pushes, pull requests and replies, peer lists | Central controller |
| **Median counter** (`gossip_item.go`) | state B, C or D and a counter per item | comparison, update from what a peer reports | called by the Gossiper |
| **Central controller** (`controller.go`) | outgoing peers (`viewList`, `awaitingRemovalViewList`, `activelyCreatedPeers`, `activelyProbedPeers`), incoming peers, API clients, the submodules that are alive, `totalGoroutines`, `isStopping` | additions and removals of peers, probes, loans of peers to the Gossiper, birth and death of endpoints, shutdown | everything |
| **Membership controller** (`membership_controller.go`) | the view it wants, the samplers, pushes and pull replies since the last round, peers that were asked | a BRAHMS round every 6 s, handlers for pushes, pull requests and replies, lost peers, probe results | Central controller |
| **P2P listener and endpoints** (`peer.go`) | a reader and a writer goroutine per connection | accept, read, write, close, crash | Central controller, network |
| **API listener and endpoints** (`api.go`) | the same per API client | the same | Central controller, local clients |
| **Indexed map and set** (`indexedmap.go`, `indexedset.go`) | a hash table with indexes and a list of keys | put, remove, access by index | used by all controllers |
| **Secure communication** (`securecomm/`) | a TCP connection, its handshake mutex and `handShakeCompleted`, the master key, a limited and buffered reader | dial with a time limit, handshake on either side, framing, encryption, deadlines | used by the P2P endpoints |
| Mark list, set, deep copy, ECB, parsers, main | | | helpers |

What makes it hard:

* **Orders that nobody wrote a test for.** Additions, removals, probes, dials that
  finish and endpoints that die concern the same peer and reach the Central
  controller in any order, while four maps must keep that peer in one place. An item
  reaches the Gossiper by announcement, push and pull reply while it is hot, retired
  or still waiting.
* **Addresses as names.** A message of an endpoint names it by its address, which a
  new connection may have taken over by the time the message is read.
* **Loans.** The Gossiper keeps peers after the Membership controller has dropped
  them; a counter decides when a connection may go.
* **Shutdown** races with everything above, and the process may only end when the
  last goroutine has.
* **Deadlines as a way to look for a closure.** A reader sets a new deadline of
  500 ms on every turn so that it notices when it is to end. The deadline belongs to
  the connection: it also cuts off handshakes and frames that are half read, and
  whatever the writer of the same endpoint is writing.
* **A stream is not a sequence of messages.** Gob describes a type once and relies on
  it ever after; the API reads whatever TCP has for it; both read through a limit.
* **Bounded channels in a hub.** Every handler sends on channels that may be full.
* **Pointers to loop variables.** `go.mod` asks for Go 1.14, where a `for range`
  variable is one variable for the whole loop. The Gossiper keeps and sends `&item`
  of such loops in eight places.

What makes each component correct is listed with its module below.

## 2. The modules

    Maps                     Go maps as functions
    MedianCounter            the state of an item
    Gossiper                 EXTENDS MedianCounter          + GossiperProofs
    CentralController        with endpoints, listeners, dials, and the other
                             goroutines as far as they touch connections
                                                            + CentralProofs,
                                                              CentralGoroutineProofs
    MembershipController     implements ViewOrders          + MembershipProofs
    IndexedMap               implements AbstractMap         + IndexedMapProofs
    SecureConn               a TCP connection, handshakes, frames, deadlines
    P2PEndpoint              EXTENDS SecureConn: the endpoints at its two ends
                                                            + P2PProofs,
                                                              P2PDeliveryProofs
    APIEndpoint              a client, its endpoint, both controllers' part in it
                                                            + APIProofs
    Queues                   the bounded channels of a node, for what blocks
    MC*                      constants for TLC

**Granularity.** Each controller is one goroutine that takes a message, handles it and
takes the next; its state is touched by nobody else. So one handler is one action, in
the order of assignments that matters to the outcome. What happens at the same time is
what other goroutines do between two messages, and those are actions of their own.
Where a handler hands out a *pointer* that it goes on changing, the model lets the
reader see any of the values it may find.

### Gossiper, MedianCounter

Each handler of `gossiper.go` is an action under its own name (`AnnounceHandler`,
`IncomingPushHandler`, ...). A round is four methods called in a row; `phase` says
which comes next, and no message is handled in between. A pull reply is a loop over
its items, one item per step. Maps are functions from items; iteration order is a
choice (`Orders`), and where the code keeps `&item` the model keeps the item that the
variable holds at the end of the loop, or, for another goroutine that reads it
meanwhile, any item from there on. `ttl` and `counter` are bytes (`Byte`),
notification IDs wrap at `IDSpace`. An item's data type and an identity are all that is
left of its contents; the contents decide nothing else in this component.

Correct means: an item is in one list at most (`ListsDisjoint`), moves forward only
(`StatesOnlyAdvance`), meets the threshold of the median-counter algorithm exactly
with no vote left over (`MedianRuleKept`), is never dropped
without being remembered (`RetiredIsRemembered`), the cache keeps its size
(`CacheBounded`), and the node falls silent in the end (`GossipDiesOut`).

### CentralController

The module has one action per message type that changes connections or goroutines
(`PeerAddHandler`, `PeerRemoveHandler`, `OutgoingP2PCreatedHandler`, ...), taken from one
FIFO queue `inbox`, and one per step of each other goroutine: dials and probes end
(`DialEnds`, `ProbeEnds`), halves of an endpoint close or crash, listeners accept,
submodules close or crash, the User interrupts, the closure timer fires, the Gossiper
borrows, returns or loses peers, and the Membership controller chooses a view, probes, or
drops a lost peer. Handlers that only pass a message on change nothing here and are left
out. An endpoint is the address that names it plus the set of its running halves.

Correct means: a peer is in one of the four maps (`OnePlace`); the records say "running"
exactly for the goroutines that run or whose last message is under way
(`RecordsMatchGoroutines`), which is what makes naming endpoints by address safe; the
only counter that `Run` looks at is right (`GoroutinesCounted`, `DoneMeansAllEnded`); a
peer on loan is not forgotten (`LoansAccounted`), a peer is forgotten only under the rule
of controller.go:90-98 (`ForgottenByTheRule`) and not kept beyond it (`NoneOverdue`,
`RemovalDrains`); a shutdown ends (`ShutdownEnds`).

### MembershipController, ViewOrders

A round is one action made of `PullRound`, `UpdateRound` and `UpdateSampleRound`, in the
code's order: pulls go to the view *before* it changes and are answered into the *next*
round. Samplers are identities with a permutation (a ranking of the peers, standing for
AES over a hash of the address) and the peer they hold. Random draws are choices of a
subset of the right size. Incoming pushes and pull replies come from any peer at any
time: nothing outside is trusted to follow the protocol. Two history variables, `shown`
and `repliers`, record what the properties are about.

Correct means: a sampler is filed under the peer it holds (`SamplersFiled`), the
remaining capacity is the number of free samplers (`CapacityAccounted`), a sampler holds
the lowest-ranked of *all* peers it was shown in its life (`SamplesAreLowest`), not more
than `betaSize` peers feed a round by pull replies (`AnswersBounded`), and the stream of
orders describes a view: additions of peers that are not in it, removals of peers that
are, never more than the cap (`ImplementsViewOrders`). The abstract module `ViewOrders`
is the other side's assumption: it is what the actions `ReplaceViewList` and
`PeerDisconnectedHandler` of `CentralController` let the Membership controller do.

### SecureConn, P2PEndpoint

`SecureConn` is the connection: for each direction the frames under way (`wire`), for
each side its deadline, its `stage` in the handshake, what its `LimitReader` still lets
through (`budget`), whether it closed (`shut`). A frame is what gob writes at once: a
handshake, or one sealed write of the gob stream of an endpoint. The functions of
`securecomm.go`, `secureconn.go` and the two handshake files are operators on it
(`WriteSucceeds`, `ReadTimesOut`, `ServerReadsHandshake`, ...). What a deadline leaves
behind is a choice: nothing was read, a frame was read in part, or, in the rest of such
a frame, any number of following ones were taken for its contents.

`P2PEndpoint` has two of the endpoints of `peer.go` at the two ends. The loops of
`readerRoutine` and `writerRoutine` are actions, one per call that may block; the
server's handshake runs inside whichever of its goroutines reads or writes first, under
the mutex (`Handshake`, `HandshakeFails`, `HandshakeTimesOut`); the client's runs in the
goroutine of `dial` and races the timer of `connectionTimeout` (`DialReturns`,
`DialTimesOut`). The Central controller sends, closes, and shuts the connection when both
halves have ended; it may also refuse the connection. History variables hold what
`Encode` reported as written and what was delivered.

One `Encode` (285) is several writes, each of which may meet the deadline of the
connection or its end, and what gob remembers in between is state (`described`,
`toDescribe`, `encoding`). The type `InternalMessage` goes first (`WriterDescribes`), once
per stream; then, for a payload of a new type, the head of the message with the name and
the descriptor of that type; then the types inside it, one write each
(`WriterDescribesInner`); then the rest of the message (`WriterWrites`). A payload whose
type is described is written in one go. Gob remembers a type as soon as it is written,
*before* the types inside it are; after an error it goes on with the others, remembers none
of them, and fails in the end. The reader keeps a set of types (`knows`) and whether it is
behind the head of a message (`inside`). It panics on a descriptor of a type that it
knows, on a rest without a head, and on a value that reaches a type it does not know
(`Compiles`). So a message that is cut off behind its head can leave the stream
undecodable for good without a frame being torn; `cut` records that this happened.

Correct means: what was written arrives in order and once, whatever timeouts happen, as
long as no frame was torn (`AcceptedIsDelivered`); no message passes unless both sides
trust each other (`DeliveryNeedsTrust`); and a reader panics for one of a few known
reasons (`CrashHasACause`: no connection, the other side gone, a torn frame, a message
of a new type cut off behind its head, no trust, the limit reached, a message of more
than 4096 bytes). That the list is complete is the point: a write that fails *before*
the head, or of a message whose types are described, costs this message only, however
the timeouts of the two sides fall; the same types are neither missing later nor sent
twice. Once anything ends, both ends close with all goroutines (`OneEndEndsBoth`). The
last has an exception that the code needs: the first deadline is set by the reader, and
a reader that is told to close before its first turn leaves a writer without one. If
both sides do this while the TCP buffers are full, both writers block for good
(`Unguarded`).

### APIEndpoint

The path of an API request and of its answers, through five actors: a client that
connects, sends, leaves and connects again from the same address; the reader and the
writer of `api.go`; the handlers of the Central controller that keep `apiClients`
(`APIEndpointCreatedHandler`, `APIEndpointClosed`) or pass messages on
(`IncomingAPIHandler`, `GossipNotificationHandler`), or drop them once `closeHandler` has
run; the handlers of the Gossiper that
keep `apiClientsToNotify` and the validation map. The queues in between are FIFO. In the
code everything is named by the address; the model numbers connections to tell an old one
from its successor, in history only. Messages arrive as TCP pleases: `Chunks` are the
pieces that one `Read` may return, and what is not one whole message is dropped, as the
code does.

`notifyClients` (gossiper.go:211) keeps the pointer that it is given, in the notification
and in the validation map, and `updateRound` (242) gives it `&item`, the one variable of its
loop. So a notification carries a *pointer*, `held` says what it points to now, and each
turn of the loop that follows, with a new item (`NewItem`) or a copy of a known one
(`KnownItem`), moves it (`Visits`) until `RoundEnds`. The endpoint reads through the
pointer when it writes the notification, while the loop may still be running, and
`validationHandler` when the answer comes. An announced item has a pointer of its own.

Correct means: once the Gossiper is up to date the address is registered exactly if the
connection served now has asked for it (`RegistrationFollowsConnection`): the late end
of an old connection does not undo the registration of the new one, and a late
registration does not survive its connection. An item is rejected for a client only if
its connection was shown this item under that ID, *or another item of the same round*,
since the pointer may have moved on before or after it was read (`RejectsWhatWasShown`).
This is weaker than what the comment at gossiper.go:427-429 claims, and as much as the
code keeps: items of different rounds are never mixed up, with two exceptions that
section 5 explains. A client that left, or that is served when the node stops, is
forgotten for good (`GoneIsForgotten`).

### Queues

Every channel with its capacity, every goroutine that a full one can stop in the middle
of a turn: the Central controller, the Membership controller, the Gossiper, the writer of
one endpoint. A turn takes a message and leaves a list of sends (`unsent`), each of which
waits for room. Contents are left out: *which* of the sends of a handler happen is a
choice. So this module over-approximates what the controllers do; each of the three
disjuncts of `CentralGetsOn` was traced back to calls in the code (section 5).

### IndexedMap, AbstractMap

`Put` and `Remove` with the swap of the last key into the hole, and the draws that rounds
make (`mrand.Perm(size)[:n]`, then access by index). `IndexesInverse` says that table and
list are inverse to each other; `ImplementsMap` that the structure is a plain map for its
callers and a draw of `n` indexes a draw of `n` different keys. This is what lets the
other modules use plain sets and maps. The indexed set is the same code without the
value, the instance with one `Value`.

## 3. The runs

| Run | Instance | What it shows |
|---|---|---|
| `gossiper` | 2 items, 1 peer, cache 2, bMax 3, cMax 2, bytes of 4 values | the item life cycle, in every order of arrivals and rounds; gossip dies out |
| `gossiper_clients` | 2 items, 1 client, cache 1, 2 IDs | the same with an API client that accepts, rejects, leaves; the cache is full all the time |
| `central_peer` | 1 peer, 3 views, 1 probe, 2 loans, shutdown, fair | all bookkeeping about one outgoing peer; removals and the shutdown come to an end |
| `central_served` | 2 inbound addresses, 1 client, 2 arrivals, shutdown, a crashing submodule | incoming and API endpoints, including reconnection from the same address; `Run` returns last |
| `indexed_map` | 4 keys, 2 values, draws of 2 | structure and refinement |
| `membership` | 4 peers, 2 samplers, one peer of the view from each source, 2 opposite permutations | samplers, pulls and refinement |
| `p2p_endpoint` | 2 messages of the client, of a type with two inner ones, the second too large; 1 of the server; TCP buffers of 1 frame, a limit of 6, queues of 1, deadlines that tear one frame | everything between dial and closure of a connection |
| `api_endpoint` | 2 connections, 3 messages, 2 items (in one round or in two), 2 IDs | registration, notification and validation across a reconnection, with a shutdown at any moment |
| `gossiper_panic` | as `gossiper` | *violated*: two items due in one round crash the node |
| `central_views` | 1 peer | *violated*: the two views differ for good |
| `central_stop` | 1 client, shutdown | *violated*: a shutdown with an API client connected panics |
| `queues` | a queue of 3, others of 1, rounds that send at most one of a kind | *violated*: the Central controller waits for ever |

**Bounds.** Each is a named constant. `MaxRequests` holds back a new round of the
Gossiper while peer lists are outstanding; `MaxReply`, `MaxPushes` bound message sizes;
`MaxViews`, `MaxProbes`, `MaxArrivals`, `MaxLoans` bound how often the environment acts,
and `Crashing`, `Interrupts` say whether a fault or a shutdown happens. They are large
enough for the cases that the properties are about: two items in one loop show every
effect of aliasing; three views, a probe and two loans let a peer be added, removed,
taken back and dialled again while an older dial, probe and loan are still out; two
arrivals at one address are a reconnection; bytes of four values wrap; four peers exceed
a view of three by one, so that an off-by-one in the flood limit shows; two samplers
under one peer separate counting samplers from counting peers. In `p2p_endpoint` two
messages are the least for an order and for a message that follows a failed one. They
are of one type, whose two inner types are the same: the first message has a head and a
rest, the second is written in one go if the first was, and the second inner type is
sent again exactly if the first write of it failed. `WireCap` 1 lets each frame fill the
buffers, so that writers block between any two writes of `Encode`; `Quota` 6 is exactly
the handshake, the three descriptors and what is left of the client's two messages, so
that the limit is met at the end of the longest conversation; `Oversized` is the
client's second message. `OneTear` lets deadlines tear one frame only, of whichever
side: what follows a torn frame in its direction is excepted from the properties, so that the
run gives up only conversations torn in both directions. The proofs assume none of this. In `api_endpoint`
three messages are a registration and two validations or a registration on each
connection; `IDSpace` 2 lets IDs wrap; `Buffered` 3 and `Quota` 5 cut a message in the
middle. In `queues` small capacities stand for 1024 and 64: what matters is that full is
reached, and rounds that send several messages reach it in the code too. Peers do not
interact in the Central controller other than through the queue, so one peer with many
orders shows more than two with few.

**Deadlock** is not checked in these runs except `indexed_map`: `Run` returns, the
process exits, controllers close, both ends of a connection end, a client leaves for good,
or the environment has used up its bounds. In `queues` the question is asked by the
invariant, since tickers always find something to do.

**Fairness.** `FairSpec` of the Gossiper: the ticker fires again and again, a loop that
was started goes on, and the Central controller answers every peer list request
(`randomPeerListRequestHandler` always replies). `FairSpec` of the Central controller:
goroutines are scheduled; a dial and a probe end because they have a time limit; a half
that was told to close notices because its reads have a deadline; a submodule that was
told to close does so; the Gossiper returns the peers of a retired item, and what it
loses instead is excluded by `RemovalDrains` itself. Nothing is assumed of the remote
side, of the User, of the closure timer, or of crashes. `Fairness` of `P2PEndpoint`:
goroutines are scheduled, deadlines and the timer of the dial pass, the server's listener
hands the connection over or it is refused, and a Central controller closes an endpoint
one half of which crashed, and closes the connection of one that has ended; strong
fairness of the reader's reads says that what has arrived is not missed for ever because
of the deadline of 500 ms, which is set anew just before each read. No message needs to
be sent, and no healthy endpoint needs to be closed.
`Fairness` of `APIEndpoint`: the two controllers and the goroutines of an endpoint are
scheduled; nothing is assumed of the client. `GossipDiesOut` is about the
time after the last arrival, and a round that crashes ends it.

## 4. What is proved

Every safety invariant, action property and refinement that a passing run checks is a
theorem for all values of the constants that satisfy the modules' named assumptions: any
number of items, peers, clients, connections, messages and submodules, any capacities, and
any value of the bounds (`MaxViews`, `MaxSends`, ...). No proof uses that a bound is small.

| Theorem | Statement | By |
|---|---|---|
| **Gossiper** | | `GossiperProofs` |
| `TypeCorrect` | `Spec => []TypeOK` | inductive; one lemma per handler |
| `HotOrOld` | `Spec => []ListsDisjoint` | with `TypeOK`: every way into `gossipList` asks both lists first or moves from `incomingGossips` what is in neither |
| `RetiredRemembered` | `Spec => RetiredIsRemembered` | by cases over the actions, from the two above |
| `CacheStaysBounded` | `Spec => []CacheBounded` | with `ReplyFits`: a pull reply is handled over many steps, but the room it may use was measured at its first |
| `MedianRuleStays` | `bMax > 1` gives `Spec => []MedianRuleKept` | `HotAdvance`: what each kind of step may do to a hot item |
| `ItemsOnlyAdvance` | `bMax > 1` gives `Spec => StatesOnlyAdvance` | `HotAdvance`, and its counterpart for items that wait |
| **IndexedMap** | | `IndexedMapProofs` |
| `IndexesInRange` | `Spec => []TypeOK` | from the next |
| `TableAndListAgree` | `Spec => [](TypeOK /\ IndexesInverse)` | inductive; `Remove` splits into the key that fills the hole and all others |
| `MapImplemented` | `Spec => ImplementsMap` | the refinement maps `m` to its values; a draw needs that the list is as long as the map is large and that different indexes lead to different keys |
| **MembershipController** | | `MembershipProofs` |
| `MembershipTypes` | `Spec => []TypeOK` | from `MembershipInv` |
| `SamplersStayFiled`, `CapacityStaysAccounted` | `Spec => []SamplersFiled`, `Spec => []CapacityAccounted` | from `SamplerInv` |
| `SamplesStayLowest` | `Spec => []SamplesAreLowest` | from `MembershipInv` |
| `AnswersStayBounded` | `Spec => []AnswersBounded` | from `MembershipInv` |
| `OrdersImplemented` | `Spec => ImplementsViewOrders` | every step is a step of `ViewOrders` or a stutter, by `OrdersOK` |
| **CentralController** | | `CentralProofs`, `CentralGoroutineProofs` |
| `PeersInOnePlace`, `NoPeerOverdue`, `LoansStayAccounted` | `Spec => []OnePlace`, `Spec => []NoneOverdue`, `Spec => []LoansAccounted` | `Places`, their conjunction, is inductive over `Typed` |
| `RecordsStayTrue`, `GoroutinesStayCounted`, `RunReturnsLast` | `Spec => []RecordsMatchGoroutines`, `Spec => []GoroutinesCounted`, `Spec => []DoneMeansAllEnded` | from `Records` |
| `CentralTypes` | `Spec => []TypeOK` | from `Typed` and `Records` |
| `PeersForgottenByTheRule` | `Spec => ForgottenByTheRule` | by cases over the actions, from `CentralInv` |
| **P2PEndpoint** | | `P2PProofs`, `P2PDeliveryProofs` |
| `P2PTypes` | `Spec => []TypeOK` | `Typed` is inductive |
| `DeliveryIsTrusted` | `Spec => []DeliveryNeedsTrust` | from `Trusting` |
| `CrashesHaveACause` | `Spec => []CrashHasACause` | every step that crashes a reader has a cause (`CrashBegins`), and no step takes it away (`CauseStays`), from `Passing` |
| `DeliveredInOrder` | `Spec => []AcceptedIsDelivered` | every step does one of a few things to a direction (`DirectionStep`), from `Passing` |
| **APIEndpoint** | | `APIProofs` |
| `APITypes` | `Spec => []TypeOK` | `Typed` is inductive |
| `RegistrationStaysRight` | `Spec => []RegistrationFollowsConnection` | from `PathInv` |
| `RejectionsWereShown` | `Spec => RejectsWhatWasShown` | from `PathInv`, `Asking`, `Noted` and `Visited` |

**The inductive invariants**, and why the properties alone are not inductive:

* *Gossiper.* `ReplyFits` says how many items the reply under way may still add; without
  it a pull reply that was admitted with room in the cache could overrun it in its later
  steps. Proving the median rule needs `bMax > 1`: with `bMax` of 1, which a degree of 9
  or 10 gives, an item is beyond the range from its start, and the statement is false
  (section 5).
* *Membership controller.* `MembershipInv` is `SamplerInv` (types, filing, capacity),
  `SamplesAreLowest`, `AnswersBounded` and `ViewBounded`. Filing and capacity need each
  other: a round replaces the peer of a sampler by moving it between two entries, and only
  filing says that the entry it leaves held it. `ViewBounded` is needed because `ViewOrders`
  promises the cap, which `TypeOK` does not.
* *Central controller.* The counter of goroutines, the records and the queue are right
  only together. `Records` says that what the records have as running is exactly what runs
  or what the queue says has ended; that no end is in the queue twice (`OnceIn`); that the
  two are disjoint; and the same for submodules. From it follows that a message that names
  an endpoint by its address concerns the endpoint recorded there: an address is not taken
  over while an end of its old endpoint is under way.
* *P2P endpoints.* `Trusting` ties the stages of the handshakes on the two sides to each
  other and to the frames under way (`Stages`, `Ordered`). `Describing` says of an
  encoder that cut off no message that the types inside those it has sent are sent or
  still to visit. Neither property can be read off the frames under way alone, since
  each frame makes sense only after the ones before it. `Leads` says that there are
  states, one between any two frames, such that each frame leads from one to the next:
  from what the decoder of the reader is in now to what the encoder is in now, by the
  rule of what a decoder makes of a frame (`Sense`), unless a frame was torn or a
  message cut off. This is `Sensible`, from which each frame that is read makes sense to
  its reader. The same chain with the number of messages in place of the states
  (`Counted`) is the delivery property (`AllOnTheWay`). Two lemmas, on a frame appended
  and one taken off (`AppendLeads`, `TailLeads`), serve both.
* *API endpoints.* `Served`: all requests and ends in the queue of the Central controller
  belong to the connection in `apiClients`, each end is announced once, and a request
  precedes the end of the reader that sent it. `Arrivals`: connections that are announced
  are later than all that anyone has heard of. `Ordered`: read from what the Gossiper has
  registered, along its queue, to `apiClients`, connections follow each other, and between
  two of them stands the `Unnotify` of the first. `Follows` is the property for the queue as
  it is, also during a shutdown. For validations, `Asking` says that a validation names an
  ID that its connection was shown, and `Noted` that what a connection was told is what
  the validation map holds, or that the connection is past: neither registered nor able to
  validate any more. `Visited` says that a pointer, now and when it was read for the client,
  points to an item that it visited.

Those of the API were first checked by TLC, also with three connections and with a single
ID.

**Assumptions.** All are named in the modules and evaluated by TLC in the runs: finite
sets of items, peers, samplers and endpoints, since the code keeps them in memory; different
permutations ranks for different peers; addresses of outgoing, incoming and API endpoints
are distinct; a byte has at most 256 values (`ByteSize`, fewer in the runs) and thresholds
fit in it; queues and buffers hold at least one element. Only `MedianRuleStays` and
`ItemsOnlyAdvance` assume more: `bMax > 1`.

**Only model-checked**: all liveness (`GossipDiesOut`, `RemovalDrains`, `ShutdownEnds`,
`OneEndEndsBoth`, `GoneIsForgotten`), since fairness and `ENABLED` are out of the prover's
reach; and the four violated properties, which are false. `Queues` has no theorem: its one
property is among these.

## 5. What the code does otherwise than it says

Four disagreements have a run of their own (section 3); PROJECT.json quotes the comment
each contradicts. The models reach more, described here without a run of their own; where a
comment promises the contrary, it is named:

* **Loop variables** (gossiper.go 147, 161, 172, 216, 242, 251, 296, 518). Besides the
  panic: the wrong item is retired and keeps being pushed, an old item is forgotten
  early, one of two new items never gets peers (251: both requests carry the same
  pointer), a client that answers a validation ID rejects another item than the one it
  was shown (216; see below), the endpoint may send another item than the one chosen
  (147), and all entries of a pull reply are the same item (518).
* **Rejecting the wrong item** (gossiper.go:216-221, 242). The comment at 427-429 has a
  validation concern the item "the client ... was sent"; with several items in one round it
  concerns the last one that the loop visited. `RejectsWhatWasShown` therefore allows any
  item of that round; if it asks for the item shown, TLC finds the rejection of another in
  the run `api_endpoint`.
* **Types lost between two writes** (peer.go:285). `Encode` describes a type before the ones
  inside it, each in a write of its own. When a deadline, set by the *reader* of the same
  endpoint (215), passes in between, the writer logs an error and goes on (286-289), but the
  stream is beyond repair: an inner type is missing for good or comes twice, and the reader
  on the other side panics at the next message of that type. `CrashHasACause` lists this
  as `cut`; without it, TLC finds the crash in the run `p2p_endpoint`.
* **Timed out writes** (securecomm.go:351-353). The comment on `SetDeadline` says that after
  a write has timed out "all future writes will return the same error". It was taken over
  from `crypto/tls`; here the next write goes out, behind a torn frame.
* **Duplicate notifications** (353): clients are notified of an announced item before it
  is looked up.
* **bMax of 1** (459): for a degree of 9 or 10 a receiver refuses every item in state B.
* **Peer lists that are never released** (191-199, 328, 433): their peers stay connected
  after their removal.
* **Peers taken back while they die** (controller.go 302-306): an addition returns a peer
  from the removal list to the view although it may be closing or dead; and a peer closed
  gracefully while in the view (1000) stays there until it is removed.
* **Overwritten probe** (396): a second probe forgets that an addition waits for the
  first.
* **Failed probe** (401): the goroutine closes the connection before it looks at the
  error; on a nil connection this panics and ends the process.
* **Push requests** (controller.go:416) arrive as a pointer (membership_controller.go:387)
  where the handler expects a value, so none is ever sent.
* **No way back** (membership_controller.go:543): bootstrapping happens once; a node whose
  view runs empty only comes back if others push to it.
* **Full queues** (run `queues`). The Central controller can wait for ever in three ways:
  for its own queue, which its handlers send to (controller.go:1196, 1228); for the queue
  of a controller that in the middle of a round waits for the Central controller's (550);
  for the queue of an endpoint whose writer has ended, until the message that says so is
  read, which only the Central controller does (peer.go:316, and every forwarded message).
* **Stale notifications** (608). A notification under way when its client reconnects from
  the same address is delivered to the new connection, whose IDs start from 0: answering
  it concerns whatever item has that ID now. `RejectsWhatWasShown` excepts connections
  that were shown one (`strayed`); without the exception TLC finds the wrong rejection.
* **Reused notification IDs** (gossiper.go:221). An ID is two bytes, and the next one is
  given away whether or not its last use was answered. Once there have been more items
  than IDs, a late validation may concern a newer item; the second exception of
  `RejectsWhatWasShown` (`items > IDSpace`), without which TLC finds that rejection as
  soon as `MaxItems` exceeds `IDSpace`.
* **Joined API messages** (api.go:215): one `Read` is taken for one message, so messages
  that arrive together or in parts are dropped without an answer.
* **Frames over 4096 bytes** (securecomm.go:301): `Read` returns the length of the frame
  although the caller's buffer may be smaller, and the reader of the endpoint panics.
* **A connection has a limited life** (securecomm.go:60, api.go:176): the `LimitReader` is
  never renewed, and a connection crashes after as many bytes.
* **Unread handshake errors** (handshake_server.go:103): a server that could not write its
  answer takes the handshake for complete. The client gives up, and the server finds out
  when it next reads.
* **Writers without a deadline** (peer.go:215): see `OneEndEndsBoth` in section 2.

## 6. What is not modelled

* Secure communication: keys and ciphers (a client sends one handshake per connection, so
  that there is one key), and the proof of work, which together with the list of trusted
  identities is the choice `willing`; a remote side that does not follow the protocol.
* P2P endpoints: the contents of messages, which `allowedMSGs` and the parsing of
  payloads look at. Of gob, the types only as far as they decide what is written and what
  can be decoded; the descriptors of the handshake's own encoder travel with the handshake,
  without which a connection is given up.
* API endpoints: the chance that the rest of a message looks like a header with its own
  size; items that no client has registered for; reading an item's fields one after the
  other while the loop moves on; and what the Gossiper does once a shutdown has begun,
  since the Central controller then ignores it. More items than IDs are in the proof only:
  the run has as many of both.
* Queues: a shutdown; more than one endpoint; which of the choices depend on which state.
* Membership controller: the probability of a push (`pushProbability`), which only makes a
  possible step likelier, and proof of work and expiry of push requests. This, and push
  requests never being sent (section 5), is why the component counts as partly modelled.
* Message types: only as kinds. Addresses that do not resolve.
* Parsers, ECB, `main`, utilities: functions of their input without state. The mark list
  and deep copy, which no package imports; the Go map wrapper `set`.

## 7. Plan

Done: all components of section 2, and the proofs of every safety property that holds.
Next:

1. **Composition** of Central and Membership controller: `CentralController` lets the
   Membership controller order what `ViewOrders` allows. Show that its actions
   `ReplaceViewList` and `PeerDisconnectedHandler` are steps of `ViewOrders`, so that the
   theorems of both sides speak of one system.
2. **Abstract specifications** of a connection (a channel that delivers in order, or
   breaks) and of an API registration, with the refinements that follow from
   `DeliveredInOrder` and `RegistrationStaysRight`.
3. **Two Gossipers** through a network that loses messages.
