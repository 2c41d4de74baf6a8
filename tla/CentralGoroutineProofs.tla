---------------------- MODULE CentralGoroutineProofs ----------------------
(***************************************************************************)
(* Theorems about the goroutines that CentralController counts and waits   *)
(* for: the endpoint halves, the submodules, and the messages by which     *)
(* they say that they have ended.                                          *)
(***************************************************************************)
EXTENDS CentralProofs

-----------------------------------------------------------------------------
(* The queue *)

\* The halves and the submodules that a queue says have ended.
PendingIn(q) ==
    {eh \in Endpoint \X Half :
        \E i \in DOMAIN q : /\ q[i].type = "EndpointClosed"
                            /\ q[i].endp = eh[1] /\ q[i].half = eh[2]}
LeavingIn(q) ==
    {s \in Submodule : \E i \in DOMAIN q : q[i].type = "SubmoduleClosed" /\ q[i].which = s}

\* No end is announced twice.
OnceIn(q) ==
    \A i, j \in DOMAIN q :
        /\ /\ q[i].type = "EndpointClosed" /\ q[j].type = "EndpointClosed"
           /\ q[i].endp = q[j].endp /\ q[i].half = q[j].half
           => i = j
        /\ /\ q[i].type = "SubmoduleClosed" /\ q[j].type = "SubmoduleClosed"
           /\ q[i].which = q[j].which
           => i = j

\* A message is neither.
Other(m) == m.type \notin {"EndpointClosed", "SubmoduleClosed"}

\* The end of an endpoint half or of a submodule that a message announces.
EndOf(m) == IF m.type = "EndpointClosed" THEN {<<m.endp, m.half>>} ELSE {}
LeaveOf(m) == IF m.type = "SubmoduleClosed" THEN {m.which} ELSE {}

LEMMA AfterDequeue ==
    ASSUME NEW q \in Seq(Message), q # <<>>, OnceIn(q)
    PROVE  /\ OnceIn(Tail(q)) /\ Tail(q) \in Seq(Message)
           /\ PendingIn(Tail(q)) = PendingIn(q) \ EndOf(Head(q))
           /\ LeavingIn(Tail(q)) = LeavingIn(q) \ LeaveOf(Head(q))
           /\ EndOf(Head(q)) \subseteq PendingIn(q)
           /\ LeaveOf(Head(q)) \subseteq LeavingIn(q)
<1> DEFINE t == Tail(q)
<1>1. /\ Head(q) = q[1] /\ 1 \in DOMAIN q /\ t \in Seq(Message)
      /\ \A i \in DOMAIN t : i + 1 \in DOMAIN q /\ t[i] = q[i + 1]
      /\ \A i \in DOMAIN q : i = 1 \/ (i - 1 \in DOMAIN t /\ q[i] = t[i - 1])
      /\ \A i \in DOMAIN q : i \in Nat \ {0}
      /\ \A i \in DOMAIN t : i \in Nat \ {0}
  OBVIOUS
<1>2. \A i \in DOMAIN q : q[i] \in Message
  OBVIOUS
<1> HIDE DEF t
<1>3. OnceIn(t)
  <2> SUFFICES ASSUME NEW i \in DOMAIN t, NEW j \in DOMAIN t
               PROVE  /\ /\ t[i].type = "EndpointClosed" /\ t[j].type = "EndpointClosed"
                         /\ t[i].endp = t[j].endp /\ t[i].half = t[j].half
                         => i = j
                      /\ /\ t[i].type = "SubmoduleClosed" /\ t[j].type = "SubmoduleClosed"
                         /\ t[i].which = t[j].which
                         => i = j
    BY DEF OnceIn
  <2> DEFINE a == i + 1
             b == j + 1
  <2>1. a \in DOMAIN q /\ b \in DOMAIN q /\ t[i] = q[a] /\ t[j] = q[b] /\ (a = b => i = j)
    BY <1>1
  <2> HIDE DEF a, b
  <2> QED BY <2>1 DEF OnceIn
<1>4. ASSUME NEW e \in Endpoint, NEW h \in Half
      PROVE  <<e, h>> \in PendingIn(t) <=> <<e, h>> \in PendingIn(q) /\ <<e, h>> \notin EndOf(Head(q))
  <2> DEFINE Says(m) == m.type = "EndpointClosed" /\ m.endp = e /\ m.half = h
  <2>1. <<e, h>> \in PendingIn(t) <=> \E i \in DOMAIN t : Says(t[i])
    BY DEF PendingIn
  <2>2. <<e, h>> \in PendingIn(q) <=> \E i \in DOMAIN q : Says(q[i])
    BY DEF PendingIn
  <2>3. <<e, h>> \in EndOf(Head(q)) <=> Says(q[1])
    BY <1>1 DEF EndOf
  <2>4. \A i, j \in DOMAIN q : Says(q[i]) /\ Says(q[j]) => i = j
    BY DEF OnceIn
  <2> HIDE DEF Says
  <2>5. \A i \in DOMAIN t : i + 1 # 1
    BY <1>1
  <2> QED BY <1>1, <2>1, <2>2, <2>3, <2>4, <2>5
<1>5. ASSUME NEW s \in Submodule
      PROVE  s \in LeavingIn(t) <=> s \in LeavingIn(q) /\ s \notin LeaveOf(Head(q))
  <2> DEFINE Says(m) == m.type = "SubmoduleClosed" /\ m.which = s
  <2>1. s \in LeavingIn(t) <=> \E i \in DOMAIN t : Says(t[i])
    BY DEF LeavingIn
  <2>2. s \in LeavingIn(q) <=> \E i \in DOMAIN q : Says(q[i])
    BY DEF LeavingIn
  <2>3. s \in LeaveOf(Head(q)) <=> Says(q[1])
    BY <1>1 DEF LeaveOf
  <2>4. \A i, j \in DOMAIN q : Says(q[i]) /\ Says(q[j]) => i = j
    BY DEF OnceIn
  <2> HIDE DEF Says
  <2>5. \A i \in DOMAIN t : i + 1 # 1
    BY <1>1
  <2> QED BY <1>1, <2>1, <2>2, <2>3, <2>4, <2>5
<1>6. EndOf(Head(q)) \subseteq PendingIn(q)
  <2>1. Head(q).type = "EndpointClosed" => Head(q).endp \in Endpoint /\ Head(q).half \in Half
    BY <1>1, <1>2, MessageFields
  <2>2. CASE Head(q).type = "EndpointClosed"
    <3> DEFINE e == Head(q).endp
               h == Head(q).half
    <3>1. EndOf(Head(q)) = {<<e, h>>}
      BY <2>2 DEF EndOf
    <3>2. <<e, h>> \in PendingIn(q)
      BY <1>1, <2>1, <2>2 DEF PendingIn
    <3> QED BY <3>1, <3>2
  <2> QED BY <2>2 DEF EndOf
<1>7. LeaveOf(Head(q)) \subseteq LeavingIn(q)
  <2>1. Head(q).type = "SubmoduleClosed" => Head(q).which \in Submodule
    BY <1>1, <1>2, MessageFields
  <2> QED BY <1>1, <2>1 DEF LeavingIn, LeaveOf
<1>8. PendingIn(t) = PendingIn(q) \ EndOf(Head(q))
  <2>1. PendingIn(t) \subseteq Endpoint \X Half /\ PendingIn(q) \subseteq Endpoint \X Half
    BY DEF PendingIn
  <2> QED BY <1>4, <2>1
<1>9. LeavingIn(t) = LeavingIn(q) \ LeaveOf(Head(q))
  <2>1. LeavingIn(t) \subseteq Submodule /\ LeavingIn(q) \subseteq Submodule
    BY DEF LeavingIn
  <2> QED BY <1>5, <2>1
<1> QED
  BY <1>1, <1>3, <1>6, <1>7, <1>8, <1>9 DEF t

LEMMA AfterSend ==
    ASSUME NEW q \in Seq(Message), NEW m \in Message, OnceIn(q),
           EndOf(m) \cap PendingIn(q) = {}, LeaveOf(m) \cap LeavingIn(q) = {}
    PROVE  /\ OnceIn(Append(q, m))
           /\ PendingIn(Append(q, m)) = PendingIn(q) \cup EndOf(m)
           /\ LeavingIn(Append(q, m)) = LeavingIn(q) \cup LeaveOf(m)
<1> DEFINE t == Append(q, m)
           n == Len(q) + 1
<1>1. /\ n \in DOMAIN t /\ t[n] = m /\ n \notin DOMAIN q
      /\ \A i \in DOMAIN t : i = n \/ (i \in DOMAIN q /\ t[i] = q[i])
      /\ \A i \in DOMAIN q : i \in DOMAIN t /\ t[i] = q[i]
  OBVIOUS
<1>2. /\ m.type = "EndpointClosed" => m.endp \in Endpoint /\ m.half \in Half
      /\ m.type = "SubmoduleClosed" => m.which \in Submodule
  BY MessageFields
<1> HIDE DEF t, n
<1>3. ASSUME NEW i \in DOMAIN q PROVE
        /\ ~(/\ q[i].type = "EndpointClosed" /\ m.type = "EndpointClosed"
             /\ q[i].endp = m.endp /\ q[i].half = m.half)
        /\ ~(/\ q[i].type = "SubmoduleClosed" /\ m.type = "SubmoduleClosed"
             /\ q[i].which = m.which)
  <2>1. CASE m.type = "EndpointClosed"
    <3>1. <<m.endp, m.half>> \notin PendingIn(q)
      BY <2>1 DEF EndOf
    <3> QED BY <1>2, <2>1, <3>1 DEF PendingIn
  <2>2. CASE m.type = "SubmoduleClosed"
    BY <1>2, <2>2 DEF LeavingIn, LeaveOf
  <2> QED BY <2>1, <2>2
<1>4. OnceIn(t)
  BY <1>1, <1>3 DEF OnceIn
<1>5. ASSUME NEW e \in Endpoint, NEW h \in Half
      PROVE  <<e, h>> \in PendingIn(t) <=> <<e, h>> \in PendingIn(q) \/ <<e, h>> \in EndOf(m)
  <2> DEFINE Says(x) == x.type = "EndpointClosed" /\ x.endp = e /\ x.half = h
  <2>1. <<e, h>> \in PendingIn(t) <=> \E i \in DOMAIN t : Says(t[i])
    BY DEF PendingIn
  <2>2. <<e, h>> \in PendingIn(q) <=> \E i \in DOMAIN q : Says(q[i])
    BY DEF PendingIn
  <2>3. <<e, h>> \in EndOf(m) <=> Says(m)
    BY DEF EndOf
  <2> HIDE DEF Says
  <2> QED BY <1>1, <2>1, <2>2, <2>3
<1>6. ASSUME NEW s \in Submodule
      PROVE  s \in LeavingIn(t) <=> s \in LeavingIn(q) \/ s \in LeaveOf(m)
  <2> DEFINE Says(x) == x.type = "SubmoduleClosed" /\ x.which = s
  <2>1. s \in LeavingIn(t) <=> \E i \in DOMAIN t : Says(t[i])
    BY DEF LeavingIn
  <2>2. s \in LeavingIn(q) <=> \E i \in DOMAIN q : Says(q[i])
    BY DEF LeavingIn
  <2>3. s \in LeaveOf(m) <=> Says(m)
    BY DEF LeaveOf
  <2> HIDE DEF Says
  <2> QED BY <1>1, <2>1, <2>2, <2>3
<1>7. PendingIn(t) = PendingIn(q) \cup EndOf(m)
  <2>1. /\ PendingIn(t) \subseteq Endpoint \X Half /\ PendingIn(q) \subseteq Endpoint \X Half
        /\ EndOf(m) \subseteq Endpoint \X Half
    BY <1>2 DEF PendingIn, EndOf
  <2> QED BY <1>5, <2>1
<1>8. LeavingIn(t) = LeavingIn(q) \cup LeaveOf(m)
  <2>1. /\ LeavingIn(t) \subseteq Submodule /\ LeavingIn(q) \subseteq Submodule
        /\ LeaveOf(m) \subseteq Submodule
    BY <1>2 DEF LeavingIn, LeaveOf
  <2> QED BY <1>6, <2>1
<1> QED
  BY <1>4, <1>7, <1>8 DEF t

LEMMA AfterOrders ==
    ASSUME NEW q \in Seq(Message), NEW f \in Seq(Message), OnceIn(q),
           \A i \in DOMAIN f : Other(f[i])
    PROVE  /\ OnceIn(q \o f) /\ q \o f \in Seq(Message)
           /\ PendingIn(q \o f) = PendingIn(q) /\ LeavingIn(q \o f) = LeavingIn(q)
<1> DEFINE t == q \o f
<1>1. /\ \A i \in DOMAIN t : (i \in DOMAIN q /\ t[i] = q[i]) \/ Other(t[i])
      /\ \A i \in DOMAIN q : i \in DOMAIN t /\ t[i] = q[i]
      /\ t \in Seq(Message)
  <2>1. /\ \A i \in 1..(Len(q) + Len(f)) : t[i] = IF i <= Len(q) THEN q[i] ELSE f[i - Len(q)]
        /\ DOMAIN t = 1..(Len(q) + Len(f)) /\ DOMAIN q = 1..Len(q) /\ DOMAIN f = 1..Len(f)
        /\ Len(q) \in Nat /\ Len(f) \in Nat /\ t \in Seq(Message)
    OBVIOUS
  <2> HIDE DEF t
  <2>2. ASSUME NEW i \in DOMAIN t, i \notin DOMAIN q PROVE Other(t[i])
    <3>1. t[i] = f[i - Len(q)] /\ i - Len(q) \in DOMAIN f
      BY <2>1, <2>2
    <3> QED BY <3>1
  <2> QED BY <2>1, <2>2
<1> HIDE DEF t
<1>2. OnceIn(t)
  BY <1>1 DEF OnceIn, Other
<1>3. PendingIn(t) = PendingIn(q) /\ LeavingIn(t) = LeavingIn(q)
  BY <1>1 DEF PendingIn, LeavingIn, Other
<1> QED
  BY <1>1, <1>2, <1>3 DEF t

-----------------------------------------------------------------------------
(* Records and goroutines *)

\* The invariant behind RecordsMatchGoroutines, GoroutinesCounted and
\* DoneMeansAllEnded.  What the tables say runs is what runs, or what the queue
\* says has ended; and the same for the submodules, so that nothing is counted
\* off twice or before it has ended.
Records ==
    /\ OnceIn(inbox)
    /\ running \cap PendingIn(inbox) = {}
    /\ Recorded = running \cup PendingIn(inbox)
    /\ LeavingIn(inbox) \subseteq submodules
    /\ \A s \in Submodule : active[s] # "ended" => s \in submodules \ LeavingIn(inbox)
    /\ GoroutinesCounted
    /\ status = "done" => totalGoroutines <= 0

LEMMA FiniteEndpoints ==
    /\ IsFiniteSet(Endpoint \X Half)
    /\ \A S \in SUBSET (Endpoint \X Half) : IsFiniteSet(S) /\ Cardinality(S) \in Nat
    /\ \A S \in SUBSET Submodule : IsFiniteSet(S) /\ Cardinality(S) \in Nat
<1>1. IsFiniteSet(Endpoint)
  BY EndpointAssumption, FS_Union DEF Endpoint
<1>2. IsFiniteSet(Half)
  <2>1. IsFiniteSet({"reader"} \cup {"writer"})
    BY FS_Singleton, FS_Union
  <2>2. Half = {"reader"} \cup {"writer"}
    BY DEF Half
  <2> QED BY <2>1, <2>2
<1>3. IsFiniteSet(Endpoint \X Half)
  BY <1>1, <1>2, FS_Product
<1>4. IsFiniteSet(Submodule)
  <2>1. IsFiniteSet({"membership", "gossiper", "p2pListener", "apiListener"})
    <3>1. IsFiniteSet({"membership"} \cup {"gossiper"} \cup {"p2pListener"} \cup {"apiListener"})
      BY FS_Singleton, FS_Union
    <3> QED BY <3>1
  <2> QED BY <2>1, FS_Subset, SubmoduleAssumption
<1> QED
  BY <1>3, <1>4, FS_Subset, FS_CardinalityType

LEMMA PairsEqual ==
    ASSUME NEW S, NEW T, S \subseteq Endpoint \X Half, T \subseteq Endpoint \X Half,
           \A e \in Endpoint, h \in Half : <<e, h>> \in S <=> <<e, h>> \in T
    PROVE  S = T
OBVIOUS

LEMMA HalvesAt ==
    ASSUME NEW table, NEW e, NEW h \in Half
    PROVE  <<e, h>> \in Halves(table) <=> e \in DOMAIN table /\ ~HasStopped(table[e], h)
BY DEF Halves

LEMMA HalvesType ==
    ASSUME NEW table, NEW K \in SUBSET Endpoint, IsMap(table, K, Info)
    PROVE  Halves(table) \subseteq K \X Half
BY DEF Halves, IsMap

LEMMA KindsInEndpoint ==
    /\ Peer \subseteq Endpoint /\ Inbound \subseteq Endpoint /\ Client \subseteq Endpoint
BY DEF Endpoint

LEMMA RecordedType == Typed => Recorded \subseteq Endpoint \X Half
<1> SUFFICES ASSUME Typed PROVE Recorded \subseteq Endpoint \X Half
  OBVIOUS
<1>1. /\ IsMap(viewList, Peer, Info) /\ IsMap(awaitingRemovalViewList, Peer, Info)
      /\ IsMap(incomingViewList, Inbound, Info) /\ IsMap(apiClients, Client, Info)
  BY DEF Typed
<1>2. /\ Halves(viewList) \subseteq Peer \X Half
      /\ Halves(awaitingRemovalViewList) \subseteq Peer \X Half
      /\ Halves(incomingViewList) \subseteq Inbound \X Half
      /\ Halves(apiClients) \subseteq Client \X Half
  BY <1>1, HalvesType, KindsInEndpoint
<1> QED
  BY <1>2, KindsInEndpoint DEF Recorded

LEMMA RecordedTypeNext == Typed' => Recorded' \subseteq Endpoint \X Half
<1> SUFFICES ASSUME Typed' PROVE Recorded' \subseteq Endpoint \X Half
  OBVIOUS
<1>1. /\ IsMap(viewList', Peer, Info) /\ IsMap(awaitingRemovalViewList', Peer, Info)
      /\ IsMap(incomingViewList', Inbound, Info) /\ IsMap(apiClients', Client, Info)
  BY DEF Typed
<1>2. /\ Halves(viewList') \subseteq Peer \X Half
      /\ Halves(awaitingRemovalViewList') \subseteq Peer \X Half
      /\ Halves(incomingViewList') \subseteq Inbound \X Half
      /\ Halves(apiClients') \subseteq Client \X Half
  BY <1>1, HalvesType, KindsInEndpoint
<1> QED
  BY <1>2, KindsInEndpoint DEF Recorded

\* The halves of a table with an entry replaced or removed.
LEMMA HalvesWith ==
    ASSUME NEW table, NEW k, NEW v, NEW e, NEW h \in Half
    PROVE  <<e, h>> \in Halves(With(table, k, v))
              <=> IF e = k THEN ~HasStopped(v, h) ELSE <<e, h>> \in Halves(table)
BY HalvesAt DEF With

LEMMA HalvesWithout ==
    ASSUME NEW table, NEW k, NEW e, NEW h \in Half
    PROVE  <<e, h>> \in Halves(Without(table, k)) <=> e # k /\ <<e, h>> \in Halves(table)
BY HalvesAt DEF Without

\* What stops a half, and what does not.
LEMMA WhoHasStopped ==
    /\ \A h \in Half : ~HasStopped(Fresh, h)
    /\ \A info, n : \A h \in Half : HasStopped(Used(info, n), h) <=> HasStopped(info, h)
    /\ \A info, err : \A half, h \in Half :
          HasStopped(Stopped(info, half, err), h) <=> h = half \/ HasStopped(info, h)
    /\ \A info : \A h \in Half : HaveBothStopped(info) => HasStopped(info, h)
BY DEF HasStopped, Fresh, Used, Stopped, HaveBothStopped, Half

LEMMA InitRecords == Init => Records
<1> SUFFICES ASSUME Init PROVE Records
  OBVIOUS
<1>1. PendingIn(inbox) = {} /\ LeavingIn(inbox) = {} /\ OnceIn(inbox)
  BY DEF Init, PendingIn, LeavingIn, OnceIn
<1>2. Recorded = {}
  BY DEF Init, Recorded, Halves, EmptyMap
<1>3. GoroutinesCounted
  <2>1. Cardinality(Submodule) \in Nat
    BY FiniteEndpoints
  <2> QED BY <1>2, <2>1, FS_EmptySet DEF Init, GoroutinesCounted
<1> QED
  BY <1>1, <1>2, <1>3 DEF Init, Records

(* The kinds of steps *)

\* The queue announces what it announced before.
QueueQuiet ==
    /\ OnceIn(inbox') /\ PendingIn(inbox') = PendingIn(inbox)
    /\ LeavingIn(inbox') = LeavingIn(inbox)

LEMMA ReceiveOther ==
    ASSUME Typed, Records, NEW type, type \notin {"EndpointClosed", "SubmoduleClosed"},
           Receive(type)
    PROVE  /\ Dequeue => QueueQuiet
           /\ \A m \in Message : Other(m) /\ DequeueAndSend(m) => QueueQuiet
<1> DEFINE t == Tail(inbox)
<1>1. inbox \in Seq(Message) /\ inbox # <<>> /\ Head(inbox).type = type
  BY DEF Typed, Receive
<1>2. EndOf(Head(inbox)) = {} /\ LeaveOf(Head(inbox)) = {}
  BY <1>1 DEF EndOf, LeaveOf
<1>3. /\ OnceIn(t) /\ t \in Seq(Message)
      /\ PendingIn(t) = PendingIn(inbox) /\ LeavingIn(t) = LeavingIn(inbox)
  BY <1>1, <1>2, AfterDequeue DEF Records
<1> HIDE DEF t
<1>4. ASSUME NEW m \in Message, Other(m), inbox' = Append(t, m) PROVE QueueQuiet
  <2>1. EndOf(m) = {} /\ LeaveOf(m) = {}
    BY <1>4 DEF EndOf, LeaveOf, Other
  <2> QED BY <1>3, <1>4, <2>1, AfterSend DEF QueueQuiet
<1> QED
  BY <1>3, <1>4 DEF Dequeue, DequeueAndSend, QueueQuiet, t

LEMMA SendOther ==
    ASSUME Typed, Records, NEW m \in Message, Other(m), Send(m)
    PROVE  QueueQuiet
<1>1. EndOf(m) = {} /\ LeaveOf(m) = {}
  BY DEF EndOf, LeaveOf, Other
<1>2. inbox \in Seq(Message) /\ OnceIn(inbox)
  BY DEF Typed, Records
<1> QED
  BY <1>1, <1>2, AfterSend DEF Send, QueueQuiet

LEMMA QueueStays == Records /\ UNCHANGED inbox => QueueQuiet
BY DEF Records, QueueQuiet

\* Nothing starts or ends.
LEMMA QuietStep ==
    ASSUME Records, Recorded' = Recorded, running' = running, QueueQuiet, submodules' = submodules,
           \A s \in Submodule : active'[s] # "ended" => active[s] # "ended",
           totalGoroutines' = totalGoroutines, status' = "done" => status = "done"
    PROVE  Records'
BY DEF Records, GoroutinesCounted, QueueQuiet

\* Both goroutines of an endpoint start.
LEMMA StartStep ==
    ASSUME Typed, Typed', Records, status = "running", NEW e \in Endpoint,
           Recorded' = Recorded \cup ({e} \X Half), Recorded \cap ({e} \X Half) = {},
           running' = running \cup ({e} \X Half), QueueQuiet,
           UNCHANGED <<submodules, active, status>>,
           totalGoroutines' = totalGoroutines + TwoHalves
    PROVE  Records'
<1>1. Cardinality(Recorded') = Cardinality(Recorded) + 2
  <2> DEFINE r == <<e, "reader">>
             w == <<e, "writer">>
             R == Recorded \cup {r}
  <2>1. Recorded' = R \cup {w} /\ r \notin Recorded /\ w \notin R
    BY DEF Half
  <2>2. IsFiniteSet(Recorded) /\ Cardinality(Recorded) \in Nat
    BY RecordedType, FiniteEndpoints
  <2> HIDE DEF r, w
  <2>3. IsFiniteSet(R) /\ Cardinality(R) = Cardinality(Recorded) + 1
    BY <2>1, <2>2, FS_AddElement
  <2> HIDE DEF R
  <2>4. Cardinality(Recorded') = Cardinality(R) + 1
    BY <2>1, <2>3, FS_AddElement
  <2> QED BY <2>2, <2>3, <2>4
<1>2. Cardinality(Recorded) \in Nat /\ Cardinality(submodules) \in Nat
  BY RecordedType, FiniteEndpoints DEF Typed
<1>3. GoroutinesCounted'
  BY <1>1, <1>2 DEF Records, GoroutinesCounted, TwoHalves
<1>4. running' \cap PendingIn(inbox') = {}
  BY DEF Records, QueueQuiet
<1> QED
  BY <1>3, <1>4 DEF Records, QueueQuiet

\* A goroutine of an endpoint ends and says so.
LEMMA EndsStep ==
    ASSUME Records, NEW eh \in running, running' = running \ {eh},
           OnceIn(inbox'), PendingIn(inbox') = PendingIn(inbox) \cup {eh},
           LeavingIn(inbox') = LeavingIn(inbox),
           UNCHANGED <<Recorded, submodules, active, status, totalGoroutines>>
    PROVE  Records'
<1>1. GoroutinesCounted'
  BY DEF Records, GoroutinesCounted
<1> QED
  BY <1>1 DEF Records

\* The Central controller accounts for the end of a goroutine.
LEMMA ClosedStep ==
    ASSUME Typed, Typed', Records, NEW eh, eh \in PendingIn(inbox),
           OnceIn(inbox'), PendingIn(inbox') = PendingIn(inbox) \ {eh},
           LeavingIn(inbox') = LeavingIn(inbox),
           Recorded' = Recorded \ {eh}, UNCHANGED <<running, submodules, active>>,
           totalGoroutines' = totalGoroutines - 1, status = "running",
           status' = "done" => totalGoroutines' <= 0
    PROVE  Records'
<1>1. Cardinality(Recorded') = Cardinality(Recorded) - 1
  <2>1. eh \in Recorded /\ IsFiniteSet(Recorded)
    BY RecordedType, FiniteEndpoints DEF Records
  <2> QED BY <2>1, FS_RemoveElement
<1>2. Cardinality(Recorded) \in Nat /\ Cardinality(submodules) \in Nat
  BY RecordedType, FiniteEndpoints DEF Typed
<1>3. GoroutinesCounted'
  BY <1>1, <1>2 DEF Records, GoroutinesCounted
<1> QED
  BY <1>3 DEF Records

(* The handlers *)

LEMMA PeerAddRecords == Typed /\ Typed' /\ Places /\ Records /\ PeerAddHandler => Records'
<1> SUFFICES ASSUME Typed, Typed', Places, Records, PeerAddHandler PROVE Records'
  OBVIOUS
<1> DEFINE p == Msg.peer
<1>1. QueueQuiet
  BY ReceiveOther DEF PeerAddHandler
<1>2. \/ UNCHANGED lists
      \/ /\ p \in DOMAIN awaitingRemovalViewList \ DOMAIN viewList
         /\ viewList' = With(viewList, p, awaitingRemovalViewList[p])
         /\ awaitingRemovalViewList' = Without(awaitingRemovalViewList, p)
  BY DEF PeerAddHandler
<1> HIDE DEF p
<1>3. UNCHANGED served /\ UNCHANGED <<running, submodules, active, totalGoroutines, status>>
  BY DEF PeerAddHandler, endpoints
<1>4. Recorded' = Recorded
  <2>1. CASE UNCHANGED lists
    BY <1>3, <2>1 DEF Recorded, lists, served
  <2>2. CASE /\ p \in DOMAIN awaitingRemovalViewList \ DOMAIN viewList
             /\ viewList' = With(viewList, p, awaitingRemovalViewList[p])
             /\ awaitingRemovalViewList' = Without(awaitingRemovalViewList, p)
    <3>1. ASSUME NEW e \in Endpoint, NEW h \in Half
          PROVE  <<e, h>> \in Halves(viewList') \/ <<e, h>> \in Halves(awaitingRemovalViewList')
                   <=> <<e, h>> \in Halves(viewList) \/ <<e, h>> \in Halves(awaitingRemovalViewList)
      BY <2>2, HalvesAt, HalvesWith, HalvesWithout
    <3>2. Halves(incomingViewList') = Halves(incomingViewList) /\ Halves(apiClients') = Halves(apiClients)
      BY <1>3 DEF served
    <3> QED BY <3>1, <3>2, PairsEqual, RecordedType, RecordedTypeNext DEF Recorded
  <2> QED BY <1>2, <2>1, <2>2
<1> QED
  BY <1>1, <1>3, <1>4, QuietStep

LEMMA PeerRemoveRecords ==
    Typed /\ Typed' /\ Places /\ Records /\ PeerRemoveHandler => Records'
<1> SUFFICES ASSUME Typed, Typed', Places, Records, PeerRemoveHandler PROVE Records'
  OBVIOUS
<1> DEFINE p == Msg.peer
<1>1. QueueQuiet
  BY ReceiveOther DEF PeerRemoveHandler
<1>2. \/ UNCHANGED <<lists, running>>
      \/ p \in DOMAIN viewList \ DOMAIN awaitingRemovalViewList /\ PeerRemoveListed(p)
  BY DEF PeerRemoveHandler, PeerRemoveMarked, endpoints
<1> HIDE DEF p
<1>3. UNCHANGED served /\ UNCHANGED <<running, submodules, active, totalGoroutines, status>>
  BY <1>2 DEF PeerRemoveHandler, PeerRemoveListed, CloseAll, others
<1>4. Recorded' = Recorded
  <2>1. CASE UNCHANGED lists
    BY <1>3, <2>1 DEF Recorded, lists, served
  <2>2. CASE p \in DOMAIN viewList \ DOMAIN awaitingRemovalViewList /\ PeerRemoveListed(p)
    <3>1. /\ viewList' = Without(viewList, p)
          /\ \/ /\ HaveBothStopped(viewList[p])
                /\ awaitingRemovalViewList' = Without(awaitingRemovalViewList, p)
             \/ awaitingRemovalViewList' = With(awaitingRemovalViewList, p, viewList[p])
      BY <2>2 DEF PeerRemoveListed, RemovedAtOnce
    <3>2. ASSUME NEW e \in Endpoint, NEW h \in Half
          PROVE  <<e, h>> \in Halves(viewList') \/ <<e, h>> \in Halves(awaitingRemovalViewList')
                   <=> <<e, h>> \in Halves(viewList) \/ <<e, h>> \in Halves(awaitingRemovalViewList)
      BY <2>2, <3>1, HalvesAt, HalvesWith, HalvesWithout, WhoHasStopped
    <3>3. Halves(incomingViewList') = Halves(incomingViewList) /\ Halves(apiClients') = Halves(apiClients)
      BY <1>3 DEF served
    <3> QED BY <3>2, <3>3, PairsEqual, RecordedType, RecordedTypeNext DEF Recorded
  <2> QED BY <1>2, <2>1, <2>2
<1> QED
  BY <1>1, <1>3, <1>4, QuietStep

LEMMA ProbeRecords ==
    ASSUME Typed, Records, ProbePeerRequestHandler \/ CentralProbePeerReplyHandler
    PROVE  Records'
<1>1. QueueQuiet
  <2>1. CASE ProbePeerRequestHandler
    BY <2>1, ReceiveOther DEF ProbePeerRequestHandler
  <2>2. CASE CentralProbePeerReplyHandler
    <3>1. Msg.peer \in Peer
      BY <2>2, Received, MessageFields DEF CentralProbePeerReplyHandler, PeerMessageType
    <3>2. ForPeer("PeerAdd", Msg.peer) \in Message /\ Other(ForPeer("PeerAdd", Msg.peer))
      BY <3>1, MessagesBuilt DEF PeerMessageType, Other, ForPeer
    <3> QED BY <2>2, <3>2, ReceiveOther DEF CentralProbePeerReplyHandler
  <2> QED BY <2>1, <2>2
<1>2. UNCHANGED <<lists, served>> /\ UNCHANGED <<running, submodules, active, totalGoroutines, status>>
  BY DEF ProbePeerRequestHandler, CentralProbePeerReplyHandler, endpoints, others
<1>3. Recorded' = Recorded
  BY <1>2 DEF Recorded, lists, served
<1> QED
  BY <1>1, <1>2, <1>3, QuietStep

LEMMA OutgoingCreatedRecords ==
    Typed /\ Typed' /\ Places /\ Records /\ OutgoingP2PCreatedHandler => Records'
<1> SUFFICES ASSUME Typed, Typed', Places, Records, OutgoingP2PCreatedHandler PROVE Records'
  OBVIOUS
<1> DEFINE p == Msg.endp
<1>1. p \in Peer
  BY Received, MessageFields DEF OutgoingP2PCreatedHandler
<1>2. QueueQuiet
  <2>1. ForPeer("PeerRemove", p) \in Message /\ Other(ForPeer("PeerRemove", p))
    BY <1>1, MessagesBuilt DEF PeerMessageType, Other, ForPeer
  <2> QED BY <2>1, ReceiveOther DEF OutgoingP2PCreatedHandler
<1>3. \/ UNCHANGED <<viewList, endpoints, totalGoroutines>>
      \/ /\ p \in DOMAIN activelyCreatedPeers
         /\ Start(p, Msg.ok)
         /\ totalGoroutines' = totalGoroutines + TwoHalves
         /\ viewList' = With(viewList, p, Fresh)
  BY DEF OutgoingP2PCreatedHandler
<1> HIDE DEF p
<1>4. /\ UNCHANGED <<awaitingRemovalViewList, served, submodules, active, status>>
      /\ status = "running"
  BY DEF OutgoingP2PCreatedHandler, others, Receive
<1>5. CASE UNCHANGED <<viewList, endpoints, totalGoroutines>>
  <2>1. Recorded' = Recorded
    BY <1>4, <1>5 DEF Recorded, served
  <2> QED BY <1>2, <1>4, <1>5, <2>1, QuietStep DEF endpoints
<1>6. CASE /\ p \in DOMAIN activelyCreatedPeers
           /\ Start(p, Msg.ok)
           /\ totalGoroutines' = totalGoroutines + TwoHalves
           /\ viewList' = With(viewList, p, Fresh)
  <2>1. p \notin DOMAIN viewList /\ p \notin DOMAIN awaitingRemovalViewList
    BY <1>6 DEF Places, OnePlace
  <2>2. p \notin DOMAIN incomingViewList /\ p \notin DOMAIN apiClients /\ p \in Endpoint
    BY <1>1, EndpointAssumption, KindsInEndpoint DEF Typed, IsMap
  <2>3. \A h \in Half : <<p, h>> \notin Recorded
    BY <2>1, <2>2, HalvesAt DEF Recorded
  <2>4. ASSUME NEW e \in Endpoint, NEW h \in Half
        PROVE  <<e, h>> \in Recorded' <=> <<e, h>> \in Recorded \cup ({p} \X Half)
    <3>1. <<e, h>> \in Halves(viewList') <=> e = p \/ <<e, h>> \in Halves(viewList)
      BY <1>6, HalvesWith, WhoHasStopped
    <3> QED BY <1>4, <3>1 DEF Recorded, served
  <2>5. Recorded' = Recorded \cup ({p} \X Half)
    BY <2>2, <2>4, PairsEqual, RecordedType, RecordedTypeNext
  <2>6. Recorded \cap ({p} \X Half) = {}
    BY <2>3
  <2> QED BY <1>2, <1>4, <1>6, <2>2, <2>5, <2>6, StartStep DEF Start
<1> QED
  BY <1>3, <1>5, <1>6

\* The Central controller takes the end of an endpoint half off its queue.
LEMMA ReceiveEnd ==
    ASSUME Typed, Records, Receive("EndpointClosed"), Dequeue
    PROVE  /\ Msg.endp \in Endpoint /\ Msg.half \in Half /\ Msg.err \in BOOLEAN
           /\ <<Msg.endp, Msg.half>> \in PendingIn(inbox)
           /\ <<Msg.endp, Msg.half>> \in Recorded
           /\ OnceIn(inbox') /\ LeavingIn(inbox') = LeavingIn(inbox)
           /\ PendingIn(inbox') = PendingIn(inbox) \ {<<Msg.endp, Msg.half>>}
           /\ status = "running"
<1>1. Msg.endp \in Endpoint /\ Msg.half \in Half /\ Msg.err \in BOOLEAN
  BY Received, MessageFields
<1>2. EndOf(Msg) = {<<Msg.endp, Msg.half>>} /\ LeaveOf(Msg) = {}
  BY DEF Receive, Msg, EndOf, LeaveOf
<1>3. inbox \in Seq(Message) /\ inbox # <<>> /\ OnceIn(inbox) /\ inbox' = Tail(inbox)
  BY DEF Typed, Records, Receive, Dequeue
<1>4. /\ OnceIn(Tail(inbox))
      /\ PendingIn(Tail(inbox)) = PendingIn(inbox) \ EndOf(Msg)
      /\ LeavingIn(Tail(inbox)) = LeavingIn(inbox) \ LeaveOf(Msg)
      /\ EndOf(Msg) \subseteq PendingIn(inbox)
  BY <1>3, AfterDequeue DEF Msg
<1>5. <<Msg.endp, Msg.half>> \in PendingIn(inbox)
  BY <1>2, <1>4
<1>6. <<Msg.endp, Msg.half>> \in Recorded
  BY <1>5 DEF Records
<1> QED
  BY <1>1, <1>2, <1>3, <1>4, <1>5, <1>6 DEF Receive

LEMMA OutgoingClosedRecords ==
    Typed /\ Typed' /\ Places /\ Records /\ OutgoingPeerClosed => Records'
<1> SUFFICES ASSUME Typed, Typed', Places, Records, OutgoingPeerClosed PROVE Records'
  OBVIOUS
<1> DEFINE p == Msg.endp
           hf == Msg.half
           old == RecordOf(p)
           info == Stopped(old, hf, Msg.err)
<1>1. Receive("EndpointClosed") /\ Dequeue /\ p \in Peer /\ UNCHANGED <<served, submodules, active>>
  BY DEF OutgoingPeerClosed, others
<1>2. /\ hf \in Half /\ <<p, hf>> \in PendingIn(inbox) /\ <<p, hf>> \in Recorded
      /\ OnceIn(inbox') /\ LeavingIn(inbox') = LeavingIn(inbox)
      /\ PendingIn(inbox') = PendingIn(inbox) \ {<<p, hf>>}
      /\ status = "running"
  BY <1>1, ReceiveEnd
<1>3. /\ \/ UNCHANGED <<lists, totalGoroutines>>
            /\ (p \notin AllOutgoing \/ HasStopped(old, hf))
         \/ /\ p \in AllOutgoing /\ ~HasStopped(old, hf)
            /\ totalGoroutines' = totalGoroutines - 1
            /\ Replaced(p, info) \/ Erased(p, info)
  BY OutgoingClosedSteps
<1>4. status' = "done" => totalGoroutines' <= 0
  BY <1>2 DEF OutgoingPeerClosed, OutgoingPeerCompletelyClosed, OutgoingHalfClosed, Finish
<1>5. UNCHANGED running
  BY DEF OutgoingPeerClosed, OutgoingPeerCompletelyClosed, OutgoingHalfClosed, CloseAll, endpoints
<1>6. \A h \in Half : HasStopped(info, h) <=> h = hf \/ HasStopped(old, h)
  BY <1>2, WhoHasStopped
<1>7. old = IF p \in DOMAIN viewList THEN viewList[p] ELSE awaitingRemovalViewList[p]
  BY DEF RecordOf
<1> HIDE DEF p, hf, old, info
<1>8. p \notin DOMAIN incomingViewList /\ p \notin DOMAIN apiClients
  BY <1>1, EndpointAssumption DEF Typed, IsMap
<1>9. p \in AllOutgoing /\ ~HasStopped(old, hf)
  <2>1. <<p, hf>> \in Halves(viewList) \/ <<p, hf>> \in Halves(awaitingRemovalViewList)
    BY <1>2, <1>8, HalvesAt DEF Recorded
  <2>2. ~(p \in DOMAIN viewList /\ p \in DOMAIN awaitingRemovalViewList)
    BY DEF Places, OnePlace
  <2> QED BY <1>2, <1>7, <2>1, <2>2, HalvesAt DEF AllOutgoing
<1>10. totalGoroutines' = totalGoroutines - 1 /\ (Replaced(p, info) \/ Erased(p, info))
  BY <1>3, <1>9
<1>11. ~(p \in DOMAIN viewList /\ p \in DOMAIN awaitingRemovalViewList)
  BY DEF Places, OnePlace
<1>12. ASSUME NEW e \in Endpoint, NEW h \in Half
       PROVE  <<e, h>> \in Halves(viewList') \/ <<e, h>> \in Halves(awaitingRemovalViewList')
                <=> /\ <<e, h>> # <<p, hf>>
                    /\ <<e, h>> \in Halves(viewList) \/ <<e, h>> \in Halves(awaitingRemovalViewList)
  <2>1. CASE p \in DOMAIN viewList /\ Replaced(p, info)
    BY <1>6, <1>7, <1>11, <2>1, HalvesAt, HalvesWith DEF Replaced
  <2>2. CASE p \notin DOMAIN viewList /\ Replaced(p, info)
    BY <1>6, <1>7, <1>11, <2>2, HalvesAt, HalvesWith DEF Replaced
  <2>3. CASE Erased(p, info)
    <3>1. HasStopped(info, h)
      BY <2>3, WhoHasStopped DEF Erased
    <3> QED
      BY <1>6, <1>7, <1>11, <2>3, <3>1, HalvesAt, HalvesWithout DEF Erased
  <2> QED BY <1>10, <2>1, <2>2, <2>3
<1>13. Recorded' = Recorded \ {<<p, hf>>}
  <2>1. Halves(incomingViewList') = Halves(incomingViewList) /\ Halves(apiClients') = Halves(apiClients)
    BY <1>1 DEF served
  <2>2. <<p, hf>> \notin Halves(incomingViewList) /\ <<p, hf>> \notin Halves(apiClients)
    BY <1>2, <1>8, HalvesAt
  <2>3. ASSUME NEW e \in Endpoint, NEW h \in Half
        PROVE  <<e, h>> \in Recorded' <=> <<e, h>> \in Recorded \ {<<p, hf>>}
    BY <1>12, <2>1, <2>2 DEF Recorded
  <2> QED BY <2>3, PairsEqual, RecordedType, RecordedTypeNext
<1> QED
  BY <1>1, <1>2, <1>4, <1>5, <1>10, <1>13, ClosedStep

\* A table of served endpoints after a connection or an end, and the rest of
\* the records.
LEMMA ServeRecords ==
    ASSUME Typed, Typed', Records,
           IncomingP2PCreatedHandler \/ APIEndpointCreatedHandler
    PROVE  Records'
<1> DEFINE e == Msg.endp
<1>1. Receive("EndpointCreated") /\ Dequeue /\ QueueQuiet
  BY ReceiveOther DEF IncomingP2PCreatedHandler, APIEndpointCreatedHandler
<1>2. UNCHANGED <<lists, submodules, active, status>> /\ status = "running"
  BY <1>1 DEF IncomingP2PCreatedHandler, APIEndpointCreatedHandler, others, Receive
<1>3. \/ UNCHANGED <<served, totalGoroutines, running>>
      \/ /\ Start(e, Msg.ok) /\ totalGoroutines' = totalGoroutines + TwoHalves
         /\ \/ /\ e \in Inbound /\ e \notin DOMAIN incomingViewList
               /\ incomingViewList' = With(incomingViewList, e, Fresh)
               /\ UNCHANGED apiClients
            \/ /\ e \in Client /\ e \notin DOMAIN apiClients
               /\ apiClients' = With(apiClients, e, Fresh)
               /\ UNCHANGED incomingViewList
  <2>1. CASE IncomingP2PCreatedHandler
    BY <2>1 DEF IncomingP2PCreatedHandler, Serve, Admits, served, endpoints
  <2>2. CASE APIEndpointCreatedHandler
    BY <2>2 DEF APIEndpointCreatedHandler, Serve, Admits, served, endpoints
  <2> QED BY <2>1, <2>2
<1> HIDE DEF e
<1>4. CASE UNCHANGED <<served, totalGoroutines, running>>
  <2>1. Recorded' = Recorded
    BY <1>2, <1>4 DEF Recorded, lists, served
  <2> QED BY <1>1, <1>2, <1>4, <2>1, QuietStep
<1>5. CASE /\ Start(e, Msg.ok) /\ totalGoroutines' = totalGoroutines + TwoHalves
           /\ \/ /\ e \in Inbound /\ e \notin DOMAIN incomingViewList
                 /\ incomingViewList' = With(incomingViewList, e, Fresh)
                 /\ UNCHANGED apiClients
              \/ /\ e \in Client /\ e \notin DOMAIN apiClients
                 /\ apiClients' = With(apiClients, e, Fresh)
                 /\ UNCHANGED incomingViewList
  <2>1. /\ e \in Endpoint
        /\ e \notin DOMAIN viewList /\ e \notin DOMAIN awaitingRemovalViewList
        /\ e \notin DOMAIN incomingViewList /\ e \notin DOMAIN apiClients
    BY <1>5, EndpointAssumption, KindsInEndpoint DEF Typed, IsMap
  <2>2. Recorded \cap ({e} \X Half) = {}
    BY <2>1, HalvesAt DEF Recorded
  <2>3. ASSUME NEW x \in Endpoint, NEW h \in Half
        PROVE  <<x, h>> \in Recorded' <=> <<x, h>> \in Recorded \cup ({e} \X Half)
    <3>1. <<x, h>> \in Halves(incomingViewList') \/ <<x, h>> \in Halves(apiClients')
             <=> x = e \/ <<x, h>> \in Halves(incomingViewList) \/ <<x, h>> \in Halves(apiClients)
      BY <1>5, HalvesWith, WhoHasStopped
    <3> QED BY <1>2, <3>1 DEF Recorded, lists
  <2>4. Recorded' = Recorded \cup ({e} \X Half)
    BY <2>1, <2>3, PairsEqual, RecordedType, RecordedTypeNext
  <2> QED BY <1>1, <1>2, <1>5, <2>1, <2>2, <2>4, StartStep DEF Start
<1> QED
  BY <1>3, <1>4, <1>5

LEMMA ServedClosedRecords ==
    ASSUME Typed, Typed', Records, IncomingPeerClosed \/ APIEndpointClosed
    PROVE  Records'
<1> DEFINE e == Msg.endp
           hf == Msg.half
           After(table, table2) ==
              \/ table2 = Without(table, e) /\ HaveBothStopped(Stopped(table[e], hf, Msg.err))
              \/ table2 = With(table, e, Stopped(table[e], hf, Msg.err))
<1>1. Receive("EndpointClosed") /\ Dequeue /\ UNCHANGED <<lists, submodules, active>>
  BY DEF IncomingPeerClosed, APIEndpointClosed, others
<1>2. /\ hf \in Half /\ <<e, hf>> \in PendingIn(inbox) /\ <<e, hf>> \in Recorded
      /\ OnceIn(inbox') /\ LeavingIn(inbox') = LeavingIn(inbox)
      /\ PendingIn(inbox') = PendingIn(inbox) \ {<<e, hf>>}
      /\ status = "running"
  BY <1>1, ReceiveEnd
<1>3. status' = "done" => totalGoroutines' <= 0
  BY <1>2 DEF IncomingPeerClosed, APIEndpointClosed, Finish
<1>4. \/ /\ e \in Inbound /\ UNCHANGED apiClients /\ ServedClosed(incomingViewList)
      \/ /\ e \in Client /\ UNCHANGED incomingViewList /\ ServedClosed(apiClients)
  BY DEF IncomingPeerClosed, APIEndpointClosed
<1>5. /\ e \notin DOMAIN viewList /\ e \notin DOMAIN awaitingRemovalViewList
      /\ e \in Inbound => e \notin DOMAIN apiClients
      /\ e \in Client => e \notin DOMAIN incomingViewList
  BY <1>4, EndpointAssumption DEF Typed, IsMap
<1>6. /\ totalGoroutines' = totalGoroutines - 1 /\ UNCHANGED running
      /\ \/ /\ e \in DOMAIN incomingViewList /\ e \notin DOMAIN apiClients
            /\ After(incomingViewList, incomingViewList') /\ UNCHANGED apiClients
         \/ /\ e \in DOMAIN apiClients /\ e \notin DOMAIN incomingViewList
            /\ After(apiClients, apiClients') /\ UNCHANGED incomingViewList
  <2>1. CASE e \in Inbound /\ UNCHANGED apiClients /\ ServedClosed(incomingViewList)
    <3>1. e \in DOMAIN incomingViewList /\ ~HasStopped(incomingViewList[e], hf)
      BY <1>2, <1>5, <2>1, HalvesAt DEF Recorded
    <3> QED BY <1>5, <2>1, <3>1 DEF ServedClosed, CloseAll, endpoints
  <2>2. CASE e \in Client /\ UNCHANGED incomingViewList /\ ServedClosed(apiClients)
    <3>1. e \in DOMAIN apiClients /\ ~HasStopped(apiClients[e], hf)
      BY <1>2, <1>5, <2>2, HalvesAt DEF Recorded
    <3> QED BY <1>5, <2>2, <3>1 DEF ServedClosed, CloseAll, endpoints
  <2> QED BY <1>4, <2>1, <2>2
<1>7. ASSUME NEW table, NEW table2, e \in DOMAIN table, After(table, table2),
             NEW x \in Endpoint, NEW h \in Half
      PROVE  <<x, h>> \in Halves(table2) <=> <<x, h>> # <<e, hf>> /\ <<x, h>> \in Halves(table)
  <2> DEFINE info == Stopped(table[e], hf, Msg.err)
  <2>1. HasStopped(info, h) <=> h = hf \/ HasStopped(table[e], h)
    BY <1>2, WhoHasStopped
  <2>2. HaveBothStopped(info) => HasStopped(info, h)
    BY WhoHasStopped
  <2>3. \/ table2 = Without(table, e) /\ HaveBothStopped(info)
        \/ table2 = With(table, e, info)
    BY <1>7
  <2> HIDE DEF info, e, hf
  <2> QED
    BY <1>7, <2>1, <2>2, <2>3, HalvesAt, HalvesWith, HalvesWithout
<1> HIDE DEF e, hf, After
<1>8. ASSUME NEW x \in Endpoint, NEW h \in Half
      PROVE  <<x, h>> \in Recorded' <=> <<x, h>> \in Recorded \ {<<e, hf>>}
  <2>1. /\ <<e, hf>> \notin Halves(viewList) /\ <<e, hf>> \notin Halves(awaitingRemovalViewList)
        /\ e \notin DOMAIN incomingViewList => <<e, hf>> \notin Halves(incomingViewList)
        /\ e \notin DOMAIN apiClients => <<e, hf>> \notin Halves(apiClients)
    BY <1>2, <1>5, HalvesAt
  <2>2. <<x, h>> \in Halves(incomingViewList') \/ <<x, h>> \in Halves(apiClients')
          <=> /\ <<x, h>> # <<e, hf>>
              /\ <<x, h>> \in Halves(incomingViewList) \/ <<x, h>> \in Halves(apiClients)
    <3>1. CASE /\ e \in DOMAIN incomingViewList /\ e \notin DOMAIN apiClients
               /\ After(incomingViewList, incomingViewList') /\ UNCHANGED apiClients
      BY <1>7, <2>1, <3>1
    <3>2. CASE /\ e \in DOMAIN apiClients /\ e \notin DOMAIN incomingViewList
               /\ After(apiClients, apiClients') /\ UNCHANGED incomingViewList
      BY <1>7, <2>1, <3>2
    <3> QED BY <1>6, <3>1, <3>2
  <2> QED BY <1>1, <2>1, <2>2 DEF Recorded, lists
<1>9. Recorded' = Recorded \ {<<e, hf>>}
  BY <1>8, PairsEqual, RecordedType, RecordedTypeNext
<1> QED
  BY <1>1, <1>2, <1>3, <1>6, <1>9, ClosedStep

LEMMA LoansRecords ==
    ASSUME Typed, Typed', Places, Records,
           \/ RandomPeerListRequestHandler
           \/ \E peers \in SUBSET Peer : RandomPeerListReleaseHandler(peers)
           \/ \E peer \in Peer : GossiperForgets(peer)
    PROVE  Records'
<1>1. QueueQuiet /\ UNCHANGED <<served, running, submodules, active, totalGoroutines, status>>
  <2>1. CASE RandomPeerListRequestHandler
    BY <2>1, QueueStays DEF RandomPeerListRequestHandler, endpoints, others
  <2>2. CASE \E peers \in SUBSET Peer : RandomPeerListReleaseHandler(peers)
    BY <2>2, QueueStays DEF RandomPeerListReleaseHandler, CloseAll, others
  <2>3. CASE \E peer \in Peer : GossiperForgets(peer)
    BY <2>3, QueueStays DEF GossiperForgets, central, endpoints, others
  <2> QED BY <2>1, <2>2, <2>3
<1>2. ASSUME NEW e \in Endpoint, NEW h \in Half
      PROVE  <<e, h>> \in Halves(viewList') \/ <<e, h>> \in Halves(awaitingRemovalViewList')
               <=> <<e, h>> \in Halves(viewList) \/ <<e, h>> \in Halves(awaitingRemovalViewList)
  <2>1. CASE RandomPeerListRequestHandler
    <3>1. PICK ps \in SUBSET DOMAIN viewList :
             viewList' = [p \in DOMAIN viewList |->
                             IF p \in ps THEN Used(viewList[p], 1) ELSE viewList[p]]
      BY <2>1, Zenon DEF RandomPeerListRequestHandler
    <3>2. UNCHANGED awaitingRemovalViewList
      BY <2>1 DEF RandomPeerListRequestHandler
    <3>3. e \in DOMAIN viewList => (HasStopped(viewList'[e], h) <=> HasStopped(viewList[e], h))
      BY <3>1, WhoHasStopped
    <3>4. DOMAIN viewList' = DOMAIN viewList
      BY <3>1
    <3> QED BY <3>2, <3>3, <3>4, HalvesAt
  <2>2. CASE \E peers \in SUBSET Peer : RandomPeerListReleaseHandler(peers)
    <3>1. PICK peers \in SUBSET Peer : RandomPeerListReleaseHandler(peers)
      BY <2>2
    <3> DEFINE waiting == peers \cap (DOMAIN awaitingRemovalViewList \ DOMAIN viewList)
               returned == [p \in waiting |-> Used(awaitingRemovalViewList[p], -1)]
               gone == {p \in waiting : RemovedAtOnce(returned[p])}
    <3>2. /\ viewList' = [p \in DOMAIN viewList |->
                             IF p \in peers THEN Used(viewList[p], -1) ELSE viewList[p]]
          /\ awaitingRemovalViewList' = [p \in DOMAIN awaitingRemovalViewList \ gone |->
                    IF p \in waiting THEN returned[p] ELSE awaitingRemovalViewList[p]]
      BY <3>1, Zenon DEF RandomPeerListReleaseHandler
    <3>3. /\ \A p \in waiting : returned[p] = Used(awaitingRemovalViewList[p], -1)
          /\ \A p \in gone : p \in waiting /\ HaveBothStopped(returned[p])
          /\ waiting \subseteq DOMAIN awaitingRemovalViewList
      BY DEF RemovedAtOnce
    <3> HIDE DEF waiting, returned, gone
    <3>4. <<e, h>> \in Halves(viewList') <=> <<e, h>> \in Halves(viewList)
      <4>1. e \in DOMAIN viewList => (HasStopped(viewList'[e], h) <=> HasStopped(viewList[e], h))
        BY <3>2, WhoHasStopped
      <4>2. DOMAIN viewList' = DOMAIN viewList
        BY <3>2
      <4> QED BY <4>1, <4>2, HalvesAt
    <3>5. <<e, h>> \in Halves(awaitingRemovalViewList') <=> <<e, h>> \in Halves(awaitingRemovalViewList)
      <4>1. e \in waiting => (HasStopped(returned[e], h) <=> HasStopped(awaitingRemovalViewList[e], h))
        BY <3>3, WhoHasStopped
      <4>2. e \in gone => HasStopped(awaitingRemovalViewList[e], h)
        BY <3>3, <4>1, WhoHasStopped
      <4>3. e \in DOMAIN awaitingRemovalViewList'
              <=> e \in DOMAIN awaitingRemovalViewList /\ e \notin gone
        BY <3>2
      <4>4. e \in DOMAIN awaitingRemovalViewList' =>
              (HasStopped(awaitingRemovalViewList'[e], h)
                 <=> HasStopped(awaitingRemovalViewList[e], h))
        BY <3>2, <4>1
      <4> QED BY <4>2, <4>3, <4>4, HalvesAt
    <3> QED BY <3>4, <3>5
  <2>3. CASE \E peer \in Peer : GossiperForgets(peer)
    BY <2>3 DEF GossiperForgets, central, lists
  <2> QED BY <2>1, <2>2, <2>3
<1>3. Recorded' = Recorded
  <2>1. Halves(incomingViewList') = Halves(incomingViewList) /\ Halves(apiClients') = Halves(apiClients)
    BY <1>1 DEF served
  <2> QED BY <1>2, <2>1, PairsEqual, RecordedType, RecordedTypeNext DEF Recorded
<1> QED
  BY <1>1, <1>3, QuietStep

\* Only the queue changes, by an ordinary message, or other parts of the node do.
LEMMA OrdinaryStep ==
    ASSUME Records, QueueQuiet,
           UNCHANGED <<lists, served, running, submodules, totalGoroutines>>,
           \A s \in Submodule : active'[s] # "ended" => active[s] # "ended",
           status' = "done" => status = "done"
    PROVE  Records'
<1>1. Recorded' = Recorded
  BY DEF Recorded, lists, served
<1> QED
  BY <1>1, QuietStep

LEMMA ShutdownRecords ==
    ASSUME Typed, Typed', Records,
           CloseHandler \/ SubmoduleClosedHandler \/ CrashHandler \/ DropMessage
    PROVE  Records'
<1>1. CASE CloseHandler
  <2>1. QueueQuiet
    BY <1>1, ReceiveOther DEF CloseHandler
  <2>2. UNCHANGED <<lists, served, running, submodules, totalGoroutines, status>>
    BY <1>1 DEF CloseHandler, CloseAll
  <2>3. \A s \in Submodule : active'[s] # "ended" => active[s] # "ended"
    BY <1>1 DEF CloseHandler
  <2> QED BY <2>1, <2>2, <2>3, OrdinaryStep
<1>2. CASE SubmoduleClosedHandler
  <2> DEFINE s == Msg.which
  <2>1. s \in Submodule /\ inbox' = Tail(inbox) /\ inbox # <<>> /\ inbox \in Seq(Message)
    BY <1>2, Received, MessageFields DEF SubmoduleClosedHandler, Dequeue, Receive, Typed
  <2>2. EndOf(Msg) = {} /\ LeaveOf(Msg) = {s}
    BY <1>2 DEF SubmoduleClosedHandler, Receive, Msg, EndOf, LeaveOf
  <2>3. /\ OnceIn(inbox') /\ PendingIn(inbox') = PendingIn(inbox)
        /\ LeavingIn(inbox') = LeavingIn(inbox) \ {s} /\ s \in LeavingIn(inbox)
    <3>1. /\ OnceIn(Tail(inbox))
          /\ PendingIn(Tail(inbox)) = PendingIn(inbox) \ EndOf(Msg)
          /\ LeavingIn(Tail(inbox)) = LeavingIn(inbox) \ LeaveOf(Msg)
          /\ LeaveOf(Msg) \subseteq LeavingIn(inbox)
      BY <2>1, AfterDequeue DEF Records, Msg
    <3> QED BY <2>1, <2>2, <3>1
  <2>4. /\ submodules' = submodules \ {s} /\ totalGoroutines' = totalGoroutines - 1
        /\ UNCHANGED <<lists, served, running, active>>
        /\ status' = "done" => totalGoroutines' <= 0 \/ status = "done"
        /\ status = "running"
    BY <1>2 DEF SubmoduleClosedHandler, endpoints, others, Finish, Receive
  <2> HIDE DEF s
  <2>5. Recorded' = Recorded
    BY <2>4 DEF Recorded, lists, served
  <2>6. s \in submodules
    BY <2>3 DEF Records
  <2>7. Cardinality(submodules') = Cardinality(submodules) - 1
    <3>1. IsFiniteSet(submodules)
      BY FiniteEndpoints DEF Typed
    <3> QED BY <2>4, <2>6, <3>1, FS_RemoveElement
  <2>8. GoroutinesCounted'
    <3>1. Cardinality(Recorded) \in Nat /\ Cardinality(submodules) \in Nat
      BY RecordedType, FiniteEndpoints DEF Typed
    <3> QED BY <2>4, <2>5, <2>7, <3>1 DEF Records, GoroutinesCounted
  <2> QED BY <2>3, <2>4, <2>5, <2>8 DEF Records
<1>3. CASE CrashHandler
  <2>1. QueueQuiet
    BY <1>3, ReceiveOther DEF CrashHandler
  <2>2. /\ UNCHANGED <<lists, served, running, submodules, totalGoroutines, active>>
        /\ status' = "crashed"
    BY <1>3 DEF CrashHandler, central, endpoints, others
  <2> QED BY <2>1, <2>2, OrdinaryStep
<1>4. CASE DropMessage
  <2>1. QueueQuiet
    <3>1. inbox \in Seq(Message) /\ inbox # <<>> /\ inbox' = Tail(inbox) /\ OnceIn(inbox)
      BY <1>4 DEF DropMessage, Dequeue, Typed, Records
    <3>2. EndOf(Head(inbox)) = {} /\ LeaveOf(Head(inbox)) = {}
      BY <1>4 DEF DropMessage, StopMessage, EndOf, LeaveOf, Msg
    <3> QED BY <3>1, <3>2, AfterDequeue DEF QueueQuiet
  <2>2. UNCHANGED <<lists, served, running, submodules, totalGoroutines, active, status>>
    BY <1>4 DEF DropMessage, central, endpoints, others
  <2> QED BY <2>1, <2>2, OrdinaryStep
<1> QED
  BY <1>1, <1>2, <1>3, <1>4

LEMMA GoroutinesRecords ==
    ASSUME Typed, Typed', Records
    PROVE  /\ \A peer \in Peer, ok \in BOOLEAN :
                 DialEnds(peer, ok) \/ ProbeEnds(peer, ok) => Records'
           /\ \A endp \in Endpoint, half \in Half :
                 EndpointCloses(endp, half) \/ EndpointCrashes(endp, half) => Records'
           /\ \A endp \in Inbound \cup Client : ListenerAccepts(endp) => Records'
           /\ \A s \in Submodule : SubmoduleCloses(s) \/ SubmoduleCrashes(s) => Records'
           /\ UserInterrupts \/ ClosureTimesOut => Records'
<1>1. ASSUME NEW peer \in Peer, NEW ok \in BOOLEAN, DialEnds(peer, ok) PROVE Records'
  <2>1. QueueQuiet
    <3>1. /\ Created("OutgoingP2PCreated", peer, ok) \in Message
          /\ Other(Created("OutgoingP2PCreated", peer, ok))
      BY MessagesBuilt DEF Other, Created
    <3> QED BY <1>1, <3>1, SendOther DEF DialEnds
  <2>2. UNCHANGED <<lists, served, running, submodules, totalGoroutines, active, status>>
    BY <1>1 DEF DialEnds, central, endpoints
  <2> QED BY <2>1, <2>2, OrdinaryStep
<1>2. ASSUME NEW peer \in Peer, NEW ok \in BOOLEAN, ProbeEnds(peer, ok) PROVE Records'
  <2>1. QueueQuiet
    <3>1. /\ ForPeer("CentralProbePeerReply", peer) \in Message
          /\ Other(ForPeer("CentralProbePeerReply", peer))
      BY MessagesBuilt DEF PeerMessageType, Other, ForPeer
    <3> QED BY <1>2, <3>1, SendOther, QueueStays DEF ProbeEnds
  <2>2. /\ UNCHANGED <<lists, served, running, submodules, totalGoroutines, active>>
        /\ status' = "done" => status = "done"
    BY <1>2 DEF ProbeEnds, central, endpoints
  <2> QED BY <2>1, <2>2, OrdinaryStep
<1>3. ASSUME NEW endp \in Endpoint, NEW half \in Half, NEW err \in BOOLEAN, Ends(endp, half, err)
      PROVE  Records'
  <2> DEFINE m == Closed(endp, half, err)
  <2>1. m \in Message /\ EndOf(m) = {<<endp, half>>} /\ LeaveOf(m) = {}
    BY MessagesBuilt DEF Closed, EndOf, LeaveOf
  <2>2. inbox' = Append(inbox, m) /\ inbox \in Seq(Message) /\ OnceIn(inbox)
    BY <1>3 DEF Ends, Send, Typed, Records
  <2> HIDE DEF m
  <2>3. <<endp, half>> \in running /\ running' = running \ {<<endp, half>>}
    BY <1>3 DEF Ends
  <2>4. <<endp, half>> \notin PendingIn(inbox)
    BY <2>3 DEF Records
  <2>5. /\ OnceIn(inbox') /\ PendingIn(inbox') = PendingIn(inbox) \cup {<<endp, half>>}
        /\ LeavingIn(inbox') = LeavingIn(inbox)
    <3>1. EndOf(m) \cap PendingIn(inbox) = {} /\ LeaveOf(m) \cap LeavingIn(inbox) = {}
      BY <2>1, <2>4
    <3>2. /\ OnceIn(Append(inbox, m))
          /\ PendingIn(Append(inbox, m)) = PendingIn(inbox) \cup EndOf(m)
          /\ LeavingIn(Append(inbox, m)) = LeavingIn(inbox) \cup LeaveOf(m)
      BY <2>1, <2>2, <3>1, AfterSend
    <3> QED BY <2>1, <2>2, <3>2
  <2>6. UNCHANGED <<Recorded, submodules, active, status, totalGoroutines>>
    BY <1>3 DEF Ends, central, others, Recorded, lists, served
  <2> QED BY <2>3, <2>5, <2>6, EndsStep
<1>4. ASSUME NEW endp \in Endpoint, NEW half \in Half,
             EndpointCloses(endp, half) \/ EndpointCrashes(endp, half)
      PROVE  Records'
  BY <1>3, <1>4 DEF EndpointCloses, EndpointCrashes
<1>5. ASSUME NEW endp \in Inbound \cup Client, ListenerAccepts(endp) PROVE Records'
  <2>1. QueueQuiet
    <3>1. /\ Created("EndpointCreated", endp, TRUE) \in Message
          /\ Other(Created("EndpointCreated", endp, TRUE))
      BY MessagesBuilt DEF Other, Created
    <3> QED BY <1>5, <3>1, SendOther DEF ListenerAccepts
  <2>2. UNCHANGED <<lists, served, running, submodules, totalGoroutines, active, status>>
    BY <1>5 DEF ListenerAccepts, central, endpoints
  <2> QED BY <2>1, <2>2, OrdinaryStep
<1>6. ASSUME NEW s \in Submodule, SubmoduleCloses(s) PROVE Records'
  <2> DEFINE m == SubmoduleClosed(s)
  <2>1. m \in Message /\ EndOf(m) = {} /\ LeaveOf(m) = {s}
    BY MessagesBuilt DEF SubmoduleClosed, EndOf, LeaveOf
  <2>2. inbox' = Append(inbox, m) /\ inbox \in Seq(Message) /\ OnceIn(inbox)
    BY <1>6 DEF SubmoduleCloses, Send, Typed, Records
  <2> HIDE DEF m
  <2>3. /\ active[s] # "ended" /\ active'[s] = "ended"
        /\ \A t \in Submodule : t # s => active'[t] = active[t]
        /\ UNCHANGED <<lists, served, running, submodules, totalGoroutines, status>>
    BY <1>6 DEF SubmoduleCloses, Typed, central, endpoints
  <2>4. s \in submodules /\ s \notin LeavingIn(inbox)
    BY <2>3 DEF Records
  <2>5. /\ OnceIn(inbox') /\ PendingIn(inbox') = PendingIn(inbox)
        /\ LeavingIn(inbox') = LeavingIn(inbox) \cup {s}
    <3>1. EndOf(m) \cap PendingIn(inbox) = {} /\ LeaveOf(m) \cap LeavingIn(inbox) = {}
      BY <2>1, <2>4
    <3>2. /\ OnceIn(Append(inbox, m))
          /\ PendingIn(Append(inbox, m)) = PendingIn(inbox) \cup EndOf(m)
          /\ LeavingIn(Append(inbox, m)) = LeavingIn(inbox) \cup LeaveOf(m)
      BY <2>1, <2>2, <3>1, AfterSend
    <3> QED BY <2>1, <2>2, <3>2
  <2>6. UNCHANGED Recorded
    BY <2>3 DEF Recorded, lists, served
  <2>7. GoroutinesCounted'
    BY <2>3, <2>6 DEF Records, GoroutinesCounted
  <2> QED BY <2>3, <2>4, <2>5, <2>6, <2>7 DEF Records
<1>7. ASSUME NEW s \in Submodule, SubmoduleCrashes(s) PROVE Records'
  <2>1. CentralCrash \in Message /\ Other(CentralCrash)
    BY MessagesBuilt DEF Other, CentralCrash
  <2>2. QueueQuiet
    BY <1>7, <2>1, SendOther DEF SubmoduleCrashes
  <2>3. /\ UNCHANGED <<lists, served, running, submodules, totalGoroutines, status>>
        /\ \A t \in Submodule : active'[t] # "ended" => active[t] # "ended"
    BY <1>7 DEF SubmoduleCrashes, Typed, central, endpoints
  <2> QED BY <2>2, <2>3, OrdinaryStep
<1>8. ASSUME UserInterrupts \/ ClosureTimesOut PROVE Records'
  <2>1. /\ CentralCrash \in Message /\ Other(CentralCrash)
        /\ CentralClose \in Message /\ Other(CentralClose)
    BY MessagesBuilt DEF Other, CentralCrash, CentralClose
  <2>2. QueueQuiet
    BY <1>8, <2>1, SendOther DEF UserInterrupts, ClosureTimesOut
  <2>3. UNCHANGED <<lists, served, running, submodules, totalGoroutines, status, active>>
    BY <1>8 DEF UserInterrupts, ClosureTimesOut, central, endpoints, others
  <2> QED BY <2>2, <2>3, OrdinaryStep
<1> QED
  BY <1>1, <1>2, <1>4, <1>5, <1>6, <1>7, <1>8

LEMMA MembershipRecords ==
    ASSUME Typed, Typed', Records
    PROVE  /\ \A newViewList \in Views : ReplaceViewList(newViewList) => Records'
           /\ \A peer \in Peer : MembershipProbes(peer) => Records'
           /\ PeerDisconnectedHandler => Records'
<1>1. ASSUME NEW newViewList \in Views, ReplaceViewList(newViewList) PROVE Records'
  <2>1. PICK removals \in [1..Cardinality(members \ newViewList) ->
                               {ForPeer("PeerRemove", p) : p \in members \ newViewList}],
             additions \in [1..Cardinality(newViewList \ members) ->
                               {ForPeer("PeerAdd", p) : p \in newViewList \ members}] :
           inbox' = inbox \o removals \o additions
    BY <1>1, Zenon DEF ReplaceViewList
  <2>2. members \ newViewList \in SUBSET Peer /\ newViewList \ members \in SUBSET Peer
    BY DEF Typed, Views
  <2>3. /\ removals \in Seq(Message) /\ \A i \in DOMAIN removals : removals[i].type = "PeerRemove"
        /\ additions \in Seq(Message) /\ \A i \in DOMAIN additions : additions[i].type = "PeerAdd"
    BY <2>2, OrdersInBlock
  <2>4. /\ \A i \in DOMAIN removals : Other(removals[i])
        /\ \A i \in DOMAIN additions : Other(additions[i])
    BY <2>3 DEF Other
  <2>5. inbox \in Seq(Message) /\ OnceIn(inbox)
    BY DEF Typed, Records
  <2>6. /\ OnceIn(inbox \o removals) /\ inbox \o removals \in Seq(Message)
        /\ PendingIn(inbox \o removals) = PendingIn(inbox)
        /\ LeavingIn(inbox \o removals) = LeavingIn(inbox)
    BY <2>3, <2>4, <2>5, AfterOrders
  <2>7. QueueQuiet
    <3> DEFINE q == inbox \o removals
    <3> HIDE DEF q
    <3>1. OnceIn(q) /\ q \in Seq(Message)
      BY <2>6 DEF q
    <3>2. /\ OnceIn(q \o additions)
          /\ PendingIn(q \o additions) = PendingIn(q)
          /\ LeavingIn(q \o additions) = LeavingIn(q)
      BY <2>3, <2>4, <3>1, AfterOrders
    <3> QED BY <2>1, <2>6, <3>2 DEF QueueQuiet, q
  <2>8. UNCHANGED <<lists, served, running, submodules, totalGoroutines, status, active>>
    BY <1>1 DEF ReplaceViewList, central, endpoints, others
  <2> QED BY <2>7, <2>8, OrdinaryStep
<1>2. ASSUME NEW peer \in Peer, MembershipProbes(peer) PROVE Records'
  <2>1. ForPeer("ProbePeerRequest", peer) \in Message /\ Other(ForPeer("ProbePeerRequest", peer))
    BY MessagesBuilt DEF PeerMessageType, Other, ForPeer
  <2>2. QueueQuiet
    BY <1>2, <2>1, SendOther DEF MembershipProbes
  <2>3. UNCHANGED <<lists, served, running, submodules, totalGoroutines, status, active>>
    BY <1>2 DEF MembershipProbes, central, endpoints, others
  <2> QED BY <2>2, <2>3, OrdinaryStep
<1>3. ASSUME PeerDisconnectedHandler PROVE Records'
  <2> DEFINE m == Head(mInbox)
             S == [type : {"PeerDisconnected"}, peer : Peer]
  <2>1. m.peer \in Peer
    <3>1. mInbox \in Seq(S) /\ mInbox # <<>>
      BY <1>3 DEF PeerDisconnectedHandler, Typed
    <3>2. m \in S
      <4> HIDE DEF S
      <4> QED BY <3>1
    <3> QED BY <3>2
  <2>2. ForPeer("PeerRemove", m.peer) \in Message /\ Other(ForPeer("PeerRemove", m.peer))
    BY <2>1, MessagesBuilt DEF PeerMessageType, Other, ForPeer
  <2>3. QueueQuiet
    BY <1>3, <2>2, SendOther, QueueStays DEF PeerDisconnectedHandler
  <2>4. UNCHANGED <<lists, served, running, submodules, totalGoroutines, status, active>>
    BY <1>3 DEF PeerDisconnectedHandler, central, endpoints, others
  <2> QED BY <2>3, <2>4, OrdinaryStep
<1> QED
  BY <1>1, <1>2, <1>3

LEMMA NextRecords == Typed /\ Places /\ Records /\ [Next]_vars => Records'
<1> SUFFICES ASSUME Typed, Places, Records, [Next]_vars PROVE Records'
  OBVIOUS
<1>1. Typed'
  BY NextTyped
<1>2. CASE Handler
  BY <1>1, <1>2, PeerAddRecords, PeerRemoveRecords, ProbeRecords, OutgoingCreatedRecords,
     OutgoingClosedRecords, ServeRecords, ServedClosedRecords, ShutdownRecords DEF Handler
<1>3. CASE UNCHANGED vars
  <2>1. UNCHANGED <<lists, served, running, submodules, totalGoroutines, status, active, inbox>>
    BY <1>3 DEF vars, central, endpoints, others
  <2> QED BY <2>1, QueueStays, OrdinaryStep
<1>4. Crashing \subseteq Submodule
  BY SubmoduleAssumption
<1> QED
  BY <1>1, <1>2, <1>3, <1>4, LoansRecords, GoroutinesRecords, MembershipRecords DEF Next

CentralInv == Typed /\ Places /\ Records

LEMMA AlwaysCentralInv == Spec => []CentralInv
BY InitTyped, NextTyped, InitPlaces, NextPlaces, InitRecords, NextRecords, PTL
   DEF Spec, CentralInv

-----------------------------------------------------------------------------
(* What follows *)

\* The counter that Run waits for is never too high, which would keep a
\* shutdown from ending, nor too low, which would end it while a goroutine
\* still runs, whatever ends, crashes or arrives in between (controller.go).
THEOREM GoroutinesStayCounted == Spec => []GoroutinesCounted
<1>1. CentralInv => GoroutinesCounted
  BY DEF CentralInv, Records
<1> QED BY <1>1, AlwaysCentralInv, PTL

\* The types of the state of CentralController; in particular Run's counter
\* never falls below zero.
THEOREM CentralTypes == Spec => []TypeOK
<1>1. CentralInv => TypeOK
  <2> SUFFICES ASSUME CentralInv PROVE TypeOK
    OBVIOUS
  <2>1. totalGoroutines \in Nat
    <3>1. Cardinality(Recorded) \in Nat /\ Cardinality(submodules) \in Nat
      BY RecordedType, FiniteEndpoints DEF CentralInv, Typed
    <3> QED BY <3>1 DEF CentralInv, Records, GoroutinesCounted
  <2> QED BY <2>1 DEF CentralInv, Typed, TypeOK
<1> QED BY <1>1, AlwaysCentralInv, PTL

\* The messages that announce the end of a half: at most one of them is in a
\* queue that announces no end twice.
LEMMA EndingsCounted ==
    ASSUME OnceIn(inbox), NEW e \in Endpoint, NEW h \in Half
    PROVE  IF <<e, h>> \in PendingIn(inbox)
           THEN Cardinality(Endings(e, h)) = 1
           ELSE Endings(e, h) = {} /\ Cardinality(Endings(e, h)) = 0
<1>1. CASE <<e, h>> \in PendingIn(inbox)
  <2>1. PICK i \in DOMAIN inbox : /\ inbox[i].type = "EndpointClosed"
                                  /\ inbox[i].endp = e /\ inbox[i].half = h
    BY <1>1 DEF PendingIn
  <2>2. \A j \in Endings(e, h) : j = i
    BY <2>1 DEF OnceIn, Endings
  <2>3. Endings(e, h) = {i}
    BY <2>1, <2>2 DEF Endings
  <2> QED BY <1>1, <2>3, FS_Singleton
<1>2. CASE <<e, h>> \notin PendingIn(inbox)
  <2>1. Endings(e, h) = {}
    BY <1>2 DEF PendingIn, Endings
  <2> QED BY <1>2, <2>1, FS_EmptySet
<1> QED
  BY <1>1, <1>2

\* A half of an endpoint is recorded as running if and only if it runs or the
\* one message that says that it has ended is still in the queue; so a message
\* of an old connection is never taken for one of a new connection with the
\* same address (controller.go).
THEOREM RecordsStayTrue == Spec => []RecordsMatchGoroutines
<1>1. CentralInv => RecordsMatchGoroutines
  <2> SUFFICES ASSUME CentralInv, NEW e \in Endpoint, NEW h \in Half
               PROVE  LET runs == <<e, h>> \in running
                          n == Cardinality(Endings(e, h))
                      IN  /\ runs => n = 0
                          /\ n <= 1
                          /\ <<e, h>> \in Recorded <=> runs \/ n = 1
    BY DEF RecordsMatchGoroutines
  <2>1. /\ OnceIn(inbox) /\ Recorded = running \cup PendingIn(inbox)
        /\ running \cap PendingIn(inbox) = {}
    BY DEF CentralInv, Records
  <2>2. IF <<e, h>> \in PendingIn(inbox)
        THEN Cardinality(Endings(e, h)) = 1 ELSE Cardinality(Endings(e, h)) = 0
    BY <2>1, EndingsCounted
  <2> QED BY <2>1, <2>2
<1> QED BY <1>1, AlwaysCentralInv, PTL

\* Run returns only when every goroutine of an endpoint and every submodule
\* has ended (controller.go:1317-1318).
THEOREM RunReturnsLast == Spec => []DoneMeansAllEnded
<1>1. CentralInv => DoneMeansAllEnded
  <2> SUFFICES ASSUME CentralInv, status = "done"
               PROVE  running = {} /\ \A s \in Submodule : active[s] = "ended"
    BY DEF DoneMeansAllEnded
  <2>1. /\ IsFiniteSet(Recorded) /\ Cardinality(Recorded) \in Nat
        /\ IsFiniteSet(submodules) /\ Cardinality(submodules) \in Nat
    BY RecordedType, FiniteEndpoints DEF CentralInv, Typed
  <2>2. Cardinality(submodules) + Cardinality(Recorded) <= 0
    BY DEF CentralInv, Records, GoroutinesCounted
  <2>3. Cardinality(submodules) = 0 /\ Cardinality(Recorded) = 0
    BY <2>1, <2>2
  <2>4. submodules = {} /\ Recorded = {}
    BY <2>1, <2>3, FS_EmptySet
  <2> QED BY <2>4 DEF CentralInv, Records
<1> QED BY <1>1, AlwaysCentralInv, PTL

\* What a step may forget an outgoing peer for.
LEMMA WhoForgets ==
    ASSUME Typed, Places, [Next]_vars, NEW p \in AllOutgoing, p \notin AllOutgoing'
    PROVE  /\ UNCHANGED <<running, isStopping>>
           /\ isStopping \/ p \in DOMAIN awaitingRemovalViewList \/ Msg.type = "PeerRemove"
<1>1. CASE UNCHANGED lists
  BY <1>1 DEF AllOutgoing, lists
<1>2. CASE PeerAddHandler
  BY <1>2 DEF PeerAddHandler, AllOutgoing, With, Without, lists
<1>3. CASE PeerRemoveHandler
  <2>1. UNCHANGED <<running, isStopping>> /\ Msg.type = "PeerRemove"
    BY <1>3 DEF PeerRemoveHandler, PeerRemoveListed, PeerRemoveMarked, CloseAll, endpoints,
                Receive, Msg
  <2> QED BY <2>1
<1>4. CASE ProbePeerRequestHandler \/ CentralProbePeerReplyHandler \/ CloseHandler
  <2>1. UNCHANGED lists
    BY <1>4 DEF ProbePeerRequestHandler, CentralProbePeerReplyHandler, CloseHandler
  <2> QED BY <1>1, <2>1
<1>5. CASE OutgoingP2PCreatedHandler
  BY <1>5 DEF OutgoingP2PCreatedHandler, AllOutgoing, With
<1>6. CASE OutgoingPeerClosed
  <2> DEFINE q == Msg.endp
             info == Stopped(RecordOf(q), Msg.half, Msg.err)
  <2>1. UNCHANGED lists \/ Replaced(q, info) \/ Erased(q, info)
    BY <1>6, OutgoingClosedSteps
  <2>2. UNCHANGED <<running, isStopping>>
    BY <1>6 DEF OutgoingPeerClosed, OutgoingPeerCompletelyClosed, OutgoingHalfClosed, CloseAll,
                endpoints
  <2> HIDE DEF q, info
  <2>3. CASE Replaced(q, info)
    BY <2>3 DEF Replaced, With, AllOutgoing
  <2>4. CASE Erased(q, info)
    <3>1. p = q
      BY <2>4 DEF Erased, Without, AllOutgoing
    <3> QED BY <2>2, <2>4, <3>1 DEF Erased
  <2> QED BY <1>1, <2>1, <2>3, <2>4
<1>7. CASE RandomPeerListRequestHandler
  <2>1. DOMAIN viewList' = DOMAIN viewList /\ UNCHANGED awaitingRemovalViewList
    BY <1>7 DEF RandomPeerListRequestHandler
  <2> QED BY <2>1 DEF AllOutgoing
<1>8. CASE \E peers \in SUBSET Peer : RandomPeerListReleaseHandler(peers)
  <2>1. DOMAIN viewList' = DOMAIN viewList /\ UNCHANGED <<running, isStopping>>
    BY <1>8 DEF RandomPeerListReleaseHandler, CloseAll
  <2> QED BY <2>1 DEF AllOutgoing
<1>9. CASE \E peer \in Peer : GossiperForgets(peer)
  BY <1>1, <1>9 DEF GossiperForgets, central
<1>10. Crashing \subseteq Submodule
  BY SubmoduleAssumption
<1> QED
  BY <1>1, <1>2, <1>3, <1>4, <1>5, <1>6, <1>7, <1>8, <1>9, <1>10, OthersPlaces DEF Next, Handler

\* No step forgets an outgoing peer unless its goroutines have ended and have
\* been accounted for and, but for a shutdown, no loan of it is out and its
\* removal was ordered (controller.go:90-98).
THEOREM PeersForgottenByTheRule == Spec => ForgottenByTheRule
<1>1. ASSUME CentralInv, CentralInv', [Next]_vars, NEW p \in AllOutgoing \ AllOutgoing'
      PROVE  /\ \A half \in Half : <<p, half>> \notin running /\ Endings(p, half)' = {}
             /\ isStopping \/ (loans'[p] = 0 /\ (p \in DOMAIN awaitingRemovalViewList
                                                 \/ Msg.type = "PeerRemove"))
  <2>1. /\ UNCHANGED <<running, isStopping>>
        /\ isStopping \/ p \in DOMAIN awaitingRemovalViewList \/ Msg.type = "PeerRemove"
    BY <1>1, WhoForgets DEF CentralInv
  <2>2. p \in Peer /\ p \in Endpoint
    BY <1>1, KindsInEndpoint DEF CentralInv, Typed, IsMap, AllOutgoing
  <2>3. isStopping' \/ loans'[p] = 0
    BY <1>1, <2>2 DEF CentralInv, Places, LoansAccounted
  <2>4. p \notin DOMAIN incomingViewList' /\ p \notin DOMAIN apiClients'
    BY <1>1, <2>2, EndpointAssumption DEF CentralInv, Typed, IsMap
  <2>5. ASSUME NEW h \in Half PROVE <<p, h>> \notin running /\ Endings(p, h)' = {}
    <3>1. <<p, h>> \notin Recorded'
      BY <1>1, <2>4, HalvesAt DEF Recorded, AllOutgoing
    <3>2. <<p, h>> \notin running' /\ <<p, h>> \notin PendingIn(inbox')
      BY <1>1, <3>1 DEF CentralInv, Records
    <3>3. Endings(p, h)' = {}
      BY <2>2, <3>2 DEF PendingIn, Endings
    <3> QED BY <2>1, <3>2, <3>3
  <2> QED BY <2>1, <2>3, <2>5
<1>2. CentralInv /\ CentralInv' /\ [Next]_vars =>
        [\A p \in AllOutgoing \ AllOutgoing' :
            /\ \A half \in Half : <<p, half>> \notin running /\ Endings(p, half)' = {}
            /\ isStopping \/ (loans'[p] = 0 /\ (p \in DOMAIN awaitingRemovalViewList
                                                \/ Msg.type = "PeerRemove"))]_vars
  BY <1>1
<1> QED
  BY <1>2, AlwaysCentralInv, PTL DEF Spec, ForgottenByTheRule
=============================================================================
