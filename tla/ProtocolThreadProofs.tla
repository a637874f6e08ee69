------------------------ MODULE ProtocolThreadProofs ------------------------
(* Proofs about ProtocolThread.  The types of the queue, the slots and the    *)
(* frames carry three arguments: that a SendData the thread still waits for   *)
(* is in one place only (the throttle), that a stashed inclusion is one of    *)
(* this connection, and that the frames on the line complete the registry.    *)
EXTENDS ProtocolThread, TLAPS

-----------------------------------------------------------------------------
(* Types. *)

Statuses == {"ok", "started", "busy", "notFound", "accepted", "rejected", "received",
             "removed", "notRemoved", "nodeOk", None}
PlainFrame == [kind : {"Ack", "SendDataCallback", "RemoveFailedResponse",
                       "RemoveFailedCallback", "NodeInfoResponse", "ApplicationUpdate"},
               id : Nat, node : Nodes \cup {None}, status : Statuses]
NodeFrame == [kind : {"AddNode", "RemoveNode"}, id : Nat, node : Nodes \cup {None},
              status : {"ongoing", "protocolDone", "completed", "failed", "notPrimary"},
              info : BOOLEAN]
Frame == PlainFrame \cup NodeFrame
Mode == [op : {"add", "remove"}, id : Nat, node : Nodes \cup {None}, joined : BOOLEAN]

HostType ==
    /\ queue \in Seq(Commands) /\ path \in BOOLEAN
    /\ activeFailedNodeRemoval \in Commands \cup {None}
    /\ activeFailedNodeRemoval # None => activeFailedNodeRemoval.op = "failed"
    /\ activeRequestNodeInfo \in Commands \cup {None}
    /\ pendingInclusion \in Nodes \cup {None}
    /\ tracker = None \/ tracker.active
    /\ pendingSendData \in Nat \cup {None}

LoopType ==
    /\ pc \in Serving \cup {"await", "introspect", "connected"}
    /\ pc \in {"send", "throttle", "delay"} => cur \in Commands
    /\ pendingSendData = None \/ pc = "throttle"
    /\ port \in {"closed", "live", "dead"} /\ (port = "closed") = (pc = "await")

RegistryType ==
    /\ registry \subseteq Nodes \cup {Controller} /\ bound \in BOOLEAN /\ (bound \/ registry = {})
    /\ found \subseteq Nodes /\ seeded \in BOOLEAN /\ faults \in Nat

DongleType ==
    /\ net \subseteq Nodes /\ line \in Seq(Frame)
    /\ wire \in Commands \cup {None} /\ removing \in Commands \cup {None}
    /\ removing # None => removing.op = "failed"
    /\ mode \in Mode \cup {None}
    /\ routing = {} \/ \E id \in Nat : routing = {id}

TypeInv == HostType /\ LoopType /\ RegistryType /\ DongleType

-----------------------------------------------------------------------------
(* The throttle. *)

\* The thread still waits for the answer to a SendData with this id.
Awaited(id) ==
    \/ pc = "send" /\ IsSendData(cur) /\ cur.id = id
    \/ pc = "throttle" /\ pendingSendData = id

OnWire(id) == wire # None /\ IsSendData(wire) /\ wire.id = id
Completes(f, id) == f.kind = "SendDataCallback" /\ f.id = id
NoneLeft(l, id) == \A i \in DOMAIN l : ~Completes(l[i], id)
OneLeft(l, id) == \A i, j \in DOMAIN l : Completes(l[i], id) /\ Completes(l[j], id) => i = j

\* A SendData that was not given up is on its way, being routed or answered,
\* one of the three, and only while the thread waits for it.
Gate(id) ==
    /\ OneLeft(line, id)
    /\ OnWire(id) => id \notin routing /\ NoneLeft(line, id)
    /\ id \in routing => NoneLeft(line, id)
    /\ ~Awaited(id) => ~OnWire(id) /\ id \notin routing /\ NoneLeft(line, id)

GateInv == \A id \in Nat \ waived : Gate(id)

-----------------------------------------------------------------------------
(* Inclusions. *)

\* The stashed node was found over this connection.
StashInv == pendingInclusion \in found \cup {None} /\ IncludedInItsSession

-----------------------------------------------------------------------------
(* The registry. *)

Adds(f, n) == f.kind = "AddNode" /\ f.info /\ f.node = n

\* The callback of a removal does not name its node: the slot does.
Drops(slot, f, n) ==
    \/ f.kind = "RemoveNode" /\ Excludes(f) /\ f.node = n
    \/ /\ f.kind = "RemoveFailedCallback" /\ f.status = "removed"
       /\ slot # None /\ n \in slot.nodes

\* Once the frames of l are handled the registry lists the node.
Lists(slot, listed, l, n) ==
    \/ n \in listed /\ \A j \in DOMAIN l : ~Drops(slot, l[j], n)
    \/ \E i \in DOMAIN l : /\ Adds(l[i], n)
                          /\ \A j \in DOMAIN l : j > i => ~Drops(slot, l[j], n)

Covered(n) == Lists(activeFailedNodeRemoval, registry, line, n)
Joining(n) == mode # None /\ mode.op = "add" /\ mode.node = n /\ ~mode.joined
Seen == seeded /\ faults = 0 /\ port = "live" /\ pc \in Serving \cup {"connected"}

\* While no port is open, or the dongle is introspected, it does nothing.
RestInv ==
    /\ port = "live" => path
    /\ port # "live" \/ pc = "introspect" => mode = None /\ (wire = None \/ pc = "send")

\* A removal in progress is the one in the slot, if there is one in it; the
\* dongle removes no node that joins, and a node it has excluded is gone.
RemovalInv ==
    /\ wire # None /\ wire.op = "failed" => activeFailedNodeRemoval \in {None, wire}
    /\ removing # None => activeFailedNodeRemoval \in {None, removing}
    /\ removing # None => \A n \in removing.nodes : ~Joining(n)
    /\ mode # None /\ mode.op = "remove" /\ mode.joined => mode.node \notin net
    /\ \A n \in net : ~Joining(n)

\* The registry and the frames on the line account for the whole network.
CoverInv ==
    Seen => bound /\ \A n \in Nodes : n \in net \/ Joining(n) => Covered(n)

\* ProtocolThread.cpp:126: "Only one removal is in flight at a time".
RemovalsSerialized ==
    pc = "pop" /\ pc' = "send" /\ cur'.op = "failed" =>
        removing = None /\ \A i \in DOMAIN line : line[i].kind # "RemoveFailedCallback"

-----------------------------------------------------------------------------
(* Sequences: what is read off the line and what is put on it. *)

\* Reading a frame off the line.
LEMMA Rest ==
  ASSUME NEW S, NEW s \in Seq(S), s # <<>>
  PROVE  /\ Len(s) \in Nat \ {0} /\ 1 \in DOMAIN s /\ Head(s) = s[1] /\ Head(s) \in S
         /\ Tail(s) \in Seq(S) /\ Len(Tail(s)) = Len(s) - 1
         /\ \A i \in DOMAIN Tail(s) : i + 1 \in DOMAIN s /\ Tail(s)[i] = s[i + 1]
  OBVIOUS

\* An empty line has no frames.
LEMMA NoIndex == DOMAIN <<>> = {}
  OBVIOUS

\* A step that publishes one event, of another kind, announces no inclusion.
LEMMA OtherKind ==
  ASSUME NEW k, NEW i, NEW n, NEW s, k # "NodeIncluded", bus' = {Msg(k, i, n, s)}
  PROVE  \A e \in bus' : e.kind # "NodeIncluded"
  BY DEF Msg

\* A completion callback of one SendData completes no other.
LEMMA CallbackOf ==
  ASSUME NEW F, NEW x, NEW id, x # id, F = {Msg("SendDataCallback", x, None, "ok")}
  PROVE  \A f \in F : ~Completes(f, id)
  BY DEF Msg, Completes

\* A fault of the link is counted.
LEMMA FaultCounted ==
  ASSUME faults \in Nat, LinkFault
  PROVE  faults' \in Nat
  BY DEF LinkFault

\* Putting frames on the line leaves the earlier ones where they are.
LEMMA Joined2 ==
  ASSUME NEW S, NEW s \in Seq(S), NEW t \in Seq(S)
  PROVE  /\ s \o t \in Seq(S) /\ Len(s \o t) = Len(s) + Len(t)
         /\ \A i \in DOMAIN s : i \in DOMAIN (s \o t) /\ (s \o t)[i] = s[i]
         /\ \A i \in DOMAIN (s \o t) :
              i \notin DOMAIN s => i > Len(s) /\ i - Len(s) \in DOMAIN t /\ (s \o t)[i] = t[i - Len(s)]
  OBVIOUS

\* One frame more.
LEMMA OneMore ==
  ASSUME NEW S, NEW s \in Seq(S), NEW e \in S
  PROVE  /\ Append(s, e) \in Seq(S) /\ Len(Append(s, e)) = Len(s) + 1
         /\ \A i \in DOMAIN s : i \in DOMAIN Append(s, e) /\ Append(s, e)[i] = s[i]
         /\ \A i \in DOMAIN Append(s, e) :
              i \notin DOMAIN s => i > Len(s) /\ Append(s, e)[i] = e
  OBVIOUS

\* Two frames.
LEMMA Pair ==
  ASSUME NEW S, NEW a \in S, NEW b \in S
  PROVE  /\ <<a, b>> \in Seq(S)
         /\ \A i \in DOMAIN <<a, b>> : <<a, b>>[i] \in {a, b}
  OBVIOUS

\* No frame or one.
LEMMA AtMostOne ==
  ASSUME NEW S, NEW e \in S, NEW k \in {0, 1}
  PROVE  /\ [i \in 1 .. k |-> e] \in Seq(S) /\ Len([i \in 1 .. k |-> e]) = k
         /\ \A i \in DOMAIN [j \in 1 .. k |-> e] : [j \in 1 .. k |-> e][i] = e
  OBVIOUS

-----------------------------------------------------------------------------
(* Type correctness. *)

\* The publishers' handlers keep the types.
LEMMA PublisherTypes ==
  ASSUME TypeInv, (\E c \in Commands : Submit(c)) \/ Plug \/ Unplug
  PROVE  TypeInv'
<1> USE ConstantsAssumption
<1>1. CASE \E c \in Commands : Submit(c)
  <2>1. PICK c \in Commands : Submit(c)
    BY <1>1
  <2>2. queue' = queue \/ queue' = Append(queue, c)
    BY <2>1 DEF Submit, onControllerCommand, onNodeMessage, onSendDataMulticast, pushSendData, pushRequest
  <2>3. HostType'
    BY <2>1, <2>2 DEF TypeInv, HostType, Submit, slotVars, sessionVars
  <2>4. LoopType'
    BY <2>1 DEF TypeInv, LoopType, Submit, threadVars, sessionVars
  <2>5. RegistryType'
    BY <2>1 DEF TypeInv, RegistryType, Submit, registryVars, historyVars
  <2>6. DongleType'
    BY <2>1 DEF TypeInv, DongleType, Submit, dongleVars
  <2> QED
    BY <2>3, <2>4, <2>5, <2>6 DEF TypeInv
<1>2. CASE Plug
  <2>3. HostType'
    BY <1>2 DEF TypeInv, HostType, Plug, onDongleStatus, slotVars, sessionVars
  <2>4. LoopType'
    BY <1>2 DEF TypeInv, LoopType, Plug, threadVars, sessionVars
  <2>5. RegistryType'
    BY <1>2 DEF TypeInv, RegistryType, Plug, registryVars, historyVars
  <2>6. DongleType'
    BY <1>2 DEF TypeInv, DongleType, Plug, dongleVars
  <2> QED
    BY <2>3, <2>4, <2>5, <2>6 DEF TypeInv
<1>3. CASE Unplug
  <2>3. HostType'
    BY <1>3, Zenon DEF TypeInv, HostType, Unplug, onDongleStatus, slotVars, sessionVars
  <2>4. LoopType'
    BY <1>3 DEF TypeInv, LoopType, Unplug, sessionVars
  <2>5. RegistryType'
    BY <1>3 DEF TypeInv, RegistryType, Unplug, registryVars
  <2>6. DongleType'
    BY <1>3 DEF TypeInv, DongleType, Unplug
  <2> QED
    BY <2>3, <2>4, <2>5, <2>6 DEF TypeInv
<1> QED
  BY <1>1, <1>2, <1>3

\* The steps of the loop between requests keep the types.
LEMMA LoopTypes ==
  ASSUME TypeInv,
         \/ OpenFails \/ Open \/ EnterSession \/ CheckPath
         \/ Idle \/ ThrottleEnd \/ ThrottleTimeout \/ DelayEnd
  PROVE  TypeInv'
<1> USE ConstantsAssumption
<1>1. CASE OpenFails
  <2>1. HostType'
    BY <1>1 DEF TypeInv, HostType, OpenFails, slotVars, sessionVars
  <2>2. LoopType'
    BY <1>1 DEF TypeInv, LoopType, OpenFails, threadVars, sessionVars, Serving
  <2>3. RegistryType'
    BY <1>1 DEF TypeInv, RegistryType, OpenFails, registryVars, historyVars, LinkFault
  <2>4. DongleType'
    BY <1>1 DEF TypeInv, DongleType, OpenFails, dongleVars
  <2> QED
    BY <2>1, <2>2, <2>3, <2>4 DEF TypeInv
<1>2. CASE Open
  <2>1. HostType'
    BY <1>2 DEF TypeInv, HostType, Open, slotVars, sessionVars
  <2>2. LoopType'
    BY <1>2 DEF TypeInv, LoopType, Open, threadVars, sessionVars, Serving
  <2>3. RegistryType'
    BY <1>2 DEF TypeInv, RegistryType, Open, registryVars, historyVars
  <2>4. DongleType'
    BY <1>2 DEF TypeInv, DongleType, Open, dongleVars
  <2> QED
    BY <2>1, <2>2, <2>3, <2>4 DEF TypeInv
<1>3. CASE EnterSession
  <2>1. HostType'
    BY <1>3 DEF TypeInv, HostType, EnterSession, slotVars, sessionVars
  <2>2. LoopType'
    BY <1>3 DEF TypeInv, LoopType, EnterSession, threadVars, sessionVars, Serving
  <2>3. RegistryType'
    BY <1>3 DEF TypeInv, RegistryType, EnterSession, registryVars, historyVars
  <2>4. DongleType'
    BY <1>3 DEF TypeInv, DongleType, EnterSession, dongleVars
  <2> QED
    BY <2>1, <2>2, <2>3, <2>4 DEF TypeInv
<1>4. CASE CheckPath
  <2>1. HostType'
    BY <1>4 DEF TypeInv, HostType, CheckPath, slotVars, sessionVars
  <2>2. LoopType'
    BY <1>4 DEF TypeInv, LoopType, CheckPath, threadVars, sessionVars, Serving
  <2>3. RegistryType'
    BY <1>4 DEF TypeInv, RegistryType, CheckPath, registryVars, historyVars
  <2>4. DongleType'
    BY <1>4 DEF TypeInv, DongleType, CheckPath, dongleVars
  <2> QED
    BY <2>1, <2>2, <2>3, <2>4 DEF TypeInv
<1>5. CASE Idle
  <2>1. HostType'
    BY <1>5 DEF TypeInv, HostType, Idle, slotVars, sessionVars
  <2>2. LoopType'
    BY <1>5 DEF TypeInv, LoopType, Idle, threadVars, sessionVars, Serving
  <2>3. RegistryType'
    BY <1>5 DEF TypeInv, RegistryType, Idle, registryVars, historyVars
  <2>4. DongleType'
    BY <1>5 DEF TypeInv, DongleType, Idle, dongleVars
  <2> QED
    BY <2>1, <2>2, <2>3, <2>4 DEF TypeInv
<1>6. CASE ThrottleEnd
  <2>1. HostType'
    BY <1>6 DEF TypeInv, HostType, ThrottleEnd, slotVars, sessionVars
  <2>2. LoopType'
    BY <1>6 DEF TypeInv, LoopType, ThrottleEnd, threadVars, sessionVars, Serving
  <2>3. RegistryType'
    BY <1>6 DEF TypeInv, RegistryType, ThrottleEnd, registryVars, historyVars
  <2>4. DongleType'
    BY <1>6 DEF TypeInv, DongleType, ThrottleEnd, dongleVars
  <2> QED
    BY <2>1, <2>2, <2>3, <2>4 DEF TypeInv
<1>7. CASE ThrottleTimeout
  <2>1. HostType'
    BY <1>7 DEF TypeInv, HostType, ThrottleTimeout, slotVars, sessionVars
  <2>2. LoopType'
    BY <1>7 DEF TypeInv, LoopType, ThrottleTimeout, threadVars, sessionVars, Serving
  <2>3. RegistryType'
    BY <1>7 DEF TypeInv, RegistryType, ThrottleTimeout, registryVars, historyVars
  <2>4. DongleType'
    BY <1>7 DEF TypeInv, DongleType, ThrottleTimeout, dongleVars
  <2> QED
    BY <2>1, <2>2, <2>3, <2>4 DEF TypeInv
<1>8. CASE DelayEnd
  <2>1. HostType'
    BY <1>8 DEF TypeInv, HostType, DelayEnd, slotVars, sessionVars
  <2>2. LoopType'
    BY <1>8 DEF TypeInv, LoopType, DelayEnd, threadVars, sessionVars, Serving
  <2>3. RegistryType'
    BY <1>8 DEF TypeInv, RegistryType, DelayEnd, registryVars, historyVars
  <2>4. DongleType'
    BY <1>8 DEF TypeInv, DongleType, DelayEnd, dongleVars
  <2> QED
    BY <2>1, <2>2, <2>3, <2>4 DEF TypeInv
<1> QED
  BY <1>1, <1>2, <1>3, <1>4, <1>5, <1>6, <1>7, <1>8

\* Introspection, the hand-over of a request and the end of a send keep the types.
LEMMA SendTypes ==
  ASSUME TypeInv, (\E r \in {"none", "info", "init"} : Introspect(r)) \/ Pop \/ SendOk \/ SendFail
  PROVE  TypeInv'
<1> USE ConstantsAssumption
<1>1. CASE \E r \in {"none", "info", "init"} : Introspect(r)
  <2>1. PICK r \in {"none", "info", "init"} : Introspect(r)
    BY <1>1
  <2>2. HostType'
    BY <2>1 DEF TypeInv, HostType, Introspect, slotVars, sessionVars
  <2>3. LoopType'
    BY <2>1 DEF TypeInv, LoopType, Introspect, threadVars, sessionVars, Serving
  <2>4. RegistryType'
    <3>1. bound' = (bound \/ r # "none") /\ seeded' = (r = "init") /\ found' = found
      BY <2>1, Zenon DEF Introspect
    <3>2. registry' = registry \/ (r = "init" /\ registry' = registry \cup net \cup {Controller})
      BY <2>1, Zenon DEF Introspect
    <3>3. faults' \in Nat
      BY <2>1 DEF TypeInv, RegistryType, Introspect, LinkFault
    <3>4. registry' \subseteq Nodes \cup {Controller}
      BY <3>2 DEF TypeInv, RegistryType, DongleType
    <3>5. bound' \in BOOLEAN /\ (bound' \/ registry' = {})
      BY <3>1, <3>2, Zenon DEF TypeInv, RegistryType
    <3> QED
      BY <3>1, <3>3, <3>4, <3>5 DEF TypeInv, RegistryType
  <2>5. DongleType'
    BY <2>1 DEF TypeInv, DongleType, Introspect, dongleVars
  <2> QED
    BY <2>2, <2>3, <2>4, <2>5 DEF TypeInv
<1>2. CASE Pop
  <2>1. Head(queue) \in Commands /\ Tail(queue) \in Seq(Commands)
    BY <1>2, Rest, Zenon DEF TypeInv, HostType, Pop
  <2>2. HostType'
    <3>1. /\ queue' = Tail(queue) /\ path' = path /\ pendingInclusion' = pendingInclusion
          /\ pendingSendData' = pendingSendData
      BY <1>2, Zenon DEF Pop
    <3>2. /\ activeFailedNodeRemoval' =
                IF Head(queue).op = "failed" THEN Head(queue) ELSE activeFailedNodeRemoval
          /\ activeRequestNodeInfo' \in {Head(queue), activeRequestNodeInfo}
      BY <1>2, Zenon DEF Pop
    <3>3. tracker' = tracker \/ tracker'.active
      <4>1. tracker' = tracker \/ tracker' = SessionStatus(SessionCommand(Head(queue)), Head(queue).id)
        BY <1>2, Zenon DEF Pop
      <4> QED
        BY <4>1 DEF SessionStatus
    <3>4. HostType
      BY Zenon DEF TypeInv
    <3>5. /\ activeFailedNodeRemoval' \in Commands \cup {None}
          /\ activeFailedNodeRemoval' # None => activeFailedNodeRemoval'.op = "failed"
      BY <2>1, <3>2, <3>4, Zenon DEF HostType
    <3>6. activeRequestNodeInfo' \in Commands \cup {None} /\ (tracker' = None \/ tracker'.active)
      BY <2>1, <3>2, <3>3, <3>4, Zenon DEF HostType
    <3> QED
      BY <2>1, <3>1, <3>4, <3>5, <3>6, Zenon DEF HostType
  <2>3. LoopType'
    BY <1>2, <2>1 DEF TypeInv, LoopType, Pop, Serving
  <2>4. RegistryType'
    BY <1>2 DEF TypeInv, RegistryType, Pop, registryVars, historyVars
  <2>5. DongleType'
    BY <1>2, <2>1 DEF TypeInv, DongleType, Pop
  <2> QED
    BY <2>2, <2>3, <2>4, <2>5 DEF TypeInv
<1>3. CASE SendOk
  <2>1. cur \in Commands /\ cur.id \in Nat
    BY <1>3 DEF TypeInv, LoopType, SendOk, Command
  <2>2. HostType'
    BY <1>3, <2>1 DEF TypeInv, HostType, SendOk, slotVars
  <2>3. LoopType'
    BY <1>3, <2>1 DEF TypeInv, LoopType, SendOk, Serving
  <2>4. RegistryType'
    BY <1>3 DEF TypeInv, RegistryType, SendOk, registryVars
  <2>5. DongleType'
    <3>1. Tail(line) \in Seq(Frame)
      BY <1>3, Rest DEF TypeInv, DongleType, SendOk
    <3> QED
      BY <1>3, <3>1 DEF TypeInv, DongleType, SendOk, dongleVars
  <2> QED
    BY <2>2, <2>3, <2>4, <2>5 DEF TypeInv
<1>4. CASE SendFail
  <2>2. HostType'
    BY <1>4 DEF TypeInv, HostType, SendFail, sessionVars
  <2>3. LoopType'
    BY <1>4 DEF TypeInv, LoopType, SendFail, sessionVars, Serving
  <2>4. RegistryType'
    <3>1. UNCHANGED <<registry, bound, found, seeded>> /\ (UNCHANGED faults \/ LinkFault)
      BY <1>4, Zenon DEF SendFail, registryVars
    <3> QED
      BY <3>1, FaultCounted, Zenon DEF TypeInv, RegistryType
  <2>5. DongleType'
    BY <1>4, Zenon DEF TypeInv, DongleType, SendFail
  <2> QED
    BY <2>2, <2>3, <2>4, <2>5 DEF TypeInv
<1> QED
  BY <1>1, <1>2, <1>3, <1>4

\* What a frame carries.
LEMMA Carried ==
  ASSUME NEW f \in Frame
  PROVE  /\ f.id \in Nat /\ f.node \in Nodes \cup {None}
         /\ f.kind \in {"AddNode", "RemoveNode"} => f.info \in BOOLEAN
         /\ f.kind \in {"Ack", "SendDataCallback", "RemoveFailedResponse", "RemoveFailedCallback",
                        "NodeInfoResponse", "ApplicationUpdate", "AddNode", "RemoveNode"}
  BY DEF Frame, PlainFrame, NodeFrame

\* The node of a command that names one.
LEMMA Named ==
  ASSUME NEW c \in Commands, c.op \in {"failed", "info", "send"}
  PROVE  TheNode(c) \in Nodes /\ c.nodes = {TheNode(c)}
<1>1. PICK n \in Nodes : c.nodes = {n}
  BY ConstantsAssumption
<1>2. TheNode(c) = n
  BY <1>1 DEF TheNode
<1> QED
  BY <1>1, <1>2

\* Handling a frame keeps the types.
LEMMA HandleTypes ==
  ASSUME TypeInv, HandleFrame
  PROVE  TypeInv'
<1> USE ConstantsAssumption
<1> DEFINE f == Head(line)
<1>1. line \in Seq(Frame) /\ line # <<>>
  BY Zenon DEF TypeInv, DongleType, HandleFrame
<1>2. f \in Frame /\ Tail(line) \in Seq(Frame)
  BY <1>1, Rest
<1>3. handleIncomingFrame(f) /\ ClearGate(f)
  BY Zenon DEF HandleFrame
<1>4. f.node \in Nodes \cup {None} /\ (f.kind \in {"AddNode", "RemoveNode"} => f.info \in BOOLEAN)
  BY <1>2, Carried
<1> HIDE DEF f
<1>5. /\ activeFailedNodeRemoval' \in {activeFailedNodeRemoval, None}
      /\ activeRequestNodeInfo' \in {activeRequestNodeInfo, None}
      /\ tracker' \in {tracker, None}
  BY <1>3, Zenon DEF handleIncomingFrame, HandleSendDataCallback, HandleRemoveFailedResponse,
              HandleRemoveFailedCallback, HandleRequestNodeInfoResponse, HandleApplicationUpdate,
              HandleAddNodeCallback, HandleRemoveNodeCallback, HandleLinkByte, EndSession, slotVars
<1>6. pendingInclusion' \in {pendingInclusion, None} \/ (f.kind = "AddNode" /\ f.info /\ f.node # None /\ pendingInclusion' = f.node)
  BY <1>3, Zenon DEF handleIncomingFrame, HandleSendDataCallback, HandleRemoveFailedResponse,
              HandleRemoveFailedCallback, HandleRequestNodeInfoResponse, HandleApplicationUpdate,
              HandleAddNodeCallback, HandleRemoveNodeCallback, HandleLinkByte, EndSession, slotVars
<1>7. registry' \subseteq registry \/ (bound /\ f.node # None /\ registry' = registry \cup {f.node})
  BY <1>3, Zenon DEF handleIncomingFrame, HandleSendDataCallback, HandleRemoveFailedResponse,
              HandleRemoveFailedCallback, HandleRequestNodeInfoResponse, HandleApplicationUpdate,
              HandleAddNodeCallback, HandleRemoveNodeCallback, HandleLinkByte, RegistryAdd, RegistryRemove
<1>8. pendingSendData' \in {pendingSendData, None}
  BY <1>3 DEF ClearGate
<1>9. HostType'
  BY <1>4, <1>5, <1>6, <1>8 DEF TypeInv, HostType, HandleFrame
<1>10. LoopType'
  BY <1>8 DEF TypeInv, LoopType, HandleFrame, Serving
<1>11. RegistryType'
  BY <1>4, <1>7 DEF TypeInv, RegistryType, HandleFrame
<1>12. DongleType'
  BY <1>2 DEF TypeInv, DongleType, HandleFrame, dongleVars
<1> QED
  BY <1>9, <1>10, <1>11, <1>12 DEF TypeInv

-----------------------------------------------------------------------------
(* What the dongle puts on the line. *)

\* m is l with frames of F behind it.
GrownTo(l, m, F) ==
    /\ m \in Seq(Frame) /\ Len(m) >= Len(l)
    /\ \A i \in DOMAIN l : i \in DOMAIN m /\ m[i] = l[i]
    /\ \A i \in DOMAIN m : i \notin DOMAIN l => i > Len(l) /\ m[i] \in F

\* What answers a request: none of it is a completion or names a node of the
\* network as included or excluded.
Answers == {f \in Frame : \/ f.kind \in {"Ack", "RemoveFailedResponse", "NodeInfoResponse",
                                         "ApplicationUpdate"}
                          \/ f.kind \in {"AddNode", "RemoveNode"} /\ f.node = None}

\* Several frames at once.
LEMMA Grows ==
  ASSUME NEW l \in Seq(Frame), NEW a \in Seq(Frame), NEW F, \A i \in DOMAIN a : a[i] \in F
  PROVE  GrownTo(l, l \o a, F)
<1>1. /\ l \o a \in Seq(Frame) /\ Len(l \o a) = Len(l) + Len(a)
      /\ \A i \in DOMAIN l : i \in DOMAIN (l \o a) /\ (l \o a)[i] = l[i]
      /\ \A i \in DOMAIN (l \o a) :
           i \notin DOMAIN l => i > Len(l) /\ i - Len(l) \in DOMAIN a /\ (l \o a)[i] = a[i - Len(l)]
  BY Joined2
<1>2. Len(l \o a) >= Len(l)
  BY <1>1
<1> QED
  BY <1>1, <1>2, Zenon DEF GrownTo

\* One frame.
LEMMA GrowsByOne ==
  ASSUME NEW l \in Seq(Frame), NEW f \in Frame, NEW F, f \in F
  PROVE  GrownTo(l, Append(l, f), F) /\ Len(Append(l, f)) = Len(l) + 1
<1>1. /\ Append(l, f) \in Seq(Frame) /\ Len(Append(l, f)) = Len(l) + 1
      /\ \A i \in DOMAIN l : i \in DOMAIN Append(l, f) /\ Append(l, f)[i] = l[i]
      /\ \A i \in DOMAIN Append(l, f) :
           i \notin DOMAIN l => i > Len(l) /\ Append(l, f)[i] = f
  BY OneMore
<1>2. Len(Append(l, f)) >= Len(l)
  BY <1>1
<1> QED
  BY <1>1, <1>2, Zenon DEF GrownTo

\* One after the other.
LEMMA GrowsTwice ==
  ASSUME NEW l \in Seq(Frame), NEW m \in Seq(Frame), NEW p, NEW F,
         GrownTo(l, m, F), GrownTo(m, p, F)
  PROVE  GrownTo(l, p, F)
<1>1. p \in Seq(Frame) /\ Len(p) >= Len(l)
  BY DEF GrownTo
<1>2. ASSUME NEW i \in DOMAIN l
      PROVE  i \in DOMAIN p /\ p[i] = l[i]
  BY <1>2, Zenon DEF GrownTo
<1>3. ASSUME NEW i \in DOMAIN p, i \notin DOMAIN l
      PROVE  i > Len(l) /\ p[i] \in F
  <2>1. CASE i \in DOMAIN m
    BY <1>3, <2>1, Zenon DEF GrownTo
  <2>2. CASE i \notin DOMAIN m
    <3>1. i > Len(m) /\ p[i] \in F
      BY <1>3, <2>2, Zenon DEF GrownTo
    <3>2. Len(m) >= Len(l) /\ i \in Nat
      BY <1>1 DEF GrownTo
    <3> QED
      BY <3>1, <3>2
  <2> QED
    BY <2>1, <2>2
<1> QED
  BY <1>1, <1>2, <1>3, Zenon DEF GrownTo

\* The frames that answer a request.
LEMMA AnswerFrames ==
  /\ Ack \in Answers
  /\ \A s \in {"started", "busy", "notFound"} : Msg("RemoveFailedResponse", 0, None, s) \in Answers
  /\ \A s \in {"accepted", "rejected"} : Msg("NodeInfoResponse", 0, None, s) \in Answers
  /\ \A n \in Nodes : Msg("ApplicationUpdate", 0, n, "received") \in Answers
  /\ \A k \in {"AddNode", "RemoveNode"}, id \in Nat :
       NodeCallback(k, id, None, "completed", FALSE) \in Answers
  BY DEF Ack, Msg, NodeCallback, Answers, Frame, PlainFrame, NodeFrame, Statuses

\* What becomes of a request when the dongle receives it.
Received ==
    /\ GrownTo(line, line', Answers) /\ wire' = None /\ net' = net
    /\ \/ routing' = routing
       \/ IsSendData(wire) /\ routing = {} /\ routing' = {wire.id}
    /\ \/ removing' = removing
       \/ wire.op = "failed" /\ removing' = wire /\ wire.nodes \subseteq net
    /\ \/ mode' \in {mode, None}
       \/ mode' \in Mode /\ mode'.node = None /\ ~mode'.joined

\* The dongle answers every request with frames of Answers.
LEMMA Receiving ==
  ASSUME TypeInv, DongleReceive
  PROVE  Received
<1> USE ConstantsAssumption
<1>1. line \in Seq(Frame) /\ wire \in Commands /\ wire.id \in Nat
  BY DEF TypeInv, DongleType, DongleReceive, Command
<1>2. Answers \subseteq Frame
  BY DEF Answers
<1>3. wire' = None /\ net' = net
  BY DEF DongleReceive
<1>4. CASE AcceptSendData
  <2>1. GrownTo(line, line', Answers)
    BY <1>1, <1>2, <1>4, GrowsByOne, AnswerFrames, Zenon DEF AcceptSendData
  <2> QED
    BY <1>3, <1>4, <2>1 DEF AcceptSendData, Received
<1>5. CASE AcceptRemoveFailed
  <2>1. PICK status \in {"started", "busy", "notFound"} :
          /\ status = "started" => wire.nodes \subseteq net
          /\ line' = line \o <<Ack, Msg("RemoveFailedResponse", 0, None, status)>>
          /\ removing' = IF status = "started" THEN wire ELSE removing
    BY <1>5, Zenon DEF AcceptRemoveFailed
  <2>2. GrownTo(line, line', Answers)
    <3> DEFINE m == Msg("RemoveFailedResponse", 0, None, status)
    <3>1. Ack \in Answers /\ m \in Answers
      BY AnswerFrames
    <3> HIDE DEF m
    <3>2. <<Ack, m>> \in Seq(Frame) /\ \A i \in DOMAIN <<Ack, m>> : <<Ack, m>>[i] \in Answers
      BY <1>2, <3>1, Pair
    <3> QED
      BY <1>1, <2>1, <3>2, Grows, Zenon DEF m
  <2> QED
    BY <1>3, <1>5, <2>1, <2>2, Zenon DEF AcceptRemoveFailed, Received
<1>6. CASE AcceptNodeInfo
  <2>1. PICK status \in {"accepted", "rejected"}, update \in {<<>>, <<"received">>} :
          line' = line \o <<Ack, Msg("NodeInfoResponse", 0, None, status)>>
                       \o [i \in DOMAIN update |-> Msg("ApplicationUpdate", 0, TheNode(wire), update[i])]
    BY <1>6, Zenon DEF AcceptNodeInfo
  <2> DEFINE m == Msg("NodeInfoResponse", 0, None, status)
             u == Msg("ApplicationUpdate", 0, TheNode(wire), "received")
             g == [i \in DOMAIN update |-> Msg("ApplicationUpdate", 0, TheNode(wire), update[i])]
  <2>2. Ack \in Answers /\ m \in Answers /\ u \in Answers
    BY <1>1, <1>6, AnswerFrames, Named DEF AcceptNodeInfo
  <2>3. g \in Seq(Frame) /\ \A i \in DOMAIN g : g[i] \in Answers
    <3>1. \/ DOMAIN update = 1 .. 0
          \/ DOMAIN update = 1 .. 1 /\ \A i \in 1 .. 1 : update[i] = "received"
      OBVIOUS
    <3>2. PICK k \in {0, 1} : g = [i \in 1 .. k |-> u]
      BY <3>1
    <3> HIDE DEF g, u
    <3> QED
      BY <1>2, <2>2, <3>2, AtMostOne
  <2> HIDE DEF m, u, g
  <2>4. <<Ack, m>> \in Seq(Frame) /\ \A i \in DOMAIN <<Ack, m>> : <<Ack, m>>[i] \in Answers
    BY <1>2, <2>2, Pair
  <2> DEFINE mid == line \o <<Ack, m>>
  <2>5. GrownTo(line, mid, Answers) /\ mid \in Seq(Frame)
    BY <1>1, <2>4, Grows DEF GrownTo
  <2>6. line' = mid \o g
    BY <2>1 DEF m, g
  <2> HIDE DEF mid
  <2>7. GrownTo(mid, line', Answers)
    BY <2>3, <2>5, <2>6, Grows
  <2>8. GrownTo(line, line', Answers)
    BY <1>1, <2>5, <2>7, GrowsTwice
  <2> QED
    BY <1>3, <1>6, <2>8, Zenon DEF AcceptNodeInfo, Received
<1>7. CASE AcceptMode
  <2>1. GrownTo(line, line', Answers)
    BY <1>1, <1>2, <1>7, GrowsByOne, AnswerFrames, Zenon DEF AcceptMode
  <2> QED
    BY <1>1, <1>3, <1>7, <2>1, Zenon DEF AcceptMode, Received, Mode
<1>8. CASE AcceptStop
  <2>1. PICK k \in {"AddNode", "RemoveNode"} :
          \/ line' = Append(line, Ack)
          \/ line' = line \o <<Ack, NodeCallback(k, wire.id, None, "completed", FALSE)>>
    BY <1>8, Zenon DEF AcceptStop
  <2>2. GrownTo(line, line', Answers)
    <3> DEFINE m == NodeCallback(k, wire.id, None, "completed", FALSE)
    <3>1. Ack \in Answers /\ m \in Answers
      BY <1>1, AnswerFrames, Zenon
    <3> HIDE DEF m
    <3>2. <<Ack, m>> \in Seq(Frame) /\ \A i \in DOMAIN <<Ack, m>> : <<Ack, m>>[i] \in Answers
      BY <1>2, <3>1, Pair
    <3>3. GrownTo(line, line \o <<Ack, m>>, Answers)
      BY <1>1, <3>2, Grows, Zenon
    <3>4. GrownTo(line, Append(line, Ack), Answers)
      BY <1>1, <1>2, <3>1, GrowsByOne
    <3> QED
      BY <2>1, <3>3, <3>4, Zenon DEF m
  <2> QED
    BY <1>3, <1>8, <2>2 DEF AcceptStop, Received
<1> QED
  BY <1>4, <1>5, <1>6, <1>7, <1>8 DEF DongleReceive

\* A SendData leaves the dongle with its completion, if it asked for one.
LEMMA Routing ==
  ASSUME TypeInv, RouteDone
  PROVE  \E id \in Nat : /\ routing = {id} /\ routing' = {}
                         /\ GrownTo(line, line', {Msg("SendDataCallback", id, None, "ok")})
                         /\ Len(line') <= Len(line) + 1
<1> USE ConstantsAssumption
<1>1. PICK id \in Nat : routing = {id}
  BY DEF TypeInv, DongleType, RouteDone
<1> DEFINE m == Msg("SendDataCallback", id, None, "ok")
<1>2. m \in Frame
  BY DEF Msg, Frame, PlainFrame, Statuses
<1>3. line' \in {line, Append(line, m)} /\ line \in Seq(Frame) /\ routing' = {}
  BY <1>1 DEF RouteDone, TypeInv, DongleType
<1> HIDE DEF m
<1>4. GrownTo(line, Append(line, m), {m}) /\ Len(Append(line, m)) = Len(line) + 1
  BY <1>2, <1>3, GrowsByOne
<1>5. GrownTo(line, line, {m}) /\ Len(line) <= Len(line) + 1
  BY <1>3 DEF GrownTo
<1>6. Len(Append(line, m)) <= Len(line) + 1
  BY <1>3, <1>4
<1>7. GrownTo(line, line', {m}) /\ Len(line') <= Len(line) + 1
  BY <1>3, <1>4, <1>5, <1>6, Zenon
<1> QED
  BY <1>1, <1>3, <1>7, Zenon DEF m

\* The frames of the operations the dongle runs.
LEMMA OperationFrames ==
  /\ \A id \in Nat, s \in {"removed", "notRemoved", "nodeOk"} :
       Msg("RemoveFailedCallback", id, None, s) \in Frame
  /\ \A c \in Mode, n \in Nodes \cup {None}, i \in BOOLEAN,
        s \in {"ongoing", "protocolDone", "completed", "failed", "notPrimary"} :
       NodeCallback(SessionCommand(c), c.id, n, s, i) \in Frame
<1>1. \A id \in Nat, s \in {"removed", "notRemoved", "nodeOk"} :
        Msg("RemoveFailedCallback", id, None, s) \in Frame
  BY DEF Msg, Frame, PlainFrame, Statuses
<1>2. ASSUME NEW c \in Mode
      PROVE  c.id \in Nat /\ SessionCommand(c) \in {"AddNode", "RemoveNode"}
  BY DEF Mode, SessionCommand
<1>3. ASSUME NEW c \in Mode, NEW n \in Nodes \cup {None}, NEW i \in BOOLEAN,
             NEW s \in {"ongoing", "protocolDone", "completed", "failed", "notPrimary"}
      PROVE  NodeCallback(SessionCommand(c), c.id, n, s, i) \in Frame
  BY <1>2 DEF NodeCallback, Frame, NodeFrame
<1> QED
  BY <1>1, <1>3

\* Every operation appends one frame.
LEMMA Operating ==
  ASSUME TypeInv
  PROVE  /\ \A s \in {"removed", "notRemoved", "nodeOk"} : RemoveFailedDone(s) =>
              GrownTo(line, line', {Msg("RemoveFailedCallback", removing.id, None, s)})
         /\ \A n \in Nodes : NodeFound(n) =>
              /\ GrownTo(line, line', {Callback(n, "ongoing", mode.op = "add")})
              /\ Len(line') = Len(line) + 1
         /\ NodeSettled => GrownTo(line, line', {Callback(mode.node, "protocolDone", FALSE)})
         /\ \A s \in {"completed", "failed", "notPrimary"} : ModeEnds(s) =>
              GrownTo(line, line', {Callback(mode.node, s, FALSE)})
<1> USE ConstantsAssumption
<1>1. line \in Seq(Frame)
  BY DEF TypeInv, DongleType
<1>2. ASSUME NEW s \in {"removed", "notRemoved", "nodeOk"}, RemoveFailedDone(s)
      PROVE  GrownTo(line, line', {Msg("RemoveFailedCallback", removing.id, None, s)})
  <2>1. removing.id \in Nat
    BY <1>2 DEF TypeInv, DongleType, RemoveFailedDone, Command
  <2>2. Msg("RemoveFailedCallback", removing.id, None, s) \in Frame
    BY <2>1, OperationFrames
  <2> QED
    BY <1>1, <1>2, <2>2, GrowsByOne DEF RemoveFailedDone
<1>3. ASSUME NEW n \in Nodes, NodeFound(n)
      PROVE  /\ GrownTo(line, line', {Callback(n, "ongoing", mode.op = "add")})
             /\ Len(line') = Len(line) + 1
  <2>1. mode \in Mode /\ (mode.op = "add") \in BOOLEAN
    BY <1>3, Zenon DEF TypeInv, DongleType, NodeFound
  <2>2. Callback(n, "ongoing", mode.op = "add") \in Frame
    BY <2>1, OperationFrames, Zenon DEF Callback
  <2> QED
    BY <1>1, <1>3, <2>2, GrowsByOne, Zenon DEF NodeFound
<1>4. ASSUME NodeSettled
      PROVE  GrownTo(line, line', {Callback(mode.node, "protocolDone", FALSE)})
  <2>1. mode \in Mode /\ mode.node \in Nodes \cup {None}
    BY <1>4, Zenon DEF TypeInv, DongleType, NodeSettled, Mode
  <2>2. Callback(mode.node, "protocolDone", FALSE) \in Frame
    BY <2>1, OperationFrames, Zenon DEF Callback
  <2> QED
    BY <1>1, <1>4, <2>2, GrowsByOne, Zenon DEF NodeSettled
<1>5. ASSUME NEW s \in {"completed", "failed", "notPrimary"}, ModeEnds(s)
      PROVE  GrownTo(line, line', {Callback(mode.node, s, FALSE)})
  <2>1. mode \in Mode /\ mode.node \in Nodes \cup {None}
    BY <1>5 DEF TypeInv, DongleType, ModeEnds, Mode
  <2>2. Callback(mode.node, s, FALSE) \in Frame
    BY <2>1, OperationFrames, Zenon DEF Callback
  <2> QED
    BY <1>1, <1>5, <2>2, GrowsByOne, Zenon DEF ModeEnds
<1> QED
  BY <1>2, <1>3, <1>4, <1>5, Zenon

\* The steps of the dongle, and losses of the link, keep the types.
LEMMA DongleTypes ==
  ASSUME TypeInv, DongleStep \/ LineLoss
  PROVE  TypeInv'
<1> USE ConstantsAssumption
<1> DEFINE Kept == UNCHANGED <<queue, path, slotVars, sessionVars, threadVars, registryVars, found, seeded>>
<1>1. Kept /\ UNCHANGED faults => HostType' /\ LoopType' /\ RegistryType'
  <2> SUFFICES ASSUME Kept, UNCHANGED faults PROVE HostType' /\ LoopType' /\ RegistryType'
    BY Zenon
  <2>1. HostType'
    BY Zenon DEF TypeInv, HostType, slotVars, sessionVars
  <2>2. LoopType'
    BY Zenon DEF TypeInv, LoopType, sessionVars, threadVars
  <2>3. RegistryType'
    BY Zenon DEF TypeInv, RegistryType, registryVars
  <2> QED
    BY <2>1, <2>2, <2>3, Zenon
<1>2. CASE DongleReceive
  <2>1. Received
    BY <1>2, Receiving
  <2>2. Kept /\ UNCHANGED faults
    BY <1>2 DEF DongleReceive, hostVars, historyVars
  <2>3. line' \in Seq(Frame)
    BY <2>1 DEF Received, GrownTo
  <2>4. DongleType'
    BY <1>2, <2>1, <2>3, Zenon DEF TypeInv, DongleType, Received, DongleReceive, Command
  <2> QED
    BY <1>1, <2>2, <2>4 DEF TypeInv
<1>3. CASE RouteDone
  <2>1. line' \in Seq(Frame)
    BY <1>3, Routing DEF GrownTo
  <2>2. Kept /\ UNCHANGED faults
    BY <1>3, Zenon DEF RouteDone, hostVars, historyVars
  <2>3. DongleType'
    BY <1>3, <2>1, Zenon DEF TypeInv, DongleType, RouteDone
  <2> QED
    BY <1>1, <2>2, <2>3 DEF TypeInv
<1>4. CASE \E s \in {"removed", "notRemoved", "nodeOk"} : RemoveFailedDone(s)
  <2>1. PICK s \in {"removed", "notRemoved", "nodeOk"} : RemoveFailedDone(s)
    BY <1>4
  <2>2. line' \in Seq(Frame)
    BY <2>1, Operating, Zenon DEF GrownTo
  <2>3. Kept /\ UNCHANGED faults
    BY <2>1, Zenon DEF RemoveFailedDone, hostVars, historyVars
  <2>4. DongleType'
    BY <2>1, <2>2 DEF TypeInv, DongleType, RemoveFailedDone, Mode
  <2> QED
    BY <1>1, <2>3, <2>4, Zenon DEF TypeInv
<1>5. CASE \E n \in Nodes : NodeFound(n)
  <2>1. PICK n \in Nodes : NodeFound(n)
    BY <1>5
  <2>2. line' \in Seq(Frame)
    BY <2>1, Operating, Zenon DEF GrownTo
  <2>3. Kept /\ UNCHANGED faults
    BY <2>1, Zenon DEF NodeFound, hostVars, historyVars
  <2>4. DongleType'
    BY <2>1, <2>2, Zenon DEF TypeInv, DongleType, NodeFound, Mode
  <2> QED
    BY <1>1, <2>3, <2>4 DEF TypeInv
<1>6. CASE NodeSettled
  <2>2. line' \in Seq(Frame)
    BY <1>6, Operating, Zenon DEF GrownTo
  <2>3. Kept /\ UNCHANGED faults
    BY <1>6, Zenon DEF NodeSettled, hostVars, historyVars
  <2>4. DongleType'
    BY <1>6, <2>2, Zenon DEF TypeInv, DongleType, NodeSettled, Mode
  <2> QED
    BY <1>1, <2>3, <2>4 DEF TypeInv
<1>7. CASE \E s \in {"completed", "failed", "notPrimary"} : ModeEnds(s)
  <2>1. PICK s \in {"completed", "failed", "notPrimary"} : ModeEnds(s)
    BY <1>7
  <2>2. line' \in Seq(Frame)
    BY <2>1, Operating, Zenon DEF GrownTo
  <2>3. Kept /\ UNCHANGED faults
    BY <2>1, Zenon DEF ModeEnds, hostVars, historyVars
  <2>4. DongleType'
    BY <2>1, <2>2, Zenon DEF TypeInv, DongleType, ModeEnds, Mode
  <2> QED
    BY <1>1, <2>3, <2>4, Zenon DEF TypeInv
<1>8. CASE LineLoss
  <2>1. Kept /\ LinkFault
    BY <1>8, Zenon DEF LineLoss
  <2>2. HostType' /\ LoopType' /\ RegistryType'
    <3>1. HostType'
      BY <2>1, Zenon DEF TypeInv, HostType, slotVars, sessionVars
    <3>2. LoopType'
      BY <2>1, Zenon DEF TypeInv, LoopType, sessionVars, threadVars
    <3>3. RegistryType'
      BY <2>1, FaultCounted, Zenon DEF TypeInv, RegistryType, registryVars
    <3> QED
      BY <3>1, <3>2, <3>3, Zenon
  <2>3. Tail(line) \in Seq(Frame)
    BY <1>8, Rest, Zenon DEF TypeInv, DongleType, LineLoss
  <2>4. DongleType'
    BY <1>8, <2>3, Zenon DEF TypeInv, DongleType, LineLoss, dongleVars
  <2> QED
    BY <2>2, <2>4 DEF TypeInv
<1> QED
  BY <1>2, <1>3, <1>4, <1>5, <1>6, <1>7, <1>8 DEF DongleStep

\* Every step keeps the types.
LEMMA TypeStep ==
  ASSUME TypeInv, [Next]_vars
  PROVE  TypeInv'
<1>1. CASE HostStep
  BY <1>1, LoopTypes, SendTypes, HandleTypes DEF HostStep
<1>2. CASE DongleStep \/ LineLoss
  BY <1>2, DongleTypes
<1>3. CASE Plug \/ Unplug \/ \E c \in Commands : Submit(c)
  BY <1>3, PublisherTypes
<1>4. CASE UNCHANGED vars
  <2>1. HostType'
    BY <1>4, Zenon DEF vars, slotVars, sessionVars, TypeInv, HostType
  <2>2. LoopType'
    BY <1>4, Zenon DEF vars, sessionVars, threadVars, TypeInv, LoopType
  <2>3. RegistryType'
    BY <1>4, Zenon DEF vars, registryVars, historyVars, TypeInv, RegistryType
  <2>4. DongleType'
    BY <1>4, Zenon DEF vars, dongleVars, TypeInv, DongleType
  <2> QED
    BY <2>1, <2>2, <2>3, <2>4, Zenon DEF TypeInv
<1> QED
  BY <1>1, <1>2, <1>3, <1>4 DEF Next

\* The thread starts with all of its types.
LEMMA TypeInit == Init => TypeInv
<1> USE ConstantsAssumption
<1> SUFFICES ASSUME Init PROVE TypeInv
  OBVIOUS
<1>1. HostType
  BY DEF Init, HostType
<1>2. LoopType
  BY DEF Init, LoopType
<1>3. RegistryType
  BY Zenon DEF Init, RegistryType
<1>4. DongleType
  BY DEF Init, DongleType
<1> QED
  BY <1>1, <1>2, <1>3, <1>4 DEF TypeInv

\* ProtocolThread.cpp: the queue, the pending slots, the gate and the session
\* always hold values of their declared types, a gate is closed only while the
\* thread waits at it, and the port is closed exactly while it waits for a path.
THEOREM TypeCorrect == Spec => []TypeOK
<1>1. Init => TypeInv
  BY TypeInit
<1>2. TypeInv /\ [Next]_vars => TypeInv'
  BY TypeStep
<1>3. TypeInv => TypeOK
  BY Zenon DEF TypeInv, HostType, LoopType, RegistryType, DongleType, TypeOK
<1> QED
  BY <1>1, <1>2, <1>3, PTL DEF Spec

-----------------------------------------------------------------------------
(* The throttle. *)

\* Nothing is left of a SendData on an empty line.
LEMMA EmptyLine ==
  ASSUME NEW id
  PROVE  NoneLeft(<<>>, id) /\ OneLeft(<<>>, id)
  BY DEF NoneLeft, OneLeft

\* Reading a frame leaves at most what was there, and none behind a completion.
LEMMA ReadLine ==
  ASSUME NEW l \in Seq(Frame), l # <<>>, NEW id
  PROVE  /\ NoneLeft(l, id) => NoneLeft(Tail(l), id)
         /\ OneLeft(l, id) => OneLeft(Tail(l), id)
         /\ OneLeft(l, id) /\ Completes(Head(l), id) => NoneLeft(Tail(l), id)
<1>1. /\ 1 \in DOMAIN l /\ Head(l) = l[1]
      /\ \A i \in DOMAIN Tail(l) : i + 1 \in DOMAIN l /\ Tail(l)[i] = l[i + 1]
  BY Rest
<1>2. NoneLeft(l, id) => NoneLeft(Tail(l), id)
  BY <1>1, Zenon DEF NoneLeft
<1>3. ASSUME NEW i \in DOMAIN Tail(l), NEW j \in DOMAIN Tail(l)
      PROVE  (i + 1 = j + 1 => i = j) /\ i + 1 # 1
  BY Rest
<1>4. OneLeft(l, id) => OneLeft(Tail(l), id)
  BY <1>1, <1>3, Zenon DEF OneLeft
<1>5. OneLeft(l, id) /\ Completes(Head(l), id) => NoneLeft(Tail(l), id)
  BY <1>1, <1>3 DEF OneLeft, NoneLeft
<1> QED
  BY <1>2, <1>4, <1>5

\* Other frames behind it change nothing; a completion makes it one at most.
LEMMA GrownLine ==
  ASSUME NEW l \in Seq(Frame), NEW m, NEW F, GrownTo(l, m, F), NEW id
  PROVE  /\ (\A f \in F : ~Completes(f, id)) /\ NoneLeft(l, id) => NoneLeft(m, id)
         /\ (\A f \in F : ~Completes(f, id)) /\ OneLeft(l, id) => OneLeft(m, id)
         /\ Len(m) <= Len(l) + 1 /\ NoneLeft(l, id) => OneLeft(m, id)
<1>1. (\A f \in F : ~Completes(f, id)) /\ NoneLeft(l, id) => NoneLeft(m, id)
  BY Zenon DEF GrownTo, NoneLeft
<1>2. (\A f \in F : ~Completes(f, id)) /\ OneLeft(l, id) => OneLeft(m, id)
  BY Zenon DEF GrownTo, OneLeft
<1>3. ASSUME Len(m) <= Len(l) + 1, NoneLeft(l, id)
      PROVE  OneLeft(m, id)
  <2>1. ASSUME NEW i \in DOMAIN m, Completes(m[i], id)
        PROVE  i = Len(l) + 1
    <3>1. i \notin DOMAIN l
      BY <1>3, <2>1, Zenon DEF GrownTo, NoneLeft
    <3>2. i > Len(l) /\ i \in 1 .. Len(m) /\ Len(l) \in Nat /\ Len(m) \in Nat
      BY <2>1, <3>1 DEF GrownTo
    <3> QED
      BY <1>3, <3>2
  <2> QED
    BY <2>1 DEF OneLeft
<1> QED
  BY <1>1, <1>2, <1>3

\* One frame that is no completion of it.
LEMMA GrownByOther ==
  ASSUME NEW l \in Seq(Frame), NEW m, NEW f, GrownTo(l, m, {f}), NEW id, ~Completes(f, id)
  PROVE  /\ OneLeft(l, id) => OneLeft(m, id)
         /\ NoneLeft(l, id) => NoneLeft(m, id)
<1>1. \A x \in {f} : ~Completes(x, id)
  OBVIOUS
<1> QED
  BY <1>1, GrownLine

\* A step after which no more is left of a SendData than before.
NoMore(id) ==
    /\ OneLeft(line, id) => OneLeft(line', id)
    /\ NoneLeft(line, id) => NoneLeft(line', id)
    /\ OnWire(id)' => OnWire(id)
    /\ id \in routing' => id \in routing

\* As long as the thread goes on waiting such a step changes nothing.
LEMMA GateKeeps ==
  ASSUME NEW id \in Nat, Gate(id), NoMore(id), Awaited(id) => Awaited(id)'
  PROVE  Gate(id)'
  BY Zenon DEF Gate, NoMore

\* The steps that leave the line alone.
LEMMA SameLine ==
  ASSUME NEW id \in Nat, line' = line, wire' \in {wire, None}, routing' = routing
  PROVE  NoMore(id)
  BY DEF NoMore, OnWire

\* The throttle and the steps of the loop outside a send.
LEMMA GateLoop ==
  ASSUME TypeInv, GateInv, NEW id \in Nat \ waived',
         \/ OpenFails \/ Open \/ EnterSession \/ CheckPath \/ Idle
         \/ ThrottleEnd \/ ThrottleTimeout \/ DelayEnd
         \/ Plug \/ \E c \in Commands : Submit(c)
  PROVE  Gate(id)'
<1> USE ConstantsAssumption
<1>1. CASE OpenFails
  <2>1. id \notin waived /\ line' = line /\ wire' = wire /\ routing' = routing
    BY <1>1, Zenon DEF OpenFails, dongleVars, historyVars
  <2>2. ~Awaited(id)
    BY <1>1, Zenon DEF OpenFails, Awaited
  <2> QED
    BY <2>1, <2>2, SameLine, GateKeeps DEF GateInv
<1>2. CASE Open
  <2>1. id \notin waived /\ line' = line /\ wire' = wire /\ routing' = routing
    BY <1>2, Zenon DEF Open, dongleVars, historyVars
  <2>2. ~Awaited(id)
    BY <1>2, Zenon DEF Open, Awaited
  <2> QED
    BY <2>1, <2>2, SameLine, GateKeeps DEF GateInv
<1>3. CASE EnterSession
  <2>1. id \notin waived /\ line' = line /\ wire' = wire /\ routing' = routing
    BY <1>3, Zenon DEF EnterSession, dongleVars, historyVars
  <2>2. ~Awaited(id)
    BY <1>3, Zenon DEF EnterSession, Awaited
  <2> QED
    BY <2>1, <2>2, SameLine, GateKeeps DEF GateInv
<1>4. CASE CheckPath
  <2>1. id \notin waived /\ line' = line /\ wire' = wire /\ routing' = routing
    BY <1>4, Zenon DEF CheckPath, dongleVars, historyVars
  <2>2. ~Awaited(id)
    BY <1>4, Zenon DEF CheckPath, Awaited
  <2> QED
    BY <2>1, <2>2, SameLine, GateKeeps DEF GateInv
<1>5. CASE Idle
  <2>1. id \notin waived /\ line' = line /\ wire' = wire /\ routing' = routing
    BY <1>5, Zenon DEF Idle, dongleVars, historyVars
  <2>2. ~Awaited(id)
    BY <1>5 DEF Idle, Awaited
  <2> QED
    BY <2>1, <2>2, SameLine, GateKeeps DEF GateInv
<1>6. CASE ThrottleEnd
  <2>1. id \notin waived /\ line' = line /\ wire' = wire /\ routing' = routing
    BY <1>6, Zenon DEF ThrottleEnd, dongleVars, historyVars
  <2>2. ~Awaited(id)
    BY <1>6, Zenon DEF ThrottleEnd, Awaited
  <2> QED
    BY <2>1, <2>2, SameLine, GateKeeps DEF GateInv
<1>7. CASE DelayEnd
  <2>1. id \notin waived /\ line' = line /\ wire' = wire /\ routing' = routing
    BY <1>7, Zenon DEF DelayEnd, dongleVars, historyVars
  <2>2. ~Awaited(id)
    BY <1>7 DEF DelayEnd, Awaited
  <2> QED
    BY <2>1, <2>2, SameLine, GateKeeps DEF GateInv
<1>8. CASE ThrottleTimeout
  <2>1. id \notin waived /\ line' = line /\ wire' = wire /\ routing' = routing
    BY <1>8, Zenon DEF ThrottleTimeout, dongleVars
  <2>2. ~Awaited(id)
    BY <1>8, Zenon DEF ThrottleTimeout, Awaited
  <2> QED
    BY <2>1, <2>2, SameLine, GateKeeps DEF GateInv
<1>9. CASE Plug \/ \E c \in Commands : Submit(c)
  <2>1. /\ id \notin waived /\ line' = line /\ wire' = wire /\ routing' = routing
        /\ UNCHANGED <<pc, cur, pendingSendData>>
    BY <1>9, Zenon DEF Plug, Submit, dongleVars, historyVars, threadVars, sessionVars
  <2>2. Awaited(id) => Awaited(id)'
    BY <2>1, Zenon DEF Awaited
  <2> QED
    BY <2>1, <2>2, SameLine, GateKeeps DEF GateInv
<1> QED
  BY <1>1, <1>2, <1>3, <1>4, <1>5, <1>6, <1>7, <1>8, <1>9

\* The throttle, the hand-over of a request and the end of a send.
LEMMA GateSend ==
  ASSUME TypeInv, GateInv, NEW id \in Nat \ waived', Pop \/ SendOk \/ SendFail
  PROVE  Gate(id)'
<1> USE ConstantsAssumption
<1>1. CASE Pop
  <2>1. id \notin waived /\ line' = line /\ routing' = routing
    BY <1>1, Zenon DEF Pop, historyVars
  <2>2. ~Awaited(id)
    BY <1>1, Zenon DEF Pop, Awaited
  <2>3. ~OnWire(id) /\ id \notin routing /\ NoneLeft(line, id) /\ OneLeft(line, id)
    BY <2>1, <2>2, Zenon DEF GateInv, Gate
  <2>4. pc' = "send" /\ cur' = wire'
    BY <1>1, Zenon DEF Pop
  <2>5. OnWire(id)' => Awaited(id)'
    BY <2>4 DEF OnWire, Awaited
  <2> QED
    BY <2>1, <2>3, <2>5, Zenon DEF Gate
<1>2. CASE SendOk
  <2>1. id \notin waived /\ line' = Tail(line) /\ line # <<>> /\ wire' = wire /\ routing' = routing
    BY <1>2, Zenon DEF SendOk, dongleVars
  <2>2. NoMore(id)
    BY <2>1, ReadLine, Zenon DEF NoMore, OnWire, TypeInv, DongleType
  <2>3. Awaited(id) => Awaited(id)'
    BY <1>2, Zenon DEF SendOk, Awaited
  <2> QED
    BY <2>1, <2>2, <2>3, GateKeeps, Zenon DEF GateInv
<1>3. CASE SendFail
  <2>1. id \notin waived /\ line' = line /\ wire' \in {wire, None} /\ routing' = routing
    BY <1>3, Zenon DEF SendFail
  <2>2. ~Awaited(id)
    BY <1>3, Zenon DEF SendFail, Awaited
  <2> QED
    BY <2>1, <2>2, SameLine, GateKeeps, Zenon DEF GateInv
<1> QED
  BY <1>1, <1>2, <1>3

\* The throttle when frames are read, dropped or lost.
LEMMA GateRead ==
  ASSUME TypeInv, GateInv, NEW id \in Nat \ waived',
         (\E r \in {"none", "info", "init"} : Introspect(r)) \/ HandleFrame \/ LineLoss \/ Unplug
  PROVE  Gate(id)'
<1> USE ConstantsAssumption
<1>1. CASE \E r \in {"none", "info", "init"} : Introspect(r)
  <2>1. id \notin waived /\ line' = <<>> /\ wire' = wire /\ routing' = routing /\ pc = "introspect"
    BY <1>1, Zenon DEF Introspect, dongleVars
  <2>2. NoMore(id)
    BY <2>1, EmptyLine, Zenon DEF NoMore, OnWire
  <2> QED
    BY <2>1, <2>2, GateKeeps DEF GateInv, Awaited
<1>2. CASE Unplug
  <2>1. /\ id \notin waived /\ line' = <<>> /\ wire' = None /\ routing' = {}
        /\ UNCHANGED <<pc, cur, pendingSendData>>
    BY <1>2, Zenon DEF Unplug, sessionVars
  <2>2. NoMore(id)
    BY <2>1, EmptyLine, Zenon DEF NoMore, OnWire
  <2>3. Awaited(id) => Awaited(id)'
    BY <2>1 DEF Awaited
  <2> QED
    BY <2>1, <2>2, <2>3, GateKeeps, Zenon DEF GateInv
<1>3. CASE LineLoss
  <2>1. /\ id \notin waived /\ line' = Tail(line) /\ line # <<>> /\ wire' = wire /\ routing' = routing
        /\ UNCHANGED <<pc, cur, pendingSendData>>
    BY <1>3, Zenon DEF LineLoss, dongleVars, threadVars, sessionVars
  <2>2. NoMore(id)
    BY <2>1, ReadLine, Zenon DEF NoMore, OnWire, TypeInv, DongleType
  <2>3. Awaited(id) => Awaited(id)'
    BY <2>1 DEF Awaited
  <2> QED
    BY <2>1, <2>2, <2>3, GateKeeps DEF GateInv
<1>4. CASE HandleFrame
  <2> DEFINE f == Head(line)
  <2>1. /\ id \notin waived /\ line' = Tail(line) /\ line # <<>> /\ wire' = wire /\ routing' = routing
        /\ cur' = cur /\ line \in Seq(Frame)
    BY <1>4, Zenon DEF HandleFrame, dongleVars, TypeInv, DongleType
  <2>2. NoMore(id)
    BY <2>1, ReadLine, Zenon DEF NoMore, OnWire
  <2>3. pc \in {"pop", "send", "throttle"} /\ (pc \in {"send", "throttle"} => pc' = pc)
    BY <1>4, Zenon DEF HandleFrame
  <2>4. pendingSendData' = IF f.kind = "SendDataCallback" /\ f.id = pendingSendData
                           THEN None ELSE pendingSendData
    BY <1>4, Zenon DEF HandleFrame, ClearGate
  <2>h. 1 \in DOMAIN line /\ line[1] = f
    BY <2>1, Rest, Zenon
  <2> HIDE DEF f
  <2>5. CASE Awaited(id) => Awaited(id)'
    BY <2>1, <2>2, <2>5, GateKeeps, Zenon DEF GateInv
  <2>6. CASE ~(Awaited(id) => Awaited(id)')
    <3>1. Completes(f, id) /\ Awaited(id)
      BY <2>1, <2>3, <2>4, <2>6, Zenon DEF Awaited, Completes
    <3>2. ~NoneLeft(line, id)
      BY <2>h, <3>1, Zenon DEF NoneLeft
    <3>3. OneLeft(line, id) /\ ~OnWire(id) /\ id \notin routing
      BY <2>1, <3>2, Zenon DEF GateInv, Gate
    <3>4. NoneLeft(Tail(line), id) /\ OneLeft(Tail(line), id)
      BY <2>1, <3>1, <3>3, ReadLine, Zenon DEF f
    <3> QED
      BY <2>1, <2>2, <3>3, <3>4, Zenon DEF Gate, NoMore
  <2> QED
    BY <2>5, <2>6
<1> QED
  BY <1>1, <1>2, <1>3, <1>4

\* The throttle and the dongle: a SendData moves from the wire to the router
\* and on to its completion.
LEMMA GateDongle ==
  ASSUME TypeInv, GateInv, NEW id \in Nat \ waived', DongleStep
  PROVE  Gate(id)'
<1> USE ConstantsAssumption
<1>0. line \in Seq(Frame)
  BY DEF TypeInv, DongleType
<1>1. id \notin waived /\ UNCHANGED <<pc, cur, pendingSendData>>
  BY Zenon DEF DongleStep, DongleReceive, RouteDone, RemoveFailedDone, NodeFound, NodeSettled, ModeEnds,
         hostVars, historyVars, threadVars, sessionVars
<1>2. Awaited(id)' = Awaited(id)
  BY <1>1 DEF Awaited
<1>3. Gate(id)
  BY <1>1, Zenon DEF GateInv
<1>4. CASE DongleReceive
  <2>1. Received /\ wire # None
    BY <1>4, Receiving DEF DongleReceive
  <2>2. \A f \in Answers : ~Completes(f, id)
    BY DEF Answers, Completes
  <2>3. /\ OneLeft(line, id) => OneLeft(line', id)
        /\ NoneLeft(line, id) => NoneLeft(line', id)
    BY <1>0, <2>1, <2>2, GrownLine, Zenon DEF Received
  <2>4. ~OnWire(id)'
    BY <2>1, Zenon DEF Received, OnWire
  <2>5. id \in routing' => id \in routing \/ OnWire(id)
    BY <2>1 DEF Received, OnWire
  <2> QED
    BY <1>2, <1>3, <2>3, <2>4, <2>5, Zenon DEF Gate
<1>5. CASE RouteDone
  <2>1. PICK x \in Nat : /\ routing = {x} /\ routing' = {}
                         /\ GrownTo(line, line', {Msg("SendDataCallback", x, None, "ok")})
                         /\ Len(line') <= Len(line) + 1
    BY <1>5, Routing, Zenon
  <2>2. wire' = wire
    BY <1>5, Zenon DEF RouteDone
  <2>3. CASE x = id
    <3>1. NoneLeft(line, id) /\ ~OnWire(id) /\ Awaited(id)
      BY <1>3, <2>1, <2>3, Zenon DEF Gate
    <3>2. OneLeft(line', id)
      BY <1>0, <2>1, <3>1, GrownLine, Zenon
    <3>3. ~OnWire(id)' /\ id \notin routing'
      BY <2>1, <2>2, <3>1, Zenon DEF OnWire
    <3> QED
      BY <1>2, <3>1, <3>2, <3>3, Zenon DEF Gate
  <2>4. CASE x # id
    <3>0. PICK F : F = {Msg("SendDataCallback", x, None, "ok")}
      BY Zenon
    <3>1. \A f \in F : ~Completes(f, id)
      BY <2>4, <3>0, CallbackOf, Zenon
    <3>g. GrownTo(line, line', F)
      BY <2>1, <3>0, Zenon
    <3>2. /\ OneLeft(line, id) => OneLeft(line', id)
          /\ NoneLeft(line, id) => NoneLeft(line', id)
      BY <1>0, <3>1, <3>g, GrownLine, Zenon
    <3>3. NoMore(id)
      BY <2>1, <2>2, <3>2, Zenon DEF NoMore, OnWire
    <3> QED
      BY <1>2, <1>3, <3>3, GateKeeps, Zenon
  <2> QED
    BY <2>3, <2>4
<1>6. CASE \E s \in {"removed", "notRemoved", "nodeOk"} : RemoveFailedDone(s)
  <2>1. PICK s \in {"removed", "notRemoved", "nodeOk"} : RemoveFailedDone(s)
    BY <1>6
  <2>2. GrownTo(line, line', {Msg("RemoveFailedCallback", removing.id, None, s)})
    BY <2>1, Operating, Zenon
  <2>3. ~Completes(Msg("RemoveFailedCallback", removing.id, None, s), id)
    BY Zenon DEF Msg, Completes
  <2>4. /\ OneLeft(line, id) => OneLeft(line', id)
        /\ NoneLeft(line, id) => NoneLeft(line', id)
    BY <1>0, <2>2, <2>3, GrownByOther, Zenon
  <2>5. wire' = wire /\ routing' = routing
    BY <2>1, Zenon DEF RemoveFailedDone
  <2>6. NoMore(id)
    BY <2>4, <2>5, Zenon DEF NoMore, OnWire
  <2> QED
    BY <1>2, <1>3, <2>6, GateKeeps, Zenon
<1>7. CASE \E n \in Nodes : NodeFound(n)
  <2>1. PICK n \in Nodes : NodeFound(n)
    BY <1>7
  <2>2. GrownTo(line, line', {Callback(n, "ongoing", mode.op = "add")})
    BY <2>1, Operating, Zenon
  <2>3. ~Completes(Callback(n, "ongoing", mode.op = "add"), id)
    BY <2>1 DEF NodeFound, TypeInv, DongleType, Mode, Callback, SessionCommand, NodeCallback, Completes
  <2>4. /\ OneLeft(line, id) => OneLeft(line', id)
        /\ NoneLeft(line, id) => NoneLeft(line', id)
    BY <1>0, <2>2, <2>3, GrownByOther, Zenon
  <2>5. wire' = wire /\ routing' = routing
    BY <2>1, Zenon DEF NodeFound
  <2>6. NoMore(id)
    BY <2>4, <2>5, Zenon DEF NoMore, OnWire
  <2> QED
    BY <1>2, <1>3, <2>6, GateKeeps
<1>8. CASE NodeSettled
  <2>2. GrownTo(line, line', {Callback(mode.node, "protocolDone", FALSE)})
    BY <1>8, Operating, Zenon
  <2>3. ~Completes(Callback(mode.node, "protocolDone", FALSE), id)
    BY <1>8 DEF NodeSettled, TypeInv, DongleType, Mode, Callback, SessionCommand, NodeCallback, Completes
  <2>4. /\ OneLeft(line, id) => OneLeft(line', id)
        /\ NoneLeft(line, id) => NoneLeft(line', id)
    BY <1>0, <2>2, <2>3, GrownByOther, Zenon
  <2>5. wire' = wire /\ routing' = routing
    BY <1>8, Zenon DEF NodeSettled
  <2>6. NoMore(id)
    BY <2>4, <2>5, Zenon DEF NoMore, OnWire
  <2> QED
    BY <1>2, <1>3, <2>6, GateKeeps
<1>9. CASE \E s \in {"completed", "failed", "notPrimary"} : ModeEnds(s)
  <2>1. PICK s \in {"completed", "failed", "notPrimary"} : ModeEnds(s)
    BY <1>9
  <2>2. GrownTo(line, line', {Callback(mode.node, s, FALSE)})
    BY <2>1, Operating, Zenon
  <2>3. ~Completes(Callback(mode.node, s, FALSE), id)
    BY <2>1 DEF ModeEnds, TypeInv, DongleType, Mode, Callback, SessionCommand, NodeCallback, Completes
  <2>4. /\ OneLeft(line, id) => OneLeft(line', id)
        /\ NoneLeft(line, id) => NoneLeft(line', id)
    BY <1>0, <2>2, <2>3, GrownByOther, Zenon
  <2>5. wire' = wire /\ routing' = routing
    BY <2>1 DEF ModeEnds
  <2>6. NoMore(id)
    BY <2>4, <2>5, Zenon DEF NoMore, OnWire
  <2> QED
    BY <1>2, <1>3, <2>6, GateKeeps, Zenon
<1> QED
  BY <1>4, <1>5, <1>6, <1>7, <1>8, <1>9, Zenon DEF DongleStep

\* Every step keeps the throttle.
LEMMA GateStep ==
  ASSUME TypeInv, GateInv, [Next]_vars
  PROVE  GateInv'
<1> SUFFICES ASSUME NEW id \in Nat \ waived'
             PROVE  Gate(id)'
  BY DEF GateInv
<1>1. CASE HostStep
  BY <1>1, GateLoop, GateSend, GateRead DEF HostStep
<1>2. CASE DongleStep
  BY <1>2, GateDongle
<1>3. CASE LineLoss \/ Plug \/ Unplug \/ \E c \in Commands : Submit(c)
  BY <1>3, GateRead, GateLoop
<1>4. CASE UNCHANGED vars
  BY <1>4, Zenon DEF vars, GateInv, Gate, OnWire, Awaited, threadVars, sessionVars, dongleVars, historyVars
<1> QED
  BY <1>1, <1>2, <1>3, <1>4 DEF Next

\* dispatchRequest's throttle, for any commands, faults and pulls: a SendData
\* is handed to the dongle only when the dongle routes nothing that the thread
\* has not given up.
THEOREM ThrottleHolds == Spec => []Throttled
<1>1. Init => TypeInv /\ GateInv
  <2> SUFFICES ASSUME Init PROVE GateInv
    BY TypeInit
  <2>1. line = <<>> /\ routing = {} /\ wire = None
    BY DEF Init
  <2> QED
    BY <2>1, EmptyLine DEF GateInv, Gate, OnWire
<1>2. TypeInv /\ GateInv /\ [Next]_vars => (TypeInv /\ GateInv)'
  BY TypeStep, GateStep
<1>3. TypeInv /\ GateInv => Throttled
  <2> SUFFICES ASSUME TypeInv, GateInv, pc = "send", IsSendData(cur), wire = cur,
                      NEW id \in routing, id \notin waived
               PROVE  FALSE
    BY DEF Throttled
  <2>1. id \in Nat /\ cur # None
    BY ConstantsAssumption DEF TypeInv, LoopType, DongleType
  <2>2. Gate(id)
    BY <2>1 DEF GateInv
  <2>3. Awaited(id)
    BY <2>2 DEF Gate
  <2>4. cur.id = id
    BY <2>3 DEF Awaited
  <2> QED
    BY <2>1, <2>2, <2>4 DEF Gate, OnWire
<1> QED
  BY <1>1, <1>2, <1>3, PTL DEF Spec

-----------------------------------------------------------------------------
(* Inclusions. *)

\* A step that announces no inclusion and keeps the connection's nodes.
LEMMA NoneAnnounced ==
  ASSUME StashInv, \A e \in bus' : e.kind # "NodeIncluded",
         UNCHANGED <<pendingInclusion, found>>
  PROVE  StashInv'
  BY DEF StashInv, IncludedInItsSession

\* The publishers and the loop announce no inclusion.
LEMMA StashLoop ==
  ASSUME StashInv,
         \/ OpenFails \/ Open \/ CheckPath \/ Idle \/ Pop \/ SendOk \/ SendFail
         \/ ThrottleEnd \/ ThrottleTimeout \/ DelayEnd
         \/ EnterSession \/ (\E r \in {"none", "info", "init"} : Introspect(r))
         \/ Plug \/ Unplug \/ (\E c \in Commands : Submit(c))
  PROVE  StashInv'
<1> USE ConstantsAssumption
<1>1. CASE OpenFails
  <2>1. UNCHANGED <<pendingInclusion, found>>
    BY <1>1, Zenon DEF OpenFails, slotVars, historyVars
  <2>2. \A e \in bus' : e.kind # "NodeIncluded"
    <3>1. bus' = {Msg("DaemonError", 0, None, "openFailed")}
      BY <1>1, Zenon DEF OpenFails
    <3> QED
      BY <3>1, OtherKind, Zenon
  <2> QED
    BY <2>1, <2>2, NoneAnnounced, Zenon
<1>2. CASE Open
  <2>1. UNCHANGED <<pendingInclusion, found>>
    BY <1>2, Zenon DEF Open, slotVars, historyVars
  <2>2. \A e \in bus' : e.kind # "NodeIncluded"
    BY <1>2, Zenon DEF Open
  <2> QED
    BY <2>1, <2>2, NoneAnnounced
<1>3. CASE CheckPath
  <2>1. UNCHANGED <<pendingInclusion, found>>
    BY <1>3, Zenon DEF CheckPath, slotVars, historyVars
  <2>2. \A e \in bus' : e.kind # "NodeIncluded"
    BY <1>3, Zenon DEF CheckPath
  <2> QED
    BY <2>1, <2>2, NoneAnnounced
<1>4. CASE Idle
  <2>1. UNCHANGED <<pendingInclusion, found>>
    BY <1>4, Zenon DEF Idle, slotVars, historyVars
  <2>2. \A e \in bus' : e.kind # "NodeIncluded"
    BY <1>4, Zenon DEF Idle
  <2> QED
    BY <2>1, <2>2, NoneAnnounced
<1>5. CASE Pop
  <2>1. UNCHANGED <<pendingInclusion, found>>
    BY <1>5, Zenon DEF Pop, slotVars, historyVars
  <2>2. \A e \in bus' : e.kind # "NodeIncluded"
    BY <1>5, Zenon DEF Pop
  <2> QED
    BY <2>1, <2>2, NoneAnnounced
<1>6. CASE SendOk
  <2>1. UNCHANGED <<pendingInclusion, found>>
    BY <1>6, Zenon DEF SendOk, slotVars, historyVars
  <2>2. \A e \in bus' : e.kind # "NodeIncluded"
    BY <1>6, Zenon DEF SendOk
  <2> QED
    BY <2>1, <2>2, NoneAnnounced
<1>7. CASE ThrottleEnd
  <2>1. UNCHANGED <<pendingInclusion, found>>
    BY <1>7, Zenon DEF ThrottleEnd, slotVars, historyVars
  <2>2. \A e \in bus' : e.kind # "NodeIncluded"
    BY <1>7, Zenon DEF ThrottleEnd
  <2> QED
    BY <2>1, <2>2, NoneAnnounced
<1>8. CASE ThrottleTimeout
  <2>1. UNCHANGED <<pendingInclusion, found>>
    BY <1>8, Zenon DEF ThrottleTimeout, slotVars, historyVars
  <2>2. \A e \in bus' : e.kind # "NodeIncluded"
    BY <1>8, Zenon DEF ThrottleTimeout
  <2> QED
    BY <2>1, <2>2, NoneAnnounced
<1>9. CASE DelayEnd
  <2>1. UNCHANGED <<pendingInclusion, found>>
    BY <1>9, Zenon DEF DelayEnd, slotVars, historyVars
  <2>2. \A e \in bus' : e.kind # "NodeIncluded"
    BY <1>9 DEF DelayEnd
  <2> QED
    BY <2>1, <2>2, NoneAnnounced
<1>10. CASE SendFail
  <2>1. UNCHANGED <<pendingInclusion, found>>
    BY <1>10, Zenon DEF SendFail
  <2>2. \A e \in bus' : e.kind # "NodeIncluded"
    BY <1>10 DEF SendFail, FailureStatus, Msg
  <2> QED
    BY <2>1, <2>2, NoneAnnounced
<1>11. CASE EnterSession
  BY <1>11, Zenon DEF EnterSession, StashInv, IncludedInItsSession
<1>12. CASE \E r \in {"none", "info", "init"} : Introspect(r)
  <2>1. UNCHANGED <<pendingInclusion, found>>
    BY <1>12, Zenon DEF Introspect, slotVars
  <2>2. \A e \in bus' : e.kind # "NodeIncluded"
    <3>1. \E r : bus' = {Msg("Introspection", 0, None, r)}
      BY <1>12, Zenon DEF Introspect
    <3> QED
      BY <3>1, OtherKind, Zenon
  <2> QED
    BY <2>1, <2>2, NoneAnnounced, Zenon
<1>13. CASE Plug \/ Unplug
  <2>1. UNCHANGED <<pendingInclusion, found>>
    BY <1>13, Zenon DEF Plug, Unplug, slotVars, historyVars
  <2>2. \A e \in bus' : e.kind # "NodeIncluded"
    BY <1>13, Zenon DEF Plug, Unplug, onDongleStatus
  <2> QED
    BY <2>1, <2>2, NoneAnnounced
<1>14. CASE \E c \in Commands : Submit(c)
  <2>1. UNCHANGED <<pendingInclusion, found>>
    BY <1>14, Zenon DEF Submit, slotVars, historyVars
  <2>2. \A e \in bus' : e.kind # "NodeIncluded"
    <3>1. PICK c \in Commands : Submit(c)
      BY <1>14
    <3>2. \/ bus' = {} \/ bus' = {Msg("SecureSendRequest", c.id, TheNode(c), None)}
          \/ bus' = {Msg("SendDataCallback", c.id, None, "fail")}
      BY <3>1, Zenon DEF Submit, onControllerCommand, onNodeMessage, onSendDataMulticast,
                         pushSendData, pushRequest
    <3> QED
      BY <3>2, OtherKind, Zenon
  <2> QED
    BY <2>1, <2>2, NoneAnnounced
<1> QED
  BY <1>1, <1>2, <1>3, <1>4, <1>5, <1>6, <1>7, <1>8, <1>9, <1>10, <1>11, <1>12, <1>13, <1>14, Zenon

\* The dongle and the link announce nothing.
LEMMA StashDongle ==
  ASSUME StashInv, DongleStep \/ LineLoss
  PROVE  StashInv'
<1>1. UNCHANGED <<pendingInclusion, found>>
  BY Zenon DEF DongleStep, DongleReceive, RouteDone, RemoveFailedDone, NodeFound, NodeSettled, ModeEnds,
         LineLoss, hostVars, historyVars, slotVars
<1>2. bus' = {}
  BY Zenon DEF DongleStep, DongleReceive, RouteDone, RemoveFailedDone, NodeFound, NodeSettled, ModeEnds, LineLoss
<1> QED
  BY <1>1, <1>2, NoneAnnounced

\* A terminal callback announces the node it names or the stashed one, and
\* both were found over this connection.
LEMMA StashHandle ==
  ASSUME TypeInv, StashInv, HandleFrame
  PROVE  StashInv'
<1> USE ConstantsAssumption
<1> DEFINE f == Head(line)
<1>1. f \in Frame /\ handleIncomingFrame(f)
  BY Rest, Zenon DEF TypeInv, DongleType, HandleFrame
<1>2. found' = found \cup {n \in Nodes : f.kind = "AddNode" /\ f.info /\ f.node = n}
  BY Zenon DEF HandleFrame
<1>3. f.node \in Nodes \cup {None} /\ f.kind # "NodeIncluded"
  BY <1>1, Carried, Zenon
<1> HIDE DEF f
<1>4. CASE HandleAddNodeCallback(f)
  <2> DEFINE pending == IF f.node # None /\ f.info THEN f.node ELSE pendingInclusion
  <2>1. pending \in found' \cup {None}
    BY <1>2, <1>3, <1>4, Zenon DEF StashInv, HandleAddNodeCallback
  <2>2. pendingInclusion' \in {pending, None}
    BY <1>4, Zenon DEF HandleAddNodeCallback, EndSession
  <2>3. \A e \in bus' : e = f \/ (pending # None /\ e = Msg("NodeIncluded", 0, pending, f.status))
    <3>1. bus' = {f} \/ EndSession(f, pending)
      BY <1>4, Zenon DEF HandleAddNodeCallback
    <3> HIDE DEF pending
    <3>2. \/ bus' = {f}
          \/ bus' = {f} \cup {}
          \/ pending # None /\ bus' = {f} \cup {Msg("NodeIncluded", 0, pending, f.status)}
      BY <3>1, Zenon DEF EndSession
    <3> QED
      BY <3>2
  <2> HIDE DEF pending
  <2>4. \A e \in bus' : e.kind = "NodeIncluded" => e.node \in found'
    BY <1>3, <2>1, <2>3 DEF Msg
  <2> QED
    BY <2>1, <2>2, <2>4 DEF StashInv, IncludedInItsSession
<1>5. CASE HandleRemoveNodeCallback(f)
  <2>1. pendingInclusion' \in {pendingInclusion, None} /\ \A e \in bus' : e = f
    BY <1>5, Zenon DEF HandleRemoveNodeCallback, EndSession
  <2> QED
    BY <1>2, <1>3, <2>1, Zenon DEF StashInv, IncludedInItsSession
<1>6. CASE ~HandleAddNodeCallback(f) /\ ~HandleRemoveNodeCallback(f)
  <2>1. /\ pendingInclusion' = pendingInclusion
        /\ \A e \in bus' : e = f \/ e.kind # "NodeIncluded"
    <3>1. CASE HandleSendDataCallback(f)
      BY <3>1, Zenon DEF HandleSendDataCallback, slotVars
    <3>2. CASE HandleRemoveFailedResponse(f)
      <4>1. pendingInclusion' = pendingInclusion /\ \E i, n, s : bus' = {Msg("RemoveFailedNodeStatus", i, n, s)}
        BY <3>2, Zenon DEF HandleRemoveFailedResponse
      <4> QED
        BY <4>1, OtherKind, Zenon
    <3>3. CASE HandleRemoveFailedCallback(f)
      <4>1. pendingInclusion' = pendingInclusion /\ \E i, n, s : bus' = {Msg("RemoveFailedNodeStatus", i, n, s)}
        BY <3>3, Zenon DEF HandleRemoveFailedCallback
      <4> QED
        BY <4>1, OtherKind, Zenon
    <3>4. CASE HandleRequestNodeInfoResponse(f)
      BY <3>4, OtherKind, Zenon DEF HandleRequestNodeInfoResponse
    <3>5. CASE HandleApplicationUpdate(f)
      <4>1. pendingInclusion' = pendingInclusion /\ \E i, n, s : bus' = {Msg("NodeInfoUpdate", i, n, s)}
        BY <3>5, Zenon DEF HandleApplicationUpdate, slotVars
      <4> QED
        BY <4>1, OtherKind, Zenon
    <3>6. CASE HandleLinkByte(f)
      BY <3>6, Zenon DEF HandleLinkByte, slotVars
    <3> QED
      BY <1>1, <1>6, <3>1, <3>2, <3>3, <3>4, <3>5, <3>6, Zenon DEF handleIncomingFrame
  <2> QED
    BY <1>2, <1>3, <2>1, Zenon DEF StashInv, IncludedInItsSession
<1> QED
  BY <1>4, <1>5, <1>6

\* ProtocolThread.cpp stashes the node of an AddNode callback until the terminal
\* one: NodeIncluded never names a node of an earlier connection.
THEOREM InclusionsAreCurrent == Spec => []IncludedInItsSession
<1>1. Init => TypeInv /\ StashInv
  BY TypeInit DEF Init, StashInv, IncludedInItsSession
<1>2. TypeInv /\ StashInv /\ [Next]_vars => (TypeInv /\ StashInv)'
  <2> SUFFICES ASSUME TypeInv, StashInv, [Next]_vars
               PROVE  StashInv'
    BY TypeStep
  <2>1. CASE HostStep
    BY <2>1, StashLoop, StashHandle DEF HostStep
  <2>2. CASE DongleStep \/ LineLoss
    BY <2>2, StashDongle
  <2>3. CASE Plug \/ Unplug \/ \E c \in Commands : Submit(c)
    BY <2>3, StashLoop
  <2>4. CASE UNCHANGED vars
    BY <2>4 DEF vars, slotVars, historyVars, StashInv, IncludedInItsSession
  <2> QED
    BY <2>1, <2>2, <2>3, <2>4 DEF Next
<1>3. StashInv => IncludedInItsSession
  BY DEF StashInv
<1> QED
  BY <1>1, <1>2, <1>3, PTL DEF Spec

-----------------------------------------------------------------------------
(* The registry. *)

\* An emptied slot removes nobody.
LEMMA ListsWithoutSlot ==
  ASSUME NEW slot, NEW listed, NEW l, NEW n, Lists(slot, listed, l, n)
  PROVE  Lists(None, listed, l, n)
<1>1. \A f : Drops(None, f, n) => Drops(slot, f, n)
  BY Zenon DEF Drops
<1> QED
  BY <1>1, Zenon DEF Lists

\* Handling the oldest frame, if the registry follows it.
LEMMA ListsRest ==
  ASSUME NEW slot, NEW listed, NEW after, NEW l \in Seq(Frame), l # <<>>, NEW n,
         Lists(slot, listed, l, n),
         n \in listed /\ ~Drops(slot, Head(l), n) => n \in after,
         Adds(Head(l), n) => n \in after
  PROVE  Lists(slot, after, Tail(l), n)
<1>1. /\ 1 \in DOMAIN l /\ Head(l) = l[1] /\ Len(l) \in Nat
      /\ \A i \in DOMAIN Tail(l) : i + 1 \in DOMAIN l /\ Tail(l)[i] = l[i + 1]
  BY Rest
<1>2. CASE n \in listed /\ \A j \in DOMAIN l : ~Drops(slot, l[j], n)
  <2>1. n \in after
    BY <1>1, <1>2
  <2>2. \A j \in DOMAIN Tail(l) : ~Drops(slot, Tail(l)[j], n)
    BY <1>1, <1>2, Zenon
  <2> QED
    BY <2>1, <2>2, Zenon DEF Lists
<1>3. CASE \E i \in DOMAIN l : Adds(l[i], n) /\ \A j \in DOMAIN l : j > i => ~Drops(slot, l[j], n)
  <2>1. PICK i \in DOMAIN l : Adds(l[i], n) /\ \A j \in DOMAIN l : j > i => ~Drops(slot, l[j], n)
    BY <1>3
  <2>2. CASE i = 1
    <3>1. n \in after
      BY <1>1, <2>1, <2>2
    <3>2. ASSUME NEW j \in DOMAIN Tail(l)
          PROVE  ~Drops(slot, Tail(l)[j], n)
      <4>1. j + 1 \in DOMAIN l /\ j + 1 > i /\ Tail(l)[j] = l[j + 1]
        BY <1>1, <2>2, Rest
      <4> QED
        BY <2>1, <4>1
    <3> QED
      BY <3>1, <3>2, Zenon DEF Lists
  <2>3. CASE i # 1
    <3>1. i \in Nat /\ i - 1 \in DOMAIN Tail(l)
      BY <1>1, <2>3, Rest
    <3>2. Tail(l)[i - 1] = l[i]
      BY <1>1, <3>1
    <3>3. ASSUME NEW j \in DOMAIN Tail(l), j > i - 1
          PROVE  ~Drops(slot, Tail(l)[j], n)
      <4>1. j + 1 \in DOMAIN l /\ j + 1 > i /\ Tail(l)[j] = l[j + 1]
        BY <1>1, <3>1, <3>3, Rest
      <4> QED
        BY <2>1, <4>1
    <3> QED
      BY <2>1, <3>1, <3>2, <3>3, Zenon DEF Lists
  <2> QED
    BY <2>2, <2>3
<1> QED
  BY <1>2, <1>3, Zenon DEF Lists

\* Frames behind the line that do not drop the node.
LEMMA ListsGrown ==
  ASSUME NEW slot, NEW listed, NEW l \in Seq(Frame), NEW m, NEW F, NEW n,
         GrownTo(l, m, F), \A f \in F : ~Drops(slot, f, n), Lists(slot, listed, l, n)
  PROVE  Lists(slot, listed, m, n)
<1>1. ASSUME NEW j \in DOMAIN m, j \notin DOMAIN l
      PROVE  ~Drops(slot, m[j], n)
  BY <1>1, Zenon DEF GrownTo
<1>2. \A j \in DOMAIN l : j \in DOMAIN m /\ m[j] = l[j]
  BY Zenon DEF GrownTo
<1>3. CASE n \in listed /\ \A j \in DOMAIN l : ~Drops(slot, l[j], n)
  BY <1>1, <1>2, <1>3, Zenon DEF Lists
<1>4. CASE \E i \in DOMAIN l : Adds(l[i], n) /\ \A j \in DOMAIN l : j > i => ~Drops(slot, l[j], n)
  BY <1>1, <1>2, <1>4, Zenon DEF Lists
<1> QED
  BY <1>3, <1>4, Zenon DEF Lists

\* The frame that adds the node, last on the line.
LEMMA ListsAdded ==
  ASSUME NEW slot, NEW listed, NEW l \in Seq(Frame), NEW m, NEW f, NEW n,
         GrownTo(l, m, {f}), Len(m) = Len(l) + 1, Adds(f, n)
  PROVE  Lists(slot, listed, m, n)
<1>1. m \in Seq(Frame) /\ Len(l) \in Nat /\ DOMAIN m = 1 .. Len(l) + 1 /\ DOMAIN l = 1 .. Len(l)
  BY DEF GrownTo
<1>2. Len(l) + 1 \in DOMAIN m /\ Len(l) + 1 \notin DOMAIN l /\ \A j \in DOMAIN m : ~(j > Len(l) + 1)
  BY <1>1
<1>3. m[Len(l) + 1] = f
  BY <1>2, Zenon DEF GrownTo
<1> QED
  BY <1>2, <1>3, Zenon DEF Lists

\* The dongle rests while no port is open.
LEMMA RestStep ==
  ASSUME TypeInv, RestInv, [Next]_vars
  PROVE  RestInv'
<1> USE ConstantsAssumption
<1>1. CASE OpenFails
  BY <1>1, Zenon DEF OpenFails, RestInv, TypeInv, LoopType, threadVars, dongleVars
<1>2. CASE Open
  BY <1>2 DEF Open, RestInv, TypeInv, LoopType, threadVars, dongleVars
<1>3. CASE EnterSession
  BY <1>3, Zenon DEF EnterSession, RestInv, TypeInv, LoopType, threadVars, dongleVars
<1>4. CASE CheckPath
  BY <1>4, Zenon DEF CheckPath, RestInv, TypeInv, LoopType, threadVars, dongleVars
<1>5. CASE Idle
  BY <1>5, Zenon DEF Idle, RestInv, TypeInv, LoopType, threadVars, dongleVars
<1>6. CASE ThrottleEnd
  BY <1>6, Zenon DEF ThrottleEnd, RestInv, TypeInv, LoopType, threadVars, dongleVars
<1>7. CASE ThrottleTimeout
  BY <1>7, Zenon DEF ThrottleTimeout, RestInv, TypeInv, LoopType, threadVars, dongleVars
<1>8. CASE DelayEnd
  BY <1>8, Zenon DEF DelayEnd, RestInv, TypeInv, LoopType, threadVars, dongleVars
<1>9. CASE Pop
  BY <1>9, Zenon DEF Pop, RestInv, TypeInv, LoopType, threadVars, dongleVars
<1>10. CASE SendOk
  BY <1>10, Zenon DEF SendOk, RestInv, TypeInv, LoopType, threadVars, dongleVars
<1>11. CASE SendFail
  BY <1>11, Zenon DEF SendFail, RestInv, TypeInv, LoopType, threadVars, dongleVars
<1>12. CASE HandleFrame
  BY <1>12, Zenon DEF HandleFrame, RestInv, TypeInv, LoopType, threadVars, dongleVars
<1>13. CASE \E r \in {"none", "info", "init"} : Introspect(r)
  <2>1. pc = "introspect" /\ pc' = "connected" /\ UNCHANGED <<path, port, mode, wire>>
    BY <1>13, Zenon DEF Introspect, dongleVars
  <2> QED
    BY <2>1, Zenon DEF RestInv
<1>14. CASE DongleReceive
  <2>1. wire # None /\ port = "live" /\ UNCHANGED <<port, path, pc>>
    BY <1>14, Zenon DEF DongleReceive, hostVars, threadVars
  <2>2. wire' = None
    BY <1>14, Zenon DEF DongleReceive
  <2> QED
    BY <2>1, <2>2 DEF RestInv
<1>15. CASE RouteDone
  BY <1>15, Zenon DEF RouteDone, RestInv, hostVars, threadVars
<1>16. CASE \E s \in {"removed", "notRemoved", "nodeOk"} : RemoveFailedDone(s)
  <2>1. UNCHANGED <<path, port, pc, mode, wire>>
    BY <1>16, Zenon DEF RemoveFailedDone, hostVars, threadVars
  <2> QED
    BY <2>1, Zenon DEF RestInv
<1>17. CASE \/ \E n \in Nodes : NodeFound(n)
            \/ NodeSettled
            \/ \E s \in {"completed", "failed", "notPrimary"} : ModeEnds(s)
  <2>1. mode # None /\ wire' = wire /\ UNCHANGED <<port, path, pc>>
    BY <1>17, Zenon DEF NodeFound, NodeSettled, ModeEnds, hostVars, threadVars
  <2> QED
    BY <2>1, Zenon DEF RestInv
<1>18. CASE LineLoss
  BY <1>18, Zenon DEF LineLoss, RestInv, threadVars, dongleVars
<1>19. CASE Plug
  BY <1>19, Zenon DEF Plug, onDongleStatus, RestInv, threadVars, dongleVars
<1>20. CASE Unplug
  BY <1>20, Zenon DEF Unplug, onDongleStatus, RestInv
<1>21. CASE \E c \in Commands : Submit(c)
  <2>1. UNCHANGED <<path, port, pc, mode, wire>>
    BY <1>21, Zenon DEF Submit, threadVars, dongleVars
  <2> QED
    BY <2>1, Zenon DEF RestInv
<1>22. CASE UNCHANGED vars
  BY <1>22, Zenon DEF vars, RestInv, threadVars, dongleVars
<1>23. CASE HostStep
  BY <1>1, <1>2, <1>3, <1>4, <1>5, <1>6, <1>7, <1>8, <1>9, <1>10, <1>11, <1>12, <1>13, <1>23, Zenon DEF HostStep
<1>24. CASE DongleStep
  BY <1>14, <1>15, <1>16, <1>17, <1>24, Zenon DEF DongleStep
<1> QED
  BY <1>18, <1>19, <1>20, <1>21, <1>22, <1>23, <1>24 DEF Next

\* What a frame may do to the slot of a removal.
LEMMA SlotOf ==
  ASSUME NEW f, handleIncomingFrame(f)
  PROVE  activeFailedNodeRemoval' \in {activeFailedNodeRemoval, None}
  BY Zenon DEF handleIncomingFrame, HandleSendDataCallback, HandleRemoveFailedResponse,
         HandleRemoveFailedCallback, HandleRequestNodeInfoResponse, HandleApplicationUpdate,
         HandleAddNodeCallback, HandleRemoveNodeCallback, HandleLinkByte, slotVars

\* The steps of the host, the publishers and the link keep removals apart, if
\* each is handed over when the one before it is finished.
LEMMA RemovalHost ==
  ASSUME TypeInv, RemovalInv, RemovalsSerialized,
         HostStep \/ LineLoss \/ Plug \/ Unplug \/ \E c \in Commands : Submit(c)
  PROVE  RemovalInv'
<1> USE ConstantsAssumption
<1>1. CASE Pop
  <2>1. /\ UNCHANGED <<removing, mode, net>> /\ wire' = Head(queue) /\ cur' = Head(queue)
        /\ pc = "pop" /\ pc' = "send"
    BY <1>1, Zenon DEF Pop
  <2>2. activeFailedNodeRemoval' = IF wire'.op = "failed" THEN wire' ELSE activeFailedNodeRemoval
    BY <1>1, <2>1, Zenon DEF Pop
  <2>3. wire'.op = "failed" => removing = None
    BY <2>1 DEF RemovalsSerialized
  <2> QED
    BY <2>1, <2>2, <2>3, Zenon DEF RemovalInv, Joining
<1>2. CASE Unplug
  BY <1>2, Zenon DEF Unplug, RemovalInv, Joining
<1>3. CASE ~Pop /\ ~Unplug
  <2>1. UNCHANGED <<removing, mode, net>> /\ wire' \in {wire, None}
    BY <1>3, Zenon DEF HostStep, OpenFails, Open, Introspect, EnterSession, CheckPath, Idle, HandleFrame, SendOk, SendFail,
                ThrottleEnd, ThrottleTimeout, DelayEnd, LineLoss, Plug, Submit, dongleVars
  <2>2. activeFailedNodeRemoval' \in {activeFailedNodeRemoval, None}
    <3>1. CASE HandleFrame
      BY <3>1, SlotOf, Zenon DEF HandleFrame
    <3>2. CASE ~HandleFrame
      BY <1>3, <3>2, Zenon DEF HostStep, OpenFails, Open, Introspect, EnterSession, CheckPath, Idle, SendOk, SendFail,
                ThrottleEnd, ThrottleTimeout, DelayEnd, LineLoss, Plug, Submit, slotVars
    <3> QED
      BY <3>1, <3>2
  <2> QED
    BY <2>1, <2>2, Zenon DEF RemovalInv, Joining
<1> QED
  BY <1>1, <1>2, <1>3, Zenon

\* The dongle keeps them apart.
LEMMA RemovalDongle ==
  ASSUME TypeInv, RemovalInv, DongleStep
  PROVE  RemovalInv'
<1> USE ConstantsAssumption
<1>1. activeFailedNodeRemoval' = activeFailedNodeRemoval
  BY Zenon DEF DongleStep, DongleReceive, RouteDone, RemoveFailedDone, NodeFound, NodeSettled, ModeEnds,
         hostVars, slotVars
<1>2. CASE DongleReceive
  <2>1. Received /\ wire # None
    BY <1>2, Receiving DEF DongleReceive
  <2>2. wire' = None /\ net' = net
    BY <2>1, Zenon DEF Received
  <2>3. \A n \in Nodes : Joining(n)' => Joining(n)
    BY <2>1, Zenon DEF Received, Joining
  <2>4. removing' # None => activeFailedNodeRemoval \in {None, removing'}
    BY <2>1, Zenon DEF Received, RemovalInv
  <2>5. mode' # None /\ mode'.op = "remove" /\ mode'.joined => mode'.node \notin net
    BY <2>1, Zenon DEF Received, RemovalInv
  <2>6. \A n \in net : ~Joining(n)'
    BY <2>3, Zenon DEF RemovalInv, TypeInv, DongleType
  <2>7. ASSUME removing' # None, NEW n \in removing'.nodes
        PROVE  ~Joining(n)'
    <3>1. removing' \in Commands
      BY <2>7, DongleTypes, Zenon DEF TypeInv, DongleType
    <3>2. n \in Nodes
      BY <2>7, <3>1 DEF Command
    <3>3. CASE removing' = removing
      BY <2>3, <2>7, <3>2, <3>3, Zenon DEF RemovalInv
    <3>4. CASE removing' = wire /\ wire.nodes \subseteq net
      BY <2>6, <2>7, <3>4
    <3> QED
      BY <2>1, <3>3, <3>4, Zenon DEF Received
  <2> QED
    BY <1>1, <2>2, <2>4, <2>5, <2>6, <2>7, Zenon DEF RemovalInv
<1>3. CASE RouteDone
  BY <1>3, <1>1, Zenon DEF RouteDone, RemovalInv, Joining
<1>4. CASE \E s \in {"removed", "notRemoved", "nodeOk"} : RemoveFailedDone(s)
  <2>1. net' \subseteq net /\ removing' = None /\ UNCHANGED <<mode, wire>>
    BY <1>4, Zenon DEF RemoveFailedDone
  <2> QED
    BY <1>1, <2>1, Zenon DEF RemovalInv, Joining
<1>5. CASE \E n \in Nodes : NodeFound(n)
  <2>1. PICK n \in Nodes : NodeFound(n)
    BY <1>5
  <2>2. UNCHANGED <<net, removing, wire>>
    BY <2>1, Zenon DEF NodeFound
  <2>3. mode' = [op |-> mode.op, id |-> mode.id, node |-> n, joined |-> FALSE]
    BY <2>1, Zenon DEF NodeFound
  <2>4. \A x : Joining(x)' => x = n /\ n \notin net /\ (removing # None => n \notin removing.nodes)
    <3>1. mode'.op = mode.op /\ mode'.node = n
      BY <2>3, Zenon
    <3>2. mode.op = "add" => n \notin net
      BY <2>1, Zenon DEF NodeFound
    <3>3. removing # None => n \notin removing.nodes
      BY <2>1, Zenon DEF NodeFound
    <3> QED
      BY <3>1, <3>2, <3>3, Zenon DEF Joining
  <2>5. ~mode'.joined
    BY <2>3, Zenon
  <2>6. net' = net /\ removing' = removing /\ wire' = wire /\ activeFailedNodeRemoval' = activeFailedNodeRemoval
    BY <1>1, <2>2, Zenon
  <2>7. removing' # None => \A x \in removing'.nodes : ~Joining(x)'
    <3> SUFFICES ASSUME removing' # None, NEW x \in removing'.nodes, Joining(x)'
                 PROVE  FALSE
      BY Zenon
    <3>1. x = n /\ (removing # None => n \notin removing.nodes)
      BY <2>4, Zenon
    <3> QED
      BY <2>6, <3>1, Zenon
  <2>8. \A x \in net' : ~Joining(x)'
    <3> SUFFICES ASSUME NEW x \in net', Joining(x)'
                 PROVE  FALSE
      BY Zenon
    <3>1. x = n /\ n \notin net
      BY <2>4, Zenon
    <3> QED
      BY <2>6, <3>1, Zenon
  <2>9. /\ wire' # None /\ wire'.op = "failed" => activeFailedNodeRemoval' \in {None, wire'}
        /\ removing' # None => activeFailedNodeRemoval' \in {None, removing'}
    BY <2>6, Zenon DEF RemovalInv
  <2> QED
    BY <2>5, <2>7, <2>8, <2>9, Zenon DEF RemovalInv
<1>6. CASE NodeSettled
  <2>1. mode' = [op |-> mode.op, id |-> mode.id, node |-> mode.node, joined |-> TRUE]
    BY <1>6, Zenon DEF NodeSettled
  <2>2. \A x : ~Joining(x)'
    BY <2>1, Zenon DEF Joining
  <2>3. UNCHANGED <<removing, wire>>
    BY <1>6, Zenon DEF NodeSettled
  <2>4. mode.op = "remove" => mode.node \notin net'
    BY <1>6, Zenon DEF NodeSettled
  <2> QED
    BY <1>1, <2>1, <2>2, <2>3, <2>4, Zenon DEF RemovalInv
<1>7. CASE \E s \in {"completed", "failed", "notPrimary"} : ModeEnds(s)
  BY <1>1, <1>7, Zenon DEF ModeEnds, RemovalInv, Joining
<1> QED
  BY <1>2, <1>3, <1>4, <1>5, <1>6, <1>7, Zenon DEF DongleStep

\* A step that keeps the network and what the line tells of it.
LEMMA CoverKeeps ==
  ASSUME CoverInv, Seen' => Seen, bound' = bound,
         \A n \in Nodes : n \in net' \/ Joining(n)' => n \in net \/ Joining(n),
         \A n \in Nodes : Covered(n) => Covered(n)'
  PROVE  CoverInv'
  BY Zenon DEF CoverInv

\* A step that leaves line, registry and network alone and fills no slot.
LEMMA CoverSame ==
  ASSUME CoverInv, Seen' => Seen, UNCHANGED <<bound, registry, line, net, mode>>,
         activeFailedNodeRemoval' \in {activeFailedNodeRemoval, None}
  PROVE  CoverInv'
<1>1. \A n \in Nodes : Covered(n) => Covered(n)'
  BY ListsWithoutSlot DEF Covered
<1>2. \A n \in Nodes : n \in net' \/ Joining(n)' => n \in net \/ Joining(n)
  BY DEF Joining
<1> QED
  BY <1>1, <1>2, CoverKeeps

\* The steps of the loop and of the publishers.
LEMMA CoverLoop ==
  ASSUME TypeInv, CoverInv,
         \/ OpenFails \/ Open \/ EnterSession \/ CheckPath \/ Idle
         \/ ThrottleEnd \/ ThrottleTimeout \/ DelayEnd \/ SendFail
         \/ Plug \/ (\E c \in Commands : Submit(c))
  PROVE  CoverInv'
<1> USE ConstantsAssumption
<1>1. CASE OpenFails
  <2>1. UNCHANGED <<bound, registry, line, net, mode>>
    BY <1>1, Zenon DEF OpenFails, registryVars, dongleVars
  <2>2. activeFailedNodeRemoval' \in {activeFailedNodeRemoval, None}
    BY <1>1, Zenon DEF OpenFails, slotVars
  <2>3. Seen' => Seen
    BY <1>1, Zenon DEF OpenFails, Seen, Serving, threadVars, historyVars, LinkFault, TypeInv, RegistryType
  <2> QED
    BY <2>1, <2>2, <2>3, CoverSame, Zenon
<1>2. CASE Open
  <2>1. UNCHANGED <<bound, registry, line, net, mode>>
    BY <1>2, Zenon DEF Open, registryVars, dongleVars
  <2>2. activeFailedNodeRemoval' \in {activeFailedNodeRemoval, None}
    BY <1>2, Zenon DEF Open, slotVars
  <2>3. Seen' => Seen
    BY <1>2, Zenon DEF Open, Seen, Serving, threadVars, historyVars
  <2> QED
    BY <2>1, <2>2, <2>3, CoverSame, Zenon
<1>3. CASE EnterSession
  <2>1. UNCHANGED <<bound, registry, line, net, mode>>
    BY <1>3, Zenon DEF EnterSession, registryVars, dongleVars
  <2>2. activeFailedNodeRemoval' \in {activeFailedNodeRemoval, None}
    BY <1>3, Zenon DEF EnterSession, slotVars
  <2>3. Seen' => Seen
    BY <1>3, Zenon DEF EnterSession, Seen, Serving, threadVars, historyVars
  <2> QED
    BY <2>1, <2>2, <2>3, CoverSame, Zenon
<1>4. CASE CheckPath
  <2>1. UNCHANGED <<bound, registry, line, net, mode>>
    BY <1>4, Zenon DEF CheckPath, registryVars, dongleVars
  <2>2. activeFailedNodeRemoval' \in {activeFailedNodeRemoval, None}
    BY <1>4, Zenon DEF CheckPath, slotVars
  <2>3. Seen' => Seen
    BY <1>4, Zenon DEF CheckPath, Seen, Serving, threadVars, historyVars
  <2> QED
    BY <2>1, <2>2, <2>3, CoverSame, Zenon
<1>5. CASE Idle
  <2>1. UNCHANGED <<bound, registry, line, net, mode>>
    BY <1>5, Zenon DEF Idle, registryVars, dongleVars
  <2>2. activeFailedNodeRemoval' \in {activeFailedNodeRemoval, None}
    BY <1>5, Zenon DEF Idle, slotVars
  <2>3. Seen' => Seen
    BY <1>5, Zenon DEF Idle, Seen, Serving, threadVars, historyVars
  <2> QED
    BY <2>1, <2>2, <2>3, CoverSame, Zenon
<1>6. CASE ThrottleEnd
  <2>1. UNCHANGED <<bound, registry, line, net, mode>>
    BY <1>6, Zenon DEF ThrottleEnd, registryVars, dongleVars
  <2>2. activeFailedNodeRemoval' \in {activeFailedNodeRemoval, None}
    BY <1>6, Zenon DEF ThrottleEnd, slotVars
  <2>3. Seen' => Seen
    BY <1>6, Zenon DEF ThrottleEnd, Seen, Serving, threadVars, historyVars
  <2> QED
    BY <2>1, <2>2, <2>3, CoverSame, Zenon
<1>7. CASE ThrottleTimeout
  <2>1. UNCHANGED <<bound, registry, line, net, mode>>
    BY <1>7, Zenon DEF ThrottleTimeout, registryVars, dongleVars
  <2>2. activeFailedNodeRemoval' \in {activeFailedNodeRemoval, None}
    BY <1>7, Zenon DEF ThrottleTimeout, slotVars
  <2>3. Seen' => Seen
    BY <1>7, Zenon DEF ThrottleTimeout, Seen, Serving, threadVars, historyVars
  <2> QED
    BY <2>1, <2>2, <2>3, CoverSame, Zenon
<1>8. CASE DelayEnd
  <2>1. UNCHANGED <<bound, registry, line, net, mode>>
    BY <1>8, Zenon DEF DelayEnd, registryVars, dongleVars
  <2>2. activeFailedNodeRemoval' \in {activeFailedNodeRemoval, None}
    BY <1>8, Zenon DEF DelayEnd, slotVars
  <2>3. Seen' => Seen
    BY <1>8, Zenon DEF DelayEnd, Seen, Serving, threadVars, historyVars
  <2> QED
    BY <2>1, <2>2, <2>3, CoverSame, Zenon
<1>9. CASE SendFail
  <2>1. UNCHANGED <<bound, registry, line, net, mode>>
    BY <1>9, Zenon DEF SendFail, registryVars, dongleVars
  <2>2. activeFailedNodeRemoval' \in {activeFailedNodeRemoval, None}
    BY <1>9, Zenon DEF SendFail, slotVars
  <2>3. Seen' => Seen
    <3>1. port' = port /\ seeded' = seeded /\ pc \in Serving /\ (faults' = faults \/ faults' = faults + 1)
      BY <1>9, Zenon DEF SendFail, LinkFault, Serving
    <3>2. faults \in Nat
      BY Zenon DEF TypeInv, RegistryType
    <3>3. faults' = 0 => faults = 0
      BY <3>1, <3>2
    <3> QED
      BY <3>1, <3>3, Zenon DEF Seen
  <2> QED
    BY <2>1, <2>2, <2>3, CoverSame, Zenon
<1>10. CASE Plug
  <2>1. UNCHANGED <<bound, registry, line, net, mode>>
    BY <1>10, Zenon DEF Plug, registryVars, dongleVars
  <2>2. activeFailedNodeRemoval' \in {activeFailedNodeRemoval, None}
    BY <1>10, Zenon DEF Plug, slotVars
  <2>3. Seen' => Seen
    BY <1>10, Zenon DEF Plug, Seen, Serving, threadVars, historyVars
  <2> QED
    BY <2>1, <2>2, <2>3, CoverSame, Zenon
<1>11. CASE \E c \in Commands : Submit(c)
  <2>1. UNCHANGED <<bound, registry, line, net, mode>>
    BY <1>11, Zenon DEF Submit, registryVars, dongleVars
  <2>2. activeFailedNodeRemoval' \in {activeFailedNodeRemoval, None}
    BY <1>11, Zenon DEF Submit, slotVars
  <2>3. Seen' => Seen
    <3>1. UNCHANGED <<port, pc, seeded, faults>>
      BY <1>11, Zenon DEF Submit, threadVars, historyVars
    <3> QED
      BY <3>1, Zenon DEF Seen
  <2> QED
    BY <2>1, <2>2, <2>3, CoverSame, Zenon
<1> QED
  BY <1>1, <1>2, <1>3, <1>4, <1>5, <1>6, <1>7, <1>8, <1>9, <1>10, <1>11, Zenon

\* Introspection lists the network, a removal that is handed over fills the
\* slot while nothing on the line reads it, and an ACK tells nothing.
LEMMA CoverSend ==
  ASSUME TypeInv, RestInv, CoverInv, RemovalsSerialized,
         (\E r \in {"none", "info", "init"} : Introspect(r)) \/ Pop \/ SendOk
  PROVE  CoverInv'
<1> USE ConstantsAssumption
<1>1. CASE \E r \in {"none", "info", "init"} : Introspect(r)
  <2>1. PICK r \in {"none", "info", "init"} : Introspect(r)
    BY <1>1, Zenon
  <2>2. r = "init" => bound' /\ net \subseteq registry' /\ line' = <<>>
    BY <2>1, Zenon DEF Introspect
  <2>3. net' = net /\ mode' = None
    BY <2>1, Zenon DEF Introspect, RestInv, dongleVars
  <2>4. seeded' => r = "init"
    BY <2>1, Zenon DEF Introspect
  <2>5. \A n \in net : r = "init" => Covered(n)'
    <3>1. \A i \in DOMAIN <<>> : FALSE
      BY NoIndex, Zenon
    <3>2. r = "init" => \A j \in DOMAIN line' : FALSE
      BY <2>2, <3>1, Zenon
    <3> QED
      BY <2>2, <3>2, Zenon DEF Covered, Lists
  <2> QED
    BY <2>2, <2>3, <2>4, <2>5, Zenon DEF CoverInv, Seen, Joining
<1>2. CASE Pop
  <2>1. UNCHANGED <<bound, registry, line, net, mode>>
    BY <1>2, Zenon DEF Pop, registryVars
  <2>2. Seen' => Seen
    BY <1>2, Zenon DEF Pop, Seen, Serving, historyVars
  <2>3. CASE activeFailedNodeRemoval' = activeFailedNodeRemoval
    BY <2>1, <2>2, <2>3, CoverSame, Zenon
  <2>4. CASE activeFailedNodeRemoval' # activeFailedNodeRemoval
    <3>1. pc = "pop" /\ pc' = "send" /\ cur'.op = "failed"
      BY <1>2, <2>4, Zenon DEF Pop
    <3>2. \A i \in DOMAIN line : line[i].kind # "RemoveFailedCallback"
      BY <3>1, Zenon DEF RemovalsSerialized
    <3>3. \A n, s1, s2 : \A i \in DOMAIN line : Drops(s1, line[i], n) => Drops(s2, line[i], n)
      BY <3>2, Zenon DEF Drops
    <3>4. \A n \in Nodes : Covered(n) => Covered(n)'
      BY <2>1, <3>3, Zenon DEF Covered, Lists
    <3>5. \A n \in Nodes : n \in net' \/ Joining(n)' => n \in net \/ Joining(n)
      BY <2>1, Zenon DEF Joining
    <3> QED
      BY <2>1, <2>2, <3>4, <3>5, CoverKeeps, Zenon
  <2> QED
    BY <2>3, <2>4, Zenon
<1>3. CASE SendOk
  <2>1. /\ UNCHANGED <<bound, registry, net, mode, activeFailedNodeRemoval>>
        /\ line # <<>> /\ Head(line).kind = "Ack" /\ line' = Tail(line)
    BY <1>3, Zenon DEF SendOk, registryVars, dongleVars, slotVars
  <2>2. Seen' => Seen
    BY <1>3, Zenon DEF SendOk, Seen, Serving
  <2>3. \A n : ~Adds(Head(line), n)
    BY <2>1 DEF Adds
  <2>4. \A n \in Nodes : Covered(n) => Covered(n)'
    BY <2>1, <2>3, ListsRest, Zenon DEF Covered, TypeInv, DongleType
  <2>5. \A n \in Nodes : n \in net' \/ Joining(n)' => n \in net \/ Joining(n)
    BY <2>1, Zenon DEF Joining
  <2> QED
    BY <2>1, <2>2, <2>4, <2>5, CoverKeeps, Zenon
<1> QED
  BY <1>1, <1>2, <1>3

\* A lost frame is a fault, and a pull closes the port.
LEMMA CoverLost ==
  ASSUME TypeInv, LineLoss \/ Unplug
  PROVE  CoverInv'
<1>1. ~Seen'
  <2>1. CASE LineLoss
    <3>1. faults' = faults + 1 /\ faults \in Nat
      BY <2>1 DEF LineLoss, LinkFault, TypeInv, RegistryType
    <3> QED
      BY <3>1 DEF Seen
  <2>2. CASE Unplug
    <3>1. port' # "live"
      BY <2>2 DEF Unplug
    <3> QED
      BY <3>1 DEF Seen
  <2> QED
    BY <2>1, <2>2
<1> QED
  BY <1>1 DEF CoverInv

\* The registry follows the frame that is handled.
LEMMA CoverHandle ==
  ASSUME TypeInv, CoverInv, HandleFrame
  PROVE  CoverInv'
<1> USE ConstantsAssumption
<1> DEFINE f == Head(line)
           slot == activeFailedNodeRemoval
<1>1. line \in Seq(Frame) /\ line # <<>> /\ line' = Tail(line)
  BY Zenon DEF HandleFrame, TypeInv, DongleType
<1>2. f \in Frame /\ handleIncomingFrame(f)
  BY <1>1, Rest, Zenon DEF HandleFrame
<1>3. UNCHANGED <<bound, net, mode>>
  BY Zenon DEF HandleFrame, dongleVars
<1>4. Seen' => Seen
  BY Zenon DEF HandleFrame, Seen, Serving
<1>5. slot' \in {slot, None}
  BY <1>2, SlotOf
<1> HIDE DEF f
<1>6. ASSUME bound, NEW n \in Nodes
      PROVE  /\ n \in registry /\ ~Drops(slot, f, n) => n \in registry'
             /\ Adds(f, n) => n \in registry'
  <2>1. CASE HandleAddNodeCallback(f)
    <3>1. f.kind = "AddNode" /\ registry' \in {registry, registry \cup {f.node}}
      BY <2>1, Zenon DEF HandleAddNodeCallback, RegistryAdd
    <3>2. f.info /\ f.node = n => registry' = registry \cup {n}
      BY <1>6, <2>1, Zenon DEF HandleAddNodeCallback, RegistryAdd
    <3> QED
      BY <3>1, <3>2, Zenon DEF Adds
  <2>2. CASE HandleRemoveNodeCallback(f)
    <3>1. f.kind = "RemoveNode" /\ (registry' = registry \/ (Excludes(f) /\ registry' = registry \ {f.node}))
      BY <2>2, Zenon DEF HandleRemoveNodeCallback, RegistryRemove
    <3> QED
      BY <3>1, Zenon DEF Adds, Drops
  <2>3. CASE HandleRemoveFailedCallback(f)
    <3>1. f.kind = "RemoveFailedCallback"
      BY <2>3, Zenon DEF HandleRemoveFailedCallback
    <3>2. registry' = registry \/ (f.status = "removed" /\ NodeOf(slot) # 0 /\ registry' = registry \ {NodeOf(slot)})
      BY <2>3, Zenon DEF HandleRemoveFailedCallback, RegistryRemove
    <3>3. NodeOf(slot) # 0 => slot # None /\ NodeOf(slot) \in slot.nodes
      BY Named, Zenon DEF NodeOf, TypeInv, HostType
    <3> QED
      BY <3>1, <3>2, <3>3 DEF Adds, Drops
  <2>4. CASE ~HandleAddNodeCallback(f) /\ ~HandleRemoveNodeCallback(f) /\ ~HandleRemoveFailedCallback(f)
    <3>1. registry' = registry /\ f.kind # "AddNode"
      BY <1>2, <2>4, Zenon DEF handleIncomingFrame, HandleSendDataCallback, HandleRemoveFailedResponse,
              HandleRequestNodeInfoResponse, HandleApplicationUpdate, HandleLinkByte
    <3> QED
      BY <3>1, Zenon DEF Adds
  <2> QED
    BY <2>1, <2>2, <2>3, <2>4, Zenon
<1>7. ASSUME bound, NEW n \in Nodes, Covered(n)
      PROVE  Covered(n)'
  <2>1. Lists(slot, registry', Tail(line), n)
    BY <1>1, <1>6, <1>7, ListsRest, Zenon DEF Covered, f
  <2> QED
    <3>1. CASE slot' = slot
      BY <1>1, <2>1, <3>1, Zenon DEF Covered
    <3>2. CASE slot' = None
      BY <1>1, <2>1, <3>2, ListsWithoutSlot, Zenon DEF Covered
    <3> QED
      BY <1>5, <3>1, <3>2, Zenon
<1>8. \A n \in Nodes : n \in net' \/ Joining(n)' => n \in net \/ Joining(n)
  BY <1>3 DEF Joining
<1>9. bound' = bound
  BY <1>3
<1> QED
  BY <1>4, <1>7, <1>8, <1>9, Zenon DEF CoverInv

\* What the dongle does to its network it also reports.
LEMMA CoverDongle ==
  ASSUME TypeInv, RemovalInv, CoverInv, DongleStep
  PROVE  CoverInv'
<1> USE ConstantsAssumption
<1> DEFINE slot == activeFailedNodeRemoval
<1>1. line \in Seq(Frame)
  BY DEF TypeInv, DongleType
<1>2. UNCHANGED <<activeFailedNodeRemoval, registry, bound, seeded, faults, port, pc>>
  BY Zenon DEF DongleStep, DongleReceive, RouteDone, RemoveFailedDone, NodeFound, NodeSettled, ModeEnds,
         hostVars, slotVars, registryVars, historyVars, threadVars
<1>3. (Seen' => Seen) /\ bound' = bound
  BY <1>2 DEF Seen
<1>4. ASSUME NEW F, GrownTo(line, line', F), NEW n \in Nodes, \A f \in F : ~Drops(slot, f, n), Covered(n)
      PROVE  Covered(n)'
  <2>1. Lists(slot, registry, line', n)
    BY <1>1, <1>4, ListsGrown, Zenon DEF Covered
  <2> QED
    BY <1>2, <2>1, Zenon DEF Covered
<1>g. ASSUME NEW g, GrownTo(line, line', {g}), NEW n \in Nodes, ~Drops(slot, g, n), Covered(n)
      PROVE  Covered(n)'
  <2>1. PICK F : F = {g}
    BY Zenon
  <2>2. GrownTo(line, line', F)
    BY <1>g, <2>1, Zenon
  <2>3. \A f \in F : ~Drops(slot, f, n)
    BY <1>g, <2>1, Zenon
  <2> QED
    BY <1>4, <1>g, <2>2, <2>3, Zenon
<1>5. CASE DongleReceive
  <2>1. Received
    BY <1>5, Receiving
  <2>2. \A n \in Nodes : \A f \in Answers : ~Drops(slot, f, n)
    BY Zenon DEF Answers, Drops
  <2>3. \A n \in Nodes : n \in net' \/ Joining(n)' => n \in net \/ Joining(n)
    BY <2>1, Zenon DEF Received, Joining
  <2>4. \A n \in Nodes : Covered(n) => Covered(n)'
    BY <1>4, <2>1, <2>2, Zenon DEF Received
  <2> QED
    BY <1>3, <2>3, <2>4, CoverKeeps, Zenon
<1>6. CASE RouteDone
  <2>1. PICK x \in Nat : GrownTo(line, line', {Msg("SendDataCallback", x, None, "ok")})
    BY <1>6, Routing, Zenon
  <2>2. \A n \in Nodes : ~Drops(slot, Msg("SendDataCallback", x, None, "ok"), n)
    <3>1. Msg("SendDataCallback", x, None, "ok").kind = "SendDataCallback"
      BY Zenon DEF Msg
    <3> QED
      BY <3>1, Zenon DEF Drops
  <2>3. \A n \in Nodes : n \in net' \/ Joining(n)' => n \in net \/ Joining(n)
    BY <1>6, Zenon DEF RouteDone, Joining
  <2>4. \A n \in Nodes : Covered(n) => Covered(n)'
    BY <1>g, <2>1, <2>2, Zenon
  <2> QED
    BY <1>3, <2>3, <2>4, CoverKeeps, Zenon
<1>7. CASE \E s \in {"removed", "notRemoved", "nodeOk"} : RemoveFailedDone(s)
  <2>1. PICK s \in {"removed", "notRemoved", "nodeOk"} : RemoveFailedDone(s)
    BY <1>7
  <2> DEFINE g == Msg("RemoveFailedCallback", removing.id, None, s)
  <2>2. GrownTo(line, line', {g})
    BY <2>1, Operating, Zenon
  <2>3. ASSUME NEW n \in Nodes, n \in net' \/ Joining(n)'
        PROVE  (n \in net \/ Joining(n)) /\ ~Drops(slot, g, n)
    <3>1. mode' = mode /\ net' = IF s = "removed" THEN net \ removing.nodes ELSE net
      BY <2>1, Zenon DEF RemoveFailedDone
    <3>2. n \in net \/ Joining(n)
      BY <2>3, <3>1, Zenon DEF Joining
    <3>3. removing # None /\ slot \in {None, removing} /\ \A x \in removing.nodes : ~Joining(x)
      BY <2>1, Zenon DEF RemoveFailedDone, RemovalInv
    <3>4. s = "removed" => n \notin removing.nodes
      BY <2>3, <3>1, <3>3, Zenon DEF Joining
    <3>5. ~Drops(slot, g, n)
      BY <3>3, <3>4, Zenon DEF Drops, Msg
    <3> QED
      BY <3>2, <3>5, Zenon
  <2> HIDE DEF g
  <2>4. ASSUME NEW n \in Nodes, n \in net' \/ Joining(n)', Covered(n)
        PROVE  Covered(n)'
    <3>1. ~Drops(slot, g, n)
      BY <2>3, <2>4, Zenon
    <3> QED
      BY <1>g, <2>2, <2>4, <3>1, Zenon
  <2> QED
    BY <1>3, <2>3, <2>4, Zenon DEF CoverInv
<1>8. CASE \E n \in Nodes : NodeFound(n)
  <2>1. PICK m \in Nodes : NodeFound(m)
    BY <1>8
  <2> DEFINE g == Callback(m, "ongoing", mode.op = "add")
  <2>2. GrownTo(line, line', {g}) /\ Len(line') = Len(line) + 1
    BY <2>1, Operating, Zenon
  <2>3. mode \in Mode /\ net' = net /\ mode' = [op |-> mode.op, id |-> mode.id, node |-> m, joined |-> FALSE]
    BY <2>1, Zenon DEF NodeFound, TypeInv, DongleType
  <2>4. \A n \in Nodes : ~Drops(slot, g, n)
    BY <2>3 DEF Mode, Callback, SessionCommand, NodeCallback, Drops, Excludes
  <2>5. \A n \in Nodes : Joining(n)' => Adds(g, n)
    BY <2>3, Zenon DEF Joining, Callback, SessionCommand, NodeCallback, Adds
  <2> HIDE DEF g
  <2>6. \A n \in Nodes : Joining(n)' => Covered(n)'
    BY <1>1, <2>2, <2>5, ListsAdded, Zenon DEF Covered
  <2>7. \A n \in Nodes : Covered(n) => Covered(n)'
    BY <1>g, <2>2, <2>4, Zenon
  <2> QED
    BY <1>3, <2>3, <2>6, <2>7, Zenon DEF CoverInv
<1>9. CASE NodeSettled
  <2> DEFINE g == Callback(mode.node, "protocolDone", FALSE)
  <2>1. GrownTo(line, line', {g})
    BY <1>9, Operating, Zenon
  <2>2. /\ mode \in Mode /\ mode # None /\ mode.node # None /\ ~mode.joined
        /\ net' = IF mode.op = "add" THEN net \cup {mode.node} ELSE net \ {mode.node}
        /\ mode'.joined
    BY <1>9, Zenon DEF NodeSettled, TypeInv, DongleType
  <2>3. ASSUME NEW n \in Nodes, n \in net' \/ Joining(n)'
        PROVE  (n \in net \/ Joining(n)) /\ ~Drops(slot, g, n)
    <3>1. n \in net'
      BY <2>2, <2>3 DEF Joining
    <3>2. n \in net \/ Joining(n)
      BY <2>2, <3>1 DEF Joining, Mode
    <3>3. ~Drops(slot, g, n)
      BY <2>2, <3>1 DEF Mode, Callback, SessionCommand, NodeCallback, Drops
    <3> QED
      BY <3>2, <3>3, Zenon
  <2> HIDE DEF g
  <2>4. ASSUME NEW n \in Nodes, n \in net' \/ Joining(n)', Covered(n)
        PROVE  Covered(n)'
    <3>1. ~Drops(slot, g, n)
      BY <2>3, <2>4, Zenon
    <3> QED
      BY <1>g, <2>1, <2>4, <3>1, Zenon
  <2> QED
    BY <1>3, <2>3, <2>4, Zenon DEF CoverInv
<1>10. CASE \E s \in {"completed", "failed", "notPrimary"} : ModeEnds(s)
  <2>1. PICK s \in {"completed", "failed", "notPrimary"} : ModeEnds(s)
    BY <1>10
  <2> DEFINE g == Callback(mode.node, s, FALSE)
  <2>2. GrownTo(line, line', {g})
    BY <2>1, Operating, Zenon
  <2>3. mode \in Mode /\ mode # None /\ mode' = None /\ net' = net /\ mode.joined = (s = "completed")
    BY <2>1, Zenon DEF ModeEnds, TypeInv, DongleType
  <2>4. ASSUME NEW n \in Nodes, n \in net' \/ Joining(n)'
        PROVE  n \in net /\ ~Drops(slot, g, n)
    <3>1. n \in net
      BY <2>3, <2>4 DEF Joining
    <3>2. mode.op = "remove" /\ mode.joined => mode.node # n
      BY <2>3, <3>1, Zenon DEF RemovalInv
    <3>3. ~Drops(slot, g, n)
      BY <2>3, <3>2 DEF Mode, Callback, SessionCommand, NodeCallback, Drops, Excludes
    <3> QED
      BY <3>1, <3>3, Zenon
  <2> HIDE DEF g
  <2>5. ASSUME NEW n \in Nodes, n \in net' \/ Joining(n)', Covered(n)
        PROVE  Covered(n)'
    <3>1. ~Drops(slot, g, n)
      BY <2>4, <2>5, Zenon
    <3> QED
      BY <1>g, <2>2, <2>5, <3>1, Zenon
  <2> QED
    BY <1>3, <2>4, <2>5, Zenon DEF CoverInv
<1> QED
  BY <1>5, <1>6, <1>7, <1>8, <1>9, <1>10, Zenon DEF DongleStep

NetworkInv == TypeInv /\ RestInv /\ RemovalInv /\ CoverInv

\* The network and the registry stay together as long as removals are handed
\* over one after the other.
LEMMA NetworkStep ==
  ASSUME NetworkInv, [Next]_vars, [RemovalsSerialized]_vars
  PROVE  NetworkInv'
<1>1. TypeInv' /\ RestInv'
  BY TypeStep, RestStep DEF NetworkInv
<1>2. CASE UNCHANGED vars
  <2>1. RemovalInv'
    BY <1>2, Zenon DEF NetworkInv, vars, RemovalInv, Joining, slotVars, dongleVars
  <2>2. CoverInv'
    BY <1>2, CoverSame, Zenon DEF NetworkInv, vars, Seen, slotVars, registryVars, dongleVars, threadVars, historyVars
  <2> QED
    BY <1>1, <2>1, <2>2 DEF NetworkInv
<1>3. CASE Next /\ RemovalsSerialized
  <2>1. RemovalInv'
    BY <1>3, RemovalHost, RemovalDongle DEF NetworkInv, Next
  <2>2. CoverInv'
    <3>1. CASE HostStep
      BY <1>3, <3>1, CoverLoop, CoverSend, CoverHandle DEF NetworkInv, HostStep
    <3>2. CASE DongleStep
      BY <3>2, CoverDongle DEF NetworkInv
    <3>3. CASE LineLoss \/ Plug \/ Unplug \/ \E c \in Commands : Submit(c)
      BY <3>3, CoverLoop, CoverLost DEF NetworkInv
    <3> QED
      BY <1>3, <3>1, <3>2, <3>3 DEF Next
  <2> QED
    BY <1>1, <2>1, <2>2 DEF NetworkInv
<1> QED
  BY <1>2, <1>3

\* ProtocolThread.cpp keeps the registry by the callbacks alone.  If it were so
\* that "Only one removal is in flight at a time" (ProtocolThread.cpp:126),
\* GetNodes would list every node of the network whenever no callback is left
\* to handle.  The queue does not see to it: without RemovalsSerialized the
\* callback of one removal takes the node of the next out of the registry.
THEOREM RegistryComplete ==
  Spec /\ [][RemovalsSerialized]_vars => []RegistryCoversNetwork
<1>1. Init => NetworkInv
  <2> SUFFICES ASSUME Init PROVE NetworkInv
    OBVIOUS
  <2>1. mode = None /\ removing = None /\ wire = None /\ port = "closed"
    BY DEF Init
  <2>2. RestInv
    BY <2>1 DEF RestInv
  <2>3. RemovalInv
    BY <2>1 DEF RemovalInv, Joining
  <2>4. CoverInv
    BY <2>1 DEF CoverInv, Seen
  <2> QED
    BY <2>2, <2>3, <2>4, TypeInit DEF NetworkInv
<1>2. NetworkInv /\ [Next]_vars /\ [RemovalsSerialized]_vars => NetworkInv'
  BY NetworkStep
<1>3. NetworkInv => RegistryCoversNetwork
  <2> SUFFICES ASSUME NetworkInv, seeded, faults = 0, pc \in Serving, port = "live", line = <<>>,
                      NEW n \in net
               PROVE  n \in registry
    BY DEF RegistryCoversNetwork
  <2>1. n \in Nodes /\ Seen
    BY DEF NetworkInv, TypeInv, DongleType, Seen
  <2>2. Covered(n)
    BY <2>1 DEF NetworkInv, CoverInv
  <2> QED
    BY <2>2 DEF Covered, Lists
<1> QED
  BY <1>1, <1>2, <1>3, PTL DEF Spec
=============================================================================
