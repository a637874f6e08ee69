--------------------------- MODULE ProtocolThread ---------------------------
(* The protocol thread of zwaved (zwave-protocol/ProtocolThread.cpp): the     *)
(* request queue that the bus-command handlers fill, the connect /            *)
(* introspect / serve cycle over the serial port, the throttle on SendData,   *)
(* and the handling of the frames the dongle sends.  The node registry is     *)
(* kept to the set of nodes it lists; module NodeRegistry has the rest.       *)
(*                                                                            *)
(* FrameTransport::sendRequest is one interval, pc = "send": the dongle       *)
(* may receive the request and inbound frames are handled until the call      *)
(* returns true or false.  The dongle and its network are external.           *)
EXTENDS Integers, Sequences, Functions

CONSTANTS Nodes,        \* nodes that can join the network
          Controller,   \* the dongle's own node id
          Secure,       \* nodes bootstrapped with S0 or S2
          Commands,     \* the bus commands that may be published, each queued once
          Joined,       \* nodes in the network at the start
          MaxFaults,    \* bound on failures of the serial link
          MaxUnplugs,   \* bound on how often the dongle is pulled
          MaxQueue,     \* bound on the length of the queue
          None

Ops == {"add", "addStop", "remove", "removeStop", "failed", "info", "send", "multi"}

\* id is the session id or the callback id; raw marks payloads of CC 0x98/0x9F
Command == [op : Ops, id : Nat, nodes : SUBSET Nodes, raw : BOOLEAN]

ASSUME ConstantsAssumption ==
    /\ Controller \notin Nodes
    /\ None \notin Nodes \cup {Controller} /\ None \notin Command /\ None \notin Nat
    /\ Secure \subseteq Nodes /\ Joined \subseteq Nodes
    /\ Commands \subseteq Command
    /\ \A c \in Commands : c.op \in {"failed", "info", "send"} => \E n \in Nodes : c.nodes = {n}
    /\ MaxFaults \in Nat /\ MaxUnplugs \in Nat /\ MaxQueue \in Nat

VARIABLES
    \* ZwaveProtocolState and the locals of runConnectedSession
    queue, path, activeFailedNodeRemoval, activeRequestNodeInfo,
    pendingInclusion, tracker, pendingSendData,
    pc, cur, port,
    \* the bus: the retained SessionStatus and what the last step published
    session, bus,
    \* NodeRegistry: is a home bound, and the nodes it lists
    bound, registry,
    \* the dongle: its network, running operations and the frames on the line
    \* and the request on its way to it
    net, mode, routing, removing, wire, line,
    \* history: commands published, pulls, waits given up, nodes found, whether
    \* the last introspection read the node bitmap, failures of the link
    submitted, unplugs, waived, found, seeded, faults

slotVars == <<activeFailedNodeRemoval, activeRequestNodeInfo, pendingInclusion>>
sessionVars == <<tracker, pendingSendData, session>>
threadVars == <<pc, cur, port>>
registryVars == <<bound, registry>>
dongleVars == <<net, mode, routing, removing, wire>>
historyVars == <<unplugs, waived, found, seeded, faults>>
vars == <<queue, path, slotVars, sessionVars, threadVars, bus, registryVars, dongleVars, line, submitted, historyVars>>

\* A frame on the line, or an event on the bus
Msg(kind, id, node, status) ==
    [kind |-> kind, id |-> id, node |-> node, status |-> status]

\* An AddNode or RemoveNode callback; info: it carries device class or CC list
NodeCallback(kind, id, node, status, info) ==
    [kind |-> kind, id |-> id, node |-> node, status |-> status, info |-> info]

IsSendData(c) == c.op \in {"send", "multi"}
TheNode(c) == CHOOSE n \in c.nodes : TRUE
Serving == {"top", "pop", "send", "throttle", "delay"}

SessionStatus(command, id) == [active |-> TRUE, command |-> command, id |-> id]
NoSession == [active |-> FALSE, command |-> None, id |-> 0]

Init ==
    /\ queue = <<>> /\ path \in BOOLEAN
    /\ activeFailedNodeRemoval = None /\ activeRequestNodeInfo = None
    /\ pendingInclusion = None /\ tracker = None /\ pendingSendData = None
    /\ pc = "await" /\ cur = None /\ port = "closed"
    /\ session = NoSession /\ bus = {}
    /\ bound = FALSE /\ registry = {}
    /\ net = Joined /\ mode = None /\ routing = {}
    /\ removing = None /\ wire = None /\ line = <<>>
    /\ submitted = {} /\ unplugs = 0 /\ waived = {} /\ found = {}
    /\ seeded = FALSE /\ faults = 0

\* A step of the link that may go wrong MaxFaults times
LinkFault == faults < MaxFaults /\ faults' = faults + 1

-----------------------------------------------------------------------------
(* Bus-command handlers, on the publisher's thread. *)

pushRequest(c) == queue' = Append(queue, c) /\ bus' = {}

\* A plain payload for a secure node goes to the security layer instead
pushSendData(c) ==
    IF ~c.raw /\ c.nodes \subseteq Secure
    THEN bus' = {Msg("SecureSendRequest", c.id, TheNode(c), None)} /\ UNCHANGED queue
    ELSE pushRequest(c)

\* A multicast is refused when empty or when any target is secure
onSendDataMulticast(c) ==
    IF c.nodes = {} \/ c.nodes \cap Secure # {}
    THEN bus' = {Msg("SendDataCallback", c.id, None, "fail")} /\ UNCHANGED queue
    ELSE pushRequest(c)

\* The fifty or so commands that encode a payload for one node
onNodeMessage(c) == c.op = "send" /\ pushSendData(c)

\* Inclusion, exclusion, failed-node removal and node info
onControllerCommand(c) == ~IsSendData(c) /\ pushRequest(c)

\* A command is published and its handler of subscribeBus runs
Submit(c) ==
    /\ c \notin submitted /\ Len(queue) < MaxQueue
    /\ \/ onControllerCommand(c)
       \/ onNodeMessage(c)
       \/ c.op = "multi" /\ onSendDataMulticast(c)
    /\ submitted' = IF queue' = queue THEN submitted ELSE submitted \cup {c}
    /\ UNCHANGED <<path, slotVars, sessionVars, threadVars, registryVars,
                   dongleVars, line, historyVars>>

onDongleStatus(connected) == path' = connected /\ bus' = {}

\* The monitor thread publishes DongleStatus
Plug ==
    /\ ~path
    /\ onDongleStatus(TRUE)
    /\ UNCHANGED <<queue, slotVars, sessionVars, threadVars, registryVars,
                   dongleVars, line, submitted, historyVars>>

\* Pulling the dongle ends its operations; an open port keeps a dead descriptor
Unplug ==
    /\ path /\ unplugs < MaxUnplugs
    /\ onDongleStatus(FALSE)
    /\ port' = IF port = "live" THEN "dead" ELSE port
    /\ line' = <<>> /\ mode' = None /\ routing' = {} /\ removing' = None
    /\ wire' = None
    /\ unplugs' = unplugs + 1
    /\ UNCHANGED <<queue, slotVars, sessionVars, pc, cur, registryVars, net,
                   submitted, waived, found, seeded, faults>>

-----------------------------------------------------------------------------
(* Frames from the dongle: handleIncomingFrame, one disjunct per decoder.     *)

\* NodeRegistry::add and remove do nothing while no home is bound
RegistryAdd(n) == registry' = IF bound THEN registry \cup {n} ELSE registry
RegistryRemove(n) == registry' = IF bound THEN registry \ {n} ELSE registry

NodeOf(slot) == IF slot = None THEN 0 ELSE TheNode(slot)
IdOf(slot) == IF slot = None THEN 0 ELSE slot.id

HandleSendDataCallback(f) ==
    /\ f.kind = "SendDataCallback"
    /\ bus' = {f}
    /\ UNCHANGED <<slotVars, tracker, session, registry>>

\* handleRemoveFailedNodeFrame, the response
HandleRemoveFailedResponse(f) ==
    /\ f.kind = "RemoveFailedResponse"
    /\ bus' = {Msg("RemoveFailedNodeStatus", IdOf(activeFailedNodeRemoval),
                   NodeOf(activeFailedNodeRemoval), f.status)}
    /\ activeFailedNodeRemoval' =
          IF f.status = "started" THEN activeFailedNodeRemoval ELSE None
    /\ UNCHANGED <<activeRequestNodeInfo, pendingInclusion, tracker, session, registry>>

\* handleRemoveFailedNodeFrame, the callback: it names the session, not the node
HandleRemoveFailedCallback(f) ==
    /\ f.kind = "RemoveFailedCallback"
    /\ LET node == NodeOf(activeFailedNodeRemoval)
       IN /\ bus' = {Msg("RemoveFailedNodeStatus", f.id, node, f.status)}
          /\ IF f.status = "removed" /\ node # 0
             THEN RegistryRemove(node) ELSE UNCHANGED registry
    /\ activeFailedNodeRemoval' = None
    /\ UNCHANGED <<activeRequestNodeInfo, pendingInclusion, tracker, session>>

HandleRequestNodeInfoResponse(f) ==
    /\ f.kind = "NodeInfoResponse"
    /\ bus' = {Msg("RequestNodeInfoStatus", IdOf(activeRequestNodeInfo),
                   NodeOf(activeRequestNodeInfo), f.status)}
    /\ activeRequestNodeInfo' = None
    /\ UNCHANGED <<activeFailedNodeRemoval, pendingInclusion, tracker, session, registry>>

\* updateDeviceClass and updateCommandClasses only touch nodes already listed
HandleApplicationUpdate(f) ==
    /\ f.kind = "ApplicationUpdate"
    /\ bus' = {Msg("NodeInfoUpdate", 0, f.node, f.status)}
    /\ UNCHANGED <<slotVars, tracker, session, registry>>

isTerminalStatus(status) == status \in {"completed", "failed", "notPrimary"}

\* The events of a terminal node callback: NodeIncluded, then no session
EndSession(f, pending) ==
    /\ bus' = {f} \cup
              (IF f.kind = "AddNode" /\ pending # None
               THEN {Msg("NodeIncluded", 0, pending, f.status)} ELSE {})
    /\ pendingInclusion' = None
    /\ tracker' = None
    /\ session' = NoSession

\* An AddNode callback registers its node as soon as it carries node info
HandleAddNodeCallback(f) ==
    /\ f.kind = "AddNode"
    /\ IF f.node # None /\ f.info THEN RegistryAdd(f.node) ELSE UNCHANGED registry
    /\ LET pending == IF f.node # None /\ f.info THEN f.node ELSE pendingInclusion
       IN \/ isTerminalStatus(f.status) /\ EndSession(f, pending)
          \/ /\ ~isTerminalStatus(f.status)
             /\ bus' = {f}
             /\ pendingInclusion' = pending
             /\ UNCHANGED <<tracker, session>>
    /\ UNCHANGED <<activeFailedNodeRemoval, activeRequestNodeInfo>>

\* Mutant: the node is dropped as soon as the exclusion names it
Excludes_AnyStatus(f) == f.node # None

\* A RemoveNode callback that takes its node out of the registry
Excludes(f) == f.node # None /\ f.status \in {"protocolDone", "completed"}

HandleRemoveNodeCallback(f) ==
    /\ f.kind = "RemoveNode"
    /\ IF Excludes(f) THEN RegistryRemove(f.node) ELSE UNCHANGED registry
    /\ \/ isTerminalStatus(f.status) /\ EndSession(f, None)
       \/ /\ ~isTerminalStatus(f.status)
          /\ bus' = {f}
          /\ UNCHANGED <<pendingInclusion, tracker, session>>
    /\ UNCHANGED <<activeFailedNodeRemoval, activeRequestNodeInfo>>

\* Outside a send a link byte is dropped by pumpOnce
HandleLinkByte(f) ==
    /\ f.kind = "Ack" /\ pc # "send"
    /\ bus' = {}
    /\ UNCHANGED <<slotVars, tracker, session, registry>>

handleIncomingFrame(f) ==
    \/ HandleSendDataCallback(f)
    \/ HandleRemoveFailedResponse(f)
    \/ HandleRemoveFailedCallback(f)
    \/ HandleRequestNodeInfoResponse(f)
    \/ HandleApplicationUpdate(f)
    \/ HandleAddNodeCallback(f)
    \/ HandleRemoveNodeCallback(f)
    \/ HandleLinkByte(f)

\* Mutant: any SendData callback opens the gate
ClearGate_AnyCallback(f) ==
    pendingSendData' = IF f.kind = "SendDataCallback" THEN None ELSE pendingSendData

\* The transport handler of runConnectedSession opens the gate first
ClearGate(f) ==
    pendingSendData' = IF f.kind = "SendDataCallback" /\ f.id = pendingSendData
                       THEN None ELSE pendingSendData

\* A frame is read and handled: idle in the loop, in sendRequest, or throttled
HandleFrame ==
    /\ \/ pc = "pop" /\ queue = <<>> /\ pc' = "top"
       \/ pc \in {"send", "throttle"} /\ UNCHANGED pc
    /\ port = "live" /\ line # <<>>
    /\ ClearGate(Head(line))
    /\ handleIncomingFrame(Head(line))
    /\ line' = Tail(line)
    /\ found' = found \cup {n \in Nodes : \E f \in {Head(line)} :
                               f.kind = "AddNode" /\ f.info /\ f.node = n}
    /\ UNCHANGED <<queue, path, cur, port, bound, dongleVars,
                   submitted, unplugs, waived, seeded, faults>>

-----------------------------------------------------------------------------
(* The loop of zwaveCommunicationThread. *)

OpenFails ==
    /\ pc = "await" /\ path
    /\ LinkFault
    /\ bus' = {Msg("DaemonError", 0, None, "openFailed")}
    /\ UNCHANGED <<queue, path, slotVars, sessionVars, threadVars, registryVars,
                   dongleVars, line, submitted, unplugs, waived, found, seeded>>

Open ==
    /\ pc = "await" /\ path
    /\ port' = "live" /\ pc' = "introspect" /\ bus' = {}
    /\ UNCHANGED <<queue, path, slotVars, sessionVars, cur, registryVars, dongleVars, line, submitted, historyVars>>

\* introspectDongle and what its result feeds: nothing, the identity only, or
\* the identity and the node bitmap.  Its own transport drops other frames.
Introspect(result) ==
    /\ pc = "introspect"
    /\ \/ result = "init" /\ port = "live" /\ UNCHANGED faults
       \/ result \in {"none", "info"} /\ port = "dead" /\ UNCHANGED faults
       \/ result \in {"none", "info"} /\ port = "live" /\ LinkFault
    /\ bound' = (bound \/ result # "none")
    /\ registry' = IF result = "init" THEN registry \cup net \cup {Controller}
                                      ELSE registry
    /\ seeded' = (result = "init")
    /\ bus' = {Msg("Introspection", 0, None, result)}
    /\ line' = <<>>
    /\ pc' = "connected"
    /\ UNCHANGED <<queue, path, slotVars, sessionVars, cur, port,
                   dongleVars, submitted, unplugs, waived, found>>

\* Mutant: the stashed inclusion of the previous connection is kept
EnterSession_KeepsInclusion ==
    /\ pc = "connected"
    /\ queue' = <<>>
    /\ activeFailedNodeRemoval' = None /\ activeRequestNodeInfo' = None
    /\ tracker' = None /\ pendingSendData' = None
    /\ found' = {} /\ bus' = {}
    /\ pc' = "top"
    /\ UNCHANGED <<path, pendingInclusion, session, cur, port, registryVars, dongleVars,
                   line, submitted, unplugs, waived, seeded, faults>>

\* clearRequests, the resets, and the fresh locals of runConnectedSession
EnterSession ==
    /\ pc = "connected"
    /\ queue' = <<>>
    /\ activeFailedNodeRemoval' = None /\ activeRequestNodeInfo' = None
    /\ pendingInclusion' = None
    /\ tracker' = None /\ pendingSendData' = None
    /\ found' = {} /\ bus' = {}
    /\ pc' = "top"
    /\ UNCHANGED <<path, session, cur, port, registryVars, dongleVars,
                   line, submitted, unplugs, waived, seeded, faults>>

\* The head of the loop: with no path the port is closed and the session over
CheckPath ==
    /\ pc = "top"
    /\ \/ path /\ pc' = "pop" /\ UNCHANGED port
       \/ ~path /\ pc' = "await" /\ port' = "closed"
    /\ bus' = {}
    /\ UNCHANGED <<queue, path, slotVars, sessionVars, cur, registryVars, dongleVars, line, submitted, historyVars>>

\* popRequest and pumpOnce both time out
Idle ==
    /\ pc = "pop" /\ queue = <<>> /\ (line = <<>> \/ port = "dead")
    /\ pc' = "top" /\ bus' = {}
    /\ UNCHANGED <<queue, path, slotVars, sessionVars, cur, port, registryVars, dongleVars, line, submitted, historyVars>>

SessionCommand(c) == CASE c.op = "add" -> "AddNode" [] c.op = "remove" -> "RemoveNode"

\* dispatchRequest up to sendRequest: the slot or the session is opened first
Pop ==
    /\ pc = "pop" /\ queue # <<>>
    /\ LET c == Head(queue) IN
          /\ cur' = c
          /\ IF c.op \in {"add", "remove"}
             THEN /\ tracker' = SessionStatus(SessionCommand(c), c.id)
                  /\ session' = SessionStatus(SessionCommand(c), c.id)
             ELSE UNCHANGED <<tracker, session>>
          /\ activeFailedNodeRemoval' =
                IF c.op = "failed" THEN c ELSE activeFailedNodeRemoval
          /\ activeRequestNodeInfo' =
                IF c.op = "info" THEN c ELSE activeRequestNodeInfo
    /\ queue' = Tail(queue)
    /\ pc' = "send" /\ wire' = Head(queue) /\ bus' = {}
    /\ UNCHANGED <<path, pendingInclusion, pendingSendData, port, registryVars, net, mode, routing, removing, line,
                   submitted, historyVars>>

\* sendRequest returns true: the throttle starts, or a fixed delay
SendOk ==
    /\ pc = "send" /\ port = "live"
    /\ line # <<>> /\ Head(line).kind = "Ack" /\ line' = Tail(line)
    /\ IF IsSendData(cur) /\ cur.id # 0
       THEN pc' = "throttle" /\ pendingSendData' = cur.id /\ UNCHANGED waived
       ELSE /\ pc' = IF IsSendData(cur) THEN "delay" ELSE "top"
            /\ waived' = IF IsSendData(cur) THEN waived \cup {0} ELSE waived
            /\ UNCHANGED pendingSendData
    /\ bus' = {}
    /\ UNCHANGED <<queue, path, slotVars, tracker, session, cur, port, registryVars,
                   dongleVars, submitted, unplugs, found, seeded, faults>>

\* Mutant: a failed send is only logged
FailureStatus_LogOnly(c) == {}

\* What dispatchRequest publishes in place of the answer that will not come
FailureStatus(c) ==
    CASE c.op = "failed" -> {Msg("RemoveFailedNodeStatus", c.id, TheNode(c), "removeFail")}
      [] c.op = "info"   -> {Msg("RequestNodeInfoStatus", c.id, TheNode(c), "rejected")}
      [] IsSendData(c)   -> {Msg("SendDataCallback", c.id, None, "fail")}
      [] OTHER           -> {}

\* The dongle is still routing and answers every attempt with CAN
Refused == IsSendData(cur) /\ wire = cur /\ routing # {}

\* The ACK of this request was lost
AckLost == wire = None /\ \A i \in DOMAIN line : line[i].kind # "Ack"

\* sendRequest returns false when its retry budget is spent
SendFail ==
    /\ pc = "send"
    /\ \/ /\ port = "dead" \/ Refused \/ AckLost
          /\ wire' = None /\ UNCHANGED faults
       \/ /\ port = "live" /\ LinkFault
          /\ wire' \in {None, wire}
    /\ bus' = FailureStatus(cur)
    /\ activeFailedNodeRemoval' =
          IF cur.op = "failed" THEN None ELSE activeFailedNodeRemoval
    /\ activeRequestNodeInfo' = IF cur.op = "info" THEN None ELSE activeRequestNodeInfo
    /\ waived' = IF IsSendData(cur) THEN waived \cup {cur.id} ELSE waived
    /\ pc' = "top"
    /\ UNCHANGED <<queue, path, pendingInclusion, sessionVars, cur, port, registryVars,
                   net, mode, routing, removing, line, submitted, unplugs,
                   found, seeded>>

\* The completion callback has opened the gate
ThrottleEnd ==
    /\ pc = "throttle" /\ pendingSendData = None
    /\ pc' = "top" /\ bus' = {}
    /\ UNCHANGED <<queue, path, slotVars, sessionVars, cur, port, registryVars,
                   dongleVars, line, submitted, historyVars>>

\* Mutant: the wait has no deadline
ThrottleTimeout_Never == FALSE /\ UNCHANGED vars

\* SEND_DATA_CALLBACK_TIMEOUT_MS passes without the callback
ThrottleTimeout ==
    /\ pc = "throttle" /\ pendingSendData # None
    /\ pendingSendData' = None
    /\ waived' = waived \cup {pendingSendData}
    /\ pc' = "top" /\ bus' = {}
    /\ UNCHANGED <<queue, path, slotVars, tracker, session, cur, port, registryVars,
                   dongleVars, line, submitted, unplugs, found, seeded, faults>>

\* SEND_DATA_NO_CALLBACK_DELAY_MS is over
DelayEnd ==
    /\ pc = "delay"
    /\ pc' = "top" /\ bus' = {}
    /\ UNCHANGED <<queue, path, slotVars, sessionVars, cur, port, registryVars,
                   dongleVars, line, submitted, historyVars>>

HostStep ==
    \/ OpenFails \/ Open \/ \E r \in {"none", "info", "init"} : Introspect(r)
    \/ EnterSession \/ CheckPath \/ Idle \/ Pop \/ HandleFrame
    \/ SendOk \/ SendFail \/ ThrottleEnd \/ ThrottleTimeout \/ DelayEnd

-----------------------------------------------------------------------------
(* The dongle (external): it acknowledges a request, runs one operation of a  *)
(* kind at a time and reports on the line.                                    *)

Ack == Msg("Ack", 0, None, None)
hostVars == <<queue, path, slotVars, sessionVars, threadVars, registryVars,
              submitted, historyVars>>

\* It refuses a SendData while it routes another (the refusal is SendFail's)
AcceptSendData ==
    /\ IsSendData(wire) /\ routing = {}
    /\ routing' = {wire.id}
    /\ line' = Append(line, Ack)
    /\ UNCHANGED <<mode, removing>>

AcceptRemoveFailed ==
    /\ wire.op = "failed"
    /\ \E status \in IF removing # None THEN {"busy"}
                     ELSE {"notFound"} \cup {s \in {"started"} : wire.nodes \subseteq net} :
          /\ line' = line \o <<Ack, Msg("RemoveFailedResponse", 0, None, status)>>
          /\ removing' = IF status = "started" THEN wire ELSE removing
    /\ UNCHANGED <<mode, routing>>

\* The node's answer to an accepted request may or may not come
AcceptNodeInfo ==
    /\ wire.op = "info"
    /\ \E status \in {"accepted", "rejected"}, update \in {<<>>, <<"received">>} :
          /\ status = "rejected" => update = <<>>
          /\ line' = line \o <<Ack, Msg("NodeInfoResponse", 0, None, status)>>
                          \o [i \in DOMAIN update |->
                                Msg("ApplicationUpdate", 0, TheNode(wire), update[i])]
    /\ UNCHANGED <<mode, routing, removing>>

\* A second start is ignored while an inclusion or exclusion runs
AcceptMode ==
    /\ wire.op \in {"add", "remove"}
    /\ line' = Append(line, Ack)
    /\ mode' = IF mode = None
               THEN [op |-> wire.op, id |-> wire.id, node |-> None, joined |-> FALSE]
               ELSE mode
    /\ UNCHANGED <<routing, removing>>

Callback(node, status, info) ==
    NodeCallback(SessionCommand(mode), mode.id, node, status, info)

\* A stop ends the mode unless a node is in the middle of it, and is echoed as
\* completed even when nothing runs
AcceptStop ==
    /\ wire.op \in {"addStop", "removeStop"}
    /\ IF mode # None /\ mode.node # None /\ ~mode.joined
       THEN line' = Append(line, Ack) /\ UNCHANGED mode
       ELSE /\ mode' = None
            /\ line' = line \o <<Ack, NodeCallback(
                          IF wire.op = "addStop" THEN "AddNode" ELSE "RemoveNode",
                          wire.id, None, "completed", FALSE)>>
    /\ UNCHANGED <<routing, removing>>

DongleReceive ==
    /\ wire # None /\ port = "live"
    /\ AcceptSendData \/ AcceptRemoveFailed \/ AcceptNodeInfo \/ AcceptMode \/ AcceptStop
    /\ wire' = None /\ bus' = {}
    /\ UNCHANGED <<hostVars, net>>

\* It reports the completion of what it routed if a callback was asked for
RouteDone ==
    /\ \E id \in routing :
          line' = IF id = 0 THEN line ELSE Append(line, Msg("SendDataCallback", id, None, "ok"))
    /\ routing' = {} /\ bus' = {}
    /\ UNCHANGED <<hostVars, net, mode, removing, wire>>

RemoveFailedDone(status) ==
    /\ removing # None
    /\ net' = IF status = "removed" THEN net \ removing.nodes ELSE net
    /\ line' = Append(line, Msg("RemoveFailedCallback", removing.id, None, status))
    /\ removing' = None /\ bus' = {}
    /\ UNCHANGED <<hostVars, mode, routing, wire>>

\* A node is found: a newcomer, or a member that is to leave
NodeFound(n) ==
    /\ mode # None /\ mode.node = None /\ (mode.op = "add") = (n \notin net)
    /\ removing # None => n \notin removing.nodes
    /\ mode' = [op |-> mode.op, id |-> mode.id, node |-> n, joined |-> FALSE]
    /\ line' = Append(line, Callback(n, "ongoing", mode.op = "add"))
    /\ bus' = {}
    /\ UNCHANGED <<hostVars, net, routing, removing, wire>>

\* It joins the network (0x05), or has left it
NodeSettled ==
    /\ mode # None /\ mode.node # None /\ ~mode.joined
    /\ net' = IF mode.op = "add" THEN net \cup {mode.node} ELSE net \ {mode.node}
    /\ mode' = [op |-> mode.op, id |-> mode.id, node |-> mode.node, joined |-> TRUE]
    /\ line' = Append(line, Callback(mode.node, "protocolDone", FALSE))
    /\ bus' = {}
    /\ UNCHANGED <<hostVars, routing, removing, wire>>

\* The mode ends: completed, or failed at any earlier point
ModeEnds(status) ==
    /\ mode # None
    /\ mode.joined = (status = "completed")
    /\ line' = Append(line, Callback(mode.node, status, FALSE))
    /\ mode' = None /\ bus' = {}
    /\ UNCHANGED <<hostVars, net, routing, removing, wire>>

DongleStep ==
    \/ DongleReceive \/ RouteDone
    \/ \E status \in {"removed", "notRemoved", "nodeOk"} : RemoveFailedDone(status)
    \/ \E n \in Nodes : NodeFound(n)
    \/ NodeSettled
    \/ \E status \in {"completed", "failed", "notPrimary"} : ModeEnds(status)

\* The link loses what is on it, an ACK or a frame behind an ACK among them
LineLoss ==
    /\ line # <<>> /\ LinkFault
    /\ line' = Tail(line) /\ bus' = {}
    /\ UNCHANGED <<queue, path, slotVars, sessionVars, threadVars, registryVars,
                   dongleVars, submitted, unplugs, waived, found, seeded>>

Next == \/ HostStep \/ DongleStep \/ LineLoss
        \/ Plug \/ Unplug \/ \E c \in Commands : Submit(c)

\* The thread never stops on its own: every wait it makes has a deadline
Spec == Init /\ [][Next]_vars /\ WF_vars(HostStep)

\* A dongle that answers what it accepted
FairSpec == Spec /\ WF_vars(DongleReceive \/ RouteDone)

-----------------------------------------------------------------------------
(* Properties. *)

\* The queue, the pending slots and the trackers of ProtocolThread.cpp hold
\* values of the types they are declared with.
TypeOK ==
    /\ queue \in Seq(Commands) /\ path \in BOOLEAN
    /\ activeFailedNodeRemoval \in Commands \cup {None}
    /\ activeRequestNodeInfo \in Commands \cup {None}
    /\ pendingInclusion \in Nodes \cup {None}
    /\ tracker = None \/ tracker.active
    /\ pendingSendData = None \/ pc = "throttle"
    /\ pc \in Serving \cup {"await", "introspect", "connected"}
    /\ pc \in {"send", "throttle", "delay"} => cur \in Commands
    /\ port \in {"closed", "live", "dead"} /\ (port = "closed") = (pc = "await")
    /\ registry \subseteq Nodes \cup {Controller} /\ (bound \/ registry = {})
    /\ wire \in Commands \cup {None} /\ \A id1, id2 \in routing : id1 = id2

\* The SendData throttle of dispatchRequest: a SendData is only handed to the
\* dongle when the previous one has been answered, unless the wait for it ran
\* out, its send was reported as failed, or it asked for no callback.
Throttled ==
    pc = "send" /\ IsSendData(cur) /\ wire = cur => routing \subseteq waived

\* NodeIncluded names a node whose info arrived over the connection that is
\* being served: neither a reconnect nor an earlier session leaks its node
\* into the terminal callback of another inclusion.
IncludedInItsSession ==
    \A e \in bus : e.kind = "NodeIncluded" => e.node \in found

\* On a link without faults, once the bitmap has been read and every callback
\* has been handled, GetNodes lists every node of the network.  Removals of
\* failed nodes are taken one at a time, as ProtocolThread.cpp:126 says: of two
\* in flight, the callback of the first takes the node of the second, which
\* has the slot, out of the registry (RegistryComplete states the condition).
RegistryCoversNetwork ==
    seeded /\ faults = 0 /\ pc \in Serving /\ port = "live" /\ line = <<>> => net \subseteq registry

\* The thread always comes back to the head of its loop, where it looks at the
\* path and pops the next request, whatever the dongle does: no send and no
\* throttle holds it, and with it every queued command, for ever.
LoopReturns == []<>(pc \in {"top", "await"})

Answered(c) == \E e \in bus : e.kind = "SendDataCallback" /\ e.id = c.id

\* On a link without faults a SendData queued while the session is served gets
\* its SendDataStatus, from the dongle or made up for it, unless the dongle is
\* pulled: also one that the dongle refuses because it still routes another.
SendDataAnsweredWhileServed ==
    \A c \in Commands : IsSendData(c) /\ c.id # 0 =>
        (c \in Range(queue) /\ pc \in Serving ~> Answered(c) \/ port # "live" \/ faults > 0)

-----------------------------------------------------------------------------
(* What the documentation says and the code does not do. *)

\* README.md: "the protocol thread reopens automatically on hot-plug".  A pull
\* and replug within one blocking call is never noticed.
ReopensOnHotplug == path ~> (port = "live" \/ ~path)
=============================================================================
