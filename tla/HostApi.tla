------------------------------- MODULE HostApi -------------------------------
(***************************************************************************)
(* The Serial API frames of HostApi.cpp: the payload of every request the  *)
(* daemon writes to the dongle, and what the dongle's responses and        *)
(* callbacks are decoded to.  A decoder accepts a valid frame of its own   *)
(* command and direction (frame.own).                                      *)
(***************************************************************************)
EXTENDS Readings

MAX_PAYLOAD_SIZE == 250

\* A payload that is too long is refused and the frame keeps none; the
\* encoders ignore that result.
setPayload(bytes) == IF Len(bytes) > MAX_PAYLOAD_SIZE THEN <<>> ELSE bytes

Bit(on, k) == IF on THEN 2^k ELSE 0

makeFlagByte(mode, power, nwi, protocol, sflnd) ==
  (mode % 16) + Bit(power, 7) + Bit(nwi, 6) + Bit(protocol, 5) + Bit(sflnd, 4)

ADD_MODE_SMART_START_INCLUDE == 8

encodeAddNode(r) ==
  setPayload(
    <<makeFlagByte(r.mode, r.power, r.nwi, r.protocolLongRange, r.skipFlNeighbors),
      r.sessionId>>
    \o (IF ~r.includeHomeIds THEN <<>>
        ELSE r.nwiHomeId \o (IF r.mode = ADD_MODE_SMART_START_INCLUDE
                             THEN r.authHomeId ELSE <<>>)))

encodeRemoveNode(r) ==
  setPayload(<<(r.mode % 16) + Bit(r.power, 7) + Bit(r.nwe, 6), r.sessionId>>)

encodeRemoveFailedNode(r) == setPayload(<<r.nodeId, r.sessionId>>)

encodeGetNodeProtocolInfo(nodeId) == setPayload(<<nodeId>>)

\* The session id stays in the daemon.
encodeRequestNodeInfo(r) == setPayload(<<r.nodeId>>)

encodeSendData(r) ==
  setPayload(<<r.nodeId, Len(r.data) % 256>> \o r.data \o <<r.txOptions, r.callbackId>>)

encodeSendDataMulti(r) ==
  setPayload(<<Len(r.nodeIds) % 256>> \o r.nodeIds \o <<Len(r.data) % 256>> \o r.data
             \o <<r.txOptions, r.callbackId>>)

-----------------------------------------------------------------------------
(* Responses and callbacks.                                                *)

Long(frame, n) == frame.own /\ Len(frame.payload) >= n

decodeSendDataCallback(f) ==
  Optional(Long(f, 2), [callbackId |-> At(f.payload, 0), txStatus |-> At(f.payload, 1)])

decodeSendDataMultiCallback(f) ==
  Optional(Long(f, 2), [callbackId |-> At(f.payload, 0), txStatus |-> At(f.payload, 1)])

decodeApplicationCommand(f) ==
  LET p == f.payload IN
  Optional(Long(f, 3) /\ At(p, 2) # 0 /\ Len(p) >= 3 + At(p, 2),
    [rxStatus |-> At(p, 0), sourceNodeId |-> At(p, 1), ccData |-> Slice(p, 3, At(p, 2))])

VERSION_STRING_LEN == 12

decodeVersion(f) ==
  LET p == f.payload
      len == Min({k \in 0..(VERSION_STRING_LEN - 1) : At(p, k) = 0} \cup {VERSION_STRING_LEN})
  IN Optional(Long(f, VERSION_STRING_LEN + 1),
       [version |-> Slice(p, 0, len), libraryType |-> At(p, VERSION_STRING_LEN)])

MAX_VALID_NODE_ID == 232

\* Node n is bit (n - 1) of the bitmap.
decodeInitData(f) ==
  LET p == f.payload
      bitmapLen == At(p, 2)
      SetIn(n) == Flag(At(p, 3 + ((n - 1) \div 8)), (n - 1) % 8) /\ n <= MAX_VALID_NODE_ID
  IN Optional(Long(f, 3) /\ Len(p) >= 5 + bitmapLen,
       [nodeIds |-> SelectSeq([n \in 1..(8 * bitmapLen) |-> n], SetIn),
        chipType |-> At(p, 3 + bitmapLen), chipVersion |-> At(p, 4 + bitmapLen)])

decodeNodeProtocolInfo(f) ==
  LET p == f.payload IN
  Optional(Long(f, 6),
    [capabilities |-> At(p, 0), security |-> At(p, 1), reserved |-> At(p, 2),
     basicDeviceType |-> At(p, 3), genericDeviceType |-> At(p, 4),
     specificDeviceType |-> At(p, 5)])

decodeMemoryId(f) ==
  Optional(Long(f, 5),
    [homeId |-> Slice(f.payload, 0, 4), controllerNodeId |-> At(f.payload, 4)])

decodeRemoveFailedNodeResponse(f) == Optional(Long(f, 1), [status |-> At(f.payload, 0)])

decodeRemoveFailedNodeCallback(f) ==
  Optional(Long(f, 2), [sessionId |-> At(f.payload, 0), status |-> At(f.payload, 1)])

decodeRequestNodeInfoResponse(f) ==
  Optional(Long(f, 1), [accepted |-> At(f.payload, 0) # 0])

\* Basic, generic and specific device type, or their initial zeros.
DeviceClass(p, present, at) == IF present THEN Slice(p, at, 3) ELSE <<0, 0, 0>>

STATUS_NODE_INFO_RECEIVED == 132

decodeApplicationUpdate(f) ==
  LET p == f.payload
      end == Min({Len(p), 3 + At(p, 2)})
      info == At(p, 0) = STATUS_NODE_INFO_RECEIVED /\ end >= 6
  IN Optional(Long(f, 3),
       [status |-> At(p, 0), nodeId |-> At(p, 1),
        deviceClass |-> DeviceClass(p, info, 3),
        commandClasses |-> IF info THEN Slice(p, 6, end - 6) ELSE <<>>])

\* The length byte follows the node id and counts the device class as well.
NodeInfoOf(p, lengthAt) ==
  LET bLen == At(p, lengthAt)
      ccLen == IF bLen >= 3 THEN bLen - 3 ELSE 0
      triple == bLen >= 3 /\ Len(p) >= lengthAt + 4
      ccAt == IF triple THEN lengthAt + 4 ELSE lengthAt + 1
  IN IF Len(p) <= lengthAt THEN [deviceClass |-> <<0, 0, 0>>, commandClasses |-> <<>>]
     ELSE [deviceClass |-> DeviceClass(p, triple, lengthAt + 1),
           commandClasses |-> IF ccLen > 0 /\ Len(p) >= ccAt + ccLen
                              THEN Slice(p, ccAt, ccLen) ELSE <<>>]

decodeNodeCallback(f, nodeId16Bit) ==
  LET p == f.payload
      nodeIdHere == ~nodeId16Bit \/ Len(p) >= 4
      info == NodeInfoOf(p, IF nodeId16Bit THEN 4 ELSE 3)
  IN Optional(Long(f, 3),
       [sessionId |-> At(p, 0), status |-> At(p, 1),
        nodeId |-> IF ~nodeIdHere THEN 0
                   ELSE Unsigned(Slice(p, 2, IF nodeId16Bit THEN 2 ELSE 1)),
        deviceClass |-> info.deviceClass, commandClasses |-> info.commandClasses])

-----------------------------------------------------------------------------
(* The dongle's side (external): how it reads a request, and the frames it *)
(* sends for a set of nodes and for a node's information.                  *)

ReadAddNode(p) ==
  [mode |-> Bits(p[1], 0, 4), power |-> Flag(p[1], 7), nwi |-> Flag(p[1], 6),
   protocolLongRange |-> Flag(p[1], 5), skipFlNeighbors |-> Flag(p[1], 4),
   sessionId |-> p[2], homeIds |-> From(p, 2)]

ReadSendData(p) ==
  [nodeId |-> At(p, 0), data |-> Slice(p, 2, At(p, 1)),
   txOptions |-> At(p, 2 + At(p, 1)), callbackId |-> At(p, 3 + At(p, 1))]

ReadSendDataMulti(p) ==
  LET rest == From(p, At(p, 0)) IN
  [nodeIds |-> Slice(p, 1, At(p, 0)), data |-> Slice(rest, 2, At(rest, 1)),
   txOptions |-> At(rest, 2 + At(rest, 1)), callbackId |-> At(rest, 3 + At(rest, 1))]

Bitmap(nodes, length) ==
  [b \in 1..length |-> SumSet({2^k : k \in {j \in 0..7 : (b - 1) * 8 + j + 1 \in nodes}})]

NodeInfoFrame(i) ==
  (IF i.update THEN <<STATUS_NODE_INFO_RECEIVED, 9>>
   ELSE <<7, 3>> \o (IF i.wide THEN <<1, 9>> ELSE <<9>>))
  \o <<3 + Len(i.classes)>> \o <<4, 17, 1>> \o i.classes

-----------------------------------------------------------------------------
(* The calls.                                                              *)

HostApiInput ==
  \/ \E own \in BOOLEAN, n \in 0..MaxPayload, count \in {0, 1, 2, 3, 4, 9, 255},
        status \in {0, STATUS_NODE_INFO_RECEIVED} :
       input = [of |-> "frame", own |-> own,
                payload |-> [i \in 1..n |-> CASE i = 1 -> status
                                              [] i \in 3..5 -> count
                                              [] OTHER -> 200 + i]]
  \/ \E mode \in {1, 5, 8, 9}, power, nwi, long, skip, home \in BOOLEAN :
       input = [of |-> "add", mode |-> mode, power |-> power, nwi |-> nwi,
                protocolLongRange |-> long, skipFlNeighbors |-> skip,
                sessionId |-> 7, includeHomeIds |-> home,
                nwiHomeId |-> <<1, 2, 3, 4>>, authHomeId |-> <<5, 6, 7, 8>>]
  \/ \E n \in {0, 1, 2, 244, 245, 246, 247, 255, 256, 258}, nodes \in {0, 1, 2} :
       input = [of |-> "send", nodeId |-> 9, nodeIds |-> [i \in 1..nodes |-> 9 + i],
                data |-> [i \in 1..n |-> i % 256], txOptions |-> 37, callbackId |-> 3]
  \/ \E nodes \in SUBSET {1, 8, 9, 231, 232, 233, 240}, length \in {2, 29, 30} :
       input = [of |-> "bitmap", nodes |-> nodes, length |-> length]
  \/ \E update, wide \in BOOLEAN, cut \in 0..5,
        classes \in {<<>>, <<37>>, <<37, 38>>, <<37, 38, 112, 134, 133>>} :
       input = [of |-> "nodeInfo", update |-> update, wide |-> wide,
                classes |-> classes, cut |-> cut]

decodeFrame ==
  \/ Call("frame", decodeSendDataCallback(input))
  \/ Call("frame", decodeSendDataMultiCallback(input))
  \/ Call("frame", decodeApplicationCommand(input))
  \/ Call("frame", decodeVersion(input))
  \/ Call("frame", decodeInitData(input))
  \/ Call("frame", decodeNodeProtocolInfo(input))
  \/ Call("frame", decodeMemoryId(input))
  \/ Call("frame", decodeRemoveFailedNodeResponse(input))
  \/ Call("frame", decodeRemoveFailedNodeCallback(input))
  \/ Call("frame", decodeRequestNodeInfoResponse(input))
  \/ Call("frame", decodeApplicationUpdate(input))
  \/ \E wide \in BOOLEAN : Call("frame", decodeNodeCallback(input, wide))

encodeRequest ==
  \/ Call("add", [add |-> encodeAddNode(input),
                  remove |-> encodeRemoveNode([mode |-> input.mode, power |-> input.power,
                                               nwe |-> input.nwi, sessionId |-> 7]),
                  failed |-> encodeRemoveFailedNode([nodeId |-> 9, sessionId |-> 7]),
                  info |-> encodeRequestNodeInfo([nodeId |-> 9, sessionId |-> 7]),
                  protocol |-> encodeGetNodeProtocolInfo(9)])
  \/ Call("send", [single |-> encodeSendData(input), multi |-> encodeSendDataMulti(input)])

answer ==
  \/ Call("bitmap",
          decodeInitData([own |-> TRUE,
                          payload |-> <<5, 8, input.length>>
                                      \o Bitmap(input.nodes, input.length) \o <<5, 0>>]))
  \/ LET frame == NodeInfoFrame(input)
         cut == SubSeq(frame, 1, Len(frame) - input.cut)
         f == [own |-> TRUE, payload |-> cut]
     IN Call("nodeInfo", IF input.update THEN decodeApplicationUpdate(f)
                         ELSE decodeNodeCallback(f, input.wide))

HostApiNext == decodeFrame \/ encodeRequest \/ answer

-----------------------------------------------------------------------------
(* Properties.                                                             *)

FrameLists == {"ccData", "version", "nodeIds", "homeId", "deviceClass", "commandClasses"}

\* Whatever lengths a Serial API frame claims, no decoder of HostApi.cpp
\* returns a byte from beyond the payload, which it reads through a bare
\* pointer.
FramesInBounds ==
  Done("frame") /\ output # NullOpt =>
    \A f \in DOMAIN output :
       IF f \in FrameLists
       THEN \A i \in DOMAIN output[f] : output[f][i] # Garbage
       ELSE output[f] # Garbage

\* The dongle reads an inclusion or removal request as it was meant: no option
\* spills into another, and the authentication home id is there only for a
\* SmartStart inclusion.
AddNodeReadBack ==
  Done("add") =>
    /\ ReadAddNode(output.add)
         = [mode |-> input.mode, power |-> input.power, nwi |-> input.nwi,
            protocolLongRange |-> input.protocolLongRange,
            skipFlNeighbors |-> input.skipFlNeighbors, sessionId |-> input.sessionId,
            homeIds |-> IF ~input.includeHomeIds THEN <<>>
                        ELSE IF input.mode = ADD_MODE_SMART_START_INCLUDE
                             THEN <<1, 2, 3, 4, 5, 6, 7, 8>> ELSE <<1, 2, 3, 4>>]
    /\ Bits(output.remove[1], 0, 4) = input.mode
    /\ Flag(output.remove[1], 7) = input.power /\ Flag(output.remove[1], 6) = input.nwi
    /\ output.remove[2] = output.failed[2]
    /\ output.info = output.protocol /\ output.failed[1] = output.info[1]

\* A SEND_DATA frame carries the command whole, with the options and the
\* callback id where the dongle looks for them, or carries nothing at all:
\* a command that does not fit a frame is never sent cut short under a
\* length byte that wrapped.
SendDataWhole ==
  Done("send") =>
    /\ IF Len(input.data) + 4 > MAX_PAYLOAD_SIZE THEN output.single = <<>>
       ELSE ReadSendData(output.single)
              = [nodeId |-> input.nodeId, data |-> input.data,
                 txOptions |-> input.txOptions, callbackId |-> input.callbackId]
    /\ IF Len(input.data) + Len(input.nodeIds) + 4 > MAX_PAYLOAD_SIZE
       THEN output.multi = <<>>
       ELSE ReadSendDataMulti(output.multi)
              = [nodeIds |-> input.nodeIds, data |-> input.data,
                 txOptions |-> input.txOptions, callbackId |-> input.callbackId]

\* The node list read from the dongle's bitmap is its nodes in ascending order,
\* each once, without ids beyond 232 and without a phantom neighbour at a byte
\* boundary: this is the list the registry is reconciled with.
NodeListExact ==
  Done("bitmap") =>
    LET held == {n \in input.nodes : n <= MAX_VALID_NODE_ID /\ n <= 8 * input.length} IN
    /\ ToSet(output.nodeIds) = held
    /\ \A i \in 1..(Len(output.nodeIds) - 1) : output.nodeIds[i] < output.nodeIds[i + 1]

\* The code takes bytes of a cut-off device class for command classes.
DeviceClassCut == ~input.update /\ Len(input.classes) + 3 - input.cut \in 1..2

\* Node information is taken whole or not at all: the device class is the
\* node's or unset, and the command classes recorded are the node's own (of an
\* update, possibly its first ones), however short the frame was cut, unless
\* the cut goes through the device class itself.
NodeInfoNotMadeUp ==
  Done("nodeInfo") /\ output # NullOpt /\ ~DeviceClassCut =>
    /\ output.deviceClass \in {<<0, 0, 0>>, <<4, 17, 1>>}
    /\ IF input.update THEN IsPrefix(output.commandClasses, input.classes)
       ELSE output.commandClasses \in {<<>>, input.classes}
    /\ input.cut = 0 => /\ output.deviceClass = <<4, 17, 1>>
                        /\ output.commandClasses = input.classes
                        /\ output.nodeId = IF input.wide /\ ~input.update THEN 265 ELSE 9
=============================================================================
