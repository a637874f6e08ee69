------------------------------ MODULE Reports ------------------------------
(***************************************************************************)
(* The command-class codecs of zwave-protocol/application: what a node's   *)
(* report is decoded to, what a command is encoded to, and how the recorder*)
(* renders a reading.  Every decoder first compares the two leading bytes  *)
(* with its command class and command; here each of them is "own" or       *)
(* "other", and the rest of the payload is bytes.                          *)
(***************************************************************************)
EXTENDS Bytes, Bitwise

\* The check every decoder starts with, in the order the code evaluates it.
Framed(p, n) == Len(p) >= n /\ p[1] = "own" /\ p[2] = "own"

Optional(present, record) == IF present THEN record ELSE NullOpt

-----------------------------------------------------------------------------
(* Reports of fixed fields, some with fields a later version appends.      *)

Basic_decodeReport(p) ==
  LET v2 == Len(p) >= 5 IN
  Optional(Framed(p, 3),
    [currentValue |-> At(p, 2), targetValue |-> At(p, IF v2 THEN 3 ELSE 2),
     duration |-> IF v2 THEN At(p, 4) ELSE 0, wireFormatV2 |-> v2])

Basic_decodeSet(p) == Optional(Framed(p, 3), [value |-> At(p, 2)])

MultilevelSwitch_decodeReport(p) ==
  LET v2 == Len(p) >= 5 IN
  Optional(Framed(p, 3),
    [currentValue |-> At(p, 2), targetValue |-> At(p, IF v2 THEN 3 ELSE 2),
     duration |-> IF v2 THEN At(p, 4) ELSE 0, wireFormatV2 |-> v2])

BinarySwitch_decodeReport(p) ==
  Optional(Framed(p, 3),
    [rawValue |-> At(p, 2),
     state |-> CASE At(p, 2) = 0 -> "Off" [] At(p, 2) = 254 -> "Unknown"
                 [] OTHER -> "On"])

Battery_decodeReport(p) ==
  Optional(Framed(p, 3), [level |-> At(p, 2), lowBattery |-> At(p, 2) = 255])

Indicator_decodeReport(p) == Optional(Framed(p, 3), [value |-> At(p, 2)])

SensorBinary_decodeReport(p) ==
  Optional(Framed(p, 3),
    [value |-> At(p, 2), sensorType |-> IF Len(p) > 3 THEN At(p, 3) ELSE 0])

SceneActivation_decodeSet(p) ==
  Optional(Framed(p, 3),
    [sceneId |-> At(p, 2),
     dimmingDuration |-> IF Len(p) > 3 THEN At(p, 3) ELSE 0])

ThermostatMode_decodeReport(p) ==
  Optional(Framed(p, 3), [mode |-> Bits(At(p, 2), 0, 5)])

ThermostatFanMode_decodeReport(p) ==
  Optional(Framed(p, 3),
    [mode |-> Bits(At(p, 2), 0, 4), off |-> Flag(At(p, 2), 7)])

ThermostatOperatingState_decodeReport(p) ==
  Optional(Framed(p, 3), [state |-> Bits(At(p, 2), 0, 4)])

ColorSwitch_decodeReport(p) ==
  LET v3 == Len(p) >= 6 IN
  Optional(Framed(p, 4),
    [componentId |-> At(p, 2), value |-> At(p, 3),
     targetValue |-> At(p, IF v3 THEN 4 ELSE 3),
     duration |-> IF v3 THEN At(p, 5) ELSE 0])

CentralScene_decodeNotification(p) ==
  Optional(Framed(p, 5),
    [sequenceNumber |-> At(p, 2), keyAttribute |-> Bits(At(p, 3), 0, 3),
     sceneNumber |-> At(p, 4), slowRefresh |-> Flag(At(p, 3), 7)])

Supervision_decodeReport(p) ==
  Optional(Framed(p, 5),
    [sessionId |-> Bits(At(p, 2), 0, 6), moreStatusUpdates |-> Flag(At(p, 2), 7),
     status |-> At(p, 3), duration |-> At(p, 4)])

WakeUp_decodeIntervalReport(p) ==
  Optional(Framed(p, 6),
    [seconds |-> Unsigned(Slice(p, 2, 3)), controllerNodeId |-> At(p, 5)])

\* A notification carries no field.
WakeUp_decodeNotification(p) == Optional(Framed(p, 2), <<>>)

NodeVersion_decodeReport(p) ==
  Optional(Framed(p, 7),
    [libraryType |-> At(p, 2),
     protocolVersion |-> At(p, 3), protocolSubVersion |-> At(p, 4),
     applicationVersion |-> At(p, 5), applicationSubVersion |-> At(p, 6)])

DoorLock_decodeOperationReport(p) ==
  LET v4 == Len(p) >= 9 IN
  Optional(Framed(p, 7),
    [currentMode |-> At(p, 2), handlesMode |-> At(p, 3), condition |-> At(p, 4),
     lockTimeoutMinutes |-> At(p, 5), lockTimeoutSeconds |-> At(p, 6),
     targetMode |-> IF v4 THEN At(p, 7) ELSE 0,
     duration |-> IF v4 THEN At(p, 8) ELSE 0])

ManufacturerSpecific_decodeReport(p) ==
  Optional(Framed(p, 8),
    [manufacturerId |-> Unsigned(Slice(p, 2, 2)),
     productTypeId |-> Unsigned(Slice(p, 4, 2)),
     productId |-> Unsigned(Slice(p, 6, 2))])

ZWavePlusInfo_decodeReport(p) ==
  Optional(Framed(p, 9),
    [zwavePlusVersion |-> At(p, 2), roleType |-> At(p, 3), nodeType |-> At(p, 4),
     installerIconType |-> Unsigned(Slice(p, 5, 2)),
     userIconType |-> Unsigned(Slice(p, 7, 2))])

-----------------------------------------------------------------------------
(* Reports that end in a list whose length the payload gives.              *)

UserCode_decodeReport(p) ==
  Optional(Framed(p, 4),
    [userIdentifier |-> At(p, 2), userIdStatus |-> At(p, 3), userCode |-> From(p, 4)])

UserCode_decodeUsersNumberReport(p) ==
  Optional(Framed(p, 3), [supportedUsers |-> At(p, 2)])

Notification_decodeReport_Unchecked(p) ==
  Optional(Framed(p, 9),
    [status |-> At(p, 5), notificationType |-> At(p, 6), event |-> At(p, 7),
     parameters |-> Slice(p, 9, Bits(At(p, 8), 0, 5))])

Notification_decodeReport(p) ==
  Optional(Framed(p, 9) /\ Len(p) >= 9 + Bits(At(p, 8), 0, 5),
    [status |-> At(p, 5), notificationType |-> At(p, 6), event |-> At(p, 7),
     parameters |-> Slice(p, 9, Bits(At(p, 8), 0, 5))])

Association_decodeReport(p) ==
  Optional(Framed(p, 5),
    [groupId |-> At(p, 2), maxSupported |-> At(p, 3), reportsToFollow |-> At(p, 4),
     members |-> From(p, 5)])

Association_decodeGroupingsReport(p) ==
  Optional(Framed(p, 3), [supportedGroupings |-> At(p, 2)])

MultiChannel_decodeEndpointReport(p) ==
  Optional(Framed(p, 4),
    [endpointCount |-> Bits(At(p, 3), 0, 7), dynamic |-> Flag(At(p, 2), 7),
     identical |-> Flag(At(p, 2), 6)])

MultiChannel_decodeCapabilityReport(p) ==
  Optional(Framed(p, 5),
    [endpoint |-> Bits(At(p, 2), 0, 7), generic |-> At(p, 3), specific |-> At(p, 4),
     commandClasses |-> From(p, 5)])

-----------------------------------------------------------------------------
(* Group members: node ids, then after a MARKER pairs of node and endpoint. *)

MARKER == 0

encodeMembers(groupId, nodes, endpoints, emitMarker) ==
  <<"own", "own", groupId>> \o nodes
    \o (IF emitMarker THEN <<MARKER>> \o FlattenSeq(endpoints) ELSE <<>>)

MultichannelAssociation_encodeSet(groupId, nodes, endpoints) ==
  encodeMembers(groupId, nodes, endpoints, TRUE)

MultichannelAssociation_encodeRemove(groupId, nodes, endpoints) ==
  LET removeAll == nodes = <<>> /\ endpoints = <<>> IN
  encodeMembers(groupId, nodes, endpoints, ~removeAll)

\* What std::find splits off: the bytes before the first MARKER, and from it on.
BeforeMarker(s) ==
  LET at == SelectInSeq(s, LAMBDA b : b = MARKER) IN
  IF at = 0 THEN s ELSE SubSeq(s, 1, at - 1)

Pairs(s) == [i \in 1..(Len(s) \div 2) |-> <<s[2 * i - 1], s[2 * i]>>]

MultichannelAssociation_decodeReport(p) ==
  LET rest == From(p, 5)
      nodes == BeforeMarker(rest)
      tail == From(rest, Len(nodes) + 1)
  IN Optional(Framed(p, 5) /\ Len(tail) % 2 = 0,
       [groupId |-> At(p, 2), maxSupported |-> At(p, 3), reportsToFollow |-> At(p, 4),
        nodeMembers |-> nodes, endpointMembers |-> Pairs(tail)])

MultichannelAssociation_decodeGroupingsReport(p) ==
  Optional(Framed(p, 3), [supportedGroupings |-> At(p, 2)])

\* Association SET and REMOVE: node ids only; an empty REMOVE empties the group.
encodeMemberList(groupId, nodes) == <<"own", "own", groupId>> \o nodes

\* The node's side.  A command names the members it lists; a REMOVE that
\* lists none and has no MARKER names the whole group.
MembersNamed(p) ==
  LET nodes == BeforeMarker(From(p, 3)) IN
  {<<n>> : n \in ToSet(nodes)} \cup ToSet(Pairs(From(p, 4 + Len(nodes))))

GroupAfterRemove(group, p) ==
  IF Len(p) = 3 THEN {} ELSE group \ MembersNamed(p)

-----------------------------------------------------------------------------
(* Encapsulations.                                                         *)

MultiChannel_encodeEncap(source, destination, inner) ==
  <<"own", "own", Bits(source, 0, 7), Bits(destination, 0, 7)>> \o inner

MultiChannel_decodeEncap(p) ==
  Optional(Framed(p, 5),
    [sourceEndpoint |-> Bits(At(p, 2), 0, 7),
     destinationEndpoint |-> Bits(At(p, 3), 0, 7),
     bitAddress |-> Flag(At(p, 3), 7), innerCommand |-> From(p, 4)])

\* CRC-16/AUG-CCITT, most significant bit first.
CRC_INIT == 7439  \* 0x1D0F
CRC_POLY == 4129  \* 0x1021

CrcBit[crc \in 0..65535] ==
  LET shifted == (crc * 2) % 65536 IN
  IF Flag(crc, 15) THEN shifted ^^ CRC_POLY ELSE shifted

\* crc[k] is the register after k bits.
checksum(data) ==
  LET crc[k \in 0..(8 * Len(data))] ==
        IF k = 0 THEN CRC_INIT
        ELSE CrcBit[IF k % 8 = 1 THEN crc[k - 1] ^^ (data[(k + 7) \div 8] * 256)
                                 ELSE crc[k - 1]]
  IN crc[8 * Len(data)]

\* The two header bytes as they are on the wire: the checksum covers them.
CRC16_HEADER == <<86, 1>>

Crc16Encap_encode(inner) ==
  LET out == CRC16_HEADER \o inner IN out \o BigEndian(checksum(out), 2)

Crc16Encap_verifyAndUnwrap(p) ==
  LET bodyLen == Len(p) - 2 IN
  Optional(/\ Len(p) >= 5
           /\ SubSeq(p, 1, 2) = CRC16_HEADER
           /\ checksum(SubSeq(p, 1, bodyLen)) = Unsigned(Slice(p, bodyLen, 2)),
           SubSeq(p, 3, bodyLen))

-----------------------------------------------------------------------------
(* The calls.                                                              *)

CONSTANTS MaxPayload, \* the longest payload given to the decoders
          MaxMembers  \* the longest member list

\* Payloads of every length whose bytes differ by place or are all zero, with
\* each value of the flag byte (offset 3) and of the length byte (offset 8)
\* that the decoders branch on.
Payload(own, n, flags, count, fill) ==
  [i \in 1..n |-> CASE i <= 2 -> IF i = 2 /\ ~own THEN "other" ELSE "own"
                    [] i = 4 -> flags
                    [] i = 9 -> count
                    [] OTHER -> fill * (200 + i)]

ReportInput ==
  \/ \E own \in BOOLEAN, n \in 0..MaxPayload, flags \in {0, 1, 2, 3, 4, 98, 255},
        count \in {0, 1, 4, 31, 162}, fill \in {0, 1} :
       input = [of |-> "report", bytes |-> Payload(own, n, flags, count, fill)]
  \/ \E nodes \in BoundedSeq({1, 232}, MaxMembers),
        endpoints \in BoundedSeq({1, 2} \X {0, 1}, MaxMembers) :
       input = [of |-> "members", nodes |-> nodes, endpoints |-> endpoints]
  \/ \E inner \in BoundedSeq({0, 255}, 2) \ {<<>>},
        source \in {0, 1, 127, 128, 255}, destination \in {0, 1, 127, 128, 255} :
       input = [of |-> "encap", inner |-> inner, source |-> source,
                destination |-> destination]
  \/ \E inner \in BoundedSeq({37, 255}, 3) \ {<<>>}, place \in 1..7,
        byte \in {0, 1, 86, 128, 255} :
       /\ place <= Len(inner) + 4
       /\ input = [of |-> "crc", inner |-> inner, place |-> place, byte |-> byte]

decodeFixed ==
  LET p == input.bytes IN
  \/ Call("report", Basic_decodeReport(p))
  \/ Call("report", Basic_decodeSet(p))
  \/ Call("report", MultilevelSwitch_decodeReport(p))
  \/ Call("report", BinarySwitch_decodeReport(p))
  \/ Call("report", Battery_decodeReport(p))
  \/ Call("report", Indicator_decodeReport(p))
  \/ Call("report", SensorBinary_decodeReport(p))
  \/ Call("report", SceneActivation_decodeSet(p))
  \/ Call("report", ThermostatMode_decodeReport(p))
  \/ Call("report", ThermostatFanMode_decodeReport(p))
  \/ Call("report", ThermostatOperatingState_decodeReport(p))
  \/ Call("report", ColorSwitch_decodeReport(p))
  \/ Call("report", CentralScene_decodeNotification(p))
  \/ Call("report", Supervision_decodeReport(p))
  \/ Call("report", WakeUp_decodeIntervalReport(p))
  \/ Call("report", WakeUp_decodeNotification(p))
  \/ Call("report", NodeVersion_decodeReport(p))
  \/ Call("report", DoorLock_decodeOperationReport(p))
  \/ Call("report", ManufacturerSpecific_decodeReport(p))
  \/ Call("report", ZWavePlusInfo_decodeReport(p))

decodeLists ==
  LET p == input.bytes IN
  \/ Call("report", UserCode_decodeReport(p))
  \/ Call("report", UserCode_decodeUsersNumberReport(p))
  \/ Call("report", Notification_decodeReport(p))
  \/ Call("report", Association_decodeReport(p))
  \/ Call("report", Association_decodeGroupingsReport(p))
  \/ Call("report", MultiChannel_decodeEndpointReport(p))
  \/ Call("report", MultiChannel_decodeCapabilityReport(p))
  \/ Call("report", MultichannelAssociation_decodeReport(p))
  \/ Call("report", MultichannelAssociation_decodeGroupingsReport(p))
  \/ Call("report", MultiChannel_decodeEncap(p))

encodeGroup ==
  Call("members",
       [set |-> MultichannelAssociation_encodeSet(1, input.nodes, input.endpoints),
        remove |-> MultichannelAssociation_encodeRemove(1, input.nodes, input.endpoints),
        list |-> encodeMemberList(1, input.nodes)])

wrapEndpoint ==
  Call("encap", MultiChannel_encodeEncap(input.source, input.destination, input.inner))

\* One byte of a CRC-16 frame is overwritten on the way.
wrapCrc ==
  LET frame == Crc16Encap_encode(input.inner) IN
  Call("crc", ReplaceAt(frame, input.place, input.byte))

ReportNext == decodeFixed \/ decodeLists \/ encodeGroup \/ wrapEndpoint \/ wrapCrc

-----------------------------------------------------------------------------
(* Properties.                                                             *)

Done(kind) == output # Pending /\ input.of = kind

ListFields ==
  {"userCode", "parameters", "members", "nodeMembers", "commandClasses", "innerCommand"}

FromPayload(report) ==
  \A f \in DOMAIN report :
     IF f \in ListFields
     THEN \A i \in DOMAIN report[f] : report[f][i] # Garbage
     ELSE report[f] # Garbage

\* Whatever the length of a payload and whatever lengths it claims inside, no
\* decoder returns a byte that the payload does not hold: the size checks of
\* every decodeReport cover the fields and the lists it then reads.
ReportsInBounds ==
  Done("report") /\ output # NullOpt => FromPayload(output)

\* A group's members survive the wire: the report of a group that was set with
\* encodeSet decodes to the node members and the endpoint members given, also
\* when an endpoint number equals the MARKER.
MembersRoundTrip ==
  Done("members") =>
    LET report == <<"own", "own", 1, 5, 0>> \o From(output.set, 3) IN
    MultichannelAssociation_decodeReport(report)
      = [groupId |-> 1, maxSupported |-> 5, reportsToFollow |-> 0,
         nodeMembers |-> input.nodes, endpointMembers |-> input.endpoints]

\* A REMOVE takes exactly the members it was asked to take out of the group,
\* and empties it exactly when it was given no member at all ("remove every
\* member of this group").
RemovesExactly ==
  Done("members") =>
    LET group == {<<n>> : n \in {1, 2, 232}} \cup ({1, 2} \X {0, 1, 5})
        asked == {<<n>> : n \in ToSet(input.nodes)} \cup ToSet(input.endpoints)
    IN /\ GroupAfterRemove(group, output.remove)
            = IF asked = {} THEN {} ELSE group \ asked
       /\ GroupAfterRemove(group, output.list)
            = IF input.nodes = <<>> THEN {}
              ELSE group \ {<<n>> : n \in ToSet(input.nodes)}

\* A Multi Channel encapsulation comes apart into the endpoints and the
\* command it was made of; an endpoint above 127 never sets the bit-address
\* flag.
EncapComesApart ==
  Done("encap") =>
    MultiChannel_decodeEncap(output)
      = [sourceEndpoint |-> input.source % 128,
         destinationEndpoint |-> input.destination % 128,
         bitAddress |-> FALSE, innerCommand |-> input.inner]

\* A CRC-16 frame is unwrapped to its command when it arrives as it was sent,
\* and dropped when any one byte of it, header and trailer included, changed.
CrcCatchesByteErrors ==
  Done("crc") =>
    Crc16Encap_verifyAndUnwrap(output)
      = IF output = Crc16Encap_encode(input.inner) THEN input.inner ELSE NullOpt
=============================================================================
