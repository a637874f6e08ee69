-------------------------------- MODULE S2Wire --------------------------------
(***************************************************************************)
(* The octets of S2 that carry key material: the chain of extension        *)
(* objects in an encapsulated frame, and the public key with the PIN the   *)
(* user types for the part a joining node withholds.                       *)
(***************************************************************************)
EXTENDS ConfigFile

EI_SIZE == 16
KEY_SIZE == 32
SPAN_EXTENSION_LENGTH == 18
MPAN_EXTENSION_LENGTH == 19
MGRP_EXTENSION_LENGTH == 3
SpanType == 1
MpanType == 2
MgrpType == 3
CRITICAL == 64
MORE_FOLLOW == 128

encodeSpanExtension(sei) == <<SPAN_EXTENSION_LENGTH, CRITICAL + SpanType>> \o sei
encodeMpanExtension(group, state) == <<MPAN_EXTENSION_LENGTH, CRITICAL + MpanType, group>> \o state
encodeMgrpExtension(group) == <<MGRP_EXTENSION_LENGTH, CRITICAL + MgrpType, group>>

\* The offsets the scan of a chain visits: it stops at an object that is
\* malformed or the last one.
RECURSIVE Visited(_, _)
Visited(e, offset) ==
  IF offset + 2 > Len(e) \/ At(e, offset) < 2 \/ offset + At(e, offset) > Len(e) THEN <<>>
  ELSE <<offset>> \o (IF Flag(At(e, offset + 1), 7) THEN Visited(e, offset + At(e, offset))
                      ELSE <<>>)

\* The body of the first visited object of a type and length.
forEachExtension(e, type, length) ==
  LET at == SelectInSeq(Visited(e, 0), LAMBDA o : /\ Bits(At(e, o + 1), 0, 6) = type
                                                  /\ At(e, o) = length)
  IN  IF at = 0 THEN NullOpt ELSE Slice(e, Visited(e, 0)[at] + 2, length - 2)

findSpanExtension(e) == forEachExtension(e, SpanType, SPAN_EXTENSION_LENGTH)

findMpanExtension(e) ==
  LET body == forEachExtension(e, MpanType, MPAN_EXTENSION_LENGTH)
  IN  IF body = NullOpt THEN NullOpt ELSE [groupId |-> At(body, 0), state |-> From(body, 1)]

findMgrpExtension(e) ==
  LET body == forEachExtension(e, MgrpType, MGRP_EXTENSION_LENGTH)
  IN  IF body = NullOpt THEN NullOpt ELSE At(body, 0)

-----------------------------------------------------------------------------
(* The public key.                                                         *)

PublicKey_encode(includingNode, key, obfuscateLeading) ==
  <<"own", "own", Bit(includingNode, 0)>>
  \o [i \in DOMAIN key |-> IF i <= obfuscateLeading THEN 0 ELSE key[i]]

PublicKey_decode(p) ==
  Optional(Len(p) = 3 + KEY_SIZE, [includingNode |-> Flag(At(p, 2), 0), key |-> From(p, 3)])

groupValue(key, index) == At(key, index * 2) * 256 + At(key, index * 2 + 1)

PIN_DIGITS == 5
dskPin(key) == [i \in 1..PIN_DIGITS |-> (groupValue(key, 0) \div 10^(PIN_DIGITS - i)) % 10]

\* Characters of a typed PIN: a digit, or NullOpt for any other.
parsePin(pin) ==
  IF Len(pin) # PIN_DIGITS \/ NullOpt \in ToSet(pin) THEN NullOpt
  ELSE LET v == FoldLeft(LAMBDA acc, d : acc * 10 + d, 0, pin)
       IN  IF v > 65535 THEN NullOpt ELSE v

applyPin(key, pin) == [key EXCEPT ![1] = (pin \div 256) % 256, ![2] = pin % 256]

-----------------------------------------------------------------------------
(* The calls: chains the other side builds (external), keys and PINs.      *)

Octets(n) == [i \in 1..EI_SIZE |-> n + i]

Objects == {encodeSpanExtension(Octets(0)), encodeSpanExtension(Octets(100)),
            encodeMpanExtension(5, Octets(50)), encodeMgrpExtension(6),
            <<3, CRITICAL + SpanType, 9>>, <<4, CRITICAL + MgrpType, 8, 8>>, <<2, 7>>}

Chain(objects) ==
  FlattenSeq([i \in DOMAIN objects |->
    IF i = Len(objects) THEN objects[i] ELSE [objects[i] EXCEPT ![2] = @ + MORE_FOLLOW]])

S2Input ==
  \/ \E n \in 1..3 : \E objects \in [1..n -> Objects], cut \in {0, 1, 2, 17, 19} :
       input = [of |-> "chain", objects |-> objects, cut |-> cut]
  \/ \E a, b \in {0, 1, 9, 39, 128, 255}, including \in BOOLEAN :
       input = [of |-> "key", includingNode |-> including,
                key |-> [i \in 1..KEY_SIZE |-> CASE i = 1 -> a [] i = 2 -> b [] OTHER -> i]]
  \/ \E n \in 4..6 : \E pin \in [1..n -> {0, 5, 6, NullOpt}] : input = [of |-> "pin", pin |-> pin]

Cut(chain) == SubSeq(chain, 1, Len(chain) - input.cut)

readS2 ==
  \/ LET e == Cut(Chain(input.objects)) IN
     Call("chain", [span |-> findSpanExtension(e), mpan |-> findMpanExtension(e),
                    mgrp |-> findMgrpExtension(e)])
  \/ LET sent == PublicKey_decode(PublicKey_encode(input.includingNode, input.key, 2)) IN
     Call("key", [sent |-> sent, restored |-> applyPin(sent.key, parsePin(dskPin(input.key)))])
  \/ Call("pin", parsePin(input.pin))

-----------------------------------------------------------------------------
(* Properties.                                                             *)

\* However many objects a frame carries and wherever it was cut, what the scan
\* finds is the first well-formed object of its kind among those that arrived
\* whole: the entropy is never taken from another object's octets, nor from an
\* object whose length byte is wrong for its type.
ExtensionFound ==
  Done("chain") =>
    LET length(k) == Len(FlattenSeq(SubSeq(input.objects, 1, k)))
        arrived == SelectSeq([i \in DOMAIN input.objects |-> i],
                             LAMBDA k : length(k) + input.cut <= length(Len(input.objects)))
        matching(type, n) == SelectSeq(arrived, LAMBDA k : /\ input.objects[k][2] = CRITICAL + type
                                                           /\ Len(input.objects[k]) = n)
        body(type, n) == From(input.objects[Head(matching(type, n))], 2)
        expected(type, n, found, value(_)) ==
          found = IF matching(type, n) = <<>> THEN NullOpt ELSE value(body(type, n))
    IN /\ expected(SpanType, 18, output.span, LAMBDA v : v)
       /\ expected(MpanType, 19, output.mpan, LAMBDA v : [groupId |-> v[1], state |-> Tail(v)])
       /\ expected(MgrpType, 3, output.mgrp, LAMBDA v : v[1])

\* A joining node withholds the first two octets of its public key; the PIN on
\* its label, typed back, restores exactly the key the exchange is computed
\* with, leading zeros of the PIN included.
PinRestoresKey ==
  Done("key") =>
    /\ output.sent.includingNode = input.includingNode
    /\ output.sent.key # input.key <=> input.key[1] + input.key[2] > 0
    /\ output.restored = input.key

\* Only a PIN that could be on a label is taken: five digits that make a 16-bit
\* number, whose digits are then the ones typed.
PinChecked ==
  Done("pin") /\ output # NullOpt =>
    dskPin(applyPin([i \in 1..KEY_SIZE |-> 0], output)) = input.pin
=============================================================================
