----------------------------- MODULE PolicyBlobs -----------------------------
(***************************************************************************)
(* The policy blob: what the register stores, what the D-Bus interface     *)
(* carries, and what zwave-terminal edits.  The daemon and the terminal    *)
(* each have a serializer and a parser of their own, written separately    *)
(* here too.  A u32 is kept as its four bytes.                             *)
(***************************************************************************)
EXTENDS HostApi

POLICY_BLOB_VERSION == 1
Configuration == 1
Association == 2
WakeUp == 3

-----------------------------------------------------------------------------
(* The daemon: PolicyRegister.                                             *)

serializeEntry(e) ==
  CASE e.kind = Configuration ->
         <<Configuration, e.parameter, e.size, Bit(e.isSigned, 0)>> \o BigEndian(e.value, 4)
    [] e.kind = Association ->
         <<Association, e.groupId, Len(e.members) % 256>> \o e.members
    [] OTHER -> <<WakeUp>> \o e.interval \o <<e.notify>>

serialize(policy) ==
  <<POLICY_BLOB_VERSION, Len(policy) % 256>> \o FlattenSeq(
    [i \in DOMAIN policy |-> serializeEntry(policy[i])])

\* The entry at pos and where the next one begins.
deserializeEntry(b, pos) ==
  LET kind == At(b, pos)
      body == pos + 1
      end == CASE kind = Configuration -> body + 7
               [] kind = Association -> body + 2
               [] kind = WakeUp -> body + 5
               [] OTHER -> Len(b) + 1
      whole == end <= Len(b)
      all == IF kind = Association /\ whole THEN end + At(b, body + 1) ELSE end
  IN IF pos >= Len(b) \/ all > Len(b) THEN NullOpt
     ELSE [next |-> all,
           entry |-> CASE kind = Configuration ->
                            [kind |-> kind, parameter |-> At(b, body), size |-> At(b, body + 1),
                             isSigned |-> At(b, body + 2) # 0,
                             value |-> Signed(Slice(b, body + 3, 4))]
                       [] kind = Association ->
                            [kind |-> kind, groupId |-> At(b, body),
                             members |-> Slice(b, body + 2, At(b, body + 1))]
                       [] OTHER ->
                            [kind |-> kind, interval |-> Slice(b, body, 4),
                             notify |-> At(b, body + 4)]]

\* A parse so far: the entries read and the offset of the next byte.
Parse(entryAt(_, _), b) ==
  LET step(acc, i) ==
        IF acc = NullOpt THEN NullOpt
        ELSE LET one == entryAt(b, acc.next)
             IN  IF one = NullOpt THEN NullOpt
                 ELSE [next |-> one.next, entries |-> Append(acc.entries, one.entry)]
      end == FoldLeft(step, [next |-> 2, entries |-> <<>>], [i \in 1..At(b, 1) |-> i])
  IN  IF end = NullOpt THEN NullOpt ELSE end.entries

deserialize(b) ==
  IF Len(b) < 2 \/ At(b, 0) # POLICY_BLOB_VERSION THEN NullOpt ELSE Parse(deserializeEntry, b)

-----------------------------------------------------------------------------
(* The terminal: policy_blob.cpp.                                          *)

encodePolicyEntry(e) ==
  <<e.kind>> \o
  CASE e.kind = Configuration ->
         <<e.parameter, e.size, Bit(e.isSigned, 0)>> \o BigEndian(e.value, 4)
    [] e.kind = Association -> <<e.groupId, Len(e.members) % 256>> \o e.members
    [] e.kind = WakeUp -> e.interval \o <<e.notify>>
    [] OTHER -> <<>>

encodePolicy(policy) ==
  <<POLICY_BLOB_VERSION, Len(policy) % 256>> \o FlattenSeq(
    [i \in DOMAIN policy |-> encodePolicyEntry(policy[i])])

DecodedConfig(b, at) ==
  IF at + 7 > Len(b) THEN NullOpt
  ELSE [next |-> at + 7,
        entry |-> [kind |-> Configuration, parameter |-> At(b, at), size |-> At(b, at + 1),
                   isSigned |-> At(b, at + 2) # 0, value |-> Signed(Slice(b, at + 3, 4))]]

DecodedAssoc(b, at) ==
  IF at + 2 > Len(b) THEN NullOpt
  ELSE LET end == at + 2 + At(b, at + 1) IN
       IF end > Len(b) THEN NullOpt
       ELSE [next |-> end, entry |-> [kind |-> Association, groupId |-> At(b, at),
                                      members |-> SubSeq(b, at + 3, end)]]

DecodedWakeUp(b, at) ==
  IF at + 5 > Len(b) THEN NullOpt
  ELSE [next |-> at + 5, entry |-> [kind |-> WakeUp, interval |-> SubSeq(b, at + 1, at + 4),
                                    notify |-> At(b, at + 4)]]

decodePolicyEntry(b, pos) ==
  CASE pos >= Len(b) -> NullOpt
    [] At(b, pos) = Configuration -> DecodedConfig(b, pos + 1)
    [] At(b, pos) = Association -> DecodedAssoc(b, pos + 1)
    [] At(b, pos) = WakeUp -> DecodedWakeUp(b, pos + 1)
    [] OTHER -> NullOpt

decodePolicy(b) ==
  IF Len(b) < 2 \/ At(b, 0) # POLICY_BLOB_VERSION THEN NullOpt ELSE Parse(decodePolicyEntry, b)

SameBlobSlot(a, b) ==
  /\ a.kind = b.kind
  /\ a.kind = Configuration => a.parameter = b.parameter
  /\ a.kind = Association => a.groupId = b.groupId

\* Insert or replace one entry of the stored blob; a blob that is there but
\* cannot be read is left alone.
applyEntryToBlob_Clobbers(existing, entry) ==
  LET policy == IF decodePolicy(existing) = NullOpt THEN <<>> ELSE decodePolicy(existing)
      at == SelectInSeq(policy, LAMBDA e : SameBlobSlot(e, entry))
  IN encodePolicy(IF at = 0 THEN Append(policy, entry) ELSE [policy EXCEPT ![at] = entry])
applyEntryToBlob(existing, entry) ==
  LET policy == IF existing = <<>> THEN <<>> ELSE decodePolicy(existing) IN
  IF policy = NullOpt THEN NullOpt
  ELSE LET at == SelectInSeq(policy, LAMBDA e : SameBlobSlot(e, entry))
       IN encodePolicy(IF at = 0 THEN Append(policy, entry) ELSE [policy EXCEPT ![at] = entry])

\* The answers to the prompts, NullOpt for one cancelled, unreadable or out
\* of its range.
Answered(a) == \A f \in DOMAIN a : a[f] # NullOpt

ConfigEntry(a) ==
  [kind |-> Configuration, parameter |-> a.parameter, size |-> a.size,
   isSigned |-> a.value < 0, value |-> a.value]

promptPolicyEntry(kind, a) ==
  CASE ~Answered(a) -> NullOpt
    [] kind = "c" -> IF a.size \in {1, 2, 4} THEN ConfigEntry(a) ELSE NullOpt
    [] OTHER -> [kind |-> IF kind = "a" THEN Association ELSE WakeUp] @@ a

-----------------------------------------------------------------------------
(* The calls.                                                              *)

PolicyEntries ==
  {[kind |-> Configuration, parameter |-> p, size |-> 2, isSigned |-> v < 0, value |-> v] :
     p \in {1, 2}, v \in {-2, INT32_MIN, 258}}
  \cup {[kind |-> Association, groupId |-> g, members |-> m] :
          g \in {1, 3}, m \in {<<>>, <<3>>, <<1, 2, 3>>}}
  \cup {[kind |-> WakeUp, interval |-> i, notify |-> 1] : i \in {<<0, 0, 14, 16>>, <<255, 255, 255, 255>>}}

PolicySamples == {<<>>} \cup {<<e>> : e \in PolicyEntries}
                 \cup {<<d, e>> : d, e \in PolicyEntries}

PolicyInput ==
  \/ \E p \in PolicySamples, cut \in {0, 1, 3, 6}, version \in {1, 2} :
       input = [of |-> "blob", policy |-> p, cut |-> cut, version |-> version]
  \/ \E n \in {0, 1, 254, 255} :
       input = [of |-> "blob", cut |-> 0, version |-> 1,
                policy |-> <<[kind |-> Association, groupId |-> 1,
                              members |-> [i \in 1..n |-> i]]>>]
  \/ \E p \in PolicySamples, e \in PolicyEntries, readable \in BOOLEAN :
       input = [of |-> "upsert", entry |-> e,
                blob |-> IF readable THEN serialize(p) ELSE <<2>> \o Tail(serialize(p))]
  \/ \E e \in PolicyEntries : input = [of |-> "upsert", entry |-> e, blob |-> <<>>]
  \/ \E size \in {NullOpt, 1, 2, 3, 4}, v \in {NullOpt} \cup Boundary :
       input = [of |-> "prompt", kind |-> "c",
                answers |-> [parameter |-> 7, size |-> size, value |-> v]]
  \/ \E members \in {NullOpt, <<>>, <<1, 5>>} :
       input = [of |-> "prompt", kind |-> "a", answers |-> [groupId |-> 2, members |-> members]]
  \/ \E top, low \in {0, 1, 127} :
       input = [of |-> "prompt", kind |-> "w",
                answers |-> [interval |-> <<top, low, 14, 16>>, notify |-> 1]]

\* The blob as one side wrote it, read by the other after a cut or under
\* another version byte.
Damaged(b) == <<input.version>> \o SubSeq(Tail(b), 1, Len(b) - 1 - input.cut)

exchangeBlob ==
  Call("blob", [daemon |-> deserialize(Damaged(encodePolicy(input.policy))),
                terminal |-> decodePolicy(Damaged(serialize(input.policy)))])

editBlob ==
  Call("upsert", applyEntryToBlob(input.blob, input.entry))

\* The command the inclusion of a node sends for an entry of its policy, when
\* the node supports the class and the entry names whom to notify.
CommandFor(e) ==
  CASE e.kind = Configuration -> Configuration_encodeSet(e.parameter, e.size, e.value)
    [] e.kind = Association -> encodeMemberList(e.groupId, e.members)
    [] OTHER -> WakeUp_encodeIntervalSet(Unsigned(e.interval), e.notify)

\* The entry the user typed, stored, read by the register, and sent.
enterPolicy ==
  LET e == promptPolicyEntry(input.kind, input.answers)
      stored == IF e = NullOpt THEN NullOpt ELSE deserialize(applyEntryToBlob(<<>>, e))
  IN Call("prompt", IF stored = NullOpt THEN NullOpt ELSE CommandFor(stored[1]))

PolicyNext == exchangeBlob \/ editBlob \/ enterPolicy

-----------------------------------------------------------------------------
(* Properties.                                                             *)

\* The daemon and the terminal agree on the blob: each reads from the other's
\* exactly the policy that was written, and neither makes a policy of one that
\* is cut short or of another version.
BlobsAgree ==
  Done("blob") =>
    /\ output.daemon = output.terminal
    /\ output.daemon = IF input.cut = 0 /\ input.version = POLICY_BLOB_VERSION
                       THEN input.policy ELSE NullOpt

\* Editing one entry in the terminal leaves the others of the stored blob as
\* the daemon reads them, in order, and puts the new one in its slot, in place
\* of the first entry there; a blob the terminal cannot read is not overwritten.
UpsertKeepsOthers ==
  Done("upsert") =>
    LET before == IF input.blob = <<>> THEN <<>> ELSE deserialize(input.blob)
        others(policy) == SelectSeq(policy, LAMBDA e : ~SameBlobSlot(e, input.entry))
    IN IF before = NullOpt THEN output = NullOpt
       ELSE LET after == deserialize(output) IN
            /\ others(after) = others(before)
            /\ input.entry \in ToSet(after)
            /\ Len(after) = IF others(before) = before THEN Len(before) + 1 ELSE Len(before)

\* What the user enters reaches the node: a configuration value that fits the
\* size it was given, the members of a group, the interval or else the longest
\* one there is; and nothing is sent of a size that does not exist.
PromptedIsSent ==
  Done("prompt") =>
    LET a == input.answers IN
    IF ~Answered(a) THEN output = NullOpt
    ELSE CASE input.kind = "c" ->
                IF a.size = 3 THEN output = NullOpt
                ELSE Fits(a.value, a.size) => /\ Len(output) = 4 + a.size
                                              /\ Signed(From(output, 4)) = a.value
           [] input.kind = "a" -> From(output, 2) = <<a.groupId>> \o a.members
           [] OTHER -> Slice(output, 2, 3) = IF a.interval[1] = 0 THEN Tail(a.interval)
                                             ELSE <<255, 255, 255>>
=============================================================================
