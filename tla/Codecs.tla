-------------------------------- MODULE Codecs --------------------------------
(***************************************************************************)
(* The codecs together: one call of one of them on one input.              *)
(***************************************************************************)
EXTENDS S2Wire

Init ==
  /\ output = Pending
  /\ ReportInput \/ ReadingInput \/ HostApiInput \/ PolicyInput \/ ConfigInput \/ S2Input

Next == ReportNext \/ ReadingNext \/ HostApiNext \/ PolicyNext \/ loadConfig \/ readS2

Spec == Init /\ [][Next]_<<input, output>>

-----------------------------------------------------------------------------
\* No decoder takes a byte from outside the payload it was given, whatever
\* length, count or flag the payload claims: neither the command class
\* decoders, nor the serial API decoders, nor the node information that may
\* be cut short (Notification.cpp:35-53, HostApi.cpp:476-575).
DecodedIsReceived == ReportsInBounds /\ FramesInBounds /\ NodeInfoNotMadeUp

\* What one end writes the other end reads, up to the limits of every field:
\* the encoders and decoders of the command classes, of the serial API, of
\* the policy blob (the daemon's and the terminal's) and of S2 agree, and a
\* damaged CRC-16 encapsulation is refused.
ReadBack ==
  /\ MembersRoundTrip /\ EncapComesApart /\ CrcCatchesByteErrors
  /\ ValueRoundTrip /\ MeterReadBack /\ ParameterReadBack /\ TextIsReading
  /\ AddNodeReadBack /\ SendDataWhole /\ NodeListExact
  /\ BlobsAgree /\ ExtensionFound /\ PinRestoresKey

\* What a user or a client enters takes effect as entered and changes nothing
\* else: association removals, wake-up intervals, policy edits and prompts,
\* the configuration file and the PIN (policy_blob.cpp:186-286, Config.cpp).
EntriesTakeEffect ==
  /\ RemovesExactly /\ IntervalClamped
  /\ UpsertKeepsOthers /\ PromptedIsSent
  /\ FirstSettingWins /\ SomeDongleAccepted /\ PinChecked
=============================================================================
