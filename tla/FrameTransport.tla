--------------------------- MODULE FrameTransport ---------------------------
(***************************************************************************)
(* The Host API serial link: the byte parser (feed), the idle reader       *)
(* (pumpOnce) and the retrying sender (sendRequest) of FrameTransport,     *)
(* against a dongle that answers late, refuses, garbles or stays silent.   *)
(*                                                                         *)
(* Bytes are the real byte values.  A frame is the byte sequence           *)
(* SOF, length, type, command, payload..., checksum.  Time is abstracted:  *)
(* the ACK deadline may pass whenever the host waits for bytes.            *)
(***************************************************************************)
EXTENDS Naturals, Sequences, FiniteSets

CONSTANTS
    MAX_FRAME_SIZE,     \* ZwaveDataFrame::MAX_FRAME_SIZE
    MAX_SEND_RETRIES,   \* FrameTransport::MAX_SEND_RETRIES
    READ_CHUNK_SIZE,    \* bytes one readBytes call may return
    Checksum(_),        \* ZwaveDataFrame::calculateChecksum over LEN..payload
    Transmissions,      \* byte sequences the dongle may put on the line
    MaxRequests         \* bound: number of sendRequest calls

Byte == 0 .. 255

ASSUME FrameSizeAssumption == MAX_FRAME_SIZE \in Nat /\ MAX_FRAME_SIZE >= 5
ASSUME RetryAssumption == MAX_SEND_RETRIES \in Nat \ {0}
ASSUME ChunkAssumption == READ_CHUNK_SIZE \in Nat \ {0}
ASSUME TransmissionAssumption == Transmissions \subseteq Seq(Byte)
ASSUME RequestAssumption == MaxRequests \in Nat

VARIABLES
    input,      \* bytes on the line or in the kernel's input queue, unread
    buffer,     \* bytes of the current read chunk not yet fed to the parser
    parser,     \* parseState, expectedLength, frameBytes
    mode,       \* "pump" idle, "write" about to write, "await" an ACK
    attempt,    \* loop counter of sendRequest
    cur,        \* number of sendRequest calls so far; the current one's id
    outcome,    \* what each sendRequest call returned
    owed,       \* requests the dongle has received and not yet answered
    sent,       \* frames the dongle has put on the line, in order
    dispatched  \* frames handed to incomingHandler, in order

vars == <<input, buffer, parser, mode, attempt, cur, outcome, owed, sent,
          dispatched>>
hostVars == <<mode, attempt, cur, outcome>>
dongleVars == <<owed, sent>>

ACK == 6
NAK == 21
CAN == 24
SOF == 1

-----------------------------------------------------------------------------
(* The parser. *)

\* parseState, expectedLength and frameBytes
Parser(state, expected, bytes) ==
    [state |-> state, expected |-> expected, bytes |-> bytes]

\* resetParser
Fresh == Parser("WaitFrameStart", 0, <<>>)

\* ZwaveDataFrame::parseFromBuffer on a buffer of exactly 2 + length bytes
ParseOk(f) == /\ Len(f) >= 5
              /\ f[1] = SOF
              /\ f[2] >= 3 /\ f[2] + 2 <= MAX_FRAME_SIZE
              /\ Len(f) = f[2] + 2
              /\ f[3] \in {0, 1}
              /\ f[Len(f)] = Checksum(SubSeq(f, 2, Len(f) - 1))

Feed(event, p, frame) == [event |-> event, parser |-> p, frame |-> frame]

FeedFrameStart(p, b) ==
    Feed(CASE b = ACK -> "Ack" [] b = NAK -> "Nak" [] b = CAN -> "Can"
           [] OTHER -> "None",
         IF b = SOF THEN Parser("WaitLength", p.expected, <<b>>) ELSE p,
         <<>>)

FeedLength(p, b) ==
    Feed("None",
         IF b < 3 \/ 2 + b > MAX_FRAME_SIZE
         THEN Fresh
         ELSE Parser("WaitPayload", 2 + b, Append(p.bytes, b)),
         <<>>)

\* Mutant: the result of parseFromBuffer is ignored
FeedPayload_Unchecked(p, b) ==
    LET f == Append(p.bytes, b)
    IN IF Len(f) < p.expected
       THEN Feed("None", Parser(p.state, p.expected, f), <<>>)
       ELSE Feed("DataFrame", Fresh, f)

FeedPayload(p, b) ==
    LET f == Append(p.bytes, b)
    IN IF Len(f) < p.expected
       THEN Feed("None", Parser(p.state, p.expected, f), <<>>)
       ELSE Feed(IF ParseOk(f) THEN "DataFrame" ELSE "None", Fresh, f)

feed(p, b) == CASE p.state = "WaitFrameStart" -> FeedFrameStart(p, b)
                [] p.state = "WaitLength"     -> FeedLength(p, b)
                [] p.state = "WaitPayload"    -> FeedPayload(p, b)

-----------------------------------------------------------------------------
(* The host. *)

Init == /\ input = <<>> /\ buffer = <<>> /\ parser = Fresh
        /\ mode = "pump" /\ attempt = 0 /\ cur = 0
        /\ outcome = [r \in 1 .. MaxRequests |-> "open"]
        /\ owed = <<>> /\ sent = <<>> /\ dispatched = <<>>

\* SerialPort::readBytes: poll found bytes, read returns up to a chunk
readBytes == /\ mode \in {"pump", "await"}
             /\ buffer = <<>>
             /\ \E n \in 1 .. Len(input) :
                   /\ n <= READ_CHUNK_SIZE
                   /\ buffer' = SubSeq(input, 1, n)
                   /\ input' = SubSeq(input, n + 1, Len(input))
             /\ UNCHANGED <<parser, dispatched, hostVars, dongleVars>>

\* Mutant: lastParsedValid stays set and a link byte delivers the frame again
handleParsedDataFrame_Again(r) ==
    dispatched' = CASE r.event = "DataFrame" -> Append(dispatched, r.frame)
                    [] r.event = "Ack" /\ dispatched # <<>> ->
                          Append(dispatched, dispatched[Len(dispatched)])
                    [] OTHER -> dispatched

\* handleParsedDataFrame: ACK the frame, then call the handler
handleParsedDataFrame(r) ==
    dispatched' = IF r.event = "DataFrame" THEN Append(dispatched, r.frame)
                                           ELSE dispatched

\* Mutant: pumpOnce returns after the first data frame of a chunk
PumpByte_OneFramePerChunk ==
            /\ mode = "pump" /\ buffer # <<>>
            /\ LET r == feed(parser, Head(buffer))
               IN /\ parser' = r.parser
                  /\ handleParsedDataFrame(r)
                  /\ buffer' = IF r.event = "DataFrame" THEN <<>>
                               ELSE Tail(buffer)
            /\ UNCHANGED <<input, hostVars, dongleVars>>

\* One turn of pumpOnce's loop: a link byte outside a send is dropped
PumpByte == /\ mode = "pump" /\ buffer # <<>>
            /\ LET r == feed(parser, Head(buffer))
               IN /\ parser' = r.parser
                  /\ handleParsedDataFrame(r)
            /\ buffer' = Tail(buffer)
            /\ UNCHANGED <<input, hostVars, dongleVars>>

\* Mutant: `continue` skips the loop counter
NextAttempt_NoBudget == mode' = "write" /\ UNCHANGED <<attempt, cur, outcome>>

\* Leaving the read loop of one attempt without an ACK
NextAttempt ==
    IF attempt + 1 < MAX_SEND_RETRIES
    THEN /\ attempt' = attempt + 1 /\ mode' = "write"
         /\ UNCHANGED <<cur, outcome>>
    ELSE /\ mode' = "pump" /\ attempt' = 0
         /\ outcome' = [outcome EXCEPT ![cur] = "false"]
         /\ UNCHANGED cur

\* One turn of sendRequest's chunk loop.  An ACK ends the call and a NAK or
\* CAN ends the attempt; both leave the loop over the chunk at once
AwaitByte ==
    /\ mode = "await" /\ buffer # <<>>
    /\ LET r == feed(parser, Head(buffer))
       IN /\ parser' = r.parser
          /\ handleParsedDataFrame(r)
          /\ \/ /\ r.event = "Ack"
                /\ buffer' = <<>>
                /\ mode' = "pump" /\ attempt' = 0
                /\ outcome' = [outcome EXCEPT ![cur] = "true"]
                /\ UNCHANGED cur
             \/ /\ r.event \in {"Nak", "Can"}
                /\ buffer' = <<>> /\ NextAttempt
             \/ /\ r.event \in {"DataFrame", "None"}
                /\ buffer' = Tail(buffer) /\ UNCHANGED hostVars
    /\ UNCHANGED <<input, dongleVars>>

\* remainingMs(deadline) <= 0
AckTimeout == /\ mode = "await" /\ buffer = <<>>
              /\ NextAttempt
              /\ UNCHANGED <<input, buffer, parser, dispatched, dongleVars>>

sendRequest == /\ mode = "pump" /\ buffer = <<>>
               /\ cur < MaxRequests
               /\ cur' = cur + 1 /\ attempt' = 0 /\ mode' = "write"
               /\ UNCHANGED <<input, buffer, parser, outcome, dispatched,
                              dongleVars>>

\* Back off, flush and reset the parser before every attempt but the first.
\* flushInput drops what the kernel holds; bytes still on the line survive
FlushBeforeRetry ==
    IF attempt > 0
    THEN /\ \E n \in 0 .. Len(input) : input' = SubSeq(input, n + 1, Len(input))
         /\ parser' = Fresh
    ELSE UNCHANGED <<input, parser>>

WriteAttempt == /\ mode = "write"
                /\ FlushBeforeRetry
                /\ owed' = Append(owed, cur)
                /\ mode' = "await"
                /\ UNCHANGED <<buffer, attempt, cur, outcome, sent, dispatched>>

\* writeAll fails: `continue` with the next attempt
WriteFails == /\ mode = "write"
              /\ FlushBeforeRetry
              /\ NextAttempt
              /\ UNCHANGED <<buffer, dispatched, dongleVars>>

-----------------------------------------------------------------------------
(* The dongle (external): it answers each copy of a request in turn, with    *)
(* ACK, NAK, CAN or not at all, and sends data frames of its own.            *)

DongleAnswer ==
    /\ owed # <<>>
    /\ owed' = Tail(owed)
    /\ \/ \E b \in {ACK, NAK, CAN} : input' = Append(input, b)
       \/ UNCHANGED input
    /\ UNCHANGED <<buffer, parser, sent, dispatched, hostVars>>

DongleSend ==
    /\ \E f \in Transmissions :
          /\ f \notin {sent[i] : i \in DOMAIN sent}
          /\ sent' = Append(sent, f)
          /\ input' = input \o f
    /\ UNCHANGED <<buffer, parser, dispatched, hostVars, owed>>

\* A step the protocol thread takes without a new command
HostStep == readBytes \/ PumpByte \/ AwaitByte \/ AckTimeout
            \/ WriteAttempt \/ WriteFails

Next == HostStep \/ sendRequest \/ DongleAnswer \/ DongleSend

Spec == Init /\ [][Next]_vars

\* The protocol thread keeps running and the deadline does pass; nothing is
\* assumed of the dongle
FairSpec == Spec /\ WF_vars(HostStep)

-----------------------------------------------------------------------------
(* Properties. *)

ParserType == [state : {"WaitFrameStart", "WaitLength", "WaitPayload"},
               expected : Nat, bytes : Seq(Byte)]

\* Every variable holds a value of its type.
TypeOK == /\ input \in Seq(Byte) /\ buffer \in Seq(Byte)
          /\ parser \in ParserType
          /\ mode \in {"pump", "write", "await"}
          /\ attempt \in 0 .. MAX_SEND_RETRIES - 1
          /\ cur \in 0 .. MaxRequests
          /\ outcome \in [1 .. MaxRequests -> {"open", "true", "false"}]
          /\ owed \in Seq(1 .. MaxRequests)
          /\ sent \in Seq(Seq(Byte)) /\ dispatched \in Seq(Seq(Byte))

\* The frame under construction starts with SOF, agrees with the length byte
\* it carries and is short of the length feed waits for
Framing(p) ==
    /\ p.state = "WaitFrameStart" => p.bytes = <<>>
    /\ p.state = "WaitLength" => p.bytes = <<SOF>>
    /\ p.state = "WaitPayload" =>
          /\ Len(p.bytes) >= 2 /\ Len(p.bytes) < p.expected
          /\ p.expected <= MAX_FRAME_SIZE
          /\ p.bytes[1] = SOF
          /\ p.bytes[2] + 2 = p.expected

\* Whatever bytes arrive, however reads split them and wherever a retry resets
\* the parser, feed keeps the frame it builds framed, and frameBytes never
\* outgrows the MAX_FRAME_SIZE bytes the constructor reserves.
ParserInv == Framing(parser)

\* incomingHandler only ever sees frames that pass every check of
\* parseFromBuffer: SOF, length, type and checksum.
OnlyWellFormedDispatched ==
    \A i \in DOMAIN dispatched : ParseOk(dispatched[i])

\* The link stays sound for every byte sequence, split and retry: types,
\* framing and dispatch as above, and a send in progress has a number.
\* Together these are inductive.
LinkInv == /\ TypeOK /\ ParserInv /\ OnlyWellFormedDispatched
           /\ mode # "pump" => cur >= 1

Flatten(s) == LET F[n \in 0 .. Len(s)] ==
                    IF n = 0 THEN <<>> ELSE F[n - 1] \o s[n]
              IN F[Len(s)]

\* What becomes of a byte stream that no send disturbs: the frames dispatched,
\* the frame under construction and the unread bytes, put end to end, are what
\* the dongle sent.  pumpOnce neither loses nor repeats nor reorders a byte,
\* wherever the reads cut the stream.
LosslessWhileIdle ==
    (cur = 0 /\ \A i \in DOMAIN sent : ParseOk(sent[i])) =>
        Flatten(dispatched) \o parser.bytes \o buffer \o input = Flatten(sent)

\* A frame is never dispatched twice and frames are dispatched in the order
\* sent, even when retries flush and re-read the input in between.
DispatchedInOrder ==
    LET pos(f) == CHOOSE i \in DOMAIN sent : sent[i] = f
    IN \A i, j \in DOMAIN dispatched :
          i < j => pos(dispatched[i]) < pos(dispatched[j])

\* sendRequest returns, with true or false, whatever the dongle does.
SendReturns == (mode # "pump") ~> (mode = "pump")
=============================================================================
