------------------------ MODULE FrameTransportProofs ------------------------
(* Proofs about FrameTransport for every frame size, retry budget, chunk     *)
(* size, checksum function and dongle.                                       *)
EXTENDS FrameTransport, SequenceTheorems, TLAPS

\* A byte more on the line is still a sequence of bytes.
LEMMA AppendType ==
    ASSUME NEW S, NEW s \in Seq(S), NEW e \in S
    PROVE  Append(s, e) \in Seq(S)
OBVIOUS

\* feed maps a typed parser and a byte to a typed parser and frame.
LEMMA FeedType ==
    ASSUME NEW p \in ParserType, NEW b \in Byte
    PROVE  /\ feed(p, b).parser \in ParserType
           /\ feed(p, b).frame \in Seq(Byte)
<1> USE DEF Feed, Fresh, Parser
<1>0. /\ p.bytes \in Seq(Byte) /\ p.expected \in Nat
      /\ p = [state |-> p.state, expected |-> p.expected, bytes |-> p.bytes]
      /\ p.state \in {"WaitFrameStart", "WaitLength", "WaitPayload"}
  BY DEF ParserType
<1>f. <<>> \in Seq(Byte) /\ <<b>> \in Seq(Byte) /\ Append(p.bytes, b) \in Seq(Byte)
  BY <1>0
<1>t. /\ Fresh \in ParserType
      /\ \A s \in {"WaitFrameStart", "WaitLength", "WaitPayload"}, n \in Nat,
           q \in Seq(Byte) : [state |-> s, expected |-> n, bytes |-> q] \in ParserType
  BY <1>f DEF ParserType
<1>1. CASE p.state = "WaitFrameStart"
  <2>1. feed(p, b) = FeedFrameStart(p, b)
    BY <1>1 DEF feed
  <2>2. feed(p, b).frame = <<>>
    BY <2>1 DEF FeedFrameStart
  <2>3. feed(p, b).parser \in
          {p, [state |-> "WaitLength", expected |-> p.expected, bytes |-> <<b>>]}
    BY <2>1, <1>0 DEF FeedFrameStart
  <2> QED BY <2>2, <2>3, <1>0, <1>t, <1>f
<1>2. CASE p.state = "WaitLength"
  <2>1. feed(p, b) = FeedLength(p, b)
    BY <1>2 DEF feed
  <2>2. feed(p, b).frame = <<>>
    BY <2>1 DEF FeedLength
  <2>3. feed(p, b).parser \in
          {Fresh, [state |-> "WaitPayload", expected |-> 2 + b,
                   bytes |-> Append(p.bytes, b)]}
    BY <2>1 DEF FeedLength
  <2>4. 2 + b \in Nat
    BY DEF Byte
  <2> QED BY <2>2, <2>3, <2>4, <1>t, <1>f
<1>3. CASE p.state = "WaitPayload"
  <2>1. feed(p, b) = FeedPayload(p, b)
    BY <1>3 DEF feed
  <2>2. feed(p, b).frame \in {<<>>, Append(p.bytes, b)}
    BY <2>1 DEF FeedPayload
  <2>3. feed(p, b).parser \in
          {Fresh, [state |-> p.state, expected |-> p.expected,
                   bytes |-> Append(p.bytes, b)]}
    BY <2>1, <1>0 DEF FeedPayload
  <2> QED BY <2>2, <2>3, <1>0, <1>t, <1>f
<1> QED BY <1>0, <1>1, <1>2, <1>3

\* feed keeps the frame under construction framed, whatever the byte.
LEMMA FeedFraming ==
    ASSUME NEW p \in ParserType, NEW b \in Byte, Framing(p)
    PROVE  Framing(feed(p, b).parser)
<1> USE DEF Feed, Fresh, Parser, Framing
<1>0. /\ p.bytes \in Seq(Byte) /\ p.expected \in Nat /\ b \in Nat
      /\ p.state \in {"WaitFrameStart", "WaitLength", "WaitPayload"}
  BY DEF ParserType, Byte
<1>f. Framing(Fresh)
  OBVIOUS
<1>1. CASE p.state = "WaitFrameStart"
  <2>1. feed(p, b).parser = IF b = SOF THEN Parser("WaitLength", p.expected, <<b>>)
                            ELSE p
    BY <1>1 DEF feed, FeedFrameStart
  <2> QED BY <2>1, <1>1
<1>2. CASE p.state = "WaitLength"
  <2>1. feed(p, b).parser = IF b < 3 \/ 2 + b > MAX_FRAME_SIZE THEN Fresh
                  ELSE Parser("WaitPayload", 2 + b, Append(p.bytes, b))
    BY <1>2 DEF feed, FeedLength
  <2>2. CASE b < 3 \/ 2 + b > MAX_FRAME_SIZE
    BY <2>1, <2>2, <1>f
  <2>3. CASE ~(b < 3 \/ 2 + b > MAX_FRAME_SIZE)
    <3>1. p.bytes = <<SOF>>
      BY <1>2
    <3> DEFINE f == Append(p.bytes, b)
    <3>2. Len(p.bytes) = 1 /\ p.bytes[1] = SOF
      BY <3>1
    <3>4. /\ Len(f) = Len(p.bytes) + 1
          /\ \A i \in 1 .. Len(p.bytes) : f[i] = p.bytes[i]
          /\ f[Len(p.bytes) + 1] = b
      BY <1>0
    <3>5. Len(f) = 2 /\ f[1] = SOF /\ f[2] = b
      BY <3>2, <3>4
    <3>6. feed(p, b).parser = Parser("WaitPayload", 2 + b, f)
      BY <2>1, <2>3
    <3> HIDE DEF f
    <3>3. b >= 3 /\ 2 + b <= MAX_FRAME_SIZE
      BY <2>3, <1>0, FrameSizeAssumption
    <3>7. Len(f) >= 2 /\ Len(f) < 2 + b /\ f[2] + 2 = 2 + b
      BY <3>3, <3>5, <1>0
    <3> DEFINE e == 2 + b
    <3>8. Framing(Parser("WaitPayload", e, f))
      <4>1. e <= MAX_FRAME_SIZE /\ Len(f) >= 2 /\ Len(f) < e /\ f[2] + 2 = e
        BY <3>3, <3>7
      <4> HIDE DEF e
      <4> QED BY <4>1, <3>5
    <3> QED BY <3>6, <3>8
  <2> QED BY <2>2, <2>3
<1>3. CASE p.state = "WaitPayload"
  <2> DEFINE f == Append(p.bytes, b)
  <2>1. feed(p, b).parser = IF Len(f) < p.expected
                            THEN Parser(p.state, p.expected, f) ELSE Fresh
    BY <1>3 DEF feed, FeedPayload
  <2>2. /\ Len(f) = Len(p.bytes) + 1
        /\ Len(p.bytes) \in Nat
        /\ \A i \in 1 .. Len(p.bytes) : f[i] = p.bytes[i]
    BY <1>0
  <2>3. /\ Len(p.bytes) >= 2 /\ p.expected <= MAX_FRAME_SIZE
        /\ p.bytes[1] = SOF /\ p.bytes[2] + 2 = p.expected
    BY <1>3
  <2>4. Len(f) >= 2 /\ f[1] = SOF /\ f[2] + 2 = p.expected
    BY <2>2, <2>3
  <2> HIDE DEF f
  <2> QED BY <2>1, <2>3, <2>4, <1>f, <1>3
<1> QED BY <1>0, <1>1, <1>2, <1>3

\* feed announces a data frame only when parseFromBuffer accepted it.
LEMMA FeedDispatch ==
    ASSUME NEW p \in ParserType, NEW b \in Byte, feed(p, b).event = "DataFrame"
    PROVE  ParseOk(feed(p, b).frame)
<1> USE DEF Feed
<1>0. p.state \in {"WaitFrameStart", "WaitLength", "WaitPayload"}
  BY DEF ParserType
<1>1. CASE p.state = "WaitFrameStart"
  BY <1>1 DEF feed, FeedFrameStart
<1>2. CASE p.state = "WaitLength"
  BY <1>2 DEF feed, FeedLength
<1>3. CASE p.state = "WaitPayload"
  BY <1>3 DEF feed, FeedPayload
<1> QED BY <1>0, <1>1, <1>2, <1>3

-----------------------------------------------------------------------------
(* The host steps.  Every step that feeds a byte leaves the parser typed and *)
(* framed and dispatches at most one checked frame.                          *)

\* One byte through feed and handleParsedDataFrame keeps the invariant's part.
LEMMA FeedStep ==
    ASSUME LinkInv, buffer # <<>>,
           parser' = feed(parser, Head(buffer)).parser,
           handleParsedDataFrame(feed(parser, Head(buffer)))
    PROVE  /\ parser' \in ParserType /\ Framing(parser')
           /\ dispatched' \in Seq(Seq(Byte))
           /\ OnlyWellFormedDispatched'
<1> DEFINE r == feed(parser, Head(buffer))
<1>1. /\ parser \in ParserType /\ Framing(parser) /\ Head(buffer) \in Byte
      /\ dispatched \in Seq(Seq(Byte))
      /\ \A i \in DOMAIN dispatched : ParseOk(dispatched[i])
  BY DEF LinkInv, TypeOK, ParserInv, OnlyWellFormedDispatched
<1>2. r.parser \in ParserType /\ r.frame \in Seq(Byte)
  BY <1>1, FeedType
<1>3. Framing(r.parser)
  BY <1>1, FeedFraming
<1>4. r.event = "DataFrame" => ParseOk(r.frame)
  BY <1>1, FeedDispatch
<1>5. dispatched' = IF r.event = "DataFrame" THEN Append(dispatched, r.frame)
                    ELSE dispatched
  BY DEF handleParsedDataFrame
<1>6. parser' = r.parser
  OBVIOUS
<1> HIDE DEF r
<1>7. dispatched' \in Seq(Seq(Byte))
  BY <1>1, <1>2, <1>5
<1>8. \A i \in DOMAIN dispatched' : ParseOk(dispatched'[i])
  <2>1. CASE r.event # "DataFrame"
    BY <2>1, <1>1, <1>5
  <2>2. CASE r.event = "DataFrame"
    <3>1. dispatched' = Append(dispatched, r.frame)
      BY <2>2, <1>5
    <3>2. /\ DOMAIN dispatched' = 1 .. Len(dispatched) + 1
          /\ DOMAIN dispatched = 1 .. Len(dispatched)
          /\ \A i \in 1 .. Len(dispatched) : dispatched'[i] = dispatched[i]
          /\ dispatched'[Len(dispatched) + 1] = r.frame
          /\ Len(dispatched) \in Nat
      BY <3>1, <1>1, <1>2
    <3> QED BY <3>2, <1>1, <1>4, <2>2
  <2> QED BY <2>1, <2>2
<1> QED BY <1>2, <1>3, <1>6, <1>7, <1>8 DEF OnlyWellFormedDispatched

\* The retry bookkeeping keeps its types and ends a send or starts a write.
LEMMA NextAttemptStep ==
    ASSUME LinkInv, mode # "pump", NextAttempt
    PROVE  /\ mode' \in {"pump", "write"} /\ attempt' \in 0 .. MAX_SEND_RETRIES - 1
           /\ cur' = cur
           /\ outcome' \in [1 .. MaxRequests -> {"open", "true", "false"}]
BY RetryAssumption DEF LinkInv, TypeOK, NextAttempt

\* What a host step may do to the unread bytes: drop a prefix.
LEMMA SuffixType ==
    ASSUME NEW s \in Seq(Byte), NEW n \in 0 .. Len(s)
    PROVE  SubSeq(s, n + 1, Len(s)) \in Seq(Byte)
OBVIOUS

\* Every action of the host and the dongle keeps the inductive invariant.
LEMMA LinkInvStep ==
    ASSUME LinkInv, [Next]_vars
    PROVE  LinkInv'
<1> USE DEF hostVars, dongleVars
<1>0. TypeOK
  BY DEF LinkInv
<1>1. ASSUME readBytes PROVE LinkInv'
  <2>1. PICK n \in 1 .. Len(input) : /\ buffer' = SubSeq(input, 1, n)
                                     /\ input' = SubSeq(input, n + 1, Len(input))
    BY <1>1 DEF readBytes
  <2>2. input \in Seq(Byte) /\ Len(input) \in Nat
    BY <1>0 DEF TypeOK
  <2>3. buffer' \in Seq(Byte)
    BY <2>1, <2>2
  <2>4. input' \in Seq(Byte)
    BY <2>1, <2>2, SuffixType
  <2> QED BY <1>1, <2>3, <2>4
      DEF readBytes, LinkInv, TypeOK, ParserInv, OnlyWellFormedDispatched
<1>2. ASSUME PumpByte PROVE LinkInv'
  <2>1. /\ parser' \in ParserType /\ Framing(parser')
        /\ dispatched' \in Seq(Seq(Byte)) /\ OnlyWellFormedDispatched'
    BY <1>2, FeedStep DEF PumpByte
  <2>2. buffer' \in Seq(Byte)
    BY <1>0, <1>2 DEF TypeOK, PumpByte
  <2> QED BY <1>2, <2>1, <2>2 DEF PumpByte, LinkInv, TypeOK, ParserInv
<1>3. ASSUME AwaitByte PROVE LinkInv'
  <2> DEFINE r == feed(parser, Head(buffer))
  <2>1. /\ parser' \in ParserType /\ Framing(parser')
        /\ dispatched' \in Seq(Seq(Byte)) /\ OnlyWellFormedDispatched'
    BY <1>3, FeedStep DEF AwaitByte
  <2>2. mode # "pump" /\ UNCHANGED <<input, dongleVars>>
    BY <1>3 DEF AwaitByte
  <2>3. /\ mode' \in {"pump", "write", "await"}
        /\ attempt' \in 0 .. MAX_SEND_RETRIES - 1
        /\ cur' = cur
        /\ outcome' \in [1 .. MaxRequests -> {"open", "true", "false"}]
        /\ buffer' \in Seq(Byte)
    <3> HIDE DEF r
    <3>0. <<>> \in Seq(Byte)
      OBVIOUS
    <3>1. CASE /\ buffer' = <<>>
               /\ mode' = "pump" /\ attempt' = 0
               /\ outcome' = [outcome EXCEPT ![cur] = "true"]
               /\ UNCHANGED cur
      <4>1. outcome' \in [1 .. MaxRequests -> {"open", "true", "false"}]
        BY <1>0, <3>1 DEF TypeOK
      <4>2. 0 \in 0 .. MAX_SEND_RETRIES - 1
        BY RetryAssumption
      <4> QED BY <3>0, <3>1, <4>1, <4>2
    <3>2. CASE buffer' = <<>> /\ NextAttempt
      BY <2>2, <3>0, <3>2, NextAttemptStep
    <3>3. CASE buffer' = Tail(buffer) /\ UNCHANGED hostVars
      <4>1. buffer' \in Seq(Byte)
        BY <1>0, <1>3, <3>3 DEF TypeOK, AwaitByte
      <4> QED BY <1>0, <3>3, <4>1 DEF TypeOK
    <3> QED BY <1>3, <3>1, <3>2, <3>3 DEF AwaitByte
  <2> QED BY <2>1, <2>2, <2>3 DEF LinkInv, TypeOK, ParserInv
<1>4. ASSUME AckTimeout PROVE LinkInv'
  <2>1. mode # "pump" /\ NextAttempt
    BY <1>4 DEF AckTimeout
  <2> QED BY <1>4, <2>1, NextAttemptStep
      DEF AckTimeout, LinkInv, TypeOK, ParserInv, OnlyWellFormedDispatched
<1>5. ASSUME FlushBeforeRetry
      PROVE  input' \in Seq(Byte) /\ parser' \in ParserType /\ Framing(parser')
  <2>1. Fresh \in ParserType /\ Framing(Fresh)
    BY DEF Fresh, Parser, ParserType, Framing
  <2>2. CASE attempt > 0
    <3>1. PICK n \in 0 .. Len(input) : input' = SubSeq(input, n + 1, Len(input))
      BY <1>5, <2>2 DEF FlushBeforeRetry
    <3>2. input' \in Seq(Byte)
      BY <1>0, <3>1, SuffixType DEF TypeOK
    <3> QED BY <1>5, <2>1, <2>2, <3>2 DEF FlushBeforeRetry
  <2>3. CASE ~(attempt > 0)
    BY <1>5, <2>3 DEF FlushBeforeRetry, LinkInv, TypeOK, ParserInv
  <2> QED BY <2>2, <2>3
<1>6. ASSUME WriteAttempt PROVE LinkInv'
  <2>1. cur \in 1 .. MaxRequests
    BY <1>6, RequestAssumption DEF LinkInv, TypeOK, WriteAttempt
  <2>2. owed' \in Seq(1 .. MaxRequests)
    BY <1>0, <1>6, <2>1 DEF TypeOK, WriteAttempt
  <2>3. input' \in Seq(Byte) /\ parser' \in ParserType /\ Framing(parser')
    BY <1>5, <1>6 DEF WriteAttempt
  <2> QED BY <1>6, <2>2, <2>3
      DEF WriteAttempt, LinkInv, TypeOK, ParserInv, OnlyWellFormedDispatched
<1>7. ASSUME WriteFails PROVE LinkInv'
  <2>1. input' \in Seq(Byte) /\ parser' \in ParserType /\ Framing(parser')
    BY <1>5, <1>7 DEF WriteFails
  <2>2. mode # "pump" /\ NextAttempt
    BY <1>7 DEF WriteFails
  <2> QED BY <1>7, <2>1, <2>2, NextAttemptStep
      DEF WriteFails, LinkInv, TypeOK, ParserInv, OnlyWellFormedDispatched
<1>8. ASSUME sendRequest PROVE LinkInv'
  BY <1>8, RetryAssumption, RequestAssumption
     DEF sendRequest, LinkInv, TypeOK, ParserInv, OnlyWellFormedDispatched
<1>9. ASSUME DongleAnswer PROVE LinkInv'
  <2>1. ACK \in Byte /\ NAK \in Byte /\ CAN \in Byte
    BY DEF ACK, NAK, CAN, Byte
  <2>2. input' \in Seq(Byte)
    <3>1. PICK b \in {ACK, NAK, CAN} : input' = Append(input, b) \/ input' = input
      BY <1>9 DEF DongleAnswer
    <3>2. input \in Seq(Byte) /\ b \in Byte
      BY <1>0, <2>1 DEF TypeOK
    <3> QED BY <3>1, <3>2, AppendType
  <2>3. owed' \in Seq(1 .. MaxRequests)
    <3>1. owed \in Seq(1 .. MaxRequests) /\ owed # <<>> /\ owed' = Tail(owed)
      BY <1>0, <1>9 DEF TypeOK, DongleAnswer
    <3> QED BY <3>1, HeadTailProperties
  <2> QED BY <1>9, <2>2, <2>3
      DEF DongleAnswer, LinkInv, TypeOK, ParserInv, OnlyWellFormedDispatched
<1>10. ASSUME DongleSend PROVE LinkInv'
  <2>1. PICK f \in Transmissions : sent' = Append(sent, f) /\ input' = input \o f
    BY <1>10 DEF DongleSend
  <2>2. f \in Seq(Byte)
    BY TransmissionAssumption
  <2>3. input' \in Seq(Byte) /\ sent' \in Seq(Seq(Byte))
    BY <1>0, <2>1, <2>2 DEF TypeOK
  <2> QED BY <1>10, <2>3
      DEF DongleSend, LinkInv, TypeOK, ParserInv, OnlyWellFormedDispatched
<1>11. ASSUME UNCHANGED vars PROVE LinkInv'
  BY <1>11 DEF vars, LinkInv, TypeOK, ParserInv, OnlyWellFormedDispatched
<1> QED BY <1>1, <1>2, <1>3, <1>4, <1>6, <1>7, <1>8, <1>9, <1>10, <1>11
        DEF Next, HostStep

\* LinkInv is an invariant of the serial link.
THEOREM LinkInvariant == Spec => []LinkInv
<1>1. Init => LinkInv
  BY RetryAssumption, RequestAssumption
     DEF Init, LinkInv, TypeOK, ParserInv, Framing, Fresh, Parser, ParserType,
         OnlyWellFormedDispatched
<1> QED BY <1>1, LinkInvStep, PTL DEF Spec

\* FrameTransport's state is always well typed.
THEOREM TypeCorrect == Spec => []TypeOK
BY LinkInvariant, PTL DEF LinkInv

\* feed never breaks the framing of the frame it builds nor outgrows the
\* MAX_FRAME_SIZE reservation, whatever bytes arrive and whenever retries reset it.
THEOREM ParserCorrect == Spec => []ParserInv
BY LinkInvariant, PTL DEF LinkInv

\* incomingHandler only ever sees frames parseFromBuffer accepts.
THEOREM DispatchCorrect == Spec => []OnlyWellFormedDispatched
BY LinkInvariant, PTL DEF LinkInv
=============================================================================
