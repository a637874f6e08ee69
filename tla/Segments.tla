------------------------------- MODULE Segments -------------------------------
(***************************************************************************)
(* Transport Service: datagrams longer than a radio frame, cut by          *)
(* splitOutbound and put together by one Assembler per node.  The radio    *)
(* loses, repeats and reorders segments.  Segments with a wrong checksum   *)
(* are dropped by feedSegment, which here is to lose them.                 *)
(***************************************************************************)
EXTENDS Naturals, Sequences, FiniteSets, FiniteSetsExt

CONSTANTS DatagramSizes,        \* sizes in bytes of the datagrams, in sending order
          SEGMENT_PAYLOAD_MAX,
          SessionIds,           \* number of session ids
          MaxSegmentRepeats     \* bound: segments fed more than once

Datagrams == DOMAIN DatagramSizes
\* The bytes of datagram d: each stands for the byte at its place.
DatagramByte(d, pos) == [of |-> d, pos |-> pos]
Datagram(d) == [pos \in 0 .. DatagramSizes[d] - 1 |-> DatagramByte(d, pos)]
NoByte == [of |-> 0, pos |-> 0]

VARIABLES
  assembling, datagramSize, sessionId, buffer, placed,  \* Assembler
  sentDatagrams,   \* how many datagrams were cut up
  segments,        \* segments on the air
  fed,             \* history: segments fed since the datagram was begun
  datagrams,       \* history: datagrams returned
  repeats

segmentVars == <<assembling, datagramSize, sessionId, buffer, placed, sentDatagrams, segments,
                 fed, datagrams, repeats>>

-----------------------------------------------------------------------------
\* The segment of datagram d that starts at `offset'.
Segment(d, offset) ==
  [first |-> offset = 0, size |-> DatagramSizes[d], session |-> d % SessionIds, offset |-> offset,
   payload |-> [i \in 0 .. Min({SEGMENT_PAYLOAD_MAX, DatagramSizes[d] - offset}) - 1 |->
                  DatagramByte(d, offset + i)]]
splitOutbound(d) ==
  {Segment(d, k * SEGMENT_PAYLOAD_MAX) : k \in 0 .. (DatagramSizes[d] - 1) \div SEGMENT_PAYLOAD_MAX}

\* External: a sender uses a session id again only when the datagram that
\* had it is done with.
SessionFree(id) == ~(assembling /\ sessionId = id) /\ \A segment \in segments : segment.session # id
SendDatagram ==
  /\ sentDatagrams < Len(DatagramSizes)
  /\ SessionFree((sentDatagrams + 1) % SessionIds)
  /\ sentDatagrams' = sentDatagrams + 1
  /\ segments' = segments \cup splitOutbound(sentDatagrams + 1)
  /\ UNCHANGED <<assembling, datagramSize, sessionId, buffer, placed, fed, datagrams, repeats>>

-----------------------------------------------------------------------------
(* Assembler::place: bytes not yet there are filled in, bytes past the end *)
(* are ignored, and the datagram is returned with its last byte.           *)

Extent(offset, payload, size) == {pos \in offset .. offset + Cardinality(DOMAIN payload) - 1 : pos < size}
Full_CountsRepeats(here, offset, payload, size) ==
  Cardinality(here) + Cardinality(Extent(offset, payload, size)) >= size
Full(here, offset, payload, size) ==
  Cardinality(here \cup Extent(offset, payload, size)) = size
Filled(old, here, offset, payload, size) ==
  [pos \in DOMAIN old |->
     IF pos \in Extent(offset, payload, size) \ here THEN payload[pos - offset] ELSE old[pos]]

place(old, here, segment, size) ==
  LET now == Filled(old, here, segment.offset, segment.payload, size)
      full == Full(here, segment.offset, segment.payload, size)
  IN  /\ assembling' = ~full
      /\ buffer' = IF full THEN <<>> ELSE now
      /\ placed' = IF full THEN {} ELSE here \cup Extent(segment.offset, segment.payload, size)
      /\ datagrams' = IF full THEN datagrams \cup {now} ELSE datagrams

\* A first segment starts over, whatever was being put together.
handleFirst(segment) ==
  /\ segment.first
  /\ datagramSize' = segment.size /\ sessionId' = segment.session
  /\ place([pos \in 0 .. segment.size - 1 |-> NoByte], {}, segment, segment.size)
  /\ fed' = {segment}

\* Others count only for the session being put together.
SameSession(segment) == segment.session = sessionId
handleSubsequent(segment) ==
  /\ ~segment.first
  /\ IF assembling /\ SameSession(segment)
     THEN place(buffer, placed, segment, datagramSize) /\ fed' = fed \cup {segment}
     ELSE UNCHANGED <<assembling, buffer, placed, datagrams, fed>>
  /\ UNCHANGED <<datagramSize, sessionId>>

feedSegment(segment) ==
  /\ handleFirst(segment) \/ handleSubsequent(segment)
  /\ \/ segments' = segments \ {segment} /\ UNCHANGED repeats
     \/ repeats < MaxSegmentRepeats /\ repeats' = repeats + 1 /\ UNCHANGED segments
  /\ UNCHANGED sentDatagrams

LoseSegment ==
  /\ \E segment \in segments : segments' = segments \ {segment}
  /\ UNCHANGED <<assembling, datagramSize, sessionId, buffer, placed, sentDatagrams, fed, datagrams, repeats>>

SegmentsInit ==
  /\ assembling = FALSE /\ datagramSize = 0 /\ sessionId = 0
  /\ buffer = <<>> /\ placed = {}
  /\ sentDatagrams = 0 /\ segments = {} /\ fed = {} /\ datagrams = {} /\ repeats = 0
SegmentsNext ==
  \/ SendDatagram \/ LoseSegment
  \/ \E segment \in segments : feedSegment(segment)

-----------------------------------------------------------------------------
\* What the Assembler returns is a datagram that was sent, byte for byte,
\* with segments of several datagrams lost, repeated and in any order, so
\* long as a session id is not used again while its last user is unfinished
\* (TransportService.cpp:167-217); and it is returned as soon as its last byte
\* is there: one still being put together lacks a segment.
DatagramsWhole ==
  /\ datagrams \subseteq {Datagram(d) : d \in 1 .. sentDatagrams}
  /\ assembling =>
       \E d \in 1 .. sentDatagrams : Segment(d, 0) \in fed /\ ~(splitOutbound(d) \subseteq fed)
=============================================================================
