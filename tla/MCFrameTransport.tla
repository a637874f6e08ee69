-------------------------- MODULE MCFrameTransport --------------------------
(* FrameTransport on real bytes: a frame without payload, a frame whose      *)
(* payload byte is 0x06 (the ACK value), and one with a wrong checksum.      *)
EXTENDS FrameTransport, Bitwise

\* The exclusive ors of small bytes with any byte, tabulated
XorTable == [x \in Byte, y \in 0 .. 6 |-> x ^^ y]
XorFold(bytes) == LET F[n \in 0 .. Len(bytes)] ==
                         IF n = 0 THEN 255
                         ELSE IF bytes[n] <= 6 THEN XorTable[F[n - 1], bytes[n]]
                              ELSE F[n - 1] ^^ bytes[n]
                  IN F[Len(bytes)]
Plain   == <<1, 3, 0, 4, XorFold(<<3, 0, 4>>)>>
AckLike == <<1, 4, 0, 4, 6, XorFold(<<4, 0, 4, 6>>)>>
Garbled == <<1, 3, 1, 1, 0>>

AllFrames == {Plain, AckLike, Garbled}
=============================================================================
