------------------------------- MODULE Bytes -------------------------------
(***************************************************************************)
(* What the codecs of the daemon have in common: bytes are 0..255, a       *)
(* payload is a sequence of them, offsets count from 0 as in the code.     *)
(* The code indexes spans and vectors without a bounds check; a read past  *)
(* the end is undefined behaviour and yields Garbage here, a value no      *)
(* payload holds.                                                          *)
(***************************************************************************)
EXTENDS Integers, Sequences, SequencesExt, FiniteSetsExt

CONSTANTS Garbage, \* what a read outside a buffer returns
          NullOpt, \* std::nullopt
          Pending  \* no result yet

\* One call of a codec: what it is given (with "of", the kind of input) and
\* what it returns.
VARIABLES input, output

Call(kind, result) ==
  /\ output = Pending
  /\ input.of = kind
  /\ output' = result
  /\ UNCHANGED input

At(p, i) == IF i < Len(p) THEN p[i + 1] ELSE Garbage

From(p, i) == SubSeq(p, i + 1, Len(p))

Slice(p, i, n) == [k \in 1..n |-> At(p, i + k - 1)]

\* The n bits of b from bit lo on, and bit k as a flag.
Bits(b, lo, n) == (b \div 2^lo) % 2^n

Flag(b, k) == Bits(b, k, 1) = 1

\* A big-endian field, unsigned, or signed by its first byte: what shifting
\* the bytes together and extending the sign bit computes.
Unsigned(bytes) == FoldLeft(LAMBDA acc, b : acc * 256 + b, 0, bytes)

Signed(bytes) == FoldLeft(LAMBDA acc, b : acc * 256 + b,
                          IF bytes[1] < 128 THEN bytes[1] ELSE bytes[1] - 256,
                          Tail(bytes))

\* The low n bytes of the two's complement of v, most significant first.
BigEndian(v, n) == [i \in 1..n |-> (v \div 256^(n - i)) % 256]
=============================================================================
