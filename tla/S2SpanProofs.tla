---------------------------- MODULE S2SpanProofs ----------------------------
(* Proofs about S2Span for every number of entropy inputs, draws, frames on  *)
(* the air, queued payloads and reconnects.                                  *)
EXTENDS S2Span, SequenceTheorems, TLAPS

-----------------------------------------------------------------------------
(* The frames of a channel.                                                  *)

On(ch) == {ch[i] : i \in 1 .. Len(ch)}

\* A frame sent joins those on the air.
LEMMA Appended ==
    ASSUME NEW ch \in Seq(Frame), NEW f \in Frame
    PROVE  /\ Append(ch, f) \in Seq(Frame)
           /\ On(Append(ch, f)) = On(ch) \cup {f}
           /\ On(ch) \subseteq On(Append(ch, f))
           /\ f \in On(Append(ch, f))
<1>1. /\ Append(ch, f) \in Seq(Frame) /\ Len(Append(ch, f)) = Len(ch) + 1
      /\ \A i \in 1 .. Len(ch) : Append(ch, f)[i] = ch[i]
      /\ Append(ch, f)[Len(ch) + 1] = f
      /\ Len(ch) \in Nat
  OBVIOUS
<1>2. 1 .. Len(ch) + 1 = (1 .. Len(ch)) \cup {Len(ch) + 1}
  BY <1>1
<1> QED BY <1>1, <1>2 DEF On

\* A frame received is one of those on the air, and the others stay.
LEMMA Received ==
    ASSUME NEW ch \in Seq(Frame), ch # <<>>
    PROVE  /\ Head(ch) \in Frame /\ Tail(ch) \in Seq(Frame)
           /\ On(ch) = {Head(ch)} \cup On(Tail(ch))
           /\ Head(ch) \in On(ch) /\ On(Tail(ch)) \subseteq On(ch)
<1>1. /\ Head(ch) \in Frame /\ Tail(ch) \in Seq(Frame)
      /\ Len(Tail(ch)) = Len(ch) - 1 /\ Len(ch) \in Nat /\ Len(ch) >= 1
      /\ \A i \in 1 .. Len(ch) - 1 : Tail(ch)[i] = ch[i + 1]
      /\ Head(ch) = ch[1]
  BY HeadTailProperties, EmptySeq
<1>2. \A x \in On(Tail(ch)) : x \in On(ch)
  BY <1>1 DEF On
<1>3. ASSUME NEW x \in On(ch), x # Head(ch) PROVE x \in On(Tail(ch))
  <2>1. PICK i \in 1 .. Len(ch) : x = ch[i]
    BY DEF On
  <2>2. i # 1 /\ i - 1 \in 1 .. Len(Tail(ch)) /\ x = Tail(ch)[i - 1]
    BY <2>1, <1>1, <1>3
  <2> QED BY <2>2 DEF On
<1>4. Head(ch) \in On(ch)
  BY <1>1 DEF On
<1> QED BY <1>1, <1>2, <1>3, <1>4

\* A burst of frames joins those on the air.
LEMMA Concatenated ==
    ASSUME NEW ch \in Seq(Frame), NEW fs \in Seq(Frame)
    PROVE  /\ ch \o fs \in Seq(Frame)
           /\ On(ch \o fs) = On(ch) \cup On(fs)
<1>1. /\ ch \o fs \in Seq(Frame) /\ Len(ch \o fs) = Len(ch) + Len(fs)
      /\ \A i \in 1 .. Len(ch) + Len(fs) :
           (ch \o fs)[i] = IF i <= Len(ch) THEN ch[i] ELSE fs[i - Len(ch)]
      /\ Len(ch) \in Nat /\ Len(fs) \in Nat
  BY ConcatProperties
<1>2. ASSUME NEW x \in On(ch \o fs) PROVE x \in On(ch) \cup On(fs)
  <2>1. PICK i \in 1 .. Len(ch) + Len(fs) : x = (ch \o fs)[i]
    BY <1>1 DEF On
  <2>2. CASE i <= Len(ch)
    BY <1>1, <2>1, <2>2 DEF On
  <2>3. CASE ~(i <= Len(ch))
    <3>1. i - Len(ch) \in 1 .. Len(fs) /\ x = fs[i - Len(ch)]
      BY <1>1, <2>1, <2>3
    <3> QED BY <3>1 DEF On
  <2> QED BY <2>2, <2>3
<1>3. ASSUME NEW x \in On(ch) PROVE x \in On(ch \o fs)
  BY <1>1 DEF On
<1>4. ASSUME NEW x \in On(fs) PROVE x \in On(ch \o fs)
  <2>1. PICK i \in 1 .. Len(fs) : x = fs[i]
    BY DEF On
  <2>2. Len(ch) + i \in 1 .. Len(ch) + Len(fs) /\ (ch \o fs)[Len(ch) + i] = x
    BY <1>1, <2>1
  <2> QED BY <1>1, <2>2 DEF On
<1> QED BY <1>1, <1>2, <1>3, <1>4

-----------------------------------------------------------------------------
(* The inductive invariant.                                                  *)

\* Every entropy input in use, or on its way to the daemon, has been drawn.
EntropyInv ==
  /\ peer.span.sei < entropy /\ peer.span.rei < entropy
  /\ peer.ourRei < entropy /\ peer.peerRei < entropy
  /\ disk.sei < entropy /\ disk.rei < entropy
  /\ \A d \in drawn : d.sei < entropy /\ d.rei < entropy
  /\ \A f \in On(toHost) : f.rei < entropy /\ f.ext < entropy

\* The REI the daemon has handed out, and not yet seen answered, belongs to no
\* generator: none that was drawn from, none that is stored, and none that an
\* REI of the node on its way could give rise to.
ReiInv ==
  peer.ourRei # None =>
    /\ peer.span.rei # peer.ourRei /\ peer.peerRei # peer.ourRei
    /\ disk.rei # peer.ourRei
    /\ \A d \in drawn : d.rei # peer.ourRei
    /\ \A f \in On(toHost) : f.rei # peer.ourRei

\* Generator state s is past every nonce the daemon drew from the generator.
Past(s) == \A d \in drawn : d.sei = s.sei /\ d.rei = s.rei => d.k < s.k

\* Nothing has put the daemon's generators back.
Undisturbed == disturbed \cap {"killed", "replugged", "unsaved"} = {}

\* While bound, the generator in memory is past all nonces drawn from it, and
\* one on disk means one in memory; otherwise the same is true of the one on
\* disk, which the next session restores.
SpanInv ==
  Undisturbed =>
    /\ ~reused
    /\ homeBound /\ hasSpan(peer) => Past(peer.span)
    /\ homeBound /\ ~hasSpan(peer) => disk = NoSpan
    /\ ~homeBound /\ disk # NoSpan => Past(disk)

NonceInv == EntropyInv /\ ReiInv /\ SkippedIsStored /\ SpanInv

-----------------------------------------------------------------------------
(* The operators of SpanManager.                                             *)

\* The records without content are records of their kind.
LEMMA Empty ==
    /\ None \in Entropy /\ NoSpan \in Generator /\ NoPeer \in Peer /\ NonceGet \in Frame
    /\ \A e \in Entropy : NonceReport(e) \in Frame
    /\ \A e \in Entropy, g \in Generator : Encap(e, g) \in Frame
BY BoundsAssumption DEF None, NoSpan, NoPeer, NonceGet, NonceReport, Encap, Entropy, Generator,
   Peer, Frame

\* encrypt establishes a generator on a typed peer, from its entropy input or
\* the one it has.
LEMMA EstablishedFacts ==
    ASSUME NEW m \in Peer, NEW sei \in Entropy
    PROVE  /\ Established(m, sei) \in Peer
           /\ Established(m, sei).ourRei = m.ourRei
           /\ hasSpan(m) => Established(m, sei) = m
           /\ ~hasSpan(m) => /\ Established(m, sei).span = instantiate(sei, m.peerRei)
                             /\ Established(m, sei).peerRei = None
           /\ SpanExtension(m, sei) \in {None, sei}
           /\ Entropies(m) \in {0, 1}
BY Empty, BoundsAssumption DEF Established, instantiate, Peer, Generator, SpanExtension, Entropies, None

\* A state drawn from further on.
LEMMA DrawnFacts ==
    ASSUME NEW g \in Generator, NEW n \in Nat
    PROVE  /\ Drawn(g, n).sei = g.sei /\ Drawn(g, n).rei = g.rei
           /\ Drawn(g, n).k = g.k + n /\ g.k \in Nat
           /\ g.k + n <= MaxDraws => Drawn(g, n) \in Generator
BY BoundsAssumption DEF Drawn, Generator

\* n calls of encrypt draw n times.
LEMMA EncryptDraws ==
    ASSUME NEW m, NEW sei, NEW n
    PROVE  encrypt(m, sei, n).span.k = Established(m, sei).span.k + n
BY DEF encrypt, Drawn

\* n calls of encrypt on a typed peer yield a typed peer, frames and nonces.
LEMMA EncryptFacts ==
    ASSUME NEW m \in Peer, NEW sei \in Entropy, NEW n \in Nat,
           Established(m, sei).span.k + n <= MaxDraws
    PROVE  /\ encrypt(m, sei, n) \in Peer
           /\ encrypt(m, sei, n).ourRei = m.ourRei
           /\ encrypt(m, sei, n).peerRei \in {None, m.peerRei}
           /\ encrypt(m, sei, n).span = Drawn(Established(m, sei).span, n)
           /\ Wrapped(m, sei, n) \in Seq(Frame)
           /\ \A f \in On(Wrapped(m, sei, n)) :
                f.type = "encap" /\ f.rei = None /\ f.ext \in {None, sei}
           /\ Nonces(m, sei, n) \subseteq Generator
<1> DEFINE e == Established(m, sei)
<1>1. e \in Peer /\ e.span \in Generator /\ e.ourRei = m.ourRei /\ e.peerRei \in {None, m.peerRei}
  BY EstablishedFacts DEF Peer
<1>2. \A i \in 0 .. n : Drawn(e.span, i) \in Generator
  <2> SUFFICES ASSUME NEW i \in 0 .. n PROVE Drawn(e.span, i) \in Generator
    OBVIOUS
  <2>1. e.span.k + i <= MaxDraws /\ i \in Nat
    BY <1>1, BoundsAssumption DEF Generator
  <2> QED BY <1>1, <2>1, DrawnFacts
<1>3. SpanExtension(m, sei) \in {None, sei} /\ None \in Entropy
  BY EstablishedFacts, Empty
<1>4. encrypt(m, sei, n) = [span |-> Drawn(e.span, n), ourRei |-> e.ourRei, peerRei |-> e.peerRei]
  BY DEF encrypt
<1>5. /\ encrypt(m, sei, n) \in Peer
      /\ encrypt(m, sei, n).ourRei = m.ourRei
      /\ encrypt(m, sei, n).peerRei \in {None, m.peerRei}
      /\ encrypt(m, sei, n).span = Drawn(Established(m, sei).span, n)
  BY <1>1, <1>2, <1>4 DEF Peer
<1>6. \A i \in 1 .. n : LET x == IF i = 1 THEN SpanExtension(m, sei) ELSE None
                        IN  x \in {None, sei} /\ Encap(x, Drawn(e.span, i - 1)) \in Frame
  BY <1>2, <1>3, Empty
<1>7. Wrapped(m, sei, n) \in [1 .. n -> Frame]
  BY <1>6 DEF Wrapped
<1>8. Wrapped(m, sei, n) \in Seq(Frame) /\ Len(Wrapped(m, sei, n)) = n
  BY <1>7, SeqDef, LenProperties
<1>9. \A f \in On(Wrapped(m, sei, n)) : f.type = "encap" /\ f.rei = None /\ f.ext \in {None, sei}
  <2> SUFFICES ASSUME NEW i \in 1 .. n
               PROVE  LET f == Wrapped(m, sei, n)[i]
                      IN  f.type = "encap" /\ f.rei = None /\ f.ext \in {None, sei}
    BY <1>8 DEF On
  <2> QED BY <1>6 DEF Wrapped, Encap
<1>10. Nonces(m, sei, n) \subseteq Generator
  BY <1>2 DEF Nonces
<1> QED BY <1>5, <1>8, <1>9, <1>10

\* receiveNonce on a typed peer and frame.  With the SPAN extension that answers
\* the daemon's REI the generator is a new one, otherwise it is the old one.
LEMMA ReceiveFacts ==
    ASSUME NEW m \in Peer, NEW f \in Frame, receiveNonce(m, f).span.k <= MaxDraws
    PROVE  /\ receiveNonce(m, f) \in Peer
           /\ receiveNonce(m, f).peerRei = m.peerRei
           /\ \/ /\ receiveNonce(m, f).ourRei = m.ourRei
                 /\ \/ receiveNonce(m, f).span = m.span /\ ~hasSpan(m)
                    \/ receiveNonce(m, f).span = Drawn(m.span, 1) /\ hasSpan(m)
              \/ /\ m.ourRei # None /\ receiveNonce(m, f).ourRei = None
                 /\ receiveNonce(m, f).span = [sei |-> f.ext, rei |-> m.ourRei, k |-> 1]
<1> DEFINE o == Opened(m, f.ext)
           r == receiveNonce(m, f)
<1>1. /\ m.span \in Generator /\ m.ourRei \in Entropy /\ m.peerRei \in Entropy
      /\ f.ext \in Entropy /\ None \in Entropy /\ 0 \in 0 .. MaxDraws
      /\ m = [span |-> m.span, ourRei |-> m.ourRei, peerRei |-> m.peerRei]
  BY Empty, BoundsAssumption DEF Peer, Frame
<1>2. r = IF hasSpan(o)
          THEN [span |-> Drawn(o.span, 1), ourRei |-> o.ourRei, peerRei |-> o.peerRei] ELSE o
  BY DEF receiveNonce
<1>3. CASE f.ext # None /\ m.ourRei # None
  <2>1. o = [span |-> instantiate(f.ext, m.ourRei), ourRei |-> None, peerRei |-> m.peerRei]
    BY <1>3 DEF Opened
  <2>2. o.span = [sei |-> f.ext, rei |-> m.ourRei, k |-> 0] /\ o.ourRei = None /\ o.peerRei = m.peerRei
    BY <2>1 DEF instantiate
  <2>3. hasSpan(o)
    BY <2>2, <1>3 DEF hasSpan, NoSpan
  <2>4. /\ r = [span |-> Drawn(o.span, 1), ourRei |-> None, peerRei |-> m.peerRei]
        /\ r.span = Drawn(o.span, 1) /\ r.ourRei = None /\ r.peerRei = m.peerRei
    BY <1>2, <2>2, <2>3
  <2>5. Drawn(o.span, 1) = [sei |-> f.ext, rei |-> m.ourRei, k |-> 1]
    BY <2>2 DEF Drawn
  <2>6. Drawn(o.span, 1) \in Generator
    BY <2>4, <2>5, <1>1, BoundsAssumption DEF Generator
  <2> QED BY <1>1, <1>3, <2>4, <2>5, <2>6 DEF Peer
<1>4. CASE ~(f.ext # None /\ m.ourRei # None)
  <2>1. o = m
    BY <1>4 DEF Opened
  <2>2. CASE hasSpan(m)
    <3>1. /\ r = [span |-> Drawn(m.span, 1), ourRei |-> m.ourRei, peerRei |-> m.peerRei]
          /\ r.span = Drawn(m.span, 1)
      BY <1>2, <2>1, <2>2
    <3>2. Drawn(m.span, 1) \in Generator
      BY <3>1, <1>1, DrawnFacts
    <3> QED BY <3>1, <3>2, <1>1, <2>2 DEF Peer
  <2>3. CASE ~hasSpan(m)
    BY <1>2, <2>1, <2>3
  <2> QED BY <2>2, <2>3
<1> QED BY <1>3, <1>4

-----------------------------------------------------------------------------
(* Type correctness.                                                         *)

\* What HostEncrypts does, in terms of the facts above.
LEMMA HostEncryptsType ==
    ASSUME TypeOK, NEW m \in Peer, NEW n \in Nat, HostEncrypts(m, n)
    PROVE  /\ entropy \in Entropy /\ entropy' \in 1 .. MaxEntropy /\ entropy <= entropy'
           /\ Established(m, entropy).span.k + n <= MaxDraws
           /\ peer' \in Peer /\ toNode' \in Seq(Frame)
           /\ drawn' \subseteq Generator /\ reused' \in BOOLEAN
           /\ On(toNode) \subseteq On(toNode')
<1>1. entropy \in Entropy /\ entropy \in Nat
  BY BoundsAssumption DEF TypeOK, Entropy
<1>2. entropy' = entropy + Entropies(m) /\ entropy' <= MaxEntropy /\ Entropies(m) \in {0, 1}
  BY <1>1, EstablishedFacts DEF HostEncrypts
<1>3. Established(m, entropy).span.k + n <= MaxDraws
  BY DEF HostEncrypts
<1>4. /\ encrypt(m, entropy, n) \in Peer /\ Wrapped(m, entropy, n) \in Seq(Frame)
      /\ Nonces(m, entropy, n) \subseteq Generator
  BY <1>1, <1>3, EncryptFacts
<1>5. toNode' \in Seq(Frame) /\ On(toNode) \subseteq On(toNode')
  BY <1>4, Concatenated DEF HostEncrypts, TypeOK
<1>6. reused' \in BOOLEAN
  BY DEF HostEncrypts
<1> QED BY <1>1, <1>2, <1>3, <1>4, <1>5, <1>6, BoundsAssumption DEF HostEncrypts, TypeOK

\* Handing out an REI, from either end.
LEMMA ReplyType ==
    ASSUME TypeOK
    PROVE  /\ entropy \in Entropy
           /\ Reply(entropy) => /\ entropy' \in 1 .. MaxEntropy /\ entropy' = entropy + 1
                                /\ toNode' \in Seq(Frame) /\ On(toNode) \subseteq On(toNode')
           /\ NodeReplies => /\ entropy' \in 1 .. MaxEntropy /\ entropy' = entropy + 1
                             /\ toHost' \in Seq(Frame) /\ On(toHost) \subseteq On(toHost')
                             /\ homeBound => NonceReport(entropy) \in On(toHost')
                             /\ \A f \in On(toHost') : f \in On(toHost) \/ f = NonceReport(entropy)
<1>1. entropy \in Entropy /\ entropy \in Nat /\ entropy >= 1 /\ MaxEntropy \in Nat
  BY BoundsAssumption DEF TypeOK, Entropy
<1>2. NonceReport(entropy) \in Frame
  BY <1>1, Empty
<1>3. toNode \in Seq(Frame) /\ toHost \in Seq(Frame)
  BY DEF TypeOK
<1>4. ASSUME Reply(entropy)
      PROVE  /\ entropy' \in 1 .. MaxEntropy /\ entropy' = entropy + 1
             /\ toNode' \in Seq(Frame) /\ On(toNode) \subseteq On(toNode')
  BY <1>1, <1>2, <1>3, <1>4, Appended DEF Reply
<1>5. ASSUME NodeReplies
      PROVE  /\ entropy' \in 1 .. MaxEntropy /\ entropy' = entropy + 1
             /\ toHost' \in Seq(Frame) /\ On(toHost) \subseteq On(toHost')
             /\ homeBound => NonceReport(entropy) \in On(toHost')
             /\ \A f \in On(toHost') : f \in On(toHost) \/ f = NonceReport(entropy)
  <2>1. entropy' \in 1 .. MaxEntropy /\ entropy' = entropy + 1
    BY <1>1, <1>5 DEF NodeReplies
  <2>2. CASE homeBound
    BY <2>1, <2>2, <1>2, <1>3, <1>5, Appended DEF NodeReplies
  <2>3. CASE ~homeBound
    BY <2>1, <2>3, <1>3, <1>5 DEF NodeReplies
  <2> QED BY <2>2, <2>3
<1> QED BY <1>1, <1>4, <1>5

\* An end of the exchange that hands out or accepts an REI stays typed.
LEMMA ReiType ==
    ASSUME NEW m \in Peer, NEW e \in Entropy
    PROVE  /\ respondToNonceGet(m, e) \in Peer
           /\ respondToNonceGet(m, e).span = m.span /\ respondToNonceGet(m, e).ourRei = e
           /\ respondToNonceGet(m, e).peerRei = m.peerRei
           /\ acceptNonceReport(m, e) \in Peer
           /\ acceptNonceReport(m, e).span = m.span /\ acceptNonceReport(m, e).ourRei = m.ourRei
           /\ acceptNonceReport(m, e).peerRei = e
BY DEF respondToNonceGet, acceptNonceReport, Peer

\* The process ends with nothing in memory.
LEMMA ExitType ==
    ASSUME TypeOK, Exit, disk' \in Generator, disturbed' \subseteq Disturbance
    PROVE  TypeOK'
<1>1. queued' \in 0 .. MaxQueue /\ queued' = 0
  BY BoundsAssumption DEF Exit
<1>2. toHost' \in Seq(Frame)
  BY DEF Exit
<1>3. /\ up' \in BOOLEAN /\ homeBound' \in BOOLEAN /\ ~homeBound' /\ reused' \in BOOLEAN
      /\ peer' = NoPeer /\ lastWritten' = NoSpan
      /\ binds' = binds /\ dev' = dev /\ toNode' = toNode /\ entropy' = entropy /\ drawn' = drawn
  BY Zenon DEF Exit, TypeOK
<1> QED BY <1>1, <1>2, <1>3, Empty, Zenon DEF TypeOK

\* What is recorded of a frame that crossed, was missed or not saved.
LEMMA DisturbanceType ==
    ASSUME disturbed \subseteq Disturbance
    PROVE  /\ \A ch : disturbed \cup (IF Encaps(ch) # {} THEN {"crossed"} ELSE {}) \subseteq Disturbance
           /\ Missed \subseteq Disturbance
           /\ \A ok : Unsaved(ok) \subseteq Disturbance
BY DEF Disturbance, Missed, Unsaved

\* Every step keeps every variable in its range.
LEMMA TypeStep ==
    ASSUME TypeOK, [Next]_vars
    PROVE  TypeOK'
<1> USE DEF store, process, hostVars
<1>0. /\ peer \in Peer /\ dev \in Peer /\ lastWritten \in Generator /\ disk \in Generator
      /\ queued \in Nat /\ toNode \in Seq(Frame) /\ toHost \in Seq(Frame)
      /\ peer.span \in Generator /\ peer.ourRei \in Entropy /\ peer.peerRei \in Entropy
      /\ disturbed \subseteq Disturbance
  BY BoundsAssumption DEF TypeOK, Peer
<1>h. /\ toHost # <<>> => Head(toHost) \in Frame /\ Tail(toHost) \in Seq(Frame) /\ Head(toHost).rei \in Entropy
      /\ toNode # <<>> => Head(toNode) \in Frame /\ Tail(toNode) \in Seq(Frame) /\ Head(toNode).rei \in Entropy
  BY <1>0, Received, Zenon DEF Frame
<1>c. \A ch : disturbed \cup (IF Encaps(ch) # {} THEN {"crossed"} ELSE {}) \subseteq Disturbance
  BY <1>0, DisturbanceType
<1>1. CASE SendNow
  <2>1. HostEncrypts(peer, 1)
    BY <1>1 DEF SendNow
  <2>2. /\ entropy' \in 1 .. MaxEntropy /\ peer' \in Peer /\ toNode' \in Seq(Frame)
        /\ drawn' \subseteq Generator /\ reused' \in BOOLEAN
    BY <2>1, <1>0, HostEncryptsType
  <2>3. disturbed' \subseteq Disturbance
    BY <1>1, <1>c DEF SendNow
  <2>4. homeBound' /\ up'
    BY <1>1, Zenon DEF SendNow, Serving
  <2> QED BY <1>1, <2>2, <2>3, <2>4, Zenon DEF SendNow, TypeOK
<1>2. CASE SendLater
  <2>1. toNode' \in Seq(Frame)
    BY <1>2, <1>0, Empty, Appended DEF SendLater
  <2>2. queued' \in 0 .. MaxQueue
    BY <1>2, <1>0, BoundsAssumption DEF SendLater
  <2>4. homeBound' /\ up'
    BY <1>2, Zenon DEF SendLater, Serving
  <2> QED BY <1>2, <2>1, <2>2, <2>4, Zenon DEF SendLater, TypeOK
<1>3. CASE HostGetsNonceGet
  <2>1. entropy' \in 1 .. MaxEntropy /\ toNode' \in Seq(Frame) /\ toHost' \in Seq(Frame) /\ peer' \in Peer
    BY <1>3, <1>0, <1>h, ReplyType, ReiType DEF HostGetsNonceGet
  <2>4. homeBound' /\ up'
    BY <1>3, Zenon DEF HostGetsNonceGet, Serving
  <2> QED BY <1>3, <2>1, <2>4, Zenon DEF HostGetsNonceGet, TypeOK
<1>4. CASE HostIgnoresReport
  BY <1>4, <1>h, Zenon DEF HostIgnoresReport, TypeOK
<1>5. CASE HostGetsReport
  <2>1. HostEncrypts(acceptNonceReport(peer, Head(toHost).rei), queued) /\ toHost # <<>>
    BY <1>5 DEF HostGetsReport
  <2>2. acceptNonceReport(peer, Head(toHost).rei) \in Peer
    BY <2>1, <1>0, <1>h, ReiType
  <2>3. /\ entropy' \in 1 .. MaxEntropy /\ peer' \in Peer /\ toNode' \in Seq(Frame)
        /\ drawn' \subseteq Generator /\ reused' \in BOOLEAN
    BY <2>1, <2>2, <1>0, HostEncryptsType
  <2>4. disturbed' \subseteq Disturbance /\ toHost' \in Seq(Frame)
    BY <1>5, <1>c, <1>h DEF HostGetsReport
  <2>5. homeBound' /\ up'
    BY <1>5, Zenon DEF HostGetsReport, Serving
  <2>6. queued' \in 0 .. MaxQueue
    BY <1>5, BoundsAssumption DEF HostGetsReport, Remaining
  <2> QED BY <1>5, <2>3, <2>4, <2>5, <2>6, Zenon DEF HostGetsReport, TypeOK
<1>6. CASE HostGetsEncap
  <2> DEFINE f == Head(toHost)
             m == receiveNonce(peer, f)
  <2>1. f \in Frame /\ toHost' \in Seq(Frame) /\ m.span.k <= MaxDraws
    BY <1>6, <1>h DEF HostGetsEncap
  <2>2. m \in Peer
    BY <2>1, <1>0, ReceiveFacts, Zenon
  <2>3. entropy \in Entropy /\ respondToNonceGet(m, entropy) \in Peer
    BY <2>2, ReplyType, ReiType
  <2>4. entropy' \in 1 .. MaxEntropy /\ toNode' \in Seq(Frame) /\ peer' \in Peer
    <3>1. CASE Decrypts(peer, f)
      BY <3>1, <1>6, <2>2, Zenon DEF HostGetsEncap, TypeOK
    <3>2. CASE ~Decrypts(peer, f)
      <4>1. Reply(entropy) /\ peer' = respondToNonceGet(m, entropy)
        BY <3>2, <1>6 DEF HostGetsEncap
      <4> QED BY <4>1, <2>3, ReplyType
    <3> QED BY <3>1, <3>2
  <2>5. homeBound' /\ up'
    BY <1>6, Zenon DEF HostGetsEncap, Serving
  <2> QED BY <1>6, <2>1, <2>4, <2>5, Zenon DEF HostGetsEncap, TypeOK
<1>7. CASE CheckpointDue
  <2>1. disk' \in Generator /\ lastWritten' \in Generator /\ disturbed' \subseteq Disturbance
    BY <1>7, <1>0, DisturbanceType DEF CheckpointDue, checkpoint
  <2> QED BY <1>7, <2>1, Zenon DEF CheckpointDue, TypeOK
<1>8. CASE DongleInfo
  <2>1. peer' \in Peer
    BY <1>8, <1>0 DEF DongleInfo, bindAndRestore, Peer
  <2>2. binds' \in 0 .. MaxBinds
    BY <1>8, BoundsAssumption DEF DongleInfo, TypeOK
  <2>3. disturbed' \subseteq Disturbance
    BY <1>8, <1>0 DEF DongleInfo, Disturbance
  <2>4. homeBound' /\ up'
    BY <1>8, Zenon DEF DongleInfo, bindAndRestore
  <2>5. lastWritten' \in Generator
    BY <1>8, <1>0 DEF DongleInfo, bindAndRestore
  <2> QED BY <1>8, <2>1, <2>2, <2>3, <2>4, <2>5, Zenon DEF DongleInfo, TypeOK
<1>9. CASE Shutdown
  <2>1. disk' \in Generator /\ disturbed' \subseteq Disturbance
    BY <1>9, <1>0, DisturbanceType DEF Shutdown, checkpoint
  <2> QED BY <1>9, <2>1, ExitType DEF Shutdown
<1>10. CASE Killed
  <2>1. disk' \in Generator /\ disturbed' \subseteq Disturbance
    BY <1>10, <1>0, DisturbanceType, Zenon DEF Killed, Disturbance
  <2> QED BY <1>10, <2>1, ExitType DEF Killed
<1>11. CASE Start
  BY <1>11, Zenon DEF Start, TypeOK
<1>12. CASE NodeSend
  <2>1. entropy \in Entropy
    BY ReplyType
  <2>2. encrypt(dev, entropy, 1).span.k = Established(dev, entropy).span.k + 1
    BY EncryptDraws
  <2>3. Established(dev, entropy).span.k + 1 <= MaxDraws
    BY <2>2, <1>12 DEF NodeSend
  <2>4. dev' \in Peer /\ Wrapped(dev, entropy, 1) \in Seq(Frame)
    BY <2>1, <2>3, <1>0, <1>12, EncryptFacts DEF NodeSend
  <2>5. toHost' \in Seq(Frame)
    BY <2>4, <1>0, <1>12, Concatenated DEF NodeSend
  <2>6. entropy' \in 1 .. MaxEntropy
    BY <1>0, <1>12, <2>1, EstablishedFacts, BoundsAssumption DEF NodeSend, TypeOK
  <2>7. disturbed' \subseteq Disturbance
    BY <1>12, <1>0 DEF NodeSend, Disturbance
  <2> QED BY <1>12, <2>4, <2>5, <2>6, <2>7, Zenon DEF NodeSend, TypeOK
<1>13. CASE NodeAsks
  <2>1. toHost' \in Seq(Frame)
    BY <1>13, <1>0, Empty, Appended DEF NodeAsks
  <2> QED BY <1>13, <2>1, Zenon DEF NodeAsks, TypeOK
<1>14. CASE NodeGetsNonceGet
  <2>1. /\ entropy' \in 1 .. MaxEntropy /\ toHost' \in Seq(Frame) /\ toNode' \in Seq(Frame)
        /\ dev' \in Peer
    BY <1>14, <1>0, <1>h, ReplyType, ReiType DEF NodeGetsNonceGet
  <2> QED BY <1>14, <2>1, Zenon DEF NodeGetsNonceGet, TypeOK
<1>15. CASE NodeGetsReport
  <2>1. dev' \in Peer /\ toNode' \in Seq(Frame)
    BY <1>15, <1>0, <1>h, Empty, Zenon DEF NodeGetsReport, Peer
  <2>2. disturbed' \subseteq Disturbance
    BY <1>15, <1>0 DEF NodeGetsReport, Disturbance
  <2> QED BY <1>15, <2>1, <2>2, Zenon DEF NodeGetsReport, TypeOK
<1>16. CASE NodeGetsEncap
  <2> DEFINE f == Head(toNode)
             m == receiveNonce(dev, f)
  <2>1. f \in Frame /\ toNode' \in Seq(Frame) /\ m.span.k <= MaxDraws
    BY <1>16, <1>h DEF NodeGetsEncap
  <2>2. m \in Peer
    BY <2>1, <1>0, ReceiveFacts, Zenon
  <2>3. entropy \in Entropy /\ respondToNonceGet(m, entropy) \in Peer
    BY <2>2, ReplyType, ReiType
  <2>4. entropy' \in 1 .. MaxEntropy /\ toHost' \in Seq(Frame) /\ dev' \in Peer
    <3>1. CASE Decrypts(dev, f)
      BY <3>1, <1>16, <2>2, Zenon DEF NodeGetsEncap, TypeOK
    <3>2. CASE ~Decrypts(dev, f)
      <4>1. NodeReplies /\ dev' = respondToNonceGet(m, entropy)
        BY <3>2, <1>16 DEF NodeGetsEncap
      <4> QED BY <4>1, <2>3, ReplyType
    <3> QED BY <3>1, <3>2
  <2> QED BY <1>16, <2>1, <2>4, Zenon DEF NodeGetsEncap, TypeOK
<1>17. CASE Lose
  <2>1. toNode' \in Seq(Frame) /\ toHost' \in Seq(Frame)
    BY <1>17, <1>0, <1>h, Zenon DEF Lose
  <2>2. disturbed' \subseteq Disturbance
    BY <1>17, <1>0 DEF Lose, Disturbance
  <2> QED BY <1>17, <2>1, <2>2, Zenon DEF Lose, TypeOK
<1>18. CASE UNCHANGED vars
  BY <1>18, Zenon DEF vars, TypeOK
<1> QED BY <1>1, <1>2, <1>3, <1>4, <1>5, <1>6, <1>7, <1>8, <1>9, <1>10, <1>11, <1>12, <1>13, <1>14,
           <1>15, <1>16, <1>17, <1>18, Zenon DEF Next

-----------------------------------------------------------------------------
(* No nonce is used twice.                                                   *)

\* Drawing from a generator leaves a generator.
LEMMA DrawnIsSpan ==
    ASSUME NEW g \in Generator, NEW n \in Nat, g # NoSpan
    PROVE  Drawn(g, n) # NoSpan
<1>1. g = [sei |-> g.sei, rei |-> g.rei, k |-> g.k] /\ g.k \in Nat
  BY BoundsAssumption DEF Generator
<1>2. ~(g.sei = None /\ g.rei = None /\ g.k = 0)
  BY <1>1 DEF NoSpan
<1> QED BY <1>1, <1>2 DEF Drawn, NoSpan

\* n encryptions from the generator in memory, or from a new one made with an REI
\* of the node, draw nonces never drawn before and leave the generator past them.
LEMMA EncryptFresh ==
    ASSUME TypeOK, NonceInv, homeBound, NEW n \in Nat, NEW m \in Peer,
           m.span = peer.span, m.ourRei = peer.ourRei, m.peerRei < entropy,
           peer.ourRei # None => m.peerRei # peer.ourRei, HostEncrypts(m, n)
    PROVE  /\ peer'.span.sei < entropy' /\ peer'.span.rei < entropy' /\ peer'.peerRei < entropy'
           /\ peer'.ourRei = peer.ourRei /\ entropy <= entropy' /\ entropy' \in Nat
           /\ \A d \in drawn' : d.sei < entropy' /\ d.rei < entropy'
           /\ peer.ourRei # None => /\ peer'.span.rei # peer.ourRei /\ peer'.peerRei # peer.ourRei
                                    /\ \A d \in drawn' : d.rei # peer.ourRei
           /\ hasSpan(peer)'
           /\ Undisturbed => ~reused' /\ Past(peer.span)'
<1> DEFINE e == Established(m, entropy)
<1>a. entropy \in Entropy /\ e.span.k + n <= MaxDraws
  BY HostEncryptsType
<1>b. entropy \in 1 .. MaxEntropy
  BY DEF TypeOK
<1>1. /\ entropy \in Entropy /\ entropy \in Nat /\ entropy >= 1 /\ m.peerRei \in Nat
      /\ e.span.k + n <= MaxDraws /\ None = 0 /\ None < entropy
  BY <1>a, <1>b, BoundsAssumption DEF Entropy, None, Peer
<1>2. /\ entropy' = entropy + Entropies(m) /\ Entropies(m) \in {0, 1}
      /\ hasSpan(m) => Entropies(m) = 0
      /\ ~hasSpan(m) => Entropies(m) = 1
  BY DEF HostEncrypts, Entropies
<1>3. /\ peer'.ourRei = m.ourRei /\ peer'.peerRei \in {None, m.peerRei}
      /\ peer'.span = Drawn(e.span, n)
  BY <1>1, EncryptFacts DEF HostEncrypts
<1>4. /\ e \in Peer /\ e.span \in Generator /\ e.span.k \in Nat /\ m.span \in Generator
      /\ hasSpan(m) => e.span = peer.span
      /\ ~hasSpan(m) => e.span = [sei |-> entropy, rei |-> m.peerRei, k |-> 0]
  BY <1>1, EstablishedFacts, BoundsAssumption DEF Peer, Generator, instantiate
<1>5. /\ drawn' = drawn \cup Nonces(m, entropy, n)
      /\ reused' = (reused \/ Nonces(m, entropy, n) \cap drawn # {})
  BY DEF HostEncrypts
<1>6. \A d \in Nonces(m, entropy, n) :
        d.sei = e.span.sei /\ d.rei = e.span.rei /\ e.span.k <= d.k /\ d.k < e.span.k + n
  BY <1>4, DrawnFacts DEF Nonces
<1>7. /\ peer'.span.sei = e.span.sei /\ peer'.span.rei = e.span.rei
      /\ peer'.span.k = e.span.k + n
  BY <1>3, <1>4, DrawnFacts
<1>8. /\ e.span.sei < entropy' /\ e.span.rei < entropy'
      /\ entropy <= entropy' /\ entropy' \in Nat
      /\ peer.ourRei # None => e.span.rei # peer.ourRei
  <2>1. CASE hasSpan(m)
    BY <2>1, <1>1, <1>2, <1>4 DEF NonceInv, EntropyInv, ReiInv
  <2>2. CASE ~hasSpan(m)
    BY <2>2, <1>1, <1>2, <1>4
  <2> QED BY <2>1, <2>2
<1>9. \A d \in drawn' : d.sei < entropy' /\ d.rei < entropy'
  <2> SUFFICES ASSUME NEW d \in drawn' PROVE d.sei < entropy' /\ d.rei < entropy'
    OBVIOUS
  <2>1. CASE d \in drawn
    <3>1. d.sei < entropy /\ d.rei < entropy /\ d.sei \in Nat /\ d.rei \in Nat
      BY <2>1, BoundsAssumption DEF NonceInv, EntropyInv, TypeOK, Generator, Entropy
    <3> QED BY <3>1, <1>1, <1>8
  <2>2. CASE d \in Nonces(m, entropy, n)
    BY <2>2, <1>6, <1>8
  <2> QED BY <2>1, <2>2, <1>5
<1>10. ASSUME peer.ourRei # None
       PROVE  /\ peer'.span.rei # peer.ourRei /\ peer'.peerRei # peer.ourRei
              /\ \A d \in drawn' : d.rei # peer.ourRei
  BY <1>10, <1>3, <1>5, <1>6, <1>7, <1>8 DEF NonceInv, ReiInv
<1>11. hasSpan(peer)'
  <2>1. e.span # NoSpan
    <3>1. CASE hasSpan(m)
      BY <3>1, <1>4 DEF hasSpan
    <3>2. CASE ~hasSpan(m)
      BY <3>2, <1>4, <1>1 DEF NoSpan
    <3> QED BY <3>1, <3>2
  <2> QED BY <2>1, <1>3, <1>4, DrawnIsSpan DEF hasSpan
<1>12. ASSUME Undisturbed PROVE ~reused' /\ Past(peer.span)'
  <2>1. ~reused /\ (hasSpan(peer) => Past(peer.span))
    BY <1>12 DEF NonceInv, SpanInv
  <2>2. hasSpan(peer) <=> hasSpan(m)
    BY DEF hasSpan
  <2>3. \A d \in drawn : d.sei = e.span.sei /\ d.rei = e.span.rei => d.k < e.span.k
    <3>1. CASE hasSpan(m)
      BY <3>1, <2>1, <2>2, <1>4 DEF Past
    <3>2. CASE ~hasSpan(m)
      <4>1. \A d \in drawn : d.sei < entropy /\ d.sei \in Nat
        BY BoundsAssumption DEF NonceInv, EntropyInv, TypeOK, Generator, Entropy
      <4> QED BY <3>2, <4>1, <1>4, <1>1
    <3> QED BY <3>1, <3>2
  <2>4. \A d \in drawn : d.k \in Nat
    BY BoundsAssumption DEF TypeOK, Generator
  <2>5. \A d \in Nonces(m, entropy, n) : d.k \in Nat
    BY <1>1, EncryptFacts, BoundsAssumption DEF Generator
  <2>6. Nonces(m, entropy, n) \cap drawn = {}
    BY <2>3, <2>4, <1>4, <1>6
  <2>7. \A d \in drawn' : d.sei = peer'.span.sei /\ d.rei = peer'.span.rei => d.k < peer'.span.k
    BY <2>3, <2>4, <1>4, <1>5, <1>6, <1>7
  <2> QED BY <2>1, <2>6, <2>7, <1>5, Zenon DEF Past
<1>13. peer'.peerRei < entropy'
  BY <1>1, <1>3, <1>8
<1> QED BY <1>3, <1>7, <1>8, <1>9, <1>10, <1>11, <1>12, <1>13, Zenon

\* The entropy inputs that NonceInv relates are numbers.
LEMMA Numbers ==
    ASSUME TypeOK
    PROVE  /\ entropy \in Nat /\ entropy >= 1 /\ None = 0
           /\ peer.span \in Generator /\ peer.span.sei \in Nat /\ peer.span.rei \in Nat
           /\ peer.span.k \in Nat /\ peer.ourRei \in Nat /\ peer.peerRei \in Nat
           /\ disk \in Generator /\ disk.sei \in Nat /\ disk.rei \in Nat /\ disk.k \in Nat
           /\ \A d \in drawn : d.sei \in Nat /\ d.rei \in Nat /\ d.k \in Nat
           /\ \A f \in On(toHost) : f.rei \in Nat /\ f.ext \in Nat
<1>1. entropy \in Nat /\ entropy >= 1 /\ None = 0
  BY BoundsAssumption DEF TypeOK, None
<1>2. /\ peer \in Peer /\ disk \in Generator /\ drawn \subseteq Generator /\ toHost \in Seq(Frame)
  BY DEF TypeOK
<1>3. \A f \in On(toHost) : f \in Frame
  BY <1>2 DEF On
<1>4. \A g \in Generator : g.sei \in Nat /\ g.rei \in Nat /\ g.k \in Nat
  BY BoundsAssumption DEF Generator, Entropy
<1>5. peer.span \in Generator /\ peer.ourRei \in Nat /\ peer.peerRei \in Nat
  BY <1>2, BoundsAssumption DEF Peer, Entropy
<1>6. \A f \in On(toHost) : f.rei \in Nat /\ f.ext \in Nat
  BY <1>3, BoundsAssumption DEF Frame, Entropy
<1> QED BY <1>1, <1>2, <1>4, <1>5, <1>6

\* A step that leaves the daemon's generators alone, and sends it at most a fresh
\* entropy input, keeps the invariant.
LEMMA OthersKeepNonceInv ==
    ASSUME TypeOK, NonceInv, UNCHANGED <<peer, disk, lastWritten, homeBound, drawn, reused>>,
           disturbed \subseteq disturbed', entropy' \in Nat, entropy <= entropy',
           \A f \in On(toHost') : \/ f \in On(toHost)
                                  \/ /\ f.rei = None \/ (f.rei = entropy /\ entropy < entropy')
                                     /\ f.ext = None \/ (f.ext = entropy /\ entropy < entropy')
    PROVE  NonceInv'
<1>1. EntropyInv'
  <2>1. \A f \in On(toHost') : f.rei < entropy' /\ f.ext < entropy'
    BY Numbers DEF NonceInv, EntropyInv
  <2>2. /\ \A d \in drawn' : d.sei < entropy' /\ d.rei < entropy'
        /\ peer'.span.sei < entropy' /\ peer'.span.rei < entropy'
        /\ peer'.ourRei < entropy' /\ peer'.peerRei < entropy'
        /\ disk'.sei < entropy' /\ disk'.rei < entropy'
    BY Numbers DEF NonceInv, EntropyInv
  <2> QED BY <2>1, <2>2 DEF EntropyInv
<1>2. ReiInv'
  <2>1. peer.ourRei < entropy
    BY DEF NonceInv, EntropyInv
  <2> QED BY <2>1, Numbers DEF NonceInv, ReiInv
<1>3. SkippedIsStored'
  BY DEF NonceInv, SkippedIsStored
<1>4. SpanInv'
  BY DEF NonceInv, SpanInv, Undisturbed, Past, hasSpan
<1> QED BY <1>1, <1>2, <1>3, <1>4 DEF NonceInv

\* A step that encrypts.
LEMMA EncryptKeepsNonceInv ==
    ASSUME TypeOK, NonceInv, homeBound, UNCHANGED <<disk, lastWritten, homeBound>>,
           disturbed \subseteq disturbed', On(toHost') \subseteq On(toHost),
           NEW n \in Nat, NEW m \in Peer,
           m.span = peer.span, m.ourRei = peer.ourRei, m.peerRei < entropy,
           peer.ourRei # None => m.peerRei # peer.ourRei, HostEncrypts(m, n)
    PROVE  NonceInv'
<1>1. /\ peer'.span.sei < entropy' /\ peer'.span.rei < entropy' /\ peer'.peerRei < entropy'
      /\ peer'.ourRei = peer.ourRei /\ entropy <= entropy' /\ entropy' \in Nat
      /\ \A d \in drawn' : d.sei < entropy' /\ d.rei < entropy'
      /\ peer.ourRei # None => /\ peer'.span.rei # peer.ourRei /\ peer'.peerRei # peer.ourRei
                               /\ \A d \in drawn' : d.rei # peer.ourRei
      /\ hasSpan(peer)'
      /\ Undisturbed => ~reused' /\ Past(peer.span)'
  BY EncryptFresh
<1>2. EntropyInv'
  <2>1. \A f \in On(toHost') : f.rei < entropy' /\ f.ext < entropy'
    BY <1>1, Numbers DEF NonceInv, EntropyInv
  <2>2. peer'.ourRei < entropy' /\ disk'.sei < entropy' /\ disk'.rei < entropy'
    BY <1>1, Numbers DEF NonceInv, EntropyInv
  <2> QED BY <1>1, <2>1, <2>2 DEF EntropyInv
<1>3. ReiInv'
  BY <1>1 DEF NonceInv, ReiInv
<1>4. SkippedIsStored'
  BY DEF NonceInv, SkippedIsStored
<1>5. SpanInv'
  <2> SUFFICES ASSUME Undisturbed' PROVE ~reused' /\ Past(peer.span)'
    BY <1>1 DEF SpanInv
  <2>1. Undisturbed
    BY DEF Undisturbed
  <2> QED BY <2>1, <1>1
<1> QED BY <1>2, <1>3, <1>4, <1>5 DEF NonceInv

\* Handing out a fresh REI, from a state that satisfies the invariant but for it.
LEMMA FreshReiKeepsNonceInv ==
    ASSUME TypeOK, EntropyInv, UNCHANGED <<disk, drawn>>, On(toHost') \subseteq On(toHost),
           peer'.ourRei = entropy, entropy' = entropy + 1,
           peer'.span.sei \in Nat, peer'.span.rei \in Nat, peer'.peerRei \in Nat,
           peer'.span.sei < entropy, peer'.span.rei < entropy, peer'.peerRei < entropy
    PROVE  EntropyInv' /\ ReiInv'
<1>1. /\ entropy < entropy' /\ entropy' \in Nat /\ entropy \in Nat
      /\ \A d \in drawn' : d.sei < entropy /\ d.rei < entropy /\ d.sei \in Nat /\ d.rei \in Nat
      /\ disk'.sei < entropy /\ disk'.rei < entropy /\ disk'.sei \in Nat /\ disk'.rei \in Nat
      /\ \A f \in On(toHost') : f.rei < entropy /\ f.ext < entropy /\ f.rei \in Nat /\ f.ext \in Nat
  BY Numbers DEF EntropyInv
<1>2. EntropyInv'
  BY <1>1 DEF EntropyInv
<1>3. ReiInv'
  BY <1>1 DEF ReiInv
<1> QED BY <1>2, <1>3

\* A frame received advances the generator in memory, or replaces it by one the
\* daemon has drawn nothing from.
LEMMA ReceiveKeepsPast ==
    ASSUME TypeOK, NonceInv, NEW f \in On(toHost), f \in Frame,
           NEW m, m = receiveNonce(peer, f), m.span.k <= MaxDraws
    PROVE  /\ m \in Peer /\ m.peerRei = peer.peerRei /\ m.ourRei \in {None, peer.ourRei}
           /\ m.span.sei < entropy /\ m.span.rei < entropy
           /\ m.ourRei # None => m.ourRei = peer.ourRei /\ m.span.rei = peer.span.rei
           /\ ~hasSpan(m) => ~hasSpan(peer)
           /\ hasSpan(peer) /\ Past(peer.span) => Past(m.span)
           /\ ~hasSpan(peer) /\ hasSpan(m) => Past(m.span)
<1>0. peer \in Peer
  BY DEF TypeOK
<1>1. /\ m \in Peer /\ m.peerRei = peer.peerRei
      /\ \/ /\ m.ourRei = peer.ourRei
            /\ \/ m.span = peer.span /\ ~hasSpan(peer)
               \/ m.span = Drawn(peer.span, 1) /\ hasSpan(peer)
         \/ /\ peer.ourRei # None /\ m.ourRei = None
            /\ m.span = [sei |-> f.ext, rei |-> peer.ourRei, k |-> 1]
  BY <1>0, ReceiveFacts
<1>2. CASE m.ourRei = peer.ourRei /\ m.span = peer.span /\ ~hasSpan(peer)
  BY <1>1, <1>2 DEF hasSpan, NonceInv, EntropyInv
<1>3. CASE m.ourRei = peer.ourRei /\ m.span = Drawn(peer.span, 1) /\ hasSpan(peer)
  <2>1. /\ m.span.sei = peer.span.sei /\ m.span.rei = peer.span.rei /\ m.span.k = peer.span.k + 1
        /\ m.span # NoSpan
    <3>1. peer.span \in Generator /\ peer.span # NoSpan /\ 1 \in Nat
      BY <1>3, Numbers DEF hasSpan
    <3> QED BY <1>3, <3>1, DrawnFacts, DrawnIsSpan
  <2>2. Past(peer.span) => Past(m.span)
    BY <2>1, Numbers DEF Past
  <2> QED BY <1>1, <1>3, <2>1, <2>2, Zenon DEF hasSpan, NonceInv, EntropyInv
<1>4. CASE /\ peer.ourRei # None /\ m.ourRei = None
           /\ m.span = [sei |-> f.ext, rei |-> peer.ourRei, k |-> 1]
  <2>1. Past(m.span)
    BY <1>4 DEF Past, NonceInv, ReiInv
  <2>2. m.span.sei < entropy /\ m.span.rei < entropy
    BY <1>4 DEF NonceInv, EntropyInv
  <2>3. hasSpan(m)
    BY <1>4 DEF hasSpan, NoSpan
  <2> QED BY <1>1, <1>4, <2>1, <2>2, <2>3
<1> QED BY <1>1, <1>2, <1>3, <1>4, Zenon

\* The final checkpoint of a shutdown, or a kill that costs nothing, leaves on disk
\* a generator past all nonces drawn from it.
LEMMA ExitKeepsNonceInv ==
    ASSUME TypeOK, NonceInv, Exit, disk' \in {disk, peer.span}, disturbed \subseteq disturbed',
           Undisturbed' /\ homeBound => disk' = peer.span \/ (peer.span = NoSpan /\ disk' = disk),
           ~homeBound => disk' = disk
    PROVE  NonceInv'
<1>0. /\ peer' = NoPeer /\ homeBound' = FALSE /\ toHost' = <<>>
      /\ UNCHANGED <<entropy, drawn, reused>>
  BY DEF Exit
<1>1. EntropyInv'
  <2>1. /\ NoPeer.span.sei = 0 /\ NoPeer.span.rei = 0 /\ NoPeer.ourRei = 0 /\ NoPeer.peerRei = 0
    BY DEF NoPeer, NoSpan, None
  <2>2. On(<<>>) = {}
    BY DEF On
  <2>3. disk'.sei < entropy /\ disk'.rei < entropy
    BY DEF NonceInv, EntropyInv
  <2> QED BY <1>0, <2>1, <2>2, <2>3, Numbers DEF NonceInv, EntropyInv
<1>2. ReiInv'
  BY <1>0 DEF ReiInv, NoPeer
<1>3. SkippedIsStored'
  BY <1>0 DEF SkippedIsStored
<1>4. SpanInv'
  <2> SUFFICES ASSUME Undisturbed' PROVE ~reused /\ (disk' # NoSpan => Past(disk'))
    BY <1>0 DEF SpanInv, Past
  <2>1. Undisturbed
    BY DEF Undisturbed
  <2>2. CASE homeBound
    BY <2>1, <2>2 DEF NonceInv, SpanInv, hasSpan
  <2>3. CASE ~homeBound
    BY <2>1, <2>3 DEF NonceInv, SpanInv
  <2> QED BY <2>2, <2>3
<1> QED BY <1>1, <1>2, <1>3, <1>4 DEF NonceInv

\* Every step keeps the daemon's generators past what was drawn from them.
LEMMA NonceStep ==
    ASSUME TypeOK, NonceInv, [Next]_vars
    PROVE  NonceInv'
<1> USE DEF store, process, hostVars
<1>t. TypeOK'
  BY TypeStep
<1>0. /\ peer \in Peer /\ dev \in Peer /\ toNode \in Seq(Frame) /\ toHost \in Seq(Frame) /\ queued \in Nat
      /\ entropy \in Nat /\ entropy \in Entropy
  BY Numbers, ReplyType, BoundsAssumption DEF TypeOK
<1>e. entropy' \in Nat
  BY <1>t, BoundsAssumption DEF TypeOK
<1>h. toHost # <<>> => /\ Head(toHost) \in On(toHost) /\ On(Tail(toHost)) \subseteq On(toHost)
                       /\ Head(toHost) \in Frame
  BY <1>0, Received
<1>1. CASE SendNow
  <2>1. /\ homeBound /\ UNCHANGED <<disk, lastWritten, homeBound, toHost>>
        /\ disturbed \subseteq disturbed' /\ HostEncrypts(peer, 1)
    BY <1>1 DEF SendNow, Serving
  <2>2. peer.peerRei < entropy /\ (peer.ourRei # None => peer.peerRei # peer.ourRei)
    BY DEF NonceInv, EntropyInv, ReiInv
  <2> QED BY <1>0, <2>1, <2>2, EncryptKeepsNonceInv
<1>2. CASE SendLater
  BY <1>2, <1>0, OthersKeepNonceInv DEF SendLater
<1>3. CASE HostGetsNonceGet
  <2>1. /\ UNCHANGED <<disk, lastWritten, homeBound, drawn, reused, disturbed>>
        /\ peer' = respondToNonceGet(peer, entropy) /\ Reply(entropy)
        /\ On(toHost') \subseteq On(toHost) /\ homeBound
    BY <1>3, <1>h DEF HostGetsNonceGet, Serving
  <2>2. peer'.ourRei = entropy /\ peer'.span = peer.span /\ peer'.peerRei = peer.peerRei
    BY <2>1, <1>0, ReiType
  <2>3. entropy' = entropy + 1
    BY <2>1, ReplyType
  <2>4. EntropyInv' /\ ReiInv'
    BY <2>1, <2>2, <2>3, Numbers, FreshReiKeepsNonceInv, Zenon DEF NonceInv, EntropyInv
  <2>5. SkippedIsStored' /\ SpanInv'
    BY <2>1, <2>2, Zenon DEF NonceInv, SkippedIsStored, SpanInv, Undisturbed, Past, hasSpan
  <2> QED BY <2>4, <2>5 DEF NonceInv
<1>4. CASE HostIgnoresReport
  BY <1>4, <1>0, <1>h, OthersKeepNonceInv DEF HostIgnoresReport
<1>5. CASE HostGetsReport
  <2> DEFINE m == acceptNonceReport(peer, Head(toHost).rei)
  <2>1. /\ homeBound /\ UNCHANGED <<disk, lastWritten, homeBound>> /\ toHost # <<>>
        /\ disturbed \subseteq disturbed' /\ toHost' = Tail(toHost) /\ HostEncrypts(m, queued)
    BY <1>5 DEF HostGetsReport, Serving
  <2>2. Head(toHost).rei \in Entropy
    BY <2>1, <1>h DEF Frame
  <2>3. m \in Peer /\ m.span = peer.span /\ m.ourRei = peer.ourRei /\ m.peerRei = Head(toHost).rei
    BY <2>2, <1>0, ReiType, Zenon
  <2>4. m.peerRei < entropy /\ (peer.ourRei # None => m.peerRei # peer.ourRei)
    BY <2>1, <2>3, <1>h, Zenon DEF NonceInv, EntropyInv, ReiInv
  <2> HIDE DEF m
  <2> QED BY <1>0, <1>h, <2>1, <2>3, <2>4, EncryptKeepsNonceInv
<1>6. CASE HostGetsEncap
  <2> DEFINE f == Head(toHost)
             m == receiveNonce(peer, f)
  <2>1. /\ f \in On(toHost) /\ f \in Frame /\ m.span.k <= MaxDraws /\ homeBound
        /\ On(toHost') \subseteq On(toHost)
        /\ UNCHANGED <<disk, lastWritten, homeBound, drawn, reused, disturbed>>
    BY <1>6, <1>h, Zenon DEF HostGetsEncap, Serving
  <2>2. /\ m \in Peer /\ m.peerRei = peer.peerRei /\ m.ourRei \in {None, peer.ourRei}
        /\ m.span.sei < entropy /\ m.span.rei < entropy
        /\ m.ourRei # None => m.ourRei = peer.ourRei /\ m.span.rei = peer.span.rei
        /\ ~hasSpan(m) => ~hasSpan(peer)
        /\ hasSpan(peer) /\ Past(peer.span) => Past(m.span)
        /\ ~hasSpan(peer) /\ hasSpan(m) => Past(m.span)
    BY <2>1, ReceiveKeepsPast, Zenon
  <2> HIDE DEF m
  <2>3. ASSUME peer'.span = m.span PROVE SkippedIsStored' /\ SpanInv'
    BY <2>1, <2>2, <2>3 DEF NonceInv, SkippedIsStored, SpanInv, Undisturbed, Past, hasSpan
  <2>4. CASE Decrypts(peer, f)
    <3>1. peer' = m /\ entropy' = entropy
      BY <2>4, <1>6, Zenon DEF HostGetsEncap, m
    <3>2. EntropyInv'
      <4>1. EntropyInv
        BY Zenon DEF NonceInv
      <4> QED BY <3>1, <2>1, <2>2, <4>1, Numbers DEF EntropyInv
    <3>3. ReiInv'
      BY <3>1, <2>1, <2>2, Zenon DEF NonceInv, ReiInv
    <3> QED BY <3>1, <3>2, <3>3, <2>3 DEF NonceInv
  <2>5. CASE ~Decrypts(peer, f)
    <3>1. peer' = respondToNonceGet(m, entropy) /\ Reply(entropy)
      BY <2>5, <1>6, Zenon DEF HostGetsEncap, m
    <3>2. /\ entropy' = entropy + 1 /\ peer'.ourRei = entropy /\ peer'.span = m.span
          /\ peer'.peerRei = m.peerRei
      BY <3>1, <2>2, <1>0, ReplyType, ReiType
    <3>3. m.span.sei \in Nat /\ m.span.rei \in Nat
      BY <2>2, BoundsAssumption DEF Peer, Generator, Entropy
    <3>4. peer.peerRei < entropy /\ peer.peerRei \in Nat /\ EntropyInv
      BY Numbers DEF NonceInv, EntropyInv
    <3>5. EntropyInv' /\ ReiInv'
      BY <3>2, <3>3, <3>4, <2>1, <2>2, FreshReiKeepsNonceInv
    <3> QED BY <3>2, <3>5, <2>3 DEF NonceInv
  <2> QED BY <2>4, <2>5
<1>7. CASE CheckpointDue
  <2>1. PICK ok \in BOOLEAN : checkpoint(ok) /\ disturbed' = disturbed \cup Unsaved(ok)
    BY <1>7 DEF CheckpointDue
  <2>2. /\ Dirty /\ lastWritten' = peer.span
        /\ UNCHANGED <<peer, homeBound, toHost, entropy, drawn, reused>>
    BY <1>7 DEF CheckpointDue
  <2>3. /\ disk' \in {disk, peer.span} /\ ("unsaved" \notin disturbed' => disk' = peer.span)
        /\ disturbed \subseteq disturbed' /\ hasSpan(peer) /\ homeBound
    BY <2>1, <2>2 DEF checkpoint, Unsaved, Dirty
  <2>4. EntropyInv' /\ ReiInv'
    BY <2>2, <2>3 DEF NonceInv, EntropyInv, ReiInv
  <2>5. SkippedIsStored'
    BY <2>2, <2>3 DEF SkippedIsStored
  <2>6. SpanInv'
    BY <2>2, <2>3, Zenon DEF NonceInv, SpanInv, Undisturbed, Past, hasSpan
  <2> QED BY <2>4, <2>5, <2>6 DEF NonceInv
<1>8. CASE DongleInfo
  <2>1. /\ peer' = [span |-> IF disk # NoSpan THEN disk ELSE peer.span,
                    ourRei |-> peer.ourRei, peerRei |-> peer.peerRei]
        /\ homeBound' = TRUE /\ lastWritten' = disk
        /\ disturbed \subseteq disturbed' /\ UNCHANGED <<disk, toHost, entropy, drawn, reused>>
        /\ "replugged" \notin disturbed' => (homeBound => disk \in {NoSpan, peer.span})
    BY <1>8 DEF DongleInfo, bindAndRestore
  <2>2. /\ peer'.span = IF disk # NoSpan THEN disk ELSE peer.span
        /\ peer'.ourRei = peer.ourRei /\ peer'.peerRei = peer.peerRei
    BY <2>1
  <2>3. EntropyInv' /\ ReiInv'
    BY <2>1, <2>2 DEF NonceInv, EntropyInv, ReiInv
  <2>4. SkippedIsStored'
    BY <2>1 DEF SkippedIsStored
  <2>5. SpanInv'
    <3> SUFFICES ASSUME Undisturbed'
                 PROVE  /\ ~reused /\ (peer'.span # NoSpan => Past(peer'.span))
                        /\ peer'.span = NoSpan => disk = NoSpan
      BY <2>1 DEF SpanInv, Past, hasSpan
    <3>1. Undisturbed /\ (homeBound => disk \in {NoSpan, peer.span})
      BY <2>1 DEF Undisturbed
    <3>2. CASE homeBound
      BY <3>1, <3>2, <2>2 DEF NonceInv, SpanInv, hasSpan
    <3>3. CASE ~homeBound
      <4>1. peer.span = NoSpan
        BY <3>3 DEF TypeOK, NoPeer
      <4> QED BY <3>1, <3>3, <4>1, <2>2 DEF NonceInv, SpanInv
    <3> QED BY <3>2, <3>3
  <2> QED BY <2>3, <2>4, <2>5 DEF NonceInv
<1>9. CASE Shutdown
  <2>1. PICK ok \in BOOLEAN : checkpoint(ok) /\ disturbed' = disturbed \cup Missed \cup Unsaved(ok)
    BY <1>9 DEF Shutdown
  <2>2. disk' \in {disk, peer.span} /\ disturbed \subseteq disturbed' /\ Exit
    BY <2>1, <1>9 DEF Shutdown, checkpoint
  <2>3. ~homeBound => disk' = disk
    BY <2>1 DEF checkpoint, Dirty
  <2>4. ASSUME Undisturbed', homeBound
        PROVE  disk' = peer.span \/ (peer.span = NoSpan /\ disk' = disk)
    <3>1. CASE Dirty
      BY <3>1, <2>1, <2>4 DEF checkpoint, Unsaved, Undisturbed, Missed
    <3>2. CASE ~Dirty
      BY <3>2, <2>1, <2>4 DEF checkpoint, Dirty, Undisturbed, NonceInv, SkippedIsStored, hasSpan
    <3> QED BY <3>1, <3>2
  <2> QED BY <2>2, <2>3, <2>4, ExitKeepsNonceInv
<1>10. CASE Killed
  <2>1. disk' = disk /\ disturbed \subseteq disturbed' /\ Exit
    BY <1>10 DEF Killed
  <2>2. Undisturbed' /\ homeBound => disk' = peer.span \/ (peer.span = NoSpan /\ disk' = disk)
    BY <1>10 DEF Killed, Undisturbed
  <2> QED BY <2>1, <2>2, ExitKeepsNonceInv
<1>11. CASE Start
  BY <1>11, <1>0, OthersKeepNonceInv DEF Start
<1>12. CASE NodeSend
  <2>1. encrypt(dev, entropy, 1).span.k = Established(dev, entropy).span.k + 1
    BY EncryptDraws
  <2>2. Established(dev, entropy).span.k + 1 <= MaxDraws
    BY <2>1, <1>12 DEF NodeSend
  <2>3. /\ Wrapped(dev, entropy, 1) \in Seq(Frame)
        /\ \A f \in On(Wrapped(dev, entropy, 1)) : f.rei = None /\ f.ext \in {None, SpanExtension(dev, entropy)}
    <3>1. Wrapped(dev, entropy, 1) \in Seq(Frame)
      BY <2>2, <1>0, EncryptFacts
    <3>2. /\ Len(Wrapped(dev, entropy, 1)) = 1
          /\ Wrapped(dev, entropy, 1)[1].rei = None
          /\ Wrapped(dev, entropy, 1)[1].ext = SpanExtension(dev, entropy)
      BY DEF Wrapped, Encap
    <3> QED BY <3>1, <3>2 DEF On
  <2>4. On(toHost') = On(toHost) \cup On(Wrapped(dev, entropy, 1))
    BY <1>0, <1>12, <2>3, Concatenated DEF NodeSend
  <2>5. /\ entropy' = entropy + Entropies(dev)
        /\ SpanExtension(dev, entropy) = None \/ (SpanExtension(dev, entropy) = entropy /\ Entropies(dev) = 1)
        /\ Entropies(dev) \in {0, 1}
    BY <1>12 DEF NodeSend, SpanExtension, Entropies
  <2>6. entropy <= entropy' /\ (SpanExtension(dev, entropy) # None =>
                                  SpanExtension(dev, entropy) = entropy /\ entropy < entropy')
    BY <2>5, <1>0
  <2>7. UNCHANGED <<peer, disk, lastWritten, homeBound, drawn, reused>> /\ disturbed \subseteq disturbed'
    BY <1>12, Zenon DEF NodeSend
  <2>8. \A f \in On(toHost') : \/ f \in On(toHost)
                               \/ /\ f.rei = None
                                  /\ f.ext = None \/ (f.ext = entropy /\ entropy < entropy')
    BY <2>3, <2>4, <2>6
  <2> QED BY <1>e, <2>6, <2>7, <2>8, OthersKeepNonceInv
<1>13. CASE NodeAsks
  <2>1. /\ UNCHANGED <<peer, disk, lastWritten, homeBound, drawn, reused, disturbed, entropy>>
        /\ toHost' = Append(toHost, NonceGet)
    BY <1>13 DEF NodeAsks
  <2>2. On(toHost') = On(toHost) \cup {NonceGet}
    BY <2>1, <1>0, Empty, Appended
  <2> QED BY <1>0, <2>1, <2>2, OthersKeepNonceInv DEF NonceGet
<1>r. ASSUME NodeReplies, UNCHANGED <<peer, disk, lastWritten, homeBound, drawn, reused, disturbed>>
      PROVE  NonceInv'
  <2>1. entropy' = entropy + 1 /\ \A f \in On(toHost') : f \in On(toHost) \/ f = NonceReport(entropy)
    BY <1>r, ReplyType
  <2>2. entropy <= entropy' /\ entropy < entropy'
    BY <2>1, <1>0
  <2>3. NonceReport(entropy).rei = entropy /\ NonceReport(entropy).ext = None
    BY DEF NonceReport
  <2> QED BY <1>e, <1>r, <2>1, <2>2, <2>3, OthersKeepNonceInv
<1>14. CASE NodeGetsNonceGet
  BY <1>14, <1>r DEF NodeGetsNonceGet
<1>15. CASE NodeGetsReport
  BY <1>15, <1>0, OthersKeepNonceInv DEF NodeGetsReport
<1>16. CASE NodeGetsEncap
  <2>1. CASE UNCHANGED <<toHost, entropy>>
    <3>1. UNCHANGED <<hostVars, disturbed>>
      BY <1>16, Zenon DEF NodeGetsEncap
    <3>2. entropy' \in Nat /\ entropy <= entropy' /\ On(toHost') = On(toHost)
      BY <2>1, <1>0
    <3> QED BY <3>1, <3>2, <1>0, OthersKeepNonceInv DEF hostVars
  <2>2. CASE NodeReplies
    BY <1>16, <2>2, <1>r, Zenon DEF NodeGetsEncap
  <2> QED BY <1>16, <2>1, <2>2, Zenon DEF NodeGetsEncap
<1>17. CASE Lose
  <2>1. On(toHost') \subseteq On(toHost)
    BY <1>17, <1>h, Zenon DEF Lose
  <2> QED BY <1>17, <2>1, <1>0, OthersKeepNonceInv DEF Lose
<1>18. CASE UNCHANGED vars
  BY <1>18, <1>0, OthersKeepNonceInv DEF vars
<1> QED BY <1>1, <1>2, <1>3, <1>4, <1>5, <1>6, <1>7, <1>8, <1>9, <1>10, <1>11, <1>12, <1>13, <1>14,
           <1>15, <1>16, <1>17, <1>18, Zenon DEF Next

-----------------------------------------------------------------------------
(* No payload waits in vain.                                                 *)

\* A nonce request or its answer is on the air.
Awaited ==
  (\E f \in On(toNode) : f.type = "get") \/ (\E f \in On(toHost) : f.type = "report")

\* The property says just that.
LEMMA AwaitedMeans ==
    WaitingIsAnswered <=> (queued > 0 /\ "lost" \notin disturbed => Awaited)
BY DEF WaitingIsAnswered, Awaited, On

\* A step that receives neither a request on the node's side nor an answer on the
\* daemon's leaves them on the air.
LEMMA StillAwaited ==
    ASSUME Awaited, \A f \in On(toNode) : f.type = "get" => f \in On(toNode'),
           \A f \in On(toHost) : f.type = "report" => f \in On(toHost')
    PROVE  Awaited'
BY DEF Awaited

\* Every step keeps the request or the answer on the air while payloads wait.
LEMMA WaitingStep ==
    ASSUME TypeOK, WaitingIsAnswered, [Next]_vars
    PROVE  WaitingIsAnswered'
<1> USE DEF store, process, hostVars
<1>0. /\ peer \in Peer /\ dev \in Peer /\ toNode \in Seq(Frame) /\ toHost \in Seq(Frame) /\ queued \in Nat
      /\ entropy \in Entropy
  BY ReplyType, BoundsAssumption DEF TypeOK
<1>h. /\ toHost # <<>> => On(toHost) = {Head(toHost)} \cup On(Tail(toHost))
      /\ toNode # <<>> => On(toNode) = {Head(toNode)} \cup On(Tail(toNode))
  BY <1>0, Received
<1> SUFFICES ASSUME queued' > 0, "lost" \notin disturbed' PROVE Awaited'
  BY DEF WaitingIsAnswered, Awaited, On
<1>a. queued > 0 /\ "lost" \notin disturbed => Awaited
  BY AwaitedMeans
<1>1. CASE SendNow
  <2>1. On(toNode) \subseteq On(toNode')
    BY <1>1, <1>0, HostEncryptsType DEF SendNow
  <2> QED BY <1>1, <1>a, <2>1, StillAwaited DEF SendNow
<1>2. CASE SendLater
  <2>1. On(Append(toNode, NonceGet)) = On(toNode) \cup {NonceGet} /\ NonceGet.type = "get"
    BY <1>0, Empty, Appended, Zenon DEF NonceGet
  <2>2. CASE queued = 0
    BY <1>2, <2>1, <2>2 DEF SendLater, Awaited
  <2>3. CASE queued # 0
    BY <1>2, <1>0, <1>a, <2>3, StillAwaited DEF SendLater
  <2> QED BY <2>2, <2>3
<1>3. CASE HostGetsNonceGet
  <2>1. On(toNode) \subseteq On(toNode')
    BY <1>3, ReplyType DEF HostGetsNonceGet
  <2> QED BY <1>3, <1>a, <1>h, <2>1, StillAwaited DEF HostGetsNonceGet
<1>4. CASE HostIgnoresReport
  BY <1>4, <1>0 DEF HostIgnoresReport
<1>5. CASE HostGetsReport
  BY <1>5 DEF HostGetsReport, Remaining
<1>6. CASE HostGetsEncap
  <2>1. On(toNode) \subseteq On(toNode')
    BY <1>6, ReplyType, Zenon DEF HostGetsEncap
  <2> QED BY <1>6, <1>a, <1>h, <2>1, StillAwaited DEF HostGetsEncap
<1>7. CASE CheckpointDue
  <2>1. UNCHANGED <<queued, toNode, toHost>> /\ disturbed \subseteq disturbed'
    BY <1>7 DEF CheckpointDue
  <2> QED BY <1>a, <2>1, StillAwaited
<1>8. CASE DongleInfo
  <2>1. UNCHANGED <<queued, toNode, toHost>> /\ disturbed \subseteq disturbed'
    BY <1>8 DEF DongleInfo
  <2> QED BY <1>a, <2>1, StillAwaited
<1>9. CASE Shutdown
  BY <1>9 DEF Shutdown, Exit
<1>10. CASE Killed
  BY <1>10 DEF Killed, Exit
<1>11. CASE Start
  BY <1>11, <1>a, StillAwaited DEF Start
<1>12. CASE NodeSend
  <2>1. encrypt(dev, entropy, 1).span.k = Established(dev, entropy).span.k + 1
    BY EncryptDraws
  <2>2. Established(dev, entropy).span.k + 1 <= MaxDraws
    BY <2>1, <1>12 DEF NodeSend
  <2>3. Wrapped(dev, entropy, 1) \in Seq(Frame)
    BY <2>2, <1>0, EncryptFacts, Zenon
  <2>4. On(toHost) \subseteq On(toHost')
    BY <1>0, <1>12, <2>3, Concatenated DEF NodeSend
  <2>5. UNCHANGED <<queued, toNode>> /\ disturbed \subseteq disturbed'
    BY <1>12 DEF NodeSend
  <2> QED BY <1>a, <2>4, <2>5, StillAwaited
<1>13. CASE NodeAsks
  <2>1. On(toHost) \subseteq On(toHost')
    BY <1>13, <1>0, Empty, Appended DEF NodeAsks
  <2> QED BY <1>13, <1>a, <2>1, StillAwaited DEF NodeAsks
<1>14. CASE NodeGetsNonceGet
  \* A daemon with payloads queued is bound, so the node's answer will reach it.
  <2>1. homeBound
    BY <1>14 DEF NodeGetsNonceGet, TypeOK
  <2>2. NonceReport(entropy) \in On(toHost') /\ NonceReport(entropy).type = "report"
    BY <1>14, <2>1, ReplyType DEF NodeGetsNonceGet, NonceReport
  <2> QED BY <2>2 DEF Awaited
<1>15. CASE NodeGetsReport
  <2>1. UNCHANGED <<queued, toHost>> /\ disturbed \subseteq disturbed'
    BY <1>15 DEF NodeGetsReport
  <2>2. \A f \in On(toNode) : f.type = "get" => f \in On(toNode')
    BY <1>15, <1>h DEF NodeGetsReport
  <2> QED BY <1>a, <2>1, <2>2, StillAwaited
<1>16. CASE NodeGetsEncap
  <2>1. On(toHost) \subseteq On(toHost')
    BY <1>16, ReplyType, Zenon DEF NodeGetsEncap
  <2>2. \A f \in On(toNode) : f.type = "get" => f \in On(toNode')
    BY <1>16, <1>h DEF NodeGetsEncap
  <2> QED BY <1>16, <1>a, <2>1, <2>2, StillAwaited, Zenon DEF NodeGetsEncap
<1>17. CASE Lose
  BY <1>17 DEF Lose
<1>18. CASE UNCHANGED vars
  BY <1>18, <1>a, StillAwaited DEF vars
<1> QED BY <1>1, <1>2, <1>3, <1>4, <1>5, <1>6, <1>7, <1>8, <1>9, <1>10, <1>11, <1>12, <1>13, <1>14,
           <1>15, <1>16, <1>17, <1>18, Zenon DEF Next

-----------------------------------------------------------------------------
\* The initial state satisfies all three.
LEMMA Initially ==
    ASSUME Init
    PROVE  TypeOK /\ NonceInv /\ WaitingIsAnswered
<1> USE DEF Init
<1>1. TypeOK
  <2>1. queued \in 0 .. MaxQueue /\ binds \in 0 .. MaxBinds /\ entropy \in 1 .. MaxEntropy
    BY BoundsAssumption
  <2>2. toNode \in Seq(Frame) /\ toHost \in Seq(Frame)
    OBVIOUS
  <2>3. up \in BOOLEAN /\ homeBound \in BOOLEAN /\ reused \in BOOLEAN
    BY Zenon
  <2>4. drawn \subseteq Generator /\ disturbed \subseteq Disturbance
    OBVIOUS
  <2> QED BY <2>1, <2>2, <2>3, <2>4, Empty, Zenon DEF TypeOK
<1>2. NonceInv
  <2>1. On(toHost) = {}
    BY DEF On
  <2>2. EntropyInv
    BY <2>1 DEF EntropyInv, NoPeer, NoSpan, None
  <2>3. ReiInv
    BY DEF ReiInv, NoPeer
  <2>4. SkippedIsStored
    BY DEF SkippedIsStored
  <2>5. SpanInv
    BY DEF SpanInv
  <2> QED BY <2>2, <2>3, <2>4, <2>5 DEF NonceInv
<1>3. WaitingIsAnswered
  BY DEF WaitingIsAnswered
<1> QED BY <1>1, <1>2, <1>3

\* In every behaviour of the daemon, the node and the radio: every variable keeps
\* its range, and a process that is not bound to a network holds no generator.
THEOREM TypeCorrect == Spec => []TypeOK
<1>1. Init => TypeOK
  BY Initially
<1>2. TypeOK /\ [Next]_vars => TypeOK'
  BY TypeStep
<1> QED BY <1>1, <1>2, PTL DEF Spec

\* The inductive invariant behind the next two theorems: entropy inputs are fresh,
\* and the generator in memory, or on disk between two sessions, is past every
\* nonce the daemon drew from it.
THEOREM NonceInvariant == Spec => []NonceInv
<1>1. Init => NonceInv
  BY Initially
<1>2. TypeOK /\ NonceInv /\ [Next]_vars => NonceInv'
  BY NonceStep
<1> QED BY <1>1, <1>2, TypeCorrect, PTL DEF Spec

\* SpanStoreService, "A clean shutdown loses nothing": for any number of restarts,
\* reconnects and resynchronisations the daemon never encrypts two frames with the
\* same nonce, unless it was killed with unsaved advances, a save failed or a
\* reconnect restored an older state over a live one.
THEOREM NoncesFresh == Spec => []FreshNonces
<1>1. NonceInv => FreshNonces
  BY DEF NonceInv, SpanInv, Undisturbed, FreshNonces
<1> QED BY <1>1, NonceInvariant, PTL

\* SpanStoreService::checkpoint: what it believes written, and will not write again,
\* is what is on disk, unless a save failed.
THEOREM SkipIsSafe == Spec => []SkippedIsStored
<1>1. NonceInv => SkippedIsStored
  BY DEF NonceInv
<1> QED BY <1>1, NonceInvariant, PTL

\* SecurityS2OutboundOrchestrator: with nothing lost, payloads wait only while the
\* NONCE_GET sent for them, or the node's answer, is on the air.
THEOREM NobodyWaitsInVain == Spec => []WaitingIsAnswered
<1>1. Init => WaitingIsAnswered
  BY Initially
<1>2. TypeOK /\ WaitingIsAnswered /\ [Next]_vars => WaitingIsAnswered'
  BY WaitingStep
<1> QED BY <1>1, <1>2, TypeCorrect, PTL DEF Spec

=============================================================================
