-------------------------- MODULE S2LockstepProofs --------------------------
(* The two ends of an undisturbed S2 exchange stay in lockstep, for every    *)
(* number of entropy inputs, draws, frames on the air, queued payloads and   *)
(* reconnects.                                                               *)
EXTENDS S2SpanProofs

-----------------------------------------------------------------------------
(* The two ends stay in lockstep.                                            *)

\* The generator the daemon will go on with.
HostSpan == IF homeBound THEN peer.span ELSE disk

IsEncap(ch, i) == ch[i].type = "encap"
\* Encrypted frame i is the first on the air, the last, or j is the next after it.
FirstEncap(ch, i) == IsEncap(ch, i) /\ \A h \in 1 .. Len(ch) : h < i => ~IsEncap(ch, h)
LastEncap(ch, i) == IsEncap(ch, i) /\ \A h \in 1 .. Len(ch) : i < h => ~IsEncap(ch, h)
NextEncap(ch, i, j) ==
  /\ i < j /\ IsEncap(ch, i) /\ IsEncap(ch, j)
  /\ \A h \in 1 .. Len(ch) : i < h /\ h < j => ~IsEncap(ch, h)

\* Receiver r can decrypt frame f as the next one.
Opens(f, r) ==
  IF f.ext = None THEN f.nonce = r.span
  ELSE r.ourRei # None /\ f.nonce = instantiate(f.ext, r.ourRei)

\* The encrypted frames on the air carry the nonces from the receiver's generator
\* up to the sender's, without a gap.
Stream(ch, sender, r) ==
  /\ \A i \in 1 .. Len(ch) : IsEncap(ch, i) => ch[i].nonce # NoSpan
  /\ \A i \in 1 .. Len(ch) : FirstEncap(ch, i) => Opens(ch[i], r)
  /\ \A i, j \in 1 .. Len(ch) :
       NextEncap(ch, i, j) => ch[j].nonce = Drawn(ch[i].nonce, 1) /\ ch[j].ext = None
  /\ \A i \in 1 .. Len(ch) : LastEncap(ch, i) => sender = Drawn(ch[i].nonce, 1)

Has(ch, type) == \E f \in On(ch) : f.type = type
Once(ch, type) == \A i, j \in 1 .. Len(ch) : ch[i].type = type /\ ch[j].type = type => i = j
HasExt(ch) == \E f \in On(ch) : f.type = "encap" /\ f.ext # None

StreamInv ==
  /\ Has(toNode, "encap") => /\ ~Has(toHost, "encap") /\ HostSpan # NoSpan
                             /\ Stream(toNode, HostSpan, dev)
  /\ Has(toHost, "encap") => hasSpan(dev) /\ Stream(toHost, dev.span, peer)
  /\ ~Has(toNode, "encap") /\ ~Has(toHost, "encap") => HostSpan = dev.span
  /\ ~homeBound => toHost = <<>>

\* The daemon's request for an REI: one for all that is queued.
HostAskInv ==
  /\ peer.peerRei # None => hasSpan(peer)
  /\ Once(toNode, "get") /\ Once(toHost, "report") /\ ~(Has(toNode, "get") /\ Has(toHost, "report"))
  /\ queued = 0 => ~Has(toNode, "get") /\ ~Has(toHost, "report")
  /\ \A f \in On(toHost) : f.type = "report" => f.rei = dev.ourRei /\ f.rei # None
  /\ HasExt(toNode) => queued = 0

\* The node's.
NodeAskInv ==
  /\ Once(toHost, "get") /\ Once(toNode, "report") /\ ~(Has(toHost, "get") /\ Has(toNode, "report"))
  /\ dev.peerRei # None \/ HasExt(toHost) => ~Has(toHost, "get") /\ ~Has(toNode, "report")
  /\ dev.peerRei # None /\ ~hasSpan(dev) => homeBound /\ peer.ourRei = dev.peerRei
  /\ \A f \in On(toNode) : f.type = "report" => homeBound /\ f.rei = peer.ourRei /\ f.rei # None

LockInv == disturbed = {} => StreamInv /\ HostAskInv /\ NodeAskInv

\* A peer that can open an encrypted frame decrypts it, and is then one nonce on.
LEMMA OpensDecrypts ==
    ASSUME NEW r \in Peer, NEW f \in Frame, Opens(f, r), f.nonce # NoSpan
    PROVE  /\ Decrypts(r, f)
           /\ receiveNonce(r, f).span = Drawn(f.nonce, 1)
           /\ receiveNonce(r, f).peerRei = r.peerRei
           /\ receiveNonce(r, f).ourRei = IF f.ext = None THEN r.ourRei ELSE None
           /\ hasSpan(receiveNonce(r, f))
<1> DEFINE o == Opened(r, f.ext)
<1>1. /\ o.span = f.nonce /\ o.peerRei = r.peerRei
      /\ o.ourRei = IF f.ext = None THEN r.ourRei ELSE None
  BY DEF Opened, Opens
<1>2. hasSpan(o)
  BY <1>1 DEF hasSpan
<1>3. receiveNonce(r, f) = [span |-> Drawn(o.span, 1), ourRei |-> o.ourRei, peerRei |-> o.peerRei]
  BY <1>2 DEF receiveNonce
<1>4. f.nonce \in Generator /\ Drawn(f.nonce, 1) # NoSpan
  BY DrawnIsSpan DEF Frame
<1> QED BY <1>1, <1>2, <1>3, <1>4 DEF Decrypts, hasSpan

\* A frame more on the air, one that is not encrypted, leaves the stream intact.
LEMMA HasAppend ==
    ASSUME NEW ch \in Seq(Frame), NEW f \in Frame
    PROVE  /\ \A t : Has(Append(ch, f), t) <=> Has(ch, t) \/ f.type = t
           /\ \A t : Once(ch, t) /\ (f.type = t => ~Has(ch, t)) => Once(Append(ch, f), t)
           /\ f.type # "encap" => (HasExt(Append(ch, f)) <=> HasExt(ch))
           /\ \A s, r : f.type # "encap" /\ Stream(ch, s, r) => Stream(Append(ch, f), s, r)
<1> DEFINE n == Len(ch)
           c == Append(ch, f)
<1>1. /\ n \in Nat /\ Len(c) = n + 1 /\ c[n + 1] = f
      /\ \A i \in 1 .. n : c[i] = ch[i]
  OBVIOUS
<1>2. On(c) = On(ch) \cup {f}
  BY Appended
<1>3. \A t : Has(c, t) <=> Has(ch, t) \/ f.type = t
  BY <1>2 DEF Has
<1>4. f.type # "encap" => (HasExt(c) <=> HasExt(ch))
  BY <1>2 DEF HasExt
<1> HIDE DEF c, n
<1>5. \A i \in 1 .. Len(c) : i \in 1 .. n \/ i = n + 1
  BY <1>1
<1>6. ASSUME NEW t, Once(ch, t), f.type = t => ~Has(ch, t) PROVE Once(c, t)
  <2>1. \A i \in 1 .. n : ch[i] \in On(ch)
    BY DEF On, n
  <2> QED BY <1>1, <1>5, <1>6, <2>1 DEF Once, Has, n
<1>7. ASSUME NEW s, NEW r, f.type # "encap", Stream(ch, s, r) PROVE Stream(c, s, r)
  <2>1. \A i \in 1 .. Len(c) : IsEncap(c, i) => i \in 1 .. n /\ IsEncap(ch, i) /\ c[i] = ch[i]
    BY <1>1, <1>5, <1>7 DEF IsEncap
  <2>2. \A i \in 1 .. n : i \in 1 .. Len(c) /\ (IsEncap(c, i) <=> IsEncap(ch, i))
    BY <1>1 DEF IsEncap
  <2>3. \A i \in 1 .. Len(c) : FirstEncap(c, i) => i \in 1 .. n /\ FirstEncap(ch, i)
    BY <2>1, <2>2 DEF FirstEncap, n
  <2>4. \A i \in 1 .. Len(c) : LastEncap(c, i) => i \in 1 .. n /\ LastEncap(ch, i)
    BY <2>1, <2>2 DEF LastEncap, n
  <2>5. \A i, j \in 1 .. Len(c) : NextEncap(c, i, j) => i \in 1 .. n /\ j \in 1 .. n /\ NextEncap(ch, i, j)
    BY <2>1, <2>2 DEF NextEncap, n
  <2> QED BY <1>7, <2>1, <2>3, <2>4, <2>5 DEF Stream, n, FirstEncap, LastEncap, NextEncap
<1> QED BY <1>3, <1>4, <1>6, <1>7 DEF c

\* A frame received leaves the stream intact: one that is not encrypted as it was,
\* and an encrypted one for a receiver that is one nonce on.
LEMMA HasTail ==
    ASSUME NEW ch \in Seq(Frame), ch # <<>>
    PROVE  /\ \A t : Has(ch, t) <=> Has(Tail(ch), t) \/ Head(ch).type = t
           /\ \A t : Once(ch, t) => Once(Tail(ch), t)
           /\ \A t : Once(ch, t) /\ Head(ch).type = t => ~Has(Tail(ch), t)
           /\ HasExt(Tail(ch)) => HasExt(ch)
           /\ \A s, r : Head(ch).type # "encap" /\ Stream(ch, s, r) => Stream(Tail(ch), s, r)
           /\ \A s, r, q : Head(ch).type = "encap" /\ Stream(ch, s, r) =>
                /\ Opens(Head(ch), r) /\ Head(ch).nonce # NoSpan
                /\ q.span = Drawn(Head(ch).nonce, 1) => Stream(Tail(ch), s, q)
                /\ ~Has(Tail(ch), "encap") => s = Drawn(Head(ch).nonce, 1)
<1> DEFINE n == Len(ch)
           c == Tail(ch)
<1>1. /\ n \in Nat /\ n >= 1 /\ Len(c) = n - 1 /\ Head(ch) = ch[1]
      /\ \A i \in 1 .. Len(c) : c[i] = ch[i + 1]
  BY HeadTailProperties, EmptySeq
<1>2. On(ch) = {Head(ch)} \cup On(c) /\ Head(ch) \in On(ch)
  BY Received
<1>3. \A t : Has(ch, t) <=> Has(c, t) \/ Head(ch).type = t
  BY <1>2 DEF Has
<1>4. HasExt(c) => HasExt(ch)
  BY <1>2 DEF HasExt
<1> HIDE DEF c, n
<1>5. \A i \in 1 .. Len(c) : i + 1 \in 1 .. n /\ i + 1 > 1
  BY <1>1
<1>b. \A i \in 1 .. n : i # 1 => i - 1 \in 1 .. Len(c) /\ ch[i] = c[i - 1]
  BY <1>1
<1>6. ASSUME NEW t, Once(ch, t) PROVE Once(c, t)
  <2> SUFFICES ASSUME NEW i \in 1 .. Len(c), NEW j \in 1 .. Len(c), c[i].type = t, c[j].type = t
               PROVE  i = j
    BY DEF Once
  <2>1. /\ i + 1 \in 1 .. n /\ j + 1 \in 1 .. n
        /\ ch[i + 1].type = t /\ ch[j + 1].type = t
    BY <1>1, <1>5
  <2>2. i + 1 = j + 1
    BY <2>1, <1>6 DEF Once, n
  <2> QED BY <2>2
<1>7. ASSUME NEW t, Once(ch, t), Head(ch).type = t PROVE ~Has(c, t)
  <2> SUFFICES ASSUME NEW i \in 1 .. Len(c), c[i].type = t PROVE FALSE
    BY DEF Has, On
  <2>1. i + 1 \in 1 .. n /\ 1 \in 1 .. n /\ ch[i + 1].type = t /\ ch[1].type = t /\ i + 1 # 1
    BY <1>1, <1>5, <1>7
  <2> QED BY <2>1, <1>7 DEF Once, n
<1>8. \A i \in 1 .. Len(c) : IsEncap(c, i) <=> IsEncap(ch, i + 1)
  BY <1>1 DEF IsEncap
<1>9. \A i \in 1 .. Len(c) : LastEncap(c, i) => LastEncap(ch, i + 1)
  <2> SUFFICES ASSUME NEW i \in 1 .. Len(c), LastEncap(c, i),
                      NEW h \in 1 .. n, i + 1 < h
               PROVE  ~IsEncap(ch, h)
    BY <1>8 DEF LastEncap, n
  <2>1. h - 1 \in 1 .. Len(c) /\ i < h - 1 /\ (h - 1) + 1 = h
    BY <1>1
  <2> QED BY <2>1, <1>8, Zenon DEF LastEncap
<1>10. \A i, j \in 1 .. Len(c) : NextEncap(c, i, j) => NextEncap(ch, i + 1, j + 1)
  <2> SUFFICES ASSUME NEW i \in 1 .. Len(c), NEW j \in 1 .. Len(c), NextEncap(c, i, j)
               PROVE  NextEncap(ch, i + 1, j + 1)
    OBVIOUS
  <2>1. ASSUME NEW h \in 1 .. n, i + 1 < h, h < j + 1 PROVE ~IsEncap(ch, h)
    <3>1. h - 1 \in 1 .. Len(c) /\ i < h - 1 /\ h - 1 < j /\ (h - 1) + 1 = h
      BY <1>1, <2>1
    <3> QED BY <3>1, <1>8, Zenon DEF NextEncap
  <2>2. i + 1 < j + 1 /\ IsEncap(ch, i + 1) /\ IsEncap(ch, j + 1)
    BY <1>8 DEF NextEncap
  <2> QED BY <2>1, <2>2 DEF NextEncap, n
<1>11. \A s, r : Stream(ch, s, r) =>
         /\ \A i \in 1 .. Len(c) : IsEncap(c, i) => c[i].nonce # NoSpan
         /\ \A i, j \in 1 .. Len(c) :
              NextEncap(c, i, j) => c[j].nonce = Drawn(c[i].nonce, 1) /\ c[j].ext = None
         /\ \A i \in 1 .. Len(c) : LastEncap(c, i) => s = Drawn(c[i].nonce, 1)
  <2> SUFFICES ASSUME NEW s, NEW r, Stream(ch, s, r)
               PROVE /\ \A i \in 1 .. Len(c) : IsEncap(c, i) => c[i].nonce # NoSpan
                     /\ \A i, j \in 1 .. Len(c) :
                          NextEncap(c, i, j) => c[j].nonce = Drawn(c[i].nonce, 1) /\ c[j].ext = None
                     /\ \A i \in 1 .. Len(c) : LastEncap(c, i) => s = Drawn(c[i].nonce, 1)
    OBVIOUS
  <2>1. \A i \in 1 .. Len(c) : IsEncap(c, i) => c[i].nonce # NoSpan
    BY <1>1, <1>5, <1>8 DEF Stream, n
  <2>2. \A i, j \in 1 .. Len(c) :
          NextEncap(c, i, j) => c[j].nonce = Drawn(c[i].nonce, 1) /\ c[j].ext = None
    BY <1>1, <1>5, <1>10 DEF Stream, n
  <2>3. \A i \in 1 .. Len(c) : LastEncap(c, i) => s = Drawn(c[i].nonce, 1)
    BY <1>1, <1>5, <1>9 DEF Stream, n
  <2> QED BY <2>1, <2>2, <2>3
<1>12. ASSUME NEW s, NEW r, Head(ch).type # "encap", Stream(ch, s, r) PROVE Stream(c, s, r)
  <2>1. \A i \in 1 .. Len(c) : FirstEncap(c, i) => FirstEncap(ch, i + 1)
    <3> SUFFICES ASSUME NEW i \in 1 .. Len(c), FirstEncap(c, i),
                        NEW h \in 1 .. n, h < i + 1
                 PROVE  ~IsEncap(ch, h)
      BY <1>8 DEF FirstEncap, n
    <3>1. CASE h = 1
      BY <3>1, <1>1, <1>12 DEF IsEncap
    <3>2. CASE h # 1
      <4>1. h - 1 \in 1 .. Len(c) /\ h - 1 < i /\ (h - 1) + 1 = h
        BY <1>1, <3>2
      <4> QED BY <4>1, <1>8, Zenon DEF FirstEncap
    <3> QED BY <3>1, <3>2
  <2>2. \A i \in 1 .. Len(c) : FirstEncap(c, i) => Opens(c[i], r)
    BY <2>1, <1>1, <1>5, <1>12 DEF Stream, n
  <2> QED BY <2>2, <1>11, <1>12, Zenon DEF Stream
<1>13. ASSUME NEW s, NEW r, Head(ch).type = "encap", Stream(ch, s, r)
       PROVE  /\ Opens(Head(ch), r) /\ Head(ch).nonce # NoSpan
              /\ \A q : q.span = Drawn(Head(ch).nonce, 1) => Stream(c, s, q)
              /\ ~Has(c, "encap") => s = Drawn(Head(ch).nonce, 1)
  <2>0. 1 \in 1 .. n /\ IsEncap(ch, 1) /\ FirstEncap(ch, 1)
    BY <1>1, <1>13 DEF IsEncap, FirstEncap, n
  <2>1. Opens(Head(ch), r) /\ Head(ch).nonce # NoSpan
    BY <2>0, <1>1, <1>13 DEF Stream, n
  <2>2. ~Has(c, "encap") => LastEncap(ch, 1)
    <3> SUFFICES ASSUME NEW h \in 1 .. n, 1 < h, IsEncap(ch, h) PROVE Has(c, "encap")
      BY <2>0 DEF LastEncap, n
    <3>1. h - 1 \in 1 .. Len(c) /\ c[h - 1].type = "encap"
      BY <1>1, <1>b DEF IsEncap
    <3> QED BY <3>1 DEF Has, On
  <2>3. ~Has(c, "encap") => s = Drawn(Head(ch).nonce, 1)
    BY <2>0, <2>2, <1>1, <1>13 DEF Stream, n
  <2>4. \A i \in 1 .. Len(c) : FirstEncap(c, i) => NextEncap(ch, 1, i + 1)
    <3> SUFFICES ASSUME NEW i \in 1 .. Len(c), FirstEncap(c, i) PROVE NextEncap(ch, 1, i + 1)
      OBVIOUS
    <3>1. ASSUME NEW h \in 1 .. n, 1 < h, h < i + 1 PROVE ~IsEncap(ch, h)
      <4>1. h - 1 \in 1 .. Len(c) /\ h - 1 < i /\ (h - 1) + 1 = h
        BY <1>1, <3>1
      <4> QED BY <4>1, <1>8, Zenon DEF FirstEncap
    <3>2. 1 < i + 1 /\ IsEncap(ch, i + 1)
      BY <1>8 DEF FirstEncap
    <3> QED BY <3>1, <3>2, <2>0 DEF NextEncap, n
  <2>5. \A i \in 1 .. Len(c) : FirstEncap(c, i) => c[i].nonce = Drawn(Head(ch).nonce, 1) /\ c[i].ext = None
    BY <2>0, <2>4, <1>1, <1>5, <1>13 DEF Stream, n
  <2>6. \A q : q.span = Drawn(Head(ch).nonce, 1) => Stream(c, s, q)
    BY <2>5, <1>11, <1>13, Zenon DEF Stream, Opens
  <2> QED BY <2>1, <2>3, <2>6
<1> QED BY <1>3, <1>4, <1>6, <1>7, <1>12, <1>13 DEF c

\* Drawing nothing, and drawing in two goes.
LEMMA DrawnTwice ==
    ASSUME NEW g \in Generator, NEW a \in Nat
    PROVE  Drawn(g, 0) = g /\ Drawn(Drawn(g, a), 1) = Drawn(g, a + 1)
<1>1. g = [sei |-> g.sei, rei |-> g.rei, k |-> g.k] /\ g.k \in Nat
  BY BoundsAssumption DEF Generator
<1> QED BY <1>1 DEF Drawn

\* The air `ch' after n encrypted frames were put on it.
Lengthened(ch, c, m, sei, n, r) ==
  /\ \A t : t # "encap" => Has(c, t) = Has(ch, t)
  /\ \A t : t # "encap" /\ Once(ch, t) => Once(c, t)
  /\ \A f \in On(c) : f.type # "encap" => f \in On(ch)
  /\ hasSpan(m) /\ HasExt(c) => HasExt(ch)
  /\ Drawn(Established(m, sei).span, n) # NoSpan
  /\ Stream(c, Drawn(Established(m, sei).span, n), r)
  /\ Has(c, "encap")

\* A burst of encrypted frames continues the stream, from the state of the sender if
\* others are on the air, and otherwise from one the receiver can open.
LEMMA HasWrapped ==
    ASSUME NEW ch \in Seq(Frame), NEW m \in Peer, NEW sei \in Entropy, sei # None,
           NEW n \in Nat, n >= 1, Established(m, sei).span.k + n <= MaxDraws,
           NEW r, Has(ch, "encap") => hasSpan(m) /\ Stream(ch, m.span, r),
           ~Has(ch, "encap") => Opens(Encap(SpanExtension(m, sei), Established(m, sei).span), r),
           NEW c, c = ch \o Wrapped(m, sei, n)
    PROVE  Lengthened(ch, c, m, sei, n, r)
<1> DEFINE e == Established(m, sei).span
           l == Len(ch)
           w == Wrapped(m, sei, n)
<1>1. w \in Seq(Frame) /\ e \in Generator /\ e # NoSpan /\ l \in Nat /\ e.k \in Nat
  <2>1. Established(m, sei) \in Peer /\ w \in Seq(Frame)
    BY EstablishedFacts, EncryptFacts
  <2>2. e # NoSpan
    <3>1. CASE hasSpan(m)
      BY <3>1 DEF Established, hasSpan
    <3>2. CASE ~hasSpan(m)
      <4>1. e = instantiate(sei, m.peerRei)
        BY <3>2 DEF Established
      <4> QED BY <4>1 DEF instantiate, NoSpan
    <3> QED BY <3>1, <3>2
  <2> QED BY <2>1, <2>2, BoundsAssumption DEF Peer, Generator
<1>2. /\ Len(w) = n
      /\ \A i \in 1 .. n : w[i] = Encap(IF i = 1 THEN SpanExtension(m, sei) ELSE None, Drawn(e, i - 1))
  BY DEF Wrapped
<1>3. /\ Len(c) = l + n
      /\ \A i \in 1 .. l + n : c[i] = IF i <= l THEN ch[i] ELSE w[i - l]
  <2>1. /\ Len(ch \o w) = Len(ch) + Len(w)
        /\ \A i \in 1 .. Len(ch) + Len(w) : (ch \o w)[i] = IF i <= Len(ch) THEN ch[i] ELSE w[i - Len(ch)]
    BY <1>1, ConcatProperties
  <2> QED BY <2>1, <1>2
<1>4. On(c) = On(ch) \cup On(w)
  BY <1>1, Concatenated
<1>5. \A f \in On(w) : f.type = "encap"
  BY EncryptFacts
<1> HIDE DEF e, l, w
<1>6. \A i \in 1 .. l : i \in 1 .. Len(c) /\ c[i] = ch[i]
  BY <1>1, <1>3
<1>7. ASSUME NEW i \in 1 .. Len(c), i > l
      PROVE  /\ c[i].type = "encap" /\ c[i].nonce = Drawn(e, i - l - 1)
             /\ c[i].ext = IF i = l + 1 THEN SpanExtension(m, sei) ELSE None
  <2>1. i - l \in 1 .. n /\ c[i] = w[i - l]
    BY <1>1, <1>3, <1>7
  <2> QED BY <2>1, <1>1, <1>2 DEF Encap
<1>8. \A i \in 1 .. Len(c) : i > l => IsEncap(c, i)
  BY <1>7 DEF IsEncap
<1>9. \A i \in 1 .. l : IsEncap(c, i) <=> IsEncap(ch, i)
  BY <1>6 DEF IsEncap
<1>10. ~Has(ch, "encap") => \A i \in 1 .. l : ~IsEncap(ch, i)
  BY DEF Has, On, IsEncap, l
<1>11. \A i \in 1 .. l : IsEncap(ch, i) => hasSpan(m) /\ Stream(ch, m.span, r)
  BY <1>10
<1>12. \A i \in 1 .. Len(c) : IsEncap(c, i) => c[i].nonce # NoSpan
  <2> SUFFICES ASSUME NEW i \in 1 .. Len(c), IsEncap(c, i) PROVE c[i].nonce # NoSpan
    OBVIOUS
  <2>1. CASE i > l
    <3>1. i - l - 1 \in Nat
      BY <2>1, <1>1, <1>3
    <3> QED BY <3>1, <2>1, <1>1, <1>7, DrawnIsSpan, Zenon
  <2>2. CASE ~(i > l)
    <3>1. i \in 1 .. l /\ IsEncap(ch, i)
      BY <2>2, <1>1, <1>3, <1>9
    <3> QED BY <3>1, <1>6, <1>11 DEF Stream, l
  <2> QED BY <2>1, <2>2
<1>13. \A i \in 1 .. Len(c) : FirstEncap(c, i) => Opens(c[i], r)
  <2> SUFFICES ASSUME NEW i \in 1 .. Len(c), FirstEncap(c, i) PROVE Opens(c[i], r)
    OBVIOUS
  <2>1. CASE i > l
    <3>0. l + 1 \in 1 .. Len(c) /\ l + 1 > l
      BY <1>1, <1>3, n >= 1
    <3>1. IsEncap(c, l + 1) /\ ~(l + 1 < i)
      BY <3>0, <1>8 DEF FirstEncap
    <3>2. i = l + 1
      BY <2>1, <3>1, <1>1, <1>3
    <3>3. \A h \in 1 .. l : h < i /\ ~IsEncap(ch, h)
      BY <3>2, <1>1, <1>6, <1>9 DEF FirstEncap
    <3>4. ~Has(ch, "encap")
      BY <3>3 DEF Has, On, IsEncap, l
    <3>5. c[i].ext = SpanExtension(m, sei) /\ c[i].nonce = e
      <4>1. i - l - 1 = 0
        BY <3>2, <1>1
      <4> QED BY <4>1, <2>1, <3>2, <1>1, <1>7, DrawnTwice, Zenon
    <3> QED BY <3>4, <3>5 DEF Opens, Encap, e
  <2>2. CASE ~(i > l)
    <3>1. i \in 1 .. l /\ IsEncap(ch, i)
      BY <2>2, <1>1, <1>3, <1>9 DEF FirstEncap
    <3>2. FirstEncap(ch, i)
      BY <3>1, <1>6, <1>9 DEF FirstEncap, l
    <3> QED BY <3>1, <3>2, <1>6, <1>11 DEF Stream, l
  <2> QED BY <2>1, <2>2
<1>14. \A i \in 1 .. Len(c) : LastEncap(c, i) => Drawn(e, n) = Drawn(c[i].nonce, 1)
  <2> SUFFICES ASSUME NEW i \in 1 .. Len(c), LastEncap(c, i)
               PROVE  Drawn(e, n) = Drawn(c[i].nonce, 1)
    OBVIOUS
  <2>1. Len(c) \in 1 .. Len(c) /\ Len(c) > l /\ ~(i < Len(c))
    BY <1>1, <1>3, <1>8, n >= 1 DEF LastEncap
  <2>2. i = l + n /\ i > l /\ i - l - 1 = n - 1 /\ n - 1 \in Nat /\ (n - 1) + 1 = n
    BY <2>1, <1>1, <1>3, n >= 1
  <2>3. c[i].nonce = Drawn(e, n - 1)
    BY <2>2, <1>7
  <2> QED BY <2>2, <2>3, <1>1, DrawnTwice
<1>15. \A i, j \in 1 .. Len(c) :
         NextEncap(c, i, j) => c[j].nonce = Drawn(c[i].nonce, 1) /\ c[j].ext = None
  <2> SUFFICES ASSUME NEW i \in 1 .. Len(c), NEW j \in 1 .. Len(c), NextEncap(c, i, j)
               PROVE  c[j].nonce = Drawn(c[i].nonce, 1) /\ c[j].ext = None
    OBVIOUS
  <2>1. CASE j > l + 1
    <3>1. j - 1 \in 1 .. Len(c) /\ j - 1 > l /\ j - 1 < j
      BY <2>1, <1>1, <1>3
    <3>2. ~(i < j - 1)
      BY <3>1, <1>8 DEF NextEncap
    <3>3. /\ i = j - 1 /\ i > l /\ i - l - 1 \in Nat /\ j - l - 1 = (i - l - 1) + 1
          /\ j > l /\ j # l + 1
      BY <3>1, <3>2, <2>1, <1>1 DEF NextEncap
    <3>4. /\ c[i].nonce = Drawn(e, i - l - 1) /\ c[j].nonce = Drawn(e, (i - l - 1) + 1)
          /\ c[j].ext = None
      BY <3>3, <1>7
    <3> QED BY <3>3, <3>4, <1>1, DrawnTwice
  <2>2. CASE j = l + 1
    <3>1. i \in 1 .. l /\ IsEncap(ch, i)
      BY <2>2, <1>1, <1>9 DEF NextEncap
    <3>2. LastEncap(ch, i)
      BY <2>2, <3>1, <1>1, <1>6, <1>9 DEF NextEncap, LastEncap, l
    <3>3. hasSpan(m) /\ m.span = Drawn(ch[i].nonce, 1)
      BY <3>1, <3>2, <1>11, Zenon DEF Stream, l
    <3>4. e = m.span /\ SpanExtension(m, sei) = None
      BY <3>3 DEF e, Established, SpanExtension
    <3>5. j - l - 1 = 0 /\ j > l
      BY <2>2, <1>1
    <3>6. c[j].nonce = e /\ c[j].ext = None
      <4>1. c[j].nonce = Drawn(e, j - l - 1) /\ c[j].ext = SpanExtension(m, sei)
        BY <2>2, <3>5, <1>7, Zenon
      <4>2. Drawn(e, 0) = e
        BY <1>1, DrawnTwice
      <4> QED BY <4>1, <4>2, <3>4, <3>5, Zenon
    <3> QED BY <3>1, <3>3, <3>4, <3>6, <1>6
  <2>3. CASE ~(j > l + 1) /\ j # l + 1
    <3>1. i \in 1 .. l /\ j \in 1 .. l /\ IsEncap(ch, i)
      <4>1. i < j /\ IsEncap(c, i)
        BY DEF NextEncap
      <4>2. i \in 1 .. l /\ j \in 1 .. l
        <5>1. l \in Nat /\ i \in Nat /\ i >= 1 /\ j \in Nat /\ j >= 1
          BY <1>1
        <5>2. j <= l /\ i <= l
          BY <5>1, <4>1, <2>3
        <5> QED BY <5>1, <5>2
      <4> QED BY <4>1, <4>2, <1>9, Zenon
    <3>2. NextEncap(ch, i, j)
      BY <3>1, <1>6, <1>9, Zenon DEF NextEncap, l
    <3> QED BY <3>1, <3>2, <1>6, <1>11, Zenon DEF Stream, l
  <2> QED BY <2>1, <2>2, <2>3
<1>16. Stream(c, Drawn(e, n), r) /\ Drawn(e, n) # NoSpan
  BY <1>1, <1>12, <1>13, <1>14, <1>15, DrawnIsSpan, Zenon DEF Stream
<1>17. \A t : t # "encap" => Has(c, t) = Has(ch, t)
  BY <1>4, <1>5 DEF Has
<1>18. ASSUME NEW t, t # "encap", Once(ch, t) PROVE Once(c, t)
  <2>1. \A i \in 1 .. Len(c) : c[i].type = t => i \in 1 .. l /\ ch[i].type = t
    BY <1>1, <1>3, <1>6, <1>7, <1>18
  <2> QED BY <2>1, <1>18 DEF Once, l
<1>19. ASSUME hasSpan(m), HasExt(c) PROVE HasExt(ch)
  <2>1. PICK i \in 1 .. Len(c) : c[i].type = "encap" /\ c[i].ext # None
    BY <1>19 DEF HasExt, On
  <2>2. ~(i > l)
    BY <2>1, <1>7, <1>19 DEF SpanExtension
  <2>3. i \in 1 .. l /\ ch[i].type = "encap" /\ ch[i].ext # None
    BY <2>1, <2>2, <1>1, <1>3, <1>6
  <2> QED BY <2>3 DEF HasExt, On, l
<1>20. Has(c, "encap")
  <2>1. l + 1 \in 1 .. Len(c) /\ l + 1 > l
    BY <1>1, <1>3, n >= 1
  <2> QED BY <2>1, <1>7, Zenon DEF Has, On
<1>21. /\ \A t : t # "encap" => Has(c, t) = Has(ch, t)
       /\ \A t : t # "encap" /\ Once(ch, t) => Once(c, t)
       /\ \A f \in On(c) : f.type # "encap" => f \in On(ch)
       /\ hasSpan(m) /\ HasExt(c) => HasExt(ch)
       /\ Drawn(Established(m, sei).span, n) # NoSpan
       /\ Stream(c, Drawn(Established(m, sei).span, n), r)
       /\ Has(c, "encap")
  BY <1>4, <1>5, <1>16, <1>17, <1>18, <1>19, <1>20, Zenon DEF e
<1> QED BY <1>21 DEF Lengthened

\* A receiver that hands out an REI still opens a stream that answers none.
LEMMA SameReceiver ==
    ASSUME NEW ch, NEW s, NEW r, NEW q, Stream(ch, s, r), q.span = r.span,
           q.ourRei = r.ourRei \/ ~HasExt(ch)
    PROVE  Stream(ch, s, q)
<1>1. ASSUME NEW i \in 1 .. Len(ch), FirstEncap(ch, i) PROVE Opens(ch[i], q)
  <2>1. Opens(ch[i], r) /\ ch[i] \in On(ch) /\ ch[i].type = "encap"
    BY <1>1 DEF Stream, On, FirstEncap, IsEncap
  <2> QED BY <2>1 DEF Opens, HasExt
<1> QED BY <1>1 DEF Stream

\* The air without encrypted frames.
LEMMA EncapsHas ==
    ASSUME NEW ch
    PROVE  /\ Encaps(ch) = {} <=> ~Has(ch, "encap")
           /\ HasExt(ch) => Has(ch, "encap")
BY DEF Encaps, Has, HasExt, On

\* A frame of each kind on the air.
LEMMA HasOn ==
    ASSUME NEW ch, NEW f \in On(ch)
    PROVE  Has(ch, f.type)
BY DEF Has

\* The steps of the daemon that encrypt.  They leave the node alone.
LEMMA EncryptKeepsLock ==
    ASSUME TypeOK, disturbed = {}, StreamInv, HostAskInv, NodeAskInv, homeBound, ~Has(toHost, "encap"),
           UNCHANGED <<homeBound, dev>>, toHost' \in {toHost, Tail(toHost)}, toHost # <<>> \/ toHost' = toHost,
           NEW n \in Nat, n >= 1, NEW m \in Peer, m.span = peer.span, m.ourRei = peer.ourRei,
           ~hasSpan(m) => /\ m.peerRei # None /\ m.peerRei = dev.ourRei
                          /\ queued' = 0,
           Has(toHost', "report") => queued' = queued,
           queued' \in {0, queued},
           queued' = 0 => ~Has(toNode, "get") /\ ~Has(toHost', "report"),
           HostEncrypts(m, n)
    PROVE  StreamInv' /\ HostAskInv' /\ NodeAskInv'
<1> DEFINE e == Established(m, entropy)
<1>0. /\ toNode \in Seq(Frame) /\ toHost \in Seq(Frame) /\ entropy \in Entropy /\ entropy # None
      /\ dev \in Peer /\ peer \in Peer
  BY ReplyType, Numbers DEF TypeOK
<1>1. e.span.k + n <= MaxDraws /\ peer' = encrypt(m, entropy, n) /\ toNode' = toNode \o Wrapped(m, entropy, n)
  BY DEF HostEncrypts
<1>2. /\ peer'.ourRei = peer.ourRei /\ peer'.span = Drawn(e.span, n)
  BY <1>0, <1>1, EncryptFacts
<1>3. HostSpan = peer.span /\ HostSpan' = peer'.span
  BY DEF HostSpan
<1>4. Has(toNode, "encap") => hasSpan(m) /\ Stream(toNode, m.span, dev)
  BY <1>3 DEF StreamInv, hasSpan
<1>5. ~Has(toNode, "encap") => Opens(Encap(SpanExtension(m, entropy), e.span), dev)
  <2> SUFFICES ASSUME ~Has(toNode, "encap")
               PROVE  Opens(Encap(SpanExtension(m, entropy), e.span), dev)
    OBVIOUS
  <2>1. peer.span = dev.span
    BY <1>3 DEF StreamInv
  <2>2. CASE hasSpan(m)
    BY <2>1, <2>2 DEF Opens, Encap, SpanExtension, Established
  <2>3. CASE ~hasSpan(m)
    BY <2>3, <1>0 DEF Opens, Encap, SpanExtension, Established
  <2> QED BY <2>2, <2>3
<1>6. /\ \A t : t # "encap" => Has(toNode', t) = Has(toNode, t)
      /\ \A t : t # "encap" /\ Once(toNode, t) => Once(toNode', t)
      /\ \A f \in On(toNode') : f.type # "encap" => f \in On(toNode)
      /\ hasSpan(m) /\ HasExt(toNode') => HasExt(toNode)
      /\ Drawn(e.span, n) # NoSpan
      /\ Stream(toNode', Drawn(e.span, n), dev)
      /\ Has(toNode', "encap")
  <2>1. /\ toNode \in Seq(Frame) /\ m \in Peer /\ entropy \in Entropy /\ entropy # None
        /\ n \in Nat /\ n >= 1 /\ Established(m, entropy).span.k + n <= MaxDraws
        /\ Has(toNode, "encap") => hasSpan(m) /\ Stream(toNode, m.span, dev)
        /\ ~Has(toNode, "encap") => Opens(Encap(SpanExtension(m, entropy), Established(m, entropy).span), dev)
        /\ toNode' = toNode \o Wrapped(m, entropy, n)
    BY <1>0, <1>1, <1>4, <1>5, Zenon
  <2>2. Lengthened(toNode, toNode', m, entropy, n, dev)
    BY <2>1, HasWrapped, Zenon
  <2> QED BY <2>2, Zenon DEF Lengthened, e
<1>7. /\ \A t : Has(toHost', t) => Has(toHost, t)
      /\ \A t : Once(toHost, t) => Once(toHost', t)
      /\ HasExt(toHost') => HasExt(toHost)
      /\ On(toHost') \subseteq On(toHost)
  <2>1. CASE toHost' = toHost
    BY <2>1, Zenon
  <2>2. CASE toHost' = Tail(toHost) /\ toHost # <<>>
    BY <2>2, <1>0, HasTail, Received, Zenon
  <2> QED BY <2>1, <2>2, Zenon
<1>8. StreamInv'
  BY <1>2, <1>3, <1>6, <1>7, Zenon DEF StreamInv
<1>9. HostAskInv'
  <2>1. peer'.peerRei # None => hasSpan(peer)'
    BY <1>2, <1>6 DEF hasSpan
  <2>2. Once(toNode', "get") /\ Once(toHost', "report") /\ ~(Has(toNode', "get") /\ Has(toHost', "report"))
    BY <1>6, <1>7, Zenon DEF HostAskInv
  <2>3. queued' = 0 => ~Has(toNode', "get") /\ ~Has(toHost', "report")
    BY <1>6, Zenon
  <2>4. \A f \in On(toHost') : f.type = "report" => f.rei = dev'.ourRei /\ f.rei # None
    BY <1>7 DEF HostAskInv
  <2>5. HasExt(toNode') => queued' = 0
    <3>1. CASE hasSpan(m)
      BY <3>1, <1>6, Zenon DEF HostAskInv
    <3>2. CASE ~hasSpan(m)
      BY <3>2, Zenon
    <3> QED BY <3>1, <3>2
  <2> QED BY <2>1, <2>2, <2>3, <2>4, <2>5, Zenon DEF HostAskInv
<1>10. NodeAskInv'
  <2>1. /\ Once(toHost', "get") /\ Once(toNode', "report")
        /\ ~(Has(toHost', "get") /\ Has(toNode', "report"))
    BY <1>6, <1>7, Zenon DEF NodeAskInv
  <2>2. dev'.peerRei # None \/ HasExt(toHost') => ~Has(toHost', "get") /\ ~Has(toNode', "report")
    BY <1>6, <1>7, Zenon DEF NodeAskInv
  <2>3. dev'.peerRei # None /\ ~hasSpan(dev)' => homeBound' /\ peer'.ourRei = dev'.peerRei
    BY <1>2, Zenon DEF NodeAskInv, hasSpan
  <2>4. \A f \in On(toNode') : f.type = "report" => homeBound' /\ f.rei = peer'.ourRei /\ f.rei # None
    BY <1>2, <1>6, Zenon DEF NodeAskInv
  <2> QED BY <2>1, <2>2, <2>3, <2>4 DEF NodeAskInv
<1> QED BY <1>8, <1>9, <1>10

\* No step of an exchange that stays undisturbed breaks the stream.
LEMMA LockStep ==
    ASSUME TypeOK, NonceInv, LockInv, [Next]_vars
    PROVE  LockInv'
<1> USE DEF store, process, hostVars
<1>0. /\ peer \in Peer /\ dev \in Peer /\ toNode \in Seq(Frame) /\ toHost \in Seq(Frame) /\ queued \in Nat
      /\ entropy \in Entropy /\ entropy # None /\ NonceReport(entropy) \in Frame /\ NonceGet \in Frame
  BY ReplyType, Numbers, Empty, BoundsAssumption DEF TypeOK
<1>s. NonceReport(entropy).type = "report" /\ NonceReport(entropy).rei = entropy /\ NonceGet.type = "get"
  BY DEF NonceReport, NonceGet
<1> SUFFICES ASSUME disturbed' = {} PROVE StreamInv' /\ HostAskInv' /\ NodeAskInv'
  BY DEF LockInv
<1>d. disturbed = {}
  BY Zenon DEF Next, SendNow, SendLater, HostGetsNonceGet, HostIgnoresReport, HostGetsReport, HostGetsEncap,
         CheckpointDue, DongleInfo, Shutdown, Killed, Start, NodeSend, NodeAsks, NodeGetsNonceGet,
         NodeGetsReport, NodeGetsEncap, Lose, vars
<1>i. StreamInv /\ HostAskInv /\ NodeAskInv
  BY <1>d DEF LockInv
<1>b. ~homeBound => peer = NoPeer /\ queued = 0 /\ toHost = <<>>
  BY <1>i DEF TypeOK, StreamInv
<1>1. CASE SendNow
  <2>1. ~Has(toHost, "encap")
    BY <1>1, EncapsHas DEF SendNow
  <2>2. hasSpan(peer)
    BY <1>1, <1>i DEF SendNow, CanEncrypt, HostAskInv
  <2>3. /\ homeBound /\ homeBound' = homeBound /\ dev' = dev /\ toHost' = toHost /\ queued' = queued
        /\ HostEncrypts(peer, 1)
    BY <1>1 DEF SendNow, Serving
  <2>4. queued' = 0 => ~Has(toNode, "get") /\ ~Has(toHost', "report")
    BY <2>3, <1>i DEF HostAskInv
  <2> QED BY <2>1, <2>2, <2>3, <2>4, <1>0, <1>d, <1>i, EncryptKeepsLock
<1>2. CASE SendLater
  <2>1. /\ homeBound /\ homeBound' /\ peer' = peer /\ dev' = dev /\ toHost' = toHost /\ queued' = queued + 1
        /\ toNode' = IF queued = 0 THEN Append(toNode, NonceGet) ELSE toNode
        /\ ~hasSpan(peer)
    BY <1>2 DEF SendLater, Serving, CanEncrypt
  <2>2. HostSpan = peer.span /\ HostSpan' = peer.span
    BY <2>1 DEF HostSpan
  <2>3. ~Has(toNode, "encap") /\ ~HasExt(toNode)
    BY <2>1, <2>2, <1>i, EncapsHas DEF StreamInv, hasSpan
  <2>4. CASE queued = 0
    <3>1. /\ \A t : Has(toNode', t) <=> Has(toNode, t) \/ t = "get"
          /\ Once(toNode, "get") /\ ~Has(toNode, "get") => Once(toNode', "get")
          /\ Once(toNode, "report") => Once(toNode', "report")
          /\ ~HasExt(toNode')
          /\ On(toNode') = On(toNode) \cup {NonceGet}
      BY <2>1, <2>3, <2>4, <1>0, <1>s, HasAppend, Appended
    <3>2. StreamInv'
      BY <3>1, <2>1, <2>2, <2>3, <1>i DEF StreamInv
    <3>3. HostAskInv'
      BY <3>1, <2>1, <2>4, <1>i DEF HostAskInv, hasSpan
    <3>4. NodeAskInv'
      BY <3>1, <2>1, <1>s, <1>i DEF NodeAskInv, hasSpan
    <3> QED BY <3>2, <3>3, <3>4
  <2>5. CASE queued # 0
    <3>1. toNode' = toNode /\ queued' # 0
      BY <2>1, <2>5, <1>0
    <3>2. StreamInv'
      BY <3>1, <2>1, <2>2, <2>3, <1>i DEF StreamInv
    <3>3. HostAskInv'
      BY <3>1, <2>1, <2>3, <1>i DEF HostAskInv, hasSpan
    <3>4. NodeAskInv'
      BY <3>1, <2>1, <1>i DEF NodeAskInv, hasSpan
    <3> QED BY <3>2, <3>3, <3>4
  <2> QED BY <2>4, <2>5
<1>3. CASE HostGetsNonceGet
  <2>1. /\ homeBound /\ homeBound' /\ dev' = dev /\ queued' = queued
        /\ toHost # <<>> /\ Head(toHost).type = "get" /\ toHost' = Tail(toHost)
        /\ peer' = respondToNonceGet(peer, entropy) /\ toNode' = Append(toNode, NonceReport(entropy))
    BY <1>3 DEF HostGetsNonceGet, Serving, Reply
  <2>2. /\ peer'.span = peer.span /\ peer'.ourRei = entropy /\ peer'.peerRei = peer.peerRei
    BY <2>1, <1>0, ReiType
  <2>3. /\ \A t : Has(toHost, t) <=> Has(toHost', t) \/ t = "get"
        /\ \A t : Once(toHost, t) => Once(toHost', t)
        /\ Once(toHost, "get") => ~Has(toHost', "get")
        /\ HasExt(toHost') => HasExt(toHost)
        /\ \A s, r : Stream(toHost, s, r) => Stream(toHost', s, r)
        /\ On(toHost') \subseteq On(toHost)
    BY <2>1, <1>0, HasTail, Received, Zenon
  <2>4. /\ \A t : Has(toNode', t) <=> Has(toNode, t) \/ t = "report"
        /\ \A t : Once(toNode, t) /\ (t = "report" => ~Has(toNode, t)) => Once(toNode', t)
        /\ HasExt(toNode') <=> HasExt(toNode)
        /\ \A s, r : Stream(toNode, s, r) => Stream(toNode', s, r)
        /\ On(toNode') = On(toNode) \cup {NonceReport(entropy)}
    BY <2>1, <1>0, <1>s, HasAppend, Appended
  <2>5. /\ Once(toHost, "get") /\ Has(toHost, "get") /\ ~Has(toNode, "report")
        /\ dev.peerRei = None /\ ~HasExt(toHost)
    BY <2>3, <1>i, Zenon DEF NodeAskInv
  <2>6. HostSpan = peer.span /\ HostSpan' = peer.span
    BY <2>1, <2>2 DEF HostSpan
  <2>7. StreamInv'
    <3>1. Has(toHost', "encap") => hasSpan(dev)' /\ Stream(toHost', dev'.span, peer')
      BY <2>1, <2>2, <2>3, <2>5, <1>i, SameReceiver DEF StreamInv, hasSpan
    <3> QED BY <3>1, <2>1, <2>3, <2>4, <2>6, <1>i DEF StreamInv
  <2>8. HostAskInv'
    BY <2>1, <2>2, <2>3, <2>4, <1>i, Zenon DEF HostAskInv, hasSpan
  <2>9. NodeAskInv'
    <3>1. \A f \in On(toNode') : f.type = "report" => f = NonceReport(entropy)
      BY <2>4, <2>5 DEF Has
    <3>2. ~Has(toHost', "get") /\ Once(toNode, "report") => Once(toNode', "report")
      BY <2>4, <2>5
    <3> QED BY <3>1, <3>2, <2>1, <2>2, <2>3, <2>5, <1>0, <1>s, <1>i, Zenon DEF NodeAskInv
  <2> QED BY <2>7, <2>8, <2>9
<1>4. CASE HostIgnoresReport
  <2>1. Has(toHost, "report") /\ queued = 0
    BY <1>4, <1>0, Received DEF HostIgnoresReport, Has
  <2> QED BY <2>1, <1>i DEF HostAskInv
<1>5. CASE HostGetsReport
  <2> DEFINE m == acceptNonceReport(peer, Head(toHost).rei)
  <2>1. /\ homeBound /\ homeBound' = homeBound /\ dev' = dev /\ queued' = 0 /\ queued > 0
        /\ toHost # <<>> /\ Head(toHost).type = "report" /\ toHost' = Tail(toHost)
        /\ HostEncrypts(m, queued)
    BY <1>5 DEF HostGetsReport, Serving, Remaining
  <2>2. ~Has(toHost, "encap")
    BY <1>5, EncapsHas, Zenon DEF HostGetsReport
  <2>3. Head(toHost) \in On(toHost) /\ Head(toHost).rei \in Entropy
    BY <2>1, <1>0, Received, Zenon DEF Frame
  <2>4. m \in Peer /\ m.span = peer.span /\ m.ourRei = peer.ourRei /\ m.peerRei = Head(toHost).rei
    BY <2>3, <1>0, ReiType, Zenon
  <2>5. m.peerRei = dev.ourRei /\ m.peerRei # None
    BY <2>1, <2>3, <2>4, <1>i DEF HostAskInv
  <2>6. Has(toHost, "report") /\ Once(toHost, "report") /\ ~Has(toNode, "get")
    BY <2>1, <2>3, <1>i, Zenon DEF HostAskInv, Has
  <2>7. ~Has(toHost', "report")
    BY <2>1, <2>6, <1>0, HasTail
  <2>8. queued >= 1
    BY <2>1, <1>0
  <2> HIDE DEF m
  <2> QED BY <2>1, <2>2, <2>4, <2>5, <2>6, <2>7, <2>8, <1>0, <1>d, <1>i, EncryptKeepsLock
<1>6. CASE HostGetsEncap
  <2> DEFINE f == Head(toHost)
  <2>1. /\ homeBound /\ homeBound' /\ dev' = dev /\ queued' = queued
        /\ toHost # <<>> /\ f.type = "encap" /\ toHost' = Tail(toHost)
        /\ Decrypts(peer, f) => peer' = receiveNonce(peer, f) /\ toNode' = toNode
    BY <1>6, Zenon DEF HostGetsEncap, Serving
  <2>2. f \in Frame /\ f \in On(toHost) /\ On(toHost') \subseteq On(toHost)
    BY <2>1, <1>0, Received
  <2>3. Has(toHost, "encap") /\ Stream(toHost, dev.span, peer) /\ hasSpan(dev) /\ ~Has(toNode, "encap")
    BY <2>1, <2>2, <1>i DEF StreamInv, Has
  <2>4. /\ \A t : Has(toHost, t) <=> Has(toHost', t) \/ t = "encap"
        /\ \A t : Once(toHost, t) => Once(toHost', t)
        /\ HasExt(toHost') => HasExt(toHost)
    BY <2>1, <1>0, HasTail, Zenon
  <2>5. /\ Opens(f, peer) /\ f.nonce # NoSpan
        /\ \A q : q.span = Drawn(f.nonce, 1) => Stream(toHost', dev.span, q)
        /\ ~Has(toHost', "encap") => dev.span = Drawn(f.nonce, 1)
    BY <2>1, <2>3, <1>0, HasTail, Zenon
  <2>6. /\ peer'.span = Drawn(f.nonce, 1) /\ peer'.peerRei = peer.peerRei /\ hasSpan(peer)'
        /\ peer'.ourRei = IF f.ext = None THEN peer.ourRei ELSE None
        /\ toNode' = toNode
    <3>1. /\ Decrypts(peer, f)
          /\ receiveNonce(peer, f).span = Drawn(f.nonce, 1)
          /\ receiveNonce(peer, f).peerRei = peer.peerRei
          /\ receiveNonce(peer, f).ourRei = IF f.ext = None THEN peer.ourRei ELSE None
          /\ hasSpan(receiveNonce(peer, f))
      BY <2>2, <2>5, <1>0, OpensDecrypts, Zenon
    <3> HIDE DEF f
    <3> QED BY <2>1, <3>1, Zenon DEF hasSpan
  <2>7. f.ext # None => HasExt(toHost)
    BY <2>1, <2>2 DEF HasExt
  <2> HIDE DEF f
  <2>8. StreamInv'
    <3>1. HostSpan' = peer'.span
      BY <2>1 DEF HostSpan
    <3> QED BY <3>1, <2>1, <2>3, <2>5, <2>6, Zenon DEF StreamInv, hasSpan
  <2>9. HostAskInv'
    BY <2>1, <2>2, <2>4, <2>6, <1>i, Zenon DEF HostAskInv, hasSpan
  <2>10. NodeAskInv'
    <3>1. \A g \in On(toNode) : g.type = "report" => f.ext = None
      BY <2>7, <1>i, Zenon DEF NodeAskInv, Has
    <3> QED BY <3>1, <2>1, <2>3, <2>4, <2>6, <1>i, Zenon DEF NodeAskInv, hasSpan
  <2> QED BY <2>8, <2>9, <2>10
<1>7. CASE CheckpointDue
  <2>1. homeBound /\ UNCHANGED <<peer, queued, homeBound, dev, toNode, toHost>>
    BY <1>7 DEF CheckpointDue, Dirty
  <2> QED BY <2>1, <1>i, Zenon DEF StreamInv, HostAskInv, NodeAskInv, HostSpan, hasSpan
<1>8. CASE DongleInfo
  <2>1. /\ homeBound' /\ UNCHANGED <<queued, dev, toNode, toHost, disk>>
        /\ peer'.span = IF disk # NoSpan THEN disk ELSE peer.span
        /\ peer'.ourRei = peer.ourRei /\ peer'.peerRei = peer.peerRei
    BY <1>8 DEF DongleInfo, bindAndRestore
  <2>2. homeBound => peer'.span = peer.span
    BY <1>8, <2>1, Zenon DEF DongleInfo
  <2>3. HostSpan' = HostSpan
    <3>1. CASE homeBound
      BY <3>1, <2>1, <2>2, Zenon DEF HostSpan
    <3>2. CASE ~homeBound
      <4>1. peer.span = NoSpan
        BY <3>2, <1>b DEF NoPeer
      <4> QED BY <3>2, <4>1, <2>1, Zenon DEF HostSpan
    <3> QED BY <3>1, <3>2
  <2>4. ~homeBound => ~Has(toHost, "encap") /\ peer.peerRei = None
    BY <1>b DEF Has, On, NoPeer
  <2>5. StreamInv'
    <3>1. Has(toHost, "encap") => Stream(toHost, dev.span, peer')
      BY <2>1, <2>2, <2>4, <1>i, SameReceiver DEF StreamInv
    <3> QED BY <3>1, <2>1, <2>3, <1>i DEF StreamInv, hasSpan
  <2>6. HostAskInv'
    BY <2>1, <2>2, <2>4, <1>i DEF HostAskInv, hasSpan
  <2>7. NodeAskInv'
    BY <2>1, <1>i DEF NodeAskInv, hasSpan
  <2> QED BY <2>5, <2>6, <2>7
<1>9. ASSUME Exit, Missed = {}, disk' = HostSpan PROVE StreamInv' /\ HostAskInv' /\ NodeAskInv'
  <2>1. /\ homeBound' = FALSE /\ peer' = NoPeer /\ queued' = 0 /\ toHost' = <<>>
        /\ dev' = dev /\ toNode' = toNode
    BY <1>9 DEF Exit
  <2>2. ~Has(toHost, "encap") /\ queued = 0 /\ peer.ourRei = None
    <3>1. Encaps(toHost) = {} /\ ~(queued > 0) /\ peer.ourRei = None
      BY <1>9 DEF Missed
    <3> QED BY <3>1, <1>0, EncapsHas
  <2>3. \A t : ~Has(toHost', t) /\ Once(toHost', t)
    BY <2>1 DEF Has, On, Once
  <2>4. ~HasExt(toHost') /\ On(toHost') = {}
    BY <2>1 DEF HasExt, On
  <2>5. HostSpan' = HostSpan
    BY <2>1, <1>9 DEF HostSpan
  <2>6. ~Has(toNode, "report") /\ (dev.peerRei # None => hasSpan(dev))
    BY <2>2, <1>i DEF NodeAskInv, Has
  <2>7. StreamInv'
    BY <2>1, <2>2, <2>3, <2>5, <1>i DEF StreamInv
  <2>8. HostAskInv'
    BY <2>1, <2>2, <2>3, <2>4, <1>i DEF HostAskInv, NoPeer
  <2>9. NodeAskInv'
    <3>1. \A f \in On(toNode) : f.type # "report"
      BY <2>6 DEF Has
    <3> QED BY <3>1, <2>1, <2>3, <2>4, <2>6, <1>i DEF NodeAskInv, hasSpan
  <2> QED BY <2>7, <2>8, <2>9
<1>u. /\ homeBound => lastWritten = disk
      /\ homeBound /\ ~hasSpan(peer) => disk = NoSpan
  BY <1>d DEF NonceInv, SkippedIsStored, SpanInv, Undisturbed
<1>10. CASE Shutdown
  <2>1. PICK ok \in BOOLEAN : checkpoint(ok) /\ disturbed' = disturbed \cup Missed \cup Unsaved(ok)
    BY <1>10 DEF Shutdown
  <2>2. Missed = {} /\ Unsaved(ok) = {}
    BY <2>1
  <2>3. Dirty => ok
    BY <2>2 DEF Unsaved
  <2>4. disk' = HostSpan
    BY <2>1, <2>3, <1>u DEF checkpoint, Dirty, HostSpan, hasSpan
  <2> QED BY <2>2, <2>4, <1>9, <1>10 DEF Shutdown
<1>11. CASE Killed
  <2>1. Missed = {} /\ peer.span \in {NoSpan, disk} /\ disk' = disk
    BY <1>11 DEF Killed
  <2>2. disk' = HostSpan
    BY <2>1, <1>u DEF HostSpan, hasSpan
  <2> QED BY <2>1, <2>2, <1>9, <1>11 DEF Killed
<1>12. CASE Start
  <2>1. UNCHANGED <<peer, queued, homeBound, disk, dev, toNode, toHost>>
    BY <1>12 DEF Start
  <2> QED BY <2>1, <1>i, Zenon DEF StreamInv, HostAskInv, NodeAskInv, HostSpan, hasSpan
<1>13. CASE NodeSend
  <2> DEFINE e == Established(dev, entropy)
  <2>1. /\ CanEncrypt(dev) /\ dev' = encrypt(dev, entropy, 1) /\ dev'.span.k <= MaxDraws
        /\ toHost' = toHost \o Wrapped(dev, entropy, 1) /\ homeBound /\ homeBound'
        /\ peer' = peer /\ queued' = queued /\ toNode' = toNode
    BY <1>13, Zenon DEF NodeSend
  <2>2. ~Has(toNode, "encap")
    BY <1>13, EncapsHas, Zenon DEF NodeSend
  <2>3. HostSpan = peer.span /\ HostSpan' = peer.span
    BY <2>1 DEF HostSpan
  <2>4. e.span.k + 1 <= MaxDraws
    BY <2>1, Zenon DEF encrypt, Drawn
  <2>5. /\ dev'.ourRei = dev.ourRei /\ dev'.span = Drawn(e.span, 1)
        /\ dev'.peerRei \in {None, dev.peerRei}
    <3>1. /\ dev \in Peer /\ entropy \in Entropy /\ 1 \in Nat
          /\ Established(dev, entropy).span.k + 1 <= MaxDraws
      BY <2>4, <1>0
    <3>2. /\ encrypt(dev, entropy, 1).ourRei = dev.ourRei
          /\ encrypt(dev, entropy, 1).peerRei \in {None, dev.peerRei}
          /\ encrypt(dev, entropy, 1).span = Drawn(Established(dev, entropy).span, 1)
      BY <3>1, EncryptFacts, Zenon
    <3> QED BY <3>2, <2>1, Zenon
  <2>6. Has(toHost, "encap") => hasSpan(dev) /\ Stream(toHost, dev.span, peer)
    BY <1>i DEF StreamInv
  <2>7. ~Has(toHost, "encap") => Opens(Encap(SpanExtension(dev, entropy), e.span), peer)
    <3> SUFFICES ASSUME ~Has(toHost, "encap")
                 PROVE  Opens(Encap(SpanExtension(dev, entropy), e.span), peer)
      OBVIOUS
    <3>1. peer.span = dev.span
      BY <2>2, <2>3, <1>i DEF StreamInv
    <3>2. CASE hasSpan(dev)
      BY <3>1, <3>2 DEF Opens, Encap, SpanExtension, Established
    <3>3. CASE ~hasSpan(dev)
      <4>1. dev.peerRei # None /\ peer.ourRei = dev.peerRei
        BY <3>3, <2>1, <1>i, Zenon DEF NodeAskInv, CanEncrypt
      <4> QED BY <3>3, <4>1, <1>0 DEF Opens, Encap, SpanExtension, Established
    <3> QED BY <3>2, <3>3
  <2>8. Lengthened(toHost, toHost', dev, entropy, 1, peer)
    <3>1. /\ 1 \in Nat /\ 1 >= 1 /\ Established(dev, entropy).span.k + 1 <= MaxDraws
          /\ ~Has(toHost, "encap") => Opens(Encap(SpanExtension(dev, entropy), Established(dev, entropy).span), peer)
          /\ toHost' = toHost \o Wrapped(dev, entropy, 1)
      <4>1. 1 \in Nat /\ 1 >= 1
        OBVIOUS
      <4> QED BY <4>1, <2>1, <2>4, <2>7, Zenon DEF e
    <3> HIDE DEF e
    <3> QED BY <3>1, <2>6, <1>0, HasWrapped, Zenon
  <2>9. /\ \A t : t # "encap" => Has(toHost', t) = Has(toHost, t)
        /\ \A t : t # "encap" /\ Once(toHost, t) => Once(toHost', t)
        /\ \A f \in On(toHost') : f.type # "encap" => f \in On(toHost)
        /\ hasSpan(dev) /\ HasExt(toHost') => HasExt(toHost)
        /\ dev'.span # NoSpan
        /\ Stream(toHost', dev'.span, peer)
        /\ Has(toHost', "encap")
    BY <2>8, <2>5, Zenon DEF Lengthened
  <2> HIDE DEF e
  <2>10. StreamInv'
    BY <2>1, <2>2, <2>9, Zenon DEF StreamInv, hasSpan
  <2>11. HostAskInv'
    BY <2>1, <2>5, <2>9, <1>i, Zenon DEF HostAskInv, hasSpan
  <2>12. NodeAskInv'
    <3>1. HasExt(toHost') => HasExt(toHost) \/ dev.peerRei # None
      BY <2>1, <2>9, Zenon DEF CanEncrypt
    <3>2. dev'.peerRei # None \/ HasExt(toHost') => ~Has(toHost', "get") /\ ~Has(toNode', "report")
      BY <3>1, <2>1, <2>5, <2>9, <1>i, Zenon DEF NodeAskInv
    <3> QED BY <3>2, <2>1, <2>9, <1>i, Zenon DEF NodeAskInv, hasSpan
  <2> QED BY <2>10, <2>11, <2>12
<1>14. CASE NodeAsks
  <2>1. /\ dev.span = NoSpan /\ dev.peerRei = None /\ homeBound /\ UNCHANGED <<peer, queued, homeBound, dev, toNode>>
        /\ toHost' = Append(toHost, NonceGet)
    BY <1>14, Zenon DEF NodeAsks, CanEncrypt, hasSpan
  <2>2. ~Has(toHost, "get") /\ ~Has(toNode, "report")
    BY <1>14, Zenon DEF NodeAsks, Has, On
  <2>3. ~Has(toHost, "encap") /\ ~HasExt(toHost)
    BY <2>1, <1>i, EncapsHas, Zenon DEF StreamInv, hasSpan
  <2>4. /\ \A t : Has(toHost', t) <=> Has(toHost, t) \/ t = "get"
        /\ Once(toHost, "get") => Once(toHost', "get")
        /\ Once(toHost, "report") => Once(toHost', "report")
        /\ ~HasExt(toHost')
        /\ On(toHost') = On(toHost) \cup {NonceGet}
    BY <2>1, <2>2, <2>3, <1>0, <1>s, HasAppend, Appended, Zenon
  <2>5. StreamInv'
    BY <2>1, <2>3, <2>4, <1>i DEF StreamInv, HostSpan
  <2>6. HostAskInv'
    BY <2>1, <2>4, <1>s, <1>i, Zenon DEF HostAskInv, hasSpan
  <2>7. NodeAskInv'
    BY <2>1, <2>2, <2>4, <1>i, Zenon DEF NodeAskInv, hasSpan
  <2> QED BY <2>5, <2>6, <2>7
<1>15. CASE NodeGetsNonceGet
  <2>1. Has(toNode, "get")
    BY <1>15, <1>0, Received DEF NodeGetsNonceGet, Has
  <2>2. queued # 0 /\ homeBound /\ ~HasExt(toNode) /\ ~Has(toHost, "report") /\ Once(toNode, "get")
    BY <2>1, <1>i, <1>b DEF HostAskInv
  <2>3. /\ toNode # <<>> /\ Head(toNode).type = "get" /\ toNode' = Tail(toNode)
        /\ dev' = respondToNonceGet(dev, entropy) /\ toHost' = Append(toHost, NonceReport(entropy))
        /\ UNCHANGED <<peer, queued, homeBound>>
    BY <1>15, <2>2 DEF NodeGetsNonceGet, NodeReplies
  <2>4. /\ dev'.span = dev.span /\ dev'.ourRei = entropy /\ dev'.peerRei = dev.peerRei
    BY <2>3, <1>0, ReiType
  <2>5. /\ \A t : Has(toNode, t) <=> Has(toNode', t) \/ t = "get"
        /\ \A t : Once(toNode, t) => Once(toNode', t)
        /\ ~Has(toNode', "get")
        /\ ~HasExt(toNode')
        /\ \A s, r : Stream(toNode, s, r) => Stream(toNode', s, r)
        /\ On(toNode') \subseteq On(toNode)
    <3>1. toNode \in Seq(Frame) /\ toNode # <<>> /\ Head(toNode).type = "get" /\ toNode' = Tail(toNode)
      BY <2>3, <1>0, Zenon
    <3>2. HasExt(toNode') => HasExt(toNode)
      BY <3>1, HasTail, Zenon
    <3>3. /\ \A t : Has(toNode, t) <=> Has(toNode', t) \/ t = "get"
          /\ \A t : Once(toNode, t) => Once(toNode', t)
          /\ ~Has(toNode', "get")
          /\ \A s, r : Stream(toNode, s, r) => Stream(toNode', s, r)
      BY <3>1, <2>2, HasTail
    <3>4. On(toNode') \subseteq On(toNode)
      BY <3>1, Received, Zenon
    <3> QED BY <3>2, <3>3, <3>4, <2>2, Zenon
  <2>6. /\ \A t : Has(toHost', t) <=> Has(toHost, t) \/ t = "report"
        /\ \A t : Once(toHost, t) => Once(toHost', t)
        /\ HasExt(toHost') <=> HasExt(toHost)
        /\ \A s, r : Stream(toHost, s, r) => Stream(toHost', s, r)
        /\ On(toHost') = On(toHost) \cup {NonceReport(entropy)}
    BY <2>2, <2>3, <1>0, <1>s, HasAppend, Appended
  <2>7. HostSpan = peer.span /\ HostSpan' = peer.span
    BY <2>2, <2>3 DEF HostSpan
  <2>8. StreamInv'
    <3>1. Has(toNode', "encap") => Stream(toNode', peer.span, dev')
      BY <2>2, <2>4, <2>5, <2>7, <1>i, SameReceiver, Zenon DEF StreamInv
    <3> QED BY <3>1, <2>2, <2>3, <2>4, <2>5, <2>6, <2>7, <1>i, Zenon DEF StreamInv, hasSpan
  <2>9. HostAskInv'
    <3>1. \A f \in On(toHost') : f.type = "report" => f = NonceReport(entropy)
      BY <2>6, <2>2 DEF Has
    <3> QED BY <3>1, <2>2, <2>3, <2>4, <2>5, <2>6, <1>0, <1>s, <1>i, Zenon DEF HostAskInv, hasSpan
  <2>10. NodeAskInv'
    BY <2>2, <2>3, <2>4, <2>5, <2>6, <1>i, Zenon DEF NodeAskInv, hasSpan
  <2> QED BY <2>8, <2>9, <2>10
<1>16. CASE NodeGetsReport
  <2>1. /\ toNode # <<>> /\ Head(toNode).type = "report" /\ toNode' = Tail(toNode)
        /\ dev'.span = NoSpan /\ dev'.ourRei = dev.ourRei /\ dev'.peerRei = Head(toNode).rei
        /\ UNCHANGED <<peer, queued, homeBound, toHost, disk>> /\ dev.span = NoSpan
    BY <1>16, Zenon DEF NodeGetsReport, hasSpan
  <2>2. Head(toNode) \in On(toNode) /\ Has(toNode, "report") /\ On(toNode') \subseteq On(toNode)
    BY <2>1, <1>0, Received DEF Has
  <2>3. /\ \A t : Has(toNode, t) <=> Has(toNode', t) \/ t = "report"
        /\ \A t : Once(toNode, t) => Once(toNode', t)
        /\ Once(toNode, "report") => ~Has(toNode', "report")
        /\ HasExt(toNode') => HasExt(toNode)
        /\ \A s, r : Stream(toNode, s, r) => Stream(toNode', s, r)
    BY <2>1, <1>0, HasTail, Zenon
  <2>4. homeBound /\ dev'.peerRei = peer.ourRei /\ ~Has(toHost, "get") /\ ~Has(toNode', "report")
    BY <2>1, <2>2, <2>3, <1>i, Zenon DEF NodeAskInv
  <2>5. StreamInv'
    <3>1. Stream(toNode', HostSpan, dev) => Stream(toNode', HostSpan, dev')
      BY <2>1, SameReceiver, Zenon
    <3>2. HostSpan' = HostSpan
      BY <2>1 DEF HostSpan
    <3> QED BY <3>1, <3>2, <2>1, <2>3, <1>i, Zenon DEF StreamInv, hasSpan
  <2>6. HostAskInv'
    BY <2>1, <2>3, <1>i, Zenon DEF HostAskInv, hasSpan
  <2>7. NodeAskInv'
    BY <2>1, <2>2, <2>3, <2>4, <1>i, Zenon DEF NodeAskInv, hasSpan
  <2> QED BY <2>5, <2>6, <2>7
<1>17. CASE NodeGetsEncap
  <2> DEFINE f == Head(toNode)
  <2>1. /\ toNode # <<>> /\ f.type = "encap" /\ toNode' = Tail(toNode)
        /\ UNCHANGED <<peer, queued, homeBound, disk>>
        /\ Decrypts(dev, f) => dev' = receiveNonce(dev, f) /\ toHost' = toHost
    BY <1>17, Zenon DEF NodeGetsEncap
  <2>2. f \in Frame /\ f \in On(toNode) /\ On(toNode') \subseteq On(toNode)
    BY <2>1, <1>0, Received
  <2>3. Has(toNode, "encap") /\ Stream(toNode, HostSpan, dev) /\ HostSpan # NoSpan /\ ~Has(toHost, "encap")
    BY <2>1, <2>2, <1>i DEF StreamInv, Has
  <2>4. /\ \A t : Has(toNode, t) <=> Has(toNode', t) \/ t = "encap"
        /\ \A t : Once(toNode, t) => Once(toNode', t)
        /\ HasExt(toNode') => HasExt(toNode)
    BY <2>1, <1>0, HasTail, Zenon
  <2>5. /\ Opens(f, dev) /\ f.nonce # NoSpan
        /\ \A q : q.span = Drawn(f.nonce, 1) => Stream(toNode', HostSpan, q)
        /\ ~Has(toNode', "encap") => HostSpan = Drawn(f.nonce, 1)
    BY <2>1, <2>3, <1>0, HasTail, Zenon
  <2>6. /\ dev'.span = Drawn(f.nonce, 1) /\ dev'.peerRei = dev.peerRei /\ hasSpan(dev)'
        /\ dev'.ourRei = IF f.ext = None THEN dev.ourRei ELSE None
        /\ toHost' = toHost
    <3>1. /\ Decrypts(dev, f)
          /\ receiveNonce(dev, f).span = Drawn(f.nonce, 1)
          /\ receiveNonce(dev, f).peerRei = dev.peerRei
          /\ receiveNonce(dev, f).ourRei = IF f.ext = None THEN dev.ourRei ELSE None
          /\ hasSpan(receiveNonce(dev, f))
      BY <2>2, <2>5, <1>0, OpensDecrypts, Zenon
    <3> HIDE DEF f
    <3> QED BY <2>1, <3>1, Zenon DEF hasSpan
  <2>7. f.ext # None => HasExt(toNode)
    BY <2>1, <2>2 DEF HasExt
  <2> HIDE DEF f
  <2>8. StreamInv'
    <3>1. HostSpan' = HostSpan
      BY <2>1 DEF HostSpan
    <3> QED BY <3>1, <2>1, <2>3, <2>5, <2>6, <1>i, Zenon DEF StreamInv, hasSpan
  <2>9. HostAskInv'
    <3>1. \A g \in On(toHost) : g.type = "report" => f.ext = None
      BY <2>7, <1>i, Zenon DEF HostAskInv, Has
    <3> QED BY <3>1, <2>1, <2>4, <2>6, <1>i, Zenon DEF HostAskInv, hasSpan
  <2>10. NodeAskInv'
    BY <2>1, <2>2, <2>4, <2>6, <1>i, Zenon DEF NodeAskInv, hasSpan
  <2> QED BY <2>8, <2>9, <2>10
<1>18. CASE Lose
  BY <1>18 DEF Lose
<1>19. CASE UNCHANGED vars
  BY <1>19, <1>i, Zenon DEF StreamInv, HostAskInv, NodeAskInv, HostSpan, hasSpan, vars
<1> QED BY <1>1, <1>2, <1>3, <1>4, <1>5, <1>6, <1>7, <1>8, <1>10, <1>11, <1>12, <1>13, <1>14, <1>15,
           <1>16, <1>17, <1>18, <1>19 DEF Next

\* The inductive invariant of the undisturbed exchange.
THEOREM ExchangeInvariant == Spec => []LockInv
<1>1. Init => LockInv
  <2> SUFFICES ASSUME Init PROVE StreamInv /\ HostAskInv /\ NodeAskInv
    BY DEF LockInv
  <2>1. On(<<>>) = {} /\ \A t : ~Has(<<>>, t) /\ Once(<<>>, t)
    BY DEF On, Has, Once
  <2>2. ~HasExt(<<>>)
    BY <2>1 DEF HasExt
  <2>3. /\ peer = NoPeer /\ dev = NoPeer /\ queued = 0 /\ ~homeBound /\ disk = NoSpan
        /\ toNode = <<>> /\ toHost = <<>>
    BY DEF Init
  <2> QED BY <2>1, <2>2, <2>3 DEF StreamInv, HostAskInv, NodeAskInv, HostSpan, NoPeer
<1>2. TypeOK /\ NonceInv /\ LockInv /\ [Next]_vars => LockInv'
  BY LockStep
<1> QED BY <1>1, <1>2, TypeCorrect, NonceInvariant, PTL DEF Spec

\* SpanManager: "Both then draw nonces in lockstep with no further exchange".  While
\* no frame is lost or crosses another, no crash, failed save or reconnect puts the
\* daemon back, both ends are at the same point of the same generator whenever no
\* encrypted frame is on the air: after any number of establishments, frames in both
\* directions, checkpoints and clean restarts from nodes.db.
THEOREM EndsInLockstep == Spec => []Lockstep
<1>1. LockInv => Lockstep
  BY EncapsHas DEF LockInv, StreamInv, Lockstep, HostSpan
<1> QED BY <1>1, ExchangeInvariant, PTL

=============================================================================
