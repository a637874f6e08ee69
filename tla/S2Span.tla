------------------------------- MODULE S2Span -------------------------------
(***************************************************************************)
(* The Security S2 nonce generators (SPANs) of zwaved: SpanManager, the   *)
(* inbound and outbound S2 orchestrators that pump frames through it, and *)
(* SpanStoreService, which checkpoints the generators to nodes.db and     *)
(* restores them on DongleInfo.                                           *)
(*                                                                         *)
(* The module follows ONE S2 node: every map of the code is keyed by node *)
(* and no handler relates two entries.  A generator state is the pair of  *)
(* entropy inputs it was instantiated from and the number of nonces drawn *)
(* since; two states, or two nonces, are equal exactly if these are.      *)
(* Entropy is a counter: RAND_bytes never returns the same value twice.   *)
(* Payloads are abstracted away, so the outbound queue is its length, and *)
(* so are the sequence numbers, which travel in the frame and decide      *)
(* nothing.  The radio delivers in order and may lose.                    *)
(***************************************************************************)
EXTENDS Naturals, Sequences, FiniteSets

CONSTANTS MaxEntropy,   \* bound: entropy inputs drawn by both ends
          MaxDraws,     \* bound: nonces drawn from one generator
          MaxInFlight,  \* bound: frames on the air in one direction
          MaxQueue,     \* bound: payloads waiting for a SPAN
          MaxBinds      \* bound: DongleInfo events

ASSUME BoundsAssumption ==
  /\ MaxEntropy \in Nat \ {0} /\ MaxDraws \in Nat /\ MaxInFlight \in Nat
  /\ MaxQueue \in Nat /\ MaxBinds \in Nat

VARIABLES
  peer,         \* SpanManager::peers_[node]: the daemon's end
  queued,       \* SecurityS2Outbound queues[node].size()
  up,           \* the process is running
  homeBound,    \* SpanStoreService homeBound
  lastWritten,  \* SpanStoreService lastWritten[node]
  disk,         \* the span_state row of the node
  dev,          \* the node's end
  toNode, toHost,  \* frames on the air
  entropy,      \* next unused entropy input
  binds,        \* DongleInfo events so far (bound)
  drawn,        \* history: nonces the daemon encrypted with
  reused,       \* history: it encrypted with one of them twice
  disturbed     \* history: what happened to the generators from outside

vars == <<peer, queued, up, homeBound, lastWritten, disk, dev, toNode, toHost,
          entropy, binds, drawn, reused, disturbed>>

store == <<lastWritten, disk>>
process == <<up, homeBound, binds>>

None == 0
NoSpan == [sei |-> None, rei |-> None, k |-> 0]
NoPeer == [span |-> NoSpan, ourRei |-> None, peerRei |-> None]

NonceGet == [type |-> "get", rei |-> None, ext |-> None, nonce |-> NoSpan]
NonceReport(rei) ==
  [type |-> "report", rei |-> rei, ext |-> None, nonce |-> NoSpan]
Encap(ext, nonce) ==
  [type |-> "encap", rei |-> None, ext |-> ext, nonce |-> nonce]

Encaps(ch) == {i \in 1 .. Len(ch) : ch[i].type = "encap"}

-----------------------------------------------------------------------------
(* SpanManager, on one end's peer record.                                  *)

instantiate(sei, rei) == [sei |-> sei, rei |-> rei, k |-> 0]
Drawn(s, n) == [sei |-> s.sei, rei |-> s.rei, k |-> s.k + n]

hasSpan(m) == m.span # NoSpan
CanEncrypt(m) == hasSpan(m) \/ m.peerRei # None

respondToNonceGet(m, rei) == [span |-> m.span, ourRei |-> rei, peerRei |-> m.peerRei]
acceptNonceReport(m, rei) == [span |-> m.span, ourRei |-> m.ourRei, peerRei |-> rei]

\* encrypt(): the SPAN is built on the first frame, from the peer's REI and a
\* fresh SEI that rides on that frame.
Established(m, sei) ==
  IF hasSpan(m) THEN m
  ELSE [span |-> instantiate(sei, m.peerRei), ourRei |-> m.ourRei, peerRei |-> None]
SpanExtension(m, sei) == IF hasSpan(m) THEN None ELSE sei
Entropies(m) == IF hasSpan(m) THEN 0 ELSE 1

\* n calls of encrypt() in a row: the frames, the nonces and the peer after.
Wrapped(m, sei, n) ==
  [i \in 1 .. n |-> Encap(IF i = 1 THEN SpanExtension(m, sei) ELSE None,
                          Drawn(Established(m, sei).span, i - 1))]
Nonces(m, sei, n) == {Drawn(Established(m, sei).span, i) : i \in 0 .. n - 1}
encrypt(m, sei, n) ==
  LET e == Established(m, sei)
  IN  [span |-> Drawn(e.span, n), ourRei |-> e.ourRei, peerRei |-> e.peerRei]

\* receiveNonce(): a SPAN extension answers the REI we issued.  The peer before
\* the nonce is drawn, and after.
Opened_Swapped(m, ext) ==
  IF ext # None /\ m.ourRei # None
  THEN [span |-> instantiate(m.ourRei, ext), ourRei |-> None, peerRei |-> m.peerRei]
  ELSE m
Opened(m, ext) ==
  IF ext # None /\ m.ourRei # None
  THEN [span |-> instantiate(ext, m.ourRei), ourRei |-> None, peerRei |-> m.peerRei]
  ELSE m
receiveNonce(m, f) ==
  LET o == Opened(m, f.ext)
  IN  IF hasSpan(o)
      THEN [span |-> Drawn(o.span, 1), ourRei |-> o.ourRei, peerRei |-> o.peerRei]
      ELSE o
Decrypts(m, f) == LET o == Opened(m, f.ext) IN hasSpan(o) /\ o.span = f.nonce

-----------------------------------------------------------------------------
(* The daemon's handlers.  They run on the bus, one at a time.             *)

\* configurePeer: the registry, bound by then, knows the node as S2-secure.
Serving == up /\ homeBound

\* The daemon encrypts n payloads from state m.
HostEncrypts(m, n) ==
  /\ peer' = encrypt(m, entropy, n)
  /\ entropy + Entropies(m) <= MaxEntropy /\ entropy' = entropy + Entropies(m)
  /\ Established(m, entropy).span.k + n <= MaxDraws
  /\ toNode' = toNode \o Wrapped(m, entropy, n)
  /\ Len(toNode') <= MaxInFlight
  /\ reused' = (reused \/ Nonces(m, entropy, n) \cap drawn # {})
  /\ drawn' = drawn \cup Nonces(m, entropy, n)

\* onSecureS2SendRequest, with a SPAN or the REI for one: sent at once.
SendNow ==
  /\ Serving /\ CanEncrypt(peer)
  /\ HostEncrypts(peer, 1)
  /\ disturbed' = disturbed \cup (IF Encaps(toHost) # {} THEN {"crossed"} ELSE {})
  /\ UNCHANGED <<queued, store, process, dev, toHost>>

\* onSecureS2SendRequest, without: queued; the first one asks for a nonce.
SendLater ==
  /\ Serving /\ ~CanEncrypt(peer) /\ queued < MaxQueue
  /\ queued' = queued + 1
  /\ toNode' = IF queued = 0 THEN Append(toNode, NonceGet) ELSE toNode
  /\ Len(toNode') <= MaxInFlight
  /\ UNCHANGED <<peer, store, process, dev, toHost, entropy, drawn, reused, disturbed>>

Reply(rei) == /\ entropy < MaxEntropy /\ entropy' = entropy + 1
              /\ toNode' = Append(toNode, NonceReport(rei))
              /\ Len(toNode') <= MaxInFlight

\* Inbound: the node asks for an REI.
HostGetsNonceGet ==
  /\ Serving /\ toHost # <<>> /\ Head(toHost).type = "get"
  /\ toHost' = Tail(toHost)
  /\ peer' = respondToNonceGet(peer, entropy) /\ Reply(entropy)
  /\ UNCHANGED <<queued, store, process, dev, drawn, reused, disturbed>>

\* Outbound: a NONCE_REPORT nobody waits for is not even looked at ...
HostIgnoresReport ==
  /\ Serving /\ toHost # <<>> /\ Head(toHost).type = "report" /\ queued = 0
  /\ toHost' = Tail(toHost)
  /\ UNCHANGED <<peer, queued, store, process, dev, toNode, entropy, drawn, reused, disturbed>>

\* ... one that is waited for is accepted, and the whole queue goes out.
Remaining_One(n) == n - 1
Remaining(n) == 0
HostGetsReport ==
  /\ Serving /\ toHost # <<>> /\ Head(toHost).type = "report" /\ queued > 0
  /\ toHost' = Tail(toHost)
  /\ HostEncrypts(acceptNonceReport(peer, Head(toHost).rei), queued)
  /\ queued' = Remaining(queued)
  /\ disturbed' = disturbed \cup (IF Encaps(toHost) # {} THEN {"crossed"} ELSE {})
  /\ UNCHANGED <<store, process, dev>>

\* Inbound: a frame is decrypted and its payload published, or a resync asked for.
HostGetsEncap ==
  /\ Serving /\ toHost # <<>> /\ Head(toHost).type = "encap"
  /\ toHost' = Tail(toHost)
  /\ LET f == Head(toHost)
         m == receiveNonce(peer, f)
     IN  /\ m.span.k <= MaxDraws
         /\ IF Decrypts(peer, f)
            THEN peer' = m /\ UNCHANGED <<toNode, entropy>>
            ELSE peer' = respondToNonceGet(m, entropy) /\ Reply(entropy)
  /\ UNCHANGED <<queued, store, process, dev, drawn, reused, disturbed>>

-----------------------------------------------------------------------------
(* SpanStoreService.                                                       *)

\* checkpoint(): nothing without a home, without a SPAN, or if the SPAN is what
\* was written last.  save() reports no failure: `ok' is whether SQLite wrote.
Dirty_Once == homeBound /\ hasSpan(peer) /\ lastWritten = NoSpan
Dirty == homeBound /\ hasSpan(peer) /\ peer.span # lastWritten
checkpoint(ok) == disk' = IF Dirty /\ ok THEN peer.span ELSE disk
Unsaved(ok) == IF Dirty /\ ~ok THEN {"unsaved"} ELSE {}

\* S2SpanCheckpointDue, once a minute.
CheckpointDue ==
  /\ up /\ Dirty
  /\ \E ok \in BOOLEAN : checkpoint(ok) /\ disturbed' = disturbed \cup Unsaved(ok)
  /\ lastWritten' = peer.span
  /\ UNCHANGED <<peer, queued, process, dev, toNode, toHost, entropy, drawn, reused>>

\* DongleInfo: bindAndRestore(), at startup and again after every reconnect.
bindAndRestore_KeepsWritten ==
  /\ peer' = [span |-> IF disk # NoSpan THEN disk ELSE peer.span,
              ourRei |-> peer.ourRei, peerRei |-> peer.peerRei]
  /\ homeBound' = TRUE
  /\ UNCHANGED lastWritten
bindAndRestore ==
  /\ peer' = [span |-> IF disk # NoSpan THEN disk ELSE peer.span,
              ourRei |-> peer.ourRei, peerRei |-> peer.peerRei]
  /\ homeBound' = TRUE
  /\ lastWritten' = disk
DongleInfo ==
  /\ up /\ binds < MaxBinds /\ binds' = binds + 1
  /\ bindAndRestore
  /\ disturbed' = disturbed \cup
       (IF homeBound /\ disk \notin {NoSpan, peer.span} THEN {"replugged"} ELSE {})
  /\ UNCHANGED <<queued, up, disk, dev, toNode, toHost, entropy, drawn, reused>>

\* The process ends: what is in memory goes, and what arrives is not received.
Exit ==
  /\ up /\ up' = FALSE /\ homeBound' = FALSE
  /\ peer' = NoPeer /\ queued' = 0 /\ lastWritten' = NoSpan
  /\ toHost' = <<>>
  /\ UNCHANGED <<binds, dev, toNode, entropy, drawn, reused>>
\* Frames not received, a queue with its NONCE_GET, or an REI handed out that
\* the next process does not know.
Missed ==
  IF Encaps(toHost) # {} \/ queued > 0 \/ peer.ourRei # None THEN {"lost"} ELSE {}

\* ~State(): the final checkpoint, then the end.
Shutdown ==
  /\ \E ok \in BOOLEAN :
       checkpoint(ok) /\ disturbed' = disturbed \cup Missed \cup Unsaved(ok)
  /\ Exit

\* SIGKILL or a power cut.
Killed ==
  /\ disturbed' = disturbed \cup Missed \cup
       (IF peer.span \notin {NoSpan, disk} THEN {"killed"} ELSE {})
  /\ UNCHANGED disk
  /\ Exit

Start ==
  /\ ~up /\ up' = TRUE
  /\ UNCHANGED <<peer, queued, homeBound, store, dev, toNode, toHost, entropy, binds,
                 drawn, reused, disturbed>>

-----------------------------------------------------------------------------
(* The node and the radio (external).  The node runs the same protocol; the *)
(* code's own tests play it with a second SpanManager.  Unlike that class a *)
(* node drops its SPAN when it is told SOS.                                *)

hostVars == <<peer, queued, store, process, drawn, reused>>

NodeSend ==
  /\ CanEncrypt(dev)
  /\ dev' = encrypt(dev, entropy, 1)
  /\ entropy + Entropies(dev) <= MaxEntropy /\ entropy' = entropy + Entropies(dev)
  /\ dev'.span.k <= MaxDraws
  /\ Len(toHost) < MaxInFlight
  /\ toHost' = toHost \o Wrapped(dev, entropy, 1)
  /\ disturbed' = disturbed \cup (IF Encaps(toNode) # {} THEN {"crossed"} ELSE {})
                            \cup (IF ~homeBound THEN {"lost"} ELSE {})
  /\ UNCHANGED <<hostVars, toNode>>

\* It asks again only when its request and the answer are off the air.
NodeAsks ==
  /\ ~CanEncrypt(dev) /\ homeBound /\ Len(toHost) < MaxInFlight
  /\ \A i \in 1 .. Len(toHost) : toHost[i].type # "get"
  /\ \A i \in 1 .. Len(toNode) : toNode[i].type # "report"
  /\ toHost' = Append(toHost, NonceGet)
  /\ UNCHANGED <<hostVars, dev, toNode, entropy, disturbed>>

NodeReplies ==
  /\ entropy < MaxEntropy /\ entropy' = entropy + 1
  /\ Len(toHost) < MaxInFlight
  /\ toHost' = IF homeBound THEN Append(toHost, NonceReport(entropy)) ELSE toHost

NodeGetsNonceGet ==
  /\ toNode # <<>> /\ Head(toNode).type = "get" /\ toNode' = Tail(toNode)
  /\ dev' = respondToNonceGet(dev, entropy) /\ NodeReplies
  /\ UNCHANGED <<hostVars, disturbed>>

NodeGetsReport ==
  /\ toNode # <<>> /\ Head(toNode).type = "report" /\ toNode' = Tail(toNode)
  /\ dev' = [span |-> NoSpan, ourRei |-> dev.ourRei, peerRei |-> Head(toNode).rei]
  /\ disturbed' = disturbed \cup (IF hasSpan(dev) THEN {"crossed"} ELSE {})
  /\ UNCHANGED <<hostVars, toHost, entropy>>

NodeGetsEncap ==
  /\ toNode # <<>> /\ Head(toNode).type = "encap" /\ toNode' = Tail(toNode)
  /\ LET f == Head(toNode)
         m == receiveNonce(dev, f)
     IN  /\ m.span.k <= MaxDraws
         /\ IF Decrypts(dev, f)
            THEN dev' = m /\ UNCHANGED <<toHost, entropy>>
            ELSE /\ dev' = respondToNonceGet(m, entropy) /\ NodeReplies
  /\ UNCHANGED <<hostVars, disturbed>>

\* The radio gives up on a frame.
Lose ==
  /\ \/ toNode # <<>> /\ toNode' = Tail(toNode) /\ UNCHANGED toHost
     \/ toHost # <<>> /\ toHost' = Tail(toHost) /\ UNCHANGED toNode
  /\ disturbed' = disturbed \cup {"lost"}
  /\ UNCHANGED <<hostVars, dev, entropy>>

-----------------------------------------------------------------------------
Init ==
  /\ peer = NoPeer /\ dev = NoPeer /\ queued = 0
  /\ up = FALSE /\ homeBound = FALSE /\ binds = 0
  /\ lastWritten = NoSpan /\ disk = NoSpan
  /\ toNode = <<>> /\ toHost = <<>> /\ entropy = 1
  /\ drawn = {} /\ reused = FALSE /\ disturbed = {}

Next ==
  \/ SendNow \/ SendLater \/ HostGetsNonceGet \/ HostIgnoresReport \/ HostGetsReport
  \/ HostGetsEncap \/ CheckpointDue \/ DongleInfo \/ Shutdown \/ Killed \/ Start
  \/ NodeSend \/ NodeAsks \/ NodeGetsNonceGet \/ NodeGetsReport \/ NodeGetsEncap
  \/ Lose

Spec == Init /\ [][Next]_vars

-----------------------------------------------------------------------------
Entropy == 0 .. MaxEntropy
Generator == [sei : Entropy, rei : Entropy, k : 0 .. MaxDraws]
Peer == [span : Generator, ourRei : Entropy, peerRei : Entropy]
Frame == [type : {"get", "report", "encap"}, rei : Entropy, ext : Entropy,
          nonce : Generator]
Disturbance == {"crossed", "lost", "killed", "replugged", "unsaved"}

\* Every generator, on either end, on disk or in a frame, has both entropy
\* inputs or neither, and no state survives in a process that is not running.
TypeOK ==
  /\ peer \in Peer /\ dev \in Peer
  /\ lastWritten \in Generator /\ disk \in Generator
  /\ queued \in 0 .. MaxQueue /\ binds \in 0 .. MaxBinds
  /\ up \in BOOLEAN /\ homeBound \in BOOLEAN
  /\ toNode \in Seq(Frame) /\ toHost \in Seq(Frame)
  /\ entropy \in 1 .. MaxEntropy
  /\ drawn \subseteq Generator /\ reused \in BOOLEAN
  /\ disturbed \subseteq Disturbance
  /\ homeBound => up
  /\ ~homeBound => peer = NoPeer /\ queued = 0

\* SpanStoreService: "A clean shutdown loses nothing".  As long as the process
\* was not killed with unsaved advances, no reconnect restored an older state
\* over a live one and no save failed, the daemon never encrypts two frames
\* with the same nonce, over any number of restarts and resynchronisations.
FreshNonces == disturbed \cap {"killed", "replugged", "unsaved"} = {} => ~reused

\* SpanManager: "Both then draw nonces in lockstep with no further exchange".
\* If nothing disturbed the exchange, then with no encrypted frame on the air a
\* running daemon and the node are at the same point of the same generator,
\* also after a restart from disk.
Lockstep ==
  disturbed = {} /\ homeBound /\ Encaps(toNode) = {} /\ Encaps(toHost) = {}
    => peer.span = dev.span

\* SecurityS2OutboundOrchestrator: a payload waits for a SPAN only while its
\* NONCE_GET or the answer to it is on the air, unless the radio lost one.
WaitingIsAnswered ==
  queued > 0 /\ "lost" \notin disturbed =>
    \/ \E i \in 1 .. Len(toNode) : toNode[i].type = "get"
    \/ \E i \in 1 .. Len(toHost) : toHost[i].type = "report"

\* SpanStoreService::checkpoint skips a peer "unchanged since the last write":
\* what it believes written is on disk, unless a save failed unnoticed.
SkippedIsStored == homeBound /\ "unsaved" \notin disturbed => lastWritten = disk
=============================================================================
