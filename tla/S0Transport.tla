----------------------------- MODULE S0Transport -----------------------------
(***************************************************************************)
(* Security S0 on an established key: the queue of outbound payloads that  *)
(* wait for a nonce of their node, and the table of nonces issued to nodes *)
(* that send to us.  A node and its radio link are external: frames arrive *)
(* in the order sent, except that they may be lost, or repeated late.      *)
(* Every handler runs with the bus held, so it is one step.                *)
(***************************************************************************)
EXTENDS Naturals, Sequences, FiniteSets, SequencesExt

CONSTANTS Peers, NonceIds,   \* nodes; values of the first byte of a nonce
          BadNonce,          \* a report that decodeNonceReport rejects
          MaxSecureSends,    \* bound: payloads in the two directions together, per node
          MaxRadioFaults     \* bound: frames lost, and frames repeated

VARIABLES
  queues,      \* SecurityOutboundOrchestrator's State::queues
  entries,     \* NonceTable::entries_: peer -> set of [nonce, fresh]
  s0key,       \* NetworkKey::current().has_value()
  toNode, fromNode,    \* frames on the air
  requested,   \* payloads handed to the orchestrator, per node
  nodeNonces,  \* the node's own table of issued nonces
  nodeGot,     \* history: payloads the node has decrypted
  wanted,      \* payloads the node has yet to ask a nonce for, per node
  nodeSent,    \* payloads the node has sent, per node
  inner,       \* history: payloads republished as ApplicationCommand, per node
  serial,      \* numbers all random nonces
  lost, repeated

s0Vars == <<queues, entries, s0key, toNode, fromNode, requested, nodeNonces, nodeGot,
            wanted, nodeSent, inner, serial, lost, repeated>>

NonceGet == [kind |-> "NONCE_GET"]
NonceReport(nonce) == [kind |-> "NONCE_REPORT", nonce |-> nonce]
Encapsulated(nonce, body) == [kind |-> "ENCAPSULATION", nonce |-> nonce, body |-> body]
\* RAND_bytes: any first byte, and never the same eight bytes again.
Fresh8(id) == [id |-> id, serial |-> serial + 1]

ToNode(p, frames) == toNode' = [toNode EXCEPT ![p] = @ \o frames]
Receives(p, kind) == fromNode[p] # <<>> /\ Head(fromNode[p]).kind = kind
Consume(p) == fromNode' = [fromNode EXCEPT ![p] = Tail(@)]

-----------------------------------------------------------------------------
(* Outbound.                                                               *)

requestNonce_Never(queue) == <<>>
requestNonce(queue) == IF queue = <<>> THEN <<>> ELSE <<NonceGet>>

\* A nonce is asked for only if none is on its way for this node.
onSecureSendRequest(p) ==
  /\ requested[p] < MaxSecureSends
  /\ requested' = [requested EXCEPT ![p] = @ + 1]
  /\ queues' = [queues EXCEPT ![p] = Append(@, requested[p] + 1)]
  /\ ToNode(p, IF queues[p] = <<>> THEN <<NonceGet>> ELSE <<>>)
  /\ UNCHANGED <<entries, s0key, fromNode, nodeNonces, nodeGot, wanted, nodeSent, inner, serial, lost, repeated>>

AfterSend(queue) == Tail(queue)
\* A report that finds no queue is ignored; one that cannot be used drops the
\* queue; any other encrypts exactly one payload and asks for the next nonce.
onNonceReport(p) ==
  /\ Receives(p, "NONCE_REPORT")
  /\ LET nonce == Head(fromNode[p]).nonce
         queue == queues[p]
     IN  \/ /\ queue = <<>>
            /\ UNCHANGED <<queues, toNode>>
         \/ /\ queue # <<>> /\ (nonce = BadNonce \/ ~s0key)
            /\ queues' = [queues EXCEPT ![p] = <<>>]
            /\ UNCHANGED toNode
         \/ /\ queue # <<>> /\ nonce # BadNonce /\ s0key
            /\ queues' = [queues EXCEPT ![p] = AfterSend(@)]
            /\ ToNode(p, <<Encapsulated(nonce, Head(queue))>> \o requestNonce(Tail(queue)))
  /\ Consume(p)
  /\ UNCHANGED <<entries, s0key, requested, nodeNonces, nodeGot, wanted, nodeSent, inner, serial, lost, repeated>>

-----------------------------------------------------------------------------
(* Inbound.                                                                *)

\* NonceTable::generate: a nonce with the same first byte is replaced.
generate(table, nonce) == {e \in table : e.nonce.id # nonce.id} \cup {[nonce |-> nonce, fresh |-> TRUE]}
onNonceGet(p) ==
  /\ Receives(p, "NONCE_GET")
  /\ \E id \in NonceIds :
       /\ entries' = [entries EXCEPT ![p] = generate(@, Fresh8(id))]
       /\ ToNode(p, <<NonceReport(Fresh8(id))>>)
  /\ serial' = serial + 1
  /\ Consume(p)
  /\ UNCHANGED <<queues, s0key, requested, nodeNonces, nodeGot, wanted, nodeSent, inner, lost, repeated>>

\* The freshness window of an issued nonce passes.
Expire(p) ==
  /\ \E e \in entries[p] :
       /\ e.fresh
       /\ entries' = [entries EXCEPT ![p] = (@ \ {e}) \cup {[e EXCEPT !.fresh = FALSE]}]
  /\ UNCHANGED <<queues, s0key, toNode, fromNode, requested, nodeNonces, nodeGot, wanted, nodeSent, inner,
                 serial, lost, repeated>>

\* NonceTable::take: what is found leaves the table, fresh or not.
take_Keeps(table, id) == table
take(table, id) == {e \in table : e.nonce.id # id}
Named(table, id) == {e \in table : e.nonce.id = id}
\* decrypt succeeds if the nonce found is the one the frame was made with;
\* the scheme is then reported and the inner frame published.
decrypt(p, frame) == \E e \in Named(entries[p], frame.nonce.id) : e.fresh /\ e.nonce = frame.nonce
onEncapsulation(p) ==
  /\ Receives(p, "ENCAPSULATION")
  /\ LET frame == Head(fromNode[p])
     IN  \/ ~s0key /\ UNCHANGED <<entries, inner>>
         \/ /\ s0key
            /\ entries' = [entries EXCEPT ![p] = take(@, frame.nonce.id)]
            /\ inner' = IF decrypt(p, frame) THEN [inner EXCEPT ![p] = Append(@, frame.body)] ELSE inner
  /\ Consume(p)
  /\ UNCHANGED <<queues, s0key, toNode, requested, nodeNonces, nodeGot, wanted, nodeSent, serial, lost, repeated>>

-----------------------------------------------------------------------------
(* External: the node, which answers every request and uses a nonce once,  *)
(* and the radio.                                                          *)

NodeStep(p) ==
  \/ /\ toNode[p] # <<>>
     /\ toNode' = [toNode EXCEPT ![p] = Tail(@)]
     /\ LET frame == Head(toNode[p])
        IN  \/ /\ frame.kind = "NONCE_GET"
               /\ \E id \in NonceIds, bad \in BOOLEAN :
                    /\ bad => lost < MaxRadioFaults
                    /\ lost' = IF bad THEN lost + 1 ELSE lost
                    /\ nodeNonces' = [nodeNonces EXCEPT ![p] = @ \cup {Fresh8(id)}]
                    /\ fromNode' = [fromNode EXCEPT ![p] =
                                      Append(@, NonceReport(IF bad THEN BadNonce ELSE Fresh8(id)))]
               /\ serial' = serial + 1
               /\ UNCHANGED <<nodeGot, wanted, nodeSent>>
            \/ /\ frame.kind = "NONCE_REPORT"
               /\ fromNode' = [fromNode EXCEPT ![p] = Append(@, Encapsulated(frame.nonce, nodeSent[p] + 1))]
               /\ nodeSent' = [nodeSent EXCEPT ![p] = @ + 1]
               /\ UNCHANGED <<nodeGot, nodeNonces, wanted, serial, lost>>
            \/ /\ frame.kind = "ENCAPSULATION"
               /\ nodeNonces' = [nodeNonces EXCEPT ![p] = @ \ {frame.nonce}]
               /\ nodeGot' = IF frame.nonce \in nodeNonces[p]
                             THEN [nodeGot EXCEPT ![p] = Append(@, frame.body)] ELSE nodeGot
               /\ UNCHANGED <<fromNode, wanted, nodeSent, serial, lost>>
  \/ /\ wanted[p] > 0
     /\ wanted' = [wanted EXCEPT ![p] = @ - 1]
     /\ fromNode' = [fromNode EXCEPT ![p] = Append(@, NonceGet)]
     /\ UNCHANGED <<toNode, nodeNonces, nodeGot, nodeSent, serial, lost>>
RadioNode(p) ==
  NodeStep(p) /\ UNCHANGED <<queues, entries, s0key, requested, inner, repeated>>

Lose(p) ==
  /\ lost < MaxRadioFaults /\ lost' = lost + 1
  /\ \/ \E i \in DOMAIN toNode[p] : toNode' = [toNode EXCEPT ![p] = RemoveAt(@, i)] /\ UNCHANGED fromNode
     \/ \E i \in DOMAIN fromNode[p] : fromNode' = [fromNode EXCEPT ![p] = RemoveAt(@, i)] /\ UNCHANGED toNode
  /\ UNCHANGED <<queues, entries, s0key, requested, nodeNonces, nodeGot, wanted, nodeSent, inner, serial, repeated>>
Repeat(p) ==
  /\ repeated < MaxRadioFaults /\ repeated' = repeated + 1
  /\ \/ \E i \in DOMAIN toNode[p] : toNode' = [toNode EXCEPT ![p] = Append(@, @[i])] /\ UNCHANGED fromNode
     \/ \E i \in DOMAIN fromNode[p] : fromNode' = [fromNode EXCEPT ![p] = Append(@, @[i])] /\ UNCHANGED toNode
  /\ UNCHANGED <<queues, entries, s0key, requested, nodeNonces, nodeGot, wanted, nodeSent, inner, serial, lost>>

S0Init ==
  /\ queues = [p \in Peers |-> <<>>] /\ entries = [p \in Peers |-> {}]
  /\ s0key \in BOOLEAN
  /\ toNode = [p \in Peers |-> <<>>] /\ fromNode = [p \in Peers |-> <<>>]
  /\ wanted \in [Peers -> 0 .. MaxSecureSends] /\ requested = wanted
  /\ nodeSent = [p \in Peers |-> 0]
  /\ nodeNonces = [p \in Peers |-> {}]
  /\ nodeGot = [p \in Peers |-> <<>>] /\ inner = [p \in Peers |-> <<>>]
  /\ serial = 0 /\ lost = 0 /\ repeated = 0

S0Next ==
  \E p \in Peers :
    \/ onSecureSendRequest(p) \/ onNonceReport(p)
    \/ onNonceGet(p) \/ Expire(p) \/ onEncapsulation(p)
    \/ RadioNode(p) \/ Lose(p) \/ Repeat(p)

-----------------------------------------------------------------------------
\* A node never gets a payload twice or an earlier one after a later one,
\* with nonce reports lost, repeated or late: each report, even a repeated
\* one, takes one payload off the queue (SecurityOutboundOrchestrator.cpp:110).
\* In the other direction a node's frame is published at most once, however
\* often the radio repeats it and whatever first bytes the nonces share: the
\* nonce is gone with the first attempt, successful or not (NonceTable.cpp:27-41).
SecureCommandsOnce ==
  \A p \in Peers :
    /\ \A i, j \in DOMAIN nodeGot[p] : i < j => nodeGot[p][i] < nodeGot[p][j]
    /\ IsInjective(inner[p])

\* A queue is never left waiting for an answer nobody has been asked for: so
\* long as no frame was lost, a nonce request or report for the node is on
\* the air (SecurityOutboundOrchestrator.cpp:78-85, 120-127).
QueueIsAwaited ==
  lost = 0 =>
    \A p \in Peers : queues[p] # <<>> =>
      \/ NonceGet \in ToSet(toNode[p])
      \/ \E i \in DOMAIN fromNode[p] : fromNode[p][i].kind = "NONCE_REPORT"
=============================================================================
