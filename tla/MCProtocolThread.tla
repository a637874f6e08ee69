-------------------------- MODULE MCProtocolThread --------------------------
(* Instances of ProtocolThread: command sets for its runs. *)
EXTENDS ProtocolThread

CONSTANTS n1, n2

Cmd(op, id, nodes, raw) == [op |-> op, id |-> id, nodes |-> nodes, raw |-> raw]

\* With and without a callback, unicast and multicast, plain and raw, diverted
\* to the security layer (4) and refused (5)
Sends == {Cmd("send", 1, {n1}, FALSE), Cmd("multi", 2, {n1}, FALSE),
          Cmd("send", 0, {n2}, TRUE), Cmd("send", 4, {n2}, FALSE),
          Cmd("multi", 5, {n1, n2}, FALSE)}
\* What changes the network, a stop that may outlive its inclusion, and a
\* node-info request
NetworkChanges == {Cmd("add", 1, {}, FALSE), Cmd("addStop", 2, {}, FALSE),
                   Cmd("remove", 3, {}, FALSE), Cmd("failed", 4, {n1}, FALSE),
                   Cmd("info", 5, {n1}, FALSE)}
TwoSends == {Cmd("send", 1, {n1}, FALSE), Cmd("send", 2, {n1}, FALSE)}
=============================================================================
