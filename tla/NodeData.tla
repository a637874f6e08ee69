------------------------------- MODULE NodeData -------------------------------
(***************************************************************************)
(* The tables that belong to a network: how a new session binds every      *)
(* store to the network of its dongle, and what two of the stores then     *)
(* hold, the last reported values and the commands queued for sleeping     *)
(* nodes.  Rows survive a kill; bindings and what is being sent do not.    *)
(***************************************************************************)
EXTENDS Naturals, Sequences, FiniteSets, SequencesExt

CONSTANTS HomeIds, Sleepers,
          Unbound,
          MaxSessions,   \* bound: sessions and restarts
          MaxQueued,     \* bound: commands queued
          MaxValues,     \* bound: values reported
          MaxDbFailures  \* bound: DELETEs that fail

VARIABLES
  dongle,       \* network of the dongle that is open, or Unbound
  bindings,     \* currentHomeId of each store
  toBind,       \* stores the new session has yet to bind
  announced,    \* the retained DongleInfo, as its home id
  rows,         \* table pending_commands
  values,       \* table node_values: the value and, as history, whose it is
  wakeUp,       \* the drain of the wake-up handler
  dataSent,     \* history: commands sent, with the network they went to
  queuedCount, valueCount, sessionCount,
  unintrospected, killed, dbFailures

dataVars == <<dongle, bindings, toBind, announced, rows, values, wakeUp, dataSent, queuedCount,
              valueCount, sessionCount, unintrospected, killed, dbFailures>>

-----------------------------------------------------------------------------
(* The session of a dongle.  A session whose introspection failed is       *)
(* served all the same.                                                    *)

BindOrder == <<"NodeRegistry", "PendingQueue", "PolicyRegister", "NodeMetadata", "SceneStore">>
\* The recorder and the SPAN store bind theirs when DongleInfo is published.
OnDongleInfo == {"NodeValues", "SpanStore"}
BoundStores == {"NodeRegistry", "PendingQueue", "PolicyRegister", "NodeMetadata", "SceneStore"} \cup OnDongleInfo
Bind_KeepsFirst(old, new) == IF old = Unbound THEN new ELSE old
Bind(old, new) == new

NotWaking == [node |-> 0, todo |-> <<>>]
Serving == dongle # Unbound /\ toBind = <<>> /\ wakeUp = NotWaking

OpenDongle(h) ==
  /\ dongle = Unbound /\ sessionCount < MaxSessions
  /\ dongle' = h /\ sessionCount' = sessionCount + 1
  /\ \/ toBind' = BindOrder /\ UNCHANGED unintrospected
     \/ toBind' = <<>> /\ unintrospected' = TRUE
  /\ UNCHANGED <<bindings, announced, rows, values, wakeUp, dataSent, queuedCount, valueCount,
                 killed, dbFailures>>

setHomeId ==
  /\ toBind # <<>>
  /\ toBind' = Tail(toBind)
  /\ LET now == [bindings EXCEPT ![Head(toBind)] = Bind(@, dongle)]
     IN  IF Len(toBind) > 1
         THEN bindings' = now /\ UNCHANGED announced
         ELSE /\ bindings' = [s \in BoundStores |-> IF s \in OnDongleInfo THEN Bind(now[s], dongle) ELSE now[s]]
              /\ announced' = dongle
  /\ UNCHANGED <<dongle, rows, values, wakeUp, dataSent, queuedCount, valueCount, sessionCount,
                 unintrospected, killed, dbFailures>>

CloseDongle ==
  /\ Serving
  /\ dongle' = Unbound
  /\ UNCHANGED <<bindings, toBind, announced, rows, values, wakeUp, dataSent, queuedCount,
                 valueCount, sessionCount, unintrospected, killed, dbFailures>>

Kill ==
  /\ sessionCount < MaxSessions /\ sessionCount' = sessionCount + 1
  /\ dongle' = Unbound /\ announced' = Unbound /\ toBind' = <<>>
  /\ bindings' = [s \in BoundStores |-> Unbound]
  /\ wakeUp' = NotWaking
  /\ killed' = TRUE
  /\ UNCHANGED <<rows, values, dataSent, queuedCount, valueCount, unintrospected, dbFailures>>

-----------------------------------------------------------------------------
(* Values and queued commands.                                             *)

\* Without a network the value is not kept.
record(n, value) ==
  IF bindings["NodeValues"] = Unbound THEN values
  ELSE [values EXCEPT ![bindings["NodeValues"], n] = [value |-> value, from |-> dongle]]
\* The recorder's handlers.
onReport(n) ==
  /\ Serving /\ valueCount < MaxValues
  /\ valueCount' = valueCount + 1
  /\ values' = record(n, valueCount + 1)
  /\ UNCHANGED <<dongle, bindings, toBind, announced, rows, wakeUp, dataSent, queuedCount,
                 sessionCount, unintrospected, killed, dbFailures>>

Queued(n) == rows[bindings["PendingQueue"], n]
\* A command for a sleeping node.  Without a network it is dropped.
enqueue(n) ==
  /\ Serving /\ queuedCount < MaxQueued
  /\ queuedCount' = queuedCount + 1
  /\ rows' = IF bindings["PendingQueue"] = Unbound THEN rows
             ELSE [rows EXCEPT ![bindings["PendingQueue"], n] = Append(@, queuedCount + 1)]
  /\ UNCHANGED <<dongle, bindings, toBind, announced, values, wakeUp, dataSent, valueCount,
                 sessionCount, unintrospected, killed, dbFailures>>

\* drain: the rows are read and deleted; they are sent all the same if the
\* DELETE fails.
AfterDrain_Keeps(failed, queue) == queue
AfterDrain(failed, queue) == IF failed THEN queue ELSE <<>>
drain(n) ==
  /\ Serving /\ bindings["PendingQueue"] # Unbound /\ Queued(n) # <<>>
  /\ wakeUp' = [node |-> n, todo |-> Queued(n)]
  /\ \E failed \in BOOLEAN :
       /\ failed => dbFailures < MaxDbFailures
       /\ rows' = [rows EXCEPT ![bindings["PendingQueue"], n] = AfterDrain(failed, @)]
       /\ dbFailures' = IF failed THEN dbFailures + 1 ELSE dbFailures
  /\ UNCHANGED <<dongle, bindings, toBind, announced, values, dataSent, queuedCount, valueCount,
                 sessionCount, unintrospected, killed>>

AfterSent(w) == IF Len(w.todo) = 1 THEN NotWaking ELSE [w EXCEPT !.todo = Tail(@)]
onWakeUpNotification ==
  /\ wakeUp # NotWaking
  /\ dataSent' = Append(dataSent, [command |-> Head(wakeUp.todo), node |-> wakeUp.node, to |-> dongle])
  /\ wakeUp' = AfterSent(wakeUp)
  /\ UNCHANGED <<dongle, bindings, toBind, announced, rows, values, queuedCount, valueCount,
                 sessionCount, unintrospected, killed, dbFailures>>

DataInit ==
  /\ dongle = Unbound /\ announced = Unbound /\ toBind = <<>>
  /\ bindings = [s \in BoundStores |-> Unbound]
  /\ rows = [k \in HomeIds \X Sleepers |-> <<>>]
  /\ values = [k \in HomeIds \X Sleepers |-> [value |-> 0, from |-> k[1]]]
  /\ wakeUp = NotWaking /\ dataSent = <<>>
  /\ queuedCount = 0 /\ valueCount = 0 /\ sessionCount = 0 /\ dbFailures = 0
  /\ unintrospected = FALSE /\ killed = FALSE

DataNext ==
  \/ \E h \in HomeIds : OpenDongle(h)
  \/ setHomeId \/ CloseDongle \/ Kill \/ onWakeUpNotification
  \/ \E n \in Sleepers : onReport(n) \/ enqueue(n) \/ drain(n)

-----------------------------------------------------------------------------
\* A value, or a queued command, is filed and used under the network it
\* belongs to, with dongles of two networks taking turns under the same node
\* ids (NodeValues.cpp:105-125, PendingQueue.cpp:123-197): while nodes are
\* served, every store is bound to the network that DongleInfo names to the
\* clients, and unless some session could not introspect its dongle that is
\* the network being served, although the stores are bound one after the
\* other (ProtocolThread.cpp:1359-1370, Recorder.cpp:108).
NetworksApart ==
  /\ Serving =>
       /\ \A s \in BoundStores : bindings[s] = announced
       /\ announced = dongle \/ unintrospected
  /\ ~unintrospected =>
       /\ \A k \in DOMAIN values : values[k].from = k[1]
       /\ \A i, j \in DOMAIN dataSent :
            dataSent[i].command = dataSent[j].command => dataSent[i].to = dataSent[j].to

Outstanding == UNION {ToSet(rows[k]) : k \in DOMAIN rows} \cup ToSet(wakeUp.todo)

\* A queued command is sent once and in its turn: never a second time and
\* never after a later one unless a DELETE failed, and not lost unless the
\* daemon was killed (PendingQueue.cpp:156-197, WakeUpOrchestrator.cpp:59-92).
QueuedSentOnce ==
  /\ dbFailures = 0 =>
       \A i, j \in DOMAIN dataSent :
         i < j => /\ dataSent[i].command # dataSent[j].command
                  /\ dataSent[i].node = dataSent[j].node /\ dataSent[i].to = dataSent[j].to
                       => dataSent[i].command < dataSent[j].command
  /\ ~killed /\ ~unintrospected =>
       1 .. queuedCount \subseteq Outstanding \cup {dataSent[i].command : i \in DOMAIN dataSent}
=============================================================================
