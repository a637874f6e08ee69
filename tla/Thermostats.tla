----------------------------- MODULE Thermostats -----------------------------
(***************************************************************************)
(* Logical thermostats: the nodes that carry the same metadata tag are    *)
(* commanded as one and mirrored as one.  The protocol thread hands the   *)
(* members' reports to the orchestrator, which recomputes the groups that *)
(* clients have addressed and publishes the ones that changed; the D-Bus  *)
(* backend keeps the last published state of each group for its readers.  *)
(* The D-Bus thread retags nodes at any moment, outside the bus, while    *)
(* its commands to a group run on the bus like any handler.               *)
(***************************************************************************)
EXTENDS Naturals, FiniteSets, FiniteSetsExt

CONSTANTS ClimateNetworks,  \* home ids
          Rooms,            \* groups: metadata [key, value] pairs
          Supports,         \* command classes in the registry, per node
          Readings,         \* values of a mode, fan mode or setpoint report
          MaxRetags,        \* bound: metadata edits and DongleInfo events
          MaxReports        \* bound: reports and commands

Thermostat == DOMAIN Supports
Keys == {g.key : g \in Rooms}
None == 0                 \* no reading, no network; also the default of a byte
Untagged == ""            \* no row
MODE_MIXED == 255
OperatingStates == {"idle", "heating", "cooling"}
ASSUME ClimateAssumption == None \notin Readings /\ MODE_MIXED \notin Readings

VARIABLES
  metaHome,       \* NodeMetadata::Store::State::currentHomeId
  metadata,       \* table node_metadata: [network, node, key] to a value
  perNode,        \* State::perNode
  knownGroups,    \* State::knownGroups
  lastSignature,  \* State::lastSignature, as the event it is made from
  setpointCounter,\* State::setpointCounter
  refresh,        \* the refreshGroupsForNode call of a report handler
  commanded,      \* nodes that got the last group command
  lastLogical,    \* DBusBackend::Impl::lastLogicalThermostat
  retagged,       \* history: groups whose members changed since they were computed
  retags, reports

climateVars == <<metaHome, metadata, perNode, knownGroups, lastSignature, setpointCounter,
                 refresh, commanded, lastLogical, retagged, retags, reports>>

-----------------------------------------------------------------------------
(* Metadata.                                                               *)

nodesWith(g) ==
  IF metaHome = None THEN {} ELSE {n \in Thermostat : metadata[metaHome, n, g.key] = g.value}

Retag(m) ==
  /\ retags < MaxRetags /\ retags' = retags + 1
  /\ metadata' = m
  /\ retagged' = retagged \cup
       {g \in Rooms : \E n \in Thermostat : (metadata[metaHome, n, g.key] = g.value)
                                            # (m[metaHome, n, g.key] = g.value)}
  /\ UNCHANGED <<metaHome, perNode, knownGroups, lastSignature, setpointCounter, refresh,
                 commanded, lastLogical, reports>>

\* An empty value deletes the key.
setMetadata(n, g) == metaHome # None /\ Retag([metadata EXCEPT ![metaHome, n, g.key] = g.value])
removeMetadata(n, key) == metaHome # None /\ Retag([metadata EXCEPT ![metaHome, n, key] = Untagged])

ClimateDongleInfo(h) ==
  /\ refresh.todo = {} /\ retags < MaxRetags
  /\ metaHome' = h /\ retags' = retags + 1
  /\ retagged' = IF h = metaHome THEN retagged ELSE Rooms
  /\ UNCHANGED <<metadata, perNode, knownGroups, lastSignature, setpointCounter, refresh,
                 commanded, lastLogical, reports>>

-----------------------------------------------------------------------------
(* Aggregation.                                                            *)

\* The common value of the members that reported one.
aggregateByte(members, field) ==
  LET values == {perNode[n][field] : n \in members} \ {None}
  IN  CASE values = {} -> None
        [] Cardinality(values) = 1 -> CHOOSE v \in values : TRUE
        [] OTHER -> MODE_MIXED

aggregateOperatingState(members) ==
  LET states == {perNode[n].operating : n \in members}
  IN  CASE "heating" \in states -> "heating"
        [] "cooling" \in states /\ "heating" \notin states -> "cooling"
        [] OTHER -> "idle"

\* The setpoint reported last; the order of the members does not matter, as
\* no two of them hold the same sequence number.
aggregateSetpoint(members) ==
  LET reported == {n \in members : perNode[n].setpoint # None}
  IN  IF reported = {} THEN None
      ELSE perNode[CHOOSE n \in reported : \A m \in reported : perNode[m].seq <= perNode[n].seq].setpoint

GroupState(g) ==
  LET members == nodesWith(g)
  IN  [members |-> Cardinality(members), mode |-> aggregateByte(members, "mode"),
       fanMode |-> aggregateByte(members, "fanMode"),
       operating |-> aggregateOperatingState(members), setpoint |-> aggregateSetpoint(members)]
NoState == [members |-> None, mode |-> None, fanMode |-> None, operating |-> "idle", setpoint |-> None]
NoSignature == [NoState EXCEPT !.operating = "none"]

\* An event equal to the last one of the group is not published.
Differs_Ignores(old, new) == [old EXCEPT !.setpoint = None] # [new EXCEPT !.setpoint = None]
Differs(old, new) == old # new
publishGroupState(g) ==
  IF Differs(lastSignature[g], GroupState(g))
  THEN /\ lastSignature' = [lastSignature EXCEPT ![g] = GroupState(g)]
       /\ lastLogical' = [lastLogical EXCEPT ![g] = GroupState(g)]
  ELSE UNCHANGED <<lastSignature, lastLogical>>

-----------------------------------------------------------------------------
(* Reports and commands.                                                   *)

Idle == [node |-> None, todo |-> {}, found |-> {}]

\* onModeReport and its three siblings store the reading, then refresh every
\* known group.
Report(n, reading, counter) ==
  /\ refresh.todo = {} /\ metaHome # None /\ reports < MaxReports
  /\ perNode' = [perNode EXCEPT ![n] = reading]
  /\ setpointCounter' = counter
  /\ refresh' = IF knownGroups = {} THEN Idle ELSE [node |-> n, todo |-> knownGroups, found |-> {}]
  /\ reports' = reports + 1
  /\ UNCHANGED <<metaHome, metadata, knownGroups, lastSignature, commanded, lastLogical,
                 retagged, retags>>
onModeReport(n, v) == Report(n, [perNode[n] EXCEPT !.mode = v], setpointCounter)
onFanModeReport(n, v) == Report(n, [perNode[n] EXCEPT !.fanMode = v], setpointCounter)
onOperatingStateReport(n, s) == Report(n, [perNode[n] EXCEPT !.operating = s], setpointCounter)
onSetpointReport(n, v) ==
  Report(n, [perNode[n] EXCEPT !.setpoint = v, !.seq = setpointCounter + 1], setpointCounter + 1)

\* One group at a time; any order is allowed.
Visited(g) == IF refresh.todo = {g} THEN Idle
              ELSE [refresh EXCEPT !.todo = @ \ {g}, !.found = {}]

\* First the members are looked up to see if the node is one of them ...
refreshSkips(g) ==
  /\ refresh.found = {} /\ refresh.node \notin nodesWith(g)
  /\ refresh' = Visited(g)
  /\ UNCHANGED <<lastSignature, lastLogical, retagged>>
refreshFinds(g) ==
  /\ refresh.found = {} /\ refresh.node \in nodesWith(g)
  /\ refresh' = [refresh EXCEPT !.found = {g}]
  /\ UNCHANGED <<lastSignature, lastLogical, retagged>>
\* ... then again to compute the group's state.
refreshPublishes(g) ==
  /\ refresh.found = {g}
  /\ publishGroupState(g)
  /\ refresh' = Visited(g)
  /\ retagged' = retagged \ {g}
refreshGroup(g) ==
  /\ g \in refresh.todo
  /\ refreshSkips(g) \/ refreshFinds(g) \/ refreshPublishes(g)
  /\ UNCHANGED <<metaHome, metadata, perNode, knownGroups, setpointCounter, commanded, retags,
                 reports>>

\* onModeCommand, onSetpointCommand: fanned out to the members that support
\* the class; the group is known from now on.
GroupCommand(g, class) ==
  /\ refresh.todo = {} /\ reports < MaxReports
  /\ knownGroups' = knownGroups \cup {g}
  /\ commanded' = {n \in nodesWith(g) : class \in Supports[n]}
  /\ reports' = reports + 1
  /\ UNCHANGED <<metaHome, metadata, perNode, lastSignature, setpointCounter, refresh,
                 lastLogical, retagged, retags>>

-----------------------------------------------------------------------------
NoReading == [mode |-> None, fanMode |-> None, operating |-> "none", setpoint |-> None, seq |-> 0]
ThermostatsInit ==
  /\ metaHome = None
  /\ metadata = [k \in ClimateNetworks \X Thermostat \X Keys |-> Untagged]
  /\ perNode = [n \in Thermostat |-> NoReading]
  /\ knownGroups = {} /\ setpointCounter = 0
  /\ lastSignature = [g \in Rooms |-> NoSignature]
  /\ lastLogical = [g \in Rooms |-> NoState]
  /\ refresh = Idle /\ commanded = {}
  /\ retagged = Rooms /\ retags = 0 /\ reports = 0

ThermostatsNext ==
  \/ \E n \in Thermostat, g \in Rooms : setMetadata(n, g)
  \/ \E n \in Thermostat, key \in Keys : removeMetadata(n, key)
  \/ \E h \in ClimateNetworks : ClimateDongleInfo(h)
  \/ \E n \in Thermostat, v \in Readings :
       onModeReport(n, v) \/ onFanModeReport(n, v) \/ onSetpointReport(n, v)
  \/ \E n \in Thermostat, s \in OperatingStates : onOperatingStateReport(n, s)
  \/ \E g \in Rooms : refreshGroup(g)
  \/ \E g \in Rooms, class \in {"ThermostatMode", "ThermostatSetpoint"} : GroupCommand(g, class)

-----------------------------------------------------------------------------
LatestSetpoint(members) ==
  LET last == Max({0} \cup {perNode[n].seq : n \in members})
  IN  {perNode[n].setpoint : n \in {m \in members : perNode[m].seq = last}}

\* What a client reads of a group it has addressed is the aggregate of what
\* the group's present members reported last (common mode or "mixed", any
\* activity, latest setpoint), from the first report of a member on.  Only
\* retagging, or another dongle, makes it old, until a member reports again
\* (ThermostatOrchestrator.cpp:185-236, DBusBackend.cpp:146-151): the two
\* member lookups of a refresh, the change detection and retagging between
\* them never leave an aggregate behind the readings.
GroupCacheCurrent ==
  refresh = Idle =>
    \A g \in knownGroups \ retagged :
      LET now == nodesWith(g)
          cached == lastLogical[g]
      IN  /\ cached.members = Cardinality(now)
          /\ \A field \in {"mode", "fanMode"} :
               LET told == {n \in now : perNode[n][field] # None}
               IN  IF cached[field] = MODE_MIXED
                   THEN \E n, m \in told : perNode[n][field] # perNode[m][field]
                   ELSE \A n \in told : perNode[n][field] = cached[field]
          /\ cached.operating = "idle"
               <=> \A n \in now : perNode[n].operating \notin {"heating", "cooling"}
          /\ cached.setpoint \in LatestSetpoint(now) \cup (IF now = {} THEN {None} ELSE {})
=============================================================================
