---------------------------- MODULE NodeRegistry ----------------------------
(* The node registry (node-registry/NodeRegistry.cpp): the in-memory map of   *)
(* the bound network, its rows in nodes.db, the retained NodeListChanged, and *)
(* the migration of the file at first use, with the scene store opening the   *)
(* same file from another thread and the daemon dying between any two steps.  *)
(*                                                                            *)
(* Every mutator runs under the registry's mutex, so it is one step; the      *)
(* event it returns is published after the unlock, a step of its own.  Only   *)
(* the protocol thread calls the mutators that publish.  A statement that     *)
(* SQLite accepts is committed; disk errors and busy timeouts are left out.   *)
EXTENDS NodesDb

CONSTANTS Homes, Nodes,
          Values,      \* of a device class, a CC list, a scheme, an identity
          Unset,       \* the value of a field before it is known
          None

\* What NodeListChanged shows of a node
Shown == [class : Values \cup {None}, ccs : Values \cup {None}]

ASSUME RegistryAssumption ==
    /\ Unset \in Values
    /\ None \notin Homes \cup Values
    /\ None \notin [Nodes -> Shown]

\* class: the device-class triple; scheme: security_scheme; facts: the
\* identity, version, endpoint and Z-Wave Plus columns of the interview
Row == [class : Values, ccs : Values, scheme : Values, facts : Values]
NoRow == [class |-> None, ccs |-> None, scheme |-> None, facts |-> None]
Table == [Nodes -> Row \cup {NoRow}]
Empty == [n \in Nodes |-> NoRow]

VARIABLES
    \* the file: user_version, the nodes table, the scene tables
    version, columns, rows, triggers, legacy,
    \* the registry: the state of its connection ("no" before first use), the
    \* statements its migration has left, State::currentHomeId, State::nodes
    opened, plan, currentHomeId, nodes,
    \* the event to publish, and the NodeListChanged the bus retains
    event, list,
    \* the scene store's connection and the statements it has left
    scenes, scenePlan

fileVars == <<version, columns, rows, triggers, legacy>>
registryVars == <<opened, plan, currentHomeId, nodes, event, list>>
sceneVars == <<scenes, scenePlan>>
vars == <<fileVars, registryVars, sceneVars>>

\* Files of the releases: none, one keyed by node id alone, versions 1 to 5;
\* scenes were first stored without the source column
Init ==
    /\ version \in 0 .. CURRENT_SCHEMA_VERSION
    /\ columns \in IF version = 0 THEN {{}, {"node_id"}} ELSE {ColumnsAt(version)}
    /\ rows \in [Homes -> Table]
    /\ columns = {} => rows = [h \in Homes |-> Empty]
    /\ \A h \in Homes, n \in Nodes : rows[h][n] # NoRow =>
          /\ version < 2 => rows[h][n].scheme = Unset
          /\ version < 4 => rows[h][n].facts = Unset
    /\ triggers \in {"none", "v0"} /\ legacy = FALSE
    /\ opened = "no" /\ plan = <<>> /\ currentHomeId = None /\ nodes = Empty
    /\ event = None /\ list = None
    /\ scenes = "no" /\ scenePlan = <<>>

\* initIfNeeded up to the migration, by whichever thread comes first
initIfNeeded ==
    /\ opened = "no"
    /\ plan' = migrateSchema(version)
    /\ opened' = IF plan' = <<>> THEN "valid" ELSE "migrating"
    /\ UNCHANGED <<fileVars, currentHomeId, nodes, event, list, sceneVars>>

\* One statement of migrateSchema; one that SQLite refuses closes the
\* connection, and the registry lives in memory only
MigrateStep ==
    /\ plan # <<>>
    /\ IF Accepts(columns, Head(plan))
       THEN /\ columns' = ColumnsAfter(columns, Head(plan))
            /\ rows' = IF Head(plan).op = "drop" THEN [h \in Homes |-> Empty] ELSE rows
            /\ version' = IF Head(plan).op = "stamp" THEN Head(plan).arg ELSE version
            /\ plan' = Tail(plan)
            /\ opened' = IF Len(plan) = 1 THEN "valid" ELSE opened
       ELSE /\ plan' = <<>> /\ opened' = "closed"
            /\ UNCHANGED <<version, columns, rows>>
    /\ UNCHANGED <<triggers, legacy, currentHomeId, nodes, event, list, sceneVars>>

\* SceneStore::instance(), which any thread may call first: CREATE scenes,
\* then the version is read
openScenes ==
    /\ scenes = "no"
    /\ scenePlan' = runSchema(version, triggers # "none")
    /\ scenes' = IF scenePlan' = <<>> THEN "valid" ELSE "migrating"
    /\ UNCHANGED <<fileVars, registryVars>>

SceneStep ==
    /\ scenePlan # <<>>
    /\ IF AcceptsScene(triggers, legacy, Head(scenePlan))
       THEN /\ triggers' = TriggersAfter(triggers, Head(scenePlan))
            /\ legacy' = LegacyAfter(legacy, Head(scenePlan))
            /\ version' = IF Head(scenePlan).op = "stamp" THEN Head(scenePlan).arg ELSE version
            /\ scenePlan' = Tail(scenePlan)
            /\ scenes' = IF Len(scenePlan) = 1 THEN "valid" ELSE scenes
       ELSE /\ scenePlan' = <<>> /\ scenes' = "closed"
            /\ UNCHANGED <<triggers, legacy, version>>
    /\ UNCHANGED <<columns, rows, registryVars>>
-----------------------------------------------------------------------------
Ready == opened \in {"valid", "closed"}

\* SQLite prepares a statement that names only columns the table has
Selectable == opened = "valid" /\ Complete \subseteq columns
Writable == opened = "valid" /\ "home_id" \in columns

\* What NodeListChanged shows of the map
snapshotEvent(map) == [n \in Nodes |-> [class |-> map[n].class, ccs |-> map[n].ccs]]

setHomeId(h) ==
    /\ Ready /\ event = None
    /\ currentHomeId # h
    /\ currentHomeId' = h
    /\ nodes' = IF Selectable THEN rows[h] ELSE Empty
    /\ event' = snapshotEvent(nodes')
    /\ UNCHANGED <<fileVars, opened, plan, list, sceneVars>>

\* Mutant of persistAdd: INSERT OR IGNORE
persistAdd_Ignore(h, n, info) ==
    rows' = IF Writable /\ rows[h][n] = NoRow
            THEN [rows EXCEPT ![h][n] = [class |-> info.class, ccs |-> info.ccs,
                                         scheme |-> Unset, facts |-> Unset]]
            ELSE rows

\* UPSERT_SQL: a new row has the defaults in the columns it does not name, an
\* existing one keeps them
persistAdd(h, n, info) ==
    rows' = IF Writable
            THEN [rows EXCEPT ![h][n] =
                    [class |-> info.class, ccs |-> info.ccs,
                     scheme |-> IF rows[h][n] = NoRow THEN Unset ELSE rows[h][n].scheme,
                     facts |-> IF rows[h][n] = NoRow THEN Unset ELSE rows[h][n].facts]]
            ELSE rows

\* Mutant of persistRemove: DELETE without the home_id condition
persistRemove_AnyHome(h, n) ==
    rows' = IF Writable THEN [k \in Homes |-> [rows[k] EXCEPT ![n] = NoRow]] ELSE rows

persistRemove(h, n) ==
    rows' = IF Writable THEN [rows EXCEPT ![h][n] = NoRow] ELSE rows

\* The UPDATE of one field: no effect where the row is missing
persistField(h, n, row) ==
    rows' = IF Writable /\ rows[h][n] # NoRow THEN [rows EXCEPT ![h][n] = row] ELSE rows

\* withBoundHome around a mutator that changed State::nodes
withBoundHome ==
    /\ Ready /\ event = None /\ currentHomeId # None
    /\ event' = snapshotEvent(nodes')
    /\ UNCHANGED <<version, columns, triggers, legacy, opened, plan, currentHomeId, list, sceneVars>>

\* add of a NodeInfo built from an AddNode callback: class and CC list only
add(n, class, ccs) ==
    /\ nodes' = [nodes EXCEPT ![n] = [class |-> class, ccs |-> ccs,
                                      scheme |-> Unset, facts |-> Unset]]
    /\ withBoundHome
    /\ persistAdd(currentHomeId, n, nodes'[n])

remove(n) ==
    /\ nodes' = [nodes EXCEPT ![n] = NoRow]
    /\ withBoundHome
    /\ persistRemove(currentHomeId, n)

seed(n) ==
    /\ nodes[n] = NoRow
    /\ add(n, Unset, Unset)

updateDeviceClass(n, class) ==
    /\ nodes[n] # NoRow
    /\ nodes' = [nodes EXCEPT ![n] = [class |-> class, ccs |-> nodes[n].ccs,
                                      scheme |-> nodes[n].scheme, facts |-> nodes[n].facts]]
    /\ withBoundHome
    /\ persistAdd(currentHomeId, n, nodes'[n])

\* Mutant of updateCommandClasses: the change is not published
updateCommandClasses_Quiet(n, ccs) ==
    /\ Ready /\ event = None /\ currentHomeId # None
    /\ nodes[n] # NoRow
    /\ nodes' = [nodes EXCEPT ![n] = [class |-> nodes[n].class, ccs |-> ccs,
                                      scheme |-> nodes[n].scheme, facts |-> nodes[n].facts]]
    /\ persistAdd(currentHomeId, n, nodes'[n])
    /\ UNCHANGED <<version, columns, triggers, legacy, opened, plan, currentHomeId, event, list, sceneVars>>

updateCommandClasses(n, ccs) ==
    /\ nodes[n] # NoRow
    /\ nodes' = [nodes EXCEPT ![n] = [class |-> nodes[n].class, ccs |-> ccs,
                                      scheme |-> nodes[n].scheme, facts |-> nodes[n].facts]]
    /\ withBoundHome
    /\ persistAdd(currentHomeId, n, nodes'[n])

\* The setters that publish nothing, on any thread
setSecurityScheme(n, scheme) ==
    /\ Ready /\ nodes[n] # NoRow
    /\ nodes' = [nodes EXCEPT ![n] = [class |-> nodes[n].class, ccs |-> nodes[n].ccs,
                                      scheme |-> scheme, facts |-> nodes[n].facts]]
    /\ persistField(currentHomeId, n,
                    [class |-> rows[currentHomeId][n].class, ccs |-> rows[currentHomeId][n].ccs,
                     scheme |-> scheme, facts |-> rows[currentHomeId][n].facts])
    /\ UNCHANGED <<version, columns, triggers, legacy, opened, plan, currentHomeId, event, list, sceneVars>>

setDeviceIdentity(n, facts) ==
    /\ Ready /\ nodes[n] # NoRow
    /\ nodes' = [nodes EXCEPT ![n] = [class |-> nodes[n].class, ccs |-> nodes[n].ccs,
                                      scheme |-> nodes[n].scheme, facts |-> facts]]
    /\ persistField(currentHomeId, n,
                    [class |-> rows[currentHomeId][n].class, ccs |-> rows[currentHomeId][n].ccs,
                     scheme |-> rows[currentHomeId][n].scheme, facts |-> facts])
    /\ UNCHANGED <<version, columns, triggers, legacy, opened, plan, currentHomeId, event, list, sceneVars>>

Publish ==
    /\ event # None
    /\ list' = event /\ event' = None
    /\ UNCHANGED <<fileVars, opened, plan, currentHomeId, nodes, sceneVars>>

\* The daemon dies and is started again: the file stays as it is
Restart ==
    /\ opened' = "no" /\ plan' = <<>> /\ currentHomeId' = None /\ nodes' = Empty
    /\ event' = None /\ list' = None
    /\ scenes' = "no" /\ scenePlan' = <<>>
    /\ UNCHANGED fileVars

Next ==
    \/ initIfNeeded \/ MigrateStep \/ openScenes \/ SceneStep \/ Publish \/ Restart
    \/ \E h \in Homes : setHomeId(h)
    \/ \E n \in Nodes :
          \/ remove(n) \/ seed(n)
          \/ \E v \in Values :
                \/ updateDeviceClass(n, v) \/ updateCommandClasses(n, v)
                \/ setSecurityScheme(n, v) \/ setDeviceIdentity(n, v)
                \/ \E w \in Values : add(n, v, w)

Spec == Init /\ [][Next]_vars
-----------------------------------------------------------------------------
\* Types, and that a store runs statements exactly while it is migrating
TypeOK ==
    /\ version \in 0 .. CURRENT_SCHEMA_VERSION /\ columns \subseteq Columns
    /\ rows \in [Homes -> Table]
    /\ triggers \in {"none", "v0", "v1"} /\ legacy \in BOOLEAN
    /\ opened \in {"no", "migrating", "valid", "closed"}
    /\ scenes \in {"no", "migrating", "valid", "closed"}
    /\ (plan # <<>> <=> opened = "migrating")
    /\ (scenePlan # <<>> <=> scenes = "migrating")
    /\ currentHomeId \in Homes \cup {None} /\ nodes \in Table
    /\ currentHomeId = None => nodes = Empty

\* What the registry knows of a node of the bound network is on disk, so that
\* a restart loads it again ("the included-node list survives daemon
\* restarts").  Only fields that add() reset in memory may still be set on
\* disk, where the UPSERT leaves them alone.
KnownIsStored ==
    Writable /\ currentHomeId # None =>
        \A n \in Nodes :
            LET known == nodes[n]
                stored == rows[currentHomeId][n]
            IN /\ known.class = stored.class /\ known.ccs = stored.ccs
               /\ known.scheme # stored.scheme => known.scheme = Unset
               /\ known.facts # stored.facts => known.facts = Unset

\* Once the event of the last mutation is published, the retained
\* NodeListChanged is the registry's content: no mutator forgets to publish
\* and nothing else changes what the event shows
ListIsRegistry ==
    event = None /\ currentHomeId # None => list = snapshotEvent(nodes)

\* Whatever stores open the file, in whatever order and however often the
\* daemon dies during a migration: a file stamped with the current version
\* has all the columns, unless its table was never keyed by home
VersionMeansColumns ==
    version = CURRENT_SCHEMA_VERSION /\ "home_id" \in columns => Complete \subseteq columns

\* A row goes only when its node is removed from the bound network or when a
\* file of version 0 is recreated: changing dongles, migrating and dying keep
\* the rows of every network
RowsKept ==
    [][\A h \in Homes, n \in Nodes :
          rows[h][n] # NoRow /\ rows'[h][n] = NoRow =>
              \/ currentHomeId = h /\ nodes'[n] = NoRow /\ opened = "valid"
              \/ opened = "migrating" /\ plan[1].op = "drop"]_vars

\* SceneStore.cpp, runSchema: "Already migrated - the v1 scene_triggers table
\* is present", said of a file whose user_version is at least 1
ScenesReady == scenes = "valid" => triggers = "v1"
=============================================================================
