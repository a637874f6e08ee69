------------------------------ MODULE NodesDb -------------------------------
(* The schema of nodes.db, the SQLite file that the node registry and the     *)
(* scene store open on connections of their own.  Each store brings the file  *)
(* up to date by statements that commit one by one, and each decides which    *)
(* ones to run from PRAGMA user_version, of which the file has only one.      *)
(*                                                                            *)
(* Of the columns added by one call of exec, three for the device identity    *)
(* and thirteen for the capabilities, the first and the last are kept.        *)
EXTENDS Integers, Sequences

CURRENT_SCHEMA_VERSION == 5    \* NodeRegistry
SCHEMA_VERSION == 1            \* SceneStore

\* Columns of the nodes table; a pre-v1 table has no home_id
Columns == {"home_id", "node_id", "secure", "security_scheme",
            "manufacturer_id", "product_id", "library_type", "user_icon_type"}
Complete == Columns \ {"secure"}

\* The nodes table at each version as released, without one before the first
ColumnsAt(version) ==
    CASE version = 1 -> {"home_id", "node_id"}
      [] version = 2 -> {"home_id", "node_id", "secure"}
      [] version = 3 -> {"home_id", "node_id", "security_scheme"}
      [] version = 4 -> Complete \ {"library_type", "user_icon_type"}
      [] OTHER -> Complete

Stmt(op, arg) == [op |-> op, arg |-> arg]
AddColumn(c) == Stmt("add", c)
Stamp(v) == Stmt("stamp", v)

MIGRATE_V3_ADD_IDENTITY == <<AddColumn("manufacturer_id"), AddColumn("product_id")>>
MIGRATE_V4_ADD_CAPS == <<AddColumn("library_type"), AddColumn("user_icon_type")>>

\* Mutant of migrateSchema: stamps the version before the columns are there
migrateSchema_StampFirst(version) ==
    IF version >= CURRENT_SCHEMA_VERSION THEN <<>>
    ELSE IF version = 0
         THEN <<Stamp(CURRENT_SCHEMA_VERSION), Stmt("drop", 0), Stmt("create", 0)>>
         ELSE <<Stamp(CURRENT_SCHEMA_VERSION)>>
              \o (IF version = 1 THEN <<AddColumn("security_scheme")>> ELSE <<>>)
              \o (IF version = 2 THEN <<Stmt("rename", 0)>> ELSE <<>>)
              \o (IF version <= 3 THEN MIGRATE_V3_ADD_IDENTITY ELSE <<>>)
              \o MIGRATE_V4_ADD_CAPS

\* The statements NodeRegistry's migrateSchema runs on a file of this version
migrateSchema(version) ==
    IF version >= CURRENT_SCHEMA_VERSION THEN <<>>
    ELSE IF version = 0
         THEN <<Stmt("drop", 0), Stmt("create", 0), Stamp(CURRENT_SCHEMA_VERSION)>>
         ELSE (IF version = 1 THEN <<AddColumn("security_scheme")>> ELSE <<>>)
              \o (IF version = 2 THEN <<Stmt("rename", 0)>> ELSE <<>>)
              \o (IF version <= 3 THEN MIGRATE_V3_ADD_IDENTITY ELSE <<>>)
              \o MIGRATE_V4_ADD_CAPS
              \o <<Stamp(CURRENT_SCHEMA_VERSION)>>

\* Whether SQLite accepts a statement on a nodes table with these columns,
\* and the columns afterwards; {} is the missing table
Accepts(columns, s) ==
    /\ s.op = "add" => columns # {} /\ s.arg \notin columns
    /\ s.op = "rename" => "secure" \in columns /\ "security_scheme" \notin columns

ColumnsAfter(columns, s) ==
    IF s.op = "drop" THEN {}
    ELSE IF s.op = "create" THEN IF columns = {} THEN Complete ELSE columns
    ELSE IF s.op = "add" THEN columns \cup {s.arg}
    ELSE IF s.op = "rename" THEN (columns \ {"secure"}) \cup {"security_scheme"}
    ELSE columns

\* The statements SceneStore's runSchema runs after CREATE scenes, given the
\* version and whether a scene_triggers table is there
runSchema(version, exists) ==
    IF version >= SCHEMA_VERSION THEN <<>>
    ELSE (IF exists
          THEN <<Stmt("renameTriggers", 0), Stmt("createTriggers", 0),
                 Stmt("copyTriggers", 0), Stmt("dropLegacy", 0)>>
          ELSE <<Stmt("createTriggers", 0)>>)
         \o <<Stamp(SCHEMA_VERSION)>>

\* triggers: the scene_triggers table is absent ("none"), without ("v0") or
\* with ("v1") the source column; legacy: is scene_triggers_legacy there
AcceptsScene(triggers, legacy, s) ==
    /\ s.op = "renameTriggers" => triggers # "none" /\ ~legacy
    /\ s.op = "copyTriggers" => triggers = "v1" /\ legacy
    /\ s.op = "dropLegacy" => legacy

TriggersAfter(triggers, s) ==
    IF s.op = "renameTriggers" THEN "none"
    ELSE IF s.op = "createTriggers" /\ triggers = "none" THEN "v1"
    ELSE triggers

LegacyAfter(legacy, s) ==
    IF s.op = "renameTriggers" THEN TRUE
    ELSE IF s.op = "dropLegacy" THEN FALSE
    ELSE legacy
=============================================================================
