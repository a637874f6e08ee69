------------------------- MODULE NodeRegistryProofs -------------------------
(* Proofs about module NodeRegistry for any sets of networks, nodes and       *)
(* values.  A migration is followed through what its remaining statements     *)
(* still bring: GainsOf(plan).                                                *)
EXTENDS NodeRegistry, SequenceTheorems, TLAPS

\* The statements of an upgrade other than the stamp, and the plans of one
Steps == {AddColumn(c) : c \in Columns \ {"home_id"}} \cup {Stmt("rename", 0)}
UpgradeStmts == Steps \cup {Stamp(CURRENT_SCHEMA_VERSION)}

Gives(s, c) == (s.op = "add" /\ s.arg = c) \/ (s.op = "rename" /\ c = "security_scheme")
GainsOf(p) == {c \in Columns : \E i \in 1 .. Len(p) : Gives(p[i], c)}

StampLast(p) == \A i \in 1 .. Len(p) : p[i].op = "stamp" => i = Len(p)

\* The columns that a file of a version still lacks
Missing(v) ==
    (IF v = 1 \/ v = 2 THEN {"security_scheme"} ELSE {})
    \cup (IF v <= 3 THEN {"manufacturer_id", "product_id"} ELSE {})
    \cup (IF v <= 4 THEN {"library_type", "user_icon_type"} ELSE {})

\* A concatenation begins with its first part
LEMMA ConcatHead ==
    ASSUME NEW S, NEW p \in Seq(S), NEW q \in Seq(S)
    PROVE  /\ p \o q \in Seq(S)
           /\ Len(p \o q) = Len(p) + Len(q)
           /\ \A i \in 1 .. Len(p) : (p \o q)[i] = p[i]
BY ConcatProperties

\* The columns two parts of a plan bring are those of the whole
LEMMA GainsConcat ==
    ASSUME NEW S, NEW p \in Seq(S), NEW q \in Seq(S)
    PROVE  GainsOf(p \o q) = GainsOf(p) \cup GainsOf(q)
<1>1. p \o q \in Seq(S) /\ Len(p \o q) = Len(p) + Len(q)
  BY ConcatProperties
<1>2. \A i \in 1 .. Len(p) : (p \o q)[i] = p[i]
  BY ConcatProperties
<1>3. \A i \in 1 .. Len(q) : (p \o q)[Len(p) + i] = q[i]
  BY ConcatProperties, LenProperties
<1>4. Len(p) \in Nat /\ Len(q) \in Nat
  BY LenProperties
<1>5. ASSUME NEW c, c \in GainsOf(p \o q) PROVE c \in GainsOf(p) \cup GainsOf(q)
  <2>1. PICK i \in 1 .. Len(p) + Len(q) : Gives((p \o q)[i], c)
    BY <1>5, <1>1 DEF GainsOf
  <2>2. c \in Columns
    BY <1>5 DEF GainsOf
  <2>3. CASE i <= Len(p)
    BY <2>1, <2>2, <2>3, <1>2, <1>4 DEF GainsOf
  <2>4. CASE i > Len(p)
    <3>1. i - Len(p) \in 1 .. Len(q) /\ Len(p) + (i - Len(p)) = i
      BY <2>4, <1>4
    <3>2. (p \o q)[i] = q[i - Len(p)]
      BY <3>1, <1>3
    <3> QED BY <3>1, <3>2, <2>1, <2>2 DEF GainsOf
  <2> QED BY <2>3, <2>4, <1>4
<1>6. ASSUME NEW c, c \in GainsOf(p) \cup GainsOf(q) PROVE c \in GainsOf(p \o q)
  <2>1. c \in Columns
    BY <1>6 DEF GainsOf
  <2>2. CASE c \in GainsOf(p)
    <3>1. PICK i \in 1 .. Len(p) : Gives(p[i], c)
      BY <2>2 DEF GainsOf
    <3>2. i \in 1 .. Len(p \o q) /\ (p \o q)[i] = p[i]
      BY <1>1, <1>2, <1>4
    <3> QED BY <2>1, <3>1, <3>2 DEF GainsOf
  <2>3. CASE c \in GainsOf(q)
    <3>1. PICK i \in 1 .. Len(q) : Gives(q[i], c)
      BY <2>3 DEF GainsOf
    <3>2. Len(p) + i \in 1 .. Len(p \o q) /\ (p \o q)[Len(p) + i] = q[i]
      BY <1>1, <1>3, <1>4
    <3> QED BY <2>1, <3>1, <3>2 DEF GainsOf
  <2> QED BY <1>6, <2>2, <2>3
<1> QED BY <1>5, <1>6

\* The plan of an upgrade: steps, then the stamp; it brings what is missing
LEMMA UpgradePlan ==
    ASSUME NEW v \in 1 .. 4
    PROVE  /\ migrateSchema(v) \in Seq(UpgradeStmts)
           /\ Missing(v) \subseteq GainsOf(migrateSchema(v))
           /\ StampLast(migrateSchema(v))
           /\ migrateSchema(v) # <<>>
<1> DEFINE a == IF v = 1 THEN <<AddColumn("security_scheme")>> ELSE <<>>
           b == IF v = 2 THEN <<Stmt("rename", 0)>> ELSE <<>>
           c == IF v <= 3 THEN MIGRATE_V3_ADD_IDENTITY ELSE <<>>
           d == MIGRATE_V4_ADD_CAPS
           e == <<Stamp(CURRENT_SCHEMA_VERSION)>>
           body == ((a \o b) \o c) \o d
<1>0. ~(v >= CURRENT_SCHEMA_VERSION) /\ v # 0
  BY DEF CURRENT_SCHEMA_VERSION
<1>1. migrateSchema(v) = body \o e
  BY <1>0, Zenon DEF migrateSchema
<1>2. a \in Seq(Steps) /\ b \in Seq(Steps) /\ c \in Seq(Steps) /\ d \in Seq(Steps)
  <2>1. AddColumn("security_scheme") \in Steps /\ AddColumn("manufacturer_id") \in Steps
        /\ AddColumn("product_id") \in Steps /\ AddColumn("library_type") \in Steps
        /\ AddColumn("user_icon_type") \in Steps /\ Stmt("rename", 0) \in Steps
    BY DEF Steps, Columns
  <2> QED BY <2>1 DEF MIGRATE_V3_ADD_IDENTITY, MIGRATE_V4_ADD_CAPS
<1>3. /\ v = 1 => "security_scheme" \in GainsOf(a)
      /\ v = 2 => "security_scheme" \in GainsOf(b)
      /\ v <= 3 => {"manufacturer_id", "product_id"} \subseteq GainsOf(c)
      /\ {"library_type", "user_icon_type"} \subseteq GainsOf(d)
  <2>1. ASSUME NEW s, NEW col \in Columns, s.op = "add", s.arg = col, NEW t
        PROVE  col \in GainsOf(<<s>>) /\ col \in GainsOf(<<s, t>>) /\ col \in GainsOf(<<t, s>>)
    BY <2>1 DEF GainsOf, Gives
  <2>2. "security_scheme" \in GainsOf(<<Stmt("rename", 0)>>)
    BY DEF GainsOf, Gives, Stmt, Columns
  <2>3. "security_scheme" \in GainsOf(<<AddColumn("security_scheme")>>)
    BY DEF GainsOf, Gives, AddColumn, Stmt, Columns
  <2>4. {"manufacturer_id", "product_id"} \subseteq GainsOf(MIGRATE_V3_ADD_IDENTITY)
    BY <2>1, Zenon DEF MIGRATE_V3_ADD_IDENTITY, AddColumn, Stmt, Columns
  <2>5. {"library_type", "user_icon_type"} \subseteq GainsOf(MIGRATE_V4_ADD_CAPS)
    BY <2>1, Zenon DEF MIGRATE_V4_ADD_CAPS, AddColumn, Stmt, Columns
  <2> QED BY <2>2, <2>3, <2>4, <2>5
<1>4. e \in Seq(UpgradeStmts) /\ Len(e) = 1 /\ e[1] = Stamp(CURRENT_SCHEMA_VERSION)
  BY DEF UpgradeStmts
<1> HIDE DEF a, b, c, d, e
<1>5. a \o b \in Seq(Steps) /\ (a \o b) \o c \in Seq(Steps) /\ body \in Seq(Steps)
  BY <1>2, ConcatProperties
<1>6. GainsOf(body) = GainsOf(a) \cup GainsOf(b) \cup GainsOf(c) \cup GainsOf(d)
  <2> DEFINE ab == a \o b
             abc == ab \o c
  <2>0. \A p, q \in Seq(Steps) : GainsOf(p \o q) = GainsOf(p) \cup GainsOf(q)
    BY GainsConcat, Zenon
  <2>1. ab \in Seq(Steps) /\ abc \in Seq(Steps) /\ body = abc \o d
    BY <1>5
  <2>2. GainsOf(ab) = GainsOf(a) \cup GainsOf(b)
    BY <1>2, <2>0
  <2> HIDE DEF ab, body
  <2>3. GainsOf(abc) = GainsOf(ab) \cup GainsOf(c)
    BY <1>2, <2>0, <2>1
  <2> HIDE DEF abc
  <2>4. GainsOf(abc \o d) = GainsOf(abc) \cup GainsOf(d)
    BY <1>2, <2>0, <2>1
  <2> QED BY <2>1, <2>2, <2>3, <2>4
<1> HIDE DEF body
<1>7. body \in Seq(UpgradeStmts)
  BY <1>5 DEF UpgradeStmts
<1>8. GainsOf(body \o e) = GainsOf(body) \cup GainsOf(e)
  <2>1. \A p, q \in Seq(UpgradeStmts) : GainsOf(p \o q) = GainsOf(p) \cup GainsOf(q)
    BY GainsConcat, Zenon
  <2> QED BY <2>1, <1>4, <1>7
<1>9. Missing(v) \subseteq GainsOf(body)
  BY <1>3, <1>6 DEF Missing
<1>10. /\ body \o e \in Seq(UpgradeStmts) /\ Len(body \o e) = Len(body) + 1
       /\ \A i \in 1 .. Len(body) : (body \o e)[i] = body[i]
  <2>1. /\ body \o e \in Seq(UpgradeStmts) /\ Len(body \o e) = Len(body) + Len(e)
        /\ \A i \in 1 .. Len(body) : (body \o e)[i] = body[i]
    BY <1>4, <1>7, ConcatHead, Zenon
  <2> QED BY <2>1, <1>4
<1>11. Len(body) \in Nat /\ \A i \in 1 .. Len(body) : body[i] \in Steps
  BY <1>5, LenProperties, ElementOfSeq
<1>12. \A s \in Steps : s.op # "stamp"
  BY DEF Steps, AddColumn, Stmt
<1>13. body \o e # <<>>
  BY <1>10, <1>11
<1>14. StampLast(body \o e)
  BY <1>10, <1>11, <1>12 DEF StampLast
<1> QED BY <1>1, <1>8, <1>9, <1>10, <1>13, <1>14
-----------------------------------------------------------------------------
\* The table has all its columns, or was never keyed by home
Settled == "home_id" \in columns => Complete \subseteq columns

SceneStmts == {Stmt(op, 0) : op \in {"renameTriggers", "createTriggers", "copyTriggers", "dropLegacy"}}
              \cup {Stamp(SCHEMA_VERSION)}

\* What is left of the migration: the recreation of a version-0 file, or an
\* upgrade that brings every column the table lacks and then stamps it
PlanOK ==
    \/ plan = <<Stmt("drop", 0), Stmt("create", 0), Stamp(CURRENT_SCHEMA_VERSION)>>
    \/ plan = <<Stmt("create", 0), Stamp(CURRENT_SCHEMA_VERSION)>> /\ columns = {}
    \/ /\ plan \in Seq(UpgradeStmts)
       /\ "home_id" \in columns => Complete \subseteq columns \cup GainsOf(plan)
       /\ StampLast(plan)

FileType ==
    /\ version \in 0 .. 5 /\ columns \subseteq Columns
    /\ triggers \in {"none", "v0", "v1"} /\ legacy \in BOOLEAN
    /\ opened \in {"no", "migrating", "valid", "closed"}
    /\ scenes \in {"no", "migrating", "valid", "closed"}
    /\ (plan # <<>> <=> opened = "migrating")
    /\ (scenePlan # <<>> <=> scenes = "migrating")
    /\ scenePlan \in Seq(SceneStmts)

\* The inductive invariant on the file and the two migrations.  The scene
\* store's stamp of 1 can overwrite any version, so it must only be pending
\* while the table needs no upgrade.
FileInv ==
    /\ FileType
    /\ version >= 1 /\ "home_id" \in columns => Complete \subseteq columns \cup Missing(version)
    /\ version = 0 => Settled
    /\ opened = "migrating" => PlanOK
    /\ opened = "valid" => Settled
    /\ scenePlan # <<>> => Settled

fileState == <<version, columns, triggers, legacy, opened, plan, scenes, scenePlan>>

\* Every released file satisfies it
LEMMA FileInit == Init => FileInv
<1> SUFFICES ASSUME Init PROVE FileInv
  OBVIOUS
<1>1. version \in 0 .. 5 /\ columns \subseteq Columns
  <2>1. version \in 0 .. 5
    BY DEF Init, CURRENT_SCHEMA_VERSION
  <2>2. \A k : ColumnsAt(k) \subseteq Columns
    BY DEF ColumnsAt, Complete, Columns
  <2> QED BY <2>1, <2>2 DEF Init, Columns
<1>2. version >= 1 /\ "home_id" \in columns => Complete \subseteq columns \cup Missing(version)
  <2>1. ASSUME version >= 1 PROVE columns = ColumnsAt(version) /\ version \in {1, 2, 3, 4, 5}
    BY <1>1, <2>1 DEF Init
  <2>2. \A k \in {1, 2, 3, 4, 5} : Complete \subseteq ColumnsAt(k) \cup Missing(k)
    BY DEF ColumnsAt, Missing, Complete, Columns
  <2> QED BY <2>1, <2>2
<1>3. version = 0 => Settled
  BY DEF Init, Settled
<1>4. FileType
  <2>1. scenePlan \in Seq(SceneStmts)
    BY EmptySeq DEF Init
  <2> QED BY <1>1, <2>1, Zenon DEF Init, FileType
<1>5. opened # "migrating" /\ opened # "valid" /\ scenePlan = <<>>
  BY DEF Init
<1> QED BY <1>2, <1>3, <1>4, <1>5 DEF FileInv

\* A statement that SQLite accepts keeps a settled table settled
LEMMA StaysSettled ==
    ASSUME Settled, NEW s, s \in UpgradeStmts \/ s.op \in {"drop", "create", "stamp"}
    PROVE  "home_id" \in ColumnsAfter(columns, s) => Complete \subseteq ColumnsAfter(columns, s)
<1>1. CASE s \in UpgradeStmts
  <2>1. CASE s \in {AddColumn(c) : c \in Columns \ {"home_id"}}
    <3>1. PICK c \in Columns \ {"home_id"} : s = AddColumn(c)
      BY <2>1
    <3>2. ColumnsAfter(columns, s) = columns \cup {c}
      BY <3>1 DEF ColumnsAfter, AddColumn, Stmt
    <3> QED BY <3>1, <3>2 DEF Settled
  <2>2. CASE s = Stmt("rename", 0)
    <3>1. ColumnsAfter(columns, s) = (columns \ {"secure"}) \cup {"security_scheme"}
      BY <2>2 DEF ColumnsAfter, Stmt
    <3> QED BY <3>1 DEF Settled, Complete
  <2>3. CASE s = Stamp(CURRENT_SCHEMA_VERSION)
    BY <2>3 DEF ColumnsAfter, Stamp, Stmt, Settled
  <2> QED BY <1>1, <2>1, <2>2, <2>3 DEF UpgradeStmts, Steps
<1>2. CASE s.op \in {"drop", "create", "stamp"}
  BY <1>2 DEF ColumnsAfter, Settled
<1> QED BY <1>1, <1>2

\* initIfNeeded computes a plan that fits the file
LEMMA Opens == FileInv /\ initIfNeeded => FileInv'
<1> SUFFICES ASSUME FileInv, initIfNeeded PROVE FileInv'
  OBVIOUS
<1> USE DEF FileInv, FileType, initIfNeeded, fileVars, sceneVars, Settled
<1>1. CASE version = 0
  <2>1. plan' = <<Stmt("drop", 0), Stmt("create", 0), Stamp(CURRENT_SCHEMA_VERSION)>>
    BY <1>1 DEF migrateSchema, CURRENT_SCHEMA_VERSION
  <2> QED BY <1>1, <2>1 DEF PlanOK
<1>2. CASE version \in 1 .. 4
  <2>1. /\ plan' \in Seq(UpgradeStmts) /\ Missing(version) \subseteq GainsOf(plan') /\ plan' # <<>>
        /\ StampLast(plan')
    BY <1>2, UpgradePlan
  <2>2. PlanOK'
    BY <1>2, <2>1 DEF PlanOK
  <2> QED BY <1>2, <2>1, <2>2
<1>3. CASE version = 5
  <2>1. plan' = <<>>
    BY <1>3 DEF migrateSchema, CURRENT_SCHEMA_VERSION
  <2>2. Missing(version) = {}
    BY <1>3 DEF Missing
  <2> QED BY <1>3, <2>1, <2>2
<1>4. version = 0 \/ version \in 1 .. 4 \/ version = 5
  OBVIOUS
<1> QED BY <1>1, <1>2, <1>3, <1>4

\* What a plan brings is brought by its first statement or by the others
LEMMA GainsTail ==
    ASSUME NEW S, NEW p \in Seq(S), p # <<>>
    PROVE  /\ Head(p) \in S /\ Head(p) = p[1] /\ Tail(p) \in Seq(S)
           /\ Len(p) \in Nat \ {0} /\ Len(Tail(p)) = Len(p) - 1
           /\ \A i \in 1 .. Len(Tail(p)) : Tail(p)[i] = p[i + 1]
           /\ \A c \in GainsOf(p) : Gives(Head(p), c) \/ c \in GainsOf(Tail(p))
<1>1. /\ Head(p) \in S /\ Head(p) = p[1] /\ Tail(p) \in Seq(S)
      /\ Len(p) \in Nat \ {0} /\ Len(Tail(p)) = Len(p) - 1
      /\ \A i \in 1 .. Len(Tail(p)) : Tail(p)[i] = p[i + 1]
  BY HeadTailProperties, LenProperties, EmptySeq
<1>2. ASSUME NEW c \in GainsOf(p) PROVE Gives(Head(p), c) \/ c \in GainsOf(Tail(p))
  <2>1. PICK i \in 1 .. Len(p) : Gives(p[i], c)
    BY DEF GainsOf
  <2>2. CASE i = 1
    BY <1>1, <2>1, <2>2
  <2>3. CASE i > 1
    <3>1. i - 1 \in 1 .. Len(Tail(p)) /\ Tail(p)[i - 1] = p[i]
      BY <1>1, <2>3
    <3> QED BY <2>1, <3>1, SMTT(30) DEF GainsOf
  <2> QED BY <2>2, <2>3
<1> QED BY <1>1, <1>2

\* The rest of a plan that ends in the stamp
LEMMA StampLastTail ==
    ASSUME NEW S, NEW p \in Seq(S), p # <<>>, StampLast(p)
    PROVE  /\ (Len(p) = 1 <=> Tail(p) = <<>>)
           /\ Head(p).op = "stamp" => Len(p) = 1
           /\ StampLast(Tail(p)) /\ GainsOf(<<>>) = {}
<1>1. /\ Head(p) = p[1] /\ Tail(p) \in Seq(S)
      /\ Len(p) \in Nat \ {0} /\ Len(Tail(p)) = Len(p) - 1
      /\ \A i \in 1 .. Len(Tail(p)) : Tail(p)[i] = p[i + 1]
  BY GainsTail
<1> DEFINE t == Tail(p)
           h == Head(p)
<1>2. t \in Seq(S) /\ h = p[1] /\ Len(t) = Len(p) - 1 /\ \A i \in 1 .. Len(t) : t[i] = p[i + 1]
  BY <1>1
<1> HIDE DEF t, h
<1>3. Len(p) = 1 <=> t = <<>>
  <2>1. Len(t) = 0 <=> t = <<>>
    BY <1>2, EmptySeq
  <2> QED BY <1>1, <1>2, <2>1
<1>4. h.op = "stamp" => Len(p) = 1
  <2>1. 1 \in 1 .. Len(p)
    BY <1>1
  <2> QED BY <1>2, <2>1 DEF StampLast
<1>5. StampLast(t)
  <2> SUFFICES ASSUME NEW i \in 1 .. Len(t), t[i].op = "stamp" PROVE i = Len(t)
    BY DEF StampLast
  <2>1. i + 1 \in 1 .. Len(p) /\ t[i] = p[i + 1]
    BY <1>1, <1>2
  <2>2. i + 1 = Len(p)
    BY <2>1 DEF StampLast
  <2> QED BY <2>2, <1>1, <1>2
<1>6. GainsOf(<<>>) = {}
  BY DEF GainsOf
<1> QED BY <1>3, <1>4, <1>5, <1>6 DEF t, h

\* Each statement of a migration keeps the plan fitting the file
LEMMA Migrates == FileInv /\ MigrateStep => FileInv'
<1> SUFFICES ASSUME FileInv, MigrateStep PROVE FileInv'
  OBVIOUS
<1> USE DEF FileInv, FileType, sceneVars
<1>0. opened = "migrating" /\ PlanOK /\ plan # <<>>
  BY DEF MigrateStep
<1>1. CASE ~Accepts(columns, Head(plan))
  <2>1. /\ plan' = <<>> /\ opened' = "closed"
        /\ UNCHANGED <<version, columns, triggers, legacy, scenes, scenePlan>>
    BY <1>1 DEF MigrateStep
  <2> QED BY <2>1 DEF Settled
<1>2. CASE Accepts(columns, Head(plan))
  <2>0. /\ columns' = ColumnsAfter(columns, Head(plan))
        /\ version' = IF Head(plan).op = "stamp" THEN Head(plan).arg ELSE version
        /\ plan' = Tail(plan)
        /\ opened' = IF Len(plan) = 1 THEN "valid" ELSE opened
        /\ UNCHANGED <<triggers, legacy, scenes, scenePlan>>
    BY <1>2 DEF MigrateStep
  <2>1. CASE plan = <<Stmt("drop", 0), Stmt("create", 0), Stamp(CURRENT_SCHEMA_VERSION)>>
    <3>1. Head(plan) = Stmt("drop", 0) /\ Len(plan) = 3
          /\ Tail(plan) = <<Stmt("create", 0), Stamp(CURRENT_SCHEMA_VERSION)>>
      BY <2>1
    <3>2. /\ columns' = {} /\ version' = version /\ opened' = "migrating"
          /\ plan' = <<Stmt("create", 0), Stamp(CURRENT_SCHEMA_VERSION)>>
      BY <1>0, <2>0, <3>1 DEF Stmt, ColumnsAfter
    <3>3. plan' # <<>> /\ PlanOK'
      BY <3>2 DEF PlanOK
    <3>4. Settled' /\ columns' \subseteq Columns
      BY <3>2 DEF Settled
    <3> QED BY <2>0, <3>2, <3>3, <3>4
  <2>2. CASE plan = <<Stmt("create", 0), Stamp(CURRENT_SCHEMA_VERSION)>> /\ columns = {}
    <3>1. Head(plan) = Stmt("create", 0) /\ Len(plan) = 2
          /\ Tail(plan) = <<Stamp(CURRENT_SCHEMA_VERSION)>>
      BY <2>2
    <3>2. /\ columns' = Complete /\ version' = version /\ opened' = "migrating"
          /\ plan' = <<Stamp(CURRENT_SCHEMA_VERSION)>>
      BY <1>0, <2>0, <2>2, <3>1 DEF Stmt, ColumnsAfter
    <3>3. /\ plan' \in Seq(UpgradeStmts) /\ plan' # <<>>
          /\ StampLast(plan')
      BY <3>2 DEF UpgradeStmts, StampLast
    <3>4. PlanOK'
      BY <3>2, <3>3 DEF PlanOK
    <3>5. Complete \subseteq Columns
      BY DEF Complete
    <3> QED BY <2>0, <3>2, <3>3, <3>4, <3>5 DEF Settled
  <2>3. CASE /\ plan \in Seq(UpgradeStmts)
             /\ "home_id" \in columns => Complete \subseteq columns \cup GainsOf(plan)
             /\ StampLast(plan)
    <3> DEFINE s == Head(plan)
    <3>1. /\ s \in UpgradeStmts /\ s = plan[1] /\ Tail(plan) \in Seq(UpgradeStmts)
          /\ (Len(plan) = 1 <=> Tail(plan) = <<>>)
          /\ s.op = "stamp" => Len(plan) = 1
          /\ StampLast(Tail(plan)) /\ GainsOf(<<>>) = {}
          /\ \A c \in GainsOf(plan) : Gives(s, c) \/ c \in GainsOf(Tail(plan))
      BY <1>0, <2>3, GainsTail, StampLastTail
    <3> HIDE DEF s
    <3>2. plan' \in Seq(UpgradeStmts) /\ StampLast(plan')
      BY <2>0, <3>1
    <3>3. /\ columns' \subseteq Columns
          /\ \A c \in Complete : c \in columns \/ Gives(s, c) => c \in columns'
          /\ "home_id" \in columns' => "home_id" \in columns
          /\ s.op = "stamp" => s.arg = 5 /\ columns' = columns /\ \A c : ~Gives(s, c)
      <4>1. CASE s \in {AddColumn(c) : c \in Columns \ {"home_id"}}
        <5>1. PICK c \in Columns \ {"home_id"} : s = AddColumn(c)
          BY <4>1
        <5>2. s.op = "add" /\ s.arg = c
          BY <5>1 DEF AddColumn, Stmt
        <5>3. columns' = columns \cup {c}
          BY <2>0, <5>2 DEF ColumnsAfter, s
        <5> QED BY <5>2, <5>3 DEF Gives
      <4>2. CASE s = Stmt("rename", 0)
        <5>1. s.op = "rename"
          BY <4>2 DEF Stmt
        <5>2. columns' = (columns \ {"secure"}) \cup {"security_scheme"}
          BY <2>0, <5>1 DEF ColumnsAfter, s
        <5> QED BY <5>1, <5>2 DEF Gives, Complete, Columns
      <4>3. CASE s = Stamp(CURRENT_SCHEMA_VERSION)
        <5>1. s.op = "stamp" /\ s.arg = 5
          BY <4>3 DEF Stamp, Stmt, CURRENT_SCHEMA_VERSION
        <5>2. columns' = columns
          BY <2>0, <5>1 DEF ColumnsAfter, s
        <5> QED BY <5>1, <5>2 DEF Gives
      <4> QED BY <3>1, <4>1, <4>2, <4>3 DEF UpgradeStmts, Steps
    <3>4. "home_id" \in columns' => Complete \subseteq columns' \cup GainsOf(plan')
      BY <2>0, <2>3, <3>1, <3>3
    <3>5. Len(plan) = 1 => plan' = <<>> /\ GainsOf(plan') = {}
      BY <2>0, <3>1, Zenon
    <3>6. Len(plan) # 1 => plan' # <<>>
      BY <2>0, <3>1
    <3>7. opened' = "valid" => Settled'
      BY <1>0, <2>0, <3>4, <3>5 DEF Settled
    <3>8. Settled => Settled'
      BY <3>3 DEF Settled
    <3>9. version' \in 0 .. 5 /\ (version' >= 1 /\ "home_id" \in columns' =>
                                     Complete \subseteq columns' \cup Missing(version'))
      <4>1. CASE s.op = "stamp"
        <5>1. Len(plan) = 1
          BY <4>1, <3>1
        <5> QED BY <4>1, <2>0, <3>3, <3>4, <3>5, <5>1 DEF s
      <4>2. CASE s.op # "stamp"
        BY <4>2, <2>0, <3>3 DEF s
      <4> QED BY <4>1, <4>2
    <3>10. version' = 0 => version = 0
      BY <2>0, <3>3 DEF s
    <3>11. PlanOK'
      BY <3>2, <3>4 DEF PlanOK
    <3> QED BY <1>0, <2>0, <3>3, <3>5, <3>6, <3>7, <3>8, <3>9, <3>10, <3>11
  <2> QED BY <1>0, <2>1, <2>2, <2>3 DEF PlanOK
<1> QED BY <1>1, <1>2

\* The scene store plans statements only for a file of version 0
LEMMA ScenesOpen == FileInv /\ openScenes => FileInv'
<1> SUFFICES ASSUME FileInv, openScenes PROVE FileInv'
  OBVIOUS
<1>1. scenePlan' \in Seq(SceneStmts) /\ (scenePlan' # <<>> => version = 0)
  <2>1. \A k, x : runSchema(k, x) \in Seq(SceneStmts)
    <3> SUFFICES ASSUME NEW k, NEW x PROVE runSchema(k, x) \in Seq(SceneStmts)
      OBVIOUS
    <3> DEFINE body == IF x THEN <<Stmt("renameTriggers", 0), Stmt("createTriggers", 0),
                                   Stmt("copyTriggers", 0), Stmt("dropLegacy", 0)>>
                            ELSE <<Stmt("createTriggers", 0)>>
               last == <<Stamp(SCHEMA_VERSION)>>
    <3>1. body \in Seq(SceneStmts) /\ last \in Seq(SceneStmts) /\ <<>> \in Seq(SceneStmts)
      <4>1. /\ Stmt("renameTriggers", 0) \in SceneStmts /\ Stmt("createTriggers", 0) \in SceneStmts
            /\ Stmt("copyTriggers", 0) \in SceneStmts /\ Stmt("dropLegacy", 0) \in SceneStmts
            /\ Stamp(SCHEMA_VERSION) \in SceneStmts
        BY DEF SceneStmts
      <4> QED BY <4>1
    <3>2. runSchema(k, x) = IF k >= SCHEMA_VERSION THEN <<>> ELSE body \o last
      BY Zenon DEF runSchema
    <3> HIDE DEF body, last
    <3>3. body \o last \in Seq(SceneStmts)
      BY <3>1, ConcatProperties
    <3> QED BY <3>1, <3>2, <3>3
  <2>2. version # 0 => scenePlan' = <<>>
    BY DEF openScenes, runSchema, SCHEMA_VERSION, FileInv, FileType
  <2> QED BY <2>1, <2>2 DEF openScenes
<1>2. UNCHANGED <<version, columns, triggers, legacy, opened, plan>>
  BY DEF openScenes, fileVars, registryVars
<1>3. scenes' = IF scenePlan' = <<>> THEN "valid" ELSE "migrating"
  BY DEF openScenes
<1> QED BY <1>1, <1>2, <1>3 DEF FileInv, FileType, Settled, PlanOK

\* A statement of the scene store leaves the nodes table alone; its stamp of 1
\* understates what the table has
LEMMA SceneSteps == FileInv /\ SceneStep => FileInv'
<1> SUFFICES ASSUME FileInv, SceneStep PROVE FileInv'
  OBVIOUS
<1>1. UNCHANGED <<columns, opened, plan>> /\ scenePlan # <<>>
  BY DEF SceneStep, registryVars
<1> DEFINE s == Head(scenePlan)
<1>2. /\ s \in SceneStmts /\ Tail(scenePlan) \in Seq(SceneStmts)
      /\ (Len(scenePlan) = 1 <=> Tail(scenePlan) = <<>>)
  <2>1. /\ s \in SceneStmts /\ Tail(scenePlan) \in Seq(SceneStmts)
        /\ Len(scenePlan) \in Nat /\ Len(Tail(scenePlan)) = Len(scenePlan) - 1
    BY <1>1, GainsTail DEF FileInv, FileType
  <2> DEFINE t == Tail(scenePlan)
  <2>2. t \in Seq(SceneStmts) /\ Len(t) = Len(scenePlan) - 1
    BY <2>1
  <2> HIDE DEF t
  <2>3. Len(t) = 0 <=> t = <<>>
    BY <2>2, EmptySeq, Zenon
  <2> QED BY <2>1, <2>2, <2>3 DEF t
<1>3. s.op = "stamp" => s.arg = 1
  BY <1>2 DEF SceneStmts, Stmt, Stamp, SCHEMA_VERSION
<1> HIDE DEF s
<1>4. /\ version' = version \/ version' = 1
      /\ triggers' \in {"none", "v0", "v1"} /\ legacy' \in BOOLEAN
      /\ scenePlan' \in Seq(SceneStmts) /\ scenes' \in {"no", "migrating", "valid", "closed"}
      /\ (scenePlan' # <<>> <=> scenes' = "migrating")
  <2>1. CASE AcceptsScene(triggers, legacy, s)
    <3>1. /\ triggers' = TriggersAfter(triggers, s) /\ legacy' = LegacyAfter(legacy, s)
          /\ version' = IF s.op = "stamp" THEN s.arg ELSE version
          /\ scenePlan' = Tail(scenePlan)
          /\ scenes' = IF Len(scenePlan) = 1 THEN "valid" ELSE scenes
      BY <2>1 DEF SceneStep, s
    <3>2. triggers' \in {"none", "v0", "v1"} /\ legacy' \in BOOLEAN
      BY <3>1, Zenon DEF TriggersAfter, LegacyAfter, FileInv, FileType
    <3>3. scenes = "migrating"
      BY <1>1 DEF FileInv, FileType
    <3> QED BY <1>2, <1>3, <3>1, <3>2, <3>3
  <2>2. CASE ~AcceptsScene(triggers, legacy, s)
    <3>1. scenePlan' = <<>> /\ scenes' = "closed" /\ UNCHANGED <<triggers, legacy, version>>
      BY <2>2 DEF SceneStep, s
    <3>2. <<>> \in Seq(SceneStmts)
      OBVIOUS
    <3> QED BY <3>1, <3>2 DEF FileInv, FileType
  <2> QED BY <2>1, <2>2
<1>5. Settled /\ Settled'
  BY <1>1 DEF FileInv, Settled
<1>6. PlanOK => PlanOK'
  BY <1>1 DEF PlanOK
<1> QED BY <1>1, <1>4, <1>5, <1>6 DEF FileInv, FileType, Settled

\* The inductive step for the file
LEMMA FileStep == FileInv /\ [Next]_vars => FileInv'
<1> SUFFICES ASSUME FileInv, [Next]_vars PROVE FileInv'
  OBVIOUS
<1>1. CASE Restart
  <2>1. UNCHANGED <<version, columns, triggers, legacy>> /\ opened' = "no" /\ plan' = <<>>
        /\ scenes' = "no" /\ scenePlan' = <<>>
    BY <1>1 DEF Restart, fileVars
  <2>2. <<>> \in Seq(SceneStmts)
    OBVIOUS
  <2> QED BY <2>1, <2>2 DEF FileInv, FileType, Settled
<1>2. CASE UNCHANGED fileState
  <2>1. PlanOK => PlanOK'
    BY <1>2 DEF PlanOK, fileState
  <2> QED BY <1>2, <2>1 DEF FileInv, FileType, Settled, fileState
<1>3. UNCHANGED vars => UNCHANGED fileState
  BY DEF vars, fileVars, registryVars, sceneVars, fileState
<1>4. Publish \/ (\E h \in Homes : setHomeId(h)) => UNCHANGED fileState
  BY DEF Publish, setHomeId, fileVars, sceneVars, fileState
<1>5. withBoundHome => UNCHANGED fileState
  BY DEF withBoundHome, sceneVars, fileState
<1>6. ASSUME NEW n \in Nodes, NEW v, NEW w
      PROVE  remove(n) \/ seed(n) \/ updateDeviceClass(n, v) \/ updateCommandClasses(n, v)
             \/ add(n, v, w) => withBoundHome
  BY DEF remove, seed, updateDeviceClass, updateCommandClasses, add
<1>7. ASSUME NEW n \in Nodes, NEW v
      PROVE  setSecurityScheme(n, v) \/ setDeviceIdentity(n, v) => UNCHANGED fileState
  BY DEF setSecurityScheme, setDeviceIdentity, sceneVars, fileState
<1> QED BY <1>1, <1>2, <1>3, <1>4, <1>5, <1>6, <1>7, Opens, Migrates, ScenesOpen, SceneSteps DEF Next
-----------------------------------------------------------------------------
\* The inductive invariant on the map, the rows and the published list: until
\* the file is open nothing is bound, and an event waiting to be published
\* shows the map as it is
DataInv ==
    /\ rows \in [Homes -> Table] /\ nodes \in Table
    /\ currentHomeId \in Homes \cup {None}
    /\ currentHomeId = None => nodes = Empty
    /\ currentHomeId # None => Ready
    /\ KnownIsStored
    /\ event # None => event = snapshotEvent(nodes)
    /\ ListIsRegistry

\* What is known of one node and what is stored of it, as KnownIsStored has it
Agree(known, stored) ==
    /\ known.class = stored.class /\ known.ccs = stored.ccs
    /\ known.scheme # stored.scheme => known.scheme = Unset
    /\ known.facts # stored.facts => known.facts = Unset

\* A list can always be told from no list
LEMMA SnapshotIsList == ASSUME NEW map \in Table PROVE snapshotEvent(map) # None
<1>1. \A n \in Nodes : [class |-> map[n].class, ccs |-> map[n].ccs] \in Shown
  <2> SUFFICES ASSUME NEW n \in Nodes PROVE map[n].class \in Values \cup {None} /\ map[n].ccs \in Values \cup {None}
    BY DEF Shown
  <2>1. map[n] \in Row \cup {NoRow}
    BY DEF Table
  <2> QED BY <2>1 DEF Row, NoRow
<1>2. snapshotEvent(map) \in [Nodes -> Shown]
  BY <1>1 DEF snapshotEvent
<1> QED BY <1>2, RegistryAssumption

\* Changing one entry of a table
LEMMA TableUpdate ==
    ASSUME NEW t \in Table, NEW n \in Nodes, NEW r \in Row \cup {NoRow}
    PROVE  /\ [t EXCEPT ![n] = r] \in Table /\ [t EXCEPT ![n] = r][n] = r
           /\ \A m \in Nodes \ {n} : [t EXCEPT ![n] = r][m] = t[m]
BY DEF Table

\* Changing one row of the file
LEMMA RowsUpdate ==
    ASSUME NEW t \in [Homes -> Table], NEW h \in Homes, NEW n \in Nodes, NEW r \in Row \cup {NoRow}
    PROVE  /\ [t EXCEPT ![h][n] = r] \in [Homes -> Table]
           /\ [t EXCEPT ![h][n] = r][h][n] = r
           /\ \A m \in Nodes \ {n} : [t EXCEPT ![h][n] = r][h][m] = t[h][m]
           /\ \A k \in Homes \ {h} : [t EXCEPT ![h][n] = r][k] = t[k]
<1>1. [t EXCEPT ![h][n] = r] = [t EXCEPT ![h] = [t[h] EXCEPT ![n] = r]]
  OBVIOUS
<1>2. t[h] \in Table
  OBVIOUS
<1>3. /\ [t[h] EXCEPT ![n] = r] \in Table /\ [t[h] EXCEPT ![n] = r][n] = r
      /\ \A m \in Nodes \ {n} : [t[h] EXCEPT ![n] = r][m] = t[h][m]
  BY <1>2, TableUpdate
<1> QED BY <1>1, <1>3

\* A mutator of one node of the bound network, with what it writes to the file
LEMMA NodeChanged ==
    ASSUME DataInv, currentHomeId \in Homes, Ready,
           NEW n \in Nodes, NEW info \in Row \cup {NoRow}, NEW row \in Row \cup {NoRow},
           nodes' = [nodes EXCEPT ![n] = info],
           rows' = IF Writable THEN [rows EXCEPT ![currentHomeId][n] = row] ELSE rows,
           Writable => Agree(info, row),
           UNCHANGED <<columns, opened, currentHomeId>>
    PROVE  /\ rows' \in [Homes -> Table] /\ nodes' \in Table
           /\ KnownIsStored' /\ Ready'
<1>1. nodes' \in Table /\ nodes'[n] = info /\ \A m \in Nodes \ {n} : nodes'[m] = nodes[m]
  <2>1. nodes \in Table
    BY DEF DataInv
  <2> DEFINE t == [nodes EXCEPT ![n] = info]
  <2>2. t \in Table /\ t[n] = info /\ \A m \in Nodes \ {n} : t[m] = nodes[m]
    BY <2>1 DEF Table
  <2>3. nodes' = t
    OBVIOUS
  <2> HIDE DEF t
  <2> QED BY <2>2, <2>3, Zenon
<1>2. Ready' /\ (Writable' <=> Writable)
  BY DEF Ready, Writable
<1>3. CASE Writable
  <2>1. /\ rows' \in [Homes -> Table] /\ rows'[currentHomeId][n] = row
        /\ \A m \in Nodes \ {n} : rows'[currentHomeId][m] = rows[currentHomeId][m]
    <3>1. rows \in [Homes -> Table]
      BY DEF DataInv
    <3> DEFINE t == [rows EXCEPT ![currentHomeId][n] = row]
    <3>2. /\ t \in [Homes -> Table] /\ t[currentHomeId][n] = row
          /\ \A m \in Nodes \ {n} : t[currentHomeId][m] = rows[currentHomeId][m]
      BY <3>1, RowsUpdate
    <3>3. rows' = t
      BY <1>3
    <3> HIDE DEF t
    <3> QED BY <3>2, <3>3, Zenon
  <2>2. ASSUME NEW m \in Nodes PROVE Agree(nodes'[m], rows'[currentHomeId'][m])
    <3>1. CASE m = n
      BY <3>1, <1>1, <1>3, <2>1
    <3>2. CASE m # n
      <4>1. Agree(nodes[m], rows[currentHomeId][m])
        BY <1>3, RegistryAssumption DEF DataInv, KnownIsStored, Agree
      <4> QED BY <3>2, <4>1, <1>1, <2>1
    <3> QED BY <3>1, <3>2
  <2> QED BY <1>1, <1>2, <2>1, <2>2 DEF KnownIsStored, Agree
<1>4. CASE ~Writable
  BY <1>1, <1>2, <1>4 DEF DataInv, KnownIsStored
<1> QED BY <1>3, <1>4

\* withBoundHome publishes what the map has become
LEMMA EventOfChange ==
    ASSUME withBoundHome, nodes' \in Table
    PROVE  /\ event' # None /\ event' = snapshotEvent(nodes)'
           /\ ListIsRegistry'
<1>1. event' = snapshotEvent(nodes)'
  BY DEF withBoundHome, snapshotEvent
<1>2. snapshotEvent(nodes') # None
  BY SnapshotIsList
<1>3. event' # None
  BY <1>2 DEF withBoundHome
<1> QED BY <1>1, <1>3 DEF ListIsRegistry

\* add, and seed which is an add of an unknown node
LEMMA AddKeeps ==
    ASSUME DataInv, NEW n \in Nodes, NEW class \in Values, NEW ccs \in Values, add(n, class, ccs)
    PROVE  DataInv'
<1> DEFINE info == [class |-> class, ccs |-> ccs, scheme |-> Unset, facts |-> Unset]
           old == rows[currentHomeId][n]
           row == [class |-> class, ccs |-> ccs,
                   scheme |-> IF old = NoRow THEN Unset ELSE old.scheme,
                   facts |-> IF old = NoRow THEN Unset ELSE old.facts]
<1>1. withBoundHome /\ nodes' = [nodes EXCEPT ![n] = info] /\ Ready /\ currentHomeId \in Homes
      /\ UNCHANGED <<columns, opened, currentHomeId>>
  BY DEF add, withBoundHome, DataInv
<1>2. info \in Row
  BY RegistryAssumption DEF Row
<1>3. nodes'[n] = info
  BY <1>1, SMTT(30) DEF DataInv, Table
<1>4. row \in Row
  <2>1. old \in Row \cup {NoRow}
    BY <1>1 DEF DataInv, Table
  <2> QED BY <2>1, RegistryAssumption, Zenon DEF Row
<1>5. rows' = IF Writable THEN [rows EXCEPT ![currentHomeId][n] = row] ELSE rows
  <2> DEFINE new == nodes'[n]
  <2>1. persistAdd(currentHomeId, n, new)
    BY DEF add
  <2>2. new.class = class /\ new.ccs = ccs
    BY <1>3
  <2> HIDE DEF new
  <2> QED BY <2>1, <2>2 DEF persistAdd
<1>6. Agree(info, row)
  BY DEF Agree
<1> HIDE DEF info, row
<1>7. rows' \in [Homes -> Table] /\ nodes' \in Table /\ KnownIsStored' /\ Ready'
  BY <1>1, <1>2, <1>4, <1>5, <1>6, NodeChanged, Zenon
<1>8. event' # None /\ event' = snapshotEvent(nodes)' /\ ListIsRegistry'
  BY <1>1, <1>7, EventOfChange
<1> QED BY <1>1, <1>7, <1>8, RegistryAssumption DEF DataInv

\* A mutator that replaces the class and the CC list of a known node
LEMMA UpdateKeeps ==
    ASSUME DataInv, NEW n \in Nodes, NEW class \in Values, NEW ccs \in Values,
           nodes[n] # NoRow,
           nodes' = [nodes EXCEPT ![n] = [class |-> class, ccs |-> ccs,
                                          scheme |-> nodes[n].scheme, facts |-> nodes[n].facts]],
           withBoundHome, persistAdd(currentHomeId, n, nodes'[n])
    PROVE  DataInv'
<1> DEFINE info == [class |-> class, ccs |-> ccs,
                    scheme |-> nodes[n].scheme, facts |-> nodes[n].facts]
           old == rows[currentHomeId][n]
           row == [class |-> class, ccs |-> ccs,
                   scheme |-> IF old = NoRow THEN Unset ELSE old.scheme,
                   facts |-> IF old = NoRow THEN Unset ELSE old.facts]
<1>1. Ready /\ currentHomeId \in Homes /\ UNCHANGED <<columns, opened, currentHomeId>>
  BY DEF withBoundHome, DataInv
<1>2. nodes[n] \in Row
  BY DEF DataInv, Table
<1>3. info \in Row /\ nodes'[n] = info
  <2>1. info \in Row
    BY <1>2 DEF Row
  <2> QED BY <2>1 DEF DataInv, Table
<1>4. row \in Row
  <2>1. old \in Row \cup {NoRow}
    BY <1>1 DEF DataInv, Table
  <2> QED BY <2>1, RegistryAssumption DEF Row
<1>5. rows' = IF Writable THEN [rows EXCEPT ![currentHomeId][n] = row] ELSE rows
  <2> DEFINE new == nodes'[n]
  <2>1. persistAdd(currentHomeId, n, new)
    OBVIOUS
  <2>2. new.class = class /\ new.ccs = ccs
    BY <1>3
  <2> HIDE DEF new
  <2> QED BY <2>1, <2>2, Zenon DEF persistAdd
<1>6. Writable => Agree(info, row)
  <2> SUFFICES ASSUME Writable PROVE Agree(info, row)
    OBVIOUS
  <2>1. Agree(nodes[n], old)
    BY <1>1, RegistryAssumption DEF DataInv, KnownIsStored, Agree
  <2>2. old # NoRow
    BY <1>2, <2>1, RegistryAssumption DEF Agree, Row, NoRow
  <2> QED BY <2>1, <2>2 DEF Agree
<1>7. nodes' = [nodes EXCEPT ![n] = info]
  OBVIOUS
<1> HIDE DEF info, row
<1>8. rows' \in [Homes -> Table] /\ nodes' \in Table /\ KnownIsStored' /\ Ready'
  BY <1>1, <1>3, <1>4, <1>5, <1>6, <1>7, NodeChanged, Zenon
<1>9. event' # None /\ event' = snapshotEvent(nodes)' /\ ListIsRegistry'
  BY <1>8, EventOfChange
<1> QED BY <1>1, <1>8, <1>9, RegistryAssumption DEF DataInv

\* remove takes the node from the map and from the file
LEMMA RemoveKeeps == ASSUME DataInv, NEW n \in Nodes, remove(n) PROVE DataInv'
<1>1. withBoundHome /\ nodes' = [nodes EXCEPT ![n] = NoRow] /\ Ready /\ currentHomeId \in Homes
      /\ UNCHANGED <<columns, opened, currentHomeId>>
  BY DEF remove, withBoundHome, DataInv
<1>2. rows' = IF Writable THEN [rows EXCEPT ![currentHomeId][n] = NoRow] ELSE rows
  BY DEF remove, persistRemove
<1>3. Agree(NoRow, NoRow)
  BY DEF Agree
<1>4. rows' \in [Homes -> Table] /\ nodes' \in Table /\ KnownIsStored' /\ Ready'
  BY <1>1, <1>2, <1>3, NodeChanged, Zenon
<1>5. event' # None /\ event' = snapshotEvent(nodes)' /\ ListIsRegistry'
  BY <1>1, <1>4, EventOfChange
<1> QED BY <1>1, <1>4, <1>5, RegistryAssumption DEF DataInv

\* A setter that publishes nothing: the UPDATE finds the row of a known node
LEMMA SetKeeps ==
    ASSUME DataInv, NEW n \in Nodes, NEW scheme \in Values, NEW facts \in Values, NEW row,
           Ready, nodes[n] # NoRow,
           nodes' = [nodes EXCEPT ![n] = [class |-> nodes[n].class, ccs |-> nodes[n].ccs,
                                          scheme |-> scheme, facts |-> facts]],
           \A known \in Row, stored \in Row :
               Agree(known, stored) /\ known = nodes[n] /\ stored = rows[currentHomeId][n] =>
                   row \in Row /\ Agree([class |-> known.class, ccs |-> known.ccs,
                                         scheme |-> scheme, facts |-> facts], row),
           persistField(currentHomeId, n, row),
           UNCHANGED <<columns, opened, currentHomeId, event, list>>
    PROVE  DataInv'
<1> DEFINE info == [class |-> nodes[n].class, ccs |-> nodes[n].ccs, scheme |-> scheme, facts |-> facts]
           old == rows[currentHomeId][n]
           new == IF Writable THEN row ELSE NoRow
<1>1. currentHomeId \in Homes
  BY DEF DataInv, Empty
<1>2. nodes[n] \in Row /\ old \in Row \cup {NoRow}
  BY <1>1 DEF DataInv, Table
<1>3. info \in Row
  BY <1>2 DEF Row
<1>4. Writable => Agree(nodes[n], old) /\ old \in Row
  <2> SUFFICES ASSUME Writable PROVE Agree(nodes[n], old) /\ old # NoRow
    BY <1>2
  <2>1. Agree(nodes[n], old)
    BY <1>1, RegistryAssumption DEF DataInv, KnownIsStored, Agree
  <2> QED BY <1>2, <2>1, RegistryAssumption DEF Agree, Row, NoRow
<1>5. Writable => new \in Row /\ Agree(info, new)
  BY <1>2, <1>4
<1>6. new \in Row \cup {NoRow}
  BY <1>5
<1>7. rows' = IF Writable THEN [rows EXCEPT ![currentHomeId][n] = new] ELSE rows
  <2>1. CASE Writable
    <3>1. old # NoRow
      <4>1. Agree(nodes[n], old)
        BY <1>4, <2>1
      <4> QED BY <1>2, <4>1, RegistryAssumption DEF Agree, Row, NoRow
    <3> QED BY <2>1, <3>1 DEF persistField
  <2>2. CASE ~Writable
    BY <2>2 DEF persistField
  <2> QED BY <2>1, <2>2
<1>8. nodes' = [nodes EXCEPT ![n] = info]
  OBVIOUS
<1>9. snapshotEvent(nodes)' = snapshotEvent(nodes)
  <2>1. \A m \in Nodes : nodes'[m].class = nodes[m].class /\ nodes'[m].ccs = nodes[m].ccs
    BY <1>8 DEF DataInv, Table
  <2> QED BY <2>1 DEF snapshotEvent
<1> HIDE DEF info, new
<1>10. rows' \in [Homes -> Table] /\ nodes' \in Table /\ KnownIsStored' /\ Ready'
  BY <1>1, <1>3, <1>5, <1>6, <1>7, <1>8, NodeChanged, Zenon
<1> QED BY <1>1, <1>9, <1>10, RegistryAssumption DEF DataInv, ListIsRegistry

\* setSecurityScheme
LEMMA SchemeKeeps ==
    ASSUME DataInv, NEW n \in Nodes, NEW v \in Values, setSecurityScheme(n, v) PROVE DataInv'
<1> DEFINE row == [class |-> rows[currentHomeId][n].class, ccs |-> rows[currentHomeId][n].ccs,
                   scheme |-> v, facts |-> rows[currentHomeId][n].facts]
<1>1. nodes[n] \in Row /\ nodes[n].facts \in Values
  BY DEF setSecurityScheme, DataInv, Table, Row
<1>2. \A known \in Row, stored \in Row :
         Agree(known, stored) /\ known = nodes[n] /\ stored = rows[currentHomeId][n] =>
             row \in Row /\ Agree([class |-> known.class, ccs |-> known.ccs,
                                   scheme |-> v, facts |-> nodes[n].facts], row)
  BY Zenon DEF Agree, Row
<1>3. /\ Ready /\ nodes[n] # NoRow
      /\ nodes' = [nodes EXCEPT ![n] = [class |-> nodes[n].class, ccs |-> nodes[n].ccs,
                                        scheme |-> v, facts |-> nodes[n].facts]]
      /\ persistField(currentHomeId, n, row)
      /\ UNCHANGED <<columns, opened, currentHomeId, event, list>>
  BY DEF setSecurityScheme
<1> HIDE DEF row
<1> QED BY <1>1, <1>2, <1>3, SetKeeps, Zenon

\* setDeviceIdentity and the other interview setters
LEMMA IdentityKeeps ==
    ASSUME DataInv, NEW n \in Nodes, NEW v \in Values, setDeviceIdentity(n, v) PROVE DataInv'
<1> DEFINE row == [class |-> rows[currentHomeId][n].class, ccs |-> rows[currentHomeId][n].ccs,
                   scheme |-> rows[currentHomeId][n].scheme, facts |-> v]
<1>1. nodes[n] \in Row /\ nodes[n].scheme \in Values
  BY DEF setDeviceIdentity, DataInv, Table, Row
<1>2. \A known \in Row, stored \in Row :
         Agree(known, stored) /\ known = nodes[n] /\ stored = rows[currentHomeId][n] =>
             row \in Row /\ Agree([class |-> known.class, ccs |-> known.ccs,
                                   scheme |-> nodes[n].scheme, facts |-> v], row)
  BY Zenon DEF Agree, Row
<1>3. /\ Ready /\ nodes[n] # NoRow
      /\ nodes' = [nodes EXCEPT ![n] = [class |-> nodes[n].class, ccs |-> nodes[n].ccs,
                                        scheme |-> nodes[n].scheme, facts |-> v]]
      /\ persistField(currentHomeId, n, row)
      /\ UNCHANGED <<columns, opened, currentHomeId, event, list>>
  BY DEF setDeviceIdentity
<1> HIDE DEF row
<1> QED BY <1>1, <1>2, <1>3, SetKeeps, Zenon

\* Binding loads the rows of the network: a writable file is a readable one,
\* which is where the invariant on the migration is needed
LEMMA BindKeeps ==
    ASSUME FileInv, DataInv, NEW h \in Homes, setHomeId(h) PROVE DataInv'
<1>1. /\ Ready /\ currentHomeId' = h /\ nodes' = IF Selectable THEN rows[h] ELSE Empty
      /\ UNCHANGED <<columns, rows, opened>>
  BY DEF setHomeId, fileVars
<1>2. nodes' \in Table /\ rows[h] \in Table
  BY <1>1 DEF DataInv, Table, Empty
<1>3. Writable => Selectable
  BY DEF Writable, Selectable, FileInv, Settled
<1>4. KnownIsStored'
  BY <1>1, <1>3 DEF KnownIsStored, Writable
<1>5. event' = snapshotEvent(nodes)' /\ snapshotEvent(nodes') # None
  BY <1>2, SnapshotIsList DEF setHomeId, snapshotEvent
<1>6. event' # None
  BY <1>5 DEF setHomeId
<1> QED BY <1>1, <1>2, <1>4, <1>5, <1>6, RegistryAssumption DEF DataInv, Ready, ListIsRegistry

\* The other steps do not touch the map of a bound network
LEMMA OthersKeep ==
    ASSUME FileInv, DataInv,
           initIfNeeded \/ MigrateStep \/ openScenes \/ SceneStep \/ Publish \/ Restart \/ UNCHANGED vars
    PROVE  DataInv'
<1>1. CASE initIfNeeded
  BY <1>1, Zenon DEF initIfNeeded, fileVars, DataInv, Ready, KnownIsStored, ListIsRegistry, snapshotEvent
<1>2. CASE MigrateStep
  <2>0. opened = "migrating"
    BY <1>2, SMTT(30) DEF MigrateStep, FileInv, FileType
  <2>1. currentHomeId = None /\ UNCHANGED <<currentHomeId, nodes, event, list>>
    BY <1>2, <2>0, Zenon DEF MigrateStep, DataInv, Ready
  <2>2. rows' \in [Homes -> Table]
    <3>1. rows' = rows \/ rows' = [h \in Homes |-> Empty]
      BY <1>2, Zenon DEF MigrateStep
    <3>2. rows \in [Homes -> Table]
      BY Zenon DEF DataInv
    <3>3. Empty \in Table
      BY DEF Empty, Table
    <3> QED BY <3>1, <3>2, <3>3
  <2> QED BY <2>1, <2>2, Zenon DEF DataInv, KnownIsStored, ListIsRegistry, snapshotEvent
<1>3. CASE openScenes \/ SceneStep
  <2>1. UNCHANGED <<columns, rows, opened, currentHomeId, nodes, event, list>>
    BY <1>3, Zenon DEF openScenes, SceneStep, fileVars, registryVars
  <2> QED BY <2>1, SMTT(30) DEF DataInv, Ready, KnownIsStored, Writable, ListIsRegistry, snapshotEvent
<1>4. CASE Publish
  <2>1. /\ list' = event /\ event' = None /\ event # None
        /\ UNCHANGED <<columns, rows, opened, currentHomeId, nodes>>
    BY <1>4 DEF Publish, fileVars
  <2> QED BY <2>1 DEF DataInv, Ready, KnownIsStored, Writable, ListIsRegistry, snapshotEvent
<1>5. CASE Restart
  <2>1. Empty \in Table
    BY DEF Empty, Table
  <2> QED BY <1>5, <2>1 DEF Restart, fileVars, DataInv, Ready, KnownIsStored, ListIsRegistry
<1>6. CASE UNCHANGED vars
  BY <1>6, Zenon DEF vars, fileVars, registryVars, DataInv, Ready, KnownIsStored, Writable, ListIsRegistry, snapshotEvent
<1> QED BY <1>1, <1>2, <1>3, <1>4, <1>5, <1>6

\* Nothing is bound or published at the start
LEMMA DataInit == Init => DataInv
<1> SUFFICES ASSUME Init PROVE DataInv
  OBVIOUS
<1>1. Empty \in Table
  BY DEF Empty, Table
<1> QED BY <1>1 DEF Init, DataInv, KnownIsStored, ListIsRegistry, Ready

\* The inductive step for the map, the rows and the list
LEMMA DataStep == FileInv /\ DataInv /\ [Next]_vars => DataInv'
<1> SUFFICES ASSUME FileInv, DataInv, [Next]_vars PROVE DataInv'
  OBVIOUS
<1>1. ASSUME NEW n \in Nodes, seed(n) PROVE DataInv'
  <2>1. add(n, Unset, Unset)
    BY <1>1 DEF seed
  <2> QED BY <2>1, AddKeeps, RegistryAssumption
<1>2. ASSUME NEW n \in Nodes, NEW v \in Values, updateDeviceClass(n, v) PROVE DataInv'
  <2>1. nodes[n].ccs \in Values
    BY <1>2 DEF updateDeviceClass, DataInv, Table, Row
  <2> QED BY <1>2, <2>1, UpdateKeeps, Zenon DEF updateDeviceClass
<1>3. ASSUME NEW n \in Nodes, NEW v \in Values, updateCommandClasses(n, v) PROVE DataInv'
  <2>1. nodes[n].class \in Values
    BY <1>3 DEF updateCommandClasses, DataInv, Table, Row
  <2> QED BY <1>3, <2>1, UpdateKeeps, Zenon DEF updateCommandClasses
<1>4. ASSUME NEW n \in Nodes, NEW v \in Values, NEW w \in Values, add(n, v, w) PROVE DataInv'
  BY <1>4, AddKeeps
<1>5. ASSUME NEW n \in Nodes, remove(n) PROVE DataInv'
  BY <1>5, RemoveKeeps
<1>6. ASSUME NEW n \in Nodes, NEW v \in Values, setSecurityScheme(n, v) \/ setDeviceIdentity(n, v) PROVE DataInv'
  BY <1>6, SchemeKeeps, IdentityKeeps
<1>7. ASSUME NEW h \in Homes, setHomeId(h) PROVE DataInv'
  BY <1>7, BindKeeps
<1>8. CASE initIfNeeded \/ MigrateStep \/ openScenes \/ SceneStep \/ Publish \/ Restart \/ UNCHANGED vars
  BY <1>8, OthersKeep
<1> QED BY <1>1, <1>2, <1>3, <1>4, <1>5, <1>6, <1>7, <1>8 DEF Next
-----------------------------------------------------------------------------
\* The inductive invariant: whatever stores open the file, in whatever order,
\* and however often the daemon dies
THEOREM RegistryInvariant == Spec => [](FileInv /\ DataInv)
<1>1. Init => FileInv /\ DataInv
  BY FileInit, DataInit
<1>2. FileInv /\ DataInv /\ [Next]_vars => (FileInv /\ DataInv)'
  BY FileStep, DataStep
<1> QED BY <1>1, <1>2, PTL DEF Spec

\* Types, and that a store runs statements exactly while it is migrating
THEOREM TypeCorrect == Spec => []TypeOK
<1>1. FileInv /\ DataInv => TypeOK
  BY DEF FileInv, FileType, DataInv, TypeOK, CURRENT_SCHEMA_VERSION
<1> QED BY <1>1, RegistryInvariant, PTL

\* What the registry knows of the bound network is on disk
THEOREM Stored == Spec => []KnownIsStored
<1>1. DataInv => KnownIsStored
  BY DEF DataInv
<1> QED BY <1>1, RegistryInvariant, PTL

\* The retained NodeListChanged is the registry's content once it is published
THEOREM ListCurrent == Spec => []ListIsRegistry
<1>1. DataInv => ListIsRegistry
  BY DEF DataInv
<1> QED BY <1>1, RegistryInvariant, PTL

\* A file stamped with the current version has all the columns
THEOREM VersionTold == Spec => []VersionMeansColumns
<1>1. FileInv => VersionMeansColumns
  <2>1. Missing(5) = {}
    BY DEF Missing
  <2> QED BY <2>1 DEF FileInv, FileType, VersionMeansColumns, CURRENT_SCHEMA_VERSION
<1> QED BY <1>1, RegistryInvariant, PTL

\* Writing one row of the bound network, one that is not NoRow, loses no row
LEMMA WriteKeeps ==
    ASSUME DataInv, currentHomeId \in Homes, NEW n \in Nodes, NEW row, row # NoRow,
           \/ rows' = rows
           \/ rows' = [rows EXCEPT ![currentHomeId][n] = row],
           NEW h \in Homes, NEW m \in Nodes, rows[h][m] # NoRow
    PROVE  rows'[h][m] # NoRow
<1>1. CASE rows' = rows
  BY <1>1
<1>2. CASE rows' = [rows EXCEPT ![currentHomeId][n] = row]
  <2>1. rows \in [Homes -> Table] /\ \A k \in Homes : DOMAIN rows[k] = Nodes
    BY DEF DataInv, Table
  <2>2. rows'[h][m] = IF h = currentHomeId /\ m = n THEN row ELSE rows[h][m]
    BY <1>2, <2>1
  <2> QED BY <2>2
<1> QED BY <1>1, <1>2

\* A row is lost only by remove() of the bound network or by recreating a file
\* of version 0
THEOREM NoRowLost == Spec => RowsKept
<1> DEFINE A == \A h \in Homes, n \in Nodes :
                   rows[h][n] # NoRow /\ rows'[h][n] = NoRow =>
                       \/ currentHomeId = h /\ nodes'[n] = NoRow /\ opened = "valid"
                       \/ opened = "migrating" /\ plan[1].op = "drop"
<1>1. FileInv /\ DataInv /\ [Next]_vars => [A]_vars
  <2> SUFFICES ASSUME FileInv, DataInv, Next, NEW h \in Homes, NEW m \in Nodes,
                      rows[h][m] # NoRow, rows'[h][m] = NoRow
               PROVE  \/ currentHomeId = h /\ nodes'[m] = NoRow /\ opened = "valid"
                      \/ opened = "migrating" /\ plan[1].op = "drop"
    OBVIOUS
  <2>1. CASE MigrateStep
    <3>1. opened = "migrating"
      BY <2>1 DEF MigrateStep, FileInv, FileType
    <3>2. Head(plan).op = "drop"
      BY <2>1 DEF MigrateStep
    <3> QED BY <3>1, <3>2
  <2>2. ASSUME NEW n \in Nodes, remove(n) PROVE currentHomeId = h /\ nodes'[m] = NoRow /\ opened = "valid"
    <3>1. /\ rows' = IF Writable THEN [rows EXCEPT ![currentHomeId][n] = NoRow] ELSE rows
          /\ nodes' = [nodes EXCEPT ![n] = NoRow] /\ currentHomeId \in Homes
      BY <2>2 DEF remove, persistRemove, withBoundHome, DataInv
    <3>2. Writable /\ rows' = [rows EXCEPT ![currentHomeId][n] = NoRow]
      BY <3>1
    <3>3. rows \in [Homes -> Table] /\ \A k \in Homes : DOMAIN rows[k] = Nodes
      BY DEF DataInv, Table
    <3>4. rows'[h][m] = IF h = currentHomeId /\ m = n THEN NoRow ELSE rows[h][m]
      BY <3>1, <3>2, <3>3
    <3>5. h = currentHomeId /\ m = n
      BY <3>4
    <3> QED BY <3>1, <3>2, <3>5 DEF Writable, DataInv, Table
  <2>3. ASSUME NEW n \in Nodes, NEW info, persistAdd(currentHomeId, n, info), currentHomeId \in Homes,
               info.class # None
        PROVE  FALSE
    <3> DEFINE row == [class |-> info.class, ccs |-> info.ccs,
                       scheme |-> IF rows[currentHomeId][n] = NoRow THEN Unset ELSE rows[currentHomeId][n].scheme,
                       facts |-> IF rows[currentHomeId][n] = NoRow THEN Unset ELSE rows[currentHomeId][n].facts]
    <3>1. row # NoRow
      BY <2>3 DEF NoRow
    <3>2. rows' = rows \/ rows' = [rows EXCEPT ![currentHomeId][n] = row]
      BY <2>3 DEF persistAdd
    <3> HIDE DEF row
    <3> QED BY <2>3, <3>1, <3>2, WriteKeeps
  <2>4. ASSUME NEW n \in Nodes, NEW v \in Values, NEW w \in Values, add(n, v, w) PROVE FALSE
    <3> DEFINE info == nodes'[n]
    <3>1. info.class # None /\ currentHomeId \in Homes
      BY <2>4, RegistryAssumption, Zenon DEF add, withBoundHome, DataInv, Table
    <3>2. persistAdd(currentHomeId, n, info)
      BY <2>4 DEF add
    <3> HIDE DEF info
    <3> QED BY <3>1, <3>2, <2>3, SMTT(30)
  <2>5. ASSUME NEW n \in Nodes, NEW v \in Values, updateDeviceClass(n, v) \/ updateCommandClasses(n, v)
        PROVE  FALSE
    <3> DEFINE info == nodes'[n]
    <3>1. nodes[n] \in Row /\ currentHomeId \in Homes
      BY <2>5, SMTT(30) DEF updateDeviceClass, updateCommandClasses, withBoundHome, DataInv, Table
    <3>2. info.class # None
      <4>1. nodes \in Table /\ (info.class = v \/ info.class = nodes[n].class)
        BY <2>5 DEF updateDeviceClass, updateCommandClasses, DataInv, Table
      <4>2. nodes[n].class \in Values
        BY <3>1 DEF Row
      <4> QED BY <4>1, <4>2, RegistryAssumption
    <3>3. persistAdd(currentHomeId, n, info)
      BY <2>5 DEF updateDeviceClass, updateCommandClasses
    <3> HIDE DEF info
    <3> QED BY <3>1, <3>2, <3>3, <2>3
  <2>6. ASSUME NEW n \in Nodes, NEW row, row.scheme # None \/ row.facts # None,
               persistField(currentHomeId, n, row), nodes[n] # NoRow
        PROVE  FALSE
    <3>1. currentHomeId \in Homes
      BY <2>6 DEF DataInv, Empty
    <3>2. row # NoRow
      BY <2>6 DEF NoRow
    <3>3. rows' = rows \/ rows' = [rows EXCEPT ![currentHomeId][n] = row]
      BY <2>6 DEF persistField
    <3> QED BY <3>1, <3>2, <3>3, WriteKeeps
  <2>7. ASSUME NEW n \in Nodes, NEW v \in Values, setSecurityScheme(n, v) PROVE FALSE
    <3> DEFINE row == [class |-> rows[currentHomeId][n].class, ccs |-> rows[currentHomeId][n].ccs,
                       scheme |-> v, facts |-> rows[currentHomeId][n].facts]
    <3>1. row.scheme # None /\ persistField(currentHomeId, n, row) /\ nodes[n] # NoRow
      BY <2>7, RegistryAssumption DEF setSecurityScheme
    <3> HIDE DEF row
    <3> QED BY <3>1, <2>6
  <2>8. ASSUME NEW n \in Nodes, NEW v \in Values, setDeviceIdentity(n, v) PROVE FALSE
    <3> DEFINE row == [class |-> rows[currentHomeId][n].class, ccs |-> rows[currentHomeId][n].ccs,
                       scheme |-> rows[currentHomeId][n].scheme, facts |-> v]
    <3>1. row.facts # None /\ persistField(currentHomeId, n, row) /\ nodes[n] # NoRow
      BY <2>8, RegistryAssumption DEF setDeviceIdentity
    <3> HIDE DEF row
    <3> QED BY <3>1, <2>6, SMTT(30)
  <2>9. ASSUME NEW n \in Nodes, seed(n) PROVE FALSE
    BY <2>9, <2>4, RegistryAssumption, SMTT(30) DEF seed
  <2>10. CASE initIfNeeded \/ openScenes \/ SceneStep \/ Publish \/ Restart \/ \E k \in Homes : setHomeId(k)
    BY <2>10 DEF initIfNeeded, openScenes, SceneStep, Publish, Restart, setHomeId, fileVars
  <2> QED BY <2>1, <2>2, <2>4, <2>5, <2>7, <2>8, <2>9, <2>10, Zenon DEF Next
<1> QED BY <1>1, RegistryInvariant, PTL DEF Spec, RowsKept
=============================================================================
