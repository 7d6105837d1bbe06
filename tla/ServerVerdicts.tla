--------------------------- MODULE ServerVerdicts ---------------------------
(***************************************************************************)
(* Proof that a request is refused only for a fault its database had while *)
(* it ran, and that one nothing met is answered only when its database has *)
(* none (VerdictsAreRight).  What others do to the tables only takes away: *)
(* every database that was seen descends from the one at the start         *)
(* (OriginInv).  Each result read is what one of them had (FoundInv), so   *)
(* that a miss in it is a fault of that one, and a pair of columns that    *)
(* may not be compared is a fault of the first.  The SELECT that was built *)
(* names what the request asks for and nothing else (FitsInv), so that     *)
(* what the engine denies of it is a fault too.  For the other half: the   *)
(* request passed its extractors (PassedInv); undisturbed, a SELECT exists *)
(* only where the checks before it found nothing (BuiltInv), and has a     *)
(* result only where the engine found nothing either (SelectedInv).  The   *)
(* same invariants show that an engine which fails under a request nothing *)
(* met has one of the reasons that are named (NoAccidental500).            *)
(***************************************************************************)
EXTENDS ServerProofs

-----------------------------------------------------------------------------
(* What is left of a relation, and of a database, after some edits.        *)

Lasting == {"schema", "name", "oid", "kind", "listed", "checks", "readable", "columns"}
Remains(x, y) ==
    /\ Lasting \subseteq DOMAIN x
    /\ x.schema = y.schema /\ x.name = y.name /\ x.oid = y.oid /\ x.kind = y.kind
    /\ x.listed = y.listed /\ x.checks = y.checks
    /\ ToSet(x.columns) \subseteq ToSet(y.columns)
    /\ x.readable => y.readable
Descends(d, o) ==
    /\ "current" \in DOMAIN d
    /\ d.engine = o.engine /\ d.fork = o.fork /\ d.schemas = o.schemas /\ d.current = o.current
    /\ \A x \in d.tables : \E y \in o.tables : Remains(x, y)

(* A database at the start of a request.                                   *)
Natives == {"number", "text", "folded", "ordered", "none"}
Original(o) ==
    /\ Untouched(o) /\ HasEngine(o) /\ "current" \in DOMAIN o
    /\ \A x \in o.tables :
        /\ {"oid", "kind", "listed", "checks"} \subseteq DOMAIN x
        /\ \A i, j \in DOMAIN x.columns : x.columns[i].name = x.columns[j].name => i = j
        /\ o.engine = "postgres" /\ x.readable => x.listed
        /\ \A k \in ToSet(x.columns) : k.native \in Natives
OriginOf(o, ds) == Original(o) /\ o \in ds /\ \A d \in ds : Descends(d, o)
OriginInv == seen # {} => \E o \in seen : OriginOf(o, seen)

LEMMA OriginalIs == \A s \in ToSet(Sources) : Original(Databases[s])
<1> SUFFICES ASSUME NEW s \in ToSet(Sources) PROVE Original(Databases[s])
  OBVIOUS
<1>1. PICK d : d = Databases[s]
  OBVIOUS
<1>2. /\ "current" \in DOMAIN d
      /\ \A x \in d.tables :
            /\ {"oid", "kind", "listed", "checks"} \subseteq DOMAIN x
            /\ \A i, j \in DOMAIN x.columns : x.columns[i].name = x.columns[j].name => i = j
            /\ d.engine = "postgres" /\ x.readable => x.listed
  BY <1>1, RelationsAssumption
<1>4. \A x \in d.tables : \A k \in ToSet(x.columns) : k.native \in Natives
  BY <1>1, RowsAssumption DEF Natives
<1>3. Untouched(d) /\ HasEngine(d)
  BY <1>1, DatabaseIs, DatabasesAssumption DEF HasEngine
<1> QED BY <1>1, <1>2, <1>3, <1>4 DEF Original

LEMMA OriginDescends == ASSUME NEW o, Original(o) PROVE Descends(o, o)
<1>1. \A x \in o.tables : Lasting \subseteq DOMAIN x
  BY DEF Original, Untouched, Catalogued, Lasting
<1> QED BY <1>1 DEF Original, Descends, Remains

(* What is removed from a sequence leaves members of it.                   *)
LEMMA RemoveKeeps ==
    ASSUME NEW S, NEW s \in Seq(S), NEW i \in DOMAIN s
    PROVE  ToSet(RemoveAt(s, i)) \subseteq ToSet(s)
<1> DEFINE T == ToSet(s)
<1>1. s \in Seq(T)
  BY SelfSeq
<1> HIDE DEF T
<1>2. RemoveAt(s, i) \in Seq(T)
  BY <1>1, RemoveIsSeq
<1>3. \A j \in DOMAIN RemoveAt(s, i) : RemoveAt(s, i)[j] \in T
  BY <1>2
<1> QED BY <1>3 DEF ToSet, T

LEMMA WithoutRemains ==
    ASSUME NEW x, NEW y, NEW c, Remains(x, y), x.columns \in Seq(ToSet(x.columns)), c \in ColumnNames(x)
    PROVE  Remains(Without(x, c), y)
<1> DEFINE z == Without(x, c)
           i == CHOOSE j \in DOMAIN x.columns : x.columns[j].name = c
<1>1. i \in DOMAIN x.columns
  BY DEF ColumnNames
<1>2. ToSet(RemoveAt(x.columns, i)) \subseteq ToSet(x.columns)
  BY <1>1, RemoveKeeps
<1>3. Lasting \subseteq DOMAIN x
  BY DEF Remains
<1>4. /\ DOMAIN z = DOMAIN x /\ z.columns = RemoveAt(x.columns, i)
      /\ z.schema = x.schema /\ z.name = x.name /\ z.oid = x.oid /\ z.kind = x.kind
      /\ z.listed = x.listed /\ z.checks = x.checks /\ z.readable = x.readable
  BY <1>3 DEF Without, Lasting
<1> HIDE DEF z, i
<1>5. Remains(z, y)
  BY <1>2, <1>4 DEF Remains
<1> QED BY <1>5 DEF z

LEMMA RevokedRemains ==
    ASSUME NEW x, NEW y, Remains(x, y)
    PROVE  Remains([x EXCEPT !.readable = FALSE], y)
<1> DEFINE z == [x EXCEPT !.readable = FALSE]
<1>1. Lasting \subseteq DOMAIN x
  BY DEF Remains
<1>2. /\ DOMAIN z = DOMAIN x /\ z.columns = x.columns
      /\ z.schema = x.schema /\ z.name = x.name /\ z.oid = x.oid /\ z.kind = x.kind
      /\ z.listed = x.listed /\ z.checks = x.checks /\ z.readable = FALSE
  BY <1>1 DEF Lasting
<1> HIDE DEF z
<1>3. Remains(z, y)
  BY <1>2 DEF Remains
<1> QED BY <1>3 DEF z

(* No edit creates anything.                                               *)
LEMMA ApplyDescends ==
    ASSUME NEW d, NEW o, Catalogued(d), Descends(d, o), NEW edit, edit.kind \in Edited,
           Applies(d, edit)
    PROVE  Descends(Apply(d, edit), o)
<1> DEFINE e == Apply(d, edit)
           old == TablesAt(d, edit.schema, edit.table)
<1>1. /\ {"engine", "fork", "tables", "schemas", "current"} \subseteq DOMAIN d
      /\ \A x, y \in d.tables : x.schema = y.schema /\ x.name = y.name => x = y
      /\ \A x \in d.tables : x.columns \in Seq(ToSet(x.columns)) /\ \E y \in o.tables : Remains(x, y)
  BY DEF Catalogued, Descends
<1>2. \A x \in old : x \in d.tables /\ x.schema = edit.schema /\ x.name = edit.table
  BY DEF TablesAt
<1>3. SUFFICES /\ "current" \in DOMAIN e
               /\ e.engine = d.engine /\ e.fork = d.fork /\ e.schemas = d.schemas
               /\ e.current = d.current
               /\ \A x \in e.tables : \E y \in o.tables : Remains(x, y)
  BY DEF Descends
<1>4. CASE edit.kind = "drop"
  <2> DEFINE gone(k) ==
            \/ k.schema = edit.schema /\ k.table = edit.table
            \/ d.engine # "sqlite" /\ k.toSchema = edit.schema /\ k.toTable = edit.table
             keys == {k \in d.keys : ~gone(k)}
  <2>1. e = [d EXCEPT !.tables = d.tables \ old, !.keys = keys]
    BY <1>4, Zenon DEF Apply, Altered
  <2> HIDE DEF e, keys, old
  <2> QED BY <1>1, <2>1
<1>5. CASE edit.kind = "drop column"
  <2> DEFINE after == (d.tables \ old) \cup {Without(x, edit.column) : x \in old}
  <2>1. e = [d EXCEPT !.tables = after]
    BY <1>5, Zenon DEF Apply, Altered
  <2>2. PICK x \in old : edit.column \in ColumnNames(x)
    <3>1. PICK x \in old :
            CASE edit.kind = "drop" -> TRUE
              [] edit.kind = "drop column" -> edit.column \in ColumnNames(x) \ Needed(d, x)
              [] edit.kind = "revoke" -> d.engine # "sqlite" /\ x.readable
      BY Zenon DEF Applies, Altered
    <3>2. edit.column \in ColumnNames(x) \ Needed(d, x)
      BY <1>5, <3>1, Zenon
    <3> QED BY <3>2
  <2>3. \A y \in old : y = x
    BY <1>1, <1>2, <2>2
  <2>4. \A z \in old : \E y \in o.tables : Remains(Without(z, edit.column), y)
    BY <1>1, <1>2, <2>2, <2>3, WithoutRemains
  <2>5. \A z \in after : \E y \in o.tables : Remains(z, y)
    BY <1>1, <2>4
  <2> HIDE DEF e, old, after
  <2> QED BY <1>1, <2>1, <2>5
<1>6. CASE edit.kind = "revoke"
  <2> DEFINE after == (d.tables \ old) \cup {[x EXCEPT !.readable = FALSE] : x \in old}
  <2>1. e = [d EXCEPT !.tables = after]
    BY <1>6, Zenon DEF Apply, Altered
  <2>2. \A z \in old : \E y \in o.tables : Remains([z EXCEPT !.readable = FALSE], y)
    BY <1>1, <1>2, RevokedRemains
  <2>3. \A z \in after : \E y \in o.tables : Remains(z, y)
    BY <1>1, <2>2
  <2> HIDE DEF e, old, after
  <2> QED BY <1>1, <2>1, <2>3
<1> QED BY <1>4, <1>5, <1>6, Zenon DEF Edited

(* What was there later was there at the start.                            *)
LEMMA OriginHas ==
    ASSUME NEW o, OriginOf(o, seen), NEW d \in seen, NEW s, NEW t
    PROVE  /\ \A x \in TablesAt(d, s, t) : \E y \in TablesAt(o, s, t) : Remains(x, y)
           /\ \A x \in Relations(d, s, t) : \E y \in Relations(o, s, t) : Remains(x, y)
           /\ Served(d, s, t) => Served(o, s, t)
           /\ \A c : HasColumn(d, s, t, c) => HasColumn(o, s, t, c)
           /\ \A n : SchemaListed(d, n) <=> SchemaListed(o, n)
<1>1. /\ d.engine = o.engine /\ d.schemas = o.schemas
      /\ \A x \in d.tables : \E y \in o.tables : Remains(x, y)
  BY DEF OriginOf, Descends
<1>2. \A x \in TablesAt(d, s, t) : \E y \in TablesAt(o, s, t) : Remains(x, y)
  BY <1>1 DEF TablesAt, Remains
<1>3. \A x \in Relations(d, s, t) : \E y \in Relations(o, s, t) : Remains(x, y)
  BY <1>1, <1>2 DEF Relations, Sq!Located, Remains
<1>4. Served(d, s, t) => Served(o, s, t)
  <2> SUFFICES ASSUME Served(d, s, t) PROVE Served(o, s, t)
    OBVIOUS
  <2>1. PICK x \in TablesAt(d, s, t) : Serves(d, x)
    BY DEF Served
  <2>2. PICK y \in TablesAt(o, s, t) : Remains(x, y)
    BY <1>2, <2>1
  <2>3. Serves(o, y)
    <3>1. x.kind = y.kind /\ x.listed = y.listed /\ (x.readable => y.readable)
      BY <2>2 DEF Remains
    <3>2. CASE d.engine = "postgres"
      BY <1>1, <2>1, <3>1, <3>2 DEF Serves
    <3>3. CASE d.engine = "mysql"
      BY <1>1, <2>1, <3>1, <3>3 DEF Serves
    <3>4. CASE d.engine = "sqlite"
      BY <1>1, <2>1, <3>1, <3>4 DEF Serves
    <3>5. HasEngine(o)
      BY DEF OriginOf, Original
    <3> QED BY <1>1, <3>2, <3>3, <3>4, <3>5 DEF HasEngine
  <2> QED BY <2>2, <2>3 DEF Served
<1>5. \A c : HasColumn(d, s, t, c) => HasColumn(o, s, t, c)
  <2> SUFFICES ASSUME NEW c, HasColumn(d, s, t, c) PROVE HasColumn(o, s, t, c)
    OBVIOUS
  <2>1. PICK x \in Relations(d, s, t) : c \in ColumnNames(x)
    BY DEF HasColumn
  <2>2. PICK y \in Relations(o, s, t) : Remains(x, y)
    BY <1>3, <2>1
  <2>3. c \in ColumnNames(y)
    BY <2>1, <2>2 DEF Remains, ColumnNames, ToSet
  <2> QED BY <2>2, <2>3 DEF HasColumn
<1>6. \A n : SchemaListed(d, n) <=> SchemaListed(o, n)
  BY <1>1 DEF SchemaListed
<1> QED BY <1>2, <1>3, <1>4, <1>5, <1>6

(* A table that was served once is listed as long as it is there.          *)
LEMMA SeenIsListed ==
    ASSUME OriginInv, NEW d \in seen, NEW s, NEW t, TableSeen(s, t), d.engine \in {"postgres", "mysql"}
    PROVE  \A x \in TablesAt(d, s, t) : x.listed
<1>1. PICK o \in seen : OriginOf(o, seen)
  BY DEF OriginInv
<1>2. Served(o, s, t)
  BY <1>1, OriginHas DEF TableSeen
<1>3. PICK y \in TablesAt(o, s, t) : Serves(o, y)
  BY <1>2 DEF Served
<1>4. o.engine = d.engine
  BY <1>1 DEF OriginOf, Descends
<1>5. y.listed
  BY <1>1, <1>3, <1>4 DEF Serves, OriginOf, Original, TablesAt
<1> SUFFICES ASSUME NEW x \in TablesAt(d, s, t) PROVE x.listed
  OBVIOUS
<1>6. PICK z \in TablesAt(o, s, t) : Remains(x, z)
  BY <1>1, OriginHas
<1>7. z = y
  BY <1>1, <1>3, <1>6 DEF TablesAt, OriginOf, Original, Untouched, Catalogued
<1> QED BY <1>5, <1>6, <1>7 DEF Remains

-----------------------------------------------------------------------------
(* What the result v of a statement says of the database d it read.        *)
Finds(known, d, kind, t, v) ==
    LET s == SchemaOf(known)
    IN /\ kind = "schemas" => \A n : n \in v <=> SchemaListed(d, n)
       /\ kind = "default" /\ Engine # "sqlite" => v = d.current
       /\ kind = "gate" => /\ v.ok <=> Served(d, s, t)
                           /\ v.ok => \E x \in TablesAt(d, s, t) : x.oid = v.val
       /\ kind = "tables" => \A n : n \in v <=> Served(d, s, n)
       /\ kind = "columns" =>
            /\ \A c : HasColumn(d, s, t, c) <=> \E i \in DOMAIN v : v[i].name = c
            /\ \A i \in DOMAIN v : \E x \in Relations(d, s, t) : v[i] \in ToSet(x.columns)
       /\ kind = "names" => \A c : HasColumn(d, s, t, c) <=> c \in ToSet(v)
       /\ kind = "json" => v = My!MariadbJsonColumns(d, s, t)

(* What there is before a statement runs.                                  *)
TableKinds == {"columns", "pk", "keys", "json", "names", "stats", "type", "referrers", "indexes",
               "sql", "uniques", "foreign", "view", "checks"}
Rooted(known, kind, t) ==
    /\ kind \notin {"schemas", "default"} => Resolved(known)
    /\ kind \in TableKinds => TableSeen(SchemaOf(known), t)
    /\ kind = "stats" => Has(known, "names", t)
    /\ kind = "type" => Has(known, "stats", t)
    /\ kind = "estimate" => Has(known, "select", None)

Sound(known, k) == Rooted(known, k[1], k[2]) /\ \E d \in seen : Finds(known, d, k[1], k[2], known[k])
Founded(known) == \A k \in DOMAIN known : Sound(known, k)
FoundInv == Founded(read)

LEMMA FindsSchemas ==
    ASSUME HasEngine(db), Engine # "sqlite"
    PROVE  Finds(read, db, "schemas", None, By(Pg!ListSchemas(db), My!ListSchemas(db), {}))
<1>1. By(Pg!ListSchemas(db), My!ListSchemas(db), {})
        = {n \in DOMAIN db.schemas : ~db.schemas[n].system /\ db.schemas[n].usage}
  BY DEF HasEngine, Engine, By, Pg!ListSchemas, My!ListSchemas
<1> QED BY <1>1 DEF Finds, SchemaListed

LEMMA FindsDefault ==
    ASSUME HasEngine(db)
    PROVE  Finds(read, db, "default", None, By(Pg!DefaultSchema(db), My!DefaultSchema(db), None))
<1>1. Engine # "sqlite" => By(Pg!DefaultSchema(db), My!DefaultSchema(db), None) = db.current
  BY DEF HasEngine, Engine, By, Pg!DefaultSchema, My!DefaultSchema
<1> QED BY <1>1 DEF Finds

LEMMA FindsGate ==
    ASSUME OriginInv, db \in seen, Engine = "postgres", NEW t
    PROVE  Finds(read, db, "gate", t, Pg!ReadableTableOid(db, Schema, t))
<1> DEFINE v == Pg!ReadableTableOid(db, Schema, t)
           found == {x \in TablesAt(db, Schema, t) : x.kind = "base" /\ x.readable}
<1>1. v = IF t \in NulNames \/ found = {} THEN Err("unknown_table")
          ELSE Ok((CHOOSE x \in found : TRUE).oid)
  BY DEF Pg!ReadableTableOid, Pg!TablesAt, TablesAt, Pg!Err, Pg!Ok, Err, Ok
<1>2. found # {} => t \notin NulNames
  <2>1. PICK o \in seen : OriginOf(o, seen)
    BY DEF OriginInv
  <2> SUFFICES ASSUME found # {} PROVE t \notin NulNames
    OBVIOUS
  <2>2. PICK y \in TablesAt(o, Schema, t) : TRUE
    BY <2>1, OriginHas
  <2> QED BY <2>1, <2>2 DEF TablesAt, OriginOf, Original, Untouched
<1>3. Served(db, Schema, t) <=> found # {}
  BY DEF Served, Serves, Engine
<1>4. found # {} => (CHOOSE x \in found : TRUE) \in TablesAt(db, Schema, t)
  OBVIOUS
<1> HIDE DEF found
<1>5. v.ok <=> Served(db, Schema, t)
  BY <1>1, <1>2, <1>3 DEF Err, Ok
<1> HIDE DEF v
<1>6. v.ok => \E x \in TablesAt(db, Schema, t) : x.oid = v.val
  <2>1. PICK z : z = CHOOSE x \in found : TRUE
    OBVIOUS
  <2>2. v.ok => found # {} /\ v = Ok(z.oid)
    BY <1>1, <2>1 DEF Err
  <2>3. Ok(z.oid).val = z.oid
    BY DEF Ok
  <2> QED BY <1>4, <2>1, <2>2, <2>3
<1>7. Finds(read, db, "gate", t, v)
  BY <1>5, <1>6 DEF Finds, Schema
<1> QED BY <1>7 DEF v

LEMMA FindsTables ==
    ASSUME HasEngine(db), Engine # "postgres"
    PROVE  Finds(read, db, "tables", None, By({}, My!AllowedTables(db, Schema), Sq!AllowedTables(db)))
<1> DEFINE v == By({}, My!AllowedTables(db, Schema), Sq!AllowedTables(db))
<1>1. ASSUME NEW n PROVE n \in v <=> Served(db, Schema, n)
  <2>1. CASE Engine = "mysql"
    BY <2>1 DEF By, Engine, My!AllowedTables, My!BaseTables, Served, Serves, TablesAt
  <2>2. CASE Engine = "sqlite"
    BY <2>2 DEF By, Engine, Schema, SchemaOf, Sq!AllowedTables, Sq!ServedTables, Served, Serves, TablesAt
  <2> QED BY <2>1, <2>2 DEF HasEngine, Engine
<1> HIDE DEF v
<1>2. Finds(read, db, "tables", None, v)
  BY <1>1 DEF Finds, Schema
<1> QED BY <1>2 DEF v

(* The columns that the engines' own listings give of a table.             *)
ColumnsOf(t) ==
    LET found == IF Engine = "sqlite" THEN Sq!Located(db, t) ELSE TablesAt(db, Schema, t)
    IN IF found = {} THEN <<>> ELSE (CHOOSE x \in found : TRUE).columns

LEMMA ColumnsAre ==
    ASSUME CatalogueInv, OriginInv, db \in seen, HasEngine(db), NEW t, TableSeen(Schema, t)
    PROVE  /\ \A c : HasColumn(db, Schema, t, c) <=> \E i \in DOMAIN ColumnsOf(t) : ColumnsOf(t)[i].name = c
           /\ \A i \in DOMAIN ColumnsOf(t) :
                \E x \in Relations(db, Schema, t) : ColumnsOf(t)[i] \in ToSet(x.columns)
           /\ Engine = "postgres" => Pg!InformationColumns(db, Schema, t) = ColumnsOf(t)
           /\ Engine = "mysql" => My!TableColumns(db, Schema, t) = ColumnsOf(t)
           /\ Engine = "sqlite" => Sq!TableColumns(db, t) = ColumnsOf(t)
<1> DEFINE found == Relations(db, Schema, t)
           x == CHOOSE y \in found : TRUE
<1>1. ColumnsOf(t) = IF found = {} THEN <<>> ELSE x.columns
  BY DEF ColumnsOf, Relations, Engine
<1>2. \A y, z \in found : y = z
  <2>1. CASE Engine # "sqlite"
    BY <2>1 DEF Relations, TablesAt, Engine, CatalogueInv, Catalogued
  <2>2. CASE Engine = "sqlite"
    <3>1. PICK o \in seen : OriginOf(o, seen)
      BY DEF OriginInv
    <3>2. o.engine = "sqlite" /\ \A y, z \in o.tables : Fold[y.name] = Fold[z.name] => y = z
      BY <2>2, <3>1 DEF OriginOf, Descends, Original, Untouched, Engine
    <3> SUFFICES ASSUME NEW y \in found, NEW z \in found PROVE y = z
      OBVIOUS
    <3>3. y \in db.tables /\ z \in db.tables /\ Fold[y.name] = Fold[t] /\ Fold[z.name] = Fold[t]
      BY <2>2 DEF Relations, Sq!Located, Engine
    <3>4. PICK y2 \in o.tables : Remains(y, y2)
      BY <3>1, <3>3 DEF OriginOf, Descends
    <3>5. PICK z2 \in o.tables : Remains(z, z2)
      BY <3>1, <3>3 DEF OriginOf, Descends
    <3>6. y2 = z2
      BY <3>2, <3>3, <3>4, <3>5 DEF Remains
    <3>7. y.schema = z.schema /\ y.name = z.name
      BY <3>4, <3>5, <3>6 DEF Remains
    <3> QED BY <3>3, <3>7 DEF CatalogueInv, Catalogued
  <2> QED BY <2>1, <2>2
<1>3. found # {} => x \in found
  OBVIOUS
<1>4. Engine \in {"postgres", "mysql"} => {y \in TablesAt(db, Schema, t) : y.listed} = found
  BY SeenIsListed DEF Relations, Engine
<1>5. Engine = "postgres" => Pg!InformationColumns(db, Schema, t) = ColumnsOf(t)
  BY <1>1, <1>4 DEF Pg!InformationColumns, Pg!TablesAt, TablesAt
<1>6. Engine = "mysql" => My!TableColumns(db, Schema, t) = ColumnsOf(t)
  BY <1>1, <1>4 DEF My!TableColumns, My!TablesAt, TablesAt
<1>7. Engine = "sqlite" => Sq!TableColumns(db, t) = ColumnsOf(t)
  BY DEF Sq!TableColumns, ColumnsOf
<1> HIDE DEF found, x
<1>8. \A c : HasColumn(db, Schema, t, c) <=> \E i \in DOMAIN ColumnsOf(t) : ColumnsOf(t)[i].name = c
  BY <1>1, <1>2, <1>3 DEF HasColumn, ColumnNames, found
<1>9. \A i \in DOMAIN ColumnsOf(t) : \E y \in found : ColumnsOf(t)[i] \in ToSet(y.columns)
  BY <1>1, <1>3 DEF ToSet
<1> QED BY <1>5, <1>6, <1>7, <1>8, <1>9 DEF found
(* Postgres describes the relation that passed the gate.                   *)
LEMMA FindsColumns ==
    ASSUME CatalogueInv, OriginInv, FoundInv, db \in seen, HasEngine(db), NEW t,
           TableSeen(Schema, t),
           Engine = "postgres" => Has(read, "gate", t) /\ read[<<"gate", t>>].ok
    PROVE  Finds(read, db, "columns", t,
                 By(Pg!TableColumns(db, Schema, t, read[<<"gate", t>>].val),
                    My!TableColumns(db, Schema, t), Sq!TableColumns(db, t)))
<1> DEFINE oid == read[<<"gate", t>>].val
           v == By(Pg!TableColumns(db, Schema, t, oid), My!TableColumns(db, Schema, t),
                   Sq!TableColumns(db, t))
<1>1. /\ \A c : HasColumn(db, Schema, t, c) <=> \E i \in DOMAIN ColumnsOf(t) : ColumnsOf(t)[i].name = c
      /\ \A i \in DOMAIN ColumnsOf(t) :
            \E x \in Relations(db, Schema, t) : ColumnsOf(t)[i] \in ToSet(x.columns)
      /\ Engine = "postgres" => Pg!InformationColumns(db, Schema, t) = ColumnsOf(t)
      /\ Engine = "mysql" => My!TableColumns(db, Schema, t) = ColumnsOf(t)
      /\ Engine = "sqlite" => Sq!TableColumns(db, t) = ColumnsOf(t)
  BY ColumnsAre
<1>2. CASE Engine = "postgres"
  <2>1. v = Pg!TableColumns(db, Schema, t, oid)
    BY <1>2 DEF By
  <2>2. \A x \in TablesAt(db, Schema, t) : x.oid = oid
    <3>1. PICK o \in seen : OriginOf(o, seen)
      BY DEF OriginInv
    <3>2. PICK d \in seen : Finds(read, d, "gate", t, read[<<"gate", t>>])
      BY <1>2 DEF FoundInv, Founded, Sound, Has
    <3>3. PICK y \in TablesAt(d, Schema, t) : y.oid = oid
      BY <1>2, <3>2 DEF Finds, Schema
    <3>4. PICK z \in TablesAt(o, Schema, t) : Remains(y, z)
      BY <3>1, <3>3, OriginHas
    <3> SUFFICES ASSUME NEW x \in TablesAt(db, Schema, t) PROVE x.oid = oid
      OBVIOUS
    <3>5. PICK w \in TablesAt(o, Schema, t) : Remains(x, w)
      BY <3>1, OriginHas
    <3>6. w = z
      BY <3>1, <3>4, <3>5 DEF TablesAt, OriginOf, Original, Untouched, Catalogued
    <3> QED BY <3>3, <3>4, <3>5, <3>6 DEF Remains
  <2>3. v = IF TablesAt(db, Schema, t) # {} THEN Pg!InformationColumns(db, Schema, t) ELSE <<>>
    BY <2>1, <2>2 DEF Pg!TableColumns, Pg!TablesAt, TablesAt
  <2>4. TablesAt(db, Schema, t) = {} => ColumnsOf(t) = <<>>
    BY <1>2 DEF ColumnsOf
  <2> QED BY <1>1, <1>2, <2>3, <2>4 DEF Finds, Schema
<1>3. CASE Engine = "mysql"
  <2>1. v = ColumnsOf(t)
    BY <1>1, <1>3 DEF By
  <2> QED BY <1>1, <2>1 DEF Finds, Schema
<1>4. CASE Engine = "sqlite"
  <2>1. v = ColumnsOf(t)
    BY <1>1, <1>4 DEF By
  <2> QED BY <1>1, <2>1 DEF Finds, Schema
<1> QED BY <1>2, <1>3, <1>4 DEF HasEngine, Engine

LEMMA FindsNames ==
    ASSUME CatalogueInv, OriginInv, db \in seen, HasEngine(db), NEW t, TableSeen(Schema, t)
    PROVE  Finds(read, db, "names", t,
                 By(Pg!AllowedColumns(db, Schema, t), My!AllowedColumns(db, Schema, t),
                    Sq!AllowedColumns(db, t)))
<1> DEFINE v == By(Pg!AllowedColumns(db, Schema, t), My!AllowedColumns(db, Schema, t),
                   Sq!AllowedColumns(db, t))
<1>1. \A c : HasColumn(db, Schema, t, c) <=> \E i \in DOMAIN ColumnsOf(t) : ColumnsOf(t)[i].name = c
  BY ColumnsAre
<1>2. v = Names(ColumnsOf(t))
  <2>1. CASE Engine = "postgres"
    <3>1. Pg!InformationColumns(db, Schema, t) = ColumnsOf(t)
      BY <2>1, ColumnsAre
    <3> QED BY <2>1, <3>1 DEF By, Names, Pg!AllowedColumns
  <2>2. CASE Engine = "mysql"
    <3>1. My!TableColumns(db, Schema, t) = ColumnsOf(t)
      BY <2>2, ColumnsAre
    <3> QED BY <2>2, <3>1 DEF By, Names, My!AllowedColumns
  <2>3. CASE Engine = "sqlite"
    <3>1. Sq!TableColumns(db, t) = ColumnsOf(t)
      BY <2>3, ColumnsAre
    <3> QED BY <2>3, <3>1 DEF By, Names, Sq!AllowedColumns
  <2> QED BY <2>1, <2>2, <2>3 DEF HasEngine, Engine
<1>3. \A c : (\E i \in DOMAIN ColumnsOf(t) : ColumnsOf(t)[i].name = c) <=> c \in ToSet(Names(ColumnsOf(t)))
  BY DEF ToSet, Names
<1> HIDE DEF v
<1>4. Finds(read, db, "names", t, v)
  BY <1>1, <1>2, <1>3 DEF Finds, Schema
<1> QED BY <1>4 DEF v

LEMMA FindsJson ==
    ASSUME NEW t
    PROVE  Finds(read, db, "json", t, My!MariadbJsonColumns(db, Schema, t))
BY DEF Finds, Schema

(* The results no verdict looks at.                                        *)
LEMMA FindsOther ==
    ASSUME NEW kind, NEW t, NEW v,
           kind \notin {"schemas", "default", "gate", "tables", "columns", "names", "json"}
    PROVE  Finds(read, db, kind, t, v)
BY DEF Finds
-----------------------------------------------------------------------------
(* Results stay sound: nothing seen is forgotten, and what a handler       *)
(* learns leaves what it knows.                                            *)
LEMMA SoundStable ==
    ASSUME NEW known, NEW k, req' = req, seen \subseteq seen', Engine' = Engine, Sound(known, k)
    PROVE  Sound(known, k)'
<1>1. SchemaOf(known)' = SchemaOf(known) /\ (Resolved(known) => Resolved(known)')
  BY DEF SchemaOf, Resolved, Has
<1>2. \A s, t : TableSeen(s, t) => TableSeen(s, t)'
  BY DEF TableSeen
<1>3. Rooted(known, k[1], k[2])'
  BY <1>1, <1>2 DEF Sound, Rooted, Has
<1>4. PICK d \in seen : Finds(known, d, k[1], k[2], known[k])
  BY DEF Sound
<1>5. Finds(known, d, k[1], k[2], known[k])'
  BY <1>1, <1>4 DEF Finds
<1> QED BY <1>3, <1>4, <1>5 DEF Sound

Extends(known, kind, t, value) ==
    /\ DOMAIN known = DOMAIN read \cup {<<kind, t>>}
    /\ \A k \in DOMAIN read : known[k] = read[k]
    /\ known[<<kind, t>>] = value
LEMMA SoundExtends ==
    ASSUME FoundInv, db \in seen, NEW kind, NEW t, NEW value, NEW known,
           Extends(known, kind, t, value),
           Rooted(read, kind, t), Finds(read, db, kind, t, value),
           kind \in TableKinds \cup {"gate", "tables"} => Resolved(read)
    PROVE  Founded(known)
<1>1. Resolved(read) => Resolved(known) /\ SchemaOf(known) = SchemaOf(read)
  BY DEF Resolved, SchemaOf, Has, Extends
<1>2. \A n, u : Has(read, n, u) => Has(known, n, u)
  BY DEF Has, Extends
<1>3. ASSUME NEW n, NEW u, Rooted(read, n, u) PROVE Rooted(known, n, u)
  BY <1>1, <1>2, <1>3 DEF Rooted, TableKinds
<1>4. ASSUME NEW d, NEW n, NEW u, NEW v, Rooted(read, n, u), Finds(read, d, n, u, v)
      PROVE  Finds(known, d, n, u, v)
  BY <1>1, <1>4 DEF Rooted, Finds
<1>5. \A k \in DOMAIN read : Sound(known, k)
  <2> SUFFICES ASSUME NEW k \in DOMAIN read PROVE Sound(known, k)
    OBVIOUS
  <2>1. PICK d \in seen : Finds(read, d, k[1], k[2], read[k])
    BY DEF FoundInv, Founded, Sound
  <2>2. Rooted(read, k[1], k[2])
    BY DEF FoundInv, Founded, Sound
  <2>3. known[k] = read[k]
    BY DEF Extends
  <2> QED BY <1>3, <1>4, <2>1, <2>2, <2>3 DEF Sound
<1>6. Sound(known, <<kind, t>>)
  BY <1>3, <1>4 DEF Sound, Extends
<1> QED BY <1>5, <1>6 DEF Founded, Extends

-----------------------------------------------------------------------------
(* What the statements on a table's keys find.                             *)
KeysAmong(t, v, s, pks) ==
    LET keys == By(Pg!KeyMetadata(db, s, t), My!KeyMetadata(db, s, t),
                   [pk |-> pks, references |-> Sq!KeyReferences(db, t)])
    IN \E refs \in keys.references : v = [pk |-> keys.pk, references |-> refs]
Referrers(known, t) ==
    By(Pg!ReferencedBy(db, SchemaOf(known), known[<<"gate", t>>].val),
       My!ReferencedBy(db, SchemaOf(known), t, known[<<"tables", None>>]),
       Sq!ReferencedBy(db, t))
Keyed(kind, t, value) ==
    /\ kind = "pk" => Engine = "sqlite" /\ value = Sq!PkColumns(db, t)
    /\ kind = "keys" =>
        /\ Engine = "sqlite" => Has(read, "pk", t)
        /\ KeysAmong(t, value, SchemaOf(read), read[<<"pk", t>>])
    /\ kind = "referrers" => Cleared(read, t) /\ value = Referrers(read, t)

(* The steps, by what they do to what is known.                            *)
Finding(kind, t, value) ==
    /\ Statement(kind, t) /\ Learn(kind, t, value)
    /\ Finds(read, db, kind, t, value) /\ Rooted(read, kind, t)
    /\ kind = "select" =>
        sql # None /\ Evaluate(db, sql).ok /\ value = Evaluate(db, sql).val
    /\ Keyed(kind, t, value)
Denies ==
    /\ Statement("select", None) /\ sql # None
    /\ \E result \in Outcomes(db, sql) :
        ~result.ok /\ answer' = Problem(SelectError(result.code))
    /\ UNCHANGED <<db, req, read, sql, seen, disturbed>>
GivesUp ==
    /\ Runs /\ UNCHANGED <<db, req, read, sql, seen>> /\ (disturbed' \/ UNCHANGED disturbed)
    /\ \E code \in Failures :
        answer' = Problem(code) /\ (code = "database_error" => disturbed')
Pauses == UNCHANGED <<db, req, read, sql, seen, disturbed, answer>> /\ (Knows => UNCHANGED variant)

GroundInv == OriginInv /\ FoundInv /\ (sql # None => Resolved(read))

LEMMA HadRoot ==
    ASSUME FoundInv, NEW kind \in TableKinds, NEW t, Has(read, kind, t)
    PROVE  Resolved(read) /\ TableSeen(SchemaOf(read), t)
<1>1. Rooted(read, kind, t)
  BY DEF FoundInv, Founded, Sound, Has
<1> QED BY <1>1 DEF Rooted, TableKinds

(* A table whose turn it is was found by its lookup.                       *)
LEMMA GatePassed ==
    ASSUME IInv, Runs, NEW t \in ToSet(NameOrder), Cleared1(t), Engine = "postgres"
    PROVE  Has(read, "gate", t) /\ read[<<"gate", t>>].ok
<1>1. t = Current(read) /\ Cleared(read, t)
  BY DEF Cleared1
<1>2. Open(read) # {}
  BY <1>1, NamesAssumption DEF Current
<1>3. ~Missed(read, t)
  BY <1>1, <1>2 DEF IInv, LookedInv, TableFault, Err
<1> QED BY <1>1, <1>3 DEF Missed, Cleared

LEMMA SchemaSteps ==
    ASSUME IInv, AInv, GroundInv, ListSchemas \/ DefaultSchema \/ AllowedTables
    PROVE  \E kind, t, value : Finding(kind, t, value)
<1>1. db \in seen /\ HasEngine(db)
  BY DEF ListSchemas, DefaultSchema, AllowedTables, Statement, IInv, SeenInv
<1>2. CASE ListSchemas
  <2>1. Finds(read, db, "schemas", None, By(Pg!ListSchemas(db), My!ListSchemas(db), {}))
    BY <1>1, <1>2, FindsSchemas DEF ListSchemas
  <2>2. Rooted(read, "schemas", None)
    BY DEF Rooted, TableKinds
  <2>3. Finding("schemas", None, By(Pg!ListSchemas(db), My!ListSchemas(db), {}))
    BY <1>2, <2>1, <2>2 DEF ListSchemas, Finding, Keyed
  <2> QED BY <2>3
<1>3. CASE DefaultSchema
  <2>1. Finds(read, db, "default", None, By(Pg!DefaultSchema(db), My!DefaultSchema(db), None))
    BY <1>1, FindsDefault
  <2>2. Rooted(read, "default", None)
    BY DEF Rooted, TableKinds
  <2>3. Finding("default", None, By(Pg!DefaultSchema(db), My!DefaultSchema(db), None))
    BY <1>3, <2>1, <2>2 DEF DefaultSchema, Finding, Keyed
  <2> QED BY <2>3
<1>4. CASE AllowedTables
  <2> DEFINE v == By({}, My!AllowedTables(db, Schema), Sq!AllowedTables(db))
  <2>1. Finds(read, db, "tables", None, v)
    BY <1>1, <1>4, FindsTables DEF AllowedTables
  <2>2. Rooted(read, "tables", None)
    BY <1>4 DEF Rooted, TableKinds, AllowedTables, InSchema
  <2>3. Finding("tables", None, v)
    BY <1>4, <2>1, <2>2 DEF AllowedTables, Finding, Keyed
  <2> QED BY <2>3
<1> QED BY <1>2, <1>3, <1>4

LEMMA GateStep ==
    ASSUME IInv, AInv, GroundInv, NEW t \in ToSet(NameOrder), ReadableTable(t)
    PROVE  \E kind, value : Finding(kind, t, value)
<1>1. db \in seen /\ HasEngine(db)
  BY DEF ReadableTable, Statement, IInv, SeenInv
<1>2. Finds(read, db, "gate", t, Pg!ReadableTableOid(db, Schema, t))
  BY <1>1, FindsGate DEF ReadableTable, GroundInv
<1>3. Rooted(read, "gate", t)
  BY DEF Rooted, TableKinds, ReadableTable, InSchema
<1>4. Finding("gate", t, Pg!ReadableTableOid(db, Schema, t))
  BY <1>2, <1>3 DEF ReadableTable, Finding, Keyed
<1> QED BY <1>4
LEMMA OtherFinds ==
    ASSUME NEW kind, NEW t, NEW value, Statement(kind, t), Learn(kind, t, value),
           kind \notin {"schemas", "default", "gate", "tables", "columns", "names", "json", "select"},
           Rooted(read, kind, t), Keyed(kind, t, value)
    PROVE  Finding(kind, t, value)
BY FindsOther DEF Finding

LEMMA ColumnSteps ==
    ASSUME IInv, AInv, GroundInv, NEW t \in ToSet(NameOrder),
           ReadColumns(t) \/ ReadNames(t) \/ ReadJsonColumns(t)
    PROVE  \E kind, value : Finding(kind, t, value)
<1>1. Runs /\ Cleared1(t)
  BY DEF ReadColumns, ReadNames, ReadJsonColumns, Statement
<1>2. db \in seen /\ HasEngine(db)
  BY <1>1 DEF IInv, SeenInv
<1>3. Resolved(read) /\ TableSeen(SchemaOf(read), t)
  BY <1>1, ClearedSeen
<1>4. \A kind \in {"columns", "names", "json"} : Rooted(read, kind, t)
  BY <1>3 DEF Rooted, TableKinds
<1>5. CASE ReadColumns(t)
  <2> DEFINE v == By(Pg!TableColumns(db, Schema, t, read[<<"gate", t>>].val),
                     My!TableColumns(db, Schema, t), Sq!TableColumns(db, t))
  <2>1. Finds(read, db, "columns", t, v)
    BY <1>1, <1>2, <1>3, GatePassed, FindsColumns DEF GroundInv, AInv, Schema
  <2>2. Statement("columns", t) /\ Learn("columns", t, v)
    BY <1>5 DEF ReadColumns
  <2> HIDE DEF v
  <2>3. Finding("columns", t, v)
    BY <1>4, <2>1, <2>2 DEF Finding, Keyed
  <2> QED BY <2>3
<1>6. CASE ReadNames(t)
  <2> DEFINE v == By(Pg!AllowedColumns(db, Schema, t), My!AllowedColumns(db, Schema, t),
                     Sq!AllowedColumns(db, t))
  <2>1. Finds(read, db, "names", t, v)
    BY <1>2, <1>3, FindsNames DEF GroundInv, AInv, Schema
  <2>2. Statement("names", t) /\ Learn("names", t, v)
    BY <1>6 DEF ReadNames
  <2> HIDE DEF v
  <2>3. Finding("names", t, v)
    BY <1>4, <2>1, <2>2 DEF Finding, Keyed
  <2> QED BY <2>3
<1>7. CASE ReadJsonColumns(t)
  <2> DEFINE v == My!MariadbJsonColumns(db, Schema, t)
  <2>1. Finds(read, db, "json", t, v)
    BY FindsJson
  <2>2. Statement("json", t) /\ Learn("json", t, v)
    BY <1>7 DEF ReadJsonColumns
  <2> HIDE DEF v
  <2>3. Finding("json", t, v)
    BY <1>4, <2>1, <2>2 DEF Finding, Keyed
  <2> QED BY <2>3
<1> QED BY <1>5, <1>6, <1>7

LEMMA MetaSteps ==
    ASSUME IInv, AInv, GroundInv, NEW t \in ToSet(NameOrder),
           ReadPrimaryKey(t) \/ ReadKeys(t) \/ ReadReferrers(t) \/ ReadIndexes(t)
    PROVE  \E kind, value : Finding(kind, t, value)
<1>1. Runs /\ Cleared1(t)
  BY DEF ReadPrimaryKey, ReadKeys, ReadReferrers, ReadIndexes, Statement
<1>2. Resolved(read) /\ TableSeen(SchemaOf(read), t)
  BY <1>1, ClearedSeen
<1>3. \A kind \in {"pk", "keys", "referrers", "indexes"} : Rooted(read, kind, t)
  BY <1>2 DEF Rooted, TableKinds
<1>4. ASSUME NEW kind \in {"pk", "keys", "referrers", "indexes"}, NEW v,
             Statement(kind, t), Learn(kind, t, v), Keyed(kind, t, v)
      PROVE  \E k, w : Finding(k, t, w)
  BY <1>3, <1>4, OtherFinds
<1>5. CASE ReadPrimaryKey(t)
  <2>1. Keyed("pk", t, Sq!PkColumns(db, t))
    BY <1>5 DEF ReadPrimaryKey, Keyed
  <2> QED BY <1>4, <1>5, <2>1 DEF ReadPrimaryKey
<1>6. CASE ReadKeys(t)
  <2>1. PICK v : /\ KeysAmong(t, v, SchemaOf(read), read[<<"pk", t>>])
                 /\ Statement("keys", t) /\ Learn("keys", t, v)
                 /\ Engine = "sqlite" => Has(read, "pk", t)
    BY <1>6 DEF ReadKeys, KeysAmong, Schema
  <2>2. Keyed("keys", t, v)
    BY <2>1 DEF Keyed
  <2> QED BY <1>4, <2>1, <2>2
<1>7. CASE ReadReferrers(t)
  <2>1. Statement("referrers", t) /\ Learn("referrers", t, Referrers(read, t))
    BY <1>7 DEF ReadReferrers, Referrers, Schema
  <2>2. Keyed("referrers", t, Referrers(read, t))
    BY <1>1 DEF Keyed, Cleared1
  <2> QED BY <1>4, <2>1, <2>2
<1>8. CASE ReadIndexes(t)
  <2> DEFINE v == By(Pg!Indexes(db, read[<<"gate", t>>].val),
                     My!Indexes(db, Schema, t, variant), Sq!Indexes(db, t))
  <2>1. Keyed("indexes", t, v)
    BY DEF Keyed
  <2> QED BY <1>4, <1>8, <2>1 DEF ReadIndexes
<1> QED BY <1>5, <1>6, <1>7, <1>8

LEMMA LaterSteps ==
    ASSUME GroundInv, NEW t,
           \/ ReadStatistics(t) \/ ReadType(t) \/ ReadIndexSql(t) \/ ReadUniques(t)
           \/ ReadForeignKeys(t) \/ ReadChecksView(t) \/ ReadChecks(t)
    PROVE  \E kind, value : Finding(kind, t, value)
<1> DEFINE Later == {"stats", "type", "sql", "uniques", "foreign", "view", "checks"}
<1>1. \E kind \in {"names", "stats", "indexes", "uniques", "foreign"} : Has(read, kind, t)
  BY DEF ReadStatistics, ReadType, ReadIndexSql, ReadUniques, ReadForeignKeys, ReadChecksView,
         ReadChecks
<1>2. Resolved(read) /\ TableSeen(SchemaOf(read), t)
  BY <1>1, HadRoot DEF TableKinds, GroundInv
<1>3. ASSUME NEW kind \in Later, NEW v, Statement(kind, t), Learn(kind, t, v),
             kind = "stats" => Has(read, "names", t), kind = "type" => Has(read, "stats", t)
      PROVE  \E k, w : Finding(k, t, w)
  <2>1. Rooted(read, kind, t)
    BY <1>2, <1>3 DEF Rooted, TableKinds
  <2> QED BY <1>3, <2>1, OtherFinds DEF Keyed
<1>4. CASE ReadStatistics(t)
  BY <1>3, <1>4 DEF ReadStatistics
<1>5. CASE ReadType(t)
  BY <1>3, <1>5 DEF ReadType
<1>6. CASE ReadIndexSql(t)
  BY <1>3, <1>6 DEF ReadIndexSql
<1>7. CASE ReadUniques(t)
  BY <1>3, <1>7 DEF ReadUniques
<1>8. CASE ReadForeignKeys(t)
  BY <1>3, <1>8 DEF ReadForeignKeys
<1>9. CASE ReadChecksView(t)
  BY <1>3, <1>9 DEF ReadChecksView
<1>10. CASE ReadChecks(t)
  BY <1>3, <1>10 DEF ReadChecks
<1> QED BY <1>4, <1>5, <1>6, <1>7, <1>8, <1>9, <1>10

LEMMA RowSteps ==
    ASSUME GroundInv, ListTables \/ TableCounts \/ EstimateRows \/ Select
    PROVE  (\E kind, t, value : Finding(kind, t, value)) \/ Denies
<1>1. CASE ListTables \/ TableCounts
  <2>1. Rooted(read, "list", None)
    BY <1>1 DEF ListTables, TableCounts, InSchema, Rooted, TableKinds
  <2>2. PICK v : Statement("list", None) /\ Learn("list", None, v)
    BY <1>1 DEF ListTables, TableCounts
  <2> QED BY <2>1, <2>2, OtherFinds DEF Keyed
<1>2. CASE EstimateRows
  <2>1. Has(read, "select", None)
    BY <1>2 DEF EstimateRows
  <2>2. Rooted(read, "select", None)
    BY <2>1 DEF GroundInv, FoundInv, Founded, Sound, Has
  <2>3. Rooted(read, "estimate", None)
    BY <2>1, <2>2 DEF Rooted, TableKinds
  <2>4. PICK v : Statement("estimate", None) /\ Learn("estimate", None, v)
    BY <1>2 DEF EstimateRows
  <2> QED BY <2>3, <2>4, OtherFinds DEF Keyed
<1>3. CASE Select
  <2>1. Statement("select", None) /\ sql # None
    BY <1>3 DEF Select
  <2>4. PICK result \in Outcomes(db, sql) :
            IF result.ok THEN Learn("select", None, result.val)
            ELSE Refuse(SelectError(result.code)) /\ UNCHANGED disturbed
    BY <1>3 DEF Select
  <2>2. CASE result.ok
    <3>1. Rooted(read, "select", None)
      BY <2>1 DEF Rooted, TableKinds, GroundInv
    <3>2. result = Evaluate(db, sql)
      BY <2>2, OutcomesAre DEF Err
    <3>3. Finding("select", None, result.val)
      BY <2>1, <2>2, <2>4, <3>1, <3>2, FindsOther DEF Finding, Keyed
    <3> QED BY <3>3
  <2>3. CASE ~result.ok
    <3>1. Denies
      BY <2>1, <2>3, <2>4 DEF Refuse, Denies
    <3> QED BY <3>1
  <2> QED BY <2>2, <2>3
<1> QED BY <1>1, <1>2, <1>3

LEMMA MoveIs ==
    ASSUME IInv, AInv, GroundInv, [Next]_vars
    PROVE  \/ \E kind, t, value : Finding(kind, t, value)
           \/ Denies \/ GivesUp \/ Pauses \/ Receive
           \/ \E edit \in Edits : Alter(edit)
           \/ \E i \in Checked : HealthCheck(i)
           \/ \E r \in Requests : Ask(r)
<1> DEFINE Found == \E kind, t, value : Finding(kind, t, value)
           Goal == \/ Found \/ Denies \/ GivesUp \/ Pauses \/ Receive
                   \/ \E edit \in Edits : Alter(edit)
                   \/ \E i \in Checked : HealthCheck(i)
                   \/ \E r \in Requests : Ask(r)
<1> SUFFICES Goal
  OBVIOUS
<1>1. Version \/ Lock \/ Unlock \/ UNCHANGED vars => Pauses
  BY DEF Version, Lock, Unlock, vars, Pauses
<1>2. Expire \/ Busy \/ Fail => GivesUp
  BY DEF Expire, Busy, Fail, Refuse, Meddles, GivesUp, Failures
<1>3. ListSchemas \/ DefaultSchema \/ AllowedTables => Found
  BY SchemaSteps
<1>4. ListTables \/ TableCounts \/ EstimateRows \/ Select => Found \/ Denies
  BY RowSteps
<1>5. ASSUME NEW t \in ToSet(NameOrder),
             \/ ReadableTable(t) \/ ReadColumns(t) \/ ReadPrimaryKey(t) \/ ReadKeys(t)
             \/ ReadJsonColumns(t) \/ ReadNames(t) \/ ReadStatistics(t) \/ ReadType(t)
             \/ ReadReferrers(t) \/ ReadIndexes(t) \/ ReadIndexSql(t) \/ ReadUniques(t)
             \/ ReadForeignKeys(t) \/ ReadChecksView(t) \/ ReadChecks(t)
      PROVE  Found
  <2>1. CASE ReadableTable(t)
    BY <2>1, GateStep
  <2>2. CASE ReadColumns(t) \/ ReadNames(t) \/ ReadJsonColumns(t)
    BY <2>2, ColumnSteps
  <2>3. CASE ReadPrimaryKey(t) \/ ReadKeys(t) \/ ReadReferrers(t) \/ ReadIndexes(t)
    BY <2>3, MetaSteps
  <2>4. CASE \/ ReadStatistics(t) \/ ReadType(t) \/ ReadIndexSql(t) \/ ReadUniques(t)
             \/ ReadForeignKeys(t) \/ ReadChecksView(t) \/ ReadChecks(t)
    BY <2>4, LaterSteps
  <2> QED BY <1>5, <2>1, <2>2, <2>3, <2>4
<1> HIDE DEF Found
<1>6. Goal
  BY <1>1, <1>2, <1>3, <1>4, <1>5, Zenon DEF Next, Handle, World
<1> QED BY <1>6
-----------------------------------------------------------------------------
(* A refusal with a reason: a fault of the request, or one that a database *)
(* had that was seen.                                                      *)
Reasoned(code) ==
    \/ code = "invalid_parameter" /\ BadParameter(req)
    \/ \E d \in seen : Faulty(req, d, code)
Just(result) == ~result.ok => Reasoned(result.code)

LEMMA JustThen ==
    ASSUME NEW a, NEW b, Just(a), a.ok => Just(b)
    PROVE  Just(AndThen(a, b))
BY DEF AndThen, Just

LEMMA JustOk == \A v : Just(Ok(v))
BY DEF Just, Ok

LEMMA JustErr == ASSUME NEW code, Reasoned(code) PROVE Just(Err(code))
BY DEF Just, Err

LEMMA JustFirst ==
    ASSUME NEW results, DOMAIN results \subseteq Nat, \A i \in DOMAIN results : Just(results[i])
    PROVE  Just(FirstError(results))
<1> DEFINE bad == {i \in DOMAIN results : ~results[i].ok}
<1>1. CASE bad = {}
  BY <1>1, JustOk DEF FirstError
<1>2. CASE bad # {}
  <2>1. Min(bad) \in bad
    <3>1. bad \subseteq Nat
      OBVIOUS
    <3> HIDE DEF bad
    <3>2. \E m \in bad : \A k \in bad : m <= k
      BY <1>2, <3>1, LeastOf
    <3> QED BY <3>2 DEF Min
  <2>2. FirstError(results) = Err(results[Min(bad)].code)
    BY <1>2 DEF FirstError
  <2>3. Reasoned(results[Min(bad)].code)
    BY <2>1 DEF Just
  <2> QED BY <2>2, <2>3, JustErr
<1> QED BY <1>1, <1>2

(* The faults by their codes.                                              *)
Plain(r) ==
    /\ r.route \in {"data", "join"} /\ FilterParses(r)
    /\ IsJoin(r) => JoinParses(r)
    /\ r.sortJoin # Malformed
(* It sorts by a column whose values have no order.                        *)
Disordered(r, d) ==
    \E w \in SortsBy(r) :
        /\ HasColumn(d, SchemaAsked(r, d), w[1], w[2])
        /\ Column(d, SchemaAsked(r, d), w[1], w[2]).native = "none"
LEMMA FaultyIs ==
    ASSUME NEW r, NEW d
    PROVE  LET s == SchemaAsked(r, d) IN
           /\ Faulty(r, d, "unknown_schema") <=>
                /\ r.route # "schemas"
                /\ IF d.engine = "sqlite" THEN r.schema \notin {None, Sq!OnlySchema}
                   ELSE ~SchemaListed(d, s)
           /\ Faulty(r, d, "unknown_table") <=>
                /\ r.route \in {"data", "values", "referrers", "structure"}
                /\ ~Served(d, s, r.table)
           /\ Faulty(r, d, "unknown_column") <=>
                \/ r.route = "values" /\ ~HasColumn(d, s, r.table, r.column)
                \/ Plain(r) /\ \E w \in SortsBy(r) \cup FiltersBy(r) : ~HasColumn(d, s, w[1], w[2])
           /\ Faulty(r, d, "invalid_join") <=> BadJoin(r, d, s)
           /\ Faulty(r, d, "invalid_filter") <=> BadFilter(r, d)
           /\ Faulty(r, d, "not_readable") <=>
                /\ Plain(r) /\ d.engine # "sqlite"
                /\ \E i \in DOMAIN TablesOf(r) : \E x \in TablesAt(d, s, TablesOf(r)[i]) : ~x.readable
           /\ Faulty(r, d, "unsortable_column") <=>
                /\ Plain(r) /\ d.engine = "postgres"
                /\ Disordered(r, d) \/ (r.sort # None /\ Unequated(r, d))
           /\ ~Faulty(r, d, "invalid_parameter") /\ ~Faulty(r, d, "unknown_source")
           /\ ~Faulty(r, d, "database_error")
<1> DEFINE s == SchemaAsked(r, d)
<1>1. Faulty(r, d, "unknown_schema") <=>
        /\ r.route # "schemas"
        /\ IF d.engine = "sqlite" THEN r.schema \notin {None, Sq!OnlySchema} ELSE ~SchemaListed(d, s)
  BY Zenon DEF Faulty
<1>2. Faulty(r, d, "unknown_table") <=>
        /\ r.route \in {"data", "values", "referrers", "structure"}
        /\ ~Served(d, s, r.table)
  BY DEF Faulty
<1>3. Faulty(r, d, "unknown_column") <=>
        \/ r.route = "values" /\ ~HasColumn(d, s, r.table, r.column)
        \/ Plain(r) /\ \E w \in SortsBy(r) \cup FiltersBy(r) : ~HasColumn(d, s, w[1], w[2])
  BY DEF Faulty, Plain
<1>4. Faulty(r, d, "invalid_join") <=> BadJoin(r, d, s)
  BY DEF Faulty
<1>5. Faulty(r, d, "invalid_filter") <=> BadFilter(r, d)
  BY DEF Faulty
<1>6. Faulty(r, d, "not_readable") <=>
        /\ Plain(r) /\ d.engine # "sqlite"
        /\ \E i \in DOMAIN TablesOf(r) : \E x \in TablesAt(d, s, TablesOf(r)[i]) : ~x.readable
  BY DEF Faulty, Plain
<1>7. Faulty(r, d, "unsortable_column") <=>
        /\ Plain(r) /\ d.engine = "postgres"
        /\ Disordered(r, d) \/ (r.sort # None /\ Unequated(r, d))
  BY DEF Faulty, Plain, Disordered
<1>8. /\ ~Faulty(r, d, "invalid_parameter") /\ ~Faulty(r, d, "unknown_source")
      /\ ~Faulty(r, d, "database_error")
  BY DEF Faulty
<1> QED BY <1>1, <1>2, <1>3, <1>4, <1>5, <1>6, <1>7, <1>8

(* What a handler knows when it looks for a fault.                         *)
Ready(known) ==
    /\ Runs /\ Knows /\ IInv /\ AInv /\ OriginInv
    /\ Vouched(known) /\ ColumnsInOrder(known) /\ Founded(known)

LEMMA ReadyIs ==
    ASSUME NEW known, Ready(known)
    PROVE  /\ req \in Requests /\ req # None /\ req.route \notin Standalone
           /\ db \in seen /\ HasEngine(db)
           /\ Asks({"data"}) => QueryOpts(req).ok
           /\ Asks({"join"}) => req.join # None /\ JoinRequest(req).ok /\ ParseJoin(req.join).ok
           /\ Engine = "mysql" => variant = My!Variant(db)
<1>1. Runs /\ req # None /\ req.route \notin Standalone
  BY DEF Ready, Runs, Asks
<1>2. db \in seen /\ HasEngine(db) /\ seen # {}
  BY <1>1 DEF Ready, IInv, SeenInv
<1>3. req \in Requests
  BY <1>1 DEF Ready, AInv, AskedInv
<1>4. Asks({"data"}) => QueryOpts(req).ok
  BY <1>1 DEF Ready, AInv, AskedInv
<1>5. Asks({"join"}) => req.join # None /\ JoinRequest(req).ok /\ ParseJoin(req.join).ok
  BY <1>1 DEF Ready, AInv, AskedInv, IInv, JoinInv
<1>6. Engine = "mysql" => variant = My!Variant(db)
  BY <1>2 DEF Ready, Knows, AInv, ServerTypeOK, Engine
<1> QED BY <1>1, <1>2, <1>3, <1>4, <1>5, <1>6

(* The schema of the statements is the one that is asked for.              *)
LEMMA SchemaIs ==
    ASSUME NEW known, Ready(known), Resolved(known), NEW d \in seen
    PROVE  SchemaOf(known) = SchemaAsked(req, d) /\ d.engine = Engine
<1>1. d.engine = Engine /\ HasEngine(d)
  BY DEF Ready, IInv, SeenInv
<1>2. CASE Engine = "sqlite"
  BY <1>1, <1>2 DEF SchemaOf, SchemaAsked
<1>3. CASE Engine # "sqlite" /\ req.schema # None
  BY <1>1, <1>3 DEF SchemaOf, SchemaAsked
<1>4. CASE Engine # "sqlite" /\ req.schema = None
  <2>1. Has(known, "default", None)
    BY <1>4 DEF Resolved
  <2>2. PICK e \in seen : Finds(known, e, "default", None, known[<<"default", None>>])
    BY <2>1 DEF Ready, Founded, Sound, Has
  <2>3. known[<<"default", None>>] = e.current
    BY <1>4, <2>2 DEF Finds
  <2>4. PICK o \in seen : OriginOf(o, seen)
    BY DEF Ready, OriginInv
  <2>5. e.current = d.current
    BY <2>4 DEF OriginOf, Descends
  <2>6. SchemaOf(known) = known[<<"default", None>>]
    BY <1>4 DEF SchemaOf
  <2>7. SchemaAsked(req, d) = d.current
    BY <1>1, <1>4 DEF SchemaAsked
  <2> QED BY <1>1, <2>3, <2>5, <2>6, <2>7
<1> QED BY <1>2, <1>3, <1>4
LEMMA SchemaJust == ASSUME NEW known, Ready(known) PROVE Just(SchemaFault(known))
<1> SUFFICES ASSUME ~SchemaFault(known).ok PROVE Reasoned(SchemaFault(known).code)
  BY DEF Just
<1>1. Engine # "sqlite" /\ ~Asks({"schemas"}) /\ Resolved(known)
  BY DEF SchemaFault, Ok
<1>2. SchemaFault(known) = ResolveSchema(known[<<"schemas", None>>], SchemaOf(known))
  BY <1>1 DEF SchemaFault
<1>3. SchemaFault(known).code = "unknown_schema" /\ SchemaOf(known) \notin known[<<"schemas", None>>]
  BY <1>2 DEF ResolveSchema, Ok, Err
<1>4. PICK d \in seen : Finds(known, d, "schemas", None, known[<<"schemas", None>>])
  BY <1>1 DEF Resolved, Ready, Founded, Sound, Has
<1>5. ~SchemaListed(d, SchemaOf(known))
  BY <1>3, <1>4 DEF Finds
<1>6. SchemaOf(known) = SchemaAsked(req, d) /\ d.engine # "sqlite"
  BY <1>1, SchemaIs
<1>7. Faulty(req, d, "unknown_schema")
  BY <1>1, <1>5, <1>6, FaultyIs DEF Asks
<1> QED BY <1>3, <1>7 DEF Reasoned

(* The one table of a route, or those of a join.                           *)
LEMMA TablesAre ==
    ASSUME NEW t, t \in ToSet(Tables)
    PROVE  /\ \E i \in DOMAIN Tables : Tables[i] = t
           /\ Asks({"data", "join"}) => Tables = TablesOf(req)
           /\ ~Asks({"join"}) =>
                req.route \in {"data", "values", "referrers", "structure"} /\ t = req.table
<1>1. \E i \in DOMAIN Tables : Tables[i] = t
  BY DEF ToSet
<1>2. CASE Asks({"join"})
  BY <1>1, <1>2 DEF Tables, TablesOf, IsJoin, Asks
<1>3. CASE ~Asks({"join"})
  <2>1. Asks({"data", "values", "referrers", "structure"}) /\ Tables = <<req.table>>
    BY <1>1, <1>3 DEF Tables
  <2> QED BY <1>1, <1>3, <2>1 DEF TablesOf, IsJoin, Asks
<1> QED BY <1>2, <1>3

LEMMA TableJust == ASSUME NEW known, Ready(known) PROVE Just(TableFault(known))
<1> DEFINE t == Current(known)
<1> SUFFICES ASSUME ~TableFault(known).ok PROVE Reasoned(TableFault(known).code)
  BY DEF Just
<1>1. /\ Open(known) # {} /\ Missed(known, t)
      /\ TableFault(known).code = IF Asks({"join"}) THEN "invalid_join" ELSE "unknown_table"
  BY DEF TableFault, Ok, Err, UnknownJoinTable
<1>2. t \in ToSet(Tables)
  <2>1. DOMAIN Tables \subseteq Nat
    <3>1. CASE Asks({"join"})
      BY <3>1, ReadyIs, JoinShape
    <3>2. CASE ~Asks({"join"})
      BY <3>2 DEF Tables
    <3> QED BY <3>1, <3>2
  <2>2. Open(known) \subseteq Nat /\ Open(known) \subseteq DOMAIN Tables
    BY <2>1 DEF Open
  <2>3. \E m \in Open(known) : \A k \in Open(known) : m <= k
    BY <1>1, <2>2, LeastOf
  <2>4. Min(Open(known)) \in Open(known)
    BY <2>3 DEF Min
  <2> QED BY <1>1, <2>2, <2>4 DEF Current, ToSet
<1>3. Resolved(known) /\ \E d \in seen : ~Served(d, SchemaOf(known), t)
  <2>1. CASE Engine = "postgres"
    <3>1. Has(known, "gate", t) /\ ~known[<<"gate", t>>].ok
      BY <1>1, <2>1 DEF Missed, Cleared
    <3>2. Rooted(known, "gate", t) /\ \E d \in seen : Finds(known, d, "gate", t, known[<<"gate", t>>])
      BY <3>1 DEF Ready, Founded, Sound, Has
    <3> QED BY <3>1, <3>2 DEF Rooted, Finds
  <2>2. CASE Engine # "postgres"
    <3>1. Has(known, "tables", None) /\ t \notin known[<<"tables", None>>]
      BY <1>1, <2>2 DEF Missed, Cleared
    <3>2. /\ Rooted(known, "tables", None)
          /\ \E d \in seen : Finds(known, d, "tables", None, known[<<"tables", None>>])
      BY <3>1 DEF Ready, Founded, Sound, Has
    <3> QED BY <3>1, <3>2 DEF Rooted, Finds
  <2> QED BY <2>1, <2>2
<1>4. PICK d \in seen : ~Served(d, SchemaOf(known), t)
  BY <1>3
<1>5. SchemaOf(known) = SchemaAsked(req, d)
  BY <1>3, SchemaIs
<1> HIDE DEF t
<1>6. CASE Asks({"join"})
  <2>1. \E i \in DOMAIN TablesOf(req) : ~Served(d, SchemaAsked(req, d), TablesOf(req)[i])
    BY <1>2, <1>4, <1>5, <1>6, TablesAre DEF Asks
  <2>2. BadJoin(req, d, SchemaAsked(req, d))
    BY <1>6, <2>1 DEF BadJoin, IsJoin, Asks
  <2>3. Faulty(req, d, "invalid_join")
    BY <2>2, FaultyIs
  <2> QED BY <1>1, <1>6, <2>3 DEF Reasoned
<1>7. CASE ~Asks({"join"})
  <2>1. Faulty(req, d, "unknown_table")
    BY <1>2, <1>4, <1>5, <1>7, TablesAre, FaultyIs
  <2> QED BY <1>1, <1>7, <2>1 DEF Reasoned
<1> QED BY <1>6, <1>7

LEMMA NamesJust == ASSUME NEW known, Ready(known) PROVE Just(NamesFault(known))
<1> DEFINE t == req.table
<1> SUFFICES ASSUME ~NamesFault(known).ok PROVE Reasoned(NamesFault(known).code)
  BY DEF Just
<1>1. /\ Asks({"values"}) /\ Has(known, "names", t) /\ req.column \notin ToSet(known[<<"names", t>>])
      /\ NamesFault(known).code = "unknown_column"
  BY DEF NamesFault, Ok, Err
<1>2. PICK d \in seen : Finds(known, d, "names", t, known[<<"names", t>>])
  BY <1>1 DEF Ready, Founded, Sound, Has
<1>3. Resolved(known)
  BY <1>1 DEF Ready, Founded, Sound, Has, Rooted
<1>4. ~HasColumn(d, SchemaAsked(req, d), t, req.column)
  BY <1>1, <1>2, <1>3, SchemaIs DEF Finds
<1>5. Faulty(req, d, "unknown_column")
  BY <1>1, <1>4, FaultyIs DEF Asks
<1> QED BY <1>1, <1>5 DEF Reasoned

-----------------------------------------------------------------------------
(* The columns of a table, as a handler has them.                          *)
LEMMA MetaFinds ==
    ASSUME NEW known, Ready(known), NEW t, Has(known, "columns", t)
    PROVE  /\ Resolved(known)
           /\ \E d \in seen : \A c :
                HasColumn(d, SchemaAsked(req, d), t, c) <=> ColumnIndex(TableMeta(known, t), c).ok
           /\ \A c : ColumnIndex(TableMeta(known, t), c).ok
                        <=> c \in ToSet(Names(TableMeta(known, t).columns))
<1> DEFINE columns == known[<<"columns", t>>]
           meta == TableMeta(known, t)
<1>1. Resolved(known)
  BY DEF Ready, Founded, Sound, Has, Rooted
<1>2. PICK d \in seen : Finds(known, d, "columns", t, columns)
  BY DEF Ready, Founded, Sound, Has
<1>3. DOMAIN meta.columns = DOMAIN columns
      /\ \A i \in DOMAIN columns : meta.columns[i].name = columns[i].name
  BY DEF TableMeta, ColMeta
<1>4. \A c : ColumnIndex(meta, c).ok <=> \E i \in DOMAIN meta.columns : meta.columns[i].name = c
  BY DEF ColumnIndex, Ok, Err
<1>5. \A c : (\E i \in DOMAIN meta.columns : meta.columns[i].name = c) <=> c \in ToSet(Names(meta.columns))
  BY DEF Names, ToSet
<1> HIDE DEF meta, columns
<1>6. \A c : HasColumn(d, SchemaOf(known), t, c) <=> ColumnIndex(meta, c).ok
  BY <1>2, <1>3, <1>4 DEF Finds
<1>7. SchemaOf(known) = SchemaAsked(req, d)
  BY <1>1, SchemaIs
<1> QED BY <1>1, <1>4, <1>5, <1>6, <1>7 DEF meta
-----------------------------------------------------------------------------
(* The parameters, as they are read.                                       *)
ReadFilter(opts) == IF opts.filter = None THEN <<>> ELSE opts.filter
WellRead(conditions, allowJoin) ==
    /\ DOMAIN conditions \subseteq Nat
    /\ \A i \in DOMAIN conditions :
        LET c == conditions[i]
        IN /\ c.join # None => allowJoin
           /\ i > 1 => c.logic # None
           /\ TakesValue(c.op) <=> c.value # None

LEMMA FilterReads ==
    ASSUME NEW raw, NEW allowJoin,
           raw \in {None, Blank, Oversize, Malformed} \/ raw \in Seq(ToSet(raw)),
           FilterOf(raw, allowJoin).ok
    PROVE  LET g == IF raw \in {None, Blank} THEN <<>> ELSE raw
           IN /\ ReadFilter([filter |-> FilterOf(raw, allowJoin).val]) = g
              /\ raw \in {None, Blank} \/ ParseFilter(raw, allowJoin).ok
              /\ WellRead(g, allowJoin)
              /\ g # <<>> => raw \notin {None, Blank, Oversize, Malformed}
<1>1. CASE raw \in {None, Blank}
  <2>1. FilterOf(raw, allowJoin) = Ok(None)
    BY <1>1 DEF FilterOf
  <2>2. WellRead(<<>>, allowJoin)
    BY DEF WellRead
  <2> QED BY <1>1, <2>1, <2>2 DEF ReadFilter, Ok
<1>2. CASE raw \notin {None, Blank}
  <2> DEFINE parsed == ParseFilter(raw, allowJoin)
  <2>1. FilterOf(raw, allowJoin) = IF parsed.ok /\ parsed.val = <<>> THEN Ok(None) ELSE parsed
    BY <1>2 DEF FilterOf
  <2>2. parsed.ok
    BY <2>1 DEF Ok
  <2>3. /\ parsed = Ok(raw) /\ raw \notin {Oversize, Malformed}
        /\ \A i \in DOMAIN raw :
            /\ ~(raw[i].join # None /\ ~allowJoin)
            /\ ~((i = 1) # (raw[i].logic = None))
            /\ ~(TakesValue(raw[i].op) # (raw[i].value # None))
    BY <2>2 DEF ParseFilter, Err
  <2>4. raw \in Seq(ToSet(raw))
    BY <1>2, <2>3
  <2>5. DOMAIN raw \subseteq Nat
    BY <2>4
  <2>6. WellRead(raw, allowJoin)
    <3> SUFFICES ASSUME NEW i \in DOMAIN raw
                 PROVE  /\ raw[i].join # None => allowJoin
                        /\ i > 1 => raw[i].logic # None
                        /\ TakesValue(raw[i].op) <=> raw[i].value # None
      BY <2>5, Zenon DEF WellRead
    <3>1. raw[i].join # None => allowJoin
      BY <2>3
    <3>2. (i = 1) = (raw[i].logic = None)
      BY <2>3
    <3>3. TakesValue(raw[i].op) = (raw[i].value # None)
      BY <2>3
    <3>4. i > 1 => raw[i].logic # None
      BY <2>5, <3>2
    <3>5. TakesValue(raw[i].op) <=> raw[i].value # None
      BY <3>3 DEF TakesValue
    <3> QED BY <3>1, <3>4, <3>5, Zenon
  <2>7. parsed.val = raw
    BY <2>3 DEF Ok
  <2> HIDE DEF parsed
  <2>8. FilterOf(raw, allowJoin).val = IF raw = <<>> THEN None ELSE raw
    BY <2>1, <2>2, <2>7 DEF Ok
  <2> QED BY <1>2, <2>2, <2>3, <2>6, <2>8 DEF ReadFilter, parsed
<1> QED BY <1>1, <1>2

LEMMA QueryReads ==
    ASSUME req \in Requests, Asks({"data"}), QueryOpts(req).ok
    PROVE  LET opts == QueryOpts(req).val
           IN /\ ReadFilter(opts) = Filters(req) /\ opts.sort = req.sort
              /\ WellRead(Filters(req), FALSE)
              /\ Plain(req) /\ ~IsJoin(req) /\ req.sortJoin = None
              /\ req.order \in {None, "asc", "desc"} /\ opts.descending \in BOOLEAN
<1> DEFINE filter == FilterOf(req.filter, FALSE)
           descending == IsDescending(req.order)
           all == [page |-> Paging(req), sort |-> req.sort, descending |-> descending.val,
                   timeout |-> QueryTimeoutSecs, filter |-> filter.val]
<1>1. QueryOpts(req) = AndThen(filter, AndThen(descending, Ok(all)))
  BY DEF QueryOpts
<1>2. filter.ok /\ descending.ok /\ QueryOpts(req) = Ok(all)
  <2> DEFINE rest == AndThen(descending, Ok(all))
  <2> HIDE DEF filter, descending, all
  <2>1. filter.ok /\ QueryOpts(req) = rest
    BY <1>1, AndThenOk
  <2>2. descending.ok /\ rest = Ok(all)
    BY <2>1, AndThenOk
  <2> QED BY <2>1, <2>2
<1>3. QueryOpts(req).val = all
  BY <1>2 DEF Ok
<1>4. all.sort = req.sort /\ ReadFilter(all) = ReadFilter([filter |-> filter.val])
      /\ all.descending = descending.val
  BY DEF ReadFilter
<1>5. req.filter \in {None, Blank, Oversize, Malformed} \/ req.filter \in Seq(ToSet(req.filter))
  BY RequestsAssumption
<1> HIDE DEF filter, all
<1>6. /\ ReadFilter([filter |-> filter.val]) = Filters(req)
      /\ req.filter \in {None, Blank} \/ ParseFilter(req.filter, FALSE).ok
      /\ WellRead(Filters(req), FALSE)
  BY <1>2, <1>5, FilterReads DEF filter, Filters
<1>7. req.route = "data" /\ ~IsJoin(req)
  BY DEF Asks, IsJoin
<1>8. req.sortJoin = None /\ req.sortJoin # Malformed
  BY <1>7, PositionsAssumption
<1>9. Plain(req)
  <2>1. IsJoin(req) = FALSE
    BY <1>7 DEF IsJoin
  <2> QED BY <1>6, <1>7, <1>8, <2>1 DEF Plain, FilterParses
<1>10. req.order \in {None, "asc", "desc"} /\ descending.val \in BOOLEAN
  BY <1>2 DEF IsDescending, Err, Ok
<1> QED BY <1>3, <1>4, <1>6, <1>7, <1>8, <1>9, <1>10

LEMMA JoinReads ==
    ASSUME req \in Requests, Asks({"join"}), JoinRequest(req).ok
    PROVE  LET opts == JoinRequest(req).val
           IN /\ ReadFilter(opts) = Filters(req) /\ opts.sort = req.sort /\ opts.sortJoin = req.sortJoin
              /\ WellRead(Filters(req), TRUE)
              /\ Plain(req) /\ IsJoin(req) /\ JoinParses(req)
              /\ req.order \in {None, "asc", "desc"} /\ opts.descending \in BOOLEAN
<1> DEFINE spec == ParseJoin(req.join)
           filter == FilterOf(req.filter, TRUE)
           descending == IsDescending(req.order)
           all == [spec |-> spec.val, page |-> Paging(req), sort |-> req.sort,
                   sortJoin |-> req.sortJoin, descending |-> descending.val,
                   timeout |-> QueryTimeoutSecs, filter |-> filter.val]
           last == IF req.sortJoin = Malformed THEN Err("invalid_parameter") ELSE Ok(all)
<1>1. JoinRequest(req) = AndThen(spec, AndThen(filter, AndThen(descending, last)))
  BY DEF JoinRequest
<1>2. spec.ok /\ filter.ok /\ descending.ok /\ last.ok /\ JoinRequest(req) = last
  <2> DEFINE third == AndThen(descending, last)
             second == AndThen(filter, third)
  <2> HIDE DEF spec, filter, descending, all, last
  <2>1. spec.ok /\ JoinRequest(req) = second
    BY <1>1, AndThenOk
  <2>2. filter.ok /\ second = third
    BY <2>1, AndThenOk
  <2>3. descending.ok /\ third = last
    BY <2>1, <2>2, AndThenOk
  <2> QED BY <2>1, <2>2, <2>3
<1>3. req.sortJoin # Malformed /\ JoinRequest(req).val = all
  BY <1>2 DEF Ok, Err
<1>4. all.sort = req.sort /\ all.sortJoin = req.sortJoin
      /\ ReadFilter(all) = ReadFilter([filter |-> filter.val])
      /\ all.descending = descending.val
  BY DEF ReadFilter
<1>5. req.filter \in {None, Blank, Oversize, Malformed} \/ req.filter \in Seq(ToSet(req.filter))
  BY RequestsAssumption
<1> HIDE DEF filter, all
<1>6. /\ ReadFilter([filter |-> filter.val]) = Filters(req)
      /\ req.filter \in {None, Blank} \/ ParseFilter(req.filter, TRUE).ok
      /\ WellRead(Filters(req), TRUE)
  BY <1>2, <1>5, FilterReads DEF filter, Filters
<1>7. req.route = "join" /\ IsJoin(req) /\ JoinParses(req)
  BY <1>2 DEF Asks, IsJoin, JoinParses
<1>8. Plain(req)
  <2>1. IsJoin(req) = TRUE
    BY <1>7 DEF IsJoin
  <2> QED BY <1>3, <1>6, <1>7, <2>1 DEF Plain, FilterParses
<1>9. req.order \in {None, "asc", "desc"} /\ descending.val \in BOOLEAN
  BY <1>2 DEF IsDescending, Err, Ok
<1> QED BY <1>3, <1>4, <1>6, <1>7, <1>8, <1>9
-----------------------------------------------------------------------------
(* The SELECT that is built, as the request has it.                        *)
OnPairs(r) == IF IsJoin(r) THEN [i \in DOMAIN r.join.joins |-> r.join.joins[i].on] ELSE <<>>
Fits(q, s) ==
    /\ q.schema = s
    /\ DOMAIN q.tables = DOMAIN Tables /\ \A p \in DOMAIN Tables : q.tables[p] = Tables[p]
    /\ DOMAIN q.where = DOMAIN Filters(req)
    /\ \A i \in DOMAIN q.where :
        /\ q.where[i].value = Filters(req)[i].value
        /\ q.where[i].keyword = Keyword(Filters(req)[i].op)
    /\ q.onText = FALSE /\ q.ons = OnPairs(req)
    /\ \E desc \in BOOLEAN :
        q.sort = IF req.sort = None THEN None
                 ELSE NativeOrder(<<Position(req.sortJoin), req.sort>>, desc)
    /\ req.sort # None =>
        Position(req.sortJoin) + 1 \in DOMAIN Tables /\ TablePosition(req, req.sortJoin)

(* The columns that a handler has found, each in its table.                *)
Finder(known, t, c) == ColumnIndex(TableMeta(known, t), c)
Located(known, t, c) == Has(known, "columns", t) /\ Finder(known, t, c).ok
AllLocated(known) ==
    /\ \A w \in SortsBy(req) \cup FiltersBy(req) : Located(known, w[1], w[2])
    /\ req.sort # None => TablePosition(req, req.sortJoin)
    /\ req.sort = None => req.sortJoin = None
    /\ IsJoin(req) => \A i \in DOMAIN Filters(req) : TablePosition(req, Filters(req)[i].join)

LEMMA MissIsReason ==
    ASSUME NEW known, Ready(known), Plain(req), NEW t, NEW c,
           <<t, c>> \in SortsBy(req) \cup FiltersBy(req),
           Has(known, "columns", t), ~Finder(known, t, c).ok
    PROVE  Reasoned("unknown_column")
<1>1. PICK d \in seen : \A b : HasColumn(d, SchemaAsked(req, d), t, b) <=> Finder(known, t, b).ok
  BY MetaFinds DEF Finder
<1>2. ~HasColumn(d, SchemaAsked(req, d), t, c)
  BY <1>1
<1>3. \E w \in SortsBy(req) \cup FiltersBy(req) : ~HasColumn(d, SchemaAsked(req, d), w[1], w[2])
  BY <1>2
<1>4. Faulty(req, d, "unknown_column")
  BY <1>3, FaultyIs
<1> QED BY <1>4 DEF Reasoned

LEMMA TableBuilt ==
    ASSUME NEW known, Ready(known), Selects(known), ~Asks({"join"})
    PROVE  /\ Just(TableSelect(known))
           /\ TableSelect(known).ok =>
                Fits(TableSelect(known).val, SchemaOf(known)) /\ AllLocated(known)
<1> DEFINE opts == QueryOpts(req).val
           t == req.table
           names == Names(TableMeta(known, t).columns)
           filter == ReadFilter(opts)
           where == Where(filter, ToSet(names))
           select == TableSelect(known)
           order == IF opts.sort = None THEN None
                    ELSE NativeOrder(<<0, opts.sort>>, opts.descending)
           checks == CheckAll(filter, ToSet(names))
<1>1. Asks({"data"}) /\ Tables = <<t>> /\ req \in Requests /\ HasEngine(db) /\ QueryOpts(req).ok
  <2>1. Asks({"data"})
    BY DEF Selects, Asks
  <2> QED BY <2>1, ReadyIs DEF Tables, Asks
<1>2. /\ filter = Filters(req) /\ opts.sort = req.sort /\ WellRead(filter, FALSE)
      /\ Plain(req) /\ ~IsJoin(req) /\ req.sortJoin = None /\ opts.descending \in BOOLEAN
  BY <1>1, QueryReads
<1>3. Has(known, "columns", t)
  <2>1. 1 \in DOMAIN Tables /\ Tables[1] = t
    BY <1>1
  <2> QED BY <2>1, SelectsDescribed DEF Ready
<1>4. \A c : c \in ToSet(names) <=> Finder(known, t, c).ok
  BY <1>3, MetaFinds DEF Finder
<1>5. TablesOf(req) = <<t>> /\ \A p : Position(p) = 0 => TablePosition(req, p) /\ TableAt(req, p) = t
  BY <1>2 DEF TablesOf, TablePosition, TableAt
<1>6. Position(req.sortJoin) = 0 /\ \A i \in DOMAIN filter : Position(filter[i].join) = 0
  BY <1>2 DEF Position, WellRead
<1>7. SortsBy(req) = IF req.sort # None THEN {<<t, req.sort>>} ELSE {}
  BY <1>5, <1>6 DEF SortsBy
<1>8. FiltersBy(req) = {<<t, filter[i].column>> : i \in DOMAIN filter}
  BY <1>2, <1>5, <1>6 DEF FiltersBy
<1>9. where = AndThen(FirstError(checks), Ok(Terms(filter)))
  BY <1>1, WhereIs
<1>10. select = QueryTable(SchemaOf(known), names, opts, where)
  BY DEF TableSelect, ReadFilter
<1>11. Just(where) /\ (where.ok => where.val = Terms(filter) /\ \A i \in DOMAIN filter : filter[i].column \in ToSet(names))
  <2>1. ASSUME NEW i \in DOMAIN filter
        PROVE  /\ Just(checks[i])
               /\ checks[i].ok => filter[i].column \in ToSet(names)
    <3>1. checks[i] = Check(filter, ToSet(names), i)
      BY DEF CheckAll
    <3> HIDE DEF checks, filter, names, where
    <3>2. CASE filter[i].column \notin ToSet(names)
      <4>0. /\ ~(TakesValue(filter[i].op) /\ filter[i].value = None)
            /\ ~(i > 1 /\ filter[i].logic = None)
        BY <1>2 DEF WellRead
      <4>1. checks[i] = Err("unknown_column")
        BY <3>1, <3>2, <4>0 DEF Check
      <4>2. <<t, filter[i].column>> \in FiltersBy(req) /\ ~Finder(known, t, filter[i].column).ok
        BY <1>4, <1>8, <3>2
      <4>3. Reasoned("unknown_column")
        BY <1>2, <1>3, <4>2, MissIsReason
      <4> QED BY <4>1, <4>3, JustErr DEF Err
    <3>3. CASE filter[i].column \in ToSet(names)
      <4>1. /\ ~(TakesValue(filter[i].op) /\ filter[i].value = None)
            /\ ~(i > 1 /\ filter[i].logic = None)
        BY <1>2 DEF WellRead
      <4>2. checks[i] = Ok(None)
        BY <3>1, <3>3, <4>1 DEF Check
      <4> QED BY <3>3, <4>2, JustOk
    <3> QED BY <3>2, <3>3
  <2>2. DOMAIN checks = DOMAIN filter /\ DOMAIN checks \subseteq Nat
    BY <1>2 DEF CheckAll, WellRead
  <2> HIDE DEF checks, where, filter, names
  <2>3. Just(FirstError(checks))
    BY <2>1, <2>2, JustFirst
  <2>4. Just(where)
    BY <1>9, <2>3, JustThen, JustOk
  <2>5. ASSUME where.ok PROVE where.val = Terms(filter) /\ \A i \in DOMAIN filter : filter[i].column \in ToSet(names)
    <3>1. FirstError(checks).ok /\ where = Ok(Terms(filter))
      BY <1>9, <2>5, AndThenOk
    <3>2. \A i \in DOMAIN checks : checks[i].ok
      BY <3>1, FirstErrorOk
    <3> QED BY <2>1, <2>2, <3>1, <3>2 DEF Ok
  <2> QED BY <2>4, <2>5
<1> HIDE DEF where, names, filter, checks
<1>12. ASSUME req.sort # None, req.sort \notin ToSet(names) PROVE Reasoned("unknown_column")
  BY <1>2, <1>3, <1>4, <1>7, <1>12, MissIsReason
<1> HIDE DEF opts, select
<1>13. Just(select)
  <2>1. CASE req.sort # None /\ req.sort \notin ToSet(names)
    <3>1. select = Err("unknown_column")
      BY <1>2, <1>10, <2>1 DEF QueryTable
    <3> QED BY <1>12, <2>1, <3>1, JustErr
  <2>2. CASE ~(req.sort # None /\ req.sort \notin ToSet(names))
    <3>1. \E v : select = AndThen(where, Ok(v))
      BY <1>2, <1>10, <2>2 DEF QueryTable
    <3> QED BY <1>11, <3>1, JustThen, JustOk
  <2> QED BY <2>1, <2>2
<1>14. ASSUME select.ok PROVE Fits(select.val, SchemaOf(known)) /\ AllLocated(known)
  <2>1. ~(req.sort # None /\ req.sort \notin ToSet(names)) /\ where.ok
    BY <1>2, <1>10, <1>14, QueryTableIs
  <2>2. /\ select.val.schema = SchemaOf(known) /\ select.val.tables = <<t>>
        /\ select.val.where = where.val /\ select.val.sort = order
        /\ select.val.onText = FALSE /\ select.val.ons = <<>>
    <3>1. select.val = [schema |-> SchemaOf(known), bare |-> TRUE, tables |-> <<t>>,
                        kinds |-> <<>>, ons |-> <<>>, onText |-> FALSE,
                        list |-> [i \in DOMAIN names |-> <<0, names[i]>>],
                        where |-> where.val, sort |-> order,
                        limit |-> opts.page.limit, offset |-> opts.page.offset]
      BY <1>10, <1>14, QueryTableIs
    <3> HIDE DEF order
    <3> QED BY <3>1
  <2>3. DOMAIN Terms(filter) = DOMAIN filter
        /\ \A i \in DOMAIN filter :
            /\ Terms(filter)[i].value = filter[i].value
            /\ Terms(filter)[i].keyword = Keyword(filter[i].op)
    BY DEF Terms
  <2>4. Fits(select.val, SchemaOf(known))
    <3>1. \E desc \in BOOLEAN :
            select.val.sort = IF req.sort = None THEN None
                              ELSE NativeOrder(<<Position(req.sortJoin), req.sort>>, desc)
      BY <1>2, <1>6, <2>2
    <3>2. Position(req.sortJoin) + 1 \in DOMAIN Tables /\ TablePosition(req, req.sortJoin)
      BY <1>1, <1>5, <1>6
    <3>3. /\ DOMAIN select.val.tables = DOMAIN Tables
          /\ \A p \in DOMAIN Tables : select.val.tables[p] = Tables[p]
      BY <1>1, <2>2
    <3>4. /\ DOMAIN select.val.where = DOMAIN Filters(req)
          /\ \A i \in DOMAIN select.val.where :
                /\ select.val.where[i].value = Filters(req)[i].value
                /\ select.val.where[i].keyword = Keyword(Filters(req)[i].op)
      BY <1>2, <1>11, <2>1, <2>2, <2>3
    <3>5. select.val.onText = FALSE /\ select.val.ons = OnPairs(req)
      BY <1>2, <2>2 DEF OnPairs
    <3> QED BY <2>2, <3>1, <3>2, <3>3, <3>4, <3>5 DEF Fits
  <2>5. \A w \in SortsBy(req) \cup FiltersBy(req) : Located(known, w[1], w[2])
    BY <1>3, <1>4, <1>7, <1>8, <1>11, <2>1 DEF Located
  <2>6. AllLocated(known)
    BY <1>2, <1>5, <1>6, <2>5 DEF AllLocated
  <2> QED BY <2>4, <2>6
<1> QED BY <1>13, <1>14 DEF select

-----------------------------------------------------------------------------
(* The one relation of a name in the database at the start.                *)
LEMMA OneAtStart ==
    ASSUME NEW known, Ready(known), NEW o \in seen, OriginOf(o, seen),
           NEW t, TableSeen(SchemaOf(known), t)
    PROVE  \E y \in TablesAt(o, SchemaOf(known), t) :
            /\ Relations(o, SchemaOf(known), t) = {y}
            /\ TablesAt(o, SchemaOf(known), t) = {y}
            /\ \A i, j \in DOMAIN y.columns : y.columns[i].name = y.columns[j].name => i = j
<1> DEFINE s == SchemaOf(known)
<1>1. PICK d \in seen : Served(d, s, t)
  BY DEF TableSeen
<1>2. Served(o, s, t)
  BY <1>1, OriginHas
<1>3. PICK y \in TablesAt(o, s, t) : TRUE
  BY <1>2 DEF Served
<1>4. \A x \in TablesAt(o, s, t) : x = y
  BY <1>3 DEF OriginOf, Original, Untouched, Catalogued, TablesAt
<1>5. \A x \in Relations(o, s, t) : x = y
  <2>1. CASE o.engine = "sqlite"
    BY <1>3, <2>1 DEF Relations, Sq!Located, TablesAt, OriginOf, Original, Untouched
  <2>2. CASE o.engine # "sqlite"
    BY <1>4, <2>2 DEF Relations
  <2> QED BY <2>1, <2>2
<1>6. y \in Relations(o, s, t)
  BY <1>3 DEF Relations, Sq!Located, TablesAt
<1>7. \A i, j \in DOMAIN y.columns : y.columns[i].name = y.columns[j].name => i = j
  BY <1>3 DEF OriginOf, Original, TablesAt
<1> QED BY <1>3, <1>4, <1>5, <1>6, <1>7

(* A column that a handler found is one the table had at the start, with   *)
(* the class it had then, but that MariaDB's check may be gone that told   *)
(* it for JSON.                                                            *)
LEMMA ColumnIsOld ==
    ASSUME NEW known, Ready(known), NEW o \in seen, OriginOf(o, seen),
           NEW t, NEW c, Located(known, t, c), MariaDb => Has(known, "json", t)
    PROVE  LET s == SchemaOf(known)
               f == Finder(known, t, c).val
           IN /\ HasColumn(o, s, t, c)
              /\ f.collation = IF f.class.name = "text" THEN Column(o, s, t, c).collation ELSE None
              /\ f.class = ClassIn(o, s, t, c) \/ ClassIn(o, s, t, c) = Class("json")
              /\ seen = {o} => f.class = ClassIn(o, s, t, c)
<1> DEFINE s == SchemaOf(known)
           columns == known[<<"columns", t>>]
           meta == TableMeta(known, t)
           found == {i \in DOMAIN meta.columns : meta.columns[i].name = c}
           m == Min(found)
<1>1. Has(known, "columns", t) /\ Finder(known, t, c).ok
  BY DEF Located
<1>2. PICK d \in seen : Finds(known, d, "columns", t, columns)
  BY <1>1 DEF Ready, Founded, Sound, Has
<1>3. TableSeen(s, t)
  BY <1>1 DEF Ready, Founded, Sound, Has, Rooted, TableKinds
<1>4. PICK y \in TablesAt(o, s, t) :
            /\ Relations(o, s, t) = {y} /\ TablesAt(o, s, t) = {y}
            /\ \A i, j \in DOMAIN y.columns : y.columns[i].name = y.columns[j].name => i = j
  BY <1>3, OneAtStart
<1>5. meta.columns \in Seq(ToSet(meta.columns))
  BY <1>1, MetaInOrder DEF Ready
<1>6. found # {} /\ Finder(known, t, c) = Ok(meta.columns[m])
  BY <1>1 DEF Finder, ColumnIndex, Err
<1>7. m \in found
  <2>1. found \subseteq Nat
    BY <1>5
  <2>2. \E k \in found : \A l \in found : k <= l
    <3> HIDE DEF found
    <3> QED BY <1>6, <2>1, LeastOf
  <2> HIDE DEF found
  <2> QED BY <2>2 DEF Min
<1> DEFINE col == columns[m]
           class == ColumnClassOf(known, t, col)
           keys == known[<<"keys", t>>]
<1>8. /\ m \in DOMAIN columns /\ meta.columns[m] = ColMeta(col, class, keys.pk, keys.references)
  BY <1>7 DEF TableMeta
<1>9. col.name = c
  <2>1. meta.columns[m].name = c
    BY <1>7
  <2> HIDE DEF meta, col, class, m, keys
  <2> QED BY <1>8, <2>1 DEF ColMeta
<1> HIDE DEF col, class, meta, found, m, keys
<1>10. Finder(known, t, c).val.class = class
       /\ Finder(known, t, c).val.collation = IF class.name = "text" THEN col.collation ELSE None
  BY <1>6, <1>8 DEF ColMeta, Ok
<1>11. col \in ToSet(y.columns)
  <2>1. PICK x \in Relations(d, s, t) : col \in ToSet(x.columns)
    BY <1>2, <1>8 DEF Finds, col
  <2>2. PICK z \in Relations(o, s, t) : Remains(x, z)
    BY <2>1, OriginHas
  <2> QED BY <1>4, <2>1, <2>2 DEF Remains
<1>12. HasColumn(o, s, t, c)
  BY <1>4, <1>9, <1>11 DEF HasColumn, ColumnNames, ToSet
<1>13. Column(o, s, t, c) = col
  <2>1. UNION {ToSet(x.columns) : x \in TablesAt(o, s, t)} = ToSet(y.columns)
    BY <1>4
  <2>2. \A k \in ToSet(y.columns) : k.name = c => k = col
    BY <1>4, <1>9, <1>11 DEF ToSet
  <2>3. Column(o, s, t, c) = CHOOSE k \in ToSet(y.columns) : k.name = c
    BY <2>1 DEF Column
  <2> QED BY <1>9, <1>11, <2>2, <2>3
<1>14. o.engine = Engine /\ o.fork = db.fork
  <2>1. db \in seen
    BY ReadyIs
  <2> QED BY <2>1 DEF OriginOf, Descends, Engine
<1> HIDE DEF s, columns
<1>15. /\ class = ClassIn(o, s, t, c) \/ ClassIn(o, s, t, c) = Class("json")
       /\ seen = {o} => class = ClassIn(o, s, t, c)
  <2>1. CASE Engine = "postgres"
    BY <1>13, <1>14, <2>1 DEF class, ColumnClassOf, By, ClassIn
  <2>2. CASE Engine = "sqlite"
    BY <1>13, <1>14, <2>2 DEF class, ColumnClassOf, By, ClassIn
  <2>3. CASE Engine = "mysql"
    <3> DEFINE J == My!MariadbJsonColumns(o, s, t)
               K == known[<<"json", t>>]
    <3>1. MariaDb <=> o.fork = "mariadb"
      <4>1. variant = My!Variant(db)
        BY <2>3, ReadyIs
      <4> QED BY <1>14, <2>3, <4>1 DEF MariaDb, My!Variant
    <3>2. ClassIn(o, s, t, c) = My!MetaClass(col, IF MariaDb THEN J ELSE {})
      BY <1>13, <1>14, <2>3, <3>1 DEF ClassIn
    <3>3. class = My!MetaClass(col, IF MariaDb THEN K ELSE {})
      BY <2>3 DEF class, ColumnClassOf, By
    <3>4. ASSUME MariaDb PROVE K \subseteq J /\ (seen = {o} => K = J)
      <4>1. PICK e \in seen : Finds(known, e, "json", t, K)
        BY <3>4 DEF Ready, Founded, Sound, Has
      <4>2. K = My!MariadbJsonColumns(e, s, t)
        BY <4>1 DEF Finds, s
      <4>3. \A x \in TablesAt(e, s, t) : \E z \in TablesAt(o, s, t) : Remains(x, z)
        BY OriginHas
      <4>4. My!MariadbJsonColumns(e, s, t) \subseteq J
        BY <4>3 DEF My!MariadbJsonColumns, My!TablesAt, TablesAt, Remains
      <4> QED BY <4>2, <4>4
    <3> HIDE DEF J, K
    <3> QED BY <3>2, <3>3, <3>4 DEF My!MetaClass, My!Class, Class
  <2>4. HasEngine(db)
    BY ReadyIs
  <2> QED BY <2>1, <2>2, <2>3, <2>4 DEF HasEngine, Engine
<1> QED BY <1>10, <1>12, <1>13, <1>15 DEF s
(* A pair that the handler may not compare is one the database at the      *)
(* start says may not be compared; with no other database, it is exactly.  *)
ClassNames == {"number", "text", "uuid", "boolean", "temporal", "time", "binary", "enum",
               "untyped", "float", "json", "array", "other"}
LEMMA ClassIsOne ==
    ASSUME NEW d, HasEngine(d), NEW s, NEW t, NEW c
    PROVE  ClassIn(d, s, t, c).name \in ClassNames
<1> DEFINE type == Column(d, s, t, c).type
<1>1. \A x : Pg!ColumnClass(x).name \in ClassNames
  BY DEF Pg!ColumnClass, Pg!Class, Pg!EnumClass, ClassNames
<1>2. \A x : My!ColumnClass(x).name \in ClassNames
  BY DEF My!ColumnClass, My!Class, My!EnumClass, ClassNames
<1>3. \A x : Sq!ColumnClass(x).name \in ClassNames
  BY DEF Sq!ColumnClass, Sq!Class, ClassNames
<1>4. \A x, J : My!MetaClass(x, J).name \in ClassNames
  BY <1>2 DEF My!MetaClass, My!Class, ClassNames
<1> QED BY <1>1, <1>3, <1>4 DEF ClassIn, HasEngine

LEMMA TwoAtMost ==
    ASSUME NEW a, NEW b
    PROVE  Cardinality({a, b} \ {None}) < 2 <=> a = None \/ b = None \/ a = b
<1> DEFINE S == {a, b} \ {None}
<1>1. CASE a # None /\ b # None /\ a # b
  <2>1. Cardinality({a}) = 1 /\ IsFiniteSet({a})
    BY FS_Singleton
  <2>2. Cardinality({a} \cup {b}) = 2
    BY <1>1, <2>1, FS_AddElement
  <2>3. S = {a} \cup {b}
    BY <1>1
  <2> QED BY <1>1, <2>2, <2>3
<1>2. CASE a = None /\ b = None
  <2>1. S = {}
    BY <1>2
  <2> QED BY <1>2, <2>1, FS_EmptySet
<1>3. CASE ~(a = None /\ b = None) /\ (a = None \/ b = None \/ a = b)
  <2>1. S = {a} \/ S = {b}
    BY <1>3
  <2> QED BY <1>3, <2>1, FS_Singleton
<1> QED BY <1>1, <1>2, <1>3

LEMMA ComparedIs ==
    ASSUME NEW known, Ready(known), NEW o \in seen, OriginOf(o, seen),
           NEW a, NEW b, NEW x, NEW y, Located(known, a, x), Located(known, b, y),
           MariaDb => Has(known, "json", a) /\ Has(known, "json", b)
    PROVE  LET pair == CheckPair(Finder(known, a, x).val, Finder(known, b, y).val)
               may == Comparable(o, SchemaOf(known), <<a, x>>, <<b, y>>)
           IN (~pair.ok => ~may) /\ (seen = {o} /\ pair.ok => may)
<1> DEFINE s == SchemaOf(known)
           lc == Finder(known, a, x).val
           rc == Finder(known, b, y).val
           ko == ClassIn(o, s, a, x)
           kp == ClassIn(o, s, b, y)
           u == Column(o, s, a, x).collation
           v == Column(o, s, b, y).collation
<1>1. /\ lc.collation = IF lc.class.name = "text" THEN u ELSE None
      /\ lc.class = ko \/ ko = Class("json")
      /\ seen = {o} => lc.class = ko
  BY ColumnIsOld
<1>2. /\ rc.collation = IF rc.class.name = "text" THEN v ELSE None
      /\ rc.class = kp \/ kp = Class("json")
      /\ seen = {o} => rc.class = kp
  BY ColumnIsOld
<1>3. ko.name \in ClassNames /\ kp.name \in ClassNames
  BY ClassIsOne DEF OriginOf, Original
<1>4. Class("json").name = "json"
  BY DEF Class
<1>5. Comparable(o, s, <<a, x>>, <<b, y>>) <=>
        /\ ko = kp
        /\ ko.name \in {"number", "text", "uuid", "boolean", "temporal", "time", "binary",
                        "enum", "untyped"}
        /\ ko.name = "text" => u = None \/ v = None \/ u = v
  BY TwoAtMost DEF Comparable
<1>6. CheckPair(lc, rc).ok <=>
        /\ IsJoinable(lc.class) /\ IsJoinable(rc.class) /\ lc.class = rc.class
        /\ ~(lc.class.name = "text" /\ None \notin {lc.collation, rc.collation}
              /\ lc.collation # rc.collation)
  BY DEF CheckPair, Ok, Err
<1> HIDE DEF lc, rc, ko, kp, u, v, s
<1>7. ~CheckPair(lc, rc).ok => ~Comparable(o, s, <<a, x>>, <<b, y>>)
  BY <1>1, <1>2, <1>4, <1>5, <1>6 DEF IsJoinable
<1>8. seen = {o} /\ CheckPair(lc, rc).ok => Comparable(o, s, <<a, x>>, <<b, y>>)
  BY <1>1, <1>2, <1>3, <1>5, <1>6 DEF IsJoinable, ClassNames
<1> QED BY <1>7, <1>8 DEF lc, rc, s

-----------------------------------------------------------------------------
(* The SELECT of a join.                                                   *)
Metas(known) == [p \in DOMAIN Tables |-> TableMeta(known, Tables[p])]

(* What there is to build it from.                                         *)
Joins(known) ==
    /\ Ready(known) /\ Selects(known) /\ Asks({"join"})

LEMMA JoinsAre ==
    ASSUME NEW known, Joins(known)
    PROVE  /\ req \in Requests /\ IsJoin(req) /\ JoinParses(req) /\ JoinRequest(req).ok
           /\ req.join \notin {None, Oversize, Malformed}
           /\ Resolved(known) /\ Tables = TablesOf(req)
           /\ Len(Tables) \in Nat /\ DOMAIN Tables = 1..Len(Tables)
           /\ \A p \in DOMAIN Tables :
                Has(known, "columns", Tables[p]) /\ (MariaDb => Has(known, "json", Tables[p]))
           /\ DOMAIN req.join.joins \subseteq Nat
           /\ \A i \in DOMAIN req.join.joins :
                /\ i + 1 \in DOMAIN Tables
                /\ DOMAIN req.join.joins[i].on \subseteq Nat
                /\ \A j \in DOMAIN req.join.joins[i].on :
                    LET p == req.join.joins[i].on[j].left[1] IN p \in Nat /\ p + 1 \in DOMAIN Tables
<1>1. /\ req \in Requests /\ Asks({"join"}) /\ req.join # None
      /\ JoinRequest(req).ok /\ ParseJoin(req.join).ok
  BY ReadyIs DEF Joins
<1>2. /\ req.join \notin {None, Oversize, Malformed} /\ IsJoin(req) /\ JoinParses(req)
  BY <1>1 DEF ParseJoin, Err, IsJoin, JoinParses, Asks
<1>3. Resolved(known) /\ Tables = TablesOf(req)
  BY <1>1, <1>2 DEF Joins, Selects, Tables, TablesOf
<1>4. \A p \in DOMAIN Tables :
        Has(known, "columns", Tables[p]) /\ (MariaDb => Has(known, "json", Tables[p]))
  <2>1. \A p \in DOMAIN Tables : Described(known, Tables[p])
    BY DEF Joins, Selects, Open
  <2> QED BY <2>1, SelectsDescribed DEF Joins, Ready, Described
<1>5. /\ req.join.joins \in Seq(ToSet(req.join.joins))
      /\ \A i \in DOMAIN req.join.joins :
            LET on == req.join.joins[i].on
            IN on \in Seq(ToSet(on)) /\ \A j \in DOMAIN on : on[j].left[1] \in Nat
  BY <1>1, <1>2, RequestsAssumption DEF Asks
<1>6. /\ \A i \in DOMAIN req.join.joins : i + 1 \in DOMAIN Tables
      /\ \A i \in DOMAIN req.join.joins : \A j \in DOMAIN req.join.joins[i].on :
            req.join.joins[i].on[j].left[1] + 1 \in DOMAIN Tables
  BY <1>1, JoinShape
<1>7. Len(Tables) \in Nat /\ DOMAIN Tables = 1..Len(Tables)
  <2> DEFINE joins == req.join.joins
             others == [i \in DOMAIN joins |-> joins[i].table]
             S == {req.join.table} \cup {others[i] : i \in DOMAIN joins}
  <2>1. Len(joins) \in Nat /\ DOMAIN joins = 1..Len(joins)
    BY <1>5
  <2> HIDE DEF joins
  <2>2. others \in Seq(S)
    BY <2>1
  <2> HIDE DEF others, S
  <2>3. <<req.join.table>> \in Seq(S)
    BY DEF S
  <2>4. Tables = <<req.join.table>> \o others
    BY <1>1 DEF Tables, TableNames, joins, others
  <2>5. Tables \in Seq(S)
    BY <2>2, <2>3, <2>4
  <2> QED BY <2>5
<1>8. /\ DOMAIN req.join.joins \subseteq Nat
      /\ \A i \in DOMAIN req.join.joins : DOMAIN req.join.joins[i].on \subseteq Nat
  BY <1>5
<1> QED BY <1>1, <1>2, <1>3, <1>4, <1>5, <1>6, <1>7, <1>8

(* A position of the request, and the table that is there.                 *)
LEMMA PlaceIs ==
    ASSUME NEW known, Joins(known), NEW p \in Nat \cup {None}
    PROVE  /\ Position(p) \in Nat /\ (p # None => Position(p) = p)
           /\ TablePosition(req, p) <=> Position(p) + 1 \in DOMAIN Tables
           /\ TableAt(req, p) = Tables[Position(p) + 1]
           /\ DOMAIN Metas(known) = DOMAIN Tables
           /\ Position(p) + 1 \in DOMAIN Tables =>
                Metas(known)[Position(p) + 1] = TableMeta(known, TableAt(req, p))
<1>1. Position(p) \in Nat /\ (p # None => Position(p) = p)
  BY DEF Position
<1>2. Tables = TablesOf(req) /\ Len(Tables) \in Nat /\ DOMAIN Tables = 1..Len(Tables)
  BY JoinsAre
<1>3. TablePosition(req, p) <=> Position(p) + 1 \in DOMAIN Tables
  BY <1>1, <1>2 DEF TablePosition
<1>4. TableAt(req, p) = Tables[Position(p) + 1]
  BY <1>2 DEF TableAt
<1> QED BY <1>1, <1>3, <1>4 DEF Metas

(* A lookup that fails, in a table that was read.                          *)
LEMMA FinderMisses ==
    ASSUME NEW known, Joins(known), NEW t, Has(known, "columns", t)
    PROVE  \E d \in seen : \A c :
            HasColumn(d, SchemaAsked(req, d), t, c) <=> Finder(known, t, c).ok
BY MetaFinds DEF Joins, Finder

LEMMA JoinIndexIs ==
    ASSUME NEW meta, NEW c
    PROVE  /\ JoinColumnIndex(meta, c).ok <=> ColumnIndex(meta, c).ok
           /\ JoinColumnIndex(meta, c).ok => JoinColumnIndex(meta, c).val = ColumnIndex(meta, c).val
           /\ ~JoinColumnIndex(meta, c).ok => JoinColumnIndex(meta, c) = Err("invalid_join")
BY DEF JoinColumnIndex, Err

(* The pairs.                                                              *)
LEMMA PairReason ==
    ASSUME NEW known, Joins(known), NEW d \in seen,
           NEW i \in DOMAIN req.join.joins, NEW j \in DOMAIN req.join.joins[i].on,
           LET on == req.join.joins[i].on[j]
               left == <<Tables[on.left[1] + 1], on.left[2]>>
               right == <<Tables[i + 1], on.right>>
               s == SchemaAsked(req, d)
           IN \/ ~HasColumn(d, s, left[1], left[2]) \/ ~HasColumn(d, s, right[1], right[2])
              \/ ~Comparable(d, s, left, right)
    PROVE  Reasoned("invalid_join")
<1> DEFINE on == req.join.joins[i].on[j]
           left == <<TableAt(req, on.left[1]), on.left[2]>>
           right == <<TableAt(req, i), on.right>>
           s == SchemaAsked(req, d)
<1>1. on.left[1] \in Nat /\ i \in Nat /\ IsJoin(req)
  BY JoinsAre
<1>2. None \notin Nat
  BY PositionsAssumption
<1>3. TableAt(req, on.left[1]) = Tables[on.left[1] + 1]
  BY <1>1, <1>2, PlaceIs
<1>4. TableAt(req, i) = Tables[i + 1]
  BY <1>1, <1>2, PlaceIs
<1>5. (\E ref \in {left, right} : ~HasColumn(d, s, ref[1], ref[2])) \/ ~Comparable(d, s, left, right)
  BY <1>3, <1>4
<1>6. BadJoin(req, d, s)
  BY <1>1, <1>5 DEF BadJoin
<1>7. Faulty(req, d, "invalid_join")
  BY <1>6, FaultyIs
<1> QED BY <1>7 DEF Reasoned

LEMMA PairsJust ==
    ASSUME NEW known, Joins(known)
    PROVE  /\ Just(PairFault(req.join, Metas(known)))
           /\ PairFault(req.join, Metas(known)).ok =>
                \A i \in DOMAIN req.join.joins : \A j \in DOMAIN req.join.joins[i].on :
                    LET on == req.join.joins[i].on[j]
                        a == Tables[on.left[1] + 1]
                        b == Tables[i + 1]
                    IN /\ Located(known, a, on.left[2]) /\ Located(known, b, on.right)
                       /\ CheckPair(Finder(known, a, on.left[2]).val,
                                    Finder(known, b, on.right).val).ok
<1> DEFINE spec == req.join
           metas == Metas(known)
           fault(i, pair) ==
                LET lc == JoinColumnIndex(metas[pair.left[1] + 1], pair.left[2])
                    rc == JoinColumnIndex(metas[i + 1], pair.right)
                IN CASE ~lc.ok -> lc [] ~rc.ok -> rc [] OTHER -> CheckPair(lc.val, rc.val)
           ofJoin(i) == [j \in DOMAIN spec.joins[i].on |-> fault(i, spec.joins[i].on[j])]
           all == [i \in DOMAIN spec.joins |-> FirstError(ofJoin(i))]
<1>1. ASSUME NEW i \in DOMAIN spec.joins, NEW j \in DOMAIN spec.joins[i].on
      PROVE  /\ Just(fault(i, spec.joins[i].on[j]))
             /\ fault(i, spec.joins[i].on[j]).ok =>
                    LET on == spec.joins[i].on[j]
                        a == Tables[on.left[1] + 1]
                        b == Tables[i + 1]
                    IN /\ Located(known, a, on.left[2]) /\ Located(known, b, on.right)
                       /\ CheckPair(Finder(known, a, on.left[2]).val,
                                    Finder(known, b, on.right).val).ok
  <2> DEFINE on == spec.joins[i].on[j]
             a == Tables[on.left[1] + 1]
             b == Tables[i + 1]
             lc == JoinColumnIndex(metas[on.left[1] + 1], on.left[2])
             rc == JoinColumnIndex(metas[i + 1], on.right)
             lf == Finder(known, a, on.left[2])
             rf == Finder(known, b, on.right)
  <2>1. on.left[1] + 1 \in DOMAIN Tables /\ i + 1 \in DOMAIN Tables
    BY JoinsAre
  <2>2. metas[on.left[1] + 1] = TableMeta(known, a) /\ metas[i + 1] = TableMeta(known, b)
    BY <2>1 DEF Metas
  <2>3. Has(known, "columns", a) /\ Has(known, "columns", b)
        /\ (MariaDb => Has(known, "json", a) /\ Has(known, "json", b))
    BY <2>1, JoinsAre
  <2>4. /\ lc.ok <=> lf.ok
        /\ lc.ok => lc.val = lf.val
        /\ ~lc.ok => lc = Err("invalid_join")
    BY <2>2, JoinIndexIs, ZenonT(40) DEF Finder
  <2>5. /\ rc.ok <=> rf.ok
        /\ rc.ok => rc.val = rf.val
        /\ ~rc.ok => rc = Err("invalid_join")
    BY <2>2, JoinIndexIs, ZenonT(40) DEF Finder
  <2>6. fault(i, on) = CASE ~lc.ok -> lc [] ~rc.ok -> rc [] OTHER -> CheckPair(lc.val, rc.val)
    OBVIOUS
  <2>7. ~lf.ok => Reasoned("invalid_join")
    <3> SUFFICES ASSUME ~lf.ok PROVE Reasoned("invalid_join")
      OBVIOUS
    <3>1. PICK d \in seen : \A c : HasColumn(d, SchemaAsked(req, d), a, c) <=> Finder(known, a, c).ok
      BY <2>3, FinderMisses
    <3>2. ~HasColumn(d, SchemaAsked(req, d), a, on.left[2])
      BY <3>1
    <3> QED BY <3>2, PairReason
  <2>8. ~rf.ok => Reasoned("invalid_join")
    <3> SUFFICES ASSUME ~rf.ok PROVE Reasoned("invalid_join")
      OBVIOUS
    <3>1. PICK d \in seen : \A c : HasColumn(d, SchemaAsked(req, d), b, c) <=> Finder(known, b, c).ok
      BY <2>3, FinderMisses
    <3>2. ~HasColumn(d, SchemaAsked(req, d), b, on.right)
      BY <3>1
    <3> QED BY <3>2, PairReason
  <2>9. lf.ok /\ rf.ok /\ ~CheckPair(lf.val, rf.val).ok => Reasoned("invalid_join")
    <3> SUFFICES ASSUME lf.ok, rf.ok, ~CheckPair(lf.val, rf.val).ok PROVE Reasoned("invalid_join")
      OBVIOUS
    <3>1. seen # {} /\ Resolved(known)
      BY ReadyIs, JoinsAre DEF Joins
    <3>2. PICK o \in seen : OriginOf(o, seen)
      BY <3>1 DEF Joins, Ready, OriginInv
    <3>3. Located(known, a, on.left[2]) /\ Located(known, b, on.right)
      BY <2>3 DEF Located
    <3>4. ~Comparable(o, SchemaOf(known), <<a, on.left[2]>>, <<b, on.right>>)
      BY <2>3, <3>2, <3>3, ComparedIs DEF Joins
    <3>5. SchemaOf(known) = SchemaAsked(req, o)
      BY <3>1, SchemaIs DEF Joins
    <3> QED BY <3>4, <3>5, PairReason
  <2>10. ~CheckPair(lf.val, rf.val).ok => CheckPair(lf.val, rf.val) = Err("invalid_join")
    BY DEF CheckPair, Ok
  <2> HIDE DEF lc, rc, lf, rf, fault, on, a, b, metas
  <2>11. Just(fault(i, on))
    <3>1. CASE ~lf.ok \/ ~rf.ok
      <4>1. fault(i, on) = Err("invalid_join")
        BY <2>4, <2>5, <2>6, <3>1
      <4> QED BY <2>7, <2>8, <3>1, <4>1, JustErr
    <3>2. CASE lf.ok /\ rf.ok
      <4>1. fault(i, on) = CheckPair(lf.val, rf.val)
        BY <2>4, <2>5, <2>6, <3>2
      <4> QED BY <2>9, <2>10, <3>2, <4>1, JustErr DEF Just
    <3> QED BY <3>1, <3>2
  <2>12. fault(i, on).ok => lf.ok /\ rf.ok /\ CheckPair(lf.val, rf.val).ok
    BY <2>4, <2>5, <2>6 DEF Err
  <2> QED BY <2>3, <2>11, <2>12 DEF on, a, b, lf, rf, Located
<1> HIDE DEF fault, metas
<1>2. /\ DOMAIN spec.joins \subseteq Nat
      /\ \A i \in DOMAIN spec.joins : DOMAIN spec.joins[i].on \subseteq Nat
  BY JoinsAre
<1>3. \A i \in DOMAIN spec.joins : Just(FirstError(ofJoin(i)))
  BY <1>1, <1>2, JustFirst
<1>4. \A i \in DOMAIN spec.joins : FirstError(ofJoin(i)).ok =>
        \A j \in DOMAIN spec.joins[i].on : fault(i, spec.joins[i].on[j]).ok
  <2> SUFFICES ASSUME NEW i \in DOMAIN spec.joins, FirstError(ofJoin(i)).ok
               PROVE  \A j \in DOMAIN spec.joins[i].on : fault(i, spec.joins[i].on[j]).ok
    OBVIOUS
  <2>1. \A j \in DOMAIN ofJoin(i) : ofJoin(i)[j].ok
    <3> HIDE DEF ofJoin
    <3> QED BY FirstErrorOk
  <2> QED BY <2>1
<1> HIDE DEF ofJoin
<1>5. Just(FirstError(all))
  BY <1>2, <1>3, JustFirst
<1>6. FirstError(all).ok => \A i \in DOMAIN spec.joins : FirstError(ofJoin(i)).ok
  <2> SUFFICES ASSUME FirstError(all).ok
               PROVE  \A i \in DOMAIN spec.joins : FirstError(ofJoin(i)).ok
    OBVIOUS
  <2>1. \A i \in DOMAIN all : all[i].ok
    <3> HIDE DEF all
    <3> QED BY FirstErrorOk
  <2> QED BY <2>1
<1>7. PairFault(spec, metas) = FirstError(all)
  BY DEF PairFault, all, ofJoin, fault
<1> QED BY <1>1, <1>4, <1>5, <1>6, <1>7 DEF metas

(* The columns a join returns.                                             *)
ColumnsLocated(known) ==
    req.join.columns # None => \A i \in DOMAIN req.join.columns :
        LET ref == req.join.columns[i]
        IN TablePosition(req, ref[1]) /\ Located(known, TableAt(req, ref[1]), ref[2])

LEMMA ColumnReason ==
    ASSUME NEW known, Joins(known), req.join.columns # None, NEW d \in seen,
           NEW i \in DOMAIN req.join.columns,
           LET ref == req.join.columns[i]
           IN \/ ~TablePosition(req, ref[1])
              \/ ~HasColumn(d, SchemaAsked(req, d), TableAt(req, ref[1]), ref[2])
    PROVE  Reasoned("invalid_join")
<1>1. IsJoin(req)
  BY JoinsAre
<1>2. BadJoin(req, d, SchemaAsked(req, d))
  BY <1>1 DEF BadJoin
<1>3. Faulty(req, d, "invalid_join")
  BY <1>2, FaultyIs
<1> QED BY <1>3 DEF Reasoned

LEMMA ColumnsJust ==
    ASSUME NEW known, Joins(known)
    PROVE  LET selection == Selection(req.join, Metas(known))
           IN /\ Just(ColumnFault(selection, Metas(known)))
              /\ ColumnFault(selection, Metas(known)).ok => ColumnsLocated(known)
<1> DEFINE metas == Metas(known)
           selection == Selection(req.join, metas)
           checks == [i \in DOMAIN selection |->
                        IF selection[i][1] + 1 \notin DOMAIN metas THEN Err("invalid_join")
                        ELSE JoinColumnIndex(metas[selection[i][1] + 1], selection[i][2])]
<1>1. ColumnFault(selection, metas) = FirstError(checks)
  BY DEF ColumnFault
<1>2. DOMAIN metas = DOMAIN Tables
  BY DEF Metas
<1>3. CASE req.join.columns # None
  <2>1. selection = req.join.columns
    BY <1>3 DEF Selection
  <2>2. /\ DOMAIN selection \subseteq Nat
        /\ \A i \in DOMAIN selection : selection[i][1] \in Nat
    <3>1. req \in Requests /\ req.route = "join" /\ req.join \notin {None, Oversize, Malformed}
      BY JoinsAre DEF IsJoin
    <3>2. req.join.columns \in Seq(ToSet(req.join.columns))
      BY <1>3, <3>1, RequestsAssumption
    <3>3. \A i \in DOMAIN req.join.columns : req.join.columns[i][1] \in Nat
      BY <1>3, <3>1, PositionsAssumption
    <3> QED BY <2>1, <3>2, <3>3
  <2>3. ASSUME NEW i \in DOMAIN selection
        PROVE  /\ Just(checks[i])
               /\ checks[i].ok => /\ TablePosition(req, selection[i][1])
                                  /\ Located(known, TableAt(req, selection[i][1]), selection[i][2])
    <3> DEFINE p == selection[i][1]
               c == selection[i][2]
               t == TableAt(req, p)
               found == JoinColumnIndex(metas[p + 1], c)
    <3>1. p \in Nat /\ p # None /\ Position(p) = p
      BY <2>2, PositionsAssumption DEF Position
    <3>2. /\ TablePosition(req, p) <=> p + 1 \in DOMAIN Tables
          /\ t = Tables[p + 1]
          /\ p + 1 \in DOMAIN Tables => metas[p + 1] = TableMeta(known, t)
      BY <3>1, PlaceIs
    <3>3. checks[i] = IF p + 1 \notin DOMAIN Tables THEN Err("invalid_join") ELSE found
      BY <1>2
    <3> HIDE DEF checks, metas, p, c, t
    <3>4. CASE p + 1 \notin DOMAIN Tables
      <4>1. checks[i] = Err("invalid_join") /\ ~TablePosition(req, p)
        BY <3>2, <3>3, <3>4
      <4>2. seen # {}
        BY ReadyIs DEF Joins
      <4>3. Reasoned("invalid_join")
        BY <1>3, <2>1, <4>1, <4>2, ColumnReason DEF p
      <4> QED BY <4>1, <4>3, JustErr DEF Err
    <3>5. CASE p + 1 \in DOMAIN Tables
      <4>1. Has(known, "columns", t)
        BY <3>2, <3>5, JoinsAre
      <4>2. checks[i] = found /\ metas[p + 1] = TableMeta(known, t) /\ TablePosition(req, p)
        BY <3>2, <3>3, <3>5
      <4>3. (found.ok <=> Finder(known, t, c).ok) /\ (~found.ok => found = Err("invalid_join"))
        BY <4>2, JoinIndexIs DEF Finder
      <4>4. ASSUME ~found.ok PROVE Reasoned("invalid_join")
        <5>1. PICK d \in seen : \A b :
                HasColumn(d, SchemaAsked(req, d), t, b) <=> Finder(known, t, b).ok
          BY <4>1, FinderMisses
        <5>2. ~HasColumn(d, SchemaAsked(req, d), t, c)
          BY <4>3, <4>4, <5>1
        <5> QED BY <1>3, <2>1, <5>2, ColumnReason DEF p, c, t
      <4> HIDE DEF found
      <4>5. Just(checks[i])
        BY <4>2, <4>3, <4>4, JustErr DEF Just
      <4> QED BY <4>1, <4>2, <4>3, <4>5 DEF Located, p, c, t
    <3> QED BY <3>4, <3>5 DEF p, c, t
  <2> HIDE DEF selection, metas
  <2>4. DOMAIN checks = DOMAIN selection
    OBVIOUS
  <2> HIDE DEF checks
  <2>5. Just(FirstError(checks))
    BY <2>2, <2>3, <2>4, JustFirst
  <2>6. FirstError(checks).ok => \A i \in DOMAIN selection : checks[i].ok
    BY <2>4, FirstErrorOk
  <2>7. FirstError(checks).ok => ColumnsLocated(known)
    BY <2>1, <2>3, <2>6 DEF ColumnsLocated
  <2> QED BY <1>1, <2>5, <2>7 DEF selection, metas
<1>4. CASE req.join.columns = None
  <2> DEFINE seqs == [p \in DOMAIN metas |->
                        [c \in DOMAIN metas[p].columns |-> <<p - 1, metas[p].columns[c].name>>]]
             S == UNION {ToSet(seqs[p]) : p \in DOMAIN Tables}
  <2>1. selection = FlattenSeq(seqs)
    BY <1>4 DEF Selection
  <2>2. Len(Tables) \in Nat \ {0} /\ DOMAIN Tables = 1..Len(Tables)
    <3>1. \E n \in Nat \ {0} : DOMAIN Tables = 1..n
      BY JoinShape, ReadyIs DEF Joins
    <3> QED BY <3>1, JoinsAre
  <2>3. DOMAIN seqs = 1..Len(Tables)
    BY <1>2, <2>2
  <2>4. ASSUME NEW p \in 1..Len(Tables)
        PROVE  /\ seqs[p] \in Seq(S)
               /\ \A ref \in ToSet(seqs[p]) : ref[1] + 1 = p /\ ColumnIndex(metas[p], ref[2]).ok
    <3>1. PICK columns : columns = metas[p].columns
      OBVIOUS
    <3>2. columns \in Seq(ToSet(columns))
      <4>1. metas[p] = TableMeta(known, Tables[p]) /\ Has(known, "columns", Tables[p])
        BY <2>2, JoinsAre DEF Metas
      <4> QED BY <3>1, <4>1, MetaInOrder DEF Joins, Ready
    <3>3. seqs[p] = [c \in DOMAIN columns |-> <<p - 1, columns[c].name>>]
      BY <1>2, <2>2, <3>1
    <3>4. Len(columns) \in Nat /\ DOMAIN columns = 1..Len(columns)
      BY <3>2
    <3>5. p \in DOMAIN Tables
      BY <2>2
    <3> HIDE DEF seqs
    <3>6. ToSet(seqs[p]) \subseteq S
      BY <3>5
    <3> HIDE DEF S, metas
    <3>7. \A c \in 1..Len(columns) : seqs[p][c] \in S
      BY <3>3, <3>4, <3>6 DEF ToSet
    <3>8. seqs[p] \in Seq(S)
      BY <3>3, <3>4, <3>7
    <3>9. ASSUME NEW ref \in ToSet(seqs[p])
          PROVE  ref[1] + 1 = p /\ ColumnIndex(metas[p], ref[2]).ok
      <4>1. PICK c \in DOMAIN columns : ref = <<p - 1, columns[c].name>>
        BY <3>3 DEF ToSet
      <4>2. ColumnIndex(metas[p], columns[c].name).ok
        BY <3>1 DEF ColumnIndex, Ok
      <4> QED BY <4>1, <4>2
    <3> QED BY <3>8, <3>9
  <2>5. \A ref \in S : ref[1] + 1 \in DOMAIN metas /\ ColumnIndex(metas[ref[1] + 1], ref[2]).ok
    <3> SUFFICES ASSUME NEW ref \in S
                 PROVE  ref[1] + 1 \in DOMAIN metas /\ ColumnIndex(metas[ref[1] + 1], ref[2]).ok
      OBVIOUS
    <3> HIDE DEF seqs, metas
    <3>1. PICK p \in DOMAIN Tables : ref \in ToSet(seqs[p])
      OBVIOUS
    <3> QED BY <1>2, <2>2, <2>4, <3>1
  <2> HIDE DEF S, metas
  <2>6. seqs \in Seq(Seq(S)) /\ seqs # <<>>
    <3>1. 1 \in DOMAIN seqs
      BY <2>2, <2>3
    <3>2. seqs \in Seq(Seq(S))
      BY <2>2, <2>3, <2>4
    <3> HIDE DEF seqs
    <3> QED BY <3>1, <3>2
  <2> HIDE DEF seqs
  <2>7. FlattenSeq(seqs) \in Seq(S)
    BY <2>6, FlattenIsSeq
  <2> HIDE DEF selection
  <2>8. DOMAIN selection \subseteq Nat /\ \A i \in DOMAIN selection : selection[i] \in S
    BY <2>1, <2>7
  <2>9. \A i \in DOMAIN checks : checks[i].ok
    BY <2>5, <2>8, JoinIndexIs
  <2>10. DOMAIN checks \subseteq Nat
    BY <2>8
  <2> HIDE DEF checks
  <2>11. Just(FirstError(checks))
    BY <2>9, <2>10, JustFirst DEF Just
  <2> QED BY <1>1, <1>4, <2>11 DEF selection, metas, ColumnsLocated
<1> QED BY <1>3, <1>4

(* The conditions of its filter.                                           *)
LEMMA FiltersJust ==
    ASSUME NEW known, Joins(known), NEW filter, filter = Filters(req), WellRead(filter, TRUE), Plain(req)
    PROVE  /\ Just(FilterFault(filter, Metas(known)))
           /\ FilterFault(filter, Metas(known)).ok =>
                /\ \A i \in DOMAIN Filters(req) : TablePosition(req, Filters(req)[i].join)
                /\ \A w \in FiltersBy(req) : Located(known, w[1], w[2])
<1> DEFINE metas == Metas(known)
           checks == [i \in DOMAIN filter |->
                CASE Position(filter[i].join) + 1 \notin DOMAIN metas -> Err("invalid_filter")
                  [] TakesValue(filter[i].op) # (filter[i].value # None) -> Err("invalid_filter")
                  [] OTHER -> ColumnIndex(metas[Position(filter[i].join) + 1], filter[i].column)]
<1>1. FilterFault(filter, metas) = FirstError(checks)
  BY DEF FilterFault
<1>2. DOMAIN metas = DOMAIN Tables
  BY DEF Metas
<1>3. ASSUME NEW i \in DOMAIN filter
      PROVE  /\ Just(checks[i])
             /\ checks[i].ok =>
                    /\ TablePosition(req, filter[i].join)
                    /\ Located(known, TableAt(req, filter[i].join), filter[i].column)
  <2> DEFINE p == filter[i].join
             c == filter[i].column
             t == TableAt(req, p)
  <2>1. p \in Nat \cup {None}
    <3>1. req.filter \notin {None, Blank} /\ filter = req.filter
      BY DEF Filters
    <3>2. req \in Requests
      BY JoinsAre
    <3>3. req.filter \notin {Oversize, Malformed}
      BY <3>1 DEF Plain, FilterParses, ParseFilter, Err
    <3> QED BY <3>1, <3>2, <3>3, PositionsAssumption
  <2>2. /\ TablePosition(req, p) <=> Position(p) + 1 \in DOMAIN Tables
        /\ t = Tables[Position(p) + 1]
        /\ Position(p) + 1 \in DOMAIN Tables => metas[Position(p) + 1] = TableMeta(known, t)
    BY <2>1, PlaceIs
  <2>3. (TakesValue(filter[i].op) # (filter[i].value # None)) = FALSE
    BY DEF WellRead, TakesValue
  <2>4. checks[i] = IF Position(p) + 1 \notin DOMAIN Tables THEN Err("invalid_filter")
                    ELSE ColumnIndex(metas[Position(p) + 1], c)
    BY <1>2, <2>3
  <2> HIDE DEF checks, metas, p, c, t
  <2>5. CASE Position(p) + 1 \notin DOMAIN Tables
    <3>1. checks[i] = Err("invalid_filter") /\ ~TablePosition(req, p)
      BY <2>2, <2>4, <2>5
    <3>2. PICK d \in seen : TRUE
      BY ReadyIs DEF Joins
    <3>3. BadFilter(req, d)
      BY <3>1, JoinsAre DEF BadFilter, p, IsJoin
    <3>4. Reasoned("invalid_filter")
      BY <3>3, FaultyIs DEF Reasoned
    <3> QED BY <3>1, <3>4, JustErr DEF Err
  <2>6. CASE Position(p) + 1 \in DOMAIN Tables
    <3>1. Has(known, "columns", t) /\ TablePosition(req, p)
      BY <2>2, <2>6, JoinsAre
    <3>2. checks[i] = Finder(known, t, c)
      BY <2>2, <2>4, <2>6 DEF Finder
    <3>3. <<t, c>> \in FiltersBy(req)
      BY <3>1 DEF FiltersBy, p, c, t
    <3>4. ASSUME ~Finder(known, t, c).ok PROVE Just(checks[i])
      <4>1. Reasoned("unknown_column")
        BY <3>1, <3>3, <3>4, MissIsReason DEF Joins
      <4>2. checks[i] = Err("unknown_column")
        BY <3>2, <3>4 DEF Finder, ColumnIndex, Ok
      <4> QED BY <4>1, <4>2, JustErr
    <3>5. Just(checks[i])
      BY <3>2, <3>4 DEF Just
    <3> QED BY <3>1, <3>2, <3>5 DEF Located, p, c, t
  <2> QED BY <2>5, <2>6 DEF p, c, t
<1> HIDE DEF metas
<1>4. DOMAIN checks = DOMAIN filter /\ DOMAIN checks \subseteq Nat
  BY DEF WellRead
<1> HIDE DEF checks
<1>5. Just(FirstError(checks))
  BY <1>3, <1>4, JustFirst
<1>6. ASSUME FirstError(checks).ok
      PROVE  /\ \A i \in DOMAIN filter : TablePosition(req, filter[i].join)
             /\ \A w \in FiltersBy(req) : Located(known, w[1], w[2])
  <2>1. \A i \in DOMAIN filter : checks[i].ok
    BY <1>4, <1>6, FirstErrorOk
  <2>2. \A w \in FiltersBy(req) :
            \E i \in DOMAIN filter : w = <<TableAt(req, filter[i].join), filter[i].column>>
    BY DEF FiltersBy
  <2> QED BY <1>3, <2>1, <2>2
<1> QED BY <1>1, <1>5, <1>6 DEF metas

(* What it sorts by.                                                       *)
LEMMA SortJust ==
    ASSUME NEW known, Joins(known), Plain(req)
    PROVE  LET fault == SortFault(req.sort, req.sortJoin, Metas(known))
           IN /\ Just(fault)
              /\ fault.ok => /\ \A w \in SortsBy(req) : Located(known, w[1], w[2])
                             /\ req.sort # None => TablePosition(req, req.sortJoin)
                             /\ req.sort = None => req.sortJoin = None
<1> DEFINE metas == Metas(known)
           fault == SortFault(req.sort, req.sortJoin, metas)
           p == req.sortJoin
           t == TableAt(req, p)
<1>1. /\ req \in Requests /\ IsJoin(req) /\ JoinParses(req)
  BY JoinsAre
<1>2. p \in Nat \cup {None} /\ Position(None) = 0
  BY <1>1, PositionsAssumption DEF Plain, Position
<1>3. /\ TablePosition(req, p) <=> Position(p) + 1 \in DOMAIN Tables
      /\ t = Tables[Position(p) + 1]
      /\ Position(p) + 1 \in DOMAIN Tables => metas[Position(p) + 1] = TableMeta(known, t)
      /\ DOMAIN metas = DOMAIN Tables
  BY <1>2, PlaceIs
<1>4. 1 \in DOMAIN Tables
  <2>1. \E n \in Nat \ {0} : DOMAIN Tables = 1..n
    BY JoinShape, ReadyIs DEF Joins
  <2> QED BY <2>1
<1> HIDE DEF t, metas
<1>5. CASE req.sort = None
  <2>1. CASE p = None
    <3>1. fault = Ok(None)
      BY <1>2, <1>3, <1>4, <1>5, <2>1 DEF SortFault
    <3> QED BY <1>5, <2>1, <3>1, JustOk DEF SortsBy, metas
  <2>2. CASE p # None
    <3>1. fault = Err("invalid_parameter")
      BY <1>5, <2>2 DEF SortFault
    <3>2. BadParameter(req)
      BY <1>1, <1>5, <2>2 DEF BadParameter
    <3> QED BY <3>1, <3>2, JustErr DEF Err, Reasoned, metas
  <2> QED BY <2>1, <2>2
<1>6. CASE req.sort # None /\ Position(p) + 1 \notin DOMAIN Tables
  <2>1. fault = Err("invalid_parameter")
    BY <1>3, <1>6 DEF SortFault
  <2>2. p # None
    BY <1>2, <1>4, <1>6
  <2>3. BadParameter(req)
    BY <1>1, <1>3, <1>6, <2>2 DEF BadParameter
  <2> QED BY <2>1, <2>3, JustErr DEF Err, Reasoned, metas
<1>7. CASE req.sort # None /\ Position(p) + 1 \in DOMAIN Tables
  <2>1. fault = Finder(known, t, req.sort)
    BY <1>3, <1>7 DEF SortFault, Finder
  <2>2. SortsBy(req) = {<<t, req.sort>>} /\ TablePosition(req, p)
    BY <1>3, <1>7 DEF SortsBy, t
  <2>3. Has(known, "columns", t)
    BY <1>3, <1>7, JoinsAre
  <2>4. ASSUME ~Finder(known, t, req.sort).ok PROVE Just(fault)
    <3>1. Reasoned("unknown_column")
      BY <2>2, <2>3, <2>4, MissIsReason DEF Joins
    <3>2. fault = Err("unknown_column")
      BY <2>1, <2>4 DEF Finder, ColumnIndex, Ok
    <3> QED BY <3>1, <3>2, JustErr
  <2>5. Just(fault)
    BY <2>1, <2>4 DEF Just
  <2>6. fault.ok => \A w \in SortsBy(req) : Located(known, w[1], w[2])
    BY <2>1, <2>2, <2>3 DEF Located
  <2> QED BY <1>7, <2>2, <2>5, <2>6 DEF metas
<1> QED BY <1>5, <1>6, <1>7

PairsLocated(known) ==
    \A i \in DOMAIN req.join.joins : \A j \in DOMAIN req.join.joins[i].on :
        LET on == req.join.joins[i].on[j]
            a == Tables[on.left[1] + 1]
            b == Tables[i + 1]
        IN /\ Located(known, a, on.left[2]) /\ Located(known, b, on.right)
           /\ CheckPair(Finder(known, a, on.left[2]).val, Finder(known, b, on.right).val).ok

(* What a SELECT was built from.                                           *)
Chosen(known) ==
    AllLocated(known) /\ (IsJoin(req) => PairsLocated(known) /\ ColumnsLocated(known))

LEMMA JoinBuilt ==
    ASSUME NEW known, Joins(known)
    PROVE  /\ Just(JoinSelect(known))
           /\ JoinSelect(known).ok => Fits(JoinSelect(known).val, SchemaOf(known)) /\ Chosen(known)
<1> DEFINE spec == req.join
           opts == JoinRequest(req).val
           metas == Metas(known)
           selection == Selection(spec, metas)
           filter == ReadFilter(opts)
           faults == <<PairFault(spec, metas), ColumnFault(selection, metas),
                       FilterFault(filter, metas), SortFault(opts.sort, opts.sortJoin, metas)>>
           order == IF opts.sort = None THEN None
                    ELSE NativeOrder(<<Position(opts.sortJoin), opts.sort>>, opts.descending)
           plan == [spec |-> spec, tables |-> metas, selection |-> selection,
                    labels |-> AssignLabels(selection), filter |-> filter, sort |-> order]
           select == JoinSelect(known)
           q == select.val
<1>1. JoinPlan(known) = AndThen(FirstError(faults), Ok(plan))
  BY DEF JoinPlan, Plan, Metas, ReadFilter
<1>2. /\ filter = Filters(req) /\ opts.sort = req.sort /\ opts.sortJoin = req.sortJoin
      /\ WellRead(Filters(req), TRUE) /\ Plain(req) /\ opts.descending \in BOOLEAN
  <2>1. req \in Requests /\ Asks({"join"}) /\ JoinRequest(req).ok
    BY JoinsAre DEF Joins
  <2> QED BY <2>1, JoinReads
<1>3. /\ Just(PairFault(spec, metas))
      /\ PairFault(spec, metas).ok => PairsLocated(known)
  BY PairsJust DEF PairsLocated
<1>4. /\ Just(ColumnFault(selection, metas))
      /\ ColumnFault(selection, metas).ok => ColumnsLocated(known)
  BY ColumnsJust
<1>5. /\ Just(FilterFault(filter, metas))
      /\ FilterFault(filter, metas).ok =>
            /\ \A i \in DOMAIN Filters(req) : TablePosition(req, Filters(req)[i].join)
            /\ \A w \in FiltersBy(req) : Located(known, w[1], w[2])
  BY <1>2, FiltersJust
<1>6. /\ Just(SortFault(opts.sort, opts.sortJoin, metas))
      /\ SortFault(opts.sort, opts.sortJoin, metas).ok =>
            /\ \A w \in SortsBy(req) : Located(known, w[1], w[2])
            /\ req.sort # None => TablePosition(req, req.sortJoin)
            /\ req.sort = None => req.sortJoin = None
  BY <1>2, SortJust
<1>7. /\ DOMAIN metas = DOMAIN Tables
      /\ \A p \in DOMAIN Tables : metas[p].name = Tables[p]
  BY DEF Metas, TableMeta
<1> HIDE DEF opts, metas, selection, filter
<1>8. Just(FirstError(faults))
  <2>1. DOMAIN faults \subseteq Nat /\ \A i \in DOMAIN faults : Just(faults[i])
    BY <1>3, <1>4, <1>5, <1>6
  <2> HIDE DEF faults
  <2> QED BY <2>1, JustFirst
<1>9. FirstError(faults).ok =>
        /\ PairFault(spec, metas).ok /\ ColumnFault(selection, metas).ok
        /\ FilterFault(filter, metas).ok /\ SortFault(opts.sort, opts.sortJoin, metas).ok
  <2>1. 1 \in DOMAIN faults /\ 2 \in DOMAIN faults /\ 3 \in DOMAIN faults /\ 4 \in DOMAIN faults
    OBVIOUS
  <2>2. FirstError(faults).ok => faults[1].ok /\ faults[2].ok /\ faults[3].ok /\ faults[4].ok
    <3> HIDE DEF faults
    <3> QED BY <2>1, FirstErrorOk
  <2> QED BY <2>2
<1> HIDE DEF faults, plan
<1>10. Just(JoinPlan(known))
  BY <1>1, <1>8, JustThen, JustOk
<1>11. select = AndThen(JoinPlan(known),
            Ok(BuildSelect(JoinPlan(known).val, SchemaOf(known), Keyword,
                           Paging(req).limit + 1, Paging(req).offset)))
  BY DEF JoinSelect, QueryJoin
<1> HIDE DEF select
<1>12. Just(select)
  BY <1>10, <1>11, JustThen, JustOk
<1>13. ASSUME select.ok PROVE Fits(q, SchemaOf(known)) /\ Chosen(known)
  <2>1. JoinPlan(known).ok /\ q = BuildSelect(JoinPlan(known).val, SchemaOf(known), Keyword,
                                              Paging(req).limit + 1, Paging(req).offset)
    BY <1>11, <1>13, AndThenOk DEF Ok
  <2>2. FirstError(faults).ok /\ JoinPlan(known) = Ok(plan)
    BY <1>1, <2>1, AndThenOk
  <2>3. q = BuildSelect(plan, SchemaOf(known), Keyword, Paging(req).limit + 1, Paging(req).offset)
    BY <2>1, <2>2 DEF Ok
  <2> HIDE DEF q, order
  <2>4. /\ q.schema = SchemaOf(known) /\ q.sort = order
        /\ q.tables = [p \in DOMAIN metas |-> metas[p].name]
        /\ DOMAIN q.where = DOMAIN filter
        /\ \A i \in DOMAIN filter : /\ q.where[i].value = filter[i].value
                                   /\ q.where[i].keyword = Keyword(filter[i].op)
        /\ q.onText = FALSE /\ q.ons = [i \in DOMAIN spec.joins |-> spec.joins[i].on]
    BY <2>3 DEF BuildSelect, plan, OnText
  <2>5. Chosen(known)
    BY <1>3, <1>4, <1>5, <1>6, <1>9, <2>2 DEF Chosen, AllLocated
  <2>6. \E desc \in BOOLEAN :
            q.sort = IF req.sort = None THEN None
                     ELSE NativeOrder(<<Position(req.sortJoin), req.sort>>, desc)
    BY <1>2, <2>4 DEF order
  <2>7. req.sort # None =>
            Position(req.sortJoin) + 1 \in DOMAIN Tables /\ TablePosition(req, req.sortJoin)
    <3>1. req.sort # None => TablePosition(req, req.sortJoin)
      BY <2>5 DEF Chosen, AllLocated
    <3>2. req.sortJoin \in Nat \cup {None}
      BY <1>2, JoinsAre, PositionsAssumption DEF Plain
    <3> QED BY <3>1, <3>2, PlaceIs
  <2>8. DOMAIN q.tables = DOMAIN Tables /\ \A p \in DOMAIN Tables : q.tables[p] = Tables[p]
    BY <1>7, <2>4
  <2>10. q.onText = FALSE /\ q.ons = OnPairs(req)
    BY <2>4, JoinsAre DEF OnPairs
  <2>11. /\ DOMAIN q.where = DOMAIN Filters(req)
         /\ \A i \in DOMAIN q.where : /\ q.where[i].value = Filters(req)[i].value
                                     /\ q.where[i].keyword = Keyword(Filters(req)[i].op)
    BY <1>2, <2>4
  <2>9. Fits(q, SchemaOf(known))
    BY <1>2, <2>4, <2>6, <2>7, <2>8, <2>10, <2>11 DEF Fits
  <2> QED BY <2>5, <2>9
<1> QED BY <1>12, <1>13 DEF select

LEMMA VerdictJust ==
    ASSUME NEW known, Ready(known)
    PROVE  /\ Just(Verdict(known))
           /\ Verdict(known).ok =>
                /\ SchemaFault(known).ok /\ NamesFault(known).ok
                /\ Selects(known) =>
                    Fits(Verdict(known).val, SchemaOf(known)) /\ Chosen(known)
<1> DEFINE schema == SchemaFault(known)
           table == TableFault(known)
           names == NamesFault(known)
           last == IF Selects(known) THEN SelectOf(known) ELSE Ok(None)
<1>1. Verdict(known) = AndThen(schema, AndThen(table, AndThen(names, last)))
  BY DEF Verdict
<1>2. Just(schema) /\ Just(table) /\ Just(names)
  BY SchemaJust, TableJust, NamesJust
<1>3. ASSUME Selects(known)
      PROVE  /\ Just(SelectOf(known))
             /\ SelectOf(known).ok => Fits(SelectOf(known).val, SchemaOf(known)) /\ Chosen(known)
  <2>1. CASE Asks({"join"})
    BY <1>3, <2>1, JoinBuilt DEF SelectOf, Joins
  <2>2. CASE ~Asks({"join"})
    <3>1. ~IsJoin(req)
      BY <2>2 DEF Asks, IsJoin
    <3> QED BY <1>3, <2>2, <3>1, TableBuilt DEF SelectOf, Chosen
  <2> QED BY <2>1, <2>2
<1>4. /\ Just(last)
      /\ last.ok /\ Selects(known) => Fits(last.val, SchemaOf(known)) /\ Chosen(known)
  BY <1>3, JustOk
<1> HIDE DEF schema, table, names, last
<1>5. Just(Verdict(known))
  BY <1>1, <1>2, <1>4, JustThen
<1>6. Verdict(known).ok => schema.ok /\ names.ok /\ last.ok /\ Verdict(known) = last
  <2> SUFFICES ASSUME Verdict(known).ok
               PROVE  schema.ok /\ names.ok /\ last.ok /\ Verdict(known) = last
    OBVIOUS
  <2>1. /\ schema.ok
        /\ AndThen(table, AndThen(names, last)).ok
        /\ Verdict(known) = AndThen(table, AndThen(names, last))
    BY <1>1, AndThenOk
  <2>2. AndThen(names, last).ok /\ Verdict(known) = AndThen(names, last)
    BY <2>1, AndThenOk
  <2>3. names.ok /\ AndThen(names, last) = last
    BY <2>2, AndThenOk
  <2> QED BY <2>1, <2>2, <2>3
<1> QED BY <1>4, <1>5, <1>6 DEF schema, names

-----------------------------------------------------------------------------
(* A request of tables/data or tables/join that has no fault in d but, it  *)
(* may be, one its engine finds.                                           *)
BuiltRight(r, d) ==
    LET s == SchemaAsked(r, d)
    IN /\ \A w \in SortsBy(r) \cup FiltersBy(r) : HasColumn(d, s, w[1], w[2])
       /\ \A i \in DOMAIN TablesOf(r) : Served(d, s, TablesOf(r)[i])
       /\ ~BadJoin(r, d, s)
       /\ r.sort # None => TablePosition(r, r.sortJoin)
       /\ r.sort = None => r.sortJoin = None
       /\ IsJoin(r) => \A i \in DOMAIN Filters(r) : TablePosition(r, Filters(r)[i].join)

LEMMA TablesMatch == Asks({"data", "join"}) => Tables = TablesOf(req)
<1>1. CASE Asks({"join"})
  BY <1>1 DEF Tables, TablesOf, Asks, IsJoin
<1>2. CASE ~Asks({"join"})
  BY <1>2 DEF Tables, TablesOf, Asks, IsJoin
<1> QED BY <1>1, <1>2

LEMMA ChosenIsRight ==
    ASSUME NEW known, Ready(known), Selects(known), ~disturbed, Chosen(known)
    PROVE  BuiltRight(req, db)
<1> DEFINE s == SchemaAsked(req, db)
<1>1. seen = {db} /\ OriginOf(db, seen)
  <2>1. seen = {db}
    BY ReadyIs, CalmIs DEF Ready, AInv
  <2>2. seen # {}
    BY <2>1
  <2>3. \E o \in seen : OriginOf(o, seen)
    BY <2>2 DEF Ready, OriginInv
  <2> QED BY <2>1, <2>3
<1>2. Resolved(known) /\ SchemaOf(known) = s /\ db \in seen
  BY <1>1, SchemaIs DEF Selects
<1>3. ASSUME NEW t, NEW c, Located(known, t, c) PROVE HasColumn(db, s, t, c)
  <2>1. \E d \in seen : \A x :
            HasColumn(d, SchemaAsked(req, d), t, x) <=> ColumnIndex(TableMeta(known, t), x).ok
    BY <1>3, MetaFinds DEF Located
  <2> QED BY <1>1, <1>3, <2>1 DEF Located, Finder
<1>4. Tables = TablesOf(req)
  BY TablesMatch DEF Selects
<1>5. \A i \in DOMAIN Tables : Served(db, s, Tables[i])
  <2> SUFFICES ASSUME NEW i \in DOMAIN Tables PROVE Served(db, s, Tables[i])
    OBVIOUS
  <2>1. Has(known, "columns", Tables[i])
    BY SelectsDescribed DEF Ready
  <2>2. TableSeen(s, Tables[i])
    BY <1>2, <2>1 DEF Ready, Founded, Sound, Has, Rooted, TableKinds
  <2> QED BY <1>1, <2>2 DEF TableSeen
<1>6. ~BadJoin(req, db, s)
  <2> SUFFICES ASSUME IsJoin(req), BadJoin(req, db, s) PROVE FALSE
    BY DEF BadJoin
  <2>1. Joins(known)
    BY DEF Joins, IsJoin, Asks
  <2>2. JoinParses(req)
    BY <2>1, JoinsAre
  <2>3. ASSUME NEW i \in DOMAIN req.join.joins, NEW j \in DOMAIN req.join.joins[i].on
        PROVE  LET on == req.join.joins[i].on[j]
                   left == <<TableAt(req, on.left[1]), on.left[2]>>
                   right == <<TableAt(req, i), on.right>>
               IN /\ \A ref \in {left, right} : HasColumn(db, s, ref[1], ref[2])
                  /\ Comparable(db, s, left, right)
    <3> DEFINE on == req.join.joins[i].on[j]
               a == Tables[on.left[1] + 1]
               b == Tables[i + 1]
    <3>1. on.left[1] \in Nat /\ i \in Nat /\ on.left[1] + 1 \in DOMAIN Tables /\ i + 1 \in DOMAIN Tables
      BY <2>1, JoinsAre
    <3>2. TableAt(req, on.left[1]) = a /\ TableAt(req, i) = b
      <4>1. on.left[1] # None /\ i # None
        BY <3>1, PositionsAssumption
      <4> QED BY <1>4, <4>1 DEF TableAt, Position
    <3>3. /\ Located(known, a, on.left[2]) /\ Located(known, b, on.right)
          /\ CheckPair(Finder(known, a, on.left[2]).val, Finder(known, b, on.right).val).ok
      BY DEF Chosen, PairsLocated
    <3>4. MariaDb => Has(known, "json", a) /\ Has(known, "json", b)
      BY <2>1, <3>1, JoinsAre
    <3> HIDE DEF on, a, b
    <3>5. Comparable(db, s, <<a, on.left[2]>>, <<b, on.right>>)
      BY <1>1, <1>2, <3>3, <3>4, ComparedIs
    <3>6. HasColumn(db, s, a, on.left[2]) /\ HasColumn(db, s, b, on.right)
      BY <1>3, <3>3
    <3> HIDE DEF s
    <3>7. \A ref \in {<<a, on.left[2]>>, <<b, on.right>>} : HasColumn(db, s, ref[1], ref[2])
      BY <3>6
    <3> QED BY <3>2, <3>5, <3>7 DEF on
  <2>4. ASSUME req.join.columns # None, NEW i \in DOMAIN req.join.columns
        PROVE  /\ TablePosition(req, req.join.columns[i][1])
               /\ HasColumn(db, s, TableAt(req, req.join.columns[i][1]), req.join.columns[i][2])
    BY <1>3, <2>4 DEF Chosen, ColumnsLocated
  <2> HIDE DEF s
  <2>5. \A i \in DOMAIN TablesOf(req) : Served(db, s, TablesOf(req)[i])
    BY <1>4, <1>5
  <2> QED BY <2>2, <2>3, <2>4, <2>5 DEF BadJoin
<1> QED BY <1>3, <1>4, <1>5, <1>6 DEF BuiltRight, Chosen, AllLocated

-----------------------------------------------------------------------------
(* What the engine itself finds wrong.                                     *)
LEMMA ColumnIs ==
    ASSUME OriginInv, CatalogueInv, NEW d \in seen, NEW s, NEW t, NEW x \in TablesAt(d, s, t)
    PROVE  /\ TablesAt(d, s, t) = {x} /\ Pick(d, s, t) = x
           /\ \A c \in ColumnNames(x) :
                /\ Column(d, s, t, c) = x.columns[CHOOSE i \in DOMAIN x.columns : x.columns[i].name = c]
                /\ Column(d, s, t, c).native \in Natives /\ HasColumn(d, s, t, c)
<1>1. TablesAt(d, s, t) = {x}
  BY DEF CatalogueInv, Catalogued, TablesAt
<1>2. Pick(d, s, t) = x
  BY <1>1 DEF Pick
<1>3. PICK o \in seen : OriginOf(o, seen)
  BY DEF OriginInv
<1>4. PICK y \in TablesAt(o, s, t) : Remains(x, y)
  BY <1>3, OriginHas
<1>5. \A i, j \in DOMAIN y.columns : y.columns[i].name = y.columns[j].name => i = j
  <2>1. Original(o) /\ y \in o.tables
    BY <1>3, <1>4 DEF OriginOf, TablesAt
  <2> QED BY <2>1 DEF Original
<1>6. \A k, l \in ToSet(x.columns) : k.name = l.name => k = l
  <2>1. ToSet(x.columns) \subseteq ToSet(y.columns)
    BY <1>4 DEF Remains
  <2>2. \A k \in ToSet(x.columns) : \E i \in DOMAIN y.columns : y.columns[i] = k
    BY <2>1 DEF ToSet
  <2> QED BY <2>2, <1>5
<1>12. \A k \in ToSet(x.columns) : k.native \in Natives
  BY <1>3, <1>4 DEF OriginOf, Original, Remains, TablesAt
<1>13. x \in Relations(d, s, t)
  BY DEF Relations, Sq!Located, TablesAt
<1> SUFFICES ASSUME NEW c \in ColumnNames(x)
             PROVE  /\ Column(d, s, t, c)
                            = x.columns[CHOOSE i \in DOMAIN x.columns : x.columns[i].name = c]
                    /\ Column(d, s, t, c).native \in Natives /\ HasColumn(d, s, t, c)
  BY <1>1, <1>2
<1> DEFINE i == CHOOSE j \in DOMAIN x.columns : x.columns[j].name = c
           all == UNION {ToSet(z.columns) : z \in TablesAt(d, s, t)}
           k == CHOOSE l \in all : l.name = c
<1>7. i \in DOMAIN x.columns /\ x.columns[i].name = c
  BY DEF ColumnNames
<1>8. all = ToSet(x.columns)
  BY <1>1
<1>9. x.columns[i] \in ToSet(x.columns)
  BY <1>7 DEF ToSet
<1> HIDE DEF i, all
<1>10. k \in ToSet(x.columns) /\ k.name = c
  BY <1>7, <1>8, <1>9
<1> HIDE DEF k
<1>11. k = x.columns[i]
  BY <1>6, <1>7, <1>9, <1>10
<1>14. Column(d, s, t, c) = x.columns[i]
  BY <1>11 DEF Column, k, all
<1> QED BY <1>9, <1>12, <1>13, <1>14 DEF HasColumn, i

(* What two columns are joined by, as the request sees it and as the       *)
(* engine does.                                                            *)
LEMMA EquatesIs ==
    ASSUME NEW d, HasEngine(d), NEW a, NEW b, a.native \in Natives, b.native \in Natives
    PROVE  Equates(d, a, b) <=> ~Uncompared(d, b, a)
<1>1. CASE d.engine = "postgres"
  BY <1>1 DEF Equates, Uncompared, Natives
<1>2. CASE d.engine = "mysql"
  BY <1>2 DEF Equates, Uncompared, Natives
<1>3. CASE d.engine = "sqlite"
  BY <1>3 DEF Equates, Uncompared
<1> QED BY <1>1, <1>2, <1>3 DEF HasEngine

(* A pair of ON whose columns the engine cannot compare.                   *)
LEMMA UnjoinableIs ==
    ASSUME OriginInv, CatalogueInv, db \in seen, HasEngine(db), req \in Requests, Plain(req),
           Asks({"data", "join"}), Asks({"join"}) => req.join # None,
           NEW q, Fits(q, SchemaAsked(req, db)), ~Missing(db, q)
    PROVE  Unjoinable(db, q) <=> Unequated(req, db)
<1> DEFINE s == SchemaAsked(req, db)
<1>1. q.onText = FALSE /\ q.ons = OnPairs(req) /\ q.schema = s
      /\ DOMAIN q.tables = DOMAIN Tables /\ \A p \in DOMAIN Tables : q.tables[p] = Tables[p]
  BY DEF Fits
<1>2. CASE ~IsJoin(req)
  <2>1. q.ons = <<>>
    BY <1>1, <1>2 DEF OnPairs
  <2>2. DOMAIN q.ons = {}
    BY <2>1
  <2>3. ~Unjoinable(db, q)
    BY <2>2 DEF Unjoinable
  <2>4. ~Unequated(req, db)
    BY <1>2 DEF Unequated
  <2> QED BY <2>3, <2>4
<1>3. CASE IsJoin(req)
  <2> DEFINE joins == req.join.joins
  <2>1. JoinParses(req) /\ Asks({"join"}) /\ req.join # None /\ Tables = TablesOf(req)
    BY <1>3, TablesMatch DEF Plain, IsJoin, Asks
  <2>2. DOMAIN q.ons = DOMAIN joins /\ \A i \in DOMAIN joins : q.ons[i] = joins[i].on
    BY <1>1, <1>3 DEF OnPairs
  <2>3. /\ \A i \in DOMAIN joins : i \in Nat /\ i + 1 \in DOMAIN Tables
        /\ \A i \in DOMAIN joins : \A j \in DOMAIN joins[i].on :
            joins[i].on[j].left[1] \in Nat /\ joins[i].on[j].left[1] + 1 \in DOMAIN Tables
    <3>1. req.join \notin {None, Oversize, Malformed}
      BY <2>1 DEF JoinParses, ParseJoin, Err
    <3>2. /\ joins \in Seq(ToSet(joins))
          /\ \A i \in DOMAIN joins : \A j \in DOMAIN joins[i].on : joins[i].on[j].left[1] \in Nat
      BY <2>1, <3>1, RequestsAssumption DEF Asks
    <3> QED BY <2>1, <3>2, JoinShape DEF JoinParses
  <2>4. ASSUME NEW ref \in Qualified(q), ref[1] \in Nat, ref[1] + 1 \in DOMAIN Tables
        PROVE  /\ ColumnOf(db, q, ref) = Column(db, s, TableAt(req, ref[1]), ref[2])
               /\ ColumnOf(db, q, ref).native \in Natives
               /\ HasColumn(db, s, TableAt(req, ref[1]), ref[2])
    <3> DEFINE p == ref[1]
               c == ref[2]
               t == Tables[p + 1]
    <3>1. TableAt(req, p) = t /\ q.tables[p + 1] = t /\ p + 1 \in DOMAIN q.tables
      BY <1>1, <2>1, <2>4, PositionsAssumption DEF TableAt, Position
    <3>2. PICK x : x \in TablesAt(db, s, t)
      BY <1>1, <3>1 DEF Missing
    <3>3. Pick(db, s, t) = x
      BY <3>2, ColumnIs
    <3>4. TableOf(db, q, p) = x
      BY <1>1, <3>1, <3>3 DEF TableOf
    <3>5. c \in ColumnNames(x)
      <4>1. c \in ColumnNames(TableOf(db, q, p))
        BY <2>4 DEF Missing
      <4> QED BY <3>4, <4>1
    <3>6. ColumnOf(db, q, ref) = x.columns[CHOOSE i \in DOMAIN x.columns : x.columns[i].name = c]
      BY <3>4 DEF ColumnOf
    <3> HIDE DEF s, t, p, c
    <3>7. /\ Column(db, s, t, c) = x.columns[CHOOSE i \in DOMAIN x.columns : x.columns[i].name = c]
          /\ Column(db, s, t, c).native \in Natives /\ HasColumn(db, s, t, c)
      BY <3>2, <3>5, ColumnIs
    <3> QED BY <3>1, <3>6, <3>7 DEF p, c
  <2>5. ASSUME NEW i \in DOMAIN joins, NEW j \in DOMAIN joins[i].on
        PROVE  LET on == joins[i].on[j]
                   a == Column(db, s, TableAt(req, on.left[1]), on.left[2])
                   b == Column(db, s, TableAt(req, i), on.right)
               IN /\ HasColumn(db, s, TableAt(req, on.left[1]), on.left[2])
                  /\ HasColumn(db, s, TableAt(req, i), on.right)
                  /\ Equates(db, a, b) <=>
                        ~Uncompared(db, ColumnOf(db, q, <<i, on.right>>), ColumnOf(db, q, on.left))
    <3> DEFINE on == joins[i].on[j]
               l == on.left[1]
    <3>1. q.ons[i][j] = on /\ i \in DOMAIN q.ons /\ j \in DOMAIN q.ons[i]
      BY <2>2
    <3>2. <<i, on.right>> \in Qualified(q) /\ on.left \in Qualified(q)
      <4> DEFINE rights(n) == {<<n, q.ons[n][m].right>> : m \in DOMAIN q.ons[n]}
                 lefts(n) == {q.ons[n][m].left : m \in DOMAIN q.ons[n]}
      <4>1. <<i, on.right>> \in rights(i) /\ on.left \in lefts(i)
        BY <3>1
      <4>2. /\ <<i, on.right>> \in UNION {rights(n) : n \in DOMAIN q.ons}
            /\ on.left \in UNION {lefts(n) : n \in DOMAIN q.ons}
        <5> HIDE DEF rights, lefts, on
        <5> QED BY <3>1, <4>1
      <4> HIDE DEF on
      <4> QED BY <4>2 DEF Qualified
    <3>3. l \in Nat /\ l + 1 \in DOMAIN Tables /\ i \in Nat /\ i + 1 \in DOMAIN Tables
      BY <2>3
    <3> HIDE DEF on, s, joins
    <3>4. /\ ColumnOf(db, q, on.left) = Column(db, s, TableAt(req, l), on.left[2])
          /\ ColumnOf(db, q, on.left).native \in Natives
          /\ HasColumn(db, s, TableAt(req, l), on.left[2])
      BY <2>4, <3>2, <3>3
    <3>5. /\ ColumnOf(db, q, <<i, on.right>>) = Column(db, s, TableAt(req, i), on.right)
          /\ ColumnOf(db, q, <<i, on.right>>).native \in Natives
          /\ HasColumn(db, s, TableAt(req, i), on.right)
      BY <2>4, <3>2, <3>3
    <3> QED BY <3>4, <3>5, EquatesIs DEF on
  <2> HIDE DEF joins
  <2>6. Unequated(req, db) <=>
            \E i \in DOMAIN joins : \E j \in DOMAIN joins[i].on :
                LET on == joins[i].on[j]
                    a == Column(db, s, TableAt(req, on.left[1]), on.left[2])
                    b == Column(db, s, TableAt(req, i), on.right)
                IN /\ HasColumn(db, s, TableAt(req, on.left[1]), on.left[2])
                   /\ HasColumn(db, s, TableAt(req, i), on.right)
                   /\ ~Equates(db, a, b)
    <3> DEFINE has(ref) == HasColumn(db, s, ref[1], ref[2])
    <3>1. req.join.joins = joins
      BY DEF joins
    <3>2. Unequated(req, db) <=>
            \E i \in DOMAIN joins : \E j \in DOMAIN joins[i].on :
                LET on == joins[i].on[j]
                    left == <<TableAt(req, on.left[1]), on.left[2]>>
                    right == <<TableAt(req, i), on.right>>
                IN /\ has(left) /\ has(right)
                   /\ ~Equates(db, Column(db, s, left[1], left[2]), Column(db, s, right[1], right[2]))
      BY <1>3, <2>1, <3>1 DEF Unequated
    <3> QED BY <3>2
  <2> HIDE DEF s
  <2>7. Unjoinable(db, q) <=>
            \E i \in DOMAIN joins : \E j \in DOMAIN joins[i].on :
                LET on == joins[i].on[j]
                IN Uncompared(db, ColumnOf(db, q, <<i, on.right>>), ColumnOf(db, q, on.left))
    BY <1>1, <2>2 DEF Unjoinable
  <2> QED BY <2>5, <2>6, <2>7
<1> QED BY <1>2, <1>3

(* The faults of a SELECT that an engine finds are those of its request.   *)
LEMMA EngineFaults ==
    ASSUME OriginInv, CatalogueInv, db \in seen, req \in Requests, Plain(req),
           Asks({"data", "join"}), Asks({"join"}) => req.join # None, HasEngine(db),
           NEW q, Fits(q, SchemaAsked(req, db)), ~Missing(db, q)
    PROVE  /\ Unjoinable(db, q) <=> Unequated(req, db)
           /\ Faulty(req, db, "unsortable_column") <=>
                \/ Unsortable(db, q)
                \/ db.engine = "postgres" /\ req.sort # None /\ Unjoinable(db, q)
           /\ Dangles(db, q) =>
                db.engine = "postgres" /\ \E i \in DOMAIN Filters(req) :
                    Filters(req)[i].op \in {"LIKE", "ILIKE"} /\ Filters(req)[i].value \in Dangling
           /\ Unencodable(db, q) <=>
                db.engine = "postgres" /\ \E i \in DOMAIN Filters(req) : Filters(req)[i].value \in NulNames
           /\ (\E i \in DOMAIN q.tables : ~Pick(db, q.schema, q.tables[i]).readable) <=>
                \E i \in DOMAIN TablesOf(req) :
                    \E x \in TablesAt(db, SchemaAsked(req, db), TablesOf(req)[i]) : ~x.readable
<1> DEFINE s == SchemaAsked(req, db)
<1>1. /\ q.schema = s /\ Tables = TablesOf(req)
      /\ DOMAIN q.tables = DOMAIN Tables /\ \A p \in DOMAIN Tables : q.tables[p] = Tables[p]
      /\ DOMAIN q.where = DOMAIN Filters(req)
      /\ \A i \in DOMAIN q.where : /\ q.where[i].value = Filters(req)[i].value
                                  /\ q.where[i].keyword = Keyword(Filters(req)[i].op)
  BY TablesMatch DEF Fits
<1>2. ASSUME NEW p \in DOMAIN Tables
      PROVE  \E x : TablesAt(db, s, Tables[p]) = {x} /\ Pick(db, s, Tables[p]) = x
  <2>1. TablesAt(db, s, Tables[p]) # {}
    BY <1>1 DEF Missing
  <2> QED BY <2>1, ColumnIs
<1>3. Unencodable(db, q) <=>
        db.engine = "postgres" /\ \E i \in DOMAIN Filters(req) : Filters(req)[i].value \in NulNames
  BY <1>1 DEF Unencodable
<1>4. (\E i \in DOMAIN q.tables : ~Pick(db, q.schema, q.tables[i]).readable) <=>
        \E i \in DOMAIN TablesOf(req) : \E x \in TablesAt(db, s, TablesOf(req)[i]) : ~x.readable
  BY <1>1, <1>2
<1>6. Unjoinable(db, q) <=> Unequated(req, db)
  BY UnjoinableIs
<1>7. ASSUME Dangles(db, q)
      PROVE  db.engine = "postgres" /\ \E i \in DOMAIN Filters(req) :
                Filters(req)[i].op \in {"LIKE", "ILIKE"} /\ Filters(req)[i].value \in Dangling
  <2>1. db.engine = "postgres" /\ \E i \in DOMAIN q.where :
            q.where[i].keyword \in {"LIKE", "ILIKE"} /\ q.where[i].value \in Dangling
    BY <1>7 DEF Dangles
  <2>2. \A op : Keyword(op) = op
    BY <2>1 DEF Keyword, By, Engine, Pg!Keyword
  <2> QED BY <1>1, <2>1, <2>2
<1>5. Unsortable(db, q) <=> db.engine = "postgres" /\ Disordered(req, db)
  <2>1. Disordered(req, db) <=>
            \E w \in SortsBy(req) :
                HasColumn(db, s, w[1], w[2]) /\ Column(db, s, w[1], w[2]).native = "none"
    BY DEF Disordered
  <2>2. CASE req.sort = None
    <3>1. q.sort = None /\ SortsBy(req) = {}
      BY <2>2 DEF Fits, SortsBy
    <3> QED BY <2>1, <3>1 DEF Unsortable
  <2>3. CASE req.sort # None /\ db.engine = "postgres"
    <3> DEFINE p == Position(req.sortJoin)
               c == req.sort
               t == TableAt(req, req.sortJoin)
    <3>1. PICK desc \in BOOLEAN : q.sort = NativeOrder(<<p, c>>, desc)
      BY <2>3 DEF Fits
    <3>2. q.sort # None
      BY <3>1, PositionsAssumption
    <3>3. q.sort.by = <<p, c>> /\ q.sort.qualified
      BY <3>1 DEF NativeOrder
    <3>4. p + 1 \in DOMAIN Tables /\ TablePosition(req, req.sortJoin)
      BY <2>3 DEF Fits
    <3>5. t = Tables[p + 1] /\ q.tables[p + 1] = t
      BY <1>1, <3>4 DEF TableAt
    <3>6. SortsBy(req) = {<<t, c>>}
      BY <2>3, <3>4 DEF SortsBy
    <3> HIDE DEF p, c, t, s
    <3>7. PICK x : TablesAt(db, s, t) = {x} /\ Pick(db, s, t) = x
      BY <1>2, <3>4, <3>5
    <3>8. TableOf(db, q, p) = x
      BY <1>1, <3>5, <3>7 DEF TableOf
    <3>9. c \in ColumnNames(x)
      <4>1. <<p, c>> \in Qualified(q)
        BY <3>2, <3>3 DEF Qualified
      <4>2. <<p, c>>[2] \in ColumnNames(TableOf(db, q, <<p, c>>[1]))
        BY <4>1 DEF Missing
      <4> QED BY <3>8, <4>2
    <3>10. Column(db, s, t, c) = x.columns[CHOOSE i \in DOMAIN x.columns : x.columns[i].name = c]
      BY <3>7, <3>9, ColumnIs
    <3>11. ColumnOf(db, q, <<p, c>>) = Column(db, s, t, c)
      BY <3>8, <3>10 DEF ColumnOf
    <3>12. HasColumn(db, s, t, c)
      BY <2>3, <3>7, <3>9 DEF HasColumn, Relations
    <3>13. Unsortable(db, q) <=> Column(db, s, t, c).native = "none"
      BY <2>3, <3>2, <3>3, <3>11 DEF Unsortable
    <3> QED BY <2>1, <2>3, <3>6, <3>12, <3>13 DEF s
  <2>4. CASE db.engine # "postgres"
    BY <2>1, <2>4 DEF Unsortable
  <2> QED BY <2>2, <2>3, <2>4
<1>8. Faulty(req, db, "unsortable_column") <=>
        \/ Unsortable(db, q)
        \/ db.engine = "postgres" /\ req.sort # None /\ Unjoinable(db, q)
  BY <1>5, <1>6, FaultyIs
<1> QED BY <1>3, <1>4, <1>6, <1>7, <1>8

(* What was passed when the request came.                                  *)
PassedInv ==
    Runs => /\ EarlyFault(req).ok
            /\ Engine = "sqlite" => req.route # "schemas" /\ Sq!CheckSchema(req.schema).ok
FitsInv == sql # None => Asks({"data", "join"}) /\ Resolved(read) /\ Fits(sql, SchemaOf(read))

(* A SELECT that fails does for a reason.                                  *)
LEMMA DeniedJust ==
    ASSUME IInv, AInv, GroundInv, PassedInv, FitsInv, Statement("select", None), sql # None,
           NEW result \in Outcomes(db, sql), ~result.ok
    PROVE  LET code == SelectError(result.code)
           IN /\ Problem(code).status = 400 => Faulty(req, db, code)
              /\ code = "database_error" => disturbed \/ Unforeseen(req, db)
<1> DEFINE s == SchemaAsked(req, db)
           code == SelectError(result.code)
<1>1. /\ req \in Requests /\ db \in seen /\ HasEngine(db) /\ OriginInv /\ CatalogueInv
      /\ Runs /\ sql # None /\ Asks({"data", "join"}) /\ Plain(req)
      /\ Asks({"join"}) => req.join # None
  <2>1. Runs /\ sql # None /\ Asks({"data", "join"}) /\ (Asks({"join"}) => req.join # None)
    BY DEF Statement, FitsInv, IInv, JoinInv
  <2>2. req \in Requests /\ (Asks({"data"}) => QueryOpts(req).ok) /\ (Asks({"join"}) => JoinRequest(req).ok)
    BY <2>1 DEF AInv, AskedInv
  <2>3. Plain(req)
    <3>1. CASE Asks({"join"})
      BY <2>2, <3>1, JoinReads
    <3>2. CASE Asks({"data"})
      BY <2>2, <3>2, QueryReads
    <3> QED BY <2>1, <3>1, <3>2 DEF Asks
  <2>4. db \in seen /\ HasEngine(db)
    BY <2>1 DEF IInv, SeenInv
  <2> QED BY <2>1, <2>2, <2>3, <2>4 DEF GroundInv, AInv
<1>2. Fits(sql, s)
  <2>1. Ready(read)
    BY <1>1 DEF Ready, Statement, GroundInv, FoundInv, IInv, KnowledgeInv, Vouched,
                AInv, ColumnsInv
  <2> QED BY <1>1, <2>1, SchemaIs DEF FitsInv
<1>3. \/ result.code = "error"
      \/ /\ ~Invalid(db, sql)
         /\ \/ /\ result.code = "undefined"
               /\ Unsortable(db, sql) \/ (db.engine = "postgres" /\ Unjoinable(db, sql))
            \/ result.code = "encoding" /\ Unencodable(db, sql)
            \/ result.code = "denied" /\ Denied(db, sql)
  BY EvaluateIs, OutcomesAre DEF Ok, Err
<1>4. ~Invalid(db, sql) =>
        /\ Unjoinable(db, sql) <=> Unequated(req, db)
        /\ Faulty(req, db, "unsortable_column") <=>
            \/ Unsortable(db, sql)
            \/ db.engine = "postgres" /\ req.sort # None /\ Unjoinable(db, sql)
        /\ Dangles(db, sql) =>
            db.engine = "postgres" /\ \E i \in DOMAIN Filters(req) :
                Filters(req)[i].op \in {"LIKE", "ILIKE"} /\ Filters(req)[i].value \in Dangling
        /\ Unencodable(db, sql) <=>
            db.engine = "postgres" /\ \E i \in DOMAIN Filters(req) : Filters(req)[i].value \in NulNames
        /\ (\E i \in DOMAIN sql.tables : ~Pick(db, sql.schema, sql.tables[i]).readable) <=>
            \E i \in DOMAIN TablesOf(req) : \E x \in TablesAt(db, s, TablesOf(req)[i]) : ~x.readable
  BY <1>1, <1>2, EngineFaults DEF Invalid
<1>11. ASSUME code = "database_error" PROVE disturbed \/ Unforeseen(req, db)
  <2> SUFFICES ASSUME ~disturbed PROVE Unforeseen(req, db)
    OBVIOUS
  <2>1. seen # {} /\ SqlInv /\ CalmInv /\ SeenInv /\ PutInv
    BY <1>1 DEF IInv, AInv
  <2>2. Balks(db, sql, req.sort)
    <3>1. "database_error" \notin Refusals
      BY DEF Refusals
    <3> QED BY <1>1, <1>11, <2>1, <3>1, CalmSelect
  <2>3. ~Missing(db, sql)
    BY <1>1, <2>1, Present
  <2>4. /\ Unjoinable(db, sql) => Unequated(req, db)
        /\ Dangles(db, sql) =>
            db.engine = "postgres" /\ \E i \in DOMAIN Filters(req) :
                Filters(req)[i].op \in {"LIKE", "ILIKE"} /\ Filters(req)[i].value \in Dangling
    BY <1>1, <1>2, <2>3, EngineFaults
  <2>5. req.route \in {"data", "join"} /\ FilterParses(req)
    BY <1>1 DEF Plain
  <2> QED BY <2>2, <2>4, <2>5 DEF Balks, Unforeseen
<1> SUFFICES ASSUME Problem(code).status = 400 PROVE Faulty(req, db, code)
  BY <1>11
<1>5. code # "database_error"
  BY DEF Problem
<1>6. Engine # "sqlite"
  BY <1>5 DEF SelectError, By
<1>7. CASE result.code = "error"
  BY <1>1, <1>5, <1>6, <1>7 DEF SelectError, By, HasEngine, Engine, Pg!MapSelectDenied, My!MapSelectDenied
<1>8. CASE /\ ~Invalid(db, sql) /\ result.code = "undefined"
           /\ Unsortable(db, sql) \/ (db.engine = "postgres" /\ Unjoinable(db, sql))
  <2>1. Engine = "postgres" /\ db.engine = "postgres"
    BY <1>8 DEF Unsortable, Engine
  <2>2. code = "unsortable_column" /\ req.sort # None
    BY <1>5, <1>8, <2>1 DEF SelectError, By, Pg!MapSelectDenied
  <2> QED BY <1>4, <1>8, <2>1, <2>2
<1>9. CASE ~Invalid(db, sql) /\ result.code = "encoding" /\ Unencodable(db, sql)
  <2>1. Engine = "postgres"
    BY <1>9 DEF Unencodable, Engine
  <2>2. code = "invalid_filter"
    BY <1>9, <2>1 DEF SelectError, By, Pg!MapSelectDenied
  <2>3. BadFilter(req, db)
    BY <1>1, <1>4, <1>9 DEF BadFilter, Asks
  <2> QED BY <2>2, <2>3, FaultyIs
<1>10. CASE ~Invalid(db, sql) /\ result.code = "denied" /\ Denied(db, sql)
  <2>1. code = "not_readable"
    BY <1>1, <1>6, <1>10 DEF SelectError, By, HasEngine, Engine, Pg!MapSelectDenied, My!MapSelectDenied
  <2>2. db.schemas[sql.schema].usage
    <3>1. SchemaSeen(sql.schema)
      BY <1>1, <1>6 DEF IInv, SqlInv, NamesSeen
    <3>2. PICK d \in seen : SchemaListed(d, sql.schema)
      BY <3>1 DEF SchemaSeen
    <3>3. PICK o \in seen : OriginOf(o, seen)
      BY <1>1 DEF OriginInv
    <3>4. SchemaListed(db, sql.schema)
      BY <1>1, <3>2, <3>3, OriginHas
    <3> QED BY <3>4 DEF SchemaListed
  <2>3. \E i \in DOMAIN TablesOf(req) : \E x \in TablesAt(db, s, TablesOf(req)[i]) : ~x.readable
    BY <1>4, <1>10, <2>2 DEF Denied
  <2> QED BY <1>1, <1>6, <2>1, <2>3, FaultyIs DEF Engine
<1> QED BY <1>3, <1>7, <1>8, <1>9, <1>10

-----------------------------------------------------------------------------
(* What is refused before any statement runs.                              *)
LEMMA SaturatingIs == \A raw : Saturating(raw).ok <=> raw \notin {Malformed, Huge}
<1> SUFFICES ASSUME NEW raw PROVE Saturating(raw).ok <=> raw \notin {Malformed, Huge}
  OBVIOUS
<1>1. CASE raw = None
  BY <1>1, PositionsAssumption DEF Saturating, Ok
<1>2. CASE raw # None /\ raw \in {Malformed, Huge}
  BY <1>2 DEF Saturating, Err
<1>3. CASE raw # None /\ raw \notin {Malformed, Huge}
  BY <1>3 DEF Saturating, Ok
<1> QED BY <1>1, <1>2, <1>3

LEMMA ExtractIs ==
    ASSUME NEW r
    PROVE  /\ Extract(r).ok <=>
                /\ \A field \in Required(r.route) : r[field] # None
                /\ r.route \in {"data", "join"} => {r.limit, r.offset} \cap {Malformed, Huge} = {}
           /\ ~Extract(r).ok => Extract(r).code = "invalid_parameter" /\ BadParameter(r)
<1> DEFINE bad == \/ \E field \in Required(r.route) : r[field] = None
                  \/ /\ r.route \in {"data", "join"}
                     /\ ~Saturating(r.limit).ok \/ ~Saturating(r.offset).ok
<1>1. Extract(r) = IF bad THEN Err("invalid_parameter") ELSE Ok(None)
  BY DEF Extract
<1>2. bad <=> \/ \E field \in Required(r.route) : r[field] = None
              \/ /\ r.route \in {"data", "join"}
                 /\ {r.limit, r.offset} \cap {Malformed, Huge} # {}
  BY SaturatingIs
<1> HIDE DEF bad
<1> QED BY <1>1, <1>2 DEF BadParameter, Ok, Err

EarlyReason(r, code) ==
    \/ code = "invalid_parameter" /\ BadParameter(r)
    \/ code = "unknown_source" /\ r.source \notin ToSet(Sources) \cup {None}
    \/ LET source == ResolveSource(Sources, r.source)
       IN source.ok /\ Faulty(r, Databases[source.val], code)
EarlyJust(r, result) == ~result.ok => EarlyReason(r, result.code)

LEMMA EarlyThen ==
    ASSUME NEW r, NEW a, NEW b, EarlyJust(r, a), a.ok => EarlyJust(r, b)
    PROVE  EarlyJust(r, AndThen(a, b))
BY DEF AndThen, EarlyJust
LEMMA EarlyOk == \A r, v : EarlyJust(r, Ok(v))
BY DEF EarlyJust, Ok

LEMMA EarlyParts ==
    ASSUME NEW r, ResolveSource(Sources, r.source).ok, r.route \in {"data", "join"}
    PROVE  /\ EarlyJust(r, FilterOf(r.filter, IsJoin(r)))
           /\ EarlyJust(r, IsDescending(r.order))
           /\ IsJoin(r) => EarlyJust(r, ParseJoin(r.join))
<1> DEFINE d == Databases[ResolveSource(Sources, r.source).val]
           filter == FilterOf(r.filter, IsJoin(r))
           parsed == ParseFilter(r.filter, IsJoin(r))
<1>1. EarlyJust(r, filter)
  <2> SUFFICES ASSUME ~filter.ok PROVE EarlyReason(r, filter.code)
    BY DEF EarlyJust
  <2>1. r.filter \notin {None, Blank}
    BY DEF FilterOf, Ok
  <2>2. filter = IF parsed.ok /\ parsed.val = <<>> THEN Ok(None) ELSE parsed
    BY <2>1 DEF FilterOf
  <2>3. filter = parsed
    BY <2>2 DEF Ok
  <2>4. filter.code = "invalid_filter"
    BY <2>3 DEF ParseFilter, Err, Ok
  <2>5. ~FilterParses(r)
    BY <2>1, <2>3 DEF FilterParses
  <2>6. BadFilter(r, d)
    BY <2>5 DEF BadFilter
  <2> QED BY <2>4, <2>6, FaultyIs DEF EarlyReason
<1>2. EarlyJust(r, IsDescending(r.order))
  <2> SUFFICES ASSUME ~IsDescending(r.order).ok PROVE EarlyReason(r, IsDescending(r.order).code)
    BY DEF EarlyJust
  <2>1. r.order \notin {None, "asc", "desc"} /\ IsDescending(r.order).code = "invalid_parameter"
    BY DEF IsDescending, Ok, Err
  <2> QED BY <2>1 DEF EarlyReason, BadParameter
<1>3. ASSUME IsJoin(r) PROVE EarlyJust(r, ParseJoin(r.join))
  <2> SUFFICES ASSUME ~ParseJoin(r.join).ok PROVE EarlyReason(r, ParseJoin(r.join).code)
    BY DEF EarlyJust
  <2>1. ParseJoin(r.join).code = "invalid_join"
    BY DEF ParseJoin, Ok, Err
  <2>2. BadJoin(r, d, SchemaAsked(r, d))
    BY <1>3 DEF BadJoin, JoinParses
  <2> QED BY <2>1, <2>2, FaultyIs DEF EarlyReason
<1> QED BY <1>1, <1>2, <1>3

LEMMA EarlyIsJust == ASSUME NEW r PROVE EarlyJust(r, EarlyFault(r))
<1> DEFINE source == ResolveSource(Sources, r.source)
           opts == CASE r.route = "data" -> QueryOpts(r)
                     [] r.route = "join" -> JoinRequest(r)
                     [] OTHER -> Ok(None)
           last == IF r.route # "schemas" /\ IsSqlite(r) THEN Sq!CheckSchema(r.schema) ELSE Ok(None)
<1>1. CASE r.route \in Standalone
  BY <1>1, EarlyOk DEF EarlyFault
<1>2. CASE r.route \notin Standalone
  <2>1. EarlyFault(r) = AndThen(Extract(r), AndThen(source, AndThen(opts, last)))
    BY <1>2 DEF EarlyFault
  <2>2. EarlyJust(r, Extract(r))
    BY ExtractIs DEF EarlyJust, EarlyReason
  <2>3. EarlyJust(r, source)
    <3>1. \/ r.source \in ToSet(Sources) \cup {None} /\ source.ok
          \/ r.source \notin ToSet(Sources) \cup {None} /\ source = Err("unknown_source")
      BY DEF ResolveSource, Ok
    <3> QED BY <3>1 DEF EarlyJust, EarlyReason, Err
  <2>4. ASSUME source.ok PROVE EarlyJust(r, opts)
    <3>1. CASE r.route = "data"
      <4> DEFINE filter == FilterOf(r.filter, FALSE)
                 descending == IsDescending(r.order)
                 all == [page |-> Paging(r), sort |-> r.sort, descending |-> descending.val,
                         timeout |-> QueryTimeoutSecs, filter |-> filter.val]
      <4>1. opts = AndThen(filter, AndThen(descending, Ok(all)))
        BY <3>1 DEF QueryOpts
      <4>2. EarlyJust(r, filter) /\ EarlyJust(r, descending)
        <5>1. IsJoin(r) = FALSE
          BY <3>1 DEF IsJoin
        <5> QED BY <2>4, <3>1, <5>1, EarlyParts
      <4> HIDE DEF filter, descending, all, opts
      <4> QED BY <4>1, <4>2, EarlyThen, EarlyOk
    <3>2. CASE r.route = "join"
      <4> DEFINE spec == ParseJoin(r.join)
                 filter == FilterOf(r.filter, TRUE)
                 descending == IsDescending(r.order)
                 all == [spec |-> spec.val, page |-> Paging(r), sort |-> r.sort,
                         sortJoin |-> r.sortJoin, descending |-> descending.val,
                         timeout |-> QueryTimeoutSecs, filter |-> filter.val]
                 end == IF r.sortJoin = Malformed THEN Err("invalid_parameter") ELSE Ok(all)
      <4>1. opts = AndThen(spec, AndThen(filter, AndThen(descending, end)))
        BY <3>2 DEF JoinRequest
      <4>2. EarlyJust(r, filter) /\ EarlyJust(r, descending) /\ EarlyJust(r, spec)
        <5>1. IsJoin(r) = TRUE
          BY <3>2 DEF IsJoin
        <5> QED BY <2>4, <3>2, <5>1, EarlyParts
      <4>3. spec.ok => EarlyJust(r, end)
        <5> SUFFICES ASSUME spec.ok PROVE EarlyJust(r, end)
          OBVIOUS
        <5>1. r.sortJoin = Malformed => BadParameter(r)
          BY <3>2 DEF BadParameter, IsJoin, JoinParses
        <5> HIDE DEF all
        <5>2. CASE r.sortJoin = Malformed
          BY <5>1, <5>2 DEF EarlyJust, EarlyReason, Err
        <5>3. CASE r.sortJoin # Malformed
          BY <5>3, EarlyOk
        <5> QED BY <5>2, <5>3
      <4> HIDE DEF spec, filter, descending, end, opts
      <4> QED BY <4>1, <4>2, <4>3, EarlyThen
    <3>3. CASE r.route \notin {"data", "join"}
      BY <3>3, EarlyOk
    <3> QED BY <3>1, <3>2, <3>3
  <2>5. ASSUME source.ok PROVE EarlyJust(r, last)
    <3>1. CASE r.route # "schemas" /\ IsSqlite(r)
      <4>1. last = IF r.schema \in {None, Sq!OnlySchema} THEN Ok(Sq!OnlySchema)
                   ELSE Err("unknown_schema")
        BY <3>1 DEF Sq!CheckSchema, Sq!Ok, Sq!Err, Ok, Err
      <4>2. ~last.ok => last.code = "unknown_schema" /\ r.schema \notin {None, Sq!OnlySchema}
        BY <4>1 DEF Ok, Err
      <4>3. r.schema \notin {None, Sq!OnlySchema} =>
                Faulty(r, Databases[source.val], "unknown_schema")
        BY <3>1, FaultyIs DEF IsSqlite
      <4> HIDE DEF last
      <4> QED BY <2>5, <4>2, <4>3 DEF EarlyJust, EarlyReason
    <3>2. CASE ~(r.route # "schemas" /\ IsSqlite(r))
      BY <3>2, EarlyOk
    <3> QED BY <3>1, <3>2
  <2> HIDE DEF source, opts, last
  <2> QED BY <2>1, <2>2, <2>3, <2>4, <2>5, EarlyThen
<1> QED BY <1>1, <1>2

LEMMA EarlyPasses ==
    ASSUME NEW r, EarlyFault(r).ok, r.route \notin Standalone
    PROVE  /\ Extract(r).ok /\ ResolveSource(Sources, r.source).ok
           /\ r.route # "schemas" /\ IsSqlite(r) => Sq!CheckSchema(r.schema).ok
<1> DEFINE source == ResolveSource(Sources, r.source)
           opts == CASE r.route = "data" -> QueryOpts(r)
                     [] r.route = "join" -> JoinRequest(r)
                     [] OTHER -> Ok(None)
           last == IF r.route # "schemas" /\ IsSqlite(r) THEN Sq!CheckSchema(r.schema) ELSE Ok(None)
<1>1. EarlyFault(r) = AndThen(Extract(r), AndThen(source, AndThen(opts, last)))
  BY DEF EarlyFault
<1> HIDE DEF source, opts
<1>2. Extract(r).ok /\ AndThen(source, AndThen(opts, last)).ok
  BY <1>1, AndThenOk
<1>3. source.ok /\ AndThen(opts, last).ok
  BY <1>2, AndThenOk
<1>4. last.ok
  BY <1>3, AndThenOk
<1> QED BY <1>2, <1>3, <1>4 DEF source

AnsweredRoutes == {"schemas", "tables", "counts", "data", "join", "values", "referrers", "structure"}

(* What is known when the last statement of a route is done.               *)
LEMMA CompleteIs ==
    ASSUME NEW known, Ready(known), Complete(known), Asks(AnsweredRoutes)
    PROVE  /\ ~Asks({"schemas"}) => Resolved(known)
           /\ Asks({"data", "join"}) => Has(known, "select", None)
           /\ Asks({"values", "referrers", "structure"}) => TableSeen(SchemaOf(known), req.table)
           /\ Asks({"values"}) => Has(known, "names", req.table)
<1> DEFINE t == req.table
<1>1. \A kind, u : Has(known, kind, u) => Rooted(known, kind, u)
  BY DEF Ready, Founded, Sound, Has
<1>2. CASE Asks({"schemas"})
  BY <1>2 DEF Asks
<1>3. CASE Asks({"tables", "counts"})
  <2>1. Has(known, "list", None)
    BY <1>3 DEF Complete, Asks
  <2> QED BY <1>1, <1>3, <2>1 DEF Rooted, Asks
<1>4. CASE Asks({"data"})
  <2>1. Has(known, "select", None) \/ Has(known, "estimate", None)
    BY <1>4 DEF Complete, Asks
  <2>2. Has(known, "select", None)
    BY <1>1, <2>1 DEF Rooted
  <2> QED BY <1>1, <1>4, <2>2 DEF Rooted, Asks
<1>5. CASE Asks({"join"})
  <2>1. Has(known, "select", None)
    BY <1>5 DEF Complete, Asks
  <2> QED BY <1>1, <1>5, <2>1 DEF Rooted, Asks
<1>6. CASE Asks({"values"})
  <2>1. Has(known, "type", t) \/ Has(known, "names", t)
    BY <1>6 DEF Complete, Asks
  <2>2. Has(known, "names", t)
    BY <1>1, <2>1 DEF Rooted
  <2> QED BY <1>1, <1>6, <2>2 DEF Rooted, TableKinds, Asks
<1>7. CASE Asks({"referrers"})
  <2>1. Has(known, "referrers", t)
    BY <1>7 DEF Complete, Asks
  <2> QED BY <1>1, <1>7, <2>1 DEF Rooted, TableKinds, Asks
<1>8. CASE Asks({"structure"})
  <2>1. Has(known, "foreign", t)
    BY <1>8 DEF Complete, Asks
  <2> QED BY <1>1, <1>8, <2>1 DEF Rooted, TableKinds, Asks
<1> QED BY <1>2, <1>3, <1>4, <1>5, <1>6, <1>7, <1>8 DEF Asks, AnsweredRoutes

LEMMA ReadsPlain ==
    ASSUME AskedInv, Runs, Asks({"data", "join"})
    PROVE  /\ Plain(req) /\ req.order \in {None, "asc", "desc"} /\ req \in Requests
           /\ ~IsJoin(req) => req.sortJoin = None
<1>1. req \in Requests /\ (Asks({"data"}) => QueryOpts(req).ok) /\ (Asks({"join"}) => JoinRequest(req).ok)
  BY DEF AskedInv
<1>2. CASE Asks({"join"})
  <2>1. IsJoin(req)
    BY <1>2 DEF Asks, IsJoin
  <2> QED BY <1>1, <1>2, <2>1, JoinReads
<1>3. CASE Asks({"data"})
  BY <1>1, <1>3, QueryReads
<1> QED BY <1>2, <1>3 DEF Asks

(* An answer to a request that nothing met: there was no fault.            *)
LEMMA CompleteFaultless ==
    ASSUME NEW known, Ready(known), Verdict(known).ok, Complete(known), ~disturbed, PassedInv,
           Asks(AnsweredRoutes), NEW q,
           (Asks({"data", "join"}) /\ Has(known, "select", None)) =>
                Fits(q, SchemaOf(known)) /\ BuiltRight(req, db) /\ Evaluate(db, q).ok
    PROVE  ~BadParameter(req) /\ \A code \in Refusals : ~Faulty(req, db, code)
<1> DEFINE s == SchemaAsked(req, db)
<1>1. /\ seen = {db} /\ OriginInv /\ CatalogueInv /\ AskedInv /\ HasEngine(db) /\ req \in Requests
      /\ Runs /\ db \in seen /\ req.route \notin Standalone
      /\ Asks({"join"}) => req.join # None
  <2>1. seen = {db}
    BY ReadyIs, CalmIs DEF Ready, AInv
  <2> QED BY <2>1, ReadyIs DEF Ready, AInv
<1>2. /\ SchemaFault(known).ok /\ NamesFault(known).ok
  BY VerdictJust
<1>3. /\ Resolved(known) => SchemaOf(known) = s
      /\ ~Asks({"schemas"}) => Resolved(known)
      /\ Asks({"data", "join"}) => Has(known, "select", None)
      /\ Asks({"values", "referrers", "structure"}) => TableSeen(SchemaOf(known), req.table)
      /\ Asks({"values"}) => Has(known, "names", req.table)
  BY <1>1, CompleteIs, SchemaIs
<1>4. /\ EarlyFault(req).ok /\ Extract(req).ok
      /\ Engine = "sqlite" => Sq!CheckSchema(req.schema).ok
  BY <1>1, EarlyPasses DEF PassedInv
<1>5. ASSUME Asks({"data", "join"})
      PROVE  /\ Fits(q, s) /\ BuiltRight(req, db) /\ Plain(req)
             /\ req.order \in {None, "asc", "desc"}
             /\ ~Invalid(db, q) /\ ~Unsortable(db, q) /\ ~Unencodable(db, q) /\ ~Denied(db, q)
             /\ ~Unjoinable(db, q)
             /\ ~IsJoin(req) => req.sortJoin = None
  <2>1. Fits(q, SchemaOf(known)) /\ BuiltRight(req, db) /\ Evaluate(db, q).ok
    BY <1>3, <1>5
  <2>2. SchemaOf(known) = s
    BY <1>3, <1>5 DEF Asks
  <2>3. /\ ~Invalid(db, q) /\ ~Unsortable(db, q) /\ ~Unencodable(db, q) /\ ~Denied(db, q)
        /\ ~Unjoinable(db, q)
    BY <2>1, EvaluateIs DEF Err
  <2>4. /\ Plain(req) /\ req.order \in {None, "asc", "desc"}
        /\ ~IsJoin(req) => req.sortJoin = None
    BY <1>1, <1>5, ReadsPlain
  <2> HIDE DEF s
  <2> QED BY <2>1, <2>2, <2>3, <2>4
<1>6. Asks({"data", "join"}) =>
        /\ ~Faulty(req, db, "unsortable_column")
        /\ ~(db.engine = "postgres" /\ \E i \in DOMAIN Filters(req) : Filters(req)[i].value \in NulNames)
        /\ ~\E i \in DOMAIN TablesOf(req) : \E x \in TablesAt(db, s, TablesOf(req)[i]) : ~x.readable
  BY <1>1, <1>5, EngineFaults DEF Invalid, Denied
<1>7. ~BadParameter(req)
  <2>1. /\ \A field \in Required(req.route) : req[field] # None
        /\ req.route \in {"data", "join"} => {req.limit, req.offset} \cap {Malformed, Huge} = {}
    BY <1>4, ExtractIs
  <2>2. req.route \in {"data", "join"} => req.order \in {None, "asc", "desc"}
    BY <1>5 DEF Asks
  <2>3. IsJoin(req) => /\ req.sortJoin # Malformed
                       /\ req.sort # None => TablePosition(req, req.sortJoin)
                       /\ req.sort = None => req.sortJoin = None
    BY <1>5 DEF Asks, IsJoin, Plain, BuiltRight
  <2> QED BY <2>1, <2>2, <2>3 DEF BadParameter
<1>8. ~Faulty(req, db, "unknown_schema")
  <2> SUFFICES ASSUME req.route # "schemas",
                      IF db.engine = "sqlite" THEN req.schema \notin {None, Sq!OnlySchema}
                      ELSE ~SchemaListed(db, s)
               PROVE  FALSE
    BY FaultyIs
  <2>1. Resolved(known) /\ SchemaOf(known) = s
    BY <1>3 DEF Asks
  <2>2. CASE db.engine = "sqlite"
    BY <1>4, <2>2 DEF Engine, Sq!CheckSchema, Sq!Ok, Sq!Err
  <2>3. CASE db.engine # "sqlite"
    <3>1. SchemaFault(known) = ResolveSchema(known[<<"schemas", None>>], SchemaOf(known))
      BY <2>1, <2>3 DEF SchemaFault, Engine, Asks
    <3>2. s \in known[<<"schemas", None>>]
      BY <1>2, <2>1, <3>1 DEF ResolveSchema, Err
    <3>3. Has(known, "schemas", None)
      BY <2>1, <2>3 DEF Resolved, Engine
    <3>4. Finds(known, db, "schemas", None, known[<<"schemas", None>>])
      BY <1>1, <3>3 DEF Ready, Founded, Sound, Has
    <3>5. SchemaListed(db, s)
      BY <3>2, <3>4 DEF Finds
    <3> QED BY <2>3, <3>5
  <2> QED BY <2>2, <2>3
<1>9. ~Faulty(req, db, "unknown_table")
  <2> SUFFICES ASSUME req.route \in {"data", "values", "referrers", "structure"}, ~Served(db, s, req.table)
               PROVE  FALSE
    BY FaultyIs
  <2>1. CASE req.route = "data"
    <3>1. TablesOf(req) = <<req.table>> /\ BuiltRight(req, db)
      BY <1>5, <2>1 DEF TablesOf, IsJoin, Asks
    <3>2. 1 \in DOMAIN TablesOf(req) /\ TablesOf(req)[1] = req.table
      BY <3>1
    <3> QED BY <3>1, <3>2 DEF BuiltRight
  <2>2. CASE req.route # "data"
    <3>1. TableSeen(s, req.table)
      BY <1>3, <2>2 DEF Asks
    <3> QED BY <1>1, <3>1 DEF TableSeen
  <2> QED BY <2>1, <2>2
<1>10. ~Faulty(req, db, "unknown_column")
  <2>1. CASE req.route = "values"
    <3>1. Has(known, "names", req.table) /\ SchemaOf(known) = s
      BY <1>3, <2>1 DEF Asks
    <3>2. req.column \in ToSet(known[<<"names", req.table>>])
      BY <1>2, <2>1, <3>1 DEF NamesFault, Asks, Err
    <3>3. Finds(known, db, "names", req.table, known[<<"names", req.table>>])
      BY <1>1, <3>1 DEF Ready, Founded, Sound, Has
    <3>4. HasColumn(db, s, req.table, req.column)
      BY <3>1, <3>2, <3>3 DEF Finds
    <3>5. ~Plain(req)
      BY <2>1 DEF Plain
    <3> QED BY <3>4, <3>5, FaultyIs
  <2>2. CASE req.route # "values"
    <3>1. Plain(req) => BuiltRight(req, db)
      BY <1>5 DEF Plain, Asks
    <3> QED BY <2>2, <3>1, FaultyIs DEF BuiltRight
  <2> QED BY <2>1, <2>2
<1>11. ~Faulty(req, db, "invalid_join")
  <2>1. IsJoin(req) => ~BadJoin(req, db, s)
    BY <1>5 DEF IsJoin, Asks, BuiltRight
  <2>2. ~IsJoin(req) => ~BadJoin(req, db, s)
    BY DEF BadJoin
  <2> QED BY <2>1, <2>2, FaultyIs
<1>12. ~Faulty(req, db, "invalid_filter")
  <2> SUFFICES ASSUME req.route \in {"data", "join"}, BadFilter(req, db) PROVE FALSE
    BY FaultyIs DEF BadFilter
  <2>1. Asks({"data", "join"})
    BY DEF Asks
  <2>2. /\ FilterParses(req)
        /\ IsJoin(req) => \A i \in DOMAIN Filters(req) : TablePosition(req, Filters(req)[i].join)
    BY <1>5, <2>1 DEF Plain, BuiltRight
  <2> QED BY <1>6, <2>1, <2>2 DEF BadFilter
<1>13. ~Faulty(req, db, "not_readable")
  <2>1. Plain(req) => Asks({"data", "join"})
    BY DEF Plain, Asks
  <2> QED BY <1>6, <2>1, FaultyIs
<1>14. ~Faulty(req, db, "unsortable_column")
  <2>1. Plain(req) => Asks({"data", "join"})
    BY DEF Plain, Asks
  <2> QED BY <1>6, <2>1, FaultyIs
<1> QED BY <1>7, <1>8, <1>9, <1>10, <1>11, <1>12, <1>13, <1>14, FaultyIs DEF Refusals

-----------------------------------------------------------------------------
(* The invariant.                                                          *)
BuiltInv == (~disturbed /\ sql # None) => BuiltRight(req, db)
SelectedInv ==
    (~disturbed /\ Has(read, "select", None)) => sql # None /\ Evaluate(db, sql).ok
WInv ==
    /\ GroundInv /\ PassedInv /\ FitsInv /\ BuiltInv /\ SelectedInv
    /\ VerdictsAreRight /\ NoAccidental500

(* What a handler knows after a statement.                                 *)
LEMMA FindingReady ==
    ASSUME IInv, AInv, IInv', AInv', GroundInv, NEW kind, NEW t, NEW value, Finding(kind, t, value)
    PROVE  \E known :
                /\ Extends(known, kind, t, value) /\ Proceed(known, Verdict(known))
                /\ Runs /\ Knows /\ ~Has(read, kind, t) /\ Ready(known)
<1>1. PICK known : /\ Extends(known, kind, t, value) /\ Proceed(known, Verdict(known))
                   /\ Runs /\ Knows /\ ~Has(read, kind, t)
  <2>1. PICK known : known = [k \in DOMAIN read \cup {<<kind, t>>} |->
                                IF k = <<kind, t>> THEN value ELSE read[k]]
    OBVIOUS
  <2>2. Statement(kind, t) /\ Proceed(known, Verdict(known))
    BY <2>1 DEF Finding, Learn
  <2>3. <<kind, t>> \notin DOMAIN read
    BY <2>2 DEF Statement, Has
  <2> QED BY <2>1, <2>2, <2>3 DEF Extends, Statement
<1>2. read' = known /\ UNCHANGED <<db, variant, req, seen, disturbed>> /\ Engine' = Engine
  BY <1>1 DEF Proceed, Engine
<1>3. \A k \in DOMAIN known : Told(known, k)'
  BY <1>2 DEF IInv, KnowledgeInv
<1>4. Vouched(known)
  BY <1>2, <1>3, ToldBefore DEF Vouched
<1>5. ColumnsInOrder(known)
  BY <1>2 DEF AInv, ColumnsInv, ColumnsInOrder, InOrder
<1>6. Founded(known)
  <2>1. kind \in TableKinds \cup {"gate", "tables"} => Resolved(read)
    BY DEF Finding, Rooted, TableKinds
  <2>2. db \in seen
    BY <1>1 DEF IInv, SeenInv
  <2> QED BY <1>1, <2>1, <2>2, SoundExtends DEF GroundInv, Finding
<1>7. Ready(known)
  BY <1>1, <1>4, <1>5, <1>6 DEF Ready, GroundInv
<1> QED BY <1>1, <1>7

(* A statement's result.                                                   *)
LEMMA FindingVerdicts ==
    ASSUME IInv, AInv, IInv', AInv', WInv, NEW kind, NEW t, NEW value, Finding(kind, t, value)
    PROVE  WInv'
<1>1. PICK known : /\ Extends(known, kind, t, value) /\ Proceed(known, Verdict(known))
                   /\ Runs /\ Knows /\ ~Has(read, kind, t) /\ Ready(known)
  BY FindingReady DEF WInv
<1> DEFINE verdict == Verdict(known)
<1>2. /\ read' = known /\ UNCHANGED <<db, variant, req, seen, disturbed>> /\ Engine' = Engine
      /\ sql' = IF verdict.ok /\ Selects(known) THEN verdict.val ELSE sql
      /\ answer' = CASE ~verdict.ok -> Problem(verdict.code)
                     [] verdict.ok /\ Complete(known) -> Success(Body(known))
                     [] OTHER -> Pending
  BY <1>1 DEF Proceed, Engine
<1>3. Ready(known)
  BY <1>1
<1>4. /\ Just(verdict)
      /\ verdict.ok /\ Selects(known) => Fits(verdict.val, SchemaOf(known)) /\ Chosen(known)
  BY <1>3, VerdictJust
<1>5. Resolved(read) => Resolved(known) /\ SchemaOf(known) = SchemaOf(read)
  BY <1>1 DEF Resolved, SchemaOf, Has, Extends
<1>6. GroundInv'
  <2>1. OriginInv'
    BY <1>2 DEF WInv, GroundInv, OriginInv
  <2>2. FoundInv'
    <3>1. \A k \in DOMAIN known : Sound(known, k)'
      BY <1>2, <1>3, SoundStable DEF Ready, Founded
    <3> QED BY <1>2, <3>1 DEF FoundInv, Founded
  <2>3. sql' # None => Resolved(known)
    <3>1. sql # None => Resolved(read)
      BY DEF WInv, GroundInv
    <3>2. Selects(known) => Resolved(known)
      BY DEF Selects
    <3> QED BY <1>2, <1>5, <3>1, <3>2
  <2>4. Resolved(known) => Resolved(read)'
    BY <1>2 DEF Resolved, Has
  <2> QED BY <2>1, <2>2, <2>3, <2>4 DEF GroundInv
<1>7. sql' # None => Asks({"data", "join"}) /\ Resolved(known) /\ Fits(sql', SchemaOf(known))
  <2>1. CASE verdict.ok /\ Selects(known)
    BY <1>2, <1>4, <2>1 DEF Selects
  <2>2. CASE ~(verdict.ok /\ Selects(known))
    BY <1>2, <1>5, <2>2 DEF WInv, FitsInv
  <2> QED BY <2>1, <2>2
<1>8. FitsInv'
  <2>1. PICK q : q = sql'
    OBVIOUS
  <2>2. SchemaOf(read)' = SchemaOf(known) /\ (Resolved(known) => Resolved(read)')
    BY <1>2 DEF SchemaOf, Resolved, Has
  <2>3. ASSUME NEW s, Fits(q, s) PROVE Fits(q, s)'
    BY <1>2, <2>3 DEF Fits, Tables, Asks, Keyword, By
  <2>4. Asks({"data", "join"}) => Asks({"data", "join"})'
    BY <1>2 DEF Asks
  <2> QED BY <1>7, <2>1, <2>2, <2>3, <2>4 DEF FitsInv
<1>9. ~disturbed /\ sql' # None => BuiltRight(req, db)
  <2>1. CASE verdict.ok /\ Selects(known)
    BY <1>3, <1>4, <2>1, ChosenIsRight
  <2>2. CASE ~(verdict.ok /\ Selects(known))
    BY <1>2, <2>2 DEF WInv, BuiltInv
  <2> QED BY <2>1, <2>2
<1>10. BuiltInv'
  BY <1>2, <1>9 DEF BuiltInv
<1>11. ~disturbed /\ Has(known, "select", None) => sql' # None /\ Evaluate(db, sql').ok
  <2> SUFFICES ASSUME ~disturbed, Has(known, "select", None)
               PROVE  sql' # None /\ Evaluate(db, sql').ok
    OBVIOUS
  <2>1. sql' = sql
    BY <1>2 DEF Selects
  <2>2. kind = "select" \/ Has(read, "select", None)
    BY <1>1 DEF Extends, Has
  <2> QED BY <2>1, <2>2 DEF Finding, WInv, SelectedInv
<1>12. SelectedInv'
  <2>1. Has(read, "select", None)' => Has(known, "select", None)
    BY <1>2 DEF Has
  <2> QED BY <1>2, <1>11, <2>1 DEF SelectedInv
<1>13. PassedInv'
  BY <1>1, <1>2 DEF WInv, PassedInv, Runs, Asks
<1>14. RefusedForAReason'
  <2> SUFFICES ASSUME answer'.status = 400, answer' # Pending
               PROVE  \/ answer'.code = "invalid_parameter" /\ BadParameter(req)
                      \/ \E d \in seen : Faulty(req, d, answer'.code)
    BY <1>2 DEF RefusedForAReason
  <2>1. ~verdict.ok /\ answer' = Problem(verdict.code)
    BY <1>2 DEF Success, Pending
  <2>2. Reasoned(verdict.code)
    BY <1>4, <2>1 DEF Just
  <2> QED BY <2>1, <2>2 DEF Problem, Reasoned
<1>15. AnsweredFaultless'
  <2> SUFFICES ASSUME Answered(AnsweredRoutes)'
               PROVE  ~BadParameter(req) /\ \A code \in Refusals : ~Faulty(req, db, code)
    BY <1>2 DEF AnsweredFaultless, AnsweredRoutes
  <2>1. answer'.status = 200 /\ answer' # Pending /\ ~disturbed /\ Asks(AnsweredRoutes)
    BY <1>2 DEF Answered, Asks
  <2>2. verdict.ok /\ Complete(known)
    <3>1. CASE ~verdict.ok
      <4>1. answer' = Problem(verdict.code)
        BY <1>2, <3>1
      <4>2. answer'.status # 200
        BY <4>1 DEF Problem
      <4> QED BY <2>1, <4>2
    <3>2. CASE verdict.ok
      BY <1>2, <2>1, <3>2
    <3> QED BY <3>1, <3>2
  <2>3. PassedInv
    BY DEF WInv
  <2> HIDE DEF verdict
  <2>4. (Asks({"data", "join"}) /\ Has(known, "select", None)) =>
            Fits(sql', SchemaOf(known)) /\ BuiltRight(req, db) /\ Evaluate(db, sql').ok
    BY <1>7, <1>9, <1>11, <2>1
  <2> QED BY <1>3, <2>1, <2>2, <2>3, <2>4, CompleteFaultless DEF verdict
<1>16. NoAccidental500'
  <2> SUFFICES ASSUME answer'.status = 500, answer'.code = "database_error", answer' # Pending
               PROVE  FALSE
    BY DEF NoAccidental500
  <2>1. ~verdict.ok /\ verdict.code = "database_error"
    BY <1>2 DEF Success, Problem
  <2>2. Reasoned("database_error")
    BY <1>4, <2>1 DEF Just
  <2> QED BY <2>2, FaultyIs DEF Reasoned
<1> QED BY <1>6, <1>8, <1>10, <1>12, <1>13, <1>14, <1>15, <1>16 DEF WInv, VerdictsAreRight

(* What leaves the request, its database and its results as they are.      *)
LEMMA KeepsVerdicts ==
    ASSUME WInv, UNCHANGED <<db, req, read, sql, seen>>, disturbed' \/ UNCHANGED disturbed,
           Runs' => Runs, VerdictsAreRight', NoAccidental500'
    PROVE  WInv'
<1>1. Engine' = Engine
  BY DEF Engine
<1>2. GroundInv'
  <2>1. OriginInv'
    BY DEF WInv, GroundInv, OriginInv
  <2>2. FoundInv'
    <3>1. \A k \in DOMAIN read : Sound(read, k)'
      BY <1>1, SoundStable DEF WInv, GroundInv, FoundInv, Founded
    <3> QED BY <3>1 DEF FoundInv, Founded
  <2> QED BY <1>1, <2>1, <2>2 DEF WInv, GroundInv, Resolved, Has
<1>3. PassedInv'
  BY <1>1 DEF WInv, PassedInv
<1>4. FitsInv'
  BY <1>1 DEF WInv, FitsInv, Asks, Resolved, SchemaOf, Has, Fits, Tables, Keyword, By
<1>5. BuiltInv' /\ SelectedInv'
  BY DEF WInv, BuiltInv, SelectedInv, Has
<1> QED BY <1>2, <1>3, <1>4, <1>5 DEF WInv

LEMMA QuietVerdicts ==
    ASSUME IInv, AInv, WInv,
           Denies \/ GivesUp \/ Pauses \/ \E i \in Checked : HealthCheck(i)
    PROVE  WInv'
<1>1. CASE Denies
  <2>0. PICK result \in Outcomes(db, sql) :
            ~result.ok /\ answer' = Problem(SelectError(result.code))
    BY <1>1 DEF Denies
  <2> DEFINE code == SelectError(result.code)
  <2>1. /\ UNCHANGED <<db, req, read, sql, seen, disturbed>> /\ answer' = Problem(code) /\ Runs
        /\ db \in seen
    BY <1>1, <2>0 DEF Denies, Statement, IInv, SeenInv
  <2>2. /\ Problem(code).status = 400 => Faulty(req, db, code)
        /\ code = "database_error" => disturbed \/ Unforeseen(req, db)
    BY <1>1, <2>0, DeniedJust DEF WInv, Denies
  <2>3. ~Runs' /\ Problem(code).status # 200 /\ Problem(code).code = code
    BY <2>1, ProblemIsAnAnswer DEF Runs, Problem
  <2> HIDE DEF code
  <2>4. RefusedForAReason'
    BY <2>1, <2>2, <2>3 DEF RefusedForAReason
  <2>5. AnsweredFaultless'
    BY <2>1, <2>3 DEF AnsweredFaultless, Answered
  <2>6. NoAccidental500'
    BY <2>1, <2>2, <2>3 DEF NoAccidental500
  <2> QED BY <2>1, <2>3, <2>4, <2>5, <2>6, KeepsVerdicts DEF VerdictsAreRight
<1>2. CASE GivesUp
  <2>1. PICK code \in Failures : answer' = Problem(code) /\ (code = "database_error" => disturbed')
    BY <1>2 DEF GivesUp
  <2>2. answer'.status = 500 /\ ~Runs'
    BY <2>1, ProblemIsAnAnswer DEF Problem, Failures, Runs
  <2>3. VerdictsAreRight'
    BY <2>2 DEF VerdictsAreRight, RefusedForAReason, AnsweredFaultless, Answered
  <2>4. NoAccidental500'
    BY <2>1 DEF NoAccidental500, Problem
  <2> QED BY <1>2, <2>2, <2>3, <2>4, KeepsVerdicts DEF GivesUp
<1>3. CASE Pauses
  <2>1. UNCHANGED <<db, req, read, sql, seen, disturbed, answer>>
    BY <1>3 DEF Pauses
  <2>2. VerdictsAreRight'
    BY <2>1 DEF WInv, VerdictsAreRight, RefusedForAReason, AnsweredFaultless, Answered, Asks
  <2>3. Runs' => Runs
    BY <2>1 DEF Runs, Asks
  <2>4. NoAccidental500'
    BY <2>1 DEF WInv, NoAccidental500
  <2> QED BY <2>1, <2>2, <2>3, <2>4, KeepsVerdicts
<1>4. CASE \E i \in Checked : HealthCheck(i)
  <2>1. /\ UNCHANGED <<db, req, read, sql, seen, disturbed>> /\ ~Runs' /\ Asks({"siblings"})
        /\ answer' = Pending \/ \E body : answer' = Success(body)
    BY <1>4 DEF HealthCheck, Runs, Asks, Standalone
  <2>2. answer' # Pending => answer'.status # 400
    BY <2>1 DEF Success
  <2>3. VerdictsAreRight'
    BY <2>1, <2>2 DEF VerdictsAreRight, RefusedForAReason, AnsweredFaultless, Answered, Asks
  <2>4. NoAccidental500'
    BY <2>1 DEF NoAccidental500, Success, Pending
  <2> QED BY <2>1, <2>3, <2>4, KeepsVerdicts
<1> QED BY <1>1, <1>2, <1>3, <1>4

(* Another session edits a table.                                          *)
LEMMA AlterVerdicts ==
    ASSUME IInv, AInv, WInv, NEW edit \in Edits, Alter(edit)
    PROVE  WInv'
<1>1. /\ UNCHANGED <<req, read, sql, answer>> /\ disturbed' = TRUE /\ Runs /\ db \in seen
      /\ db' = Apply(db, edit) /\ seen' = seen \cup {db'} /\ Applies(db, edit)
      /\ edit.kind \in Edited /\ Catalogued(db)
  BY EditsAssumption DEF Alter, Meddles, IInv, SeenInv, AInv, CatalogueInv
<1>2. Engine' = Engine
  BY <1>1, ApplyCatalogued DEF Engine
<1>3. answer' = Pending
  BY <1>1 DEF Runs
<1>4. OriginInv'
  <2>1. PICK o \in seen : OriginOf(o, seen)
    BY <1>1 DEF WInv, GroundInv, OriginInv
  <2>2. Descends(db', o)
    BY <1>1, <2>1, ApplyDescends DEF OriginOf
  <2>3. OriginOf(o, seen')
    BY <1>1, <2>1, <2>2 DEF OriginOf
  <2> QED BY <1>1, <2>1, <2>3 DEF OriginInv
<1>5. FoundInv'
  <2>1. \A k \in DOMAIN read : Sound(read, k)'
    BY <1>1, <1>2, SoundStable DEF WInv, GroundInv, FoundInv, Founded
  <2> QED BY <1>1, <2>1 DEF FoundInv, Founded
<1>6. GroundInv'
  BY <1>1, <1>2, <1>4, <1>5 DEF WInv, GroundInv, Resolved, Has
<1>7. PassedInv'
  BY <1>1, <1>2 DEF WInv, PassedInv, Runs, Asks
<1>8. FitsInv'
  BY <1>1, <1>2 DEF WInv, FitsInv, Asks, Resolved, SchemaOf, Has, Fits, Tables, Keyword, By
<1>9. BuiltInv' /\ SelectedInv'
  BY <1>1 DEF BuiltInv, SelectedInv
<1>10. VerdictsAreRight' /\ NoAccidental500'
  BY <1>3 DEF VerdictsAreRight, RefusedForAReason, AnsweredFaultless, Answered, NoAccidental500
<1> QED BY <1>6, <1>7, <1>8, <1>9, <1>10 DEF WInv

(* A request comes in.                                                     *)
LEMMA AskVerdicts ==
    ASSUME IInv, AInv, NEW r \in Requests, Ask(r)
    PROVE  WInv'
<1> DEFINE source == ResolveSource(Sources, r.source)
<1>1. /\ req' = r /\ r # None /\ read' = <<>> /\ sql' = None /\ seen = {}
      /\ answer' = IF EarlyFault(r).ok THEN EarlyAnswer(r) ELSE Problem(EarlyFault(r).code)
  BY RequestsAssumption DEF Ask, IInv, IdleInv, AInv, ServerTypeOK
<1>2. source.ok => /\ db' = Databases[source.val] /\ seen' = {db'} /\ source.val \in ToSet(Sources)
  <2>1. source.ok => source.val \in ToSet(Sources)
    BY SourcesAssumption DEF ResolveSource, Ok, Err, ToSet
  <2> QED BY <2>1 DEF Ask
<1>3. ~source.ok => seen' = {}
  BY <1>1 DEF Ask
<1> HIDE DEF source
<1>4. OriginInv'
  <2>1. CASE source.ok
    <3>1. Original(db')
      BY <1>2, <2>1, OriginalIs
    <3>2. Descends(db', db')
      BY <3>1, OriginDescends
    <3>3. OriginOf(db', seen')
      BY <1>2, <2>1, <3>1, <3>2 DEF OriginOf
    <3> QED BY <1>2, <2>1, <3>3 DEF OriginInv
  <2>2. CASE ~source.ok
    BY <1>3, <2>2 DEF OriginInv
  <2> QED BY <2>1, <2>2
<1>5. GroundInv' /\ FitsInv' /\ BuiltInv' /\ SelectedInv'
  BY <1>1, <1>4 DEF GroundInv, FoundInv, Founded, FitsInv, BuiltInv, SelectedInv, Has
<1>6. PassedInv'
  <2> SUFFICES ASSUME Runs'
               PROVE  /\ EarlyFault(r).ok
                      /\ Engine' = "sqlite" => r.route # "schemas" /\ Sq!CheckSchema(r.schema).ok
    BY <1>1 DEF PassedInv
  <2>1. r.route \notin Standalone /\ EarlyFault(r).ok /\ EarlyAnswer(r) = Pending
    BY <1>1, ProblemIsAnAnswer DEF Runs, Asks
  <2>2. /\ source.ok
        /\ r.route # "schemas" /\ IsSqlite(r) => Sq!CheckSchema(r.schema).ok
    BY <2>1, EarlyPasses DEF source
  <2>3. IsSqlite(r) <=> Engine' = "sqlite"
    BY <1>2, <2>2 DEF IsSqlite, source, Engine
  <2>4. r.route = "schemas" => ~IsSqlite(r)
    BY <2>1 DEF EarlyAnswer, Success, Pending
  <2> QED BY <2>1, <2>2, <2>3, <2>4
<1>7. RefusedForAReason'
  <2> SUFFICES ASSUME answer'.status = 400, answer' # Pending
               PROVE  \/ answer'.code = "invalid_parameter" /\ BadParameter(r)
                      \/ answer'.code = "unknown_source" /\ r.source \notin ToSet(Sources) \cup {None}
                      \/ \E d \in seen' : Faulty(r, d, answer'.code)
    BY <1>1 DEF RefusedForAReason
  <2>1. ~EarlyFault(r).ok
    <3> SUFFICES ASSUME EarlyFault(r).ok PROVE FALSE
      OBVIOUS
    <3>1. EarlyAnswer(r) = Pending \/ \E body : EarlyAnswer(r) = Success(body)
      BY DEF EarlyAnswer
    <3> QED BY <1>1, <3>1 DEF Success
  <2>2. EarlyReason(r, EarlyFault(r).code)
    BY <2>1, EarlyIsJust DEF EarlyJust
  <2>3. answer'.code = EarlyFault(r).code
    BY <1>1, <2>1 DEF Problem
  <2> QED BY <1>2, <2>2, <2>3 DEF EarlyReason, source
<1>8. AnsweredFaultless'
  <2> SUFFICES ASSUME answer'.status = 200, answer' # Pending, r.route \in AnsweredRoutes
               PROVE  ~BadParameter(r) /\ \A code \in Refusals : ~Faulty(r, db', code)
    BY <1>1 DEF AnsweredFaultless, Answered, Asks, AnsweredRoutes
  <2>1. EarlyFault(r).ok /\ answer' = EarlyAnswer(r)
    BY <1>1 DEF Problem
  <2>2. r.route = "schemas"
    BY <2>1 DEF EarlyAnswer, AnsweredRoutes
  <2>3. ~BadParameter(r)
    BY <2>2 DEF BadParameter, Required, IsJoin
  <2>4. \A code \in Refusals : ~Faulty(r, db', code)
    <3>1. PICK d : d = db'
      OBVIOUS
    <3>2. ~Plain(r) /\ ~IsJoin(r) /\ ~BadFilter(r, d)
      BY <2>2 DEF Plain, IsJoin, BadFilter
    <3>3. \A s : ~BadJoin(r, d, s)
      BY <3>2 DEF BadJoin
    <3> QED BY <2>2, <3>1, <3>2, <3>3, FaultyIs DEF Refusals
  <2> QED BY <2>3, <2>4
<1>9. NoAccidental500'
  <2> SUFFICES ASSUME answer'.status = 500, answer'.code = "database_error", answer' # Pending
               PROVE  FALSE
    BY DEF NoAccidental500
  <2>1. EarlyFault(r).ok => answer' = Pending \/ \E body : answer' = Success(body)
    BY <1>1 DEF EarlyAnswer
  <2>2. ~EarlyFault(r).ok
    <3> SUFFICES ASSUME EarlyFault(r).ok PROVE FALSE
      OBVIOUS
    <3> QED BY <2>1 DEF Success
  <2>3. answer' = Problem(EarlyFault(r).code)
    BY <1>1, <2>2
  <2>4. EarlyFault(r).code = "database_error"
    BY <2>3 DEF Problem
  <2>5. "database_error" \in Refusals
    BY <1>1, <2>2, <2>4, EarlyPolite DEF Polite
  <2> QED BY <2>5 DEF Refusals
<1> QED BY <1>5, <1>6, <1>7, <1>8, <1>9 DEF WInv, VerdictsAreRight

LEMMA StartVerdicts ==
    ASSUME req' = None, read' = <<>>, sql' = None, seen' = {}
    PROVE  WInv'
BY DEF WInv, GroundInv, OriginInv, FoundInv, Founded, PassedInv, FitsInv, BuiltInv, SelectedInv,
       VerdictsAreRight, RefusedForAReason, AnsweredFaultless, Answered, NoAccidental500, Runs, Has

LEMMA InitVerdicts == Init => WInv
BY DEF Init, WInv, GroundInv, OriginInv, FoundInv, Founded, PassedInv, FitsInv, BuiltInv,
       SelectedInv, VerdictsAreRight, RefusedForAReason, AnsweredFaultless, Answered,
       NoAccidental500, Runs, Has

LEMMA NextVerdicts == IInv /\ AInv /\ IInv' /\ AInv' /\ WInv /\ [Next]_vars => WInv'
<1> SUFFICES ASSUME IInv, AInv, IInv', AInv', WInv, [Next]_vars PROVE WInv'
  OBVIOUS
<1>1. CASE \E kind, t, value : Finding(kind, t, value)
  BY <1>1, FindingVerdicts
<1>2. CASE Denies \/ GivesUp \/ Pauses
  BY <1>2, QuietVerdicts
<1>3. CASE \E i \in Checked : HealthCheck(i)
  BY <1>3, QuietVerdicts
<1>4. CASE Receive
  BY <1>4, StartVerdicts DEF Receive
<1>5. CASE \E edit \in Edits : Alter(edit)
  BY <1>5, AlterVerdicts
<1>6. CASE \E r \in Requests : Ask(r)
  BY <1>6, AskVerdicts
<1> QED BY <1>1, <1>2, <1>3, <1>4, <1>5, <1>6, MoveIs DEF WInv

(* Whatever is asked of whatever databases, and whatever others do to them *)
(* while it runs: a request is refused with the code of a fault that some  *)
(* database it saw had, and one nothing met is answered only when there is *)
(* no fault in it at all (the checks of the handlers between their         *)
(* statements, the extractors before the first and map_select_denied).     *)
THEOREM VerdictsHold == Spec => []VerdictsAreRight
<1>1. Init => IInv /\ AInv /\ WInv
  BY InitInv, InitAnswers, InitVerdicts
<1>2. (IInv /\ AInv /\ WInv) /\ [Next]_vars => (IInv /\ AInv /\ WInv)'
  BY NextInv, NextAnswers, NextVerdicts
<1>3. (IInv /\ AInv /\ WInv) => VerdictsAreRight
  BY DEF WInv
<1> QED BY <1>1, <1>2, <1>3, PTL DEF Spec

(* Whatever is asked, an engine whose database nobody changed and that did *)
(* not fail takes the SELECT the handler sends it, or refuses it for a     *)
(* reason that has a name of its own, but for a pattern that dangles and   *)
(* for a pair of ON it has no = for: database_error is the answer to       *)
(* nothing else (how the backends spell operators, and map_select_denied). *)
THEOREM EnginesNeverRefuse == Spec => []NoAccidental500
<1>1. Init => IInv /\ AInv /\ WInv
  BY InitInv, InitAnswers, InitVerdicts
<1>2. (IInv /\ AInv /\ WInv) /\ [Next]_vars => (IInv /\ AInv /\ WInv)'
  BY NextInv, NextAnswers, NextVerdicts
<1>3. (IInv /\ AInv /\ WInv) => NoAccidental500
  BY DEF WInv
<1> QED BY <1>1, <1>2, <1>3, PTL DEF Spec
=============================================================================
