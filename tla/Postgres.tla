------------------------------ MODULE Postgres ------------------------------
(***************************************************************************)
(* The statements of db/postgres.rs, each as what it reads from a database *)
(* at the moment it runs (READ COMMITTED: every statement sees its own).   *)
(* The type of a column is [data, udt, enum]: information_schema's         *)
(* data_type, the qualified name of the type and whether it is an enum.    *)
(***************************************************************************)
EXTENDS Filter

Keyword(op) == op
Where(conditions, columns) == Clause(conditions, columns, Keyword)

ColumnClass(type) ==
    CASE type.data \in {"smallint", "integer", "bigint", "numeric"} -> Class("number")
      [] type.data \in {"character varying", "character", "text"} -> Class("text")
      [] type.data = "uuid" -> Class("uuid")
      [] type.data = "boolean" -> Class("boolean")
      [] type.data = "bytea" -> Class("binary")
      [] type.data \in {"date", "timestamp without time zone", "timestamp with time zone"} ->
            Class("temporal")
      [] type.data \in {"time without time zone", "time with time zone"} -> Class("time")
      [] type.data \in {"real", "double precision"} -> Class("float")
      [] type.data \in {"json", "jsonb"} -> Class("json")
      [] type.data = "ARRAY" -> Class("array")
      [] type.data = "USER-DEFINED" /\ type.enum -> EnumClass(type.udt)
      [] type.data = "USER-DEFINED" /\ type.udt = "citext" -> Class("text")
      [] OTHER -> Class("other")

ListSchemas(d) == {s \in DOMAIN d.schemas : ~d.schemas[s].system /\ d.schemas[s].usage}
DefaultSchema(d) == d.current

(* The gate of every route on a table.  A NUL byte never reaches the       *)
(* driver, which would fail on it rather than find nothing.                *)
ReadableTableOid(d, s, t) ==
    LET found == {x \in TablesAt(d, s, t) : x.kind = "base" /\ x.readable}
    IN IF t \in NulNames \/ found = {} THEN Err("unknown_table")
       ELSE Ok((CHOOSE x \in found : TRUE).oid)


(* mutant: tables that may not be read are listed *)
ListingAll(d, s) ==
    OrderBy({x \in d.tables : x.schema = s /\ x.kind = "base"}, LAMBDA x : <<Rank(x.name)>>)

Listing(d, s) ==
    OrderBy({x \in d.tables : x.schema = s /\ x.kind = "base" /\ x.readable},
            LAMBDA x : <<Rank(x.name)>>)
ListTables(d, s) == [i \in DOMAIN Listing(d, s) |-> Listing(d, s)[i].name]
TableCounts(d, s) ==
    [i \in DOMAIN Listing(d, s) |-> <<Listing(d, s)[i].name, Listing(d, s)[i].estimate>>]
Estimate(d, s, t) == {x.estimate : x \in TablesAt(d, s, t)}

(* information_schema.columns, in the order of the table.                  *)
InformationColumns(d, s, t) ==
    LET found == {x \in TablesAt(d, s, t) : x.listed}
    IN IF found = {} THEN <<>> ELSE (CHOOSE x \in found : TRUE).columns
AllowedColumns(d, s, t) ==
    [i \in DOMAIN InformationColumns(d, s, t) |-> InformationColumns(d, s, t)[i].name]
(* ... joined with the attributes of the relation that passed the gate: it *)
(* is gone when another has taken its name.                                *)
TableColumns(d, s, t, oid) ==
    IF \E x \in TablesAt(d, s, t) : x.oid = oid THEN InformationColumns(d, s, t) ELSE <<>>

(* Three views of information_schema, external to the repository: what a   *)
(* role sees of the constraints of tables it owns, of the key columns of   *)
(* tables it may use, and of the columns that constraints use in tables it *)
(* owns.                                                                   *)
TableConstraints(d, s, t) ==
    {[name |-> x.pkName, kind |-> "p"] :
        x \in {y \in TablesAt(d, s, t) : y.owned /\ y.pk # <<>>}}
    \cup {[name |-> k.name, kind |-> "f"] :
            k \in {y \in KeysOf(d, s, t) : \E x \in TablesAt(d, s, t) : x.owned}}
PrimaryKeyUsage(d, s) ==
    UNION {{<<x.pkName, c>> : c \in ToSet(x.pk)} :
            x \in {y \in d.tables : y.schema = s /\ y.listed}}
ForeignKeyUsage(d, s) ==
    UNION {{<<k.name, k.pairs[i].from>> : i \in DOMAIN k.pairs} :
            k \in {y \in d.keys : y.schema = s /\ \E x \in TablesAt(d, s, y.table) : x.listed}}
KeyColumnUsage(d, s) == PrimaryKeyUsage(d, s) \cup ForeignKeyUsage(d, s)
ConstraintColumnUsage(d, s) ==
    UNION {{<<k.name, [schema |-> k.toSchema, table |-> k.toTable, column |-> k.pairs[i].to]>> :
                i \in DOMAIN k.pairs} :
            k \in {y \in d.keys : y.schema = s
                                    /\ \E x \in TablesAt(d, y.toSchema, y.toTable) : x.owned}}

(* The primary key and the references of single-column foreign keys.  The  *)
(* statement joins the views by the constraint's name and schema alone.    *)
KeyMetadata(d, s, t) ==
    LET columns(name) == {u[2] : u \in {v \in KeyColumnUsage(d, s) : v[1] = name}}
        targets(name) == {u[2] : u \in {v \in ConstraintColumnUsage(d, s) : v[1] = name}}
        short(ref) == IF ref.schema = s THEN [ref EXCEPT !.schema = None] ELSE ref
        named(kind) == {c.name : c \in {k \in TableConstraints(d, s, t) : k.kind = kind}}
        single == {name \in named("f") : Cardinality(columns(name)) = 1}
    IN [pk |-> UNION {columns(name) : name \in named("p")},
        references |-> References(UNION {columns(name) \X {short(r) : r \in targets(name)} :
                                         name \in single})]

(* The DbError of a failed SELECT, when the request sorts or not: whatever *)
(* has no operator is then taken for the column it sorts by.               *)
MapSelectDenied(error, sorts) ==
    CASE error = "denied" -> "not_readable"
      [] error = "timeout" -> "query_timeout"
      [] error = "undefined" /\ sorts -> "unsortable_column"
      [] error = "encoding" -> "invalid_filter"
      [] OTHER -> "database_error"

(* The statistics of a column, a boolean's as the rows of a table show it. *)
CommonValues(d, s, t, c) ==
    UNION {{x.stats[c]} : x \in {y \in TablesAt(d, s, t) : y.readable /\ c \in ColumnNames(y)}}
DataType(d, s, t, c) ==
    {InformationColumns(d, s, t)[i].type.data :
        i \in {j \in DOMAIN InformationColumns(d, s, t) : InformationColumns(d, s, t)[j].name = c}}
Normalise(values, types) ==
    IF types = {"boolean"}
    THEN [i \in DOMAIN values |-> CASE values[i] = "t" -> "true"
                                    [] values[i] = "f" -> "false"
                                    [] OTHER -> values[i]]
    ELSE values

Pair(p) == [from |-> p.from, to |-> p.to]
ByName(keys) == OrderBy(keys, LAMBDA k : <<Rank(k.name)>>)

(* The keys that point at a relation: not the clones a partition has of    *)
(* its parent's, nor those of a table no route serves.                     *)
ReferencedBy(d, s, oid) ==
    LET targets(k) == \E x \in RelationsOf(d, oid) : x.schema = k.toSchema /\ x.name = k.toTable
        served(k) == \E x \in TablesAt(d, k.schema, k.table) : x.kind = "base" /\ x.readable
        keys == OrderBy({k \in d.keys : k.copy = "no" /\ targets(k) /\ served(k)},
                        LAMBDA k : <<Rank(k.schema), Rank(k.table), Rank(k.name)>>)
        rows(k) == [i \in DOMAIN k.pairs |->
                        [table |-> k.table, constraint |-> k.name,
                         schema |-> IF k.schema = s THEN None ELSE k.schema,
                         columns |-> <<Pair(k.pairs[i])>>]]
    IN GroupReferencedBy(FlattenSeq([i \in DOMAIN keys |-> rows(keys[i])]))

(* The statements of GET /api/tables/structure, on the relation's oid.     *)
Indexes(d, oid) ==
    LET indexes == ByName(UNION {x.indexes : x \in RelationsOf(d, oid)})
        rows(ix) == [i \in 1..ix.nkeys |->
                        [name |-> ix.name, unique |-> ix.unique, predicate |-> ix.where,
                         columns |-> <<IF ix.parts[i].column = None THEN ix.parts[i].text
                                       ELSE ix.parts[i].column>>]]
    IN GroupByName(FlattenSeq([i \in DOMAIN indexes |-> rows(indexes[i])]))
PrimaryKey(d, oid) ==
    {[name |-> x.pkName, columns |-> x.pk] : x \in {y \in RelationsOf(d, oid) : y.pk # <<>>}}
Uniques(d, oid) ==
    LET constraints == ByName(UNION {{ix \in x.indexes : ix.origin = "unique"} :
                                     x \in RelationsOf(d, oid)})
        rows(ix) == [i \in 1..ix.nkeys |->
                        [name |-> ix.name, columns |-> <<ix.parts[i].column>>]]
    IN GroupByName(FlattenSeq([i \in DOMAIN constraints |-> rows(constraints[i])]))
ForeignKeys(d, s, oid) ==
    LET keys == ByName(UNION {{k \in KeysOf(d, x.schema, x.name) : k.copy # "here"} :
                              x \in RelationsOf(d, oid)})
        rows(k) == [i \in DOMAIN k.pairs |->
                        [name |-> k.name, table |-> k.toTable,
                         schema |-> IF k.toSchema = s THEN None ELSE k.toSchema,
                         columns |-> <<Pair(k.pairs[i])>>]]
    IN GroupByName(FlattenSeq([i \in DOMAIN keys |-> rows(keys[i])]))
Checks(d, oid) ==
    LET checks == ByName(UNION {x.checks : x \in RelationsOf(d, oid)})
    IN [i \in DOMAIN checks |-> checks[i].name]
=============================================================================
