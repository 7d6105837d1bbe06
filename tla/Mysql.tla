------------------------------- MODULE Mysql -------------------------------
(***************************************************************************)
(* The statements of db/mysql.rs, for MySQL and MariaDB.  The type of a    *)
(* column is [data, full]: information_schema's data_type and column_type. *)
(* The views show what is in tables the role has any privilege on.         *)
(***************************************************************************)
EXTENDS Filter

(* ILIKE becomes LIKE between two lowered texts.                           *)
(* mutant: every operator is spelled as on the wire *)
KeywordAsSent(op) == op

Keyword(op) == IF op = "ILIKE" THEN "LOWER LIKE" ELSE op
Where(conditions, columns) == Clause(conditions, columns, Keyword)

ColumnClass(type) ==
    CASE type.data \in {"tinyint", "smallint", "mediumint", "int", "integer", "bigint",
                        "decimal", "numeric"} -> Class("number")
      [] type.data \in {"char", "varchar", "tinytext", "text", "mediumtext", "longtext"} ->
            Class("text")
      [] type.data \in {"date", "datetime", "timestamp"} -> Class("temporal")
      [] type.data = "time" -> Class("time")
      [] type.data \in {"binary", "varbinary", "tinyblob", "blob", "mediumblob", "longblob"} ->
            Class("binary")
      [] type.data = "uuid" -> Class("uuid")
      [] type.data = "enum" -> EnumClass(type.full)
      [] type.data \in {"float", "double"} -> Class("float")
      [] type.data = "json" -> Class("json")
      [] OTHER -> Class("other")

(* variant: what select version() says, kept by the source that asked.     *)
Variant(d) == IF d.fork = "mariadb" THEN "mariadb" ELSE "mysql"

ListSchemas(d) == {s \in DOMAIN d.schemas : ~d.schemas[s].system /\ d.schemas[s].usage}
DefaultSchema(d) == d.current

BaseTables(d, s) ==
    {x \in d.tables : x.schema = s /\ x.kind \in {"base", "partitioned"} /\ x.listed}
AllowedTables(d, s) == {x.name : x \in BaseTables(d, s)}
Listing(d, s) == OrderBy(BaseTables(d, s), LAMBDA x : <<Rank(x.name)>>)
ListTables(d, s) == [i \in DOMAIN Listing(d, s) |-> Listing(d, s)[i].name]
TableCounts(d, s) ==
    [i \in DOMAIN Listing(d, s) |->
        <<Listing(d, s)[i].name,
          IF Listing(d, s)[i].estimate = Null THEN -1 ELSE Listing(d, s)[i].estimate>>]
Estimate(d, s, t) ==
    {IF x.estimate = Null THEN -1 ELSE x.estimate : x \in {y \in TablesAt(d, s, t) : y.listed}}

TableColumns(d, s, t) ==
    LET found == {x \in TablesAt(d, s, t) : x.listed}
    IN IF found = {} THEN <<>> ELSE (CHOOSE x \in found : TRUE).columns
AllowedColumns(d, s, t) ==
    [i \in DOMAIN TableColumns(d, s, t) |-> TableColumns(d, s, t)[i].name]

(* MariaDB has no JSON type: a json_valid check that is named after its    *)
(* column tells one.                                                       *)
MariadbJsonColumns(d, s, t) ==
    UNION {{k.name : k \in {c \in x.checks : c.column = c.name}} : x \in TablesAt(d, s, t)}

(* The columns of a table as reported, from the three statements on it.    *)
MetaClass(c, json) == IF c.name \in json THEN Class("json") ELSE ColumnClass(c.type)

KeyMetadata(d, s, t) ==
    LET seen == {x \in TablesAt(d, s, t) : x.listed}
        single == {k \in KeysOf(d, s, t) : seen # {} /\ IsSingle(k)}
        target(k) == [schema |-> IF k.toSchema = s THEN None ELSE k.toSchema,
                      table |-> k.toTable, column |-> k.pairs[1].to]
    IN [pk |-> UNION {ToSet(x.pk) : x \in seen},
        references |-> References({<<k.pairs[1].from, target(k)>> : k \in single})]

MapSelectDenied(error) ==
    CASE error = "denied" -> "not_readable"
      [] error = "timeout" -> "query_timeout"
      [] OTHER -> "database_error"

Pair(p) == [from |-> p.from, to |-> p.to]
ByName(keys) == OrderBy(keys, LAMBDA k : <<Rank(k.name)>>)
Visible(d, keys) == {k \in keys : \E x \in TablesAt(d, k.schema, k.table) : x.listed}

(* Referrers of the same schema only, and of those the allowed tables.     *)
ReferencedBy(d, s, t, allowed) ==
    LET keys == OrderBy({k \in Visible(d, d.keys) : /\ k.schema = s /\ k.toSchema = s
                                                   /\ k.toTable = t /\ k.table \in allowed},
                        LAMBDA k : <<Rank(k.table), Rank(k.name)>>)
        rows(k) == [i \in DOMAIN k.pairs |->
                        [table |-> k.table, constraint |-> k.name, schema |-> None,
                         columns |-> <<Pair(k.pairs[i])>>]]
    IN GroupReferencedBy(FlattenSeq([i \in DOMAIN keys |-> rows(keys[i])]))

(* The statements of GET /api/tables/structure.                            *)
IndexesOf(d, s, t) == UNION {x.indexes : x \in {y \in TablesAt(d, s, t) : y.listed}}
Indexes(d, s, t, variant) ==
    LET indexes == ByName(IndexesOf(d, s, t))
        text(part) == CASE part.column # None -> part.column
                        [] variant = "mysql" -> part.text
                        [] OTHER -> ""
        rows(ix) == [i \in DOMAIN ix.parts |->
                        [name |-> ix.name, unique |-> ix.unique, predicate |-> None,
                         columns |-> <<text(ix.parts[i])>>]]
    IN GroupByName(FlattenSeq([i \in DOMAIN indexes |-> rows(indexes[i])]))
PrimaryKey(d, s, t) ==
    {[name |-> x.pkName, columns |-> x.pk] :
        x \in {y \in TablesAt(d, s, t) : y.listed /\ y.pk # <<>>}}
(* key_column_usage has no row for an expression.                          *)
Uniques(d, s, t) ==
    LET constraints == ByName({ix \in IndexesOf(d, s, t) : ix.unique /\ ix.origin # "primary"})
        rows(ix) == [i \in DOMAIN ix.parts |->
                        [name |-> ix.name, columns |-> <<ix.parts[i].column>>]]
    IN GroupByName(SelectSeq(FlattenSeq([i \in DOMAIN constraints |-> rows(constraints[i])]),
                             LAMBDA row : row.columns # <<None>>))
ForeignKeys(d, s, t) ==
    LET keys == ByName(Visible(d, KeysOf(d, s, t)))
        rows(k) == [i \in DOMAIN k.pairs |->
                        [name |-> k.name, table |-> k.toTable,
                         schema |-> IF k.toSchema = s THEN None ELSE k.toSchema,
                         columns |-> <<Pair(k.pairs[i])>>]]
    IN GroupByName(FlattenSeq([i \in DOMAIN keys |-> rows(keys[i])]))
(* The view of checks names the table on MariaDB, where two tables may     *)
(* have a check of one name, and not on MySQL.                             *)
HasChecks(d) == d.checksView
Checks(d, s, t, variant) ==
    LET holders(k) == {x \in d.tables : x.schema = s /\ (variant = "mariadb" => x.name = t)
                                            /\ \E c \in x.checks : c.name = k.name}
        here == ByName(UNION {x.checks : x \in {y \in TablesAt(d, s, t) : y.listed}})
        rows(k) == [i \in 1..Cardinality(holders(k)) |-> k.name]
    IN FlattenSeq([i \in DOMAIN here |-> rows(here[i])])
=============================================================================
