------------------------------- MODULE Sqlite -------------------------------
(***************************************************************************)
(* The statements of db/sqlite.rs.  The type of a column is [base, has]:   *)
(* the declared type up to its parenthesis, and the affinity words in it.  *)
(* An index's sql is its CREATE INDEX statement as tokens: a quote, a      *)
(* bracket, "where" between spaces, or any other word.                     *)
(***************************************************************************)
EXTENDS Filter

OnlySchema == "main"
CheckSchema(s) == IF s \in {None, OnlySchema} THEN Ok(OnlySchema) ELSE Err("unknown_schema")

Keyword(op) == IF op = "ILIKE" THEN "LIKE" ELSE op
Where(conditions, columns) == Clause(conditions, columns, Keyword)

(* Names first, then SQLite's affinity rules, in their order.              *)
ColumnClass(type) ==
    CASE type.base = "" -> Class("untyped")
      [] type.base = "UUID" -> Class("uuid")
      [] type.base \in {"BOOLEAN", "BOOL"} -> Class("boolean")
      [] type.base \in {"DATE", "DATETIME", "TIMESTAMP"} -> Class("temporal")
      [] type.base = "TIME" -> Class("time")
      [] type.base \in {"JSON", "JSONB"} -> Class("json")
      [] "INT" \in type.has -> Class("number")
      [] type.has \cap {"CHAR", "CLOB", "TEXT"} # {} -> Class("text")
      [] "BLOB" \in type.has -> Class("binary")
      [] type.has \cap {"REAL", "FLOA", "DOUB"} # {} -> Class("float")
      [] OTHER -> Class("number")

ServedTables(d) == {x \in d.tables : x.schema = OnlySchema /\ x.kind = "base"}
AllowedTables(d) == {x.name : x \in ServedTables(d)}
ListTables(d) ==
    LET listed == OrderBy(ServedTables(d), LAMBDA x : <<Rank(x.name)>>)
    IN [i \in DOMAIN listed |-> listed[i].name]
TableCounts(names) == [i \in DOMAIN names |-> <<names[i], -1>>]

(* A pragma finds a table whatever the case of its name.                   *)
Located(d, t) == {x \in d.tables : Fold[x.name] = Fold[t]}
TableColumns(d, t) ==
    IF Located(d, t) = {} THEN <<>> ELSE (CHOOSE x \in Located(d, t) : TRUE).columns
AllowedColumns(d, t) == [i \in DOMAIN TableColumns(d, t) |-> TableColumns(d, t)[i].name]
PkColumns(d, t) == UNION {ToSet(x.pk) : x \in Located(d, t)}

(* The column a pair references: REFERENCES parent alone means the column  *)
(* at its place in the parent's primary key, or the rowid.                 *)
Target(d, parent, pair, i) ==
    LET pk == UNION {{x.pk[i]} : x \in {y \in Located(d, parent) : i \in DOMAIN y.pk}}
    IN CASE pair.to # None -> pair.to
         [] pair.to = None /\ pk # {} -> CHOOSE c \in pk : TRUE
         [] OTHER -> "rowid"

ForeignKeyList(d, t) == {k \in d.keys : Fold[k.table] = Fold[t]}
KeyReferences(d, t) ==
    LET single == {k \in ForeignKeyList(d, t) : IsSingle(k)}
        target(k) == [schema |-> None, table |-> k.toTable,
                      column |-> Target(d, k.toTable, k.pairs[1], 1)]
    IN References({<<k.pairs[1].from, target(k)>> : k \in single})

(* The pairs of a key, and its synthetic name: the text fk_<id>.           *)
Pairs(d, k, parent) ==
    [i \in DOMAIN k.pairs |->
        [from |-> k.pairs[i].from, to |-> Target(d, parent, k.pairs[i], i)]]
FkName(k) == <<"fk", k.id>>

ReferencedBy(d, t) ==
    LET served(k) == \E x \in ServedTables(d) : x.name = k.table
        keys == OrderBy({k \in d.keys : served(k) /\ Fold[k.toTable] = Fold[t]},
                        LAMBDA k : <<Rank(k.table), k.id>>)
        rows(k) == [i \in DOMAIN k.pairs |->
                        [table |-> k.table, constraint |-> FkName(k), schema |-> None,
                         columns |-> <<Pairs(d, k, t)[i]>>]]
    IN GroupReferencedBy(FlattenSeq([i \in DOMAIN keys |-> rows(keys[i])]))

(* mutant: the first WHERE is taken, in a text or not *)
FirstPredicate(sql) ==
    SubSeq(sql, Min({i \in DOMAIN sql : sql[i] = "where"}) + 1, Len(sql))

(* The text after the WHERE that no quote and no parenthesis encloses.     *)
PartialIndexPredicate(sql) ==
    LET scan(st, i) ==
            CASE st.at # 0 -> st
              [] st.quote # None -> IF sql[i] = st.quote THEN [st EXCEPT !.quote = None] ELSE st
              [] sql[i] \in {"'", "["} -> [st EXCEPT !.quote = IF sql[i] = "[" THEN "]" ELSE sql[i]]
              [] sql[i] = "(" -> [st EXCEPT !.depth = @ + 1]
              [] sql[i] = ")" -> [st EXCEPT !.depth = @ - 1]
              [] sql[i] = "where" /\ st.depth = 0 -> [st EXCEPT !.at = i]
              [] OTHER -> st
        end == FoldLeft(scan, [quote |-> None, depth |-> 0, at |-> 0], [i \in DOMAIN sql |-> i])
    IN IF end.at = 0 THEN None ELSE SubSeq(sql, end.at + 1, Len(sql))

(* The statements of GET /api/tables/structure.                            *)
IndexList(d, t) == OrderBy(UNION {x.indexes : x \in Located(d, t)}, LAMBDA ix : <<Rank(ix.name)>>)
Indexes(d, t) ==
    LET rows(ix) == [i \in 1..ix.nkeys |->
                        [name |-> ix.name, unique |-> ix.unique, origin |-> ix.origin,
                         partial |-> ix.where # None,
                         columns |-> <<IF ix.parts[i].column = None THEN "<expression>"
                                       ELSE ix.parts[i].column>>]]
    IN GroupByName(FlattenSeq([i \in DOMAIN IndexList(d, t) |-> rows(IndexList(d, t)[i])]))
IndexSql(d, t) ==
    LET made == {ix \in UNION {x.indexes : x \in TablesAt(d, OnlySchema, t)} : ix.origin = "create"}
    IN [name \in {ix.name : ix \in made} |-> (CHOOSE ix \in made : ix.name = name).sql]
PrimaryKey(d, t) == {[name |-> None, columns |-> x.pk] : x \in {y \in Located(d, t) : y.pk # <<>>}}
ForeignKeys(d, t) ==
    LET keys == OrderBy(ForeignKeyList(d, t), LAMBDA k : <<k.id>>)
        entry(k) == [name |-> FkName(k), table |-> k.toTable, schema |-> None,
                     columns |-> Pairs(d, k, k.toTable)]
    IN [i \in DOMAIN keys |-> entry(keys[i])]
(* The indexes with their predicates, and the constraints among them.      *)
Described(indexes, sqlOf) ==
    [i \in DOMAIN indexes |->
        [name |-> indexes[i].name, unique |-> indexes[i].unique, columns |-> indexes[i].columns,
         predicate |-> IF indexes[i].partial /\ indexes[i].name \in DOMAIN sqlOf
                       THEN PartialIndexPredicate(sqlOf[indexes[i].name]) ELSE None]]
Uniques(indexes) ==
    LET made == SelectSeq(indexes, LAMBDA ix : ix.origin = "unique")
    IN [i \in DOMAIN made |-> [name |-> made[i].name, columns |-> made[i].columns]]
=============================================================================
