-------------------------- MODULE ServerProperties --------------------------
(***************************************************************************)
(* What the answers of the API promise.  The definitions say it of the     *)
(* catalogue and the rows directly, in the terms of spec/protocol.md, not  *)
(* in those of the statements that compute it.                             *)
(***************************************************************************)
EXTENDS Server

(* An answer that nothing but the handler had a part in.                   *)
Answered(routes) ==
    /\ req # None /\ answer # Pending /\ ~disturbed
    /\ answer.status = 200 /\ Asks(routes)

(* Type invariant: the state of a request is of its type, and an answer is *)
(* a success or a problem of the documented shape.                         *)
Kinds == {"schemas", "default", "list", "tables", "gate", "columns", "pk", "keys", "json",
          "select", "estimate", "names", "stats", "type", "referrers", "indexes", "sql",
          "uniques", "foreign", "view", "checks"}
Refusals == {"invalid_parameter", "invalid_filter", "invalid_join", "unknown_source",
             "unknown_schema", "unknown_table", "unknown_column", "not_readable",
             "unsortable_column"}
Failures == {"query_timeout", "database_error"}
ServerTypeOK ==
    /\ IF req = None \/ req.source \notin ToSet(Sources) \cup {None} THEN db = None /\ seen = {}
       ELSE db \in seen
    /\ variant \in {None} \cup (IF seen # {} /\ db.engine = "mysql" THEN {My!Variant(db)} ELSE {})
    /\ budget \in 0..Budget /\ locked \in BOOLEAN /\ disturbed \in BOOLEAN
    /\ req \in Requests \cup {None}
    /\ DOMAIN read \subseteq Kinds \X (ToSet(NameOrder) \cup {None})
    /\ DOMAIN probes \subseteq Checked
    /\ answer # Pending =>
        \/ answer.status = 200 /\ DOMAIN answer = {"status", "body"}
        \/ answer.status = 400 /\ answer.code \in Refusals
        \/ answer.status = 500 /\ answer.code \in Failures

-----------------------------------------------------------------------------
(* The catalogue.                                                          *)

SchemaAsked(r, d) ==
    CASE d.engine = "sqlite" -> Sq!OnlySchema
      [] d.engine # "sqlite" /\ r.schema = None -> d.current
      [] OTHER -> r.schema
SchemaListed(d, s) == s \in DOMAIN d.schemas /\ ~d.schemas[s].system /\ d.schemas[s].usage
Serves(d, x) ==
    CASE d.engine = "postgres" -> x.kind = "base" /\ x.readable
      [] d.engine = "mysql" -> x.kind \in {"base", "partitioned"} /\ x.listed
      [] d.engine = "sqlite" -> x.kind = "base"
Served(d, s, t) == \E x \in TablesAt(d, s, t) : Serves(d, x)
(* SQLite's pragmas find a table whatever the case of its name.            *)
Relations(d, s, t) == IF d.engine = "sqlite" THEN Sq!Located(d, t) ELSE TablesAt(d, s, t)
HasColumn(d, s, t, c) == \E x \in Relations(d, s, t) : c \in ColumnNames(x)
Column(d, s, t, c) ==
    CHOOSE k \in UNION {ToSet(x.columns) : x \in TablesAt(d, s, t)} : k.name = c

(* Safety: no name reaches the text of a SELECT that the catalogue did not *)
(* list while the request ran: its schema, its tables, and every column of *)
(* its list, filter, order and joins (the lookups before the splice in the *)
(* handlers of tables/data and tables/join).                               *)
OnlyListedNames ==
    sql # None =>
        LET s == sql.schema
        IN /\ Engine # "sqlite" => \E d \in seen : SchemaListed(d, s)
           /\ \A i \in DOMAIN sql.tables : \E d \in seen : Served(d, s, sql.tables[i])
           /\ \A ref \in Qualified(sql) \cup Listed(sql) :
                \E d \in seen : HasColumn(d, s, sql.tables[ref[1] + 1], ref[2])

-----------------------------------------------------------------------------
(* Refusals: what there is to refuse about a request.                      *)

Filters(r) == IF r.filter \in {None, Blank} THEN <<>> ELSE r.filter
IsJoin(r) == r.route = "join"
JoinParses(r) == ParseJoin(r.join).ok
FilterParses(r) == r.filter \in {None, Blank} \/ ParseFilter(r.filter, IsJoin(r)).ok
TablesOf(r) == IF IsJoin(r) THEN TableNames(r.join) ELSE <<r.table>>
TablePosition(r, p) == Position(p) < Len(TablesOf(r))
TableAt(r, p) == TablesOf(r)[Position(p) + 1]
(* The columns it sorts and filters by, where it has a table for them.     *)
SortsBy(r) ==
    IF r.sort # None /\ TablePosition(r, r.sortJoin) THEN {<<TableAt(r, r.sortJoin), r.sort>>}
    ELSE {}
FiltersBy(r) ==
    {<<TableAt(r, Filters(r)[i].join), Filters(r)[i].column>> :
        i \in {j \in DOMAIN Filters(r) : TablePosition(r, Filters(r)[j].join)}}

BadParameter(r) ==
    \/ \E field \in Required(r.route) : r[field] = None
    \/ /\ r.route \in {"data", "join"}
       /\ \/ {r.limit, r.offset} \cap {Malformed, Huge} # {}
          \/ r.order \notin {None, "asc", "desc"}
    \/ /\ IsJoin(r) /\ JoinParses(r)
       /\ \/ r.sortJoin = Malformed
          \/ r.sortJoin # None /\ (r.sort = None \/ ~TablePosition(r, r.sortJoin))
BadFilter(r, d) ==
    /\ r.route \in {"data", "join"}
    /\ \/ ~FilterParses(r)
       \/ \E i \in DOMAIN Filters(r) :
            \/ IsJoin(r) /\ JoinParses(r) /\ ~TablePosition(r, Filters(r)[i].join)
            \/ d.engine = "postgres" /\ Filters(r)[i].value \in NulNames

ClassIn(d, s, t, c) ==
    LET type == Column(d, s, t, c).type
    IN CASE d.engine = "postgres" -> Pg!ColumnClass(type)
         [] d.engine = "mysql" ->
                My!MetaClass(Column(d, s, t, c), IF d.fork = "mariadb"
                                                 THEN My!MariadbJsonColumns(d, s, t) ELSE {})
         [] d.engine = "sqlite" -> Sq!ColumnClass(type)
Comparable(d, s, left, right) ==
    LET collations == {Column(d, s, left[1], left[2]).collation,
                       Column(d, s, right[1], right[2]).collation} \ {None}
        class == ClassIn(d, s, left[1], left[2])
    IN /\ class = ClassIn(d, s, right[1], right[2])
       /\ class.name \in {"number", "text", "uuid", "boolean", "temporal", "time", "binary",
                          "enum", "untyped"}
       /\ class.name = "text" => Cardinality(collations) < 2
BadJoin(r, d, s) ==
    /\ IsJoin(r)
    /\ \/ ~JoinParses(r)
       \/ \E i \in DOMAIN TablesOf(r) : ~Served(d, s, TablesOf(r)[i])
       \/ \E i \in DOMAIN r.join.joins : \E j \in DOMAIN r.join.joins[i].on :
            LET on == r.join.joins[i].on[j]
                left == <<TableAt(r, on.left[1]), on.left[2]>>
                right == <<TableAt(r, i), on.right>>
            IN \/ \E ref \in {left, right} : ~HasColumn(d, s, ref[1], ref[2])
               \/ ~Comparable(d, s, left, right)
       \/ /\ r.join.columns # None
          /\ \E i \in DOMAIN r.join.columns :
                \/ ~TablePosition(r, r.join.columns[i][1])
                \/ ~HasColumn(d, s, TableAt(r, r.join.columns[i][1]), r.join.columns[i][2])

(* Whether an engine has an = for two columns of one class: Postgres may   *)
(* have none for their types, and MySQL has none for two collations that   *)
(* the API does not report.  A pair of ON may pass the checks of the join  *)
(* and still be of two that it has none for.                               *)
Equates(d, a, b) ==
    CASE d.engine = "postgres" ->
            \/ {a.native, b.native} \subseteq {"text", "folded"}
            \/ {a.native, b.native} = {"number"}
      [] d.engine = "mysql" ->
            {a.native, b.native} = {"folded"} =>
                None \in {a.collation, b.collation} \/ a.collation = b.collation
      [] d.engine = "sqlite" -> TRUE
Unequated(r, d) ==
    LET s == SchemaAsked(r, d)
    IN /\ IsJoin(r) /\ JoinParses(r)
       /\ \E i \in DOMAIN r.join.joins : \E j \in DOMAIN r.join.joins[i].on :
            LET on == r.join.joins[i].on[j]
                left == <<TableAt(r, on.left[1]), on.left[2]>>
                right == <<TableAt(r, i), on.right>>
            IN /\ \A ref \in {left, right} : HasColumn(d, s, ref[1], ref[2])
               /\ ~Equates(d, Column(d, s, left[1], left[2]), Column(d, s, right[1], right[2]))

(* Whether there is, in that database, what the code says is wrong.        *)
Faulty(r, d, code) ==
    LET s == SchemaAsked(r, d)
        selects == r.route \in {"data", "join"}
        plain == selects /\ FilterParses(r) /\ (IsJoin(r) => JoinParses(r))
                    /\ r.sortJoin # Malformed
    IN CASE code = "unknown_schema" ->
                /\ r.route # "schemas"
                /\ IF d.engine = "sqlite" THEN r.schema \notin {None, Sq!OnlySchema}
                   ELSE ~SchemaListed(d, s)
         [] code = "unknown_table" ->
                /\ r.route \in {"data", "values", "referrers", "structure"}
                /\ ~Served(d, s, r.table)
         [] code = "unknown_column" ->
                \/ r.route = "values" /\ ~HasColumn(d, s, r.table, r.column)
                \/ plain /\ \E w \in SortsBy(r) \cup FiltersBy(r) : ~HasColumn(d, s, w[1], w[2])
         [] code = "invalid_join" -> BadJoin(r, d, s)
         [] code = "invalid_filter" -> BadFilter(r, d)
         [] code = "not_readable" ->
                /\ plain /\ d.engine # "sqlite"
                /\ \E i \in DOMAIN TablesOf(r) : \E x \in TablesAt(d, s, TablesOf(r)[i]) : ~x.readable
         [] code = "unsortable_column" ->
                /\ plain /\ d.engine = "postgres"
                /\ \/ \E w \in SortsBy(r) :
                            HasColumn(d, s, w[1], w[2]) /\ Column(d, s, w[1], w[2]).native = "none"
                   \/ r.sort # None /\ Unequated(r, d)
         [] OTHER -> FALSE

(* Safety: a request is refused for a reason there was: some version of    *)
(* the database there was while it ran has the fault the code names.  And  *)
(* one that nothing disturbed is answered only where there is none.  Of    *)
(* unsortable_column the reason may be another than the column it names: a *)
(* join that sorts is refused so for a pair of ON that Postgres cannot     *)
(* compare (docs/adapter-decisions.md:198).                                *)
RefusedForAReason ==
    (req # None /\ answer # Pending /\ answer.status = 400) =>
        \/ answer.code = "invalid_parameter" /\ BadParameter(req)
        \/ answer.code = "unknown_source" /\ req.source \notin ToSet(Sources) \cup {None}
        \/ \E d \in seen : Faulty(req, d, answer.code)
AnsweredFaultless ==
    Answered({"schemas", "tables", "counts", "data", "join", "values", "referrers",
              "structure"}) =>
        /\ ~BadParameter(req)
        /\ \A code \in Refusals : ~Faulty(req, db, code)
VerdictsAreRight == RefusedForAReason /\ AnsweredFaultless

(* What an engine may refuse of a request that passed every check: a       *)
(* pattern for Postgres that ends in a backslash (22025, which             *)
(* map_select_denied leaves to database_error), and a pair of ON it has no *)
(* = for (docs/adapter-decisions.md:198, when nothing sorts, and :262).    *)
Unforeseen(r, d) ==
    \/ /\ d.engine = "postgres" /\ r.route \in {"data", "join"} /\ FilterParses(r)
       /\ \E i \in DOMAIN Filters(r) :
            Filters(r)[i].op \in {"LIKE", "ILIKE"} /\ Filters(r)[i].value \in Dangling
    \/ Unequated(r, d) /\ (d.engine = "postgres" => r.sort = None)

(* Safety: a request is answered by database_error only for these, or when *)
(* its database changed or failed under it: nothing else of a request      *)
(* reaches an engine in a form it refuses (map_select_denied, and how each *)
(* backend spells an operator and checks names, filters and pairs).        *)
NoAccidental500 ==
    (req # None /\ answer # Pending /\ answer.status = 500 /\ answer.code = "database_error") =>
        disturbed \/ Unforeseen(req, db)

-----------------------------------------------------------------------------
(* Rows.                                                                   *)

(* The meaning of a condition about one value, whatever the engine calls   *)
(* its operator: comparisons are of text, and null has none.               *)
Equal(d, v, w) == IF d.engine = "mysql" THEN Fold[v] = Fold[w] ELSE v = w
Below(d, v, w) == IF d.engine = "mysql" THEN FoldedRank(v) < FoldedRank(w) ELSE Rank(v) < Rank(w)
Meets(d, v, c) ==
    LET p == c.value
    IN CASE c.op = "IS NULL" -> v = Null
         [] c.op = "IS NOT NULL" -> v # Null
         [] c.op = "=" -> Equal(d, v, p)
         [] c.op = "!=" -> ~Equal(d, v, p)
         [] c.op = "<" -> Below(d, v, p)
         [] c.op = ">" -> Below(d, p, v)
         [] c.op = "<=" -> ~Below(d, p, v)
         [] c.op = ">=" -> ~Below(d, v, p)
         [] c.op = "LIKE" -> Like(d.engine # "postgres", v, p)
         [] c.op = "ILIKE" -> Like(TRUE, v, p)
Holds(d, v, c) ==
    /\ v # Null \/ c.op \in {"IS NULL", "IS NOT NULL"}
    /\ Meets(d, v, c) # c.not

(* The meaning of = in a join, which is of the columns' own types: 1 is    *)
(* 1.00, and text is compared without its case where both columns are; and *)
(* that of < where rows are sorted by a column.                            *)
Native(r, d, ref) == Column(d, SchemaAsked(r, d), TableAt(r, ref[1]), ref[2]).native
Same(a, b, v, w) ==
    CASE a = "number" /\ b = "number" -> NumberOf[v] = NumberOf[w]
      [] a = "folded" /\ b = "folded" -> Fold[v] = Fold[w]
      [] OTHER -> v = w
Less(a, v, w) ==
    CASE a = "number" -> NumberOf[v] < NumberOf[w]
      [] a = "folded" -> FoldedRank(v) < FoldedRank(w)
      [] OTHER -> Rank(v) < Rank(w)

(* What a request reads: a choice of a row (0: none) for every table.      *)
RowsAt(r, d, p) ==
    (CHOOSE x \in TablesAt(d, SchemaAsked(r, d), TablesOf(r)[p + 1]) : TRUE).rows
Cell(r, d, choice, p, c) == IF choice[p] = 0 THEN Null ELSE RowsAt(r, d, p)[choice[p]][c]
Matches(r, d, choice, p) ==
    {k \in DOMAIN RowsAt(r, d, p) :
        \A j \in DOMAIN r.join.joins[p].on :
            LET on == r.join.joins[p].on[j]
                value == RowsAt(r, d, p)[k][on.right]
                other == Cell(r, d, choice, on.left[1], on.left[2])
            IN /\ Null \notin {value, other}
               /\ Same(Native(r, d, on.left), Native(r, d, <<p, on.right>>), value, other)}
Joined(r, d, choice, p) ==
    LET found == Matches(r, d, choice, p)
    IN choice[p] \in IF found = {} /\ r.join.joins[p].kind = "left" THEN {0} ELSE found
Kept(r, d, choice) ==
    LET n == Len(Filters(r))
        starts == {i \in 1..n : i = 1 \/ Filters(r)[i].logic = "OR"}
        run(i) == {j \in i..n : \A k \in (i + 1)..j : k \notin starts}
        holds(j) == LET c == Filters(r)[j]
                    IN Holds(d, Cell(r, d, choice, Position(c.join), c.column), c)
    IN n = 0 \/ \E i \in starts : \A j \in run(i) : holds(j)
Selected(r, d) ==
    LET positions == 0..(Len(TablesOf(r)) - 1)
        most == Max({Len(RowsAt(r, d, p)) : p \in positions})
    IN {choice \in [positions -> 0..most] :
            /\ choice[0] \in DOMAIN RowsAt(r, d, 0)
            /\ \A p \in positions \ {0} : Joined(r, d, choice, p)
            /\ Kept(r, d, choice)}

(* The order of the column's own type.                                     *)
Before(r, d, a, b) ==
    LET p == Position(r.sortJoin)
        u == Cell(r, d, a, p, r.sort)
        v == Cell(r, d, b, p, r.sort)
        less(x, y) ==
            CASE x = Null -> y # Null /\ d.engine # "postgres"
              [] x # Null /\ y = Null -> d.engine = "postgres"
              [] OTHER -> Less(Native(r, d, <<p, r.sort>>), x, y)
    IN r.sort # None /\ IF r.order = "desc" THEN less(v, u) ELSE less(u, v)

(* Safety: a page of a table or of a join holds the rows it should: as     *)
(* many as are left from its offset up to its limit, each one of those the *)
(* filter keeps and none twice, in the order of the sort column's native   *)
(* type, and in their place (ties in any order); hasMore says whether some *)
(* are left after a join's page.                                           *)
PageIsRight ==
    Answered({"data", "join"}) =>
        LET all == Selected(req, db)
            n == Cardinality(all)
            rows == answer.body.rows
            page == Paging(req)
            left == IF n > page.offset THEN n - page.offset ELSE 0
            columns == answer.body.columns
            shows(choice, row) ==
                \A i \in DOMAIN columns :
                    row[columns[i].name] =
                        IF IsJoin(req)
                        THEN Cell(req, db, choice, columns[i].join, columns[i].column.name)
                        ELSE Cell(req, db, choice, 0, columns[i].name)
        IN /\ Len(rows) = Min({left, page.limit})
           /\ \E choice \in [DOMAIN rows -> all] :
                /\ IsInjective(choice)
                /\ \A i \in DOMAIN rows :
                    LET before == {c \in all : Before(req, db, c, choice[i])}
                        after == {c \in all : Before(req, db, choice[i], c)}
                    IN /\ shows(choice[i], rows[i])
                       /\ Cardinality(before) < page.offset + i
                       /\ Cardinality(after) <= n - (page.offset + i)
           /\ IsJoin(req) => answer.body.hasMore = (left > page.limit)

(* Safety: the labels of a join's columns tell all of them apart, so that  *)
(* no value is lost in a row, which is an object keyed by label; a column  *)
(* whose name no other has keeps it; and the columns are those asked for.  *)
LabelsTellColumnsApart ==
    Answered({"join"}) =>
        LET columns == answer.body.columns
            wanted == req.join.columns
            whole(p) == Cardinality(UNION {ColumnNames(x) :
                            x \in Relations(db, SchemaAsked(req, db), TablesOf(req)[p])})
        IN /\ IsInjective([i \in DOMAIN columns |-> columns[i].name])
           /\ \A i \in DOMAIN columns :
                \/ columns[i].name = columns[i].column.name
                \/ \E j \in DOMAIN columns \ {i} : columns[j].column.name = columns[i].column.name
           /\ IsInjective([i \in DOMAIN columns |-> <<columns[i].join, columns[i].column.name>>])
           /\ IF wanted # None
              THEN [i \in DOMAIN columns |-> <<columns[i].join, columns[i].column.name>>] = wanted
              ELSE Len(columns) = FoldLeft(+, 0, [p \in DOMAIN TablesOf(req) |-> whole(p)])

-----------------------------------------------------------------------------
(* Keys, structure and lists.                                              *)

SameTable(d, s, t, s2, t2) == s = s2 /\ IF d.engine = "sqlite" THEN Fold[t] = Fold[t2] ELSE t = t2
(* The columns a key pairs, SQLite's implicit ones made explicit.          *)
Pairing(d, k) ==
    LET pk == (CHOOSE x \in Relations(d, k.toSchema, k.toTable) : TRUE).pk
    IN [i \in DOMAIN k.pairs |->
            [from |-> k.pairs[i].from,
             to |-> IF k.pairs[i].to = None THEN pk[i] ELSE k.pairs[i].to]]
Short(schema, s) == IF schema = s THEN None ELSE schema

(* What m, a column of table t as it is reported, tells of its keys.       *)
KeyTold(d, s, t, m) ==
    LET x == CHOOSE y \in TablesAt(d, s, t) : TRUE
        single == {k \in d.keys : /\ SameTable(d, s, x.name, k.schema, k.table)
                                  /\ Len(k.pairs) = 1 /\ k.pairs[1].from = m.name}
        targets == {[schema |-> Short(k.toSchema, s), table |-> k.toTable,
                     column |-> Pairing(d, k)[1].to] : k \in single}
    IN /\ (m.key = "pk") = (m.name \in ToSet(x.pk))
       /\ (m.key = "fk") = (single # {} /\ m.name \notin ToSet(x.pk))
       /\ IF single = {} THEN m.references = None ELSE m.references \in targets

(* Safety: of every column an answer reports, and only of those, it tells  *)
(* that it is in the primary key, and the one column that a foreign key of *)
(* it alone references; composite keys are left out (key_metadata of each  *)
(* backend, with the tables owned by the role).                            *)
KeysAreTold ==
    Answered({"data", "join"}) =>
        LET s == SchemaAsked(req, db)
            columns == answer.body.columns
        IN \A i \in DOMAIN columns :
            IF IsJoin(req) THEN KeyTold(db, s, columns[i].table, columns[i].column)
            ELSE KeyTold(db, s, req.table, columns[i])

(* What a role is told of keys: in Postgres those of the tables it owns,   *)
(* to those it owns, by names that no two of a schema share; and in        *)
(* SQLite, a key that names no column is of a table with a primary key.    *)
InSight(d) ==
    /\ d.engine = "postgres" =>
        /\ \A x \in d.tables : Serves(d, x) =>
            /\ x.owned
            /\ \A k \in KeysOf(d, x.schema, x.name) :
                \E y \in TablesAt(d, k.toSchema, k.toTable) : y.owned
        /\ \A k, l \in d.keys : k.schema = l.schema /\ k.name = l.name => k = l
        /\ \A x, y \in d.tables :
            x.schema = y.schema /\ x.pkName = y.pkName /\ x.pk # <<>> /\ y.pk # <<>> => x = y
        /\ \A x \in d.tables : \A k \in d.keys :
            x.schema = k.schema /\ x.pk # <<>> => x.pkName # k.name
    /\ d.engine = "sqlite" =>
        \A k \in d.keys :
            k.pairs[1].to = None => \E y \in Sq!Located(d, k.toTable) : 1 \in DOMAIN y.pk
KeysInSight == \A n \in ToSet(Sources) : InSight(Databases[n])

(* Documented: "references" is present whenever the column is a foreign    *)
(* key (spec/protocol.md:291).                                             *)
ReferencesArePresent ==
    Answered({"data"}) =>
        \A i \in DOMAIN answer.body.columns :
            LET c == answer.body.columns[i]
            IN (\E k \in KeysOf(db, SchemaAsked(req, db), req.table) :
                    IsSingle(k) /\ k.pairs[1].from = c.name)
                => c.references # None

(* Safety: the keys that point at a table are told once each, with all of  *)
(* their columns in their order, where their own table is served, and each *)
(* entry's table is then served: drilling in is not refused.  MySQL tells  *)
(* those of the schema asked only.                                         *)
ReferrersAreWhole ==
    Answered({"referrers"}) =>
        LET s == SchemaAsked(req, db)
            entries == answer.body
            told(e) == [schema |-> e.schema, table |-> e.table, columns |-> e.columns]
            there == {k \in db.keys :
                        /\ SameTable(db, s, req.table, k.toSchema, k.toTable)
                        /\ k.copy = "no" /\ Served(db, k.schema, k.table)
                        /\ Engine = "mysql" => k.schema = s}
        IN /\ Len(entries) = Cardinality(there)
           /\ \A k \in there :
                \E i \in DOMAIN entries :
                    told(entries[i]) = [schema |-> Short(k.schema, s), table |-> k.table,
                                        columns |-> Pairing(db, k)]
           /\ IsInjective([i \in DOMAIN entries |->
                            <<entries[i].schema, entries[i].table, entries[i].constraint>>])
           /\ \A i \in DOMAIN entries :
                LET from == IF entries[i].schema = None THEN s ELSE entries[i].schema
                IN SchemaListed(db, from) \/ Engine = "sqlite"

(* Safety: the structure of a table is told whole and once per definition: *)
(* an index with its key columns (an expression in its place) and, partial, *)
(* with its condition; the primary key; unique constraints; foreign keys   *)
(* with all their pairs; checks, but for SQLite's.                         *)
Once(entries, told) ==
    Len(entries) = Cardinality(told) /\ ToSet(entries) = told
StructureIsWhole ==
    Answered({"structure"}) =>
        LET s == SchemaAsked(req, db)
            x == CHOOSE y \in TablesAt(db, s, req.table) : TRUE
            body == answer.body
            keys == {k \in db.keys : /\ SameTable(db, s, x.name, k.schema, k.table)
                                     /\ k.copy # "here"}
            text(part) == CASE part.column # None -> part.column
                            [] Engine = "sqlite" -> "<expression>"
                            [] MariaDb -> ""
                            [] OTHER -> part.text
        IN /\ Once([i \in DOMAIN body.indexes |->
                    [body.indexes[i] EXCEPT !.unique = <<@, body.indexes[i].name>>]],
                   {[name |-> ix.name, unique |-> <<ix.unique, ix.name>>, predicate |-> ix.where,
                     columns |-> [i \in 1..ix.nkeys |-> text(ix.parts[i])]] : ix \in x.indexes})
           /\ {p.columns : p \in body.primary} = {x.pk} \ {<<>>}
           /\ Once([i \in DOMAIN body.unique |-> body.unique[i].name],
                   {ix.name : ix \in {y \in x.indexes : y.origin = "unique"}})
           /\ Len(body.foreign) = Cardinality(keys)
           /\ {<<f.table, f.schema, f.columns>> : f \in ToSet(body.foreign)}
                = {<<k.toTable, Short(k.toSchema, s), Pairing(db, k)>> : k \in keys}
           /\ Engine # "sqlite" => Once(body.check, {c.name : c \in x.checks})

(* The tables of a list are those the gate lets through, each once.        *)
ListTells(r, d, body) ==
    LET s == SchemaAsked(r, d)
        names == IF r.route = "tables" THEN body ELSE [i \in DOMAIN body |-> body[i][1]]
        gate(t) == CASE d.engine = "postgres" -> Pg!ReadableTableOid(d, s, t).ok
                     [] d.engine = "mysql" -> t \in My!AllowedTables(d, s)
                     [] d.engine = "sqlite" -> t \in Sq!AllowedTables(d)
    IN /\ ToSet(names) = {t \in ToSet(NameOrder) : gate(t)}
       /\ \A i, j \in DOMAIN names : i < j => Rank(names[i]) < Rank(names[j])

(* Safety: the lists offer what the other routes serve: a table is in the  *)
(* list of a schema exactly when the gate of its routes lets it through,   *)
(* once, and the counts are of the same tables.                            *)
ListedMeansServed ==
    Answered({"tables", "counts"}) => ListTells(req, db, answer.body)

-----------------------------------------------------------------------------
(* The routes that ask no database.                                        *)

(* What a response says of the host's siblings, and of the checks it made. *)
SiblingsTold(body, outcomes) ==
    LET valid == Host.instance # None /\ "" \notin {Host.instance.name, Host.instance.label}
        named(i) == <<Host.siblings[i].name, IF Host.siblings[i].label = "" THEN None
                                             ELSE Host.siblings[i].label>>
        self(i) == valid /\ named(i) = <<Host.instance.name, Host.instance.label>>
    IN /\ body.instance = IF valid THEN Host.instance ELSE None
       /\ Len(body.siblings) = Len(Host.siblings)
       /\ \A i \in DOMAIN Host.siblings :
            /\ <<body.siblings[i].name, body.siblings[i].label>> = named(i)
            /\ CASE self(i) -> body.siblings[i].healthy /\ i \notin DOMAIN outcomes
                 [] ~self(i) /\ Host.siblings[i].url ->
                        i \in DOMAIN outcomes /\ body.siblings[i].healthy = outcomes[i]
                 [] OTHER -> ~body.siblings[i].healthy
       /\ \A i \in DOMAIN Host.siblings :
            Cardinality({j \in DOMAIN body.warnings : body.warnings[j] = <<"shared", named(i)>>})
                = IF \E j \in DOMAIN Host.siblings \ {i} : named(j) = named(i) THEN 1 ELSE 0

(* Safety: the siblings are answered in the host's order, each with the    *)
(* outcome of its own check, in whatever order the checks end; the host    *)
(* itself is there, healthy and not asked over the network; one without an *)
(* origin is not healthy; and one instance is named by at most one warning *)
(* however often it is listed.                                             *)
SiblingsAnswered == Answered({"siblings"}) => SiblingsTold(answer.body, probes)

(* Safety: the page is compressed only for a client that accepts it: gzip, *)
(* or its old name, at a weight above zero, or everything when gzip is not *)
(* named.  Named twice, the later one counts.                              *)
EncodingIsAccepted ==
    Answered({"page"}) =>
        LET named(codings) == {i \in DOMAIN req.encodings : req.encodings[i].coding \in codings}
            weight(is) == req.encodings[Max(is)].q
            gzip == named({"gzip", "x-gzip"})
        IN answer.body =
            IF \/ gzip # {} /\ weight(gzip) > 0
               \/ gzip = {} /\ named({"*"}) # {} /\ weight(named({"*"})) > 0
            THEN "gzip" ELSE "identity"

(* Liveness: every request is answered, though another session holds the   *)
(* lock its rows wait for and never lets go of it: the engine, or SQLite's *)
(* busy timeout, ends the statement.                                       *)
EveryRequestIsAnswered == (req # None) ~> (answer # Pending)
=============================================================================
