------------------------------- MODULE Server -------------------------------
(***************************************************************************)
(* A request to the viewer's API from the query string to the answer: the  *)
(* routes of the adapters, the dispatch to a source and the handlers of    *)
(* the three backends.                                                     *)
(*                                                                         *)
(* A handler is a sequence of statements with code between them.  read     *)
(* holds the result of each one so far, under its kind and the table it is *)
(* about; which statement comes next is a matter of which results are      *)
(* there.  Each statement sees the database of its moment, and the         *)
(* database changes between them.  The code between two statements is part *)
(* of the step of the first.                                               *)
(*                                                                         *)
(* One request is followed at a time: handlers only read, and share only   *)
(* the variant a MySQL source found out, which an earlier request may have *)
(* done, and the connections of the pool, which SqlitePool is about.       *)
(***************************************************************************)
EXTENDS Wire

CONSTANTS
    Sources,    \* the registered sources, in order
    Databases,  \* Databases[s]: the database of source s at the start
    Requests,   \* what may be asked
    Edits,      \* what others may do to a table: [kind, schema, table, column]
    Budget      \* how many edits, locks and failures there are

Edited == {"drop", "drop column", "revoke"}

ASSUME SourcesAssumption == 1 \in DOMAIN Sources /\ ToSet(Sources) \subseteq DOMAIN Databases
ASSUME DatabasesAssumption ==
    \A s \in ToSet(Sources) :
        /\ "engine" \in DOMAIN Databases[s]
        /\ Databases[s].engine \in {"postgres", "mysql", "sqlite"}
(* A catalogue is finite and knows a relation by its name, which holds no  *)
(* NUL (SQLite whatever its case); MySQL and SQLite have none without a    *)
(* column, and SQLite denies nothing.                                      *)
ASSUME CatalogueAssumption ==
    \A s \in ToSet(Sources) :
        LET d == Databases[s]
        IN /\ {"fork", "tables", "schemas"} \subseteq DOMAIN d
           /\ IsFiniteSet(d.tables)
           /\ \A x, y \in d.tables :
                x.schema = y.schema /\ x.name = y.name => x = y
           /\ \A x \in d.tables :
                /\ {"schema", "name", "columns", "rows", "stats", "readable"} \subseteq DOMAIN x
                /\ x.name \in ToSet(NameOrder) \ NulNames
                /\ x.columns \in Seq(ToSet(x.columns))
                /\ d.engine # "postgres" => x.columns # <<>>
           /\ d.engine = "sqlite" =>
                /\ \A x, y \in d.tables : Fold[x.name] = Fold[y.name] => x = y
                /\ \A x \in d.tables : x.schema \in DOMAIN d.schemas /\ x.readable
                /\ \A n \in DOMAIN d.schemas : d.schemas[n].usage
(* Lists are sequences, those of a join as well.                           *)
ASSUME RequestsAssumption ==
    /\ None \notin Requests
    /\ \A r \in Requests :
        /\ r.filter \in {None, Blank, Oversize, Malformed} \/ r.filter \in Seq(ToSet(r.filter))
        /\ (r.route = "join" /\ r.join \notin {None, Oversize, Malformed}) =>
            /\ r.join.joins \in Seq(ToSet(r.join.joins))
            /\ \A i \in DOMAIN r.join.joins :
                    LET on == r.join.joins[i].on
                    IN on \in Seq(ToSet(on)) /\ \A j \in DOMAIN on : on[j].left[1] \in Nat
            /\ r.join.columns = None \/ r.join.columns \in Seq(ToSet(r.join.columns))
        /\ r.route = "page" =>
            /\ r.encodings \in Seq(ToSet(r.encodings))
            /\ \A i \in DOMAIN r.encodings : r.encodings[i].q \in Nat
(* What is absent is no position, no number and no order; a position       *)
(* counts from 0, and only a join takes any.                               *)
ASSUME PositionsAssumption ==
    /\ None \notin Nat \cup {Malformed, Huge}
    /\ \A r \in Requests :
        /\ r.sortJoin \in Nat \cup {None, Malformed}
        /\ r.route # "join" => r.sortJoin = None
        /\ \A desc \in BOOLEAN : NativeOrder(<<Position(r.sortJoin), r.sort>>, desc) # None
        /\ r.filter \notin {None, Blank, Oversize, Malformed} =>
            \A i \in DOMAIN r.filter : r.filter[i].join \in Nat \cup {None}
        /\ (r.route = "join" /\ r.join \notin {None, Oversize, Malformed} /\ r.join.columns # None) =>
            \A i \in DOMAIN r.join.columns : r.join.columns[i][1] \in Nat
(* A parameter is of its type once it is neither absent nor malformed.     *)
ASSUME ParametersAssumption ==
    /\ None \notin Int \cup {"asc", "desc", "OR"}
    /\ \A r \in Requests :
        /\ {r.limit, r.offset} \subseteq Int \cup {None, Huge, Malformed}
        /\ r.filter \notin {None, Blank, Oversize, Malformed} =>
            \A i \in DOMAIN r.filter :
                /\ r.filter[i].op \in Operators /\ r.filter[i].not \in BOOLEAN
                /\ r.filter[i].value \in ToSet(NameOrder) \cup {None}
(* What a catalogue says of a relation and no edit changes; a table names  *)
(* each of its columns once, and who may read a Postgres table has a       *)
(* privilege on it.                                                        *)
ASSUME RelationsAssumption ==
    \A s \in ToSet(Sources) :
        LET d == Databases[s]
        IN /\ "current" \in DOMAIN d
           /\ \A x \in d.tables :
                /\ {"oid", "kind", "listed", "checks"} \subseteq DOMAIN x
                /\ \A i, j \in DOMAIN x.columns : x.columns[i].name = x.columns[j].name => i = j
                /\ d.engine = "postgres" /\ x.readable => x.listed
(* A row has a value, or none, for each column of its table, and what a    *)
(* numeric column holds shows a number.  Only Postgres has values without  *)
(* an order or without =; a SQLite column that is declared to fold case is *)
(* left out.                                                               *)
ASSUME RowsAssumption ==
    /\ Null \notin ToSet(NameOrder)
    /\ \A s \in ToSet(Sources) : \A x \in Databases[s].tables :
        /\ x.rows \in Seq([ColumnNames(x) -> ToSet(NameOrder) \cup {Null}])
        /\ \A k \in ToSet(x.columns) :
            /\ k.native \in {"number", "text", "folded", "ordered", "none"}
            /\ k.native \in {"ordered", "none"} => Databases[s].engine = "postgres"
            /\ k.native = "folded" => Databases[s].engine # "sqlite"
        /\ \A k \in ToSet(x.columns) : \A i \in DOMAIN x.rows :
            (k.native = "number" /\ x.rows[i][k.name] # Null) =>
                NumberOf[x.rows[i][k.name]] \in 1..Len(NameOrder)
(* A key is of one table, pairs columns in an order and is known by its    *)
(* name among those of its table (SQLite's by its number); it names the    *)
(* columns it references, but for SQLite, whose keys stay in one schema.   *)
(* Postgres knows a relation by its oid, lists a column once in a key, and *)
(* is the only one to copy keys to partitions.                             *)
ASSUME KeysAssumption ==
    /\ None \notin {"pk", "fk"}
    /\ \A s \in ToSet(Sources) :
        LET d == Databases[s]
        IN /\ "keys" \in DOMAIN d /\ IsFiniteSet(d.keys)
           /\ \A x \in d.tables : {"pk", "pkName", "owned"} \subseteq DOMAIN x
           /\ \A k \in d.keys :
                /\ k.pairs \in Seq(ToSet(k.pairs)) /\ k.pairs # <<>>
                /\ k.schema # None /\ k.toSchema # None
                /\ {k.schema, k.table} \subseteq ToSet(NameOrder)
                /\ IF d.engine = "sqlite"
                   THEN k.id \in Nat /\ k.schema = "main" /\ k.toSchema = "main"
                   ELSE k.name \in ToSet(NameOrder) /\ \A i \in DOMAIN k.pairs : k.pairs[i].to # None
                /\ d.engine # "postgres" => k.copy = "no"
                /\ d.engine = "postgres" => \A i, j \in DOMAIN k.pairs :
                                                k.pairs[i].from = k.pairs[j].from => i = j
           /\ \A k, l \in d.keys :
                /\ k.schema = l.schema /\ k.table = l.table
                /\ IF d.engine = "sqlite" THEN k.id = l.id ELSE k.name = l.name
                => k = l
           /\ d.engine = "postgres" => \A x, y \in d.tables : x.oid = y.oid => x = y
ASSUME EditsAssumption == (\A edit \in Edits : edit.kind \in Edited) /\ Budget \in Nat

Pg == INSTANCE Postgres
My == INSTANCE Mysql
Sq == INSTANCE Sqlite

VARIABLES
    req,        \* the request, None between two
    db,         \* the database of its source
    variant,    \* what its source knows of its MySQL
    budget,     \* edits, locks and failures left
    locked,     \* another session holds the tables of the database
    read,       \* the results of its statements
    sql,        \* the SELECT of its rows, once it is built
    probes,     \* the health checks that have ended
    answer,     \* Pending until the response is made
    seen,       \* ghost: the databases there were since it was asked
    disturbed   \* ghost: an edit or a failure met it

vars == <<req, db, variant, budget, locked, read, sql, probes, answer, seen, disturbed>>

Engine == db.engine
By(pg, my, sq) ==
    CASE Engine = "postgres" -> pg
      [] Engine = "mysql" -> my
      [] Engine = "sqlite" -> sq

-----------------------------------------------------------------------------
(* What a handler makes of the results it has: known is read, or read with *)
(* the result that just came in.                                           *)
Has(known, kind, t) == <<kind, t>> \in DOMAIN known
Asks(routes) == req.route \in routes
MariaDb == Engine = "mysql" /\ variant = "mariadb"

(* The tables a request names, in the order they are looked up; the code   *)
(* looks each name up once.                                                *)
Tables ==
    IF Asks({"join"}) THEN TableNames(req.join)
    ELSE IF Asks({"data", "values", "referrers", "structure"}) THEN <<req.table>> ELSE <<>>

Resolved(known) ==
    \/ Engine = "sqlite"
    \/ /\ Has(known, "schemas", None)
       /\ req.schema # None \/ Has(known, "default", None)
SchemaOf(known) ==
    CASE Engine = "sqlite" -> Sq!OnlySchema
      [] Engine # "sqlite" /\ req.schema # None -> req.schema
      [] OTHER -> known[<<"default", None>>]

(* A table whose metadata is complete, and the one that is looked up next. *)
Described(known, t) == Has(known, "keys", t) /\ (MariaDb => Has(known, "json", t))
Open(known) == {i \in DOMAIN Tables : ~Described(known, Tables[i])}
Current(known) == IF Open(known) = {} THEN None ELSE Tables[Min(Open(known))]
Cleared(known, t) ==
    IF Engine = "postgres" THEN Has(known, "gate", t) ELSE Has(known, "tables", None)

(* The columns of a table as its three or four statements describe them.   *)
ColumnClassOf(known, t, c) ==
    By(Pg!ColumnClass(c.type),
       My!MetaClass(c, IF MariaDb THEN known[<<"json", t>>] ELSE {}),
       Sq!ColumnClass(c.type))
TableMeta(known, t) ==
    LET columns == known[<<"columns", t>>]
        keys == known[<<"keys", t>>]
    IN [name |-> t,
        columns |-> [i \in DOMAIN columns |->
            ColMeta(columns[i], ColumnClassOf(known, t, columns[i]), keys.pk, keys.references)]]

Keyword(op) == By(Pg!Keyword(op), My!Keyword(op), Sq!Keyword(op))

(* The SELECT of GET /api/tables/data.                                     *)
Names(columns) == [i \in DOMAIN columns |-> columns[i].name]
Where(filter, columns) ==
    By(Pg!Where(filter, columns), My!Where(filter, columns), Sq!Where(filter, columns))
QueryTable(schema, names, opts, where) ==
    IF opts.sort # None /\ opts.sort \notin ToSet(names) THEN Err("unknown_column")
    ELSE AndThen(where, Ok(
        [schema |-> schema, bare |-> TRUE, tables |-> <<req.table>>,
         kinds |-> <<>>, ons |-> <<>>, onText |-> FALSE,
         list |-> [i \in DOMAIN names |-> <<0, names[i]>>],
         where |-> where.val,
         sort |-> IF opts.sort = None THEN None
                  ELSE NativeOrder(<<0, opts.sort>>, opts.descending),
         limit |-> opts.page.limit, offset |-> opts.page.offset]))
TableSelect(known) ==
    LET opts == QueryOpts(req).val
        names == Names(TableMeta(known, req.table).columns)
        filter == IF opts.filter = None THEN <<>> ELSE opts.filter
    IN QueryTable(SchemaOf(known), names, opts, Where(filter, ToSet(names)))

(* The SELECT of GET /api/tables/join: a row more than the page shows.     *)
JoinPlan(known) ==
    Plan(req.join, [p \in DOMAIN Tables |-> TableMeta(known, Tables[p])], JoinRequest(req).val)
QueryJoin(schema, plan, page) ==
    AndThen(plan, Ok(BuildSelect(plan.val, schema, Keyword, page.limit + 1, page.offset)))
JoinSelect(known) == QueryJoin(SchemaOf(known), JoinPlan(known), Paging(req))

SelectOf(known) == IF Asks({"join"}) THEN JoinSelect(known) ELSE TableSelect(known)
Selects(known) ==
    Asks({"data", "join"}) /\ Resolved(known) /\ Open(known) = {}
        /\ ~Has(known, "select", None)

-----------------------------------------------------------------------------
(* The verdict of the code between two statements.                         *)
SchemaFault(known) ==
    IF Engine # "sqlite" /\ ~Asks({"schemas"}) /\ Resolved(known)
    THEN ResolveSchema(known[<<"schemas", None>>], SchemaOf(known))
    ELSE Ok(None)

(* A miss in a join is a fault of the join value.                          *)
Missed(known, t) ==
    /\ Cleared(known, t)
    /\ IF Engine = "postgres" THEN ~known[<<"gate", t>>].ok ELSE t \notin known[<<"tables", None>>]
TableFault(known) ==
    IF Open(known) # {} /\ Missed(known, Current(known))
    THEN Err(IF Asks({"join"}) THEN UnknownJoinTable("unknown_table") ELSE "unknown_table")
    ELSE Ok(None)

NamesFault(known) ==
    IF Asks({"values"}) /\ Has(known, "names", req.table)
        /\ req.column \notin ToSet(known[<<"names", req.table>>])
    THEN Err("unknown_column") ELSE Ok(None)

(* ... which builds the SELECT when all that it needs is known.            *)
Verdict(known) ==
    AndThen(SchemaFault(known),
    AndThen(TableFault(known),
    AndThen(NamesFault(known),
            IF Selects(known) THEN SelectOf(known) ELSE Ok(None))))

(* row_to_json: a later label overwrites an equal earlier one.             *)
RowToJson(names, row) ==
    [n \in ToSet(names) |-> row[CHOOSE i \in DOMAIN names :
        names[i] = n /\ \A j \in DOMAIN names : names[j] = n => j <= i]]

TableData(columns, rows, total) ==
    [columns |-> columns,
     rows |-> [i \in DOMAIN rows |-> RowToJson(Names(columns), rows[i])],
     total |-> total]

JoinData(plan, rows, limit) ==
    [columns |-> PlanColumns(plan),
     rows |-> [i \in 1..Min({Len(rows), limit}) |-> RowToJson(plan.labels, rows[i])],
     hasMore |-> Len(rows) > limit]

Structure(known) ==
    LET t == req.table
        keys == known[<<"uniques", t>>]
        indexes == known[<<"indexes", t>>]
    IN [indexes |-> IF Engine = "sqlite" THEN Sq!Described(indexes, known[<<"sql", t>>]) ELSE indexes,
        primary |-> keys.primary,
        unique |-> IF Engine = "sqlite" THEN Sq!Uniques(indexes) ELSE keys.unique,
        foreign |-> known[<<"foreign", t>>],
        check |-> IF Has(known, "checks", t) THEN known[<<"checks", t>>] ELSE <<>>]

(* Whether the last statement of a route is done.                          *)
Complete(known) ==
    LET t == req.table IN
    CASE Asks({"schemas"}) -> Has(known, "default", None)
      [] Asks({"tables", "counts"}) -> Has(known, "list", None)
      [] Asks({"data"}) -> Has(known, IF Engine = "sqlite" THEN "select" ELSE "estimate", None)
      [] Asks({"join"}) -> Has(known, "select", None)
      [] Asks({"values"}) -> Has(known, IF Engine = "postgres" THEN "type" ELSE "names", t)
      [] Asks({"referrers"}) -> Has(known, "referrers", t)
      [] Asks({"structure"}) ->
            /\ Has(known, "foreign", t)
            /\ By(Has(known, "checks", t),
                  Has(known, "view", t) /\ (known[<<"view", t>>] => Has(known, "checks", t)),
                  TRUE)

Body(known) ==
    LET t == req.table
        listed == known[<<"list", None>>]
    IN
    CASE Asks({"schemas"}) -> SchemaListing(known[<<"schemas", None>>], known[<<"default", None>>])
      [] Asks({"tables", "counts"}) -> listed
      [] Asks({"data"}) ->
            TableData(TableMeta(known, t).columns, known[<<"select", None>>],
                      IF Engine = "sqlite" THEN -1 ELSE known[<<"estimate", None>>])
      [] Asks({"join"}) -> JoinData(JoinPlan(known).val, known[<<"select", None>>], Paging(req).limit)
      [] Asks({"values"}) ->
            IF Engine = "postgres" THEN Pg!Normalise(known[<<"stats", t>>], known[<<"type", t>>])
            ELSE <<>>
      [] Asks({"referrers"}) -> known[<<"referrers", t>>]
      [] Asks({"structure"}) -> Structure(known)

Pending == [status |-> 0]
Success(body) == [status |-> 200, body |-> body]

-----------------------------------------------------------------------------
(* A request arrives.                                                      *)

(* What is refused, or answered, before any statement runs.                *)
Standalone == {"sources", "siblings", "page"}
IsSqlite(r) == Databases[ResolveSource(Sources, r.source).val].engine = "sqlite"
EarlyFault(r) ==
    IF r.route \in Standalone THEN Ok(None)
    ELSE AndThen(Extract(r),
         AndThen(ResolveSource(Sources, r.source),
         AndThen(CASE r.route = "data" -> QueryOpts(r)
                   [] r.route = "join" -> JoinRequest(r)
                   [] OTHER -> Ok(None),
                 IF r.route # "schemas" /\ IsSqlite(r) THEN Sq!CheckSchema(r.schema) ELSE Ok(None))))
EarlyAnswer(r) ==
    CASE r.route = "sources" -> Success([sources |-> Sources, default |-> Sources[1]])
      [] r.route = "page" -> Success(PageEncoding(r.encodings))
      [] r.route = "siblings" /\ Checked = {} -> Success(SiblingsResponse(<<>>))
      [] r.route = "schemas" /\ IsSqlite(r) ->
            Success(SchemaListing({Sq!OnlySchema}, Sq!OnlySchema))
      [] OTHER -> Pending

Ask(r) ==
    /\ req = None
    /\ req' = r
    /\ answer' = IF EarlyFault(r).ok THEN EarlyAnswer(r) ELSE Problem(EarlyFault(r).code)
    /\ LET source == ResolveSource(Sources, r.source)
       IN IF source.ok
          THEN /\ db' = Databases[source.val]
               /\ variant' \in {None} \cup
                    (IF db'.engine = "mysql" THEN {My!Variant(db')} ELSE {})
               /\ seen' = {db'}
          ELSE UNCHANGED <<db, variant, seen>>
    /\ UNCHANGED <<budget, locked, read, sql, probes, disturbed>>

-----------------------------------------------------------------------------
(* The statements.                                                         *)

Runs == req # None /\ answer = Pending /\ ~Asks(Standalone)
Knows == Engine = "mysql" => variant # None
(* A lock on tables holds up what reads them; in SQLite, every statement.  *)
Free(kind) == locked => kind # "select" /\ Engine # "sqlite"

Statement(kind, t) == Runs /\ Knows /\ Free(kind) /\ ~Has(read, kind, t)

(* The result comes in, and the handler runs on to its next statement.     *)
Proceed(known, verdict) ==
    /\ read' = known
    /\ sql' = IF verdict.ok /\ Selects(known) THEN verdict.val ELSE sql
    /\ answer' = CASE ~verdict.ok -> Problem(verdict.code)
                   [] verdict.ok /\ Complete(known) -> Success(Body(known))
                   [] OTHER -> Pending
    /\ UNCHANGED <<db, variant, budget, locked, req, probes, seen, disturbed>>
Learn(kind, t, value) ==
    LET known == [k \in DOMAIN read \cup {<<kind, t>>} |->
                    IF k = <<kind, t>> THEN value ELSE read[k]]
    IN Proceed(known, Verdict(known))

Refuse(code) ==
    /\ answer' = Problem(code)
    /\ UNCHANGED <<db, variant, budget, locked, req, read, sql, probes, seen>>

Version ==
    /\ Runs /\ ~Knows
    /\ variant' = My!Variant(db)
    /\ UNCHANGED <<db, budget, locked, req, read, sql, probes, answer, seen, disturbed>>

ListSchemas ==
    /\ Statement("schemas", None) /\ Engine # "sqlite"
    /\ Learn("schemas", None, By(Pg!ListSchemas(db), My!ListSchemas(db), {}))

DefaultSchema ==
    /\ Statement("default", None)
    /\ Has(read, "schemas", None) /\ (Asks({"schemas"}) \/ req.schema = None)
    /\ Learn("default", None, By(Pg!DefaultSchema(db), My!DefaultSchema(db), None))

InSchema == Resolved(read) /\ ~Asks({"schemas"})
Schema == SchemaOf(read)

ListTables ==
    /\ Statement("list", None) /\ InSchema /\ Asks({"tables"})
    /\ Learn("list", None, By(Pg!ListTables(db, Schema), My!ListTables(db, Schema),
                              Sq!ListTables(db)))
TableCounts ==
    /\ Statement("list", None) /\ InSchema /\ Asks({"counts"})
    /\ Learn("list", None, By(Pg!TableCounts(db, Schema), My!TableCounts(db, Schema),
                              Sq!TableCounts(Sq!ListTables(db))))

(* The tables that may be asked for: one lookup each, or one list.         *)
ReadableTable(t) ==
    /\ Statement("gate", t) /\ InSchema /\ Engine = "postgres" /\ t = Current(read)
    /\ Learn("gate", t, Pg!ReadableTableOid(db, Schema, t))
AllowedTables ==
    /\ Statement("tables", None) /\ InSchema /\ Engine # "postgres" /\ Tables # <<>>
    /\ Learn("tables", None, By({}, My!AllowedTables(db, Schema), Sq!AllowedTables(db)))

Cleared1(t) == InSchema /\ t = Current(read) /\ Cleared(read, t)

(* The metadata of a table.                                                *)
ReadColumns(t) ==
    /\ Statement("columns", t) /\ Cleared1(t) /\ Asks({"data", "join"})
    /\ Learn("columns", t, By(Pg!TableColumns(db, Schema, t, read[<<"gate", t>>].val),
                              My!TableColumns(db, Schema, t), Sq!TableColumns(db, t)))
ReadPrimaryKey(t) ==
    /\ Statement("pk", t) /\ Cleared1(t) /\ Engine = "sqlite" /\ Has(read, "columns", t)
    /\ Learn("pk", t, Sq!PkColumns(db, t))
ReadKeys(t) ==
    /\ Statement("keys", t) /\ Cleared1(t) /\ Has(read, "columns", t)
    /\ Engine = "sqlite" => Has(read, "pk", t)
    /\ LET keys == By(Pg!KeyMetadata(db, Schema, t), My!KeyMetadata(db, Schema, t),
                      [pk |-> read[<<"pk", t>>], references |-> Sq!KeyReferences(db, t)])
       IN \E refs \in keys.references :
            Learn("keys", t, [pk |-> keys.pk, references |-> refs])
ReadJsonColumns(t) ==
    /\ Statement("json", t) /\ Cleared1(t) /\ MariaDb /\ Has(read, "keys", t)
    /\ Learn("json", t, My!MariadbJsonColumns(db, Schema, t))

SelectError(error) ==
    By(Pg!MapSelectDenied(error, req.sort # None), My!MapSelectDenied(error), "database_error")
Select ==
    /\ Statement("select", None) /\ sql # None
    /\ \E result \in Outcomes(db, sql) :
          IF result.ok THEN Learn("select", None, result.val)
          ELSE Refuse(SelectError(result.code)) /\ UNCHANGED disturbed
EstimateRows ==
    /\ Statement("estimate", None) /\ Asks({"data"}) /\ Has(read, "select", None)
    /\ \E total \in By(Pg!Estimate(db, Schema, req.table), My!Estimate(db, Schema, req.table), {}) :
            Learn("estimate", None, total)

ReadNames(t) ==
    /\ Statement("names", t) /\ Cleared1(t) /\ Asks({"values"})
    /\ Learn("names", t, By(Pg!AllowedColumns(db, Schema, t), My!AllowedColumns(db, Schema, t),
                            Sq!AllowedColumns(db, t)))
ReadStatistics(t) ==
    /\ Statement("stats", t) /\ Has(read, "names", t) /\ Engine = "postgres"
    /\ LET values == Pg!CommonValues(db, Schema, t, req.column)
       IN Learn("stats", t, IF values = {} THEN <<>> ELSE CHOOSE v \in values : TRUE)
ReadType(t) ==
    /\ Statement("type", t) /\ Has(read, "stats", t)
    /\ Learn("type", t, Pg!DataType(db, Schema, t, req.column))

ReadReferrers(t) ==
    /\ Statement("referrers", t) /\ Cleared1(t) /\ Asks({"referrers"})
    /\ Learn("referrers", t,
             By(Pg!ReferencedBy(db, Schema, read[<<"gate", t>>].val),
                My!ReferencedBy(db, Schema, t, read[<<"tables", None>>]),
                Sq!ReferencedBy(db, t)))

ReadIndexes(t) ==
    /\ Statement("indexes", t) /\ Cleared1(t) /\ Asks({"structure"})
    /\ Learn("indexes", t, By(Pg!Indexes(db, read[<<"gate", t>>].val),
                              My!Indexes(db, Schema, t, variant), Sq!Indexes(db, t)))
ReadIndexSql(t) ==
    /\ Statement("sql", t) /\ Engine = "sqlite" /\ Has(read, "indexes", t)
    /\ Learn("sql", t, Sq!IndexSql(db, t))
ReadUniques(t) ==
    /\ Statement("uniques", t) /\ Has(read, "indexes", t)
    /\ Engine = "sqlite" => Has(read, "sql", t)
    /\ Learn("uniques", t,
             LET oid == read[<<"gate", t>>].val
             IN By([primary |-> Pg!PrimaryKey(db, oid), unique |-> Pg!Uniques(db, oid)],
                   [primary |-> My!PrimaryKey(db, Schema, t), unique |-> My!Uniques(db, Schema, t)],
                   [primary |-> Sq!PrimaryKey(db, t)]))
ReadForeignKeys(t) ==
    /\ Statement("foreign", t) /\ Has(read, "uniques", t)
    /\ Learn("foreign", t, By(Pg!ForeignKeys(db, Schema, read[<<"gate", t>>].val),
                              My!ForeignKeys(db, Schema, t), Sq!ForeignKeys(db, t)))
ReadChecksView(t) ==
    /\ Statement("view", t) /\ Engine = "mysql" /\ Has(read, "foreign", t)
    /\ Learn("view", t, My!HasChecks(db))
ReadChecks(t) ==
    /\ Statement("checks", t) /\ Has(read, "foreign", t)
    /\ Engine = "mysql" => Has(read, "view", t)
    /\ Learn("checks", t, By(Pg!Checks(db, read[<<"gate", t>>].val),
                             My!Checks(db, Schema, t, variant), <<>>))

(* The engine ends a statement that ran for too long.  Zero is no bound    *)
(* for Postgres and MySQL, and SQLite's is over at once; nothing bounds    *)
(* the statement that asks for the version.                                *)

(* mutant: the statements on the catalogue have no timer *)
TimeoutOfRows == IF Asks({"data", "join"}) THEN QueryTimeoutSecs ELSE 0

TimeoutSecs ==
    IF Asks({"data", "join"}) /\ ~(Engine = "sqlite" /\ Asks({"data"}) /\ sql = None)
    THEN QueryTimeoutSecs ELSE CatalogTimeoutSecs
Bounded == Knows /\ (Engine = "sqlite" \/ TimeoutSecs > 0)
Expire ==
    /\ Runs /\ Bounded /\ ~(locked /\ Engine = "sqlite")
    /\ Refuse("query_timeout") /\ UNCHANGED disturbed
(* SQLite gives up on a lock after the connection's busy timeout.          *)
Busy ==
    /\ Runs /\ locked /\ Engine = "sqlite"
    /\ Refuse("database_error") /\ disturbed' = TRUE

(* The health checks run at once, and end in any order.                    *)
HealthCheck(i) ==
    /\ req # None /\ answer = Pending /\ Asks({"siblings"})
    /\ i \in Checked \ DOMAIN probes
    /\ \E healthy \in BOOLEAN :
        LET known == [j \in DOMAIN probes \cup {i} |-> IF j = i THEN healthy ELSE probes[j]]
        IN /\ probes' = known
           /\ answer' = IF DOMAIN known = Checked THEN Success(SiblingsResponse(known)) ELSE Pending
    /\ UNCHANGED <<db, variant, budget, locked, req, read, sql, seen, disturbed>>

-----------------------------------------------------------------------------
(* The world around the handler.                                           *)

Receive ==
    /\ answer # Pending
    /\ req' = None /\ db' = None /\ variant' = None /\ answer' = Pending
    /\ read' = <<>> /\ sql' = None /\ probes' = <<>> /\ seen' = {}
    /\ budget' = Budget /\ locked' = FALSE /\ disturbed' = FALSE

(* What another session does to a table, external to the repository: the   *)
(* table is dropped with the keys that need it, a column that no key and   *)
(* no index needs is dropped, or SELECT on the table is revoked.           *)
Altered(d, edit) == TablesAt(d, edit.schema, edit.table)
Needed(d, x) ==
    ToSet(x.pk)
    \cup UNION {{ix.parts[i].column : i \in DOMAIN ix.parts} : ix \in x.indexes}
    \cup UNION {{k.pairs[i].from : i \in DOMAIN k.pairs} : k \in KeysOf(d, x.schema, x.name)}
    \cup UNION {{k.pairs[i].to : i \in DOMAIN k.pairs} :
                k \in {y \in d.keys : y.toSchema = x.schema /\ y.toTable = x.name}}
Applies(d, edit) ==
    \E x \in Altered(d, edit) :
        CASE edit.kind = "drop" -> TRUE
          [] edit.kind = "drop column" -> edit.column \in ColumnNames(x) \ Needed(d, x)
          [] edit.kind = "revoke" -> d.engine # "sqlite" /\ x.readable
Without(x, c) ==
    LET kept(f) == [n \in DOMAIN f \ {c} |-> f[n]]
    IN [x EXCEPT !.columns = RemoveAt(@, CHOOSE i \in DOMAIN @ : @[i].name = c),
                 !.rows = [i \in DOMAIN @ |-> kept(@[i])],
                 !.stats = kept(@)]
Apply(d, edit) ==
    LET old == Altered(d, edit)
        gone(k) == \/ k.schema = edit.schema /\ k.table = edit.table
                   \/ d.engine # "sqlite" /\ k.toSchema = edit.schema /\ k.toTable = edit.table
        others == d.tables \ old
    IN CASE edit.kind = "drop" ->
                [d EXCEPT !.tables = others, !.keys = {k \in @ : ~gone(k)}]
         [] edit.kind = "drop column" ->
                [d EXCEPT !.tables = others \cup {Without(x, edit.column) : x \in old}]
         [] edit.kind = "revoke" ->
                [d EXCEPT !.tables = others \cup {[x EXCEPT !.readable = FALSE] : x \in old}]

(* Only what happens while a request runs matters to it.                   *)
Meddles == Runs /\ seen # {} /\ budget > 0 /\ budget' = budget - 1

(* The transaction of a SELECT that is done keeps its tables as they are.  *)
Alter(edit) ==
    /\ Meddles
    /\ Engine # "sqlite" => ~Has(read, "select", None)
    /\ ~locked
    /\ Applies(db, edit)
    /\ db' = Apply(db, edit)
    /\ seen' = seen \cup {db'}
    /\ disturbed' = TRUE
    /\ UNCHANGED <<variant, locked, req, read, sql, probes, answer>>
Lock ==
    /\ Meddles /\ ~locked
    /\ locked' = TRUE
    /\ UNCHANGED <<db, variant, req, read, sql, probes, answer, seen, disturbed>>
Unlock ==
    /\ locked /\ locked' = FALSE
    /\ UNCHANGED <<db, variant, budget, req, read, sql, probes, answer, seen, disturbed>>
(* The connection fails, or the server goes away.                          *)
Fail ==
    /\ Meddles
    /\ answer' = Problem("database_error") /\ disturbed' = TRUE
    /\ UNCHANGED <<db, variant, locked, req, read, sql, probes, seen>>

Init ==
    /\ req = None /\ db = None /\ variant = None /\ answer = Pending
    /\ read = <<>> /\ sql = None /\ probes = <<>> /\ seen = {}
    /\ budget = Budget /\ locked = FALSE /\ disturbed = FALSE

(* What the handler, its timers and its database do.                       *)
Handle ==
    \/ Version \/ ListSchemas \/ DefaultSchema \/ ListTables \/ TableCounts
    \/ AllowedTables \/ Select \/ EstimateRows \/ Expire \/ Busy
    \/ \E i \in Checked : HealthCheck(i)
    \/ \E t \in ToSet(NameOrder) :
        \/ ReadableTable(t) \/ ReadColumns(t) \/ ReadPrimaryKey(t) \/ ReadKeys(t)
        \/ ReadJsonColumns(t) \/ ReadNames(t) \/ ReadStatistics(t) \/ ReadType(t)
        \/ ReadReferrers(t) \/ ReadIndexes(t) \/ ReadIndexSql(t) \/ ReadUniques(t)
        \/ ReadForeignKeys(t) \/ ReadChecksView(t) \/ ReadChecks(t)
World ==
    \/ Receive \/ Lock \/ Unlock \/ Fail
    \/ \E r \in Requests : Ask(r)
    \/ \E edit \in Edits : Alter(edit)
Next == Handle \/ World

Spec == Init /\ [][Next]_vars
(* What answers a request for certain is the clock: an engine that is held *)
(* up, or never comes back with a result, is given up by the timer of the  *)
(* statement, and so is a sibling.  Only the engine's version has no timer. *)
FairSpec ==
    /\ Spec
    /\ WF_vars(Version)
    /\ WF_vars(Expire \/ Busy)
    /\ WF_vars(\E i \in Checked : HealthCheck(i))
=============================================================================
