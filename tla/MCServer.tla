------------------------------ MODULE MCServer ------------------------------
(* The server with one small database of each engine, and the requests     *)
(* that tell its rules apart.                                              *)
EXTENDS ServerProperties

MCNames ==
    <<"", "%", "-1", "0", "1", "10", "10.0", "2", "3", "A", "B", "PRIMARY",
      "a", "app", "b", "body", "docs", "esc", "f", "false", "id", "id_0",
      "id_1", "lines", "lines_id", "lines_pair", "lines_user", "low",
      "mail", "mail_0", "main", "mood", "notes", "notes_user", "nul",
      "ok", "open", "ops", "orders", "orders_pair", "orders_part",
      "orders_pkey", "orders_user", "part", "parts", "parts_1",
      "parts_1_user", "parts_here", "parts_user", "public", "score",
      "secret", "t", "tags", "true", "user_id", "users", "users_key",
      "users_pkey", "v", "x", "y", "z", "{}">>
MCFold == [n \in ToSet(MCNames) |-> CASE n = "A" -> "a" [] n = "B" -> "b" [] OTHER -> n]
MCNumberOf ==
    [v \in ToSet(MCNames) |->
        CASE v = "1" -> 1 [] v = "2" -> 2 [] v = "3" -> 3 [] v \in {"10", "10.0"} -> 10 [] OTHER -> 0]

Col(name, type, native) == [name |-> name, type |-> type, collation |-> None, native |-> native]
In(col, collation) == [col EXCEPT !.collation = collation]
Table(schema, name, oid, columns, rows) ==
    [schema |-> schema, name |-> name, oid |-> oid, kind |-> "base", listed |-> TRUE,
     readable |-> TRUE, owned |-> TRUE, columns |-> columns, pkName |-> None, pk |-> <<>>,
     indexes |-> {}, checks |-> {}, stats |-> [i \in {} |-> <<>>], rows |-> rows, estimate |-> 3]
Part(c) == [column |-> c, text |-> None]
Expr(text) == [column |-> None, text |-> text]
Index(name, parts, origin) ==
    [name |-> name, parts |-> parts, nkeys |-> Len(parts), unique |-> origin # "create",
     origin |-> origin, where |-> None, sql |-> <<>>]
Key1(name, id, schema, table, from, toTable, to) ==
    [name |-> name, id |-> id, schema |-> schema, table |-> table,
     pairs |-> <<[from |-> from, to |-> to]>>, toSchema |-> schema, toTable |-> toTable,
     copy |-> "no"]
Schema1(system, usage) == [system |-> system, usage |-> usage]

-----------------------------------------------------------------------------
(* Postgres: a second schema that refers to the first, one the role may    *)
(* not use, a partitioned table with a partition, keys of two columns and  *)
(* of one, a table that may not be read; a number spelled in two ways,     *)
(* text without its case, a domain over an enumeration.                    *)
PgT(data) == [data |-> data, udt |-> None, enum |-> FALSE]
PgInt(name) == Col(name, PgT("integer"), "number")
PgText(name) == Col(name, PgT("text"), "text")
PgMood(name, native) ==
    Col(name, [data |-> "USER-DEFINED", udt |-> "mood", enum |-> TRUE], native)
PgUsers ==
    [Table("public", "users", 1,
        <<PgInt("id"), In(PgText("mail"), "C"),
          PgMood("mood", "text"), Col("ok", PgT("boolean"), "text"), Col("docs", PgT("json"), "none")>>,
        <<[id |-> "10", mail |-> "a", mood |-> "x", ok |-> "true", docs |-> Null],
          [id |-> "2", mail |-> "A", mood |-> "y", ok |-> "false", docs |-> "{}"],
          [id |-> "1", mail |-> Null, mood |-> "x", ok |-> "true", docs |-> Null]>>)
     EXCEPT !.pkName = "users_pkey", !.pk = <<"id">>,
        !.stats = [c \in {"id", "mail", "mood", "ok", "docs"} |->
                    IF c = "ok" THEN <<"t", "f">> ELSE <<>>],
        !.checks = {[name |-> "open", column |-> None]},
        !.indexes = {Index("users_pkey", <<Part("id")>>, "primary"),
                     Index("users_key", <<Part("mail")>>, "unique"),
                     [Index("low", <<Expr("lower(mail)"), Part("mood"), Part("id")>>, "create")
                        EXCEPT !.nkeys = 2, !.where = "ok"]}]
PgOrders ==
    [Table("public", "orders", 2,
        <<PgInt("id"), Col("user_id", PgT("numeric"), "number"), In(PgText("mail"), "B"),
          PgInt("part")>>,
        <<[id |-> "1", user_id |-> "10", mail |-> "a", part |-> "1"],
          [id |-> "2", user_id |-> "10.0", mail |-> "b", part |-> Null],
          [id |-> "3", user_id |-> Null, mail |-> "a", part |-> Null]>>)
     EXCEPT !.pkName = "orders_pkey", !.pk = <<"id">>, !.estimate = -1,
        !.indexes = {Index("orders_pkey", <<Part("id")>>, "primary"),
                     Index("orders_pair", <<Part("id"), Part("user_id")>>, "unique")}]
PgLines ==
    Table("public", "lines", 3,
        <<PgInt("id"), PgInt("user_id"),
          Col("mail", [data |-> "USER-DEFINED", udt |-> "citext", enum |-> FALSE], "folded"),
          PgMood("tags", "ordered")>>,
        <<[id |-> "1", user_id |-> "10", mail |-> "a", tags |-> "x"],
          [id |-> "2", user_id |-> "2", mail |-> "A", tags |-> "y"]>>)
PgParts == [Table("public", "parts", 4, <<PgInt("id"), PgInt("user_id")>>, <<>>)
                EXCEPT !.kind = "partitioned", !.pkName = "x", !.pk = <<"id">>]
PgParts1 == [Table("public", "parts_1", 5, <<PgInt("id"), PgInt("user_id")>>,
                   <<[id |-> "1", user_id |-> "2"]>>)
                EXCEPT !.pkName = "y", !.pk = <<"id">>]
PgSecret == [Table("public", "secret", 6, <<PgInt("id"), PgInt("user_id")>>, <<>>)
                EXCEPT !.readable = FALSE]
PgView == [Table("public", "v", 7, <<PgInt("id")>>, <<>>) EXCEPT !.kind = "view"]
PgNotes == Table("ops", "notes", 8, <<PgInt("id"), PgInt("user_id")>>,
                 <<[id |-> "1", user_id |-> "1"]>>)
MCPg ==
    [engine |-> "postgres", fork |-> None, current |-> "public", checksView |-> TRUE,
     schemas |-> [s \in {"public", "ops", "app", "main"} |->
                    CASE s = "app" -> Schema1(FALSE, FALSE) [] s = "main" -> Schema1(TRUE, TRUE)
                      [] OTHER -> Schema1(FALSE, TRUE)],
     tables |-> {PgUsers, PgOrders, PgLines, PgParts, PgParts1, PgSecret, PgView, PgNotes},
     keys |-> {Key1("orders_user", 0, "public", "orders", "user_id", "users", "id"),
               Key1("orders_part", 0, "public", "orders", "part", "parts", "id"),
               [Key1("parts_here", 0, "public", "orders", "part", "parts_1", "id")
                    EXCEPT !.copy = "here"],
               [Key1("lines_pair", 0, "public", "lines", "id", "orders", "id") EXCEPT
                    !.pairs = <<[from |-> "id", to |-> "id"], [from |-> "user_id", to |-> "user_id"]>>],
               Key1("lines_user", 0, "public", "lines", "user_id", "users", "id"),
               Key1("lines_id", 0, "public", "lines", "id", "users", "id"),
               Key1("parts_user", 0, "public", "parts", "user_id", "users", "id"),
               [Key1("parts_1_user", 0, "public", "parts_1", "user_id", "users", "id")
                    EXCEPT !.copy = "parent"],
               Key1("v", 0, "public", "secret", "user_id", "users", "id"),
               [Key1("notes_user", 0, "ops", "notes", "user_id", "users", "id")
                    EXCEPT !.toSchema = "public"]}]

-----------------------------------------------------------------------------
(* MySQL: a partitioned table is served, one that may be listed but not    *)
(* read is; two columns of one enumeration differ in their collation;      *)
(* MariaDB: JSON is a check.                                               *)
MyT(data) == [data |-> data, full |-> data]
MyInt(name) == Col(name, MyT("int"), "number")
MyText(name, collation) ==
    In(Col(name, MyT("varchar"), IF collation = "bin" THEN "text" ELSE "folded"), collation)
MyMood(collation) ==
    In(Col("mood", [data |-> "enum", full |-> "enum(x,y)"], "folded"), collation)
MyUsers ==
    [Table("app", "users", 1,
        <<MyInt("id"), MyText("mail", "ci"),
          MyMood("ci"), Col("score", MyT("float"), "number")>>,
        <<[id |-> "10", mail |-> "a", mood |-> "x", score |-> "2"],
          [id |-> "2", mail |-> "B", mood |-> "y", score |-> Null],
          [id |-> "1", mail |-> "b", mood |-> "x", score |-> "1"]>>)
     EXCEPT !.pkName = "PRIMARY", !.pk = <<"id">>,
        !.checks = {[name |-> "open", column |-> None]},
        !.indexes = {Index("PRIMARY", <<Part("id")>>, "primary"),
                     Index("low", <<Expr("lower(mail)"), Part("mood")>>, "create")}]
MyOrders ==
    [Table("app", "orders", 2, <<MyInt("id"), MyInt("user_id"), MyText("mail", "bin")>>,
        <<[id |-> "1", user_id |-> "10", mail |-> "a"], [id |-> "2", user_id |-> "2", mail |-> "A"]>>)
     EXCEPT !.pkName = "PRIMARY", !.pk = <<"id", "user_id">>,
        !.indexes = {Index("PRIMARY", <<Part("id"), Part("user_id")>>, "primary"),
                     Index("orders_pair", <<Part("user_id"), Part("mail")>>, "unique")},
        !.estimate = Null]
MyParts == [Table("app", "parts", 5, <<MyInt("id"), MyMood("uca")>>, <<[id |-> "1", mood |-> "x"]>>)
                EXCEPT !.kind = "partitioned"]
MySecret == [Table("app", "secret", 3, <<MyInt("id")>>, <<>>) EXCEPT !.readable = FALSE]
MyHidden == [Table("app", "notes", 4, <<MyInt("id"), MyInt("user_id")>>, <<>>)
                EXCEPT !.readable = FALSE, !.listed = FALSE]
MySchemas == [s \in {"app", "main"} |-> Schema1(s = "main", TRUE)]
MCMy ==
    [engine |-> "mysql", fork |-> None, current |-> "app", checksView |-> TRUE,
     schemas |-> MySchemas, tables |-> {MyUsers, MyOrders, MyParts, MySecret, MyHidden},
     keys |-> {Key1("orders_user", 0, "app", "orders", "user_id", "users", "id"),
               Key1("notes_user", 0, "app", "notes", "user_id", "users", "id")}]

Json(name) == [name |-> name, column |-> name]
MariaTable(name, oid, rows) ==
    [Table("app", name, oid, <<MyInt("id"), In(Col("body", MyT("longtext"), "text"), "bin")>>, rows)
     EXCEPT !.checks = {Json("body"), [name |-> "open", column |-> None]}]
MCMaria ==
    [engine |-> "mysql", fork |-> "mariadb", current |-> "app", checksView |-> TRUE,
     schemas |-> MySchemas,
     tables |-> {MariaTable("docs", 1, <<[id |-> "1", body |-> "x"], [id |-> "2", body |-> Null]>>),
                 MariaTable("tags", 2, <<>>)},
     keys |-> {}]

-----------------------------------------------------------------------------
(* SQLite: names in either case, a key that names no column, an index on a *)
(* part of a table with its statement, a column of no type.                *)
SqT(base, has) == [base |-> base, has |-> has]
SqInt(name) == Col(name, SqT("INTEGER", {"INT"}), "number")
SqText(name) == Col(name, SqT("TEXT", {"TEXT"}), "text")
LiteUsers ==
    [Table("main", "users", 1, <<SqInt("id"), SqText("mail"), Col("id_1", SqT("", {}), "text")>>,
        <<[id |-> "10", mail |-> "a", id_1 |-> "a"], [id |-> "2", mail |-> Null, id_1 |-> Null],
          [id |-> "1", mail |-> "A", id_1 |-> "b"]>>)
     EXCEPT !.pk = <<"id">>,
        !.indexes = {Index("users_key", <<Part("mail")>>, "unique"),
                     [Index("low", <<Expr("lower(mail)")>>, "create") EXCEPT
                        !.where = <<"mail", "=", "'", "where", "'">>,
                        !.sql = <<"create", "(", "'", "where", ")", "'", "where", ")",
                                  "where", "mail", "=", "'", "where", "'">>]}]
LiteOrders ==
    [Table("main", "orders", 2, <<SqInt("id"), SqInt("user_id"), SqText("mail")>>,
        <<[id |-> "1", user_id |-> "10", mail |-> "a"], [id |-> "2", user_id |-> Null, mail |-> "b"]>>)
     EXCEPT !.pk = <<"user_id", "id">>]
LiteLines == Table("main", "lines", 3, <<SqInt("user_id"), SqInt("id")>>, <<>>)
LiteView == [Table("main", "v", 4, <<SqInt("id")>>, <<>>) EXCEPT !.kind = "view"]
LiteInternal == [Table("main", "secret", 5, <<SqInt("id")>>, <<>>) EXCEPT !.kind = "internal"]
MCLite ==
    [engine |-> "sqlite", fork |-> None, current |-> None, checksView |-> FALSE,
     schemas |-> [s \in {"main"} |-> Schema1(FALSE, TRUE)],
     tables |-> {LiteUsers, LiteOrders, LiteLines, LiteView, LiteInternal},
     keys |-> {Key1(None, 0, "main", "orders", "user_id", "users", None),
               [Key1(None, 0, "main", "lines", "user_id", "orders", None) EXCEPT
                    !.pairs = <<[from |-> "user_id", to |-> None], [from |-> "id", to |-> None]>>],
               Key1(None, 1, "main", "lines", "user_id", "users", "id")}]

(* A role that owns nothing and may only read.                             *)
MCReadOnlyPg == [MCPg EXCEPT !.tables = {[x EXCEPT !.owned = FALSE] : x \in @}]

MCSources == <<"pg", "my", "maria", "lite">>
MCReadOnly == [s \in {"pg"} |-> MCReadOnlyPg]
MCDatabases ==
    [s \in ToSet(MCSources) |->
        CASE s = "pg" -> MCPg [] s = "my" -> MCMy [] s = "maria" -> MCMaria [] s = "lite" -> MCLite]

(* Their keys are in sight of the role that asks.                          *)
ASSUME MCInSight == \A s \in ToSet(MCSources) : InSight(MCDatabases[s])

-----------------------------------------------------------------------------
(* The host: itself listed, its name with other labels and with an empty   *)
(* one, and a sibling listed three times, the last time with no origin.    *)
Sibling(name, label, url) == [name |-> name, label |-> label, url |-> url]
MCHost ==
    [instance |-> [name |-> "app", label |-> "a"],
     siblings |-> <<Sibling("app", "a", TRUE), Sibling("ops", "a", TRUE),
                    Sibling("ops", "a", TRUE), Sibling("app", "", TRUE), Sibling("app", "b", TRUE),
                    Sibling("ops", "a", FALSE)>>]

-----------------------------------------------------------------------------
(* The requests.                                                           *)
R(route, s) ==
    [route |-> route, source |-> s, schema |-> None, table |-> None, column |-> None,
     filter |-> None, limit |-> None, offset |-> None, sort |-> None, order |-> None,
     join |-> None, sortJoin |-> None, encodings |-> <<>>]
On(route, s, t) == [R(route, s) EXCEPT !.table = t]
Q(coding, q) == [coding |-> coding, q |-> q]
Encodings ==
    {<<>>, <<Q("br", 1000), Q("gzip", 1000)>>, <<Q("x-gzip", 500)>>, <<Q("*", 1)>>,
     <<Q("gzip", 0), Q("*", 1000)>>, <<Q("*", 1000), Q("gzip", 0), Q("x-gzip", 1)>>}
Apart ==
    {R("sources", None), R("siblings", None), R("data", None), R("join", None),
     On("values", None, "users"), R("schemas", "x"), On("data", "x", "users")}
    \cup {[R("page", None) EXCEPT !.encodings = e] : e \in Encodings}
Lists ==
    {[R(route, s) EXCEPT !.schema = schema] :
        route \in {"schemas", "tables", "counts"}, s \in ToSet(MCSources) \cup {None},
        schema \in {None, "ops", "main"}}
TablesAsked ==
    {<<"pg", t>> : t \in {"users", "orders", "lines", "parts", "parts_1", "secret"}}
    \cup {<<"my", t>> : t \in {"users", "orders", "parts", "secret", "notes"}}
    \cup {<<"maria", t>> : t \in {"docs", "tags"}}
    \cup {<<"lite", t>> : t \in {"users", "orders", "lines", "v", "secret"}}
TableRequests ==
    {On(route, a[1], a[2]) : route \in {"referrers", "structure"}, a \in TablesAsked}
    \cup {[On("values", a[1], a[2]) EXCEPT !.column = c] :
            a \in {<<"pg", "users">>, <<"my", "users">>, <<"lite", "users">>},
            c \in {"ok", "mail", "y"}}

Cond(logic, not, column, op, value) ==
    [logic |-> logic, not |-> not, column |-> column, op |-> op, value |-> value, join |-> None]
One(not, column, op, value) == <<Cond(None, not, column, op, value)>>
FiltersAsked ==
    {One(FALSE, "id", op, "10") : op \in {"=", "!=", "<", ">="}}
    \cup {One(not, "mail", op, "a") : not \in BOOLEAN, op \in {"=", "LIKE", "ILIKE", ">", "<="}}
    \cup {One(not, "mail", "IS NULL", None) : not \in BOOLEAN}
    \cup {One(FALSE, "mail", "IS NOT NULL", None), One(FALSE, "mail", "=", "nul"),
          One(FALSE, "mail", "=", None), One(FALSE, "y", "=", "a"),
          One(FALSE, "mail", "LIKE", "esc"), One(FALSE, "mail", "ILIKE", "esc"),
          <<Cond(None, FALSE, "id", "=", "1"), Cond("OR", TRUE, "mail", "IS NULL", None),
            Cond("AND", FALSE, "id", "=", "2")>>,
          <<Cond(None, FALSE, "id", "=", "2"), Cond("AND", FALSE, "mail", "IS NULL", None),
            Cond("OR", FALSE, "id", "=", "1")>>,
          [i \in 1..4 |-> Cond(IF i = 1 THEN None ELSE "OR", FALSE, "id", "=", "1")],
          <<Cond("OR", FALSE, "id", "=", "1")>>,
          <<[Cond(None, FALSE, "id", "=", "1") EXCEPT !.join = 0]>>,
          <<>>, Blank, Oversize, Malformed}
PagesAsked == {<<1, 0>>, <<2, 2>>, <<0, -1>>, <<3, 1>>, <<None, 10>>, <<Huge, 0>>, <<1, Malformed>>}
Data ==
    {On("data", a[1], a[2]) : a \in TablesAsked \cup {<<"pg", "nul">>, <<"pg", "v">>, <<"lite", "Users">>}}
    \cup {[On("data", "pg", "notes") EXCEPT !.schema = "ops"]}
    \cup {[On("data", s, "users") EXCEPT !.filter = f] : s \in {"pg", "my", "lite"}, f \in FiltersAsked}
    \cup {[On("data", s, "users") EXCEPT !.sort = c, !.order = o] :
            s \in {"pg", "my", "lite"}, c \in {"id", "mail", "docs"}, o \in {None, "desc", "up"}}
    \cup {[On("data", "pg", "users") EXCEPT !.limit = p[1], !.offset = p[2], !.sort = c] :
            p \in PagesAsked, c \in {None, "id"}}

Join2(kind, left, right, on) ==
    [table |-> left, joins |-> <<[kind |-> kind, table |-> right, on |-> on]>>, columns |-> None]
Eq(left, right) == [left |-> <<0, left>>, right |-> right]
UsersOrders == Join2("inner", "users", "orders", <<Eq("id", "user_id")>>)
OrdersUsers == Join2("left", "orders", "users", <<Eq("user_id", "id")>>)
UsersLines == Join2("inner", "users", "lines", <<Eq("mood", "tags")>>)
Third(left) == [kind |-> "left", table |-> "users", on |-> <<[left |-> left, right |-> "id"]>>]
JoinsAsked ==
    {UsersOrders, OrdersUsers,
     Join2("left", "users", "users", <<Eq("id", "id")>>),
     Join2("inner", "users", "orders", <<Eq("mail", "mail")>>),
     Join2("inner", "users", "lines", <<Eq("id", "user_id"), Eq("mail", "mail")>>),
     Join2("inner", "users", "orders", <<Eq("mood", "id")>>),
     Join2("inner", "users", "parts", <<Eq("mood", "mood")>>),
     Join2("inner", "lines", "lines", <<Eq("mail", "mail")>>),
     Join2("left", "users", "users", <<Eq("mail", "mail")>>), UsersLines,
     Join2("inner", "users", "users", <<Eq("docs", "docs")>>),
     Join2("inner", "users", "users", <<Eq("score", "score")>>),
     Join2("inner", "docs", "docs", <<Eq("body", "body")>>),
     Join2("left", "docs", "docs", <<Eq("id", "id")>>),
     Join2("left", "users", "secret", <<Eq("id", "id")>>),
     Join2("left", "users", "users", <<Eq("id_1", "id_1")>>),
     Join2("left", "users", "orders", <<>>),
     [UsersOrders EXCEPT !.joins = <<>>],
     [UsersOrders EXCEPT !.columns = <<>>],
     [UsersOrders EXCEPT !.columns = <<<<0, "id">>, <<0, "id">>>>],
     [UsersOrders EXCEPT !.columns = <<<<1, "id">>, <<0, "mail">>, <<0, "id">>>>],
     [UsersOrders EXCEPT !.columns = <<<<2, "id">>>>],
     [UsersOrders EXCEPT !.columns = <<<<1, "y">>>>],
     [UsersOrders EXCEPT !.joins = @ \o <<Third(<<1, "user_id">>)>>],
     [UsersOrders EXCEPT !.joins = @ \o <<Third(<<2, "id">>)>>],
     Oversize, Malformed}
Joins ==
    {[R("join", s) EXCEPT !.join = j] : s \in {"pg", "my", "maria", "lite"}, j \in JoinsAsked}
    \cup {[R("join", s) EXCEPT !.join = OrdersUsers, !.limit = p[1], !.offset = p[2],
                              !.sort = sort[2], !.sortJoin = sort[1], !.order = "desc"] :
            s \in {"pg", "lite"}, p \in {<<1, 0>>, <<1, 2>>, <<2, 1>>, <<2, 0>>},
            sort \in {<<None, None>>, <<None, "id">>, <<1, "id">>, <<2, "id">>, <<1, None>>,
                      <<1, "docs">>, <<Malformed, "id">>}}
    \cup {[R("join", s) EXCEPT !.join = OrdersUsers,
                !.filter = <<[Cond(None, FALSE, "mail", op, "a") EXCEPT !.join = p]>>] :
            s \in {"pg", "my"}, p \in {None, 1, 2}, op \in {"=", "ILIKE"}}
    \cup {[R("join", "pg") EXCEPT !.join = OrdersUsers, !.sort = "id", !.sortJoin = 2,
                !.filter = One(FALSE, "y", "=", "a")],
           [R("join", "pg") EXCEPT !.join = UsersLines, !.sort = "id", !.sortJoin = 1],
           [R("join", "lite") EXCEPT !.join = OrdersUsers,
                !.filter = <<Cond(None, FALSE, "y", "=", "a"),
                             [Cond("AND", FALSE, "id", "=", "1") EXCEPT !.join = 2]>>]}

MCRequests == Apart \cup Lists \cup TableRequests \cup Data \cup Joins

OneSource == <<"pg">>
MCReadOnlyRequests == {On("data", "pg", t) : t \in {"users", "orders", "lines"}}

(* What other sessions do.                                                 *)
Edit(kind, schema, table, column) ==
    [kind |-> kind, schema |-> schema, table |-> table, column |-> column]
MCEdits ==
    {Edit(kind, schema, "users", "mail") :
        kind \in {"drop", "revoke"}, schema \in {"public", "app", "main"}}
    \cup {Edit("drop column", schema, table, "mail") :
            schema \in {"public", "app", "main"}, table \in {"orders", "users"}}
=============================================================================
