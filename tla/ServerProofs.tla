---------------------------- MODULE ServerProofs ----------------------------
(***************************************************************************)
(* Proof that no name reaches a SELECT unlisted, whatever the databases,   *)
(* the requests and the edits of others are (IInv).  Then that the state   *)
(* of the server keeps its type, and what an engine may still refuse of    *)
(* what a handler asks of it when nobody interferes (AInv); that a list    *)
(* tells exactly the tables that may be asked for, in order, that the page *)
(* is compressed only for a client that accepts it, and that each sibling  *)
(* is answered with its own outcome.                                       *)
(***************************************************************************)
EXTENDS ServerProperties, TLAPS, WellFoundedInduction, FiniteSetTheorems

(* What some database there was since the request arrived has.             *)
SchemaSeen(s) == \E d \in seen : SchemaListed(d, s)
TableSeen(s, t) == \E d \in seen : Served(d, s, t)
ColumnSeen(s, t, c) == TableSeen(s, t) /\ \E d \in seen : HasColumn(d, s, t, c)

(* What the result value of a statement vouches for.                       *)
Vouches(known, kind, t, value) ==
    LET s == SchemaOf(known)
    IN /\ kind = "schemas" => \A x \in value : SchemaSeen(x)
       /\ kind \in {"gate", "tables", "columns"} => Resolved(known)
       /\ kind = "gate" /\ value.ok => TableSeen(s, t)
       /\ kind = "tables" => \A x \in value : TableSeen(s, x)
       /\ kind = "columns" =>
            TableSeen(s, t) /\ \A i \in DOMAIN value : ColumnSeen(s, t, value[i].name)
       /\ kind = "keys" => Has(known, "columns", t)
Told(known, k) == Vouches(known, k[1], k[2], known[k])

(* What is spliced into a SELECT.                                          *)
NamesSeen(q) ==
    /\ Engine # "sqlite" => SchemaSeen(q.schema)
    /\ \A i \in DOMAIN q.tables : TableSeen(q.schema, q.tables[i])
    /\ \A ref \in Qualified(q) \cup Listed(q) :
            ColumnSeen(q.schema, q.tables[ref[1] + 1], ref[2])

HasEngine(d) == "engine" \in DOMAIN d /\ d.engine \in {"postgres", "mysql", "sqlite"}

IdleInv == req = None => sql = None /\ read = <<>>
SeenInv ==
    /\ Runs => seen # {}
    /\ seen # {} => db \in seen
    /\ \A d \in seen : HasEngine(d) /\ d.engine = Engine
KnowledgeInv == \A k \in DOMAIN read : Told(read, k)
LookedInv == Runs => TableFault(read).ok
BlindInv == Runs /\ ~Knows => read = <<>>
SqlInv == sql # None => NamesSeen(sql)
JoinInv == Runs /\ Asks({"join"}) => req \in Requests /\ req.join # None /\ ParseJoin(req.join).ok

IInv == IdleInv /\ SeenInv /\ KnowledgeInv /\ LookedInv /\ BlindInv /\ JoinInv /\ SqlInv

-----------------------------------------------------------------------------
(* Results.                                                                *)

LEMMA AndThenOk ==
    ASSUME NEW a, NEW b, AndThen(a, b).ok
    PROVE  a.ok /\ AndThen(a, b) = b
BY DEF AndThen

LEMMA FirstErrorOk ==
    ASSUME NEW results, FirstError(results).ok
    PROVE  \A i \in DOMAIN results : results[i].ok
BY DEF FirstError, Err, Ok

LEMMA ProblemIsAnAnswer == \A code : Problem(code) # Pending
BY DEF Problem, Pending

-----------------------------------------------------------------------------
(* What is spliced into the SELECT.                                        *)

Vouched(known) == \A k \in DOMAIN known : Told(known, k)

LEMMA MetaColumn ==
    ASSUME NEW known, Vouched(known), NEW t, Has(known, "columns", t)
    PROVE  /\ TableMeta(known, t).name = t
           /\ TableSeen(SchemaOf(known), t)
           /\ \A i \in DOMAIN TableMeta(known, t).columns :
                ColumnSeen(SchemaOf(known), t, TableMeta(known, t).columns[i].name)
<1> DEFINE k == <<"columns", t>>
<1>1. Told(known, k) /\ k[1] = "columns" /\ k[2] = t
  BY DEF Vouched, Has
<1>2. /\ TableSeen(SchemaOf(known), t)
      /\ \A i \in DOMAIN known[k] : ColumnSeen(SchemaOf(known), t, known[k][i].name)
  BY <1>1 DEF Told, Vouches
<1>3. /\ TableMeta(known, t).name = t
      /\ DOMAIN TableMeta(known, t).columns = DOMAIN known[k]
      /\ \A i \in DOMAIN known[k] : TableMeta(known, t).columns[i].name = known[k][i].name
  BY DEF TableMeta, ColMeta
<1> QED
  BY <1>2, <1>3

LEMMA ColumnFound ==
    ASSUME NEW known, Vouched(known), NEW t, Has(known, "columns", t), NEW c,
           ColumnIndex(TableMeta(known, t), c).ok
    PROVE  ColumnSeen(SchemaOf(known), t, c)
<1>1. PICK i \in DOMAIN TableMeta(known, t).columns : TableMeta(known, t).columns[i].name = c
  BY DEF ColumnIndex, Err
<1> QED
  BY <1>1, MetaColumn

LEMMA JoinColumnFound ==
    ASSUME NEW known, Vouched(known), NEW t, Has(known, "columns", t), NEW c,
           JoinColumnIndex(TableMeta(known, t), c).ok
    PROVE  ColumnSeen(SchemaOf(known), t, c)
<1>1. ColumnIndex(TableMeta(known, t), c).ok
  BY DEF JoinColumnIndex, Err
<1> QED
  BY <1>1, ColumnFound

(* A WHERE clause on one table: its columns are those it was given.        *)
ColumnsFrom(where, columns) ==
    \A i \in DOMAIN where : where[i].column[1] = 0 /\ where[i].column[2] \in columns

(* The three backends build it alike, but for the spelling of operators.    *)
Check(filter, columns, i) ==
    CASE filter[i].column \notin columns -> Err("unknown_column")
      [] TakesValue(filter[i].op) /\ filter[i].value = None -> Err("invalid_filter")
      [] i > 1 /\ filter[i].logic = None -> Err("invalid_filter")
      [] OTHER -> Ok(None)
CheckAll(filter, columns) == [i \in DOMAIN filter |-> Check(filter, columns, i)]
Terms(filter) ==
    [i \in DOMAIN filter |->
        [logic |-> filter[i].logic, not |-> filter[i].not, column |-> <<0, filter[i].column>>,
         keyword |-> Keyword(filter[i].op), value |-> filter[i].value]]

LEMMA PgWhereIs ==
    ASSUME NEW filter, NEW columns, Engine = "postgres"
    PROVE  Where(filter, columns)
            = AndThen(FirstError(CheckAll(filter, columns)), Ok(Terms(filter)))
<1> DEFINE check(i) == CASE filter[i].column \notin columns -> Err("unknown_column")
                         [] TakesValue(filter[i].op) /\ filter[i].value = None -> Err("invalid_filter")
                         [] i > 1 /\ filter[i].logic = None -> Err("invalid_filter")
                         [] OTHER -> Ok(None)
           checks == [i \in DOMAIN filter |-> check(i)]
           terms == [i \in DOMAIN filter |->
                        [logic |-> filter[i].logic, not |-> filter[i].not,
                         column |-> <<0, filter[i].column>>,
                         keyword |-> Pg!Keyword(filter[i].op), value |-> filter[i].value]]
<1>1. Pg!Where(filter, columns) = AndThen(FirstError(checks), Ok(terms))
  BY DEF Pg!Where, Pg!Clause, Pg!FirstError, Pg!AndThen, Pg!Err, Pg!Ok, Pg!TakesValue,
         Pg!Min, FirstError, AndThen, Err, Ok, TakesValue, Min
<1>2. checks = CheckAll(filter, columns)
  BY DEF Check, CheckAll
<1>3. terms = Terms(filter)
  <2>1. \A op : Keyword(op) = Pg!Keyword(op)
    BY DEF Keyword, By
  <2> QED
    BY <2>1 DEF Terms
<1>4. Where(filter, columns) = Pg!Where(filter, columns)
  BY DEF Where, By
<1> HIDE DEF checks, terms
<1> QED
  BY <1>1, <1>2, <1>3, <1>4

LEMMA MyWhereIs ==
    ASSUME NEW filter, NEW columns, Engine = "mysql"
    PROVE  Where(filter, columns)
            = AndThen(FirstError(CheckAll(filter, columns)), Ok(Terms(filter)))
<1> DEFINE check(i) == CASE filter[i].column \notin columns -> Err("unknown_column")
                         [] TakesValue(filter[i].op) /\ filter[i].value = None -> Err("invalid_filter")
                         [] i > 1 /\ filter[i].logic = None -> Err("invalid_filter")
                         [] OTHER -> Ok(None)
           checks == [i \in DOMAIN filter |-> check(i)]
           terms == [i \in DOMAIN filter |->
                        [logic |-> filter[i].logic, not |-> filter[i].not,
                         column |-> <<0, filter[i].column>>,
                         keyword |-> My!Keyword(filter[i].op), value |-> filter[i].value]]
<1>1. My!Where(filter, columns) = AndThen(FirstError(checks), Ok(terms))
  BY DEF My!Where, My!Clause, My!FirstError, My!AndThen, My!Err, My!Ok, My!TakesValue,
         My!Min, FirstError, AndThen, Err, Ok, TakesValue, Min
<1>2. checks = CheckAll(filter, columns)
  BY DEF Check, CheckAll
<1>3. terms = Terms(filter)
  <2>1. \A op : Keyword(op) = My!Keyword(op)
    BY DEF Keyword, By
  <2> QED
    BY <2>1 DEF Terms
<1>4. Where(filter, columns) = My!Where(filter, columns)
  BY DEF Where, By
<1> HIDE DEF checks, terms
<1> QED
  BY <1>1, <1>2, <1>3, <1>4

LEMMA SqWhereIs ==
    ASSUME NEW filter, NEW columns, Engine = "sqlite"
    PROVE  Where(filter, columns)
            = AndThen(FirstError(CheckAll(filter, columns)), Ok(Terms(filter)))
<1> DEFINE check(i) == CASE filter[i].column \notin columns -> Err("unknown_column")
                         [] TakesValue(filter[i].op) /\ filter[i].value = None -> Err("invalid_filter")
                         [] i > 1 /\ filter[i].logic = None -> Err("invalid_filter")
                         [] OTHER -> Ok(None)
           checks == [i \in DOMAIN filter |-> check(i)]
           terms == [i \in DOMAIN filter |->
                        [logic |-> filter[i].logic, not |-> filter[i].not,
                         column |-> <<0, filter[i].column>>,
                         keyword |-> Sq!Keyword(filter[i].op), value |-> filter[i].value]]
<1>1. Sq!Where(filter, columns) = AndThen(FirstError(checks), Ok(terms))
  BY DEF Sq!Where, Sq!Clause, Sq!FirstError, Sq!AndThen, Sq!Err, Sq!Ok, Sq!TakesValue,
         Sq!Min, FirstError, AndThen, Err, Ok, TakesValue, Min
<1>2. checks = CheckAll(filter, columns)
  BY DEF Check, CheckAll
<1>3. terms = Terms(filter)
  <2>1. \A op : Keyword(op) = Sq!Keyword(op)
    BY DEF Keyword, By
  <2> QED
    BY <2>1 DEF Terms
<1>4. Where(filter, columns) = Sq!Where(filter, columns)
  BY DEF Where, By
<1> HIDE DEF checks, terms
<1> QED
  BY <1>1, <1>2, <1>3, <1>4

LEMMA WhereIs ==
    ASSUME NEW filter, NEW columns, HasEngine(db)
    PROVE  Where(filter, columns)
            = AndThen(FirstError(CheckAll(filter, columns)), Ok(Terms(filter)))
BY PgWhereIs, MyWhereIs, SqWhereIs DEF HasEngine, Engine

LEMMA WhereColumns ==
    ASSUME NEW filter, NEW columns, Where(filter, columns).ok, HasEngine(db)
    PROVE  ColumnsFrom(Where(filter, columns).val, columns)
<1>1. FirstError(CheckAll(filter, columns)).ok /\ Where(filter, columns) = Ok(Terms(filter))
  BY WhereIs, AndThenOk
<1>2. \A i \in DOMAIN filter : Check(filter, columns, i).ok
  BY <1>1, FirstErrorOk DEF CheckAll
<1>3. \A i \in DOMAIN filter : filter[i].column \in columns
  BY <1>2 DEF Check, Err
<1> QED
  BY <1>1, <1>3 DEF ColumnsFrom, Ok, Terms

(* The SELECT on one table, where nothing is wrong with the request.       *)
LEMMA QueryTableIs ==
    ASSUME NEW schema, NEW names, NEW opts, NEW where,
           QueryTable(schema, names, opts, where).ok
    PROVE  /\ where.ok /\ (opts.sort = None \/ opts.sort \in ToSet(names))
           /\ QueryTable(schema, names, opts, where).val =
                [schema |-> schema, bare |-> TRUE, tables |-> <<req.table>>,
                 kinds |-> <<>>, ons |-> <<>>, onText |-> FALSE,
                 list |-> [i \in DOMAIN names |-> <<0, names[i]>>],
                 where |-> where.val,
                 sort |-> IF opts.sort = None THEN None
                          ELSE NativeOrder(<<0, opts.sort>>, opts.descending),
                 limit |-> opts.page.limit, offset |-> opts.page.offset]
<1> DEFINE q == QueryTable(schema, names, opts, where)
           select(order) ==
                [schema |-> schema, bare |-> TRUE, tables |-> <<req.table>>,
                 kinds |-> <<>>, ons |-> <<>>, onText |-> FALSE,
                 list |-> [i \in DOMAIN names |-> <<0, names[i]>>],
                 where |-> where.val, sort |-> order,
                 limit |-> opts.page.limit, offset |-> opts.page.offset]
           order == IF opts.sort = None THEN None
                    ELSE NativeOrder(<<0, opts.sort>>, opts.descending)
<1>1. q = IF opts.sort # None /\ opts.sort \notin ToSet(names) THEN Err("unknown_column")
          ELSE AndThen(where, Ok(select(order)))
  BY DEF QueryTable
<1> HIDE DEF select, order, q
<1>2. opts.sort = None \/ opts.sort \in ToSet(names)
  BY <1>1 DEF Err, q
<1>3. q = AndThen(where, Ok(select(order)))
  BY <1>1, <1>2
<1>4. where.ok /\ q = Ok(select(order))
  BY <1>3, AndThenOk DEF q
<1> QED
  BY <1>2, <1>4 DEF Ok, q, select, order

LEMMA TableSplice ==
    ASSUME NEW known, Vouched(known), HasEngine(db), Has(known, "columns", req.table),
           Engine # "sqlite" => SchemaSeen(SchemaOf(known)), TableSelect(known).ok
    PROVE  NamesSeen(TableSelect(known).val)
<1> DEFINE s == SchemaOf(known)
           opts == QueryOpts(req).val
           names == Names(TableMeta(known, req.table).columns)
           filter == IF opts.filter = None THEN <<>> ELSE opts.filter
           where == Where(filter, ToSet(names))
           q == TableSelect(known).val
<1>1. TableSelect(known) = QueryTable(s, names, opts, where)
  BY DEF TableSelect
<1>2. /\ TableSeen(s, req.table)
      /\ \A c \in ToSet(names) : ColumnSeen(s, req.table, c)
  <2> DEFINE columns == TableMeta(known, req.table).columns
  <2>1. TableSeen(s, req.table) /\ \A i \in DOMAIN columns : ColumnSeen(s, req.table, columns[i].name)
    BY MetaColumn
  <2> HIDE DEF columns
  <2>2. \A c \in ToSet(Names(columns)) : \E i \in DOMAIN columns : c = columns[i].name
    BY DEF Names, ToSet
  <2> QED
    BY <2>1, <2>2 DEF columns
<1> HIDE DEF names, opts, filter, where, s, q
<1>3. where.ok /\ (opts.sort = None \/ opts.sort \in ToSet(names))
  <2>1. QueryTable(s, names, opts, where).ok
    BY <1>1
  <2> QED
    BY <2>1, QueryTableIs
<1>4. ColumnsFrom(where.val, ToSet(names))
  BY <1>3, WhereColumns DEF where
<1> DEFINE order == IF opts.sort = None THEN None
                    ELSE NativeOrder(<<0, opts.sort>>, opts.descending)
<1>5. /\ q.schema = s /\ q.tables = <<req.table>> /\ q.where = where.val
      /\ q.ons = <<>> /\ q.list = [i \in DOMAIN names |-> <<0, names[i]>>]
      /\ q.sort = order
  <2>1. q = [schema |-> s, bare |-> TRUE, tables |-> <<req.table>>,
             kinds |-> <<>>, ons |-> <<>>, onText |-> FALSE,
             list |-> [i \in DOMAIN names |-> <<0, names[i]>>],
             where |-> where.val, sort |-> order,
             limit |-> opts.page.limit, offset |-> opts.page.offset]
    BY <1>1, QueryTableIs DEF q
  <2> HIDE DEF order
  <2> QED
    BY <2>1
<1>6. \A ref \in Qualified(q) : ref[1] = 0 /\ ref[2] \in ToSet(names)
  BY <1>3, <1>5 DEF Qualified, NativeOrder
<1>7. \A ref \in Listed(q) : ref[1] = 0 /\ ref[2] \in ToSet(names)
  BY <1>4, <1>5 DEF Listed, ToSet, ColumnsFrom
<1>8. \A ref \in Qualified(q) \cup Listed(q) : ColumnSeen(s, q.tables[ref[1] + 1], ref[2])
  BY <1>2, <1>5, <1>6, <1>7
<1>9. \A i \in DOMAIN q.tables : TableSeen(s, q.tables[i])
  BY <1>2, <1>5
<1> QED
  BY <1>5, <1>8, <1>9 DEF NamesSeen, q, s

(* The tables of a join, and the positions its pairs refer to.             *)
LEMMA JoinShape ==
    ASSUME req \in Requests, Asks({"join"}), req.join # None, ParseJoin(req.join).ok
    PROVE  /\ \E n \in Nat \ {0} : DOMAIN Tables = 1..n
           /\ \A i \in DOMAIN req.join.joins : i + 1 \in DOMAIN Tables
           /\ \A i \in DOMAIN req.join.joins : \A j \in DOMAIN req.join.joins[i].on :
                req.join.joins[i].on[j].left[1] + 1 \in DOMAIN Tables
<1> DEFINE joins == req.join.joins
           others == [i \in DOMAIN joins |-> joins[i].table]
           all == <<req.join.table>> \o others
           S == {req.join.table} \cup {others[i] : i \in DOMAIN joins}
<1>1. /\ req.join \notin {None, Oversize, Malformed}
      /\ \A i \in DOMAIN joins : \A j \in DOMAIN joins[i].on : ~(joins[i].on[j].left[1] >= i)
  BY DEF ParseJoin, Err
<1>2. /\ joins \in Seq(ToSet(joins))
      /\ \A i \in DOMAIN joins : \A j \in DOMAIN joins[i].on : joins[i].on[j].left[1] \in Nat
  BY <1>1, RequestsAssumption DEF Asks
<1> HIDE DEF joins
<1>3. Len(joins) \in Nat /\ DOMAIN joins = 1..Len(joins)
  BY <1>2
<1>4. others \in Seq(S) /\ Len(others) = Len(joins)
  BY <1>3
<1> HIDE DEF others, S
<1>5. <<req.join.table>> \in Seq(S)
  BY DEF S
<1>6. DOMAIN all = 1..(Len(joins) + 1)
  BY <1>3, <1>4, <1>5
<1>7. Tables = all
  BY DEF Tables, Asks, TableNames, joins, others
<1>8. \A i \in 1..Len(joins) : i + 1 \in 1..(Len(joins) + 1)
  BY <1>3
<1>9. \A i \in 1..Len(joins) : \A j \in DOMAIN joins[i].on :
        joins[i].on[j].left[1] + 1 \in 1..(Len(joins) + 1)
  BY <1>1, <1>2, <1>3
<1>10. Len(joins) + 1 \in Nat \ {0}
  BY <1>3
<1> HIDE DEF all
<1> QED
  BY <1>3, <1>6, <1>7, <1>8, <1>9, <1>10 DEF joins

LEMMA JoinSplice ==
    ASSUME NEW known, Vouched(known), HasEngine(db),
           req \in Requests, Asks({"join"}), req.join # None, ParseJoin(req.join).ok,
           \A p \in DOMAIN Tables : Has(known, "columns", Tables[p]),
           Engine # "sqlite" => SchemaSeen(SchemaOf(known)), JoinSelect(known).ok
    PROVE  NamesSeen(JoinSelect(known).val)
<1> DEFINE s == SchemaOf(known)
           spec == req.join
           opts == JoinRequest(req).val
           metas == [p \in DOMAIN Tables |-> TableMeta(known, Tables[p])]
           selection == Selection(spec, metas)
           filter == IF opts.filter = None THEN <<>> ELSE opts.filter
           faults == <<PairFault(spec, metas), ColumnFault(selection, metas),
                       FilterFault(filter, metas), SortFault(opts.sort, opts.sortJoin, metas)>>
           order == IF opts.sort = None THEN None
                    ELSE NativeOrder(<<Position(opts.sortJoin), opts.sort>>, opts.descending)
           plan == [spec |-> spec, tables |-> metas, selection |-> selection,
                    labels |-> AssignLabels(selection), filter |-> filter, sort |-> order]
           q == JoinSelect(known).val
<1>1. JoinPlan(known) = AndThen(FirstError(faults), Ok(plan))
  BY DEF JoinPlan, Plan
<1>2. JoinPlan(known).ok /\ q = BuildSelect(JoinPlan(known).val, s, Keyword, Paging(req).limit + 1, Paging(req).offset)
  BY AndThenOk DEF JoinSelect, QueryJoin, Ok
<1>3. FirstError(faults).ok /\ JoinPlan(known) = Ok(plan)
  <2> HIDE DEF faults, plan
  <2> QED BY <1>1, <1>2, AndThenOk
<1>4. /\ PairFault(spec, metas).ok /\ ColumnFault(selection, metas).ok
      /\ FilterFault(filter, metas).ok /\ SortFault(opts.sort, opts.sortJoin, metas).ok
  <2> HIDE DEF metas, selection, filter, spec, opts
  <2>1. \A i \in DOMAIN faults : faults[i].ok
    <3> HIDE DEF faults
    <3> QED BY <1>3, FirstErrorOk
  <2>2. 1 \in DOMAIN faults /\ 2 \in DOMAIN faults /\ 3 \in DOMAIN faults /\ 4 \in DOMAIN faults
    OBVIOUS
  <2> QED
    BY <2>1, <2>2
<1>5. /\ q.schema = s
      /\ q.tables = [p \in DOMAIN Tables |-> Tables[p]]
      /\ q.ons = [i \in DOMAIN spec.joins |-> spec.joins[i].on]
      /\ q.list = selection
      /\ q.sort = order
      /\ DOMAIN q.where = DOMAIN filter
      /\ \A i \in DOMAIN filter : q.where[i].column = <<Position(filter[i].join), filter[i].column>>
  <2>1. q = BuildSelect(plan, s, Keyword, Paging(req).limit + 1, Paging(req).offset)
    BY <1>2, <1>3 DEF Ok
  <2>2. \A p \in DOMAIN Tables : metas[p].name = Tables[p]
    BY DEF TableMeta
  <2>3. DOMAIN metas = DOMAIN Tables
    OBVIOUS
  <2> HIDE DEF metas, selection, filter, order, q, spec
  <2> QED
    BY <2>1, <2>2, <2>3 DEF BuildSelect
(* A position and a name that a lookup found.                              *)
<1>6. ASSUME NEW p \in DOMAIN Tables, NEW c,
             ColumnIndex(metas[p], c).ok \/ JoinColumnIndex(metas[p], c).ok
      PROVE  ColumnSeen(s, q.tables[p], c)
  <2>1. metas[p] = TableMeta(known, Tables[p]) /\ q.tables[p] = Tables[p]
    BY <1>5
  <2> QED
    BY <1>6, <2>1, ColumnFound, JoinColumnFound
<1>7. DOMAIN metas = DOMAIN Tables
  OBVIOUS
<1> HIDE DEF metas, q
<1>8. \A i \in DOMAIN spec.joins : \A j \in DOMAIN spec.joins[i].on :
        LET pair == spec.joins[i].on[j]
        IN /\ ColumnSeen(s, q.tables[pair.left[1] + 1], pair.left[2])
           /\ ColumnSeen(s, q.tables[i + 1], pair.right)
  <2> SUFFICES ASSUME NEW i \in DOMAIN spec.joins, NEW j \in DOMAIN spec.joins[i].on
               PROVE  LET pair == spec.joins[i].on[j]
                      IN /\ ColumnSeen(s, q.tables[pair.left[1] + 1], pair.left[2])
                         /\ ColumnSeen(s, q.tables[i + 1], pair.right)
    OBVIOUS
  <2> DEFINE pair == spec.joins[i].on[j]
             lc == JoinColumnIndex(metas[pair.left[1] + 1], pair.left[2])
             rc == JoinColumnIndex(metas[i + 1], pair.right)
  <2>1. lc.ok /\ rc.ok
    <3> DEFINE fault(a, b) ==
            LET l == JoinColumnIndex(metas[b.left[1] + 1], b.left[2])
                r == JoinColumnIndex(metas[a + 1], b.right)
            IN CASE ~l.ok -> l [] ~r.ok -> r [] OTHER -> CheckPair(l.val, r.val)
               ofJoin(a) == [b \in DOMAIN spec.joins[a].on |-> fault(a, spec.joins[a].on[b])]
               all == [a \in DOMAIN spec.joins |-> FirstError(ofJoin(a))]
    <3>1. FirstError(all).ok
      BY <1>4 DEF PairFault
    <3>2. all[i].ok
      <4>1. \A a \in DOMAIN all : all[a].ok
        <5> HIDE DEF all
        <5> QED BY <3>1, FirstErrorOk
      <4> QED
        BY <4>1
    <3>3. ofJoin(i)[j].ok
      <4>1. FirstError(ofJoin(i)).ok
        BY <3>2
      <4>2. \A b \in DOMAIN ofJoin(i) : ofJoin(i)[b].ok
        <5> HIDE DEF ofJoin
        <5> QED BY <4>1, FirstErrorOk
      <4> QED
        BY <4>2
    <3>4. fault(i, pair).ok
      BY <3>3
    <3> HIDE DEF all, ofJoin, pair
    <3> QED
      BY <3>4
  <2>2. pair.left[1] + 1 \in DOMAIN Tables /\ i + 1 \in DOMAIN Tables
    BY JoinShape
  <2> QED
    BY <1>6, <2>1, <2>2
<1>9. \A i \in DOMAIN selection : ColumnSeen(s, q.tables[selection[i][1] + 1], selection[i][2])
  <2> DEFINE checks == [i \in DOMAIN selection |->
                            IF selection[i][1] + 1 \notin DOMAIN metas THEN Err("invalid_join")
                            ELSE JoinColumnIndex(metas[selection[i][1] + 1], selection[i][2])]
  <2>1. FirstError(checks).ok
    BY <1>4 DEF ColumnFault
  <2>2. \A i \in DOMAIN checks : checks[i].ok
    <3> HIDE DEF checks
    <3> QED BY <2>1, FirstErrorOk
  <2> HIDE DEF selection
  <2>3. \A i \in DOMAIN selection :
            /\ selection[i][1] + 1 \in DOMAIN Tables
            /\ JoinColumnIndex(metas[selection[i][1] + 1], selection[i][2]).ok
    BY <1>7, <2>2 DEF Err
  <2> QED
    BY <1>6, <2>3
<1>10. \A i \in DOMAIN filter :
        ColumnSeen(s, q.tables[Position(filter[i].join) + 1], filter[i].column)
  <2> DEFINE checks == [i \in DOMAIN filter |->
        CASE Position(filter[i].join) + 1 \notin DOMAIN metas -> Err("invalid_filter")
          [] TakesValue(filter[i].op) # (filter[i].value # None) -> Err("invalid_filter")
          [] OTHER -> ColumnIndex(metas[Position(filter[i].join) + 1], filter[i].column)]
  <2>1. FirstError(checks).ok
    BY <1>4 DEF FilterFault
  <2>2. \A i \in DOMAIN checks : checks[i].ok
    <3> HIDE DEF checks
    <3> QED BY <2>1, FirstErrorOk
  <2> HIDE DEF filter
  <2>3. \A i \in DOMAIN filter :
            /\ Position(filter[i].join) + 1 \in DOMAIN Tables
            /\ ColumnIndex(metas[Position(filter[i].join) + 1], filter[i].column).ok
    BY <1>7, <2>2 DEF Err
  <2> QED
    BY <1>6, <2>3
<1>11. opts.sort # None => ColumnSeen(s, q.tables[Position(opts.sortJoin) + 1], opts.sort)
  <2> HIDE DEF opts
  <2>1. opts.sort # None => /\ Position(opts.sortJoin) + 1 \in DOMAIN Tables
                           /\ ColumnIndex(metas[Position(opts.sortJoin) + 1], opts.sort).ok
    BY <1>4, <1>7 DEF SortFault, Err
  <2> QED
    BY <1>6, <2>1
<1>12. \A ref \in Listed(q) : ColumnSeen(s, q.tables[ref[1] + 1], ref[2])
  <2> HIDE DEF selection, filter, opts
  <2> QED
    BY <1>5, <1>9, <1>10 DEF Listed, ToSet
<1>13. \A ref \in Qualified(q) : ColumnSeen(s, q.tables[ref[1] + 1], ref[2])
  <2> HIDE DEF opts, spec
  <2>1. q.sort # None => opts.sort # None /\ q.sort.by = <<Position(opts.sortJoin), opts.sort>>
    BY <1>5 DEF NativeOrder
  <2>2. SUFFICES ASSUME NEW ref \in Qualified(q)
                 PROVE  ColumnSeen(s, q.tables[ref[1] + 1], ref[2])
    OBVIOUS
  <2>3. \/ q.sort # None /\ ref = q.sort.by
        \/ \E i \in DOMAIN spec.joins : \E j \in DOMAIN spec.joins[i].on :
                ref = <<i, spec.joins[i].on[j].right>> \/ ref = spec.joins[i].on[j].left
    <3>1. q.ons = [i \in DOMAIN spec.joins |-> spec.joins[i].on]
      BY <1>5
    <3>2. CASE ref \in UNION {{<<p, q.ons[p][i].right>> : i \in DOMAIN q.ons[p]} : p \in DOMAIN q.ons}
      <4>1. PICK p \in DOMAIN q.ons : ref \in {<<p, q.ons[p][i].right>> : i \in DOMAIN q.ons[p]}
        BY <3>2
      <4>2. PICK i \in DOMAIN q.ons[p] : ref = <<p, q.ons[p][i].right>>
        BY <4>1
      <4> QED
        BY <3>1, <4>2
    <3>3. CASE ref \in UNION {{q.ons[p][i].left : i \in DOMAIN q.ons[p]} : p \in DOMAIN q.ons}
      BY <3>1, <3>3
    <3>4. CASE ref \in IF q.sort = None THEN {} ELSE {q.sort.by}
      BY <3>4
    <3>5. \/ ref \in IF q.sort = None THEN {} ELSE {q.sort.by}
          \/ ref \in UNION {{<<p, q.ons[p][i].right>> : i \in DOMAIN q.ons[p]} : p \in DOMAIN q.ons}
          \/ ref \in UNION {{q.ons[p][i].left : i \in DOMAIN q.ons[p]} : p \in DOMAIN q.ons}
      BY DEF Qualified
    <3> QED
      BY <3>2, <3>3, <3>4, <3>5
  <2>4. CASE q.sort # None /\ ref = q.sort.by
    BY <1>11, <2>1, <2>4
  <2>5. CASE \E i \in DOMAIN spec.joins : \E j \in DOMAIN spec.joins[i].on :
                ref = <<i, spec.joins[i].on[j].right>> \/ ref = spec.joins[i].on[j].left
    BY <1>8, <2>5
  <2> QED
    BY <2>3, <2>4, <2>5
<1>14. \A i \in DOMAIN q.tables : TableSeen(s, q.tables[i])
  BY <1>5, MetaColumn
<1> QED
  BY <1>5, <1>12, <1>13, <1>14 DEF NamesSeen, q

(* A table whose turn for the SELECT has come has been described.          *)
LEMMA SelectsDescribed ==
    ASSUME NEW known, Vouched(known), Selects(known)
    PROVE  \A p \in DOMAIN Tables : Has(known, "columns", Tables[p])
<1> SUFFICES ASSUME NEW p \in DOMAIN Tables PROVE Has(known, "columns", Tables[p])
  OBVIOUS
<1>1. Has(known, "keys", Tables[p])
  BY DEF Selects, Open, Described
<1>2. Told(known, <<"keys", Tables[p]>>)
  BY <1>1 DEF Vouched, Has
<1> QED
  BY <1>2 DEF Told, Vouches, Has

(* A SELECT is built from names that all were there.                       *)
LEMMA Splice ==
    ASSUME NEW known, Vouched(known), HasEngine(db), Runs, JoinInv,
           Verdict(known).ok, Selects(known)
    PROVE  NamesSeen(Verdict(known).val)
<1>1. SchemaFault(known).ok /\ Verdict(known) = SelectOf(known)
  BY AndThenOk DEF Verdict
<1>2. Engine # "sqlite" => SchemaSeen(SchemaOf(known))
  <2> SUFFICES ASSUME Engine # "sqlite" PROVE SchemaSeen(SchemaOf(known))
    OBVIOUS
  <2>1. Resolved(known) /\ ~Asks({"schemas"})
    BY DEF Selects, Asks
  <2>2. SchemaOf(known) \in known[<<"schemas", None>>]
    BY <1>1, <2>1 DEF SchemaFault, ResolveSchema, Err
  <2>3. Told(known, <<"schemas", None>>)
    BY <2>1 DEF Vouched, Resolved, Has
  <2> QED
    BY <2>2, <2>3 DEF Told, Vouches
<1>3. \A p \in DOMAIN Tables : Has(known, "columns", Tables[p])
  BY SelectsDescribed
<1>4. CASE Asks({"join"})
  BY <1>1, <1>2, <1>3, <1>4, JoinSplice DEF SelectOf, JoinInv
<1>5. CASE ~Asks({"join"})
  <2>1. Asks({"data"})
    BY <1>5 DEF Selects, Asks
  <2>2. Tables = <<req.table>>
    BY <1>5, <2>1 DEF Tables, Asks
  <2>3. Has(known, "columns", req.table)
    BY <1>3, <2>2
  <2> QED
    BY <1>1, <1>2, <1>5, <2>3, TableSplice DEF SelectOf
<1> QED
  BY <1>4, <1>5

-----------------------------------------------------------------------------
(* What was there once stays vouched for: no database is forgotten.        *)

LEMMA ToldStable ==
    ASSUME NEW known, NEW k, req' = req, seen \subseteq seen', Engine' = Engine, Told(known, k)
    PROVE  Told(known, k)'
<1>1. SchemaOf(known)' = SchemaOf(known) /\ (Resolved(known) => Resolved(known)')
  BY DEF SchemaOf, Resolved, Has
<1>2. /\ \A s : SchemaSeen(s) => SchemaSeen(s)'
      /\ \A s, t : TableSeen(s, t) => TableSeen(s, t)'
      /\ \A s, t, c : ColumnSeen(s, t, c) => ColumnSeen(s, t, c)'
  BY DEF SchemaSeen, TableSeen, ColumnSeen
<1> QED
  BY <1>1, <1>2 DEF Told, Vouches

LEMMA NamesStable ==
    ASSUME NEW q, seen \subseteq seen', Engine' = Engine, NamesSeen(q)
    PROVE  NamesSeen(q)'
BY DEF NamesSeen, SchemaSeen, TableSeen, ColumnSeen

LEMMA SqlStable ==
    ASSUME SqlInv, sql' = sql, seen \subseteq seen', Engine' = Engine
    PROVE  SqlInv'
<1>1. PICK q : q = sql
  OBVIOUS
<1>2. q # None => NamesSeen(q)'
  BY <1>1, NamesStable DEF SqlInv
<1> QED
  BY <1>1, <1>2 DEF SqlInv

LEMMA FaultStable ==
    ASSUME NEW known, req' = req, variant' = variant, Engine' = Engine
    PROVE  TableFault(known)' = TableFault(known)
BY DEF TableFault, Missed, Cleared, Current, Open, Described, Tables, Asks, Has, MariaDb

-----------------------------------------------------------------------------
(* The steps of a handler.                                                 *)

LEMMA ProceedInv ==
    ASSUME IInv, Runs, Knows, NEW known, Vouched(known), Proceed(known, Verdict(known))
    PROVE  IInv'
<1> DEFINE verdict == Verdict(known)
<1>1. /\ read' = known
      /\ UNCHANGED <<db, variant, req, seen>> /\ Engine' = Engine
      /\ sql' = IF verdict.ok /\ Selects(known) THEN verdict.val ELSE sql
      /\ answer' = Pending => verdict.ok
  BY ProblemIsAnAnswer DEF Proceed, Engine
<1> HIDE DEF verdict
<1>2. IdleInv'
  BY <1>1 DEF IdleInv, Runs
<1>3. SeenInv'
  BY <1>1 DEF IInv, SeenInv, Runs
<1>4. KnowledgeInv'
  BY <1>1, ToldStable DEF KnowledgeInv, Vouched
<1>5. LookedInv'
  <2>1. verdict.ok => TableFault(known).ok
    BY AndThenOk DEF Verdict, verdict
  <2>2. TableFault(known)' = TableFault(known)
    BY <1>1, FaultStable
  <2> QED
    BY <1>1, <2>1, <2>2 DEF LookedInv, Runs
<1>6. BlindInv'
  BY <1>1 DEF BlindInv, Knows
<1>7. JoinInv'
  BY <1>1 DEF IInv, JoinInv, Runs, Asks
<1>8. SqlInv'
  <2>1. CASE verdict.ok /\ Selects(known)
    <3>1. HasEngine(db) /\ JoinInv
      BY DEF IInv, SeenInv
    <3>2. NamesSeen(verdict.val)
      BY <2>1, <3>1, Splice DEF verdict
    <3>3. PICK q : q = verdict.val
      OBVIOUS
    <3>4. NamesSeen(q)'
      BY <1>1, <3>2, <3>3, NamesStable
    <3>5. sql' = q
      BY <1>1, <2>1, <3>3
    <3> QED
      BY <3>4, <3>5 DEF SqlInv
  <2>2. CASE ~(verdict.ok /\ Selects(known))
    <3>1. sql' = sql
      BY <1>1, <2>2
    <3> QED
      BY <1>1, <3>1, SqlStable DEF IInv
  <2> QED
    BY <2>1, <2>2
<1> QED
  BY <1>2, <1>3, <1>4, <1>5, <1>6, <1>7, <1>8 DEF IInv

(* It is enough that what a statement adds is vouched for.                 *)
LEMMA LearnInv ==
    ASSUME IInv, NEW kind, NEW t, NEW value, Statement(kind, t), Learn(kind, t, value),
           Vouches(read, kind, t, value)
    PROVE  IInv'
<1>1. PICK known : known = [k \in DOMAIN read \cup {<<kind, t>>} |->
                                IF k = <<kind, t>> THEN value ELSE read[k]]
  OBVIOUS
<1>2. Runs /\ Knows /\ <<kind, t>> \notin DOMAIN read
  BY DEF Statement, Has
<1>3. /\ DOMAIN known = DOMAIN read \cup {<<kind, t>>}
      /\ \A k \in DOMAIN read : known[k] = read[k]
      /\ known[<<kind, t>>] = value
      /\ Proceed(known, Verdict(known))
  BY <1>1, <1>2 DEF Learn
<1>4. Resolved(read) => Resolved(known) /\ SchemaOf(known) = SchemaOf(read)
  BY <1>3 DEF Resolved, SchemaOf, Has
<1>5. Vouched(known)
  <2>1. \A k \in DOMAIN read : Told(known, k)
    BY <1>3, <1>4 DEF Told, Vouches, Has, IInv, KnowledgeInv
  <2>2. Told(known, <<kind, t>>)
    BY <1>3, <1>4 DEF Told, Vouches, Has
  <2> QED
    BY <1>3, <2>1, <2>2 DEF Vouched
<1> QED
  BY <1>2, <1>3, <1>5, ProceedInv

(* Most results vouch for nothing.                                         *)
LEMMA PlainInv ==
    ASSUME IInv, NEW kind, NEW t, NEW value, Statement(kind, t), Learn(kind, t, value),
           kind \notin {"schemas", "gate", "tables", "columns", "keys"}
    PROVE  IInv'
BY LearnInv DEF Vouches

LEMMA ListSchemasInv == ASSUME IInv, ListSchemas PROVE IInv'
<1>1. db \in seen /\ HasEngine(db)
  BY DEF ListSchemas, Statement, IInv, SeenInv
<1> DEFINE value == By(Pg!ListSchemas(db), My!ListSchemas(db), {})
<1>2. \A x \in value : SchemaListed(db, x)
  BY <1>1 DEF ListSchemas, By, HasEngine, Engine, Pg!ListSchemas, My!ListSchemas, SchemaListed
<1>3. Vouches(read, "schemas", None, value)
  BY <1>1, <1>2 DEF Vouches, SchemaSeen
<1> QED
  BY <1>3, LearnInv DEF ListSchemas

LEMMA ReadableTableInv == ASSUME IInv, NEW t, ReadableTable(t) PROVE IInv'
<1>1. db \in seen /\ HasEngine(db)
  BY DEF ReadableTable, Statement, IInv, SeenInv
<1> DEFINE value == Pg!ReadableTableOid(db, Schema, t)
<1>2. value.ok => Served(db, SchemaOf(read), t)
  BY <1>1 DEF ReadableTable, HasEngine, Engine, Schema, Pg!ReadableTableOid, Pg!Err, Pg!Ok,
              Pg!TablesAt, Served, Serves, TablesAt
<1>3. Vouches(read, "gate", t, value)
  BY <1>1, <1>2 DEF Vouches, TableSeen, ReadableTable, InSchema
<1> QED
  BY <1>3, LearnInv DEF ReadableTable

LEMMA AllowedTablesInv == ASSUME IInv, AllowedTables PROVE IInv'
<1>1. db \in seen /\ HasEngine(db)
  BY DEF AllowedTables, Statement, IInv, SeenInv
<1> DEFINE value == By({}, My!AllowedTables(db, Schema), Sq!AllowedTables(db))
<1>2. \A x \in value : Served(db, SchemaOf(read), x)
  <2>1. CASE Engine = "mysql"
    BY <2>1 DEF By, Engine, Schema, My!AllowedTables, My!BaseTables, Served, Serves, TablesAt
  <2>2. CASE Engine = "sqlite"
    BY <2>2 DEF By, Engine, SchemaOf, Sq!AllowedTables, Sq!ServedTables, Served, Serves, TablesAt
  <2> QED
    BY <1>1, <2>1, <2>2 DEF AllowedTables, HasEngine, Engine
<1>3. Vouches(read, "tables", None, value)
  BY <1>1, <1>2 DEF Vouches, TableSeen, AllowedTables, InSchema
<1> QED
  BY <1>3, LearnInv DEF AllowedTables

(* A table whose turn it is has passed the lookup.                         *)
LEMMA ClearedSeen ==
    ASSUME IInv, Runs, NEW t \in ToSet(NameOrder), Cleared1(t)
    PROVE  Resolved(read) /\ TableSeen(SchemaOf(read), t)
<1>1. Resolved(read) /\ t = Current(read) /\ Cleared(read, t)
  BY DEF Cleared1, InSchema
<1>2. Open(read) # {}
  BY <1>1, NamesAssumption DEF Current
<1>3. ~Missed(read, t)
  BY <1>1, <1>2 DEF IInv, LookedInv, TableFault, Err
<1>4. CASE Engine = "postgres"
  <2>1. Has(read, "gate", t) /\ read[<<"gate", t>>].ok
    BY <1>1, <1>3, <1>4 DEF Missed, Cleared
  <2>2. Told(read, <<"gate", t>>)
    BY <2>1 DEF IInv, KnowledgeInv, Has
  <2> QED
    BY <1>1, <2>1, <2>2 DEF Told, Vouches
<1>5. CASE Engine # "postgres"
  <2>1. Has(read, "tables", None) /\ t \in read[<<"tables", None>>]
    BY <1>1, <1>3, <1>5 DEF Missed, Cleared
  <2>2. Told(read, <<"tables", None>>)
    BY <2>1 DEF IInv, KnowledgeInv, Has
  <2> QED
    BY <1>1, <2>1, <2>2 DEF Told, Vouches
<1> QED
  BY <1>4, <1>5

LEMMA ReadColumnsInv == ASSUME IInv, NEW t \in ToSet(NameOrder), ReadColumns(t) PROVE IInv'
<1>1. db \in seen /\ HasEngine(db) /\ Runs
  BY DEF ReadColumns, Statement, IInv, SeenInv
<1> DEFINE value == By(Pg!TableColumns(db, Schema, t, read[<<"gate", t>>].val),
                       My!TableColumns(db, Schema, t), Sq!TableColumns(db, t))
<1>2. \A i \in DOMAIN value : HasColumn(db, SchemaOf(read), t, value[i].name)
  <2> DEFINE listed == {x \in TablesAt(db, Schema, t) : x.listed}
             found == IF Engine = "sqlite" THEN Sq!Located(db, t) ELSE listed
             x == CHOOSE y \in found : TRUE
  <2>1. value = <<>> \/ (found # {} /\ value = x.columns)
    <3>1. CASE Engine = "postgres"
      <4>1. value = Pg!TableColumns(db, Schema, t, read[<<"gate", t>>].val)
        BY <3>1 DEF By
      <4>2. found = listed
        BY <3>1
      <4> QED
        BY <4>1, <4>2 DEF Pg!TableColumns, Pg!InformationColumns, Pg!TablesAt, TablesAt
    <3>2. CASE Engine = "mysql"
      <4>1. value = My!TableColumns(db, Schema, t)
        BY <3>2 DEF By
      <4>2. found = listed
        BY <3>2
      <4> QED
        BY <4>1, <4>2 DEF My!TableColumns, My!TablesAt, TablesAt
    <3>3. CASE Engine = "sqlite"
      <4>1. value = Sq!TableColumns(db, t)
        BY <3>3 DEF By
      <4> QED
        BY <3>3, <4>1 DEF Sq!TableColumns
    <3> QED
      BY <1>1, <3>1, <3>2, <3>3 DEF HasEngine, Engine
  <2> HIDE DEF value
  <2>2. found \subseteq Relations(db, SchemaOf(read), t)
    BY DEF Relations, Schema, Engine
  <2>3. found # {} => x \in found
    OBVIOUS
  <2> HIDE DEF found, x
  <2> QED
    BY <2>1, <2>2, <2>3 DEF HasColumn, ColumnNames
<1>3. Resolved(read) /\ TableSeen(SchemaOf(read), t)
  BY <1>1, ClearedSeen DEF ReadColumns
<1>4. Vouches(read, "columns", t, value)
  BY <1>1, <1>2, <1>3 DEF Vouches, ColumnSeen
<1> QED
  BY <1>4, LearnInv DEF ReadColumns

LEMMA ReadKeysInv == ASSUME IInv, NEW t, ReadKeys(t) PROVE IInv'
BY LearnInv DEF ReadKeys, Vouches

-----------------------------------------------------------------------------
(* The other steps.                                                        *)

(* They leave what was read as it is, and only add to what was seen.       *)
LEMMA KeepInv ==
    ASSUME IInv, SeenInv', UNCHANGED <<req, read, sql>>, seen \subseteq seen', Engine' = Engine,
           Runs' => Runs, variant' = variant \/ read = <<>>
    PROVE  IInv'
<1>1. PICK known : known = read
  OBVIOUS
<1>2. IdleInv'
  BY DEF IInv, IdleInv
<1>3. KnowledgeInv'
  <2>1. \A k \in DOMAIN known : Told(known, k)'
    BY <1>1, ToldStable DEF IInv, KnowledgeInv
  <2> QED
    BY <1>1, <2>1 DEF KnowledgeInv
<1>4. LookedInv'
  <2>1. CASE variant' = variant
    <3>1. TableFault(known)' = TableFault(known)
      BY <2>1, FaultStable
    <3> QED
      BY <1>1, <3>1 DEF IInv, LookedInv
  <2>2. CASE read = <<>>
    BY <2>2 DEF LookedInv, TableFault, Missed, Cleared, Has, Ok
  <2> QED
    BY <2>1, <2>2
<1>5. BlindInv'
  BY DEF IInv, BlindInv, Knows
<1>6. JoinInv'
  BY DEF IInv, JoinInv, Asks
<1>7. SqlInv'
  BY SqlStable DEF IInv
<1> QED
  BY <1>2, <1>3, <1>4, <1>5, <1>6, <1>7 DEF IInv

(* Answering a request, and what goes on around it.                        *)
LEMMA QuietInv ==
    ASSUME IInv, UNCHANGED <<db, seen, req, read, sql, variant>>,
           answer' = answer \/ answer' # Pending
    PROVE  IInv'
<1>1. Engine' = Engine /\ (Runs' => Runs)
  BY DEF Engine, Runs, Asks
<1>2. SeenInv'
  BY <1>1 DEF IInv, SeenInv
<1> QED
  BY <1>1, <1>2, KeepInv

LEMMA VersionInv == ASSUME IInv, Version PROVE IInv'
<1>1. read = <<>> /\ Engine' = Engine /\ (Runs' => Runs)
  BY DEF Version, IInv, BlindInv, Engine, Runs, Asks
<1>2. SeenInv'
  BY <1>1 DEF Version, IInv, SeenInv
<1> QED
  BY <1>1, <1>2, KeepInv DEF Version

LEMMA AlterInv == ASSUME IInv, NEW edit \in Edits, Alter(edit) PROVE IInv'
<1>1. db \in seen /\ HasEngine(db)
  BY DEF Alter, Meddles, IInv, SeenInv
<1>2. HasEngine(db') /\ Engine' = Engine
  <2>1. edit.kind \in {"drop", "drop column", "revoke"} /\ db' = Apply(db, edit)
    BY EditsAssumption DEF Alter, Edited
  <2>2. HasEngine(db') /\ db'.engine = db.engine
    BY <1>1, <2>1 DEF Apply, HasEngine
  <2> QED
    BY <2>2 DEF Engine
<1>3. Runs' => Runs
  BY DEF Alter, Runs, Asks
<1>4. seen' = seen \cup {db'}
  BY DEF Alter
<1>5. Engine' = db'.engine
  BY DEF Engine
<1>6. SeenInv'
  <2>1. \A d \in seen : HasEngine(d) /\ d.engine = Engine'
    BY <1>2 DEF IInv, SeenInv
  <2>2. \A d \in seen' : HasEngine(d) /\ d.engine = Engine'
    BY <1>2, <1>4, <1>5, <2>1
  <2> QED
    BY <1>4, <2>2 DEF SeenInv
<1> QED
  BY <1>2, <1>3, <1>4, <1>6, KeepInv DEF Alter

(* A request starts with nothing known, from one database.                 *)
LEMMA AskInv == ASSUME IInv, NEW r \in Requests, Ask(r) PROVE IInv'
<1> DEFINE source == ResolveSource(Sources, r.source)
<1>1. /\ req' = r /\ read' = <<>> /\ sql' = None
      /\ Runs' => r.route \notin Standalone /\ EarlyFault(r).ok
  BY ProblemIsAnAnswer DEF Ask, IInv, IdleInv, Runs, Asks
<1>2. Runs' => Extract(r).ok /\ source.ok /\ (r.route = "join" => JoinRequest(r).ok)
  BY <1>1, AndThenOk DEF EarlyFault
<1>3. IdleInv'
  BY <1>1 DEF IdleInv
<1>4. SeenInv'
  <2>1. CASE source.ok
    <3>1. source.val \in ToSet(Sources)
      BY <2>1, SourcesAssumption DEF ResolveSource, Ok, Err, ToSet
    <3>2. db' = Databases[source.val] /\ seen' = {db'}
      BY <2>1 DEF Ask
    <3> QED
      BY <3>1, <3>2, DatabasesAssumption DEF SeenInv, HasEngine, Engine
  <2>2. CASE ~source.ok
    <3>1. UNCHANGED <<db, seen>> /\ ~Runs'
      BY <1>2, <2>2 DEF Ask
    <3> QED
      BY <3>1 DEF IInv, SeenInv, Engine
  <2> QED
    BY <2>1, <2>2
<1>5. KnowledgeInv'
  BY <1>1 DEF KnowledgeInv
<1>6. LookedInv'
  BY <1>1 DEF LookedInv, TableFault, Missed, Cleared, Has, Ok
<1>7. BlindInv'
  BY <1>1 DEF BlindInv
<1>8. JoinInv'
  <2> SUFFICES ASSUME Runs', r.route = "join" PROVE r.join # None /\ ParseJoin(r.join).ok
    BY <1>1 DEF JoinInv, Asks
  <2>1. Extract(r).ok /\ JoinRequest(r).ok
    BY <1>2
  <2>2. r.join # None
    BY <2>1 DEF Extract, Required, Err
  <2>3. ParseJoin(r.join).ok
    BY <2>1, AndThenOk DEF JoinRequest
  <2> QED
    BY <2>2, <2>3
<1>9. SqlInv'
  BY <1>1 DEF SqlInv
<1> QED
  BY <1>3, <1>4, <1>5, <1>6, <1>7, <1>8, <1>9 DEF IInv

LEMMA ClearInv ==
    ASSUME req' = None, read' = <<>>, sql' = None, seen' = {}
    PROVE  IInv'
BY DEF IInv, IdleInv, SeenInv, KnowledgeInv, LookedInv, BlindInv, JoinInv, SqlInv, Runs

LEMMA InitInv == Init => IInv
BY DEF Init, IInv, IdleInv, SeenInv, KnowledgeInv, LookedInv, BlindInv, JoinInv, SqlInv, Runs

(* Nothing that a query is built from comes from these results.            *)
LEMMA OtherResultsInv ==
    ASSUME IInv,
           \/ DefaultSchema \/ ListTables \/ TableCounts \/ EstimateRows
           \/ \E t \in ToSet(NameOrder) :
                \/ ReadPrimaryKey(t) \/ ReadJsonColumns(t) \/ ReadNames(t)
                \/ ReadStatistics(t) \/ ReadType(t) \/ ReadReferrers(t)
                \/ ReadIndexes(t) \/ ReadIndexSql(t) \/ ReadUniques(t)
                \/ ReadForeignKeys(t) \/ ReadChecksView(t) \/ ReadChecks(t)
    PROVE  IInv'
<1>1. CASE DefaultSchema
  BY <1>1, PlainInv DEF DefaultSchema
<1>2. CASE ListTables
  BY <1>2, PlainInv DEF ListTables
<1>3. CASE TableCounts
  BY <1>3, PlainInv DEF TableCounts
<1>4. CASE EstimateRows
  BY <1>4, PlainInv DEF EstimateRows
<1>5. ASSUME NEW t \in ToSet(NameOrder), ReadPrimaryKey(t) PROVE IInv'
  BY <1>5, PlainInv DEF ReadPrimaryKey
<1>6. ASSUME NEW t \in ToSet(NameOrder), ReadJsonColumns(t) PROVE IInv'
  BY <1>6, PlainInv DEF ReadJsonColumns
<1>7. ASSUME NEW t \in ToSet(NameOrder), ReadNames(t) PROVE IInv'
  BY <1>7, PlainInv DEF ReadNames
<1>8. ASSUME NEW t \in ToSet(NameOrder), ReadStatistics(t) PROVE IInv'
  BY <1>8, PlainInv DEF ReadStatistics
<1>9. ASSUME NEW t \in ToSet(NameOrder), ReadType(t) PROVE IInv'
  BY <1>9, PlainInv DEF ReadType
<1>10. ASSUME NEW t \in ToSet(NameOrder), ReadReferrers(t) PROVE IInv'
  BY <1>10, PlainInv DEF ReadReferrers
<1>11. ASSUME NEW t \in ToSet(NameOrder), ReadIndexes(t) PROVE IInv'
  BY <1>11, PlainInv DEF ReadIndexes
<1>12. ASSUME NEW t \in ToSet(NameOrder), ReadIndexSql(t) PROVE IInv'
  BY <1>12, PlainInv DEF ReadIndexSql
<1>13. ASSUME NEW t \in ToSet(NameOrder), ReadUniques(t) PROVE IInv'
  BY <1>13, PlainInv DEF ReadUniques
<1>14. ASSUME NEW t \in ToSet(NameOrder), ReadForeignKeys(t) PROVE IInv'
  BY <1>14, PlainInv DEF ReadForeignKeys
<1>15. ASSUME NEW t \in ToSet(NameOrder), ReadChecksView(t) PROVE IInv'
  BY <1>15, PlainInv DEF ReadChecksView
<1>16. ASSUME NEW t \in ToSet(NameOrder), ReadChecks(t) PROVE IInv'
  BY <1>16, PlainInv DEF ReadChecks
<1> QED
  BY <1>1, <1>2, <1>3, <1>4, <1>5, <1>6, <1>7, <1>8, <1>9, <1>10, <1>11, <1>12, <1>13, <1>14, <1>15, <1>16

LEMMA SelectInv == ASSUME IInv, Select PROVE IInv'
<1>0. PICK result \in Outcomes(db, sql) :
            IF result.ok THEN Learn("select", None, result.val)
            ELSE Refuse(SelectError(result.code)) /\ UNCHANGED disturbed
  BY DEF Select
<1>1. CASE result.ok
  BY <1>0, <1>1, PlainInv DEF Select
<1>2. CASE ~result.ok
  BY <1>0, <1>2, QuietInv, ProblemIsAnAnswer DEF Refuse
<1> QED
  BY <1>1, <1>2

LEMMA NextInv == IInv /\ [Next]_vars => IInv'
<1> SUFFICES ASSUME IInv, [Next]_vars PROVE IInv'
  OBVIOUS
<1>1. CASE Version
  BY <1>1, VersionInv
<1>2. CASE ListSchemas \/ AllowedTables \/ Select
  BY <1>2, ListSchemasInv, AllowedTablesInv, SelectInv
<1>3. ASSUME NEW t \in ToSet(NameOrder), ReadableTable(t) \/ ReadColumns(t) \/ ReadKeys(t)
      PROVE  IInv'
  BY <1>3, ReadableTableInv, ReadColumnsInv, ReadKeysInv
<1>4. CASE \/ DefaultSchema \/ ListTables \/ TableCounts \/ EstimateRows
           \/ \E t \in ToSet(NameOrder) :
                \/ ReadPrimaryKey(t) \/ ReadJsonColumns(t) \/ ReadNames(t)
                \/ ReadStatistics(t) \/ ReadType(t) \/ ReadReferrers(t)
                \/ ReadIndexes(t) \/ ReadIndexSql(t) \/ ReadUniques(t)
                \/ ReadForeignKeys(t) \/ ReadChecksView(t) \/ ReadChecks(t)
  BY <1>4, OtherResultsInv
<1>5. CASE Expire \/ Busy \/ Fail
  <2>1. answer' # Pending /\ UNCHANGED <<db, seen, req, read, sql, variant>>
    BY <1>5, ProblemIsAnAnswer DEF Expire, Busy, Fail, Meddles, Refuse
  <2> QED
    BY <2>1, QuietInv
<1>6. ASSUME NEW i \in Checked, HealthCheck(i) PROVE IInv'
  <2>1. answer' = answer \/ answer' # Pending
    BY <1>6 DEF HealthCheck
  <2> QED
    BY <1>6, <2>1, QuietInv DEF HealthCheck
<1>7. CASE Lock \/ Unlock
  BY <1>7, QuietInv DEF Lock, Unlock, Meddles
<1>8. CASE Receive
  BY <1>8, ClearInv DEF Receive
<1>9. ASSUME NEW r \in Requests, Ask(r) PROVE IInv'
  BY <1>9, AskInv
<1>10. ASSUME NEW edit \in Edits, Alter(edit) PROVE IInv'
  BY <1>10, AlterInv
<1>11. CASE UNCHANGED vars
  BY <1>11, QuietInv DEF vars
<1> QED
  BY <1>1, <1>2, <1>3, <1>4, <1>5, <1>6, <1>7, <1>8, <1>9, <1>10, <1>11 DEF Next, Handle, World

-----------------------------------------------------------------------------
(* Whatever the databases hold, whatever is asked and however others       *)
(* change the tables meanwhile: the schema, the tables and the columns in  *)
(* the SELECT a handler of any backend builds are names the engine itself  *)
(* listed, for that schema and that table, since the request arrived.      *)
THEOREM NamesAreListed == Spec => []OnlyListedNames
<1>1. IInv => OnlyListedNames
  BY DEF IInv, SqlInv, NamesSeen, SchemaSeen, TableSeen, ColumnSeen, OnlyListedNames
<1> QED
  BY <1>1, InitInv, NextInv, PTL DEF Spec

-----------------------------------------------------------------------------
(* What an engine refuses of what a handler asks of it.                    *)
(* What a fallible call makes of a bad request is one of the refusals.     *)
Polite(result) == ~result.ok => result.code \in Refusals

(* A catalogue that others may have edited since.                          *)
Catalogued(d) ==
    /\ {"engine", "fork", "tables", "schemas"} \subseteq DOMAIN d
    /\ \A x, y \in d.tables : x.schema = y.schema /\ x.name = y.name => x = y
    /\ \A x \in d.tables :
        /\ {"schema", "name", "columns", "rows", "stats", "readable"} \subseteq DOMAIN x
        /\ x.columns \in Seq(ToSet(x.columns))
CatalogueInv == \A d \in seen : Catalogued(d)

(* Nothing met the request: its database is as it was at the start.        *)
CalmInv ==
    (seen # {} /\ ~disturbed) => seen = {db} /\ \E s \in ToSet(Sources) : db = Databases[s]

AskedInv ==
    Runs =>
        /\ req \in Requests
        /\ Asks({"data"}) => QueryOpts(req).ok
        /\ Asks({"join"}) => JoinRequest(req).ok

(* Columns are read in an order; off Postgres there are some.              *)
InOrder(columns) ==
    /\ columns \in Seq(ToSet(columns))
    /\ ~disturbed /\ Engine # "postgres" => columns # <<>>
ColumnsInOrder(known) == \A k \in DOMAIN known : k[1] = "columns" => InOrder(known[k])
ColumnsInv == ColumnsInOrder(read)

(* The SELECT is one its engine takes: it returns something, spells its    *)
(* operators as the engine does, and is sorted only when asked to be.      *)
WellPut(q) ==
    /\ q.sort # None => req.sort # None
    /\ Engine # "postgres" =>
        /\ ~disturbed => 1 \in DOMAIN q.list
        /\ \A i \in DOMAIN q.where : q.where[i].keyword # "ILIKE"
PutInv == sql # None => WellPut(sql)

AInv ==
    /\ CatalogueInv /\ CalmInv /\ AskedInv /\ ColumnsInv /\ PutInv
    /\ ServerTypeOK

-----------------------------------------------------------------------------
(* Sequences.  What a recursive function computes is shown by taking the   *)
(* least argument at which it would not.                                   *)

LEMMA LeastOf ==
    ASSUME NEW T, T \subseteq Nat, T # {}
    PROVE  \E m \in T : \A k \in T : m <= k
<1>1. PICK R : R = OpToRel(<, Nat)
  BY Zenon
<1>2. \A x, y \in Nat : x < y => <<x, y>> \in R
  BY <1>1, Zenon DEF OpToRel
<1>3. PICK m \in T : \A y \in T : ~(<<y, m>> \in R)
  BY <1>1, NatLessThanWellFounded, WFMin, Zenon
<1>4. \A y \in T : ~(y < m)
  BY <1>2, <1>3
<1> QED
  BY <1>4

(* The running concatenation that FlattenSeq is defined by.                *)
Flattens(seqs, f, m) ==
    f = [i \in 1..m |-> IF i = 1 THEN seqs[i] ELSE f[i - 1] \o seqs[i]]

LEMMA FlattenExists ==
    ASSUME NEW S, NEW seqs \in Seq(Seq(S)), NEW n \in Nat \ {0}
    PROVE  \E f : Flattens(seqs, f, n)
<1> DEFINE T == {m \in 1..n : ~ \E f : Flattens(seqs, f, m)}
<1>0. n \in 1..n
  OBVIOUS
<1> SUFFICES ASSUME T # {} PROVE FALSE
  BY <1>0
<1>1. PICK m \in T : \A k \in T : m <= k
  <2>1. T \subseteq Nat
    OBVIOUS
  <2> HIDE DEF T
  <2> QED BY <2>1, LeastOf
<1>2. CASE m = 1
  <2>1. Flattens(seqs, [i \in 1..1 |-> seqs[1]], 1)
    BY DEF Flattens
  <2> QED
    BY <1>1, <1>2, <2>1
<1>3. CASE m # 1
  <2>1. m \in 1..n /\ m - 1 \in 1..n /\ m - 1 \notin T
    BY <1>1, <1>3
  <2>2. PICK g : Flattens(seqs, g, m - 1)
    BY <2>1
  <2>0. ~ \E f : Flattens(seqs, f, m)
    BY <1>1
  <2> HIDE DEF T
  <2> DEFINE f == [i \in 1..m |-> IF i = m THEN g[m - 1] \o seqs[m] ELSE g[i]]
  <2>3. \A i \in 1..(m - 1) : g[i] = IF i = 1 THEN seqs[i] ELSE g[i - 1] \o seqs[i]
    BY <2>1, <2>2 DEF Flattens
  <2>4. \A i \in 1..m : f[i] = IF i = 1 THEN seqs[i] ELSE f[i - 1] \o seqs[i]
    <3> SUFFICES ASSUME NEW i \in 1..m
                 PROVE  f[i] = IF i = 1 THEN seqs[i] ELSE f[i - 1] \o seqs[i]
      OBVIOUS
    <3>1. CASE i = m
      <4>1. i - 1 \in 1..m /\ i - 1 # m
        BY <1>3, <2>1, <3>1
      <4> QED BY <1>3, <3>1, <4>1
    <3>2. CASE i # m
      <4>1. i \in 1..(m - 1) /\ f[i] = g[i] 
        BY <2>1, <3>2
      <4>2. i # 1 => f[i - 1] = g[i - 1]
        BY <2>1, <3>2
      <4> QED BY <2>3, <4>1, <4>2
    <3> QED BY <3>1, <3>2
  <2>5. f = [i \in 1..m |-> f[i]]
    OBVIOUS
  <2> HIDE DEF f
  <2>6. Flattens(seqs, f, m)
    BY <2>4, <2>5 DEF Flattens
  <2> QED
    BY <2>0, <2>6
<1> QED BY <1>2, <1>3

LEMMA FlattenIsSeq ==
    ASSUME NEW S, NEW seqs \in Seq(Seq(S)), seqs # <<>>
    PROVE  /\ FlattenSeq(seqs) \in Seq(S)
           /\ (\E i \in DOMAIN seqs : seqs[i] # <<>>) => FlattenSeq(seqs) # <<>>
<1> DEFINE n == Len(seqs)
           flatten == CHOOSE f : Flattens(seqs, f, n)
<1>1. n \in Nat \ {0} /\ DOMAIN seqs = 1..n /\ \A i \in 1..n : seqs[i] \in Seq(S)
  OBVIOUS
<1>2. FlattenSeq(seqs) = flatten[n]
  BY <1>1 DEF FlattenSeq, Flattens
<1>3. Flattens(seqs, flatten, n)
  <2>1. \E f : Flattens(seqs, f, n)
    BY <1>1, FlattenExists
  <2> HIDE DEF n
  <2> QED BY <2>1
<1> HIDE DEF flatten, n
<1>5. \A i \in 1..n : flatten[i] = IF i = 1 THEN seqs[i] ELSE flatten[i - 1] \o seqs[i]
  BY <1>3 DEF Flattens
<1> DEFINE Good(i) == /\ flatten[i] \in Seq(S)
                      /\ (\E j \in 1..i : seqs[j] # <<>>) => flatten[i] # <<>>
           T == {i \in 1..n : ~Good(i)}
<1>6. T = {}
  <2> SUFFICES ASSUME T # {} PROVE FALSE
    OBVIOUS
  <2>1. PICK m \in T : \A k \in T : m <= k
    <3>1. T \subseteq Nat
      BY <1>1
    <3> HIDE DEF T
    <3> QED BY <3>1, LeastOf
  <2>2. CASE m = 1
    BY <1>1, <1>5, <2>1, <2>2
  <2>3. CASE m # 1
    <3>1. m \in 1..n /\ m - 1 \in 1..n /\ Good(m - 1) /\ ~Good(m)
      <4>1. m \in 1..n /\ m - 1 \in 1..n /\ ~Good(m)
        BY <1>1, <2>1, <2>3
      <4>2. m - 1 \notin T
        BY <1>1, <2>1, <4>1
      <4> QED BY <4>1, <4>2
    <3>2. flatten[m] = flatten[m - 1] \o seqs[m]
      BY <1>5, <2>3, <3>1
    <3>3. flatten[m - 1] \in Seq(S) /\ seqs[m] \in Seq(S)
      BY <1>1, <3>1
    <3>4. flatten[m] \in Seq(S)
      BY <3>2, <3>3
    <3>5. flatten[m - 1] # <<>> \/ seqs[m] # <<>> => flatten[m] # <<>>
      BY <3>2, <3>3
    <3>6. (\E j \in 1..m : seqs[j] # <<>>) => (\E j \in 1..(m - 1) : seqs[j] # <<>>) \/ seqs[m] # <<>>
      BY <1>1, <3>1
    <3> QED
      BY <3>1, <3>4, <3>5, <3>6
  <2> QED BY <2>2, <2>3
<1>7. Good(n)
  BY <1>1, <1>6
<1> QED
  BY <1>1, <1>2, <1>7

-----------------------------------------------------------------------------
(* Refusals.                                                               *)

LEMMA PoliteThen ==
    ASSUME NEW a, NEW b, Polite(a), a.ok => Polite(b)
    PROVE  Polite(AndThen(a, b))
BY DEF AndThen, Polite

LEMMA PoliteOk == \A v : Polite(Ok(v))
BY DEF Polite, Ok

LEMMA PoliteErr == \A code \in Refusals : Polite(Err(code))
BY DEF Polite, Err

LEMMA PoliteFirst ==
    ASSUME NEW results, DOMAIN results \subseteq Nat, \A i \in DOMAIN results : Polite(results[i])
    PROVE  Polite(FirstError(results))
<1> DEFINE bad == {i \in DOMAIN results : ~results[i].ok}
<1>1. CASE bad = {}
  BY <1>1, PoliteOk DEF FirstError
<1>2. CASE bad # {}
  <2>1. Min(bad) \in bad
    <3>1. bad \subseteq Nat
      OBVIOUS
    <3> HIDE DEF bad
    <3>2. \E m \in bad : \A k \in bad : m <= k
      BY <1>2, <3>1, LeastOf
    <3> QED
      BY <3>2 DEF Min
  <2>2. FirstError(results) = Err(results[Min(bad)].code)
    BY <1>2 DEF FirstError
  <2>3. results[Min(bad)].code \in Refusals
    BY <2>1 DEF Polite
  <2> QED
    BY <2>2, <2>3, PoliteErr
<1> QED
  BY <1>1, <1>2

(* What is refused before any statement runs.                              *)
LEMMA FilterOfIs ==
    ASSUME NEW raw, NEW allowJoin,
           raw \in {None, Blank, Oversize, Malformed} \/ raw \in Seq(ToSet(raw))
    PROVE  /\ Polite(FilterOf(raw, allowJoin))
           /\ FilterOf(raw, allowJoin).ok /\ FilterOf(raw, allowJoin).val # None =>
                DOMAIN FilterOf(raw, allowJoin).val \subseteq Nat
<1>1. CASE raw \in {None, Blank}
  BY <1>1, PoliteOk DEF FilterOf, Ok
<1>2. CASE raw \notin {None, Blank}
  <2> DEFINE parsed == ParseFilter(raw, allowJoin)
  <2>1. parsed = Err("invalid_filter")
        \/ (parsed = Ok(raw) /\ raw \notin {Oversize, Malformed})
    BY DEF ParseFilter
  <2>2. parsed = Ok(raw) => DOMAIN raw \subseteq Nat
    BY <1>2, <2>1 DEF Ok, Err
  <2>3. "invalid_filter" \in Refusals
    BY DEF Refusals
  <2> HIDE DEF parsed
  <2>4. FilterOf(raw, allowJoin) = parsed \/ FilterOf(raw, allowJoin) = Ok(None)
    BY <1>2 DEF FilterOf, parsed
  <2>5. Polite(parsed) /\ Polite(Ok(None))
    BY <2>1, <2>3, PoliteErr, PoliteOk
  <2>6. CASE FilterOf(raw, allowJoin) = Ok(None)
    BY <2>5, <2>6 DEF Ok
  <2>7. CASE FilterOf(raw, allowJoin) = parsed /\ parsed = Ok(raw)
    BY <2>2, <2>5, <2>7 DEF Ok
  <2>8. CASE FilterOf(raw, allowJoin) = parsed /\ parsed = Err("invalid_filter")
    BY <2>5, <2>8 DEF Err
  <2> QED
    BY <2>1, <2>4, <2>6, <2>7, <2>8
<1> QED
  BY <1>1, <1>2

LEMMA DescendingPolite == \A order : Polite(IsDescending(order))
BY DEF IsDescending, Polite, Ok, Err, Refusals

LEMMA QueryOptsIs ==
    ASSUME NEW r \in Requests
    PROVE  /\ Polite(QueryOpts(r))
           /\ QueryOpts(r).ok =>
                /\ QueryOpts(r).val.sort = r.sort
                /\ QueryOpts(r).val.filter # None => DOMAIN QueryOpts(r).val.filter \subseteq Nat
<1> DEFINE filter == FilterOf(r.filter, FALSE)
           descending == IsDescending(r.order)
           opts == [page |-> Paging(r), sort |-> r.sort, descending |-> descending.val,
                    timeout |-> QueryTimeoutSecs, filter |-> filter.val]
<1>1. QueryOpts(r) = AndThen(filter, AndThen(descending, Ok(opts)))
  BY DEF QueryOpts
<1>2. Polite(filter) /\ (filter.ok /\ filter.val # None => DOMAIN filter.val \subseteq Nat)
  BY FilterOfIs, RequestsAssumption
<1>3. Polite(descending)
  BY DescendingPolite
<1>4. opts.sort = r.sort /\ opts.filter = filter.val
  OBVIOUS
<1> HIDE DEF filter, descending, opts
<1>5. Polite(QueryOpts(r))
  BY <1>1, <1>2, <1>3, PoliteThen, PoliteOk
<1>6. QueryOpts(r).ok => filter.ok /\ QueryOpts(r) = Ok(opts)
  BY <1>1, AndThenOk
<1> QED
  BY <1>2, <1>4, <1>5, <1>6 DEF Ok

LEMMA JoinRequestIs ==
    ASSUME NEW r \in Requests
    PROVE  /\ Polite(JoinRequest(r))
           /\ JoinRequest(r).ok =>
                /\ ParseJoin(r.join).ok
                /\ JoinRequest(r).val.sort = r.sort
                /\ JoinRequest(r).val.filter # None => DOMAIN JoinRequest(r).val.filter \subseteq Nat
<1> DEFINE spec == ParseJoin(r.join)
           filter == FilterOf(r.filter, TRUE)
           descending == IsDescending(r.order)
           opts == [spec |-> spec.val, page |-> Paging(r), sort |-> r.sort,
                    sortJoin |-> r.sortJoin, descending |-> descending.val,
                    timeout |-> QueryTimeoutSecs, filter |-> filter.val]
           last == IF r.sortJoin = Malformed THEN Err("invalid_parameter") ELSE Ok(opts)
<1>1. JoinRequest(r) = AndThen(spec, AndThen(filter, AndThen(descending, last)))
  BY DEF JoinRequest
<1>2. Polite(filter) /\ (filter.ok /\ filter.val # None => DOMAIN filter.val \subseteq Nat)
  BY FilterOfIs, RequestsAssumption
<1>3. Polite(descending)
  BY DescendingPolite
<1>4. opts.sort = r.sort /\ opts.filter = filter.val
  OBVIOUS
<1>5. Polite(spec)
  BY PoliteOk, PoliteErr DEF ParseJoin, Refusals
<1>6. Polite(last) /\ (last.ok => last = Ok(opts))
  BY PoliteOk, PoliteErr DEF Refusals, Err
<1> HIDE DEF filter, descending, opts, spec, last
<1>7. Polite(JoinRequest(r))
  BY <1>1, <1>2, <1>3, <1>5, <1>6, PoliteThen
<1>8. JoinRequest(r).ok => spec.ok /\ filter.ok /\ JoinRequest(r) = Ok(opts)
  <2> SUFFICES ASSUME JoinRequest(r).ok PROVE spec.ok /\ filter.ok /\ JoinRequest(r) = Ok(opts)
    OBVIOUS
  <2>1. spec.ok /\ JoinRequest(r) = AndThen(filter, AndThen(descending, last))
    BY <1>1, AndThenOk
  <2>2. filter.ok /\ JoinRequest(r) = AndThen(descending, last)
    BY <2>1, AndThenOk
  <2>3. JoinRequest(r) = last
    BY <2>2, AndThenOk
  <2> QED
    BY <1>6, <2>1, <2>2, <2>3
<1> QED
  BY <1>2, <1>4, <1>7, <1>8 DEF Ok, spec

LEMMA EarlyPolite ==
    ASSUME NEW r \in Requests
    PROVE  Polite(EarlyFault(r))
<1> DEFINE first == Extract(r)
           source == ResolveSource(Sources, r.source)
           third == CASE r.route = "data" -> QueryOpts(r)
                      [] r.route = "join" -> JoinRequest(r)
                      [] OTHER -> Ok(None)
           last == IF r.route # "schemas" /\ IsSqlite(r) THEN Sq!CheckSchema(r.schema) ELSE Ok(None)
<1>1. EarlyFault(r) = IF r.route \in Standalone THEN Ok(None)
                      ELSE AndThen(first, AndThen(source, AndThen(third, last)))
  BY DEF EarlyFault
<1>2. Polite(first)
  BY PoliteOk, PoliteErr DEF Extract, Refusals
<1>3. Polite(source)
  BY PoliteOk, PoliteErr DEF ResolveSource, Refusals
<1>4. Polite(third)
  BY PoliteOk, QueryOptsIs, JoinRequestIs
<1>5. Polite(last)
  BY DEF Sq!CheckSchema, Sq!Ok, Sq!Err, Polite, Ok, Refusals
<1> HIDE DEF first, source, third, last
<1> QED
  BY <1>1, <1>2, <1>3, <1>4, <1>5, PoliteThen, PoliteOk

-----------------------------------------------------------------------------
(* The verdict between two statements.                                     *)

LEMMA MetaInOrder ==
    ASSUME NEW known, ColumnsInOrder(known), NEW t, Has(known, "columns", t)
    PROVE  LET columns == TableMeta(known, t).columns
           IN /\ columns \in Seq(ToSet(columns))
              /\ ~disturbed /\ Engine # "postgres" => columns # <<>>
<1> DEFINE raw == known[<<"columns", t>>]
           columns == TableMeta(known, t).columns
<1>1. raw \in Seq(ToSet(raw)) /\ (~disturbed /\ Engine # "postgres" => raw # <<>>)
  BY DEF Has, ColumnsInOrder, InOrder
<1>2. columns = [i \in DOMAIN raw |-> columns[i]]
  BY DEF TableMeta
<1> HIDE DEF raw, columns
<1>3. Len(raw) \in Nat /\ DOMAIN raw = 1..Len(raw)
  BY <1>1
<1>4. \A i \in 1..Len(raw) : columns[i] \in ToSet(columns)
  BY <1>2, <1>3 DEF ToSet
<1>5. columns \in Seq(ToSet(columns)) /\ Len(columns) = Len(raw)
  BY <1>2, <1>3, <1>4
<1> QED
  BY <1>1, <1>5 DEF columns

LEMMA WherePut ==
    ASSUME NEW filter, NEW columns, HasEngine(db), DOMAIN filter \subseteq Nat
    PROVE  LET where == Where(filter, columns)
           IN /\ Polite(where)
              /\ where.ok /\ Engine # "postgres" =>
                    \A i \in DOMAIN where.val : where.val[i].keyword # "ILIKE"
<1> DEFINE checks == CheckAll(filter, columns)
           where == Where(filter, columns)
<1>1. \A i \in DOMAIN filter : Polite(Check(filter, columns, i))
  BY DEF Check, Polite, Ok, Err, Refusals
<1>2. Polite(FirstError(checks))
  <2>1. DOMAIN checks \subseteq Nat /\ \A i \in DOMAIN checks : Polite(checks[i])
    BY <1>1 DEF CheckAll
  <2> QED
    BY <2>1, PoliteFirst
<1>3. where = AndThen(FirstError(checks), Ok(Terms(filter)))
  BY WhereIs
<1>4. Polite(where)
  BY <1>2, <1>3, PoliteThen, PoliteOk
<1>5. where.ok => where = Ok(Terms(filter))
  BY <1>3, AndThenOk
<1>6. Engine # "postgres" => \A i \in DOMAIN filter : Terms(filter)[i].keyword # "ILIKE"
  <2>1. Engine # "postgres" => \A op : Keyword(op) # "ILIKE"
    BY DEF Keyword, By, HasEngine, Engine, My!Keyword, Sq!Keyword
  <2> QED
    BY <2>1 DEF Terms
<1>7. DOMAIN Terms(filter) = DOMAIN filter
  BY DEF Terms
<1> HIDE DEF where
<1> QED
  BY <1>4, <1>5, <1>6, <1>7 DEF Ok, where

LEMMA TablePut ==
    ASSUME NEW known, ColumnsInOrder(known), HasEngine(db), Has(known, "columns", req.table),
           req \in Requests, QueryOpts(req).ok
    PROVE  Polite(TableSelect(known))
           /\ (TableSelect(known).ok => WellPut(TableSelect(known).val))
<1> DEFINE opts == QueryOpts(req).val
           columns == TableMeta(known, req.table).columns
           names == Names(columns)
           filter == IF opts.filter = None THEN <<>> ELSE opts.filter
           where == Where(filter, ToSet(names))
           q == TableSelect(known).val
<1>1. TableSelect(known) = QueryTable(SchemaOf(known), names, opts, where)
  BY DEF TableSelect
<1>2. /\ columns \in Seq(ToSet(columns))
      /\ ~disturbed /\ Engine # "postgres" => columns # <<>>
  BY MetaInOrder
<1>3. DOMAIN filter \subseteq Nat /\ opts.sort = req.sort
  BY QueryOptsIs
<1>4. DOMAIN names = DOMAIN columns
  BY DEF Names
<1> HIDE DEF opts, columns, filter
<1>5. /\ Polite(where)
      /\ where.ok /\ Engine # "postgres" =>
            \A i \in DOMAIN where.val : where.val[i].keyword # "ILIKE"
  BY <1>3, WherePut
<1> HIDE DEF where, names
<1>6. Polite(TableSelect(known))
  <2>1. TableSelect(known) = Err("unknown_column")
        \/ \E v : TableSelect(known) = AndThen(where, Ok(v))
    BY <1>1 DEF QueryTable
  <2> QED
    BY <1>5, <2>1, PoliteOk, PoliteErr, PoliteThen DEF Refusals
<1> DEFINE order == IF opts.sort = None THEN None
                    ELSE NativeOrder(<<0, opts.sort>>, opts.descending)
<1>7. ASSUME TableSelect(known).ok
      PROVE  /\ where.ok /\ q.where = where.val
             /\ q.list = [i \in DOMAIN names |-> <<0, names[i]>>]
             /\ q.sort = order
  <2>1. where.ok
    BY <1>1, <1>7, QueryTableIs, ZenonT(40)
  <2>3. q = [schema |-> SchemaOf(known), bare |-> TRUE, tables |-> <<req.table>>,
             kinds |-> <<>>, ons |-> <<>>, onText |-> FALSE,
             list |-> [i \in DOMAIN names |-> <<0, names[i]>>],
             where |-> where.val, sort |-> order,
             limit |-> opts.page.limit, offset |-> opts.page.offset]
    BY <1>1, <1>7, QueryTableIs, SMTT(30)
  <2> HIDE DEF q, order
  <2> QED
    BY <2>1, <2>3, SMTT(30)
<1>8. columns # <<>> => 1 \in DOMAIN columns
  <2>1. PICK S : columns \in Seq(S)
    BY <1>2
  <2> QED
    BY <2>1
<1> HIDE DEF q
<1>9. TableSelect(known).ok /\ columns # <<>> => 1 \in DOMAIN q.list
  BY <1>4, <1>7, <1>8
<1> QED
  BY <1>2, <1>3, <1>5, <1>6, <1>7, <1>9 DEF WellPut, q

(* The columns of a join: those asked for, or all there are.               *)
LEMMA SelectionIs ==
    ASSUME NEW known, ColumnsInOrder(known),
           req \in Requests, Asks({"join"}), req.join # None, ParseJoin(req.join).ok,
           \A p \in DOMAIN Tables : Has(known, "columns", Tables[p])
    PROVE  LET selection ==
                Selection(req.join, [p \in DOMAIN Tables |-> TableMeta(known, Tables[p])])
           IN /\ DOMAIN selection \subseteq Nat
              /\ ~disturbed /\ Engine # "postgres" => 1 \in DOMAIN selection
<1> DEFINE metas == [p \in DOMAIN Tables |-> TableMeta(known, Tables[p])]
           selection == Selection(req.join, metas)
<1>1. CASE req.join.columns # None
  <2>1. req.join \notin {Oversize, Malformed} /\ req.join.columns # <<>>
    BY <1>1 DEF ParseJoin, Err
  <2>2. req.join.columns \in Seq(ToSet(req.join.columns))
    BY <1>1, <2>1, RequestsAssumption DEF Asks
  <2>3. selection = req.join.columns
    BY <1>1 DEF Selection
  <2> QED
    BY <2>1, <2>2, <2>3
<1>2. CASE req.join.columns = None
  <2> DEFINE seqs == [p \in DOMAIN metas |->
                        [c \in DOMAIN metas[p].columns |-> <<p - 1, metas[p].columns[c].name>>]]
             S == UNION {ToSet(seqs[p]) : p \in DOMAIN Tables}
  <2>1. selection = FlattenSeq(seqs)
    BY <1>2 DEF Selection
  <2>2. PICK n \in Nat \ {0} : DOMAIN Tables = 1..n
    BY JoinShape
  <2>3. DOMAIN metas = 1..n /\ DOMAIN seqs = 1..n
    BY <2>2
  <2>4. ASSUME NEW p \in 1..n
        PROVE  seqs[p] \in Seq(S) /\ (~disturbed /\ Engine # "postgres" => seqs[p] # <<>>)
    <3>1. PICK columns : columns = metas[p].columns
      OBVIOUS
    <3>2. /\ columns \in Seq(ToSet(columns))
          /\ ~disturbed /\ Engine # "postgres" => columns # <<>>
      BY <2>2, <3>1, MetaInOrder
    <3>3. seqs[p] = [c \in DOMAIN columns |-> <<p - 1, columns[c].name>>]
      BY <2>3, <3>1
    <3>4. Len(columns) \in Nat /\ DOMAIN columns = 1..Len(columns)
      BY <3>2
    <3>7. p \in DOMAIN Tables
      BY <2>2
    <3> HIDE DEF seqs
    <3>8. ToSet(seqs[p]) \subseteq S
      BY <3>7
    <3> HIDE DEF S
    <3>5. \A c \in 1..Len(columns) : seqs[p][c] \in S
      BY <3>3, <3>4, <3>8 DEF ToSet
    <3>6. seqs[p] \in Seq(S) /\ Len(seqs[p]) = Len(columns)
      BY <3>3, <3>4, <3>5
    <3> QED
      BY <3>2, <3>6
  <2> HIDE DEF S, metas
  <2>5. seqs \in Seq(Seq(S)) /\ seqs # <<>> /\ 1 \in DOMAIN seqs
    BY <2>2, <2>3, <2>4
  <2> HIDE DEF seqs
  <2>6. /\ FlattenSeq(seqs) \in Seq(S)
        /\ (\E i \in DOMAIN seqs : seqs[i] # <<>>) => FlattenSeq(seqs) # <<>>
    BY <2>5, FlattenIsSeq
  <2>7. ~disturbed /\ Engine # "postgres" => \E i \in DOMAIN seqs : seqs[i] # <<>>
    BY <2>3, <2>4, <2>5
  <2> HIDE DEF selection
  <2>8. DOMAIN selection \subseteq Nat
    BY <2>1, <2>6
  <2> QED
    BY <2>1, <2>6, <2>7, <2>8 DEF selection, metas
<1> QED
  BY <1>1, <1>2

LEMMA ColumnPolite ==
    ASSUME NEW meta, NEW name
    PROVE  Polite(ColumnIndex(meta, name)) /\ Polite(JoinColumnIndex(meta, name))
<1>1. Polite(ColumnIndex(meta, name))
  BY PoliteOk, PoliteErr DEF ColumnIndex, Refusals
<1> QED
  BY <1>1, PoliteErr DEF JoinColumnIndex, Refusals

LEMMA PairPolite ==
    ASSUME NEW spec, NEW metas, DOMAIN spec.joins \subseteq Nat,
           \A i \in DOMAIN spec.joins : DOMAIN spec.joins[i].on \subseteq Nat
    PROVE  Polite(PairFault(spec, metas))
<1> DEFINE fault(i, pair) ==
                LET lc == JoinColumnIndex(metas[pair.left[1] + 1], pair.left[2])
                    rc == JoinColumnIndex(metas[i + 1], pair.right)
                IN CASE ~lc.ok -> lc [] ~rc.ok -> rc [] OTHER -> CheckPair(lc.val, rc.val)
           ofJoin(i) == [j \in DOMAIN spec.joins[i].on |-> fault(i, spec.joins[i].on[j])]
           all == [i \in DOMAIN spec.joins |-> FirstError(ofJoin(i))]
<1>1. \A i, pair : Polite(fault(i, pair))
  <2> SUFFICES ASSUME NEW i, NEW pair PROVE Polite(fault(i, pair))
    OBVIOUS
  <2> DEFINE lc == JoinColumnIndex(metas[pair.left[1] + 1], pair.left[2])
             rc == JoinColumnIndex(metas[i + 1], pair.right)
  <2>1. Polite(lc) /\ Polite(rc)
    BY ColumnPolite
  <2>2. Polite(CheckPair(lc.val, rc.val))
    BY PoliteOk, PoliteErr DEF CheckPair, Refusals
  <2> HIDE DEF lc, rc
  <2>3. Polite(CASE ~lc.ok -> lc [] ~rc.ok -> rc [] OTHER -> CheckPair(lc.val, rc.val))
    BY <2>1, <2>2
  <2> QED
    BY <2>3 DEF lc, rc
<1> HIDE DEF fault
<1>2. \A i \in DOMAIN spec.joins : Polite(FirstError(ofJoin(i)))
  BY <1>1, PoliteFirst
<1> HIDE DEF ofJoin
<1>3. Polite(FirstError(all))
  BY <1>2, PoliteFirst
<1>4. PairFault(spec, metas) = FirstError(all)
  BY DEF PairFault, all, ofJoin, fault
<1> QED
  BY <1>3, <1>4

LEMMA SelectionPolite ==
    ASSUME NEW selection, NEW metas, DOMAIN selection \subseteq Nat
    PROVE  Polite(ColumnFault(selection, metas))
<1> DEFINE checks == [i \in DOMAIN selection |->
                        IF selection[i][1] + 1 \notin DOMAIN metas THEN Err("invalid_join")
                        ELSE JoinColumnIndex(metas[selection[i][1] + 1], selection[i][2])]
<1>1. DOMAIN checks \subseteq Nat /\ \A i \in DOMAIN checks : Polite(checks[i])
  BY ColumnPolite, PoliteErr DEF Refusals
<1> HIDE DEF checks
<1>2. Polite(FirstError(checks))
  BY <1>1, PoliteFirst
<1> QED
  BY <1>2 DEF ColumnFault, checks

LEMMA FilterPolite ==
    ASSUME NEW filter, NEW metas, DOMAIN filter \subseteq Nat
    PROVE  Polite(FilterFault(filter, metas))
<1> DEFINE checks == [i \in DOMAIN filter |->
        CASE Position(filter[i].join) + 1 \notin DOMAIN metas -> Err("invalid_filter")
          [] TakesValue(filter[i].op) # (filter[i].value # None) -> Err("invalid_filter")
          [] OTHER -> ColumnIndex(metas[Position(filter[i].join) + 1], filter[i].column)]
<1>1. DOMAIN checks \subseteq Nat /\ \A i \in DOMAIN checks : Polite(checks[i])
  BY ColumnPolite, PoliteErr DEF Refusals
<1> HIDE DEF checks
<1>2. Polite(FirstError(checks))
  BY <1>1, PoliteFirst
<1> QED
  BY <1>2 DEF FilterFault, checks

LEMMA JoinPut ==
    ASSUME NEW known, ColumnsInOrder(known), HasEngine(db),
           req \in Requests, Asks({"join"}), req.join # None, JoinRequest(req).ok,
           \A p \in DOMAIN Tables : Has(known, "columns", Tables[p])
    PROVE  /\ Polite(JoinSelect(known))
           /\ JoinSelect(known).ok => WellPut(JoinSelect(known).val)
<1> DEFINE spec == req.join
           opts == JoinRequest(req).val
           metas == [p \in DOMAIN Tables |-> TableMeta(known, Tables[p])]
           selection == Selection(spec, metas)
           filter == IF opts.filter = None THEN <<>> ELSE opts.filter
           faults == <<PairFault(spec, metas), ColumnFault(selection, metas),
                       FilterFault(filter, metas), SortFault(opts.sort, opts.sortJoin, metas)>>
           order == IF opts.sort = None THEN None
                    ELSE NativeOrder(<<Position(opts.sortJoin), opts.sort>>, opts.descending)
           plan == [spec |-> spec, tables |-> metas, selection |-> selection,
                    labels |-> AssignLabels(selection), filter |-> filter, sort |-> order]
           q == JoinSelect(known).val
<1>1. JoinPlan(known) = AndThen(FirstError(faults), Ok(plan))
  BY DEF JoinPlan, Plan
<1>2. /\ ParseJoin(spec).ok /\ opts.sort = req.sort
      /\ DOMAIN filter \subseteq Nat
  BY JoinRequestIs
<1>3. DOMAIN selection \subseteq Nat /\ (~disturbed /\ Engine # "postgres" => 1 \in DOMAIN selection)
  BY <1>2, SelectionIs
<1>4. Polite(PairFault(spec, metas))
  <2>1. spec \notin {None, Oversize, Malformed}
    BY <1>2 DEF ParseJoin, Err
  <2>2. /\ spec.joins \in Seq(ToSet(spec.joins))
        /\ \A i \in DOMAIN spec.joins : spec.joins[i].on \in Seq(ToSet(spec.joins[i].on))
    BY <2>1, RequestsAssumption DEF Asks
  <2> HIDE DEF spec, metas
  <2>3. DOMAIN spec.joins \subseteq Nat
        /\ \A i \in DOMAIN spec.joins : DOMAIN spec.joins[i].on \subseteq Nat
    BY <2>2
  <2> QED
    BY <2>3, PairPolite
<1> HIDE DEF spec, opts, metas, selection, filter
<1>5. Polite(FirstError(faults))
  <2>1. Polite(ColumnFault(selection, metas)) /\ Polite(FilterFault(filter, metas))
    BY <1>2, <1>3, SelectionPolite, FilterPolite
  <2>2. Polite(SortFault(opts.sort, opts.sortJoin, metas))
    BY ColumnPolite, PoliteOk, PoliteErr DEF SortFault, Refusals
  <2>3. DOMAIN faults \subseteq Nat /\ \A i \in DOMAIN faults : Polite(faults[i])
    BY <1>4, <2>1, <2>2
  <2> HIDE DEF faults
  <2> QED
    BY <2>3, PoliteFirst
<1> HIDE DEF faults, plan
<1>6. Polite(JoinPlan(known))
  BY <1>1, <1>5, PoliteThen, PoliteOk
<1>7. JoinSelect(known) = AndThen(JoinPlan(known),
            Ok(BuildSelect(JoinPlan(known).val, SchemaOf(known), Keyword,
                           Paging(req).limit + 1, Paging(req).offset)))
  BY DEF JoinSelect, QueryJoin
<1>8. Polite(JoinSelect(known))
  BY <1>6, <1>7, PoliteThen, PoliteOk
<1>9. ASSUME JoinSelect(known).ok
      PROVE  /\ q.list = selection /\ q.sort = order
             /\ \A i \in DOMAIN q.where : q.where[i].keyword = Keyword(filter[i].op)
  <2>1. JoinPlan(known).ok /\ q = BuildSelect(JoinPlan(known).val, SchemaOf(known), Keyword,
                                              Paging(req).limit + 1, Paging(req).offset)
    BY <1>7, <1>9, AndThenOk DEF Ok
  <2>2. JoinPlan(known) = Ok(plan)
    BY <1>1, <2>1, AndThenOk
  <2>3. q = BuildSelect(plan, SchemaOf(known), Keyword, Paging(req).limit + 1, Paging(req).offset)
    BY <2>1, <2>2 DEF Ok
  <2> HIDE DEF q, order
  <2> QED
    BY <2>3 DEF BuildSelect, plan
<1>10. Engine # "postgres" => \A op : Keyword(op) # "ILIKE"
  BY DEF Keyword, By, HasEngine, Engine, My!Keyword, Sq!Keyword
<1> HIDE DEF q
<1> QED
  BY <1>2, <1>3, <1>8, <1>9, <1>10 DEF WellPut, q

LEMMA VerdictPut ==
    ASSUME NEW known, Vouched(known), ColumnsInOrder(known), HasEngine(db), Runs, JoinInv, AskedInv
    PROVE  /\ Polite(Verdict(known))
           /\ Verdict(known).ok /\ Selects(known) => WellPut(Verdict(known).val)
<1> DEFINE schema == SchemaFault(known)
           table == TableFault(known)
           names == NamesFault(known)
           last == IF Selects(known) THEN SelectOf(known) ELSE Ok(None)
<1>1. Verdict(known) = AndThen(schema, AndThen(table, AndThen(names, last)))
  BY DEF Verdict
<1>2. Polite(schema)
  <2>1. \A listed, wanted : Polite(ResolveSchema(listed, wanted))
    BY PoliteOk, PoliteErr DEF ResolveSchema, Refusals
  <2> QED
    BY <2>1, PoliteOk DEF SchemaFault
<1>3. Polite(table)
  BY PoliteOk, PoliteErr DEF TableFault, UnknownJoinTable, Refusals
<1>4. Polite(names)
  BY PoliteOk, PoliteErr DEF NamesFault, Refusals
<1>5. ASSUME Selects(known)
      PROVE  Polite(SelectOf(known)) /\ (SelectOf(known).ok => WellPut(SelectOf(known).val))
  <2>1. \A p \in DOMAIN Tables : Has(known, "columns", Tables[p])
    BY <1>5, SelectsDescribed
  <2>2. CASE Asks({"join"})
    BY <2>1, <2>2, JoinPut DEF SelectOf, JoinInv, AskedInv
  <2>3. CASE ~Asks({"join"})
    <3>1. Asks({"data"})
      BY <1>5, <2>3 DEF Selects, Asks
    <3>2. Tables = <<req.table>>
      BY <2>3, <3>1 DEF Tables, Asks
    <3>3. Has(known, "columns", req.table)
      BY <2>1, <3>2
    <3> QED
      BY <2>3, <3>1, <3>3, TablePut DEF SelectOf, AskedInv
  <2> QED
    BY <2>2, <2>3
<1>6. Polite(last) /\ (last.ok /\ Selects(known) => WellPut(last.val))
  BY <1>5, PoliteOk
<1> HIDE DEF schema, table, names, last
<1>7. Polite(Verdict(known))
  BY <1>1, <1>2, <1>3, <1>4, <1>6, PoliteThen
<1>8. Verdict(known).ok => last.ok /\ Verdict(known) = last
  <2> SUFFICES ASSUME Verdict(known).ok PROVE last.ok /\ Verdict(known) = last
    OBVIOUS
  <2>1. AndThen(table, AndThen(names, last)).ok /\ Verdict(known) = AndThen(table, AndThen(names, last))
    BY <1>1, AndThenOk
  <2>2. AndThen(names, last).ok /\ Verdict(known) = AndThen(names, last)
    BY <2>1, AndThenOk
  <2> QED
    BY <2>2, AndThenOk
<1> QED
  BY <1>6, <1>7, <1>8

-----------------------------------------------------------------------------
(* The SELECT itself.                                                      *)

(* A database nobody has touched is as the assumptions say.                *)
Untouched(d) ==
    /\ Catalogued(d)
    /\ IsFiniteSet(d.tables)
    /\ \A x \in d.tables : x.name \in ToSet(NameOrder) \ NulNames
    /\ d.engine # "postgres" => \A x \in d.tables : x.columns # <<>>
    /\ d.engine = "sqlite" =>
        /\ \A x, y \in d.tables : Fold[x.name] = Fold[y.name] => x = y
        /\ \A x \in d.tables : x.readable /\ x.schema \in DOMAIN d.schemas
        /\ \A n \in DOMAIN d.schemas : d.schemas[n].usage

LEMMA DatabaseIs == \A s \in ToSet(Sources) : Untouched(Databases[s])
<1> SUFFICES ASSUME NEW s \in ToSet(Sources) PROVE Untouched(Databases[s])
  OBVIOUS
<1>1. PICK d : d = Databases[s]
  OBVIOUS
<1>2. "engine" \in DOMAIN d
  BY <1>1, DatabasesAssumption
<1>3. /\ {"fork", "tables", "schemas"} \subseteq DOMAIN d
      /\ IsFiniteSet(d.tables)
      /\ \A x, y \in d.tables : x.schema = y.schema /\ x.name = y.name => x = y
      /\ \A x \in d.tables :
            /\ {"schema", "name", "columns", "rows", "stats", "readable"} \subseteq DOMAIN x
            /\ x.name \in ToSet(NameOrder) \ NulNames
            /\ x.columns \in Seq(ToSet(x.columns))
            /\ d.engine # "postgres" => x.columns # <<>>
      /\ d.engine = "sqlite" =>
            /\ \A x, y \in d.tables : Fold[x.name] = Fold[y.name] => x = y
            /\ \A x \in d.tables : x.schema \in DOMAIN d.schemas /\ x.readable
            /\ \A n \in DOMAIN d.schemas : d.schemas[n].usage
  BY <1>1, CatalogueAssumption
<1>4. Untouched(d)
  BY <1>2, <1>3 DEF Untouched, Catalogued
<1> QED
  BY <1>1, <1>4

LEMMA CalmIs ==
    ASSUME CalmInv, seen # {}, ~disturbed
    PROVE  seen = {db} /\ Untouched(db)
BY DatabaseIs DEF CalmInv

(* Its tables and columns are there.                                       *)
LEMMA Present ==
    ASSUME SqlInv, CalmInv, SeenInv, seen # {}, ~disturbed, sql # None
    PROVE  /\ ~Missing(db, sql)
           /\ \A i \in DOMAIN sql.tables :
                Pick(db, sql.schema, sql.tables[i]) \in TablesAt(db, sql.schema, sql.tables[i])
           /\ \A ref \in Listed(sql) : \E x \in db.tables : x.schema = sql.schema
<1>1. seen = {db} /\ Untouched(db)
  BY CalmIs
<1>2. NamesSeen(sql)
  BY DEF SqlInv
<1>3. \A t : TableSeen(sql.schema, t) => TablesAt(db, sql.schema, t) # {}
  BY <1>1 DEF TableSeen, Served
<1>4. \A t : TableSeen(sql.schema, t) => Pick(db, sql.schema, t) \in TablesAt(db, sql.schema, t)
  BY <1>3 DEF Pick
<1>5. ASSUME NEW t, NEW c, ColumnSeen(sql.schema, t, c)
      PROVE  c \in ColumnNames(Pick(db, sql.schema, t))
  <2> DEFINE x == Pick(db, sql.schema, t)
  <2>1. x \in db.tables /\ x.schema = sql.schema /\ x.name = t
    BY <1>4, <1>5 DEF ColumnSeen, TablesAt
  <2>2. HasColumn(db, sql.schema, t, c)
    BY <1>1, <1>5 DEF ColumnSeen
  <2>3. PICK y \in Relations(db, sql.schema, t) : c \in ColumnNames(y)
    BY <2>2 DEF HasColumn
  <2> HIDE DEF x
  <2>4. CASE db.engine # "sqlite"
    <3>1. y \in db.tables /\ y.schema = sql.schema /\ y.name = t
      BY <2>3, <2>4 DEF Relations, TablesAt
    <3>2. y = x
      BY <1>1, <2>1, <3>1 DEF Untouched, Catalogued
    <3> QED
      BY <2>3, <3>2 DEF x
  <2>5. CASE db.engine = "sqlite"
    <3>1. y \in db.tables /\ Fold[y.name] = Fold[t]
      BY <2>3, <2>5 DEF Relations, Sq!Located
    <3>2. y = x
      BY <1>1, <2>1, <2>5, <3>1 DEF Untouched
    <3> QED
      BY <2>3, <3>2 DEF x
  <2> QED
    BY <2>4, <2>5
<1>6. \A ref \in Qualified(sql) \cup Listed(sql) :
        ref[2] \in ColumnNames(TableOf(db, sql, ref[1]))
  BY <1>2, <1>5 DEF NamesSeen, TableOf
<1>7. \A i \in DOMAIN sql.tables : TablesAt(db, sql.schema, sql.tables[i]) # {}
  BY <1>2, <1>3 DEF NamesSeen
<1>8. ~Missing(db, sql)
  BY <1>6, <1>7 DEF Missing
<1>9. \A i \in DOMAIN sql.tables :
        Pick(db, sql.schema, sql.tables[i]) \in TablesAt(db, sql.schema, sql.tables[i])
  BY <1>2, <1>4 DEF NamesSeen
<1>10. \A ref \in Listed(sql) : \E x \in db.tables : x.schema = sql.schema
  BY <1>2, <1>3 DEF NamesSeen, ColumnSeen, TablesAt
<1> QED
  BY <1>8, <1>9, <1>10

(* Why the engine has no rows for a SELECT.                                *)
LEMMA EvaluateIs ==
    ASSUME NEW d, NEW q
    PROVE  \/ Evaluate(d, q) = Err("error") /\ Invalid(d, q)
           \/ /\ ~Invalid(d, q)
              /\ \/ /\ Evaluate(d, q) = Err("undefined")
                    /\ Unsortable(d, q) \/ (d.engine = "postgres" /\ Unjoinable(d, q))
                 \/ Evaluate(d, q) = Err("encoding") /\ Unencodable(d, q)
                 \/ Evaluate(d, q) = Err("denied") /\ Denied(d, q)
                 \/ /\ Evaluate(d, q) = Err("error")
                    /\ d.engine # "postgres" /\ Unjoinable(d, q)
                 \/ /\ ~Unsortable(d, q) /\ ~Unencodable(d, q) /\ ~Denied(d, q)
                    /\ ~Unjoinable(d, q)
                    /\ \E v : Evaluate(d, q) = Ok(v)
<1>1. \E v : Evaluate(d, q) =
        IF Invalid(d, q) THEN Err("error")
        ELSE IF Unsortable(d, q) \/ (d.engine = "postgres" /\ Unjoinable(d, q)) THEN Err("undefined")
        ELSE IF Unencodable(d, q) THEN Err("encoding")
        ELSE IF Denied(d, q) THEN Err("denied")
        ELSE IF Unjoinable(d, q) THEN Err("error")
        ELSE Ok(v)
  BY DEF Evaluate
<1> QED
  BY <1>1

(* What may come of a SELECT, and why.                                     *)
LEMMA OutcomesAre ==
    ASSUME NEW d, NEW q, NEW result \in Outcomes(d, q)
    PROVE  \/ result = Evaluate(d, q)
           \/ result = Err("error") /\ Dangles(d, q) /\ Evaluate(d, q).ok
BY DEF Outcomes

(* What fails in the engine then has a name among the refusals, but for    *)
(* what an engine may refuse as it runs the statement.                     *)
Balks(d, q, sort) ==
    Dangles(d, q) \/ (Unjoinable(d, q) /\ (d.engine = "postgres" => sort = None))

LEMMA CalmSelect ==
    ASSUME SqlInv, CalmInv, SeenInv, PutInv, seen # {}, ~disturbed, sql # None,
           NEW result \in Outcomes(db, sql), ~result.ok
    PROVE  \/ SelectError(result.code) \in Refusals
           \/ SelectError(result.code) = "database_error" /\ Balks(db, sql, req.sort)
<1>1. seen = {db} /\ Untouched(db)
  BY CalmIs
<1>2. HasEngine(db)
  BY DEF SeenInv
<1>3. WellPut(sql)
  BY DEF PutInv
<1>4. ~Invalid(db, sql)
  <2>1. 1 \in DOMAIN sql.list => sql.list # <<>>
    OBVIOUS
  <2> QED
    BY <1>3, <2>1, Present DEF Invalid, WellPut, Engine
<1>6. \/ /\ Unsortable(db, sql) \/ (Engine = "postgres" /\ Unjoinable(db, sql))
         /\ result = Err("undefined")
      \/ Unencodable(db, sql) /\ result = Err("encoding")
      \/ Denied(db, sql) /\ result = Err("denied")
      \/ /\ Dangles(db, sql) \/ (Engine # "postgres" /\ Unjoinable(db, sql))
         /\ result = Err("error")
  BY <1>4, EvaluateIs, OutcomesAre DEF Ok, Engine
<1>7. CASE /\ Unsortable(db, sql) \/ (Engine = "postgres" /\ Unjoinable(db, sql))
           /\ result = Err("undefined")
  <2>1. Engine = "postgres" /\ (Unsortable(db, sql) => req.sort # None)
    BY <1>3, <1>7 DEF Unsortable, Engine, WellPut
  <2>2. CASE req.sort # None
    BY <1>7, <2>1, <2>2 DEF Err, SelectError, By, Pg!MapSelectDenied, Refusals
  <2>3. CASE req.sort = None
    BY <1>7, <2>1, <2>3 DEF Err, SelectError, By, Pg!MapSelectDenied, Balks
  <2> QED
    BY <2>2, <2>3
<1>8. CASE Unencodable(db, sql) /\ result = Err("encoding")
  BY <1>8 DEF Unencodable, Err, SelectError, By, Engine, Pg!MapSelectDenied, Refusals
<1>10. CASE /\ Dangles(db, sql) \/ (Engine # "postgres" /\ Unjoinable(db, sql))
            /\ result = Err("error")
  <2>1. SelectError(result.code) = "database_error"
    BY <1>2, <1>10 DEF Err, SelectError, By, HasEngine, Engine, Pg!MapSelectDenied,
                       My!MapSelectDenied
  <2> QED
    BY <1>10, <2>1 DEF Balks, Engine
<1>9. CASE Denied(db, sql) /\ result = Err("denied")
  <2>1. Engine # "sqlite"
    <3> SUFFICES ASSUME db.engine = "sqlite" PROVE FALSE
      BY DEF Engine
    <3>1. 1 \in DOMAIN sql.list
      BY <1>3 DEF WellPut, Engine
    <3>2. sql.list[1] \in Listed(sql)
      BY <3>1 DEF Listed, ToSet
    <3>3. PICK x \in db.tables : x.schema = sql.schema
      BY <3>2, Present
    <3>4. db.schemas[sql.schema].usage
      BY <1>1, <3>3 DEF Untouched
    <3>5. \A i \in DOMAIN sql.tables : Pick(db, sql.schema, sql.tables[i]).readable
      BY <1>1, Present DEF Untouched, TablesAt
    <3> QED
      BY <1>9, <3>4, <3>5 DEF Denied
  <2> QED
    BY <1>2, <1>9, <2>1 DEF Err, SelectError, By, HasEngine, Engine, Pg!MapSelectDenied,
                            My!MapSelectDenied, Refusals
<1> QED
  BY <1>6, <1>7, <1>8, <1>9, <1>10

-----------------------------------------------------------------------------
(* What others do to a table leaves a catalogue one.                       *)

LEMMA SelfSeq ==
    ASSUME NEW S, NEW s \in Seq(S)
    PROVE  s \in Seq(ToSet(s))
<1>1. \A i \in 1..Len(s) : s[i] \in ToSet(s)
  BY DEF ToSet
<1> QED
  BY <1>1

LEMMA RemoveIsSeq ==
    ASSUME NEW S, NEW s \in Seq(S), NEW i \in DOMAIN s
    PROVE  RemoveAt(s, i) \in Seq(S)
<1>1. i \in 1..Len(s) /\ Len(s) \in Nat
  OBVIOUS
<1>2. SubSeq(s, 1, i - 1) \in Seq(S) /\ SubSeq(s, i + 1, Len(s)) \in Seq(S)
  BY <1>1
<1> QED
  BY <1>2 DEF RemoveAt

LEMMA WithoutIs ==
    ASSUME NEW x, NEW c, {"schema", "name", "columns", "rows", "stats", "readable"} \subseteq DOMAIN x,
           x.columns \in Seq(ToSet(x.columns)), c \in ColumnNames(x)
    PROVE  LET y == Without(x, c)
           IN /\ DOMAIN y = DOMAIN x /\ y.schema = x.schema /\ y.name = x.name
              /\ y.columns \in Seq(ToSet(y.columns))
<1> DEFINE y == Without(x, c)
           i == CHOOSE j \in DOMAIN x.columns : x.columns[j].name = c
<1>1. i \in DOMAIN x.columns
  BY DEF ColumnNames
<1>2. /\ DOMAIN y = DOMAIN x /\ y.schema = x.schema /\ y.name = x.name
      /\ y.columns = RemoveAt(x.columns, i)
  BY DEF Without
<1> HIDE DEF y, i
<1>3. y.columns \in Seq(ToSet(x.columns))
  BY <1>1, <1>2, RemoveIsSeq
<1>4. y.columns \in Seq(ToSet(y.columns))
  BY <1>3, SelfSeq
<1> QED
  BY <1>2, <1>4 DEF y

LEMMA RevokedIs ==
    ASSUME NEW x, {"schema", "name", "columns", "rows", "stats", "readable"} \subseteq DOMAIN x,
           x.columns \in Seq(ToSet(x.columns))
    PROVE  LET y == [x EXCEPT !.readable = FALSE]
           IN /\ DOMAIN y = DOMAIN x /\ y.schema = x.schema /\ y.name = x.name
              /\ y.columns \in Seq(ToSet(y.columns))
<1> DEFINE y == [x EXCEPT !.readable = FALSE]
<1>1. y.columns = x.columns
  OBVIOUS
<1>2. DOMAIN y = DOMAIN x /\ y.schema = x.schema /\ y.name = x.name
  OBVIOUS
<1> HIDE DEF y
<1> QED
  BY <1>1, <1>2 DEF y

(* The tables that are changed keep their names.                           *)
LEMMA ChangedCatalogued ==
    ASSUME NEW d, NEW e, Catalogued(d),
           NEW s, NEW t, NEW f,
           \A x \in TablesAt(d, s, t) :
                /\ f[x].schema = x.schema /\ f[x].name = x.name /\ DOMAIN f[x] = DOMAIN x
                /\ f[x].columns \in Seq(ToSet(f[x].columns)),
           e.tables = (d.tables \ TablesAt(d, s, t)) \cup {f[x] : x \in TablesAt(d, s, t)},
           DOMAIN e = DOMAIN d
    PROVE  Catalogued(e)
<1> DEFINE old == TablesAt(d, s, t)
<1>1. \A x \in old : x \in d.tables /\ x.schema = s /\ x.name = t
  BY DEF TablesAt
<1>2. \A x \in d.tables : x.schema = s /\ x.name = t => x \in old
  BY DEF TablesAt
<1>3. \A x \in d.tables \ old : ~(x.schema = s /\ x.name = t)
  BY <1>2
<1>4. \A x, y \in d.tables : x.schema = y.schema /\ x.name = y.name => x = y
  BY DEF Catalogued
<1>5. \A x \in d.tables :
        /\ {"schema", "name", "columns", "rows", "stats", "readable"} \subseteq DOMAIN x
        /\ x.columns \in Seq(ToSet(x.columns))
  BY DEF Catalogued
<1>6. {"engine", "fork", "tables", "schemas"} \subseteq DOMAIN d
  BY DEF Catalogued
<1> HIDE DEF old
<1>7. \A y \in e.tables :
        \/ y \in d.tables \ old
        \/ \E x \in old : y = f[x] /\ y.schema = s /\ y.name = t
  BY <1>1 DEF old
<1>8. \A x, y \in e.tables : x.schema = y.schema /\ x.name = y.name => x = y
  <2> SUFFICES ASSUME NEW x \in e.tables, NEW y \in e.tables,
                      x.schema = y.schema, x.name = y.name
               PROVE  x = y
    OBVIOUS
  <2>1. CASE x \in d.tables \ old
    BY <1>3, <1>4, <1>7, <2>1
  <2>2. CASE \E z \in old : x = f[z] /\ x.schema = s /\ x.name = t
    <3>1. PICK z \in old : x = f[z] /\ x.schema = s /\ x.name = t
      BY <2>2
    <3>2. PICK w \in old : y = f[w]
      BY <1>3, <1>7, <3>1
    <3>3. z = w
      BY <1>1, <1>4
    <3> QED
      BY <3>1, <3>2, <3>3
  <2> QED
    BY <1>7, <2>1, <2>2
<1>9. \A x \in e.tables :
        /\ {"schema", "name", "columns", "rows", "stats", "readable"} \subseteq DOMAIN x
        /\ x.columns \in Seq(ToSet(x.columns))
  <2> SUFFICES ASSUME NEW y \in e.tables
               PROVE  /\ {"schema", "name", "columns", "rows", "stats", "readable"} \subseteq DOMAIN y
                      /\ y.columns \in Seq(ToSet(y.columns))
    OBVIOUS
  <2>1. CASE y \in d.tables
    BY <1>5, <2>1
  <2>2. CASE \E x \in old : y = f[x]
    <3>1. PICK x \in old : y = f[x]
      BY <2>2
    <3>2. DOMAIN y = DOMAIN x /\ y.columns \in Seq(ToSet(y.columns))
      BY <3>1 DEF old
    <3> QED
      BY <1>1, <1>5, <3>2
  <2> QED
    BY <1>7, <2>1, <2>2
<1> QED
  BY <1>6, <1>8, <1>9 DEF Catalogued

LEMMA ApplyCatalogued ==
    ASSUME NEW d, Catalogued(d), NEW edit, edit.kind \in Edited, Applies(d, edit)
    PROVE  /\ Catalogued(Apply(d, edit))
           /\ Apply(d, edit).engine = d.engine /\ Apply(d, edit).fork = d.fork
<1> DEFINE e == Apply(d, edit)
           old == TablesAt(d, edit.schema, edit.table)
<1>1. /\ {"engine", "fork", "tables", "schemas"} \subseteq DOMAIN d
      /\ \A x, y \in d.tables : x.schema = y.schema /\ x.name = y.name => x = y
      /\ \A x \in d.tables :
            /\ {"schema", "name", "columns", "rows", "stats", "readable"} \subseteq DOMAIN x
            /\ x.columns \in Seq(ToSet(x.columns))
  BY DEF Catalogued
<1>2. \A x \in old : x \in d.tables /\ x.schema = edit.schema /\ x.name = edit.table
  BY DEF TablesAt
<1>3. CASE edit.kind = "drop"
  <2> DEFINE gone(k) ==
            \/ k.schema = edit.schema /\ k.table = edit.table
            \/ d.engine # "sqlite" /\ k.toSchema = edit.schema /\ k.toTable = edit.table
             keys == {k \in d.keys : ~gone(k)}
  <2>1. e = [d EXCEPT !.tables = d.tables \ old, !.keys = keys]
    BY <1>3, Zenon DEF Apply, Altered
  <2> HIDE DEF e, keys, old
  <2>2. DOMAIN e = DOMAIN d /\ e.tables = d.tables \ old
        /\ e.engine = d.engine /\ e.fork = d.fork
    BY <1>1, <2>1
  <2>3. Catalogued(e)
    BY <1>1, <2>2 DEF Catalogued
  <2> QED
    BY <2>2, <2>3 DEF e
<1>4. CASE edit.kind = "drop column"
  <2> DEFINE f == [x \in old |-> Without(x, edit.column)]
             after == (d.tables \ old) \cup {f[x] : x \in old}
  <2>0. e = [d EXCEPT !.tables = (d.tables \ old) \cup {Without(x, edit.column) : x \in old}]
    BY <1>4, Zenon DEF Apply, Altered
  <2>1. e = [d EXCEPT !.tables = after]
    BY <2>0
  <2>2. PICK x \in old : edit.column \in ColumnNames(x)
    <3>1. PICK x \in old :
            CASE edit.kind = "drop" -> TRUE
              [] edit.kind = "drop column" -> edit.column \in ColumnNames(x) \ Needed(d, x)
              [] edit.kind = "revoke" -> d.engine # "sqlite" /\ x.readable
      BY Zenon DEF Applies, Altered
    <3>2. edit.column \in ColumnNames(x) \ Needed(d, x)
      BY <1>4, <3>1, Zenon
    <3> QED
      BY <3>2
  <2>3. \A y \in old : y = x
    BY <1>1, <1>2, <2>2
  <2>4. \A y \in old : /\ f[y].schema = y.schema /\ f[y].name = y.name /\ DOMAIN f[y] = DOMAIN y
                       /\ f[y].columns \in Seq(ToSet(f[y].columns))
    BY <1>1, <1>2, <2>2, <2>3, WithoutIs
  <2> HIDE DEF e, f, after
  <2>5. DOMAIN e = DOMAIN d /\ e.tables = after /\ e.engine = d.engine /\ e.fork = d.fork
    BY <1>1, <2>1
  <2>6. Catalogued(e)
    BY <2>4, <2>5, ChangedCatalogued DEF after
  <2> QED
    BY <2>5, <2>6 DEF e
<1>5. CASE edit.kind = "revoke"
  <2> DEFINE f == [x \in old |-> [x EXCEPT !.readable = FALSE]]
             after == (d.tables \ old) \cup {f[x] : x \in old}
  <2>0. e = [d EXCEPT !.tables = (d.tables \ old) \cup {[x EXCEPT !.readable = FALSE] : x \in old}]
    BY <1>5, Zenon DEF Apply, Altered
  <2>1. e = [d EXCEPT !.tables = after]
    BY <2>0
  <2>2. \A y \in old : /\ f[y].schema = y.schema /\ f[y].name = y.name /\ DOMAIN f[y] = DOMAIN y
                       /\ f[y].columns \in Seq(ToSet(f[y].columns))
    BY <1>1, <1>2, RevokedIs
  <2> HIDE DEF e, f, after
  <2>5. DOMAIN e = DOMAIN d /\ e.tables = after /\ e.engine = d.engine /\ e.fork = d.fork
    BY <1>1, <2>1
  <2>6. Catalogued(e)
    BY <2>2, <2>5, ChangedCatalogued DEF after
  <2> QED
    BY <2>5, <2>6 DEF e
<1>6. edit.kind = "drop" \/ edit.kind = "drop column" \/ edit.kind = "revoke"
  BY Zenon DEF Edited
<1> HIDE DEF e
<1> QED
  BY <1>3, <1>4, <1>5, <1>6, Zenon

-----------------------------------------------------------------------------
(* The steps.                                                              *)

(* The type invariant in the parts that steps tell apart.                  *)
SourceOK ==
    /\ IF req = None \/ req.source \notin ToSet(Sources) \cup {None} THEN db = None /\ seen = {}
       ELSE db \in seen
    /\ variant \in {None} \cup (IF seen # {} /\ db.engine = "mysql" THEN {My!Variant(db)} ELSE {})
    /\ req \in Requests \cup {None}
WorldOK == budget \in 0..Budget /\ locked \in BOOLEAN /\ disturbed \in BOOLEAN
ResultsOK ==
    /\ DOMAIN read \subseteq Kinds \X (ToSet(NameOrder) \cup {None})
    /\ DOMAIN probes \subseteq Checked
Shaped(a) ==
    a # Pending =>
        \/ a.status = 200 /\ DOMAIN a = {"status", "body"}
        \/ a.status = 400 /\ a.code \in Refusals
        \/ a.status = 500 /\ a.code \in Failures

LEMMA TypeParts ==
    /\ ServerTypeOK <=> SourceOK /\ WorldOK /\ ResultsOK /\ Shaped(answer)
    /\ ServerTypeOK' <=> SourceOK' /\ WorldOK' /\ ResultsOK' /\ Shaped(answer')
<1>1. ServerTypeOK <=> SourceOK /\ WorldOK /\ ResultsOK /\ Shaped(answer)
  BY DEF ServerTypeOK, SourceOK, WorldOK, ResultsOK, Shaped
<1>2. ServerTypeOK' <=> SourceOK' /\ WorldOK' /\ ResultsOK' /\ Shaped(answer')
  BY DEF ServerTypeOK, SourceOK, WorldOK, ResultsOK, Shaped
<1> QED
  BY <1>1, <1>2

LEMMA ShapedAnswers ==
    /\ \A code \in Refusals : Shaped(Problem(code)) /\ Problem(code).status = 400
    /\ \A code \in Failures :
        Shaped(Problem(code)) /\ Problem(code).status = 500 /\ Problem(code).code = code
    /\ \A body : Shaped(Success(body)) /\ Success(body).status = 200
    /\ Shaped(Pending)
<1>1. \A code \in Refusals : Shaped(Problem(code)) /\ Problem(code).status = 400
  BY DEF Shaped, Problem, Refusals
<1>2. \A code \in Failures :
        Shaped(Problem(code)) /\ Problem(code).status = 500 /\ Problem(code).code = code
  BY DEF Shaped, Problem, Failures
<1>3. \A body : Shaped(Success(body)) /\ Success(body).status = 200
  BY DEF Shaped, Success
<1> QED
  BY <1>1, <1>2, <1>3 DEF Shaped

(* What was asked, read and built stays in order when nothing is added.    *)
LEMMA KeepAnswers ==
    ASSUME AskedInv, ColumnsInv, PutInv, UNCHANGED <<req, read, sql>>, Engine' = Engine,
           Runs' => Runs, disturbed => disturbed'
    PROVE  AskedInv' /\ ColumnsInv' /\ PutInv'
<1>1. AskedInv'
  BY DEF AskedInv, Asks
<1>2. ColumnsInv'
  BY DEF ColumnsInv, ColumnsInOrder, InOrder
<1>3. PutInv'
  BY DEF PutInv, WellPut
<1> QED
  BY <1>1, <1>2, <1>3

(* A step that leaves the database alone.                                  *)
LEMMA QuietAnswers ==
    ASSUME AInv, UNCHANGED <<req, db, variant, seen, read, sql>>, disturbed => disturbed',
           WorldOK', DOMAIN probes' \subseteq Checked, Shaped(answer'), Runs' => Runs
    PROVE  AInv'
<1>1. Engine' = Engine
  BY DEF Engine
<1>2. AskedInv' /\ ColumnsInv' /\ PutInv'
  BY <1>1, KeepAnswers DEF AInv
<1>3. CatalogueInv' /\ CalmInv'
  BY DEF AInv, CatalogueInv, CalmInv
<1>4. SourceOK'
  BY TypeParts DEF AInv, SourceOK
<1>5. ResultsOK'
  BY TypeParts DEF AInv, ResultsOK
<1> QED
  BY <1>2, <1>3, <1>4, <1>5, TypeParts DEF AInv

LEMMA ToldBefore ==
    ASSUME NEW known, NEW k, req' = req, seen' = seen, Engine' = Engine, Told(known, k)'
    PROVE  Told(known, k)
<1>1. SchemaOf(known)' = SchemaOf(known) /\ (Resolved(known)' => Resolved(known))
  BY DEF SchemaOf, Resolved, Has
<1>2. /\ \A s : SchemaSeen(s)' => SchemaSeen(s)
      /\ \A s, t : TableSeen(s, t)' => TableSeen(s, t)
      /\ \A s, t, c : ColumnSeen(s, t, c)' => ColumnSeen(s, t, c)
  BY DEF SchemaSeen, TableSeen, ColumnSeen
<1> QED
  BY <1>1, <1>2 DEF Told, Vouches

LEMMA ProceedAnswers ==
    ASSUME IInv, IInv', AInv, Runs, NEW known, Proceed(known, Verdict(known)),
           ColumnsInOrder(known),
           DOMAIN known \subseteq Kinds \X (ToSet(NameOrder) \cup {None})
    PROVE  AInv'
<1> DEFINE verdict == Verdict(known)
<1>1. /\ read' = known
      /\ UNCHANGED <<db, variant, budget, locked, req, probes, seen, disturbed>>
      /\ Engine' = Engine
      /\ sql' = IF verdict.ok /\ Selects(known) THEN verdict.val ELSE sql
      /\ \/ ~verdict.ok /\ answer' = Problem(verdict.code)
         \/ \E body : answer' = Success(body)
         \/ answer' = Pending
  BY DEF Proceed, Engine
<1>2. Vouched(known)
  <2>1. \A k \in DOMAIN known : Told(known, k)'
    BY <1>1 DEF IInv, KnowledgeInv
  <2> QED
    BY <1>1, <2>1, ToldBefore DEF Vouched
<1>3. Polite(verdict) /\ (verdict.ok /\ Selects(known) => WellPut(verdict.val))
  BY <1>2, VerdictPut DEF IInv, SeenInv, AInv, Runs
<1> HIDE DEF verdict
<1>4. Shaped(answer')
  BY <1>1, <1>3, ShapedAnswers DEF Polite, Pending
<1>5. AskedInv'
  BY <1>1 DEF AInv, AskedInv, Asks
<1>6. ColumnsInv'
  BY <1>1 DEF ColumnsInv, ColumnsInOrder, InOrder
<1>7. PutInv'
  <2>1. PICK q : q = sql'
    OBVIOUS
  <2>2. q # None => WellPut(q)
    BY <1>1, <1>3, <2>1 DEF AInv, PutInv
  <2>3. q # None => WellPut(q)'
    BY <1>1, <2>2 DEF WellPut
  <2> QED
    BY <2>1, <2>3 DEF PutInv
<1>8. CatalogueInv' /\ CalmInv'
  BY <1>1 DEF AInv, CatalogueInv, CalmInv
<1>9. SourceOK' /\ WorldOK' /\ ResultsOK'
  BY <1>1, TypeParts DEF AInv, SourceOK, WorldOK, ResultsOK
<1> QED
  BY <1>4, <1>5, <1>6, <1>7, <1>8, <1>9, TypeParts DEF AInv

LEMMA LearnAnswers ==
    ASSUME IInv, IInv', AInv, NEW kind \in Kinds, NEW t \in ToSet(NameOrder) \cup {None}, NEW value,
           Statement(kind, t), Learn(kind, t, value), kind = "columns" => InOrder(value)
    PROVE  AInv'
<1>1. PICK known : known = [k \in DOMAIN read \cup {<<kind, t>>} |->
                                IF k = <<kind, t>> THEN value ELSE read[k]]
  OBVIOUS
<1>2. Runs /\ Proceed(known, Verdict(known))
  BY <1>1 DEF Statement, Learn
<1>3. ColumnsInOrder(known)
  BY <1>1 DEF AInv, ColumnsInv, ColumnsInOrder
<1>4. DOMAIN known \subseteq Kinds \X (ToSet(NameOrder) \cup {None})
  BY <1>1, TypeParts DEF AInv, ResultsOK
<1> QED
  BY <1>2, <1>3, <1>4, ProceedAnswers

(* The columns of a table come in an order; on MySQL and SQLite a table    *)
(* that passed the lookup has some.                                        *)
LEMMA ReadColumnsAnswers ==
    ASSUME IInv, IInv', AInv, NEW t \in ToSet(NameOrder), ReadColumns(t)
    PROVE  AInv'
<1>1. db \in seen /\ HasEngine(db) /\ Runs
  BY DEF ReadColumns, Statement, IInv, SeenInv
<1> DEFINE value == By(Pg!TableColumns(db, Schema, t, read[<<"gate", t>>].val),
                       My!TableColumns(db, Schema, t), Sq!TableColumns(db, t))
           listed == {x \in TablesAt(db, Schema, t) : x.listed}
           found == IF Engine = "sqlite" THEN Sq!Located(db, t) ELSE listed
           x == CHOOSE y \in found : TRUE
<1>2. /\ value = <<>> \/ (found # {} /\ value = x.columns)
      /\ Engine # "postgres" /\ found # {} => value = x.columns
  <2>1. CASE Engine = "postgres"
    <3>1. value = Pg!TableColumns(db, Schema, t, read[<<"gate", t>>].val)
      BY <2>1 DEF By
    <3>2. found = listed
      BY <2>1
    <3> QED
      BY <2>1, <3>1, <3>2 DEF Pg!TableColumns, Pg!InformationColumns, Pg!TablesAt, TablesAt
  <2>2. CASE Engine = "mysql"
    <3>1. value = My!TableColumns(db, Schema, t)
      BY <2>2 DEF By
    <3>2. found = listed
      BY <2>2
    <3> QED
      BY <3>1, <3>2 DEF My!TableColumns, My!TablesAt, TablesAt
  <2>3. CASE Engine = "sqlite"
    <3>1. value = Sq!TableColumns(db, t)
      BY <2>3 DEF By
    <3> QED
      BY <2>3, <3>1 DEF Sq!TableColumns
  <2> QED
    BY <1>1, <2>1, <2>2, <2>3 DEF HasEngine, Engine
<1>3. found \subseteq db.tables
  BY DEF TablesAt, Sq!Located
<1>4. found # {} => x \in found
  OBVIOUS
<1>5. ~disturbed /\ Engine # "postgres" => found # {}
  <2> SUFFICES ASSUME ~disturbed, Engine # "postgres" PROVE found # {}
    OBVIOUS
  <2>1. TableSeen(SchemaOf(read), t)
    BY <1>1, ClearedSeen DEF ReadColumns
  <2>2. seen = {db}
    BY <1>1, CalmIs DEF AInv
  <2>3. PICK y \in TablesAt(db, SchemaOf(read), t) : Serves(db, y)
    BY <2>1, <2>2 DEF TableSeen, Served
  <2>4. CASE Engine = "mysql"
    BY <2>3, <2>4 DEF Serves, Engine, Schema
  <2>5. CASE Engine = "sqlite"
    <3>1. y \in db.tables /\ y.name = t
      BY <2>3 DEF TablesAt
    <3> QED
      BY <2>5, <3>1 DEF Sq!Located
  <2> QED
    BY <1>1, <2>4, <2>5 DEF HasEngine, Engine
<1> HIDE DEF found, x
<1>6. found # {} => x.columns \in Seq(ToSet(x.columns))
  BY <1>1, <1>3, <1>4 DEF AInv, CatalogueInv, Catalogued
<1>7. ~disturbed /\ Engine # "postgres" => x.columns # <<>>
  <2>1. ~disturbed => Untouched(db)
    BY <1>1, CalmIs DEF AInv
  <2> QED
    BY <1>3, <1>4, <1>5, <2>1 DEF Untouched, Engine
<1>8. Learn("columns", t, value) /\ Statement("columns", t)
  BY DEF ReadColumns
<1> HIDE DEF value
<1>9. InOrder(value)
  <2>1. <<>> \in Seq(ToSet(<<>>))
    OBVIOUS
  <2> QED
    BY <1>2, <1>5, <1>6, <1>7, <2>1 DEF InOrder
<1>10. "columns" \in Kinds
  BY DEF Kinds
<1> QED
  BY <1>8, <1>9, <1>10, LearnAnswers

(* The other results.                                                      *)
LEMMA OtherAnswers ==
    ASSUME IInv, IInv', AInv, NEW kind \in Kinds \ {"columns"},
           NEW t \in ToSet(NameOrder) \cup {None}, NEW value,
           Statement(kind, t), Learn(kind, t, value)
    PROVE  AInv'
BY LearnAnswers

LEMMA ListAnswers ==
    ASSUME IInv, IInv', AInv,
           \/ ListSchemas \/ DefaultSchema \/ ListTables \/ TableCounts \/ AllowedTables
           \/ EstimateRows
    PROVE  AInv'
<1>1. {"schemas", "default", "list", "tables", "estimate"} \subseteq Kinds \ {"columns"}
  BY DEF Kinds
<1>2. CASE ListSchemas
  BY <1>1, <1>2, OtherAnswers DEF ListSchemas
<1>3. CASE DefaultSchema
  BY <1>1, <1>3, OtherAnswers DEF DefaultSchema
<1>4. CASE ListTables
  BY <1>1, <1>4, OtherAnswers DEF ListTables
<1>5. CASE TableCounts
  BY <1>1, <1>5, OtherAnswers DEF TableCounts
<1>6. CASE AllowedTables
  BY <1>1, <1>6, OtherAnswers DEF AllowedTables
<1>7. CASE EstimateRows
  BY <1>1, <1>7, OtherAnswers DEF EstimateRows
<1> QED
  BY <1>2, <1>3, <1>4, <1>5, <1>6, <1>7

LEMMA TableAnswers ==
    ASSUME IInv, IInv', AInv, NEW t \in ToSet(NameOrder),
           \/ ReadableTable(t) \/ ReadPrimaryKey(t) \/ ReadKeys(t) \/ ReadJsonColumns(t)
           \/ ReadNames(t) \/ ReadStatistics(t) \/ ReadType(t) \/ ReadReferrers(t)
           \/ ReadIndexes(t) \/ ReadIndexSql(t) \/ ReadUniques(t) \/ ReadForeignKeys(t)
           \/ ReadChecksView(t) \/ ReadChecks(t)
    PROVE  AInv'
<1>0. {"gate", "pk", "keys", "json", "names", "stats", "type", "referrers", "indexes", "sql",
       "uniques", "foreign", "view", "checks"} \subseteq Kinds \ {"columns"}
  BY DEF Kinds
<1>1. CASE ReadableTable(t)
  BY <1>0, <1>1, OtherAnswers DEF ReadableTable
<1>2. CASE ReadPrimaryKey(t)
  BY <1>0, <1>2, OtherAnswers DEF ReadPrimaryKey
<1>3. CASE ReadKeys(t)
  BY <1>0, <1>3, OtherAnswers DEF ReadKeys
<1>4. CASE ReadJsonColumns(t)
  BY <1>0, <1>4, OtherAnswers DEF ReadJsonColumns
<1>5. CASE ReadNames(t)
  BY <1>0, <1>5, OtherAnswers DEF ReadNames
<1>6. CASE ReadStatistics(t)
  BY <1>0, <1>6, OtherAnswers DEF ReadStatistics
<1>7. CASE ReadType(t)
  BY <1>0, <1>7, OtherAnswers DEF ReadType
<1>8. CASE ReadReferrers(t)
  BY <1>0, <1>8, OtherAnswers DEF ReadReferrers
<1>9. CASE ReadIndexes(t)
  BY <1>0, <1>9, OtherAnswers DEF ReadIndexes
<1>10. CASE ReadIndexSql(t)
  BY <1>0, <1>10, OtherAnswers DEF ReadIndexSql
<1>11. CASE ReadUniques(t)
  BY <1>0, <1>11, OtherAnswers DEF ReadUniques
<1>12. CASE ReadForeignKeys(t)
  BY <1>0, <1>12, OtherAnswers DEF ReadForeignKeys
<1>13. CASE ReadChecksView(t)
  BY <1>0, <1>13, OtherAnswers DEF ReadChecksView
<1>14. CASE ReadChecks(t)
  BY <1>0, <1>14, OtherAnswers DEF ReadChecks
<1> QED
  BY <1>1, <1>2, <1>3, <1>4, <1>5, <1>6, <1>7, <1>8, <1>9, <1>10, <1>11, <1>12, <1>13, <1>14

LEMMA SelectAnswers ==
    ASSUME IInv, IInv', AInv, Select
    PROVE  AInv'
<1>0. PICK result \in Outcomes(db, sql) :
            IF result.ok THEN Learn("select", None, result.val)
            ELSE Refuse(SelectError(result.code)) /\ UNCHANGED disturbed
  BY DEF Select
<1>1. Runs /\ sql # None /\ seen # {} /\ HasEngine(db)
  BY DEF Select, Statement, IInv, SeenInv
<1>2. CASE result.ok
  <2>1. "select" \in Kinds \ {"columns"}
    BY DEF Kinds
  <2> QED
    BY <1>0, <1>2, <2>1, OtherAnswers DEF Select
<1>3. CASE ~result.ok
  <2>1. Refuse(SelectError(result.code)) /\ UNCHANGED disturbed
    BY <1>0, <1>3
  <2>2. SelectError(result.code) \in Refusals \cup Failures
    BY <1>1 DEF SelectError, By, HasEngine, Engine, Pg!MapSelectDenied, My!MapSelectDenied,
                Refusals, Failures
  <2>4. Shaped(answer')
    BY <2>1, <2>2, ShapedAnswers DEF Refuse
  <2>5. WorldOK' /\ DOMAIN probes' \subseteq Checked
    BY <2>1, TypeParts DEF Refuse, AInv, WorldOK, ResultsOK
  <2> QED
    BY <1>1, <2>1, <2>4, <2>5, QuietAnswers DEF Refuse
<1> QED
  BY <1>2, <1>3

(* An answer the clock or the world gives.                                 *)
LEMMA GivenUpAnswers ==
    ASSUME AInv, Expire \/ Busy \/ Fail
    PROVE  AInv'
<1>1. /\ UNCHANGED <<req, db, variant, seen, read, sql, probes, locked>>
      /\ \E code \in Failures :
            answer' = Problem(code) /\ (code = "database_error" => disturbed' = TRUE)
      /\ disturbed' = disturbed \/ disturbed' = TRUE
      /\ budget' = budget \/ (budget > 0 /\ budget' = budget - 1)
      /\ Runs
  BY DEF Expire, Busy, Fail, Refuse, Meddles, Failures
<1>2. WorldOK'
  <2>1. budget \in 0..Budget /\ Budget \in Nat /\ disturbed \in BOOLEAN /\ locked \in BOOLEAN
    BY TypeParts, EditsAssumption DEF AInv, WorldOK
  <2>2. budget' \in 0..Budget
    BY <1>1, <2>1
  <2> QED
    BY <1>1, <2>1, <2>2 DEF WorldOK
<1>3. DOMAIN probes' \subseteq Checked
  BY <1>1, TypeParts DEF AInv, ResultsOK
<1>4. Shaped(answer')
  BY <1>1, ShapedAnswers
<1>5. disturbed => disturbed'
  BY <1>1
<1> QED
  BY <1>1, <1>2, <1>3, <1>4, <1>5, QuietAnswers

LEMMA HealthAnswers ==
    ASSUME AInv, NEW i \in Checked, HealthCheck(i)
    PROVE  AInv'
<1>1. /\ UNCHANGED <<db, variant, budget, locked, req, read, sql, seen, disturbed>>
      /\ DOMAIN probes' = DOMAIN probes \cup {i}
      /\ answer' = Pending \/ \E body : answer' = Success(body)
      /\ ~Runs'
  BY DEF HealthCheck, Runs, Asks, Standalone
<1>2. WorldOK' /\ DOMAIN probes' \subseteq Checked
  BY <1>1, TypeParts DEF AInv, WorldOK, ResultsOK
<1>3. Shaped(answer')
  BY <1>1, ShapedAnswers
<1> QED
  BY <1>1, <1>2, <1>3, QuietAnswers

LEMMA IdleAnswers ==
    ASSUME AInv, Lock \/ Unlock \/ UNCHANGED vars
    PROVE  AInv'
<1>1. /\ UNCHANGED <<req, db, variant, seen, read, sql, probes, answer, disturbed>>
      /\ locked' = locked \/ locked' \in BOOLEAN
      /\ budget' = budget \/ (budget > 0 /\ budget' = budget - 1)
      /\ Runs' => Runs
  BY DEF Lock, Unlock, Meddles, vars, Runs, Asks
<1>2. WorldOK'
  <2>1. budget \in 0..Budget /\ Budget \in Nat /\ disturbed \in BOOLEAN /\ locked \in BOOLEAN
    BY TypeParts, EditsAssumption DEF AInv, WorldOK
  <2>2. budget' \in 0..Budget
    BY <1>1, <2>1
  <2> QED
    BY <1>1, <2>1, <2>2 DEF WorldOK
<1>3. DOMAIN probes' \subseteq Checked /\ Shaped(answer')
  BY <1>1, TypeParts DEF AInv, ResultsOK
<1> QED
  BY <1>1, <1>2, <1>3, QuietAnswers

LEMMA VersionAnswers ==
    ASSUME IInv, AInv, Version
    PROVE  AInv'
<1>1. /\ UNCHANGED <<db, budget, locked, req, read, sql, probes, answer, seen, disturbed>>
      /\ variant' = My!Variant(db) /\ Engine = "mysql" /\ Runs /\ Engine' = Engine
      /\ Runs' => Runs
  BY DEF Version, Knows, Engine, Runs, Asks
<1>2. AskedInv' /\ ColumnsInv' /\ PutInv'
  BY <1>1, KeepAnswers DEF AInv
<1>3. CatalogueInv' /\ CalmInv'
  BY <1>1 DEF AInv, CatalogueInv, CalmInv
<1>4. SourceOK'
  <2>1. seen # {} /\ db.engine = "mysql"
    BY <1>1 DEF IInv, SeenInv, Engine
  <2>2. SourceOK
    BY TypeParts DEF AInv
  <2> QED
    BY <1>1, <2>1, <2>2 DEF SourceOK
<1>5. WorldOK' /\ ResultsOK' /\ Shaped(answer')
  BY <1>1, TypeParts DEF AInv, WorldOK, ResultsOK
<1> QED
  BY <1>2, <1>3, <1>4, <1>5, TypeParts DEF AInv

LEMMA AlterAnswers ==
    ASSUME IInv, AInv, NEW edit \in Edits, Alter(edit)
    PROVE  AInv'
<1>1. /\ UNCHANGED <<variant, locked, req, read, sql, probes, answer>>
      /\ budget > 0 /\ budget' = budget - 1 /\ disturbed' = TRUE
      /\ db' = Apply(db, edit) /\ seen' = seen \cup {db'}
      /\ Runs /\ Applies(db, edit) /\ (Runs' => Runs)
  BY DEF Alter, Meddles, Runs, Asks
<1>2. edit.kind \in Edited
  BY EditsAssumption
<1>3. db \in seen /\ Catalogued(db)
  BY <1>1 DEF IInv, SeenInv, AInv, CatalogueInv
<1>4. Catalogued(db') /\ db'.engine = db.engine /\ db'.fork = db.fork
  BY <1>1, <1>2, <1>3, ApplyCatalogued
<1>5. AskedInv' /\ ColumnsInv' /\ PutInv'
  BY <1>1, <1>4, KeepAnswers DEF AInv, Engine
<1>6. CatalogueInv' /\ CalmInv'
  <2>1. CatalogueInv'
    BY <1>1, <1>4 DEF AInv, CatalogueInv
  <2> QED
    BY <1>1, <2>1 DEF CalmInv
<1>7. SourceOK'
  <2>1. SourceOK /\ req # None
    BY <1>1, TypeParts DEF AInv, Runs
  <2>2. My!Variant(db)' = My!Variant(db)
    BY <1>4 DEF My!Variant
  <2>3. db' \in seen' /\ seen' # {} /\ seen # {}
    BY <1>1, <1>3
  <2>4. variant' \in {None} \cup (IF seen' # {} /\ db'.engine = "mysql" THEN {My!Variant(db)'} ELSE {})
    BY <1>1, <1>4, <2>1, <2>2, <2>3 DEF SourceOK
  <2>5. ~(req = None \/ req.source \notin ToSet(Sources) \cup {None})
    BY <2>1, <2>3 DEF SourceOK
  <2> QED
    BY <1>1, <2>1, <2>3, <2>4, <2>5 DEF SourceOK
<1>8. WorldOK'
  <2>1. budget \in 0..Budget /\ Budget \in Nat /\ locked \in BOOLEAN
    BY TypeParts, EditsAssumption DEF AInv, WorldOK
  <2>2. budget' \in 0..Budget
    BY <1>1, <2>1
  <2> QED
    BY <1>1, <2>1, <2>2 DEF WorldOK
<1>9. ResultsOK' /\ Shaped(answer')
  BY <1>1, TypeParts DEF AInv, ResultsOK
<1> QED
  BY <1>5, <1>6, <1>7, <1>8, <1>9, TypeParts DEF AInv

(* A request arrives at databases as they are at the start.                *)
LEMMA AskAnswers ==
    ASSUME IInv, AInv, NEW r \in Requests, Ask(r)
    PROVE  AInv'
<1> DEFINE source == ResolveSource(Sources, r.source)
<1>1. /\ req = None /\ req' = r /\ r # None /\ read' = <<>> /\ sql' = None
      /\ UNCHANGED <<budget, locked, probes, disturbed>>
      /\ answer' = IF EarlyFault(r).ok THEN EarlyAnswer(r) ELSE Problem(EarlyFault(r).code)
  BY RequestsAssumption DEF Ask, IInv, IdleInv
<1>2. db = None /\ seen = {} /\ variant = None
  BY <1>1, TypeParts DEF AInv, SourceOK
<1>3. source.ok =>
        /\ source.val \in ToSet(Sources)
        /\ db' = Databases[source.val] /\ seen' = {db'}
        /\ variant' \in {None} \cup (IF db'.engine = "mysql" THEN {My!Variant(db')} ELSE {})
  <2>1. source.ok => source.val \in ToSet(Sources)
    BY SourcesAssumption DEF ResolveSource, Ok, Err, ToSet
  <2> QED
    BY <2>1 DEF Ask
<1>4. ~source.ok => UNCHANGED <<db, variant, seen>>
  BY DEF Ask
<1>5. source.ok <=> r.source \in ToSet(Sources) \cup {None}
  BY DEF ResolveSource, Ok, Err
<1>6. Runs' => /\ r.route = "data" => QueryOpts(r).ok
               /\ r.route = "join" => JoinRequest(r).ok
  <2>1. Runs' => r.route \notin Standalone /\ EarlyFault(r).ok
    BY <1>1, ProblemIsAnAnswer DEF Runs, Asks
  <2> QED
    BY <2>1, AndThenOk DEF EarlyFault
<1> HIDE DEF source
<1>7. AskedInv'
  BY <1>1, <1>6 DEF AskedInv, Asks
<1>8. ColumnsInv' /\ PutInv'
  BY <1>1 DEF ColumnsInv, ColumnsInOrder, PutInv
<1>9. CatalogueInv' /\ CalmInv'
  <2>1. CASE source.ok
    <3>1. Catalogued(db')
      BY <1>3, <2>1, DatabaseIs DEF Untouched
    <3> QED
      BY <1>3, <2>1, <3>1 DEF CatalogueInv, CalmInv
  <2>2. CASE ~source.ok
    BY <1>2, <1>4, <2>2 DEF CatalogueInv, CalmInv
  <2> QED
    BY <2>1, <2>2
<1>10. SourceOK'
  <2>1. CASE source.ok
    <3>1. My!Variant(db') = My!Variant(db)'
      BY DEF My!Variant
    <3>2. db' \in seen' /\ seen' # {} /\ r.source \in ToSet(Sources) \cup {None}
      BY <1>3, <1>5, <2>1
    <3> QED
      BY <1>1, <1>3, <2>1, <3>1, <3>2 DEF SourceOK
  <2>2. CASE ~source.ok
    BY <1>1, <1>2, <1>4, <1>5, <2>2 DEF SourceOK
  <2> QED
    BY <2>1, <2>2
<1>11. WorldOK' /\ ResultsOK'
  BY <1>1, TypeParts DEF AInv, WorldOK, ResultsOK
<1>12. Shaped(answer')
  <2>1. CASE EarlyFault(r).ok
    <3>1. answer' = Pending \/ \E body : answer' = Success(body)
      BY <1>1, <2>1 DEF EarlyAnswer
    <3> QED
      BY <3>1, ShapedAnswers DEF Pending
  <2>2. CASE ~EarlyFault(r).ok
    BY <1>1, <2>2, EarlyPolite, ShapedAnswers DEF Polite
  <2> QED
    BY <2>1, <2>2
<1> QED
  BY <1>7, <1>8, <1>9, <1>10, <1>11, <1>12, TypeParts DEF AInv

(* Between two requests there is nothing.                                  *)
LEMMA StartAnswers ==
    ASSUME req' = None, db' = None, variant' = None, answer' = Pending, read' = <<>>,
           sql' = None, probes' = <<>>, seen' = {}, budget' = Budget, locked' = FALSE,
           disturbed' = FALSE
    PROVE  AInv'
<1>1. CatalogueInv' /\ CalmInv' /\ AskedInv' /\ ColumnsInv' /\ PutInv'
  BY DEF CatalogueInv, CalmInv, AskedInv, ColumnsInv, ColumnsInOrder, PutInv, Runs
<1>2. WorldOK'
  <2>1. Budget \in 0..Budget
    <3>1. Budget \in Nat
      BY EditsAssumption
    <3> QED
      BY <3>1
  <2> QED
    BY <2>1 DEF WorldOK
<1>3. SourceOK' /\ ResultsOK' /\ Shaped(answer')
  BY DEF SourceOK, ResultsOK, Shaped
<1> QED
  BY <1>1, <1>2, <1>3, TypeParts DEF AInv

LEMMA InitAnswers == Init => AInv
<1> SUFFICES ASSUME Init PROVE AInv
  OBVIOUS
<1>1. CatalogueInv /\ CalmInv /\ AskedInv /\ ColumnsInv /\ PutInv
  BY DEF Init, CatalogueInv, CalmInv, AskedInv, ColumnsInv, ColumnsInOrder, PutInv,
         Runs
<1>2. WorldOK
  <2>1. Budget \in 0..Budget
    <3>1. Budget \in Nat
      BY EditsAssumption
    <3> QED
      BY <3>1
  <2> QED
    BY <2>1 DEF Init, WorldOK
<1>3. SourceOK /\ ResultsOK /\ Shaped(answer)
  BY DEF Init, SourceOK, ResultsOK, Shaped
<1> QED
  BY <1>1, <1>2, <1>3, TypeParts DEF AInv

LEMMA NextAnswers == IInv /\ AInv /\ [Next]_vars => AInv'
<1> SUFFICES ASSUME IInv, AInv, [Next]_vars PROVE AInv'
  OBVIOUS
<1>0. IInv'
  BY NextInv
<1>1. CASE Version
  BY <1>1, VersionAnswers
<1>2. CASE \/ ListSchemas \/ DefaultSchema \/ ListTables \/ TableCounts \/ AllowedTables
           \/ EstimateRows
  BY <1>0, <1>2, ListAnswers
<1>3. CASE Select
  BY <1>0, <1>3, SelectAnswers
<1>4. CASE Expire \/ Busy \/ Fail
  BY <1>4, GivenUpAnswers
<1>5. ASSUME NEW i \in Checked, HealthCheck(i) PROVE AInv'
  BY <1>5, HealthAnswers
<1>6. ASSUME NEW t \in ToSet(NameOrder), ReadColumns(t) PROVE AInv'
  BY <1>0, <1>6, ReadColumnsAnswers
<1>7. ASSUME NEW t \in ToSet(NameOrder),
             \/ ReadableTable(t) \/ ReadPrimaryKey(t) \/ ReadKeys(t) \/ ReadJsonColumns(t)
             \/ ReadNames(t) \/ ReadStatistics(t) \/ ReadType(t) \/ ReadReferrers(t)
             \/ ReadIndexes(t) \/ ReadIndexSql(t) \/ ReadUniques(t) \/ ReadForeignKeys(t)
             \/ ReadChecksView(t) \/ ReadChecks(t)
      PROVE  AInv'
  BY <1>0, <1>7, TableAnswers
<1>8. CASE Lock \/ Unlock \/ UNCHANGED vars
  BY <1>8, IdleAnswers
<1>9. CASE Receive
  BY <1>9, StartAnswers DEF Receive
<1>10. ASSUME NEW r \in Requests, Ask(r) PROVE AInv'
  BY <1>10, AskAnswers
<1>11. ASSUME NEW edit \in Edits, Alter(edit) PROVE AInv'
  BY <1>11, AlterAnswers
<1> QED
  BY <1>1, <1>2, <1>3, <1>4, <1>5, <1>6, <1>7, <1>8, <1>9, <1>10, <1>11 DEF Next, Handle, World

-----------------------------------------------------------------------------
(* The state of a request keeps its type, and every answer is a success or *)
(* a problem of a documented code: 400 for what is refused, 500 for a      *)
(* statement that ran for too long and for an engine that failed           *)
(* (the status and code of DbError in protocol_wire.rs and the adapters).  *)
THEOREM AnswersAreTyped == Spec => []ServerTypeOK
<1>1. AInv => ServerTypeOK
  BY DEF AInv
<1> QED
  BY <1>1, InitInv, NextInv, InitAnswers, NextAnswers, PTL DEF Spec

-----------------------------------------------------------------------------
(* Lists, and the encoding of the page.                                    *)
-----------------------------------------------------------------------------
(* Accept-Encoding: the fold that weighs the codings, one by one.          *)

(* The last of some positions.                                             *)
LEMMA LastOf ==
    ASSUME NEW n \in Nat, NEW s, s \subseteq 1..n, s # {}
    PROVE  /\ Max(s) \in s /\ \A i \in s : i <= Max(s)
           /\ \A j \in s : (\A i \in s : i <= j) => j = Max(s)
<1> DEFINE T == {k \in 0..n : n - k \in s}
<1>1. T \subseteq Nat /\ T # {}
  <2>1. PICK i \in s : TRUE
    OBVIOUS
  <2>2. i \in 1..n /\ n - i \in 0..n /\ n - (n - i) = i
    BY <2>1
  <2>3. n - i \in T
    BY <2>1, <2>2, Zenon
  <2>4. T \subseteq Nat
    OBVIOUS
  <2> HIDE DEF T
  <2> QED BY <2>3, <2>4
<1>2. PICK m \in T : \A k \in T : m <= k
  <2> HIDE DEF T
  <2> QED BY <1>1, LeastOf
<1>3. n - m \in s /\ \A i \in s : n - m >= i
  <2>1. SUFFICES ASSUME NEW i \in s PROVE n - m >= i
    BY <1>2
  <2>2. i \in 1..n /\ n - i \in T
    BY <2>1
  <2>3. m <= n - i /\ m \in 0..n
    BY <1>2, <2>2
  <2> QED BY <2>2, <2>3
<1>4. Max(s) \in s /\ \A i \in s : Max(s) >= i
  BY <1>3 DEF Max
<1>5. \A i \in s : i \in Nat
  OBVIOUS
<1>6. PICK last : last = Max(s)
  OBVIOUS
<1>8. last \in s /\ \A i \in s : last >= i
  BY <1>4, <1>6, Zenon
<1>7. last \in s /\ (\A i \in s : i <= last) /\ \A j \in s : (\A i \in s : i <= j) => j = last
  BY <1>5, <1>8
<1> QED BY <1>6, <1>7, Zenon

(* The fold of AcceptsGzip, as its library definition unfolds: by the last *)
(* position of every set of positions.                                     *)
Weigh(qs, entry) ==
    CASE entry.coding \in {"gzip", "x-gzip"} -> [qs EXCEPT !.gzip = entry.q]
      [] entry.coding = "*" -> [qs EXCEPT !.star = entry.q]
      [] OTHER -> qs
Unnamed == [gzip |-> -1, star |-> -1]
Weighs(codings, f, n) ==
    f = [s \in SUBSET (1..n) |->
            IF s = {} THEN Unnamed ELSE Weigh(f[s \ {Max(s)}], codings[Max(s)])]

LEMMA WeighsExists ==
    ASSUME NEW codings, NEW n \in Nat
    PROVE  \E f : Weighs(codings, f, n)
<1> DEFINE T == {m \in 0..n : ~ \E f : Weighs(codings, f, m)}
<1> SUFFICES ASSUME T # {} PROVE FALSE
  OBVIOUS
<1>1. PICK m \in T : \A k \in T : m <= k
  <2>1. T \subseteq Nat
    OBVIOUS
  <2> HIDE DEF T
  <2> QED BY <2>1, LeastOf
<1>2. ~ \E f : Weighs(codings, f, m)
  BY <1>1
<1>3. CASE m = 0
  <2>1. SUBSET (1..0) = {{}}
    OBVIOUS
  <2>2. Weighs(codings, [s \in SUBSET (1..0) |-> Unnamed], 0)
    BY <2>1 DEF Weighs
  <2> QED BY <1>2, <1>3, <2>2
<1>4. CASE m # 0
  <2>1. m - 1 \in 0..n /\ m - 1 \notin T /\ m \in Nat
    BY <1>1, <1>4
  <2>2. PICK g : Weighs(codings, g, m - 1)
    BY <2>1
  <2> HIDE DEF T
  <2> DEFINE f == [s \in SUBSET (1..m) |->
                    IF m \in s THEN Weigh(g[s \ {m}], codings[m]) ELSE g[s]]
  <2>3. \A s \in SUBSET (1..(m - 1)) :
            g[s] = IF s = {} THEN Unnamed ELSE Weigh(g[s \ {Max(s)}], codings[Max(s)])
    BY <2>2 DEF Weighs
  <2>4. \A s \in SUBSET (1..m) :
            f[s] = IF s = {} THEN Unnamed ELSE Weigh(f[s \ {Max(s)}], codings[Max(s)])
    <3> SUFFICES ASSUME NEW s \in SUBSET (1..m)
                 PROVE  f[s] = IF s = {} THEN Unnamed ELSE Weigh(f[s \ {Max(s)}], codings[Max(s)])
      OBVIOUS
    <3>1. CASE m \in s
      <4>1. m = Max(s)
        <5>1. \A i \in s : i <= m
          BY <2>1
        <5> QED BY <2>1, <3>1, <5>1, LastOf
      <4>2. s \ {m} \in SUBSET (1..m) /\ m \notin s \ {m}
        OBVIOUS
      <4>3. f[s \ {m}] = g[s \ {m}]
        BY <4>2
      <4> QED BY <3>1, <4>1, <4>3
    <3>2. CASE m \notin s
      <4>1. s \in SUBSET (1..(m - 1))
        BY <2>1, <3>2
      <4>2. f[s] = g[s]
        BY <3>2
      <4>3. CASE s = {}
        BY <2>3, <4>1, <4>2, <4>3
      <4>4. CASE s # {}
        <5>1. s \ {Max(s)} \in SUBSET (1..m) /\ m \notin s \ {Max(s)}
          BY <3>2
        <5>2. f[s \ {Max(s)}] = g[s \ {Max(s)}]
          BY <5>1
        <5> QED BY <2>3, <4>1, <4>2, <4>4, <5>2
      <4> QED BY <4>3, <4>4
    <3> QED BY <3>1, <3>2
  <2>5. f = [s \in SUBSET (1..m) |-> f[s]]
    OBVIOUS
  <2> HIDE DEF f
  <2>6. Weighs(codings, f, m)
    BY <2>4, <2>5 DEF Weighs
  <2> QED BY <1>2, <2>6
<1> QED BY <1>3, <1>4

(* The weight a name has at last, or -1.                                   *)
NamedIn(codings, names, k) == {i \in 1..k : codings[i].coding \in names}
Weight(codings, names, k) ==
    IF NamedIn(codings, names, k) = {} THEN -1 ELSE codings[Max(NamedIn(codings, names, k))].q

LEMMA NamedNext ==
    ASSUME NEW codings, NEW names, NEW k \in Nat \ {0}
    PROVE  Weight(codings, names, k) = IF codings[k].coding \in names THEN codings[k].q
                                       ELSE Weight(codings, names, k - 1)
<1> DEFINE now == NamedIn(codings, names, k)
           past == NamedIn(codings, names, k - 1)
<1>1. CASE codings[k].coding \in names
  <2>1. k \in now /\ now \subseteq 1..k
    BY <1>1 DEF NamedIn
  <2>2. \A i \in now : i <= k
    BY <2>1
  <2> HIDE DEF now
  <2>3. k = Max(now)
    BY <2>1, <2>2, LastOf
  <2> QED BY <1>1, <2>1, <2>3 DEF Weight, now
<1>2. CASE codings[k].coding \notin names
  <2>1. now = past
    BY <1>2 DEF NamedIn
  <2> QED BY <1>2, <2>1 DEF Weight
<1> QED BY <1>1, <1>2

Gzips == {"gzip", "x-gzip"}
Weighed(codings, k) == [gzip |-> Weight(codings, Gzips, k), star |-> Weight(codings, {"*"}, k)]

LEMMA WeighedSoFar ==
    ASSUME NEW codings, NEW n \in Nat, NEW f, Weighs(codings, f, n)
    PROVE  \A k \in 0..n : f[1..k] = Weighed(codings, k)
<1> DEFINE T == {k \in 0..n : f[1..k] # Weighed(codings, k)}
<1> SUFFICES ASSUME T # {} PROVE FALSE
  OBVIOUS
<1>1. PICK k \in T : \A j \in T : k <= j
  <2>1. T \subseteq Nat
    OBVIOUS
  <2> HIDE DEF T
  <2> QED BY <2>1, LeastOf
<1>2. k \in 0..n /\ f[1..k] # Weighed(codings, k)
  BY <1>1
<1>3. \A s \in SUBSET (1..n) :
        f[s] = IF s = {} THEN Unnamed ELSE Weigh(f[s \ {Max(s)}], codings[Max(s)])
  BY DEF Weighs
<1>4. 1..k \in SUBSET (1..n)
  BY <1>2
<1>5. CASE k = 0
  <2>1. f[1..k] = Unnamed
    <3>1. 1..k = {}
      BY <1>5
    <3> QED BY <1>3, <1>4, <3>1, Zenon
  <2>2. NamedIn(codings, Gzips, 0) = {} /\ NamedIn(codings, {"*"}, 0) = {}
    BY DEF NamedIn
  <2> QED BY <1>2, <1>5, <2>1, <2>2 DEF Weighed, Weight, Unnamed
<1>6. CASE k # 0
  <2>1. k - 1 \in 0..n /\ k - 1 \notin T /\ k \in Nat \ {0}
    BY <1>1, <1>6
  <2>2. f[1..(k - 1)] = Weighed(codings, k - 1)
    BY <2>1
  <2>3. k \in 1..k /\ \A i \in 1..k : i <= k
    BY <2>1
  <2>4. Max(1..k) = k
    BY <2>1, <2>3, LastOf
  <2>5. (1..k) \ {k} = 1..(k - 1) /\ 1..k # {}
    BY <2>1
  <2>6. f[1..k] = Weigh(Weighed(codings, k - 1), codings[k])
    BY <1>3, <1>4, <2>2, <2>4, <2>5
  <2> DEFINE w == Weighed(codings, k - 1)
  <2>7. /\ Weighed(codings, k).gzip = IF codings[k].coding \in Gzips THEN codings[k].q ELSE w.gzip
        /\ Weighed(codings, k).star = IF codings[k].coding \in {"*"} THEN codings[k].q ELSE w.star
    BY <2>1, NamedNext DEF Weighed
  <2>0. w = [gzip |-> Weight(codings, Gzips, k - 1), star |-> Weight(codings, {"*"}, k - 1)]
    BY DEF Weighed
  <2>8. /\ [w EXCEPT !.gzip = codings[k].q] = [gzip |-> codings[k].q, star |-> w.star]
        /\ [w EXCEPT !.star = codings[k].q] = [gzip |-> w.gzip, star |-> codings[k].q]
        /\ w = [gzip |-> w.gzip, star |-> w.star]
        /\ Weighed(codings, k) = [gzip |-> Weighed(codings, k).gzip, star |-> Weighed(codings, k).star]
    BY <2>0 DEF Weighed
  <2> HIDE DEF w
  <2>9. codings[k].coding \in Gzips => codings[k].coding \notin {"*"}
    BY DEF Gzips
  <2>10. f[1..k] = Weighed(codings, k)
    BY <2>6, <2>7, <2>8, <2>9 DEF Weigh, Gzips, w
  <2> QED BY <1>2, <2>10
<1> QED BY <1>5, <1>6

LEMMA FoldIs ==
    ASSUME NEW codings, NEW n \in Nat, DOMAIN codings = 1..n
    PROVE  LET f == CHOOSE f : Weighs(codings, f, n)
           IN AcceptsGzip(codings) <=>
                IF f[1..n].gzip >= 0 THEN f[1..n].gzip > 0 ELSE f[1..n].star > 0
BY DEF AcceptsGzip, FoldLeft, MapThenFoldSet, Weighs, Weigh, Unnamed

LEMMA AcceptsByWeight ==
    ASSUME NEW codings, codings \in Seq(ToSet(codings)), \A i \in DOMAIN codings : codings[i].q \in Nat
    PROVE  LET gzip == NamedIn(codings, Gzips, Len(codings))
               star == NamedIn(codings, {"*"}, Len(codings))
           IN AcceptsGzip(codings) <=>
                \/ gzip # {} /\ codings[Max(gzip)].q > 0
                \/ gzip = {} /\ star # {} /\ codings[Max(star)].q > 0
<1> DEFINE n == Len(codings)
           f == CHOOSE f : Weighs(codings, f, n)
           gzip == NamedIn(codings, Gzips, n)
           star == NamedIn(codings, {"*"}, n)
<1>1. n \in Nat /\ DOMAIN codings = 1..n
  OBVIOUS
<1>2. Weighs(codings, f, n)
  BY <1>1, WeighsExists
<1>3. AcceptsGzip(codings) <=>
        IF f[1..n].gzip >= 0 THEN f[1..n].gzip > 0 ELSE f[1..n].star > 0
  BY <1>1, FoldIs
<1> HIDE DEF f
<1>4. f[1..n] = Weighed(codings, n)
  BY <1>1, <1>2, WeighedSoFar
<1>5. gzip \subseteq 1..n /\ star \subseteq 1..n
  BY DEF NamedIn
<1>6. gzip # {} => codings[Max(gzip)].q \in Nat
  BY <1>1, <1>5, LastOf
<1>7. star # {} => codings[Max(star)].q \in Nat
  BY <1>1, <1>5, LastOf
<1>8. /\ f[1..n].gzip = IF gzip = {} THEN -1 ELSE codings[Max(gzip)].q
      /\ f[1..n].star = IF star = {} THEN -1 ELSE codings[Max(star)].q
  BY <1>4 DEF Weighed, Weight, gzip, star
<1> HIDE DEF gzip, star
<1>9. AcceptsGzip(codings) <=>
        \/ gzip # {} /\ codings[Max(gzip)].q > 0
        \/ gzip = {} /\ star # {} /\ codings[Max(star)].q > 0
  BY <1>3, <1>6, <1>7, <1>8
<1> QED BY <1>9 DEF gzip, star

-----------------------------------------------------------------------------
(* Sorting: ORDER BY as the places of the rows.                            *)

(* Places in an order.                                                     *)
Lower(S, r, x) == {y \in S : r[y] < r[x]}

LEMMA PlacesExist ==
    ASSUME NEW S, IsFiniteSet(S), NEW r \in [S -> Nat], \A x, y \in S : r[x] = r[y] => x = y
    PROVE  /\ Cardinality(S) \in Nat
           /\ \A x \in S : Cardinality(Lower(S, r, x)) + 1 \in 1..Cardinality(S)
           /\ \A x, y \in S : r[x] < r[y] => Cardinality(Lower(S, r, x)) < Cardinality(Lower(S, r, y))
           /\ \A i \in 1..Cardinality(S) : \E x \in S : Cardinality(Lower(S, r, x)) = i - 1
<1> DEFINE n == Cardinality(S)
<1>1. n \in Nat
  BY FS_CardinalityType
<1>2. ASSUME NEW x \in S
      PROVE  /\ IsFiniteSet(Lower(S, r, x)) /\ Cardinality(Lower(S, r, x)) \in Nat
             /\ Cardinality(Lower(S, r, x)) < n
  <2>1. Lower(S, r, x) \in SUBSET S /\ x \notin Lower(S, r, x)
    BY DEF Lower
  <2>2. /\ IsFiniteSet(Lower(S, r, x)) /\ Cardinality(Lower(S, r, x)) <= n
        /\ Cardinality(Lower(S, r, x)) # n
    BY <2>1, FS_Subset
  <2> QED BY <1>1, <2>2, FS_CardinalityType
<1>3. ASSUME NEW x \in S, NEW y \in S, r[x] < r[y]
      PROVE  Cardinality(Lower(S, r, x)) < Cardinality(Lower(S, r, y))
  <2>1. Lower(S, r, x) \in SUBSET Lower(S, r, y) /\ x \in Lower(S, r, y) /\ x \notin Lower(S, r, x)
    BY <1>3 DEF Lower
  <2>2. /\ Cardinality(Lower(S, r, x)) <= Cardinality(Lower(S, r, y))
        /\ Cardinality(Lower(S, r, x)) # Cardinality(Lower(S, r, y))
    BY <1>2, <2>1, FS_Subset
  <2> QED BY <1>2, <2>2
<1> DEFINE c == [x \in S |-> Cardinality(Lower(S, r, x)) + 1]
<1>4. c \in [S -> 1..n]
  BY <1>1, <1>2
<1>5. \A x, y \in S : c[x] = c[y] => x = y
  <2> SUFFICES ASSUME NEW x \in S, NEW y \in S, c[x] = c[y] PROVE x = y
    OBVIOUS
  <2>1. Cardinality(Lower(S, r, x)) = Cardinality(Lower(S, r, y))
    BY <1>2
  <2>2. ~(r[x] < r[y]) /\ ~(r[y] < r[x])
    BY <1>2, <1>3, <2>1
  <2> QED BY <2>2
<1> HIDE DEF c
<1>6. c \in Injection(S, 1..n)
  BY <1>4, <1>5 DEF Injection, IsInjective
<1>7. IsFiniteSet(1..n) /\ Cardinality(1..n) = n
  BY <1>1, FS_Interval
<1>8. c \in Surjection(S, 1..n)
  BY <1>6, <1>7, FS_Injection
<1>9. ASSUME NEW i \in 1..n PROVE \E x \in S : Cardinality(Lower(S, r, x)) = i - 1
  <2>1. PICK x \in S : c[x] = i
    BY <1>4, <1>8 DEF Surjection
  <2>2. Cardinality(Lower(S, r, x)) + 1 = i
    BY <2>1 DEF c
  <2> QED BY <1>2, <2>2
<1> QED BY <1>1, <1>2, <1>3, <1>9

(* A sequence of the elements by their places has each of them once.       *)
LEMMA PlacesOrder ==
    ASSUME NEW S, IsFiniteSet(S), NEW r \in [S -> Nat], \A x, y \in S : r[x] = r[y] => x = y,
           NEW L, DOMAIN L = 1..Cardinality(S),
           \A i \in DOMAIN L : L[i] \in S /\ Cardinality(Lower(S, r, L[i])) = i - 1
    PROVE  /\ \A x \in S : \E i \in DOMAIN L : L[i] = x
           /\ \A i, j \in DOMAIN L : i < j => r[L[i]] < r[L[j]]
<1>0. /\ Cardinality(S) \in Nat
      /\ \A x \in S : Cardinality(Lower(S, r, x)) + 1 \in 1..Cardinality(S)
      /\ \A x, y \in S : r[x] < r[y] => Cardinality(Lower(S, r, x)) < Cardinality(Lower(S, r, y))
  BY PlacesExist
<1>1. ASSUME NEW x \in S PROVE \E i \in DOMAIN L : L[i] = x
  <2> DEFINE k == Cardinality(Lower(S, r, x))
  <2>1. k + 1 \in DOMAIN L
    BY <1>0
  <2>2. k + 1 \in Nat /\ Cardinality(Lower(S, r, L[k + 1])) = (k + 1) - 1 /\ L[k + 1] \in S
    BY <1>0, <2>1
  <2>3. k \in Int
    BY <1>0, FS_CardinalityType, FS_Subset DEF Lower
  <2>4. Cardinality(Lower(S, r, L[k + 1])) = Cardinality(Lower(S, r, x))
    BY <2>2, <2>3
  <2>5. ~(r[L[k + 1]] < r[x]) /\ ~(r[x] < r[L[k + 1]])
    BY <1>0, <2>2, <2>3, <2>4
  <2>6. L[k + 1] = x
    BY <2>2, <2>5
  <2> QED BY <2>1, <2>6
<1>2. ASSUME NEW i \in DOMAIN L, NEW j \in DOMAIN L, i < j PROVE r[L[i]] < r[L[j]]
  <2>1. i - 1 < j - 1 /\ i \in Nat /\ j \in Nat
    BY <1>0, <1>2
  <2>2. r[L[i]] # r[L[j]]
    BY <2>1
  <2>3. ~(r[L[j]] < r[L[i]])
    BY <1>0, <2>1
  <2> QED BY <2>2, <2>3
<1> QED BY <1>1, <1>2

LEMMA RankIs ==
    ASSUME NEW n \in ToSet(NameOrder)
    PROVE  Rank(n) \in Nat /\ NameOrder[Rank(n)] = n
<1>1. DOMAIN NameOrder = 1..Len(NameOrder) /\ Len(NameOrder) \in Nat
  BY NamesAssumption
<1>2. \E i \in DOMAIN NameOrder : NameOrder[i] = n
  BY DEF ToSet
<1>3. Rank(n) \in DOMAIN NameOrder /\ NameOrder[Rank(n)] = n
  BY <1>2 DEF Rank
<1> QED BY <1>1, <1>3

LEMMA LexIs ==
    ASSUME NEW a \in Nat, NEW b \in Nat
    PROVE  Lex(<<a>>, <<b>>) <=> a < b
<1>1. DOMAIN <<a>> = {1} /\ <<a>>[1] = a /\ <<b>>[1] = b /\ 1..(1 - 1) = {}
  OBVIOUS
<1> QED BY <1>1 DEF Lex

(* A set of tables by name: each of them once, in the order of the names.  *)
ByRank(S) == OrderBy(S, LAMBDA x : <<Rank(x.name)>>)
LEMMA ByRankLists ==
    ASSUME NEW S, IsFiniteSet(S), \A x \in S : x.name \in ToSet(NameOrder),
           \A x, y \in S : x.name = y.name => x = y
    PROVE  LET L == ByRank(S)
           IN /\ {L[i].name : i \in DOMAIN L} = {x.name : x \in S}
              /\ \A i, j \in DOMAIN L : i < j => Rank(L[i].name) < Rank(L[j].name)
<1> DEFINE L == ByRank(S)
           r == [x \in S |-> Rank(x.name)]
<1>1. r \in [S -> Nat] /\ \A x, y \in S : r[x] = r[y] => x = y
  BY RankIs
<1>2. DOMAIN L = 1..Cardinality(S)
  BY DEF ByRank, OrderBy
<1>3. \A x \in S : {y \in S : Lex(<<Rank(y.name)>>, <<Rank(x.name)>>)} = Lower(S, r, x)
  BY LexIs, RankIs DEF Lower
<1>4. \A i \in DOMAIN L :
        \E x \in S : Cardinality({y \in S : Lex(<<Rank(y.name)>>, <<Rank(x.name)>>)}) = i - 1
  <2> HIDE DEF L, r
  <2>1. \A i \in 1..Cardinality(S) : \E x \in S : Cardinality(Lower(S, r, x)) = i - 1
    BY <1>1, PlacesExist
  <2> QED BY <1>2, <1>3, <2>1
<1>5. \A i \in DOMAIN L :
        L[i] = CHOOSE x \in S :
                  Cardinality({y \in S : Lex(<<Rank(y.name)>>, <<Rank(x.name)>>)}) = i - 1
  BY <1>2 DEF ByRank, OrderBy
<1>6. \A i \in DOMAIN L :
        /\ L[i] \in S
        /\ Cardinality({y \in S : Lex(<<Rank(y.name)>>, <<Rank(L[i].name)>>)}) = i - 1
  <2> HIDE DEF L
  <2> QED BY <1>4, <1>5, Zenon
<1> HIDE DEF L
<1>7. \A i \in DOMAIN L : L[i] \in S /\ Cardinality(Lower(S, r, L[i])) = i - 1
  BY <1>3, <1>6
<1>8. \A x \in S : r[x] = Rank(x.name)
  OBVIOUS
<1> HIDE DEF r
<1>9. /\ \A x \in S : \E i \in DOMAIN L : L[i] = x
      /\ \A i, j \in DOMAIN L : i < j => r[L[i]] < r[L[j]]
  BY <1>1, <1>2, <1>7, PlacesOrder
<1>10. {L[i].name : i \in DOMAIN L} = {x.name : x \in S}
  BY <1>7, <1>9
<1>11. \A i, j \in DOMAIN L : i < j => Rank(L[i].name) < Rank(L[j].name)
  BY <1>7, <1>8, <1>9
<1> QED BY <1>10, <1>11 DEF L

LEMMA ListingsAre ==
    ASSUME NEW d, NEW s
    PROVE  /\ Pg!Listing(d, s)
                = ByRank({x \in d.tables : x.schema = s /\ x.kind = "base" /\ x.readable})
           /\ My!Listing(d, s) = ByRank(My!BaseTables(d, s))
           /\ LET listed == ByRank(Sq!ServedTables(d))
              IN Sq!ListTables(d) = [i \in DOMAIN listed |-> listed[i].name]
<1>1. Pg!Listing(d, s)
        = ByRank({x \in d.tables : x.schema = s /\ x.kind = "base" /\ x.readable})
  BY DEF Pg!Listing, ByRank, OrderBy, Pg!OrderBy, Lex, Pg!Lex, Rank, Pg!Rank,
         Cardinality, Pg!Cardinality
<1>2. My!Listing(d, s) = ByRank(My!BaseTables(d, s))
  BY DEF My!Listing, ByRank, OrderBy, My!OrderBy, Lex, My!Lex, Rank, My!Rank,
         Cardinality, My!Cardinality
<1>3. LET listed == ByRank(Sq!ServedTables(d))
      IN Sq!ListTables(d) = [i \in DOMAIN listed |-> listed[i].name]
  BY DEF Sq!ListTables, ByRank, OrderBy, Sq!OrderBy, Lex, Sq!Lex, Rank, Sq!Rank,
         Cardinality, Sq!Cardinality
<1> QED BY <1>1, <1>2, <1>3

(* The names a listing tells, and the table the gate lets through.         *)
TellsAll(names, S) ==
    /\ ToSet(names) = {x.name : x \in S}
    /\ \A i, j \in DOMAIN names : i < j => Rank(names[i]) < Rank(names[j])

LEMMA ByRankTells ==
    ASSUME Untouched(db), NEW S, S \subseteq db.tables, NEW s, \A x \in S : x.schema = s,
           NEW names, DOMAIN names = DOMAIN ByRank(S),
           \A i \in DOMAIN names : names[i] = ByRank(S)[i].name
    PROVE  TellsAll(names, S)
<1> DEFINE L == ByRank(S)
<1>1. IsFiniteSet(S)
  BY FS_Subset DEF Untouched
<1>2. \A x \in S : x.name \in ToSet(NameOrder)
  BY DEF Untouched
<1>3. \A x, y \in S : x.name = y.name => x = y
  BY DEF Untouched, Catalogued
<1>4. /\ {L[i].name : i \in DOMAIN L} = {x.name : x \in S}
      /\ \A i, j \in DOMAIN L : i < j => Rank(L[i].name) < Rank(L[j].name)
  BY <1>1, <1>2, <1>3, ByRankLists
<1> HIDE DEF L
<1>5. ToSet(names) = {L[i].name : i \in DOMAIN L}
  BY DEF ToSet, L
<1>6. \A i, j \in DOMAIN names : i < j => Rank(names[i]) < Rank(names[j])
  BY <1>4 DEF L
<1> QED BY <1>4, <1>5, <1>6 DEF TellsAll

-----------------------------------------------------------------------------
(* A list against the gate, in a database nobody touched.                  *)
ListNow ==
    IF Asks({"tables"})
    THEN By(Pg!ListTables(db, Schema), My!ListTables(db, Schema), Sq!ListTables(db))
    ELSE By(Pg!TableCounts(db, Schema), My!TableCounts(db, Schema),
            Sq!TableCounts(Sq!ListTables(db)))
NamesOf(list) == IF Asks({"tables"}) THEN list ELSE [i \in DOMAIN list |-> list[i][1]]
Gate(t) ==
    By(Pg!ReadableTableOid(db, Schema, t).ok, t \in My!AllowedTables(db, Schema),
       t \in Sq!AllowedTables(db))

LEMMA ListIsGate ==
    ASSUME Untouched(db), HasEngine(db)
    PROVE  /\ ToSet(NamesOf(ListNow)) = {t \in ToSet(NameOrder) : Gate(t)}
           /\ \A i, j \in DOMAIN NamesOf(ListNow) :
                i < j => Rank(NamesOf(ListNow)[i]) < Rank(NamesOf(ListNow)[j])
<1> DEFINE s == IF Engine = "sqlite" THEN Sq!OnlySchema ELSE Schema
           S == CASE Engine = "postgres" ->
                        {x \in db.tables : x.schema = s /\ x.kind = "base" /\ x.readable}
                  [] Engine = "mysql" -> My!BaseTables(db, s)
                  [] Engine = "sqlite" -> Sq!ServedTables(db)
           names == NamesOf(ListNow)
<1>1. DOMAIN names = DOMAIN ByRank(S) /\ \A i \in DOMAIN names : names[i] = ByRank(S)[i].name
  <2>1. CASE Engine = "postgres"
    <3>1. Pg!Listing(db, s) = ByRank(S)
      BY <2>1, ListingsAre
    <3>2. ListNow = IF Asks({"tables"}) THEN Pg!ListTables(db, s) ELSE Pg!TableCounts(db, s)
      BY <2>1 DEF ListNow, By
    <3> HIDE DEF S, s
    <3> QED BY <3>1, <3>2 DEF NamesOf, Pg!ListTables, Pg!TableCounts
  <2>2. CASE Engine = "mysql"
    <3>1. My!Listing(db, s) = ByRank(S)
      BY <2>2, ListingsAre
    <3>2. ListNow = IF Asks({"tables"}) THEN My!ListTables(db, s) ELSE My!TableCounts(db, s)
      BY <2>2 DEF ListNow, By
    <3> HIDE DEF S, s
    <3> QED BY <3>1, <3>2 DEF NamesOf, My!ListTables, My!TableCounts
  <2>3. CASE Engine = "sqlite"
    <3>1. Sq!ListTables(db) = [i \in DOMAIN ByRank(S) |-> ByRank(S)[i].name]
      BY <2>3, ListingsAre
    <3>2. ListNow = IF Asks({"tables"}) THEN Sq!ListTables(db)
                    ELSE Sq!TableCounts(Sq!ListTables(db))
      BY <2>3 DEF ListNow, By
    <3> HIDE DEF S, s
    <3> QED BY <3>1, <3>2 DEF NamesOf, Sq!TableCounts
  <2> QED BY <2>1, <2>2, <2>3 DEF HasEngine, Engine
<1>2. S \subseteq db.tables /\ \A x \in S : x.schema = s
  BY DEF HasEngine, Engine, My!BaseTables, Sq!ServedTables
<1>3. \A t \in ToSet(NameOrder) : Gate(t) <=> \E x \in S : x.name = t
  <2> SUFFICES ASSUME NEW t \in ToSet(NameOrder) PROVE Gate(t) <=> \E x \in S : x.name = t
    BY DEF Gate, By, Pg!ReadableTableOid
  <2>1. CASE Engine = "postgres"
    <3>1. Gate(t) <=> Pg!ReadableTableOid(db, s, t).ok
      BY <2>1 DEF Gate, By
    <3>2. \A x \in S : x.name \notin NulNames
      BY <1>2 DEF Untouched
    <3>3. Pg!ReadableTableOid(db, s, t).ok
            <=> ~(t \in NulNames \/ {x \in Pg!TablesAt(db, s, t) : x.kind = "base" /\ x.readable} = {})
      BY DEF Pg!ReadableTableOid, Pg!Err, Pg!Ok
    <3> QED BY <2>1, <3>1, <3>2, <3>3 DEF Pg!TablesAt
  <2>2. CASE Engine = "mysql"
    BY <2>2 DEF Gate, By, My!AllowedTables
  <2>3. CASE Engine = "sqlite"
    BY <2>3 DEF Gate, By, Sq!AllowedTables
  <2> QED BY <2>1, <2>2, <2>3 DEF HasEngine, Engine
<1>4. \A x \in S : x.name \in ToSet(NameOrder)
  BY <1>2 DEF Untouched
<1> HIDE DEF S, s, names
<1>5. TellsAll(names, S)
  BY <1>1, <1>2, ByRankTells
<1> QED BY <1>3, <1>4, <1>5 DEF TellsAll, names
-----------------------------------------------------------------------------

-----------------------------------------------------------------------------
(* The steps.  A list is read once, and answers its request at once: no    *)
(* list is there while one is waited for.  What the session's own schema   *)
(* is was read from the database there is.                                 *)
RestInv == req = None => answer = Pending
WaitedInv == Runs /\ Asks({"tables", "counts"}) => ~Has(read, "list", None)
DefaultInv ==
    seen # {} /\ ~disturbed /\ Engine \in {"postgres", "mysql"} /\ Has(read, "default", None)
        => read[<<"default", None>>] = db.current
LInv ==
    /\ RestInv /\ WaitedInv /\ DefaultInv
    /\ ListedMeansServed /\ EncodingIsAccepted

(* What a step can be, as far as the lists and the page are concerned.     *)
Learns(kind, t, value) ==
    /\ Statement(kind, t) /\ Learn(kind, t, value)
    /\ kind = "default" /\ Engine \in {"postgres", "mysql"} => value = db.current
    /\ kind = "list" => t = None /\ InSchema /\ Asks({"tables", "counts"}) /\ value = ListNow
Fails ==
    /\ Runs /\ UNCHANGED <<req, db, seen, read>> /\ (disturbed' \/ UNCHANGED disturbed)
    /\ \E code : answer' = Problem(code)
Waits ==
    /\ UNCHANGED <<req, read, answer, probes>>
    /\ \/ UNCHANGED <<db, seen, disturbed>>
       \/ disturbed' /\ Runs

LEMMA StepIs ==
    ASSUME [Next]_vars
    PROVE  \/ \E kind, t, value : Learns(kind, t, value)
           \/ Fails \/ Waits \/ Receive
           \/ \E i \in Checked : HealthCheck(i)
           \/ \E r \in Requests : Ask(r)
<1> DEFINE Goal == \/ \E kind, t, value : Learns(kind, t, value)
                   \/ Fails \/ Waits \/ Receive
                   \/ \E i \in Checked : HealthCheck(i)
                   \/ \E r \in Requests : Ask(r)
<1> SUFFICES Goal
  OBVIOUS
<1>1. CASE Version \/ Lock \/ Unlock \/ UNCHANGED vars \/ \E edit \in Edits : Alter(edit)
  <2>1. Waits
    BY <1>1 DEF Version, Lock, Unlock, vars, Alter, Meddles, Waits
  <2> QED BY <2>1
<1>2. CASE Expire \/ Busy \/ Fail
  <2>1. Fails
    BY <1>2 DEF Expire, Busy, Fail, Refuse, Meddles, Fails
  <2> QED BY <2>1
<1>3. CASE Select
  <2>0. PICK result \in Outcomes(db, sql) :
            IF result.ok THEN Learn("select", None, result.val)
            ELSE Refuse(SelectError(result.code)) /\ UNCHANGED disturbed
    BY <1>3 DEF Select
  <2>1. ASSUME result.ok PROVE Learns("select", None, result.val)
    BY <1>3, <2>0, <2>1 DEF Select, Learns
  <2>2. ASSUME ~result.ok PROVE Fails
    BY <1>3, <2>0, <2>2 DEF Select, Refuse, Fails, Statement
  <2> QED BY <2>1, <2>2
<1>4. CASE DefaultSchema
  <2> DEFINE value == By(Pg!DefaultSchema(db), My!DefaultSchema(db), None)
  <2>1. Statement("default", None) /\ Learn("default", None, value)
    BY <1>4 DEF DefaultSchema
  <2>2. Engine \in {"postgres", "mysql"} => value = db.current
    BY DEF By, Pg!DefaultSchema, My!DefaultSchema
  <2> HIDE DEF value
  <2>3. Learns("default", None, value)
    BY <2>1, <2>2 DEF Learns
  <2> QED BY <2>3
<1>5. CASE ListTables
  <2>1. Learns("list", None, ListNow)
    BY <1>5 DEF ListTables, ListNow, Learns, Asks
  <2> QED BY <2>1
<1>6. CASE TableCounts
  <2>1. Learns("list", None, ListNow)
    BY <1>6 DEF TableCounts, ListNow, Learns, Asks
  <2> QED BY <2>1
<1> DEFINE Other(kind) == kind # "default" /\ kind # "list"
<1>7. ASSUME NEW kind, NEW t, NEW value, Statement(kind, t), Learn(kind, t, value), Other(kind)
      PROVE  Goal
  <2>1. Learns(kind, t, value)
    BY <1>7 DEF Learns
  <2> QED BY <2>1
<1> HIDE DEF Goal
<1>8. CASE ListSchemas
  BY <1>7, <1>8 DEF ListSchemas
<1>9. CASE AllowedTables
  BY <1>7, <1>9 DEF AllowedTables
<1>10. CASE EstimateRows
  BY <1>7, <1>10 DEF EstimateRows
<1>11. ASSUME NEW t \in ToSet(NameOrder), ReadableTable(t) \/ ReadColumns(t) \/ ReadPrimaryKey(t)
       PROVE  Goal
  BY <1>7, <1>11 DEF ReadableTable, ReadColumns, ReadPrimaryKey
<1>12. ASSUME NEW t \in ToSet(NameOrder), ReadKeys(t) PROVE Goal
  BY <1>7, <1>12 DEF ReadKeys
<1>13. ASSUME NEW t \in ToSet(NameOrder), ReadJsonColumns(t) \/ ReadNames(t) \/ ReadReferrers(t)
       PROVE  Goal
  BY <1>7, <1>13 DEF ReadJsonColumns, ReadNames, ReadReferrers
<1>14. ASSUME NEW t \in ToSet(NameOrder), ReadStatistics(t) \/ ReadType(t) PROVE Goal
  BY <1>7, <1>14 DEF ReadStatistics, ReadType
<1>15. ASSUME NEW t \in ToSet(NameOrder), ReadIndexes(t) \/ ReadIndexSql(t) PROVE Goal
  BY <1>7, <1>15 DEF ReadIndexes, ReadIndexSql
<1>16. ASSUME NEW t \in ToSet(NameOrder), ReadUniques(t) PROVE Goal
  BY <1>7, <1>16 DEF ReadUniques
<1>17. ASSUME NEW t \in ToSet(NameOrder), ReadForeignKeys(t) \/ ReadChecksView(t) \/ ReadChecks(t)
       PROVE  Goal
  BY <1>7, <1>17 DEF ReadForeignKeys, ReadChecksView, ReadChecks
<1>18. CASE Receive \/ (\E i \in Checked : HealthCheck(i)) \/ (\E r \in Requests : Ask(r))
  BY <1>18 DEF Goal
<1>19. Version \/ Lock \/ Unlock \/ UNCHANGED vars \/ (\E edit \in Edits : Alter(edit)) => Goal
  BY <1>1 DEF Goal
<1>20. Expire \/ Busy \/ Fail \/ Select \/ DefaultSchema \/ ListTables \/ TableCounts => Goal
  BY <1>2, <1>3, <1>4, <1>5, <1>6 DEF Goal
<1>21. Goal
  BY <1>8, <1>9, <1>10, <1>11, <1>12, <1>13, <1>14, <1>15, <1>16, <1>17, <1>18, <1>19, <1>20
     DEF Next, Handle, World
<1> QED BY <1>21 DEF Goal
-----------------------------------------------------------------------------

LEMMA PageIs ==
    ASSUME NEW r \in Requests, r.route = "page"
    PROVE  LET named(codings) == {i \in DOMAIN r.encodings : r.encodings[i].coding \in codings}
               weight(is) == r.encodings[Max(is)].q
               gzip == named({"gzip", "x-gzip"})
           IN PageEncoding(r.encodings) =
                IF \/ gzip # {} /\ weight(gzip) > 0
                   \/ gzip = {} /\ named({"*"}) # {} /\ weight(named({"*"})) > 0
                THEN "gzip" ELSE "identity"
<1> DEFINE codings == r.encodings
           named(names) == {i \in DOMAIN codings : codings[i].coding \in names}
           gzip == NamedIn(codings, Gzips, Len(codings))
           star == NamedIn(codings, {"*"}, Len(codings))
<1>1. codings \in Seq(ToSet(codings)) /\ \A i \in DOMAIN codings : codings[i].q \in Nat
  BY RequestsAssumption
<1>2. gzip = named({"gzip", "x-gzip"}) /\ star = named({"*"})
  <2>1. DOMAIN codings = 1..Len(codings)
    BY <1>1
  <2> HIDE DEF codings
  <2> QED BY <2>1 DEF NamedIn, Gzips
<1>3. AcceptsGzip(codings) <=>
        \/ gzip # {} /\ codings[Max(gzip)].q > 0
        \/ gzip = {} /\ star # {} /\ codings[Max(star)].q > 0
  <2> HIDE DEF codings
  <2> QED BY <1>1, AcceptsByWeight
<1>4. PageEncoding(codings) = IF AcceptsGzip(codings) THEN "gzip" ELSE "identity"
  BY DEF PageEncoding
<1> HIDE DEF gzip, star
<1>5. PageEncoding(codings) =
        IF \/ gzip # {} /\ codings[Max(gzip)].q > 0
           \/ gzip = {} /\ star # {} /\ codings[Max(star)].q > 0
        THEN "gzip" ELSE "identity"
  BY <1>3, <1>4
<1> QED BY <1>2, <1>5, Zenon

(* An answer of 200 that is kept keeps its promises.                       *)
LEMMA KeptAnswer ==
    ASSUME ListedMeansServed, EncodingIsAccepted,
           UNCHANGED <<req, answer>>, disturbed' \/ UNCHANGED <<db, seen, disturbed>>
    PROVE  ListedMeansServed' /\ EncodingIsAccepted'
<1>1. CASE disturbed'
  BY <1>1 DEF ListedMeansServed, EncodingIsAccepted, Answered
<1>2. CASE UNCHANGED <<db, seen, disturbed>>
  <2>1. ListedMeansServed'
    BY <1>2 DEF ListedMeansServed, Answered, Asks
  <2>2. EncodingIsAccepted'
    BY <1>2 DEF EncodingIsAccepted, Answered, Asks
  <2> QED BY <2>1, <2>2
<1> QED BY <1>1, <1>2

(* The answer that is made of a list.                                      *)
LEMMA ListAnswered ==
    ASSUME UNCHANGED <<req, db>>, Untouched(db), HasEngine(db),
           Schema = SchemaAsked(req, db), answer' = Success(ListNow)
    PROVE  ListedMeansServed'
<1> DEFINE names == NamesOf(ListNow)
<1>1. /\ ToSet(names) = {t \in ToSet(NameOrder) : Gate(t)}
      /\ \A i, j \in DOMAIN names : i < j => Rank(names[i]) < Rank(names[j])
  BY ListIsGate
<1>2. ListTells(req, db, ListNow)
  BY <1>1 DEF ListTells, Gate, NamesOf, Asks, By, Engine
<1>3. answer'.body = ListNow
  BY DEF Success
<1> QED BY <1>2, <1>3 DEF ListedMeansServed

LEMMA LearnLists ==
    ASSUME IInv, AInv, LInv, NEW kind, NEW t, NEW value, Learns(kind, t, value)
    PROVE  LInv'
<1> DEFINE new == [k \in DOMAIN read \cup {<<kind, t>>} |->
                        IF k = <<kind, t>> THEN value ELSE read[k]]
<1>1. PICK known : known = new
  OBVIOUS
<1>2. /\ Runs /\ ~Has(read, kind, t) /\ Proceed(known, Verdict(known))
      /\ UNCHANGED <<db, req, seen, disturbed>> /\ read' = known
  BY <1>1 DEF Learns, Statement, Learn, Proceed
<1>3. req # None /\ req.route \notin Standalone
  BY <1>2 DEF Runs, Asks
<1>4. \/ answer' = Problem(Verdict(known).code)
      \/ Complete(known) /\ answer' = Success(Body(known))
      \/ ~Complete(known) /\ answer' = Pending
  BY <1>2 DEF Proceed
<1>5. \A body, code : /\ Success(body) # Pending /\ Problem(code) # Pending
                      /\ Success(body).status = 200 /\ Problem(code).status # 200
                      /\ Pending.status # 200
  BY DEF Success, Problem, Pending
<1>6. Asks({"tables", "counts"}) =>
        /\ Complete(known) <=> Has(known, "list", None)
        /\ Body(known) = known[<<"list", None>>]
  BY DEF Asks, Complete, Body
<1>7. RestInv'
  BY <1>2, <1>3 DEF RestInv
<1>8. WaitedInv'
  BY <1>2, <1>4, <1>5, <1>6 DEF WaitedInv, Runs, Asks, Has
<1>9. DefaultInv'
  <2>1. Engine' = Engine
    BY <1>2 DEF Engine
  <2>2. kind = "default" /\ Engine \in {"postgres", "mysql"} => value = db.current
    BY DEF Learns
  <2>3. \A k \in DOMAIN known : k # <<kind, t>> => k \in DOMAIN read /\ known[k] = read[k]
    BY <1>1
  <2>4. known[<<kind, t>>] = value
    BY <1>1
  <2> QED BY <1>2, <2>1, <2>2, <2>3, <2>4 DEF LInv, DefaultInv, Has
<1>10. EncodingIsAccepted'
  BY <1>2, <1>3 DEF EncodingIsAccepted, Answered, Asks, Standalone
<1>11. ListedMeansServed'
  <2> SUFFICES ASSUME Answered({"tables", "counts"})' PROVE ListedMeansServed'
    BY DEF ListedMeansServed
  <2>1. Asks({"tables", "counts"}) /\ ~disturbed /\ answer' = Success(Body(known)) /\ Complete(known)
    BY <1>2, <1>4, <1>5 DEF Answered, Asks
  <2>2. Has(known, "list", None) /\ ~Has(read, "list", None) /\ Body(known) = known[<<"list", None>>]
    BY <1>2, <1>6, <2>1 DEF LInv, WaitedInv
  <2>3. <<kind, t>> = <<"list", None>> /\ known[<<"list", None>>] = value
    BY <1>1, <2>2 DEF Has
  <2>4. InSchema /\ value = ListNow
    BY <2>3 DEF Learns
  <2>5. seen # {} /\ HasEngine(db) /\ Untouched(db)
    BY <1>2, <2>1, CalmIs DEF IInv, AInv, SeenInv
  <2>6. Schema = SchemaAsked(req, db)
    <3>1. CASE db.engine = "sqlite"
      BY <3>1 DEF Schema, SchemaOf, SchemaAsked, Engine
    <3>2. CASE db.engine \in {"postgres", "mysql"}
      <4>1. req.schema # None \/ Has(read, "default", None)
        BY <2>4, <3>2 DEF InSchema, Resolved, Engine
      <4>2. req.schema # None \/ read[<<"default", None>>] = db.current
        BY <2>1, <2>5, <3>2, <4>1 DEF LInv, DefaultInv, Engine
      <4> QED BY <3>2, <4>2 DEF Schema, SchemaOf, SchemaAsked, Engine
    <3> QED BY <2>5, <3>1, <3>2 DEF HasEngine
  <2> QED BY <1>2, <2>1, <2>2, <2>3, <2>4, <2>5, <2>6, ListAnswered
<1> QED BY <1>7, <1>8, <1>9, <1>10, <1>11 DEF LInv

LEMMA FailLists == ASSUME LInv, Fails PROVE LInv'
<1>1. PICK code : answer' = Problem(code)
  BY DEF Fails
<1>2. answer' # Pending /\ answer'.status # 200
  BY <1>1 DEF Problem, Pending
<1>3. RestInv' /\ WaitedInv'
  BY <1>2 DEF Fails, RestInv, WaitedInv, Runs
<1>4. DefaultInv'
  BY DEF Fails, LInv, DefaultInv, Engine, Has
<1>5. ListedMeansServed' /\ EncodingIsAccepted'
  BY <1>2 DEF ListedMeansServed, EncodingIsAccepted, Answered
<1> QED BY <1>3, <1>4, <1>5 DEF LInv

LEMMA WaitLists == ASSUME LInv, Waits PROVE LInv'
<1>1. RestInv' /\ WaitedInv'
  BY DEF Waits, LInv, RestInv, WaitedInv, Runs, Asks, Has
<1>2. DefaultInv'
  BY DEF Waits, LInv, DefaultInv, Engine, Has
<1>3. ListedMeansServed' /\ EncodingIsAccepted'
  BY KeptAnswer DEF Waits, LInv
<1> QED BY <1>1, <1>2, <1>3 DEF LInv

LEMMA HealthLists == ASSUME LInv, NEW i \in Checked, HealthCheck(i) PROVE LInv'
<1>1. /\ UNCHANGED <<db, req, read, seen, disturbed>>
      /\ req # None /\ req.route = "siblings"
  BY DEF HealthCheck, Asks
<1>2. RestInv' /\ WaitedInv' /\ ListedMeansServed' /\ EncodingIsAccepted'
  BY <1>1 DEF RestInv, WaitedInv, ListedMeansServed, EncodingIsAccepted, Answered, Asks
<1>3. DefaultInv'
  BY <1>1 DEF LInv, DefaultInv, Engine, Has
<1> QED BY <1>2, <1>3 DEF LInv

LEMMA AskLists == ASSUME IInv, NEW r \in Requests, Ask(r) PROVE LInv'
<1>1. /\ req' = r /\ r # None /\ read' = <<>>
      /\ answer' = IF EarlyFault(r).ok THEN EarlyAnswer(r) ELSE Problem(EarlyFault(r).code)
  BY RequestsAssumption DEF Ask, IInv, IdleInv
<1>2. RestInv' /\ WaitedInv' /\ DefaultInv'
  BY <1>1 DEF RestInv, WaitedInv, DefaultInv, Has
<1>3. \A code : Problem(code).status # 200
  BY DEF Problem
<1>4. ListedMeansServed'
  <2> SUFFICES ASSUME r.route \in {"tables", "counts"} PROVE answer'.status # 200
    BY <1>1 DEF ListedMeansServed, Answered, Asks
  <2>1. EarlyAnswer(r) = Pending
    BY DEF EarlyAnswer
  <2> QED BY <1>1, <1>3, <2>1 DEF Pending
<1>5. EncodingIsAccepted'
  <2> SUFFICES ASSUME r.route = "page", answer'.status = 200 PROVE EncodingIsAccepted'
    BY <1>1 DEF EncodingIsAccepted, Answered, Asks
  <2>1. EarlyAnswer(r) = Success(PageEncoding(r.encodings))
    BY DEF EarlyAnswer
  <2>2. answer'.body = PageEncoding(r.encodings)
    BY <1>1, <1>3, <2>1 DEF Success
  <2> QED BY <1>1, <2>2, PageIs, ZenonT(40) DEF EncodingIsAccepted
<1> QED BY <1>2, <1>4, <1>5 DEF LInv

LEMMA ReceiveLists == ASSUME Receive PROVE LInv'
BY DEF Receive, LInv, RestInv, WaitedInv, DefaultInv, ListedMeansServed, EncodingIsAccepted,
       Answered, Runs, Has

LEMMA InitLists == Init => LInv
BY DEF Init, LInv, RestInv, WaitedInv, DefaultInv, ListedMeansServed, EncodingIsAccepted,
       Answered, Runs, Has

LEMMA NextLists == IInv /\ AInv /\ LInv /\ [Next]_vars => LInv'
<1> SUFFICES ASSUME IInv, AInv, LInv, [Next]_vars PROVE LInv'
  OBVIOUS
<1>1. ASSUME NEW kind, NEW t, NEW value, Learns(kind, t, value) PROVE LInv'
  BY <1>1, LearnLists
<1>2. CASE Fails
  BY <1>2, FailLists
<1>3. CASE Waits
  BY <1>3, WaitLists
<1>4. CASE Receive
  BY <1>4, ReceiveLists
<1>5. ASSUME NEW i \in Checked, HealthCheck(i) PROVE LInv'
  BY <1>5, HealthLists
<1>6. ASSUME NEW r \in Requests, Ask(r) PROVE LInv'
  BY <1>6, AskLists
<1> QED BY <1>1, <1>2, <1>3, <1>4, <1>5, <1>6, StepIs

LEMMA ListsHold == Spec => []LInv
  BY InitInv, NextInv, InitAnswers, NextAnswers, InitLists, NextLists, PTL DEF Spec

(* A list of tables, or of their counts, tells a table exactly when the    *)
(* gate of the other routes lets it through, each once and in the order of *)
(* their names, whatever the catalogue (list_tables and table_counts       *)
(* against readable_table_oid and allowed_tables in the three backends).   *)
THEOREM ListsTellTheServed == Spec => []ListedMeansServed
<1>1. LInv => ListedMeansServed
  BY DEF LInv
<1> QED BY <1>1, ListsHold, PTL

(* Whatever codings a client names, how often and in what order, the page  *)
(* is compressed exactly when the last weight it gave to gzip, or to       *)
(* everything where it named no gzip, is above zero (accepts_gzip in       *)
(* protocol_wire.rs).                                                      *)
THEOREM PagesAreReadable == Spec => []EncodingIsAccepted
<1>1. LInv => EncodingIsAccepted
  BY DEF LInv
<1> QED BY <1>1, ListsHold, PTL

-----------------------------------------------------------------------------
(* The siblings.  A sequence holds an entry once, or not at all; so does   *)
(* the concatenation of sequences of which one at most holds it.           *)
Lacks(s, w) == \A k \in DOMAIN s : s[k] # w
HasOnce(s, w) == \E k \in DOMAIN s : s[k] = w /\ \A l \in DOMAIN s : s[l] = w => l = k
Count(s, w) == Cardinality({k \in DOMAIN s : s[k] = w})

LEMMA CountIs ==
    ASSUME NEW s, NEW w
    PROVE  /\ Lacks(s, w) => Count(s, w) = 0
           /\ HasOnce(s, w) => Count(s, w) = 1
<1>1. ASSUME Lacks(s, w) PROVE Count(s, w) = 0
  <2>1. {k \in DOMAIN s : s[k] = w} = {}
    BY <1>1 DEF Lacks
  <2> QED BY <2>1, FS_EmptySet DEF Count
<1>2. ASSUME HasOnce(s, w) PROVE Count(s, w) = 1
  <2>1. PICK k \in DOMAIN s : s[k] = w /\ \A l \in DOMAIN s : s[l] = w => l = k
    BY <1>2 DEF HasOnce
  <2>2. {l \in DOMAIN s : s[l] = w} = {k}
    BY <2>1
  <2> QED BY <2>2, FS_Singleton DEF Count
<1> QED BY <1>1, <1>2

LEMMA ShortHolds ==
    ASSUME NEW S, NEW x \in S, NEW w
    PROVE  /\ <<x>> \in Seq(S) /\ <<>> \in Seq(S) /\ Lacks(<<>>, w)
           /\ x = w => HasOnce(<<x>>, w)
           /\ x # w => Lacks(<<x>>, w)
<1>1. DOMAIN <<x>> = {1} /\ <<x>>[1] = x
  OBVIOUS
<1> QED BY <1>1 DEF Lacks, HasOnce

LEMMA ConcatHolds ==
    ASSUME NEW S, NEW s \in Seq(S), NEW t \in Seq(S), NEW w
    PROVE  /\ Lacks(s, w) /\ Lacks(t, w) => Lacks(s \o t, w)
           /\ Lacks(s, w) /\ HasOnce(t, w) => HasOnce(s \o t, w)
           /\ HasOnce(s, w) /\ Lacks(t, w) => HasOnce(s \o t, w)
<1>1. /\ s \o t \in Seq(S) /\ Len(s) \in Nat /\ Len(t) \in Nat
      /\ Len(s \o t) = Len(s) + Len(t)
      /\ DOMAIN s = 1..Len(s) /\ DOMAIN t = 1..Len(t)
      /\ DOMAIN (s \o t) = 1..(Len(s) + Len(t))
  OBVIOUS
<1>2. \A k \in DOMAIN (s \o t) :
        (s \o t)[k] = IF k <= Len(s) THEN s[k] ELSE t[k - Len(s)]
  BY <1>1
<1>3. \A k \in DOMAIN (s \o t) :
        IF k <= Len(s) THEN k \in DOMAIN s ELSE k - Len(s) \in DOMAIN t
  BY <1>1
<1> DEFINE u == s \o t
           n == Len(s)
<1>4. /\ n \in Nat /\ DOMAIN s = 1..n
      /\ \A k \in DOMAIN u : k \in Nat
      /\ \A k \in DOMAIN u : k <= n => k \in DOMAIN s /\ u[k] = s[k]
      /\ \A k \in DOMAIN u : ~(k <= n) => k - n \in DOMAIN t /\ u[k] = t[k - n]
      /\ \A k \in DOMAIN s : k \in DOMAIN u /\ u[k] = s[k] /\ k <= n
      /\ \A k \in DOMAIN t : k \in Nat /\ n + k \in DOMAIN u /\ u[n + k] = t[k] /\ ~(n + k <= n)
  BY <1>1, <1>2, <1>3
<1> HIDE DEF u, n
<1>5. ASSUME Lacks(s, w), Lacks(t, w) PROVE Lacks(u, w)
  BY <1>4, <1>5 DEF Lacks
<1>6. ASSUME Lacks(s, w), HasOnce(t, w) PROVE HasOnce(u, w)
  <2>1. PICK k \in DOMAIN t : t[k] = w /\ \A l \in DOMAIN t : t[l] = w => l = k
    BY <1>6 DEF HasOnce
  <2>2. n + k \in DOMAIN u /\ u[n + k] = w
    BY <1>4, <2>1
  <2>3. ASSUME NEW l \in DOMAIN u, u[l] = w PROVE l = n + k
    <3>1. ~(l <= n)
      BY <1>4, <1>6, <2>3 DEF Lacks
    <3>2. l - n = k
      BY <1>4, <2>1, <2>3, <3>1
    <3> QED BY <1>4, <2>1, <3>2
  <2> QED BY <2>2, <2>3 DEF HasOnce
<1>7. ASSUME HasOnce(s, w), Lacks(t, w) PROVE HasOnce(u, w)
  <2>1. PICK k \in DOMAIN s : s[k] = w /\ \A l \in DOMAIN s : s[l] = w => l = k
    BY <1>7 DEF HasOnce
  <2>2. k \in DOMAIN u /\ u[k] = w
    BY <1>4, <2>1
  <2>3. ASSUME NEW l \in DOMAIN u, u[l] = w PROVE l = k
    BY <1>4, <1>7, <2>1, <2>3 DEF Lacks
  <2> QED BY <2>2, <2>3 DEF HasOnce
<1> QED BY <1>5, <1>6, <1>7 DEF u

LEMMA FlattenHolds ==
    ASSUME NEW S, NEW seqs \in Seq(Seq(S)), NEW w
    PROVE  /\ (\A i \in DOMAIN seqs : Lacks(seqs[i], w)) => Lacks(FlattenSeq(seqs), w)
           /\ (\E p \in DOMAIN seqs :
                    HasOnce(seqs[p], w) /\ \A i \in DOMAIN seqs \ {p} : Lacks(seqs[i], w))
              => HasOnce(FlattenSeq(seqs), w)
<1>0. CASE seqs = <<>>
  <2>1. FlattenSeq(seqs) = <<>> /\ DOMAIN seqs = {}
    BY <1>0 DEF FlattenSeq
  <2> QED BY <1>0, <2>1 DEF Lacks
<1> SUFFICES ASSUME seqs # <<>>
             PROVE  /\ (\A i \in DOMAIN seqs : Lacks(seqs[i], w)) => Lacks(FlattenSeq(seqs), w)
                    /\ (\E p \in DOMAIN seqs :
                            HasOnce(seqs[p], w) /\ \A i \in DOMAIN seqs \ {p} : Lacks(seqs[i], w))
                       => HasOnce(FlattenSeq(seqs), w)
  BY <1>0
<1> DEFINE n == Len(seqs)
           flatten == CHOOSE f : Flattens(seqs, f, n)
<1>1. n \in Nat \ {0} /\ DOMAIN seqs = 1..n /\ \A i \in 1..n : seqs[i] \in Seq(S)
  OBVIOUS
<1>2. FlattenSeq(seqs) = flatten[n]
  BY <1>1 DEF FlattenSeq, Flattens
<1>3. Flattens(seqs, flatten, n)
  <2>1. \E f : Flattens(seqs, f, n)
    BY <1>1, FlattenExists
  <2> HIDE DEF n
  <2> QED BY <2>1
<1> HIDE DEF flatten, n
<1>4. \A i \in 1..n : flatten[i] = IF i = 1 THEN seqs[i] ELSE flatten[i - 1] \o seqs[i]
  BY <1>3 DEF Flattens
<1> DEFINE NoneYet(i) == \A j \in 1..i : Lacks(seqs[j], w)
           One(i) == \E p \in 1..i : HasOnce(seqs[p], w) /\ \A j \in 1..i \ {p} : Lacks(seqs[j], w)
           Good(i) == /\ flatten[i] \in Seq(S)
                      /\ NoneYet(i) => Lacks(flatten[i], w)
                      /\ One(i) => HasOnce(flatten[i], w)
           T == {i \in 1..n : ~Good(i)}
<1>5. T = {}
  <2> SUFFICES ASSUME T # {} PROVE FALSE
    OBVIOUS
  <2>1. PICK m \in T : \A k \in T : m <= k
    <3>1. T \subseteq Nat
      BY <1>1
    <3> HIDE DEF T
    <3> QED BY <3>1, LeastOf
  <2>2. CASE m = 1
    <3>1. 1 \in 1..n /\ flatten[1] = seqs[1] /\ seqs[1] \in Seq(S) /\ 1..1 = {1}
      BY <1>1, <1>4
    <3>2. ~Good(1)
      BY <2>1, <2>2
    <3> HIDE DEF T
    <3> QED BY <3>1, <3>2
  <2>3. CASE m # 1
    <3>1. m \in 1..n /\ m - 1 \in 1..n /\ ~Good(m)
      BY <1>1, <2>1, <2>3
    <3>2. Good(m - 1)
      <4>0. m \in Nat
        BY <1>1, <3>1
      <4>1. m - 1 \notin T
        <5> HIDE DEF T
        <5> QED BY <2>1, <4>0
      <4> QED BY <3>1, <4>1
    <3> HIDE DEF T
    <3>3. flatten[m] = flatten[m - 1] \o seqs[m] /\ seqs[m] \in Seq(S)
      BY <1>1, <1>4, <2>3, <3>1
    <3>4. flatten[m - 1] \in Seq(S)
      BY <3>2
    <3>5. flatten[m] \in Seq(S)
      BY <3>3, <3>4
    <3>6. 1..m = (1..(m - 1)) \cup {m} /\ m \notin 1..(m - 1)
      BY <1>1, <3>1
    <3>7. ASSUME NoneYet(m) PROVE Lacks(flatten[m], w)
      <4>1. NoneYet(m - 1) /\ Lacks(seqs[m], w)
        BY <3>6, <3>7
      <4> QED BY <3>2, <3>3, <3>4, <4>1, ConcatHolds
    <3>8. ASSUME One(m) PROVE HasOnce(flatten[m], w)
      <4>1. PICK p \in 1..m : HasOnce(seqs[p], w) /\ \A j \in 1..m \ {p} : Lacks(seqs[j], w)
        BY <3>8
      <4>2. CASE p = m
        <5>1. NoneYet(m - 1) /\ HasOnce(seqs[m], w)
          BY <3>6, <4>1, <4>2
        <5> QED BY <3>2, <3>3, <3>4, <5>1, ConcatHolds
      <4>3. CASE p # m
        <5>1. One(m - 1) /\ Lacks(seqs[m], w)
          BY <3>6, <4>1, <4>3
        <5> QED BY <3>2, <3>3, <3>4, <5>1, ConcatHolds
      <4> QED BY <4>2, <4>3
    <3> QED BY <3>1, <3>5, <3>7, <3>8
  <2> QED BY <2>2, <2>3
<1>6. Good(n)
  <2>1. n \in 1..n /\ n \notin T
    BY <1>1, <1>5
  <2> HIDE DEF Good
  <2> QED BY <2>1
<1> QED BY <1>1, <1>2, <1>6

(* Of the places a name is at, one is the second: where there are two.     *)
LEMMA SecondIs ==
    ASSUME NEW n \in Nat, NEW P \in SUBSET (1..n)
    PROVE  LET upTo(i) == Cardinality({j \in 1..i : j \in P})
           IN /\ (\E a, b \in P : a # b) =>
                    \E b \in P : upTo(b) = 2 /\ \A c \in P : upTo(c) = 2 => c = b
              /\ (\A a, b \in P : a = b) => \A c \in P : upTo(c) # 2
<1> DEFINE prefix(i) == {j \in 1..i : j \in P}
<1>1. ASSUME NEW a0 \in P, NEW b0 \in P, a0 # b0
      PROVE  \E b \in P : Cardinality(prefix(b)) = 2
                          /\ \A c \in P : Cardinality(prefix(c)) = 2 => c = b
  <2>1. PICK a \in P : \A k \in P : a <= k
    <3>1. P \subseteq Nat /\ P # {}
      BY <1>1
    <3> QED BY <3>1, LeastOf
  <2>2. PICK b \in P \ {a} : \A k \in P \ {a} : b <= k
    <3>1. P \ {a} \subseteq Nat /\ P \ {a} # {}
      BY <1>1
    <3> QED BY <3>1, LeastOf
  <2>3. a \in Nat /\ b \in Nat /\ a < b
    BY <2>1, <2>2
  <2>4. prefix(a) = {a} /\ prefix(b) = {a, b}
    BY <2>1, <2>2, <2>3
  <2>5. Cardinality({a}) = 1 /\ IsFiniteSet({a})
    BY FS_Singleton
  <2>6. Cardinality({a, b}) = 2 /\ IsFiniteSet({a, b})
    <3>1. {a, b} = {a} \cup {b} /\ b \notin {a}
      BY <2>3
    <3> QED BY <2>5, <3>1, FS_AddElement
  <2>7. ASSUME NEW c \in P, Cardinality(prefix(c)) = 2 PROVE c = b
    <3>1. c # a
      BY <2>4, <2>5, <2>7
    <3> SUFFICES ASSUME c # b PROVE FALSE
      OBVIOUS
    <3>2. c \in Nat /\ b < c
      BY <2>2, <2>3, <3>1
    <3>3. {a, b, c} \subseteq prefix(c)
      BY <2>3, <3>2
    <3>4. Cardinality({a, b, c}) = 3
      <4>1. {a, b, c} = {a, b} \cup {c} /\ c \notin {a, b}
        BY <3>1
      <4> QED BY <2>6, <4>1, FS_AddElement
    <3>5. IsFiniteSet(prefix(c))
      <4>1. prefix(c) \subseteq 1..c /\ IsFiniteSet(1..c)
        BY <3>2, FS_Interval
      <4> QED BY <4>1, FS_Subset
    <3>6. Cardinality({a, b, c}) <= Cardinality(prefix(c))
      BY <3>3, <3>5, FS_Subset
    <3> QED BY <2>7, <3>4, <3>6
  <2> QED BY <2>4, <2>6, <2>7
<1>2. ASSUME \A a, b \in P : a = b, NEW c \in P PROVE Cardinality(prefix(c)) # 2
  <2>1. prefix(c) = {c}
    BY <1>2
  <2>2. Cardinality({c}) = 1
    BY FS_Singleton
  <2> QED BY <2>1, <2>2
<1> QED BY <1>1, <1>2

(* The host's siblings as they are reported, and the warnings about them.  *)
Reported(i) ==
    <<Host.siblings[i].name, IF Host.siblings[i].label = "" THEN None ELSE Host.siblings[i].label>>
Shared(i) == <<"shared", Reported(i)>>

LEMMA HostIs ==
    /\ Len(Host.siblings) \in Nat
    /\ DOMAIN Host.siblings = 1..Len(Host.siblings)
    /\ DOMAIN HostSiblings = DOMAIN Host.siblings
    /\ \A i \in DOMAIN Host.siblings :
        /\ HostSiblings[i].name = Host.siblings[i].name
        /\ HostSiblings[i].url = Host.siblings[i].url
        /\ Reported(i) = <<HostSiblings[i].name, HostSiblings[i].label>>
<1>1. Len(Host.siblings) \in Nat /\ DOMAIN Host.siblings = 1..Len(Host.siblings)
  BY HostAssumption
<1>2. DOMAIN HostSiblings = DOMAIN Host.siblings
  BY DEF HostSiblings
<1>3. ASSUME NEW i \in DOMAIN Host.siblings
      PROVE  /\ HostSiblings[i].name = Host.siblings[i].name
             /\ HostSiblings[i].url = Host.siblings[i].url
             /\ HostSiblings[i].label = IF Host.siblings[i].label = "" THEN None
                                        ELSE Host.siblings[i].label
  <2> DEFINE s == Host.siblings[i]
  <2>1. HostSiblings[i] = IF s.label = "" THEN [s EXCEPT !.label = None] ELSE s
    BY DEF HostSiblings, NoText
  <2>2. {"name", "label", "url"} \subseteq DOMAIN s
    BY HostAssumption
  <2> HIDE DEF s
  <2>3. /\ [s EXCEPT !.label = None].label = None
        /\ [s EXCEPT !.label = None].name = s.name
        /\ [s EXCEPT !.label = None].url = s.url
    BY <2>2
  <2>4. /\ HostSiblings[i].name = s.name /\ HostSiblings[i].url = s.url
        /\ HostSiblings[i].label = IF s.label = "" THEN None ELSE s.label
    BY <2>1, <2>3
  <2> QED BY <2>4 DEF s
<1> QED BY <1>1, <1>2, <1>3 DEF Reported

(* However often an instance is listed, one warning says so.               *)
LEMMA WarnedOnce ==
    ASSUME NEW i \in DOMAIN Host.siblings
    PROVE  Count(HostWarnings, Shared(i)) =
                IF \E j \in DOMAIN Host.siblings \ {i} : Reported(j) = Reported(i) THEN 1 ELSE 0
<1> DEFINE w == Shared(i)
           n == Len(Host.siblings)
           empty(k) == IF Host.siblings[k].label = NoText
                       THEN <<<<"empty label", Host.siblings[k].name>>>> ELSE <<>>
           copies(k) == Cardinality({j \in 1..k : Reported(j) = Reported(k)})
           second(k) == IF copies(k) = 2 THEN <<Shared(k)>> ELSE <<>>
           of(k) == empty(k) \o second(k)
           seqs == [k \in DOMAIN Host.siblings |-> of(k)]
           refused == IF HostInstance # Host.instance THEN <<<<"instance", None>>>> ELSE <<>>
           S == {<<"instance", None>>} \cup {Shared(k) : k \in DOMAIN Host.siblings}
                \cup {<<"empty label", Host.siblings[k].name>> : k \in DOMAIN Host.siblings}
<1>1. n \in Nat /\ DOMAIN Host.siblings = 1..n
  BY HostIs
<1>2. HostWarnings = refused \o FlattenSeq(seqs)
  <2>1. ASSUME NEW k \in DOMAIN Host.siblings
        PROVE  Cardinality({j \in 1..k : <<HostSiblings[j].name, HostSiblings[j].label>>
                                            = <<HostSiblings[k].name, HostSiblings[k].label>>})
               = copies(k)
    <3>1. \A j \in 1..k : Reported(j) = <<HostSiblings[j].name, HostSiblings[j].label>>
      BY <1>1, HostIs
    <3>2. Reported(k) = <<HostSiblings[k].name, HostSiblings[k].label>>
      BY HostIs
    <3>3. {j \in 1..k : <<HostSiblings[j].name, HostSiblings[j].label>>
                            = <<HostSiblings[k].name, HostSiblings[k].label>>}
          = {j \in 1..k : Reported(j) = Reported(k)}
      BY <3>1, <3>2
    <3> QED BY <3>3
  <2> DEFINE coded(k) == Cardinality({j \in 1..k : <<HostSiblings[j].name, HostSiblings[j].label>>
                                            = <<HostSiblings[k].name, HostSiblings[k].label>>})
             last(k) == IF coded(k) = 2
                        THEN <<<<"shared", <<HostSiblings[k].name, HostSiblings[k].label>>>>>>
                        ELSE <<>>
  <2>2. \A k \in DOMAIN Host.siblings : last(k) = second(k)
    <3> SUFFICES ASSUME NEW k \in DOMAIN Host.siblings PROVE last(k) = second(k)
      OBVIOUS
    <3>1. coded(k) = copies(k)
      BY <2>1
    <3>2. <<"shared", <<HostSiblings[k].name, HostSiblings[k].label>>>> = Shared(k)
      BY HostIs DEF Shared
    <3> HIDE DEF coded, copies
    <3> QED BY <3>1, <3>2
  <2>3. HostWarnings = refused \o FlattenSeq([k \in DOMAIN Host.siblings |-> empty(k) \o last(k)])
    BY DEF HostWarnings
  <2>4. [k \in DOMAIN Host.siblings |-> empty(k) \o last(k)] = seqs
    <3> HIDE DEF empty, last, second
    <3> QED BY <2>2
  <2> QED BY <2>3, <2>4
<1>3. ASSUME NEW k \in DOMAIN Host.siblings
      PROVE  /\ of(k) \in Seq(S)
             /\ copies(k) = 2 /\ Reported(k) = Reported(i) => HasOnce(of(k), w)
             /\ ~(copies(k) = 2 /\ Reported(k) = Reported(i)) => Lacks(of(k), w)
  <2> DEFINE e == <<"empty label", Host.siblings[k].name>>
  <2>0. e \in S /\ e # w /\ Shared(k) \in S
    BY DEF Shared
  <2> HIDE DEF copies, S, w, e
  <2>1. empty(k) \in Seq(S) /\ Lacks(empty(k), w)
    <3>1. empty(k) = IF Host.siblings[k].label = NoText THEN <<e>> ELSE <<>>
      BY DEF e
    <3> QED BY <2>0, <3>1, ShortHolds
  <2>2. second(k) \in Seq(S)
    BY <2>0, ShortHolds
  <2>3. Shared(k) = w <=> Reported(k) = Reported(i)
    BY DEF Shared, w
  <2> HIDE DEF empty
  <2>4. ASSUME copies(k) = 2, Reported(k) = Reported(i) PROVE HasOnce(second(k), w)
    BY <2>0, <2>3, <2>4, ShortHolds
  <2>5. ASSUME ~(copies(k) = 2 /\ Reported(k) = Reported(i)) PROVE Lacks(second(k), w)
    BY <2>0, <2>3, <2>5, ShortHolds
  <2> HIDE DEF second, w
  <2>6. of(k) \in Seq(S)
    BY <2>1, <2>2
  <2> QED BY <2>1, <2>2, <2>4, <2>5, <2>6, ConcatHolds
<1>4. seqs \in Seq(Seq(S))
  <2>1. \A k \in 1..n : of(k) \in Seq(S)
    BY <1>1, <1>3
  <2> HIDE DEF of, S, n
  <2>2. seqs = [k \in 1..n |-> of(k)]
    BY <1>1
  <2> QED BY <1>1, <2>1, <2>2
<1>5. refused \in Seq(S) /\ Lacks(refused, w)
  <2> DEFINE x == <<"instance", None>>
  <2>1. x \in S /\ x # w
    BY DEF Shared
  <2> HIDE DEF S, w, x
  <2>2. refused = IF HostInstance # Host.instance THEN <<x>> ELSE <<>>
    BY DEF x
  <2> QED BY <2>1, <2>2, ShortHolds
<1> HIDE DEF refused, S, of, copies, w
<1>6. FlattenSeq(seqs) \in Seq(S)
  <2>1. seqs = <<>> => FlattenSeq(seqs) = <<>>
    BY DEF FlattenSeq
  <2> HIDE DEF seqs
  <2> QED BY <1>4, <2>1, FlattenIsSeq
<1>7. \A k \in DOMAIN seqs : seqs[k] = of(k)
  OBVIOUS
<1> DEFINE P == {k \in 1..n : Reported(k) = Reported(i)}
<1>8. \A k \in P : copies(k) = Cardinality({j \in 1..k : j \in P})
  <2> SUFFICES ASSUME NEW k \in P PROVE copies(k) = Cardinality({j \in 1..k : j \in P})
    OBVIOUS
  <2>1. {j \in 1..k : Reported(j) = Reported(k)} = {j \in 1..k : j \in P}
    BY <1>1
  <2> QED BY <2>1 DEF copies
<1>9. P \in SUBSET (1..n) /\ i \in P
  BY <1>1
<1>10. CASE \E j \in DOMAIN Host.siblings \ {i} : Reported(j) = Reported(i)
  <2>1. \E a, b \in P : a # b
    BY <1>1, <1>10
  <2>2. PICK b \in P : copies(b) = 2 /\ \A c \in P : copies(c) = 2 => c = b
    <3> HIDE DEF P, n
    <3>1. \E b \in P : /\ Cardinality({j \in 1..b : j \in P}) = 2
                       /\ \A c \in P : Cardinality({j \in 1..c : j \in P}) = 2 => c = b
      BY <1>1, <1>9, <2>1, SecondIs
    <3> QED BY <1>8, <3>1
  <2>3. b \in DOMAIN seqs /\ HasOnce(seqs[b], w)
    BY <1>1, <1>3, <1>7, <2>2
  <2>4. \A k \in DOMAIN seqs \ {b} : Lacks(seqs[k], w)
    BY <1>1, <1>3, <1>7, <2>2
  <2>5. HasOnce(FlattenSeq(seqs), w)
    <3> HIDE DEF seqs
    <3> QED BY <1>4, <2>3, <2>4, FlattenHolds
  <2>6. HasOnce(HostWarnings, w)
    <3> HIDE DEF seqs
    <3> QED BY <1>2, <1>5, <1>6, <2>5, ConcatHolds
  <2>7. Count(HostWarnings, w) = 1
    BY <2>6, CountIs
  <2> QED BY <1>10, <2>7 DEF w
<1>11. CASE ~ \E j \in DOMAIN Host.siblings \ {i} : Reported(j) = Reported(i)
  <2>1. \A a, b \in P : a = b
    BY <1>1, <1>11
  <2>2. \A c \in P : copies(c) # 2
    <3> HIDE DEF P, n
    <3>1. \A c \in P : Cardinality({j \in 1..c : j \in P}) # 2
      BY <1>1, <1>9, <2>1, SecondIs
    <3> QED BY <1>8, <3>1
  <2>3. \A k \in DOMAIN seqs : Lacks(seqs[k], w)
    BY <1>1, <1>3, <1>7, <2>2
  <2>4. Lacks(FlattenSeq(seqs), w)
    <3> HIDE DEF seqs
    <3> QED BY <1>4, <2>3, FlattenHolds
  <2>5. Lacks(HostWarnings, w)
    <3> HIDE DEF seqs
    <3> QED BY <1>2, <1>5, <1>6, <2>4, ConcatHolds
  <2>6. Count(HostWarnings, w) = 0
    BY <2>5, CountIs
  <2> QED BY <1>11, <2>6 DEF w
<1> QED BY <1>10, <1>11

(* What the checker answers when the last of its checks has ended.         *)
LEMMA ResponseTells ==
    ASSUME NEW outcomes, DOMAIN outcomes = Checked
    PROVE  SiblingsTold(SiblingsResponse(outcomes), outcomes)
<1> DEFINE body == SiblingsResponse(outcomes)
           valid == Host.instance # None /\ "" \notin {Host.instance.name, Host.instance.label}
           self(i) == valid /\ Reported(i) = <<Host.instance.name, Host.instance.label>>
<1>1. HostInstance = IF valid THEN Host.instance ELSE None
  BY DEF HostInstance, NoText
<1>2. /\ body.instance = HostInstance /\ body.warnings = HostWarnings
      /\ DOMAIN body.siblings = DOMAIN HostSiblings
      /\ \A i \in DOMAIN HostSiblings :
            body.siblings[i] = [name |-> HostSiblings[i].name, label |-> HostSiblings[i].label,
                                healthy |-> IF i \in Checked THEN outcomes[i]
                                            ELSE IsInstance(HostSiblings[i])]
      /\ body.siblings = [i \in DOMAIN HostSiblings |-> body.siblings[i]]
  BY DEF SiblingsResponse
<1> HIDE DEF body
<1>3. \A i \in DOMAIN Host.siblings : IsInstance(HostSiblings[i]) <=> self(i)
  <2> SUFFICES ASSUME NEW i \in DOMAIN Host.siblings PROVE IsInstance(HostSiblings[i]) <=> self(i)
    OBVIOUS
  <2>1. Reported(i) = <<HostSiblings[i].name, HostSiblings[i].label>>
    BY HostIs
  <2>2. HostInstance # None <=> valid
    <3>1. valid => Host.instance # None
      OBVIOUS
    <3> HIDE DEF valid
    <3> QED BY <1>1, <3>1
  <2>3. valid => HostInstance = Host.instance
    BY <1>1
  <2> HIDE DEF valid
  <2> QED BY <2>1, <2>2, <2>3 DEF IsInstance
<1>4. Len(body.siblings) = Len(Host.siblings)
  <2>1. Len(Host.siblings) \in Nat /\ DOMAIN body.siblings = 1..Len(Host.siblings)
    BY <1>2, HostIs
  <2> QED BY <1>2, <2>1
<1>5. ASSUME NEW i \in DOMAIN Host.siblings
      PROVE  /\ <<body.siblings[i].name, body.siblings[i].label>> = Reported(i)
             /\ CASE self(i) -> body.siblings[i].healthy /\ i \notin DOMAIN outcomes
                  [] ~self(i) /\ Host.siblings[i].url ->
                        i \in DOMAIN outcomes /\ body.siblings[i].healthy = outcomes[i]
                  [] OTHER -> ~body.siblings[i].healthy
  <2>1. /\ i \in DOMAIN HostSiblings /\ HostSiblings[i].url = Host.siblings[i].url
        /\ Reported(i) = <<HostSiblings[i].name, HostSiblings[i].label>>
    BY HostIs
  <2>2. i \in Checked <=> ~self(i) /\ Host.siblings[i].url
    BY <1>3, <2>1 DEF Checked
  <2>3. /\ body.siblings[i].name = HostSiblings[i].name
        /\ body.siblings[i].label = HostSiblings[i].label
        /\ i \in Checked => body.siblings[i].healthy = outcomes[i]
        /\ i \notin Checked => body.siblings[i].healthy = IsInstance(HostSiblings[i])
    <3> DEFINE h == IF i \in Checked THEN outcomes[i] ELSE IsInstance(HostSiblings[i])
    <3>1. body.siblings[i] = [name |-> HostSiblings[i].name, label |-> HostSiblings[i].label,
                              healthy |-> h]
      BY <1>2, <2>1
    <3>2. (i \in Checked => h = outcomes[i]) /\ (i \notin Checked => h = IsInstance(HostSiblings[i]))
      OBVIOUS
    <3> HIDE DEF h
    <3>3. /\ body.siblings[i].name = HostSiblings[i].name
          /\ body.siblings[i].label = HostSiblings[i].label
          /\ body.siblings[i].healthy = h
      BY <3>1
    <3> QED BY <3>2, <3>3, Zenon
  <2> HIDE DEF self
  <2>4. CASE self(i)
    <3>1. i \notin Checked /\ IsInstance(HostSiblings[i])
      BY <1>3, <2>2, <2>4
    <3>2. body.siblings[i].healthy /\ i \notin DOMAIN outcomes
      BY <2>3, <3>1
    <3> QED BY <2>1, <2>3, <2>4, <3>2
  <2>5. CASE ~self(i) /\ Host.siblings[i].url
    BY <2>1, <2>2, <2>3, <2>5
  <2>6. CASE ~self(i) /\ ~Host.siblings[i].url
    <3>1. i \notin Checked /\ ~IsInstance(HostSiblings[i])
      BY <1>3, <2>2, <2>6
    <3>2. ~body.siblings[i].healthy
      BY <2>3, <3>1
    <3> QED BY <2>1, <2>3, <2>6, <3>2
  <2> QED BY <2>4, <2>5, <2>6
<1>6. ASSUME NEW i \in DOMAIN Host.siblings
      PROVE  Cardinality({j \in DOMAIN body.warnings : body.warnings[j] = <<"shared", Reported(i)>>})
                = IF \E j \in DOMAIN Host.siblings \ {i} : Reported(j) = Reported(i) THEN 1 ELSE 0
  BY <1>2, WarnedOnce DEF Count, Shared
<1>7. SiblingsTold(body, outcomes)
  BY <1>1, <1>2, <1>4, <1>5, <1>6, Zenon DEF SiblingsTold, Reported
<1> QED BY <1>7 DEF body

SInv == (req = None => probes = <<>>) /\ SiblingsAnswered

LEMMA HealthSiblings == ASSUME NEW i \in Checked, HealthCheck(i) PROVE SInv'
<1>1. PICK healthy \in BOOLEAN :
        LET known == [j \in DOMAIN probes \cup {i} |-> IF j = i THEN healthy ELSE probes[j]]
        IN /\ probes' = known
           /\ answer' = IF DOMAIN known = Checked THEN Success(SiblingsResponse(known)) ELSE Pending
  BY DEF HealthCheck
<1>2. answer' = IF DOMAIN probes' = Checked THEN Success(SiblingsResponse(probes')) ELSE Pending
  BY <1>1
<1>3. req' = req /\ req # None
  BY DEF HealthCheck
<1>4. SiblingsAnswered'
  <2> SUFFICES ASSUME answer' # Pending PROVE SiblingsAnswered'
    BY DEF SiblingsAnswered, Answered
  <2>1. DOMAIN probes' = Checked /\ answer' = Success(SiblingsResponse(probes'))
    BY <1>2
  <2>2. SiblingsTold(SiblingsResponse(probes'), probes')
    BY <2>1, ResponseTells
  <2>3. answer'.body = SiblingsResponse(probes')
    BY <2>1 DEF Success
  <2> QED BY <2>2, <2>3 DEF SiblingsAnswered
<1> QED BY <1>3, <1>4 DEF SInv

LEMMA AskSiblings == ASSUME SInv, NEW r \in Requests, Ask(r) PROVE SInv'
<1>1. /\ req' = r /\ r # None /\ probes = <<>> /\ probes' = <<>>
      /\ answer' = IF EarlyFault(r).ok THEN EarlyAnswer(r) ELSE Problem(EarlyFault(r).code)
  BY RequestsAssumption DEF Ask, SInv
<1>2. SiblingsAnswered'
  <2> SUFFICES ASSUME r.route = "siblings", answer' # Pending PROVE SiblingsAnswered'
    BY <1>1 DEF SiblingsAnswered, Answered, Asks
  <2>1. EarlyFault(r).ok
    BY DEF EarlyFault, Standalone, Ok
  <2>2. EarlyAnswer(r) = IF Checked = {} THEN Success(SiblingsResponse(<<>>)) ELSE Pending
    BY DEF EarlyAnswer
  <2>3. Checked = {} /\ answer' = Success(SiblingsResponse(<<>>))
    BY <1>1, <2>1, <2>2
  <2>4. SiblingsTold(SiblingsResponse(<<>>), <<>>)
    <3>1. DOMAIN <<>> = {}
      OBVIOUS
    <3> QED BY <2>3, <3>1, ResponseTells
  <2>5. answer'.body = SiblingsResponse(<<>>)
    BY <2>3 DEF Success
  <2> QED BY <1>1, <2>4, <2>5 DEF SiblingsAnswered
<1> QED BY <1>1, <1>2 DEF SInv

LEMMA NextSiblings == SInv /\ [Next]_vars => SInv'
<1> SUFFICES ASSUME SInv, [Next]_vars PROVE SInv'
  OBVIOUS
<1>1. ASSUME NEW kind, NEW t, NEW value, Learns(kind, t, value) PROVE SInv'
  <2>1. req' = req /\ req # None /\ req.route # "siblings"
    BY <1>1 DEF Learns, Statement, Learn, Proceed, Runs, Asks, Standalone
  <2> QED BY <2>1 DEF SInv, SiblingsAnswered, Answered, Asks
<1>2. CASE Fails
  <2>1. req' = req /\ req # None /\ answer'.status # 200
    BY <1>2 DEF Fails, Runs, Problem
  <2> QED BY <2>1 DEF SInv, SiblingsAnswered, Answered
<1>3. CASE Waits
  BY <1>3 DEF Waits, SInv, SiblingsAnswered, Answered, Asks
<1>4. CASE Receive
  BY <1>4 DEF Receive, SInv, SiblingsAnswered, Answered
<1>5. ASSUME NEW i \in Checked, HealthCheck(i) PROVE SInv'
  BY <1>5, HealthSiblings
<1>6. ASSUME NEW r \in Requests, Ask(r) PROVE SInv'
  BY <1>6, AskSiblings
<1> QED BY <1>1, <1>2, <1>3, <1>4, <1>5, <1>6, StepIs

(* Whatever siblings a host configures, in whatever order their checks     *)
(* end, each is answered in its place with the outcome of its own check,   *)
(* the host itself as healthy and unasked, and an instance that is listed  *)
(* more than once is warned of once (siblings.rs and siblings_view in      *)
(* config.rs).                                                             *)
THEOREM EachSiblingIsTold == Spec => []SiblingsAnswered
<1>1. Init => SInv
  BY DEF Init, SInv, SiblingsAnswered, Answered
<1>2. SInv => SiblingsAnswered
  BY DEF SInv
<1> QED BY <1>1, <1>2, NextSiblings, PTL DEF Spec
=============================================================================
