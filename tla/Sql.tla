-------------------------------- MODULE Sql --------------------------------
(***************************************************************************)
(* What a database engine does with the SELECT statements this program     *)
(* builds; external to the repository, which only relies on it.            *)
(*                                                                         *)
(* A statement is a record [schema, bare, tables, kinds, ons, onText,      *)
(* list, where, sort, limit, offset].  tables are names, by position from  *)
(* 0; kinds and ons are those of positions 1, 2, ...; a column is a pair   *)
(* <<position, name>>, in list and where without its table if bare; sort   *)
(* is None or [by, qualified, desc]; a term of where is                    *)
(* [logic, not, column, keyword, value].  list and where show and compare  *)
(* the text of a column, as the program casts it; ons do if onText, and    *)
(* else compare its values as what they are.                               *)
(***************************************************************************)
EXTENDS Database

CONSTANTS
    NumberOf,  \* NumberOf[v]: the number that the text v shows
    Dangling   \* the texts that end in a backslash which escapes nothing

(* Kleene's three truth values, so that AND is Min and OR is Max.          *)
No == 0
Unknown == 1
Yes == 2
Truth(b) == IF b THEN Yes ELSE No

Pick(d, s, t) == CHOOSE x \in TablesAt(d, s, t) : TRUE
TableOf(d, sql, pos) == Pick(d, sql.schema, sql.tables[pos + 1])
ColumnOf(d, sql, ref) ==
    LET x == TableOf(d, sql, ref[1])
    IN x.columns[CHOOSE i \in DOMAIN x.columns : x.columns[i].name = ref[2]]

(* Text is compared as the engine's default collation does: MySQL's folds. *)
Key(d, v) == IF d.engine = "mysql" THEN Fold[v] ELSE v
Like(fold, v, pattern) ==
    pattern = "%" \/ v = pattern \/ (fold /\ Fold[v] = Fold[pattern])

(* What two columns of one class are compared as by =, and whether a       *)
(* statement that compares them is refused: Postgres may have no = for     *)
(* their types (42883), MySQL knows no order between two collations that   *)
(* fold (1267).                                                            *)
ComparedAs(a, b) == IF a.native = b.native THEN a.native ELSE "text"
Uncompared(d, a, b) ==
    CASE d.engine = "postgres" ->
            \/ {a.native, b.native} \cap {"none", "ordered"} # {}
            \/ a.native # b.native /\ {a.native, b.native} # {"text", "folded"}
      [] d.engine = "mysql" ->
            /\ a.native = "folded" /\ b.native = "folded"
            /\ None \notin {a.collation, b.collation} /\ a.collation # b.collation
      [] d.engine = "sqlite" -> FALSE
SameValue(kind, v, w) ==
    CASE kind = "number" -> NumberOf[v] = NumberOf[w]
      [] kind = "folded" -> Fold[v] = Fold[w]
      [] OTHER -> v = w

Compares(d, v, keyword, p) ==
    CASE keyword = "=" -> Key(d, v) = Key(d, p)
      [] keyword = "!=" -> Key(d, v) # Key(d, p)
      [] keyword = "<" -> Rank(Key(d, v)) < Rank(Key(d, p))
      [] keyword = ">" -> Rank(Key(d, v)) > Rank(Key(d, p))
      [] keyword = "<=" -> Rank(Key(d, v)) <= Rank(Key(d, p))
      [] keyword = ">=" -> Rank(Key(d, v)) >= Rank(Key(d, p))
      [] keyword = "LIKE" -> Like(d.engine # "postgres", v, p)
      [] keyword \in {"ILIKE", "LOWER LIKE"} -> Like(TRUE, v, p)
TermTruth(d, v, term) ==
    CASE term.keyword = "IS NULL" -> Truth(v = Null)
      [] term.keyword = "IS NOT NULL" -> Truth(v # Null)
      [] OTHER -> IF v = Null THEN Unknown ELSE Truth(Compares(d, v, term.keyword, term.value))

(* The value of a column in a combination of rows.                         *)
Shown(env, ref) ==
    LET row == env[ref[1] + 1]
    IN IF ref[2] \in DOMAIN row THEN row[ref[2]] ELSE ref[2]

(* The clause is flat: AND binds tighter than OR, NOT its one term.        *)
ClauseTruth(d, where, env) ==
    LET truth(i) == LET v == TermTruth(d, Shown(env, where[i].column), where[i])
                    IN IF where[i].not THEN 2 - v ELSE v
        add(acc, i) ==
            IF where[i].logic = "OR"
            THEN [sum |-> Max({acc.sum, acc.product}), product |-> truth(i)]
            ELSE [acc EXCEPT !.product = Min({@, truth(i)})]
        end == FoldLeft(add, [sum |-> No, product |-> Yes],
                        [i \in DOMAIN where |-> i])
    IN IF where = <<>> THEN Yes ELSE Max({end.sum, end.product})

(* The combinations of rows, one per position, that FROM and its joins     *)
(* make: a left join keeps what has no match, with nulls for a row.        *)
Extended(d, sql, envs, pos) ==
    LET table == TableOf(d, sql, pos)
        nulls == [c \in ColumnNames(table) |-> Null]
        equal(on, v, w) ==
            IF sql.onText THEN Key(d, v) = Key(d, w)
            ELSE SameValue(ComparedAs(ColumnOf(d, sql, <<pos, on.right>>), ColumnOf(d, sql, on.left)),
                           v, w)
        matches(env) ==
            SelectSeq(table.rows, LAMBDA row :
                \A i \in DOMAIN sql.ons[pos] :
                    LET on == sql.ons[pos][i]
                        v == row[on.right]
                        w == env[on.left[1] + 1][on.left[2]]
                    IN v # Null /\ w # Null /\ equal(on, v, w))
        extend(env) ==
            LET found == matches(env)
            IN IF found = <<>> /\ sql.kinds[pos] = "left"
               THEN <<Append(env, nulls)>>
               ELSE [i \in DOMAIN found |-> Append(env, found[i])]
    IN FlattenSeq([i \in DOMAIN envs |-> extend(envs[i])])
Combinations(d, sql) ==
    LET first == TableOf(d, sql, 0).rows
    IN FoldLeft(LAMBDA envs, pos : Extended(d, sql, envs, pos),
                [i \in DOMAIN first |-> <<first[i]>>], [i \in DOMAIN sql.kinds |-> i])

(* Rows with equal keys stay in the order they are stored in, which an     *)
(* engine does not promise.  Postgres takes a null for the greatest value, *)
(* the others for the least.  An unqualified name in ORDER BY is the       *)
(* output column of that name: the text.                                   *)
SortKey(d, sql, v) ==
    LET kind == ColumnOf(d, sql, sql.sort.by).native
    IN CASE v # Null -> IF ~sql.sort.qualified THEN Rank(Key(d, v))
                        ELSE IF kind = "number" THEN NumberOf[v]
                        ELSE IF kind = "folded" THEN FoldedRank(v) ELSE Rank(v)
         [] v = Null -> IF d.engine = "postgres" THEN Len(NameOrder) + 1 ELSE 0
SortRank(d, sql, env) ==
    LET by == sql.sort.by
        k == SortKey(d, sql, env[by[1] + 1][by[2]])
    IN IF sql.sort = None THEN 0 ELSE IF sql.sort.desc THEN Len(NameOrder) + 1 - k ELSE k

(* The combinations that the clause keeps, in the order of the result.     *)
Ordered(d, sql) ==
    LET envs == Combinations(d, sql)
        kept == {i \in DOMAIN envs : ClauseTruth(d, sql.where, envs[i]) = Yes}
        order == OrderBy(kept, LAMBDA i : <<SortRank(d, sql, envs[i]), i>>)
    IN [i \in DOMAIN order |-> envs[order[i]]]

Page(s, limit, offset) == SubSeq(s, offset + 1, Min({Len(s), offset + limit}))

Qualified(sql) ==
    (IF sql.sort = None THEN {} ELSE {sql.sort.by})
        \cup (UNION {{<<p, sql.ons[p][i].right>> : i \in DOMAIN sql.ons[p]} : p \in DOMAIN sql.ons})
        \cup (UNION {{sql.ons[p][i].left : i \in DOMAIN sql.ons[p]} : p \in DOMAIN sql.ons})
Listed(sql) == ToSet(sql.list) \cup {sql.where[i].column : i \in DOMAIN sql.where}

(* SQLite takes a bare quoted name that no column has for a string.        *)
Missing(d, sql) ==
    \/ \E i \in DOMAIN sql.tables : TablesAt(d, sql.schema, sql.tables[i]) = {}
    \/ \E ref \in Qualified(sql) \cup (IF d.engine = "sqlite" /\ sql.bare THEN {} ELSE Listed(sql)) :
            ref[2] \notin ColumnNames(TableOf(d, sql, ref[1]))
Invalid(d, sql) ==
    \/ Missing(d, sql)
    \/ /\ d.engine # "postgres"
       /\ \/ sql.list = <<>>
          \/ \E i \in DOMAIN sql.where : sql.where[i].keyword = "ILIKE"
Unsortable(d, sql) ==
    /\ d.engine = "postgres" /\ sql.sort # None /\ sql.sort.qualified
    /\ ColumnOf(d, sql, sql.sort.by).native = "none"
Unjoinable(d, sql) ==
    /\ ~sql.onText
    /\ \E p \in DOMAIN sql.ons : \E i \in DOMAIN sql.ons[p] :
        LET on == sql.ons[p][i]
        IN Uncompared(d, ColumnOf(d, sql, <<p, on.right>>), ColumnOf(d, sql, on.left))
Unencodable(d, sql) ==
    d.engine = "postgres" /\ \E i \in DOMAIN sql.where : sql.where[i].value \in NulNames
Denied(d, sql) ==
    \/ ~d.schemas[sql.schema].usage
    \/ \E i \in DOMAIN sql.tables : ~Pick(d, sql.schema, sql.tables[i]).readable

(* The rows, as sequences of values, or the reason there are none.         *)
Evaluate(d, sql) ==
    IF Invalid(d, sql) THEN Err("error")
    ELSE IF Unsortable(d, sql) \/ (d.engine = "postgres" /\ Unjoinable(d, sql)) THEN Err("undefined")
    ELSE IF Unencodable(d, sql) THEN Err("encoding")
    ELSE IF Denied(d, sql) THEN Err("denied")
    ELSE IF Unjoinable(d, sql) THEN Err("error")
    ELSE LET rows == Page(Ordered(d, sql), sql.limit, sql.offset)
         IN Ok([i \in DOMAIN rows |->
                 [j \in DOMAIN sql.list |-> Shown(rows[i], sql.list[j])]])

(* Postgres refuses such a pattern (22025) when it comes to its end while  *)
(* there is text left to match, which rows it asks first and how it plans  *)
(* decide: of a table with text in that column it may.                     *)
Dangles(d, sql) ==
    /\ d.engine = "postgres"
    /\ \E i \in DOMAIN sql.where :
        LET term == sql.where[i]
        IN /\ term.keyword \in {"LIKE", "ILIKE"} /\ term.value \in Dangling
           /\ \E k \in DOMAIN TableOf(d, sql, term.column[1]).rows :
                TableOf(d, sql, term.column[1]).rows[k][term.column[2]] # Null
Outcomes(d, sql) ==
    {Evaluate(d, sql)}
        \cup (IF Evaluate(d, sql).ok /\ Dangles(d, sql) THEN {Err("error")} ELSE {})
=============================================================================
