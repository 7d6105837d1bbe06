-------------------------------- MODULE Join --------------------------------
(***************************************************************************)
(* GET /api/tables/join: join.rs.  A raw join is Oversize, Malformed or a  *)
(* record [table, joins, columns]; an entry of joins is [kind, table, on], *)
(* a pair of on is [left, right] and columns is None or a sequence.  left  *)
(* and the members of columns are pairs <<position, name>>: position 0 is  *)
(* table, i the table of joins[i].                                         *)
(***************************************************************************)
EXTENDS Filter

CONSTANTS MaxTables, MaxPairs

ASSUME JoinAssumption == MaxTables \in Nat \ {0, 1} /\ MaxPairs \in Nat \ {0}

(* The structure of the value, before any name is looked at.               *)
ParseJoin(raw) ==
    IF \/ raw \in {Oversize, Malformed}
       \/ raw.joins = <<>>
       \/ Len(raw.joins) + 1 > MaxTables
       \/ \E i \in DOMAIN raw.joins :
            \/ Len(raw.joins[i].on) \notin 1..MaxPairs
            \/ \E j \in DOMAIN raw.joins[i].on : raw.joins[i].on[j].left[1] >= i
       \/ raw.columns # None /\ (raw.columns = <<>> \/ ~IsInjective(raw.columns))
    THEN Err("invalid_join")
    ELSE Ok(raw)

TableNames(spec) ==
    <<spec.table>> \o [i \in DOMAIN spec.joins |-> spec.joins[i].table]

IsJoinable(class) == class.name \notin {"float", "json", "array", "other"}

(* mutant: the collations of a pair are not compared *)
CheckClasses(lc, rc) ==
    IF ~IsJoinable(lc.class) \/ ~IsJoinable(rc.class) \/ lc.class # rc.class
    THEN Err("invalid_join") ELSE Ok(None)

CheckPair(lc, rc) ==
    IF \/ ~IsJoinable(lc.class) \/ ~IsJoinable(rc.class)
       \/ lc.class # rc.class
       \/ /\ lc.class.name = "text"
          /\ None \notin {lc.collation, rc.collation}
          /\ lc.collation # rc.collation
    THEN Err("invalid_join")
    ELSE Ok(None)

(* The metadata of the column of that name, if the table has one.          *)
ColumnIndex(meta, name) ==
    LET found == {i \in DOMAIN meta.columns : meta.columns[i].name = name}
    IN IF found = {} THEN Err("unknown_column") ELSE Ok(meta.columns[Min(found)])

(* A miss inside the join value is a fault of the join.                    *)
JoinColumnIndex(meta, name) ==
    LET found == ColumnIndex(meta, name)
    IN IF found.ok THEN found ELSE Err("invalid_join")

UnknownJoinTable(code) == IF code = "unknown_table" THEN "invalid_join" ELSE code

(* mutant: a numbered name is not compared with the others *)
NumberLabels(selection) ==
    [i \in DOMAIN selection |->
        IF \E j \in DOMAIN selection \ {i} : selection[j][2] = selection[i][2]
        THEN selection[i][2] \o "_" \o ToString(selection[i][1]) ELSE selection[i][2]]

(* A column keeps its name where no other has it; the others are numbered  *)
(* by their position in the join, and again while that name is taken.      *)
AssignLabels(selection) ==
    LET shared(name) == \E i, j \in DOMAIN selection :
                            i # j /\ selection[i][2] = name /\ selection[j][2] = name
        own == {selection[i][2] : i \in {k \in DOMAIN selection : ~shared(selection[k][2])}}
        try(ref, n) == ref[2] \o "_" \o ToString(ref[1])
                        \o (IF n = 1 THEN "" ELSE "_" \o ToString(n))
        add(labels, ref) ==
            LET free == {n \in 1..(Len(selection) + 1) :
                            try(ref, n) \notin own \cup ToSet(labels)}
            IN Append(labels, IF shared(ref[2]) THEN try(ref, Min(free)) ELSE ref[2])
    IN FoldLeft(add, <<>>, selection)

(* The columns a join returns: those it lists, else all of them.           *)
Selection(spec, metas) ==
    IF spec.columns # None THEN spec.columns
    ELSE FlattenSeq([p \in DOMAIN metas |->
            [c \in DOMAIN metas[p].columns |-> <<p - 1, metas[p].columns[c].name>>]])

(* The first fault of each part of a request, in the order plan looks.     *)
PairFault(spec, metas) ==
    LET fault(i, pair) ==
            LET lc == JoinColumnIndex(metas[pair.left[1] + 1], pair.left[2])
                rc == JoinColumnIndex(metas[i + 1], pair.right)
            IN CASE ~lc.ok -> lc
                 [] ~rc.ok -> rc
                 [] OTHER -> CheckPair(lc.val, rc.val)
    IN FirstError([i \in DOMAIN spec.joins |->
            FirstError([j \in DOMAIN spec.joins[i].on |-> fault(i, spec.joins[i].on[j])])])

(* mutant: the columns asked for are not looked up *)
ColumnsUnchecked(selection, metas) == Ok(None)

ColumnFault(selection, metas) ==
    FirstError([i \in DOMAIN selection |->
        IF selection[i][1] + 1 \notin DOMAIN metas THEN Err("invalid_join")
        ELSE JoinColumnIndex(metas[selection[i][1] + 1], selection[i][2])])

Position(join) == IF join = None THEN 0 ELSE join

FilterFault(filter, metas) ==
    FirstError([i \in DOMAIN filter |->
        CASE Position(filter[i].join) + 1 \notin DOMAIN metas -> Err("invalid_filter")
          [] TakesValue(filter[i].op) # (filter[i].value # None) -> Err("invalid_filter")
          [] OTHER -> ColumnIndex(metas[Position(filter[i].join) + 1], filter[i].column)])

SortFault(sort, sortJoin, metas) ==
    CASE sort = None -> IF sortJoin = None THEN Ok(None) ELSE Err("invalid_parameter")
      [] Position(sortJoin) + 1 \notin DOMAIN metas -> Err("invalid_parameter")
      [] OTHER -> ColumnIndex(metas[Position(sortJoin) + 1], sort)

(* plan: the request resolved against the metadata of its tables.          *)
Plan(spec, metas, opts) ==
    LET selection == Selection(spec, metas)
        filter == IF opts.filter = None THEN <<>> ELSE opts.filter
    IN AndThen(
        FirstError(<<PairFault(spec, metas), ColumnFault(selection, metas),
                     FilterFault(filter, metas), SortFault(opts.sort, opts.sortJoin, metas)>>),
        Ok([spec |-> spec, tables |-> metas, selection |-> selection,
            labels |-> AssignLabels(selection), filter |-> filter,
            sort |-> IF opts.sort = None THEN None
                     ELSE NativeOrder(<<Position(opts.sortJoin), opts.sort>>, opts.descending)]))

PlanColumns(plan) ==
    [i \in DOMAIN plan.selection |->
        LET ref == plan.selection[i]
            meta == plan.tables[ref[1] + 1]
        IN [name |-> plan.labels[i], join |-> ref[1], table |-> meta.name,
            column |-> ColumnIndex(meta, ref[2]).val]]

(* mutant: ON compares the columns as filters do *)
OnCast == TRUE

(* Of all columns only those of ON are not cast to text.                   *)
OnText == FALSE

(* build_select: every column is qualified by the alias of its position.   *)
BuildSelect(plan, schema, Keyword(_), limit, offset) ==
    [schema |-> schema,
     bare |-> FALSE,
     tables |-> [p \in DOMAIN plan.tables |-> plan.tables[p].name],
     kinds |-> [i \in DOMAIN plan.spec.joins |-> plan.spec.joins[i].kind],
     ons |-> [i \in DOMAIN plan.spec.joins |-> plan.spec.joins[i].on],
     onText |-> OnText,
     list |-> plan.selection,
     where |-> [i \in DOMAIN plan.filter |->
                    LET c == plan.filter[i]
                    IN [logic |-> c.logic, not |-> c.not,
                        column |-> <<Position(c.join), c.column>>,
                        keyword |-> Keyword(c.op), value |-> c.value]],
     sort |-> plan.sort,
     limit |-> limit,
     offset |-> offset]
=============================================================================
