------------------------------- MODULE Filter -------------------------------
(***************************************************************************)
(* The filter parameter: filter.rs, and what the backends' builders of     *)
(* WHERE clauses share.  A raw filter is Oversize, Malformed (not the JSON *)
(* of the documented shape) or a sequence of conditions                    *)
(* [logic, not, column, op, value, join], each field but not, column and   *)
(* op None where absent.                                                   *)
(***************************************************************************)
EXTENDS Sql

CONSTANTS
    Blank, Oversize, Malformed,
    MaxConditions

Operators == {"=", "!=", "<", ">", "<=", ">=", "LIKE", "ILIKE", "IS NULL", "IS NOT NULL"}
TakesValue(op) == op \notin {"IS NULL", "IS NOT NULL"}

ParseFilter(raw, allowJoin) ==
    IF \/ raw \in {Oversize, Malformed}
       \/ Len(raw) > MaxConditions
       \/ \E i \in DOMAIN raw :
            \/ raw[i].join # None /\ ~allowJoin
            \/ (i = 1) # (raw[i].logic = None)
            \/ TakesValue(raw[i].op) # (raw[i].value # None)
    THEN Err("invalid_filter")
    ELSE Ok(raw)

FirstError(results) ==
    LET bad == {i \in DOMAIN results : ~results[i].ok}
    IN IF bad = {} THEN Ok(None) ELSE Err(results[Min(bad)].code)

(* The terms of a WHERE clause on one table with these columns, each       *)
(* column checked against them.                                            *)
Clause(conditions, columns, Keyword(_)) ==
    LET check(i) ==
            LET c == conditions[i]
            IN CASE c.column \notin columns -> Err("unknown_column")
                 [] TakesValue(c.op) /\ c.value = None -> Err("invalid_filter")
                 [] i > 1 /\ c.logic = None -> Err("invalid_filter")
                 [] OTHER -> Ok(None)
        term(c) == [logic |-> c.logic, not |-> c.not, column |-> <<0, c.column>>,
                    keyword |-> Keyword(c.op), value |-> c.value]
    IN AndThen(FirstError([i \in DOMAIN conditions |-> check(i)]),
               Ok([i \in DOMAIN conditions |-> term(conditions[i])]))

(* mutant: an unqualified name is the output column, which is text *)
TextOrder(ref, descending) == [by |-> ref, qualified |-> FALSE, desc |-> descending]

(* ORDER BY names the table, so that it sorts by the column's own type.    *)
NativeOrder(ref, descending) == [by |-> ref, qualified |-> TRUE, desc |-> descending]
=============================================================================
