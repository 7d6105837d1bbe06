------------------------------ MODULE Database ------------------------------
(***************************************************************************)
(* A database as the role that is connected to it sees it, and what        *)
(* db/mod.rs makes of the answers that all engines share.  The modules     *)
(* Postgres, Mysql and Sqlite say what each statement of the three         *)
(* backends reads from such a database.                                    *)
(*                                                                         *)
(* A database d is a record:                                               *)
(*   engine   "postgres", "mysql" or "sqlite"; fork: None or "mariadb"     *)
(*   schemas  name -> [system, usage]; current: the session's schema       *)
(*   tables   a set of records; keys: the foreign keys; both see below     *)
(*   checksView: whether there is a view of the CHECK constraints          *)
(* Of a column only what the properties tell apart is kept: its name, the  *)
(* native type and the collation; comments and type spellings are not.     *)
(***************************************************************************)
EXTENDS Naturals, Sequences, FiniteSets, SequencesExt

CONSTANTS
    None,      \* null, and an absent query parameter
    Null,      \* the SQL value
    NameOrder, \* every name there may be, in byte order
    Fold,      \* Fold[n]: the name n with its case folded
    NulNames   \* the names that hold a NUL byte: no catalogue can hold them

ASSUME NamesAssumption ==
    /\ NameOrder \in Seq(ToSet(NameOrder))
    /\ NulNames \subseteq ToSet(NameOrder)
    /\ Fold \in [ToSet(NameOrder) -> ToSet(NameOrder)]
    /\ None \notin ToSet(NameOrder)

(* The result of a fallible call: a value, or the code of its DbError.     *)
Ok(v) == [ok |-> TRUE, val |-> v]
Err(code) == [ok |-> FALSE, code |-> code]
AndThen(result, next) == IF result.ok THEN next ELSE result

-----------------------------------------------------------------------------
(* The catalogue, external to the repository.                              *)
(* A table: [schema, name, oid, kind ("base", "partitioned", "view",       *)
(* "internal"), listed (the role has some privilege on it), readable (it   *)
(* may SELECT), owned, columns, pkName, pk, indexes, checks, stats, rows,  *)
(* estimate].                                                              *)
(* A column: [name, type, collation, native]; each engine's module says    *)
(* what type is.  native is how the engine compares two values of the      *)
(* column as what they are: "number" by what they show, "text", "folded"   *)
(* (text without its case), "ordered" (an order and no =, which is what    *)
(* Postgres has for a domain over an enumeration) or "none" (neither).     *)
(* An index: [name, parts, nkeys, unique, origin ("create", "unique",      *)
(* "primary"), where, sql]; a part is [column, text], column None for an   *)
(* expression; parts past nkeys are INCLUDEd.                              *)
(* A check: [name, column], column None unless it is the json_valid check  *)
(* MariaDB adds to a JSON column.  stats[c]: the common values of c.       *)
TablesAt(d, s, t) == {x \in d.tables : x.schema = s /\ x.name = t}
ColumnNames(x) == {x.columns[i].name : i \in DOMAIN x.columns}
RelationsOf(d, oid) == {x \in d.tables : x.oid = oid}

(* A foreign key: [name, id (SQLite's), schema, table, pairs, toSchema,    *)
(* toTable, copy]; a pair is [from, to], to None where SQLite's REFERENCES *)
(* names no column.  copy: "no"; "here" for Postgres' clone of a key onto  *)
(* the same table, one per partition it references; "parent" for a         *)
(* partition's copy of its parent's key.                                   *)
KeysOf(d, s, t) == {k \in d.keys : k.schema = s /\ k.table = t}

(* mutant: a key of several columns is told for each of them *)
AnyKey(k) == TRUE

IsSingle(k) == Len(k.pairs) = 1

(* Sorting rows as ORDER BY does: key(x) lists ranks.                      *)
Rank(name) == CHOOSE i \in DOMAIN NameOrder : NameOrder[i] = name
FoldedRank(name) == Rank(Fold[name])
Lex(a, b) == \E i \in DOMAIN a : a[i] < b[i] /\ \A j \in 1..(i - 1) : a[j] = b[j]
OrderBy(S, key(_)) ==
    [i \in 1..Cardinality(S) |->
        CHOOSE x \in S : Cardinality({y \in S : Lex(key(y), key(x))}) = i - 1]

-----------------------------------------------------------------------------
(* What the backends share.                                                *)

(* mutant: a timeout is the one failure that is the server's *)
ProblemOfClient(code) ==
    [status |-> IF code = "query_timeout" THEN 500 ELSE 400, code |-> code]

(* The status and code of an error's problem details.                      *)
Problem(code) ==
    [status |-> IF code \in {"query_timeout", "database_error"} THEN 500 ELSE 400,
     code |-> code]

SchemaListing(schemas, default) ==
    [schemas |-> schemas,
     default |-> IF default \in schemas THEN default ELSE None]

(* sources is a sequence of names: the first one is the default.           *)
ResolveSource(sources, requested) ==
    CASE requested = None -> Ok(sources[1])
      [] requested \in ToSet(sources) -> Ok(requested)
      [] OTHER -> Err("unknown_source")

(* Run-length merge of rows that differ in their one column (or pair).     *)
Merge(rows, Same(_, _)) ==
    LET add(out, row) ==
            IF out # <<>> /\ Same(Last(out), row)
            THEN [out EXCEPT ![Len(out)].columns = @ \o row.columns]
            ELSE Append(out, row)
    IN FoldLeft(add, <<>>, rows)

(* mutant: a table refers by one key *)
GroupByTable(rows) ==
    Merge(rows, LAMBDA last, row : last.table = row.table /\ last.schema = row.schema)

GroupReferencedBy(rows) ==
    Merge(rows, LAMBDA last, row :
        /\ last.table = row.table
        /\ last.schema = row.schema
        /\ last.constraint = row.constraint)

GroupByName(rows) == Merge(rows, LAMBDA last, row : last.name = row.name)

(* The references of a table's columns, from the <<column, reference>>     *)
(* pairs of its single-column keys.  Each backend iterates a HashMap: where *)
(* a column has two keys, either may win.                                  *)
References(single) ==
    LET columns == {p[1] : p \in single}
    IN {f \in [columns -> {p[2] : p \in single}] :
            \A c \in columns : <<c, f[c]>> \in single}

(* One column as the API reports it.                                       *)
ColMeta(c, class, pks, refs) ==
    [name |-> c.name,
     class |-> class,
     collation |-> IF class.name = "text" THEN c.collation ELSE None,
     key |-> CASE c.name \in pks -> "pk"
               [] c.name \in DOMAIN refs \ pks -> "fk"
               [] OTHER -> None,
     references |-> IF c.name \in DOMAIN refs THEN refs[c.name] ELSE None]

Class(name) == [name |-> name, enum |-> None]
EnumClass(id) == [name |-> "enum", enum |-> id]

(* A request is answered from the one schema of a list that it names.      *)
ResolveSchema(listed, wanted) ==
    IF wanted \in listed THEN Ok(wanted) ELSE Err("unknown_schema")
=============================================================================
