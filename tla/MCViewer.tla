------------------------------ MODULE MCViewer ------------------------------
(* Viewer with a bounded number of acts of the user: two sources or one,   *)
(* two schemas, two tables.                                                *)
EXTENDS Viewer, TLC

CONSTANTS
    s1, s2, c1, c2, t1, t2,
    MaxActs,    \* bound on the clicks, ticks and history steps of one behaviour
    Ticks,      \* whether auto-refresh is on
    EarlyActs   \* whether the user acts before start-up is over

VARIABLE acts   \* how many there have been

(* What the server has: t1 is missing from schema c2, and a second source  *)
(* lists c2 only.                                                          *)
OneSchema == [s \in Sources |-> {c1}]
TwoSchemas == [s \in Sources |-> {c1, c2}]
TwoSources == s1 :> {c1, c2} @@ s2 :> {c2}
MCTables == [s \in Sources |-> [c \in Schemas |-> IF c = c1 THEN {t1, t2} ELSE {t2}]]
MCDefault == [s \in Sources |-> IF s = s1 THEN c1 ELSE c2]

(* A first visit, links that name a table, with a filter or without, and a *)
(* link to the second source with a schema it does not have (any more).    *)
On(t, f) == [source |-> NoName, schema |-> NoName,
             query |-> [view |-> t, filter |-> f, page |-> 0]]
FirstVisit == {On(NoName, FALSE)}
Links == {On(t1, FALSE), On(t1, TRUE)}
Visits == FirstVisit \cup {[On(t2, FALSE) EXCEPT !.source = s2, !.schema = c1]}

MCInit == Init /\ acts = 0

Act ==
    /\ acts < MaxActs
    /\ acts' = acts + 1
    /\ EarlyActs \/ boot = "done"
    /\ InPlace \/ Switches \/ Traversals \/ (Ticks /\ Tick)

MCAnswers == Answers /\ UNCHANGED acts

MCNext == MCAnswers \/ Act

MCSpec == MCInit /\ [][MCNext]_<<vars, acts>>

MCFairSpec == MCSpec /\ WF_<<vars, acts>>(MCAnswers)

(* States that differ only in how far the tokens have counted are the same.*)
Ages(calls, now) == {[c EXCEPT !.token = now - c.token] : c \in calls}

MCView ==
    <<acts, scope, many, query, filterRisk, remembered, menu, Ages(loads, loadToken),
      Ages(lists, listToken), Ages(schemasCalls, schemasToken), chips, grid, history,
      written, failed, boot, aim>>
=============================================================================
