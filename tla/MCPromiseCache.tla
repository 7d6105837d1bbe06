--------------------------- MODULE MCPromiseCache ---------------------------
(* PromiseCache on two keys and three requests, with clears bounded.        *)
EXTENDS PromiseCache, TLC

CONSTANT MaxClears  \* bound on clear() calls

(* A request's key before it is sent is arbitrary; one choice is enough.   *)
MCInit == Init /\ keyOf = [r \in Requests |-> CHOOSE k \in Keys : TRUE]

MCNext ==
    \/ \E k \in Keys, r \in Requests : Get(k, r)
    \/ \E r \in Requests : Answer(r) \/ Fail(r) \/ Finally(r)
    \/ clears < MaxClears /\ Clear

MCSpec == MCInit /\ [][MCNext]_vars

MCFairSpec == MCSpec /\ Fairness

=============================================================================
