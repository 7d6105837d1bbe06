---------------------------- MODULE BoundedCalls ----------------------------
(***************************************************************************)
(* What a database source promises of each call: once it has a connection, *)
(* it is answered, or is aborted when its own time is up and not before;   *)
(* and it does not run for ever.  The caller may give up at any time.      *)
(***************************************************************************)
EXTENDS Naturals

CONSTANTS
    Requests,
    TimeoutOf   \* TimeoutOf[r]: the time allowed to r

VARIABLES
    stage,      \* where each call stands
    left        \* how much of its time is left

vars == <<stage, left>>

Stages == {"waiting", "running", "answered", "timedOut", "gone"}

Init ==
    /\ stage = [r \in Requests |-> "waiting"]
    /\ left = TimeoutOf

Become(r, s) == stage' = [stage EXCEPT ![r] = s] /\ UNCHANGED left

Start(r) == stage[r] = "waiting" /\ Become(r, "running")

Answer(r) == stage[r] = "running" /\ Become(r, "answered")

TimeOut(r) == stage[r] = "running" /\ left[r] = 0 /\ Become(r, "timedOut")

GiveUp(r) == stage[r] \in {"waiting", "running"} /\ Become(r, "gone")

(* Time passes for the calls that run.                                     *)
Pass ==
    /\ left' = [r \in Requests |->
                  IF stage[r] = "running" /\ left[r] > 0 THEN left[r] - 1 ELSE left[r]]
    /\ UNCHANGED stage

Next ==
    \/ \E r \in Requests : Start(r) \/ Answer(r) \/ TimeOut(r) \/ GiveUp(r)
    \/ Pass

SafeSpec == Init /\ [][Next]_vars

Spec == SafeSpec /\ WF_vars(Pass) /\ \A r \in Requests : WF_vars(TimeOut(r))
=============================================================================
