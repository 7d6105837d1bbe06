---------------------------- MODULE MCAutoRefresh ----------------------------
(* AutoRefresh with a bounded number of acts of the user; input, hiding and *)
(* showing the page are not bounded.                                        *)
EXTENDS AutoRefresh

CONSTANT MaxActs \* bound on loads, switches and choices of an interval

VARIABLE acts

MCInit == Init /\ acts = 0

Act == acts < MaxActs /\ acts' = acts + 1 /\ Acts

Alone == (Fire \/ Pass \/ Settle \/ noteInput \/ Hide \/ Show) /\ UNCHANGED acts

MCNext == Alone \/ Act

MCFairSpec == MCInit /\ [][MCNext]_<<vars, acts>> /\ Fairness
=============================================================================
