---------------------------- MODULE MCPrefetch ----------------------------
(* Two sources, one without a default schema.                              *)
EXTENDS Prefetch

CONSTANTS main, other, s, v
MCDefaultSchema == [x \in {main, other} |-> IF x = main THEN s ELSE None]
MCScopes ==
    {[source |-> x[1], schema |-> x[2]] :
     x \in {<<None, None>>, <<main, None>>, <<main, s>>, <<other, None>>}}
===========================================================================
