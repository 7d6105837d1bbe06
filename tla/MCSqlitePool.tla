---------------------------- MODULE MCSqlitePool ----------------------------
(* SqlitePool with two calls, one of which is allowed more time.            *)
EXTENDS SqlitePool, TLC

CONSTANTS r1, r2

MCTimeouts == r1 :> 1 @@ r2 :> 3
=============================================================================
