----------------------------- MODULE SqlitePool -----------------------------
(***************************************************************************)
(* SqliteSource::bounded (db/sqlite.rs): how a query gets its deadline on  *)
(* a connection of the pool.  SQLite has no per-query timeout, so bounded  *)
(* installs a progress handler on the connection, runs the query, and      *)
(* removes the handler before the connection goes back.                    *)
(*                                                                         *)
(* Each await of bounded ends an action.  A future may be dropped at any   *)
(* of them (its client went away): what follows is not run.  The pool is   *)
(* the host application's, whose own queries use it without bounded.       *)
(*                                                                         *)
(* The pool and SQLite are external: a connection goes back once its       *)
(* worker is free, whatever its handler; a handler whose time is up aborts *)
(* whatever runs; and lock_handle fails only with its connection, which    *)
(* the pool then discards, so its failures are left out.                   *)
(***************************************************************************)
EXTENDS Naturals

CONSTANTS
    Conns,          \* the connections of the pool
    Requests,       \* the calls of bounded
    Hosts,          \* the tasks of the host application that use the pool
    TimeoutOf,      \* timeout_secs of each call
    Free,           \* no holder
    NoHandler,      \* no progress handler
    Disconnects     \* whether futures are dropped

ASSUME PoolAssumption ==
    /\ TimeoutOf \in [Requests -> Nat]
    /\ Requests \cap Hosts = {}
    /\ Free \notin Requests \cup Hosts
    /\ NoHandler \notin Nat
    /\ Disconnects \in BOOLEAN

VARIABLES
    holder,     \* who has each connection
    handler,    \* how much time the handler of each connection leaves
    stage,      \* where each call of bounded is suspended
    outcome,    \* what its query came to
    left,       \* deadline - now, from the moment it has a connection
    leaked,     \* the connections that went back from a dropped future
    disturbed   \* the tasks of the host that had a query aborted

vars == <<holder, handler, stage, outcome, left, leaked, disturbed>>

Holds(r, c) == holder[c] = r

Suspend(r, s) == stage' = [stage EXCEPT ![r] = s]

-----------------------------------------------------------------------------
Init ==
    /\ holder = [c \in Conns |-> Free]
    /\ handler = [c \in Conns |-> NoHandler]
    /\ stage = [r \in Requests |-> "waiting"]
    /\ outcome = [r \in Requests |-> "none"]
    /\ left = TimeoutOf
    /\ leaked = {}
    /\ disturbed = {}

(* pool.acquire, and the deadline.                                         *)
Acquire(r, c) ==
    /\ stage[r] = "waiting"
    /\ holder[c] = Free
    /\ holder' = [holder EXCEPT ![c] = r]
    /\ Suspend(r, "acquired")
    /\ UNCHANGED <<handler, outcome, left, leaked, disturbed>>

(* mutants: a handler found on the connection is kept, or none installed   *)
keepHandler(r, c) ==
    IF handler[c] = NoHandler THEN [handler EXCEPT ![c] = left[r]] ELSE handler

noHandler(r, c) == handler

newHandler(r, c) == [handler EXCEPT ![c] = left[r]]

SetHandler(r, c) ==
    /\ stage[r] = "acquired" /\ Holds(r, c)
    /\ handler' = newHandler(r, c)
    /\ Suspend(r, "running")
    /\ UNCHANGED <<holder, outcome, left, leaked, disturbed>>

(* The query ends by itself, with rows or an error, ...                    *)
QueryEnds(r, c) ==
    /\ stage[r] = "running" /\ Holds(r, c)
    /\ outcome' = [outcome EXCEPT ![r] = "answered"]
    /\ Suspend(r, "ran")
    /\ UNCHANGED <<holder, handler, left, leaked, disturbed>>

(* ... or the handler aborts it.                                           *)
Abort(r, c) ==
    /\ stage[r] = "running" /\ Holds(r, c)
    /\ handler[c] = 0
    /\ outcome' = [outcome EXCEPT ![r] = "timedOut"]
    /\ Suspend(r, "ran")
    /\ UNCHANGED <<holder, handler, left, leaked, disturbed>>

(* mutant: an aborted query returns at once *)
clearAnswered(r, c) ==
    IF outcome[r] = "answered" THEN [handler EXCEPT ![c] = NoHandler] ELSE handler

clearHandler(r, c) == [handler EXCEPT ![c] = NoHandler]

(* The handler is removed; bounded returns and its connection goes back.   *)
Finish(r, c) ==
    /\ stage[r] = "ran" /\ Holds(r, c)
    /\ handler' = clearHandler(r, c)
    /\ holder' = [holder EXCEPT ![c] = Free]
    /\ leaked' = leaked \ {c}
    /\ Suspend(r, "done")
    /\ UNCHANGED <<outcome, left, disturbed>>

-----------------------------------------------------------------------------
(* The future of a call is dropped ...                                     *)
Drop(r) ==
    /\ Disconnects
    /\ stage[r] \in {"waiting", "acquired", "running", "ran"}
    /\ Suspend(r, "dropped")
    /\ UNCHANGED <<holder, handler, outcome, left, leaked, disturbed>>

(* ... and its connection goes back once the worker is free.               *)
Return(r, c) ==
    /\ stage[r] = "dropped" /\ Holds(r, c)
    /\ holder' = [holder EXCEPT ![c] = Free]
    /\ leaked' = leaked \cup {c}
    /\ UNCHANGED <<handler, stage, outcome, left, disturbed>>

(* A worker whose handler is up, or that has none to run under, is free.   *)
ReturnAborted(r, c) == handler[c] \in {0, NoHandler} /\ Return(r, c)

(* The host's own queries.                                                 *)
HostAcquire(h, c) ==
    /\ holder[c] = Free
    /\ holder' = [holder EXCEPT ![c] = h]
    /\ UNCHANGED <<handler, stage, outcome, left, leaked, disturbed>>

HostReturn(h, c) ==
    /\ Holds(h, c)
    /\ holder' = [holder EXCEPT ![c] = Free]
    /\ UNCHANGED <<handler, stage, outcome, left, leaked, disturbed>>

HostAborted(h, c) ==
    /\ Holds(h, c)
    /\ handler[c] = 0
    /\ disturbed' = disturbed \cup {h}
    /\ UNCHANGED <<holder, handler, stage, outcome, left, leaked>>

(* Instant::now() moves on.                                                *)
Pass ==
    /\ handler' = [c \in Conns |->
                     IF handler[c] \in {0, NoHandler} THEN handler[c] ELSE handler[c] - 1]
    /\ left' = [r \in Requests |->
                  IF stage[r] \in {"acquired", "running"} /\ left[r] > 0
                  THEN left[r] - 1 ELSE left[r]]
    /\ UNCHANGED <<holder, stage, outcome, leaked, disturbed>>

-----------------------------------------------------------------------------
Bounded(r, c) ==
    Acquire(r, c) \/ SetHandler(r, c) \/ QueryEnds(r, c) \/ Abort(r, c) \/ Finish(r, c)

Host(h, c) == HostAcquire(h, c) \/ HostReturn(h, c) \/ HostAborted(h, c)

Next ==
    \/ \E r \in Requests, c \in Conns : Bounded(r, c) \/ Return(r, c)
    \/ \E r \in Requests : Drop(r)
    \/ \E h \in Hosts, c \in Conns : Host(h, c)
    \/ Pass

Spec == Init /\ [][Next]_vars

-----------------------------------------------------------------------------
TypeOK ==
    /\ holder \in [Conns -> Requests \cup Hosts \cup {Free}]
    /\ handler \in [Conns -> Nat \cup {NoHandler}]
    /\ stage \in [Requests -> {"waiting", "acquired", "running", "ran", "done", "dropped"}]
    /\ outcome \in [Requests -> {"none", "answered", "timedOut"}]
    /\ left \in [Requests -> Nat]
    /\ leaked \subseteq Conns
    /\ disturbed \subseteq Hosts

(* A query runs under its own deadline, whatever the connection it got has *)
(* been through.                                                           *)
RunsUnderOwn ==
    \A r \in Requests, c \in Conns :
        Holds(r, c) /\ stage[r] = "running" => handler[c] = left[r]

(* A call has one connection, and none before it asks for one or after it  *)
(* is done.                                                                *)
OneConnection ==
    \A r \in Requests, c \in Conns :
        Holds(r, c) => /\ stage[r] \notin {"waiting", "done"}
                       /\ \A d \in Conns : Holds(r, d) => d = c

(* A call has an outcome once its query has ended, and not before.         *)
OutcomesAreFinal ==
    \A r \in Requests :
        /\ stage[r] \in {"ran", "done"} => outcome[r] # "none"
        /\ stage[r] \in {"waiting", "acquired", "running"} => outcome[r] = "none"

(* A handler is left on a connection only by a dropped future: whatever    *)
(* else runs on it, the host's queries included, runs without one.         *)
LeaksAreDrops ==
    \A c \in Conns :
        handler[c] # NoHandler /\ c \notin leaked =>
            holder[c] \in Requests /\ stage[holder[c]] \in {"running", "ran", "dropped"}

PoolInv ==
    TypeOK /\ RunsUnderOwn /\ OneConnection /\ OutcomesAreFinal /\ LeaksAreDrops

(* No query of the host's is aborted by a deadline that is not its own     *)
(* (sqlite.rs: the handler must be cleared "before the connection goes     *)
(* back to the pool, or a reused connection would inherit a `deadline`").  *)
HostUndisturbed == disturbed = {}

(* Each call keeps what a source promises of it.                           *)
callStage(r) ==
    CASE stage[r] \in {"acquired", "running"} -> "running"
      [] stage[r] \in {"ran", "done"} -> outcome[r]
      [] stage[r] = "dropped" /\ outcome[r] # "none" -> outcome[r]
      [] stage[r] = "dropped" /\ outcome[r] = "none" -> "gone"
      [] OTHER -> "waiting"

Calls == INSTANCE BoundedCalls WITH stage <- [r \in Requests |-> callStage(r)]

KeepsPromise == Calls!Spec

(* The handler's worker is awake, a woken future runs, and time passes.    *)
Fairness ==
    /\ WF_vars(Pass)
    /\ \A r \in Requests, c \in Conns :
         WF_vars(SetHandler(r, c)) /\ WF_vars(Abort(r, c)) /\ WF_vars(Finish(r, c))
         /\ WF_vars(ReturnAborted(r, c))

FairSpec == Spec /\ Fairness

(* No call keeps a connection of the host's pool for ever, dropped or not. *)
ConnectionsComeBack ==
    \A r \in Requests, c \in Conns : Holds(r, c) ~> ~Holds(r, c)
=============================================================================
