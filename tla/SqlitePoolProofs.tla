-------------------------- MODULE SqlitePoolProofs --------------------------
(* SqlitePool for any pool, any calls and any timeouts.                    *)
EXTENDS SqlitePool, TLAPS

USE PoolAssumption DEF PoolAssumption

LEMMA PoolStarts == Init => PoolInv
BY DEF Init, PoolInv, TypeOK, RunsUnderOwn, OneConnection, OutcomesAreFinal,
       LeaksAreDrops, Holds

(* Types first: each action gives its variables values of their types.      *)
LEMMA TypesStay == TypeOK /\ [Next]_vars => TypeOK'
<1> SUFFICES ASSUME TypeOK, [Next]_vars PROVE TypeOK'
  OBVIOUS
<1> USE DEF TypeOK, Suspend
<1>1. ASSUME NEW r \in Requests, NEW c \in Conns, Acquire(r, c) PROVE TypeOK'
  BY <1>1 DEF Acquire
<1>2. ASSUME NEW r \in Requests, NEW c \in Conns, SetHandler(r, c) PROVE TypeOK'
  BY <1>2 DEF SetHandler, newHandler
<1>3. ASSUME NEW r \in Requests, NEW c \in Conns, QueryEnds(r, c) PROVE TypeOK'
  BY <1>3 DEF QueryEnds
<1>4. ASSUME NEW r \in Requests, NEW c \in Conns, Abort(r, c) PROVE TypeOK'
  BY <1>4 DEF Abort
<1>5. ASSUME NEW r \in Requests, NEW c \in Conns, Finish(r, c) PROVE TypeOK'
  BY <1>5 DEF Finish, clearHandler
<1>6. ASSUME NEW r \in Requests, NEW c \in Conns, Return(r, c) PROVE TypeOK'
  BY <1>6 DEF Return
<1>7. ASSUME NEW r \in Requests, Drop(r) PROVE TypeOK'
  BY <1>7 DEF Drop
<1>8. ASSUME NEW h \in Hosts, NEW c \in Conns, Host(h, c) PROVE TypeOK'
  BY <1>8 DEF Host, HostAcquire, HostReturn, HostAborted
<1>9. CASE Pass
  <2>1. handler' \in [Conns -> Nat \cup {NoHandler}]
    BY <1>9 DEF Pass
  <2>2. left' \in [Requests -> Nat]
    BY <1>9 DEF Pass
  <2> QED
    BY <1>9, <2>1, <2>2 DEF Pass
<1>10. CASE UNCHANGED vars
  BY <1>10 DEF vars
<1> QED
  BY <1>1, <1>2, <1>3, <1>4, <1>5, <1>6, <1>7, <1>8, <1>9, <1>10 DEF Next, Bounded

LEMMA PoolStays == PoolInv /\ [Next]_vars => PoolInv'
<1> SUFFICES ASSUME PoolInv, [Next]_vars PROVE PoolInv'
  OBVIOUS
<1>t. TypeOK /\ TypeOK'
  BY TypesStay DEF PoolInv
<1> DEFINE Rest == RunsUnderOwn /\ OneConnection /\ OutcomesAreFinal /\ LeaksAreDrops
<1>r. Rest
  BY DEF PoolInv
<1> SUFFICES Rest'
  BY <1>t DEF PoolInv
<1> USE <1>t, <1>r DEF TypeOK, RunsUnderOwn, OneConnection, OutcomesAreFinal, LeaksAreDrops,
                       Holds, Suspend
<1>1. ASSUME NEW r \in Requests, NEW c \in Conns, Acquire(r, c) PROVE Rest'
  BY <1>1 DEF Acquire
<1>2. ASSUME NEW r \in Requests, NEW c \in Conns, SetHandler(r, c) PROVE Rest'
  BY <1>2 DEF SetHandler, newHandler
<1>3. ASSUME NEW r \in Requests, NEW c \in Conns, QueryEnds(r, c) PROVE Rest'
  BY <1>3 DEF QueryEnds
<1>4. ASSUME NEW r \in Requests, NEW c \in Conns, Abort(r, c) PROVE Rest'
  BY <1>4 DEF Abort
<1>5. ASSUME NEW r \in Requests, NEW c \in Conns, Finish(r, c) PROVE Rest'
  BY <1>5 DEF Finish, clearHandler
<1>6. ASSUME NEW r \in Requests, NEW c \in Conns, Return(r, c) PROVE Rest'
  BY <1>6 DEF Return
<1>7. ASSUME NEW r \in Requests, Drop(r) PROVE Rest'
  BY <1>7 DEF Drop
<1>8. ASSUME NEW h \in Hosts, NEW c \in Conns, Host(h, c) PROVE Rest'
  BY <1>8 DEF Host, HostAcquire, HostReturn, HostAborted
<1>9. CASE Pass
  <2>1. RunsUnderOwn'
    BY <1>9 DEF Pass
  <2>2. LeaksAreDrops'
    BY <1>9 DEF Pass
  <2> QED
    BY <1>9, <2>1, <2>2 DEF Pass
<1>10. CASE UNCHANGED vars
  BY <1>10 DEF vars
<1> QED
  BY <1>1, <1>2, <1>3, <1>4, <1>5, <1>6, <1>7, <1>8, <1>9, <1>10 DEF Next, Bounded

(* Whatever happened to a connection before, a query runs under its own     *)
(* deadline, and a handler is left behind only by a dropped future          *)
(* (SqliteSource::bounded).                                                 *)
THEOREM PoolSafe == Spec => []PoolInv
<1> QED
  BY PoolStarts, PoolStays, PTL DEF Spec

(* As long as no future is dropped, no query of the host's is aborted.      *)
THEOREM HostUndisturbedByBounded == ~Disconnects => (Spec => []HostUndisturbed)
<1> SUFFICES ASSUME ~Disconnects PROVE Spec => []HostUndisturbed
  OBVIOUS
<1> DEFINE NoLeak == leaked = {} /\ HostUndisturbed /\ \A r \in Requests : stage[r] # "dropped"
<1>1. Init => NoLeak
  BY DEF Init, HostUndisturbed
<1>2. PoolInv /\ NoLeak /\ [Next]_vars => NoLeak'
  <2> SUFFICES ASSUME PoolInv, NoLeak, [Next]_vars PROVE NoLeak'
    OBVIOUS
  <2> USE DEF HostUndisturbed, PoolInv, TypeOK, Suspend
  <2>1. ASSUME NEW r \in Requests, NEW c \in Conns, Bounded(r, c) PROVE NoLeak'
    BY <2>1 DEF Bounded, Acquire, SetHandler, QueryEnds, Abort, Finish
  <2>2. ASSUME NEW r \in Requests, NEW c \in Conns, Return(r, c) PROVE NoLeak'
    BY <2>2 DEF Return
  <2>3. ASSUME NEW r \in Requests, Drop(r) PROVE NoLeak'
    BY <2>3 DEF Drop
  <2>4. ASSUME NEW h \in Hosts, NEW c \in Conns, Host(h, c) PROVE NoLeak'
    <3>1. ~HostAborted(h, c)
      BY DEF HostAborted, Holds, LeaksAreDrops
    <3> QED
      BY <2>4, <3>1 DEF Host, HostAcquire, HostReturn
  <2>5. CASE Pass \/ UNCHANGED vars
    BY <2>5 DEF Pass, vars
  <2> QED
    BY <2>1, <2>2, <2>3, <2>4, <2>5 DEF Next
<1>3. NoLeak => HostUndisturbed
  OBVIOUS
<1> QED
  BY <1>1, <1>2, <1>3, PoolSafe, PTL DEF Spec

(* bounded keeps what BoundedCalls promises: a call is answered, given up,  *)
(* or aborted once its own time is up, and not before.                      *)
THEOREM BoundedKeepsPromise == Spec => Calls!SafeSpec
<1> USE DEF callStage
<1>1. Init => Calls!Init
  BY DEF Init, Calls!Init
<1>2. PoolInv /\ [Next]_vars => [Calls!Next]_(Calls!vars)
  <2> SUFFICES ASSUME PoolInv, [Next]_vars PROVE [Calls!Next]_(Calls!vars)
    OBVIOUS
  <2> DEFINE Now == [r \in Requests |-> callStage(r)]
  <2> USE DEF PoolInv, TypeOK, Suspend, Calls!Next, Calls!vars, Calls!Become
  <2>1. ASSUME NEW r \in Requests, NEW c \in Conns, Acquire(r, c) PROVE Calls!Start(r)
    BY <2>1 DEF Acquire, Calls!Start, OutcomesAreFinal
  <2>2. ASSUME NEW r \in Requests, NEW c \in Conns, SetHandler(r, c) PROVE UNCHANGED Calls!vars
    BY <2>2 DEF SetHandler
  <2>3. ASSUME NEW r \in Requests, NEW c \in Conns, QueryEnds(r, c) PROVE Calls!Answer(r)
    BY <2>3 DEF QueryEnds, Calls!Answer
  <2>4. ASSUME NEW r \in Requests, NEW c \in Conns, Abort(r, c) PROVE Calls!TimeOut(r)
    BY <2>4 DEF Abort, Calls!TimeOut, RunsUnderOwn
  <2>5. ASSUME NEW r \in Requests, NEW c \in Conns, Finish(r, c) PROVE UNCHANGED Calls!vars
    BY <2>5 DEF Finish
  <2>6. ASSUME NEW r \in Requests, NEW c \in Conns, Return(r, c) PROVE UNCHANGED Calls!vars
    BY <2>6 DEF Return
  <2>7. ASSUME NEW r \in Requests, Drop(r) PROVE Calls!GiveUp(r) \/ UNCHANGED Calls!vars
    <3>1. CASE stage[r] = "ran"
      BY <2>7, <3>1 DEF Drop, OutcomesAreFinal
    <3>2. CASE stage[r] # "ran"
      BY <2>7, <3>2 DEF Drop, OutcomesAreFinal, Calls!GiveUp
    <3> QED
      BY <3>1, <3>2
  <2>8. ASSUME NEW h \in Hosts, NEW c \in Conns, Host(h, c) PROVE UNCHANGED Calls!vars
    BY <2>8 DEF Host, HostAcquire, HostReturn, HostAborted
  <2>9. ASSUME Pass PROVE Calls!Pass
    BY <2>9 DEF Pass, Calls!Pass
  <2>10. CASE UNCHANGED vars
    BY <2>10 DEF vars
  <2> QED
    BY <2>1, <2>2, <2>3, <2>4, <2>5, <2>6, <2>7, <2>8, <2>9, <2>10 DEF Next, Bounded
<1> QED
  BY <1>1, <1>2, PoolSafe, PTL DEF Spec, Calls!SafeSpec
=============================================================================
