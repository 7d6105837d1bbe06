---------------------------- MODULE PromiseCache ----------------------------
(***************************************************************************)
(* The memoising cache of frontend/src/lib/promise-cache.ts, behind the    *)
(* structure dialog and the referenced-by pop-over.  Answers are kept by   *)
(* key, a request on its way is shared by every caller, a failure is not   *)
(* kept, and clear() (the refresh button) must also keep the answers of    *)
(* requests sent before it out of the cache.                               *)
(*                                                                         *)
(* The .then and the .finally of one request are separate microtasks:      *)
(* other callbacks of the page run between them, so they are two actions.  *)
(***************************************************************************)
EXTENDS Naturals

CONSTANTS
    Keys,       \* what answers are asked for: one scope and table each
    Requests,   \* identities of the load() promises; `===` compares these
    NoRequest   \* inflight has no entry

ASSUME CacheAssumption == NoRequest \notin Requests

VARIABLES
    done,       \* done[k]: the request whose answer is stored for k, or NoRequest
    inflight,   \* inflight[k]: the request every caller of k shares, or NoRequest
    phase,      \* phase[r]: how far request r's promise chain is
    keyOf,      \* keyOf[r]: the key r was sent for
    sentIn,     \* sentIn[r]: how many clears had happened when r was sent
    clears      \* how many clears have happened

vars == <<done, inflight, phase, keyOf, sentIn, clears>>

Phases == {"unsent", "loading", "stored", "failed", "settled"}

TypeOK ==
    /\ done \in [Keys -> Requests \cup {NoRequest}]
    /\ inflight \in [Keys -> Requests \cup {NoRequest}]
    /\ phase \in [Requests -> Phases]
    /\ keyOf \in [Requests -> Keys]
    /\ sentIn \in [Requests -> Nat]
    /\ clears \in Nat

Init ==
    /\ done = [k \in Keys |-> NoRequest]
    /\ inflight = [k \in Keys |-> NoRequest]
    /\ phase = [r \in Requests |-> "unsent"]
    /\ keyOf \in [Requests -> Keys]
    /\ sentIn = [r \in Requests |-> 0]
    /\ clears = 0

(* mutant: get does not look at the requests on their way *)
GetUnshared(k, r) ==
    /\ done[k] = NoRequest
    /\ phase[r] = "unsent"
    /\ phase' = [phase EXCEPT ![r] = "loading"]
    /\ keyOf' = [keyOf EXCEPT ![r] = k]
    /\ sentIn' = [sentIn EXCEPT ![r] = clears]
    /\ inflight' = [inflight EXCEPT ![k] = r]
    /\ UNCHANGED <<done, clears>>

(* get(k) when nothing is stored or shared for k: load() sends r.  A get   *)
(* that finds either changes nothing.                                      *)
Get(k, r) ==
    /\ done[k] = NoRequest
    /\ inflight[k] = NoRequest
    /\ phase[r] = "unsent"
    /\ phase' = [phase EXCEPT ![r] = "loading"]
    /\ keyOf' = [keyOf EXCEPT ![r] = k]
    /\ sentIn' = [sentIn EXCEPT ![r] = clears]
    /\ inflight' = [inflight EXCEPT ![k] = r]
    /\ UNCHANGED <<done, clears>>

(* mutant: .then stores without asking whose turn it is *)
AnswerAlways(r) ==
    /\ phase[r] = "loading"
    /\ phase' = [phase EXCEPT ![r] = "stored"]
    /\ done' = [done EXCEPT ![keyOf[r]] = r]
    /\ UNCHANGED <<inflight, keyOf, sentIn, clears>>

(* The .then callback: the answer is stored while r is still the shared    *)
(* request of its key.                                                     *)
Answer(r) ==
    /\ phase[r] = "loading"
    /\ phase' = [phase EXCEPT ![r] = "stored"]
    /\ done' = IF inflight[keyOf[r]] = r
               THEN [done EXCEPT ![keyOf[r]] = r]
               ELSE done
    /\ UNCHANGED <<inflight, keyOf, sentIn, clears>>

(* A rejected load() skips the .then callback.                             *)
Fail(r) ==
    /\ phase[r] = "loading"
    /\ phase' = [phase EXCEPT ![r] = "failed"]
    /\ UNCHANGED <<done, inflight, keyOf, sentIn, clears>>

(* mutants: .finally frees the key for whoever holds it, or never *)
FinallyAlways(r) ==
    /\ phase[r] \in {"stored", "failed"}
    /\ phase' = [phase EXCEPT ![r] = "settled"]
    /\ inflight' = [inflight EXCEPT ![keyOf[r]] = NoRequest]
    /\ UNCHANGED <<done, keyOf, sentIn, clears>>

FinallyKeeps(r) ==
    /\ phase[r] \in {"stored", "failed"}
    /\ phase' = [phase EXCEPT ![r] = "settled"]
    /\ UNCHANGED <<done, inflight, keyOf, sentIn, clears>>

(* The .finally callback.                                                  *)
Finally(r) ==
    /\ phase[r] \in {"stored", "failed"}
    /\ phase' = [phase EXCEPT ![r] = "settled"]
    /\ inflight' = IF inflight[keyOf[r]] = r
                   THEN [inflight EXCEPT ![keyOf[r]] = NoRequest]
                   ELSE inflight
    /\ UNCHANGED <<done, keyOf, sentIn, clears>>

(* clear()                                                                 *)
Clear ==
    /\ done' = [k \in Keys |-> NoRequest]
    /\ inflight' = [k \in Keys |-> NoRequest]
    /\ clears' = clears + 1
    /\ UNCHANGED <<phase, keyOf, sentIn>>

Next ==
    \/ \E k \in Keys, r \in Requests : Get(k, r)
    \/ \E r \in Requests : Answer(r) \/ Fail(r) \/ Finally(r)
    \/ Clear

Spec == Init /\ [][Next]_vars

-----------------------------------------------------------------------------
(* What a peek or a get returns was asked for after the last clear, and    *)
(* for that very key: a request in flight across a refresh never puts its  *)
(* old answer back (promise-cache.ts, the identity test in .then).         *)
StoredSinceClear ==
    \A k \in Keys : done[k] # NoRequest =>
        /\ sentIn[done[k]] = clears
        /\ keyOf[done[k]] = k

(* Between two clears a key never has two requests on their way: callers   *)
(* of one key share (the inflight map, through failures and .finally).     *)
OneRequestPerKey ==
    \A r, s \in Requests :
        ( /\ phase[r] = "loading" /\ phase[s] = "loading"
          /\ keyOf[r] = keyOf[s]
          /\ sentIn[r] = clears /\ sentIn[s] = clears )
        => r = s

(* The inductive strengthening of both: a shared request belongs to its    *)
(* key and to the current clear and has not run its .finally, and whatever *)
(* is loading since the last clear is the shared one of its key.           *)
SharedIsLive ==
    \A k \in Keys : inflight[k] # NoRequest =>
        /\ keyOf[inflight[k]] = k
        /\ sentIn[inflight[k]] = clears
        /\ phase[inflight[k]] \in {"loading", "stored", "failed"}

LoadingIsShared ==
    \A r \in Requests :
        phase[r] \in {"loading", "stored", "failed"} /\ sentIn[r] = clears
            => inflight[keyOf[r]] = r

SentBefore == \A r \in Requests : sentIn[r] <= clears

(* A stored answer's request is through its .then.                         *)
StoredIsSettled ==
    \A k \in Keys : done[k] # NoRequest => phase[done[k]] \in {"stored", "settled"}

CacheInv ==
    /\ TypeOK
    /\ StoredSinceClear
    /\ StoredIsSettled
    /\ SharedIsLive
    /\ LoadingIsShared
    /\ SentBefore

(* A failure is not kept: once a request has failed, its key is free to be *)
(* asked for again (the .finally), whoever shared it.                      *)
Fairness == \A r \in Requests : WF_vars(Answer(r) \/ Fail(r)) /\ WF_vars(Finally(r))

FairSpec == Spec /\ Fairness

KeysComeFree ==
    \A k \in Keys : inflight[k] # NoRequest ~> inflight[k] = NoRequest
=============================================================================
