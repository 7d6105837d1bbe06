------------------------- MODULE PromiseCacheProofs -------------------------
(* PromiseCache for any number of keys, requests and clears.              *)
(* StoredSinceClear alone is not inductive: that an answer is stored only  *)
(* since the last clear needs the shared request to be one sent since then *)
(* (SharedIsLive), and that callers share needs every request on its way   *)
(* to be the shared one (LoadingIsShared).                                 *)
EXTENDS PromiseCache, TLAPS

USE CacheAssumption

LEMMA InitInv == Init => CacheInv
  BY DEF Init, CacheInv, TypeOK, Phases, StoredSinceClear, StoredIsSettled,
         SharedIsLive, LoadingIsShared, SentBefore

LEMMA GetInv ==
  ASSUME CacheInv, NEW k \in Keys, NEW r \in Requests, Get(k, r)
  PROVE  CacheInv'
<1> USE DEF CacheInv, Get
<1>1. TypeOK'
  BY DEF TypeOK, Phases
<1>2. r # NoRequest /\ phase[r] = "unsent"
  OBVIOUS
<1>3. StoredSinceClear' /\ StoredIsSettled'
  BY DEF TypeOK, StoredSinceClear, StoredIsSettled
<1>4. SharedIsLive'
  BY DEF TypeOK, SharedIsLive
<1>5. LoadingIsShared'
  BY DEF TypeOK, LoadingIsShared
<1>6. SentBefore'
  BY DEF TypeOK, SentBefore
<1> QED BY <1>1, <1>3, <1>4, <1>5, <1>6

LEMMA AnswerInv ==
  ASSUME CacheInv, NEW r \in Requests, Answer(r)
  PROVE  CacheInv'
<1> USE DEF CacheInv, Answer
<1>1. TypeOK'
  BY DEF TypeOK, Phases
<1>2. StoredSinceClear' /\ StoredIsSettled'
  BY DEF TypeOK, StoredSinceClear, StoredIsSettled, SharedIsLive
<1>3. SharedIsLive' /\ LoadingIsShared' /\ SentBefore'
  BY DEF TypeOK, SharedIsLive, LoadingIsShared, SentBefore
<1> QED BY <1>1, <1>2, <1>3

LEMMA FailInv ==
  ASSUME CacheInv, NEW r \in Requests, Fail(r)
  PROVE  CacheInv'
<1> USE DEF CacheInv, Fail
<1>1. TypeOK'
  BY DEF TypeOK, Phases
<1>2. StoredSinceClear' /\ StoredIsSettled'
  BY DEF TypeOK, StoredSinceClear, StoredIsSettled
<1>3. SharedIsLive' /\ LoadingIsShared' /\ SentBefore'
  BY DEF TypeOK, SharedIsLive, LoadingIsShared, SentBefore
<1> QED BY <1>1, <1>2, <1>3

LEMMA FinallyInv ==
  ASSUME CacheInv, NEW r \in Requests, Finally(r)
  PROVE  CacheInv'
<1> USE DEF CacheInv, Finally
<1>1. TypeOK'
  BY DEF TypeOK, Phases
<1>2. StoredSinceClear' /\ StoredIsSettled'
  BY DEF TypeOK, StoredSinceClear, StoredIsSettled
<1>3. SharedIsLive'
  BY DEF TypeOK, SharedIsLive
<1>4. LoadingIsShared' /\ SentBefore'
  BY DEF TypeOK, LoadingIsShared, SentBefore
<1> QED BY <1>1, <1>2, <1>3, <1>4

LEMMA ClearInv == CacheInv /\ Clear => CacheInv'
  BY DEF CacheInv, Clear, TypeOK, StoredSinceClear, StoredIsSettled,
         SharedIsLive, LoadingIsShared, SentBefore

LEMMA NextInv == CacheInv /\ [Next]_vars => CacheInv'
<1> SUFFICES ASSUME CacheInv, [Next]_vars PROVE CacheInv'
  OBVIOUS
<1>1. CASE \E k \in Keys, r \in Requests : Get(k, r)
  BY <1>1, GetInv
<1>2. CASE \E r \in Requests : Answer(r) \/ Fail(r) \/ Finally(r)
  BY <1>2, AnswerInv, FailInv, FinallyInv
<1>3. CASE Clear
  BY <1>3, ClearInv
<1>4. CASE UNCHANGED vars
  BY <1>4 DEF vars, CacheInv, TypeOK, StoredSinceClear, StoredIsSettled,
              SharedIsLive, LoadingIsShared, SentBefore
<1> QED BY <1>1, <1>2, <1>3, <1>4 DEF Next

(* The invariant holds in every behaviour of the cache, whatever the keys  *)
(* asked for and however often it is cleared.                              *)
THEOREM CacheSafe == Spec => []CacheInv
  BY InitInv, NextInv, PTL DEF Spec

(* No answer from before a clear is ever stored after it: what the page    *)
(* draws from the cache after a refresh was asked for after the refresh.   *)
THEOREM StoredAnswersAreFresh == Spec => []StoredSinceClear
<1>1. CacheInv => StoredSinceClear
  BY DEF CacheInv
<1> QED BY CacheSafe, <1>1, PTL

(* Since the last clear at most one request per key is on its way.         *)
THEOREM CallersShareOneRequest == Spec => []OneRequestPerKey
<1>1. CacheInv => OneRequestPerKey
  BY DEF CacheInv, LoadingIsShared, OneRequestPerKey
<1> QED BY CacheSafe, <1>1, PTL
=============================================================================
