--------------------------- MODULE PrefetchProofs ---------------------------
(***************************************************************************)
(* Proofs about Prefetch: an answer sent for ahead stands for the same     *)
(* request, is used once, and is fresh.                                    *)
(***************************************************************************)
EXTENDS Prefetch, SequenceTheorems, TLAPS

Asks ==
    [route : Routes,
     source : {scope.source : scope \in Scopes} \cup {None, DefaultSource},
     schema : {scope.schema : scope \in Scopes} \cup {None}
                \cup {DefaultSchema[x] : x \in Sources},
     view : Views \cup {None}]
Fetches == [id : Nat, request : Asks]
Entries == [kind : {"boot", "view"}, key : Asks, expires : Nat \cup {Never}, at : Nat,
            fetch : Fetches]
Kinds == {"boot", "view", None}
Waiting == [key : Asks, fetch : Fetches, ahead : Kinds]
Done == [fetch : [id : Nat], ahead : Kinds, end : {"failed", "answered"}]

TypeInv ==
    /\ prefetched \subseteq Entries
    /\ calls \in Seq(Waiting \cup Done)
    /\ sent \in Nat /\ now \in Nat /\ refreshed \in Nat

(* An entry's, and a call's, request was sent.                             *)
SentInv ==
    /\ refreshed <= sent
    /\ \A p \in prefetched : p.fetch.id <= sent
    /\ \A c \in DOMAIN calls : calls[c].fetch.id <= sent

(* What was asked for ahead was so after the last refresh, and expires.    *)
YoungInv ==
    \A p \in prefetched : p.kind = "view" =>
        p.fetch.id > refreshed /\ \E t \in Ttls : p.expires = p.at + t

NoFailureInv ==
    \A c \in DOMAIN calls :
        Ended(calls[c]) /\ calls[c].ahead = "view" => calls[c].end # "failed"

IInv ==
    /\ TypeInv /\ SentInv /\ YoungInv /\ NoFailureInv
    /\ StandsForTheSame /\ UsedOnce

-----------------------------------------------------------------------------
(* Asks.                                                                   *)

LEMMA EndedIsDone ==
    ASSUME NEW call \in Waiting \cup Done
    PROVE  /\ Ended(call) <=> call \in Done
           /\ ~Ended(call) => call \in Waiting
           /\ call.fetch.id \in Nat
           /\ call.ahead \in Kinds
BY DEF Waiting, Done, Ended, Fetches, Kinds

LEMMA RequestsAreAsks == Requests \subseteq Asks
BY DEF Requests, Asks, SourceQuery, ScopeQuery, TableDataPath, Ask, Routes

LEMMA MaxTtl == \A t \in Ttls : t \in Nat /\ Max(Ttls) \in Nat /\ t <= Max(Ttls)
BY PrefetchAssumption DEF PrefetchAssumption, Max

(* Naming a default leaves the meaning of a request as it was.             *)
LEMMA NamedSource ==
    ASSUME NEW r \in Asks, r.source = None
    PROVE  /\ [r EXCEPT !["source"] = DefaultSource] \in Asks
           /\ Meaning([r EXCEPT !["source"] = DefaultSource]) = Meaning(r)
BY PrefetchAssumption DEF PrefetchAssumption, Asks, Meaning, Routes

LEMMA NamedSchema ==
    ASSUME NEW r \in Asks, r.schema = None, NEW asked \in Asks,
           r.source = asked.source, asked.route = "/schemas",
           Meaning(asked).source \in Sources
    PROVE  LET default == DefaultSchema[Meaning(asked).source]
           IN default # None =>
                /\ [r EXCEPT !["schema"] = default] \in Asks
                /\ Meaning([r EXCEPT !["schema"] = default]) = Meaning(r)
BY PrefetchAssumption DEF PrefetchAssumption, Asks, Meaning, Routes

-----------------------------------------------------------------------------
(* Entries.                                                                *)

(* n is p, with a default named or not.                                    *)
IsStill(n, p) ==
    /\ n \in Entries
    /\ n.kind = p.kind /\ n.fetch = p.fetch /\ n.at = p.at /\ n.expires = p.expires
    /\ Meaning(n.key) = Meaning(p.key)

LEMMA ReportedNames ==
    ASSUME IInv, NEW r \in Asks
    PROVE  /\ \A n \in Reported(r) : \E p \in prefetched : IsStill(n, p)
           /\ \A m, n \in Reported(r) : m.fetch.id = n.fetch.id => m = n
<1>1. \A p \in prefetched : p \in Entries /\ IsStill(p, p)
  BY DEF IInv, TypeInv, IsStill, Entries
<1>2. \A p, q \in prefetched : p.fetch.id = q.fetch.id => p = q
  BY DEF IInv, UsedOnce
<1>3. CASE r.route = "/sources"
  <2> DEFINE Named(p) ==
        IF \/ p.kind # "boot" \/ p.key["source"] # None \/ DefaultSource = None
           \/ \E name \in DOMAIN <<>> : p.key[name] # <<>>[name]
        THEN p
        ELSE [p EXCEPT !.key["source"] = DefaultSource]
  <2>1. Reported(r) = {Named(p) : p \in prefetched}
    BY <1>3 DEF Reported, NameStartupDefault
  <2>2. \A p \in prefetched : IsStill(Named(p), p)
    <3> SUFFICES ASSUME NEW p \in prefetched PROVE IsStill(Named(p), p)
      OBVIOUS
    <3>1. CASE Named(p) = p
      BY <1>1, <3>1
    <3>2. CASE Named(p) # p
      <4>1. Named(p) = [p EXCEPT !.key["source"] = DefaultSource] /\ p.key["source"] = None
        BY <3>2
      <4>2. p.key.source = None
        BY <4>1
      <4>3. /\ [p.key EXCEPT !["source"] = DefaultSource] \in Asks
            /\ Meaning([p.key EXCEPT !["source"] = DefaultSource]) = Meaning(p.key)
        BY <1>1, <4>2, NamedSource DEF Entries
      <4>4. Named(p) = [p EXCEPT !.key = [p.key EXCEPT !["source"] = DefaultSource]]
        BY <4>1
      <4> HIDE DEF Named
      <4> QED BY <1>1, <4>3, <4>4 DEF IsStill, Entries
    <3> QED BY <3>1, <3>2
  <2> HIDE DEF Named
  <2>3. \A p \in prefetched : Named(p).fetch = p.fetch
    BY <2>2 DEF IsStill
  <2> QED BY <1>2, <2>1, <2>2, <2>3
<1>4. CASE r.route = "/schemas"
  <2> DEFINE source == Meaning(r).source
             default == IF source \in Sources THEN DefaultSchema[source] ELSE None
             among == [source |-> r.source]
             Named(p) ==
        IF \/ p.kind # "boot" \/ p.key["schema"] # None \/ default = None
           \/ \E name \in DOMAIN among : p.key[name] # among[name]
        THEN p
        ELSE [p EXCEPT !.key["schema"] = default]
  <2>1. Reported(r) = {Named(p) : p \in prefetched}
    BY <1>4 DEF Reported, NameStartupDefault
  <2>2. \A p \in prefetched : IsStill(Named(p), p)
    <3> SUFFICES ASSUME NEW p \in prefetched PROVE IsStill(Named(p), p)
      OBVIOUS
    <3>1. CASE Named(p) = p
      BY <1>1, <3>1
    <3>2. CASE Named(p) # p
      <4>1. /\ Named(p) = [p EXCEPT !.key["schema"] = default]
            /\ p.key["schema"] = None /\ default # None
            /\ p.key["source"] = r.source
        BY <3>2
      <4>2. p.key.schema = None /\ p.key.source = r.source /\ source \in Sources
        BY <4>1
      <4>3. /\ [p.key EXCEPT !["schema"] = default] \in Asks
            /\ Meaning([p.key EXCEPT !["schema"] = default]) = Meaning(p.key)
        <5>1. p.key \in Asks /\ default = DefaultSchema[Meaning(r).source]
          BY <1>1, <4>2 DEF Entries
        <5> QED BY <1>4, <4>1, <4>2, <5>1, NamedSchema
      <4>4. Named(p) = [p EXCEPT !.key = [p.key EXCEPT !["schema"] = default]]
        BY <4>1
      <4> HIDE DEF Named, default
      <4> QED BY <1>1, <4>3, <4>4 DEF IsStill, Entries
    <3> QED BY <3>1, <3>2
  <2> HIDE DEF Named
  <2>3. \A p \in prefetched : Named(p).fetch = p.fetch
    BY <2>2 DEF IsStill
  <2> QED BY <1>2, <2>1, <2>2, <2>3
<1>5. CASE r.route \notin {"/sources", "/schemas"}
  <2>1. Reported(r) = prefetched
    BY <1>5 DEF Reported
  <2> QED BY <1>1, <1>2, <2>1
<1> QED BY <1>3, <1>4, <1>5

-----------------------------------------------------------------------------
(* Steps.                                                                  *)

LEMMA InitKeeps == Init => IInv
<1> SUFFICES ASSUME Init PROVE IInv
  OBVIOUS
<1>1. PICK scope \in Scopes, view \in Views \cup {None} : Init!(scope, view)
  BY DEF Init
<1> DEFINE ahead == StartUp(scope, view)
<1>2. ahead \in Seq(Asks) /\ (Len(ahead) = 3 \/ Len(ahead) = 4) /\ DOMAIN ahead = 1..Len(ahead)
  <2> DEFINE first == <<Ask("/sources", [source |-> None, schema |-> None], None),
                        SourceQuery(scope), ScopeQuery(scope)>>
             rows == IF view = None THEN <<>> ELSE <<TableDataPath(scope, view)>>
  <2>1. /\ Ask("/sources", [source |-> None, schema |-> None], None) \in Asks
        /\ SourceQuery(scope) \in Asks /\ ScopeQuery(scope) \in Asks
        /\ TableDataPath(scope, view) \in Asks
    BY DEF SourceQuery, ScopeQuery, TableDataPath, Ask, Asks, Routes
  <2>2. first \in Seq(Asks) /\ Len(first) = 3
    BY <2>1
  <2>3. rows \in Seq(Asks) /\ (Len(rows) = 0 \/ Len(rows) = 1)
    BY <2>1
  <2>4. ahead = first \o rows
    BY DEF StartUp
  <2> HIDE DEF first, rows, ahead
  <2>5. ahead \in Seq(Asks) /\ Len(ahead) = Len(first) + Len(rows)
    BY <2>2, <2>3, <2>4, ConcatProperties
  <2>6. \A m, n \in Nat : m = 3 /\ (n = 0 \/ n = 1) => m + n = 3 \/ m + n = 4
    OBVIOUS
  <2>7. Len(ahead) = 3 \/ Len(ahead) = 4
    BY <2>2, <2>3, <2>5, <2>6
  <2> QED BY <2>5, <2>7
<1>3. /\ prefetched = {[kind |-> "boot", key |-> ahead[i], expires |-> Never, at |-> 0,
                        fetch |-> [id |-> i, request |-> ahead[i]]] : i \in DOMAIN ahead \ {1}}
      /\ calls = <<Call(ahead[1], [id |-> 1, request |-> ahead[1]], "boot")>>
      /\ sent = Len(ahead) /\ now = 0 /\ refreshed = 0
  BY <1>1
<1> HIDE DEF ahead
<1>4. \A i \in DOMAIN ahead : ahead[i] \in Asks /\ i \in Nat /\ i <= sent
  BY <1>2, <1>3
<1>5. TypeInv
  <2>1. calls \in Seq(Waiting \cup Done)
    BY <1>2, <1>3, <1>4 DEF Call, Waiting, Fetches, Kinds
  <2>2. prefetched \subseteq Entries
    BY <1>3, <1>4 DEF Entries, Fetches
  <2> QED BY <1>2, <1>3, <2>1, <2>2 DEF TypeInv
<1>6. DOMAIN calls = {1} /\ calls[1] = [key |-> ahead[1], ahead |-> "boot",
                                       fetch |-> [id |-> 1, request |-> ahead[1]]]
  BY <1>3 DEF Call
<1>7. ~Ended(calls[1])
  BY <1>6 DEF Ended
<1>8. \A p \in prefetched : p.kind = "boot" /\ p.fetch.id \in DOMAIN ahead \ {1}
                            /\ p.fetch.request = p.key
  BY <1>3
<1>9. SentInv
  BY <1>2, <1>3, <1>4, <1>6, <1>8 DEF SentInv
<1>10. YoungInv /\ NoFailureInv
  BY <1>6, <1>7, <1>8 DEF YoungInv, NoFailureInv
<1>11. StandsForTheSame
  BY <1>6, <1>8 DEF StandsForTheSame
<1>12. UsedOnce
  BY <1>3, <1>6, <1>8 DEF UsedOnce
<1> QED BY <1>5, <1>9, <1>10, <1>11, <1>12 DEF IInv

(* Fewer entries, and calls as they were.                                  *)
LEMMA FewerKeep ==
    ASSUME IInv, prefetched' \subseteq prefetched,
           UNCHANGED <<calls, sent, refreshed>>, now' \in Nat
    PROVE  IInv'
BY DEF IInv, TypeInv, SentInv, YoungInv, NoFailureInv, StandsForTheSame, UsedOnce, Ended

(* A call more: of what was sent now, or of an entry that is taken.        *)
LEMMA ApiKeeps ==
    ASSUME IInv, NEW entries \in SUBSET prefetched, NEW r \in Asks, Api(entries, r),
           UNCHANGED now,
           \/ refreshed' = refreshed
           \/ refreshed' = sent /\ \A p \in entries : p.kind # "view"
    PROVE  IInv' /\ FreshStep
<1> DEFINE good == DropExpired(entries)
           matches == {p \in good : p.key = r}
           n == Len(calls) + 1
<1>1. /\ good \subseteq prefetched /\ \A p \in good : p.expires > now
      /\ \A p \in good : p.kind = "view" => refreshed' = refreshed
  BY DEF DropExpired
<1>2. /\ prefetched \subseteq Entries /\ calls \in Seq(Waiting \cup Done)
      /\ sent \in Nat /\ now \in Nat /\ refreshed \in Nat
  BY DEF IInv, TypeInv
<1>3. PICK fetch \in Fetches, kind \in Kinds :
      /\ calls' = Append(calls, Call(r, fetch, kind))
      /\ prefetched' \subseteq good
      /\ \/ /\ sent' = sent + 1 /\ kind = None
            /\ fetch = Fetch(r)
         \/ /\ sent' = sent
            /\ \E found \in good :
                 /\ prefetched' = good \ {found}
                 /\ found.key = r /\ fetch = found.fetch /\ kind = found.kind
  <2>1. CASE matches = {}
    <3>1. Fetch(r) \in Fetches /\ None \in Kinds
      BY <1>2 DEF Fetch, Fetches, Kinds
    <3> QED BY <2>1, <3>1 DEF Api
  <2>2. CASE \E found \in matches :
             /\ prefetched' = good \ {found}
             /\ sent' = sent
             /\ calls' = Append(calls, Call(r, found.fetch, found.kind))
    <3>1. PICK found \in matches :
             /\ prefetched' = good \ {found}
             /\ sent' = sent
             /\ calls' = Append(calls, Call(r, found.fetch, found.kind))
      BY <2>2
    <3>2. found \in Entries /\ found \in good /\ found.key = r
      BY <1>1, <1>2
    <3>3. found.fetch \in Fetches /\ found.kind \in Kinds
      BY <3>2 DEF Entries, Kinds
    <3> QED BY <3>1, <3>2, <3>3
  <2> QED BY <2>1, <2>2 DEF Api
<1> HIDE DEF good, matches
<1>4. Call(r, fetch, kind) \in Waiting /\ ~Ended(Call(r, fetch, kind))
      /\ Call(r, fetch, kind).key = r /\ Call(r, fetch, kind).fetch = fetch
      /\ Call(r, fetch, kind).ahead = kind
  BY DEF Call, Waiting, Ended
<1>5. /\ calls' \in Seq(Waiting \cup Done) /\ DOMAIN calls' = DOMAIN calls \cup {n}
      /\ n \notin DOMAIN calls /\ calls'[n] = Call(r, fetch, kind)
      /\ \A c \in DOMAIN calls : calls'[c] = calls[c]
  BY <1>2, <1>3, <1>4
<1>6. \A c \in DOMAIN calls : calls[c].fetch.id \in Nat /\ calls[c].fetch.id <= sent
  <2>1. \A c \in DOMAIN calls : calls[c] \in Waiting \cup Done
    BY <1>2
  <2> QED BY <2>1, EndedIsDone DEF IInv, SentInv
<1>7. \A p \in prefetched : p.fetch.id \in Nat /\ p.fetch.id <= sent
  BY <1>2 DEF IInv, SentInv, Entries, Fetches
<1>8. fetch.id \in Nat /\ fetch.id <= sent' /\ sent' \in Nat /\ sent <= sent'
  BY <1>1, <1>2, <1>3, <1>7 DEF Fetch
<1>9. /\ \A c \in DOMAIN calls : calls[c].fetch.id # fetch.id
      /\ \A p \in prefetched' : p.fetch.id # fetch.id
      /\ Meaning(r) = Meaning(fetch.request)
  <2>1. CASE sent' = sent + 1 /\ fetch = Fetch(r)
    BY <1>1, <1>2, <1>3, <1>6, <1>7, <2>1 DEF Fetch
  <2>2. CASE \E found \in good :
                 /\ prefetched' = good \ {found}
                 /\ found.key = r /\ fetch = found.fetch /\ kind = found.kind
    BY <1>1, <2>2 DEF IInv, UsedOnce, StandsForTheSame
  <2> QED BY <1>3, <2>1, <2>2
<1>10. TypeInv'
  BY <1>1, <1>2, <1>3, <1>5, <1>8 DEF TypeInv
<1>11. SentInv'
  <2>1. \A p \in prefetched' : p.fetch.id <= sent'
    BY <1>1, <1>2, <1>3, <1>7, <1>8
  <2>2. \A c \in DOMAIN calls' : calls'[c].fetch.id <= sent'
    BY <1>2, <1>4, <1>5, <1>6, <1>8
  <2>3. refreshed' <= sent'
    BY <1>2, <1>8 DEF IInv, SentInv
  <2> QED BY <2>1, <2>2, <2>3 DEF SentInv
<1>12. YoungInv'
  BY <1>1, <1>3 DEF IInv, YoungInv
<1>13. NoFailureInv'
  BY <1>4, <1>5 DEF IInv, NoFailureInv
<1>14. StandsForTheSame'
  BY <1>1, <1>3, <1>4, <1>5, <1>9 DEF IInv, StandsForTheSame, Meaning
<1>15. UsedOnce'
  BY <1>1, <1>3, <1>4, <1>5, <1>9 DEF IInv, UsedOnce
<1>16. FreshStep
  <2>1. ASSUME kind = "view"
        PROVE  /\ fetch.id > refreshed'
               /\ \A p \in prefetched : p.fetch = fetch => now - p.at < Max(Ttls)
    <3>1. PICK found \in good : found.kind = "view" /\ fetch = found.fetch
      BY <1>3, <2>1, PrefetchAssumption DEF PrefetchAssumption
    <3>2. fetch.id > refreshed'
      BY <1>1, <3>1 DEF IInv, YoungInv
    <3>3. \A p \in prefetched : p.fetch = fetch => p = found
      BY <1>1, <3>1 DEF IInv, UsedOnce
    <3>4. PICK t \in Ttls : found.expires = found.at + t
      BY <1>1, <3>1 DEF IInv, YoungInv
    <3>5. found.at \in Nat /\ found.expires > now
      BY <1>1, <1>2, <3>1 DEF Entries
    <3>6. now - found.at < Max(Ttls)
      BY <1>2, <3>4, <3>5, MaxTtl
    <3> QED BY <3>2, <3>3, <3>6
  <2>2. \A c \in DOMAIN calls' : Ended(calls'[c]) /\ calls'[c].ahead = "view"
                                => calls'[c].end # "failed"
    BY <1>13 DEF NoFailureInv
  <2> QED BY <1>4, <1>5, <2>1, <2>2 DEF FreshStep
<1> QED BY <1>10, <1>11, <1>12, <1>13, <1>14, <1>15, <1>16 DEF IInv

LEMMA AskAheadKeeps ==
    ASSUME IInv, NEW r \in Asks, NEW ttl \in Ttls, AskAhead(r, ttl)
    PROVE  IInv' /\ FreshStep
<1> DEFINE good == DropExpired(prefetched)
           entry == [kind |-> "view", key |-> r, expires |-> now + ttl, at |-> now,
                     fetch |-> Fetch(r)]
<1>1. good \subseteq prefetched /\ calls' = calls /\ now' = now /\ refreshed' = refreshed
  BY DEF DropExpired, AskAhead
<1>2. /\ prefetched \subseteq Entries /\ calls \in Seq(Waiting \cup Done)
      /\ sent \in Nat /\ now \in Nat /\ refreshed \in Nat
  BY DEF IInv, TypeInv
<1>3. FreshStep
  BY <1>1 DEF FreshStep, IInv, NoFailureInv
<1>4. CASE prefetched' = good /\ sent' = sent
  BY <1>1, <1>2, <1>3, <1>4, FewerKeep
<1>5. CASE prefetched' = good \cup {entry} /\ sent' = sent + 1
  <2>1. entry \in Entries /\ entry.fetch.id = sent + 1 /\ entry.key = entry.fetch.request
        /\ entry.expires = entry.at + ttl
    BY <1>2, PrefetchAssumption DEF PrefetchAssumption, Entries, Fetches, Fetch
  <2> HIDE DEF entry, good
  <2>2. \A p \in prefetched : p.fetch.id \in Nat /\ p.fetch.id <= sent
    BY <1>2 DEF IInv, SentInv, Entries, Fetches
  <2>3. \A c \in DOMAIN calls : calls[c].fetch.id \in Nat /\ calls[c].fetch.id <= sent
    <3>1. \A c \in DOMAIN calls : calls[c] \in Waiting \cup Done
      BY <1>2
    <3> QED BY <3>1, EndedIsDone DEF IInv, SentInv
  <2>4. TypeInv'
    BY <1>1, <1>2, <1>5, <2>1 DEF TypeInv
  <2>5. SentInv'
    BY <1>1, <1>2, <1>5, <2>1, <2>2, <2>3 DEF IInv, SentInv
  <2>6. YoungInv'
    BY <1>1, <1>2, <1>5, <2>1 DEF IInv, SentInv, YoungInv
  <2>7. StandsForTheSame' /\ NoFailureInv'
    BY <1>1, <1>5, <2>1 DEF IInv, StandsForTheSame, NoFailureInv, Ended
  <2>8. UsedOnce'
    BY <1>1, <1>2, <1>5, <2>1, <2>2, <2>3 DEF IInv, UsedOnce
  <2> QED BY <1>3, <2>4, <2>5, <2>6, <2>7, <2>8 DEF IInv
<1> QED BY <1>4, <1>5 DEF AskAhead

LEMMA AnswerKeeps ==
    ASSUME IInv, NEW c \in DOMAIN calls, NEW outcome \in Outcomes, Answer(c, outcome)
    PROVE  IInv' /\ FreshStep
<1>1. now' = now /\ refreshed' = refreshed
  BY DEF Answer
<1>2. /\ prefetched \subseteq Entries /\ calls \in Seq(Waiting \cup Done)
      /\ sent \in Nat /\ now \in Nat /\ refreshed \in Nat
  BY DEF IInv, TypeInv
<1>3. \A e \in DOMAIN calls : /\ calls[e] \in Waiting \cup Done
                             /\ calls[e].fetch.id \in Nat /\ calls[e].fetch.id <= sent
  <2>1. \A e \in DOMAIN calls : calls[e] \in Waiting \cup Done
    BY <1>2
  <2> QED BY <2>1, EndedIsDone DEF IInv, SentInv
<1>4. ~Ended(calls[c]) /\ calls[c] \in Waiting
  BY <1>3, EndedIsDone DEF Answer
<1>5. \A p \in prefetched : p \in Entries /\ p.fetch.id \in Nat /\ p.fetch.id <= sent
  BY <1>2 DEF IInv, SentInv, Entries, Fetches
<1>6. NoFailureInv' => FreshStep
  <2>1. DOMAIN calls' = DOMAIN calls
    BY <1>2 DEF Answer
  <2> QED BY <2>1 DEF FreshStep, NoFailureInv
<1>7. CASE AskAgain(c, outcome)
  <2> DEFINE call == [key |-> calls[c].key, fetch |-> Fetch(calls[c].key), ahead |-> None]
  <2>1. /\ sent' = sent + 1 /\ prefetched' = prefetched
        /\ calls' = [calls EXCEPT ![c] = call]
    BY <1>7 DEF Answer, Call
  <2>2. /\ call \in Waiting /\ call.key = calls[c].key /\ call.ahead = None
        /\ call.fetch = Fetch(calls[c].key)
    BY <1>2, <1>4 DEF Waiting, Fetch, Fetches, Kinds
  <2>3. ~Ended(call) /\ call.fetch.id = sent + 1 /\ call.fetch.request = call.key
    BY <2>2, <1>4 DEF Ended, Waiting, Fetch
  <2> HIDE DEF call
  <2>4. /\ DOMAIN calls' = DOMAIN calls /\ calls'[c] = call
        /\ \A e \in DOMAIN calls : e # c => calls'[e] = calls[e]
        /\ calls' \in Seq(Waiting \cup Done)
    BY <1>2, <2>1, <2>2
  <2>5. TypeInv'
    BY <1>1, <1>2, <2>1, <2>4 DEF TypeInv
  <2>6. SentInv'
    BY <1>1, <1>2, <1>3, <1>5, <2>1, <2>3, <2>4 DEF IInv, SentInv
  <2>7. YoungInv'
    BY <1>1, <2>1 DEF IInv, YoungInv
  <2>8. NoFailureInv'
    BY <2>3, <2>4 DEF IInv, NoFailureInv
  <2>9. StandsForTheSame'
    BY <2>1, <2>3, <2>4 DEF IInv, StandsForTheSame
  <2>10. UsedOnce'
    BY <1>2, <1>3, <1>5, <2>1, <2>3, <2>4 DEF IInv, UsedOnce
  <2> QED BY <1>6, <2>5, <2>6, <2>7, <2>8, <2>9, <2>10 DEF IInv
<1>8. CASE ~AskAgain(c, outcome)
  <2> DEFINE call == [fetch |-> [id |-> calls[c].fetch.id], ahead |-> calls[c].ahead,
                      end |-> IF outcome = "failed" THEN outcome ELSE "answered"]
  <2>1. /\ sent' = sent /\ calls' = [calls EXCEPT ![c] = call]
        /\ prefetched' = IF outcome = "ok" THEN Reported(calls[c].key) ELSE prefetched
    BY <1>8 DEF Answer
  <2>2. call \in Done /\ Ended(call) /\ call.fetch.id = calls[c].fetch.id
    BY <1>4 DEF Done, Waiting, Fetches, Ended
  <2>3. ~(call.ahead = "view" /\ call.end = "failed")
    BY <1>8 DEF AskAgain
  <2> HIDE DEF call
  <2>4. /\ DOMAIN calls' = DOMAIN calls /\ calls'[c] = call
        /\ \A e \in DOMAIN calls : e # c => calls'[e] = calls[e]
        /\ calls' \in Seq(Waiting \cup Done)
    BY <1>2, <2>1, <2>2
  <2>5. /\ \A n \in prefetched' : \E p \in prefetched : IsStill(n, p)
        /\ \A m, n \in prefetched' : m.fetch.id = n.fetch.id => m = n
    <3>1. CASE outcome = "ok"
      <4>1. calls[c].key \in Asks
        BY <1>4 DEF Waiting
      <4> QED BY <2>1, <3>1, <4>1, ReportedNames
    <3>2. CASE outcome # "ok"
      BY <1>5, <2>1, <3>2 DEF IsStill, IInv, UsedOnce
    <3> QED BY <3>1, <3>2
  <2>6. TypeInv'
    BY <1>1, <1>2, <2>1, <2>4, <2>5 DEF TypeInv, IsStill
  <2>7. SentInv'
    <3>1. \A n \in prefetched' : n.fetch.id <= sent'
      BY <1>5, <2>1, <2>5 DEF IsStill
    <3>2. \A e \in DOMAIN calls' : calls'[e].fetch.id <= sent'
      BY <1>3, <2>1, <2>2, <2>4
    <3> QED BY <1>1, <2>1, <3>1, <3>2 DEF IInv, SentInv
  <2>8. YoungInv'
    BY <1>1, <2>5 DEF IInv, YoungInv, IsStill
  <2>9. NoFailureInv'
    BY <2>3, <2>4 DEF IInv, NoFailureInv
  <2>10. StandsForTheSame'
    BY <2>2, <2>4, <2>5 DEF IInv, StandsForTheSame, IsStill
  <2>11. UsedOnce'
    <3>1. \A e, f \in DOMAIN calls' : calls'[e].fetch.id = calls'[f].fetch.id => e = f
      BY <2>2, <2>4 DEF IInv, UsedOnce
    <3>2. \A n \in prefetched' : \A e \in DOMAIN calls' : calls'[e].fetch.id # n.fetch.id
      BY <2>2, <2>4, <2>5 DEF IInv, UsedOnce, IsStill
    <3> QED BY <2>5, <3>1, <3>2 DEF UsedOnce
  <2> QED BY <1>6, <2>6, <2>7, <2>8, <2>9, <2>10, <2>11 DEF IInv
<1> QED BY <1>7, <1>8

-----------------------------------------------------------------------------
LEMMA StepKeeps == IInv /\ [Next]_vars => IInv' /\ [FreshStep]_vars
<1> SUFFICES ASSUME IInv, [Next]_vars PROVE IInv' /\ [FreshStep]_vars
  OBVIOUS
<1>1. now \in Nat
  BY DEF IInv, TypeInv
<1>2. ASSUME UNCHANGED calls PROVE FreshStep
  BY <1>2 DEF FreshStep, IInv, NoFailureInv
<1>3. CASE UNCHANGED vars
  BY <1>1, <1>2, <1>3, FewerKeep DEF vars
<1>4. CASE \E r \in Requests : Load(r)
  <2>1. PICK r \in Requests : Load(r)
    BY <1>4
  <2> QED BY <2>1, RequestsAreAsks, ApiKeeps DEF Load
<1>5. CASE \E r \in Requests : Refresh(r)
  <2>1. PICK r \in Requests : Refresh(r)
    BY <1>5
  <2>2. \A p \in prefetched \ OfKind(prefetched, "view") : p.kind # "view"
    BY DEF OfKind
  <2> QED BY <2>1, <2>2, RequestsAreAsks, ApiKeeps DEF Refresh
<1>6. CASE \E r \in Requests, ttl \in Ttls : AskAhead(r, ttl)
  BY <1>6, RequestsAreAsks, AskAheadKeeps
<1>7. CASE \E c \in DOMAIN calls, outcome \in Outcomes : Answer(c, outcome)
  BY <1>7, AnswerKeeps
<1>8. CASE SettleStartUp
  BY <1>1, <1>2, <1>8, FewerKeep DEF SettleStartUp, OfKind
<1>9. CASE Pass
  BY <1>1, <1>2, <1>9, FewerKeep DEF Pass
<1> QED BY <1>3, <1>4, <1>5, <1>6, <1>7, <1>8, <1>9 DEF Next

LEMMA Invariance == Spec => []IInv
<1>1. Init => IInv
  BY InitKeeps
<1>2. IInv /\ [Next]_vars => IInv'
  BY StepKeeps
<1> QED BY <1>1, <1>2, PTL DEF Spec

(* For any sources, default schemas and scopes: an answer asked for ahead  *)
(* stands in only for a request that means the same (api.ts, takePrefetched*)
(* and nameStartupDefault).                                                *)
THEOREM StandInsMeanTheSame == Spec => []StandsForTheSame
<1>1. IInv => StandsForTheSame
  BY DEF IInv
<1> QED BY <1>1, Invariance, PTL

(* No answer goes to two calls, nor to a call and an entry (api.ts).       *)
THEOREM AnswersAreUsedOnce == Spec => []UsedOnce
<1>1. IInv => UsedOnce
  BY DEF IInv
<1> QED BY <1>1, Invariance, PTL

(* Rows asked for ahead are taken young, after the last refresh, and their *)
(* failure ends no call (api.ts; R10 of ui-guidelines.md).                 *)
THEOREM RowsAheadAreFresh == Spec => AheadIsFresh
<1>1. IInv /\ [Next]_vars => [FreshStep]_vars
  BY StepKeeps
<1> QED BY <1>1, Invariance, PTL DEF Spec, AheadIsFresh
=============================================================================
