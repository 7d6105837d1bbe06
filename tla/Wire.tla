-------------------------------- MODULE Wire --------------------------------
(***************************************************************************)
(* A request on the wire and what it is turned into before any database is *)
(* asked: protocol_wire.rs, the extractors of the adapters, config.rs,     *)
(* siblings.rs and page_encoding.rs.                                       *)
(*                                                                         *)
(* A request is a record [route, source, schema, table, column, filter,    *)
(* limit, offset, sort, order, join, sortJoin, encodings]; a parameter     *)
(* that is absent is None.  A number is an integer, Huge (past 128 bits)   *)
(* or Malformed; a position is a natural number or Malformed.              *)
(***************************************************************************)
EXTENDS Join, Integers

CONSTANTS
    Huge,
    MaxU32, DefaultPageSize, MaxPageSize, QueryTimeoutSecs,
    Host       \* the host's config: [instance, siblings]

ASSUME LimitsAssumption ==
    /\ MaxU32 \in Nat \ {0}
    /\ {DefaultPageSize, MaxPageSize, QueryTimeoutSecs} \subseteq 0..MaxU32
    /\ MaxPageSize > 0   \* clamp(1, 0) would panic on every page

CatalogTimeoutSecs == 5

(* deserialize_saturating_u32: the number nearest to what was asked for.   *)
Saturating(raw) ==
    CASE raw = None -> Ok(None)
      [] raw \in {Malformed, Huge} -> Err("invalid_parameter")
      [] OTHER -> Ok(IF raw < 0 THEN 0 ELSE IF raw > MaxU32 THEN MaxU32 ELSE raw)

(* What the query extractor takes: the parameters a route needs, numbers.  *)
Required(route) ==
    CASE route \in {"data", "referrers", "structure"} -> {"table"}
      [] route = "values" -> {"table", "column"}
      [] route = "join" -> {"join"}
      [] OTHER -> {}
Extract(r) ==
    IF \/ \E field \in Required(r.route) : r[field] = None
       \/ /\ r.route \in {"data", "join"}
          /\ ~Saturating(r.limit).ok \/ ~Saturating(r.offset).ok
    THEN Err("invalid_parameter")
    ELSE Ok(None)

ClampLimit(limit) ==
    LET wanted == IF limit = None THEN DefaultPageSize ELSE limit
    IN IF wanted < 1 THEN 1 ELSE IF wanted > MaxPageSize THEN MaxPageSize ELSE wanted

IsDescending(order) ==
    CASE order \in {None, "asc"} -> Ok(FALSE)
      [] order = "desc" -> Ok(TRUE)
      [] OTHER -> Err("invalid_parameter")

(* A blank filter and an empty one are no filter.                          *)
FilterOf(raw, allowJoin) ==
    IF raw \in {None, Blank} THEN Ok(None)
    ELSE LET parsed == ParseFilter(raw, allowJoin)
         IN IF parsed.ok /\ parsed.val = <<>> THEN Ok(None) ELSE parsed

Paging(r) ==
    LET offset == Saturating(r.offset).val
    IN [limit |-> ClampLimit(Saturating(r.limit).val),
        offset |-> IF offset = None THEN 0 ELSE offset]

QueryOpts(r) ==
    LET filter == FilterOf(r.filter, FALSE)
        descending == IsDescending(r.order)
    IN AndThen(filter, AndThen(descending,
            Ok([page |-> Paging(r), sort |-> r.sort, descending |-> descending.val,
                timeout |-> QueryTimeoutSecs, filter |-> filter.val])))

JoinRequest(r) ==
    LET spec == ParseJoin(r.join)
        filter == FilterOf(r.filter, TRUE)
        descending == IsDescending(r.order)
    IN AndThen(spec, AndThen(filter, AndThen(descending,
            IF r.sortJoin = Malformed THEN Err("invalid_parameter")
            ELSE Ok([spec |-> spec.val, page |-> Paging(r), sort |-> r.sort,
                     sortJoin |-> r.sortJoin, descending |-> descending.val,
                     timeout |-> QueryTimeoutSecs, filter |-> filter.val]))))

-----------------------------------------------------------------------------
(* Siblings.  An instance is [name, label]; a sibling [name, label, url],  *)
(* label None or a text, url whether its base_url holds an origin.         *)
NoText == ""
ASSUME HostAssumption ==
    /\ {"instance", "siblings"} \subseteq DOMAIN Host
    /\ Host.siblings \in Seq(ToSet(Host.siblings))
    /\ \A i \in DOMAIN Host.siblings : {"name", "label", "url"} \subseteq DOMAIN Host.siblings[i]

HostInstance ==
    IF Host.instance # None /\ NoText \in {Host.instance.name, Host.instance.label}
    THEN None ELSE Host.instance
HostSiblings ==
    [i \in DOMAIN Host.siblings |->
        IF Host.siblings[i].label = NoText THEN [Host.siblings[i] EXCEPT !.label = None]
        ELSE Host.siblings[i]]

(* A warning is [what, about].  The second copy of a name and label is     *)
(* warned of, a third is not again.                                        *)
HostWarnings ==
    LET named(i) == <<HostSiblings[i].name, HostSiblings[i].label>>
        copies(i) == Cardinality({j \in 1..i : named(j) = named(i)})
        of(i) == (IF Host.siblings[i].label = NoText
                  THEN <<<<"empty label", Host.siblings[i].name>>>> ELSE <<>>)
                 \o (IF copies(i) = 2 THEN <<<<"shared", named(i)>>>> ELSE <<>>)
    IN (IF HostInstance # Host.instance THEN <<<<"instance", None>>>> ELSE <<>>)
       \o FlattenSeq([i \in DOMAIN Host.siblings |-> of(i)])

(* mutant: labels are not compared *)
IsNamesake(sibling) == HostInstance # None /\ sibling.name = HostInstance.name

IsInstance(sibling) ==
    /\ HostInstance # None
    /\ sibling.name = HostInstance.name
    /\ sibling.label = HostInstance.label

(* The siblings whose health is asked for.                                 *)
Checked == {i \in DOMAIN HostSiblings : ~IsInstance(HostSiblings[i]) /\ HostSiblings[i].url}

(* outcomes[i] tells whether the health check of sibling i succeeded.      *)
SiblingsResponse(outcomes) ==
    [instance |-> HostInstance,
     siblings |-> [i \in DOMAIN HostSiblings |->
                    [name |-> HostSiblings[i].name, label |-> HostSiblings[i].label,
                     healthy |-> IF i \in Checked THEN outcomes[i]
                                 ELSE IsInstance(HostSiblings[i])]],
     warnings |-> HostWarnings]

-----------------------------------------------------------------------------
(* Accept-Encoding as a sequence of [coding, q]: q counts thousandths, 1000 *)
(* where absent and 0 where it is no number.  -1: not named.               *)

(* mutant: "*" counts though gzip is named *)
AcceptsAnything(encodings) ==
    \E i \in DOMAIN encodings :
        encodings[i].coding \in {"gzip", "x-gzip", "*"} /\ encodings[i].q > 0

AcceptsGzip(encodings) ==
    LET add(qs, entry) ==
            CASE entry.coding \in {"gzip", "x-gzip"} -> [qs EXCEPT !.gzip = entry.q]
              [] entry.coding = "*" -> [qs EXCEPT !.star = entry.q]
              [] OTHER -> qs
        qs == FoldLeft(add, [gzip |-> -1, star |-> -1], encodings)
    IN IF qs.gzip >= 0 THEN qs.gzip > 0 ELSE qs.star > 0

PageEncoding(encodings) == IF AcceptsGzip(encodings) THEN "gzip" ELSE "identity"
=============================================================================
