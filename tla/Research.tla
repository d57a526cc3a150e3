------------------------------ MODULE Research -------------------------------
(***************************************************************************)
(* research/pipeline.py and gaps.py: what the model extracts from the      *)
(* results of a search becomes candidates, a shortlist and the gaps in     *)
(* what is known about it. The module has no state.                        *)
(*                                                                         *)
(* An entity is [source, name, phone, site, attributes, stated]: stated    *)
(* are the claims the model makes explicitly, a value for each of some     *)
(* attribute keys. A value is <<"number", n>> or <<"text", t>>.            *)
(***************************************************************************)
EXTENDS Integers, FiniteSets, SequencesExt

CONSTANTS Keys,           \* attributes decisions depend on
          Sources,        \* the search results
          E164            \* the phones that are written as E.164

Nothing == "none"         \* no phone, no website

Value == {"number"} \X Int \cup {"text"} \X STRING

IsDescription(values) == DOMAIN values \subseteq STRING /\ values \in [DOMAIN values -> Value]

(***************************************************************************)
(* ExtractedEntity.                                                        *)
(***************************************************************************)
IsEntity(e) ==
  /\ e \in [source : STRING, name : STRING, phone : STRING, site : STRING,
            attributes : {e.attributes}, stated : {e.stated}]
  /\ IsDescription(e.attributes) /\ IsDescription(e.stated)

(***************************************************************************)
(* _claims_for: what is stated, and every attribute it does not speak of.  *)
(***************************************************************************)
ClaimsOf(entity) ==
  {[key |-> k, value |-> entity.stated[k], source |-> entity.source] :
     k \in DOMAIN entity.stated}
  \cup {[key |-> k, value |-> entity.attributes[k], source |-> entity.source] :
     k \in DOMAIN entity.attributes \ DOMAIN entity.stated}

(***************************************************************************)
(* _apply_phone: a phone that is not exactly E.164 is kept as raw_phone.   *)
(***************************************************************************)
ExactPhone(entity) == IF entity.phone \in E164 THEN entity.phone ELSE Nothing

Candidate(entity) ==
  [name |-> entity.name, phone |-> ExactPhone(entity), site |-> entity.site,
   attributes |-> entity.attributes, sources |-> {entity.source}, claims |-> ClaimsOf(entity)]

(***************************************************************************)
(* An entity that cites a result outside its batch is left out.            *)
(***************************************************************************)
Normalized(entities) ==
  FoldLeft(LAMBDA kept, e : IF e.source \in Sources THEN Append(kept, Candidate(e)) ELSE kept,
           <<>>, entities)

-----------------------------------------------------------------------------
MatchKeys(c) ==
  {<<"name", c.name>>}
  \cup (IF c.phone # Nothing THEN {<<"phone", c.phone>>} ELSE {})
  \cup (IF c.site # Nothing THEN {<<"url", c.site>>} ELSE {})

Either(a, b) == IF a = Nothing THEN b ELSE a

DropClaims(a, b) ==   \* slip: what the merged one says is dropped
  [a EXCEPT !.sources = @ \cup b.sources, !.phone = IF @ = Nothing THEN b.phone ELSE @]

MergeCandidates(a, b) ==
  [a EXCEPT !.attributes = [k \in DOMAIN a.attributes \cup DOMAIN b.attributes |->
                             IF k \in DOMAIN a.attributes THEN a.attributes[k]
                             ELSE b.attributes[k]],
            !.phone = Either(a.phone, b.phone), !.site = Either(a.site, b.site),
            !.sources = @ \cup b.sources, !.claims = @ \cup b.claims]

HitsByName(acc, c) ==   \* slip: phone and website are not compared
  {acc.index[k] : k \in {<<"name", c.name>>} \cap DOMAIN acc.index}

(***************************************************************************)
(* deduplicate: index says which survivor has a key, the first that had    *)
(* it. The keys are a set of strings, in whatever order it is iterated: if *)
(* they lead to two survivors, pick says to which the candidate goes.      *)
(***************************************************************************)
Hits(acc, c) == {acc.index[k] : k \in MatchKeys(c) \cap DOMAIN acc.index}

Picked(hits, pick) ==
  CHOOSE h \in hits : \A o \in hits : IF pick = "first" THEN h <= o ELSE h >= o

Indexed(index, keys, i) ==   \* setdefault
  [k \in DOMAIN index \cup keys |-> IF k \in DOMAIN index THEN index[k] ELSE i]

Survive(acc, c, pick) ==
  LET hits == Hits(acc, c)
      i == IF hits = {} THEN Len(acc.survivors) + 1 ELSE Picked(hits, pick)
      survivors == IF hits = {} THEN Append(acc.survivors, c)
                   ELSE [acc.survivors EXCEPT ![i] = MergeCandidates(@, c)]
  IN [survivors |-> survivors, index |-> Indexed(acc.index, MatchKeys(survivors[i]), i)]

Deduplicate(candidates, pick) ==
  FoldLeft(LAMBDA acc, c : Survive(acc, c, pick),
           [survivors |-> <<>>, index |-> [k \in {} |-> 0]], candidates).survivors

-----------------------------------------------------------------------------
IsNumber(v) == v[1] = "number"

Compared(operator, a, b) ==
  CASE operator = "LT" -> a < b
    [] operator = "LE" -> a <= b
    [] operator = "GT" -> a > b
    [] operator = "GE" -> a >= b

(***************************************************************************)
(* evaluate_constraint: "holds", "fails" or "unverified". The operators    *)
(* over lists are left out.                                                *)
(***************************************************************************)
EvaluateConstraint(operator, expected, actual) ==
  LET Verdict(holds) == IF holds THEN "holds" ELSE "fails"
  IN CASE operator = "EQ" -> Verdict(actual = expected)
       [] operator = "NE" -> Verdict(actual # expected)
       [] operator = "REQUIRED" -> Verdict(actual # <<"number", 0>>)
       [] OTHER -> IF IsNumber(expected) /\ IsNumber(actual)
                   THEN Verdict(Compared(operator, actual[2], expected[2])) ELSE "unverified"

(***************************************************************************)
(* apply_hard_constraints: slots[s] is a constraint on the key s[1] with   *)
(* the operator s[2]. Only a known value that fails excludes.              *)
(***************************************************************************)
VerdictOn(c, s, slots) ==
  IF s[1] \notin DOMAIN c.attributes THEN "unverified"
  ELSE EvaluateConstraint(s[2], slots[s].value, c.attributes[s[1]])

Excluded(c, slots) == \E s \in DOMAIN slots : VerdictOn(c, s, slots) = "fails"

Shortlist(candidates, slots) == {i \in DOMAIN candidates : ~Excluded(candidates[i], slots)}

(***************************************************************************)
(* classify and identify_gaps: a gap wherever a shortlisted candidate's    *)
(* value of a decision attribute is not known or sources disagree. The     *)
(* claims count; an attribute only if there is none.                       *)
(***************************************************************************)
ValuesClaimed(c, key) == {claim.value : claim \in {k \in c.claims : k.key = key}}

Classify(c, key) ==
  IF Cardinality(ValuesClaimed(c, key)) > 1 THEN "CONFLICTED"
  ELSE IF Cardinality(ValuesClaimed(c, key)) = 1 \/ key \in DOMAIN c.attributes THEN "KNOWN"
  ELSE "UNKNOWN"

IdentifyGaps(candidates, shortlist) ==
  {gap \in shortlist \X Keys : Classify(candidates[gap[1]], gap[2]) # "KNOWN"}
==============================================================================
