------------------------------ MODULE Evidence -------------------------------
(***************************************************************************)
(* evidence/engine.py: the claims of one mission and the operations that   *)
(* store them and settle their status. Predicates, subjects and values are *)
(* opaque: a group is a subject with a predicate, a value is in its        *)
(* canonical form.                                                         *)
(*                                                                         *)
(* ingest, reconcile and mark_stale read the claims before their first     *)
(* write takes SQLite's lock, so another writer may commit in between:     *)
(* each is a reading and a writing step. update writes every column of the *)
(* copy it is given. reject and derive read what matters under the lock,   *)
(* or what never changes, and are one step.                                *)
(***************************************************************************)
EXTENDS Integers, FiniteSets, SequencesExt

CONSTANTS Writers,        \* the tasks that use the engine
          Groups,         \* subject and predicate
          Prose,          \* the groups of NON_ATTRIBUTE_PREDICATES
          Sources,        \* base source references
          SourceType,     \* the source_type of each
          Values,         \* canonical values
          Batches,        \* what ingest may be given
          MaxClaims,      \* bound: claims of the mission
          MaxTime,        \* bound: timestamps
          MaxUses         \* bound: operations

ASSUME EvidenceAssumption ==
  /\ Prose \subseteq Groups
  /\ SourceType \in [Sources -> {"WEB", "PHONE", "USER", "FIXTURE", "SIMULATED"}]
  /\ MaxClaims \in Nat /\ MaxTime \in Nat /\ MaxUses \in Nat
  /\ Batches \subseteq
       Seq([group : Groups, source : Sources, value : Values, time : 1 .. MaxTime])

VARIABLES claims,         \* the claims by id, in order of their first write
          issued,         \* ids given to new claims
          op,             \* the operation each writer is in
          uses            \* operations there were

evidenceVars == <<claims, issued, op, uses>>

SIMULATED_TYPES == {"FIXTURE", "SIMULATED"}
PHONE_TYPES == {"PHONE", "SIMULATED"}
WEB_TYPES == {"WEB", "FIXTURE"}
ACTIVE_STATUSES ==
  {"UNKNOWN", "WEB_SUPPORTED", "PHONE_SUPPORTED", "MULTI_SOURCE_SUPPORTED", "CONFLICTED"}
EvidenceStatus == ACTIVE_STATUSES \cup {"STALE", "REJECTED"}

Ids == 1 .. MaxClaims
Nobody == 0
DERIVED == "derived"
NoClaim == [source |-> "none"]
Claim ==
  [group : Groups, source : Sources \cup {DERIVED}, value : Values, time : 1 .. MaxTime,
   status : EvidenceStatus,
   by : Ids \cup {Nobody},        \* superseded_by
   conflicts : SUBSET Ids, derived_from : SUBSET Ids,
   simulated : BOOLEAN]           \* simulated_lineage
Known(rows) == {i \in Ids : rows[i] # NoClaim}

Idle == [kind |-> "idle"]

EvidenceTypeOK ==
  /\ \A i \in Ids :
       claims[i] # NoClaim =>
         /\ claims[i] \in Claim
         /\ claims[i].by \in Known(claims) \cup {Nobody}
         /\ claims[i].conflicts \cup claims[i].derived_from \subseteq Known(claims) \ {i}
  /\ issued \in 0 .. MaxClaims /\ Known(claims) \subseteq 1 .. issued
  /\ \A w \in Writers : op[w].kind \in {"idle", "ingest", "reconcile", "stale"}
  /\ uses \in 0 .. MaxUses

EvidenceInit ==
  /\ claims = [i \in Ids |-> NoClaim]
  /\ issued = 0 /\ uses = 0
  /\ op = [w \in Writers |-> Idle]

-----------------------------------------------------------------------------
(***************************************************************************)
(* reconcile_group: the active attribute claims of a group either          *)
(* disagree, and every one is CONFLICTED with all the others, or agree,    *)
(* and count their independent sources. No claim is of two groups, so      *)
(* several are reconciled in any order.                                    *)
(***************************************************************************)
IsAttribute(c) == c.group \notin Prose /\ c.source # DERIVED

CountedAnywhere(rows, g) ==   \* slip: the predicate is not looked at
  {i \in Known(rows) : IsAttribute(rows[i]) /\ rows[i].status \in ACTIVE_STATUSES}

Counted(rows, g) ==
  {i \in Known(rows) :
    rows[i].group = g /\ IsAttribute(rows[i]) /\ rows[i].status \in ACTIVE_STATUSES}

SingleSourceStatus(source) ==
  CASE SourceType[source] \in PHONE_TYPES -> "PHONE_SUPPORTED"
    [] SourceType[source] \in WEB_TYPES -> "WEB_SUPPORTED"
    [] OTHER -> "UNKNOWN"

IndependentClaims(rows, ids) == Cardinality(ids) >= 2   \* slip: claims are counted, not sources

Independent(rows, ids) == Cardinality({rows[i].source : i \in ids}) >= 2

OthersAndItself(active, i) == active   \* slip: a claim conflicts with itself

Others(active, i) == active \ {i}

Reconciled(rows, i) ==
  LET active == Counted(rows, rows[i].group)
  IN IF Cardinality({rows[j].value : j \in active}) > 1
     THEN [rows[i] EXCEPT !.status = "CONFLICTED", !.conflicts = Others(active, i)]
     ELSE [rows[i] EXCEPT !.conflicts = {},
             !.status = IF Independent(rows, active) THEN "MULTI_SOURCE_SUPPORTED"
                        ELSE SingleSourceStatus(rows[i].source)]

ReconcileGroups(rows, groups) ==
  [i \in Ids |-> IF \E g \in groups : i \in Counted(rows, g) THEN Reconciled(rows, i) ELSE rows[i]]

(***************************************************************************)
(* The claims of a batch, one after the other: the first newer claim of    *)
(* the same source for the same group makes an older one STALE, and it     *)
(* does not count from then on. Ids are in the order of the batch.         *)
(***************************************************************************)
Superseded(c, by) == [c EXCEPT !.status = "STALE", !.by = by, !.conflicts = {}]

Newer(rows, j, new) ==
  {i \in new : /\ j < i /\ j \in Counted(rows, rows[i].group)
                /\ rows[j].source = rows[i].source /\ rows[j].time <= rows[i].time}

AddClaims(known, batch) ==
  LET rows == [i \in Ids |-> IF i \in DOMAIN batch THEN batch[i] ELSE known[i]]
      Added(j) == LET newer == Newer(rows, j, DOMAIN batch)
                  IN IF newer = {} THEN rows[j] ELSE Superseded(rows[j], Min(newer))
  IN [j \in Ids |-> Added(j)]

(***************************************************************************)
(* claims_from_run (calls/service.py) for a call to one recipient: what    *)
(* its structured result states, unless it is not valid, then its summary  *)
(* and evidence, as prose.                                                 *)
(***************************************************************************)
UNKNOWN_VALUE == 0   \* "unknown", in a result

ClaimsFromRun(source, time, result, valid, prose) ==
  LET Fact(g, v) == [group |-> g, source |-> source, value |-> v, time |-> time]
      stated == IF valid THEN {g \in DOMAIN result : result[g] # UNKNOWN_VALUE} ELSE {}
  IN SetToSeq({Fact(g, result[g]) : g \in stated})
       \o SetToSeq({Fact(g, prose[g]) : g \in DOMAIN prose})

Normalized(f) ==
  [group |-> f.group, source |-> f.source, value |-> f.value, time |-> f.time,
   status |-> "UNKNOWN", by |-> Nobody, conflicts |-> {}, derived_from |-> {},
   simulated |-> SourceType[f.source] \in SIMULATED_TYPES]

-----------------------------------------------------------------------------
Use == uses < MaxUses /\ uses' = uses + 1

(* ingest: the claims of the mission are read. *)
Ingest(w, batch) ==
  /\ op[w] = Idle /\ Use /\ issued + Len(batch) <= MaxClaims
  /\ issued' = issued + Len(batch)
  /\ op' = [op EXCEPT ![w] =
       [kind |-> "ingest", rows |-> claims, touched |-> {batch[n].group : n \in DOMAIN batch},
        batch |-> [i \in issued + 1 .. issued + Len(batch) |-> Normalized(batch[i - issued])]]]
  /\ UNCHANGED claims

Reconcile(w, g) ==
  /\ op[w] = Idle /\ Use
  /\ op' = [op EXCEPT ![w] =
       [kind |-> "reconcile", rows |-> claims, touched |-> {g}, batch |-> <<>>]]
  /\ UNCHANGED <<claims, issued>>

(* The rows of the reading step with the batch added and the groups settled. *)
Settling(w) == ReconcileGroups(AddClaims(op[w].rows, op[w].batch), op[w].touched)

WriteSettled(w) ==
  /\ op[w].kind \in {"ingest", "reconcile"}
  /\ LET rows == Settling(w) IN
       claims' = [i \in Ids |-> IF rows[i] # op[w].rows[i] THEN rows[i] ELSE claims[i]]
  /\ op' = [op EXCEPT ![w] = Idle]
  /\ UNCHANGED <<issued, uses>>

(* mark_stale: by age, or everything a named claim replaces. *)
StaleByAge(rows, before) ==
  {i \in UNION {Counted(rows, g) : g \in Groups} : rows[i].time < before}

StaleByClaim(rows, newer) ==
  {i \in Counted(rows, rows[newer].group) :
    /\ i # newer /\ rows[newer].source # DERIVED
    /\ SourceType[rows[i].source] = SourceType[rows[newer].source]
    /\ rows[i].time <= rows[newer].time}

MarkStale(w, ids, by) ==
  /\ op[w] = Idle /\ Use /\ ids # {}
  /\ op' = [op EXCEPT ![w] = [kind |-> "stale", ids |-> ids, by |-> by, rows |-> claims]]
  /\ UNCHANGED <<claims, issued>>

MarkOnly(rows, touched) == rows   \* slip: the touched groups are left as they are

Remark(rows, touched) == ReconcileGroups(rows, touched)

(* The claims are listed again, under the lock, before the groups are settled. *)
WriteStale(w) ==
  /\ op[w].kind = "stale"
  /\ LET marked == [i \in Ids |-> IF i \in op[w].ids THEN Superseded(op[w].rows[i], op[w].by)
                                  ELSE claims[i]]
     IN claims' = Remark(marked, {marked[i].group : i \in op[w].ids})
  /\ op' = [op EXCEPT ![w] = Idle]
  /\ UNCHANGED <<issued, uses>>

Reject(i) ==
  /\ Use
  /\ i \in Known(claims) /\ claims[i].status # "REJECTED"
  /\ claims' = Remark([claims EXCEPT ![i].status = "REJECTED", ![i].conflicts = {}],
                      {claims[i].group})
  /\ UNCHANGED <<issued, op>>

LineageIsSimulated(inputs) == \E i \in inputs : claims[i].simulated

Derive(g, v, inputs) ==
  /\ Use /\ issued < MaxClaims
  /\ inputs \subseteq Known(claims) /\ inputs # {}
  /\ issued' = issued + 1
  /\ claims' = [claims EXCEPT ![issued + 1] =
       [group |-> g, source |-> DERIVED, value |-> v, time |-> MaxTime, status |-> "UNKNOWN",
        by |-> Nobody, conflicts |-> {}, derived_from |-> inputs,
        simulated |-> LineageIsSimulated(inputs)]]
  /\ UNCHANGED op

EvidenceNext ==
  \/ \E w \in Writers :
       \/ \E batch \in Batches : Ingest(w, batch)
       \/ \E g \in Groups : Reconcile(w, g)
       \/ \E t \in 2 .. MaxTime : MarkStale(w, StaleByAge(claims, t), Nobody)
       \/ \E i \in Known(claims) : MarkStale(w, StaleByClaim(claims, i), i)
       \/ WriteSettled(w) \/ WriteStale(w)
  \/ \E i \in Ids : Reject(i)
  \/ \E inputs \in SUBSET Known(claims) : \E i \in inputs :
       Derive(claims[i].group, claims[i].value, inputs)

EvidenceSpec == EvidenceInit /\ [][EvidenceNext]_evidenceVars

-----------------------------------------------------------------------------
(***************************************************************************)
(* trace and conflicts_affecting_decisions: what a reader is told of a     *)
(* group.                                                                  *)
(***************************************************************************)
CurrentStatus(g) ==
  LET active == {i \in Known(claims) :
                  claims[i].group = g /\ claims[i].status \in ACTIVE_STATUSES}
      Later(i, j) == claims[i].time > claims[j].time \/ (claims[i].time = claims[j].time /\ i >= j)
  IN IF active = {} THEN "UNKNOWN"
     ELSE IF \E i \in active : claims[i].status = "CONFLICTED" THEN "CONFLICTED"
     ELSE claims[CHOOSE i \in active : \A j \in active : Later(i, j)].status

Notices == {claims[i].group : i \in {j \in Known(claims) : claims[j].status = "CONFLICTED"}}

(***************************************************************************)
(* What the engine promises of a group: the sources that stand either      *)
(* contradict each other, and then every one of their claims says so and   *)
(* names all the others, or one value stands, as well supported as it has  *)
(* sources; the reader is told of exactly the contradictions there are.    *)
(***************************************************************************)
Settled(g) ==
  LET said == Counted(claims, g)
      disputed == \E i, j \in said : claims[i].value # claims[j].value
  IN /\ \A i \in said :
          /\ (claims[i].status = "CONFLICTED") = disputed
          /\ claims[i].conflicts = IF disputed THEN said \ {i} ELSE {}
          /\ (claims[i].status = "MULTI_SOURCE_SUPPORTED") =
               (~disputed /\ \E j \in said : claims[j].source # claims[i].source)
     /\ (CurrentStatus(g) = "CONFLICTED") = disputed
     /\ (g \in Notices) = disputed

(***************************************************************************)
(* An operation that no other overtook leaves the groups it touched        *)
(* settled, whatever others left there before, and leaves history alone:   *)
(* no STALE or REJECTED claim counts again.                                *)
(***************************************************************************)
Alone(w) == op[w] # Idle /\ op'[w] = Idle /\ op[w].rows = claims
Touched(w) ==
  IF op[w].kind = "stale" THEN {claims[i].group : i \in op[w].ids} ELSE op[w].touched

LoneWriterSettles ==
  [][\A w \in Writers : Alone(w) =>
       /\ \A g \in Touched(w) : Settled(g)'
       /\ \A i \in Known(claims) :
            claims[i].status \in {"STALE", "REJECTED"} => claims'[i] = claims[i]]_evidenceVars

(***************************************************************************)
(* A claim is called corroborated only if another source said the same,    *)
(* even when operations overtook each other.                               *)
(***************************************************************************)
AgreementHasSources ==
  \A i \in Known(claims) : claims[i].status = "MULTI_SOURCE_SUPPORTED" =>
    \E j \in Known(claims) :
      /\ IsAttribute(claims[j]) /\ claims[j].group = claims[i].group
      /\ claims[j].value = claims[i].value /\ claims[j].source # claims[i].source

(***************************************************************************)
(* A claim is called contradicted only if a claim about the same says      *)
(* otherwise, and one of those it names does.                              *)
(***************************************************************************)
ConflictHasOpponent ==
  \A i \in Known(claims) : claims[i].status = "CONFLICTED" =>
    \E j \in claims[i].conflicts :
      claims[j].group = claims[i].group /\ claims[j].value # claims[i].value

==============================================================================
