--------------------------- MODULE EvidenceProofs ----------------------------
(***************************************************************************)
(* Theorems about the evidence engine, for any writers, any sources, any   *)
(* batches and any number of operations that overtake each other.          *)
(*                                                                         *)
(* An operation writes what it made of the rows it read, so the invariant  *)
(* says what such a reading still has to do with the claims: what a claim  *)
(* states never changes, the claims it knew are still known (Read), and a  *)
(* claim it is about to add is nobody else's (Apart). From that, a verdict *)
(* on the rows that were read is one on the claims that are there.         *)
(***************************************************************************)
EXTENDS Evidence, TLAPS, FiniteSetTheorems, WellFoundedInduction

Rows == [Ids -> Claim \cup {NoClaim}]

Fresh ==
  {c \in Claim : c.status = "UNKNOWN" /\ c.by = Nobody /\ c.conflicts = {} /\ c.derived_from = {}}
Batch == UNION {[new -> Fresh] : new \in SUBSET Ids}

Operation ==
  {Idle}
  \cup [kind : {"ingest", "reconcile"}, rows : Rows, touched : SUBSET Groups, batch : Batch]
  \cup [kind : {"stale"}, rows : Rows, ids : SUBSET Ids, by : Ids \cup {Nobody}]

(***************************************************************************)
(* Two versions of a claim state the same; a claim names others that are   *)
(* known.                                                                  *)
(***************************************************************************)
States(c, d) ==
  /\ c.group = d.group /\ c.source = d.source /\ c.value = d.value /\ c.time = d.time

Linked(c, i, known) ==
  /\ c.by \in known \cup {Nobody}
  /\ c.conflicts \cup c.derived_from \subseteq known \ {i}

AllLinked(rows) == \A i \in Known(rows) : Linked(rows[i], i, Known(rows))

Typed ==
  /\ claims \in Rows /\ AllLinked(claims)
  /\ issued \in 0 .. MaxClaims /\ Known(claims) \subseteq 1 .. issued
  /\ uses \in 0 .. MaxUses
  /\ op \in [Writers -> Operation]

(***************************************************************************)
(* What an operation has read is still known and states the same.          *)
(***************************************************************************)
Read(rows, now) ==
  /\ Known(rows) \subseteq Known(now) /\ AllLinked(rows)
  /\ \A i \in Known(rows) : States(now[i], rows[i])

Reading(o, now) ==
  o # Idle =>
    /\ Read(o.rows, now)
    /\ o.kind = "stale" =>
         /\ \A i \in o.ids : i \in Counted(o.rows, o.rows[i].group)
         /\ o.by \in Known(o.rows) \cup {Nobody}

Reads == \A w \in Writers : Reading(op[w], claims)

(***************************************************************************)
(* The claims an operation is about to add.                                *)
(***************************************************************************)
Adding(o) == IF o.kind \in {"ingest", "reconcile"} THEN DOMAIN o.batch ELSE {}

Apart ==
  \A w \in Writers :
    /\ Adding(op[w]) \subseteq (1 .. issued) \ Known(claims)
    /\ \A v \in Writers \ {w} : Adding(op[v]) \cap Adding(op[w]) = {}

EvidenceInd == Typed /\ Reads /\ Apart

(***************************************************************************)
(* The verdict of a claim stands among the rows.                           *)
(***************************************************************************)
Justified(c, i, rows) ==
  /\ c.status = "CONFLICTED" =>
       \E j \in c.conflicts \cap Known(rows) : rows[j].group = c.group /\ rows[j].value # c.value
  /\ c.status = "MULTI_SOURCE_SUPPORTED" =>
       \E j \in Known(rows) :
         /\ IsAttribute(rows[j]) /\ rows[j].group = c.group
         /\ rows[j].value = c.value /\ rows[j].source # c.source

Honest == \A i \in Known(claims) : Justified(claims[i], i, claims)

(***************************************************************************)
(* DERIVED claims and prose are never given a verdict.                     *)
(***************************************************************************)
Unjudged == \A i \in Known(claims) : claims[i].status = "CONFLICTED" => IsAttribute(claims[i])

-----------------------------------------------------------------------------
(***************************************************************************)
(* An id is known when there is a claim.                                   *)
(***************************************************************************)
LEMMA NoClaimIsNone == NoClaim \notin Claim
<1>1. DOMAIN NoClaim = {"source"}
  BY DEF NoClaim
<1>2. \A c \in Claim : "group" \in DOMAIN c
  BY DEF Claim
<1> QED
  BY <1>1, <1>2

(***************************************************************************)
(* What is there is a claim.                                               *)
(***************************************************************************)
LEMMA KnownIsClaim ==
  ASSUME NEW rows \in Rows
  PROVE  /\ \A i \in Ids : i \in Known(rows) <=> rows[i] \in Claim
         /\ Known(rows) \subseteq Ids
BY NoClaimIsNone DEF Rows, Known

(***************************************************************************)
(* More than one value means another one; no more than one, the same.      *)
(***************************************************************************)
LEMMA SeveralMeansAnother ==
  ASSUME NEW S, NEW x \in S, Cardinality(S) > 1
  PROVE  \E y \in S : y # x
<1>1. Cardinality({x}) = 1
  BY FS_Singleton
<1> QED
  BY <1>1

(***************************************************************************)
(* Two different values are more than one.                                 *)
(***************************************************************************)
LEMMA TwoMeansSeveral ==
  ASSUME NEW S, IsFiniteSet(S), NEW x \in S, NEW y \in S, x # y
  PROVE  Cardinality(S) >= 2
<1>1. /\ IsFiniteSet({x}) /\ Cardinality({x}) = 1
  BY FS_Singleton
<1>2. y \notin {x}
  OBVIOUS
<1>3. Cardinality({x} \cup {y}) = 2
  BY <1>1, <1>2, FS_AddElement
<1>4. {x} \cup {y} \in SUBSET S
  OBVIOUS
<1>5. Cardinality({x} \cup {y}) <= Cardinality(S)
  BY <1>4, FS_Subset
<1> QED
  BY <1>3, <1>5, FS_CardinalityType

(***************************************************************************)
(* Ids are finite, and so is every set of them.                            *)
(***************************************************************************)
LEMMA IdsFinite ==
  ASSUME NEW S, S \subseteq Ids
  PROVE  IsFiniteSet(S)
<1>1. IsFiniteSet(1 .. MaxClaims)
  BY EvidenceAssumption, FS_Interval
<1> QED
  BY <1>1, FS_Subset DEF Ids

(***************************************************************************)
(* What finitely many claims say is finite.                                *)
(***************************************************************************)
LEMMA ImageFinite ==
  ASSUME NEW S, IsFiniteSet(S), NEW f, f = [x \in S |-> f[x]]
  PROVE  IsFiniteSet({f[x] : x \in S})
<1>1. f \in Surjection(S, {f[x] : x \in S})
  BY DEF Surjection
<1> QED
  BY <1>1, FS_Surjection

(***************************************************************************)
(* The order of the natural numbers, as a relation that is well founded.   *)
(***************************************************************************)
LEMMA NaturalOrder ==
  \E less : IsWellFoundedOn(less, Nat) /\ \A i, j \in Nat : <<i, j>> \in less <=> i < j
<1>1. \A i, j \in Nat : <<i, j>> \in OpToRel(<, Nat) <=> i < j
  BY DEF OpToRel
<1>2. WITNESS OpToRel(<, Nat)
<1> QED
  BY <1>1, NatLessThanWellFounded, Zenon

(***************************************************************************)
(* Min of a set of ids is its least member.                                *)
(***************************************************************************)
LEMMA SmallestId ==
  ASSUME NEW S, S \subseteq Ids, S # {}
  PROVE  Min(S) \in S /\ \A i \in S : Min(S) =< i
<1>1. S \subseteq Nat
  BY EvidenceAssumption DEF Ids
<1>2. PICK less : IsWellFoundedOn(less, Nat) /\ \A i, j \in Nat : <<i, j>> \in less <=> i < j
  BY NaturalOrder
<1>3. \E i \in S : \A j \in S : <<j, i>> \notin less
  BY <1>1, <1>2, WFMin
<1>4. \E i \in S : \A j \in S : i =< j
  <2>1. PICK i \in S : \A j \in S : <<j, i>> \notin less
    BY <1>3
  <2>2. ASSUME NEW j \in S PROVE ~(j < i)
    BY <1>1, <1>2, <2>1, Zenon
  <2>3. ASSUME NEW j \in S PROVE i =< j
    BY <1>1, <2>2
  <2> QED
    BY <2>3
<1> QED
  BY <1>4, Zenon DEF Min

(***************************************************************************)
(* Reconciling.                                                            *)
(***************************************************************************)
LEMMA SingleTyped ==
  ASSUME NEW s
  PROVE  SingleSourceStatus(s) \in {"PHONE_SUPPORTED", "WEB_SUPPORTED", "UNKNOWN"}
BY DEF SingleSourceStatus

(***************************************************************************)
(* A verdict keeps what a claim states and names only known claims.        *)
(***************************************************************************)
LEMMA ReconciledTyped ==
  ASSUME NEW rows \in Rows, NEW i \in Known(rows), Linked(rows[i], i, Known(rows))
  PROVE  /\ Reconciled(rows, i) \in Claim
         /\ States(Reconciled(rows, i), rows[i])
         /\ Linked(Reconciled(rows, i), i, Known(rows))
         /\ Reconciled(rows, i).status \in ACTIVE_STATUSES
<1> DEFINE c == rows[i]
           active == Counted(rows, rows[i].group)
           status == IF Independent(rows, active) THEN "MULTI_SOURCE_SUPPORTED"
                     ELSE SingleSourceStatus(rows[i].source)
<1>1. c \in Claim /\ active \subseteq Known(rows) /\ Known(rows) \subseteq Ids
  BY KnownIsClaim DEF Counted
<1>2. status \in ACTIVE_STATUSES \ {"CONFLICTED"}
  BY SingleTyped DEF ACTIVE_STATUSES
<1>3. Linked(c, i, Known(rows))
  OBVIOUS
<1> HIDE DEF c, active, status
<1>4. CASE Reconciled(rows, i) = [c EXCEPT !.status = "CONFLICTED", !.conflicts = Others(active, i)]
  <2>1. Others(active, i) \subseteq Known(rows) \ {i}
    BY <1>1 DEF Others
  <2>2. "CONFLICTED" \in EvidenceStatus /\ Others(active, i) \in SUBSET Ids
    BY <1>1, <2>1 DEF EvidenceStatus, ACTIVE_STATUSES
  <2> QED
    <3>1. /\ Reconciled(rows, i) \in Claim /\ States(Reconciled(rows, i), c)
          /\ Reconciled(rows, i).status = "CONFLICTED"
          /\ Reconciled(rows, i).conflicts = Others(active, i)
          /\ Reconciled(rows, i).by = c.by /\ Reconciled(rows, i).derived_from = c.derived_from
      BY <1>1, <1>4, <2>2 DEF Claim, States
    <3>2. Linked(Reconciled(rows, i), i, Known(rows))
      BY <1>3, <2>1, <3>1 DEF Linked
    <3> QED
      BY <3>1, <3>2 DEF ACTIVE_STATUSES, c
<1>5. CASE Reconciled(rows, i) = [c EXCEPT !.conflicts = {}, !.status = status]
  <2>1. status \in EvidenceStatus
    BY <1>2 DEF EvidenceStatus
  <2>2. /\ Reconciled(rows, i) \in Claim /\ States(Reconciled(rows, i), c)
        /\ Reconciled(rows, i).status = status /\ Reconciled(rows, i).conflicts = {}
        /\ Reconciled(rows, i).by = c.by /\ Reconciled(rows, i).derived_from = c.derived_from
    BY <1>1, <1>5, <2>1 DEF Claim, States
  <2>3. Linked(Reconciled(rows, i), i, Known(rows))
    BY <1>3, <2>2 DEF Linked
  <2> QED
    BY <1>2, <2>2, <2>3 DEF c
<1> QED
  BY <1>4, <1>5 DEF Reconciled, c, active, status

(***************************************************************************)
(* The verdict of a claim that counts stands among the rows it was made    *)
(* from.                                                                   *)
(***************************************************************************)
LEMMA ReconciledJustified ==
  ASSUME NEW rows \in Rows, NEW g, NEW i \in Counted(rows, g)
  PROVE  Justified(Reconciled(rows, i), i, rows)
<1> DEFINE active == Counted(rows, g)
           values == {rows[j].value : j \in active}
           sources == {rows[j].source : j \in active}
<1>1. rows[i].group = g /\ rows[i] \in Claim /\ active \subseteq Known(rows) /\ active \subseteq Ids
  BY KnownIsClaim DEF Counted
<1>2. IsFiniteSet(sources) /\ IsFiniteSet(values)
  <2> DEFINE sourceOf == [j \in active |-> rows[j].source]
             valueOf == [j \in active |-> rows[j].value]
  <2>1. IsFiniteSet(active)
    BY <1>1, IdsFinite
  <2>2. IsFiniteSet({sourceOf[j] : j \in active}) /\ IsFiniteSet({valueOf[j] : j \in active})
    BY <2>1, ImageFinite
  <2>3. {sourceOf[j] : j \in active} = sources /\ {valueOf[j] : j \in active} = values
    OBVIOUS
  <2> QED
    BY <2>2, <2>3
<1>3. CASE Cardinality(values) > 1
  <2>1. Reconciled(rows, i) =
          [rows[i] EXCEPT !.status = "CONFLICTED", !.conflicts = Others(active, i)]
    BY <1>1, <1>3 DEF Reconciled
  <2>2. PICK j \in active : rows[j].value # rows[i].value
    <3>1. rows[i].value \in values
      OBVIOUS
    <3> QED
      BY <1>3, <3>1, SeveralMeansAnother
  <2>3. j \in Others(active, i) /\ j \in Known(rows) /\ rows[j].group = g
    BY <1>1, <2>2 DEF Others, Counted
  <2> QED
    BY <1>1, <2>1, <2>2, <2>3 DEF Justified, Claim
<1>4. CASE ~(Cardinality(values) > 1)
  <2> DEFINE status == IF Independent(rows, active) THEN "MULTI_SOURCE_SUPPORTED"
                       ELSE SingleSourceStatus(rows[i].source)
  <2>1. Reconciled(rows, i) = [rows[i] EXCEPT !.conflicts = {}, !.status = status]
    BY <1>1, <1>4 DEF Reconciled
  <2>2. status # "CONFLICTED" /\ (status = "MULTI_SOURCE_SUPPORTED" => Independent(rows, active))
    BY SingleTyped
  <2>3. CASE ~Independent(rows, active)
    <3>1. Reconciled(rows, i).status = status
      BY <1>1, <2>1 DEF Claim
    <3> QED
      BY <2>2, <2>3, <3>1 DEF Justified
  <2>4. CASE Independent(rows, active)
    <3>1. PICK j \in active : rows[j].source # rows[i].source
      <4>1. IsFiniteSet(sources) /\ IsFiniteSet(values)
        BY <1>2
      <4>2. rows[i].source \in sources /\ Cardinality(sources) > 1
        BY <2>4, <4>1, FS_CardinalityType DEF Independent
      <4> QED
        BY <4>2, SeveralMeansAnother
    <3>2. rows[j].value = rows[i].value
      <4>1. IsFiniteSet(values)
        BY <1>2
      <4>2. rows[i].value \in values /\ rows[j].value \in values
        BY <3>1
      <4>3. Cardinality(values) \in Nat
        BY <4>1, FS_CardinalityType
      <4> QED
        <5>1. SUFFICES ASSUME rows[j].value # rows[i].value PROVE FALSE
          OBVIOUS
        <5>2. Cardinality(values) >= 2
          BY <4>1, <4>2, <5>1, TwoMeansSeveral
        <5> QED
          BY <1>4, <4>3, <5>2
    <3>3. j \in Known(rows) /\ IsAttribute(rows[j]) /\ rows[j].group = g
      BY <1>1, <3>1 DEF Counted
    <3>4. /\ Reconciled(rows, i).status = status /\ Reconciled(rows, i).group = g
          /\ Reconciled(rows, i).value = rows[i].value /\ Reconciled(rows, i).source = rows[i].source
      BY <1>1, <2>1 DEF Claim
    <3> QED
      BY <2>2, <3>1, <3>2, <3>3, <3>4 DEF Justified
  <2> QED
    BY <2>3, <2>4
<1> QED
  BY <1>3, <1>4

(***************************************************************************)
(* Reconciling several groups: a claim is left as it is or given a verdict *)
(* that stands among the rows.                                             *)
(***************************************************************************)
LEMMA GroupsReconciled ==
  ASSUME NEW rows \in Rows, AllLinked(rows), NEW groups,
         NEW new, new = ReconcileGroups(rows, groups)
  PROVE  /\ new \in Rows /\ Known(new) = Known(rows) /\ AllLinked(new)
         /\ \A i \in Known(rows) :
              /\ States(new[i], rows[i])
              /\ \/ new[i] = rows[i]
                 \/ /\ Justified(new[i], i, rows) /\ IsAttribute(rows[i])
                    /\ rows[i].status \in ACTIVE_STATUSES /\ new[i].status \in ACTIVE_STATUSES
<1>1. \A i \in Ids : new[i] = IF \E g \in groups : i \in Counted(rows, g)
                             THEN Reconciled(rows, i) ELSE rows[i]
  BY DEF ReconcileGroups
<1>2. new = [i \in Ids |-> new[i]]
  BY DEF ReconcileGroups
<1>3. ASSUME NEW i \in Ids \ Known(rows) PROVE new[i] = NoClaim
  BY <1>1, <1>3 DEF Known, Counted
<1>4. ASSUME NEW i \in Known(rows)
      PROVE  /\ new[i] \in Claim /\ Linked(new[i], i, Known(rows)) /\ States(new[i], rows[i])
             /\ \/ new[i] = rows[i]
                \/ /\ Justified(new[i], i, rows) /\ IsAttribute(rows[i])
                   /\ rows[i].status \in ACTIVE_STATUSES /\ new[i].status \in ACTIVE_STATUSES
  <2>1. i \in Ids /\ rows[i] \in Claim /\ Linked(rows[i], i, Known(rows))
    BY KnownIsClaim DEF AllLinked
  <2>2. CASE \E g \in groups : i \in Counted(rows, g)
    <3>1. PICK g \in groups : i \in Counted(rows, g)
      BY <2>2
    <3>2. new[i] = Reconciled(rows, i)
      BY <1>1, <2>1, <2>2
    <3>3. IsAttribute(rows[i]) /\ rows[i].status \in ACTIVE_STATUSES
      BY <3>1 DEF Counted
    <3> QED
      BY <2>1, <3>1, <3>2, <3>3, ReconciledTyped, ReconciledJustified
  <2>3. CASE ~\E g \in groups : i \in Counted(rows, g)
    BY <1>1, <2>1, <2>3 DEF States
  <2> QED
    BY <2>2, <2>3
<1>5. new \in Rows
  BY <1>2, <1>3, <1>4 DEF Rows
<1>6. Known(new) = Known(rows)
  <2>1. Known(rows) \subseteq Ids /\ Known(new) \subseteq Ids
    BY DEF Known
  <2>2. \A i \in Ids : i \in Known(new) <=> new[i] \in Claim
    BY <1>5, KnownIsClaim
  <2> QED
    BY <1>3, <1>4, <2>1, <2>2, NoClaimIsNone
<1> QED
  BY <1>4, <1>5, <1>6 DEF AllLinked

(***************************************************************************)
(* Adding a batch: a claim is left as it is or STALE.                      *)
(***************************************************************************)
LEMMA SupersededTyped ==
  ASSUME NEW c \in Claim, NEW by \in Ids \cup {Nobody}
  PROVE  /\ Superseded(c, by) \in Claim /\ States(Superseded(c, by), c)
         /\ Superseded(c, by).status = "STALE"
         /\ \A i, known : by \in known \cup {Nobody} /\ Linked(c, i, known) =>
              Linked(Superseded(c, by), i, known)
BY DEF Superseded, Claim, EvidenceStatus, States, Linked

(***************************************************************************)
(* The rows after the batch: no claim is lost or turned into another, and  *)
(* only one that counted becomes STALE.                                    *)
(***************************************************************************)
LEMMA ClaimsAdded ==
  ASSUME NEW known \in Rows, AllLinked(known), NEW batch \in Batch,
         DOMAIN batch \cap Known(known) = {},
         NEW rows, rows = AddClaims(known, batch)
  PROVE  /\ rows \in Rows /\ Known(rows) = Known(known) \cup DOMAIN batch /\ AllLinked(rows)
         /\ \A i \in Known(known) :
              /\ States(rows[i], known[i])
              /\ \/ rows[i] = known[i]
                 \/ /\ rows[i].status = "STALE" /\ IsAttribute(known[i])
                    /\ known[i].status \in ACTIVE_STATUSES
         /\ \A i \in DOMAIN batch : rows[i].status \in {"UNKNOWN", "STALE"}
<1> DEFINE new == DOMAIN batch
           base == [i \in Ids |-> IF i \in new THEN batch[i] ELSE known[i]]
           all == Known(known) \cup new
<1>1. new \subseteq Ids /\ Known(known) \subseteq Ids /\ \A i \in new : batch[i] \in Fresh
  BY KnownIsClaim DEF Batch
<1>2. /\ \A i \in Known(known) : base[i] = known[i] /\ known[i] \in Claim
      /\ \A i \in new : base[i] = batch[i]
      /\ \A i \in Ids \ all : base[i] = NoClaim
  BY <1>1, KnownIsClaim DEF Known
<1>3. \A i \in all : base[i] \in Claim /\ Linked(base[i], i, all)
  <2>1. \A i \in Known(known) : Linked(known[i], i, Known(known))
    BY DEF AllLinked
  <2> QED
    BY <1>1, <1>2, <2>1 DEF Fresh, Linked
<1>4. base \in Rows /\ Known(base) = all
  <2>1. \A i \in Ids : base[i] \in Claim \cup {NoClaim}
    BY <1>2, <1>3
  <2>2. base \in Rows
    BY <2>1 DEF Rows
  <2>3. \A i \in Ids : base[i] # NoClaim <=> i \in all
    BY <1>1, <1>2, <1>3, <2>2, KnownIsClaim DEF Known
  <2> QED
    BY <1>1, <2>2, <2>3 DEF Known
<1>5. \A i \in Ids : rows[i] = IF Newer(base, i, new) = {} THEN base[i]
                              ELSE Superseded(base[i], Min(Newer(base, i, new)))
  BY DEF AddClaims
<1>6. rows = [i \in Ids |-> rows[i]]
  BY DEF AddClaims
<1> HIDE DEF base, all
<1>7. ASSUME NEW i \in Ids
      PROVE  \/ rows[i] = base[i]
             \/ /\ i \in all /\ base[i].status \in ACTIVE_STATUSES /\ IsAttribute(base[i])
                /\ \E by \in new : rows[i] = Superseded(base[i], by)
  <2> DEFINE newer == Newer(base, i, new)
  <2>1. CASE newer = {}
    BY <1>5, <2>1
  <2>2. CASE newer # {}
    <3>1. newer \subseteq new /\ newer \subseteq Ids
      BY <1>1 DEF Newer
    <3>2. Min(newer) \in newer
      BY <2>2, <3>1, SmallestId
    <3>3. rows[i] = Superseded(base[i], Min(newer))
      BY <1>5, <2>2
    <3>4. i \in Counted(base, base[Min(newer)].group)
      BY <3>2 DEF Newer
    <3> QED
      BY <1>4, <3>1, <3>2, <3>3, <3>4 DEF Counted
  <2> QED
    BY <2>1, <2>2
<1>8. ASSUME NEW i \in all
      PROVE  /\ rows[i] \in Claim /\ Linked(rows[i], i, all) /\ States(rows[i], base[i])
             /\ \/ rows[i] = base[i]
                \/ /\ rows[i].status = "STALE" /\ IsAttribute(base[i])
                   /\ base[i].status \in ACTIVE_STATUSES
  <2>1. i \in Ids /\ base[i] \in Claim /\ Linked(base[i], i, all)
    BY <1>1, <1>3 DEF all
  <2>2. CASE rows[i] = base[i]
    BY <2>1, <2>2 DEF States
  <2>3. CASE rows[i] # base[i]
    <3>1. PICK by \in new : rows[i] = Superseded(base[i], by)
      BY <1>7, <2>1, <2>3
    <3>2. by \in Ids /\ by \in all
      BY <1>1 DEF all
    <3> QED
      BY <1>7, <2>1, <2>3, <3>1, <3>2, SupersededTyped
  <2> QED
    BY <2>2, <2>3
<1>9. ASSUME NEW i \in Ids \ all PROVE rows[i] = NoClaim
  BY <1>2, <1>7, <1>9 DEF all
<1>10. rows \in Rows
  BY <1>6, <1>8, <1>9 DEF Rows
<1>11. Known(rows) = all
  BY <1>1, <1>8, <1>9, <1>10, KnownIsClaim DEF all, Known
<1>12. AllLinked(rows)
  BY <1>8, <1>11 DEF AllLinked
<1>13. ASSUME NEW i \in DOMAIN batch PROVE rows[i].status \in {"UNKNOWN", "STALE"}
  <2>1. i \in all /\ base[i].status = "UNKNOWN"
    BY <1>1, <1>2 DEF all, Fresh
  <2> QED
    BY <1>8, <2>1
<1>14. ASSUME NEW i \in Known(known)
       PROVE  /\ States(rows[i], known[i])
              /\ \/ rows[i] = known[i]
                 \/ /\ rows[i].status = "STALE" /\ IsAttribute(known[i])
                    /\ known[i].status \in ACTIVE_STATUSES
  <2>1. i \in all /\ base[i] = known[i]
    BY <1>2 DEF all
  <2> QED
    BY <1>8, <2>1
<1> QED
  BY <1>10, <1>11, <1>12, <1>13, <1>14 DEF all

-----------------------------------------------------------------------------
(***************************************************************************)
(* Claims are only added, and state what they stated.                      *)
(***************************************************************************)
Grows ==
  /\ claims' \in Rows /\ AllLinked(claims')
  /\ Known(claims) \subseteq Known(claims')
  /\ \A i \in Known(claims) : States(claims'[i], claims[i])

(***************************************************************************)
(* What an operation has read is still known and states the same after the *)
(* claims grew.                                                            *)
(***************************************************************************)
LEMMA ReadStays ==
  ASSUME NEW o, Reading(o, claims), Grows
  PROVE  Reading(o, claims')
<1>1. CASE o = Idle
  BY <1>1 DEF Reading
<1>2. CASE o # Idle
  <2>1. Read(o.rows, claims')
    BY <1>2 DEF Reading, Read, Grows, States
  <2> QED
    BY <2>1 DEF Reading
<1> QED
  BY <1>1, <1>2

(***************************************************************************)
(* What a step has to show that begins or ends the operation of one        *)
(* writer, or is one of its own.                                           *)
(***************************************************************************)
LEMMA OperationStep ==
  ASSUME EvidenceInd, Grows, issued' \in issued .. MaxClaims, uses' \in 0 .. MaxUses,
         Known(claims') \subseteq 1 .. issued',
         NEW w \in Writers, NEW o \in Operation, op' = [op EXCEPT ![w] = o],
         Reading(o, claims'),
         Adding(o) \subseteq (1 .. issued') \ Known(claims'),
         \A v \in Writers \ {w} : Adding(op[v]) \cap (Known(claims') \cup Adding(o)) = {}
  PROVE  EvidenceInd'
<1>1. issued \in Nat /\ op \in [Writers -> Operation]
  BY EvidenceAssumption DEF EvidenceInd, Typed
<1>2. op' \in [Writers -> Operation] /\ op'[w] = o /\ \A v \in Writers \ {w} : op'[v] = op[v]
  BY <1>1
<1>3. issued' \in 0 .. MaxClaims /\ issued' >= issued
  BY <1>1
<1>4. Typed'
  BY <1>2, <1>3 DEF Typed, Grows
<1>5. Reads'
  <2>1. ASSUME NEW v \in Writers \ {w} PROVE Reading(op'[v], claims')
    BY <1>2, ReadStays DEF EvidenceInd, Reads
  <2> QED
    BY <1>2, <2>1 DEF Reads
<1>6. Apart'
  <2>1. ASSUME NEW v \in Writers \ {w}
        PROVE  Adding(op'[v]) \subseteq (1 .. issued') \ Known(claims')
    <3>1. Adding(op[v]) \subseteq 1 .. issued /\ Adding(op[v]) \cap Known(claims') = {}
      BY DEF EvidenceInd, Apart
    <3>2. 1 .. issued \subseteq 1 .. issued'
      BY <1>1, <1>3
    <3> QED
      BY <1>2, <3>1, <3>2
  <2>2. ASSUME NEW u \in Writers, NEW v \in Writers \ {u}
        PROVE  Adding(op'[v]) \cap Adding(op'[u]) = {}
    <3>1. Adding(op[v]) \cap Adding(op[u]) = {}
      BY DEF EvidenceInd, Apart
    <3> QED
      BY <1>2, <3>1
  <2> QED
    BY <1>2, <2>1, <2>2 DEF Apart
<1> QED
  BY <1>4, <1>5, <1>6 DEF EvidenceInd

(***************************************************************************)
(* A step that leaves the operations alone, as reject and derive do.       *)
(***************************************************************************)
LEMMA OwnStep ==
  ASSUME EvidenceInd, Grows, issued' \in issued .. MaxClaims, uses' \in 0 .. MaxUses,
         Known(claims') \subseteq 1 .. issued', UNCHANGED op,
         \A v \in Writers : Adding(op[v]) \cap Known(claims') = {}
  PROVE  EvidenceInd'
<1>1. issued \in Nat /\ issued' \in 0 .. MaxClaims /\ issued' >= issued
  BY EvidenceAssumption DEF EvidenceInd, Typed
<1>2. Typed'
  BY <1>1 DEF EvidenceInd, Typed, Grows
<1>3. Reads'
  BY ReadStays DEF EvidenceInd, Reads
<1>4. Apart'
  <2>1. 1 .. issued \subseteq 1 .. issued'
    BY <1>1
  <2> QED
    BY <2>1 DEF EvidenceInd, Apart
<1> QED
  BY <1>2, <1>3, <1>4 DEF EvidenceInd

(***************************************************************************)
(* Being idle is an operation.                                             *)
(***************************************************************************)
LEMMA IdleIsOperation ==
  /\ Idle \in Operation /\ Adding(Idle) = {} /\ \A now : Reading(Idle, now)
BY DEF Operation, Adding, Reading, Idle

(***************************************************************************)
(* The invariant holds before the first operation.                         *)
(***************************************************************************)
LEMMA InitTyped == EvidenceInit => EvidenceInd
<1> SUFFICES ASSUME EvidenceInit PROVE EvidenceInd
  OBVIOUS
<1>1. claims \in Rows /\ Known(claims) = {}
  BY DEF EvidenceInit, Rows, Known
<1>2. \A w \in Writers : op[w] = Idle
  BY DEF EvidenceInit
<1>3. op \in [Writers -> Operation]
  BY IdleIsOperation DEF EvidenceInit
<1>4. Typed
  BY <1>1, <1>3, EvidenceAssumption DEF Typed, EvidenceInit, AllLinked
<1>5. Reads
  BY <1>2, IdleIsOperation DEF Reads
<1>6. Apart
  BY <1>2, IdleIsOperation DEF Apart
<1> QED
  BY <1>4, <1>5, <1>6 DEF EvidenceInd

(***************************************************************************)
(* The readings.                                                           *)
(***************************************************************************)
LEMMA Unwritten ==
  ASSUME EvidenceInd, UNCHANGED claims
  PROVE  /\ Grows /\ Read(claims, claims')
         /\ \A v \in Writers : Adding(op[v]) \cap Known(claims') = {}
BY DEF EvidenceInd, Typed, Apart, Grows, Read, States

(***************************************************************************)
(* Counting an operation stays under the bound.                            *)
(***************************************************************************)
LEMMA Used ==
  ASSUME EvidenceInd, Use
  PROVE  uses' \in 0 .. MaxUses
BY EvidenceAssumption DEF EvidenceInd, Typed, Use

(***************************************************************************)
(* An ingested fact is a claim that nothing has been found out about.      *)
(***************************************************************************)
LEMMA NormalizedFresh ==
  ASSUME NEW f \in [group : Groups, source : Sources, value : Values, time : 1 .. MaxTime]
  PROVE  Normalized(f) \in Fresh
BY DEF Normalized, Fresh, Claim, EvidenceStatus, ACTIVE_STATUSES

(***************************************************************************)
(* Reading for ingest reserves ids nobody else adds.                       *)
(***************************************************************************)
LEMMA IngestStep ==
  ASSUME EvidenceInd, NEW w \in Writers, NEW batch \in Batches, Ingest(w, batch)
  PROVE  EvidenceInd'
<1> DEFINE Fact == [group : Groups, source : Sources, value : Values, time : 1 .. MaxTime]
           new == issued + 1 .. issued + Len(batch)
           added == [i \in new |-> Normalized(batch[i - issued])]
           groups == {batch[n].group : n \in DOMAIN batch}
           o == [kind |-> "ingest", rows |-> claims, touched |-> groups, batch |-> added]
<1>1. batch \in Seq(Fact)
  BY EvidenceAssumption
<1>2. /\ Len(batch) \in Nat /\ DOMAIN batch = 1 .. Len(batch)
      /\ \A n \in 1 .. Len(batch) : batch[n] \in Fact
  <2> HIDE DEF Fact
  <2> QED
    BY <1>1
<1>3. /\ issued' = issued + Len(batch) /\ issued' <= MaxClaims /\ issued \in Nat /\ MaxClaims \in Nat
      /\ issued <= MaxClaims
  BY EvidenceAssumption DEF Ingest, EvidenceInd, Typed
<1>4. groups \in SUBSET Groups
  BY <1>2
<1>5. new \in SUBSET Ids /\ new \subseteq 1 .. issued' /\ \A i \in new : ~(i <= issued)
  BY <1>2, <1>3 DEF Ids
<1>6. added \in [new -> Fresh]
  <2>1. \A i \in new : i - issued \in 1 .. Len(batch)
    BY <1>2, <1>3
  <2> QED
    BY <1>2, <2>1, NormalizedFresh
<1>7. added \in Batch
  BY <1>5, <1>6 DEF Batch
<1>8. op' = [op EXCEPT ![w] = o] /\ Use /\ UNCHANGED claims
  BY DEF Ingest
<1> HIDE DEF new, added, groups
<1>9. o \in Operation /\ Adding(o) = new
  BY <1>4, <1>6, <1>7 DEF EvidenceInd, Typed, Operation, Adding
<1>10. Reading(o, claims')
  BY <1>8, Unwritten DEF Reading
<1>11. Known(claims') \subseteq 1 .. issued /\ \A v \in Writers : Adding(op[v]) \subseteq 1 .. issued
  BY <1>8 DEF EvidenceInd, Typed, Apart
<1>12. /\ new \subseteq (1 .. issued') \ Known(claims') /\ Known(claims') \subseteq 1 .. issued'
       /\ \A v \in Writers : Adding(op[v]) \cap new = {}
  <2>1. \A i \in new : i \notin 1 .. issued
    BY <1>3, <1>5
  <2>2. 1 .. issued \subseteq 1 .. issued'
    BY <1>2, <1>3
  <2> QED
    BY <1>5, <1>11, <2>1, <2>2
<1>13. issued' \in issued .. MaxClaims
  BY <1>2, <1>3
<1> HIDE DEF o
<1> QED
  BY <1>8, <1>9, <1>10, <1>12, <1>13, Unwritten, Used, OperationStep

(***************************************************************************)
(* Reading for reconcile reserves none.                                    *)
(***************************************************************************)
LEMMA ReconcileStep ==
  ASSUME EvidenceInd, NEW w \in Writers, NEW g \in Groups, Reconcile(w, g)
  PROVE  EvidenceInd'
<1> DEFINE o == [kind |-> "reconcile", rows |-> claims, touched |-> {g}, batch |-> <<>>]
<1>1. op' = [op EXCEPT ![w] = o] /\ Use /\ UNCHANGED <<claims, issued>>
  BY DEF Reconcile
<1>2. <<>> \in [{} -> Fresh] /\ DOMAIN <<>> = {}
  OBVIOUS
<1>3. <<>> \in Batch
  BY <1>2 DEF Batch
<1>4. o \in Operation /\ Adding(o) = {}
  BY <1>2, <1>3 DEF EvidenceInd, Typed, Operation, Adding
<1>5. Reading(o, claims')
  BY <1>1, Unwritten DEF Reading
<1>6. issued' \in issued .. MaxClaims /\ Known(claims') \subseteq 1 .. issued'
  BY <1>1, EvidenceAssumption DEF EvidenceInd, Typed
<1> HIDE DEF o
<1> QED
  BY <1>1, <1>4, <1>5, <1>6, Unwritten, Used, OperationStep

(***************************************************************************)
(* Reading for mark_stale keeps claims that counted.                       *)
(***************************************************************************)
LEMMA MarkStaleStep ==
  ASSUME EvidenceInd, NEW w \in Writers, NEW ids, NEW by \in Known(claims) \cup {Nobody},
         \A i \in ids : i \in Counted(claims, claims[i].group), MarkStale(w, ids, by)
  PROVE  EvidenceInd'
<1> DEFINE o == [kind |-> "stale", ids |-> ids, by |-> by, rows |-> claims]
<1>1. op' = [op EXCEPT ![w] = o] /\ Use /\ UNCHANGED <<claims, issued>>
  BY DEF MarkStale
<1>2. ids \subseteq Ids /\ by \in Ids \cup {Nobody}
  BY DEF Counted, Known
<1>3. o \in Operation /\ Adding(o) = {}
  BY <1>2 DEF EvidenceInd, Typed, Operation, Adding
<1>4. Reading(o, claims')
  BY <1>1, Unwritten DEF Reading
<1>5. issued' \in issued .. MaxClaims /\ Known(claims') \subseteq 1 .. issued'
  BY <1>1, EvidenceAssumption DEF EvidenceInd, Typed
<1> HIDE DEF o
<1> QED
  BY <1>1, <1>3, <1>4, <1>5, Unwritten, Used, OperationStep

(***************************************************************************)
(* mark_stale is given claims that count.                                  *)
(***************************************************************************)
LEMMA StaleIds ==
  /\ \A before : \A i \in StaleByAge(claims, before) : i \in Counted(claims, claims[i].group)
  /\ \A n : \A i \in StaleByClaim(claims, n) : i \in Counted(claims, claims[i].group)
BY DEF StaleByAge, StaleByClaim, Counted

-----------------------------------------------------------------------------
(***************************************************************************)
(* What a write does to a claim: nothing, or it is new, STALE or REJECTED, *)
(* or it is given a verdict that stands among the rows it was reached on,  *)
(* and these are known and state the same.                                 *)
(***************************************************************************)
Verdicts(mid) ==
  /\ Known(mid) \subseteq Known(claims')
  /\ \A j \in Known(mid) : States(claims'[j], mid[j])
  /\ \A i \in Known(claims') :
       \/ i \in Known(claims) /\ claims'[i] = claims[i]
       \/ claims'[i].status \in {"UNKNOWN", "STALE", "REJECTED"}
       \/ Justified(claims'[i], i, mid) /\ IsAttribute(claims'[i])

(***************************************************************************)
(* Stating the same is transitive and symmetric.                           *)
(***************************************************************************)
LEMMA StatesTransitive ==
  ASSUME NEW a, NEW b, NEW c, States(a, b), States(b, c)
  PROVE  States(a, c) /\ States(b, a) /\ (IsAttribute(a) <=> IsAttribute(b))
BY DEF States, IsAttribute

(***************************************************************************)
(* The write of ingest and of reconcile: what it writes over newer rows    *)
(* states the same, and its verdicts stand among the rows it made.         *)
(***************************************************************************)
LEMMA SettledWritten ==
  ASSUME EvidenceInd, NEW w \in Writers, WriteSettled(w)
  PROVE  /\ Grows /\ Known(claims') = Known(claims) \cup Adding(op[w])
         /\ \E mid : Verdicts(mid)
<1> DEFINE known == op[w].rows
           batch == op[w].batch
           mid == AddClaims(known, batch)
           rows == ReconcileGroups(mid, op[w].touched)
           new == DOMAIN batch
<1>1. /\ op[w].kind \in {"ingest", "reconcile"} /\ Reading(op[w], claims) /\ claims \in Rows
      /\ AllLinked(claims) /\ op[w] \in Operation
  BY DEF WriteSettled, EvidenceInd, Reads, Typed
<1>2. op[w] # Idle /\ known \in Rows /\ batch \in Batch /\ Adding(op[w]) = new
  BY <1>1 DEF Operation, Idle, Adding
<1>3. Read(known, claims) /\ AllLinked(known)
  BY <1>1, <1>2 DEF Reading, Read
<1>4. new \cap Known(claims) = {} /\ new \cap Known(known) = {}
  BY <1>2, <1>3 DEF EvidenceInd, Apart, Read
<1>5. claims' = [i \in Ids |-> IF rows[i] # known[i] THEN rows[i] ELSE claims[i]]
  BY DEF WriteSettled, Settling
<1> HIDE DEF known, batch, mid, rows
<1>6. /\ mid \in Rows /\ Known(mid) = Known(known) \cup new /\ AllLinked(mid)
      /\ \A i \in Known(known) :
           /\ States(mid[i], known[i])
           /\ \/ mid[i] = known[i]
              \/ /\ mid[i].status = "STALE" /\ IsAttribute(known[i])
                 /\ known[i].status \in ACTIVE_STATUSES
      /\ \A i \in new : mid[i].status \in {"UNKNOWN", "STALE"}
  BY <1>2, <1>3, <1>4, ClaimsAdded DEF mid
<1>7. /\ rows \in Rows /\ Known(rows) = Known(mid) /\ AllLinked(rows)
      /\ \A i \in Known(mid) :
           /\ States(rows[i], mid[i])
           /\ \/ rows[i] = mid[i]
              \/ Justified(rows[i], i, mid) /\ IsAttribute(mid[i])
  BY <1>6, GroupsReconciled DEF rows
<1>8. Known(claims) \subseteq Ids /\ Known(mid) \subseteq Ids
  BY DEF Known
<1>9. ASSUME NEW i \in Ids
      PROVE  \/ claims'[i] = claims[i] /\ (i \in Known(mid) => i \in Known(known))
             \/ claims'[i] = rows[i] /\ i \in Known(mid)
                /\ (i \in Known(known) => rows[i] # known[i])
  <2>1. CASE rows[i] = known[i]
    BY <1>2, <1>5, <1>6, <1>7, <2>1 DEF Known
  <2>2. CASE rows[i] # known[i]
    <3>1. claims'[i] = rows[i]
      BY <1>5, <2>2
    <3>2. rows[i] # NoClaim \/ known[i] # NoClaim
      BY <2>2
    <3> QED
      BY <1>6, <1>7, <2>2, <3>1, <3>2 DEF Known
  <2> QED
    BY <2>1, <2>2
<1>10. \A i \in Known(mid) : rows[i] \in Claim /\ Linked(rows[i], i, Known(mid))
  BY <1>7, KnownIsClaim DEF AllLinked
<1>11. \A i \in Known(claims) : claims[i] \in Claim /\ Linked(claims[i], i, Known(claims))
  BY <1>1, KnownIsClaim DEF AllLinked
<1>12. claims' \in Rows
  BY <1>1, <1>5, <1>7 DEF Rows
<1>13. Known(known) \subseteq Known(claims)
  BY <1>3 DEF Read
<1>14. Known(claims') = Known(claims) \cup new
  <2>1. ASSUME NEW i \in Ids PROVE i \in Known(claims') <=> i \in Known(claims) \cup new
    <3>1. i \in Known(claims') <=> claims'[i] \in Claim
      BY <1>12, KnownIsClaim
    <3>2. i \in Known(claims) <=> claims[i] \in Claim
      BY <1>1, KnownIsClaim
    <3> QED
      BY <1>6, <1>9, <1>10, <1>13, <3>1, <3>2
  <2>2. Known(claims') \subseteq Ids
    BY DEF Known
  <2> QED
    BY <1>6, <1>8, <2>1, <2>2
<1>15. \A i \in Known(mid) : States(claims'[i], mid[i])
  <2> SUFFICES ASSUME NEW i \in Known(mid) PROVE States(claims'[i], mid[i])
    OBVIOUS
  <2>1. i \in Ids /\ States(rows[i], mid[i])
    BY <1>7, <1>8
  <2>2. CASE i \in Known(known) /\ claims'[i] = claims[i]
    <3>1. States(claims[i], known[i]) /\ States(mid[i], known[i])
      BY <1>3, <1>6, <2>2 DEF Read
    <3> QED
      BY <2>2, <3>1 DEF States
  <2> QED
    BY <1>9, <2>1, <2>2
<1>16. \A i \in Known(claims) : States(claims'[i], claims[i])
  <2> SUFFICES ASSUME NEW i \in Known(claims) PROVE States(claims'[i], claims[i])
    OBVIOUS
  <2>1. i \in Ids /\ i \notin new
    BY <1>4, <1>8
  <2>2. CASE claims'[i] = claims[i]
    BY <2>2 DEF States
  <2>3. CASE claims'[i] # claims[i]
    <3>1. i \in Known(mid) /\ i \in Known(known)
      BY <1>6, <1>9, <2>1, <2>3
    <3>2. States(claims[i], known[i]) /\ States(mid[i], known[i]) /\ States(claims'[i], mid[i])
      BY <1>3, <1>6, <1>15, <3>1 DEF Read
    <3> QED
      BY <3>2 DEF States
  <2> QED
    BY <2>2, <2>3
<1>17. AllLinked(claims')
  BY <1>6, <1>8, <1>9, <1>10, <1>11, <1>13, <1>14 DEF AllLinked, Linked
<1>18. ASSUME NEW i \in Known(claims')
       PROVE  \/ i \in Known(claims) /\ claims'[i] = claims[i]
              \/ claims'[i].status \in {"UNKNOWN", "STALE", "REJECTED"}
              \/ Justified(claims'[i], i, mid) /\ IsAttribute(claims'[i])
  <2>1. i \in Ids
    BY DEF Known
  <2>2. CASE claims'[i] = claims[i]
    BY <1>6, <1>9, <1>14, <2>1, <2>2, <1>12, <1>1, KnownIsClaim
  <2>3. CASE claims'[i] # claims[i]
    <3>1. claims'[i] = rows[i] /\ i \in Known(mid) /\ (i \in Known(known) => rows[i] # known[i])
      BY <1>9, <2>1, <2>3
    <3>2. CASE rows[i] = mid[i]
      BY <1>6, <3>1, <3>2
    <3>3. CASE rows[i] # mid[i]
      BY <1>7, <1>15, <3>1, <3>3 DEF States, IsAttribute
    <3> QED
      BY <3>2, <3>3
  <2> QED
    BY <2>2, <2>3
<1>19. Verdicts(mid)
  BY <1>6, <1>13, <1>14, <1>15, <1>18 DEF Verdicts
<1>20. Grows
  BY <1>12, <1>14, <1>16, <1>17 DEF Grows
<1> QED
  BY <1>2, <1>14, <1>19, <1>20

(***************************************************************************)
(* Settling groups of the claims as they are under the lock.               *)
(***************************************************************************)
LEMMA RemarkWritten ==
  ASSUME claims \in Rows, NEW marked \in Rows, AllLinked(marked), Known(marked) = Known(claims),
         \A i \in Known(claims) :
           /\ States(marked[i], claims[i])
           /\ marked[i] = claims[i] \/ marked[i].status \in {"STALE", "REJECTED"},
         NEW groups, claims' = Remark(marked, groups)
  PROVE  Grows /\ Known(claims') = Known(claims) /\ \E mid : Verdicts(mid)
<1>1. /\ claims' \in Rows /\ Known(claims') = Known(marked) /\ AllLinked(claims')
      /\ \A i \in Known(marked) :
           /\ States(claims'[i], marked[i])
           /\ \/ claims'[i] = marked[i]
              \/ Justified(claims'[i], i, marked) /\ IsAttribute(marked[i])
  BY GroupsReconciled DEF Remark
<1>2. Grows
  BY <1>1 DEF Grows, States
<1>3. Verdicts(marked)
  BY <1>1 DEF Verdicts, States, IsAttribute
<1> QED
  BY <1>1, <1>2, <1>3

(***************************************************************************)
(* The write of mark_stale.                                                *)
(***************************************************************************)
LEMMA StaleWritten ==
  ASSUME EvidenceInd, NEW w \in Writers, WriteStale(w)
  PROVE  Grows /\ Known(claims') = Known(claims) /\ \E mid : Verdicts(mid)
<1> DEFINE read == op[w].rows
           ids == op[w].ids
           by == op[w].by
           marked == [i \in Ids |-> IF i \in ids THEN Superseded(read[i], by) ELSE claims[i]]
<1>1. /\ op[w].kind = "stale" /\ Reading(op[w], claims) /\ claims \in Rows /\ AllLinked(claims)
      /\ op[w] \in Operation
  BY DEF WriteStale, EvidenceInd, Reads, Typed
<1>2. op[w] # Idle /\ read \in Rows /\ by \in Ids \cup {Nobody}
  BY <1>1 DEF Operation, Idle
<1>3. /\ Read(read, claims) /\ by \in Known(read) \cup {Nobody}
      /\ \A i \in ids : i \in Counted(read, read[i].group)
  BY <1>1, <1>2 DEF Reading
<1>4. claims' = Remark(marked, {marked[i].group : i \in ids})
  BY DEF WriteStale
<1>5. marked = [i \in Ids |-> marked[i]]
  OBVIOUS
<1>6. \A i \in Ids : marked[i] = IF i \in ids THEN Superseded(read[i], by) ELSE claims[i]
  OBVIOUS
<1> HIDE DEF read, ids, by, marked
<1>7. /\ ids \subseteq Known(read) /\ Known(read) \subseteq Known(claims)
      /\ \A i \in Known(read) : States(claims[i], read[i]) /\ Linked(read[i], i, Known(read))
  BY <1>3 DEF Read, Counted, AllLinked
<1>8. Known(claims) \subseteq Ids
  BY DEF Known
<1>9. ASSUME NEW i \in Known(claims)
      PROVE  /\ marked[i] \in Claim /\ Linked(marked[i], i, Known(claims))
             /\ States(marked[i], claims[i])
             /\ marked[i] = claims[i] \/ marked[i].status \in {"STALE", "REJECTED"}
  <2>1. CASE i \in ids
    <3>1. read[i] \in Claim /\ States(claims[i], read[i]) /\ Linked(read[i], i, Known(read))
      BY <1>2, <1>7, <2>1, KnownIsClaim
    <3>2. marked[i] = Superseded(read[i], by)
      BY <1>6, <1>8, <2>1
    <3>3. /\ marked[i] \in Claim /\ States(marked[i], read[i]) /\ marked[i].status = "STALE"
          /\ Linked(marked[i], i, Known(read))
      BY <1>2, <1>3, <3>1, <3>2, SupersededTyped
    <3> QED
      BY <1>7, <3>1, <3>3 DEF States, Linked
  <2>2. CASE i \notin ids
    <3>1. marked[i] = claims[i]
      BY <1>6, <1>8, <2>2
    <3> QED
      BY <1>1, <3>1, KnownIsClaim DEF AllLinked, States
  <2> QED
    BY <2>1, <2>2
<1>10. ASSUME NEW i \in Ids \ Known(claims) PROVE marked[i] = NoClaim
  BY <1>6, <1>7, <1>10 DEF Known
<1>11. marked \in Rows
  BY <1>5, <1>9, <1>10 DEF Rows
<1>12. Known(marked) = Known(claims)
  BY <1>8, <1>9, <1>10, NoClaimIsNone DEF Known
<1>13. AllLinked(marked)
  BY <1>9, <1>12 DEF AllLinked
<1> QED
  BY <1>1, <1>4, <1>9, <1>11, <1>12, <1>13, RemarkWritten

(***************************************************************************)
(* reject.                                                                 *)
(***************************************************************************)
LEMMA RejectWritten ==
  ASSUME EvidenceInd, NEW i \in Ids, Reject(i)
  PROVE  Grows /\ Known(claims') = Known(claims) /\ \E mid : Verdicts(mid)
<1> DEFINE row == [claims[i] EXCEPT !.status = "REJECTED", !.conflicts = {}]
           marked == [claims EXCEPT ![i] = row]
<1>1. claims \in Rows /\ AllLinked(claims) /\ i \in Known(claims) /\ claims[i] \in Claim
  BY KnownIsClaim DEF Reject, EvidenceInd, Typed
<1>2. claims' = Remark(marked, {claims[i].group})
  <2>1. [claims EXCEPT ![i].status = "REJECTED", ![i].conflicts = {}] = marked
    BY <1>1 DEF Rows, Claim
  <2> QED
    BY <2>1 DEF Reject
<1>3. /\ row \in Claim /\ States(row, claims[i]) /\ row.status = "REJECTED"
      /\ Linked(row, i, Known(claims))
  BY <1>1 DEF Claim, EvidenceStatus, States, Linked, AllLinked
<1> HIDE DEF row
<1>4. marked \in Rows /\ marked[i] = row /\ \A j \in Ids \ {i} : marked[j] = claims[j]
  BY <1>1, <1>3 DEF Rows
<1> HIDE DEF marked
<1>5. Known(marked) = Known(claims)
  BY <1>1, <1>3, <1>4, NoClaimIsNone DEF Known
<1>6. ASSUME NEW j \in Known(claims)
      PROVE  /\ States(marked[j], claims[j]) /\ Linked(marked[j], j, Known(claims))
             /\ marked[j] = claims[j] \/ marked[j].status \in {"STALE", "REJECTED"}
  BY <1>1, <1>3, <1>4 DEF States, AllLinked, Known
<1>7. AllLinked(marked)
  BY <1>5, <1>6 DEF AllLinked
<1> QED
  BY <1>1, <1>2, <1>4, <1>5, <1>6, <1>7, RemarkWritten

(***************************************************************************)
(* derive adds one claim.                                                  *)
(***************************************************************************)
LEMMA DeriveWritten ==
  ASSUME EvidenceInd, NEW inputs \in SUBSET Known(claims), NEW k \in inputs,
         Derive(claims[k].group, claims[k].value, inputs)
  PROVE  /\ Grows /\ Known(claims') = Known(claims) \cup {issued + 1}
         /\ issued + 1 \in Ids /\ \E mid : Verdicts(mid)
<1> DEFINE n == issued + 1
           row == [group |-> claims[k].group, source |-> DERIVED, value |-> claims[k].value,
                   time |-> MaxTime, status |-> "UNKNOWN", by |-> Nobody, conflicts |-> {},
                   derived_from |-> inputs, simulated |-> LineageIsSimulated(inputs)]
<1>1. /\ claims \in Rows /\ AllLinked(claims) /\ Known(claims) \subseteq 1 .. issued
      /\ Known(claims) \subseteq Ids
  BY KnownIsClaim DEF EvidenceInd, Typed
<1>2. issued \in Nat /\ issued < MaxClaims /\ MaxClaims \in Nat /\ MaxTime \in Nat
  BY EvidenceAssumption DEF EvidenceInd, Typed, Derive
<1>3. n \in Ids /\ n \notin Known(claims)
  BY <1>1, <1>2 DEF Ids
<1>4. claims[k] \in Claim /\ k \in Ids
  BY <1>1, KnownIsClaim
<1>5. MaxTime \in 1 .. MaxTime
  BY <1>2, <1>4 DEF Claim
<1>6. LineageIsSimulated(inputs) \in BOOLEAN
  BY DEF LineageIsSimulated
<1>7. row \in Claim /\ Linked(row, n, Known(claims)) /\ row.status = "UNKNOWN"
  BY <1>1, <1>3, <1>4, <1>5, <1>6 DEF Claim, EvidenceStatus, ACTIVE_STATUSES, Linked
<1>8. claims' = [claims EXCEPT ![n] = row]
  BY DEF Derive
<1> HIDE DEF row, n
<1>9. claims' \in Rows /\ claims'[n] = row /\ \A j \in Ids \ {n} : claims'[j] = claims[j]
  BY <1>1, <1>3, <1>7, <1>8 DEF Rows
<1>10. Known(claims') = Known(claims) \cup {n}
  BY <1>3, <1>7, <1>9, NoClaimIsNone DEF Known
<1>11. \A j \in Known(claims) : claims'[j] = claims[j] /\ States(claims'[j], claims[j])
  BY <1>1, <1>3, <1>9 DEF States
<1>12. AllLinked(claims')
  BY <1>1, <1>7, <1>9, <1>10, <1>11 DEF AllLinked, Linked
<1>13. Grows
  BY <1>9, <1>10, <1>11, <1>12 DEF Grows
<1>14. Verdicts(claims)
  BY <1>7, <1>9, <1>10, <1>11 DEF Verdicts
<1> QED
  BY <1>3, <1>10, <1>13, <1>14 DEF n

-----------------------------------------------------------------------------
(***************************************************************************)
(* Writing ends the operation, or is one of its own.                       *)
(***************************************************************************)
Writes ==
  \/ \E w \in Writers : WriteSettled(w) \/ WriteStale(w)
  \/ \E i \in Ids : Reject(i)
  \/ \E inputs \in SUBSET Known(claims) : \E i \in inputs :
       Derive(claims[i].group, claims[i].value, inputs)

(***************************************************************************)
(* Every write keeps the claims and justifies the verdicts it gives.       *)
(***************************************************************************)
LEMMA WritesGrow ==
  ASSUME EvidenceInd, Writes
  PROVE  Grows /\ \E mid : Verdicts(mid)
BY SettledWritten, StaleWritten, RejectWritten, DeriveWritten DEF Writes

(***************************************************************************)
(* Every write keeps the invariant.                                        *)
(***************************************************************************)
LEMMA WritesTyped ==
  ASSUME EvidenceInd, Writes
  PROVE  EvidenceInd'
<1>1. /\ issued \in 0 .. MaxClaims /\ uses \in 0 .. MaxUses /\ Known(claims) \subseteq 1 .. issued
      /\ MaxClaims \in Nat
  BY EvidenceAssumption DEF EvidenceInd, Typed
<1>2. \A v \in Writers : Adding(op[v]) \subseteq 1 .. issued /\ Adding(op[v]) \cap Known(claims) = {}
  BY DEF EvidenceInd, Apart
<1>3. ASSUME NEW w \in Writers, WriteSettled(w) \/ WriteStale(w) PROVE EvidenceInd'
  <2>1. /\ Grows /\ Known(claims') \subseteq Known(claims) \cup Adding(op[w])
        /\ op' = [op EXCEPT ![w] = Idle] /\ UNCHANGED <<issued, uses>>
    <3>1. CASE WriteSettled(w)
      BY <3>1, SettledWritten DEF WriteSettled
    <3>2. CASE WriteStale(w)
      BY <3>2, StaleWritten DEF WriteStale
    <3> QED
      BY <1>3, <3>1, <3>2
  <2>2. Known(claims') \subseteq 1 .. issued' /\ issued' \in issued .. MaxClaims
    BY <1>1, <1>2, <2>1
  <2>3. \A v \in Writers \ {w} : Adding(op[v]) \cap Known(claims') = {}
    BY <1>2, <2>1 DEF EvidenceInd, Apart
  <2> QED
    BY <1>1, <2>1, <2>2, <2>3, IdleIsOperation, OperationStep
<1>4. ASSUME NEW i \in Ids, Reject(i) PROVE EvidenceInd'
  <2>1. Grows /\ Known(claims') = Known(claims) /\ UNCHANGED <<issued, op>> /\ Use
    BY <1>4, RejectWritten DEF Reject
  <2>2. issued' \in issued .. MaxClaims
    BY <1>1, <2>1
  <2> QED
    BY <1>1, <1>2, <2>1, <2>2, Used, OwnStep
<1>5. ASSUME NEW inputs \in SUBSET Known(claims), NEW i \in inputs,
             Derive(claims[i].group, claims[i].value, inputs)
      PROVE  EvidenceInd'
  <2>1. /\ Grows /\ Known(claims') = Known(claims) \cup {issued + 1} /\ issued + 1 \in Ids
        /\ issued' = issued + 1 /\ UNCHANGED op /\ Use
    BY <1>5, DeriveWritten DEF Derive
  <2>2. issued' \in issued .. MaxClaims /\ Known(claims') \subseteq 1 .. issued'
    BY <1>1, <2>1 DEF Ids
  <2>3. issued + 1 \notin 1 .. issued
    BY <1>1
  <2>4. \A v \in Writers : Adding(op[v]) \cap Known(claims') = {}
    BY <1>2, <2>1, <2>3
  <2> QED
    BY <2>1, <2>2, <2>4, Used, OwnStep
<1> QED
  BY <1>3, <1>4, <1>5 DEF Writes

(***************************************************************************)
(* Every step writes, or leaves the claims as they are.                    *)
(***************************************************************************)
LEMMA TypedStep ==
  ASSUME EvidenceInd, [EvidenceNext]_evidenceVars
  PROVE  EvidenceInd' /\ (UNCHANGED claims \/ Writes)
<1>1. CASE Writes
  BY <1>1, WritesTyped
<1>2. ASSUME NEW w \in Writers, NEW batch \in Batches, Ingest(w, batch)
      PROVE  EvidenceInd' /\ UNCHANGED claims
  BY <1>2, IngestStep DEF Ingest
<1>3. ASSUME NEW w \in Writers, NEW g \in Groups, Reconcile(w, g)
      PROVE  EvidenceInd' /\ UNCHANGED claims
  BY <1>3, ReconcileStep DEF Reconcile
<1>4. ASSUME NEW w \in Writers, NEW t, MarkStale(w, StaleByAge(claims, t), Nobody)
      PROVE  EvidenceInd' /\ UNCHANGED claims
  <2>1. EvidenceInd'
    BY <1>4, StaleIds, MarkStaleStep
  <2> QED
    BY <1>4, <2>1 DEF MarkStale
<1>5. ASSUME NEW w \in Writers, NEW i \in Known(claims), MarkStale(w, StaleByClaim(claims, i), i)
      PROVE  EvidenceInd' /\ UNCHANGED claims
  <2>1. EvidenceInd'
    BY <1>5, StaleIds, MarkStaleStep
  <2> QED
    BY <1>5, <2>1 DEF MarkStale
<1>6. CASE UNCHANGED evidenceVars
  <2>1. UNCHANGED <<claims, issued, op, uses>>
    BY <1>6 DEF evidenceVars
  <2>2. EvidenceInd'
    BY <2>1 DEF EvidenceInd, Typed, Reads, Apart
  <2> QED
    BY <2>1, <2>2
<1> QED
  BY <1>1, <1>2, <1>3, <1>4, <1>5, <1>6 DEF EvidenceNext, Writes

(***************************************************************************)
(* The invariant, in every state.                                          *)
(***************************************************************************)
LEMMA AlwaysTyped == EvidenceSpec => []EvidenceInd
<1>1. EvidenceInd /\ [EvidenceNext]_evidenceVars => EvidenceInd'
  BY TypedStep
<1> QED
  BY <1>1, InitTyped, PTL DEF EvidenceSpec

(***************************************************************************)
(* Claims keep their type and name only other claims that are there: what  *)
(* superseded them, what they contradict and what they derive from.        *)
(***************************************************************************)
THEOREM EvidenceTyped == EvidenceSpec => []EvidenceTypeOK
<1>1. EvidenceInd => EvidenceTypeOK
  <2> SUFFICES ASSUME EvidenceInd PROVE EvidenceTypeOK
    OBVIOUS
  <2>1. ASSUME NEW i \in Ids, claims[i] # NoClaim
        PROVE  claims[i] \in Claim /\ Linked(claims[i], i, Known(claims))
    BY <2>1 DEF EvidenceInd, Typed, AllLinked, Known, Rows
  <2>2. \A w \in Writers : op[w].kind \in {"idle", "ingest", "reconcile", "stale"}
    BY DEF EvidenceInd, Typed, Operation, Idle
  <2> QED
    BY <2>1, <2>2 DEF EvidenceTypeOK, EvidenceInd, Typed, Linked
<1> QED
  BY <1>1, AlwaysTyped, PTL

(***************************************************************************)
(* A verdict outlives every operation: what a claim is corroborated or     *)
(* contradicted by stays known and never states anything else.             *)
(***************************************************************************)
LEMMA HonestStep ==
  ASSUME EvidenceInd, Honest, Unjudged, [EvidenceNext]_evidenceVars
  PROVE  Honest' /\ Unjudged'
<1>1. CASE UNCHANGED claims
  BY <1>1 DEF Honest, Unjudged
<1>2. CASE Writes
  <2>1. Grows
    BY <1>2, WritesGrow
  <2>2. PICK mid : Verdicts(mid)
    BY <1>2, WritesGrow
  <2>3. ASSUME NEW i \in Known(claims')
        PROVE  Justified(claims'[i], i, claims')
               /\ (claims'[i].status = "CONFLICTED" => IsAttribute(claims'[i]))
    <3>1. CASE i \in Known(claims) /\ claims'[i] = claims[i]
      <4>1. Justified(claims[i], i, claims)
        BY <3>1 DEF Honest
      <4>2. Justified(claims[i], i, claims')
        BY <2>1, <4>1 DEF Justified, Grows, States, IsAttribute
      <4> QED
        BY <3>1, <4>2 DEF Unjudged
    <3>2. CASE claims'[i].status \in {"UNKNOWN", "STALE", "REJECTED"}
      BY <3>2 DEF Justified
    <3>3. CASE Justified(claims'[i], i, mid) /\ IsAttribute(claims'[i])
      <4>1. Justified(claims'[i], i, claims')
        BY <2>2, <3>3 DEF Justified, Verdicts, States, IsAttribute
      <4> QED
        BY <3>3, <4>1
    <3> QED
      BY <2>2, <3>1, <3>2, <3>3 DEF Verdicts
  <2> QED
    BY <2>3 DEF Honest, Unjudged
<1> QED
  BY <1>1, <1>2, TypedStep

(***************************************************************************)
(* Every verdict stands, in every state.                                   *)
(***************************************************************************)
LEMMA AlwaysHonest == EvidenceSpec => [](Honest /\ Unjudged)
<1>1. EvidenceInit => Honest /\ Unjudged
  BY DEF EvidenceInit, Honest, Unjudged, Known
<1>2. EvidenceInd /\ Honest /\ Unjudged /\ [EvidenceNext]_evidenceVars => Honest' /\ Unjudged'
  BY HonestStep
<1> QED
  BY <1>1, <1>2, AlwaysTyped, PTL DEF EvidenceSpec

(***************************************************************************)
(* A claim is called corroborated only if another source said the same,    *)
(* however operations overtake each other.                                 *)
(***************************************************************************)
THEOREM AgreementIsSupported == EvidenceSpec => []AgreementHasSources
<1>1. Honest => AgreementHasSources
  BY DEF Honest, Justified, AgreementHasSources
<1> QED
  BY <1>1, AlwaysHonest, PTL

(***************************************************************************)
(* A claim is called contradicted only if one of the claims it names says  *)
(* otherwise about the same.                                               *)
(***************************************************************************)
THEOREM ConflictIsReal == EvidenceSpec => []ConflictHasOpponent
<1>1. Honest => ConflictHasOpponent
  BY DEF Honest, Justified, ConflictHasOpponent
<1> QED
  BY <1>1, AlwaysHonest, PTL

-----------------------------------------------------------------------------
(***************************************************************************)
(* Among the active claims of a group there is a latest one.               *)
(***************************************************************************)
LEMMA LargestIn ==
  ASSUME NEW n \in Nat, NEW S, S \subseteq 0 .. n, S # {}
  PROVE  \E m \in S : \A x \in S : x =< m
<1> DEFINE T == {n - x : x \in S}
<1>1. PICK less : IsWellFoundedOn(less, Nat) /\ \A i, j \in Nat : <<i, j>> \in less <=> i < j
  BY NaturalOrder
<1>2. T \subseteq Nat /\ T # {}
  <2>1. \A x \in S : n - x \in Nat
    OBVIOUS
  <2> QED
    BY <2>1
<1> HIDE DEF T
<1>3. \E t \in T : \A u \in T : <<u, t>> \notin less
  <2>1. IsWellFoundedOn(less, Nat)
    BY <1>1
  <2> QED
    BY <1>2, <2>1, WFMin
<1>4. PICK t \in T : \A u \in T : ~(u < t)
  <2>1. PICK t \in T : \A u \in T : <<u, t>> \notin less
    BY <1>3
  <2>2. \A u \in T : ~(u < t)
    BY <1>1, <1>2, <2>1, Zenon
  <2> QED
    BY <2>2
<1>5. PICK m \in S : t = n - m
  BY <1>4 DEF T
<1>6. ASSUME NEW x \in S PROVE x =< m
  <2>1. n - x \in T
    BY DEF T
  <2>2. ~(n - x < n - m)
    BY <1>4, <1>5, <2>1
  <2> QED
    BY <1>5, <2>2
<1> QED
  BY <1>6

(***************************************************************************)
(* The claim trace shows for a group exists.                               *)
(***************************************************************************)
LEMMA LatestClaim ==
  ASSUME NEW rows \in Rows, NEW active, active \subseteq Known(rows), active # {}
  PROVE  \E i \in active : \A j \in active :
           rows[i].time > rows[j].time \/ (rows[i].time = rows[j].time /\ i >= j)
<1>1. \A i \in active : rows[i].time \in 1 .. MaxTime /\ i \in 1 .. MaxClaims
  BY KnownIsClaim DEF Claim, Ids
<1>2. MaxTime \in Nat /\ MaxClaims \in Nat
  BY EvidenceAssumption
<1> DEFINE times == {rows[i].time : i \in active}
<1>3. times \subseteq 0 .. MaxTime /\ times # {}
  BY <1>1
<1>4. PICK m \in times : \A x \in times : x =< m
  BY <1>2, <1>3, LargestIn
<1> DEFINE ids == {i \in active : rows[i].time = m}
<1>5. ids \subseteq 0 .. MaxClaims /\ ids # {}
  BY <1>1, <1>2, <1>4
<1>6. PICK i \in ids : \A j \in ids : j =< i
  BY <1>2, <1>5, LargestIn
<1>7. ASSUME NEW j \in active
      PROVE  rows[i].time > rows[j].time \/ (rows[i].time = rows[j].time /\ i >= j)
  <2>1. rows[j].time =< m /\ rows[i].time = m
    BY <1>4, <1>6
  <2>2. rows[j].time \in 1 .. MaxTime /\ i \in 1 .. MaxClaims /\ j \in 1 .. MaxClaims /\ m \in 0 .. MaxTime
    BY <1>1, <1>3, <1>6
  <2>3. CASE rows[j].time = m
    <3>1. j =< i
      BY <1>6, <2>3
    <3> QED
      BY <2>1, <2>2, <2>3, <3>1
  <2>4. CASE rows[j].time # m
    BY <1>2, <2>1, <2>2, <2>4
  <2> QED
    BY <2>3, <2>4
<1> QED
  BY <1>6, <1>7

(***************************************************************************)
(* A group that was reconciled is settled.                                 *)
(***************************************************************************)
Disputed(rows, g) == \E x, y \in Counted(rows, g) : rows[x].value # rows[y].value

(***************************************************************************)
(* A verdict says exactly whether the group is disputed and how many       *)
(* sources agree.                                                          *)
(***************************************************************************)
LEMMA VerdictsOf ==
  ASSUME NEW rows \in Rows, NEW g, NEW i \in Counted(rows, g)
  PROVE  /\ Reconciled(rows, i).status = "CONFLICTED" <=> Disputed(rows, g)
         /\ Reconciled(rows, i).conflicts = IF Disputed(rows, g) THEN Counted(rows, g) \ {i} ELSE {}
         /\ Reconciled(rows, i).status = "MULTI_SOURCE_SUPPORTED" <=>
              ~Disputed(rows, g) /\ \E j \in Counted(rows, g) : rows[j].source # rows[i].source
<1> DEFINE active == Counted(rows, g)
           disputed == \E x, y \in active : rows[x].value # rows[y].value
           values == {rows[j].value : j \in active}
           sources == {rows[j].source : j \in active}
<1>1. rows[i].group = g /\ rows[i] \in Claim /\ active \subseteq Ids
  BY KnownIsClaim DEF Counted
<1>2. IsFiniteSet(sources) /\ IsFiniteSet(values)
  <2> DEFINE sourceOf == [j \in active |-> rows[j].source]
             valueOf == [j \in active |-> rows[j].value]
  <2>1. IsFiniteSet(active)
    BY <1>1, IdsFinite
  <2>2. IsFiniteSet({sourceOf[j] : j \in active}) /\ IsFiniteSet({valueOf[j] : j \in active})
    BY <2>1, ImageFinite
  <2>3. {sourceOf[j] : j \in active} = sources /\ {valueOf[j] : j \in active} = values
    OBVIOUS
  <2> QED
    BY <2>2, <2>3
<1>3. Cardinality(sources) \in Nat /\ Cardinality(values) \in Nat
  BY <1>2, FS_CardinalityType
<1>4. Cardinality(values) > 1 <=> disputed
  <2>1. ASSUME Cardinality(values) > 1 PROVE disputed
    <3>1. rows[i].value \in values
      OBVIOUS
    <3>2. PICK j \in active : rows[j].value # rows[i].value
      BY <2>1, <3>1, SeveralMeansAnother
    <3> QED
      BY <3>2
  <2>2. ASSUME disputed PROVE Cardinality(values) > 1
    <3>1. PICK x \in active, y \in active : rows[x].value # rows[y].value
      BY <2>2
    <3>2. rows[x].value \in values /\ rows[y].value \in values
      OBVIOUS
    <3>3. Cardinality(values) >= 2
      BY <1>2, <3>1, <3>2, TwoMeansSeveral
    <3> QED
      BY <1>3, <3>3
  <2> QED
    BY <2>1, <2>2
<1>5. Independent(rows, active) <=> \E j \in active : rows[j].source # rows[i].source
  <2>1. rows[i].source \in sources
    OBVIOUS
  <2>2. ASSUME Independent(rows, active) PROVE \E j \in active : rows[j].source # rows[i].source
    <3>1. Cardinality(sources) > 1
      BY <1>3, <2>2 DEF Independent
    <3> QED
      BY <2>1, <3>1, SeveralMeansAnother
  <2>3. ASSUME NEW j \in active, rows[j].source # rows[i].source PROVE Independent(rows, active)
    <3>1. rows[j].source \in sources
      OBVIOUS
    <3> QED
      BY <1>2, <2>1, <2>3, <3>1, TwoMeansSeveral DEF Independent
  <2> QED
    BY <2>2, <2>3
<1> DEFINE status == IF Independent(rows, active) THEN "MULTI_SOURCE_SUPPORTED"
                     ELSE SingleSourceStatus(rows[i].source)
<1>6. /\ disputed => Reconciled(rows, i) =
                       [rows[i] EXCEPT !.status = "CONFLICTED", !.conflicts = Others(active, i)]
      /\ ~disputed => Reconciled(rows, i) = [rows[i] EXCEPT !.conflicts = {}, !.status = status]
  BY <1>1, <1>4 DEF Reconciled
<1>7. /\ status # "CONFLICTED"
      /\ (status = "MULTI_SOURCE_SUPPORTED") <=> Independent(rows, active)
  BY SingleTyped DEF Independent
<1> HIDE DEF active, disputed, status
<1>8. CASE disputed
  <2>1. Reconciled(rows, i).status = "CONFLICTED" /\ Reconciled(rows, i).conflicts = active \ {i}
    BY <1>1, <1>6, <1>8 DEF Claim, Others
  <2> QED
    BY <1>8, <2>1 DEF active, disputed, Disputed
<1>9. CASE ~disputed
  <2>1. Reconciled(rows, i).status = status /\ Reconciled(rows, i).conflicts = {}
    BY <1>1, <1>6, <1>9 DEF Claim
  <2>2. (status = "MULTI_SOURCE_SUPPORTED") <=> \E j \in active : rows[j].source # rows[i].source
    BY <1>5, <1>7 DEF Independent
  <2> QED
    BY <1>7, <1>9, <2>1, <2>2 DEF active, disputed, Disputed
<1> QED
  BY <1>8, <1>9

UnjudgedRows(rows) == \A i \in Known(rows) : rows[i].status = "CONFLICTED" => IsAttribute(rows[i])

(***************************************************************************)
(* Readers are told of a group that it is CONFLICTED exactly if it is      *)
(* disputed.                                                               *)
(***************************************************************************)
LEMMA ReadersAreTold ==
  ASSUME claims' \in Rows, UnjudgedRows(claims'), NEW g, NEW disputed,
         \A i \in Counted(claims', g) : (claims'[i].status = "CONFLICTED") <=> disputed,
         disputed => Counted(claims', g) # {}
  PROVE  (CurrentStatus(g)' = "CONFLICTED" <=> disputed) /\ (g \in Notices' <=> disputed)
<1> DEFINE said == Counted(claims', g)
           active == {i \in Known(claims') : claims'[i].group = g /\ claims'[i].status \in ACTIVE_STATUSES}
<1>1. said \subseteq active /\ active \subseteq Known(claims')
  BY DEF Counted
<1>2. \A i \in Known(claims') : claims'[i].status = "CONFLICTED" /\ claims'[i].group = g => i \in said
  BY DEF UnjudgedRows, Counted, ACTIVE_STATUSES
<1>3. (g \in Notices') <=> disputed
  BY <1>1, <1>2 DEF Notices, Counted
<1> DEFINE latest == CHOOSE i \in active : \A j \in active :
             claims'[i].time > claims'[j].time \/ (claims'[i].time = claims'[j].time /\ i >= j)
<1>4. CurrentStatus(g)' =
        IF active = {} THEN "UNKNOWN"
        ELSE IF \E i \in active : claims'[i].status = "CONFLICTED" THEN "CONFLICTED"
        ELSE claims'[latest].status
  BY DEF CurrentStatus
<1>5. active # {} => latest \in active
  <2>1. ASSUME active # {}
        PROVE  \E i \in active : \A j \in active :
                 claims'[i].time > claims'[j].time \/ (claims'[i].time = claims'[j].time /\ i >= j)
    BY <1>1, <2>1, LatestClaim
  <2> QED
    BY <2>1, Zenon
<1> HIDE DEF said, active, latest
<1>6. (\E i \in active : claims'[i].status = "CONFLICTED") <=> disputed
  <2>1. \A i \in active : claims'[i].group = g /\ i \in Known(claims')
    BY DEF active
  <2> QED
    BY <1>1, <1>2, <2>1 DEF said
<1>7. CASE disputed
  BY <1>3, <1>4, <1>6, <1>7
<1>8. CASE ~disputed
  <2>1. CurrentStatus(g)' = "UNKNOWN" \/ (active # {} /\ CurrentStatus(g)' = claims'[latest].status)
    BY <1>4, <1>6, <1>8
  <2>2. CurrentStatus(g)' # "CONFLICTED"
    BY <1>5, <1>6, <1>8, <2>1
  <2> QED
    BY <1>3, <1>8, <2>2
<1> QED
  BY <1>3, <1>7, <1>8

(***************************************************************************)
(* A group that was reconciled is settled, and history stays.              *)
(***************************************************************************)
LEMMA ReconciledSettled ==
  ASSUME NEW rows \in Rows, AllLinked(rows), UnjudgedRows(rows), NEW groups,
         claims' = ReconcileGroups(rows, groups)
  PROVE  /\ \A g \in groups : Settled(g)'
         /\ \A i \in Known(rows) :
              rows[i].status \in {"STALE", "REJECTED"} => claims'[i] = rows[i]
<1>1. /\ claims' \in Rows /\ Known(claims') = Known(rows)
      /\ \A i \in Known(rows) :
           /\ States(claims'[i], rows[i])
           /\ \/ claims'[i] = rows[i]
              \/ /\ IsAttribute(rows[i])
                 /\ rows[i].status \in ACTIVE_STATUSES /\ claims'[i].status \in ACTIVE_STATUSES
  BY GroupsReconciled
<1>2. \A i \in Known(rows) : rows[i].status \in {"STALE", "REJECTED"} => claims'[i] = rows[i]
  BY <1>1 DEF ACTIVE_STATUSES
<1>3. UnjudgedRows(claims')
  BY <1>1 DEF UnjudgedRows, States, IsAttribute
<1>4. ASSUME NEW g \in groups PROVE Settled(g)'
  <2> DEFINE said == Counted(rows, g)
             disputed == Disputed(rows, g)
  <2>1. Counted(claims', g) = said
    BY <1>1 DEF Counted, States, IsAttribute
  <2>2. \A i \in said : claims'[i] = Reconciled(rows, i)
    BY <1>4 DEF ReconcileGroups, Counted, Known
  <2>3. \A i \in said : claims'[i].value = rows[i].value /\ claims'[i].source = rows[i].source
    BY <1>1 DEF States, Counted
  <2>4. ASSUME NEW i \in said
        PROVE  /\ claims'[i].status = "CONFLICTED" <=> disputed
               /\ claims'[i].conflicts = IF disputed THEN said \ {i} ELSE {}
               /\ claims'[i].status = "MULTI_SOURCE_SUPPORTED" <=>
                    ~disputed /\ \E j \in said : claims'[j].source # claims'[i].source
    <3>1. /\ Reconciled(rows, i).status = "CONFLICTED" <=> disputed
          /\ Reconciled(rows, i).conflicts = IF disputed THEN said \ {i} ELSE {}
          /\ Reconciled(rows, i).status = "MULTI_SOURCE_SUPPORTED" <=>
               ~disputed /\ \E j \in said : rows[j].source # rows[i].source
      BY VerdictsOf
    <3> QED
      BY <2>2, <2>3, <3>1
  <2>5. disputed <=> \E x, y \in said : claims'[x].value # claims'[y].value
    BY <2>3 DEF Disputed
  <2>6. disputed => said # {}
    BY DEF Disputed
  <2> HIDE DEF said, disputed
  <2>7. (CurrentStatus(g)' = "CONFLICTED" <=> disputed) /\ (g \in Notices' <=> disputed)
    BY <1>1, <1>3, <2>1, <2>4, <2>6, ReadersAreTold
  <2> DEFINE contradicted == \E x, y \in Counted(claims', g) : claims'[x].value # claims'[y].value
  <2>8. contradicted <=> disputed
    BY <2>1, <2>5
  <2>9. contradicted \in BOOLEAN
    BY DEF contradicted
  <2> HIDE DEF contradicted
  <2>10. (CurrentStatus(g)' = "CONFLICTED") = contradicted
    BY <2>7, <2>9, <2>8
  <2>11. (g \in Notices') = contradicted
    BY <2>7, <2>9, <2>8
  <2>12. ASSUME NEW i \in Counted(claims', g)
         PROVE  /\ (claims'[i].status = "CONFLICTED") = contradicted
                /\ claims'[i].conflicts = IF contradicted THEN Counted(claims', g) \ {i} ELSE {}
                /\ (claims'[i].status = "MULTI_SOURCE_SUPPORTED") =
                     (~contradicted /\ \E j \in Counted(claims', g) : claims'[j].source # claims'[i].source)
    <3>1. /\ claims'[i].status = "CONFLICTED" <=> contradicted
          /\ claims'[i].conflicts = IF contradicted THEN Counted(claims', g) \ {i} ELSE {}
          /\ claims'[i].status = "MULTI_SOURCE_SUPPORTED" <=>
               ~contradicted /\ \E j \in Counted(claims', g) : claims'[j].source # claims'[i].source
      BY <2>1, <2>4, <2>8
    <3> QED
      BY <2>9, <3>1
  <2>13. Counted(claims, g)' = Counted(claims', g)
    BY DEF Counted, Known
  <2> QED
    BY <2>10, <2>11, <2>12, <2>13 DEF Settled, contradicted
<1> QED
  BY <1>2, <1>4

(***************************************************************************)
(* What a lone writer wrote: the claims it read are those that are there,  *)
(* so all of them are as it reconciled them.                               *)
(***************************************************************************)
LEMMA SettledAlone ==
  ASSUME EvidenceInd, Unjudged, NEW w \in Writers, WriteSettled(w), op[w].rows = claims
  PROVE  /\ \A g \in op[w].touched : Settled(g)'
         /\ \A i \in Known(claims) :
              claims[i].status \in {"STALE", "REJECTED"} => claims'[i] = claims[i]
<1> DEFINE batch == op[w].batch
           mid == AddClaims(claims, batch)
           groups == op[w].touched
           rows == ReconcileGroups(mid, groups)
<1>1. /\ op[w].kind \in {"ingest", "reconcile"} /\ claims \in Rows /\ AllLinked(claims)
      /\ op[w] \in Operation
  BY DEF WriteSettled, EvidenceInd, Typed
<1>2. batch \in Batch /\ Adding(op[w]) = DOMAIN batch
  BY <1>1 DEF Operation, Idle, Adding
<1>3. DOMAIN batch \cap Known(claims) = {}
  BY <1>2 DEF EvidenceInd, Apart
<1>4. claims' = [i \in Ids |-> IF rows[i] # claims[i] THEN rows[i] ELSE claims[i]]
  BY DEF WriteSettled, Settling
<1>5. rows = [i \in Ids |-> rows[i]]
  BY DEF ReconcileGroups
<1> HIDE DEF rows
<1>6. claims' = rows
  <2>1. \A i \in Ids : (IF rows[i] # claims[i] THEN rows[i] ELSE claims[i]) = rows[i]
    OBVIOUS
  <2> QED
    BY <1>4, <1>5, <2>1
<1> HIDE DEF batch, mid, groups
<1>7. /\ mid \in Rows /\ Known(mid) = Known(claims) \cup DOMAIN batch /\ AllLinked(mid)
      /\ \A i \in Known(claims) :
           /\ States(mid[i], claims[i])
           /\ \/ mid[i] = claims[i]
              \/ mid[i].status = "STALE" /\ claims[i].status \in ACTIVE_STATUSES
      /\ \A i \in DOMAIN batch : mid[i].status \in {"UNKNOWN", "STALE"}
  BY <1>1, <1>2, <1>3, ClaimsAdded DEF mid
<1>8. UnjudgedRows(mid)
  BY <1>7 DEF Unjudged, UnjudgedRows
<1>9. claims' = ReconcileGroups(mid, groups)
  BY <1>6 DEF rows
<1>10. /\ \A g \in groups : Settled(g)'
       /\ \A i \in Known(mid) :
            mid[i].status \in {"STALE", "REJECTED"} => claims'[i] = mid[i]
  BY <1>7, <1>8, <1>9, ReconciledSettled
<1>11. ASSUME NEW i \in Known(claims), claims[i].status \in {"STALE", "REJECTED"}
       PROVE  claims'[i] = claims[i]
  <2>1. mid[i] = claims[i] /\ i \in Known(mid)
    BY <1>7, <1>11 DEF ACTIVE_STATUSES
  <2> QED
    BY <1>10, <1>11, <2>1
<1> QED
  BY <1>10, <1>11 DEF groups

(***************************************************************************)
(* The same of mark_stale, whose claims all counted.                       *)
(***************************************************************************)
LEMMA StaleAlone ==
  ASSUME EvidenceInd, Unjudged, NEW w \in Writers, WriteStale(w), op[w].rows = claims
  PROVE  /\ \A g \in {claims[i].group : i \in op[w].ids} : Settled(g)'
         /\ \A i \in Known(claims) :
              claims[i].status \in {"STALE", "REJECTED"} => claims'[i] = claims[i]
<1> DEFINE ids == op[w].ids
           by == op[w].by
           marked == [i \in Ids |-> IF i \in ids THEN Superseded(claims[i], by) ELSE claims[i]]
           groups == {marked[i].group : i \in ids}
<1>1. /\ op[w].kind = "stale" /\ Reading(op[w], claims) /\ claims \in Rows /\ AllLinked(claims)
      /\ op[w] \in Operation
  BY DEF WriteStale, EvidenceInd, Reads, Typed
<1>2. op[w] # Idle /\ by \in Ids \cup {Nobody} /\ ids \subseteq Ids
  BY <1>1 DEF Operation, Idle
<1>3. by \in Known(claims) \cup {Nobody} /\ \A i \in ids : i \in Counted(claims, claims[i].group)
  BY <1>1, <1>2 DEF Reading
<1>4. claims' = ReconcileGroups(marked, groups)
  BY DEF WriteStale, Remark
<1>5. marked = [i \in Ids |-> marked[i]]
  OBVIOUS
<1>6. \A i \in Ids : marked[i] = IF i \in ids THEN Superseded(claims[i], by) ELSE claims[i]
  OBVIOUS
<1> HIDE DEF marked, ids, by
<1>7. /\ Known(claims) \subseteq Ids
      /\ \A i \in Known(claims) : claims[i] \in Claim /\ Linked(claims[i], i, Known(claims))
      /\ \A i \in ids : i \in Known(claims) /\ claims[i].status \in ACTIVE_STATUSES
  BY <1>1, <1>3, KnownIsClaim DEF AllLinked, Counted
<1>8. ASSUME NEW i \in ids
      PROVE  /\ marked[i] \in Claim /\ Linked(marked[i], i, Known(claims))
             /\ marked[i].group = claims[i].group /\ marked[i].status = "STALE"
  <2>1. marked[i] = Superseded(claims[i], by)
    BY <1>6, <1>7
  <2> QED
    BY <1>2, <1>3, <1>7, <2>1, SupersededTyped DEF States
<1>9. \A i \in Ids \ ids : marked[i] = claims[i]
  BY <1>6
<1>10. marked \in Rows
  BY <1>1, <1>5, <1>8, <1>9 DEF Rows
<1>11. Known(marked) = Known(claims)
  BY <1>7, <1>8, <1>9, NoClaimIsNone DEF Known
<1>12. AllLinked(marked)
  BY <1>7, <1>8, <1>9, <1>11 DEF AllLinked
<1>13. UnjudgedRows(marked)
  BY <1>7, <1>8, <1>9, <1>11 DEF Unjudged, UnjudgedRows
<1>14. groups = {claims[i].group : i \in ids}
  BY <1>8
<1> HIDE DEF groups
<1>15. /\ \A g \in groups : Settled(g)'
       /\ \A i \in Known(marked) :
            marked[i].status \in {"STALE", "REJECTED"} => claims'[i] = marked[i]
  BY <1>4, <1>10, <1>12, <1>13, ReconciledSettled
<1>16. ASSUME NEW i \in Known(claims), claims[i].status \in {"STALE", "REJECTED"}
       PROVE  claims'[i] = claims[i]
  <2>1. i \notin ids
    BY <1>7, <1>16 DEF ACTIVE_STATUSES
  <2>2. marked[i] = claims[i]
    BY <1>7, <1>9, <2>1
  <2> QED
    BY <1>11, <1>15, <1>16, <2>2
<1> QED
  BY <1>14, <1>15, <1>16 DEF ids

(***************************************************************************)
(* Only its own writing step ends an operation.                            *)
(***************************************************************************)
LEMMA EndsByWriting ==
  ASSUME EvidenceInd, [EvidenceNext]_evidenceVars,
         NEW w \in Writers, op[w] # Idle, op'[w] = Idle
  PROVE  WriteSettled(w) \/ WriteStale(w)
<1>1. op \in [Writers -> Operation]
  BY DEF EvidenceInd, Typed
<1>2. ASSUME NEW v \in Writers, op[v] = Idle, NEW o, op' = [op EXCEPT ![v] = o] PROVE FALSE
  BY <1>1, <1>2
<1>3. ASSUME NEW v \in Writers, WriteSettled(v) \/ WriteStale(v)
      PROVE  WriteSettled(w) \/ WriteStale(w)
  <2>1. op' = [op EXCEPT ![v] = Idle]
    BY <1>3 DEF WriteSettled, WriteStale
  <2>2. v = w
    BY <1>1, <2>1
  <2> QED
    BY <1>3, <2>2
<1>4. CASE UNCHANGED evidenceVars
  BY <1>4 DEF evidenceVars
<1>5. ASSUME NEW i \in Ids, Reject(i) PROVE FALSE
  BY <1>5 DEF Reject
<1>6. ASSUME NEW g, NEW v, NEW inputs, Derive(g, v, inputs) PROVE FALSE
  BY <1>6 DEF Derive
<1>7. ASSUME NEW v \in Writers, NEW batch, Ingest(v, batch) PROVE FALSE
  BY <1>2, <1>7 DEF Ingest
<1>8. ASSUME NEW v \in Writers, NEW g, Reconcile(v, g) PROVE FALSE
  BY <1>2, <1>8 DEF Reconcile
<1>9. ASSUME NEW v \in Writers, NEW ids, NEW by, MarkStale(v, ids, by) PROVE FALSE
  BY <1>2, <1>9 DEF MarkStale
<1> QED
  BY <1>3, <1>4, <1>5, <1>6, <1>7, <1>8, <1>9 DEF EvidenceNext

(***************************************************************************)
(* An operation that no other overtook leaves the groups it touched        *)
(* settled, whatever the others had left there, and brings no claim back   *)
(* that is STALE or REJECTED.                                              *)
(***************************************************************************)
THEOREM LoneWriter == EvidenceSpec => LoneWriterSettles
<1> DEFINE Lone ==
      \A w \in Writers : Alone(w) =>
        /\ \A g \in Touched(w) : Settled(g)'
        /\ \A i \in Known(claims) :
             claims[i].status \in {"STALE", "REJECTED"} => claims'[i] = claims[i]
<1>1. ASSUME EvidenceInd, Unjudged, [EvidenceNext]_evidenceVars PROVE Lone
  <2> SUFFICES ASSUME NEW w \in Writers, Alone(w)
               PROVE  /\ \A g \in Touched(w) : Settled(g)'
                      /\ \A i \in Known(claims) :
                           claims[i].status \in {"STALE", "REJECTED"} => claims'[i] = claims[i]
    OBVIOUS
  <2>1. op[w] # Idle /\ op'[w] = Idle /\ op[w].rows = claims
    BY DEF Alone
  <2>2. WriteSettled(w) \/ WriteStale(w)
    BY <1>1, <2>1, EndsByWriting
  <2>3. CASE WriteSettled(w)
    <3>1. Touched(w) = op[w].touched
      BY <2>3 DEF WriteSettled, Touched
    <3> QED
      BY <1>1, <2>1, <2>3, <3>1, SettledAlone
  <2>4. CASE WriteStale(w)
    <3>1. Touched(w) = {claims[i].group : i \in op[w].ids}
      BY <2>4 DEF WriteStale, Touched
    <3> QED
      BY <1>1, <2>1, <2>4, <3>1, StaleAlone
  <2> QED
    BY <2>2, <2>3, <2>4
<1>2. EvidenceInd /\ Unjudged /\ [EvidenceNext]_evidenceVars => [Lone]_evidenceVars
  BY <1>1
<1> QED
  BY <1>2, AlwaysTyped, AlwaysHonest, PTL DEF EvidenceSpec, LoneWriterSettles

==============================================================================
