--------------------------- MODULE PlanningLemmas ----------------------------
(***************************************************************************)
(* What the functions of agents/factory.py, strategies/architect.py and    *)
(* research/pipeline.py do to any list of proposals or entities. They are  *)
(* folds, and a fold is shown to go through its list one element at a time *)
(* (FoldExists, FoldRuns): what holds before the first element and is kept *)
(* by each step holds at the end. The lemmas that end in Runs differ in    *)
(* the fold only, since a lemma cannot take the step as a parameter.       *)
(***************************************************************************)
EXTENDS AgentFactory, Research, TLAPS, FiniteSetTheorems, WellFoundedInduction

(***************************************************************************)
(* A set of numbers that contains 0 and, with each number below n, the     *)
(* next one contains all up to n. It takes the place of induction.         *)
(***************************************************************************)
LEMMA Climbs ==
  ASSUME NEW n \in Nat, NEW S, 0 \in S, \A k \in 0 .. n - 1 : k \in S => k + 1 \in S
  PROVE  0 .. n \subseteq S
<1> DEFINE Less == StrictSubsetOrdering(1 .. n)
           Wrong == {s \in SUBSET (1 .. n) : \E k \in 0 .. n : s = 1 .. k /\ k \notin S}
<1>1. IsWellFoundedOn(Less, FiniteSubsetsOf(1 .. n))
  BY FS_StrictSubsetOrderingWellFounded
<1>2. Wrong \subseteq FiniteSubsetsOf(1 .. n)
  BY FS_Interval, FS_FiniteSubsetsOfFinite
<1>3. SUFFICES ASSUME Wrong # {} PROVE FALSE
  OBVIOUS
<1>4. PICK s \in Wrong : \A other \in Wrong : <<other, s>> \notin Less
  <2> HIDE DEF Less, Wrong
  <2> QED
    BY <1>1, <1>2, <1>3, WFMin
<1>5. PICK k \in 0 .. n : s = 1 .. k /\ k \notin S
  OBVIOUS
<1>6. k # 0 /\ k - 1 \in 0 .. n /\ k - 1 \notin S
  BY <1>5
<1>7. 1 .. (k - 1) \in Wrong
  BY <1>6
<1>8. <<1 .. (k - 1), 1 .. k>> \in Less
  BY <1>6 DEF StrictSubsetOrdering
<1> QED
  BY <1>4, <1>5, <1>7, <1>8

(***************************************************************************)
(* The largest of some positions of a sequence.                            *)
(***************************************************************************)
LEMMA MaxIs ==
  ASSUME NEW n \in Nat, NEW s \in SUBSET (1 .. n), s # {}
  PROVE  /\ Max(s) \in s /\ \A x \in s : x <= Max(s)
<1> DEFINE S == {k \in 0 .. n :
                   \/ s \cap (1 .. k) = {}
                   \/ \E m \in s : m <= k /\ \A x \in s : x <= k => x <= m}
<1>1. 0 .. n \subseteq S
  <2>1. 0 \in S
    OBVIOUS
  <2>2. ASSUME NEW k \in 0 .. n - 1, k \in S
        PROVE  k + 1 \in S
    <3>1. CASE k + 1 \in s
      BY <2>2, <3>1
    <3>2. CASE k + 1 \notin s
      <4>1. \A x \in s : x <= k + 1 => x <= k
        BY <3>2
      <4> QED
        BY <2>2, <4>1
    <3> QED
      BY <3>1, <3>2
  <2> HIDE DEF S
  <2> QED
    BY <2>1, <2>2, Climbs
<1>2. n \in S
  BY <1>1
<1>3. PICK m \in s : \A x \in s : x <= m
  <2>1. s \cap (1 .. n) # {} /\ \A x \in s : x <= n
    <3> HIDE DEF S
    <3>1. s \cap (1 .. n) = s /\ \A x \in s : x \in 1 .. n
      OBVIOUS
    <3> QED
      BY <3>1
  <2>2. \E m \in s : m <= n /\ \A x \in s : x <= n => x <= m
    BY <1>2, <2>1
  <2> QED
    BY <2>1, <2>2
<1>4. \A y \in s : m >= y
  BY <1>3
<1> HIDE DEF S
<1>5. Max(s) \in s /\ \A y \in s : Max(s) >= y
  <2>1. Max(s) = CHOOSE x \in s : \A y \in s : x >= y
    BY DEF Max
  <2> QED
    BY <1>4, <2>1
<1>6. \A y \in s : y \in Int
  OBVIOUS
<1> QED
  BY <1>5, <1>6

(***************************************************************************)
(* A fold over a sequence of n elements, with what each step does to a     *)
(* value as a table: base is the value it starts from, F[k] the step of    *)
(* the k-th element, g what is left after the elements of a set of         *)
(* positions, as MapThenFoldSet folds.                                     *)
(***************************************************************************)
Tables(n, X) == [1 .. n -> [X -> X]]

Unfolds(g, n, base, F) ==
  \A s \in SUBSET (1 .. n) : g[s] = IF s = {} THEN base ELSE F[Max(s)][g[s \ {Max(s)}]]

UnfoldsIn(X, iter, n, base, F) ==
  /\ iter[{}] = base
  /\ \A s \in SUBSET (1 .. n) : s # {} /\ iter[s \ {Max(s)}] \in X
           => iter[s] = F[Max(s)][iter[s \ {Max(s)}]]

RunsOf(n, X) == [0 .. n -> X]

Runs(run, n, base, F) == run[0] = base /\ \A k \in 1 .. n : run[k] = F[k][run[k - 1]]

(***************************************************************************)
(* There is a function that satisfies the recursive equation of such a     *)
(* fold.                                                                   *)
(***************************************************************************)
LEMMA FoldExists ==
  ASSUME NEW n \in Nat, NEW X, NEW base \in X, NEW F \in Tables(n, X)
  PROVE  \E g \in [SUBSET (1 .. n) -> X] : Unfolds(g, n, base, F)
<1> USE DEF Tables, Unfolds
<1> DEFINE Next(g) == [s \in SUBSET (1 .. n) |->
                        IF s = {} THEN base ELSE F[Max(s)][g[s \ {Max(s)}]]]
           Good(g, k) == \A s \in SUBSET (1 .. k) : g[s] = Next(g)[s]
           S == {k \in 0 .. n : \E g \in [SUBSET (1 .. n) -> X] : Good(g, k)}
<1>1. ASSUME NEW g \in [SUBSET (1 .. n) -> X]
      PROVE  Next(g) \in [SUBSET (1 .. n) -> X]
  <2> SUFFICES ASSUME NEW s \in SUBSET (1 .. n), s # {}
               PROVE  F[Max(s)][g[s \ {Max(s)}]] \in X
    OBVIOUS
  <2>1. Max(s) \in 1 .. n
    BY MaxIs
  <2>2. s \ {Max(s)} \in SUBSET (1 .. n)
    OBVIOUS
  <2> QED
    BY <2>1, <2>2
<1>2. 0 \in S
  <2> DEFINE g == [s \in SUBSET (1 .. n) |-> base]
  <2>1. g \in [SUBSET (1 .. n) -> X]
    OBVIOUS
  <2>2. Good(g, 0)
    <3>1. \A s \in SUBSET (1 .. 0) : s = {}
      OBVIOUS
    <3>2. {} \in SUBSET (1 .. n) /\ g[{}] = base /\ Next(g)[{}] = base
      OBVIOUS
    <3> HIDE DEF g, Next
    <3> QED
      BY <3>1, <3>2
  <2> HIDE DEF g, Good
  <2> QED
    BY <2>1, <2>2
<1>3. ASSUME NEW k \in 0 .. n - 1, k \in S
      PROVE  k + 1 \in S
  <2>1. PICK g \in [SUBSET (1 .. n) -> X] : Good(g, k)
    BY <1>3
  <2>2. ASSUME NEW s \in SUBSET (1 .. k + 1), s # {}
        PROVE  Next(g)[s \ {Max(s)}] = g[s \ {Max(s)}]
    <3>1. s \in SUBSET (1 .. n)
      OBVIOUS
    <3>2. Max(s) \in s /\ \A x \in s : x <= Max(s)
      BY <2>2, <3>1, MaxIs
    <3>3. ASSUME NEW x \in s, x # Max(s)
          PROVE  x \in 1 .. k
      <4>1. x \in 1 .. k + 1 /\ Max(s) \in 1 .. k + 1 /\ x <= Max(s)
        BY <3>2
      <4> QED
        BY <3>3, <4>1
    <3>4. s \ {Max(s)} \in SUBSET (1 .. k)
      BY <3>3
    <3> HIDE DEF Next
    <3> QED
      BY <2>1, <3>4
  <2>3. Good(Next(g), k + 1)
    <3> SUFFICES ASSUME NEW s \in SUBSET (1 .. k + 1)
                 PROVE  Next(g)[s] = Next(Next(g))[s]
      OBVIOUS
    <3>1. s \in SUBSET (1 .. n)
      OBVIOUS
    <3>2. Next(g)[s] = IF s = {} THEN base ELSE F[Max(s)][g[s \ {Max(s)}]]
      BY <3>1
    <3>3. Next(Next(g))[s] = IF s = {} THEN base ELSE F[Max(s)][Next(g)[s \ {Max(s)}]]
      BY <3>1
    <3> HIDE DEF Next
    <3> QED
      BY <2>2, <3>2, <3>3
  <2>4. Next(g) \in [SUBSET (1 .. n) -> X]
    BY <1>1
  <2>5. k + 1 \in 0 .. n
    OBVIOUS
  <2> HIDE DEF Good, Next
  <2> QED
    BY <2>3, <2>4, <2>5
<1>4. n \in S
  <2> HIDE DEF S
  <2>1. 0 .. n \subseteq S
    BY <1>2, <1>3, Climbs
  <2> QED
    BY <2>1
<1>5. PICK g \in [SUBSET (1 .. n) -> X] : Good(g, n)
  BY <1>4
<1> QED
  BY <1>5

(***************************************************************************)
(* A fold goes through its elements in order: what it ends with is the end *)
(* of a run that starts from base and takes one step per element.          *)
(***************************************************************************)
LEMMA FoldRuns ==
  ASSUME NEW n \in Nat, NEW X, NEW base \in X, NEW F \in Tables(n, X), NEW iter,
         UnfoldsIn(X, iter, n, base, F)
  PROVE  \E run \in RunsOf(n, X) : Runs(run, n, base, F) /\ run[n] = iter[1 .. n]
<1> USE DEF Tables, UnfoldsIn, RunsOf, Runs
<1> DEFINE run == [k \in 0 .. n |-> iter[1 .. k]]
           S == {k \in 0 .. n : run[k] \in X}
<1>1. 0 \in 0 .. n /\ n \in 0 .. n /\ 1 .. 0 = {}
  OBVIOUS
<1>2. run[0] = base /\ run[n] = iter[1 .. n]
  BY <1>1
<1>3. ASSUME NEW k \in 1 .. n, run[k - 1] \in X
      PROVE  run[k] = F[k][run[k - 1]]
  <2>1. 1 .. k \in SUBSET (1 .. n) /\ k \in 1 .. k
    OBVIOUS
  <2>2. Max(1 .. k) \in 1 .. k /\ \A x \in 1 .. k : x <= Max(1 .. k)
    BY <2>1, MaxIs
  <2>3. Max(1 .. k) = k /\ (1 .. k) \ {k} = 1 .. (k - 1)
    BY <2>1, <2>2
  <2>4. k \in 0 .. n /\ k - 1 \in 0 .. n
    OBVIOUS
  <2>5. run[k] = iter[1 .. k] /\ run[k - 1] = iter[1 .. (k - 1)]
    BY <2>4
  <2>6. iter[(1 .. k) \ {Max(1 .. k)}] = run[k - 1] /\ 1 .. k # {}
    BY <2>1, <2>3, <2>5
  <2> HIDE DEF run
  <2>7. iter[1 .. k] = F[Max(1 .. k)][iter[(1 .. k) \ {Max(1 .. k)}]]
    BY <1>3, <2>1, <2>6
  <2> QED
    BY <2>3, <2>5, <2>6, <2>7
<1>4. 0 .. n \subseteq S
  <2>1. 0 \in S
    BY <1>1, <1>2
  <2>2. ASSUME NEW k \in 0 .. n - 1, k \in S
        PROVE  k + 1 \in S
    <3>1. k + 1 \in 1 .. n /\ k + 1 \in 0 .. n /\ (k + 1) - 1 = k
      OBVIOUS
    <3>2. run[k] \in X
      BY <2>2
    <3> HIDE DEF run
    <3>3. run[k + 1] = F[k + 1][run[k]]
      BY <1>3, <3>1, <3>2
    <3> QED
      BY <3>1, <3>2, <3>3
  <2> HIDE DEF S
  <2> QED
    BY <2>1, <2>2, Climbs
<1>5. run \in [0 .. n -> X]
  BY <1>4
<1>6. \A k \in 1 .. n : run[k] = F[k][run[k - 1]]
  <2> SUFFICES ASSUME NEW k \in 1 .. n PROVE run[k] = F[k][run[k - 1]]
    OBVIOUS
  <2>1. k - 1 \in 0 .. n
    OBVIOUS
  <2>2. run[k - 1] \in X
    BY <1>5, <2>1
  <2> HIDE DEF run
  <2> QED
    BY <1>3, <2>2
<1> HIDE DEF run
<1> QED
  BY <1>2, <1>5, <1>6

(***************************************************************************)
(* What validate_strategy_set does with one proposal.                      *)
(***************************************************************************)
Judged(set, p) ==
  IF Judge(set.kept, p) THEN [kept |-> set.kept, rejected |-> set.rejected + 1]
  ELSE [kept |-> Append(set.kept, p), rejected |-> set.rejected]

(***************************************************************************)
(* validate_strategy_set judges the proposals one after the other, each    *)
(* against those it kept.                                                  *)
(***************************************************************************)
LEMMA ValidateRuns ==
  ASSUME NEW T, NEW proposals \in Seq(T), NEW accepted \in Seq(T)
  PROVE  \E run \in [0 .. Len(proposals) -> [kept : Seq(T), rejected : Nat]] :
           /\ run[0] = [kept |-> accepted, rejected |-> 0]
           /\ \A k \in 1 .. Len(proposals) : run[k] = Judged(run[k - 1], proposals[k])
           /\ ValidateSet(proposals, accepted) = run[Len(proposals)]
<1> DEFINE n == Len(proposals)
           X == [kept : Seq(T), rejected : Nat]
           base == [kept |-> accepted, rejected |-> 0]
           Op(set, p) == IF Judge(set.kept, p)
                           THEN [set EXCEPT !.rejected = @ + 1]
                           ELSE [set EXCEPT !.kept = Append(@, p)]
           Solves(g) == g = [s \in SUBSET (1 .. n) |-> IF s = {} THEN base
                               ELSE Op(g[s \ {Max(s)}], proposals[Max(s)])]
           iter == CHOOSE g : Solves(g)
           F == [i \in 1 .. n |-> [x \in X |-> Judged(x, proposals[i])]]
<1>1. DOMAIN proposals = 1 .. n
  OBVIOUS
<1>2. ValidateSet(proposals, accepted) = iter[1 .. n]
  BY <1>1 DEF ValidateSet, FoldLeft, MapThenFoldSet
<1>3. n \in Nat /\ base \in X
  OBVIOUS
<1>4. ASSUME NEW i \in 1 .. n, NEW x \in X
      PROVE  Op(x, proposals[i]) = Judged(x, proposals[i]) /\ Judged(x, proposals[i]) \in X
  <2>1. proposals[i] \in T
    BY <1>1
  <2>2. x.kept \in Seq(T) /\ x.rejected \in Nat
        /\ x = [kept |-> x.kept, rejected |-> x.rejected]
    OBVIOUS
  <2>3. Append(x.kept, proposals[i]) \in Seq(T)
    BY <2>1, <2>2
  <2>4. [x EXCEPT !.rejected = @ + 1] = [kept |-> x.kept, rejected |-> x.rejected + 1]
    BY <2>2
  <2>5. [x EXCEPT !.kept = Append(@, proposals[i])]
          = [kept |-> Append(x.kept, proposals[i]), rejected |-> x.rejected]
    <3> DEFINE longer == Append(x.kept, proposals[i])
    <3> HIDE DEF longer
    <3>1. [x EXCEPT !.kept = longer] = [kept |-> longer, rejected |-> x.rejected]
      BY <2>2
    <3> QED
      BY <3>1 DEF longer
  <2>6. Judged(x, proposals[i]) \in X
    BY <2>2, <2>3 DEF Judged
  <2> QED
    BY <2>4, <2>5, <2>6 DEF Judged
<1> HIDE DEF n, X, base, Op
<1>5. F \in [1 .. n -> [X -> X]] /\ \A i \in 1 .. n, x \in X : F[i][x] = Op(x, proposals[i])
  BY <1>4
<1> HIDE DEF F
<1>6. PICK g \in [SUBSET (1 .. n) -> X] : Unfolds(g, n, base, F)
  <2>1. F \in Tables(n, X)
    BY <1>5 DEF Tables
  <2> QED
    BY <1>3, <2>1, FoldExists
<1>7. Solves(g)
  <2>1. ASSUME NEW s \in SUBSET (1 .. n), s # {}
        PROVE  F[Max(s)][g[s \ {Max(s)}]] = Op(g[s \ {Max(s)}], proposals[Max(s)])
    <3>1. Max(s) \in 1 .. n
      BY <1>3, <2>1, MaxIs
    <3> QED
      BY <1>5, <3>1
  <2> QED
    BY <1>6, <2>1 DEF Unfolds
<1>8. Solves(iter)
  <2> HIDE DEF Solves
  <2> QED
    BY <1>7
<1> HIDE DEF iter
<1>9. iter[{}] = base
  BY <1>8
<1>10. ASSUME NEW s \in SUBSET (1 .. n), s # {}, iter[s \ {Max(s)}] \in X
       PROVE  iter[s] = F[Max(s)][iter[s \ {Max(s)}]]
  <2>1. Max(s) \in 1 .. n
    BY <1>3, <1>10, MaxIs
  <2> QED
    BY <1>5, <1>8, <1>10, <2>1
<1>11. PICK run \in RunsOf(n, X) : Runs(run, n, base, F) /\ run[n] = iter[1 .. n]
  <2>1. F \in Tables(n, X)
    BY <1>5 DEF Tables
  <2>2. UnfoldsIn(X, iter, n, base, F)
    BY <1>9, <1>10 DEF UnfoldsIn
  <2> QED
    BY <1>3, <2>1, <2>2, FoldRuns
<1>12. ASSUME NEW k \in 1 .. n
       PROVE  run[k] = Judged(run[k - 1], proposals[k])
  <2>1. run[k - 1] \in X
    BY <1>3 DEF RunsOf
  <2> QED
    BY <1>4, <1>5, <1>11, <2>1 DEF Runs
<1> QED
  BY <1>2, <1>11, <1>12 DEF n, X, base, RunsOf, Runs

(***************************************************************************)
(* Whether two strategies say the same does not depend on which is named   *)
(* first.                                                                  *)
(***************************************************************************)
LEMMA DuplicatesBothWays ==
  ASSUME NEW p, NEW q
  PROVE  Duplicates(p, q) <=> Duplicates(q, p)
<1>1. p.words \cup q.words = q.words \cup p.words /\ p.words \cap q.words = q.words \cap p.words
  OBVIOUS
<1> QED
  BY <1>1 DEF Duplicates, Jaccard

(***************************************************************************)
(* validate_strategy_set: if the strategies it starts from are distinct,   *)
(* so are all it keeps.                                                    *)
(***************************************************************************)
LEMMA KeptDistinct ==
  ASSUME NEW T, NEW proposals \in Seq(T), NEW accepted \in Seq(T), Distinct(accepted)
  PROVE  LET set == ValidateSet(proposals, accepted)
         IN  set.kept \in Seq(T) /\ set.rejected \in Nat /\ Distinct(set.kept)
<1> DEFINE n == Len(proposals)
           X == [kept : Seq(T), rejected : Nat]
<1>1. PICK run \in [0 .. n -> X] :
        /\ run[0] = [kept |-> accepted, rejected |-> 0]
        /\ \A k \in 1 .. n : run[k] = Judged(run[k - 1], proposals[k])
        /\ ValidateSet(proposals, accepted) = run[n]
  BY ValidateRuns
<1> DEFINE S == {k \in 0 .. n : Distinct(run[k].kept)}
<1>2. n \in Nat
  OBVIOUS
<1>3. 0 \in S
  BY <1>1, <1>2
<1>4. ASSUME NEW k \in 0 .. n - 1, k \in S
      PROVE  k + 1 \in S
  <2>1. k + 1 \in 1 .. n /\ k + 1 \in 0 .. n /\ (k + 1) - 1 = k /\ k \in 0 .. n
    BY <1>2
  <2> DEFINE kept == run[k].kept
             p == proposals[k + 1]
  <2>2. run[k + 1] = Judged(run[k], p) /\ kept \in Seq(T) /\ Distinct(kept) /\ p \in T
    <3>1. run[k] \in X /\ Distinct(run[k].kept)
      BY <1>4, <2>1
    <3>2. run[k + 1] = Judged(run[k], p)
      BY <1>1, <2>1
    <3> QED
      BY <2>1, <3>1, <3>2
  <2> HIDE DEF kept, p
  <2>3. CASE Judge(kept, p)
    BY <2>1, <2>2, <2>3 DEF Judged, kept
  <2>4. CASE ~Judge(kept, p)
    <3>1. run[k + 1].kept = Append(kept, p)
      BY <2>2, <2>4 DEF Judged, kept
    <3>2. \A i \in 1 .. Len(kept) : Append(kept, p)[i] = kept[i]
      BY <2>2
    <3>3. Append(kept, p)[Len(kept) + 1] = p /\ DOMAIN Append(kept, p) = 1 .. Len(kept) + 1
          /\ DOMAIN kept = 1 .. Len(kept) /\ Len(kept) \in Nat
      BY <2>2
    <3>4. \A i \in 1 .. Len(kept) : ~Duplicates(p, kept[i]) /\ ~Duplicates(kept[i], p)
      BY <2>4, <3>3, DuplicatesBothWays DEF Judge
    <3>5. Distinct(Append(kept, p))
      <4> SUFFICES ASSUME NEW i \in 1 .. Len(kept) + 1, NEW j \in 1 .. Len(kept) + 1, i # j
                   PROVE  ~Duplicates(Append(kept, p)[i], Append(kept, p)[j])
        BY <3>3 DEF Distinct
      <4>1. CASE i = Len(kept) + 1
        <5>1. j \in 1 .. Len(kept)
          BY <3>3, <4>1
        <5> QED
          BY <3>2, <3>3, <3>4, <4>1, <5>1
      <4>2. CASE j = Len(kept) + 1
        <5>1. i \in 1 .. Len(kept)
          BY <3>3, <4>2
        <5> QED
          BY <3>2, <3>3, <3>4, <4>2, <5>1
      <4>3. CASE i # Len(kept) + 1 /\ j # Len(kept) + 1
        <5>1. i \in 1 .. Len(kept) /\ j \in 1 .. Len(kept)
          <6>1. Len(kept) \in Nat
            BY <3>3
          <6> HIDE DEF kept
          <6>2. \A m \in Nat : \A x \in 1 .. m + 1 : x # m + 1 => x \in 1 .. m
            OBVIOUS
          <6> QED
            BY <4>3, <6>1, <6>2
        <5>2. Append(kept, p)[i] = kept[i] /\ Append(kept, p)[j] = kept[j]
          BY <3>2, <5>1
        <5>3. ~Duplicates(kept[i], kept[j])
          BY <2>2, <3>3, <5>1 DEF Distinct
        <5> QED
          BY <5>2, <5>3
      <4> QED
        BY <4>1, <4>2, <4>3
    <3> QED
      BY <2>1, <3>1, <3>5
  <2> QED
    BY <2>3, <2>4
<1>5. n \in 0 .. n /\ 0 .. n \subseteq S
  <2> HIDE DEF S, n
  <2>1. 0 .. n \subseteq S
    BY <1>2, <1>3, <1>4, Climbs
  <2> QED
    BY <1>2, <2>1
<1> QED
  BY <1>1, <1>5

(***************************************************************************)
(* Cutting a list of strategies to its first n.                            *)
(***************************************************************************)
LEMMA AtMostKeeps ==
  ASSUME NEW T, NEW s \in Seq(T), NEW n \in Nat
  PROVE  /\ AtMost(n, s) \in Seq(T) /\ Len(AtMost(n, s)) \in 0 .. n
         /\ Distinct(s) => Distinct(AtMost(n, s))
<1> DEFINE m == IF Len(s) < n THEN Len(s) ELSE n
<1>1. m \in 0 .. n /\ m <= Len(s)
  OBVIOUS
<1>2. AtMost(n, s) = SubSeq(s, 1, m)
  BY DEF AtMost
<1> HIDE DEF m
<1>3. /\ SubSeq(s, 1, m) \in Seq(T) /\ Len(SubSeq(s, 1, m)) = m
      /\ DOMAIN SubSeq(s, 1, m) = 1 .. m /\ \A i \in 1 .. m : SubSeq(s, 1, m)[i] = s[i]
  BY <1>1
<1>4. \A i \in 1 .. m : i \in DOMAIN s
  BY <1>1
<1> QED
  BY <1>1, <1>2, <1>3, <1>4 DEF Distinct

(***************************************************************************)
(* discover_strategies: the first proposals leave distinct strategies, no  *)
(* more than the maximum.                                                  *)
(***************************************************************************)
LEMMA FirstKept ==
  ASSUME ArchitectAssumption, NEW T, NEW proposals \in Seq(T)
  PROVE  LET set == FirstSet(proposals)
         IN  /\ set.kept \in Seq(T) /\ Len(set.kept) \in 0 .. MAX_STRATEGIES
             /\ Distinct(set.kept) /\ set.needed \in Nat
<1> DEFINE set == ValidateSet(proposals, <<>>)
           kept == AtMost(MAX_STRATEGIES, set.kept)
<1>1. <<>> \in Seq(T) /\ Distinct(<<>>)
  BY DEF Distinct
<1>2. set.kept \in Seq(T) /\ set.rejected \in Nat /\ Distinct(set.kept)
  BY <1>1, KeptDistinct
<1> HIDE DEF set
<1>3. MAX_STRATEGIES \in Nat /\ MIN_STRATEGIES \in Nat
  BY DEF ArchitectAssumption
<1>4. kept \in Seq(T) /\ Len(kept) \in 0 .. MAX_STRATEGIES /\ Distinct(kept)
  BY <1>2, <1>3, AtMostKeeps
<1> HIDE DEF kept
<1>5. ASSUME NEW accepted \in Nat, NEW rejected \in Nat
      PROVE  ReplacementsNeeded(accepted, rejected) \in Nat
  BY <1>3 DEF ReplacementsNeeded
<1>6. ReplacementsNeeded(Len(kept), set.rejected) \in Nat
  <2>1. Len(kept) \in Nat
    BY <1>4
  <2> QED
    BY <1>2, <1>5, <2>1
<1>7. FirstSet(proposals) = [kept |-> kept, needed |-> ReplacementsNeeded(Len(kept), set.rejected)]
  BY DEF FirstSet, kept, set
<1> QED
  BY <1>4, <1>6, <1>7

(***************************************************************************)
(* discover_strategies: what the replacements add is distinct from what    *)
(* was kept, and the maximum holds.                                        *)
(***************************************************************************)
LEMMA SecondKept ==
  ASSUME ArchitectAssumption, NEW T, NEW kept \in Seq(T), Distinct(kept), NEW needed \in Nat,
         NEW replacement \in Seq(T)
  PROVE  LET second == SecondSet(kept, needed, replacement)
         IN  second \in Seq(T) /\ Len(second) \in 0 .. MAX_STRATEGIES /\ Distinct(second)
<1>1. AtMost(needed, replacement) \in Seq(T)
  BY AtMostKeeps
<1> DEFINE set == ValidateSet(AtMost(needed, replacement), kept)
<1>2. set.kept \in Seq(T) /\ Distinct(set.kept)
  BY <1>1, KeptDistinct
<1>3. MAX_STRATEGIES \in Nat
  BY DEF ArchitectAssumption
<1> QED
  BY <1>2, <1>3, AtMostKeeps DEF SecondSet

(***************************************************************************)
(* The least of some positions of a sequence.                              *)
(***************************************************************************)
LEMMA LeastIs ==
  ASSUME NEW n \in Nat, NEW s \in SUBSET (1 .. n), s # {}
  PROVE  \E m \in s : \A x \in s : m <= x
<1> DEFINE S == {k \in 0 .. n : (\A x \in s : x > k) \/ \E m \in s : \A x \in s : m <= x}
<1>1. \A x \in s : x \in 1 .. n
  OBVIOUS
<1>2. 0 \in S
  BY <1>1
<1>3. ASSUME NEW k \in 0 .. n - 1, k \in S
      PROVE  k + 1 \in S
  <2>1. CASE \E m \in s : \A x \in s : m <= x
    BY <2>1
  <2>2. CASE \A x \in s : x > k
    <3>1. CASE k + 1 \in s
      <4>1. \A x \in s : k + 1 <= x
        BY <1>1, <2>2
      <4> QED
        BY <3>1, <4>1
    <3>2. CASE k + 1 \notin s
      <4>1. \A x \in s : x > k + 1
        BY <1>1, <2>2, <3>2
      <4> QED
        BY <4>1
    <3> QED
      BY <3>1, <3>2
  <2> QED
    BY <1>3, <2>1, <2>2
<1>4. n \in S
  <2> HIDE DEF S
  <2>1. 0 .. n \subseteq S
    BY <1>2, <1>3, Climbs
  <2> QED
    BY <2>1
<1>5. ~\A x \in s : x > n
  <2>1. PICK x \in s : TRUE
    OBVIOUS
  <2>2. ~(x > n)
    BY <1>1, <2>1
  <2> QED
    BY <2>1, <2>2
<1> QED
  BY <1>4, <1>5

(***************************************************************************)
(* What validate_swarm collects: the team, and under which name of the     *)
(* team a merged specialist goes.                                          *)
(***************************************************************************)
Aliases == UNION {[names -> STRING] : names \in SUBSET STRING}

Placed == [team : Seq(AgentSpecProposal), alias : Aliases]

(***************************************************************************)
(* The specialist that already owns the work of a proposal, if there is    *)
(* one, is in the team.                                                    *)
(***************************************************************************)
LEMMA OwnerIs ==
  ASSUME NEW team \in Seq(AgentSpecProposal), NEW p
  PROVE  Owner(team, p) \in {0} \cup DOMAIN team
<1> DEFINE owners == {i \in DOMAIN team : Overlap(p.owns, team[i].owns, AgentOverlap)}
<1>1. Len(team) \in Nat /\ owners \in SUBSET (1 .. Len(team)) /\ DOMAIN team = 1 .. Len(team)
  OBVIOUS
<1>2. Owner(team, p) = IF owners = {} THEN 0 ELSE CHOOSE i \in owners : \A j \in owners : i <= j
  BY DEF Owner
<1> HIDE DEF owners
<1>3. owners # {} => \E i \in owners : \A j \in owners : i <= j
  BY <1>1, LeastIs
<1> QED
  BY <1>1, <1>2, <1>3

(***************************************************************************)
(* A merged specialist is a specialist, and keeps its name.                *)
(***************************************************************************)
LEMMA MergeIs ==
  ASSUME NEW base \in AgentSpecProposal, NEW extra \in AgentSpecProposal
  PROVE  MergeInto(base, extra) \in AgentSpecProposal /\ MergeInto(base, extra).name = base.name
BY DEF AgentSpecProposal, MergeInto

(***************************************************************************)
(* Placing a proposal adds it to the team or merges it into a member, and  *)
(* no other member changes its name.                                       *)
(***************************************************************************)
LEMMA PlaceIs ==
  ASSUME NEW acc \in Placed, NEW p \in AgentSpecProposal
  PROVE  /\ Place(acc, p).alias \in Aliases /\ Place(acc, p) \in Placed
         /\ \/ Place(acc, p).team = Append(acc.team, p)
            \/ /\ DOMAIN Place(acc, p).team = DOMAIN acc.team
               /\ \A i \in DOMAIN acc.team : Place(acc, p).team[i].name = acc.team[i].name
<1> DEFINE i == Owner(acc.team, p)
<1>1. /\ acc.team \in Seq(AgentSpecProposal) /\ acc.alias \in Aliases
      /\ acc = [team |-> acc.team, alias |-> acc.alias]
  BY DEF Placed
<1>2. i \in {0} \cup DOMAIN acc.team
  BY <1>1, OwnerIs
<1>3. CASE i = 0 \/ Justified(acc.team, i, p)
  <2> DEFINE longer == Append(acc.team, p)
  <2>1. longer \in Seq(AgentSpecProposal)
    BY <1>1
  <2>2. Place(acc, p) = [acc EXCEPT !.team = longer]
    BY <1>3 DEF Place
  <2> HIDE DEF longer
  <2>3. [acc EXCEPT !.team = longer] = [team |-> longer, alias |-> acc.alias]
    BY <1>1
  <2> QED
    BY <1>1, <2>1, <2>2, <2>3 DEF Placed, longer
<1>4. CASE ~(i = 0 \/ Justified(acc.team, i, p))
  <2> DEFINE team == [acc.team EXCEPT ![i] = MergeInto(@, p)]
             alias == [n \in DOMAIN acc.alias \cup {p.name} |->
                        IF n = p.name THEN acc.team[i].name ELSE acc.alias[n]]
  <2>1. Place(acc, p) = [team |-> team, alias |-> alias]
    BY <1>4 DEF Place
  <2>2. i \in DOMAIN acc.team
    BY <1>2, <1>4
  <2>3. /\ acc.team[i] \in AgentSpecProposal /\ MergeInto(acc.team[i], p) \in AgentSpecProposal
        /\ MergeInto(acc.team[i], p).name = acc.team[i].name
    BY <1>1, <2>2, MergeIs
  <2>4. /\ team \in Seq(AgentSpecProposal) /\ DOMAIN team = DOMAIN acc.team
        /\ \A k \in DOMAIN acc.team : team[k].name = acc.team[k].name
    <3> HIDE DEF i
    <3> QED
      BY <1>1, <2>2, <2>3
  <2>5. alias \in Aliases
    <3>1. acc.team[i].name \in STRING /\ p.name \in STRING
      BY <2>3 DEF AgentSpecProposal
    <3>2. DOMAIN acc.alias \in SUBSET STRING /\ \A n \in DOMAIN acc.alias : acc.alias[n] \in STRING
      BY <1>1 DEF Aliases
    <3> DEFINE names == DOMAIN acc.alias \cup {p.name}
    <3>3. alias \in [names -> STRING] /\ names \in SUBSET STRING
      BY <3>1, <3>2
    <3> HIDE DEF alias, names
    <3> QED
      BY <3>3 DEF Aliases
  <2> HIDE DEF team, alias
  <2> QED
    BY <2>1, <2>4, <2>5 DEF Placed
<1> QED
  BY <1>3, <1>4

(***************************************************************************)
(* A specialist whose dependencies were resolved differs from what it was  *)
(* in these alone.                                                         *)
(***************************************************************************)
LEMMA ResolvedTyped ==
  ASSUME NEW acc \in Placed, NEW p \in AgentSpecProposal
  PROVE  /\ NeedsOf(acc, p) \in SUBSET STRING
         /\ [p EXCEPT !.needs = NeedsOf(acc, p)] \in AgentSpecProposal
         /\ [p EXCEPT !.needs = NeedsOf(acc, p)].name = p.name
         /\ [p EXCEPT !.needs = NeedsOf(acc, p)].needs = NeedsOf(acc, p)
<1>1. \A n \in STRING : Known(acc.alias, n) \in STRING
  BY DEF Placed, Aliases, Known
<1>2. p.needs \in SUBSET STRING
  BY DEF AgentSpecProposal
<1>3. NeedsOf(acc, p) \in SUBSET STRING
  BY <1>1, <1>2 DEF NeedsOf
<1> QED
  BY <1>3 DEF AgentSpecProposal

(***************************************************************************)
(* The gate of validate_swarm takes the proposals one after the other.     *)
(***************************************************************************)
LEMMA GatedRuns ==
  ASSUME NEW proposals \in Seq(AgentSpecProposal)
  PROVE  \E run \in [0 .. Len(proposals) -> Seq(AgentSpecProposal)] :
           /\ run[0] = <<>>
           /\ \A k \in 1 .. Len(proposals) :
                run[k] = IF Passes(run[k - 1], proposals[k])
                         THEN Append(run[k - 1], proposals[k]) ELSE run[k - 1]
           /\ Gated(proposals) = run[Len(proposals)]
<1> DEFINE n == Len(proposals)
           X == Seq(AgentSpecProposal)
           base == <<>>
           Op(was, p) == IF Passes(was, p) THEN Append(was, p) ELSE was
           Solves(g) == g = [s \in SUBSET (1 .. n) |->
                              IF s = {} THEN base ELSE Op(g[s \ {Max(s)}], proposals[Max(s)])]
           iter == CHOOSE g : Solves(g)
           F == [i \in 1 .. n |-> [was \in X |-> Op(was, proposals[i])]]
<1>1. DOMAIN proposals = 1 .. n
  OBVIOUS
<1>2. Gated(proposals) = iter[1 .. n]
  BY <1>1 DEF Gated, FoldLeft, MapThenFoldSet
<1>3. n \in Nat /\ base \in X
  OBVIOUS
<1>4. ASSUME NEW i \in 1 .. n, NEW was \in X
      PROVE  Op(was, proposals[i]) \in X
  BY <1>1
<1> HIDE DEF n, X, base, Op
<1>5. F \in Tables(n, X) /\ \A i \in 1 .. n, was \in X : F[i][was] = Op(was, proposals[i])
  BY <1>4 DEF Tables
<1> HIDE DEF F
<1>6. PICK g \in [SUBSET (1 .. n) -> X] : Unfolds(g, n, base, F)
  BY <1>3, <1>5, FoldExists
<1>7. Solves(g)
  <2>1. ASSUME NEW s \in SUBSET (1 .. n), s # {}
        PROVE  F[Max(s)][g[s \ {Max(s)}]] = Op(g[s \ {Max(s)}], proposals[Max(s)])
    <3>1. Max(s) \in 1 .. n
      BY <1>3, <2>1, MaxIs
    <3> QED
      BY <1>5, <3>1
  <2> QED
    BY <1>6, <2>1 DEF Unfolds
<1>8. Solves(iter)
  <2> HIDE DEF Solves
  <2> QED
    BY <1>7
<1> HIDE DEF iter
<1>9. iter[{}] = base
  BY <1>8
<1>10. ASSUME NEW s \in SUBSET (1 .. n), s # {}, iter[s \ {Max(s)}] \in X
       PROVE  iter[s] = F[Max(s)][iter[s \ {Max(s)}]]
  <2>1. Max(s) \in 1 .. n
    BY <1>3, <1>10, MaxIs
  <2> QED
    BY <1>5, <1>8, <1>10, <2>1
<1>11. PICK run \in RunsOf(n, X) : Runs(run, n, base, F) /\ run[n] = iter[1 .. n]
  <2>1. UnfoldsIn(X, iter, n, base, F)
    BY <1>9, <1>10 DEF UnfoldsIn
  <2> QED
    BY <1>3, <1>5, <2>1, FoldRuns
<1>12. ASSUME NEW k \in 1 .. n
       PROVE  run[k] = Op(run[k - 1], proposals[k])
  <2>1. run[k - 1] \in X
    BY <1>3 DEF RunsOf
  <2> QED
    BY <1>5, <1>11, <2>1 DEF Runs
<1> QED
  BY <1>2, <1>11, <1>12 DEF n, X, base, RunsOf, Runs, Op

(***************************************************************************)
(* The merge of validate_swarm places the specialists one after the other. *)
(***************************************************************************)
LEMMA MergedRuns ==
  ASSUME NEW kept \in Seq(AgentSpecProposal)
  PROVE  \E run \in [0 .. Len(kept) -> Placed] :
           /\ run[0] = [team |-> <<>>, alias |-> [x \in {} |-> ""]]
           /\ \A k \in 1 .. Len(kept) : run[k] = Place(run[k - 1], kept[k])
           /\ Merged2(kept) = run[Len(kept)]
<1> DEFINE n == Len(kept)
           X == Placed
           base == [team |-> <<>>, alias |-> [x \in {} |-> ""]]
           Op(was, p) == Place(was, p)
           Solves(g) == g = [s \in SUBSET (1 .. n) |->
                              IF s = {} THEN base ELSE Op(g[s \ {Max(s)}], kept[Max(s)])]
           iter == CHOOSE g : Solves(g)
           F == [i \in 1 .. n |-> [was \in X |-> Op(was, kept[i])]]
<1>1. DOMAIN kept = 1 .. n
  OBVIOUS
<1>2. Merged2(kept) = iter[1 .. n]
  BY <1>1 DEF Merged2, FoldLeft, MapThenFoldSet
<1>3. n \in Nat /\ base \in X
  <2> DEFINE none == [x \in {} |-> ""]
  <2>1. none \in [{} -> STRING] /\ {} \in SUBSET STRING
    OBVIOUS
  <2> HIDE DEF none
  <2>2. none \in Aliases
    BY <2>1 DEF Aliases
  <2> QED
    BY <2>2 DEF Placed, none
<1>4. ASSUME NEW i \in 1 .. n, NEW was \in X
      PROVE  Op(was, kept[i]) \in X
  BY <1>1, PlaceIs
<1> HIDE DEF n, X, base, Op
<1>5. F \in Tables(n, X) /\ \A i \in 1 .. n, was \in X : F[i][was] = Op(was, kept[i])
  BY <1>4 DEF Tables
<1> HIDE DEF F
<1>6. PICK g \in [SUBSET (1 .. n) -> X] : Unfolds(g, n, base, F)
  BY <1>3, <1>5, FoldExists
<1>7. Solves(g)
  <2>1. ASSUME NEW s \in SUBSET (1 .. n), s # {}
        PROVE  F[Max(s)][g[s \ {Max(s)}]] = Op(g[s \ {Max(s)}], kept[Max(s)])
    <3>1. Max(s) \in 1 .. n
      BY <1>3, <2>1, MaxIs
    <3> QED
      BY <1>5, <3>1
  <2> QED
    BY <1>6, <2>1 DEF Unfolds
<1>8. Solves(iter)
  <2> HIDE DEF Solves
  <2> QED
    BY <1>7
<1> HIDE DEF iter
<1>9. iter[{}] = base
  BY <1>8
<1>10. ASSUME NEW s \in SUBSET (1 .. n), s # {}, iter[s \ {Max(s)}] \in X
       PROVE  iter[s] = F[Max(s)][iter[s \ {Max(s)}]]
  <2>1. Max(s) \in 1 .. n
    BY <1>3, <1>10, MaxIs
  <2> QED
    BY <1>5, <1>8, <1>10, <2>1
<1>11. PICK run \in RunsOf(n, X) : Runs(run, n, base, F) /\ run[n] = iter[1 .. n]
  <2>1. UnfoldsIn(X, iter, n, base, F)
    BY <1>9, <1>10 DEF UnfoldsIn
  <2> QED
    BY <1>3, <1>5, <2>1, FoldRuns
<1>12. ASSUME NEW k \in 1 .. n
       PROVE  run[k] = Op(run[k - 1], kept[k])
  <2>1. run[k - 1] \in X
    BY <1>3 DEF RunsOf
  <2> QED
    BY <1>5, <1>11, <2>1 DEF Runs
<1> QED
  BY <1>2, <1>11, <1>12 DEF n, X, base, RunsOf, Runs, Op

(***************************************************************************)
(* The last pass of validate_swarm goes over the merged team, member by    *)
(* member.                                                                 *)
(***************************************************************************)
LEMMA AcceptedRuns ==
  ASSUME NEW acc \in Placed, NEW names
  PROVE  \E run \in [0 .. Len(acc.team) -> Seq(AgentSpecProposal)] :
           /\ run[0] = <<>>
           /\ \A k \in 1 .. Len(acc.team) :
                run[k] = IF acc.team[k].name \in names
                         THEN Append(run[k - 1],
                                [acc.team[k] EXCEPT !.needs = NeedsOf(acc, acc.team[k])])
                         ELSE run[k - 1]
           /\ Accepted(acc, names) = run[Len(acc.team)]
<1> DEFINE n == Len(acc.team)
           X == Seq(AgentSpecProposal)
           base == <<>>
           Op(was, p) == IF p.name \in names
                         THEN Append(was, [p EXCEPT !.needs = NeedsOf(acc, p)]) ELSE was
           Solves(g) == g = [s \in SUBSET (1 .. n) |->
                              IF s = {} THEN base ELSE Op(g[s \ {Max(s)}], acc.team[Max(s)])]
           iter == CHOOSE g : Solves(g)
           F == [i \in 1 .. n |-> [was \in X |-> Op(was, acc.team[i])]]
<1>1. DOMAIN acc.team = 1 .. n /\ acc.team \in Seq(AgentSpecProposal)
  BY DEF Placed
<1>2. Accepted(acc, names) = iter[1 .. n]
  BY <1>1 DEF Accepted, FoldLeft, MapThenFoldSet
<1>3. n \in Nat /\ base \in X
  BY <1>1
<1>4. ASSUME NEW i \in 1 .. n, NEW was \in X
      PROVE  Op(was, acc.team[i]) \in X
  <2>1. acc.team[i] \in AgentSpecProposal
    BY <1>1
  <2> QED
    BY <2>1, ResolvedTyped
<1> HIDE DEF n, X, base, Op
<1>5. F \in Tables(n, X) /\ \A i \in 1 .. n, was \in X : F[i][was] = Op(was, acc.team[i])
  BY <1>4 DEF Tables
<1> HIDE DEF F
<1>6. PICK g \in [SUBSET (1 .. n) -> X] : Unfolds(g, n, base, F)
  BY <1>3, <1>5, FoldExists
<1>7. Solves(g)
  <2>1. ASSUME NEW s \in SUBSET (1 .. n), s # {}
        PROVE  F[Max(s)][g[s \ {Max(s)}]] = Op(g[s \ {Max(s)}], acc.team[Max(s)])
    <3>1. Max(s) \in 1 .. n
      BY <1>3, <2>1, MaxIs
    <3> QED
      BY <1>5, <3>1
  <2> QED
    BY <1>6, <2>1 DEF Unfolds
<1>8. Solves(iter)
  <2> HIDE DEF Solves
  <2> QED
    BY <1>7
<1> HIDE DEF iter
<1>9. iter[{}] = base
  BY <1>8
<1>10. ASSUME NEW s \in SUBSET (1 .. n), s # {}, iter[s \ {Max(s)}] \in X
       PROVE  iter[s] = F[Max(s)][iter[s \ {Max(s)}]]
  <2>1. Max(s) \in 1 .. n
    BY <1>3, <1>10, MaxIs
  <2> QED
    BY <1>5, <1>8, <1>10, <2>1
<1>11. PICK run \in RunsOf(n, X) : Runs(run, n, base, F) /\ run[n] = iter[1 .. n]
  <2>1. UnfoldsIn(X, iter, n, base, F)
    BY <1>9, <1>10 DEF UnfoldsIn
  <2> QED
    BY <1>3, <1>5, <2>1, FoldRuns
<1>12. ASSUME NEW k \in 1 .. n
       PROVE  run[k] = Op(run[k - 1], acc.team[k])
  <2>1. run[k - 1] \in X
    BY <1>3 DEF RunsOf
  <2> QED
    BY <1>5, <1>11, <2>1 DEF Runs
<1> QED
  BY <1>2, <1>11, <1>12 DEF n, X, base, RunsOf, Runs, Op

(***************************************************************************)
(* Who goes first is a member.                                             *)
(***************************************************************************)
LEMMA VictimIs ==
  ASSUME NEW team \in Seq(AgentSpecProposal), team # <<>>
  PROVE  Victim(team) \in DOMAIN team
<1>1. Len(team) \in Nat /\ Leaves(team) \in SUBSET (1 .. Len(team)) /\ DOMAIN team = 1 .. Len(team)
      /\ Len(team) \in 1 .. Len(team)
  BY DEF Leaves
<1>2. Leaves(team) # {} => \E i \in Leaves(team) : \A j \in Leaves(team) : j <= i
  BY <1>1, MaxIs
<1> QED
  BY <1>1, <1>2 DEF Victim

(***************************************************************************)
(* A team without one member: the others keep their names and their order, *)
(* and no longer depend on the one that left. From(k) is the position the  *)
(* k-th of them had.                                                       *)
(***************************************************************************)
LEMMA WithoutIs ==
  ASSUME NEW team \in Seq(AgentSpecProposal), NEW i \in DOMAIN team
  PROVE  LET rest == Without(team, i)
             From(k) == IF k < i THEN k ELSE k + 1
         IN  /\ rest \in Seq(AgentSpecProposal) /\ Len(rest) = Len(team) - 1
             /\ \A k \in DOMAIN rest :
                  /\ From(k) \in DOMAIN team \ {i} /\ rest[k].name = team[From(k)].name
                  /\ rest[k].needs = team[From(k)].needs \ {team[i].name}
             /\ \A j \in DOMAIN team \ {i} : \E k \in DOMAIN rest : From(k) = j
<1> DEFINE From(k) == IF k < i THEN k ELSE k + 1
           rest == RemoveAt(team, i)
           n == Len(team)
           A == SubSeq(team, 1, i - 1)
           B == SubSeq(team, i + 1, n)
<1>1. /\ n \in Nat /\ i \in 1 .. n /\ DOMAIN team = 1 .. n
      /\ \A k \in 1 .. n : team[k] \in AgentSpecProposal
  OBVIOUS
<1>2. /\ A \in Seq(AgentSpecProposal) /\ Len(A) = i - 1
      /\ \A k \in 1 .. i - 1 : A[k] = team[k]
  BY <1>1
<1>3. /\ B \in Seq(AgentSpecProposal) /\ Len(B) = n - i
      /\ \A k \in 1 .. n - i : B[k] = team[k + i]
  BY <1>1
<1>4. rest = A \o B
  BY DEF RemoveAt
<1> HIDE DEF A, B
<1>5. rest \in Seq(AgentSpecProposal) /\ Len(rest) = n - 1 /\ DOMAIN rest = 1 .. n - 1
      /\ \A k \in 1 .. n - 1 : rest[k] = IF k < i THEN A[k] ELSE B[k - (i - 1)]
  <2> HIDE DEF n
  <2>1. A \o B \in Seq(AgentSpecProposal) /\ Len(A \o B) = Len(A) + Len(B)
    <3>1. A \in Seq(AgentSpecProposal) /\ B \in Seq(AgentSpecProposal)
      BY <1>2, <1>3
    <3> QED
      BY <3>1
  <2>2. Len(A) + Len(B) = n - 1 /\ n - 1 \in Nat
    BY <1>1, <1>2, <1>3
  <2>3. \A k \in 1 .. Len(A) + Len(B) :
          (A \o B)[k] = IF k <= Len(A) THEN A[k] ELSE B[k - Len(A)]
    BY <1>2, <1>3
  <2>4. DOMAIN (A \o B) = 1 .. Len(A \o B)
    BY <2>1
  <2>5. \A k \in 1 .. n - 1 : k <= i - 1 <=> k < i
    BY <1>1
  <2> HIDE DEF rest
  <2> QED
    BY <1>2, <1>4, <2>1, <2>2, <2>3, <2>4, <2>5
<1>6. ASSUME NEW k \in 1 .. n - 1
      PROVE  rest[k] = team[From(k)] /\ From(k) \in 1 .. n /\ From(k) # i
  <2> HIDE DEF n, rest
  <2>1. CASE k < i
    <3>1. k \in 1 .. i - 1 /\ k \in 1 .. n /\ k # i
      BY <1>1, <2>1
    <3>2. rest[k] = A[k]
      BY <1>5, <2>1
    <3> QED
      BY <1>2, <2>1, <3>1, <3>2
  <2>2. CASE ~(k < i)
    <3>1. rest[k] = B[k - (i - 1)]
      BY <1>5, <2>2
    <3>2. k - (i - 1) \in 1 .. n - i /\ k - (i - 1) + i = k + 1
          /\ k + 1 \in 1 .. n /\ k + 1 # i
      BY <1>1, <2>2
    <3>3. rest[k] = team[k + 1]
      BY <1>3, <3>1, <3>2
    <3> QED
      BY <2>2, <3>2, <3>3
  <2> QED
    BY <2>1, <2>2
<1> HIDE DEF rest
<1> DEFINE gone == team[i].name
           after == [k \in DOMAIN rest |-> [rest[k] EXCEPT !.needs = @ \ {gone}]]
<1>7. Without(team, i) = after
  BY DEF Without, rest
<1> HIDE DEF gone
<1>8. ASSUME NEW p \in AgentSpecProposal
      PROVE  LET q == [p EXCEPT !.needs = @ \ {gone}]
             IN  q \in AgentSpecProposal /\ q.name = p.name /\ q.needs = p.needs \ {gone}
  BY DEF AgentSpecProposal
<1>9. \A k \in DOMAIN rest :
        after[k] \in AgentSpecProposal /\ after[k].name = rest[k].name
        /\ after[k].needs = rest[k].needs \ {gone}
  <2> SUFFICES ASSUME NEW k \in DOMAIN rest
               PROVE  after[k] \in AgentSpecProposal /\ after[k].name = rest[k].name
                      /\ after[k].needs = rest[k].needs \ {gone}
    OBVIOUS
  <2>1. rest[k] \in AgentSpecProposal
    BY <1>5
  <2>2. after[k] = [rest[k] EXCEPT !.needs = @ \ {gone}]
    OBVIOUS
  <2> HIDE DEF after
  <2> QED
    BY <1>8, <2>1, <2>2
<1>10. after \in Seq(AgentSpecProposal) /\ Len(after) = n - 1 /\ DOMAIN after = 1 .. n - 1
  <2> HIDE DEF n
  <2>1. n - 1 \in Nat /\ DOMAIN after = 1 .. n - 1
    BY <1>1, <1>5
  <2>2. \A k \in 1 .. n - 1 : after[k] \in AgentSpecProposal
    BY <1>5, <1>9
  <2>3. after = [k \in 1 .. n - 1 |-> after[k]]
    BY <1>5
  <2> HIDE DEF after
  <2>4. after \in [1 .. n - 1 -> AgentSpecProposal]
    BY <2>2, <2>3
  <2> QED
    BY <2>1, <2>4
<1>11. ASSUME NEW j \in 1 .. n, j # i
       PROVE  \E k \in 1 .. n - 1 : From(k) = j
  <2>1. CASE j < i
    <3>1. j \in 1 .. n - 1 /\ From(j) = j
      BY <1>1, <2>1
    <3> QED
      BY <3>1
  <2>2. CASE ~(j < i)
    <3>1. j - 1 \in 1 .. n - 1 /\ From(j - 1) = j
      BY <1>1, <1>11, <2>2
    <3> QED
      BY <3>1
  <2> QED
    BY <2>1, <2>2
<1> HIDE DEF after, n
<1> QED
  BY <1>1, <1>5, <1>6, <1>7, <1>9, <1>10, <1>11 DEF gone, n

(***************************************************************************)
(* truncate_to_cap drops at most one member per round.                     *)
(***************************************************************************)
LEMMA TruncateRuns ==
  ASSUME NEW members \in Seq(AgentSpecProposal), NEW cap \in Nat
  PROVE  \E run \in [0 .. Len(members) -> Seq(AgentSpecProposal)] :
           /\ run[0] = members
           /\ \A k \in 1 .. Len(members) :
                run[k] = IF Len(run[k - 1]) > cap
                         THEN Without(run[k - 1], Victim(run[k - 1])) ELSE run[k - 1]
           /\ TruncateToCap(members, cap) = run[Len(members)]
<1> DEFINE n == Len(members)
           X == Seq(AgentSpecProposal)
           base == members
           Op(was, p) == IF Len(was) > cap THEN Without(was, Victim(was)) ELSE was
           Solves(g) == g = [s \in SUBSET (1 .. n) |->
                              IF s = {} THEN base ELSE Op(g[s \ {Max(s)}], members[Max(s)])]
           iter == CHOOSE g : Solves(g)
           F == [i \in 1 .. n |-> [was \in X |-> Op(was, members[i])]]
<1>1. DOMAIN members = 1 .. n
  OBVIOUS
<1>2. TruncateToCap(members, cap) = iter[1 .. n]
  BY <1>1 DEF TruncateToCap, FoldLeft, MapThenFoldSet
<1>3. n \in Nat /\ base \in X
  OBVIOUS
<1>4. ASSUME NEW i \in 1 .. n, NEW was \in X
      PROVE  Op(was, members[i]) \in X
  <2>1. ASSUME Len(was) > cap
        PROVE  Without(was, Victim(was)) \in X
    <3>1. was # <<>>
      BY <2>1
    <3> QED
      BY <3>1, VictimIs, WithoutIs
  <2> QED
    BY <2>1
<1> HIDE DEF n, X, base, Op
<1>5. F \in Tables(n, X) /\ \A i \in 1 .. n, was \in X : F[i][was] = Op(was, members[i])
  BY <1>4 DEF Tables
<1> HIDE DEF F
<1>6. PICK g \in [SUBSET (1 .. n) -> X] : Unfolds(g, n, base, F)
  BY <1>3, <1>5, FoldExists
<1>7. Solves(g)
  <2>1. ASSUME NEW s \in SUBSET (1 .. n), s # {}
        PROVE  F[Max(s)][g[s \ {Max(s)}]] = Op(g[s \ {Max(s)}], members[Max(s)])
    <3>1. Max(s) \in 1 .. n
      BY <1>3, <2>1, MaxIs
    <3> QED
      BY <1>5, <3>1
  <2> QED
    BY <1>6, <2>1 DEF Unfolds
<1>8. Solves(iter)
  <2> HIDE DEF Solves
  <2> QED
    BY <1>7
<1> HIDE DEF iter
<1>9. iter[{}] = base
  BY <1>8
<1>10. ASSUME NEW s \in SUBSET (1 .. n), s # {}, iter[s \ {Max(s)}] \in X
       PROVE  iter[s] = F[Max(s)][iter[s \ {Max(s)}]]
  <2>1. Max(s) \in 1 .. n
    BY <1>3, <1>10, MaxIs
  <2> QED
    BY <1>5, <1>8, <1>10, <2>1
<1>11. PICK run \in RunsOf(n, X) : Runs(run, n, base, F) /\ run[n] = iter[1 .. n]
  <2>1. UnfoldsIn(X, iter, n, base, F)
    BY <1>9, <1>10 DEF UnfoldsIn
  <2> QED
    BY <1>3, <1>5, <2>1, FoldRuns
<1>12. ASSUME NEW k \in 1 .. n
       PROVE  run[k] = Op(run[k - 1], members[k])
  <2>1. run[k - 1] \in X
    BY <1>3 DEF RunsOf
  <2> QED
    BY <1>5, <1>11, <2>1 DEF Runs
<1> QED
  BY <1>2, <1>11, <1>12 DEF n, X, base, RunsOf, Runs, Op

(***************************************************************************)
(* No two members have one name.                                           *)
(***************************************************************************)
NamesApart(team) == \A i, j \in DOMAIN team : i # j => team[i].name # team[j].name

(***************************************************************************)
(* A team every member of which can start at some time: names are not      *)
(* shared, members depend on members, and in any group of them there is    *)
(* one that waits for none of the group. That is what a topological order  *)
(* gives, and removing a member keeps it.                                  *)
(***************************************************************************)
Orderly(team) ==
  /\ NamesApart(team)
  /\ \A i \in DOMAIN team : team[i].needs \subseteq Names(team)
  /\ \A T \in SUBSET Names(team) : T # {} =>
       \E i \in DOMAIN team : team[i].name \in T /\ team[i].needs \cap T = {}

(***************************************************************************)
(* A specialist with a new name can join.                                  *)
(***************************************************************************)
LEMMA AppendApart ==
  ASSUME NEW S, NEW team \in Seq(S), NEW p \in S, NamesApart(team),
         \A i \in DOMAIN team : team[i].name # p.name
  PROVE  NamesApart(Append(team, p))
<1> DEFINE n == Len(team)
           longer == Append(team, p)
<1>1. /\ n \in Nat /\ DOMAIN team = 1 .. n /\ DOMAIN longer = 1 .. n + 1
      /\ longer[n + 1] = p /\ \A i \in 1 .. n : longer[i] = team[i]
  OBVIOUS
<1> HIDE DEF n, longer
<1>2. \A i \in 1 .. n + 1 : i # n + 1 => i \in 1 .. n
  BY <1>1
<1>3. ASSUME NEW i \in 1 .. n + 1, NEW j \in 1 .. n + 1, i # j
      PROVE  longer[i].name # longer[j].name
  <2>1. CASE i = n + 1
    BY <1>1, <1>2, <1>3, <2>1
  <2>2. CASE j = n + 1
    BY <1>1, <1>2, <1>3, <2>2
  <2>3. CASE i # n + 1 /\ j # n + 1
    BY <1>1, <1>2, <1>3, <2>3 DEF NamesApart
  <2> QED
    BY <2>1, <2>2, <2>3
<1> QED
  BY <1>1, <1>3 DEF NamesApart, longer

(***************************************************************************)
(* The gate lets no name through twice.                                    *)
(***************************************************************************)
LEMMA GatedApart ==
  ASSUME NEW proposals \in Seq(AgentSpecProposal)
  PROVE  Gated(proposals) \in Seq(AgentSpecProposal) /\ NamesApart(Gated(proposals))
<1> DEFINE n == Len(proposals)
<1>1. PICK run \in [0 .. n -> Seq(AgentSpecProposal)] :
        /\ run[0] = <<>>
        /\ \A k \in 1 .. n : run[k] = IF Passes(run[k - 1], proposals[k])
                                      THEN Append(run[k - 1], proposals[k]) ELSE run[k - 1]
        /\ Gated(proposals) = run[n]
  BY GatedRuns
<1> DEFINE S == {k \in 0 .. n : NamesApart(run[k])}
<1>2. n \in Nat /\ n \in 0 .. n /\ \A k \in 1 .. n : proposals[k] \in AgentSpecProposal
  OBVIOUS
<1> HIDE DEF n
<1>3. 0 \in S
  BY <1>1, <1>2 DEF NamesApart
<1>4. ASSUME NEW k \in 0 .. n - 1, k \in S
      PROVE  k + 1 \in S
  <2>1. k + 1 \in 1 .. n /\ k + 1 \in 0 .. n /\ (k + 1) - 1 = k /\ k \in 0 .. n
    BY <1>2
  <2>2. NamesApart(run[k]) /\ run[k] \in Seq(AgentSpecProposal)
    BY <1>4, <2>1
  <2>3. run[k + 1] = IF Passes(run[k], proposals[k + 1])
                     THEN Append(run[k], proposals[k + 1]) ELSE run[k]
    BY <1>1, <2>1
  <2>4. Passes(run[k], proposals[k + 1]) =>
          \A i \in DOMAIN run[k] : run[k][i].name # proposals[k + 1].name
    BY DEF Passes, Names
  <2>5. NamesApart(run[k + 1])
    BY <1>2, <2>1, <2>2, <2>3, <2>4, AppendApart
  <2> QED
    BY <2>1, <2>5
<1>5. 0 .. n \subseteq S
  <2> HIDE DEF S
  <2> QED
    BY <1>2, <1>3, <1>4, Climbs
<1> QED
  BY <1>1, <1>2, <1>5

(***************************************************************************)
(* Merging specialists does not give two of them one name.                 *)
(***************************************************************************)
LEMMA MergedApart ==
  ASSUME NEW kept \in Seq(AgentSpecProposal), NamesApart(kept)
  PROVE  Merged2(kept) \in Placed /\ NamesApart(Merged2(kept).team)
<1> DEFINE n == Len(kept)
<1>1. PICK run \in [0 .. n -> Placed] :
        /\ run[0] = [team |-> <<>>, alias |-> [x \in {} |-> ""]]
        /\ \A k \in 1 .. n : run[k] = Place(run[k - 1], kept[k])
        /\ Merged2(kept) = run[n]
  BY MergedRuns
<1> DEFINE From(k, name) == \E j \in 1 .. k : name = kept[j].name
           S == {k \in 0 .. n : /\ NamesApart(run[k].team)
                                /\ \A i \in DOMAIN run[k].team : From(k, run[k].team[i].name)}
<1>2. /\ n \in Nat /\ n \in 0 .. n /\ DOMAIN kept = 1 .. n
      /\ \A k \in 1 .. n : kept[k] \in AgentSpecProposal
  OBVIOUS
<1> HIDE DEF n
<1>3. 0 \in S
  BY <1>1, <1>2 DEF NamesApart
<1>4. ASSUME NEW k \in 0 .. n - 1, k \in S
      PROVE  k + 1 \in S
  <2>1. /\ k + 1 \in 1 .. n /\ k + 1 \in 0 .. n /\ (k + 1) - 1 = k /\ k \in 0 .. n
        /\ 1 .. k \subseteq 1 .. k + 1
    BY <1>2
  <2> DEFINE acc == run[k]
             p == kept[k + 1]
             next == Place(acc, p)
  <2>2. acc \in Placed /\ p \in AgentSpecProposal /\ run[k + 1] = next
    BY <1>1, <1>2, <2>1
  <2>3. NamesApart(acc.team) /\ \A i \in DOMAIN acc.team : From(k, acc.team[i].name)
    BY <1>4
  <2>4. acc.team \in Seq(AgentSpecProposal)
    BY <2>2 DEF Placed
  <2>5. \A j \in 1 .. k : kept[j].name # p.name
    BY <1>2, <2>1 DEF NamesApart
  <2>6. \A i \in DOMAIN acc.team : acc.team[i].name # p.name
    BY <2>3, <2>5
  <2>7. \A name : From(k, name) => From(k + 1, name)
    BY <2>1
  <2>8. From(k + 1, p.name)
    BY <2>1
  <2> HIDE DEF acc, p, From
  <2>9. NamesApart(next.team) /\ \A i \in DOMAIN next.team : From(k + 1, next.team[i].name)
    <3>1. CASE next.team = Append(acc.team, p)
      <4>1. NamesApart(next.team)
        BY <2>2, <2>3, <2>4, <2>6, <3>1, AppendApart
      <4>2. \A i \in DOMAIN next.team :
              next.team[i] = p \/ (i \in DOMAIN acc.team /\ next.team[i] = acc.team[i])
        BY <2>4, <3>1
      <4> QED
        BY <2>3, <2>7, <2>8, <4>1, <4>2
    <3>2. CASE /\ DOMAIN next.team = DOMAIN acc.team
               /\ \A i \in DOMAIN acc.team : next.team[i].name = acc.team[i].name
      BY <2>3, <2>7, <3>2 DEF NamesApart
    <3> QED
      BY <2>2, <3>1, <3>2, PlaceIs
  <2> QED
    BY <2>1, <2>2, <2>9
<1>5. 0 .. n \subseteq S
  <2> HIDE DEF S
  <2> QED
    BY <1>2, <1>3, <1>4, Climbs
<1> QED
  BY <1>1, <1>2, <1>5

(***************************************************************************)
(* The names can be put in an order in which each comes after what it      *)
(* needs.                                                                  *)
(***************************************************************************)
CanFollow(acc, names) ==
  /\ names \subseteq Names(acc.team)
  /\ \A i \in DOMAIN acc.team : acc.team[i].name \in names =>
       NeedsOf(acc, acc.team[i]) \subseteq names
  /\ \A T \in SUBSET names : T # {} =>
       \E n \in T : \A i \in DOMAIN acc.team : acc.team[i].name = n =>
          NeedsOf(acc, acc.team[i]) \cap T = {}

(***************************************************************************)
(* validate_swarm keeps only specialists all of whose dependencies are     *)
(* kept.                                                                   *)
(***************************************************************************)
LEMMA ResolvableIs ==
  ASSUME NEW acc \in Placed
  PROVE  /\ Resolvable(acc) \subseteq Names(acc.team)
         /\ \A i \in DOMAIN acc.team : acc.team[i].name \in Resolvable(acc) =>
              NeedsOf(acc, acc.team[i]) \subseteq Resolvable(acc)
BY DEF Resolvable

(***************************************************************************)
(* Those that topological_layers places can be put in order, and their     *)
(* dependencies are among them.                                            *)
(***************************************************************************)
LEMMA OrderedIs ==
  ASSUME NEW acc \in Placed
  PROVE  CanFollow(acc, Ordered(acc, Resolvable(acc)))
<1> DEFINE R == Resolvable(acc)
           graph == BuildGraph(acc, R)
           Takes(S) == {n \in R : graph[n] \subseteq S}
           names == Ordered(acc, R)
<1>1. names = {n \in R : \A S \in SUBSET R : Takes(S) \subseteq S => n \in S}
  BY DEF Ordered
<1>2. ASSUME NEW i \in DOMAIN acc.team, acc.team[i].name \in R
      PROVE  NeedsOf(acc, acc.team[i]) \subseteq graph[acc.team[i].name]
  <2>1. NeedsOf(acc, acc.team[i]) \subseteq R
    BY <1>2, ResolvableIs
  <2> QED
    BY <1>2, <2>1 DEF BuildGraph
<1> HIDE DEF graph, names
<1>3. names \subseteq R /\ R \subseteq Names(acc.team)
  BY <1>1, ResolvableIs
<1> HIDE DEF R
<1>4. Takes(names) \subseteq names
  BY <1>1
<1>5. names \subseteq Takes(names)
  <2>1. Takes(Takes(names)) \subseteq Takes(names)
    BY <1>4
  <2>2. Takes(names) \in SUBSET R
    OBVIOUS
  <2> HIDE DEF Takes
  <2> QED
    BY <1>1, <2>1, <2>2
<1>6. \A i \in DOMAIN acc.team : acc.team[i].name \in names =>
        NeedsOf(acc, acc.team[i]) \subseteq names
  BY <1>2, <1>3, <1>5
<1>7. ASSUME NEW T \in SUBSET names, T # {}
      PROVE  \E n \in T : graph[n] \cap T = {}
  <2> SUFFICES ASSUME \A n \in T : graph[n] \cap T # {} PROVE FALSE
    OBVIOUS
  <2>1. Takes(R \ T) \subseteq R \ T
    OBVIOUS
  <2>2. names \subseteq R \ T
    <3> HIDE DEF Takes
    <3> QED
      BY <1>1, <2>1
  <2> QED
    BY <1>7, <2>2
<1>8. ASSUME NEW T \in SUBSET names, T # {}
      PROVE  \E n \in T : \A i \in DOMAIN acc.team : acc.team[i].name = n =>
                     NeedsOf(acc, acc.team[i]) \cap T = {}
  <2>1. PICK n \in T : graph[n] \cap T = {}
    BY <1>7, <1>8
  <2> QED
    BY <1>2, <1>3, <2>1
<1> QED
  BY <1>3, <1>6, <1>8 DEF CanFollow, names, R

(***************************************************************************)
(* The team made of such names is in order.                                *)
(***************************************************************************)
LEMMA AcceptedOrderly ==
  ASSUME NEW acc \in Placed, NamesApart(acc.team), NEW names, CanFollow(acc, names)
  PROVE  Accepted(acc, names) \in Seq(AgentSpecProposal) /\ Orderly(Accepted(acc, names))
<1> DEFINE n == Len(acc.team)
           Resolved(p) == [p EXCEPT !.needs = NeedsOf(acc, p)]
<1>1. PICK run \in [0 .. n -> Seq(AgentSpecProposal)] :
        /\ run[0] = <<>>
        /\ \A k \in 1 .. n :
             run[k] = IF acc.team[k].name \in names
                      THEN Append(run[k - 1], Resolved(acc.team[k])) ELSE run[k - 1]
        /\ Accepted(acc, names) = run[n]
  BY AcceptedRuns
<1> DEFINE Stems(k, p) ==
             \E j \in 1 .. k : /\ acc.team[j].name = p.name /\ p.name \in names
                               /\ p.needs = NeedsOf(acc, acc.team[j])
           Has(team, name) == \E i \in DOMAIN team : team[i].name = name
           S == {k \in 0 .. n :
                   /\ NamesApart(run[k]) /\ \A i \in DOMAIN run[k] : Stems(k, run[k][i])
                   /\ \A j \in 1 .. k : acc.team[j].name \in names => Has(run[k], acc.team[j].name)}
<1>2. acc.team \in Seq(AgentSpecProposal)
  BY DEF Placed
<1>3. /\ n \in Nat /\ n \in 0 .. n /\ DOMAIN acc.team = 1 .. n
      /\ \A k \in 1 .. n : acc.team[k] \in AgentSpecProposal
  BY <1>2
<1>4. \A k \in 1 .. n : /\ Resolved(acc.team[k]) \in AgentSpecProposal
                        /\ Resolved(acc.team[k]).name = acc.team[k].name
                        /\ Resolved(acc.team[k]).needs = NeedsOf(acc, acc.team[k])
  BY <1>3, ResolvedTyped
<1> HIDE DEF n, Resolved
<1>5. 0 \in S
  BY <1>1, <1>3 DEF NamesApart
<1>6. ASSUME NEW k \in 0 .. n - 1, k \in S
      PROVE  k + 1 \in S
  <2>1. /\ k + 1 \in 1 .. n /\ k + 1 \in 0 .. n /\ (k + 1) - 1 = k /\ k \in 0 .. n
        /\ 1 .. k \subseteq 1 .. k + 1 /\ k + 1 \notin 1 .. k
        /\ \A j \in 1 .. k + 1 : j \in 1 .. k \/ j = k + 1
    BY <1>3
  <2> DEFINE was == run[k]
             p == acc.team[k + 1]
             next == run[k + 1]
  <2>2. was \in Seq(AgentSpecProposal) /\ next \in Seq(AgentSpecProposal)
    BY <2>1
  <2>3. /\ NamesApart(was) /\ \A i \in DOMAIN was : Stems(k, was[i])
        /\ \A j \in 1 .. k : acc.team[j].name \in names => Has(was, acc.team[j].name)
    BY <1>6
  <2>4. next = IF p.name \in names THEN Append(was, Resolved(p)) ELSE was
    BY <1>1, <2>1
  <2>5. /\ Resolved(p) \in AgentSpecProposal /\ Resolved(p).name = p.name
        /\ Resolved(p).needs = NeedsOf(acc, p)
    BY <1>4, <2>1
  <2>6. \A j \in 1 .. k : acc.team[j].name # p.name
    <3>1. \A j \in 1 .. k : j \in 1 .. n /\ j # k + 1
      BY <1>3, <2>1
    <3> QED
      BY <1>3, <2>1, <3>1 DEF NamesApart
  <2>7. \A i \in DOMAIN was : was[i].name # p.name
    BY <2>3, <2>6
  <2>8. \A q : Stems(k, q) => Stems(k + 1, q)
    BY <2>1
  <2>9. p.name \in names => Stems(k + 1, Resolved(p))
    BY <2>1, <2>5
  <2> HIDE DEF was, next, Stems
  <2>10. CASE p.name \in names
    <3>1. next = Append(was, Resolved(p))
      BY <2>4, <2>10
    <3>2. NamesApart(next)
      BY <2>2, <2>3, <2>5, <2>7, <3>1, AppendApart
    <3>3. /\ \A i \in DOMAIN was : i \in DOMAIN next /\ next[i] = was[i]
          /\ \A i \in DOMAIN next : next[i] = Resolved(p) \/ (i \in DOMAIN was /\ next[i] = was[i])
          /\ Len(was) + 1 \in DOMAIN next /\ next[Len(was) + 1] = Resolved(p)
      BY <2>2, <3>1
    <3>4. \A i \in DOMAIN next : Stems(k + 1, next[i])
      BY <2>3, <2>8, <2>9, <2>10, <3>3
    <3>5. Has(next, p.name) /\ \A name : Has(was, name) => Has(next, name)
      BY <2>5, <3>3
    <3>6. \A j \in 1 .. k + 1 : acc.team[j].name \in names => Has(next, acc.team[j].name)
      BY <2>1, <2>3, <3>5
    <3> QED
      BY <2>1, <3>2, <3>4, <3>6 DEF next
  <2>11. CASE p.name \notin names
    <3>1. next = was
      BY <2>4, <2>11
    <3>2. \A j \in 1 .. k + 1 : acc.team[j].name \in names => Has(next, acc.team[j].name)
      BY <2>1, <2>3, <2>11, <3>1
    <3> QED
      BY <2>1, <2>3, <2>8, <3>1, <3>2 DEF next
  <2> QED
    BY <2>10, <2>11
<1>7. n \in S
  <2> HIDE DEF S
  <2>1. 0 .. n \subseteq S
    BY <1>3, <1>5, <1>6, Climbs
  <2> QED
    BY <1>3, <2>1
<1> DEFINE team == Accepted(acc, names)
<1>8. /\ team \in Seq(AgentSpecProposal) /\ NamesApart(team)
      /\ \A i \in DOMAIN team : Stems(n, team[i])
      /\ \A j \in 1 .. n : acc.team[j].name \in names => Has(team, acc.team[j].name)
  BY <1>1, <1>3, <1>7
<1> HIDE DEF team
<1>9. Names(team) = names
  <2>1. Names(team) \subseteq names
    BY <1>8 DEF Names
  <2>2. names \subseteq Names(team)
    <3> SUFFICES ASSUME NEW name \in names PROVE name \in Names(team)
      OBVIOUS
    <3>1. name \in Names(acc.team)
      BY DEF CanFollow
    <3>2. \E j \in DOMAIN acc.team : acc.team[j].name = name
      BY <3>1 DEF Names
    <3>3. PICK j \in 1 .. n : acc.team[j].name = name
      BY <1>3, <3>2
    <3>4. Has(team, name)
      BY <1>8, <3>3
    <3> QED
      BY <3>4 DEF Names
  <2> QED
    BY <2>1, <2>2
<1>10. \A i \in DOMAIN team : team[i].needs \subseteq Names(team)
  <2> SUFFICES ASSUME NEW i \in DOMAIN team PROVE team[i].needs \subseteq names
    BY <1>9
  <2>1. PICK j \in 1 .. n : /\ acc.team[j].name = team[i].name /\ team[i].name \in names
                            /\ team[i].needs = NeedsOf(acc, acc.team[j])
    BY <1>8
  <2>2. j \in DOMAIN acc.team /\ acc.team[j].name \in names
    BY <1>3, <2>1
  <2>3. NeedsOf(acc, acc.team[j]) \subseteq names
    BY <2>2 DEF CanFollow
  <2> QED
    BY <2>1, <2>3
<1>11. ASSUME NEW T \in SUBSET Names(team), T # {}
       PROVE  \E i \in DOMAIN team : team[i].name \in T /\ team[i].needs \cap T = {}
  <2>1. PICK name \in T : \A i \in DOMAIN acc.team : acc.team[i].name = name =>
             NeedsOf(acc, acc.team[i]) \cap T = {}
    BY <1>9, <1>11 DEF CanFollow
  <2>2. PICK i \in DOMAIN team : team[i].name = name
    BY DEF Names
  <2>3. PICK j \in 1 .. n :
          acc.team[j].name = team[i].name /\ team[i].needs = NeedsOf(acc, acc.team[j])
    BY <1>8
  <2> QED
    BY <1>3, <2>1, <2>2, <2>3
<1> QED
  BY <1>8, <1>10, <1>11 DEF Orderly, team

(***************************************************************************)
(* validate_swarm returns a team in order, whatever the model proposed.    *)
(***************************************************************************)
LEMMA SwarmOrderly ==
  ASSUME NEW proposals \in Seq(AgentSpecProposal)
  PROVE  ValidateSwarm(proposals) \in Seq(AgentSpecProposal) /\ Orderly(ValidateSwarm(proposals))
<1> DEFINE acc == Merged2(Gated(proposals))
<1>1. acc \in Placed /\ NamesApart(acc.team)
  BY GatedApart, MergedApart
<1> HIDE DEF acc
<1> DEFINE names == Ordered(acc, Resolvable(acc))
<1>2. CanFollow(acc, names)
  BY <1>1, OrderedIs
<1>3. ValidateSwarm(proposals) = Accepted(acc, names)
  BY DEF ValidateSwarm, acc
<1> HIDE DEF names
<1> QED
  BY <1>1, <1>2, <1>3, AcceptedOrderly

(***************************************************************************)
(* A team in order stays so when a member leaves.                          *)
(***************************************************************************)
LEMMA WithoutOrderly ==
  ASSUME NEW team \in Seq(AgentSpecProposal), Orderly(team), NEW i \in DOMAIN team
  PROVE  Orderly(Without(team, i))
<1> DEFINE rest == Without(team, i)
           From(k) == IF k < i THEN k ELSE k + 1
<1>1. /\ rest \in Seq(AgentSpecProposal)
      /\ \A k \in DOMAIN rest :
           /\ From(k) \in DOMAIN team \ {i} /\ rest[k].name = team[From(k)].name
           /\ rest[k].needs = team[From(k)].needs \ {team[i].name}
      /\ \A j \in DOMAIN team \ {i} : \E k \in DOMAIN rest : From(k) = j
  BY WithoutIs
<1>2. \A k, j \in DOMAIN rest : k # j => From(k) # From(j)
  BY <1>1
<1> HIDE DEF rest, From
<1>3. NamesApart(rest)
  BY <1>1, <1>2 DEF NamesApart, Orderly
<1>4. Names(rest) = Names(team) \ {team[i].name}
  <2>1. Names(rest) \subseteq Names(team) \ {team[i].name}
    BY <1>1 DEF Names, NamesApart, Orderly
  <2>2. ASSUME NEW j \in DOMAIN team, team[j].name # team[i].name
        PROVE  team[j].name \in Names(rest)
    <3>1. PICK k \in DOMAIN rest : From(k) = j
      BY <1>1, <2>2
    <3> QED
      BY <1>1, <3>1 DEF Names
  <2> QED
    BY <2>1, <2>2 DEF Names
<1>5. \A k \in DOMAIN rest : rest[k].needs \subseteq Names(rest)
  BY <1>1, <1>4 DEF Orderly
<1>6. ASSUME NEW T \in SUBSET Names(rest), T # {}
      PROVE  \E k \in DOMAIN rest : rest[k].name \in T /\ rest[k].needs \cap T = {}
  <2>1. T \in SUBSET Names(team) /\ team[i].name \notin T
    BY <1>4
  <2>2. PICK j \in DOMAIN team : team[j].name \in T /\ team[j].needs \cap T = {}
    BY <1>6, <2>1 DEF Orderly
  <2>3. PICK k \in DOMAIN rest : From(k) = j
    BY <1>1, <2>1, <2>2
  <2> QED
    BY <1>1, <2>2, <2>3
<1> QED
  BY <1>3, <1>5, <1>6 DEF Orderly, rest

(***************************************************************************)
(* truncate_to_cap returns a team in order that is not larger than the     *)
(* cap.                                                                    *)
(***************************************************************************)
LEMMA TruncateOrderly ==
  ASSUME NEW members \in Seq(AgentSpecProposal), Orderly(members), NEW cap \in Nat
  PROVE  LET left == TruncateToCap(members, cap)
         IN  left \in Seq(AgentSpecProposal) /\ Orderly(left) /\ Len(left) <= cap
<1> DEFINE n == Len(members)
<1>1. PICK run \in [0 .. n -> Seq(AgentSpecProposal)] :
        /\ run[0] = members
        /\ \A k \in 1 .. n : run[k] = IF Len(run[k - 1]) > cap
                                      THEN Without(run[k - 1], Victim(run[k - 1])) ELSE run[k - 1]
        /\ TruncateToCap(members, cap) = run[n]
  BY TruncateRuns
<1> DEFINE S == {k \in 0 .. n : Orderly(run[k]) /\ (Len(run[k]) <= cap \/ Len(run[k]) <= n - k)}
<1>2. n \in Nat /\ n \in 0 .. n
  OBVIOUS
<1>3. 0 \in S
  BY <1>1, <1>2
<1> HIDE DEF n
<1>4. ASSUME NEW k \in 0 .. n - 1, k \in S
      PROVE  k + 1 \in S
  <2>1. k + 1 \in 1 .. n /\ k + 1 \in 0 .. n /\ (k + 1) - 1 = k /\ k \in 0 .. n
    BY <1>2
  <2>2. /\ run[k] \in Seq(AgentSpecProposal) /\ run[k + 1] \in Seq(AgentSpecProposal)
        /\ Orderly(run[k]) /\ (Len(run[k]) <= cap \/ Len(run[k]) <= n - k)
    BY <1>4, <2>1
  <2>3. run[k + 1] = IF Len(run[k]) > cap THEN Without(run[k], Victim(run[k])) ELSE run[k]
    BY <1>1, <2>1
  <2>4. Len(run[k]) \in Nat
    BY <2>2
  <2>5. CASE Len(run[k]) > cap
    <3>1. run[k] # <<>>
      BY <2>5
    <3>2. Victim(run[k]) \in DOMAIN run[k]
      BY <2>2, <3>1, VictimIs
    <3>3. Orderly(run[k + 1])
      BY <2>2, <2>3, <2>5, <3>2, WithoutOrderly
    <3>4. Len(run[k + 1]) = Len(run[k]) - 1
      BY <2>2, <2>3, <2>5, <3>2, WithoutIs
    <3>5. Len(run[k + 1]) <= n - (k + 1)
      BY <1>2, <2>1, <2>2, <2>4, <2>5, <3>4
    <3> QED
      BY <2>1, <3>3, <3>5
  <2>6. CASE ~(Len(run[k]) > cap)
    BY <2>1, <2>2, <2>3, <2>4, <2>6
  <2> QED
    BY <2>5, <2>6
<1>5. n \in S
  <2> HIDE DEF S
  <2>1. 0 .. n \subseteq S
    BY <1>2, <1>3, <1>4, Climbs
  <2> QED
    BY <1>2, <2>1
<1>6. Len(run[n]) \in Nat /\ run[n] \in Seq(AgentSpecProposal)
  BY <1>2
<1>7. Len(run[n]) <= cap
  BY <1>2, <1>5, <1>6
<1> QED
  BY <1>1, <1>5, <1>6, <1>7

(***************************************************************************)
(* A team in order is one the dependency graph takes: every dependency is  *)
(* of a member, and there is no cycle.                                     *)
(***************************************************************************)
LEMMA OrderlyRuns ==
  ASSUME NEW team \in Seq(AgentSpecProposal), Orderly(team)
  PROVE  Runnable(team)
<1> DEFINE N == Names(team)
           Numbered(A, number) ==
             /\ number \in [A -> 1 .. Cardinality(A)]
             /\ \A i \in DOMAIN team : team[i].name \in A =>
                  team[i].needs \subseteq A
                  /\ \A x \in team[i].needs : number[x] < number[team[i].name]
           Left == {C \in SUBSET N : \E number : Numbered(N \ C, number)}
           Less == StrictSubsetOrdering(N)
<1>1. Len(team) \in Nat /\ DOMAIN team = 1 .. Len(team)
  OBVIOUS
<1>2. IsFiniteSet(N) /\ Cardinality(N) <= Len(team)
  <2> DEFINE f == [i \in 1 .. Len(team) |-> team[i].name]
  <2>1. IsFiniteSet(1 .. Len(team)) /\ Cardinality(1 .. Len(team)) = Len(team)
    BY <1>1, FS_Interval
  <2>2. f \in Surjection(1 .. Len(team), N)
    BY <1>1 DEF Names, Surjection
  <2> HIDE DEF f, N
  <2> QED
    BY <2>1, <2>2, FS_Surjection
<1>3. N \in Left
  <2> DEFINE none == [x \in {} |-> 1]
  <2>1. N \ N = {}
    OBVIOUS
  <2>2. none \in [{} -> 1 .. Cardinality({})]
    OBVIOUS
  <2>3. Numbered({}, none)
    BY <2>2
  <2> HIDE DEF none, Numbered
  <2> QED
    BY <2>1, <2>3
<1>4. PICK C \in Left : \A other \in Left : <<other, C>> \notin Less
  <2>1. IsWellFoundedOn(Less, FiniteSubsetsOf(N))
    BY FS_StrictSubsetOrderingWellFounded
  <2>2. Left \subseteq FiniteSubsetsOf(N)
    BY <1>2, FS_FiniteSubsetsOfFinite
  <2>3. Left # {}
    BY <1>3
  <2> HIDE DEF Less, Left
  <2> QED
    BY <2>1, <2>2, <2>3, WFMin
<1>5. PICK number : Numbered(N \ C, number)
  OBVIOUS
<1>6. C = {}
  <2> SUFFICES ASSUME C # {} PROVE FALSE
    OBVIOUS
  <2>1. PICK i \in DOMAIN team : team[i].name \in C /\ team[i].needs \cap C = {}
    BY DEF Orderly
  <2> DEFINE A == N \ C
             name == team[i].name
             m == Cardinality(A)
             more == [x \in A \cup {name} |-> IF x = name THEN m + 1 ELSE number[x]]
  <2>2. A \in SUBSET N /\ name \in N /\ name \notin A /\ IsFiniteSet(A) /\ team[i].needs \subseteq A
    <3>1. team[i].needs \subseteq N
      BY DEF Orderly
    <3> QED
      BY <1>2, <2>1, <3>1, FS_Subset
  <2>3. m \in Nat /\ Cardinality(A \cup {name}) = m + 1
    <3> HIDE DEF A, name
    <3>1. m \in Nat
      BY <2>2, FS_CardinalityType
    <3>2. Cardinality(A \cup {name}) = Cardinality(A) + 1
      BY <2>2, FS_AddElement
    <3> QED
      BY <3>1, <3>2
  <2>4. N \ (C \ {name}) = A \cup {name}
    BY <2>1, <2>2
  <2>5. /\ number \in [A -> 1 .. m]
        /\ \A j \in DOMAIN team : team[j].name \in A =>
             team[j].needs \subseteq A /\ \A x \in team[j].needs : number[x] < number[team[j].name]
    BY <1>5
  <2> HIDE DEF A, m
  <2>6. more \in [A \cup {name} -> 1 .. m + 1]
    BY <2>2, <2>3, <2>5
  <2>7. \A x \in A : more[x] = number[x] /\ more[x] \in 1 .. m
    BY <2>2, <2>5
  <2>8. more[name] = m + 1
    OBVIOUS
  <2> HIDE DEF more
  <2>9. ASSUME NEW j \in DOMAIN team, team[j].name \in A \cup {name}
        PROVE  /\ team[j].needs \subseteq A \cup {name}
               /\ \A x \in team[j].needs : more[x] < more[team[j].name]
    <3>1. CASE team[j].name \in A
      BY <2>5, <2>7, <3>1
    <3>2. CASE team[j].name = name
      <4>1. j = i
        BY <3>2 DEF Orderly, NamesApart
      <4> QED
        BY <2>2, <2>3, <2>7, <2>8, <4>1
    <3> QED
      BY <2>9, <3>1, <3>2
  <2>10. Numbered(A \cup {name}, more)
    BY <2>3, <2>6, <2>9
  <2>11. C \ {name} \in Left
    <3> HIDE DEF Numbered
    <3> QED
      BY <2>4, <2>10
  <2>12. <<C \ {name}, C>> \in Less
    BY <2>1 DEF StrictSubsetOrdering
  <2> QED
    BY <1>4, <2>11, <2>12
<1>7. Numbered(N, number)
  <2>1. N \ C = N
    BY <1>6
  <2> HIDE DEF Numbered, N
  <2> QED
    BY <1>5, <2>1
<1>8. number \in [N -> 1 .. Len(team)]
  <2>1. Cardinality(N) \in Nat
    BY <1>2, FS_CardinalityType
  <2>2. 1 .. Cardinality(N) \subseteq 1 .. Len(team)
    BY <1>1, <1>2, <2>1
  <2>3. number \in [N -> 1 .. Cardinality(N)]
    BY <1>7
  <2> HIDE DEF N
  <2> QED
    BY <2>2, <2>3
<1>9. \A i \in DOMAIN team : \A x \in team[i].needs : number[x] < number[team[i].name]
  <2>1. \A i \in DOMAIN team : team[i].name \in N
    BY DEF Names
  <2> QED
    BY <1>7, <2>1
<1> QED
  BY <1>8, <1>9 DEF Runnable, Orderly, NamesApart

(***************************************************************************)
(* A claim about an entity, with the source it came from.                  *)
(***************************************************************************)
ClaimRecord == [key : STRING, value : Value, source : STRING]

(***************************************************************************)
(* What an entity may be described with: some keys, each with a value.     *)
(***************************************************************************)
Described == UNION {[names -> Value] : names \in SUBSET STRING}

(***************************************************************************)
(* A name, a number or a site, which may be missing.                       *)
(***************************************************************************)
Text == STRING \cup {Nothing}

(***************************************************************************)
(* What deduplicate indexes survivors by.                                  *)
(***************************************************************************)
MatchKey == {"name", "phone", "url"} \X Text

(***************************************************************************)
(* What normalize makes of an entity.                                      *)
(***************************************************************************)
CandidateEntity ==
  [name : STRING, phone : Text, site : Text, attributes : Described,
   sources : SUBSET STRING, claims : SUBSET ClaimRecord]

(***************************************************************************)
(* The index of deduplicate, from match keys to positions.                 *)
(***************************************************************************)
Index == UNION {[keys -> Nat] : keys \in SUBSET MatchKey}

(***************************************************************************)
(* The survivors of deduplicate so far and their index, which leads to     *)
(* survivors only.                                                         *)
(***************************************************************************)
Survivorship ==
  {acc \in [survivors : Seq(CandidateEntity), index : Index] :
     \A key \in DOMAIN acc.index : acc.index[key] \in DOMAIN acc.survivors}

(***************************************************************************)
(* Being a description is membership in a set.                             *)
(***************************************************************************)
LEMMA DescribedIs ==
  ASSUME NEW values
  PROVE  IsDescription(values) <=> values \in Described
<1>1. ASSUME IsDescription(values) PROVE values \in Described
  <2> DEFINE names == DOMAIN values
  <2>1. names \in SUBSET STRING /\ values \in [names -> Value]
    BY <1>1 DEF IsDescription
  <2> HIDE DEF names
  <2> QED
    BY <2>1 DEF Described
<1>2. ASSUME values \in Described PROVE IsDescription(values)
  BY <1>2 DEF Described, IsDescription
<1> QED
  BY <1>1, <1>2

(***************************************************************************)
(* An entity claims a value for each key it describes or states, what it   *)
(* states going first.                                                     *)
(***************************************************************************)
LEMMA ClaimsAre ==
  ASSUME NEW e, IsEntity(e)
  PROVE  /\ ClaimsOf(e) \in SUBSET ClaimRecord
         /\ \A key \in DOMAIN e.attributes \cup DOMAIN e.stated :
              \E claim \in ClaimsOf(e) : claim.key = key
         /\ \A key, value : (\E claim \in ClaimsOf(e) : claim.key = key /\ claim.value = value)
              <=> IF key \in DOMAIN e.stated THEN value = e.stated[key]
                  ELSE key \in DOMAIN e.attributes /\ value = e.attributes[key]
<1>1. /\ e.source \in STRING
      /\ \A k \in DOMAIN e.stated : k \in STRING /\ e.stated[k] \in Value
      /\ \A k \in DOMAIN e.attributes : k \in STRING /\ e.attributes[k] \in Value
  BY DEF IsEntity, IsDescription
<1>2. ClaimsOf(e) \in SUBSET ClaimRecord
  BY <1>1 DEF ClaimsOf, ClaimRecord
<1>3. ASSUME NEW key \in DOMAIN e.stated
      PROVE  \E claim \in ClaimsOf(e) : claim.key = key /\ claim.value = e.stated[key]
  <2> DEFINE claim == [key |-> key, value |-> e.stated[key], source |-> e.source]
  <2>1. claim \in ClaimsOf(e)
    BY DEF ClaimsOf
  <2>2. claim.key = key /\ claim.value = e.stated[key]
    OBVIOUS
  <2> HIDE DEF claim
  <2> QED
    BY <2>1, <2>2
<1>4. ASSUME NEW key \in DOMAIN e.attributes \ DOMAIN e.stated
      PROVE  \E claim \in ClaimsOf(e) : claim.key = key /\ claim.value = e.attributes[key]
  <2> DEFINE claim == [key |-> key, value |-> e.attributes[key], source |-> e.source]
  <2>1. claim \in ClaimsOf(e)
    BY DEF ClaimsOf
  <2>2. claim.key = key /\ claim.value = e.attributes[key]
    OBVIOUS
  <2> HIDE DEF claim
  <2> QED
    BY <2>1, <2>2
<1>5. ASSUME NEW claim \in ClaimsOf(e)
      PROVE  IF claim.key \in DOMAIN e.stated THEN claim.value = e.stated[claim.key]
             ELSE claim.key \in DOMAIN e.attributes /\ claim.value = e.attributes[claim.key]
  BY DEF ClaimsOf
<1>6. \A key \in DOMAIN e.attributes \cup DOMAIN e.stated :
              \E claim \in ClaimsOf(e) : claim.key = key
  BY <1>3, <1>4
<1>7. ASSUME NEW key, NEW value,
             IF key \in DOMAIN e.stated THEN value = e.stated[key]
             ELSE key \in DOMAIN e.attributes /\ value = e.attributes[key]
      PROVE  \E claim \in ClaimsOf(e) : claim.key = key /\ claim.value = value
  <2>1. CASE key \in DOMAIN e.stated
    BY <1>3, <1>7, <2>1
  <2>2. CASE key \notin DOMAIN e.stated
    BY <1>4, <1>7, <2>2
  <2> QED
    BY <2>1, <2>2
<1> QED
  BY <1>2, <1>5, <1>6, <1>7

(***************************************************************************)
(* What normalize makes of an entity the model extracted.                  *)
(***************************************************************************)
LEMMA CandidateIs ==
  ASSUME NEW e, IsEntity(e)
  PROVE  /\ Candidate(e) \in CandidateEntity
         /\ Candidate(e).name = e.name /\ Candidate(e).phone = ExactPhone(e)
         /\ Candidate(e).site = e.site /\ Candidate(e).attributes = e.attributes
         /\ Candidate(e).sources = {e.source} /\ Candidate(e).claims = ClaimsOf(e)
<1>1. e.name \in STRING /\ e.phone \in Text /\ e.site \in Text /\ e.source \in STRING
  BY DEF IsEntity, Text
<1>2. ExactPhone(e) \in Text
  <2>1. Nothing \in Text
    BY DEF Text
  <2>2. ExactPhone(e) = e.phone \/ ExactPhone(e) = Nothing
    BY DEF ExactPhone
  <2> QED
    BY <1>1, <2>1, <2>2
<1>3. e.attributes \in Described
  BY DescribedIs DEF IsEntity
<1>4. ClaimsOf(e) \in SUBSET ClaimRecord
  BY ClaimsAre
<1> QED
  BY <1>1, <1>2, <1>3, <1>4 DEF Candidate, CandidateEntity

(***************************************************************************)
(* merge_candidates takes what the survivor has, adds what only the        *)
(* newcomer has, and unites sources and claims.                            *)
(***************************************************************************)
LEMMA MergedIs ==
  ASSUME NEW a \in CandidateEntity, NEW b \in CandidateEntity
  PROVE  LET m == MergeCandidates(a, b)
         IN  /\ m \in CandidateEntity /\ m.name = a.name
             /\ m.phone = (IF a.phone = Nothing THEN b.phone ELSE a.phone)
             /\ m.site = (IF a.site = Nothing THEN b.site ELSE a.site)
             /\ m.sources = a.sources \cup b.sources /\ m.claims = a.claims \cup b.claims
             /\ DOMAIN m.attributes = DOMAIN a.attributes \cup DOMAIN b.attributes
             /\ \A k \in DOMAIN a.attributes : m.attributes[k] = a.attributes[k]
             /\ \A k \in DOMAIN b.attributes \ DOMAIN a.attributes :
                  m.attributes[k] = b.attributes[k]
<1> DEFINE both == [k \in DOMAIN a.attributes \cup DOMAIN b.attributes |->
                     IF k \in DOMAIN a.attributes THEN a.attributes[k] ELSE b.attributes[k]]
           m == MergeCandidates(a, b)
<1>1. /\ a.attributes \in Described /\ b.attributes \in Described
      /\ a = [name |-> a.name, phone |-> a.phone, site |-> a.site, attributes |-> a.attributes,
              sources |-> a.sources, claims |-> a.claims]
  BY DEF CandidateEntity
<1>2. IsDescription(both)
  BY <1>1, DescribedIs DEF IsDescription
<1>3. both \in Described
  BY <1>2, DescribedIs
<1>4. m = [name |-> a.name, phone |-> Either(a.phone, b.phone), site |-> Either(a.site, b.site),
           attributes |-> both, sources |-> a.sources \cup b.sources,
           claims |-> a.claims \cup b.claims]
  <2> DEFINE phone == Either(a.phone, b.phone)
             site == Either(a.site, b.site)
             sources == a.sources \cup b.sources
             claims == a.claims \cup b.claims
  <2>1. m = [a EXCEPT !.attributes = both, !.phone = phone, !.site = site,
                      !.sources = sources, !.claims = claims]
    BY DEF MergeCandidates
  <2> HIDE DEF both, phone, site, sources, claims, m
  <2> QED
    BY <1>1, <2>1 DEF both, phone, site, sources, claims
<1>5. m \in CandidateEntity
  <2> HIDE DEF both, m
  <2>1. Either(a.phone, b.phone) \in Text /\ Either(a.site, b.site) \in Text
    BY DEF Either, CandidateEntity
  <2>2. a.sources \cup b.sources \in SUBSET STRING /\ a.claims \cup b.claims \in SUBSET ClaimRecord
        /\ a.name \in STRING
    BY DEF CandidateEntity
  <2> QED
    BY <1>3, <1>4, <2>1, <2>2 DEF CandidateEntity
<1> HIDE DEF m
<1> QED
  BY <1>4, <1>5 DEF m, Either

(***************************************************************************)
(* The match keys of a candidate.                                          *)
(***************************************************************************)
LEMMA KeysAre ==
  ASSUME NEW c \in CandidateEntity
  PROVE  MatchKeys(c) \in SUBSET MatchKey
<1>1. c.name \in Text /\ c.phone \in Text /\ c.site \in Text
  BY DEF CandidateEntity, Text
<1>2. ASSUME NEW key \in MatchKeys(c) PROVE key \in MatchKey
  <2>1. key = <<"name", c.name>> \/ key = <<"phone", c.phone>> \/ key = <<"url", c.site>>
    BY DEF MatchKeys
  <2> QED
    BY <1>1, <2>1 DEF MatchKey
<1> QED
  BY <1>2

(***************************************************************************)
(* next is index with keys added, those that were not there leading to i.  *)
(***************************************************************************)
AddsKeys(index, keys, i, next) ==
  /\ next \in Index /\ DOMAIN next = DOMAIN index \cup keys
  /\ \A k \in DOMAIN index : next[k] = index[k]
  /\ \A k \in keys \ DOMAIN index : next[k] = i

(***************************************************************************)
(* That is what indexing a survivor does.                                  *)
(***************************************************************************)
LEMMA IndexedIs ==
  ASSUME NEW index \in Index, NEW keys \in SUBSET MatchKey, NEW i \in Nat
  PROVE  AddsKeys(index, keys, i, Indexed(index, keys, i))
<1>1. DOMAIN index \in SUBSET MatchKey /\ \A k \in DOMAIN index : index[k] \in Nat
  BY DEF Index
<1> DEFINE all == DOMAIN index \cup keys
           next == Indexed(index, keys, i)
<1>2. next = [k \in all |-> IF k \in DOMAIN index THEN index[k] ELSE i]
  BY DEF Indexed
<1>3. next \in [all -> Nat] /\ all \in SUBSET MatchKey
  BY <1>1, <1>2
<1>4. next \in Index
  <2> HIDE DEF next, all
  <2> QED
    BY <1>3 DEF Index
<1> QED
  BY <1>2, <1>4 DEF AddsKeys

(***************************************************************************)
(* The survivor a newcomer is merged into is one of those it matches.      *)
(***************************************************************************)
LEMMA PickedIs ==
  ASSUME NEW n \in Nat, NEW hits \in SUBSET (1 .. n), hits # {}, NEW pick
  PROVE  Picked(hits, pick) \in hits
<1>1. \E h \in hits : \A o \in hits : h <= o
  BY LeastIs
<1>2. Max(hits) \in hits /\ \A o \in hits : o <= Max(hits)
  BY MaxIs
<1>3. \A h, o \in hits : o <= h <=> h >= o
  OBVIOUS
<1>4. \E h \in hits : \A o \in hits : IF pick = "first" THEN h <= o ELSE h >= o
  BY <1>1, <1>2, <1>3
<1> QED
  BY <1>4 DEF Picked

(***************************************************************************)
(* deduplicate, one candidate: it survives on its own when no key of it is *)
(* known, and is otherwise merged into a survivor one of its keys leads    *)
(* to.                                                                     *)
(***************************************************************************)
LEMMA SurviveIs ==
  ASSUME NEW acc \in Survivorship, NEW c \in CandidateEntity, NEW pick
  PROVE  LET next == Survive(acc, c, pick)
         IN  /\ next \in Survivorship
             /\ \/ /\ MatchKeys(c) \cap DOMAIN acc.index = {}
                   /\ next.survivors = Append(acc.survivors, c)
                   /\ next.index = Indexed(acc.index, MatchKeys(c), Len(acc.survivors) + 1)
                \/ \E key \in MatchKeys(c) \cap DOMAIN acc.index :
                     LET i == acc.index[key]
                         m == MergeCandidates(acc.survivors[i], c)
                     IN  /\ next.survivors = [acc.survivors EXCEPT ![i] = m]
                         /\ next.index = Indexed(acc.index, MatchKeys(m), i)
<1> DEFINE hits == Hits(acc, c)
           n == Len(acc.survivors)
           next == Survive(acc, c, pick)
<1>1. /\ acc.survivors \in Seq(CandidateEntity) /\ acc.index \in Index
      /\ \A key \in DOMAIN acc.index : acc.index[key] \in DOMAIN acc.survivors
  BY DEF Survivorship
<1>2. n \in Nat /\ DOMAIN acc.survivors = 1 .. n
  BY <1>1
<1>3. hits \in SUBSET (1 .. n) /\ (hits = {} <=> MatchKeys(c) \cap DOMAIN acc.index = {})
  BY <1>1, <1>2 DEF Hits
<1>4. CASE hits = {}
  <2> DEFINE longer == Append(acc.survivors, c)
             index == Indexed(acc.index, MatchKeys(c), n + 1)
  <2>1. longer[n + 1] = c /\ longer \in Seq(CandidateEntity) /\ DOMAIN longer = 1 .. n + 1
    BY <1>1
  <2>2. next = [survivors |-> longer, index |-> index]
    BY <1>4, <2>1 DEF Survive
  <2>3. /\ index \in Index /\ DOMAIN index = DOMAIN acc.index \cup MatchKeys(c)
        /\ \A k \in DOMAIN acc.index : index[k] = acc.index[k]
        /\ \A k \in MatchKeys(c) \ DOMAIN acc.index : index[k] = n + 1
    <3>1. MatchKeys(c) \in SUBSET MatchKey /\ n + 1 \in Nat
      BY <1>2, KeysAre
    <3>2. AddsKeys(acc.index, MatchKeys(c), n + 1, index)
      BY <1>1, <3>1, IndexedIs
    <3> QED
      BY <3>2 DEF AddsKeys
  <2> HIDE DEF longer, index, n
  <2>4. \A k \in DOMAIN index : index[k] \in DOMAIN longer
    BY <1>1, <1>2, <2>1, <2>3
  <2> HIDE DEF next
  <2>5. next \in Survivorship
    <3>1. next.survivors = longer /\ next.index = index
      BY <2>2
    <3>2. next \in [survivors : Seq(CandidateEntity), index : Index]
      BY <2>1, <2>2, <2>3
    <3> QED
      BY <2>4, <3>1, <3>2 DEF Survivorship
  <2> QED
    BY <1>3, <1>4, <2>2, <2>5 DEF longer, index, n, next
<1>5. CASE hits # {}
  <2> DEFINE i == Picked(hits, pick)
             m == MergeCandidates(acc.survivors[i], c)
             survivors == [acc.survivors EXCEPT ![i] = m]
             index == Indexed(acc.index, MatchKeys(m), i)
  <2>1. i \in hits /\ i \in 1 .. n
    BY <1>2, <1>3, <1>5, PickedIs
  <2>2. PICK key \in MatchKeys(c) \cap DOMAIN acc.index : i = acc.index[key]
    BY <2>1 DEF Hits
  <2>3. m \in CandidateEntity
    <3>1. acc.survivors[i] \in CandidateEntity
      BY <1>1, <1>2, <2>1
    <3> QED
      BY <3>1, MergedIs
  <2> HIDE DEF i, m, hits
  <2>4. survivors[i] = m /\ survivors \in Seq(CandidateEntity) /\ DOMAIN survivors = 1 .. n
    BY <1>1, <1>2, <2>1, <2>3
  <2>5. next = [survivors |-> survivors, index |-> index]
    BY <1>5, <2>4 DEF Survive, i, m, hits
  <2>6. /\ index \in Index /\ DOMAIN index = DOMAIN acc.index \cup MatchKeys(m)
        /\ \A k \in DOMAIN acc.index : index[k] = acc.index[k]
        /\ \A k \in MatchKeys(m) \ DOMAIN acc.index : index[k] = i
    <3>1. MatchKeys(m) \in SUBSET MatchKey /\ i \in Nat
      BY <1>2, <2>1, <2>3, KeysAre
    <3>2. AddsKeys(acc.index, MatchKeys(m), i, index)
      BY <1>1, <3>1, IndexedIs
    <3> QED
      BY <3>2 DEF AddsKeys
  <2> HIDE DEF survivors, index, n
  <2>7. \A k \in DOMAIN index : index[k] \in DOMAIN survivors
    BY <1>1, <1>2, <2>1, <2>4, <2>6
  <2> HIDE DEF next
  <2>8. next \in Survivorship
    <3>1. next.survivors = survivors /\ next.index = index
      BY <2>5
    <3>2. next \in [survivors : Seq(CandidateEntity), index : Index]
      BY <2>4, <2>5, <2>6
    <3> QED
      BY <2>7, <3>1, <3>2 DEF Survivorship
  <2> QED
    BY <2>2, <2>5, <2>8 DEF survivors, index, m, next
<1> QED
  BY <1>4, <1>5

(***************************************************************************)
(* normalize goes over the entities in order, keeping those whose source   *)
(* was fetched.                                                            *)
(***************************************************************************)
LEMMA NormalizedRuns ==
  ASSUME NEW entities, NEW T, entities \in Seq(T), \A i \in DOMAIN entities : IsEntity(entities[i])
  PROVE  \E run \in [0 .. Len(entities) -> Seq(CandidateEntity)] :
           /\ run[0] = <<>>
           /\ \A k \in 1 .. Len(entities) :
                run[k] = IF entities[k].source \in Sources
                         THEN Append(run[k - 1], Candidate(entities[k])) ELSE run[k - 1]
           /\ Normalized(entities) = run[Len(entities)]
<1> DEFINE n == Len(entities)
           X == Seq(CandidateEntity)
           base == <<>>
           Op(was, p) == IF p.source \in Sources THEN Append(was, Candidate(p)) ELSE was
           Solves(g) == g = [s \in SUBSET (1 .. n) |->
                              IF s = {} THEN base ELSE Op(g[s \ {Max(s)}], entities[Max(s)])]
           iter == CHOOSE g : Solves(g)
           F == [i \in 1 .. n |-> [was \in X |-> Op(was, entities[i])]]
<1>1. DOMAIN entities = 1 .. n
  OBVIOUS
<1>2. Normalized(entities) = iter[1 .. n]
  BY <1>1 DEF Normalized, FoldLeft, MapThenFoldSet
<1>3. n \in Nat /\ base \in X
  OBVIOUS
<1>4. ASSUME NEW i \in 1 .. n, NEW was \in X
      PROVE  Op(was, entities[i]) \in X
  <2>1. Candidate(entities[i]) \in CandidateEntity
    BY <1>1, CandidateIs
  <2> HIDE DEF n
  <2> QED
    BY <2>1
<1> HIDE DEF n, X, base, Op
<1>5. F \in Tables(n, X) /\ \A i \in 1 .. n, was \in X : F[i][was] = Op(was, entities[i])
  BY <1>4 DEF Tables
<1> HIDE DEF F
<1>6. PICK g \in [SUBSET (1 .. n) -> X] : Unfolds(g, n, base, F)
  BY <1>3, <1>5, FoldExists
<1>7. Solves(g)
  <2>1. ASSUME NEW s \in SUBSET (1 .. n), s # {}
        PROVE  F[Max(s)][g[s \ {Max(s)}]] = Op(g[s \ {Max(s)}], entities[Max(s)])
    <3>1. Max(s) \in 1 .. n
      BY <1>3, <2>1, MaxIs
    <3> QED
      BY <1>5, <3>1
  <2> QED
    BY <1>6, <2>1 DEF Unfolds
<1>8. Solves(iter)
  <2> HIDE DEF Solves
  <2> QED
    BY <1>7
<1> HIDE DEF iter
<1>9. iter[{}] = base
  BY <1>8
<1>10. ASSUME NEW s \in SUBSET (1 .. n), s # {}, iter[s \ {Max(s)}] \in X
       PROVE  iter[s] = F[Max(s)][iter[s \ {Max(s)}]]
  <2>1. Max(s) \in 1 .. n
    BY <1>3, <1>10, MaxIs
  <2> QED
    BY <1>5, <1>8, <1>10, <2>1
<1>11. PICK run \in RunsOf(n, X) : Runs(run, n, base, F) /\ run[n] = iter[1 .. n]
  <2>1. UnfoldsIn(X, iter, n, base, F)
    BY <1>9, <1>10 DEF UnfoldsIn
  <2> QED
    BY <1>3, <1>5, <2>1, FoldRuns
<1>12. ASSUME NEW k \in 1 .. n
       PROVE  run[k] = Op(run[k - 1], entities[k])
  <2>1. run[k - 1] \in X
    BY <1>3 DEF RunsOf
  <2> QED
    BY <1>5, <1>11, <2>1 DEF Runs
<1> QED
  BY <1>2, <1>11, <1>12 DEF n, X, base, RunsOf, Runs, Op

(***************************************************************************)
(* deduplicate goes over the candidates in order.                          *)
(***************************************************************************)
LEMMA DeduplicateRuns ==
  ASSUME NEW candidates \in Seq(CandidateEntity), NEW pick
  PROVE  \E run \in [0 .. Len(candidates) -> Survivorship] :
           /\ run[0] = [survivors |-> <<>>, index |-> [x \in {} |-> 0]]
           /\ \A k \in 1 .. Len(candidates) : run[k] = Survive(run[k - 1], candidates[k], pick)
           /\ Deduplicate(candidates, pick) = run[Len(candidates)].survivors
<1> DEFINE n == Len(candidates)
           X == Survivorship
           base == [survivors |-> <<>>, index |-> [x \in {} |-> 0]]
           Op(was, p) == Survive(was, p, pick)
           Solves(g) == g = [s \in SUBSET (1 .. n) |->
                              IF s = {} THEN base ELSE Op(g[s \ {Max(s)}], candidates[Max(s)])]
           iter == CHOOSE g : Solves(g)
           F == [i \in 1 .. n |-> [was \in X |-> Op(was, candidates[i])]]
<1>1. DOMAIN candidates = 1 .. n
  OBVIOUS
<1>2. Deduplicate(candidates, pick) = iter[1 .. n].survivors
  BY <1>1 DEF Deduplicate, FoldLeft, MapThenFoldSet
<1>3. n \in Nat /\ base \in X
  <2> DEFINE none == [x \in {} |-> 0]
  <2>1. none \in [{} -> Nat] /\ {} \in SUBSET MatchKey /\ DOMAIN none = {}
    OBVIOUS
  <2> HIDE DEF none
  <2>2. none \in Index
    BY <2>1 DEF Index
  <2> QED
    BY <2>1, <2>2 DEF Survivorship, none
<1>4. ASSUME NEW i \in 1 .. n, NEW was \in X
      PROVE  Op(was, candidates[i]) \in X
  BY <1>1, SurviveIs
<1> HIDE DEF n, X, base, Op
<1>5. F \in Tables(n, X) /\ \A i \in 1 .. n, was \in X : F[i][was] = Op(was, candidates[i])
  BY <1>4 DEF Tables
<1> HIDE DEF F
<1>6. PICK g \in [SUBSET (1 .. n) -> X] : Unfolds(g, n, base, F)
  BY <1>3, <1>5, FoldExists
<1>7. Solves(g)
  <2>1. ASSUME NEW s \in SUBSET (1 .. n), s # {}
        PROVE  F[Max(s)][g[s \ {Max(s)}]] = Op(g[s \ {Max(s)}], candidates[Max(s)])
    <3>1. Max(s) \in 1 .. n
      BY <1>3, <2>1, MaxIs
    <3> QED
      BY <1>5, <3>1
  <2> QED
    BY <1>6, <2>1 DEF Unfolds
<1>8. Solves(iter)
  <2> HIDE DEF Solves
  <2> QED
    BY <1>7
<1> HIDE DEF iter
<1>9. iter[{}] = base
  BY <1>8
<1>10. ASSUME NEW s \in SUBSET (1 .. n), s # {}, iter[s \ {Max(s)}] \in X
       PROVE  iter[s] = F[Max(s)][iter[s \ {Max(s)}]]
  <2>1. Max(s) \in 1 .. n
    BY <1>3, <1>10, MaxIs
  <2> QED
    BY <1>5, <1>8, <1>10, <2>1
<1>11. PICK run \in RunsOf(n, X) : Runs(run, n, base, F) /\ run[n] = iter[1 .. n]
  <2>1. UnfoldsIn(X, iter, n, base, F)
    BY <1>9, <1>10 DEF UnfoldsIn
  <2> QED
    BY <1>3, <1>5, <2>1, FoldRuns
<1>12. ASSUME NEW k \in 1 .. n
       PROVE  run[k] = Op(run[k - 1], candidates[k])
  <2>1. run[k - 1] \in X
    BY <1>3 DEF RunsOf
  <2> QED
    BY <1>5, <1>11, <2>1 DEF Runs
<1> QED
  BY <1>2, <1>11, <1>12 DEF n, X, base, RunsOf, Runs, Op

(***************************************************************************)
(* b has all the sources and claims of a.                                  *)
(***************************************************************************)
Grown(a, b) == a.sources \subseteq b.sources /\ a.claims \subseteq b.claims

(***************************************************************************)
(* What deduplicate does with candidate c, as all that follows needs to    *)
(* know of it: c joins the survivor at i, or is a new one there. was and   *)
(* now are the survivors, index and indexed the index, before and after.   *)
(* Nothing is lost from either, nothing appears that neither had, no key   *)
(* that was indexed leads elsewhere, and c joins an old survivor only over *)
(* a key that leads to it.                                                 *)
(***************************************************************************)
Joins(was, now, index, indexed, c, i) ==
  /\ DOMAIN now = DOMAIN was \cup {i}
  /\ \A j \in DOMAIN was \ {i} : now[j] = was[j]
  /\ Grown(c, now[i])
  /\ i \in DOMAIN was => Grown(was[i], now[i])
  /\ \A claim \in now[i].claims :
       claim \in c.claims \/ (i \in DOMAIN was /\ claim \in was[i].claims)
  /\ \A key \in DOMAIN now[i].attributes :
       \/ key \in DOMAIN c.attributes /\ now[i].attributes[key] = c.attributes[key]
       \/ /\ i \in DOMAIN was /\ key \in DOMAIN was[i].attributes
          /\ now[i].attributes[key] = was[i].attributes[key]
  /\ now[i].phone = IF i \in DOMAIN was /\ was[i].phone # Nothing THEN was[i].phone ELSE c.phone
  /\ \A key \in MatchKeys(now[i]) :
       key \in MatchKeys(c) \/ (i \in DOMAIN was /\ key \in MatchKeys(was[i]))
  /\ DOMAIN indexed = DOMAIN index \cup MatchKeys(now[i])
  /\ \A key \in DOMAIN index : indexed[key] = index[key]
  /\ \A key \in MatchKeys(now[i]) \ DOMAIN index : indexed[key] = i
  /\ IF i \in DOMAIN was THEN \E key \in MatchKeys(c) \cap DOMAIN index : index[key] = i
     ELSE MatchKeys(c) \cap DOMAIN index = {}

(***************************************************************************)
(* Merging makes no new match key.                                         *)
(***************************************************************************)
LEMMA MergedKeys ==
  ASSUME NEW a \in CandidateEntity, NEW b \in CandidateEntity
  PROVE  MatchKeys(MergeCandidates(a, b)) \subseteq MatchKeys(a) \cup MatchKeys(b)
<1> DEFINE m == MergeCandidates(a, b)
<1>1. /\ m.name = a.name /\ m.phone = (IF a.phone = Nothing THEN b.phone ELSE a.phone)
      /\ m.site = (IF a.site = Nothing THEN b.site ELSE a.site)
  BY MergedIs
<1> HIDE DEF m
<1>2. MatchKeys(m) \subseteq MatchKeys(a) \cup MatchKeys(b)
  BY <1>1 DEF MatchKeys
<1> QED
  BY <1>2 DEF m

(***************************************************************************)
(* One candidate of deduplicate joins.                                     *)
(***************************************************************************)
LEMMA SurviveJoins ==
  ASSUME NEW acc \in Survivorship, NEW c \in CandidateEntity, NEW pick
  PROVE  LET next == Survive(acc, c, pick)
         IN  \E i : Joins(acc.survivors, next.survivors, acc.index, next.index, c, i)
<1> DEFINE next == Survive(acc, c, pick)
           was == acc.survivors
           now == next.survivors
           index == acc.index
           indexed == next.index
           n == Len(was)
<1>1. /\ was \in Seq(CandidateEntity) /\ index \in Index /\ n \in Nat /\ DOMAIN was = 1 .. n
      /\ \A key \in DOMAIN index : index[key] \in DOMAIN was
  BY DEF Survivorship
<1>2. \/ /\ MatchKeys(c) \cap DOMAIN index = {} /\ now = Append(was, c)
         /\ indexed = Indexed(index, MatchKeys(c), n + 1)
      \/ \E key \in MatchKeys(c) \cap DOMAIN index :
           LET i == index[key]
               m == MergeCandidates(was[i], c)
           IN  now = [was EXCEPT ![i] = m] /\ indexed = Indexed(index, MatchKeys(m), i)
  BY SurviveIs
<1>3. MatchKeys(c) \in SUBSET MatchKey
  BY KeysAre
<1> HIDE DEF next, was, now, index, indexed
<1>4. CASE /\ MatchKeys(c) \cap DOMAIN index = {} /\ now = Append(was, c)
           /\ indexed = Indexed(index, MatchKeys(c), n + 1)
  <2> DEFINE i == n + 1
  <2>1. i \in Nat /\ i \notin DOMAIN was
    BY <1>1
  <2>2. /\ DOMAIN now = DOMAIN was \cup {i} /\ now[i] = c
        /\ \A j \in DOMAIN was \ {i} : now[j] = was[j]
    BY <1>1, <1>4
  <2> HIDE DEF i, n
  <2>3. /\ DOMAIN Indexed(index, MatchKeys(c), i) = DOMAIN index \cup MatchKeys(c)
        /\ \A k \in DOMAIN index : Indexed(index, MatchKeys(c), i)[k] = index[k]
        /\ \A k \in MatchKeys(c) \ DOMAIN index : Indexed(index, MatchKeys(c), i)[k] = i
    <3>1. AddsKeys(index, MatchKeys(c), i, Indexed(index, MatchKeys(c), i))
      BY <1>1, <1>3, <2>1, IndexedIs
    <3> QED
      BY <3>1 DEF AddsKeys
  <2>4. indexed = Indexed(index, MatchKeys(c), i)
    BY <1>4 DEF i
  <2>5. Joins(was, now, index, indexed, c, i)
    <3>1. Grown(c, now[i]) /\ (i \in DOMAIN was => Grown(was[i], now[i]))
      BY <2>1, <2>2 DEF Grown
    <3>2. \A claim \in now[i].claims :
            claim \in c.claims \/ (i \in DOMAIN was /\ claim \in was[i].claims)
      BY <2>2
    <3>3. \A key \in DOMAIN now[i].attributes :
            \/ key \in DOMAIN c.attributes /\ now[i].attributes[key] = c.attributes[key]
            \/ /\ i \in DOMAIN was /\ key \in DOMAIN was[i].attributes
               /\ now[i].attributes[key] = was[i].attributes[key]
      BY <2>2
    <3>4. now[i].phone = IF i \in DOMAIN was /\ was[i].phone # Nothing THEN was[i].phone
                         ELSE c.phone
      BY <2>1, <2>2
    <3>5. \A key \in MatchKeys(now[i]) :
            key \in MatchKeys(c) \/ (i \in DOMAIN was /\ key \in MatchKeys(was[i]))
      BY <2>2
    <3>6. /\ DOMAIN indexed = DOMAIN index \cup MatchKeys(now[i])
          /\ \A key \in DOMAIN index : indexed[key] = index[key]
          /\ \A key \in MatchKeys(now[i]) \ DOMAIN index : indexed[key] = i
      BY <2>2, <2>3, <2>4
    <3>7. IF i \in DOMAIN was THEN \E key \in MatchKeys(c) \cap DOMAIN index : index[key] = i
          ELSE MatchKeys(c) \cap DOMAIN index = {}
      BY <1>4, <2>1
    <3> QED
      BY <2>2, <3>1, <3>2, <3>3, <3>4, <3>5, <3>6, <3>7, Zenon DEF Joins
  <2> QED
    BY <2>5 DEF next, was, now, index, indexed
<1>5. CASE \E key \in MatchKeys(c) \cap DOMAIN index :
             LET i == index[key]
                 m == MergeCandidates(was[i], c)
             IN  now = [was EXCEPT ![i] = m] /\ indexed = Indexed(index, MatchKeys(m), i)
  <2>1. PICK key \in MatchKeys(c) \cap DOMAIN index :
          /\ now = [was EXCEPT ![index[key]] = MergeCandidates(was[index[key]], c)]
          /\ indexed = Indexed(index, MatchKeys(MergeCandidates(was[index[key]], c)), index[key])
    BY <1>5
  <2> DEFINE i == index[key]
             a == was[i]
             m == MergeCandidates(a, c)
  <2>2. i \in DOMAIN was /\ i \in Nat /\ a \in CandidateEntity
    BY <1>1
  <2>3. now = [was EXCEPT ![i] = m] /\ indexed = Indexed(index, MatchKeys(m), i)
    BY <2>1
  <2>4. /\ m \in CandidateEntity /\ MatchKeys(m) \subseteq MatchKeys(a) \cup MatchKeys(c)
        /\ m.phone = (IF a.phone = Nothing THEN c.phone ELSE a.phone)
        /\ m.sources = a.sources \cup c.sources /\ m.claims = a.claims \cup c.claims
        /\ DOMAIN m.attributes = DOMAIN a.attributes \cup DOMAIN c.attributes
        /\ \A k \in DOMAIN a.attributes : m.attributes[k] = a.attributes[k]
        /\ \A k \in DOMAIN c.attributes \ DOMAIN a.attributes :
             m.attributes[k] = c.attributes[k]
    <3> HIDE DEF a
    <3> QED
      BY <2>2, MergedIs, MergedKeys
  <2> HIDE DEF m
  <2>5. /\ DOMAIN now = DOMAIN was \cup {i} /\ now[i] = m
        /\ \A j \in DOMAIN was \ {i} : now[j] = was[j]
    BY <1>1, <2>2, <2>3
  <2>6. MatchKeys(m) \in SUBSET MatchKey
    BY <2>4, KeysAre
  <2>7. i = index[key] /\ a = was[i]
    OBVIOUS
  <2> HIDE DEF i, n, a
  <2>8. /\ DOMAIN Indexed(index, MatchKeys(m), i) = DOMAIN index \cup MatchKeys(m)
        /\ \A k \in DOMAIN index : Indexed(index, MatchKeys(m), i)[k] = index[k]
        /\ \A k \in MatchKeys(m) \ DOMAIN index : Indexed(index, MatchKeys(m), i)[k] = i
    <3>1. AddsKeys(index, MatchKeys(m), i, Indexed(index, MatchKeys(m), i))
      BY <1>1, <2>2, <2>6, IndexedIs
    <3> QED
      BY <3>1 DEF AddsKeys
  <2>9. Joins(was, now, index, indexed, c, i)
    <3>1. Grown(c, now[i]) /\ (i \in DOMAIN was => Grown(was[i], now[i]))
      BY <2>4, <2>5, <2>7 DEF Grown
    <3>2. \A claim \in now[i].claims :
            claim \in c.claims \/ (i \in DOMAIN was /\ claim \in was[i].claims)
      BY <2>2, <2>4, <2>5, <2>7
    <3>3. \A k \in DOMAIN now[i].attributes :
            \/ k \in DOMAIN c.attributes /\ now[i].attributes[k] = c.attributes[k]
            \/ /\ i \in DOMAIN was /\ k \in DOMAIN was[i].attributes
               /\ now[i].attributes[k] = was[i].attributes[k]
      BY <2>2, <2>4, <2>5, <2>7
    <3>4. now[i].phone = IF i \in DOMAIN was /\ was[i].phone # Nothing THEN was[i].phone
                         ELSE c.phone
      BY <2>2, <2>4, <2>5, <2>7
    <3>5. \A k \in MatchKeys(now[i]) :
            k \in MatchKeys(c) \/ (i \in DOMAIN was /\ k \in MatchKeys(was[i]))
      BY <2>2, <2>4, <2>5, <2>7
    <3>6. /\ DOMAIN indexed = DOMAIN index \cup MatchKeys(now[i])
          /\ \A k \in DOMAIN index : indexed[k] = index[k]
          /\ \A k \in MatchKeys(now[i]) \ DOMAIN index : indexed[k] = i
      BY <2>3, <2>5, <2>8
    <3>7. IF i \in DOMAIN was THEN \E k \in MatchKeys(c) \cap DOMAIN index : index[k] = i
          ELSE MatchKeys(c) \cap DOMAIN index = {}
      BY <2>1, <2>2, <2>7
    <3> QED
      BY <2>5, <3>1, <3>2, <3>3, <3>4, <3>5, <3>6, <3>7, Zenon DEF Joins
  <2> QED
    BY <2>9 DEF next, was, now, index, indexed
<1> QED
  BY <1>2, <1>4, <1>5

(***************************************************************************)
(* What the model extracted is a list of entities.                         *)
(***************************************************************************)
Found(found) == \A i \in DOMAIN found : IsEntity(found[i])

(***************************************************************************)
(* The n-th entity found is behind c: its source and its claims are there. *)
(***************************************************************************)
Backs(found, n, c) ==
  /\ found[n].source \in c.sources
  /\ ClaimsOf(found[n]) \subseteq c.claims

(***************************************************************************)
(* Nothing of c is made up: each of its claims, and each of its            *)
(* attributes, is that of an entity behind it.                             *)
(***************************************************************************)
Stems(found, c) ==
  /\ \A claim \in c.claims :
       \E n \in DOMAIN found : Backs(found, n, c) /\ claim \in ClaimsOf(found[n])
  /\ \A key \in DOMAIN c.attributes :
       \E n \in DOMAIN found :
         /\ Backs(found, n, c) /\ key \in DOMAIN found[n].attributes
         /\ found[n].attributes[key] = c.attributes[key]

(***************************************************************************)
(* An entity behind c has the key, and no number if c has none.            *)
(***************************************************************************)
Witness(found, n, key, c) ==
  /\ Backs(found, n, c) /\ key \in MatchKeys(Candidate(found[n]))
  /\ c.phone = Nothing => ExactPhone(found[n]) = Nothing

(***************************************************************************)
(* All the keys of a survivor are indexed, and each key leads to a         *)
(* survivor that an entity with this key is behind.                        *)
(***************************************************************************)
Keyed(found, survivors, index) ==
  /\ \A j \in DOMAIN survivors : MatchKeys(survivors[j]) \subseteq DOMAIN index
  /\ \A key \in DOMAIN index :
       /\ index[key] \in DOMAIN survivors
       /\ \E n \in DOMAIN found : Witness(found, n, key, survivors[index[key]])

(***************************************************************************)
(* Two entities that deduplicate matches without a number: by name or by   *)
(* site.                                                                   *)
(***************************************************************************)
Alike(e, f) == e.name = f.name \/ (e.site # Nothing /\ e.site = f.site)

(***************************************************************************)
(* An entity with the number of c is like one behind c that has another    *)
(* number or none.                                                         *)
(***************************************************************************)
Bridges(found, c) ==
  \E i \in DOMAIN found, n \in DOMAIN found :
    /\ Backs(found, n, c) /\ Alike(found[n], found[i])
    /\ found[i].phone = c.phone /\ found[n].phone # c.phone

(***************************************************************************)
(* The number of a survivor leads to it in the index, unless the survivor  *)
(* got the number over a name or a site.                                   *)
(***************************************************************************)
Numbered(found, survivors, index) ==
  \A j \in DOMAIN survivors : survivors[j].phone # Nothing =>
    index[<<"phone", survivors[j].phone>>] = j \/ Bridges(found, survivors[j])

(***************************************************************************)
(* What is behind a candidate stays behind it when it grows.               *)
(***************************************************************************)
LEMMA BacksMore ==
  ASSUME NEW found, NEW n, NEW a, NEW b, Backs(found, n, a), Grown(a, b)
  PROVE  Backs(found, n, b)
BY DEF Backs, Grown

(***************************************************************************)
(* An entity is behind whatever its own candidate has grown into.          *)
(***************************************************************************)
LEMMA CandidateBacks ==
  ASSUME NEW found, Found(found), NEW q \in DOMAIN found, NEW b, Grown(Candidate(found[q]), b)
  PROVE  Backs(found, q, b)
<1>1. /\ Candidate(found[q]).sources = {found[q].source}
      /\ Candidate(found[q]).claims = ClaimsOf(found[q])
  BY DEF Candidate
<1> QED
  BY <1>1 DEF Backs, Grown

(***************************************************************************)
(* Joining makes nothing up.                                               *)
(***************************************************************************)
LEMMA JoinStems ==
  ASSUME NEW found, Found(found), NEW q \in DOMAIN found, NEW was, NEW now, NEW index, NEW indexed,
         NEW i, Joins(was, now, index, indexed, Candidate(found[q]), i),
         \A j \in DOMAIN was : Stems(found, was[j])
  PROVE  \A j \in DOMAIN now : Stems(found, now[j])
<1> DEFINE c == Candidate(found[q])
           x == now[i]
           a == was[i]
<1>1. /\ DOMAIN now = DOMAIN was \cup {i} /\ \A j \in DOMAIN was \ {i} : now[j] = was[j]
      /\ Grown(c, x) /\ (i \in DOMAIN was => Grown(a, x))
  BY DEF Joins
<1>2. \A claim \in x.claims : claim \in c.claims \/ (i \in DOMAIN was /\ claim \in a.claims)
  BY DEF Joins
<1>3. \A key \in DOMAIN x.attributes :
        \/ key \in DOMAIN c.attributes /\ x.attributes[key] = c.attributes[key]
        \/ i \in DOMAIN was /\ key \in DOMAIN a.attributes /\ x.attributes[key] = a.attributes[key]
  BY DEF Joins
<1>4. Backs(found, q, x)
  BY <1>1, CandidateBacks
<1>5. c.claims = ClaimsOf(found[q]) /\ c.attributes = found[q].attributes
  BY DEF Candidate
<1> HIDE DEF c, x, a
<1>6. ASSUME NEW claim \in x.claims
      PROVE  \E n \in DOMAIN found : Backs(found, n, x) /\ claim \in ClaimsOf(found[n])
  <2>1. CASE claim \in c.claims
    BY <1>4, <1>5, <2>1
  <2>2. CASE i \in DOMAIN was /\ claim \in a.claims
    <3>1. Stems(found, a)
      BY <2>2 DEF a
    <3>2. PICK n \in DOMAIN found : Backs(found, n, a) /\ claim \in ClaimsOf(found[n])
      BY <2>2, <3>1 DEF Stems
    <3>3. Backs(found, n, x)
      BY <1>1, <2>2, <3>2, BacksMore
    <3> QED
      BY <3>2, <3>3
  <2> QED
    BY <1>2, <2>1, <2>2
<1>7. ASSUME NEW key \in DOMAIN x.attributes
      PROVE  \E n \in DOMAIN found :
               /\ Backs(found, n, x) /\ key \in DOMAIN found[n].attributes
               /\ found[n].attributes[key] = x.attributes[key]
  <2>1. CASE key \in DOMAIN c.attributes /\ x.attributes[key] = c.attributes[key]
    BY <1>4, <1>5, <2>1
  <2>2. CASE /\ i \in DOMAIN was /\ key \in DOMAIN a.attributes
             /\ x.attributes[key] = a.attributes[key]
    <3>1. Stems(found, a)
      BY <2>2 DEF a
    <3>2. PICK n \in DOMAIN found :
            /\ Backs(found, n, a) /\ key \in DOMAIN found[n].attributes
            /\ found[n].attributes[key] = a.attributes[key]
      BY <2>2, <3>1 DEF Stems
    <3>3. Backs(found, n, x)
      BY <1>1, <2>2, <3>2, BacksMore
    <3> QED
      BY <2>2, <3>2, <3>3
  <2> QED
    BY <1>3, <2>1, <2>2
<1>8. Stems(found, x)
  BY <1>6, <1>7 DEF Stems
<1> QED
  BY <1>1, <1>8 DEF x

(***************************************************************************)
(* A witness remains one when its survivor grows without gaining a number. *)
(***************************************************************************)
LEMMA WitnessMore ==
  ASSUME NEW found, NEW n, NEW key, NEW a, NEW b, Witness(found, n, key, a), Grown(a, b),
         b.phone = Nothing => a.phone = Nothing
  PROVE  Witness(found, n, key, b)
BY BacksMore DEF Witness

(***************************************************************************)
(* Joining keeps the index complete and witnessed.                         *)
(***************************************************************************)
LEMMA JoinKeyed ==
  ASSUME NEW found, Found(found), NEW q \in DOMAIN found, NEW was, NEW now, NEW index, NEW indexed,
         NEW i, Joins(was, now, index, indexed, Candidate(found[q]), i),
         Keyed(found, was, index)
  PROVE  Keyed(found, now, indexed)
<1> DEFINE c == Candidate(found[q])
           x == now[i]
           a == was[i]
<1>1. /\ DOMAIN now = DOMAIN was \cup {i} /\ \A j \in DOMAIN was \ {i} : now[j] = was[j]
      /\ Grown(c, x) /\ (i \in DOMAIN was => Grown(a, x))
      /\ x.phone = IF i \in DOMAIN was /\ a.phone # Nothing THEN a.phone ELSE c.phone
  BY DEF Joins
<1>2. \A key \in MatchKeys(x) : key \in MatchKeys(c) \/ (i \in DOMAIN was /\ key \in MatchKeys(a))
  BY DEF Joins
<1>3. /\ DOMAIN indexed = DOMAIN index \cup MatchKeys(x)
      /\ \A key \in DOMAIN index : indexed[key] = index[key]
      /\ \A key \in MatchKeys(x) \ DOMAIN index : indexed[key] = i
  BY DEF Joins
<1>4. Backs(found, q, x)
  BY <1>1, CandidateBacks
<1>5. c.phone = ExactPhone(found[q]) /\ c = Candidate(found[q])
  BY DEF Candidate
<1> HIDE DEF c, x, a
<1>6. ASSUME NEW j \in DOMAIN now PROVE MatchKeys(now[j]) \subseteq DOMAIN indexed
  <2>1. CASE j = i
    BY <1>3, <2>1 DEF x
  <2>2. CASE j # i
    BY <1>1, <1>3, <2>2 DEF Keyed
  <2> QED
    BY <2>1, <2>2
<1>7. ASSUME NEW key \in DOMAIN indexed
      PROVE  /\ indexed[key] \in DOMAIN now
             /\ \E n \in DOMAIN found : Witness(found, n, key, now[indexed[key]])
  <2>1. CASE key \in DOMAIN index
    <3>1. indexed[key] = index[key] /\ index[key] \in DOMAIN was
      BY <1>3, <2>1 DEF Keyed
    <3>2. PICK n \in DOMAIN found : Witness(found, n, key, was[index[key]])
      BY <2>1 DEF Keyed
    <3>3. CASE index[key] = i
      <4>1. Witness(found, n, key, a) /\ i \in DOMAIN was
        BY <3>1, <3>2, <3>3 DEF a
      <4>2. Grown(a, x) /\ (x.phone = Nothing => a.phone = Nothing)
        BY <1>1, <4>1
      <4>3. Witness(found, n, key, x)
        BY <4>1, <4>2, WitnessMore
      <4> QED
        BY <1>1, <3>1, <3>3, <4>3 DEF x
    <3>4. CASE index[key] # i
      BY <1>1, <3>1, <3>2, <3>4
    <3> QED
      BY <3>3, <3>4
  <2>2. CASE key \notin DOMAIN index
    <3>1. key \in MatchKeys(x) /\ indexed[key] = i
      BY <1>3, <2>2
    <3>2. key \in MatchKeys(c)
      <4>1. i \in DOMAIN was => key \notin MatchKeys(a)
        BY <2>2 DEF Keyed, a
      <4> QED
        BY <1>2, <3>1, <4>1
    <3>3. x.phone = Nothing => ExactPhone(found[q]) = Nothing
      BY <1>1, <1>5
    <3>4. Witness(found, q, key, x)
      BY <1>4, <1>5, <3>2, <3>3 DEF Witness
    <3> QED
      BY <1>1, <3>1, <3>4 DEF x
  <2> QED
    BY <2>1, <2>2
<1> QED
  BY <1>6, <1>7 DEF Keyed

(***************************************************************************)
(* Joining keeps numbers leading to their survivors. The survivor that     *)
(* gains a number which already leads elsewhere was joined over another    *)
(* key, and the witness of that key has no number: the two entities are    *)
(* the bridge.                                                             *)
(***************************************************************************)
LEMMA JoinNumbered ==
  ASSUME NEW found, Found(found), NEW q \in DOMAIN found, NEW was, NEW now, NEW index, NEW indexed,
         NEW i, Joins(was, now, index, indexed, Candidate(found[q]), i),
         Keyed(found, was, index), Numbered(found, was, index)
  PROVE  Numbered(found, now, indexed)
<1> DEFINE c == Candidate(found[q])
           x == now[i]
           a == was[i]
           Number(p) == <<"phone", p>>
<1>1. /\ DOMAIN now = DOMAIN was \cup {i} /\ \A j \in DOMAIN was \ {i} : now[j] = was[j]
      /\ Grown(c, x) /\ (i \in DOMAIN was => Grown(a, x))
      /\ x.phone = IF i \in DOMAIN was /\ a.phone # Nothing THEN a.phone ELSE c.phone
  BY DEF Joins
<1>2. IF i \in DOMAIN was THEN \E key \in MatchKeys(c) \cap DOMAIN index : index[key] = i
      ELSE MatchKeys(c) \cap DOMAIN index = {}
  BY DEF Joins
<1>3. /\ DOMAIN indexed = DOMAIN index \cup MatchKeys(x)
      /\ \A key \in DOMAIN index : indexed[key] = index[key]
      /\ \A key \in MatchKeys(x) \ DOMAIN index : indexed[key] = i
  BY DEF Joins
<1>4. /\ c.phone = ExactPhone(found[q]) /\ c.name = found[q].name /\ c.site = found[q].site
  BY DEF Candidate
<1>5. \A j \in DOMAIN was : was[j].phone # Nothing =>
        /\ Number(was[j].phone) \in DOMAIN index
        /\ index[Number(was[j].phone)] = j \/ Bridges(found, was[j])
  <2>1. \A j \in DOMAIN was : was[j].phone # Nothing => Number(was[j].phone) \in MatchKeys(was[j])
    BY DEF MatchKeys
  <2> QED
    BY <2>1 DEF Numbered, Keyed
<1>6. x.phone # Nothing => Number(x.phone) \in MatchKeys(x)
  BY DEF MatchKeys
<1>7. c.phone # Nothing => Number(c.phone) \in MatchKeys(c)
  BY DEF MatchKeys
<1> HIDE DEF c, x, a, Number
<1>8. ASSUME NEW j \in DOMAIN was \ {i}, now[j].phone # Nothing
      PROVE  indexed[Number(now[j].phone)] = j \/ Bridges(found, now[j])
  BY <1>1, <1>3, <1>5, <1>8
<1>9. ASSUME x.phone # Nothing
      PROVE  indexed[Number(x.phone)] = i \/ Bridges(found, x)
  <2>1. CASE i \in DOMAIN was /\ a.phone # Nothing
    <3>1. /\ x.phone = a.phone /\ Number(a.phone) \in DOMAIN index
          /\ index[Number(a.phone)] = i \/ Bridges(found, a)
      BY <1>1, <1>5, <2>1 DEF a
    <3>2. CASE index[Number(a.phone)] = i
      BY <1>3, <3>1, <3>2
    <3>3. CASE Bridges(found, a)
      <4>1. PICK e \in DOMAIN found, n \in DOMAIN found :
              /\ Backs(found, n, a) /\ Alike(found[n], found[e])
              /\ found[e].phone = a.phone /\ found[n].phone # a.phone
        BY <3>3 DEF Bridges
      <4>2. Backs(found, n, x)
        BY <1>1, <2>1, <4>1, BacksMore
      <4>3. Bridges(found, x)
        BY <3>1, <4>1, <4>2 DEF Bridges
      <4> QED
        BY <4>3
    <3> QED
      BY <3>1, <3>2, <3>3
  <2>2. CASE ~(i \in DOMAIN was /\ a.phone # Nothing)
    <3>1. x.phone = c.phone /\ c.phone # Nothing
      BY <1>1, <1>9, <2>2
    <3>2. CASE Number(c.phone) \notin DOMAIN index
      BY <1>3, <1>6, <3>1, <3>2
    <3>3. CASE Number(c.phone) \in DOMAIN index
      <4>1. i \in DOMAIN was /\ a.phone = Nothing
        BY <1>2, <1>7, <2>2, <3>1, <3>3
      <4>2. PICK key \in MatchKeys(c) \cap DOMAIN index : index[key] = i
        BY <1>2, <4>1
      <4>3. CASE key = Number(c.phone)
        BY <1>3, <3>1, <4>2, <4>3
      <4>4. CASE key # Number(c.phone)
        <5>1. PICK n \in DOMAIN found : Witness(found, n, key, a)
          BY <4>2 DEF Keyed, a
        <5>2. /\ Backs(found, n, a) /\ key \in MatchKeys(Candidate(found[n]))
              /\ ExactPhone(found[n]) = Nothing
          BY <4>1, <5>1 DEF Witness
        <5>3. Backs(found, n, x)
          BY <1>1, <4>1, <5>2, BacksMore
        <5>4. found[q].phone = c.phone /\ found[n].phone # c.phone
          BY <1>4, <3>1, <5>2 DEF ExactPhone
        <5>5. \/ key = <<"name", c.name>>
              \/ c.site # Nothing /\ key = <<"url", c.site>>
          BY <4>2, <4>4 DEF MatchKeys, Number
        <5>6. \/ key = <<"name", found[n].name>>
              \/ found[n].site # Nothing /\ key = <<"url", found[n].site>>
          BY <5>2 DEF MatchKeys, Candidate
        <5>7. Alike(found[n], found[q])
          BY <1>4, <5>5, <5>6 DEF Alike
        <5>8. Bridges(found, x)
          BY <3>1, <5>3, <5>4, <5>7 DEF Bridges
        <5> QED
          BY <5>8
      <4> QED
        BY <4>3, <4>4
    <3> QED
      BY <3>2, <3>3
  <2> QED
    BY <2>1, <2>2
<1> QED
  BY <1>1, <1>8, <1>9 DEF Numbered, x, Number

(***************************************************************************)
(* Each candidate is that of an entity found.                              *)
(***************************************************************************)
Presents(found, cands) ==
  /\ cands \in Seq(CandidateEntity)
  /\ \A k \in DOMAIN cands : \E n \in DOMAIN found : cands[k] = Candidate(found[n])

(***************************************************************************)
(* What is known of survivors and index together.                          *)
(***************************************************************************)
Traces(found, survivors, index) ==
  /\ \A j \in DOMAIN survivors : Stems(found, survivors[j])
  /\ Keyed(found, survivors, index)
  /\ Numbered(found, survivors, index)

(***************************************************************************)
(* normalize gives candidates of entities found, and drops none whose      *)
(* source was fetched.                                                     *)
(***************************************************************************)
LEMMA NormalizedIs ==
  ASSUME NEW T, NEW found \in Seq(T), Found(found)
  PROVE  /\ Presents(found, Normalized(found))
         /\ \A n \in DOMAIN found : found[n].source \in Sources =>
              \E k \in DOMAIN Normalized(found) : Normalized(found)[k] = Candidate(found[n])
<1> DEFINE size == Len(found)
           Shown(k, cands) ==
             /\ Presents(found, cands)
             /\ \A n \in 1 .. k : found[n].source \in Sources =>
                  \E m \in DOMAIN cands : cands[m] = Candidate(found[n])
<1>1. size \in Nat /\ DOMAIN found = 1 .. size
  OBVIOUS
<1>2. PICK run \in [0 .. size -> Seq(CandidateEntity)] :
        /\ run[0] = <<>>
        /\ \A k \in 1 .. size :
             run[k] = IF found[k].source \in Sources
                      THEN Append(run[k - 1], Candidate(found[k])) ELSE run[k - 1]
        /\ Normalized(found) = run[size]
  BY NormalizedRuns DEF Found
<1> DEFINE S == {k \in 0 .. size : Shown(k, run[k])}
<1>3. 0 \in S
  <2>1. run[0] = <<>> /\ DOMAIN run[0] = {} /\ run[0] \in Seq(CandidateEntity)
    BY <1>2
  <2>2. Presents(found, run[0])
    BY <2>1 DEF Presents
  <2> QED
    BY <1>1, <2>2
<1>4. ASSUME NEW k \in 0 .. size - 1, k \in S
      PROVE  k + 1 \in S
  <2>1. /\ k + 1 \in 1 .. size /\ k + 1 \in 0 .. size /\ (k + 1) - 1 = k /\ k \in 0 .. size
        /\ \A n \in 1 .. k + 1 : n \in 1 .. k \/ n = k + 1
    BY <1>1
  <2> DEFINE was == run[k]
             now == run[k + 1]
             e == found[k + 1]
  <2>2. /\ was \in Seq(CandidateEntity) /\ Shown(k, was)
        /\ now = IF e.source \in Sources THEN Append(was, Candidate(e)) ELSE was
    BY <1>2, <1>4, <2>1
  <2>3. Candidate(e) \in CandidateEntity /\ k + 1 \in DOMAIN found
    BY <1>1, <2>1, CandidateIs DEF Found
  <2>4. e = found[k + 1]
    OBVIOUS
  <2> HIDE DEF was, now, e
  <2>5. CASE e.source \in Sources
    <3>1. now = Append(was, Candidate(e))
      BY <2>2, <2>5
    <3>2. /\ now \in Seq(CandidateEntity) /\ DOMAIN now = DOMAIN was \cup {Len(was) + 1}
          /\ now[Len(was) + 1] = Candidate(e) /\ \A m \in DOMAIN was : now[m] = was[m]
      BY <2>2, <2>3, <3>1
    <3>3. Presents(found, now)
      BY <2>2, <2>3, <2>4, <3>2 DEF Presents
    <3>4. ASSUME NEW n \in 1 .. k + 1, found[n].source \in Sources
          PROVE  \E m \in DOMAIN now : now[m] = Candidate(found[n])
      <4>1. CASE n = k + 1
        BY <2>4, <3>2, <4>1
      <4>2. CASE n \in 1 .. k
        <5>1. PICK m \in DOMAIN was : was[m] = Candidate(found[n])
          BY <2>2, <3>4, <4>2
        <5> QED
          BY <3>2, <5>1
      <4> QED
        BY <2>1, <4>1, <4>2
    <3>5. Shown(k + 1, now)
      BY <3>3, <3>4
    <3> HIDE DEF Shown
    <3> QED
      BY <2>1, <3>5 DEF now
  <2>6. CASE e.source \notin Sources
    <3>1. now = was
      BY <2>2, <2>6
    <3>2. Shown(k + 1, now)
      BY <2>1, <2>2, <2>4, <2>6, <3>1
    <3> HIDE DEF Shown
    <3> QED
      BY <2>1, <3>2 DEF now
  <2> QED
    BY <2>5, <2>6
<1>5. 0 .. size \subseteq S
  <2> HIDE DEF S, size
  <2> QED
    BY <1>1, <1>3, <1>4, Climbs
<1>6. Shown(size, run[size])
  BY <1>1, <1>5
<1> QED
  BY <1>1, <1>2, <1>6

(***************************************************************************)
(* Joining keeps all three.                                                *)
(***************************************************************************)
LEMMA JoinTraces ==
  ASSUME NEW found, Found(found), NEW q \in DOMAIN found, NEW was, NEW now, NEW index, NEW indexed,
         NEW i, Joins(was, now, index, indexed, Candidate(found[q]), i), Traces(found, was, index)
  PROVE  Traces(found, now, indexed)
<1>1. \A j \in DOMAIN now : Stems(found, now[j])
  BY JoinStems DEF Traces
<1>2. Keyed(found, now, indexed)
  BY JoinKeyed DEF Traces
<1>3. Numbered(found, now, indexed)
  BY JoinNumbered DEF Traces
<1> QED
  BY <1>1, <1>2, <1>3 DEF Traces

(***************************************************************************)
(* Growing is transitive.                                                  *)
(***************************************************************************)
LEMMA GrownTwice ==
  ASSUME NEW a, NEW b, NEW c, Grown(a, b), Grown(b, c)
  PROVE  Grown(a, c)
BY DEF Grown

(***************************************************************************)
(* A survivor has grown from c.                                            *)
(***************************************************************************)
Covers(survivors, c) == \E j \in DOMAIN survivors : Grown(c, survivors[j])

(***************************************************************************)
(* Joining covers the newcomer and uncovers nobody.                        *)
(***************************************************************************)
LEMMA JoinCovers ==
  ASSUME NEW was, NEW now, NEW index, NEW indexed, NEW c, NEW i,
         Joins(was, now, index, indexed, c, i)
  PROVE  Covers(now, c) /\ \A d : Covers(was, d) => Covers(now, d)
<1>1. /\ DOMAIN now = DOMAIN was \cup {i} /\ \A j \in DOMAIN was \ {i} : now[j] = was[j]
      /\ Grown(c, now[i]) /\ (i \in DOMAIN was => Grown(was[i], now[i]))
  BY DEF Joins
<1>2. ASSUME NEW d, Covers(was, d) PROVE Covers(now, d)
  <2>1. PICK j \in DOMAIN was : Grown(d, was[j])
    BY <1>2 DEF Covers
  <2>2. Grown(d, now[j])
    BY <1>1, <2>1, GrownTwice
  <2> QED
    BY <1>1, <2>2 DEF Covers
<1> QED
  BY <1>1, <1>2 DEF Covers

(***************************************************************************)
(* deduplicate loses no candidate, makes nothing up, and separates         *)
(* survivors by number except over a bridge, whichever survivor a newcomer *)
(* with several matches is merged into.                                    *)
(***************************************************************************)
LEMMA DeduplicatedIs ==
  ASSUME NEW found, Found(found), NEW cands, Presents(found, cands), NEW pick
  PROVE  /\ Deduplicate(cands, pick) \in Seq(CandidateEntity)
         /\ \E index : Traces(found, Deduplicate(cands, pick), index)
         /\ \A k \in DOMAIN cands : Covers(Deduplicate(cands, pick), cands[k])
<1> DEFINE size == Len(cands)
           Reached(k, acc) ==
             /\ acc \in Survivorship /\ Traces(found, acc.survivors, acc.index)
             /\ \A m \in 1 .. k : Covers(acc.survivors, cands[m])
<1>1. /\ cands \in Seq(CandidateEntity) /\ size \in Nat /\ DOMAIN cands = 1 .. size
  BY DEF Presents
<1>2. PICK run \in [0 .. size -> Survivorship] :
        /\ run[0] = [survivors |-> <<>>, index |-> [x \in {} |-> 0]]
        /\ \A k \in 1 .. size : run[k] = Survive(run[k - 1], cands[k], pick)
        /\ Deduplicate(cands, pick) = run[size].survivors
  BY <1>1, DeduplicateRuns
<1> DEFINE S == {k \in 0 .. size : Reached(k, run[k])}
<1>3. 0 \in S
  <2>1. /\ run[0] \in Survivorship /\ DOMAIN run[0].survivors = {} /\ DOMAIN run[0].index = {}
    BY <1>1, <1>2
  <2>2. Traces(found, run[0].survivors, run[0].index)
    BY <2>1 DEF Traces, Keyed, Numbered
  <2> QED
    BY <1>1, <2>1, <2>2
<1>4. ASSUME NEW k \in 0 .. size - 1, k \in S
      PROVE  k + 1 \in S
  <2>1. /\ k + 1 \in 1 .. size /\ k + 1 \in 0 .. size /\ (k + 1) - 1 = k /\ k \in 0 .. size
        /\ \A n \in 1 .. k + 1 : n \in 1 .. k \/ n = k + 1
    BY <1>1
  <2> DEFINE was == run[k]
             now == run[k + 1]
             c == cands[k + 1]
  <2>2. was \in Survivorship /\ Reached(k, was) /\ now = Survive(was, c, pick)
    BY <1>2, <1>4, <2>1
  <2>3. c \in CandidateEntity
    BY <1>1, <2>1
  <2>4. PICK q \in DOMAIN found : c = Candidate(found[q])
    BY <1>1, <2>1 DEF Presents
  <2>5. now \in Survivorship
    BY <1>2, <2>1
  <2>6. c = cands[k + 1]
    OBVIOUS
  <2> HIDE DEF was, now, c
  <2>7. PICK i : Joins(was.survivors, now.survivors, was.index, now.index, c, i)
    BY <2>2, <2>3, SurviveJoins
  <2>8. Traces(found, now.survivors, now.index)
    BY <2>2, <2>4, <2>7, JoinTraces
  <2>9. \A m \in 1 .. k + 1 : Covers(now.survivors, cands[m])
    BY <2>1, <2>2, <2>6, <2>7, JoinCovers
  <2>10. Reached(k + 1, now)
    BY <2>5, <2>8, <2>9
  <2> HIDE DEF Reached
  <2> QED
    BY <2>1, <2>10 DEF now
<1>5. 0 .. size \subseteq S
  <2> HIDE DEF S, size
  <2> QED
    BY <1>1, <1>3, <1>4, Climbs
<1>6. Reached(size, run[size])
  BY <1>1, <1>5
<1>7. run[size].survivors \in Seq(CandidateEntity)
  BY <1>6 DEF Survivorship
<1> QED
  BY <1>1, <1>2, <1>6, <1>7
==============================================================================
