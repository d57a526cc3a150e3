---------------------------- MODULE AgentFactory -----------------------------
(***************************************************************************)
(* agents/factory.py: which of the specialists the model proposes become   *)
(* agents. A proposal has a name, the tokens of what it owns, the names it *)
(* depends on, the names its why_needed mentions, and whether tools,       *)
(* purpose and output schema are acceptable. The module has no state.      *)
(***************************************************************************)
EXTENDS Integers, FiniteSets, SequencesExt, StrategyArchitect

CONSTANTS AgentOverlap,   \* agent_overlap_threshold, in percent
          CAP_BANDS,      \* score and cap, in order
          CAP_MAX

ASSUME FactoryAssumption ==
  /\ AgentOverlap \in 1 .. 100 /\ CAP_MAX \in Nat
  /\ CAP_BANDS \in Seq([upper : Nat, cap : Nat])

(***************************************************************************)
(* What the model fills in for a specialist. Tokens are numbers.           *)
(***************************************************************************)
AgentSpecProposal ==
  [name : STRING, owns : SUBSET Nat, needs : SUBSET STRING, mentions : SUBSET STRING,
   acceptable : BOOLEAN]

RESERVED_NAMES == {"orchestrator"}   \* and six more

ComplexityScore(constraints, categories, strategies) == constraints + categories + strategies

AgentCap(score) ==
  LET bands == {i \in DOMAIN CAP_BANDS : score <= CAP_BANDS[i].upper}
  IN  IF bands = {} THEN CAP_MAX ELSE CAP_BANDS[CHOOSE i \in bands : \A j \in bands : i <= j].cap

Names(team) == {team[i].name : i \in DOMAIN team}

(***************************************************************************)
(* 1. Per-spec gates.                                                      *)
(***************************************************************************)
Passes(kept, p) == p.name \notin RESERVED_NAMES \cup Names(kept) /\ p.acceptable

Gated(proposals) ==
  FoldLeft(LAMBDA kept, p : IF Passes(kept, p) THEN Append(kept, p) ELSE kept, <<>>, proposals)

(***************************************************************************)
(* 2. Ownership: a proposal that overlaps an earlier one is folded into    *)
(* the first such, unless it says why that one is not enough. What the     *)
(* earlier one owns grows, and is not compared again.                      *)
(***************************************************************************)
Owner(team, p) ==
  LET owners == {i \in DOMAIN team : Overlap(p.owns, team[i].owns, AgentOverlap)}
  IN  IF owners = {} THEN 0 ELSE CHOOSE i \in owners : \A j \in owners : i <= j

Justified(team, i, p) == team[i].name \in p.mentions

MergeInto(base, extra) ==
  [base EXCEPT !.owns = @ \cup extra.owns, !.needs = @ \cup extra.needs]

Place(acc, p) ==
  LET i == Owner(acc.team, p)
  IN IF i = 0 \/ Justified(acc.team, i, p) THEN [acc EXCEPT !.team = Append(@, p)]
     ELSE [team |-> [acc.team EXCEPT ![i] = MergeInto(@, p)],
           alias |-> [n \in DOMAIN acc.alias \cup {p.name} |->
                       IF n = p.name THEN acc.team[i].name ELSE acc.alias[n]]]

Merged2(kept) == FoldLeft(Place, [team |-> <<>>, alias |-> [n \in {} |-> ""]], kept)

(***************************************************************************)
(* 3. Dependencies by name: of the team, what remains when members that    *)
(* need somebody outside are rejected until there is none.                 *)
(***************************************************************************)
Known(alias, n) == IF n \in DOMAIN alias THEN alias[n] ELSE n

NeedsOf(acc, p) == {Known(acc.alias, n) : n \in p.needs} \ {p.name}

Resolvable(acc) ==
  UNION {S \in SUBSET Names(acc.team) :
           \A i \in DOMAIN acc.team :
             acc.team[i].name \in S => NeedsOf(acc, acc.team[i]) \subseteq S}

Unordered(acc, names) == names   \* slip: cycles are not looked for

(***************************************************************************)
(* 4. What is in a cycle, or downstream of one, is rejected: the rest is   *)
(* the largest set that can be taken in rounds (_kahn), the least one      *)
(* closed under taking a member all of whose needs are in it.              *)
(***************************************************************************)
BuildGraph(acc, names) ==
  [n \in names |-> names \cap
     UNION {NeedsOf(acc, acc.team[i]) : i \in {j \in DOMAIN acc.team : acc.team[j].name = n}}]

Ordered(acc, names) ==
  LET graph == BuildGraph(acc, names)
      Takes(S) == {n \in names : graph[n] \subseteq S}
  IN {n \in names : \A S \in SUBSET names : Takes(S) \subseteq S => n \in S}

Accepted(acc, names) ==
  FoldLeft(LAMBDA team, p : IF p.name \in names
                            THEN Append(team, [p EXCEPT !.needs = NeedsOf(acc, p)]) ELSE team,
           <<>>, acc.team)

ValidateSwarm(proposals) ==
  LET acc == Merged2(Gated(proposals))
  IN Accepted(acc, Ordered(acc, Resolvable(acc)))

(***************************************************************************)
(* truncate_to_cap: members nobody depends on go, the last listed first.   *)
(***************************************************************************)
Leaves(team) == {i \in DOMAIN team : \A j \in DOMAIN team : team[i].name \notin team[j].needs}

Victim(team) ==
  LET leaves == Leaves(team)
  IN  IF leaves = {} THEN Len(team) ELSE CHOOSE i \in leaves : \A j \in leaves : j <= i

Without(team, i) ==
  LET rest == RemoveAt(team, i)
  IN [k \in DOMAIN rest |-> [rest[k] EXCEPT !.needs = @ \ {team[i].name}]]

TruncateToCap(team, cap) ==
  FoldLeft(LAMBDA kept, n : IF Len(kept) > cap THEN Without(kept, Victim(kept)) ELSE kept,
           team, team)

(***************************************************************************)
(* add_specialist: the same gates, against the live agents proposed again  *)
(* (without dependencies) in front of the new one, under the cap. The      *)
(* result is the new member, if any.                                       *)
(***************************************************************************)
ProposedAgain(live) ==
  [i \in DOMAIN live |-> [live[i] EXCEPT !.needs = {}, !.acceptable = TRUE]]

AddSpecialist(live, p, cap) ==
  LET team == ValidateSwarm(Append(ProposedAgain(live), p))
      new == {i \in DOMAIN team : team[i].name = p.name}
  IN  IF Len(live) >= cap \/ p.name \in Names(live) \/ new = {} THEN {}
      ELSE {[team[i] EXCEPT !.needs = @ \cap Names(live)] : i \in new}

(***************************************************************************)
(* What a team is for: whoever a member waits for is in it, and the        *)
(* members can be numbered so that each comes after those it waits for.    *)
(***************************************************************************)
Runnable(team) ==
  /\ \A i, j \in DOMAIN team : i # j => team[i].name # team[j].name
  /\ \A i \in DOMAIN team : team[i].needs \subseteq Names(team)
  /\ \E number \in [Names(team) -> 1 .. Len(team)] :
       \A i \in DOMAIN team : \A n \in team[i].needs : number[n] < number[team[i].name]
==============================================================================
