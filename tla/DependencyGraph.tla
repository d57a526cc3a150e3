--------------------------- MODULE DependencyGraph ---------------------------
(***************************************************************************)
(* DependencyGraph (orchestrator/graph.py) over generated agents: g[a] is  *)
(* the set of agents a depends on, each of them an agent (build_graph      *)
(* refuses the rest before).                                               *)
(***************************************************************************)
EXTENDS Naturals, FiniteSets

CONSTANTS Agents

ASSUME AgentsAssumption == IsFiniteSet(Agents)

DependentsOf(g, a) == {b \in Agents : a \in g[b]}

ReadyAgain(g, completed, excluded) ==   \* slip: what has run is not excluded
  {a \in Agents \ completed : g[a] \subseteq completed}

Ready(g, completed, excluded) ==
  {a \in Agents \ (completed \cup excluded) : g[a] \subseteq completed}

DownstreamOneLevel(g, a) == DependentsOf(g, a)   \* slip: not transitive

(***************************************************************************)
(* Every transitive dependent: the least set that holds the dependents of  *)
(* a and those of its members.                                             *)
(***************************************************************************)
Downstream(g, a) ==
  {b \in Agents :
     \A S \in SUBSET Agents :
       (DependentsOf(g, a) \subseteq S /\ \A x \in S : DependentsOf(g, x) \subseteq S) => b \in S}

(***************************************************************************)
(* _kahn: what has no dependency left among the remaining nodes is removed *)
(* until nothing is; what is left is in a cycle or depends on one.         *)
(***************************************************************************)
CyclicNodes(g) ==
  LET kahn[rest \in SUBSET Agents] ==
        LET ready == {a \in rest : g[a] \cap rest = {}}
        IN  IF ready = {} THEN rest ELSE kahn[rest \ ready]
  IN  kahn[Agents]

(***************************************************************************)
(* What the algorithm is for: the agents can be numbered so that each      *)
(* comes after its dependencies.                                           *)
(***************************************************************************)
Acyclic(g) ==
  \E number \in [Agents -> 1 .. Cardinality(Agents)] :
    \A a \in Agents : \A d \in g[a] : number[d] < number[a]
==============================================================================
