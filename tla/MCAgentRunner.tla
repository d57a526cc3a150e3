---------------------------- MODULE MCAgentRunner ----------------------------
(***************************************************************************)
(* Three agents: every cyclic graph, a chain, a fork and a join.           *)
(***************************************************************************)
EXTENDS AgentRunner, TLC

CONSTANTS a1, a2, a3

ThreeAgents == {a1, a2, a3}

Chain == (a1 :> {}) @@ (a2 :> {a1}) @@ (a3 :> {a2})
Fork == (a1 :> {}) @@ (a2 :> {a1}) @@ (a3 :> {a1})
Join == (a1 :> {}) @@ (a2 :> {}) @@ (a3 :> {a1, a2})
Cyclic == {g \in [ThreeAgents -> SUBSET ThreeAgents] : ~Acyclic(g)}
SomeGraphs == {Chain, Fork, Join} \cup Cyclic
==============================================================================
