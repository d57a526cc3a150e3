----------------------------- MODULE AgentSwarm ------------------------------
(***************************************************************************)
(* What the runner promises of a swarm: every agent is launched at most    *)
(* once, after all agents it depends on have delivered; it produces its    *)
(* artifact while it works, and delivers it when it is over.               *)
(***************************************************************************)
CONSTANTS Agents

VARIABLES deps,           \* the dependency graph
          phase,          \* how far each agent is
          produced,       \* agents whose output passed its schema
          delivered       \* agents whose artifact is passed on

swarmVars == <<deps, phase, produced, delivered>>

SwarmInit ==
  /\ deps \in [Agents -> SUBSET Agents]
  /\ phase = [a \in Agents |-> "waiting"]
  /\ produced = {}
  /\ delivered = {}

Launch(S) ==
  /\ \A a \in S : phase[a] = "waiting" /\ deps[a] \subseteq delivered
  /\ phase' = [a \in Agents |-> IF a \in S THEN "launched" ELSE phase[a]]
  /\ UNCHANGED <<deps, produced, delivered>>

Start(a) ==
  /\ phase[a] = "launched"
  /\ phase' = [phase EXCEPT ![a] = "working"]
  /\ UNCHANGED <<deps, produced, delivered>>

Produce(a) ==
  /\ phase[a] = "working"
  /\ produced' = produced \cup {a}
  /\ \/ UNCHANGED phase
     \/ phase' = [phase EXCEPT ![a] = "over"]
  /\ UNCHANGED <<deps, delivered>>

Finish(a) ==
  /\ phase[a] \in {"launched", "working"}
  /\ phase' = [phase EXCEPT ![a] = "over"]
  /\ UNCHANGED <<deps, produced, delivered>>

Deliver(a) ==
  /\ phase[a] = "over"
  /\ a \in produced
  /\ delivered' = delivered \cup {a}
  /\ UNCHANGED <<deps, phase, produced>>

SwarmNext ==
  \/ \E S \in SUBSET Agents : Launch(S)
  \/ \E a \in Agents : Start(a) \/ Produce(a) \/ Finish(a) \/ Deliver(a)

SwarmSpec == SwarmInit /\ [][SwarmNext]_swarmVars
==============================================================================
