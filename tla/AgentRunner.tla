----------------------------- MODULE AgentRunner -----------------------------
(***************************************************************************)
(* AgentRunner (agents/runner.py): one call of run_swarm, the task of each *)
(* agent, and stop_agent, which the orchestrator may call meanwhile.       *)
(***************************************************************************)
(***************************************************************************)
(* Every change of an agent's status is a _transition: the copy in memory  *)
(* is tested, the rows are committed, and only then the copy is replaced.  *)
(* Whoever is in between stands in `move`; two may be, on the same agent.  *)
(* The event a transition emits changes nothing here; when it fails, the   *)
(* transition has happened and its caller sees the exception.              *)
(***************************************************************************)
EXTENDS DependencyGraph

CONSTANTS Graphs,         \* the dependency graphs a swarm may be started with
          SwarmTask,      \* the task that is in run_swarm
          Stopper,        \* the task that is in stop_agent
          NoAgent,
          Concurrency,    \* settings.agent_concurrency
          MaxTurns,       \* settings.agent_max_turns
          MaxStops,       \* bound: stops asked for
          MaxFaults       \* bound: writes and emits that fail

ASSUME RunnerAssumption ==
  /\ Graphs \subseteq [Agents -> SUBSET Agents]
  /\ SwarmTask \notin Agents /\ Stopper \notin Agents /\ SwarmTask # Stopper
  /\ NoAgent \notin Agents
  /\ Concurrency \in Nat \ {0}
  /\ MaxTurns \in Nat \ {0}
  /\ MaxStops \in Nat
  /\ MaxFaults \in Nat

VARIABLES deps,           \* the graph
          swarm,          \* where run_swarm stands
          completed,      \* agents whose artifact is passed on
          finished,       \* agents run_swarm is done with
          status,         \* run.status of each agent, the copy in memory
          stored,         \* run.status of each agent, the row
          task,           \* the asyncio task of each agent
          move,           \* the transition each task is in
          turns,          \* turns each agent has taken
          rejected,       \* agents whose output was sent back once
          artifact,       \* agents that have set state.artifact
          canceling,      \* the agent stop_agent is about to cancel
          stops, faults   \* how many there were

swarmState == <<deps, swarm, completed, finished>>
agentState == <<status, stored, task, move>>
turnState == <<turns, rejected, artifact>>
stopState == <<canceling, stops, faults>>
runnerVars == <<swarmState, agentState, turnState, stopState>>

AgentState ==
  {"CREATED", "READY", "WORKING", "BLOCKED", "WAITING_FOR_DEPENDENCY",
   "WAITING_FOR_CALL", "COMPLETE", "STOPPED", "FAILED"}
TERMINAL_RUN_STATES == {"COMPLETE", "FAILED", "STOPPED", "BLOCKED"}

Tasks == Agents \cup {SwarmTask, Stopper}
Move == [agent : Agents, to : AgentState, done : BOOLEAN]
NoMove == [agent |-> NoAgent]

Terminal(a) == status[a] \in TERMINAL_RUN_STATES
Moving(t) == move[t] # NoMove
Begin(t, a, to) == move' = [move EXCEPT ![t] = [agent |-> a, to |-> to, done |-> FALSE]]
End(t) == move' = [move EXCEPT ![t] = NoMove]

SwarmState ==
  [pc : {"build", "refused", "schedule", "release", "block", "returned", "crashed"},
   left : SUBSET Agents, batch : SUBSET Agents]

(***************************************************************************)
(* A task in a transition is the task of that agent and holds a slot, and  *)
(* what run_swarm passes on it is done with.                               *)
(***************************************************************************)
RunnerTypeOK ==
  /\ deps \in Graphs
  /\ swarm \in SwarmState
  /\ completed \subseteq finished /\ finished \subseteq Agents
  /\ status \in [Agents -> AgentState]
  /\ stored \in [Agents -> AgentState]
  /\ task \in [Agents -> {"idle", "queued", "executing", "guarding", "ended", "popped"}]
  /\ move \in [Tasks -> Move \cup {NoMove}]
  /\ \A a \in Agents :
       Moving(a) => move[a].agent = a /\ task[a] \in {"executing", "guarding"}
  /\ turns \in [Agents -> 0 .. MaxTurns + 1]
  /\ rejected \subseteq Agents /\ artifact \subseteq Agents
  /\ canceling \in Agents \cup {NoAgent}
  /\ stops \in 0 .. MaxStops /\ faults \in 0 .. MaxFaults

RunnerInit ==
  /\ deps \in Graphs
  /\ swarm = [pc |-> "build", left |-> {}, batch |-> {}]
  /\ completed = {} /\ finished = {}
  /\ status = [a \in Agents |-> "CREATED"] /\ stored = status
  /\ task = [a \in Agents |-> "idle"]
  /\ move = [t \in Tasks |-> NoMove]
  /\ turns = [a \in Agents |-> 0] /\ rejected = {} /\ artifact = {}
  /\ canceling = NoAgent /\ stops = 0 /\ faults = 0

-----------------------------------------------------------------------------
(***************************************************************************)
(* _transition, the commit: run and spec rows, in one session.             *)
(***************************************************************************)
Store(t) ==
  /\ Moving(t) /\ ~move[t].done
  /\ stored' = [stored EXCEPT ![move[t].agent] = move[t].to]
  /\ move' = [move EXCEPT ![t].done = TRUE]
  /\ UNCHANGED <<swarmState, status, task, turnState, stopState>>

Apply(t) ==
  /\ Moving(t) /\ move[t].done
  /\ status' = [status EXCEPT ![move[t].agent] = move[t].to]

(***************************************************************************)
(* A write that fails leaves nothing and an emit that fails leaves the     *)
(* transition made; both raise.                                            *)
(***************************************************************************)
Fails(t) ==
  /\ faults < MaxFaults
  /\ faults' = faults + 1
  /\ \/ Moving(t) /\ ~move[t].done /\ UNCHANGED status
     \/ Apply(t)
  /\ UNCHANGED <<deps, stored, turns, stops>>

-----------------------------------------------------------------------------
(***************************************************************************)
(* run_swarm: build_graph raises on a cycle; otherwise a run is created    *)
(* for every agent and each is made to wait or READY.                      *)
(***************************************************************************)
StartSwarm ==
  /\ swarm.pc = "build"
  /\ swarm' = IF CyclicNodes(deps) # {}
              THEN [swarm EXCEPT !.pc = "refused"]
              ELSE [swarm EXCEPT !.pc = "schedule", !.left = Agents]
  /\ UNCHANGED <<deps, completed, finished, agentState, turnState, stopState>>

InSwarm(pc) == swarm.pc = pc /\ ~Moving(SwarmTask)
Passed(a) == swarm' = [swarm EXCEPT !.left = @ \ {a}]

Schedule(a) ==
  /\ InSwarm("schedule")
  /\ a \in swarm.left
  /\ IF Terminal(a)
     THEN Passed(a) /\ UNCHANGED move
     ELSE /\ Begin(SwarmTask, a, IF deps[a] = {} THEN "READY" ELSE "WAITING_FOR_DEPENDENCY")
          /\ UNCHANGED swarm
  /\ UNCHANGED <<deps, completed, finished, status, stored, task, turnState, stopState>>

LaunchRoots ==
  /\ InSwarm("schedule")
  /\ swarm.left = {}
  /\ task' = [a \in Agents |-> IF a \in Ready(deps, {}, {}) THEN "queued" ELSE "idle"]
  /\ swarm' = [swarm EXCEPT !.pc = "release"]
  /\ UNCHANGED <<deps, completed, finished, status, stored, move, turnState, stopState>>

Running == {a \in Agents : task[a] \in {"queued", "executing", "guarding", "ended"}}
Ended == {a \in Agents : task[a] = "ended"}

BetweenTasks ==
  /\ swarm.pc \in {"release", "block"}
  /\ swarm.left = {}
  /\ ~Moving(SwarmTask)

(***************************************************************************)
(* asyncio.wait(FIRST_COMPLETED) hands over the tasks that have ended.     *)
(***************************************************************************)
Wake ==
  /\ BetweenTasks /\ swarm.batch = {} /\ Ended # {}
  /\ swarm' = [swarm EXCEPT !.batch = Ended]
  /\ UNCHANGED <<deps, completed, finished, agentState, turnState, stopState>>

Return ==
  /\ BetweenTasks /\ swarm.batch = {} /\ Running = {}
  /\ swarm' = [swarm EXCEPT !.pc = "returned"]
  /\ UNCHANGED <<deps, completed, finished, agentState, turnState, stopState>>

(***************************************************************************)
(* One ended task is taken up: a complete agent may make others ready, one *)
(* that failed or was stopped blocks its dependents, one that waits for a  *)
(* call leaves them waiting. What the task remembered is gone with it.     *)
(***************************************************************************)
Pop(a) ==
  LET now == finished \cup {a}
  IN  /\ BetweenTasks
      /\ a \in swarm.batch
      /\ task' = [task EXCEPT ![a] = "popped"]
      /\ turns' = [turns EXCEPT ![a] = 0] /\ rejected' = rejected \ {a}
      /\ finished' = now
      /\ completed' = IF status[a] = "COMPLETE" THEN completed \cup {a} ELSE completed
      /\ swarm' = CASE status[a] = "COMPLETE" ->
                         [pc |-> "release", batch |-> swarm.batch \ {a},
                          left |-> Ready(deps, completed', now \cup (Running \ {a}))]
                    [] Terminal(a) /\ status[a] # "COMPLETE" ->
                         [pc |-> "block", batch |-> swarm.batch \ {a},
                          left |-> Downstream(deps, a)]
                    [] OTHER -> [swarm EXCEPT !.batch = @ \ {a}]
      /\ UNCHANGED <<deps, status, stored, move, artifact, stopState>>

Waits(a) == status[a] = "WAITING_FOR_DEPENDENCY"

(***************************************************************************)
(* A ready dependent is made READY and launched; one that was stopped      *)
(* while it waited is launched as it is.                                   *)
(***************************************************************************)
Release(a) ==
  /\ InSwarm("release")
  /\ a \in swarm.left
  /\ IF Waits(a)
     THEN Begin(SwarmTask, a, "READY") /\ UNCHANGED <<swarm, task>>
     ELSE /\ task' = [task EXCEPT ![a] = "queued"]
          /\ Passed(a)
          /\ UNCHANGED move
  /\ UNCHANGED <<deps, completed, finished, status, stored, turnState, stopState>>

Block(a) ==
  /\ InSwarm("block")
  /\ a \in swarm.left
  /\ IF Waits(a)
     THEN Begin(SwarmTask, a, "BLOCKED") /\ UNCHANGED swarm
     ELSE Passed(a) /\ UNCHANGED move
  /\ UNCHANGED <<deps, completed, finished, status, stored, task, turnState, stopState>>

SwarmApplies ==
  LET a == move[SwarmTask].agent
  IN  /\ Apply(SwarmTask)
      /\ End(SwarmTask)
      /\ Passed(a)
      /\ task' = IF swarm.pc = "release" THEN [task EXCEPT ![a] = "queued"] ELSE task
      /\ finished' = IF swarm.pc = "block" THEN finished \cup {a} ELSE finished
      /\ UNCHANGED <<deps, completed, stored, turnState, stopState>>

(***************************************************************************)
(* Nothing in run_swarm catches an exception: it leaves, and its tasks run *)
(* on.                                                                     *)
(***************************************************************************)
SwarmFails ==
  /\ Fails(SwarmTask)
  /\ End(SwarmTask)
  /\ swarm' = [swarm EXCEPT !.pc = "crashed"]
  /\ UNCHANGED <<completed, finished, task, rejected, artifact, canceling>>

-----------------------------------------------------------------------------
(***************************************************************************)
(* _guarded_run: the semaphore, then _execute, which starts with the       *)
(* transition to WORKING unless the output schema is invalid.              *)
(***************************************************************************)
HoldingForever == {a \in Agents : task[a] \notin {"idle", "queued"}}   \* slip: never released

Holding == {a \in Agents : task[a] \in {"executing", "guarding"}}

Acquire(a) ==
  /\ task[a] = "queued"
  /\ Cardinality(Holding) < Concurrency
  /\ IF status[a] = "READY"
     THEN /\ task' = [task EXCEPT ![a] = "executing"]
          /\ Begin(a, a, "WORKING") \/ Begin(a, a, "FAILED")
     ELSE task' = [task EXCEPT ![a] = "ended"] /\ UNCHANGED move
  /\ UNCHANGED <<swarmState, status, stored, turnState, stopState>>

(***************************************************************************)
(* A task asks for a transition, in _execute or in the handler around it;  *)
(* a terminal run is left alone and the task is over.                      *)
(***************************************************************************)
Propose(a, where, to) ==
  IF Terminal(a)
  THEN task' = [task EXCEPT ![a] = "ended"] /\ End(a)
  ELSE task' = [task EXCEPT ![a] = where] /\ Begin(a, a, to)

AtTurn(a) == task[a] = "executing" /\ ~Moving(a) /\ status[a] # "READY"
TurnsLeft(a) == turns[a] < MaxTurns + (IF a \in rejected THEN 1 ELSE 0)

(***************************************************************************)
(* The model is asked for a turn and answers: with nothing final yet, ...  *)
(***************************************************************************)
Continue(a) ==
  /\ AtTurn(a) /\ TurnsLeft(a)
  /\ turns' = [turns EXCEPT ![a] = @ + 1]
  /\ UNCHANGED <<swarmState, agentState, rejected, artifact, stopState>>

(***************************************************************************)
(* ... with an output that does not fit the schema, which is sent back     *)
(* once, ...                                                               *)
(***************************************************************************)
Reject(a) ==
  /\ AtTurn(a) /\ TurnsLeft(a)
  /\ turns' = [turns EXCEPT ![a] = @ + 1]
  /\ rejected' = rejected \cup {a}
  /\ IF a \in rejected
     THEN Propose(a, "executing", "FAILED")
     ELSE UNCHANGED <<task, move>>
  /\ UNCHANGED <<swarmState, status, stored, artifact, stopState>>

(***************************************************************************)
(* ... with an output that does, ...                                       *)
(***************************************************************************)
Output(a) ==
  /\ AtTurn(a) /\ TurnsLeft(a)
  /\ turns' = [turns EXCEPT ![a] = @ + 1]
  /\ artifact' = artifact \cup {a}
  /\ Propose(a, "executing", "COMPLETE")
  /\ UNCHANGED <<swarmState, status, stored, rejected, stopState>>

(***************************************************************************)
(* ... with a request for a call, or with an error or a tool it was not    *)
(* given.                                                                  *)
(***************************************************************************)
Request(a) ==
  /\ AtTurn(a) /\ TurnsLeft(a)
  /\ turns' = [turns EXCEPT ![a] = @ + 1]
  /\ Propose(a, "executing", "WAITING_FOR_CALL") \/ Propose(a, "guarding", "FAILED")
  /\ UNCHANGED <<swarmState, status, stored, rejected, artifact, stopState>>

RunOut(a) ==
  /\ AtTurn(a) /\ ~TurnsLeft(a)
  /\ Propose(a, "executing", "FAILED")
  /\ UNCHANGED <<swarmState, status, stored, turnState, stopState>>

AgentApplies(a) ==
  /\ Apply(a)
  /\ End(a)
  /\ task' = IF move[a].to = "WORKING" THEN task ELSE [task EXCEPT ![a] = "ended"]
  /\ UNCHANGED <<swarmState, stored, turnState, stopState>>

(***************************************************************************)
(* An exception inside _execute is answered with FAILED, one inside that   *)
(* answer ends the task.                                                   *)
(***************************************************************************)
AgentFails(a) ==
  /\ Fails(a)
  /\ IF task[a] = "executing" /\ status'[a] \notin TERMINAL_RUN_STATES
     THEN task' = [task EXCEPT ![a] = "guarding"] /\ Begin(a, a, "FAILED")
     ELSE task' = [task EXCEPT ![a] = "ended"] /\ End(a)
  /\ UNCHANGED <<swarm, completed, finished, rejected, artifact, canceling>>

-----------------------------------------------------------------------------
(***************************************************************************)
(* stop_agent: the run is found in memory while run_swarm has not          *)
(* returned, and must not be terminal; STOPPED is persisted, then the task *)
(* is canceled.                                                            *)
(***************************************************************************)
StopAgent(a) ==
  /\ stops < MaxStops
  /\ swarm.pc \notin {"build", "refused", "returned"}
  /\ ~Moving(Stopper) /\ canceling = NoAgent
  /\ ~Terminal(a)
  /\ Begin(Stopper, a, "STOPPED")
  /\ stops' = stops + 1
  /\ UNCHANGED <<swarmState, status, stored, task, turnState, canceling, faults>>

StopApplies ==
  /\ Apply(Stopper)
  /\ End(Stopper)
  /\ canceling' = move[Stopper].agent
  /\ UNCHANGED <<swarmState, stored, task, turnState, stops, faults>>

StopFails ==
  /\ Fails(Stopper)
  /\ End(Stopper)
  /\ UNCHANGED <<swarm, completed, finished, task, rejected, artifact, canceling>>

(***************************************************************************)
(* The cancellation reaches the task at the await it is at; a commit it is *)
(* waiting for may or may not have been made.                              *)
(***************************************************************************)
Cancel(a) ==
  /\ canceling = a
  /\ canceling' = NoAgent
  /\ IF task[a] \in {"queued", "executing", "guarding"}
     THEN /\ task' = [task EXCEPT ![a] = "ended"]
          /\ End(a)
          /\ \/ UNCHANGED stored
             \/ Moving(a) /\ ~move[a].done /\ stored' = [stored EXCEPT ![a] = move[a].to]
     ELSE UNCHANGED <<task, move, stored>>
  /\ UNCHANGED <<swarmState, status, turnState, stops, faults>>

(***************************************************************************)
(* After run_swarm has returned, a run is stopped by its row alone.        *)
(***************************************************************************)
StopStored(a) ==
  /\ stops < MaxStops
  /\ swarm.pc = "returned"
  /\ stored[a] \notin TERMINAL_RUN_STATES
  /\ stored' = [stored EXCEPT ![a] = "STOPPED"]
  /\ stops' = stops + 1
  /\ UNCHANGED <<swarmState, status, task, move, turnState, canceling, faults>>

-----------------------------------------------------------------------------
SwarmStep ==
  \/ StartSwarm \/ LaunchRoots \/ Wake \/ Return
  \/ \E a \in Agents : Schedule(a) \/ Pop(a) \/ Release(a) \/ Block(a)
  \/ Store(SwarmTask) \/ SwarmApplies

AgentStep(a) ==
  \/ Acquire(a) \/ Continue(a) \/ Reject(a) \/ Output(a) \/ Request(a) \/ RunOut(a)
  \/ Store(a) \/ AgentApplies(a)

StopStep == Store(Stopper) \/ StopApplies \/ \E a \in Agents : Cancel(a)

RunnerNext ==
  \/ SwarmStep \/ SwarmFails
  \/ \E a \in Agents : AgentStep(a) \/ AgentFails(a)
  \/ StopStep \/ StopFails
  \/ \E a \in Agents : StopAgent(a) \/ StopStored(a)

RunnerSpec == RunnerInit /\ [][RunnerNext]_runnerVars

(***************************************************************************)
(* Tasks run on: the model answers, with a turn or with an error, and      *)
(* commits end. Nobody has to stop an agent.                               *)
(***************************************************************************)
FairRunnerSpec ==
  /\ RunnerSpec
  /\ WF_runnerVars(SwarmStep)
  /\ \A a \in Agents : WF_runnerVars(AgentStep(a))
  /\ WF_runnerVars(StopStep)

Phase(a) ==
  CASE task[a] = "idle" -> "waiting"
    [] task[a] = "queued" -> "launched"
    [] task[a] \in {"executing", "guarding"} -> "working"
    [] task[a] \in {"ended", "popped"} -> "over"

Promise == INSTANCE AgentSwarm
             WITH phase <- [a \in Agents |-> Phase(a)],
                  produced <- artifact,
                  delivered <- completed

-----------------------------------------------------------------------------
(***************************************************************************)
(* Whatever is stopped, fails or ends in whatever order, no agent is       *)
(* launched twice or before all it depends on have delivered.              *)
(***************************************************************************)
KeepsPromise == Promise!SwarmSpec

(***************************************************************************)
(* "Agents whose dependency is waiting for a call remain                   *)
(* WAITING_FOR_DEPENDENCY; agents whose dependency failed or was stopped   *)
(* become BLOCKED." A swarm that returns, in which nobody stopped an agent *)
(* and no write failed, leaves every agent settled that way, and nobody    *)
(* waits on a cycle, only downstream of a call.                            *)
(***************************************************************************)
Waiting == {"WAITING_FOR_CALL", "WAITING_FOR_DEPENDENCY"}

SwarmSettles ==
  (swarm.pc = "returned" /\ stops = 0 /\ faults = 0) =>
    \A a \in Agents :
      /\ LET up == {status[d] : d \in deps[a]}
         IN  IF up \cap {"FAILED", "STOPPED", "BLOCKED"} # {} THEN status[a] = "BLOCKED"
             ELSE IF up \cap Waiting # {} THEN Waits(a)
             ELSE status[a] \in {"COMPLETE", "FAILED", "WAITING_FOR_CALL"}
      /\ Waits(a) => \E d \in Agents : status[d] = "WAITING_FOR_CALL" /\ a \in Downstream(deps, d)

(***************************************************************************)
(* "A terminal run (e.g. STOPPED by the Orchestrator) is never overwritten *)
(* by a late transition from its own task."                                *)
(***************************************************************************)
StoppedStays ==
  [][\A a \in Agents : status[a] = "STOPPED" => UNCHANGED status[a]]_runnerVars

(***************************************************************************)
(* A swarm ends: its turns are bounded, slots are given back, and who is   *)
(* stopped or blocked is not waited for.                                   *)
(***************************************************************************)
SwarmEnds ==
  swarm.pc = "schedule" ~> swarm.pc \in {"returned", "crashed"}
==============================================================================
