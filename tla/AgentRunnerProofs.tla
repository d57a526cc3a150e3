-------------------------- MODULE AgentRunnerProofs --------------------------
(***************************************************************************)
(* Theorems about the agent runner, for every set of agents and graphs,    *)
(* any concurrency, and any number of stops and failures.                  *)
(***************************************************************************)
EXTENDS AgentRunner, TLAPS, FiniteSetTheorems, WellFoundedInduction

(***************************************************************************)
(* Nothing is launched before LaunchRoots; what run_swarm is about to      *)
(* release has not been launched and its dependencies have delivered.      *)
(***************************************************************************)
Unlaunched ==
  /\ swarm.pc \in {"build", "refused", "schedule"} => \A a \in Agents : task[a] = "idle"
  /\ swarm.pc = "release" =>
       \A a \in swarm.left : task[a] = "idle" /\ deps[a] \subseteq completed

(***************************************************************************)
(* run_swarm is in a transition only of an agent it is going through, and  *)
(* nobody but an agent's own task makes it COMPLETE, its output once set.  *)
(***************************************************************************)
MovesSound ==
  /\ Moving(SwarmTask) =>
       /\ swarm.pc \in {"schedule", "release", "block"}
       /\ move[SwarmTask].agent \in swarm.left
       /\ move[SwarmTask].to # "COMPLETE"
  /\ Moving(Stopper) => move[Stopper].to # "COMPLETE"
  /\ \A a \in Agents : Moving(a) /\ move[a].to = "COMPLETE" => a \in artifact

(***************************************************************************)
(* The bookkeeping of run_swarm: what it is about to take up has ended,    *)
(* what it took up is done with, and what is passed on has an artifact.    *)
(***************************************************************************)
Bookkeeping ==
  /\ \A a \in swarm.batch : task[a] = "ended"
  /\ \A a \in Agents : task[a] = "popped" => a \in finished
  /\ \A a \in Agents : status[a] = "COMPLETE" => a \in artifact

RunnerInd == RunnerTypeOK /\ Unlaunched /\ MovesSound /\ Bookkeeping

(***************************************************************************)
(* What Begin, End and Store do to the transitions: task t gets one, or    *)
(* loses it, or has it committed, and the other tasks keep theirs.         *)
(***************************************************************************)
MoveType == move \in [Tasks -> Move \cup {NoMove}]

KeptBut(t) == \A u \in Tasks \ {t} : move'[u] = move[u]

LEMMA BeginIs ==
  ASSUME MoveType, NEW t \in Tasks, NEW a \in Agents, NEW to \in AgentState, Begin(t, a, to)
  PROVE  MoveType' /\ KeptBut(t) /\ Moving(t)' /\ move'[t].agent = a /\ move'[t].to = to
<1>1. [agent |-> a, to |-> to, done |-> FALSE] \in Move
  BY DEF Move
<1>2. move'[t] = [agent |-> a, to |-> to, done |-> FALSE]
  BY DEF Begin, MoveType
<1>3. MoveType' /\ KeptBut(t)
  BY <1>1 DEF Begin, MoveType, KeptBut
<1>4. move'[t].agent # NoMove.agent
  BY <1>2, RunnerAssumption DEF NoMove
<1> QED
  BY <1>2, <1>3, <1>4 DEF Moving

LEMMA EndIs ==
  ASSUME MoveType, NEW t \in Tasks, End(t)
  PROVE  MoveType' /\ KeptBut(t) /\ ~Moving(t)'
BY DEF MoveType, KeptBut, End, Moving

LEMMA MovingIs ==
  ASSUME MoveType, NEW t \in Tasks, Moving(t)
  PROVE  move[t] \in Move /\ move[t].agent \in Agents /\ move[t].to \in AgentState
BY DEF MoveType, Moving, Move

LEMMA StoreIs ==
  ASSUME MoveType, NEW t \in Tasks, Store(t)
  PROVE  /\ MoveType' /\ KeptBut(t) /\ Moving(t)'
         /\ move'[t].agent = move[t].agent /\ move'[t].to = move[t].to
<1>1. move[t] \in Move
  BY MovingIs DEF Store
<1>2. move' = [move EXCEPT ![t] = [move[t] EXCEPT !.done = TRUE]]
  BY DEF Store
<1>3. move'[t] = [move[t] EXCEPT !.done = TRUE]
  BY <1>2 DEF MoveType
<1>4. /\ move'[t] \in Move
      /\ move'[t].agent = move[t].agent /\ move'[t].to = move[t].to
  BY <1>1, <1>3 DEF Move
<1>5. MoveType' /\ KeptBut(t)
  BY <1>2, <1>3, <1>4 DEF MoveType, KeptBut
<1>6. NoMove \notin Move
  BY RunnerAssumption DEF Move, NoMove
<1> QED
  BY <1>4, <1>5, <1>6 DEF Moving

(***************************************************************************)
(* A task that proposes is over, or is in the transition it asked for.     *)
(***************************************************************************)
LEMMA ProposeIs ==
  ASSUME MoveType, NEW a \in Agents, NEW where, NEW to \in AgentState, Propose(a, where, to)
  PROVE  /\ MoveType' /\ KeptBut(a)
         /\ \/ ~Moving(a)' /\ task' = [task EXCEPT ![a] = "ended"]
            \/ /\ Moving(a)' /\ move'[a].agent = a /\ move'[a].to = to
               /\ task' = [task EXCEPT ![a] = where]
<1>1. a \in Tasks
  BY DEF Tasks
<1>2. CASE Terminal(a)
  BY <1>1, <1>2, EndIs DEF Propose
<1>3. CASE ~Terminal(a)
  BY <1>1, <1>3, BeginIs DEF Propose
<1> QED
  BY <1>2, <1>3

LEMMA TaskNames ==
  /\ Agents \subseteq Tasks /\ SwarmTask \in Tasks /\ Stopper \in Tasks
  /\ SwarmTask \notin Agents /\ Stopper \notin Agents
BY RunnerAssumption DEF Tasks

LEMMA IndInit == RunnerInit => RunnerInd
BY RunnerAssumption, TaskNames
   DEF RunnerInit, RunnerInd, RunnerTypeOK, Unlaunched, MovesSound, Bookkeeping, SwarmState,
       AgentState, Moving

(***************************************************************************)
(* run_swarm keeps the invariant. In Pop, what Ready returns is neither    *)
(* finished nor running, so it has not been launched.                      *)
(***************************************************************************)
LEMMA IndSwarm == RunnerInd /\ (SwarmStep \/ SwarmFails) => RunnerInd'
<1> USE RunnerAssumption
    DEF RunnerInd, RunnerTypeOK, Unlaunched, MovesSound, Bookkeeping, SwarmState, Moving,
        swarmState, agentState, turnState, stopState
<1>1. ASSUME RunnerInd, StartSwarm
      PROVE  RunnerInd'
  BY <1>1 DEF StartSwarm
<1>2. ASSUME RunnerInd, NEW a \in Agents, Schedule(a)
      PROVE  RunnerInd'
  <2>1. MoveType
    BY <1>2 DEF MoveType
  <2>2. \/ UNCHANGED move
        \/ /\ MoveType' /\ KeptBut(SwarmTask) /\ Moving(SwarmTask)'
           /\ move'[SwarmTask].agent = a
           /\ move'[SwarmTask].to \in {"READY", "WAITING_FOR_DEPENDENCY"}
    BY <1>2, <2>1, BeginIs, TaskNames DEF Schedule, AgentState
  <2>3. RunnerTypeOK'
    BY <1>2, <2>1, <2>2, TaskNames DEF KeptBut, MoveType, AgentState, Schedule, InSwarm,
       Passed
  <2>4. Unlaunched'
    BY <1>2, <2>1, <2>2, TaskNames DEF KeptBut, MoveType, AgentState, Schedule, InSwarm,
       Passed
  <2>5. MovesSound'
    BY <1>2, <2>1, <2>2, TaskNames DEF KeptBut, MoveType, AgentState, Schedule, InSwarm,
       Passed
  <2>6. Bookkeeping'
    BY <1>2, <2>1, <2>2, TaskNames DEF KeptBut, MoveType, AgentState, Schedule, InSwarm,
       Passed
  <2> QED
    BY <2>3, <2>4, <2>5, <2>6 DEF RunnerInd
<1>3. ASSUME RunnerInd, LaunchRoots
      PROVE  RunnerInd'
  BY <1>3 DEF LaunchRoots, InSwarm, Ready
<1>4. ASSUME RunnerInd, Wake
      PROVE  RunnerInd'
  BY <1>4 DEF Wake, BetweenTasks, Ended
<1>5. ASSUME RunnerInd, Return
      PROVE  RunnerInd'
  BY <1>5 DEF Return, BetweenTasks, Running
<1>6. ASSUME RunnerInd, NEW a \in Agents, Pop(a)
      PROVE  RunnerInd'
  BY <1>6 DEF Pop, BetweenTasks, Ready, Downstream, Running, Terminal, AgentState
<1>7. ASSUME RunnerInd, NEW a \in Agents, Release(a)
      PROVE  RunnerInd'
  <2>1. MoveType
    BY <1>7 DEF MoveType
  <2>2. \/ UNCHANGED move
        \/ /\ MoveType' /\ KeptBut(SwarmTask) /\ Moving(SwarmTask)'
           /\ move'[SwarmTask].agent = a
           /\ move'[SwarmTask].to \in {"READY"}
    BY <1>7, <2>1, BeginIs, TaskNames DEF Release, AgentState
  <2>3. RunnerTypeOK'
    BY <1>7, <2>1, <2>2, TaskNames DEF KeptBut, MoveType, AgentState, Release, InSwarm,
       Passed
  <2>4. Unlaunched'
    BY <1>7, <2>1, <2>2, TaskNames DEF KeptBut, MoveType, AgentState, Release, InSwarm,
       Passed
  <2>5. MovesSound'
    BY <1>7, <2>1, <2>2, TaskNames DEF KeptBut, MoveType, AgentState, Release, InSwarm,
       Passed
  <2>6. Bookkeeping'
    BY <1>7, <2>1, <2>2, TaskNames DEF KeptBut, MoveType, AgentState, Release, InSwarm,
       Passed
  <2> QED
    BY <2>3, <2>4, <2>5, <2>6 DEF RunnerInd
<1>8. ASSUME RunnerInd, NEW a \in Agents, Block(a)
      PROVE  RunnerInd'
  <2>1. MoveType
    BY <1>8 DEF MoveType
  <2>2. \/ UNCHANGED move
        \/ /\ MoveType' /\ KeptBut(SwarmTask) /\ Moving(SwarmTask)'
           /\ move'[SwarmTask].agent = a
           /\ move'[SwarmTask].to \in {"BLOCKED"}
    BY <1>8, <2>1, BeginIs, TaskNames DEF Block, AgentState
  <2>3. RunnerTypeOK'
    BY <1>8, <2>1, <2>2, TaskNames DEF KeptBut, MoveType, AgentState, Block, InSwarm, Passed
  <2>4. Unlaunched'
    BY <1>8, <2>1, <2>2, TaskNames DEF KeptBut, MoveType, AgentState, Block, InSwarm, Passed
  <2>5. MovesSound'
    BY <1>8, <2>1, <2>2, TaskNames DEF KeptBut, MoveType, AgentState, Block, InSwarm, Passed
  <2>6. Bookkeeping'
    BY <1>8, <2>1, <2>2, TaskNames DEF KeptBut, MoveType, AgentState, Block, InSwarm, Passed
  <2> QED
    BY <2>3, <2>4, <2>5, <2>6 DEF RunnerInd
<1>9. ASSUME RunnerInd, Store(SwarmTask)
      PROVE  RunnerInd'
  <2>1. MoveType
    BY <1>9 DEF MoveType
  <2>2. /\ MoveType' /\ KeptBut(SwarmTask) /\ Moving(SwarmTask)'
        /\ move'[SwarmTask].agent = move[SwarmTask].agent
        /\ move'[SwarmTask].to = move[SwarmTask].to
    BY <1>9, <2>1, StoreIs, TaskNames
  <2>3. stored' \in [Agents -> AgentState]
    BY <1>9, <2>1, MovingIs, TaskNames DEF Store
  <2>4. RunnerTypeOK'
    BY <1>9, <2>1, <2>2, <2>3, TaskNames DEF KeptBut, MoveType, AgentState, Store
  <2>5. Unlaunched'
    BY <1>9, <2>1, <2>2, <2>3, TaskNames DEF KeptBut, MoveType, AgentState, Store
  <2>6. MovesSound'
    BY <1>9, <2>1, <2>2, <2>3, TaskNames DEF KeptBut, MoveType, AgentState, Store
  <2>7. Bookkeeping'
    BY <1>9, <2>1, <2>2, <2>3, TaskNames DEF KeptBut, MoveType, AgentState, Store
  <2> QED
    BY <2>4, <2>5, <2>6, <2>7 DEF RunnerInd
<1>10. ASSUME RunnerInd, SwarmApplies
      PROVE  RunnerInd'
  BY <1>10 DEF SwarmApplies, Apply, End, Passed, Move, NoMove, Tasks, AgentState
<1>11. ASSUME RunnerInd, SwarmFails
      PROVE  RunnerInd'
  BY <1>11 DEF SwarmFails, Fails, Apply, End, Move, NoMove, Tasks, AgentState
<1> QED
  BY <1>1, <1>2, <1>3, <1>4, <1>5, <1>6, <1>7, <1>8, <1>9, <1>10, <1>11 DEF SwarmStep

(***************************************************************************)
(* The agents' tasks keep it: only an output that fits makes an agent      *)
(* COMPLETE, and its artifact is set before it proposes that.              *)
(***************************************************************************)
LEMMA IndAgent ==
  ASSUME NEW a \in Agents
  PROVE  RunnerInd /\ (AgentStep(a) \/ AgentFails(a)) => RunnerInd'
<1> USE RunnerAssumption
    DEF RunnerInd, RunnerTypeOK, Unlaunched, MovesSound, Bookkeeping, SwarmState, Moving,
        swarmState, agentState, turnState, stopState
<1>1. ASSUME RunnerInd, Acquire(a)
      PROVE  RunnerInd'
  <2>1. MoveType
    BY <1>1 DEF MoveType
  <2>2. \/ UNCHANGED move
        \/ /\ MoveType' /\ KeptBut(a) /\ Moving(a)'
           /\ move'[a].agent = a
           /\ move'[a].to \in {"WORKING", "FAILED"}
    BY <1>1, <2>1, BeginIs, TaskNames DEF Acquire, AgentState
  <2>3. RunnerTypeOK'
    BY <1>1, <2>1, <2>2, TaskNames DEF KeptBut, MoveType, AgentState, Acquire
  <2>4. Unlaunched'
    BY <1>1, <2>1, <2>2, TaskNames DEF KeptBut, MoveType, AgentState, Acquire
  <2>5. MovesSound'
    BY <1>1, <2>1, <2>2, TaskNames DEF KeptBut, MoveType, AgentState, Acquire
  <2>6. Bookkeeping'
    BY <1>1, <2>1, <2>2, TaskNames DEF KeptBut, MoveType, AgentState, Acquire
  <2> QED
    BY <2>3, <2>4, <2>5, <2>6 DEF RunnerInd
<1>2. ASSUME RunnerInd, Continue(a)
      PROVE  RunnerInd'
  BY <1>2 DEF Continue, AtTurn, TurnsLeft
<1>3. ASSUME RunnerInd, Reject(a)
      PROVE  RunnerInd'
  <2>1. MoveType
    BY <1>3 DEF MoveType
  <2>2. CASE a \notin rejected
    BY <1>3, <2>2, TaskNames DEF Reject, AtTurn, TurnsLeft
  <2>3. CASE a \in rejected
    <3>1. Propose(a, "executing", "FAILED")
      BY <1>3, <2>3 DEF Reject
    <3>2. /\ MoveType' /\ KeptBut(a)
          /\ \/ ~Moving(a)' /\ task' = [task EXCEPT ![a] = "ended"]
             \/ /\ Moving(a)' /\ move'[a].agent = a /\ move'[a].to = "FAILED"
                /\ task' = [task EXCEPT ![a] = "executing"]
      BY <2>1, <3>1, ProposeIs DEF AgentState
    <3>3. RunnerTypeOK'
      BY <1>3, <3>2, TaskNames DEF KeptBut, MoveType, AgentState, Reject, AtTurn, TurnsLeft
    <3>4. Unlaunched' /\ MovesSound' /\ Bookkeeping'
      BY <1>3, <3>2, TaskNames DEF KeptBut, MoveType, AgentState, Reject, AtTurn
    <3> QED
      BY <3>3, <3>4 DEF RunnerInd
  <2> QED
    BY <2>2, <2>3
<1>4. ASSUME RunnerInd, Output(a)
      PROVE  RunnerInd'
  <2>1. MoveType
    BY <1>4 DEF MoveType
  <2>2. MoveType' /\ KeptBut(a)
    BY <1>4, <2>1, ProposeIs DEF Output, AgentState
  <2>3. \/ ~Moving(a)' /\ task' = [task EXCEPT ![a] = "ended"]
        \/ /\ Moving(a)' /\ move'[a].agent = a /\ move'[a].to = "COMPLETE"
           /\ task'[a] \in {"executing", "guarding"}
           /\ task' = [task EXCEPT ![a] = task'[a]]
    BY <1>4, <2>1, ProposeIs DEF Output, AgentState
  <2>4. RunnerTypeOK'
    BY <1>4, <2>1, <2>2, <2>3, TaskNames DEF KeptBut, MoveType, AgentState, AtTurn,
       TurnsLeft, Output
  <2>5. Unlaunched'
    BY <1>4, <2>1, <2>2, <2>3, TaskNames DEF KeptBut, MoveType, AgentState, AtTurn,
       TurnsLeft, Output
  <2>6. MovesSound'
    BY <1>4, <2>1, <2>2, <2>3, TaskNames DEF KeptBut, MoveType, AgentState, AtTurn,
       TurnsLeft, Output
  <2>7. Bookkeeping'
    BY <1>4, <2>1, <2>2, <2>3, TaskNames DEF KeptBut, MoveType, AgentState, AtTurn,
       TurnsLeft, Output
  <2> QED
    BY <2>4, <2>5, <2>6, <2>7 DEF RunnerInd
<1>5. ASSUME RunnerInd, Request(a)
      PROVE  RunnerInd'
  <2>1. MoveType
    BY <1>5 DEF MoveType
  <2>2. MoveType' /\ KeptBut(a)
    BY <1>5, <2>1, ProposeIs DEF Request, AgentState
  <2>3. \/ ~Moving(a)' /\ task' = [task EXCEPT ![a] = "ended"]
        \/ /\ Moving(a)' /\ move'[a].agent = a /\ move'[a].to # "COMPLETE"
           /\ task'[a] \in {"executing", "guarding"}
           /\ task' = [task EXCEPT ![a] = task'[a]]
    BY <1>5, <2>1, ProposeIs DEF Request, AgentState
  <2>4. RunnerTypeOK'
    BY <1>5, <2>1, <2>2, <2>3, TaskNames DEF KeptBut, MoveType, AgentState, AtTurn,
       TurnsLeft, Request
  <2>5. Unlaunched'
    BY <1>5, <2>1, <2>2, <2>3, TaskNames DEF KeptBut, MoveType, AgentState, AtTurn,
       TurnsLeft, Request
  <2>6. MovesSound'
    BY <1>5, <2>1, <2>2, <2>3, TaskNames DEF KeptBut, MoveType, AgentState, AtTurn,
       TurnsLeft, Request
  <2>7. Bookkeeping'
    BY <1>5, <2>1, <2>2, <2>3, TaskNames DEF KeptBut, MoveType, AgentState, AtTurn,
       TurnsLeft, Request
  <2> QED
    BY <2>4, <2>5, <2>6, <2>7 DEF RunnerInd
<1>6. ASSUME RunnerInd, RunOut(a)
      PROVE  RunnerInd'
  <2>1. MoveType
    BY <1>6 DEF MoveType
  <2>2. MoveType' /\ KeptBut(a)
    BY <1>6, <2>1, ProposeIs DEF RunOut, AgentState
  <2>3. \/ ~Moving(a)' /\ task' = [task EXCEPT ![a] = "ended"]
        \/ /\ Moving(a)' /\ move'[a].agent = a /\ move'[a].to = "FAILED"
           /\ task'[a] \in {"executing", "guarding"}
           /\ task' = [task EXCEPT ![a] = task'[a]]
    BY <1>6, <2>1, ProposeIs DEF RunOut, AgentState
  <2>4. RunnerTypeOK'
    BY <1>6, <2>1, <2>2, <2>3, TaskNames DEF KeptBut, MoveType, AgentState, AtTurn,
       TurnsLeft, RunOut
  <2>5. Unlaunched'
    BY <1>6, <2>1, <2>2, <2>3, TaskNames DEF KeptBut, MoveType, AgentState, AtTurn,
       TurnsLeft, RunOut
  <2>6. MovesSound'
    BY <1>6, <2>1, <2>2, <2>3, TaskNames DEF KeptBut, MoveType, AgentState, AtTurn,
       TurnsLeft, RunOut
  <2>7. Bookkeeping'
    BY <1>6, <2>1, <2>2, <2>3, TaskNames DEF KeptBut, MoveType, AgentState, AtTurn,
       TurnsLeft, RunOut
  <2> QED
    BY <2>4, <2>5, <2>6, <2>7 DEF RunnerInd
<1>7. ASSUME RunnerInd, Store(a)
      PROVE  RunnerInd'
  <2>1. MoveType
    BY <1>7 DEF MoveType
  <2>2. /\ MoveType' /\ KeptBut(a) /\ Moving(a)'
        /\ move'[a].agent = move[a].agent
        /\ move'[a].to = move[a].to
    BY <1>7, <2>1, StoreIs, TaskNames
  <2>3. stored' \in [Agents -> AgentState]
    BY <1>7, <2>1, MovingIs, TaskNames DEF Store
  <2>4. RunnerTypeOK'
    BY <1>7, <2>1, <2>2, <2>3, TaskNames DEF KeptBut, MoveType, AgentState, Store
  <2>5. Unlaunched'
    BY <1>7, <2>1, <2>2, <2>3, TaskNames DEF KeptBut, MoveType, AgentState, Store
  <2>6. MovesSound'
    BY <1>7, <2>1, <2>2, <2>3, TaskNames DEF KeptBut, MoveType, AgentState, Store
  <2>7. Bookkeeping'
    BY <1>7, <2>1, <2>2, <2>3, TaskNames DEF KeptBut, MoveType, AgentState, Store
  <2> QED
    BY <2>4, <2>5, <2>6, <2>7 DEF RunnerInd
<1>8. ASSUME RunnerInd, AgentApplies(a)
      PROVE  RunnerInd'
  BY <1>8 DEF AgentApplies, Apply, End, Move, NoMove, Tasks, AgentState
<1>9. ASSUME RunnerInd, AgentFails(a)
      PROVE  RunnerInd'
  <2>1. MoveType
    BY <1>9 DEF MoveType
  <2>2. MoveType' /\ KeptBut(a)
    BY <1>9, <2>1, BeginIs, EndIs, TaskNames DEF AgentFails, AgentState
  <2>3. \/ ~Moving(a)' /\ task' = [task EXCEPT ![a] = "ended"]
        \/ /\ Moving(a)' /\ move'[a].agent = a /\ move'[a].to = "FAILED"
           /\ task' = [task EXCEPT ![a] = "guarding"]
    BY <1>9, <2>1, BeginIs, EndIs, TaskNames DEF AgentFails, AgentState
  <2>4. Moving(a) /\ move[a].to \in AgentState /\ faults' \in 0 .. MaxFaults
    BY <1>9, <2>1, MovingIs, TaskNames DEF AgentFails, Fails, Apply
  <2>5. /\ status' \in [Agents -> AgentState]
        /\ status'[a] = "COMPLETE" => status[a] = "COMPLETE" \/ move[a].to = "COMPLETE"
        /\ \A b \in Agents \ {a} : status'[b] = status[b]
    BY <1>9, <2>4 DEF AgentFails, Fails, Apply
  <2>6. RunnerTypeOK'
    BY <1>9, <2>1, <2>2, <2>3, <2>4, <2>5, TaskNames DEF KeptBut, MoveType, AgentFails,
       Fails
  <2>7. Unlaunched'
    BY <1>9, <2>1, <2>2, <2>3, <2>4, <2>5, TaskNames DEF KeptBut, MoveType, AgentFails,
       Fails
  <2>8. MovesSound'
    BY <1>9, <2>1, <2>2, <2>3, <2>4, <2>5, TaskNames DEF KeptBut, MoveType, AgentFails,
       Fails
  <2>9. Bookkeeping'
    BY <1>9, <2>1, <2>2, <2>3, <2>4, <2>5, TaskNames DEF KeptBut, MoveType, AgentFails,
       Fails
  <2> QED
    BY <2>6, <2>7, <2>8, <2>9 DEF RunnerInd
<1> QED
  BY <1>1, <1>2, <1>3, <1>4, <1>5, <1>6, <1>7, <1>8, <1>9 DEF AgentStep

(***************************************************************************)
(* So does whoever stops an agent.                                         *)
(***************************************************************************)
LEMMA IndStop ==
  RunnerInd /\ (StopStep \/ StopFails \/ \E a \in Agents : StopAgent(a) \/ StopStored(a))
    => RunnerInd'
<1> USE RunnerAssumption
    DEF RunnerInd, RunnerTypeOK, Unlaunched, MovesSound, Bookkeeping, SwarmState, Moving,
        swarmState, agentState, turnState, stopState
<1>1. ASSUME RunnerInd, NEW a \in Agents, StopAgent(a)
      PROVE  RunnerInd'
  BY <1>1 DEF StopAgent, Begin, Move, NoMove, Tasks, AgentState
<1>2. ASSUME RunnerInd, Store(Stopper)
      PROVE  RunnerInd'
  <2>1. MoveType
    BY <1>2 DEF MoveType
  <2>2. /\ MoveType' /\ KeptBut(Stopper) /\ Moving(Stopper)'
        /\ move'[Stopper].agent = move[Stopper].agent
        /\ move'[Stopper].to = move[Stopper].to
    BY <1>2, <2>1, StoreIs, TaskNames
  <2>3. stored' \in [Agents -> AgentState]
    BY <1>2, <2>1, MovingIs, TaskNames DEF Store
  <2>4. RunnerTypeOK'
    BY <1>2, <2>1, <2>2, <2>3, TaskNames DEF KeptBut, MoveType, AgentState, Store
  <2>5. Unlaunched'
    BY <1>2, <2>1, <2>2, <2>3, TaskNames DEF KeptBut, MoveType, AgentState, Store
  <2>6. MovesSound'
    BY <1>2, <2>1, <2>2, <2>3, TaskNames DEF KeptBut, MoveType, AgentState, Store
  <2>7. Bookkeeping'
    BY <1>2, <2>1, <2>2, <2>3, TaskNames DEF KeptBut, MoveType, AgentState, Store
  <2> QED
    BY <2>4, <2>5, <2>6, <2>7 DEF RunnerInd
<1>3. ASSUME RunnerInd, StopApplies
      PROVE  RunnerInd'
  BY <1>3 DEF StopApplies, Apply, End, Move, NoMove, Tasks, AgentState
<1>4. ASSUME RunnerInd, StopFails
      PROVE  RunnerInd'
  BY <1>4 DEF StopFails, Fails, Apply, End, Move, NoMove, Tasks, AgentState
<1>5. ASSUME RunnerInd, NEW a \in Agents, Cancel(a)
      PROVE  RunnerInd'
  <2>1. MoveType
    BY <1>5 DEF MoveType
  <2>2. \/ UNCHANGED <<task, move, stored>>
        \/ /\ MoveType' /\ KeptBut(a) /\ ~Moving(a)'
           /\ task' = [task EXCEPT ![a] = "ended"]
    BY <1>5, <2>1, EndIs, TaskNames DEF Cancel
  <2>3. stored' \in [Agents -> AgentState]
    BY <1>5, <2>1, MovingIs, TaskNames DEF Cancel
  <2>4. RunnerTypeOK'
    BY <1>5, <2>1, <2>2, <2>3, TaskNames DEF KeptBut, MoveType, AgentState, Cancel
  <2>5. Unlaunched'
    BY <1>5, <2>1, <2>2, <2>3, TaskNames DEF KeptBut, MoveType, AgentState, Cancel
  <2>6. MovesSound'
    BY <1>5, <2>1, <2>2, <2>3, TaskNames DEF KeptBut, MoveType, AgentState, Cancel
  <2>7. Bookkeeping'
    BY <1>5, <2>1, <2>2, <2>3, TaskNames DEF KeptBut, MoveType, AgentState, Cancel
  <2> QED
    BY <2>4, <2>5, <2>6, <2>7 DEF RunnerInd
<1>6. ASSUME RunnerInd, NEW a \in Agents, StopStored(a)
      PROVE  RunnerInd'
  BY <1>6 DEF StopStored, AgentState
<1> QED
  BY <1>1, <1>2, <1>3, <1>4, <1>5, <1>6 DEF StopStep

LEMMA IndStep == RunnerInd /\ [RunnerNext]_runnerVars => RunnerInd'
<1>1. CASE UNCHANGED runnerVars
  BY <1>1
     DEF runnerVars, swarmState, agentState, turnState, stopState, RunnerInd, RunnerTypeOK,
         Unlaunched, MovesSound, Bookkeeping, Moving
<1>2. CASE RunnerNext
  BY <1>2, IndSwarm, IndAgent, IndStop DEF RunnerNext
<1> QED
  BY <1>1, <1>2

LEMMA RunnerInductive == RunnerSpec => []RunnerInd
BY IndInit, IndStep, PTL DEF RunnerSpec

(***************************************************************************)
(* Type correctness; with it, that only the task of an agent that holds a  *)
(* slot is ever in a transition of its own, whatever is stopped or fails.  *)
(***************************************************************************)
THEOREM RunnerTyped == RunnerSpec => []RunnerTypeOK
<1>1. RunnerInd => RunnerTypeOK
  BY DEF RunnerInd
<1> QED
  BY <1>1, RunnerInductive, PTL

-----------------------------------------------------------------------------
(***************************************************************************)
(* The refinement: where an agent is in the promise depends on its task    *)
(* alone.                                                                  *)
(***************************************************************************)
Phases == [a \in Agents |-> Phase(a)]

LEMMA PhaseInit == RunnerInit => Promise!SwarmInit
<1> SUFFICES ASSUME RunnerInit PROVE Promise!SwarmInit
  OBVIOUS
<1>1. Phases = [a \in Agents |-> "waiting"]
  BY DEF RunnerInit, Phases, Phase
<1> QED
  BY <1>1, RunnerAssumption DEF RunnerInit, Promise!SwarmInit, Phases

LEMMA PhaseKept ==
  ASSUME UNCHANGED task
  PROVE  UNCHANGED Phases
BY DEF Phases, Phase

(***************************************************************************)
(* One agent's task moves on its way, and nothing it made does: the agent  *)
(* starts, finishes, or is where it was.                                   *)
(***************************************************************************)
LEMMA OneMoves ==
  ASSUME RunnerInd, NEW a \in Agents, UNCHANGED <<deps, artifact, completed>>,
         task' = [task EXCEPT ![a] = task'[a]],
         \/ task[a] \in {"queued", "executing", "guarding"} /\ task'[a] = "ended"
         \/ task[a] = "queued" /\ task'[a] = "executing"
         \/ task[a] \in {"executing", "guarding"} /\ task'[a] \in {"executing", "guarding"}
         \/ task[a] = "ended" /\ task'[a] = "popped"
  PROVE  [Promise!SwarmNext]_Promise!swarmVars
<1>1. Phases' = [Phases EXCEPT ![a] = Phase(a)']
  <2>1. \A b \in Agents \ {a} : task'[b] = task[b]
    BY DEF RunnerInd, RunnerTypeOK
  <2>2. \A b \in Agents \ {a} : Phase(b)' = Phase(b)
    BY <2>1 DEF Phase
  <2>3. Phases' = [b \in Agents |-> Phase(b)']
    BY DEF Phases
  <2> QED
    BY <2>2, <2>3 DEF Phases
<1>2. \/ Phase(a)' = Phase(a)
      \/ Phase(a) = "launched" /\ Phase(a)' = "working"
      \/ Phase(a) \in {"launched", "working"} /\ Phase(a)' = "over"
  BY DEF Phase
<1>3. CASE Phase(a)' = Phase(a)
  <2>1. UNCHANGED Phases
    BY <1>1, <1>3 DEF Phases
  <2> QED
    BY <2>1 DEF Promise!swarmVars, Phases
<1>4. CASE Phase(a) = "launched" /\ Phase(a)' = "working"
  <2>1. Promise!Start(a)
    BY <1>1, <1>4 DEF Promise!Start, Phases
  <2> QED
    BY <2>1 DEF Promise!SwarmNext
<1>5. CASE Phase(a) \in {"launched", "working"} /\ Phase(a)' = "over"
  <2>1. Promise!Finish(a)
    BY <1>1, <1>5 DEF Promise!Finish, Phases
  <2> QED
    BY <2>1 DEF Promise!SwarmNext
<1> QED
  BY <1>2, <1>3, <1>4, <1>5

(***************************************************************************)
(* Agents whose dependencies have delivered are queued for the first time. *)
(***************************************************************************)
LEMMA SomeLaunch ==
  ASSUME RunnerInd, NEW S \in SUBSET Agents, UNCHANGED <<deps, artifact, completed>>,
         \A a \in S : task[a] = "idle" /\ deps[a] \subseteq completed,
         task' = [a \in Agents |-> IF a \in S THEN "queued" ELSE task[a]]
  PROVE  [Promise!SwarmNext]_Promise!swarmVars
<1>1. Phases' = [a \in Agents |-> IF a \in S THEN "launched" ELSE Phases[a]]
  <2>1. ASSUME NEW a \in Agents
        PROVE  Phase(a)' = IF a \in S THEN "launched" ELSE Phase(a)
    <3>1. task'[a] = IF a \in S THEN "queued" ELSE task[a]
      OBVIOUS
    <3>2. CASE a \in S
      BY <3>1, <3>2 DEF Phase
    <3>3. CASE a \notin S
      BY <3>1, <3>3 DEF Phase, RunnerInd, RunnerTypeOK
    <3> QED
      BY <3>2, <3>3
  <2>2. Phases' = [a \in Agents |-> Phase(a)']
    BY DEF Phases
  <2> QED
    BY <2>1, <2>2 DEF Phases
<1>2. \A a \in S : Phases[a] = "waiting" /\ deps[a] \subseteq completed
  BY DEF Phases, Phase
<1>3. Promise!Launch(S)
  BY <1>1, <1>2 DEF Promise!Launch, Phases
<1> QED
  BY <1>3 DEF Promise!SwarmNext

LEMMA SwarmMoves ==
  RunnerInd /\ (SwarmStep \/ SwarmFails) => [Promise!SwarmNext]_Promise!swarmVars
<1>1. ASSUME RunnerInd, UNCHANGED <<deps, task, artifact, completed>>
      PROVE  [Promise!SwarmNext]_Promise!swarmVars
  BY <1>1, PhaseKept DEF Promise!swarmVars, Phases
<1>2. ASSUME RunnerInd, LaunchRoots
      PROVE  [Promise!SwarmNext]_Promise!swarmVars
  <2> DEFINE S == Ready(deps, {}, {})
  <2>1. /\ S \in SUBSET Agents
        /\ \A a \in S : task[a] = "idle" /\ deps[a] \subseteq completed
    BY <1>2 DEF LaunchRoots, InSwarm, Ready, RunnerInd, Unlaunched
  <2>2. task' = [a \in Agents |-> IF a \in S THEN "queued" ELSE task[a]]
    BY <1>2 DEF LaunchRoots, InSwarm, RunnerInd, Unlaunched
  <2>3. UNCHANGED <<deps, artifact, completed>>
    BY <1>2 DEF LaunchRoots, turnState
  <2> HIDE DEF S
  <2> QED
    BY <1>2, <2>1, <2>2, <2>3, SomeLaunch
<1>3. ASSUME RunnerInd, NEW a \in Agents, swarm.pc = "release", a \in swarm.left,
             task' = [task EXCEPT ![a] = "queued"], UNCHANGED <<deps, artifact, completed>>
      PROVE  [Promise!SwarmNext]_Promise!swarmVars
  <2>1. task[a] = "idle" /\ deps[a] \subseteq completed
    BY <1>3 DEF RunnerInd, Unlaunched
  <2>2. task' = [b \in Agents |-> IF b \in {a} THEN "queued" ELSE task[b]]
    BY <1>3 DEF RunnerInd, RunnerTypeOK
  <2> QED
    BY <1>3, <2>1, <2>2, SomeLaunch
<1>4. ASSUME RunnerInd, NEW a \in Agents, Release(a)
      PROVE  [Promise!SwarmNext]_Promise!swarmVars
  BY <1>1, <1>3, <1>4 DEF Release, InSwarm, turnState
<1>5. ASSUME RunnerInd, SwarmApplies
      PROVE  [Promise!SwarmNext]_Promise!swarmVars
  <2>1. /\ move[SwarmTask].agent \in swarm.left
        /\ swarm.left \subseteq Agents
    BY <1>5 DEF SwarmApplies, Apply, RunnerInd, MovesSound, RunnerTypeOK, SwarmState
  <2> QED
    BY <1>1, <1>3, <1>5, <2>1 DEF SwarmApplies, turnState
<1>6. ASSUME RunnerInd, NEW a \in Agents, Pop(a)
      PROVE  [Promise!SwarmNext]_Promise!swarmVars
  <2>1. /\ task[a] = "ended" /\ task' = [task EXCEPT ![a] = "popped"]
        /\ UNCHANGED <<deps, artifact>>
    BY <1>6 DEF Pop, RunnerInd, Bookkeeping
  <2>2. task'[a] = "popped"
    BY <1>6, <2>1 DEF RunnerInd, RunnerTypeOK
  <2>3. CASE status[a] # "COMPLETE"
    BY <1>6, <2>1, <2>2, <2>3, OneMoves DEF Pop
  <2>4. CASE status[a] = "COMPLETE"
    <3>1. a \in artifact /\ completed' = completed \cup {a}
      BY <1>6, <2>4 DEF Pop, RunnerInd, Bookkeeping
    <3>2. Phases[a] = "over" /\ UNCHANGED Phases
      BY <1>6, <2>1, <2>2 DEF Phases, Phase, RunnerInd, RunnerTypeOK
    <3>3. Promise!Deliver(a)
      BY <2>1, <3>1, <3>2 DEF Promise!Deliver, Phases
    <3> QED
      BY <3>3 DEF Promise!SwarmNext
  <2> QED
    BY <2>3, <2>4
<1> QED
  BY <1>1, <1>2, <1>4, <1>5, <1>6
     DEF SwarmStep, StartSwarm, Wake, Return, Schedule, Block, Store, SwarmFails, Fails,
         agentState, turnState, swarmState

LEMMA AgentMoves ==
  ASSUME NEW a \in Agents
  PROVE  RunnerInd /\ (AgentStep(a) \/ AgentFails(a)) => [Promise!SwarmNext]_Promise!swarmVars
<1> USE DEF turnState, swarmState, agentState
<1>1. ASSUME RunnerInd, UNCHANGED <<deps, task, artifact, completed>>
      PROVE  [Promise!SwarmNext]_Promise!swarmVars
  BY <1>1, PhaseKept DEF Promise!swarmVars, Phases
<1>2. ASSUME RunnerInd, Acquire(a)
      PROVE  [Promise!SwarmNext]_Promise!swarmVars
  BY <1>2, OneMoves DEF Acquire, RunnerInd, RunnerTypeOK
<1>3. ASSUME RunnerInd, Reject(a) \/ Request(a) \/ RunOut(a)
      PROVE  [Promise!SwarmNext]_Promise!swarmVars
  BY <1>1, <1>3, OneMoves DEF Reject, Request, RunOut, Propose, AtTurn, RunnerInd, RunnerTypeOK
<1>4. ASSUME RunnerInd, Output(a)
      PROVE  [Promise!SwarmNext]_Promise!swarmVars
  <2>1. /\ task[a] = "executing" /\ artifact' = artifact \cup {a}
        /\ UNCHANGED <<deps, completed>>
    BY <1>4 DEF Output, AtTurn
  <2>2. \/ UNCHANGED Phases
        \/ Phases' = [Phases EXCEPT ![a] = "over"]
    <3>1. task' = [task EXCEPT ![a] = "ended"] \/ task' = [task EXCEPT ![a] = "executing"]
      BY <1>4 DEF Output, Propose
    <3>2. \A b \in Agents \ {a} : Phase(b)' = Phase(b)
      <4>1. \A b \in Agents \ {a} : task'[b] = task[b]
        BY <1>4, <3>1 DEF RunnerInd, RunnerTypeOK
      <4> QED
        BY <4>1 DEF Phase
    <3>3. Phase(a)' = Phase(a) \/ Phase(a)' = "over"
      BY <1>4, <2>1, <3>1 DEF Phase, RunnerInd, RunnerTypeOK
    <3>4. Phases' = [b \in Agents |-> Phase(b)']
      BY DEF Phases
    <3> QED
      BY <3>2, <3>3, <3>4 DEF Phases
  <2>3. Phases[a] = "working"
    BY <2>1 DEF Phases, Phase
  <2>4. Promise!Produce(a)
    BY <2>1, <2>2, <2>3 DEF Promise!Produce, Phases
  <2> QED
    BY <2>4 DEF Promise!SwarmNext
<1>5. ASSUME RunnerInd, AgentApplies(a) \/ AgentFails(a)
      PROVE  [Promise!SwarmNext]_Promise!swarmVars
  <2>1. task[a] \in {"executing", "guarding"}
    BY <1>5 DEF AgentApplies, AgentFails, Fails, Apply, RunnerInd, RunnerTypeOK
  <2>2. UNCHANGED <<deps, artifact, completed>>
    BY <1>5 DEF AgentApplies, AgentFails, Fails
  <2>3. \/ UNCHANGED task
        \/ task' = [task EXCEPT ![a] = "ended"]
        \/ task' = [task EXCEPT ![a] = "guarding"]
    BY <1>5 DEF AgentApplies, AgentFails
  <2> QED
    BY <1>1, <1>5, <2>1, <2>2, <2>3, OneMoves DEF RunnerInd, RunnerTypeOK
<1> QED
  BY <1>1, <1>2, <1>3, <1>4, <1>5 DEF AgentStep, Continue, Store

LEMMA StopMoves ==
  RunnerInd /\ (StopStep \/ StopFails \/ \E a \in Agents : StopAgent(a) \/ StopStored(a))
    => [Promise!SwarmNext]_Promise!swarmVars
<1> USE DEF turnState, swarmState
<1>1. ASSUME RunnerInd, UNCHANGED <<deps, task, artifact, completed>>
      PROVE  [Promise!SwarmNext]_Promise!swarmVars
  BY <1>1, PhaseKept DEF Promise!swarmVars, Phases
<1>2. ASSUME RunnerInd, NEW a \in Agents, Cancel(a)
      PROVE  [Promise!SwarmNext]_Promise!swarmVars
  BY <1>1, <1>2, OneMoves DEF Cancel, RunnerInd, RunnerTypeOK
<1> QED
  BY <1>1, <1>2 DEF StopStep, StopFails, Fails, Store, StopApplies, StopAgent, StopStored

(***************************************************************************)
(* Whatever is stopped, fails or is canceled, and in whatever order tasks  *)
(* end: no agent is launched twice or before all it depends on have        *)
(* delivered, and only what was produced is delivered.                     *)
(***************************************************************************)
THEOREM RunnerKeepsPromise == RunnerSpec => KeepsPromise
<1>1. RunnerInd /\ [RunnerNext]_runnerVars => [Promise!SwarmNext]_Promise!swarmVars
  <2>1. CASE UNCHANGED runnerVars
    BY <2>1, PhaseKept
       DEF runnerVars, swarmState, agentState, turnState, Promise!swarmVars, Phases
  <2>2. CASE RunnerNext
    BY <2>2, SwarmMoves, AgentMoves, StopMoves DEF RunnerNext
  <2> QED
    BY <2>1, <2>2
<1> QED
  BY <1>1, PhaseInit, RunnerInductive, PTL DEF RunnerSpec, KeepsPromise, Promise!SwarmSpec
-----------------------------------------------------------------------------
(***************************************************************************)
(* Kahn's algorithm. One round removes what has no dependency left, so a   *)
(* set in which everyone has a dependency loses nobody. The union of these *)
(* sets (Core) solves the recursion, and by the well-founded order of      *)
(* finite sets it is what every solution computes.                         *)
(***************************************************************************)
Peel(g, rest) == rest \ {a \in rest : g[a] \cap rest = {}}
Sustains(g, T) == \A x \in T : g[x] \cap T # {}
Core(g, rest) == UNION {T \in SUBSET rest : Sustains(g, T)}

LEMMA CoreIs ==
  ASSUME NEW g, NEW rest
  PROVE  Core(g, rest) = IF Peel(g, rest) = rest THEN rest ELSE Core(g, Peel(g, rest))
<1>1. CASE Peel(g, rest) = rest
  <2>1. Sustains(g, rest)
    BY <1>1 DEF Sustains, Peel
  <2> QED
    BY <1>1, <2>1 DEF Core
<1>2. CASE Peel(g, rest) # rest
  <2>1. \A T \in SUBSET rest : Sustains(g, T) => T \subseteq Peel(g, rest)
    BY DEF Sustains, Peel
  <2>2. Peel(g, rest) \subseteq rest
    BY DEF Peel
  <2> QED
    BY <1>2, <2>1, <2>2 DEF Core
<1> QED
  BY <1>1, <1>2

LEMMA KahnIs ==
  ASSUME NEW g
  PROVE  \E kahn :
           /\ CyclicNodes(g) = kahn[Agents]
           /\ \A rest \in SUBSET Agents :
                kahn[rest] = IF Peel(g, rest) = rest THEN rest ELSE kahn[Peel(g, rest)]
<1> DEFINE Body(kahn, rest) ==
             LET ready == {a \in rest : g[a] \cap rest = {}}
             IN  IF ready = {} THEN rest ELSE kahn[rest \ ready]
           Solves(kahn) == kahn = [rest \in SUBSET Agents |-> Body(kahn, rest)]
           core == [rest \in SUBSET Agents |-> Core(g, rest)]
           solution == CHOOSE kahn : Solves(kahn)
<1>1. CyclicNodes(g) = solution[Agents]
  BY DEF CyclicNodes
<1>2. ASSUME NEW rest \in SUBSET Agents
      PROVE  core[rest] = Body(core, rest)
  <2>1. Peel(g, rest) \in SUBSET Agents
    BY DEF Peel
  <2> QED
    BY <2>1, CoreIs DEF Peel
<1>3. Solves(core)
  BY <1>2
<1>4. Solves(solution)
  BY <1>3
<1> HIDE DEF solution
<1>5. \A rest \in SUBSET Agents :
        solution[rest] = IF Peel(g, rest) = rest THEN rest ELSE solution[Peel(g, rest)]
  BY <1>4 DEF Peel
<1> QED
  BY <1>1, <1>5

(***************************************************************************)
(* _kahn finds exactly the agents on a cycle or depending on one: the      *)
(* largest set in which everyone depends on a member. So a graph it does   *)
(* not refuse can be worked off.                                           *)
(***************************************************************************)
THEOREM KahnExact ==
  ASSUME NEW g
  PROVE  CyclicNodes(g) = UNION {T \in SUBSET Agents : Sustains(g, T)}
<1>1. PICK kahn :
        /\ CyclicNodes(g) = kahn[Agents]
        /\ \A rest \in SUBSET Agents :
             kahn[rest] = IF Peel(g, rest) = rest THEN rest ELSE kahn[Peel(g, rest)]
  BY KahnIs
<1> DEFINE Wrong == {rest \in SUBSET Agents : kahn[rest] # Core(g, rest)}
           Less == StrictSubsetOrdering(Agents)
<1>2. IsWellFoundedOn(Less, SUBSET Agents)
  BY AgentsAssumption, FS_StrictSubsetOrderingWellFounded, FS_FiniteSubsetsOfFinite
<1>3. Wrong = {}
  <2> SUFFICES ASSUME Wrong # {} PROVE FALSE
    OBVIOUS
  <2>1. PICK rest \in Wrong : \A other \in Wrong : <<other, rest>> \notin Less
    <3> HIDE DEF Less
    <3>1. Wrong \subseteq SUBSET Agents
      OBVIOUS
    <3> HIDE DEF Wrong
    <3> QED
      BY <1>2, <3>1, WFMin
  <2>2. Peel(g, rest) # rest
    BY <1>1, CoreIs
  <2>3. Peel(g, rest) \in SUBSET rest
    BY DEF Peel
  <2>4. Peel(g, rest) \in Wrong
    BY <1>1, <2>2, <2>3, CoreIs
  <2>5. <<Peel(g, rest), rest>> \in Less
    BY <2>2, <2>3 DEF StrictSubsetOrdering
  <2> QED
    BY <2>1, <2>4, <2>5
<1>4. kahn[Agents] = Core(g, Agents)
  BY <1>3
<1> QED
  BY <1>1, <1>4 DEF Core

(***************************************************************************)
(* What lies downstream of c: its dependents and theirs; and nobody whose  *)
(* dependencies are within a set that has all its members depend on, and   *)
(* not c.                                                                  *)
(***************************************************************************)
LEMMA DownstreamGrows ==
  ASSUME NEW g, NEW c
  PROVE  /\ DependentsOf(g, c) \subseteq Downstream(g, c)
         /\ \A b \in Downstream(g, c) : DependentsOf(g, b) \subseteq Downstream(g, c)
<1>1. \A b \in Downstream(g, c) : \A S \in SUBSET Agents :
        DependentsOf(g, c) \subseteq S /\ (\A x \in S : DependentsOf(g, x) \subseteq S) => b \in S
  BY DEF Downstream
<1>2. \A x : DependentsOf(g, x) \subseteq Agents
  BY DEF DependentsOf
<1>3. DependentsOf(g, c) \subseteq Downstream(g, c)
  BY <1>2 DEF Downstream
<1>4. ASSUME NEW b \in Downstream(g, c), NEW y \in DependentsOf(g, b)
      PROVE  y \in Downstream(g, c)
  <2>1. ASSUME NEW S \in SUBSET Agents, DependentsOf(g, c) \subseteq S,
               \A x \in S : DependentsOf(g, x) \subseteq S
        PROVE  y \in S
    BY <1>1, <1>4, <2>1
  <2> QED
    BY <1>2, <2>1 DEF Downstream
<1> QED
  BY <1>3, <1>4

LEMMA DownstreamIsWithin ==
  ASSUME NEW g, NEW c, NEW S \in SUBSET Agents, DependentsOf(g, c) \subseteq S,
         \A x \in S : DependentsOf(g, x) \subseteq S
  PROVE  Downstream(g, c) \subseteq S
BY DEF Downstream

LEMMA DownstreamLacks ==
  ASSUME NEW g, NEW C, \A x \in C \cap Agents : g[x] \subseteq C, NEW c, c \notin C,
         NEW b \in Downstream(g, c)
  PROVE  ~(g[b] \subseteq C)
<1> DEFINE S == {x \in Agents : ~(g[x] \subseteq C)}
<1>1. DependentsOf(g, c) \subseteq S
  BY DEF DependentsOf
<1>2. \A x \in S : DependentsOf(g, x) \subseteq S
  BY DEF DependentsOf
<1>3. Downstream(g, c) \subseteq S
  BY <1>1, <1>2, DownstreamIsWithin
<1> QED
  BY <1>3
-----------------------------------------------------------------------------
(***************************************************************************)
(* A swarm left alone: nobody was stopped and nothing failed to be written *)
(* or told.                                                                *)
(***************************************************************************)
LeftAlone == stops = 0 /\ faults = 0

Scheduled(a) == IF deps[a] = {} THEN "READY" ELSE "WAITING_FOR_DEPENDENCY"
Outcomes == {"COMPLETE", "FAILED", "WAITING_FOR_CALL"}
InLoop == {"release", "block", "returned"}

(***************************************************************************)
(* The status of an agent says how far its task is.                        *)
(***************************************************************************)
StatusOf(a) ==
  /\ swarm.pc \in {"build", "refused"} => status[a] = "CREATED"
  /\ swarm.pc = "schedule" => status[a] = IF a \in swarm.left THEN "CREATED" ELSE Scheduled(a)
  /\ swarm.pc \in InLoop =>
       CASE task[a] = "idle" -> status[a] \in {"WAITING_FOR_DEPENDENCY", "BLOCKED"}
         [] task[a] = "queued" -> status[a] = "READY"
         [] task[a] \in {"executing", "guarding"} -> status[a] \in {"READY", "WORKING"}
         [] task[a] \in {"ended", "popped"} -> status[a] \in Outcomes

(***************************************************************************)
(* What a transition in progress is about to make of an agent.             *)
(***************************************************************************)
MoveOf(a) ==
  /\ Moving(a) => \/ task[a] = "executing" /\ status[a] = "READY" /\ move[a].to = "WORKING"
                  \/ move[a].to \in Outcomes
  /\ task[a] \in {"executing", "guarding"} /\ ~Moving(a) =>
       task[a] = "executing" /\ status[a] = "WORKING"

SwarmMoveOf(a, to) ==
  /\ swarm.pc = "schedule" => to = Scheduled(a)
  /\ swarm.pc = "release" => to = "READY"
  /\ swarm.pc = "block" => to = "BLOCKED" /\ status[a] = "WAITING_FOR_DEPENDENCY"

(***************************************************************************)
(* Who was launched had all it depends on, and who has all it depends on   *)
(* is launched or about to be.                                             *)
(***************************************************************************)
Launches(a) ==
  /\ task[a] # "idle" => deps[a] \subseteq completed
  /\ a \in completed <=> task[a] = "popped" /\ status[a] = "COMPLETE"
  /\ swarm.pc \in InLoop /\ task[a] = "idle" /\ deps[a] \subseteq completed =>
       swarm.pc = "release" /\ a \in swarm.left
  /\ a \in finished /\ task[a] = "idle" => status[a] = "BLOCKED"

(***************************************************************************)
(* Downstream of a failure, and only there, agents are blocked.            *)
(***************************************************************************)
Failed(c) == task[c] = "popped" /\ status[c] = "FAILED"
HasCause(b) == \E c \in Agents : Failed(c) /\ b \in Downstream(deps, c)

Blocks(b) ==
  /\ status[b] = "BLOCKED" => HasCause(b)
  /\ HasCause(b) => status[b] = "BLOCKED" \/ (swarm.pc = "block" /\ b \in swarm.left)
  /\ swarm.pc = "block" /\ b \in swarm.left => HasCause(b)

SettleInd ==
  /\ swarm.pc \notin {"build", "refused"} => CyclicNodes(deps) = {}
  /\ LeftAlone =>
       /\ swarm.pc # "crashed" /\ ~Moving(Stopper) /\ canceling = NoAgent
       /\ swarm.pc = "returned" => Running = {}
       /\ Moving(SwarmTask) => SwarmMoveOf(move[SwarmTask].agent, move[SwarmTask].to)
       /\ \A a \in Agents : StatusOf(a) /\ MoveOf(a) /\ Launches(a) /\ Blocks(a)

LEMMA SettleInit == RunnerInit => SettleInd
<1> SUFFICES ASSUME RunnerInit PROVE SettleInd
  OBVIOUS
<1>1. \A t \in Tasks : ~Moving(t)
  BY DEF RunnerInit, Moving
<1>2. ASSUME NEW a \in Agents
      PROVE  StatusOf(a) /\ MoveOf(a) /\ Launches(a)
  BY <1>1, <1>2, TaskNames DEF RunnerInit, StatusOf, MoveOf, Launches, InLoop
<1>3. ASSUME NEW a \in Agents
      PROVE  Blocks(a)
  BY DEF RunnerInit, Blocks, HasCause, Failed
<1> QED
  BY <1>1, <1>2, <1>3, TaskNames DEF RunnerInit, SettleInd

(***************************************************************************)
(* Who is downstream of a failure lacks a dependency for good.             *)
(***************************************************************************)
LEMMA CausedLacks ==
  ASSUME RunnerInd, SettleInd, LeftAlone, NEW b \in Agents, HasCause(b)
  PROVE  ~(deps[b] \subseteq completed) /\ task[b] = "idle"
<1>1. PICK c \in Agents : Failed(c) /\ b \in Downstream(deps, c)
  BY DEF HasCause
<1>2. c \notin completed
  BY <1>1 DEF SettleInd, Launches, Failed
<1>3. \A x \in completed \cap Agents : deps[x] \subseteq completed
  BY DEF SettleInd, Launches
<1>4. ~(deps[b] \subseteq completed)
  BY <1>1, <1>2, <1>3, DownstreamLacks
<1> QED
  BY <1>4 DEF SettleInd, Launches

LEMMA OneSettles ==
  ASSUME RunnerInd, SettleInd, LeftAlone, NEW a \in Agents,
         UNCHANGED <<deps, swarm, completed, finished, stopState>>,
         task[a] \in {"queued", "executing", "guarding"},
         task'[a] \in {"executing", "guarding", "ended"},
         KeptBut(a),
         \A b \in Agents \ {a} : task'[b] = task[b] /\ status'[b] = status[b],
         task'[a] = "ended" => status'[a] \in Outcomes,
         task'[a] # "ended" => status'[a] \in {"READY", "WORKING"},
         MoveOf(a)'
  PROVE  SettleInd'
<1>1. swarm.pc \in {"release", "block"}
  <2>1. swarm.pc \notin {"build", "refused", "schedule"}
    BY DEF RunnerInd, Unlaunched
  <2>2. swarm.pc \notin {"returned", "crashed"}
    BY DEF SettleInd, Running
  <2> QED
    BY <2>1, <2>2 DEF RunnerInd, RunnerTypeOK, SwarmState
<1>2. LeftAlone' /\ UNCHANGED canceling
  BY DEF LeftAlone, stopState
<1>3. \A c \in Agents : Failed(c)' <=> Failed(c)
  BY DEF Failed
<1>4. \A b \in Agents : HasCause(b)' <=> HasCause(b)
  BY <1>3 DEF HasCause
<1>5. status[a] \in {"READY", "WORKING"}
  BY <1>1 DEF SettleInd, StatusOf, InLoop
<1>6. Moving(Stopper)' = Moving(Stopper) /\ Moving(SwarmTask)' = Moving(SwarmTask)
  BY TaskNames DEF KeptBut, Moving
<1>7. Moving(SwarmTask)' => SwarmMoveOf(move[SwarmTask].agent, move[SwarmTask].to)'
  <2> SUFFICES ASSUME Moving(SwarmTask)
               PROVE  SwarmMoveOf(move[SwarmTask].agent, move[SwarmTask].to)'
    BY <1>6
  <2>1. SwarmMoveOf(move[SwarmTask].agent, move[SwarmTask].to)
    BY DEF SettleInd
  <2>2. move[SwarmTask].agent \in Agents
    BY MovingIs, TaskNames DEF RunnerInd, RunnerTypeOK, MoveType
  <2>3. move'[SwarmTask] = move[SwarmTask]
    BY TaskNames DEF KeptBut
  <2> QED
    BY <1>1, <1>5, <2>1, <2>2, <2>3 DEF SwarmMoveOf
<1>8. ASSUME NEW b \in Agents
      PROVE  StatusOf(b)'
  <2>1. StatusOf(b)
    BY DEF SettleInd
  <2> QED
    BY <1>1, <2>1 DEF StatusOf, InLoop
<1>9. ASSUME NEW b \in Agents
      PROVE  MoveOf(b)'
  <2>1. CASE b # a
    <3>1. MoveOf(b) /\ move'[b] = move[b]
      BY <2>1, TaskNames DEF SettleInd, KeptBut
    <3> QED
      BY <2>1, <3>1 DEF MoveOf, Moving
  <2> QED
    BY <2>1
<1>10. ASSUME NEW b \in Agents
       PROVE  Launches(b)'
  BY <1>1 DEF SettleInd, Launches, InLoop
<1>11. ASSUME NEW b \in Agents
       PROVE  Blocks(b)'
  BY <1>4, <1>5 DEF SettleInd, Blocks, Outcomes
<1> QED
  BY <1>1, <1>2, <1>6, <1>7, <1>8, <1>9, <1>10, <1>11 DEF SettleInd, LeftAlone

(***************************************************************************)
(* The agents' own tasks.                                                  *)
(***************************************************************************)
LEMMA AgentSettles ==
  ASSUME NEW a \in Agents
  PROVE  RunnerInd /\ SettleInd /\ LeftAlone /\ AgentStep(a) => SettleInd'
<1> SUFFICES ASSUME RunnerInd, SettleInd, LeftAlone, AgentStep(a)
             PROVE  SettleInd'
  OBVIOUS
<1>1. MoveType /\ task \in [Agents -> {"idle", "queued", "executing", "guarding", "ended", "popped"}]
  BY DEF RunnerInd, RunnerTypeOK, MoveType
<1>2. Moving(a) => move[a].agent = a /\ task[a] \in {"executing", "guarding"}
  BY DEF RunnerInd, RunnerTypeOK
<1>3. /\ task[a] = "queued" => status[a] = "READY"
      /\ task[a] \in {"executing", "guarding"} => status[a] \in {"READY", "WORKING"}
  <2>1. task[a] # "idle" => swarm.pc \notin {"build", "refused", "schedule", "crashed"}
    BY DEF RunnerInd, Unlaunched, SettleInd
  <2>2. task[a] # "idle" => swarm.pc \in InLoop
    BY <2>1 DEF RunnerInd, RunnerTypeOK, SwarmState, InLoop
  <2> QED
    BY <2>2 DEF SettleInd, StatusOf
<1>4. ~Terminal(a) \/ task[a] \notin {"queued", "executing", "guarding"}
  BY <1>3 DEF Terminal, TERMINAL_RUN_STATES
<1>5. MoveOf(a)
  BY DEF SettleInd
<1>6. ASSUME task[a] \in {"queued", "executing", "guarding"}, UNCHANGED status,
             UNCHANGED <<deps, swarm, completed, finished, stopState>>,
             NEW where \in {"executing", "guarding"}, NEW to \in AgentState,
             to \in Outcomes \/ (to = "WORKING" /\ status[a] = "READY" /\ where = "executing"),
             Begin(a, a, to), task' = [task EXCEPT ![a] = where]
      PROVE  SettleInd'
  <2>1. KeptBut(a) /\ Moving(a)' /\ move'[a].to = to
    BY <1>1, <1>6, BeginIs, TaskNames
  <2>2. /\ task'[a] = where
        /\ \A b \in Agents \ {a} : task'[b] = task[b]
    BY <1>1, <1>6
  <2>3. MoveOf(a)'
    <3>1. status'[a] = status[a]
      BY <1>6
    <3> QED
      BY <1>6, <2>1, <2>2, <3>1 DEF MoveOf
  <2>4. /\ status'[a] \in {"READY", "WORKING"}
        /\ \A b \in Agents \ {a} : status'[b] = status[b]
    BY <1>3, <1>6
  <2>5. task'[a] \in {"executing", "guarding", "ended"} /\ task'[a] # "ended"
    BY <2>2
  <2>6. KeptBut(a)
    BY <2>1
  <2>7. UNCHANGED <<deps, swarm, completed, finished, stopState>>
    BY <1>6
  <2>8. task[a] \in {"queued", "executing", "guarding"}
    BY <1>6
  <2> QED
    BY <2>2, <2>3, <2>4, <2>5, <2>6, <2>7, <2>8, OneSettles
<1>7. ASSUME Acquire(a)
      PROVE  SettleInd'
  <2>1. status[a] = "READY" /\ task[a] = "queued"
    BY <1>3, <1>7 DEF Acquire
  <2>2. UNCHANGED status /\ UNCHANGED <<deps, swarm, completed, finished, stopState>>
    BY <1>7 DEF Acquire, swarmState
  <2>3. task' = [task EXCEPT ![a] = "executing"]
    BY <1>7, <2>1 DEF Acquire
  <2>4. CASE Begin(a, a, "WORKING")
    BY <1>6, <2>1, <2>2, <2>3, <2>4 DEF AgentState
  <2>5. CASE Begin(a, a, "FAILED")
    BY <1>6, <2>1, <2>2, <2>3, <2>5 DEF AgentState, Outcomes
  <2> QED
    BY <1>7, <2>1, <2>4, <2>5 DEF Acquire
<1>8. ASSUME AtTurn(a), UNCHANGED status, UNCHANGED <<deps, swarm, completed, finished, stopState>>,
             NEW where \in {"executing", "guarding"}, NEW to \in Outcomes, Propose(a, where, to)
      PROVE  SettleInd'
  <2>1. Outcomes \subseteq AgentState
    BY DEF Outcomes, AgentState
  <2> QED
    BY <1>4, <1>6, <1>8, <2>1 DEF AtTurn, Propose
<1>9. ASSUME AtTurn(a), UNCHANGED <<status, task, move>>,
             UNCHANGED <<deps, swarm, completed, finished, stopState>>
      PROVE  SettleInd'
  <2>1. KeptBut(a) /\ MoveOf(a)'
    BY <1>5, <1>9 DEF KeptBut, MoveOf, Moving
  <2>2. task[a] = "executing" /\ status[a] \in {"READY", "WORKING"}
    BY <1>3, <1>9 DEF AtTurn
  <2> QED
    BY <1>9, <2>1, <2>2, OneSettles
<1>10. ASSUME Reject(a) \/ Output(a) \/ Request(a) \/ RunOut(a) \/ Continue(a)
       PROVE  SettleInd'
  BY <1>8, <1>9, <1>10
     DEF Reject, Output, Request, RunOut, Continue, Outcomes, swarmState, agentState, turnState
<1>11. ASSUME Store(a)
       PROVE  SettleInd'
  <2>1. KeptBut(a) /\ Moving(a) /\ Moving(a)' /\ move'[a].to = move[a].to
    BY <1>1, <1>11, StoreIs, TaskNames DEF Store
  <2>2. UNCHANGED <<status, task, deps, swarm, completed, finished, stopState>>
    BY <1>11 DEF Store, swarmState
  <2>3. MoveOf(a)'
    BY <1>2, <1>5, <2>1, <2>2 DEF MoveOf
  <2> QED
    BY <1>2, <1>3, <2>1, <2>2, <2>3, OneSettles
<1>12. ASSUME AgentApplies(a)
       PROVE  SettleInd'
  <2>1. Moving(a) /\ status' = [status EXCEPT ![a] = move[a].to]
    BY <1>2, <1>12 DEF AgentApplies, Apply
  <2>2. KeptBut(a) /\ ~Moving(a)'
    BY <1>1, <1>12, EndIs, TaskNames DEF AgentApplies
  <2>3. UNCHANGED <<deps, swarm, completed, finished, stopState>>
    BY <1>12 DEF AgentApplies, swarmState
  <2>4. /\ status'[a] = move[a].to
        /\ \A b \in Agents \ {a} : status'[b] = status[b]
    BY <2>1 DEF RunnerInd, RunnerTypeOK
  <2>5. CASE move[a].to = "WORKING"
    <3>1. UNCHANGED task /\ status[a] = "READY" /\ task[a] = "executing"
      BY <1>5, <1>12, <2>1, <2>5 DEF AgentApplies, MoveOf, Outcomes
    <3>2. MoveOf(a)'
      BY <2>2, <2>4, <2>5, <3>1 DEF MoveOf
    <3> QED
      BY <2>2, <2>3, <2>4, <2>5, <3>1, <3>2, OneSettles
  <2>6. CASE move[a].to # "WORKING"
    <3>1. task' = [task EXCEPT ![a] = "ended"] /\ move[a].to \in Outcomes
      BY <1>5, <1>12, <2>1, <2>6 DEF AgentApplies, MoveOf
    <3>2. /\ task'[a] = "ended"
          /\ \A b \in Agents \ {a} : task'[b] = task[b]
      BY <1>1, <3>1
    <3>3. MoveOf(a)'
      BY <2>2, <3>2 DEF MoveOf
    <3> QED
      BY <1>2, <2>1, <2>2, <2>3, <2>4, <3>1, <3>2, <3>3, OneSettles
  <2> QED
    BY <2>5, <2>6
<1> QED
  BY <1>7, <1>10, <1>11, <1>12 DEF AgentStep

(***************************************************************************)
(* run_swarm is in another transition than before, of an agent it may make *)
(* that.                                                                   *)
(***************************************************************************)
LEMMA SwarmBegins ==
  ASSUME RunnerInd, SettleInd, LeftAlone,
         UNCHANGED <<deps, swarm, completed, finished, status, task, stopState>>,
         KeptBut(SwarmTask),
         SwarmMoveOf(move'[SwarmTask].agent, move'[SwarmTask].to)
  PROVE  SettleInd'
<1>1. LeftAlone' /\ UNCHANGED canceling /\ Moving(Stopper)' = Moving(Stopper)
  BY RunnerAssumption, TaskNames DEF LeftAlone, stopState, KeptBut, Moving
<1>2. SwarmMoveOf(move[SwarmTask].agent, move[SwarmTask].to)'
  BY DEF SwarmMoveOf, Scheduled
<1>3. Running' = Running
  BY DEF Running
<1>4. ASSUME NEW b \in Agents
      PROVE  StatusOf(b)' /\ Launches(b)'
  BY DEF SettleInd, StatusOf, Launches, Scheduled
<1>5. ASSUME NEW b \in Agents
      PROVE  MoveOf(b)'
  <2>1. MoveOf(b) /\ move'[b] = move[b]
    BY TaskNames DEF SettleInd, KeptBut
  <2> QED
    BY <2>1 DEF MoveOf, Moving
<1>6. ASSUME NEW b \in Agents
      PROVE  Blocks(b)'
  BY DEF SettleInd, Blocks, HasCause, Failed
<1> QED
  BY <1>1, <1>2, <1>3, <1>4, <1>5, <1>6 DEF SettleInd

(***************************************************************************)
(* run_swarm goes on where no transition of its own is in progress.        *)
(***************************************************************************)
LEMMA SettleStart == RunnerInd /\ SettleInd /\ LeftAlone /\ StartSwarm => SettleInd'
<1> SUFFICES ASSUME RunnerInd, SettleInd, LeftAlone, StartSwarm PROVE SettleInd'
  OBVIOUS
<1>1. /\ swarm.pc = "build" /\ UNCHANGED <<deps, completed, finished, status, task, move, stopState>>
      /\ \/ swarm'.pc = "refused"
         \/ swarm'.pc = "schedule" /\ swarm'.left = Agents /\ CyclicNodes(deps) = {}
  BY DEF StartSwarm, agentState, RunnerInd, RunnerTypeOK, SwarmState
<1>2. \A b \in Agents : task[b] = "idle"
  BY <1>1 DEF RunnerInd, Unlaunched
<1>3. LeftAlone' /\ UNCHANGED canceling /\ \A t : Moving(t)' = Moving(t)
  BY <1>1 DEF LeftAlone, stopState, Moving
<1>4. ~Moving(SwarmTask)
  BY <1>1 DEF RunnerInd, MovesSound
<1>5. ASSUME NEW b \in Agents
      PROVE  StatusOf(b)' /\ Launches(b)' /\ MoveOf(b)'
  BY <1>1, <1>2, <1>3 DEF SettleInd, StatusOf, Launches, MoveOf, InLoop
<1>6. ASSUME NEW b \in Agents
      PROVE  Blocks(b)'
  BY <1>1, <1>2 DEF SettleInd, Blocks, HasCause, Failed
<1> QED
  BY <1>1, <1>3, <1>4, <1>5, <1>6 DEF SettleInd

LEMMA SettleLaunch == RunnerInd /\ SettleInd /\ LeftAlone /\ LaunchRoots => SettleInd'
<1> SUFFICES ASSUME RunnerInd, SettleInd, LeftAlone, LaunchRoots PROVE SettleInd'
  OBVIOUS
<1>1. /\ swarm.pc = "schedule" /\ swarm.left = {} /\ ~Moving(SwarmTask)
      /\ UNCHANGED <<deps, completed, finished, status, move, stopState>>
      /\ swarm'.pc = "release" /\ swarm'.left = {}
  BY DEF LaunchRoots, InSwarm, RunnerInd, RunnerTypeOK, SwarmState
<1>2. \A b \in Agents : task[b] = "idle" /\ status[b] = Scheduled(b)
  BY <1>1 DEF RunnerInd, Unlaunched, SettleInd, StatusOf
<1>3. \A b \in Agents : b \notin completed /\ b \notin finished
  BY <1>2 DEF SettleInd, Launches, Scheduled
<1>4. \A b \in Agents : task'[b] = IF deps[b] = {} THEN "queued" ELSE "idle"
  BY DEF LaunchRoots, Ready
<1>5. \A b \in Agents : deps[b] \subseteq Agents
  BY RunnerAssumption DEF RunnerInd, RunnerTypeOK
<1>6. LeftAlone' /\ UNCHANGED canceling /\ \A t : Moving(t)' = Moving(t)
  BY <1>1 DEF LeftAlone, stopState, Moving
<1>7. ASSUME NEW b \in Agents
      PROVE  StatusOf(b)'
  BY <1>1, <1>2, <1>4 DEF StatusOf, InLoop, Scheduled
<1>8. ASSUME NEW b \in Agents
      PROVE  Launches(b)'
  BY <1>1, <1>3, <1>4, <1>5 DEF Launches, InLoop
<1>9. ASSUME NEW b \in Agents
      PROVE  MoveOf(b)'
  <2>1. MoveOf(b) /\ ~Moving(b)
    BY <1>2 DEF SettleInd, RunnerInd, RunnerTypeOK
  <2> QED
    BY <1>4, <1>6, <2>1 DEF MoveOf
<1>10. ASSUME NEW b \in Agents
       PROVE  Blocks(b)'
  BY <1>1, <1>2, <1>4 DEF Blocks, HasCause, Failed, Scheduled
<1> QED
  BY <1>1, <1>6, <1>7, <1>8, <1>9, <1>10 DEF SettleInd

LEMMA SettleWait == RunnerInd /\ SettleInd /\ LeftAlone /\ (Wake \/ Return) => SettleInd'
<1> SUFFICES ASSUME RunnerInd, SettleInd, LeftAlone, Wake \/ Return PROVE SettleInd'
  OBVIOUS
<1>1. /\ swarm.pc \in {"release", "block"} /\ swarm.left = {} /\ ~Moving(SwarmTask)
      /\ UNCHANGED <<deps, completed, finished, status, task, move, stopState>>
      /\ swarm'.left = {}
      /\ swarm'.pc = swarm.pc \/ (swarm'.pc = "returned" /\ Running = {})
  BY DEF Wake, Return, BetweenTasks, agentState, RunnerInd, RunnerTypeOK, SwarmState
<1>2. LeftAlone' /\ UNCHANGED <<canceling, Running>> /\ \A t : Moving(t)' = Moving(t)
  BY <1>1 DEF LeftAlone, stopState, Moving, Running
<1>3. ASSUME NEW b \in Agents
      PROVE  StatusOf(b)'
  BY <1>1 DEF SettleInd, StatusOf, InLoop
<1>4. ASSUME NEW b \in Agents
      PROVE  Launches(b)' /\ MoveOf(b)'
  BY <1>1, <1>2 DEF SettleInd, Launches, MoveOf, InLoop
<1>5. ASSUME NEW b \in Agents
      PROVE  Blocks(b)'
  BY <1>1 DEF SettleInd, Blocks, HasCause, Failed
<1> QED
  BY <1>1, <1>2, <1>3, <1>4, <1>5 DEF SettleInd

LEMMA SettleSchedule ==
  ASSUME NEW a \in Agents
  PROVE  RunnerInd /\ SettleInd /\ LeftAlone /\ Schedule(a) => SettleInd'
<1> SUFFICES ASSUME RunnerInd, SettleInd, LeftAlone, Schedule(a) PROVE SettleInd'
  OBVIOUS
<1>1. /\ swarm.pc = "schedule" /\ a \in swarm.left
      /\ UNCHANGED <<deps, completed, finished, status, task, stopState>>
  BY DEF Schedule, InSwarm
<1>2. ~Terminal(a)
  BY <1>1 DEF SettleInd, StatusOf, Terminal, TERMINAL_RUN_STATES
<1>3. UNCHANGED swarm /\ Begin(SwarmTask, a, Scheduled(a))
  BY <1>2 DEF Schedule, Scheduled
<1>4. KeptBut(SwarmTask) /\ move'[SwarmTask].agent = a /\ move'[SwarmTask].to = Scheduled(a)
  BY <1>3, BeginIs, TaskNames DEF RunnerInd, RunnerTypeOK, MoveType, Scheduled, AgentState
<1> QED
  BY <1>1, <1>3, <1>4, SwarmBegins DEF SwarmMoveOf

(***************************************************************************)
(* What is to be released waits: had it been blocked, it would lack a      *)
(* dependency.                                                             *)
(***************************************************************************)
LEMMA SettleRelease ==
  ASSUME NEW a \in Agents
  PROVE  RunnerInd /\ SettleInd /\ LeftAlone /\ Release(a) => SettleInd'
<1> SUFFICES ASSUME RunnerInd, SettleInd, LeftAlone, Release(a) PROVE SettleInd'
  OBVIOUS
<1>1. /\ swarm.pc = "release" /\ a \in swarm.left
      /\ UNCHANGED <<deps, completed, finished, status, stopState>>
  BY DEF Release, InSwarm
<1>2. task[a] = "idle" /\ deps[a] \subseteq completed
  BY <1>1 DEF RunnerInd, Unlaunched
<1>3. Waits(a)
  BY <1>1, <1>2, CausedLacks DEF SettleInd, StatusOf, Blocks, InLoop, Waits
<1>4. UNCHANGED <<swarm, task>> /\ Begin(SwarmTask, a, "READY")
  BY <1>3 DEF Release
<1>5. KeptBut(SwarmTask) /\ move'[SwarmTask].agent = a /\ move'[SwarmTask].to = "READY"
  BY <1>4, BeginIs, TaskNames DEF RunnerInd, RunnerTypeOK, MoveType, AgentState
<1> QED
  BY <1>1, <1>4, <1>5, SwarmBegins DEF SwarmMoveOf

(***************************************************************************)
(* What is to be blocked waits, or is blocked already.                     *)
(***************************************************************************)
LEMMA SettleBlock ==
  ASSUME NEW a \in Agents
  PROVE  RunnerInd /\ SettleInd /\ LeftAlone /\ Block(a) => SettleInd'
<1> SUFFICES ASSUME RunnerInd, SettleInd, LeftAlone, Block(a) PROVE SettleInd'
  OBVIOUS
<1>1. /\ swarm.pc = "block" /\ a \in swarm.left /\ ~Moving(SwarmTask)
      /\ UNCHANGED <<deps, completed, finished, status, task, stopState>>
  BY DEF Block, InSwarm
<1>2. HasCause(a) /\ task[a] = "idle"
  BY <1>1, CausedLacks DEF SettleInd, Blocks
<1>3. status[a] \in {"WAITING_FOR_DEPENDENCY", "BLOCKED"}
  BY <1>1, <1>2 DEF SettleInd, StatusOf, InLoop
<1>4. CASE Waits(a)
  <2>1. UNCHANGED swarm /\ Begin(SwarmTask, a, "BLOCKED")
    BY <1>4 DEF Block
  <2>2. KeptBut(SwarmTask) /\ move'[SwarmTask].agent = a /\ move'[SwarmTask].to = "BLOCKED"
    BY <2>1, BeginIs, TaskNames DEF RunnerInd, RunnerTypeOK, MoveType, AgentState
  <2> QED
    BY <1>1, <1>4, <2>1, <2>2, SwarmBegins DEF SwarmMoveOf, Waits
<1>5. CASE ~Waits(a)
  <2>1. status[a] = "BLOCKED"
    BY <1>3, <1>5 DEF Waits
  <2>2. UNCHANGED move /\ swarm'.pc = "block" /\ swarm'.left = swarm.left \ {a}
    BY <1>1, <1>5 DEF Block, Passed, RunnerInd, RunnerTypeOK, SwarmState
  <2>3. LeftAlone' /\ UNCHANGED canceling /\ \A t : Moving(t)' = Moving(t)
    BY <1>1, <2>2 DEF LeftAlone, stopState, Moving
  <2>4. ASSUME NEW b \in Agents
        PROVE  StatusOf(b)'
    BY <1>1, <2>2 DEF SettleInd, StatusOf, InLoop
  <2>5. ASSUME NEW b \in Agents
        PROVE  Launches(b)' /\ MoveOf(b)'
    BY <1>1, <2>2, <2>3 DEF SettleInd, Launches, MoveOf, InLoop
  <2>6. ASSUME NEW b \in Agents
        PROVE  Blocks(b)'
    BY <1>1, <2>1, <2>2 DEF SettleInd, Blocks, HasCause, Failed
  <2> QED
    BY <1>1, <2>2, <2>3, <2>4, <2>5, <2>6 DEF SettleInd
<1> QED
  BY <1>4, <1>5

LEMMA SettleStore == RunnerInd /\ SettleInd /\ LeftAlone /\ Store(SwarmTask) => SettleInd'
<1> SUFFICES ASSUME RunnerInd, SettleInd, LeftAlone, Store(SwarmTask) PROVE SettleInd'
  OBVIOUS
<1>1. /\ Moving(SwarmTask)
      /\ UNCHANGED <<deps, swarm, completed, finished, status, task, stopState>>
  BY DEF Store, swarmState
<1>2. /\ KeptBut(SwarmTask)
      /\ move'[SwarmTask].agent = move[SwarmTask].agent
      /\ move'[SwarmTask].to = move[SwarmTask].to
  BY StoreIs, TaskNames DEF RunnerInd, RunnerTypeOK, MoveType
<1>3. SwarmMoveOf(move[SwarmTask].agent, move[SwarmTask].to)
  BY <1>1 DEF SettleInd
<1> QED
  BY <1>1, <1>2, <1>3, SwarmBegins

LEMMA SettleApplies == RunnerInd /\ SettleInd /\ LeftAlone /\ SwarmApplies => SettleInd'
<1> SUFFICES ASSUME RunnerInd, SettleInd, LeftAlone, SwarmApplies PROVE SettleInd'
  OBVIOUS
<1> DEFINE a == move[SwarmTask].agent
           to == move[SwarmTask].to
<1>1. /\ Moving(SwarmTask) /\ a \in Agents
      /\ swarm.pc \in {"schedule", "release", "block"} /\ a \in swarm.left
      /\ SwarmMoveOf(a, to)
  BY MovingIs, TaskNames
     DEF SwarmApplies, Apply, RunnerInd, RunnerTypeOK, MoveType, MovesSound, SettleInd
<1>2. /\ status' = [status EXCEPT ![a] = to]
      /\ UNCHANGED <<deps, completed, stopState>>
      /\ swarm' = [swarm EXCEPT !.left = @ \ {a}]
      /\ task' = IF swarm.pc = "release" THEN [task EXCEPT ![a] = "queued"] ELSE task
      /\ finished' = IF swarm.pc = "block" THEN finished \cup {a} ELSE finished
  BY DEF SwarmApplies, Apply, Passed
<1>3. KeptBut(SwarmTask) /\ ~Moving(SwarmTask)'
  BY EndIs, TaskNames DEF SwarmApplies, RunnerInd, RunnerTypeOK, MoveType
<1> HIDE DEF a, to
<1>4. task[a] = "idle"
  BY <1>1, CausedLacks DEF RunnerInd, Unlaunched, SettleInd, Blocks
<1>5. /\ status'[a] = to /\ \A b \in Agents \ {a} : status'[b] = status[b]
      /\ swarm'.pc = swarm.pc /\ swarm'.left = swarm.left \ {a}
      /\ task'[a] = IF swarm.pc = "release" THEN "queued" ELSE "idle"
      /\ \A b \in Agents \ {a} : task'[b] = task[b]
  BY <1>1, <1>2, <1>4 DEF RunnerInd, RunnerTypeOK, SwarmState
<1>6. LeftAlone' /\ UNCHANGED canceling /\ Moving(Stopper)' = Moving(Stopper)
  BY <1>2, <1>3, RunnerAssumption, TaskNames DEF LeftAlone, stopState, KeptBut, Moving
<1>7. \A b \in Agents : HasCause(b)' <=> HasCause(b)
  <2>1. \A c \in Agents : Failed(c)' <=> Failed(c)
    BY <1>1, <1>4, <1>5 DEF Failed
  <2> QED
    BY <1>2, <2>1 DEF HasCause
<1>8. ASSUME NEW b \in Agents
      PROVE  StatusOf(b)'
  <2>1. CASE b = a
    <3>1. CASE swarm.pc = "schedule"
      BY <1>1, <1>2, <1>5, <2>1, <3>1 DEF StatusOf, SwarmMoveOf, InLoop, Scheduled
    <3>2. CASE swarm.pc = "release"
      BY <1>1, <1>5, <2>1, <3>2 DEF StatusOf, SwarmMoveOf, InLoop
    <3>3. CASE swarm.pc = "block"
      BY <1>1, <1>5, <2>1, <3>3 DEF StatusOf, SwarmMoveOf, InLoop
    <3> QED
      BY <1>1, <3>1, <3>2, <3>3
  <2>2. CASE b # a
    BY <1>1, <1>2, <1>5, <2>2 DEF SettleInd, StatusOf, InLoop, Scheduled
  <2> QED
    BY <2>1, <2>2
<1>9. ASSUME NEW b \in Agents
      PROVE  MoveOf(b)'
  <2>1. MoveOf(b) /\ move'[b] = move[b]
    BY <1>3, TaskNames DEF SettleInd, KeptBut
  <2>2. CASE b = a
    <3>1. ~Moving(b)
      BY <1>4, <2>2 DEF RunnerInd, RunnerTypeOK
    <3> QED
      BY <1>5, <2>1, <2>2, <3>1 DEF MoveOf, Moving
  <2>3. CASE b # a
    BY <1>5, <2>1, <2>3 DEF MoveOf, Moving
  <2> QED
    BY <2>2, <2>3
<1>10. ASSUME NEW b \in Agents
       PROVE  Launches(b)'
  <2>1. Launches(b)
    BY DEF SettleInd
  <2>2. CASE b = a
    <3>1. b \notin completed
      BY <1>4, <2>1, <2>2 DEF Launches
    <3>2. swarm.pc = "release" => deps[b] \subseteq completed
      BY <1>1, <2>2 DEF RunnerInd, Unlaunched
    <3>3. swarm.pc = "block" => ~(deps[b] \subseteq completed)
      BY <1>1, <2>2, CausedLacks DEF SettleInd, Blocks
    <3>4. swarm.pc = "schedule" => b \notin finished
      BY <1>1, <1>4, <2>1, <2>2 DEF Launches, SettleInd, StatusOf
    <3> QED
      BY <1>1, <1>2, <1>4, <1>5, <2>1, <2>2, <3>1, <3>2, <3>3, <3>4
         DEF Launches, SwarmMoveOf, InLoop
  <2>3. CASE b # a
    BY <1>2, <1>5, <2>1, <2>3 DEF Launches
  <2> QED
    BY <2>2, <2>3
<1>11. ASSUME NEW b \in Agents
       PROVE  Blocks(b)'
  <2>1. Blocks(b)
    BY DEF SettleInd
  <2>2. CASE b = a
    <3>1. swarm.pc # "block" => ~HasCause(b)
      BY <1>1, <2>1, <2>2, CausedLacks
         DEF RunnerInd, Unlaunched, Blocks, SettleInd, StatusOf, Scheduled
    <3>2. swarm.pc = "block" => HasCause(b) /\ to = "BLOCKED"
      BY <1>1, <2>1, <2>2 DEF Blocks, SwarmMoveOf
    <3>3. swarm.pc # "block" => to # "BLOCKED"
      BY <1>1 DEF SwarmMoveOf, Scheduled
    <3> QED
      BY <1>5, <1>7, <2>2, <3>1, <3>2, <3>3 DEF Blocks
  <2>3. CASE b # a
    BY <1>5, <1>7, <2>1, <2>3 DEF Blocks
  <2> QED
    BY <2>2, <2>3
<1> QED
  BY <1>1, <1>2, <1>3, <1>5, <1>6, <1>8, <1>9, <1>10, <1>11 DEF SettleInd

(***************************************************************************)
(* A task is taken up. Whom its artifact completes has not been blocked:   *)
(* nobody downstream of a failure has all it depends on.                   *)
(***************************************************************************)
LEMMA SettlePop ==
  ASSUME NEW a \in Agents
  PROVE  RunnerInd /\ SettleInd /\ LeftAlone /\ Pop(a) => SettleInd'
<1> SUFFICES ASSUME RunnerInd, SettleInd, LeftAlone, Pop(a) PROVE SettleInd'
  OBVIOUS
<1>1. /\ swarm.pc \in {"release", "block"} /\ swarm.left = {} /\ ~Moving(SwarmTask)
      /\ task[a] = "ended"
      /\ UNCHANGED <<deps, status, move, stopState>>
      /\ finished' = finished \cup {a}
  BY DEF Pop, BetweenTasks, RunnerInd, Bookkeeping
<1>2. status[a] \in Outcomes
  BY <1>1 DEF SettleInd, StatusOf, InLoop
<1>3. /\ task'[a] = "popped"
      /\ \A b \in Agents \ {a} : task'[b] = task[b]
  BY DEF Pop, RunnerInd, RunnerTypeOK
<1>4. completed' = IF status[a] = "COMPLETE" THEN completed \cup {a} ELSE completed
  BY DEF Pop
<1>5. LeftAlone' /\ UNCHANGED canceling /\ \A t : Moving(t)' = Moving(t)
  BY <1>1 DEF LeftAlone, stopState, Moving
<1>6. deps[a] \subseteq completed /\ a \notin completed
  BY <1>1 DEF SettleInd, Launches
<1>7. \A b \in Agents : Failed(b)' <=> Failed(b) \/ (b = a /\ status[a] = "FAILED")
  BY <1>1, <1>3 DEF Failed
<1>8. \A b \in Agents :
        HasCause(b)' <=> HasCause(b) \/ (status[a] = "FAILED" /\ b \in Downstream(deps, a))
  BY <1>1, <1>7 DEF HasCause
<1>9. /\ status[a] = "COMPLETE" =>
           /\ swarm'.pc = "release"
           /\ swarm'.left = Ready(deps, completed', finished' \cup (Running \ {a}))
      /\ status[a] = "FAILED" => swarm'.pc = "block" /\ swarm'.left = Downstream(deps, a)
      /\ status[a] = "WAITING_FOR_CALL" => swarm'.pc = swarm.pc /\ swarm'.left = {}
  <2>1. CASE status[a] = "COMPLETE"
    BY <1>1, <2>1 DEF Pop
  <2>2. CASE status[a] = "FAILED"
    BY <2>2 DEF Pop, Terminal, TERMINAL_RUN_STATES
  <2>3. CASE status[a] = "WAITING_FOR_CALL"
    <3>1. swarm' = [swarm EXCEPT !.batch = @ \ {a}]
      BY <2>3 DEF Pop, Terminal, TERMINAL_RUN_STATES
    <3> QED
      BY <1>1, <2>3, <3>1 DEF RunnerInd, RunnerTypeOK, SwarmState
  <2> QED
    BY <2>1, <2>2, <2>3
<1>10. swarm'.pc \in {"release", "block"}
  BY <1>1, <1>2, <1>9 DEF Outcomes
<1>11. ASSUME NEW b \in Agents
       PROVE  StatusOf(b)'
  <2>1. StatusOf(b)
    BY DEF SettleInd
  <2>2. CASE b = a
    BY <1>1, <1>2, <1>3, <1>10, <2>2 DEF StatusOf, InLoop
  <2>3. CASE b # a
    BY <1>1, <1>3, <1>10, <2>1, <2>3 DEF StatusOf, InLoop
  <2> QED
    BY <2>2, <2>3
<1>12. ASSUME NEW b \in Agents
       PROVE  MoveOf(b)'
  <2>1. MoveOf(b)
    BY DEF SettleInd
  <2>2. CASE b = a
    <3>1. ~Moving(b)
      BY <1>1, <2>2 DEF RunnerInd, RunnerTypeOK
    <3> QED
      BY <1>3, <1>5, <2>2, <3>1 DEF MoveOf
  <2>3. CASE b # a
    BY <1>1, <1>3, <1>5, <2>1, <2>3 DEF MoveOf
  <2> QED
    BY <2>2, <2>3
<1>13. \A x \in completed' \cap Agents : deps[x] \subseteq completed'
  BY <1>4, <1>6 DEF SettleInd, Launches
<1>14. ASSUME NEW b \in Agents, task'[b] = "idle", deps[b] \subseteq completed'
       PROVE  status[a] = "COMPLETE" /\ b \in swarm'.left
  <2>1. b # a /\ task[b] = "idle"
    BY <1>3, <1>14
  <2>2. ~(deps[b] \subseteq completed)
    BY <1>1, <2>1 DEF SettleInd, Launches, InLoop
  <2>3. status[a] = "COMPLETE"
    BY <1>4, <1>14, <2>2
  <2>4. ~HasCause(b)
    <3> SUFFICES ASSUME NEW c \in Agents, Failed(c), b \in Downstream(deps, c)
                 PROVE  FALSE
      BY DEF HasCause
    <3>1. c \notin completed'
      BY <1>1, <1>4 DEF Failed, SettleInd, Launches
    <3> QED
      BY <1>13, <1>14, <3>1, DownstreamLacks
  <2>5. b \notin finished
    BY <2>1, <2>4 DEF SettleInd, Launches, Blocks
  <2>6. b \notin completed'
    BY <1>4, <2>1 DEF SettleInd, Launches
  <2>7. b \notin Running
    BY <2>1 DEF Running
  <2>8. b \in Ready(deps, completed', finished' \cup (Running \ {a}))
    BY <1>1, <1>14, <2>1, <2>5, <2>6, <2>7 DEF Ready
  <2> QED
    BY <1>9, <2>3, <2>8
<1>15. ASSUME NEW b \in Agents
       PROVE  Launches(b)'
  <2>1. Launches(b)
    BY DEF SettleInd
  <2>2. task'[b] # "idle" => deps[b] \subseteq completed'
    BY <1>3, <1>4, <1>6, <2>1 DEF Launches
  <2>3. b \in completed' <=> task'[b] = "popped" /\ status[b] = "COMPLETE"
    BY <1>1, <1>3, <1>4, <1>6, <2>1 DEF Launches
  <2>4. b \in finished' /\ task'[b] = "idle" => status[b] = "BLOCKED"
    BY <1>1, <1>3, <2>1 DEF Launches
  <2> QED
    BY <1>1, <1>9, <1>14, <2>2, <2>3, <2>4 DEF Launches
<1>16. ASSUME NEW b \in Agents
       PROVE  Blocks(b)'
  <2>1. /\ status[b] = "BLOCKED" => HasCause(b)
        /\ HasCause(b) => status[b] = "BLOCKED"
    BY <1>1 DEF SettleInd, Blocks
  <2>2. CASE status[a] = "FAILED"
    BY <1>1, <1>8, <1>9, <2>1, <2>2 DEF Blocks
  <2>3. CASE status[a] = "COMPLETE"
    BY <1>1, <1>8, <1>9, <2>1, <2>3 DEF Blocks
  <2>4. CASE status[a] = "WAITING_FOR_CALL"
    BY <1>1, <1>8, <1>9, <2>1, <2>4 DEF Blocks
  <2> QED
    BY <1>2, <2>2, <2>3, <2>4 DEF Outcomes
<1> QED
  BY <1>1, <1>5, <1>10, <1>11, <1>12, <1>15, <1>16 DEF SettleInd

LEMMA SettleStep == RunnerInd /\ SettleInd /\ [RunnerNext]_runnerVars => SettleInd'
<1> SUFFICES ASSUME RunnerInd, SettleInd, [RunnerNext]_runnerVars PROVE SettleInd'
  OBVIOUS
<1>1. CASE UNCHANGED runnerVars
  BY <1>1
     DEF runnerVars, swarmState, agentState, stopState, SettleInd, LeftAlone, StatusOf, MoveOf,
         SwarmMoveOf, Launches, Blocks, HasCause, Failed, Running, Moving, Scheduled
<1>2. CASE SwarmStep
  <2>1. UNCHANGED stopState
    BY <1>2
       DEF SwarmStep, StartSwarm, LaunchRoots, Wake, Return, Schedule, Pop, Release, Block,
           Store, SwarmApplies
  <2>2. CASE LeftAlone
    BY <1>2, <2>2, SettleStart, SettleLaunch, SettleWait, SettleSchedule, SettleRelease,
       SettleBlock, SettleStore, SettleApplies, SettlePop DEF SwarmStep
  <2>3. CASE ~LeftAlone
    <3>1. ~LeftAlone'
      BY <2>1, <2>3 DEF LeftAlone, stopState
    <3>2. StartSwarm => (swarm'.pc \notin {"build", "refused"} => CyclicNodes(deps)' = {})
      BY DEF StartSwarm, RunnerInd, RunnerTypeOK, SwarmState
    <3>3. ~StartSwarm => swarm.pc \notin {"build", "refused"} /\ UNCHANGED deps
      BY <1>2
         DEF SwarmStep, LaunchRoots, Wake, Return, Schedule, Pop, Release, Block, BetweenTasks,
             InSwarm, Store, SwarmApplies, Apply, swarmState, RunnerInd, MovesSound
    <3> QED
      BY <3>1, <3>2, <3>3 DEF SettleInd
  <2> QED
    BY <2>2, <2>3
<1>3. CASE \E a \in Agents : AgentStep(a)
  <2>1. PICK a \in Agents : AgentStep(a)
    BY <1>3
  <2>2. UNCHANGED stopState /\ UNCHANGED <<deps, swarm>>
    BY <2>1
       DEF AgentStep, Acquire, Continue, Reject, Output, Request, RunOut, Store, AgentApplies,
           swarmState
  <2> QED
    BY <2>1, <2>2, AgentSettles DEF SettleInd, LeftAlone, stopState
<1>4. CASE StopStep
  <2>1. ~LeftAlone
    BY <1>4, RunnerAssumption
       DEF StopStep, Store, StopApplies, Apply, Cancel, SettleInd
  <2>2. UNCHANGED <<stops, faults>> /\ UNCHANGED <<deps, swarm>>
    BY <1>4 DEF StopStep, Store, StopApplies, Cancel, stopState, swarmState
  <2> QED
    BY <2>1, <2>2 DEF SettleInd, LeftAlone
<1>5. CASE \/ SwarmFails \/ StopFails
           \/ \E a \in Agents : AgentFails(a) \/ StopAgent(a) \/ StopStored(a)
  <2>1. ~LeftAlone'
    BY <1>5
       DEF SwarmFails, StopFails, AgentFails, Fails, StopAgent, StopStored, LeftAlone,
           RunnerInd, RunnerTypeOK
  <2>2. UNCHANGED deps
    BY <1>5 DEF SwarmFails, StopFails, AgentFails, Fails, StopAgent, StopStored, swarmState
  <2>3. swarm.pc \in {"build", "refused"} => UNCHANGED swarm
    BY <1>5 DEF SwarmFails, StopFails, AgentFails, Fails, Apply, StopAgent, StopStored,
       swarmState, RunnerInd, MovesSound
  <2> QED
    BY <2>1, <2>2, <2>3 DEF SettleInd
<1> QED
  BY <1>1, <1>2, <1>3, <1>4, <1>5 DEF RunnerNext

(***************************************************************************)
(* When run_swarm has returned. Downstream of a failure everyone is        *)
(* blocked; a dependency that waits leaves its dependents waiting; with    *)
(* all dependencies complete an agent was launched. Those who wait with    *)
(* nobody waiting for a call upstream would depend on each other.          *)
(***************************************************************************)
LEMMA Settled == RunnerInd /\ SettleInd => SwarmSettles
<1> SUFFICES ASSUME RunnerInd, SettleInd, swarm.pc = "returned", LeftAlone,
                    NEW a \in Agents
             PROVE  /\ LET up == {status[d] : d \in deps[a]}
                       IN  IF up \cap {"FAILED", "STOPPED", "BLOCKED"} # {}
                           THEN status[a] = "BLOCKED"
                           ELSE IF up \cap Waiting # {} THEN Waits(a)
                           ELSE status[a] \in {"COMPLETE", "FAILED", "WAITING_FOR_CALL"}
                    /\ Waits(a) => \E d \in Agents :
                                     status[d] = "WAITING_FOR_CALL" /\ a \in Downstream(deps, d)
  BY DEF SwarmSettles, LeftAlone
<1>1. \A b \in Agents : deps[b] \subseteq Agents
  BY RunnerAssumption DEF RunnerInd, RunnerTypeOK
<1>2. \A b \in Agents :
        \/ task[b] = "idle" /\ status[b] \in {"WAITING_FOR_DEPENDENCY", "BLOCKED"}
        \/ task[b] = "popped" /\ status[b] \in Outcomes
  <2> SUFFICES ASSUME NEW b \in Agents
               PROVE  \/ task[b] = "idle" /\ status[b] \in {"WAITING_FOR_DEPENDENCY", "BLOCKED"}
                      \/ task[b] = "popped" /\ status[b] \in Outcomes
    OBVIOUS
  <2>1. task[b] \in {"idle", "popped"}
    <3>1. Running = {}
      BY DEF SettleInd
    <3> QED
      BY <3>1 DEF Running, RunnerInd, RunnerTypeOK
  <2>2. StatusOf(b)
    BY DEF SettleInd
  <2> QED
    BY <2>1, <2>2 DEF StatusOf, InLoop
<1>3. \A b \in Agents : status[b] = "BLOCKED" <=> HasCause(b)
  BY DEF SettleInd, Blocks
<1>4. \A b \in Agents : b \in completed <=> status[b] = "COMPLETE"
  BY <1>2 DEF SettleInd, Launches, Outcomes
<1>5. \A b \in Agents : task[b] = "idle" <=> ~(deps[b] \subseteq completed)
  BY <1>2 DEF SettleInd, Launches, InLoop
<1>6. \A b, d \in Agents : d \in deps[b] /\ status[d] \in {"FAILED", "BLOCKED"} => HasCause(b)
  <2> SUFFICES ASSUME NEW b \in Agents, NEW d \in Agents, d \in deps[b],
                      status[d] \in {"FAILED", "BLOCKED"}
               PROVE  HasCause(b)
    OBVIOUS
  <2>1. b \in DependentsOf(deps, d)
    BY DEF DependentsOf
  <2>2. CASE status[d] = "FAILED"
    BY <1>2, <2>1, <2>2, DownstreamGrows DEF HasCause, Failed
  <2>3. CASE status[d] = "BLOCKED"
    <3>1. PICK c \in Agents : Failed(c) /\ d \in Downstream(deps, c)
      BY <1>3, <2>3 DEF HasCause
    <3> QED
      BY <2>1, <3>1, DownstreamGrows DEF HasCause
  <2> QED
    BY <2>2, <2>3
<1>7. \A b \in Agents :
        HasCause(b) => \E d \in deps[b] : status[d] \in {"FAILED", "BLOCKED"}
  <2> SUFFICES ASSUME NEW b \in Agents, NEW c \in Agents, Failed(c), b \in Downstream(deps, c)
               PROVE  \E d \in deps[b] : status[d] \in {"FAILED", "BLOCKED"}
    BY DEF HasCause
  <2> DEFINE S == {x \in Downstream(deps, c) :
                    \E d \in deps[x] : status[d] \in {"FAILED", "BLOCKED"}}
  <2>1. S \in SUBSET Agents
    BY DEF Downstream
  <2>2. DependentsOf(deps, c) \subseteq S
    BY DownstreamGrows DEF DependentsOf, Failed
  <2>3. ASSUME NEW x \in S
        PROVE  DependentsOf(deps, x) \subseteq S
    <3>1. x \in Agents /\ HasCause(x)
      BY <2>1 DEF HasCause
    <3>2. status[x] = "BLOCKED"
      BY <1>3, <3>1
    <3>3. DependentsOf(deps, x) \subseteq Downstream(deps, c)
      BY DownstreamGrows
    <3> QED
      BY <3>2, <3>3 DEF DependentsOf
  <2>4. Downstream(deps, c) \subseteq S
    BY <2>1, <2>2, <2>3, DownstreamIsWithin
  <2> QED
    BY <2>4
<1>8. Waits(a) => \E d \in Agents : status[d] = "WAITING_FOR_CALL" /\ a \in Downstream(deps, d)
  <2> DEFINE Called(x) == \E d \in Agents :
                            status[d] = "WAITING_FOR_CALL" /\ x \in Downstream(deps, d)
             T == {x \in Agents : Waits(x) /\ ~Called(x)}
  <2>1. Sustains(deps, T)
    <3> SUFFICES ASSUME NEW x \in T PROVE deps[x] \cap T # {}
      BY DEF Sustains
    <3>1. x \in Agents /\ status[x] = "WAITING_FOR_DEPENDENCY" /\ ~Called(x)
      BY DEF Waits
    <3> HIDE DEF Called
    <3>2. PICK d \in deps[x] : d \in Agents /\ d \notin completed
      BY <1>1, <1>2, <1>5, <3>1 DEF Outcomes
    <3>3. status[d] \in {"WAITING_FOR_DEPENDENCY", "WAITING_FOR_CALL"}
      BY <1>2, <1>3, <1>4, <1>6, <3>1, <3>2 DEF Outcomes
    <3>4. x \in DependentsOf(deps, d)
      BY <3>1, <3>2 DEF DependentsOf
    <3>5. status[d] # "WAITING_FOR_CALL"
      BY <3>1, <3>2, <3>4, DownstreamGrows DEF Called
    <3>6. ~Called(d)
      BY <3>1, <3>4, DownstreamGrows DEF Called
    <3> QED
      BY <3>2, <3>3, <3>5, <3>6 DEF Waits
  <2>2. CyclicNodes(deps) = {}
    BY DEF SettleInd
  <2>3. T = {}
    <3> HIDE DEF T
    <3>1. T \subseteq Agents
      BY DEF T
    <3> QED
      BY <2>1, <2>2, <3>1, KahnExact
  <2> QED
    BY <2>3
<1> DEFINE up == {status[d] : d \in deps[a]}
<1>9. CASE up \cap {"FAILED", "STOPPED", "BLOCKED"} # {}
  <2>1. PICK d \in deps[a] : status[d] \in {"FAILED", "STOPPED", "BLOCKED"}
    BY <1>9
  <2>2. status[a] = "BLOCKED"
    BY <1>1, <1>2, <1>3, <1>6, <2>1 DEF Outcomes
  <2> QED
    BY <1>8, <1>9, <2>2
<1>10. CASE up \cap {"FAILED", "STOPPED", "BLOCKED"} = {}
  <2>1. ~HasCause(a)
    BY <1>7, <1>10
  <2>2. CASE up \cap Waiting # {}
    <3>1. PICK d \in deps[a] : status[d] \in Waiting
      BY <2>2
    <3>2. d \notin completed
      BY <1>1, <1>4, <3>1 DEF Waiting
    <3>3. Waits(a)
      BY <1>2, <1>3, <1>5, <2>1, <3>1, <3>2 DEF Waits
    <3> QED
      BY <1>8, <1>10, <2>2, <3>3
  <2>3. CASE up \cap Waiting = {}
    <3>1. \A d \in deps[a] : status[d] = "COMPLETE"
      BY <1>1, <1>2, <1>10, <2>3 DEF Outcomes, Waiting
    <3>2. deps[a] \subseteq completed
      BY <1>1, <1>4, <3>1
    <3>3. status[a] \in {"COMPLETE", "FAILED", "WAITING_FOR_CALL"}
      BY <1>2, <1>5, <3>2 DEF Outcomes
    <3> QED
      BY <1>8, <1>10, <2>3, <3>3
  <2> QED
    BY <2>2, <2>3
<1> QED
  BY <1>9, <1>10

(***************************************************************************)
(* When run_swarm returns with nobody stopped and nothing failed to be     *)
(* written, every agent has settled the way the docstring says: blocked    *)
(* below a failure, waiting below a call, and done otherwise, whatever the *)
(* graph and the order in which tasks ended.                               *)
(***************************************************************************)
THEOREM SwarmSettled == RunnerSpec => []SwarmSettles
<1>1. RunnerSpec => []SettleInd
  BY SettleInit, SettleStep, RunnerInductive, PTL DEF RunnerSpec
<1> QED
  BY <1>1, RunnerInductive, Settled, PTL
==============================================================================
