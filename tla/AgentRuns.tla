------------------------------ MODULE AgentRuns -------------------------------
(***************************************************************************)
(* What the replan loop and a revision meet of the agents: the spec rows,  *)
(* the AgentRun rows and the copies AgentRunner holds of them while a call *)
(* of run_swarm is under way (agents/runner.py). AgentRunner.tla has the   *)
(* inside of one call; here calls follow and overlap each other, and the   *)
(* mission and its specification change under them.                        *)
(*                                                                         *)
(* Of an agent's states CREATED, READY and WAITING_FOR_DEPENDENCY are one, *)
(* READY: it has not begun, and nothing here tells them apart.             *)
(***************************************************************************)
EXTENDS MissionTable, AgentFactory

CONSTANTS Roster,           \* every specialist there is or may be, in order
          Specs,            \* what a mission's spec can be
          FirstSpec,
          MaxRuns           \* bound: runs of agents

ASSUME RunsAssumption ==
  MaxRuns \in Nat /\ FirstSpec \in Specs /\ Roster \in Seq(AgentSpecProposal)

VARIABLES status,           \* of the mission
          spec,             \* of the mission; a revision changes it
          agents,           \* the state of each specialist's row
          runs,             \* the AgentRun rows and the runner's copies of them
          active,           \* AgentRunner._active: the runs it holds a copy of
          clock,            \* the latest started_at
          coming            \* the runs a call of run_swarm has still to create

swarmVars == <<agents, runs, active, clock, coming>>

AgentState == {"READY", "WORKING", "WAITING_FOR_CALL", "COMPLETE", "FAILED", "STOPPED", "BLOCKED"}
TERMINAL_RUN_STATES == {"COMPLETE", "FAILED", "STOPPED", "BLOCKED"}
WithOutput == {"WAITING_FOR_CALL", "COMPLETE"}

(***************************************************************************)
(* A run: its row, the runner's copy, the call of run_swarm it belongs to, *)
(* and (history) what that call was given: the constraints, and why later  *)
(* revisions passed the run over. A start of 0 is no started_at yet.       *)
(***************************************************************************)
RunRow == [status : AgentState, start : Nat, output : BOOLEAN, stale : BOOLEAN]
NewRow == [status |-> "READY", start |-> 0, output |-> FALSE, stale |-> FALSE]
Given(values) == [values |-> values, excuses |-> {}]
Launched(a, swarm, given, row) ==
  [agent |-> a, swarm |-> swarm, given |-> given, row |-> row, mem |-> row]

NoSwarm == [first |-> 0, given |-> <<>>]

RunsOf(a) == {i \in DOMAIN runs : runs[i].agent = a}

(***************************************************************************)
(* The latest run of an agent, 0 if it has none: one without started_at    *)
(* counts as started now, whatever became of it; among several of these    *)
(* the order the rows are read in decides, which nothing fixes.            *)
(***************************************************************************)
Latest(a) ==
  LET own == RunsOf(a)
      unbegun == {i \in own : runs[i].row.start = 0}
  IN  IF own = {} THEN {0}
      ELSE IF unbegun # {} THEN unbegun
      ELSE {i \in own : \A j \in own : runs[j].row.start <= runs[i].row.start}

(***************************************************************************)
(* The rows of the agents and their latest runs, as a session reads them.  *)
(***************************************************************************)
Copy(a, i) == [state |-> agents[a], id |-> i, row |-> IF i = 0 THEN NewRow ELSE runs[i].row]

Copies ==
  {[a \in Names(Roster) |-> Copy(a, latest[a])] :
     latest \in {f \in [Names(Roster) -> 0 .. Len(runs)] : \A a \in Names(Roster) : f[a] \in Latest(a)}}

-----------------------------------------------------------------------------
(***************************************************************************)
(* _transition: the runner changes its copy and writes it whole, run and   *)
(* spec, over whatever the rows say by then. A run it does not hold is     *)
(* read from its row first.                                                *)
(***************************************************************************)
Held(i) == IF i \in active THEN runs[i].mem ELSE runs[i].row

After(i, state) ==
  [Held(i) EXCEPT !.status = state,
                  !.start = IF state = "WORKING" THEN clock + 1 ELSE @,
                  !.output = @ \/ state \in WithOutput]

Transition(i, state) ==
  /\ runs' = [runs EXCEPT ![i].row = After(i, state), ![i].mem = After(i, state)]
  /\ agents' = [agents EXCEPT ![runs[i].agent] = state]

Over(i) == Held(i).status \in TERMINAL_RUN_STATES

(***************************************************************************)
(* Who calls run_swarm is outside the code: it is taken to hand over the   *)
(* mission as it is while RESEARCH_RUNNING and some agents that have not   *)
(* begun. From there on the call looks at neither the mission's status nor *)
(* its specification again. Its runs are created one after the other ...   *)
(***************************************************************************)
SwarmBegins ==
  /\ status = "RESEARCH_RUNNING" /\ coming = NoSwarm
  /\ \E team \in SUBSET {a \in Names(Roster) : agents[a] = "READY"} :
       /\ team # {} /\ Len(runs) + Cardinality(team) <= MaxRuns
       /\ coming' = [first |-> Len(runs) + 1, given |-> [a \in team |-> Given(spec.values)]]
  /\ UNCHANGED <<agents, runs, active, clock>>

Others(f, a) == [b \in DOMAIN f \ {a} |-> f[b]]

CreateRun ==
  /\ \E a \in DOMAIN coming.given :
       /\ runs' = Append(runs, Launched(a, coming.first, coming.given[a], NewRow))
       /\ coming' = IF DOMAIN coming.given = {a} THEN NoSwarm
                    ELSE [coming EXCEPT !.given = Others(@, a)]
  /\ active' = active \cup {Len(runs) + 1}
  /\ UNCHANGED <<agents, clock>>

(***************************************************************************)
(* ... go to READY or wait for their dependencies ...                      *)
(***************************************************************************)
Prepare ==
  /\ \E i \in active : Held(i).status = "READY" /\ Transition(i, "READY")
  /\ UNCHANGED <<active, clock, coming>>

(***************************************************************************)
(* ... begin, at once or whenever what they depend on is complete ...      *)
(***************************************************************************)
AgentStarts ==
  /\ \E i \in active : Held(i).status = "READY" /\ Transition(i, "WORKING")
  /\ clock' = clock + 1
  /\ UNCHANGED <<active, coming>>

(***************************************************************************)
(* ... and end, some without having begun: an invalid schema, or a         *)
(* dependency that failed.                                                 *)
(***************************************************************************)
AgentEnds ==
  /\ \E i \in active :
       \/ /\ Held(i).status = "WORKING"
          /\ \E state \in {"WAITING_FOR_CALL", "COMPLETE", "FAILED"} : Transition(i, state)
       \/ /\ Held(i).status = "READY"
          /\ \E state \in {"FAILED", "BLOCKED"} : Transition(i, state)
  /\ UNCHANGED <<active, clock, coming>>

(***************************************************************************)
(* run_swarm returns when none of its agents is at work, also when some    *)
(* wait for one that waits for a call, and the runner forgets its runs.    *)
(***************************************************************************)
SwarmReturns ==
  /\ \E first \in {runs[i].swarm : i \in active} :
       LET team == {i \in active : runs[i].swarm = first}
       IN  /\ first # coming.first
           /\ \A i \in team : Held(i).status # "WORKING"
           /\ active' = active \ team
  /\ UNCHANGED <<agents, runs, clock, coming>>

Swarms ==
  /\ SwarmBegins \/ CreateRun \/ Prepare \/ AgentStarts \/ AgentEnds \/ SwarmReturns
  /\ UNCHANGED <<status, spec>>

-----------------------------------------------------------------------------
(***************************************************************************)
(* A team of the first of the roster, each at work or done under the       *)
(* constraints the mission begins with.                                    *)
(***************************************************************************)
FirstRow(state, n) == [status |-> state, start |-> n, output |-> state = "COMPLETE", stale |-> FALSE]

SwarmInit ==
  /\ spec = FirstSpec
  /\ \E n \in 1 .. Len(Roster) :
       /\ agents \in [Names(Roster) -> {"absent", "COMPLETE", "WORKING"}]
       /\ \A i \in DOMAIN Roster : agents[Roster[i].name] = "absent" <=> i > n
       /\ runs = [i \in 1 .. n |-> Launched(Roster[i].name, 1, Given(spec.values),
                                            FirstRow(agents[Roster[i].name], i))]
       /\ active = 1 .. n /\ clock = n
  /\ coming = NoSwarm

SwarmTypeOK ==
  /\ status \in MissionStatus /\ spec \in Specs
  /\ agents \in [Names(Roster) -> AgentState \cup {"absent"}]
  /\ \A i \in DOMAIN runs :
       /\ runs[i].agent \in Names(Roster) /\ runs[i].swarm \in 1 .. i
       /\ runs[i].row \in RunRow /\ runs[i].mem \in RunRow
       /\ runs[i].row.start <= clock
  /\ active \subseteq DOMAIN runs /\ clock \in Nat
  /\ DOMAIN coming.given \subseteq Names(Roster)

(***************************************************************************)
(* A run that is on record as ended is not at work, nor about to be.       *)
(***************************************************************************)
EndedIsOver ==
  \A i \in DOMAIN runs : runs[i].row.status \in TERMINAL_RUN_STATES => Over(i)
==============================================================================
