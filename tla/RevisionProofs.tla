--------------------------- MODULE RevisionProofs ----------------------------
(***************************************************************************)
(* Theorems about the replan loop and the revisions, for any roster, any   *)
(* strategies, any proposals, changes and constraints, any limits, any     *)
(* number of runs and calls of run_swarm, and any number of triggers and   *)
(* requests cut off.                                                       *)
(*                                                                         *)
(* A decision is applied in several sessions over rows loaded before, and  *)
(* a revision is written from rows copied before, while agents go on, so   *)
(* the invariant says what both local states still have to do with the     *)
(* rows: Typed with what copies stand for (Traced), where decide stands    *)
(* (Placed), what its decisions name (Named) and what it owes the plans    *)
(* (Owed).                                                                 *)
(***************************************************************************)
EXTENDS Revision, TLAPS, SequenceTheorems, FiniteSetTheorems

RowState == AgentState \cup {"absent"}
GivenRow == [values : {s.values : s \in Specs}, excuses : SUBSET {"locked", "unfinished"}]
AgentRun ==
  [agent : Names(Roster), swarm : Nat, given : GivenRow, row : RunRow, mem : RunRow]
Rows == [Names(Roster) -> [state : RowState, id : Nat, row : RunRow]]

Direct == IN_PLACE_ACTIONS \cup {"RERUN_AGENT", "CREATE_SPECIALIST"}
Moving == {"RERUN_AGENT", "CREATE_SPECIALIST", "RESEARCH_PASS", "CALL_ROUND", "PROCEED_TO_OPTIMIZATION"}

DecisionRow ==
  [action : IN_PLACE_ACTIONS \cup Moving, target : Names(Roster) \cup Strategies \cup {Mission},
   forced : BOOLEAN]

CreatedState == [pc : {"moving", "readying", "staling"}, round : Nat, created : Names(Roster)]
LoadedState ==
  [pc : {"choosing"} \cup Direct, round : Nat, loaded : Rows]
  \cup [pc : {"stopping"}, round : Nat, loaded : Rows, left : SUBSET Names(Roster)]
DeciderState == LoadedState \cup [pc : {"moving", "staling"}, round : Nat] \cup CreatedState

Copied ==
  [pc : {"moving", "writing"}, change : Changes, spec : Specs, copies : Rows, finished : SUBSET Nat,
   late : BOOLEAN]

(***************************************************************************)
(* The runner is done with a run: it does not hold it, or has ended it.    *)
(***************************************************************************)
Ended(i) == i \in active => runs[i].mem.status \in TERMINAL_RUN_STATES

ComingTyped ==
  \/ coming = NoSwarm
  \/ /\ coming.first \in 1 .. Len(runs) + 1
     /\ coming = [first |-> coming.first, given |-> coming.given]
     /\ DOMAIN coming.given \subseteq Names(Roster)
     /\ coming.given \in [DOMAIN coming.given -> GivenRow]

SwarmTyped ==
  /\ agents \in [Names(Roster) -> RowState]
  /\ runs \in Seq(AgentRun) /\ active \subseteq DOMAIN runs /\ clock \in Nat
  /\ \A i \in DOMAIN runs :
       /\ runs[i].row.start <= clock /\ runs[i].mem.start <= clock /\ runs[i].swarm \in 1 .. i
       /\ runs[i].row.status \in TERMINAL_RUN_STATES => Ended(i)
  /\ ComingTyped

(***************************************************************************)
(* A copy is of a run of its agent, and one copied as ended stays ended.   *)
(***************************************************************************)
Traced(copies) ==
  \A a \in Names(Roster) :
    LET copy == copies[a]
    IN  copy.id # 0 =>
          /\ copy.id \in DOMAIN runs /\ runs[copy.id].agent = a /\ copy.row.start <= clock
          /\ copy.row.status \in TERMINAL_RUN_STATES => Ended(copy.id)

Loading == decider \in LoadedState
Revising == reviser \in Copied

LoopTyped ==
  /\ status \in MissionStatus /\ spec \in Specs
  /\ strategies \in [Strategies -> StrategyStatus] /\ staleStrategies \subseteq Strategies
  /\ plans \in {"none", "fresh", "stale"}
  /\ decisions \in Seq(DecisionRow)
  /\ decider \in DeciderState \cup {Idle}
  /\ reviser \in Copied \cup {[pc |-> "ending"], Idle}

Typed ==
  /\ SwarmTyped /\ LoopTyped
  /\ Loading => Traced(decider.loaded)
  /\ Revising => Traced(reviser.copies)

(***************************************************************************)
(* The decision in hand is the last one on record, and is the one that is  *)
(* being applied.                                                          *)
(***************************************************************************)
Hiring == decider.pc \in {"moving", "readying"} /\ Decision.action = "CREATE_SPECIALIST"

Placed ==
  /\ decider.pc \in Direct \cup {"moving", "readying"} => decisions # <<>>
  /\ decider.pc \in Direct => Decision.action = decider.pc
  /\ decider.pc \in {"STOP_AGENT", "RERUN_AGENT"} => Decision.target \in Names(Roster)
  /\ decider.pc \in {"PRUNE_STRATEGY", "REVIVE_STRATEGY"} => Decision.target \in Strategies
  /\ decider.pc = "moving" => Decision.action \in Moving
  /\ decider.pc = "readying" => Decision.action = "CREATE_SPECIALIST"
  /\ Hiring => decider \in CreatedState

RevInd == Typed /\ Placed

-----------------------------------------------------------------------------
(***************************************************************************)
(* What becomes of the runs in a step: none is lost or changes hands, the  *)
(* clock goes on, and an ended run stays ended.                            *)
(***************************************************************************)
Keeps ==
  /\ DOMAIN runs \subseteq DOMAIN runs' /\ clock <= clock'
  /\ \A i \in DOMAIN runs : runs'[i].agent = runs[i].agent /\ (Ended(i) => Ended(i)')

LEMMA TracedStays ==
  ASSUME NEW copies \in Rows, Traced(copies), Keeps, clock \in Nat, clock' \in Nat
  PROVE  Traced(copies)'
<1> SUFFICES ASSUME NEW a \in Names(Roster), copies[a].id # 0
             PROVE  /\ copies[a].id \in DOMAIN runs' /\ runs'[copies[a].id].agent = a
                    /\ copies[a].row.start <= clock'
                    /\ copies[a].row.status \in TERMINAL_RUN_STATES => Ended(copies[a].id)'
  BY DEF Traced
<1>1. copies[a].row.start \in Nat
  BY DEF Rows, RunRow
<1> QED
  BY <1>1 DEF Traced, Keeps

(***************************************************************************)
(* A session's copies are known.                                           *)
(***************************************************************************)
LEMMA CopiesTraced ==
  ASSUME SwarmTyped, NEW copies \in Copies
  PROVE  copies \in Rows /\ Traced(copies)
<1>1. runs \in Seq(AgentRun) /\ DOMAIN runs = 1 .. Len(runs) /\ Len(runs) \in Nat
  BY LenProperties DEF SwarmTyped
<1>2. PICK latest \in [Names(Roster) -> 0 .. Len(runs)] :
        /\ \A a \in Names(Roster) : latest[a] \in Latest(a)
        /\ copies = [a \in Names(Roster) |-> Copy(a, latest[a])]
  BY DEF Copies
<1>3. ASSUME NEW a \in Names(Roster)
      PROVE  /\ Copy(a, latest[a]) \in [state : RowState, id : Nat, row : RunRow]
             /\ Copy(a, latest[a]).id = latest[a]
             /\ latest[a] # 0 => /\ latest[a] \in DOMAIN runs /\ runs[latest[a]].agent = a
                                 /\ Copy(a, latest[a]).row = runs[latest[a]].row
  <2>1. latest[a] \in 0 .. Len(runs) /\ latest[a] \in Latest(a)
    BY <1>2
  <2>2. latest[a] # 0 => latest[a] \in DOMAIN runs
    BY <1>1, <2>1
  <2>3. latest[a] # 0 => latest[a] \in RunsOf(a)
    BY <2>1 DEF Latest
  <2>4. latest[a] # 0 => runs[latest[a]] \in AgentRun
    BY <1>1, <2>2
  <2>5. NewRow \in RunRow /\ (latest[a] # 0 => runs[latest[a]].row \in RunRow)
    BY <2>4 DEF NewRow, RunRow, AgentState, AgentRun
  <2>6. agents[a] \in RowState
    BY DEF SwarmTyped
  <2> QED
    BY <1>1, <2>1, <2>2, <2>3, <2>5, <2>6 DEF Copy, RunsOf
<1>4. copies \in Rows
  BY <1>2, <1>3 DEF Rows
<1>5. \A a \in Names(Roster) : latest[a] # 0 =>
        /\ runs[latest[a]].row.start <= clock
        /\ runs[latest[a]].row.status \in TERMINAL_RUN_STATES => Ended(latest[a])
  BY <1>3 DEF SwarmTyped
<1> QED
  BY <1>2, <1>3, <1>4, <1>5 DEF Traced

LEMMA Replaced ==
  ASSUME NEW S, NEW s \in Seq(S), NEW i \in DOMAIN s, NEW e \in S, NEW t, t = [s EXCEPT ![i] = e]
  PROVE  /\ t \in Seq(S) /\ Len(t) = Len(s) /\ DOMAIN t = DOMAIN s
         /\ t[i] = e /\ \A j \in DOMAIN s \ {i} : t[j] = s[j]
BY ExceptSeq, LenProperties

LEMMA RunAt ==
  ASSUME SwarmTyped, NEW i \in DOMAIN runs
  PROVE  /\ runs[i] \in AgentRun /\ runs[i].row \in RunRow /\ runs[i].mem \in RunRow
         /\ runs[i].agent \in Names(Roster) /\ runs[i].given \in GivenRow
         /\ runs[i].row.start \in Nat /\ runs[i].mem.start \in Nat /\ i \in Nat
<1>1. runs[i] \in AgentRun /\ i \in Nat
  BY ElementOfSeq, LenProperties DEF SwarmTyped
<1> QED
  BY <1>1 DEF AgentRun, RunRow

(***************************************************************************)
(* A run is written: its row, and the runner's copy or not.                *)
(***************************************************************************)
LEMMA RunWritten ==
  ASSUME SwarmTyped, NEW i \in DOMAIN runs, NEW run \in AgentRun,
         run.agent = runs[i].agent, run.swarm = runs[i].swarm,
         run.row.start <= clock', run.mem.start <= clock', clock' \in Nat, clock <= clock',
         i \in active =>
           (Ended(i) \/ run.row.status \in TERMINAL_RUN_STATES
              => run.mem.status \in TERMINAL_RUN_STATES),
         runs' = [runs EXCEPT ![i] = run],
         UNCHANGED <<active, coming>>, agents' \in [Names(Roster) -> RowState]
  PROVE  SwarmTyped' /\ Keeps
<1>1. runs \in Seq(AgentRun) /\ clock \in Nat
  BY DEF SwarmTyped
<1>2. /\ runs' \in Seq(AgentRun) /\ Len(runs') = Len(runs) /\ DOMAIN runs' = DOMAIN runs
      /\ runs'[i] = run /\ \A j \in DOMAIN runs \ {i} : runs'[j] = runs[j]
  BY <1>1, Replaced
<1>3. ASSUME NEW j \in DOMAIN runs PROVE Ended(j) => Ended(j)'
  BY <1>2 DEF Ended
<1>4. ASSUME NEW j \in DOMAIN runs
      PROVE  /\ runs'[j].row.start <= clock' /\ runs'[j].mem.start <= clock'
             /\ runs'[j].swarm \in 1 .. j
             /\ runs'[j].row.status \in TERMINAL_RUN_STATES => Ended(j)'
  <2>1. CASE j = i
    <3>1. runs'[i].row.status \in TERMINAL_RUN_STATES => Ended(i)'
      BY <1>2 DEF Ended
    <3>2. runs[i].swarm \in 1 .. i
      BY DEF SwarmTyped
    <3> QED
      BY <1>2, <2>1, <3>1, <3>2
  <2>2. CASE j # i
    <3>1. runs'[j] = runs[j]
      BY <1>2, <2>2
    <3>2. runs[j].row.start \in Nat /\ runs[j].mem.start \in Nat
      BY RunAt
    <3>3. runs[j].row.start <= clock /\ runs[j].mem.start <= clock
      BY DEF SwarmTyped
    <3>4. runs'[j].row.start <= clock' /\ runs'[j].mem.start <= clock'
      BY <1>1, <3>1, <3>2, <3>3
    <3> QED
      BY <1>3, <3>1, <3>4 DEF SwarmTyped
  <2> QED
    BY <2>1, <2>2
<1>5. ComingTyped'
  BY <1>2 DEF SwarmTyped, ComingTyped
<1> QED
  BY <1>1, <1>2, <1>3, <1>4, <1>5 DEF SwarmTyped, Keeps

(***************************************************************************)
(* What the runner writes, and what is written back of a copy.             *)
(***************************************************************************)
Went(i, state) == [runs[i] EXCEPT !.row = After(i, state), !.mem = After(i, state)]
WithRow(i, row) == [runs[i] EXCEPT !.row = row]

LEMMA TransitionForm ==
  ASSUME SwarmTyped, NEW i \in DOMAIN runs, NEW state \in AgentState, Transition(i, state)
  PROVE  /\ Went(i, state) \in AgentRun /\ runs' = [runs EXCEPT ![i] = Went(i, state)]
         /\ Went(i, state).agent = runs[i].agent /\ Went(i, state).swarm = runs[i].swarm
         /\ Went(i, state).given = runs[i].given
         /\ Went(i, state).row = After(i, state) /\ Went(i, state).mem = After(i, state)
         /\ After(i, state) \in RunRow /\ After(i, state).status = state
         /\ After(i, state).start = IF state = "WORKING" THEN clock + 1 ELSE Held(i).start
         /\ After(i, state).stale = Held(i).stale
         /\ After(i, state).output = (Held(i).output \/ state \in WithOutput)
         /\ agents' \in [Names(Roster) -> RowState]
<1>1. runs[i] \in AgentRun /\ Held(i) \in RunRow /\ clock \in Nat
  BY RunAt DEF Held, SwarmTyped
<1> DEFINE start == IF state = "WORKING" THEN clock + 1 ELSE Held(i).start
           output == Held(i).output \/ state \in WithOutput
<1>2. start \in Nat /\ output \in BOOLEAN
  BY <1>1 DEF RunRow
<1>3. /\ After(i, state) \in RunRow /\ After(i, state).status = state
      /\ After(i, state).start = start /\ After(i, state).stale = Held(i).stale
      /\ After(i, state).output = output
  <2>1. After(i, state) = [Held(i) EXCEPT !.status = state, !.start = start, !.output = output]
    BY <1>1 DEF After, RunRow
  <2> HIDE DEF start, output
  <2> QED
    BY <1>1, <1>2, <2>1 DEF RunRow
<1>4. /\ Went(i, state) \in AgentRun
      /\ Went(i, state).agent = runs[i].agent /\ Went(i, state).swarm = runs[i].swarm
      /\ Went(i, state).given = runs[i].given
      /\ Went(i, state).row = After(i, state) /\ Went(i, state).mem = After(i, state)
  BY <1>1, <1>3 DEF Went, AgentRun
<1>5. runs' = [runs EXCEPT ![i] = Went(i, state)]
  BY <1>1 DEF Transition, Went, AgentRun
<1>6. agents' \in [Names(Roster) -> RowState]
  BY DEF Transition, SwarmTyped, RowState
<1> QED
  BY <1>3, <1>4, <1>5, <1>6

LEMMA RowForm ==
  ASSUME SwarmTyped, NEW i \in DOMAIN runs, NEW row \in RunRow, runs' = [runs EXCEPT ![i].row = row]
  PROVE  /\ WithRow(i, row) \in AgentRun /\ runs' = [runs EXCEPT ![i] = WithRow(i, row)]
         /\ WithRow(i, row).agent = runs[i].agent /\ WithRow(i, row).swarm = runs[i].swarm
         /\ WithRow(i, row).given = runs[i].given
         /\ WithRow(i, row).row = row /\ WithRow(i, row).mem = runs[i].mem
<1>1. runs[i] \in AgentRun
  BY RunAt
<1> QED
  BY <1>1 DEF WithRow, AgentRun

LEMMA RowWritten ==
  ASSUME SwarmTyped, NEW i \in DOMAIN runs, NEW row \in RunRow, row.start <= clock,
         row.status \in TERMINAL_RUN_STATES => Ended(i), runs' = [runs EXCEPT ![i].row = row],
         UNCHANGED <<active, clock, coming>>, agents' \in [Names(Roster) -> RowState]
  PROVE  SwarmTyped' /\ Keeps
<1> DEFINE run == WithRow(i, row)
<1>1. /\ run \in AgentRun /\ runs' = [runs EXCEPT ![i] = run]
      /\ run.agent = runs[i].agent /\ run.swarm = runs[i].swarm
      /\ run.row = row /\ run.mem = runs[i].mem
  BY RowForm
<1>2. clock' = clock /\ clock \in Nat /\ runs[i].mem.start <= clock
  BY DEF SwarmTyped
<1>3. i \in active =>
        (Ended(i) \/ run.row.status \in TERMINAL_RUN_STATES => run.mem.status \in TERMINAL_RUN_STATES)
  BY <1>1 DEF Ended
<1> HIDE DEF run
<1>4. run.row.start <= clock' /\ run.mem.start <= clock' /\ clock' \in Nat /\ clock <= clock'
  BY <1>1, <1>2
<1> QED
  BY <1>1, <1>3, <1>4, RunWritten

(***************************************************************************)
(* The runner's own steps.                                                 *)
(***************************************************************************)
LEMMA SwarmStep ==
  ASSUME SwarmTyped, spec \in Specs, Swarms
  PROVE  SwarmTyped' /\ Keeps
<1>1. /\ runs \in Seq(AgentRun) /\ DOMAIN runs = 1 .. Len(runs) /\ Len(runs) \in Nat /\ clock \in Nat
      /\ active \subseteq DOMAIN runs
  BY LenProperties DEF SwarmTyped
<1>2. ASSUME SwarmBegins PROVE SwarmTyped' /\ Keeps
  <2>1. PICK team \in SUBSET {a \in Names(Roster) : agents[a] = "READY"} :
          coming' = [first |-> Len(runs) + 1, given |-> [a \in team |-> Given(spec.values)]]
    BY <1>2 DEF SwarmBegins
  <2>2. Given(spec.values) \in GivenRow
    BY DEF Given, GivenRow
  <2>3. UNCHANGED <<agents, runs, active, clock>>
    BY <1>2 DEF SwarmBegins
  <2>4. /\ coming'.first = Len(runs) + 1
        /\ coming'.given = [a \in team |-> Given(spec.values)]
        /\ coming' = [first |-> coming'.first, given |-> coming'.given]
    BY <2>1
  <2>5. /\ DOMAIN coming'.given = team /\ team \subseteq Names(Roster)
        /\ coming'.given \in [team -> GivenRow]
    BY <2>1, <2>2, <2>4
  <2>6. ComingTyped'
    BY <1>1, <2>3, <2>4, <2>5 DEF ComingTyped
  <2> QED
    BY <1>1, <2>3, <2>6 DEF SwarmTyped, Keeps, Ended
<1>3. ASSUME CreateRun PROVE SwarmTyped' /\ Keeps
  <2> DEFINE n == Len(runs) + 1
  <2>1. PICK a \in DOMAIN coming.given :
          /\ runs' = Append(runs, Launched(a, coming.first, coming.given[a], NewRow))
          /\ coming' = IF DOMAIN coming.given = {a} THEN NoSwarm
                       ELSE [coming EXCEPT !.given = Others(@, a)]
    BY <1>3 DEF CreateRun
  <2>2. active' = active \cup {n} /\ UNCHANGED <<agents, clock>>
    BY <1>3 DEF CreateRun
  <2>3. coming # NoSwarm
    BY <2>1 DEF NoSwarm
  <2>4. /\ coming.first \in 1 .. n /\ DOMAIN coming.given \subseteq Names(Roster)
        /\ coming = [first |-> coming.first, given |-> coming.given]
        /\ coming.given \in [DOMAIN coming.given -> GivenRow]
    BY <2>3 DEF SwarmTyped, ComingTyped
  <2> DEFINE run == Launched(a, coming.first, coming.given[a], NewRow)
  <2>5. NewRow \in RunRow /\ NewRow.start = 0 /\ NewRow.status = "READY"
    BY DEF NewRow, RunRow, AgentState
  <2>6. coming.given[a] \in GivenRow /\ a \in Names(Roster) /\ coming.first \in Nat
    BY <1>1, <2>1, <2>4
  <2>7. /\ run \in AgentRun /\ run.row = NewRow /\ run.mem = NewRow /\ run.swarm = coming.first
    BY <2>5, <2>6 DEF Launched, AgentRun
  <2> HIDE DEF run
  <2>8. /\ runs' \in Seq(AgentRun) /\ Len(runs') = n /\ DOMAIN runs' = 1 .. n
        /\ runs'[n] = run /\ \A j \in DOMAIN runs : runs'[j] = runs[j]
    BY <1>1, <2>1, <2>7, AppendProperties, LenProperties DEF run
  <2>9. n \notin DOMAIN runs /\ DOMAIN runs \subseteq DOMAIN runs' /\ n \in DOMAIN runs'
    BY <1>1, <2>8
  <2>10. \A j \in DOMAIN runs : Ended(j) => Ended(j)'
    BY <2>2, <2>8, <2>9 DEF Ended
  <2>11. ASSUME NEW j \in DOMAIN runs'
         PROVE  /\ runs'[j].row.start <= clock' /\ runs'[j].mem.start <= clock'
                /\ runs'[j].swarm \in 1 .. j
                /\ runs'[j].row.status \in TERMINAL_RUN_STATES => Ended(j)'
    <3>1. CASE j \in DOMAIN runs
      <4>1. runs'[j] = runs[j]
        BY <2>8, <3>1
      <4> QED
        BY <2>2, <2>10, <3>1, <4>1 DEF SwarmTyped
    <3>2. CASE j = n
      BY <1>1, <2>2, <2>4, <2>5, <2>7, <2>8, <3>2 DEF TERMINAL_RUN_STATES
    <3> QED
      BY <1>1, <2>8, <3>1, <3>2
  <2>12. ComingTyped'
    <3>1. CASE DOMAIN coming.given = {a}
      BY <2>1, <3>1 DEF ComingTyped
    <3>2. CASE DOMAIN coming.given # {a}
      <4> DEFINE rest == Others(coming.given, a)
      <4>1. rest \in [DOMAIN coming.given \ {a} -> GivenRow] /\ DOMAIN rest = DOMAIN coming.given \ {a}
        BY <2>4 DEF Others
      <4>2. coming' = [first |-> coming.first, given |-> rest]
        BY <2>1, <2>4, <3>2
      <4> HIDE DEF rest
      <4>3. coming'.first = coming.first /\ coming'.given = rest
        BY <4>2
      <4>4. coming'.first \in 1 .. Len(runs') + 1
        BY <1>1, <2>4, <2>8, <4>3
      <4> QED
        BY <2>4, <4>1, <4>2, <4>3, <4>4 DEF ComingTyped
    <3> QED
      BY <3>1, <3>2
  <2>13. active' \subseteq DOMAIN runs'
    BY <1>1, <2>2, <2>9
  <2>14. Keeps
    <3>1. clock <= clock'
      BY <1>1, <2>2
    <3> QED
      BY <2>8, <2>9, <2>10, <3>1 DEF Keeps
  <2>15. agents' \in [Names(Roster) -> RowState] /\ clock' \in Nat
    BY <1>1, <2>2 DEF SwarmTyped
  <2> QED
    BY <2>8, <2>11, <2>12, <2>13, <2>14, <2>15 DEF SwarmTyped
<1>4. ASSUME NEW i \in active, NEW state \in AgentState, Transition(i, state),
             Held(i).status \in {"READY", "WORKING"},
             clock' = IF state = "WORKING" THEN clock + 1 ELSE clock, UNCHANGED <<active, coming>>
      PROVE  SwarmTyped' /\ Keeps
  <2>1. i \in DOMAIN runs /\ Held(i) = runs[i].mem
    BY <1>1 DEF Held
  <2>2. ~Ended(i)
    BY <1>4, <2>1 DEF Ended, TERMINAL_RUN_STATES
  <2>3. runs[i].mem.start <= clock /\ runs[i].mem.start \in Nat
    BY <2>1, RunAt DEF SwarmTyped
  <2>4. After(i, state).start <= clock' /\ clock' \in Nat /\ clock <= clock'
    BY <1>1, <1>4, <2>1, <2>3, TransitionForm
  <2> QED
    BY <1>4, <2>1, <2>2, <2>4, TransitionForm, RunWritten
<1>5. ASSUME Prepare PROVE SwarmTyped' /\ Keeps
  <2>1. PICK i \in active : Held(i).status = "READY" /\ Transition(i, "READY")
    BY <1>5 DEF Prepare
  <2> QED
    BY <1>4, <1>5, <2>1 DEF Prepare, AgentState
<1>6. ASSUME AgentStarts PROVE SwarmTyped' /\ Keeps
  <2>1. PICK i \in active : Held(i).status = "READY" /\ Transition(i, "WORKING")
    BY <1>6 DEF AgentStarts
  <2> QED
    BY <1>4, <1>6, <2>1 DEF AgentStarts, AgentState
<1>7. ASSUME AgentEnds PROVE SwarmTyped' /\ Keeps
  <2>1. PICK i \in active, state \in {"WAITING_FOR_CALL", "COMPLETE", "FAILED", "BLOCKED"} :
          Held(i).status \in {"READY", "WORKING"} /\ Transition(i, state)
    BY <1>7 DEF AgentEnds
  <2> QED
    BY <1>4, <1>7, <2>1 DEF AgentEnds, AgentState
<1>8. ASSUME SwarmReturns PROVE SwarmTyped' /\ Keeps
  <2>1. active' \subseteq active /\ UNCHANGED <<agents, runs, clock, coming>>
    BY <1>8 DEF SwarmReturns
  <2>2. ComingTyped'
    BY <2>1 DEF SwarmTyped, ComingTyped
  <2>3. \A j \in DOMAIN runs : Ended(j) => Ended(j)'
    BY <2>1 DEF Ended
  <2> QED
    BY <1>1, <2>1, <2>2, <2>3 DEF SwarmTyped, Keeps
<1> QED
  BY <1>2, <1>3, <1>5, <1>6, <1>7, <1>8 DEF Swarms

(***************************************************************************)
(* What decide and a revision write.                                       *)
(***************************************************************************)
LEMMA StoppedStep ==
  ASSUME SwarmTyped, Loading, Traced(decider.loaded), NEW a \in Names(Roster), Stopped(a), ~Raises(a),
         UNCHANGED <<active, clock, coming>>
  PROVE  SwarmTyped' /\ Keeps
<1> DEFINE copy == decider.loaded[a]
<1>1. copy \in [state : RowState, id : Nat, row : RunRow] /\ clock \in Nat
  BY DEF Loading, LoadedState, Rows, SwarmTyped
<1>2. copy.id # 0 => /\ copy.id \in DOMAIN runs /\ runs[copy.id].agent = a /\ copy.row.start <= clock
                     /\ copy.row.status \in TERMINAL_RUN_STATES => Ended(copy.id)
  BY DEF Traced
<1>3. CASE Goer(copy)
  <2>1. copy.id \in DOMAIN runs /\ Transition(copy.id, "STOPPED")
    BY <1>2, <1>3 DEF Stopped, StopRun, Goer
  <2>2. Held(copy.id).start <= clock
    BY <2>1 DEF Held, SwarmTyped
  <2>3. "STOPPED" \in AgentState /\ "STOPPED" \in TERMINAL_RUN_STATES
    BY DEF AgentState, TERMINAL_RUN_STATES
  <2>4. clock' \in Nat /\ clock <= clock' /\ clock' = clock
    BY <1>1
  <2> QED
    BY <2>1, <2>2, <2>3, <2>4, TransitionForm, RunWritten
<1>4. CASE ~Goer(copy)
  <2>1. agents' = [agents EXCEPT ![a] = "STOPPED"] /\ WriteBack(copy, copy.row)
    BY <1>4 DEF Stopped
  <2>2. agents' \in [Names(Roster) -> RowState]
    BY <2>1 DEF SwarmTyped, RowState, AgentState
  <2>3. CASE copy.id = 0
    <3>1. UNCHANGED runs
      BY <2>1, <2>3 DEF WriteBack
    <3> QED
      BY <1>1, <2>2, <3>1 DEF SwarmTyped, ComingTyped, Ended, Keeps
  <2>4. CASE copy.id # 0
    <3>1. copy.row.status \in TERMINAL_RUN_STATES
      BY <1>4, <2>4 DEF Goer
    <3>2. /\ copy.row \in RunRow /\ copy.id \in DOMAIN runs /\ Ended(copy.id)
          /\ runs' = [runs EXCEPT ![copy.id].row = copy.row]
      BY <1>1, <1>2, <2>1, <2>4, <3>1 DEF WriteBack
    <3> QED
      BY <1>2, <2>2, <2>4, <3>2, RowWritten
  <2> QED
    BY <2>3, <2>4
<1> QED
  BY <1>3, <1>4

LEMMA RequeuedStep ==
  ASSUME SwarmTyped, Loading, Traced(decider.loaded), NEW a \in Names(Roster), Requeued(a),
         UNCHANGED <<active, clock, coming>>
  PROVE  SwarmTyped' /\ Keeps
<1> DEFINE copy == decider.loaded[a]
           row == [copy.row EXCEPT !.stale = TRUE]
<1>1. copy \in [state : RowState, id : Nat, row : RunRow] /\ clock \in Nat
  BY DEF Loading, LoadedState, Rows, SwarmTyped
<1>2. copy.id # 0 => /\ copy.id \in DOMAIN runs /\ runs[copy.id].agent = a /\ copy.row.start <= clock
                     /\ copy.row.status \in TERMINAL_RUN_STATES => Ended(copy.id)
  BY DEF Traced
<1>3. row \in RunRow /\ row.start = copy.row.start /\ row.status = copy.row.status
  BY <1>1 DEF RunRow
<1>4. agents' \in [Names(Roster) -> RowState]
  BY DEF Requeued, SwarmTyped, RowState, AgentState
<1>5. CASE UNCHANGED runs
  BY <1>1, <1>4, <1>5 DEF SwarmTyped, ComingTyped, Ended, Keeps
<1>6. CASE runs' # runs
  <2>1. copy.id # 0 /\ runs' = [runs EXCEPT ![copy.id].row = row]
    BY <1>6 DEF Requeued, WriteBack
  <2> HIDE DEF row
  <2>2. copy.id \in DOMAIN runs
    BY <1>2, <2>1
  <2>3. row.start <= clock /\ (row.status \in TERMINAL_RUN_STATES => Ended(copy.id))
    BY <1>2, <1>3, <2>1
  <2> QED
    BY <1>3, <1>4, <2>1, <2>2, <2>3, RowWritten
<1> QED
  BY <1>5, <1>6

(***************************************************************************)
(* A run is marked only by the copy of its own agent.                      *)
(***************************************************************************)
LEMMA MarkedRun ==
  ASSUME SwarmTyped, Revising, Traced(reviser.copies), NEW redone \in SUBSET Names(Roster),
         NEW i \in DOMAIN runs, i \in Marked(redone)
  PROVE  LET a == runs[i].agent
         IN  a \in redone /\ reviser.copies[a].id = i /\ Marks(reviser.copies[a])
<1>1. PICK a \in redone : reviser.copies[a].id = i /\ Marks(reviser.copies[a])
  BY DEF Marked
<1>2. i # 0
  BY RunAt, LenProperties DEF SwarmTyped
<1>3. runs[i].agent = a
  BY <1>1, <1>2 DEF Traced
<1> QED
  BY <1>1, <1>3

Spoiled(row) == [row EXCEPT !.stale = TRUE]

LEMMA SpoiledRow ==
  ASSUME NEW row \in RunRow
  PROVE  /\ Spoiled(row) \in RunRow /\ Spoiled(row).stale = TRUE
         /\ Spoiled(row).status = row.status /\ Spoiled(row).start = row.start
         /\ Spoiled(row).output = row.output
BY DEF Spoiled, RunRow

WhyPassed(i, dependents, spared) ==
  Excuses(runs[i].agent, i \in reviser.finished, dependents, spared)

RowRevised(row, i, dependents, spared) ==
  LET copy == reviser.copies[runs[i].agent]
  IN  IF i \in Marked(dependents \ spared) THEN copy.id = i /\ row = Spoiled(copy.row)
      ELSE row = runs[i].row

LEMMA RevisedRunForm ==
  ASSUME SwarmTyped, Revising, Traced(reviser.copies), NEW i \in DOMAIN runs,
         NEW dependents \in SUBSET Names(Roster), NEW spared,
         NEW run, run = RevisedRun(i, dependents, spared)
  PROVE  /\ run \in AgentRun /\ run.agent = runs[i].agent /\ run.swarm = runs[i].swarm
         /\ run.mem = runs[i].mem
         /\ run.given = Passed(runs[i].given, WhyPassed(i, dependents, spared))
         /\ RowRevised(run.row, i, dependents, spared)
<1> DEFINE a == runs[i].agent
           copy == reviser.copies[a]
           row == IF i \in Marked(dependents \ spared) THEN [copy.row EXCEPT !.stale = TRUE]
                  ELSE runs[i].row
           given == Passed(runs[i].given, Excuses(a, i \in reviser.finished, dependents, spared))
<1>1. runs[i] \in AgentRun /\ a \in Names(Roster) /\ runs[i].row \in RunRow /\ runs[i].given \in GivenRow
  BY RunAt
<1>2. copy.row \in RunRow
  BY <1>1 DEF Revising, Copied, Rows
<1>3. row \in RunRow
  BY <1>1, <1>2 DEF RunRow
<1>4. given \in GivenRow
  <2>1. Excuses(a, i \in reviser.finished, dependents, spared) \subseteq {"locked", "unfinished"}
    BY DEF Excuses
  <2> HIDE DEF a
  <2> QED
    BY <1>1, <2>1 DEF Passed, GivenRow
<1>5. run = [runs[i] EXCEPT !.row = row, !.given = given]
  BY <1>1 DEF RevisedRun, AgentRun
<1>6. RowRevised(row, i, dependents, spared)
  BY MarkedRun DEF Spoiled, RowRevised
<1> HIDE DEF row, given
<1>7. /\ run \in AgentRun /\ run.agent = runs[i].agent /\ run.swarm = runs[i].swarm
      /\ run.mem = runs[i].mem /\ run.given = given /\ run.row = row
  BY <1>1, <1>3, <1>4, <1>5 DEF AgentRun
<1> QED
  BY <1>6, <1>7 DEF given, WhyPassed

PassedOver(dependents, spared) ==
  [coming EXCEPT !.given =
     [a \in DOMAIN @ |-> Passed(@[a], Excuses(a, FALSE, dependents, spared))]]

LEMMA RevisionStep ==
  ASSUME SwarmTyped, Revising, Traced(reviser.copies),
         NEW dependents \in SUBSET Names(Roster), NEW spared,
         runs' = [i \in DOMAIN runs |-> RevisedRun(i, dependents, spared)],
         agents' \in [Names(Roster) -> RowState], UNCHANGED <<active, clock>>,
         coming' = PassedOver(dependents, spared)
  PROVE  SwarmTyped' /\ Keeps
<1>1. /\ runs \in Seq(AgentRun) /\ DOMAIN runs = 1 .. Len(runs) /\ Len(runs) \in Nat /\ clock \in Nat
      /\ active \subseteq DOMAIN runs
  BY LenProperties DEF SwarmTyped
<1>2. DOMAIN runs' = DOMAIN runs /\ \A i \in DOMAIN runs : runs'[i] = RevisedRun(i, dependents, spared)
  OBVIOUS
<1>3. \A i \in DOMAIN runs : runs'[i] \in AgentRun
  BY <1>2, RevisedRunForm
<1>4. runs' \in Seq(AgentRun) /\ Len(runs') = Len(runs)
  BY <1>1, <1>2, <1>3, IsASeq, LenProperties
<1>5. ASSUME NEW i \in DOMAIN runs
      PROVE  /\ runs'[i].agent = runs[i].agent /\ (Ended(i) => Ended(i)')
             /\ runs'[i].row.start <= clock' /\ runs'[i].mem.start <= clock'
             /\ runs'[i].swarm \in 1 .. i
             /\ runs'[i].row.status \in TERMINAL_RUN_STATES => Ended(i)'
  <2>1. /\ runs'[i].agent = runs[i].agent /\ runs'[i].swarm = runs[i].swarm
        /\ runs'[i].mem = runs[i].mem
        /\ \/ runs'[i].row = runs[i].row
           \/ /\ reviser.copies[runs[i].agent].id = i
              /\ runs'[i].row = Spoiled(reviser.copies[runs[i].agent].row)
    <3> DEFINE run == runs'[i]
    <3>1. run = RevisedRun(i, dependents, spared)
      BY <1>2
    <3> HIDE DEF run
    <3>2. /\ run.agent = runs[i].agent /\ run.swarm = runs[i].swarm /\ run.mem = runs[i].mem
          /\ RowRevised(run.row, i, dependents, spared)
      BY <3>1, RevisedRunForm
    <3> QED
      BY <3>2 DEF run, RowRevised
  <2>2. Ended(i)' <=> Ended(i)
    BY <2>1 DEF Ended
  <2>3. CASE runs'[i].row = runs[i].row
    BY <2>1, <2>2, <2>3 DEF SwarmTyped
  <2>4. CASE /\ reviser.copies[runs[i].agent].id = i
             /\ runs'[i].row = Spoiled(reviser.copies[runs[i].agent].row)
    <3> DEFINE copy == reviser.copies[runs[i].agent]
    <3>1. runs[i].agent \in Names(Roster) /\ copy.id # 0
      BY <1>1, <2>4, RunAt
    <3>2. copy.row \in RunRow
      BY <3>1 DEF Revising, Copied, Rows
    <3>3. runs'[i].row.start = copy.row.start /\ runs'[i].row.status = copy.row.status
      BY <2>4, <3>2, SpoiledRow
    <3>4. copy.row.start <= clock /\ (copy.row.status \in TERMINAL_RUN_STATES => Ended(i))
      BY <2>4, <3>1 DEF Traced
    <3> QED
      BY <2>1, <2>2, <3>3, <3>4 DEF SwarmTyped
  <2> QED
    BY <2>1, <2>3, <2>4
<1>6. ComingTyped'
  <2>1. CASE coming = NoSwarm
    <3>1. DOMAIN coming'.given = {} /\ coming' = [first |-> 0, given |-> coming'.given]
      BY <2>1 DEF NoSwarm, PassedOver
    <3>2. coming' = NoSwarm
      BY <2>1 DEF NoSwarm, PassedOver
    <3> QED
      BY <3>2 DEF ComingTyped
  <2>2. CASE coming # NoSwarm
    <3>1. /\ coming.first \in 1 .. Len(runs) + 1
          /\ coming = [first |-> coming.first, given |-> coming.given]
          /\ DOMAIN coming.given \subseteq Names(Roster)
          /\ coming.given \in [DOMAIN coming.given -> GivenRow]
      BY <2>2 DEF SwarmTyped, ComingTyped
    <3> DEFINE given == [a \in DOMAIN coming.given |->
                           Passed(coming.given[a], Excuses(a, FALSE, dependents, spared))]
    <3>2. coming' = [first |-> coming.first, given |-> given]
      BY <3>1 DEF PassedOver
    <3>3. ASSUME NEW a \in DOMAIN coming.given
          PROVE  Passed(coming.given[a], Excuses(a, FALSE, dependents, spared)) \in GivenRow
      <4>1. Excuses(a, FALSE, dependents, spared) \subseteq {"locked", "unfinished"}
        BY DEF Excuses
      <4>2. coming.given[a] \in GivenRow
        BY <3>1
      <4> QED
        BY <4>1, <4>2 DEF Passed, GivenRow
    <3>4. given \in [DOMAIN coming.given -> GivenRow] /\ DOMAIN given = DOMAIN coming.given
      BY <3>3
    <3> HIDE DEF given
    <3>5. coming'.first = coming.first /\ coming'.given = given
      BY <3>2
    <3> QED
      BY <1>4, <3>1, <3>2, <3>4, <3>5 DEF ComingTyped
  <2> QED
    BY <2>1, <2>2
<1> QED
  BY <1>1, <1>2, <1>4, <1>5, <1>6 DEF SwarmTyped, Keeps

(***************************************************************************)
(* The last decision is one of the rows.                                   *)
(***************************************************************************)
LEMMA LastDecision ==
  ASSUME LoopTyped, decisions # <<>>
  PROVE  /\ Len(decisions) \in DOMAIN decisions /\ Decision = decisions[Len(decisions)]
         /\ Decision \in DecisionRow
<1>1. decisions \in Seq(DecisionRow)
  BY DEF LoopTyped
<1>2. Len(decisions) \in 1 .. Len(decisions) /\ DOMAIN decisions = 1 .. Len(decisions)
  BY <1>1, EmptySeq, LenProperties
<1> QED
  BY <1>1, <1>2, ElementOfSeq DEF Decision, Last

(***************************************************************************)
(* A decision is appended: own or forced, it is a row.                     *)
(***************************************************************************)
LEMMA OutcomeRow ==
  ASSUME NEW round, NEW loaded, NEW d \in Outcomes(round, loaded)
  PROVE  /\ d \in DecisionRow
         /\ d.forced => d.action = "PROCEED_TO_OPTIMIZATION"
         /\ d.forced <=> d = Forced
         /\ ~d.forced => Len(decisions) < ReplanMax \/ Len(decisions) \notin Nat
         /\ ~d.forced => \E p \in Offered : d = Own(p) /\ ~RepeatGuard(p)
         /\ d.action \in {"RERUN_AGENT", "STOP_AGENT"} => d.target \in Names(Roster)
         /\ d.action \in {"PRUNE_STRATEGY", "REVIVE_STRATEGY"} => d.target \in Strategies
         /\ d.action = "CREATE_SPECIALIST" => d.target = Mission
<1>1. /\ Forced.action = "PROCEED_TO_OPTIMIZATION" /\ Forced.target = Mission
      /\ Forced.forced = TRUE
      /\ Forced = [action |-> "PROCEED_TO_OPTIMIZATION", target |-> Mission, forced |-> TRUE]
  BY DEF Forced
<1>2. CASE d = Forced
  BY <1>1, <1>2 DEF DecisionRow, Moving, IN_PLACE_ACTIONS
<1>3. CASE d # Forced
  <2>1. PICK p \in Offered : d = Own(p) /\ ~RepeatGuard(p)
    BY <1>3 DEF Outcomes
  <2>2. p \in Proposals
    BY ReplanAssumption
  <2>3. d.action = p.action /\ d.target = p.target /\ d.forced = FALSE
    BY <2>1 DEF Own
  <2>4. ~LimitReached
    BY <1>3 DEF Outcomes
  <2>5. Own(p) \in DecisionRow
    BY <2>2 DEF Own, Proposals, Proceed, DecisionRow, Moving, IN_PLACE_ACTIONS
  <2>6. /\ p.action \in {"RERUN_AGENT", "STOP_AGENT"} => p.target \in Names(Roster)
        /\ p.action \in {"PRUNE_STRATEGY", "REVIVE_STRATEGY"} => p.target \in Strategies
        /\ p.action = "CREATE_SPECIALIST" => p.target = Mission
    BY <2>2 DEF Proposals, Proceed
  <2>7. Len(decisions) < ReplanMax \/ Len(decisions) \notin Nat
    BY <2>4, ReplanAssumption DEF LimitReached
  <2> QED
    BY <2>1, <2>3, <2>5, <2>6, <2>7, <1>1
<1> QED
  BY <1>2, <1>3

(***************************************************************************)
(* The runs in every step.                                                 *)
(***************************************************************************)
LEMMA OtherRows ==
  ASSUME [Next]_revisionVars, ~StopAgent, ~StopNext, ~RerunAgent, ~CreateSpecialist, ~AgentsRun,
         ~WriteRevision
  PROVE  UNCHANGED <<agents, runs, active, clock, coming, spec>>
BY DEF Next, Replans, ReplanNext, Decides, Around, Revises, Trigger, Choose, PruneStrategy,
   AllStopped, StopRaises, StopFails, ReviveStrategy, Move, SwarmReady, StalePlans, Crash, Returns,
   Optimize, ReadMission, BeginRevision, EndRevision, CutRevision, ClaimArrives, UserTurns,
   revisionVars, replanVars, swarmVars

LEMMA LoadingAt ==
  ASSUME LoopTyped
  PROVE  /\ decider.pc \in {"choosing"} \cup Direct =>
              decider \in [pc : {"choosing"} \cup Direct, round : Nat, loaded : Rows] /\ Loading
         /\ decider.pc = "stopping" =>
              /\ decider \in [pc : {"stopping"}, round : Nat, loaded : Rows, left : SUBSET Names(Roster)]
              /\ Loading
         /\ decider.pc # "idle" => decider \in DeciderState /\ decider.round \in Nat
         /\ reviser.pc \in {"moving", "writing"} <=> Revising
BY DEF LoopTyped, DeciderState, LoadedState, CreatedState, Idle, Loading, Direct, IN_PLACE_ACTIONS,
   Revising, Copied

LEMMA RunsStep ==
  ASSUME RevInd, [Next]_revisionVars
  PROVE  SwarmTyped' /\ Keeps
<1> USE DEF RevInd, Typed
<1>1. SwarmTyped /\ clock \in Nat
  BY DEF SwarmTyped
<1>2. ASSUME AgentsRun PROVE SwarmTyped' /\ Keeps
  <2>1. Swarms /\ spec \in Specs
    BY <1>2 DEF AgentsRun, LoopTyped
  <2> QED
    BY <2>1, SwarmStep
<1>3. ASSUME StopAgent PROVE SwarmTyped' /\ Keeps
  <2>1. /\ Decision.target \in Names(Roster) /\ Stopped(Decision.target) /\ ~Raises(Decision.target)
        /\ UNCHANGED <<active, clock, coming>>
    BY <1>3 DEF StopAgent, Placed
  <2>2. Loading
    BY <1>3, LoadingAt DEF StopAgent, Direct, IN_PLACE_ACTIONS
  <2> QED
    BY <2>1, <2>2, StoppedStep
<1>4. ASSUME StopNext PROVE SwarmTyped' /\ Keeps
  <2>1. PICK a \in decider.left : Stopped(a) /\ ~Raises(a)
    BY <1>4 DEF StopNext
  <2>2. Loading /\ a \in Names(Roster) /\ UNCHANGED <<active, clock, coming>>
    BY <1>4, LoadingAt DEF StopNext
  <2> QED
    BY <2>1, <2>2, StoppedStep
<1>5. ASSUME RerunAgent PROVE SwarmTyped' /\ Keeps
  <2>1. /\ Decision.target \in Names(Roster) /\ Requeued(Decision.target)
        /\ UNCHANGED <<active, clock, coming>>
    BY <1>5 DEF RerunAgent, Placed
  <2>2. Loading
    BY <1>5, LoadingAt DEF RerunAgent, Direct
  <2> QED
    BY <2>1, <2>2, RequeuedStep
<1>6. ASSUME CreateSpecialist PROVE SwarmTyped' /\ Keeps
  <2>1. UNCHANGED <<runs, active, clock, coming>>
    BY <1>6 DEF CreateSpecialist
  <2>2. agents' \in [Names(Roster) -> RowState]
    BY <1>6 DEF CreateSpecialist, Again, SwarmTyped, RowState, AgentState
  <2> QED
    BY <2>1, <2>2 DEF SwarmTyped, ComingTyped, Ended, Keeps
<1>7. ASSUME WriteRevision PROVE SwarmTyped' /\ Keeps
  <2> DEFINE new == ApplyChange(reviser.spec, reviser.change)
             keys == ChangedKeys(reviser.spec, reviser.change)
             dependents == DependentsOf(BuildDependencyGraph(new).agents, keys)
             spared == Spared(BuildDependencyGraph(new), new)
  <2>1. Revising
    BY <1>7, LoadingAt DEF WriteRevision
  <2>2. dependents \subseteq Names(Roster)
    BY DEF DependentsOf, BuildDependencyGraph
  <2>3. /\ runs' = [i \in DOMAIN runs |-> RevisedRun(i, dependents, spared)]
        /\ coming' = PassedOver(dependents, spared)
        /\ UNCHANGED <<active, clock>>
        /\ agents' = [a \in Names(Roster) |->
                        IF a \in Requeues(dependents \ spared) THEN "READY" ELSE agents[a]]
    BY <1>7 DEF WriteRevision, PassedOver
  <2> HIDE DEF dependents, spared
  <2>4. agents' \in [Names(Roster) -> RowState]
    BY <2>3 DEF SwarmTyped, RowState, AgentState
  <2> QED
    BY <2>1, <2>2, <2>3, <2>4, RevisionStep
<1>8. ASSUME UNCHANGED <<agents, runs, active, clock, coming>> PROVE SwarmTyped' /\ Keeps
  BY <1>1, <1>8 DEF SwarmTyped, ComingTyped, Ended, Keeps
<1> QED
  BY <1>2, <1>3, <1>4, <1>5, <1>6, <1>7, <1>8, OtherRows

(***************************************************************************)
(* What a local state works with was loaded now, or before.                *)
(***************************************************************************)
LoadsOrKeeps ==
  Loading' => \/ decider'.loaded \in Copies
              \/ Loading /\ decider'.loaded = decider.loaded

CopiesOrKeeps ==
  Revising' => \/ reviser'.copies \in Copies
               \/ Revising /\ reviser'.copies = reviser.copies

LEMMA ChoosingAt ==
  ASSUME SwarmTyped, NEW n \in Nat, NEW next \in Choosing(n)
  PROVE  /\ next \in DeciderState /\ next.pc = "choosing" /\ next.loaded \in Copies
         /\ next \in LoadedState
<1>1. PICK copies \in Copies : next = [pc |-> "choosing", round |-> n, loaded |-> copies]
  BY DEF Choosing
<1>2. copies \in Rows
  BY CopiesTraced
<1> QED
  BY <1>1, <1>2 DEF DeciderState, LoadedState

LEMMA TracedStep ==
  ASSUME RevInd, Keeps, SwarmTyped', LoopTyped', LoadsOrKeeps, CopiesOrKeeps
  PROVE  Typed'
<1>1. clock \in Nat /\ clock' \in Nat
  BY DEF RevInd, Typed, SwarmTyped
<1>2. ASSUME Loading' PROVE Traced(decider.loaded)'
  <2> DEFINE copies == decider'.loaded
  <2>1. copies \in Rows /\ Traced(copies)
    BY <1>2, CopiesTraced DEF LoadsOrKeeps, RevInd, Typed, Loading, LoadedState
  <2> HIDE DEF copies
  <2>2. \A c \in Rows : Traced(c) => Traced(c)'
    BY <1>1, TracedStays
  <2> QED
    BY <2>1, <2>2 DEF copies, Traced
<1>3. ASSUME Revising' PROVE Traced(reviser.copies)'
  <2> DEFINE copies == reviser'.copies
  <2>1. copies \in Rows /\ Traced(copies)
    BY <1>3, CopiesTraced DEF CopiesOrKeeps, RevInd, Typed, Revising, Copied
  <2> HIDE DEF copies
  <2>2. \A c \in Rows : Traced(c) => Traced(c)'
    BY <1>1, TracedStays
  <2> QED
    BY <2>1, <2>2 DEF copies, Traced
<1> QED
  BY <1>2, <1>3 DEF Typed

(***************************************************************************)
(* decide                                                                  *)
(***************************************************************************)
LEMMA DecidesTyped ==
  ASSUME RevInd, Trigger \/ Decides \/ Crash,
         UNCHANGED <<reviser, staleStrategies, revisions>>
  PROVE  LoopTyped' /\ LoadsOrKeeps /\ Placed'
<1> USE DEF RevInd, Typed, LoopTyped, Placed, Hiring, LoadsOrKeeps, Loading
<1> DEFINE Goal == LoopTyped' /\ LoadsOrKeeps /\ Placed'
<1>1. ASSUME Trigger PROVE Goal
  <2>1. decider' \in DeciderState /\ decider'.pc = "choosing" /\ decider'.loaded \in Copies
    BY <1>1, ChoosingAt DEF Trigger
  <2>2. UNCHANGED <<status, spec, strategies, plans, decisions>>
    BY <1>1 DEF Trigger
  <2> QED
    BY <2>1, <2>2 DEF Direct, IN_PLACE_ACTIONS
<1>2. ASSUME Choose PROVE Goal
  <2>1. PICK d \in Outcomes(decider.round, decider.loaded) :
          /\ decisions' = Append(decisions, d)
          /\ decider' = IF d.action \in Direct THEN [decider EXCEPT !.pc = d.action] ELSE At("moving")
    BY <1>2 DEF Choose, Direct
  <2>2. d \in DecisionRow /\ decisions' \in Seq(DecisionRow)
    BY <2>1, OutcomeRow, AppendProperties
  <2>3. decisions' # <<>> /\ Decision' = d
    BY <2>1, <2>2, AppendProperties DEF Decision, Last
  <2>4. /\ decider \in [pc : {"choosing"} \cup Direct, round : Nat, loaded : Rows]
        /\ decider \in LoadedState
    BY <1>2, LoadingAt DEF Choose
  <2>5. /\ decider' \in DeciderState
        /\ decider'.pc = IF d.action \in Direct THEN d.action ELSE "moving"
        /\ decider' \in LoadedState => decider'.loaded = decider.loaded
    BY <2>1, <2>4 DEF DeciderState, LoadedState, At, Direct, IN_PLACE_ACTIONS
  <2>6. d.action \in Direct \cup Moving
    BY <2>2 DEF DecisionRow, Direct
  <2>7. LoopTyped' /\ LoadsOrKeeps
    BY <1>2, <2>2, <2>4, <2>5 DEF Choose
  <2>8. Placed'
    BY <2>1, <2>3, <2>5, <2>6, OutcomeRow DEF Direct, IN_PLACE_ACTIONS, Moving
  <2> QED
    BY <2>7, <2>8
<1>3. ASSUME Goes("staling"), decider.pc # "idle"
      PROVE  decider' \in DeciderState /\ decider'.pc = "staling" /\ decider' \notin LoadedState
  BY <1>3, LoadingAt DEF Goes, At, DeciderState, LoadedState, Direct, IN_PLACE_ACTIONS
<1>4. ASSUME StopAgent PROVE Goal
  <2>1. decider' \in DeciderState /\ decider'.pc = "staling" /\ decider' \notin LoadedState
    BY <1>3, <1>4 DEF StopAgent
  <2> QED
    BY <1>4, <2>1 DEF StopAgent, Direct, IN_PLACE_ACTIONS
<1>5. ASSUME PruneStrategy PROVE Goal
  <2>1. StillToStop(Decision.target) \subseteq Names(Roster)
    BY DEF StillToStop
  <2>2. decider \in [pc : {"choosing"} \cup Direct, round : Nat, loaded : Rows] /\ decider \in LoadedState
    BY <1>5, LoadingAt DEF PruneStrategy, Direct, IN_PLACE_ACTIONS
  <2>3. decider' \in DeciderState /\ decider'.pc = "stopping" /\ decider'.loaded = decider.loaded
    BY <1>5, <2>1, <2>2 DEF PruneStrategy, DeciderState, LoadedState
  <2>4. strategies' \in [Strategies -> StrategyStatus]
    BY <1>5 DEF PruneStrategy, StrategyStatus
  <2> QED
    BY <1>5, <2>2, <2>3, <2>4 DEF PruneStrategy, Direct, IN_PLACE_ACTIONS
<1>6. ASSUME StopNext PROVE Goal
  <2>1. /\ decider \in [pc : {"stopping"}, round : Nat, loaded : Rows, left : SUBSET Names(Roster)]
        /\ decider \in LoadedState
    BY <1>6, LoadingAt DEF StopNext
  <2>2. PICK a \in decider.left : decider' = [decider EXCEPT !.left = @ \ {a}]
    BY <1>6 DEF StopNext
  <2>3. decider' \in DeciderState /\ decider'.pc = "stopping" /\ decider'.loaded = decider.loaded
    BY <2>1, <2>2 DEF DeciderState, LoadedState
  <2> QED
    BY <1>6, <2>1, <2>3 DEF StopNext, Direct, IN_PLACE_ACTIONS
<1>7. ASSUME AllStopped PROVE Goal
  <2>1. decider' \in DeciderState /\ decider'.pc = "staling" /\ decider' \notin LoadedState
    BY <1>3, <1>7 DEF AllStopped
  <2> QED
    BY <1>7, <2>1 DEF AllStopped, Direct, IN_PLACE_ACTIONS
<1>8. ASSUME StopRaises \/ Crash PROVE Goal
  BY <1>8 DEF StopRaises, StopFails, Crash, Idle, Direct, IN_PLACE_ACTIONS, LoadedState
<1>9. ASSUME ReviveStrategy PROVE Goal
  <2>1. decider' \in DeciderState /\ decider'.pc = "staling" /\ decider' \notin LoadedState
    BY <1>3, <1>9 DEF ReviveStrategy
  <2>2. strategies' \in [Strategies -> StrategyStatus]
    BY <1>9 DEF ReviveStrategy, StrategyStatus
  <2> QED
    BY <1>9, <2>1, <2>2 DEF ReviveStrategy, Direct, IN_PLACE_ACTIONS
<1>10. ASSUME RerunAgent PROVE Goal
  <2>1. Decision.action = "RERUN_AGENT" /\ UNCHANGED decisions /\ decisions # <<>>
    BY <1>10 DEF RerunAgent, Direct
  <2>2. decider' \in DeciderState /\ decider'.pc = "moving" /\ decider' \notin LoadedState
    BY <1>10, LoadingAt DEF RerunAgent, Goes, At, DeciderState, LoadedState, Direct, IN_PLACE_ACTIONS
  <2> QED
    BY <1>10, <2>1, <2>2 DEF RerunAgent, Decision, Direct, IN_PLACE_ACTIONS, Moving
<1>11. ASSUME CreateSpecialist PROVE Goal
  <2>1. Decision.action = "CREATE_SPECIALIST" /\ UNCHANGED decisions /\ decisions # <<>>
    BY <1>11 DEF CreateSpecialist, Direct
  <2>2. decider.round \in Nat
    BY <1>11, LoadingAt DEF CreateSpecialist
  <2>3. CASE Again
    <3>1. decider' \in DeciderState /\ decider'.pc = "choosing" /\ decider'.loaded \in Copies
      BY <2>2, <2>3, ChoosingAt DEF Again
    <3> QED
      BY <1>11, <3>1 DEF CreateSpecialist, Direct, IN_PLACE_ACTIONS
  <2>4. CASE ~Again
    <3>1. PICK i \in DOMAIN Roster :
            decider' = [pc |-> "moving", round |-> decider.round, created |-> Roster[i].name]
      BY <1>11, <2>4 DEF CreateSpecialist
    <3>2. Roster[i].name \in Names(Roster)
      BY DEF Names
    <3>3. /\ decider' \in CreatedState /\ decider' \in DeciderState /\ decider'.pc = "moving"
          /\ decider' \notin LoadedState
      BY <2>2, <3>1, <3>2 DEF DeciderState, CreatedState, LoadedState, Direct, IN_PLACE_ACTIONS
    <3> QED
      BY <1>11, <2>1, <3>3 DEF CreateSpecialist, Decision, Direct, IN_PLACE_ACTIONS, Moving
  <2> QED
    BY <2>3, <2>4
<1>12. ASSUME Move PROVE Goal
  <2>1. Decision.action \in Moving /\ UNCHANGED decisions /\ decisions # <<>>
    BY <1>12 DEF Move
  <2>2. status' \in MissionStatus
    BY <1>12, <2>1 DEF Move, TargetState, Moving, MissionStatus, CallLoop
  <2>3. /\ decider' \in DeciderState \cup {Idle}
        /\ decider'.pc \in {"idle", "readying", "staling"}
        /\ decider'.pc = "readying" => Decision.action = "CREATE_SPECIALIST"
        /\ decider'.pc = "readying" => decider' \in CreatedState
        /\ decider' \notin LoadedState
    <3>1. CASE Decision.action = "PROCEED_TO_OPTIMIZATION"
      BY <1>12, <3>1 DEF Move, Idle, LoadedState
    <3>2. CASE Decision.action = "CREATE_SPECIALIST"
      <4>1. decider \in CreatedState /\ decider' = [decider EXCEPT !.pc = "readying"]
        BY <1>12, <3>2 DEF Move
      <4>2. decider' \in CreatedState /\ decider'.pc = "readying"
        BY <4>1 DEF CreatedState
      <4> QED
        BY <3>2, <4>2 DEF DeciderState, LoadedState, Direct, IN_PLACE_ACTIONS
    <3>3. CASE Decision.action \notin {"PROCEED_TO_OPTIMIZATION", "CREATE_SPECIALIST"}
      <4>1. decider' = [decider EXCEPT !.pc = "staling"] /\ decider.pc = "moving"
        BY <1>12, <3>3 DEF Move
      <4>2. decider \in [pc : {"moving", "staling"}, round : Nat] \cup CreatedState
        BY <4>1, LoadingAt DEF DeciderState, LoadedState, Direct, IN_PLACE_ACTIONS
      <4>3. decider' \in DeciderState /\ decider'.pc = "staling"
        BY <4>1, <4>2 DEF DeciderState, CreatedState
      <4> QED
        BY <4>3 DEF LoadedState, Direct, IN_PLACE_ACTIONS
    <3> QED
      BY <3>1, <3>2, <3>3
  <2> QED
    BY <1>12, <2>1, <2>2, <2>3 DEF Move, Decision, Direct, IN_PLACE_ACTIONS
<1>13. ASSUME SwarmReady PROVE Goal
  <2>1. decider \in CreatedState /\ decisions # <<>>
    BY <1>13 DEF SwarmReady
  <2>2. Len(decisions) \in DOMAIN decisions /\ decisions[Len(decisions)] \in DecisionRow
    BY <2>1, LastDecision
  <2> DEFINE row == [decisions[Len(decisions)] EXCEPT !.target = decider.created]
  <2>3. row \in DecisionRow
    BY <2>1, <2>2 DEF DecisionRow, CreatedState
  <2>4. decisions' = [decisions EXCEPT ![Len(decisions)] = row]
    BY <1>13 DEF SwarmReady
  <2> HIDE DEF row
  <2>5. decisions' \in Seq(DecisionRow)
    BY <2>2, <2>3, <2>4, Replaced
  <2>6. decider' \in DeciderState /\ decider'.pc = "staling" /\ decider' \notin LoadedState
    BY <1>3, <1>13 DEF SwarmReady
  <2> QED
    BY <1>13, <2>5, <2>6 DEF SwarmReady, MissionStatus, Direct, IN_PLACE_ACTIONS
<1>14. ASSUME StalePlans PROVE Goal
  <2>1. /\ decider' \in DeciderState \cup {Idle} /\ decider'.pc \in {"idle", "choosing"}
        /\ decider' \in LoadedState => decider'.loaded \in Copies
    <3>1. CASE decider' = Idle
      BY <3>1 DEF Idle, LoadedState
    <3>2. CASE decider' # Idle
      BY <1>14, <3>2, LoadingAt, ChoosingAt DEF StalePlans
    <3> QED
      BY <3>1, <3>2
  <2>2. plans' \in {"none", "fresh", "stale"}
    BY <1>14 DEF StalePlans, PlansAfter, Staled
  <2> QED
    BY <1>14, <2>1, <2>2 DEF StalePlans, Direct, IN_PLACE_ACTIONS
<1> QED
  BY <1>1, <1>2, <1>4, <1>5, <1>6, <1>7, <1>8, <1>9, <1>10, <1>11, <1>12, <1>13, <1>14 DEF Decides

(***************************************************************************)
(* Around it; and a revision, which writes nothing of decide.              *)
(***************************************************************************)
LEMMA AroundTyped ==
  ASSUME RevInd, Around \/ UserTurns, UNCHANGED <<reviser, staleStrategies, revisions>>
  PROVE  LoopTyped' /\ Placed' /\ UNCHANGED <<decider, decisions>>
<1>1. status' \in MissionStatus /\ plans' \in {"none", "fresh", "stale"}
  BY DEF RevInd, Typed, LoopTyped, Around, UserTurns, AgentsRun, Swarms, Returns, Optimize,
     MissionStatus, CallLoop, TerminalStates
<1>2. UNCHANGED <<spec, strategies, decisions, decider>>
  BY DEF Around, UserTurns, AgentsRun, Swarms, Returns, Optimize
<1>3. Placed'
  BY <1>2 DEF RevInd, Placed, Hiring, Decision
<1> QED
  BY <1>1, <1>2, <1>3 DEF RevInd, Typed, LoopTyped

LEMMA RevisesTyped ==
  ASSUME RevInd, ReadMission \/ Revises \/ CutRevision \/ ClaimArrives
  PROVE  LoopTyped' /\ CopiesOrKeeps /\ Placed' /\ UNCHANGED <<decider, decisions>>
<1> USE DEF RevInd, Typed, LoopTyped, CopiesOrKeeps
<1>1. UNCHANGED <<decider, decisions>>
  BY DEF ReadMission, Revises, BeginRevision, WriteRevision, EndRevision, CutRevision, ClaimArrives,
     replanVars
<1>2. Placed'
  BY <1>1 DEF Placed, Hiring, Decision
<1>3. ASSUME ReadMission PROVE LoopTyped' /\ CopiesOrKeeps
  <2>1. PICK change \in Changes, copies \in Copies :
          reviser' = [pc |-> "moving", change |-> change, spec |-> spec, copies |-> copies,
                      finished |-> Finished, late |-> FALSE]
    BY <1>3 DEF ReadMission
  <2>2. copies \in Rows /\ Finished \subseteq Nat
    BY CopiesTraced, RunAt DEF Finished
  <2>3. reviser' \in Copied /\ reviser'.copies \in Copies
    BY <2>1, <2>2 DEF Copied
  <2>4. UNCHANGED <<replanVars, staleStrategies>>
    BY <1>3 DEF ReadMission
  <2> QED
    BY <2>3, <2>4 DEF replanVars
<1>4. ASSUME BeginRevision PROVE LoopTyped' /\ CopiesOrKeeps
  <2>1. Revising
    BY <1>4, LoadingAt DEF BeginRevision
  <2>2. reviser' \in Copied \cup {Idle} /\ (reviser' \in Copied => reviser'.copies = reviser.copies)
    BY <1>4, <2>1 DEF BeginRevision, Copied, Revising, Idle
  <2> QED
    BY <1>4, <2>1, <2>2 DEF BeginRevision, MissionStatus, Revising
<1>5. ASSUME WriteRevision PROVE LoopTyped' /\ CopiesOrKeeps
  <2>1. reviser \in Copied
    BY <1>5, LoadingAt DEF WriteRevision, Revising
  <2>2. spec' \in Specs
    BY <1>5, <2>1, RevisionAssumption DEF WriteRevision, Copied
  <2>3. staleStrategies' \subseteq Strategies
    BY <1>5 DEF WriteRevision, DependentsOf, BuildDependencyGraph
  <2>4. /\ plans' \in {"none", "fresh", "stale"} /\ reviser' \in {[pc |-> "ending"], Idle}
        /\ UNCHANGED <<status, strategies, decisions, decider>>
    BY <1>5 DEF WriteRevision
  <2>5. ~Revising'
    BY <2>4 DEF Revising, Copied, Idle
  <2> QED
    BY <2>2, <2>3, <2>4, <2>5
<1>6. ASSUME EndRevision \/ CutRevision PROVE LoopTyped' /\ CopiesOrKeeps
  BY <1>6 DEF EndRevision, CutRevision, AfterRevision, MissionStatus, CallLoop, Revising, Copied, Idle
<1>7. ASSUME ClaimArrives PROVE LoopTyped' /\ CopiesOrKeeps
  <2>1. Revising
    BY <1>7, LoadingAt DEF ClaimArrives
  <2>2. reviser' \in Copied /\ reviser'.copies = reviser.copies
    BY <1>7, <2>1 DEF ClaimArrives, Copied, Revising
  <2> QED
    BY <1>7, <2>1, <2>2 DEF ClaimArrives, replanVars
<1> QED
  BY <1>1, <1>2, <1>3, <1>4, <1>5, <1>6, <1>7 DEF Revises

LEMMA TypedStep == RevInd /\ [Next]_revisionVars => RevInd'
<1> SUFFICES ASSUME RevInd, [Next]_revisionVars PROVE RevInd'
  OBVIOUS
<1>1. SwarmTyped' /\ Keeps
  BY RunsStep
<1>2. LoopTyped' /\ Placed' /\ LoadsOrKeeps /\ CopiesOrKeeps
  <2>1. CASE UNCHANGED revisionVars
    BY <2>1 DEF revisionVars, replanVars, RevInd, Typed, LoopTyped, Placed, Hiring, Decision,
       LoadsOrKeeps, CopiesOrKeeps, Loading, Revising
  <2>2. CASE UserTurns
    <3>1. UNCHANGED <<reviser, staleStrategies, revisions>>
      BY <2>2 DEF UserTurns
    <3> QED
      BY <2>2, <3>1, AroundTyped DEF LoadsOrKeeps, CopiesOrKeeps, Loading, Revising
  <2>3. ASSUME UNCHANGED reviser PROVE CopiesOrKeeps
    BY <2>3 DEF CopiesOrKeeps, Revising
  <2>4. ASSUME UNCHANGED decider PROVE LoadsOrKeeps
    BY <2>4 DEF LoadsOrKeeps, Loading
  <2> QED
    BY <2>1, <2>2, <2>3, <2>4, DecidesTyped, AroundTyped, RevisesTyped DEF Next, Replans, ReplanNext
<1> QED
  BY <1>1, <1>2, TracedStep DEF RevInd

(***************************************************************************)
(* The rows a mission comes to the decision with.                          *)
(***************************************************************************)
LEMMA InitRuns ==
  ASSUME Init
  PROVE  /\ runs \in Seq(AgentRun) /\ active = DOMAIN runs /\ clock \in Nat
         /\ \A i \in DOMAIN runs :
              /\ runs[i].row.start = i /\ i \in 1 .. clock /\ runs[i].mem = runs[i].row
              /\ runs[i].swarm = 1 /\ runs[i].row.status \in {"COMPLETE", "WORKING"}
              /\ runs[i].row.status = "COMPLETE" => runs[i].row.output
              /\ runs[i].given = Given(spec.values)
<1>1. spec \in Specs
  BY RunsAssumption DEF Init, ReplanInit, SwarmInit
<1>2. PICK n \in 1 .. Len(Roster) :
        /\ agents \in [Names(Roster) -> {"absent", "COMPLETE", "WORKING"}]
        /\ \A i \in DOMAIN Roster : agents[Roster[i].name] = "absent" <=> i > n
        /\ runs = [i \in 1 .. n |-> Launched(Roster[i].name, 1, Given(spec.values),
                                             FirstRow(agents[Roster[i].name], i))]
        /\ active = 1 .. n /\ clock = n
  BY DEF Init, ReplanInit, SwarmInit
<1>3. DOMAIN Roster = 1 .. Len(Roster) /\ Len(Roster) \in Nat
  BY RunsAssumption, LenProperties
<1>4. ASSUME NEW i \in 1 .. n
      PROVE  /\ runs[i] \in AgentRun /\ runs[i].row.start = i /\ runs[i].mem = runs[i].row
             /\ runs[i].swarm = 1 /\ runs[i].row.status \in {"COMPLETE", "WORKING"}
             /\ runs[i].row.status = "COMPLETE" => runs[i].row.output
             /\ runs[i].given = Given(spec.values)
  <2>1. i \in DOMAIN Roster /\ Roster[i].name \in Names(Roster)
    BY <1>2, <1>3 DEF Names
  <2>2. agents[Roster[i].name] \in {"COMPLETE", "WORKING"}
    BY <1>2, <2>1
  <2>3. Given(spec.values) \in GivenRow
    BY <1>1 DEF Given, GivenRow
  <2> DEFINE row == FirstRow(agents[Roster[i].name], i)
  <2>4. /\ row \in RunRow /\ row.start = i /\ row.status \in {"COMPLETE", "WORKING"}
        /\ row.status = "COMPLETE" => row.output
    <3>1. CASE agents[Roster[i].name] = "COMPLETE"
      <4>1. row = [status |-> "COMPLETE", start |-> i, output |-> TRUE, stale |-> FALSE]
        BY <3>1 DEF FirstRow
      <4> QED
        BY <4>1 DEF RunRow, AgentState
    <3>2. CASE agents[Roster[i].name] = "WORKING"
      <4>1. row = [status |-> "WORKING", start |-> i, output |-> FALSE, stale |-> FALSE]
        BY <3>2 DEF FirstRow
      <4> QED
        BY <4>1 DEF RunRow, AgentState
    <3> QED
      BY <2>2, <3>1, <3>2
  <2> HIDE DEF row
  <2>5. runs[i] = Launched(Roster[i].name, 1, Given(spec.values), row)
    BY <1>2 DEF row
  <2>6. Launched(Roster[i].name, 1, Given(spec.values), row) \in AgentRun
    BY <2>1, <2>3, <2>4 DEF Launched, AgentRun
  <2> QED
    BY <2>4, <2>5, <2>6 DEF Launched
<1>5. runs \in Seq(AgentRun) /\ DOMAIN runs = 1 .. n
  BY <1>2, <1>4, IsASeq
<1> QED
  BY <1>2, <1>4, <1>5

LEMMA TypedInit == Init => RevInd
<1> SUFFICES ASSUME Init PROVE RevInd
  OBVIOUS
<1>1. \A i \in DOMAIN runs :
        /\ runs[i].row.start <= clock /\ runs[i].mem.start <= clock /\ runs[i].swarm \in 1 .. i
        /\ runs[i].row.status \in TERMINAL_RUN_STATES => Ended(i)
  BY InitRuns DEF Ended
<1> USE DEF Init, ReplanInit, Idle
<1>2. agents \in [Names(Roster) -> RowState]
  <2>1. agents \in [Names(Roster) -> {"absent", "COMPLETE", "WORKING"}]
    BY DEF SwarmInit
  <2> QED
    BY <2>1 DEF RowState, AgentState
<1>3. SwarmTyped
  BY <1>1, <1>2, InitRuns DEF SwarmTyped, ComingTyped, SwarmInit
<1>4. strategies \in [Strategies -> StrategyStatus] /\ spec \in Specs
  BY RunsAssumption DEF StrategyStatus, SwarmInit
<1>5. decisions \in Seq(DecisionRow)
  BY EmptySeq
<1>6. status \in MissionStatus /\ plans \in {"none", "fresh", "stale"}
  BY DEF MissionStatus, CallLoop
<1>7. LoopTyped /\ ~Loading /\ ~Revising
  BY <1>4, <1>5, <1>6 DEF LoopTyped, Loading, LoadedState, Revising, Copied
<1>8. Placed
  BY DEF Placed, Hiring, Direct, IN_PLACE_ACTIONS
<1> QED
  BY <1>3, <1>7, <1>8 DEF RevInd, Typed

LEMMA AlwaysTyped == Spec => []RevInd
BY TypedInit, TypedStep, PTL DEF Spec

(***************************************************************************)
(* Types, and: a run that is on record as ended is neither at work nor     *)
(* about to be, although a stop, a re-run and a revision write rows back   *)
(* as they were loaded while the runner goes on.                           *)
(***************************************************************************)
THEOREM ReplanTyped == Spec => []ReplanTypeOK
<1>1. ASSUME RevInd PROVE ReplanTypeOK
  <2> USE DEF RevInd, Typed, LoopTyped
  <2>1. DOMAIN coming.given \subseteq Names(Roster)
    BY <1>1 DEF SwarmTyped, ComingTyped, NoSwarm
  <2>2. SwarmTypeOK
    BY <1>1, <2>1, RunAt DEF SwarmTyped, SwarmTypeOK, RowState
  <2>3. EndedIsOver
    BY <1>1 DEF SwarmTyped, EndedIsOver, Over, Held, Ended
  <2> QED
    BY <1>1, <2>2, <2>3 DEF ReplanTypeOK
<1> QED
  BY <1>1, AlwaysTyped, PTL

(***************************************************************************)
(* A decision to hire names nobody until the new specialist is ready, and  *)
(* then one no earlier decision can have named.                            *)
(***************************************************************************)
Creates(i) == decisions[i].action = "CREATE_SPECIALIST"

Named ==
  /\ \A i \in DOMAIN decisions :
       Creates(i) /\ decisions[i].target # Mission =>
         decisions[i].target \in Names(Roster) /\ agents[decisions[i].target] # "absent"
  /\ Hiring => /\ agents[decider.created] # "absent"
               /\ \A i \in DOMAIN decisions : Creates(i) => decisions[i].target # decider.created

(***************************************************************************)
(* Fresh plans whose basis has changed are on the way to being stale.      *)
(***************************************************************************)
Owed ==
  moved /\ plans = "fresh" /\ ~cut =>
    \/ decider.pc \in {"stopping", "readying", "staling"}
    \/ decider.pc = "moving" /\ Decision.action \in {"RERUN_AGENT", "CREATE_SPECIALIST"}

-----------------------------------------------------------------------------
(***************************************************************************)
(* What happens to the record of decisions: a decision is appended, the    *)
(* last one gets the specialist it hired as its target, or nothing.  And   *)
(* nobody who is there is ever absent again.                               *)
(***************************************************************************)
StillThere == \A a \in Names(Roster) : agents[a] # "absent" => agents'[a] # "absent"

LEMMA NobodyVanishes ==
  ASSUME RevInd, [Next]_revisionVars
  PROVE  StillThere
<1>1. agents \in [Names(Roster) -> RowState]
  BY DEF RevInd, Typed, SwarmTyped
<1>2. ASSUME NEW x, NEW state \in AgentState, agents' = [agents EXCEPT ![x] = state]
      PROVE  StillThere
  BY <1>1, <1>2 DEF StillThere, AgentState
<1>3. ASSUME UNCHANGED agents PROVE StillThere
  BY <1>3 DEF StillThere
<1>4. ASSUME AgentsRun PROVE StillThere
  BY <1>2, <1>3, <1>4 DEF AgentsRun, Swarms, SwarmBegins, CreateRun, Prepare, AgentStarts, AgentEnds,
     SwarmReturns, Transition, AgentState
<1>5. ASSUME NEW a, Stopped(a) PROVE StillThere
  BY <1>2, <1>5 DEF Stopped, StopRun, Transition, AgentState
<1>6. ASSUME StopAgent \/ StopNext PROVE StillThere
  BY <1>5, <1>6 DEF StopAgent, StopNext
<1>7. ASSUME RerunAgent PROVE StillThere
  BY <1>2, <1>7 DEF RerunAgent, Requeued, AgentState
<1>8. ASSUME CreateSpecialist PROVE StillThere
  BY <1>2, <1>3, <1>8 DEF CreateSpecialist, Again, AgentState
<1>9. ASSUME WriteRevision PROVE StillThere
  <2>1. \A a \in Names(Roster) : agents'[a] \in {"READY", agents[a]}
    BY <1>9 DEF WriteRevision
  <2> QED
    BY <2>1 DEF StillThere
<1> QED
  BY <1>3, <1>4, <1>6, <1>7, <1>8, <1>9, OtherRows

(***************************************************************************)
(* Only choosing and SWARM_READY write the record of decisions, and only a *)
(* hire begins or goes on Hiring.                                          *)
(***************************************************************************)
LEMMA RecordSteps ==
  ASSUME RevInd, [Next]_revisionVars
  PROVE  \/ UNCHANGED decisions /\ decider' = decider
         \/ UNCHANGED decisions /\ ~Hiring'
         \/ CreateSpecialist
         \/ Choose \/ SwarmReady
         \/ Move /\ Hiring
<1> USE DEF RevInd
<1>1. ASSUME Trigger \/ StopRaises \/ Crash \/ PruneStrategy \/ AllStopped
      PROVE  UNCHANGED decisions /\ ~Hiring'
  BY <1>1 DEF Trigger, Choosing, StopRaises, StopFails, Crash, PruneStrategy, AllStopped, Goes, At,
     Hiring, Idle
<1>3. ASSUME StopAgent \/ StopNext \/ ReviveStrategy
      PROVE  UNCHANGED decisions /\ ~Hiring'
  <2>1. decider'.pc \in {"stopping", "staling"} /\ UNCHANGED decisions
    <3>1. CASE StopNext
      <4>1. decider \in [pc : {"stopping"}, round : Nat, loaded : Rows, left : SUBSET Names(Roster)]
        BY <3>1, LoadingAt DEF StopNext, Typed
      <4> QED
        BY <3>1, <4>1 DEF StopNext
    <3> QED
      BY <1>3, <3>1 DEF StopAgent, ReviveStrategy, Goes, At
  <2> QED
    BY <2>1 DEF Hiring
<1>4. ASSUME RerunAgent PROVE UNCHANGED decisions /\ ~Hiring'
  <2>1. Decision.action = "RERUN_AGENT" /\ UNCHANGED decisions
    BY <1>4 DEF RerunAgent, Placed, Direct
  <2> QED
    BY <2>1 DEF Hiring, Decision
<1>5. ASSUME StalePlans PROVE UNCHANGED decisions /\ ~Hiring'
  BY <1>5 DEF StalePlans, Choosing, Hiring, Idle
<1>6. ASSUME Move, ~Hiring PROVE UNCHANGED decisions /\ ~Hiring'
  <2>1. Decision.action # "CREATE_SPECIALIST" /\ UNCHANGED decisions
    BY <1>6 DEF Move, Hiring
  <2> QED
    BY <2>1 DEF Hiring, Decision
<1>7. ASSUME Around \/ UserTurns \/ ReadMission \/ Revises \/ CutRevision \/ ClaimArrives
      PROVE  UNCHANGED decisions /\ decider' = decider
  BY <1>7 DEF Around, AgentsRun, Returns, Optimize, ReadMission, Revises, BeginRevision,
     WriteRevision, EndRevision, CutRevision, ClaimArrives, UserTurns, replanVars
<1>8. ASSUME UNCHANGED revisionVars PROVE UNCHANGED decisions /\ decider' = decider
  BY <1>8 DEF revisionVars, replanVars
<1> QED
  BY <1>1, <1>3, <1>4, <1>5, <1>6, <1>7, <1>8 DEF Next, Replans, ReplanNext, Decides

(***************************************************************************)
(* The record names an agent only when it is on the roster.                *)
(***************************************************************************)
LEMMA NamedStep ==
  ASSUME RevInd, RevInd', Named, [Next]_revisionVars
  PROVE  Named'
<1>1. StillThere
  BY NobodyVanishes
<1>2. decisions \in Seq(DecisionRow)
  BY DEF RevInd, Typed, LoopTyped
<1>3. \A i \in DOMAIN decisions : Creates(i) /\ decisions[i].target # Mission =>
        decisions[i].target \in Names(Roster) /\ agents'[decisions[i].target] # "absent"
  BY <1>1 DEF Named, StillThere
<1>4. CASE UNCHANGED decisions /\ decider' = decider
  <2>1. Hiring => decider.created \in Names(Roster)
    BY DEF RevInd, Placed, CreatedState
  <2> QED
    BY <1>1, <1>3, <1>4, <2>1 DEF Named, Hiring, Decision, StillThere, Creates
<1>5. CASE UNCHANGED decisions /\ ~Hiring'
  BY <1>3, <1>5 DEF Named, Creates
<1>6. CASE CreateSpecialist
  <2>1. UNCHANGED decisions
    BY <1>6 DEF CreateSpecialist
  <2>2. CASE Again
    BY <1>3, <2>1, <2>2 DEF Again, Choosing, Named, Hiring, Creates
  <2>3. CASE ~Again
    <3>1. PICK i \in DOMAIN Roster :
            /\ agents[Roster[i].name] = "absent"
            /\ agents' = [agents EXCEPT ![Roster[i].name] = "READY"]
            /\ decider'.created = Roster[i].name
      BY <1>6, <2>3 DEF CreateSpecialist
    <3>2. agents'[Roster[i].name] = "READY"
      BY <3>1 DEF RevInd, Typed, SwarmTyped, Names
    <3>3. \A j \in DOMAIN decisions : Creates(j) => decisions[j].target # Roster[i].name
      BY <3>1, ReplanAssumption DEF Named, Names
    <3> QED
      BY <1>3, <2>1, <3>1, <3>2, <3>3 DEF Named, Creates
  <2> QED
    BY <2>2, <2>3
<1>7. CASE Choose
  <2>1. PICK d \in Outcomes(decider.round, decider.loaded) :
          /\ decisions' = Append(decisions, d)
          /\ decider' = IF d.action \in Direct THEN [decider EXCEPT !.pc = d.action] ELSE At("moving")
    BY <1>7 DEF Choose, Direct
  <2>2. d \in DecisionRow /\ (d.action = "CREATE_SPECIALIST" => d.target = Mission)
    BY <2>1, OutcomeRow
  <2>3. /\ DOMAIN decisions' = 1 .. Len(decisions) + 1 /\ decisions'[Len(decisions) + 1] = d
        /\ \A i \in DOMAIN decisions : decisions'[i] = decisions[i]
        /\ DOMAIN decisions = 1 .. Len(decisions) /\ Len(decisions) \in Nat
    BY <1>2, <2>1, <2>2, AppendProperties, LenProperties
  <2>4. ~Hiring'
    <3>1. decider \in [pc : {"choosing"} \cup Direct, round : Nat, loaded : Rows]
      BY <1>7, LoadingAt DEF Choose, RevInd, Typed
    <3>2. decider'.pc = IF d.action \in Direct THEN d.action ELSE "moving"
      BY <2>1, <3>1 DEF At
    <3>3. Decision' = d
      BY <1>2, <2>1, <2>2, AppendProperties DEF Decision, Last
    <3> QED
      BY <3>2, <3>3 DEF Hiring, Direct, IN_PLACE_ACTIONS
  <2> QED
    BY <1>3, <2>2, <2>3, <2>4 DEF Named, Creates
<1>8. CASE SwarmReady
  <2>1. Hiring /\ decider \in CreatedState /\ decisions # <<>>
    BY <1>8 DEF SwarmReady, Hiring, RevInd, Placed
  <2>2. decisions' = [decisions EXCEPT ![Len(decisions)].target = decider.created]
    BY <1>8 DEF SwarmReady
  <2>3. Len(decisions) \in DOMAIN decisions /\ decisions[Len(decisions)] \in DecisionRow
    BY <2>1, LastDecision DEF RevInd, Typed
  <2>4. /\ DOMAIN decisions' = DOMAIN decisions
        /\ \A i \in DOMAIN decisions \ {Len(decisions)} : decisions'[i] = decisions[i]
        /\ decisions'[Len(decisions)].target = decider.created
    BY <1>2, <2>2, <2>3, LenProperties DEF DecisionRow
  <2>5. ~Hiring'
    BY <1>8, <2>1 DEF SwarmReady, Goes, At, Hiring
  <2>6. decider.created \in Names(Roster) /\ agents'[decider.created] # "absent"
    BY <1>1, <2>1 DEF CreatedState, Named, StillThere
  <2> QED
    BY <1>3, <2>3, <2>4, <2>5, <2>6 DEF Named, Creates
<1>9. CASE Move /\ Hiring
  <2>1. UNCHANGED <<decisions, agents>> /\ decider' = [decider EXCEPT !.pc = "readying"]
    BY <1>9 DEF Move, Hiring, swarmVars
  <2>2. decider'.created = decider.created
    BY <1>9, <2>1 DEF RevInd, Placed, CreatedState
  <2> QED
    BY <1>9, <2>1, <2>2 DEF Named, Creates
<1> QED
  BY <1>4, <1>5, <1>6, <1>7, <1>8, <1>9, RecordSteps

Repeats(i) == \A j \in i .. i + RepeatMax : Same(decisions[j], decisions[i])

(***************************************************************************)
(* The guards, decision by decision.                                       *)
(***************************************************************************)
Bounded ==
  /\ \A i \in DOMAIN decisions : ~decisions[i].forced => i <= ReplanMax
  /\ \A i \in 1 .. Len(decisions) - RepeatMax :
       Repeats(i) => decisions[i].action = "PROCEED_TO_OPTIMIZATION"

LEMMA GuardedAppend ==
  ASSUME LoopTyped, Bounded, NEW d \in DecisionRow, decisions' = Append(decisions, d),
         d.forced => d.action = "PROCEED_TO_OPTIMIZATION",
         ~d.forced => Len(decisions) < ReplanMax,
         ~d.forced => \E p \in Offered : d = Own(p) /\ ~RepeatGuard(p)
  PROVE  Bounded'
<1> DEFINE n == Len(decisions)
<1>1. /\ decisions \in Seq(DecisionRow) /\ n \in Nat /\ DOMAIN decisions = 1 .. n
      /\ RepeatMax \in Nat /\ RepeatMax >= 1 /\ ReplanMax \in Nat
  BY ReplanAssumption, LenProperties DEF LoopTyped
<1>2. /\ Len(decisions') = n + 1 /\ DOMAIN decisions' = 1 .. n + 1
      /\ decisions'[n + 1] = d /\ \A i \in 1 .. n : decisions'[i] = decisions[i]
  BY <1>1, AppendProperties, LenProperties
<1>3. ASSUME NEW i \in DOMAIN decisions', ~decisions'[i].forced PROVE i <= ReplanMax
  BY <1>1, <1>2, <1>3 DEF Bounded
<1>4. ASSUME NEW i \in 1 .. n + 1 - RepeatMax,
             \A j \in i .. i + RepeatMax : Same(decisions'[j], decisions'[i])
      PROVE  decisions'[i].action = "PROCEED_TO_OPTIMIZATION"
  <2>1. CASE i + RepeatMax <= n
    <3>1. i \in 1 .. n - RepeatMax /\ \A j \in i .. i + RepeatMax : j \in 1 .. n
      BY <1>1, <2>1
    <3>2. Repeats(i)
      BY <1>1, <1>2, <1>4, <3>1 DEF Repeats
    <3> QED
      BY <1>1, <1>2, <3>1, <3>2 DEF Bounded
  <2>2. CASE i + RepeatMax = n + 1
    <3>1. i \in 1 .. n /\ Same(d, decisions[i]) /\ \A j \in i .. n : Same(decisions[j], d)
      BY <1>1, <1>2, <1>4, <2>2 DEF Same
    <3>2. CASE d.forced
      BY <1>2, <3>1, <3>2 DEF Same
    <3>3. CASE ~d.forced
      <4>1. PICK p \in Offered : d = Own(p) /\ ~RepeatGuard(p)
        BY <3>3
      <4>2. n >= RepeatMax /\ n - RepeatMax + 1 = i
        BY <1>1, <2>2, <3>1
      <4>3. PICK k \in 1 .. RepeatMax : ~Same(Recent(RepeatMax)[k], p)
        BY <4>1, <4>2 DEF RepeatGuard
      <4>4. Recent(RepeatMax)[k] = decisions[i + k - 1]
        <5>1. \A m \in n - RepeatMax + 1 .. n : decisions[m] \in DecisionRow
          BY <1>1, <4>2, ElementOfSeq
        <5>2. Recent(RepeatMax)[k] = decisions[n - RepeatMax + 1 + k - 1]
          BY <1>1, <5>1, SubSeqProperties DEF Recent
        <5> QED
          BY <1>1, <4>2, <5>2
      <4>5. i + k - 1 \in i .. n
        BY <1>1, <2>2, <3>1
      <4> QED
        BY <3>1, <4>1, <4>3, <4>4, <4>5 DEF Same, Own
    <3> QED
      BY <3>2, <3>3
  <2> QED
    BY <1>1, <1>4, <2>1, <2>2
<1> QED
  <2>1. \A i \in 1 .. Len(decisions') - RepeatMax :
          Repeats(i)' => decisions'[i].action = "PROCEED_TO_OPTIMIZATION"
    <3>1. \A i \in 1 .. n + 1 - RepeatMax :
            (\A j \in i .. i + RepeatMax : Same(decisions'[j], decisions'[i])) =>
              decisions'[i].action = "PROCEED_TO_OPTIMIZATION"
      BY <1>4
    <3>2. Len(decisions') = n + 1
      BY <1>2
    <3>3. ASSUME NEW i \in 1 .. Len(decisions') - RepeatMax, Repeats(i)'
          PROVE  decisions'[i].action = "PROCEED_TO_OPTIMIZATION"
      <4>1. i \in 1 .. n + 1 - RepeatMax
        BY <1>1, <3>2, <3>3
      <4>2. \A j \in i .. i + RepeatMax : Same(decisions'[j], decisions'[i])
        BY <3>3 DEF Repeats, Same
      <4> QED
        BY <3>1, <4>1, <4>2
    <3> QED
      BY <3>3
  <2> QED
    BY <1>3, <2>1 DEF Bounded

(***************************************************************************)
(* Where the last of r + 1 decisions in a row may be among n.              *)
(***************************************************************************)
LEMMA Window ==
  ASSUME NEW n \in Nat, NEW r \in Nat \ {0}, NEW i \in 1 .. n - r
  PROVE  /\ i \in 1 .. n - 1 /\ i \in i .. i + r /\ (i + r < n \/ i + r = n)
         /\ i + r < n => \A j \in i .. i + r : j \in 1 .. n - 1
         /\ i + r = n => n \in i .. i + r
OBVIOUS

LEMMA BoundedStep ==
  ASSUME RevInd, Named, Bounded, [Next]_revisionVars
  PROVE  Bounded'
<1>1. /\ decisions \in Seq(DecisionRow) /\ Len(decisions) \in Nat
      /\ DOMAIN decisions = 1 .. Len(decisions)
      /\ RepeatMax \in Nat /\ RepeatMax >= 1
  BY ReplanAssumption, LenProperties DEF RevInd, Typed, LoopTyped
<1>2. CASE UNCHANGED decisions
  BY <1>2 DEF Bounded, Repeats
<1>3. CASE Choose
  <2>1. PICK d \in Outcomes(decider.round, decider.loaded) : decisions' = Append(decisions, d)
    BY <1>3 DEF Choose
  <2> QED
    BY <1>1, <2>1, OutcomeRow, GuardedAppend DEF RevInd, Typed
<1>4. CASE SwarmReady
  <2> DEFINE n == Len(decisions)
  <2>1. Hiring /\ decisions # <<>>
    BY <1>4 DEF SwarmReady, Hiring, RevInd, Placed
  <2>2. n \in 1 .. n /\ decisions[n] \in DecisionRow /\ Creates(n)
    BY <1>1, <2>1, LastDecision DEF RevInd, Typed, Hiring, Creates
  <2>3. decisions' = [decisions EXCEPT ![n].target = decider.created]
    BY <1>4 DEF SwarmReady
  <2>4. /\ DOMAIN decisions' = 1 .. n /\ Len(decisions') = n
        /\ \A i \in 1 .. n - 1 : decisions'[i] = decisions[i]
        /\ decisions'[n].target = decider.created
        /\ decisions'[n].action = "CREATE_SPECIALIST"
        /\ decisions'[n].forced = decisions[n].forced
    BY <1>1, <2>2, <2>3, LenProperties DEF DecisionRow, Creates
  <2>5. ASSUME NEW i \in 1 .. n - RepeatMax,
               \A j \in i .. i + RepeatMax : Same(decisions'[j], decisions'[i])
        PROVE  decisions'[i].action = "PROCEED_TO_OPTIMIZATION"
    <3>1. CASE i + RepeatMax < n
      <4>1. /\ i \in 1 .. n - RepeatMax /\ i \in i .. i + RepeatMax
            /\ \A j \in i .. i + RepeatMax : j \in 1 .. n - 1
        BY <1>1, <3>1, Window
      <4>2. Repeats(i)
        <5>1. \A j \in i .. i + RepeatMax : decisions'[j] = decisions[j]
          BY <2>4, <4>1
        <5> QED
          BY <2>5, <4>1, <5>1 DEF Repeats
      <4> QED
        BY <2>4, <4>1, <4>2 DEF Bounded
    <3>2. CASE i + RepeatMax = n
      <4>1. i \in 1 .. n /\ i \in 1 .. n - 1 /\ n \in i .. i + RepeatMax
        BY <1>1, <3>2, Window
      <4>2. Same(decisions'[n], decisions'[i]) /\ decisions'[i] = decisions[i]
        BY <2>4, <2>5, <4>1
      <4>3. Creates(i) /\ decisions[i].target = decider.created
        BY <2>4, <4>2 DEF Same, Creates
      <4> QED
        BY <1>1, <2>1, <4>1, <4>3 DEF Named
    <3>3. n \in Nat /\ RepeatMax \in Nat /\ i \in Nat /\ i <= n - RepeatMax
      BY <1>1
    <3>4. i + RepeatMax < n \/ i + RepeatMax = n
      BY <3>3
    <3> QED
      BY <3>1, <3>2, <3>4
  <2> QED
    BY <1>1, <2>2, <2>4, <2>5 DEF Bounded, Repeats
<1> QED
  BY <1>2, <1>3, <1>4, RecordSteps DEF CreateSpecialist, Move

(***************************************************************************)
(* For any limits, whatever the model proposes and however often calls are *)
(* cut off: at most ReplanMax decisions are its own, and more than         *)
(* RepeatMax alike in a row are only those to proceed.                     *)
(***************************************************************************)
THEOREM LoopIsBounded == Spec => []LoopBounded
<1>1. Init => Named /\ Bounded
  <2> SUFFICES ASSUME Init PROVE Named /\ Bounded
    OBVIOUS
  <2>1. decisions = <<>> /\ decider.pc = "idle"
    BY DEF Init, ReplanInit, Idle
  <2>2. DOMAIN decisions = {} /\ Len(decisions) = 0
    BY <2>1
  <2> QED
    BY <2>1, <2>2, ReplanAssumption DEF Named, Hiring, Bounded
<1>2. RevInd /\ RevInd' /\ Named /\ Bounded /\ [Next]_revisionVars => Named' /\ Bounded'
  BY NamedStep, BoundedStep
<1>3. RevInd /\ Bounded => LoopBounded
  <2> SUFFICES ASSUME RevInd, Bounded PROVE LoopBounded
    OBVIOUS
  <2> DEFINE own == {i \in DOMAIN decisions : ~decisions[i].forced}
  <2>1. own \subseteq 1 .. ReplanMax
    BY LenProperties DEF Bounded, RevInd, Typed, LoopTyped
  <2>2. IsFiniteSet(1 .. ReplanMax) /\ Cardinality(1 .. ReplanMax) = ReplanMax
    BY FS_Interval, ReplanAssumption
  <2>3. Cardinality(own) <= ReplanMax
    BY <2>1, <2>2, FS_Subset
  <2> QED
    BY <2>3 DEF LoopBounded, Bounded, Repeats
<1> QED
  BY <1>1, <1>2, <1>3, AlwaysTyped, PTL DEF Spec

-----------------------------------------------------------------------------
(***************************************************************************)
(* Whatever changes the basis of the plans leads to _stale_plans, or is    *)
(* cut off before it.                                                      *)
(***************************************************************************)
LEMMA OwedStep ==
  ASSUME RevInd, Owed, [Next]_revisionVars
  PROVE  Owed'
<1> USE DEF Owed
<1>1. ASSUME decider.pc # "idle" PROVE decider \in DeciderState
  BY <1>1, LoadingAt DEF RevInd, Typed
<1>2. ASSUME StopAgent \/ ReviveStrategy \/ StopNext PROVE Owed'
  <2>1. decider'.pc \in {"stopping", "staling"}
    <3>1. CASE StopNext
      <4>1. decider \in [pc : {"stopping"}, round : Nat, loaded : Rows, left : SUBSET Names(Roster)]
        BY <3>1, LoadingAt DEF StopNext, RevInd, Typed
      <4> QED
        BY <3>1, <4>1 DEF StopNext
    <3> QED
      BY <1>2, <3>1 DEF StopAgent, ReviveStrategy, Goes, At
  <2> QED
    BY <2>1
<1>3. ASSUME PruneStrategy \/ AllStopped PROVE Owed'
  <2>1. decider'.pc \in {"stopping", "staling"}
    <3>1. CASE PruneStrategy
      BY <3>1 DEF PruneStrategy
    <3>2. CASE AllStopped
      BY <3>2 DEF AllStopped, Goes, At
    <3> QED
      BY <1>3, <3>1, <3>2
  <2> QED
    BY <2>1
<1>4. ASSUME RerunAgent PROVE Owed'
  <2>1. decider'.pc = "moving" /\ UNCHANGED decisions /\ Decision.action = "RERUN_AGENT"
    BY <1>4 DEF RerunAgent, Goes, At, RevInd, Placed, Direct
  <2> QED
    BY <2>1 DEF Decision
<1>5. ASSUME CreateSpecialist PROVE Owed'
  <2>1. Decision.action = "CREATE_SPECIALIST" /\ UNCHANGED <<decisions, plans, cut>>
    BY <1>5 DEF CreateSpecialist, RevInd, Placed, Direct
  <2>2. CASE Again
    BY <1>5, <2>1, <2>2 DEF Again, CreateSpecialist
  <2>3. CASE ~Again
    <3>1. PICK i \in DOMAIN Roster :
            decider' = [pc |-> "moving", round |-> decider.round, created |-> Roster[i].name]
      BY <1>5, <2>3 DEF CreateSpecialist
    <3>2. decider'.pc = "moving"
      BY <3>1
    <3> QED
      BY <2>1, <3>2 DEF Decision
  <2> QED
    BY <2>2, <2>3
<1>6. ASSUME Move PROVE Owed'
  <2>1. UNCHANGED <<decisions, plans, cut, moved>> /\ decider.pc = "moving"
    BY <1>6 DEF Move
  <2>2. CASE Decision.action = "PROCEED_TO_OPTIMIZATION"
    BY <2>1, <2>2
  <2>3. CASE Decision.action # "PROCEED_TO_OPTIMIZATION"
    <3>1. decider'.pc \in {"readying", "staling"}
      BY <1>1, <1>6, <2>3 DEF Move, DeciderState, LoadedState, CreatedState
    <3> QED
      BY <3>1
  <2> QED
    BY <2>2, <2>3
<1>7. ASSUME SwarmReady PROVE Owed'
  <2>1. decider'.pc = "staling"
    BY <1>7 DEF SwarmReady, Goes, At
  <2> QED
    BY <2>1
<1>8. ASSUME StalePlans PROVE Owed'
  BY <1>8 DEF StalePlans, PlansAfter, Staled
<1>9. ASSUME StopRaises \/ Crash \/ CutRevision PROVE Owed'
  BY <1>9 DEF StopRaises, StopFails, Crash, CutRevision
<1>10. ASSUME Trigger PROVE Owed'
  BY <1>10 DEF Trigger, Idle
<1>11. ASSUME Choose PROVE Owed'
  BY <1>11 DEF Choose
<1>12. ASSUME Around \/ UserTurns \/ ReadMission \/ BeginRevision \/ EndRevision \/ ClaimArrives
             \/ UNCHANGED revisionVars
       PROVE  Owed'
  BY <1>12 DEF Around, AgentsRun, Returns, Optimize, ReadMission, BeginRevision,
     EndRevision, ClaimArrives, UserTurns, replanVars, revisionVars, Decision
<1>13. ASSUME WriteRevision PROVE Owed'
  <2> DEFINE keys == ChangedKeys(reviser.spec, reviser.change)
             hit == BuildDependencyGraph(ApplyChange(reviser.spec, reviser.change)).plans \cap keys # {}
  <2>1. UNCHANGED <<decider, decisions>>
    BY <1>13 DEF WriteRevision
  <2>2. cut => cut'
    BY <1>13 DEF WriteRevision
  <2>3. /\ plans' = IF hit /\ plans = "fresh" THEN "stale" ELSE plans
        /\ moved' = (moved \/ hit)
    BY <1>13 DEF WriteRevision
  <2> HIDE DEF hit
  <2>4. plans' = "fresh" => plans = "fresh" /\ ~hit
    BY <2>3
  <2>5. ASSUME plans' = "fresh", moved' PROVE moved
    BY <2>3, <2>4, <2>5
  <2> QED
    BY <2>1, <2>2, <2>4, <2>5 DEF Decision
<1> QED
  BY <1>2, <1>3, <1>4, <1>5, <1>6, <1>7, <1>8, <1>9, <1>10, <1>11, <1>12, <1>13
     DEF Next, Replans, ReplanNext, Decides, Revises

(***************************************************************************)
(* Plans made before what they rest on changed are stale once the request  *)
(* that changed it is over, unless it was cut off.                         *)
(***************************************************************************)
THEOREM ChangedPlansAreStale == Spec => []StaleBasis
<1>1. Init => Owed
  BY DEF Init, ReplanInit, Owed
<1>2. RevInd /\ Owed /\ [Next]_revisionVars => Owed'
  BY OwedStep
<1>3. Owed => StaleBasis
  BY DEF Owed, StaleBasis, Idle
<1> QED
  BY <1>1, <1>2, <1>3, AlwaysTyped, PTL DEF Spec

=============================================================================
