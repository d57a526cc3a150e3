SPECIFICATION FairRunnerSpec
CONSTANTS
  a1 = a1
  a2 = a2
  a3 = a3
  SwarmTask = SwarmTask
  Stopper = Stopper
  NoAgent = NoAgent
  Agents <- ThreeAgents
  Graphs <- SomeGraphs
  Concurrency = 2
  MaxTurns = 1
  MaxStops = 1
  MaxFaults = 1
INVARIANT SwarmSettles
PROPERTY KeepsPromise
PROPERTY SwarmEnds
CHECK_DEADLOCK FALSE
