SPECIFICATION FairSpec
CONSTANT Roster <- MCRoster
CONSTANT Strategies = {"s"}
CONSTANT StrategyOf <- MCStrategyOf
CONSTANT Fixed = 0
CONSTANT Offered <- MCOffered
CONSTANT Specs <- MCSpecs
CONSTANT FirstSpec <- MCFirstSpec
CONSTANT MAX_ROUNDS = 2
CONSTANT ReplanMax = 2
CONSTANT RepeatMax = 1
CONSTANT MaxRuns = 3
CONSTANT MaxTriggers = 1
CONSTANT MaxCrashes = 1
CONSTANT Changes <- MCChanges
CONSTANT AgentKeys <- MCAgentKeys
CONSTANT StrategyKeys <- MCStrategyKeys
CONSTANT PlanKeys = {"budget"}
CONSTANT OwnersOf <- MCOwnersOf
CONSTANT MaxRevisions = 2
CONSTANT MIN_STRATEGIES = 3
CONSTANT MAX_STRATEGIES = 5
CONSTANT StrategyOverlap = 60
CONSTANT AgentOverlap = 60
CONSTANT CAP_BANDS <- MCBands
CONSTANT CAP_MAX = 2
CHECK_DEADLOCK FALSE
INVARIANT ReplanTypeOK
INVARIANT LoopBounded
INVARIANT StaleBasis
 
PROPERTY ReplanSettles
