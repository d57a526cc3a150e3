SPECIFICATION PlanningSpec
CONSTANT Requests = {r1, r2}
CONSTANT Questions = {"where", "when", "style"}
CONSTANT Slots <- MCSlots
CONSTANT Constraints <- MCConstraints
CONSTANT Grants <- MCGrants
CONSTANT Drafts <- MCDrafts
CONSTANT CallCap = 3
CONSTANT MaxAnswers = 2
CONSTANT MaxCrashes = 1
CONSTANT MIN_STRATEGIES = 3
CONSTANT MAX_STRATEGIES = 5
CONSTANT StrategyOverlap = 60
CONSTANT AgentOverlap = 60
CONSTANT CAP_BANDS <- MCBands
CONSTANT CAP_MAX = 4
CONSTANT Categories = 1
CONSTANT Keys = {"price", "open"}
CONSTANT Sources = {"r1", "r2", "r3"}
CONSTANT E164 = {"+1", "+2", "+3", "+4", "+5"}
CONSTANT MinPriority = 350
CONSTANT RedundantFrom = 9
CONSTANT StrategyAnswers <- MCStrategyAnswers
CONSTANT SwarmAnswers <- MCSwarmAnswers
CONSTANT Finds <- MCFinds
CONSTANT CallAnswers <- MCCallAnswers
CHECK_DEADLOCK FALSE
INVARIANT PlanningTypeOK
INVARIANT GrantNeverWidened
INVARIANT TeamRunnable
INVARIANT GapsAccountedFor
INVARIANT OneCallPerNumber
PROPERTY LoneAnswerKept
PROPERTY MissionSettles
