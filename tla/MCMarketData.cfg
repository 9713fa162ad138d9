SPECIFICATION Spec
INVARIANTS TypeOK CacheHasRow
PROPERTIES BetaSurvives PastBetaIsSettled ChartBarsStay
CONSTANTS
    None = None
    Jobs = {"api", "collector"}
    LastDay = 3
    Depth = 2
    MaxAge = 1
    MaxSplits = 1
    MaxPasses = 1
    Sectors = {tech}
    tech = tech
    Betas = {20, 1200000, 1234567}
CHECK_DEADLOCK FALSE
