SPECIFICATION FairPagesSpec
INVARIANTS TypeOK MutualExclusion StatusIsTruthful NoRepeatedWork DashboardNotEarly PageNotEarly
PROPERTIES QueueIsFIFO ResultIsFinal ImplementsSlot QueueIsServed PagesStop
CONSTANTS
    Tickers = {A, B}
    Stages = {prices}
    MaxCalls = 3
    A = A
    B = B
    prices = prices
CHECK_DEADLOCK FALSE
