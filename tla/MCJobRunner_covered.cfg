SPECIFICATION Spec
CONSTANTS
    Tickers = {A}
    Stages = {prices}
    MaxCalls = 4
    A = A
    prices = prices
PROPERTIES
    RequestIsCovered
CHECK_DEADLOCK FALSE
