SPECIFICATION Spec
CONSTANTS
    Targets <- One
    MaxDate = 2
    Workers = {"api", "cli"}
    Jobs <- Chained
    Passes <- TwoEach
    Values = {"good"}
    Faults = {}
INVARIANTS
    NoLaterFiling
