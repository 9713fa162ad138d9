SPECIFICATION Spec
CONSTANTS
    Targets <- One
    MaxDate = 2
    Workers = {api, cli}
    Jobs <- Refreshes
    Passes <- OneEach
    Values = {"good"}
    Faults = {"step", "crash"}
SYMMETRY Alike
CHECK_DEADLOCK FALSE
INVARIANTS
    TypeOK
PROPERTIES
    ChainIsOfItsDate
    PassIsComplete
