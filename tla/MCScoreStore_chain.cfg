SPECIFICATION Spec
INVARIANT FullChainReproduces
CONSTANTS
    None = None
    NoSet = NoSet
    Workers = {api}
    Names = {base}
    api = api
    base = base
    Parameters <- OneConservative
    Envs <- OnePlain
    Inputs <- Whole
    LastDay = 1
    MaxWrites = 1
    MaxEdits = 1
CHECK_DEADLOCK FALSE
