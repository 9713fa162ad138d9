SPECIFICATION Spec
INVARIANTS TypeOK ReplayReproduces
PROPERTIES SetsCoexist BackfillIsInvisible
SYMMETRY Symmetry
CONSTANTS
    None = None
    NoSet = NoSet
    Workers = {api, cli}
    Names = {base}
    api = api
    cli = cli
    base = base
    Parameters <- SafetyParameters
    Envs <- SafetyEnvs
    Inputs <- Typical
    LastDay = 2
    MaxWrites = 2
    MaxEdits = 2
CHECK_DEADLOCK FALSE
