SPECIFICATION Spec
INVARIANT UniverseIsIngested
CONSTANTS
    Classes = {1, 2, 3, 4, 5}
    CIKs = {11, 12, 13, 14}
    CikOf <- MCCikOf
    Priced = {2, 3}
    Barren = {13}
    Concepts = {"kept", "old", "new"}
    Produces <- MCProduces
    Undated = {}
    DefaultCompany = 3
    Runs = {"collect", "reingest"}
    Args <- Again
    PendingLimit = 5
    Faults = {"download"}
CHECK_DEADLOCK FALSE
