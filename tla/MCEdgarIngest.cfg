SPECIFICATION Spec
INVARIANTS TypeOK NormalizedHasFacts FactsMeetPrices
PROPERTIES SuccessIsIngested FreshIsFresh
CONSTANTS
    Classes = {1, 2, 3, 4, 5}
    CIKs = {11, 12, 13, 14}
    CikOf <- MCCikOf
    Priced = {2, 3}
    Barren = {13}
    Concepts = {"kept", "old", "new"}
    Produces <- MCProduces
    Undated = {"old"}
    DefaultCompany = 3
    Runs = {"force", "reingest", "collect"}
    Args <- Mixed
    PendingLimit = 2
    Faults = {"download", "db", "crash"}
CHECK_DEADLOCK FALSE
