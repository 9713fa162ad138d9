SPECIFICATION Spec
INVARIANTS TypeOK ValuationIsEarned ScenariosAreOrdered SnapshotReplays WithdrawnIsNowhere RightSideOfFifty HighQualityIsEvidenced
CONSTANTS
    None = None
    Histories <- MCHistories
    TickerOf <- MCTickers
    BetaHistory <- MCBetaHistory
    Arrivals <- YearAndBeta
    BarDays = {25, 27}
    Closes = {2500}
    Peers = {near, gone}
    near = near
    gone = gone
    ActivePeers = {near}
    PeerTables <- MCPeerTables
    OldRows <- MCOldRows
    MinSecurities = 1
    MaxEvents = 1
CHECK_DEADLOCK FALSE
