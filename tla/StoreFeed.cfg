SPECIFICATION FairSpec
CONSTANTS
    LanOrder <- MCOneLan
    Prefixes <- MCPrefixes
    Size <- MCSize
    Private <- MCPrivate
    Configs <- OneLan
    Offers <- LineOffers
    Extras = {}
    Infos = {"none", "dns"}
    NoInfo = "none"
    Prefer = "pd"
    Hold = 1
    WanHold = 1
    Grace = 1
    Settle = 1
    UlaPref = 5
    UlaValid = 9
    Consumers = {"lan1"}
    SaveFails = FALSE
    MaxTime = 3
    LastUpdate = 1
    MaxCrashes = 0
INVARIANTS
    NewestCoversCur
PROPERTIES
    LabelTellsChange
    StaleLeaves
    RAReachesLAN
CHECK_DEADLOCK FALSE
