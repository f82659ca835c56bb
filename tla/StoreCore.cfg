SPECIFICATION Spec
CONSTANTS
    LanOrder <- MCOrder
    Prefixes <- MCPrefixes
    Size <- MCSize
    Private <- MCPrivate
    Configs <- WithUlaOrNot
    Offers <- CoreOffers
    Extras = {"x"}
    Infos = {"none", "dns"}
    NoInfo = "none"
    Prefer = "pd"
    Hold = 2
    WanHold = 1
    Grace = 1
    Settle = 1
    UlaPref = 5
    UlaValid = 9
    Consumers = {}
    SaveFails = TRUE
    MaxTime = 4
    LastUpdate = 1
    MaxCrashes = 1
INVARIANTS
    
    ExpiryArmed
PROPERTIES
    StaleHeld
    NothingDropped
    EarlyPDRevokesNothing
CHECK_DEADLOCK FALSE
