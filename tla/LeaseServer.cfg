SPECIFICATION Spec
CONSTANTS
    c1 = c1
    c2 = c2
    host = host
    netA = netA
    netU = netU
    NoNet = NoNet
    NoStatic = NoStatic
    Clients = {c1, c2}
    Hosts = {c1, c2, host}
    Reconf = {c2}
    Statics <- MCStatics
    Nets = {netA, netU}
    PoolStart = 1
    PoolEnd = 3
    Hash <- MCHash
    ServerValid = 1
    DeclineHold = 1
    Offers <- MCOffers
    SaveFails = FALSE
    MaxTime = 2
    MaxCrashes = 1
INVARIANTS
    AddressesDistinct
    DeclinedKeptOut
PROPERTIES
    AddressKept
    PromisesKept
