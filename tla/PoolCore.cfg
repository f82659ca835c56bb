SPECIFICATION Spec
CONSTANTS
    lan1 = lan1
    lan2 = lan2
    r1 = r1
    r2 = r2
    Ifaces = {lan1, lan2}
    Routers = {r1, r2}
    Peers <- OwnPeer
    Hash <- MCHash
    Collide = 0
    PLen = 63
    MaxProbes = 4096
    ServerValid = 1
    Offers <- Renumber
    Hints <- Wider
    SaveFails = FALSE
    MaxTime = 2
    LastPublish = 0
    MaxCrashes = 1
SYMMETRY Alike
INVARIANTS
    DelegationsDisjoint
    LiveRouted
    NeverRefusedWhileFree
    FirewallInStep
PROPERTIES
    PromisesKept
