SPECIFICATION Spec
CONSTANTS
    net = net
    s0 = s0
    s1 = s1
    s2 = s2
    f0 = f0
    t1 = t1
    t2 = t2
    t3 = t3
    t4 = t4
    na = na
    e0 = e0
    Prefixes64 = {net}
    Policies = {1, 2}
    IID <- StableAndFixed
    TempPool <- Temps
    PrefixOf <- Within
    Leased = na
    Leftovers = {}
    Snapshots <- Mixed
    Announcements = 1
    MaxTemps = 2
    MaxEvents = 4
    MaxFails = 1
    MaxCounter = 2
PROPERTIES
    LeasedKept
CHECK_DEADLOCK FALSE
