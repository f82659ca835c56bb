SPECIFICATION Spec
CONSTANTS
    gw1 = gw1
    gw2 = gw2
    p1 = p1
    p2 = p2
    Routers = {gw1, gw2}
    Prefixes = {p1, p2}
    Adverts <- MCAdverts
    TwoHours = 2
    Hour = 2
    Solicits = 1
    RSWait = 1
    PointToPoint = TRUE
SYMMETRY Alike
VIEW WithoutReconfirm
INVARIANTS
    HeardRouted
    
PROPERTIES
    KnownPrefixKept
