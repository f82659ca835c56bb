SPECIFICATION Spec
CONSTANTS
    h1 = h1
    h2 = h2
    h3 = h3
    Unspecified = Unspecified
    Hosts = {h1, h2, h3}
    MaxSessions = 2
    MaxAskers = 1
    TTL = 2
    ProbeTime = 1
    Layout = "split"
    Modes = {"forward", "prefix"}
SYMMETRY Alike
VIEW WithoutReplies
INVARIANTS
    Bounded
    LearnedRouted
PROPERTIES
    ConfirmedKept
    
