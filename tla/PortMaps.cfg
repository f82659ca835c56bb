SPECIFICATION Spec
CONSTANTS
    a = a
    b = b
    c = c
    tcp = tcp
    addr1 = addr1
    NoAddr = NoAddr
    Hosts4 = {a, b}
    Hosts6 = {c}
    Protos = {tcp}
    Keys <- MCKeys
    Nonces = {0}
    Lives = {0}
    Wishes <- MCWishes
    MinExternal = 2
    MaxPort = 4
    Own <- MCOwn
    MaxPerHost = 1
    Filtered = TRUE
    Lines <- MCLines
    Listens <- MCListens
    FlushFails = FALSE
    MaxTime = 1
    LastPublish = 0
INVARIANTS
    
    OneHostPerPort
    KernelInStep
    LossAnnounced
