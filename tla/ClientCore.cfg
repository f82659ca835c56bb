SPECIFICATION Spec
CONSTANTS
    Grants <- AllGrants
    InUse <- XInUse
    T1 = 1
    T2 = 2
    Valid = 3
    LinkCap = 2
    Hinted = TRUE
    RaOther = TRUE
    ReleaseOn = TRUE
    Answers = TRUE
    MayCancel = TRUE
    Notices <- Anything
INVARIANTS
    StoreInStep
    AddrsInStep
    
