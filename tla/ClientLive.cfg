SPECIFICATION FairSpec
CONSTANTS
    Grants <- PDGrants
    InUse <- XInUse
    T1 = 1
    T2 = 1
    Valid = 2
    LinkCap = 1
    Hinted = FALSE
    RaOther = FALSE
    ReleaseOn = FALSE
    Answers = TRUE
    MayCancel = TRUE
    Notices <- Same
PROPERTIES
    Exits
    Recovers
