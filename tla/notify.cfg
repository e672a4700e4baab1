SPECIFICATION FairSpec
CONSTANTS
    p1 = p1
    p2 = p2
    x1 = x1
    x2 = x2
    Poll = {p1, p2}
    Xname = {x1, x2}
    Nil = Nil
    Plain = Plain
    DefaultKey = DefaultKey
    InitialNames <- Names
    InitialLogin <- Logins
    MaxTries = 2
    MaxRolls = 1
    Hazards = {"fetchFail", "lookupFail", "probeFail", "vaultFail", "refused",
               "storeFail", "nwpFail", "hsmFail", "admin", "key", "crash"}
    MaxHazards = 1
INVARIANTS
    TypeOK
    
    OwnKeyOnly
    
PROPERTIES
    ClientStableInUse
    CredentialsKept
    TrafficResumes
    
    Announced
