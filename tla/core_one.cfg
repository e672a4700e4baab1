SPECIFICATION Spec
CONSTANTS
    x1 = x1
    x2 = x2
    k1 = k1
    k2 = k2
    cab1 = cab1
    Xname = {x1}
    Chassis = {k1}
    Cabinet = {cab1}
    ChassisOf <- OneChassisOf
    CabinetOf <- OneCabinetOf
    Generation = {1, 2}
    Nil = Nil
    MaxQueued = 1
    MaxAttempts = 2
    Hazards = {"slsFail", "chassisFail", "initFail", "hsmFail", "lostReply",
               "probeFail", "credsFail", "nwpFail", "caRoll", "crash",
               "disable", "slsEdit", "reclass", "power"}
    MaxHazards = 2
    InitialHsm = {"absent", "disabled", "enabled"}
INVARIANTS
    TypeOK
    LockDiscipline
    RegistryOK
    QuitReceived
    SyncVerdictStands
    SyncNeverWaitsForItself
    PresentMeansRecorded

    
