SPECIFICATION Spec
CONSTANTS
    x1 = x1
    x2 = x2
    k1 = k1
    k2 = k2
    cab1 = cab1
    Xname = {x1, x2}
    Chassis = {k1, k2}
    Cabinet = {cab1}
    ChassisOf <- TwoChassisOf
    CabinetOf <- TwoCabinetOf
    Generation = {1}
    Nil = Nil
    MaxQueued = 1
    MaxAttempts = 1
    Hazards = {"crash", "slsEdit", "hsmFail", "delete", "disable"}
    MaxHazards = 1
    InitialHsm = {"absent", "enabled"}
INVARIANTS
    RegistryOK
    BootKnownNeverNotified
