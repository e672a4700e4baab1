SPECIFICATION Spec
CONSTANTS
    x1 = x1
    x2 = x2
    k1 = k1
    k2 = k2
    cab1 = cab1
    Xname = {x1}
    Chassis = {k1}
    Cabinet = {cab1}
    ChassisOf <- OneChassisOf
    CabinetOf <- OneCabinetOf
    Generation = {1}
    Nil = Nil
    MaxQueued = 1
    MaxAttempts = 1
    Hazards = {}
    MaxHazards = 0
    InitialHsm = {"absent"}
INVARIANT NoMapRace
