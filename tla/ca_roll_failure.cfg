SPECIFICATION Spec
CONSTANTS
    p1 = p1
    p2 = p2
    x1 = x1
    x2 = x2
    Poll = {p1}
    Xname = {x1}
    Nil = Nil
    Plain = Plain
    DefaultKey = DefaultKey
    InitialNames <- OneName
    InitialLogin <- OneLogin
    MaxTries = 2
    MaxRolls = 1
    Hazards = {"fetchFail"}
    MaxHazards = 1
PROPERTY RollSetsClient
