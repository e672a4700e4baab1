SPECIFICATION Spec
CONSTANTS
    MTN_SWITCH_COUNT = 2
    MTN_nC_PER_SLOT = 2
    Listed <- ThreeChassis
    HMNPrefix <- Prefixes
    NoPrefix = NoPrefix
    MAC_PREFIX = MAC_PREFIX
    Nil = Nil
    Hazards = {"getFail", "writeFail", "stranger", "removed", "crash"}
    MaxHazards = 2
INVARIANTS
    TypeOK
    InterfacesRight
    FqdnRight
PROPERTIES
    OwnerKept
    AllInitialised
