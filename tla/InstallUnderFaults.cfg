SPECIFICATION InstallSpec
CONSTANTS
    d1 = d1
    none = none
    u1 = u1
    s1 = s1
    Devs <- OneDev
    Users <- OneUser
    RoleNames = {}
    AccountNames = {}
    BuiltinRoles = {}
    Containing <- NoNames
    PageSize = 100
    NoRealm = none
    NoResource = none
    NoSpec = none
    UserSpecs <- OneSpec
    MaxWrites = 3
    MaxFaults = 1
    MaxEvents = 3
    MaxToken = 2
    Resyncs = TRUE
    Tidy = TRUE
CHECK_DEADLOCK FALSE
INVARIANTS DevIInv RealmIInv ResourceIInv RealmServes StagesComplete ReferencesResolve
PROPERTIES PhaseOrder RealmStable FinalizerHolds OwnedResourcesStay ImplementsLifecycle
