SPECIFICATION AloneSpec
CONSTANTS
    d1 = d1
    none = none
    u1 = u1
    s1 = s1
    Devs <- OneDev
    Users = {}
    RoleNames = {}
    AccountNames = {}
    BuiltinRoles = {}
    Containing <- NoNames
    PageSize = 100
    NoRealm = none
    NoResource = none
    NoSpec = none
    UserSpecs = {}
    MaxWrites = 3
    MaxFaults = 0
    MaxEvents = 3
    MaxToken = 2
    Resyncs = TRUE
    Tidy = FALSE
CHECK_DEADLOCK FALSE
INVARIANTS ResourcesOwned
