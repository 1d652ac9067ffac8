SPECIFICATION AloneSpec
CONSTANTS
    d1 = d1
    none = none
    u1 = u1
    s1 = s1
    Devs <- OneDev
    Users = {}
    RoleNames = {}
    AccountNames = {}
    BuiltinRoles = {}
    Containing <- NoNames
    PageSize = 100
    NoRealm = none
    NoResource = none
    NoSpec = none
    UserSpecs = {}
    MaxWrites = 2
    MaxFaults = 0
    MaxEvents = 2
    MaxToken = 2
    Resyncs = TRUE
    Tidy = TRUE
CHECK_DEADLOCK FALSE
INVARIANTS SecretsMatchRealm
