SPECIFICATION TwoControllersSpec
CONSTANTS
    d1 = d1
    d2 = d2
    u1 = u1
    u2 = u2
    s1 = s1
    s2 = s2
    none = none
    Devs <- OneDev
    Users <- OneUser
    RoleNames <- MCRoleNames
    AccountNames <- MCAccountNames
    BuiltinRoles <- MCBuiltinRoles
    Containing <- MCContaining
    PageSize = 100
    DefaultRoles <- MCDefaultRoles
    DefaultUsers <- MCDefaultUsers
    UserSpecs <- OneSpec
    SpecRoles <- MCSpecRoles
    SpecUsers <- MCSpecUsers
    NoRealm = none
    NoResource = none
    NoSpec = none
    MaxWrites = 4
    MaxFaults = 1
    MaxEvents = 4
    MaxToken = 1
    Resyncs = FALSE
    Tidy = TRUE
CHECK_DEADLOCK FALSE
INVARIANTS OperatorIInv DefaultsServe DefaultsIInv PurgeIInv LeaveIInv
PROPERTIES UserFinalizerHolds UserPurged
