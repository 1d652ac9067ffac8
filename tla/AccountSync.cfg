SPECIFICATION SyncSpec
CONSTANTS
    d1 = d1
    u1 = u1
    u2 = u2
    s1 = s1
    s2 = s2
    s3 = s3
    none = none
    Devs <- OneDev
    Users <- TwoUsers
    RoleNames <- MCRoleNames
    AccountNames <- MCAccountNames
    BuiltinRoles <- MCBuiltinRoles
    Containing <- MCContaining
    PageSize = 100
    DefaultRoles <- MCDefaultRoles
    DefaultUsers <- MCDefaultUsers
    UserSpecs <- TwoSpecs
    SpecRoles <- MCSpecRoles
    SpecUsers <- MCSpecUsers
    NoRealm = none
    NoResource = none
    NoSpec = none
    MaxWrites = 3
    MaxFaults = 1
    MaxEvents = 3
    Resyncs = TRUE
    Tidy = TRUE
SYMMETRY AnyUser
CHECK_DEADLOCK FALSE
INVARIANTS SyncIInv UserCtlTypeOK RunReconciles DefaultAccountsStay
