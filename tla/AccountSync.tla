---------------------------- MODULE AccountSync ----------------------------
(***************************************************************************)
(* The RhpamUser controller and the realm it keeps: a RhpamDev that has    *)
(* just been given its realm, or is complete with the default roles and    *)
(* accounts, and RhpamUsers that are created, edited and deleted while     *)
(* runs are under way.  Account names may contain each other: Keycloak's   *)
(* search by name, of which FindUserByUsername takes the first answer,     *)
(* then finds the wrong one.                                               *)
(***************************************************************************)
EXTENDS RhpamUser

\* The realm as ProvisionRealm leaves it, and as Accepted does.
Empty(r) ==
    /\ roles = {r} \X BuiltinRoles
    /\ accounts = {} /\ grants = {}

Filled(r) ==
    LET defaults == ToSet(DefaultUsers)
    IN  /\ roles = {r} \X (BuiltinRoles \cup ToSet(DefaultRoles))
        /\ accounts = {r} \X {x.username : x \in defaults}
        /\ grants = UNION {{<<r, x.username, role>> :
                               role \in BuiltinRoles \cup ToSet(x.roles)} :
                           x \in defaults}

SyncInit ==
    \E d \in Devs, phase \in {PhaseRealmProvisioned, PhaseComplete} :
        LET r == <<d, 1>>
            provisioned == [D!Created(1, NoSpec) EXCEPT
                               !.fin = TRUE, !.phase = phase, !.realm = r]
        IN  /\ dev = [e \in Devs |-> IF e = d THEN provisioned ELSE D!Absent(0)]
            /\ devCache = dev
            /\ devWatch = [e \in Devs |-> {}]
            /\ devQueue = {}
            /\ U!Init
            /\ res = [x \in Resources |-> [owner |-> d, uid |-> 1, realm |-> r]]
            /\ seen = Typed
            /\ dbReady = TRUE
            /\ writes = 0 /\ faults = 0
            /\ realms = {r} /\ clients = {r} \X ClientIds /\ lastToken = 1
            /\ IF phase = PhaseComplete THEN Filled(r) ELSE Empty(r)
            /\ ujob = UserIdle

\* The RhpamDev controller, once the realm is filled.
Install(d) ==
    /\ dev[d].phase = PhasePrepare
    /\ D!Update(d, [dev[d] EXCEPT !.phase = PhaseComplete])
    /\ UNCHANGED <<devCache, devQueue, userVars, resVars, budget>>

\* The users, the informers, the other controller and crashes.
Surroundings ==
    /\ \/ /\ UNCHANGED ujob
          /\ \E u \in Users : \/ CreateUser(u) \/ EditUser(u) \/ DeleteUser(u)
                              \/ DeliverUser(u) \/ ResyncUser(u)
       \/ /\ UNCHANGED ujob
          /\ \E d \in Devs : Install(d) \/ DeliverDev(d)
       \/ RestartCluster /\ ujob' = UserIdle
    /\ UNCHANGED ssoVars

SyncNext == UserController \/ Surroundings

SyncSpec == SyncInit /\ [][SyncNext]_userCtlVars

-----------------------------------------------------------------------------
(* Properties.                                                             *)

\* A name the search for no other name finds, and whose own search finds no
\* other.
Clear(a) == \A b \in AccountNames \ {a} : a \notin Containing[b] /\ b \notin Containing[a]

\* A run of Reconcile that has made all its calls.
Reconciled ==
    /\ ujob.pc = "save"
    /\ ujob.to = PhaseReconcile
    /\ ujob.copy.phase = PhaseReconcile

Accounts == InRealm(ujob.realm, accounts)
HasRoles(a, wanted) == wanted \subseteq GrantsHere(a)
OnlyRoles(a, wanted) == GrantsHere(a) \subseteq wanted \cup BuiltinRoles

\* A run of Reconcile leaves what the specification it read asks for, though
\* it starts from what edits, crashes, failed and half-done runs have left and
\* deals with the differences in any order: the roles exactly, and of the
\* accounts with clear names those of the specification with their roles.
\* Others may be left, besides the default ones, only by a failed delete.
RunReconciles ==
    Reconciled =>
        LET wanted == SpecUsers[ujob.copy.spec]
        IN  /\ RolesHere = SpecRoles[ujob.copy.spec] \cup ToSet(DefaultRoles)
            /\ \A a \in DOMAIN wanted : Clear(a) =>
                  a \in Accounts /\ HasRoles(a, wanted[a]) /\ OnlyRoles(a, wanted[a])
            /\ faults = 0 =>
                  \A a \in Accounts : Clear(a) => a \in DOMAIN wanted \/ isDefaultUser(a)

\* From the hand-over of a RhpamDev on its realm has the default accounts,
\* although a delete takes any account whose name contains the one to delete:
\* createUser finds the default account as well and never makes the one that
\* would be deleted.  A lookup that fails at that moment breaks this.
DefaultAccountsStay ==
    faults = 0 =>
        \A d \in Devs : dev[d].phase \in {PhasePrepare, PhaseComplete} =>
            \A i \in DOMAIN DefaultUsers :
                <<dev[d].realm, DefaultUsers[i].username>> \in accounts

-----------------------------------------------------------------------------
(* Why these hold: an invariant that is inductive.                         *)

\* Under this condition Accepted makes every default account: no search for
\* one finds another.
DefaultsApart ==
    \A a, b \in AccountNames :
        isDefaultUser(a) /\ isDefaultUser(b) /\ a # b => b \notin Containing[a]

\* What a realm has that was handed over.
DefaultAccountsIn(r) ==
    \A i \in DOMAIN DefaultUsers : <<r, DefaultUsers[i].username>> \in accounts

HasDefaults(r) ==
    /\ \A i \in DOMAIN DefaultRoles : <<r, DefaultRoles[i]>> \in roles
    /\ DefaultsApart /\ faults = 0 => DefaultAccountsIn(r)

\* The search for the name a finds no default account.
Harmless(a) == \A b \in AccountNames : isDefaultUser(b) => b \notin Containing[a]

Serving == {r \in RealmIds : HasDefaults(r)}

\* Mappings go with their account.  The accounts of a realm are default ones
\* until all of these are there; no other is ever confused with one.
RealmsSound ==
    /\ \A g \in grants : <<g[1], g[2]>> \in accounts
    /\ DefaultsApart /\ faults = 0 =>
          \A x \in accounts :
             \/ isDefaultUser(x[2])
             \/ Harmless(x[2]) /\ DefaultAccountsIn(x[1])

\* An object whose phase says that its realm was filled names such a realm.
Vouched(v, phases) == v.phase \in phases => v.realm \in Serving
HandedOver == {PhasePrepare, PhaseComplete}

ObjectsVouched ==
    /\ \A d \in Devs : \A v \in {dev[d], devCache[d]} \cup devWatch[d] :
          Vouched(v, HandedOver)
    /\ \A u \in Users : \A v \in {user[u], userCache[u]} \cup userWatch[u] :
          Vouched(v, {PhaseReconcile})

\* So does a run: it sets the phase when it has filled the realm, or lists the
\* differences of one that was.  A run of Deprovision only deletes.
RunVouched ==
    ujob # UserIdle =>
        /\ \A x \in ToSet(ujob.devs) : Vouched(x[2], {PhaseComplete})
        /\ Vouched(ujob.copy, {PhaseReconcile})
        /\ ujob.pc \in {"devs", "fill", "handOff"} => ujob.copy.phase = PhaseAccepted
        /\ ujob.pc \in {"devs", "handOff"} => ujob.filled = 0
        /\ ujob.pc \in {"fill", "handOff"} =>
              /\ ujob.to = PhaseReconcile
              /\ ujob.realm = Head(ujob.devs)[2].realm
        /\ ujob.pc \in {"listRoles", "roles", "listUsers", "users"} =>
              /\ ujob.copy.phase = PhaseReconcile
              /\ ujob.to = PhaseReconcile
              /\ ujob.realm \in Serving
        /\ ujob.pc \in {"purge", "purgeUsers", "listPurge", "purgeRoles"} =>
              ujob.to = PhaseDeprovisioned
        /\ ujob.pc \in {"purgeUsers", "purgeRoles"} =>
              \A x \in ujob.plan : x.op \in {"deleteUser", "deleteRole"}
        /\ ujob.pc \in {"devs", "handOff", "save"} /\ ujob.to = PhaseReconcile =>
              ujob.realm \in Serving

\* What is planned takes neither a default role nor, by mistake or not, a
\* default account.
TakesNoDefault(x) ==
    /\ x.op = "deleteRole" => ~isDefaultRole(x.role)
    /\ x.op = "deleteUser" /\ DefaultsApart /\ faults = 0 => Harmless(x.account)

PlanTakesNoDefault == ujob # UserIdle => \A x \in ujob.plan : TakesNoDefault(x)

\* A run of Accepted has made all default roles and accounts but those of the
\* calls it has left, and these take nothing away.
AddsDefaults(x) ==
    \/ x.op \in {"createRole", "grant"}
    \/ x.op = "createUser" /\ isDefaultUser(x.account)

FillGoesOn ==
    ujob.pc = "fill" =>
        LET left == ToSet(ujob.todo)
            k == ujob.filled
        IN  /\ \A x \in left : AddsDefaults(x)
            /\ \A i \in DOMAIN DefaultRoles :
                  \/ <<ujob.realm, DefaultRoles[i]>> \in roles
                  \/ k = 0 /\ CreateRole(DefaultRoles[i]) \in left
            /\ DefaultsApart /\ faults = 0 =>
                  \A i \in DOMAIN DefaultUsers :
                     LET a == DefaultUsers[i].username
                     IN  \/ <<ujob.realm, a>> \in accounts
                         \/ i > k
                         \/ i = k /\ CreateUserIn(a) \in left

\* A run of Reconcile has dealt with all differences but those of its plan: of
\* the roles, then of the accounts with clear names.
WantedRoles == SpecRoles[ujob.copy.spec]
Wanted == SpecUsers[ujob.copy.spec]
RolesSettled == RolesHere = WantedRoles \cup ToSet(DefaultRoles)

RolesGoOn ==
    ujob.pc = "roles" =>
        /\ \A r \in WantedRoles \ RolesHere : CreateRole(r) \in ujob.plan
        /\ \A r \in RolesHere \ WantedRoles :
              isDefaultRole(r) \/ DeleteRole(r) \in ujob.plan
        /\ \A x \in ujob.plan :
              \/ x.op = "createRole" /\ x.role \in WantedRoles
              \/ x.op = "deleteRole" /\ x.role \notin WantedRoles

\* The plan asks for what the specification does, one account at a time.
PlanFollows(x) ==
    IF x.account \in DOMAIN Wanted
    THEN /\ x.op # "deleteUser"
         /\ x.op = "grant" => x.role \in Wanted[x.account]
         /\ x.op = "revoke" => x.role \notin Wanted[x.account]
    ELSE x.op = "deleteUser"

WantedGoesOn(a) ==
    /\ a \in Accounts \/ CreateUserIn(a) \in ujob.plan
    /\ \A r \in Wanted[a] \ GrantsHere(a) : Grant(a, r) \in ujob.plan
    /\ \A r \in GrantsHere(a) \ (Wanted[a] \cup BuiltinRoles) :
          Revoke(a, r) \in ujob.plan

AccountsGoOn ==
    ujob.pc = "users" \/ Reconciled =>
        /\ \A x \in ujob.plan : PlanFollows(x)
        /\ Reconciled => ujob.plan = {}
        /\ \A a \in DOMAIN Wanted : Clear(a) => WantedGoesOn(a)
        /\ faults = 0 =>
              \A a \in Accounts \ DOMAIN Wanted : Clear(a) =>
                 isDefaultUser(a) \/ DeleteUserIn(a) \in ujob.plan

ReconcileGoesOn ==
    ujob # UserIdle =>
        /\ RolesGoOn
        /\ ujob.pc \in {"listUsers", "users"} \/ Reconciled => RolesSettled
        /\ OnePage => AccountsGoOn

SyncIInv ==
    /\ UserCtlTypeOK /\ D!CopiesSound /\ UserRunSound
    /\ RealmsSound /\ ObjectsVouched /\ RunVouched /\ PlanTakesNoDefault
    /\ FillGoesOn /\ ReconcileGoesOn

-----------------------------------------------------------------------------
(* What the comments of the code say of it.                                *)

\* rhpamuser/phaseHandler.go: "reconcile roles".  After a run that met no
\* error, an account of the specification that is there has the listed roles.
RolesReconciled ==
    Reconciled /\ faults = 0 =>
        LET wanted == SpecUsers[ujob.copy.spec]
        IN  \A a \in DOMAIN wanted \cap Accounts : HasRoles(a, wanted[a])
=============================================================================
