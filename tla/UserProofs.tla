------------------------------ MODULE UserProofs ------------------------------
(***************************************************************************)
(* Type correctness of the RhpamUser controller, and what a run of it      *)
(* knows of the RhpamDevs it has listed, for any instance: the lemmas the  *)
(* theorems about Operator cite.                                           *)
(***************************************************************************)
EXTENDS RhpamUser, RhpamDevProofs, FiniteSetTheorems, FunctionTheorems

-----------------------------------------------------------------------------
(* What is asked of Keycloak.                                              *)

\* The requests the handlers build.
LEMMA ChangeType ==
    /\ \A r \in RoleNames : CreateRole(r) \in Changes /\ DeleteRole(r) \in Changes
    /\ \A a \in AccountNames : /\ CreateUserIn(a) \in AccountChanges
                               /\ DeleteUserIn(a) \in AccountChanges
    /\ \A a \in AccountNames, r \in RoleNames :
          Grant(a, r) \in AccountChanges /\ Revoke(a, r) \in AccountChanges
    /\ AccountChanges \subseteq Changes
BY DEF Changes, RoleChanges, AccountChanges, CreateRole, DeleteRole, CreateUserIn,
   DeleteUserIn, Grant, Revoke

\* A list of calls of Accepted, and that there is always one to make.
LEMMA FillCallsType ==
    ASSUME NEW k \in 0..Len(DefaultUsers)
    PROVE  FillCalls(k) \in Seq(Changes) /\ FillCalls(k) # <<>>
<1>1. CASE k = 0
  <2>1. DefaultRoles \in Seq(RoleNames) /\ DefaultRoles # <<>>
    BY DefaultsAssumption
  <2>2. /\ Len(DefaultRoles) \in Nat \ {0}
        /\ \A i \in 1..Len(DefaultRoles) : DefaultRoles[i] \in RoleNames
    BY <2>1
  <2>3. FillCalls(k) = [i \in 1..Len(DefaultRoles) |-> CreateRole(DefaultRoles[i])]
    BY <1>1, <2>1 DEF FillCalls
  <2>4. \A i \in 1..Len(DefaultRoles) : CreateRole(DefaultRoles[i]) \in Changes
    BY <2>2, ChangeType
  <2>5. FillCalls(k) \in [1..Len(DefaultRoles) -> Changes]
    BY <2>3, <2>4
  <2>. QED  BY <2>2, <2>5
<1>2. CASE k # 0
  <2>. DEFINE x == DefaultUsers[k]
              maps == [i \in DOMAIN x.roles |-> Grant(x.username, x.roles[i])]
  <2>1. x.username \in AccountNames /\ x.roles \in Seq(RoleNames)
    <3>. DEFINE Record == [username: AccountNames, roles: Seq(RoleNames)]
    <3>1. DefaultUsers \in Seq(Record) /\ k \in 1..Len(DefaultUsers)
      BY <1>2, DefaultsAssumption
    <3>2. DefaultUsers[k] \in Record
      <4>. HIDE DEF Record
      <4>. QED  BY <3>1
    <3>. QED  BY <3>2
  <2>2. maps \in Seq(Changes)
    <3>1. \A i \in 1..Len(x.roles) : x.roles[i] \in RoleNames
      BY <2>1
    <3>2. \A i \in 1..Len(x.roles) : Grant(x.username, x.roles[i]) \in Changes
      BY <2>1, <3>1, ChangeType
    <3>3. maps \in [1..Len(x.roles) -> Changes] /\ Len(x.roles) \in Nat
      BY <2>1, <3>2
    <3>. QED  BY <3>3
  <2>3. <<CreateUserIn(x.username)>> \in Seq(Changes)
    BY <2>1, ChangeType
  <2>4. FillCalls(k) = <<CreateUserIn(x.username)>> \o maps
    BY <1>2 DEF FillCalls
  <2>. HIDE DEF maps
  <2>. QED  BY <2>2, <2>3, <2>4
<1>. QED  BY <1>1, <1>2

\* There are finitely many default users, one after the other.
LEMMA DefaultUsersLength == Len(DefaultUsers) \in Nat /\ 0 \in 0..Len(DefaultUsers)
<1>. DEFINE Record == [username: AccountNames, roles: Seq(RoleNames)]
<1>1. DefaultUsers \in Seq(Record)
  BY DefaultsAssumption
<1>. HIDE DEF Record
<1>. QED  BY <1>1

\* The request that reaches the account found for a name is one of the same
\* kind.
LEMMA ResolvedType ==
    ASSUME KeycloakTypeOK, NEW r, NEW x \in Changes, NEW y \in Resolved(r, x)
    PROVE  y \in Changes /\ y.op = x.op
<1>1. CASE x \in RoleChanges
  BY <1>1 DEF Resolved, RoleChanges
<1>2. CASE x \in AccountChanges
  <2>1. FindUserByUsername(r, x.account) \subseteq AccountNames
    BY <1>2, AccountsAssumption DEF FindUserByUsername, AccountChanges
  <2>2. \A a \in AccountNames : /\ [x EXCEPT !.account = a] \in Changes
                                /\ [x EXCEPT !.account = a].op = x.op
    BY <1>2 DEF Changes, AccountChanges
  <2>. QED  BY <1>2, <2>1, <2>2 DEF Resolved, Changes
<1>. QED  BY <1>1, <1>2 DEF Changes

\* What a request leaves behind in a realm.
LEMMA SsoChangeType ==
    ASSUME KeycloakTypeOK, NEW r \in RealmIds, NEW x \in Changes, SsoChange(r, x)
    PROVE  KeycloakTypeOK' /\ UNCHANGED <<realms, clients, lastToken>>
<1>. USE DEF KeycloakTypeOK
<1>0. UNCHANGED <<realms, clients, lastToken>>
  BY DEF SsoChange
<1>1. CASE x \in RoleChanges
  <2>. USE DEF RoleChanges
  <2>1. CASE x.op = "createRole"
    BY <1>0, <1>1, <2>1 DEF SsoChange
  <2>2. CASE x.op = "deleteRole"
    BY <1>0, <1>1, <2>2 DEF SsoChange
  <2>. QED  BY <1>1, <2>1, <2>2
<1>2. CASE x \in [op: {"createUser", "deleteUser"}, account: AccountNames]
  <2>1. CASE x.op = "createUser"
    <3>1. /\ roles' = roles
          /\ accounts' = accounts \cup {<<r, x.account>>}
          /\ \/ grants' = grants
             \/ grants' = grants \cup
                    {<<r, x.account, b>> :
                        b \in {b \in BuiltinRoles : <<r, b>> \in roles}}
      BY <1>2, <2>1 DEF SsoChange
    <3>2. x.account \in AccountNames /\ BuiltinRoles \subseteq RoleNames
      BY <1>2, BuiltinRolesAssumption
    <3>3. grants' \subseteq RealmIds \X AccountNames \X RoleNames
      <4>1. \A b \in BuiltinRoles :
               <<r, x.account, b>> \in RealmIds \X AccountNames \X RoleNames
        BY <3>2
      <4>2. ASSUME NEW g \in grants'
            PROVE  g \in grants \/ \E b \in BuiltinRoles : g = <<r, x.account, b>>
        BY <3>1
      <4>. QED  BY <4>1, <4>2
    <3>4. accounts' \subseteq RealmIds \X AccountNames
      BY <3>1, <3>2
    <3>. QED  BY <1>0, <3>1, <3>3, <3>4
  <2>2. CASE x.op = "deleteUser"
    BY <1>0, <1>2, <2>2 DEF SsoChange
  <2>. QED  BY <1>2, <2>1, <2>2
<1>3. CASE x \in [op: {"grant", "revoke"}, account: AccountNames, role: RoleNames]
  BY <1>0, <1>3 DEF SsoChange
<1>. QED  BY <1>1, <1>2, <1>3 DEF Changes, AccountChanges

\* What a request takes away.
LEMMA ChangeTakes ==
    ASSUME NEW q, NEW y \in Changes, SsoChange(q, y)
    PROVE  /\ \A p \in roles : \/ p \in roles'
                               \/ y.op = "deleteRole" /\ p = <<q, y.role>>
           /\ \A p \in accounts : \/ p \in accounts'
                                  \/ y.op = "deleteUser" /\ p = <<q, y.account>>
           /\ \A g \in grants : \/ g \in grants'
                                \/ y.op = "deleteRole" /\ g[3] = y.role
                                \/ y.op = "deleteUser" /\ g[2] = y.account
                                \/ /\ y.op = "revoke"
                                   /\ g = <<q, y.account, y.role>>
<1>1. roles' = IF y.op = "createRole" THEN roles \cup {<<q, y.role>>}
               ELSE IF y.op = "deleteRole" THEN roles \ {<<q, y.role>>}
               ELSE roles
  BY DEF SsoChange
<1>2. accounts' = IF y.op = "createUser" THEN accounts \cup {<<q, y.account>>}
                  ELSE IF y.op = "deleteUser" THEN accounts \ {<<q, y.account>>}
                  ELSE accounts
  BY DEF SsoChange
<1>3. y.op = "createUser" => grants \subseteq grants'
  BY DEF SsoChange
<1>4. y.op = "deleteRole" =>
         grants' = {g \in grants : ~(g[1] = q /\ g[3] = y.role)}
  BY DEF SsoChange
<1>5. y.op = "deleteUser" =>
         grants' = {g \in grants : ~(g[1] = q /\ g[2] = y.account)}
  BY DEF SsoChange
<1>6. y.op = "grant" => grants \subseteq grants'
  BY DEF SsoChange
<1>7. y.op = "revoke" => grants' = grants \ {<<q, y.account, y.role>>}
  BY DEF SsoChange
<1>8. y.op = "createRole" => grants' = grants
  BY DEF SsoChange
<1>9. y.op \in {"createRole", "deleteRole", "createUser", "deleteUser", "grant",
                "revoke"}
  BY DEF Changes, RoleChanges, AccountChanges
<1>10. \A g \in grants : \/ g \in grants'
                         \/ y.op = "deleteRole" /\ g[3] = y.role
                         \/ y.op = "deleteUser" /\ g[2] = y.account
                         \/ y.op = "revoke" /\ g = <<q, y.account, y.role>>
  BY <1>3, <1>4, <1>5, <1>6, <1>7, <1>8, <1>9
<1>11. \A p \in roles : \/ p \in roles'
                        \/ y.op = "deleteRole" /\ p = <<q, y.role>>
  BY <1>1
<1>12. \A p \in accounts : \/ p \in accounts'
                           \/ y.op = "deleteUser" /\ p = <<q, y.account>>
  BY <1>2
<1>. QED  BY <1>10, <1>11, <1>12

\* What a request adds, and what is there or gone after it.
LEMMA ChangeAdds ==
    ASSUME NEW q, NEW y \in Changes, SsoChange(q, y)
    PROVE  /\ \A p \in roles' : \/ p \in roles
                                \/ y.op = "createRole" /\ p = <<q, y.role>>
           /\ \A p \in accounts' : \/ p \in accounts
                                   \/ y.op = "createUser" /\ p = <<q, y.account>>
           /\ \A g \in grants' :
                 \/ g \in grants
                 \/ /\ y.op = "createUser"
                    /\ \E b \in BuiltinRoles : g = <<q, y.account, b>>
                 \/ y.op = "grant" /\ g = <<q, y.account, y.role>>
           /\ y.op = "createRole" => <<q, y.role>> \in roles'
           /\ y.op = "deleteRole" => <<q, y.role>> \notin roles'
           /\ y.op = "createUser" => <<q, y.account>> \in accounts'
           /\ y.op = "deleteUser" =>
                 /\ <<q, y.account>> \notin accounts'
                 /\ \A g \in grants' : ~(g[1] = q /\ g[2] = y.account)
           /\ y.op = "grant" => <<q, y.account, y.role>> \in grants'
           /\ y.op = "revoke" => <<q, y.account, y.role>> \notin grants'
<1>1. roles' = IF y.op = "createRole" THEN roles \cup {<<q, y.role>>}
               ELSE IF y.op = "deleteRole" THEN roles \ {<<q, y.role>>}
               ELSE roles
  BY DEF SsoChange
<1>2. accounts' = IF y.op = "createUser" THEN accounts \cup {<<q, y.account>>}
                  ELSE IF y.op = "deleteUser" THEN accounts \ {<<q, y.account>>}
                  ELSE accounts
  BY DEF SsoChange
<1>3. y.op = "createUser" =>
         \/ grants' = grants
         \/ grants' = grants \cup
                {<<q, y.account, b>> : b \in {b \in BuiltinRoles : <<q, b>> \in roles}}
  BY DEF SsoChange
<1>4. y.op = "deleteRole" =>
         grants' = {g \in grants : ~(g[1] = q /\ g[3] = y.role)}
  BY DEF SsoChange
<1>5. y.op = "deleteUser" =>
         grants' = {g \in grants : ~(g[1] = q /\ g[2] = y.account)}
  BY DEF SsoChange
<1>6. y.op = "grant" => grants' = grants \cup {<<q, y.account, y.role>>}
  BY DEF SsoChange
<1>7. y.op = "revoke" => grants' = grants \ {<<q, y.account, y.role>>}
  BY DEF SsoChange
<1>8. y.op = "createRole" => grants' = grants
  BY DEF SsoChange
<1>9. y.op \in {"createRole", "deleteRole", "createUser", "deleteUser", "grant",
                "revoke"}
  BY DEF Changes, RoleChanges, AccountChanges
<1>10. \A g \in grants' :
          \/ g \in grants
          \/ /\ y.op = "createUser"
             /\ \E b \in BuiltinRoles : g = <<q, y.account, b>>
          \/ y.op = "grant" /\ g = <<q, y.account, y.role>>
  BY <1>3, <1>4, <1>5, <1>6, <1>7, <1>8, <1>9
<1>. QED  BY <1>1, <1>2, <1>5, <1>6, <1>7, <1>10

\* Only in a realm that has an id is a request answered, or an account found.
LEMMA AnsweredType ==
    ASSUME KeycloakTypeOK, NEW r, NEW x \in Changes,
           Answered(r, x) \/ x \notin Resolved(r, x)
    PROVE  r \in RealmIds
<1>. USE DEF KeycloakTypeOK
<1>1. CASE Answered(r, x)
  <2>1. \/ r \in realms \/ \E p : <<r, p>> \in roles \/ <<r, p>> \in accounts
    BY <1>1 DEF Answered, Changes, RoleChanges, AccountChanges
  <2>. QED  BY <2>1
<1>2. CASE x \notin Resolved(r, x)
  <2>1. FindUserByUsername(r, x.account) # {}
    BY <1>2 DEF Resolved
  <2>2. \E a \in accounts : a[1] = r
    BY <2>1 DEF FindUserByUsername, InRealm
  <2>. QED  BY <2>2
<1>. QED  BY <1>1, <1>2

-----------------------------------------------------------------------------
(* How a run goes on.                                                      *)

GoodRun(j) == j \in UserJob /\ SoundRun(j)

\* The run ends, or goes on as a run that knows what it needs to know.
RunGoesOnWell ==
    /\ ujob' = UserIdle \/ GoodRun(ujob')
    /\ userQueue' \in SUBSET Users

\* What a request of a run may change.
RequestStep ==
    /\ KeycloakTypeOK'
    /\ faults' \in 0..MaxFaults
    /\ UNCHANGED <<realms, clients, lastToken>>

\* A run that has done with its RhpamDevs needs to know no more of them.
LEMMA EditedRun ==
    ASSUME GoodRun(ujob), NEW plan \in SUBSET Changes,
           NEW now \in AccountNames \cup {NoAccount},
           NEW pc \in {"listRoles", "roles", "listUsers", "users", "purge",
                       "purgeUsers", "listPurge", "purgeRoles", "fail", "save"},
           pc = "users" => plan \subseteq AccountChanges
    PROVE  /\ GoodRun([ujob EXCEPT !.pc = pc, !.plan = plan, !.now = now])
           /\ GoodRun([ujob EXCEPT !.pc = pc, !.plan = plan])
<1>. /\ [ujob EXCEPT !.pc = pc, !.plan = plan, !.now = now] \in UserJob
     /\ [ujob EXCEPT !.pc = pc, !.plan = plan] \in UserJob
  BY DEF GoodRun, UserJob
<1>. QED  BY DEF GoodRun, SoundRun, UserJob

\* A run that is left: Deprovision has its failure to report.
LEMMA AbortRun ==
    ASSUME UserCtlTypeOK, GoodRun(ujob), Abort
    PROVE  RunGoesOnWell
<1>. userQueue \in SUBSET Users /\ ujob.name \in Users
  BY DEF UserCtlTypeOK, ClusterTypeOK, U!TypeOK, GoodRun, UserJob
<1>1. GoodRun([ujob EXCEPT !.pc = "fail"])
  BY DEF GoodRun, SoundRun, UserJob
<1>. QED  BY <1>1 DEF Abort, GoOn, RequeueUser, RunGoesOnWell

\* A request that is answered, fails or loses its answer.
LEMMA AskType ==
    ASSUME UserCtlTypeOK, NEW x \in Changes, NEW o \in Outcomes, Ask(x, o)
    PROVE  RequestStep
<1>. KeycloakTypeOK /\ faults \in 0..MaxFaults
  BY DEF UserCtlTypeOK, ClusterTypeOK
<1>1. faults' \in 0..MaxFaults
  BY SufferType DEF Ask
<1>2. CASE UNCHANGED ssoVars
  BY <1>1, <1>2 DEF RequestStep, KeycloakTypeOK, ssoVars
<1>3. CASE Answered(ujob.realm, x) /\ SsoChange(ujob.realm, x)
  BY <1>1, <1>3, AnsweredType, SsoChangeType DEF RequestStep
<1>. QED  BY <1>2, <1>3 DEF Ask

\* The same asked of the account of a name, which may not be the one meant.
LEMMA DealType ==
    ASSUME UserCtlTypeOK, GoodRun(ujob), NEW x \in Changes, NEW next,
           GoodRun(next), Deal(x, next)
    PROVE  RequestStep /\ RunGoesOnWell
<1>. KeycloakTypeOK /\ faults \in 0..MaxFaults /\ userQueue \in SUBSET Users
  BY DEF UserCtlTypeOK, ClusterTypeOK, U!TypeOK
<1>1. ASSUME GoOn(next) \/ Abort
      PROVE  RunGoesOnWell
  BY <1>1, AbortRun DEF GoOn, RunGoesOnWell
<1>2. ASSUME NEW o \in Outcomes, NEW y \in Resolved(ujob.realm, x), Ask(y, o),
             GoOn(next) \/ Abort
      PROVE  RequestStep /\ RunGoesOnWell
  BY <1>1, <1>2, AskType, ResolvedType
<1>3. ASSUME x \notin Resolved(ujob.realm, x), Suffer("failed"),
             SsoChange(ujob.realm, x), GoOn(next) \/ Abort
      PROVE  RequestStep /\ RunGoesOnWell
  <2>1. ujob.realm \in RealmIds
    BY <1>3, AnsweredType
  <2>2. KeycloakTypeOK' /\ UNCHANGED <<realms, clients, lastToken>>
    BY <1>3, <2>1, SsoChangeType
  <2>3. faults' \in 0..MaxFaults
    BY <1>3, SufferType DEF Outcomes
  <2>. QED  BY <1>1, <1>3, <2>2, <2>3 DEF RequestStep
<1>. QED  BY <1>2, <1>3 DEF Deal

\* A list that is answered or not.
LEMMA ListType ==
    ASSUME UserCtlTypeOK, GoodRun(ujob), NEW next, GoodRun(next), List(next)
    PROVE  faults' \in 0..MaxFaults /\ RunGoesOnWell
<1>. faults \in 0..MaxFaults /\ userQueue \in SUBSET Users
  BY DEF UserCtlTypeOK, ClusterTypeOK, U!TypeOK
<1>1. PICK o \in {"ok", "failed"} : Suffer(o) /\ (GoOn(next) \/ Abort)
  BY DEF List
<1>. QED  BY <1>1, AbortRun, SufferType DEF Outcomes, GoOn, RunGoesOnWell

\* A handler starts a run from the cached object.
LEMMA StartUserRun ==
    ASSUME UserCtlTypeOK, NEW u \in Users, userCache[u].exists,
           NEW pc \in {"save", "devs", "listRoles", "purge"},
           NEW to \in StatusPhase, NEW realm \in Realms,
           NEW devs \in Seq(Devs \X D!Object),
           \A x \in ToSet(devs) :
              /\ D!Sound(x[1], x[2])
              /\ x[2].exists
              /\ x[2].phase \in {PhaseComplete, PhaseRealmProvisioned},
           pc = "devs" => devs # <<>>,
           StartUser(u, pc, to, realm, devs)
    PROVE  RunGoesOnWell
<1>1. userCache[u] \in U!Object /\ userQueue \in SUBSET Users
  BY DEF UserCtlTypeOK, ClusterTypeOK, U!TypeOK
<1>2. ujob' = [pc |-> pc, name |-> u, copy |-> userCache[u], to |-> to,
               realm |-> realm, devs |-> devs, todo |-> <<>>,
               filled |-> 0, plan |-> {}, now |-> NoAccount]
  BY DEF StartUser
<1>4. ujob' \in UserJob
  BY <1>1, <1>2, EmptyType, DefaultUsersLength DEF UserJob
<1>5. SoundRun(ujob')
  BY <1>2 DEF SoundRun
<1>. QED  BY <1>1, <1>4, <1>5 DEF RunGoesOnWell, GoodRun, StartUser, TakeUser

-----------------------------------------------------------------------------
(* The steps of the controller.                                            *)

\* The RhpamDevs a run has listed, in some order.
LEMMA ListedType ==
    ASSUME ClusterTypeOK, D!CopiesSound,
           NEW devs \in SetToSeqs({<<d, devCache[d]>> : d \in Listed})
    PROVE  /\ devs \in Seq(Devs \X D!Object)
           /\ \A x \in ToSet(devs) :
                 /\ D!Sound(x[1], x[2])
                 /\ x[2].exists
                 /\ x[2].phase \in {PhaseComplete, PhaseRealmProvisioned}
<1>. DEFINE S == {<<d, devCache[d]>> : d \in Listed}
            f == [d \in Listed |-> <<d, devCache[d]>>]
<1>1. IsFiniteSet(Listed)
  BY FS_Subset, DevsAssumption DEF Listed
<1>2. f \in Surjection(Listed, S)
  BY Fun_IsSurj
<1>3. IsFiniteSet(S)
  BY <1>1, <1>2, FS_Surjection
<1>4. \A x \in S : /\ x \in Devs \X D!Object
                   /\ D!Sound(x[1], x[2])
                   /\ x[2].exists
                   /\ x[2].phase \in {PhaseComplete, PhaseRealmProvisioned}
  BY DEF ClusterTypeOK, D!TypeOK, D!CopiesSound, Listed
<1>. HIDE DEF S, f
<1>5. /\ Cardinality(S) \in Nat
      /\ devs \in [1..Cardinality(S) -> S]
  BY <1>3, FS_CardinalityType DEF SetToSeqs, S
<1>6. \A x \in ToSet(devs) : x \in S
  BY <1>5 DEF ToSet
<1>7. devs \in [1..Cardinality(S) -> Devs \X D!Object]
  BY <1>4, <1>5
<1>. QED  BY <1>4, <1>5, <1>6, <1>7

\* Reconcile picks a handler and starts a run, or drops the key.
LEMMA UserHandlerType ==
    ASSUME UserCtlTypeOK, D!CopiesSound, NEW u \in Users, UserHandler(u)
    PROVE  /\ RunGoesOnWell
           /\ UNCHANGED <<devVars, user, userCache, userWatch, resVars, budget, ssoVars>>
<1>. /\ ClusterTypeOK /\ userQueue \in SUBSET Users
     /\ userCache[u].realm \in Realms /\ NoRealm \in Realms
  BY DEF UserCtlTypeOK, ClusterTypeOK, U!TypeOK, U!Object, Realms
<1>0. <<>> \in Seq(Devs \X D!Object) /\ ToSet(<<>>) = {}
  BY EmptyType DEF ToSet
<1>1. CASE InitializeUser(u)
  BY <1>0, <1>1, StartUserRun
     DEF InitializeUser, UserInPhase, StatusPhase, StartUser, TakeUser
<1>2. CASE Accepted(u)
  <2>1. PICK devs \in SetToSeqs({<<d, devCache[d]>> : d \in Listed}) :
          StartUser(u, IF devs = <<>> THEN "save" ELSE "devs",
                    PhaseAccepted, NoRealm, devs)
    BY <1>2 DEF Accepted
  <2>2. PhaseAccepted \in StatusPhase /\ userCache[u].exists
    BY <1>2 DEF Accepted, UserInPhase, StatusPhase
  <2>3. RunGoesOnWell
    BY <2>1, <2>2, ListedType, StartUserRun
  <2>. QED  BY <2>1, <2>3 DEF StartUser, TakeUser
<1>3. CASE ReconcileUser(u)
  BY <1>0, <1>3, StartUserRun
     DEF ReconcileUser, UserInPhase, StatusPhase, StartUser, TakeUser
<1>4. CASE DeprovisionUser(u)
  BY <1>0, <1>4, StartUserRun DEF DeprovisionUser, StatusPhase, StartUser, TakeUser
<1>5. CASE DropUser(u)
  BY <1>5 DEF DropUser, TakeUser, RunGoesOnWell
<1>. QED  BY <1>1, <1>2, <1>3, <1>4, <1>5 DEF UserHandler

\* What a list shows becomes a plan of requests.
LEMMA PlanType ==
    ASSUME UserCtlTypeOK, GoodRun(ujob),
           NEW listed \in SUBSET AccountNames
    PROVE  /\ RolePlan \in SUBSET Changes
           /\ UserPlan(listed) \in SUBSET AccountChanges
           /\ {DeleteUserIn(a) : a \in {a \in listed : ~isDefaultUser(a)}}
                  \in SUBSET Changes
           /\ {DeleteRole(r) : r \in {r \in RolesHere : ~isDefaultRole(r)}}
                  \in SUBSET Changes
<1>1. /\ ujob.copy.spec \in UserSpecs
      /\ RolesHere \subseteq RoleNames
      /\ \A a : GrantsHere(a) \subseteq RoleNames
  BY DEF UserCtlTypeOK, KeycloakTypeOK, RolesHere, GrantsHere, InRealm, GoodRun,
     UserJob, SoundRun, U!Object
<1>2. LET wanted == SpecUsers[ujob.copy.spec]
      IN  /\ SpecRoles[ujob.copy.spec] \subseteq RoleNames
          /\ DOMAIN wanted \subseteq AccountNames
          /\ \A a \in DOMAIN wanted : wanted[a] \subseteq RoleNames
  BY <1>1, SpecsAssumption
<1>3. RolePlan \in SUBSET Changes
  BY <1>1, <1>2, ChangeType DEF RolePlan
<1>4. UserPlan(listed) \in SUBSET AccountChanges
  BY <1>1, <1>2, ChangeType DEF UserPlan
<1>. QED  BY <1>1, <1>3, <1>4, ChangeType

\* Keycloak lists accounts of the realm.
LEMMA PagesType ==
    ASSUME UserCtlTypeOK, NEW r, NEW listed \in Pages(r)
    PROVE  listed \in SUBSET AccountNames
BY DEF Pages, InRealm, UserCtlTypeOK, KeycloakTypeOK

\* What is in a realm.
LEMMA InRealmIs ==
    ASSUME NEW A, NEW B, NEW pairs \in SUBSET (A \X B), NEW q, NEW p
    PROVE  p \in InRealm(q, pairs) <=> <<q, p>> \in pairs
BY DEF InRealm

\* Under OnePage a list shows all accounts.
LEMMA WholePage ==
    ASSUME KeycloakTypeOK, NEW q, NEW listed \in Pages(q)
    PROVE  /\ listed \subseteq InRealm(q, accounts)
           /\ OnePage => listed = InRealm(q, accounts)
<1>1. listed \subseteq InRealm(q, accounts)
  BY DEF Pages
<1>2. ASSUME OnePage
      PROVE  listed = InRealm(q, accounts)
  <2>1. InRealm(q, accounts) \subseteq AccountNames
    BY DEF InRealm, KeycloakTypeOK
  <2>2. /\ Cardinality(InRealm(q, accounts)) <= Cardinality(AccountNames)
        /\ Cardinality(InRealm(q, accounts)) \in Nat
        /\ Cardinality(AccountNames) \in Nat
    BY <1>2, <2>1, FS_Subset, FS_CardinalityType DEF OnePage
  <2>3. Cardinality(InRealm(q, accounts)) <= PageSize
    BY <1>2, <2>2, AccountsAssumption DEF OnePage
  <2>. QED  BY <2>3 DEF Pages
<1>. QED  BY <1>1, <1>2

\* What is left of a list with more than one call.
LEMMA LongTail ==
    ASSUME NEW S, NEW s \in Seq(S), Len(s) > 1
    PROVE  Tail(s) \in Seq(S) /\ Tail(s) # <<>>
<1>1. PICK n \in Nat : n = Len(s) /\ n > 1
  OBVIOUS
<1>2. Len(Tail(s)) = n - 1
  BY <1>1
<1>3. n - 1 # 0
  BY <1>1
<1>. QED  BY <1>2, <1>3, HeadTailType

\* What a list has left when its first element is taken.
LEMMA TailElements ==
    ASSUME NEW S, NEW s \in Seq(S), s # <<>>
    PROVE  /\ Head(s) = s[1] /\ 1 \in DOMAIN s
           /\ \A m \in DOMAIN Tail(s) : m + 1 \in DOMAIN s /\ Tail(s)[m] = s[m + 1]
           /\ \A m \in DOMAIN s : \/ m = 1
                                  \/ /\ Len(s) > 1 /\ m - 1 \in DOMAIN Tail(s)
                                     /\ Tail(s)[m - 1] = s[m]
OBVIOUS

\* Of its elements, the first is taken and the others are left.
LEMMA HeadElements ==
    ASSUME NEW S, NEW s \in Seq(S), s # <<>>
    PROVE  /\ Head(s) \in ToSet(s)
           /\ ToSet(Tail(s)) \subseteq ToSet(s)
           /\ \A x \in ToSet(s) : \/ x = Head(s)
                                  \/ Len(s) > 1 /\ x \in ToSet(Tail(s))
<1>1. Head(s) = s[1] /\ 1 \in DOMAIN s
  BY TailElements
<1>2. ASSUME NEW x \in ToSet(Tail(s))
      PROVE  x \in ToSet(s)
  <2>1. PICK m \in DOMAIN Tail(s) : x = Tail(s)[m]
    BY <1>2 DEF ToSet
  <2>2. m + 1 \in DOMAIN s /\ x = s[m + 1]
    BY <2>1, TailElements
  <2>. QED  BY <2>2 DEF ToSet
<1>3. ASSUME NEW x \in ToSet(s), x # Head(s)
      PROVE  Len(s) > 1 /\ x \in ToSet(Tail(s))
  <2>1. PICK m \in DOMAIN s : x = s[m]
    BY <1>3 DEF ToSet
  <2>2. m # 1
    BY <1>1, <1>3, <2>1
  <2>3. /\ Len(s) > 1 /\ m - 1 \in DOMAIN Tail(s)
        /\ Tail(s)[m - 1] = x
    BY <2>1, <2>2, TailElements
  <2>. QED  BY <2>3 DEF ToSet
<1>4. Head(s) \in ToSet(s)
  BY <1>1 DEF ToSet
<1>. QED  BY <1>2, <1>3, <1>4

\* The calls of Accepted in a realm, and the copies it goes through.
LEMMA FillType ==
    ASSUME UserCtlTypeOK, GoodRun(ujob), Fill
    PROVE  RequestStep /\ RunGoesOnWell
<1>1. /\ ujob.todo \in Seq(Changes) /\ ujob.todo # <<>> /\ ujob.pc = "fill"
      /\ ujob.filled \in 0..Len(DefaultUsers)
  BY DEF GoodRun, UserJob, SoundRun, Fill
<1>2. Head(ujob.todo) \in Changes
  BY <1>1, HeadTailType
<1>3. GoodRun(Filling)
  <2>1. CASE Len(ujob.todo) > 1
    <3>1. Tail(ujob.todo) \in Seq(Changes) /\ Tail(ujob.todo) # <<>>
      BY <1>1, <2>1, LongTail
    <3>2. Filling = [ujob EXCEPT !.todo = Tail(ujob.todo)]
      BY <2>1 DEF Filling
    <3>. QED  BY <3>1, <3>2 DEF GoodRun, UserJob, SoundRun
  <2>2. CASE ~(Len(ujob.todo) > 1) /\ ujob.filled < Len(DefaultUsers)
    <3>1. ujob.filled + 1 \in 0..Len(DefaultUsers)
      <4>1. Len(DefaultUsers) \in Nat
        BY DefaultUsersLength
      <4>. QED  BY <1>1, <2>2, <4>1
    <3>2. /\ FillCalls(ujob.filled + 1) \in Seq(Changes)
          /\ FillCalls(ujob.filled + 1) # <<>>
      BY <3>1, FillCallsType
    <3>3. Filling = [ujob EXCEPT !.filled = ujob.filled + 1,
                                 !.todo = FillCalls(ujob.filled + 1)]
      BY <2>2 DEF Filling
    <3>. QED  BY <3>1, <3>2, <3>3 DEF GoodRun, UserJob, SoundRun
  <2>3. CASE ~(Len(ujob.todo) > 1) /\ ~(ujob.filled < Len(DefaultUsers))
    <3>1. Filling = [ujob EXCEPT !.pc = "handOff", !.filled = 0, !.todo = <<>>]
      BY <2>3 DEF Filling
    <3>2. 0 \in 0..Len(DefaultUsers)
      BY DefaultUsersLength
    <3>. QED  BY <1>1, <3>1, <3>2, EmptyType DEF GoodRun, UserJob, SoundRun
  <2>. QED  BY <2>1, <2>2, <2>3
<1>4. Deal(Head(ujob.todo), Filling)
  BY DEF Fill
<1>. QED  BY <1>2, <1>3, <1>4, DealType

\* A run that has done with one of its RhpamDevs.
LEMMA NextRun ==
    ASSUME GoodRun(ujob), ujob.devs # <<>>
    PROVE  /\ Head(ujob.devs) \in Devs \X D!Object
           /\ D!Sound(Head(ujob.devs)[1], Head(ujob.devs)[2])
           /\ Head(ujob.devs)[2].exists
           /\ Head(ujob.devs)[2].phase \in {PhaseComplete, PhaseRealmProvisioned}
           /\ Tail(ujob.devs) \in Seq(Devs \X D!Object)
           /\ ToSet(Tail(ujob.devs)) \subseteq ToSet(ujob.devs)
<1>1. ujob.devs \in Seq(Devs \X D!Object)
  BY DEF GoodRun, UserJob
<1>2. /\ Head(ujob.devs) \in Devs \X D!Object
      /\ Tail(ujob.devs) \in Seq(Devs \X D!Object)
  BY <1>1, HeadTailType
<1>3. Head(ujob.devs) \in ToSet(ujob.devs)
  BY <1>1 DEF ToSet
<1>4. ToSet(Tail(ujob.devs)) \subseteq ToSet(ujob.devs)
  BY <1>1 DEF ToSet
<1>. QED  BY <1>2, <1>3, <1>4 DEF GoodRun, SoundRun

\* Each of the listed RhpamDevs in turn.
LEMMA NextDevType ==
    ASSUME UserCtlTypeOK, GoodRun(ujob), NextDev
    PROVE  RunGoesOnWell
<1>. DEFINE copy == Head(ujob.devs)[2]
<1>1. ujob.devs # <<>> /\ userQueue \in SUBSET Users
  BY DEF GoodRun, SoundRun, NextDev, UserCtlTypeOK, ClusterTypeOK, U!TypeOK
<1>2. copy.realm \in Realms /\ PhaseReconcile \in StatusPhase
  BY <1>1, NextRun DEF D!Object, StatusPhase
<1>3. CASE copy.phase = PhaseComplete
  <2>1. GoOn([ujob EXCEPT !.pc = Following(Tail(ujob.devs)),
                          !.to = PhaseReconcile, !.realm = copy.realm,
                          !.devs = Tail(ujob.devs)])
    BY <1>3 DEF NextDev
  <2>2. /\ Following(Tail(ujob.devs)) \in {"devs", "save"}
        /\ Following(Tail(ujob.devs)) = "devs" => Tail(ujob.devs) # <<>>
    BY DEF Following
  <2>. HIDE DEF copy
  <2>. QED  BY <1>1, <1>2, <2>1, <2>2, NextRun
            DEF GoOn, RunGoesOnWell, GoodRun, UserJob, SoundRun
<1>4. CASE copy.phase # PhaseComplete
  <2>1. GoOn([ujob EXCEPT !.pc = "fill", !.todo = FillCalls(0),
                          !.to = PhaseReconcile, !.realm = copy.realm])
    BY <1>4 DEF NextDev
  <2>2. FillCalls(0) \in Seq(Changes) /\ FillCalls(0) # <<>>
    BY FillCallsType, DefaultUsersLength
  <2>3. copy.phase = PhaseRealmProvisioned
    BY <1>1, <1>4, NextRun
  <2>. QED  BY <1>1, <1>2, <2>1, <2>2, <2>3
            DEF GoOn, RunGoesOnWell, GoodRun, UserJob, SoundRun
<1>. QED  BY <1>3, <1>4

\* The update that moves a RhpamDev on.
LEMMA HandOverType ==
    ASSUME UserCtlTypeOK, GoodRun(ujob), HandOver
    PROVE  /\ RunGoesOnWell
           /\ D!TypeOK'
           /\ faults' \in 0..MaxFaults
           /\ UNCHANGED <<dev, devWatch>> \/
              \E d \in Devs :
                 /\ dev[d].exists /\ dev[d].phase = PhaseRealmProvisioned
                 /\ \E o \in {"ok", "lost"} : Suffer(o)
                 /\ D!Update(d, [dev[d] EXCEPT !.phase = PhasePrepare])
<1>. DEFINE d == Head(ujob.devs)[1]
            copy == Head(ujob.devs)[2]
<1>1. /\ ujob.devs # <<>> /\ userQueue \in SUBSET Users
      /\ copy.phase = PhaseRealmProvisioned /\ D!TypeOK
      /\ faults \in 0..MaxFaults
  BY DEF GoodRun, SoundRun, HandOver, UserCtlTypeOK, ClusterTypeOK, U!TypeOK
<1>2. RunGoesOnWell
  <2>1. GoOn([ujob EXCEPT !.pc = Following(Tail(ujob.devs)),
                          !.devs = Tail(ujob.devs)])
    BY DEF HandOver
  <2>2. /\ Following(Tail(ujob.devs)) \in {"devs", "save"}
        /\ Following(Tail(ujob.devs)) = "devs" => Tail(ujob.devs) # <<>>
    BY DEF Following
  <2>. QED  BY <1>1, <2>1, <2>2, NextRun
            DEF GoOn, RunGoesOnWell, GoodRun, UserJob, SoundRun
<1>3. PICK o \in Outcomes :
        /\ Suffer(o)
        /\ IF o # "failed" /\ D!Accepts(d, copy)
           THEN D!Update(d, [copy EXCEPT !.phase = PhasePrepare])
           ELSE UNCHANGED <<dev, devWatch>>
  BY DEF HandOver
<1>4. faults' \in 0..MaxFaults
  BY <1>1, <1>3, SufferType
<1>5. CASE UNCHANGED <<dev, devWatch>>
  BY <1>1, <1>2, <1>4, <1>5 DEF HandOver, D!TypeOK
<1>6. CASE o # "failed" /\ D!Accepts(d, copy)
  <2>1. d \in Devs /\ copy = dev[d] /\ dev[d].exists
    BY <1>1, <1>6, NextRun DEF D!Accepts, D!Sound
  <2>2. /\ D!Update(d, [dev[d] EXCEPT !.phase = PhasePrepare])
        /\ o \in {"ok", "lost"}
    BY <1>3, <1>6, <2>1 DEF Outcomes
  <2>3. [dev[d] EXCEPT !.phase = PhasePrepare] \in D!Object
    <3>1. dev[d] \in D!Object /\ PhasePrepare \in StatusPhase
      BY <1>1, <2>1 DEF D!TypeOK, StatusPhase
    <3>. HIDE DEF d, copy
    <3>. QED  BY <3>1 DEF D!Object
  <2>4. D!TypeOK'
    BY <1>1, <2>1, <2>2, <2>3, DevUpdateType DEF HandOver, D!TypeOK
  <2>. QED  BY <1>1, <1>2, <1>3, <1>4, <2>1, <2>2, <2>4
<1>. QED  BY <1>3, <1>5, <1>6

\* The calls of Reconcile and Deprovision in a realm.
LEMMA RealmCallType ==
    ASSUME UserCtlTypeOK, GoodRun(ujob),
           \/ ListRoles \/ ListUsersOfRealm \/ ReconcileRole \/ ReconcileAccount
           \/ Purge \/ ListPurge \/ PurgeCall
    PROVE  RequestStep /\ RunGoesOnWell
<1>. DEFINE run(pc, plan, now) == [ujob EXCEPT !.pc = pc, !.plan = plan, !.now = now]
            next(pc, plan) == [ujob EXCEPT !.pc = pc, !.plan = plan]
<1>0. /\ KeycloakTypeOK /\ faults \in 0..MaxFaults /\ userQueue \in SUBSET Users
      /\ ujob.plan \in SUBSET Changes
  BY DEF UserCtlTypeOK, ClusterTypeOK, U!TypeOK, GoodRun, UserJob
<1>1. ASSUME NEW j, GoodRun(j), List(j), UNCHANGED ssoVars
      PROVE  RequestStep /\ RunGoesOnWell
  BY <1>0, <1>1, ListType DEF RequestStep, KeycloakTypeOK, ssoVars
<1>2. CASE ListRoles
  <2>1. RolePlan \in SUBSET Changes
    BY PlanType
  <2>2. \E pc \in {"listUsers", "roles"} :
            List(next(pc, RolePlan)) /\ UNCHANGED ssoVars
    BY <1>2 DEF ListRoles
  <2>. QED  BY <1>1, <2>1, <2>2, EditedRun
<1>3. CASE ListUsersOfRealm
  <2>1. PICK listed \in Pages(ujob.realm) :
            LET plan == UserPlan(listed)
            IN  List([ujob EXCEPT !.pc = IF plan = {} THEN "save" ELSE "users",
                                  !.plan = plan, !.now = NoAccount])
    BY <1>3 DEF ListUsersOfRealm
  <2>2. UserPlan(listed) \in SUBSET AccountChanges /\ UNCHANGED ssoVars
    BY <1>3, PlanType, PagesType DEF ListUsersOfRealm
  <2>3. UserPlan(listed) \in SUBSET Changes
    BY <2>2, ChangeType
  <2>4. \E pc \in {"save", "users"} : List(run(pc, UserPlan(listed), NoAccount))
    BY <2>1
  <2>. QED  BY <1>1, <2>2, <2>3, <2>4, EditedRun
<1>4. CASE ReconcileRole
  <2>1. PICK x \in ujob.plan :
            Deal(x, [ujob EXCEPT !.pc = IF ujob.plan = {x} THEN "listUsers" ELSE @,
                                 !.plan = @ \ {x}])
    BY <1>4 DEF ReconcileRole
  <2>2. \E pc \in {"listUsers", "roles"} : Deal(x, next(pc, ujob.plan \ {x}))
    BY <1>4, <2>1 DEF ReconcileRole
  <2>3. ujob.plan \ {x} \in SUBSET Changes /\ x \in Changes
    BY <1>0
  <2>. QED  BY <2>2, <2>3, EditedRun, DealType
<1>5. CASE ReconcileAccount
  <2>1. PICK x \in ujob.plan :
            Deal(x, [ujob EXCEPT !.pc = IF ujob.plan = {x} THEN "save" ELSE @,
                                 !.plan = @ \ {x}, !.now = x.account])
    BY <1>5 DEF ReconcileAccount
  <2>2. \E pc \in {"save", "users"} : Deal(x, run(pc, ujob.plan \ {x}, x.account))
    BY <1>5, <2>1 DEF ReconcileAccount
  <2>3. ujob.plan \subseteq AccountChanges
    BY <1>5 DEF ReconcileAccount, GoodRun, SoundRun
  <2>4. /\ ujob.plan \ {x} \in SUBSET Changes /\ x \in Changes
        /\ ujob.plan \ {x} \subseteq AccountChanges
        /\ x.account \in AccountNames
    BY <1>0, <2>3 DEF AccountChanges
  <2>. QED  BY <2>2, <2>4, EditedRun, DealType
<1>6. CASE Purge
  <2>1. PICK listed \in Pages(ujob.realm) :
          LET found == {DeleteUserIn(a) : a \in {a \in listed : ~isDefaultUser(a)}}
          IN  List([ujob EXCEPT
                      !.pc = IF found = {} THEN "listPurge" ELSE "purgeUsers",
                      !.plan = found])
    BY <1>6 DEF Purge
  <2>. DEFINE found == {DeleteUserIn(a) : a \in {a \in listed : ~isDefaultUser(a)}}
  <2>2. found \in SUBSET Changes /\ UNCHANGED ssoVars
    BY <1>6, PlanType, PagesType DEF Purge
  <2>3. \E pc \in {"listPurge", "purgeUsers"} : List(next(pc, found))
    BY <2>1
  <2>. HIDE DEF found
  <2>. QED  BY <1>1, <2>2, <2>3, EditedRun
<1>7. CASE ListPurge
  <2>. DEFINE found == {DeleteRole(r) : r \in {r \in RolesHere : ~isDefaultRole(r)}}
  <2>1. found \in SUBSET Changes
    BY PlanType
  <2>. HIDE DEF found
  <2>2. PICK o \in {"ok", "failed"} :
            LET plan == IF o = "ok" THEN found ELSE {}
            IN  /\ Suffer(o)
                /\ GoOn([ujob EXCEPT !.pc = IF plan = {} THEN "save" ELSE "purgeRoles",
                                     !.plan = plan])
    BY <1>7 DEF ListPurge, found
  <2>3. \E pc \in {"save", "purgeRoles"}, plan \in SUBSET Changes :
            GoOn(next(pc, plan))
    BY <2>1, <2>2
  <2>4. RunGoesOnWell
    <3>1. PICK pc \in {"save", "purgeRoles"}, plan \in SUBSET Changes :
             GoOn(next(pc, plan))
      BY <2>3
    <3>2. GoodRun(next(pc, plan))
      BY <1>0, EditedRun
    <3>. HIDE DEF next
    <3>. QED  BY <1>0, <3>1, <3>2 DEF GoOn, RunGoesOnWell
  <2>5. faults' \in 0..MaxFaults
    BY <1>0, <2>2, SufferType DEF Outcomes
  <2>. QED  BY <1>0, <1>7, <2>4, <2>5 DEF ListPurge, RequestStep, KeycloakTypeOK, ssoVars
<1>8. CASE PurgeCall
  <2>1. PICK x \in ujob.plan, o \in Outcomes :
          /\ Ask(x, o)
          /\ \/ GoOn([ujob EXCEPT
                        !.pc = IF ujob.plan # {x} THEN @
                               ELSE IF @ = "purgeUsers" THEN "listPurge"
                               ELSE "save",
                        !.plan = @ \ {x}])
             \/ Abort
    BY <1>8 DEF PurgeCall
  <2>2. RequestStep
    BY <1>0, <2>1, AskType
  <2>3. CASE Abort
    BY <2>2, <2>3, AbortRun
  <2>4. CASE \E pc \in {"purgeUsers", "purgeRoles", "listPurge", "save"} :
                GoOn(next(pc, ujob.plan \ {x}))
    <3>1. ujob.plan \ {x} \in SUBSET Changes
      BY <1>0
    <3>2. PICK pc \in {"purgeUsers", "purgeRoles", "listPurge", "save"} :
             GoOn(next(pc, ujob.plan \ {x}))
      BY <2>4
    <3>3. GoodRun(next(pc, ujob.plan \ {x}))
      BY <1>0, <3>1, EditedRun
    <3>. HIDE DEF next
    <3>4. RunGoesOnWell
      BY <1>0, <3>2, <3>3 DEF GoOn, RunGoesOnWell
    <3>. QED  BY <2>2, <3>4
  <2>. QED  BY <1>8, <2>1, <2>3, <2>4 DEF PurgeCall
<1>. QED  BY <1>2, <1>3, <1>4, <1>5, <1>6, <1>7, <1>8

\* The updates that end a run.
LEMMA PutUserType ==
    ASSUME UserCtlTypeOK, GoodRun(ujob), SaveUser \/ FailUser
    PROVE  /\ RunGoesOnWell
           /\ U!TypeOK'
           /\ faults' \in 0..MaxFaults
<1>1. /\ ujob.name \in Users /\ ujob.copy \in U!Object /\ U!TypeOK
      /\ ujob.to \in StatusPhase /\ ujob.realm \in Realms
      /\ faults \in 0..MaxFaults
  BY DEF GoodRun, UserJob, UserCtlTypeOK, ClusterTypeOK
<1>2. /\ SavedUser \in U!Object
      /\ [ujob.copy EXCEPT !.phase = PhaseDeprovisionFailed] \in U!Object
  BY <1>1 DEF SavedUser, U!Object, StatusPhase
<1>3. PICK o \in Outcomes, v \in U!Object : Suffer(o) /\ PutUser(v, o)
  BY <1>2 DEF SaveUser, FailUser
<1>4. user' \in [Users -> U!Object] /\ userWatch' \in [Users -> SUBSET U!Object]
  BY <1>1, <1>3, UserUpdateType DEF PutUser, U!TypeOK
<1>5. faults' \in 0..MaxFaults
  BY <1>1, <1>3, SufferType
<1>6. RunGoesOnWell
  BY <1>1 DEF SaveUser, FailUser, GoOn, RequeueUser, RunGoesOnWell, U!TypeOK
<1>7. UNCHANGED userCache
  BY DEF SaveUser, FailUser
<1>. QED  BY <1>1, <1>4, <1>5, <1>6, <1>7 DEF U!TypeOK, RunGoesOnWell

\* A run that has calls to make knows what it needs to know.
LEMMA RunAtCall ==
    ASSUME UserCtlTypeOK, UserRunSound, UserCall
    PROVE  ujob # UserIdle /\ GoodRun(ujob) /\ ujob \in UserJob
<1>1. ujob.pc # "idle"
  BY DEF UserCall, NextDev, Fill, HandOver, ListRoles, ListUsersOfRealm,
     ReconcileRole, ReconcileAccount, Purge, ListPurge, PurgeCall, FailUser, SaveUser
<1>2. ujob # UserIdle
  BY <1>1 DEF UserIdle
<1>. QED  BY <1>2 DEF GoodRun, UserRunSound, UserCtlTypeOK

\* A step of the controller keeps the types, and its run knows what it must.
\* Of a RhpamDev it changes the phase, when its realm has been filled; realms,
\* their clients and the resources it leaves alone.
LEMMA UserControllerStep ==
    ASSUME UserCtlTypeOK, UserRunSound, D!CopiesSound, UserController
    PROVE  /\ UserCtlTypeOK'
           /\ ujob' = UserIdle \/ GoodRun(ujob')
           /\ UNCHANGED <<realms, clients, lastToken, resVars>>
           /\ HandOver \/ UNCHANGED devVars
<1>. USE DEF UserCtlTypeOK
<1>0. ASSUME UserCall
      PROVE  GoodRun(ujob)
  BY <1>0, RunAtCall
<1>1. ASSUME NEW u \in Users, UserHandler(u)
      PROVE  /\ UserCtlTypeOK' /\ (ujob' = UserIdle \/ GoodRun(ujob'))
             /\ UNCHANGED <<realms, clients, lastToken, resVars>> /\ UNCHANGED devVars
  <2>1. /\ RunGoesOnWell
        /\ UNCHANGED <<devVars, user, userCache, userWatch, resVars, budget, ssoVars>>
    BY <1>1, UserHandlerType
  <2>. QED  BY <2>1 DEF RunGoesOnWell, GoodRun, ClusterTypeOK, KeycloakTypeOK,
            D!TypeOK, U!TypeOK, devVars, resVars, budget, ssoVars
<1>2. CASE NextDev
  <2>1. RunGoesOnWell
    BY <1>0, <1>2, NextDevType DEF UserCall
  <2>. QED  BY <1>2, <2>1 DEF NextDev, RunGoesOnWell, GoodRun, ClusterTypeOK,
            KeycloakTypeOK, D!TypeOK, U!TypeOK, devVars, resVars, budget, ssoVars
<1>3. ASSUME RequestStep, RunGoesOnWell,
             UNCHANGED <<devVars, user, userCache, userWatch, resVars, writes>>
      PROVE  /\ UserCtlTypeOK' /\ (ujob' = UserIdle \/ GoodRun(ujob'))
             /\ UNCHANGED <<realms, clients, lastToken, resVars>> /\ UNCHANGED devVars
  BY <1>3 DEF RequestStep, RunGoesOnWell, GoodRun, ClusterTypeOK, D!TypeOK,
     U!TypeOK, devVars, resVars
<1>4. CASE Fill
  BY <1>0, <1>3, <1>4, FillType DEF Fill, UserCall
<1>5. CASE \/ ListRoles \/ ListUsersOfRealm \/ ReconcileRole \/ ReconcileAccount
           \/ Purge \/ ListPurge \/ PurgeCall
  <2>1. UNCHANGED <<devVars, user, userCache, userWatch, resVars, writes>>
    BY <1>5 DEF ListRoles, ListUsersOfRealm, ReconcileRole, ReconcileAccount,
       Purge, ListPurge, PurgeCall
  <2>. QED  BY <1>0, <1>3, <1>5, <2>1, RealmCallType DEF UserCall
<1>6. CASE SaveUser \/ FailUser
  <2>1. RunGoesOnWell /\ U!TypeOK' /\ faults' \in 0..MaxFaults
    BY <1>0, <1>6, PutUserType DEF UserCall
  <2>2. UNCHANGED <<devVars, resVars, writes, ssoVars>>
    BY <1>6 DEF SaveUser, FailUser
  <2>. QED  BY <2>1, <2>2 DEF RunGoesOnWell, GoodRun, ClusterTypeOK,
            KeycloakTypeOK, D!TypeOK, devVars, resVars, ssoVars
<1>7. CASE HandOver
  <2>1. RunGoesOnWell /\ D!TypeOK' /\ faults' \in 0..MaxFaults
    BY <1>0, <1>7, HandOverType DEF UserCall
  <2>2. UNCHANGED <<user, userCache, userWatch, resVars, writes, ssoVars>>
    BY <1>7 DEF HandOver
  <2>. QED  BY <1>7, <2>1, <2>2 DEF RunGoesOnWell, GoodRun, ClusterTypeOK,
            KeycloakTypeOK, U!TypeOK, resVars, ssoVars
<1>. QED  BY <1>1, <1>2, <1>4, <1>5, <1>6, <1>7 DEF UserController, UserCall
=============================================================================
