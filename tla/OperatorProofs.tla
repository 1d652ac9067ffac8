---------------------------- MODULE OperatorProofs ----------------------------
(***************************************************************************)
(* Theorems about the operator process, for any instance: whatever the     *)
(* RhpamUser controller does between two steps of the other one, for the   *)
(* RhpamDevs it is the handing over that DevAlone has as one action.       *)
(***************************************************************************)
EXTENDS Operator, ResourceProofs, UserProofs

\* What the RhpamUser controller, its informer and its users change besides.
OtherStep ==
    UNCHANGED <<dev, devCache, devWatch, job, realms, clients, res, seen>>

\* A step of the RhpamUser controller.
LEMMA UserStepKind ==
    ASSUME OperatorIInv, UserStep
    PROVE  /\ (\E d \in Devs : HandOff(d)) \/ OtherStep
           /\ UserCtlTypeOK'
           /\ ujob' = UserIdle \/ GoodRun(ujob')
<1>1. UserCtlTypeOK /\ UserRunSound /\ D!CopiesSound
  BY DEF OperatorIInv, ResourceIInv, RealmIInv, DevIInv
<1>2. /\ UserCtlTypeOK'
      /\ ujob' = UserIdle \/ GoodRun(ujob')
      /\ UNCHANGED <<realms, clients, lastToken, resVars>>
      /\ HandOver \/ UNCHANGED devVars
  BY <1>1, UserControllerStep DEF UserStep
<1>3. CASE UNCHANGED devVars
  BY <1>2, <1>3 DEF OtherStep, UserStep, devVars, resVars
<1>4. CASE HandOver
  <2>1. GoodRun(ujob)
    <3>1. ujob.pc # "idle"
      BY <1>4 DEF HandOver
    <3>2. ujob # UserIdle
      BY <3>1 DEF UserIdle
    <3>. QED  BY <1>1, <3>2 DEF UserCtlTypeOK, UserRunSound, GoodRun
  <2>2. UNCHANGED <<dev, devWatch>> \/
          \E d \in Devs :
             /\ dev[d].exists /\ dev[d].phase = PhaseRealmProvisioned
             /\ \E o \in {"ok", "lost"} : Suffer(o)
             /\ D!Update(d, [dev[d] EXCEPT !.phase = PhasePrepare])
    BY <1>1, <1>4, <2>1, HandOverType
  <2>3. /\ UNCHANGED <<devCache, devQueue, user, userCache, userWatch, resVars,
                       writes, ssoVars>>
        /\ UNCHANGED <<userQueue, job>>
    BY <1>4 DEF HandOver, GoOn, UserStep
  <2>. QED  BY <1>2, <2>2, <2>3 DEF HandOff, OtherStep, userVars, ssoVars, resVars
<1>. QED  BY <1>2, <1>3, <1>4

\* For the RhpamDevs every step of the operator is one of DevAlone, or none.
LEMMA OperatorStepKind ==
    ASSUME OperatorIInv, [OperatorNext]_vars
    PROVE  /\ [AloneNext]_devCtlVars \/ OtherStep
           /\ UserCtlTypeOK'
           /\ ujob' = UserIdle \/ GoodRun(ujob')
<1>0. /\ DevTypeOK /\ UserCtlTypeOK
      /\ ujob = UserIdle \/ GoodRun(ujob)
  BY DEF OperatorIInv, ResourceIInv, RealmIInv, DevIInv, UserCtlTypeOK, UserRunSound, GoodRun
<1>1. ASSUME [AloneNext]_devCtlVars, ujob' \in {ujob, UserIdle}
      PROVE  /\ [AloneNext]_devCtlVars \/ OtherStep
             /\ UserCtlTypeOK'
             /\ ujob' = UserIdle \/ GoodRun(ujob')
  BY <1>0, <1>1, AloneStepType DEF DevTypeOK, UserCtlTypeOK
<1>2. CASE DevStep
  BY <1>1, <1>2 DEF DevStep, AloneNext
<1>3. CASE UserStep
  BY <1>3, UserStepKind DEF AloneNext
<1>4. CASE ClusterStep
  <2>1. Informers \/ Platform
    BY <1>4 DEF ClusterStep, Informers, Platform
  <2>. QED  BY <1>1, <1>4, <2>1 DEF ClusterStep, AloneNext
<1>5. CASE Disturbance
  <2>1. CASE \/ \E d \in Devs : \/ CreateDev(d) \/ EditDev(d) \/ DeleteDev(d)
                                \/ ResyncDev(d)
             \/ DatabaseDown
    <3>1. ClusterUsers \/ Informers \/ Platform
      BY <1>5, <2>1 DEF Disturbance, ClusterUsers, Informers, Platform
    <3>. QED  BY <1>1, <1>5, <3>1 DEF Disturbance, AloneNext
  <2>2. CASE \E u \in Users : \/ CreateUser(u) \/ EditUser(u) \/ DeleteUser(u)
                              \/ ResyncUser(u)
    <3>1. ClusterTypeOK'
      BY <1>0, <2>2, ClusterUsersType, InformersType DEF UserCtlTypeOK
    <3>2. UNCHANGED <<ssoVars, job, ujob, devVars, resVars>>
      BY <1>5, <2>2 DEF Disturbance, CreateUser, EditUser, DeleteUser, ResyncUser
    <3>. QED  BY <1>0, <3>1, <3>2
              DEF OtherStep, UserCtlTypeOK, KeycloakTypeOK, devVars, ssoVars,
                  resVars
  <2>. QED  BY <1>5, <2>1, <2>2 DEF Disturbance
<1>6. CASE CrashOperator
  BY <1>1, <1>6 DEF CrashOperator, Crash, AloneNext
<1>7. CASE UNCHANGED vars
  BY <1>1, <1>7 DEF vars, devCtlVars
<1>. QED  BY <1>2, <1>3, <1>4, <1>5, <1>6, <1>7 DEF OperatorNext

\* A step that is none of DevAlone touches nothing the invariant speaks of.
LEMMA OtherStepKeeps ==
    ASSUME RealmIInv, OtherStep, DevTypeOK'
    PROVE  RealmIInv' /\ LegalStep /\ ObjectStep /\ InformerStep /\ RealmStep
<1>. USE DEF OtherStep
<1>1. LegalStep /\ ObjectStep /\ InformerStep /\ RealmStep
  BY NoWriteLegal DEF ObjectStep, InformerStep, RealmStep
<1>2. RunKeepsRealm'
  BY <1>1, RunUntouched
<1>3. CopiesFaithful'
  BY DEF RealmIInv, CopiesFaithful, Faithful
<1>4. (\A d \in Devs : RealmKept(d))'
  BY DEF RealmIInv, RealmKept, Known, Present, Served
<1>5. D!CopiesSound'
  BY DEF RealmIInv, DevIInv, D!CopiesSound, D!Sound
<1>6. RunSound'
  BY DEF RealmIInv, DevIInv, RunSound, D!Sound
<1>7. (\A d \in Devs : RealmUnset(dev[d]))'
  BY DEF RealmIInv, DevIInv, RealmUnset
<1>. QED  BY <1>1, <1>2, <1>3, <1>4, <1>5, <1>6, <1>7 DEF RealmIInv, DevIInv

\* What every step of the operator does to the RhpamDevs, the realms and the
\* resources.
LEMMA OperatorStepFacts ==
    ASSUME OperatorIInv, [OperatorNext]_vars
    PROVE  OperatorIInv' /\ LegalStep /\ ObjectStep /\ RealmStep /\ StepFacts
<1>1. /\ [AloneNext]_devCtlVars \/ OtherStep
      /\ UserCtlTypeOK'
      /\ ujob' = UserIdle \/ GoodRun(ujob')
  BY OperatorStepKind
<1>2. ResourceIInv /\ RealmIInv /\ DevIInv /\ DevTypeOK /\ D!TypeOK
  BY DEF OperatorIInv, ResourceIInv, RealmIInv, DevIInv, DevTypeOK, ClusterTypeOK
<1>3. ResourceIInv' /\ LegalStep /\ ObjectStep /\ RealmStep /\ StepFacts
  <2>1. CASE [AloneNext]_devCtlVars
    BY <1>2, <2>1, ResourceInductive, AloneStepLegal, AloneStepRealm,
       AloneStepResources
  <2>2. CASE OtherStep
    <3>1. DevTypeOK'
      BY <1>1, <1>2, <2>2 DEF OtherStep, UserCtlTypeOK, DevTypeOK
    <3>2. RealmIInv' /\ LegalStep /\ ObjectStep /\ InformerStep /\ RealmStep
      BY <1>2, <2>2, <3>1, OtherStepKeeps
    <3>3. StepFacts
      BY <2>2, QuietStep DEF OtherStep, StepFacts
    <3>. QED  BY <1>2, <3>2, <3>3, ResourceStep
  <2>. QED  BY <1>1, <2>1, <2>2
<1>4. UserRunSound'
  <2>1. CASE ujob' = UserIdle
    BY <2>1 DEF UserRunSound
  <2>2. CASE GoodRun(ujob')
    <3>1. \A x \in ToSet(ujob'.devs) : x \in Devs \X D!Object
      <4>1. ujob'.devs \in Seq(Devs \X D!Object)
        BY <2>2 DEF GoodRun, UserJob
      <4>. QED  BY <4>1 DEF ToSet
    <3>2. \A x \in ToSet(ujob'.devs) : D!Sound(x[1], x[2])'
      BY <1>2, <1>3, <2>2, <3>1, SoundKept DEF GoodRun, SoundRun
    <3>. QED  BY <2>2, <3>2 DEF UserRunSound, GoodRun, SoundRun
  <2>. QED  BY <1>1, <2>1, <2>2
<1>. QED  BY <1>1, <1>3, <1>4 DEF OperatorIInv

-----------------------------------------------------------------------------
(* Why the default accounts serve: what is done in a realm stays done.     *)

\* What Accepted asks of a realm.
DefaultCall(x) ==
    \/ /\ x \in [op: {"createRole"}, role: RoleNames]
       /\ isDefaultRole(x.role)
    \/ /\ x \in [op: {"createUser"}, account: AccountNames]
       /\ isDefaultUser(x.account)
    \/ /\ x \in [op: {"grant"}, account: AccountNames, role: RoleNames]
       /\ isDefaultUser(x.account) /\ isDefaultRole(x.role)

\* It asks for default roles, default accounts, and default roles of these.
LEMMA FillCallsDefault ==
    ASSUME DefaultsClear, NEW k \in 0..Len(DefaultUsers),
           NEW i \in DOMAIN FillCalls(k)
    PROVE  DefaultCall(FillCalls(k)[i])
<1>1. CASE k = 0
  <2>1. FillCalls(k) = [n \in DOMAIN DefaultRoles |-> CreateRole(DefaultRoles[n])]
    BY <1>1 DEF FillCalls
  <2>2. i \in DOMAIN DefaultRoles /\ FillCalls(k)[i] = CreateRole(DefaultRoles[i])
    BY <2>1
  <2>3. DefaultRoles[i] \in RoleNames /\ isDefaultRole(DefaultRoles[i])
    BY <2>2, DefaultsAssumption DEF isDefaultRole
  <2>. QED  BY <2>2, <2>3 DEF DefaultCall, CreateRole
<1>2. CASE k # 0
  <2>. DEFINE x == DefaultUsers[k]
              maps == [n \in DOMAIN x.roles |-> Grant(x.username, x.roles[n])]
  <2>1. /\ x.username \in AccountNames /\ x.roles \in Seq(RoleNames)
        /\ k \in DOMAIN DefaultUsers
    <3>. DEFINE Record == [username: AccountNames, roles: Seq(RoleNames)]
    <3>1. DefaultUsers \in Seq(Record) /\ k \in 1..Len(DefaultUsers)
      BY <1>2, DefaultsAssumption
    <3>2. DefaultUsers[k] \in Record /\ k \in DOMAIN DefaultUsers
      <4>. HIDE DEF Record
      <4>. QED  BY <3>1
    <3>. QED  BY <3>2
  <2>2. isDefaultUser(x.username)
    BY <2>1 DEF isDefaultUser
  <2>3. FillCalls(k) = <<CreateUserIn(x.username)>> \o maps
    BY <1>2 DEF FillCalls
  <2>4. ASSUME NEW n \in DOMAIN x.roles
        PROVE  DefaultCall(Grant(x.username, x.roles[n]))
    <3>1. x.roles[n] \in RoleNames /\ isDefaultRole(x.roles[n])
      BY <2>1, <2>4 DEF DefaultsClear
    <3>. QED  BY <2>1, <2>2, <3>1 DEF DefaultCall, Grant
  <2>5. DefaultCall(CreateUserIn(x.username))
    BY <2>1, <2>2 DEF DefaultCall, CreateUserIn
  <2>6. maps \in Seq(Changes) /\ <<CreateUserIn(x.username)>> \in Seq(Changes)
    <3>1. \A n \in 1..Len(x.roles) : Grant(x.username, x.roles[n]) \in Changes
      BY <2>1, ChangeType
    <3>2. maps \in [1..Len(x.roles) -> Changes] /\ Len(x.roles) \in Nat
      BY <2>1, <3>1
    <3>. QED  BY <2>1, <3>2, ChangeType
  <2>7. /\ i = 1 \/ i - 1 \in DOMAIN maps
        /\ FillCalls(k)[i] = IF i = 1 THEN CreateUserIn(x.username) ELSE maps[i - 1]
    <3>. HIDE DEF maps
    <3>. QED  BY <2>3, <2>6
  <2>. QED  BY <2>4, <2>5, <2>7
<1>. QED  BY <1>1, <1>2

\* A request that spares the defaults spares them under whatever account is
\* found for its own.
LEMMA ResolvedSpares ==
    ASSUME KeycloakTypeOK, DefaultsClear, NEW r, NEW x \in Changes, Spares(x),
           NEW y \in Resolved(r, x)
    PROVE  Spares(y) /\ y \in Changes
<1>1. y \in Changes
  BY ResolvedType
<1>2. CASE x \in RoleChanges
  <2>1. y = x
    BY <1>2 DEF Resolved, RoleChanges
  <2>. QED  BY <1>1, <2>1
<1>3. CASE x \in AccountChanges
  <2>1. y = x \/ \E a \in Containing[x.account] \cap AccountNames :
                    y = [x EXCEPT !.account = a]
    BY <1>3, AccountsAssumption DEF Resolved, FindUserByUsername, AccountChanges
  <2>2. ASSUME NEW a \in Containing[x.account] \cap AccountNames,
               y = [x EXCEPT !.account = a], isDefaultUser(a)
        PROVE  a = x.account
    BY <1>3, <2>2 DEF DefaultsClear, AccountChanges
  <2>3. ASSUME NEW a \in Containing[x.account] \cap AccountNames,
               y = [x EXCEPT !.account = a]
        PROVE  Spares(y)
    <3>1. y.account = a /\ y.op = x.op /\ x.op # "deleteRole"
      BY <1>3, <2>3 DEF AccountChanges
    <3>. QED  BY <2>2, <2>3, <3>1 DEF Spares
  <2>. QED  BY <1>1, <2>1, <2>3
<1>. QED  BY <1>2, <1>3 DEF Changes

\* A default account is found for its own name.
LEMMA ResolvedDefault ==
    ASSUME KeycloakTypeOK, DefaultsClear, NEW r, NEW x, DefaultCall(x),
           NEW y \in Resolved(r, x)
    PROVE  y = x
<1>1. CASE x.op = "createRole"
  BY <1>1 DEF Resolved
<1>2. CASE x.op # "createRole"
  <2>1. /\ x.account \in AccountNames /\ isDefaultUser(x.account)
        /\ [x EXCEPT !.account = x.account] = x
    BY <1>2 DEF DefaultCall
  <2>2. \A a \in FindUserByUsername(r, x.account) : a = x.account
    BY <2>1, AccountsAssumption DEF FindUserByUsername, DefaultsClear
  <2>3. y = x \/ \E a \in FindUserByUsername(r, x.account) :
                    y = [x EXCEPT !.account = a]
    BY DEF Resolved
  <2>. QED  BY <2>1, <2>2, <2>3
<1>. QED  BY <1>1, <1>2

\* What such a request does not undo.
LEMMA ChangeKeepsDone ==
    ASSUME NEW r, NEW q, NEW x, DefaultCall(x), Done(r, x),
           NEW y \in Changes, Spares(y), SsoChange(q, y)
    PROVE  Done(r, x)'
<1>1. CASE x.op = "createRole"
  <2>1. <<r, x.role>> \in roles /\ isDefaultRole(x.role)
    BY <1>1 DEF Done, DefaultCall
  <2>2. <<r, x.role>> \in roles'
    BY <2>1, ChangeTakes DEF Spares
  <2>. QED  BY <1>1, <2>2 DEF Done
<1>2. CASE x.op = "createUser"
  <2>1. <<r, x.account>> \in accounts /\ isDefaultUser(x.account)
    BY <1>2 DEF Done, DefaultCall
  <2>2. <<r, x.account>> \in accounts'
    BY <2>1, ChangeTakes DEF Spares
  <2>. QED  BY <1>2, <2>2 DEF Done
<1>3. CASE x.op = "grant"
  <2>1. /\ <<r, x.account, x.role>> \in grants \/ Listable(x.account)
        /\ isDefaultUser(x.account) /\ isDefaultRole(x.role)
    BY <1>3 DEF Done, DefaultCall
  <2>2. CASE Listable(x.account)
    BY <1>3, <2>2 DEF Done
  <2>3. CASE <<r, x.account, x.role>> \in grants /\ ~Listable(x.account)
    <3>1. <<r, x.account, x.role>> \in grants'
      BY <2>1, <2>3, ChangeTakes DEF Spares
    <3>. QED  BY <1>3, <3>1 DEF Done
  <2>. QED  BY <2>1, <2>2, <2>3
<1>. QED  BY <1>1, <1>2, <1>3 DEF DefaultCall

\* In the realm r, whatever names it before or after, what is done stays done.
KeepsDone(r) == \A x : DefaultCall(x) /\ Done(r, x) => Done(r, x)'

\* A step that leaves Keycloak alone undoes nothing.
LEMMA QuietKeeps ==
    ASSUME UNCHANGED ssoVars, NEW r
    PROVE  KeepsDone(r)
BY DEF ssoVars, KeepsDone, Done

\* What Accepted asks for takes nothing away.
LEMMA DefaultSpares ==
    ASSUME NEW x, DefaultCall(x)
    PROVE  Spares(x)
BY DEF DefaultCall, Spares

\* Nor does an answered, failed or lost call that takes nothing done away.
LEMMA AskKeeps ==
    ASSUME NEW y \in Changes, Spares(y), NEW o, Ask(y, o), NEW r
    PROVE  KeepsDone(r)
<1>1. CASE UNCHANGED ssoVars
  BY <1>1, QuietKeeps
<1>2. CASE SsoChange(ujob.realm, y)
  BY <1>2, ChangeKeepsDone DEF KeepsDone
<1>. QED  BY <1>1, <1>2 DEF Ask

\* Nor does dealing with a change, be the account found or not.
LEMMA DealKeeps ==
    ASSUME KeycloakTypeOK, DefaultsClear, NEW x \in Changes, Spares(x),
           NEW next, Deal(x, next), NEW r
    PROVE  KeepsDone(r)
<1>1. ASSUME NEW o \in Outcomes, NEW y \in Resolved(ujob.realm, x), Ask(y, o)
      PROVE  KeepsDone(r)
  BY <1>1, ResolvedSpares, AskKeeps
<1>2. ASSUME SsoChange(ujob.realm, x)
      PROVE  KeepsDone(r)
  BY <1>2, ChangeKeepsDone DEF KeepsDone
<1>. QED  BY <1>1, <1>2 DEF Deal

\* A step of the RhpamUser controller undoes nothing in any realm.
LEMMA UserKeeps ==
    ASSUME OperatorIInv, DefaultsIInv, DefaultsClear, UserController, NEW r
    PROVE  KeepsDone(r)
<1>0. /\ UserCtlTypeOK /\ KeycloakTypeOK /\ D!CopiesSound
      /\ PlanSpares /\ FillProgress
  BY DEF OperatorIInv, ResourceIInv, RealmIInv, DevIInv, UserCtlTypeOK, DefaultsIInv
<1>1. ASSUME UserCall
      PROVE  ujob # UserIdle /\ GoodRun(ujob) /\ ujob.plan \subseteq Changes
  BY <1>0, <1>1, RunAtCall DEF OperatorIInv, UserJob
<1>2. CASE \E u \in Users : UserHandler(u)
  BY <1>0, <1>2, UserHandlerType, QuietKeeps
<1>3. CASE \/ NextDev \/ HandOver \/ ListRoles \/ ListUsersOfRealm \/ Purge
           \/ ListPurge \/ FailUser \/ SaveUser
  <2>1. UNCHANGED ssoVars
    BY <1>3 DEF NextDev, HandOver, ListRoles, ListUsersOfRealm, Purge, ListPurge,
       FailUser, SaveUser
  <2>. QED  BY <2>1, QuietKeeps
<1>4. CASE Fill
  <2>1. /\ ujob.pc = "fill" /\ ujob.todo \in Seq(Changes) /\ ujob.todo # <<>>
        /\ ujob.filled \in 0..Len(DefaultUsers)
    BY <1>1, <1>4 DEF UserCall, Fill, GoodRun, SoundRun, UserJob
  <2>2. Head(ujob.todo) \in Changes
    BY <2>1, HeadTailType
  <2>3. Head(ujob.todo) = ujob.todo[1] /\ 1 \in DOMAIN ujob.todo
    BY <2>1
  <2>4. DefaultCall(Head(ujob.todo))
    BY <1>0, <2>1, <2>3, FillCallsDefault DEF FillProgress
  <2>. QED  BY <1>0, <1>4, <2>2, <2>4, DefaultSpares, DealKeeps DEF Fill
<1>5. CASE ReconcileRole \/ ReconcileAccount
  <2>1. PICK x \in ujob.plan : \E next : Deal(x, next)
    BY <1>5 DEF ReconcileRole, ReconcileAccount
  <2>. QED  BY <1>0, <1>1, <1>5, <2>1, DealKeeps DEF PlanSpares, UserCall
<1>6. CASE PurgeCall
  <2>1. PICK x \in ujob.plan, o \in Outcomes : Ask(x, o)
    BY <1>6 DEF PurgeCall
  <2>. QED  BY <1>0, <1>1, <1>6, <2>1, AskKeeps DEF PlanSpares, UserCall
<1>. QED  BY <1>2, <1>3, <1>4, <1>5, <1>6 DEF UserController, UserCall

\* A step of the RhpamDev controller undoes nothing in the realm of a RhpamDev
\* that is not being deleted.
LEMMA DevKeeps ==
    ASSUME RealmIInv, DevController, NEW d \in Devs, Present(d),
           NEW r, r = dev[d].realm, r # NoRealm
    PROVE  KeepsDone(r)
<1>1. CASE \E e \in Devs : DevHandler(e)
  <2>1. UNCHANGED ssoVars
    BY <1>1 DEF DevHandler, InitializeDev, ProvisionRealm, Prepare, InstallDatabase,
       InstallBusinessCentral, WaitForDatabase, InstallKieServer, DeprovisionDev,
       DropDev, Start, Take, devCtlVars
  <2>. QED  BY <2>1, QuietKeeps
<1>2. CASE CreateRealm
  <2>1. roles \subseteq roles' /\ UNCHANGED <<accounts, grants>>
    BY <1>2 DEF CreateRealm, SsoCreateRealm
  <2>. QED  BY <2>1 DEF KeepsDone, Done
<1>3. CASE CreateClient
  <2>1. UNCHANGED <<roles, accounts, grants>>
    BY <1>3 DEF CreateClient, SsoCreateClient, ssoVars
  <2>. QED  BY <2>1 DEF KeepsDone, Done
<1>4. CASE DeleteRealm
  <2>1. job # Idle
    BY <1>4 DEF DeleteRealm, Idle
  <2>2. r # job.copy.realm
    BY <1>4, <2>1, CallPurpose, NotTaken DEF DeleteRealm
  <2>3. UNCHANGED ssoVars \/ SsoDeleteRealm(job.copy.realm)
    BY <1>4 DEF DeleteRealm
  <2>4. CASE SsoDeleteRealm(job.copy.realm)
    <3>1. /\ \A x : <<r, x>> \in roles => <<r, x>> \in roles'
          /\ \A x : <<r, x>> \in accounts => <<r, x>> \in accounts'
          /\ \A a, x : <<r, a, x>> \in grants => <<r, a, x>> \in grants'
      BY <2>2, <2>4 DEF SsoDeleteRealm
    <3>. QED  BY <3>1 DEF KeepsDone, Done
  <2>. QED  BY <2>3, <2>4, QuietKeeps
<1>5. CASE \/ Mark \/ CreateRealmSecret \/ CreateResource \/ ListUsers
           \/ DetachUser \/ DeleteResource \/ Save
  <2>1. UNCHANGED ssoVars
    BY <1>5 DEF Mark, CreateRealmSecret, CreateResource, ListUsers, DetachUser,
       DeleteResource, Save
  <2>. QED  BY <2>1, QuietKeeps
<1>. QED  BY <1>1, <1>2, <1>3, <1>4, <1>5 DEF DevController, DevCall

\* Nor does any other step.
LEMMA OperatorKeeps ==
    ASSUME OperatorIInv, DefaultsIInv, DefaultsClear, [OperatorNext]_vars,
           NEW d \in Devs, Present(d), NEW r, r = dev[d].realm, r # NoRealm
    PROVE  KeepsDone(r)
<1>1. CASE UserStep
  BY <1>1, UserKeeps DEF UserStep
<1>2. CASE DevStep
  BY <1>2, DevKeeps DEF DevStep, OperatorIInv, ResourceIInv
<1>3. CASE ClusterStep \/ Disturbance \/ CrashOperator \/ UNCHANGED vars
  <2>1. UNCHANGED ssoVars
    BY <1>3 DEF ClusterStep, Disturbance, CrashOperator, vars
  <2>. QED  BY <2>1, QuietKeeps
<1>. QED  BY <1>1, <1>2, <1>3 DEF OperatorNext

\* So what Accepted has made of a realm stays.
LEMMA FilledStays ==
    ASSUME DefaultsClear, NEW r, KeepsDone(r), NEW n \in 0..Len(DefaultUsers),
           FilledUpTo(r, n)
    PROVE  FilledUpTo(r, n)'
<1>1. ASSUME NEW k \in 0..n, NEW i \in DOMAIN FillCalls(k)
      PROVE  Done(r, FillCalls(k)[i])'
  <2>1. k \in 0..Len(DefaultUsers)
    BY DefaultUsersLength
  <2>2. DefaultCall(FillCalls(k)[i]) /\ Done(r, FillCalls(k)[i])
    BY <1>1, <2>1, FillCallsDefault DEF FilledUpTo
  <2>. QED  BY <2>2 DEF KeepsDone
<1>. QED  BY <1>1 DEF FilledUpTo

\* The plans of a run take away nothing of the defaults.
LEMMA PlansSpare ==
    ASSUME GoodRun(ujob), NEW listed
    PROVE  /\ \A x \in RolePlan : Spares(x)
           /\ \A x \in UserPlan(listed) : Spares(x)
           /\ \A x \in {DeleteUserIn(a) : a \in {a \in listed : ~isDefaultUser(a)}} :
                 Spares(x)
           /\ \A x \in {DeleteRole(r) : r \in {r \in RolesHere : ~isDefaultRole(r)}} :
                 Spares(x)
<1>1. /\ \A r : Spares(CreateRole(r)) /\ (~isDefaultRole(r) => Spares(DeleteRole(r)))
      /\ \A a : /\ Spares(CreateUserIn(a))
                /\ ~isDefaultUser(a) => Spares(DeleteUserIn(a))
      /\ \A a, r : Spares(Grant(a, r)) /\ (Listable(a) => Spares(Revoke(a, r)))
  BY DEF Spares, CreateRole, DeleteRole, CreateUserIn, DeleteUserIn, Grant, Revoke
<1>2. \A a \in DOMAIN SpecUsers[ujob.copy.spec] : Listable(a)
  BY DEF Listable, GoodRun, SoundRun, UserJob, U!Object
<1>3. \A x \in RolePlan : Spares(x)
  BY <1>1 DEF RolePlan
<1>4. ASSUME NEW x \in UserPlan(listed)
      PROVE  Spares(x)
  <2>1. \/ \E a : x = CreateUserIn(a)
        \/ \E a : ~isDefaultUser(a) /\ x = DeleteUserIn(a)
        \/ \E a \in DOMAIN SpecUsers[ujob.copy.spec] :
              \E r : x = Grant(a, r) \/ x = Revoke(a, r)
    BY <1>4 DEF UserPlan
  <2>. QED  BY <1>1, <1>2, <2>1
<1>. QED  BY <1>1, <1>3, <1>4

\* Where a plan comes from: the plan before, or a list.
Drawn(plan) ==
    \/ plan \subseteq ujob.plan
    \/ plan = RolePlan
    \/ \E listed : \/ plan = UserPlan(listed)
                   \/ plan = {DeleteUserIn(a) : a \in {a \in listed : ~isDefaultUser(a)}}
    \/ plan = {DeleteRole(r) : r \in {r \in RolesHere : ~isDefaultRole(r)}}

RealmCall ==
    \/ ListRoles \/ ListUsersOfRealm \/ ReconcileRole \/ ReconcileAccount
    \/ Purge \/ ListPurge \/ PurgeCall

\* How a run goes on from a call of Reconcile or Deprovision.
LEMMA RealmCallRun ==
    ASSUME RealmCall
    PROVE  \/ Abort
           \/ \E plan, now :
                 \E pc \in {"roles", "listUsers", "users", "purgeUsers",
                            "listPurge", "purgeRoles", "save"} :
                    /\ Drawn(plan)
                    /\ \/ GoOn([ujob EXCEPT !.pc = pc, !.plan = plan])
                       \/ GoOn([ujob EXCEPT !.pc = pc, !.plan = plan, !.now = now])
<1>. DEFINE run(pc, plan, now) == [ujob EXCEPT !.pc = pc, !.plan = plan, !.now = now]
            next(pc, plan) == [ujob EXCEPT !.pc = pc, !.plan = plan]
            Goal == \/ Abort
                    \/ \E plan, now :
                          \E pc \in {"roles", "listUsers", "users", "purgeUsers",
                                     "listPurge", "purgeRoles", "save"} :
                             /\ Drawn(plan)
                             /\ GoOn(next(pc, plan)) \/ GoOn(run(pc, plan, now))
<1>1. ASSUME NEW j, List(j) \/ \E x : Deal(x, j)
      PROVE  GoOn(j) \/ Abort
  BY <1>1 DEF List, Deal
<1>2. CASE ListRoles
  <2>1. \E pc \in {"listUsers", "roles"} : List(next(pc, RolePlan))
    BY <1>2 DEF ListRoles
  <2>2. Drawn(RolePlan)
    BY DEF Drawn
  <2>. HIDE DEF next
  <2>3. Goal
    BY <1>1, <2>1, <2>2
  <2>. QED  BY <2>3 DEF next
<1>3. CASE ListUsersOfRealm
  <2>1. PICK listed \in Pages(ujob.realm) :
            LET plan == UserPlan(listed)
            IN  List([ujob EXCEPT !.pc = IF plan = {} THEN "save" ELSE "users",
                                  !.plan = plan, !.now = NoAccount])
    BY <1>3 DEF ListUsersOfRealm
  <2>2. \E pc \in {"save", "users"} : List(run(pc, UserPlan(listed), NoAccount))
    BY <2>1
  <2>3. Drawn(UserPlan(listed))
    BY DEF Drawn
  <2>. HIDE DEF run
  <2>4. Goal
    BY <1>1, <2>2, <2>3
  <2>. QED  BY <2>4 DEF run
<1>4. CASE ReconcileRole
  <2>1. PICK x \in ujob.plan :
            Deal(x, [ujob EXCEPT !.pc = IF ujob.plan = {x} THEN "listUsers" ELSE @,
                                 !.plan = @ \ {x}])
    BY <1>4 DEF ReconcileRole
  <2>2. \E pc \in {"listUsers", "roles"} : Deal(x, next(pc, ujob.plan \ {x}))
    BY <1>4, <2>1 DEF ReconcileRole
  <2>3. Drawn(ujob.plan \ {x})
    BY DEF Drawn
  <2>. HIDE DEF next
  <2>4. Goal
    BY <1>1, <2>2, <2>3
  <2>. QED  BY <2>4 DEF next
<1>5. CASE ReconcileAccount
  <2>1. PICK x \in ujob.plan :
            Deal(x, [ujob EXCEPT !.pc = IF ujob.plan = {x} THEN "save" ELSE @,
                                 !.plan = @ \ {x}, !.now = x.account])
    BY <1>5 DEF ReconcileAccount
  <2>2. \E pc \in {"save", "users"} : Deal(x, run(pc, ujob.plan \ {x}, x.account))
    BY <1>5, <2>1 DEF ReconcileAccount
  <2>3. Drawn(ujob.plan \ {x})
    BY DEF Drawn
  <2>. HIDE DEF run
  <2>4. Goal
    BY <1>1, <2>2, <2>3
  <2>. QED  BY <2>4 DEF run
<1>6. CASE Purge
  <2>1. PICK listed \in Pages(ujob.realm) :
          LET found == {DeleteUserIn(a) : a \in {a \in listed : ~isDefaultUser(a)}}
          IN  List([ujob EXCEPT
                      !.pc = IF found = {} THEN "listPurge" ELSE "purgeUsers",
                      !.plan = found])
    BY <1>6 DEF Purge
  <2>. DEFINE found == {DeleteUserIn(a) : a \in {a \in listed : ~isDefaultUser(a)}}
  <2>2. \E pc \in {"listPurge", "purgeUsers"} : List(next(pc, found))
    BY <2>1
  <2>3. Drawn(found)
    BY DEF Drawn
  <2>. HIDE DEF found, next
  <2>4. Goal
    BY <1>1, <2>2, <2>3
  <2>. QED  BY <2>4 DEF next
<1>7. CASE ListPurge
  <2>. DEFINE found == {DeleteRole(r) : r \in {r \in RolesHere : ~isDefaultRole(r)}}
  <2>1. Drawn(found) /\ Drawn({})
    BY DEF Drawn
  <2>. HIDE DEF found
  <2>2. PICK o \in {"ok", "failed"} :
            LET plan == IF o = "ok" THEN found ELSE {}
            IN  /\ Suffer(o)
                /\ GoOn([ujob EXCEPT !.pc = IF plan = {} THEN "save" ELSE "purgeRoles",
                                     !.plan = plan])
    BY <1>7 DEF ListPurge, found
  <2>3. \E pc \in {"save", "purgeRoles"}, plan \in {found, {}} : GoOn(next(pc, plan))
    BY <2>2
  <2>. HIDE DEF next
  <2>4. Goal
    BY <2>1, <2>3
  <2>. QED  BY <2>4 DEF next
<1>8. CASE PurgeCall
  <2>1. PICK x \in ujob.plan, o \in Outcomes :
          /\ Ask(x, o)
          /\ \/ GoOn([ujob EXCEPT
                        !.pc = IF ujob.plan # {x} THEN @
                               ELSE IF @ = "purgeUsers" THEN "listPurge"
                               ELSE "save",
                        !.plan = @ \ {x}])
             \/ Abort
    BY <1>8 DEF PurgeCall
  <2>2. \/ \E pc \in {"purgeUsers", "purgeRoles", "listPurge", "save"} :
              GoOn(next(pc, ujob.plan \ {x}))
        \/ Abort
    BY <1>8, <2>1 DEF PurgeCall
  <2>3. Drawn(ujob.plan \ {x})
    BY DEF Drawn
  <2>. HIDE DEF next
  <2>4. Goal
    BY <2>2, <2>3
  <2>. QED  BY <2>4 DEF next
<1>. QED  BY <1>2, <1>3, <1>4, <1>5, <1>6, <1>7, <1>8 DEF RealmCall

\* No step of the controller plans to take any of the defaults.
LEMMA PlanKept ==
    ASSUME UserCtlTypeOK, UserRunSound, PlanSpares, UserController
    PROVE  PlanSpares'
<1>1. ASSUME UserCall
      PROVE  GoodRun(ujob) /\ ujob \in UserJob /\ \A x \in ujob.plan : Spares(x)
  BY <1>1, RunAtCall DEF PlanSpares
<1>2. ASSUME ujob' = UserIdle \/ \A x \in ujob'.plan : Spares(x)
      PROVE  PlanSpares'
  BY <1>2 DEF PlanSpares, Spares, Listable
<1>3. ASSUME UserCall, Abort
      PROVE  PlanSpares'
  <2>1. ujob' = UserIdle \/ ujob'.plan = ujob.plan
    BY <1>1, <1>3 DEF Abort, GoOn, RequeueUser, UserJob
  <2>. QED  BY <1>1, <1>2, <1>3, <2>1
<1>4. CASE \E u \in Users : UserHandler(u)
  <2>1. PICK u \in Users : UserHandler(u)
    BY <1>4
  <2>2. ASSUME NEW pc, NEW to, NEW realm, NEW devs, StartUser(u, pc, to, realm, devs)
        PROVE  ujob'.plan = {}
    BY <2>2 DEF StartUser
  <2>3. CASE DropUser(u)
    BY <2>3 DEF DropUser, PlanSpares, Spares, Listable
  <2>4. CASE \/ InitializeUser(u) \/ Accepted(u) \/ ReconcileUser(u)
             \/ DeprovisionUser(u)
    <3>1. \E pc, to, realm, devs : StartUser(u, pc, to, realm, devs)
      BY <2>4 DEF InitializeUser, Accepted, ReconcileUser, DeprovisionUser
    <3>. QED  BY <2>2, <3>1 DEF PlanSpares
  <2>. QED  BY <2>1, <2>3, <2>4 DEF UserHandler
<1>5. CASE NextDev \/ HandOver
  <2>1. ujob'.plan = ujob.plan
    BY <1>1, <1>5 DEF NextDev, HandOver, GoOn, UserCall, UserJob
  <2>. QED  BY <1>1, <1>2, <1>5, <2>1 DEF UserCall
<1>6. CASE Fill
  <2>1. Abort \/ ujob'.plan = ujob.plan
    BY <1>1, <1>6 DEF UserCall, Fill, Deal, Filling, GoOn, UserJob
  <2>. QED  BY <1>1, <1>2, <1>3, <1>6, <2>1 DEF UserCall
<1>7. CASE RealmCall
  <2>1. UserCall
    BY <1>7 DEF RealmCall, UserCall
  <2>2. Abort \/ \E plan : Drawn(plan) /\ ujob'.plan = plan
    BY <1>1, <1>7, <2>1, RealmCallRun DEF GoOn, UserJob
  <2>3. ASSUME NEW plan, Drawn(plan)
        PROVE  \A x \in plan : Spares(x)
    BY <1>1, <2>1, <2>3, PlansSpare DEF Drawn
  <2>. QED  BY <1>2, <1>3, <2>1, <2>2, <2>3
<1>8. CASE FailUser \/ SaveUser
  <2>1. ujob' = UserIdle
    BY <1>8 DEF FailUser, SaveUser, RequeueUser, GoOn
  <2>. QED  BY <2>1 DEF PlanSpares
<1>. QED  BY <1>4, <1>5, <1>6, <1>7, <1>8 DEF UserController, UserCall, RealmCall

\* What a request of Accepted asks for, it does.
LEMMA ChangeDoes ==
    ASSUME NEW r, NEW x, DefaultCall(x), SsoChange(r, x)
    PROVE  Done(r, x)'
<1>1. CASE x.op = "createRole"
  BY <1>1 DEF SsoChange, Done
<1>2. CASE x.op = "createUser"
  BY <1>2 DEF SsoChange, Done
<1>3. CASE x.op = "grant"
  <2>1. grants' = grants \cup {<<r, x.account, x.role>>}
    BY <1>3 DEF SsoChange
  <2>. QED  BY <1>3, <2>1 DEF Done
<1>. QED  BY <1>1, <1>2, <1>3 DEF DefaultCall

\* A call of Accepted: what it asks for is done, or the run ends.
LEMMA FillDoes ==
    ASSUME KeycloakTypeOK, DefaultsClear, NEW x, DefaultCall(x), NEW next,
           Deal(x, next), NEW r, r = ujob.realm
    PROVE  \/ Abort
           \/ GoOn(next) /\ Done(r, x)'
<1>1. x.op # "deleteUser"
  BY DEF DefaultCall
<1>2. CASE \E o \in Outcomes, y \in Resolved(ujob.realm, x) :
             /\ Ask(y, o)
             /\ IF x.op = "deleteUser" \/ (o = "ok" /\ Answered(ujob.realm, y))
                THEN GoOn(next) ELSE Abort
  <2>1. PICK o \in Outcomes, y \in Resolved(ujob.realm, x) :
             /\ Ask(y, o)
             /\ IF o = "ok" /\ Answered(ujob.realm, y) THEN GoOn(next) ELSE Abort
    BY <1>1, <1>2
  <2>2. y = x
    BY ResolvedDefault
  <2>3. CASE o = "ok" /\ Answered(ujob.realm, y)
    <3>1. GoOn(next) /\ SsoChange(r, x)
      BY <2>1, <2>2, <2>3 DEF Ask
    <3>. QED  BY <3>1, ChangeDoes
  <2>. QED  BY <2>1, <2>3
<1>3. CASE SsoChange(ujob.realm, x) /\ GoOn(next)
  BY <1>3, ChangeDoes
<1>. QED  BY <1>2, <1>3 DEF Deal

\* A run that is at none of its RhpamDevs has no progress to tell of.
LEMMA NoProgress ==
    ASSUME ujob'.pc \notin {"devs", "fill", "handOff"}
    PROVE  FillProgress'
BY DEF FillProgress

\* How the filling of a realm progresses.
LEMMA FillStep ==
    ASSUME OperatorIInv, DefaultsIInv, DefaultsClear, Fill
    PROVE  FillProgress'
<1>0. /\ UserCtlTypeOK /\ KeycloakTypeOK /\ FillProgress /\ GoodRun(ujob)
      /\ ujob.pc = "fill" /\ UNCHANGED dev
  <2>1. ujob.pc = "fill" /\ ujob # UserIdle
    BY DEF Fill, UserIdle
  <2>. QED  BY <2>1 DEF OperatorIInv, DefaultsIInv, UserCtlTypeOK, UserRunSound,
            GoodRun, Fill, devVars
<1>1. PICK r, n, todo, d, copy :
        /\ r = ujob.realm /\ n = ujob.filled /\ todo = ujob.todo
        /\ d = Head(ujob.devs)[1] /\ copy = Head(ujob.devs)[2]
  OBVIOUS
<1>2. /\ todo \in Seq(Changes) /\ todo # <<>> /\ n \in 0..Len(DefaultUsers)
      /\ Len(DefaultUsers) \in Nat
  BY <1>0, <1>1, DefaultUsersLength DEF GoodRun, SoundRun, UserJob
<1>3. /\ r = copy.realm
      /\ \A m \in DOMAIN todo : \E i \in DOMAIN FillCalls(n) :
            todo[m] = FillCalls(n)[i]
      /\ Present(d) /\ dev[d] = copy =>
            \A k \in 0..n : \A i \in DOMAIN FillCalls(k) :
                \/ Done(r, FillCalls(k)[i])
                \/ k = n /\ \E m \in DOMAIN todo : todo[m] = FillCalls(k)[i]
  BY <1>0, <1>1 DEF FillProgress
<1>4. PICK x : x = todo[1]
  OBVIOUS
<1>5. x = Head(todo) /\ x \in Changes /\ DefaultCall(x)
  <2>1. x = Head(todo) /\ 1 \in DOMAIN todo
    BY <1>2, <1>4, TailElements
  <2>2. x \in Changes
    BY <1>2, <2>1, HeadTailType
  <2>. QED  BY <1>2, <1>3, <1>4, <2>1, <2>2, FillCallsDefault
<1>6. Deal(x, Filling)
  BY <1>1, <1>5 DEF Fill
<1>7. KeepsDone(r)
  BY <1>0, <1>5, <1>6, DefaultSpares, DealKeeps
<1>8. CASE Abort
  <2>1. ujob' = UserIdle \/ ujob'.pc = "fail"
    BY <1>0, <1>8 DEF Abort, GoOn, RequeueUser, GoodRun, UserJob
  <2>. QED  BY <2>1, NoProgress DEF UserIdle
<1>9. CASE GoOn(Filling) /\ Done(r, x)'
  <2>1. ujob' = Filling
    BY <1>9 DEF GoOn
  <2>2. ASSUME Present(d), dev[d] = copy,
               NEW k \in 0..n, NEW i \in DOMAIN FillCalls(k)
        PROVE  \/ Done(r, FillCalls(k)[i])'
               \/ /\ k = n /\ Len(todo) > 1
                  /\ \E m \in DOMAIN Tail(todo) : Tail(todo)[m] = FillCalls(k)[i]
    <3>1. CASE Done(r, FillCalls(k)[i])
      <4>1. k \in 0..Len(DefaultUsers)
        BY <1>2
      <4>2. DefaultCall(FillCalls(k)[i])
        BY <4>1, FillCallsDefault
      <4>. QED  BY <1>7, <3>1, <4>2 DEF KeepsDone
    <3>2. CASE k = n /\ \E m \in DOMAIN todo : todo[m] = FillCalls(k)[i]
      <4>1. PICK m \in DOMAIN todo : todo[m] = FillCalls(k)[i]
        BY <3>2
      <4>2. CASE m = 1
        BY <1>4, <1>9, <4>1, <4>2
      <4>3. CASE m # 1
        <5>1. Len(todo) > 1 /\ m - 1 \in DOMAIN Tail(todo)
              /\ Tail(todo)[m - 1] = todo[m]
          BY <1>2, <4>3, TailElements
        <5>. QED  BY <3>2, <4>1, <5>1
      <4>. QED  BY <4>2, <4>3
    <3>. QED  BY <1>3, <2>2, <3>1, <3>2
  <2>3. Present(d)' = Present(d) /\ dev'[d] = dev[d]
    BY <1>0 DEF Present
  <2>4. CASE Len(todo) > 1
    <3>1. /\ ujob'.pc = "fill" /\ ujob'.devs = ujob.devs /\ ujob'.realm = r
          /\ ujob'.filled = n /\ ujob'.todo = Tail(todo)
      BY <1>0, <1>1, <2>1, <2>4 DEF Filling, GoodRun, UserJob
    <3>2. \A m \in DOMAIN Tail(todo) : \E i \in DOMAIN FillCalls(n) :
              Tail(todo)[m] = FillCalls(n)[i]
      BY <1>2, <1>3, TailElements
    <3>3. Present(d) /\ dev[d] = copy =>
            \A k \in 0..n : \A i \in DOMAIN FillCalls(k) :
                \/ Done(r, FillCalls(k)[i])'
                \/ k = n /\ \E m \in DOMAIN Tail(todo) : Tail(todo)[m] = FillCalls(k)[i]
      BY <2>2
    <3>. QED  BY <1>1, <1>3, <2>3, <3>1, <3>2, <3>3 DEF FillProgress
  <2>5. CASE ~(Len(todo) > 1) /\ n < Len(DefaultUsers)
    <3>1. /\ ujob'.pc = "fill" /\ ujob'.devs = ujob.devs /\ ujob'.realm = r
          /\ ujob'.filled = n + 1 /\ ujob'.todo = FillCalls(n + 1)
      BY <1>0, <1>1, <2>1, <2>5 DEF Filling, GoodRun, UserJob
    <3>2. ASSUME Present(d), dev[d] = copy,
                 NEW k \in 0..(n + 1), NEW i \in DOMAIN FillCalls(k)
          PROVE  \/ Done(r, FillCalls(k)[i])'
                 \/ /\ k = n + 1
                    /\ \E m \in DOMAIN FillCalls(n + 1) :
                          FillCalls(n + 1)[m] = FillCalls(k)[i]
      <4>1. CASE k = n + 1
        BY <4>1
      <4>2. CASE k \in 0..n
        BY <2>2, <2>5, <3>2, <4>2
      <4>. QED  BY <1>2, <4>1, <4>2
    <3>3. \A m \in DOMAIN FillCalls(n + 1) : \E i \in DOMAIN FillCalls(n + 1) :
              FillCalls(n + 1)[m] = FillCalls(n + 1)[i]
      OBVIOUS
    <3>. QED  BY <1>1, <1>3, <2>3, <3>1, <3>2, <3>3 DEF FillProgress
  <2>6. CASE ~(Len(todo) > 1) /\ ~(n < Len(DefaultUsers))
    <3>1. /\ ujob'.pc = "handOff" /\ ujob'.devs = ujob.devs /\ ujob'.realm = r
          /\ ujob'.filled = 0
      BY <1>0, <1>1, <2>1, <2>6 DEF Filling, GoodRun, UserJob
    <3>2. n = Len(DefaultUsers)
      BY <1>2, <2>6
    <3>3. Present(d) /\ dev[d] = copy => FilledUpTo(r, n)'
      BY <2>2, <2>6 DEF FilledUpTo
    <3>. QED  BY <1>1, <1>3, <2>3, <3>1, <3>2, <3>3 DEF FillProgress
  <2>. QED  BY <2>4, <2>5, <2>6
<1>. QED  BY <1>0, <1>1, <1>5, <1>6, <1>8, <1>9, FillDoes

\* The step from one RhpamDev of the list to the filling of its realm.
LEMMA NextDevProgress ==
    ASSUME UserCtlTypeOK, GoodRun(ujob), FillProgress, NextDev
    PROVE  FillProgress'
<1>. DEFINE copy == Head(ujob.devs)[2]
<1>1. ujob \in UserJob /\ ujob.pc = "devs" /\ ujob.filled = 0
  BY DEF NextDev, GoodRun, FillProgress
<1>2. CASE copy.phase = PhaseComplete
  <2>1. ujob'.pc \in {"save", "devs"} /\ ujob'.filled = 0
    BY <1>1, <1>2 DEF NextDev, GoOn, Following, UserJob
  <2>. QED  BY <2>1 DEF FillProgress
<1>3. CASE copy.phase # PhaseComplete
  <2>1. /\ ujob'.pc = "fill" /\ ujob'.filled = 0 /\ ujob'.todo = FillCalls(0)
        /\ ujob'.devs = ujob.devs /\ ujob'.realm = copy.realm
    BY <1>1, <1>3 DEF NextDev, GoOn, UserJob
  <2>. HIDE DEF copy
  <2>2. \A k \in 0..0 : k = 0
    OBVIOUS
  <2>. QED  BY <2>1, <2>2 DEF FillProgress, copy
<1>. QED  BY <1>2, <1>3

\* What the RhpamUser controller tells of the realm it fills stays true.
LEMMA UserProgress ==
    ASSUME OperatorIInv, DefaultsIInv, DefaultsClear, UserController
    PROVE  FillProgress'
<1>0. UserCtlTypeOK /\ UserRunSound /\ FillProgress
  BY DEF OperatorIInv, DefaultsIInv
<1>1. ASSUME UserCall
      PROVE  GoodRun(ujob) /\ ujob \in UserJob
  BY <1>0, <1>1, RunAtCall
<1>2. CASE \E u \in Users : UserHandler(u)
  <2>1. PICK u \in Users : UserHandler(u)
    BY <1>2
  <2>2. CASE DropUser(u)
    <3>1. UNCHANGED <<ujob, dev, roles, accounts, grants>>
      BY <2>2 DEF DropUser, TakeUser, devVars, ssoVars
    <3>. QED  BY <1>0, <3>1 DEF FillProgress, Done, FilledUpTo, Present
  <2>3. CASE \/ InitializeUser(u) \/ Accepted(u) \/ ReconcileUser(u)
             \/ DeprovisionUser(u)
    <3>1. \E to, realm, devs : \E pc \in {"save", "devs", "listRoles", "purge"} :
             StartUser(u, pc, to, realm, devs)
      BY <2>3 DEF InitializeUser, Accepted, ReconcileUser, DeprovisionUser
    <3>2. ujob'.pc \in {"save", "devs", "listRoles", "purge"} /\ ujob'.filled = 0
      BY <3>1 DEF StartUser
    <3>. QED  BY <3>2 DEF FillProgress
  <2>. QED  BY <2>1, <2>2, <2>3 DEF UserHandler
<1>3. CASE NextDev
  BY <1>0, <1>1, <1>3, NextDevProgress DEF UserCall
<1>4. CASE Fill
  BY <1>4, FillStep
<1>5. CASE HandOver
  <2>1. ujob'.pc \in {"save", "devs"} /\ ujob'.filled = 0
    BY <1>0, <1>1, <1>5 DEF UserCall, HandOver, GoOn, Following, FillProgress, UserJob
  <2>. QED  BY <2>1 DEF FillProgress
<1>6. ASSUME UserCall, NEW j, GoOn(j) \/ Abort, j.pc \notin {"devs", "fill", "handOff"}
      PROVE  FillProgress'
  <2>1. ujob'.pc \notin {"devs", "fill", "handOff"}
    BY <1>1, <1>6 DEF GoOn, Abort, RequeueUser, UserIdle, UserJob
  <2>. QED  BY <2>1, NoProgress
<1>7. CASE RealmCall
  <2>1. UserCall
    BY <1>7 DEF RealmCall, UserCall
  <2>2. CASE Abort
    <3>1. [pc |-> "idle"].pc \notin {"devs", "fill", "handOff"}
      OBVIOUS
    <3>. QED  BY <1>6, <2>1, <2>2, <3>1
  <2>3. ASSUME NEW pc, pc \notin {"devs", "fill", "handOff"}, NEW plan, NEW now,
               NEW j \in {[ujob EXCEPT !.pc = pc, !.plan = plan],
                          [ujob EXCEPT !.pc = pc, !.plan = plan, !.now = now]},
               GoOn(j)
        PROVE  FillProgress'
    <3>1. j.pc = pc
      BY <1>1, <2>1, <2>3 DEF UserJob
    <3>. QED  BY <1>6, <2>1, <2>3, <3>1
  <2>. QED  BY <1>7, <2>2, <2>3, RealmCallRun
<1>8. CASE FailUser \/ SaveUser
  <2>1. ujob' = UserIdle
    BY <1>8 DEF FailUser, SaveUser, RequeueUser, GoOn
  <2>. QED  BY <2>1, NoProgress DEF UserIdle
<1>. QED  BY <1>2, <1>3, <1>4, <1>5, <1>7, <1>8 DEF UserController, UserCall, RealmCall

\* The versions of a RhpamDev before and after a step.
LEMMA CopyStays ==
    ASSUME D!TypeOK, ObjectStep, NEW d \in Devs, NEW copy \in D!Object,
           D!Sound(d, copy), dev'[d] = copy
    PROVE  dev[d] = copy
<1>1. CASE UNCHANGED dev
  BY <1>1
<1>2. CASE \E e \in Devs, v \in D!Object : Stores(e, v) /\ D!Store(e, v)
  <2>1. PICK e \in Devs, v \in D!Object : Stores(e, v) /\ D!Store(e, v)
    BY <1>2
  <2>2. dev' = [dev EXCEPT ![e] = v] /\ v.rv = dev[e].rv + 1
    BY <2>1, StoreFacts DEF D!Store
  <2>3. CASE e = d
    <3>1. copy = v /\ copy.rv = dev[d].rv + 1 /\ copy.rv <= dev[d].rv
      BY <2>2, <2>3 DEF D!TypeOK, D!Sound
    <3>2. dev[d].rv \in Nat
      BY DEF D!TypeOK, D!Object
    <3>. QED  BY <3>1, <3>2
  <2>4. CASE e # d
    BY <2>2, <2>4 DEF D!TypeOK
  <2>. QED  BY <2>3, <2>4
<1>. QED  BY <1>1, <1>2 DEF ObjectStep

\* A realm that the RhpamUser controller fills is that of a RhpamDev it has
\* read, and was given one.
LEMMA FilledRealm ==
    ASSUME OperatorIInv, FillProgress, ujob.pc \in {"fill", "handOff"},
           NEW d, d = Head(ujob.devs)[1], NEW copy, copy = Head(ujob.devs)[2]
    PROVE  /\ d \in Devs /\ copy \in D!Object /\ D!Sound(d, copy)
           /\ ujob.realm = copy.realm /\ GoodRun(ujob)
           /\ copy.phase = PhaseRealmProvisioned
           /\ dev[d] = copy => copy.realm # NoRealm
<1>1. GoodRun(ujob) /\ ujob.devs # <<>>
  <2>1. ujob # UserIdle
    BY DEF UserIdle
  <2>. QED  BY <2>1 DEF OperatorIInv, UserCtlTypeOK, UserRunSound, GoodRun, SoundRun
<1>2. /\ d \in Devs /\ copy \in D!Object /\ D!Sound(d, copy)
      /\ copy.phase = PhaseRealmProvisioned
  BY <1>1, NextRun DEF GoodRun, SoundRun
<1>3. RealmKept(d)
  BY <1>2 DEF OperatorIInv, ResourceIInv, RealmIInv
<1>. QED  BY <1>1, <1>2, <1>3
          DEF FillProgress, RealmKept, NoPhase, PhaseAccepted, PhaseRealmProvisioning,
              PhaseRealmProvisioned

\* Nor does any other step make it untrue.
LEMMA OtherProgress ==
    ASSUME OperatorIInv, DefaultsIInv, DefaultsClear, [OperatorNext]_vars,
           UNCHANGED ujob
    PROVE  FillProgress'
<1>0. /\ FillProgress /\ D!TypeOK /\ ObjectStep
  BY OperatorStepFacts
     DEF DefaultsIInv, OperatorIInv, ResourceIInv, RealmIInv, DevIInv, DevTypeOK,
         ClusterTypeOK
<1>1. CASE ujob.pc \notin {"fill", "handOff"}
  BY <1>0, <1>1 DEF FillProgress
<1>2. CASE ujob.pc \in {"fill", "handOff"}
  <2>1. PICK d, copy, r : /\ d = Head(ujob.devs)[1] /\ copy = Head(ujob.devs)[2]
                          /\ r = ujob.realm
    OBVIOUS
  <2>2. /\ d \in Devs /\ copy \in D!Object /\ D!Sound(d, copy) /\ r = copy.realm
        /\ dev[d] = copy => r # NoRealm
        /\ ujob.filled \in 0..Len(DefaultUsers) /\ Len(DefaultUsers) \in Nat
    BY <1>0, <1>2, <2>1, FilledRealm, DefaultUsersLength DEF GoodRun, UserJob
  <2>3. ASSUME Present(d)', dev'[d] = copy
        PROVE  Present(d) /\ dev[d] = copy /\ KeepsDone(r)
    <3>1. dev[d] = copy /\ Present(d)
      BY <1>0, <2>2, <2>3, CopyStays DEF Present
    <3>. QED  BY <2>2, <3>1, OperatorKeeps
  <2>4. CASE ujob.pc = "handOff"
    <3>1. ASSUME Present(d)', dev'[d] = copy
          PROVE  FilledUpTo(r, Len(DefaultUsers))'
      <4>1. FilledUpTo(r, Len(DefaultUsers))
        BY <1>0, <2>1, <2>3, <2>4, <3>1 DEF FillProgress
      <4>. QED  BY <2>2, <2>3, <3>1, <4>1, FilledStays
    <3>. QED  BY <1>0, <2>1, <2>2, <2>4, <3>1 DEF FillProgress
  <2>5. CASE ujob.pc = "fill"
    <3>1. PICK n, todo : n = ujob.filled /\ todo = ujob.todo
      OBVIOUS
    <3>2. ASSUME Present(d)', dev'[d] = copy,
                 NEW k \in 0..n, NEW i \in DOMAIN FillCalls(k)
          PROVE  \/ Done(r, FillCalls(k)[i])'
                 \/ k = n /\ \E m \in DOMAIN todo : todo[m] = FillCalls(k)[i]
      <4>1. \/ Done(r, FillCalls(k)[i])
            \/ k = n /\ \E m \in DOMAIN todo : todo[m] = FillCalls(k)[i]
        BY <1>0, <2>1, <2>3, <2>5, <3>1, <3>2 DEF FillProgress
      <4>2. k \in 0..Len(DefaultUsers)
        BY <2>2, <3>1
      <4>3. DefaultCall(FillCalls(k)[i])
        BY <4>2, FillCallsDefault
      <4>. QED  BY <2>3, <3>2, <4>1, <4>3 DEF KeepsDone
    <3>. QED  BY <1>0, <2>1, <2>2, <2>5, <3>1, <3>2 DEF FillProgress
  <2>. QED  BY <1>2, <2>4, <2>5
<1>. QED  BY <1>1, <1>2

\* The phases from PhasePrepare on.
LatePhase ==
    {PhasePrepare, PhasePrepared, PhaseDatabaseInstalled,
     PhaseBusinessCentralInstalled, PhaseDatabaseReady, PhaseComplete}

\* A RhpamDev has been handed over in these phases, before and after a step.
LEMMA AtLeastPrepare ==
    ASSUME NEW d \in Devs
    PROVE  /\ AtLeast(d, PhasePrepare) <=>
                 dev[d].exists /\ dev[d].phase \in LatePhase
           /\ AtLeast(d, PhasePrepare)' <=>
                 dev'[d].exists /\ dev'[d].phase \in LatePhase
<1>1. /\ PhaseRank[5] = PhasePrepare
      /\ PhaseRank[6] = PhasePrepared /\ PhaseRank[7] = PhaseDatabaseInstalled
      /\ PhaseRank[8] = PhaseBusinessCentralInstalled
      /\ PhaseRank[9] = PhaseDatabaseReady /\ PhaseRank[10] = PhaseComplete
      /\ Len(PhaseRank) = 10
  BY DEF PhaseRank
<1>. HIDE DEF PhaseRank
<1>2. Rank(PhasePrepare) = 5
  BY <1>1, PhaseRanks DEF Rank
<1>3. \A i : i \in 5..10 <=> i \in {5, 6, 7, 8, 9, 10}
  OBVIOUS
<1>. QED  BY <1>1, <1>2, <1>3 DEF AtLeast, LatePhase

\* A move to a late phase starts from one, or from the hand-over.
LEMMA LateMoves ==
    ASSUME NEW p, NEW q, <<p, q>> \in Advance, q \in LatePhase
    PROVE  \/ p \in LatePhase
           \/ p = PhaseRealmProvisioned /\ q = PhasePrepare
<1>1. /\ PhaseRank[1] = NoPhase /\ PhaseRank[2] = PhaseAccepted
      /\ PhaseRank[3] = PhaseRealmProvisioning
      /\ PhaseRank[4] = PhaseRealmProvisioned /\ PhaseRank[5] = PhasePrepare
      /\ PhaseRank[6] = PhasePrepared /\ PhaseRank[7] = PhaseDatabaseInstalled
      /\ PhaseRank[8] = PhaseBusinessCentralInstalled
      /\ PhaseRank[9] = PhaseDatabaseReady /\ PhaseRank[10] = PhaseComplete
      /\ Len(PhaseRank) = 10
  BY DEF PhaseRank
<1>. HIDE DEF PhaseRank
<1>2. q \notin {NoPhase, PhaseAccepted, PhaseRealmProvisioning, PhaseRealmProvisioned}
  BY DEF LatePhase, NoPhase, PhaseAccepted, PhaseRealmProvisioning,
     PhaseRealmProvisioned, PhasePrepare, PhasePrepared, PhaseDatabaseInstalled,
     PhaseBusinessCentralInstalled, PhaseDatabaseReady, PhaseComplete
<1>3. PICK i \in 1..9 : p = PhaseRank[i] /\ q = PhaseRank[i + 1]
  BY <1>1, <1>2 DEF Advance
<1>4. i \in {1, 2, 3, 4, 5, 6, 7, 8, 9}
  OBVIOUS
<1>. QED  BY <1>1, <1>2, <1>3, <1>4 DEF LatePhase

\* A RhpamDev in a late phase was so before, in the same realm, or has just
\* been handed over.
LEMMA LateKept ==
    ASSUME RealmIInv, ObjectStep, LegalStep, NEW d \in Devs,
           dev'[d].exists, ~dev'[d].deleting, dev'[d].phase \in LatePhase
    PROVE  /\ Present(d) /\ dev[d].realm # NoRealm /\ dev'[d].realm = dev[d].realm
           /\ \/ dev[d].phase \in LatePhase
              \/ dev[d].phase = PhaseRealmProvisioned /\ dev'[d].phase = PhasePrepare
<1>0. D!TypeOK /\ RealmKept(d)
  BY DEF RealmIInv, DevIInv, DevTypeOK, ClusterTypeOK
<1>1. NoPhase \notin LatePhase
  BY DEF LatePhase, NoPhase, PhasePrepare, PhasePrepared, PhaseDatabaseInstalled,
     PhaseBusinessCentralInstalled, PhaseDatabaseReady, PhaseComplete
<1>2. /\ dev[d].exists /\ dev'[d].uid = dev[d].uid /\ ~dev[d].deleting
      /\ \/ dev'[d].phase = dev[d].phase
         \/ <<dev[d].phase, dev'[d].phase>> \in Advance
  BY <1>1, SameObject
<1>3. \/ dev[d].phase \in LatePhase
      \/ dev[d].phase = PhaseRealmProvisioned /\ dev'[d].phase = PhasePrepare
  BY <1>2, LateMoves
<1>4. dev[d].realm # NoRealm
  BY <1>0, <1>3 DEF RealmKept, LatePhase, NoPhase, PhaseAccepted,
     PhaseRealmProvisioning, PhaseRealmProvisioned, PhasePrepare, PhasePrepared,
     PhaseDatabaseInstalled, PhaseBusinessCentralInstalled, PhaseDatabaseReady,
     PhaseComplete
<1>. QED  BY <1>0, <1>2, <1>3, <1>4, LegalStepOrder DEF Present, SameDev

\* No update of the RhpamDev controller or of a user is the hand-over.
LEMMA NotHandedByUpdate ==
    ASSUME D!TypeOK, NEW d \in Devs, NEW e \in Devs, NEW u \in D!Object,
           D!Update(e, u), u.exists, u.phase # PhasePrepare,
           dev'[d].exists, dev'[d].phase = PhasePrepare
    PROVE  dev'[d] = dev[d]
<1>1. CASE e # d
  BY <1>1, UpdateStores DEF D!TypeOK
<1>2. CASE e = d
  <2>1. dev'[d] = D!Result(d, u)
    BY <1>2, UpdateStores
  <2>2. CASE u.deleting /\ ~u.fin
    <3>1. u = dev[d] \/ ~D!Result(d, u).exists
      BY <2>2 DEF D!Result, D!Absent
    <3>. QED  BY <2>1, <3>1 DEF D!Result
  <2>3. CASE ~(u.deleting /\ ~u.fin)
    BY <1>2, <2>1, <2>3, UpdateStores
  <2>. QED  BY <2>2, <2>3
<1>. QED  BY <1>1, <1>2

\* The RhpamDev controller hands no RhpamDev over.
LEMMA NotHandedByDev ==
    ASSUME RealmIInv, DevController, NEW d \in Devs,
           dev'[d].exists, dev'[d].phase = PhasePrepare
    PROVE  dev'[d] = dev[d]
<1>0. D!TypeOK /\ RunSound
  BY DEF RealmIInv, DevIInv, DevTypeOK, ClusterTypeOK
<1>1. CASE \E e \in Devs : DevHandler(e)
  BY <1>1, HandlerKeepsRealm
<1>2. CASE DevCall /\ ~Mark /\ ~Save
  BY <1>2, OtherCallKeepsRealm
<1>3. CASE Mark
  <2>1. job # Idle
    BY <1>3 DEF Mark, Idle
  <2>2. /\ job.name \in Devs /\ job.copy \in D!Object /\ job.copy.exists
    BY <1>0, <2>1, CallPurpose DEF JobRecords, RunSound
  <2>. DEFINE u == [job.copy EXCEPT !.phase = PhaseRealmProvisioning]
  <2>3. UNCHANGED dev \/ D!Update(job.name, u)
    BY <1>3 DEF Mark, Put
  <2>4. u \in D!Object /\ u.exists /\ u.phase # PhasePrepare
    BY <2>2 DEF D!Object, StatusPhase, PhaseRealmProvisioning, PhasePrepare
  <2>. HIDE DEF u
  <2>. QED  BY <1>0, <2>2, <2>3, <2>4, NotHandedByUpdate
<1>4. CASE Save
  <2>1. job # Idle
    BY <1>4 DEF Save, Idle
  <2>2. /\ job.name \in Devs /\ job.copy \in D!Object /\ job.copy.exists
        /\ job.to \in StatusPhase /\ job.realm \in Realms
    BY <1>0, <2>1, CallPurpose DEF JobRecords, RunSound
  <2>3. job.to # PhasePrepare
    BY <1>0, <2>1 DEF RunSound, RunMoves, NoPhase, PhaseAccepted,
       PhaseRealmProvisioning, PhaseRealmProvisioned, PhasePrepare, PhasePrepared,
       PhaseDatabaseInstalled, PhaseBusinessCentralInstalled, PhaseDatabaseReady,
       PhaseComplete, PhaseDeprovisioned
  <2>4. UNCHANGED dev \/ D!Update(job.name, Saved)
    BY <1>4 DEF Save, Put
  <2>5. Saved \in D!Object /\ Saved.exists /\ Saved.phase = job.to
    BY <2>2 DEF Saved, D!Object
  <2>. QED  BY <1>0, <2>2, <2>3, <2>4, <2>5, NotHandedByUpdate
<1>. QED  BY <1>1, <1>2, <1>3, <1>4 DEF DevController, DevCall

\* Nor is what a user does to a RhpamDev.
LEMMA NotHandedByUsers ==
    ASSUME D!TypeOK, NEW e \in Devs, CreateDev(e) \/ EditDev(e) \/ DeleteDev(e),
           NEW d \in Devs, dev'[d].exists, dev'[d].phase = PhasePrepare
    PROVE  dev[d].phase = PhasePrepare
<1>1. PICK v : /\ D!Store(e, v)
               /\ v.exists => v.phase \in {NoPhase, dev[e].phase}
  <2>1. dev[e] \in D!Object
    BY DEF D!TypeOK
  <2>2. CASE CreateDev(e)
    <3>1. PICK s : D!Store(e, D!Created(dev[e].rv + 1, s))
      BY <2>2 DEF CreateDev, D!UserCreate
    <3>2. D!Created(dev[e].rv + 1, s).phase = NoPhase
      BY DEF D!Created, D!Absent
    <3>. QED  BY <3>1, <3>2
  <2>3. CASE EditDev(e)
    <3>1. PICK s : D!Store(e, [dev[e] EXCEPT !.rv = @ + 1, !.spec = s])
      BY <2>3 DEF EditDev, D!UserEdit
    <3>2. [dev[e] EXCEPT !.rv = @ + 1, !.spec = s].phase = dev[e].phase
      BY <2>1 DEF D!Object
    <3>. QED  BY <3>1, <3>2
  <2>4. CASE DeleteDev(e)
    <3>1. \/ D!Store(e, [dev[e] EXCEPT !.rv = @ + 1, !.deleting = TRUE])
          \/ D!Store(e, D!Absent(dev[e].rv + 1))
      BY <2>4 DEF DeleteDev, D!UserDelete
    <3>2. [dev[e] EXCEPT !.rv = @ + 1, !.deleting = TRUE].phase = dev[e].phase
      BY <2>1 DEF D!Object
    <3>3. ~D!Absent(dev[e].rv + 1).exists
      BY DEF D!Absent
    <3>. QED  BY <3>1, <3>2, <3>3
  <2>. QED  BY <2>2, <2>3, <2>4
<1>2. dev'[d] = IF d = e THEN v ELSE dev[d]
  BY <1>1 DEF D!Store, D!TypeOK
<1>3. NoPhase # PhasePrepare
  BY DEF NoPhase, PhasePrepare
<1>. QED  BY <1>1, <1>2, <1>3

\* A RhpamDev is handed over when its realm has been filled.
LEMMA HandedOver ==
    ASSUME OperatorIInv, DefaultsIInv, [OperatorNext]_vars, NEW d \in Devs,
           Present(d), dev'[d].exists,
           dev[d].phase # PhasePrepare, dev'[d].phase = PhasePrepare,
           NEW r, r = dev[d].realm
    PROVE  FilledUpTo(r, Len(DefaultUsers))'
<1>0. /\ RealmIInv /\ D!TypeOK /\ FillProgress /\ UserCtlTypeOK /\ UserRunSound
      /\ D!CopiesSound
  BY DEF OperatorIInv, DefaultsIInv, ResourceIInv, RealmIInv, DevIInv, DevTypeOK,
     ClusterTypeOK
<1>1. dev' # dev
  OBVIOUS
<1>2. CASE DevStep
  BY <1>0, <1>2, NotHandedByDev DEF DevStep
<1>3. CASE ClusterStep \/ CrashOperator \/ UNCHANGED vars
  BY <1>1, <1>3 DEF ClusterStep, DeliverDev, DeliverUser, SyncResources, DatabaseUp,
     Collect, D!Deliver, CrashOperator, RestartCluster, D!Relist, vars, devVars
<1>4. CASE Disturbance
  <2>1. PICK e \in Devs : CreateDev(e) \/ EditDev(e) \/ DeleteDev(e)
    BY <1>1, <1>4 DEF Disturbance, CreateUser, EditUser, DeleteUser, ResyncDev,
       ResyncUser, DatabaseDown, D!Resync, devVars
  <2>. QED  BY <1>0, <2>1, NotHandedByUsers
<1>5. CASE UserStep
  <2>1. HandOver
    BY <1>0, <1>1, <1>5, UserControllerStep DEF UserStep, devVars
  <2>2. PICK e, copy : e = Head(ujob.devs)[1] /\ copy = Head(ujob.devs)[2]
    OBVIOUS
  <2>3. ujob.pc = "handOff"
    BY <2>1 DEF HandOver
  <2>4. e \in Devs /\ D!Sound(e, copy) /\ ujob.realm = copy.realm
    BY <1>0, <2>2, <2>3, FilledRealm
  <2>5. /\ D!Accepts(e, copy) /\ UNCHANGED ssoVars
        /\ D!Update(e, [copy EXCEPT !.phase = PhasePrepare])
    BY <1>1, <2>1, <2>2 DEF HandOver
  <2>6. dev[e] = copy
    BY <2>4, <2>5 DEF D!Accepts, D!Sound
  <2>7. e = d
    BY <1>0, <2>4, <2>5 DEF D!Update, D!Store, D!TypeOK
  <2>8. FilledUpTo(ujob.realm, Len(DefaultUsers)) /\ ujob.realm = r
    BY <1>0, <2>2, <2>3, <2>4, <2>6, <2>7 DEF FillProgress
  <2>9. FilledUpTo(r, Len(DefaultUsers))
    BY <2>8
  <2>. QED  BY <2>5, <2>9 DEF FilledUpTo, Done, ssoVars
<1>. QED  BY <1>2, <1>3, <1>4, <1>5 DEF OperatorNext

\* From then on it stays so.
LEMMA FilledKept ==
    ASSUME OperatorIInv, DefaultsIInv, DefaultsClear, [OperatorNext]_vars
    PROVE  DefaultsFilled'
<1>. SUFFICES ASSUME NEW d \in Devs, AtLeast(d, PhasePrepare)', Present(d)'
              PROVE  FilledUpTo(dev[d].realm, Len(DefaultUsers))'
  BY DEF DefaultsFilled
<1>1. RealmIInv /\ ObjectStep /\ LegalStep /\ DefaultsFilled
  BY OperatorStepFacts DEF OperatorIInv, ResourceIInv, DefaultsIInv
<1>2. dev'[d].exists /\ ~dev'[d].deleting /\ dev'[d].phase \in LatePhase
  <2>1. dev'[d].exists /\ dev'[d].phase \in LatePhase
    BY AtLeastPrepare
  <2>. QED  BY <2>1 DEF Present
<1>3. PICK r : r = dev[d].realm
  OBVIOUS
<1>4. /\ Present(d) /\ r # NoRealm /\ dev'[d].realm = r
      /\ \/ dev[d].phase \in LatePhase
         \/ dev[d].phase = PhaseRealmProvisioned /\ dev'[d].phase = PhasePrepare
  BY <1>1, <1>2, <1>3, LateKept
<1>5. FilledUpTo(r, Len(DefaultUsers))'
  <2>1. CASE dev[d].phase \in LatePhase
    <3>1. AtLeast(d, PhasePrepare)
      BY <1>4, <2>1, AtLeastPrepare DEF Present
    <3>2. FilledUpTo(r, Len(DefaultUsers)) /\ KeepsDone(r)
      BY <1>1, <1>3, <1>4, <3>1, OperatorKeeps DEF DefaultsFilled
    <3>. QED  BY <3>2, DefaultUsersLength, FilledStays
  <2>2. CASE dev[d].phase = PhaseRealmProvisioned /\ dev'[d].phase = PhasePrepare
    <3>1. dev[d].phase # PhasePrepare
      BY <2>2 DEF PhaseRealmProvisioned, PhasePrepare
    <3>. QED  BY <1>2, <1>3, <1>4, <2>2, <3>1, HandedOver
  <2>. QED  BY <1>4, <2>1, <2>2
<1>. QED  BY <1>4, <1>5 DEF FilledUpTo, Done

\* All of it.
LEMMA DefaultsInductive ==
    ASSUME OperatorIInv, DefaultsIInv, DefaultsClear, [OperatorNext]_vars
    PROVE  DefaultsIInv'
<1>0. UserCtlTypeOK /\ UserRunSound /\ PlanSpares
  BY DEF OperatorIInv, DefaultsIInv
<1>1. DefaultsFilled'
  BY FilledKept
<1>2. CASE UserStep
  BY <1>0, <1>1, <1>2, PlanKept, UserProgress DEF UserStep, DefaultsIInv
<1>3. CASE UNCHANGED ujob
  <2>1. PlanSpares'
    BY <1>0, <1>3 DEF PlanSpares, Spares, Listable
  <2>. QED  BY <1>1, <1>3, <2>1, OtherProgress DEF DefaultsIInv
<1>4. CASE ujob' = UserIdle
  <2>1. ujob'.pc = "idle"
    BY <1>4 DEF UserIdle
  <2>. QED  BY <1>1, <1>4, <2>1, NoProgress DEF DefaultsIInv, PlanSpares
<1>5. UserStep \/ UNCHANGED ujob \/ ujob' = UserIdle
  BY DEF OperatorNext, DevStep, ClusterStep, Disturbance, CrashOperator, vars
<1>. QED  BY <1>2, <1>3, <1>4, <1>5

\* The calls that create a default account and map its roles.
LEMMA FillCallsOfUser ==
    ASSUME NEW k \in DOMAIN DefaultUsers
    PROVE  LET x == DefaultUsers[k]
           IN  /\ k \in 0..Len(DefaultUsers)
               /\ 1 \in DOMAIN FillCalls(k)
               /\ FillCalls(k)[1] = CreateUserIn(x.username)
               /\ \A j \in DOMAIN x.roles :
                     /\ j + 1 \in DOMAIN FillCalls(k)
                     /\ FillCalls(k)[j + 1] = Grant(x.username, x.roles[j])
<1>. DEFINE x == DefaultUsers[k]
            maps == [n \in DOMAIN x.roles |-> Grant(x.username, x.roles[n])]
<1>1. /\ x.username \in AccountNames /\ x.roles \in Seq(RoleNames)
      /\ k \in 1..Len(DefaultUsers)
  <2>. DEFINE Record == [username: AccountNames, roles: Seq(RoleNames)]
  <2>1. DefaultUsers \in Seq(Record)
    BY DefaultsAssumption
  <2>2. DefaultUsers[k] \in Record /\ k \in 1..Len(DefaultUsers)
    <3>. HIDE DEF Record
    <3>. QED  BY <2>1
  <2>. QED  BY <2>2
<1>2. FillCalls(k) = <<CreateUserIn(x.username)>> \o maps
  BY <1>1 DEF FillCalls
<1>3. maps \in Seq(Changes) /\ <<CreateUserIn(x.username)>> \in Seq(Changes)
  <2>1. \A n \in 1..Len(x.roles) : Grant(x.username, x.roles[n]) \in Changes
    BY <1>1, ChangeType
  <2>2. maps \in [1..Len(x.roles) -> Changes] /\ Len(x.roles) \in Nat
    BY <1>1, <2>1
  <2>. QED  BY <1>1, <2>2, ChangeType
<1>4. /\ 1 \in DOMAIN FillCalls(k) /\ FillCalls(k)[1] = CreateUserIn(x.username)
      /\ \A j \in DOMAIN maps : /\ j + 1 \in DOMAIN FillCalls(k)
                                /\ FillCalls(k)[j + 1] = maps[j]
  <2>. HIDE DEF maps
  <2>. QED  BY <1>2, <1>3
<1>5. \A j \in DOMAIN x.roles : /\ j \in DOMAIN maps
                                 /\ maps[j] = Grant(x.username, x.roles[j])
  OBVIOUS
<1>6. k \in 0..Len(DefaultUsers)
  BY <1>1, DefaultUsersLength
<1>. HIDE DEF maps
<1>. QED  BY <1>4, <1>5, <1>6

\* A realm that has all that Accepted asks for serves the installation.
LEMMA FilledServes ==
    ASSUME DefaultsFilled
    PROVE  DefaultsServe
<1>. SUFFICES ASSUME NEW d \in Devs, AtLeast(d, PhasePrepare), Present(d),
                     NEW r, r = dev[d].realm
              PROVE  /\ \A i \in DOMAIN DefaultRoles : DefaultRoles[i] \in RealmRoles(r)
                     /\ \A i \in DOMAIN DefaultUsers :
                           LET a == DefaultUsers[i].username
                           IN  /\ a \in RealmAccounts(r)
                               /\ \/ Listable(a)
                                  \/ \A j \in DOMAIN DefaultUsers[i].roles :
                                        DefaultUsers[i].roles[j] \in AccountRoles(r, a)
  BY DEF DefaultsServe, Listable
<1>1. \A k \in 0..Len(DefaultUsers) : \A i \in DOMAIN FillCalls(k) :
          Done(r, FillCalls(k)[i])
  BY DEF DefaultsFilled, FilledUpTo
<1>2. ASSUME NEW i \in DOMAIN DefaultRoles
      PROVE  DefaultRoles[i] \in RealmRoles(r)
  <2>1. Done(r, CreateRole(DefaultRoles[i]))
    BY <1>1, DefaultUsersLength DEF FillCalls
  <2>2. <<r, DefaultRoles[i]>> \in roles
    BY <2>1 DEF Done, CreateRole
  <2>. QED  BY <2>2 DEF RealmRoles, InRealm
<1>3. ASSUME NEW i \in DOMAIN DefaultUsers, NEW a, a = DefaultUsers[i].username
      PROVE  a \in RealmAccounts(r)
  <2>1. Done(r, CreateUserIn(a))
    BY <1>1, <1>3, FillCallsOfUser
  <2>2. <<r, a>> \in accounts
    BY <2>1 DEF Done, CreateUserIn
  <2>. QED  BY <2>2 DEF RealmAccounts, InRealm
<1>4. ASSUME NEW i \in DOMAIN DefaultUsers, NEW a, a = DefaultUsers[i].username,
             ~Listable(a), NEW j \in DOMAIN DefaultUsers[i].roles
      PROVE  DefaultUsers[i].roles[j] \in AccountRoles(r, a)
  <2>1. PICK b : b = DefaultUsers[i].roles[j]
    OBVIOUS
  <2>2. Done(r, Grant(a, b))
    BY <1>1, <1>4, <2>1, FillCallsOfUser
  <2>3. <<r, a, b>> \in grants
    BY <1>4, <2>2 DEF Done, Grant
  <2>. QED  BY <2>1, <2>3 DEF AccountRoles
<1>. QED  BY <1>2, <1>3, <1>4

-----------------------------------------------------------------------------
(* Why the accounts are gone when a RhpamUser says so.                     *)

\* What a step makes of the accounts: they have their realm, and a new one
\* was made by a run that is not purging.
MakingCalls == {"fill", "roles", "users"}

HousedStep ==
    /\ \A x \in accounts' : x[1] \in realms'
    /\ \A x \in accounts' \ accounts :
          ujob # UserIdle /\ ujob.pc \in MakingCalls /\ x[1] = ujob.realm

\* A step that leaves Keycloak alone.
LEMMA QuietHouses ==
    ASSUME RealmsHouse, UNCHANGED ssoVars
    PROVE  HousedStep
BY DEF RealmsHouse, HousedStep, ssoVars

\* What a request leaves behind; only one that creates an account makes one.
HousesBut(x) ==
    /\ realms' = realms
    /\ \A p \in accounts' :
          \/ p \in accounts
          \/ x.op = "createUser" /\ p[1] = ujob.realm /\ ujob.realm \in realms

LEMMA AskHouses ==
    ASSUME NEW x \in Changes, NEW o, Ask(x, o)
    PROVE  HousesBut(x)
<1>1. CASE UNCHANGED ssoVars
  BY <1>1 DEF ssoVars, HousesBut
<1>2. CASE Answered(ujob.realm, x) /\ SsoChange(ujob.realm, x)
  <2>1. realms' = realms
    BY <1>2 DEF SsoChange
  <2>2. \A p \in accounts' : \/ p \in accounts
                             \/ x.op = "createUser" /\ p = <<ujob.realm, x.account>>
    BY <1>2, ChangeAdds
  <2>3. x.op = "createUser" => ujob.realm \in realms
    BY <1>2 DEF Answered
  <2>. QED  BY <2>1, <2>2, <2>3 DEF HousesBut
<1>. QED  BY <1>1, <1>2 DEF Ask

LEMMA DealHouses ==
    ASSUME KeycloakTypeOK, RealmsHouse, NEW x \in Changes, NEW next, Deal(x, next)
    PROVE  HousesBut(x)
<1>1. ASSUME NEW o \in Outcomes, NEW y \in Resolved(ujob.realm, x), Ask(y, o)
      PROVE  HousesBut(x)
  <2>1. y \in Changes /\ y.op = x.op
    BY ResolvedType
  <2>. QED  BY <1>1, <2>1, AskHouses DEF HousesBut
<1>2. ASSUME x.op = "createUser", x \notin Resolved(ujob.realm, x),
             SsoChange(ujob.realm, x)
      PROVE  HousesBut(x)
  <2>1. PICK b : b \in FindUserByUsername(ujob.realm, x.account)
    BY <1>2 DEF Resolved
  <2>2. <<ujob.realm, b>> \in accounts
    <3>1. b \in InRealm(ujob.realm, accounts)
      BY <2>1 DEF FindUserByUsername
    <3>. QED  BY <3>1, InRealmIs DEF KeycloakTypeOK
  <2>3. ujob.realm \in realms
    BY <2>2 DEF RealmsHouse
  <2>4. realms' = realms
    BY <1>2 DEF SsoChange
  <2>5. \A p \in accounts' : p \in accounts \/ p = <<ujob.realm, x.account>>
    BY <1>2, ChangeAdds
  <2>. QED  BY <1>2, <2>3, <2>4, <2>5 DEF HousesBut
<1>. QED  BY <1>1, <1>2 DEF Deal

\* A step of the RhpamUser controller.
LEMMA UserHouses ==
    ASSUME OperatorIInv, PurgeIInv, UserController
    PROVE  HousedStep
<1>0. /\ UserCtlTypeOK /\ KeycloakTypeOK /\ D!CopiesSound /\ RealmsHouse /\ PurgeGoesOn
  BY DEF OperatorIInv, ResourceIInv, RealmIInv, DevIInv, UserCtlTypeOK, PurgeIInv
<1>1. ASSUME UserCall
      PROVE  ujob # UserIdle /\ GoodRun(ujob) /\ ujob \in UserJob
  BY <1>0, <1>1, RunAtCall DEF OperatorIInv
<1>2. ASSUME NEW x, HousesBut(x), ujob # UserIdle,
             ujob.pc \in MakingCalls \/ x.op # "createUser"
      PROVE  HousedStep
  BY <1>0, <1>2 DEF HousesBut, HousedStep, RealmsHouse
<1>3. CASE \E u \in Users : UserHandler(u)
  BY <1>0, <1>3, UserHandlerType, QuietHouses
<1>4. CASE \/ NextDev \/ HandOver \/ ListRoles \/ ListUsersOfRealm \/ Purge
           \/ ListPurge \/ FailUser \/ SaveUser
  <2>1. UNCHANGED ssoVars
    BY <1>4 DEF NextDev, HandOver, ListRoles, ListUsersOfRealm, Purge, ListPurge,
       FailUser, SaveUser
  <2>. QED  BY <1>0, <2>1, QuietHouses
<1>5. CASE Fill
  <2>1. /\ ujob # UserIdle /\ ujob.pc = "fill" /\ Head(ujob.todo) \in Changes
    <3>1. UserCall /\ ujob.pc = "fill"
      BY <1>5 DEF UserCall, Fill
    <3>2. ujob.todo \in Seq(Changes) /\ ujob.todo # <<>>
      BY <1>1, <3>1 DEF GoodRun, SoundRun, UserJob
    <3>. QED  BY <1>1, <3>1, <3>2, HeadTailType
  <2>. QED  BY <1>0, <1>2, <1>5, <2>1, DealHouses DEF Fill, MakingCalls
<1>6. CASE ReconcileRole \/ ReconcileAccount
  <2>1. PICK x \in ujob.plan : \E next : Deal(x, next)
    BY <1>6 DEF ReconcileRole, ReconcileAccount
  <2>2. /\ ujob # UserIdle /\ x \in Changes /\ ujob.pc \in MakingCalls
    BY <1>1, <1>6, <2>1 DEF UserCall, UserJob, ReconcileRole, ReconcileAccount, MakingCalls
  <2>. QED  BY <1>0, <1>2, <2>1, <2>2, DealHouses
<1>7. CASE PurgeCall
  <2>1. PICK x \in ujob.plan, o \in Outcomes : Ask(x, o)
    BY <1>7 DEF PurgeCall
  <2>2. /\ ujob # UserIdle /\ x \in Changes
    BY <1>1, <1>7, <2>1 DEF UserCall, UserJob
  <2>3. x.op # "createUser"
    BY <1>0, <1>7, <2>1, <2>2 DEF PurgeGoesOn, PurgeCall, PurgeCalls
  <2>. QED  BY <1>2, <2>1, <2>2, <2>3, AskHouses
<1>. QED  BY <1>3, <1>4, <1>5, <1>6, <1>7 DEF UserController, UserCall

\* Any step.
LEMMA OperatorHouses ==
    ASSUME OperatorIInv, PurgeIInv, [OperatorNext]_vars
    PROVE  HousedStep
<1>0. RealmsHouse
  BY DEF PurgeIInv
<1>1. CASE UserStep
  BY <1>1, UserHouses DEF UserStep
<1>2. CASE DevStep
  <2>1. CASE CreateRealm
    <3>1. realms \subseteq realms' /\ UNCHANGED accounts
      BY <2>1 DEF CreateRealm, SsoCreateRealm
    <3>. QED  BY <1>0, <3>1 DEF HousedStep, RealmsHouse
  <2>2. CASE CreateClient
    <3>1. UNCHANGED <<realms, accounts>>
      BY <2>2 DEF CreateClient, SsoCreateClient, ssoVars
    <3>. QED  BY <1>0, <3>1 DEF HousedStep, RealmsHouse
  <2>3. CASE DeleteRealm
    <3>1. UNCHANGED ssoVars \/ SsoDeleteRealm(job.copy.realm)
      BY <2>3 DEF DeleteRealm
    <3>2. CASE SsoDeleteRealm(job.copy.realm)
      BY <1>0, <3>2 DEF SsoDeleteRealm, HousedStep, RealmsHouse
    <3>. QED  BY <1>0, <3>1, <3>2, QuietHouses
  <2>4. CASE \/ Mark \/ CreateRealmSecret \/ CreateResource \/ ListUsers
             \/ DetachUser \/ DeleteResource \/ Save
    <3>1. UNCHANGED ssoVars
      BY <2>4 DEF Mark, CreateRealmSecret, CreateResource, ListUsers, DetachUser,
         DeleteResource, Save
    <3>. QED  BY <1>0, <3>1, QuietHouses
  <2>5. CASE \E d \in Devs : DevHandler(d)
    <3>1. UNCHANGED ssoVars
      BY <2>5 DEF DevHandler, InitializeDev, ProvisionRealm, Prepare,
         InstallDatabase, InstallBusinessCentral, WaitForDatabase,
         InstallKieServer, DeprovisionDev, DropDev, Start, Take, devCtlVars
    <3>. QED  BY <1>0, <3>1, QuietHouses
  <2>. QED  BY <1>2, <2>1, <2>2, <2>3, <2>4, <2>5 DEF DevStep, DevController, DevCall
<1>3. CASE ClusterStep \/ Disturbance \/ CrashOperator \/ UNCHANGED vars
  <2>1. UNCHANGED ssoVars
    BY <1>3 DEF ClusterStep, Disturbance, CrashOperator, vars
  <2>. QED  BY <1>0, <2>1, QuietHouses
<1>. QED  BY <1>1, <1>2, <1>3 DEF OperatorNext

\* What a run that detaches RhpamUsers knows of them: it has read them.
DetachStep ==
    job'.pc = "users" =>
        /\ job'.copy = job.copy
        /\ \/ job.pc = "users" /\ job'.users \subseteq job.users
           \/ /\ UNCHANGED <<user, userCache, userWatch>>
              /\ \A x \in job'.users :
                    /\ x[1] \in Users /\ x[2] = userCache[x[1]]
                    /\ x[2].realm = job.copy.realm

LEMMA OperatorDetaches ==
    ASSUME OperatorIInv, [OperatorNext]_vars
    PROVE  DetachStep
<1>0. RealmIInv
  BY DEF OperatorIInv, ResourceIInv
<1>1. ASSUME job' \in {job, Idle}
      PROVE  DetachStep
  BY <1>1 DEF DetachStep, Idle
<1>2. ASSUME job'.pc # "users"
      PROVE  DetachStep
  BY <1>2 DEF DetachStep
<1>3. ASSUME NEW next, Proceed(next), job \in JobRecords, job.pc # "users",
             next.pc # "users"
      PROVE  DetachStep
  <2>1. job'.pc \in {job.pc, next.pc}
    BY <1>3 DEF Proceed, JobRecords
  <2>. QED  BY <1>2, <1>3, <2>1
<1>4. CASE DevStep
  <2>1. ASSUME DevCall
        PROVE  job \in JobRecords
    <3>1. job.pc # "idle"
      BY <2>1 DEF DevCall, Mark, CreateRealm, CreateClient, CreateRealmSecret,
         CreateResource, DeleteRealm, ListUsers, DetachUser, DeleteResource, Save
    <3>2. job # Idle
      BY <3>1 DEF Idle
    <3>. QED  BY <1>0, <3>2, CallPurpose
  <2>2. CASE Mark
    <3>1. job'.pc = "realm"
      BY <2>1, <2>2 DEF DevCall, Mark, JobRecords
    <3>. QED  BY <1>2, <3>1
  <2>3. CASE CreateRealm
    <3>1. job' = Idle \/ job'.pc = "clients"
      BY <2>1, <2>3 DEF DevCall, CreateRealm, Requeue, JobRecords
    <3>. QED  BY <1>1, <1>2, <3>1
  <2>4. CASE CreateClient
    <3>. DEFINE next == [job EXCEPT !.pc = "secrets", !.todo = SecretOrder]
    <3>1. job \in JobRecords /\ next.pc = "secrets"
      BY <2>1, <2>4 DEF DevCall, JobRecords
    <3>2. job' = Idle \/ Proceed(next)
      BY <2>4 DEF CreateClient, Requeue
    <3>. HIDE DEF next
    <3>. QED  BY <1>1, <1>3, <2>4, <3>1, <3>2 DEF CreateClient
  <2>5. CASE CreateRealmSecret \/ CreateResource
    <3>. DEFINE next == [job EXCEPT !.pc = "save", !.todo = <<>>]
    <3>1. job \in JobRecords /\ next.pc = "save"
      BY <2>1, <2>5 DEF DevCall, JobRecords
    <3>2. \/ Requeue
          \/ \E r, realm : Create(r, realm, next)
      BY <2>5 DEF CreateRealmSecret, CreateResource
    <3>. HIDE DEF next
    <3>3. job' = Idle \/ Proceed(next)
      BY <3>2 DEF Create, Requeue
    <3>. QED  BY <1>1, <1>3, <2>5, <3>1, <3>3 DEF CreateRealmSecret, CreateResource
  <2>6. CASE DeleteRealm
    <3>1. job' = Idle \/ job'.pc = "list"
      BY <2>1, <2>6 DEF DevCall, DeleteRealm, Requeue, JobRecords
    <3>. QED  BY <1>1, <1>2, <3>1
  <2>7. CASE ListUsers
    <3>. DEFINE found == {u \in Users : /\ userCache[u].exists
                                       /\ userCache[u].realm = job.copy.realm}
    <3>1. /\ job'.users = {<<u, userCache[u]>> : u \in found}
          /\ job'.copy = job.copy
      BY <2>1, <2>7 DEF DevCall, ListUsers, JobRecords
    <3>2. UNCHANGED <<user, userCache, userWatch>>
      BY <2>7 DEF ListUsers, userVars
    <3>. QED  BY <3>1, <3>2 DEF DetachStep
  <2>8. CASE DetachUser
    <3>1. PICK x \in job.users :
            job' = [job EXCEPT !.pc = IF job.users = {x} THEN "delete" ELSE @,
                               !.users = @ \ {x}]
      BY <2>8 DEF DetachUser
    <3>2. job'.users \subseteq job.users /\ job'.copy = job.copy
      BY <2>1, <2>8, <3>1 DEF DevCall, JobRecords
    <3>. QED  BY <2>8, <3>2 DEF DetachStep, DetachUser
  <2>9. CASE DeleteResource
    <3>. DEFINE next == [job EXCEPT !.pc = "save", !.todo = <<>>]
    <3>1. job \in JobRecords /\ next.pc = "save"
      BY <2>1, <2>9 DEF DevCall, JobRecords
    <3>2. Proceed(next)
      BY <2>9 DEF DeleteResource
    <3>. HIDE DEF next
    <3>. QED  BY <1>3, <2>9, <3>1, <3>2 DEF DeleteResource
  <2>10. CASE Save
    BY <1>1, <2>10 DEF Save, Requeue
  <2>11. CASE \E d \in Devs : DevHandler(d)
    <3>1. PICK d \in Devs : DevHandler(d)
      BY <2>11
    <3>2. \/ job' = job
          \/ \E pc \in {"save", "mark", "create", "deleteRealm"} : \E to, todo :
                Start(d, pc, to, todo)
      BY <3>1 DEF DevHandler, InitializeDev, ProvisionRealm, Prepare,
         InstallDatabase, InstallBusinessCentral, WaitForDatabase,
         InstallKieServer, DeprovisionDev, DropDev, devCtlVars
    <3>3. job' = job \/ job'.pc # "users"
      BY <3>2 DEF Start
    <3>. QED  BY <1>1, <1>2, <3>3
  <2>. QED  BY <1>4, <2>2, <2>3, <2>4, <2>5, <2>6, <2>7, <2>8, <2>9, <2>10, <2>11
            DEF DevStep, DevController, DevCall
<1>5. CASE UserStep \/ ClusterStep \/ Disturbance \/ CrashOperator \/ UNCHANGED vars
  BY <1>1, <1>5 DEF UserStep, ClusterStep, Disturbance, CrashOperator, vars
<1>. QED  BY <1>4, <1>5 DEF OperatorNext

\* How a run goes on from a call that is not one of Deprovision.
MakingStep == NextDev \/ Fill \/ HandOver \/ ListRoles \/ ListUsersOfRealm
                \/ ReconcileRole \/ ReconcileAccount

SameRead == ujob'.name = ujob.name /\ ujob'.copy = ujob.copy

LEMMA MakingRun ==
    ASSUME GoodRun(ujob), MakingStep
    PROVE  \/ Abort
           \/ /\ SameRead
              /\ ujob'.to \in {ujob.to, PhaseReconcile}
              /\ ujob'.pc \notin PurgeCalls
<1>. DEFINE run(pc, plan, now) == [ujob EXCEPT !.pc = pc, !.plan = plan, !.now = now]
            next(pc, plan) == [ujob EXCEPT !.pc = pc, !.plan = plan]
            Goal == \/ Abort
                    \/ /\ SameRead
                       /\ ujob'.to \in {ujob.to, PhaseReconcile}
                       /\ ujob'.pc \notin PurgeCalls
<1>0. ujob \in UserJob
  BY DEF GoodRun
<1>1. ASSUME NEW j, List(j) \/ \E x : Deal(x, j)
      PROVE  ujob' = j \/ Abort
  BY <1>1 DEF List, Deal, GoOn
<1>2. ASSUME NEW pc, NEW plan, NEW now,
             pc \in {"roles", "listUsers", "users", "save"},
             ujob' = run(pc, plan, now) \/ ujob' = next(pc, plan)
      PROVE  Goal
  BY <1>0, <1>2 DEF UserJob, SameRead, PurgeCalls
<1>3. CASE NextDev
  <2>. DEFINE copy == Head(ujob.devs)[2]
  <2>1. CASE copy.phase = PhaseComplete
    <3>1. ujob' = [ujob EXCEPT !.pc = Following(Tail(ujob.devs)), !.to = PhaseReconcile,
                               !.realm = copy.realm, !.devs = Tail(ujob.devs)]
      BY <1>0, <1>3, <2>1 DEF NextDev, GoOn, UserJob
    <3>2. Following(Tail(ujob.devs)) \in {"save", "devs"}
      BY DEF Following
    <3>. HIDE DEF copy
    <3>. QED  BY <1>0, <3>1, <3>2 DEF UserJob, SameRead, PurgeCalls
  <2>2. CASE copy.phase # PhaseComplete
    <3>1. ujob' = [ujob EXCEPT !.pc = "fill", !.todo = FillCalls(0),
                               !.to = PhaseReconcile, !.realm = copy.realm]
      BY <1>3, <2>2 DEF NextDev, GoOn
    <3>. HIDE DEF copy
    <3>. QED  BY <1>0, <3>1 DEF UserJob, SameRead, PurgeCalls
  <2>. QED  BY <2>1, <2>2
<1>4. CASE HandOver
  BY <1>0, <1>4 DEF HandOver, GoOn, Following, UserJob, SameRead, PurgeCalls
<1>5. CASE Fill
  <2>1. \E x : Deal(x, Filling)
    BY <1>5 DEF Fill
  <2>2. ujob' = Filling \/ Abort
    BY <1>1, <2>1
  <2>3. ASSUME ujob' = Filling
        PROVE  ujob'.pc \in {"fill", "handOff"} /\ SameRead /\ ujob'.to = ujob.to
    <3>1. ujob.pc = "fill"
      BY <1>5 DEF Fill
    <3>. QED  BY <1>0, <2>3, <3>1 DEF Filling, UserJob, SameRead
  <2>. QED  BY <2>2, <2>3 DEF PurgeCalls
<1>6. CASE ListRoles
  <2>1. \E pc \in {"listUsers", "roles"} : List(next(pc, RolePlan))
    BY <1>6 DEF ListRoles
  <2>2. Abort \/ \E pc \in {"listUsers", "roles"} : ujob' = next(pc, RolePlan)
    <3>. HIDE DEF next
    <3>. QED  BY <1>1, <2>1
  <2>. HIDE DEF next, run
  <2>. QED  BY <1>2, <2>2
<1>7. CASE ListUsersOfRealm
  <2>1. PICK listed \in Pages(ujob.realm) :
            LET plan == UserPlan(listed)
            IN  List([ujob EXCEPT !.pc = IF plan = {} THEN "save" ELSE "users",
                                  !.plan = plan, !.now = NoAccount])
    BY <1>7 DEF ListUsersOfRealm
  <2>2. \E pc \in {"save", "users"} : List(run(pc, UserPlan(listed), NoAccount))
    BY <2>1
  <2>. HIDE DEF next, run
  <2>3. Abort \/ \E pc \in {"save", "users"} : ujob' = run(pc, UserPlan(listed), NoAccount)
    BY <1>1, <2>2
  <2>. QED  BY <1>2, <2>3
<1>8. CASE ReconcileRole
  <2>1. PICK x \in ujob.plan :
            Deal(x, [ujob EXCEPT !.pc = IF ujob.plan = {x} THEN "listUsers" ELSE @,
                                 !.plan = @ \ {x}])
    BY <1>8 DEF ReconcileRole
  <2>2. \E pc \in {"listUsers", "roles"} : Deal(x, next(pc, ujob.plan \ {x}))
    BY <1>8, <2>1 DEF ReconcileRole
  <2>. HIDE DEF next, run
  <2>3. Abort \/ \E pc \in {"listUsers", "roles"} : ujob' = next(pc, ujob.plan \ {x})
    BY <1>1, <2>2
  <2>. QED  BY <1>2, <2>3
<1>9. CASE ReconcileAccount
  <2>1. PICK x \in ujob.plan :
            Deal(x, [ujob EXCEPT !.pc = IF ujob.plan = {x} THEN "save" ELSE @,
                                 !.plan = @ \ {x}, !.now = x.account])
    BY <1>9 DEF ReconcileAccount
  <2>2. \E pc \in {"save", "users"} : Deal(x, run(pc, ujob.plan \ {x}, x.account))
    BY <1>9, <2>1 DEF ReconcileAccount
  <2>. HIDE DEF next, run
  <2>3. Abort \/ \E pc \in {"save", "users"} : ujob' = run(pc, ujob.plan \ {x}, x.account)
    BY <1>1, <2>2
  <2>. QED  BY <1>2, <2>3
<1>. QED  BY <1>3, <1>4, <1>5, <1>6, <1>7, <1>8, <1>9 DEF MakingStep

\* A run that goes on with its purge, when the plan names the accounts that
\* are left.
LEMMA PurgingRun ==
    ASSUME ujob # UserIdle, PurgeGoesOn, ujob.pc \in PurgeCalls,
           SameRead, ujob'.to = ujob.to, ujob'.realm = ujob.realm,
           ujob'.pc \in PurgeCalls \cup {"save"},
           \A x \in ujob'.plan : x.op \in {"deleteUser", "deleteRole"},
           ujob'.pc = "purgeRoles" => ujob'.plan \subseteq RoleChanges,
           \A a \in InRealm(ujob'.realm, accounts') :
              \/ isDefaultUser(a)
              \/ ujob'.pc = "purge"
              \/ ujob'.pc = "purgeUsers" /\ DeleteUserIn(a) \in ujob'.plan
    PROVE  PurgeGoesOn'
<1>1. /\ ujob.to = PhaseDeprovisioned /\ ujob.copy.deleting /\ ujob.realm = ujob.copy.realm
  BY DEF PurgeGoesOn
<1>2. PhaseDeprovisioned # PhaseComplete /\ "save" \notin PurgeCalls
  BY DEF PhaseDeprovisioned, PhaseComplete, PurgeCalls
<1>3. ujob'.pc \in {"listPurge", "purgeRoles", "save"} => OnlyDefaults(ujob.realm)'
  BY DEF OnlyDefaults, RealmAccounts, isDefaultUser
<1>4. ujob'.pc = "purgeUsers" =>
         \A a \in InRealm(ujob'.realm, accounts') :
            isDefaultUser(a) \/ DeleteUserIn(a) \in ujob'.plan
  OBVIOUS
<1>. QED
  BY <1>1, <1>2, <1>3, <1>4 DEF PurgeGoesOn, SameRead, RealmAccounts, isDefaultUser, DeleteUserIn

\* A run starts.
LEMMA StartPurges ==
    ASSUME NEW u, NEW pc, NEW to, NEW realm, NEW devs, StartUser(u, pc, to, realm, devs),
           userCache[u].deleting <=> to \in {PhaseDeprovisioned, PhaseComplete},
           to = PhaseComplete => pc = "save" /\ userCache[u].phase = PhaseDeprovisioned,
           IF to = PhaseDeprovisioned THEN pc = "purge" /\ realm = userCache[u].realm
           ELSE pc \notin PurgeCalls
    PROVE  PurgeGoesOn'
<1>1. /\ ujob'.pc = pc /\ ujob'.copy = userCache[u] /\ ujob'.to = to
      /\ ujob'.realm = realm /\ ujob'.plan = {}
  BY DEF StartUser
<1>2. CASE to = PhaseDeprovisioned
  <2>1. pc = "purge" /\ PhaseDeprovisioned # PhaseComplete
    BY <1>2 DEF PhaseDeprovisioned, PhaseComplete
  <2>. QED  BY <1>1, <1>2, <2>1 DEF PurgeGoesOn, PurgeCalls
<1>3. CASE to # PhaseDeprovisioned
  BY <1>1, <1>3 DEF PurgeGoesOn
<1>. QED  BY <1>2, <1>3

LEMMA HandlerPurges ==
    ASSUME PurgeGoesOn, NEW u \in Users, UserHandler(u)
    PROVE  PurgeGoesOn'
<1>0. /\ {PhaseAccepted, PhaseReconcile} \cap {PhaseDeprovisioned, PhaseComplete} = {}
      /\ PhaseDeprovisioned # PhaseComplete
      /\ {"save", "devs", "listRoles"} \cap PurgeCalls = {}
  BY DEF PhaseAccepted, PhaseReconcile, PhaseDeprovisioned, PhaseComplete, PurgeCalls
<1>1. CASE InitializeUser(u)
  BY <1>0, <1>1, StartPurges DEF InitializeUser, UserInPhase
<1>2. CASE Accepted(u)
  <2>1. PICK devs : StartUser(u, IF devs = <<>> THEN "save" ELSE "devs",
                              PhaseAccepted, NoRealm, devs)
    BY <1>2 DEF Accepted
  <2>2. ~userCache[u].deleting
    BY <1>2 DEF Accepted, UserInPhase
  <2>. QED  BY <1>0, <2>1, <2>2, StartPurges
<1>3. CASE ReconcileUser(u)
  BY <1>0, <1>3, StartPurges DEF ReconcileUser, UserInPhase
<1>4. CASE DeprovisionUser(u)
  BY <1>0, <1>4, StartPurges DEF DeprovisionUser
<1>5. CASE DropUser(u)
  <2>1. ujob = UserIdle /\ ujob' = ujob
    BY <1>5 DEF DropUser, TakeUser
  <2>. QED  BY <2>1 DEF PurgeGoesOn
<1>. QED  BY <1>1, <1>2, <1>3, <1>4, <1>5 DEF UserHandler

\* A run that is not purging does not begin to.
LEMMA MakingPurges ==
    ASSUME GoodRun(ujob), ujob # UserIdle, PurgeGoesOn, MakingStep
    PROVE  /\ PurgeGoesOn'
           /\ ujob' = UserIdle \/ SameRead
<1>0. ujob.pc \notin PurgeCalls \cup {"save", "fail"}
  BY DEF MakingStep, NextDev, Fill, HandOver, ListRoles, ListUsersOfRealm,
     ReconcileRole, ReconcileAccount, PurgeCalls
<1>1. ujob.to \notin {PhaseDeprovisioned, PhaseComplete} /\ ~ujob.copy.deleting
  BY <1>0 DEF PurgeGoesOn
<1>2. CASE Abort
  <2>1. ujob' = UserIdle
    BY <1>1, <1>2 DEF Abort, RequeueUser
  <2>. QED  BY <2>1 DEF PurgeGoesOn
<1>3. CASE /\ SameRead
           /\ ujob'.to \in {ujob.to, PhaseReconcile}
           /\ ujob'.pc \notin PurgeCalls
  <2>1. ujob'.to \notin {PhaseDeprovisioned, PhaseComplete} /\ ~ujob'.copy.deleting
    BY <1>1, <1>3 DEF SameRead, PhaseReconcile, PhaseDeprovisioned, PhaseComplete
  <2>. QED  BY <1>3, <2>1 DEF PurgeGoesOn
<1>. QED  BY <1>2, <1>3, MakingRun

\* One that is purging goes on, or fails.
PurgeStep == Purge \/ ListPurge \/ PurgeCall

LEMMA PurgePurges ==
    ASSUME OnePage, UserCtlTypeOK, GoodRun(ujob), ujob # UserIdle, PurgeGoesOn,
           HousedStep, PurgeStep
    PROVE  /\ PurgeGoesOn'
           /\ SameRead
<1>. DEFINE next(pc, plan) == [ujob EXCEPT !.pc = pc, !.plan = plan]
            Goal == PurgeGoesOn' /\ SameRead
<1>0. /\ ujob \in UserJob
      /\ KeycloakTypeOK
      /\ ujob.pc \in PurgeCalls /\ ujob.to = PhaseDeprovisioned
      /\ ujob.realm = ujob.copy.realm
      /\ \A x \in ujob.plan : x.op \in {"deleteUser", "deleteRole"}
  BY DEF GoodRun, UserCtlTypeOK, PurgeGoesOn, PurgeStep, Purge, ListPurge, PurgeCall, PurgeCalls
<1>1. accounts' \subseteq accounts
  BY <1>0 DEF HousedStep, PurgeCalls, MakingCalls
<1>2. \A r, a : a \in InRealm(r, accounts') => a \in InRealm(r, accounts)
  BY <1>1 DEF InRealm
<1>3. CASE ujob' = [ujob EXCEPT !.pc = "fail"]
  <2>1. /\ ujob'.pc = "fail" /\ ujob'.to = PhaseDeprovisioned
        /\ ujob'.realm = ujob.realm /\ SameRead
    BY <1>0, <1>3 DEF UserJob, SameRead
  <2>2. PurgeGoesOn'
    BY <1>0, <2>1 DEF PurgeGoesOn, SameRead, PurgeCalls, PhaseDeprovisioned, PhaseComplete
  <2>. QED  BY <2>1, <2>2
<1>4. ASSUME NEW pc \in PurgeCalls \cup {"save"}, NEW plan, ujob' = next(pc, plan),
             \A x \in plan : x.op \in {"deleteUser", "deleteRole"},
             pc = "purgeRoles" => plan \subseteq RoleChanges,
             \A a \in InRealm(ujob.realm, accounts') :
                isDefaultUser(a) \/ (pc = "purgeUsers" /\ DeleteUserIn(a) \in plan)
      PROVE  Goal
  <2>1. /\ ujob'.pc = pc /\ ujob'.plan = plan /\ ujob'.to = ujob.to
        /\ ujob'.realm = ujob.realm /\ SameRead
    BY <1>0, <1>4 DEF UserJob, SameRead
  <2>. HIDE DEF next
  <2>2. PurgeGoesOn'
    BY <1>0, <1>4, <2>1, PurgingRun
  <2>. QED  BY <2>1, <2>2
<1>5. ASSUME NEW j, List(j) \/ GoOn(j) \/ Abort
      PROVE  ujob' = j \/ ujob' = [ujob EXCEPT !.pc = "fail"]
  BY <1>0, <1>5 DEF List, GoOn, Abort
<1>6. CASE Purge
  <2>1. PICK listed \in Pages(ujob.realm) :
            LET found == {DeleteUserIn(a) : a \in {a \in listed : ~isDefaultUser(a)}}
            IN  List([ujob EXCEPT
                        !.pc = IF found = {} THEN "listPurge" ELSE "purgeUsers",
                        !.plan = found])
    BY <1>6 DEF Purge
  <2>. DEFINE found == {DeleteUserIn(a) : a \in {a \in listed : ~isDefaultUser(a)}}
              pc == IF found = {} THEN "listPurge" ELSE "purgeUsers"
  <2>2. List(next(pc, found))
    BY <2>1
  <2>3. listed = InRealm(ujob.realm, accounts)
    BY <1>0, WholePage
  <2>4. /\ \A a \in InRealm(ujob.realm, accounts') :
              isDefaultUser(a) \/ DeleteUserIn(a) \in found
        /\ \A x \in found : x.op \in {"deleteUser", "deleteRole"}
    BY <1>2, <2>3 DEF DeleteUserIn
  <2>5. pc \in {"listPurge", "purgeUsers"} /\ (pc = "listPurge" => found = {})
    OBVIOUS
  <2>. HIDE DEF found, pc, next
  <2>6. ujob' = next(pc, found) \/ ujob' = [ujob EXCEPT !.pc = "fail"]
    BY <1>5, <2>2
  <2>. QED  BY <1>3, <1>4, <2>4, <2>5, <2>6 DEF PurgeCalls
<1>7. CASE ListPurge
  <2>1. PICK o \in {"ok", "failed"} :
            LET found == {DeleteRole(r) : r \in {r \in RolesHere : ~isDefaultRole(r)}}
                plan == IF o = "ok" THEN found ELSE {}
            IN  GoOn([ujob EXCEPT !.pc = IF plan = {} THEN "save" ELSE "purgeRoles",
                                  !.plan = plan])
    BY <1>7 DEF ListPurge
  <2>. DEFINE found == {DeleteRole(r) : r \in {r \in RolesHere : ~isDefaultRole(r)}}
              plan == IF o = "ok" THEN found ELSE {}
              pc == IF plan = {} THEN "save" ELSE "purgeRoles"
  <2>2. ujob' = next(pc, plan)
    BY <2>1 DEF GoOn
  <2>3. \A x \in plan : x \in RoleChanges /\ x.op = "deleteRole"
    <3>1. RolesHere \subseteq RoleNames
      BY <1>0 DEF RolesHere, InRealm, KeycloakTypeOK
    <3>. QED  BY <3>1 DEF DeleteRole, RoleChanges
  <2>4. pc \in {"save", "purgeRoles"}
    OBVIOUS
  <2>. HIDE DEF pc, plan, next
  <2>5. \A a \in InRealm(ujob.realm, accounts') : isDefaultUser(a)
    BY <1>0, <1>2, <1>7 DEF ListPurge, PurgeGoesOn, OnlyDefaults, RealmAccounts
  <2>. QED  BY <1>4, <2>2, <2>3, <2>4, <2>5 DEF PurgeCalls
<1>8. CASE PurgeCall
  <2>1. PICK x \in ujob.plan, o \in Outcomes :
          /\ Ask(x, o)
          /\ IF o = "ok" /\ Answered(ujob.realm, x)
             THEN GoOn([ujob EXCEPT
                          !.pc = IF ujob.plan # {x} THEN @
                                 ELSE IF @ = "purgeUsers" THEN "listPurge"
                                 ELSE "save",
                          !.plan = @ \ {x}])
             ELSE Abort
    BY <1>8 DEF PurgeCall
  <2>. DEFINE plan == ujob.plan \ {x}
              pc == IF ujob.plan # {x} THEN ujob.pc
                    ELSE IF ujob.pc = "purgeUsers" THEN "listPurge" ELSE "save"
  <2>2. CASE ~(o = "ok" /\ Answered(ujob.realm, x))
    BY <1>3, <1>5, <2>1, <2>2
  <2>3. CASE o = "ok" /\ Answered(ujob.realm, x)
    <3>1. ujob' = next(pc, plan)
      BY <2>1, <2>3 DEF GoOn
    <3>2. /\ pc \in PurgeCalls \cup {"save"} /\ pc # "purge"
          /\ pc = "purgeUsers" => ujob.pc = "purgeUsers"
          /\ pc = "purgeRoles" => ujob.pc = "purgeRoles"
          /\ pc # "purgeUsers" /\ ujob.pc = "purgeUsers" => plan = {}
      BY <1>8 DEF PurgeCall, PurgeCalls
    <3>3. pc = "purgeRoles" => plan \subseteq RoleChanges
      BY <1>0, <3>2 DEF PurgeGoesOn
    <3>4. CASE ujob.pc = "purgeRoles"
      <4>1. \A a \in InRealm(ujob.realm, accounts') : isDefaultUser(a)
        BY <1>0, <1>2, <3>4 DEF PurgeGoesOn, OnlyDefaults, RealmAccounts
      <4>. HIDE DEF pc, next
      <4>. QED  BY <1>0, <1>4, <3>1, <3>2, <3>3, <4>1
    <3>5. CASE ujob.pc = "purgeUsers"
      <4>1. SsoChange(ujob.realm, x)
        BY <2>1, <2>3 DEF Ask
      <4>2. ASSUME NEW a \in InRealm(ujob.realm, accounts'), ~isDefaultUser(a)
            PROVE  DeleteUserIn(a) \in plan
        <5>1. DeleteUserIn(a) \in ujob.plan
          BY <1>0, <1>2, <3>5, <4>2 DEF PurgeGoesOn, RealmAccounts
        <5>2. CASE x = DeleteUserIn(a)
          <6>1. accounts' = accounts \ {<<ujob.realm, a>>}
            BY <4>1, <5>2 DEF SsoChange, DeleteUserIn
          <6>2. PICK p \in accounts' : p[1] = ujob.realm /\ p[2] = a
            BY <4>2 DEF InRealm
          <6>3. p = <<ujob.realm, a>>
            BY <1>0, <1>1, <6>2 DEF KeycloakTypeOK
          <6>. QED  BY <6>1, <6>2, <6>3
        <5>. QED  BY <5>1, <5>2
      <4>3. \A a \in InRealm(ujob.realm, accounts') :
               isDefaultUser(a) \/ (pc = "purgeUsers" /\ DeleteUserIn(a) \in plan)
        <5>. HIDE DEF plan, pc
        <5>. QED  BY <3>2, <3>5, <4>2
      <4>. HIDE DEF pc, next
      <4>. QED  BY <1>0, <1>4, <3>1, <3>2, <3>3, <4>3
    <3>. QED  BY <1>8, <3>4, <3>5 DEF PurgeCall
  <2>. QED  BY <2>2, <2>3
<1>. QED  BY <1>6, <1>7, <1>8 DEF PurgeStep

\* What a step of the RhpamUser controller does with the run: it starts one,
\* goes on with what it has read, or ends it.
LEMMA UserPurges ==
    ASSUME OnePage, OperatorIInv, PurgeIInv, UserController
    PROVE  /\ PurgeGoesOn'
           /\ \/ ujob' = UserIdle
              \/ ujob = UserIdle /\ \E u \in Users : UserHandler(u)
              \/ ujob # UserIdle /\ SameRead
<1>0. /\ UserCtlTypeOK /\ UserRunSound /\ PurgeGoesOn
  BY DEF OperatorIInv, PurgeIInv
<1>1. ASSUME UserCall
      PROVE  ujob # UserIdle /\ GoodRun(ujob)
  BY <1>0, <1>1, RunAtCall
<1>2. CASE \E u \in Users : UserHandler(u)
  <2>1. ujob = UserIdle
    BY <1>2 DEF UserHandler, InitializeUser, Accepted, ReconcileUser, DeprovisionUser,
       DropUser, StartUser, TakeUser
  <2>. QED  BY <1>0, <1>2, <2>1, HandlerPurges
<1>3. CASE MakingStep
  <2>1. UserCall
    BY <1>3 DEF MakingStep, UserCall
  <2>. QED  BY <1>0, <1>1, <1>3, <2>1, MakingPurges
<1>4. CASE PurgeStep
  <2>1. UserCall
    BY <1>4 DEF PurgeStep, UserCall
  <2>. QED  BY <1>0, <1>1, <1>4, <2>1, UserHouses, PurgePurges
<1>5. CASE FailUser \/ SaveUser
  <2>1. ujob' = UserIdle
    BY <1>5 DEF FailUser, SaveUser, RequeueUser, GoOn
  <2>. QED  BY <2>1 DEF PurgeGoesOn
<1>. QED  BY <1>2, <1>3, <1>4, <1>5 DEF UserController, UserCall, MakingStep, PurgeStep

\* The other steps leave the run alone or end it, and no account appears.
LEMMA OtherPurges ==
    ASSUME OperatorIInv, PurgeIInv, HousedStep,
           DevStep \/ ClusterStep \/ Disturbance \/ CrashOperator \/ UNCHANGED vars
    PROVE  /\ PurgeGoesOn'
           /\ ujob' \in {ujob, UserIdle}
<1>1. ujob' \in {ujob, UserIdle}
  BY DEF DevStep, ClusterStep, Disturbance, CrashOperator, vars
<1>2. CASE ujob' = UserIdle
  BY <1>1, <1>2 DEF PurgeGoesOn
<1>3. CASE ujob' = ujob /\ ujob # UserIdle
  <2>1. /\ PurgeGoesOn
        /\ PhaseDeprovisioned # PhaseComplete
        /\ (PurgeCalls \cup {"save", "fail"}) \cap MakingCalls = {}
    BY DEF PurgeIInv, PurgeCalls, MakingCalls, PhaseDeprovisioned, PhaseComplete
  <2>2. CASE ujob.to = PhaseDeprovisioned
    <3>1. ujob.pc \notin MakingCalls
      BY <1>3, <2>1, <2>2 DEF PurgeGoesOn
    <3>2. accounts' \subseteq accounts
      BY <3>1 DEF HousedStep
    <3>3. \A a \in InRealm(ujob.realm, accounts') : a \in InRealm(ujob.realm, accounts)
      BY <3>2 DEF InRealm
    <3>4. \A a \in RealmAccounts(ujob.realm)' : a \in RealmAccounts(ujob.realm)
      BY <1>3, <3>3 DEF RealmAccounts
    <3>. QED  BY <1>3, <2>1, <2>2, <3>4
              DEF PurgeGoesOn, OnlyDefaults, isDefaultUser, DeleteUserIn
  <2>3. CASE ujob.to # PhaseDeprovisioned
    BY <1>3, <2>1, <2>3 DEF PurgeGoesOn
  <2>. QED  BY <2>2, <2>3
<1>. QED  BY <1>1, <1>2, <1>3

LEMMA PurgeInductive ==
    ASSUME OnePage, OperatorIInv, PurgeIInv, [OperatorNext]_vars
    PROVE  PurgeIInv'
<1>1. HousedStep /\ DetachStep
  BY OperatorHouses, OperatorDetaches
<1>2. RealmsHouse'
  <2>1. \A x \in accounts' : x[1] \in realms'
    BY <1>1 DEF HousedStep
  <2>2. job'.pc = "users" => \A x \in job'.users : x[2].realm = job'.copy.realm
    BY <1>1 DEF DetachStep, PurgeIInv, RealmsHouse
  <2>. QED  BY <2>1, <2>2 DEF RealmsHouse
<1>3. PurgeGoesOn'
  <2>1. CASE UserStep
    BY <2>1, UserPurges DEF UserStep
  <2>2. CASE DevStep \/ ClusterStep \/ Disturbance \/ CrashOperator \/ UNCHANGED vars
    BY <1>1, <2>2, OtherPurges
  <2>. QED  BY <2>1, <2>2 DEF OperatorNext
<1>. QED  BY <1>2, <1>3 DEF PurgeIInv

-----------------------------------------------------------------------------
(* What becomes of a RhpamUser, and who gives it its last phase.           *)

\* What a step makes of a RhpamUser: users write it, a run of Deprovision of
\* its RhpamDev, or a run of its own, and the watch has the new version.
ByUsers(u) ==
    \/ ~user[u].exists /\ \E s \in UserSpecs : user'[u] = U!Created(user[u].rv + 1, s)
    \/ /\ user[u].exists
       /\ \E s \in UserSpecs : user'[u] = [user[u] EXCEPT !.rv = @ + 1, !.spec = s]
    \/ /\ user[u].exists
       /\ user'[u] = IF user[u].fin THEN [user[u] EXCEPT !.rv = @ + 1, !.deleting = TRUE]
                     ELSE U!Absent(user[u].rv + 1)

ByCopy(u, copy, v) == U!Accepts(u, copy) /\ user'[u] = U!Result(u, v)

ByDetach(u) ==
    /\ job.pc = "users"
    /\ \E x \in job.users :
          x[1] = u /\ ByCopy(u, x[2], [x[2] EXCEPT !.phase = PhaseDeprovisioned])

ByRun(u) ==
    /\ ujob # UserIdle /\ ujob.name = u /\ ujob' = UserIdle
    /\ \/ ujob.pc = "save" /\ ByCopy(u, ujob.copy, SavedUser)
       \/ /\ ujob.pc = "fail"
          /\ ByCopy(u, ujob.copy, [ujob.copy EXCEPT !.phase = PhaseDeprovisionFailed])

UserWritten(u) ==
    \/ user'[u] = user[u]
    \/ UNCHANGED ssoVars /\ (ByUsers(u) \/ ByDetach(u) \/ ByRun(u))

\* What the informer makes of it.
UserSeen(u) ==
    \/ /\ userCache'[u] = userCache[u]
       /\ userWatch'[u] \subseteq userWatch[u] \cup {user'[u]}
    \/ /\ user'[u] = user[u]
       /\ userCache'[u] \in userWatch[u] /\ userWatch'[u] \subseteq userWatch[u]
       /\ \A w \in userWatch[u] : userCache'[u].rv <= w.rv
    \/ user'[u] = user[u] /\ userCache'[u] = user[u] /\ userWatch'[u] = {}

LEMMA StoredUser ==
    ASSUME U!TypeOK, NEW n, NEW v, U!Store(n, v), UNCHANGED userCache, NEW u \in Users
    PROVE  /\ UserSeen(u)
           /\ user'[u] = IF n = u THEN v ELSE user[u]
BY DEF U!TypeOK, U!Store, UserSeen

LEMMA UpdatedUser ==
    ASSUME U!TypeOK, NEW n, NEW copy, NEW v, U!Accepts(n, copy), U!Update(n, v),
           UNCHANGED userCache, NEW u \in Users
    PROVE  /\ UserSeen(u)
           /\ user'[u] = user[u] \/ (n = u /\ ByCopy(u, copy, v))
<1>1. CASE UNCHANGED <<user, userWatch>>
  BY <1>1 DEF UserSeen
<1>2. CASE U!Store(n, U!Result(n, v))
  BY <1>2, StoredUser DEF ByCopy
<1>. QED  BY <1>1, <1>2 DEF U!Update

LEMMA UserVersions ==
    ASSUME OperatorIInv, [OperatorNext]_vars, NEW u \in Users
    PROVE  UserWritten(u) /\ UserSeen(u)
<1>0. /\ U!TypeOK /\ UserCtlTypeOK /\ UserRunSound /\ RealmIInv
  BY DEF OperatorIInv, ResourceIInv, UserCtlTypeOK, ClusterTypeOK
<1>1. ASSUME UNCHANGED <<user, userCache, userWatch>>
      PROVE  UserWritten(u) /\ UserSeen(u)
  BY <1>1 DEF UserWritten, UserSeen
<1>2. CASE DevStep
  <2>1. CASE DetachUser
    <3>1. PICK x \in job.users, o \in Outcomes :
            IF o # "failed" /\ U!Accepts(x[1], x[2])
            THEN U!Update(x[1], [x[2] EXCEPT !.phase = PhaseDeprovisioned])
            ELSE UNCHANGED <<user, userWatch>>
      BY <2>1 DEF DetachUser
    <3>2. UNCHANGED <<ssoVars, userCache>> /\ job.pc = "users"
      BY <2>1 DEF DetachUser
    <3>3. CASE UNCHANGED <<user, userWatch>>
      BY <1>1, <3>2, <3>3
    <3>4. CASE /\ U!Accepts(x[1], x[2])
               /\ U!Update(x[1], [x[2] EXCEPT !.phase = PhaseDeprovisioned])
      <4>. DEFINE v == [x[2] EXCEPT !.phase = PhaseDeprovisioned]
      <4>1. U!Accepts(x[1], x[2]) /\ U!Update(x[1], v) /\ UNCHANGED userCache
        BY <3>2, <3>4
      <4>. HIDE DEF v
      <4>2. UserSeen(u) /\ (user'[u] = user[u] \/ (x[1] = u /\ ByCopy(u, x[2], v)))
        BY <1>0, <4>1, UpdatedUser
      <4>3. ByCopy(u, x[2], v) /\ x[1] = u => ByDetach(u)
        BY <3>2 DEF ByDetach, v
      <4>. QED  BY <3>2, <4>2, <4>3 DEF UserWritten
    <3>. QED  BY <3>1, <3>3, <3>4
  <2>2. CASE DevController /\ ~DetachUser
    <3>1. UNCHANGED <<user, userWatch>>
      BY <2>2 DEF DevController, DevCall, Mark, CreateRealm, CreateClient,
         CreateRealmSecret, CreateResource, DeleteRealm, ListUsers, DeleteResource,
         Save, DevHandler, InitializeDev, ProvisionRealm, Prepare, InstallDatabase,
         InstallBusinessCentral, WaitForDatabase, InstallKieServer, DeprovisionDev,
         DropDev, Start, Take, userVars, devCtlVars
    <3>. QED  BY <1>1, <1>2, <3>1 DEF DevStep
  <2>. QED  BY <1>2, <2>1, <2>2 DEF DevStep
<1>3. CASE UserStep
  <2>0. UNCHANGED userCache
    BY <1>3 DEF UserStep
  <2>1. ASSUME SaveUser \/ FailUser
        PROVE  UserWritten(u) /\ UserSeen(u)
    <3>0. UserCall
      BY <2>1 DEF UserCall
    <3>1. ujob # UserIdle /\ ujob' = UserIdle /\ UNCHANGED ssoVars
      BY <1>0, <2>1, <3>0, RunAtCall DEF SaveUser, FailUser, RequeueUser, GoOn
    <3>2. PICK v :
            /\ \E o \in Outcomes : PutUser(v, o)
            /\ \/ ujob.pc = "save" /\ v = SavedUser
               \/ ujob.pc = "fail"
                  /\ v = [ujob.copy EXCEPT !.phase = PhaseDeprovisionFailed]
      BY <2>1 DEF SaveUser, FailUser
    <3>3. CASE UNCHANGED <<user, userWatch>>
      BY <1>1, <2>0, <3>3
    <3>4. CASE U!Accepts(ujob.name, ujob.copy) /\ U!Update(ujob.name, v)
      <4>1. /\ UserSeen(u)
            /\ user'[u] = user[u] \/ (ujob.name = u /\ ByCopy(u, ujob.copy, v))
        BY <1>0, <2>0, <3>4, UpdatedUser
      <4>2. ujob.name = u /\ ByCopy(u, ujob.copy, v) => ByRun(u)
        BY <3>1, <3>2 DEF ByRun
      <4>. QED  BY <3>1, <4>1, <4>2 DEF UserWritten
    <3>. QED  BY <3>2, <3>3, <3>4 DEF PutUser
  <2>2. CASE UserController /\ ~SaveUser /\ ~FailUser
    <3>1. UNCHANGED <<user, userWatch>>
      BY <2>2 DEF UserController, UserCall, NextDev, Fill, HandOver, ListRoles,
         ListUsersOfRealm, ReconcileRole, ReconcileAccount, Purge, ListPurge,
         PurgeCall, UserHandler, InitializeUser, Accepted, ReconcileUser,
         DeprovisionUser, DropUser, StartUser, TakeUser
    <3>. QED  BY <1>1, <2>0, <3>1
  <2>. QED  BY <1>3, <2>1, <2>2 DEF UserStep
<1>4. CASE ClusterStep
  <2>1. CASE UNCHANGED userVars
    BY <1>1, <2>1 DEF userVars
  <2>2. CASE \E n \in Users : DeliverUser(n)
    BY <1>0, <2>2 DEF DeliverUser, U!Deliver, U!TypeOK, UserWritten, UserSeen
  <2>. QED  BY <1>4, <2>1, <2>2 DEF ClusterStep, DeliverDev, SyncResources, DatabaseUp,
            Collect
<1>5. CASE Disturbance
  <2>0. UNCHANGED ssoVars
    BY <1>5 DEF Disturbance
  <2>1. CASE UNCHANGED <<user, userCache, userWatch>>
    BY <1>1, <2>1
  <2>2. ASSUME NEW n \in Users, CreateUser(n) \/ EditUser(n) \/ DeleteUser(n)
        PROVE  UserWritten(u) /\ UserSeen(u)
    <3>1. UNCHANGED userCache
      BY <2>2 DEF CreateUser, EditUser, DeleteUser, U!UserCreate, U!UserEdit, U!UserDelete
    <3>2. CASE CreateUser(n)
      <4>1. PICK s \in UserSpecs :
              ~user[n].exists /\ U!Store(n, U!Created(user[n].rv + 1, s))
        BY <3>2 DEF CreateUser, U!UserCreate
      <4>2. UserSeen(u) /\ user'[u] = IF n = u THEN U!Created(user[n].rv + 1, s)
                                      ELSE user[u]
        BY <1>0, <3>1, <4>1, StoredUser
      <4>. QED  BY <2>0, <4>1, <4>2 DEF UserWritten, ByUsers
    <3>3. CASE EditUser(n)
      <4>1. PICK s \in UserSpecs :
              user[n].exists /\ U!Store(n, [user[n] EXCEPT !.rv = @ + 1, !.spec = s])
        BY <3>3 DEF EditUser, U!UserEdit
      <4>2. UserSeen(u) /\ user'[u] = IF n = u THEN [user[n] EXCEPT !.rv = @ + 1, !.spec = s]
                                      ELSE user[u]
        BY <1>0, <3>1, <4>1, StoredUser
      <4>. QED  BY <2>0, <4>1, <4>2 DEF UserWritten, ByUsers
    <3>4. CASE DeleteUser(n)
      <4>. DEFINE v == IF user[n].fin THEN [user[n] EXCEPT !.rv = @ + 1, !.deleting = TRUE]
                       ELSE U!Absent(user[n].rv + 1)
      <4>1. user[n].exists /\ U!Store(n, v)
        BY <3>4 DEF DeleteUser, U!UserDelete
      <4>2. UserSeen(u) /\ user'[u] = IF n = u THEN v ELSE user[u]
        <5>. HIDE DEF v
        <5>. QED  BY <1>0, <3>1, <4>1, StoredUser
      <4>. QED  BY <2>0, <4>1, <4>2 DEF UserWritten, ByUsers
    <3>. QED  BY <2>2, <3>2, <3>3, <3>4
  <2>. QED  BY <1>5, <2>1, <2>2 DEF Disturbance, CreateDev, EditDev, DeleteDev, ResyncDev,
            ResyncUser, U!Resync, DatabaseDown, userVars
<1>6. CASE CrashOperator
  BY <1>0, <1>6 DEF CrashOperator, RestartCluster, U!Relist, U!TypeOK, UserWritten, UserSeen
<1>7. CASE UNCHANGED vars
  BY <1>1, <1>7 DEF vars, userVars
<1>. QED  BY <1>2, <1>3, <1>4, <1>5, <1>6, <1>7 DEF OperatorNext

\* A RhpamUser that gets the phase has it from a Deprovision of its RhpamDev,
\* which has deleted the realm, or from its own, which has emptied it.
LEMMA DetachedRealm ==
    ASSUME OperatorIInv, PurgeIInv, job.pc = "users", NEW x \in job.users
    PROVE  x[2].realm \notin realms /\ OnlyDefaults(x[2].realm)
<1>1. x[2].realm = job.copy.realm
  BY DEF PurgeIInv, RealmsHouse
<1>2. job.copy.realm \notin realms
  <2>1. job # Idle /\ RealmIInv
    BY DEF Idle, OperatorIInv, ResourceIInv
  <2>2. job.to = PhaseDeprovisioned
    BY <2>1 DEF RealmIInv, RunKeepsRealm, Provisioning
  <2>. QED  BY <2>1, <2>2 DEF RealmIInv, RunKeepsRealm, Deprovisioning,
            PhaseDeprovisioned, PhaseRealmProvisioned
<1>3. \A y \in accounts : y[1] # job.copy.realm
  BY <1>2 DEF PurgeIInv, RealmsHouse
<1>. QED  BY <1>1, <1>2, <1>3 DEF OnlyDefaults, RealmAccounts, InRealm

LEMMA PhasesDiffer ==
    /\ PhaseDeprovisioned \notin {NoPhase, PhaseDeprovisionFailed, PhaseComplete,
                                  PhaseAccepted}
    /\ PhaseComplete # PhaseAccepted
BY DEF PhaseDeprovisioned, NoPhase, PhaseDeprovisionFailed, PhaseComplete, PhaseAccepted

\* A step that leaves a RhpamUser in the phase: it had it, with its realm, or
\* has it from one of the two.
GetsPhase(u) ==
    \/ user[u].exists /\ user[u].phase = PhaseDeprovisioned /\ user'[u].realm = user[u].realm
    \/ ByDetach(u) /\ user'[u].realm \notin realms /\ OnlyDefaults(user'[u].realm)
    \/ /\ ByRun(u) /\ U!Accepts(u, ujob.copy) /\ ujob.copy.deleting
       /\ OnlyDefaults(user'[u].realm)

LEMMA PhaseFrom ==
    ASSUME OperatorIInv, PurgeIInv, NEW u \in Users,
           ByUsers(u) \/ ByDetach(u) \/ ByRun(u),
           user'[u].phase = PhaseDeprovisioned
    PROVE  GetsPhase(u)
<1>0. user[u] \in U!Object
  BY DEF OperatorIInv, UserCtlTypeOK, ClusterTypeOK, U!TypeOK
<1>1. CASE ByUsers(u)
  <2>1. \A n : U!Absent(n).phase = NoPhase
    BY DEF U!Absent
  <2>2. \A n, s : U!Created(n, s).phase = NoPhase
    BY DEF U!Created, U!Absent
  <2>3. CASE \E s : user[u].exists /\ user'[u] = [user[u] EXCEPT !.rv = @ + 1, !.spec = s]
    BY <1>0, <2>3 DEF U!Object, GetsPhase
  <2>4. CASE user[u].exists /\ user'[u] = [user[u] EXCEPT !.rv = @ + 1, !.deleting = TRUE]
    BY <1>0, <2>4 DEF U!Object, GetsPhase
  <2>. QED  BY <1>1, <2>1, <2>2, <2>3, <2>4, PhasesDiffer DEF ByUsers
<1>2. ASSUME NEW copy, NEW v \in U!Object, ByCopy(u, copy, v)
      PROVE  \/ user'[u] = user[u] /\ user[u].exists
             \/ user'[u].phase = v.phase /\ user'[u].realm = v.realm
  <2>1. user[u].exists /\ user'[u] = U!Result(u, v)
    BY <1>2 DEF ByCopy, U!Accepts
  <2>2. user'[u] # U!Absent(user[u].rv + 1)
    BY PhasesDiffer DEF U!Absent
  <2>3. /\ [v EXCEPT !.rv = user[u].rv + 1].phase = v.phase
        /\ [v EXCEPT !.rv = user[u].rv + 1].realm = v.realm
    BY DEF U!Object
  <2>. QED  BY <2>1, <2>2, <2>3 DEF U!Result
<1>3. CASE ByDetach(u)
  <2>1. PICK x \in job.users :
          x[1] = u /\ ByCopy(u, x[2], [x[2] EXCEPT !.phase = PhaseDeprovisioned])
    BY <1>3 DEF ByDetach
  <2>2. x[2] \in U!Object
    <3>1. job.pc = "users" /\ RealmIInv
      BY <1>3 DEF ByDetach, OperatorIInv, ResourceIInv
    <3>2. job # Idle
      BY <3>1 DEF Idle
    <3>3. job \in JobRecords
      BY <3>1, <3>2, CallPurpose
    <3>. QED  BY <3>3 DEF JobRecords
  <2>. DEFINE v == [x[2] EXCEPT !.phase = PhaseDeprovisioned]
  <2>3. v \in U!Object /\ v.realm = x[2].realm
    BY <2>2 DEF U!Object, StatusPhase
  <2>4. ByCopy(u, x[2], v)
    BY <2>1
  <2>. HIDE DEF v
  <2>5. (user'[u] = user[u] /\ user[u].exists) \/ user'[u].realm = v.realm
    BY <1>2, <2>3, <2>4
  <2>6. x[2].realm \notin realms /\ OnlyDefaults(x[2].realm)
    BY <1>3, DetachedRealm DEF ByDetach
  <2>. QED  BY <1>3, <2>3, <2>5, <2>6 DEF GetsPhase
<1>4. CASE ByRun(u)
  <2>1. ujob # UserIdle /\ ujob \in UserJob /\ PurgeGoesOn
    BY <1>4 DEF ByRun, OperatorIInv, UserCtlTypeOK, PurgeIInv
  <2>2. SavedUser \in U!Object /\ SavedUser.phase = ujob.to
    BY <2>1 DEF SavedUser, UserJob, U!Object
  <2>3. CASE ujob.pc = "save" /\ ByCopy(u, ujob.copy, SavedUser)
    <3>1. \/ user'[u] = user[u] /\ user[u].exists
          \/ ujob.to = PhaseDeprovisioned /\ user'[u].realm = SavedUser.realm
      BY <1>2, <2>2, <2>3
    <3>2. CASE ujob.to = PhaseDeprovisioned /\ user'[u].realm = SavedUser.realm
      <4>1. /\ ujob.realm = ujob.copy.realm /\ OnlyDefaults(ujob.realm)
            /\ ujob.copy.deleting
        BY <2>1, <2>3, <3>2 DEF PurgeGoesOn
      <4>2. SavedUser.realm = ujob.realm
        BY <2>1, <3>2, <4>1 DEF SavedUser, UserJob, U!Object
      <4>3. U!Accepts(u, ujob.copy)
        BY <2>3 DEF ByCopy
      <4>. QED  BY <1>4, <3>2, <4>1, <4>2, <4>3 DEF GetsPhase
    <3>. QED  BY <3>1, <3>2 DEF GetsPhase
  <2>4. ASSUME ByCopy(u, ujob.copy, [ujob.copy EXCEPT !.phase = PhaseDeprovisionFailed])
        PROVE  GetsPhase(u)
    <3>. DEFINE v == [ujob.copy EXCEPT !.phase = PhaseDeprovisionFailed]
    <3>1. v \in U!Object /\ v.phase # PhaseDeprovisioned
      BY <2>1, PhasesDiffer DEF UserJob, U!Object, StatusPhase
    <3>2. ByCopy(u, ujob.copy, v)
      BY <2>4
    <3>. HIDE DEF v
    <3>. QED  BY <1>2, <3>1, <3>2 DEF GetsPhase
  <2>. QED  BY <1>4, <2>3, <2>4 DEF ByRun
<1>. QED  BY <1>1, <1>3, <1>4

-----------------------------------------------------------------------------
(* Why what that phase says stays true.                                    *)

\* The updates that replace a RhpamUser: none takes back its deletion, and one
\* that drops the finalizer ends a run that had found the phase.
LEMMA WrittenFrom ==
    ASSUME OperatorIInv, NEW u \in Users, ByDetach(u) \/ ByRun(u)
    PROVE  \E copy, v \in U!Object :
              /\ ByCopy(u, copy, v)
              /\ v.exists = copy.exists /\ v.deleting = copy.deleting
              /\ UserCopiesSound => copy = user[u]
              /\ copy.fin => v.fin \/ /\ ujob # UserIdle /\ ujob.copy = copy
                                      /\ ujob.to = PhaseComplete
<1>1. CASE ByDetach(u)
  <2>1. PICK x \in job.users :
          x[1] = u /\ ByCopy(u, x[2], [x[2] EXCEPT !.phase = PhaseDeprovisioned])
    BY <1>1 DEF ByDetach
  <2>2. x[2] \in U!Object /\ job.pc = "users"
    <3>1. job.pc = "users" /\ RealmIInv
      BY <1>1 DEF ByDetach, OperatorIInv, ResourceIInv
    <3>2. job # Idle
      BY <3>1 DEF Idle
    <3>3. job \in JobRecords
      BY <3>1, <3>2, CallPurpose
    <3>. QED  BY <3>1, <3>3 DEF JobRecords
  <2>. DEFINE v == [x[2] EXCEPT !.phase = PhaseDeprovisioned]
  <2>3. /\ v \in U!Object /\ v.exists = x[2].exists
        /\ v.deleting = x[2].deleting /\ v.fin = x[2].fin
    BY <2>2 DEF U!Object, StatusPhase
  <2>4. ByCopy(u, x[2], v)
    BY <2>1
  <2>. HIDE DEF v
  <2>5. UserCopiesSound => x[2] = user[u]
    BY <2>1, <2>2, <2>4 DEF UserCopiesSound, U!Sound, ByCopy, U!Accepts
  <2>. QED  BY <2>2, <2>3, <2>4, <2>5
<1>2. CASE ByRun(u)
  <2>1. ujob # UserIdle /\ ujob \in UserJob /\ ujob.name = u
    BY <1>2 DEF ByRun, OperatorIInv, UserCtlTypeOK
  <2>2. ASSUME NEW v \in U!Object, ByCopy(u, ujob.copy, v),
               v.exists = ujob.copy.exists, v.deleting = ujob.copy.deleting,
               ujob.copy.fin => v.fin \/ ujob.to = PhaseComplete
        PROVE  \E copy, w \in U!Object :
                  /\ ByCopy(u, copy, w)
                  /\ w.exists = copy.exists /\ w.deleting = copy.deleting
                  /\ UserCopiesSound => copy = user[u]
                  /\ copy.fin => w.fin \/ /\ ujob # UserIdle /\ ujob.copy = copy
                                          /\ ujob.to = PhaseComplete
    <3>1. ujob.copy \in U!Object
      BY <2>1 DEF UserJob
    <3>2. UserCopiesSound => ujob.copy = user[u]
      BY <2>1, <2>2 DEF UserCopiesSound, U!Sound, ByCopy, U!Accepts
    <3>. QED  BY <2>1, <2>2, <3>1, <3>2
  <2>3. /\ SavedUser \in U!Object /\ SavedUser.exists = ujob.copy.exists
        /\ SavedUser.deleting = ujob.copy.deleting
        /\ ujob.copy.fin => SavedUser.fin \/ ujob.to = PhaseComplete
    BY <2>1 DEF SavedUser, UserJob, U!Object
  <2>. DEFINE v == [ujob.copy EXCEPT !.phase = PhaseDeprovisionFailed]
  <2>4. /\ v \in U!Object /\ v.exists = ujob.copy.exists
        /\ v.deleting = ujob.copy.deleting /\ v.fin = ujob.copy.fin
    BY <2>1 DEF UserJob, U!Object, StatusPhase
  <2>5. ByCopy(u, ujob.copy, SavedUser) \/ ByCopy(u, ujob.copy, v)
    BY <1>2 DEF ByRun
  <2>. HIDE DEF v
  <2>. QED  BY <2>2, <2>3, <2>4, <2>5
<1>. QED  BY <1>1, <1>2

\* A copy that was sound stays so: what is written is newer.
SoundNow(u, v) ==
    /\ v.rv <= user'[u].rv
    /\ v.rv = user'[u].rv => v = user'[u]

LEMMA NewerVersion ==
    ASSUME OperatorIInv, NEW u \in Users, UserWritten(u)
    PROVE  /\ user[u].rv \in Nat /\ user'[u].rv \in Nat
           /\ user'[u] = user[u] \/ user'[u].rv = user[u].rv + 1
<1>0. user[u] \in U!Object /\ user[u].rv \in Nat
  BY DEF OperatorIInv, UserCtlTypeOK, ClusterTypeOK, U!TypeOK, U!Object
<1>1. CASE ByUsers(u)
  <2>1. CASE \E s : user'[u] = U!Created(user[u].rv + 1, s)
    BY <1>0, <2>1 DEF U!Absent, U!Created
  <2>2. CASE \E s : user'[u] = [user[u] EXCEPT !.rv = @ + 1, !.spec = s]
    BY <1>0, <2>2 DEF U!Object
  <2>3. CASE user'[u] = [user[u] EXCEPT !.rv = @ + 1, !.deleting = TRUE]
    BY <1>0, <2>3 DEF U!Object
  <2>4. CASE user'[u] = U!Absent(user[u].rv + 1)
    BY <1>0, <2>4 DEF U!Absent
  <2>. QED  BY <1>1, <2>1, <2>2, <2>3, <2>4 DEF ByUsers
<1>2. CASE ByDetach(u) \/ ByRun(u)
  <2>1. PICK copy, v \in U!Object : ByCopy(u, copy, v)
    BY <1>2, WrittenFrom
  <2>2. /\ U!Absent(user[u].rv + 1).rv = user[u].rv + 1
        /\ [v EXCEPT !.rv = user[u].rv + 1].rv = user[u].rv + 1
    BY DEF U!Absent, U!Object
  <2>. QED  BY <1>0, <2>1, <2>2 DEF ByCopy, U!Result
<1>. QED  BY <1>0, <1>1, <1>2 DEF UserWritten

LEMMA SoundStays ==
    ASSUME OperatorIInv, NEW u \in Users, UserWritten(u), NEW v, v.rv \in Nat,
           U!Sound(u, v)
    PROVE  SoundNow(u, v)
BY NewerVersion DEF U!Sound, SoundNow

\* What a run has read, it has read from the cache.
RunReads ==
    \/ ujob' = UserIdle
    \/ ujob # UserIdle /\ SameRead
    \/ /\ \E u \in Users : ujob'.name = u /\ ujob'.copy = userCache[u]
       /\ UNCHANGED <<user, userCache, userWatch>>

LEMMA OperatorReads ==
    ASSUME OnePage, OperatorIInv, PurgeIInv, [OperatorNext]_vars
    PROVE  RunReads
<1>1. CASE UserStep
  <2>1. CASE ujob = UserIdle /\ \E u \in Users : UserHandler(u)
    <3>1. PICK u \in Users : UserHandler(u)
      BY <2>1
    <3>2. CASE DropUser(u)
      BY <2>1, <3>2 DEF DropUser, RunReads
    <3>3. CASE ~DropUser(u)
      <4>1. \E pc, to, realm, devs : StartUser(u, pc, to, realm, devs)
        BY <3>1, <3>3 DEF UserHandler, InitializeUser, Accepted, ReconcileUser,
           DeprovisionUser
      <4>. QED  BY <4>1 DEF StartUser, TakeUser, RunReads
    <3>. QED  BY <3>2, <3>3
  <2>. QED  BY <1>1, <2>1, UserPurges DEF UserStep, RunReads
<1>2. CASE DevStep \/ ClusterStep \/ Disturbance \/ CrashOperator \/ UNCHANGED vars
  BY <1>2, OperatorHouses, OtherPurges DEF RunReads, SameRead
<1>. QED  BY <1>1, <1>2 DEF OperatorNext

LEMMA UserCopiesStay ==
    ASSUME OnePage, OperatorIInv, PurgeIInv, UserCopiesSound, [OperatorNext]_vars
    PROVE  UserCopiesSound'
<1>1. \A u \in Users : UserWritten(u) /\ UserSeen(u)
  BY UserVersions
<1>2. ASSUME NEW u \in Users
      PROVE  /\ \A v \in {user[u], userCache[u]} \cup userWatch[u] :
                   v.rv \in Nat /\ U!Sound(u, v)
             /\ \A v \in userWatch[u] : userCache[u].rv <= v.rv
  <2>1. \A v \in {user[u], userCache[u]} \cup userWatch[u] : v.rv \in Nat
    BY DEF OperatorIInv, UserCtlTypeOK, ClusterTypeOK, U!TypeOK, U!Object
  <2>2. U!Sound(u, user[u])
    BY <2>1 DEF U!Sound
  <2>. QED  BY <2>1, <2>2 DEF UserCopiesSound, U!CopiesSound
<1>3. ASSUME NEW u \in Users
      PROVE  /\ SoundNow(u, userCache'[u])
             /\ \A v \in userWatch'[u] : SoundNow(u, v) /\ userCache'[u].rv <= v.rv
             /\ userCache[u].rv <= userCache'[u].rv
             /\ userCache[u].rv \in Nat /\ userCache'[u].rv \in Nat
  <2>1. \A v \in {user[u], userCache[u]} \cup userWatch[u] : SoundNow(u, v)
    BY <1>1, <1>2, SoundStays
  <2>2. /\ SoundNow(u, user'[u])
        /\ user[u].rv <= user'[u].rv
        /\ user[u].rv \in Nat /\ user'[u].rv \in Nat
    BY <1>1, NewerVersion DEF SoundNow
  <2>3. userCache[u].rv <= user[u].rv
    BY <1>2 DEF U!Sound
  <2>. QED  BY <1>1, <1>2, <2>1, <2>2, <2>3 DEF UserSeen
<1>4. ujob' # UserIdle =>
         /\ ujob'.name \in Users
         /\ SoundNow(ujob'.name, ujob'.copy)
         /\ ujob'.copy.rv <= userCache'[ujob'.name].rv
  <2>1. CASE ujob # UserIdle /\ SameRead
    <3>1. ujob \in UserJob
      BY <2>1 DEF OperatorIInv, UserCtlTypeOK
    <3>2. /\ ujob.name \in Users /\ ujob.copy.rv \in Nat
          /\ U!Sound(ujob.name, ujob.copy)
          /\ ujob.copy.rv <= userCache[ujob.name].rv
      BY <2>1, <3>1 DEF UserCopiesSound, UserJob, U!Object
    <3>. QED  BY <1>1, <1>3, <2>1, <3>2, SoundStays DEF SameRead
  <2>2. CASE /\ \E u \in Users : ujob'.name = u /\ ujob'.copy = userCache[u]
             /\ UNCHANGED <<user, userCache, userWatch>>
    BY <1>3, <2>2
  <2>. QED  BY <2>1, <2>2, OperatorReads DEF RunReads
<1>5. job'.pc = "users" => \A x \in job'.users : SoundNow(x[1], x[2])
  <2>1. DetachStep
    BY OperatorDetaches
  <2>2. CASE job.pc = "users" /\ job'.users \subseteq job.users
    <3>1. job \in JobRecords
      <4>1. job # Idle /\ RealmIInv
        BY <2>2 DEF Idle, OperatorIInv, ResourceIInv
      <4>. QED  BY <4>1, CallPurpose
    <3>2. ASSUME NEW x \in job.users
          PROVE  x[1] \in Users /\ x[2].rv \in Nat /\ U!Sound(x[1], x[2])
      BY <2>2, <3>1 DEF JobRecords, U!Object, UserCopiesSound
    <3>. QED  BY <1>1, <2>2, <3>2, SoundStays
  <2>3. CASE /\ UNCHANGED <<user, userCache, userWatch>>
             /\ \A x \in job'.users : x[1] \in Users /\ x[2] = userCache[x[1]]
    BY <1>3, <2>3
  <2>. QED  BY <2>1, <2>2, <2>3 DEF DetachStep
<1>. QED  BY <1>3, <1>4, <1>5 DEF UserCopiesSound, U!CopiesSound, U!Sound, SoundNow

\* A RhpamUser being deleted is so for all who may read it.
LEMMA DeletingStays ==
    ASSUME OperatorIInv, UserCopiesSound, NEW u \in Users, UserWritten(u),
           user[u].exists, user[u].deleting, user'[u].exists
    PROVE  user'[u].deleting
<1>0. user[u] \in U!Object
  BY DEF OperatorIInv, UserCtlTypeOK, ClusterTypeOK, U!TypeOK
<1>1. \A n : ~U!Absent(n).exists
  BY DEF U!Absent
<1>2. CASE ByUsers(u)
  <2>1. CASE \E s : user'[u] = [user[u] EXCEPT !.rv = @ + 1, !.spec = s]
    BY <1>0, <2>1 DEF U!Object
  <2>2. CASE user'[u] = [user[u] EXCEPT !.rv = @ + 1, !.deleting = TRUE]
    BY <1>0, <2>2 DEF U!Object
  <2>. QED  BY <1>1, <1>2, <2>1, <2>2 DEF ByUsers
<1>3. CASE ByDetach(u) \/ ByRun(u)
  <2>1. PICK copy, v \in U!Object :
          ByCopy(u, copy, v) /\ v.deleting = copy.deleting /\ copy = user[u]
    BY <1>3, WrittenFrom
  <2>2. [v EXCEPT !.rv = user[u].rv + 1].deleting = v.deleting
    BY DEF U!Object
  <2>. QED  BY <1>1, <2>1, <2>2 DEF ByCopy, U!Result
<1>. QED  BY <1>2, <1>3 DEF UserWritten

ClosingNow(u) ==
    /\ \A v \in {user'[u], userCache'[u]} \cup userWatch'[u] : v.exists /\ v.deleting
    /\ ujob' # UserIdle => ujob'.copy.deleting

LEMMA ClosingStays ==
    ASSUME OnePage, \A u, v \in Users : u = v, OperatorIInv, PurgeIInv, UserCopiesSound,
           [OperatorNext]_vars, NEW u \in Users, Closing(u), user'[u].exists
    PROVE  ClosingNow(u)
<1>1. UserWritten(u) /\ UserSeen(u)
  BY UserVersions
<1>2. user'[u].deleting
  BY <1>1, DeletingStays DEF Closing
<1>3. \A v \in {user'[u], userCache'[u]} \cup userWatch'[u] : v.exists /\ v.deleting
  BY <1>1, <1>2 DEF UserSeen, Closing
<1>4. ujob' # UserIdle => ujob'.copy.deleting
  BY OperatorReads DEF RunReads, SameRead, Closing
<1>. QED  BY <1>3, <1>4 DEF ClosingNow

\* While it is, no run makes an account.
LEMMA ClosingMakesNone ==
    ASSUME PurgeIInv, HousedStep, NEW u \in Users, Closing(u)
    PROVE  accounts' \subseteq accounts
<1>1. ASSUME ujob # UserIdle
      PROVE  ujob.pc \notin MakingCalls
  BY <1>1 DEF Closing, PurgeIInv, PurgeGoesOn, PurgeCalls, MakingCalls
<1>. QED  BY <1>1 DEF HousedStep

\* What gets the phase from its own run, that run has read last.
LEMMA SavedCloses ==
    ASSUME OperatorIInv, UserCopiesSound, NEW u \in Users, ByRun(u),
           U!Accepts(u, ujob.copy), ujob.copy.deleting
    PROVE  Closing(u)
<1>1. ujob.copy = user[u] /\ user[u].exists /\ ujob.copy.rv <= userCache[u].rv
  BY DEF ByRun, UserCopiesSound, U!Sound, U!Accepts
<1>2. \A v \in {user[u], userCache[u]} \cup userWatch[u] : v.rv \in Nat
  BY DEF OperatorIInv, UserCtlTypeOK, ClusterTypeOK, U!TypeOK, U!Object
<1>3. userCache[u] = user[u]
  BY <1>1, <1>2 DEF UserCopiesSound, U!CopiesSound, U!Sound
<1>4. \A v \in userWatch[u] : v = user[u]
  BY <1>2, <1>3 DEF UserCopiesSound, U!CopiesSound, U!Sound
<1>. QED  BY <1>1, <1>3, <1>4 DEF Closing

LEMMA PurgedStaysOn ==
    ASSUME OnePage, \A u, v \in Users : u = v, OperatorIInv, PurgeIInv, LeaveIInv,
           [OperatorNext]_vars, NEW u \in Users,
           \A r \in realms' \ realms : user[u].realm # r,
           user'[u].exists, user'[u].phase = PhaseDeprovisioned
    PROVE  \/ user'[u].realm \notin realms'
           \/ /\ \A a \in InRealm(user'[u].realm, accounts') : isDefaultUser(a)
              /\ ClosingNow(u)
<1>0. HousedStep /\ UserWritten(u) /\ UserCopiesSound /\ PurgedStays
  BY OperatorHouses, UserVersions DEF LeaveIInv
<1>1. ASSUME NEW r, OnlyDefaults(r), accounts' \subseteq accounts
      PROVE  \A a \in InRealm(r, accounts') : isDefaultUser(a)
  BY <1>1 DEF OnlyDefaults, RealmAccounts, InRealm
<1>2. CASE user[u].exists /\ user[u].phase = PhaseDeprovisioned /\ user'[u].realm = user[u].realm
  <2>1. CASE user[u].realm \notin realms
    BY <1>2, <2>1
  <2>2. CASE OnlyDefaults(user[u].realm) /\ Closing(u)
    BY <1>0, <1>1, <1>2, <2>2, ClosingMakesNone, ClosingStays
  <2>. QED  BY <1>0, <1>2, <2>1, <2>2 DEF PurgedStays
<1>3. CASE UNCHANGED ssoVars /\ user'[u].realm \notin realms
  BY <1>3 DEF ssoVars
<1>4. CASE /\ UNCHANGED ssoVars /\ ByRun(u) /\ U!Accepts(u, ujob.copy)
           /\ ujob.copy.deleting /\ OnlyDefaults(user'[u].realm)
  <2>1. Closing(u)
    BY <1>0, <1>4, SavedCloses
  <2>2. accounts' \subseteq accounts
    BY <1>4 DEF ssoVars
  <2>. QED  BY <1>0, <1>1, <1>4, <2>1, <2>2, ClosingStays
<1>5. CASE user'[u] = user[u]
  BY <1>2, <1>5
<1>6. CASE UNCHANGED ssoVars /\ (ByUsers(u) \/ ByDetach(u) \/ ByRun(u))
  <2>1. GetsPhase(u)
    BY <1>6, PhaseFrom
  <2>. QED  BY <1>2, <1>3, <1>4, <1>6, <2>1 DEF GetsPhase
<1>. QED  BY <1>0, <1>5, <1>6 DEF UserWritten

-----------------------------------------------------------------------------
(* The theorems.                                                           *)

\* Whatever the two controllers, the users and the informers do in between,
\* and whatever fails or restarts: a run of either controller knows that what
\* it will write is refused if it has read something old.
THEOREM OperatorInvariant == OperatorSpec => []OperatorIInv
<1>1. OperatorInit => OperatorIInv
  <2>. SUFFICES ASSUME OperatorInit
                PROVE  OperatorIInv
    OBVIOUS
  <2>1. RealmIInv /\ DevTypeOK
    BY RealmInit DEF OperatorInit, RealmIInv, DevIInv
  <2>2. UserCtlTypeOK /\ UserRunSound
    BY <2>1 DEF OperatorInit, DevTypeOK, UserCtlTypeOK, UserRunSound
  <2>3. ResourceIInv
    BY ResourceInit DEF OperatorInit
  <2>. QED  BY <2>2, <2>3 DEF OperatorIInv
<1>2. OperatorIInv /\ [OperatorNext]_vars => OperatorIInv'
  BY OperatorStepFacts
<1>. QED  BY <1>1, <1>2, PTL DEF OperatorSpec

\* The phase of a RhpamDev goes through the installation in order, its step
\* to PhasePrepare by the RhpamUser controller included.
THEOREM OperatorPhaseOrder == OperatorSpec => PhaseOrder
<1>1. OperatorIInv /\ [OperatorNext]_vars =>
        [\A d \in Devs : SameDev(d) =>
            \/ dev'[d].phase = dev[d].phase
            \/ <<dev[d].phase, dev'[d].phase>> \in Advance]_dev
  BY OperatorStepFacts, LegalStepOrder
     DEF OperatorIInv, ResourceIInv, RealmIInv, DevIInv, DevTypeOK, ClusterTypeOK
<1>. QED  BY <1>1, OperatorInvariant, PTL DEF OperatorSpec, PhaseOrder

\* The realm a RhpamDev was given is its realm for life.
THEOREM OperatorRealmStable == OperatorSpec => RealmStable
<1>1. OperatorIInv /\ [OperatorNext]_vars =>
        [\A d \in Devs : SameDev(d) /\ dev[d].realm # NoRealm =>
            dev'[d].realm = dev[d].realm]_dev
  BY OperatorStepFacts, LegalStepOrder
     DEF OperatorIInv, ResourceIInv, RealmIInv, DevIInv, DevTypeOK, ClusterTypeOK
<1>. QED  BY <1>1, OperatorInvariant, PTL DEF OperatorSpec, RealmStable

\* What an installation logs in with is there as long as it is not deleted,
\* whatever the RhpamUser controller does inside the realm.
THEOREM OperatorRealmServes == OperatorSpec => []RealmServes
<1>1. OperatorIInv => RealmServes
  BY KeptServes DEF OperatorIInv, ResourceIInv
<1>. QED  BY <1>1, OperatorInvariant, PTL

\* A RhpamDev with a finalizer goes only after its realm.
THEOREM OperatorFinalizerHolds == OperatorSpec => FinalizerHolds
<1>1. OperatorIInv /\ [OperatorNext]_vars =>
        [\A d \in Devs :
            dev[d].exists /\ dev[d].fin /\ ~dev'[d].exists =>
                dev[d].realm \notin realms /\ dev[d].realm # NoRealm]_dev
  BY OperatorStepFacts, StoresHold DEF OperatorIInv, ResourceIInv
<1>. QED  BY <1>1, OperatorInvariant, PTL DEF OperatorSpec, FinalizerHolds

\* In a namespace with one RhpamDev at a time the resources that its phase
\* promises are there and its own, whatever the RhpamUser controller does.
THEOREM OperatorStagesComplete ==
    ASSUME Tidy
    PROVE  OperatorSpec => []StagesComplete
<1>1. OperatorIInv => StagesComplete
  BY KeptComplete DEF OperatorIInv
<1>. QED  BY <1>1, OperatorInvariant, PTL

\* There a deployment always has all that its pods refer to.
THEOREM OperatorReferencesResolve ==
    ASSUME Tidy
    PROVE  OperatorSpec => []ReferencesResolve
<1>1. OperatorIInv => ReferencesResolve
  BY KeptResolves DEF OperatorIInv
<1>. QED  BY <1>1, OperatorInvariant, PTL

\* Nothing is taken from under a RhpamDev that is alone in its namespace.
THEOREM OperatorOwnedResourcesStay ==
    ASSUME Tidy \/ \A d, e \in Devs : d = e
    PROVE  OperatorSpec => OwnedResourcesStay
<1>1. OperatorIInv /\ [OperatorNext]_vars =>
        [\A d \in Devs, r \in Resources :
            OwnedBy(r, d) /\ ~dev[d].deleting => Live(r)']_<<res, dev>>
  BY OperatorStepFacts, ResourcesKept DEF OperatorIInv
<1>. QED  BY <1>1, OperatorInvariant, PTL DEF OperatorSpec, OwnedResourcesStay

\* Of a realm that a RhpamDev has been given for its installation nothing is
\* undone that the RhpamUser controller did before it handed the RhpamDev over,
\* and it hands over only what it has done completely.
THEOREM OperatorDefaultsInvariant ==
    ASSUME DefaultsClear
    PROVE  OperatorSpec => []DefaultsIInv
<1>1. OperatorInit => DefaultsIInv
  <2>. SUFFICES ASSUME OperatorInit
                PROVE  DefaultsIInv
    OBVIOUS
  <2>1. \A d \in Devs : ~dev[d].exists
    BY DEF OperatorInit, DevInit, ClusterInit, D!Init, D!Absent
  <2>2. ujob = UserIdle /\ ujob.pc = "idle"
    BY DEF OperatorInit, UserIdle
  <2>. QED  BY <2>1, <2>2
            DEF DefaultsIInv, DefaultsFilled, AtLeast, PlanSpares, FillProgress
<1>2. OperatorIInv /\ DefaultsIInv /\ [OperatorNext]_vars => DefaultsIInv'
  BY DefaultsInductive
<1>. QED  BY <1>1, <1>2, OperatorInvariant, PTL DEF OperatorSpec

\* The components of an installation find their accounts and roles, whatever
\* the RhpamUsers of the realm ask for, and also while they are deprovisioned.
THEOREM OperatorDefaultsServe ==
    ASSUME DefaultsClear
    PROVE  OperatorSpec => []DefaultsServe
<1>1. DefaultsIInv => DefaultsServe
  BY FilledServes DEF DefaultsIInv
<1>. QED  BY <1>1, OperatorDefaultsInvariant, PTL

\* All a user sees of the RhpamDevs of the operator is Lifecycle.
THEOREM OperatorImplementsLifecycle == OperatorSpec => ImplementsLifecycle
<1>1. OperatorInit => L!Init
  BY ViewsInit DEF OperatorInit
<1>2. OperatorIInv /\ [OperatorNext]_vars => [L!Next]_(L!vars)
  BY OperatorStepFacts, StepRefines DEF OperatorIInv, ResourceIInv
<1>. QED  BY <1>1, <1>2, OperatorInvariant, PTL
          DEF OperatorSpec, ImplementsLifecycle, L!Spec

\* A Deprovision of a RhpamUser goes on to delete accounts until only the
\* defaults are left, as long as a list of Keycloak shows all of them.
THEOREM OperatorPurgeInvariant ==
    ASSUME OnePage
    PROVE  OperatorSpec => []PurgeIInv
<1>1. OperatorInit => PurgeIInv
  BY DEF OperatorInit, DevInit, KeycloakInit, PurgeIInv, RealmsHouse, PurgeGoesOn, Idle
<1>2. OperatorIInv /\ PurgeIInv /\ [OperatorNext]_vars => PurgeIInv'
  BY PurgeInductive
<1>. QED  BY <1>1, <1>2, OperatorInvariant, PTL DEF OperatorSpec

\* When a RhpamUser gets the phase that says its accounts are gone they are.
THEOREM OperatorUserPurged ==
    ASSUME OnePage
    PROVE  OperatorSpec => UserPurged
<1>1. ASSUME OperatorIInv, PurgeIInv, [OperatorNext]_vars, NEW u \in Users,
             user'[u].phase = PhaseDeprovisioned, user[u].phase # PhaseDeprovisioned
      PROVE  OnlyDefaults(user'[u].realm)
  <2>1. ByUsers(u) \/ ByDetach(u) \/ ByRun(u)
    BY <1>1, UserVersions DEF UserWritten
  <2>. QED  BY <1>1, <2>1, PhaseFrom DEF GetsPhase
<1>2. OperatorIInv /\ PurgeIInv /\ [OperatorNext]_vars
        => [\A u \in Users :
              user'[u].phase = PhaseDeprovisioned /\ user[u].phase # PhaseDeprovisioned
                  => OnlyDefaults(user'[u].realm)]_user
  BY <1>1
<1>. QED
  BY <1>2, OperatorInvariant, OperatorPurgeInvariant, PTL DEF OperatorSpec, UserPurged

\* With a single RhpamUser, and realms that are never made anew under an old
\* id, what its phase says of its accounts stays true until it is gone.
THEOREM OperatorLeaveInvariant ==
    ASSUME OnePage, \A u, v \in Users : u = v
    PROVE  OperatorSpec /\ NoRealmAgain => []LeaveIInv
<1>1. OperatorInit => LeaveIInv
  <2>1. \A n : ~U!Absent(n).exists
    BY DEF U!Absent
  <2>2. \A n : n = 0 => U!Absent(n).rv <= U!Absent(n).rv
    BY DEF U!Absent
  <2>. QED  BY <2>1, <2>2 DEF OperatorInit, DevInit, ClusterInit, U!Init, LeaveIInv,
            UserCopiesSound, U!CopiesSound, U!Sound, PurgedStays, Idle
<1>2. ASSUME OperatorIInv, PurgeIInv, LeaveIInv, [OperatorNext]_vars,
             [\A r \in realms' \ realms : \A u \in Users : user[u].realm # r]_realms
      PROVE  LeaveIInv'
  <2>1. UserCopiesSound'
    BY <1>2, UserCopiesStay DEF LeaveIInv
  <2>2. \A r \in realms' \ realms : \A u \in Users : user[u].realm # r
    BY <1>2
  <2>3. \A u \in Users : user'[u].exists /\ user'[u].phase = PhaseDeprovisioned =>
           \/ user'[u].realm \notin realms'
           \/ /\ \A a \in InRealm(user'[u].realm, accounts') : isDefaultUser(a)
              /\ ClosingNow(u)
    BY <1>2, <2>2, PurgedStaysOn
  <2>4. PurgedStays'
    BY <2>3 DEF PurgedStays, OnlyDefaults, RealmAccounts, isDefaultUser, Closing, ClosingNow
  <2>. QED  BY <2>1, <2>4 DEF LeaveIInv
<1>. QED
  BY <1>1, <1>2, OperatorInvariant, OperatorPurgeInvariant, PTL
     DEF OperatorSpec, NoRealmAgain

\* So it is gone only when they are.
THEOREM OperatorUserFinalizerHolds ==
    ASSUME OnePage, \A u, v \in Users : u = v
    PROVE  OperatorSpec /\ NoRealmAgain => UserFinalizerHolds
<1>1. ASSUME OperatorIInv, PurgeIInv, LeaveIInv, [OperatorNext]_vars, NEW u \in Users,
             user[u].exists, user[u].fin, ~user'[u].exists
      PROVE  OnlyDefaults(user[u].realm)
  <2>1. UserWritten(u) /\ user[u] \in U!Object /\ UserCopiesSound
    BY <1>1, UserVersions
       DEF LeaveIInv, OperatorIInv, UserCtlTypeOK, ClusterTypeOK, U!TypeOK
  <2>2. ~ByUsers(u)
    BY <1>1, <2>1 DEF ByUsers, U!Object
  <2>3. PICK copy, v \in U!Object :
          /\ ByCopy(u, copy, v) /\ copy = user[u]
          /\ copy.fin => v.fin \/ /\ ujob # UserIdle /\ ujob.copy = copy
                                  /\ ujob.to = PhaseComplete
          /\ v.exists = copy.exists
    BY <1>1, <2>1, <2>2, WrittenFrom DEF UserWritten
  <2>4. ~v.fin
    <3>1. [v EXCEPT !.rv = user[u].rv + 1].exists = v.exists
      BY DEF U!Object
    <3>. QED  BY <1>1, <2>3, <3>1 DEF ByCopy, U!Result
  <2>5. user[u].phase = PhaseDeprovisioned
    BY <1>1, <2>3, <2>4 DEF PurgeIInv, PurgeGoesOn
  <2>6. CASE user[u].realm \notin realms
    BY <1>1, <2>6 DEF PurgeIInv, RealmsHouse, OnlyDefaults, RealmAccounts, InRealm
  <2>. QED  BY <1>1, <2>5, <2>6 DEF LeaveIInv, PurgedStays
<1>2. OperatorIInv /\ PurgeIInv /\ LeaveIInv /\ [OperatorNext]_vars
        => [\A u \in Users :
              user[u].exists /\ user[u].fin /\ ~user'[u].exists =>
                  OnlyDefaults(user[u].realm)]_user
  BY <1>1
<1>. QED
  BY <1>2, OperatorInvariant, OperatorPurgeInvariant, OperatorLeaveInvariant, PTL
     DEF OperatorSpec, UserFinalizerHolds
=============================================================================
