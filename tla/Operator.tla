------------------------------ MODULE Operator ------------------------------
(***************************************************************************)
(* The operator process: both controllers, with one worker each, over the  *)
(* same API server, informer caches and Keycloak.                          *)
(***************************************************************************)
EXTENDS RhpamDev, RhpamUser

vars == <<devVars, userVars, resVars, budget, ssoVars, job, ujob>>

OperatorInit == DevInit /\ ujob = UserIdle

\* What holds of the RhpamDev controller alone holds of both, and neither runs
\* on something old that the API server would take: the copies a run of the
\* RhpamUser controller holds are refused, or are the stored objects.
OperatorIInv == ResourceIInv /\ UserCtlTypeOK /\ UserRunSound

\* The process stops and starts again: both runs in progress are lost.
CrashOperator ==
    /\ RestartCluster
    /\ job' = Idle /\ ujob' = UserIdle
    /\ UNCHANGED ssoVars

\* One worker makes a step; what no controller touches comes first.
DevStep ==
    /\ UNCHANGED <<ujob, devCache, userCache, userQueue, seen, dbReady, writes>>
    /\ DevController

UserStep ==
    /\ UNCHANGED <<job, devCache, userCache, devQueue, seen, dbReady, writes>>
    /\ UserController

\* What the informers and the platform owe the operator.
ClusterStep ==
    /\ UNCHANGED <<ssoVars, job, ujob>>
    /\ \/ \E d \in Devs : DeliverDev(d)
       \/ \E u \in Users : DeliverUser(u)
       \/ SyncResources
       \/ DatabaseUp
       \/ \E r \in Resources : Collect(r)

\* What may happen or not: writes of users, resyncs, a failing database.
Disturbance ==
    /\ UNCHANGED <<ssoVars, job, ujob>>
    /\ \/ \E d \in Devs : CreateDev(d) \/ EditDev(d) \/ DeleteDev(d)
       \/ \E u \in Users : CreateUser(u) \/ EditUser(u) \/ DeleteUser(u)
       \/ \E d \in Devs : ResyncDev(d)
       \/ \E u \in Users : ResyncUser(u)
       \/ DatabaseDown

OperatorNext == DevStep \/ UserStep \/ ClusterStep \/ Disturbance \/ CrashOperator

OperatorSpec == OperatorInit /\ [][OperatorNext]_vars

\* Each worker runs, and the cluster does not rest while it owes something.
\* Nothing is assumed of users, faults, crashes and resyncs, nor of the order
\* in which the cluster pays.  The work queues are not modelled as fair
\* between keys: with this specification a kind has one name.
OperatorFairness ==
    WF_vars(DevStep) /\ WF_vars(UserStep) /\ WF_vars(ClusterStep)

FairOperatorSpec == OperatorSpec /\ OperatorFairness

-----------------------------------------------------------------------------
(* Properties of the two controllers together.                             *)

RealmRoles(r) == InRealm(r, roles)
RealmAccounts(r) == InRealm(r, accounts)
AccountRoles(r, a) == {g[3] : g \in {h \in grants : h[1] = r /\ h[2] = a}}

\* The components an installation starts log in with the default accounts:
\* from PhasePrepare on the realm has the default roles and accounts, and
\* an account no RhpamUser lists has its roles, whatever the RhpamUsers of
\* the realm ask for and also while they are being deleted.
DefaultsServe ==
    \A d \in Devs : AtLeast(d, PhasePrepare) /\ Present(d) =>
        LET r == dev[d].realm
        IN  /\ \A i \in DOMAIN DefaultRoles : DefaultRoles[i] \in RealmRoles(r)
            /\ \A i \in DOMAIN DefaultUsers :
                  LET a == DefaultUsers[i].username
                  IN  /\ a \in RealmAccounts(r)
                      /\ \/ \E s \in UserSpecs : a \in DOMAIN SpecUsers[s]
                         \/ \A j \in DOMAIN DefaultUsers[i].roles :
                               DefaultUsers[i].roles[j] \in AccountRoles(r, a)

(* Why DefaultsServe holds: an invariant that is inductive with OperatorIInv. *)

\* A call of Accepted is done: there is what it asks for.  Role mappings of an
\* account that RhpamUsers list are theirs to change.
Listable(a) == \E s \in UserSpecs : a \in DOMAIN SpecUsers[s]

Done(r, x) ==
    \/ x.op = "createRole" /\ <<r, x.role>> \in roles
    \/ x.op = "createUser" /\ <<r, x.account>> \in accounts
    \/ x.op = "grant" /\ (<<r, x.account, x.role>> \in grants \/ Listable(x.account))

FilledUpTo(r, n) ==
    \A k \in 0..n : \A i \in DOMAIN FillCalls(k) : Done(r, FillCalls(k)[i])

\* From the hand-over on a realm has all that Accepted asks for.
DefaultsFilled ==
    \A d \in Devs : AtLeast(d, PhasePrepare) /\ Present(d) =>
        FilledUpTo(dev[d].realm, Len(DefaultUsers))

\* No plan takes any of it away.
Spares(x) ==
    /\ x.op = "deleteRole" => ~isDefaultRole(x.role)
    /\ x.op = "deleteUser" => ~isDefaultUser(x.account)
    /\ x.op = "revoke" => Listable(x.account) \/ ~isDefaultUser(x.account)

PlanSpares == ujob # UserIdle => \A x \in ujob.plan : Spares(x)

\* The run that fills the realm of a RhpamDev that is still there as it was
\* listed has done all but the calls it has left.
FillProgress ==
    /\ ujob.pc \in {"devs", "handOff"} => ujob.filled = 0
    /\ ujob.pc \in {"fill", "handOff"} =>
          LET d == Head(ujob.devs)[1]
              copy == Head(ujob.devs)[2]
              calls == FillCalls(ujob.filled)
              Left(x) == \E n \in DOMAIN ujob.todo : ujob.todo[n] = x
          IN  /\ ujob.realm = copy.realm
              /\ ujob.pc = "fill" =>
                    \A n \in DOMAIN ujob.todo : \E i \in DOMAIN calls :
                        ujob.todo[n] = calls[i]
              /\ Present(d) /\ dev[d] = copy =>
                    IF ujob.pc = "handOff"
                    THEN FilledUpTo(ujob.realm, Len(DefaultUsers))
                    ELSE \A k \in 0..ujob.filled : \A i \in DOMAIN FillCalls(k) :
                            \/ Done(ujob.realm, FillCalls(k)[i])
                            \/ k = ujob.filled /\ Left(FillCalls(k)[i])

DefaultsIInv == DefaultsFilled /\ PlanSpares /\ FillProgress

\* It needs default accounts whose names neither contain other names nor are
\* contained in them, and whose roles are default roles.
DefaultsClear ==
    /\ \A a, b \in AccountNames : isDefaultUser(a) /\ a # b =>
          a \notin Containing[b] /\ b \notin Containing[a]
    /\ \A i \in DOMAIN DefaultUsers : \A j \in DOMAIN DefaultUsers[i].roles :
          isDefaultRole(DefaultUsers[i].roles[j])

OnlyDefaults(r) == \A a \in RealmAccounts(r) : isDefaultUser(a)

\* A RhpamUser gets the phase that says its accounts are gone only when they
\* are: neither a listing or a delete that failed, nor a detaching Deprovision
\* that is late, lets it have it earlier.
UserPurged ==
    [][\A u \in Users :
          user'[u].phase = PhaseDeprovisioned /\ user[u].phase # PhaseDeprovisioned
              => OnlyDefaults(user'[u].realm)]_user

\* A RhpamUser is gone only when its accounts are, with the realm or alone:
\* neither a detaching Deprovision nor a stale copy lets it slip earlier.
UserFinalizerHolds ==
    [][\A u \in Users :
          user[u].exists /\ user[u].fin /\ ~user'[u].exists =>
              OnlyDefaults(user[u].realm)]_user

(* Why these two hold: an invariant that is inductive with OperatorIInv.   *)

\* Keycloak has accounts of its realms only, and a Deprovision that has
\* deleted one detaches the RhpamUsers of that one.
RealmsHouse ==
    /\ \A x \in accounts : x[1] \in realms
    /\ job.pc = "users" => \A x \in job.users : x[2].realm = job.copy.realm

\* A run of a RhpamUser being deleted has emptied the realm but for what its
\* plan still deletes.
PurgeCalls == {"purge", "purgeUsers", "listPurge", "purgeRoles"}

PurgeGoesOn ==
    ujob # UserIdle =>
        /\ ujob.copy.deleting <=> ujob.to \in {PhaseDeprovisioned, PhaseComplete}
        /\ ujob.to = PhaseComplete =>
              ujob.pc = "save" /\ ujob.copy.phase = PhaseDeprovisioned
        /\ ujob.pc \in PurgeCalls => ujob.to = PhaseDeprovisioned
        /\ ujob.to = PhaseDeprovisioned =>
              /\ ujob.realm = ujob.copy.realm
              /\ ujob.pc \in PurgeCalls \cup {"save", "fail"}
              /\ ujob.pc = "purgeUsers" =>
                    \A a \in RealmAccounts(ujob.realm) :
                        isDefaultUser(a) \/ DeleteUserIn(a) \in ujob.plan
              /\ ujob.pc = "purgeRoles" => ujob.plan \subseteq RoleChanges
              /\ ujob.pc \in {"listPurge", "purgeRoles", "save"} =>
                    OnlyDefaults(ujob.realm)
        /\ ujob.pc \in PurgeCalls =>
              \A x \in ujob.plan : x.op \in {"deleteUser", "deleteRole"}

PurgeIInv == RealmsHouse /\ PurgeGoesOn

\* Of the RhpamUsers too no copy that is old is taken for the stored object,
\* and neither the cache nor a run goes back.
UserCopiesSound ==
    /\ U!CopiesSound
    /\ \A u \in Users : \A v \in userWatch[u] : userCache[u].rv <= v.rv
    /\ ujob # UserIdle =>
          /\ U!Sound(ujob.name, ujob.copy)
          /\ ujob.copy.rv <= userCache[ujob.name].rv
    /\ job.pc = "users" => \A x \in job.users : U!Sound(x[1], x[2])

\* Whatever copy the next run reads, it is of a RhpamUser being deleted.
Closing(u) ==
    /\ \A v \in {user[u], userCache[u]} \cup userWatch[u] : v.exists /\ v.deleting
    /\ ujob # UserIdle => ujob.copy.deleting

\* The accounts stay away: with the realm, or because no run makes any.  It
\* needs the RhpamUser to be the only one.
PurgedStays ==
    \A u \in Users : user[u].exists /\ user[u].phase = PhaseDeprovisioned =>
        \/ user[u].realm \notin realms
        \/ OnlyDefaults(user[u].realm) /\ Closing(u)

LeaveIInv == UserCopiesSound /\ PurgedStays

\* It also needs that no realm is made under an id a RhpamUser names: that no
\* token is drawn twice.
NoRealmAgain ==
    [][\A r \in realms' \ realms : \A u \in Users : user[u].realm # r]_realms

\* A RhpamDev that stays, in a namespace with a RhpamUser that stays, gets
\* installed: the two controllers do not wait for each other for ever.  Users
\* make no third write: an edit that meets one of the updates whose errors
\* are dropped may stop the installation.
Installs ==
    \A d \in Devs :
        <>[](/\ Present(d)
             /\ \E u \in Users : user[u].exists /\ ~user[u].deleting
             /\ writes <= 2)
            => <>[](dev[d].phase = PhaseComplete)

\* A RhpamDev deleted once its installation is under way does not stay, and
\* no resource stays without one, if nothing else writes it after that (an
\* instance with fewer edits than deletions and creations sees to it).  Its
\* realm has gone before it: FinalizerHolds.
Leaving(d) ==
    dev[d].deleting /\ (AtLeast(d, PhasePrepared) \/ dev[d].phase = PhaseDeprovisioned)

Deprovisions ==
    \A d \in Devs :
        /\ []<>~Leaving(d)
        /\ []<>(dev[d].exists \/ \A r \in Resources : ~Live(r))


\* The realm is what the specification says, and the defaults.
Matches(u) ==
    LET r == user[u].realm
        s == user[u].spec
    IN  /\ user[u].exists
        /\ RealmRoles(r) = SpecRoles[s] \cup ToSet(DefaultRoles)
        /\ RealmAccounts(r) = DOMAIN SpecUsers[s] \cup
               {DefaultUsers[i].username : i \in DOMAIN DefaultUsers}
        /\ \A a \in DOMAIN SpecUsers[s] : AccountRoles(r, a) = SpecUsers[s][a]

Attached(u) ==
    /\ user[u].exists /\ ~user[u].deleting
    /\ user[u].phase = PhaseReconcile
    /\ \E d \in Devs : Present(d) /\ dev[d].realm = user[u].realm

\* However its specification is edited while earlier runs are under way, the
\* realm of a RhpamUser that stays attached becomes what the last version
\* says, and stays so.
Converges == \A u \in Users : <>[]Attached(u) => <>[]Matches(u)

-----------------------------------------------------------------------------
(* What the comments of the code say of it.                                *)

\* rhpamdev/phaseHandler.go: "find rhpamuser objects in the current namespace
\* and set to deprovisioned".  Holds of them when the RhpamDev is gone.
UsersDetached ==
    [][\A d \in Devs, u \in Users :
          /\ dev[d].exists /\ ~dev'[d].exists
          /\ user[u].exists
          /\ user[u].realm = dev[d].realm /\ dev[d].realm # NoRealm
          => user[u].phase = PhaseDeprovisioned]_dev

\* rhpamdev/phaseHandler.go: "delete realm".  No realm made for a RhpamDev is
\* left when it is being deleted.
RealmsDeleted ==
    \A d \in Devs : dev[d].deleting ~> \A r \in realms : r[1] # d
=============================================================================
