------------------------------ MODULE RhpamUser ------------------------------
(***************************************************************************)
(* The RhpamUser controller: Reconcile and the phase handlers it calls.    *)
(*                                                                         *)
(* As in RhpamDev, one worker runs Reconcile for one key at a time and     *)
(* every remote call is a step.  The variable ujob is the run in progress. *)
(* The handlers compare lists (roles, users, role mappings) and call       *)
(* Keycloak for the differences in the random order of a Go map: plan is   *)
(* the set of differences not yet dealt with.                              *)
(***************************************************************************)
EXTENDS Cluster, SequencesExt

CONSTANTS
    DefaultRoles,   \* sequence of role names
    DefaultUsers,   \* sequence of [username, roles], roles a sequence
    SpecRoles,      \* [UserSpecs -> SUBSET RoleNames]
    SpecUsers       \* [UserSpecs -> a function from account names to roles]

VARIABLES
    ujob            \* the run of Reconcile in progress, or UserIdle

userCtlVars == <<devVars, userVars, resVars, budget, ssoVars, ujob>>

ASSUME DevsAssumption == IsFiniteSet(Devs)
ASSUME DefaultsAssumption ==
    /\ DefaultRoles \in Seq(RoleNames \ BuiltinRoles) /\ DefaultRoles # <<>>
    /\ DefaultUsers \in Seq([username: AccountNames, roles: Seq(RoleNames)])

ASSUME SpecsAssumption == \A s \in UserSpecs :
    /\ SpecRoles[s] \subseteq RoleNames
    /\ DOMAIN SpecUsers[s] \subseteq AccountNames
    /\ \A a \in DOMAIN SpecUsers[s] : SpecUsers[s][a] \subseteq RoleNames

isDefaultRole(r) == \E i \in DOMAIN DefaultRoles : DefaultRoles[i] = r
isDefaultUserNever(a) == FALSE
isDefaultUser(a) == \E i \in DOMAIN DefaultUsers : DefaultUsers[i].username = a

CreateRole(r) == [op |-> "createRole", role |-> r]
DeleteRole(r) == [op |-> "deleteRole", role |-> r]
CreateUserIn(a) == [op |-> "createUser", account |-> a]
DeleteUserIn(a) == [op |-> "deleteUser", account |-> a]
GrantSwapped(a, r) == [op |-> "grant", account |-> r, role |-> a]
Grant(a, r) == [op |-> "grant", account |-> a, role |-> r]
Revoke(a, r) == [op |-> "revoke", account |-> a, role |-> r]

\* What Accepted asks of the realm of a new RhpamDev, in the code's order:
\* the default roles first, then the default users one by one.
FillCalls(k) ==
    IF k = 0 THEN [i \in DOMAIN DefaultRoles |-> CreateRole(DefaultRoles[i])]
    ELSE LET x == DefaultUsers[k]
         IN  <<CreateUserIn(x.username)>> \o
             [i \in DOMAIN x.roles |-> Grant(x.username, x.roles[i])]

UserIdle == [pc |-> "idle"]
NoAccount == ""

UserJob ==
    [pc: {"devs", "fill", "handOff", "listRoles", "roles", "listUsers",
          "users", "purge", "purgeUsers", "listPurge", "purgeRoles", "fail",
          "save"},
     name: Users, copy: U!Object, to: StatusPhase, realm: Realms,
     devs: Seq(Devs \X D!Object), todo: Seq(Changes),
     filled: 0..Len(DefaultUsers), plan: SUBSET Changes,
     now: AccountNames \cup {NoAccount}]

UserCtlTypeOK ==
    /\ ClusterTypeOK
    /\ KeycloakTypeOK
    /\ ujob \in UserJob \cup {UserIdle}

-----------------------------------------------------------------------------
(* Reconcile takes a key, reads the object and picks the phase handler.    *)

TakeUser(u) ==
    /\ ujob = UserIdle
    /\ u \in userQueue
    /\ userQueue' = userQueue \ {u}
    /\ UNCHANGED <<devVars, user, userCache, userWatch, resVars, budget, ssoVars>>

StartUser(u, pc, to, realm, devs) ==
    /\ TakeUser(u)
    /\ ujob' = [pc |-> pc, name |-> u, copy |-> userCache[u], to |-> to,
                realm |-> realm, devs |-> devs, todo |-> <<>>,
                filled |-> 0, plan |-> {}, now |-> NoAccount]

\* Faulty: a RhpamUser being deleted is reconciled as any other.
UserInPhaseAlone(u, phase) == userCache[u].exists /\ userCache[u].phase = phase

UserInPhase(u, phase) ==
    /\ userCache[u].exists
    /\ ~userCache[u].deleting
    /\ userCache[u].phase = phase

InitializeUser(u) ==
    /\ UserInPhase(u, NoPhase)
    /\ StartUser(u, "save", PhaseAccepted, NoRealm, <<>>)

\* The RhpamDevs of the namespace, as the informer cache has them; those in
\* other phases are passed over.
ListedComplete == {d \in Devs : devCache[d].exists /\ devCache[d].phase = PhaseComplete}

Listed == {d \in Devs : /\ devCache[d].exists
                        /\ devCache[d].phase \in {PhaseComplete,
                                                  PhaseRealmProvisioned}}

Accepted(u) ==
    /\ UserInPhase(u, PhaseAccepted)
    /\ \E devs \in SetToSeqs({<<d, devCache[d]>> : d \in Listed}) :
          StartUser(u, IF devs = <<>> THEN "save" ELSE "devs",
                    PhaseAccepted, NoRealm, devs)

ReconcileUser(u) ==
    /\ UserInPhase(u, PhaseReconcile)
    /\ StartUser(u, "listRoles", PhaseReconcile, userCache[u].realm, <<>>)

\* A RhpamUser that is being deleted: first its accounts, then its finalizer.
\* Two ways to get it wrong: to leave out either.
DeprovisionUserAtOnce(u) ==
    /\ userCache[u].exists
    /\ userCache[u].deleting
    /\ StartUser(u, "save", PhaseComplete, userCache[u].realm, <<>>)


DeprovisionUser(u) ==
    /\ userCache[u].exists
    /\ userCache[u].deleting
    /\ IF userCache[u].phase = PhaseDeprovisioned
       THEN StartUser(u, "save", PhaseComplete, userCache[u].realm, <<>>)
       ELSE StartUser(u, "purge", PhaseDeprovisioned, userCache[u].realm, <<>>)

\* No object, or a phase Reconcile has no case for: the key is dropped.
DropUser(u) ==
    /\ \/ ~userCache[u].exists
       \/ UserInPhase(u, PhaseDeprovisioned)
    /\ TakeUser(u)
    /\ UNCHANGED ujob

-----------------------------------------------------------------------------
(* The ends of a run.                                                      *)

RequeueUser ==
    /\ ujob' = UserIdle
    /\ userQueue' = userQueue \cup {ujob.name}

GoOn(next) == ujob' = next /\ UNCHANGED userQueue

\* client.Update of the RhpamUser of this run.
PutUser(v, outcome) ==
    IF outcome # "failed" /\ U!Accepts(ujob.name, ujob.copy)
    THEN U!Update(ujob.name, v)
    ELSE UNCHANGED <<user, userWatch>>

\* What the handlers changed in their copy.
SavedUser ==
    [ujob.copy EXCEPT !.phase = ujob.to,
                      !.realm = IF ujob.realm = NoRealm THEN @ ELSE ujob.realm,
                      !.fin = IF ujob.to = PhaseAccepted THEN TRUE
                              ELSE IF ujob.to = PhaseComplete THEN FALSE ELSE @]

\* handleResult: the runs that ask not to be requeued are those that only
\* reconciled, and the one that drops the finalizer.
NoRequeue ==
    \/ ujob.to = PhaseReconcile /\ ujob.copy.phase = PhaseReconcile
    \/ ujob.to = PhaseComplete

SaveUser ==
    /\ ujob.pc = "save"
    /\ \E o \in Outcomes :
          /\ Suffer(o)
          /\ PutUser(SavedUser, o)
          /\ IF NoRequeue /\ o = "ok" /\ U!Accepts(ujob.name, ujob.copy)
             THEN GoOn(UserIdle) ELSE RequeueUser
    /\ UNCHANGED <<devVars, userCache, resVars, writes, ssoVars>>

\* Deprovision failed: the phase says so if the update gets through, the
\* error is returned in any case.
FailUser ==
    /\ ujob.pc = "fail"
    /\ \E o \in Outcomes :
          /\ Suffer(o)
          /\ PutUser([ujob.copy EXCEPT !.phase = PhaseDeprovisionFailed], o)
    /\ RequeueUser
    /\ UNCHANGED <<devVars, userCache, resVars, writes, ssoVars>>

\* Faulty: a Deprovision that failed goes on as one that did not.
AbortUnlessPurging ==
    IF ujob.to = PhaseDeprovisioned THEN GoOn([ujob EXCEPT !.pc = "save"])
    ELSE RequeueUser

\* A run whose call failed: Deprovision reports it, the others return it.
Abort ==
    IF ujob.to = PhaseDeprovisioned THEN GoOn([ujob EXCEPT !.pc = "fail"])
    ELSE RequeueUser

-----------------------------------------------------------------------------
(* The calls of Accepted.                                                  *)

\* Each listed RhpamDev in turn: of a complete one only the realm is taken,
\* one whose realm is new is filled and then moved on.
Following(devs) == IF devs = <<>> THEN "save" ELSE "devs"

NextDev ==
    /\ ujob.pc = "devs"
    /\ LET copy == Head(ujob.devs)[2]
       IN  IF copy.phase = PhaseComplete
           THEN GoOn([ujob EXCEPT !.pc = Following(Tail(ujob.devs)),
                                  !.to = PhaseReconcile,
                                  !.realm = copy.realm, !.devs = Tail(@)])
           ELSE GoOn([ujob EXCEPT !.pc = "fill", !.todo = FillCalls(0),
                                  !.to = PhaseReconcile,
                                  !.realm = copy.realm])
    /\ UNCHANGED <<devVars, user, userCache, userWatch, resVars, budget, ssoVars>>

\* A change asked of the realm of this run.
Ask(x, outcome) ==
    /\ Suffer(outcome)
    /\ IF outcome = "failed" \/ ~Answered(ujob.realm, x) THEN UNCHANGED ssoVars
       ELSE SsoChange(ujob.realm, x)

\* The same asked of the account of a name.  The error of a delete is
\* dropped; createUser takes a lookup that failed for an account that is not
\* there, and posts it although a longer name would have been found; the
\* answer of that post may be lost too.
Deal(x, next) ==
    \/ \E o \in Outcomes, y \in Resolved(ujob.realm, x) :
          /\ Ask(y, o)
          /\ IF x.op = "deleteUser" \/ (o = "ok" /\ Answered(ujob.realm, y))
             THEN GoOn(next) ELSE Abort
    \/ /\ x.op = "createUser"
       /\ x \notin Resolved(ujob.realm, x)
       /\ Suffer("failed")
       /\ SsoChange(ujob.realm, x)
       /\ GoOn(next) \/ Abort

Filling ==
    IF Len(ujob.todo) > 1 THEN [ujob EXCEPT !.todo = Tail(@)]
    ELSE IF ujob.filled < Len(DefaultUsers)
    THEN [ujob EXCEPT !.filled = @ + 1, !.todo = FillCalls(ujob.filled + 1)]
    ELSE [ujob EXCEPT !.pc = "handOff", !.filled = 0, !.todo = <<>>]

Fill ==
    /\ ujob.pc = "fill"
    /\ Deal(Head(ujob.todo), Filling)
    /\ UNCHANGED <<devVars, user, userCache, userWatch, resVars, writes>>

\* The update that moves the RhpamDev on is sent once; its error is dropped.
HandOver ==
    /\ ujob.pc = "handOff"
    /\ LET d == Head(ujob.devs)[1]
           copy == Head(ujob.devs)[2]
       IN  \E o \in Outcomes :
              /\ Suffer(o)
              /\ IF o # "failed" /\ D!Accepts(d, copy)
                 THEN D!Update(d, [copy EXCEPT !.phase = PhasePrepare])
                 ELSE UNCHANGED <<dev, devWatch>>
    /\ GoOn([ujob EXCEPT !.pc = Following(Tail(ujob.devs)), !.devs = Tail(@)])
    /\ UNCHANGED <<devCache, devQueue, user, userCache, userWatch, resVars,
                   writes, ssoVars>>

-----------------------------------------------------------------------------
(* The calls of Reconcile.                                                 *)

\* A list is answered if the realm is there.
List(next) ==
    \E o \in {"ok", "failed"} :
        /\ Suffer(o)
        /\ IF o = "ok" /\ ujob.realm \in realms THEN GoOn(next) ELSE Abort

RolesHere == InRealm(ujob.realm, roles)
GrantsHere(a) == {g[3] : g \in {h \in grants : h[1] = ujob.realm /\ h[2] = a}}

\* Roles of the specification that are missing, and roles that are neither
\* in it nor default roles.
RolePlan ==
    LET wanted == SpecRoles[ujob.copy.spec]
    IN  {CreateRole(r) : r \in wanted \ RolesHere} \cup
        {DeleteRole(r) : r \in {r \in RolesHere \ wanted : ~isDefaultRole(r)}}

\* The same for the listed accounts; the role mappings of an account in the
\* specification become the listed ones, default account or not.
UserPlanOnlyAdds(listed) ==
    LET wanted == SpecUsers[ujob.copy.spec]
        held(a) == IF a \in listed THEN GrantsHere(a) ELSE {}
    IN  {CreateUserIn(a) : a \in DOMAIN wanted \ listed} \cup
        UNION {{Grant(a, r) : r \in wanted[a] \ held(a)} : a \in DOMAIN wanted}

UserPlan(listed) ==
    LET wanted == SpecUsers[ujob.copy.spec]
        held(a) == IF a \in listed THEN GrantsHere(a) ELSE {}
        extra == {a \in listed \ DOMAIN wanted : ~isDefaultUser(a)}
    IN  {CreateUserIn(a) : a \in DOMAIN wanted \ listed} \cup
        {DeleteUserIn(a) : a \in extra} \cup
        UNION {{Grant(a, r) : r \in wanted[a] \ held(a)} \cup
               {Revoke(a, r) : r \in held(a) \ wanted[a]} : a \in DOMAIN wanted}

ListRoles ==
    /\ ujob.pc = "listRoles"
    /\ List([ujob EXCEPT !.pc = IF RolePlan = {} THEN "listUsers" ELSE "roles",
                         !.plan = RolePlan])
    /\ UNCHANGED <<devVars, user, userCache, userWatch, resVars, writes, ssoVars>>

ListUsersOfRealm ==
    /\ ujob.pc = "listUsers"
    /\ \E listed \in Pages(ujob.realm) :
          LET plan == UserPlan(listed)
          IN  List([ujob EXCEPT !.pc = IF plan = {} THEN "save" ELSE "users",
                                !.plan = plan, !.now = NoAccount])
    /\ UNCHANGED <<devVars, user, userCache, userWatch, resVars, writes, ssoVars>>

\* The differences of roles in any order.
ReconcileRole ==
    /\ ujob.pc = "roles"
    /\ \E x \in ujob.plan :
          Deal(x, [ujob EXCEPT !.pc = IF ujob.plan = {x} THEN "listUsers" ELSE @,
                               !.plan = @ \ {x}])
    /\ UNCHANGED <<devVars, user, userCache, userWatch, resVars, writes>>

\* Accounts in any order, one after the other, each created before its
\* mappings.
Ready(x) ==
    /\ \/ x.account = ujob.now
       \/ \A y \in ujob.plan : y.account # ujob.now
    /\ x.op = "grant" => CreateUserIn(x.account) \notin ujob.plan

ReconcileAccount ==
    /\ ujob.pc = "users"
    /\ \E x \in ujob.plan :
          /\ Ready(x)
          /\ Deal(x, [ujob EXCEPT !.pc = IF ujob.plan = {x} THEN "save" ELSE @,
                                  !.plan = @ \ {x}, !.now = x.account])
    /\ UNCHANGED <<devVars, user, userCache, userWatch, resVars, writes>>

-----------------------------------------------------------------------------
(* The calls of Deprovision: every account and role that is not a default, *)
(* each by its id.                                                         *)

Purge ==
    /\ ujob.pc = "purge"
    /\ \E listed \in Pages(ujob.realm) :
          LET found == {DeleteUserIn(a) : a \in {a \in listed : ~isDefaultUser(a)}}
          IN  List([ujob EXCEPT
                      !.pc = IF found = {} THEN "listPurge" ELSE "purgeUsers",
                      !.plan = found])
    /\ UNCHANGED <<devVars, user, userCache, userWatch, resVars, writes, ssoVars>>

\* The error of this list is dropped: no roles are deleted then.
ListPurge ==
    /\ ujob.pc = "listPurge"
    /\ \E o \in {"ok", "failed"} :
          LET found == {DeleteRole(r) : r \in {r \in RolesHere : ~isDefaultRole(r)}}
              plan == IF o = "ok" THEN found ELSE {}
          IN  /\ Suffer(o)
              /\ GoOn([ujob EXCEPT !.pc = IF plan = {} THEN "save" ELSE "purgeRoles",
                                   !.plan = plan])
    /\ UNCHANGED <<devVars, user, userCache, userWatch, resVars, writes, ssoVars>>

PurgeCall ==
    /\ ujob.pc \in {"purgeUsers", "purgeRoles"}
    /\ \E x \in ujob.plan, o \in Outcomes :
          /\ Ask(x, o)
          /\ IF o = "ok" /\ Answered(ujob.realm, x)
             THEN GoOn([ujob EXCEPT
                          !.pc = IF ujob.plan # {x} THEN @
                                 ELSE IF @ = "purgeUsers" THEN "listPurge"
                                 ELSE "save",
                          !.plan = @ \ {x}])
             ELSE Abort
    /\ UNCHANGED <<devVars, user, userCache, userWatch, resVars, writes>>

UserHandler(u) ==
    \/ InitializeUser(u) \/ Accepted(u) \/ ReconcileUser(u)
    \/ DeprovisionUser(u) \/ DropUser(u)

UserCall ==
    \/ NextDev \/ Fill \/ HandOver \/ ListRoles \/ ListUsersOfRealm
    \/ ReconcileRole \/ ReconcileAccount \/ Purge \/ ListPurge \/ PurgeCall
    \/ FailUser \/ SaveUser

UserController == UserCall \/ \E u \in Users : UserHandler(u)

-----------------------------------------------------------------------------
(* What a run of the controller knows.                                     *)

\* Of the RhpamDevs a run has listed it holds copies that the API server will
\* refuse if they are old, and those it fills and moves on had just been given
\* their realm.
SoundRun(j) ==
    /\ j.copy.exists
    /\ \A x \in ToSet(j.devs) :
          /\ D!Sound(x[1], x[2])
          /\ x[2].exists
          /\ x[2].phase \in {PhaseComplete, PhaseRealmProvisioned}
    /\ j.pc \in {"devs", "fill", "handOff"} => j.devs # <<>>
    /\ j.pc \in {"fill", "handOff"} =>
          Head(j.devs)[2].phase = PhaseRealmProvisioned
    /\ j.pc = "fill" => j.todo # <<>>
    /\ j.pc = "users" => j.plan \subseteq AccountChanges

UserRunSound == ujob # UserIdle => SoundRun(ujob)
=============================================================================
