------------------------------ MODULE RhpamDev ------------------------------
(***************************************************************************)
(* The RhpamDev controller: Reconcile and the phase handlers it calls.     *)
(*                                                                         *)
(* One worker runs Reconcile for one key at a time.  A run first reads the *)
(* object from the informer cache and then issues a sequence of calls to   *)
(* the API server and to Keycloak; each call is a step, so that everything *)
(* else may happen between two of them, and each may fail or lose its      *)
(* answer.  The variable job is the run in progress: what it read, the     *)
(* phase it will save, and the calls it still has to make.                 *)
(***************************************************************************)
EXTENDS Cluster

CONSTANTS
    MaxToken    \* bound: distinct tokens drawn for realm ids

VARIABLES
    job         \* the run of Reconcile in progress, or Idle

devCtlVars == <<devVars, userVars, resVars, budget, ssoVars, job>>

ASSUME MaxTokenAssumption == MaxToken \in Nat

\* The sequences of calls inside the phase handlers, in the code's order.
NoDirectClient == <<BusinessCentralClient, KieServerClient>>
ClientOrder == <<BusinessCentralClient, KieServerClient, KieServerDirectClient>>
OneSecretOnly == <<BusinessCentralRealmSecret>>
SecretOrder == <<BusinessCentralRealmSecret, KieServerRealmSecret>>
ClientOf(secret) == IF secret = BusinessCentralRealmSecret
                    THEN BusinessCentralClient ELSE KieServerClient

\* The resources created on the way to a phase.
Stage(phase) ==
    CASE phase = PhasePrepared -> <<ServiceAccount>>
      [] phase = PhaseDatabaseInstalled ->
            <<DatabaseCredentialsSecret, DatabaseInitConfigmap, DatabasePvc,
              DatabaseService, DatabaseDeployment>>
      [] phase = PhaseBusinessCentralInstalled ->
            <<BusinessCentralPvc, BusinessCentralService,
              BusinessCentralRoute, BusinessCentralDeployment>>
      [] phase = PhaseComplete ->
            <<KieServerService, KieServerRoute, KieServerDeployment>>
      [] OTHER -> <<>>

\* What the pods of a deployment take from other resources, as its template
\* says: they do not start without it.
DatabaseReferences ==
    {ServiceAccount, DatabaseCredentialsSecret, DatabaseInitConfigmap,
     DatabasePvc, DatabaseService}
BusinessCentralReferences ==
    {ServiceAccount, BusinessCentralRealmSecret, BusinessCentralPvc}
KieServerReferences ==
    {ServiceAccount, KieServerRealmSecret, DatabaseCredentialsSecret,
     DatabaseService, BusinessCentralService, KieServerService}

References(r) ==
    CASE r = DatabaseDeployment -> DatabaseReferences
      [] r = BusinessCentralDeployment -> BusinessCentralReferences
      [] r = KieServerDeployment -> KieServerReferences
      [] OTHER -> {}

\* Deprovision deletes by fixed names.  The object it builds for the service
\* of the KIE server carries the name of the Business Central service.
DeleteOrder ==
    <<BusinessCentralService, KieServerRoute, KieServerDeployment,
      BusinessCentralService, BusinessCentralRoute, BusinessCentralDeployment,
      BusinessCentralPvc, DatabaseService, DatabaseDeployment, DatabasePvc,
      DatabaseInitConfigmap, DatabaseCredentialsSecret, KieServerRealmSecret,
      BusinessCentralRealmSecret, ServiceAccount>>

\* createSecret and createConfigmap look through the informer cache,
\* createResource asks the API server.
LookedUpInCache == Typed \ {DatabaseDeployment}

Idle == [pc |-> "idle"]

\* What the calls of a run are about, and that some are left until it saves.
About(pc) ==
    IF pc \in {"mark", "realm", "clients"} THEN ClientIds
    ELSE IF pc = "secrets" THEN RealmSecrets ELSE Resources

JobRecords ==
    [pc: {"mark", "realm", "clients", "secrets", "create", "deleteRealm",
          "list", "users", "delete", "save"},
     name: Devs, copy: D!Object, to: StatusPhase, realm: Realms,
     todo: Seq(Resources \cup ClientIds), users: SUBSET (Users \X U!Object)]

Job == {j \in JobRecords :
           j.pc # "save" => j.todo \in Seq(About(j.pc)) /\ j.todo # <<>>}

DevTypeOK ==
    /\ ClusterTypeOK
    /\ KeycloakTypeOK
    /\ job \in Job \cup {Idle}

DevInit == ClusterInit /\ KeycloakInit /\ job = Idle

-----------------------------------------------------------------------------
(* Reconcile takes a key, reads the object and picks the phase handler.    *)

Take(d) ==
    /\ job = Idle
    /\ d \in devQueue
    /\ devQueue' = devQueue \ {d}
    /\ UNCHANGED <<dev, devCache, devWatch, userVars, resVars, budget, ssoVars>>

Start(d, pc, to, todo) ==
    /\ Take(d)
    /\ job' = [pc |-> pc, name |-> d, copy |-> devCache[d], to |-> to,
               realm |-> NoRealm, todo |-> todo, users |-> {}]

\* The guard of a handler; a faulty Reconcile would look at the phase alone.
InPhaseAlone(d, phase) ==
    /\ devCache[d].exists
    /\ devCache[d].phase = phase

InPhase(d, phase) ==
    /\ devCache[d].exists
    /\ ~devCache[d].deleting
    /\ devCache[d].phase = phase

InitializeDev(d) ==
    InPhase(d, NoPhase) /\ Start(d, "save", PhaseAccepted, <<>>)

ProvisionRealm(d) ==
    /\ InPhase(d, PhaseAccepted)
    /\ Start(d, "mark", PhaseRealmProvisioned, ClientOrder)

Prepare(d) ==
    /\ InPhase(d, PhasePrepare)
    /\ Start(d, "create", PhasePrepared, Stage(PhasePrepared))

InstallDatabase(d) ==
    /\ InPhase(d, PhasePrepared)
    /\ Start(d, "create", PhaseDatabaseInstalled, Stage(PhaseDatabaseInstalled))

InstallBusinessCentral(d) ==
    /\ InPhase(d, PhaseDatabaseInstalled)
    /\ Start(d, "create", PhaseBusinessCentralInstalled,
             Stage(PhaseBusinessCentralInstalled))

isDatabaseReady == DatabaseDeployment \in seen /\ dbReady

\* Until the cached deployment reports its replica the key is requeued.
WaitForDatabase(d) ==
    /\ InPhase(d, PhaseBusinessCentralInstalled)
    /\ \/ isDatabaseReady /\ Start(d, "save", PhaseDatabaseReady, <<>>)
       \/ /\ ~isDatabaseReady
          /\ job = Idle /\ d \in devQueue
          /\ UNCHANGED devCtlVars

InstallKieServer(d) ==
    /\ InPhase(d, PhaseDatabaseReady)
    /\ Start(d, "create", PhaseComplete, Stage(PhaseComplete))

DeprovisionDev(d) ==
    /\ devCache[d].exists
    /\ devCache[d].deleting
    /\ Start(d, "deleteRealm", PhaseDeprovisioned, DeleteOrder)

\* No object, or a phase Reconcile has no case for: the key is dropped.
DropDev(d) ==
    /\ \/ ~devCache[d].exists
       \/ \E p \in {PhaseRealmProvisioning, PhaseRealmProvisioned,
                    PhaseComplete} : InPhase(d, p)
    /\ Take(d)
    /\ UNCHANGED job

-----------------------------------------------------------------------------
(* The calls of a run.                                                     *)

\* An error ends the run; the key is requeued.
Requeue ==
    /\ job' = Idle
    /\ devQueue' = devQueue \cup {job.name}

\* The test of the error a call returns, for a call that is answered and
\* whose answer is good.  A faulty handler would drop the error.
ReturnsNilAlways(outcome, good) == TRUE
ReturnsNil(outcome, good) == outcome = "ok" /\ good

\* The next call of the same kind, or the first of the next kind.
Proceed(next) ==
    /\ job' = IF Len(job.todo) > 1
              THEN [job EXCEPT !.todo = Tail(@)]
              ELSE next
    /\ UNCHANGED devQueue

\* client.Update of the RhpamDev of this run, built from the copy it holds; a
\* faulty one would take over the stored resource version first.
PutForced(v, outcome) ==
    IF outcome # "failed" /\ dev[job.name].exists
    THEN D!Update(job.name, v)
    ELSE UNCHANGED <<dev, devWatch>>

Put(v, outcome) ==
    IF outcome # "failed" /\ D!Accepts(job.name, job.copy)
    THEN D!Update(job.name, v)
    ELSE UNCHANGED <<dev, devWatch>>

\* The first statement of ProvisionRealm; its error is dropped, and only an
\* answered update refreshes the copy.
Mark ==
    /\ job.pc = "mark"
    /\ LET marked == [job.copy EXCEPT !.phase = PhaseRealmProvisioning]
       IN  \E o \in Outcomes :
              /\ Suffer(o)
              /\ Put(marked, o)
              /\ job' = [job EXCEPT
                    !.pc = "realm",
                    !.copy = IF ReturnsNil(o, D!Accepts(job.name, job.copy))
                             THEN D!Result(job.name, marked) ELSE @]
    /\ UNCHANGED <<devCache, devQueue, userVars, resVars, writes, ssoVars>>

\* The realm id ends in a token seeded with the second it is drawn in: a
\* draw in the same second repeats the last token.
generateToken == {t \in {lastToken, lastToken + 1} : t \in 1..MaxToken}

RealmId(name, token) == <<name, token>>

CreateRealm ==
    /\ job.pc = "realm"
    /\ \E o \in Outcomes, t \in generateToken :
          LET r == RealmId(job.name, t)
          IN  /\ Suffer(o)
              /\ lastToken' = t
              /\ IF o = "failed"
                 THEN UNCHANGED <<realms, clients, roles, accounts, grants>>
                 ELSE SsoCreateRealm(r)
              /\ IF ReturnsNil(o, r \notin realms)
                 THEN /\ job' = [job EXCEPT !.pc = "clients", !.realm = r]
                      /\ UNCHANGED devQueue
                 ELSE Requeue
    /\ UNCHANGED <<dev, devCache, devWatch, userVars, resVars, writes>>

CreateClient ==
    /\ job.pc = "clients"
    /\ LET c == Head(job.todo)
           free == job.realm \in realms /\ <<job.realm, c>> \notin clients
       IN  \E o \in Outcomes :
              /\ Suffer(o)
              /\ IF o = "failed" THEN UNCHANGED ssoVars
                 ELSE SsoCreateClient(job.realm, c)
              /\ IF ReturnsNil(o, free)
                 THEN Proceed([job EXCEPT !.pc = "secrets",
                                          !.todo = SecretOrder])
                 ELSE Requeue
    /\ UNCHANGED <<dev, devCache, devWatch, userVars, resVars, writes>>

\* createSecret, createConfigmap and createResource: a resource that the
\* lookup finds is left as it is, whoever owns it; a create that meets an
\* existing resource fails.
FoundInCache(r) == r \in LookedUpInCache \cap seen

Create(r, realm, next) ==
    \/ FoundInCache(r) /\ Proceed(next) /\ UNCHANGED <<res, faults>>
    \/ /\ ~FoundInCache(r)
       /\ \E o \in Outcomes :
             /\ Suffer(o)
             /\ res' = IF o = "failed" \/ Live(r) THEN res
                       ELSE [res EXCEPT ![r] = [owner |-> job.name,
                                                uid |-> job.copy.uid,
                                                realm |-> realm]]
             /\ IF ReturnsNil(o, ~(Live(r) /\ r \in LookedUpInCache))
                THEN Proceed(next) ELSE Requeue

\* getClientSecret, which may fail, and createRealmSecret.
CreateRealmSecret ==
    /\ job.pc = "secrets"
    /\ LET r == Head(job.todo)
           done == [job EXCEPT !.pc = "save", !.todo = <<>>]
           found == <<job.realm, ClientOf(r)>> \in clients
       IN  \/ found /\ Create(r, job.realm, done)
           \/ /\ Suffer(IF found THEN "failed" ELSE "ok")
              /\ Requeue
              /\ UNCHANGED res
    /\ UNCHANGED <<dev, devCache, devWatch, userVars, seen, dbReady, writes, ssoVars>>

CreateResource ==
    /\ job.pc = "create"
    /\ Create(Head(job.todo), NoRealm, [job EXCEPT !.pc = "save", !.todo = <<>>])
    /\ UNCHANGED <<dev, devCache, devWatch, userVars, seen, dbReady, writes, ssoVars>>

DeleteRealm ==
    /\ job.pc = "deleteRealm"
    /\ \E o \in Outcomes :
          /\ Suffer(o)
          /\ IF o = "failed" THEN UNCHANGED ssoVars
             ELSE SsoDeleteRealm(job.copy.realm)
          /\ IF ReturnsNil(o, job.copy.realm \in realms)
             THEN job' = [job EXCEPT !.pc = "list"] /\ UNCHANGED devQueue
             ELSE Requeue
    /\ UNCHANGED <<dev, devCache, devWatch, userVars, resVars, writes>>

\* The RhpamUsers of the same realm, as the informer cache has them.
ListUsers ==
    /\ job.pc = "list"
    /\ LET found == {u \in Users : /\ userCache[u].exists
                                   /\ userCache[u].realm = job.copy.realm}
       IN  job' = [job EXCEPT
                     !.pc = IF found = {} THEN "delete" ELSE "users",
                     !.users = {<<u, userCache[u]>> : u \in found}]
    /\ UNCHANGED <<devVars, userVars, resVars, budget, ssoVars>>

\* Each update is sent once; its error is dropped.
DetachUser ==
    /\ job.pc = "users"
    /\ \E x \in job.users, o \in Outcomes :
          /\ Suffer(o)
          /\ IF o # "failed" /\ U!Accepts(x[1], x[2])
             THEN U!Update(x[1], [x[2] EXCEPT !.phase = PhaseDeprovisioned])
             ELSE UNCHANGED <<user, userWatch>>
          /\ job' = [job EXCEPT
                       !.pc = IF job.users = {x} THEN "delete" ELSE @,
                       !.users = @ \ {x}]
    /\ UNCHANGED <<devVars, userCache, userQueue, resVars, writes, ssoVars>>

\* Errors of the deletes are dropped as well.
DeleteResource ==
    /\ job.pc = "delete"
    /\ \E o \in Outcomes :
          /\ Suffer(o)
          /\ res' = IF o = "failed" THEN res
                    ELSE [res EXCEPT ![Head(job.todo)] = NoResource]
    /\ Proceed([job EXCEPT !.pc = "save", !.todo = <<>>])
    /\ UNCHANGED <<dev, devCache, devWatch, userVars, seen, dbReady, writes, ssoVars>>

\* What the handler changed in its copy, and two ways to get it wrong: to
\* overwrite the realm in every phase, to keep the finalizer.
SavedWithRealm ==
    [job.copy EXCEPT !.phase = job.to, !.realm = job.realm,
                     !.fin = job.to # PhaseDeprovisioned]

SavedWithFinalizer ==
    [job.copy EXCEPT
        !.phase = job.to,
        !.realm = IF job.to = PhaseRealmProvisioned THEN job.realm ELSE @,
        !.fin = TRUE]

Saved ==
    [job.copy EXCEPT
        !.phase = job.to,
        !.realm = IF job.to = PhaseRealmProvisioned THEN job.realm ELSE @,
        !.fin = IF job.to = PhaseAccepted THEN TRUE
                ELSE IF job.to = PhaseDeprovisioned THEN FALSE ELSE @]

\* handleResult: whatever the update returns, the key is requeued.
Save ==
    /\ job.pc = "save"
    /\ \E o \in Outcomes : Suffer(o) /\ Put(Saved, o)
    /\ Requeue
    /\ UNCHANGED <<devCache, userVars, resVars, writes, ssoVars>>

DevHandler(d) ==
    \/ InitializeDev(d) \/ ProvisionRealm(d) \/ Prepare(d)
    \/ InstallDatabase(d) \/ InstallBusinessCentral(d) \/ WaitForDatabase(d)
    \/ InstallKieServer(d) \/ DeprovisionDev(d) \/ DropDev(d)

DevCall ==
    \/ Mark \/ CreateRealm \/ CreateClient \/ CreateRealmSecret
    \/ CreateResource \/ DeleteRealm \/ ListUsers \/ DetachUser
    \/ DeleteResource \/ Save

DevController == DevCall \/ \E d \in Devs : DevHandler(d)

-----------------------------------------------------------------------------
(* Properties.                                                             *)

\* The same object before and after a step.
SameDev(d) == dev[d].exists /\ dev'[d].exists /\ dev[d].uid = dev'[d].uid

Present(d) == dev[d].exists /\ ~dev[d].deleting

\* The phases in the order an installation goes through them.
PhaseRank ==
    <<NoPhase, PhaseAccepted, PhaseRealmProvisioning, PhaseRealmProvisioned,
      PhasePrepare, PhasePrepared, PhaseDatabaseInstalled,
      PhaseBusinessCentralInstalled, PhaseDatabaseReady, PhaseComplete>>

Rank(phase) == CHOOSE i \in 1..Len(PhaseRank) : PhaseRank[i] = phase

AtLeast(d, phase) ==
    /\ dev[d].exists
    /\ \E i \in Rank(phase)..Len(PhaseRank) : dev[d].phase = PhaseRank[i]

\* The only moves of a stored phase; the user controller makes the one to
\* PhasePrepare.
Advance ==
    {<<PhaseRank[i], PhaseRank[i + 1]>> : i \in 1..(Len(PhaseRank) - 1)}
        \cup {<<PhaseAccepted, PhaseRealmProvisioned>>}

\* Whatever the caches held, however runs were interrupted and whoever wrote
\* in between: the stored phase of a RhpamDev goes through the installation
\* in order, never back and never past a stage.
PhaseOrder ==
    [][\A d \in Devs : SameDev(d) =>
          \/ dev'[d].phase = dev[d].phase
          \/ <<dev[d].phase, dev'[d].phase>> \in Advance]_dev

\* The realm a RhpamDev was given is its realm for life: a second run of
\* ProvisionRealm from a stale copy creates a realm but never installs it.
RealmStable ==
    [][\A d \in Devs : SameDev(d) /\ dev[d].realm # NoRealm =>
          dev'[d].realm = dev[d].realm]_dev

\* A realm with the three clients the deployments log in with.
Served(r) == r \in realms /\ \A c \in ClientIds : <<r, c>> \in clients

\* From PhaseRealmProvisioned until its deletion a RhpamDev names a realm
\* that Keycloak has and that has its clients.
RealmServes ==
    \A d \in Devs :
        AtLeast(d, PhaseRealmProvisioned) /\ Present(d) => Served(dev[d].realm)

\* A phase promises the resources of the stages before it, owned by the
\* RhpamDev: neither a skipped lookup nor a delete of another run loses one.
StagesComplete ==
    \A d \in Devs : Present(d) =>
        /\ AtLeast(d, PhaseRealmProvisioned) =>
              \A r \in RealmSecrets : OwnedBy(r, d)
        /\ \A p \in {PhasePrepared, PhaseDatabaseInstalled,
                      PhaseBusinessCentralInstalled, PhaseComplete} :
              AtLeast(d, p) => \A i \in DOMAIN Stage(p) : OwnedBy(Stage(p)[i], d)

\* A deployment exists only with all that its pods refer to, whatever part of
\* the installation has been made and whichever of its runs made it.
ReferencesResolve ==
    \A d \in Devs, r \in Resources :
        Present(d) /\ OwnedBy(r, d) => \A x \in References(r) : OwnedBy(x, d)

\* The finalizer holds a RhpamDev until its realm is deleted.
FinalizerHolds ==
    [][\A d \in Devs :
          dev[d].exists /\ dev[d].fin /\ ~dev'[d].exists =>
              dev[d].realm \notin realms /\ dev[d].realm # NoRealm]_dev

\* Nothing removes a resource from under a RhpamDev that is not being
\* deleted, not even a late Deprovision of an earlier object of its name.
OwnedResourcesStay ==
    [][\A d \in Devs, r \in Resources :
          OwnedBy(r, d) /\ ~dev[d].deleting => Live(r)']_<<res, dev>>

-----------------------------------------------------------------------------
(* Why PhaseOrder and RealmStable hold: an inductive invariant.            *)

\* Where the runs other than that of ProvisionRealm take a RhpamDev.
RunMoves ==
    {<<NoPhase, PhaseAccepted>>, <<PhasePrepare, PhasePrepared>>,
     <<PhasePrepared, PhaseDatabaseInstalled>>,
     <<PhaseDatabaseInstalled, PhaseBusinessCentralInstalled>>,
     <<PhaseBusinessCentralInstalled, PhaseDatabaseReady>>,
     <<PhaseDatabaseReady, PhaseComplete>>}

\* The phase a run will save follows from the copy it read, and the copy is
\* the stored object unless the API server will refuse it.
RunSound ==
    job # Idle =>
        /\ D!Sound(job.name, job.copy)
        /\ \/ job.to = PhaseDeprovisioned /\ job.copy.deleting
           \/ /\ job.to = PhaseRealmProvisioned
              /\ job.copy.phase \in {PhaseAccepted, PhaseRealmProvisioning}
           \/ <<job.copy.phase, job.to>> \in RunMoves
        /\ job.copy.exists
        /\ job.pc = "mark" => /\ job.to = PhaseRealmProvisioned
                              /\ job.copy.phase = PhaseAccepted
                              /\ ~job.copy.deleting

\* Until its realm is provisioned a RhpamDev names none.
RealmUnset(v) ==
    v.phase \in {NoPhase, PhaseAccepted, PhaseRealmProvisioning} =>
        v.realm = NoRealm

\* Between a read and the write it leads to anything may have happened, but
\* nothing that the resource version does not tell.
DevIInv ==
    /\ DevTypeOK
    /\ D!CopiesSound
    /\ RunSound
    /\ \A d \in Devs : RealmUnset(dev[d])

-----------------------------------------------------------------------------
(* Why RealmServes and FinalizerHolds hold: an inductive invariant.        *)

\* What a copy v of the RhpamDev d, however old, tells of the stored object.
Faithful(d, v) ==
    /\ v.uid <= v.rv
    /\ v.realm # NoRealm => v.realm[1] = d
    /\ dev[d].exists /\ v.rv >= dev[d].uid => v.exists /\ v.uid = dev[d].uid
    /\ dev[d].exists /\ v.exists /\ v.uid = dev[d].uid /\ v.deleting
          => dev[d].deleting

CopiesFaithful ==
    \A d \in Devs :
        /\ Faithful(d, dev[d])
        /\ Faithful(d, devCache[d])
        /\ \A v \in devWatch[d] : Faithful(d, v) /\ devCache[d].rv <= v.rv

\* The cache has a version of the stored object, not of an earlier one.
Known(d) == devCache[d].exists /\ devCache[d].uid = dev[d].uid

\* A stored RhpamDev with a realm has been seen by the informer since it was
\* created, and until its deletion its realm serves.
RealmKept(d) ==
    /\ dev[d].deleting => dev[d].fin
    /\ dev[d].exists /\ ~dev[d].fin => dev[d].phase = NoPhase
    /\ dev[d].realm = NoRealm =>
          dev[d].phase \in {NoPhase, PhaseAccepted, PhaseRealmProvisioning}
    /\ dev[d].exists /\ dev[d].realm # NoRealm => Known(d)
    /\ Present(d) /\ dev[d].realm # NoRealm => Served(dev[d].realm)

\* A run of ProvisionRealm has made what its realm needs but for the clients
\* still to do.
Provisioning ==
    \/ job.pc \in {"mark", "realm"} /\ job.todo = ClientOrder
    \/ /\ job.pc \in {"clients", "secrets", "save"}
       /\ job.realm \in realms /\ job.realm[1] = job.name
       /\ \A c \in ClientIds :
             \/ <<job.realm, c>> \in clients
             \/ job.pc = "clients" /\ \E i \in DOMAIN job.todo : job.todo[i] = c

\* A run of Deprovision takes no realm that a present RhpamDev names, and
\* goes on only without the realm of its copy.
Deprovisioning ==
    /\ ~(Present(job.name) /\ dev[job.name].realm # NoRealm)
    /\ \/ job.pc = "deleteRealm"
       \/ /\ job.pc \in {"list", "users", "delete", "save"}
          /\ job.copy.realm \in RealmIds \ realms

RunKeepsRealm ==
    job # Idle =>
        /\ Faithful(job.name, job.copy)
        /\ dev[job.name].exists /\ job.copy.uid = dev[job.name].uid
              => Known(job.name)
        /\ job.copy.deleting <=> job.to = PhaseDeprovisioned
        /\ IF job.to = PhaseRealmProvisioned THEN Provisioning
           ELSE IF job.to = PhaseDeprovisioned THEN Deprovisioning
           ELSE job.pc \in {"create", "save"}

\* A stale run of Deprovision could take the realm of an object created anew
\* under its name; it cannot, because that object was given its realm by a run
\* that knew it, and the cache never goes back.
RealmIInv ==
    /\ DevIInv
    /\ CopiesFaithful
    /\ RunKeepsRealm
    /\ \A d \in Devs : RealmKept(d)

-----------------------------------------------------------------------------
(* Why the resources stay and the stages are complete: an inductive        *)
(* invariant.                                                              *)

\* What a copy v of the RhpamDev d tells of its finalizer: it came with the
\* first phase, and it keeps the object until the realm is gone.
Holds(d, v) ==
    /\ v.deleting => v.fin
    /\ v.exists /\ v.phase # NoPhase => v.fin
    /\ dev[d].exists /\ v.exists /\ v.uid = dev[d].uid /\ v.fin => dev[d].fin
    /\ v.exists /\ v.fin /\ (~v.deleting \/ v.realm \in realms) =>
          dev[d].exists /\ v.uid = dev[d].uid

\* So a run of Deprovision that has deleted a realm deletes the resources of
\* an object that is there, and being deleted, until the run ends.
HoldersLive ==
    /\ \A d \in Devs : /\ Holds(d, devCache[d])
                       /\ \A v \in devWatch[d] : Holds(d, v)
    /\ job # Idle => Holds(job.name, job.copy)
    /\ job # Idle /\ job.to = PhaseDeprovisioned =>
          /\ job.copy.rv <= devCache[job.name].rv
          /\ job.pc # "deleteRealm" =>
                dev[job.name].exists /\ job.copy.uid = dev[job.name].uid

\* The resources made on the way to a phase, and those made up to it.
Makes(phase) ==
    IF phase = PhaseRealmProvisioned THEN SecretOrder ELSE Stage(phase)

MadeUpTo ==
    [i \in DOMAIN PhaseRank |->
        UNION {{Makes(PhaseRank[j])[k] : k \in DOMAIN Makes(PhaseRank[j])} : j \in 1..i}]

Promised(phase) ==
    UNION {MadeUpTo[i] : i \in {i \in DOMAIN PhaseRank : PhaseRank[i] = phase}}

\* What any copy v of a present RhpamDev d promises is there.
Kept(d, v) ==
    Present(d) /\ v.exists /\ v.uid = dev[d].uid =>
        \A r \in Promised(v.phase) : Live(r)

\* In a namespace with one RhpamDev at a time: whatever there is, is its own,
\* the cache knows of nothing else, and no pod waits for what is not there.
NamespaceKept ==
    \A d \in Devs :
        /\ dev[d].exists => /\ \A e \in Devs : dev[e].exists => e = d
                            /\ \A r \in Resources : Live(r) => OwnedBy(r, d)
        /\ Kept(d, dev[d]) /\ Kept(d, devCache[d])
        /\ \A v \in devWatch[d] : Kept(d, v)
        /\ Present(d) =>
              /\ \A r \in seen : Live(r)
              /\ \A r \in Resources : Live(r) =>
                    \A x \in References(r) : Live(x)

\* The calls that a run has left are the last of its stage; what the calls
\* before them make is there.
Made == Len(Makes(job.to)) - Len(job.todo)

RunMakes ==
    job # Idle /\ job.to # PhaseDeprovisioned =>
        /\ Kept(job.name, job.copy)
        /\ job.pc = "save" => job.todo = <<>>
        /\ job.pc \in {"secrets", "create", "save"} =>
              /\ Made >= 0
              /\ \A i \in DOMAIN job.todo :
                    job.todo[i] = Makes(job.to)[Made + i]
              /\ Present(job.name) =>
                    \A i \in 1..Made : Live(Makes(job.to)[i])

\* Nothing but a later Deprovision takes what a run relies on having made.
ResourceIInv ==
    /\ RealmIInv
    /\ HoldersLive
    /\ Tidy => NamespaceKept /\ RunMakes

-----------------------------------------------------------------------------
(* What the comments of the code say of it.                                *)

\* rhpamdev/phaseHandler.go: "create secret with realm details".  The secrets
\* the deployments mount describe the realm of the status.
SecretsMatchRealm ==
    \A d \in Devs : \A r \in RealmSecrets :
        AtLeast(d, PhaseRealmProvisioned) /\ Present(d) /\ OwnedBy(r, d)
            => res[r].realm = dev[d].realm

\* rhpamdev/phaseHandler.go: "Set the CR as the owner of this resource so
\* that when the CR is deleted this resource also gets removed".  So it is of
\* every resource of a complete installation.
ResourcesOwned ==
    \A d \in Devs : Present(d) /\ dev[d].phase = PhaseComplete =>
        \A r \in Resources : Live(r) => OwnedBy(r, d)

\* rhpamdev_controller.go: "The Controller will requeue the Request to be
\* processed again if the returned error is non-nil".  A provisioning that
\* failed is processed again.
ProvisioningRetried ==
    \A d \in Devs :
        Present(d) /\ dev[d].phase = PhaseRealmProvisioning ~>
            ~Present(d) \/ dev[d].phase # PhaseRealmProvisioning
=============================================================================
