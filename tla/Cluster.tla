------------------------------- MODULE Cluster -------------------------------
(***************************************************************************)
(* The Kubernetes side of the operator: the RhpamDev and RhpamUser custom  *)
(* resources, the resources an installation owns, their garbage collector, *)
(* the informer of the typed resources the operator reads, and the budget  *)
(* of faults an instance may suffer.                                       *)
(*                                                                         *)
(* Only objects of the operator's own namespace appear: Reconcile of both  *)
(* controllers returns at once for any other.                              *)
(***************************************************************************)
EXTENDS Naturals, Sequences, Keycloak

CONSTANTS
    Users,      \* names of RhpamUser objects
    NoRealm,    \* the empty realm name
    UserSpecs,  \* the role and user lists a RhpamUser may carry
    NoSpec,     \* the specification of an absent object
    NoResource, \* marks a resource that does not exist
    MaxWrites,  \* bound: creates, edits and deletes by users
    MaxFaults,  \* bound: failed calls, lost answers, crashes, outages
    MaxEvents,  \* bound: such writes and faults together
    Resyncs,    \* TRUE: the informers replay their objects now and then
    Tidy        \* TRUE: a RhpamDev is only created in a clean namespace

VARIABLES
    dev, devCache, devWatch, devQueue,      \* RhpamDev objects
    user, userCache, userWatch, userQueue,  \* RhpamUser objects
    res,        \* [Resources -> owner and realm, or NoResource]
    seen,       \* typed resources in the informer cache
    dbReady,    \* what the cached database deployment reports
    writes,     \* creates, edits and deletes by users so far
    faults      \* faults suffered so far

devVars  == <<dev, devCache, devWatch, devQueue>>
userVars == <<user, userCache, userWatch, userQueue>>
resVars  == <<res, seen, dbReady>>
budget   == <<writes, faults>>

-----------------------------------------------------------------------------
(* Status phases.                                                          *)

NoPhase == ""
PhaseAccepted == "accepted"
PhaseRealmProvisioning == "realm provisioning"
PhaseRealmProvisioned == "realm provisioned"
PhasePrepare == "prepare provisioning"
PhasePrepared == "prepared"
PhaseDatabaseInstalled == "database installed"
PhaseBusinessCentralInstalled == "business central installed"
PhaseDatabaseReady == "database ready"
PhaseReconcile == "reconcile"
PhaseComplete == "complete"
PhaseDeprovisioned == "deprovisioned"
PhaseDeprovisionFailed == "deprovision failed"

StatusPhase ==
    {NoPhase, PhaseAccepted, PhaseRealmProvisioning, PhaseRealmProvisioned,
     PhasePrepare, PhasePrepared, PhaseDatabaseInstalled,
     PhaseBusinessCentralInstalled, PhaseDatabaseReady, PhaseReconcile,
     PhaseComplete, PhaseDeprovisioned, PhaseDeprovisionFailed}

\* What a status may name as its realm.
Realms == RealmIds \cup {NoRealm}

(* The resources of an installation, by kind and name.                     *)
BusinessCentralRealmSecret == "Secret rhpam-bc-sso"
KieServerRealmSecret == "Secret rhpam-ks-sso"
ServiceAccount == "ServiceAccount rhpam"
DatabaseCredentialsSecret == "Secret rhpam-postgresql"
DatabaseInitConfigmap == "ConfigMap rhpam-postgresql-init"
DatabasePvc == "PersistentVolumeClaim rhpam-postgresql"
DatabaseService == "Service rhpam-postgresql"
DatabaseDeployment == "DeploymentConfig rhpam-postgresql"
BusinessCentralPvc == "PersistentVolumeClaim rhpam-bc"
BusinessCentralService == "Service rhpam-bc"
BusinessCentralRoute == "Route rhpam-bc"
BusinessCentralDeployment == "DeploymentConfig rhpam-bc"
KieServerService == "Service rhpam-kieserver"
KieServerRoute == "Route rhpam-kieserver"
KieServerDeployment == "DeploymentConfig rhpam-kieserver"

RealmSecrets == {BusinessCentralRealmSecret, KieServerRealmSecret}

Resources ==
    RealmSecrets \cup
    {ServiceAccount, DatabaseCredentialsSecret, DatabaseInitConfigmap,
     DatabasePvc, DatabaseService, DatabaseDeployment, BusinessCentralPvc,
     BusinessCentralService, BusinessCentralRoute, BusinessCentralDeployment,
     KieServerService, KieServerRoute, KieServerDeployment}

\* Read through the informer cache; the others are unstructured objects,
\* which the delegating client reads from the API server.
TypedKinds == {RealmSecrets \cup {DatabaseCredentialsSecret},
               {DatabaseInitConfigmap}, {DatabaseDeployment}}
Typed == UNION TypedKinds

\* A resource carries its controller reference and, for a realm secret, the
\* realm it describes.
Held == [owner: Devs, uid: Nat, realm: Realms]

ASSUME NoRealmAssumption == NoRealm \notin RealmIds
ASSUME NoResourceAssumption == NoResource \notin Held
ASSUME BoundsAssumption ==
    /\ MaxWrites \in Nat /\ MaxFaults \in Nat /\ MaxEvents \in Nat
    /\ Tidy \in BOOLEAN /\ Resyncs \in BOOLEAN

D == INSTANCE ApiObjects WITH
        Names <- Devs, obj <- dev, cache <- devCache, watch <- devWatch,
        queue <- devQueue, Specs <- {NoSpec}
U == INSTANCE ApiObjects WITH
        Names <- Users, obj <- user, cache <- userCache, watch <- userWatch,
        queue <- userQueue, Specs <- UserSpecs

ClusterTypeOK ==
    /\ D!TypeOK
    /\ U!TypeOK
    /\ res \in [Resources -> Held \cup {NoResource}]
    /\ seen \in SUBSET Typed
    /\ dbReady \in BOOLEAN
    /\ writes \in 0..MaxWrites
    /\ faults \in 0..MaxFaults

ClusterInit ==
    /\ D!Init
    /\ U!Init
    /\ res = [r \in Resources |-> NoResource]
    /\ seen = {}
    /\ dbReady = FALSE
    /\ writes = 0
    /\ faults = 0

-----------------------------------------------------------------------------
(* Calls over the network.  A call is answered ("ok"), fails without       *)
(* effect ("failed"), or takes effect while its answer is lost ("lost").   *)

Outcomes == {"ok", "failed", "lost"}

Eventful == writes + faults < MaxEvents

Suffer(outcome) ==
    IF outcome = "ok" THEN UNCHANGED faults
    ELSE Eventful /\ faults < MaxFaults /\ faults' = faults + 1

Live(r) == res[r] # NoResource

\* The resource r belongs to the RhpamDev object that d names now.
OwnedBy(r, d) ==
    Live(r) /\ res[r].owner = d /\ dev[d].exists /\ res[r].uid = dev[d].uid

-----------------------------------------------------------------------------
(* Users of the cluster.                                                   *)

Write == Eventful /\ writes < MaxWrites /\ writes' = writes + 1

CreateDev(d) ==
    /\ Tidy => seen = {} /\ \A r \in Resources : ~Live(r)
    /\ Tidy => \A e \in Devs : ~dev[e].exists
    /\ D!UserCreate(d) /\ Write
    /\ UNCHANGED <<userVars, resVars, faults>>

EditDev(d) == D!UserEdit(d) /\ Write /\ UNCHANGED <<userVars, resVars, faults>>

DeleteDev(d) == D!UserDelete(d) /\ Write /\ UNCHANGED <<userVars, resVars, faults>>

CreateUser(u) == U!UserCreate(u) /\ Write /\ UNCHANGED <<devVars, resVars, faults>>
EditUser(u) == U!UserEdit(u) /\ Write /\ UNCHANGED <<devVars, resVars, faults>>
DeleteUser(u) == U!UserDelete(u) /\ Write /\ UNCHANGED <<devVars, resVars, faults>>

(* The informers.                                                          *)

DeliverDev(d) == D!Deliver(d) /\ UNCHANGED <<userVars, resVars, budget>>
ResyncDev(d) == Resyncs /\ D!Resync(d) /\ UNCHANGED <<userVars, resVars, budget>>
DeliverUser(u) == U!Deliver(u) /\ UNCHANGED <<devVars, resVars, budget>>
ResyncUser(u) == Resyncs /\ U!Resync(u) /\ UNCHANGED <<devVars, resVars, budget>>

\* Each kind of resource has an informer and a watch of its own: any of them
\* may lag behind the others.
SyncResources ==
    /\ \E kinds \in SUBSET TypedKinds :
          LET news == UNION kinds
          IN  seen' = (seen \ news) \cup {r \in news : Live(r)}
    /\ seen' # seen
    /\ dbReady' = (dbReady /\ DatabaseDeployment \in seen')
    /\ UNCHANGED <<devVars, userVars, res, budget>>

(* The database pod becomes ready, and may fail later.                     *)

DatabaseUp ==
    /\ ~dbReady
    /\ DatabaseDeployment \in seen /\ Live(DatabaseDeployment)
    /\ dbReady' = TRUE
    /\ UNCHANGED <<devVars, userVars, res, seen, budget>>

DatabaseDown ==
    /\ dbReady
    /\ dbReady' = FALSE
    /\ Suffer("failed")
    /\ UNCHANGED <<devVars, userVars, res, seen, writes>>

(* Garbage collection of a resource whose owner is gone.                   *)
Collect(r) ==
    /\ Live(r)
    /\ ~OwnedBy(r, res[r].owner)
    /\ res' = [res EXCEPT ![r] = NoResource]
    /\ UNCHANGED <<devVars, userVars, seen, dbReady, budget>>

(* A crash of the operator: its caches and queues are rebuilt.             *)
RestartCluster ==
    /\ Suffer("failed")
    /\ D!Relist
    /\ U!Relist
    /\ seen' = {r \in Typed : Live(r)}
    /\ dbReady' = (dbReady /\ Live(DatabaseDeployment))
    /\ UNCHANGED <<res, writes>>
=============================================================================
