--------------------------- MODULE RhpamDevProofs ---------------------------
(***************************************************************************)
(* Type correctness of the steps of the RhpamDev controller and of its     *)
(* cluster, for any instance: the lemmas the theorems about DevAlone cite. *)
(***************************************************************************)
EXTENDS RhpamDev, TLAPS

-----------------------------------------------------------------------------
(* Custom resources of either kind.                                        *)

\* What an accepted update of a RhpamDev leaves behind is an object.
LEMMA DevResultType ==
    ASSUME D!TypeOK, NEW d \in Devs, NEW v \in D!Object
    PROVE  D!Result(d, v) \in D!Object
<1>1. dev[d].rv + 1 \in Nat
  BY DEF D!TypeOK, D!Object
<1>2. D!Absent(dev[d].rv + 1) \in D!Object
  BY <1>1 DEF D!Absent, D!Object, Realms, StatusPhase
<1>3. [v EXCEPT !.rv = dev[d].rv + 1] \in D!Object
  BY <1>1 DEF D!Object
<1>. QED  BY <1>2, <1>3 DEF D!Result

\* So an accepted update keeps the store and the watch typed.
LEMMA DevUpdateType ==
    ASSUME D!TypeOK, NEW d \in Devs, NEW v \in D!Object, D!Update(d, v)
    PROVE  dev' \in [Devs -> D!Object] /\ devWatch' \in [Devs -> SUBSET D!Object]
BY DevResultType DEF D!TypeOK, D!Update, D!Store

\* The same for RhpamUsers.
LEMMA UserResultType ==
    ASSUME U!TypeOK, NEW u \in Users, NEW v \in U!Object
    PROVE  U!Result(u, v) \in U!Object
<1>1. user[u].rv + 1 \in Nat
  BY DEF U!TypeOK, U!Object
<1>2. U!Absent(user[u].rv + 1) \in U!Object
  BY <1>1 DEF U!Absent, U!Object, Realms, StatusPhase
<1>3. [v EXCEPT !.rv = user[u].rv + 1] \in U!Object
  BY <1>1 DEF U!Object
<1>. QED  BY <1>2, <1>3 DEF U!Result

\* An accepted update of a RhpamUser keeps its store and watch typed.
LEMMA UserUpdateType ==
    ASSUME U!TypeOK, NEW u \in Users, NEW v \in U!Object, U!Update(u, v)
    PROVE  user' \in [Users -> U!Object] /\ userWatch' \in [Users -> SUBSET U!Object]
BY UserResultType DEF U!TypeOK, U!Update, U!Store

-----------------------------------------------------------------------------
(* Type correctness of the controller's steps.                             *)

\* The lists of calls in the handlers are about clients, realm secrets and
\* resources, and none of those a run starts with is empty.
LEMMA CallSequences ==
    /\ ClientOrder \in Seq(ClientIds) /\ ClientOrder # <<>>
    /\ SecretOrder \in Seq(RealmSecrets) /\ SecretOrder # <<>>
    /\ DeleteOrder \in Seq(Resources) /\ DeleteOrder # <<>>
    /\ \A p \in {PhasePrepared, PhaseDatabaseInstalled,
                 PhaseBusinessCentralInstalled, PhaseComplete} :
          Stage(p) \in Seq(Resources) /\ Stage(p) # <<>>
<1>1. ClientOrder \in Seq(ClientIds) /\ ClientOrder # <<>>
  BY DEF ClientOrder, ClientIds
<1>2. SecretOrder \in Seq(RealmSecrets) /\ SecretOrder # <<>>
  BY DEF SecretOrder, RealmSecrets
<1>3. DeleteOrder \in Seq(Resources) /\ DeleteOrder # <<>>
  BY DEF DeleteOrder, Resources, RealmSecrets
<1>4. ASSUME NEW p \in {PhasePrepared, PhaseDatabaseInstalled,
                       PhaseBusinessCentralInstalled, PhaseComplete}
      PROVE  Stage(p) \in Seq(Resources) /\ Stage(p) # <<>>
  <2>1. /\ <<ServiceAccount>> \in Seq(Resources)
        /\ <<ServiceAccount>> # <<>>
    BY DEF Resources
  <2>2. LET s == <<DatabaseCredentialsSecret, DatabaseInitConfigmap,
                   DatabasePvc, DatabaseService, DatabaseDeployment>>
        IN  s \in Seq(Resources) /\ s # <<>>
    BY DEF Resources
  <2>3. LET s == <<BusinessCentralPvc, BusinessCentralService,
                   BusinessCentralRoute, BusinessCentralDeployment>>
        IN  s \in Seq(Resources) /\ s # <<>>
    BY DEF Resources
  <2>4. LET s == <<KieServerService, KieServerRoute, KieServerDeployment>>
        IN  s \in Seq(Resources) /\ s # <<>>
    BY DEF Resources
  <2>. QED  BY <2>1, <2>2, <2>3, <2>4 DEF Stage
<1>. QED  BY <1>1, <1>2, <1>3, <1>4

\* Sequences over a smaller set, and what is left of one.
LEMMA SubSeqType ==
    ASSUME NEW S, NEW T, S \subseteq T, NEW s \in Seq(S)
    PROVE  s \in Seq(T)
OBVIOUS

\* The empty sequence is one over any set.
LEMMA EmptyType == \A S : <<>> \in Seq(S)
OBVIOUS

\* The first call of a list and the calls that are left.
LEMMA HeadTailType ==
    ASSUME NEW S, NEW s \in Seq(S), s # <<>>
    PROVE  Head(s) \in S /\ Tail(s) \in Seq(S)
OBVIOUS

\* What a call may be about is a resource or a client.
LEMMA AboutType == \A pc : About(pc) \subseteq Resources \cup ClientIds
BY DEF About, Resources

\* A handler that starts a run starts one of the right shape.
LEMMA StartType ==
    ASSUME DevTypeOK, NEW d \in Devs, NEW to \in StatusPhase, NEW todo,
           NEW pc \in {"save", "mark", "create", "deleteRealm"},
           \/ pc = "save" /\ todo = <<>>
           \/ todo \in Seq(About(pc)) /\ todo # <<>>,
           Start(d, pc, to, todo)
    PROVE  DevTypeOK'
<1>1. todo \in Seq(Resources \cup ClientIds)
  BY AboutType, SubSeqType, EmptyType
<1>2. job' \in Job
  BY <1>1 DEF DevTypeOK, ClusterTypeOK, D!TypeOK, Start, Job, JobRecords, Realms
<1>. QED  BY <1>2 DEF DevTypeOK, ClusterTypeOK, KeycloakTypeOK, D!TypeOK, U!TypeOK,
          Start, Take, userVars, resVars, budget, ssoVars

\* Reconcile picks a handler and starts a run, or drops the key.
LEMMA HandlerType ==
    ASSUME DevTypeOK, NEW d \in Devs, DevHandler(d)
    PROVE  DevTypeOK'
<1>1. CASE InitializeDev(d)
  BY <1>1, StartType, CallSequences DEF InitializeDev, StatusPhase
<1>2. CASE ProvisionRealm(d)
  BY <1>2, StartType, CallSequences DEF ProvisionRealm, StatusPhase, About
<1>3. CASE Prepare(d)
  BY <1>3, StartType, CallSequences DEF Prepare, StatusPhase, About
<1>4. CASE InstallDatabase(d)
  BY <1>4, StartType, CallSequences DEF InstallDatabase, StatusPhase, About
<1>5. CASE InstallBusinessCentral(d)
  BY <1>5, StartType, CallSequences DEF InstallBusinessCentral, StatusPhase, About
<1>6. CASE WaitForDatabase(d)
  <2>1. CASE Start(d, "save", PhaseDatabaseReady, <<>>)
    BY <2>1, StartType, CallSequences DEF StatusPhase
  <2>2. CASE UNCHANGED devCtlVars
    BY <2>2 DEF devCtlVars, DevTypeOK, ClusterTypeOK, KeycloakTypeOK, D!TypeOK,
       U!TypeOK, devVars, userVars, resVars, budget, ssoVars
  <2>. QED  BY <1>6, <2>1, <2>2 DEF WaitForDatabase
<1>7. CASE InstallKieServer(d)
  BY <1>7, StartType, CallSequences DEF InstallKieServer, StatusPhase, About
<1>8. CASE DeprovisionDev(d)
  BY <1>8, StartType, CallSequences DEF DeprovisionDev, StatusPhase, About
<1>9. CASE DropDev(d)
  BY <1>9 DEF DropDev, Take, DevTypeOK, ClusterTypeOK, KeycloakTypeOK, D!TypeOK,
     U!TypeOK, userVars, resVars, budget, ssoVars
<1>. QED  BY <1>1, <1>2, <1>3, <1>4, <1>5, <1>6, <1>7, <1>8, <1>9 DEF DevHandler

\* How a run goes on or ends keeps the job a job.
LEMMA ProceedType ==
    ASSUME DevTypeOK, job # Idle, NEW next \in Job, Proceed(next)
    PROVE  job' \in Job \cup {Idle} /\ devQueue' \in SUBSET Devs
<1>1. CASE job' = [job EXCEPT !.todo = Tail(@)] /\ Len(job.todo) > 1
  <2>1. job \in JobRecords
    BY DEF DevTypeOK, Job
  <2>2. /\ Tail(job.todo) \in Seq(Resources \cup ClientIds)
        /\ Tail(job.todo) # <<>>
    BY <1>1, <2>1 DEF JobRecords
  <2>3. job.pc # "save" => Tail(job.todo) \in Seq(About(job.pc))
    BY <1>1, HeadTailType DEF DevTypeOK, Job
  <2>. QED  BY <1>1, <2>1, <2>2, <2>3 DEF Proceed, DevTypeOK, ClusterTypeOK,
            D!TypeOK, Job, JobRecords
<1>2. CASE job' = next
  BY <1>2 DEF Proceed, DevTypeOK, ClusterTypeOK, D!TypeOK
<1>. QED  BY <1>1, <1>2 DEF Proceed

\* An error ends the run and requeues its key.
LEMMA RequeueType ==
    ASSUME DevTypeOK, job # Idle, Requeue
    PROVE  job' \in Job \cup {Idle} /\ devQueue' \in SUBSET Devs
BY DEF DevTypeOK, ClusterTypeOK, D!TypeOK, Requeue, Job, JobRecords

\* An update of the object of the run writes a typed object.
LEMMA PutType ==
    ASSUME DevTypeOK, job # Idle, NEW v \in D!Object, NEW o, Put(v, o)
    PROVE  dev' \in [Devs -> D!Object] /\ devWatch' \in [Devs -> SUBSET D!Object]
<1>. job.name \in Devs /\ D!TypeOK
  BY DEF DevTypeOK, ClusterTypeOK, Job, JobRecords
<1>. QED  BY DevUpdateType DEF Put, D!TypeOK

\* A fault spends budget that is left.
LEMMA SufferType ==
    ASSUME NEW o \in Outcomes, faults \in 0..MaxFaults, Suffer(o)
    PROVE  faults' \in 0..MaxFaults
BY BoundsAssumption DEF Suffer

\* A create, found or not, answered or not, keeps resources and the job typed.
LEMMA CreateType ==
    ASSUME DevTypeOK, job # Idle, NEW r \in Resources, NEW realm \in Realms,
           NEW next \in Job, Create(r, realm, next)
    PROVE  /\ job' \in Job \cup {Idle} /\ devQueue' \in SUBSET Devs
           /\ res' \in [Resources -> Held \cup {NoResource}]
           /\ faults' \in 0..MaxFaults
<1>. /\ job \in Job /\ res \in [Resources -> Held \cup {NoResource}]
     /\ faults \in 0..MaxFaults
  BY DEF DevTypeOK, ClusterTypeOK
<1>1. CASE Proceed(next) /\ UNCHANGED <<res, faults>>
  BY <1>1, ProceedType
<1>2. ASSUME NEW o \in Outcomes, Suffer(o),
             res' = IF o = "failed" \/ Live(r) THEN res
                    ELSE [res EXCEPT ![r] = [owner |-> job.name,
                                             uid |-> job.copy.uid,
                                             realm |-> realm]],
             Proceed(next) \/ Requeue
      PROVE  /\ job' \in Job \cup {Idle} /\ devQueue' \in SUBSET Devs
             /\ res' \in [Resources -> Held \cup {NoResource}]
             /\ faults' \in 0..MaxFaults
  <2>1. [owner |-> job.name, uid |-> job.copy.uid, realm |-> realm] \in Held
    BY DEF Held, Job, JobRecords, D!Object
  <2>2. res' \in [Resources -> Held \cup {NoResource}]
    BY <1>2, <2>1
  <2>. QED  BY <1>2, <2>2, ProceedType, RequeueType, SufferType
<1>. QED  BY <1>1, <1>2 DEF Create

\* A call keeps every variable in its type.
LEMMA CallType ==
    ASSUME DevTypeOK, DevCall
    PROVE  DevTypeOK'
<1>. USE DEF DevTypeOK, ClusterTypeOK, KeycloakTypeOK, userVars, resVars, ssoVars
<1>0. job \in Job /\ job \in JobRecords /\ job # Idle
  <2>1. job.pc # "idle"
    BY DEF DevCall, Mark, CreateRealm, CreateClient, CreateRealmSecret,
       CreateResource, DeleteRealm, ListUsers, DetachUser, DeleteResource, Save
  <2>2. job # Idle
    BY <2>1 DEF Idle
  <2>. QED  BY <2>2 DEF Job
<1>1. CASE Mark
  <2>. DEFINE marked == [job.copy EXCEPT !.phase = PhaseRealmProvisioning]
  <2>1. marked \in D!Object
    BY <1>0 DEF JobRecords, D!Object, StatusPhase
  <2>2. D!Result(job.name, marked) \in D!Object
    BY <1>0, <2>1, DevResultType DEF JobRecords
  <2>3. PICK o \in Outcomes :
          /\ Suffer(o)
          /\ Put(marked, o)
          /\ job' = [job EXCEPT !.pc = "realm",
                       !.copy = IF ReturnsNil(o, D!Accepts(job.name, job.copy))
                                THEN D!Result(job.name, marked) ELSE @]
    BY <1>1 DEF Mark
  <2>4. job' \in Job
    <3>1. job.todo \in Seq(ClientIds) /\ job.todo # <<>>
      BY <1>0, <1>1 DEF Job, About, Mark
    <3>. HIDE DEF marked
    <3>. QED  BY <1>0, <2>2, <2>3, <3>1 DEF JobRecords, Job, About
  <2>5. dev' \in [Devs -> D!Object] /\ devWatch' \in [Devs -> SUBSET D!Object]
    BY <1>0, <2>1, <2>3, PutType
  <2>6. faults' \in 0..MaxFaults
    BY <2>3, SufferType
  <2>. QED  BY <1>1, <2>4, <2>5, <2>6 DEF Mark, D!TypeOK, U!TypeOK
<1>2. CASE CreateRealm
  <2>1. PICK o \in Outcomes, t \in generateToken :
          LET r == RealmId(job.name, t)
          IN  /\ Suffer(o)
              /\ lastToken' = t
              /\ IF o = "failed"
                 THEN UNCHANGED <<realms, clients, roles, accounts, grants>>
                 ELSE SsoCreateRealm(r)
              /\ IF ReturnsNil(o, r \notin realms)
                 THEN /\ job' = [job EXCEPT !.pc = "clients", !.realm = r]
                      /\ UNCHANGED devQueue
                 ELSE Requeue
    BY <1>2 DEF CreateRealm
  <2>2. t \in Nat /\ RealmId(job.name, t) \in RealmIds
    BY <1>0, MaxTokenAssumption DEF generateToken, RealmId, RealmIds, JobRecords
  <2>3. job' \in Job \cup {Idle} /\ devQueue' \in SUBSET Devs
    <3>1. job.todo \in Seq(ClientIds) /\ job.todo # <<>>
      BY <1>0, <1>2 DEF Job, About, CreateRealm
    <3>2. CASE /\ job' = [job EXCEPT !.pc = "clients",
                                     !.realm = RealmId(job.name, t)]
               /\ UNCHANGED devQueue
      <4>1. job' \in JobRecords
        BY <1>0, <2>2, <3>2 DEF JobRecords, Realms
      <4>2. job' \in Job
        BY <1>0, <3>1, <3>2, <4>1 DEF Job, JobRecords, About
      <4>. QED  BY <3>2, <4>2 DEF D!TypeOK
    <3>. QED  BY <1>0, <2>1, <3>2, RequeueType
  <2>4. faults' \in 0..MaxFaults
    BY <2>1, SufferType
  <2>5. KeycloakTypeOK'
    BY <2>1, <2>2, BuiltinRolesAssumption DEF SsoCreateRealm
  <2>. QED  BY <1>2, <2>3, <2>4, <2>5 DEF CreateRealm, D!TypeOK, U!TypeOK
<1>3. CASE CreateClient
  <2>. DEFINE next == [job EXCEPT !.pc = "secrets", !.todo = SecretOrder]
  <2>1. next \in Job
    <3>1. SecretOrder \in Seq(Resources \cup ClientIds)
      BY CallSequences, SubSeqType DEF Resources
    <3>. QED  BY <1>0, <3>1, CallSequences DEF Job, JobRecords, About
  <2>2. PICK o \in Outcomes :
          /\ Suffer(o)
          /\ UNCHANGED ssoVars \/ SsoCreateClient(job.realm, Head(job.todo))
          /\ Proceed(next) \/ Requeue
    BY <1>3 DEF CreateClient
  <2>3. job' \in Job \cup {Idle} /\ devQueue' \in SUBSET Devs
    BY <1>0, <2>1, <2>2, ProceedType, RequeueType
  <2>4. faults' \in 0..MaxFaults
    BY <2>2, SufferType
  <2>5. KeycloakTypeOK'
    <3>1. Head(job.todo) \in ClientIds
      BY <1>0, <1>3 DEF Job, About, CreateClient
    <3>. QED  BY <2>2, <3>1 DEF SsoCreateClient
  <2>. QED  BY <1>3, <2>3, <2>4, <2>5 DEF CreateClient, D!TypeOK, U!TypeOK
<1>. DEFINE done == [job EXCEPT !.pc = "save", !.todo = <<>>]
<1>4. done \in Job
  <2>1. done \in JobRecords
    BY <1>0, EmptyType DEF JobRecords
  <2>. QED  BY <2>1, <1>0 DEF Job, JobRecords
<1>5. CASE CreateRealmSecret
  <2>. DEFINE r == Head(job.todo)
  <2>1. r \in Resources
    BY <1>0, <1>5 DEF Job, About, CreateRealmSecret, Resources
  <2>2. \/ Create(r, job.realm, done)
        \/ Requeue /\ UNCHANGED res /\ \E o \in Outcomes : Suffer(o)
    BY <1>5 DEF CreateRealmSecret, Outcomes
  <2>3. /\ job' \in Job \cup {Idle} /\ devQueue' \in SUBSET Devs
        /\ res' \in [Resources -> Held \cup {NoResource}]
        /\ faults' \in 0..MaxFaults
    <3>1. job.realm \in Realms
      BY <1>0 DEF JobRecords
    <3>2. faults \in 0..MaxFaults
      BY DEF DevTypeOK, ClusterTypeOK
    <3>. QED  BY <1>0, <1>4, <2>1, <2>2, <3>1, <3>2, CreateType, RequeueType, SufferType
  <2>. QED  BY <1>5, <2>3 DEF CreateRealmSecret, D!TypeOK, U!TypeOK
<1>6. CASE CreateResource
  <2>1. Head(job.todo) \in Resources /\ NoRealm \in Realms
    BY <1>0, <1>6 DEF Job, About, CreateResource, Realms
  <2>2. Create(Head(job.todo), NoRealm, done)
    BY <1>6 DEF CreateResource
  <2>3. /\ job' \in Job \cup {Idle} /\ devQueue' \in SUBSET Devs
        /\ res' \in [Resources -> Held \cup {NoResource}]
        /\ faults' \in 0..MaxFaults
    BY <1>0, <1>4, <2>1, <2>2, CreateType
  <2>. QED  BY <1>6, <2>3 DEF CreateResource, D!TypeOK, U!TypeOK
<1>7. CASE DeleteRealm
  <2>1. PICK o \in Outcomes :
          /\ Suffer(o)
          /\ UNCHANGED ssoVars \/ SsoDeleteRealm(job.copy.realm)
          /\ \/ job' = [job EXCEPT !.pc = "list"] /\ UNCHANGED devQueue
             \/ Requeue
    BY <1>7 DEF DeleteRealm
  <2>2. job' \in Job \cup {Idle} /\ devQueue' \in SUBSET Devs
    <3>1. job.todo \in Seq(Resources) /\ job.todo # <<>>
      BY <1>0, <1>7 DEF Job, About, DeleteRealm
    <3>. QED  BY <1>0, <2>1, <3>1, RequeueType DEF Job, JobRecords, About, D!TypeOK
  <2>3. faults' \in 0..MaxFaults
    BY <2>1, SufferType
  <2>4. KeycloakTypeOK'
    BY <2>1 DEF SsoDeleteRealm
  <2>. QED  BY <1>7, <2>2, <2>3, <2>4 DEF DeleteRealm, D!TypeOK, U!TypeOK
<1>8. CASE ListUsers
  <2>. DEFINE found == {u \in Users : /\ userCache[u].exists
                                     /\ userCache[u].realm = job.copy.realm}
               us == {<<u, userCache[u]>> : u \in found}
  <2>0. us \in SUBSET (Users \X U!Object)
    BY DEF U!TypeOK
  <2>1. \E pc \in {"delete", "users"} :
          job' = [job EXCEPT !.pc = pc, !.users = us]
    BY <1>8 DEF ListUsers
  <2>2. job' \in Job
    <3>1. job.todo \in Seq(Resources) /\ job.todo # <<>>
      BY <1>0, <1>8 DEF Job, About, ListUsers
    <3>. QED  BY <1>0, <2>0, <2>1, <3>1 DEF Job, JobRecords, About
  <2>. QED  BY <1>8, <2>2 DEF ListUsers, D!TypeOK, U!TypeOK, devVars, budget
<1>9. CASE DetachUser
  <2>1. PICK x \in job.users, o \in Outcomes :
          /\ Suffer(o)
          /\ IF o # "failed" /\ U!Accepts(x[1], x[2])
             THEN U!Update(x[1], [x[2] EXCEPT !.phase = PhaseDeprovisioned])
             ELSE UNCHANGED <<user, userWatch>>
          /\ job' = [job EXCEPT
                       !.pc = IF job.users = {x} THEN "delete" ELSE @,
                       !.users = @ \ {x}]
    BY <1>9 DEF DetachUser
  <2>2. x[1] \in Users /\ [x[2] EXCEPT !.phase = PhaseDeprovisioned] \in U!Object
    BY <1>0 DEF JobRecords, U!Object, StatusPhase
  <2>3. user' \in [Users -> U!Object] /\ userWatch' \in [Users -> SUBSET U!Object]
    BY <2>1, <2>2, UserUpdateType DEF U!TypeOK
  <2>4. job' \in Job
    <3>1. job.todo \in Seq(Resources) /\ job.todo # <<>> /\ job.pc = "users"
      BY <1>0, <1>9 DEF Job, About, DetachUser
    <3>. QED  BY <1>0, <2>1, <3>1 DEF Job, JobRecords, About
  <2>5. faults' \in 0..MaxFaults
    BY <2>1, SufferType
  <2>. QED  BY <1>9, <2>3, <2>4, <2>5 DEF DetachUser, D!TypeOK, U!TypeOK, devVars
<1>10. CASE DeleteResource
  <2>1. PICK o \in Outcomes :
          /\ Suffer(o)
          /\ res' = IF o = "failed" THEN res
                    ELSE [res EXCEPT ![Head(job.todo)] = NoResource]
    BY <1>10 DEF DeleteResource
  <2>2. job' \in Job \cup {Idle} /\ devQueue' \in SUBSET Devs
    BY <1>0, <1>4, <1>10, ProceedType DEF DeleteResource
  <2>3. faults' \in 0..MaxFaults
    BY <2>1, SufferType
  <2>4. res' \in [Resources -> Held \cup {NoResource}]
    BY <2>1
  <2>. QED  BY <1>10, <2>2, <2>3, <2>4 DEF DeleteResource, D!TypeOK, U!TypeOK
<1>11. CASE Save
  <2>1. PICK o \in Outcomes : Suffer(o) /\ Put(Saved, o)
    BY <1>11 DEF Save
  <2>2. Saved \in D!Object
    BY <1>0 DEF Saved, JobRecords, D!Object
  <2>3. dev' \in [Devs -> D!Object] /\ devWatch' \in [Devs -> SUBSET D!Object]
    BY <1>0, <2>1, <2>2, PutType
  <2>4. job' \in Job \cup {Idle} /\ devQueue' \in SUBSET Devs
    BY <1>0, <1>11, RequeueType DEF Save
  <2>5. faults' \in 0..MaxFaults
    BY <2>1, SufferType
  <2>. QED  BY <1>11, <2>3, <2>4, <2>5 DEF Save, D!TypeOK, U!TypeOK
<1>. QED  BY <1>1, <1>2, <1>3, <1>5, <1>6, <1>7, <1>8, <1>9, <1>10, <1>11 DEF DevCall

-----------------------------------------------------------------------------
(* Type correctness of the steps of the cluster.                           *)

\* A write of a RhpamDev by the users keeps the types.
LEMMA DevStoreType ==
    ASSUME D!TypeOK, NEW d \in Devs, NEW v \in D!Object,
           D!Store(d, v),
           devCache' = devCache, devQueue' = devQueue
    PROVE  D!TypeOK'
BY DEF D!TypeOK, D!Store

\* The versions of a RhpamDev that users write.
LEMMA DevVersionType ==
    ASSUME NEW rv \in Nat, NEW v \in D!Object
    PROVE  /\ D!Absent(rv) \in D!Object
           /\ \A s \in {NoSpec} : /\ D!Created(rv, s) \in D!Object
                            /\ [v EXCEPT !.rv = rv, !.spec = s] \in D!Object
           /\ [v EXCEPT !.rv = rv, !.deleting = TRUE] \in D!Object
<1>1. D!Absent(rv) \in D!Object
  BY DEF D!Absent, D!Object, Realms, StatusPhase
<1>. QED  BY <1>1 DEF D!Created, D!Object

\* Writes of the users and the informer, for RhpamDevs.
LEMMA DevObjectStepType ==
    ASSUME D!TypeOK, NEW d \in Devs,
           \/ D!UserCreate(d) \/ D!UserEdit(d) \/ D!UserDelete(d)
           \/ D!Deliver(d) \/ D!Resync(d)
    PROVE  D!TypeOK'
<1>1. dev[d] \in D!Object /\ dev[d].rv + 1 \in Nat
  BY DEF D!TypeOK, D!Object
<1>2. CASE D!UserCreate(d)
  <2>1. PICK s \in {NoSpec} : D!Store(d, D!Created(dev[d].rv + 1, s))
    BY <1>2 DEF D!UserCreate
  <2>2. D!Created(dev[d].rv + 1, s) \in D!Object
    BY <1>1, DevVersionType
  <2>. QED  BY <1>2, <2>1, <2>2, DevStoreType DEF D!UserCreate
<1>3. CASE D!UserEdit(d)
  <2>1. PICK s \in {NoSpec} :
           D!Store(d, [dev[d] EXCEPT !.rv = @ + 1, !.spec = s])
    BY <1>3 DEF D!UserEdit
  <2>2. [dev[d] EXCEPT !.rv = @ + 1, !.spec = s] \in D!Object
    BY <1>1, DevVersionType
  <2>. QED  BY <1>3, <2>1, <2>2, DevStoreType DEF D!UserEdit
<1>4. CASE D!UserDelete(d)
  <2>1. /\ [dev[d] EXCEPT !.rv = @ + 1, !.deleting = TRUE] \in D!Object
        /\ D!Absent(dev[d].rv + 1) \in D!Object
    BY <1>1, DevVersionType
  <2>. QED  BY <1>4, <2>1, DevStoreType DEF D!UserDelete
<1>5. CASE D!Deliver(d)
  BY <1>5 DEF D!Deliver, D!TypeOK
<1>6. CASE D!Resync(d)
  BY <1>6 DEF D!Resync, D!TypeOK
<1>. QED  BY <1>2, <1>3, <1>4, <1>5, <1>6

\* A write of a RhpamUser by the users keeps the types.
LEMMA UserStoreType ==
    ASSUME U!TypeOK, NEW u \in Users, NEW v \in U!Object,
           U!Store(u, v),
           userCache' = userCache, userQueue' = userQueue
    PROVE  U!TypeOK'
BY DEF U!TypeOK, U!Store

\* The versions of a RhpamUser that users write.
LEMMA UserVersionType ==
    ASSUME NEW rv \in Nat, NEW v \in U!Object
    PROVE  /\ U!Absent(rv) \in U!Object
           /\ \A s \in UserSpecs : /\ U!Created(rv, s) \in U!Object
                            /\ [v EXCEPT !.rv = rv, !.spec = s] \in U!Object
           /\ [v EXCEPT !.rv = rv, !.deleting = TRUE] \in U!Object
<1>1. U!Absent(rv) \in U!Object
  BY DEF U!Absent, U!Object, Realms, StatusPhase
<1>. QED  BY <1>1 DEF U!Created, U!Object

\* The same for RhpamUsers.
LEMMA UserObjectStepType ==
    ASSUME U!TypeOK, NEW u \in Users,
           \/ U!UserCreate(u) \/ U!UserEdit(u) \/ U!UserDelete(u)
           \/ U!Deliver(u) \/ U!Resync(u)
    PROVE  U!TypeOK'
<1>1. user[u] \in U!Object /\ user[u].rv + 1 \in Nat
  BY DEF U!TypeOK, U!Object
<1>2. CASE U!UserCreate(u)
  <2>1. PICK s \in UserSpecs : U!Store(u, U!Created(user[u].rv + 1, s))
    BY <1>2 DEF U!UserCreate
  <2>2. U!Created(user[u].rv + 1, s) \in U!Object
    BY <1>1, UserVersionType
  <2>. QED  BY <1>2, <2>1, <2>2, UserStoreType DEF U!UserCreate
<1>3. CASE U!UserEdit(u)
  <2>1. PICK s \in UserSpecs :
           U!Store(u, [user[u] EXCEPT !.rv = @ + 1, !.spec = s])
    BY <1>3 DEF U!UserEdit
  <2>2. [user[u] EXCEPT !.rv = @ + 1, !.spec = s] \in U!Object
    BY <1>1, UserVersionType
  <2>. QED  BY <1>3, <2>1, <2>2, UserStoreType DEF U!UserEdit
<1>4. CASE U!UserDelete(u)
  <2>1. /\ [user[u] EXCEPT !.rv = @ + 1, !.deleting = TRUE] \in U!Object
        /\ U!Absent(user[u].rv + 1) \in U!Object
    BY <1>1, UserVersionType
  <2>. QED  BY <1>4, <2>1, UserStoreType DEF U!UserDelete
<1>5. CASE U!Deliver(u)
  BY <1>5 DEF U!Deliver, U!TypeOK
<1>6. CASE U!Resync(u)
  BY <1>6 DEF U!Resync, U!TypeOK
<1>. QED  BY <1>2, <1>3, <1>4, <1>5, <1>6

\* Users of the cluster write objects of either kind.
LEMMA ClusterUsersType ==
    ASSUME ClusterTypeOK,
           \/ \E d \in Devs : CreateDev(d) \/ EditDev(d) \/ DeleteDev(d)
           \/ \E u \in Users : CreateUser(u) \/ EditUser(u) \/ DeleteUser(u)
    PROVE  ClusterTypeOK'
<1>. USE DEF ClusterTypeOK, Write, resVars
<1>1. writes' \in 0..MaxWrites
  BY BoundsAssumption
     DEF CreateDev, EditDev, DeleteDev, CreateUser, EditUser, DeleteUser
<1>2. ASSUME NEW d \in Devs, CreateDev(d) \/ EditDev(d) \/ DeleteDev(d)
      PROVE  ClusterTypeOK'
  <2>1. D!TypeOK'
    BY <1>2, DevObjectStepType DEF CreateDev, EditDev, DeleteDev
  <2>. QED  BY <1>1, <1>2, <2>1
            DEF CreateDev, EditDev, DeleteDev, U!TypeOK, userVars
<1>3. ASSUME NEW u \in Users, CreateUser(u) \/ EditUser(u) \/ DeleteUser(u)
      PROVE  ClusterTypeOK'
  <2>1. U!TypeOK'
    BY <1>3, UserObjectStepType DEF CreateUser, EditUser, DeleteUser
  <2>. QED  BY <1>1, <1>3, <2>1
            DEF CreateUser, EditUser, DeleteUser, D!TypeOK, devVars
<1>. QED  BY <1>2, <1>3

\* Informers deliver and replay.
LEMMA InformersType ==
    ASSUME ClusterTypeOK,
           \/ \E d \in Devs : DeliverDev(d) \/ ResyncDev(d)
           \/ \E u \in Users : DeliverUser(u) \/ ResyncUser(u)
           \/ SyncResources
    PROVE  ClusterTypeOK'
<1>. USE DEF ClusterTypeOK, resVars, budget
<1>1. ASSUME NEW d \in Devs, DeliverDev(d) \/ ResyncDev(d)
      PROVE  ClusterTypeOK'
  <2>1. D!TypeOK'
    BY <1>1, DevObjectStepType DEF DeliverDev, ResyncDev
  <2>. QED  BY <1>1, <2>1 DEF DeliverDev, ResyncDev, U!TypeOK, userVars
<1>2. ASSUME NEW u \in Users, DeliverUser(u) \/ ResyncUser(u)
      PROVE  ClusterTypeOK'
  <2>1. U!TypeOK'
    BY <1>2, UserObjectStepType DEF DeliverUser, ResyncUser
  <2>. QED  BY <1>2, <2>1 DEF DeliverUser, ResyncUser, D!TypeOK, devVars
<1>3. CASE SyncResources
  <2>1. PICK kinds \in SUBSET TypedKinds :
           seen' = (seen \ UNION kinds) \cup {r \in UNION kinds : Live(r)}
    BY <1>3 DEF SyncResources
  <2>2. seen' \subseteq Typed
    BY <2>1 DEF Typed
  <2>. QED  BY <1>3, <2>2 DEF SyncResources, D!TypeOK, U!TypeOK, devVars, userVars
<1>. QED  BY <1>1, <1>2, <1>3

\* The database comes and goes, resources are collected.
LEMMA PlatformType ==
    ASSUME ClusterTypeOK,
           DatabaseUp \/ DatabaseDown \/ \E r \in Resources : Collect(r)
    PROVE  ClusterTypeOK'
BY SufferType DEF ClusterTypeOK, DatabaseUp, DatabaseDown, Collect, Outcomes,
   D!TypeOK, U!TypeOK, devVars, userVars, budget

\* A restart rebuilds caches and queues.
LEMMA RestartType ==
    ASSUME ClusterTypeOK, RestartCluster
    PROVE  ClusterTypeOK'
BY SufferType DEF ClusterTypeOK, RestartCluster, Outcomes, D!Relist, U!Relist,
   D!TypeOK, U!TypeOK

\* The first state.
LEMMA InitType ==
    ASSUME DevInit
    PROVE  DevTypeOK
<1>1. D!Absent(0) \in D!Object /\ U!Absent(0) \in U!Object
  BY DEF D!Absent, D!Object, U!Absent, U!Object, Realms, StatusPhase
<1>2. ClusterTypeOK
  <2>1. D!TypeOK
    BY <1>1 DEF DevInit, ClusterInit, D!Init, D!TypeOK
  <2>2. U!TypeOK
    BY <1>1 DEF DevInit, ClusterInit, U!Init, U!TypeOK
  <2>3. /\ res \in [Resources -> Held \cup {NoResource}]
        /\ seen \in SUBSET Typed
    BY DEF DevInit, ClusterInit
  <2>4. dbReady \in BOOLEAN
    BY DEF DevInit, ClusterInit
  <2>5. writes \in 0..MaxWrites /\ faults \in 0..MaxFaults
    <3>1. writes = 0 /\ faults = 0
      BY DEF DevInit, ClusterInit
    <3>. QED  BY <3>1, BoundsAssumption
  <2>. QED  BY <2>1, <2>2, <2>3, <2>4, <2>5 DEF ClusterTypeOK
<1>3. KeycloakTypeOK
  BY DEF DevInit, KeycloakInit, KeycloakTypeOK
<1>. QED  BY <1>2, <1>3 DEF DevInit, DevTypeOK

=============================================================================
