--------------------------- MODULE ResourceProofs ---------------------------
(***************************************************************************)
(* Why the resources of an installation stay, its stages are complete and  *)
(* its references resolve, for any number of objects, writes, faults and   *)
(* tokens: what a copy tells of the life of its object, what a run has     *)
(* made, and what a step may do to a resource.                             *)
(***************************************************************************)
EXTENDS LifecycleProofs

-----------------------------------------------------------------------------
(* What the phases promise.                                                *)

\* The phases of an installation are all different.
LEMMA PhaseRanks ==
    /\ Len(PhaseRank) = 10
    /\ \A i, j \in 1..10 : PhaseRank[i] = PhaseRank[j] => i = j
<1>1. /\ PhaseRank[1] = NoPhase /\ PhaseRank[2] = PhaseAccepted
      /\ PhaseRank[3] = PhaseRealmProvisioning
      /\ PhaseRank[4] = PhaseRealmProvisioned /\ PhaseRank[5] = PhasePrepare
      /\ PhaseRank[6] = PhasePrepared /\ PhaseRank[7] = PhaseDatabaseInstalled
      /\ PhaseRank[8] = PhaseBusinessCentralInstalled
      /\ PhaseRank[9] = PhaseDatabaseReady /\ PhaseRank[10] = PhaseComplete
      /\ Len(PhaseRank) = 10
  BY DEF PhaseRank
<1>2. ASSUME NEW i \in 1..10, NEW j \in 1..10, PhaseRank[i] = PhaseRank[j]
      PROVE  i = j
  <2>. HIDE DEF PhaseRank
  <2>. USE DEF NoPhase, PhaseAccepted, PhaseRealmProvisioning,
       PhaseRealmProvisioned, PhasePrepare, PhasePrepared, PhaseDatabaseInstalled,
       PhaseBusinessCentralInstalled, PhaseDatabaseReady, PhaseComplete
  <2>1. j \in {1, 2, 3, 4, 5, 6, 7, 8, 9, 10}
    OBVIOUS
  <2>2. CASE i \in {1, 2}
    BY <1>1, <1>2, <2>1, <2>2
  <2>3. CASE i \in {3, 4}
    BY <1>1, <1>2, <2>1, <2>3
  <2>4. CASE i \in {5, 6}
    BY <1>1, <1>2, <2>1, <2>4
  <2>5. CASE i \in {7, 8}
    BY <1>1, <1>2, <2>1, <2>5
  <2>6. CASE i \in {9, 10}
    BY <1>1, <1>2, <2>1, <2>6
  <2>7. i \in {1, 2} \cup {3, 4} \cup {5, 6} \cup {7, 8} \cup {9, 10}
    OBVIOUS
  <2>. QED  BY <2>2, <2>3, <2>4, <2>5, <2>6, <2>7
<1>. QED  BY <1>1, <1>2

\* What is made on the way to a phase.
LEMMA MakesValues ==
    /\ \A p \in {NoPhase, PhaseAccepted, PhaseRealmProvisioning, PhasePrepare,
                 PhaseDatabaseReady} : Makes(p) = <<>>
    /\ Makes(PhaseRealmProvisioned) = SecretOrder
    /\ Makes(PhasePrepared) = <<ServiceAccount>>
    /\ Makes(PhaseDatabaseInstalled) =
          <<DatabaseCredentialsSecret, DatabaseInitConfigmap, DatabasePvc,
            DatabaseService, DatabaseDeployment>>
    /\ Makes(PhaseBusinessCentralInstalled) =
          <<BusinessCentralPvc, BusinessCentralService,
            BusinessCentralRoute, BusinessCentralDeployment>>
    /\ Makes(PhaseComplete) =
          <<KieServerService, KieServerRoute, KieServerDeployment>>
    /\ \A p \in {PhasePrepared, PhaseDatabaseInstalled,
                 PhaseBusinessCentralInstalled, PhaseComplete} :
          Makes(p) = Stage(p)
BY DEF Makes, Stage, NoPhase, PhaseAccepted, PhaseRealmProvisioning,
   PhaseRealmProvisioned, PhasePrepare, PhasePrepared, PhaseDatabaseInstalled,
   PhaseBusinessCentralInstalled, PhaseDatabaseReady, PhaseComplete

\* A sequence of calls has one for the resource r.
In(r, calls) == \E k \in DOMAIN calls : r = calls[k]

\* A phase promises what was made on the way to it and to those before it.
LEMMA PromisedRank ==
    ASSUME NEW i \in 1..10, NEW r
    PROVE  r \in Promised(PhaseRank[i]) <=>
              \E j \in 1..i : In(r, Makes(PhaseRank[j]))
<1>. HIDE DEF PhaseRank
<1>. DEFINE made(j) == {Makes(PhaseRank[j])[k] : k \in DOMAIN Makes(PhaseRank[j])}
<1>1. DOMAIN PhaseRank = 1..10
  BY PhaseRanks DEF PhaseRank
<1>2. {n \in DOMAIN PhaseRank : PhaseRank[n] = PhaseRank[i]} = {i}
  BY <1>1, PhaseRanks
<1>3. Promised(PhaseRank[i]) = UNION {made(j) : j \in 1..i}
  <2>1. Promised(PhaseRank[i]) = UNION {MadeUpTo[n] : n \in {i}}
    BY <1>2 DEF Promised
  <2>2. MadeUpTo[i] = UNION {made(j) : j \in 1..i}
    BY <1>1 DEF MadeUpTo
  <2>. QED  BY <2>1, <2>2
<1>4. \A j : r \in made(j) <=> In(r, Makes(PhaseRank[j]))
  BY DEF In
<1>. HIDE DEF made
<1>5. r \in Promised(PhaseRank[i]) <=> \E j \in 1..i : r \in made(j)
  BY <1>3
<1>. QED  BY <1>4, <1>5

\* The next phase promises what is made on the way to it besides.
LEMMA PromisedNext ==
    ASSUME NEW p, NEW q, <<p, q>> \in Advance, NEW r \in Promised(q)
    PROVE  r \in Promised(p) \/ In(r, Makes(q))
<1>. HIDE DEF PhaseRank
<1>1. ASSUME NEW i \in 1..9, NEW n \in 1..10, n = i + 1,
             p = PhaseRank[i], q = PhaseRank[n]
      PROVE  r \in Promised(p) \/ In(r, Makes(q))
  <2>. r \in Promised(PhaseRank[n])
    BY <1>1
  <2>1. PICK j \in 1..n : In(r, Makes(PhaseRank[j]))
    BY PromisedRank
  <2>2. CASE j \in 1..i
    <3>1. i \in 1..10
      OBVIOUS
    <3>2. r \in Promised(PhaseRank[i])
      BY <2>1, <2>2, <3>1, PromisedRank
    <3>. QED  BY <1>1, <3>2
  <2>3. CASE j = n
    BY <1>1, <2>1, <2>3
  <2>. QED  BY <1>1, <2>2, <2>3
<1>2. CASE p = PhaseAccepted /\ q = PhaseRealmProvisioned
  <2>1. /\ p = PhaseRank[2] /\ q = PhaseRank[4]
        /\ PhaseRank[3] = PhaseRealmProvisioning
    BY <1>2 DEF PhaseRank
  <2>2. PICK j \in 1..4 : In(r, Makes(PhaseRank[j]))
    BY <2>1, PromisedRank
  <2>3. CASE j \in 1..2
    BY <2>1, <2>2, <2>3, PromisedRank
  <2>4. CASE j = 3
    BY <2>1, <2>2, <2>4, MakesValues DEF In
  <2>5. CASE j = 4
    BY <2>1, <2>2, <2>5
  <2>. QED  BY <2>3, <2>4, <2>5
<1>3. \/ p = PhaseAccepted /\ q = PhaseRealmProvisioned
      \/ \E i \in 1..9 : p = PhaseRank[i] /\ q = PhaseRank[i + 1]
  BY PhaseRanks DEF Advance
<1>4. \A i \in 1..9 : i + 1 \in 1..10
  OBVIOUS
<1>. QED  BY <1>1, <1>2, <1>3, <1>4

\* A new object promises nothing.
LEMMA PromisedFirst == Promised(NoPhase) = {}
<1>1. NoPhase = PhaseRank[1]
  BY DEF PhaseRank
<1>. HIDE DEF PhaseRank
<1>2. ASSUME NEW r \in Promised(NoPhase)
      PROVE  FALSE
  <2>1. In(r, Makes(NoPhase))
    BY <1>1, <1>2, PromisedRank
  <2>. QED  BY <2>1, MakesValues DEF In
<1>. QED  BY <1>2

\* What was made on the way to an earlier phase is promised.
LEMMA PromisedBefore ==
    ASSUME NEW i \in 1..10, NEW j \in 1..i, NEW r, In(r, Makes(PhaseRank[j]))
    PROVE  r \in Promised(PhaseRank[i])
BY PromisedRank

\* The references of the resources that have none.
LEMMA NoReferences ==
    ASSUME NEW r, r \notin {DatabaseDeployment, BusinessCentralDeployment,
                            KieServerDeployment}
    PROVE  References(r) = {}
BY DEF References

\* What the deployments refer to.
LEMMA DeploymentReferences ==
    /\ References(DatabaseDeployment) = DatabaseReferences
    /\ References(BusinessCentralDeployment) = BusinessCentralReferences
    /\ References(KieServerDeployment) = KieServerReferences
BY DEF References, DatabaseDeployment, BusinessCentralDeployment,
   KieServerDeployment

\* What earlier phases promise of it.
LEMMA PromisedReferences ==
    /\ ServiceAccount \in Promised(PhasePrepared)
    /\ {ServiceAccount, BusinessCentralRealmSecret}
          \subseteq Promised(PhaseDatabaseInstalled)
    /\ {ServiceAccount, KieServerRealmSecret, DatabaseCredentialsSecret,
        DatabaseService, BusinessCentralService}
          \subseteq Promised(PhaseDatabaseReady)
<1>1. /\ PhaseRank[4] = PhaseRealmProvisioned /\ PhaseRank[6] = PhasePrepared
      /\ PhaseRank[7] = PhaseDatabaseInstalled
      /\ PhaseRank[8] = PhaseBusinessCentralInstalled
      /\ PhaseRank[9] = PhaseDatabaseReady
  BY DEF PhaseRank
<1>. HIDE DEF PhaseRank
<1>2. /\ In(BusinessCentralRealmSecret, Makes(PhaseRank[4]))
      /\ In(KieServerRealmSecret, Makes(PhaseRank[4]))
  <2>1. Makes(PhaseRank[4]) = <<BusinessCentralRealmSecret, KieServerRealmSecret>>
    BY <1>1, MakesValues DEF SecretOrder
  <2>2. /\ 1 \in DOMAIN Makes(PhaseRank[4]) /\ 2 \in DOMAIN Makes(PhaseRank[4])
        /\ Makes(PhaseRank[4])[1] = BusinessCentralRealmSecret
        /\ Makes(PhaseRank[4])[2] = KieServerRealmSecret
    BY <2>1
  <2>. QED  BY <2>2 DEF In
<1>3. In(ServiceAccount, Makes(PhaseRank[6]))
  <2>1. Makes(PhaseRank[6]) = <<ServiceAccount>>
    BY <1>1, MakesValues
  <2>2. 1 \in DOMAIN Makes(PhaseRank[6]) /\ Makes(PhaseRank[6])[1] = ServiceAccount
    BY <2>1
  <2>. QED  BY <2>2 DEF In
<1>4. /\ In(DatabaseCredentialsSecret, Makes(PhaseRank[7]))
      /\ In(DatabaseService, Makes(PhaseRank[7]))
  <2>1. Makes(PhaseRank[7]) =
          <<DatabaseCredentialsSecret, DatabaseInitConfigmap, DatabasePvc,
            DatabaseService, DatabaseDeployment>>
    BY <1>1, MakesValues
  <2>2. /\ 1 \in DOMAIN Makes(PhaseRank[7]) /\ 4 \in DOMAIN Makes(PhaseRank[7])
        /\ Makes(PhaseRank[7])[1] = DatabaseCredentialsSecret
        /\ Makes(PhaseRank[7])[4] = DatabaseService
    BY <2>1
  <2>. QED  BY <2>2 DEF In
<1>5. In(BusinessCentralService, Makes(PhaseRank[8]))
  <2>1. Makes(PhaseRank[8]) =
          <<BusinessCentralPvc, BusinessCentralService,
            BusinessCentralRoute, BusinessCentralDeployment>>
    BY <1>1, MakesValues
  <2>2. /\ 2 \in DOMAIN Makes(PhaseRank[8])
        /\ Makes(PhaseRank[8])[2] = BusinessCentralService
    BY <2>1
  <2>. QED  BY <2>2 DEF In
<1>6. ServiceAccount \in Promised(PhaseRank[6])
  BY <1>3, PromisedBefore
<1>7. /\ ServiceAccount \in Promised(PhaseRank[7])
      /\ BusinessCentralRealmSecret \in Promised(PhaseRank[7])
  BY <1>2, <1>3, PromisedBefore
<1>8. /\ ServiceAccount \in Promised(PhaseRank[9])
      /\ KieServerRealmSecret \in Promised(PhaseRank[9])
      /\ DatabaseCredentialsSecret \in Promised(PhaseRank[9])
      /\ DatabaseService \in Promised(PhaseRank[9])
      /\ BusinessCentralService \in Promised(PhaseRank[9])
  BY <1>2, <1>3, <1>4, <1>5, PromisedBefore
<1>. QED  BY <1>1, <1>6, <1>7, <1>8

\* A run makes a deployment after all that it refers to.
LEMMA ReferencesMade ==
    ASSUME NEW p, NEW q, <<p, q>> \in RunMoves \/ q = PhaseRealmProvisioned,
           NEW k \in DOMAIN Makes(q), NEW x \in References(Makes(q)[k])
    PROVE  x \in Promised(p) \/ \E i \in 1..(k - 1) : x = Makes(q)[i]
<1>1. CASE q \in {PhaseAccepted, PhaseDatabaseReady}
  BY <1>1, MakesValues
<1>2. CASE q = PhaseRealmProvisioned
  <2>1. Makes(q)[k] \in {BusinessCentralRealmSecret, KieServerRealmSecret}
    BY <1>2, MakesValues DEF SecretOrder
  <2>2. References(Makes(q)[k]) = {}
    BY <2>1, NoReferences DEF BusinessCentralRealmSecret, KieServerRealmSecret,
       DatabaseDeployment, BusinessCentralDeployment, KieServerDeployment
  <2>. QED  BY <2>2
<1>3. CASE q = PhasePrepared
  <2>1. Makes(q) = <<ServiceAccount>>
    BY <1>3, MakesValues
  <2>2. Makes(q)[k] = ServiceAccount
    BY <2>1
  <2>3. References(Makes(q)[k]) = {}
    BY <2>2, NoReferences DEF ServiceAccount,
       DatabaseDeployment, BusinessCentralDeployment, KieServerDeployment
  <2>. QED  BY <2>3
<1>4. CASE p = PhasePrepared /\ q = PhaseDatabaseInstalled
  <2>1. Makes(q) =
          <<DatabaseCredentialsSecret, DatabaseInitConfigmap, DatabasePvc,
            DatabaseService, DatabaseDeployment>>
    BY <1>4, MakesValues
  <2>2. CASE k = 5
    <3>1. x \in DatabaseReferences
      BY <2>1, <2>2, DeploymentReferences
    <3>. QED  BY <1>4, <2>1, <2>2, <3>1, PromisedReferences DEF DatabaseReferences
  <2>3. CASE k # 5
    <3>1. Makes(q)[k] \in {DatabaseCredentialsSecret, DatabaseInitConfigmap,
                           DatabasePvc, DatabaseService}
      BY <2>1, <2>3
    <3>2. References(Makes(q)[k]) = {}
      BY <3>1, NoReferences DEF DatabaseCredentialsSecret, DatabaseInitConfigmap,
         DatabasePvc, DatabaseService,
         DatabaseDeployment, BusinessCentralDeployment, KieServerDeployment
    <3>. QED  BY <3>2
  <2>. QED  BY <2>2, <2>3
<1>5. CASE p = PhaseDatabaseInstalled /\ q = PhaseBusinessCentralInstalled
  <2>1. Makes(q) =
          <<BusinessCentralPvc, BusinessCentralService,
            BusinessCentralRoute, BusinessCentralDeployment>>
    BY <1>5, MakesValues
  <2>2. CASE k = 4
    <3>1. x \in BusinessCentralReferences
      BY <2>1, <2>2, DeploymentReferences
    <3>. QED  BY <1>5, <2>1, <2>2, <3>1, PromisedReferences
              DEF BusinessCentralReferences
  <2>3. CASE k # 4
    <3>1. Makes(q)[k] \in {BusinessCentralPvc, BusinessCentralService,
                           BusinessCentralRoute}
      BY <2>1, <2>3
    <3>2. References(Makes(q)[k]) = {}
      BY <3>1, NoReferences DEF BusinessCentralPvc, BusinessCentralService,
         BusinessCentralRoute,
         DatabaseDeployment, BusinessCentralDeployment, KieServerDeployment
    <3>. QED  BY <3>2
  <2>. QED  BY <2>2, <2>3
<1>6. CASE p = PhaseDatabaseReady /\ q = PhaseComplete
  <2>1. Makes(q) = <<KieServerService, KieServerRoute, KieServerDeployment>>
    BY <1>6, MakesValues
  <2>2. CASE k = 3
    <3>1. x \in KieServerReferences
      BY <2>1, <2>2, DeploymentReferences
    <3>. QED  BY <1>6, <2>1, <2>2, <3>1, PromisedReferences DEF KieServerReferences
  <2>3. CASE k # 3
    <3>1. Makes(q)[k] \in {KieServerService, KieServerRoute}
      BY <2>1, <2>3
    <3>2. References(Makes(q)[k]) = {}
      BY <3>1, NoReferences DEF KieServerService, KieServerRoute,
         DatabaseDeployment, BusinessCentralDeployment, KieServerDeployment
    <3>. QED  BY <3>2
  <2>. QED  BY <2>2, <2>3
<1>. QED  BY <1>1, <1>2, <1>3, <1>4, <1>5, <1>6 DEF RunMoves

-----------------------------------------------------------------------------
(* What a step may do to the life of a RhpamDev, the realms, the run in    *)
(* progress and the resources.                                             *)

\* A RhpamDev that is being deleted ends when its run of Deprovision saves,
\* one that is created in a tidy namespace finds it empty, and a phase that
\* promises resources is saved by a run.
StoreStep ==
    \A d \in Devs :
        /\ dev[d].exists /\ dev[d].deleting /\ ~dev'[d].exists =>
              /\ job # Idle /\ job.name = d /\ job.copy = dev[d]
              /\ job.to = PhaseDeprovisioned /\ job' = Idle
              /\ UNCHANGED devCache
        /\ Tidy /\ ~dev[d].exists /\ dev'[d].exists =>
              /\ \A e \in Devs : ~dev[e].exists
              /\ seen = {} /\ \A r \in Resources : ~Live(r)
              /\ UNCHANGED <<res, seen>>
        /\ SameDev(d) =>
              \/ dev'[d].phase = dev[d].phase \/ Makes(dev'[d].phase) = <<>>
              \/ /\ job # Idle /\ job.name = d /\ job.pc = "save"
                 /\ dev'[d].phase = job.to /\ job.to # PhaseDeprovisioned

\* A realm is created only by a run of ProvisionRealm.
GrowStep ==
    \/ realms' \subseteq realms
    \/ /\ job # Idle /\ job.to = PhaseRealmProvisioned
       /\ UNCHANGED <<dev, devCache, devWatch>>
       /\ \A r \in realms' \ realms : r[1] = job.name

\* A run starts from the cache with all calls of its stage to make.
RunStarts ==
    /\ job = Idle /\ job' # Idle
    /\ job'.name \in Devs /\ job'.copy = devCache[job'.name]
    /\ UNCHANGED <<dev, devCache, devWatch>>
    /\ job'.to = PhaseDeprovisioned => job'.pc = "deleteRealm"
    /\ job'.pc # "secrets"
    /\ job'.pc \in {"create", "save"} => job'.todo = Makes(job'.to)
    /\ job'.pc = "save" => job'.todo = <<>>

\* It goes on with the secrets once the clients are made, and past a call
\* when what that makes is there.
RunGoesOnWith ==
    \/ job' = job
    \/ job'.pc \in {"realm", "clients"}
    \/ job'.pc = "secrets" /\ job'.todo = SecretOrder
       /\ job.to = PhaseRealmProvisioned
    \/ /\ job.pc \in {"secrets", "create"}
       /\ job'.copy = job.copy
       /\ job'.todo = Tail(job.todo)
       /\ job'.pc = IF Tail(job.todo) = <<>> THEN "save" ELSE job.pc
       /\ res'[Head(job.todo)] # NoResource \/ Head(job.todo) \in seen

RunGoes ==
    /\ job # Idle /\ job' # Idle
    /\ job'.name = job.name /\ job'.to = job.to
    /\ \/ job'.copy = job.copy
       \/ /\ job.to = PhaseRealmProvisioned
          /\ dev'[job.name].exists /\ job'.copy = dev'[job.name]
    /\ job.to = PhaseDeprovisioned =>
          /\ job'.copy = job.copy
          /\ job.pc = "deleteRealm" /\ job'.pc # "deleteRealm" =>
                job.copy.realm \in realms
    /\ job.to # PhaseDeprovisioned => RunGoesOnWith

RunStep == job' = Idle \/ RunStarts \/ RunGoes

\* A resource goes when its owner has gone or a run of Deprovision deletes it,
\* comes with the next call of a run, and is not seen before it has come.
ResStep ==
    /\ \A r \in Resources :
          /\ Live(r) /\ Live(r)' => res'[r] = res[r]
          /\ Live(r) /\ ~Live(r)' =>
                \/ ~OwnedBy(r, res[r].owner)
                \/ /\ job # Idle /\ job.pc = "delete"
                   /\ job.to = PhaseDeprovisioned
          /\ ~Live(r) /\ Live(r)' =>
                /\ UNCHANGED dev
                /\ job # Idle /\ job.pc \in {"secrets", "create"}
                /\ job.to # PhaseDeprovisioned
                /\ r = Head(job.todo)
                /\ res'[r].owner = job.name /\ res'[r].uid = job.copy.uid
    /\ \A r \in seen' : r \in seen \/ Live(r)'

\* What leaves them alone.
LEMMA QuietStep ==
    /\ UNCHANGED dev => StoreStep
    /\ UNCHANGED realms => GrowStep
    /\ job' = job \/ job' = Idle => RunStep
    /\ UNCHANGED <<res, seen>> => ResStep
<1>1. UNCHANGED dev => StoreStep
  BY DEF StoreStep, SameDev
<1>2. UNCHANGED realms => GrowStep
  BY DEF GrowStep
<1>3. job' = job \/ job' = Idle => RunStep
  BY DEF RunStep, RunGoes, RunGoesOnWith
<1>4. UNCHANGED <<res, seen>> => ResStep
  BY DEF ResStep, Live
<1>. QED  BY <1>1, <1>2, <1>3, <1>4

\* The four facts together.
StepFacts == StoreStep /\ GrowStep /\ RunStep /\ ResStep

\* A handler starts a run, requeues its key or drops it.
LEMMA HandlerResources ==
    ASSUME RealmIInv, NEW d \in Devs, DevHandler(d)
    PROVE  StepFacts
<1>1. ASSUME NEW pc, NEW to, NEW todo, Start(d, pc, to, todo),
             to = PhaseDeprovisioned => pc = "deleteRealm",
             pc \in {"mark", "create", "save", "deleteRealm"},
             pc \in {"create", "save"} => todo = Makes(to),
             pc = "save" => todo = <<>>
      PROVE  StepFacts
  <2>1. /\ job = Idle
        /\ job' = [pc |-> pc, name |-> d, copy |-> devCache[d], to |-> to,
                   realm |-> NoRealm, todo |-> todo, users |-> {}]
        /\ UNCHANGED <<dev, devCache, devWatch, res, seen, realms>>
    BY <1>1 DEF Start, Take, resVars, ssoVars
  <2>2. job' # Idle
    <3>1. job'.pc # "idle"
      BY <1>1, <2>1
    <3>. QED  BY <3>1 DEF Idle
  <2>3. RunStarts
    BY <1>1, <2>1, <2>2 DEF RunStarts
  <2>. QED  BY <2>1, <2>3, QuietStep DEF StepFacts, RunStep
<1>. USE MakesValues
<1>2. CASE InitializeDev(d)
  BY <1>1, <1>2 DEF InitializeDev, PhaseAccepted, PhaseDeprovisioned
<1>3. CASE ProvisionRealm(d)
  BY <1>1, <1>3 DEF ProvisionRealm, PhaseRealmProvisioned, PhaseDeprovisioned
<1>4. CASE Prepare(d)
  BY <1>1, <1>4 DEF Prepare, PhasePrepared, PhaseDeprovisioned
<1>5. CASE InstallDatabase(d)
  BY <1>1, <1>5 DEF InstallDatabase, PhaseDatabaseInstalled, PhaseDeprovisioned
<1>6. CASE InstallBusinessCentral(d)
  BY <1>1, <1>6 DEF InstallBusinessCentral, PhaseBusinessCentralInstalled,
     PhaseDeprovisioned
<1>7. CASE WaitForDatabase(d)
  <2>1. CASE Start(d, "save", PhaseDatabaseReady, <<>>)
    BY <1>1, <2>1 DEF PhaseDatabaseReady, PhaseDeprovisioned
  <2>2. CASE UNCHANGED devCtlVars
    BY <2>2, QuietStep DEF StepFacts, devCtlVars, devVars, resVars, ssoVars
  <2>. QED  BY <1>7, <2>1, <2>2 DEF WaitForDatabase
<1>8. CASE InstallKieServer(d)
  BY <1>1, <1>8 DEF InstallKieServer, PhaseComplete, PhaseDeprovisioned
<1>9. CASE DeprovisionDev(d)
  BY <1>1, <1>9 DEF DeprovisionDev
<1>10. CASE DropDev(d)
  BY <1>10, QuietStep DEF DropDev, Take, StepFacts, resVars, ssoVars
<1>. QED  BY <1>2, <1>3, <1>4, <1>5, <1>6, <1>7, <1>8, <1>9, <1>10 DEF DevHandler

\* Making a resource.
LEMMA CreateResources ==
    ASSUME RealmIInv, job # Idle, UNCHANGED <<dev, realms, seen>>,
           NEW realm \in Realms, job.pc \in {"secrets", "create"},
           \/ Create(Head(job.todo), realm, [job EXCEPT !.pc = "save", !.todo = <<>>])
           \/ Requeue /\ UNCHANGED res
    PROVE  StepFacts
<1>. DEFINE r == Head(job.todo)
            done == [job EXCEPT !.pc = "save", !.todo = <<>>]
            h == [owner |-> job.name, uid |-> job.copy.uid, realm |-> realm]
<1>1. /\ job \in JobRecords /\ job.to # PhaseDeprovisioned
      /\ res \in [Resources -> Held \cup {NoResource}]
      /\ job.todo \in Seq(About(job.pc)) /\ job.todo # <<>>
  BY CallPurpose DEF RealmIInv, DevIInv, DevTypeOK, ClusterTypeOK, Job,
     PhaseRealmProvisioned, PhaseDeprovisioned
<1>2. r \in Resources
  BY <1>1 DEF About, Resources, RealmSecrets
<1>3. h # NoResource
  <2>1. h \in Held
    BY <1>1 DEF JobRecords, D!Object, Held
  <2>. QED  BY <2>1, NoResourceAssumption
<1>4. h.owner = job.name /\ h.uid = job.copy.uid
  OBVIOUS
<1>5. CASE Requeue /\ UNCHANGED res
  BY <1>5, QuietStep DEF Requeue, StepFacts
<1>6. CASE Create(r, realm, done)
  <2>. DEFINE made == \/ res' = res
                      \/ ~Live(r) /\ res' = [res EXCEPT ![r] = h]
              goes == \/ Proceed(done) /\ (res'[r] # NoResource \/ r \in seen)
                      \/ Requeue
  <2>1. made /\ goes
    <3>1. CASE FoundInCache(r) /\ Proceed(done) /\ UNCHANGED res
      BY <3>1 DEF FoundInCache
    <3>2. ASSUME NEW o \in Outcomes,
                 res' = IF o = "failed" \/ Live(r) THEN res
                        ELSE [res EXCEPT ![r] = h],
                 IF ReturnsNil(o, ~(Live(r) /\ r \in LookedUpInCache))
                 THEN Proceed(done) ELSE Requeue
          PROVE  made /\ goes
      <4>1. CASE ReturnsNil(o, ~(Live(r) /\ r \in LookedUpInCache))
        <5>1. o = "ok" /\ Proceed(done)
          BY <3>2, <4>1 DEF ReturnsNil
        <5>2. CASE Live(r)
          BY <3>2, <5>1, <5>2 DEF Live
        <5>3. CASE ~Live(r)
          <6>. HIDE DEF r, h, done
          <6>1. res' = [res EXCEPT ![r] = h]
            BY <3>2, <5>1, <5>3
          <6>2. res'[r] = h
            BY <1>1, <1>2, <6>1
          <6>. QED  BY <1>3, <5>1, <5>3, <6>1, <6>2 DEF Live
        <5>. QED  BY <5>2, <5>3
      <4>2. CASE ~ReturnsNil(o, ~(Live(r) /\ r \in LookedUpInCache))
        <5>. HIDE DEF r, h, done
        <5>. QED  BY <3>2, <4>2
      <4>. QED  BY <4>1, <4>2
    <3>. QED  BY <1>6, <3>1, <3>2 DEF Create
  <2>2. ResStep
    <3>. HIDE DEF h
    <3>1. CASE res' = res
      BY <3>1, QuietStep
    <3>2. CASE ~Live(r) /\ res' = [res EXCEPT ![r] = h]
      <4>1. /\ res'[r].owner = job.name /\ res'[r].uid = job.copy.uid
            /\ \A x \in Resources : x # r => res'[x] = res[x]
        BY <1>1, <1>2, <1>4, <3>2
      <4>2. ASSUME NEW x \in Resources, x # r
            PROVE  /\ Live(x)' <=> Live(x)
                   /\ res'[x] = res[x]
        BY <4>1, <4>2 DEF Live
      <4>. HIDE DEF r
      <4>. QED  BY <1>1, <3>2, <4>1, <4>2 DEF ResStep, r
    <3>. QED  BY <2>1, <3>1, <3>2
  <2>3. RunStep
    <3>1. CASE Requeue
      BY <3>1 DEF RunStep, Requeue
    <3>2. CASE Proceed(done) /\ (res'[r] # NoResource \/ r \in seen)
      <4>1. /\ job'.pc = IF Tail(job.todo) = <<>> THEN "save" ELSE job.pc
            /\ job'.todo = Tail(job.todo)
            /\ job'.name = job.name /\ job'.to = job.to /\ job'.copy = job.copy
        <5>1. CASE Len(job.todo) > 1
          <6>1. job' = [job EXCEPT !.todo = Tail(@)]
            BY <3>2, <5>1 DEF Proceed
          <6>2. Len(Tail(job.todo)) = Len(job.todo) - 1 /\ Len(job.todo) \in Nat
            BY <1>1
          <6>3. Tail(job.todo) # <<>>
            BY <5>1, <6>2
          <6>. QED  BY <1>1, <6>1, <6>3 DEF JobRecords
        <5>2. CASE ~(Len(job.todo) > 1)
          <6>1. job' = done
            BY <3>2, <5>2 DEF Proceed
          <6>2. Tail(job.todo) = <<>>
            BY <1>1, <5>2
          <6>. QED  BY <1>1, <6>1, <6>2 DEF JobRecords
        <5>. QED  BY <5>1, <5>2
      <4>2. job' # Idle
        <5>1. job'.pc # "idle"
          BY <4>1
        <5>. QED  BY <5>1 DEF Idle
      <4>3. RunGoesOnWith
        BY <3>2, <4>1 DEF RunGoesOnWith, Live
      <4>. QED  BY <1>1, <4>1, <4>2, <4>3 DEF RunStep, RunGoes
    <3>. QED  BY <2>1, <3>1, <3>2
  <2>. QED  BY <2>2, <2>3, QuietStep DEF StepFacts
<1>. QED  BY <1>5, <1>6

\* The calls that do not write the RhpamDev.
LEMMA CallResources ==
    ASSUME RealmIInv, DevCall, ~Mark, ~Save
    PROVE  StepFacts
<1>1. job # Idle
  <2>1. job.pc # "idle"
    BY DEF DevCall, CreateRealm, CreateClient, CreateRealmSecret,
       CreateResource, DeleteRealm, ListUsers, DetachUser, DeleteResource
  <2>. QED  BY <2>1 DEF Idle
<1>2. UNCHANGED dev
  BY DEF DevCall, CreateRealm, CreateClient, CreateRealmSecret,
     CreateResource, DeleteRealm, ListUsers, DetachUser, DeleteResource, devVars
<1>3. StoreStep
  BY <1>2, QuietStep
<1>4. job \in JobRecords
  BY <1>1, CallPurpose
<1>5. ASSUME job'.pc # "idle"
      PROVE  job' # Idle
  BY <1>5 DEF Idle
<1>6. CASE CreateRealm
  <2>1. job.to = PhaseRealmProvisioned
    BY <1>1, <1>6, CallPurpose DEF CreateRealm
  <2>2. PICK o \in Outcomes, t \in generateToken :
          /\ IF o = "failed" THEN UNCHANGED realms
             ELSE SsoCreateRealm(RealmId(job.name, t))
          /\ \/ job' = [job EXCEPT !.pc = "clients", !.realm = RealmId(job.name, t)]
             \/ job' = Idle
    BY <1>6 DEF CreateRealm, Requeue
  <2>3. UNCHANGED <<dev, devCache, devWatch, res, seen>>
    BY <1>6 DEF CreateRealm, resVars
  <2>4. GrowStep
    <3>1. CASE UNCHANGED realms
      BY <3>1, QuietStep
    <3>2. CASE realms' = realms \cup {RealmId(job.name, t)}
      BY <1>1, <2>1, <2>3, <3>2 DEF GrowStep, RealmId
    <3>. QED  BY <2>2, <3>1, <3>2 DEF SsoCreateRealm
  <2>5. RunStep
    <3>1. CASE job' = [job EXCEPT !.pc = "clients", !.realm = RealmId(job.name, t)]
      <4>1. /\ job'.pc = "clients" /\ job'.name = job.name
            /\ job'.to = job.to /\ job'.copy = job.copy
        BY <1>4, <3>1 DEF JobRecords
      <4>. QED  BY <1>1, <1>5, <2>1, <4>1 DEF RunStep, RunGoes, RunGoesOnWith,
                PhaseRealmProvisioned, PhaseDeprovisioned
    <3>. QED  BY <2>2, <3>1, QuietStep
  <2>. QED  BY <1>3, <2>3, <2>4, <2>5, QuietStep DEF StepFacts
<1>7. CASE CreateClient
  <2>1. job.to = PhaseRealmProvisioned /\ job.pc = "clients"
    BY <1>1, <1>7, CallPurpose DEF CreateClient
  <2>2. /\ UNCHANGED <<realms, res, seen>>
        /\ \/ job' = [job EXCEPT !.todo = Tail(@)]
           \/ job' = [job EXCEPT !.pc = "secrets", !.todo = SecretOrder]
           \/ job' = Idle
    BY <1>7 DEF CreateClient, SsoCreateClient, Requeue, Proceed, ssoVars, resVars
  <2>3. RunStep
    <3>1. ASSUME job' # Idle
          PROVE  /\ job'.name = job.name /\ job'.to = job.to /\ job'.copy = job.copy
                 /\ \/ job'.pc = "clients"
                    \/ job'.pc = "secrets" /\ job'.todo = SecretOrder
      BY <1>4, <2>1, <2>2, <3>1 DEF JobRecords
    <3>. QED  BY <1>1, <2>1, <3>1 DEF RunStep, RunGoes, RunGoesOnWith,
              PhaseRealmProvisioned, PhaseDeprovisioned
  <2>. QED  BY <1>3, <2>2, <2>3, QuietStep DEF StepFacts
<1>8. CASE CreateRealmSecret
  <2>1. /\ UNCHANGED <<dev, realms, seen>> /\ job.pc = "secrets"
        /\ job.realm \in Realms
    BY <1>4, <1>8 DEF CreateRealmSecret, ssoVars, JobRecords
  <2>2. \/ Create(Head(job.todo), job.realm, [job EXCEPT !.pc = "save", !.todo = <<>>])
        \/ Requeue /\ UNCHANGED res
    BY <1>8 DEF CreateRealmSecret
  <2>. QED  BY <1>1, <2>1, <2>2, CreateResources
<1>9. CASE CreateResource
  <2>1. /\ UNCHANGED <<dev, realms, seen>> /\ job.pc = "create" /\ NoRealm \in Realms
    BY <1>9 DEF CreateResource, ssoVars, Realms
  <2>2. Create(Head(job.todo), NoRealm, [job EXCEPT !.pc = "save", !.todo = <<>>])
    BY <1>9 DEF CreateResource
  <2>. QED  BY <1>1, <2>1, <2>2, CreateResources
<1>10. ASSUME job.to = PhaseDeprovisioned, job' = Idle \/
                /\ job'.name = job.name /\ job'.to = job.to
                /\ job'.copy = job.copy /\ job'.pc # "idle"
                /\ job.pc = "deleteRealm" => job.copy.realm \in realms
       PROVE  RunStep
  BY <1>1, <1>5, <1>10 DEF RunStep, RunGoes
<1>11. CASE DeleteRealm
  <2>1. job.to = PhaseDeprovisioned /\ job.pc = "deleteRealm"
    BY <1>1, <1>11, CallPurpose DEF DeleteRealm
  <2>2. /\ UNCHANGED <<res, seen>> /\ realms' \subseteq realms
        /\ \/ job.copy.realm \in realms /\ job' = [job EXCEPT !.pc = "list"]
           \/ job' = Idle
    BY <1>11 DEF DeleteRealm, SsoDeleteRealm, Requeue, ReturnsNil, ssoVars, resVars
  <2>3. RunStep
    <3>1. CASE job.copy.realm \in realms /\ job' = [job EXCEPT !.pc = "list"]
      <4>1. /\ job'.name = job.name /\ job'.to = job.to
            /\ job'.copy = job.copy /\ job'.pc = "list"
        BY <1>4, <3>1 DEF JobRecords
      <4>. QED  BY <1>10, <2>1, <3>1, <4>1
    <3>. QED  BY <2>2, <3>1, QuietStep
  <2>. QED  BY <1>3, <2>2, <2>3, QuietStep DEF StepFacts, GrowStep
<1>12. CASE ListUsers
  <2>1. job.to = PhaseDeprovisioned /\ job.pc = "list"
    BY <1>1, <1>12, CallPurpose DEF ListUsers
  <2>2. /\ UNCHANGED <<res, seen, realms>>
        /\ job'.name = job.name /\ job'.to = job.to
        /\ job'.copy = job.copy /\ job'.pc \in {"delete", "users"}
    BY <1>4, <1>12 DEF ListUsers, resVars, ssoVars, JobRecords
  <2>3. RunStep
    BY <1>10, <2>1, <2>2
  <2>. QED  BY <1>3, <2>2, <2>3, QuietStep DEF StepFacts
<1>13. CASE DetachUser
  <2>1. job.to = PhaseDeprovisioned /\ job.pc = "users"
    BY <1>1, <1>13, CallPurpose DEF DetachUser
  <2>2. /\ UNCHANGED <<res, seen, realms>>
        /\ job'.name = job.name /\ job'.to = job.to
        /\ job'.copy = job.copy /\ job'.pc \in {"delete", "users"}
    BY <1>4, <1>13, <2>1 DEF DetachUser, resVars, ssoVars, JobRecords
  <2>3. RunStep
    BY <1>10, <2>1, <2>2
  <2>. QED  BY <1>3, <2>2, <2>3, QuietStep DEF StepFacts
<1>14. CASE DeleteResource
  <2>1. job.to = PhaseDeprovisioned /\ job.pc = "delete"
    BY <1>1, <1>14, CallPurpose DEF DeleteResource
  <2>2. /\ UNCHANGED <<seen, realms>>
        /\ \/ job' = [job EXCEPT !.todo = Tail(@)]
           \/ job' = [job EXCEPT !.pc = "save", !.todo = <<>>]
        /\ res' = res \/ res' = [res EXCEPT ![Head(job.todo)] = NoResource]
    BY <1>14 DEF DeleteResource, Proceed, ssoVars
  <2>3. RunStep
    <3>1. /\ job'.name = job.name /\ job'.to = job.to
          /\ job'.copy = job.copy /\ job'.pc \in {"delete", "save"}
      BY <1>4, <2>1, <2>2 DEF JobRecords
    <3>. QED  BY <1>10, <2>1, <3>1
  <2>4. ResStep
    <3>1. res \in [Resources -> Held \cup {NoResource}]
      BY DEF RealmIInv, DevIInv, DevTypeOK, ClusterTypeOK
    <3>2. \A x \in Resources : res'[x] \in {res[x], NoResource}
      BY <2>2, <3>1
    <3>. QED  BY <1>1, <2>1, <2>2, <3>2 DEF ResStep, Live
  <2>. QED  BY <1>3, <2>2, <2>3, <2>4, QuietStep DEF StepFacts
<1>. QED  BY <1>6, <1>7, <1>8, <1>9, <1>11, <1>12, <1>13, <1>14 DEF DevCall

\* A step that writes one RhpamDev, and no resource.
LEMMA OneStored ==
    ASSUME D!TypeOK, NEW d \in Devs, NEW v,
           dev' = dev \/ dev' = [dev EXCEPT ![d] = v],
           dev[d].exists /\ dev[d].deleting /\ ~v.exists =>
              /\ job # Idle /\ job.name = d /\ job.copy = dev[d]
              /\ job.to = PhaseDeprovisioned /\ job' = Idle
              /\ UNCHANGED devCache,
           Tidy /\ ~dev[d].exists /\ v.exists =>
              /\ \A e \in Devs : ~dev[e].exists
              /\ seen = {} /\ \A r \in Resources : ~Live(r)
              /\ UNCHANGED <<res, seen>>,
           dev[d].exists /\ v.exists =>
              \/ v.phase = dev[d].phase \/ Makes(v.phase) = <<>>
              \/ /\ job # Idle /\ job.name = d /\ job.pc = "save"
                 /\ v.phase = job.to /\ job.to # PhaseDeprovisioned
    PROVE  StoreStep
<1>1. CASE dev' = dev
  BY <1>1, QuietStep
<1>2. CASE dev' = [dev EXCEPT ![d] = v]
  <2>1. dev'[d] = v /\ \A e \in Devs : e # d => dev'[e] = dev[e]
    BY <1>2 DEF D!TypeOK
  <2>. QED  BY <2>1 DEF StoreStep, SameDev
<1>. QED  BY <1>1, <1>2

\* What an update of d to u stores.
LEMMA UpdateStores ==
    ASSUME NEW d \in Devs, NEW u \in D!Object, D!Update(d, u), u.exists,
           D!TypeOK
    PROVE  /\ dev' = dev \/ dev' = [dev EXCEPT ![d] = D!Result(d, u)]
           /\ dev'[d] = D!Result(d, u)
           /\ ~(u.deleting /\ ~u.fin) =>
                 D!Result(d, u).exists /\ D!Result(d, u).phase = u.phase
<1>. DEFINE w == D!Result(d, u)
<1>1. CASE w = dev[d]
  <2>1. dev' = dev
    BY <1>1 DEF D!Update
  <2>. QED  BY <1>1, <2>1 DEF D!Result, D!Object
<1>2. CASE w # dev[d]
  <2>1. dev' = [dev EXCEPT ![d] = w]
    BY <1>2 DEF D!Update, D!Store
  <2>. HIDE DEF w
  <2>2. dev'[d] = w
    BY <2>1 DEF D!TypeOK
  <2>. QED  BY <1>2, <2>1, <2>2 DEF w, D!Result, D!Object
<1>. QED  BY <1>1, <1>2

\* ProvisionRealm announces itself, and goes on with what it stored or had.
LEMMA MarkResources ==
    ASSUME RealmIInv, Mark
    PROVE  StepFacts
<1>. DEFINE marked == [job.copy EXCEPT !.phase = PhaseRealmProvisioning]
            d == job.name
<1>0. job # Idle
  BY DEF Mark, Idle
<1>1. /\ job \in JobRecords /\ D!TypeOK /\ d \in Devs
      /\ job.copy \in D!Object /\ job.to = PhaseRealmProvisioned
      /\ job.copy.exists /\ ~job.copy.deleting
  BY <1>0, CallPurpose DEF Mark, RealmIInv, DevIInv, DevTypeOK, ClusterTypeOK,
     JobRecords, RunSound
<1>2. /\ marked \in D!Object /\ marked.exists /\ ~marked.deleting
      /\ marked.phase = PhaseRealmProvisioning
  BY <1>1 DEF D!Object, StatusPhase
<1>3. PICK o \in Outcomes :
        /\ Put(marked, o)
        /\ job' = [job EXCEPT !.pc = "realm",
                     !.copy = IF ReturnsNil(o, D!Accepts(d, job.copy))
                              THEN D!Result(d, marked) ELSE @]
  BY DEF Mark
<1>4. UNCHANGED <<realms, res, seen>>
  BY DEF Mark, ssoVars, resVars
<1>. HIDE DEF marked
<1>5. D!Update(d, marked) =>
         /\ dev' = dev \/ dev' = [dev EXCEPT ![d] = D!Result(d, marked)]
         /\ dev'[d] = D!Result(d, marked)
         /\ D!Result(d, marked).exists
         /\ D!Result(d, marked).phase = PhaseRealmProvisioning
  BY <1>1, <1>2, UpdateStores
<1>6. StoreStep
  <2>1. CASE D!Update(d, marked) /\ D!Accepts(d, job.copy)
    <3>1. dev[d].exists
      BY <2>1 DEF D!Accepts
    <3>. QED  BY <1>1, <1>5, <2>1, <3>1, MakesValues, OneStored
  <2>2. CASE UNCHANGED dev
    BY <2>2, QuietStep
  <2>. QED  BY <1>3, <2>1, <2>2 DEF Put
<1>7. /\ job'.pc = "realm" /\ job'.name = d /\ job'.to = job.to
      /\ \/ job'.copy = job.copy
         \/ dev'[d].exists /\ job'.copy = dev'[d]
  <2>1. CASE ReturnsNil(o, D!Accepts(d, job.copy))
    <3>1. D!Update(d, marked)
      BY <1>3, <2>1 DEF Put, ReturnsNil
    <3>2. job' = [job EXCEPT !.pc = "realm", !.copy = D!Result(d, marked)]
      BY <1>3, <2>1
    <3>. QED  BY <1>1, <1>5, <3>1, <3>2 DEF JobRecords
  <2>2. CASE ~ReturnsNil(o, D!Accepts(d, job.copy))
    <3>1. job' = [job EXCEPT !.pc = "realm", !.copy = job.copy]
      BY <1>3, <2>2
    <3>. QED  BY <1>1, <3>1 DEF JobRecords
  <2>. QED  BY <2>1, <2>2
<1>8. job' # Idle
  <2>1. job'.pc # "idle"
    BY <1>7
  <2>. QED  BY <2>1 DEF Idle
<1>9. RunStep
  BY <1>0, <1>1, <1>7, <1>8 DEF RunStep, RunGoes, RunGoesOnWith,
     PhaseRealmProvisioned, PhaseDeprovisioned
<1>. QED  BY <1>4, <1>6, <1>9, QuietStep DEF StepFacts

\* A run ends with its update.
LEMMA SaveResources ==
    ASSUME RealmIInv, Save
    PROVE  StepFacts
<1>. DEFINE d == job.name
<1>0. job # Idle /\ job.pc = "save"
  BY DEF Save, Idle
<1>1. /\ job \in JobRecords /\ D!TypeOK /\ d \in Devs /\ DevIInv
      /\ job.copy \in D!Object /\ job.copy.exists
      /\ job.copy.deleting <=> job.to = PhaseDeprovisioned
  BY <1>0, CallPurpose DEF RealmIInv, DevIInv, DevTypeOK, ClusterTypeOK,
     JobRecords, RunSound, RunKeepsRealm
<1>2. PICK o \in Outcomes : Put(Saved, o)
  BY DEF Save
<1>3. UNCHANGED <<devCache, realms, res, seen>> /\ job' = Idle
  BY DEF Save, Requeue, ssoVars, resVars
<1>4. /\ Saved \in D!Object /\ Saved.exists /\ Saved.phase = job.to
      /\ Saved.deleting = job.copy.deleting
  BY <1>1 DEF Saved, JobRecords, D!Object
<1>5. ASSUME D!Update(d, Saved), D!Accepts(d, job.copy)
      PROVE  StoreStep
  <2>1. dev[d] = job.copy /\ dev[d].exists
    BY <1>0, <1>1, <1>5, AcceptedCopy
  <2>2. CASE job.to = PhaseDeprovisioned
    <3>1. Saved.deleting /\ ~Saved.fin
      BY <1>1, <1>4, <2>2 DEF Saved, JobRecords, D!Object, PhaseDeprovisioned,
         PhaseAccepted
    <3>2. Saved # dev[d]
      BY <2>1, <2>2, <3>1, <1>0, <1>1 DEF RealmIInv, RealmKept
    <3>3. ~D!Result(d, Saved).exists
      BY <3>1, <3>2 DEF D!Result, D!Absent
    <3>. QED  BY <1>0, <1>1, <1>3, <1>4, <1>5, <2>1, <2>2, <3>3,
                 UpdateStores, OneStored
  <2>3. CASE job.to # PhaseDeprovisioned
    <3>1. D!Result(d, Saved).exists /\ D!Result(d, Saved).phase = job.to
      BY <1>1, <1>4, <1>5, <2>3, UpdateStores
    <3>. QED  BY <1>0, <1>1, <1>4, <1>5, <2>1, <2>3, <3>1, UpdateStores, OneStored
  <2>. QED  BY <2>2, <2>3
<1>6. StoreStep
  BY <1>2, <1>5, QuietStep DEF Put
<1>. QED  BY <1>3, <1>6, QuietStep DEF StepFacts

\* The update of the RhpamUser controller.
LEMMA HandOffResources ==
    ASSUME RealmIInv, NEW d \in Devs, HandOff(d)
    PROVE  StepFacts
<1>. DEFINE u == [dev[d] EXCEPT !.phase = PhasePrepare]
<1>1. /\ D!TypeOK /\ dev[d] \in D!Object /\ RealmKept(d)
      /\ dev[d].exists /\ dev[d].phase = PhaseRealmProvisioned
      /\ D!Update(d, u) /\ UNCHANGED <<job, realms, res, seen>>
  BY DEF HandOff, RealmIInv, DevIInv, DevTypeOK, ClusterTypeOK, D!TypeOK,
     ssoVars, resVars
<1>2. dev[d].fin
  BY <1>1 DEF RealmKept, NoPhase, PhaseRealmProvisioned
<1>3. u \in D!Object /\ u.exists /\ u.fin = dev[d].fin /\ u.phase = PhasePrepare
  BY <1>1 DEF D!Object, StatusPhase
<1>. HIDE DEF u
<1>4. /\ dev' = dev \/ dev' = [dev EXCEPT ![d] = D!Result(d, u)]
      /\ D!Result(d, u).exists /\ D!Result(d, u).phase = PhasePrepare
  BY <1>1, <1>2, <1>3, UpdateStores
<1>5. StoreStep
  BY <1>1, <1>4, MakesValues, OneStored
<1>. QED  BY <1>1, <1>5, QuietStep DEF StepFacts

\* The writes of users.
LEMMA UsersResources ==
    ASSUME RealmIInv, ClusterUsers
    PROVE  StepFacts
<1>1. UNCHANGED <<job, realms, res, seen>>
  BY DEF ClusterUsers, CreateDev, EditDev, DeleteDev, ssoVars, resVars
<1>2. D!TypeOK
  BY DEF RealmIInv, DevIInv, DevTypeOK, ClusterTypeOK
<1>3. PICK d \in Devs : CreateDev(d) \/ EditDev(d) \/ DeleteDev(d)
  BY DEF ClusterUsers
<1>4. dev[d] \in D!Object
  BY <1>2 DEF D!TypeOK
<1>5. ASSUME CreateDev(d)
      PROVE  StoreStep
  <2>1. /\ ~dev[d].exists
        /\ dev' = [dev EXCEPT ![d] = D!Created(dev[d].rv + 1, NoSpec)]
        /\ Tidy => /\ seen = {} /\ \A r \in Resources : ~Live(r)
                   /\ \A e \in Devs : ~dev[e].exists
    BY <1>5 DEF CreateDev, D!UserCreate, D!Store
  <2>. QED  BY <1>1, <1>2, <2>1, OneStored
<1>6. ASSUME EditDev(d)
      PROVE  StoreStep
  <2>. DEFINE v == [dev[d] EXCEPT !.rv = @ + 1, !.spec = NoSpec]
  <2>1. dev[d].exists /\ dev' = [dev EXCEPT ![d] = v]
    BY <1>6 DEF EditDev, D!UserEdit, D!Store
  <2>2. v.exists /\ v.phase = dev[d].phase
    BY <1>4, <2>1 DEF D!Object
  <2>. HIDE DEF v
  <2>. QED  BY <1>2, <2>1, <2>2, OneStored
<1>7. ASSUME DeleteDev(d)
      PROVE  StoreStep
  <2>. DEFINE v == [dev[d] EXCEPT !.rv = @ + 1, !.deleting = TRUE]
  <2>1. /\ dev[d].exists /\ ~dev[d].deleting
        /\ \/ dev' = [dev EXCEPT ![d] = v]
           \/ dev' = [dev EXCEPT ![d] = D!Absent(dev[d].rv + 1)]
    BY <1>7 DEF DeleteDev, D!UserDelete, D!Store
  <2>2. v.exists /\ v.phase = dev[d].phase /\ ~D!Absent(dev[d].rv + 1).exists
    BY <1>4, <2>1 DEF D!Object, D!Absent
  <2>. HIDE DEF v
  <2>. QED  BY <1>2, <2>1, <2>2, OneStored
<1>8. StoreStep
  BY <1>3, <1>5, <1>6, <1>7
<1>. QED  BY <1>1, <1>8, QuietStep DEF StepFacts

\* Every step does to objects, realms, the run and resources what it may.
LEMMA AloneStepResources ==
    ASSUME RealmIInv, [AloneNext]_devCtlVars
    PROVE  StepFacts
<1>1. CASE DevController
  BY <1>1, HandlerResources, CallResources, MarkResources, SaveResources
     DEF DevController
<1>2. ASSUME NEW d \in Devs, HandOff(d)
      PROVE  StepFacts
  BY <1>2, HandOffResources
<1>3. ASSUME UNCHANGED <<dev, realms>>, job' = job \/ job' = Idle, ResStep
      PROVE  StepFacts
  BY <1>3, QuietStep DEF StepFacts
<1>4. ASSUME NEW u \in Users, NEW d \in Devs, Attach(u, d)
      PROVE  StepFacts
  BY <1>3, <1>4, QuietStep DEF Attach, devVars, resVars, ssoVars
<1>5. ASSUME UNCHANGED res, \A r \in seen' : r \in seen \/ Live(r)
      PROVE  ResStep
  BY <1>5 DEF ResStep, Live
<1>6. CASE Informers
  BY <1>3, <1>5, <1>6, QuietStep DEF Informers, DeliverDev, ResyncDev, DeliverUser,
     SyncResources, D!Deliver, D!Resync, devVars, resVars, ssoVars
<1>7. CASE Platform
  <2>1. ASSUME NEW r \in Resources, Collect(r)
        PROVE  ResStep
    <3>1. res \in [Resources -> Held \cup {NoResource}]
      BY DEF RealmIInv, DevIInv, DevTypeOK, ClusterTypeOK
    <3>2. /\ res'[r] = NoResource /\ ~OwnedBy(r, res[r].owner) /\ UNCHANGED seen
          /\ \A x \in Resources : x # r => res'[x] = res[x]
      BY <2>1, <3>1 DEF Collect
    <3>. QED  BY <3>2 DEF ResStep, Live
  <2>2. UNCHANGED <<dev, realms, job>>
    BY <1>7 DEF Platform, DatabaseUp, DatabaseDown, Collect, devVars, ssoVars
  <2>. QED  BY <1>3, <1>7, <2>1, <2>2, QuietStep DEF Platform, DatabaseUp, DatabaseDown
<1>8. CASE ClusterUsers
  BY <1>8, UsersResources
<1>9. CASE Crash
  BY <1>3, <1>5, <1>9 DEF Crash, RestartCluster, D!Relist, ssoVars
<1>10. CASE UNCHANGED devCtlVars
  BY <1>3, <1>10, QuietStep DEF devCtlVars, devVars, resVars, ssoVars
<1>. QED  BY <1>1, <1>2, <1>4, <1>6, <1>7, <1>8, <1>9, <1>10 DEF AloneNext

-----------------------------------------------------------------------------
(* What the finalizer of a copy tells.                                     *)

\* The stored object tells it of itself.
LEMMA StoredHolds ==
    ASSUME NEW d \in Devs, RealmKept(d)
    PROVE  Holds(d, dev[d])
BY DEF RealmKept, Holds

\* What a copy of the run in progress is.
LEMMA RunCopy ==
    ASSUME RealmIInv, HoldersLive, job # Idle
    PROVE  /\ job.name \in Devs /\ job.copy \in D!Object /\ job.copy.exists
           /\ D!Sound(job.name, job.copy) /\ Faithful(job.name, job.copy)
           /\ Holds(job.name, job.copy)
           /\ job.copy.deleting <=> job.to = PhaseDeprovisioned
           /\ job.to = PhaseRealmProvisioned => job.copy.phase # NoPhase
<1>1. /\ job \in JobRecords /\ job.name \in Devs
      /\ D!Sound(job.name, job.copy) /\ job.copy.exists
      /\ job.copy.deleting <=> job.to = PhaseDeprovisioned
      /\ Faithful(job.name, job.copy) /\ Holds(job.name, job.copy)
  BY CallPurpose DEF RealmIInv, DevIInv, RunSound, RunKeepsRealm, HoldersLive
<1>2. job.to = PhaseRealmProvisioned => job.copy.phase # NoPhase
  BY DEF RealmIInv, DevIInv, RunSound, RunMoves, NoPhase, PhaseAccepted,
     PhaseRealmProvisioning, PhaseRealmProvisioned, PhasePrepared,
     PhaseDatabaseInstalled, PhaseBusinessCentralInstalled, PhaseDatabaseReady,
     PhaseComplete, PhaseDeprovisioned
<1>. QED  BY <1>1, <1>2 DEF JobRecords

\* A version in the cache or on its way there is not older than the cache.
LEMMA CopyInCache ==
    ASSUME RealmIInv, NEW d \in Devs, NEW v \in {devCache[d]} \cup devWatch[d]
    PROVE  /\ v \in D!Object /\ D!Sound(d, v) /\ Faithful(d, v)
           /\ devCache[d].rv <= v.rv
<1>1. v \in D!Object /\ D!Sound(d, v) /\ Faithful(d, v) /\ devCache[d] \in D!Object
  BY DEF RealmIInv, DevIInv, DevTypeOK, ClusterTypeOK, D!TypeOK, D!CopiesSound,
     CopiesFaithful
<1>2. devCache[d].rv <= v.rv
  <2>1. devCache[d].rv <= devCache[d].rv
    BY <1>1 DEF D!Object
  <2>. QED  BY <2>1 DEF RealmIInv, CopiesFaithful
<1>. QED  BY <1>1, <1>2

\* What the informer has next it had, or is stored now.
LEMMA NextCopies ==
    ASSUME RealmIInv, ObjectStep, InformerStep, NEW d \in Devs
    PROVE  /\ devCache'[d] \in {devCache[d], dev'[d]} \cup devWatch[d]
           /\ \A v \in devWatch'[d] : v \in devWatch[d] \/ v = dev'[d]
           /\ devCache[d].rv <= devCache'[d].rv
<1>1. D!TypeOK
  BY DEF RealmIInv, DevIInv, DevTypeOK, ClusterTypeOK
<1>2. \A v \in devWatch'[d] : v \in devWatch[d] \/ v = dev'[d]
  BY <1>1 DEF ObjectStep, D!Store, D!TypeOK
<1>3. devCache[d].rv <= devCache[d].rv /\ devCache[d].rv <= dev[d].rv
  BY CopyInCache, <1>1 DEF D!Sound, D!TypeOK, D!Object
<1>4. CASE UNCHANGED devCache
  BY <1>2, <1>3, <1>4
<1>5. ASSUME UNCHANGED dev, NEW e \in Devs, NEW w \in D!Object, w \in devWatch[e],
             devCache' = [devCache EXCEPT ![e] = w]
      PROVE  devCache'[d] \in {devCache[d]} \cup devWatch[d]
  BY <1>1, <1>5 DEF D!TypeOK
<1>6. CASE UNCHANGED dev /\ devCache' = dev
  BY <1>2, <1>3, <1>6
<1>. QED  BY <1>2, <1>3, <1>4, <1>5, <1>6, CopyInCache DEF InformerStep

\* What a copy that holds its object tells stays true: only the run of
\* Deprovision that has deleted the realm of the stored version ends it, and a
\* realm made anew is that of the object the cache has.
LEMMA HoldsKept ==
    ASSUME RealmIInv, HoldersLive, RealmIInv', ObjectStep, StepFacts,
           NEW d \in Devs, NEW v \in D!Object, D!Sound(d, v), Faithful(d, v),
           Holds(d, v),
           \/ devCache[d].rv <= v.rv
           \/ job # Idle /\ job' # Idle /\ job.name = d /\ v = job.copy
    PROVE  Holds(d, v)'
<1>1. /\ D!TypeOK /\ dev[d] \in D!Object /\ devCache[d] \in D!Object
      /\ realms' \subseteq RealmIds /\ RealmKept(d)
      /\ v.rv \in Nat /\ v.uid \in Nat /\ v.rv <= dev[d].rv /\ v.uid <= v.rv
      /\ D!Sound(d, devCache[d])
  BY DEF RealmIInv, DevIInv, DevTypeOK, ClusterTypeOK, KeycloakTypeOK, D!TypeOK,
     D!Object, D!Sound, Faithful, D!CopiesSound
<1>2. CASE dev'[d] = dev[d] /\ realms' \subseteq realms
  BY <1>2 DEF Holds
<1>3. CASE ~(realms' \subseteq realms)
  <2>1. /\ job # Idle /\ job.to = PhaseRealmProvisioned
        /\ UNCHANGED dev /\ \A r \in realms' \ realms : r[1] = job.name
    BY <1>3 DEF StepFacts, GrowStep
  <2>2. /\ ~job.copy.deleting /\ dev[job.name].exists
        /\ job.copy.uid = dev[job.name].uid
    BY <2>1, RunCopy DEF Holds, PhaseRealmProvisioned, PhaseDeprovisioned
  <2>3. ASSUME v.realm \in realms', v.realm \notin realms, v.exists, v.deleting
        PROVE  dev[d].exists /\ v.uid = dev[d].uid
    <3>1. d = job.name
      BY <1>1, <2>1, <2>3, NoRealmAssumption DEF Faithful
    <3>2. devCache[d].rv <= v.rv
      BY <2>2, <2>3, <3>1
    <3>3. devCache[d].exists /\ devCache[d].uid = dev[d].uid
      BY <2>1, <2>2, <3>1 DEF RealmIInv, RunKeepsRealm, Known
    <3>4. devCache[d].uid <= devCache[d].rv
      BY DEF RealmIInv, CopiesFaithful, Faithful
    <3>5. v.rv >= dev[d].uid
      BY <1>1, <3>2, <3>3, <3>4 DEF D!Object
    <3>. QED  BY <2>2, <3>1, <3>5 DEF Faithful
  <2>. QED  BY <2>1, <2>3 DEF Holds
<1>4. CASE dev'[d] # dev[d] /\ realms' \subseteq realms
  <2>1. UNCHANGED realms /\ \E w \in D!Object : Stores(d, w) /\ dev'[d] = w
    <3>1. PICK e \in Devs, w \in D!Object : Stores(e, w) /\ D!Store(e, w)
      BY <1>4 DEF ObjectStep
    <3>2. e = d /\ dev'[d] = w
      BY <1>1, <1>4, <3>1 DEF D!Store, D!TypeOK
    <3>. QED  BY <1>4, <3>1, <3>2 DEF ObjectStep
  <2>2. PICK w \in D!Object : Stores(d, w) /\ dev'[d] = w
    BY <2>1
  <2>3. CASE Begins(d, w)
    <3>1. w.exists /\ w.uid = dev[d].rv + 1 /\ ~dev[d].exists
      BY <2>3 DEF Begins, D!Created, D!Absent
    <3>2. v.uid # w.uid
      BY <1>1, <3>1 DEF D!Object
    <3>. QED  BY <2>1, <2>2, <3>1, <3>2 DEF Holds
  <2>4. CASE Ends(d, w)
    <3>1. ~w.exists /\ dev[d].exists
      BY <2>4 DEF Ends, D!Absent
    <3>2. SUFFICES ASSUME v.exists, v.fin, ~v.deleting \/ v.realm \in realms
                   PROVE  FALSE
      BY <2>1, <2>2, <3>1 DEF Holds
    <3>3. v.uid = dev[d].uid /\ dev[d].fin
      BY <3>2 DEF Holds
    <3>4. dev[d].deleting /\ dev[d].realm \notin realms
      BY <2>4, <3>3 DEF Ends
    <3>5. /\ job # Idle /\ job.name = d /\ job.copy = dev[d] /\ job' = Idle
          /\ job.to = PhaseDeprovisioned
      BY <2>2, <3>1, <3>4 DEF StepFacts, StoreStep
    <3>6. devCache[d].rv <= v.rv /\ dev[d].rv <= devCache[d].rv
      BY <3>5 DEF HoldersLive
    <3>7. v = dev[d]
      <4>1. v.rv = dev[d].rv
        BY <1>1, <3>6 DEF D!Object
      <4>. QED  BY <4>1 DEF D!Sound
    <3>. QED  BY <3>2, <3>4, <3>7
  <2>5. CASE Edits(d, w) \/ Deletes(d, w) \/ MovesOn(d, w) \/ GetsRealm(d, w)
    <3>1. /\ w.exists = dev[d].exists /\ w.uid = dev[d].uid
          /\ dev[d].fin => w.fin
      <4>1. CASE Edits(d, w)
        BY <1>1, <4>1 DEF Edits, D!Object
      <4>2. CASE Deletes(d, w)
        BY <1>1, <4>2 DEF Deletes, D!Object
      <4>3. CASE MovesOn(d, w)
        BY <1>1, <4>3 DEF MovesOn, D!Object
      <4>4. CASE GetsRealm(d, w)
        BY <1>1, <4>4 DEF GetsRealm, D!Object
      <4>. QED  BY <2>5, <4>1, <4>2, <4>3, <4>4
    <3>. QED  BY <2>1, <2>2, <3>1 DEF Holds
  <2>. QED  BY <2>2, <2>3, <2>4, <2>5 DEF Stores
<1>. QED  BY <1>2, <1>3, <1>4

\* Copies go on to tell it, and a run of Deprovision past the realm has its
\* object.
LEMMA HoldersInductive ==
    ASSUME RealmIInv, HoldersLive, RealmIInv', ObjectStep, InformerStep, StepFacts
    PROVE  HoldersLive'
<1>. D!TypeOK
  BY DEF RealmIInv, DevIInv, DevTypeOK, ClusterTypeOK
<1>1. ASSUME NEW d \in Devs
      PROVE  Holds(d, dev[d])'
  <2>1. RealmKept(d)'
    BY DEF RealmIInv
  <2>. QED  BY <2>1, StoredHolds DEF RealmKept, Holds, Present, Known
<1>2. ASSUME NEW d \in Devs, NEW v \in {devCache[d]} \cup devWatch[d]
      PROVE  Holds(d, v)'
  <2>1. Holds(d, v)
    BY DEF HoldersLive
  <2>. QED  BY <2>1, CopyInCache, HoldsKept
<1>3. ASSUME NEW d \in Devs
      PROVE  /\ Holds(d, devCache[d])'
             /\ \A v \in devWatch'[d] : Holds(d, v)'
  BY <1>1, <1>2, NextCopies DEF Holds
<1>4. ASSUME job' # Idle
      PROVE  Holds(job.name, job.copy)'
  <2>1. CASE RunStarts
    BY <1>3, <2>1 DEF RunStarts, Holds
  <2>2. CASE RunGoes
    <3>1. job # Idle /\ job'.name = job.name /\ job.name \in Devs
      BY <2>2, RunCopy DEF RunGoes
    <3>2. CASE job'.copy = job.copy
      <4>1. \A v : v = job.copy => Holds(job.name, v)'
        BY <1>4, <3>1, RunCopy, HoldsKept
      <4>. QED  BY <3>1, <3>2, <4>1 DEF Holds
    <3>3. CASE job'.copy = dev'[job.name]
      BY <1>1, <3>1, <3>3 DEF Holds
    <3>. QED  BY <2>2, <3>2, <3>3 DEF RunGoes
  <2>. QED  BY <1>4, <2>1, <2>2 DEF StepFacts, RunStep
<1>5. ASSUME job' # Idle, job'.to = PhaseDeprovisioned
      PROVE  /\ job'.copy.rv <= devCache'[job'.name].rv
             /\ job'.pc # "deleteRealm" =>
                   dev'[job'.name].exists /\ job'.copy.uid = dev'[job'.name].uid
  <2>1. CASE RunStarts
    <3>1. job'.name \in Devs /\ job'.copy = devCache'[job'.name]
          /\ job'.pc = "deleteRealm"
      BY <1>5, <2>1 DEF RunStarts
    <3>2. devCache'[job'.name] \in D!Object
      BY <2>1, <3>1 DEF RunStarts, D!TypeOK
    <3>. QED  BY <3>1, <3>2 DEF D!Object
  <2>2. CASE RunGoes
    <3>. DEFINE d == job.name
    <3>1. /\ job # Idle /\ job'.name = d /\ job.to = PhaseDeprovisioned
          /\ job'.copy = job.copy /\ d \in Devs /\ job.copy \in D!Object
          /\ job.pc = "deleteRealm" /\ job'.pc # "deleteRealm" =>
                job.copy.realm \in realms
      BY <1>5, <2>2, RunCopy DEF RunGoes
    <3>2. job.copy.rv <= devCache'[d].rv
      <4>1. job.copy.rv <= devCache[d].rv /\ devCache[d].rv <= devCache'[d].rv
        BY <3>1, NextCopies DEF HoldersLive
      <4>2. job.copy.rv \in Nat /\ devCache[d].rv \in Nat /\ devCache'[d].rv \in Nat
        <5>1. devCache'[d] \in D!Object
          BY <3>1 DEF RealmIInv, DevIInv, DevTypeOK, ClusterTypeOK, D!TypeOK
        <5>. QED  BY <3>1, <5>1 DEF D!TypeOK, D!Object
      <4>. QED  BY <4>1, <4>2
    <3>3. ASSUME job'.pc # "deleteRealm"
          PROVE  dev'[d].exists /\ job.copy.uid = dev'[d].uid
      <4>1. dev[d].exists /\ job.copy.uid = dev[d].uid /\ dev[d].deleting
        <5>1. job.copy.exists /\ job.copy.deleting /\ job.copy.fin
          BY <3>1, RunCopy DEF Holds
        <5>2. dev[d].exists /\ job.copy.uid = dev[d].uid
          BY <3>1, <3>3, <5>1, RunCopy DEF Holds, HoldersLive
        <5>. QED  BY <3>1, <5>1, <5>2, RunCopy DEF Faithful
      <4>2. dev'[d].exists
        BY <1>5, <3>1, <4>1 DEF StepFacts, StoreStep
      <4>3. dev'[d].uid = dev[d].uid
        BY <3>1, <4>1, <4>2, StoreFacts DEF ObjectStep, D!Store, D!TypeOK
      <4>. QED  BY <4>1, <4>2, <4>3
    <3>. QED  BY <3>1, <3>2, <3>3
  <2>. QED  BY <1>5, <2>1, <2>2 DEF StepFacts, RunStep
<1>6. (\A d \in Devs : /\ Holds(d, devCache[d])
                       /\ \A v \in devWatch[d] : Holds(d, v))'
  BY <1>3 DEF Holds
<1>. QED  BY <1>4, <1>5, <1>6 DEF HoldersLive, Holds

-----------------------------------------------------------------------------
(* What is there stays, and the stages are made in order.                  *)

\* What is made on the way to a phase, and what it refers to, are resources.
LEMMA MakesType ==
    ASSUME NEW p
    PROVE  Makes(p) \in Seq(Resources)
<1>1. SecretOrder \in Seq(Resources)
  BY DEF SecretOrder, Resources, RealmSecrets
<1>2. CASE p = PhaseRealmProvisioned
  BY <1>1, <1>2 DEF Makes
<1>3. CASE p \in {PhasePrepared, PhaseDatabaseInstalled,
                  PhaseBusinessCentralInstalled, PhaseComplete}
  BY <1>3, MakesValues, CallSequences
<1>4. CASE p \notin {PhaseRealmProvisioned, PhasePrepared, PhaseDatabaseInstalled,
                     PhaseBusinessCentralInstalled, PhaseComplete}
  BY <1>4, EmptyType DEF Makes, Stage
<1>. QED  BY <1>2, <1>3, <1>4

\* What a phase promises are resources.
LEMMA PromisedType ==
    ASSUME NEW p
    PROVE  Promised(p) \subseteq Resources
<1>1. ASSUME NEW q
      PROVE  {Makes(q)[k] : k \in DOMAIN Makes(q)} \subseteq Resources
  BY MakesType
<1>. HIDE DEF PhaseRank
<1>2. \A i \in DOMAIN PhaseRank : MadeUpTo[i] \subseteq Resources
  BY <1>1 DEF MadeUpTo
<1>. QED  BY <1>2 DEF Promised

\* So is what the pods of a deployment refer to.
LEMMA ReferencesType ==
    ASSUME NEW r
    PROVE  References(r) \subseteq Resources
BY DEF References, DatabaseReferences, BusinessCentralReferences,
   KieServerReferences, Resources, RealmSecrets

\* A stored object keeps its identity while it lives, and its phase moves in
\* the order of an installation.
LEMMA SameObject ==
    ASSUME RealmIInv, ObjectStep, NEW d \in Devs, dev'[d].exists
    PROVE  \/ /\ dev[d].exists /\ dev'[d].uid = dev[d].uid
              /\ dev[d].deleting => dev'[d].deleting
              /\ \/ dev'[d].phase = dev[d].phase
                 \/ <<dev[d].phase, dev'[d].phase>> \in Advance
           \/ /\ ~dev[d].exists /\ dev'[d].uid = dev[d].rv + 1
              /\ dev'[d].phase = NoPhase
              /\ \A e \in Devs : e # d => dev'[e] = dev[e]
<1>1. D!TypeOK /\ dev[d] \in D!Object
  BY DEF RealmIInv, DevIInv, DevTypeOK, ClusterTypeOK, D!TypeOK
<1>2. CASE dev'[d] = dev[d]
  BY <1>2
<1>3. CASE dev'[d] # dev[d]
  <2>1. PICK e \in Devs, w \in D!Object : Stores(e, w) /\ D!Store(e, w)
    BY <1>3 DEF ObjectStep
  <2>2. /\ e = d /\ dev'[d] = w /\ w.exists
        /\ \A n \in Devs : n # d => dev'[n] = dev[n]
    BY <1>1, <1>3, <2>1 DEF D!Store, D!TypeOK
  <2>3. ~Ends(d, w)
    BY <2>2 DEF Ends, D!Absent
  <2>4. CASE Begins(d, w)
    BY <2>2, <2>4 DEF Begins, D!Created, D!Absent
  <2>5. CASE Edits(d, w)
    BY <1>1, <2>2, <2>5 DEF Edits, D!Object
  <2>6. CASE Deletes(d, w)
    BY <1>1, <2>2, <2>6 DEF Deletes, D!Object
  <2>7. CASE MovesOn(d, w)
    BY <1>1, <2>2, <2>7 DEF MovesOn, D!Object
  <2>8. CASE GetsRealm(d, w)
    <3>1. <<dev[d].phase, PhaseRealmProvisioned>> \in Advance
      BY <2>8, MovesAdvance DEF GetsRealm
    <3>. QED  BY <1>1, <2>2, <2>8, <3>1 DEF GetsRealm, D!Object
  <2>. QED  BY <2>1, <2>2, <2>3, <2>4, <2>5, <2>6, <2>7, <2>8 DEF Stores
<1>. QED  BY <1>2, <1>3

\* A run of Deprovision that deletes resources has an object that is there.
LEMMA DeletesOwn ==
    ASSUME RealmIInv, HoldersLive, job # Idle, job.to = PhaseDeprovisioned,
           job.pc # "deleteRealm"
    PROVE  job.name \in Devs /\ dev[job.name].exists /\ dev[job.name].deleting
BY RunCopy DEF HoldersLive, Faithful

\* A run that makes resources has an object that lives.
LEMMA MakesForOwn ==
    ASSUME RealmIInv, HoldersLive, job # Idle, job.to # PhaseDeprovisioned,
           Makes(job.to) # <<>>
    PROVE  dev[job.name].exists /\ job.copy.uid = dev[job.name].uid
<1>1. job.copy.phase # NoPhase
  <2>1. job.to # PhaseAccepted
    BY MakesValues
  <2>. QED  BY <2>1, RunCopy DEF RealmIInv, DevIInv, RunSound, RunMoves, NoPhase,
            PhasePrepare, PhasePrepared, PhaseDatabaseInstalled,
            PhaseBusinessCentralInstalled, PhaseDatabaseReady, PhaseAccepted,
            PhaseRealmProvisioning
<1>. QED  BY <1>1, RunCopy DEF Holds

\* Nothing takes a resource from under a RhpamDev that is not being deleted.
LEMMA OwnedStays ==
    ASSUME RealmIInv, HoldersLive, StepFacts, NEW d \in Devs,
           \A e \in Devs : dev[e].exists => e = d,
           NEW r \in Resources, OwnedBy(r, d), ~dev[d].deleting
    PROVE  Live(r)' /\ res'[r] = res[r]
<1>1. Live(r) /\ res[r].owner = d /\ dev[d].exists
  BY DEF OwnedBy
<1>2. ~(job # Idle /\ job.pc = "delete" /\ job.to = PhaseDeprovisioned)
  BY <1>1, DeletesOwn
<1>. QED  BY <1>1, <1>2 DEF StepFacts, ResStep

\* In a namespace with one RhpamDev at a time the resources of one that is not
\* being deleted stay.
LEMMA ResourceStays ==
    ASSUME RealmIInv, HoldersLive, NamespaceKept, StepFacts,
           NEW d \in Devs, Present(d), NEW r \in Resources, Live(r)
    PROVE  Live(r)' /\ res'[r] = res[r]
<1>1. OwnedBy(r, d) /\ ~dev[d].deleting /\ \A e \in Devs : dev[e].exists => e = d
  BY DEF NamespaceKept, Present
<1>. QED  BY <1>1, OwnedStays

\* So what an old copy promises stays.
LEMMA KeptStays ==
    ASSUME RealmIInv, HoldersLive, NamespaceKept, ObjectStep, StepFacts,
           NEW d \in Devs, NEW v \in D!Object, D!Sound(d, v), Faithful(d, v),
           Kept(d, v)
    PROVE  Kept(d, v)'
<1>. SUFFICES ASSUME Present(d)', v.exists, v.uid = dev'[d].uid,
                     NEW r \in Promised(v.phase)
              PROVE  Live(r)'
  BY DEF Kept
<1>1. /\ v.rv \in Nat /\ v.uid \in Nat /\ v.uid <= v.rv /\ v.rv <= dev[d].rv
      /\ dev[d].rv \in Nat
  BY DEF RealmIInv, DevIInv, DevTypeOK, ClusterTypeOK, D!TypeOK, D!Object,
     D!Sound, Faithful
<1>2. Present(d) /\ v.uid = dev[d].uid
  <2>1. dev'[d].exists /\ ~dev'[d].deleting
    BY DEF Present
  <2>2. dev'[d].uid # dev[d].rv + 1
    BY <1>1
  <2>. QED  BY <2>1, <2>2, SameObject DEF Present
<1>3. Live(r) /\ r \in Resources
  BY <1>2, PromisedType DEF Kept
<1>. QED  BY <1>2, <1>3, ResourceStays

\* A phase is saved when all that it promises is there.
LEMMA StoredKept ==
    ASSUME RealmIInv, HoldersLive, NamespaceKept, RunMakes, ObjectStep, StepFacts,
           NEW d \in Devs
    PROVE  Kept(d, dev[d])'
<1>. SUFFICES ASSUME Present(d)', NEW r \in Promised(dev'[d].phase)
              PROVE  Live(r)'
  BY DEF Kept
<1>1. r \in Resources
  BY PromisedType
<1>2. CASE ~dev[d].exists
  BY <1>2, SameObject, PromisedFirst DEF Present
<1>3. CASE dev[d].exists
  <2>1. /\ Present(d)
        /\ \/ dev'[d].phase = dev[d].phase
           \/ <<dev[d].phase, dev'[d].phase>> \in Advance
    BY <1>3, SameObject DEF Present
  <2>2. SUFFICES Live(r)
    BY <1>1, <2>1, ResourceStays
  <2>3. CASE r \in Promised(dev[d].phase)
    BY <2>1, <2>3 DEF NamespaceKept, Kept, Present
  <2>4. CASE r \notin Promised(dev[d].phase)
    <3>1. /\ dev'[d].phase # dev[d].phase
          /\ In(r, Makes(dev'[d].phase))
      BY <2>1, <2>4, PromisedNext
    <3>2. Makes(dev'[d].phase) # <<>>
      BY <3>1 DEF In
    <3>3. SameDev(d)
      BY <1>3, SameObject DEF SameDev, Present
    <3>4. /\ job # Idle /\ job.name = d /\ job.pc = "save"
          /\ dev'[d].phase = job.to /\ job.to # PhaseDeprovisioned
      BY <3>1, <3>2, <3>3 DEF StepFacts, StoreStep
    <3>5. job.todo = <<>> /\ \A i \in 1..Made : Live(Makes(job.to)[i])
      BY <2>1, <3>4 DEF RunMakes
    <3>6. Made = Len(Makes(job.to)) /\ Makes(job.to) \in Seq(Resources)
      BY <3>5, MakesType DEF Made
    <3>. QED  BY <3>1, <3>4, <3>5, <3>6 DEF In
  <2>. QED  BY <2>3, <2>4
<1>. QED  BY <1>2, <1>3

\* What a run makes next is the next resource of its stage.
LEMMA NextMade ==
    ASSUME RealmIInv, HoldersLive, RunMakes, job # Idle,
           job.to # PhaseDeprovisioned, job.pc \in {"secrets", "create"}
    PROVE  /\ Made \in Nat /\ Made + 1 \in DOMAIN Makes(job.to)
           /\ Head(job.todo) = Makes(job.to)[Made + 1]
           /\ Makes(job.to) # <<>>
           /\ dev[job.name].exists /\ job.copy.uid = dev[job.name].uid
<1>1. job.todo \in Seq(Resources \cup ClientIds) /\ job.todo # <<>>
  BY CallPurpose DEF Job, JobRecords
<1>2. Makes(job.to) \in Seq(Resources) /\ Made >= 0
  BY MakesType DEF RunMakes
<1>3. 1 \in DOMAIN job.todo /\ Head(job.todo) = job.todo[1] /\ Len(job.todo) \in Nat
      /\ Len(job.todo) >= 1
  BY <1>1
<1>4. job.todo[1] = Makes(job.to)[Made + 1]
  BY <1>3 DEF RunMakes
<1>5. Made \in Nat /\ Made + 1 \in 1..Len(Makes(job.to))
  BY <1>2, <1>3 DEF Made
<1>6. Makes(job.to) # <<>>
  BY <1>2, <1>5
<1>. QED  BY <1>2, <1>3, <1>4, <1>5, <1>6, MakesForOwn

\* What comes is of the one RhpamDev, and what it refers to is there.
LEMMA NewResource ==
    ASSUME RealmIInv, HoldersLive, NamespaceKept, RunMakes, StepFacts,
           NEW d \in Devs, dev[d].exists, NEW r \in Resources, ~Live(r), Live(r)'
    PROVE  /\ OwnedBy(r, d)'
           /\ Present(d) => \A x \in References(r) : Live(x)
<1>1. /\ UNCHANGED dev
      /\ job # Idle /\ job.pc \in {"secrets", "create"}
      /\ job.to # PhaseDeprovisioned /\ r = Head(job.todo)
      /\ res'[r].owner = job.name /\ res'[r].uid = job.copy.uid
  BY DEF StepFacts, ResStep
<1>2. /\ Made \in Nat /\ Made + 1 \in DOMAIN Makes(job.to)
      /\ r = Makes(job.to)[Made + 1]
      /\ dev[job.name].exists /\ job.copy.uid = dev[job.name].uid
  BY <1>1, NextMade
<1>3. job.name = d
  BY <1>1, <1>2, RunCopy DEF NamespaceKept
<1>4. ASSUME Present(d), NEW x \in References(r)
      PROVE  Live(x)
  <2>1. <<job.copy.phase, job.to>> \in RunMoves \/ job.to = PhaseRealmProvisioned
    BY <1>1 DEF RealmIInv, DevIInv, RunSound
  <2>2. x \in Promised(job.copy.phase) \/ \E i \in 1..Made : x = Makes(job.to)[i]
    <3>1. Made + 1 - 1 = Made
      BY <1>2
    <3>. QED  BY <1>2, <1>4, <2>1, <3>1, ReferencesMade
  <2>. QED  BY <1>1, <1>2, <1>3, <1>4, <2>2, RunCopy DEF RunMakes, Kept
<1>. QED  BY <1>1, <1>2, <1>3, <1>4 DEF OwnedBy

\* The namespace stays that of one RhpamDev, with what its copies promise.
LEMMA NamespaceStays ==
    ASSUME Tidy, RealmIInv, HoldersLive, NamespaceKept, RunMakes,
           ObjectStep, InformerStep, StepFacts
    PROVE  NamespaceKept'
<1>1. ASSUME NEW d \in Devs, dev'[d].exists
      PROVE  /\ \A e \in Devs : dev'[e].exists => e = d
             /\ \A r \in Resources : Live(r)' => OwnedBy(r, d)'
  <2>1. CASE dev[d].exists
    <3>1. ASSUME NEW e \in Devs, dev'[e].exists
          PROVE  e = d
      BY <2>1, <3>1 DEF NamespaceKept, StepFacts, StoreStep
    <3>2. ASSUME NEW r \in Resources, Live(r)', Live(r)
          PROVE  OwnedBy(r, d)'
      <4>1. OwnedBy(r, d) /\ res'[r] = res[r] /\ dev'[d].uid = dev[d].uid
        BY <1>1, <2>1, <3>2, SameObject DEF NamespaceKept, StepFacts, ResStep
      <4>. QED  BY <1>1, <3>2, <4>1 DEF OwnedBy
    <3>. QED  BY <2>1, <3>1, <3>2, NewResource
  <2>2. CASE ~dev[d].exists
    <3>1. /\ \A e \in Devs : ~dev[e].exists
          /\ \A r \in Resources : ~Live(r)
          /\ UNCHANGED res
      BY <1>1, <2>2 DEF StepFacts, StoreStep
    <3>2. \A e \in Devs : e # d => dev'[e] = dev[e]
      BY <1>1, <2>2, SameObject
    <3>. QED  BY <3>1, <3>2 DEF Live
  <2>. QED  BY <2>1, <2>2
<1>2. ASSUME NEW d \in Devs
      PROVE  Kept(d, dev[d])'
  BY StoredKept
<1>3. ASSUME NEW d \in Devs, NEW v \in {devCache[d]} \cup devWatch[d]
      PROVE  Kept(d, v)'
  BY CopyInCache, KeptStays DEF NamespaceKept
<1>4. ASSUME NEW d \in Devs
      PROVE  /\ Kept(d, devCache[d])'
             /\ \A v \in devWatch'[d] : Kept(d, v)'
  BY <1>2, <1>3, NextCopies DEF Kept
<1>5. ASSUME NEW d \in Devs, Present(d)'
      PROVE  /\ \A r \in seen' : Live(r)'
             /\ \A r \in Resources : Live(r)' => \A x \in References(r) : Live(x)'
  <2>1. CASE dev[d].exists
    <3>1. Present(d)
      BY <1>5, <2>1, SameObject DEF Present
    <3>2. ASSUME NEW r \in Resources, Live(r)
          PROVE  Live(r)'
      BY <3>1, <3>2, ResourceStays
    <3>3. seen \subseteq Resources
      BY DEF RealmIInv, DevIInv, DevTypeOK, ClusterTypeOK, Typed, TypedKinds, Resources
    <3>4. ASSUME NEW r \in seen'
          PROVE  Live(r)'
      <4>1. r \in seen => Live(r) /\ r \in Resources
        BY <3>1, <3>3 DEF NamespaceKept
      <4>. QED  BY <3>2, <4>1 DEF StepFacts, ResStep
    <3>5. ASSUME NEW r \in Resources, Live(r)', NEW x \in References(r)
          PROVE  Live(x)'
      <4>1. Live(x)
        BY <2>1, <3>1, <3>5, NewResource DEF NamespaceKept
      <4>. QED  BY <3>2, <4>1, ReferencesType
    <3>. QED  BY <3>4, <3>5
  <2>2. CASE ~dev[d].exists
    <3>1. /\ seen = {} /\ \A r \in Resources : ~Live(r)
          /\ UNCHANGED <<res, seen>>
      BY <1>5, <2>2 DEF StepFacts, StoreStep, Present
    <3>. QED  BY <3>1 DEF Live
  <2>. QED  BY <2>1, <2>2
<1>. QED  BY <1>1, <1>2, <1>4, <1>5 DEF NamespaceKept, Present, Kept, OwnedBy, Live

\* A run makes the resources of its stage one after the other.
LEMMA RunGoesOnMaking ==
    ASSUME Tidy, RealmIInv, HoldersLive, NamespaceKept, RunMakes,
           ObjectStep, StepFacts, RunGoes, job.to # PhaseDeprovisioned,
           NEW d, d = job.name, NEW m, m = Makes(job.to)
    PROVE  /\ job'.pc = "save" => job'.todo = <<>>
           /\ job'.pc \in {"secrets", "create", "save"} =>
                 /\ Made' >= 0
                 /\ \A i \in DOMAIN job'.todo : job'.todo[i] = m[Made' + i]
                 /\ Present(d)' => \A i \in 1..Made' : Live(m[i])'
<1>1. /\ job # Idle /\ job'.name = d /\ job'.to = job.to
      /\ job \in JobRecords /\ d \in Devs /\ m \in Seq(Resources)
      /\ job.todo \in Seq(Resources \cup ClientIds)
  BY CallPurpose, MakesType DEF RunGoes, JobRecords
<1>2. /\ Made = Len(m) - Len(job.todo) /\ Made' = Len(m) - Len(job'.todo)
      /\ Len(m) \in Nat /\ Len(job.todo) \in Nat
  BY <1>1 DEF Made
<1>3. ASSUME m # <<>>, Present(d)'
      PROVE  Present(d) /\ \A r \in Resources : Live(r) => Live(r)'
  <2>1. Present(d)
    BY <1>1, <1>3, MakesForOwn, SameObject DEF Present
  <2>. QED  BY <1>1, <2>1, ResourceStays
<1>4. CASE job' = job
  <2>1. Made' = Made
    BY <1>2, <1>4 DEF Made
  <2>2. ASSUME job.pc \in {"secrets", "create", "save"}, Present(d)',
               NEW i \in 1..Made
        PROVE  Live(m[i])'
    <3>1. i \in 1..Len(m)
      BY <1>2, <2>2
    <3>2. m[i] \in Resources /\ m # <<>>
      BY <1>1, <3>1
    <3>. QED  BY <1>1, <1>3, <2>2, <3>2 DEF RunMakes
  <2>. QED  BY <1>1, <1>4, <2>1, <2>2 DEF RunMakes
<1>5. CASE /\ job'.pc = "secrets" /\ job'.todo = SecretOrder
           /\ job.to = PhaseRealmProvisioned
  <2>1. job'.todo = m /\ Len(m) \in Nat
    BY <1>1, <1>5, MakesValues
  <2>2. Made' = 0
    BY <1>2, <2>1
  <2>. QED  BY <1>1, <1>5, <2>1, <2>2
<1>6. CASE /\ job.pc \in {"secrets", "create"}
           /\ job'.todo = Tail(job.todo)
           /\ job'.pc = IF Tail(job.todo) = <<>> THEN "save" ELSE job.pc
           /\ res'[Head(job.todo)] # NoResource \/ Head(job.todo) \in seen
  <2>1. /\ Made \in Nat /\ Made + 1 \in DOMAIN m /\ m # <<>>
        /\ Head(job.todo) = m[Made + 1]
    BY <1>1, <1>6, NextMade
  <2>2. /\ Len(job'.todo) = Len(job.todo) - 1
        /\ \A i \in DOMAIN job'.todo :
              i + 1 \in DOMAIN job.todo /\ job'.todo[i] = job.todo[i + 1]
    <3>1. job.todo # <<>>
      BY <1>1, <1>6, CallPurpose DEF Job
    <3>2. /\ Len(Tail(job.todo)) = Len(job.todo) - 1
          /\ \A i \in DOMAIN Tail(job.todo) :
                i + 1 \in DOMAIN job.todo /\ Tail(job.todo)[i] = job.todo[i + 1]
      BY <1>1, <3>1
    <3>3. job'.todo = Tail(job.todo)
      BY <1>6
    <3>. QED  BY <3>2, <3>3, Zenon
  <2>3. Made' = Made + 1
    BY <1>2, <2>2
  <2>4. ASSUME NEW i \in DOMAIN job'.todo
        PROVE  job'.todo[i] = m[Made' + i]
    <3>1. job'.todo[i] = job.todo[i + 1] /\ i + 1 \in DOMAIN job.todo /\ i \in Nat
      <4>1. job'.todo \in Seq(Resources \cup ClientIds)
        BY <1>1, <1>6, HeadTailType, CallPurpose DEF Job
      <4>. QED  BY <2>2, <2>4, <4>1
    <3>2. job.todo[i + 1] = m[Made + (i + 1)]
      BY <1>1, <1>6, <3>1 DEF RunMakes
    <3>3. Made + (i + 1) = Made' + i
      BY <2>1, <2>3, <3>1
    <3>. QED  BY <3>1, <3>2, <3>3
  <2>5. ASSUME Present(d)', NEW i \in 1..Made'
        PROVE  Live(m[i])'
    <3>1. Present(d) /\ \A r \in Resources : Live(r) => Live(r)'
      BY <1>3, <2>1, <2>5
    <3>2. m[i] \in Resources
      BY <1>1, <2>1, <2>3
    <3>3. CASE i \in 1..Made
      BY <1>1, <1>6, <3>1, <3>2, <3>3 DEF RunMakes
    <3>4. CASE i = Made + 1
      <4>1. CASE m[i] \in seen
        BY <1>1, <3>1, <3>2, <4>1 DEF NamespaceKept
      <4>. QED  BY <1>6, <2>1, <3>4, <4>1 DEF Live
    <3>. QED  BY <2>1, <2>3, <3>3, <3>4
  <2>6. Made' >= 0
    BY <2>1, <2>3
  <2>7. job'.pc = "save" => job'.todo = <<>>
    BY <1>6
  <2>. QED  BY <2>4, <2>5, <2>6, <2>7
<1>7. CASE job'.pc \in {"realm", "clients"}
  BY <1>7
<1>. QED  BY <1>4, <1>5, <1>6, <1>7 DEF RunGoes, RunGoesOnWith

\* What a run has made is there until the run is over.
LEMMA RunMakesStays ==
    ASSUME Tidy, RealmIInv, HoldersLive, NamespaceKept, RunMakes,
           ObjectStep, InformerStep, StepFacts, NamespaceKept'
    PROVE  RunMakes'
<1>. SUFFICES ASSUME job' # Idle, job'.to # PhaseDeprovisioned
              PROVE  RunMakes'
  BY DEF RunMakes
<1>1. CASE RunStarts
  <2>1. /\ job'.name \in Devs /\ job'.copy = devCache'[job'.name]
        /\ job'.pc # "secrets"
        /\ job'.pc \in {"create", "save"} => job'.todo = Makes(job'.to)
        /\ job'.pc = "save" => job'.todo = <<>>
    BY <1>1 DEF RunStarts
  <2>2. Kept(job.name, job.copy)'
    BY <2>1 DEF NamespaceKept, Kept
  <2>3. ASSUME NEW m, m = Makes(job'.to), job'.todo = m
        PROVE  Made' = 0 /\ Len(m) \in Nat
    <3>1. Len(m) \in Nat
      BY <2>3, MakesType
    <3>. QED  BY <2>3, <3>1 DEF Made
  <2>. QED  BY <2>1, <2>2, <2>3 DEF RunMakes
<1>2. CASE RunGoes
  <2>1. /\ job # Idle /\ job'.name = job.name /\ job'.to = job.to
        /\ job.to # PhaseDeprovisioned /\ job.name \in Devs
        /\ job'.copy \in {job.copy, dev'[job.name]}
    BY <1>2, RunCopy DEF RunGoes
  <2>2. Kept(job.name, job.copy)'
    <3>1. CASE job'.copy = job.copy
      <4>1. ASSUME NEW v, v = job.copy, NEW d, d = job.name
            PROVE  Kept(d, v)'
        BY <2>1, <4>1, RunCopy, KeptStays DEF RunMakes
      <4>. QED  BY <2>1, <3>1, <4>1 DEF Kept, Present
    <3>2. CASE job'.copy = dev'[job.name]
      BY <2>1, <3>2 DEF NamespaceKept, Kept, Present
    <3>. QED  BY <2>1, <3>1, <3>2
  <2>3. ASSUME NEW d, d = job.name, NEW m, m = Makes(job.to)
        PROVE  /\ job'.pc = "save" => job'.todo = <<>>
               /\ job'.pc \in {"secrets", "create", "save"} =>
                     /\ Made' >= 0
                     /\ \A i \in DOMAIN job'.todo : job'.todo[i] = m[Made' + i]
                     /\ Present(d)' => \A i \in 1..Made' : Live(m[i])'
    BY <1>2, <2>1, <2>3, RunGoesOnMaking
  <2>. QED  BY <2>1, <2>2, <2>3 DEF RunMakes, Present, Live
<1>. QED  BY <1>1, <1>2 DEF StepFacts, RunStep

\* What is known of every step keeps the invariant about resources.
LEMMA ResourceStep ==
    ASSUME ResourceIInv, RealmIInv', ObjectStep, InformerStep, StepFacts
    PROVE  ResourceIInv'
<1>1. HoldersLive'
  BY HoldersInductive DEF ResourceIInv
<1>2. Tidy => NamespaceKept' /\ RunMakes'
  BY <1>1, NamespaceStays, RunMakesStays DEF ResourceIInv
<1>. QED  BY <1>1, <1>2 DEF ResourceIInv

\* The invariant about resources is inductive.
LEMMA ResourceInductive ==
    ASSUME ResourceIInv, [AloneNext]_devCtlVars
    PROVE  ResourceIInv'
<1>1. RealmIInv' /\ ObjectStep /\ InformerStep /\ StepFacts
  BY RealmInductive, AloneStepRealm, AloneStepResources DEF ResourceIInv
<1>. QED  BY <1>1, ResourceStep

\* The first state.
LEMMA ResourceInit ==
    ASSUME DevInit
    PROVE  ResourceIInv
<1>1. /\ RealmIInv /\ job = Idle /\ seen = {}
      /\ \A r \in Resources : ~Live(r)
      /\ \A d \in Devs : /\ dev[d] = D!Absent(0) /\ devCache[d] = D!Absent(0)
                         /\ devWatch[d] = {}
  BY RealmInit DEF DevInit, ClusterInit, D!Init, Live
<1>2. HoldersLive
  BY <1>1 DEF HoldersLive, Holds, D!Absent
<1>3. NamespaceKept /\ RunMakes
  BY <1>1 DEF NamespaceKept, RunMakes, Kept, Present, D!Absent
<1>. QED  BY <1>1, <1>2, <1>3 DEF ResourceIInv

-----------------------------------------------------------------------------
(* Theorems.                                                               *)

\* A copy with a finalizer tells whether its object is still there, and in a
\* namespace with one RhpamDev at a time all that its copies promise is there.
THEOREM ResourceInvariant == AloneSpec => []ResourceIInv
<1>1. DevInit => ResourceIInv
  BY ResourceInit
<1>2. ResourceIInv /\ [AloneNext]_devCtlVars => ResourceIInv'
  BY ResourceInductive
<1>. QED  BY <1>1, <1>2, PTL DEF AloneSpec

\* What is kept is complete.
LEMMA KeptComplete ==
    ASSUME Tidy, ResourceIInv
    PROVE  StagesComplete
<1>. NamespaceKept
  BY DEF ResourceIInv
<1>1. ASSUME NEW d \in Devs, Present(d), NEW j \in 1..10, AtLeast(d, PhaseRank[j]),
             NEW r \in Resources, In(r, Makes(PhaseRank[j]))
      PROVE  OwnedBy(r, d)
  <2>. HIDE DEF PhaseRank
  <2>1. Rank(PhaseRank[j]) = j
    BY PhaseRanks DEF Rank
  <2>2. PICK i \in j..10 : dev[d].phase = PhaseRank[i]
    BY <1>1, <2>1, PhaseRanks DEF AtLeast
  <2>3. r \in Promised(dev[d].phase)
    BY <1>1, <2>2, PromisedBefore
  <2>. QED  BY <1>1, <2>3 DEF NamespaceKept, Kept, Present
<1>2. /\ PhaseRank[4] = PhaseRealmProvisioned /\ PhaseRank[6] = PhasePrepared
      /\ PhaseRank[7] = PhaseDatabaseInstalled
      /\ PhaseRank[8] = PhaseBusinessCentralInstalled
      /\ PhaseRank[10] = PhaseComplete
  BY DEF PhaseRank
<1>. HIDE DEF PhaseRank
<1>3. ASSUME NEW d \in Devs, Present(d), AtLeast(d, PhaseRealmProvisioned),
             NEW r \in RealmSecrets
      PROVE  OwnedBy(r, d)
  <2>1. In(r, SecretOrder)
    <3>1. /\ 1 \in DOMAIN SecretOrder /\ SecretOrder[1] = BusinessCentralRealmSecret
          /\ 2 \in DOMAIN SecretOrder /\ SecretOrder[2] = KieServerRealmSecret
      BY DEF SecretOrder
    <3>. QED  BY <3>1 DEF In, RealmSecrets
  <2>2. r \in Resources
    BY DEF Resources
  <2>. QED  BY <1>1, <1>2, <1>3, <2>1, <2>2, MakesValues
<1>4. ASSUME NEW d \in Devs, Present(d),
             NEW p \in {PhasePrepared, PhaseDatabaseInstalled,
                        PhaseBusinessCentralInstalled, PhaseComplete},
             AtLeast(d, p), NEW i \in DOMAIN Stage(p)
      PROVE  OwnedBy(Stage(p)[i], d)
  <2>1. Makes(p) = Stage(p) /\ Stage(p)[i] \in Resources
    BY <1>4, MakesValues, MakesType
  <2>2. In(Stage(p)[i], Makes(p))
    BY <2>1 DEF In
  <2>3. \E j \in 1..10 : p = PhaseRank[j]
    BY <1>2
  <2>. QED  BY <1>1, <1>4, <2>1, <2>2, <2>3
<1>. QED  BY <1>3, <1>4 DEF StagesComplete

\* In a namespace with one RhpamDev at a time the resources that its phase
\* promises are there and its own.
THEOREM DevStagesComplete ==
    ASSUME Tidy
    PROVE  AloneSpec => []StagesComplete
<1>1. ResourceIInv => StagesComplete
  BY KeptComplete
<1>. QED  BY <1>1, ResourceInvariant, PTL

\* What is kept refers to nothing that is missing.
LEMMA KeptResolves ==
    ASSUME Tidy, ResourceIInv
    PROVE  ReferencesResolve
<1>. NamespaceKept
  BY DEF ResourceIInv
<1>1. ASSUME NEW d \in Devs, NEW r \in Resources, Present(d), OwnedBy(r, d),
             NEW x \in References(r)
      PROVE  OwnedBy(x, d)
  <2>1. Live(x) /\ x \in Resources
    BY <1>1, ReferencesType DEF NamespaceKept, OwnedBy
  <2>. QED  BY <1>1, <2>1 DEF NamespaceKept, Present
<1>. QED  BY <1>1 DEF ReferencesResolve

\* There a deployment always has all that its pods refer to.
THEOREM DevReferencesResolve ==
    ASSUME Tidy
    PROVE  AloneSpec => []ReferencesResolve
<1>1. ResourceIInv => ReferencesResolve
  BY KeptResolves
<1>. QED  BY <1>1, ResourceInvariant, PTL

\* Nothing is taken from under a RhpamDev that is alone in its namespace.
LEMMA ResourcesKept ==
    ASSUME Tidy \/ \A d, e \in Devs : d = e,
           ResourceIInv, StepFacts, NEW d \in Devs, NEW r \in Resources,
           OwnedBy(r, d), ~dev[d].deleting
    PROVE  Live(r)'
<1>1. \A e \in Devs : dev[e].exists => e = d
  BY DEF ResourceIInv, NamespaceKept, OwnedBy
<1>. QED  BY <1>1, OwnedStays DEF ResourceIInv

\* Not even a late Deprovision of an earlier object of its name, be the
\* namespace clean at its creation or not.
THEOREM DevOwnedResourcesStay ==
    ASSUME Tidy \/ \A d, e \in Devs : d = e
    PROVE  AloneSpec => OwnedResourcesStay
<1>1. ResourceIInv /\ [AloneNext]_devCtlVars =>
        [\A d \in Devs, r \in Resources :
            OwnedBy(r, d) /\ ~dev[d].deleting => Live(r)']_<<res, dev>>
  BY AloneStepResources, ResourcesKept DEF ResourceIInv
<1>. QED  BY <1>1, ResourceInvariant, PTL DEF AloneSpec, OwnedResourcesStay
=============================================================================
