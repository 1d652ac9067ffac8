--------------------------- MODULE DevAloneProofs ---------------------------
(***************************************************************************)
(* Theorems about the RhpamDev controller among users, informers, faults   *)
(* and crashes, for any number of objects, writes, faults and tokens.  The *)
(* phase and the realm of a RhpamDev only move forward because every write *)
(* of a step is legal (LegalWrite), and resource versions tell the copies  *)
(* of a run from the stored objects.                                       *)
(***************************************************************************)
EXTENDS DevAlone, RhpamDevProofs


\* What may become of the stored RhpamDev d: a new object, a tombstone, or a
\* version that keeps phase and realm or moves them forward.
LegalWrite(d, v) ==
    /\ v.rv = dev[d].rv + 1
    /\ RealmUnset(v)
    /\ dev[d].exists /\ v.exists =>
          /\ v.phase = dev[d].phase \/ <<dev[d].phase, v.phase>> \in Advance
          /\ v.realm = dev[d].realm \/ dev[d].realm = NoRealm

LegalStep ==
    \/ UNCHANGED dev /\ \A d \in Devs : devWatch'[d] \subseteq devWatch[d]
    \/ \E d \in Devs, v \in D!Object : LegalWrite(d, v) /\ D!Store(d, v)

\* What enters the cache comes from the watch or from the API server.
CacheStep ==
    \A d \in Devs :
        devCache'[d] \in {devCache[d], dev'[d]} \cup devWatch[d]

\* The moves of the runs are moves of an installation.
LEMMA MovesAdvance ==
    /\ RunMoves \subseteq Advance
    /\ <<PhaseAccepted, PhaseRealmProvisioning>> \in Advance
    /\ <<PhaseRealmProvisioning, PhaseRealmProvisioned>> \in Advance
    /\ <<PhaseAccepted, PhaseRealmProvisioned>> \in Advance
    /\ <<PhaseRealmProvisioned, PhasePrepare>> \in Advance
<1>1. ASSUME NEW i \in 1..9
      PROVE  <<PhaseRank[i], PhaseRank[i + 1]>> \in Advance
  BY DEF Advance, PhaseRank
<1>2. /\ <<PhaseRank[1], PhaseRank[2]>> \in Advance
      /\ <<PhaseRank[2], PhaseRank[3]>> \in Advance
      /\ <<PhaseRank[3], PhaseRank[4]>> \in Advance
      /\ <<PhaseRank[4], PhaseRank[5]>> \in Advance
      /\ <<PhaseRank[5], PhaseRank[6]>> \in Advance
      /\ <<PhaseRank[6], PhaseRank[7]>> \in Advance
      /\ <<PhaseRank[7], PhaseRank[8]>> \in Advance
      /\ <<PhaseRank[8], PhaseRank[9]>> \in Advance
      /\ <<PhaseRank[9], PhaseRank[10]>> \in Advance
  BY <1>1
<1>3. <<PhaseAccepted, PhaseRealmProvisioned>> \in Advance
  BY DEF Advance
<1>. QED  BY <1>2, <1>3 DEF PhaseRank, RunMoves

\* A sound copy stays sound: a write makes a version newer than any copy.
LEMMA SoundKept ==
    ASSUME D!TypeOK, LegalStep, NEW d \in Devs, NEW v \in D!Object, D!Sound(d, v)
    PROVE  D!Sound(d, v)'
<1>1. CASE UNCHANGED dev
  BY <1>1 DEF D!Sound
<1>2. ASSUME NEW e \in Devs, NEW w \in D!Object, LegalWrite(e, w), D!Store(e, w)
      PROVE  D!Sound(d, v)'
  <2>1. v.rv \in Nat /\ dev[d].rv \in Nat /\ w.rv = dev[e].rv + 1
    BY <1>2 DEF D!TypeOK, D!Object, LegalWrite
  <2>2. dev'[d] = IF d = e THEN w ELSE dev[d]
    BY <1>2 DEF D!Store, D!TypeOK
  <2>. QED  BY <2>1, <2>2 DEF D!Sound
<1>. QED  BY <1>1, <1>2 DEF LegalStep

\* Informer copies and undelivered versions stay sound under legal steps.
LEMMA CopiesKept ==
    ASSUME D!TypeOK, D!TypeOK', D!CopiesSound, LegalStep, CacheStep
    PROVE  D!CopiesSound'
<1>1. ASSUME NEW d \in Devs
      PROVE  D!Sound(d, dev[d])'
  BY DEF D!Sound, D!TypeOK, D!Object
<1>2. ASSUME NEW d \in Devs, NEW v \in devWatch'[d]
      PROVE  v \in devWatch[d] \/ v = dev'[d]
  BY <1>2 DEF LegalStep, D!Store, D!TypeOK
<1>3. ASSUME NEW d \in Devs, NEW v \in devWatch'[d]
      PROVE  D!Sound(d, v)'
  <2>1. CASE v \in devWatch[d]
    BY <2>1, SoundKept DEF D!CopiesSound, D!TypeOK
  <2>. QED  BY <1>1, <1>2, <1>3, <2>1
<1>4. ASSUME NEW d \in Devs
      PROVE  D!Sound(d, devCache[d])'
  <2>1. \/ devCache'[d] = dev'[d]
        \/ devCache'[d] \in {devCache[d]} \cup devWatch[d]
    BY DEF CacheStep
  <2>2. ASSUME NEW v \in {devCache[d]} \cup devWatch[d]
        PROVE  v.rv <= dev'[d].rv /\ (v.rv = dev'[d].rv => v = dev'[d])
    <3>1. D!Sound(d, v) /\ v \in D!Object
      BY <2>2 DEF D!CopiesSound, D!TypeOK
    <3>. QED  BY <3>1, SoundKept DEF D!Sound
  <2>. QED  BY <1>1, <2>1, <2>2 DEF D!Sound
<1>. QED  BY <1>3, <1>4 DEF D!CopiesSound

\* What a legal write does to phases and realms.
LEMMA LegalStepOrder ==
    ASSUME D!TypeOK, LegalStep, NEW d \in Devs, SameDev(d)
    PROVE  /\ \/ dev'[d].phase = dev[d].phase
              \/ <<dev[d].phase, dev'[d].phase>> \in Advance
           /\ dev[d].realm # NoRealm => dev'[d].realm = dev[d].realm
BY DEF LegalStep, LegalWrite, SameDev, D!Store, D!TypeOK

\* A legal step names no realm before the realm is provisioned.
LEMMA RealmUnsetKept ==
    ASSUME D!TypeOK, LegalStep, \A d \in Devs : RealmUnset(dev[d])
    PROVE  \A d \in Devs : RealmUnset(dev'[d])
BY DEF LegalStep, LegalWrite, D!Store, D!TypeOK

\* An update made from the stored object is a legal step if what it asks for
\* is; the API server may answer it with nothing new or with a tombstone.
LEMMA UpdateLegal ==
    ASSUME D!TypeOK, NEW d \in Devs, NEW v \in D!Object, D!Update(d, v),
           dev[d].exists, v.exists, RealmUnset(v),
           \/ v.phase = dev[d].phase
           \/ <<dev[d].phase, v.phase>> \in Advance
           \/ (v.deleting /\ ~v.fin),
           v.realm = dev[d].realm \/ dev[d].realm = NoRealm
    PROVE  LegalStep
<1>. DEFINE w == D!Result(d, v)
<1>1. w \in D!Object
  BY DevResultType
<1>2. CASE w = dev[d]
  BY <1>2 DEF D!Update, LegalStep
<1>3. CASE w # dev[d]
  <2>1. D!Store(d, w)
    BY <1>3 DEF D!Update
  <2>2. LegalWrite(d, w)
    <3>1. CASE v.deleting /\ ~v.fin
      <4>1. w = D!Absent(dev[d].rv + 1)
        BY <1>3, <3>1 DEF D!Result
      <4>. QED  BY <4>1 DEF D!Absent, LegalWrite, RealmUnset
    <3>2. CASE ~(v.deleting /\ ~v.fin)
      <4>1. w = [v EXCEPT !.rv = dev[d].rv + 1]
        BY <1>3, <3>2 DEF D!Result
      <4>2. /\ w.rv = dev[d].rv + 1 /\ w.exists = v.exists
            /\ w.phase = v.phase /\ w.realm = v.realm
        BY <4>1 DEF D!Object
      <4>. QED  BY <3>2, <4>2 DEF LegalWrite, RealmUnset
    <3>. QED  BY <3>1, <3>2
  <2>. QED  BY <1>1, <2>1, <2>2 DEF LegalStep
<1>. QED  BY <1>2, <1>3

\* Users write legally, and the informer only carries versions on.
LEMMA ObjectStepLegal ==
    ASSUME D!TypeOK, \A d \in Devs : RealmUnset(dev[d]), NEW d \in Devs,
           \/ D!UserCreate(d) \/ D!UserEdit(d) \/ D!UserDelete(d)
           \/ D!Deliver(d) \/ D!Resync(d)
    PROVE  LegalStep /\ CacheStep
<1>. USE DEF D!TypeOK
<1>1. CASE D!Deliver(d)
  BY <1>1 DEF D!Deliver, LegalStep, CacheStep
<1>2. CASE D!Resync(d)
  BY <1>2 DEF D!Resync, LegalStep, CacheStep
<1>3. ASSUME D!UserCreate(d) \/ D!UserEdit(d) \/ D!UserDelete(d)
      PROVE  LegalStep /\ CacheStep
  <2>. /\ dev[d] \in D!Object /\ dev[d].rv + 1 \in Nat
       /\ dev[d].exists \in BOOLEAN
    BY DEF D!Object
  <2>1. CASE D!UserCreate(d)
    <3>1. PICK s \in {NoSpec} : D!Store(d, D!Created(dev[d].rv + 1, s))
      BY <2>1 DEF D!UserCreate
    <3>2. LegalWrite(d, D!Created(dev[d].rv + 1, s))
      BY <2>1 DEF D!UserCreate, D!Created, D!Absent, LegalWrite, RealmUnset
    <3>. QED  BY <2>1, <3>1, <3>2, DevVersionType
              DEF D!UserCreate, LegalStep, CacheStep
  <2>2. CASE D!UserEdit(d)
    <3>1. PICK s \in {NoSpec} :
             D!Store(d, [dev[d] EXCEPT !.rv = @ + 1, !.spec = s])
      BY <2>2 DEF D!UserEdit
    <3>2. LegalWrite(d, [dev[d] EXCEPT !.rv = @ + 1, !.spec = s])
      BY DEF D!Object, LegalWrite, RealmUnset
    <3>. QED  BY <2>2, <3>1, <3>2, DevVersionType
              DEF D!UserEdit, LegalStep, CacheStep
  <2>3. CASE D!UserDelete(d)
    <3>1. \E v \in {D!Absent(dev[d].rv + 1),
                    [dev[d] EXCEPT !.rv = @ + 1, !.deleting = TRUE]} :
             D!Store(d, v)
      BY <2>3 DEF D!UserDelete
    <3>2. LegalWrite(d, D!Absent(dev[d].rv + 1))
      BY DEF D!Absent, LegalWrite, RealmUnset
    <3>3. LegalWrite(d, [dev[d] EXCEPT !.rv = @ + 1, !.deleting = TRUE])
      BY DEF D!Object, LegalWrite, RealmUnset
    <3>. QED  BY <2>3, <3>1, <3>2, <3>3, DevVersionType
              DEF D!UserDelete, LegalStep, CacheStep
  <2>. QED  BY <1>3, <2>1, <2>2, <2>3
<1>. QED  BY <1>1, <1>2, <1>3

\* A step that does not touch RhpamDevs is legal.
LEMMA NoWriteLegal ==
    ASSUME UNCHANGED <<dev, devCache, devWatch>>
    PROVE  LegalStep /\ CacheStep
BY DEF LegalStep, CacheStep

\* A run that keeps its copy, or ends, stays sound.
LEMMA RunKept ==
    ASSUME DevTypeOK, RunSound, LegalStep,
           \/ job' = Idle
           \/ /\ job # Idle
              /\ job'.name = job.name /\ job'.copy = job.copy
              /\ job'.to = job.to
              /\ job'.pc = "mark" => job.pc = "mark"
    PROVE  RunSound'
<1>1. CASE job' = Idle
  BY <1>1 DEF RunSound
<1>2. ASSUME job # Idle, job'.name = job.name, job'.copy = job.copy,
             job'.to = job.to, job'.pc = "mark" => job.pc = "mark"
      PROVE  RunSound'
  <2>1. job.name \in Devs /\ job.copy \in D!Object /\ D!TypeOK
    BY <1>2 DEF DevTypeOK, ClusterTypeOK, Job, JobRecords
  <2>2. D!Sound(job.name, job.copy)'
    <3>1. ASSUME NEW d \in Devs, NEW v \in D!Object, D!Sound(d, v)
          PROVE  v.rv <= dev'[d].rv /\ (v.rv = dev'[d].rv => v = dev'[d])
      BY <2>1, <3>1, SoundKept DEF D!Sound
    <3>. QED  BY <1>2, <2>1, <3>1 DEF RunSound, D!Sound
  <2>. QED  BY <1>2, <2>2 DEF RunSound
<1>. QED  BY <1>1, <1>2

\* A handler starts a sound run: what it will save follows from what it read.
LEMMA HandlerSound ==
    ASSUME DevIInv, NEW d \in Devs, DevHandler(d)
    PROVE  RunSound' /\ UNCHANGED <<dev, devCache, devWatch>>
<1>1. /\ devCache[d] \in D!Object
      /\ D!Sound(d, devCache[d])
  BY DEF DevIInv, DevTypeOK, ClusterTypeOK, D!TypeOK, D!CopiesSound
<1>2. ASSUME NEW pc, NEW to, NEW todo, Start(d, pc, to, todo),
             devCache[d].exists,
             \/ to = PhaseDeprovisioned /\ devCache[d].deleting
             \/ /\ to = PhaseRealmProvisioned
                /\ devCache[d].phase \in {PhaseAccepted, PhaseRealmProvisioning}
             \/ <<devCache[d].phase, to>> \in RunMoves,
             pc = "mark" => /\ to = PhaseRealmProvisioned
                            /\ devCache[d].phase = PhaseAccepted
                            /\ ~devCache[d].deleting
      PROVE  RunSound' /\ UNCHANGED <<dev, devCache, devWatch>>
  <2>1. /\ job' = [pc |-> pc, name |-> d, copy |-> devCache[d], to |-> to,
                   realm |-> NoRealm, todo |-> todo, users |-> {}]
        /\ UNCHANGED <<dev, devCache, devWatch>>
    BY <1>2 DEF Start, Take
  <2>. QED  BY <1>1, <1>2, <2>1 DEF RunSound, D!Sound
<1>. USE DEF InPhase
<1>3. CASE InitializeDev(d)
  BY <1>2, <1>3 DEF InitializeDev, RunMoves
<1>4. CASE ProvisionRealm(d)
  BY <1>2, <1>4 DEF ProvisionRealm
<1>5. CASE Prepare(d)
  BY <1>2, <1>5 DEF Prepare, RunMoves
<1>6. CASE InstallDatabase(d)
  BY <1>2, <1>6 DEF InstallDatabase, RunMoves
<1>7. CASE InstallBusinessCentral(d)
  BY <1>2, <1>7 DEF InstallBusinessCentral, RunMoves
<1>8. CASE WaitForDatabase(d)
  <2>1. CASE Start(d, "save", PhaseDatabaseReady, <<>>)
    BY <1>2, <1>8, <2>1 DEF WaitForDatabase, RunMoves
  <2>2. CASE UNCHANGED devCtlVars
    BY <2>2 DEF devCtlVars, devVars, DevIInv, RunSound, D!Sound
  <2>. QED  BY <1>8, <2>1, <2>2 DEF WaitForDatabase
<1>9. CASE InstallKieServer(d)
  BY <1>2, <1>9 DEF InstallKieServer, RunMoves
<1>10. CASE DeprovisionDev(d)
  BY <1>2, <1>10 DEF DeprovisionDev
<1>11. CASE DropDev(d)
  BY <1>11 DEF DropDev, Take, DevIInv, RunSound, D!Sound
<1>. QED  BY <1>3, <1>4, <1>5, <1>6, <1>7, <1>8, <1>9, <1>10, <1>11 DEF DevHandler

\* A copy the API server accepts is the stored object.
LEMMA AcceptedCopy ==
    ASSUME DevIInv, job # Idle, D!Accepts(job.name, job.copy)
    PROVE  dev[job.name] = job.copy
BY DEF DevIInv, RunSound, D!Accepts, D!Sound

\* ProvisionRealm announces itself, from the copy it read.
LEMMA MarkLegal ==
    ASSUME DevIInv, Mark
    PROVE  LegalStep /\ CacheStep /\ RunSound'
<1>. DEFINE marked == [job.copy EXCEPT !.phase = PhaseRealmProvisioning]
<1>1. /\ job # Idle /\ job.pc = "mark" /\ job \in JobRecords /\ D!TypeOK
      /\ job.name \in Devs /\ job.copy \in D!Object
  <2>1. job # Idle
    BY DEF Mark, Idle
  <2>. QED  BY <2>1 DEF Mark, DevIInv, DevTypeOK, ClusterTypeOK, Job, JobRecords
<1>2. /\ marked \in D!Object /\ marked.exists /\ marked.rv = job.copy.rv
      /\ marked.phase = PhaseRealmProvisioning /\ marked.realm = job.copy.realm
      /\ marked.deleting = job.copy.deleting /\ marked.fin = job.copy.fin
  BY <1>1 DEF D!Object, StatusPhase, DevIInv, RunSound
<1>3. /\ job.copy.phase = PhaseAccepted /\ job.to = PhaseRealmProvisioned
      /\ job.copy.exists /\ ~job.copy.deleting /\ D!Sound(job.name, job.copy)
  BY <1>1 DEF DevIInv, RunSound
<1>. HIDE DEF marked
<1>4. PICK o \in Outcomes :
        /\ Put(marked, o)
        /\ job' = [job EXCEPT !.pc = "realm",
                     !.copy = IF ReturnsNil(o, D!Accepts(job.name, job.copy))
                              THEN D!Result(job.name, marked) ELSE @]
  BY DEF Mark, marked
<1>5. CacheStep
  BY DEF Mark, CacheStep
<1>6. CASE o # "failed" /\ D!Accepts(job.name, job.copy)
  <2>1. D!Update(job.name, marked)
    BY <1>4, <1>6 DEF Put
  <2>2. dev[job.name] = job.copy
    BY <1>1, <1>6, AcceptedCopy
  <2>3. RealmUnset(marked)
    BY <1>1, <1>2, <1>3, <2>2 DEF DevIInv, RealmUnset
  <2>4. LegalStep
    <3>1. <<dev[job.name].phase, marked.phase>> \in Advance
      BY <1>2, <1>3, <2>2, MovesAdvance
    <3>2. dev[job.name].exists /\ marked.realm = dev[job.name].realm
      BY <1>2, <1>3, <2>2
    <3>. QED  BY <1>1, <1>2, <2>1, <2>3, <3>1, <3>2, UpdateLegal
  <2>5. CASE ReturnsNil(o, D!Accepts(job.name, job.copy))
    <3>1. D!Result(job.name, marked) = dev'[job.name]
      BY <1>1, <2>1 DEF D!Update, D!Store, D!TypeOK
    <3>2. /\ job'.name = job.name /\ job'.to = job.to /\ job'.pc = "realm"
          /\ job'.copy = dev'[job.name]
      BY <1>1, <1>4, <2>5, <3>1 DEF JobRecords
    <3>3. /\ dev'[job.name].exists /\ dev'[job.name].rv \in Nat
          /\ dev'[job.name].phase = PhaseRealmProvisioning
      <4>1. D!Result(job.name, marked) \in
               {marked, [marked EXCEPT !.rv = dev[job.name].rv + 1]}
        BY <1>2, <1>3 DEF D!Result
      <4>. QED  BY <1>1, <1>2, <3>1, <4>1 DEF D!TypeOK, D!Object
    <3>4. D!Sound(job.name, job.copy)'
      BY <3>2, <3>3 DEF D!Sound
    <3>5. RunSound'
      BY <1>3, <3>2, <3>3, <3>4 DEF RunSound
    <3>. QED  BY <1>5, <2>4, <3>5
  <2>6. CASE ~ReturnsNil(o, D!Accepts(job.name, job.copy))
    <3>1. /\ job'.name = job.name /\ job'.to = job.to /\ job'.pc = "realm"
          /\ job'.copy = job.copy
      BY <1>1, <1>4, <2>6 DEF JobRecords
    <3>2. RunSound'
      BY <1>1, <2>4, <3>1, RunKept DEF DevIInv
    <3>. QED  BY <1>5, <2>4, <3>2
  <2>. QED  BY <1>5, <2>4, <2>5, <2>6
<1>7. CASE ~(o # "failed" /\ D!Accepts(job.name, job.copy))
  <2>1. UNCHANGED <<dev, devCache, devWatch>>
    BY <1>4, <1>7 DEF Put, Mark
  <2>2. /\ job'.name = job.name /\ job'.to = job.to /\ job'.pc = "realm"
        /\ job'.copy = job.copy
    BY <1>1, <1>4, <1>7 DEF JobRecords, ReturnsNil, Outcomes
  <2>3. LegalStep
    BY <2>1, NoWriteLegal
  <2>4. RunSound'
    BY <1>1, <2>2, <2>3, RunKept DEF DevIInv
  <2>. QED  BY <1>5, <2>3, <2>4
<1>. QED  BY <1>6, <1>7

\* A run saves the phase it was started for.
LEMMA SaveLegal ==
    ASSUME DevIInv, Save
    PROVE  LegalStep /\ CacheStep /\ RunSound'
<1>1. /\ job # Idle /\ job \in JobRecords /\ D!TypeOK
      /\ job.name \in Devs /\ job.copy \in D!Object
  <2>1. job # Idle
    BY DEF Save, Idle
  <2>. QED  BY <2>1 DEF Save, DevIInv, DevTypeOK, ClusterTypeOK, Job, JobRecords
<1>2. CacheStep
  BY DEF Save, CacheStep
<1>3. PICK o \in Outcomes : Put(Saved, o)
  BY DEF Save
<1>4. LegalStep
  <2>1. CASE o # "failed" /\ D!Accepts(job.name, job.copy)
    <3>1. D!Update(job.name, Saved) /\ dev[job.name] = job.copy
      BY <1>1, <1>3, <2>1, AcceptedCopy DEF Put
    <3>2. job.copy.exists /\ RealmUnset(job.copy)
      BY <1>1, <3>1 DEF DevIInv, RunSound
    <3>. DEFINE v == Saved
    <3>3. /\ v \in D!Object
          /\ v.exists /\ v.phase = job.to
          /\ v.deleting = job.copy.deleting
      BY <1>1, <3>2 DEF Saved, JobRecords, D!Object
    <3>4. job.to = PhaseDeprovisioned => ~v.fin
      BY <1>1 DEF Saved, D!Object, PhaseDeprovisioned, PhaseAccepted
    <3>5. job.to # PhaseRealmProvisioned => v.realm = job.copy.realm
      BY <1>1 DEF Saved, D!Object
    <3>. HIDE DEF v
    <3>6. D!Update(job.name, v) /\ dev[job.name].exists
      BY <3>1, <3>2 DEF v
    <3>7. CASE job.to = PhaseDeprovisioned /\ job.copy.deleting
      <4>1. RealmUnset(v) /\ v.realm = dev[job.name].realm
        BY <3>1, <3>3, <3>5, <3>7
           DEF RealmUnset, NoPhase, PhaseAccepted, PhaseRealmProvisioning,
               PhaseDeprovisioned, PhaseRealmProvisioned
      <4>. QED  BY <1>1, <3>3, <3>4, <3>6, <3>7, <4>1, UpdateLegal
    <3>8. CASE /\ job.to = PhaseRealmProvisioned
               /\ job.copy.phase \in {PhaseAccepted, PhaseRealmProvisioning}
      <4>1. dev[job.name].realm = NoRealm
        BY <3>1, <3>2, <3>8 DEF RealmUnset
      <4>2. RealmUnset(v)
        BY <3>3, <3>8
           DEF RealmUnset, NoPhase, PhaseAccepted, PhaseRealmProvisioning,
               PhaseRealmProvisioned
      <4>3. <<dev[job.name].phase, v.phase>> \in Advance
        BY <3>1, <3>3, <3>8, MovesAdvance
      <4>. QED  BY <1>1, <3>3, <3>6, <4>1, <4>2, <4>3, UpdateLegal
    <3>9. CASE <<job.copy.phase, job.to>> \in RunMoves
      <4>1. job.to # PhaseRealmProvisioned
        BY <3>9 DEF RunMoves, PhaseRealmProvisioned, PhaseAccepted, PhasePrepared,
           PhaseDatabaseInstalled, PhaseBusinessCentralInstalled,
           PhaseDatabaseReady, PhaseComplete
      <4>2. job.copy.phase = NoPhase \/
            job.to \notin {NoPhase, PhaseAccepted, PhaseRealmProvisioning}
        BY <3>9 DEF RunMoves, NoPhase, PhaseRealmProvisioning, PhaseAccepted,
           PhasePrepared, PhaseDatabaseInstalled, PhaseBusinessCentralInstalled,
           PhaseDatabaseReady, PhaseComplete
      <4>3. RealmUnset(v) /\ v.realm = dev[job.name].realm
        BY <3>1, <3>2, <3>3, <3>5, <4>1, <4>2 DEF RealmUnset
      <4>4. <<dev[job.name].phase, v.phase>> \in Advance
        BY <3>1, <3>3, <3>9, MovesAdvance
      <4>. QED  BY <1>1, <3>3, <3>6, <4>3, <4>4, UpdateLegal
    <3>. QED  BY <1>1, <3>7, <3>8, <3>9 DEF DevIInv, RunSound
  <2>2. CASE ~(o # "failed" /\ D!Accepts(job.name, job.copy))
    BY <1>3, <2>2, NoWriteLegal DEF Put, Save
  <2>. QED  BY <2>1, <2>2
<1>. QED  BY <1>2, <1>4, RunKept DEF Save, Requeue, DevIInv

\* The other calls of a run leave RhpamDevs alone and keep its copy.
LEMMA CallLegal ==
    ASSUME DevIInv, DevCall
    PROVE  LegalStep /\ CacheStep /\ RunSound'
<1>1. CASE Mark
  BY <1>1, MarkLegal
<1>2. CASE Save
  BY <1>2, SaveLegal
<1>3. CASE ~Mark /\ ~Save
  <2>1. job # Idle /\ job \in JobRecords
    <3>1. job.pc # "idle"
      BY <1>3 DEF DevCall, CreateRealm, CreateClient, CreateRealmSecret,
         CreateResource, DeleteRealm, ListUsers, DetachUser, DeleteResource
    <3>2. job # Idle
      BY <3>1 DEF Idle
    <3>. QED  BY <3>2 DEF DevIInv, DevTypeOK, Job
  <2>2. UNCHANGED <<dev, devCache, devWatch>>
    BY <1>3 DEF DevCall, CreateRealm, CreateClient, CreateRealmSecret,
       CreateResource, DeleteRealm, ListUsers, DetachUser, DeleteResource, devVars
  <2>3. \/ job' = Idle
        \/ /\ job'.name = job.name /\ job'.copy = job.copy
           /\ job'.to = job.to
           /\ job'.pc = "mark" => job.pc = "mark"
    <3>. USE <2>1 DEF JobRecords
    <3>1. ASSUME NEW next \in {[job EXCEPT !.pc = "secrets", !.todo = SecretOrder],
                               [job EXCEPT !.pc = "save", !.todo = <<>>]},
                 Proceed(next) \/ Requeue
          PROVE  \/ job' = Idle
                 \/ /\ job'.name = job.name /\ job'.copy = job.copy
                    /\ job'.to = job.to
                    /\ job'.pc = "mark" => job.pc = "mark"
      <4>1. CASE Requeue
        BY <4>1 DEF Requeue
      <4>2. CASE Proceed(next) /\ Len(job.todo) > 1
        BY <4>2 DEF Proceed
      <4>3. CASE Proceed(next) /\ ~(Len(job.todo) > 1)
        <5>1. job' = next
          BY <4>3 DEF Proceed
        <5>. QED  BY <5>1
      <4>. QED  BY <3>1, <4>1, <4>2, <4>3
    <3>2. CASE CreateRealm
      BY <3>2 DEF CreateRealm, Requeue
    <3>3. CASE CreateClient
      BY <3>1, <3>3 DEF CreateClient
    <3>4. CASE CreateRealmSecret
      BY <3>1, <3>4 DEF CreateRealmSecret, Create
    <3>5. CASE CreateResource
      BY <3>1, <3>5 DEF CreateResource, Create
    <3>6. CASE DeleteRealm
      BY <3>6 DEF DeleteRealm, Requeue
    <3>7. CASE ListUsers
      BY <3>7 DEF ListUsers
    <3>8. CASE DetachUser
      BY <3>8 DEF DetachUser
    <3>9. CASE DeleteResource
      BY <3>1, <3>9 DEF DeleteResource
    <3>. QED  BY <1>3, <3>2, <3>3, <3>4, <3>5, <3>6, <3>7, <3>8, <3>9 DEF DevCall
  <2>. QED  BY <2>1, <2>2, <2>3, NoWriteLegal, RunKept DEF DevIInv
<1>. QED  BY <1>1, <1>2, <1>3

\* A step of the controller: a handler that starts, or a call of a run.
LEMMA ControllerLegal ==
    ASSUME DevIInv, DevController
    PROVE  LegalStep /\ CacheStep /\ RunSound'
BY CallLegal, HandlerSound, NoWriteLegal DEF DevController

-----------------------------------------------------------------------------
(* The steps of DevAlone, and the theorems.                                *)


\* Every step keeps every variable in its type.
LEMMA AloneStepType ==
    ASSUME DevTypeOK, [AloneNext]_devCtlVars
    PROVE  DevTypeOK'
<1>1. CASE DevController
  BY <1>1, CallType, HandlerType DEF DevController
<1>2. ASSUME NEW d \in Devs, HandOff(d)
      PROVE  DevTypeOK'
  <2>1. [dev[d] EXCEPT !.phase = PhasePrepare] \in D!Object
    BY DEF DevTypeOK, ClusterTypeOK, D!TypeOK, D!Object, StatusPhase
  <2>2. /\ dev' \in [Devs -> D!Object]
        /\ devWatch' \in [Devs -> SUBSET D!Object]
    BY <1>2, <2>1, DevUpdateType DEF HandOff, DevTypeOK, ClusterTypeOK
  <2>3. faults' \in 0..MaxFaults
    BY <1>2, SufferType DEF HandOff, Outcomes, DevTypeOK, ClusterTypeOK
  <2>. QED  BY <1>2, <2>2, <2>3 DEF HandOff, DevTypeOK, ClusterTypeOK,
            KeycloakTypeOK, D!TypeOK, U!TypeOK, userVars, resVars, ssoVars
<1>3. CASE Informers
  BY <1>3, InformersType DEF Informers, DevTypeOK, KeycloakTypeOK, ssoVars
<1>4. CASE Platform
  BY <1>4, PlatformType DEF Platform, DevTypeOK, KeycloakTypeOK, ssoVars
<1>5. CASE ClusterUsers
  BY <1>5, ClusterUsersType DEF ClusterUsers, DevTypeOK, KeycloakTypeOK, ssoVars
<1>6. CASE Crash
  BY <1>6, RestartType DEF Crash, DevTypeOK, KeycloakTypeOK, ssoVars
<1>7. CASE UNCHANGED devCtlVars
  BY <1>7 DEF devCtlVars, DevTypeOK, ClusterTypeOK, KeycloakTypeOK, D!TypeOK,
     U!TypeOK, devVars, userVars, resVars, budget, ssoVars
<1>8. ASSUME NEW u \in Users, NEW d \in Devs, Attach(u, d)
      PROVE  DevTypeOK'
  <2>. DEFINE attached(s) == [U!Created(user[u].rv + 1, s) EXCEPT
                                !.fin = TRUE, !.phase = PhaseReconcile,
                                !.realm = dev[d].realm]
  <2>. D!TypeOK /\ U!TypeOK
    BY DEF DevTypeOK, ClusterTypeOK
  <2>1. user[u] \in U!Object /\ user[u].rv + 1 \in Nat
    BY DEF U!TypeOK, U!Object
  <2>2. dev[d].realm \in Realms
    BY DEF D!TypeOK, D!Object
  <2>3. ASSUME NEW s \in UserSpecs
        PROVE  attached(s) \in U!Object
    <3>1. U!Created(user[u].rv + 1, s) \in U!Object
      BY <2>1, UserVersionType
    <3>. QED  BY <2>2, <3>1 DEF U!Object, StatusPhase
  <2>4. PICK s \in UserSpecs : U!Store(u, attached(s))
    BY <1>8 DEF Attach
  <2>5. U!TypeOK'
    BY <1>8, <2>3, <2>4 DEF Attach, U!TypeOK, U!Store
  <2>6. writes' \in 0..MaxWrites
    BY <1>8, BoundsAssumption DEF Attach, Write, DevTypeOK, ClusterTypeOK
  <2>. QED  BY <1>8, <2>5, <2>6 DEF Attach, DevTypeOK, ClusterTypeOK, KeycloakTypeOK,
            D!TypeOK, devVars, resVars, ssoVars
<1>. QED  BY <1>1, <1>2, <1>3, <1>4, <1>5, <1>6, <1>7, <1>8 DEF AloneNext

\* Every step writes RhpamDevs legally and leaves the run sound.
LEMMA AloneStepLegal ==
    ASSUME DevIInv, [AloneNext]_devCtlVars
    PROVE  LegalStep /\ CacheStep /\ RunSound'
<1>. DevTypeOK /\ D!TypeOK /\ RunSound /\ \A d \in Devs : RealmUnset(dev[d])
  BY DEF DevIInv, DevTypeOK, ClusterTypeOK
<1>0. ASSUME LegalStep, CacheStep, job' = job \/ job' = Idle
      PROVE  LegalStep /\ CacheStep /\ RunSound'
  <2>1. CASE job = Idle
    BY <1>0, <2>1 DEF RunSound
  <2>2. CASE job # Idle
    BY <1>0, <2>2, RunKept
  <2>. QED  BY <2>1, <2>2
<1>1. CASE DevController
  BY <1>1, ControllerLegal
<1>2. ASSUME NEW d \in Devs, HandOff(d)
      PROVE  LegalStep /\ CacheStep /\ RunSound'
  <2>. DEFINE v == [dev[d] EXCEPT !.phase = PhasePrepare]
  <2>1. /\ v \in D!Object /\ v.exists = dev[d].exists
        /\ v.phase = PhasePrepare /\ v.realm = dev[d].realm
    BY DEF D!TypeOK, D!Object, StatusPhase
  <2>2. RealmUnset(v)
    BY <2>1 DEF RealmUnset, PhasePrepare, NoPhase, PhaseAccepted,
       PhaseRealmProvisioning
  <2>3. /\ D!Update(d, v) /\ dev[d].exists
        /\ dev[d].phase = PhaseRealmProvisioned
    BY <1>2 DEF HandOff
  <2>. HIDE DEF v
  <2>4. <<dev[d].phase, v.phase>> \in Advance
    BY <2>1, <2>3, MovesAdvance
  <2>5. LegalStep
    BY <2>1, <2>2, <2>3, <2>4, UpdateLegal
  <2>6. CacheStep /\ job' = job
    BY <1>2 DEF HandOff, CacheStep
  <2>. QED  BY <1>0, <2>5, <2>6
<1>3. CASE Informers
  <2>1. \/ \E d \in Devs : D!Deliver(d) \/ D!Resync(d)
        \/ UNCHANGED <<dev, devCache, devWatch>>
    BY <1>3 DEF Informers, DeliverDev, ResyncDev, DeliverUser, SyncResources, devVars
  <2>2. LegalStep /\ CacheStep
    BY <2>1, ObjectStepLegal, NoWriteLegal
  <2>. QED  BY <1>0, <1>3, <2>2 DEF Informers
<1>4. CASE Platform
  <2>1. UNCHANGED <<dev, devCache, devWatch>>
    BY <1>4 DEF Platform, DatabaseUp, DatabaseDown, Collect, devVars
  <2>. QED  BY <1>0, <1>4, <2>1, NoWriteLegal DEF Platform
<1>5. CASE ClusterUsers
  <2>1. \E d \in Devs : D!UserCreate(d) \/ D!UserEdit(d) \/ D!UserDelete(d)
    BY <1>5 DEF ClusterUsers, CreateDev, EditDev, DeleteDev
  <2>. QED  BY <1>0, <1>5, <2>1, ObjectStepLegal DEF ClusterUsers
<1>6. CASE Crash
  <2>1. LegalStep /\ CacheStep
    BY <1>6 DEF Crash, RestartCluster, D!Relist, LegalStep, CacheStep, D!TypeOK
  <2>. QED  BY <1>0, <1>6, <2>1 DEF Crash
<1>7. CASE UNCHANGED devCtlVars
  BY <1>0, <1>7, NoWriteLegal DEF devCtlVars, devVars
<1>8. ASSUME NEW u \in Users, NEW d \in Devs, Attach(u, d)
      PROVE  LegalStep /\ CacheStep /\ RunSound'
  BY <1>0, <1>8, NoWriteLegal DEF Attach, devVars
<1>. QED  BY <1>1, <1>2, <1>3, <1>4, <1>5, <1>6, <1>7, <1>8 DEF AloneNext

\* The strengthened invariant is inductive.
LEMMA AloneInductive ==
    ASSUME DevIInv, [AloneNext]_devCtlVars
    PROVE  DevIInv'
<1>. D!TypeOK /\ DevTypeOK
  BY DEF DevIInv, DevTypeOK, ClusterTypeOK
<1>1. DevTypeOK'
  BY AloneStepType
<1>2. LegalStep /\ CacheStep /\ RunSound'
  BY AloneStepLegal
<1>3. D!CopiesSound'
  BY <1>1, <1>2, CopiesKept DEF DevIInv, DevTypeOK, ClusterTypeOK
<1>4. \A d \in Devs : RealmUnset(dev'[d])
  BY <1>2, RealmUnsetKept DEF DevIInv
<1>. QED  BY <1>1, <1>2, <1>3, <1>4 DEF DevIInv, RealmUnset

\* Whatever is interrupted, fails or is read stale: a run of Reconcile only
\* calls what its handler lists, and what it will save still follows from the
\* object the API server stores, unless the API server will refuse it.
THEOREM DevInvariant == AloneSpec => []DevIInv
<1>1. DevInit => DevIInv
  <2>. SUFFICES ASSUME DevInit
                PROVE  DevIInv
    OBVIOUS
  <2>1. \A d \in Devs : /\ dev[d] = D!Absent(0) /\ devCache[d] = D!Absent(0)
                        /\ devWatch[d] = {}
    BY DEF DevInit, ClusterInit, D!Init
  <2>2. D!CopiesSound
    BY <2>1 DEF D!CopiesSound, D!Sound, D!Absent
  <2>3. RunSound /\ \A d \in Devs : RealmUnset(dev[d])
    BY <2>1 DEF DevInit, RunSound, RealmUnset, D!Absent
  <2>. QED  BY <2>2, <2>3, InitType DEF DevIInv
<1>2. DevIInv /\ [AloneNext]_devCtlVars => DevIInv'
  BY AloneInductive
<1>. QED  BY <1>1, <1>2, PTL DEF AloneSpec

\* The phase of a RhpamDev goes through the installation in order.
THEOREM DevPhaseOrder == AloneSpec => PhaseOrder
<1>1. DevIInv /\ [AloneNext]_devCtlVars =>
        [\A d \in Devs : SameDev(d) =>
            \/ dev'[d].phase = dev[d].phase
            \/ <<dev[d].phase, dev'[d].phase>> \in Advance]_dev
  BY AloneStepLegal, LegalStepOrder DEF DevIInv, DevTypeOK, ClusterTypeOK
<1>. QED  BY <1>1, DevInvariant, PTL DEF AloneSpec, PhaseOrder

\* The realm a RhpamDev was given is its realm for life.
THEOREM DevRealmStable == AloneSpec => RealmStable
<1>1. DevIInv /\ [AloneNext]_devCtlVars =>
        [\A d \in Devs : SameDev(d) /\ dev[d].realm # NoRealm =>
            dev'[d].realm = dev[d].realm]_dev
  BY AloneStepLegal, LegalStepOrder DEF DevIInv, DevTypeOK, ClusterTypeOK
<1>. QED  BY <1>1, DevInvariant, PTL DEF AloneSpec, RealmStable
=============================================================================
