--------------------------- MODULE LifecycleProofs ---------------------------
(***************************************************************************)
(* Why the realm of a present RhpamDev serves and its finalizer holds: the *)
(* kinds of versions a step may store, what old copies tell of the stored  *)
(* object, and what the run in progress may still do to a realm.  With     *)
(* this, that the RhpamDev controller among users, informers, faults and   *)
(* crashes implements Lifecycle, for any number of objects, writes, faults *)
(* and tokens.                                                             *)
(***************************************************************************)
EXTENDS DevAloneProofs

\* What may be stored next for the RhpamDev d: a new object, a tombstone, an
\* edited or deleted version, the next phase, the realm of the run.
Begins(d, v) == ~dev[d].exists /\ v = D!Created(dev[d].rv + 1, NoSpec)

Ends(d, v) ==
    /\ dev[d].exists /\ v = D!Absent(dev[d].rv + 1)
    /\ \/ ~dev[d].deleting /\ ~dev[d].fin /\ dev[d].phase = NoPhase
       \/ dev[d].deleting /\ dev[d].realm \in RealmIds \ realms

Edits(d, v) == dev[d].exists /\ v = [dev[d] EXCEPT !.rv = @ + 1]

Deletes(d, v) ==
    /\ dev[d].exists /\ dev[d].fin /\ ~dev[d].deleting
    /\ v = [dev[d] EXCEPT !.rv = @ + 1, !.deleting = TRUE]

MovesOn(d, v) ==
    /\ dev[d].exists
    /\ \E p \in StatusPhase \ {PhaseRealmProvisioned} :
          /\ <<dev[d].phase, p>> \in Advance
          /\ v = [dev[d] EXCEPT !.rv = @ + 1, !.fin = TRUE, !.phase = p]

GetsRealm(d, v) ==
    /\ dev[d].exists /\ dev[d].fin /\ ~dev[d].deleting
    /\ dev[d].phase \in {PhaseAccepted, PhaseRealmProvisioning}
    /\ Known(d)
    /\ job # Idle /\ job.name = d /\ job.to = PhaseRealmProvisioned
    /\ job.realm \in RealmIds /\ job.realm[1] = d /\ Served(job.realm)
    /\ v = [dev[d] EXCEPT !.rv = @ + 1, !.phase = PhaseRealmProvisioned,
                          !.realm = job.realm]

Stores(d, v) ==
    \/ Begins(d, v) \/ Ends(d, v) \/ Edits(d, v) \/ Deletes(d, v)
    \/ MovesOn(d, v) \/ GetsRealm(d, v)

\* A step writes at most one RhpamDev, and not while it changes Keycloak.
ObjectStep ==
    \/ UNCHANGED dev /\ \A d \in Devs : devWatch'[d] \subseteq devWatch[d]
    \/ /\ UNCHANGED <<realms, clients>>
       /\ \E d \in Devs, v \in D!Object : Stores(d, v) /\ D!Store(d, v)

\* The cache keeps what it has, takes the oldest version of the watch, or
\* starts again from the API server.
InformerStep ==
    \/ UNCHANGED devCache
    \/ /\ UNCHANGED dev
       /\ \E d \in Devs, v \in D!Object :
             /\ v \in devWatch[d] /\ \A w \in devWatch[d] : v.rv <= w.rv
             /\ devCache' = [devCache EXCEPT ![d] = v]
             /\ devWatch' = [devWatch EXCEPT ![d] = @ \ {v}]
    \/ UNCHANGED dev /\ devCache' = dev /\ devWatch' = [d \in Devs |-> {}]

\* Keycloak keeps what serves, unless the run in progress deletes the realm
\* of its copy.
RealmStep ==
    \/ realms \subseteq realms' /\ clients \subseteq clients'
    \/ /\ job # Idle /\ job.to = PhaseDeprovisioned
       /\ realms' = realms \ {job.copy.realm}
       /\ clients' = {x \in clients : x[1] # job.copy.realm}

-----------------------------------------------------------------------------
(* Stored objects and their copies.                                        *)

\* The phases in which a RhpamDev has no realm, and where they lead.
LEMMA EarlyMoves ==
    ASSUME NEW p, NEW q, <<p, q>> \in Advance
    PROVE  /\ q # NoPhase
           /\ p \in {NoPhase, PhaseAccepted, PhaseRealmProvisioning} =>
                 q \in {PhaseAccepted, PhaseRealmProvisioning, PhaseRealmProvisioned}
<1>1. /\ PhaseRank[1] = NoPhase /\ PhaseRank[2] = PhaseAccepted
      /\ PhaseRank[3] = PhaseRealmProvisioning
      /\ PhaseRank[4] = PhaseRealmProvisioned /\ PhaseRank[5] = PhasePrepare
      /\ PhaseRank[6] = PhasePrepared /\ PhaseRank[7] = PhaseDatabaseInstalled
      /\ PhaseRank[8] = PhaseBusinessCentralInstalled
      /\ PhaseRank[9] = PhaseDatabaseReady /\ PhaseRank[10] = PhaseComplete
      /\ Len(PhaseRank) = 10
  BY DEF PhaseRank
<1>2. PICK i \in 1..9 : \/ p = PhaseRank[i] /\ q = PhaseRank[i + 1]
                        \/ p = PhaseAccepted /\ q = PhaseRealmProvisioned
  BY <1>1 DEF Advance
<1>3. \/ p = NoPhase /\ q = PhaseAccepted
      \/ p = PhaseAccepted /\ q \in {PhaseRealmProvisioning, PhaseRealmProvisioned}
      \/ p = PhaseRealmProvisioning /\ q = PhaseRealmProvisioned
      \/ p = PhaseRealmProvisioned /\ q = PhasePrepare
      \/ p = PhasePrepare /\ q = PhasePrepared
      \/ p = PhasePrepared /\ q = PhaseDatabaseInstalled
      \/ p = PhaseDatabaseInstalled /\ q = PhaseBusinessCentralInstalled
      \/ p = PhaseBusinessCentralInstalled /\ q = PhaseDatabaseReady
      \/ p = PhaseDatabaseReady /\ q = PhaseComplete
  <2>1. i \in {1, 2, 3, 4, 5, 6, 7, 8, 9}
    OBVIOUS
  <2>. HIDE DEF PhaseRank
  <2>. QED  BY <1>1, <1>2, <2>1
<1>. QED
  BY <1>3 DEF NoPhase, PhaseAccepted, PhaseRealmProvisioning,
     PhaseRealmProvisioned, PhasePrepare, PhasePrepared, PhaseDatabaseInstalled,
     PhaseBusinessCentralInstalled, PhaseDatabaseReady, PhaseComplete

\* The next version of an object is an object.
LEMMA ObjectVersion ==
    ASSUME NEW x \in D!Object, NEW p \in StatusPhase, NEW r \in Realms
    PROVE  /\ [x EXCEPT !.rv = @ + 1, !.fin = TRUE, !.phase = p] \in D!Object
           /\ [x EXCEPT !.rv = @ + 1, !.phase = p, !.realm = r] \in D!Object
<1>1. x.rv + 1 \in Nat
  BY DEF D!Object
<1>. QED  BY <1>1 DEF D!Object

\* What becomes of the identity of a RhpamDev when a version is stored.
LEMMA StoreFacts ==
    ASSUME D!TypeOK, NEW d \in Devs, NEW v \in D!Object, Stores(d, v)
    PROVE  /\ v.rv = dev[d].rv + 1
           /\ v.exists => \/ /\ dev[d].exists /\ v.uid = dev[d].uid
                             /\ dev[d].deleting => v.deleting
                          \/ ~dev[d].exists /\ v.uid = v.rv /\ v.realm = NoRealm
           /\ v.exists /\ v.deleting => dev[d].exists /\ v.uid = dev[d].uid
           /\ v.uid = dev[d].uid \/ v.uid = 0 \/ v.uid = v.rv
           /\ v.realm \in {NoRealm, dev[d].realm} \/ v.realm[1] = d
<1>. dev[d] \in D!Object /\ v \in D!Object
  BY DEF D!TypeOK
<1>1. CASE Begins(d, v)
  BY <1>1 DEF Begins, D!Created, D!Absent, D!Object
<1>2. CASE Ends(d, v)
  BY <1>2 DEF Ends, D!Absent, D!Object
<1>3. CASE Edits(d, v)
  BY <1>3 DEF Edits, D!Object
<1>4. CASE Deletes(d, v)
  BY <1>4 DEF Deletes, D!Object
<1>5. CASE MovesOn(d, v)
  BY <1>5 DEF MovesOn, D!Object
<1>6. CASE GetsRealm(d, v)
  BY <1>6 DEF GetsRealm, D!Object
<1>. QED  BY <1>1, <1>2, <1>3, <1>4, <1>5, <1>6 DEF Stores

\* What a copy tells stays true: a write keeps the identity of the object, or
\* makes one newer than every copy.
LEMMA FaithfulKept ==
    ASSUME D!TypeOK, ObjectStep, NEW d \in Devs, NEW v \in D!Object,
           D!Sound(d, v), Faithful(d, v)
    PROVE  Faithful(d, v)'
<1>1. CASE UNCHANGED dev
  BY <1>1 DEF Faithful
<1>2. ASSUME NEW e \in Devs, NEW w \in D!Object, Stores(e, w), D!Store(e, w)
      PROVE  Faithful(d, v)'
  <2>1. CASE d # e
    <3>1. dev'[d] = dev[d]
      BY <1>2, <2>1 DEF D!Store, D!TypeOK
    <3>. QED  BY <3>1 DEF Faithful
  <2>2. CASE d = e
    <3>1. dev'[d] = w
      BY <1>2, <2>2 DEF D!Store, D!TypeOK
    <3>2. v.rv \in Nat /\ v.uid \in Nat /\ dev[d].rv \in Nat /\ v.rv <= dev[d].rv
      BY DEF D!TypeOK, D!Object, D!Sound
    <3>3. /\ w.rv = dev[d].rv + 1
          /\ w.exists => \/ /\ dev[d].exists /\ w.uid = dev[d].uid
                            /\ dev[d].deleting => w.deleting
                         \/ ~dev[d].exists /\ w.uid = w.rv
      BY <1>2, <2>2, StoreFacts
    <3>. QED  BY <3>1, <3>2, <3>3 DEF Faithful
  <2>. QED  BY <2>1, <2>2
<1>. QED  BY <1>1, <1>2 DEF ObjectStep

\* The stored object is a faithful copy of itself.
LEMMA StoredFaithful ==
    ASSUME D!TypeOK, ObjectStep, NEW d \in Devs, Faithful(d, dev[d])
    PROVE  Faithful(d, dev[d])'
<1>1. CASE UNCHANGED dev
  BY <1>1 DEF Faithful
<1>2. ASSUME NEW e \in Devs, NEW w \in D!Object, Stores(e, w), D!Store(e, w)
      PROVE  Faithful(d, dev[d])'
  <2>1. dev'[d] = IF d = e THEN w ELSE dev[d]
    BY <1>2 DEF D!Store, D!TypeOK
  <2>2. CASE d # e
    BY <2>1, <2>2 DEF Faithful
  <2>3. CASE d = e
    <3>1. /\ w.uid \in Nat /\ w.rv \in Nat
          /\ dev[d].uid \in Nat /\ dev[d].rv \in Nat /\ dev[d].uid <= dev[d].rv
      BY DEF D!TypeOK, D!Object, Faithful
    <3>2. /\ w.rv = dev[d].rv + 1
          /\ w.uid = dev[d].uid \/ w.uid = 0 \/ w.uid = w.rv
          /\ w.realm \in {NoRealm, dev[d].realm} \/ w.realm[1] = d
      BY <1>2, <2>3, StoreFacts
    <3>. QED  BY <2>1, <2>3, <3>1, <3>2 DEF Faithful
  <2>. QED  BY <2>2, <2>3
<1>. QED  BY <1>1, <1>2 DEF ObjectStep

\* Informer copies and undelivered versions stay faithful and in order.
LEMMA CopiesFaithfulKept ==
    ASSUME D!TypeOK, D!CopiesSound, CopiesFaithful, ObjectStep, InformerStep
    PROVE  CopiesFaithful'
<1>1. ASSUME NEW d \in Devs
      PROVE  Faithful(d, dev[d])'
  BY StoredFaithful DEF CopiesFaithful
<1>2. ASSUME NEW d \in Devs, NEW v \in {devCache[d]} \cup devWatch[d]
      PROVE  Faithful(d, v)' /\ v.rv \in Nat /\ v.rv <= dev[d].rv
  <2>1. v \in D!Object /\ D!Sound(d, v) /\ Faithful(d, v)
    BY DEF D!TypeOK, D!CopiesSound, CopiesFaithful
  <2>. QED  BY <2>1, FaithfulKept DEF D!Sound, D!Object
<1>3. CASE UNCHANGED devCache
  <2>1. ASSUME NEW d \in Devs, NEW v \in devWatch'[d]
        PROVE  \/ v \in devWatch[d]
               \/ v = dev'[d] /\ dev'[d].rv = dev[d].rv + 1
    BY <2>1, StoreFacts DEF ObjectStep, D!Store, D!TypeOK
  <2>2. ASSUME NEW d \in Devs, NEW v \in devWatch'[d]
        PROVE  Faithful(d, v)' /\ devCache[d].rv <= v.rv
    <3>1. CASE v \in devWatch[d]
      BY <1>2, <3>1 DEF CopiesFaithful
    <3>2. CASE v = dev'[d] /\ dev'[d].rv = dev[d].rv + 1
      <4>1. devCache[d].rv \in Nat /\ dev[d].rv \in Nat
            /\ devCache[d].rv <= dev[d].rv
        BY <1>2 DEF D!TypeOK, D!Object
      <4>2. Faithful(d, v)'
        <5>1. Faithful(d, dev[d])'
          BY <1>1
        <5>. QED  BY <3>2, <5>1 DEF Faithful
      <4>. QED  BY <3>2, <4>1, <4>2
    <3>. QED  BY <2>1, <2>2, <3>1, <3>2
  <2>3. ASSUME NEW d \in Devs
        PROVE  Faithful(d, devCache[d])'
    BY <1>2, <1>3 DEF Faithful
  <2>. QED  BY <1>1, <1>3, <2>2, <2>3 DEF CopiesFaithful, Faithful
<1>4. ASSUME UNCHANGED dev, NEW e \in Devs, NEW w \in D!Object,
             w \in devWatch[e], \A x \in devWatch[e] : w.rv <= x.rv,
             devCache' = [devCache EXCEPT ![e] = w],
             devWatch' = [devWatch EXCEPT ![e] = @ \ {w}]
      PROVE  CopiesFaithful'
  BY <1>4 DEF CopiesFaithful, Faithful, D!TypeOK
<1>5. CASE UNCHANGED dev /\ devCache' = dev /\ devWatch' = [d \in Devs |-> {}]
  BY <1>5 DEF CopiesFaithful, Faithful, D!TypeOK
<1>. QED  BY <1>3, <1>4, <1>5 DEF InformerStep

\* An object the informer has seen stays seen as long as it lives.
LEMMA KnownKept ==
    ASSUME D!TypeOK, CopiesFaithful, InformerStep, NEW d \in Devs, Known(d),
           dev[d].exists, dev'[d].uid = dev[d].uid
    PROVE  Known(d)'
<1>. USE DEF Known
<1>1. CASE UNCHANGED devCache
  BY <1>1
<1>2. ASSUME UNCHANGED dev, NEW e \in Devs, NEW w \in D!Object,
             w \in devWatch[e],
             devCache' = [devCache EXCEPT ![e] = w]
      PROVE  Known(d)'
  <2>1. CASE d = e
    <3>1. /\ devCache[d].uid <= devCache[d].rv /\ devCache[d].rv <= w.rv
          /\ w.rv >= dev[d].uid => w.exists /\ w.uid = dev[d].uid
      BY <1>2, <2>1 DEF CopiesFaithful, Faithful
    <3>2. /\ devCache[d].uid \in Nat /\ devCache[d].rv \in Nat /\ w.rv \in Nat
          /\ dev[d].uid \in Nat
      BY DEF D!TypeOK, D!Object
    <3>. QED  BY <1>2, <2>1, <3>1, <3>2 DEF D!TypeOK
  <2>. QED  BY <1>2, <2>1 DEF D!TypeOK
<1>3. CASE UNCHANGED dev /\ devCache' = dev
  BY <1>3
<1>. QED  BY <1>1, <1>2, <1>3 DEF InformerStep

\* A realm that serves goes on serving, unless the run in progress deletes it.
LEMMA ServedKept ==
    ASSUME RealmStep, NEW r, Served(r),
           ~(job # Idle /\ job.to = PhaseDeprovisioned /\ r = job.copy.realm)
    PROVE  Served(r)'
BY DEF RealmStep, Served

\* The realm a run of Deprovision deletes is no present RhpamDev's.
LEMMA NotTaken ==
    ASSUME RealmIInv, job # Idle, job.to = PhaseDeprovisioned,
           NEW d \in Devs, Present(d), dev[d].realm # NoRealm
    PROVE  dev[d].realm # job.copy.realm
<1>. SUFFICES ASSUME dev[d].realm = job.copy.realm
              PROVE  FALSE
  OBVIOUS
<1>1. job.copy.realm[1] = job.name /\ dev[d].realm[1] = d
  BY DEF RealmIInv, RunKeepsRealm, CopiesFaithful, Faithful
<1>2. ~(Present(job.name) /\ dev[job.name].realm # NoRealm)
  BY DEF RealmIInv, RunKeepsRealm, Deprovisioning, PhaseDeprovisioned,
     PhaseRealmProvisioned
<1>. QED  BY <1>1, <1>2

\* What is stored of a RhpamDev with a realm stays right.
LEMMA RealmKeptKept ==
    ASSUME RealmIInv, ObjectStep, InformerStep, RealmStep, NEW d \in Devs
    PROVE  RealmKept(d)'
<1>. D!TypeOK /\ CopiesFaithful /\ RealmKept(d) /\ dev[d] \in D!Object
  BY DEF RealmIInv, DevIInv, DevTypeOK, ClusterTypeOK, D!TypeOK
<1>1. ASSUME dev'[d] = dev[d]
      PROVE  RealmKept(d)'
  <2>1. dev[d].exists /\ dev[d].realm # NoRealm => Known(d)'
    BY <1>1, KnownKept DEF RealmKept
  <2>2. Present(d) /\ dev[d].realm # NoRealm => Served(dev[d].realm)'
    <3>. SUFFICES ASSUME Present(d), dev[d].realm # NoRealm
                  PROVE  Served(dev[d].realm)'
      OBVIOUS
    <3>1. Served(dev[d].realm)
      BY DEF RealmKept
    <3>2. ~(job # Idle /\ job.to = PhaseDeprovisioned
              /\ dev[d].realm = job.copy.realm)
      BY NotTaken
    <3>. QED  BY <1>1, <3>1, <3>2, ServedKept
  <2>. QED  BY <1>1, <2>1, <2>2 DEF RealmKept, Present, Served, Known
<1>2. ASSUME NEW v \in D!Object, Stores(d, v), dev'[d] = v,
             UNCHANGED <<realms, clients>>
      PROVE  RealmKept(d)'
  <2>1. v.exists /\ v.uid = dev[d].uid /\ dev[d].exists /\ dev[d].realm # NoRealm
           => Known(d)'
    BY <1>2, KnownKept DEF RealmKept
  <2>. USE <1>2, <2>1 DEF RealmKept, Present, Served, D!Object
  <2>2. CASE Begins(d, v)
    BY <2>2 DEF Begins, D!Created, D!Absent
  <2>3. CASE Ends(d, v)
    BY <2>3 DEF Ends, D!Absent
  <2>4. CASE Edits(d, v)
    BY <2>4 DEF Edits
  <2>5. CASE Deletes(d, v)
    BY <2>5 DEF Deletes
  <2>6. CASE MovesOn(d, v)
    BY <2>6, EarlyMoves DEF MovesOn
  <2>7. CASE GetsRealm(d, v)
    <3>1. Known(d)'
      BY <2>7, KnownKept DEF GetsRealm
    <3>. QED  BY <2>7, <3>1, NoRealmAssumption DEF GetsRealm
  <2>. QED  BY <2>2, <2>3, <2>4, <2>5, <2>6, <2>7 DEF Stores
<1>. QED
  <2>1. \/ dev'[d] = dev[d]
        \/ UNCHANGED <<realms, clients>>
           /\ \E v \in D!Object : Stores(d, v) /\ dev'[d] = v
    BY DEF ObjectStep, D!Store, D!TypeOK
  <2>. QED  BY <1>1, <1>2, <2>1

-----------------------------------------------------------------------------
(* The run in progress.                                                    *)

\* What a run knows of its object stays true while it goes on: in particular
\* no realm appears under a run of Deprovision.
LEMMA RunFactsKept ==
    ASSUME RealmIInv, ObjectStep, InformerStep, job # Idle,
           NEW d, NEW v, d = job.name, v = job.copy
    PROVE  /\ Faithful(d, v)'
           /\ (dev[d].exists /\ v.uid = dev[d].uid)' => Known(d)'
           /\ job.to = PhaseDeprovisioned =>
                 ~(Present(d) /\ dev[d].realm # NoRealm)'
<1>. /\ D!TypeOK /\ d \in Devs /\ v \in D!Object /\ CopiesFaithful
     /\ D!Sound(d, v) /\ Faithful(d, v)
     /\ dev[d].exists /\ v.uid = dev[d].uid => Known(d)
     /\ job.to = PhaseDeprovisioned => ~(Present(d) /\ dev[d].realm # NoRealm)
  BY DEF RealmIInv, DevIInv, DevTypeOK, ClusterTypeOK, Job, JobRecords, RunSound,
     RunKeepsRealm, Deprovisioning, PhaseDeprovisioned, PhaseRealmProvisioned
<1>1. Faithful(d, v)'
  BY FaithfulKept
<1>2. CASE dev'[d] = dev[d]
  <2>1. dev[d].exists /\ v.uid = dev[d].uid => Known(d)'
    BY <1>2, KnownKept
  <2>. QED  BY <1>1, <1>2, <2>1 DEF Present
<1>3. ASSUME NEW w \in D!Object, Stores(d, w), dev'[d] = w
      PROVE  /\ (dev[d].exists /\ v.uid = dev[d].uid)' => Known(d)'
             /\ job.to = PhaseDeprovisioned =>
                   ~(Present(d) /\ dev[d].realm # NoRealm)'
  <2>1. /\ w.rv = dev[d].rv + 1
        /\ w.exists => \/ dev[d].exists /\ w.uid = dev[d].uid
                       \/ ~dev[d].exists /\ w.uid = w.rv
    BY <1>3, StoreFacts
  <2>2. ASSUME w.exists, v.uid = w.uid
        PROVE  Known(d)'
    <3>1. /\ v.uid \in Nat /\ v.rv \in Nat /\ dev[d].rv \in Nat
          /\ v.uid <= v.rv /\ v.rv <= dev[d].rv
      BY DEF D!Object, D!TypeOK, Faithful, D!Sound
    <3>2. dev[d].exists /\ w.uid = dev[d].uid
      BY <2>1, <2>2, <3>1
    <3>. QED  BY <1>3, <2>2, <3>2, KnownKept
  <2>3. ASSUME job.to = PhaseDeprovisioned
        PROVE  ~(w.exists /\ ~w.deleting /\ w.realm # NoRealm)
    <3>. USE <1>3, <2>3 DEF Present, D!Object
    <3>1. CASE Begins(d, w)
      BY <3>1 DEF Begins, D!Created, D!Absent
    <3>2. CASE Ends(d, w)
      BY <3>2 DEF Ends, D!Absent
    <3>3. CASE Edits(d, w)
      BY <3>3 DEF Edits
    <3>4. CASE Deletes(d, w)
      BY <3>4 DEF Deletes
    <3>5. CASE MovesOn(d, w)
      BY <3>5 DEF MovesOn
    <3>6. CASE GetsRealm(d, w)
      BY <3>6 DEF GetsRealm, PhaseDeprovisioned, PhaseRealmProvisioned
    <3>. QED  BY <3>1, <3>2, <3>3, <3>4, <3>5, <3>6 DEF Stores
  <2>. QED  BY <1>3, <2>2, <2>3 DEF Present
<1>4. dev'[d] = dev[d] \/ \E w \in D!Object : Stores(d, w) /\ dev'[d] = w
  BY DEF ObjectStep, D!Store, D!TypeOK
<1>. QED  BY <1>1, <1>2, <1>3, <1>4

\* A run that goes on with its copy keeps to what it may do.
LEMMA RunGoesOn ==
    ASSUME RealmIInv, ObjectStep, InformerStep, job # Idle,
           job'.name = job.name, job'.copy = job.copy, job'.to = job.to,
           job.to = PhaseRealmProvisioned => Provisioning',
           job.to = PhaseDeprovisioned =>
              \/ job'.pc = "deleteRealm"
              \/ /\ job'.pc \in {"list", "users", "delete", "save"}
                 /\ job.copy.realm \in RealmIds \ realms',
           job.to \notin {PhaseRealmProvisioned, PhaseDeprovisioned} =>
              job'.pc \in {"create", "save"}
    PROVE  RunKeepsRealm'
<1>. DEFINE d == job.name
            v == job.copy
<1>1. job.copy.deleting <=> job.to = PhaseDeprovisioned
  BY DEF RealmIInv, RunKeepsRealm
<1>2. ASSUME NEW e, NEW w, e = d, w = v
      PROVE  /\ Faithful(e, w)'
             /\ (dev[e].exists /\ w.uid = dev[e].uid)' => Known(e)'
             /\ job.to = PhaseDeprovisioned =>
                   ~(Present(e) /\ dev[e].realm # NoRealm)'
  BY <1>2, RunFactsKept
<1>3. /\ Faithful(job.name, job.copy)'
      /\ (dev[job.name].exists /\ job.copy.uid = dev[job.name].uid)'
            => Known(job.name)'
      /\ job.to = PhaseDeprovisioned =>
            ~(Present(job.name) /\ dev[job.name].realm # NoRealm)'
  <2>1. PICK e, w : e = d /\ w = v
    OBVIOUS
  <2>. QED  BY <1>2, <2>1 DEF Faithful, Known, Present
<1>4. job.to = PhaseDeprovisioned => Deprovisioning'
  BY <1>3 DEF Deprovisioning
<1>. QED  BY <1>1, <1>3, <1>4 DEF RunKeepsRealm

\* Steps of others leave the run what it is.
LEMMA RunUntouched ==
    ASSUME RealmIInv, ObjectStep, InformerStep,
           UNCHANGED <<realms, clients>>, job' = job \/ job' = Idle
    PROVE  RunKeepsRealm'
<1>1. CASE job' = Idle
  BY <1>1 DEF RunKeepsRealm
<1>2. CASE job' = job /\ job # Idle
  <2>1. /\ job.to = PhaseRealmProvisioned => Provisioning
        /\ job.to = PhaseDeprovisioned => Deprovisioning
        /\ job.to \notin {PhaseRealmProvisioned, PhaseDeprovisioned} =>
              job.pc \in {"create", "save"}
    BY <1>2 DEF RealmIInv, RunKeepsRealm, PhaseDeprovisioned, PhaseRealmProvisioned
  <2>. QED  BY <1>2, <2>1, RunGoesOn DEF Provisioning, Deprovisioning
<1>. QED  BY <1>1, <1>2

\* A handler starts a run that may do what its object allows: what the cache
\* has of a deleted object tells of the stored one, or that has no realm yet.
LEMMA HandlerKeepsRealm ==
    ASSUME RealmIInv, NEW d \in Devs, DevHandler(d)
    PROVE  /\ UNCHANGED <<dev, devCache, devWatch, realms, clients>>
           /\ RunKeepsRealm'
<1>. RealmKept(d) /\ CopiesFaithful /\ RunKeepsRealm
  BY DEF RealmIInv
<1>0. ASSUME UNCHANGED <<dev, devCache, devWatch, realms, clients>>,
             UNCHANGED job
      PROVE  RunKeepsRealm'
  BY <1>0 DEF RunKeepsRealm, Provisioning, Deprovisioning, Faithful, Known, Present
<1>1. ASSUME NEW pc, NEW to, NEW todo, Start(d, pc, to, todo),
             devCache[d].exists,
             \/ /\ to = PhaseDeprovisioned /\ devCache[d].deleting
                /\ pc = "deleteRealm"
             \/ /\ to = PhaseRealmProvisioned /\ ~devCache[d].deleting
                /\ pc = "mark" /\ todo = ClientOrder
             \/ /\ to \notin {PhaseRealmProvisioned, PhaseDeprovisioned}
                /\ ~devCache[d].deleting /\ pc \in {"create", "save"}
      PROVE  /\ UNCHANGED <<dev, devCache, devWatch, realms, clients>>
             /\ RunKeepsRealm'
  <2>1. /\ job' = [pc |-> pc, name |-> d, copy |-> devCache[d], to |-> to,
                   realm |-> NoRealm, todo |-> todo, users |-> {}]
        /\ UNCHANGED <<dev, devCache, devWatch, realms, clients>>
    BY <1>1 DEF Start, Take, ssoVars
  <2>2. Faithful(job.name, job.copy)'
    BY <2>1 DEF CopiesFaithful, Faithful
  <2>3. (dev[job.name].exists /\ job.copy.uid = dev[job.name].uid)'
           => Known(job.name)'
    BY <1>1, <2>1 DEF Known
  <2>4. to = PhaseRealmProvisioned => Provisioning'
    BY <1>1, <2>1 DEF Provisioning, PhaseRealmProvisioned, PhaseDeprovisioned
  <2>5. to = PhaseDeprovisioned => Deprovisioning'
    <3>. SUFFICES ASSUME to = PhaseDeprovisioned
                  PROVE  Deprovisioning'
      OBVIOUS
    <3>1. devCache[d].deleting /\ pc = "deleteRealm"
      BY <1>1 DEF PhaseRealmProvisioned, PhaseDeprovisioned
    <3>2. ~(Present(d) /\ dev[d].realm # NoRealm)
      BY <1>1, <3>1 DEF Present, RealmKept, Known, CopiesFaithful, Faithful
    <3>. QED  BY <2>1, <3>1, <3>2 DEF Deprovisioning, Present
  <2>6. (job.copy.deleting <=> job.to = PhaseDeprovisioned)'
    BY <1>1, <2>1 DEF PhaseRealmProvisioned, PhaseDeprovisioned
  <2>7. to \notin {PhaseRealmProvisioned, PhaseDeprovisioned} =>
           job'.pc \in {"create", "save"}
    BY <1>1, <2>1
  <2>. QED  BY <2>1, <2>2, <2>3, <2>4, <2>5, <2>6, <2>7 DEF RunKeepsRealm
<1>. USE DEF InPhase
<1>2. CASE InitializeDev(d)
  BY <1>1, <1>2 DEF InitializeDev, PhaseAccepted, PhaseRealmProvisioned,
     PhaseDeprovisioned
<1>3. CASE ProvisionRealm(d)
  BY <1>1, <1>3 DEF ProvisionRealm
<1>4. CASE Prepare(d)
  BY <1>1, <1>4 DEF Prepare, PhasePrepared, PhaseRealmProvisioned,
     PhaseDeprovisioned
<1>5. CASE InstallDatabase(d)
  BY <1>1, <1>5 DEF InstallDatabase, PhaseDatabaseInstalled,
     PhaseRealmProvisioned, PhaseDeprovisioned
<1>6. CASE InstallBusinessCentral(d)
  BY <1>1, <1>6 DEF InstallBusinessCentral, PhaseBusinessCentralInstalled,
     PhaseRealmProvisioned, PhaseDeprovisioned
<1>7. CASE WaitForDatabase(d)
  <2>1. CASE Start(d, "save", PhaseDatabaseReady, <<>>)
    BY <1>1, <1>7, <2>1 DEF WaitForDatabase, PhaseDatabaseReady,
       PhaseRealmProvisioned, PhaseDeprovisioned
  <2>2. CASE UNCHANGED devCtlVars
    BY <1>0, <2>2 DEF devCtlVars, devVars, ssoVars
  <2>. QED  BY <1>7, <2>1, <2>2 DEF WaitForDatabase
<1>8. CASE InstallKieServer(d)
  BY <1>1, <1>8 DEF InstallKieServer, PhaseComplete, PhaseRealmProvisioned,
     PhaseDeprovisioned
<1>9. CASE DeprovisionDev(d)
  BY <1>1, <1>9 DEF DeprovisionDev
<1>10. CASE DropDev(d)
  BY <1>0, <1>10 DEF DropDev, Take, ssoVars
<1>. QED  BY <1>2, <1>3, <1>4, <1>5, <1>6, <1>7, <1>8, <1>9, <1>10 DEF DevHandler

-----------------------------------------------------------------------------
(* The calls of a run.                                                     *)

\* The kind of call tells what the run is for.
LEMMA CallPurpose ==
    ASSUME RealmIInv, job # Idle
    PROVE  /\ job \in JobRecords /\ job \in Job /\ job.name \in Devs
           /\ job.pc \in {"mark", "realm", "clients", "secrets"} =>
                 job.to = PhaseRealmProvisioned /\ Provisioning
           /\ job.pc = "create" =>
                 job.to \notin {PhaseRealmProvisioned, PhaseDeprovisioned}
           /\ job.pc \in {"deleteRealm", "list", "users", "delete"} =>
                 job.to = PhaseDeprovisioned /\ Deprovisioning
BY DEF RealmIInv, DevIInv, DevTypeOK, Job, JobRecords, RunKeepsRealm,
   Provisioning, Deprovisioning, PhaseRealmProvisioned, PhaseDeprovisioned

\* The calls that do not write the RhpamDev: what they do to Keycloak, and
\* that the run goes on within what it may do.
LEMMA OtherCallKeepsRealm ==
    ASSUME RealmIInv, DevCall, ~Mark, ~Save
    PROVE  UNCHANGED <<dev, devCache, devWatch>> /\ RealmStep /\ RunKeepsRealm'
<1>1. job # Idle
  <2>1. job.pc # "idle"
    BY DEF DevCall, CreateRealm, CreateClient, CreateRealmSecret,
       CreateResource, DeleteRealm, ListUsers, DetachUser, DeleteResource
  <2>. QED  BY <2>1 DEF Idle
<1>2. UNCHANGED <<dev, devCache, devWatch>>
  BY DEF DevCall, CreateRealm, CreateClient, CreateRealmSecret,
     CreateResource, DeleteRealm, ListUsers, DetachUser, DeleteResource, devVars
<1>3. ObjectStep /\ InformerStep
  BY <1>2 DEF ObjectStep, InformerStep
<1>4. job \in JobRecords
  BY <1>1, CallPurpose
<1>. USE <1>4 DEF JobRecords
<1>5. ASSUME job' = Idle
      PROVE  RunKeepsRealm'
  BY <1>5 DEF RunKeepsRealm
<1>6. CASE CreateRealm
  <2>1. job.to = PhaseRealmProvisioned /\ job.todo = ClientOrder
    BY <1>1, <1>6, CallPurpose DEF CreateRealm, Provisioning
  <2>2. PICK o \in Outcomes, t \in generateToken :
          /\ IF o = "failed" THEN UNCHANGED <<realms, clients>>
             ELSE SsoCreateRealm(RealmId(job.name, t))
          /\ \/ /\ ReturnsNil(o, RealmId(job.name, t) \notin realms)
                /\ job' = [job EXCEPT !.pc = "clients",
                                      !.realm = RealmId(job.name, t)]
             \/ job' = Idle
    BY <1>6 DEF CreateRealm, Requeue
  <2>3. RealmStep
    BY <2>2 DEF SsoCreateRealm, RealmStep
  <2>4. CASE /\ ReturnsNil(o, RealmId(job.name, t) \notin realms)
             /\ job' = [job EXCEPT !.pc = "clients",
                                   !.realm = RealmId(job.name, t)]
    <3>1. /\ job'.realm \in realms' /\ job'.realm[1] = job'.name
          /\ job'.pc = "clients" /\ job'.todo = ClientOrder
      BY <2>1, <2>2, <2>4 DEF ReturnsNil, SsoCreateRealm, RealmId
    <3>2. \A c \in ClientIds : \E i \in DOMAIN ClientOrder : ClientOrder[i] = c
      <4>1. /\ DOMAIN ClientOrder = {1, 2, 3}
            /\ ClientOrder[1] = BusinessCentralClient
            /\ ClientOrder[2] = KieServerClient
            /\ ClientOrder[3] = KieServerDirectClient
        BY DEF ClientOrder
      <4>. QED  BY <4>1 DEF ClientIds
    <3>3. Provisioning'
      BY <3>1, <3>2 DEF Provisioning
    <3>. QED  BY <1>1, <1>2, <1>3, <2>1, <2>3, <2>4, <3>3, RunGoesOn
              DEF PhaseDeprovisioned, PhaseRealmProvisioned
  <2>5. RunKeepsRealm'
    BY <1>5, <2>2, <2>4
  <2>. QED  BY <1>2, <2>3, <2>5
<1>7. CASE CreateClient
  <2>1. /\ job.to = PhaseRealmProvisioned /\ job.pc = "clients"
        /\ job.realm \in realms /\ job.realm[1] = job.name
        /\ \A c \in ClientIds :
              \/ <<job.realm, c>> \in clients
              \/ \E i \in DOMAIN job.todo : job.todo[i] = c
        /\ job.todo \in Seq(ClientIds) /\ job.todo # <<>>
    BY <1>1, <1>7, CallPurpose DEF CreateClient, Provisioning, Job, About
  <2>. DEFINE h == Head(job.todo)
              next == [job EXCEPT !.pc = "secrets", !.todo = SecretOrder]
  <2>2. PICK o \in Outcomes :
          /\ IF o = "failed" THEN UNCHANGED ssoVars
             ELSE SsoCreateClient(job.realm, h)
          /\ IF ReturnsNil(o, /\ job.realm \in realms
                              /\ <<job.realm, h>> \notin clients)
             THEN Proceed(next) ELSE job' = Idle
    BY <1>7 DEF CreateClient, Requeue
  <2>3. RealmStep
    BY <2>2 DEF SsoCreateClient, RealmStep, ssoVars
  <2>4. ASSUME ReturnsNil(o, /\ job.realm \in realms
                            /\ <<job.realm, h>> \notin clients),
               Proceed(next)
        PROVE  RunKeepsRealm'
    <3>1. /\ realms' = realms /\ clients' = clients \cup {<<job.realm, h>>}
      BY <2>1, <2>2, <2>4 DEF ReturnsNil, SsoCreateClient
    <3>2. ASSUME NEW c \in ClientIds, c # h, <<job.realm, c>> \notin clients
          PROVE  /\ Len(job.todo) > 1
                 /\ \E i \in DOMAIN Tail(job.todo) : Tail(job.todo)[i] = c
      <4>1. PICK i \in DOMAIN job.todo : job.todo[i] = c
        BY <2>1, <3>2
      <4>2. i \in 1..Len(job.todo) /\ i # 1 /\ Len(job.todo) \in Nat
        BY <2>1, <3>2, <4>1
      <4>3. i - 1 \in DOMAIN Tail(job.todo) /\ Tail(job.todo)[i - 1] = job.todo[i]
        BY <2>1, <4>2
      <4>. QED  BY <4>1, <4>2, <4>3
    <3>3. CASE Len(job.todo) > 1
      <4>1. job' = [job EXCEPT !.todo = Tail(@)]
        BY <2>4, <3>3 DEF Proceed
      <4>2. Provisioning'
        BY <2>1, <3>1, <3>2, <4>1 DEF Provisioning
      <4>. QED  BY <1>1, <1>3, <2>1, <4>1, <4>2, RunGoesOn
                DEF PhaseDeprovisioned, PhaseRealmProvisioned
    <3>4. CASE ~(Len(job.todo) > 1)
      <4>1. job' = next
        BY <2>4, <3>4 DEF Proceed
      <4>2. Provisioning'
        BY <2>1, <3>1, <3>2, <3>4, <4>1 DEF Provisioning
      <4>. QED  BY <1>1, <1>3, <2>1, <4>1, <4>2, RunGoesOn
                DEF PhaseDeprovisioned, PhaseRealmProvisioned
    <3>. QED  BY <3>3, <3>4
  <2>5. RunKeepsRealm'
    BY <1>5, <2>2, <2>4
  <2>. QED  BY <1>2, <2>3, <2>5
<1>. DEFINE done == [job EXCEPT !.pc = "save", !.todo = <<>>]
<1>8. ASSUME Proceed(done) \/ Requeue, UNCHANGED <<realms, clients>>,
             job.pc \in {"secrets", "create", "delete"}
      PROVE  RealmStep /\ RunKeepsRealm'
  <2>1. RealmStep
    BY <1>8 DEF RealmStep
  <2>2. CASE job' = Idle
    BY <1>5, <2>1, <2>2
  <2>3. CASE job' \in {done, [job EXCEPT !.todo = Tail(@)]}
    <3>1. /\ job'.name = job.name /\ job'.copy = job.copy /\ job'.to = job.to
          /\ job'.realm = job.realm /\ job'.pc \in {job.pc, "save"}
      BY <2>3
    <3>2. job.pc = "secrets" => Provisioning'
      BY <1>1, <1>8, <3>1, CallPurpose DEF Provisioning
    <3>. HIDE DEF done
    <3>. QED  BY <1>1, <1>3, <1>8, <2>1, <3>1, <3>2, CallPurpose, RunGoesOn
              DEF Deprovisioning, PhaseDeprovisioned, PhaseRealmProvisioned
  <2>. QED  BY <1>8, <2>2, <2>3 DEF Proceed, Requeue
<1>9. CASE CreateRealmSecret
  BY <1>2, <1>8, <1>9 DEF CreateRealmSecret, Create, ssoVars
<1>10. CASE CreateResource
  BY <1>2, <1>8, <1>10 DEF CreateResource, Create, ssoVars
<1>11. CASE DeleteResource
  BY <1>2, <1>8, <1>11 DEF DeleteResource, ssoVars
<1>12. CASE DeleteRealm
  <2>1. job.to = PhaseDeprovisioned
    BY <1>1, <1>12, CallPurpose DEF DeleteRealm
  <2>2. PICK o \in Outcomes :
          /\ IF o = "failed" THEN UNCHANGED ssoVars
             ELSE SsoDeleteRealm(job.copy.realm)
          /\ \/ /\ ReturnsNil(o, job.copy.realm \in realms)
                /\ job' = [job EXCEPT !.pc = "list"]
             \/ job' = Idle
    BY <1>12 DEF DeleteRealm, Requeue
  <2>3. RealmStep
    BY <1>1, <2>1, <2>2 DEF SsoDeleteRealm, RealmStep, ssoVars
  <2>4. CASE /\ ReturnsNil(o, job.copy.realm \in realms)
             /\ job' = [job EXCEPT !.pc = "list"]
    <3>1. job.copy.realm \in RealmIds \ realms'
      BY <2>2, <2>4 DEF ReturnsNil, SsoDeleteRealm, RealmIInv, DevIInv,
         DevTypeOK, KeycloakTypeOK
    <3>. QED  BY <1>1, <1>2, <1>3, <2>1, <2>3, <2>4, <3>1, RunGoesOn
              DEF PhaseDeprovisioned, PhaseRealmProvisioned
  <2>5. RunKeepsRealm'
    BY <1>5, <2>2, <2>4
  <2>. QED  BY <1>2, <2>3, <2>5
<1>13. ASSUME job.pc \in {"list", "users"}, UNCHANGED <<realms, clients>>,
              job'.name = job.name, job'.copy = job.copy, job'.to = job.to,
              job'.pc \in {"users", "delete"}
       PROVE  RealmStep /\ RunKeepsRealm'
  <2>1. job.to = PhaseDeprovisioned /\ job.copy.realm \in RealmIds \ realms'
    BY <1>1, <1>13, CallPurpose DEF Deprovisioning
  <2>2. RunKeepsRealm'
    BY <1>1, <1>3, <1>13, <2>1, RunGoesOn
       DEF PhaseDeprovisioned, PhaseRealmProvisioned
  <2>. QED  BY <1>13, <2>2 DEF RealmStep
<1>14. CASE ListUsers
  BY <1>2, <1>13, <1>14 DEF ListUsers, ssoVars
<1>15. CASE DetachUser
  BY <1>2, <1>13, <1>15 DEF DetachUser, ssoVars
<1>. QED  BY <1>6, <1>7, <1>9, <1>10, <1>11, <1>12, <1>14, <1>15 DEF DevCall

-----------------------------------------------------------------------------
(* The updates of a run.                                                   *)

\* ProvisionRealm announces itself: the next phase, from the stored object.
LEMMA MarkKeepsRealm ==
    ASSUME RealmIInv, Mark
    PROVE  ObjectStep /\ InformerStep /\ RealmStep /\ RunKeepsRealm'
<1>. DEFINE marked == [job.copy EXCEPT !.phase = PhaseRealmProvisioning]
            d == job.name
<1>0. job # Idle
  BY DEF Mark, Idle
<1>1. /\ job \in JobRecords /\ D!TypeOK /\ d \in Devs /\ dev[d] \in D!Object
      /\ job.copy \in D!Object /\ DevIInv /\ job.to = PhaseRealmProvisioned
      /\ job.pc = "mark" /\ Provisioning /\ job.todo = ClientOrder
      /\ job.copy.phase = PhaseAccepted /\ job.copy.exists /\ ~job.copy.deleting
      /\ RealmKept(d)
  BY <1>0, CallPurpose DEF Mark, RealmIInv, DevIInv, DevTypeOK, ClusterTypeOK,
     D!TypeOK, JobRecords, RunSound, Provisioning
<1>2. PICK o \in Outcomes :
        /\ Put(marked, o)
        /\ job' = [job EXCEPT !.pc = "realm",
                     !.copy = IF ReturnsNil(o, D!Accepts(job.name, job.copy))
                              THEN D!Result(job.name, marked) ELSE @]
  BY DEF Mark
<1>3. UNCHANGED <<devCache, realms, clients>>
  BY DEF Mark, ssoVars
<1>4. InformerStep /\ RealmStep
  BY <1>3 DEF InformerStep, RealmStep
<1>5. CASE o # "failed" /\ D!Accepts(job.name, job.copy)
  <2>. DEFINE v == [dev[d] EXCEPT !.rv = @ + 1, !.fin = TRUE,
                                  !.phase = PhaseRealmProvisioning]
  <2>1. dev[d] = job.copy
    BY <1>0, <1>1, <1>5, AcceptedCopy
  <2>2. dev[d].fin
    BY <1>1, <2>1 DEF RealmKept, NoPhase, PhaseAccepted, D!Object
  <2>3. D!Result(d, marked) = v /\ v # dev[d] /\ v \in D!Object
    <3>1. marked # dev[d] /\ ~marked.deleting
      BY <1>1, <2>1 DEF D!Object, PhaseAccepted, PhaseRealmProvisioning
    <3>2. D!Result(d, marked) = [marked EXCEPT !.rv = dev[d].rv + 1]
      BY <3>1 DEF D!Result
    <3>3. [marked EXCEPT !.rv = dev[d].rv + 1] = v
      BY <1>1, <2>1, <2>2 DEF D!Object
    <3>4. v.phase # dev[d].phase
      BY <1>1, <2>1 DEF D!Object, PhaseAccepted, PhaseRealmProvisioning
    <3>5. v \in D!Object
      BY <1>1, ObjectVersion DEF StatusPhase, Realms
    <3>. QED  BY <3>2, <3>3, <3>4, <3>5
  <2>4. D!Store(d, v)
    BY <1>2, <1>5, <2>3 DEF Put, D!Update
  <2>5. Stores(d, v)
    <3>1. /\ PhaseRealmProvisioning \in StatusPhase \ {PhaseRealmProvisioned}
          /\ <<dev[d].phase, PhaseRealmProvisioning>> \in Advance
      BY <1>1, <2>1, MovesAdvance
         DEF StatusPhase, PhaseRealmProvisioning, PhaseRealmProvisioned
    <3>. QED  BY <1>1, <2>1, <3>1 DEF Stores, MovesOn
  <2>6. ObjectStep
    BY <1>1, <1>3, <2>3, <2>4, <2>5 DEF ObjectStep
  <2>7. CASE job' = [job EXCEPT !.pc = "realm", !.copy = v]
    <3>1. /\ job'.name = d /\ job'.copy = v /\ job'.pc = "realm"
          /\ job'.to = PhaseRealmProvisioned /\ job'.todo = ClientOrder
          /\ dev'[d] = v
      BY <1>1, <2>4, <2>7 DEF JobRecords, D!Store, D!TypeOK
    <3>2. Provisioning'
      BY <3>1 DEF Provisioning
    <3>3. Faithful(job.name, job.copy)'
      <4>1. ASSUME NEW e \in Devs
            PROVE  Faithful(e, dev[e])'
        BY <1>1, <2>6, <4>1, StoredFaithful DEF RealmIInv, CopiesFaithful
      <4>. HIDE DEF v
      <4>. QED  BY <1>1, <3>1, <4>1 DEF Faithful
    <3>4. Known(d)'
      <4>1. Known(d)
        BY <1>0, <1>1, <2>1 DEF RealmIInv, RunKeepsRealm
      <4>2. dev'[d].uid = dev[d].uid /\ dev[d].exists
        BY <1>1, <2>1, <3>1 DEF D!Object
      <4>. QED  BY <1>1, <1>3, <3>1, <4>1, <4>2 DEF Known
    <3>5. ~v.deleting
      BY <1>1, <2>1 DEF D!Object
    <3>. HIDE DEF v
    <3>. QED  BY <1>4, <2>6, <3>1, <3>2, <3>3, <3>4, <3>5
              DEF RunKeepsRealm, Known, PhaseRealmProvisioned, PhaseDeprovisioned
  <2>8. CASE job' = [job EXCEPT !.pc = "realm"]
    <3>1. Provisioning'
      BY <1>1, <2>8 DEF Provisioning, JobRecords
    <3>. QED  BY <1>0, <1>1, <1>4, <2>6, <2>8, <3>1, RunGoesOn
              DEF JobRecords, PhaseRealmProvisioned, PhaseDeprovisioned
  <2>. HIDE DEF v
  <2>. QED  BY <1>1, <1>2, <2>3, <2>7, <2>8 DEF JobRecords
<1>6. CASE ~(o # "failed" /\ D!Accepts(job.name, job.copy))
  <2>1. ObjectStep
    BY <1>2, <1>6 DEF Put, ObjectStep
  <2>2. job' = [job EXCEPT !.pc = "realm"]
    BY <1>1, <1>2, <1>6 DEF JobRecords, ReturnsNil, Outcomes
  <2>3. Provisioning'
    BY <1>1, <2>2 DEF Provisioning, JobRecords
  <2>. QED  BY <1>0, <1>1, <1>4, <2>1, <2>2, <2>3, RunGoesOn
            DEF JobRecords, PhaseRealmProvisioned, PhaseDeprovisioned
<1>. QED  BY <1>5, <1>6

\* A run saves the next phase, the realm it made, or the end of an object
\* whose realm is gone.
LEMMA SaveKeepsRealm ==
    ASSUME RealmIInv, Save
    PROVE  ObjectStep /\ InformerStep /\ RealmStep /\ RunKeepsRealm'
<1>. DEFINE d == job.name
<1>0. job # Idle
  BY DEF Save, Idle
<1>1. /\ job \in JobRecords /\ D!TypeOK /\ d \in Devs /\ dev[d] \in D!Object
      /\ job.copy \in D!Object /\ DevIInv /\ RunSound /\ RealmKept(d)
      /\ job.copy.exists /\ job.pc = "save"
      /\ job.copy.deleting <=> job.to = PhaseDeprovisioned
  BY <1>0, CallPurpose DEF Save, RealmIInv, DevIInv, DevTypeOK, ClusterTypeOK,
     D!TypeOK, JobRecords, RunSound, RunKeepsRealm
<1>2. PICK o \in Outcomes : Put(Saved, o)
  BY DEF Save
<1>3. /\ UNCHANGED <<devCache, realms, clients>> /\ job' = Idle
  BY DEF Save, Requeue, ssoVars
<1>4. InformerStep /\ RealmStep /\ RunKeepsRealm'
  BY <1>3 DEF InformerStep, RealmStep, RunKeepsRealm
<1>5. ASSUME D!Accepts(d, job.copy), D!Update(d, Saved)
      PROVE  ObjectStep
  <2>1. dev[d] = job.copy
    BY <1>0, <1>1, <1>5, AcceptedCopy
  <2>2. ASSUME NEW v \in D!Object, D!Result(d, Saved) = v, v.rv = dev[d].rv + 1,
               Stores(d, v)
        PROVE  ObjectStep
    <3>1. v # dev[d]
      BY <1>1, <2>2 DEF D!Object
    <3>. QED  BY <1>1, <1>3, <1>5, <2>2, <3>1 DEF ObjectStep, D!Update
  <2>3. CASE job.to = PhaseDeprovisioned
    <3>1. Saved.deleting /\ ~Saved.fin /\ Saved.phase = PhaseDeprovisioned
      BY <1>1, <2>3 DEF Saved, D!Object, PhaseDeprovisioned, PhaseAccepted
    <3>2. dev[d].deleting /\ dev[d].fin /\ dev[d].realm \in RealmIds \ realms
      BY <1>0, <1>1, <2>1, <2>3 DEF RealmKept, RealmIInv, RunKeepsRealm,
         Deprovisioning, PhaseDeprovisioned, PhaseRealmProvisioned
    <3>3. D!Result(d, Saved) = D!Absent(dev[d].rv + 1)
      BY <3>1, <3>2 DEF D!Result
    <3>4. D!Absent(dev[d].rv + 1) \in D!Object
      BY <1>1 DEF D!Absent, D!Object, StatusPhase, Realms
    <3>5. Ends(d, D!Absent(dev[d].rv + 1))
      BY <1>1, <2>1, <3>2 DEF Ends
    <3>. QED  BY <2>2, <3>3, <3>4, <3>5 DEF Stores, D!Absent
  <2>4. CASE job.to = PhaseRealmProvisioned
    <3>. DEFINE v == [dev[d] EXCEPT !.rv = @ + 1, !.phase = PhaseRealmProvisioned,
                                    !.realm = job.realm]
    <3>1. ~job.copy.deleting /\ job.copy.phase \in {PhaseAccepted, PhaseRealmProvisioning}
      BY <1>0, <1>1, <2>4 DEF RunSound, RunMoves, PhaseDeprovisioned,
         PhaseRealmProvisioned, PhaseAccepted, PhasePrepared, PhaseDatabaseInstalled,
         PhaseBusinessCentralInstalled, PhaseDatabaseReady, PhaseComplete
    <3>2. dev[d].fin
      BY <1>1, <2>1, <3>1 DEF RealmKept, NoPhase, PhaseAccepted,
         PhaseRealmProvisioning
    <3>3. Saved = [job.copy EXCEPT !.phase = PhaseRealmProvisioned,
                                   !.realm = job.realm]
      BY <1>1, <2>4 DEF Saved, D!Object, PhaseAccepted, PhaseRealmProvisioned,
         PhaseDeprovisioned
    <3>4. D!Result(d, Saved) = v /\ v \in D!Object /\ v.rv = dev[d].rv + 1
      <4>1. Saved # dev[d] /\ ~Saved.deleting
        BY <1>1, <2>1, <3>1, <3>3 DEF D!Object, PhaseAccepted,
           PhaseRealmProvisioning, PhaseRealmProvisioned
      <4>2. D!Result(d, Saved) = [Saved EXCEPT !.rv = dev[d].rv + 1]
        BY <4>1 DEF D!Result
      <4>3. [Saved EXCEPT !.rv = dev[d].rv + 1] = v
        BY <1>1, <2>1, <3>3 DEF D!Object
      <4>4. v \in D!Object /\ v.rv = dev[d].rv + 1
        <5>1. PhaseRealmProvisioned \in StatusPhase /\ job.realm \in Realms
          BY <1>1 DEF StatusPhase, JobRecords
        <5>2. v \in D!Object
          BY <1>1, <5>1, ObjectVersion
        <5>3. v.rv = dev[d].rv + 1
          BY <1>1 DEF D!Object
        <5>. QED  BY <5>2, <5>3
      <4>. QED  BY <4>2, <4>3, <4>4
    <3>5. job.realm \in RealmIds /\ job.realm[1] = d /\ Served(job.realm)
      BY <1>0, <1>1, <2>4 DEF RealmIInv, RunKeepsRealm, Provisioning, Served,
         DevIInv, DevTypeOK, KeycloakTypeOK
    <3>6. Known(d)
      BY <1>0, <1>1, <2>1 DEF RealmIInv, RunKeepsRealm
    <3>7. GetsRealm(d, v)
      BY <1>0, <1>1, <2>1, <2>4, <3>1, <3>2, <3>5, <3>6 DEF GetsRealm
    <3>. HIDE DEF v
    <3>. QED  BY <2>2, <3>4, <3>7 DEF Stores
  <2>5. CASE job.to \notin {PhaseDeprovisioned, PhaseRealmProvisioned}
    <3>. DEFINE v == [dev[d] EXCEPT !.rv = @ + 1, !.fin = TRUE, !.phase = job.to]
    <3>1. ~job.copy.deleting /\ <<job.copy.phase, job.to>> \in Advance
      BY <1>0, <1>1, <2>5, MovesAdvance DEF RunSound
    <3>2. job.to # job.copy.phase
      BY <1>0, <1>1, <2>5 DEF RunSound, RunMoves, NoPhase, PhaseAccepted,
         PhasePrepare, PhasePrepared, PhaseDatabaseInstalled,
         PhaseBusinessCentralInstalled, PhaseDatabaseReady, PhaseComplete
    <3>3. Saved = [job.copy EXCEPT !.phase = job.to, !.fin = TRUE]
      <4>1. job.to # PhaseAccepted => job.copy.phase # NoPhase
        BY <1>0, <1>1, <2>5 DEF RunSound, RunMoves, NoPhase, PhaseAccepted,
           PhasePrepare, PhasePrepared, PhaseDatabaseInstalled,
           PhaseBusinessCentralInstalled, PhaseDatabaseReady, PhaseComplete
      <4>2. job.to # PhaseAccepted => job.copy.fin = TRUE
        BY <1>1, <2>1, <4>1 DEF RealmKept, D!Object
      <4>. QED  BY <1>1, <2>5, <4>2 DEF Saved, D!Object
    <3>4. D!Result(d, Saved) = v /\ v \in D!Object /\ v.rv = dev[d].rv + 1
      <4>1. Saved # dev[d] /\ ~Saved.deleting
        BY <1>1, <2>1, <3>1, <3>2, <3>3 DEF D!Object
      <4>2. D!Result(d, Saved) = [Saved EXCEPT !.rv = dev[d].rv + 1]
        BY <4>1 DEF D!Result
      <4>3. [Saved EXCEPT !.rv = dev[d].rv + 1] = v
        BY <1>1, <2>1, <3>3 DEF D!Object
      <4>4. v \in D!Object /\ v.rv = dev[d].rv + 1
        <5>1. job.to \in StatusPhase /\ NoRealm \in Realms
          BY <1>1 DEF JobRecords, Realms
        <5>2. v \in D!Object
          BY <1>1, <5>1, ObjectVersion
        <5>3. v.rv = dev[d].rv + 1
          BY <1>1 DEF D!Object
        <5>. QED  BY <5>2, <5>3
      <4>. QED  BY <4>2, <4>3, <4>4
    <3>5. MovesOn(d, v)
      BY <1>1, <2>1, <2>5, <3>1 DEF MovesOn, JobRecords
    <3>. HIDE DEF v
    <3>. QED  BY <2>2, <3>4, <3>5 DEF Stores
  <2>. QED  BY <2>3, <2>4, <2>5
<1>6. CASE UNCHANGED <<dev, devWatch>>
  BY <1>4, <1>6 DEF ObjectStep
<1>. QED  BY <1>2, <1>4, <1>5, <1>6 DEF Put

\* A step of the controller.
LEMMA ControllerKeepsRealm ==
    ASSUME RealmIInv, DevController
    PROVE  ObjectStep /\ InformerStep /\ RealmStep /\ RunKeepsRealm'
<1>1. CASE Mark
  BY <1>1, MarkKeepsRealm
<1>2. CASE Save
  BY <1>2, SaveKeepsRealm
<1>3. CASE DevCall /\ ~Mark /\ ~Save
  BY <1>3, OtherCallKeepsRealm DEF ObjectStep, InformerStep
<1>4. ASSUME NEW d \in Devs, DevHandler(d)
      PROVE  ObjectStep /\ InformerStep /\ RealmStep /\ RunKeepsRealm'
  BY <1>4, HandlerKeepsRealm DEF ObjectStep, InformerStep, RealmStep
<1>. QED  BY <1>1, <1>2, <1>3, <1>4 DEF DevController

-----------------------------------------------------------------------------
(* The steps of AloneNext.                                                 *)

\* The update that moves a RhpamDev on is one of the kinds of versions.
LEMMA HandOffStores ==
    ASSUME RealmIInv, NEW d \in Devs, HandOff(d)
    PROVE  ObjectStep
<1>. DEFINE v == [dev[d] EXCEPT !.rv = @ + 1, !.fin = TRUE, !.phase = PhasePrepare]
            u == [dev[d] EXCEPT !.phase = PhasePrepare]
<1>1. /\ D!TypeOK /\ dev[d] \in D!Object /\ RealmKept(d)
      /\ dev[d].exists /\ dev[d].phase = PhaseRealmProvisioned
      /\ D!Update(d, u)
  BY DEF HandOff, RealmIInv, DevIInv, DevTypeOK, ClusterTypeOK, D!TypeOK
<1>2. dev[d].fin /\ dev[d].fin \in BOOLEAN
  BY <1>1 DEF RealmKept, NoPhase, PhaseRealmProvisioned, D!Object
<1>3. u # dev[d] /\ ~(u.deleting /\ ~u.fin)
  BY <1>1, <1>2 DEF D!Object, PhasePrepare, PhaseRealmProvisioned
<1>4. D!Result(d, u) = [u EXCEPT !.rv = dev[d].rv + 1]
  BY <1>3 DEF D!Result
<1>5. [u EXCEPT !.rv = dev[d].rv + 1] = v
  BY <1>1, <1>2 DEF D!Object
<1>6. v \in D!Object /\ v # dev[d]
  <2>1. PhasePrepare \in StatusPhase /\ NoRealm \in Realms
    BY DEF StatusPhase, Realms
  <2>2. v.phase # dev[d].phase
    BY <1>1 DEF D!Object, PhasePrepare, PhaseRealmProvisioned
  <2>. QED  BY <1>1, <2>1, <2>2, ObjectVersion
<1>7. MovesOn(d, v)
  <2>1. /\ PhasePrepare \in StatusPhase \ {PhaseRealmProvisioned}
        /\ <<dev[d].phase, PhasePrepare>> \in Advance
    BY <1>1, MovesAdvance DEF StatusPhase, PhasePrepare, PhaseRealmProvisioned
  <2>. QED  BY <1>1, <2>1 DEF MovesOn
<1>. HIDE DEF v, u
<1>8. D!Store(d, v)
  BY <1>1, <1>4, <1>5, <1>6 DEF D!Update
<1>. QED  BY <1>6, <1>7, <1>8 DEF ObjectStep, Stores, HandOff, ssoVars

\* So are the writes of users.
LEMMA UsersStore ==
    ASSUME RealmIInv, ClusterUsers
    PROVE  ObjectStep
<1>1. PICK d \in Devs : D!UserCreate(d) \/ D!UserEdit(d) \/ D!UserDelete(d)
  BY DEF ClusterUsers, CreateDev, EditDev, DeleteDev
<1>2. D!TypeOK /\ dev[d] \in D!Object /\ dev[d].rv + 1 \in Nat /\ RealmKept(d)
  BY DEF RealmIInv, DevIInv, DevTypeOK, ClusterTypeOK, D!TypeOK, D!Object
<1>3. UNCHANGED <<realms, clients>>
  BY DEF ClusterUsers, ssoVars
<1>4. ASSUME NEW v, D!Store(d, v), Stores(d, v)
      PROVE  ObjectStep
  <2>1. dev'[d] = v /\ dev'[d] \in D!Object
    <3>1. dev'[d] = v
      BY <1>2, <1>4 DEF D!Store, D!TypeOK
    <3>2. DevTypeOK'
      BY AloneStepType DEF AloneNext, RealmIInv, DevIInv
    <3>. QED  BY <3>1, <3>2 DEF DevTypeOK, ClusterTypeOK, D!TypeOK
  <2>. QED  BY <1>3, <1>4, <2>1 DEF ObjectStep
<1>5. CASE D!UserCreate(d)
  <2>1. D!Store(d, D!Created(dev[d].rv + 1, NoSpec)) /\ ~dev[d].exists
    BY <1>5 DEF D!UserCreate
  <2>. QED  BY <1>4, <2>1 DEF Stores, Begins
<1>6. CASE D!UserEdit(d)
  <2>. DEFINE v == [dev[d] EXCEPT !.rv = @ + 1]
  <2>1. dev[d].exists /\ D!Store(d, [dev[d] EXCEPT !.rv = @ + 1, !.spec = NoSpec])
    BY <1>6 DEF D!UserEdit
  <2>2. [dev[d] EXCEPT !.rv = @ + 1, !.spec = NoSpec] = v
    BY <1>2 DEF D!Object
  <2>3. Edits(d, v)
    BY <2>1 DEF Edits
  <2>. HIDE DEF v
  <2>. QED  BY <1>4, <2>1, <2>2, <2>3 DEF Stores
<1>7. CASE D!UserDelete(d)
  <2>1. CASE dev[d].fin
    <3>1. D!Store(d, [dev[d] EXCEPT !.rv = @ + 1, !.deleting = TRUE])
      BY <1>7, <2>1 DEF D!UserDelete
    <3>2. Deletes(d, [dev[d] EXCEPT !.rv = @ + 1, !.deleting = TRUE])
      BY <1>7, <2>1 DEF D!UserDelete, Deletes
    <3>. QED  BY <1>4, <3>1, <3>2 DEF Stores
  <2>2. CASE ~dev[d].fin
    <3>1. D!Store(d, D!Absent(dev[d].rv + 1))
      BY <1>7, <2>2 DEF D!UserDelete
    <3>2. Ends(d, D!Absent(dev[d].rv + 1))
      BY <1>2, <1>7, <2>2 DEF D!UserDelete, Ends, RealmKept
    <3>. QED  BY <1>4, <3>1, <3>2 DEF Stores
  <2>. QED  BY <2>1, <2>2
<1>. QED  BY <1>1, <1>5, <1>6, <1>7

\* Every step stores a version of one of the kinds, moves the cache forward,
\* keeps what serves and leaves the run within what it may do.
LEMMA AloneStepRealm ==
    ASSUME RealmIInv, [AloneNext]_devCtlVars
    PROVE  ObjectStep /\ InformerStep /\ RealmStep /\ RunKeepsRealm'
<1>. D!TypeOK
  BY DEF RealmIInv, DevIInv, DevTypeOK, ClusterTypeOK
<1>0. ASSUME ObjectStep, InformerStep, UNCHANGED <<realms, clients>>,
             job' = job \/ job' = Idle
      PROVE  ObjectStep /\ InformerStep /\ RealmStep /\ RunKeepsRealm'
  BY <1>0, RunUntouched DEF RealmStep
<1>1. CASE DevController
  BY <1>1, ControllerKeepsRealm
<1>2. ASSUME NEW d \in Devs, HandOff(d)
      PROVE  ObjectStep /\ InformerStep /\ RealmStep /\ RunKeepsRealm'
  BY <1>0, <1>2, HandOffStores DEF HandOff, InformerStep, ssoVars
<1>3. ASSUME NEW u \in Users, NEW d \in Devs, Attach(u, d)
      PROVE  ObjectStep /\ InformerStep /\ RealmStep /\ RunKeepsRealm'
  BY <1>0, <1>3 DEF Attach, ObjectStep, InformerStep, devVars, ssoVars
<1>4. CASE Informers
  <2>1. \/ \E d \in Devs : D!Deliver(d)
        \/ UNCHANGED <<dev, devCache, devWatch>>
    BY <1>4 DEF Informers, DeliverDev, ResyncDev, DeliverUser, SyncResources,
       devVars, D!Resync
  <2>2. CASE UNCHANGED <<dev, devCache, devWatch>>
    BY <1>0, <1>4, <2>2 DEF ObjectStep, InformerStep, Informers, ssoVars
  <2>3. ASSUME NEW d \in Devs, D!Deliver(d)
        PROVE  ObjectStep /\ InformerStep
    BY <2>3 DEF ObjectStep, InformerStep, D!Deliver, D!TypeOK
  <2>. QED  BY <1>0, <1>4, <2>1, <2>2, <2>3 DEF Informers, ssoVars
<1>5. CASE Platform
  <2>1. UNCHANGED <<dev, devCache, devWatch>>
    BY <1>5 DEF Platform, DatabaseUp, DatabaseDown, Collect, devVars
  <2>. QED  BY <1>0, <1>5, <2>1 DEF ObjectStep, InformerStep, Platform, ssoVars
<1>6. CASE ClusterUsers
  <2>1. UNCHANGED devCache
    BY <1>6 DEF ClusterUsers, CreateDev, EditDev, DeleteDev, D!UserCreate,
       D!UserEdit, D!UserDelete
  <2>. QED  BY <1>0, <1>6, <2>1, UsersStore DEF InformerStep, ClusterUsers, ssoVars
<1>7. CASE Crash
  BY <1>0, <1>7 DEF Crash, RestartCluster, D!Relist, ObjectStep, InformerStep, ssoVars
<1>8. CASE UNCHANGED devCtlVars
  BY <1>0, <1>8 DEF devCtlVars, devVars, ssoVars, ObjectStep, InformerStep
<1>. QED  BY <1>1, <1>2, <1>3, <1>4, <1>5, <1>6, <1>7, <1>8 DEF AloneNext

\* The invariant about realms is inductive.
LEMMA RealmInductive ==
    ASSUME RealmIInv, [AloneNext]_devCtlVars
    PROVE  RealmIInv'
<1>1. DevIInv'
  BY AloneInductive DEF RealmIInv
<1>2. ObjectStep /\ InformerStep /\ RealmStep /\ RunKeepsRealm'
  BY AloneStepRealm
<1>3. CopiesFaithful'
  BY <1>2, CopiesFaithfulKept DEF RealmIInv, DevIInv, DevTypeOK, ClusterTypeOK
<1>4. \A d \in Devs : RealmKept(d)'
  BY <1>2, RealmKeptKept
<1>5. (\A d \in Devs : RealmKept(d))'
  BY <1>4 DEF RealmKept, Present, Served, Known
<1>. QED  BY <1>1, <1>2, <1>3, <1>5 DEF RealmIInv

\* The first state.
LEMMA RealmInit ==
    ASSUME DevInit
    PROVE  RealmIInv
<1>1. DevIInv
  <2>1. \A d \in Devs : /\ dev[d] = D!Absent(0) /\ devCache[d] = D!Absent(0)
                        /\ devWatch[d] = {}
    BY DEF DevInit, ClusterInit, D!Init
  <2>2. D!CopiesSound
    BY <2>1 DEF D!CopiesSound, D!Sound, D!Absent
  <2>3. RunSound /\ \A d \in Devs : RealmUnset(dev[d])
    BY <2>1 DEF DevInit, RunSound, RealmUnset, D!Absent
  <2>. QED  BY <2>2, <2>3, InitType DEF DevIInv
<1>2. /\ job = Idle
      /\ \A d \in Devs : /\ dev[d] = D!Absent(0) /\ devCache[d] = D!Absent(0)
                         /\ devWatch[d] = {}
  BY DEF DevInit, ClusterInit, D!Init
<1>3. CopiesFaithful /\ RunKeepsRealm
  BY <1>2 DEF CopiesFaithful, Faithful, RunKeepsRealm, D!Absent
<1>4. \A d \in Devs : RealmKept(d)
  BY <1>2 DEF RealmKept, Present, D!Absent
<1>. QED  BY <1>1, <1>3, <1>4 DEF RealmIInv

\* Old copies never mislead a run about a realm: what a copy tells stays true
\* of the object it is a copy of, an object with a realm has been seen by the
\* informer, and no run of Deprovision is about the realm of a present object.
THEOREM RealmInvariant == AloneSpec => []RealmIInv
<1>1. DevInit => RealmIInv
  BY RealmInit
<1>2. RealmIInv /\ [AloneNext]_devCtlVars => RealmIInv'
  BY RealmInductive
<1>. QED  BY <1>1, <1>2, PTL DEF AloneSpec

\* From the phase in which it got one, a RhpamDev has its realm.
LEMMA LatePhases ==
    ASSUME NEW d \in Devs, AtLeast(d, PhaseRealmProvisioned)
    PROVE  dev[d].phase \notin {NoPhase, PhaseAccepted, PhaseRealmProvisioning}
<1>1. /\ PhaseRank[1] = NoPhase /\ PhaseRank[2] = PhaseAccepted
      /\ PhaseRank[3] = PhaseRealmProvisioning
      /\ PhaseRank[4] = PhaseRealmProvisioned /\ PhaseRank[5] = PhasePrepare
      /\ PhaseRank[6] = PhasePrepared /\ PhaseRank[7] = PhaseDatabaseInstalled
      /\ PhaseRank[8] = PhaseBusinessCentralInstalled
      /\ PhaseRank[9] = PhaseDatabaseReady /\ PhaseRank[10] = PhaseComplete
      /\ Len(PhaseRank) = 10
  BY DEF PhaseRank
<1>2. ASSUME NEW i \in 1..10, PhaseRank[i] = PhaseRealmProvisioned
      PROVE  i = 4
  <2>1. i \in {1, 2, 3, 4, 5, 6, 7, 8, 9, 10}
    OBVIOUS
  <2>. HIDE DEF PhaseRank
  <2>. QED
    BY <1>1, <1>2, <2>1 DEF NoPhase, PhaseAccepted, PhaseRealmProvisioning,
       PhaseRealmProvisioned, PhasePrepare, PhasePrepared, PhaseDatabaseInstalled,
       PhaseBusinessCentralInstalled, PhaseDatabaseReady, PhaseComplete
<1>3. Rank(PhaseRealmProvisioned) = 4
  BY <1>1, <1>2 DEF Rank
<1>4. PICK i \in 4..10 : dev[d].phase = PhaseRank[i]
  BY <1>1, <1>3 DEF AtLeast
<1>5. i \in {4, 5, 6, 7, 8, 9, 10}
  OBVIOUS
<1>. HIDE DEF PhaseRank
<1>. QED
  BY <1>1, <1>4, <1>5 DEF NoPhase, PhaseAccepted, PhaseRealmProvisioning,
     PhaseRealmProvisioned, PhasePrepare, PhasePrepared, PhaseDatabaseInstalled,
     PhaseBusinessCentralInstalled, PhaseDatabaseReady, PhaseComplete

\* A realm that is kept serves.
LEMMA KeptServes == RealmIInv => RealmServes
BY LatePhases DEF RealmIInv, RealmKept, RealmServes

\* What an installation logs in with is there as long as it is not deleted.
THEOREM DevRealmServes == AloneSpec => []RealmServes
<1>1. RealmIInv => RealmServes
  BY KeptServes
<1>. QED  BY <1>1, RealmInvariant, PTL

\* No version that may be stored takes an object with a finalizer away from
\* its realm.
LEMMA StoresHold ==
    ASSUME RealmIInv, ObjectStep, NEW d \in Devs,
           dev[d].exists, dev[d].fin, ~dev'[d].exists
    PROVE  dev[d].realm \notin realms /\ dev[d].realm # NoRealm
<1>1. PICK e \in Devs, v \in D!Object : Stores(e, v) /\ D!Store(e, v)
  BY DEF ObjectStep
<1>2. D!TypeOK /\ \A n \in Devs : dev[n] \in D!Object
  BY DEF RealmIInv, DevIInv, DevTypeOK, ClusterTypeOK, D!TypeOK
<1>3. dev' = [dev EXCEPT ![e] = v] /\ dev \in [Devs -> D!Object]
  BY <1>1, <1>2 DEF D!Store, D!TypeOK
<1>4. e = d /\ ~v.exists
  BY <1>3
<1>5. Ends(d, v)
  BY <1>1, <1>2, <1>4 DEF Stores, Begins, Edits, Deletes, MovesOn, GetsRealm,
     D!Created, D!Absent, D!Object
<1>6. dev[d].deleting
  BY <1>5 DEF Ends
<1>. QED  BY <1>5, <1>6, NoRealmAssumption DEF Ends

\* A RhpamDev with a finalizer goes only after its realm.
THEOREM DevFinalizerHolds == AloneSpec => FinalizerHolds
<1>1. RealmIInv /\ [AloneNext]_devCtlVars =>
        [\A d \in Devs :
            dev[d].exists /\ dev[d].fin /\ ~dev'[d].exists =>
                dev[d].realm \notin realms /\ dev[d].realm # NoRealm]_dev
  BY AloneStepRealm, StoresHold
<1>. QED  BY <1>1, RealmInvariant, PTL DEF AloneSpec, FinalizerHolds

-----------------------------------------------------------------------------
(* The refinement.                                                         *)

lives == [d \in Devs |-> Life(d)]
phases == [d \in Devs |-> dev[d].phase]
named == [d \in Devs |-> dev[d].realm]
serving == {r \in realms : Served(r)}

\* How a stored version shows in Lifecycle.
LEMMA StoredViews ==
    ASSUME D!TypeOK, NEW d \in Devs, NEW v \in D!Object, D!Store(d, v),
           UNCHANGED <<realms, clients>>
    PROVE  /\ lives' = [lives EXCEPT ![d] = IF ~v.exists THEN "absent"
                                            ELSE IF v.deleting THEN "deleting"
                                            ELSE "present"]
           /\ phases' = [phases EXCEPT ![d] = v.phase]
           /\ named' = [named EXCEPT ![d] = v.realm]
           /\ serving' = serving
<1>1. dev' = [dev EXCEPT ![d] = v] /\ dev \in [Devs -> D!Object]
  BY DEF D!Store, D!TypeOK
<1>2. dev'[d] = v /\ \A e \in Devs : e # d => dev'[e] = dev[e]
  BY <1>1
<1>. QED  BY <1>2 DEF lives, phases, named, serving, Served, Life

\* A stored version is a step of Lifecycle, or shows nothing new.
LEMMA StoreRefines ==
    ASSUME RealmIInv, NEW d \in Devs, NEW v \in D!Object, Stores(d, v),
           D!Store(d, v), UNCHANGED <<realms, clients>>
    PROVE  [L!Next]_(L!vars)
<1>0. /\ D!TypeOK /\ dev[d] \in D!Object /\ RealmKept(d)
      /\ lives[d] = Life(d) /\ phases[d] = dev[d].phase /\ named[d] = dev[d].realm
  BY DEF RealmIInv, DevIInv, DevTypeOK, ClusterTypeOK, D!TypeOK, lives, phases, named
<1>1. /\ lives' = [lives EXCEPT ![d] = IF ~v.exists THEN "absent"
                                       ELSE IF v.deleting THEN "deleting"
                                       ELSE "present"]
      /\ phases' = [phases EXCEPT ![d] = v.phase]
      /\ named' = [named EXCEPT ![d] = v.realm]
      /\ serving' = serving
  BY <1>0, StoredViews
<1>2. CASE Begins(d, v)
  <2>1. /\ v.exists /\ ~v.deleting /\ v.phase = NoPhase /\ v.realm = NoRealm
        /\ lives[d] = "absent"
    BY <1>0, <1>2 DEF Begins, D!Created, D!Absent, Life
  <2>2. L!Appear(d)
    BY <1>1, <2>1 DEF L!Appear, lives, phases, named, serving
  <2>. QED  BY <2>2 DEF L!Next
<1>3. CASE Ends(d, v)
  <2>1. ~v.exists /\ v.phase = NoPhase /\ v.realm = NoRealm
    BY <1>3 DEF Ends, D!Absent
  <2>2. \/ lives[d] = "present" /\ phases[d] = NoPhase
        \/ lives[d] = "deleting" /\ named[d] \notin serving \cup {NoRealm}
    BY <1>0, <1>3, NoRealmAssumption DEF Ends, Life, serving
  <2>3. L!Vanish(d)
    BY <1>1, <2>1, <2>2 DEF L!Vanish, lives, phases, named, serving
  <2>. QED  BY <2>3 DEF L!Next
<1>4. CASE Edits(d, v)
  <2>1. /\ v.exists = dev[d].exists /\ v.deleting = dev[d].deleting
        /\ v.phase = dev[d].phase /\ v.realm = dev[d].realm
    BY <1>0, <1>4 DEF Edits, D!Object
  <2>2. lives[d] = IF ~v.exists THEN "absent"
                   ELSE IF v.deleting THEN "deleting" ELSE "present"
    BY <1>0, <2>1 DEF Life
  <2>3. lives' = lives
    BY <1>1, <2>2 DEF lives
  <2>4. phases' = phases /\ named' = named
    BY <1>0, <1>1, <2>1 DEF phases, named
  <2>. QED  BY <1>1, <2>3, <2>4 DEF L!vars, lives, phases, named, serving
<1>5. CASE Deletes(d, v)
  <2>1. /\ v.exists /\ v.deleting /\ lives[d] = "present"
        /\ v.phase = phases[d] /\ v.realm = named[d]
    BY <1>0, <1>5 DEF Deletes, D!Object, Life
  <2>2. lives' = [lives EXCEPT ![d] = "deleting"] /\ UNCHANGED <<phases, named>>
    BY <1>1, <2>1 DEF phases, named
  <2>3. L!Delete(d)
    BY <1>1, <2>1, <2>2 DEF L!Delete, lives, phases, named, serving
  <2>. QED  BY <2>3 DEF L!Next
<1>6. CASE MovesOn(d, v)
  <2>1. PICK p \in StatusPhase \ {PhaseRealmProvisioned} :
            /\ <<dev[d].phase, p>> \in Advance
            /\ v = [dev[d] EXCEPT !.rv = @ + 1, !.fin = TRUE, !.phase = p]
    BY <1>6 DEF MovesOn
  <2>2. /\ v.exists /\ dev[d].exists /\ v.deleting = dev[d].deleting
        /\ v.phase = p /\ v.realm = named[d] /\ lives[d] # "absent"
    BY <1>0, <1>6, <2>1 DEF MovesOn, D!Object, Life
  <2>3. phases' = [phases EXCEPT ![d] = p] /\ UNCHANGED <<lives, named>>
    BY <1>0, <1>1, <2>2 DEF lives, named, Life
  <2>4. \E m \in Advance : /\ m[1] = phases[d] /\ m[2] # PhaseRealmProvisioned
                            /\ phases' = [phases EXCEPT ![d] = m[2]]
    <3>1. <<dev[d].phase, p>>[1] = phases[d] /\ <<dev[d].phase, p>>[2] = p
      BY <1>0
    <3>. QED  BY <2>1, <2>3, <3>1
  <2>5. L!Advance(d)
    BY <1>1, <2>2, <2>3, <2>4 DEF L!Advance, lives, phases, named, serving
  <2>. QED  BY <2>5 DEF L!Next
<1>7. CASE GetsRealm(d, v)
  <2>1. /\ v.exists /\ ~v.deleting /\ lives[d] = "present"
        /\ v.phase = PhaseRealmProvisioned /\ v.realm = job.realm
        /\ phases[d] \in {PhaseAccepted, PhaseRealmProvisioning}
        /\ job.realm \in serving /\ job.realm \in RealmIds /\ job.realm[1] = d
    BY <1>0, <1>7 DEF GetsRealm, D!Object, Life, serving, Served
  <2>2. <<phases[d], PhaseRealmProvisioned>> \in Advance
    BY <2>1, MovesAdvance
  <2>3. \A m \in Devs : named[m] # job.realm
    <3>1. SUFFICES ASSUME NEW m \in Devs, dev[m].realm = job.realm
                   PROVE  FALSE
      BY DEF named
    <3>2. job.realm # NoRealm
      BY <2>1, NoRealmAssumption
    <3>3. m = d
      BY <2>1, <3>1, <3>2 DEF RealmIInv, CopiesFaithful, Faithful
    <3>4. dev[d].realm = NoRealm
      BY <1>0, <2>1 DEF RealmIInv, DevIInv, RealmUnset
    <3>. QED  BY <3>1, <3>2, <3>3, <3>4
  <2>4. UNCHANGED lives
    BY <1>1, <2>1 DEF lives
  <2>5. /\ phases' = [phases EXCEPT ![d] = PhaseRealmProvisioned]
        /\ \E r \in serving : /\ \A m \in Devs : named[m] # r
                               /\ named' = [named EXCEPT ![d] = r]
    BY <1>1, <2>1, <2>3
  <2>6. L!Provision(d)
    BY <1>1, <2>1, <2>2, <2>4, <2>5 DEF L!Provision, lives, phases, named, serving
  <2>. QED  BY <2>6 DEF L!Next
<1>. QED  BY <1>2, <1>3, <1>4, <1>5, <1>6, <1>7 DEF Stores

\* So is what Keycloak answers: a realm comes to serve, or is taken from an
\* object that is being deleted.
LEMMA RealmsRefine ==
    ASSUME RealmIInv, RealmStep, UNCHANGED dev
    PROVE  [L!Next]_(L!vars)
<1>1. UNCHANGED <<lives, phases, named>>
  BY DEF lives, phases, named, Life
<1>2. CASE realms \subseteq realms' /\ clients \subseteq clients'
  <2>1. serving \subseteq serving'
    BY <1>2 DEF serving, Served
  <2>2. L!Serve
    BY <1>1, <2>1 DEF L!Serve, lives, phases, named, serving
  <2>. QED  BY <2>2 DEF L!Next
<1>3. CASE /\ job # Idle /\ job.to = PhaseDeprovisioned
           /\ realms' = realms \ {job.copy.realm}
           /\ clients' = {x \in clients : x[1] # job.copy.realm}
  <2>. DEFINE r == job.copy.realm
  <2>1. serving' = serving \ {r}
    <3>1. ASSUME NEW q, q # r
          PROVE  Served(q)' <=> Served(q)
      BY <1>3, <3>1 DEF Served
    <3>2. ASSUME NEW q, q = r
          PROVE  ~Served(q)'
      BY <1>3, <3>2 DEF Served
    <3>. QED  BY <1>3, <3>1, <3>2 DEF serving
  <2>2. CASE r \notin serving
    <3>1. UNCHANGED serving
      BY <2>1, <2>2
    <3>. QED  BY <1>1, <3>1 DEF L!vars, lives, phases, named, serving
  <2>3. CASE r \in serving
    <3>1. r # NoRealm
      BY <2>3, NoRealmAssumption DEF serving, RealmIInv, DevIInv, DevTypeOK,
         KeycloakTypeOK
    <3>2. ASSUME NEW n \in Devs, lives[n] = "present"
          PROVE  named[n] # r
      <4>1. Present(n)
        BY <3>2 DEF lives, Life, Present
      <4>2. CASE dev[n].realm = NoRealm
        BY <3>1, <4>2 DEF named
      <4>3. CASE dev[n].realm # NoRealm
        BY <1>3, <4>1, <4>3, NotTaken DEF named
      <4>. QED  BY <4>2, <4>3
    <3>3. L!Withdraw
      BY <1>1, <2>1, <2>3, <3>2 DEF L!Withdraw, lives, phases, named, serving
    <3>. QED  BY <3>3 DEF L!Next
  <2>. QED  BY <2>2, <2>3
<1>. QED  BY <1>2, <1>3 DEF RealmStep

\* Nothing is installed at first.
LEMMA ViewsInit ==
    ASSUME DevInit
    PROVE  L!Init
<1>1. realms = {} /\ \A d \in Devs : dev[d] = D!Absent(0)
  BY DEF DevInit, ClusterInit, D!Init, KeycloakInit
<1>. QED  BY <1>1 DEF L!Init, Life, D!Absent

\* A step that stores a version, or changes Keycloak, is a step of Lifecycle.
LEMMA StepRefines ==
    ASSUME RealmIInv, ObjectStep, RealmStep
    PROVE  [L!Next]_(L!vars)
<1>1. CASE UNCHANGED dev
  BY <1>1, RealmsRefine
<1>2. CASE ~UNCHANGED dev
  BY <1>2, StoreRefines DEF ObjectStep
<1>. QED  BY <1>1, <1>2

\* Stale reads, lost answers, interrupted and repeated runs, objects created
\* again under their names: all a user sees of them is Lifecycle.
THEOREM DevImplementsLifecycle == AloneSpec => ImplementsLifecycle
<1>1. DevInit => L!Init
  BY ViewsInit
<1>2. RealmIInv /\ [AloneNext]_devCtlVars => [L!Next]_(L!vars)
  BY AloneStepRealm, StepRefines
<1>. QED  BY <1>1, <1>2, RealmInvariant, PTL DEF AloneSpec, ImplementsLifecycle, L!Spec
=============================================================================
