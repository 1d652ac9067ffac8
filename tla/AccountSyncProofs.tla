-------------------------- MODULE AccountSyncProofs --------------------------
(***************************************************************************)
(* Why a run of Reconcile leaves what its specification asks for, and why  *)
(* the default accounts outlive searches that find other accounts, for any *)
(* instance of AccountSync: any roles, accounts, names and specifications, *)
(* any number of RhpamUsers, writes and faults.                            *)
(***************************************************************************)
EXTENDS AccountSync, UserProofs, SequenceTheorems

-----------------------------------------------------------------------------
(* The realms.                                                             *)

\* What a step keeps of the realms: they stay sound, and a realm that has the
\* defaults keeps them.
RealmsKept ==
    /\ RealmsSound'
    /\ Serving \subseteq Serving'
    /\ faults' = 0 => faults = 0

\* A step that leaves Keycloak alone.
LEMMA QuietRealms ==
    ASSUME RealmsSound, UNCHANGED ssoVars, faults' = 0 => faults = 0
    PROVE  RealmsKept
BY DEF RealmsSound, RealmsKept, Serving, HasDefaults, DefaultAccountsIn, ssoVars

\* A change takes no default away and adds no account a search could confuse
\* with a default one.
SoundChange(q, y) ==
    /\ y.op = "deleteRole" => ~isDefaultRole(y.role)
    /\ y.op = "grant" => <<q, y.account>> \in accounts
    /\ DefaultsApart /\ faults' = 0 =>
          /\ y.op = "deleteUser" => ~isDefaultUser(y.account)
          /\ y.op = "createUser" =>
                \/ <<q, y.account>> \in accounts
                \/ isDefaultUser(y.account)
                \/ Harmless(y.account) /\ DefaultAccountsIn(q)

\* Of the default accounts a change leaves what there is.
LEMMA DefaultAccountsKept ==
    ASSUME NEW q, NEW y \in Changes, SsoChange(q, y),
           y.op = "deleteUser" => ~isDefaultUser(y.account),
           NEW r, DefaultAccountsIn(r)
    PROVE  DefaultAccountsIn(r)'
<1>1. ASSUME NEW i \in DOMAIN DefaultUsers
      PROVE  <<r, DefaultUsers[i].username>> \in accounts'
  <2>1. <<r, DefaultUsers[i].username>> \in accounts
    BY DEF DefaultAccountsIn
  <2>2. isDefaultUser(DefaultUsers[i].username)
    BY DEF isDefaultUser
  <2>. QED  BY <2>1, <2>2, ChangeTakes
<1>. QED  BY <1>1 DEF DefaultAccountsIn

\* What such a change leaves behind.
LEMMA ChangeRealms ==
    ASSUME RealmsSound, NEW q, NEW y \in Changes, SsoChange(q, y),
           SoundChange(q, y), faults' = 0 => faults = 0
    PROVE  RealmsKept
<1>1. ASSUME NEW r, HasDefaults(r)
      PROVE  HasDefaults(r)'
  <2>1. ASSUME NEW i \in DOMAIN DefaultRoles
        PROVE  <<r, DefaultRoles[i]>> \in roles'
    <3>1. <<r, DefaultRoles[i]>> \in roles /\ isDefaultRole(DefaultRoles[i])
      BY <1>1 DEF HasDefaults, isDefaultRole
    <3>. QED  BY <3>1, ChangeTakes DEF SoundChange
  <2>2. ASSUME DefaultsApart, faults' = 0
        PROVE  DefaultAccountsIn(r)'
    BY <1>1, <2>2, DefaultAccountsKept DEF HasDefaults, SoundChange
  <2>. QED  BY <2>1, <2>2 DEF HasDefaults
<1>2. ASSUME NEW g \in grants'
      PROVE  <<g[1], g[2]>> \in accounts'
  <2>1. CASE g \in grants
    <3>1. <<g[1], g[2]>> \in accounts
      BY <2>1 DEF RealmsSound
    <3>2. ~(y.op = "deleteUser" /\ g[1] = q /\ g[2] = y.account)
      BY <1>2, ChangeAdds
    <3>3. y.op = "deleteUser" => <<g[1], g[2]>> # <<q, y.account>>
      BY <3>2
    <3>. QED  BY <3>1, <3>3, ChangeTakes
  <2>2. CASE y.op = "createUser" /\ \E b \in BuiltinRoles : g = <<q, y.account, b>>
    <3>1. g[1] = q /\ g[2] = y.account
      BY <2>2
    <3>. QED  BY <2>2, <3>1, ChangeAdds
  <2>3. CASE y.op = "grant" /\ g = <<q, y.account, y.role>>
    BY <2>3, ChangeTakes DEF SoundChange
  <2>. QED  BY <1>2, <2>1, <2>2, <2>3, ChangeAdds
<1>3. ASSUME DefaultsApart, faults' = 0, NEW x \in accounts'
      PROVE  \/ isDefaultUser(x[2])
             \/ Harmless(x[2]) /\ DefaultAccountsIn(x[1])'
  <2>1. CASE x \in accounts
    BY <1>3, <2>1, DefaultAccountsKept DEF RealmsSound, SoundChange
  <2>2. CASE y.op = "createUser" /\ x = <<q, y.account>> /\ x \notin accounts
    BY <1>3, <2>2, DefaultAccountsKept DEF SoundChange
  <2>. QED  BY <1>3, <2>1, <2>2, ChangeAdds
<1>4. Serving \subseteq Serving'
  BY <1>1 DEF Serving
<1>5. RealmsSound'
  BY <1>2, <1>3 DEF RealmsSound
<1>. QED  BY <1>4, <1>5 DEF RealmsKept

\* A fault is counted.
LEMMA SufferCounts ==
    ASSUME faults \in Nat, NEW o, Suffer(o)
    PROVE  /\ faults' = 0 => faults = 0 /\ o = "ok"
           /\ faults' \in Nat
BY DEF Suffer

\* A request for such a change, answered or not.
LEMMA AskRealms ==
    ASSUME RealmsSound, faults \in Nat, NEW y \in Changes, NEW o,
           Ask(y, o), Answered(ujob.realm, y) => SoundChange(ujob.realm, y)
    PROVE  RealmsKept
<1>1. faults' = 0 => faults = 0
  BY SufferCounts DEF Ask
<1>2. CASE UNCHANGED ssoVars
  BY <1>1, <1>2, QuietRealms
<1>3. CASE Answered(ujob.realm, y) /\ SsoChange(ujob.realm, y)
  BY <1>1, <1>3, ChangeRealms
<1>. QED  BY <1>2, <1>3 DEF Ask

\* The account a change is about is the one asked for, when no search finds
\* it or none is made, or one that the search for its name finds.
LEMMA ResolvedIs ==
    ASSUME KeycloakTypeOK, NEW q, NEW x \in Changes, NEW y \in Resolved(q, x)
    PROVE  /\ y \in Changes /\ y.op = x.op
           /\ \/ /\ y = x
                 /\ x \in AccountChanges =>
                       \A b \in Containing[x.account] : <<q, b>> \notin accounts
              \/ /\ x \in AccountChanges
                 /\ y = [x EXCEPT !.account = y.account]
                 /\ y.account \in Containing[x.account]
                 /\ y.account \in AccountNames
                 /\ <<q, y.account>> \in accounts
<1>1. y \in Changes /\ y.op = x.op
  BY ResolvedType
<1>2. CASE x \in RoleChanges
  <2>1. y = x /\ x \notin AccountChanges
    BY <1>2 DEF Resolved, RoleChanges, AccountChanges
  <2>. QED  BY <1>1, <2>1
<1>3. CASE x \in AccountChanges
  <2>. DEFINE found == FindUserByUsername(q, x.account)
  <2>1. x.op \notin {"createRole", "deleteRole"} /\ x.account \in AccountNames
    BY <1>3 DEF AccountChanges
  <2>2. \A b : b \in InRealm(q, accounts) <=> <<q, b>> \in accounts
    BY DEF InRealm, KeycloakTypeOK
  <2>3. \A b : b \in found <=> b \in Containing[x.account] /\ <<q, b>> \in accounts
    BY <2>2 DEF FindUserByUsername
  <2>4. CASE found = {}
    <3>1. y = x
      BY <2>1, <2>4 DEF Resolved
    <3>. QED  BY <1>1, <1>3, <2>3, <2>4, <3>1
  <2>5. CASE found # {}
    <3>1. PICK b \in found : y = [x EXCEPT !.account = b]
      BY <2>1, <2>5 DEF Resolved
    <3>2. y.account = b
      BY <1>3, <3>1 DEF AccountChanges
    <3>3. b \in AccountNames
      BY <2>1, <2>3, AccountsAssumption
    <3>. QED  BY <1>1, <1>3, <2>3, <3>1, <3>2, <3>3
  <2>. QED  BY <2>4, <2>5
<1>. QED  BY <1>2, <1>3 DEF Changes

\* A change asked of the account of a name, if it is meant to take no default
\* and is made in a realm that has them, or adds one.
LEMMA DealRealms ==
    ASSUME KeycloakTypeOK, RealmsSound, faults \in Nat,
           NEW x \in Changes, NEW next, Deal(x, next), TakesNoDefault(x),
           x.op = "createUser" =>
              isDefaultUser(x.account) \/ ujob.realm \in Serving
    PROVE  RealmsKept
<1>. DEFINE q == ujob.realm
<1>1. ASSUME NEW o \in Outcomes, NEW y \in Resolved(q, x), Ask(y, o)
      PROVE  RealmsKept
  <2>1. y \in Changes /\ y.op = x.op
    BY ResolvedIs
  <2>2. ASSUME Answered(q, y)
        PROVE  SoundChange(q, y)
    <3>1. y.op = "deleteRole" => ~isDefaultRole(y.role)
      <4>1. ASSUME y.op = "deleteRole"
            PROVE  y = x
        <5>1. x \notin AccountChanges
          BY <2>1, <4>1 DEF AccountChanges
        <5>. QED  BY <1>1, <5>1, ResolvedIs
      <4>. QED  BY <2>1, <4>1 DEF TakesNoDefault
    <3>2. y.op = "grant" => <<q, y.account>> \in accounts
      BY <2>2 DEF Answered
    <3>3. ASSUME DefaultsApart, faults' = 0, y.op = "deleteUser"
          PROVE  ~isDefaultUser(y.account)
      <4>1. faults = 0
        BY <1>1, <3>3, SufferCounts DEF Ask
      <4>2. Harmless(x.account) /\ x.account \in AccountNames
        BY <2>1, <3>3, <4>1 DEF TakesNoDefault, Changes, RoleChanges, AccountChanges
      <4>3. y.account \in Containing[x.account] /\ y.account \in AccountNames
        BY <4>2, ResolvedIs, AccountsAssumption
      <4>. QED  BY <4>2, <4>3 DEF Harmless
    <3>4. ASSUME DefaultsApart, faults' = 0, y.op = "createUser"
          PROVE  \/ <<q, y.account>> \in accounts
                 \/ isDefaultUser(y.account)
                 \/ Harmless(y.account) /\ DefaultAccountsIn(q)
      <4>1. faults = 0
        BY <1>1, <3>4, SufferCounts DEF Ask
      <4>2. x \in AccountChanges
        BY <2>1, <3>4 DEF Changes, RoleChanges
      <4>3. CASE <<q, y.account>> \notin accounts /\ ~isDefaultUser(y.account)
        <5>1. y = x /\ \A b \in Containing[x.account] : <<q, b>> \notin accounts
          BY <4>2, <4>3, ResolvedIs
        <5>2. q \in Serving
          BY <2>1, <3>4, <4>3, <5>1
        <5>3. DefaultAccountsIn(q)
          BY <3>4, <4>1, <5>2 DEF Serving, HasDefaults
        <5>4. Harmless(x.account)
          BY <5>1, <5>3 DEF Harmless, DefaultAccountsIn, isDefaultUser
        <5>. QED  BY <5>1, <5>3, <5>4
      <4>. QED  BY <4>3
    <3>. QED  BY <3>1, <3>2, <3>3, <3>4 DEF SoundChange
  <2>. QED  BY <1>1, <2>1, <2>2, AskRealms
<1>2. ASSUME x.op = "createUser", Suffer("failed"), SsoChange(q, x)
      PROVE  RealmsKept
  <2>1. faults' # 0
    BY <1>2, SufferCounts
  <2>2. SoundChange(q, x)
    BY <1>2, <2>1 DEF SoundChange
  <2>. QED  BY <1>2, <2>1, <2>2, ChangeRealms
<1>. QED  BY <1>1, <1>2 DEF Deal

-----------------------------------------------------------------------------
(* The objects.                                                            *)

\* What a step does to the RhpamDevs: a version under a new resource version
\* replaces a stored one.
DevWrite ==
    \/ UNCHANGED dev /\ \A d \in Devs : devWatch'[d] \subseteq devWatch[d]
    \/ \E d \in Devs, v \in D!Object : v.rv = dev[d].rv + 1 /\ D!Store(d, v)

\* What enters the cache comes from the watch or from the API server.
CacheRead ==
    \A d \in Devs : devCache'[d] \in {devCache[d], dev'[d]} \cup devWatch[d]

\* A sound copy stays sound.
LEMMA SoundAfter ==
    ASSUME D!TypeOK, DevWrite, NEW d \in Devs, NEW v \in D!Object, D!Sound(d, v)
    PROVE  D!Sound(d, v)'
<1>1. CASE UNCHANGED dev
  BY <1>1 DEF D!Sound
<1>2. ASSUME NEW e \in Devs, NEW w \in D!Object, w.rv = dev[e].rv + 1, D!Store(e, w)
      PROVE  D!Sound(d, v)'
  <2>1. v.rv \in Nat /\ dev[d].rv \in Nat
    BY DEF D!TypeOK, D!Object
  <2>2. dev'[d] = IF d = e THEN w ELSE dev[d]
    BY <1>2 DEF D!Store, D!TypeOK
  <2>. QED  BY <1>2, <2>1, <2>2 DEF D!Sound
<1>. QED  BY <1>1, <1>2 DEF DevWrite

\* Copies in the informer and versions it has not seen stay sound.
LEMMA CopiesAfter ==
    ASSUME D!TypeOK, D!TypeOK', D!CopiesSound, DevWrite, CacheRead
    PROVE  D!CopiesSound'
<1>1. ASSUME NEW d \in Devs
      PROVE  D!Sound(d, dev[d])'
  BY DEF D!Sound, D!TypeOK, D!Object
<1>2. ASSUME NEW d \in Devs, NEW v \in devWatch'[d]
      PROVE  v \in devWatch[d] \/ v = dev'[d]
  BY <1>2 DEF DevWrite, D!Store, D!TypeOK
<1>3. ASSUME NEW d \in Devs, NEW v \in devWatch'[d]
      PROVE  D!Sound(d, v)'
  <2>1. CASE v \in devWatch[d]
    BY <2>1, SoundAfter DEF D!CopiesSound, D!TypeOK
  <2>. QED  BY <1>1, <1>2, <1>3, <2>1
<1>4. ASSUME NEW d \in Devs
      PROVE  D!Sound(d, devCache[d])'
  <2>1. \/ devCache'[d] = dev'[d]
        \/ devCache'[d] \in {devCache[d]} \cup devWatch[d]
    BY DEF CacheRead
  <2>2. ASSUME NEW v \in {devCache[d]} \cup devWatch[d]
        PROVE  v.rv <= dev'[d].rv /\ (v.rv = dev'[d].rv => v = dev'[d])
    <3>1. D!Sound(d, v) /\ v \in D!Object
      BY <2>2 DEF D!CopiesSound, D!TypeOK
    <3>. QED  BY <3>1, SoundAfter DEF D!Sound
  <2>. QED  BY <1>1, <2>1, <2>2 DEF D!Sound
<1>. QED  BY <1>3, <1>4 DEF D!CopiesSound

\* The versions of an object that are stored, cached or on their way.
Versions(n, obj, cache, watch) == {obj[n], cache[n]} \cup watch[n]

DevVersions(d) == Versions(d, dev, devCache, devWatch)
UserVersions(u) == Versions(u, user, userCache, userWatch)

\* A new version of an object that says the realm was filled was written when
\* it had been.
LEMMA VouchedAfter ==
    ASSUME ObjectsVouched, Serving \subseteq Serving',
           \A d \in Devs : \A v \in DevVersions(d)' :
              \/ v \in DevVersions(d)
              \/ v.phase \in HandedOver => v.realm \in Serving,
           \A u \in Users : \A v \in UserVersions(u)' :
              \/ v \in UserVersions(u)
              \/ v.phase = PhaseReconcile => v.realm \in Serving
    PROVE  ObjectsVouched'
<1>1. ASSUME NEW d \in Devs, NEW v \in {dev'[d], devCache'[d]} \cup devWatch'[d]
      PROVE  v.phase \in HandedOver => v.realm \in Serving'
  <2>1. v \in DevVersions(d)'
    BY <1>1 DEF DevVersions, Versions
  <2>2. v \in DevVersions(d) => (v.phase \in HandedOver => v.realm \in Serving)
    BY DEF ObjectsVouched, Vouched, DevVersions, Versions
  <2>. QED  BY <2>1, <2>2
<1>2. ASSUME NEW u \in Users, NEW v \in {user'[u], userCache'[u]} \cup userWatch'[u]
      PROVE  v.phase = PhaseReconcile => v.realm \in Serving'
  <2>1. v \in UserVersions(u)'
    BY <1>2 DEF UserVersions, Versions
  <2>2. v \in UserVersions(u) => (v.phase = PhaseReconcile => v.realm \in Serving)
    BY DEF ObjectsVouched, Vouched, UserVersions, Versions
  <2>. QED  BY <2>1, <2>2
<1>. QED  BY <1>1, <1>2 DEF ObjectsVouched, Vouched, HandedOver

\* An update of a RhpamDev.
LEMMA DevUpdateWrites ==
    ASSUME D!TypeOK, NEW d \in Devs, NEW v \in D!Object, D!Update(d, v),
           UNCHANGED devCache
    PROVE  /\ DevWrite /\ CacheRead
           /\ \A e \in Devs : \A w \in DevVersions(e)' :
                 \/ w \in DevVersions(e)
                 \/ w.phase = NoPhase
                 \/ w.phase = v.phase /\ w.realm = v.realm
<1>1. D!Result(d, v) \in D!Object
  BY DevResultType
<1>2. CASE UNCHANGED <<dev, devWatch>>
  BY <1>2 DEF DevWrite, CacheRead, DevVersions, Versions
<1>3. CASE D!Result(d, v) # dev[d] /\ D!Store(d, D!Result(d, v))
  <2>. DEFINE w == D!Result(d, v)
  <2>1. \/ w = D!Absent(dev[d].rv + 1)
        \/ w = [v EXCEPT !.rv = dev[d].rv + 1]
    BY <1>3 DEF D!Result
  <2>2. /\ w.rv = dev[d].rv + 1
        /\ \/ w.phase = NoPhase
           \/ w.phase = v.phase /\ w.realm = v.realm
    BY <2>1 DEF D!Absent, D!Object
  <2>3. /\ dev' = [dev EXCEPT ![d] = w]
        /\ devWatch' = [devWatch EXCEPT ![d] = devWatch[d] \cup {w}]
    BY <1>3 DEF D!Store
  <2>. HIDE DEF w
  <2>4. DevWrite
    BY <1>1, <1>3, <2>2 DEF DevWrite, w
  <2>5. CacheRead
    BY DEF CacheRead
  <2>6. \A e \in Devs : \A x \in DevVersions(e)' : x \in DevVersions(e) \/ x = w
    BY <2>3 DEF DevVersions, Versions, D!TypeOK
  <2>. QED  BY <2>2, <2>4, <2>5, <2>6
<1>. QED  BY <1>2, <1>3 DEF D!Update

\* An update of a RhpamUser.
LEMMA UserUpdateWrites ==
    ASSUME U!TypeOK, NEW u \in Users, NEW v \in U!Object, U!Update(u, v),
           UNCHANGED userCache
    PROVE  \A e \in Users : \A w \in UserVersions(e)' :
              \/ w \in UserVersions(e)
              \/ w.phase = NoPhase
              \/ w.phase = v.phase /\ w.realm = v.realm
<1>1. CASE UNCHANGED <<user, userWatch>>
  BY <1>1 DEF UserVersions, Versions
<1>2. CASE U!Result(u, v) # user[u] /\ U!Store(u, U!Result(u, v))
  <2>. DEFINE w == U!Result(u, v)
  <2>1. \/ w = U!Absent(user[u].rv + 1)
        \/ w = [v EXCEPT !.rv = user[u].rv + 1]
    BY <1>2 DEF U!Result
  <2>2. \/ w.phase = NoPhase
        \/ w.phase = v.phase /\ w.realm = v.realm
    BY <2>1 DEF U!Absent, U!Object
  <2>3. /\ user' = [user EXCEPT ![u] = w]
        /\ userWatch' = [userWatch EXCEPT ![u] = userWatch[u] \cup {w}]
    BY <1>2 DEF U!Store
  <2>. HIDE DEF w
  <2>4. \A e \in Users : \A x \in UserVersions(e)' : x \in UserVersions(e) \/ x = w
    BY <2>3 DEF UserVersions, Versions, U!TypeOK
  <2>. QED  BY <2>2, <2>4
<1>. QED  BY <1>1, <1>2 DEF U!Update

\* What users and the informer do to a RhpamUser leaves phase and realm, or
\* starts afresh.
LEMMA UserStepWrites ==
    ASSUME U!TypeOK, NEW u \in Users,
           \/ U!UserCreate(u) \/ U!UserEdit(u) \/ U!UserDelete(u)
           \/ U!Deliver(u) \/ U!Resync(u)
    PROVE  \A e \in Users : \A w \in UserVersions(e)' :
              \/ w \in UserVersions(e)
              \/ w.phase = NoPhase
              \/ \E v \in UserVersions(e) : w.phase = v.phase /\ w.realm = v.realm
<1>0. user[u] \in U!Object
  BY DEF U!TypeOK
<1>1. ASSUME NEW w, U!Store(u, w), UNCHANGED userCache,
             \/ w.phase = NoPhase
             \/ w.phase = user[u].phase /\ w.realm = user[u].realm
      PROVE  \A e \in Users : \A x \in UserVersions(e)' :
                \/ x \in UserVersions(e)
                \/ x.phase = NoPhase
                \/ \E v \in UserVersions(e) : x.phase = v.phase /\ x.realm = v.realm
  <2>1. /\ user' = [user EXCEPT ![u] = w]
        /\ userWatch' = [userWatch EXCEPT ![u] = userWatch[u] \cup {w}]
    BY <1>1 DEF U!Store
  <2>2. \A e \in Users : \A x \in UserVersions(e)' :
           x \in UserVersions(e) \/ (e = u /\ x = w)
    BY <1>1, <2>1 DEF UserVersions, Versions, U!TypeOK
  <2>3. user[u] \in UserVersions(u)
    BY DEF UserVersions, Versions
  <2>. QED  BY <1>1, <2>2, <2>3
<1>2. CASE U!UserCreate(u)
  <2>1. PICK s \in UserSpecs : U!Store(u, U!Created(user[u].rv + 1, s))
    BY <1>2 DEF U!UserCreate
  <2>2. U!Created(user[u].rv + 1, s).phase = NoPhase
    BY DEF U!Created, U!Absent
  <2>. QED  BY <1>1, <1>2, <2>1, <2>2 DEF U!UserCreate
<1>3. CASE U!UserEdit(u)
  <2>1. PICK s \in UserSpecs :
           U!Store(u, [user[u] EXCEPT !.rv = user[u].rv + 1, !.spec = s])
    BY <1>3 DEF U!UserEdit
  <2>2. LET w == [user[u] EXCEPT !.rv = user[u].rv + 1, !.spec = s]
        IN  w.phase = user[u].phase /\ w.realm = user[u].realm
    BY <1>0 DEF U!Object
  <2>. QED  BY <1>1, <1>3, <2>1, <2>2 DEF U!UserEdit
<1>4. CASE U!UserDelete(u)
  <2>1. LET w == [user[u] EXCEPT !.rv = user[u].rv + 1, !.deleting = TRUE]
        IN  w.phase = user[u].phase /\ w.realm = user[u].realm
    BY <1>0 DEF U!Object
  <2>2. U!Absent(user[u].rv + 1).phase = NoPhase
    BY DEF U!Absent
  <2>. QED  BY <1>1, <1>4, <2>1, <2>2 DEF U!UserDelete
<1>5. CASE U!Deliver(u)
  <2>1. PICK v \in userWatch[u] :
           /\ userCache' = [userCache EXCEPT ![u] = v]
           /\ userWatch' = [userWatch EXCEPT ![u] = userWatch[u] \ {v}]
    BY <1>5 DEF U!Deliver
  <2>. QED  BY <1>5, <2>1 DEF U!Deliver, UserVersions, Versions, U!TypeOK
<1>6. CASE U!Resync(u)
  BY <1>6 DEF U!Resync, UserVersions, Versions
<1>. QED  BY <1>2, <1>3, <1>4, <1>5, <1>6

-----------------------------------------------------------------------------
(* What Accepted goes through.                                             *)

\* A list of its calls: it makes a default role or account, or maps a role.
LEMMA FillsDefaults ==
    ASSUME NEW k \in 0..Len(DefaultUsers)
    PROVE  /\ \A x \in ToSet(FillCalls(k)) : AddsDefaults(x)
           /\ k = 0 => \A i \in DOMAIN DefaultRoles :
                          CreateRole(DefaultRoles[i]) \in ToSet(FillCalls(k))
           /\ k # 0 => CreateUserIn(DefaultUsers[k].username) \in ToSet(FillCalls(k))
<1>1. CASE k = 0
  <2>1. FillCalls(k) = [i \in DOMAIN DefaultRoles |-> CreateRole(DefaultRoles[i])]
    BY <1>1 DEF FillCalls
  <2>2. \A i \in DOMAIN DefaultRoles : AddsDefaults(CreateRole(DefaultRoles[i]))
    BY DEF AddsDefaults, CreateRole
  <2>. QED  BY <1>1, <2>1, <2>2 DEF ToSet
<1>2. CASE k # 0
  <2>. DEFINE x == DefaultUsers[k]
              maps == [i \in DOMAIN x.roles |-> Grant(x.username, x.roles[i])]
              made == <<CreateUserIn(x.username)>>
  <2>1. k \in DOMAIN DefaultUsers
    BY <1>2, DefaultUsersLength
  <2>2. x.roles \in Seq(RoleNames)
    <3>. DEFINE Record == [username: AccountNames, roles: Seq(RoleNames)]
    <3>1. DefaultUsers \in Seq(Record) /\ k \in 1..Len(DefaultUsers)
      BY <1>2, DefaultsAssumption
    <3>2. DefaultUsers[k] \in Record
      <4>. HIDE DEF Record
      <4>. QED  BY <3>1
    <3>. QED  BY <3>2
  <2>3. /\ AddsDefaults(CreateUserIn(x.username))
        /\ \A i \in DOMAIN x.roles : AddsDefaults(Grant(x.username, x.roles[i]))
    BY <2>1 DEF AddsDefaults, CreateUserIn, Grant, isDefaultUser
  <2>. DEFINE All == {y \in {CreateUserIn(x.username)} \cup
                           {Grant(x.username, x.roles[i]) : i \in DOMAIN x.roles} :
                         AddsDefaults(y)}
  <2>4. made \in Seq(All) /\ maps \in Seq(All)
    <3>1. CreateUserIn(x.username) \in All
      BY <2>3
    <3>2. \A i \in 1..Len(x.roles) : Grant(x.username, x.roles[i]) \in All
      BY <2>2, <2>3
    <3>3. maps \in [1..Len(x.roles) -> All] /\ Len(x.roles) \in Nat
      <4>. HIDE DEF All
      <4>. QED  BY <2>2, <3>2
    <3>. HIDE DEF All, maps
    <3>. QED  BY <3>1, <3>3
  <2>5. FillCalls(k) = made \o maps
    BY <1>2 DEF FillCalls
  <2>6. \A y \in All : AddsDefaults(y)
    OBVIOUS
  <2>7. made[1] = CreateUserIn(x.username) /\ Len(made) = 1
    OBVIOUS
  <2>. HIDE DEF All, maps, made
  <2>8. /\ FillCalls(k) \in Seq(All)
        /\ 1 \in DOMAIN FillCalls(k) /\ FillCalls(k)[1] = made[1]
    <3>1. FillCalls(k) \in Seq(All) /\ Len(FillCalls(k)) = 1 + Len(maps)
      <4>1. made \o maps \in Seq(All)
        BY <2>4, ConcatProperties
      <4>2. Len(made \o maps) = Len(made) + Len(maps)
        BY <2>4, ConcatProperties
      <4>. QED  BY <2>5, <2>7, <4>1, <4>2
    <3>2. Len(maps) \in Nat
      BY <2>4
    <3>3. 1 \in 1..1 + Len(maps)
      BY <3>2
    <3>4. FillCalls(k)[1] = made[1]
      <4>1. \A i \in 1..Len(made) + Len(maps) : (made \o maps)[i] =
                IF i <= Len(made) THEN made[i] ELSE maps[i - Len(made)]
        BY <2>4, ConcatProperties
      <4>. QED  BY <2>5, <2>7, <3>3, <4>1
    <3>. QED  BY <3>1, <3>3, <3>4
  <2>9. \A y \in ToSet(FillCalls(k)) : y \in All
    BY <2>8 DEF ToSet
  <2>10. CreateUserIn(x.username) \in ToSet(FillCalls(k))
    BY <2>7, <2>8 DEF ToSet
  <2>. QED  BY <1>2, <2>6, <2>9, <2>10
<1>. QED  BY <1>1, <1>2

\* The RhpamDevs a run has listed are cached ones.
LEMMA ListedCopies ==
    ASSUME NEW devs \in SetToSeqs({<<d, devCache[d]>> : d \in Listed}),
           NEW x \in ToSet(devs)
    PROVE  \E d \in Devs : x = <<d, devCache[d]>>
<1>. DEFINE S == {<<d, devCache[d]>> : d \in Listed}
            f == [d \in Listed |-> <<d, devCache[d]>>]
<1>1. IsFiniteSet(Listed)
  BY FS_Subset, DevsAssumption DEF Listed
<1>2. f \in Surjection(Listed, S)
  BY Fun_IsSurj
<1>3. IsFiniteSet(S)
  BY <1>1, <1>2, FS_Surjection
<1>4. \A y \in S : \E d \in Devs : y = <<d, devCache[d]>>
  BY DEF Listed
<1>. HIDE DEF S, f
<1>5. /\ Cardinality(S) \in Nat
      /\ devs \in [1..Cardinality(S) -> S]
  BY <1>3, FS_CardinalityType DEF SetToSeqs, S
<1>. QED  BY <1>4, <1>5 DEF ToSet

-----------------------------------------------------------------------------
(* The run in progress.                                                    *)

\* What is known of a run, step after step.
RunKept ==
    RunVouched' /\ PlanTakesNoDefault' /\ FillGoesOn' /\ ReconcileGoesOn'

\* Of no run there is nothing to know.
LEMMA IdleRun ==
    ASSUME ujob' = UserIdle
    PROVE  RunKept
BY DEF UserIdle, RunKept, RunVouched, PlanTakesNoDefault, FillGoesOn, ReconcileGoesOn

\* A run that neither fills nor reconciles has nothing of it to finish.
LEMMA OtherErrand ==
    ASSUME ujob'.pc \notin {"fill", "roles", "listUsers", "users"},
           \/ ujob'.pc # "save"
           \/ ujob'.to # PhaseReconcile
           \/ ujob'.copy.phase # PhaseReconcile
    PROVE  FillGoesOn' /\ ReconcileGoesOn'
BY DEF FillGoesOn, ReconcileGoesOn, RolesGoOn, AccountsGoOn, Reconciled

\* What is planned stays harmless.
LEMMA PlanKept ==
    ASSUME PlanTakesNoDefault, faults' = 0 => faults = 0,
           ujob' # UserIdle => ujob # UserIdle /\ ujob'.plan \subseteq ujob.plan
    PROVE  PlanTakesNoDefault'
BY DEF PlanTakesNoDefault, TakesNoDefault

\* What the handlers see of the realm, when neither changes.
LEMMA SameView ==
    ASSUME UNCHANGED ssoVars, ujob'.realm = ujob.realm
    PROVE  /\ RolesHere' = RolesHere
           /\ Accounts' = Accounts
           /\ \A a : GrantsHere(a)' = GrantsHere(a)
BY DEF ssoVars, RolesHere, Accounts, GrantsHere, InRealm

\* A step that touches neither the run nor Keycloak.
LEMMA UntouchedRun ==
    ASSUME SyncIInv, UNCHANGED <<ujob, ssoVars>>, faults' = 0 => faults = 0,
           Serving \subseteq Serving'
    PROVE  RunKept
<1>1. RunVouched'
  BY DEF SyncIInv, RunVouched, Vouched
<1>2. PlanTakesNoDefault'
  BY PlanKept DEF SyncIInv
<1>3. FillGoesOn'
  BY DEF SyncIInv, FillGoesOn, AddsDefaults, ssoVars
<1>4. ReconcileGoesOn'
  <2>1. /\ RolesHere' = RolesHere
        /\ Accounts' = Accounts
        /\ \A a : GrantsHere(a)' = GrantsHere(a)
    BY SameView
  <2>2. /\ Wanted' = Wanted /\ WantedRoles' = WantedRoles
        /\ Reconciled' = Reconciled
    BY DEF Wanted, WantedRoles, Reconciled
  <2>3. \A a : WantedGoesOn(a) => WantedGoesOn(a)'
    BY <2>1, <2>2 DEF WantedGoesOn
  <2>4. \A x : PlanFollows(x) => PlanFollows(x)'
    BY <2>2 DEF PlanFollows
  <2>5. RolesGoOn => RolesGoOn'
    BY <2>1, <2>2 DEF RolesGoOn
  <2>6. RolesSettled => RolesSettled'
    BY <2>1, <2>2 DEF RolesSettled
  <2>7. AccountsGoOn => AccountsGoOn'
    BY <2>1, <2>2, <2>3, <2>4 DEF AccountsGoOn
  <2>. QED  BY <2>2, <2>5, <2>6, <2>7 DEF SyncIInv, ReconcileGoesOn
<1>. QED  BY <1>1, <1>2, <1>3, <1>4 DEF RunKept

\* A run that is left.
LEMMA AbortedRun ==
    ASSUME SyncIInv, RealmsKept, ujob \in UserJob, ujob # UserIdle, Abort
    PROVE  RunKept
<1>1. CASE ujob' = UserIdle
  BY <1>1, IdleRun
<1>2. CASE ujob' = [ujob EXCEPT !.pc = "fail"]
  <2>1. /\ ujob'.pc = "fail" /\ ujob'.copy = ujob.copy
        /\ ujob'.devs = ujob.devs /\ ujob'.plan = ujob.plan
    BY <1>2 DEF UserJob
  <2>2. RunVouched'
    BY <2>1 DEF SyncIInv, RunVouched, Vouched, RealmsKept
  <2>3. PlanTakesNoDefault'
    BY <2>1, PlanKept DEF SyncIInv, RealmsKept
  <2>. QED  BY <2>1, <2>2, <2>3, OtherErrand DEF RunKept
<1>. QED  BY <1>1, <1>2 DEF Abort, GoOn, RequeueUser

\* What a run keeps while it makes its calls in a realm.
SameErrand ==
    /\ ujob'.copy = ujob.copy /\ ujob'.to = ujob.to
    /\ ujob'.realm = ujob.realm /\ ujob'.devs = ujob.devs

Reconciling == {"listRoles", "roles", "listUsers", "users"}
Purging == {"purge", "purgeUsers", "listPurge", "purgeRoles"}

\* A run of Reconcile goes on.
LEMMA ReconcileErrand ==
    ASSUME RunVouched, Serving \subseteq Serving', ujob # UserIdle, SameErrand,
           ujob.pc \in Reconciling, ujob'.pc \in Reconciling \cup {"save"}
    PROVE  RunVouched' /\ FillGoesOn'
<1>1. /\ \A x \in ToSet(ujob.devs) : Vouched(x[2], {PhaseComplete})
      /\ ujob.copy.phase = PhaseReconcile
      /\ ujob.to = PhaseReconcile
      /\ ujob.realm \in Serving
      /\ Vouched(ujob.copy, {PhaseReconcile})
  BY DEF RunVouched, Reconciling
<1>2. /\ \A x \in ToSet(ujob'.devs) : Vouched(x[2], {PhaseComplete})'
      /\ Vouched(ujob.copy, {PhaseReconcile})'
  BY <1>1 DEF SameErrand, Vouched
<1>3. PhaseReconcile # PhaseAccepted /\ PhaseReconcile # PhaseDeprovisioned
  BY DEF PhaseReconcile, PhaseAccepted, PhaseDeprovisioned
<1>4. RunVouched'
  BY <1>1, <1>2, <1>3 DEF RunVouched, Vouched, SameErrand, Reconciling
<1>. QED  BY <1>4 DEF FillGoesOn, Reconciling

\* A run of Deprovision goes on.
LEMMA PurgeErrand ==
    ASSUME SyncIInv, Serving \subseteq Serving', ujob # UserIdle, SameErrand,
           ujob.pc \in Purging, ujob'.pc \in Purging \cup {"save"},
           PlanTakesNoDefault',
           \A x \in ujob'.plan : x.op \in {"deleteUser", "deleteRole"}
    PROVE  RunKept
<1>1. /\ \A x \in ToSet(ujob.devs) : Vouched(x[2], {PhaseComplete})
      /\ ujob.to = PhaseDeprovisioned
      /\ Vouched(ujob.copy, {PhaseReconcile})
  BY DEF SyncIInv, RunVouched, Purging
<1>2. PhaseReconcile # PhaseDeprovisioned
  BY DEF PhaseReconcile, PhaseDeprovisioned
<1>3. RunVouched'
  BY <1>1, <1>2 DEF RunVouched, Vouched, SameErrand, Purging
<1>4. FillGoesOn' /\ ReconcileGoesOn'
  BY <1>1, <1>2, OtherErrand DEF SameErrand, Purging
<1>. QED  BY <1>3, <1>4 DEF RunKept

\* Reconcile takes a key and starts a run from the cached object.
LEMMA StartedRun ==
    ASSUME SyncIInv, Serving \subseteq Serving', NEW u \in Users, UserHandler(u)
    PROVE  RunKept
<1>1. ASSUME NEW pc \in {"save", "devs", "listRoles", "purge"}, NEW to, NEW realm,
             NEW devs, StartUser(u, pc, to, realm, devs),
             \A x \in ToSet(devs) : Vouched(x[2], {PhaseComplete}),
             pc = "devs" => userCache[u].phase = PhaseAccepted,
             pc = "listRoles" => /\ userCache[u].phase = PhaseReconcile
                                 /\ to = PhaseReconcile
                                 /\ realm \in Serving,
             pc = "purge" => to = PhaseDeprovisioned,
             pc \in {"devs", "save"} => to # PhaseReconcile
      PROVE  RunKept
  <2>1. /\ ujob'.pc = pc /\ ujob'.copy = userCache[u] /\ ujob'.to = to
        /\ ujob'.realm = realm /\ ujob'.devs = devs /\ ujob'.plan = {}
        /\ ujob'.filled = 0
    BY <1>1 DEF StartUser
  <2>2. Vouched(userCache[u], {PhaseReconcile})
    BY DEF SyncIInv, ObjectsVouched
  <2>3. RunVouched'
    BY <1>1, <2>1, <2>2 DEF RunVouched, Vouched
  <2>4. PlanTakesNoDefault'
    BY <2>1 DEF PlanTakesNoDefault
  <2>. QED  BY <1>1, <2>1, <2>3, <2>4, OtherErrand DEF RunKept
<1>2. ToSet(<<>>) = {}
  BY DEF ToSet
<1>3. Vouched(userCache[u], {PhaseReconcile})
  BY DEF SyncIInv, ObjectsVouched
<1>. USE DEF UserInPhase, PhaseAccepted, PhaseReconcile, PhaseComplete,
             PhaseDeprovisioned
<1>4. CASE InitializeUser(u)
  BY <1>1, <1>2, <1>4 DEF InitializeUser
<1>5. CASE Accepted(u)
  <2>1. PICK devs \in SetToSeqs({<<d, devCache[d]>> : d \in Listed}) :
          StartUser(u, IF devs = <<>> THEN "save" ELSE "devs",
                    PhaseAccepted, NoRealm, devs)
    BY <1>5 DEF Accepted
  <2>2. ASSUME NEW x \in ToSet(devs)
        PROVE  Vouched(x[2], {PhaseComplete})
    <3>1. PICK d \in Devs : x = <<d, devCache[d]>>
      BY <2>1, <2>2, ListedCopies DEF SyncIInv, UserCtlTypeOK
    <3>2. Vouched(devCache[d], HandedOver)
      BY DEF SyncIInv, ObjectsVouched
    <3>. QED  BY <3>1, <3>2 DEF Vouched, HandedOver
  <2>3. userCache[u].phase = PhaseAccepted
    BY <1>5 DEF Accepted
  <2>4. PICK pc \in {"save", "devs"} : StartUser(u, pc, PhaseAccepted, NoRealm, devs)
    BY <2>1
  <2>. QED  BY <1>1, <2>2, <2>3, <2>4
<1>6. CASE ReconcileUser(u)
  BY <1>1, <1>2, <1>3, <1>6 DEF ReconcileUser, Vouched
<1>7. CASE DeprovisionUser(u)
  BY <1>1, <1>2, <1>7 DEF DeprovisionUser
<1>8. CASE DropUser(u)
  <2>1. ujob' = UserIdle
    BY <1>8 DEF DropUser, TakeUser
  <2>. QED  BY <2>1, IdleRun
<1>. QED  BY <1>4, <1>5, <1>6, <1>7, <1>8 DEF UserHandler

\* Of a complete RhpamDev its realm is taken; one whose realm is new will be
\* filled.
LEMMA NextDevRun ==
    ASSUME SyncIInv, RealmsKept, GoodRun(ujob), ujob # UserIdle, NextDev
    PROVE  RunKept
<1>. DEFINE copy == Head(ujob.devs)[2]
<1>1. /\ ujob \in UserJob /\ ujob.pc = "devs" /\ ujob.devs # <<>>
      /\ RunVouched /\ ujob.filled = 0 /\ ujob.copy.phase = PhaseAccepted
      /\ Serving \subseteq Serving'
  BY DEF GoodRun, SoundRun, NextDev, SyncIInv, RunVouched, RealmsKept
<1>2. \A x \in ToSet(ujob.devs) : Vouched(x[2], {PhaseComplete})
  BY <1>1 DEF RunVouched
<1>3. Head(ujob.devs) \in ToSet(ujob.devs) /\ ToSet(Tail(ujob.devs)) \subseteq ToSet(ujob.devs)
  BY <1>1, HeadElements DEF UserJob
<1>4. PhaseReconcile # PhaseAccepted
  BY DEF PhaseReconcile, PhaseAccepted
<1>5. CASE copy.phase = PhaseComplete
  <2>1. ujob' = [ujob EXCEPT !.pc = Following(Tail(ujob.devs)),
                             !.to = PhaseReconcile, !.realm = copy.realm,
                             !.devs = Tail(ujob.devs)]
    BY <1>5 DEF NextDev, GoOn
  <2>2. copy.realm \in Serving
    BY <1>2, <1>3, <1>5 DEF Vouched
  <2>. HIDE DEF copy
  <2>3. /\ ujob'.pc \in {"devs", "save"} /\ ujob'.copy = ujob.copy
        /\ ujob'.to = PhaseReconcile /\ ujob'.realm = copy.realm
        /\ ujob'.devs = Tail(ujob.devs) /\ ujob'.plan = ujob.plan
        /\ ujob'.filled = 0
    BY <1>1, <2>1 DEF UserJob, Following
  <2>4. RunVouched'
    BY <1>1, <1>2, <1>3, <1>4, <2>2, <2>3 DEF RunVouched, Vouched
  <2>5. PlanTakesNoDefault'
    BY <2>3, PlanKept DEF SyncIInv, RealmsKept
  <2>. QED  BY <1>1, <1>4, <2>3, <2>4, <2>5, OtherErrand DEF RunKept
<1>6. CASE copy.phase # PhaseComplete
  <2>1. ujob' = [ujob EXCEPT !.pc = "fill", !.todo = FillCalls(0),
                             !.to = PhaseReconcile, !.realm = copy.realm]
    BY <1>6 DEF NextDev, GoOn
  <2>. HIDE DEF copy
  <2>2. /\ ujob'.pc = "fill" /\ ujob'.copy = ujob.copy
        /\ ujob'.to = PhaseReconcile /\ ujob'.realm = copy.realm
        /\ ujob'.devs = ujob.devs /\ ujob'.plan = ujob.plan
        /\ ujob'.filled = 0 /\ ujob'.todo = FillCalls(0)
    BY <1>1, <2>1 DEF UserJob
  <2>3. RunVouched'
    BY <1>1, <1>2, <1>4, <2>2 DEF RunVouched, Vouched, copy
  <2>4. PlanTakesNoDefault'
    BY <2>2, PlanKept DEF SyncIInv, RealmsKept
  <2>5. FillGoesOn'
    <3>1. /\ \A x \in ToSet(FillCalls(0)) : AddsDefaults(x)
          /\ \A i \in DOMAIN DefaultRoles :
                CreateRole(DefaultRoles[i]) \in ToSet(FillCalls(0))
      BY FillsDefaults, DefaultUsersLength
    <3>2. \A i \in DOMAIN DefaultUsers : i > 0
      BY DefaultUsersLength
    <3>. QED  BY <2>2, <3>1, <3>2 DEF FillGoesOn
  <2>6. ReconcileGoesOn'
    BY <2>2 DEF ReconcileGoesOn, RolesGoOn, AccountsGoOn, Reconciled
  <2>. QED  BY <2>3, <2>4, <2>5, <2>6 DEF RunKept
<1>. QED  BY <1>5, <1>6

\* What a call of Accepted makes is there afterwards, and no default is lost.
Making(x) ==
    /\ \A r : x = CreateRole(r) => <<ujob.realm, r>> \in roles'
    /\ DefaultsApart /\ faults' = 0 =>
          \A a \in AccountNames : x = CreateUserIn(a) => <<ujob.realm, a>> \in accounts'
    /\ roles \subseteq roles' /\ accounts \subseteq accounts'

\* A call that makes a default finds it or makes it.
LEMMA FillMakes ==
    ASSUME KeycloakTypeOK, RealmsSound, faults \in Nat,
           NEW x \in Changes, AddsDefaults(x), NEW next, Deal(x, next)
    PROVE  \/ Abort
           \/ GoOn(next) /\ Making(x)
<1>. DEFINE q == ujob.realm
<1>0. x.op \in {"createRole", "grant", "createUser"}
  BY DEF AddsDefaults
<1>1. ASSUME NEW y \in Resolved(q, x), SsoChange(q, y), faults' = 0 => faults = 0
      PROVE  Making(x)
  <2>1. y \in Changes /\ y.op = x.op
    BY ResolvedIs
  <2>2. roles \subseteq roles' /\ accounts \subseteq accounts'
    BY <1>0, <1>1, <2>1, ChangeTakes
  <2>3. ASSUME NEW r, x = CreateRole(r)
        PROVE  <<q, r>> \in roles'
    <3>1. x \notin AccountChanges /\ x.op = "createRole" /\ x.role = r
      BY <2>3 DEF AccountChanges, CreateRole
    <3>2. y = x
      BY <3>1, ResolvedIs
    <3>. QED  BY <1>1, <3>1, <3>2, ChangeAdds
  <2>4. ASSUME DefaultsApart, faults' = 0, NEW a \in AccountNames, x = CreateUserIn(a)
        PROVE  <<q, a>> \in accounts'
    <3>1. x.op = "createUser" /\ x.account = a /\ isDefaultUser(a)
      BY <2>4 DEF CreateUserIn, AddsDefaults
    <3>2. CASE y = x
      BY <1>1, <3>1, <3>2, ChangeAdds
    <3>3. CASE y # x
      <4>1. /\ y.account \in Containing[a] /\ y.account \in AccountNames
            /\ y = [x EXCEPT !.account = y.account]
            /\ <<q, y.account>> \in accounts
        BY <3>1, <3>3, ResolvedIs
      <4>2. y.account # a
        BY <2>4, <3>3, <4>1 DEF CreateUserIn
      <4>3. ~isDefaultUser(y.account)
        BY <2>4, <3>1, <4>1, <4>2 DEF DefaultsApart
      <4>4. DefaultAccountsIn(q)
        <5>. DEFINE p == <<q, y.account>>
        <5>1. p \in accounts /\ p[1] = q /\ p[2] = y.account
          BY <4>1
        <5>. QED  BY <1>1, <2>4, <4>3, <5>1 DEF RealmsSound
      <4>5. <<q, a>> \in accounts
        BY <3>1, <4>4 DEF DefaultAccountsIn, isDefaultUser
      <4>. QED  BY <2>2, <4>5
    <3>. QED  BY <3>2, <3>3
  <2>. QED  BY <2>2, <2>3, <2>4 DEF Making
<1>2. ASSUME NEW o \in Outcomes, NEW y \in Resolved(q, x), Ask(y, o),
             IF x.op = "deleteUser" \/ (o = "ok" /\ Answered(q, y))
             THEN GoOn(next) ELSE Abort
      PROVE  Abort \/ (GoOn(next) /\ Making(x))
  <2>1. CASE o = "ok" /\ Answered(q, y)
    <3>1. SsoChange(q, y) /\ (faults' = 0 => faults = 0)
      BY <1>2, <2>1, SufferCounts DEF Ask
    <3>. QED  BY <1>1, <1>2, <2>1, <3>1
  <2>2. CASE ~(o = "ok" /\ Answered(q, y))
    BY <1>0, <1>2, <2>2
  <2>. QED  BY <2>1, <2>2
<1>3. ASSUME x.op = "createUser", Suffer("failed"), SsoChange(q, x), GoOn(next)
      PROVE  GoOn(next) /\ Making(x)
  <2>1. faults' # 0
    BY <1>3, SufferCounts
  <2>2. roles \subseteq roles' /\ accounts \subseteq accounts'
    BY <1>3, ChangeTakes
  <2>3. \A r : x # CreateRole(r)
    BY <1>3 DEF CreateRole
  <2>. QED  BY <1>3, <2>1, <2>2, <2>3 DEF Making
<1>. QED  BY <1>2, <1>3 DEF Deal

\* Such a call takes no default from any realm.
LEMMA FillRealms ==
    ASSUME SyncIInv, GoodRun(ujob), Fill
    PROVE  RealmsKept
<1>1. /\ ujob.todo \in Seq(Changes) /\ ujob.todo # <<>> /\ ujob.pc = "fill"
      /\ KeycloakTypeOK /\ RealmsSound /\ faults \in Nat
  BY DEF GoodRun, UserJob, SoundRun, Fill, SyncIInv, UserCtlTypeOK, ClusterTypeOK
<1>2. Head(ujob.todo) \in Changes /\ Head(ujob.todo) \in ToSet(ujob.todo)
  BY <1>1, HeadElements, HeadTailType
<1>3. AddsDefaults(Head(ujob.todo))
  BY <1>1, <1>2 DEF SyncIInv, FillGoesOn
<1>4. TakesNoDefault(Head(ujob.todo))
  BY <1>3 DEF AddsDefaults, TakesNoDefault
<1>. QED  BY <1>1, <1>2, <1>3, <1>4, DealRealms DEF Fill, AddsDefaults

\* The calls that are left make what is missing; after the last nothing is.
LEMMA FillRun ==
    ASSUME SyncIInv, RealmsKept, KeycloakTypeOK', GoodRun(ujob), ujob # UserIdle, Fill
    PROVE  RunKept
<1>. DEFINE q == ujob.realm
            x == Head(ujob.todo)
            k == ujob.filled
<1>1. /\ ujob \in UserJob /\ ujob.pc = "fill" /\ RunVouched /\ FillGoesOn
      /\ ujob.todo \in Seq(Changes) /\ ujob.todo # <<>>
      /\ k \in 0..Len(DefaultUsers) /\ Len(DefaultUsers) \in Nat
      /\ KeycloakTypeOK /\ RealmsSound /\ faults \in Nat
      /\ Serving \subseteq Serving' /\ (faults' = 0 => faults = 0)
  BY DefaultUsersLength DEF GoodRun, UserJob, SoundRun, Fill, SyncIInv, UserCtlTypeOK,
     ClusterTypeOK, RealmsKept
<1>2. /\ x \in Changes /\ x \in ToSet(ujob.todo)
      /\ ToSet(Tail(ujob.todo)) \subseteq ToSet(ujob.todo)
      /\ \A y \in ToSet(ujob.todo) : \/ y = x
                                     \/ Len(ujob.todo) > 1 /\ y \in ToSet(Tail(ujob.todo))
  BY <1>1, HeadElements, HeadTailType
<1>3. /\ ujob.copy.phase = PhaseAccepted /\ ujob.to = PhaseReconcile
      /\ ujob.realm = Head(ujob.devs)[2].realm
      /\ \A y \in ToSet(ujob.devs) : Vouched(y[2], {PhaseComplete})
      /\ \A y \in ToSet(ujob.todo) : AddsDefaults(y)
  BY <1>1 DEF RunVouched, FillGoesOn
<1>4. PhaseReconcile # PhaseAccepted
  BY DEF PhaseReconcile, PhaseAccepted
<1>5. \/ Abort
      \/ GoOn(Filling) /\ Making(x)
  BY <1>1, <1>2, <1>3, FillMakes DEF Fill
<1>6. CASE GoOn(Filling) /\ Making(x)
  <2>0. /\ ujob'.copy = ujob.copy /\ ujob'.to = ujob.to /\ ujob'.realm = q
        /\ ujob'.devs = ujob.devs /\ ujob'.plan = ujob.plan
    BY <1>1, <1>6 DEF GoOn, Filling, UserJob
  <2>1. PlanTakesNoDefault'
    BY <1>1, <2>0, PlanKept DEF SyncIInv
  <2>2. ASSUME NEW i \in DOMAIN DefaultRoles
        PROVE  \/ <<q, DefaultRoles[i]>> \in roles'
               \/ /\ k = 0 /\ Len(ujob.todo) > 1
                  /\ CreateRole(DefaultRoles[i]) \in ToSet(Tail(ujob.todo))
    BY <1>1, <1>2, <1>6 DEF FillGoesOn, Making
  <2>3. ASSUME DefaultsApart, faults' = 0, NEW i \in DOMAIN DefaultUsers
        PROVE  \/ <<q, DefaultUsers[i].username>> \in accounts'
               \/ i > k
               \/ /\ i = k /\ Len(ujob.todo) > 1
                  /\ CreateUserIn(DefaultUsers[i].username) \in ToSet(Tail(ujob.todo))
    <3>1. DefaultUsers[i].username \in AccountNames
      <4>. DEFINE Record == [username: AccountNames, roles: Seq(RoleNames)]
      <4>1. DefaultUsers \in Seq(Record)
        BY DefaultsAssumption
      <4>2. DefaultUsers[i] \in Record
        <5>. HIDE DEF Record
        <5>. QED  BY <4>1
      <4>. QED  BY <4>2
    <3>. QED  BY <1>1, <1>2, <1>6, <2>3, <3>1 DEF FillGoesOn, Making
  <2>4. CASE Len(ujob.todo) > 1
    <3>1. ujob'.pc = "fill" /\ ujob'.todo = Tail(ujob.todo) /\ ujob'.filled = k
      BY <1>1, <1>6, <2>4 DEF GoOn, Filling, UserJob
    <3>2. FillGoesOn'
      BY <1>2, <1>3, <2>0, <2>2, <2>3, <3>1 DEF FillGoesOn
    <3>3. RunVouched'
      BY <1>1, <1>3, <1>4, <2>0, <3>1 DEF RunVouched, Vouched
    <3>4. ReconcileGoesOn'
      BY <3>1 DEF ReconcileGoesOn, RolesGoOn, AccountsGoOn, Reconciled
    <3>. QED  BY <2>1, <3>2, <3>3, <3>4 DEF RunKept
  <2>5. CASE ~(Len(ujob.todo) > 1) /\ k < Len(DefaultUsers)
    <3>1. /\ ujob'.pc = "fill" /\ ujob'.todo = FillCalls(k + 1)
          /\ ujob'.filled = k + 1
      BY <1>1, <1>6, <2>5 DEF GoOn, Filling, UserJob
    <3>2. k + 1 \in 0..Len(DefaultUsers) /\ k + 1 # 0
      BY <1>1, <2>5
    <3>3. /\ \A y \in ToSet(FillCalls(k + 1)) : AddsDefaults(y)
          /\ CreateUserIn(DefaultUsers[k + 1].username) \in ToSet(FillCalls(k + 1))
      BY <3>2, FillsDefaults
    <3>4. \A i \in DOMAIN DefaultUsers : i > k => i = k + 1 \/ i > k + 1
      BY <1>1
    <3>. HIDE DEF k, x
    <3>5. FillGoesOn'
      <4>1. \A i \in DOMAIN DefaultRoles : <<q, DefaultRoles[i]>> \in roles'
        BY <2>2, <2>5
      <4>2. ASSUME DefaultsApart, faults' = 0, NEW i \in DOMAIN DefaultUsers
            PROVE  \/ <<q, DefaultUsers[i].username>> \in accounts'
                   \/ i > k + 1
                   \/ /\ i = k + 1
                      /\ CreateUserIn(DefaultUsers[i].username) \in ToSet(FillCalls(k + 1))
        BY <2>3, <2>5, <3>3, <3>4, <4>2
      <4>. QED  BY <2>0, <3>1, <3>3, <4>1, <4>2 DEF FillGoesOn
    <3>6. RunVouched'
      BY <1>1, <1>3, <1>4, <2>0, <3>1 DEF RunVouched, Vouched
    <3>7. ReconcileGoesOn'
      BY <3>1 DEF ReconcileGoesOn, RolesGoOn, AccountsGoOn, Reconciled
    <3>. QED  BY <2>1, <3>5, <3>6, <3>7 DEF RunKept
  <2>6. CASE ~(Len(ujob.todo) > 1) /\ ~(k < Len(DefaultUsers))
    <3>1. ujob'.pc = "handOff" /\ ujob'.filled = 0
      BY <1>1, <1>6, <2>6 DEF GoOn, Filling, UserJob
    <3>2. \A i \in DOMAIN DefaultUsers : ~(i > k)
      BY <1>1, <2>6, DefaultUsersLength
    <3>. HIDE DEF k, x
    <3>3. \A i \in DOMAIN DefaultRoles : <<q, DefaultRoles[i]>> \in roles'
      BY <2>2, <2>6
    <3>4. DefaultsApart /\ faults' = 0 =>
             \A i \in DOMAIN DefaultUsers : <<q, DefaultUsers[i].username>> \in accounts'
      BY <2>3, <2>6, <3>2
    <3>5. q \in RealmIds
      <4>1. DefaultRoles # <<>> /\ DefaultRoles \in Seq(RoleNames)
        BY DefaultsAssumption
      <4>2. 1 \in DOMAIN DefaultRoles
        BY <4>1
      <4>3. <<q, DefaultRoles[1]>> \in roles'
        BY <3>3, <4>2
      <4>. QED  BY <4>3 DEF KeycloakTypeOK
    <3>6. q \in Serving'
      BY <3>3, <3>4, <3>5 DEF Serving, HasDefaults, DefaultAccountsIn
    <3>7. RunVouched'
      BY <1>1, <1>3, <1>4, <2>0, <3>1, <3>6 DEF RunVouched, Vouched
    <3>. QED  BY <1>3, <1>4, <2>0, <2>1, <3>1, <3>7, OtherErrand DEF RunKept
  <2>. QED  BY <2>4, <2>5, <2>6
<1>. QED  BY <1>1, <1>5, <1>6, AbortedRun DEF GoodRun

\* The RhpamDev is moved on, the run to the next one or to its end.
LEMMA HandOverRun ==
    ASSUME SyncIInv, RealmsKept, GoodRun(ujob), ujob # UserIdle, HandOver
    PROVE  RunKept
<1>1. /\ ujob \in UserJob /\ ujob.pc = "handOff" /\ ujob.devs # <<>>
      /\ RunVouched /\ ujob.filled = 0 /\ ujob.copy.phase = PhaseAccepted
      /\ ujob.to = PhaseReconcile /\ ujob.realm \in Serving
      /\ Serving \subseteq Serving'
  BY DEF GoodRun, SoundRun, HandOver, SyncIInv, RunVouched, RealmsKept
<1>2. \A x \in ToSet(ujob.devs) : Vouched(x[2], {PhaseComplete})
  BY <1>1 DEF RunVouched
<1>3. ToSet(Tail(ujob.devs)) \subseteq ToSet(ujob.devs)
  BY <1>1, HeadElements DEF UserJob
<1>4. PhaseReconcile # PhaseAccepted
  BY DEF PhaseReconcile, PhaseAccepted
<1>5. ujob' = [ujob EXCEPT !.pc = Following(Tail(ujob.devs)), !.devs = Tail(ujob.devs)]
  BY DEF HandOver, GoOn
<1>6. /\ ujob'.pc \in {"devs", "save"} /\ ujob'.copy = ujob.copy
      /\ ujob'.to = PhaseReconcile /\ ujob'.realm = ujob.realm
      /\ ujob'.devs = Tail(ujob.devs) /\ ujob'.plan = ujob.plan
      /\ ujob'.filled = 0
  BY <1>1, <1>5 DEF UserJob, Following
<1>7. RunVouched'
  BY <1>1, <1>2, <1>3, <1>4, <1>6 DEF RunVouched, Vouched
<1>8. PlanTakesNoDefault'
  BY <1>6, PlanKept DEF SyncIInv, RealmsKept
<1>. QED  BY <1>1, <1>4, <1>6, <1>7, <1>8, OtherErrand DEF RunKept

-----------------------------------------------------------------------------
(* What Reconcile goes through.                                            *)

\* The roles, accounts and mappings a run sees, before and after a step.
LEMMA HereIs ==
    ASSUME KeycloakTypeOK, KeycloakTypeOK', ujob'.realm = ujob.realm
    PROVE  /\ \A r : /\ r \in RolesHere <=> <<ujob.realm, r>> \in roles
                     /\ r \in RolesHere' <=> <<ujob.realm, r>> \in roles'
           /\ \A a : /\ a \in Accounts <=> <<ujob.realm, a>> \in accounts
                     /\ a \in Accounts' <=> <<ujob.realm, a>> \in accounts'
           /\ \A a, r : /\ r \in GrantsHere(a) <=> <<ujob.realm, a, r>> \in grants
                        /\ r \in GrantsHere(a)' <=> <<ujob.realm, a, r>> \in grants'
<1>1. ASSUME NEW gs \in SUBSET (RealmIds \X AccountNames \X RoleNames),
             NEW q, NEW a, NEW r
      PROVE  r \in {g[3] : g \in {h \in gs : h[1] = q /\ h[2] = a}} <=> <<q, a, r>> \in gs
  OBVIOUS
<1>2. \A a, r : /\ r \in GrantsHere(a) <=> <<ujob.realm, a, r>> \in grants
                /\ r \in GrantsHere(a)' <=> <<ujob.realm, a, r>> \in grants'
  BY <1>1 DEF GrantsHere, KeycloakTypeOK
<1>3. \A r : /\ r \in RolesHere <=> <<ujob.realm, r>> \in roles
             /\ r \in RolesHere' <=> <<ujob.realm, r>> \in roles'
  BY InRealmIs DEF RolesHere, KeycloakTypeOK
<1>4. \A a : /\ a \in Accounts <=> <<ujob.realm, a>> \in accounts
             /\ a \in Accounts' <=> <<ujob.realm, a>> \in accounts'
  BY InRealmIs DEF Accounts, KeycloakTypeOK
<1>. QED  BY <1>2, <1>3, <1>4

\* What has become of a change when the run goes on with the next: it was made
\* to the account that was found, or to the one asked for when the lookup
\* failed; or it was a delete that failed.
Done(x) ==
    \/ \E y \in Resolved(ujob.realm, x) : SsoChange(ujob.realm, y)
    \/ x.op = "createUser" /\ SsoChange(ujob.realm, x)
    \/ /\ x.op = "deleteUser" /\ UNCHANGED ssoVars
       /\ faults' = 0 => \E y \in Resolved(ujob.realm, x) : ~Answered(ujob.realm, y)

LEMMA DealDone ==
    ASSUME faults \in Nat, NEW x, NEW next, Deal(x, next)
    PROVE  Abort \/ (GoOn(next) /\ Done(x))
<1>1. ASSUME NEW o \in Outcomes, NEW y \in Resolved(ujob.realm, x), Ask(y, o),
             IF x.op = "deleteUser" \/ (o = "ok" /\ Answered(ujob.realm, y))
             THEN GoOn(next) ELSE Abort
      PROVE  Abort \/ (GoOn(next) /\ Done(x))
  <2>1. faults' = 0 => o = "ok"
    BY <1>1, SufferCounts DEF Ask
  <2>2. CASE o # "failed" /\ Answered(ujob.realm, y)
    BY <1>1, <2>2 DEF Ask, Done
  <2>3. CASE ~(o # "failed" /\ Answered(ujob.realm, y))
    BY <1>1, <2>1, <2>3 DEF Ask, Done
  <2>. QED  BY <2>2, <2>3
<1>. QED  BY <1>1 DEF Deal, Done

\* Lists change nothing in Keycloak.
LEMMA ListDone ==
    ASSUME SyncIInv, NEW next, List(next), UNCHANGED ssoVars
    PROVE  /\ RealmsKept
           /\ Abort \/ GoOn(next)
<1>1. faults \in Nat
  BY DEF SyncIInv, UserCtlTypeOK, ClusterTypeOK
<1>2. faults' = 0 => faults = 0
  BY <1>1, SufferCounts DEF List
<1>. QED  BY <1>2, QuietRealms DEF List, SyncIInv

\* A realm that has the defaults has the default roles.
LEMMA DefaultsHere ==
    ASSUME KeycloakTypeOK, ujob.realm \in Serving
    PROVE  \A r : /\ isDefaultRole(r) <=> r \in ToSet(DefaultRoles)
                  /\ isDefaultRole(r) => r \in RolesHere
<1>1. \A r : isDefaultRole(r) <=> r \in ToSet(DefaultRoles)
  BY DEF isDefaultRole, ToSet
<1>2. \A r : isDefaultRole(r) => <<ujob.realm, r>> \in roles
  BY DEF isDefaultRole, Serving, HasDefaults
<1>3. \A r : <<ujob.realm, r>> \in roles => r \in RolesHere
  BY InRealmIs DEF RolesHere, KeycloakTypeOK
<1>. QED  BY <1>1, <1>2, <1>3

\* The differences of roles are listed.
LEMMA ListRolesRun ==
    ASSUME SyncIInv, GoodRun(ujob), ujob # UserIdle, ListRoles
    PROVE  RealmsKept /\ RunKept
<1>. DEFINE next == [ujob EXCEPT !.pc = IF RolePlan = {} THEN "listUsers" ELSE "roles",
                                 !.plan = RolePlan]
<1>1. /\ ujob \in UserJob /\ ujob.pc = "listRoles" /\ RunVouched
      /\ KeycloakTypeOK /\ UNCHANGED ssoVars
  BY DEF GoodRun, ListRoles, SyncIInv, UserCtlTypeOK
<1>2. RealmsKept /\ (Abort \/ GoOn(next))
  BY ListDone DEF ListRoles
<1>3. CASE Abort
  BY <1>1, <1>2, <1>3, AbortedRun
<1>4. CASE GoOn(next)
  <2>1. /\ SameErrand
        /\ ujob'.plan = RolePlan
        /\ ujob'.pc = IF RolePlan = {} THEN "listUsers" ELSE "roles"
    BY <1>1, <1>4 DEF GoOn, UserJob, SameErrand
  <2>3. RunVouched' /\ FillGoesOn'
    BY <1>1, <1>2, <2>1, ReconcileErrand DEF RealmsKept, Reconciling
  <2>4. \A x \in RolePlan :
           \/ \E r \in WantedRoles : x = CreateRole(r)
           \/ \E r : r \notin WantedRoles /\ ~isDefaultRole(r) /\ x = DeleteRole(r)
    BY DEF RolePlan, WantedRoles
  <2>5. PlanTakesNoDefault'
    BY <2>1, <2>4 DEF PlanTakesNoDefault, TakesNoDefault, CreateRole, DeleteRole
  <2>6. RolesHere' = RolesHere /\ WantedRoles' = WantedRoles
    BY <1>1, <2>1, SameView DEF SameErrand, WantedRoles
  <2>7. RolesGoOn'
    <3>1. /\ \A r \in WantedRoles \ RolesHere : CreateRole(r) \in RolePlan
          /\ \A r \in RolesHere \ WantedRoles :
                isDefaultRole(r) \/ DeleteRole(r) \in RolePlan
      BY DEF RolePlan, WantedRoles
    <3>2. \A x \in RolePlan :
             \/ x.op = "createRole" /\ x.role \in WantedRoles
             \/ x.op = "deleteRole" /\ x.role \notin WantedRoles
      BY <2>4 DEF CreateRole, DeleteRole
    <3>. QED  BY <2>1, <2>6, <3>1, <3>2 DEF RolesGoOn
  <2>8. ASSUME ujob'.pc = "listUsers"
        PROVE  RolesSettled'
    <3>1. RolePlan = {}
      BY <2>1, <2>8
    <3>2. /\ \A r \in WantedRoles : r \in RolesHere
          /\ \A r \in RolesHere \ WantedRoles : isDefaultRole(r)
      BY <3>1 DEF RolePlan, WantedRoles
    <3>3. \A r : /\ isDefaultRole(r) <=> r \in ToSet(DefaultRoles)
                 /\ isDefaultRole(r) => r \in RolesHere
      BY <1>1, DefaultsHere DEF RunVouched
    <3>. QED  BY <2>6, <3>2, <3>3 DEF RolesSettled
  <2>9. ReconcileGoesOn'
    BY <2>1, <2>7, <2>8 DEF ReconcileGoesOn, AccountsGoOn, Reconciled
  <2>. QED  BY <1>2, <2>3, <2>5, <2>9 DEF RunKept
<1>. QED  BY <1>2, <1>3, <1>4

\* A difference of roles is dealt with.
LEMMA ReconcileRoleRun ==
    ASSUME SyncIInv, KeycloakTypeOK', GoodRun(ujob), ujob # UserIdle, ReconcileRole
    PROVE  RealmsKept /\ RunKept
<1>0. /\ ujob \in UserJob /\ ujob.pc = "roles" /\ RunVouched
      /\ KeycloakTypeOK /\ RealmsSound /\ faults \in Nat /\ RolesGoOn
  BY DEF GoodRun, ReconcileRole, SyncIInv, UserCtlTypeOK, ClusterTypeOK,
     ReconcileGoesOn
<1>1. /\ ujob \in UserJob /\ ujob.pc = "roles" /\ RunVouched
      /\ KeycloakTypeOK /\ RealmsSound /\ faults \in Nat /\ RolesGoOn
      /\ ujob.realm \in Serving
  BY <1>0 DEF RunVouched
<1>2. PICK x \in ujob.plan :
          Deal(x, [ujob EXCEPT !.pc = IF ujob.plan = {x} THEN "listUsers" ELSE ujob.pc,
                               !.plan = ujob.plan \ {x}])
  BY DEF ReconcileRole
<1>. DEFINE next == [ujob EXCEPT !.pc = IF ujob.plan = {x} THEN "listUsers" ELSE ujob.pc,
                                 !.plan = ujob.plan \ {x}]
<1>3. /\ x \in Changes /\ TakesNoDefault(x)
      /\ \/ x.op = "createRole" /\ x.role \in WantedRoles
         \/ x.op = "deleteRole" /\ x.role \notin WantedRoles
  BY <1>1 DEF UserJob, SyncIInv, PlanTakesNoDefault, RolesGoOn
<1>4. RealmsKept
  BY <1>1, <1>2, <1>3, DealRealms
<1>5. Abort \/ (GoOn(next) /\ Done(x))
  BY <1>1, <1>2, DealDone
<1>6. CASE Abort
  BY <1>1, <1>4, <1>6, AbortedRun
<1>7. CASE GoOn(next) /\ Done(x)
  <2>1. /\ SameErrand
        /\ ujob'.plan = ujob.plan \ {x}
        /\ ujob'.pc = IF ujob.plan = {x} THEN "listUsers" ELSE "roles"
    BY <1>1, <1>7 DEF GoOn, UserJob, SameErrand
  <2>2. WantedRoles' = WantedRoles
    BY <2>1 DEF SameErrand, WantedRoles
  <2>3. RunVouched' /\ FillGoesOn'
    BY <1>1, <1>4, <2>1, ReconcileErrand DEF RealmsKept, Reconciling
  <2>4. PlanTakesNoDefault'
    BY <1>4, <2>1, PlanKept DEF RealmsKept, SyncIInv
  <2>5. SsoChange(ujob.realm, x)
    <3>1. x \notin AccountChanges
      BY <1>3 DEF AccountChanges
    <3>2. \A y \in Resolved(ujob.realm, x) : y = x
      BY <1>1, <1>3, <3>1, ResolvedIs
    <3>. QED  BY <1>3, <1>7, <3>2 DEF Done
  <2>6. \A r : r \in RolesHere' <=> \/ r \in RolesHere /\ x # DeleteRole(r)
                                    \/ x = CreateRole(r)
    <3>1. x \in RoleChanges
      BY <1>3 DEF Changes, AccountChanges
    <3>2. \A r : /\ x = CreateRole(r) <=> x.op = "createRole" /\ x.role = r
                 /\ x = DeleteRole(r) <=> x.op = "deleteRole" /\ x.role = r
      BY <3>1 DEF RoleChanges, CreateRole, DeleteRole
    <3>3. roles' = IF x.op = "createRole" THEN roles \cup {<<ujob.realm, x.role>>}
                   ELSE roles \ {<<ujob.realm, x.role>>}
      BY <1>3, <2>5 DEF SsoChange
    <3>4. \A r : /\ r \in RolesHere <=> <<ujob.realm, r>> \in roles
                 /\ r \in RolesHere' <=> <<ujob.realm, r>> \in roles'
      BY <1>1, <2>1, HereIs DEF SameErrand
    <3>. QED  BY <1>3, <3>2, <3>3, <3>4
  <2>7. /\ \A r \in WantedRoles \ RolesHere' : CreateRole(r) \in ujob.plan \ {x}
        /\ \A r \in RolesHere' \ WantedRoles :
              isDefaultRole(r) \/ DeleteRole(r) \in ujob.plan \ {x}
    <3>1. \A r \in WantedRoles : x # DeleteRole(r)
      BY <1>3 DEF DeleteRole
    <3>2. \A r : r \notin WantedRoles => x # CreateRole(r)
      BY <1>3 DEF CreateRole
    <3>3. /\ \A r \in WantedRoles \ RolesHere : CreateRole(r) \in ujob.plan
          /\ \A r \in RolesHere \ WantedRoles :
                isDefaultRole(r) \/ DeleteRole(r) \in ujob.plan
      BY <1>1 DEF RolesGoOn
    <3>. QED  BY <2>6, <3>1, <3>2, <3>3
  <2>8. RolesGoOn'
    <3>1. \A y \in ujob.plan \ {x} :
             \/ y.op = "createRole" /\ y.role \in WantedRoles
             \/ y.op = "deleteRole" /\ y.role \notin WantedRoles
      BY <1>1 DEF RolesGoOn
    <3>. QED  BY <2>1, <2>2, <2>7, <3>1 DEF RolesGoOn
  <2>9. ASSUME ujob'.pc = "listUsers"
        PROVE  RolesSettled'
    <3>1. ujob.plan = {x}
      BY <2>1, <2>9
    <3>2. /\ \A r \in WantedRoles : r \in RolesHere'
          /\ \A r \in RolesHere' \ WantedRoles : isDefaultRole(r)
      BY <2>7, <3>1
    <3>3. \A r : /\ isDefaultRole(r) <=> r \in ToSet(DefaultRoles)
                 /\ isDefaultRole(r) => r \in RolesHere
      BY <1>1, DefaultsHere
    <3>4. \A r : isDefaultRole(r) => x # DeleteRole(r)
      BY <1>3 DEF TakesNoDefault, DeleteRole
    <3>. QED  BY <2>2, <2>6, <3>2, <3>3, <3>4 DEF RolesSettled
  <2>10. ReconcileGoesOn'
    BY <2>1, <2>8, <2>9 DEF ReconcileGoesOn, AccountsGoOn, Reconciled
  <2>. QED  BY <1>4, <2>3, <2>4, <2>10 DEF RunKept
<1>. QED  BY <1>5, <1>6, <1>7

\* The differences of accounts that a list shows.
LEMMA UserPlanIs ==
    ASSUME NEW listed
    PROVE  /\ \A a \in DOMAIN Wanted \ listed : CreateUserIn(a) \in UserPlan(listed)
           /\ \A a \in listed \ DOMAIN Wanted :
                 isDefaultUser(a) \/ DeleteUserIn(a) \in UserPlan(listed)
           /\ \A a \in DOMAIN Wanted : \A r \in Wanted[a] :
                 \/ a \in listed /\ r \in GrantsHere(a)
                 \/ Grant(a, r) \in UserPlan(listed)
           /\ \A a \in DOMAIN Wanted \cap listed : \A r \in GrantsHere(a) \ Wanted[a] :
                 Revoke(a, r) \in UserPlan(listed)
           /\ \A x \in UserPlan(listed) :
                 \/ \E a \in DOMAIN Wanted : x = CreateUserIn(a)
                 \/ \E a \in listed \ DOMAIN Wanted :
                       ~isDefaultUser(a) /\ x = DeleteUserIn(a)
                 \/ \E a \in DOMAIN Wanted : \E r \in Wanted[a] : x = Grant(a, r)
                 \/ \E a \in DOMAIN Wanted : \E r : /\ r \notin Wanted[a]
                                                    /\ x = Revoke(a, r)
<1>. DEFINE held(a) == IF a \in listed THEN GrantsHere(a) ELSE {}
            extra == {a \in listed \ DOMAIN Wanted : ~isDefaultUser(a)}
            maps(a) == {Grant(a, r) : r \in Wanted[a] \ held(a)} \cup
                       {Revoke(a, r) : r \in held(a) \ Wanted[a]}
<1>1. UserPlan(listed) = {CreateUserIn(a) : a \in DOMAIN Wanted \ listed} \cup
                         {DeleteUserIn(a) : a \in extra} \cup
                         UNION {maps(a) : a \in DOMAIN Wanted}
  BY DEF UserPlan, Wanted
<1>2. \A x : x \in UserPlan(listed) <=>
                 \/ \E a \in DOMAIN Wanted \ listed : x = CreateUserIn(a)
                 \/ \E a \in extra : x = DeleteUserIn(a)
                 \/ \E a \in DOMAIN Wanted : x \in maps(a)
  <2>. HIDE DEF extra, maps
  <2>. QED  BY <1>1
<1>3. \A a, x : x \in maps(a) <=> \/ \E r \in Wanted[a] \ held(a) : x = Grant(a, r)
                                  \/ \E r \in held(a) \ Wanted[a] : x = Revoke(a, r)
  <2>. HIDE DEF held
  <2>. QED  OBVIOUS
<1>. HIDE DEF maps
<1>. QED  BY <1>2, <1>3

\* The differences of accounts are listed.
LEMMA ListUsersRun ==
    ASSUME SyncIInv, GoodRun(ujob), ujob # UserIdle, ListUsersOfRealm
    PROVE  RealmsKept /\ RunKept
<1>1. /\ ujob \in UserJob /\ ujob.pc = "listUsers" /\ RunVouched /\ RealmsSound
      /\ KeycloakTypeOK /\ UNCHANGED ssoVars /\ RolesSettled
  BY DEF GoodRun, ListUsersOfRealm, SyncIInv, UserCtlTypeOK, ReconcileGoesOn
<1>2. PICK listed \in Pages(ujob.realm) :
          LET plan == UserPlan(listed)
          IN  List([ujob EXCEPT !.pc = IF plan = {} THEN "save" ELSE "users",
                                !.plan = plan, !.now = NoAccount])
  BY DEF ListUsersOfRealm
<1>. DEFINE plan == UserPlan(listed)
            next == [ujob EXCEPT !.pc = IF plan = {} THEN "save" ELSE "users",
                                 !.plan = plan, !.now = NoAccount]
<1>3. RealmsKept /\ (Abort \/ GoOn(next))
  BY <1>1, <1>2, ListDone
<1>4. CASE Abort
  BY <1>1, <1>3, <1>4, AbortedRun
<1>5. CASE GoOn(next)
  <2>. HIDE DEF plan
  <2>1. /\ SameErrand
        /\ ujob'.plan = plan
        /\ ujob'.pc = IF plan = {} THEN "save" ELSE "users"
    BY <1>1, <1>5 DEF GoOn, UserJob, SameErrand
  <2>2. RunVouched' /\ FillGoesOn'
    BY <1>1, <1>3, <2>1, ReconcileErrand DEF RealmsKept, Reconciling
  <2>3. /\ RolesHere' = RolesHere /\ Accounts' = Accounts
        /\ \A a : GrantsHere(a)' = GrantsHere(a)
        /\ WantedRoles' = WantedRoles /\ Wanted' = Wanted
    BY <1>1, <2>1, SameView DEF SameErrand, WantedRoles, Wanted
  <2>4. RolesSettled'
    BY <1>1, <2>3 DEF RolesSettled
  <2>5. /\ listed \subseteq Accounts /\ (OnePage => listed = Accounts)
        /\ \A a : a \in Accounts <=> <<ujob.realm, a>> \in accounts
    BY <1>1, WholePage, InRealmIs DEF Accounts, KeycloakTypeOK
  <2>6. PlanTakesNoDefault'
    <3>1. ASSUME NEW x \in plan
          PROVE  /\ x.op # "deleteRole"
                 /\ x.op = "deleteUser" => x.account \in listed /\ ~isDefaultUser(x.account)
      BY <3>1, UserPlanIs DEF plan, CreateUserIn, DeleteUserIn, Grant, Revoke
    <3>2. ASSUME DefaultsApart, faults' = 0, NEW a \in listed, ~isDefaultUser(a)
          PROVE  Harmless(a)
      <4>. DEFINE p == <<ujob.realm, a>>
      <4>1. p \in accounts /\ p[2] = a
        BY <2>5, <3>2
      <4>. HIDE DEF p
      <4>2. faults = 0
        BY <1>3, <3>2 DEF RealmsKept
      <4>. QED  BY <1>1, <3>2, <4>1, <4>2 DEF RealmsSound
    <3>. QED  BY <2>1, <3>1, <3>2 DEF PlanTakesNoDefault, TakesNoDefault
  <2>7. ASSUME OnePage
        PROVE  AccountsGoOn'
    <3>1. ASSUME NEW x \in plan
          PROVE  PlanFollows(x)'
      BY <2>3, <3>1, UserPlanIs
         DEF plan, PlanFollows, CreateUserIn, DeleteUserIn, Grant, Revoke
    <3>2. \A a : a \notin Accounts => GrantsHere(a) = {}
      <4>1. ASSUME NEW a, NEW r \in GrantsHere(a)
            PROVE  a \in Accounts
        <5>1. PICK g \in grants : g[1] = ujob.realm /\ g[2] = a
          BY <4>1 DEF GrantsHere
        <5>. QED  BY <1>1, <2>5, <5>1 DEF RealmsSound
      <4>. QED  BY <4>1
    <3>3. ASSUME NEW a \in DOMAIN Wanted
          PROVE  /\ a \in Accounts \/ CreateUserIn(a) \in plan
                 /\ \A r \in Wanted[a] \ GrantsHere(a) : Grant(a, r) \in plan
                 /\ \A r \in GrantsHere(a) \ (Wanted[a] \cup BuiltinRoles) :
                       Revoke(a, r) \in plan
      BY <2>5, <2>7, <3>2, <3>3, UserPlanIs DEF plan
    <3>4. ASSUME NEW a \in DOMAIN Wanted
          PROVE  WantedGoesOn(a)'
      BY <2>1, <2>3, <3>3 DEF WantedGoesOn
    <3>5. \A a \in Accounts \ DOMAIN Wanted : isDefaultUser(a) \/ DeleteUserIn(a) \in plan
      BY <2>5, <2>7, UserPlanIs DEF plan
    <3>6. Reconciled' => plan = {}
      BY <2>1 DEF Reconciled
    <3>. QED  BY <2>1, <2>3, <3>1, <3>4, <3>5, <3>6 DEF AccountsGoOn
  <2>8. ReconcileGoesOn'
    BY <2>1, <2>4, <2>7 DEF ReconcileGoesOn, RolesGoOn
  <2>. QED  BY <1>3, <2>2, <2>6, <2>8 DEF RunKept
<1>. QED  BY <1>3, <1>4, <1>5

\* The account found for a name is the one meant, or has another name.
LEMMA ResolvedAccount ==
    ASSUME NEW q, NEW x \in AccountChanges, NEW y \in Resolved(q, x)
    PROVE  /\ y \in AccountChanges /\ y.op = x.op
           /\ \/ y = x
              \/ /\ y.account # x.account
                 /\ y.account \in Containing[x.account]
                 /\ y.account \in AccountNames
<1>1. x.op \notin {"createRole", "deleteRole"} /\ x.account \in AccountNames
  BY DEF AccountChanges
<1>2. CASE y = x
  BY <1>2
<1>3. ASSUME NEW b \in FindUserByUsername(q, x.account), y = [x EXCEPT !.account = b],
             b # x.account
      PROVE  /\ y \in AccountChanges /\ y.op = x.op
             /\ y.account # x.account
             /\ y.account \in Containing[x.account]
             /\ y.account \in AccountNames
  <2>1. b \in Containing[x.account] /\ b \in AccountNames
    BY <1>1, AccountsAssumption DEF FindUserByUsername
  <2>2. y \in AccountChanges /\ y.op = x.op /\ y.account = b
    BY <1>3, <2>1 DEF AccountChanges
  <2>. QED  BY <1>3, <2>1, <2>2
<1>4. ASSUME NEW b, y = [x EXCEPT !.account = b], b = x.account
      PROVE  y = x
  BY <1>4 DEF AccountChanges
<1>5. \/ y = x
      \/ \E b \in FindUserByUsername(q, x.account) : y = [x EXCEPT !.account = b]
  BY <1>1 DEF Resolved
<1>. QED  BY <1>2, <1>3, <1>4, <1>5

\* A search for a clear name finds nothing else, and no other search finds it.
LEMMA ClearResolved ==
    ASSUME NEW q, NEW x \in AccountChanges, NEW y \in Resolved(q, x),
           NEW a \in AccountNames, Clear(a), x.account = a \/ y.account = a
    PROVE  y = x
<1>1. x.account \in AccountNames
  BY DEF AccountChanges
<1>2. \/ y = x
      \/ /\ y.account # x.account
         /\ y.account \in Containing[x.account]
         /\ y.account \in AccountNames
  BY ResolvedAccount
<1>. QED  BY <1>1, <1>2 DEF Clear

\* The state of the accounts after a change, for those it is not about and for
\* the one it is about.
LEMMA AccountsAfter ==
    ASSUME KeycloakTypeOK, KeycloakTypeOK', RealmsSound, SameErrand,
           NEW y \in AccountChanges, SsoChange(ujob.realm, y), NEW a
    PROVE  /\ y.account # a =>
                 /\ a \in Accounts' <=> a \in Accounts
                 /\ \A r : r \in GrantsHere(a)' <=> r \in GrantsHere(a)
           /\ y = CreateUserIn(a) =>
                 /\ a \in Accounts'
                 /\ \A r : /\ r \in GrantsHere(a) => r \in GrantsHere(a)'
                           /\ r \in GrantsHere(a)' => \/ r \in GrantsHere(a)
                                                      \/ r \in BuiltinRoles
           /\ y = DeleteUserIn(a) => a \notin Accounts'
           /\ \A b : y = Grant(a, b) =>
                 /\ a \in Accounts' <=> a \in Accounts
                 /\ \A r : r \in GrantsHere(a)' <=> r \in GrantsHere(a) \/ r = b
           /\ \A b : y = Revoke(a, b) =>
                 /\ a \in Accounts' <=> a \in Accounts
                 /\ \A r : r \in GrantsHere(a)' <=> r \in GrantsHere(a) /\ r # b
<1>. DEFINE q == ujob.realm
<1>1. /\ a \in Accounts <=> <<q, a>> \in accounts
      /\ a \in Accounts' <=> <<q, a>> \in accounts'
      /\ \A r : /\ r \in GrantsHere(a) <=> <<q, a, r>> \in grants
                /\ r \in GrantsHere(a)' <=> <<q, a, r>> \in grants'
  BY HereIs DEF SameErrand
<1>2. y \in Changes
  BY DEF Changes
<1>. HIDE DEF q
<1>3. SsoChange(q, y)
  BY DEF q
<1>4. /\ \A p \in accounts : \/ p \in accounts'
                             \/ y.op = "deleteUser" /\ p = <<q, y.account>>
      /\ \A p \in accounts' : \/ p \in accounts
                              \/ y.op = "createUser" /\ p = <<q, y.account>>
  BY <1>2, <1>3, ChangeTakes, ChangeAdds
<1>5. y.op \notin {"createRole", "deleteRole"}
  BY DEF AccountChanges
<1>6. /\ \A g \in grants : \/ g \in grants'
                           \/ y.op = "deleteUser" /\ g[2] = y.account
                           \/ y.op = "revoke" /\ g = <<q, y.account, y.role>>
      /\ \A g \in grants' :
            \/ g \in grants
            \/ /\ y.op = "createUser"
               /\ \E b \in BuiltinRoles : g = <<q, y.account, b>>
            \/ y.op = "grant" /\ g = <<q, y.account, y.role>>
      /\ y.op = "createUser" => <<q, y.account>> \in accounts'
      /\ y.op = "deleteUser" => <<q, y.account>> \notin accounts'
      /\ y.op = "grant" => <<q, y.account, y.role>> \in grants'
      /\ y.op = "revoke" => <<q, y.account, y.role>> \notin grants'
  BY <1>2, <1>3, <1>5, ChangeTakes, ChangeAdds
<1>7. ASSUME y.account # a
      PROVE  /\ a \in Accounts' <=> a \in Accounts
             /\ \A r : r \in GrantsHere(a)' <=> r \in GrantsHere(a)
  <2>1. a \in Accounts' <=> a \in Accounts
    BY <1>1, <1>4, <1>7
  <2>2. \A r : r \in GrantsHere(a)' <=> r \in GrantsHere(a)
    BY <1>1, <1>6, <1>7
  <2>. QED  BY <2>1, <2>2
<1>8. ASSUME y = CreateUserIn(a)
      PROVE  /\ a \in Accounts'
             /\ \A r : /\ r \in GrantsHere(a) => r \in GrantsHere(a)'
                       /\ r \in GrantsHere(a)' => \/ r \in GrantsHere(a)
                                                  \/ r \in BuiltinRoles
  <2>1. y.op = "createUser" /\ y.account = a
    BY <1>8 DEF CreateUserIn
  <2>. QED  BY <1>1, <1>6, <2>1
<1>9. y = DeleteUserIn(a) => a \notin Accounts'
  BY <1>1, <1>6 DEF DeleteUserIn
<1>10. ASSUME NEW b, y = Grant(a, b)
       PROVE  /\ a \in Accounts' <=> a \in Accounts
              /\ \A r : r \in GrantsHere(a)' <=> r \in GrantsHere(a) \/ r = b
  <2>1. y.op = "grant" /\ y.account = a /\ y.role = b
    BY <1>10 DEF Grant
  <2>. QED  BY <1>1, <1>4, <1>6, <2>1
<1>11. ASSUME NEW b, y = Revoke(a, b)
       PROVE  /\ a \in Accounts' <=> a \in Accounts
              /\ \A r : r \in GrantsHere(a)' <=> r \in GrantsHere(a) /\ r # b
  <2>1. y.op = "revoke" /\ y.account = a /\ y.role = b
    BY <1>11 DEF Revoke
  <2>. QED  BY <1>1, <1>4, <1>6, <2>1
<1>. QED  BY <1>7, <1>8, <1>9, <1>10, <1>11

\* The differences that are left after a change has been made: of a clear name
\* only those that were there before it.
LEMMA AccountsFollow ==
    ASSUME KeycloakTypeOK, KeycloakTypeOK', RealmsSound, SameErrand, AccountsGoOn,
           faults' = 0 => faults = 0, ujob.pc = "users", ujob.copy.spec \in UserSpecs,
           NEW x \in ujob.plan, x \in AccountChanges, ujob'.plan = ujob.plan \ {x},
           Reconciled' => ujob'.plan = {},
           NEW y \in AccountChanges, y.op = x.op, SsoChange(ujob.realm, y),
           \A a \in AccountNames :
              Clear(a) /\ (x.account = a \/ y.account = a) => y = x
    PROVE  AccountsGoOn'
<1>1. /\ \A z \in ujob.plan : PlanFollows(z)
      /\ \A a \in DOMAIN Wanted : Clear(a) => WantedGoesOn(a)
      /\ faults = 0 =>
            \A a \in Accounts \ DOMAIN Wanted : Clear(a) =>
               isDefaultUser(a) \/ DeleteUserIn(a) \in ujob.plan
  BY DEF AccountsGoOn
<1>2. Wanted' = Wanted /\ DOMAIN Wanted \subseteq AccountNames
  BY SpecsAssumption DEF SameErrand, Wanted
<1>3. ASSUME NEW z \in ujob.plan
      PROVE  PlanFollows(z)'
  BY <1>1, <1>2 DEF PlanFollows
<1>4. x \in [op: {"createUser", "deleteUser"}, account: AccountNames] \/
      x \in [op: {"grant", "revoke"}, account: AccountNames, role: RoleNames]
  BY DEF AccountChanges
<1>5. /\ x = CreateUserIn(x.account) \/ x = DeleteUserIn(x.account) \/
         x = Grant(x.account, x.role) \/ x = Revoke(x.account, x.role)
      /\ x.account \in AccountNames
  BY <1>4 DEF CreateUserIn, DeleteUserIn, Grant, Revoke
<1>6. \A a, r : /\ CreateUserIn(a).account = a /\ DeleteUserIn(a).account = a
                /\ Grant(a, r).account = a /\ Revoke(a, r).account = a
                /\ CreateUserIn(a).op = "createUser" /\ DeleteUserIn(a).op = "deleteUser"
                /\ Grant(a, r).op = "grant" /\ Revoke(a, r).op = "revoke"
                /\ Grant(a, r).role = r /\ Revoke(a, r).role = r
  BY DEF CreateUserIn, DeleteUserIn, Grant, Revoke
<1>7. ASSUME NEW a \in DOMAIN Wanted, Clear(a)
      PROVE  WantedGoesOn(a)'
  <2>1. /\ a \in Accounts \/ CreateUserIn(a) \in ujob.plan
        /\ \A r \in Wanted[a] \ GrantsHere(a) : Grant(a, r) \in ujob.plan
        /\ \A r \in GrantsHere(a) \ (Wanted[a] \cup BuiltinRoles) :
              Revoke(a, r) \in ujob.plan
    BY <1>1, <1>7 DEF WantedGoesOn
  <2>2. PlanFollows(x)
    BY <1>1
  <2>3. /\ a \in Accounts' \/ CreateUserIn(a) \in ujob.plan \ {x}
        /\ \A r \in Wanted[a] \ GrantsHere(a)' : Grant(a, r) \in ujob.plan \ {x}
        /\ \A r \in GrantsHere(a)' \ (Wanted[a] \cup BuiltinRoles) :
              Revoke(a, r) \in ujob.plan \ {x}
    <3>1. CASE x.account # a
      <4>1. y.account # a
        BY <1>2, <1>7, <3>1
      <4>2. /\ a \in Accounts' <=> a \in Accounts
            /\ \A r : r \in GrantsHere(a)' <=> r \in GrantsHere(a)
        BY <4>1, AccountsAfter
      <4>. QED  BY <1>6, <2>1, <3>1, <4>2
    <3>2. CASE x.account = a
      <4>1. y = x
        BY <1>2, <1>7, <3>2
      <4>2. CASE x = CreateUserIn(a)
        <5>1. /\ a \in Accounts'
              /\ \A r : /\ r \in GrantsHere(a) => r \in GrantsHere(a)'
                        /\ r \in GrantsHere(a)' => \/ r \in GrantsHere(a)
                                                   \/ r \in BuiltinRoles
          BY <4>1, <4>2, AccountsAfter
        <5>2. \A r : x # Grant(a, r) /\ x # Revoke(a, r)
          BY <1>6, <4>2
        <5>. QED  BY <2>1, <5>1, <5>2
      <4>3. CASE x = Grant(a, x.role)
        <5>1. /\ a \in Accounts' <=> a \in Accounts
              /\ \A r : r \in GrantsHere(a)' <=> r \in GrantsHere(a) \/ r = x.role
          BY <4>1, <4>3, AccountsAfter
        <5>2. x.role \in Wanted[a]
          BY <1>6, <2>2, <3>2, <4>3 DEF PlanFollows
        <5>3. \A r : x # CreateUserIn(a) /\ x # Revoke(a, r)
          BY <1>6, <4>3
        <5>4. \A r : x = Grant(a, r) => r = x.role
          BY <1>6
        <5>. QED  BY <2>1, <5>1, <5>2, <5>3, <5>4
      <4>4. CASE x = Revoke(a, x.role)
        <5>1. /\ a \in Accounts' <=> a \in Accounts
              /\ \A r : r \in GrantsHere(a)' <=> r \in GrantsHere(a) /\ r # x.role
          BY <4>1, <4>4, AccountsAfter
        <5>2. x.role \notin Wanted[a]
          BY <1>6, <2>2, <3>2, <4>4 DEF PlanFollows
        <5>3. \A r : x # CreateUserIn(a) /\ x # Grant(a, r)
          BY <1>6, <4>4
        <5>4. \A r : x = Revoke(a, r) => r = x.role
          BY <1>6
        <5>. QED  BY <2>1, <5>1, <5>2, <5>3, <5>4
      <4>5. CASE x = DeleteUserIn(a)
        BY <1>6, <2>2, <3>2, <4>5 DEF PlanFollows
      <4>. QED  BY <1>5, <3>2, <4>2, <4>3, <4>4, <4>5
    <3>. QED  BY <3>1, <3>2
  <2>. QED  BY <1>2, <2>3 DEF WantedGoesOn
<1>8. ASSUME faults' = 0, NEW a \in Accounts', a \notin DOMAIN Wanted, Clear(a)
      PROVE  isDefaultUser(a) \/ DeleteUserIn(a) \in ujob.plan \ {x}
  <2>0. a \in AccountNames
    <3>1. <<ujob.realm, a>> \in accounts'
      BY <1>8, HereIs DEF SameErrand
    <3>. QED  BY <3>1 DEF KeycloakTypeOK
  <2>1. CASE x.account # a
    <3>1. y.account # a
      BY <1>8, <2>0, <2>1
    <3>2. a \in Accounts
      BY <1>8, <3>1, AccountsAfter
    <3>. QED  BY <1>1, <1>6, <1>8, <2>1, <3>2
  <2>2. CASE x.account = a
    <3>1. y = x /\ PlanFollows(x)
      BY <1>1, <1>8, <2>0, <2>2
    <3>2. x = DeleteUserIn(a)
      BY <1>5, <1>6, <1>8, <2>2, <3>1 DEF PlanFollows
    <3>. QED  BY <1>8, <3>1, <3>2, AccountsAfter
  <2>. QED  BY <2>1, <2>2
<1>. QED  BY <1>2, <1>3, <1>7, <1>8 DEF AccountsGoOn

\* The same when nothing came of a delete.
LEMMA AccountsLeft ==
    ASSUME KeycloakTypeOK, SameErrand, AccountsGoOn, UNCHANGED ssoVars,
           faults' = 0 => faults = 0, ujob.pc = "users",
           NEW x \in ujob.plan, x \in AccountChanges, x.op = "deleteUser",
           ujob'.plan = ujob.plan \ {x}, Reconciled' => ujob'.plan = {},
           faults' = 0 => \E y \in Resolved(ujob.realm, x) : ~Answered(ujob.realm, y)
    PROVE  AccountsGoOn'
<1>1. /\ \A z \in ujob.plan : PlanFollows(z)
      /\ \A a \in DOMAIN Wanted : Clear(a) => WantedGoesOn(a)
      /\ faults = 0 =>
            \A a \in Accounts \ DOMAIN Wanted : Clear(a) =>
               isDefaultUser(a) \/ DeleteUserIn(a) \in ujob.plan
  BY DEF AccountsGoOn
<1>2. /\ Wanted' = Wanted /\ Accounts' = Accounts
      /\ \A a : GrantsHere(a)' = GrantsHere(a)
  BY SameView DEF SameErrand, Wanted
<1>3. ASSUME NEW z \in ujob.plan
      PROVE  PlanFollows(z)'
  BY <1>1, <1>2 DEF PlanFollows
<1>4. ASSUME NEW a \in DOMAIN Wanted, Clear(a)
      PROVE  WantedGoesOn(a)'
  <2>1. \A r : x # CreateUserIn(a) /\ x # Grant(a, r) /\ x # Revoke(a, r)
    BY DEF CreateUserIn, Grant, Revoke
  <2>. QED  BY <1>1, <1>2, <1>4, <2>1 DEF WantedGoesOn
<1>5. ASSUME faults' = 0, NEW a \in Accounts, a \notin DOMAIN Wanted, Clear(a)
      PROVE  isDefaultUser(a) \/ DeleteUserIn(a) \in ujob.plan \ {x}
  <2>1. <<ujob.realm, a>> \in accounts /\ a \in AccountNames
    <3>1. <<ujob.realm, a>> \in accounts
      BY <1>5, InRealmIs DEF Accounts, KeycloakTypeOK
    <3>. QED  BY <3>1 DEF KeycloakTypeOK
  <2>2. CASE x = DeleteUserIn(a)
    <3>1. x.account = a
      BY <2>2 DEF DeleteUserIn
    <3>2. PICK y \in Resolved(ujob.realm, x) : ~Answered(ujob.realm, y)
      BY <1>5
    <3>3. y = x
      BY <1>5, <2>1, <3>1, ClearResolved
    <3>. QED  BY <2>1, <3>1, <3>2, <3>3 DEF Answered
  <2>. QED  BY <1>1, <1>5, <2>2
<1>. QED  BY <1>2, <1>3, <1>4, <1>5 DEF AccountsGoOn

\* A difference of accounts is dealt with.
LEMMA ReconcileAccountRun ==
    ASSUME SyncIInv, KeycloakTypeOK', GoodRun(ujob), ujob # UserIdle, ReconcileAccount
    PROVE  RealmsKept /\ RunKept
<1>0. /\ ujob \in UserJob /\ ujob.pc = "users" /\ RunVouched
      /\ KeycloakTypeOK /\ RealmsSound /\ faults \in Nat
      /\ ujob.plan \subseteq AccountChanges /\ RolesSettled
      /\ (OnePage => AccountsGoOn) /\ ujob.copy.spec \in UserSpecs
  <2>1. ujob \in UserJob /\ SoundRun(ujob) /\ ujob.pc = "users"
    BY DEF GoodRun, ReconcileAccount
  <2>2. ujob.copy.spec \in UserSpecs
    BY <2>1 DEF SoundRun, UserJob, U!Object
  <2>. QED  BY <2>1, <2>2 DEF SoundRun, SyncIInv, UserCtlTypeOK, ClusterTypeOK,
            ReconcileGoesOn
<1>1. ujob.realm \in Serving
  BY <1>0 DEF RunVouched
<1>2. PICK x \in ujob.plan :
          Deal(x, [ujob EXCEPT !.pc = IF ujob.plan = {x} THEN "save" ELSE ujob.pc,
                               !.plan = ujob.plan \ {x}, !.now = x.account])
  BY DEF ReconcileAccount
<1>. DEFINE next == [ujob EXCEPT !.pc = IF ujob.plan = {x} THEN "save" ELSE ujob.pc,
                                 !.plan = ujob.plan \ {x}, !.now = x.account]
<1>3. x \in AccountChanges /\ x \in Changes /\ TakesNoDefault(x)
  BY <1>0 DEF UserJob, SyncIInv, PlanTakesNoDefault
<1>4. RealmsKept
  BY <1>0, <1>1, <1>2, <1>3, DealRealms
<1>5. Abort \/ (GoOn(next) /\ Done(x))
  BY <1>0, <1>2, DealDone
<1>6. CASE Abort
  BY <1>0, <1>4, <1>6, AbortedRun
<1>7. CASE GoOn(next) /\ Done(x)
  <2>1. /\ SameErrand
        /\ ujob'.plan = ujob.plan \ {x}
        /\ ujob'.pc = IF ujob.plan = {x} THEN "save" ELSE "users"
    BY <1>0, <1>7 DEF GoOn, UserJob, SameErrand
  <2>2. RunVouched' /\ FillGoesOn'
    BY <1>0, <1>4, <2>1, ReconcileErrand DEF RealmsKept, Reconciling
  <2>3. PlanTakesNoDefault'
    BY <1>4, <2>1, PlanKept DEF RealmsKept, SyncIInv
  <2>4. \A y \in Resolved(ujob.realm, x) : y \in AccountChanges /\ y.op = x.op
    BY <1>3, ResolvedAccount
  <2>5. RolesSettled'
    <3>1. roles' = roles
      <4>1. ASSUME NEW y \in AccountChanges, SsoChange(ujob.realm, y)
            PROVE  roles' = roles
        BY <4>1 DEF SsoChange, AccountChanges
      <4>. QED  BY <1>3, <1>7, <2>4, <4>1 DEF Done, ssoVars
    <3>2. RolesHere' = RolesHere /\ WantedRoles' = WantedRoles
      BY <2>1, <3>1 DEF SameErrand, RolesHere, WantedRoles
    <3>. QED  BY <1>0, <3>2 DEF RolesSettled
  <2>6. faults' = 0 => faults = 0
    BY <1>4 DEF RealmsKept
  <2>7. Reconciled' => ujob'.plan = {}
    BY <2>1 DEF Reconciled
  <2>8. ASSUME OnePage
        PROVE  AccountsGoOn'
    <3>1. ASSUME NEW y \in Resolved(ujob.realm, x), SsoChange(ujob.realm, y)
          PROVE  AccountsGoOn'
      <4>1. \A a \in AccountNames :
               Clear(a) /\ (x.account = a \/ y.account = a) => y = x
        BY <1>0, <1>3, ClearResolved
      <4>. QED  BY <1>0, <1>3, <2>1, <2>4, <2>6, <2>7, <2>8, <3>1, <4>1, AccountsFollow
    <3>2. ASSUME SsoChange(ujob.realm, x)
          PROVE  AccountsGoOn'
      BY <1>0, <1>3, <2>1, <2>6, <2>7, <2>8, <3>2, AccountsFollow
    <3>3. ASSUME x.op = "deleteUser", UNCHANGED ssoVars,
                 faults' = 0 =>
                    \E y \in Resolved(ujob.realm, x) : ~Answered(ujob.realm, y)
          PROVE  AccountsGoOn'
      BY <1>0, <1>3, <2>1, <2>6, <2>7, <2>8, <3>3, AccountsLeft
    <3>. QED  BY <1>7, <3>1, <3>2, <3>3 DEF Done
  <2>9. ReconcileGoesOn'
    BY <2>1, <2>5, <2>8 DEF ReconcileGoesOn, RolesGoOn
  <2>. QED  BY <1>4, <2>2, <2>3, <2>9 DEF RunKept
<1>. QED  BY <1>5, <1>6, <1>7
-----------------------------------------------------------------------------
(* What Deprovision goes through.                                          *)

\* The accounts to delete are listed: none is a default one, and no default
\* one is found for the name of another.
LEMMA PurgeRun ==
    ASSUME SyncIInv, GoodRun(ujob), ujob # UserIdle, Purge
    PROVE  RealmsKept /\ RunKept
<1>1. PICK listed \in Pages(ujob.realm) :
         LET found == {DeleteUserIn(a) : a \in {a \in listed : ~isDefaultUser(a)}}
         IN  List([ujob EXCEPT
                     !.pc = IF found = {} THEN "listPurge" ELSE "purgeUsers",
                     !.plan = found])
  BY DEF Purge
<1>. DEFINE found == {DeleteUserIn(a) : a \in {a \in listed : ~isDefaultUser(a)}}
            next == [ujob EXCEPT
                       !.pc = IF found = {} THEN "listPurge" ELSE "purgeUsers",
                       !.plan = found]
<1>2. /\ ujob \in UserJob /\ ujob.pc = "purge"
      /\ KeycloakTypeOK /\ UNCHANGED ssoVars
  BY DEF GoodRun, Purge, SyncIInv, UserCtlTypeOK
<1>3. RealmsKept /\ (Abort \/ GoOn(next))
  BY <1>1, <1>2, ListDone
<1>4. \A a \in listed : <<ujob.realm, a>> \in accounts
  <2>1. listed \subseteq InRealm(ujob.realm, accounts)
    BY DEF Pages
  <2>. QED  BY <1>2, <2>1, InRealmIs DEF KeycloakTypeOK
<1>5. \A x \in found : /\ x.op = "deleteUser"
                       /\ DefaultsApart /\ faults = 0 => Harmless(x.account)
  <2>1. ASSUME NEW a \in listed, ~isDefaultUser(a), DefaultsApart, faults = 0
        PROVE  Harmless(a)
    BY <1>4, <2>1 DEF SyncIInv, RealmsSound
  <2>. QED  BY <2>1 DEF DeleteUserIn
<1>. HIDE DEF found
<1>6. CASE Abort
  BY <1>2, <1>3, <1>6, AbortedRun
<1>7. CASE GoOn(next)
  <2>1. /\ SameErrand
        /\ ujob'.plan = found
        /\ ujob'.pc \in {"listPurge", "purgeUsers"}
    BY <1>2, <1>7 DEF GoOn, UserJob, SameErrand
  <2>2. PlanTakesNoDefault'
    BY <1>3, <1>5, <2>1 DEF PlanTakesNoDefault, TakesNoDefault, RealmsKept
  <2>. QED  BY <1>2, <1>3, <1>5, <2>1, <2>2, PurgeErrand DEF Purging, RealmsKept
<1>. QED  BY <1>3, <1>6, <1>7

\* The roles to delete are listed, or nothing is.
LEMMA ListPurgeRun ==
    ASSUME SyncIInv, GoodRun(ujob), ujob # UserIdle, ListPurge
    PROVE  RealmsKept /\ RunKept
<1>. DEFINE found == {DeleteRole(r) : r \in {r \in RolesHere : ~isDefaultRole(r)}}
            next(plan) == [ujob EXCEPT !.pc = IF plan = {} THEN "save" ELSE "purgeRoles",
                                       !.plan = plan]
<1>1. PICK o \in {"ok", "failed"} :
         Suffer(o) /\ GoOn(next(IF o = "ok" THEN found ELSE {}))
  BY DEF ListPurge
<1>2. /\ ujob \in UserJob /\ ujob.pc = "listPurge" /\ UNCHANGED ssoVars
      /\ faults \in Nat
  BY DEF GoodRun, ListPurge, SyncIInv, UserCtlTypeOK, ClusterTypeOK
<1>3. RealmsKept
  BY <1>1, <1>2, SufferCounts, QuietRealms DEF SyncIInv
<1>4. \A x \in found : x.op = "deleteRole" /\ ~isDefaultRole(x.role)
  BY DEF DeleteRole
<1>. HIDE DEF found
<1>5. PICK plan \in SUBSET found : GoOn(next(plan))
  BY <1>1
<1>6. /\ SameErrand
      /\ ujob'.plan = plan
      /\ ujob'.pc \in {"save", "purgeRoles"}
  BY <1>2, <1>5 DEF GoOn, UserJob, SameErrand
<1>7. PlanTakesNoDefault'
  BY <1>4, <1>6 DEF PlanTakesNoDefault, TakesNoDefault
<1>. QED  BY <1>2, <1>3, <1>4, <1>6, <1>7, PurgeErrand DEF Purging, RealmsKept

\* One account or role that is not a default is deleted by its id.
LEMMA PurgeCallRun ==
    ASSUME SyncIInv, GoodRun(ujob), ujob # UserIdle, PurgeCall
    PROVE  RealmsKept /\ RunKept
<1>1. PICK x \in ujob.plan, o \in Outcomes :
        /\ Ask(x, o)
        /\ \/ GoOn([ujob EXCEPT
                      !.pc = IF ujob.plan # {x} THEN @
                             ELSE IF @ = "purgeUsers" THEN "listPurge"
                             ELSE "save",
                      !.plan = @ \ {x}])
           \/ Abort
  BY DEF PurgeCall
<1>2. /\ ujob \in UserJob /\ ujob.pc \in {"purgeUsers", "purgeRoles"}
      /\ faults \in Nat /\ RealmsSound /\ TakesNoDefault(x)
      /\ \A y \in ujob.plan : y.op \in {"deleteUser", "deleteRole"}
  BY DEF GoodRun, PurgeCall, SyncIInv, UserCtlTypeOK, ClusterTypeOK, PlanTakesNoDefault,
     RunVouched
<1>3. x \in Changes
  BY <1>2 DEF UserJob
<1>4. RealmsKept
  <2>1. ASSUME Answered(ujob.realm, x)
        PROVE  SoundChange(ujob.realm, x)
    <3>1. ASSUME x.op = "deleteUser", Harmless(x.account)
          PROVE  ~isDefaultUser(x.account)
      <4>1. x.account \in AccountNames
        BY <1>3, <3>1 DEF Changes, RoleChanges, AccountChanges
      <4>. QED  BY <3>1, <4>1, AccountsAssumption DEF Harmless
    <3>2. faults' = 0 => faults = 0
      BY <1>1, <1>2, SufferCounts DEF Ask
    <3>. QED  BY <1>2, <3>1, <3>2 DEF TakesNoDefault, SoundChange
  <2>. QED  BY <1>1, <1>2, <1>3, <2>1, AskRealms
<1>5. CASE Abort
  BY <1>2, <1>4, <1>5, AbortedRun
<1>6. ASSUME GoOn([ujob EXCEPT
                     !.pc = IF ujob.plan # {x} THEN @
                            ELSE IF @ = "purgeUsers" THEN "listPurge"
                            ELSE "save",
                     !.plan = @ \ {x}])
      PROVE  RunKept
  <2>1. /\ SameErrand
        /\ ujob'.plan = ujob.plan \ {x}
        /\ ujob'.pc \in {"purgeUsers", "purgeRoles", "listPurge", "save"}
    BY <1>2, <1>6 DEF GoOn, UserJob, SameErrand
  <2>2. PlanTakesNoDefault'
    BY <1>4, <2>1, PlanKept DEF RealmsKept, SyncIInv
  <2>. QED  BY <1>2, <1>4, <2>1, <2>2, PurgeErrand DEF Purging, RealmsKept
<1>. QED  BY <1>1, <1>4, <1>5, <1>6
-----------------------------------------------------------------------------
(* The steps.                                                              *)

\* What every step keeps.
StepKeeps ==
    /\ RealmsKept /\ RunKept
    /\ DevWrite /\ CacheRead
    /\ ObjectsVouched'

\* A step that writes no object.
LEMMA ObjectsLeft ==
    ASSUME ObjectsVouched, Serving \subseteq Serving',
           UNCHANGED <<devVars, user, userCache, userWatch>>
    PROVE  DevWrite /\ CacheRead /\ ObjectsVouched'
<1>1. DevWrite /\ CacheRead
  BY DEF DevWrite, CacheRead, devVars
<1>2. /\ \A d \in Devs : DevVersions(d)' = DevVersions(d)
      /\ \A u \in Users : UserVersions(u)' = UserVersions(u)
  BY DEF DevVersions, UserVersions, Versions, devVars
<1>. QED  BY <1>1, <1>2, VouchedAfter

\* The phase a run ends with says that a realm was filled only if one was.
LEMMA PutUserKeeps ==
    ASSUME SyncIInv, GoodRun(ujob), ujob # UserIdle, SaveUser \/ FailUser
    PROVE  StepKeeps
<1>1. /\ ujob.name \in Users /\ ujob.copy \in U!Object
      /\ ujob.to \in StatusPhase /\ ujob.realm \in Realms
      /\ U!TypeOK /\ faults \in Nat /\ RunVouched /\ RealmsSound /\ ObjectsVouched
  BY DEF GoodRun, UserJob, SyncIInv, UserCtlTypeOK, ClusterTypeOK
<1>2. UNCHANGED <<devVars, userCache, ssoVars>>
  BY DEF SaveUser, FailUser
<1>3. SavedUser \in U!Object /\ (SavedUser.phase = PhaseReconcile => ujob.to = PhaseReconcile)
  BY <1>1 DEF SavedUser, U!Object, StatusPhase
<1>4. [ujob.copy EXCEPT !.phase = PhaseDeprovisionFailed] \in U!Object
  BY <1>1 DEF U!Object, StatusPhase
<1>5. [ujob.copy EXCEPT !.phase = PhaseDeprovisionFailed].phase # PhaseReconcile
  BY <1>1 DEF U!Object, PhaseDeprovisionFailed, PhaseReconcile
<1>6. ASSUME SaveUser, SavedUser.phase = PhaseReconcile
      PROVE  SavedUser.realm \in Serving
  <2>1. ujob.realm \in Serving
    BY <1>1, <1>3, <1>6 DEF SaveUser, RunVouched
  <2>2. ujob.realm # NoRealm
    BY <2>1, NoRealmAssumption DEF Serving
  <2>3. SavedUser.realm = ujob.realm
    BY <1>1, <2>2 DEF SavedUser, U!Object
  <2>. QED  BY <2>1, <2>3
<1>7. PICK v \in U!Object, o \in Outcomes :
         /\ Suffer(o) /\ PutUser(v, o)
         /\ v.phase = PhaseReconcile => v.realm \in Serving
  <2>1. CASE SaveUser
    BY <1>3, <1>6, <2>1 DEF SaveUser
  <2>2. CASE FailUser
    BY <1>4, <1>5, <2>2 DEF FailUser
  <2>. QED  BY <2>1, <2>2
<1>8. RealmsKept
  BY <1>1, <1>2, <1>7, SufferCounts, QuietRealms
<1>9. RunKept
  BY IdleRun DEF SaveUser, FailUser, GoOn, RequeueUser
<1>10. DevWrite /\ CacheRead
  BY <1>2 DEF DevWrite, CacheRead, devVars
<1>11. ObjectsVouched'
  <2>1. \A d \in Devs : DevVersions(d)' = DevVersions(d)
    BY <1>2 DEF DevVersions, Versions, devVars
  <2>2. \A e \in Users : \A w \in UserVersions(e)' :
           \/ w \in UserVersions(e)
           \/ w.phase = NoPhase
           \/ w.phase = v.phase /\ w.realm = v.realm
    <3>1. CASE U!Update(ujob.name, v)
      BY <1>1, <1>2, <3>1, UserUpdateWrites
    <3>2. CASE UNCHANGED <<user, userWatch>>
      BY <1>2, <3>2 DEF UserVersions, Versions
    <3>. QED  BY <1>7, <3>1, <3>2 DEF PutUser
  <2>3. \A e \in Users : \A w \in UserVersions(e)' :
           \/ w \in UserVersions(e)
           \/ w.phase = PhaseReconcile => w.realm \in Serving
    BY <1>7, <2>2 DEF NoPhase, PhaseReconcile
  <2>. QED  BY <1>1, <1>8, <2>1, <2>3, VouchedAfter DEF RealmsKept
<1>. QED  BY <1>8, <1>9, <1>10, <1>11 DEF StepKeeps

\* A RhpamDev is moved on when its realm has been filled.
LEMMA HandOverKeeps ==
    ASSUME SyncIInv, GoodRun(ujob), ujob # UserIdle, HandOver
    PROVE  StepKeeps
<1>. DEFINE d == Head(ujob.devs)[1]
            copy == Head(ujob.devs)[2]
            v == [copy EXCEPT !.phase = PhasePrepare]
<1>1. /\ ujob.devs \in Seq(Devs \X D!Object) /\ ujob.devs # <<>>
      /\ ujob.pc = "handOff" /\ RunVouched
      /\ D!TypeOK /\ faults \in Nat /\ RealmsSound /\ ObjectsVouched
  BY DEF GoodRun, SoundRun, UserJob, HandOver, SyncIInv, UserCtlTypeOK, ClusterTypeOK
<1>2. ujob.realm \in Serving /\ ujob.realm = copy.realm
  BY <1>1 DEF RunVouched
<1>3. Head(ujob.devs) \in Devs \X D!Object
  BY <1>1, HeadTailType
<1>4. v \in D!Object /\ v.realm = copy.realm
  <2>1. copy \in D!Object
    BY <1>3
  <2>. HIDE DEF copy
  <2>. QED  BY <2>1 DEF D!Object, StatusPhase
<1>5. UNCHANGED <<devCache, user, userCache, userWatch, ssoVars>>
  BY DEF HandOver
<1>6. PICK o \in Outcomes :
        /\ Suffer(o)
        /\ D!Update(d, v) \/ UNCHANGED <<dev, devWatch>>
  BY DEF HandOver
<1>7. RealmsKept
  BY <1>1, <1>5, <1>6, SufferCounts, QuietRealms
<1>8. RunKept
  BY <1>7, HandOverRun
<1>9. CASE UNCHANGED <<dev, devWatch>>
  <2>1. DevWrite /\ CacheRead
    BY <1>9, <1>5 DEF DevWrite, CacheRead
  <2>2. /\ \A e \in Devs : DevVersions(e)' = DevVersions(e)
        /\ \A u \in Users : UserVersions(u)' = UserVersions(u)
    BY <1>5, <1>9 DEF DevVersions, UserVersions, Versions
  <2>. QED  BY <1>1, <1>7, <1>8, <2>1, <2>2, VouchedAfter DEF RealmsKept, StepKeeps
<1>10. CASE D!Update(d, v)
  <2>1. d \in Devs
    BY <1>3
  <2>. HIDE DEF d, v
  <2>2. /\ DevWrite /\ CacheRead
        /\ \A e \in Devs : \A w \in DevVersions(e)' :
              \/ w \in DevVersions(e)
              \/ w.phase = NoPhase
              \/ w.phase = v.phase /\ w.realm = v.realm
    BY <1>1, <1>4, <1>5, <1>10, <2>1, DevUpdateWrites
  <2>3. \A e \in Devs : \A w \in DevVersions(e)' :
           \/ w \in DevVersions(e)
           \/ w.phase \in HandedOver => w.realm \in Serving
    BY <1>2, <1>4, <2>2 DEF NoPhase, HandedOver, PhasePrepare, PhaseComplete
  <2>4. \A u \in Users : UserVersions(u)' = UserVersions(u)
    BY <1>5 DEF UserVersions, Versions
  <2>. QED  BY <1>1, <1>7, <1>8, <2>2, <2>3, <2>4, VouchedAfter DEF RealmsKept, StepKeeps
<1>. QED  BY <1>6, <1>9, <1>10

\* The steps of the controller.
LEMMA ControllerKeeps ==
    ASSUME SyncIInv, KeycloakTypeOK', UserController
    PROVE  StepKeeps
<1>0. RealmsSound /\ ObjectsVouched /\ UserCtlTypeOK /\ UserRunSound
  BY DEF SyncIInv
<1>1. ASSUME RealmsKept, RunKept, UNCHANGED <<devVars, user, userCache, userWatch>>
      PROVE  StepKeeps
  BY <1>0, <1>1, ObjectsLeft DEF RealmsKept, StepKeeps
<1>2. ASSUME NEW u \in Users, UserHandler(u)
      PROVE  StepKeeps
  <2>1. UNCHANGED <<devVars, user, userCache, userWatch, budget, ssoVars>>
    BY <1>0, <1>2, UserHandlerType DEF SyncIInv
  <2>2. RealmsKept
    BY <1>0, <2>1, QuietRealms DEF budget
  <2>. QED  BY <1>1, <1>2, <2>1, <2>2, StartedRun DEF RealmsKept
<1>3. ASSUME UserCall
      PROVE  StepKeeps
  <2>1. ujob # UserIdle /\ GoodRun(ujob)
    BY <1>0, <1>3, RunAtCall
  <2>2. CASE NextDev
    <3>1. UNCHANGED <<devVars, user, userCache, userWatch, budget, ssoVars>>
      BY <2>2 DEF NextDev
    <3>2. RealmsKept
      BY <1>0, <3>1, QuietRealms DEF budget
    <3>. QED  BY <1>1, <2>1, <2>2, <3>1, <3>2, NextDevRun
  <2>3. CASE Fill
    <3>1. UNCHANGED <<devVars, user, userCache, userWatch>>
      BY <2>3 DEF Fill
    <3>. QED  BY <1>1, <2>1, <2>3, <3>1, FillRealms, FillRun
  <2>4. CASE HandOver
    BY <2>1, <2>4, HandOverKeeps
  <2>5. CASE \/ ListRoles \/ ListUsersOfRealm \/ ReconcileRole \/ ReconcileAccount
             \/ Purge \/ ListPurge \/ PurgeCall
    <3>1. UNCHANGED <<devVars, user, userCache, userWatch>>
      BY <2>5 DEF ListRoles, ListUsersOfRealm, ReconcileRole, ReconcileAccount,
         Purge, ListPurge, PurgeCall
    <3>2. RealmsKept /\ RunKept
      BY <2>1, <2>5, ListRolesRun, ListUsersRun, ReconcileRoleRun,
         ReconcileAccountRun, PurgeRun, ListPurgeRun, PurgeCallRun
    <3>. QED  BY <1>1, <3>1, <3>2
  <2>6. CASE FailUser \/ SaveUser
    BY <2>1, <2>6, PutUserKeeps
  <2>. QED  BY <1>3, <2>2, <2>3, <2>4, <2>5, <2>6 DEF UserCall
<1>. QED  BY <1>2, <1>3 DEF UserController
\* The steps of users, informers, the other controller, and crashes.
LEMMA SurroundingsKeep ==
    ASSUME SyncIInv, Surroundings
    PROVE  /\ StepKeeps
           /\ ClusterTypeOK'
           /\ ujob' \in {ujob, UserIdle}
<1>0. /\ D!TypeOK /\ U!TypeOK /\ ClusterTypeOK /\ faults \in Nat
      /\ RealmsSound /\ ObjectsVouched
      /\ UNCHANGED ssoVars
  BY DEF SyncIInv, UserCtlTypeOK, ClusterTypeOK, Surroundings
<1>1. ASSUME UNCHANGED <<ujob, faults>>
      PROVE  RealmsKept /\ RunKept
  <2>1. RealmsKept
    BY <1>0, <1>1, QuietRealms
  <2>. QED  BY <1>0, <1>1, <2>1, UntouchedRun DEF RealmsKept
<1>2. ASSUME NEW u \in Users, UNCHANGED ujob,
             \/ CreateUser(u) \/ EditUser(u) \/ DeleteUser(u)
             \/ DeliverUser(u) \/ ResyncUser(u)
      PROVE  StepKeeps /\ ClusterTypeOK'
  <2>1. UNCHANGED <<devVars, faults>>
    BY <1>2 DEF CreateUser, EditUser, DeleteUser, DeliverUser, ResyncUser, budget
  <2>2. RealmsKept /\ RunKept
    BY <1>1, <1>2, <2>1
  <2>3. DevWrite /\ CacheRead
    BY <2>1 DEF DevWrite, CacheRead, devVars
  <2>4. \A d \in Devs : DevVersions(d)' = DevVersions(d)
    BY <2>1 DEF DevVersions, Versions, devVars
  <2>5. \A e \in Users : \A w \in UserVersions(e)' :
           \/ w \in UserVersions(e)
           \/ w.phase = NoPhase
           \/ \E v \in UserVersions(e) : w.phase = v.phase /\ w.realm = v.realm
    BY <1>0, <1>2, UserStepWrites
       DEF CreateUser, EditUser, DeleteUser, DeliverUser, ResyncUser
  <2>6. \A e \in Users : \A v \in UserVersions(e) :
           v.phase = PhaseReconcile => v.realm \in Serving
    BY <1>0 DEF ObjectsVouched, Vouched, UserVersions, Versions
  <2>7. \A e \in Users : \A w \in UserVersions(e)' :
           w.phase = PhaseReconcile => w.realm \in Serving
    <3>1. NoPhase # PhaseReconcile
      BY DEF NoPhase, PhaseReconcile
    <3>. QED  BY <2>5, <2>6, <3>1
  <2>8. ObjectsVouched'
    BY <1>0, <2>2, <2>4, <2>7, VouchedAfter DEF RealmsKept
  <2>9. ClusterTypeOK'
    BY <1>0, <1>2, ClusterUsersType, InformersType
  <2>. QED  BY <2>2, <2>3, <2>8, <2>9 DEF StepKeeps
<1>3. ASSUME NEW d \in Devs, UNCHANGED ujob, DeliverDev(d)
      PROVE  StepKeeps /\ ClusterTypeOK'
  <2>1. UNCHANGED <<userVars, faults, dev>>
    BY <1>3 DEF DeliverDev, D!Deliver, budget
  <2>2. RealmsKept /\ RunKept
    BY <1>1, <1>3, <2>1
  <2>3. PICK v \in devWatch[d] :
           /\ devCache' = [devCache EXCEPT ![d] = v]
           /\ devWatch' = [devWatch EXCEPT ![d] = devWatch[d] \ {v}]
    BY <1>3 DEF DeliverDev, D!Deliver
  <2>4. DevWrite /\ CacheRead
    BY <1>0, <2>1, <2>3 DEF DevWrite, CacheRead, D!TypeOK
  <2>5. \A e \in Devs : \A w \in DevVersions(e)' : w \in DevVersions(e)
    BY <1>0, <2>1, <2>3 DEF DevVersions, Versions, D!TypeOK
  <2>6. \A e \in Users : UserVersions(e)' = UserVersions(e)
    BY <2>1 DEF UserVersions, Versions, userVars
  <2>7. ObjectsVouched'
    BY <1>0, <2>2, <2>5, <2>6, VouchedAfter DEF RealmsKept
  <2>8. ClusterTypeOK'
    BY <1>0, <1>3, InformersType
  <2>. QED  BY <2>2, <2>4, <2>7, <2>8 DEF StepKeeps
<1>4. ASSUME NEW d \in Devs, UNCHANGED ujob, Install(d)
      PROVE  StepKeeps /\ ClusterTypeOK'
  <2>. DEFINE v == [dev[d] EXCEPT !.phase = PhaseComplete]
  <2>1. /\ UNCHANGED <<devCache, devQueue, userVars, resVars, budget>>
        /\ dev[d].phase = PhasePrepare /\ D!Update(d, v)
    BY <1>4 DEF Install
  <2>2. v \in D!Object /\ v.realm = dev[d].realm
    BY <1>0 DEF D!TypeOK, D!Object, StatusPhase
  <2>3. dev[d].realm \in Serving
    BY <1>0, <2>1 DEF ObjectsVouched, Vouched, HandedOver
  <2>. HIDE DEF v
  <2>4. RealmsKept /\ RunKept
    BY <1>1, <1>4, <2>1 DEF budget
  <2>5. /\ DevWrite /\ CacheRead
        /\ \A e \in Devs : \A w \in DevVersions(e)' :
              \/ w \in DevVersions(e)
              \/ w.phase = NoPhase
              \/ w.phase = v.phase /\ w.realm = v.realm
    BY <1>0, <2>1, <2>2, DevUpdateWrites
  <2>6. \A e \in Devs : \A w \in DevVersions(e)' :
           \/ w \in DevVersions(e)
           \/ w.phase \in HandedOver => w.realm \in Serving
    BY <2>2, <2>3, <2>5 DEF NoPhase, HandedOver, PhasePrepare, PhaseComplete
  <2>7. \A e \in Users : UserVersions(e)' = UserVersions(e)
    BY <2>1 DEF UserVersions, Versions, userVars
  <2>8. ObjectsVouched'
    BY <1>0, <2>4, <2>6, <2>7, VouchedAfter DEF RealmsKept
  <2>9. D!TypeOK'
    BY <1>0, <2>1, <2>2, DevUpdateType DEF D!TypeOK
  <2>10. ClusterTypeOK'
    BY <1>0, <2>1, <2>9 DEF ClusterTypeOK, U!TypeOK, userVars, resVars, budget
  <2>. QED  BY <2>4, <2>5, <2>8, <2>10 DEF StepKeeps
<1>5. ASSUME RestartCluster, ujob' = UserIdle
      PROVE  StepKeeps /\ ClusterTypeOK'
  <2>1. RealmsKept
    BY <1>0, <1>5, SufferCounts, QuietRealms DEF RestartCluster
  <2>2. RunKept
    BY <1>5, IdleRun
  <2>3. /\ dev' = dev /\ devCache' = dev /\ devWatch' = [d \in Devs |-> {}]
        /\ user' = user /\ userCache' = user /\ userWatch' = [u \in Users |-> {}]
    BY <1>5 DEF RestartCluster, D!Relist, U!Relist
  <2>4. DevWrite /\ CacheRead
    BY <2>3 DEF DevWrite, CacheRead
  <2>5. /\ \A d \in Devs : \A w \in DevVersions(d)' : w \in DevVersions(d)
        /\ \A u \in Users : \A w \in UserVersions(u)' : w \in UserVersions(u)
    BY <2>3 DEF DevVersions, UserVersions, Versions
  <2>6. ObjectsVouched'
    BY <1>0, <2>1, <2>5, VouchedAfter DEF RealmsKept
  <2>7. ClusterTypeOK'
    BY <1>0, <1>5, RestartType
  <2>. QED  BY <2>1, <2>2, <2>4, <2>6, <2>7 DEF StepKeeps
<1>. QED  BY <1>2, <1>3, <1>4, <1>5 DEF Surroundings

\* Every step keeps the invariant.
LEMMA SyncInductive ==
    ASSUME SyncIInv, [SyncNext]_userCtlVars
    PROVE  SyncIInv'
<1>0. /\ UserCtlTypeOK /\ D!CopiesSound /\ UserRunSound /\ RealmsSound /\ ObjectsVouched
      /\ D!TypeOK /\ KeycloakTypeOK
      /\ ujob = UserIdle \/ GoodRun(ujob)
  BY DEF SyncIInv, UserCtlTypeOK, ClusterTypeOK, UserRunSound, GoodRun
<1>1. ASSUME StepKeeps, UserCtlTypeOK', ujob' = UserIdle \/ GoodRun(ujob')
      PROVE  SyncIInv'
  <2>1. DevWrite /\ CacheRead /\ D!TypeOK'
    BY <1>1 DEF StepKeeps, UserCtlTypeOK, ClusterTypeOK
  <2>2. D!CopiesSound'
    BY <1>0, <2>1, CopiesAfter
  <2>3. UserRunSound'
    <3>1. CASE ujob' = UserIdle
      BY <3>1 DEF UserRunSound
    <3>2. CASE GoodRun(ujob')
      <4>1. \A x \in ToSet(ujob'.devs) : x \in Devs \X D!Object
        <5>1. ujob'.devs \in Seq(Devs \X D!Object)
          BY <3>2 DEF GoodRun, UserJob
        <5>. QED  BY <5>1 DEF ToSet
      <4>2. \A x \in ToSet(ujob'.devs) : D!Sound(x[1], x[2])'
        BY <1>0, <2>1, <3>2, <4>1, SoundAfter DEF GoodRun, SoundRun
      <4>. QED  BY <3>2, <4>2 DEF UserRunSound, GoodRun, SoundRun
    <3>. QED  BY <1>1, <3>1, <3>2
  <2>. QED  BY <1>1, <2>2, <2>3 DEF StepKeeps, SyncIInv, RealmsKept, RunKept
<1>2. CASE UserController
  <2>1. UserCtlTypeOK' /\ (ujob' = UserIdle \/ GoodRun(ujob'))
    BY <1>0, <1>2, UserControllerStep
  <2>2. KeycloakTypeOK'
    BY <2>1 DEF UserCtlTypeOK
  <2>. QED  BY <1>1, <1>2, <2>1, <2>2, ControllerKeeps
<1>3. ASSUME StepKeeps, ClusterTypeOK', ujob' \in {ujob, UserIdle}, UNCHANGED ssoVars
      PROVE  SyncIInv'
  <2>1. KeycloakTypeOK'
    BY <1>0, <1>3 DEF KeycloakTypeOK, ssoVars
  <2>2. UserCtlTypeOK'
    BY <1>0, <1>3, <2>1 DEF UserCtlTypeOK
  <2>. QED  BY <1>0, <1>1, <1>3, <2>2
<1>4. CASE Surroundings
  BY <1>3, <1>4, SurroundingsKeep DEF Surroundings
<1>5. CASE UNCHANGED userCtlVars
  <2>1. UNCHANGED <<devVars, userVars, resVars, budget, ssoVars, ujob>>
    BY <1>5 DEF userCtlVars
  <2>2. RealmsKept
    BY <1>0, <2>1, QuietRealms DEF budget
  <2>3. RunKept
    BY <2>1, <2>2, UntouchedRun DEF RealmsKept, budget
  <2>4. StepKeeps
    BY <1>0, <2>1, <2>2, <2>3, ObjectsLeft DEF RealmsKept, StepKeeps, userVars
  <2>5. ClusterTypeOK'
    BY <1>0, <2>1 DEF UserCtlTypeOK, ClusterTypeOK, D!TypeOK, U!TypeOK, devVars,
       userVars, resVars, budget
  <2>. QED  BY <1>3, <2>1, <2>4, <2>5
<1>. QED  BY <1>2, <1>4, <1>5 DEF SyncNext

\* The default users are accounts with roles.
LEMMA DefaultsTyped ==
    ASSUME NEW x \in ToSet(DefaultUsers)
    PROVE  /\ x.username \in AccountNames /\ isDefaultUser(x.username)
           /\ ToSet(x.roles) \subseteq RoleNames
<1>. DEFINE Record == [username: AccountNames, roles: Seq(RoleNames)]
<1>1. DefaultUsers \in Seq(Record)
  BY DefaultsAssumption
<1>2. PICK i \in DOMAIN DefaultUsers : x = DefaultUsers[i]
  BY DEF ToSet
<1>3. x \in Record
  <2>. HIDE DEF Record
  <2>. QED  BY <1>1, <1>2
<1>4. \A j \in DOMAIN x.roles : x.roles[j] \in RoleNames
  BY <1>3
<1>. QED  BY <1>2, <1>3, <1>4 DEF isDefaultUser, ToSet

\* A realm as it is at first, and as Accepted leaves it.
LEMMA FirstRealm ==
    ASSUME NEW r \in RealmIds, realms = {r}, clients = {r} \X ClientIds, lastToken = 1,
           NEW filled \in BOOLEAN, IF filled THEN Filled(r) ELSE Empty(r)
    PROVE  /\ KeycloakTypeOK /\ RealmsSound
           /\ filled => r \in Serving
<1>1. BuiltinRoles \subseteq RoleNames /\ ToSet(DefaultRoles) \subseteq RoleNames
  BY BuiltinRolesAssumption, DefaultsAssumption DEF ToSet
<1>2. CASE ~filled
  <2>1. KeycloakTypeOK
    BY <1>1, <1>2 DEF Empty, KeycloakTypeOK
  <2>2. RealmsSound
    BY <1>2 DEF Empty, RealmsSound
  <2>. QED  BY <1>2, <2>1, <2>2
<1>3. ASSUME Filled(r)
      PROVE  KeycloakTypeOK /\ RealmsSound /\ r \in Serving
  <2>1. /\ roles = {r} \X (BuiltinRoles \cup ToSet(DefaultRoles))
        /\ accounts = {r} \X {x.username : x \in ToSet(DefaultUsers)}
        /\ grants = UNION {{<<r, x.username, role>> :
                               role \in BuiltinRoles \cup ToSet(x.roles)} :
                           x \in ToSet(DefaultUsers)}
    BY <1>3 DEF Filled
  <2>2. ASSUME NEW g \in grants
        PROVE  /\ g \in RealmIds \X AccountNames \X RoleNames
               /\ <<g[1], g[2]>> \in accounts
    <3>1. PICK x \in ToSet(DefaultUsers) :
             g \in {<<r, x.username, role>> : role \in BuiltinRoles \cup ToSet(x.roles)}
      BY <2>1
    <3>2. PICK role \in BuiltinRoles \cup ToSet(x.roles) : g = <<r, x.username, role>>
      BY <3>1
    <3>3. x.username \in AccountNames /\ role \in RoleNames
      BY <1>1, <3>2, DefaultsTyped
    <3>. QED  BY <2>1, <3>2, <3>3
  <2>3. ASSUME NEW p \in accounts
        PROVE  /\ p \in RealmIds \X AccountNames
               /\ isDefaultUser(p[2])
    <3>1. PICK x \in ToSet(DefaultUsers) : p = <<r, x.username>>
      BY <2>1
    <3>. QED  BY <3>1, DefaultsTyped
  <2>4. KeycloakTypeOK
    <3>1. grants \subseteq RealmIds \X AccountNames \X RoleNames
      BY <2>2
    <3>2. accounts \subseteq RealmIds \X AccountNames
      BY <2>3
    <3>. QED  BY <1>1, <2>1, <3>1, <3>2 DEF KeycloakTypeOK
  <2>5. RealmsSound
    BY <2>2, <2>3 DEF RealmsSound
  <2>6. \A i \in DOMAIN DefaultRoles : <<r, DefaultRoles[i]>> \in roles
    BY <2>1 DEF ToSet
  <2>7. \A i \in DOMAIN DefaultUsers : <<r, DefaultUsers[i].username>> \in accounts
    BY <2>1 DEF ToSet
  <2>. QED  BY <2>4, <2>5, <2>6, <2>7 DEF Serving, HasDefaults, DefaultAccountsIn
<1>. QED  BY <1>2, <1>3

\* The first states.
LEMMA SyncFirst ==
    ASSUME SyncInit
    PROVE  SyncIInv
<1>1. PICK d \in Devs, phase \in {PhaseRealmProvisioned, PhaseComplete} :
        LET r == <<d, 1>>
            provisioned == [D!Created(1, NoSpec) EXCEPT
                               !.fin = TRUE, !.phase = phase, !.realm = r]
        IN  /\ dev = [e \in Devs |-> IF e = d THEN provisioned ELSE D!Absent(0)]
            /\ res = [x \in Resources |-> [owner |-> d, uid |-> 1, realm |-> r]]
            /\ realms = {r} /\ clients = {r} \X ClientIds
            /\ IF phase = PhaseComplete THEN Filled(r) ELSE Empty(r)
  BY DEF SyncInit
<1>. DEFINE r == <<d, 1>>
            first == [D!Created(1, NoSpec) EXCEPT
                         !.fin = TRUE, !.phase = phase, !.realm = r]
<1>2. /\ devCache = dev /\ devWatch = [e \in Devs |-> {}] /\ devQueue = {}
      /\ U!Init /\ seen = Typed /\ dbReady = TRUE /\ writes = 0 /\ faults = 0
      /\ lastToken = 1 /\ ujob = UserIdle
  BY DEF SyncInit
<1>3. r \in RealmIds /\ r \in Realms
  BY DEF RealmIds, Realms
<1>4. first \in D!Object /\ first.phase = phase /\ first.realm = r
  BY <1>3 DEF D!Created, D!Absent, D!Object, StatusPhase
<1>5. D!Absent(0) \in D!Object /\ D!Absent(0).phase = NoPhase
  BY DEF D!Absent, D!Object, StatusPhase, Realms
<1>6. U!Absent(0) \in U!Object /\ U!Absent(0).phase = NoPhase
  BY DEF U!Absent, U!Object, StatusPhase, Realms
<1>7. KeycloakTypeOK /\ RealmsSound /\ (phase = PhaseComplete => r \in Serving)
  <2>1. (phase = PhaseComplete) \in BOOLEAN
    OBVIOUS
  <2>. QED  BY <1>1, <1>2, <1>3, <2>1, FirstRealm
<1>. HIDE DEF first
<1>8. dev = [e \in Devs |-> IF e = d THEN first ELSE D!Absent(0)]
  BY <1>1 DEF first
<1>9. D!TypeOK /\ U!TypeOK
  BY <1>2, <1>4, <1>5, <1>6, <1>8 DEF D!TypeOK, U!TypeOK, U!Init
<1>10. ClusterTypeOK
  <2>1. [owner |-> d, uid |-> 1, realm |-> r] \in Held
    BY <1>3 DEF Held
  <2>. QED  BY <1>1, <1>2, <1>9, <2>1, BoundsAssumption DEF ClusterTypeOK
<1>11. D!CopiesSound
  <2>1. \A e \in Devs : D!Sound(e, dev[e])
    BY <1>9 DEF D!Sound, D!TypeOK, D!Object
  <2>. QED  BY <1>2, <2>1 DEF D!CopiesSound
<1>12. ObjectsVouched
  <2>1. \A e \in Devs : Vouched(dev[e], HandedOver)
    <3>1. phase \in HandedOver => phase = PhaseComplete
      BY DEF HandedOver, PhasePrepare, PhaseRealmProvisioned
    <3>2. NoPhase \notin HandedOver
      BY DEF HandedOver, PhasePrepare, PhaseComplete, NoPhase
    <3>. QED  BY <1>4, <1>5, <1>7, <1>8, <3>1, <3>2 DEF Vouched
  <2>2. \A u \in Users : Vouched(user[u], {PhaseReconcile})
    BY <1>2, <1>6 DEF U!Init, Vouched, NoPhase, PhaseReconcile
  <2>. QED  BY <1>2, <2>1, <2>2 DEF ObjectsVouched, U!Init
<1>13. /\ UserRunSound /\ RunVouched /\ PlanTakesNoDefault
       /\ FillGoesOn /\ ReconcileGoesOn
  BY <1>2 DEF UserIdle, UserRunSound, RunVouched, PlanTakesNoDefault, FillGoesOn,
     ReconcileGoesOn
<1>. QED  BY <1>2, <1>7, <1>10, <1>11, <1>12, <1>13 DEF SyncIInv, UserCtlTypeOK

-----------------------------------------------------------------------------
(* The theorems.                                                           *)

\* What every run leaves, half done or not, is something the next run can
\* start from, and so is what it finds on its way.
THEOREM SyncInvariant == SyncSpec => []SyncIInv
<1>1. SyncInit => SyncIInv
  BY SyncFirst
<1>2. SyncIInv /\ [SyncNext]_userCtlVars => SyncIInv'
  BY SyncInductive
<1>. QED  BY <1>1, <1>2, PTL DEF SyncSpec

\* The RhpamUser controller keeps objects, realms and its run of the right
\* shape.
THEOREM SyncTypes == SyncSpec => []UserCtlTypeOK
<1>1. SyncIInv => UserCtlTypeOK
  BY DEF SyncIInv
<1>. QED  BY <1>1, SyncInvariant, PTL

\* A realm that was handed over has its default accounts, whatever accounts
\* the searches of later runs find, as long as no search for a default
\* account finds another one.
THEOREM SyncDefaultAccountsStay ==
    ASSUME DefaultsApart
    PROVE  SyncSpec => []DefaultAccountsStay
<1>1. SyncIInv => DefaultAccountsStay
  <2>. SUFFICES ASSUME SyncIInv, faults = 0, NEW d \in Devs,
                       dev[d].phase \in {PhasePrepare, PhaseComplete}
                PROVE  DefaultAccountsIn(dev[d].realm)
    BY DEF DefaultAccountsStay, DefaultAccountsIn
  <2>1. dev[d].realm \in Serving
    BY DEF SyncIInv, ObjectsVouched, Vouched, HandedOver
  <2>. QED  BY <2>1 DEF Serving, HasDefaults
<1>. QED  BY <1>1, SyncInvariant, PTL

\* A run of Reconcile that has made all its calls leaves the roles of its
\* specification and, of the accounts with clear names, those of the
\* specification with their roles, in a realm whose accounts fit on a page.
THEOREM SyncRunReconciles ==
    ASSUME OnePage
    PROVE  SyncSpec => []RunReconciles
<1>1. SyncIInv => RunReconciles
  <2>. SUFFICES ASSUME SyncIInv, Reconciled
                PROVE  RunReconciles
    BY DEF RunReconciles
  <2>1. ujob # UserIdle
    BY DEF Reconciled, UserIdle
  <2>2. /\ RolesSettled
        /\ ujob.plan = {}
        /\ \A a \in DOMAIN Wanted : Clear(a) => WantedGoesOn(a)
        /\ faults = 0 =>
              \A a \in Accounts \ DOMAIN Wanted : Clear(a) =>
                 isDefaultUser(a) \/ DeleteUserIn(a) \in ujob.plan
    BY <2>1 DEF SyncIInv, ReconcileGoesOn, AccountsGoOn
  <2>3. ASSUME NEW a \in DOMAIN Wanted, Clear(a)
        PROVE  a \in Accounts /\ HasRoles(a, Wanted[a]) /\ OnlyRoles(a, Wanted[a])
    BY <2>2, <2>3 DEF WantedGoesOn, HasRoles, OnlyRoles
  <2>. QED  BY <2>2, <2>3 DEF RunReconciles, RolesSettled, WantedRoles, Wanted
<1>. QED  BY <1>1, SyncInvariant, PTL
==============================================================================
