----------------------------- MODULE ApiObjects -----------------------------
(***************************************************************************)
(* The custom resources of one kind as the operator sees them: the objects *)
(* stored by the Kubernetes API server, the watch stream of their          *)
(* versions, the informer cache the controllers read from and the work     *)
(* queue the informer feeds.  The module is instantiated once per kind.    *)
(*                                                                         *)
(* A stored object that is gone stays as a tombstone (exists = FALSE), so  *)
(* resource versions keep growing when an object is created again under    *)
(* the same name, as they do in etcd.                                      *)
(***************************************************************************)
EXTENDS Naturals

CONSTANTS
    Names,      \* object names of this kind in the operator's namespace
    StatusPhase,\* the phases a status may carry
    NoPhase,    \* the zero value of a status phase
    Realms,     \* the realms a status may name
    NoRealm,    \* the zero value of a status realm
    Specs,      \* the specifications a user may give an object
    NoSpec      \* stands in for the specification of an absent object

VARIABLES
    obj,        \* [Names -> Object]: what the API server stores
    cache,      \* [Names -> Object]: what the informer cache holds
    watch,      \* [Names -> SUBSET Object]: versions not yet in the cache
    queue       \* SUBSET Names: keys waiting for the controller's worker

\* An object that exists has a specification.
Object ==
    {x \in [exists: BOOLEAN, uid: Nat, rv: Nat, deleting: BOOLEAN,
            fin: BOOLEAN, phase: StatusPhase, realm: Realms,
            spec: Specs \cup {NoSpec}] : x.exists => x.spec \in Specs}

\* The tombstone an object leaves at resource version rv.
Absent(rv) == [exists |-> FALSE, uid |-> 0, rv |-> rv, deleting |-> FALSE,
               fin |-> FALSE, phase |-> NoPhase, realm |-> NoRealm,
               spec |-> NoSpec]

\* A new object: the uid is the resource version of its creation.
Created(rv, s) == [Absent(rv) EXCEPT !.exists = TRUE, !.uid = rv, !.spec = s]

TypeOK ==
    /\ obj \in [Names -> Object]
    /\ cache \in [Names -> Object]
    /\ watch \in [Names -> SUBSET Object]
    /\ queue \in SUBSET Names

Init ==
    /\ obj = [n \in Names |-> Absent(0)]
    /\ cache = [n \in Names |-> Absent(0)]
    /\ watch = [n \in Names |-> {}]
    /\ queue = {}

-----------------------------------------------------------------------------
(* Writes.  Every write is a new version that the watch will deliver.      *)

Store(n, v) ==
    /\ obj' = [obj EXCEPT ![n] = v]
    /\ watch' = [watch EXCEPT ![n] = @ \cup {v}]

\* Optimistic concurrency: an update is accepted only against the stored
\* resource version; otherwise it is answered with Conflict or NotFound.
Accepts(n, copy) ==
    /\ obj[n].exists
    /\ obj[n].rv = copy.rv

\* What an accepted update of n to v leaves behind: nothing new when v
\* changes nothing, a tombstone when v drops the finalizer of an object that
\* is being deleted, v under a new resource version otherwise.
Result(n, v) ==
    IF v = obj[n] THEN v
    ELSE IF v.deleting /\ ~v.fin THEN Absent(obj[n].rv + 1)
    ELSE [v EXCEPT !.rv = obj[n].rv + 1]

Update(n, v) ==
    IF Result(n, v) = obj[n] THEN UNCHANGED <<obj, watch>>
    ELSE Store(n, Result(n, v))

\* Users of the cluster create, edit and delete objects at any moment.
UserCreate(n) ==
    /\ ~obj[n].exists
    /\ \E s \in Specs : Store(n, Created(obj[n].rv + 1, s))
    /\ UNCHANGED <<cache, queue>>

\* Any edit outside the status (labels, annotations, spec).
UserEdit(n) ==
    /\ obj[n].exists
    /\ \E s \in Specs : Store(n, [obj[n] EXCEPT !.rv = @ + 1, !.spec = s])
    /\ UNCHANGED <<cache, queue>>

\* A finalizer turns a deletion into a deletion timestamp.
UserDelete(n) ==
    /\ obj[n].exists
    /\ ~obj[n].deleting
    /\ Store(n, IF obj[n].fin
                THEN [obj[n] EXCEPT !.rv = @ + 1, !.deleting = TRUE]
                ELSE Absent(obj[n].rv + 1))
    /\ UNCHANGED <<cache, queue>>

-----------------------------------------------------------------------------
(* The informer and the work queue.                                        *)

\* The oldest version the watch has not delivered yet reaches the cache and
\* its key the queue (add, update and delete events alike).
Deliver(n) ==
    /\ \E v \in watch[n] :
          /\ \A w \in watch[n] : v.rv <= w.rv
          /\ cache' = [cache EXCEPT ![n] = v]
          /\ watch' = [watch EXCEPT ![n] = @ \ {v}]
    /\ queue' = queue \cup {n}
    /\ UNCHANGED obj

\* The periodic resync replays a cached object as an update event.
Resync(n) ==
    /\ cache[n].exists
    /\ n \notin queue
    /\ queue' = queue \cup {n}
    /\ UNCHANGED <<obj, cache, watch>>

\* A restarted operator lists the objects before its workers start; every
\* listed object is an add event.
Relist ==
    /\ cache' = obj
    /\ watch' = [n \in Names |-> {}]
    /\ queue' = {n \in Names : obj[n].exists}
    /\ UNCHANGED obj

-----------------------------------------------------------------------------
(* What optimistic concurrency rests on: a copy v of object n that carries *)
(* the stored resource version is the stored object, and no copy is newer. *)

Sound(n, v) ==
    /\ v.rv <= obj[n].rv
    /\ v.rv = obj[n].rv => v = obj[n]

CopiesSound ==
    \A n \in Names :
        /\ Sound(n, cache[n])
        /\ \A v \in watch[n] : Sound(n, v)
=============================================================================
