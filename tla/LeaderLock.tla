----------------------------- MODULE LeaderLock -----------------------------
(***************************************************************************)
(* The pods of the operator's Deployment and the lock ConfigMap that is to *)
(* let one of them run the controllers.  main calls leader.Become and goes *)
(* on whatever it returns.  A pod that goes on becomes ready, and that is  *)
(* what the Deployment waits for before it deletes the pod of an older     *)
(* template.                                                               *)
(*                                                                         *)
(* A pod is known by a name that is used once.  Its process may end at any *)
(* time and is started again in the same pod.  The kubelet may evict a pod: *)
(* its process ends for good, but the Pod object stays until it is deleted. *)
(***************************************************************************)
EXTENDS Naturals, TLAPS

CONSTANTS
    Pods,       \* names of pods
    NoPod,      \* the owner of a lock that does not exist
    MaxFailures \* bound: calls that fail or lose their answer

ASSUME NoPodAssumption == NoPod \notin Pods
ASSUME MaxFailuresAssumption == MaxFailures \in Nat

VARIABLES
    pod,        \* [Pods -> where the process of the pod is in main]
    lock,       \* the owner of the lock ConfigMap, or NoPod
    failures    \* calls that failed so far

lockVars == <<pod, lock, failures>>

\* Not created; looking for an old lock; trying to create one; running the
\* controllers; evicted; deleted.
Places == {"none", "lookup", "create", "run", "failed", "gone"}

LockTypeOK ==
    /\ pod \in [Pods -> Places]
    /\ lock \in Pods \cup {NoPod}
    /\ failures \in 0..MaxFailures

LockInit ==
    /\ pod = [p \in Pods |-> "none"]
    /\ lock = NoPod
    /\ failures = 0

Alive(p) == pod[p] \in {"lookup", "create", "run"}
Ready(p) == pod[p] = "run"

Go(p, place) == pod' = [pod EXCEPT ![p] = place]

Fail == failures < MaxFailures /\ failures' = failures + 1

-----------------------------------------------------------------------------
(* leader.Become.  An error ends it, and main proceeds.                    *)

\* myOwnerRef and the lookup of a lock this pod left before it was restarted.
\* A faulty lookup would take any lock for its own, or none.
LookupAny(p) ==
    /\ pod[p] = "lookup"
    /\ Go(p, IF lock = NoPod THEN "create" ELSE "run")
    /\ UNCHANGED <<lock, failures>>

LookupNone(p) ==
    /\ pod[p] = "lookup"
    /\ Go(p, "create")
    /\ UNCHANGED <<lock, failures>>

Lookup(p) ==
    /\ pod[p] = "lookup"
    /\ Go(p, IF lock = p THEN "run" ELSE "create")
    /\ UNCHANGED <<lock, failures>>

LookupFails(p) ==
    /\ pod[p] = "lookup"
    /\ Fail
    /\ Go(p, "run")
    /\ UNCHANGED lock

\* While the lock exists the create is tried again, without end.
CreateLock(p) ==
    /\ pod[p] = "create"
    /\ lock = NoPod
    /\ lock' = p
    /\ Go(p, "run")
    /\ UNCHANGED failures

\* The create fails without effect, or the pod does not learn that it owns
\* the lock.
CreateLockFails(p) ==
    /\ pod[p] = "create"
    /\ Fail
    /\ lock' \in {lock, IF lock = NoPod THEN p ELSE lock}
    /\ Go(p, "run")

Become(p) == Lookup(p) \/ LookupFails(p) \/ CreateLock(p) \/ CreateLockFails(p)

-----------------------------------------------------------------------------
(* The cluster.                                                            *)

\* A pod is created, with the Deployment, for one that failed or was deleted,
\* or by a rolling update: one replica, and one more while it is updated.  A
\* pod that failed does not count.
StartPod(p) ==
    /\ pod[p] = "none"
    /\ \E q \in Pods : \A r \in Pods \ {q} : ~Alive(r)
    /\ Go(p, "lookup")
    /\ UNCHANGED <<lock, failures>>

\* The process ends and is started again in its pod.
Restart(p) ==
    /\ Alive(p)
    /\ Go(p, "lookup")
    /\ UNCHANGED <<lock, failures>>

\* A rolling update deletes the older pod once the newer one is ready.
Retire(p) ==
    /\ Alive(p)
    /\ \E q \in Pods \ {p} : Ready(q)
    /\ Go(p, "gone")
    /\ UNCHANGED <<lock, failures>>

\* The kubelet evicts a pod, for want of memory or disk: the pod fails.
Evict(p) ==
    /\ Alive(p)
    /\ Go(p, "failed")
    /\ UNCHANGED <<lock, failures>>

\* A pod is deleted: by hand, with its node, by an eviction through the API.
DeletePod(p) ==
    /\ Alive(p) \/ pod[p] = "failed"
    /\ Go(p, "gone")
    /\ UNCHANGED <<lock, failures>>

\* The garbage collector deletes a lock whose owner is gone.  A Pod object that
\* failed is still there.
CollectLock ==
    /\ lock # NoPod
    /\ pod[lock] = "gone"
    /\ lock' = NoPod
    /\ UNCHANGED <<pod, failures>>

LockNext ==
    \/ \E p \in Pods :
          \/ Become(p) \/ StartPod(p) \/ Restart(p)
          \/ Retire(p) \/ Evict(p) \/ DeletePod(p)
    \/ CollectLock

LockSpec == LockInit /\ [][LockNext]_lockVars

\* Processes go on and the garbage collector collects; nothing is assumed of
\* failures, restarts, evictions, deletions and updates.
LockFairness ==
    /\ \A p \in Pods : WF_lockVars(Lookup(p) \/ CreateLock(p))
    /\ WF_lockVars(CollectLock)

FairLockSpec == LockSpec /\ LockFairness

-----------------------------------------------------------------------------
(* Properties.                                                             *)

\* As long as no call of Become has failed, one pod at most runs the
\* controllers: through restarts, evictions, deletions, updates and late
\* collections of the lock.
OneRuns ==
    failures = 0 => \A p, q \in Pods : Ready(p) /\ Ready(q) => p = q

\* The lock tells who runs, unless a call has failed; it is that of a pod
\* that has been started.
LockIInv ==
    /\ LockTypeOK
    /\ failures = 0 => \A p \in Pods : Ready(p) => lock = p
    /\ lock # NoPod => pod[lock] # "none"

\* While a pod waits, the operator goes on: a pod waits for ever only beside
\* one that has the lock and comes back to running the controllers as often as
\* it is restarted.  No pod waits for its own lock, for that of a deleted pod
\* or for one that waits too.  The exception is the lock of a pod that failed:
\* it is never collected unless someone deletes that pod, and until then
\* nobody runs the controllers.
WaitsBesideALeader ==
    \A p \in Pods :
        <>[](pod[p] = "create") =>
            \/ []<>(lock # NoPod /\ Ready(lock))
            \/ <>[](lock # NoPod /\ pod[lock] = "failed")

-----------------------------------------------------------------------------
(* What the comments of the code say of it.                                *)

\* main.go: "Become the leader before proceeding".
LeadsBeforeProceeding ==
    \A p \in Pods : Ready(p) => lock = p

-----------------------------------------------------------------------------
(* The lock does what it is there for, for any number of pods, restarts,   *)
(* evictions, deletions and updates.                                       *)

\* The invariant holds of the empty cluster.
LEMMA LockInitInv == LockInit => LockIInv
BY NoPodAssumption, MaxFailuresAssumption
   DEF LockInit, LockIInv, LockTypeOK, Places, Ready

\* Every step of a pod keeps it.
LEMMA LockPodStep ==
    ASSUME NEW p \in Pods, LockIInv,
           Become(p) \/ StartPod(p) \/ Restart(p) \/ Retire(p) \/ Evict(p) \/ DeletePod(p)
    PROVE  LockIInv'
<1> USE NoPodAssumption, MaxFailuresAssumption
        DEF LockIInv, LockTypeOK, Places, Ready, Alive, Go, Fail
<1>1. CASE Lookup(p)
  BY <1>1 DEF Lookup
<1>2. CASE LookupFails(p)
  BY <1>2 DEF LookupFails
<1>3. CASE CreateLock(p)
  BY <1>3 DEF CreateLock
<1>4. CASE CreateLockFails(p)
  BY <1>4 DEF CreateLockFails
<1>5. CASE StartPod(p)
  BY <1>5 DEF StartPod
<1>6. CASE Restart(p)
  BY <1>6 DEF Restart
<1>7. CASE Retire(p) \/ Evict(p) \/ DeletePod(p)
  BY <1>7 DEF Retire, Evict, DeletePod
<1> QED
  BY <1>1, <1>2, <1>3, <1>4, <1>5, <1>6, <1>7 DEF Become

\* So does a collection of the lock: its owner runs nothing any more.
LEMMA LockNextInv == LockIInv /\ [LockNext]_lockVars => LockIInv'
<1> SUFFICES ASSUME LockIInv, [LockNext]_lockVars PROVE LockIInv'
  OBVIOUS
<1>1. CASE CollectLock
  BY <1>1, NoPodAssumption DEF CollectLock, LockIInv, LockTypeOK, Places, Ready
<1>2. ASSUME NEW p \in Pods,
             Become(p) \/ StartPod(p) \/ Restart(p) \/ Retire(p) \/ Evict(p) \/ DeletePod(p)
      PROVE  LockIInv'
  BY <1>2, LockPodStep
<1>3. CASE UNCHANGED lockVars
  BY <1>3 DEF lockVars, LockIInv, LockTypeOK, Ready
<1> QED
  BY <1>1, <1>2, <1>3 DEF LockNext

\* The lock tells who runs the controllers, unless a call has failed.
THEOREM LockInvariant == LockSpec => []LockIInv
<1> QED
  BY LockInitInv, LockNextInv, PTL DEF LockSpec

\* Unless a call of leader.Become has failed, one pod at most runs the
\* controllers.
THEOREM LockOneRuns == LockSpec => []OneRuns
<1>1. LockIInv => OneRuns
  BY DEF LockIInv, OneRuns
<1> QED
  BY <1>1, LockInvariant, PTL
=============================================================================
