------------------------------ MODULE DevAlone ------------------------------
(***************************************************************************)
(* The RhpamDev controller among the users of the cluster, its informers,  *)
(* the garbage collector and crashes.  The RhpamUser controller appears as *)
(* what it does to a RhpamDev: it moves one on whose realm is filled       *)
(* (HandOff), and its RhpamUsers name the realm (Attach).                  *)
(***************************************************************************)
EXTENDS RhpamDev

\* The accepted update with which the RhpamUser controller moves a RhpamDev
\* on once it has filled the realm; its answer may be lost.
HandOff(d) ==
    /\ dev[d].exists
    /\ dev[d].phase = PhaseRealmProvisioned
    /\ \E o \in {"ok", "lost"} : Suffer(o)
    /\ D!Update(d, [dev[d] EXCEPT !.phase = PhasePrepare])
    /\ UNCHANGED <<devCache, devQueue, userVars, resVars, writes, ssoVars, job>>

\* A RhpamUser that a user has created and the other controller accepted is
\* saved with the realm of a RhpamDev it has listed.
Attach(u, d) ==
    /\ ~user[u].exists
    /\ dev[d].exists
    /\ dev[d].realm # NoRealm
    /\ \E s \in UserSpecs :
          U!Store(u, [U!Created(user[u].rv + 1, s) EXCEPT
                        !.fin = TRUE, !.phase = PhaseReconcile,
                        !.realm = dev[d].realm])
    /\ Write
    /\ UNCHANGED <<devVars, userCache, userQueue, resVars, faults, ssoVars, job>>

\* A crash of the operator process: the run in progress is lost.
Crash ==
    /\ RestartCluster
    /\ job' = Idle
    /\ UNCHANGED ssoVars

Informers ==
    /\ \/ \E d \in Devs : DeliverDev(d) \/ ResyncDev(d)
       \/ \E u \in Users : DeliverUser(u)
       \/ SyncResources
    /\ UNCHANGED <<ssoVars, job>>

ClusterUsers ==
    /\ \E d \in Devs : CreateDev(d) \/ EditDev(d) \/ DeleteDev(d)
    /\ UNCHANGED <<ssoVars, job>>

Platform ==
    /\ \/ DatabaseUp \/ DatabaseDown
       \/ \E r \in Resources : Collect(r)
    /\ UNCHANGED <<ssoVars, job>>

AloneNext ==
    \/ DevController
    \/ \E d \in Devs : HandOff(d) \/ \E u \in Users : Attach(u, d)
    \/ Informers \/ Platform \/ ClusterUsers
    \/ Crash

AloneSpec == DevInit /\ [][AloneNext]_devCtlVars

\* The worker runs, the watch delivers, the RhpamUser controller hands over.
FairAloneSpec ==
    /\ AloneSpec
    /\ WF_devCtlVars(DevController)
    /\ WF_devCtlVars(Informers /\ \E d \in Devs : DeliverDev(d))
    /\ WF_devCtlVars(Informers /\ SyncResources)
    /\ WF_devCtlVars(\E d \in Devs : HandOff(d))

-----------------------------------------------------------------------------
(* What all this amounts to for a user.                                    *)

Life(d) == IF ~dev[d].exists THEN "absent"
           ELSE IF dev[d].deleting THEN "deleting" ELSE "present"

L == INSTANCE Lifecycle WITH
        Names <- Devs, Provisioned <- PhaseRealmProvisioned, Moves <- Advance,
        life <- [d \in Devs |-> Life(d)],
        phase <- [d \in Devs |-> dev[d].phase],
        realm <- [d \in Devs |-> dev[d].realm],
        served <- {r \in realms : Served(r)}

\* Stale reads, lost answers, interrupted and repeated runs, objects created
\* again under their names: all of it implements Lifecycle.  Nobody ever sees
\* a phase skipped, a realm that does not serve, or an object that vanishes
\* before its realm.
ImplementsLifecycle == L!Spec
=============================================================================
