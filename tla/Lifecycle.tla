------------------------------ MODULE Lifecycle ------------------------------
(***************************************************************************)
(* What the operator promises of a RhpamDev, without the calls it makes:   *)
(* objects are created, go through the phases of an installation one by    *)
(* one, are given a realm that serves and nobody else has, and once they   *)
(* have one they go only when they are deleted and it serves no more.      *)
(***************************************************************************)
CONSTANTS
    Names,      \* names of RhpamDev objects
    NoRealm,    \* the realm of an object that has none
    NoPhase,    \* the phase of a new object
    Provisioned,\* the phase in which it is given a realm
    Moves       \* pairs of phases: how an installation goes on

VARIABLES
    life,       \* [Names -> {"absent", "present", "deleting"}]
    phase,      \* [Names -> phases]
    realm,      \* [Names -> realms]
    served      \* the realms that can be logged in to

vars == <<life, phase, realm, served>>

Init ==
    /\ life = [n \in Names |-> "absent"]
    /\ phase = [n \in Names |-> NoPhase]
    /\ realm = [n \in Names |-> NoRealm]
    /\ served = {}

Appear(n) ==
    /\ life[n] = "absent"
    /\ life' = [life EXCEPT ![n] = "present"]
    /\ phase' = [phase EXCEPT ![n] = NoPhase]
    /\ realm' = [realm EXCEPT ![n] = NoRealm]
    /\ UNCHANGED served

\* One step of the installation; it may still be made while the object is
\* being deleted.
Advance(n) ==
    /\ life[n] # "absent"
    /\ \E m \in Moves :
          /\ m[1] = phase[n] /\ m[2] # Provisioned
          /\ phase' = [phase EXCEPT ![n] = m[2]]
    /\ UNCHANGED <<life, realm, served>>

Provision(n) ==
    /\ life[n] = "present"
    /\ <<phase[n], Provisioned>> \in Moves
    /\ phase' = [phase EXCEPT ![n] = Provisioned]
    /\ \E r \in served :
          /\ \A m \in Names : realm[m] # r
          /\ realm' = [realm EXCEPT ![n] = r]
    /\ UNCHANGED <<life, served>>

Delete(n) ==
    /\ life[n] = "present"
    /\ life' = [life EXCEPT ![n] = "deleting"]
    /\ UNCHANGED <<phase, realm, served>>

\* A new object goes at once, another only when it has lost its realm.
Vanish(n) ==
    /\ \/ life[n] = "present" /\ phase[n] = NoPhase
       \/ life[n] = "deleting" /\ realm[n] \notin served \cup {NoRealm}
    /\ life' = [life EXCEPT ![n] = "absent"]
    /\ phase' = [phase EXCEPT ![n] = NoPhase]
    /\ realm' = [realm EXCEPT ![n] = NoRealm]
    /\ UNCHANGED served

Serve ==
    /\ served \subseteq served'
    /\ UNCHANGED <<life, phase, realm>>

\* A realm is taken only from objects that are being deleted.
Withdraw ==
    /\ \E r \in served :
          /\ \A n \in Names : life[n] = "present" => realm[n] # r
          /\ served' = served \ {r}
    /\ UNCHANGED <<life, phase, realm>>

Next ==
    \/ \E n \in Names : Appear(n) \/ Advance(n) \/ Provision(n) \/ Delete(n) \/ Vanish(n)
    \/ Serve \/ Withdraw

Spec == Init /\ [][Next]_vars
=============================================================================
