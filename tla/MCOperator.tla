----------------------------- MODULE MCOperator -----------------------------
(* Instances of Operator for TLC: the default lists are cut down to one    *)
(* role and one account, the realm template to one default role.           *)
EXTENDS Operator

CONSTANTS d1, d2, u1, u2, s1, s2, none

OneDev == {d1}
TwoDevs == {d1, d2}
OneUser == {u1}
OneSpec == {s1}
TwoSpecs == {s1, s2}

MCRoleNames == {"kie-server", "group1", "offline_access"}
MCAccountNames == {"adminuser", "user1"}
\* Neither name contains the other.
MCContaining == [a \in MCAccountNames |-> {a}]
MCBuiltinRoles == {"offline_access"}
MCDefaultRoles == <<"kie-server">>
MCDefaultUsers == <<[username |-> "adminuser", roles |-> <<"kie-server">>]>>
\* s1 adds a role and an account; s2 lists a default account without roles.
MCSpecRoles == [s \in {s1, s2} |-> IF s = s1 THEN {"group1"} ELSE {}]
MCSpecUsers == [s \in {s1, s2} |->
                  IF s = s1 THEN [a \in {"user1"} |-> {"group1"}]
                  ELSE [a \in {"adminuser"} |-> {}]]
\* Users that leave out what other instances look at, and informers of the
\* resources that keep step.
EditsDev == \E d \in Devs : EditDev(d)
EditsUser == \E u \in Users : EditUser(u)
InformersTogether == seen' # seen => seen' = {r \in Typed : Live(r)}
AWrite == writes' # writes

\* Whatever fails meets a run of the RhpamUser controller, or is the database.
FaultsMeetUserRuns == faults' # faults => ujob' # ujob \/ dbReady' # dbReady

\* The fourth write deletes a RhpamUser that was detached.
DetachedLast ==
    writes' = MaxWrites => \E u \in Users : user[u].phase = PhaseDeprovisioned /\ DeleteUser(u)

TwoControllersSpec ==
    /\ OperatorInit
    /\ [][/\ OperatorNext
          /\ FaultsMeetUserRuns /\ InformersTogether
          /\ AWrite => DetachedLast /\ ~EditsDev /\ ~EditsUser]_vars

\* A RhpamUser is created with the first specification and may get the other.
FirstSpecFirst == \A u \in Users : CreateUser(u) => user'[u].spec = s1

\* While the RhpamUser controller has its turn with a RhpamDev, or all is
\* installed: it edits and last writes that meet other phases are left out.
Settled == \A d \in Devs : dev[d].phase \in {PhaseRealmProvisioned, PhaseComplete}

\* The fourth write meets a RhpamUser that is being deleted.
LeavingLast == writes' = MaxWrites => Settled /\ \E u \in Users : user[u].deleting

LongRunSpec ==
    /\ OperatorInit
    /\ [][/\ OperatorNext
          /\ InformersTogether
          /\ AWrite => FirstSpecFirst /\ LeavingLast
                       /\ ~EditsDev /\ (EditsUser => Settled)]_vars
    /\ OperatorFairness
=============================================================================
