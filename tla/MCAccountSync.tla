--------------------------- MODULE MCAccountSync ---------------------------
(* Instances of AccountSync for TLC, with account names of which some      *)
(* contain others.                                                         *)
EXTENDS AccountSync

CONSTANTS d1, u1, u2, s1, s2, s3, none

OneDev == {d1}
OneUser == {u1}
TwoUsers == {u1, u2}
TwoSpecs == {s2, s3}
ThreeSpecs == {s1, s2, s3}

\* The RhpamUsers differ in nothing but their names.
AnyUser == Permutations(TwoUsers)

MCRoleNames == {"kie-server", "group1", "offline_access"}
MCBuiltinRoles == {"offline_access"}
MCDefaultRoles == <<"kie-server">>
MCDefaultUsers == <<[username |-> "adminuser", roles |-> <<"kie-server">>]>>

MCAccountNames == {"adminuser", "user", "user1", "auser1", "guest"}
MCContaining ==
    [a \in MCAccountNames |->
        CASE a = "user" -> {"user", "adminuser", "user1", "auser1"}
          [] a = "user1" -> {"user1", "auser1"}
          [] OTHER -> {a}]

\* s1 and s2 share an account whose search finds one that s2 adds; s3 lists
\* one whose search finds the default account.  All share a clear one.
MCSpecRoles == [s \in ThreeSpecs |-> IF s = s3 THEN {} ELSE {"group1"}]
MCSpecUsers ==
    [s \in ThreeSpecs |->
        CASE s = s1 -> [a \in {"user1", "guest"} |-> {"group1"}]
          [] s = s2 -> [a \in {"user1", "auser1", "guest"} |->
                          IF a = "user1" THEN {"kie-server"} ELSE {}]
          [] s = s3 -> [a \in {"user", "guest"} |-> {"kie-server"}]]
=============================================================================
