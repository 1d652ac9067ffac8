----------------------------- MODULE MCDevAlone -----------------------------
(* Instances of DevAlone for TLC.                                          *)
EXTENDS DevAlone

CONSTANTS d1, u1, s1, none

OneDev == {d1}
OneUser == {u1}
OneSpec == {s1}
NoNames == [a \in {} |-> {}]

\* The informers of the resources keep step, which the theorems do not assume.
InformersTogether == seen' # seen => seen' = {r \in Typed : Live(r)}

InstallSpec == DevInit /\ [][AloneNext /\ InformersTogether]_devCtlVars
=============================================================================
