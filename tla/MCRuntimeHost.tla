--------------------------- MODULE MCRuntimeHost ---------------------------
(* One workspace, two competing activations (of the loaded state and of
   another one) and two readers. *)
EXTENDS RuntimeHost

CONSTANTS w1, a1, a2, deploy, refresh, r1, r2

ReaderSymmetry == Permutations(Readers)
MCWorkspaceOf == [s \in States |-> w1]
MCTargets == [c \in Calls |-> IF c = deploy THEN {a2} ELSE {a1}]
=============================================================================
