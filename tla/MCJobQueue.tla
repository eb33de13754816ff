----------------------------- MODULE MCJobQueue -----------------------------
(* Two jobs of one workspace, two server processes that share an owner name. *)
EXTENDS JobQueue, TLC

CONSTANTS c1, w1, o1

MCClassOf == [j \in Jobs |-> c1]
MCSameWorkspace == [j \in Jobs |-> w1]
MCOwnerOf == [r \in Runners |-> o1]
RunnerSymmetry == Permutations(Runners)
=============================================================================
