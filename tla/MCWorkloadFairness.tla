------------------------- MODULE MCWorkloadFairness -------------------------
(* Three classes that compete for a node of two permits; the last one is      *)
(* node-scoped and has a reservation.  In the focus "races" two of them and   *)
(* two workspaces meet timeouts, cancellations and Close; at most two callers *)
(* have a context that is done.  In the other two every caller waits until it *)
(* is served, and the history records who passed whom: the three classes with *)
(* one workspace, and three workspaces of a class while a keeper holds one of *)
(* the permits.                                                               *)
EXTENDS WorkloadFairness

CONSTANTS interactive, background, control, a, b, third, keeper

VARIABLE focus

MCThreeClasses == <<interactive, background, control>>
MCReserved == [k \in Classes |-> IF k = control THEN 1 ELSE 0]
MCMaximum == [k \in Classes |-> IF k = interactive THEN 2 ELSE 1]
MCQueued == [k \in Classes |-> IF k = control THEN 1 ELSE MaximumQueued]
MCPerWorkspace == [k \in Classes |-> IF k = control THEN 1 ELSE 2]
CallerSymmetry == Permutations(Callers \ {keeper}) \union Permutations({a, b})

mcVars == <<focus, fvars>>

MCInit == FInit /\ focus \in {"races", "classes", "workspaces"}

(* Who may ask for what, and who gives a permit back. *)
Asks(p) ==
  CASE p = keeper -> focus = "workspaces" /\ ClassOf(p)' = control
    [] p # keeper /\ focus = "races" -> ClassOf(p)' # background /\ WorkspaceOf(p)' # third
    [] p # keeper /\ focus = "classes" -> WorkspaceOf(p)' \in {a, NodeWorkspace}
    [] p # keeper /\ focus = "workspaces" -> ClassOf(p)' = interactive

MCNext ==
  /\ UNCHANGED focus
  /\ Next
  /\ \A p \in Callers : request'[p] # NoRequest => Asks(p)
  /\ \/ /\ focus = "races" /\ UNCHANGED history
        /\ Cardinality({p \in Callers : parentDone'[p]}) <= 2
     \/ /\ focus # "races" /\ ~closed' /\ pc'[keeper] # "release"
        /\ \A p \in Callers : pc'[p] # "timedOut" /\ ~parentDone'[p] /\ ~leaseDone'[p]
        /\ Observe

MCSpec == MCInit /\ [][MCNext]_mcVars

WorkspacesSpec == FInit /\ focus = "workspaces" /\ [][MCNext]_mcVars
=============================================================================
