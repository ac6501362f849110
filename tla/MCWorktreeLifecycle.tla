-------------------------- MODULE MCWorktreeLifecycle --------------------------
(* Model values for WorktreeLifecycle: two runs of different sessions that  *)
(* use one worktree.                                                       *)
EXTENDS WorktreeLifecycle, TLC

CONSTANTS p1, p2, r1, r2, w1

MCProcs == {p1, p2}
MCRuns == {r1, r2}
MCTrees == {w1}
MCParent == (r1 :> p1) @@ (r2 :> p2)
MCTreeOf == [r \in MCRuns |-> w1]

(* The sessions are alike, each with its run. *)
MCSymmetry ==
  {f \in Permutations(MCProcs \cup MCRuns) :
     \A r \in MCRuns : f[r] \in MCRuns /\ f[MCParent[r]] = MCParent[f[r]]}

(* Two commits, or one and a fault.                                        *)
MCNext == Next /\ commits' + faults' <= 2
MCSpec == Init /\ [][MCNext]_vars
=============================================================================
