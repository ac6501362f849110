-------------------------- MODULE MCBackgroundAgents --------------------------
(* Model values for BackgroundAgents.                                      *)
EXTENDS BackgroundAgents, TLC

CONSTANTS r1, r2, r3

MCRuns  == {r1, r2}
MCThree == {r1, r2, r3}
MCFirst == {r1}
MCSecond == {r2}
MCNone == {}

(* Runs of one kind are interchangeable. *)
MCSymmetry == Permutations(MCThree)

(* The user keeps a leaf to return to in sessions of one run only.         *)
OneRun == child[r1] = "none" \/ child[r2] = "none"
LeafNext == Next /\ (point'.saved = NoRuns \/ OneRun')
LeafSpec == Init /\ [][LeafNext]_vars
=============================================================================
