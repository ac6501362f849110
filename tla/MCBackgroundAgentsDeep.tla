------------------------ MODULE MCBackgroundAgentsDeep ------------------------
(***************************************************************************)
(* Two instances of BackgroundAgents in one run, as an initial state picks: *)
(* two runs in a session that does not change, so that one waits for the    *)
(* other, and one run through many changes and lost messages.              *)
(***************************************************************************)
EXTENDS MCBackgroundAgents

VARIABLE instance

MCInit == Init /\ instance \in {"siblings", "changes"}

MCNext ==
  /\ Next
  /\ UNCHANGED instance
  /\ instance = "siblings" => changes' = 0 /\ drops' <= 1 /\ UNCHANGED point
  /\ instance = "changes" => child'[r2] = "none"

MCSpec == MCInit /\ [][MCNext]_<<vars, instance>> /\ Fairness
=============================================================================
