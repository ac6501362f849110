---------------------------- MODULE ResultDelivery ----------------------------
(***************************************************************************)
(* What background work promises a session, whether an agent or a process  *)
(* does it: each branch of the session tells of a run that it began, that  *)
(* its result is there to be read and that it was read, in this order, and *)
(* shows at most one message with the result, never before there is one.   *)
(* How results are queued, batched, dropped, acknowledged and recovered is *)
(* what BackgroundAgents and BackgroundProcess implement.                  *)
(***************************************************************************)
EXTENDS Naturals

CONSTANT Runs

VARIABLES
  leaf,    \* what the current branch tells of each run
  earlier  \* what another leaf of the session tree tells

vars == <<leaf, earlier>>

Stages == {"unknown", "running", "unread", "delivered"}
View == [stage : Stages, messages : 0 .. 1]
Fresh == [r \in Runs |-> [stage |-> "unknown", messages |-> 0]]

Init == leaf = Fresh /\ earlier = Fresh

Rank(stage) == CASE stage = "unknown" -> 0 [] stage = "running" -> 1
                 [] stage = "unread" -> 2 [] stage = "delivered" -> 3

(* A run goes on to be delivered without a message when a call of the agent *)
(* has read its result, or waited for it.                                  *)
Advances(v, w) ==
  /\ Rank(v.stage) <= Rank(w.stage) /\ v.messages <= w.messages
  /\ Rank(v.stage) < 2 => w.messages = v.messages

Forward(from, to) == \A r \in Runs : Advances(from[r], to[r])

Work == leaf' \in [Runs -> View] /\ Forward(leaf, leaf') /\ UNCHANGED earlier
Mark == earlier' = leaf /\ UNCHANGED leaf
Jump == leaf' \in [Runs -> View] /\ Forward(earlier, leaf') /\ earlier' = leaf

Next == Work \/ Mark \/ Jump

Spec == Init /\ [][Next]_vars
=============================================================================
