------------------------ MODULE MCConcurrencyRegistry ------------------------
(* A burst of at most MaxCalls calls.  A waiter that keeps finding the lock *)
(* just gone retries without looking at the clock, so an endless stream of *)
(* other calls can starve it; liveness is checked for finite bursts.       *)
EXTENDS ConcurrencyRegistry, TLC

CONSTANTS p1, p2, i1, i2, o1, o2, MaxCalls

VARIABLE begun   \* calls begun so far

MCProcs == {p1, p2}
MCIds   == {i1, i2}
MCOps   == {o1, o2}
MCNone  == {}
MCOne   == {p1}
MCOther == {p2}

(* The slots are interchangeable, and so are the run identifiers. *)
MCSymmetry == Permutations(MCOps) \cup Permutations(MCIds)

BurstInit == Init /\ begun = 0

BurstNext ==
  \/ /\ begun < MaxCalls
     /\ \E o \in Ops : Begin(o)
     /\ begun' = begun + 1
  \/ /\ \/ \E o \in Ops : Step(o) \/ Expire(o)
        \/ \E p \in Procs : Crash(p)
        \/ Age
     /\ UNCHANGED begun

BurstSpec == BurstInit /\ [][BurstNext]_<<vars, begun>> /\ Fairness
=============================================================================
