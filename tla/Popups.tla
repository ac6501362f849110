-------------------------------- MODULE Popups --------------------------------
(***************************************************************************)
(* Questions to the user, of which the terminal can show one at a time      *)
(* (extensions/ask-user-question: withLock of ui-lock.ts and execute of     *)
(* index.ts).  The lock is a chain of promises: each call waits for the one *)
(* that was the last when it came.                                         *)
(***************************************************************************)
EXTENDS Naturals, FiniteSets

CONSTANTS Questions, NoQuestion

VARIABLES
  stage,    \* the calls
  tail,     \* the last call of the chain
  waitsFor, \* the call each call waits for
  released, \* calls whose promise in the chain is resolved
  dropped   \* calls whose signal is aborted

vars == <<stage, tail, waitsFor, released, dropped>>

Over == {"answered", "cancelled", "threw"}

Init ==
  /\ stage = [q \in Questions |-> "none"] /\ tail = NoQuestion
  /\ waitsFor = [q \in Questions |-> NoQuestion] /\ released = {NoQuestion}
  /\ dropped = {}

Goes(q, to) == stage' = [stage EXCEPT ![q] = to]

Join(q) == waitsFor' = [waitsFor EXCEPT ![q] = tail] /\ tail' = q

Ask(q) ==
  /\ stage[q] = "none"
  /\ IF q \in dropped THEN Goes(q, "cancelled") /\ UNCHANGED <<waitsFor, tail>>
     ELSE Goes(q, "waiting") /\ Join(q)
  /\ UNCHANGED <<released, dropped>>

(* Mutant: an operation that throws releases nobody. *)
ReleaseReturned(q, to) ==
  released' = IF to = "threw" THEN released ELSE released \cup {q}

(* finally(release) *)
Release(q, to) == released' = released \cup {q}

End(q, to) == Goes(q, to) /\ Release(q, to)

MayTakeTurn(q) == stage[q] = "waiting" /\ waitsFor[q] \in released

(* The turn of a call: one that was aborted meanwhile asks nothing. *)
TakeTurn(q) ==
  /\ MayTakeTurn(q)
  /\ IF q \in dropped THEN End(q, "cancelled")
     ELSE Goes(q, "open") /\ UNCHANGED released
  /\ UNCHANGED <<tail, waitsFor, dropped>>

(* The user answers or closes the popup, or it cannot be shown; the signal   *)
(* of the call does not close it.                                          *)
Close(q) ==
  /\ stage[q] = "open"
  /\ \E to \in Over : End(q, to)
  /\ UNCHANGED <<tail, waitsFor, dropped>>

Drop(q) ==
  /\ stage[q] \notin Over /\ q \notin dropped /\ dropped' = dropped \cup {q}
  /\ UNCHANGED <<stage, tail, waitsFor, released>>

Next == \E q \in Questions : Ask(q) \/ TakeTurn(q) \/ Close(q) \/ Drop(q)

Spec == Init /\ [][Next]_vars

------------------------------------------------------------------------------
TypeOK ==
  /\ stage \in [Questions -> Over \cup {"none", "waiting", "open"}]
  /\ tail \in Questions \cup {NoQuestion}
  /\ waitsFor \in [Questions -> Questions \cup {NoQuestion}]
  /\ released \subseteq Questions \cup {NoQuestion} /\ dropped \subseteq Questions

(* "Pi can host only one replacement UI at a time" (ui-lock.ts:8).            *)
OnePopup == Cardinality({q \in Questions : stage[q] = "open"}) <= 1

(* While a question waits, one is shown or can have its turn, even when       *)
(* questions threw or were aborted: none waits for a promise that nobody    *)
(* resolves.                                                               *)
NobodyStuck ==
  (\E q \in Questions : stage[q] = "waiting")
  => \E q \in Questions : stage[q] = "open" \/ MayTakeTurn(q)

(* Questions are shown one at a time, and each has its turn.                 *)
PopupsSerial == OnePopup /\ NobodyStuck
=============================================================================
