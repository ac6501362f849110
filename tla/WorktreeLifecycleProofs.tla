------------------------ MODULE WorktreeLifecycleProofs ------------------------
(***************************************************************************)
(* No worktree is removed in use, what is integrated was reviewed, and the  *)
(* records are true, for any sessions, runs, worktrees, commits and faults. *)
(* The argument: as long as no lock was stolen, one operation at a time is  *)
(* past the lock, and nothing that it relies on of the ledger is changed by *)
(* what goes on without the lock (agents, users, calls of markTerminal).    *)
(***************************************************************************)
EXTENDS WorktreeLifecycle, TLAPS

(* An operation for a run is one of its session, in the state that it was    *)
(* begun for; a check knows what it checks.                                *)
OperationsApart ==
  \A p \in Procs : op[p] # Absent =>
    /\ op[p].kind # "reap" => /\ op[p].run \in Runs /\ Parent[op[p].run] = p
                              /\ op[p].tree = TreeOf[op[p].run]
    /\ op[p].kind = "prepare" => stage[op[p].run] = "preparing"
    /\ op[p].kind = "verify" => /\ verification[op[p].run].state = "checking"
                                /\ integration[op[p].run] = "none"
    /\ op[p].kind = "integrate" => /\ Passed(op[p].run)
                                   /\ integration[op[p].run] = "integrating"
    /\ op[p].step = "checking" => op[p].seen \in Snapshot

(* A receipt that passed tells for which commit. *)
ReceiptsComplete == \A r \in Runs : Passed(r) => verification[r].seen \in Snapshot

(* Who is past the lock holds it. *)
LockExclusive ==
  ~stolen => \A p \in Procs : op[p] # Absent /\ op[p].step # "waiting" => lock = p

(* Nothing is on record of a run that is not reserved yet. *)
Unrecorded ==
  \A r \in Runs : stage[r] \in {"none", "preparing"} =>
    /\ r \notin aged
    /\ ledger[TreeOf[r]] # Absent => ledger[TreeOf[r]][r] = "none"

AtWork(r) == stage[r] \in {"reserved", "working"}

(* The worktree of an agent is there. *)
WorkHasTree ==
  ~stolen => \A r \in Runs : AtWork(r) => tree[TreeOf[r]] # Absent

(* A worktree is there until its reservation is recorded, nobody is at work  *)
(* in one that is removed, and nobody starts in one whose entry is dropped. *)
TreesKept ==
  ~stolen => \A p \in Procs :
    /\ Doing(p, "prepare", "recording") => tree[op[p].tree] # Absent
    /\ Doing(p, "reap", "removing")
         => \A r \in Runs : TreeOf[r] = op[p].tree => ~AtWork(r)
    /\ Doing(p, "reap", "dropping")
         => \A r \in Runs : TreeOf[r] = op[p].tree => stage[r] # "reserved"

LifecycleInv ==
  /\ TypeOK /\ hooks <= faults
  /\ OperationsApart /\ ReceiptsComplete /\ LockExclusive /\ Unrecorded
  /\ WorkHasTree /\ TreesKept
  /\ ReservedBeforeStart /\ ReviewedAlone /\ IntegratedIsTrue

Stages == {"none", "preparing", "reserved", "working", "complete", "failed"}
Steps == {"waiting", "locked", "recording", "checking", "merging", "confirming",
          "removing", "dropping"}

------------------------------------------------------------------------------
(* Types                                                                   *)

(* An operation goes on to its next step.                                    *)
LEMMA StepTyped ==
  ASSUME TypeOK, NEW p \in Procs, op[p] # Absent, NEW s \in Steps, Step(p, s)
  PROVE  /\ op' \in [Procs -> Operation \cup {Absent}]
         /\ lock' \in Procs \cup {Absent} /\ stolen' \in BOOLEAN
BY DEF TypeOK, Operation, Steps, Step, locking

(* An operation is over.                                                     *)
LEMMA DoneTyped ==
  ASSUME TypeOK, NEW p \in Procs, Done(p)
  PROVE  /\ op' \in [Procs -> Operation \cup {Absent}]
         /\ lock' \in Procs \cup {Absent} /\ stolen' \in BOOLEAN
BY DEF TypeOK, Done

(* An operation begins.                                                      *)
LEMMA BeginTyped ==
  ASSUME TypeOK, NEW p \in Procs, NEW k \in {"prepare", "verify", "integrate", "reap"},
         NEW r \in Runs \cup {Absent}, NEW w \in Trees, Begin(p, k, r, w)
  PROVE  op' \in [Procs -> Operation \cup {Absent}]
BY DEF TypeOK, Begin, Operation

(* What a worktree shows now.                                                *)
LEMMA NowTyped ==
  ASSUME TypeOK, NEW w \in Trees, tree[w] # Absent
  PROVE  Now(w) \in Snapshot
BY DEF TypeOK, Now, Snapshot, Tree

(* A new worktree.                                                           *)
LEMMA FreshTyped ==
  ASSUME TypeOK
  PROVE  Fresh \in Tree /\ Fresh # Absent
<1>1. Fresh \in Tree
  BY DEF TypeOK, Fresh, Tree
<1> QED
  BY <1>1, AbsentAssumption DEF AbsentAssumption

(* There are no operations, and no worktrees yet.                            *)
LEMMA InitTyped == Init => TypeOK
<1> SUFFICES ASSUME Init
             PROVE  TypeOK
  OBVIOUS
<1>1. 0 \in 0 .. MaxFaults /\ 0 \in 0 .. MaxCommits /\ {} \in Commit
  BY LifecycleAssumption DEF LifecycleAssumption, Commit
<1>2. Receipt("none", Absent) \in Verification
  BY DEF Receipt, Verification
<1> QED
  BY <1>1, <1>2 DEF Init, TypeOK, Integration

(* An agent at work keeps its worktree. *)
LEMMA WorkTyped ==
  ASSUME TypeOK, NEW r \in Runs, Work(r)
  PROVE  \E t \in Tree : tree' = [tree EXCEPT ![TreeOf[r]] = t]
                          /\ commits' \in 0 .. MaxCommits
<1> USE LifecycleAssumption DEF LifecycleAssumption
<1> DEFINE w == TreeOf[r]
<1>1. tree[w] \in Tree /\ target \in Commit /\ commits \in 0 .. MaxCommits
  BY DEF Work, TypeOK
<1>2. CASE Edit(w, [tree[w] EXCEPT !.dirty = TRUE]) /\ UNCHANGED commits
  <2>1. [tree[w] EXCEPT !.dirty = TRUE] \in Tree
    BY <1>1 DEF Tree
  <2> QED
    BY <1>1, <1>2, <2>1 DEF Edit
<1>3. CASE /\ commits < MaxCommits /\ commits' = commits + 1
           /\ Edit(w, [head |-> tree[w].head \cup {commits + 1}, dirty |-> FALSE])
  <2>1. commits + 1 \in 1 .. MaxCommits
    BY <1>1, <1>3
  <2>2. tree[w].head \cup {commits + 1} \in Commit
    BY <1>1, <2>1 DEF Tree, Commit
  <2>3. [head |-> tree[w].head \cup {commits + 1}, dirty |-> FALSE] \in Tree
    BY <2>2 DEF Tree
  <2>4. commits' \in 0 .. MaxCommits
    BY <1>3, <2>1
  <2> QED
    BY <1>3, <2>3, <2>4 DEF Edit
<1>4. CASE Edit(w, [tree[w] EXCEPT !.head = @ \cup target]) /\ UNCHANGED commits
  <2>1. [tree[w] EXCEPT !.head = @ \cup target] \in Tree
    BY <1>1 DEF Tree, Commit
  <2> QED
    BY <1>1, <1>4, <2>1 DEF Edit
<1> QED
  BY <1>2, <1>3, <1>4 DEF Work

(* Agents and users *)
LEMMA AgentsTyped ==
  ASSUME TypeOK, NEW r \in Runs,
         \/ Launch(r) \/ Spawn(r) \/ Work(r) \/ AgentEnds(r) \/ MarkTerminal(r)
         \/ Age(r) \/ Verify(r) \/ Integrate(r)
  PROVE  TypeOK'
<1> USE LifecycleAssumption DEF LifecycleAssumption, bounds, git, receipts, locking, Fault
<1>0. TreeOf[r] \in Trees /\ Parent[r] \in Procs
  OBVIOUS
<1>1. CASE Launch(r)
  <2>1. op' \in [Procs -> Operation \cup {Absent}]
    BY <1>0, <1>1, BeginTyped DEF Launch
  <2> QED
    BY <1>1, <2>1 DEF Launch, TypeOK
<1>2. CASE Spawn(r)
  BY <1>2 DEF Spawn, TypeOK
<1>3. CASE Work(r)
  <2>1. /\ tree' \in [Trees -> Tree \cup {Absent}]
        /\ commits' \in 0 .. MaxCommits
    BY <1>0, <1>3, WorkTyped DEF TypeOK
  <2> QED
    BY <1>3, <2>1 DEF Work, TypeOK
<1>4. CASE AgentEnds(r)
  BY <1>4 DEF AgentEnds, TypeOK
<1>5. CASE MarkTerminal(r)
  <2>1. ledger' \in [Trees -> [Runs -> Reservation] \cup {Absent}]
    BY <1>0, <1>5 DEF MarkTerminal, TypeOK, Reservation
  <2>2. faults' \in 0 .. MaxFaults
    BY <1>5 DEF MarkTerminal, TypeOK
  <2> QED
    BY <1>5, <2>1, <2>2 DEF MarkTerminal, TypeOK
<1>6. CASE Age(r)
  BY <1>6 DEF Age, TypeOK
<1>7. CASE Verify(r)
  <2>1. op' \in [Procs -> Operation \cup {Absent}]
    BY <1>0, <1>7, BeginTyped DEF Verify
  <2>2. Receipt("checking", Absent) \in Verification
    BY DEF Receipt, Verification
  <2> QED
    BY <1>7, <2>1, <2>2 DEF Verify, TypeOK, Integration
<1>8. CASE Integrate(r)
  <2>1. op' \in [Procs -> Operation \cup {Absent}]
    BY <1>0, <1>8, BeginTyped DEF Integrate, TypeOK
  <2>2. integration' \in [Runs -> Integration]
    BY <1>8 DEF Integrate, TypeOK, Integration
  <2> QED
    BY <1>8, <2>1, <2>2 DEF Integrate, TypeOK
<1> QED
  BY <1>1, <1>2, <1>3, <1>4, <1>5, <1>6, <1>7, <1>8

(* A verification ends with a receipt.                                       *)
LEMMA VerdictTyped ==
  ASSUME TypeOK, OperationsApart, NEW p \in Procs, op[p] # Absent, op[p].kind = "verify",
         NEW s \in {"passed", "failed", "interrupted"}, NEW seen \in Snapshot \cup {Absent},
         Verdict(p, s, seen)
  PROVE  /\ op' \in [Procs -> Operation \cup {Absent}]
         /\ lock' \in Procs \cup {Absent} /\ stolen' \in BOOLEAN
         /\ verification' \in [Runs -> Verification] /\ integration' = integration
<1>1. Receipt(s, seen) \in Verification
  BY DEF Receipt, Verification
<1> QED
  BY <1>1, DoneTyped DEF Verdict, TypeOK, OperationsApart

(* An integration ends without one.                                          *)
LEMMA ConcludeTyped ==
  ASSUME TypeOK, OperationsApart, NEW p \in Procs, op[p] # Absent,
         op[p].kind = "integrate", NEW s \in {"failed", "interrupted"}, Conclude(p, s)
  PROVE  /\ op' \in [Procs -> Operation \cup {Absent}]
         /\ lock' \in Procs \cup {Absent} /\ stolen' \in BOOLEAN
         /\ integration' \in [Runs -> Integration] /\ verification' = verification
BY DoneTyped DEF Conclude, TypeOK, OperationsApart, Integration

(* Operations *)
LEMMA OperationsTyped ==
  ASSUME TypeOK, OperationsApart, ReceiptsComplete, NEW p \in Procs,
         Operate(p) \/ Cancel(p) \/ GiveUp(p)
  PROVE  TypeOK'
<1> USE DEF bounds, git, receipts, locking
<1>0. /\ op[p] # Absent
      /\ op[p].tree \in Trees
      /\ op[p].kind # "reap" => op[p].run \in Runs
  BY ZenonT(30) DEF TypeOK, Operation, OperationsApart, Operate, Acquire, Prepare, Record, Check,
         Checked, Admit, Merge, Confirm, Inspect, Remove, Drop, Cancel, GiveUp, Doing
<1> DEFINE w == op[p].tree
           r == op[p].run
<1>1. CASE Acquire(p)
  <2>1. op' \in [Procs -> Operation \cup {Absent}]
    BY <1>0, <1>1 DEF Acquire, TypeOK, Operation
  <2> QED
    BY <1>1, <2>1 DEF Acquire, TypeOK
<1>2. CASE Prepare(p)
  <2>1. r \in Runs
    BY <1>0, <1>2 DEF Prepare, Doing
  <2>2. tree' \in [Trees -> Tree \cup {Absent}]
    BY <1>0, <1>2, FreshTyped DEF Prepare, TypeOK
  <2>3. /\ op' \in [Procs -> Operation \cup {Absent}]
        /\ lock' \in Procs \cup {Absent} /\ stolen' \in BOOLEAN
    BY <1>0, <1>2, StepTyped, DoneTyped DEF Prepare, Steps
  <2>4. stage' \in [Runs -> {"none", "preparing", "reserved", "working", "complete", "failed"}]
    BY <1>2, <2>1 DEF Prepare, TypeOK
  <2> QED
    BY <1>2, <2>2, <2>3, <2>4 DEF Prepare, TypeOK
<1>3. CASE Record(p)
  <2>1. r \in Runs
    BY <1>0, <1>3 DEF Record, Doing
  <2>2. ledger' \in [Trees -> [Runs -> Reservation] \cup {Absent}]
    <3>1. (IF ledger[w] = Absent THEN NoReservations ELSE ledger[w]) \in [Runs -> Reservation]
      BY <1>0 DEF TypeOK, NoReservations, Reservation
    <3> QED
      BY <1>0, <1>3, <2>1, <3>1 DEF Record, TypeOK, Reservation
  <2>3. /\ op' \in [Procs -> Operation \cup {Absent}]
        /\ lock' \in Procs \cup {Absent} /\ stolen' \in BOOLEAN
    BY <1>3, DoneTyped DEF Record
  <2> QED
    BY <1>3, <2>1, <2>2, <2>3 DEF Record, TypeOK
<1>4. CASE Check(p)
  <2>1. CASE IdleFor(r) /\ Clean(w)
    <3>1. Now(w) \in Snapshot
      BY <1>0, <2>1, NowTyped DEF Clean
    <3>2. op' \in [Procs -> Operation \cup {Absent}]
      BY <1>0, <1>4, <2>1, <3>1 DEF Check, TypeOK, Operation
    <3> QED
      BY <1>4, <2>1, <3>2 DEF Check, TypeOK
  <2>2. CASE ~(IdleFor(r) /\ Clean(w))
    BY <1>0, <1>4, <2>2, VerdictTyped DEF Check, TypeOK, Doing
  <2> QED
    BY <2>1, <2>2
<1>5. CASE Checked(p)
  <2>1. op[p].seen \in Snapshot /\ op[p].kind = "verify"
    BY <1>5 DEF Checked, Doing, OperationsApart
  <2>2. Verdict(p, "passed", op[p].seen) \/ Verdict(p, "failed", Absent)
    BY <1>5 DEF Checked
  <2> QED
    BY <1>0, <1>5, <2>1, <2>2, VerdictTyped DEF Checked, TypeOK
<1>6. CASE Admit(p)
  BY <1>0, <1>6, StepTyped, ConcludeTyped DEF Admit, Steps, TypeOK, Doing
<1>7. CASE Merge(p)
  <2>1. verification[r].seen.head \in Commit
    BY <1>0, <1>7 DEF Merge, Doing, OperationsApart, ReceiptsComplete, Snapshot
  <2>2. target' \in Commit
    BY <1>7, <2>1 DEF Merge, TypeOK
  <2> QED
    BY <1>0, <1>7, <2>2, StepTyped DEF Merge, Steps, TypeOK
<1>8. CASE Confirm(p)
  BY <1>0, <1>8, ConcludeTyped DEF Confirm, TypeOK, Doing
<1>9. CASE Inspect(p)
  BY <1>0, <1>9, StepTyped, DoneTyped DEF Inspect, Steps, TypeOK
<1>10. CASE Remove(p)
  <2>1. tree' \in [Trees -> Tree \cup {Absent}]
    BY <1>0, <1>10 DEF Remove, Edit, TypeOK
  <2> QED
    BY <1>0, <1>10, <2>1, StepTyped, DoneTyped DEF Remove, Steps, TypeOK
<1>11. CASE Drop(p)
  BY <1>0, <1>11, DoneTyped DEF Drop, TypeOK
<1>12. CASE Cancel(p)
  BY <1>0, <1>12, VerdictTyped, ConcludeTyped DEF Cancel, CancelledAs, TypeOK
<1>13. CASE GiveUp(p)
  <2>1. CASE op[p].kind = "prepare" /\ Done(p) /\ UNCHANGED receipts
             /\ stage' = [stage EXCEPT ![op[p].run] = "failed"]
    BY <1>0, <1>13, <2>1, DoneTyped DEF GiveUp, TypeOK
  <2>2. CASE op[p].kind = "verify" /\ Verdict(p, "failed", Absent) /\ UNCHANGED stage
    BY <1>0, <1>13, <2>2, VerdictTyped DEF GiveUp, TypeOK
  <2>3. CASE op[p].kind = "integrate" /\ Conclude(p, "failed") /\ UNCHANGED stage
    BY <1>0, <1>13, <2>3, ConcludeTyped DEF GiveUp, TypeOK
  <2>4. CASE op[p].kind = "reap" /\ Done(p) /\ UNCHANGED <<stage, receipts>>
    BY <1>0, <1>13, <2>4, DoneTyped DEF GiveUp, TypeOK
  <2> QED
    BY <1>13, <2>1, <2>2, <2>3, <2>4 DEF GiveUp
<1> QED
  BY <1>1, <1>2, <1>3, <1>4, <1>5, <1>6, <1>7, <1>8, <1>9, <1>10, <1>11, <1>12, <1>13
     DEF Operate

(* The steps of runs, of other processes and of the user.                    *)
LEMMA OthersTyped ==
  ASSUME TypeOK, hooks <= faults,
         \/ \E p \in Procs, w \in Trees : Reap(p, w)
         \/ \E p \in Procs, crash \in BOOLEAN : Replaced(p, crash)
         \/ \E w \in Trees : Adopt(w)
         \/ LoseLock \/ UserCommits \/ HooksChange
  PROVE  TypeOK'
<1> USE LifecycleAssumption DEF LifecycleAssumption, bounds, git, receipts, locking, Fault
<1>1. ASSUME NEW p \in Procs, NEW w \in Trees, Reap(p, w)
      PROVE  TypeOK'
  <2>1. op' \in [Procs -> Operation \cup {Absent}]
    BY <1>1, BeginTyped DEF Reap
  <2> QED
    BY <1>1, <2>1 DEF Reap, TypeOK
<1>2. ASSUME NEW p \in Procs, NEW crash \in BOOLEAN, Replaced(p, crash)
      PROVE  TypeOK'
  <2>1. /\ op' \in [Procs -> Operation \cup {Absent}]
        /\ lock' \in Procs \cup {Absent} /\ stolen' \in BOOLEAN
    BY <1>2, DoneTyped DEF Replaced
  <2>2. faults' \in 0 .. MaxFaults
    BY <1>2 DEF Replaced, TypeOK
  <2>3. verification' \in [Runs -> Verification]
    <3>1. Receipt("interrupted", Absent) \in Verification
      BY DEF Receipt, Verification
    <3> QED
      BY <1>2, <3>1 DEF Replaced, TypeOK
  <2>4. integration' \in [Runs -> Integration]
    BY <1>2 DEF Replaced, TypeOK, Integration, InterruptedAs
  <2>5. stage' \in [Runs -> {"none", "preparing", "reserved", "working", "complete", "failed"}]
    BY <1>2 DEF Replaced, TypeOK
  <2> QED
    BY <1>2, <2>1, <2>2, <2>3, <2>4, <2>5 DEF Replaced, TypeOK
<1>3. ASSUME NEW w \in Trees, Adopt(w)
      PROVE  TypeOK'
  BY <1>3 DEF Adopt, TypeOK, NoReservations, Reservation
<1>4. CASE LoseLock
  BY <1>4 DEF LoseLock, TypeOK
<1>5. CASE UserCommits
  <2>1. commits + 1 \in 1 .. MaxCommits
    BY <1>5 DEF UserCommits, TypeOK
  <2> QED
    BY <1>5, <2>1 DEF UserCommits, TypeOK, Commit
<1>6. ASSUME HooksChange, hooks <= faults
      PROVE  TypeOK'
  BY <1>6 DEF HooksChange, TypeOK
<1> QED
  BY <1>1, <1>2, <1>3, <1>4, <1>5, <1>6

(* Every step keeps the types.                                               *)
LEMMA StepTypes ==
  ASSUME TypeOK, hooks <= faults, OperationsApart, ReceiptsComplete, Next
  PROVE  TypeOK' /\ (hooks <= faults)'
<1>1. TypeOK'
  BY AgentsTyped, OperationsTyped, OthersTyped DEF Next
<1>2. (hooks <= faults)'
  <2>1. ASSUME NEW r \in Runs,
               \/ Launch(r) \/ Spawn(r) \/ Work(r) \/ AgentEnds(r) \/ MarkTerminal(r)
               \/ Age(r) \/ Verify(r) \/ Integrate(r)
        PROVE  hooks' = hooks /\ faults' \in {faults, faults + 1}
    BY <2>1 DEF Launch, Spawn, Work, AgentEnds, MarkTerminal, Age, Verify, Integrate, Fault,
                git, bounds
  <2>2. ASSUME NEW p \in Procs, Operate(p) \/ Cancel(p) \/ GiveUp(p)
        PROVE  hooks' = hooks /\ faults' = faults
    BY <2>2 DEF Operate, Acquire, Prepare, Record, Check, Checked, Admit, Merge, Confirm,
                Inspect, Remove, Drop, Cancel, GiveUp, git, bounds
  <2>3. ASSUME NEW p \in Procs,
               (\E w \in Trees : Reap(p, w)) \/ (\E crash \in BOOLEAN : Replaced(p, crash))
        PROVE  hooks' = hooks /\ faults' \in {faults, faults + 1}
    BY <2>3 DEF Reap, Replaced, Fault, git, bounds
  <2>4. CASE (\E w \in Trees : Adopt(w)) \/ LoseLock \/ UserCommits
    BY <2>4 DEF Adopt, LoseLock, UserCommits, Fault, git, bounds, TypeOK
  <2>5. CASE HooksChange
    BY <2>5 DEF HooksChange, Fault, TypeOK
  <2>6. hooks \in Nat /\ faults \in Nat
    BY LifecycleAssumption DEF LifecycleAssumption, TypeOK
  <2> QED
    BY <2>1, <2>2, <2>3, <2>4, <2>5, <2>6 DEF Next
<1> QED
  BY <1>1, <1>2

------------------------------------------------------------------------------
(* Who does what                                                           *)

(* A session that begins an operation has none under way. *)
LEMMA BeginApart ==
  ASSUME TypeOK, OperationsApart, NEW p \in Procs,
         NEW k \in {"prepare", "verify", "integrate"},
         NEW r \in Runs, Parent[r] = p, Begin(p, k, r, TreeOf[r]),
         \A q \in Procs : q # p /\ op[q] # Absent /\ op[q].kind # "reap" =>
           LET x == op[q].run IN
           /\ stage'[x] = stage[x] /\ verification'[x] = verification[x]
           /\ integration'[x] = integration[x],
         k = "prepare" => stage'[r] = "preparing",
         k = "verify" => verification'[r].state = "checking" /\ integration'[r] = "none",
         k = "integrate" => verification'[r].state = "passed" /\ integration'[r] = "integrating"
  PROVE  OperationsApart'
<1> SUFFICES ASSUME NEW q \in Procs, op'[q] # Absent
             PROVE  /\ op'[q].kind # "reap" =>
                         /\ op'[q].run \in Runs /\ Parent[op'[q].run] = q
                         /\ op'[q].tree = TreeOf[op'[q].run]
                    /\ op'[q].kind = "prepare" => stage'[op'[q].run] = "preparing"
                    /\ op'[q].kind = "verify" =>
                         /\ verification'[op'[q].run].state = "checking"
                         /\ integration'[op'[q].run] = "none"
                    /\ op'[q].kind = "integrate" =>
                         /\ verification'[op'[q].run].state = "passed"
                         /\ integration'[op'[q].run] = "integrating"
                    /\ op'[q].step = "checking" => op'[q].seen \in Snapshot
  BY DEF OperationsApart, Passed
<1>1. CASE q = p
  <2>1. op'[q] = [kind |-> k, run |-> r, tree |-> TreeOf[r], step |-> "waiting",
                  seen |-> Absent]
    BY <1>1 DEF Begin, TypeOK
  <2> QED
    BY <1>1, <2>1
<1>2. CASE q # p
  <2>1. op'[q] = op[q]
    BY <1>2 DEF Begin, TypeOK
  <2> QED
    BY <1>2, <2>1 DEF OperationsApart, Passed
<1> QED
  BY <1>1, <1>2

(* An operation of p goes on to another step or ends; others stay as they are. *)
GoesOn(p) ==
  /\ op[p] # Absent
  /\ \A q \in Procs \ {p} : op'[q] = op[q]
  /\ op'[p] # Absent =>
       /\ op'[p].kind = op[p].kind /\ op'[p].run = op[p].run /\ op'[p].tree = op[p].tree
       /\ op'[p].step = "checking" => op'[p].seen \in Snapshot

(* An operation that goes on stays what it is.                               *)
LEMMA StepGoesOn ==
  ASSUME TypeOK, NEW p \in Procs, op[p] # Absent, NEW s \in Steps \ {"checking"}, Step(p, s)
  PROVE  GoesOn(p) /\ op'[p].step = s /\ UNCHANGED <<lock, stolen>>
BY DEF TypeOK, Operation, Step, GoesOn, locking, Steps

(* So does one that is over.                                                 *)
LEMMA DoneGoesOn ==
  ASSUME TypeOK, NEW p \in Procs, op[p] # Absent, Done(p)
  PROVE  GoesOn(p) /\ op'[p] = Absent
BY DEF TypeOK, Done, GoesOn

(* No step of an operation disturbs another.                                 *)
LEMMA OperationGoesOn ==
  ASSUME LifecycleInv, NEW p \in Procs, Operate(p) \/ Cancel(p) \/ GiveUp(p)
  PROVE  GoesOn(p)
<1> USE DEF LifecycleInv
<1>1. CASE Acquire(p)
  BY <1>1 DEF Acquire, GoesOn, TypeOK, Operation
<1>2. CASE Prepare(p)
  BY <1>2, StepGoesOn, DoneGoesOn DEF Prepare, Doing, Steps
<1>3. CASE Record(p)
  BY <1>3, DoneGoesOn DEF Record, Doing
<1>4. CASE Check(p)
  <2>1. CASE IdleFor(op[p].run) /\ Clean(op[p].tree)
    <3>1. Now(op[p].tree) \in Snapshot
      BY <1>4, <2>1, NowTyped DEF Clean, Check, Doing, TypeOK, Operation
    <3> QED
      BY <1>4, <2>1, <3>1 DEF Check, Doing, GoesOn, TypeOK, Operation
  <2>2. CASE ~(IdleFor(op[p].run) /\ Clean(op[p].tree))
    BY <1>4, <2>2, DoneGoesOn DEF Check, Verdict, Doing
  <2> QED
    BY <2>1, <2>2
<1>5. CASE Checked(p)
  BY <1>5, DoneGoesOn DEF Checked, Verdict, Doing
<1>6. CASE Admit(p)
  BY <1>6, StepGoesOn, DoneGoesOn DEF Admit, Conclude, Doing, Steps
<1>7. CASE Merge(p)
  BY <1>7, StepGoesOn DEF Merge, Doing, Steps
<1>8. CASE Confirm(p)
  BY <1>8, DoneGoesOn DEF Confirm, Conclude, Doing
<1>9. CASE Inspect(p)
  BY <1>9, StepGoesOn, DoneGoesOn DEF Inspect, Doing, Steps
<1>10. CASE Remove(p)
  BY <1>10, StepGoesOn, DoneGoesOn DEF Remove, Doing, Steps
<1>11. CASE Drop(p)
  BY <1>11, DoneGoesOn DEF Drop, Doing
<1>12. CASE Cancel(p)
  BY <1>12, DoneGoesOn DEF Cancel, Verdict, Conclude
<1>13. CASE GiveUp(p)
  BY <1>13, DoneGoesOn DEF GiveUp, Verdict, Conclude
<1> QED
  BY <1>1, <1>2, <1>3, <1>4, <1>5, <1>6, <1>7, <1>8, <1>9, <1>10, <1>11, <1>12, <1>13
     DEF Operate

(* What an operation does to the runs: only its own run is told anything, and *)
(* only as it ends.                                                        *)
LEMMA OnlyItsRun ==
  ASSUME LifecycleInv, NEW p \in Procs, Operate(p) \/ Cancel(p) \/ GiveUp(p)
  PROVE  /\ \A x \in Runs : Parent[x] # p =>
              /\ stage'[x] = stage[x] /\ verification'[x] = verification[x]
              /\ integration'[x] = integration[x]
         /\ op'[p] # Absent => UNCHANGED <<stage, verification, integration>>
<1> USE DEF LifecycleInv
<1>1. CASE op[p].kind = "reap"
  <2>1. UNCHANGED <<stage, verification, integration>>
    BY <1>1 DEF Operate, Acquire, Prepare, Record, Check, Checked, Admit, Merge, Confirm,
                Inspect, Remove, Drop, Cancel, GiveUp, Doing, receipts
  <2> QED
    BY <2>1
<1>2. CASE op[p].kind # "reap"
  <2>1. /\ op[p] # Absent /\ op[p].run \in Runs /\ Parent[op[p].run] = p
    BY <1>2 DEF OperationsApart, Operate, Acquire, Prepare, Record, Check, Checked, Admit,
                Merge, Confirm, Inspect, Remove, Drop, Cancel, GiveUp, Doing
  <2>2. \/ UNCHANGED <<stage, verification, integration>>
        \/ /\ Done(p)
           /\ \E s : stage' = [stage EXCEPT ![op[p].run] = s]
           /\ UNCHANGED <<verification, integration>>
        \/ \E s, c : Verdict(p, s, c) /\ UNCHANGED stage
        \/ \E s : Conclude(p, s) /\ UNCHANGED stage
    BY DEF Operate, Acquire, Prepare, Record, Check, Checked, Admit, Merge, Confirm,
           Inspect, Remove, Drop, Cancel, GiveUp, receipts
  <2>3. CASE UNCHANGED <<stage, verification, integration>>
    BY <2>3
  <2>4. CASE /\ Done(p)
             /\ \E s : stage' = [stage EXCEPT ![op[p].run] = s]
             /\ UNCHANGED <<verification, integration>>
    BY <2>1, <2>4, DoneGoesOn DEF TypeOK
  <2>5. CASE \E s, c : Verdict(p, s, c) /\ UNCHANGED stage
    BY <2>1, <2>5, DoneGoesOn DEF TypeOK, Verdict
  <2>6. CASE \E s : Conclude(p, s) /\ UNCHANGED stage
    BY <2>1, <2>6, DoneGoesOn DEF TypeOK, Conclude
  <2> QED
    BY <2>2, <2>3, <2>4, <2>5, <2>6
<1> QED
  BY <1>1, <1>2

(* Every step keeps the operations on one worktree apart.                    *)
LEMMA ApartSteps ==
  ASSUME LifecycleInv, Next
  PROVE  OperationsApart'
<1> USE LifecycleAssumption DEF LifecycleAssumption, LifecycleInv
<1>1. ASSUME NEW p \in Procs, Operate(p) \/ Cancel(p) \/ GiveUp(p)
      PROVE  OperationsApart'
  <2>1. GoesOn(p)
    BY <1>1, OperationGoesOn
  <2>2. /\ \A x \in Runs : Parent[x] # p =>
             /\ stage'[x] = stage[x] /\ verification'[x] = verification[x]
             /\ integration'[x] = integration[x]
        /\ op'[p] # Absent => UNCHANGED <<stage, verification, integration>>
    BY <1>1, OnlyItsRun
  <2> QED
    BY <2>1, <2>2 DEF GoesOn, OperationsApart, Passed
<1>2. ASSUME NEW r \in Runs, Launch(r)
      PROVE  OperationsApart'
  <2>1. \A q \in Procs : q # Parent[r] /\ op[q] # Absent /\ op[q].kind # "reap" =>
          LET x == op[q].run IN
          /\ stage'[x] = stage[x] /\ verification'[x] = verification[x]
          /\ integration'[x] = integration[x]
    BY <1>2 DEF Launch, OperationsApart, TypeOK, receipts
  <2>2. /\ Begin(Parent[r], "prepare", r, TreeOf[r]) /\ Parent[r] \in Procs
        /\ stage'[r] = "preparing"
    BY <1>2 DEF Launch, TypeOK
  <2> QED
    BY <2>1, <2>2, BeginApart
<1>3. ASSUME NEW r \in Runs, Verify(r)
      PROVE  OperationsApart'
  <2>1. \A q \in Procs : q # Parent[r] /\ op[q] # Absent /\ op[q].kind # "reap" =>
          LET x == op[q].run IN
          /\ stage'[x] = stage[x] /\ verification'[x] = verification[x]
          /\ integration'[x] = integration[x]
    BY <1>3 DEF Verify, OperationsApart, TypeOK
  <2>2. /\ Begin(Parent[r], "verify", r, TreeOf[r]) /\ Parent[r] \in Procs
        /\ verification'[r].state = "checking" /\ integration'[r] = "none"
    BY <1>3 DEF Verify, TypeOK, Receipt
  <2> QED
    BY <2>1, <2>2, BeginApart
<1>4. ASSUME NEW r \in Runs, Integrate(r)
      PROVE  OperationsApart'
  <2>1. \A q \in Procs : q # Parent[r] /\ op[q] # Absent /\ op[q].kind # "reap" =>
          LET x == op[q].run IN
          /\ stage'[x] = stage[x] /\ verification'[x] = verification[x]
          /\ integration'[x] = integration[x]
    BY <1>4 DEF Integrate, OperationsApart, TypeOK
  <2>2. CASE Contains(r)
    <3>1. op[Parent[r]] = Absent /\ UNCHANGED <<op, stage, verification>>
          /\ \A x \in Runs \ {r} : integration'[x] = integration[x]
      BY <1>4, <2>2 DEF Integrate, TypeOK
    <3> QED
      BY <3>1 DEF OperationsApart, Passed
  <2>3. CASE ~Contains(r)
    <3>1. /\ Begin(Parent[r], "integrate", r, TreeOf[r]) /\ Parent[r] \in Procs
          /\ verification'[r].state = "passed" /\ integration'[r] = "integrating"
      BY <1>4, <2>3 DEF Integrate, TypeOK, Passed
    <3> QED
      BY <2>1, <3>1, BeginApart
  <2> QED
    BY <2>2, <2>3
<1>5. ASSUME NEW r \in Runs, Spawn(r) \/ AgentEnds(r)
      PROVE  OperationsApart'
  BY <1>5 DEF Spawn, AgentEnds, OperationsApart, Passed, TypeOK, receipts
<1>6. ASSUME NEW p \in Procs, NEW w \in Trees, Reap(p, w)
      PROVE  OperationsApart'
  <2>1. /\ UNCHANGED <<stage, verification, integration>>
        /\ \A q \in Procs \ {p} : op'[q] = op[q]
        /\ op'[p] = [kind |-> "reap", run |-> Absent, tree |-> w, step |-> "waiting",
                     seen |-> Absent]
    BY <1>6 DEF Reap, Begin, TypeOK, receipts
  <2>2. op'[p].kind = "reap" /\ op'[p].step = "waiting"
    BY <2>1
  <2> QED
    BY <2>1, <2>2 DEF OperationsApart, Passed
<1>7. ASSUME NEW p \in Procs, NEW crash \in BOOLEAN, Replaced(p, crash)
      PROVE  OperationsApart'
  <2>1. GoesOn(p) /\ op'[p] = Absent
    BY <1>7, DoneGoesOn DEF Replaced
  <2>2. \A x \in Runs : Parent[x] # p =>
             /\ stage'[x] = stage[x] /\ verification'[x] = verification[x]
             /\ integration'[x] = integration[x]
    BY <1>7 DEF Replaced
  <2> QED
    BY <2>1, <2>2 DEF GoesOn, OperationsApart, Passed
<1>8. CASE UNCHANGED <<op, stage, verification, integration>>
  BY <1>8 DEF OperationsApart, Passed
<1>9. ASSUME NEW r \in Runs, Work(r) \/ MarkTerminal(r) \/ Age(r)
      PROVE  OperationsApart'
  BY <1>8, <1>9 DEF Work, MarkTerminal, Age, receipts
<1>10. ASSUME NEW w \in Trees, Adopt(w)
       PROVE  OperationsApart'
  BY <1>8, <1>10 DEF Adopt, receipts
<1>11. CASE LoseLock \/ UserCommits \/ HooksChange
  BY <1>8, <1>11 DEF LoseLock, UserCommits, HooksChange, receipts
<1> QED
  BY <1>1, <1>2, <1>3, <1>4, <1>5, <1>6, <1>7, <1>9, <1>10, <1>11 DEF Next

------------------------------------------------------------------------------
(* Receipts                                                                *)

(* What can become of the receipts *)
LEMMA VerificationSteps ==
  ASSUME LifecycleInv, Next
  PROVE  \/ UNCHANGED <<verification, integration>>
         \/ \E r \in Runs : Verify(r) \/ Integrate(r)
         \/ \E p \in Procs : Checked(p)
         \/ \E p \in Procs : op[p] # Absent /\ op[p].kind = "verify"
              /\ \E s \in {"failed", "interrupted"} : Verdict(p, s, Absent)
         \/ \E p \in Procs : op[p] # Absent /\ op[p].kind = "integrate"
              /\ \E s \in {"failed", "interrupted"} : Conclude(p, s)
         \/ \E p \in Procs, crash \in BOOLEAN : Replaced(p, crash)
<1>1. ASSUME NEW r \in Runs, Launch(r) \/ Spawn(r) \/ Work(r) \/ AgentEnds(r)
                             \/ MarkTerminal(r) \/ Age(r)
      PROVE  UNCHANGED <<verification, integration>>
  BY <1>1 DEF Launch, Spawn, Work, AgentEnds, MarkTerminal, Age, receipts
<1>2. ASSUME NEW p \in Procs,
             \/ Acquire(p) \/ Prepare(p) \/ Record(p) \/ Merge(p) \/ Inspect(p)
             \/ Remove(p) \/ Drop(p) \/ \E w \in Trees : Reap(p, w)
      PROVE  UNCHANGED <<verification, integration>>
  BY <1>2 DEF Acquire, Prepare, Record, Merge, Inspect, Remove, Drop, Reap, receipts
<1>3. ASSUME NEW p \in Procs, Check(p) \/ Admit(p) \/ Confirm(p) \/ Cancel(p) \/ GiveUp(p)
      PROVE  \/ UNCHANGED <<verification, integration>>
             \/ op[p] # Absent /\ op[p].kind = "verify"
                /\ \E s \in {"failed", "interrupted"} : Verdict(p, s, Absent)
             \/ op[p] # Absent /\ op[p].kind = "integrate"
                /\ \E s \in {"failed", "interrupted"} : Conclude(p, s)
  BY <1>3 DEF Check, Admit, Confirm, Cancel, CancelledAs, GiveUp, Doing, receipts
<1>4. CASE (\E w \in Trees : Adopt(w)) \/ LoseLock \/ UserCommits \/ HooksChange
  BY <1>4 DEF Adopt, LoseLock, UserCommits, HooksChange, receipts
<1> QED
  BY <1>1, <1>2, <1>3, <1>4 DEF Next, Operate

(* The target only grows, and but for the commits of users only by a merge. *)
LEMMA TargetSteps ==
  ASSUME LifecycleInv, Next
  PROVE  /\ target \subseteq target'
         /\ target' # target /\ commits' = commits
              => \E r \in Runs : Passed(r) /\ verification[r].seen.head = target'
                                 /\ target \subseteq target'
<1> USE DEF LifecycleInv
<1>1. ASSUME NEW r \in Runs,
             \/ Launch(r) \/ Spawn(r) \/ Work(r) \/ AgentEnds(r) \/ MarkTerminal(r)
             \/ Age(r) \/ Verify(r) \/ Integrate(r)
      PROVE  target' = target
  BY <1>1 DEF Launch, Spawn, Work, AgentEnds, MarkTerminal, Age, Verify, Integrate, git
<1>2. ASSUME NEW p \in Procs, Merge(p)
      PROVE  \/ target' = target
             \/ \E r \in Runs : Passed(r) /\ verification[r].seen.head = target'
                                /\ target \subseteq target'
  BY <1>2 DEF Merge, Doing, OperationsApart
<1>3. ASSUME NEW p \in Procs,
             \/ Acquire(p) \/ Prepare(p) \/ Record(p) \/ Check(p) \/ Checked(p) \/ Admit(p)
             \/ Confirm(p) \/ Inspect(p) \/ Remove(p) \/ Drop(p) \/ Cancel(p) \/ GiveUp(p)
             \/ (\E w \in Trees : Reap(p, w)) \/ (\E crash \in BOOLEAN : Replaced(p, crash))
      PROVE  target' = target
  BY <1>3 DEF Acquire, Prepare, Record, Check, Checked, Admit, Confirm, Inspect, Remove,
              Drop, Cancel, GiveUp, Reap, Replaced, git
<1>4. CASE (\E w \in Trees : Adopt(w)) \/ LoseLock \/ HooksChange
  BY <1>4 DEF Adopt, LoseLock, HooksChange, git
<1>5. CASE UserCommits
  <2>1. commits' # commits
    BY <1>5 DEF UserCommits, TypeOK
  <2> QED
    BY <1>5, <2>1 DEF UserCommits
<1> QED
  BY <1>1, <1>2, <1>3, <1>4, <1>5 DEF Next, Operate

(* Every step keeps the receipts complete and true.                          *)
LEMMA ReceiptSteps ==
  ASSUME LifecycleInv, Next
  PROVE  /\ ReceiptsComplete' /\ IntegratedIsTrue'
         /\ \A r \in Runs :
              verification'[r].state = "passed" /\ verification'[r] # verification[r]
                => /\ Clean(TreeOf[r]) /\ verification'[r].seen = Now(TreeOf[r])
                   /\ \E p \in Procs : op[p] # Absent /\ op[p].run = r
                                       /\ op[p].seen = Now(TreeOf[r])
<1> USE LifecycleAssumption DEF LifecycleAssumption, LifecycleInv
<1> DEFINE AsChecked(r) ==
             /\ Clean(TreeOf[r]) /\ verification'[r].seen = Now(TreeOf[r])
             /\ \E p \in Procs : op[p] # Absent /\ op[p].run = r
                                 /\ op[p].seen = Now(TreeOf[r])
           Goal == /\ ReceiptsComplete' /\ IntegratedIsTrue'
                   /\ \A r \in Runs :
                        verification'[r].state = "passed"
                        /\ verification'[r] # verification[r] => AsChecked(r)
<1>0. target \subseteq target'
  BY TargetSteps
<1>1. CASE UNCHANGED <<verification, integration>>
  BY <1>0, <1>1 DEF ReceiptsComplete, IntegratedIsTrue, Passed, Contains
<1>2. ASSUME NEW r \in Runs, Verify(r)
      PROVE  Goal
  <2>1. /\ verification' = [verification EXCEPT ![r] = Receipt("checking", Absent)]
        /\ integration' = [integration EXCEPT ![r] = "none"] /\ target' = target
    BY <1>2 DEF Verify, git
  <2>2. verification'[r].state = "checking" /\ integration'[r] = "none"
        /\ \A x \in Runs \ {r} : verification'[x] = verification[x]
                                 /\ integration'[x] = integration[x]
    BY <2>1 DEF TypeOK, Receipt
  <2> QED
    BY <2>1, <2>2 DEF ReceiptsComplete, IntegratedIsTrue, Passed, Contains
<1>3. ASSUME NEW r \in Runs, Integrate(r)
      PROVE  Goal
  <2>1. /\ verification' = verification /\ target' = target
        /\ integration'[r] = "integrated" => Passed(r) /\ Contains(r)
        /\ \A x \in Runs \ {r} : integration'[x] = integration[x]
    BY <1>3 DEF Integrate, git, TypeOK
  <2> QED
    BY <2>1 DEF ReceiptsComplete, IntegratedIsTrue, Passed, Contains
<1>4. ASSUME NEW p \in Procs, op[p] # Absent, op[p].kind = "verify",
             NEW s \in {"passed", "failed", "interrupted"}, NEW seen, Verdict(p, s, seen),
             s = "passed" => seen \in Snapshot /\ op[p].seen = seen
                             /\ Clean(op[p].tree) /\ Now(op[p].tree) = seen
      PROVE  Goal
  <2> DEFINE r == op[p].run
  <2>1. /\ r \in Runs /\ op[p].tree = TreeOf[r] /\ integration[r] = "none"
    BY <1>4 DEF OperationsApart
  <2>2. /\ verification'[r] = Receipt(s, seen) /\ integration' = integration
        /\ \A x \in Runs \ {r} : verification'[x] = verification[x]
    BY <1>4, <2>1 DEF Verdict, TypeOK
  <2>3. verification'[r].state = s /\ verification'[r].seen = seen
    BY <2>2 DEF Receipt
  <2>4. ReceiptsComplete'
    BY <1>4, <2>1, <2>2, <2>3 DEF ReceiptsComplete, Passed
  <2>5. IntegratedIsTrue'
    BY <1>0, <2>1, <2>2 DEF IntegratedIsTrue, Passed, Contains
  <2>6. ASSUME NEW x \in Runs, verification'[x].state = "passed",
               verification'[x] # verification[x]
        PROVE  AsChecked(x)
    BY <1>4, <2>1, <2>2, <2>3, <2>6
  <2> QED
    BY <2>4, <2>5, <2>6
<1>5. ASSUME NEW p \in Procs, Checked(p)
      PROVE  Goal
  <2>1. op[p] # Absent /\ op[p].kind = "verify" /\ op[p].seen \in Snapshot
    BY <1>5 DEF Checked, Doing, OperationsApart
  <2>2. CASE Clean(op[p].tree) /\ Now(op[p].tree) = op[p].seen
             /\ Verdict(p, "passed", op[p].seen)
    BY <1>4, <2>1, <2>2
  <2>3. CASE Verdict(p, "failed", Absent)
    BY <1>4, <2>1, <2>3
  <2> QED
    BY <1>5, <2>2, <2>3 DEF Checked
<1>6. ASSUME NEW p \in Procs, op[p] # Absent, op[p].kind = "verify",
             NEW s \in {"failed", "interrupted"}, Verdict(p, s, Absent)
      PROVE  Goal
  BY <1>4, <1>6
<1>7. ASSUME NEW p \in Procs, op[p] # Absent, op[p].kind = "integrate",
             NEW s \in {"failed", "interrupted"}, Conclude(p, s)
      PROVE  Goal
  <2> DEFINE r == op[p].run
  <2>1. r \in Runs /\ Passed(r)
    BY <1>7 DEF OperationsApart
  <2>2. /\ verification' = verification
        /\ integration'[r] = "integrated" => Contains(r)
        /\ \A x \in Runs \ {r} : integration'[x] = integration[x]
    BY <1>7, <2>1 DEF Conclude, TypeOK
  <2> QED
    BY <1>0, <2>1, <2>2 DEF ReceiptsComplete, IntegratedIsTrue, Passed, Contains
<1>8. ASSUME NEW p \in Procs, NEW crash \in BOOLEAN, Replaced(p, crash)
      PROVE  Goal
  <2>1. ASSUME NEW x \in Runs
        PROVE  /\ \/ verification'[x] = verification[x]
                  \/ /\ verification'[x] = Receipt("interrupted", Absent)
                     /\ verification[x].state = "checking"
               /\ integration'[x] \in {integration[x], "interrupted"}
    <3>1. verification'[x] = IF Parent[x] = p /\ verification[x].state = "checking"
                             THEN Receipt("interrupted", Absent) ELSE verification[x]
      BY <1>8, <2>1 DEF Replaced
    <3>2. integration'[x] = IF Parent[x] = p /\ integration[x] = "integrating"
                            THEN "interrupted" ELSE integration[x]
      BY <1>8, <2>1 DEF Replaced, InterruptedAs
    <3> QED
      BY <3>1, <3>2
  <2>2. Receipt("interrupted", Absent).state = "interrupted"
    BY DEF Receipt
  <2> QED
    BY <1>0, <2>1, <2>2 DEF ReceiptsComplete, IntegratedIsTrue, Passed, Contains
<1> QED
  BY <1>1, <1>2, <1>3, <1>5, <1>6, <1>7, <1>8, VerificationSteps

------------------------------------------------------------------------------
(* The lock                                                                *)

(* An operation that goes on past the lock holds it, and alone.            *)
LEMMA OneIsPast ==
  ASSUME LifecycleInv, ~stolen, NEW p \in Procs, NEW q \in Procs,
         op[p] # Absent, op[p].step # "waiting",
         op[q] # Absent, op[q].step # "waiting"
  PROVE  p = q /\ lock = p
BY DEF LifecycleInv, LockExclusive

(* Every step leaves the integration lock to one.                            *)
LEMMA LockSteps ==
  ASSUME LifecycleInv, Next
  PROVE  LockExclusive'
<1> USE LifecycleAssumption DEF LifecycleAssumption, LifecycleInv
<1>1. ASSUME NEW p \in Procs, op[p] # Absent, Done(p)
      PROVE  LockExclusive'
  BY <1>1, AbsentAssumption DEF AbsentAssumption, Done, LockExclusive, TypeOK
<1>2. ASSUME NEW p \in Procs, op[p] # Absent, op[p].step # "waiting",
             UNCHANGED <<lock, stolen>>, GoesOn(p)
      PROVE  LockExclusive'
  BY <1>2 DEF GoesOn, LockExclusive
<1>3. ASSUME NEW p \in Procs, Acquire(p)
      PROVE  LockExclusive'
  <2>1. GoesOn(p)
    BY <1>3, OperationGoesOn DEF Operate
  <2> QED
    BY <1>3, <2>1, AbsentAssumption DEF AbsentAssumption, Acquire, GoesOn, LockExclusive
<1>4. ASSUME NEW p \in Procs, NEW k, NEW r, NEW w, Begin(p, k, r, w),
             UNCHANGED <<lock, stolen>>
      PROVE  LockExclusive'
  <2>1. /\ \A q \in Procs \ {p} : op'[q] = op[q]
        /\ op'[p].step = "waiting"
    BY <1>4 DEF Begin, TypeOK
  <2> QED
    BY <1>4, <2>1 DEF LockExclusive
<1>5. CASE UNCHANGED <<op, lock, stolen>>
  BY <1>5 DEF LockExclusive
<1>6. ASSUME NEW p \in Procs, Operate(p) \/ Cancel(p) \/ GiveUp(p)
      PROVE  LockExclusive'
  <2>1. \/ Acquire(p)
        \/ op[p] # Absent /\ Done(p)
        \/ op[p] # Absent /\ op[p].step # "waiting" /\ UNCHANGED <<lock, stolen>>
    BY <1>6 DEF Operate, Prepare, Record, Check, Checked, Admit, Merge, Confirm, Inspect,
                Remove, Drop, Cancel, GiveUp, Doing, Step, Verdict, Conclude, locking
  <2> QED
    BY <1>1, <1>2, <1>3, <1>6, <2>1, OperationGoesOn
<1>7. ASSUME NEW r \in Runs,
             \/ Launch(r) \/ Spawn(r) \/ Work(r) \/ AgentEnds(r) \/ MarkTerminal(r)
             \/ Age(r) \/ Verify(r) \/ Integrate(r)
      PROVE  LockExclusive'
  <2>1. CASE Launch(r) \/ Verify(r) \/ Integrate(r)
    BY <1>4, <1>5, <2>1 DEF Launch, Verify, Integrate, locking
  <2>2. CASE Spawn(r) \/ Work(r) \/ AgentEnds(r) \/ MarkTerminal(r) \/ Age(r)
    BY <1>5, <2>2 DEF Spawn, Work, AgentEnds, MarkTerminal, Age, locking
  <2> QED
    BY <1>7, <2>1, <2>2
<1>8. ASSUME NEW p \in Procs, NEW w \in Trees, Reap(p, w)
      PROVE  LockExclusive'
  BY <1>4, <1>8 DEF Reap, locking
<1>9. ASSUME NEW p \in Procs, NEW crash \in BOOLEAN, Replaced(p, crash)
      PROVE  LockExclusive'
  BY <1>1, <1>9 DEF Replaced
<1>10. CASE LoseLock
  BY <1>10 DEF LoseLock, LockExclusive
<1>11. CASE (\E w \in Trees : Adopt(w)) \/ UserCommits \/ HooksChange
  BY <1>5, <1>11 DEF Adopt, UserCommits, HooksChange, locking
<1> QED
  BY <1>6, <1>7, <1>8, <1>9, <1>10, <1>11 DEF Next

------------------------------------------------------------------------------
(* Who uses a worktree                                                     *)

InUse ==
  Unrecorded /\ WorkHasTree /\ TreesKept /\ ReservedBeforeStart /\ ReviewedAlone

(* The agents, and what is said of them while they go on without the lock   *)
LEMMA AgentsInUse ==
  ASSUME LifecycleInv, NEW r \in Runs,
         Spawn(r) \/ Work(r) \/ AgentEnds(r) \/ MarkTerminal(r) \/ Age(r)
  PROVE  InUse'
<1> USE LifecycleAssumption DEF LifecycleAssumption, LifecycleInv
<1>0. TreeOf[r] \in Trees
  OBVIOUS
<1>1. CASE Spawn(r)
  BY <1>1 DEF Spawn, InUse, Unrecorded, WorkHasTree, TreesKept, ReservedBeforeStart,
              ReviewedAlone, AtWork, Reserved, Doing, TypeOK, git, locking
<1>2. CASE Work(r)
  <2>1. \A w \in Trees : tree[w] # Absent => tree'[w] # Absent
    BY <1>0, <1>2, WorkTyped, AbsentAssumption DEF AbsentAssumption, TypeOK
  <2> QED
    BY <1>2, <2>1 DEF Work, InUse, Unrecorded, WorkHasTree, TreesKept, ReservedBeforeStart,
                ReviewedAlone, AtWork, Reserved, Doing, TypeOK, Operation, locking
<1>3. CASE AgentEnds(r)
  BY <1>3 DEF AgentEnds, InUse, Unrecorded, WorkHasTree, TreesKept, ReservedBeforeStart,
              ReviewedAlone, AtWork, Reserved, Doing, TypeOK, git, locking
<1>4. CASE MarkTerminal(r)
  <2>1. /\ ledger' = [ledger EXCEPT ![TreeOf[r]][r] = "terminal"]
        /\ ledger[TreeOf[r]] # Absent /\ ledger[TreeOf[r]][r] = "running"
        /\ stage[r] \in {"complete", "failed", "working"}
        /\ UNCHANGED <<tree, aged, stage, op, stolen>>
    BY <1>4 DEF MarkTerminal, git, locking
  <2>2. ledger[TreeOf[r]] \in [Runs -> Reservation]
    BY <1>0, <2>1 DEF TypeOK
  <2>3. /\ ledger'[TreeOf[r]] # Absent
        /\ ledger'[TreeOf[r]][r] = "terminal"
        /\ \A x \in Runs \ {r} : ledger'[TreeOf[r]][x] = ledger[TreeOf[r]][x]
        /\ \A w \in Trees \ {TreeOf[r]} : ledger'[w] = ledger[w]
    BY <1>0, <2>1, <2>2, AbsentAssumption DEF AbsentAssumption, TypeOK, Reservation
  <2> QED
    BY <1>0, <2>1, <2>3 DEF InUse, Unrecorded, WorkHasTree, TreesKept,
              ReservedBeforeStart, ReviewedAlone, AtWork, Reserved, Doing
<1>5. CASE Age(r)
  BY <1>5 DEF Age, InUse, Unrecorded, WorkHasTree, TreesKept, ReservedBeforeStart,
              ReviewedAlone, AtWork, Reserved, Doing, TypeOK, git, locking
<1> QED
  BY <1>1, <1>2, <1>3, <1>4, <1>5

(* An operation begins, or ends with no more said of a worktree.            *)
LEMMA QuietInUse ==
  ASSUME LifecycleInv, NEW p \in Procs, UNCHANGED <<tree, ledger, aged>>, stolen' = stolen,
         \A q \in Procs \ {p} : op'[q] = op[q],
         op'[p] # Absent => op'[p].step \in {"waiting", "locked", "confirming"},
         \A r \in Runs : \/ stage'[r] = stage[r]
                         \/ stage[r] = "none" /\ stage'[r] = "preparing"
                         \/ stage'[r] = "failed"
  PROVE  InUse'
<1> USE DEF LifecycleInv
<1>1. Unrecorded' /\ WorkHasTree' /\ ReservedBeforeStart'
  BY DEF Unrecorded, WorkHasTree, ReservedBeforeStart, AtWork, Reserved
<1>2. TreesKept'
  BY DEF TreesKept, AtWork, Doing
<1>3. ReviewedAlone'
  BY DEF ReviewedAlone, Reserved, Doing
<1> QED
  BY <1>1, <1>2, <1>3 DEF InUse

(* What p does past the lock is done while nobody else is past it.          *)
LEMMA OthersWait ==
  ASSUME LifecycleInv, ~stolen, NEW p \in Procs, op[p] # Absent, op[p].step # "waiting",
         NEW q \in Procs, q # p, op'[q] = op[q]
  PROVE  /\ ~Doing(q, "prepare", "recording")'
         /\ ~Doing(q, "reap", "removing")' /\ ~Doing(q, "reap", "dropping")'
         /\ ~Doing(q, "verify", "checking")' /\ ~Doing(q, "integrate", "merging")'
BY OneIsPast DEF Doing

(* No step of an operation takes away what another uses.                     *)
LEMMA OperationsInUse ==
  ASSUME LifecycleInv, NEW p \in Procs,
         \/ Prepare(p) \/ Record(p) \/ Check(p) \/ Checked(p) \/ Admit(p) \/ Merge(p)
         \/ Confirm(p) \/ Inspect(p) \/ Remove(p) \/ Drop(p)
  PROVE  InUse'
<1> USE LifecycleAssumption DEF LifecycleAssumption, LifecycleInv
<1> DEFINE w == op[p].tree
           r == op[p].run
<1>0. /\ op[p] # Absent /\ op[p].step # "waiting" /\ w \in Trees
      /\ op[p].kind # "reap" => r \in Runs /\ Parent[r] = p /\ w = TreeOf[r]
      /\ \A q \in Procs : q # p => op'[q] = op[q]
  <2>1. op[p] # Absent /\ op[p].step # "waiting"
    BY DEF Prepare, Record, Check, Checked, Admit, Merge, Confirm, Inspect, Remove, Drop,
           Doing
  <2> QED
    BY <2>1, OperationGoesOn DEF Operate, GoesOn, OperationsApart, TypeOK, Operation
<1>1. CASE Prepare(p)
  <2>1. /\ op[p].kind = "prepare" /\ r \in Runs
        /\ UNCHANGED <<ledger, aged>>
        /\ \A v \in Trees : v # w => tree'[v] = tree[v]
        /\ tree[w] # Absent => tree'[w] = tree[w]
    BY <1>0, <1>1 DEF Prepare, Doing, TypeOK, git
  <2>2. \A v \in Trees : tree[v] # Absent => tree'[v] # Absent
    BY <2>1
  <2>3. CASE tree'[w] # Absent /\ Step(p, "recording") /\ UNCHANGED stage
    <3>1. op'[p].kind = "prepare" /\ op'[p].step = "recording" /\ op'[p].tree = w
          /\ stolen' = stolen
      BY <1>0, <2>1, <2>3 DEF Step, TypeOK, Operation, locking
    <3>2. Unrecorded' /\ WorkHasTree' /\ ReservedBeforeStart'
      BY <2>1, <2>2, <2>3, <3>1 DEF Unrecorded, WorkHasTree, ReservedBeforeStart, AtWork,
                                    Reserved
    <3>3. TreesKept' /\ ReviewedAlone'
      BY <1>0, <2>3, <3>1, OthersWait DEF TreesKept, ReviewedAlone, Doing
    <3> QED
      BY <3>2, <3>3 DEF InUse
  <2>4. CASE Done(p) /\ stage' = [stage EXCEPT ![r] = "failed"]
    <3>1. op'[p] = Absent /\ stolen' = stolen
          /\ \A x \in Runs : stage'[x] \in {stage[x], "failed"}
      BY <2>1, <2>4 DEF Done, TypeOK
    <3>2. Unrecorded' /\ WorkHasTree' /\ ReservedBeforeStart'
      BY <2>1, <2>2, <3>1 DEF Unrecorded, WorkHasTree, ReservedBeforeStart, AtWork,
                                    Reserved
    <3>3. TreesKept' /\ ReviewedAlone'
      BY <1>0, <3>1, OthersWait DEF TreesKept, ReviewedAlone, Doing
    <3> QED
      BY <3>2, <3>3 DEF InUse
  <2> QED
    BY <1>0, <1>1, <2>3, <2>4, FreshTyped DEF Prepare, TypeOK
<1>2. CASE Record(p)
  <2>1. /\ op[p].kind = "prepare" /\ op[p].step = "recording"
        /\ r \in Runs /\ w = TreeOf[r] /\ stage[r] = "preparing" /\ r \notin aged
        /\ UNCHANGED <<tree, aged>>
        /\ stage' = [stage EXCEPT ![r] = "reserved"]
    BY <1>0, <1>2 DEF Record, Doing, OperationsApart, Unrecorded, git
  <2>2. /\ op'[p] = Absent /\ stolen' = stolen
    BY <1>2 DEF Record, Done, TypeOK
  <2> DEFINE runs == IF ledger[w] = Absent THEN NoReservations ELSE ledger[w]
  <2>3. /\ runs \in [Runs -> Reservation]
        /\ ledger' = [ledger EXCEPT ![w] = [runs EXCEPT ![r] = "running"]]
    BY <1>0, <1>2 DEF Record, TypeOK, NoReservations, Reservation
  <2>4. /\ ledger'[w] # Absent /\ ledger'[w][r] = "running"
        /\ \A x \in Runs \ {r} : ledger'[w][x] = IF ledger[w] = Absent THEN "none"
                                                 ELSE ledger[w][x]
        /\ \A v \in Trees \ {w} : ledger'[v] = ledger[v]
    <3>1. [runs EXCEPT ![r] = "running"] \in [Runs -> Reservation]
      BY <2>1, <2>3 DEF Reservation
    <3>2. ledger'[w] = [runs EXCEPT ![r] = "running"]
      BY <1>0, <2>3 DEF TypeOK
    <3> QED
      BY ZenonT(30), <1>0, <2>1, <2>3, <3>1, <3>2, AbsentAssumption
         DEF AbsentAssumption, TypeOK, NoReservations
  <2> HIDE DEF runs
  <2>5. /\ stage'[r] = "reserved"
        /\ \A x \in Runs \ {r} : stage'[x] = stage[x]
    BY <2>1 DEF TypeOK
  <2>6. ~stolen => tree[w] # Absent
    BY <1>0, <2>1 DEF TreesKept, Doing
  <2>7. Unrecorded' /\ WorkHasTree' /\ ReservedBeforeStart'
    BY <2>1, <2>2, <2>4, <2>5, <2>6
       DEF Unrecorded, WorkHasTree, ReservedBeforeStart, AtWork, Reserved
  <2>8. TreesKept' /\ ReviewedAlone'
    BY <1>0, <2>2, OthersWait DEF TreesKept, ReviewedAlone, Doing
  <2> QED
    BY <2>7, <2>8 DEF InUse
<1>3. CASE Check(p)
  <2>1. CASE IdleFor(r) /\ Clean(w)
    <3>1. /\ UNCHANGED <<tree, ledger, aged, stage, stolen>>
          /\ op'[p].kind = "verify" /\ op'[p].step = "checking" /\ op'[p].tree = w
          /\ w = TreeOf[r]
      BY <1>0, <1>3, <2>1 DEF Check, Doing, TypeOK, Operation, git, locking
    <3>2. Unrecorded' /\ WorkHasTree' /\ ReservedBeforeStart' /\ TreesKept'
      BY <1>0, <3>1, OthersWait DEF Unrecorded, WorkHasTree, ReservedBeforeStart,
                                    TreesKept, AtWork, Reserved, Doing
    <3>3. ReviewedAlone'
      <4>1. \A q \in Procs : ~stolen /\ q # p =>
              ~Doing(q, "verify", "checking")' /\ ~Doing(q, "integrate", "merging")'
        BY <1>0, OthersWait
      <4>2. ~stolen => \A x \in Runs : TreeOf[x] = w
                 => /\ stage[x] # "reserved"
                    /\ stage[x] = "working" => x \notin Reserved(w, "running") \ aged
        BY <2>1, <3>1 DEF IdleFor, ReservedBeforeStart, Reserved
      <4> QED
        BY <3>1, <4>1, <4>2 DEF ReviewedAlone, Reserved
    <3> QED
      BY <3>2, <3>3 DEF InUse
  <2>2. CASE ~(IdleFor(r) /\ Clean(w))
    BY <1>0, <1>3, <2>2, QuietInUse DEF Check, Verdict, Done, TypeOK, git
  <2> QED
    BY <2>1, <2>2
<1>4. CASE Checked(p)
  BY <1>0, <1>4, QuietInUse DEF Checked, Verdict, Done, TypeOK, git
<1>5. CASE Admit(p)
  <2>1. CASE IdleFor(r) /\ Step(p, "merging")
    <3>1. /\ UNCHANGED <<tree, ledger, aged, stage, stolen>>
          /\ op'[p].kind = "integrate" /\ op'[p].step = "merging" /\ op'[p].tree = w
          /\ w = TreeOf[r]
      BY <1>0, <1>5, <2>1 DEF Admit, Doing, TypeOK, Operation, Step, git, locking
    <3>2. Unrecorded' /\ WorkHasTree' /\ ReservedBeforeStart' /\ TreesKept'
      BY <1>0, <3>1, OthersWait DEF Unrecorded, WorkHasTree, ReservedBeforeStart,
                                    TreesKept, AtWork, Reserved, Doing
    <3>3. ReviewedAlone'
      <4>1. \A q \in Procs : ~stolen /\ q # p =>
              ~Doing(q, "verify", "checking")' /\ ~Doing(q, "integrate", "merging")'
        BY <1>0, OthersWait
      <4>2. ~stolen => \A x \in Runs : TreeOf[x] = w
                 => /\ stage[x] # "reserved"
                    /\ stage[x] = "working" => x \notin Reserved(w, "running") \ aged
        BY <2>1, <3>1 DEF IdleFor, ReservedBeforeStart, Reserved
      <4> QED
        BY <3>1, <4>1, <4>2 DEF ReviewedAlone, Reserved
    <3> QED
      BY <3>2, <3>3 DEF InUse
  <2>2. CASE Conclude(p, "failed")
    BY <1>0, <1>5, <2>2, QuietInUse DEF Admit, Conclude, Done, TypeOK, git
  <2> QED
    BY <1>5, <2>1, <2>2 DEF Admit
<1>6. CASE Merge(p)
  BY <1>0, <1>6, QuietInUse DEF Merge, Step, TypeOK, Operation, locking
<1>7. CASE Confirm(p)
  BY <1>0, <1>7, QuietInUse DEF Confirm, Conclude, Done, TypeOK, git
<1>8. CASE Inspect(p)
  <2>1. CASE /\ ledger[w] # Absent /\ ~Busy(w)
             /\ \/ Step(p, "dropping")
                \/ Using(w) = {} /\ Step(p, "removing")
    <3>1. /\ UNCHANGED <<tree, ledger, aged, stage, stolen>>
          /\ op'[p].kind = "reap" /\ op'[p].step \in {"dropping", "removing"}
          /\ op'[p].step = "removing" => Using(w) = {}
          /\ op'[p].tree = w
      BY <1>0, <1>8, <2>1 DEF Inspect, Doing, TypeOK, Operation, Step, git, locking
    <3>2. Unrecorded' /\ WorkHasTree' /\ ReservedBeforeStart' /\ ReviewedAlone'
      BY <1>0, <3>1, OthersWait DEF Unrecorded, WorkHasTree, ReservedBeforeStart,
                                    ReviewedAlone, AtWork, Reserved, Doing
    <3>3. ~stolen => \A x \in Runs : TreeOf[x] = w => stage[x] # "reserved"
      BY <2>1 DEF Busy, ReservedBeforeStart
    <3>4. TreesKept'
      BY <1>0, <3>1, <3>3, OthersWait DEF TreesKept, Using, AtWork, Doing
    <3> QED
      BY <3>2, <3>4 DEF InUse
  <2>2. CASE Done(p)
    BY <1>0, <1>8, <2>2, QuietInUse DEF Inspect, Done, TypeOK, git
  <2> QED
    BY <1>8, <2>1, <2>2 DEF Inspect
<1>9. CASE Remove(p)
  <2>1. CASE Edit(w, Absent) /\ Step(p, "dropping")
    <3>1. /\ UNCHANGED <<ledger, aged, stage, stolen>>
          /\ op[p].kind = "reap" /\ op[p].step = "removing"
          /\ op'[p].kind = "reap" /\ op'[p].step = "dropping" /\ op'[p].tree = w
          /\ \A v \in Trees : v # w => tree'[v] = tree[v]
      BY <1>0, <1>9, <2>1 DEF Remove, Edit, Doing, TypeOK, Operation, Step, locking
    <3>2. ~stolen => \A x \in Runs : TreeOf[x] = w => ~AtWork(x)
      BY <1>0, <3>1 DEF TreesKept, Doing
    <3>3. Unrecorded' /\ WorkHasTree' /\ ReservedBeforeStart'
      BY <3>1, <3>2 DEF Unrecorded, WorkHasTree, ReservedBeforeStart, AtWork, Reserved
    <3>4. TreesKept' /\ ReviewedAlone'
      BY <1>0, <3>1, <3>2, OthersWait DEF TreesKept, ReviewedAlone, AtWork, Doing
    <3> QED
      BY <3>3, <3>4 DEF InUse
  <2>2. CASE Done(p) /\ UNCHANGED tree
    BY <1>0, <1>9, <2>2, QuietInUse DEF Remove, Done, TypeOK
  <2> QED
    BY <1>9, <2>1, <2>2 DEF Remove
<1>10. CASE Drop(p)
  <2>1. /\ op[p].kind = "reap" /\ op[p].step = "dropping"
        /\ ledger' = [ledger EXCEPT ![w] = Absent]
        /\ aged' = aged \ {x \in Runs : TreeOf[x] = w}
        /\ UNCHANGED <<tree, stage, stolen>> /\ op'[p] = Absent
    BY <1>10 DEF Drop, Doing, Done, TypeOK, git
  <2>2. /\ ledger'[w] = Absent
        /\ \A v \in Trees : v # w => ledger'[v] = ledger[v]
    BY <1>0, <2>1 DEF TypeOK
  <2>3. ~stolen => \A x \in Runs : TreeOf[x] = w => stage[x] # "reserved"
    BY <1>0, <2>1 DEF TreesKept, Doing
  <2>4. Unrecorded' /\ WorkHasTree' /\ ReservedBeforeStart'
    BY <2>1, <2>2, <2>3 DEF Unrecorded, WorkHasTree, ReservedBeforeStart, AtWork, Reserved
  <2>5. TreesKept' /\ ReviewedAlone'
    BY <1>0, <2>1, OthersWait DEF TreesKept, ReviewedAlone, Doing
  <2> QED
    BY <2>4, <2>5 DEF InUse
<1> QED
  BY <1>1, <1>2, <1>3, <1>4, <1>5, <1>6, <1>7, <1>8, <1>9, <1>10

(* Nor does any other step.                                                  *)
LEMMA UseSteps ==
  ASSUME LifecycleInv, Next
  PROVE  InUse'
<1> USE LifecycleAssumption DEF LifecycleAssumption, LifecycleInv
<1>1. ASSUME NEW p \in Procs, Operate(p)
      PROVE  InUse'
  <2>1. CASE Acquire(p)
    <3>1. /\ UNCHANGED <<tree, ledger, aged, stage, stolen>>
          /\ op'[p].step = "locked" /\ \A q \in Procs : q # p => op'[q] = op[q]
      BY <2>1 DEF Acquire, TypeOK, Operation, git
    <3> QED
      BY <3>1, QuietInUse
  <2> QED
    BY <1>1, <2>1, OperationsInUse DEF Operate
<1>2. ASSUME NEW r \in Runs, Spawn(r) \/ Work(r) \/ AgentEnds(r) \/ MarkTerminal(r) \/ Age(r)
      PROVE  InUse'
  BY <1>2, AgentsInUse
<1>3. ASSUME NEW p \in Procs, NEW k, NEW r, NEW w, Begin(p, k, r, w),
             UNCHANGED <<tree, ledger, aged, stolen>>,
             \A x \in Runs : \/ stage'[x] = stage[x]
                             \/ stage[x] = "none" /\ stage'[x] = "preparing"
      PROVE  InUse'
  <2>1. op'[p].step = "waiting" /\ \A q \in Procs : q # p => op'[q] = op[q]
    BY <1>3 DEF Begin, TypeOK
  <2> QED
    BY <1>3, <2>1, QuietInUse
<1>4. ASSUME NEW r \in Runs, Launch(r) \/ Verify(r) \/ Integrate(r)
      PROVE  InUse'
  <2>1. CASE Launch(r)
    BY <1>3, <2>1 DEF Launch, TypeOK, git, locking
  <2>2. CASE Verify(r)
    BY <1>3, <2>2 DEF Verify, git, locking
  <2>3. CASE Integrate(r) /\ ~Contains(r)
    BY <1>3, <2>3 DEF Integrate, git, locking
  <2>4. CASE Integrate(r) /\ Contains(r)
    <3>1. UNCHANGED <<tree, ledger, aged, stage, stolen, op>> /\ op[Parent[r]] = Absent
      BY <2>4 DEF Integrate, git, locking
    <3> QED
      BY <3>1, QuietInUse
  <2> QED
    BY <1>4, <2>1, <2>2, <2>3, <2>4
<1>5. ASSUME NEW p \in Procs, Cancel(p) \/ GiveUp(p)
      PROVE  InUse'
  <2>1. /\ Done(p) /\ UNCHANGED <<tree, ledger, aged>>
        /\ \A x \in Runs : stage'[x] \in {stage[x], "failed"}
    BY <1>5 DEF Cancel, GiveUp, Verdict, Conclude, TypeOK, git
  <2>2. /\ op'[p] = Absent /\ stolen' = stolen
        /\ \A q \in Procs : q # p => op'[q] = op[q]
    BY <2>1 DEF Done, TypeOK
  <2> QED
    BY <2>1, <2>2, QuietInUse
<1>6. ASSUME NEW p \in Procs, NEW crash \in BOOLEAN, Replaced(p, crash)
      PROVE  InUse'
  <2>1. /\ Done(p) /\ UNCHANGED <<tree, ledger, aged>>
        /\ \A x \in Runs : stage'[x] \in {stage[x], "failed"}
    BY <1>6 DEF Replaced, git
  <2>2. /\ op'[p] = Absent /\ stolen' = stolen
        /\ \A q \in Procs : q # p => op'[q] = op[q]
    BY <2>1 DEF Done, TypeOK
  <2> QED
    BY <2>1, <2>2, QuietInUse
<1>7. ASSUME NEW p \in Procs, NEW w \in Trees, Reap(p, w)
      PROVE  InUse'
  BY <1>3, <1>7 DEF Reap, git, locking
<1>8. ASSUME NEW w \in Trees, Adopt(w)
      PROVE  InUse'
  <2>1. /\ UNCHANGED <<tree, aged, stage, op, stolen>> /\ ledger[w] = Absent
        /\ \A x \in Runs : ledger'[w][x] = "none"
        /\ \A v \in Trees : v # w => ledger'[v] = ledger[v]
    BY <1>8 DEF Adopt, TypeOK, NoReservations, git, locking
  <2> QED
    BY <2>1 DEF InUse, Unrecorded, WorkHasTree, TreesKept, ReservedBeforeStart,
                ReviewedAlone, AtWork, Reserved, Doing
<1>9. CASE LoseLock
  BY <1>9 DEF LoseLock, InUse, Unrecorded, WorkHasTree, TreesKept, ReservedBeforeStart,
              ReviewedAlone
<1>10. CASE UserCommits \/ HooksChange
  BY <1>10 DEF UserCommits, HooksChange, InUse, Unrecorded, WorkHasTree, TreesKept,
               ReservedBeforeStart, ReviewedAlone, AtWork, Reserved, Doing, locking
<1> QED
  BY <1>1, <1>2, <1>4, <1>5, <1>6, <1>7, <1>8, <1>9, <1>10 DEF Next

------------------------------------------------------------------------------
(* Nothing is under way.                                                     *)
LEMMA InitLifecycle == Init => LifecycleInv
<1> SUFFICES ASSUME Init
             PROVE  LifecycleInv
  OBVIOUS
<1>1. TypeOK
  BY InitTyped
<1>2. hooks <= faults /\ ReceiptsComplete /\ IntegratedIsTrue
  BY DEF Init, ReceiptsComplete, IntegratedIsTrue, Passed, Receipt
<1>3. OperationsApart /\ LockExclusive /\ TreesKept /\ ReviewedAlone
  BY DEF Init, OperationsApart, LockExclusive, TreesKept, ReviewedAlone, Doing
<1>4. Unrecorded /\ WorkHasTree /\ ReservedBeforeStart
  BY LifecycleAssumption DEF LifecycleAssumption, Init, Unrecorded, WorkHasTree,
     ReservedBeforeStart, AtWork
<1> QED
  BY <1>1, <1>2, <1>3, <1>4 DEF LifecycleInv

(* Every step keeps the invariant.                                           *)
LEMMA StepLifecycle == LifecycleInv /\ [Next]_vars => LifecycleInv'
<1> SUFFICES ASSUME LifecycleInv, [Next]_vars
             PROVE  LifecycleInv'
  OBVIOUS
<1>1. CASE Next
  BY <1>1, StepTypes, ApartSteps, ReceiptSteps, LockSteps, UseSteps DEF LifecycleInv, InUse
<1>2. CASE UNCHANGED vars
  BY <1>2 DEF vars, git, receipts, locking, bounds, LifecycleInv, TypeOK, OperationsApart,
     ReceiptsComplete, LockExclusive, Unrecorded, WorkHasTree, TreesKept,
     ReservedBeforeStart, ReviewedAlone, IntegratedIsTrue, AtWork, Reserved, Doing, Passed,
     Contains
<1> QED
  BY <1>1, <1>2

(* It holds in every execution.                                              *)
LEMMA LifecycleAlways == Spec => []LifecycleInv
<1> QED
  BY InitLifecycle, StepLifecycle, PTL DEF Spec

(* The ledger and the receipts are true (worktree-lifecycle.ts, 171-221;     *)
(* worktrunk.ts): an agent about to start is recorded as running, checks and *)
(* merges happen while nobody with a standing reservation is at work, as     *)
(* long as no lock was stolen; "integrated" is true in any case.            *)
THEOREM RecordsAreTrue == Spec => []RecordsTrue
<1>1. LifecycleInv => RecordsTrue
  BY DEF LifecycleInv, RecordsTrue
<1> QED
  BY <1>1, LifecycleAlways, PTL

(* No worktree is removed under an agent that is at work in it or about to   *)
(* start there (worktree-reaper.ts, 311-314), as long as no lock was stolen. *)
THEOREM NeverRemovedInUse == Spec => NoneRemovedInUse
<1>1. LifecycleInv /\ [Next]_vars
        => [\A w \in Trees : ~stolen /\ tree[w] # Absent /\ tree'[w] = Absent
              => \A r \in Runs : TreeOf[r] = w => stage[r] \notin {"reserved", "working"}]_vars
  <2> SUFFICES ASSUME LifecycleInv, Next, NEW w \in Trees, ~stolen, tree[w] # Absent,
                      tree'[w] = Absent, NEW r \in Runs, TreeOf[r] = w
               PROVE  ~AtWork(r)
    BY DEF AtWork
  <2> USE LifecycleAssumption DEF LifecycleAssumption, LifecycleInv
  <2>1. ASSUME NEW p \in Procs, Remove(p)
        PROVE  ~AtWork(r)
    <3>1. op[p].tree = w /\ Doing(p, "reap", "removing")
      BY <2>1 DEF Remove, Edit, Doing, TypeOK
    <3> QED
      BY <3>1 DEF TreesKept
  <2>2. ASSUME NEW p \in Procs, Prepare(p)
        PROVE  FALSE
    BY <2>2, FreshTyped DEF Prepare, TypeOK
  <2>3. ASSUME NEW x \in Runs, Work(x)
        PROVE  FALSE
    BY <2>3, WorkTyped, AbsentAssumption DEF AbsentAssumption, TypeOK
  <2>4. ASSUME NEW x \in Runs,
               \/ Launch(x) \/ Spawn(x) \/ AgentEnds(x) \/ MarkTerminal(x) \/ Age(x)
               \/ Verify(x) \/ Integrate(x)
        PROVE  FALSE
    BY <2>4 DEF Launch, Spawn, AgentEnds, MarkTerminal, Age, Verify, Integrate, git
  <2>5. ASSUME NEW p \in Procs,
               \/ Acquire(p) \/ Record(p) \/ Check(p) \/ Checked(p) \/ Admit(p) \/ Merge(p)
               \/ Confirm(p) \/ Inspect(p) \/ Drop(p) \/ Cancel(p) \/ GiveUp(p)
               \/ (\E v \in Trees : Reap(p, v)) \/ (\E crash \in BOOLEAN : Replaced(p, crash))
        PROVE  FALSE
    BY <2>5 DEF Acquire, Record, Check, Checked, Admit, Merge, Confirm, Inspect, Drop,
                Cancel, GiveUp, Reap, Replaced, git
  <2>6. CASE (\E v \in Trees : Adopt(v)) \/ LoseLock \/ UserCommits \/ HooksChange
    BY <2>6 DEF Adopt, LoseLock, UserCommits, HooksChange, git
  <2> QED
    BY <2>1, <2>2, <2>3, <2>4, <2>5, <2>6 DEF Next, Operate
<1> QED
  BY <1>1, LifecycleAlways, PTL DEF Spec, NoneRemovedInUse

(* What is integrated is exactly a commit whose checks passed, and a receipt *)
(* passes for what its checks ran on (worktree-lifecycle.ts, 209-212), even  *)
(* if a lock was stolen: the merge names the commit, and is a fast-forward. *)
THEOREM OnlyTheReviewed == Spec => ReviewedIntegrated
<1>1. LifecycleInv /\ [Next]_vars
        => [target' # target /\ commits' = commits
             => \E r \in Runs : Passed(r) /\ verification[r].seen.head = target'
                                /\ target \subseteq target']_vars
  BY TargetSteps
<1>2. LifecycleInv /\ [Next]_vars
        => [\A r \in Runs :
              verification'[r].state = "passed" /\ verification'[r] # verification[r]
                => /\ Clean(TreeOf[r]) /\ verification'[r].seen = Now(TreeOf[r])
                   /\ \E p \in Procs : op[p] # Absent /\ op[p].run = r
                                       /\ op[p].seen = Now(TreeOf[r])]_vars
  BY ReceiptSteps
<1> QED
  BY <1>1, <1>2, LifecycleAlways, PTL
     DEF Spec, ReviewedIntegrated, OnlyReviewedIntegrated, PassedAsChecked
=============================================================================
