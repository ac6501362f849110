--------------------------- MODULE WorktreeLifecycle ---------------------------
(***************************************************************************)
(* The worktrees that agents run in (extensions/subagent/worktrunk.ts,     *)
(* worktree-reaper.ts, worktree-lifecycle.ts and their calls in index.ts): *)
(* a ledger shared by every Pi process reserves a worktree for a run before *)
(* its agent starts; when the run has ended its work is verified,           *)
(* integrated as the exact commit that was reviewed, and the worktree is   *)
(* reaped.  Each operation holds the lifecycle lock; agents, users and the *)
(* calls of markTerminal do not.                                           *)
(*                                                                         *)
(* A commit is the set of changes it contains, so that a commit is an      *)
(* ancestor of another when it is a subset of it.                          *)
(***************************************************************************)
EXTENDS Naturals, FiniteSets

CONSTANTS
  Procs,      \* Pi processes
  Runs,       \* agent runs with a worktree
  Parent,     \* the process whose session started the run
  Trees,      \* paths of worktrees
  TreeOf,     \* the worktree that a run asks for
  MaxCommits, \* bound: commits of agents and users
  MaxFaults,  \* bound: crashes, lost locks, panes not adopted, changed hooks
  Absent

ASSUME LifecycleAssumption ==
  /\ Parent \in [Runs -> Procs] /\ TreeOf \in [Runs -> Trees]
  /\ MaxCommits \in Nat /\ MaxFaults \in Nat

VARIABLES
  tree,         \* the worktrees on disk
  target,       \* the commit of the default branch
  hooks,        \* the version of the approved pre-merge hooks
  ledger,       \* the reservations of each tracked worktree
  aged,         \* runs whose reservation is older than ABANDONED_RUN_MS
  stage,        \* the agents
  verification, \* the receipts of the runs
  integration,
  lock,         \* who holds the lifecycle lock
  stolen,       \* a lock was taken from an operation that went on
  op,           \* the operation under way in each process
  commits, faults

git      == <<tree, target, hooks>>
receipts == <<verification, integration>>
locking  == <<lock, stolen>>
bounds   == <<commits, faults>>
vars == <<git, ledger, aged, stage, receipts, locking, op, bounds>>

Commit == SUBSET (1 .. MaxCommits)
Tree == [head : Commit, dirty : BOOLEAN]
Reservation == {"none", "running", "terminal"}
Snapshot == [head : Commit, target : Commit, hooks : 0 .. MaxFaults]
Verification == [state : {"none", "checking", "passed", "failed", "interrupted"},
                 seen : Snapshot \cup {Absent}]
Integration == {"none", "integrating", "integrated", "failed", "interrupted"}
Operation == [kind : {"prepare", "verify", "integrate", "reap"},
              run : Runs \cup {Absent}, tree : Trees,
              step : {"waiting", "locked", "recording", "checking", "merging",
                      "confirming", "removing", "dropping"},
              seen : Snapshot \cup {Absent}]

(* "Absent" stands for undefined. *)
ASSUME AbsentAssumption ==
  Absent \notin Procs /\ Absent \notin Tree /\ Absent \notin [Runs -> Reservation]

Receipt(state, seen) == [state |-> state, seen |-> seen]
Passed(r) == verification[r].state = "passed"
Doing(p, kind, step) == op[p] # Absent /\ op[p].kind = kind /\ op[p].step = step
Using(w) == {r \in Runs : TreeOf[r] = w /\ stage[r] = "working"}
Reserved(w, status) ==
  {r \in Runs : ledger[w] # Absent /\ ledger[w][r] = status}

Init ==
  /\ tree = [w \in Trees |-> Absent] /\ target = {} /\ hooks = 0
  /\ ledger = [w \in Trees |-> Absent] /\ aged = {}
  /\ stage = [r \in Runs |-> "none"]
  /\ verification = [r \in Runs |-> Receipt("none", Absent)]
  /\ integration = [r \in Runs |-> "none"]
  /\ lock = Absent /\ stolen = FALSE /\ op = [p \in Procs |-> Absent]
  /\ commits = 0 /\ faults = 0

Fault == faults < MaxFaults /\ faults' = faults + 1

------------------------------------------------------------------------------
(* withLifecycleLock *)
Begin(p, kind, r, w) ==
  /\ op[p] = Absent
  /\ op' = [op EXCEPT ![p] = [kind |-> kind, run |-> r, tree |-> w,
                              step |-> "waiting", seen |-> Absent]]

(* Mutant: the lock is not asked for. *)
AcquireAnyway(p) ==
  /\ op[p] # Absent /\ op[p].step = "waiting"
  /\ op' = [op EXCEPT ![p].step = "locked"]
  /\ UNCHANGED <<git, ledger, aged, stage, receipts, locking, bounds>>

Acquire(p) ==
  /\ op[p] # Absent /\ op[p].step = "waiting"
  /\ lock = Absent
  /\ lock' = p
  /\ op' = [op EXCEPT ![p].step = "locked"]
  /\ UNCHANGED <<git, ledger, aged, stage, receipts, stolen, bounds>>

Step(p, step) == op' = [op EXCEPT ![p].step = step] /\ UNCHANGED locking

Done(p) ==
  /\ op' = [op EXCEPT ![p] = Absent]
  /\ lock' = IF lock = p THEN Absent ELSE lock
  /\ UNCHANGED stolen

(* A lock whose holder stood still for 30 seconds is stale. *)
LoseLock ==
  /\ Fault /\ lock # Absent /\ lock' = Absent /\ stolen' = TRUE
  /\ UNCHANGED <<git, ledger, aged, stage, receipts, op, commits>>

------------------------------------------------------------------------------
(* background_agent in a worktree: the session prepares and reserves it. *)
Launch(r) ==
  /\ stage[r] = "none"
  /\ Begin(Parent[r], "prepare", r, TreeOf[r])
  /\ stage' = [stage EXCEPT ![r] = "preparing"]
  /\ UNCHANGED <<git, ledger, aged, receipts, locking, bounds>>

Fresh == [head |-> target, dirty |-> FALSE]

(* prepareWorkspace: a new worktree at the head of the checkout, or the one  *)
(* in which the parent works if it is clean; wt and git may fail, also when *)
(* the worktree is there.                                                  *)
Prepare(p) ==
  LET w == op[p].tree IN
  /\ Doing(p, "prepare", "locked")
  /\ \/ /\ tree[w] = Absent
        /\ tree' = [tree EXCEPT ![w] = Fresh]
        /\ Step(p, "recording") /\ UNCHANGED stage
     \/ /\ tree[w] # Absent /\ ~tree[w].dirty
        /\ Step(p, "recording") /\ UNCHANGED <<tree, stage>>
     \/ /\ Done(p) /\ stage' = [stage EXCEPT ![op[p].run] = "failed"]
        /\ \/ UNCHANGED tree
           \/ tree[w] = Absent /\ tree' = [tree EXCEPT ![w] = Fresh]
  /\ UNCHANGED <<target, hooks, ledger, aged, receipts, bounds>>

NoReservations == [r \in Runs |-> "none"]

(* recordUnlocked, then the launcher gets the workspace. *)
Record(p) ==
  LET w == op[p].tree  r == op[p].run
      runs == IF ledger[w] = Absent THEN NoReservations ELSE ledger[w] IN
  /\ Doing(p, "prepare", "recording")
  /\ ledger' = [ledger EXCEPT ![w] = [runs EXCEPT ![r] = "running"]]
  /\ stage' = [stage EXCEPT ![r] = "reserved"]
  /\ Done(p)
  /\ UNCHANGED <<git, aged, receipts, bounds>>

(* The agent starts in the worktree, or the run fails before it does. *)
Spawn(r) ==
  /\ stage[r] = "reserved"
  /\ \E s \in {"working", "failed"} : stage' = [stage EXCEPT ![r] = s]
  /\ UNCHANGED <<git, ledger, aged, receipts, locking, op, bounds>>

Edit(w, t) == tree' = [tree EXCEPT ![w] = t]

(* The agent edits, commits or reconciles its branch with the target. *)
Work(r) ==
  LET w == TreeOf[r] IN
  /\ stage[r] = "working" /\ tree[w] # Absent
  /\ \/ Edit(w, [tree[w] EXCEPT !.dirty = TRUE]) /\ UNCHANGED commits
     \/ /\ tree[w].dirty /\ commits < MaxCommits /\ commits' = commits + 1
        /\ Edit(w, [head |-> tree[w].head \cup {commits + 1}, dirty |-> FALSE])
     \/ /\ ~tree[w].dirty /\ UNCHANGED commits
        /\ Edit(w, [tree[w] EXCEPT !.head = @ \cup target])
  /\ UNCHANGED <<target, hooks, ledger, aged, stage, receipts, locking, op, faults>>

AgentEnds(r) ==
  /\ stage[r] = "working"
  /\ \E s \in {"complete", "failed"} : stage' = [stage EXCEPT ![r] = s]
  /\ UNCHANGED <<git, ledger, aged, receipts, locking, op, bounds>>

(* markTerminal, by finish or by a restore; a restore also marks the run of  *)
(* a pane that it could not adopt and that goes on working.                *)
MarkTerminal(r) ==
  LET w == TreeOf[r] IN
  /\ ledger[w] # Absent /\ ledger[w][r] = "running"
  /\ \/ stage[r] \in {"complete", "failed"} /\ UNCHANGED faults
     \/ stage[r] = "working" /\ Fault
  /\ ledger' = [ledger EXCEPT ![w][r] = "terminal"]
  /\ UNCHANGED <<git, aged, stage, receipts, locking, op, commits>>

(* A day goes by; nobody has marked the run. *)
Age(r) ==
  /\ r \notin aged /\ stage[r] # "reserved"
  /\ ledger[TreeOf[r]] # Absent /\ ledger[TreeOf[r]][r] = "running"
  /\ aged' = aged \cup {r}
  /\ UNCHANGED <<git, ledger, stage, receipts, locking, op, bounds>>

(* Users commit to the default branch and change the hooks of the project. *)
UserCommits ==
  /\ commits < MaxCommits /\ commits' = commits + 1
  /\ target' = target \cup {commits + 1}
  /\ UNCHANGED <<tree, hooks, ledger, aged, stage, receipts, locking, op, faults>>

HooksChange ==
  /\ Fault /\ hooks' = hooks + 1
  /\ UNCHANGED <<tree, target, ledger, aged, stage, receipts, locking, op, commits>>

------------------------------------------------------------------------------
(* withIdleWorktree *)
IdleFor(r) ==
  /\ ledger[TreeOf[r]] # Absent /\ ledger[TreeOf[r]][r] = "terminal"
  /\ Reserved(TreeOf[r], "running") \subseteq aged

Now(w) == [head |-> tree[w].head, target |-> target, hooks |-> hooks]
Clean(w) == tree[w] # Absent /\ ~tree[w].dirty

(* verifyRun, of a run that has ended, by itself or by agent_control *)
Verify(r) ==
  /\ stage[r] = "complete" /\ integration[r] # "integrating"
  /\ Begin(Parent[r], "verify", r, TreeOf[r])
  /\ verification' = [verification EXCEPT ![r] = Receipt("checking", Absent)]
  /\ integration' = [integration EXCEPT ![r] = "none"]
  /\ UNCHANGED <<git, ledger, aged, stage, locking, bounds>>

Verdict(p, state, seen) ==
  /\ verification' = [verification EXCEPT ![op[p].run] = Receipt(state, seen)]
  /\ Done(p) /\ UNCHANGED integration

(* verify: the clean worktree is noted and the pre-merge checks run. *)
Check(p) ==
  LET w == op[p].tree IN
  /\ Doing(p, "verify", "locked")
  /\ IF IdleFor(op[p].run) /\ Clean(w)
     THEN /\ op' = [op EXCEPT ![p].step = "checking", ![p].seen = Now(w)]
          /\ UNCHANGED <<receipts, locking>>
     ELSE Verdict(p, "failed", Absent)
  /\ UNCHANGED <<git, ledger, aged, stage, bounds>>

(* The checks end: the receipt holds if nothing changed meanwhile. *)
Checked(p) ==
  LET w == op[p].tree IN
  /\ Doing(p, "verify", "checking")
  /\ \/ Clean(w) /\ Now(w) = op[p].seen /\ Verdict(p, "passed", op[p].seen)
     \/ Verdict(p, "failed", Absent)
  /\ UNCHANGED <<git, ledger, aged, stage, bounds>>

(* containsRevision *)
Contains(r) == verification[r].seen.head \subseteq target

(* agent_control integrate of the revision in a passing receipt: the intent *)
(* is recorded; a revision that is there already needs no lock.            *)
Integrate(r) ==
  /\ Passed(r) /\ op[Parent[r]] = Absent
  /\ IF Contains(r)
     THEN integration' = [integration EXCEPT ![r] = "integrated"] /\ UNCHANGED op
     ELSE /\ integration' = [integration EXCEPT ![r] = "integrating"]
          /\ Begin(Parent[r], "integrate", r, TreeOf[r])
  /\ UNCHANGED <<git, ledger, aged, stage, verification, locking, bounds>>

(* What integrate reports at last, also of an operation that threw. *)
Conclude(p, otherwise) ==
  LET r == op[p].run IN
  /\ integration' = [integration EXCEPT
       ![r] = IF Contains(r) THEN "integrated" ELSE otherwise]
  /\ Done(p) /\ UNCHANGED verification

(* The receipt still holds and the target can be fast-forwarded; the target *)
(* may also be dirty or on another branch.                                 *)
Admit(p) ==
  LET w == op[p].tree  r == op[p].run IN
  /\ Doing(p, "integrate", "locked")
  /\ \/ /\ IdleFor(r) /\ Clean(w) /\ Now(w) = verification[r].seen
        /\ target \subseteq verification[r].seen.head
        /\ Step(p, "merging") /\ UNCHANGED receipts
     \/ Conclude(p, "failed")
  /\ UNCHANGED <<git, ledger, aged, stage, bounds>>

(* Mutant: the branch of the worktree is merged, not the reviewed commit. *)
MergeBranch(p) ==
  /\ Doing(p, "integrate", "merging")
  /\ LET branch == tree[op[p].tree].head
     IN target' = IF tree[op[p].tree] # Absent /\ target \subseteq branch
                  THEN branch ELSE target
  /\ Step(p, "confirming")
  /\ UNCHANGED <<tree, hooks, ledger, aged, stage, receipts, bounds>>

(* git merge --ff-only of the revision; an error may come after the update. *)
Merge(p) ==
  /\ Doing(p, "integrate", "merging")
  /\ LET revision == verification[op[p].run].seen.head
     IN target' \in {target} \cup (IF target \subseteq revision THEN {revision} ELSE {})
  /\ Step(p, "confirming")
  /\ UNCHANGED <<tree, hooks, ledger, aged, stage, receipts, bounds>>

Confirm(p) ==
  /\ Doing(p, "integrate", "confirming")
  /\ Conclude(p, "failed")
  /\ UNCHANGED <<git, ledger, aged, stage, bounds>>

CancelledAs == "interrupted"

(* stop, or a session replacement, before the merge: the signal is seen at   *)
(* the next check of it.                                                   *)
Cancel(p) ==
  /\ op[p] # Absent
  /\ \/ op[p].kind = "verify" /\ Verdict(p, CancelledAs, Absent)
     \/ /\ op[p].kind = "integrate" /\ op[p].step # "confirming"
        /\ Conclude(p, "interrupted")
  /\ UNCHANGED <<git, ledger, aged, stage, bounds>>

(* Ten minutes without the lock *)
GiveUp(p) ==
  /\ op[p] # Absent /\ op[p].step = "waiting"
  /\ \/ /\ op[p].kind = "prepare" /\ Done(p) /\ UNCHANGED receipts
        /\ stage' = [stage EXCEPT ![op[p].run] = "failed"]
     \/ op[p].kind = "verify" /\ Verdict(p, "failed", Absent) /\ UNCHANGED stage
     \/ op[p].kind = "integrate" /\ Conclude(p, "failed") /\ UNCHANGED stage
     \/ op[p].kind = "reap" /\ Done(p) /\ UNCHANGED <<stage, receipts>>
  /\ UNCHANGED <<git, ledger, aged, bounds>>

InterruptedAs(r) == "interrupted"

(* The session is replaced before the result is stored, or the process dies *)
(* in an operation (its lock goes stale and an agent that was not started   *)
(* never is); restore reports what was under way as interrupted.           *)
Replaced(p, crash) ==
  /\ op[p] # Absent
  /\ crash => Fault
  /\ ~crash => op[p].kind = "integrate" /\ op[p].step = "confirming"
               /\ UNCHANGED faults
  /\ verification' = [r \in Runs |->
       IF Parent[r] = p /\ verification[r].state = "checking"
       THEN Receipt("interrupted", Absent)
       ELSE verification[r]]
  /\ integration' = [r \in Runs |->
       IF Parent[r] = p /\ integration[r] = "integrating" THEN InterruptedAs(r)
       ELSE integration[r]]
  /\ stage' = [r \in Runs |->
       IF Parent[r] = p /\ stage[r] \in {"preparing", "reserved"} THEN "failed"
       ELSE stage[r]]
  /\ Done(p)
  /\ UNCHANGED <<git, ledger, aged, commits>>

------------------------------------------------------------------------------
(* reapIntegratedWorktrees takes up one entry of the ledger. *)
Reap(p, w) ==
  /\ ledger[w] # Absent
  /\ Begin(p, "reap", Absent, w)
  /\ UNCHANGED <<git, ledger, aged, stage, receipts, locking, bounds>>

(* /worktrees-clean --adopt: worktrees that the ledger lost track of *)
Adopt(w) ==
  /\ lock = Absent /\ tree[w] # Absent /\ ledger[w] = Absent
  /\ ledger' = [ledger EXCEPT ![w] = NoReservations]
  /\ UNCHANGED <<git, aged, stage, receipts, locking, op, bounds>>

(* Mutant: only the processes inside are looked for. *)
BusyInside(w) == FALSE

(* "agent still running" *)
Busy(w) == ~(Reserved(w, "running") \subseteq aged)

(* reapEntry reads the entry again: a vanished worktree is dropped, and so   *)
(* is one that has become a primary or detached checkout, which stays on    *)
(* disk, whoever works in it; one that is clean, integrated and has no      *)
(* process inside is removed.                                              *)
Inspect(p) ==
  LET w == op[p].tree IN
  /\ Doing(p, "reap", "locked")
  /\ \/ /\ ledger[w] # Absent /\ ~Busy(w)
        /\ \/ Step(p, "dropping")
           \/ /\ Clean(w) /\ tree[w].head \subseteq target /\ Using(w) = {}
              /\ Step(p, "removing")
     \/ Done(p)
  /\ UNCHANGED <<git, ledger, aged, stage, receipts, bounds>>

(* wt remove: refuses a dirty worktree, keeps the branch if it moved. *)
Remove(p) ==
  LET w == op[p].tree IN
  /\ Doing(p, "reap", "removing")
  /\ \/ Clean(w) /\ Edit(w, Absent) /\ Step(p, "dropping")
     \/ Done(p) /\ UNCHANGED tree
  /\ UNCHANGED <<target, hooks, ledger, aged, stage, receipts, bounds>>

Drop(p) ==
  /\ Doing(p, "reap", "dropping")
  /\ ledger' = [ledger EXCEPT ![op[p].tree] = Absent]
  /\ aged' = aged \ {r \in Runs : TreeOf[r] = op[p].tree}
  /\ Done(p)
  /\ UNCHANGED <<git, stage, receipts, bounds>>

------------------------------------------------------------------------------
Operate(p) ==
  \/ Acquire(p) \/ Prepare(p) \/ Record(p) \/ Check(p) \/ Checked(p) \/ Admit(p)
  \/ Merge(p) \/ Confirm(p) \/ Inspect(p) \/ Remove(p) \/ Drop(p)

Next ==
  \/ \E r \in Runs :
       \/ Launch(r) \/ Spawn(r) \/ Work(r) \/ AgentEnds(r) \/ MarkTerminal(r)
       \/ Age(r) \/ Verify(r) \/ Integrate(r)
  \/ \E p \in Procs :
       \/ Operate(p) \/ Cancel(p) \/ GiveUp(p)
       \/ \E w \in Trees : Reap(p, w)
       \/ \E crash \in BOOLEAN : Replaced(p, crash)
  \/ \E w \in Trees : Adopt(w)
  \/ LoseLock \/ UserCommits \/ HooksChange

Spec == Init /\ [][Next]_vars

------------------------------------------------------------------------------
TypeOK ==
  /\ tree \in [Trees -> Tree \cup {Absent}] /\ target \in Commit
  /\ hooks \in 0 .. MaxFaults
  /\ ledger \in [Trees -> [Runs -> Reservation] \cup {Absent}] /\ aged \subseteq Runs
  /\ stage \in [Runs -> {"none", "preparing", "reserved", "working",
                          "complete", "failed"}]
  /\ verification \in [Runs -> Verification] /\ integration \in [Runs -> Integration]
  /\ lock \in Procs \cup {Absent} /\ stolen \in BOOLEAN /\ op \in [Procs -> Operation \cup {Absent}]
  /\ commits \in 0 .. MaxCommits /\ faults \in 0 .. MaxFaults

(* An agent that starts is recorded as running in the ledger, even when a    *)
(* reaper of another process is about to drop the entry of its worktree, as *)
(* long as no operation lost its lock while it went on (`stolen').         *)
ReservedBeforeStart ==
  ~stolen => \A r \in Runs : stage[r] = "reserved"
               => r \in Reserved(TreeOf[r], "running") \ aged

(* No worktree is removed under an agent that is at work in it or about to   *)
(* start there: neither of another process, nor one whose reservation was  *)
(* given up or is a day old (worktree-reaper.ts, 311-314), as long as no    *)
(* operation lost its lock.                                                *)
NoneRemovedInUse ==
  [][\A w \in Trees : ~stolen /\ tree[w] # Absent /\ tree'[w] = Absent
       => \A r \in Runs : TreeOf[r] = w => stage[r] \notin {"reserved", "working"}]_vars

(* While the checks of a worktree run, or a commit of it is merged, no agent *)
(* starts or works in it whose reservation stands, as long as no operation  *)
(* lost its lock.  A reservation stands no more once it was marked, is a day *)
(* old, or went with an entry that the reaper dropped.                      *)
ReviewedAlone ==
  ~stolen => \A p \in Procs :
    Doing(p, "verify", "checking") \/ Doing(p, "integrate", "merging")
      => \A r \in Runs : TreeOf[r] = op[p].tree
           => /\ stage[r] # "reserved"
              /\ stage[r] = "working" => r \notin Reserved(TreeOf[r], "running") \ aged

(* What an integration adds to the target is exactly a commit whose checks  *)
(* have passed, whatever became of its branch and whoever else commits     *)
(* (worktree-lifecycle.ts, 209-212).                                       *)
OnlyReviewedIntegrated ==
  [][target' # target /\ commits' = commits
       => \E r \in Runs : Passed(r) /\ verification[r].seen.head = target'
                          /\ target \subseteq target']_vars

(* A receipt that says "integrated" is true: through lost acknowledgements,  *)
(* cancellation, crashes and retries (worktree-lifecycle.ts, 171-173, 221). *)
IntegratedIsTrue ==
  \A r \in Runs : integration[r] = "integrated" => Passed(r) /\ Contains(r)

(* What the ledger and the receipts say of a worktree is true: who uses it,  *)
(* and what was integrated.                                                 *)
RecordsTrue == TypeOK /\ ReservedBeforeStart /\ ReviewedAlone /\ IntegratedIsTrue

(* A receipt passes for the commit and the hooks that its checks ran on,    *)
(* although agents, users and other processes go on meanwhile.             *)
PassedAsChecked ==
  [][\A r \in Runs : verification'[r].state = "passed" /\ verification'[r] # verification[r]
       => /\ Clean(TreeOf[r]) /\ verification'[r].seen = Now(TreeOf[r])
          /\ \E p \in Procs : op[p] # Absent /\ op[p].run = r
                              /\ op[p].seen = Now(TreeOf[r])]_vars

(* What is integrated is exactly what was checked.                           *)
ReviewedIntegrated == OnlyReviewedIntegrated /\ PassedAsChecked
=============================================================================
