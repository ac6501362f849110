----------------------------- MODULE ReviewLedger -----------------------------
(***************************************************************************)
(* The ledger of a code review (subagent/reviewer-skill/scripts).  Reviewers *)
(* run commands against one workspace: each checks that the repository is    *)
(* as it was inventoried, takes the lock of the writers, reads the ledger,   *)
(* changes and validates its copy, checks again, replaces the file, and      *)
(* removes or writes the report.  A command that fails, also between the two  *)
(* files, releases its lock; one that is killed leaves it, and it is removed  *)
(* by hand.  What an entry must contain is abstracted to whether it is valid. *)
(***************************************************************************)
EXTENDS Naturals

CONSTANTS
  Reviewers,   \* processes that run commands
  Items,       \* changed files
  MaxReviewCommands, \* bound: commands run
  NoReport, Nobody

VARIABLES
  drifted,   \* the repository is not as it was inventoried
  ledger,    \* ledger.json
  report,    \* report.md: the ledger it renders
  lock,      \* .ledger-writer.lock
  reviewer,  \* what each is doing: its stage, command and copy
  halfDone,  \* a writer was killed or failed between the ledger and the report
  commandsRun

ledgerVars == <<drifted, ledger, report, lock, reviewer, halfDone, commandsRun>>

(* initialize *)
Initial == [state |-> "open", intent |-> FALSE, coverage |-> [i \in Items |-> "pending"],
            candidate |-> [i \in Items |-> "none"]]

Commands ==
  [kind : {"intent"}] \cup
  [kind : {"mark"}, item : Items, status : {"pending", "reviewed", "deferred"}] \cup
  [kind : {"cand"}, item : Items, disposition : {"open", "confirmed", "deferred"}] \cup
  [kind : {"finish"}, state : {"complete", "incomplete"}, strict : BOOLEAN]

Idle == [stage |-> "idle"]

Init ==
  /\ drifted = FALSE /\ ledger = Initial /\ report = NoReport /\ lock = Nobody
  /\ reviewer = [r \in Reviewers |-> Idle] /\ halfDone = FALSE /\ commandsRun = 0

(* Mutant: a change leaves the state of the review alone. *)
ReopenedNever(l, c) == IF c.kind = "finish" THEN c.state ELSE l.state

(* A change opens the review again. *)
Reopened(l, c) == IF c.kind = "finish" THEN c.state ELSE "open"

(* run, within writer_lock *)
Applied(l, c) ==
  [l EXCEPT !.state = Reopened(l, c),
            !.intent = @ \/ c.kind = "intent",
            !.coverage = IF c.kind = "mark" THEN [@ EXCEPT ![c.item] = c.status] ELSE @,
            !.candidate = IF c.kind = "cand" THEN [@ EXCEPT ![c.item] = c.disposition] ELSE @]

(* validate *)
Errors(l) ==
  \/ ~l.intent
  \/ \E i \in Items : l.coverage[i] = "pending" \/ l.candidate[i] = "open"
Warnings(l) ==
  \/ l.state = "incomplete"
  \/ \E i \in Items : l.coverage[i] = "deferred" \/ l.candidate[i] = "deferred"
Valid(l, c) == c.kind = "finish" => ~Errors(l) /\ ~(c.strict /\ Warnings(l))

------------------------------------------------------------------------------
At(r, stage) == reviewer[r].stage = stage
Move(r, to) == reviewer' = [reviewer EXCEPT ![r] = to]

(* Another process edits the repository, or takes its edit back. *)
Edited ==
  /\ drifted' = ~drifted
  /\ UNCHANGED <<ledger, report, lock, reviewer, halfDone, commandsRun>>

(* run, up to the lock: assert_fresh *)
Begin(r, c) ==
  /\ At(r, "idle") /\ commandsRun < MaxReviewCommands /\ commandsRun' = commandsRun + 1
  /\ ~drifted /\ Move(r, [stage |-> "begun", command |-> c])
  /\ UNCHANGED <<drifted, ledger, report, lock, halfDone>>

MayLock == lock = Nobody

(* writer_lock, and the ledger is read; or the command is refused. *)
Locks(r) ==
  /\ At(r, "begun")
  /\ IF MayLock
     THEN /\ lock' = r
          /\ Move(r, [stage |-> "loaded", command |-> reviewer[r].command, copy |-> ledger])
     ELSE Move(r, Idle) /\ UNCHANGED lock
  /\ UNCHANGED <<drifted, ledger, report, halfDone, commandsRun>>

(* The change, validate and assert_fresh; an entry that is not valid fails,   *)
(* and the lock is released.                                               *)
Checks(r) ==
  /\ At(r, "loaded")
  /\ \/ LET l == Applied(reviewer[r].copy, reviewer[r].command)
        IN  /\ Valid(l, reviewer[r].command) /\ ~drifted
            /\ Move(r, [reviewer[r] EXCEPT !.stage = "checked", !.copy = l])
            /\ UNCHANGED lock
     \/ Move(r, Idle) /\ lock' = Nobody
  /\ UNCHANGED <<drifted, ledger, report, halfDone, commandsRun>>

(* write_json; a ledger that cannot be written ends the command. *)
Writes(r) ==
  /\ At(r, "checked")
  /\ \/ /\ ledger' = reviewer[r].copy
        /\ Move(r, [reviewer[r] EXCEPT !.stage = "written"]) /\ UNCHANGED lock
     \/ Move(r, Idle) /\ lock' = Nobody /\ UNCHANGED ledger
  /\ UNCHANGED <<drifted, report, halfDone, commandsRun>>

(* render *)
Rendered(r) == IF reviewer[r].command.kind = "finish" THEN reviewer[r].copy ELSE NoReport

(* The report is written or removed, and the lock is released also when that  *)
(* fails: a report that is torn then counts as the one before.               *)
Reports(r) ==
  /\ At(r, "written") /\ Move(r, Idle) /\ lock' = Nobody
  /\ \/ report' = Rendered(r) /\ halfDone' = FALSE
     \/ UNCHANGED report /\ halfDone' = TRUE
  /\ UNCHANGED <<drifted, ledger, commandsRun>>

(* The process is killed; while it writes the report, the report is torn. *)
Dies(r) ==
  /\ ~At(r, "idle") /\ ~At(r, "dead") /\ Move(r, [stage |-> "dead"])
  /\ halfDone' = (halfDone \/ At(r, "written"))
  /\ UNCHANGED <<drifted, ledger, report, lock, commandsRun>>

(* The lock of a process that has stopped is removed by hand, and another     *)
(* process takes its place.                                                *)
Recovered(r) ==
  /\ At(r, "dead") /\ Move(r, Idle)
  /\ lock' = IF lock = r THEN Nobody ELSE lock
  /\ UNCHANGED <<drifted, ledger, report, halfDone, commandsRun>>

Next ==
  \/ \E r \in Reviewers :
       \/ \E c \in Commands : Begin(r, c)
       \/ Locks(r) \/ Checks(r) \/ Writes(r) \/ Reports(r) \/ Dies(r) \/ Recovered(r)
  \/ Edited

Spec == Init /\ [][Next]_ledgerVars

------------------------------------------------------------------------------
TypeOK ==
  /\ ledger.state \in {"open", "complete", "incomplete"}
  /\ lock \in Reviewers \cup {Nobody}
  /\ \A r \in Reviewers :
       reviewer[r].stage \in {"idle", "begun", "loaded", "checked", "written", "dead"}

(* A review that counts as finished has no pending file and no open candidate, *)
(* whatever was marked or added since it was finished (review.py, 254).      *)
FinishedIsReviewed == ledger.state # "open" => ~Errors(ledger)

(* The report that can be delivered, at any time when no writer is at work, is *)
(* that of the ledger as it stands (review.py, 262): unless a writer failed    *)
(* between the two files, or was killed there and its lock was removed.       *)
ReportIsOfLedger == lock = Nobody /\ report # NoReport /\ ~halfDone => report = ledger

(* What a finished review and its report say is so.                          *)
ReviewTrue == FinishedIsReviewed /\ ReportIsOfLedger
=============================================================================
