--------------------------- MODULE BackgroundAgents ---------------------------
(***************************************************************************)
(* The parent's side of background agents (extensions/subagent/index.ts):  *)
(* the runs in memory, their entries on the session branch, the promises   *)
(* that watch the children, the results waiting to be read, and what       *)
(* happens to all of them when the session is reloaded, restarted, killed  *)
(* or moved to another branch.                                             *)
(*                                                                         *)
(* The session changes only between turns of the agent (Pi waits for the   *)
(* tool calls under way); children end, and the promises that watch them   *)
(* resume, at any time, also while a restore awaits.                       *)
(***************************************************************************)
EXTENDS Naturals, FiniteSets

CONSTANTS
  Runs,        \* run identifiers
  Pane,        \* the runs in tmux panes, which outlive the parent
  Worktree,    \* the runs in worktrees, verified before they are reported
  StartsEarly, \* a turn may start runs while the restore of session_start awaits
  MaxChanges,  \* bound: reloads, restarts, crashes and branch changes
  MaxDrops,    \* bound: messages Pi fails to take or drops
  Absent       \* no such run

ASSUME AgentsAssumption ==
  /\ Pane \subseteq Runs /\ Worktree \subseteq Runs
  /\ StartsEarly \in BOOLEAN
  /\ MaxChanges \in Nat /\ MaxDrops \in Nat

VARIABLES
  up,         \* an extension instance is started
  idle,       \* the agent has no turn under way
  restoring,  \* "no", or the event whose restoreActiveBranch is under way
  todo,       \* the runs that restore has still to visit
  visiting,   \* the run for which it awaits the registry or the ledger
  mem,        \* the runs of the current instance and branch
  saved,      \* the same runs as the entries of the branch tell them
  receipts,   \* the completion messages on the branch, per run
  read,       \* the runs read with status(id) on this branch
  queue,      \* the batch Pi has accepted and not yet put on the branch
  sups,       \* the supervise() promises that have not ended
  child,      \* the children: alive, asked to abort, or how they ended
  leases,     \* the leases of this process in the global registry
  strays,     \* the runs for which the registry failed a release or an adoption
  point,      \* an earlier leaf of the session tree the user may return to
  changes, drops

sessionVars == <<up, idle, restoring, todo, visiting>>
branch      == <<saved, receipts, read>>
bounds      == <<changes, drops>>
vars == <<sessionVars, mem, branch, queue, sups, child, leases, strays, point,
          bounds>>

Statuses == {"running", "complete", "failed", "stopped"}
Run == [status : Statuses, delivery : {"none", "pending", "delivered"},
        queued : BOOLEAN, checking : BOOLEAN, cancel : BOOLEAN,
        spawned : BOOLEAN]
Supervisor == [run : Runs, how : {"run", "attach"}, owned : BOOLEAN,
               stage : {"starting", "watching", "marking", "verifying"}]

(* "Absent" stands for undefined. *)
ASSUME AbsentAssumption == Absent \notin Run /\ Absent \notin Runs

Ended == {"complete", "failed", "stopped"}
Live  == {"alive", "aborting"}

NewRun == [status |-> "running", delivery |-> "none", queued |-> FALSE,
           checking |-> FALSE, cancel |-> FALSE, spawned |-> FALSE]

Known(r) == mem[r] # Absent
NoRuns == [r \in Runs |-> Absent]
Terminal(m, r) == m[r] # Absent /\ m[r].status # "running"
Unread(m, r) == Terminal(m, r) /\ m[r].delivery = "pending"
(* A restore runs without a pause except where it awaits for one run: the   *)
(* handlers and the promises of this process go on only between.           *)
InLoop == restoring # "no" /\ visiting = Absent

Snapshot(run) == [run EXCEPT !.queued = FALSE, !.cancel = FALSE]
At(s, stage) == s \in sups /\ s.stage = stage
(* run.child: there is a handle to abort the child *)
Held(r) == \E s \in sups : s.run = r /\ s.owned /\ s.stage = "watching"

(* What a leaf of the session tree shows. *)
Branch == [saved |-> saved, receipts |-> receipts, read |-> read]

Init ==
  /\ up = FALSE /\ idle = TRUE /\ restoring = "no" /\ todo = {}
  /\ visiting = Absent
  /\ mem = NoRuns /\ saved = NoRuns
  /\ receipts = [r \in Runs |-> 0] /\ read = {} /\ queue = {}
  /\ sups = {} /\ child = [r \in Runs |-> "none"] /\ leases = {} /\ strays = {}
  /\ point = Branch
  /\ changes = 0 /\ drops = 0

------------------------------------------------------------------------------
(* Mutant: a message that names several runs is not taken for a receipt. *)
CompletionForgotten(r) == r \notin Runs

(* completionPresent: the branch shows the completion message of a run. *)
CompletionPresent(r) == receipts[r] > 0

(* deliverCompletions, from runs m whose entries are sv: what the branch    *)
(* shows is acknowledged; the rest goes out in one batch, which holds back *)
(* completed runs while a sibling runs or is verified.                     *)
Acknowledged(m) == {r \in Runs : Unread(m, r) /\ ~m[r].queued /\ CompletionPresent(r)}

Consume(m, S) == [r \in Runs |-> IF r \in S
  THEN [m[r] EXCEPT !.delivery = "delivered", !.queued = FALSE] ELSE m[r]]

SiblingRuns(m) ==
  \E r \in Runs : m[r] # Absent /\ (m[r].status = "running" \/ m[r].checking)

(* Mutant: a failure waits for its siblings, as a completed run does. *)
EligibleTogether(m) ==
  {r \in Runs : Unread(m, r) /\ ~m[r].queued /\ ~CompletionPresent(r)
                /\ ~SiblingRuns(m)}

Eligible(m) ==
  {r \in Runs : Unread(m, r) /\ ~m[r].queued /\ ~CompletionPresent(r)
                /\ (m[r].status = "complete" => ~SiblingRuns(m))}

(* Mutant: a result counts as delivered once Pi has accepted it. *)
DeliverAndForget(m, sv, atRest) ==
  LET gone == IF atRest THEN Acknowledged(m) \cup Eligible(m) ELSE {}
      batch == gone \ Acknowledged(m)
  IN /\ mem' = Consume(m, gone) /\ saved' = Consume(sv, gone)
     /\ queue' = IF batch = {} THEN queue ELSE batch
     /\ idle' = (atRest /\ batch = {})
     /\ UNCHANGED drops

Deliver(m, sv, atRest) ==
  LET acked == IF atRest THEN Acknowledged(m) ELSE {}
      batch == IF atRest THEN Eligible(m) ELSE {}
      m1    == Consume(m, acked)
  IN /\ saved' = Consume(sv, acked)
     /\ \/ /\ batch = {} \/ drops < MaxDrops     \* sendMessage may throw
           /\ mem' = m1
           /\ idle' = atRest
           /\ drops' = IF batch = {} THEN drops ELSE drops + 1
           /\ UNCHANGED queue
        \/ /\ batch # {}
           /\ mem' = [r \in Runs |-> IF r \in batch
                                     THEN [m1[r] EXCEPT !.queued = TRUE] ELSE m1[r]]
           /\ idle' = FALSE
           /\ queue' = batch
           /\ UNCHANGED drops

(* A change of one run, persisted, with nothing delivered yet. *)
Persist(r, run) ==
  /\ mem' = [mem EXCEPT ![r] = run]
  /\ saved' = [saved EXCEPT ![r] = Snapshot(run)]
  /\ UNCHANGED <<queue, idle, drops>>

------------------------------------------------------------------------------
(* background_agent.execute: lease, workspace, entry, supervise.  The loop  *)
(* of a restore that awaits visits the new run too.                        *)
Start(r) ==
  /\ ~InLoop
  /\ restoring = "no" \/ StartsEarly
  /\ up /\ ~idle
  /\ child[r] = "none"
  /\ child' = [child EXCEPT ![r] = "launching"]
  /\ leases' = leases \cup {r} /\ UNCHANGED strays
  /\ Persist(r, NewRun)
  /\ sups' = sups \cup {[run |-> r, how |-> "run", owned |-> TRUE,
                         stage |-> "starting"]}
  /\ todo' = IF restoring = "no" THEN {} ELSE todo \cup {r}
  /\ UNCHANGED <<up, restoring, visiting, receipts, read, point, changes>>

(* Mutant: a child that spawns late is not compared with its session. *)
SpawnUnaware(s) ==
  /\ ~InLoop
  /\ At(s, "starting") /\ child[s.run] = "launching"
  /\ sups' = (sups \ {s}) \cup {[s EXCEPT !.stage = "watching"]}
  /\ child' = [child EXCEPT ![s.run] = "alive"]
  /\ UNCHANGED <<up, idle, restoring, todo, visiting, mem, saved, queue,
                 receipts, read, leases, strays, point, changes, drops>>

(* onSpawn: an abandoned or cancelled child is aborted at once. *)
Spawn(s) ==
  /\ ~InLoop
  /\ At(s, "starting") /\ child[s.run] = "launching"
  /\ sups' = (sups \ {s}) \cup {[s EXCEPT !.stage = "watching"]}
  /\ IF s.owned /\ ~mem[s.run].cancel
     THEN /\ Persist(s.run, [mem[s.run] EXCEPT !.spawned = TRUE])
          /\ child' = [child EXCEPT ![s.run] = "alive"]
     ELSE /\ child' = [child EXCEPT ![s.run] = "aborting"]
          /\ UNCHANGED <<mem, saved, queue, idle, drops>>
  /\ UNCHANGED <<up, restoring, todo, visiting, receipts, read, leases,
                 strays, point, changes>>

(* The child exits, or its final result is there to be read. *)
ChildEnds(r, how) ==
  /\ child[r] \in Live \cup {"launching"}
  /\ child[r] = "launching" => how = "failed"
  /\ how = "stopped" => child[r] = "aborting"
  /\ child' = [child EXCEPT ![r] = how]
  /\ UNCHANGED <<sessionVars, mem, branch, queue, sups, leases, strays, point,
                 bounds>>

(* The children of S that have a handle are asked to abort. *)
Abort(S) ==
  child' = [r \in Runs |-> IF r \in S /\ Held(r) /\ child[r] = "alive"
                           THEN "aborting" ELSE child[r]]

------------------------------------------------------------------------------
(* A promise ends: the lease is released, whether or not the run is still  *)
(* this session's.  The registry may fail (its lock is not to be had, its   *)
(* file cannot be read or written); the user is told, and the lease stays.  *)
Ends(s) ==
  /\ sups' = sups \ {s}
  /\ \/ leases' = leases \ {s.run} /\ UNCHANGED strays
     \/ s.run \in leases /\ strays' = strays \cup {s.run} /\ UNCHANGED leases

Abandon(s) ==
  /\ ~InLoop
  /\ ~s.owned
  /\ s.stage \in {"starting", "watching"} => child[s.run] \in Ended
  /\ s \in sups
  /\ Ends(s)
  /\ UNCHANGED <<sessionVars, mem, branch, queue, child, point, bounds>>

Reported(run) == [run EXCEPT !.delivery = "pending", !.checking = FALSE]

(* The end of finish(): the result becomes unread and may go out at once. *)
Report(s, run) ==
  /\ Ends(s)
  /\ Deliver([mem EXCEPT ![s.run] = Reported(run)],
             [saved EXCEPT ![s.run] = Snapshot(Reported(run))], idle)

(* finish(): the outcome is recorded, not yet for delivery; the ledger is   *)
(* told first if the run has a worktree.                                   *)
Finish(s) ==
  /\ ~InLoop
  /\ s \in sups /\ s.stage \in {"starting", "watching"}
  /\ s.owned /\ child[s.run] \in Ended
  /\ LET run == [mem[s.run] EXCEPT
                   !.status = child[s.run], !.delivery = "none",
                   !.queued = FALSE,
                   !.checking = IF s.run \in Worktree /\ child[s.run] = "complete"
                                THEN TRUE ELSE @]
     IN IF s.run \in Worktree
        THEN /\ sups' = (sups \ {s}) \cup {[s EXCEPT !.stage = "marking"]}
             /\ Persist(s.run, run)
             /\ UNCHANGED <<leases, strays>>
        ELSE Report(s, run)
  /\ UNCHANGED <<up, restoring, todo, visiting, receipts, read, child, point,
                 changes>>

(* markTerminal resumes: a completed run is verified, unless marking threw. *)
Marked(s) ==
  /\ ~InLoop
  /\ At(s, "marking") /\ s.owned
  /\ \/ /\ mem[s.run].status = "complete"
        /\ sups' = (sups \ {s}) \cup {[s EXCEPT !.stage = "verifying"]}
        /\ UNCHANGED <<mem, saved, queue, idle, drops, leases, strays>>
     \/ Report(s, mem[s.run])
  /\ UNCHANGED <<up, restoring, todo, visiting, receipts, read, child, point,
                 changes>>

(* The verification receipt is there. *)
Verified(s) ==
  /\ ~InLoop
  /\ At(s, "verifying") /\ s.owned
  /\ Report(s, mem[s.run])
  /\ UNCHANGED <<up, restoring, todo, visiting, receipts, read, child, point,
                 changes>>

------------------------------------------------------------------------------
(* agent_control status(id) of an unread result *)
Status(r) ==
  /\ ~InLoop
  /\ up /\ ~idle
  /\ Unread(mem, r)
  /\ mem' = Consume(mem, {r}) /\ saved' = Consume(saved, {r})
  /\ read' = read \cup {r}
  /\ UNCHANGED <<sessionVars, receipts, queue, sups, child, leases, strays,
                 point, bounds>>

(* agent_control stop *)
Stop(r) ==
  /\ ~InLoop
  /\ up /\ ~idle
  /\ Known(r) /\ mem[r].status = "running" /\ ~mem[r].cancel
  /\ mem' = [mem EXCEPT ![r].cancel = TRUE]
  /\ Abort({r})
  /\ UNCHANGED <<sessionVars, branch, queue, sups, leases, strays, point,
                 bounds>>

(* The user prompts, once session_start is over. *)
TurnStarts ==
  /\ up /\ idle /\ restoring = "no"
  /\ idle' = FALSE
  /\ UNCHANGED <<up, restoring, todo, visiting, mem, branch, queue, sups, child,
                 leases, strays, point, bounds>>

(* Pi puts the batch on the branch, or drops it (the turn was aborted). *)
Record ==
  /\ ~InLoop
  /\ queue # {}
  /\ \/ /\ receipts' = [r \in Runs |-> IF r \in queue THEN receipts[r] + 1
                                       ELSE receipts[r]]
        /\ UNCHANGED drops
     \/ /\ drops < MaxDrops
        /\ drops' = drops + 1
        /\ UNCHANGED receipts
  /\ queue' = {}
  /\ UNCHANGED <<sessionVars, mem, saved, read, sups, child, leases, strays,
                 point, changes>>

(* agent_settled: what is not on the branch may be sent again. *)
Settled ==
  /\ ~InLoop
  /\ up /\ ~idle /\ queue = {}
  /\ LET seen == {r \in Runs : Unread(mem, r) /\ CompletionPresent(r)}
         m == [r \in Runs |-> IF Unread(mem, r)
                              THEN [mem[r] EXCEPT !.queued = FALSE] ELSE mem[r]]
     IN Deliver(Consume(m, seen), Consume(saved, seen), TRUE)
  /\ UNCHANGED <<up, restoring, todo, visiting, receipts, read, sups, child,
                 leases, strays, point, changes>>

------------------------------------------------------------------------------
(* The user notes a leaf of the session tree to come back to, once. *)
Remember ==
  /\ ~InLoop
  /\ up /\ changes < MaxChanges /\ point.saved = NoRuns
  /\ point' = Branch
  /\ UNCHANGED <<sessionVars, mem, branch, queue, sups, child, leases, strays,
                 bounds>>

Change == changes < MaxChanges /\ changes' = changes + 1
Quiet == up /\ idle /\ restoring = "no"
Disowned == {[s EXCEPT !.owned = FALSE] : s \in sups}

(* restoreActiveBranch begins: the runs of the old branch are aborted and   *)
(* forgotten, and those of the new one are read from its entries.          *)
Load(sv) == /\ mem' = sv /\ todo' = {r \in Runs : sv[r] # Absent}
            /\ visiting' = Absent

(* session_tree: to where the branch was, or to a leaf beside its end. *)
Tree ==
  /\ Quiet /\ Change
  /\ Abort(Runs)
  /\ sups' = Disowned
  /\ \/ /\ saved' = point.saved /\ receipts' = point.receipts
        /\ read' = point.read
        /\ point' = Branch
     \/ UNCHANGED <<branch, point>>
  /\ Load(saved')
  /\ restoring' = "tree"
  /\ UNCHANGED <<up, idle, queue, leases, strays, drops>>

(* session_shutdown for a reload: watched panes are detached with their    *)
(* leases; the other children are aborted, now or when they spawn.         *)
Reload ==
  /\ Quiet /\ Change
  /\ LET detached == {s \in sups : s.owned /\ s.stage = "watching"
                                  /\ s.run \in Pane /\ mem[s.run].spawned}
     IN /\ sups' = {[s EXCEPT !.owned = FALSE] : s \in sups \ detached}
        /\ Abort(Runs \ {s.run : s \in detached})
  /\ up' = FALSE /\ mem' = NoRuns
  /\ UNCHANGED <<idle, restoring, todo, visiting, branch, queue, leases,
                 strays, point, drops>>

(* The process ends, in order or not: its leases lapse, RPC children end   *)
(* with their standard input, and panes go on unless they were told.       *)
Exit(orderly) ==
  /\ up /\ Change
  /\ orderly => Quiet
  /\ child' = [r \in Runs |->
       IF child[r] = "launching" \/ (child[r] \in Live /\ r \notin Pane)
       THEN "failed"
       ELSE IF orderly /\ Held(r) /\ child[r] = "alive" THEN "aborting"
            ELSE child[r]]
  /\ up' = FALSE /\ idle' = TRUE /\ restoring' = "no" /\ todo' = {}
  /\ visiting' = Absent
  /\ mem' = NoRuns /\ queue' = {} /\ sups' = {} /\ leases' = {}
  /\ UNCHANGED <<branch, strays, point, drops>>

(* session_start, of a new instance or a new process *)
Open ==
  /\ ~up
  /\ up' = TRUE
  /\ restoring' = "start"
  /\ Load(saved)
  /\ UNCHANGED <<idle, branch, queue, sups, child, leases, strays, point,
                 bounds>>

(* An interrupted verification becomes reportable. *)
Reconciled(r) ==
  IF mem[r].checking \/ (r \in Worktree /\ mem[r].status = "complete"
                          /\ mem[r].delivery = "none")
  THEN Reported(mem[r]) ELSE mem[r]

(* The last words on a run: what the branch already shows is acknowledged. *)
Settle(r, run) ==
  LET acked == IF Unread([mem EXCEPT ![r] = run], r) /\ CompletionPresent(r)
               THEN {r} ELSE {}
      plain == [run EXCEPT !.queued = @ /\ run.delivery # "pending"]
  IN /\ mem' = Consume([mem EXCEPT ![r] = plain], acked)
     /\ saved' = Consume([saved EXCEPT ![r] = Snapshot(run)], acked)

(* The run is recorded as it will be reported; the ledger is told first,    *)
(* with an await, if it has a worktree.                                    *)
Reconcile(r, run) ==
  IF r \in Worktree
  THEN /\ mem' = [mem EXCEPT ![r] = run]
       /\ saved' = [saved EXCEPT ![r] = Snapshot(run)]
       /\ visiting' = r
  ELSE Settle(r, run) /\ visiting' = Absent

Lost(r) == [Reported(mem[r]) EXCEPT !.status = "failed"]
Attachable(r) == mem[r].status = "running" /\ restoring = "start"
                 /\ r \in Pane /\ mem[r].spawned

(* The loop of restoreActiveBranch pauses for the lease of a pane that ran,  *)
(* and fails every other run that was under way.                           *)
Visit(r) ==
  /\ InLoop /\ r \in todo
  /\ todo' = todo \ {r}
  /\ IF Attachable(r) THEN visiting' = r /\ UNCHANGED <<mem, saved>>
     ELSE Reconcile(r, IF mem[r].status = "running" THEN Lost(r)
                       ELSE Reconciled(r))
  /\ UNCHANGED <<up, idle, restoring, receipts, read, queue, sups, child,
                 leases, strays, point, bounds>>

(* adopt resumes: the pane is attached, or adopt threw (the limit is full,   *)
(* the registry failed before or after it wrote) and its run fails.        *)
Adopted ==
  LET r == visiting IN
  /\ visiting # Absent /\ mem[r].status = "running"
  /\ \/ /\ leases' = leases \cup {r} /\ strays' = strays \ {r}
        /\ sups' = sups \cup {[run |-> r, how |-> "attach", owned |-> TRUE,
                               stage |-> "watching"]}
        /\ child' = IF mem[r].cancel /\ child[r] = "alive"
                    THEN [child EXCEPT ![r] = "aborting"] ELSE child
        /\ visiting' = Absent
        /\ UNCHANGED <<mem, saved>>
     \/ /\ Reconcile(r, Lost(r))
        /\ leases' \in {leases, leases \cup {r}}
        /\ strays' = strays \cup {r}
        /\ UNCHANGED <<sups, child>>
  /\ UNCHANGED <<up, idle, restoring, todo, receipts, read, queue, point,
                 bounds>>

(* markTerminal resumes. *)
Reconciling ==
  /\ visiting # Absent /\ mem[visiting].status # "running"
  /\ Settle(visiting, mem[visiting])
  /\ visiting' = Absent
  /\ UNCHANGED <<up, idle, restoring, todo, receipts, read, queue, sups, child,
                 leases, strays, point, bounds>>

RestoreEnds ==
  /\ InLoop /\ todo = {}
  /\ restoring' = "no"
  /\ Deliver(mem, saved, idle)
  /\ UNCHANGED <<up, todo, visiting, receipts, read, sups, child, leases,
                 strays, point, changes>>

------------------------------------------------------------------------------
Watch(s) == Spawn(s) \/ Finish(s) \/ Marked(s) \/ Verified(s) \/ Abandon(s)

Next ==
  \/ \E r \in Runs : Start(r) \/ Status(r) \/ Stop(r) \/ Visit(r)
  \/ \E s \in sups : Watch(s)
  \/ TurnStarts \/ Record \/ Settled \/ Remember
  \/ Tree \/ Reload \/ Open
  \/ Adopted \/ Reconciling \/ RestoreEnds
  \/ \E r \in Runs, how \in Ended : ChildEnds(r, how)
  \/ \E orderly \in BOOLEAN : Exit(orderly)

Spec == Init /\ [][Next]_vars

(* Pi, the file system and the promises go on; turns end; Pi is started     *)
(* again, and the user prompts again: a send that throws while the agent is *)
(* idle is retried only after a turn.  Children need not end.              *)
Fairness ==
  /\ WF_vars(Open) /\ WF_vars(RestoreEnds) /\ WF_vars(Record)
  /\ WF_vars(Settled) /\ WF_vars(TurnStarts)
  /\ WF_vars(Adopted) /\ WF_vars(Reconciling)
  /\ \A r \in Runs : WF_vars(Visit(r))
  /\ WF_vars(\E s \in sups : Watch(s))

FairSpec == Spec /\ Fairness

------------------------------------------------------------------------------
TypeOK ==
  /\ up \in BOOLEAN /\ idle \in BOOLEAN
  /\ restoring \in {"no", "start", "tree"} /\ todo \subseteq Runs
  /\ visiting \in Runs \cup {Absent}
  /\ mem \in [Runs -> Run \cup {Absent}] /\ saved \in [Runs -> Run \cup {Absent}]
  /\ receipts \in [Runs -> Nat] /\ read \subseteq Runs
  /\ queue \subseteq Runs /\ sups \subseteq Supervisor
  /\ child \in [Runs -> {"none", "launching"} \cup Live \cup Ended]
  /\ leases \subseteq Runs /\ strays \subseteq Runs
  /\ changes \in 0 .. MaxChanges /\ drops \in 0 .. MaxDrops

(* A result counts as delivered only if the branch shows it, as a          *)
(* completion message or an explicit status(id): a handoff that Pi dropped, *)
(* or that was lost with the process, stays unread                         *)
(* (index.ts, 411-432 and 799-804).                                        *)
SeenBeforeDelivered ==
  \A r \in Runs : saved[r] # Absent /\ saved[r].delivery = "delivered"
                  => receipts[r] > 0 \/ r \in read

(* Outside a restore, a run that is "running" has a promise of this        *)
(* session that will finish it: none can stay running for ever.            *)
RunningIsWatched ==
  \A r \in Runs : Known(r) /\ mem[r].status = "running"
                  /\ r \notin todo \cup {visiting}
                  => \E s \in sups : s.run = r /\ s.owned

(* Outside a restore, a lease of this process belongs to a promise that    *)
(* will release it, whatever session changes happened meanwhile, or to a   *)
(* run for which the registry failed (index.ts, 678-683 and 746-761).      *)
LeasesEnd ==
  up /\ restoring = "no" =>
    \A r \in leases \ strays : \E s \in sups : s.run = r

(* A child that no run of the session controls any more was told to abort:  *)
(* no session change leaves an agent working unsupervised, except a pane    *)
(* that the registry did not let the restore adopt.                        *)
NoOrphans ==
  up /\ restoring = "no" =>
    \A r \in Runs \ strays : child[r] = "alive" =>
      \E s \in sups : s.run = r /\ s.owned

(* Nothing works unsupervised, and nothing is supervised for ever: runs,     *)
(* promises, children and leases stay in step through session changes, with *)
(* the exceptions named above.                                             *)
Supervised == TypeOK /\ RunningIsWatched /\ LeasesEnd /\ NoOrphans

(* A run reported as lost is not at work: a restore fails only the runs of  *)
(* the process that is gone ("Parent session restarted before completion.",  *)
(* index.ts:792), never one that this instance has just started.           *)
LostIsOver ==
  \A s \in sups : s.owned /\ s.stage \in {"starting", "watching"}
                  => mem[s.run].status = "running"

(* What a leaf b of the session tree tells of each run. *)
Told(b) ==
  [r \in Runs |->
     [stage |-> IF b.saved[r] = Absent THEN "unknown"
                ELSE IF b.saved[r].delivery = "none" THEN "running"
                ELSE IF b.saved[r].delivery = "pending" THEN "unread" ELSE "delivered",
      messages |-> b.receipts[r]]]

Promise == INSTANCE ResultDelivery WITH leaf <- Told(Branch), earlier <- Told(point)

(* Supervision, verification, batches, acknowledgements, restores and       *)
(* adoptions amount to what background work promises a session.            *)
DeliveryKept == Promise!Spec

(* An idle agent has been sent every failure, and every result unless a    *)
(* promise of this session is still to end, which sends it then: siblings  *)
(* that never end hold back no failure, and no result waits for a turn     *)
(* that nobody asked for, as long as Pi refuses no message.                *)
IdleHasAll ==
  up /\ idle /\ restoring = "no" /\ drops = 0 =>
    \A r \in Runs : Unread(mem, r) /\ ~mem[r].queued
                    => mem[r].status = "complete" /\ \E s \in sups : s.owned

(* An unread result stays unread until the branch shows it, and an idle      *)
(* agent has been sent it.                                                  *)
ResultsKept == SeenBeforeDelivered /\ IdleHasAll

(* An unread failure is delivered although its siblings never end, and      *)
(* although Pi drops a message or refuses it; only a change of branch can   *)
(* forget it (README.md:225).                                              *)
FailureDelivered ==
  \A r \in Runs :
    (saved[r] # Absent /\ saved[r].delivery = "pending"
     /\ saved[r].status # "complete")
    ~> (saved[r] = Absent \/ saved[r].delivery # "pending")
=============================================================================
