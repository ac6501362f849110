--------------------------- MODULE BackgroundProcess ---------------------------
(***************************************************************************)
(* Commands that run beside the agent (extensions/background-process): the *)
(* host process of each command and how it is stopped (process.ts,         *)
(* process-host.js), the runs of the session and the results that wait to  *)
(* be read (index.ts).                                                     *)
(*                                                                         *)
(* Everything in index.ts is synchronous between the events below.  As in  *)
(* BackgroundAgents the session changes only between turns of the agent;   *)
(* children end at any time.                                               *)
(***************************************************************************)
EXTENDS Naturals, Sequences, FiniteSets

CONSTANTS
  Procs,       \* process identifiers
  Services,    \* those started with mode=service
  Timed,       \* those started with timeoutSeconds
  MaxRunning,  \* MAX_CONCURRENT_RUNS
  MaxRecent,   \* MAX_RECENT_RUNS
  BatchSize,   \* how many results fit in MAX_PUSH_BYTES
  MaxChanges,  \* bound: reloads, restarts, crashes and branch changes
  MaxDrops,    \* bound: messages Pi fails to take or drops, and output not kept
  Absent       \* no such run

ASSUME ProcessAssumption ==
  /\ IsFiniteSet(Procs)
  /\ Services \subseteq Procs /\ Timed \subseteq Procs
  /\ MaxRunning \in Nat /\ MaxRecent \in Nat /\ BatchSize \in Nat \ {0}
  /\ MaxChanges \in Nat /\ MaxDrops \in Nat

VARIABLES
  up,        \* an extension instance is started
  idle,      \* Pi reports that the agent has no turn under way
  inFlight,  \* deliveryInFlight
  mem,       \* the runs of the current instance and branch
  started,   \* startedAt: the place of a process in their started, 0 before
  saved,     \* the runs as the entries of the branch tell them
  receipts,  \* the result messages on the branch, per run
  read,      \* the results a tool call has put on the branch
  calls,     \* the tool calls of the turn that wait, or hold a result
  queue,     \* the batches Pi has accepted and not yet put on the branch
  child,     \* the host processes
  point,     \* an earlier leaf of the session tree the user may return to
  cut,       \* the results whose tool call was cut by a crash
  changes, drops

session == <<up, idle, inFlight>>
branch  == <<saved, receipts, read>>
bounds  == <<changes, drops>>
vars == <<session, mem, started, branch, calls, queue, child, point, cut, bounds>>

Ended == {"complete", "failed", "stopped", "timed_out"}
Run == [status : {"running"} \cup Ended, queued : BOOLEAN,
        delivery : {"none", "pending", "delivered"}, owned : BOOLEAN]
(* "Absent" stands for undefined. *)
ASSUME AbsentAssumption == Absent \notin Run
Call == [proc : Procs, stage : {"waiting", "returning"}]
(* stage: "broken" could not be spawned, "holding" took SIGTERM and waits   *)
(* for SIGKILL, "stray" outlived its parent; asked: requestedStatus; lost:  *)
(* captureError                                                            *)
Child == [stage : {"none", "broken", "alive", "holding", "exited", "closed",
                   "stray"},
          asked : {"no", "failed", "stopped", "timed_out"},
          code : {"none", "zero", "other"}, lost : BOOLEAN]

NewRun == [status |-> "running", queued |-> FALSE, delivery |-> "none",
           owned |-> TRUE]
Closed == [stage |-> "closed", asked |-> "no", code |-> "none", lost |-> FALSE]
NoRuns == [p \in Procs |-> Absent]
Live   == {"alive", "holding"}
Snapshot(run) == [run EXCEPT !.queued = FALSE, !.owned = FALSE]
Unread(m, p) == m[p] # Absent /\ m[p].status # "running"
                /\ m[p].delivery = "pending"
Running(m) == {p \in Procs : m[p] # Absent /\ m[p].status = "running"}
Branch == [saved |-> saved, receipts |-> receipts, read |-> read]

Init ==
  /\ up = FALSE /\ idle = TRUE /\ inFlight = FALSE
  /\ mem = NoRuns /\ started = [p \in Procs |-> 0] /\ saved = NoRuns
  /\ receipts = [p \in Procs |-> 0] /\ read = {} /\ calls = {}
  /\ queue = <<>>
  /\ child = [p \in Procs |-> [Closed EXCEPT !.stage = "none"]]
  /\ point = Branch /\ cut = {}
  /\ changes = 0 /\ drops = 0

------------------------------------------------------------------------------
(* consume: a result that ended up with the agent is so recorded. *)
Consume(m, S) == [p \in Procs |-> IF p \in S /\ m[p] # Absent
  THEN [m[p] EXCEPT !.delivery = "delivered", !.queued = FALSE] ELSE m[p]]

(* prune: only the newest of the runs that ended are remembered. *)
Old(m) ==
  LET ended == {p \in Procs : m[p] # Absent /\ m[p].status # "running"}
      Newer(p) == {q \in ended : started[q] > started[p]}
  IN {p \in ended : Cardinality(Newer(p)) >= MaxRecent}
Forget(m, old) == [p \in Procs |-> IF p \in old THEN Absent ELSE m[p]]

(* completionPresent *)
Present(b, p) == b.receipts[p] > 0

MayDeliver(resting, flying) == resting /\ ~flying

(* deliver, from runs m on branch b: an idle agent that no batch is on the  *)
(* way to gets the oldest unread results that fit, and what the branch      *)
(* shows is acknowledged on the way to the first result that does not fit.  *)
(* The caller forgets the runs that are old next.                          *)
Deliver(m, b, resting, flying, old) ==
  LET unread  == {p \in Procs : Unread(m, p) /\ ~m[p].queued}
      unsent  == {p \in unread : ~Present(b, p)}
      Older(p) == {q \in unsent : started[q] < started[p]}
      batch   == {p \in unsent : Cardinality(Older(p)) < BatchSize}
      acked   == {p \in unread \ unsent : Cardinality(Older(p)) <= BatchSize}
      m1      == Consume(m, acked)
  IN IF ~MayDeliver(resting, flying)
     THEN /\ mem' = Forget(m, old) /\ saved' = b.saved /\ inFlight' = flying
          /\ UNCHANGED <<queue, drops>>
     ELSE /\ saved' = Consume(b.saved, acked)
          /\ \/ /\ batch = {} \/ drops < MaxDrops      \* sendMessage may throw
                /\ mem' = Forget(m1, old)
                /\ inFlight' = FALSE
                /\ drops' = IF batch = {} THEN drops ELSE drops + 1
                /\ UNCHANGED queue
             \/ /\ batch # {}
                /\ mem' = Forget([p \in Procs |->
                     IF p \in batch THEN [m1[p] EXCEPT !.queued = TRUE] ELSE m1[p]], old)
                /\ inFlight' = TRUE
                /\ queue' = Append(queue, batch)
                /\ UNCHANGED drops

------------------------------------------------------------------------------
(* background_process.execute: the run is recorded and its host spawned. *)
Start(p) ==
  /\ up /\ ~idle
  /\ child[p].stage = "none"
  /\ Cardinality(Running(mem)) < MaxRunning
  /\ mem' = [mem EXCEPT ![p] = NewRun]
  /\ saved' = [saved EXCEPT ![p] = Snapshot(NewRun)]
  /\ started' = [started EXCEPT ![p] = 1 + Cardinality({q \in Procs : started[q] > 0})]
  /\ \E s \in {"alive", "broken"} : child' = [child EXCEPT ![p].stage = s]
  /\ UNCHANGED <<session, receipts, read, calls, queue, point, cut, bounds>>

(* requestStop: the first request before the host exits counts. *)
Request(S, status) ==
  child' = [p \in Procs |->
    IF p \in S /\ child[p].stage = "alive" /\ child[p].asked = "no"
    THEN [child[p] EXCEPT !.asked = status] ELSE child[p]]

(* The runs with a handle. *)
Handled == {p \in Procs : mem[p] # Absent /\ mem[p].owned /\ mem[p].status = "running"}

(* process_control stop, /stop and /ps *)
Stop(p) ==
  /\ p \in Handled /\ child[p].stage = "alive" /\ child[p].asked = "no"
  /\ Request({p}, "stopped")
  /\ UNCHANGED <<session, mem, started, branch, calls, queue, point, cut, bounds>>

(* timeoutSeconds are over, unless the host exited. *)
Deadline(p) ==
  /\ p \in Timed /\ child[p].stage = "alive" /\ child[p].asked = "no"
  /\ Request({p}, "timed_out")
  /\ UNCHANGED <<session, mem, started, branch, calls, queue, point, cut, bounds>>

(* Output that cannot be logged, perhaps read after the exit. *)
CaptureFails(p) ==
  /\ child[p].stage \in Live \cup {"exited"} /\ ~child[p].lost
  /\ drops < MaxDrops /\ drops' = drops + 1
  /\ child' = [child EXCEPT ![p].lost = TRUE,
                 ![p].asked = IF child[p].stage = "alive" /\ @ = "no"
                              THEN "failed" ELSE @]
  /\ UNCHANGED <<session, mem, started, branch, calls, queue, point, cut, changes>>

(* The host takes SIGTERM: from now on only SIGKILL ends it. *)
TakesTerm(p) ==
  /\ child[p].stage = "alive" /\ child[p].asked # "no"
  /\ child' = [child EXCEPT ![p].stage = "holding"]
  /\ UNCHANGED <<session, mem, started, branch, calls, queue, point, cut, bounds>>

(* The command ends and the host with it, or forceKillTimeout is over. *)
Exits(p, code) ==
  /\ \/ child[p].stage = "alive"
     \/ child[p].stage \in Live /\ child[p].asked # "no" /\ code = "other"
  /\ child' = [child EXCEPT ![p].stage = "exited", ![p].code = code]
  /\ UNCHANGED <<session, mem, started, branch, calls, queue, point, cut, bounds>>

(* Mutant: the exit code counts, whatever was asked. *)
OutcomeByCode(p) ==
  IF child[p].lost THEN "failed"
  ELSE IF child[p].code = "zero" /\ p \notin Services THEN "complete"
  ELSE IF child[p].asked # "no" THEN child[p].asked ELSE "failed"

(* finish in process.ts *)
Outcome(p) ==
  IF child[p].lost \/ child[p].stage = "broken" THEN "failed"
  ELSE IF child[p].asked # "no" THEN child[p].asked
  ELSE IF child[p].code = "zero" /\ p \notin Services THEN "complete"
  ELSE "failed"

Waiting(p) == [proc |-> p, stage |-> "waiting"]
Returning(p) == [proc |-> p, stage |-> "returning"]

(* Mutant: a process of an earlier branch finishes the run it finds. *)
OwnedByName(p) == mem[p] # Absent

(* ownsProcess: the run is of this instance and this branch. *)
Owned(p) == mem[p] # Absent /\ mem[p].owned

(* "close" or "error": the run is finished if it is still owned; its result *)
(* goes to the call that waits for it, or is delivered.                    *)
Closes(p) ==
  LET run == [NewRun EXCEPT !.status = Outcome(p), !.delivery = "pending"]
      m   == [mem EXCEPT ![p] = run]
      sv  == [saved EXCEPT ![p] = Snapshot(run)]
  IN /\ child[p].stage \in {"exited", "broken"}
     /\ child' = [child EXCEPT ![p] = Closed]
     /\ IF ~Owned(p)
        THEN UNCHANGED <<mem, saved, calls, inFlight, queue, drops>>
        ELSE IF Waiting(p) \in calls
        THEN /\ mem' = Forget(Consume(m, {p}), Old(m)) /\ saved' = Consume(sv, {p})
             /\ calls' = (calls \ {Waiting(p)}) \cup {Returning(p)}
             /\ UNCHANGED <<inFlight, queue, drops>>
        ELSE /\ Deliver(m, [Branch EXCEPT !.saved = sv], idle, inFlight, Old(m))
             /\ UNCHANGED calls
     /\ UNCHANGED <<up, idle, started, receipts, read, point, cut, changes>>

------------------------------------------------------------------------------
(* Mutant: a wait that gives up has read the result to come. *)
WaitSpent(p) ==
  /\ Waiting(p) \in calls
  /\ calls' = calls \ {Waiting(p)}
  /\ mem' = Consume(mem, {p}) /\ saved' = Consume(saved, {p})
  /\ UNCHANGED <<session, started, receipts, read, queue, child, point, cut, bounds>>

(* process_control wait on a running process *)
Wait(p) ==
  /\ up /\ ~idle
  /\ mem[p] # Absent /\ mem[p].status = "running"
  /\ calls' = calls \cup {Waiting(p)}
  /\ UNCHANGED <<session, mem, started, branch, queue, child, point, cut, bounds>>

(* waitForProcess times out or is aborted. *)
WaitGivesUp(p) ==
  /\ Waiting(p) \in calls
  /\ calls' = calls \ {Waiting(p)}
  /\ UNCHANGED <<session, mem, started, branch, queue, child, point, cut, bounds>>

(* process_control status(id) or wait(id) on one that ended *)
Inspect(p) ==
  /\ up /\ ~idle
  /\ Unread(mem, p)
  /\ mem' = Consume(mem, {p}) /\ saved' = Consume(saved, {p})
  /\ calls' = calls \cup {Returning(p)}
  /\ UNCHANGED <<session, started, receipts, read, queue, child, point, cut, bounds>>

(* Pi puts the result of the tool call on the branch. *)
Return(p) ==
  /\ Returning(p) \in calls
  /\ calls' = calls \ {Returning(p)}
  /\ read' = read \cup {p}
  /\ UNCHANGED <<session, mem, started, saved, receipts, queue, child, point, cut, bounds>>

(* The user prompts, or Pi takes the message that triggers a turn. *)
TurnStarts ==
  /\ up /\ idle
  /\ idle' = FALSE
  /\ UNCHANGED <<up, inFlight, mem, started, branch, calls, queue, child, point, cut, bounds>>

(* Pi puts a batch on the branch, or drops it (the turn was aborted). *)
Record ==
  /\ ~idle /\ queue # <<>>
  /\ \/ /\ receipts' = [p \in Procs |-> IF p \in Head(queue) THEN receipts[p] + 1
                                        ELSE receipts[p]]
        /\ UNCHANGED drops
     \/ /\ drops < MaxDrops /\ drops' = drops + 1
        /\ UNCHANGED receipts
  /\ queue' = Tail(queue)
  /\ UNCHANGED <<session, mem, started, saved, read, calls, child, point, cut, changes>>

(* Mutant: a dropped batch is not noticed. *)
UnqueueNone(m) == m

(* What is still unread may be sent again. *)
Unqueue(m) == [p \in Procs |-> IF Unread(m, p) THEN [m[p] EXCEPT !.queued = FALSE]
                               ELSE m[p]]

(* agent_settled: what is not on the branch may be sent again. *)
Settled ==
  LET seen == {p \in Procs : Unread(mem, p) /\ Present(Branch, p)} IN
  /\ up /\ ~idle /\ queue = <<>> /\ calls = {}
  /\ idle' = TRUE
  /\ Deliver(Unqueue(Consume(mem, seen)),
             [Branch EXCEPT !.saved = Consume(saved, seen)], TRUE, FALSE, {})
  /\ UNCHANGED <<up, started, receipts, read, calls, child, point, cut, changes>>

------------------------------------------------------------------------------
(* The user notes a leaf of the session tree to come back to, once; a leaf  *)
(* has the results of its tool calls.                                      *)
Remember ==
  /\ up /\ calls = {} /\ changes < MaxChanges /\ point.saved = NoRuns
  /\ point' = Branch
  /\ UNCHANGED <<session, mem, started, branch, calls, queue, child, cut, bounds>>

Change == changes < MaxChanges /\ changes' = changes + 1
Quiet == up /\ idle /\ queue = <<>> /\ calls = {}

(* What restore makes of the entries: nothing is attached again. *)
Restored(sv) ==
  [p \in Procs |-> IF sv[p] # Absent /\ sv[p].status = "running"
                   THEN [sv[p] EXCEPT !.status = "failed", !.delivery = "pending"]
                   ELSE sv[p]]

(* session_tree: to where the branch was, or to a leaf beside its end. *)
Tree ==
  /\ Quiet /\ Change
  /\ Request(Handled, "stopped")
  /\ \E b \in {point, Branch} :
       /\ receipts' = b.receipts /\ read' = b.read
       /\ point' = IF b = Branch THEN point ELSE Branch
       /\ Deliver(Restored(b.saved), [b EXCEPT !.saved = Restored(@)], TRUE, FALSE,
                  Old(Restored(b.saved)))
  /\ UNCHANGED <<up, idle, started, calls, cut>>

(* Mutant: a reload forgets the processes without stopping them. *)
ReloadLeaving ==
  /\ Quiet /\ Change
  /\ up' = FALSE /\ mem' = NoRuns
  /\ UNCHANGED <<idle, inFlight, started, branch, calls, queue, child, point, cut, drops>>

(* session_shutdown, the same process going on: a reload *)
Reload ==
  /\ Quiet /\ Change
  /\ Request(Handled, "stopped")
  /\ up' = FALSE /\ mem' = NoRuns
  /\ UNCHANGED <<idle, inFlight, started, branch, calls, queue, point, cut, drops>>

(* The process ends, in order or not, and its timers with it. *)
Exit(orderly) ==
  /\ up /\ Change
  /\ orderly => Quiet
  /\ child' = [p \in Procs |->
       IF child[p].stage \in Live
       THEN [child[p] EXCEPT !.stage = "stray",
               !.asked = IF orderly /\ p \in Handled /\ @ = "no" THEN "stopped" ELSE @]
       ELSE IF child[p].stage \in {"exited", "broken"}
       THEN Closed ELSE child[p]]
  /\ cut' = cut \cup {p \in Procs : Returning(p) \in calls}
  /\ up' = FALSE /\ idle' = TRUE /\ mem' = NoRuns /\ queue' = <<>> /\ calls' = {}
  /\ UNCHANGED <<inFlight, started, branch, point, drops>>

(* Without its parent a host ends with its command, unless it took SIGTERM. *)
StrayEnds(p) ==
  /\ child[p].stage = "stray" /\ child[p].asked = "no"
  /\ child' = [child EXCEPT ![p] = Closed]
  /\ UNCHANGED <<session, mem, started, branch, calls, queue, point, cut, bounds>>

(* session_start, of a new instance or a new process *)
Open ==
  /\ ~up
  /\ up' = TRUE
  /\ Deliver(Restored(saved), [Branch EXCEPT !.saved = Restored(saved)], idle, FALSE,
             Old(Restored(saved)))
  /\ UNCHANGED <<idle, started, receipts, read, calls, child, point, cut, changes>>

------------------------------------------------------------------------------
Next ==
  \/ \E p \in Procs :
       \/ Start(p) \/ Stop(p) \/ Deadline(p) \/ CaptureFails(p) \/ TakesTerm(p)
       \/ \E code \in {"zero", "other"} : Exits(p, code)
       \/ Closes(p) \/ Wait(p) \/ WaitGivesUp(p) \/ Inspect(p) \/ Return(p)
       \/ StrayEnds(p)
  \/ TurnStarts \/ Record \/ Settled \/ Remember \/ Tree \/ Reload \/ Open
  \/ \E orderly \in BOOLEAN : Exit(orderly)

Spec == Init /\ [][Next]_vars

(* What a host does without its command. *)
HostGoesOn(p) ==
  TakesTerm(p) \/ Closes(p) \/ (child[p].asked # "no" /\ Exits(p, "other"))

(* Pi, signals, timers and pipes go on; turns end; Pi is started again and  *)
(* the user prompts again.  Commands need not end by themselves.           *)
Fairness ==
  /\ WF_vars(Open) /\ WF_vars(Record) /\ SF_vars(Settled) /\ WF_vars(TurnStarts)
  /\ WF_vars(\E p \in Procs : HostGoesOn(p))
  /\ \A p \in Procs : WF_vars(WaitGivesUp(p) \/ Return(p))

FairSpec == Spec /\ Fairness

------------------------------------------------------------------------------
TypeOK ==
  /\ up \in BOOLEAN /\ idle \in BOOLEAN /\ inFlight \in BOOLEAN
  /\ mem \in [Procs -> Run \cup {Absent}] /\ saved \in [Procs -> Run \cup {Absent}]
  /\ started \in [Procs -> Nat]
  /\ \A p, q \in Procs : started[p] = started[q] => started[p] = 0 \/ p = q
  /\ receipts \in [Procs -> Nat] /\ read \subseteq Procs /\ calls \subseteq Call
  /\ queue \in Seq(SUBSET Procs) /\ child \in [Procs -> Child] /\ cut \subseteq Procs
  /\ changes \in 0 .. MaxChanges /\ drops \in 0 .. MaxDrops

(* A result counts as delivered only if its message or the result of a tool *)
(* call is on the branch, or is about to be: only a crash in a call that    *)
(* was already acknowledged loses one (index.ts, 275-285 and 524-532).     *)
SeenBeforeDelivered ==
  \A p \in Procs : saved[p] # Absent /\ saved[p].delivery = "delivered"
                   => receipts[p] > 0 \/ p \in read \cup cut \/ Returning(p) \in calls

(* "results locally until the parent can consume one batch, not a queue of  *)
(* stale turns" (index.ts:287)                                             *)
OneBatch == Len(queue) <= 1

(* A run that is "running" has a host of this session that will finish it.  *)
RunningIsWatched ==
  \A p \in Running(mem) : mem[p].owned
                          /\ child[p].stage \in Live \cup {"exited", "broken"}

(* A host that no run of the session can stop any more was told to stop, or *)
(* Pi is gone: no change of session leaves a command running unsupervised.  *)
NoOrphans ==
  \A p \in Procs : child[p].stage = "alive" /\ child[p].asked = "no" => p \in Handled

(* Nothing runs unsupervised: runs and hosts stay in step through stops,      *)
(* reloads, crashes and changes of branch.                                  *)
Supervised == TypeOK /\ RunningIsWatched /\ NoOrphans

(* While Pi refuses no message, an idle agent that no batch is on the way   *)
(* to has been sent every result that prune did not drop.                  *)
IdleHasAll ==
  up /\ idle /\ ~inFlight /\ drops = 0 => \A p \in Procs : ~Unread(mem, p)

(* An unread result stays unread until the branch shows it; an idle agent    *)
(* has been sent it, in one batch at a time.                                *)
ResultsKept == SeenBeforeDelivered /\ OneBatch /\ IdleHasAll

(* What the branch tells of a run that ended is never told otherwise, by a  *)
(* process that ends late or in another branch (index.ts, 178-184).        *)
EndedStays ==
  [][~Tree => \A p \in Procs :
        saved[p] # Absent /\ saved[p].status # "running"
        => saved'[p] # Absent /\ saved'[p].status = saved[p].status]_vars

(* A request to stop ends the process and is what the run is told to have   *)
(* ended by, unless its output could not be kept.                          *)
RequestIsOutcome ==
  [][\A p \in Procs : child[p].asked # "no" /\ ~child[p].lost /\ Owned(p)
        /\ mem[p].status = "running" /\ child'[p].stage = "closed" /\ up'
        => saved'[p].status = child[p].asked]_vars

(* How a run ended is told as it was asked for, and never told otherwise.    *)
OutcomeKept == EndedStays /\ RequestIsOutcome

(* A process that was asked to stop ends as long as Pi does not: the host   *)
(* ignores SIGTERM and SIGKILL follows.                                    *)
StopEnds ==
  \A p \in Procs : child[p].asked # "no" ~> child[p].stage \in {"closed", "stray"}

(* An unread result is read or delivered in the end, whatever messages were *)
(* dropped, unless prune or a change of branch forgets its run.            *)
ResultDelivered == \A p \in Procs : Unread(mem, p) ~> ~Unread(mem, p)

(* A run that is stopped ends, and the result of every run is told.          *)
RunsConclude == StopEnds /\ ResultDelivered

(* What a leaf b of the session tree tells of each run. *)
Told(b) ==
  [p \in Procs |->
     [stage |-> IF b.saved[p] = Absent THEN "unknown"
                ELSE IF b.saved[p].delivery = "none" THEN "running"
                ELSE IF b.saved[p].delivery = "pending" THEN "unread" ELSE "delivered",
      messages |-> b.receipts[p]]]

Promise == INSTANCE ResultDelivery WITH Runs <- Procs, leaf <- Told(Branch),
                                        earlier <- Told(point)

(* Batches, acknowledgements, drops, reloads, crashes and changes of branch *)
(* amount to what background work promises a session.                      *)
DeliveryKept == Promise!Spec
=============================================================================
