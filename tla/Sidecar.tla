-------------------------------- MODULE Sidecar --------------------------------
(***************************************************************************)
(* An agent in a tmux pane and the parent that supervises it, which talk   *)
(* through files in a private directory (extensions/subagent/channel.ts,   *)
(* tui-bridge.ts, tmux.ts, TmuxTuiRunner of runner.ts, pane-host.sh).      *)
(* Either side can be reloaded while the other goes on; a watcher reports a *)
(* change of the directory only to a side that watches when it happens.    *)
(***************************************************************************)
EXTENDS Naturals, Sequences

CONSTANTS
  MaxQuestions, \* bound: questions the child asks
  MaxCommands,  \* bound: commands the parent writes
  MaxReloads,   \* bound: reloads of both sides together
  Absent

ASSUME SidecarAssumption ==
  MaxQuestions \in Nat /\ MaxCommands \in Nat /\ MaxReloads \in Nat

VARIABLES
  parent,      \* the supervisor
  asked,       \* lastQuestionId
  waiting,     \* the question the run of the parent waits on
  saved,       \* the question in its persisted state
  killing,     \* the forceKill timer is set
  gaveUp,      \* the parent took a pane for dead whose agent went on
  parentHeard, \* the watcher of the parent has a change to report
  question,    \* question.json
  result,      \* result.json
  exit,        \* exit.json
  commands,    \* the files of commands/, in the order of their names
  acks,        \* the files of acks/, as positions in commands
  removed,     \* the parent has removed the directory
  child,       \* the pane
  pending,     \* pendingQuestionId
  cancelled,   \* the bridge was told to cancel
  childHeard,  \* processCommands is due
  queue,       \* commands given to sendMessage, not yet in a turn
  branch,      \* commands on the branch of the session of the child
  questions, reloads

parentVars == <<parent, asked, waiting, saved, killing, gaveUp>>
files      == <<question, result, exit, commands, acks, removed>>
childVars  == <<child, pending, cancelled, queue, branch>>
heard      == <<parentHeard, childHeard>>
bounds     == <<questions, reloads>>
vars == <<parentVars, files, childVars, heard, bounds>>

Question == 0 .. MaxQuestions
Status == {"complete", "failed", "stopped"}
(* "Absent" stands for a file that is not there. *)
ASSUME AbsentAssumption == Absent \notin Status
Command == [type : {"message", "reply", "cancel"}, question : Question]
Index == 1 .. MaxCommands

Ended == parent \in Status
Alive == child \in {"turn", "idle", "closing"}
Watching == Alive /\ result = Absent

Init ==
  /\ parent = "launching" /\ asked = 0 /\ waiting = 0 /\ saved = 0
  /\ killing = FALSE /\ gaveUp = FALSE
  /\ parentHeard = FALSE /\ childHeard = FALSE
  /\ question = 0 /\ result = Absent /\ exit = FALSE
  /\ commands = <<>> /\ acks = {} /\ removed = FALSE
  /\ child = "none" /\ pending = 0 /\ cancelled = FALSE
  /\ queue = <<>> /\ branch = <<>> /\ questions = 0 /\ reloads = 0

(* watchSidecar *)
Changed ==
  /\ parentHeard' = (parentHeard \/ parent = "supervising")
  /\ childHeard' = (childHeard \/ Alive)

------------------------------------------------------------------------------
(* RunnerRouter.run and TmuxTuiRunner.run: a pane that tmux cannot start is  *)
(* killed, its directory removed, and the agent runs as an RPC child.       *)
Launch ==
  /\ parent = "launching"
  /\ \/ /\ parent' = "supervising" /\ parentHeard' = TRUE
        /\ child' = "turn" /\ childHeard' = TRUE /\ UNCHANGED removed
     \/ /\ parent' = "rpc" /\ removed' = TRUE /\ child' = "gone" /\ UNCHANGED heard
  /\ UNCHANGED <<asked, waiting, saved, killing, gaveUp, question, result, exit,
                 commands, acks, pending, cancelled, queue, branch, bounds>>

(* finish of supervise; the directory is removed a while later. *)
Finish(status) == parent' = status /\ killing' = FALSE

(* scan: a result first, then a new question, then the exit of the pane. *)
Scan ==
  LET new == question \notin {0, asked} IN
  /\ parent = "supervising" /\ parentHeard /\ parentHeard' = FALSE
  /\ asked' = IF result = Absent /\ new THEN question ELSE asked
  /\ waiting' = IF result = Absent /\ new THEN question ELSE waiting
  /\ saved' = IF result = Absent /\ new THEN question ELSE saved
  /\ \/ result # Absent /\ Finish(result)
     \/ result = Absent /\ exit /\ Finish("failed")
     \/ result = Absent /\ ~exit /\ UNCHANGED <<parent, killing>>
  /\ UNCHANGED <<gaveUp, files, childVars, childHeard, bounds>>

(* The liveness timer scans once more when tmux shows no living pane. *)
TakeForDead ==
  /\ parent = "supervising"
  /\ Finish(IF result # Absent THEN result ELSE "failed")
  /\ gaveUp' = (result = Absent /\ child # "gone")
  /\ UNCHANGED <<asked, waiting, saved, files, childVars, heard, bounds>>

FindDead == child \in {"hung", "gone"} /\ TakeForDead

(* A call of tmux that fails, in whatever way, shows no living pane either.  *)
MisreadPane == child \notin {"hung", "gone"} /\ TakeForDead

Write(c) ==
  /\ parent = "supervising" /\ Len(commands) < MaxCommands
  /\ commands' = Append(commands, c)
  /\ Changed
  /\ UNCHANGED <<parent, asked, saved, gaveUp, question, result, exit, acks, removed,
                 childVars, bounds>>

Message ==
  waiting = 0 /\ Write([type |-> "message", question |-> 0])
  /\ UNCHANGED <<waiting, killing>>

(* The reply is persisted as an undefined question, which JSON leaves out:   *)
(* what was saved stays.                                                   *)
Reply ==
  waiting # 0 /\ Write([type |-> "reply", question |-> waiting])
  /\ waiting' = 0 /\ UNCHANGED killing

Abort ==
  Write([type |-> "cancel", question |-> 0])
  /\ killing' = TRUE /\ UNCHANGED waiting

Reload == reloads < MaxReloads /\ reloads' = reloads + 1

(* session_shutdown for a reload: the supervisor lets go of the pane. *)
Detach ==
  /\ parent = "supervising" /\ Reload
  /\ parent' = "detached" /\ killing' = FALSE /\ parentHeard' = FALSE
  /\ UNCHANGED <<asked, waiting, saved, gaveUp, files, childVars, childHeard, questions>>

(* restore and attach: it watches, then scans at once. *)
Attach ==
  /\ parent = "detached" /\ parent' = "supervising"
  /\ asked' = 0 /\ waiting' = saved /\ parentHeard' = TRUE
  /\ UNCHANGED <<saved, killing, gaveUp, files, childVars, childHeard, bounds>>

(* finish, after SIDECAR_CLEANUP_DELAY_MS, whether or not the agent is gone:  *)
(* what it writes from then on fails.                                      *)
RemoveSidecar ==
  /\ Ended /\ ~removed /\ removed' = TRUE
  /\ UNCHANGED <<parentVars, question, result, exit, commands, acks, childVars,
                 heard, bounds>>

------------------------------------------------------------------------------
(* Mutant: a result replaces the one that is there. *)
PublishAgain(status) == result' = status

(* publishTerminal: the first result stays. *)
Publish(status) == result' = IF result = Absent /\ ~removed THEN status ELSE result

(* ask_parent ends its turn. *)
Ask ==
  /\ child = "turn" /\ pending = 0 /\ result = Absent /\ ~removed
  /\ questions < MaxQuestions
  /\ questions' = questions + 1
  /\ question' = questions' /\ pending' = questions'
  /\ Changed
  /\ UNCHANGED <<parentVars, result, exit, commands, acks, removed, child, cancelled,
                 queue, branch, reloads>>

(* A turn of the agent ends: what was sent to it starts another; it waits    *)
(* for its reply or for agents of its own, or it hands off.                *)
TurnEnds ==
  /\ child = "turn" /\ queue = <<>>
  /\ \/ child' = "idle" /\ UNCHANGED <<result, heard>>
     \/ /\ pending = 0 /\ ~removed
        /\ \E status \in {"complete", "failed"} :
             Publish(IF cancelled THEN "stopped" ELSE status)
        /\ child' = "closing" /\ Changed
  /\ UNCHANGED <<parentVars, question, exit, commands, acks, removed, pending,
                 cancelled, queue, branch, bounds>>

Aborted == "failed"

(* The human aborts a turn: the run ends, whatever is pending, unless its    *)
(* result cannot be written any more.                                      *)
Escape ==
  /\ child = "turn" /\ ~removed
  /\ Publish(IF cancelled THEN "stopped" ELSE Aborted)
  /\ child' = "closing" /\ Changed
  /\ UNCHANGED <<parentVars, question, exit, commands, acks, removed, pending,
                 cancelled, queue, branch, bounds>>

(* An agent of its own hands off, or the human types; not while it waits     *)
(* for a reply.                                                            *)
Resume ==
  /\ child = "idle" /\ pending = 0 /\ child' = "turn"
  /\ UNCHANGED <<parentVars, files, pending, cancelled, queue, branch, heard, bounds>>

(* A message that was sent goes on the branch and into a turn. *)
Deliver ==
  /\ child \in {"turn", "idle"} /\ queue # <<>>
  /\ branch' = Append(branch, Head(queue)) /\ queue' = Tail(queue)
  /\ child' = "turn"
  /\ UNCHANGED <<parentVars, files, pending, cancelled, heard, bounds>>

Applied(i) == \E j \in 1 .. Len(branch) : branch[j].at = i

(* listPendingCommands, without the replies that applyCommand skips *)
Due == {i \in 1 .. Len(commands) : i \notin acks
          /\ (commands[i].type = "reply" => commands[i].question = pending \/ Applied(i))}

Send(i) == queue' = Append(queue, [at |-> i, question |-> commands[i].question])

(* Mutant: the files that acknowledge commands are not written. *)
AcknowledgeNone(i) == UNCHANGED acks

Acknowledge(i) == acks' = acks \cup {i}

Cancel(i) ==
  /\ commands[i].type = "cancel" /\ cancelled' = TRUE /\ child' = "closing"
  /\ UNCHANGED <<queue, pending, question>>

(* processCommands, one command at a time *)
Process ==
  /\ childHeard /\ Watching
  /\ IF Due = {} \/ removed THEN childHeard' = FALSE /\ UNCHANGED <<childVars, files>>
     ELSE LET i == CHOOSE i \in Due : \A j \in Due : i <= j IN
       /\ Acknowledge(i)
       /\ \/ Applied(i) /\ UNCHANGED <<child, cancelled, queue, pending, question>>
          \/ ~Applied(i) /\ Cancel(i)
          \/ /\ ~Applied(i) /\ commands[i].type = "message" /\ Send(i)
             /\ UNCHANGED <<child, cancelled, pending, question>>
          \/ /\ ~Applied(i) /\ commands[i].type = "reply" /\ Send(i)
             /\ pending' = 0
             /\ question' = IF question = commands[i].question THEN 0 ELSE question
             /\ UNCHANGED <<child, cancelled>>
       /\ UNCHANGED <<result, exit, commands, removed, branch, childHeard>>
  /\ parentHeard' = (parentHeard \/ (parent = "supervising" /\ question' # question))
  /\ UNCHANGED <<parentVars, bounds>>

(* /reload in the pane, between turns: a new bridge; what was sent to the    *)
(* agent stays with it.                                                    *)
Restart ==
  /\ child = "idle" /\ ~removed /\ Reload
  /\ child' = "reloading" /\ childHeard' = FALSE
  /\ UNCHANGED <<parentVars, files, pending, cancelled, queue, branch, parentHeard,
                 questions>>

Answered(q) == \E j \in 1 .. Len(branch) : branch[j].question = q

(* Mutant: the new bridge only waits for changes. *)
StartQuietly ==
  /\ child = "reloading"
  /\ child' = (IF result # Absent THEN "closing" ELSE "idle")
  /\ pending' = (IF Answered(question) THEN 0 ELSE question)
  /\ question' = pending' /\ cancelled' = FALSE /\ childHeard' = FALSE
  /\ UNCHANGED <<parentVars, result, exit, commands, acks, removed, queue, branch,
                 parentHeard, bounds>>

(* start: a question whose reply is on the branch is over.  Without the      *)
(* directory the bridge cannot be made.                                    *)
Start ==
  /\ child = "reloading" /\ ~removed
  /\ child' = (IF result # Absent THEN "closing" ELSE "idle")
  /\ pending' = (IF Answered(question) THEN 0 ELSE question)
  /\ question' = pending' /\ cancelled' = FALSE /\ childHeard' = TRUE
  /\ UNCHANGED <<parentVars, result, exit, commands, acks, removed, queue, branch,
                 parentHeard, bounds>>

(* shutdown of the bridge when Pi quits *)
Close ==
  /\ child = "closing"
  /\ Publish(IF cancelled THEN "stopped" ELSE "failed")
  /\ child' = "down" /\ Changed
  /\ UNCHANGED <<parentVars, question, exit, commands, acks, removed, pending,
                 cancelled, queue, branch, bounds>>

(* Pi quits by its user or crashes; a crash publishes nothing. *)
Quit ==
  /\ child \in {"turn", "idle", "reloading"}
  /\ \E s \in {"closing", "down"} : child' = s
  /\ UNCHANGED <<parentVars, files, pending, cancelled, queue, branch, heard, bounds>>

(* pane-host.sh *)
RecordExit ==
  /\ child = "down" /\ child' = "gone" /\ exit' = ~removed /\ Changed
  /\ UNCHANGED <<parentVars, question, result, commands, acks, removed, pending,
                 cancelled, queue, branch, bounds>>

(* The pane is killed, by the forceKill timer or by its user: tmux knows it   *)
(* no more.                                                                *)
Kill ==
  /\ child \notin {"none", "hung", "gone"} /\ killing' = FALSE
  /\ child' = IF child = "down" THEN "gone" ELSE "hung"
  /\ UNCHANGED <<parent, asked, waiting, saved, gaveUp, files, pending, cancelled,
                 queue, branch, heard, bounds>>

(* Pi was hung up on: it hands off at last, shuts down in order or dies; its *)
(* shell may live on.                                                      *)
HangUp ==
  /\ child = "hung" /\ child' = "gone"
  /\ \/ UNCHANGED result
     \/ Publish(IF cancelled THEN "stopped" ELSE "failed")
     \/ pending = 0 /\ ~cancelled /\ Publish("complete")
  /\ exit' \in {exit, ~removed} /\ Changed
  /\ UNCHANGED <<parentVars, question, commands, acks, removed, pending, cancelled,
                 queue, branch, bounds>>

ForceKill == killing /\ Kill

------------------------------------------------------------------------------
Supervise == Scan \/ FindDead \/ MisreadPane \/ Attach
Run == TurnEnds \/ Deliver \/ Process \/ Start \/ Close \/ RecordExit \/ HangUp

Next ==
  \/ Launch \/ Supervise \/ Message \/ Reply \/ Abort \/ Detach \/ RemoveSidecar
  \/ Run \/ Ask \/ Escape \/ Resume \/ Restart \/ Quit \/ Kill

Spec == Init /\ [][Next]_vars

Fairness ==
  /\ WF_vars(Scan) /\ WF_vars(FindDead) /\ WF_vars(Attach)
  /\ WF_vars(Process) /\ WF_vars(Start) /\ WF_vars(Close) /\ WF_vars(RecordExit)
  /\ WF_vars(ForceKill)

FairSpec == Spec /\ Fairness

------------------------------------------------------------------------------
Sent == [at : Index, question : Question]

TypeOK ==
  /\ parent \in Status \cup {"launching", "supervising", "detached", "rpc"}
  /\ {asked, waiting, saved, question, pending, questions} \subseteq Question
  /\ {killing, gaveUp, parentHeard, childHeard, exit, removed, cancelled}
       \subseteq BOOLEAN
  /\ result \in Status \cup {Absent}
  /\ commands \in Seq(Command) /\ acks \subseteq 1 .. Len(commands)
  /\ child \in {"none", "turn", "idle", "reloading", "closing", "down", "hung", "gone"}
  /\ queue \in Seq(Sent) /\ branch \in Seq(Sent)
  /\ Len(commands) \in 0 .. MaxCommands /\ reloads \in 0 .. MaxReloads

Heard == branch \o queue

(* The child hears a command once, however often either side is reloaded    *)
(* between its steps (tui-bridge.ts, 168-185).                             *)
ToldOnce ==
  \A i, j \in 1 .. Len(Heard) : i # j => Heard[i].at # Heard[j].at

(* A question gets one reply, although the parent may report and answer it  *)
(* again after it was reloaded (runner.ts, 404-423; tui-bridge.ts, 196).    *)
AnsweredOnce ==
  \A i, j \in 1 .. Len(Heard) :
    i # j /\ Heard[i].question # 0 => Heard[i].question # Heard[j].question

(* The child hears each command, and each answer, once.                      *)
HeardOnce == TypeOK /\ ToldOnce /\ AnsweredOnce

(* A handoff or a stop is told only as the child published it, and a handoff *)
(* that was published is told, although the parent can learn of the end     *)
(* from the result, the exit or the death of the pane, in any order.  A     *)
(* parent to which tmux showed no pane before the agent was gone cannot     *)
(* tell what is published after it gave up (runner.ts, 404-436).            *)
OutcomeTrue ==
  Ended => /\ parent = "complete" => result = "complete"
           /\ parent = "stopped" => result = "stopped"
           /\ result = "complete" => parent = "complete" \/ gaveUp

(* A question is reported, even one asked while the parent was reloaded, or  *)
(* the run ends for one of the two.                                        *)
QuestionSeen ==
  \A q \in 1 .. MaxQuestions :
    question = q ~> \/ asked = q \/ question # q \/ Ended
                    \/ result # Absent \/ child \in {"hung", "gone"}

(* A message or a cancel is acknowledged, even one that was written while   *)
(* the child was reloaded, or the run ends and takes the directory with it. *)
CommandHeard ==
  \A i \in Index :
    i <= Len(commands) /\ commands[i].type # "reply"
      ~> i \in acks \/ removed \/ result # Absent \/ child \in {"down", "hung", "gone"}

(* A stopped run ends, although a reload of the parent forgets the timer    *)
(* that would kill the pane (runner.ts, 391-395, 440-456).                 *)
CancelEnds ==
  (\E i \in 1 .. Len(commands) : commands[i].type = "cancel") ~> Ended

(* Questions, messages and cancels take effect, although a watcher tells     *)
(* nothing to a side that is being reloaded.                                *)
NothingMissed == QuestionSeen /\ CommandHeard /\ CancelEnds
=============================================================================
