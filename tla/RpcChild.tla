------------------------------- MODULE RpcChild -------------------------------
(***************************************************************************)
(* A background agent that runs as `pi --mode rpc`: the parent's RpcRunner *)
(* (extensions/subagent/runner.ts) with its RpcEventTracker (protocol.ts), *)
(* the callbacks of supervise (index.ts), and the child process, which     *)
(* asks questions, delegates to runs of its own and reports events on its  *)
(* standard output.  Both pipes are in order; each end reads when it likes. *)
(***************************************************************************)
EXTENDS Naturals, Sequences

CONSTANTS
  Nested,        \* runs the child may delegate to
  MaxQuestions,  \* bound: questions the child asks
  MaxMessages    \* bound: steering messages from the parent

ASSUME RpcAssumption == MaxQuestions \in Nat /\ MaxMessages \in Nat

VARIABLES
  phase,     \* "preparing", or the spawned child is "held" by the run or not
  cancel,    \* run.cancelRequested
  aborted,   \* abort() was called on the child's handle
  outcome,   \* how the promise of run() settled
  tracker,   \* pendingQuestion (0: none), nestedChildren and finalError
  run,       \* what the parent records: activity and question (0: none)
  turn,      \* the child: no process, idle, in a turn, ending it, or dead
  open,      \* the child's questionOpen
  asks,      \* questions asked so far
  nested,    \* the child's own runs
  messages,  \* steering messages sent so far
  stdin, stdout

parentVars == <<phase, cancel, aborted, outcome, run, messages>>
childVars  == <<turn, open, asks, nested>>
vars == <<parentVars, tracker, childVars, stdin, stdout>>

Outcomes == {"none", "complete", "failed", "stopped"}
Commands == {"prompt", "message", "reply", "abort"}
Event(k, q, S, b) == [kind |-> k, question |-> q, runs |-> S, bad |-> b]
Running == outcome = "none"
Alive == turn \in {"idle", "working", "asking"}

Init ==
  /\ phase = "preparing" /\ cancel = FALSE /\ aborted = FALSE
  /\ outcome = "none"
  /\ tracker = [question |-> 0, nested |-> {}, error |-> FALSE]
  /\ run = [activity |-> "starting", question |-> 0]
  /\ turn = "none" /\ open = FALSE /\ asks = 0
  /\ nested = [n \in Nested |-> "none"]
  /\ messages = 0 /\ stdin = <<>> /\ stdout = <<>>

------------------------------------------------------------------------------
(* The child is spawned; a run cancelled meanwhile is aborted at once and   *)
(* never prompted, and its handle is not kept (onSpawn).                   *)
Spawn ==
  /\ phase = "preparing" /\ Running
  /\ turn' = "idle"
  /\ aborted' = cancel
  /\ phase' = IF cancel THEN "unheld" ELSE "held"
  /\ stdin' = IF cancel THEN <<"abort">> ELSE <<"prompt">>
  /\ run' = [run EXCEPT !.activity = "running"]
  /\ UNCHANGED <<cancel, outcome, tracker, open, asks, nested, messages, stdout>>

SpawnFails ==
  /\ phase = "preparing" /\ Running
  /\ phase' = "unheld" /\ outcome' = "failed"
  /\ UNCHANGED <<cancel, aborted, tracker, run, childVars, messages, stdin,
                 stdout>>

(* agent_control stop *)
Stop ==
  /\ Running /\ ~cancel
  /\ cancel' = TRUE
  /\ aborted' = (phase = "held")
  /\ stdin' = IF phase = "held" THEN Append(stdin, "abort") ELSE stdin
  /\ UNCHANGED <<phase, outcome, tracker, run, childVars, messages, stdout>>

(* agent_control message *)
Message ==
  /\ Running /\ phase = "held" /\ run.question = 0
  /\ messages < MaxMessages
  /\ messages' = messages + 1
  /\ stdin' = Append(stdin, "message")
  /\ UNCHANGED <<phase, cancel, aborted, outcome, tracker, run, childVars,
                 stdout>>

(* agent_control reply: the answer is written before the tracker checks    *)
(* the identifier of the question.                                         *)
Reply ==
  /\ Running /\ phase = "held" /\ run.question # 0
  /\ stdin' = Append(stdin, "reply")
  /\ LET pending == tracker.question = run.question IN
       /\ tracker' = IF pending THEN [tracker EXCEPT !.question = 0] ELSE tracker
       /\ run' = IF pending THEN [activity |-> "running", question |-> 0]
                 ELSE run
  /\ UNCHANGED <<phase, cancel, aborted, outcome, childVars, messages, stdout>>

------------------------------------------------------------------------------
(* Mutant: a settled child has no question open.                           *)
ConsumeClearing(e) ==
  tracker' =
    CASE e.kind = "message"  -> [tracker EXCEPT !.error = e.bad]
      [] e.kind = "question" -> [tracker EXCEPT !.question = e.question]
      [] e.kind = "nested"   -> [tracker EXCEPT !.nested = @ \cup e.runs]
      [] e.kind = "settled"  -> [tracker EXCEPT !.question = 0]
      [] OTHER               -> tracker

(* RpcEventTracker.consume.  A completion is only recognised in the        *)
(* single-run protocol, and batches are what the child's extension sends.  *)
Consume(e) ==
  tracker' =
    CASE e.kind = "message"  -> [tracker EXCEPT !.error = e.bad]
      [] e.kind = "question" -> [tracker EXCEPT !.question = e.question]
      [] e.kind = "nested"   -> [tracker EXCEPT !.nested = @ \cup e.runs]
      [] e.kind = "single"   -> [tracker EXCEPT !.nested = @ \ e.runs]
      [] OTHER               -> tracker

(* Mutant: delegated runs do not keep a settled child alive.               *)
WaitingForReply == tracker.question # 0

WaitingTracker == tracker.question # 0 \/ tracker.nested # {}

(* The outcome when the child settles; "bad" says the turn was aborted.    *)
SettledOutcome(e) ==
  CASE e.bad                                      -> "failed"
    [] ~e.bad /\ WaitingTracker                   -> "none"
    [] ~e.bad /\ ~WaitingTracker /\ tracker.error -> "failed"
    [] OTHER -> IF aborted THEN "stopped" ELSE "complete"

(* onQuestion and onStatus, which also run after the promise has settled.  *)
Callbacks(e) ==
  CASE e.kind = "question" -> [activity |-> "waiting", question |-> e.question]
    [] e.kind = "nested"   -> [run EXCEPT !.activity = "waiting"]
    [] OTHER               -> run

(* processLine, for the next line the child wrote *)
ProcessLine ==
  /\ stdout # <<>>
  /\ stdout' = Tail(stdout)
  /\ LET e == Head(stdout) IN
       /\ Consume(e)
       /\ outcome' = IF ~Running THEN outcome
                     ELSE CASE e.kind = "refusal" -> "failed"
                            [] e.kind = "settled" -> SettledOutcome(e)
                            [] OTHER              -> outcome
       /\ run' = IF Running /\ outcome' # "none"
                 THEN [Callbacks(e) EXCEPT !.question = 0] ELSE Callbacks(e)
  /\ UNCHANGED <<phase, cancel, aborted, childVars, messages, stdin>>

(* Mutant: no kill follows an abort the child does not obey.               *)
NeverKill == FALSE /\ UNCHANGED vars

(* One second after abort(), if the child has still not settled *)
ForceKill ==
  /\ aborted /\ Running /\ Alive
  /\ turn' = "dead"
  /\ UNCHANGED <<parentVars, tracker, open, asks, nested, stdin, stdout>>

(* The child is gone and its output is read. *)
Close ==
  /\ turn = "dead" /\ stdout = <<>> /\ Running
  /\ outcome' = IF aborted THEN "stopped" ELSE "failed"
  /\ run' = [run EXCEPT !.question = 0]
  /\ UNCHANGED <<phase, cancel, aborted, tracker, childVars, messages, stdin,
                 stdout>>

------------------------------------------------------------------------------
(* The child takes a command.  A prompt starts a turn or steers the one     *)
(* under way; it may be refused.                                           *)
TakePrompt ==
  /\ turn \in {"idle", "working"}
  /\ stdin # <<>> /\ Head(stdin) # "abort"
  /\ stdin' = Tail(stdin)
  /\ \/ /\ turn' = "working" /\ open' = FALSE
        /\ UNCHANGED stdout
     \/ /\ stdout' = Append(stdout, Event("refusal", 0, {}, TRUE))
        /\ UNCHANGED <<turn, open>>
  /\ UNCHANGED <<parentVars, tracker, asks, nested>>

TakeAbort ==
  /\ Alive
  /\ stdin # <<>> /\ Head(stdin) = "abort"
  /\ stdin' = Tail(stdin)
  /\ turn' = "idle"
  /\ stdout' = IF turn = "idle" THEN stdout
               ELSE Append(stdout, Event("settled", 0, {}, TRUE))
  /\ UNCHANGED <<parentVars, tracker, open, asks, nested>>

(* ask_parent, which ends the turn: one question until the next input.     *)
Ask ==
  /\ turn = "working" /\ ~open /\ asks < MaxQuestions
  /\ asks' = asks + 1 /\ open' = TRUE /\ turn' = "asking"
  /\ stdout' = Append(stdout, Event("question", asks + 1, {}, FALSE))
  /\ UNCHANGED <<parentVars, tracker, nested, stdin>>

(* background_agent in the child *)
Delegate(n) ==
  /\ turn = "working" /\ nested[n] = "none"
  /\ nested' = [nested EXCEPT ![n] = "running"]
  /\ stdout' = Append(stdout, Event("nested", 0, {n}, FALSE))
  /\ UNCHANGED <<parentVars, tracker, turn, open, asks, stdin>>

NestedEnds(n) ==
  /\ nested[n] = "running"
  /\ nested' = [nested EXCEPT ![n] = "done"]
  /\ UNCHANGED <<parentVars, tracker, turn, open, asks, stdin, stdout>>

(* deliverCompletions in the child: the cohort in one batch message, which  *)
(* starts a turn.                                                          *)
Batch ==
  LET done == {n \in Nested : nested[n] = "done"} IN
  /\ turn = "idle" /\ done # {}
  /\ \A n \in Nested : nested[n] # "running"
  /\ nested' = [n \in Nested |-> IF n \in done THEN "told" ELSE nested[n]]
  /\ turn' = "working"
  /\ stdout' = Append(stdout, Event("batch", 0, done, FALSE))
  /\ UNCHANGED <<parentVars, tracker, open, asks, stdin>>

(* The turn ends with an answer, or with a model error; ask_parent aborts   *)
(* its own turn, which Pi may report as aborted or not.  (The runs in the  *)
(* last event are history: those the child still waits for.)               *)
Outstanding == {n \in Nested : nested[n] \in {"running", "done"}}

EndTurn ==
  /\ turn \in {"working", "asking"}
  /\ turn' = "idle"
  /\ \E bad, abort \in BOOLEAN :
       /\ abort => turn = "asking"
       /\ stdout' = stdout \o <<Event("message", 0, {}, bad),
                                Event("settled", 0, Outstanding, abort)>>
  /\ UNCHANGED <<parentVars, tracker, open, asks, nested, stdin>>

(* finish() terminates the child, which may also die by itself. *)
Die ==
  /\ Alive
  /\ turn' = "dead"
  /\ UNCHANGED <<parentVars, tracker, open, asks, nested, stdin, stdout>>

Parent == Spawn \/ SpawnFails \/ Stop \/ Message \/ Reply \/ ProcessLine
          \/ ForceKill \/ Close
Child == TakePrompt \/ TakeAbort \/ Ask \/ EndTurn \/ Batch \/ Die
         \/ \E n \in Nested : Delegate(n) \/ NestedEnds(n)

Next == Parent \/ Child

Spec == Init /\ [][Next]_vars

(* Launching, reading, timers and turns take finite time; nobody has to    *)
(* ask, delegate, reply, stop or die.                                      *)
Fairness ==
  /\ WF_vars(Spawn \/ SpawnFails) /\ WF_vars(ProcessLine) /\ WF_vars(ForceKill)
  /\ WF_vars(Close) /\ WF_vars(TakePrompt) /\ WF_vars(TakeAbort)
  /\ WF_vars(EndTurn) /\ WF_vars(Batch)
  /\ \A n \in Nested : WF_vars(NestedEnds(n))

FairSpec == Spec /\ Fairness

------------------------------------------------------------------------------
TypeOK ==
  /\ phase \in {"preparing", "held", "unheld"}
  /\ cancel \in BOOLEAN /\ aborted \in BOOLEAN /\ open \in BOOLEAN
  /\ outcome \in Outcomes
  /\ tracker \in [question : 0 .. MaxQuestions, nested : SUBSET Nested,
                  error : BOOLEAN]
  /\ run \in [activity : {"starting", "running", "waiting"},
              question : 0 .. MaxQuestions]
  /\ turn \in {"none", "idle", "working", "asking", "dead"}
  /\ asks \in 0 .. MaxQuestions /\ messages \in 0 .. MaxMessages
  /\ nested \in [Nested -> {"none", "running", "done", "told"}]
  /\ stdin \in Seq(Commands)
  /\ stdout \in Seq([kind : {"message", "question", "nested", "single", "batch",
                             "settled", "refusal"},
                     question : 0 .. MaxQuestions, runs : SUBSET Nested,
                     bad : BOOLEAN])

(* Whenever the parent may reply, the tracker accepts the reply: otherwise *)
(* the child would get an answer the parent is told was refused            *)
(* (runner.ts, 265-272: the text is written before acceptReply throws).    *)
ReplyAccepted ==
  Running /\ run.question # 0 => tracker.question = run.question

(* A handoff is taken for the final one only if the child waits for no run it *)
(* delegated to, although the parent knows of that run only from an event it *)
(* may not have read yet, and for no answer to a question (protocol.ts,     *)
(* 251-259), and only if the run was not stopped before, whatever the child *)
(* wrote before the abort reached it (runner.ts, 241).  Nothing that is read *)
(* afterwards, nor the child's end, changes what the run was settled as.   *)
CompleteIsFinal ==
  [][/\ Running /\ outcome' = "complete"
        => ~aborted /\ Head(stdout).runs = {} /\ tracker.question = 0
     /\ ~Running => outcome' = outcome]_vars

(* A stop always ends the run: before the spawn, in a turn, while a        *)
(* question is open, and when the child delegated or hangs.                *)
StopEnds == cancel ~> ~Running
=============================================================================
