------------------------------- MODULE WhatsApp -------------------------------
(***************************************************************************)
(* The WhatsApp extension: the commands and the tool of the session        *)
(* (extensions/whatsapp/index.ts), the worker thread that isolates the     *)
(* client (isolated-client.ts, worker.ts) and the connection that the      *)
(* client keeps up in it (client.ts).  Starts, stops and resets are        *)
(* serialized; a worker may die, or not answer, at any time.               *)
(***************************************************************************)
EXTENDS Naturals, Sequences, FiniteSets

CONSTANTS
  MaxCommands, \* bound: /wpp commands
  MaxCalls,    \* bound: calls of the tool
  MaxDrops,    \* bound: closed connections
  MaxMail,     \* bound: messages of workers on their way
  Nobody

VARIABLES
  ops,       \* the lifecycle operations, in the order they were asked for
  step,      \* where the first of them is
  worker,    \* the worker that the session talks to
  threads,   \* the workers that run
  latest,    \* latestStatus
  tool,      \* the tool is active
  calls,     \* pending
  serving,   \* the requests in the queue of the worker
  mail,      \* messages of workers on their way
  requested, \* the client in the worker
  socket, connection, timer,
  login,     \* there are credentials on disk
  commands, asked, drops

session == <<latest, tool>>
client  == <<requested, socket, connection, timer>>
bounds  == <<commands, asked, drops>>
vars == <<ops, step, worker, threads, session, calls, serving, mail, client, login,
          bounds>>

Worker == 1 .. MaxCommands
Connection == {"off", "connecting", "qr", "connected", "disconnected"}
Event == Connection \cup {"terminal", "done", "error"}

StartCall == 0
StopCall  == MaxCalls + 1
Call      == StartCall .. StopCall  \* the others are reads

Init ==
  /\ ops = <<>> /\ step = "none" /\ worker = Nobody /\ threads = {}
  /\ latest = "off" /\ tool = FALSE /\ calls = {} /\ serving = <<>> /\ mail = <<>>
  /\ requested = FALSE /\ socket = FALSE /\ connection = "off" /\ timer = FALSE
  /\ login = FALSE /\ commands = 0 /\ asked = 0 /\ drops = 0

Letter(event, c) == [from |-> worker, event |-> event, call |-> c]
Post(event) == mail' = Append(mail, Letter(event, StopCall))
Answer(event, c) == mail' = Append(mail, Letter(event, c))
PostThen(status, event, c) ==
  mail' = mail \o <<Letter(status, StopCall), Letter(event, c)>>

------------------------------------------------------------------------------
(* /wpp on, off, reset; session_shutdown stops as off does. *)
Command(op) ==
  /\ commands < MaxCommands /\ commands' = commands + 1
  /\ tool' = (op = "start")
  /\ ops' = Append(ops, op)
  /\ step' = IF ops = <<>> THEN "begin" ELSE step
  /\ UNCHANGED <<worker, threads, latest, calls, serving, mail, client, login, asked,
                 drops>>

(* The first operation ends and the next begins. *)
Conclude == ops' = Tail(ops) /\ step' = IF Len(ops) > 1 THEN "begin" ELSE "none"

ClientEnds ==
  requested' = FALSE /\ socket' = FALSE /\ timer' = FALSE /\ connection' = "off"

(* #call *)
Request(c) ==
  /\ calls' = calls \cup {c}
  /\ serving' = IF worker \in threads THEN Append(serving, c) ELSE serving

(* Mutant: a worker that is being terminated is not waited for. *)
TerminatedSoon == TRUE

(* await this.#termination *)
Terminated == worker # Nobody \/ threads = {}

(* A worker is named after the operation that starts it. *)
First == commands - Len(ops) + 1

StartBegins ==
  /\ ops # <<>> /\ ops[1] \in {"start", "restart"} /\ step = "begin" /\ Terminated
  /\ IF worker # Nobody
     THEN Conclude /\ UNCHANGED <<worker, threads, calls, serving, client>>
     ELSE /\ worker' = First /\ threads' = threads \cup {worker'}
          /\ ClientEnds
          /\ calls' = calls \cup {StartCall} /\ serving' = <<StartCall>>
          /\ step' = "starting" /\ UNCHANGED ops
  /\ UNCHANGED <<session, mail, login, bounds>>

StopBegins ==
  /\ (step = "begin" /\ ops[1] \in {"stop", "reset"}) \/ step = "failed"
  /\ IF worker = Nobody
     THEN step' = "terminating" /\ UNCHANGED <<calls, serving>>
     ELSE step' = "stopping" /\ Request(StopCall)
  /\ UNCHANGED <<ops, worker, threads, session, mail, client, login, bounds>>

(* Mutant: the answer is waited for without a limit. *)
StopAwaited ==
  /\ step = "stopping" /\ StopCall \notin calls
  /\ worker' = Nobody /\ calls' = {} /\ step' = "terminating"
  /\ UNCHANGED <<ops, threads, session, serving, mail, client, login, bounds>>

(* The worker has answered, or has not within three seconds: it is          *)
(* terminated, and what it was asked is rejected.                          *)
StopAnswered ==
  /\ step = "stopping" /\ worker' = Nobody /\ calls' = {} /\ step' = "terminating"
  /\ UNCHANGED <<ops, threads, session, serving, mail, client, login, bounds>>

(* Every worker ends that the session does not talk to. *)
Terminate ==
  /\ threads \ {worker} # {} /\ threads' = threads \cap {worker}
  /\ serving' = <<>> /\ ClientEnds
  /\ UNCHANGED <<ops, step, worker, session, calls, mail, login, bounds>>

(* The end of #stop; a reset deletes the files and starts; the command of a  *)
(* start that failed switches the tool off.                                *)
StopEnds ==
  /\ step = "terminating" /\ Terminated
  /\ latest' = "off"
  /\ login' = (login /\ ops[1] # "reset")
  /\ IF ops[1] = "reset"
     THEN ops' = [ops EXCEPT ![1] = "restart"] /\ step' = "begin" /\ UNCHANGED tool
     ELSE Conclude /\ tool' = (tool /\ ops[1] # "start")
  /\ UNCHANGED <<worker, threads, calls, serving, mail, client, bounds>>

(* #failed, of the worker that the session talks to *)
Failed ==
  /\ worker' = Nobody /\ calls' = {}
  /\ latest' = "disconnected" /\ tool' = FALSE
  /\ step' = CASE step = "starting" -> "failed"
               [] step = "stopping" -> "terminating"
               [] OTHER -> step

(* An uncaught failure of the library: the error or exit event of the worker *)
Crash ==
  /\ worker # Nobody /\ Failed
  /\ UNCHANGED <<ops, threads, serving, mail, client, login, bounds>>

Shown(m) == IF m.event \in Connection THEN m.event ELSE latest

(* Mutant: messages of earlier workers are heeded. *)
Heeded(m) == TRUE

(* A message of a worker that is no longer the session's is dropped. *)
Current(m) == m.from = worker

Answers(m) == m.event \in {"done", "error"}

Receive ==
  LET m == Head(mail) IN
  /\ mail # <<>> /\ mail' = Tail(mail)
  /\ IF ~Current(m) THEN UNCHANGED <<session, calls, step, ops>>
     ELSE /\ latest' = Shown(m)
          /\ calls' = IF Answers(m) THEN calls \ {m.call} ELSE calls
          /\ IF Answers(m) /\ m.call = StartCall /\ m.call \in calls
             THEN IF m.event = "done"
                  THEN Conclude /\ tool' = (tool \/ ops[1] = "restart")
                  ELSE step' = "failed" /\ UNCHANGED <<ops, tool>>
             ELSE tool' = (tool /\ m.event # "terminal") /\ UNCHANGED <<step, ops>>
  /\ UNCHANGED <<worker, threads, serving, client, login, bounds>>

(* The tool is called. *)
Read ==
  /\ tool /\ latest = "connected" /\ worker # Nobody
  /\ asked < MaxCalls /\ asked' = asked + 1 /\ Request(asked')
  /\ UNCHANGED <<ops, step, worker, threads, session, mail, client, login, commands,
                 drops>>

(* A call is given up after 60 seconds. *)
TimeOut ==
  \E c \in calls \ {StopCall} :
    /\ calls' = calls \ {c}
    /\ step' = IF c = StartCall THEN "failed" ELSE step
    /\ UNCHANGED <<ops, worker, threads, session, serving, mail, client, login, bounds>>

------------------------------------------------------------------------------
Running == worker \in threads /\ Len(mail) < MaxMail

(* The worker serves one request at a time: start connects, and may fail     *)
(* before or after it says so.                                             *)
Serve ==
  LET c == Head(serving) IN
  /\ Running /\ serving # <<>> /\ serving' = Tail(serving)
  /\ \/ /\ c = StartCall /\ connection' = "connecting" /\ UNCHANGED timer
        /\ \/ /\ requested' = TRUE /\ socket' = TRUE
              /\ PostThen("connecting", "done", c)
           \/ /\ PostThen("connecting", "error", c)
              /\ UNCHANGED <<requested, socket>>
     \/ c = StartCall /\ Answer("error", c) /\ UNCHANGED client
     \/ c = StopCall /\ PostThen("off", "done", c) /\ ClientEnds
     \/ /\ c \notin {StartCall, StopCall} /\ UNCHANGED client
        /\ Answer(IF connection = "connected" THEN "done" ELSE "error", c)
  /\ UNCHANGED <<ops, step, worker, threads, session, calls, login, bounds>>

Status(s) == connection' = s /\ Post(s)

(* The timer of a closed connection: #connect, with the credentials there *)
(* are; one that throws is not tried again.                               *)
Connect ==
  /\ Running /\ requested /\ timer /\ timer' = FALSE
  /\ socket' \in BOOLEAN /\ Status("connecting")
  /\ UNCHANGED <<ops, step, worker, threads, session, calls, serving, requested, login,
                 bounds>>

Pair ==
  /\ Running /\ socket /\ ~login /\ connection = "connecting" /\ Status("qr")
  /\ UNCHANGED <<ops, step, worker, threads, session, calls, serving, requested, socket,
                 timer, login, bounds>>

Open ==
  /\ Running /\ socket /\ connection \in {"connecting", "qr"}
  /\ login \/ connection = "qr"
  /\ login' = TRUE /\ Status("connected")
  /\ UNCHANGED <<ops, step, worker, threads, session, calls, serving, requested, socket,
                 timer, bounds>>

(* A connection is closed and retried two seconds later. *)
Closed ==
  /\ Running /\ socket /\ drops < MaxDrops /\ drops' = drops + 1
  /\ socket' = FALSE /\ timer' = TRUE /\ Status("disconnected")
  /\ UNCHANGED <<ops, step, worker, threads, session, calls, serving, requested, login,
                 commands, asked>>

(* The user has unlinked the device. *)
LoggedOut ==
  /\ Running /\ socket /\ drops < MaxDrops /\ drops' = drops + 1
  /\ socket' = FALSE /\ requested' = FALSE
  /\ connection' = "disconnected" /\ PostThen("disconnected", "terminal", StopCall)
  /\ UNCHANGED <<ops, step, worker, threads, session, calls, serving, timer, login,
                 commands, asked>>

------------------------------------------------------------------------------
Operate ==
  StartBegins \/ StopBegins \/ StopAnswered \/ Terminate \/ StopEnds \/ Receive

Keep == Serve \/ Connect \/ Pair \/ Open

Next ==
  \/ \E op \in {"start", "stop", "reset"} : Command(op)
  \/ Operate \/ Crash \/ Read \/ TimeOut \/ Keep \/ Closed \/ LoggedOut

Spec == Init /\ [][Next]_vars

Fairness == WF_vars(Operate) /\ WF_vars(TimeOut)

FairSpec == Spec /\ Fairness

------------------------------------------------------------------------------
TypeOK ==
  /\ ops \in Seq({"start", "stop", "reset", "restart"})
  /\ step \in {"none", "begin", "starting", "failed", "stopping", "terminating"}
  /\ worker \in Worker \cup {Nobody} /\ threads \subseteq Worker
  /\ latest \in Connection /\ {tool, requested, socket, timer, login} \subseteq BOOLEAN
  /\ calls \subseteq Call /\ serving \in Seq(Call)
  /\ mail \in Seq([from : Worker, event : Event, call : Call])
  /\ connection \in Connection

(* No two workers run on the same credentials, however the last one ended     *)
(* (isolated-client.ts, 72, 139), and a reset deletes the login and the      *)
(* history only when none is left that could write them again (60-68).      *)
WorkersAlone ==
  [][Cardinality(threads') <= 1 /\ (login /\ ~login' => threads = {})]_vars

(* Nothing waits for a worker that is gone: a call is answered, rejected or  *)
(* given up (isolated-client.ts, 114-124).                                 *)
NothingPending == worker = Nobody => calls = {}

(* A session without a worker never shows a connection, although the last    *)
(* one's messages may still arrive (isolated-client.ts, 87).                *)
NoGhost == worker = Nobody /\ step \in {"none", "begin"}
             => latest \in {"off", "disconnected"}

(* What the session shows and waits for is of the worker it has, although    *)
(* the last one may still send messages.                                    *)
WorkerIsCurrent == TypeOK /\ NothingPending /\ NoGhost

(* Every command ends, also when the worker is stuck or dies. *)
CommandsEnd == []<>(ops = <<>>)
=============================================================================
