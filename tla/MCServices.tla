------------------------------ MODULE MCServices ------------------------------
(***************************************************************************)
(* The extensions that keep a process or a thread and must end it, in one   *)
(* run under fairness: the sudo tool, a background process and the WhatsApp *)
(* worker.  They do not interact: an initial state picks the one that takes *)
(* steps, and the states of the run are those of all of them side by side.  *)
(***************************************************************************)
EXTENDS Naturals

CONSTANTS
  SudoCalls, MaxPasswords, NoHandle,
  Procs, Services, Timed, MaxRunning, MaxRecent, BatchSize, MaxChanges, MaxDrops, Absent,
  MaxCommands, MaxCalls, MaxMail, Nobody

VARIABLES
  part, \* the extension that takes steps
  sudoOpen, sudoBusy, password, typed, wiped, handle, call, signalled, uses, command,
  told, disarmed, overlap, lockedEarly,
  up, idle, inFlight, mem, started, saved, receipts, read, calls, queue, child, point, cut,
  changes, drops,
  ops, step, worker, threads, latest, tool, chatCalls, serving, mail, requested, socket,
  connection, timer, login, commands, asked, closures

sudoTool == <<sudoOpen, sudoBusy, password, typed, wiped, handle, call, signalled, uses,
              command, told, disarmed, overlap, lockedEarly>>
processes == <<up, idle, inFlight, mem, started, saved, receipts, read, calls, queue, child,
               point, cut, changes, drops>>
chat == <<ops, step, worker, threads, latest, tool, chatCalls, serving, mail, requested,
          socket, connection, timer, login, commands, asked, closures>>

everything == <<part, sudoTool, processes, chat>>

SudoTool == INSTANCE Sudo
Background == INSTANCE BackgroundProcess
Chat == INSTANCE WhatsApp WITH calls <- chatCalls, drops <- closures

(* Those that are not picked start in one of their initial states. *)
ServicesInit ==
  /\ part \in {"sudo", "background", "chat"}
  /\ SudoTool!Init /\ Background!Init /\ Chat!Init

Takes(extension) == part = extension /\ UNCHANGED part

ServicesNext ==
  \/ Takes("sudo") /\ SudoTool!Next /\ UNCHANGED <<processes, chat>>
  \/ Takes("background") /\ Background!Next /\ UNCHANGED <<sudoTool, chat>>
  \/ Takes("chat") /\ Chat!Next /\ UNCHANGED <<sudoTool, processes>>

(* The fairness of each, while it takes steps *)
SudoFairness == \A c \in SudoCalls : WF_sudoTool(Takes("sudo") /\ SudoTool!ForceKill(c))

ChatFairness ==
  WF_chat(Takes("chat") /\ Chat!Operate) /\ WF_chat(Takes("chat") /\ Chat!TimeOut)

BackgroundFairness ==
  /\ WF_processes(Takes("background") /\ Background!Open)
  /\ WF_processes(Takes("background") /\ Background!Record)
  /\ SF_processes(Takes("background") /\ Background!Settled)
  /\ WF_processes(Takes("background") /\ Background!TurnStarts)
  /\ WF_processes(Takes("background") /\ \E p \in Procs : Background!HostGoesOn(p))
  /\ \A p \in Procs :
       WF_processes(Takes("background")
                    /\ (Background!WaitGivesUp(p) \/ Background!Return(p)))

ServicesSpec ==
  /\ ServicesInit /\ [][ServicesNext]_everything
  /\ SudoFairness /\ ChatFairness /\ BackgroundFairness

------------------------------------------------------------------------------

(* Every command ends (WhatsApp). *)
CommandsEnd == part = "chat" => Chat!CommandsEnd

(* The end of a session kills the command that runs (Sudo). *)
ShutdownKills == SudoTool!ShutdownKills

(* A run that is stopped ends, and its result is told (BackgroundProcess). *)
RunsConclude == Background!RunsConclude
==============================================================================
