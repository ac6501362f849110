--------------------------------- MODULE Sudo ---------------------------------
(***************************************************************************)
(* The sudo tool (extensions/sudo/index.ts).  A call asks for approval and, *)
(* if none is held, for the password; then it opens the file for the output *)
(* and spawns sudo.  Each of these waits, and the agent may make two calls  *)
(* at once.  A password is a buffer that the calls share: locking fills it  *)
(* with zeros.  A command may ignore SIGTERM; it is then killed by a second *)
(* sudo, which needs the password.                                         *)
(***************************************************************************)
EXTENDS Naturals

CONSTANTS
  SudoCalls,    \* tool calls
  MaxPasswords, \* bound: passwords typed
  NoHandle

VARIABLES
  sudoOpen,   \* the session
  sudoBusy,   \* running
  password,   \* the buffer held, 0 if undefined
  typed,      \* buffers made so far
  wiped,      \* buffers filled with zeros
  handle,     \* activeHandle
  call,       \* the stage of each call
  signalled,  \* calls whose signal is aborted
  uses,       \* the buffer that each call gave to runSudo
  command,    \* the sudo process of each call
  told,       \* whether its stop was called, and had the password to kill it
  disarmed,   \* calls whose killer was told to stop
  overlap,    \* two calls asked for the password, or ran, at once
  lockedEarly \* a password was locked while a command was running

sudoVars == <<sudoOpen, sudoBusy, password, typed, wiped, handle, call, signalled, uses,
              command, told, disarmed, overlap, lockedEarly>>

Init ==
  /\ sudoOpen = TRUE /\ sudoBusy = FALSE /\ password = 0 /\ typed = 0 /\ wiped = {}
  /\ handle = NoHandle /\ call = [c \in SudoCalls |-> "none"] /\ signalled = {}
  /\ uses = [c \in SudoCalls |-> 0]
  /\ command = [c \in SudoCalls |-> "none"] /\ told = [c \in SudoCalls |-> "no"]
  /\ disarmed = {} /\ overlap = FALSE /\ lockedEarly = FALSE

Alive(c) == command[c] = "alive"

(* lock *)
Lock == password' = 0 /\ wiped' = wiped \cup ({password} \ {0})

(* The finally clause of execute, of whichever call ends *)
Ends(c, last) ==
  /\ call' = [call EXCEPT ![c] = last] /\ handle' = NoHandle /\ sudoBusy' = FALSE

------------------------------------------------------------------------------
(* execute, up to the approval *)
Ask(c) ==
  /\ call[c] = "none" /\ sudoOpen /\ ~sudoBusy
  /\ call' = [call EXCEPT ![c] = IF c \in signalled THEN "ended" ELSE "confirming"]
  /\ UNCHANGED <<sudoOpen, sudoBusy, password, typed, wiped, handle, signalled, uses,
                 command, told, disarmed, overlap, lockedEarly>>

(* Another call asks for the password, or runs. *)
Together(c) ==
  \E d \in SudoCalls \ {c} : call[d] \in {"asking", "opening", "running"} \/ Alive(d)

(* runSudo opens a file first.  The panels that ask go with the session. *)
Opens(c, buffer) ==
  /\ call' = [call EXCEPT ![c] = "opening"] /\ uses' = [uses EXCEPT ![c] = buffer]
  /\ sudoBusy' = TRUE

Confirmed(c) ==
  /\ call[c] = "confirming" /\ sudoOpen
  /\ \/ /\ call' = [call EXCEPT ![c] = "ended"] /\ UNCHANGED <<uses, sudoBusy>>
     \/ /\ c \notin signalled /\ password = 0
        /\ call' = [call EXCEPT ![c] = "asking"] /\ UNCHANGED <<uses, sudoBusy>>
     \/ c \notin signalled /\ password # 0 /\ Opens(c, password)
  /\ overlap' = (overlap \/ (call'[c] # "ended" /\ Together(c)))
  /\ UNCHANGED <<sudoOpen, password, typed, wiped, handle, signalled, command, told,
                 disarmed, lockedEarly>>

(* promptPassword; what it returns replaces what another call was given. *)
Typed(c) ==
  /\ call[c] = "asking" /\ sudoOpen /\ typed < MaxPasswords
  /\ typed' = typed + 1
  /\ IF c \in signalled
     THEN /\ password' = 0 /\ wiped' = wiped \cup {typed'}
          /\ call' = [call EXCEPT ![c] = "ended"] /\ UNCHANGED <<uses, sudoBusy>>
     ELSE password' = typed' /\ Opens(c, typed') /\ UNCHANGED wiped
  /\ UNCHANGED <<sudoOpen, handle, signalled, command, told, disarmed, overlap,
                 lockedEarly>>

Declined(c) ==
  /\ call[c] = "asking" /\ sudoOpen /\ password' = 0 /\ call' = [call EXCEPT ![c] = "ended"]
  /\ UNCHANGED <<sudoOpen, sudoBusy, typed, wiped, handle, signalled, uses, command,
                 told, disarmed, overlap, lockedEarly>>

StillWanted(c) == c \notin signalled

(* The file is open; sudo refuses a password that was wiped. *)
Spawned(c) ==
  /\ call[c] = "opening"
  /\ IF StillWanted(c)
     THEN /\ call' = [call EXCEPT ![c] = "running"] /\ handle' = c
          /\ command' = [command EXCEPT ![c] =
               IF uses[c] \in wiped THEN "refused" ELSE "alive"]
          /\ UNCHANGED sudoBusy
     ELSE Ends(c, "ended") /\ UNCHANGED command
  /\ UNCHANGED <<sudoOpen, password, typed, wiped, signalled, uses, told, disarmed,
                 overlap, lockedEarly>>

(* stop: SIGTERM, which the kernel refuses for a process that is root's and  *)
(* which then fails the call; and scheduleForceKill, with the password.     *)
Told(c) == IF told[c] # "no" THEN told[c] ELSE IF uses[c] \in wiped THEN "empty" ELSE "armed"

Stop(c) ==
  /\ told' = [told EXCEPT ![c] = Told(c)]
  /\ \/ UNCHANGED <<call, handle, sudoBusy>>
     \/ told[c] = "no" /\ call[c] = "running" /\ Ends(c, "failed")

Abort(c) ==
  /\ call[c] # "ended" /\ c \notin signalled /\ signalled' = signalled \cup {c}
  /\ IF call[c] = "running" THEN Stop(c) ELSE UNCHANGED <<told, call, handle, sudoBusy>>
  /\ UNCHANGED <<sudoOpen, password, typed, wiped, uses, command, disarmed, overlap,
                 lockedEarly>>

(* The file cannot be written: the command is stopped, and with the failure   *)
(* of the call goes the killer, unless it is root already.                  *)
OutputFails(c) ==
  /\ call[c] = "running" /\ Alive(c)
  /\ told' = [told EXCEPT ![c] = Told(c)]
  /\ disarmed' \in {disarmed, disarmed \cup {c}}
  /\ Ends(c, "failed")
  /\ UNCHANGED <<sudoOpen, password, typed, wiped, signalled, uses, command, overlap,
                 lockedEarly>>

Exits(c) ==
  /\ command[c] \in {"alive", "refused"}
  /\ command' = [command EXCEPT ![c] = IF Alive(c) THEN "gone" ELSE "rejected"]
  /\ UNCHANGED <<sudoOpen, sudoBusy, password, typed, wiped, handle, call, signalled,
                 uses, told, disarmed, overlap, lockedEarly>>

(* scheduleForceKill, a second later *)
ForceKill(c) ==
  /\ Alive(c) /\ told[c] = "armed" /\ c \notin disarmed
  /\ command' = [command EXCEPT ![c] = "gone"]
  /\ UNCHANGED <<sudoOpen, sudoBusy, password, typed, wiped, handle, call, signalled,
                 uses, told, disarmed, overlap, lockedEarly>>

(* close: a wrong password is forgotten. *)
Closed(c) ==
  /\ call[c] = "running" /\ command[c] \in {"gone", "rejected"}
  /\ Ends(c, "ended")
  /\ IF command[c] = "rejected"
     THEN Lock /\ lockedEarly' = (lockedEarly \/ \E d \in SudoCalls : Alive(d))
     ELSE UNCHANGED <<password, wiped, lockedEarly>>
  /\ UNCHANGED <<sudoOpen, typed, signalled, uses, command, told, disarmed, overlap>>

------------------------------------------------------------------------------
(* /sudo-lock *)
SudoLock ==
  /\ password # 0 /\ Lock
  /\ lockedEarly' = (lockedEarly \/ \E c \in SudoCalls : Alive(c))
  /\ UNCHANGED <<sudoOpen, sudoBusy, typed, handle, call, signalled, uses, command, told,
                 disarmed, overlap>>

(* Mutant: the password is wiped before the command is stopped. *)
ShutdownLocked ==
  /\ sudoOpen /\ sudoOpen' = FALSE
  /\ Lock
  /\ IF handle = NoHandle THEN UNCHANGED <<told, call, handle, sudoBusy>>
     ELSE /\ told' = [told EXCEPT ![handle] =
               IF @ # "no" THEN @ ELSE IF uses[handle] \in wiped' THEN "empty" ELSE "armed"]
          /\ handle' = NoHandle /\ UNCHANGED <<call, sudoBusy>>
  /\ UNCHANGED <<typed, signalled, uses, command, disarmed, overlap, lockedEarly>>

(* session_shutdown: the active command is stopped, then the password wiped. *)
Shutdown ==
  /\ sudoOpen /\ sudoOpen' = FALSE
  /\ Lock
  /\ IF handle = NoHandle THEN UNCHANGED <<told, call, handle, sudoBusy>>
     ELSE /\ told' = [told EXCEPT ![handle] = Told(handle)]
          /\ handle' = NoHandle
          /\ \/ UNCHANGED <<call, sudoBusy>>
             \/ /\ told[handle] = "no" /\ sudoBusy' = FALSE
                /\ call' = [call EXCEPT ![handle] = "failed"]
  /\ UNCHANGED <<typed, signalled, uses, command, disarmed, overlap, lockedEarly>>

Next ==
  \/ \E c \in SudoCalls :
       \/ Ask(c) \/ Confirmed(c) \/ Typed(c) \/ Declined(c) \/ Spawned(c) \/ Abort(c)
       \/ OutputFails(c) \/ Exits(c) \/ ForceKill(c) \/ Closed(c)
  \/ SudoLock \/ Shutdown

(* The killer is a process of its own. *)
Fairness == \A c \in SudoCalls : WF_sudoVars(ForceKill(c))

Spec == Init /\ [][Next]_sudoVars
FairSpec == Spec /\ Fairness

------------------------------------------------------------------------------
TypeOK ==
  /\ password \in 0 .. typed /\ wiped \subseteq 1 .. typed
  /\ handle \in SudoCalls \cup {NoHandle}
  /\ \A c \in SudoCalls :
       /\ call[c] \in {"none", "confirming", "asking", "opening", "running", "failed",
                       "ended"}
       /\ command[c] \in {"none", "alive", "refused", "gone", "rejected"}
       /\ told[c] \in {"no", "armed", "empty"} /\ uses[c] \in 0 .. typed

(* What ShutdownKills relies on: whatever still runs when the session has     *)
(* ended was stopped while the password to kill it was there.               *)
KillerArmed ==
  ~sudoOpen /\ ~overlap /\ ~lockedEarly =>
    \A c \in SudoCalls : Alive(c) => told[c] = "armed"

(* When the session ends, the command that runs is killed even if it ignores *)
(* SIGTERM (index.ts, 266): its stop comes before the password is wiped,     *)
(* unless a second call ran into it, or the user locked the password         *)
(* meanwhile, or the file for its output failed and disarmed the killer.    *)
ShutdownKills ==
  ~sudoOpen /\ ~overlap /\ ~lockedEarly
    ~> overlap \/ \A c \in SudoCalls \ disarmed : ~Alive(c)
=============================================================================
