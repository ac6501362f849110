------------------------------- MODULE Translate -------------------------------
(***************************************************************************)
(* Translation of the user's prompts by a local server                     *)
(* (extensions/translate): index.ts holds the setting of the session, which *)
(* is an entry of the branch, and the last prompt that failed; backend.ts  *)
(* owns the server.  Loading it and translating wait, and meanwhile the     *)
(* user switches translation on or off, types, or moves to another session  *)
(* or branch.                                                              *)
(***************************************************************************)
EXTENDS Naturals, FiniteSets

CONSTANTS
  Drafts,     \* prompts the user types, positive numbers
  MaxServers, \* bound: servers spawned
  MaxTurns    \* bound: commands, session changes and crashes

VARIABLES
  enabled, generation, sessionGeneration, recovery,
  toggle,     \* the last TRANSLATE_ENTRY of the branch
  onCalls,    \* the generations of the /translate on handlers that wait
  editor,     \* the draft in the editor, 0 if it is empty
  draft,      \* the input handler of each prompt
  failed,     \* the last prompt of the session that failed, 0 if none
  overlapped, \* two prompts were translated at once
  starting,   \* the launch under way
  over,       \* lifetime.signal is aborted
  current,    \* child, 0 if undefined
  servers,    \* processes that live
  doomed,     \* those that were told to stop
  spawned, turns

setting == <<enabled, generation, sessionGeneration, toggle>>
inputs  == <<recovery, editor, draft, failed, overlapped>>
backend == <<starting, over, current, servers, doomed, spawned>>
translateVars == <<setting, onCalls, inputs, backend, turns>>

Waiting == {d \in Drafts : draft[d].stage \in {"starting", "asking"}}

Init ==
  /\ enabled = FALSE /\ generation = 0 /\ sessionGeneration = 0 /\ recovery = 0
  /\ toggle = FALSE /\ onCalls = {} /\ editor = 0
  /\ draft = [d \in Drafts |-> [stage |-> "typed", generation |-> 0, session |-> 0,
                                server |-> 0, recovered |-> FALSE]]
  /\ failed = 0 /\ overlapped = FALSE
  /\ starting = "no" /\ over = FALSE /\ current = 0 /\ servers = {} /\ doomed = {}
  /\ spawned = 0 /\ turns = 0

Turn == turns < MaxTurns /\ turns' = turns + 1

------------------------------------------------------------------------------
(* LocalTranslator *)

(* Mutant: stop only kills the server that is there. *)
StopChild ==
  /\ doomed' = doomed \cup ({current} \ {0})
  /\ current' = 0 /\ UNCHANGED <<over, starting, servers, spawned>>

(* stop: requests and the launch under way are aborted too. *)
Stop ==
  /\ over' = TRUE /\ current' = 0
  /\ doomed' = doomed \cup ({current} \ {0})
  /\ UNCHANGED <<starting, servers, spawned>>

Loaded == starting = "no" /\ current # 0 /\ ~over

(* start joins a launch under way and reuses a server that is loaded. *)
Begin ==
  IF starting # "no" \/ Loaded THEN UNCHANGED backend
  ELSE /\ starting' = "port" /\ over' = FALSE
       /\ UNCHANGED <<current, servers, doomed, spawned>>

(* launch: the model is looked for and a port found, which takes a while. *)
SpawnServer ==
  /\ starting = "port" /\ ~over /\ spawned < MaxServers
  /\ spawned' = spawned + 1 /\ current' = spawned' /\ servers' = servers \cup {spawned'}
  /\ starting' = "loading"
  /\ UNCHANGED <<setting, onCalls, inputs, over, doomed, turns>>

(* "listening on", and then the answer of /health *)
Listening ==
  /\ starting = "loading" /\ ~over /\ starting' = "health"
  /\ UNCHANGED <<setting, onCalls, inputs, over, current, servers, doomed, spawned,
                 turns>>

(* The handlers of /translate on that are still wanted switch it on. *)
Started ==
  /\ starting = "health" /\ ~over /\ starting' = "no"
  /\ LET wanted == generation \in onCalls IN
       enabled' = (enabled \/ wanted) /\ toggle' = (toggle \/ wanted)
  /\ onCalls' = {}
  /\ draft' = [d \in Drafts |->
       IF draft[d].stage = "starting"
       THEN [draft[d] EXCEPT !.stage = "asking", !.server = current]
       ELSE draft[d]]
  /\ UNCHANGED <<generation, sessionGeneration, recovery, editor, failed, overlapped,
                 over, current, servers, doomed, spawned, turns>>

(* A prompt that failed is kept, and put into the editor if that is empty;   *)
(* not in another session.                                                 *)
Kept(d) ==
  /\ recovery' = d /\ failed' = d
  /\ editor' = IF editor = 0 THEN d ELSE editor

Fail(d) ==
  /\ draft' = [draft EXCEPT ![d].stage = "typed", ![d].server = 0]
  /\ IF draft[d].session # sessionGeneration THEN UNCHANGED <<recovery, failed, editor>>
     ELSE Kept(d)

(* No model or port, a timeout of two minutes, an exit or an abort: start    *)
(* stops the server and everyone who waits is told.  The handlers of input  *)
(* run one by one.                                                         *)
StartFails ==
  /\ starting # "no"
  /\ IF \E d \in Drafts : draft[d].stage = "starting"
     THEN /\ \E d \in Drafts : draft[d].stage = "starting" /\ Fail(d)
          /\ UNCHANGED <<backend, onCalls>>
     ELSE /\ starting' = "no" /\ over' = TRUE /\ current' = 0
          /\ doomed' = doomed \cup ({current} \ {0}) /\ onCalls' = {}
          /\ UNCHANGED <<servers, spawned, recovery, editor, draft, failed>>
  /\ UNCHANGED <<setting, overlapped, turns>>

ServerCrashes ==
  /\ current # 0 /\ current \in servers /\ Turn
  /\ servers' = servers \ {current} /\ over' = TRUE
  /\ UNCHANGED <<setting, onCalls, inputs, starting, current, doomed, spawned>>

(* SIGTERM, or SIGKILL two seconds later *)
ServerEnds ==
  /\ servers' = servers \ doomed /\ servers' # servers
  /\ UNCHANGED <<setting, onCalls, inputs, starting, over, current, doomed, spawned,
                 turns>>

------------------------------------------------------------------------------
(* /translate *)
On ==
  /\ Turn /\ generation' = generation + 1
  /\ Begin
  /\ IF Loaded THEN enabled' = TRUE /\ toggle' = TRUE /\ UNCHANGED onCalls
     ELSE onCalls' = onCalls \cup {generation'} /\ UNCHANGED <<enabled, toggle>>
  /\ UNCHANGED <<sessionGeneration, inputs>>

Off ==
  /\ Turn /\ generation' = generation + 1
  /\ enabled' = FALSE /\ toggle' = FALSE /\ Stop
  /\ UNCHANGED <<sessionGeneration, onCalls, inputs>>

(* /translate recover, which leaves the text in the editor alone *)
Recover ==
  /\ recovery # 0 /\ editor = 0 /\ editor' = recovery
  /\ UNCHANGED <<setting, onCalls, recovery, draft, failed, overlapped, backend, turns>>

EditorCleared ==
  /\ editor # 0 /\ editor' = 0
  /\ UNCHANGED <<setting, onCalls, recovery, draft, failed, overlapped, backend, turns>>

(* The input handler: off, a prompt goes on as it is. *)
Submit(d) ==
  LET recovered == recovery = d
      stage == IF ~enabled THEN "sentRaw" ELSE IF Loaded THEN "asking" ELSE "starting" IN
  /\ draft[d].stage = "typed"
  /\ draft' = [draft EXCEPT ![d] = [stage |-> stage, generation |-> generation,
                 session |-> sessionGeneration, server |-> IF stage = "asking" THEN current ELSE 0,
                 recovered |-> recovered]]
  /\ recovery' = IF ~enabled /\ recovered THEN 0 ELSE recovery
  /\ editor' = IF editor = d THEN 0 ELSE editor
  /\ failed' = IF failed = d THEN 0 ELSE failed
  /\ overlapped' = (overlapped \/ (enabled /\ Waiting # {}))
  /\ IF enabled THEN Begin ELSE UNCHANGED backend
  /\ UNCHANGED <<setting, onCalls, turns>>

(* Mutant: the setting is not looked at again. *)
UpToDateAlways(d) == TRUE

UpToDate(d) == draft[d].generation = generation

(* The translation is there, whole and with every protected literal; a        *)
(* request ends with the lifetime of the server that it was made to.        *)
Translated(d) ==
  /\ draft[d].stage = "asking" /\ ~over /\ draft[d].server = current
  /\ IF UpToDate(d)
     THEN /\ draft' = [draft EXCEPT ![d].stage = "sent", ![d].server = 0]
          /\ recovery' = IF draft[d].recovered THEN 0 ELSE recovery
          /\ UNCHANGED <<editor, failed>>
     ELSE Fail(d)
  /\ UNCHANGED <<setting, onCalls, overlapped, backend, turns>>

(* An error, a timeout of one minute, an abort, or a bad translation *)
TranslationFails(d) ==
  /\ draft[d].stage = "asking"
  /\ Fail(d)
  /\ UNCHANGED <<setting, onCalls, overlapped, backend, turns>>

------------------------------------------------------------------------------
Moved ==
  /\ Turn /\ generation' = generation + 1 /\ sessionGeneration' = sessionGeneration + 1
  /\ recovery' = 0 /\ failed' = 0
  /\ UNCHANGED <<onCalls, editor, draft, overlapped>>

(* session_tree: to a branch with one setting or the other *)
Tree ==
  /\ Moved
  /\ toggle' \in BOOLEAN /\ enabled' = toggle'
  /\ IF enabled' THEN UNCHANGED backend ELSE Stop

(* session_shutdown, and the session_start of a reload, resume, new session  *)
(* or fork: the server is stopped, and the setting is the session's or off.  *)
Replace ==
  /\ Moved
  /\ toggle' \in BOOLEAN /\ enabled' = toggle'
  /\ Stop

Launch == SpawnServer \/ Listening \/ Started \/ StartFails

Next ==
  \/ Launch \/ ServerCrashes \/ ServerEnds \/ On \/ Off \/ Recover \/ EditorCleared
  \/ \E d \in Drafts : Submit(d) \/ Translated(d) \/ TranslationFails(d)
  \/ Tree \/ Replace

Spec == Init /\ [][Next]_translateVars

------------------------------------------------------------------------------
TypeOK ==
  /\ enabled \in BOOLEAN /\ toggle \in BOOLEAN /\ overlapped \in BOOLEAN
  /\ {recovery, editor, failed} \subseteq Drafts \cup {0}
  /\ onCalls \subseteq 0 .. generation /\ sessionGeneration <= generation
  /\ \A d \in Drafts :
       draft[d].stage \in {"typed", "starting", "asking", "sent", "sentRaw"}
  /\ starting \in {"no", "port", "loading", "health"}
  /\ servers \cup doomed \subseteq 1 .. spawned /\ current \in 0 .. spawned

(* The last prompt that failed can be recovered until it is submitted again  *)
(* or the session changes, if prompts were translated one at a time         *)
(* (extensions/translate/README.md, 37).                                    *)
FailedIsKept == ~overlapped /\ failed # 0 => recovery = failed

(* A translation reaches the agent only while translation is on, in the       *)
(* session and on the branch in which the prompt was typed, whatever the     *)
(* user did while it was made (index.ts, 96); a prompt that failed instead   *)
(* can be recovered.                                                        *)
PromptSentOrKept ==
  [][/\ FailedIsKept'
     /\ \A d \in Drafts :
          draft[d].stage = "asking" /\ draft'[d].stage = "sent" =>
            enabled /\ toggle /\ draft[d].session = sessionGeneration]_translateVars

(* Of the servers that live all but one were told to stop. *)
OneServer == Cardinality(servers \ doomed) <= 1

(* Once translation is off and nobody waits for it, every server was told to *)
(* stop: none is left over from a launch under way when it was switched off *)
(* (README.md, 129: "disables it and unloads the model").                   *)
UnloadedWhenOff ==
  ~enabled /\ onCalls = {} /\ starting = "no" /\ Waiting = {} => servers \subseteq doomed

(* No server is left over, whatever start, stop and crash meet.              *)
ServersUnloaded == OneServer /\ UnloadedWhenOff
=============================================================================
