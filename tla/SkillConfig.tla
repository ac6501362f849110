------------------------------ MODULE SkillConfig ------------------------------
(***************************************************************************)
(* The settings of the skill manager (extensions/skill-manager): one file,  *)
(* which every session reads and writes as a whole, and the copy each        *)
(* session holds.  The panel changes the copy at once and saves it behind    *)
(* the user's back; it takes no second change while one is being saved.  The *)
(* direct command reads the file, changes the copy and saves it.  One skill   *)
(* stands for all of them: its two settings are those of its two scopes.    *)
(***************************************************************************)
EXTENDS Naturals

CONSTANTS
  SkillSessions, \* sessions on one machine
  MaxEdits,      \* bound: changes made
  NoPanel

VARIABLES
  stored,  \* the file
  config,  \* the copy of each session
  shown,   \* globalModes and projectModes of its panel, or NoPanel
  saving,  \* the changes being saved
  behind,  \* sessions whose copy was read before another session saved
  edits

skillVars == <<stored, config, shown, saving, behind, edits>>

Scopes == {"project", "global"}
SkillModes == {"full", "off"}
Values == SkillModes \cup {"inherit"}

(* setProjectSkillMode, clearGlobalSkillMode and the like *)
Set(settings, scope, value) == [settings EXCEPT ![scope] = value]

(* resolveSkillMode *)
Mode(settings) ==
  IF settings["project"] # "inherit" THEN settings["project"]
  ELSE IF settings["global"] # "inherit" THEN settings["global"] ELSE "full"

Init ==
  /\ stored \in [Scopes -> Values] /\ config = [s \in SkillSessions |-> stored]
  /\ shown = [s \in SkillSessions |-> NoPanel] /\ saving = {} /\ behind = {} /\ edits = 0

Busy(s) == \E change \in saving : change.by = s
Save(s, scope, value, previous) ==
  /\ edits < MaxEdits /\ edits' = edits + 1
  /\ config' = [config EXCEPT ![s] = Set(previous, scope, value)]
  /\ saving' = saving \cup {[by |-> s, scope |-> scope, snapshot |-> config'[s],
                             previous |-> previous, panel |-> shown[s] # NoPanel]}

------------------------------------------------------------------------------
(* /skill-manager: loadConfig, and the panel *)
Open(s) ==
  /\ shown[s] = NoPanel /\ ~Busy(s)
  /\ config' = [config EXCEPT ![s] = stored]
  /\ shown' = [shown EXCEPT ![s] = stored] /\ behind' = behind \ {s}
  /\ UNCHANGED <<stored, saving, edits>>

(* change, and onChange *)
Change(s, scope, value) ==
  /\ shown[s] # NoPanel /\ ~Busy(s) /\ value # shown[s][scope]
  /\ Save(s, scope, value, config[s])
  /\ UNCHANGED <<stored, shown, behind>>

(* Escape, which waits for the save *)
Close(s) ==
  /\ shown[s] # NoPanel /\ ~Busy(s) /\ shown' = [shown EXCEPT ![s] = NoPanel]
  /\ UNCHANGED <<stored, config, saving, behind, edits>>

(* /skill-manager <skill> <mode> *)
Command(s, scope, value) ==
  /\ shown[s] = NoPanel /\ ~Busy(s)
  /\ Save(s, scope, value, stored) /\ behind' = behind \ {s}
  /\ UNCHANGED <<stored, shown>>

(* saveConfig: a file of its own, renamed *)
Saved(change) ==
  /\ stored' = change.snapshot /\ saving' = saving \ {change}
  /\ behind' = behind \cup (SkillSessions \ {change.by})
  /\ shown' = IF change.panel
              THEN [shown EXCEPT ![change.by][change.scope] = change.snapshot[change.scope]]
              ELSE shown
  /\ UNCHANGED <<config, edits>>

(* Mutant: the copy keeps a change that was not saved. *)
KeptOnFailure(change) == config[change.by]

(* The panel takes its change back; the command does not. *)
OnFailure(change) == IF change.panel THEN change.previous ELSE config[change.by]

SaveFails(change) ==
  /\ config' = [config EXCEPT ![change.by] = OnFailure(change)]
  /\ saving' = saving \ {change}
  /\ UNCHANGED <<stored, shown, behind, edits>>

Next ==
  \/ \E s \in SkillSessions :
       \/ Open(s) \/ Close(s)
       \/ \E scope \in Scopes, value \in Values : Change(s, scope, value) \/ Command(s, scope, value)
  \/ \E change \in saving : Saved(change) \/ SaveFails(change)

Spec == Init /\ [][Next]_skillVars

------------------------------------------------------------------------------
TypeOK ==
  /\ stored \in [Scopes -> Values] /\ config \in [SkillSessions -> [Scopes -> Values]]
  /\ \A s \in SkillSessions : shown[s] = NoPanel \/ shown[s] \in [Scopes -> Values]
  /\ behind \subseteq SkillSessions

(* What a panel shows is what the file says, and the session acts on it, once *)
(* its save has succeeded or failed: a failed write retains the previous      *)
(* setting (README.md, 335).  Unless another session saved meanwhile.        *)
ShownIsStored ==
  \A s \in SkillSessions \ behind : shown[s] # NoPanel /\ ~Busy(s) =>
    shown[s] = stored /\ Mode(config[s]) = Mode(stored)

=============================================================================
