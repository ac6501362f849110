--------------------------- MODULE AccountSelection ---------------------------
(***************************************************************************)
(* Which Codex login a session spends: the account it is pinned to         *)
(* (extensions/codex-accounts/index.ts), the provider bound to it          *)
(* (service.ts) and what children inherit (subagent/account-inheritance.ts).*)
(* Session starts and activations wait for Pi, and may fail there; other   *)
(* sessions change the vault at any time.  The session stays on one branch: *)
(* the extension does not follow session_tree.                             *)
(***************************************************************************)
EXTENDS Naturals

CONSTANTS
  Vaults,      \* account identities
  Pi,          \* Pi's own login; also the pin of a session that chose it
  Unpinned,    \* no entry on the branch, no account, no provider
  MaxEvents    \* bound: session starts, activations, logins and removals

VARIABLES
  present,     \* the accounts in the vault
  preferred,   \* defaultAccountId
  pin,         \* the last codex-account-selection entry of the branch
  selectedId, selectionUnavailable,
  bound,       \* the account of the registered provider
  model,       \* the provider of the session's model
  activating,  \* the account an open panel is activating
  chosen,      \* the user has used /model since the session started
  unread,      \* the default could not be read, and no login was chosen since
  spent,       \* the login of the last request
  events

selection == <<selectedId, selectionUnavailable, pin>>
accountVars == <<present, preferred, selection, bound, model, activating, chosen, unread,
                 spent, events>>

Failed == "defaultUnavailable"
Codex == {"openai-codex", "codex-accounts"}
Nothing == [login |-> Unpinned, by |-> "nobody", pin |-> Unpinned, freely |-> TRUE,
            unread |-> FALSE]

Init ==
  /\ present \in SUBSET Vaults /\ preferred \in present \cup {Unpinned}
  /\ pin = Unpinned /\ selectedId = Unpinned /\ selectionUnavailable = FALSE
  /\ bound = Unpinned /\ model \in Codex \cup {"other"}
  /\ activating = Unpinned /\ chosen = FALSE /\ unread = FALSE
  /\ spent = Nothing /\ events = 0

Event == events < MaxEvents /\ events' = events + 1

(* Mutant: a session whose restore failed goes on. *)
BlockedNever(failed) == FALSE

Blocked(failed) == failed

(* "Pin the inherited choice, including on failure" *)
Pinned(account) == account

(* session_start: a fresh session on a Codex model takes the default, which  *)
(* may be unreadable; the pinned account is bound, Pi may fail to set its    *)
(* model.  A reload finds the model the session had.                        *)
Start(fresh, readable, works) ==
  LET inherits == fresh /\ model \in Codex
      entry == IF ~inherits THEN IF fresh THEN Unpinned ELSE pin
               ELSE IF ~readable THEN Pinned(Failed) ELSE Pinned(preferred)
      account == IF entry \in Vaults THEN entry ELSE Unpinned
  IN /\ activating = Unpinned /\ Event
     /\ pin' = entry /\ selectedId' = account
     /\ bound' = account
     /\ selectionUnavailable' = Blocked(entry = Failed \/ (account # Unpinned /\ ~works))
     /\ model' = IF account = Unpinned
                 THEN IF model = "codex-accounts" THEN "openai-codex" ELSE model
                 ELSE IF works /\ model \in Codex THEN "codex-accounts" ELSE model
     /\ unread' = IF fresh THEN inherits /\ ~readable ELSE unread
     /\ chosen' = FALSE /\ spent' = Nothing
     /\ UNCHANGED <<present, preferred, activating>>

(* The panel: the account's provider is registered, and Pi asked about it. *)
Activate(a) ==
  /\ activating = Unpinned /\ a \in present /\ model \in Codex /\ Event
  /\ bound' = a /\ activating' = a
  /\ UNCHANGED <<present, preferred, selection, model, chosen, unread, spent>>

Activated ==
  /\ activating # Unpinned
  /\ selectedId' = activating /\ selectionUnavailable' = FALSE /\ pin' = activating
  /\ model' = "codex-accounts" /\ activating' = Unpinned
  /\ unread' = FALSE
  /\ UNCHANGED <<present, preferred, bound, chosen, spent, events>>

RolledBack == selectedId

ActivationFails ==
  /\ activating # Unpinned
  /\ bound' = RolledBack /\ activating' = Unpinned
  /\ UNCHANGED <<present, preferred, selection, model, chosen, unread, spent, events>>

usePiLogin ==
  /\ activating = Unpinned /\ model \in Codex /\ Event
  /\ selectedId' = Unpinned /\ selectionUnavailable' = FALSE /\ pin' = Pi
  /\ bound' = Unpinned /\ model' = "openai-codex" /\ unread' = FALSE
  /\ UNCHANGED <<present, preferred, activating, chosen, spent>>

(* remove, here or in another session: not the account selected here *)
RemoveAccount(a, here) ==
  /\ here => activating = Unpinned /\ a # selectedId
  /\ a \in present /\ Event
  /\ present' = present \ {a}
  /\ preferred' = IF preferred = a THEN Unpinned ELSE preferred
  /\ UNCHANGED <<selection, bound, model, activating, chosen, unread, spent>>

SetDefault(a) ==
  /\ a \in present \cup {Unpinned} /\ a # preferred /\ Event
  /\ preferred' = a
  /\ UNCHANGED <<present, selection, bound, model, activating, chosen, unread, spent>>

(* /model: the catalog of personal accounts is there while it is registered. *)
SelectModel(m) ==
  /\ m # model /\ (m = "codex-accounts" => bound # Unpinned)
  /\ model' = m /\ chosen' = TRUE
  /\ UNCHANGED <<present, preferred, selection, bound, activating, unread, spent, events>>

Spend(login, by) ==
  spent' = [login |-> login, by |-> by, pin |-> IF pin \in Vaults THEN pin ELSE Pi,
            freely |-> chosen \/ activating # Unpinned, unread |-> unread]

(* What a request of this session is authenticated with; a removed account   *)
(* fails in AccountService.auth.                                            *)
Login == IF model = "openai-codex" THEN Pi ELSE bound

(* The input handler, and the request. *)
Prompt ==
  /\ model \in Codex /\ ~selectionUnavailable
  /\ Login \in present \cup {Pi}
  /\ Spend(Login, "prompt")
  /\ UNCHANGED <<present, preferred, selection, bound, model, activating, chosen, unread,
                 events>>

(* childAccountSelection of a child with a Codex model; a child pinned to a   *)
(* removed account fails.                                                   *)
Launch(requested) ==
  LET personal == "codex-accounts" \in {model, requested} IN
  /\ requested \in Codex /\ pin # Failed
  /\ personal => pin \in present
  /\ Spend(IF personal THEN pin ELSE Pi, "child")
  /\ UNCHANGED <<present, preferred, selection, bound, model, activating, chosen, unread,
                 events>>

Next ==
  \/ \E fresh, readable, works \in BOOLEAN : Start(fresh, readable, works)
  \/ \E a \in Vaults : Activate(a) \/ (\E here \in BOOLEAN : RemoveAccount(a, here))
  \/ Activated \/ ActivationFails \/ usePiLogin \/ Prompt
  \/ \E a \in Vaults \cup {Unpinned} : SetDefault(a)
  \/ \E m \in Codex \cup {"other"} : SelectModel(m) \/ Launch(m)

Spec == Init /\ [][Next]_accountVars

------------------------------------------------------------------------------
TypeOK ==
  /\ present \subseteq Vaults /\ preferred \in Vaults \cup {Unpinned}
  /\ pin \in Vaults \cup {Pi, Unpinned, Failed}
  /\ selectedId \in Vaults \cup {Unpinned} /\ selectionUnavailable \in BOOLEAN
  /\ bound \in Vaults \cup {Unpinned} /\ model \in Codex \cup {"other"}

(* A prompt spends the login that the branch names, through failed defaults, *)
(* failed restores, roll-backs and removals elsewhere, unless the user has   *)
(* picked a model since or an activation is under way: it never falls back.  *)
SpentAsPinned ==
  spent.by = "prompt" /\ ~spent.freely => spent.login = spent.pin

(* Between activations the provider is that of the selected account, which   *)
(* the branch names too (index.ts, 292-302, 357-371).                       *)
BoundAsSelected ==
  activating = Unpinned =>
    bound = selectedId /\ (selectedId # Unpinned => pin = selectedId)

(* After an unreadable default no prompt is sent and no child is started,    *)
(* through reloads and changes of model, until the user chooses a login     *)
(* (index.ts, 348, 385; account-inheritance.ts, 27).                       *)
UnreadBlocks == ~spent.unread

(* The login that the branch names is the one that is spent, and no other    *)
(* takes its place (README.md, 215: "fail instead of falling back").        *)
NoFallback == SpentAsPinned /\ BoundAsSelected /\ UnreadBlocks
=============================================================================
