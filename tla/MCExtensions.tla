----------------------------- MODULE MCExtensions -----------------------------
(***************************************************************************)
(* The small extensions share one run.  They do not interact: they keep     *)
(* files and variables of their own.  So an initial state picks            *)
(* the one that takes steps, and the states of the run are those of all of  *)
(* them side by side, never their product.                                 *)
(***************************************************************************)
EXTENDS ProcessLog, Sequences, FiniteSets, TLC

CONSTANTS
  Sessions, Accounts, MaxOperations, MaxSuspensions, NoAccount,
  Vaults, Pi, Unpinned, MaxEvents,
  Messages, TimeOf, MaxKept, Limit, MaxDeaths, MaxAppends,
  Drafts, MaxServers, MaxTurns,
  MaxGenerations,
  SkillSessions, MaxEdits, NoPanel,
  Reviewers, Items, MaxReviewCommands, NoReport, Nobody,
  Images, MaxTexts, MaxSending, MaxAppendFailures,
  BashCalls, PiProcs, ProcOf, Content, MaxFiles, MaxWorkers, MaxFaults,
  Guides, NoGuide, Paths, Sizes, Activation, Context, Notices, MaxReads,
  Questions, NoQuestion,
  SudoCalls, MaxPasswords, NoHandle,
  MaxCommands, MaxCalls, MaxDrops, MaxMail

(* Messages 2 and 3 have the same timestamp. *)
MCTimes == <<3, 2, 2, 1>>

(* Files are pasted in any order, and compared with each other only. *)
MCSymmetry == Permutations(Images)

(* Two calls of one process and a call of another with an equal result *)
MCProcOf == [c \in BashCalls |-> IF c = 3 THEN 2 ELSE 1]
MCContent == [c \in BashCalls |-> IF c = 3 THEN 1 ELSE c]

(* Files outside the project, in its root and deeper *)
MCPaths == {<<>>, <<NoGuide>>, <<1, 2>>, <<1, 3>>, <<1, NoGuide, 2>>}

(* A mark stands for none, the calls of bash belong to processes, and        *)
(* messages are numbered from one.                                         *)
ASSUME ExtensionsAssumption ==
  /\ NoAccount \notin Accounts /\ NoAccount \notin Sessions
  /\ {Unpinned, Pi, "defaultUnavailable"} \cap Vaults = {} /\ Pi # Unpinned
  /\ NoQuestion \notin Questions /\ Nobody \notin Reviewers \cup Nat
  /\ NoHandle \notin SudoCalls
  /\ ProcOf \in [BashCalls -> PiProcs] /\ IsFiniteSet(BashCalls)
  /\ MaxWorkers \in Nat /\ MaxFaults \in Nat /\ MaxCommands \in Nat /\ MaxCalls \in Nat
  /\ Sizes \subseteq Nat /\ Paths \subseteq Seq(Guides \cup {NoGuide})
  /\ {Activation, Context, Notices} \subseteq Nat \ {0} /\ MaxReads \in Nat
  /\ {MaxKept, MaxDeaths, MaxAppends, MaxTexts, MaxAppendFailures} \subseteq Nat
  /\ Messages \subseteq Nat \ {0} /\ TimeOf \in [Messages -> Nat] /\ Limit \in Nat \ {0}

VARIABLES
  part, \* the extension that takes steps
  vault, tokens, unsaved, txn, holder, operations, suspensions, overrun,
  present, preferred, pin, selectedId, selectionUnavailable, bound, model, activating,
  chosen, unread, spent, events,
  lines, torn, records, running, paging, cursor, want, got, deaths, appends,
  enabled, generation, sessionGeneration, recovery, toggle, onCalls, editor, draft,
  failed, overlapped, starting, over, server, servers, doomed, spawned, turns,
  busy, conversation, branch, recapGeneration, armed, recaps, widget, titleGeneration,
  titles, sessionName,
  stored, config, shown, saving, behind, edits,
  drifted, ledger, report, lock, reviewer, halfDone, commandsRun,
  text, images, parked, storedDraft, aside, pending, nextNumber, sending, pasted, wiped,
  wanted, refused, texts, appendFailures,
  compaction, aborted, active, files, left, faults,
  reads, guideSize, unfit, known, at, todo, added, seen, activationBytes, contextBytes,
  noticeBytes, unreported, noticeIndex, summary,
  stage, tail, waitsFor, released, dropped,
  sudoOpen, sudoBusy, password, typed, zeroed, handle, call, signalled, uses, command,
  told, disarmed, overlap, lockedEarly,
  ops, step, worker, threads, latest, tool, calls, serving, mail, requested, socket,
  connection, timer, login, commands, asked, drops

accountStore == <<vault, tokens, unsaved, txn, holder, operations, suspensions, overrun>>
accounts == <<present, preferred, pin, selectedId, selectionUnavailable, bound, model, activating,
               chosen, unread, spent, events>>
messageStore == <<lines, torn, records, running, paging, cursor, want, got, deaths, appends>>
translator == <<enabled, generation, sessionGeneration, recovery, toggle, onCalls, editor,
                draft, failed, overlapped, starting, over, server, servers, doomed, spawned,
                turns>>
requests == <<busy, conversation, branch, recapGeneration, armed, recaps, widget,
              titleGeneration, titles, sessionName>>
skills == <<stored, config, shown, saving, behind, edits>>
review == <<drifted, ledger, report, lock, reviewer, halfDone, commandsRun>>
prompt == <<text, images, parked, storedDraft, aside, pending, nextNumber, sending, pasted,
            wiped, wanted, refused, texts, appendFailures>>
headroom == <<compaction, aborted, active, files, left, faults>>
guidance == <<reads, guideSize, unfit, known, at, todo, added, seen, activationBytes,
              contextBytes, noticeBytes, unreported, noticeIndex, summary>>
popups == <<stage, tail, waitsFor, released, dropped>>
sudoTool == <<sudoOpen, sudoBusy, password, typed, zeroed, handle, call, signalled, uses,
              command, told, disarmed, overlap, lockedEarly>>
chat == <<ops, step, worker, threads, latest, tool, calls, serving, mail, requested,
          socket, connection, timer, login, commands, asked, drops>>

Vault == INSTANCE AccountVault
Selection == INSTANCE AccountSelection
Index == INSTANCE MessageIndex
Translation == INSTANCE Translate WITH current <- server
Requests == INSTANCE IdleRequests
Skills == INSTANCE SkillConfig
Review == INSTANCE ReviewLedger
Prompt == INSTANCE PromptEditor WITH Files <- Images, MaxFailures <- MaxAppendFailures,
                                     stored <- storedDraft, failures <- appendFailures
Headroom == INSTANCE JsonHeadroom WITH Calls <- BashCalls, Procs <- PiProcs,
                                       step <- compaction
Guidance == INSTANCE NestedGuides WITH size <- guideSize, told <- added
Popup == INSTANCE Popups
SudoTool == INSTANCE Sudo WITH wiped <- zeroed
Chat == INSTANCE WhatsApp

everything == <<part, logVars, accountStore, accounts, messageStore, translator,
                requests, skills, review, prompt, headroom, guidance, popups,
                sudoTool, chat>>

(* Those that are not picked start in one of their initial states. *)
ExtensionsInit ==
  /\ part \in {"log", "vault", "selection", "index", "translation", "requests",
               "skills", "review", "prompt", "headroom", "guidance", "popups",
               "sudo", "chat"}
  /\ Init /\ Vault!Init /\ Selection!Init /\ Index!Init /\ Translation!Init
  /\ Requests!Init /\ Skills!Init /\ Review!Init
  /\ Prompt!Init /\ Headroom!Init /\ Guidance!Init /\ Popup!Init
  /\ SudoTool!Init /\ Chat!Init
  /\ part # "selection" => present = {} /\ model = "other"
  /\ part # "requests" => sessionName = Requests!Unnamed
  /\ part # "skills" => stored = [scope \in Skills!Scopes |-> "inherit"]

Takes(extension) == part = extension /\ UNCHANGED part

(* The vault has three operations, or two and a suspension; the prompt two   *)
(* texts and one message under way, or one and two.                        *)

ExtensionsNext ==
  \/ /\ Takes("log") /\ Next
     /\ UNCHANGED <<accountStore, accounts, messageStore, translator, requests, skills,
                     review, prompt, headroom, guidance, popups, sudoTool, chat>>
  \/ /\ Takes("vault") /\ Vault!Next /\ operations' + suspensions' <= 3
     /\ UNCHANGED <<logVars, accounts, messageStore, translator, requests, skills,
                     review, prompt, headroom, guidance, popups, sudoTool, chat>>
  \/ /\ Takes("selection") /\ Selection!Next
     /\ UNCHANGED <<logVars, accountStore, messageStore, translator, requests, skills,
                     review, prompt, headroom, guidance, popups, sudoTool, chat>>
  \/ /\ Takes("index") /\ Index!Next
     /\ UNCHANGED <<logVars, accountStore, accounts, translator, requests, skills,
                     review, prompt, headroom, guidance, popups, sudoTool, chat>>
  \/ /\ Takes("translation") /\ Translation!Next
     /\ UNCHANGED <<logVars, accountStore, accounts, messageStore, requests, skills,
                     review, prompt, headroom, guidance, popups, sudoTool, chat>>
  \/ /\ Takes("requests") /\ Requests!Next
     /\ UNCHANGED <<logVars, accountStore, accounts, messageStore, translator, skills,
                     review, prompt, headroom, guidance, popups, sudoTool, chat>>
  \/ /\ Takes("skills") /\ Skills!Next
     /\ UNCHANGED <<logVars, accountStore, accounts, messageStore, translator, requests,
                     review, prompt, headroom, guidance, popups, sudoTool, chat>>
  \/ /\ Takes("review") /\ Review!Next
     /\ UNCHANGED <<logVars, accountStore, accounts, messageStore, translator, requests,
                     skills, prompt, headroom, guidance, popups, sudoTool, chat>>
  \/ /\ Takes("prompt") /\ Prompt!Next /\ texts' + Len(sending') <= 3
     /\ UNCHANGED <<logVars, accountStore, accounts, messageStore, translator, requests,
                     skills, review, headroom, guidance, popups, sudoTool, chat>>
  \/ /\ Takes("headroom") /\ Headroom!Next
     /\ UNCHANGED <<logVars, accountStore, accounts, messageStore, translator, requests,
                     skills, review, prompt, guidance, popups, sudoTool, chat>>
  \/ /\ Takes("guidance") /\ Guidance!Next
     /\ UNCHANGED <<logVars, accountStore, accounts, messageStore, translator, requests,
                     skills, review, prompt, headroom, popups, sudoTool, chat>>
  \/ /\ Takes("popups") /\ Popup!Next
     /\ UNCHANGED <<logVars, accountStore, accounts, messageStore, translator, requests,
                     skills, review, prompt, headroom, guidance, sudoTool, chat>>
  \/ /\ Takes("sudo") /\ SudoTool!Next
     /\ UNCHANGED <<logVars, accountStore, accounts, messageStore, translator, requests,
                     skills, review, prompt, headroom, guidance, popups, chat>>
  \/ /\ Takes("chat") /\ Chat!Next
     /\ UNCHANGED <<logVars, accountStore, accounts, messageStore, translator, requests,
                     skills, review, prompt, headroom, guidance, popups, sudoTool>>

Extensions == ExtensionsInit /\ [][ExtensionsNext]_everything

------------------------------------------------------------------------------
(* The variables of every extension are well typed. *)
AllTypeOK ==
  /\ LogTypeOK
  /\ Vault!TypeOK /\ Selection!TypeOK /\ Index!TypeOK /\ Translation!TypeOK
  /\ Requests!TypeOK /\ Skills!TypeOK /\ Review!TypeOK
  /\ Prompt!TypeOK /\ Headroom!TypeOK /\ Guidance!TypeOK
  /\ Popup!TypeOK /\ SudoTool!TypeOK /\ Chat!TypeOK

(* The vault never loses the token an endpoint has rotated to (AccountVault). *)
TokensLive == Vault!TokensLive

(* A panel shows what is stored (SkillConfig). *)
ShownIsStored == Skills!ShownIsStored

(* A prompt spends the login that its branch names (AccountSelection). *)
NoFallback == Selection!NoFallback

(* A listing is complete, but for what deaths have cost (MessageIndex). *)
IndexTrue == Index!IndexTrue

(* A translation is sent where it was typed, or can be recovered (Translate). *)
PromptSentOrKept == Translation!PromptSentOrKept

(* No translation server is left over (Translate). *)
ServersUnloaded == Translation!ServersUnloaded

(* Stale recaps and titles are discarded (IdleRequests). *)
NoStaleResult == Requests!NoStaleResult

(* A finished review and its report are true (ReviewLedger). *)
ReviewTrue == Review!ReviewTrue

(* What was put into the prompt is still there or given to Pi (PromptEditor). *)
PromptKept == Prompt!PromptKept

(* The store holds the originals that results name (JsonHeadroom). *)
OriginalsTrue == Headroom!OriginalsTrue

(* Each guide is given once or reported, within the budgets (NestedGuides). *)
GuidesTold == Guidance!GuidesTold

(* One popup at a time, and none that waits for ever (Popups). *)
PopupsSerial == Popup!PopupsSerial

(* What a session shows of WhatsApp is of the worker it has (WhatsApp). *)
WorkerIsCurrent == Chat!WorkerIsCurrent

(* Workers and resets keep off each other's credentials (WhatsApp). *)
WorkersAlone == Chat!WorkersAlone
=============================================================================
