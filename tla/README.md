# TLA+ models of pi-core

pi-core is a set of TypeScript extensions for the Pi coding agent. This
directory holds TLA+ models of the parts of it in which several processes,
promises, restarts or unreliable deliveries meet, the TLC configurations that
check them, and proofs that TLAPS checks. Paths are relative to the repository;
`index.ts`, `runner.ts`, ... without a directory are those of
`extensions/subagent/`.

To check a model: `tlc -config X.cfg M.tla` for the pairs listed under *Runs*.
To check the proofs: `tlapm M.tla` for each `*Proofs.tla`.

## Inventory

| component | state | operations | hard because of | correct when |
|---|---|---|---|---|
| concurrency registry (`registry.ts`) | leases in a JSON file, a lock directory | claim, adopt, release, capacity | several processes, crashes and stalls inside the lock, removal of stale locks | no more leases than the limit, no update lost, every call ends |
| scheduler (`extensions/scheduler`) | jobs in memory and in `jobs.json`, the shell under way | create, pause, resume, remove, tick, result of a check | crash between claim, effect and record; results that outlive their job; reloads | runs are capped, nothing is silently repeated, wakes are neither lost nor duplicated without a fault |
| RPC child (`runner.ts`, `protocol.ts`) | the promise of the run, pending question, delegated runs, the child's pipes | start, steer, reply, stop, events, exit | two ordered pipes read at leisure; stop racing completion | the final handoff is the final one, a stop ends the run, replies meet their question |
| background agents (`index.ts`) | runs in memory, their entries on the session branch, unread results, leases, supervising promises | start, finish, deliver, read, stop, restore, reload, change of branch | awaits across which the session changes; messages Pi drops; crashes | a result is delivered and then counted as such, nothing runs unsupervised, leases are released |
| tmux sidecar (`channel.ts`, `tui-bridge.ts`, `tmux.ts`, `TmuxTuiRunner`, `pane-host.sh`) | files in a private directory | question, reply, steer, cancel, exit, result | two processes that watch files, reloads of either, re-attachment | one result per run, commands heard once, nothing missed |
| worktrees (`worktrunk.ts`, `worktree-reaper.ts`, `worktree-lifecycle.ts`) | a ledger of reservations, git worktrees | prepare, verify, integrate, mark, reap | several processes, long external commands, interruption | no worktree is removed that is in use or holds work; what is integrated is what was reviewed |
| delegation policy (`limits.ts`, `agents.ts`, `account-inheritance.ts`) | none (pure) | lineage, ownership, inherited login | boundaries of depth and ancestry | a child spends the login of its parent |
| background processes (`extensions/background-process`) | hosts, runs, unread results, log segments | start, wait, stop, status, delivery, restore | results before, during and after a wait; stop racing exit; restarts; log limits | a result reaches the agent once; the outcome is what was asked; logs stay bounded and in one piece |
| whatsapp | worker thread and its requests, connection, message index | on, off, reset, find, read, transcribe | a worker that dies or is silent; messages that arrive between pages | every command ends, one worker at a time, listings are complete |
| codex accounts | token vault under a lock, selected account | login, refresh, select, remove | refreshes by several processes, activations that fail half-way | a rotated token is not lost, no request spends another login |
| translate | a setting per branch, a local server, a draft to recover | switch, translate, restart | answers after the session moved on, death of the server | a prompt is sent as typed for or kept; no server is left over |
| sudo | a password buffer, the command under way | approve, run, cancel, lock, kill | two calls at once, a command that ignores SIGTERM | the end of the session kills the command |
| ask user question | a chain of promises | ask, answer, abort | failures in the middle of the chain | one popup at a time, nobody waits for ever |
| json headroom | workers, a directory of originals | compact, save, discard | several calls and processes with equal results, aborts, crashes | an original that is named is there, no other is kept |
| nested agents, memory | none (rebuilt per request) | add guides to reads | three budgets | each guide once, within the budgets, none left out in silence |
| skill manager | a file of settings, a copy per session | save, roll-back | a save that fails; other sessions | the panel shows what is stored |
| recap, session title | a request to a model | request, show | answers for a session that has moved on | stale answers are dropped |
| draft toggle, image clipboard | the draft parked on the branch, pasted files | toggle, paste, submit | undo, deletion, awaits between submit and message | files attached are those shown; no text is lost |
| reviewer scripts | a ledger and a report | mark, candidate, finish | several reviewers, killed writers | a finished review is a reviewed one, its report is of it |
| session cwd | one variable | set, restore | - | - |
| footer, ui, context inspector, file autocomplete, fast mode | little or none | rendering, search, toggles | - | - |

How they interact: `background_agent` claims a lease in the registry, lets the
worktree code prepare a workspace, records the run on the session branch and
hands it to a runner, which is the RPC runner or the tmux runner; both report
through the callbacks of `supervise()`. Results go to Pi as messages and come
back as entries of the branch. The child runs the same extension with a lineage
that limits what it may do, and spends the login that its parent has selected.
The scheduler and the background processes share the log store and the process
host. Everything else talks to Pi alone.

## Plan

Done: models of the registry, the scheduler, the RPC child, the background
agents and background processes, the sidecar, the worktree lifecycle, WhatsApp,
sudo and twelve smaller machines. Proofs of the safety of all of them; the background agents and the background processes are proved to
implement `ResultDelivery`.

Worth doing next, in this order: a composition of `BackgroundAgents` with the
real registry in place of its set of leases and with the sidecar in place of its
panes; the storage lease of the scheduler; pruning and the splitting of a large
batch in the background agents.

## Models

### ConcurrencyRegistry (`registry.ts`)

Every file-system call is a step, because another process can run between any
two of them: `mkdir`, `stat`, `rm` of a stale lock, reading and deciding
(`readState` and the synchronous code after it), `writeState` (a rename), the
`rm` in `finally`. `Ops` are slots for calls in flight in any process. `alive`
is what `process.kill(pid, 0)` tells; `stale` is the age of the present lock
directory; `expired` says that `lockTimeoutMs` has passed for a call. A process
may die anywhere (`Crash`), leaving its lock and its leases; a process in
`SlowProcs` may stall until its lock is old. The history variable `broken`
records that a live call lost its lock.

Not modelled: an unreadable registry file (the call throws and changes
nothing), a process identifier reused by the operating system.

### Scheduler (`extensions/scheduler/core.ts`, `index.ts`)

A job is a record of status, runs, whether its slot has come (`due`), a pending
wake and the fingerprint of its last check. A tick runs to its end without a
pause, so nothing else happens inside it, but the process may die between two of
its effects: `cursor` and `phase` cut it there. A failed save and a failed
handoff both close the scheduler (`save`, `tick`, `report`), which is `Fault`.
`strays` are the shells a closed scheduler has told to stop. `started`, `wakes`,
`delivered` and `interrupted` are history.

Not modelled: parsing of durations and cron lines (a recurring job is one whose
specification has a next time), the lease on the storage directory, the cap on
the size of the file.

### RpcChild (`runner.ts`, `protocol.ts`, `supervise` in `index.ts`)

Both ends of one child and the two pipes between them. The parent's side is
`RpcRunner.run` with its tracker; the child's side is what the extension and Pi
do with prompts, `ask_parent`, delegated runs and aborts. Events carry what the
tracker reads. `ProcessLine` is `processLine` with the callbacks it makes.
Whether Pi reports the turn that `ask_parent` aborts as aborted is not in this
repository: the model allows both.

### ResultDelivery

What background work promises a session, whoever does it: for each run a branch
of the session tells "unknown", "running", "unread" and "delivered", in this
order, and shows at most one message with the result, never before there is a
result. The user may go back to another leaf, which tells an earlier state.
`BackgroundAgents` and `BackgroundProcess` implement it; `Told` in each is the
refinement mapping, and the run properties `DeliveryKept` are
`Promise!Spec`.

### BackgroundAgents (`index.ts`)

`mem` is the map of runs, `saved` what the entries of the branch give after a
restore, `receipts` the completion messages on the branch, `queue` a batch Pi
has accepted and not yet recorded, `sups` the promises of `supervise()` with the
point they wait at, and `owned` whether `ownsRun` would still say so. A restore
is a loop that pauses only where the code awaits (`visiting`), so that children
and promises run only there. `point` is one earlier leaf of the session tree.

`StartsEarly` says whether Pi may run a turn while the handlers of
`session_start` are awaited, which is not in this repository. If it may, a run
that this turn starts is visited by the loop of the restore and recorded as lost
(`LostIsOver`, below under *Known disagreements*); the runs `agents` and
`agents_deep` assume that it may not.

Assumptions: the session changes only between turns of the agent, as Pi waits
for tool calls; an RPC child ends when its standard input closes with the
parent; the launch of a child and the record of its run are one step; a
`persist` after `session_shutdown` does not reach the branch. `Start` merges the
claim, the workspace and the record: what fails before the record leaves nothing
behind but the lease, which `execute` releases. `Status` merges the entry that
says a result was read (`1077`) with the tool result that shows it: a crash
between the two is left out.

`strays` are the runs for which the registry failed: a lease whose release failed
and stays held (`678-683`), a pane whose adoption failed and that works on
unsupervised (`746`, `760`). Both may happen at any release and at any adoption,
after a reload as after a restart. `LeasesEnd` and `NoOrphans` hold of all other
runs.

Not modelled: `prune`, which only forgets runs whose results were delivered, and
the split of a batch that is too large. Questions are
in `RpcChild` and `Sidecar`, `verify` and `integrate` in `WorktreeLifecycle`.

### BackgroundProcess (`extensions/background-process/index.ts`, `process.ts`, `process-host.js`)

`child` is the host of a command: alive, holding (it took SIGTERM and waits for
SIGKILL), exited, closed, or a stray that outlived its parent. `asked` is
`requestedStatus`: the first of stop, timeout and a failure to keep output, and `started` is
`startedAt`, as a number.
`mem`, `saved`, `receipts`, `queue`, `inFlight` are as in the background agents;
`calls` are `process_control` calls of the turn, which wait for a process or
hold a result that is not on the branch yet. `Deliver` is `deliver()` with the
acknowledgements it makes on the way and the runs its caller prunes after it.
`cut` holds results whose tool call was cut by a crash; `ResultsKept` excepts
them, and those that were pruned, because the code does lose them (below).

### ProcessLog (`log-store.ts`)

A segment is the interval of the stream it holds. A rotation is cut after any of
its three file operations, by a failure or a crash; a cleanup removes what is
past its age, segment by segment.

### Sidecar (`channel.ts`, `tui-bridge.ts`, `tmux.ts`, `TmuxTuiRunner`, `pane-host.sh`)

The files of the private directory are variables; `parentHeard` and `childHeard`
say that a watcher has a change to report, which happens only if the side
watched when the file changed. A call of tmux that fails looks to the parent like
a pane that has died (`MisreadPane`): it tells the run as failed and removes the
directory a while later, while the child goes on. `gaveUp` remembers a parent that
did so before the agent was gone, also one whose pane was hung up on. Either side is reloaded at any time and reads
what it finds. `saved` is the question in the persisted state of the parent.
`ToldOnce` and `AnsweredOnce` are about the branch of the child and its
questions; `NothingMissed` is liveness. `Scan` is one step: for a finer grain to
matter, a child would have to publish its result and end, and its pane to record
the exit, between two reads that follow each other in one callback. `Process` sends
a message and acknowledges its command in one step, as `applyCommand` and
`acknowledgeCommand` follow each other without an `await`; between the message that
was sent and its entry on the branch (`Deliver`) the child may be reloaded.

### WorktreeLifecycle (`worktrunk.ts`, `worktree-reaper.ts`, `worktree-lifecycle.ts`)

A commit is the set of changes it contains, so "ancestor" is "subset". Each
operation of the code (`op`) holds the lifecycle lock; agents, users and
`markTerminal` do not, and the lock can be lost to a holder that stood still.
The ledger has a reservation per run and worktree; a day-old one is abandoned
(`aged`). Verification records the snapshot it saw (head, target, hooks), and
integration compares it again. A reservation whose path is the primary checkout or
detached is dropped and the tree kept, before anybody asks who works in it
(`Inspect`). Hooks and diffs are what a verification is judged
by; their output is left out.

### WhatsApp (`index.ts`, `isolated-client.ts`, `worker.ts`, `client.ts`), MessageIndex (`store.ts`)

Commands are serialized in `ops`; `worker` is the thread the session talks to and
`threads` all that run; `mail` are their messages on the way. A worker is named
after the operation that starts it, so that what a late message is about cannot be
mistaken for a later worker. A worker dies, or
does not answer, at any time. The connection has its own timer and socket.
`MessageIndex` is the file of one chat, appended to by a worker that may die in
the middle of a line, compacted when it is long, and read in pages while
messages arrive; messages with one timestamp are ordered by reference.

### AccountVault (`codex-accounts/store.ts`), AccountSelection (`index.ts`, `service.ts`, `account-inheritance.ts`)

`AccountVault` is a transaction step by step: lock, read, work (a rotation calls
the endpoint, which replaces the token it was shown), save, release. A process
may be suspended until its lock is anybody's, notice this late, or die. A read or a
save may fail, and so may an exchange after the endpoint has rotated: `unsaved` are
the accounts whose token was lost in this way.
`AccountSelection` is the login a session spends: its pin on the branch, the
default, the provider that is registered, the model; activations fail where the
code awaits, and other sessions change the vault.

### Translate, Sudo, Popups, JsonHeadroom, NestedGuides, SkillConfig, IdleRequests, PromptEditor, ReviewLedger

One module per extension (two for `recap` and `session-title` together, and for
`draft-toggle` and `image-clipboard` together, which share the idle agent and the
editor). Each header says what its actions are; in all of them an `await` of the
code is a step boundary, and what happens between two awaits is one action.

`Sudo`: passwords are numbered buffers, so that wiping one that another user of
it still needs is visible. `overlap` and `lockedEarly` record the two situations
in which the code does not keep `ShutdownKills` (below). `Popups`: `waitsFor` is
the promise each call of `withLock` awaits. `JsonHeadroom`: what a file of the
store is named after is `Name`. `NestedGuides`: guides and notices have lengths,
and one request is built a guide at a time, as the loops of the code do. `SkillConfig`: one skill with its project
and global setting; the copy of a session is stale when another has saved since
(`behind`). `IdleRequests`: generations are the counters of the code; the state
a request was about is a version number. `PromptEditor`: a placeholder is a
number and a file, and where it stands in the text is left out; deleting it, or its
file in the panel, detaches the file, and undo, a yank or the history bring the
placeholder back without it (`Restore`). `refused` are the texts that were dropped
with a file that could not be read.
`ReviewLedger`: a reviewer's command is steps around the lock, and it may be
killed at each, or fail where it writes, which releases the lock.

### Compositions

`MCServices` and `MCExtensions` put extensions that do not interact into one
run. An initial state picks the one that takes steps, and the others stand still:
the states are the union of those of the parts, not the product. This says what
separate runs would say. WhatsApp and sudo are in both: their safety, which the
proofs are about, in `MCExtensions`, and what fairness makes of it in `MCServices`.

## Runs

| run | module, configuration | instance | what it shows |
|---|---|---|---|
| registry | `MCConcurrencyRegistry` | two processes, one may stall and the other die; two runs, a burst of four calls, limit 1 | `HeldWithinLimit` as long as no live lock was removed; every call ends |
| registry_cap | `MCConcurrencyRegistry`, `MCConcurrencyRegistryCap.cfg` | no stalls, one crash | *violated*: the cap without that proviso |
| scheduler | `MCScheduler` | a recurring check and a one-shot prompt, two runs each, one fault | executions stay apart (no silent replay, results for their own run); wakes are handed over |
| rpc_child | `MCRpcChild` | two questions, one delegated run, one steering message, a stop at any moment | replies meet their question, completion is final and of the last turn, a stop ends the run |
| agents | `MCBackgroundAgents` | a pane and a worktree run, two session changes (a leaf is returned to in sessions of one run only), releases and adoptions that fail | running means watched, leases end, no orphans, but for those failures |
| agents_restore | `MCBackgroundAgents`, `MCBackgroundAgentsRestore.cfg` | three pane runs, one session change, turns while a restore awaits (`StartsEarly`) | *violated*: a restore records as lost only what is over (`LostIsOver`) |
| agents_deep | `MCBackgroundAgentsDeep` | two runs in one session, or one run that is both, three session changes and two lost messages | delivered means seen, an idle agent has all results, a failure is delivered in the end, `ResultDelivery` is implemented |
| background_process | `MCBackgroundProcess` | a timed command and a service, room for one result in a batch and one recent run, one session change, one lost message or output | the same for commands; the outcome is the first request |
| worktrees | `MCWorktreeLifecycle` | two sessions, each with a run in the same worktree, two commits, or one and a fault | records are true, nothing in use or with work is removed, what is integrated was reviewed |
| sidecar | `MCSidecar` | two questions, three commands and a reload or two of each, a pane that is hung up on or misread | commands are heard once, outcomes are true, nothing is missed |
| services | `MCServices` | two sudo calls and two passwords; a timed command; three WhatsApp commands, one call, one closed connection, workers that die | what waits or keeps a process ends, under fairness |
| extensions | `MCExtensions` | fourteen small extensions, two or three actors each; two WhatsApp commands, for the theorems cover any number | one property for each, named in the table of `PROJECT.json` |

The names of properties that combine several are those of their conjunction:
`Supervised`, `ResultsKept`, `RecordsTrue`, `HeardOnce` and so on are defined as
conjunctions of named parts, each with a comment of its own.

### Bounds

Two concurrent calls are enough for every race of the registry: a lock race
needs a holder and a waiter, or two waiters after a crash, and the limit is one
so that both want the same lease. Two jobs give a tick an older and a younger
one; two runs give a job a repeated execution and a cap. A child that asks
twice can be answered to the wrong question. A sibling is needed for the rule
that holds back completed runs, so `agents_deep` has two in a session that does not
change, one of which may never end; one run is enough for what session changes
do to it; three of them let a run be detached, lost and found. Two commands with
room for one result in a batch make a second batch and an old run. Two runs of
two sessions want one worktree; two commits are one before and one after a
review. Four messages, two of them at the same time, make pages of one and a
compaction at three. Three questions make a chain with a middle, which may throw.
Two turns of translation are one that switches it on, or a branch where it is on,
and one during a translation. Two files make one that is left attached where the
other is sent.
The `Max...` constants bound what the environment does, never what the code does;
the limits of the code (`MaxRunning`, `MaxRecent`, `MaxWorkers`, `MaxFiles`,
`SegmentSize`, the budgets) have their names and small values, so that each is
reached.

Where a run would outgrow a few minutes its MC module bounds a sum as well: in
`worktrees` commits and faults together, in `sidecar` commands and reloads, in
`extensions` the operations and suspensions of the vault and the texts and the
messages under way of the prompt. `agents` leaves out the return to a remembered
leaf when there are two runs; `agents_deep` has it for one, through three changes.
All of these restrict what users, sessions and faults do, and none a step that
fairness demands.

Symmetry is used in `registry_cap`, `agents_restore`, `worktrees` and `extensions`,
where sessions, runs, calls or files are alike and only safety is checked.

### Fairness

Registry: every call goes on, time passes over a lock. Without a bound on the
calls a waiter can starve, because it retries at once, without looking at the
clock, when the directory has gone; so liveness is checked for bursts.
Scheduler: the timer fires, ticks end, shells have timeouts, turns end. RPC
child: pipes are read, timers fire, turns and delegated runs end; nobody has to
ask, reply or stop. Background agents and processes: promises, hosts and the file
system go on, turns end, waits give up, Pi is started again and the user prompts
again; children need not end. In the background processes a turn that could settle
again and again settles (`SF`), although the agent may call another tool each time. Sidecar: watchers
report, the poll of the pane and the kill timer fire, the pane records its exit,
the child reads its commands; nobody has to ask or command. WhatsApp: the
operation at the head of the queue goes on and its timeout fires. Sudo: only the
timer that kills. The rest is safety.

## Proofs

Proved for every value of the constants: any number of processes, calls, jobs,
runs, accounts, questions, restarts and faults. Each theorem with a property states
the definition that its run checks.

`ConcurrencyRegistryProofs`: `TypeCorrect`, `MutualExclusion`, `LeasesSafe`,
`BreakNeedsFault` and `LockIsOwned`. The inductive invariant `IInv` says, beside the types, that
every call in flight is of a live process, and, while no live lock was removed
(`Guarded`), that the only call past `mkdir` is the one the lock names, that the
snapshot it is about to write is a good file (no run twice, no more than the
limit, every held lease in it), and that the file itself is good. The last part
is what makes the lost update impossible: the snapshot was read under the lock
that still stands. `LockIsOwned` holds after a steal as well and is the safety that
`CallsEnd` rests on.

`SchedulerProofs`: `TypeCorrect`, `ExecutionsBounded`, `DuplicatesBounded`,
`OneShell`, `ResultsMatch`, `NoReplay`, their conjunction `CutRunsApart`, which
is the property of the run, and `NoWakeLost`, which is about each wake: it leaves
the disk when the tick that handed it over records so, and not before. None of the properties is
inductive. `IInv` adds that the memory of an open scheduler is the disk
(`Synced`), so that a crash loses nothing the rest speaks of; that a number is
used for one job (`Fresh`); where the tick stands (`Point`); that an awaited
shell keeps its job from being claimed (`Serial`); that an interrupted job is not
active, and not running once a scheduler is open (`Parked`); and a balance of
wakes recorded, owed and handed over (`Ledger`). The lemmas `...Edits` say what
each action makes of its job, and every other lemma uses them in place of the
action.

`RpcChildProofs`: `TypeCorrect`, `RepliesAccepted` and `CompletionsFinal`. The
first property of the run is inductive beside the types. The second needs
`Reports`: the child names each run it delegates to before it settles, on the one
pipe, and the parent's list of them only grows; so a parent that reads "settled"
has heard of every run that the child waited for.

`BackgroundAgentsProofs`: the invariant is in four parts. `AgentsInv` (memory is
what the entries of the branch tell, a run that runs or is verified has a promise
or a place in the restore, only what the branch shows counts as delivered) is
inductive without further assumption, and gives `NothingForgotten` and
`NoneRunsForEver`. `WorkInv` (one promise at most works for a run), `HeldInv` (a
lease and a child have who ends them) and `DeliveryInv` (messages are ahead of
what is delivered, and what is queued is unread) are inductive with it as long as
Pi starts no turn inside a restore, and give `LeasesAreReleased`,
`WorkIsSupervised` and `DeliveryIsKept`: every step is a step of `ResultDelivery`
or leaves the tale as it was. Leases and children are held except for the `strays`: a
failing registry leaves a lease, or a pane at work, without a promise (below). Without the assumption about turns the proof of `DeliveryIsKept` does
not go through, because at three runs it is false: this is the finding
`agents_restore`.

`BackgroundProcessProofs`: `InStep`, `WorkIsWatched`, `ResultsAreKept`,
`OutcomesAreKept` and `DeliveryIsKept`, none with an assumption beyond those on
the constants. `ProcessInv` says that memory and the branch agree and that what
runs has a host (`Books`, of the present branch and of the earlier leaf), that a
batch goes out only when none is on the way (`Turns`), that the branch shows what
counts as delivered (`Seen`, `Receipted`), and that an idle agent has been sent
everything (`IdleHasAll`). `deliver` is part of nearly every handler: what it does is
stated once (`DeliverDoes`, `DeliverKeeps`), and each handler is shown to hand it
books in order (`Delivered`). That it sends something when anything is unsent needs
a least start time (`Least`). Entries and messages only grow (`EntriesGrow`,
`MessagesGrow`), from which `OutcomeKept` and the refinement follow.

`SidecarProofs`: `InStep`, `EachIsHeardOnce` and `OutcomeIsTrue`. `SidecarInv`
says that what was heard is acknowledged and the question it answers is over, that
bridge and file tell of the same question, and that a parent that told a failure
without a result had seen an exit, or saw no pane: then the agent was gone, or
`gaveUp` says so.

`WorktreeLifecycleProofs`: `RecordsAreTrue`, `NeverRemovedInUse` and
`OnlyTheReviewed`. `LifecycleInv` says that, as long as no lock was stolen, one
operation at a time is past the lock, that its run is in the state it was begun
for, and that what it relies on of the ledger is not changed by what goes on
without the lock (agents, users, `markTerminal`).

`ExtensionsProofs` is about the run `extensions`. `OneAtATime` says that a step of
the composition is a step of each extension or leaves it alone; then one invariant
for each:

- `Continuous` and `Retained` of the log. `LogInv` adds that an open descriptor
  is of the current file, whose length the writer knows, and that without failures
  all before it is one full segment.
- `RotatedTokensLive`, `DefaultIsStored` and `SavesUndoNothing` of the account
  vault. `VaultInv` says that what the holder of the lock has read is what the
  vault holds, until a process that lost its lock without noticing has saved, and
  that without suspensions the holder is the one in a transaction and what it is
  about to save has the tokens the endpoint accepts, or those of the `unsaved`.
- `OriginalsAreTrue` and `WorkersAreCounted` of the compacted results, by
  ownership: the files are those of the calls past `Write`, and of faults.
- `Serial` of the popups: the calls in the chain can be numbered in the order
  they joined (`Chain`), each waits for the one before, and those up to some number
  are released; so the open one has the next number, and there is at most one, and
  while a call waits, the one with the next number is open or has its turn.
- `LateAnswersDiscarded` of recap and title: a request of the present generation
  is about the present conversation or branch, because every change of either
  begins a generation.
- `NeverAnotherLogin` of the account selection. `SelectionInv` says that
  the provider is bound to the selected login, or to the one being activated, that the
  branch names the selected one, and that a session blocked by an unreadable default
  has a branch that tells so.
- `PanelsAreTrue` of the skills: an open panel has what its session read from the
  file (`PanelIsFile`), and a session saves one change of it at a time (`SavesApart`).
- `NoServerLeftOver` and `SentWhereTyped` of the translation. `ServersInv` says that
  servers are numbered as they are launched and that all but the current one, or
  the one being started, were told to stop; `DraftsInv` that a prompt that waits in
  the present generation was typed in the present session while translation was on,
  and that one that waits alone has no failed one to hide.
- `ReviewsAreTrue` of the review: one writer at most has the lock
  (`WriterHasLock`), what it is about to write is a sound ledger, and a report
  that differs from the ledger has its writer between the two files, or the writer
  was killed or failed there.
- `ListingsAreTrue` of the message index. Messages of a finite set are numbered
  by how many come before each (`RanksNumber`), so that a page has the first ones
  in order, or all (`PageHasFirst`). `Read` says that what was there all the time
  is listed or after the cursor; `Loss` counts what the file lacks and a torn
  last line against the deaths of the worker.
- `NothingIsLost` of the prompt. `PromptInv` says that what is attached has a number
  and a file of its own (`Attachable`), that a placeholder in the editor is attached
  or its file was detached before, and that a message not announced yet
  has all its files attached or is marked.
- `SessionIsCurrent` and `NoTwoWorkers` of WhatsApp. `ChatInv` says how far the
  first operation is (`FirstGoesOn`), that the worker of the session is the only
  thread, and that without one at most a last thread has not ended (`OneThread`),
  and that nothing waits for a worker that is gone.
- `ShutdownArms` of sudo, the safety that `ShutdownKills` rests on. While no two
  calls overlap, `SudoInv` says that one call at most asks or has a command
  (`OneAsks`), and that a call that is about to run was given the password that is
  held, or one that was wiped and will be refused (`Prepared`); so the command
  that runs at the end of the session can still be killed (`Stoppable`).
- `EveryGuideIsTold` of the guides of directories. `GuidesInv` says that a guide
  that was seen was given, is known or will be reported (`Given`), that the guides
  on the way so far were seen (`Reached`), and that the counters of the code are the
  sums of the lengths added, less than the budgets by the reserve (`Counts`). What
  the recursive `Bytes` computes needs no induction: there is one running sum of
  a sequence (`SumIs`), `SumGrows` extends it by the block that a step appends, and so
  the behaviour itself carries it along.
- `AllTyped` of all the extensions. `TypesInv` says what the types need and the
  other invariants do not: that requests are about a conversation or a branch that
  was, that handlers and sessions are of no later generation than the present one,
  that the index of messages stays within its limit, that texts are numbered, and
  that the lock of a review is a reviewer's.

Assumptions on the constants are those the modules declare, which TLC evaluates
in the runs: limits and sizes are numbers, positive where the code validates them;
the marks of what is absent (`Absent`, `NoId`, `Missing`, ...) are none of the things
they stand beside; processes and calls are finitely many where something is counted.
Theorems without a property of a run, such as `OneShell`, `Retained`,
`LockIsOwned`, `ShutdownArms` or `DefaultIsStored`, state what no run needs to check any more.

Every invariant, action property and refinement that a run checks is stated by a
theorem. Only model-checked is all liveness, for which the prover has no rule here:
`CallsEnd`, `WakesDelivered`, `StopEnds`, `FailureDelivered`, `NothingMissed`,
`CommandsEnd`, `ShutdownKills` and `RunsConclude`.

## Known disagreements

The code differs here from a sentence of its documentation or from what a test
expects. The first two are runs that TLC refutes; the others were met while modelling,
and the models follow the code.

- **Registry cap** (run `registry_cap`): after a crash inside the lock, two
  waiters that both saw the stale directory can remove it one after the other,
  the second time with a live call inside, and two runs then hold the last lease
  (`registry.ts`, against `README.md:258`, "coordinated atomically").
- **Runs started during a restore** (run `agents_restore`): the loop of the
  restore goes over the live map of runs (`index.ts:720`) and awaits the registry
  in it (`746`). A run that a triggered turn starts meanwhile is visited too, and
  recorded as failed, "Parent session restarted before completion." (`792`), while
  it works (against `README.md:225`). This needs a Pi that runs a triggered turn
  before the handlers of `session_start` have returned.
- A one-shot job that has run is revived by pause and resume (`scheduler/core.ts:206`,
  against `tests/scheduler.test.ts:171`).
- A child that waits for delegated runs whose completions come in a batch never
  ends (`protocol.ts:211`, against `tests/subagent-protocol.test.ts:210` and
  `docs/subagent-waiting-without-question.md:5`).
- An RPC child that is stopped can be reported as failed (`runner.ts:240`, against
  `tests/subagent-tui-bridge.test.ts:98`).
- A worktree run that fails while the session changes is never reported
  (`index.ts:589` and `720-728`, against `README.md:225`).
- A session start, after a reload as after a restart, that cannot get back the lease
  of a working pane, for another process holds the lock or the file cannot be read,
  records the run as failed, and the pane works on unsupervised
  (`index.ts:746-761`, against `registry.ts:71`).
- A lease whose release fails, for the lock is held for too long, stays held until
  its process has ended (`index.ts:678-683`).
- A call of tmux that fails looks like a pane that has died: the parent tells the run
  as failed, and the child may still publish its handoff (`tmux.ts:95-101`,
  `runner.ts:432-436`). `OutcomeTrue` is stated without this (`gaveUp`).
- A ledger entry whose path is the primary checkout or detached is dropped with its
  tree in place and without a look at who works in it
  (`worktree-reaper.ts:354-357`); a later run of that worktree reserves it anew.
- A rotated token is lost when the answer of the endpoint is lost or the vault cannot
  be written (`codex-accounts/store.ts:116-122`, `204`); the login is then refused.
  `TokensLive` is stated without these (`unsaved`).
- A review whose report cannot be removed or written leaves it beside a newer ledger,
  and releases the lock (`review.py:263-266` with `41-42`). `ReviewTrue` is stated
  without this (`halfDone`).
- A host that ignores SIGTERM outlives `/quit`: the timer of its SIGKILL is
  unreferenced and dies with the process (`background-process/process.ts:117-124`,
  against `README.md:293`).
- Unread results of background processes are pruned when enough newer ones have
  ended (`background-process/index.ts:259`, against `README.md:284`), and a `wait`
  acknowledges a result before its tool result is on the branch, so that a crash
  between loses it.
- A rotation of the log that failed after its rename loses the newest segment when
  it is tried again (`log-store.ts:171`).
- A child of a parent whose model is neither Codex nor Pi's login, with a selected
  account, spends Pi's login (`account-inheritance.ts`, against `README.md:215`).
- WhatsApp: a `/wpp reset` that `/wpp off` overtakes leaves the tool active
  (`README.md:105`); a reconnection that fails to start is not tried again
  (`client.ts:348`); after a log-out from the phone `/wpp on` activates the tool
  and connects nothing.
- The direct command of the skill manager keeps a change in memory whose save
  failed (`skill-manager/index.ts:113-120`, against `README.md:335`).
- Translate: of two prompts at once one clears the recovery of the other
  (`translate/index.ts:98`); `/translate on` right after `off` joins the launch
  that is being cancelled (`backend.ts:67`).
- Sudo: two calls can run at once (`sudo/index.ts:291`), and the first to end
  clears the handle of the other (`327`); an error on the output disarms the
  killer (`101-105`, `150-153`); `/sudo-lock` zeroes the buffer the killer needs
  (`273`). `ShutdownKills` holds without these.
- The dialogs of sudo and of the image panel do not take the popup lock
  (`ui-lock.ts:8`, `README.md:306`).
- Image clipboard: the reset after the awaited reads also removes what was pasted
  meanwhile and uses numbers again (`image-clipboard/index.ts:194`), so that the key
  that deletes one placeholder can detach the file of another with the same number
  (`83`); a key between
  submit and the input event detaches files (`80`); a placeholder that undo, a yank or
  the history brings back attaches nothing (`78-79`); a file that cannot be read
  drops the text of the prompt (`189-192`). `PromptKept` is stated without these
  (`wiped`, `cut`, `refused`).

## Not modelled

- `session-cwd`: one variable, restored from the branch and set by one tool.
- `footer`, `ui`, `context-inspector`, `file-autocomplete`, `fast-mode`:
  rendering, search and toggles without state that outlives a call; the
  benchmark of `fast-mode` is a script.
- The lease of the scheduler on the session's storage, which an external library
  keeps; parsing of schedules.
- Transcription and media of WhatsApp, the usage panel of the accounts, the
  consolidator of the memory: calls to other programs whose answers are shown.
- Pruning and splitting of large batches in the background agents, lineage and
  profiles of the delegation policy (pure functions of one call), search in the
  skill index, protection of code in a text to translate, truncation and wording
  everywhere.
- `sessions.py`, which reads files and prints.
