------------------------------ MODULE Scheduler ------------------------------
(***************************************************************************)
(* The session scheduler (extensions/scheduler/core.ts): jobs in memory,   *)
(* their copy in jobs.json, a tick that visits them in order of creation,  *)
(* and shell checks awaited between ticks.                                 *)
(*                                                                         *)
(* A tick never pauses, so no handler runs inside it; it is cut into steps *)
(* because the process may die, or storage fail, between any two of its    *)
(* effects.  Instants are abstracted to "due" (next <= now) and "expired"  *)
(* (expires <= now).                                                       *)
(***************************************************************************)
EXTENDS Naturals, FiniteSets

CONSTANTS
  NumJobs,    \* jobs ever created, numbered in order of creation
  Shell,      \* the jobs with a command; the others are prompts
  Recurring,  \* the interval and cron jobs; the others are one-shots
  Policy,     \* wake policy of each shell job
  MaxRuns,    \* maxRuns of every job
  MaxJobs,    \* how many jobs may be stored at once (32)
  MaxFaults,  \* bound: crashes, storage errors and failed handoffs
  Absent      \* a number whose job is not stored

Jobs == 1 .. NumJobs

ASSUME SchedulerAssumption ==
  /\ NumJobs \in Nat \ {0} /\ MaxRuns \in Nat \ {0} /\ MaxJobs \in Nat
  /\ MaxFaults \in Nat
  /\ Shell \subseteq Jobs /\ Recurring \subseteq Jobs
  /\ Policy \in [Shell -> {"failure", "success", "change", "always", "never"}]

VARIABLES
  disk, mem,    \* the stored jobs, and the jobs of the scheduler that is open
  open,         \* there is a scheduler and it is not closed
  cursor,       \* the job the tick in progress is at, or 0
  phase,        \* what the tick does next with that job
  idle,         \* the agent has no turn under way
  busy,         \* shellBusy
  checks,       \* the shell runs this scheduler awaits
  strays,       \* jobs whose shell outlives the scheduler that started it
  expired,      \* jobs past their deadline
  created,      \* how many jobs were created
  started,      \* history: executions begun, per job
  wakes,        \* history: wakes recorded, per job
  delivered,    \* history: wakes handed to the agent, per job
  interrupted,  \* history: a claim was cut short and not yet resumed
  faults        \* faults so far

jobVars  == <<disk, mem>>
tickVars == <<cursor, phase>>
runVars  == <<busy, checks, strays>>
history  == <<started, wakes, delivered, interrupted>>
vars == <<jobVars, open, tickVars, idle, runVars, expired, created, history,
          faults>>

Results  == {"good", "bad"}
Statuses == {"active", "paused", "done", "running"}
Job == [status : Statuses, runs : 0 .. MaxRuns, due : BOOLEAN,
        pending : BOOLEAN, fingerprint : Results \cup {"none"}]

ASSUME AbsentAssumption == Absent \notin Job

Stored(m, j) == m[j] # Absent
Running(m, j) == Stored(m, j) /\ m[j].status = "running"
NewJob == [status |-> "active", runs |-> 0, due |-> FALSE, pending |-> FALSE,
           fingerprint |-> "none"]

------------------------------------------------------------------------------
Init ==
  /\ disk = [j \in Jobs |-> Absent] /\ mem = disk
  /\ open = FALSE /\ cursor = 0 /\ phase = "visit" /\ idle = TRUE
  /\ busy = FALSE /\ checks = {} /\ strays = {}
  /\ expired = {} /\ created = 0 /\ interrupted = {} /\ faults = 0
  /\ started = [j \in Jobs |-> 0] /\ wakes = started /\ delivered = started

(* save(): the whole array, written to a temporary file and renamed. *)
Save(m) == mem' = m /\ disk' = m

(* The scheduler goes away: its shells are told to stop, and die later.    *)
(* Whatever a failing save or handoff was about to do is lost with memory. *)
Halt ==
  /\ open' = FALSE
  /\ mem' = [j \in Jobs |-> Absent]
  /\ cursor' = 0 /\ phase' = "visit"
  /\ busy' = FALSE
  /\ checks' = {}
  /\ strays' = strays \cup {c.job : c \in checks}
  /\ interrupted' = interrupted \cup {j \in Jobs : Running(disk, j)}
  /\ UNCHANGED <<disk, idle, expired, created, started, wakes, delivered>>

(* Mutant: an execution that was under way is taken up again.              *)
OpenAndRetry ==
  /\ ~open
  /\ open' = TRUE
  /\ Save([j \in Jobs |-> IF Running(disk, j)
                          THEN [disk[j] EXCEPT !.status = "active"]
                          ELSE disk[j]])
  /\ cursor' = 1
  /\ UNCHANGED <<phase, idle, runVars, expired, created, history, faults>>

(* The constructor: an execution that was under way is paused, never       *)
(* repeated; the first tick follows at once.                               *)
Open ==
  /\ ~open
  /\ open' = TRUE
  /\ Save([j \in Jobs |-> IF Running(disk, j)
                          THEN [disk[j] EXCEPT !.status = "paused"]
                          ELSE disk[j]])
  /\ cursor' = 1
  /\ UNCHANGED <<phase, idle, runVars, expired, created, history, faults>>

(* session_shutdown, or another session starting. *)
Shutdown == open /\ cursor = 0 /\ Halt /\ UNCHANGED faults

(* A crash, a failed save, or sendMessage throwing, at any point.          *)
Fault == open /\ faults < MaxFaults /\ faults' = faults + 1 /\ Halt

------------------------------------------------------------------------------
(* Tool calls, between ticks. *)
AtRest == open /\ cursor = 0

Create ==
  /\ AtRest
  /\ created < NumJobs
  /\ Cardinality({j \in Jobs : Stored(mem, j)}) < MaxJobs
  /\ created' = created + 1
  /\ Save([mem EXCEPT ![created + 1] = NewJob])
  /\ UNCHANGED <<open, tickVars, idle, runVars, expired, history, faults>>

(* Mutant: pausing a shell job frees the slot before its shell has ended.  *)
PauseFreeing(j) ==
  /\ AtRest
  /\ Stored(mem, j)
  /\ Save([mem EXCEPT ![j].status = "paused", ![j].pending = FALSE])
  /\ busy' = (busy /\ j \notin Shell)
  /\ UNCHANGED <<open, tickVars, idle, checks, strays, expired, created,
                 history, faults>>

(* pause: of a job in any status; a shell under way is stopped. *)
Pause(j) ==
  /\ AtRest
  /\ Stored(mem, j)
  /\ Save([mem EXCEPT ![j].status = "paused", ![j].pending = FALSE])
  /\ UNCHANGED <<open, tickVars, idle, runVars, expired, created, history,
                 faults>>

Remove(j) ==
  /\ AtRest
  /\ Stored(mem, j)
  /\ Save([mem EXCEPT ![j] = Absent])
  /\ UNCHANGED <<open, tickVars, idle, runVars, expired, created, history,
                 faults>>

Resume(j) ==
  /\ AtRest
  /\ Stored(mem, j)
  /\ j \notin expired
  /\ mem[j].runs < MaxRuns
  /\ mem[j].status = "paused"
  /\ Save([mem EXCEPT ![j].status = "active"])
  /\ interrupted' = interrupted \ {j}
  /\ UNCHANGED <<open, tickVars, idle, runVars, expired, created, started,
                 wakes, delivered, faults>>

------------------------------------------------------------------------------
(* Ticks: every second, and whenever the agent settles. *)
TimerTick ==
  /\ AtRest
  /\ cursor' = 1
  /\ UNCHANGED <<jobVars, open, phase, idle, runVars, expired, created,
                 history, faults>>

(* Mutant: nothing is done when the agent settles.                         *)
SettleUnnoticed ==
  /\ ~idle /\ cursor = 0
  /\ idle' = TRUE
  /\ UNCHANGED <<jobVars, open, tickVars, runVars, expired, created, history,
                 faults>>

AgentSettles ==
  /\ ~idle
  /\ cursor = 0
  /\ idle' = TRUE
  /\ cursor' = IF open THEN 1 ELSE 0
  /\ UNCHANGED <<jobVars, open, phase, runVars, expired, created, history,
                 faults>>

TurnStarts ==
  /\ idle
  /\ cursor = 0
  /\ idle' = FALSE
  /\ UNCHANGED <<jobVars, open, tickVars, runVars, expired, created, history,
                 faults>>

Capped(j) == j \in expired \/ mem[j].runs >= MaxRuns
At(j, p) == open /\ cursor = j /\ phase = p

NextJob == cursor' = (IF cursor = NumJobs THEN 0 ELSE cursor + 1)

(* A job there is nothing to do for. *)
Skip(j) ==
  /\ At(j, "visit")
  /\ \/ ~Stored(mem, j)
     \/ Stored(mem, j) /\ mem[j].pending /\ ~idle
     \/ Stored(mem, j) /\ ~mem[j].pending /\ mem[j].status # "active"
     \/ /\ Stored(mem, j) /\ ~mem[j].pending /\ mem[j].status = "active"
        /\ ~Capped(j)
        /\ ~mem[j].due \/ (j \in Shell /\ busy)
  /\ NextJob
  /\ UNCHANGED <<jobVars, open, phase, idle, runVars, expired, created,
                 history, faults>>

(* An idle agent takes a pending wake, which starts a turn. *)
Deliver(j) ==
  /\ At(j, "visit")
  /\ Stored(mem, j) /\ mem[j].pending
  /\ idle
  /\ delivered' = [delivered EXCEPT ![j] = @ + 1]
  /\ idle' = FALSE
  /\ phase' = "handoff"
  /\ UNCHANGED <<jobVars, open, cursor, runVars, expired, created, started,
                 wakes, interrupted, faults>>

(* The handoff is recorded, and the tick is over: one wake per tick. *)
RecordHandoff(j) ==
  /\ At(j, "handoff")
  /\ Save([mem EXCEPT ![j].pending = FALSE])
  /\ phase' = "visit" /\ cursor' = 0
  /\ UNCHANGED <<open, idle, runVars, expired, created, history, faults>>

Retire(j) ==
  /\ At(j, "visit")
  /\ Stored(mem, j) /\ ~mem[j].pending /\ mem[j].status = "active"
  /\ Capped(j)
  /\ Save([mem EXCEPT ![j].status = "done"])
  /\ NextJob
  /\ UNCHANGED <<open, phase, idle, runVars, expired, created, history, faults>>

(* The claim is saved before the shell starts. *)
Claim(j) ==
  /\ At(j, "visit")
  /\ Stored(mem, j) /\ ~mem[j].pending /\ mem[j].status = "active"
  /\ ~Capped(j)
  /\ mem[j].due
  /\ Save([mem EXCEPT ![j].status = "running", ![j].runs = @ + 1])
  /\ started' = [started EXCEPT ![j] = @ + 1]
  /\ \/ /\ j \in Shell
        /\ ~busy
        /\ busy' = TRUE
        /\ checks' = checks \cup {[job |-> j, run |-> mem[j].runs + 1]}
        /\ NextJob
        /\ UNCHANGED phase
     \/ /\ j \notin Shell
        /\ phase' = "prompt"
        /\ UNCHANGED <<cursor, busy, checks>>
  /\ UNCHANGED <<open, idle, strays, expired, created, wakes, delivered,
                 interrupted, faults>>

Wakes(j, old, result) ==
  \/ Policy[j] = "always"
  \/ Policy[j] = "failure" /\ result = "bad"
  \/ Policy[j] = "success" /\ result = "good"
  \/ Policy[j] = "change" /\ old # "none" /\ old # result

(* complete(): "beyond" says that the next slot is not before the deadline. *)
Complete(j, wake, result) ==
  \E beyond \in BOOLEAN :
    /\ j \in expired => beyond
    /\ Save([mem EXCEPT ![j] =
         [status |-> IF j \in Recurring /\ ~beyond /\ mem[j].runs < MaxRuns
                     THEN "active" ELSE "done",
          runs |-> mem[j].runs,
          due |-> j \notin Recurring /\ mem[j].due,
          pending |-> wake \/ mem[j].pending,
          fingerprint |-> result]])
    /\ wakes' = [wakes EXCEPT ![j] = IF wake THEN @ + 1 ELSE @]

CompletePrompt(j) ==
  /\ At(j, "prompt")
  /\ Complete(j, TRUE, mem[j].fingerprint)
  /\ phase' = "visit"
  /\ NextJob
  /\ UNCHANGED <<open, idle, runVars, expired, created, started, delivered,
                 interrupted, faults>>

(* runCheck resumes: a result whose job has been paused or removed since   *)
(* is dropped.                                                             *)
CheckEnds(c, result) ==
  /\ AtRest
  /\ c \in checks
  /\ checks' = checks \ {c}
  /\ busy' = FALSE
  /\ \/ /\ Running(mem, c.job)
        /\ Complete(c.job, Wakes(c.job, mem[c.job].fingerprint, result), result)
     \/ /\ ~Running(mem, c.job)
        /\ UNCHANGED <<jobVars, wakes>>
  /\ UNCHANGED <<open, tickVars, idle, strays, expired, created, started,
                 delivered, interrupted, faults>>

------------------------------------------------------------------------------
(* The environment. *)
StrayDies(j) ==
  /\ j \in strays
  /\ strays' = strays \ {j}
  /\ UNCHANGED <<jobVars, open, tickVars, idle, busy, checks, expired, created,
                 history, faults>>

(* A slot comes, whether or not Pi is running. *)
Elapse(j) ==
  /\ cursor = 0
  /\ Stored(disk, j) /\ ~disk[j].due
  /\ disk' = [disk EXCEPT ![j].due = TRUE]
  /\ mem' = IF Stored(mem, j) THEN [mem EXCEPT ![j].due = TRUE] ELSE mem
  /\ UNCHANGED <<open, tickVars, idle, runVars, expired, created, history,
                 faults>>

Expire(j) ==
  /\ cursor = 0
  /\ Stored(disk, j)
  /\ j \notin expired
  /\ expired' = expired \cup {j}
  /\ UNCHANGED <<jobVars, open, tickVars, idle, runVars, created, history,
                 faults>>

TickStep == \E j \in Jobs :
  \/ Skip(j) \/ Deliver(j) \/ RecordHandoff(j) \/ Retire(j) \/ Claim(j)
  \/ CompletePrompt(j)

Control == Create \/ \E j \in Jobs : Pause(j) \/ Remove(j) \/ Resume(j)

Next ==
  \/ Open \/ Shutdown \/ Fault
  \/ Control
  \/ TimerTick \/ AgentSettles \/ TurnStarts \/ TickStep
  \/ \E c \in checks, r \in Results : CheckEnds(c, r)
  \/ \E j \in Jobs : StrayDies(j) \/ Elapse(j) \/ Expire(j)

Spec == Init /\ [][Next]_vars

(* The timer fires, a tick runs to its end, every shell has a timeout and  *)
(* every turn of the agent ends; ticks, which only delay these last two,   *)
(* cannot prevent them for ever.                                           *)
Fairness ==
  /\ WF_vars(TimerTick) /\ WF_vars(TickStep) /\ SF_vars(AgentSettles)
  /\ SF_vars(\E c \in checks, r \in Results : CheckEnds(c, r))

FairSpec == Spec /\ Fairness

------------------------------------------------------------------------------
TypeOK ==
  /\ disk \in [Jobs -> Job \cup {Absent}] /\ mem \in [Jobs -> Job \cup {Absent}]
  /\ open \in BOOLEAN /\ idle \in BOOLEAN /\ busy \in BOOLEAN
  /\ cursor \in 0 .. NumJobs /\ phase \in {"visit", "handoff", "prompt"}
  /\ checks \subseteq [job : Shell, run : 1 .. MaxRuns]
  /\ strays \subseteq Shell /\ expired \subseteq Jobs /\ created \in 0 .. NumJobs
  /\ started \in [Jobs -> Nat] /\ wakes \in [Jobs -> Nat]
  /\ delivered \in [Jobs -> Nat]
  /\ interrupted \subseteq Jobs /\ faults \in 0 .. MaxFaults

(* Every handler ends with what it did on the disk: between ticks nothing   *)
(* the scheduler relies on would be forgotten by a crash (save, 156-168).  *)
SavedAtRest == AtRest => mem = disk

(* maxRuns bounds the executions of a job over its whole life, through     *)
(* crashes, failed saves, pauses and reloads, because the claim is on the  *)
(* disk before the execution begins (tick, 255-257).                       *)
ExecutionsCapped ==
  \A j \in Jobs : started[j] <= MaxRuns /\
    (Stored(disk, j) => started[j] <= disk[j].runs)

(* An execution that was cut short is not repeated until a user resumes    *)
(* the job (constructor, 146-149; README: "never blindly replayed").       *)
NoSilentReplay ==
  [][\A j \in Jobs : started'[j] > started[j] => j \notin interrupted]_vars

(* A wake reaches the agent at most once, and once more for each fault     *)
(* between the handoff and its record.                                     *)
DuplicatesOnlyByFault == \A j \in Jobs : delivered[j] <= wakes[j] + faults

(* One scheduler awaits one shell at a time, also when a job is paused and *)
(* resumed while its old shell is dying (shellBusy).                       *)
SerialChecks == Cardinality(checks) <= 1

(* A shell's result completes only the execution that started that shell,  *)
(* never a later one of the same job.                                      *)
ResultForItsRun ==
  [][\A c \in checks \ checks' :
       open' /\ Running(mem, c.job) => mem[c.job].runs = c.run]_vars

(* An execution that was cut short is neither repeated by itself nor         *)
(* completed by the shell of another.                                       *)
ExecutionsApart == NoSilentReplay /\ ResultForItsRun

(* The scheduler has handed over the wake of job j and not yet recorded it. *)
HandingOver(j) == cursor = j /\ phase = "handoff"

(* A wake is only lost when a user pauses or removes its job: otherwise it *)
(* stays on the disk until the tick that handed this very wake over records *)
(* that, and a tick comes to that point only by handing over the wake of   *)
(* that job, while it is on the disk.                                      *)
WakesKept ==
  [][\A j \in Jobs :
       /\ Stored(disk, j) /\ disk[j].pending /\ ~(Stored(disk', j) /\ disk'[j].pending)
          => Pause(j) \/ Remove(j) \/ HandingOver(j)
       /\ ~HandingOver(j) /\ HandingOver(j)'
          => /\ Stored(disk, j) /\ disk[j].pending
             /\ delivered'[j] = delivered[j] + 1]_vars

(* While the scheduler stays open, a pending wake is handed over or        *)
(* discarded, although a tick hands over one wake and starts at the oldest *)
(* job: the caps of the older jobs bound how long they can come first.     *)
WakesDelivered ==
  \A j \in Jobs : (open /\ Stored(mem, j) /\ mem[j].pending)
                  ~> (~open \/ ~Stored(mem, j) \/ ~mem[j].pending)
=============================================================================
