---------------------------- MODULE SchedulerProofs ----------------------------
(***************************************************************************)
(* The scheduler's safety, for any number of jobs, caps and faults.  While *)
(* the scheduler is open its jobs are those on the disk (Synced), so the   *)
(* rest of the invariant speaks of the disk, which survives every fault.   *)
(***************************************************************************)
EXTENDS Scheduler, FiniteSetTheorems, TLAPS

Synced ==
  /\ open => mem = disk
  /\ ~open => mem = [j \in Jobs |-> Absent] /\ cursor = 0 /\ checks = {}

(* Job numbers are not used again. *)
Fresh == \A j \in Jobs : j > created =>
  /\ disk[j] = Absent /\ started[j] = 0 /\ j \notin interrupted
  /\ \A c \in checks : c.job # j

(* What the tick has already done for the job it is at. *)
Point ==
  /\ cursor = 0 => phase = "visit"
  /\ phase = "handoff" => /\ Stored(disk, cursor) /\ disk[cursor].pending
                          /\ delivered[cursor] > 0
  /\ phase = "prompt" => Running(disk, cursor)

(* No later execution of a job begins while a shell of it is awaited. *)
Serial ==
  /\ ~busy => checks = {}
  /\ \A c, d \in checks : c = d
  /\ \A c \in checks : Stored(disk, c.job) => disk[c.job].runs = c.run

(* A job whose execution was cut short is only on the disk as running while *)
(* no scheduler is open, and is active again only after a resume.          *)
Parked == \A j \in interrupted : Stored(disk, j) =>
  disk[j].status # "active" /\ (open => disk[j].status # "running")

Owed(j) == IF Stored(disk, j) /\ disk[j].pending THEN 1 ELSE 0
Handing(j) == IF cursor = j /\ phase = "handoff" THEN 1 ELSE 0

(* A handoff pays for one recorded wake, or for the fault that repeats it. *)
Ledger == \A j \in Jobs :
  delivered[j] + Owed(j) <= wakes[j] + faults + Handing(j)

IInv == /\ TypeOK /\ Synced /\ Fresh /\ Point
        /\ Serial /\ ExecutionsCapped /\ Parked /\ Ledger

------------------------------------------------------------------------------
(* Most actions give one stored job of an open scheduler a new value. *)
Change(j, x) ==
  /\ open /\ open' /\ mem = disk /\ mem' = disk'
  /\ disk[j] \in Job /\ x \in Job
  /\ disk' = [disk EXCEPT ![j] = x]

Keeps(j, x) == x.runs = disk[j].runs /\ x.pending = disk[j].pending

Quits(j, x) == x.runs = disk[j].runs /\ ~x.pending

Completes(j, x) ==
  /\ disk[j].status = "running"
  /\ x.runs = disk[j].runs /\ x.status \in {"active", "done"}
  /\ \E wake \in BOOLEAN :
       /\ wakes' = [wakes EXCEPT ![j] = IF wake THEN @ + 1 ELSE @]
       /\ x.pending = (wake \/ disk[j].pending)

(* A result that arrives for an execution still under way. *)
CheckCompletes(j) == \E c \in checks, r \in Results :
  c.job = j /\ Running(mem, j) /\ CheckEnds(c, r)

------------------------------------------------------------------------------
(* What each action makes of its job: a paused job loses its wake. *)
LEMMA PauseEdits ==
  ASSUME TypeOK, Synced, NEW j \in Jobs, Pause(j)
  PROVE  /\ \E x : Change(j, x) /\ x.status = "paused" /\ Quits(j, x)
         /\ cursor = 0
         /\ UNCHANGED <<cursor, phase, busy, checks, created, started, wakes,
                        delivered, interrupted, faults>>
<1> DEFINE x == [disk[j] EXCEPT !.status = "paused", !.pending = FALSE]
<1>1. open /\ mem = disk /\ disk[j] \in Job
  BY DEF Pause, AtRest, Synced, TypeOK, Stored
<1>2. x \in Job /\ x.status = "paused" /\ Quits(j, x)
  BY <1>1 DEF Job, Statuses, Quits
<1>3. Change(j, x)
  BY <1>1, <1>2 DEF Pause, Save, Change, TypeOK
<1> QED
  BY <1>2, <1>3 DEF Pause, AtRest, tickVars, runVars, history

(* A resumed job is active; nothing else about it changes. *)
LEMMA ResumeEdits ==
  ASSUME TypeOK, Synced, NEW j \in Jobs, Resume(j)
  PROVE  /\ \E x : Change(j, x) /\ x.status = "active" /\ Keeps(j, x)
         /\ cursor = 0
         /\ interrupted' = interrupted \ {j}
         /\ UNCHANGED <<cursor, phase, busy, checks, created, started, wakes,
                        delivered, faults>>
<1> DEFINE x == [disk[j] EXCEPT !.status = "active"]
<1>1. open /\ mem = disk /\ disk[j] \in Job
  BY DEF Resume, AtRest, Synced, TypeOK, Stored
<1>2. x \in Job /\ x.status = "active" /\ Keeps(j, x)
  BY <1>1 DEF Job, Statuses, Keeps
<1>3. Change(j, x)
  BY <1>1, <1>2 DEF Resume, Save, Change, TypeOK
<1> QED
  BY <1>2, <1>3 DEF Resume, AtRest, tickVars, runVars

(* A capped job is done; a wake it still owes stays owed. *)
LEMMA RetireEdits ==
  ASSUME TypeOK, Synced, NEW j \in Jobs, Retire(j)
  PROVE  /\ \E x : Change(j, x) /\ x.status = "done" /\ Keeps(j, x)
         /\ cursor = j /\ phase = "visit" /\ phase' = "visit"
         /\ UNCHANGED <<busy, checks, created, started, wakes, delivered,
                        interrupted, faults>>
<1> DEFINE x == [disk[j] EXCEPT !.status = "done"]
<1>1. open /\ mem = disk /\ disk[j] \in Job
  BY DEF Retire, At, Synced, TypeOK, Stored
<1>2. x \in Job /\ x.status = "done" /\ Keeps(j, x)
  BY <1>1 DEF Job, Statuses, Keeps
<1>3. Change(j, x)
  BY <1>1, <1>2 DEF Retire, Save, Change, TypeOK
<1> QED
  BY <1>2, <1>3 DEF Retire, At, runVars, history

(* The record of a handoff clears the wake it is for. *)
LEMMA RecordEdits ==
  ASSUME TypeOK, Synced, Point, NEW j \in Jobs, RecordHandoff(j)
  PROVE  /\ \E x : Change(j, x) /\ x.status = disk[j].status /\ Quits(j, x)
         /\ disk[j].pending
         /\ cursor = j /\ phase = "handoff" /\ phase' = "visit"
         /\ UNCHANGED <<busy, checks, created, started, wakes, delivered,
                        interrupted, faults>>
<1> DEFINE x == [disk[j] EXCEPT !.pending = FALSE]
<1>1. open /\ mem = disk /\ disk[j] \in Job /\ disk[j].pending
  BY DEF RecordHandoff, At, Synced, Point, TypeOK, Stored
<1>2. x \in Job /\ x.status = disk[j].status /\ Quits(j, x)
  BY <1>1 DEF Job, Statuses, Quits
<1>3. Change(j, x)
  BY <1>1, <1>2 DEF RecordHandoff, Save, Change, TypeOK
<1> QED
  BY <1>1, <1>2, <1>3 DEF RecordHandoff, At, runVars, history

(* A claim counts the execution and, for a shell, takes the slot. *)
LEMMA ClaimEdits ==
  ASSUME TypeOK, Synced, NEW j \in Jobs, Claim(j)
  PROVE  /\ \E x : /\ Change(j, x)
                   /\ disk[j].status = "active" /\ x.status = "running"
                   /\ x.runs = disk[j].runs + 1 /\ x.pending = disk[j].pending
         /\ cursor = j /\ phase = "visit"
         /\ started' = [started EXCEPT ![j] = @ + 1]
         /\ \/ /\ j \in Shell /\ ~busy /\ busy' /\ phase' = "visit"
               /\ checks' = checks \cup {[job |-> j, run |-> disk[j].runs + 1]}
            \/ phase' = "prompt" /\ UNCHANGED <<cursor, busy, checks>>
         /\ UNCHANGED <<created, wakes, delivered, interrupted, faults>>
<1> DEFINE x == [disk[j] EXCEPT !.status = "running", !.runs = @ + 1]
<1>1. /\ open /\ mem = disk /\ disk[j] \in Job
      /\ disk[j].status = "active" /\ ~(disk[j].runs >= MaxRuns)
  BY DEF Claim, At, Capped, Synced, TypeOK, Stored
<1>2. disk[j].runs \in 0 .. MaxRuns /\ disk[j].runs + 1 \in 0 .. MaxRuns
  BY <1>1, SchedulerAssumption DEF Job
<1>3. x \in Job
  BY <1>1, <1>2 DEF Job, Statuses
<1>4. /\ x.status = "running" /\ x.runs = disk[j].runs + 1
      /\ x.pending = disk[j].pending
  BY <1>1 DEF Job
<1>5. Change(j, x)
  BY <1>1, <1>3 DEF Claim, Save, Change, TypeOK
<1>6. \E y : /\ Change(j, y)
             /\ disk[j].status = "active" /\ y.status = "running"
             /\ y.runs = disk[j].runs + 1 /\ y.pending = disk[j].pending
  BY <1>1, <1>4, <1>5
<1> QED
  BY <1>1, <1>6 DEF Claim, At

(* complete(), for a prompt and for the result of a check. *)
LEMMA CompleteEdits ==
  ASSUME TypeOK, Synced, Point, NEW j \in Jobs,
         CompletePrompt(j) \/ CheckCompletes(j)
  PROVE  \E x : Change(j, x) /\ Completes(j, x)
<1>1. /\ open /\ open' /\ mem = disk /\ disk[j] \in Job
      /\ disk[j].status = "running"
  BY DEF CompletePrompt, CheckCompletes, CheckEnds, AtRest, At, Synced, Point,
         TypeOK, Running, Stored
<1>2. PICK wake \in BOOLEAN, result \in Results \cup {"none"} :
        Complete(j, wake, result)
  <2>1. disk[j].fingerprint \in Results \cup {"none"}
    BY <1>1 DEF Job
  <2>2. ASSUME CompletePrompt(j)
        PROVE  Complete(j, TRUE, disk[j].fingerprint)
    BY <1>1, <2>2 DEF CompletePrompt
  <2>3. ASSUME NEW c \in checks, NEW r \in Results,
               c.job = j, Running(mem, j), CheckEnds(c, r)
        PROVE  \E wake \in BOOLEAN : Complete(j, wake, r)
    <3>1. Complete(j, Wakes(j, mem[j].fingerprint, r), r)
      BY <2>3 DEF CheckEnds
    <3>2. Wakes(j, mem[j].fingerprint, r) \in BOOLEAN
      BY DEF Wakes
    <3> QED
      BY <3>1, <3>2
  <2> QED
    BY <2>1, <2>2, <2>3 DEF CheckCompletes
<1>3. PICK beyond \in BOOLEAN :
        Save([mem EXCEPT ![j] =
         [status |-> IF j \in Recurring /\ ~beyond /\ mem[j].runs < MaxRuns
                     THEN "active" ELSE "done",
          runs |-> mem[j].runs,
          due |-> j \notin Recurring /\ mem[j].due,
          pending |-> wake \/ mem[j].pending,
          fingerprint |-> result]])
  BY <1>2 DEF Complete
<1> DEFINE x ==
         [status |-> IF j \in Recurring /\ ~beyond /\ mem[j].runs < MaxRuns
                     THEN "active" ELSE "done",
          runs |-> mem[j].runs,
          due |-> j \notin Recurring /\ mem[j].due,
          pending |-> wake \/ mem[j].pending,
          fingerprint |-> result]
<1>4. x \in Job
  <2>1. x.status \in Statuses /\ x.due \in BOOLEAN /\ x.pending \in BOOLEAN
    BY DEF Statuses
  <2>2. disk[j].runs \in 0 .. MaxRuns
    BY <1>1 DEF Job
  <2> QED
    BY <1>1, <2>1, <2>2 DEF Job
<1>5. Completes(j, x)
  BY <1>1, <1>2 DEF Complete, Completes
<1>6. Change(j, x)
  BY <1>1, <1>3, <1>4 DEF Save, Change
<1> QED
  BY <1>5, <1>6

(* The result of a shell completes its execution, or comes too late. *)
LEMMA CheckEdits ==
  ASSUME TypeOK, Synced, Point, NEW c \in checks, NEW r \in Results,
         CheckEnds(c, r)
  PROVE  /\ c.job \in Jobs /\ open /\ open' /\ cursor = 0
         /\ \/ \E x : Change(c.job, x) /\ Completes(c.job, x)
            \/ UNCHANGED <<disk, mem, wakes>>
         /\ checks' = checks \ {c} /\ ~busy'
         /\ UNCHANGED <<cursor, phase, created, started, delivered,
                        interrupted, faults>>
<1>1. c.job \in Jobs
  BY SchedulerAssumption DEF TypeOK
<1>2. \/ \E x : Change(c.job, x) /\ Completes(c.job, x)
      \/ UNCHANGED <<disk, mem, wakes>>
  BY <1>1, CompleteEdits DEF CheckCompletes, CheckEnds, jobVars
<1> QED
  BY <1>1, <1>2 DEF CheckEnds, AtRest, tickVars

(* A prompt completes in the tick that claimed it. *)
LEMMA PromptEdits ==
  ASSUME TypeOK, Synced, Point, NEW j \in Jobs, CompletePrompt(j)
  PROVE  /\ \E x : Change(j, x) /\ Completes(j, x)
         /\ cursor = j /\ phase = "prompt" /\ phase' = "visit"
         /\ UNCHANGED <<busy, checks, created, started, delivered,
                        interrupted, faults>>
<1>1. \E x : Change(j, x) /\ Completes(j, x)
  BY CompleteEdits
<1> QED
  BY <1>1 DEF CompletePrompt, At, runVars

(* A slot comes for a job, on the disk and in memory. *)
LEMMA ElapseEdits ==
  ASSUME TypeOK, Synced, NEW j \in Jobs, Elapse(j)
  PROVE  /\ \E x \in Job : /\ disk[j] \in Job /\ disk' = [disk EXCEPT ![j] = x]
                           /\ x.status = disk[j].status /\ Keeps(j, x)
         /\ cursor = 0
         /\ mem' = IF open THEN disk' ELSE mem
         /\ UNCHANGED <<open, cursor, phase, busy, checks, created, started,
                        wakes, delivered, interrupted, faults>>
<1> DEFINE x == [disk[j] EXCEPT !.due = TRUE]
<1>1. disk[j] \in Job
  BY DEF Elapse, TypeOK, Stored
<1>2. x \in Job /\ x.status = disk[j].status /\ Keeps(j, x)
  BY <1>1 DEF Job, Statuses, Keeps
<1>3. disk' = [disk EXCEPT ![j] = x]
  BY DEF Elapse, TypeOK
<1>4. mem' = IF open THEN disk' ELSE mem
  BY DEF Elapse, Synced, Stored
<1> QED
  BY <1>1, <1>2, <1>3, <1>4 DEF Elapse, tickVars, runVars, history

(* The steps that neither touch the jobs nor end a shell. *)
Quiet ==
  \/ TimerTick \/ AgentSettles \/ TurnStarts \/ UNCHANGED vars
  \/ \E j \in Jobs : Skip(j) \/ StrayDies(j) \/ Expire(j)

(* They move the cursor only past a job nothing was done for. *)
LEMMA QuietSteps ==
  ASSUME Synced, Point, Quiet
  PROVE  /\ UNCHANGED <<disk, mem, open, phase, busy, checks, created, started,
                        wakes, delivered, interrupted, faults>>
         /\ cursor' # cursor => open /\ phase = "visit"
<1> USE DEF jobVars, tickVars, runVars, history
<1>1. CASE TimerTick \/ AgentSettles \/ TurnStarts
  BY <1>1 DEF TimerTick, AgentSettles, TurnStarts, AtRest, Point
<1>2. ASSUME NEW j \in Jobs, Skip(j) \/ StrayDies(j) \/ Expire(j)
      PROVE  /\ UNCHANGED <<disk, mem, open, phase, busy, checks, created,
                            started, wakes, delivered, interrupted, faults>>
             /\ cursor' # cursor => open /\ phase = "visit"
  BY <1>2 DEF Skip, StrayDies, Expire, At
<1>3. CASE UNCHANGED vars
  BY <1>3 DEF vars
<1> QED
  BY <1>1, <1>2, <1>3 DEF Quiet

------------------------------------------------------------------------------
(* Jobs are numbered from 1. *)
LEMMA JobNumbers ==
  /\ \A j \in Jobs : j \in Nat /\ j > 0
  /\ NumJobs \in Nat \ {0} /\ 1 \in Jobs
  /\ \A n \in 0 .. NumJobs - 1 : n + 1 \in Jobs
BY SchedulerAssumption DEF Jobs

(* A step ends with its jobs in memory and on the disk, or without memory. *)
LEMMA SyncedStep ==
  ASSUME TypeOK, Synced, Point, Next \/ UNCHANGED vars
  PROVE  Synced'
<1> USE DEF Synced, Change
<1>1. CASE Open
  BY <1>1 DEF Open, Save, runVars, history
<1>2. CASE Shutdown \/ Fault
  BY <1>2 DEF Shutdown, Fault, Halt, AtRest
<1>3. CASE Create
  BY <1>3 DEF Create, Save, AtRest, tickVars, runVars, history
<1>4. ASSUME NEW j \in Jobs, Pause(j)
      PROVE  Synced'
  BY <1>4, PauseEdits
<1>5. ASSUME NEW j \in Jobs, Remove(j)
      PROVE  Synced'
  BY <1>5 DEF Remove, Save, AtRest, tickVars, runVars, history
<1>6. ASSUME NEW j \in Jobs, Resume(j)
      PROVE  Synced'
  BY <1>6, ResumeEdits
<1>7. CASE Quiet
  BY <1>7, QuietSteps
<1>8. ASSUME NEW j \in Jobs, Deliver(j)
      PROVE  Synced'
  BY <1>8 DEF Deliver, At, jobVars, runVars
<1>9. ASSUME NEW j \in Jobs, RecordHandoff(j)
      PROVE  Synced'
  BY <1>9, RecordEdits
<1>10. ASSUME NEW j \in Jobs, Retire(j)
      PROVE  Synced'
  BY <1>10, RetireEdits
<1>11. ASSUME NEW j \in Jobs, Claim(j)
      PROVE  Synced'
  BY <1>11, ClaimEdits
<1>12. ASSUME NEW j \in Jobs, CompletePrompt(j)
      PROVE  Synced'
  BY <1>12, PromptEdits
<1>13. ASSUME NEW c \in checks, NEW r \in Results, CheckEnds(c, r)
      PROVE  Synced'
  BY <1>13, CheckEdits
<1>14. ASSUME NEW j \in Jobs, Elapse(j)
      PROVE  Synced'
  BY <1>14, ElapseEdits
<1> QED
  BY <1>1, <1>2, <1>3, <1>4, <1>5, <1>6, <1>7, <1>8, <1>9, <1>10, <1>11, <1>12,
     <1>13, <1>14 DEF Quiet, Next, Control, TickStep

(* The jobs on the disk keep their types. *)
LEMMA DiskStep ==
  ASSUME TypeOK, Synced, Point, Next \/ UNCHANGED vars
  PROVE  disk' \in [Jobs -> Job \cup {Absent}]
<1> USE SchedulerAssumption DEF Stored, Running, TypeOK, Change
<1>1. CASE Open
  <2>1. ASSUME NEW i \in Jobs
        PROVE  disk'[i] \in Job \cup {Absent}
    BY SMTT(20), <1>1, <2>1 DEF Open, Save, Job, Statuses
  <2> QED
    BY <1>1, <2>1 DEF Open, Save
<1>2. CASE Shutdown \/ Fault
  BY <1>2 DEF Shutdown, Fault, Halt, AtRest
<1>3. CASE Create
  <2>1. NewJob \in Job
    BY DEF NewJob, Job, Statuses
  <2> QED
    BY <1>3, <2>1 DEF Create, Save, AtRest, Synced
<1>4. ASSUME NEW j \in Jobs, Pause(j)
      PROVE  disk' \in [Jobs -> Job \cup {Absent}]
  BY <1>4, PauseEdits
<1>5. ASSUME NEW j \in Jobs, Remove(j)
      PROVE  disk' \in [Jobs -> Job \cup {Absent}]
  BY <1>5 DEF Remove, Save, AtRest, tickVars, runVars, history
<1>6. ASSUME NEW j \in Jobs, Resume(j)
      PROVE  disk' \in [Jobs -> Job \cup {Absent}]
  BY <1>6, ResumeEdits
<1>7. CASE Quiet
  BY <1>7, QuietSteps
<1>8. ASSUME NEW j \in Jobs, Deliver(j)
      PROVE  disk' \in [Jobs -> Job \cup {Absent}]
  BY <1>8 DEF Deliver, At, jobVars, runVars
<1>9. ASSUME NEW j \in Jobs, RecordHandoff(j)
      PROVE  disk' \in [Jobs -> Job \cup {Absent}]
  BY <1>9, RecordEdits
<1>10. ASSUME NEW j \in Jobs, Retire(j)
      PROVE  disk' \in [Jobs -> Job \cup {Absent}]
  BY <1>10, RetireEdits
<1>11. ASSUME NEW j \in Jobs, Claim(j)
      PROVE  disk' \in [Jobs -> Job \cup {Absent}]
  BY <1>11, ClaimEdits
<1>12. ASSUME NEW j \in Jobs, CompletePrompt(j)
      PROVE  disk' \in [Jobs -> Job \cup {Absent}]
  BY <1>12, PromptEdits
<1>13. ASSUME NEW c \in checks, NEW r \in Results, CheckEnds(c, r)
      PROVE  disk' \in [Jobs -> Job \cup {Absent}]
  BY <1>13, CheckEdits
<1>14. ASSUME NEW j \in Jobs, Elapse(j)
      PROVE  disk' \in [Jobs -> Job \cup {Absent}]
  BY <1>14, ElapseEdits
<1> QED
  BY <1>1, <1>2, <1>3, <1>4, <1>5, <1>6, <1>7, <1>8, <1>9, <1>10, <1>11, <1>12,
     <1>13, <1>14 DEF Quiet, Next, Control, TickStep

(* A number is used for one job only. *)
LEMMA FreshStep ==
  ASSUME TypeOK, Synced, Point, Fresh, Next \/ UNCHANGED vars
  PROVE  Fresh'
<1> USE AbsentAssumption, JobNumbers
        DEF Stored, Running, TypeOK, Change, Fresh, Synced
<1>1. CASE Open
  BY <1>1 DEF Open, Save, runVars, history
<1>2. CASE Shutdown \/ Fault
  BY <1>2 DEF Shutdown, Fault, Halt, AtRest
<1>3. CASE Create
  BY <1>3 DEF Create, Save, AtRest, tickVars, runVars, history
<1>4. ASSUME NEW j \in Jobs, Pause(j)
      PROVE  Fresh'
  BY <1>4, PauseEdits
<1>5. ASSUME NEW j \in Jobs, Remove(j)
      PROVE  Fresh'
  BY <1>5 DEF Remove, Save, AtRest, tickVars, runVars, history
<1>6. ASSUME NEW j \in Jobs, Resume(j)
      PROVE  Fresh'
  BY <1>6, ResumeEdits
<1>7. CASE Quiet
  BY <1>7, QuietSteps
<1>8. ASSUME NEW j \in Jobs, Deliver(j)
      PROVE  Fresh'
  BY <1>8 DEF Deliver, At, jobVars, runVars
<1>9. ASSUME NEW j \in Jobs, RecordHandoff(j)
      PROVE  Fresh'
  BY <1>9, RecordEdits
<1>10. ASSUME NEW j \in Jobs, Retire(j)
      PROVE  Fresh'
  BY <1>10, RetireEdits
<1>11. ASSUME NEW j \in Jobs, Claim(j)
      PROVE  Fresh'
  BY <1>11, ClaimEdits
<1>12. ASSUME NEW j \in Jobs, CompletePrompt(j)
      PROVE  Fresh'
  BY <1>12, PromptEdits
<1>13. ASSUME NEW c \in checks, NEW r \in Results, CheckEnds(c, r)
      PROVE  Fresh'
  BY <1>13, CheckEdits
<1>14. ASSUME NEW j \in Jobs, Elapse(j)
      PROVE  Fresh'
  BY <1>14, ElapseEdits
<1> QED
  BY <1>1, <1>2, <1>3, <1>4, <1>5, <1>6, <1>7, <1>8, <1>9, <1>10, <1>11, <1>12,
     <1>13, <1>14 DEF Quiet, Next, Control, TickStep

(* Only the tick changes the job it is at. *)
LEMMA PointStep ==
  ASSUME TypeOK, Synced, Point, Next \/ UNCHANGED vars
  PROVE  Point'
<1> USE AbsentAssumption, JobNumbers
        DEF Stored, Running, TypeOK, Change, Point, Quits, Completes, Synced
<1>1. CASE Open
  BY <1>1 DEF Open, Save, runVars, history
<1>2. CASE Shutdown \/ Fault
  BY <1>2 DEF Shutdown, Fault, Halt, AtRest
<1>3. CASE Create
  BY <1>3 DEF Create, Save, AtRest, tickVars, runVars, history
<1>4. ASSUME NEW j \in Jobs, Pause(j)
      PROVE  Point'
  BY <1>4, PauseEdits
<1>5. ASSUME NEW j \in Jobs, Remove(j)
      PROVE  Point'
  BY <1>5 DEF Remove, Save, AtRest, tickVars, runVars, history
<1>6. ASSUME NEW j \in Jobs, Resume(j)
      PROVE  Point'
  BY <1>6, ResumeEdits
<1>7. CASE Quiet
  BY <1>7, QuietSteps
<1>8. ASSUME NEW j \in Jobs, Deliver(j)
      PROVE  Point'
  BY <1>8 DEF Deliver, At, jobVars, runVars
<1>9. ASSUME NEW j \in Jobs, RecordHandoff(j)
      PROVE  Point'
  BY <1>9, RecordEdits
<1>10. ASSUME NEW j \in Jobs, Retire(j)
      PROVE  Point'
  BY <1>10, RetireEdits
<1>11. ASSUME NEW j \in Jobs, Claim(j)
      PROVE  Point'
  BY <1>11, ClaimEdits
<1>12. ASSUME NEW j \in Jobs, CompletePrompt(j)
      PROVE  Point'
  BY <1>12, PromptEdits
<1>13. ASSUME NEW c \in checks, NEW r \in Results, CheckEnds(c, r)
      PROVE  Point'
  BY <1>13, CheckEdits
<1>14. ASSUME NEW j \in Jobs, Elapse(j)
      PROVE  Point'
  BY <1>14, ElapseEdits
<1> QED
  BY <1>1, <1>2, <1>3, <1>4, <1>5, <1>6, <1>7, <1>8, <1>9, <1>10, <1>11, <1>12,
     <1>13, <1>14 DEF Quiet, Next, Control, TickStep

(* While a shell is awaited its job is not claimed again. *)
LEMMA SerialStep ==
  ASSUME TypeOK, Synced, Point, Fresh, Serial, Next \/ UNCHANGED vars
  PROVE  Serial'
<1> USE AbsentAssumption, SchedulerAssumption
        DEF Stored, Running, TypeOK, Change, Serial, Fresh, Synced, Quits,
            Keeps, Completes
<1>1. CASE Open
  BY <1>1 DEF Open, Save, runVars, history
<1>2. CASE Shutdown \/ Fault
  BY <1>2 DEF Shutdown, Fault, Halt, AtRest
<1>3. CASE Create
  BY <1>3 DEF Create, Save, AtRest, tickVars, runVars, history
<1>4. ASSUME NEW j \in Jobs, Pause(j)
      PROVE  Serial'
  BY <1>4, PauseEdits
<1>5. ASSUME NEW j \in Jobs, Remove(j)
      PROVE  Serial'
  BY <1>5 DEF Remove, Save, AtRest, tickVars, runVars, history
<1>6. ASSUME NEW j \in Jobs, Resume(j)
      PROVE  Serial'
  BY <1>6, ResumeEdits
<1>7. CASE Quiet
  BY <1>7, QuietSteps
<1>8. ASSUME NEW j \in Jobs, Deliver(j)
      PROVE  Serial'
  BY <1>8 DEF Deliver, At, jobVars, runVars
<1>9. ASSUME NEW j \in Jobs, RecordHandoff(j)
      PROVE  Serial'
  BY <1>9, RecordEdits
<1>10. ASSUME NEW j \in Jobs, Retire(j)
      PROVE  Serial'
  BY <1>10, RetireEdits
<1>11. ASSUME NEW j \in Jobs, Claim(j)
      PROVE  Serial'
  <2>1. PICK x : Change(j, x) /\ x.runs = disk[j].runs + 1
    BY <1>11, ClaimEdits
  <2>2. disk'[j] = x /\ \A i \in Jobs : i # j => disk'[i] = disk[i]
    BY <2>1
  <2>3. CASE UNCHANGED <<busy, checks>>
    <3>1. \A c \in checks : c.job # j \/ j \notin Shell
      BY <1>11, <2>3 DEF Claim
    <3> QED
      BY <2>2, <2>3, <3>1
  <2>4. CASE /\ ~busy /\ busy'
             /\ checks' = checks \cup {[job |-> j, run |-> disk[j].runs + 1]}
    BY <2>1, <2>2, <2>4
  <2> QED
    BY <1>11, <2>3, <2>4, ClaimEdits
<1>12. ASSUME NEW j \in Jobs, CompletePrompt(j)
      PROVE  Serial'
  BY <1>12, PromptEdits
<1>13. ASSUME NEW c \in checks, NEW r \in Results, CheckEnds(c, r)
      PROVE  Serial'
  BY <1>13, CheckEdits
<1>14. ASSUME NEW j \in Jobs, Elapse(j)
      PROVE  Serial'
  BY <1>14, ElapseEdits
<1> QED
  BY <1>1, <1>2, <1>3, <1>4, <1>5, <1>6, <1>7, <1>8, <1>9, <1>10, <1>11, <1>12,
     <1>13, <1>14 DEF Quiet, Next, Control, TickStep

(* An execution is counted on the disk before it begins. *)
LEMMA CappedStep ==
  ASSUME TypeOK, Synced, Point, Fresh, ExecutionsCapped, Next \/ UNCHANGED vars
  PROVE  ExecutionsCapped'
<1> USE AbsentAssumption, JobNumbers, SchedulerAssumption
        DEF Stored, Running, TypeOK, Change, ExecutionsCapped, Fresh, Synced,
            Quits, Keeps, Completes
<1>1. CASE Open
  BY <1>1 DEF Open, Save, runVars, history
<1>2. CASE Shutdown \/ Fault
  BY <1>2 DEF Shutdown, Fault, Halt, AtRest
<1>3. CASE Create
  <2>1. created \in Nat /\ created + 1 \in Jobs /\ started[created + 1] = 0
    BY <1>3 DEF Create
  <2>2. disk' = [disk EXCEPT ![created + 1] = NewJob] /\ started' = started
    BY <1>3 DEF Create, Save, AtRest, history
  <2> QED
    BY <2>1, <2>2 DEF NewJob
<1>4. ASSUME NEW j \in Jobs, Pause(j)
      PROVE  ExecutionsCapped'
  BY <1>4, PauseEdits
<1>5. ASSUME NEW j \in Jobs, Remove(j)
      PROVE  ExecutionsCapped'
  BY <1>5 DEF Remove, Save, AtRest, tickVars, runVars, history
<1>6. ASSUME NEW j \in Jobs, Resume(j)
      PROVE  ExecutionsCapped'
  BY <1>6, ResumeEdits
<1>7. CASE Quiet
  BY <1>7, QuietSteps
<1>8. ASSUME NEW j \in Jobs, Deliver(j)
      PROVE  ExecutionsCapped'
  BY <1>8 DEF Deliver, At, jobVars, runVars
<1>9. ASSUME NEW j \in Jobs, RecordHandoff(j)
      PROVE  ExecutionsCapped'
  BY <1>9, RecordEdits
<1>10. ASSUME NEW j \in Jobs, Retire(j)
      PROVE  ExecutionsCapped'
  BY <1>10, RetireEdits
<1>11. ASSUME NEW j \in Jobs, Claim(j)
      PROVE  ExecutionsCapped'
  <2>1. PICK x : Change(j, x) /\ x.runs = disk[j].runs + 1
    BY <1>11, ClaimEdits
  <2>2. disk'[j] = x /\ \A i \in Jobs : i # j => disk'[i] = disk[i]
    BY <2>1
  <2>3. started' = [started EXCEPT ![j] = @ + 1]
    BY <1>11, ClaimEdits
  <2>4. x.runs \in 0 .. MaxRuns /\ disk[j].runs \in 0 .. MaxRuns /\ disk[j] # Absent
    BY <2>1 DEF Job
  <2> QED
    BY <2>1, <2>2, <2>3, <2>4
<1>12. ASSUME NEW j \in Jobs, CompletePrompt(j)
      PROVE  ExecutionsCapped'
  BY <1>12, PromptEdits
<1>13. ASSUME NEW c \in checks, NEW r \in Results, CheckEnds(c, r)
      PROVE  ExecutionsCapped'
  BY <1>13, CheckEdits
<1>14. ASSUME NEW j \in Jobs, Elapse(j)
      PROVE  ExecutionsCapped'
  BY <1>14, ElapseEdits
<1> QED
  BY <1>1, <1>2, <1>3, <1>4, <1>5, <1>6, <1>7, <1>8, <1>9, <1>10, <1>11, <1>12,
     <1>13, <1>14 DEF Quiet, Next, Control, TickStep

(* Only a resume lets an interrupted job run again. *)
LEMMA ParkedStep ==
  ASSUME TypeOK, Synced, Point, Fresh, Parked, Next \/ UNCHANGED vars
  PROVE  Parked'
<1> USE AbsentAssumption, JobNumbers
        DEF Stored, Running, TypeOK, Change, Parked, Fresh, Synced, Keeps,
            Completes
<1>1. CASE Open
  BY <1>1 DEF Open, Save, runVars, history
<1>2. CASE Shutdown \/ Fault
  BY <1>2 DEF Shutdown, Fault, Halt, AtRest
<1>3. CASE Create
  BY <1>3 DEF Create, Save, AtRest, tickVars, runVars, history
<1>4. ASSUME NEW j \in Jobs, Pause(j)
      PROVE  Parked'
  BY <1>4, PauseEdits
<1>5. ASSUME NEW j \in Jobs, Remove(j)
      PROVE  Parked'
  BY <1>5 DEF Remove, Save, AtRest, tickVars, runVars, history
<1>6. ASSUME NEW j \in Jobs, Resume(j)
      PROVE  Parked'
  BY <1>6, ResumeEdits
<1>7. CASE Quiet
  BY <1>7, QuietSteps
<1>8. ASSUME NEW j \in Jobs, Deliver(j)
      PROVE  Parked'
  BY <1>8 DEF Deliver, At, jobVars, runVars
<1>9. ASSUME NEW j \in Jobs, RecordHandoff(j)
      PROVE  Parked'
  BY <1>9, RecordEdits
<1>10. ASSUME NEW j \in Jobs, Retire(j)
      PROVE  Parked'
  BY <1>10, RetireEdits
<1>11. ASSUME NEW j \in Jobs, Claim(j)
      PROVE  Parked'
  BY <1>11, ClaimEdits
<1>12. ASSUME NEW j \in Jobs, CompletePrompt(j)
      PROVE  Parked'
  BY <1>12, PromptEdits
<1>13. ASSUME NEW c \in checks, NEW r \in Results, CheckEnds(c, r)
      PROVE  Parked'
  BY <1>13, CheckEdits
<1>14. ASSUME NEW j \in Jobs, Elapse(j)
      PROVE  Parked'
  BY <1>14, ElapseEdits
<1> QED
  BY <1>1, <1>2, <1>3, <1>4, <1>5, <1>6, <1>7, <1>8, <1>9, <1>10, <1>11, <1>12,
     <1>13, <1>14 DEF Quiet, Next, Control, TickStep

(* Every wake handed over is paid for by a record or a fault. *)
LEMMA LedgerStep ==
  ASSUME TypeOK, Synced, Point, Fresh, Ledger, Next \/ UNCHANGED vars
  PROVE  Ledger'
<1> USE AbsentAssumption, JobNumbers
        DEF Stored, Running, TypeOK, Change, Ledger, Owed, Handing, Quits,
            Keeps, Completes
<1>1. CASE Open
  <2>1. ASSUME NEW i \in Jobs, Running(disk, i)
        PROVE  disk'[i] \in Job /\ disk'[i].pending = disk[i].pending
    BY <1>1, <2>1 DEF Open, Save, Job, Statuses
  <2>2. ASSUME NEW i \in Jobs
        PROVE  Owed(i)' = Owed(i)
    BY <1>1, <2>1, <2>2 DEF Open, Save
  <2>3. UNCHANGED <<phase, wakes, delivered, faults>> /\ phase = "visit"
    BY <1>1 DEF Open, history, Synced, Point
  <2> QED
    BY <2>2, <2>3
<1>2. CASE Shutdown \/ Fault
  BY <1>2 DEF Shutdown, Fault, Halt, AtRest
<1>3. CASE Create
  <2>1. \A i \in Jobs : Owed(i)' <= Owed(i) /\ Owed(i) \in Nat /\ Owed(i)' \in Nat
    BY <1>3 DEF Create, Save, AtRest, NewJob, Synced
  <2>2. UNCHANGED <<cursor, phase, wakes, delivered, faults>>
    BY <1>3 DEF Create, tickVars, history
  <2> QED
    BY <2>1, <2>2
<1>4. ASSUME NEW j \in Jobs, Pause(j)
      PROVE  Ledger'
  BY <1>4, PauseEdits
<1>5. ASSUME NEW j \in Jobs, Remove(j)
      PROVE  Ledger'
  <2>1. \A i \in Jobs : Owed(i)' <= Owed(i) /\ Owed(i) \in Nat /\ Owed(i)' \in Nat
    BY <1>5 DEF Remove, Save, AtRest, Synced
  <2>2. UNCHANGED <<cursor, phase, wakes, delivered, faults>>
    BY <1>5 DEF Remove, tickVars, history
  <2> QED
    BY <2>1, <2>2
<1>6. ASSUME NEW j \in Jobs, Resume(j)
      PROVE  Ledger'
  BY <1>6, ResumeEdits
<1>7. CASE Quiet
  BY <1>7, QuietSteps
<1>8. ASSUME NEW j \in Jobs, Deliver(j)
      PROVE  Ledger'
  BY <1>8 DEF Deliver, At, jobVars, runVars
<1>9. ASSUME NEW j \in Jobs, RecordHandoff(j)
      PROVE  Ledger'
  BY <1>9, RecordEdits
<1>10. ASSUME NEW j \in Jobs, Retire(j)
      PROVE  Ledger'
  BY <1>10, RetireEdits
<1>11. ASSUME NEW j \in Jobs, Claim(j)
      PROVE  Ledger'
  BY <1>11, ClaimEdits
<1>12. ASSUME NEW j \in Jobs, CompletePrompt(j)
      PROVE  Ledger'
  BY <1>12, PromptEdits
<1>13. ASSUME NEW c \in checks, NEW r \in Results, CheckEnds(c, r)
      PROVE  Ledger'
  BY SMTT(20), <1>13, CheckEdits
<1>14. ASSUME NEW j \in Jobs, Elapse(j)
      PROVE  Ledger'
  BY <1>14, ElapseEdits
<1> QED
  BY <1>1, <1>2, <1>3, <1>4, <1>5, <1>6, <1>7, <1>8, <1>9, <1>10, <1>11, <1>12,
     <1>13, <1>14 DEF Quiet, Next, Control, TickStep

(* The counters, the flags and the sets keep their types. *)
Flags ==
  /\ open \in BOOLEAN /\ idle \in BOOLEAN /\ busy \in BOOLEAN
  /\ cursor \in 0 .. NumJobs /\ phase \in {"visit", "handoff", "prompt"}
  /\ created \in 0 .. NumJobs /\ faults \in 0 .. MaxFaults

Sets ==
  /\ checks \subseteq [job : Shell, run : 1 .. MaxRuns]
  /\ strays \subseteq Shell /\ expired \subseteq Jobs
  /\ interrupted \subseteq Jobs

Counts ==
  /\ started \in [Jobs -> Nat] /\ wakes \in [Jobs -> Nat]
  /\ delivered \in [Jobs -> Nat]

(* TypeOK, its counters and flags. *)
LEMMA FlagsStep ==
  ASSUME Flags, Next \/ UNCHANGED vars
  PROVE  Flags'
<1> USE DEF Flags, jobVars, tickVars, runVars, history, AtRest, At
<1>0. /\ 0 \in 0 .. NumJobs /\ 1 \in 0 .. NumJobs
      /\ \A n \in 0 .. NumJobs : n # NumJobs => n + 1 \in 0 .. NumJobs
      /\ faults < MaxFaults => faults + 1 \in 0 .. MaxFaults
      /\ created < NumJobs => created + 1 \in 0 .. NumJobs
  BY SchedulerAssumption
<1>9. NextJob => cursor' \in 0 .. NumJobs
  BY <1>0 DEF NextJob
<1>1. CASE Open \/ Shutdown \/ Fault \/ Create
  BY <1>0, <1>1 DEF Open, Shutdown, Fault, Halt, Create
<1>2. CASE TimerTick \/ AgentSettles \/ TurnStarts
  BY <1>0, <1>2 DEF TimerTick, AgentSettles, TurnStarts
<1>3. ASSUME NEW j \in Jobs, Pause(j) \/ Remove(j) \/ Resume(j)
      PROVE  Flags'
  BY <1>3 DEF Pause, Remove, Resume
<1>4. ASSUME NEW j \in Jobs, StrayDies(j) \/ Elapse(j) \/ Expire(j)
      PROVE  Flags'
  BY <1>4 DEF StrayDies, Elapse, Expire
<1>5. ASSUME NEW j \in Jobs, Skip(j) \/ Deliver(j) \/ RecordHandoff(j)
      PROVE  Flags'
  BY <1>0, <1>5, <1>9 DEF Skip, Deliver, RecordHandoff
<1>6. ASSUME NEW j \in Jobs, Retire(j) \/ Claim(j) \/ CompletePrompt(j)
      PROVE  Flags'
  BY <1>6, <1>9 DEF Retire, Claim, CompletePrompt
<1>7. ASSUME NEW c \in checks, NEW r \in Results, CheckEnds(c, r)
      PROVE  Flags'
  BY <1>7 DEF CheckEnds
<1>8. CASE UNCHANGED vars
  BY <1>8 DEF vars
<1> QED
  BY <1>1, <1>2, <1>3, <1>4, <1>5, <1>6, <1>7, <1>8 DEF Next, Control, TickStep

(* TypeOK, its sets. *)
LEMMA SetsStep ==
  ASSUME TypeOK, Synced, Next \/ UNCHANGED vars
  PROVE  Sets'
<1> USE SchedulerAssumption
        DEF Sets, jobVars, tickVars, runVars, history, AtRest, At
<1>1. Sets
  BY DEF TypeOK
<1>2. CASE Open \/ Create \/ TimerTick \/ AgentSettles \/ TurnStarts
  BY <1>1, <1>2 DEF Open, Create, TimerTick, AgentSettles, TurnStarts
<1>3. CASE Shutdown \/ Fault
  <2>1. {c.job : c \in checks} \subseteq Shell
    BY <1>1
  <2>2. {j \in Jobs : Running(disk, j)} \subseteq Jobs
    OBVIOUS
  <2> QED
    BY <1>1, <1>3, <2>1, <2>2 DEF Shutdown, Fault, Halt
<1>4. ASSUME NEW j \in Jobs, Pause(j) \/ Remove(j) \/ Resume(j)
      PROVE  Sets'
  BY <1>1, <1>4 DEF Pause, Remove, Resume
<1>5. ASSUME NEW j \in Jobs, StrayDies(j) \/ Elapse(j) \/ Expire(j)
      PROVE  Sets'
  BY <1>1, <1>5 DEF StrayDies, Elapse, Expire
<1>6. ASSUME NEW j \in Jobs, Skip(j) \/ Deliver(j) \/ RecordHandoff(j)
      PROVE  Sets'
  BY <1>1, <1>6 DEF Skip, Deliver, RecordHandoff
<1>7. ASSUME NEW j \in Jobs, Retire(j) \/ CompletePrompt(j)
      PROVE  Sets'
  BY <1>1, <1>7 DEF Retire, CompletePrompt
<1>8. ASSUME NEW j \in Jobs, Claim(j)
      PROVE  Sets'
  <2>1. PICK x : Change(j, x) /\ x.runs = disk[j].runs + 1
    BY <1>8, ClaimEdits
  <2>2. disk[j].runs \in 0 .. MaxRuns /\ disk[j].runs + 1 \in 1 .. MaxRuns
    BY <2>1 DEF Change, Job
  <2>3. UNCHANGED <<strays, expired, interrupted>>
    BY <1>8 DEF Claim
  <2>4. CASE checks' = checks
    BY <1>1, <2>3, <2>4
  <2>5. CASE /\ j \in Shell
             /\ checks' = checks \cup {[job |-> j, run |-> disk[j].runs + 1]}
    BY <1>1, <2>2, <2>3, <2>5
  <2> QED
    BY <1>8, <2>4, <2>5, ClaimEdits
<1>9. ASSUME NEW c \in checks, NEW r \in Results, CheckEnds(c, r)
      PROVE  Sets'
  BY <1>1, <1>9 DEF CheckEnds
<1>10. CASE UNCHANGED vars
  BY <1>1, <1>10 DEF vars
<1> QED
  BY <1>2, <1>3, <1>4, <1>5, <1>6, <1>7, <1>8, <1>9, <1>10
        DEF Next, Control, TickStep

(* TypeOK, its histories. *)
LEMMA CountsStep ==
  ASSUME TypeOK, Counts, Next \/ UNCHANGED vars
  PROVE  Counts'
<1> USE DEF Counts, history
<1>1. CASE \/ Open \/ Shutdown \/ Fault \/ Create
           \/ TimerTick \/ AgentSettles \/ TurnStarts \/ UNCHANGED vars
  BY <1>1 DEF Open, Shutdown, Fault, Halt, Create, TimerTick, AgentSettles,
              TurnStarts, vars
<1>2. ASSUME NEW j \in Jobs, \/ Pause(j) \/ Remove(j) \/ Resume(j)
                             \/ StrayDies(j) \/ Elapse(j) \/ Expire(j)
      PROVE  Counts'
  BY <1>2 DEF Pause, Remove, Resume, StrayDies, Elapse, Expire
<1>3. ASSUME NEW j \in Jobs, Skip(j) \/ RecordHandoff(j) \/ Retire(j)
      PROVE  Counts'
  BY <1>3 DEF Skip, RecordHandoff, Retire
<1>4. ASSUME NEW j \in Jobs, Deliver(j) \/ Claim(j)
      PROVE  Counts'
  BY <1>4 DEF Deliver, Claim
<1>5. ASSUME NEW j \in Jobs, CompletePrompt(j)
      PROVE  Counts'
  BY <1>5 DEF CompletePrompt, Complete
<1>6. ASSUME NEW c \in checks, NEW r \in Results, CheckEnds(c, r)
      PROVE  Counts'
  <2>1. CASE Complete(c.job, Wakes(c.job, mem[c.job].fingerprint, r), r)
    <3>1. c.job \in Jobs
      BY SchedulerAssumption DEF TypeOK
    <3>2. PICK w \in {wakes[c.job], wakes[c.job] + 1} :
            wakes' = [wakes EXCEPT ![c.job] = w]
      BY <2>1 DEF Complete
    <3>3. wakes' \in [Jobs -> Nat]
      BY <3>1, <3>2
    <3> QED
      BY <1>6, <3>3 DEF CheckEnds
  <2>2. CASE UNCHANGED wakes
    BY <1>6, <2>2 DEF CheckEnds
  <2> QED
    BY <1>6, <2>1, <2>2 DEF CheckEnds
<1> QED
  BY <1>1, <1>2, <1>3, <1>4, <1>5, <1>6 DEF Next, Control, TickStep

(* The conjuncts of TypeOK together. *)
LEMMA TypeStep ==
  ASSUME TypeOK, Synced, Point, Next \/ UNCHANGED vars
  PROVE  TypeOK'
<1>1. Flags /\ Counts
  BY DEF TypeOK, Flags, Counts
<1>2. Flags' /\ Counts' /\ Sets'
  BY <1>1, FlagsStep, CountsStep, SetsStep
<1>3. disk' \in [Jobs -> Job \cup {Absent}] /\ mem' \in [Jobs -> Job \cup {Absent}]
  BY SyncedStep, DiskStep DEF Synced
<1> QED
  BY <1>2, <1>3 DEF TypeOK, Flags, Counts, Sets

------------------------------------------------------------------------------
(* The scheduler starts with nothing stored. *)
LEMMA InitIInv == Init => IInv
<1> SUFFICES ASSUME Init PROVE IInv
  OBVIOUS
<1>1. TypeOK
  <2>1. disk \in [Jobs -> Job \cup {Absent}] /\ mem \in [Jobs -> Job \cup {Absent}]
    BY DEF Init
  <2>2. cursor \in 0 .. NumJobs /\ created \in 0 .. NumJobs /\ faults \in 0 .. MaxFaults
    BY SchedulerAssumption DEF Init
  <2>3. /\ started \in [Jobs -> Nat] /\ wakes \in [Jobs -> Nat]
        /\ delivered \in [Jobs -> Nat]
    BY DEF Init
  <2> QED
    BY <2>1, <2>2, <2>3 DEF Init, TypeOK
<1>2. Synced /\ Fresh /\ Point /\ Serial /\ Parked
  BY DEF Init, Synced, Fresh, Point, Serial, Parked, Stored
<1>3. ExecutionsCapped /\ Ledger
  BY SchedulerAssumption DEF Init, ExecutionsCapped, Ledger, Stored, Owed, Handing
<1> QED
  BY <1>1, <1>2, <1>3 DEF IInv

(* The invariant of every behaviour of the scheduler. *)
LEMMA Invariance == Spec => []IInv
<1>1. IInv /\ [Next]_vars => IInv'
  <2> SUFFICES ASSUME IInv, [Next]_vars PROVE IInv'
    OBVIOUS
  <2>1. TypeOK' /\ Synced' /\ Fresh' /\ Point'
    BY TypeStep, SyncedStep, FreshStep, PointStep DEF IInv
  <2>2. Serial' /\ ExecutionsCapped' /\ Parked' /\ Ledger'
    BY SerialStep, CappedStep, ParkedStep, LedgerStep DEF IInv
  <2> QED
    BY <2>1, <2>2 DEF IInv
<1> QED
  BY InitIInv, <1>1, PTL DEF Spec

(* The variables of the scheduler keep their types.                        *)
THEOREM TypeCorrect == Spec => []TypeOK
<1>1. IInv => TypeOK
  BY DEF IInv
<1> QED
  BY Invariance, <1>1, PTL

(* Through any crashes, failed saves, pauses and reloads, a job is executed *)
(* at most maxRuns times and the disk never counts fewer executions than   *)
(* were begun; between ticks nothing is only in memory.                    *)
THEOREM ExecutionsBounded == Spec => [](ExecutionsCapped /\ SavedAtRest)
<1>1. IInv => ExecutionsCapped /\ SavedAtRest
  BY DEF IInv, Synced, SavedAtRest, AtRest
<1> QED
  BY Invariance, <1>1, PTL

(* A wake is delivered again only after a fault, for any number of jobs.   *)
THEOREM DuplicatesBounded == Spec => []DuplicatesOnlyByFault
<1>1. ASSUME IInv, NEW j \in Jobs
      PROVE  delivered[j] <= wakes[j] + faults
  <2>1. /\ delivered[j] \in Nat /\ wakes[j] \in Nat /\ faults \in Nat
        /\ delivered[j] + Owed(j) <= wakes[j] + faults + Handing(j)
    BY <1>1, SchedulerAssumption DEF IInv, TypeOK, Ledger
  <2>2. Owed(j) \in Nat /\ Handing(j) \in Nat /\ Handing(j) <= Owed(j)
    BY <1>1 DEF IInv, Point, Owed, Handing
  <2> QED
    BY <2>1, <2>2
<1>2. IInv => DuplicatesOnlyByFault
  BY <1>1 DEF DuplicatesOnlyByFault
<1> QED
  BY Invariance, <1>2, PTL

(* One shell at a time, whatever is paused, removed or resumed meanwhile.  *)
THEOREM OneShell == Spec => []SerialChecks
<1>1. ASSUME Serial, checks \subseteq [job : Shell, run : 1 .. MaxRuns]
      PROVE  SerialChecks
  <2>1. CASE checks = {}
    BY <2>1, FS_EmptySet DEF SerialChecks
  <2>2. ASSUME NEW c \in checks
        PROVE  SerialChecks
    <3>1. checks = {c}
      BY <1>1 DEF Serial
    <3>2. Cardinality({c}) = 1
      BY FS_Singleton
    <3> QED
      BY <3>1, <3>2 DEF SerialChecks
  <2> QED
    BY <2>1, <2>2
<1>2. IInv => SerialChecks
  BY <1>1 DEF IInv, TypeOK
<1> QED
  BY Invariance, <1>2, PTL

(* The result of a shell is only ever applied to the execution that        *)
(* started it.                                                             *)
THEOREM ResultsMatch == Spec => ResultForItsRun
<1>1. ASSUME IInv
      PROVE  \A c \in checks \ checks' :
               open' /\ Running(mem, c.job) => mem[c.job].runs = c.run
  <2> SUFFICES ASSUME NEW c \in checks, Running(mem, c.job)
               PROVE  mem[c.job].runs = c.run
    OBVIOUS
  <2>1. open /\ mem = disk
    BY <1>1, SchedulerAssumption DEF IInv, Synced, TypeOK
  <2> QED
    BY <1>1, <2>1 DEF IInv, Serial, Running, Stored
<1>2. IInv /\ [Next]_vars
      => [\A c \in checks \ checks' :
            open' /\ Running(mem, c.job) => mem[c.job].runs = c.run]_vars
  BY <1>1
<1> QED
  BY Invariance, <1>2, PTL DEF Spec, ResultForItsRun

(* No fault makes the scheduler repeat an execution by itself: only Claim  *)
(* begins one, of an active job, and an interrupted job is not active      *)
(* until it is resumed.                                                    *)
THEOREM NoReplay == Spec => NoSilentReplay
<1>1. ASSUME IInv, [Next]_vars, NEW j \in Jobs, started'[j] > started[j]
      PROVE  j \notin interrupted
  <2>1. ~(started' = started)
    BY <1>1 DEF IInv, TypeOK
  <2>2. PICK k \in Jobs : Claim(k)
    <3> USE DEF history
    <3>1. ~(Open \/ Shutdown \/ Fault \/ Create \/ TimerTick \/ AgentSettles
            \/ TurnStarts \/ UNCHANGED vars)
      BY <2>1 DEF Open, Shutdown, Fault, Halt, Create, TimerTick, AgentSettles,
                  TurnStarts, vars
    <3>2. \A i \in Jobs : ~(Pause(i) \/ Remove(i) \/ Resume(i) \/ StrayDies(i)
                            \/ Elapse(i) \/ Expire(i))
      BY <2>1 DEF Pause, Remove, Resume, StrayDies, Elapse, Expire
    <3>3. \A i \in Jobs : ~(Skip(i) \/ Deliver(i) \/ RecordHandoff(i)
                            \/ Retire(i) \/ CompletePrompt(i))
      BY <2>1 DEF Skip, Deliver, RecordHandoff, Retire, CompletePrompt
    <3>4. \A c \in checks, r \in Results : ~CheckEnds(c, r)
      BY <2>1 DEF CheckEnds
    <3> QED
      BY <1>1, <3>1, <3>2, <3>3, <3>4 DEF Next, Control, TickStep
  <2>3. started' = [started EXCEPT ![k] = @ + 1]
    BY <2>2 DEF Claim
  <2>4. j = k
    BY <1>1, <2>3 DEF IInv, TypeOK
  <2>5. \E x : Change(j, x) /\ disk[j].status = "active"
    BY <1>1, <2>2, <2>4, ClaimEdits DEF IInv
  <2> QED
    BY <1>1, <2>5, AbsentAssumption DEF IInv, Parked, Change, Stored
<1>2. IInv /\ [Next]_vars
      => [\A j \in Jobs : started'[j] > started[j] => j \notin interrupted]_vars
  BY <1>1
<1> QED
  BY Invariance, <1>2, PTL DEF Spec, NoSilentReplay

(* Each wake leaves the disk only when the tick that handed over that wake  *)
(* records it, or at the request of the user, and a tick that is to record  *)
(* one has handed it over itself (core.ts: the handoff is saved after       *)
(* onWake), for any number of jobs, wakes and faults.                      *)
THEOREM NoWakeLost == Spec => WakesKept
<1> DEFINE Kept(j) ==
      /\ Stored(disk, j) /\ disk[j].pending /\ ~(Stored(disk', j) /\ disk'[j].pending)
         => Pause(j) \/ Remove(j) \/ HandingOver(j)
      /\ ~HandingOver(j) /\ HandingOver(j)'
         => /\ Stored(disk, j) /\ disk[j].pending
            /\ delivered'[j] = delivered[j] + 1
<1>1. ASSUME IInv, [Next]_vars, NEW j \in Jobs
      PROVE  Kept(j)
  <2> USE AbsentAssumption, JobNumbers
      DEF Stored, Change, Quits, Keeps, Completes, HandingOver
  <2>1. TypeOK /\ Synced /\ Fresh /\ Point
    BY <1>1 DEF IInv
  <2>2. CASE Shutdown \/ Fault \/ Quiet
    BY <2>1, <2>2, QuietSteps DEF Shutdown, Fault, Halt
  <2>3. CASE Open
    <3>1. Running(disk, j) => disk'[j] \in Job /\ disk'[j].pending = disk[j].pending
      BY <2>1, <2>3 DEF Open, Save, Job, Statuses, TypeOK, Running
    <3> QED
      BY <2>1, <2>3, <3>1 DEF Open, Save, Point, Synced
  <2>4. CASE Create
    BY <2>1, <2>4 DEF Create, Save, AtRest, Synced, Fresh, TypeOK, tickVars
  <2>5. ASSUME NEW i \in Jobs, Pause(i) \/ Resume(i) \/ Remove(i)
        PROVE  Kept(j)
    <3>1. CASE Pause(i)
      BY <2>1, <3>1, PauseEdits DEF TypeOK
    <3>2. CASE Resume(i)
      BY <2>1, <3>2, ResumeEdits DEF TypeOK
    <3>3. CASE Remove(i)
      BY <2>1, <3>3 DEF Remove, Save, AtRest, Synced, TypeOK, tickVars
    <3> QED
      BY <2>5, <3>1, <3>2, <3>3
  <2>6. ASSUME NEW i \in Jobs, Deliver(i) \/ Retire(i) \/ Elapse(i)
        PROVE  Kept(j)
    <3>1. CASE Deliver(i)
      BY <2>1, <3>1 DEF Deliver, At, Synced, TypeOK, jobVars
    <3>2. CASE Retire(i)
      BY <2>1, <3>2, RetireEdits DEF TypeOK
    <3>3. CASE Elapse(i)
      BY <2>1, <3>3, ElapseEdits DEF TypeOK
    <3> QED
      BY <2>6, <3>1, <3>2, <3>3
  <2>7. ASSUME NEW i \in Jobs, RecordHandoff(i)
        PROVE  Kept(j)
    BY <2>1, <2>7, RecordEdits DEF TypeOK, Point
  <2>8. ASSUME NEW i \in Jobs, Claim(i)
        PROVE  Kept(j)
    BY <2>1, <2>8, ClaimEdits DEF TypeOK
  <2>9. ASSUME NEW i \in Jobs, CompletePrompt(i)
        PROVE  Kept(j)
    BY <2>1, <2>9, PromptEdits DEF TypeOK
  <2>10. ASSUME NEW c \in checks, NEW r \in Results, CheckEnds(c, r)
         PROVE  Kept(j)
    BY <2>1, <2>10, CheckEdits DEF TypeOK
  <2> QED
    BY <1>1, <2>2, <2>3, <2>4, <2>5, <2>6, <2>7, <2>8, <2>9, <2>10
       DEF Quiet, Next, Control, TickStep
<1>2. IInv /\ [Next]_vars => [\A j \in Jobs : Kept(j)]_vars
  BY <1>1
<1> QED
  BY Invariance, <1>2, PTL DEF Spec, WakesKept

(* The two halves of what keeps the runs of a job apart: a restart repeats   *)
(* no run silently, and a result ends up with the run that produced it      *)
(* (core.ts, 262-282; the claim is saved before the shell starts).         *)
THEOREM CutRunsApart == Spec => ExecutionsApart
  BY ResultsMatch, NoReplay, PTL DEF ExecutionsApart
=============================================================================
