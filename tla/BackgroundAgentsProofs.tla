----------------------- MODULE BackgroundAgentsProofs -----------------------
(* What is proved of the background agents, for any runs, any number of     *)
(* session changes and any number of lost messages:                        *)
(*   Consistent      AgentsInv is inductive: memory and the entries of the  *)
(*                   branch agree, what runs or is verified has a promise   *)
(*                   or a place in the restore, and only what the branch    *)
(*                   shows counts as delivered.  NothingForgotten and       *)
(*                   NoneRunsForEver follow.                               *)
(*   KeptInStep      Steady adds to it that one promise at most works for   *)
(*                   a run (WorkInv), that leases and children have who     *)
(*                   ends them (HeldInv), and that messages are ahead of    *)
(*                   what is delivered (DeliveryInv), as long as no run     *)
(*                   starts inside a restore.  LeasesAreReleased and        *)
(*                   WorkIsSupervised follow.                              *)
(*   DeliveryIsKept  under Steady every step is a step of ResultDelivery.   *)
(* For each part of the invariant there is a lemma per action, then one for *)
(* Next.                                                                    *)
EXTENDS BackgroundAgents, TLAPS

Entry == Run \cup {Absent}

(* A leaf of the session tree counts a result as delivered only if it shows  *)
(* it.                                                                     *)
Shown(sv, rec, seen) ==
  \A r \in Runs : sv[r] # Absent /\ sv[r].delivery = "delivered"
                  => rec[r] > 0 \/ r \in seen

Types ==
  /\ TypeOK
  /\ point.saved \in [Runs -> Entry] /\ point.receipts \in [Runs -> Nat]
  /\ point.read \subseteq Runs

(* Only a restore awaits, for runs it knows; an instance that is not up      *)
(* knows none.                                                             *)
Awaits ==
  /\ restoring = "no" => todo = {} /\ visiting = Absent
  /\ ~up => restoring = "no" /\ mem = NoRuns
  /\ \A r \in todo : Known(r)
  /\ visiting # Absent => Known(visiting) /\ visiting \notin todo

(* A promise that owns its run belongs to the instance that is up.           *)
Owners == \A s \in sups : s.owned => up /\ Known(s.run)

(* The entries of the branch tell what the instance knows. *)
Agrees(m, e) ==
  /\ m = Absent <=> e = Absent
  /\ m # Absent => /\ e.status = m.status /\ e.delivery = m.delivery
                   /\ e.checking = m.checking /\ e.spawned = m.spawned

MemIsSaved == up => \A r \in Runs : Agrees(mem[r], saved[r])

(* A verification under way has a promise that will report it.               *)
CheckingIsWatched ==
  \A r \in Runs : Known(r) /\ mem[r].checking /\ r \notin todo
                  => \E s \in sups : /\ s.run = r /\ s.owned
                                     /\ s.stage \in {"marking", "verifying"}

(* What is verified has ended. *)
Checked(m) == \A r \in Runs : m[r] # Absent /\ m[r].checking => m[r].status # "running"

(* A run that left a trace has begun, and what is recorded for it has ended. *)
Begun ==
  \A r \in Runs : child[r] = "none" => /\ saved[r] = Absent /\ point.saved[r] = Absent
                                       /\ \A s \in sups : s.run # r

Judged ==
  \A s \in sups : s.owned /\ s.stage \in {"marking", "verifying"}
                  => mem[s.run].status # "running"

AgentsInv ==
  /\ Types /\ Awaits /\ Owners /\ MemIsSaved /\ CheckingIsWatched /\ RunningIsWatched
  /\ Shown(saved, receipts, read) /\ Shown(point.saved, point.receipts, point.read)
  /\ Checked(saved) /\ Checked(point.saved) /\ Begun /\ Judged /\ IdleHasAll

------------------------------------------------------------------------------
(* The records. *)

(* A run that has just begun.                                                 *)
LEMMA NewRunIs ==
  /\ NewRun \in Run /\ NewRun.status = "running" /\ NewRun.delivery = "none"
  /\ ~NewRun.checking /\ ~NewRun.spawned /\ ~NewRun.cancel
  BY DEF NewRun, Run, Statuses

(* The entry of a run tells all of it but the queue and the cancellation.     *)
LEMMA SnapshotIs ==
  ASSUME NEW run \in Run
  PROVE  Snapshot(run) \in Run /\ Agrees(run, Snapshot(run))
<1>1. Snapshot(run) \in Run
  BY DEF Snapshot, Run
<1>2. /\ Snapshot(run).status = run.status /\ Snapshot(run).delivery = run.delivery
      /\ Snapshot(run).checking = run.checking /\ Snapshot(run).spawned = run.spawned
  BY DEF Snapshot, Run
<1>3. run # Absent /\ Snapshot(run) # Absent
  BY <1>1, AbsentAssumption DEF AbsentAssumption
<1> QED
  BY <1>1, <1>2, <1>3 DEF Agrees

(* What is reported of a run is unread and verified; the rest stays.          *)
LEMMA ReportedIs ==
  ASSUME NEW run \in Run
  PROVE  /\ Reported(run) \in Run /\ Reported(run).status = run.status
         /\ Reported(run).delivery = "pending" /\ ~Reported(run).checking
         /\ Reported(run).spawned = run.spawned /\ Reported(run).cancel = run.cancel
         /\ Reported(run).queued = run.queued
  BY DEF Reported, Run

(* What consuming the results of S does to the runs m.                      *)
LEMMA ConsumeDoes ==
  ASSUME NEW m \in [Runs -> Entry], NEW S, \A r \in Runs : r \in S => m[r] # Absent
  PROVE  /\ Consume(m, S) \in [Runs -> Entry]
         /\ \A r \in Runs :
              /\ r \notin S => Consume(m, S)[r] = m[r]
              /\ r \in S => /\ Consume(m, S)[r] # Absent
                            /\ Consume(m, S)[r].status = m[r].status
                            /\ Consume(m, S)[r].delivery = "delivered"
                            /\ Consume(m, S)[r].checking = m[r].checking
                            /\ Consume(m, S)[r].spawned = m[r].spawned
                            /\ Consume(m, S)[r].cancel = m[r].cancel
                            /\ ~Consume(m, S)[r].queued
<1>1. ASSUME NEW run \in Run
      PROVE  LET new == [run EXCEPT !.delivery = "delivered", !.queued = FALSE]
             IN /\ new \in Run /\ new # Absent /\ new.status = run.status
                /\ new.delivery = "delivered" /\ new.checking = run.checking
                /\ new.spawned = run.spawned /\ new.cancel = run.cancel /\ ~new.queued
  <2> DEFINE new == [run EXCEPT !.delivery = "delivered", !.queued = FALSE]
  <2>1. new \in Run
    BY DEF Run
  <2>2. new # Absent
    BY <2>1, AbsentAssumption DEF AbsentAssumption
  <2>3. /\ new.status = run.status /\ new.delivery = "delivered"
        /\ new.checking = run.checking /\ new.spawned = run.spawned
        /\ new.cancel = run.cancel /\ ~new.queued
    BY DEF Run
  <2> HIDE DEF new
  <2>4. QED
    BY <2>1, <2>2, <2>3 DEF new
<1>2. \A r \in Runs : r \in S => m[r] \in Run
  BY DEF Entry
<1>3. \A r \in Runs : Consume(m, S)[r] =
        IF r \in S THEN [m[r] EXCEPT !.delivery = "delivered", !.queued = FALSE] ELSE m[r]
  BY DEF Consume
<1>4. ASSUME NEW r \in Runs
      PROVE  Consume(m, S)[r] \in Entry
  BY <1>1, <1>2, <1>3 DEF Entry
<1>5. Consume(m, S) \in [Runs -> Entry]
  BY <1>4 DEF Consume
<1> QED
  BY ZenonT(30), <1>1, <1>2, <1>3, <1>5

(* Consumed alike, runs and entries go on agreeing.                           *)
LEMMA ConsumeAgrees ==
  ASSUME NEW m \in [Runs -> Entry], NEW sv \in [Runs -> Entry], NEW S,
         \A r \in Runs : r \in S => m[r] # Absent,
         \A r \in Runs : Agrees(m[r], sv[r])
  PROVE  \A r \in Runs : Agrees(Consume(m, S)[r], Consume(sv, S)[r])
  BY ConsumeDoes DEF Agrees

------------------------------------------------------------------------------
(* What deliverCompletions does with the runs m and their entries sv: it     *)
(* acknowledges some, sends or has sent nothing or a batch of others, and    *)
(* leaves nothing behind that an idle agent should have been sent.           *)
Kept(m, n) ==
  /\ n \in [Runs -> Entry]
  /\ \A r \in Runs :
       /\ n[r] = Absent <=> m[r] = Absent
       /\ m[r] # Absent =>
            /\ n[r].status = m[r].status /\ n[r].checking = m[r].checking
            /\ n[r].spawned = m[r].spawned
            /\ n[r].delivery = m[r].delivery
               \/ (/\ n[r].delivery = "delivered" /\ m[r].delivery = "pending"
                   /\ m[r].status # "running" /\ receipts[r] > 0)

SentAll(m, n) ==
  \A r \in Runs : Unread(n, r) /\ ~n[r].queued => n[r].status = "complete" /\ SiblingRuns(m)

(* All that the later steps need to know of a delivery.                       *)
LEMMA DeliverDoes ==
  ASSUME NEW m \in [Runs -> Entry], NEW sv \in [Runs -> Entry], NEW atRest \in BOOLEAN,
         receipts \in [Runs -> Nat], queue \subseteq Runs, drops \in 0 .. MaxDrops,
         \A r \in Runs : Agrees(m[r], sv[r]), Deliver(m, sv, atRest)
  PROVE  /\ Kept(m, mem') /\ saved' \in [Runs -> Entry]
         /\ \A r \in Runs : Agrees(mem'[r], saved'[r])
         /\ idle' \in BOOLEAN /\ drops' \in 0 .. MaxDrops /\ drops' >= drops
         /\ idle' => atRest
         /\ \/ queue' = queue
            \/ /\ queue' \subseteq Runs /\ atRest /\ ~idle'
               /\ \A r \in queue' : receipts[r] = 0 /\ Unread(mem', r)
         /\ atRest /\ idle' /\ drops' = 0 => SentAll(m, mem')
<1> DEFINE acked == IF atRest THEN Acknowledged(m) ELSE {}
           batch == IF atRest THEN Eligible(m) ELSE {}
           m1 == Consume(m, acked)
<1>1. /\ acked \subseteq Runs /\ \A r \in Runs : r \in acked => m[r] # Absent
      /\ \A r \in Runs : r \in acked =>
           /\ m[r].status # "running" /\ m[r].delivery = "pending" /\ receipts[r] > 0
  BY DEF Acknowledged, Unread, Terminal, CompletionPresent
<1>2. /\ batch \subseteq Runs /\ batch \cap acked = {}
      /\ \A r \in batch : Unread(m, r) /\ ~(receipts[r] > 0) /\ ~m[r].queued
  BY DEF Eligible, Acknowledged, CompletionPresent
<1>3. saved' = Consume(sv, acked)
  BY DEF Deliver
<1>4. /\ m1 \in [Runs -> Entry]
      /\ \A r \in Runs :
           /\ r \notin acked => m1[r] = m[r]
           /\ r \in acked => /\ m1[r] # Absent /\ m1[r].status = m[r].status
                             /\ m1[r].delivery = "delivered"
                             /\ m1[r].checking = m[r].checking
                             /\ m1[r].spawned = m[r].spawned /\ ~m1[r].queued
  BY <1>1, ConsumeDoes
<1>5. saved' \in [Runs -> Entry] /\ \A r \in Runs : Agrees(m1[r], saved'[r])
  <2>1. \A r \in Runs : r \in acked => sv[r] # Absent
    BY <1>1 DEF Agrees
  <2>2. saved' \in [Runs -> Entry]
    BY <1>3, <2>1, ConsumeDoes
  <2>3. \A r \in Runs : Agrees(m1[r], saved'[r])
    BY <1>1, <1>3, ConsumeAgrees
  <2> QED
    BY <2>2, <2>3
<1>6. Kept(m, m1)
  BY <1>1, <1>4 DEF Kept
<1>7. ASSUME atRest, batch = {}
      PROVE  SentAll(m, m1)
  <2> SUFFICES ASSUME NEW r \in Runs, Unread(m1, r), ~m1[r].queued
               PROVE  m1[r].status = "complete" /\ SiblingRuns(m)
    BY DEF SentAll
  <2>1. r \notin acked /\ m1[r] = m[r]
    BY <1>4 DEF Unread
  <2>2. Unread(m, r) /\ ~m[r].queued
    BY <2>1 DEF Unread, Terminal
  <2>3. ~CompletionPresent(r)
    BY <1>7, <2>1, <2>2 DEF Acknowledged
  <2> QED
    BY <1>7, <2>1, <2>2, <2>3 DEF Eligible
<1>8. CASE mem' = m1
  <2>1. /\ queue' = queue /\ idle' = atRest
        /\ drops' = IF batch = {} THEN drops ELSE drops + 1
        /\ batch = {} \/ drops < MaxDrops
    <3>1. ASSUME NEW r \in batch,
                 mem' = [q \in Runs |-> IF q \in batch
                                       THEN [m1[q] EXCEPT !.queued = TRUE] ELSE m1[q]]
          PROVE  FALSE
      <4>1. r \in Runs /\ m1[r] = m[r] /\ ~m[r].queued /\ m[r] \in Run
        BY <1>2, <1>4 DEF Entry, Unread, Terminal
      <4>2. mem'[r] = [m1[r] EXCEPT !.queued = TRUE] /\ mem'[r] = m1[r]
        BY <1>8, <3>1, <4>1
      <4>3. mem'[r].queued
        BY <4>1, <4>2 DEF Run
      <4> QED
        BY <4>1, <4>2, <4>3
    <3> QED
      BY <3>1 DEF Deliver
  <2> QED
    BY <1>5, <1>6, <1>7, <1>8, <2>1, AgentsAssumption DEF AgentsAssumption
<1>9. CASE /\ batch # {} /\ idle' = FALSE /\ queue' = batch /\ drops' = drops
           /\ mem' = [r \in Runs |-> IF r \in batch
                                     THEN [m1[r] EXCEPT !.queued = TRUE] ELSE m1[r]]
  <2> HIDE DEF batch, acked, m1
  <2>1. ASSUME NEW r \in Runs, r \in batch
        PROVE  /\ mem'[r] \in Run /\ mem'[r] # Absent /\ mem'[r].status = m1[r].status
               /\ mem'[r].delivery = m1[r].delivery /\ mem'[r].checking = m1[r].checking
               /\ mem'[r].spawned = m1[r].spawned
    <3>1. m1[r] \in Run
      BY <1>2, <1>4, <2>1 DEF Entry, Unread, Terminal
    <3>2. mem'[r] = [m1[r] EXCEPT !.queued = TRUE]
      BY <1>9, <2>1
    <3>3. mem'[r] \in Run
      BY <3>1, <3>2 DEF Run
    <3>4. mem'[r] # Absent
      BY <3>3, AbsentAssumption DEF AbsentAssumption
    <3> QED
      BY <3>1, <3>2, <3>3, <3>4 DEF Run
  <2>2. \A r \in Runs : r \notin batch => mem'[r] = m1[r]
    BY <1>9
  <2>3. \A r \in Runs : mem'[r] \in Entry
    BY <1>4, <2>1, <2>2 DEF Entry
  <2>4. mem' \in [Runs -> Entry]
    BY <1>9, <2>3
  <2>5. Kept(m, mem')
    <3>1. \A r \in Runs : r \in batch => m1[r] # Absent
      BY <1>2, <1>4 DEF Unread, Terminal
    <3> QED
      BY <1>6, <2>1, <2>2, <2>4, <3>1 DEF Kept
  <2>6. \A r \in Runs : Agrees(mem'[r], saved'[r])
    <3>1. \A r \in Runs : r \in batch => m1[r] # Absent
      BY <1>2, <1>4 DEF Unread, Terminal
    <3> QED
      BY <1>5, <2>1, <2>2, <3>1 DEF Agrees
  <2>7. ASSUME NEW r \in batch
        PROVE  receipts[r] = 0 /\ Unread(mem', r)
    <3>1. r \in Runs /\ r \notin acked /\ m1[r] = m[r] /\ Unread(m, r) /\ ~(receipts[r] > 0)
      BY <1>2, <1>4
    <3> QED
      BY <2>1, <3>1 DEF Unread, Terminal
  <2>8. atRest
    BY <1>9 DEF batch
  <2>9. drops' \in 0 .. MaxDrops /\ drops' >= drops
    BY <1>9, AgentsAssumption DEF AgentsAssumption
  <2>10. queue' \subseteq Runs /\ \A r \in queue' : receipts[r] = 0 /\ Unread(mem', r)
    BY <1>2, <1>9, <2>7
  <2>11. ~idle' /\ idle' \in BOOLEAN
    BY <1>9
  <2> QED
    BY <1>5, <2>5, <2>6, <2>8, <2>9, <2>10, <2>11, Zenon
<1> QED
  BY <1>8, <1>9 DEF Deliver

------------------------------------------------------------------------------
(* Nothing has begun.                                                         *)
LEMMA InitAgents == Init => AgentsInv
<1> SUFFICES ASSUME Init PROVE AgentsInv
  OBVIOUS
<1>1. \A r \in Runs : mem[r] = Absent /\ saved[r] = Absent /\ point.saved[r] = Absent
  BY DEF Init, NoRuns, Branch
<1>2. Types
  <2>1. NoRuns \in [Runs -> Entry]
    BY DEF NoRuns, Entry
  <2>2. [r \in Runs |-> 0] \in [Runs -> Nat]
    OBVIOUS
  <2>3. point.saved = NoRuns /\ point.receipts = [r \in Runs |-> 0] /\ point.read = {}
    BY DEF Init, Branch
  <2>4. 0 \in 0 .. MaxChanges /\ 0 \in 0 .. MaxDrops
    BY AgentsAssumption DEF AgentsAssumption
  <2>5. TypeOK
    BY <2>1, <2>2, <2>4 DEF Init, TypeOK, Entry
  <2> QED
    BY <2>1, <2>2, <2>3, <2>5 DEF Types
<1>3. Awaits /\ Owners /\ MemIsSaved
  BY <1>1 DEF Init, Awaits, Owners, MemIsSaved
<1>4. CheckingIsWatched /\ RunningIsWatched /\ IdleHasAll
  BY <1>1 DEF Init, CheckingIsWatched, RunningIsWatched, IdleHasAll, Known
<1>5. /\ Shown(saved, receipts, read) /\ Shown(point.saved, point.receipts, point.read)
      /\ Checked(saved) /\ Checked(point.saved)
  BY <1>1 DEF Shown, Checked
<1>6. Begun /\ Judged
  BY <1>1 DEF Init, Begun, Judged
<1> QED
  BY <1>2, <1>3, <1>4, <1>5, <1>6 DEF AgentsInv

(* Steps that change no run: the branch may show more, promises that own     *)
(* nothing may end, and the agent may get busy.                            *)
LEMMA NothingChanges ==
  ASSUME AgentsInv, Types',
         UNCHANGED <<up, mem, saved, point, restoring, todo, visiting>>,
         \A r \in Runs : receipts'[r] >= receipts[r], read \subseteq read',
         sups' \subseteq sups, \A s : s.owned => (s \in sups <=> s \in sups'),
         \A r \in Runs : child'[r] = "none" => child[r] = "none",
         idle' => idle, drops' = 0 => drops = 0
  PROVE  AgentsInv'
<1> USE DEF AgentsInv
<1>1. Awaits'
  BY DEF Awaits, Known
<1>2. Owners' /\ MemIsSaved'
  BY DEF Owners, MemIsSaved, Known
<1>3. CheckingIsWatched' /\ RunningIsWatched'
  BY DEF CheckingIsWatched, RunningIsWatched, Known
<1>4. Shown(saved, receipts, read)' /\ Shown(point.saved, point.receipts, point.read)'
  BY DEF Shown, Types, TypeOK
<1>5. Checked(saved)' /\ Checked(point.saved)'
  OBVIOUS
<1>6. IdleHasAll'
  BY DEF IdleHasAll, Unread, Terminal
<1>7. Begun' /\ Judged'
  BY DEF Begun, Judged
<1> QED
  BY <1>1, <1>2, <1>3, <1>4, <1>5, <1>6, <1>7

(* The steps of children, of promises that own nothing, and of Pi.            *)
LEMMA Quietly ==
  ASSUME AgentsInv,
         \/ \E r \in Runs, how \in Ended : ChildEnds(r, how)
         \/ \E s \in sups : Abandon(s)
         \/ TurnStarts \/ Record \/ UNCHANGED vars
  PROVE  AgentsInv'
<1> USE DEF AgentsInv
<1>1. ASSUME NEW r \in Runs, NEW how \in Ended, ChildEnds(r, how)
      PROVE  AgentsInv'
  <2>1. child' \in [Runs -> {"none", "launching"} \cup Live \cup Ended]
    BY <1>1 DEF ChildEnds, Types, TypeOK
  <2>2. UNCHANGED <<sessionVars, mem, branch, queue, sups, leases, strays, point, bounds>>
    BY <1>1 DEF ChildEnds
  <2>3. Types'
    BY <2>1, <2>2 DEF sessionVars, branch, bounds, Types, TypeOK
  <2>4. \A q \in Runs : child'[q] = "none" => child[q] = "none"
    BY <1>1 DEF ChildEnds, Ended, Types, TypeOK
  <2> QED
    BY <2>2, <2>3, <2>4, NothingChanges DEF sessionVars, branch, bounds, Types, TypeOK
<1>2. ASSUME NEW s \in sups, Abandon(s)
      PROVE  AgentsInv'
  <2>1. /\ UNCHANGED <<sessionVars, mem, branch, queue, child, point, bounds>>
        /\ sups' = sups \ {s} /\ leases' \subseteq leases /\ ~s.owned
        /\ strays' \subseteq strays \cup {s.run} /\ s.run \in Runs
    BY <1>2 DEF Abandon, Ends, Types, TypeOK, Supervisor
  <2>2. Types'
    BY <2>1 DEF sessionVars, branch, bounds, Types, TypeOK
  <2> QED
    BY <2>1, <2>2, NothingChanges DEF sessionVars, branch, bounds, Types, TypeOK
<1>3. CASE TurnStarts
  <2>1. Types'
    BY <1>3 DEF TurnStarts, branch, bounds, Types, TypeOK
  <2> QED
    BY <1>3, <2>1, NothingChanges DEF TurnStarts, branch, bounds, Types, TypeOK
<1>4. CASE Record
  <2>1. /\ UNCHANGED <<sessionVars, mem, saved, read, sups, child, leases, strays, point, changes>>
        /\ queue' = {}
    BY <1>4 DEF Record
  <2>2. /\ receipts' \in [Runs -> Nat] /\ drops' \in 0 .. MaxDrops /\ drops' >= drops
        /\ \A r \in Runs : receipts'[r] >= receipts[r]
    BY <1>4, AgentsAssumption DEF AgentsAssumption, Record, Types, TypeOK
  <2>3. Types'
    BY <2>1, <2>2 DEF sessionVars, Types, TypeOK
  <2> QED
    BY <2>1, <2>2, <2>3, NothingChanges DEF sessionVars, Types, TypeOK
<1>5. CASE UNCHANGED vars
  <2>1. Types'
    BY <1>5 DEF vars, sessionVars, branch, bounds, Types, TypeOK
  <2> QED
    BY <1>5, <2>1, NothingChanges DEF vars, sessionVars, branch, bounds, Types, TypeOK
<1> QED
  BY <1>1, <1>2, <1>3, <1>4, <1>5

(* The leaf that is noted shows what the branch shows.                        *)
LEMMA Remembered ==
  ASSUME AgentsInv, Remember
  PROVE  AgentsInv'
<1> USE DEF AgentsInv
<1>1. /\ UNCHANGED <<sessionVars, mem, branch, queue, sups, child, leases, strays, bounds>>
      /\ point'.saved = saved /\ point'.receipts = receipts /\ point'.read = read
  BY DEF Remember, Branch
<1>2. Types'
  BY <1>1 DEF sessionVars, branch, bounds, Types, TypeOK, Entry
<1>3. Awaits' /\ Owners' /\ MemIsSaved' /\ CheckingIsWatched' /\ RunningIsWatched'
  BY <1>1 DEF sessionVars, branch, Awaits, Owners, MemIsSaved, CheckingIsWatched,
              RunningIsWatched, Known
<1>4. /\ Shown(saved, receipts, read)' /\ Shown(point.saved, point.receipts, point.read)'
      /\ Checked(saved)' /\ Checked(point.saved)'
  BY <1>1 DEF branch, Shown, Checked
<1>5. IdleHasAll'
  BY <1>1 DEF sessionVars, bounds, IdleHasAll, Unread, Terminal
<1>6. Begun' /\ Judged'
  BY <1>1 DEF branch, Begun, Judged
<1> QED
  BY <1>2, <1>3, <1>4, <1>5, <1>6

(* A change of one run that an entry records at once, with the promises of    *)
(* the other runs left alone.                                              *)
LEMMA PersistDoes ==
  ASSUME AgentsInv, NEW r \in Runs, NEW run \in Run, Persist(r, run)
  PROVE  /\ mem' \in [Runs -> Entry] /\ saved' \in [Runs -> Entry]
         /\ mem'[r] = run /\ Agrees(run, saved'[r]) /\ mem'[r] # Absent
         /\ \A q \in Runs \ {r} : mem'[q] = mem[q] /\ saved'[q] = saved[q]
         /\ UNCHANGED <<queue, idle, drops>>
<1>1. mem \in [Runs -> Entry] /\ saved \in [Runs -> Entry]
  BY DEF AgentsInv, Types, TypeOK, Entry
<1>2. Snapshot(run) \in Run /\ Agrees(run, Snapshot(run)) /\ run # Absent
  BY SnapshotIs, AbsentAssumption DEF AbsentAssumption
<1> QED
  BY <1>1, <1>2 DEF Persist, Entry

(* Such a change keeps the invariant if a promise works for the run.          *)
LEMMA PersistKeeps ==
  ASSUME AgentsInv, NEW r \in Runs, NEW run \in Run, Persist(r, run), Types',
         up, restoring' = restoring, up' = up, visiting' = visiting, receipts' = receipts,
         read' = read, point' = point,
         todo \subseteq todo', todo' \subseteq todo \cup {r},
         restoring = "no" => todo' = {}, visiting \notin todo',
         run.delivery = "none",
         run.checking => run.status # "running",
         \A s : s.run # r => (s \in sups <=> s \in sups'),
         \A s \in sups' : s.owned /\ s.run = r => \E t \in sups' : t.run = r /\ t.owned,
         \E t \in sups' : t.run = r /\ t.owned,
         run.checking => \E s \in sups' : /\ s.run = r /\ s.owned
                                          /\ s.stage \in {"marking", "verifying"},
         child'[r] # "none", \A q \in Runs : child'[q] = "none" => child[q] = "none",
         \A s \in sups' : s.run = r /\ s.owned /\ s.stage \in {"marking", "verifying"}
                          => run.status # "running"
  PROVE  AgentsInv'
<1> USE DEF AgentsInv
<1>0. /\ mem' \in [Runs -> Entry] /\ saved' \in [Runs -> Entry]
      /\ mem'[r] = run /\ Agrees(run, saved'[r]) /\ mem'[r] # Absent
      /\ \A q \in Runs \ {r} : mem'[q] = mem[q] /\ saved'[q] = saved[q]
      /\ UNCHANGED <<queue, idle, drops>>
  BY PersistDoes
<1>1. Awaits'
  <2>1. \A q \in todo' : Known(q)'
    BY <1>0 DEF Awaits, Known, Types, TypeOK
  <2>2. visiting # Absent => Known(visiting)'
    BY <1>0 DEF Awaits, Known, Types, TypeOK
  <2> QED
    BY <2>1, <2>2 DEF Awaits
<1>2. Owners' /\ MemIsSaved'
  <2>1. Owners'
    BY <1>0 DEF Owners, Known, Types, TypeOK, Supervisor
  <2> QED
    BY <1>0, <2>1 DEF MemIsSaved
<1>3. CheckingIsWatched'
  BY <1>0 DEF CheckingIsWatched, Known
<1>4. RunningIsWatched'
  BY <1>0 DEF RunningIsWatched, Known
<1>5. Shown(saved, receipts, read)' /\ Shown(point.saved, point.receipts, point.read)'
  BY <1>0 DEF Shown, Agrees
<1>6. Checked(saved)' /\ Checked(point.saved)'
  BY <1>0 DEF Checked, Agrees
<1>7. IdleHasAll'
  <2> SUFFICES ASSUME up', idle', restoring' = "no", drops' = 0,
                      NEW q \in Runs, Unread(mem, q)', ~mem'[q].queued
               PROVE  mem'[q].status = "complete" /\ \E s \in sups' : s.owned
    BY DEF IdleHasAll
  <2>1. q # r
    BY <1>0 DEF Unread
  <2>2. Unread(mem, q) /\ ~mem[q].queued
    BY <1>0, <2>1 DEF Unread, Terminal
  <2>3. mem[q].status = "complete"
    BY <1>0, <2>2 DEF IdleHasAll
  <2> QED
    BY <1>0, <2>1, <2>3
<1>8. Begun' /\ Judged'
  <2>1. Begun'
    BY <1>0 DEF Begun
  <2>2. Judged'
    BY <1>0 DEF Judged, Types, TypeOK, Supervisor
  <2> QED
    BY <2>1, <2>2
<1> QED
  BY <1>1, <1>2, <1>3, <1>4, <1>5, <1>6, <1>7, <1>8

(* A run begins, with its promise.                                            *)
LEMMA Started ==
  ASSUME AgentsInv, NEW r \in Runs, Start(r)
  PROVE  AgentsInv'
<1> DEFINE new == [run |-> r, how |-> "run", owned |-> TRUE, stage |-> "starting"]
<1>1. /\ up /\ ~idle /\ sups' = sups \cup {new}
      /\ child' = [child EXCEPT ![r] = "launching"]
      /\ leases' = leases \cup {r} /\ strays' = strays
      /\ Persist(r, NewRun) /\ todo' = IF restoring = "no" THEN {} ELSE todo \cup {r}
      /\ UNCHANGED <<up, restoring, visiting, receipts, read, point, changes>>
  BY DEF Start
<1>2. new \in Supervisor
  BY DEF Supervisor
<1>3. Types'
  <2>1. mem' \in [Runs -> Entry] /\ saved' \in [Runs -> Entry] /\ UNCHANGED <<queue, idle, drops>>
    BY <1>1, NewRunIs, PersistDoes
  <2>2. child' \in [Runs -> {"none", "launching"} \cup Live \cup Ended]
    BY <1>1 DEF AgentsInv, Types, TypeOK
  <2>3. todo' \subseteq Runs
    BY <1>1 DEF AgentsInv, Types, TypeOK
  <2> QED
    BY <1>1, <1>2, <2>1, <2>2, <2>3 DEF AgentsInv, Types, TypeOK, Entry
<1>4. restoring = "no" => todo = {}
  BY DEF AgentsInv, Awaits
<1>5. todo \subseteq todo' /\ todo' \subseteq todo \cup {r} /\ (restoring = "no" => todo' = {})
  BY <1>1, <1>4
<1>6. new \in sups' /\ new.run = r /\ new.owned
  BY <1>1
<1>7. \A s : s.run # r => (s \in sups <=> s \in sups')
  BY <1>1, <1>6
<1>8. /\ child'[r] # "none" /\ \A q \in Runs : child'[q] = "none" => child[q] = "none"
      /\ \A s \in sups' : s.run = r => s = new
  <2>1. child[r] = "none"
    BY DEF Start
  <2> QED
    BY <1>1, <2>1 DEF AgentsInv, Begun, Types, TypeOK
<1>9. new.stage = "starting"
  OBVIOUS
<1>10. visiting \notin todo'
  <2>1. mem[r] = Absent
    BY <1>1 DEF Start, AgentsInv, Begun, MemIsSaved, Agrees
  <2> QED
    BY <1>1, <2>1, AbsentAssumption DEF AbsentAssumption, AgentsInv, Awaits, Known, Types, TypeOK
<1> HIDE DEF new
<1> QED
  BY <1>1, <1>3, <1>5, <1>6, <1>7, <1>8, <1>9, <1>10, NewRunIs, PersistKeeps

(* The child is there, or is told to abort at once.                           *)
LEMMA Spawned ==
  ASSUME AgentsInv, NEW s \in sups, Spawn(s)
  PROVE  AgentsInv'
<1> DEFINE t == [s EXCEPT !.stage = "watching"]
           r == s.run
           run == [mem[r] EXCEPT !.spawned = TRUE]
<1>1. /\ s.stage = "starting" /\ sups' = (sups \ {s}) \cup {t}
      /\ UNCHANGED <<up, restoring, todo, visiting, receipts, read, leases, strays, point, changes>>
  BY DEF Spawn, At
<1>2. /\ s \in Supervisor /\ r \in Runs
      /\ t \in Supervisor /\ t.run = s.run /\ t.owned = s.owned /\ t.stage = "watching"
  BY DEF AgentsInv, Types, TypeOK, Supervisor
<1>3. \A q \in Runs : (\E u \in sups : u.run = q /\ u.owned) => \E u \in sups' : u.run = q /\ u.owned
  BY <1>1, <1>2
<1>4. \A q \in Runs : (\E u \in sups : /\ u.run = q /\ u.owned
                                       /\ u.stage \in {"marking", "verifying"})
                      => (\E u \in sups' : /\ u.run = q /\ u.owned
                                           /\ u.stage \in {"marking", "verifying"})
  BY <1>1, <1>2
<1>5. CASE s.owned /\ ~mem[r].cancel
  <2>1. Persist(r, run) /\ child' = [child EXCEPT ![r] = "alive"]
    BY <1>5 DEF Spawn
  <2>2. mem[r] \in Run /\ mem[r] # Absent /\ up
    BY <1>2, <1>5 DEF AgentsInv, Owners, Known, Types, TypeOK
  <2>3. /\ run \in Run /\ run.status = mem[r].status /\ run.delivery = mem[r].delivery
        /\ run.checking = mem[r].checking /\ run.queued = mem[r].queued
    BY <2>2 DEF Run
  <2> HIDE DEF run
  <2>4. /\ mem' \in [Runs -> Entry] /\ saved' \in [Runs -> Entry]
        /\ mem'[r] = run /\ Agrees(run, saved'[r]) /\ mem'[r] # Absent
        /\ \A q \in Runs \ {r} : mem'[q] = mem[q] /\ saved'[q] = saved[q]
        /\ UNCHANGED <<queue, idle, drops>>
    BY <1>2, <2>1, <2>3, PersistDoes
  <2>5. Types'
    <3>1. child' \in [Runs -> {"none", "launching"} \cup Live \cup Ended]
      BY <2>1 DEF AgentsInv, Types, TypeOK, Live
    <3> QED
      BY <1>1, <1>2, <2>4, <3>1 DEF AgentsInv, Types, TypeOK, Entry
  <2> USE DEF AgentsInv
  <2>6. Awaits'
    <3>1. \A q \in Runs : Known(q) => Known(q)'
      BY <2>4 DEF Known
    <3>2. todo \subseteq Runs /\ visiting \in Runs \cup {Absent}
      BY DEF Types, TypeOK
    <3> QED
      BY <1>1, <2>2, <3>1, <3>2 DEF Awaits
  <2>7. Owners'
    BY <1>1, <1>2, <2>2, <2>4 DEF Owners, Known, Types, TypeOK, Supervisor
  <2>8. MemIsSaved'
    BY <1>1, <2>2, <2>4 DEF MemIsSaved
  <2>9. CheckingIsWatched' /\ RunningIsWatched'
    BY <1>1, <1>2, <1>3, <1>4, <2>2, <2>3, <2>4 DEF CheckingIsWatched, RunningIsWatched, Known
  <2>10. /\ Shown(saved, receipts, read)' /\ Shown(point.saved, point.receipts, point.read)'
         /\ Checked(saved)' /\ Checked(point.saved)'
    <3>1. Agrees(mem[r], saved[r])
      BY <1>2, <2>2 DEF MemIsSaved
    <3> QED
      BY <1>1, <2>2, <2>3, <2>4, <3>1 DEF Shown, Checked, Agrees
  <2>11. IdleHasAll'
    <3>1. \A q \in Runs : Unread(mem, q)' /\ ~mem'[q].queued => Unread(mem, q) /\ ~mem[q].queued
      BY <2>2, <2>3, <2>4 DEF Unread, Terminal
    <3>2. \A q \in Runs : mem[q] # Absent => mem'[q].status = mem[q].status
      BY <2>2, <2>3, <2>4
    <3> QED
      BY <1>1, <1>2, <2>4, <3>1, <3>2 DEF IdleHasAll, Unread, Terminal
  <2>12. Begun'
    BY ZenonT(60), <1>1, <1>2, <2>1, <2>4 DEF Begun, Types, TypeOK
  <2>13. Judged'
    BY <1>1, <1>2, <2>3, <2>4 DEF Judged, Types, TypeOK, Supervisor
  <2> QED
    BY <2>5, <2>6, <2>7, <2>8, <2>9, <2>10, <2>11, <2>12, <2>13
<1>6. CASE ~(s.owned /\ ~mem[r].cancel)
  <2>1. UNCHANGED <<mem, saved, queue, idle, drops>> /\ child' = [child EXCEPT ![r] = "aborting"]
    BY <1>6 DEF Spawn
  <2>2. Types'
    <3>1. child' \in [Runs -> {"none", "launching"} \cup Live \cup Ended]
      BY <2>1 DEF AgentsInv, Types, TypeOK, Live
    <3> QED
      BY <1>1, <1>2, <2>1, <3>1 DEF AgentsInv, Types, TypeOK
  <2> USE DEF AgentsInv
  <2>3. Awaits' /\ MemIsSaved'
    BY <1>1, <2>1 DEF Awaits, MemIsSaved, Known
  <2>4. Owners'
    BY <1>1, <1>2, <2>1 DEF Owners, Known
  <2>5. CheckingIsWatched' /\ RunningIsWatched'
    BY <1>1, <1>3, <1>4, <2>1 DEF CheckingIsWatched, RunningIsWatched, Known
  <2>6. /\ Shown(saved, receipts, read)' /\ Shown(point.saved, point.receipts, point.read)'
        /\ Checked(saved)' /\ Checked(point.saved)'
    BY <1>1, <2>1 DEF Shown, Checked
  <2>7. IdleHasAll'
    BY <1>1, <1>2, <2>1 DEF IdleHasAll, Unread, Terminal
  <2>8. Begun' /\ Judged'
    BY <1>1, <1>2, <2>1 DEF Begun, Judged, Types, TypeOK
  <2> QED
    BY <2>2, <2>3, <2>4, <2>5, <2>6, <2>7, <2>8
<1> QED
  BY <1>5, <1>6

(* Delivering the results of the runs m, whose entries are sv, when every run  *)
(* under way or verified is watched.                                        *)
LEMMA DeliverKeeps ==
  ASSUME AgentsInv, up, NEW m \in [Runs -> Entry], NEW sv \in [Runs -> Entry],
         NEW atRest \in BOOLEAN, Deliver(m, sv, atRest),
         \A r \in Runs : Agrees(m[r], sv[r]) /\ (m[r] = Absent <=> mem[r] = Absent),
         UNCHANGED <<up, todo, visiting, receipts, read, child, point, changes>>,
         restoring' \in {"no", restoring}, restoring' = "no" => todo = {} /\ visiting = Absent,
         sups' \subseteq sups, leases' \subseteq Runs, strays' \subseteq Runs,
         \A s \in sups' : s.owned => m[s.run] # Absent,
         \A s \in sups' : s.owned /\ s.stage \in {"marking", "verifying"}
                          => m[s.run].status # "running",
         \A r \in Runs : m[r] # Absent /\ m[r].status = "running" /\ r \notin todo \cup {visiting}
                         => \E s \in sups' : s.run = r /\ s.owned,
         \A r \in Runs : m[r] # Absent /\ m[r].checking /\ r \notin todo
                         => \E s \in sups' : /\ s.run = r /\ s.owned
                                             /\ s.stage \in {"marking", "verifying"},
         Shown(m, receipts, read), Checked(m)
  PROVE  AgentsInv'
<1> USE DEF AgentsInv
<1>1. /\ Kept(m, mem') /\ saved' \in [Runs -> Entry]
      /\ \A r \in Runs : Agrees(mem'[r], saved'[r])
      /\ idle' \in BOOLEAN /\ drops' \in 0 .. MaxDrops
      /\ idle' => atRest
      /\ queue' \subseteq Runs
      /\ atRest /\ idle' /\ drops' = 0 => SentAll(m, mem')
  <2>1. receipts \in [Runs -> Nat] /\ queue \subseteq Runs /\ drops \in 0 .. MaxDrops
    BY DEF Types, TypeOK
  <2>2. \A r \in Runs : Agrees(m[r], sv[r])
    OBVIOUS
  <2> QED
    BY <2>1, <2>2, DeliverDoes
<1>2. /\ mem' \in [Runs -> Entry]
      /\ \A r \in Runs : mem'[r] = Absent <=> m[r] = Absent
      /\ \A r \in Runs : m[r] # Absent =>
            /\ mem'[r].status = m[r].status /\ mem'[r].checking = m[r].checking
            /\ mem'[r].delivery = m[r].delivery \/ receipts[r] > 0
  BY <1>1 DEF Kept
<1>3. Types'
  BY <1>1, <1>2 DEF Types, TypeOK, Entry
<1>4. Awaits'
  <2>1. \A r \in Runs : Known(r) => Known(r)'
    BY <1>2 DEF Known
  <2>2. todo \subseteq Runs /\ visiting \in Runs \cup {Absent}
    BY DEF Types, TypeOK
  <2> QED
    BY <2>1, <2>2 DEF Awaits
<1>5. Owners' /\ MemIsSaved'
  BY <1>1, <1>2 DEF Owners, MemIsSaved, Known, Supervisor, Types, TypeOK
<1>6. CheckingIsWatched' /\ RunningIsWatched'
  BY <1>2 DEF CheckingIsWatched, RunningIsWatched, Known
<1>7. Shown(saved, receipts, read)'
  BY <1>1, <1>2 DEF Shown, Agrees
<1>8. Checked(saved)'
  BY <1>1, <1>2 DEF Checked, Agrees
<1>9. Shown(point.saved, point.receipts, point.read)' /\ Checked(point.saved)'
  OBVIOUS
<1>10. IdleHasAll'
  <2> SUFFICES ASSUME idle', restoring' = "no", drops' = 0,
                      NEW r \in Runs, Unread(mem, r)', ~mem'[r].queued
               PROVE  mem'[r].status = "complete" /\ \E s \in sups' : s.owned
    BY DEF IdleHasAll
  <2>1. Unread(mem', r) /\ SentAll(m, mem')
    BY <1>1 DEF Unread, Terminal
  <2>2. mem'[r].status = "complete" /\ SiblingRuns(m)
    BY <2>1 DEF SentAll
  <2>3. PICK q \in Runs : m[q] # Absent /\ (m[q].status = "running" \/ m[q].checking)
    BY <2>2 DEF SiblingRuns
  <2>4. q \notin todo \cup {visiting}
    BY AbsentAssumption DEF AbsentAssumption
  <2> QED
    BY <2>2, <2>3, <2>4
<1>11. Begun'
  BY <1>1, <1>2 DEF Begun, MemIsSaved, Agrees
<1>12. Judged'
  BY <1>2 DEF Judged, Types, TypeOK, Supervisor
<1> QED
  BY <1>3, <1>4, <1>5, <1>6, <1>7, <1>8, <1>9, <1>10, <1>11, <1>12

(* The end of finish(): whatever it reports of its run, the promise is over   *)
(* and the results known are delivered.                                    *)
LEMMA ReportKeeps ==
  ASSUME AgentsInv, NEW s \in sups, s.owned, NEW run \in Run, Report(s, run),
         run.status # "running",
         UNCHANGED <<up, restoring, todo, visiting, receipts, read, child, point, changes>>
  PROVE  AgentsInv'
<1> DEFINE r == s.run
           m == [mem EXCEPT ![r] = Reported(run)]
           sv == [saved EXCEPT ![r] = Snapshot(Reported(run))]
<1> USE DEF AgentsInv
<1>1. r \in Runs /\ up /\ mem[r] # Absent
  BY DEF Owners, Known, Types, TypeOK, Supervisor
<1>2. /\ Reported(run) \in Run /\ Reported(run) # Absent
      /\ Reported(run).status # "running" /\ ~Reported(run).checking
      /\ Reported(run).delivery = "pending"
  BY ReportedIs, AbsentAssumption DEF AbsentAssumption
<1>3. Snapshot(Reported(run)) \in Run /\ Agrees(Reported(run), Snapshot(Reported(run)))
  BY <1>2, SnapshotIs
<1>4. /\ m \in [Runs -> Entry] /\ sv \in [Runs -> Entry]
      /\ m[r] = Reported(run) /\ sv[r] = Snapshot(Reported(run))
      /\ \A q \in Runs \ {r} : m[q] = mem[q] /\ sv[q] = saved[q]
  BY <1>1, <1>2, <1>3 DEF Types, TypeOK, Entry
<1>5. /\ Deliver(m, sv, idle) /\ sups' = sups \ {s} /\ leases' \subseteq leases
      /\ idle \in BOOLEAN /\ strays' \subseteq strays \cup {r}
  BY DEF Report, Ends, Types, TypeOK
<1> HIDE DEF m, sv
<1>6. \A q \in Runs : Agrees(m[q], sv[q]) /\ (m[q] = Absent <=> mem[q] = Absent)
  <2>1. \A q \in Runs : Agrees(mem[q], saved[q])
    BY <1>1 DEF MemIsSaved
  <2> QED
    BY <1>1, <1>2, <1>3, <1>4, <2>1
<1>7. \A q \in Runs : m[q] # Absent /\ m[q].status = "running" /\ q \notin todo \cup {visiting}
                      => \E t \in sups' : t.run = q /\ t.owned
  BY <1>2, <1>4, <1>5 DEF RunningIsWatched, Known
<1>8. \A q \in Runs : m[q] # Absent /\ m[q].checking /\ q \notin todo
                      => \E t \in sups' : /\ t.run = q /\ t.owned
                                          /\ t.stage \in {"marking", "verifying"}
  BY <1>2, <1>4, <1>5 DEF CheckingIsWatched, Known
<1>9. Shown(m, receipts, read) /\ Checked(m)
  <2>1. \A q \in Runs : Agrees(mem[q], saved[q])
    BY <1>1 DEF MemIsSaved
  <2> QED
    BY <1>2, <1>4, <2>1 DEF Shown, Checked, Agrees
<1>10. /\ sups' \subseteq sups /\ leases' \subseteq Runs /\ strays' \subseteq Runs
       /\ \A t \in sups' : t.owned => m[t.run] # Absent
  BY <1>1, <1>5, <1>6 DEF Types, TypeOK, Owners, Known, Supervisor
<1>11. restoring = "no" => todo = {} /\ visiting = Absent
  BY DEF Awaits
<1>12. \A t \in sups' : t.owned /\ t.stage \in {"marking", "verifying"}
                          => m[t.run].status # "running"
  BY <1>2, <1>4, <1>5 DEF Judged, Types, TypeOK, Supervisor
<1> QED
  BY <1>1, <1>4, <1>5, <1>6, <1>7, <1>8, <1>9, <1>10, <1>11, <1>12, DeliverKeeps

(* The outcome is recorded, marked, verified and reported.                    *)
LEMMA Finished ==
  ASSUME AgentsInv, NEW s \in sups,
         Finish(s) \/ Marked(s) \/ Verified(s)
  PROVE  AgentsInv'
<1> DEFINE r == s.run
           ends == [mem[r] EXCEPT !.status = child[r], !.delivery = "none", !.queued = FALSE,
                                  !.checking = IF r \in Worktree /\ child[r] = "complete"
                                               THEN TRUE ELSE @]
<1> USE DEF AgentsInv
<1>1. s.owned /\ s \in Supervisor /\ r \in Runs /\ up /\ mem[r] \in Run /\ mem[r] # Absent
  BY DEF Finish, Marked, Verified, Owners, Known, Types, TypeOK, Supervisor
<1>2. UNCHANGED <<up, restoring, todo, visiting, receipts, read, child, point, changes>>
  BY DEF Finish, Marked, Verified
<1>3. CASE Finish(s)
  <2>1. /\ child[r] \in Ended
        /\ \/ /\ sups' = (sups \ {s}) \cup {[s EXCEPT !.stage = "marking"]}
              /\ Persist(r, ends) /\ UNCHANGED <<leases, strays>>
           \/ Report(s, ends)
    BY <1>3 DEF Finish
  <2>2. ends \in Run /\ ends.status = child[r] /\ ends.delivery = "none"
    BY <1>1, <2>1 DEF Run, Ended, Statuses
  <2> HIDE DEF ends
  <2>3. ends.status # "running"
    BY <2>1, <2>2 DEF Ended
  <2>4. CASE Report(s, ends)
    BY <1>1, <1>2, <2>2, <2>3, <2>4, ReportKeeps
  <2>5. CASE /\ sups' = (sups \ {s}) \cup {[s EXCEPT !.stage = "marking"]}
             /\ Persist(r, ends) /\ UNCHANGED <<leases, strays>>
    <3> DEFINE t == [s EXCEPT !.stage = "marking"]
    <3>1. /\ t \in Supervisor /\ t.run = r /\ t.owned /\ t.stage = "marking" /\ t \in sups'
      BY <1>1, <2>5 DEF Supervisor
    <3>2. /\ mem' \in [Runs -> Entry] /\ saved' \in [Runs -> Entry]
          /\ UNCHANGED <<queue, idle, drops>>
      BY <1>1, <2>2, <2>5, PersistDoes
    <3>3. Types'
      BY <1>2, <2>5, <3>1, <3>2 DEF Types, TypeOK, Entry
    <3>4. \A u : u.run # r => (u \in sups <=> u \in sups')
      BY <2>5, <3>1
    <3>5. child'[r] # "none"
      BY <1>2, <2>1 DEF Ended
    <3>6. (restoring = "no" => todo = {}) /\ visiting \notin todo
      BY AbsentAssumption DEF AbsentAssumption, Awaits, Types, TypeOK
    <3> HIDE DEF t
    <3> QED
      BY <1>1, <1>2, <2>2, <2>3, <2>5, <3>1, <3>3, <3>4, <3>5, <3>6, PersistKeeps
  <2> QED
    BY <2>1, <2>4, <2>5
<1>4. ASSUME s.stage \in {"marking", "verifying"}, Report(s, mem[r])
      PROVE  AgentsInv'
  <2>1. mem[r].status # "running"
    BY <1>1, <1>4 DEF Judged
  <2> QED
    BY <1>1, <1>2, <1>4, <2>1, ReportKeeps
<1>5. CASE Verified(s)
  BY <1>4, <1>5 DEF Verified, At
<1>6. CASE Marked(s)
  <2> DEFINE t == [s EXCEPT !.stage = "verifying"]
  <2>1. s.stage = "marking"
    BY <1>6 DEF Marked, At
  <2>2. CASE Report(s, mem[r])
    BY <1>4, <2>1, <2>2
  <2>3. CASE /\ mem[r].status = "complete" /\ sups' = (sups \ {s}) \cup {t}
             /\ UNCHANGED <<mem, saved, queue, idle, drops, leases, strays>>
    <3>1. /\ t \in Supervisor /\ t.run = r /\ t.owned /\ t.stage = "verifying" /\ t \in sups'
      BY <1>1, <2>3 DEF Supervisor
    <3> HIDE DEF t
    <3>2. Types'
      BY <1>2, <2>3, <3>1 DEF Types, TypeOK
    <3>3. Awaits' /\ MemIsSaved'
      BY <1>2, <2>3 DEF Awaits, MemIsSaved, Known
    <3>4. Owners' /\ Judged' /\ Begun'
      BY <1>1, <1>2, <2>3, <3>1 DEF Owners, Judged, Begun, Known
    <3>5. CheckingIsWatched' /\ RunningIsWatched'
      BY <1>2, <2>3, <3>1 DEF CheckingIsWatched, RunningIsWatched, Known
    <3>6. /\ Shown(saved, receipts, read)' /\ Shown(point.saved, point.receipts, point.read)'
          /\ Checked(saved)' /\ Checked(point.saved)'
      BY <1>2, <2>3 DEF Shown, Checked
    <3>7. IdleHasAll'
      BY <1>2, <2>3, <3>1 DEF IdleHasAll, Unread, Terminal
    <3> QED
      BY <3>2, <3>3, <3>4, <3>5, <3>6, <3>7
  <2> QED
    BY <1>6, <2>2, <2>3 DEF Marked
<1> QED
  BY <1>3, <1>5, <1>6

(* A restore ends with a delivery.                                            *)
LEMMA RestoreEnded ==
  ASSUME AgentsInv, RestoreEnds
  PROVE  AgentsInv'
<1> USE DEF AgentsInv
<1>1. /\ restoring # "no" /\ visiting = Absent /\ todo = {} /\ restoring' = "no"
      /\ Deliver(mem, saved, idle)
      /\ UNCHANGED <<up, todo, visiting, receipts, read, sups, child, leases, strays, point, changes>>
  BY DEF RestoreEnds, InLoop
<1>2. up /\ idle \in BOOLEAN /\ mem \in [Runs -> Entry] /\ saved \in [Runs -> Entry]
  BY <1>1 DEF Awaits, Types, TypeOK, Entry
<1>3. \A r \in Runs : Agrees(mem[r], saved[r]) /\ (mem[r] = Absent <=> mem[r] = Absent)
  BY <1>2 DEF MemIsSaved
<1>4. Shown(mem, receipts, read) /\ Checked(mem)
  BY <1>3 DEF Shown, Checked, Agrees
<1>5. /\ sups' \subseteq sups /\ leases' \subseteq Runs /\ strays' \subseteq Runs
      /\ \A s \in sups' : s.owned => mem[s.run] # Absent
      /\ \A s \in sups' : s.owned /\ s.stage \in {"marking", "verifying"}
                          => mem[s.run].status # "running"
  BY <1>1 DEF Owners, Judged, Known, Types, TypeOK
<1>6. /\ \A r \in Runs : mem[r] # Absent /\ mem[r].status = "running" /\ r \notin todo \cup {visiting}
                         => \E s \in sups' : s.run = r /\ s.owned
      /\ \A r \in Runs : mem[r] # Absent /\ mem[r].checking /\ r \notin todo
                         => \E s \in sups' : /\ s.run = r /\ s.owned
                                             /\ s.stage \in {"marking", "verifying"}
  BY <1>1 DEF RunningIsWatched, CheckingIsWatched, Known
<1> QED
  BY <1>1, <1>2, <1>3, <1>4, <1>5, <1>6, DeliverKeeps

(* A batch that was not put on the branch may be sent again.                 *)
Unqueued(m) == [r \in Runs |-> IF Unread(m, r) THEN [m[r] EXCEPT !.queued = FALSE] ELSE m[r]]

(* Unread runs may be sent again; nothing else changes.                       *)
LEMMA UnqueuedDoes ==
  ASSUME NEW m \in [Runs -> Entry]
  PROVE  /\ Unqueued(m) \in [Runs -> Entry]
         /\ \A r \in Runs :
              /\ Unqueued(m)[r] = Absent <=> m[r] = Absent
              /\ m[r] # Absent => /\ Unqueued(m)[r].status = m[r].status
                                  /\ Unqueued(m)[r].delivery = m[r].delivery
                                  /\ Unqueued(m)[r].checking = m[r].checking
                                  /\ Unqueued(m)[r].spawned = m[r].spawned
<1>1. ASSUME NEW run \in Run
      PROVE  LET new == [run EXCEPT !.queued = FALSE]
             IN /\ new \in Run /\ new # Absent /\ new.status = run.status
                /\ new.delivery = run.delivery /\ new.checking = run.checking
                /\ new.spawned = run.spawned
  <2> DEFINE new == [run EXCEPT !.queued = FALSE]
  <2>1. new \in Run
    BY DEF Run
  <2>2. new # Absent
    BY <2>1, AbsentAssumption DEF AbsentAssumption
  <2>3. /\ new.status = run.status /\ new.delivery = run.delivery
        /\ new.checking = run.checking /\ new.spawned = run.spawned
    BY DEF Run
  <2> HIDE DEF new
  <2> QED
    BY <2>1, <2>2, <2>3 DEF new
<1>2. \A r \in Runs : Unread(m, r) => m[r] \in Run
  BY DEF Unread, Terminal, Entry
<1>3. \A r \in Runs : Unqueued(m)[r] =
        IF Unread(m, r) THEN [m[r] EXCEPT !.queued = FALSE] ELSE m[r]
  BY DEF Unqueued
<1>4. ASSUME NEW r \in Runs
      PROVE  Unqueued(m)[r] \in Entry
  BY <1>1, <1>2, <1>3 DEF Entry
<1>5. Unqueued(m) \in [Runs -> Entry]
  BY <1>4 DEF Unqueued
<1>6. \A r \in Runs : Unread(m, r) => m[r] # Absent
  BY DEF Unread, Terminal
<1> QED
  BY ZenonT(30), <1>1, <1>2, <1>3, <1>5, <1>6

(* The turn is over: what the branch shows is acknowledged, the rest sent again. *)
LEMMA SettledKeeps ==
  ASSUME AgentsInv, Settled
  PROVE  AgentsInv'
<1> DEFINE seen == {r \in Runs : Unread(mem, r) /\ CompletionPresent(r)}
           m0 == Unqueued(mem)
           m == Consume(m0, seen)
           sv == Consume(saved, seen)
<1> USE DEF AgentsInv
<1>1. /\ up /\ ~idle /\ Deliver(m, sv, TRUE) /\ ~InLoop
      /\ UNCHANGED <<up, restoring, todo, visiting, receipts, read, sups, child, leases, strays,
                     point, changes>>
  BY DEF Settled, Unqueued
<1>2. mem \in [Runs -> Entry] /\ saved \in [Runs -> Entry]
  BY DEF Types, TypeOK, Entry
<1>3. \A r \in Runs : Agrees(mem[r], saved[r])
  BY <1>1 DEF MemIsSaved
<1>4. /\ m0 \in [Runs -> Entry]
      /\ \A r \in Runs :
           /\ m0[r] = Absent <=> mem[r] = Absent
           /\ mem[r] # Absent => /\ m0[r].status = mem[r].status
                                 /\ m0[r].delivery = mem[r].delivery
                                 /\ m0[r].checking = mem[r].checking
                                 /\ m0[r].spawned = mem[r].spawned
  BY <1>2, UnqueuedDoes
<1>5. /\ seen \subseteq Runs
      /\ \A r \in Runs : r \in seen => /\ mem[r] # Absent /\ m0[r] # Absent /\ saved[r] # Absent
                                       /\ receipts[r] > 0
  BY <1>3, <1>4 DEF Unread, Terminal, CompletionPresent, Agrees
<1> HIDE DEF m0, seen
<1>6. \A r \in Runs : Agrees(m0[r], saved[r])
  BY <1>3, <1>4 DEF Agrees
<1>7. /\ m \in [Runs -> Entry]
      /\ \A r \in Runs :
           /\ r \notin seen => m[r] = m0[r]
           /\ r \in seen => /\ m[r] # Absent /\ m[r].status = m0[r].status
                            /\ m[r].delivery = "delivered" /\ m[r].checking = m0[r].checking
  BY <1>4, <1>5, ConsumeDoes
<1>8. sv \in [Runs -> Entry] /\ \A r \in Runs : Agrees(m[r], sv[r])
  BY <1>2, <1>4, <1>5, <1>6, ConsumeDoes, ConsumeAgrees
<1> HIDE DEF m, sv
<1>9. \A r \in Runs : /\ m[r] = Absent <=> mem[r] = Absent
                      /\ m[r] # Absent => /\ m[r].status = mem[r].status
                                          /\ m[r].checking = mem[r].checking
                                          /\ m[r].delivery = mem[r].delivery \/ receipts[r] > 0
  BY <1>4, <1>5, <1>7
<1>10. Shown(m, receipts, read) /\ Checked(m)
  BY <1>3, <1>9 DEF Shown, Checked, Agrees
<1>11. /\ sups' \subseteq sups /\ leases' \subseteq Runs /\ strays' \subseteq Runs
       /\ \A s \in sups' : s.owned => m[s.run] # Absent
       /\ \A s \in sups' : s.owned /\ s.stage \in {"marking", "verifying"}
                           => m[s.run].status # "running"
  BY <1>1, <1>9 DEF Owners, Judged, Known, Types, TypeOK, Supervisor
<1>12. /\ \A r \in Runs : m[r] # Absent /\ m[r].status = "running" /\ r \notin todo \cup {visiting}
                          => \E s \in sups' : s.run = r /\ s.owned
       /\ \A r \in Runs : m[r] # Absent /\ m[r].checking /\ r \notin todo
                          => \E s \in sups' : /\ s.run = r /\ s.owned
                                              /\ s.stage \in {"marking", "verifying"}
  BY <1>1, <1>9 DEF RunningIsWatched, CheckingIsWatched, Known
<1>13. restoring' = "no" => todo = {} /\ visiting = Absent
  BY <1>1 DEF Awaits
<1>14. \A r \in Runs : Agrees(m[r], sv[r]) /\ (m[r] = Absent <=> mem[r] = Absent)
  BY <1>8, <1>9
<1>15. /\ TRUE \in BOOLEAN /\ restoring' \in {"no", restoring} /\ m \in [Runs -> Entry]
       /\ sv \in [Runs -> Entry]
  BY <1>1, <1>7, <1>8
<1> HIDE DEF AgentsInv
<1> QED
  BY <1>1, <1>10, <1>11, <1>12, <1>13, <1>14, <1>15, DeliverKeeps

------------------------------------------------------------------------------
(* What a child that is told to abort was before.                            *)
LEMMA AbortDoes ==
  ASSUME AgentsInv, NEW S, Abort(S)
  PROVE  /\ child' \in [Runs -> {"none", "launching"} \cup Live \cup Ended]
         /\ \A r \in Runs : /\ child'[r] = "none" => child[r] = "none"
                            /\ child'[r] = child[r] \/ (child[r] = "alive" /\ child'[r] = "aborting")
  BY DEF AgentsInv, Types, TypeOK, Abort, Live

(* agent_control: a result is read, a run is told to stop.                    *)
LEMMA Controlled ==
  ASSUME AgentsInv, NEW r \in Runs, Status(r) \/ Stop(r)
  PROVE  AgentsInv'
<1> USE DEF AgentsInv
<1>1. /\ up /\ ~idle /\ mem[r] # Absent /\ mem[r] \in Run
      /\ UNCHANGED <<sessionVars, receipts, queue, sups, leases, strays, point, bounds>>
  BY DEF Status, Stop, Unread, Terminal, Known, branch, Types, TypeOK
<1>2. mem \in [Runs -> Entry] /\ saved \in [Runs -> Entry] /\ \A q \in Runs : Agrees(mem[q], saved[q])
  BY <1>1 DEF Types, TypeOK, Entry, MemIsSaved
<1>3. /\ mem' \in [Runs -> Entry] /\ saved' \in [Runs -> Entry]
      /\ \A q \in Runs : Agrees(mem'[q], saved'[q])
      /\ \A q \in Runs :
           /\ mem'[q] = Absent <=> mem[q] = Absent
           /\ mem[q] # Absent => /\ mem'[q].status = mem[q].status
                                 /\ mem'[q].checking = mem[q].checking
                                 /\ mem'[q].delivery = mem[q].delivery \/ q \in read'
      /\ read \subseteq read' /\ read' \subseteq Runs
      /\ child' \in [Runs -> {"none", "launching"} \cup Live \cup Ended]
      /\ \A q \in Runs : child'[q] = "none" => child[q] = "none"
      /\ \A q \in Runs : saved'[q] = Absent <=> saved[q] = Absent
  <2>1. CASE Status(r)
    <3>1. mem' = Consume(mem, {r}) /\ saved' = Consume(saved, {r}) /\ read' = read \cup {r}
          /\ child' = child
      BY <2>1 DEF Status
    <3>2. \A q \in Runs : q \in {r} => mem[q] # Absent /\ saved[q] # Absent
      BY <1>1, <1>2 DEF Agrees
    <3>3. \A q \in Runs : Agrees(mem'[q], saved'[q])
      BY <1>2, <3>1, <3>2, ConsumeAgrees
    <3>4. /\ mem' \in [Runs -> Entry]
          /\ \A q \in Runs :
              /\ q \notin {r} => mem'[q] = mem[q]
              /\ q \in {r} => /\ mem'[q] # Absent
                            /\ mem'[q].status = mem[q].status
                            /\ mem'[q].checking = mem[q].checking
      BY <1>2, <3>1, <3>2, ConsumeDoes
    <3>5. saved' \in [Runs -> Entry]
      BY <1>2, <3>1, <3>2, ConsumeDoes
    <3>6. \A q \in Runs :
            /\ mem'[q] = Absent <=> mem[q] = Absent
            /\ mem[q] # Absent => /\ mem'[q].status = mem[q].status
                                  /\ mem'[q].checking = mem[q].checking
                                  /\ mem'[q].delivery = mem[q].delivery \/ q \in read'
      BY <1>1, <3>1, <3>4
    <3>7. \A q \in Runs : saved'[q] = Absent <=> saved[q] = Absent
      BY <1>2, <3>3, <3>6 DEF Agrees
    <3>8. /\ read \subseteq read' /\ read' \subseteq Runs
          /\ child' \in [Runs -> {"none", "launching"} \cup Live \cup Ended]
      BY <3>1 DEF Types, TypeOK
    <3> QED
      BY <3>1, <3>3, <3>4, <3>5, <3>6, <3>7, <3>8
  <2>2. CASE Stop(r)
    <3> DEFINE run == [mem[r] EXCEPT !.cancel = TRUE]
    <3>1. mem' = [mem EXCEPT ![r] = run] /\ saved' = saved /\ read' = read /\ Abort({r})
      BY <2>2 DEF Stop, branch
    <3>2. /\ run \in Run /\ run.status = mem[r].status /\ run.checking = mem[r].checking
          /\ run.delivery = mem[r].delivery /\ run.spawned = mem[r].spawned
      BY <1>1 DEF Run
    <3>3. run # Absent
      BY <3>2, AbsentAssumption DEF AbsentAssumption
    <3> HIDE DEF run
    <3>4. mem' \in [Runs -> Entry] /\ mem'[r] = run /\ \A q \in Runs \ {r} : mem'[q] = mem[q]
      BY <1>2, <3>1, <3>2 DEF Entry
    <3>5. \A q \in Runs : Agrees(mem'[q], saved'[q])
      BY <1>1, <1>2, <3>1, <3>2, <3>3, <3>4 DEF Agrees
    <3> QED
      BY <1>1, <1>2, <3>1, <3>2, <3>3, <3>4, <3>5, AbortDoes DEF Types, TypeOK
  <2> QED
    BY <2>1, <2>2
<1>4. Types'
  BY <1>1, <1>3 DEF sessionVars, bounds, Types, TypeOK, Entry
<1>5. Awaits'
  <2>1. todo \subseteq Runs /\ visiting \in Runs \cup {Absent}
    BY DEF Types, TypeOK
  <2> QED
    BY <1>1, <1>3, <2>1 DEF sessionVars, Awaits, Known
<1>6. Owners' /\ MemIsSaved'
  BY <1>1, <1>3 DEF sessionVars, Owners, MemIsSaved, Known, Types, TypeOK, Supervisor
<1>7. CheckingIsWatched' /\ RunningIsWatched'
  BY <1>1, <1>3 DEF sessionVars, CheckingIsWatched, RunningIsWatched, Known
<1>8. Shown(saved, receipts, read)' /\ Checked(saved)'
  <2>1. \A q \in Runs : saved[q] # Absent /\ saved[q].delivery = "delivered"
                        => receipts[q] > 0 \/ q \in read
    BY DEF Shown
  <2>2. \A q \in Runs : saved[q] # Absent /\ saved[q].checking => saved[q].status # "running"
    BY DEF Checked
  <2> QED
    BY <1>1, <1>2, <1>3, <2>1, <2>2 DEF Shown, Checked, Agrees
<1>9. Shown(point.saved, point.receipts, point.read)' /\ Checked(point.saved)'
  BY <1>1
<1>10. Begun' /\ Judged'
  BY <1>1, <1>3 DEF Begun, Judged, Owners, Known, Types, TypeOK, Supervisor
<1>11. IdleHasAll'
  BY <1>1 DEF sessionVars, IdleHasAll
<1> QED
  BY <1>4, <1>5, <1>6, <1>7, <1>8, <1>9, <1>10, <1>11

(* A restore begins: all the runs it knows it has still to visit.            *)
LEMMA LoadKeeps ==
  ASSUME AgentsInv, Types', up', restoring' \in {"start", "tree"},
         mem' = saved', todo' = {r \in Runs : saved'[r] # Absent}, visiting' = Absent,
         \A s \in sups' : ~s.owned,
         Shown(saved', receipts', read'), Shown(point'.saved, point'.receipts, point'.read),
         Checked(saved'), Checked(point'.saved), Begun'
  PROVE  AgentsInv'
<1>1. Awaits'
  BY AbsentAssumption DEF AbsentAssumption, Awaits, Known
<1>2. Owners' /\ MemIsSaved' /\ Judged'
  BY DEF Owners, MemIsSaved, Agrees, Judged
<1>3. CheckingIsWatched' /\ RunningIsWatched'
  BY DEF CheckingIsWatched, RunningIsWatched, Known
<1>4. IdleHasAll'
  BY DEF IdleHasAll
<1> QED
  BY <1>1, <1>2, <1>3, <1>4 DEF AgentsInv, Shown, Checked

(* The instance is no more.                                                 *)
LEMMA DownKeeps ==
  ASSUME AgentsInv, Types', ~up', restoring' = "no", todo' = {}, visiting' = Absent,
         mem' = NoRuns, UNCHANGED <<branch, point>>,
         \A s \in sups' : ~s.owned, Begun'
  PROVE  AgentsInv'
<1>1. \A r \in Runs : mem'[r] = Absent
  BY DEF NoRuns
<1>2. Awaits' /\ Owners' /\ MemIsSaved' /\ Judged'
  BY DEF Awaits, Owners, MemIsSaved, Judged
<1>3. CheckingIsWatched' /\ RunningIsWatched' /\ IdleHasAll'
  BY <1>1 DEF CheckingIsWatched, RunningIsWatched, Known, IdleHasAll
<1>4. /\ Shown(saved, receipts, read)' /\ Shown(point.saved, point.receipts, point.read)'
      /\ Checked(saved)' /\ Checked(point.saved)'
  BY DEF AgentsInv, branch, Shown, Checked
<1> QED
  BY <1>2, <1>3, <1>4 DEF AgentsInv

(* Promises lose their runs and stay otherwise.                               *)
LEMMA DisownDoes ==
  ASSUME sups \subseteq Supervisor, NEW S \in SUBSET sups
  PROVE  LET lost == {[s EXCEPT !.owned = FALSE] : s \in S}
         IN /\ lost \subseteq Supervisor /\ \A s \in lost : ~s.owned
            /\ \A s \in lost : \E t \in S : s.run = t.run
            /\ \A t \in S : \E s \in lost : s.run = t.run
<1>1. \A s \in S : LET t == [s EXCEPT !.owned = FALSE]
                   IN t \in Supervisor /\ ~t.owned /\ t.run = s.run
  BY DEF Supervisor
<1> QED
  BY <1>1

(* The session changes its branch, its instance or its process.               *)
LEMMA Changed ==
  ASSUME AgentsInv, Tree \/ Reload \/ Open \/ \E orderly \in BOOLEAN : Exit(orderly)
  PROVE  AgentsInv'
<1> USE DEF AgentsInv
<1>0. /\ sups \subseteq Supervisor /\ saved \in [Runs -> Entry]
      /\ \A r \in Runs : child[r] = "none" => saved[r] = Absent /\ point.saved[r] = Absent
      /\ \A r \in Runs, s \in sups : child[r] = "none" => s.run # r
  BY DEF Types, TypeOK, Entry, Begun
<1>1. CASE Tree
  <2>1. /\ up /\ up' = up /\ restoring' = "tree" /\ mem' = saved'
        /\ todo' = {r \in Runs : saved'[r] # Absent} /\ visiting' = Absent
        /\ sups' = Disowned /\ Abort(Runs) /\ changes < MaxChanges /\ changes' = changes + 1
        /\ UNCHANGED <<idle, queue, leases, strays, drops>>
    BY <1>1 DEF Tree, Quiet, Change, Load
  <2>2. \/ /\ saved' = point.saved /\ receipts' = point.receipts /\ read' = point.read
           /\ point'.saved = saved /\ point'.receipts = receipts /\ point'.read = read
        \/ UNCHANGED <<branch, point>>
    BY <1>1 DEF Tree, Branch
  <2>3. /\ sups' \subseteq Supervisor /\ \A s \in sups' : ~s.owned
        /\ \A s \in sups' : \E t \in sups : s.run = t.run
    BY <1>0, <2>1, DisownDoes DEF Disowned
  <2>4. /\ saved' \in [Runs -> Entry] /\ receipts' \in [Runs -> Nat] /\ read' \subseteq Runs
        /\ point'.saved \in [Runs -> Entry] /\ point'.receipts \in [Runs -> Nat]
        /\ point'.read \subseteq Runs
    BY <1>0, <2>2 DEF branch, Types, TypeOK
  <2>5. /\ Shown(saved', receipts', read') /\ Shown(point'.saved, point'.receipts, point'.read)
        /\ Checked(saved') /\ Checked(point'.saved)
    BY <2>2 DEF branch, Shown, Checked
  <2>6. Begun'
    BY <1>0, <2>1, <2>2, <2>3, AbortDoes DEF branch, Begun
  <2>7. changes' \in 0 .. MaxChanges
    BY <2>1, AgentsAssumption DEF AgentsAssumption, Types, TypeOK
  <2>8. Types'
    BY <2>1, <2>3, <2>4, <2>7, AbortDoes DEF Types, TypeOK, Entry
  <2> QED
    BY <2>1, <2>3, <2>5, <2>6, <2>8, LoadKeeps
<1>2. CASE Reload
  <2> DEFINE detached == {s \in sups : /\ s.owned /\ s.stage = "watching"
                                       /\ s.run \in Pane /\ mem[s.run].spawned}
  <2>1. /\ restoring = "no" /\ up' = FALSE /\ mem' = NoRuns
        /\ sups' = {[s EXCEPT !.owned = FALSE] : s \in sups \ detached}
        /\ Abort(Runs \ {s.run : s \in detached}) /\ changes < MaxChanges /\ changes' = changes + 1
        /\ UNCHANGED <<idle, restoring, todo, visiting, branch, queue, leases, strays, point, drops>>
    BY <1>2 DEF Reload, Quiet, Change
  <2>2. sups \ detached \in SUBSET sups
    OBVIOUS
  <2>3. /\ sups' \subseteq Supervisor /\ \A s \in sups' : ~s.owned
        /\ \A s \in sups' : \E t \in sups : s.run = t.run
    BY SMTT(60), <1>0, <2>1, <2>2, DisownDoes
  <2>4. /\ child' \in [Runs -> {"none", "launching"} \cup Live \cup Ended]
        /\ \A r \in Runs : child'[r] = "none" => child[r] = "none"
    BY <2>1, AbortDoes
  <2>5. Begun'
    BY <1>0, <2>1, <2>3, <2>4 DEF branch, Begun
  <2>6. NoRuns \in [Runs -> Entry] /\ changes' \in 0 .. MaxChanges
    BY <2>1, AgentsAssumption DEF AgentsAssumption, Types, TypeOK, NoRuns, Entry
  <2>7. Types'
    BY <2>1, <2>3, <2>4, <2>6 DEF branch, Types, TypeOK, Entry
  <2>8. todo' = {} /\ visiting' = Absent
    BY <2>1 DEF Awaits
  <2> QED
    BY <2>1, <2>3, <2>5, <2>7, <2>8, DownKeeps
<1>3. CASE Open
  <2>1. /\ ~up /\ up' /\ restoring' = "start" /\ mem' = saved /\ visiting' = Absent
        /\ todo' = {r \in Runs : saved[r] # Absent} /\ up' = TRUE
        /\ UNCHANGED <<idle, branch, queue, sups, child, leases, strays, point, bounds>>
    BY <1>3 DEF Open, Load
  <2>2. \A s \in sups' : ~s.owned
    BY <2>1 DEF Owners
  <2>3. Begun' /\ Types'
    BY <2>1 DEF branch, bounds, Begun, Types, TypeOK
  <2>4. /\ Shown(saved', receipts', read') /\ Shown(point'.saved, point'.receipts, point'.read)
        /\ Checked(saved') /\ Checked(point'.saved) /\ saved' = saved
    BY <2>1 DEF branch, Shown, Checked
  <2> QED
    BY <2>1, <2>2, <2>3, <2>4, LoadKeeps
<1>4. ASSUME NEW orderly \in BOOLEAN, Exit(orderly)
      PROVE  AgentsInv'
  <2>1. /\ up' = FALSE /\ idle' = TRUE /\ restoring' = "no" /\ todo' = {} /\ visiting' = Absent
        /\ mem' = NoRuns /\ queue' = {} /\ sups' = {} /\ leases' = {}
        /\ changes < MaxChanges /\ changes' = changes + 1
        /\ UNCHANGED <<branch, strays, point, drops>>
    BY <1>4 DEF Exit, Change
  <2>2. /\ child' \in [Runs -> {"none", "launching"} \cup Live \cup Ended]
        /\ \A r \in Runs : child'[r] = "none" => child[r] = "none"
    BY <1>4 DEF Exit, Types, TypeOK, Live, Ended
  <2>3. NoRuns \in [Runs -> Entry] /\ changes' \in 0 .. MaxChanges
    BY <2>1, AgentsAssumption DEF AgentsAssumption, Types, TypeOK, NoRuns, Entry
  <2>4. Begun' /\ Types'
    BY <1>0, <2>1, <2>2, <2>3 DEF branch, Begun, Types, TypeOK, Entry
  <2> QED
    BY <2>1, <2>4, DownKeeps
<1> QED
  BY <1>1, <1>2, <1>3, <1>4

------------------------------------------------------------------------------
(* The last words of a restore on a run: what it found out, and the           *)
(* acknowledgement of what the branch shows.                                *)
LEMMA SettleDoes ==
  ASSUME mem \in [Runs -> Entry], saved \in [Runs -> Entry], receipts \in [Runs -> Nat],
         NEW r \in Runs, NEW run \in Run,
         Settle(r, run)
  PROVE  /\ mem' \in [Runs -> Entry] /\ saved' \in [Runs -> Entry]
         /\ \A q \in Runs \ {r} : mem'[q] = mem[q] /\ saved'[q] = saved[q]
         /\ mem'[r] # Absent /\ Agrees(mem'[r], saved'[r])
         /\ mem'[r].status = run.status /\ mem'[r].checking = run.checking
         /\ mem'[r].spawned = run.spawned
         /\ \/ mem'[r].delivery = run.delivery
            \/ (/\ mem'[r].delivery = "delivered" /\ run.delivery = "pending"
                /\ run.status # "running" /\ receipts[r] > 0)
<1> DEFINE acked == IF Unread([mem EXCEPT ![r] = run], r) /\ CompletionPresent(r)
                    THEN {r} ELSE {}
           plain == [run EXCEPT !.queued = @ /\ run.delivery # "pending"]
           m == [mem EXCEPT ![r] = plain]
           sv == [saved EXCEPT ![r] = Snapshot(run)]
<1>1. mem' = Consume(m, acked) /\ saved' = Consume(sv, acked)
  BY DEF Settle
<1>2. plain \in Run
  <2>1. run.queued \in BOOLEAN
    BY DEF Run
  <2>2. (run.queued /\ run.delivery # "pending") \in BOOLEAN
    OBVIOUS
  <2> QED
    BY <2>1, <2>2 DEF Run
<1>3. /\ plain.status = run.status /\ plain.checking = run.checking
      /\ plain.spawned = run.spawned /\ plain.delivery = run.delivery
  BY DEF Run
<1> HIDE DEF plain
<1>4. Snapshot(run) \in Run /\ Agrees(run, Snapshot(run)) /\ run # Absent /\ plain # Absent
  BY <1>2, SnapshotIs, AbsentAssumption DEF AbsentAssumption
<1>5. /\ m \in [Runs -> Entry] /\ sv \in [Runs -> Entry] /\ m[r] = plain /\ sv[r] = Snapshot(run)
      /\ \A q \in Runs \ {r} : m[q] = mem[q] /\ sv[q] = saved[q]
  BY <1>2, <1>4 DEF Entry
<1>6. r \in acked => run.delivery = "pending" /\ run.status # "running" /\ receipts[r] > 0
  BY DEF Unread, Terminal, CompletionPresent
<1>7. acked \subseteq {r}
  OBVIOUS
<1> HIDE DEF acked, m, sv
<1>8. Agrees(m[r], sv[r]) /\ m[r] # Absent /\ sv[r] # Absent
  BY <1>3, <1>4, <1>5 DEF Agrees
<1>9. /\ mem' \in [Runs -> Entry]
      /\ \A q \in Runs :
           /\ q \notin acked => mem'[q] = m[q]
           /\ q \in acked => /\ mem'[q] # Absent /\ mem'[q].status = m[q].status
                             /\ mem'[q].delivery = "delivered"
                             /\ mem'[q].checking = m[q].checking
                             /\ mem'[q].spawned = m[q].spawned
  BY <1>1, <1>5, <1>7, <1>8, ConsumeDoes
<1>10. /\ saved' \in [Runs -> Entry]
       /\ \A q \in Runs :
           /\ q \notin acked => saved'[q] = sv[q]
           /\ q \in acked => /\ saved'[q] # Absent /\ saved'[q].status = sv[q].status
                             /\ saved'[q].delivery = "delivered"
                             /\ saved'[q].checking = sv[q].checking
                             /\ saved'[q].spawned = sv[q].spawned
  BY <1>1, <1>5, <1>7, <1>8, ConsumeDoes
<1>11. Agrees(mem'[r], saved'[r])
  BY <1>8, <1>9, <1>10 DEF Agrees
<1> QED
  BY <1>3, <1>5, <1>6, <1>7, <1>8, <1>9, <1>10, <1>11

(* A restore ends a run, or acknowledges its result.                          *)
LEMMA ReconcileKeeps ==
  ASSUME AgentsInv, up, restoring # "no", NEW r \in Runs, mem[r] # Absent, NEW run \in Run,
         run.status # "running",
         run.checking => \E s \in sups : /\ s.run = r /\ s.owned
                                         /\ s.stage \in {"marking", "verifying"},
         run.delivery = "delivered" => receipts[r] > 0 \/ r \in read,
         visiting \in {Absent, r}, todo' = todo \ {r},
         \/ Reconcile(r, run)
         \/ Settle(r, run) /\ visiting' = Absent,
         UNCHANGED <<up, idle, restoring, receipts, read, queue, sups, child, point, bounds>>,
         leases' \subseteq Runs, strays' \subseteq Runs
  PROVE  AgentsInv'
<1> USE DEF AgentsInv
<1>1. mem \in [Runs -> Entry] /\ saved \in [Runs -> Entry] /\ receipts \in [Runs -> Nat]
  BY DEF Types, TypeOK, Entry
<1>2. /\ mem' \in [Runs -> Entry] /\ saved' \in [Runs -> Entry]
      /\ \A q \in Runs \ {r} : mem'[q] = mem[q] /\ saved'[q] = saved[q]
      /\ mem'[r] # Absent /\ Agrees(mem'[r], saved'[r])
      /\ mem'[r].status = run.status /\ mem'[r].checking = run.checking
      /\ mem'[r].delivery = run.delivery \/ receipts[r] > 0
      /\ visiting' \in {Absent, r}
  <2>1. CASE Settle(r, run) /\ visiting' = Absent
    BY <1>1, <2>1, SettleDoes
  <2>2. CASE /\ mem' = [mem EXCEPT ![r] = run] /\ saved' = [saved EXCEPT ![r] = Snapshot(run)]
             /\ visiting' = r
    <3>1. Snapshot(run) \in Run /\ Agrees(run, Snapshot(run)) /\ run # Absent
      BY SnapshotIs, AbsentAssumption DEF AbsentAssumption
    <3> QED
      BY <1>1, <2>2, <3>1 DEF Entry
  <2> QED
    BY <2>1, <2>2 DEF Reconcile
<1>3. Types'
  BY <1>2 DEF bounds, Types, TypeOK, Entry
<1>4. Awaits'
  <2>1. \A q \in Runs : Known(q) => Known(q)'
    BY <1>2 DEF Known
  <2>2. todo \subseteq Runs
    BY DEF Types, TypeOK
  <2>3. r # Absent
    BY AbsentAssumption DEF AbsentAssumption
  <2> QED
    BY <1>2, <2>1, <2>2, <2>3 DEF Awaits, Known
<1>5. Owners' /\ MemIsSaved'
  BY <1>2 DEF Owners, MemIsSaved, Known, Types, TypeOK, Supervisor
<1>6. CheckingIsWatched' /\ RunningIsWatched'
  <2>1. \A q \in Runs : q # Absent
    BY AbsentAssumption DEF AbsentAssumption
  <2>2. CheckingIsWatched'
    BY <1>2 DEF CheckingIsWatched, Known
  <2>3. RunningIsWatched'
    BY <1>2, <2>1 DEF RunningIsWatched, Known
  <2> QED
    BY <2>2, <2>3
<1>7. Shown(saved, receipts, read)' /\ Checked(saved)'
  <2>1. ASSUME NEW q \in Runs, saved'[q] # Absent, saved'[q].delivery = "delivered"
        PROVE  receipts'[q] > 0 \/ q \in read'
    BY <1>2, <2>1 DEF Shown, Agrees
  <2>2. ASSUME NEW q \in Runs, saved'[q] # Absent, saved'[q].checking
        PROVE  saved'[q].status # "running"
    BY <1>2, <2>2 DEF Checked, Agrees
  <2> QED
    BY <2>1, <2>2 DEF Shown, Checked
<1>8. Shown(point.saved, point.receipts, point.read)' /\ Checked(point.saved)'
  OBVIOUS
<1>9. Begun'
  BY <1>2 DEF Begun, MemIsSaved, Agrees
<1>10. Judged'
  BY <1>2 DEF Judged, Types, TypeOK, Supervisor
<1>11. IdleHasAll'
  BY DEF IdleHasAll
<1> QED
  BY <1>3, <1>4, <1>5, <1>6, <1>7, <1>8, <1>9, <1>10, <1>11

(* A lost run has failed and is to be delivered.                              *)
LEMMA LostIs ==
  ASSUME NEW r, mem[r] \in Run
  PROVE  /\ Lost(r) \in Run /\ Lost(r).status = "failed" /\ ~Lost(r).checking
         /\ Lost(r).delivery = "pending" /\ Lost(r).spawned = mem[r].spawned
<1> DEFINE run == Reported(mem[r])
<1>1. run \in Run /\ run.delivery = "pending" /\ ~run.checking /\ run.spawned = mem[r].spawned
  BY ReportedIs
<1>2. Lost(r) = [run EXCEPT !.status = "failed"]
  BY DEF Lost
<1> HIDE DEF run
<1> QED
  BY <1>1, <1>2 DEF Run, Statuses

(* A restore comes to the next of its runs.                                   *)
LEMMA Visited ==
  ASSUME AgentsInv, NEW r \in Runs, Visit(r)
  PROVE  AgentsInv'
<1> USE DEF AgentsInv
<1>1. /\ restoring # "no" /\ visiting = Absent /\ r \in todo /\ todo' = todo \ {r} /\ up
      /\ mem[r] # Absent /\ mem[r] \in Run
      /\ UNCHANGED <<up, idle, restoring, receipts, read, queue, sups, child, leases, strays,
                     point, bounds>>
  BY DEF Visit, InLoop, Awaits, Known, Types, TypeOK
<1>2. Agrees(mem[r], saved[r])
  BY <1>1 DEF MemIsSaved
<1>3. CASE Attachable(r)
  <2>1. visiting' = r /\ UNCHANGED <<mem, saved>> /\ mem[r].status = "running" /\ r # Absent
    BY <1>3, AbsentAssumption DEF AbsentAssumption, Visit, Attachable
  <2>2. ~mem[r].checking
    BY <1>1, <1>2, <2>1 DEF Checked, Agrees
  <2>3. Types' /\ Owners' /\ MemIsSaved' /\ Begun' /\ Judged'
    BY <1>1, <2>1 DEF bounds, Types, TypeOK, Owners, MemIsSaved, Begun, Judged, Known
  <2>4. Awaits'
    BY <1>1, <2>1 DEF Awaits, Known
  <2>5. CheckingIsWatched' /\ RunningIsWatched'
    <3>1. \A q \in Runs : q # Absent
      BY AbsentAssumption DEF AbsentAssumption
    <3>2. CheckingIsWatched'
      BY <1>1, <2>1, <2>2 DEF CheckingIsWatched, Known
    <3>3. RunningIsWatched'
      BY <1>1, <2>1, <3>1 DEF RunningIsWatched, Known
    <3> QED
      BY <3>2, <3>3
  <2>6. /\ Shown(saved, receipts, read)' /\ Shown(point.saved, point.receipts, point.read)'
        /\ Checked(saved)' /\ Checked(point.saved)' /\ IdleHasAll'
    BY <1>1, <2>1 DEF Shown, Checked, IdleHasAll
  <2> QED
    BY <2>3, <2>4, <2>5, <2>6
<1>4. CASE ~Attachable(r)
  <2> DEFINE run == IF mem[r].status = "running" THEN Lost(r) ELSE Reconciled(r)
  <2>1. Reconcile(r, run)
    BY <1>4 DEF Visit
  <2>2. /\ run \in Run /\ run.status # "running" /\ ~run.checking
        /\ run.delivery # "pending" => run = mem[r]
    <3>1. CASE mem[r].status = "running"
      BY <1>1, <3>1, LostIs
    <3>2. CASE mem[r].status # "running"
      <4>1. run = Reported(mem[r]) \/ (run = mem[r] /\ ~mem[r].checking)
        BY <3>2 DEF Reconciled
      <4> QED
        BY <1>1, <3>2, <4>1, ReportedIs
    <3> QED
      BY <3>1, <3>2
  <2> HIDE DEF run
  <2>3. run.delivery = "delivered" => receipts[r] > 0 \/ r \in read
    BY <1>1, <1>2, <2>2 DEF Shown, Agrees
  <2> QED
    BY <1>1, <2>1, <2>2, <2>3, ReconcileKeeps DEF Types, TypeOK
<1> QED
  BY <1>3, <1>4

(* A restore goes on after an await.                                          *)
LEMMA Awaited ==
  ASSUME AgentsInv, Adopted \/ Reconciling
  PROVE  AgentsInv'
<1> DEFINE r == visiting
<1> USE DEF AgentsInv
<1>1. /\ r # Absent /\ r \in Runs /\ restoring # "no" /\ up /\ mem[r] # Absent /\ mem[r] \in Run
      /\ r \notin todo /\ todo' = todo
      /\ UNCHANGED <<up, idle, restoring, receipts, read, queue, point, bounds>>
  BY DEF Adopted, Reconciling, Awaits, Known, Types, TypeOK
<1>2. Agrees(mem[r], saved[r])
  BY <1>1 DEF MemIsSaved
<1>3. todo' = todo \ {r}
  BY <1>1
<1>4. CASE Adopted
  <2>1. CASE /\ Reconcile(r, Lost(r)) /\ leases' \in {leases, leases \cup {r}}
             /\ strays' = strays \cup {r} /\ UNCHANGED <<sups, child>>
    <3>1. leases' \subseteq Runs /\ strays' \subseteq Runs
      BY <1>1, <2>1 DEF Types, TypeOK
    <3> QED
      BY <1>1, <1>3, <2>1, <3>1, LostIs, ReconcileKeeps
  <2>2. CASE /\ leases' = leases \cup {r} /\ strays' = strays \ {r}
             /\ sups' = sups \cup {[run |-> r, how |-> "attach", owned |-> TRUE,
                                    stage |-> "watching"]}
             /\ child' = IF mem[r].cancel /\ child[r] = "alive"
                         THEN [child EXCEPT ![r] = "aborting"] ELSE child
             /\ visiting' = Absent /\ UNCHANGED <<mem, saved>>
    <3> DEFINE new == [run |-> r, how |-> "attach", owned |-> TRUE, stage |-> "watching"]
    <3>1. /\ new \in Supervisor /\ new.run = r /\ new.owned /\ new.stage = "watching"
          /\ sups' = sups \cup {new}
      BY <1>1, <2>2 DEF Supervisor
    <3> HIDE DEF new
    <3>2. /\ child' \in [Runs -> {"none", "launching"} \cup Live \cup Ended]
          /\ \A q \in Runs : child'[q] = "none" => child[q] = "none"
      BY <1>1, <2>2 DEF Types, TypeOK, Live
    <3>3. Types'
      BY <1>1, <2>2, <3>1, <3>2 DEF bounds, Types, TypeOK
    <3>4. Awaits'
      BY <1>1, <2>2 DEF Awaits, Known
    <3>5. Owners' /\ MemIsSaved' /\ Judged'
      BY <1>1, <2>2, <3>1 DEF Owners, MemIsSaved, Judged, Known
    <3>6. Begun'
      <4>1. child[r] # "none"
        BY <1>1, <1>2 DEF Begun, Agrees
      <4> QED
        BY <1>1, <2>2, <3>1, <3>2, <4>1 DEF Begun
    <3>7. CheckingIsWatched' /\ RunningIsWatched'
      BY <1>1, <2>2, <3>1 DEF CheckingIsWatched, RunningIsWatched, Known
    <3>8. /\ Shown(saved, receipts, read)' /\ Shown(point.saved, point.receipts, point.read)'
          /\ Checked(saved)' /\ Checked(point.saved)' /\ IdleHasAll'
      BY <1>1, <2>2 DEF Shown, Checked, IdleHasAll
    <3> QED
      BY <3>3, <3>4, <3>5, <3>6, <3>7, <3>8
  <2> QED
    BY <1>4, <2>1, <2>2 DEF Adopted
<1>5. CASE Reconciling
  <2>1. /\ mem[r].status # "running" /\ Settle(r, mem[r]) /\ visiting' = Absent
        /\ UNCHANGED <<sups, child, leases, strays>>
    BY <1>5 DEF Reconciling
  <2>2. mem[r].checking => \E s \in sups : /\ s.run = r /\ s.owned
                                           /\ s.stage \in {"marking", "verifying"}
    BY <1>1 DEF CheckingIsWatched, Known
  <2>3. mem[r].delivery = "delivered" => receipts[r] > 0 \/ r \in read
    BY <1>1, <1>2 DEF Shown, Agrees
  <2> QED
    BY <1>1, <1>3, <2>1, <2>2, <2>3, ReconcileKeeps DEF Types, TypeOK
<1> QED
  BY <1>4, <1>5

(* Every step keeps the invariant.                                            *)
LEMMA StepAgents == AgentsInv /\ [Next]_vars => AgentsInv'
<1> SUFFICES ASSUME AgentsInv, [Next]_vars PROVE AgentsInv'
  OBVIOUS
<1>1. ASSUME NEW r \in Runs, Start(r) \/ Status(r) \/ Stop(r) \/ Visit(r)
      PROVE  AgentsInv'
  BY <1>1, Started, Controlled, Visited
<1>2. ASSUME NEW s \in sups, Watch(s)
      PROVE  AgentsInv'
  BY <1>2, Spawned, Finished, Quietly DEF Watch
<1>3. CASE TurnStarts \/ Record \/ UNCHANGED vars
  BY <1>3, Quietly
<1>4. CASE Settled \/ Remember \/ RestoreEnds
  BY <1>4, SettledKeeps, Remembered, RestoreEnded
<1>5. CASE Tree \/ Reload \/ Open \/ \E orderly \in BOOLEAN : Exit(orderly)
  BY <1>5, Changed
<1>6. CASE Adopted \/ Reconciling
  BY <1>6, Awaited
<1>7. CASE \E r \in Runs, how \in Ended : ChildEnds(r, how)
  BY <1>7, Quietly
<1> QED
  BY <1>1, <1>2, <1>3, <1>4, <1>5, <1>6, <1>7 DEF Next

(* Every state of every execution satisfies the invariant.                   *)
THEOREM Consistent == Spec => []AgentsInv
<1>1. Init => AgentsInv
  BY InitAgents
<1>2. AgentsInv /\ [Next]_vars => AgentsInv'
  BY StepAgents
<1> QED
  BY <1>1, <1>2, PTL DEF Spec

(* Whatever happens to the session, and for any number of runs, a result       *)
(* counts as delivered only once its branch shows it, and an idle agent has   *)
(* been sent all that it should have (index.ts, 411-432 and 799-804).        *)
THEOREM NothingForgotten == Spec => []ResultsKept
<1>1. AgentsInv => ResultsKept
  BY DEF AgentsInv, Shown, ResultsKept, SeenBeforeDelivered
<1> QED
  BY <1>1, Consistent, PTL

------------------------------------------------------------------------------
(* What the steps do to the entries of the branch: an entry stays as it is,   *)
(* but that an unread result may be acknowledged.                           *)
Same(e, f) ==
  /\ f = Absent <=> e = Absent
  /\ e # Absent => /\ f.status = e.status /\ f.checking = e.checking /\ f.spawned = e.spawned
                   /\ \/ f.delivery = e.delivery
                      \/ e.delivery = "pending" /\ f.delivery = "delivered"

(* What is sent goes to an idle agent, which is busy then.                   *)
Sends(atRest) ==
  /\ idle' => atRest
  /\ \/ queue' = queue
     \/ /\ ~idle'
        /\ \A r \in queue' : /\ receipts[r] = 0 /\ r \in Runs /\ saved'[r] # Absent
                             /\ saved'[r].delivery = "pending"

(* What a delivery does to the entries and to the queue.                      *)
LEMMA DeliverSaves ==
  ASSUME AgentsInv, NEW m \in [Runs -> Entry], NEW sv \in [Runs -> Entry],
         NEW atRest \in BOOLEAN, \A r \in Runs : Agrees(m[r], sv[r]), Deliver(m, sv, atRest)
  PROVE  Sends(atRest) /\ \A r \in Runs : Same(sv[r], saved'[r])
<1>1. /\ Kept(m, mem') /\ \A r \in Runs : Agrees(mem'[r], saved'[r])
      /\ idle' => atRest
      /\ \/ queue' = queue
         \/ /\ queue' \subseteq Runs /\ atRest /\ ~idle'
            /\ \A r \in queue' : receipts[r] = 0 /\ Unread(mem', r)
  <2>1. receipts \in [Runs -> Nat] /\ queue \subseteq Runs /\ drops \in 0 .. MaxDrops
    BY DEF AgentsInv, Types, TypeOK
  <2> QED
    BY <2>1, DeliverDoes
<1>2. \A r \in Runs : Same(sv[r], saved'[r])
  BY <1>1 DEF Kept, Agrees, Same
<1>3. ASSUME NEW r \in Runs, Unread(mem', r)
      PROVE  saved'[r] # Absent /\ saved'[r].delivery = "pending"
  BY <1>1, <1>3 DEF Agrees, Unread, Terminal
<1> QED
  BY <1>1, <1>2, <1>3 DEF Sends

(* What a report does to the entries: its run is told, others are acknowledged. *)
LEMMA ReportSaves ==
  ASSUME AgentsInv, NEW s \in sups, s.owned, NEW run \in Run, Report(s, run)
  PROVE  /\ Sends(idle) /\ Ends(s)
         /\ \A q \in Runs \ {s.run} : Same(saved[q], saved'[q])
         /\ saved'[s.run] # Absent /\ ~saved'[s.run].checking
         /\ saved'[s.run].status = run.status /\ saved'[s.run].spawned = run.spawned
         /\ saved'[s.run].delivery \in {"pending", "delivered"}
<1> DEFINE r == s.run
           m == [mem EXCEPT ![r] = Reported(run)]
           sv == [saved EXCEPT ![r] = Snapshot(Reported(run))]
<1> USE DEF AgentsInv
<1>1. r \in Runs /\ up /\ \A q \in Runs : Agrees(mem[q], saved[q])
  BY DEF Owners, MemIsSaved, Types, TypeOK, Supervisor
<1>2. /\ Reported(run) \in Run /\ Reported(run).status = run.status /\ ~Reported(run).checking
      /\ Reported(run).delivery = "pending" /\ Reported(run).spawned = run.spawned
      /\ Reported(run) # Absent
  BY ReportedIs, AbsentAssumption DEF AbsentAssumption
<1>3. Snapshot(Reported(run)) \in Run /\ Agrees(Reported(run), Snapshot(Reported(run)))
  BY <1>2, SnapshotIs
<1>4. /\ m \in [Runs -> Entry] /\ sv \in [Runs -> Entry]
      /\ m[r] = Reported(run) /\ sv[r] = Snapshot(Reported(run))
      /\ \A q \in Runs \ {r} : m[q] = mem[q] /\ sv[q] = saved[q]
  BY <1>1, <1>2, <1>3 DEF Types, TypeOK, Entry
<1>5. Deliver(m, sv, idle) /\ Ends(s) /\ idle \in BOOLEAN
  BY DEF Report, Types, TypeOK
<1> HIDE DEF m, sv
<1>6. \A q \in Runs : Agrees(m[q], sv[q])
  BY <1>1, <1>3, <1>4
<1>7. Sends(idle) /\ \A q \in Runs : Same(sv[q], saved'[q])
  BY <1>4, <1>5, <1>6, DeliverSaves
<1>8. /\ saved'[r] # Absent /\ ~saved'[r].checking
      /\ saved'[r].status = run.status /\ saved'[r].spawned = run.spawned
      /\ saved'[r].delivery \in {"pending", "delivered"}
  <2>1. /\ sv[r] # Absent /\ sv[r].status = run.status /\ ~sv[r].checking
        /\ sv[r].delivery = "pending" /\ sv[r].spawned = run.spawned
    BY <1>2, <1>3, <1>4 DEF Agrees
  <2> QED
    BY <1>1, <1>7, <2>1 DEF Same
<1> QED
  BY <1>4, <1>5, <1>7, <1>8

(* The steps that change no entry but by an acknowledgement.                 *)
LEMMA AcknowledgedOnly ==
  ASSUME AgentsInv,
         Settled \/ RestoreEnds \/ \E r \in Runs : Status(r) \/ Stop(r)
  PROVE  /\ \A q \in Runs : Same(saved[q], saved'[q])
         /\ RestoreEnds => Sends(idle)
         /\ Settled => Sends(TRUE)
<1> USE DEF AgentsInv
<1>0. /\ mem \in [Runs -> Entry] /\ saved \in [Runs -> Entry] /\ up
      /\ \A q \in Runs : Agrees(mem[q], saved[q])
  <2>1. up
    BY DEF Settled, RestoreEnds, Status, Stop, InLoop, Awaits
  <2> QED
    BY <2>1 DEF Types, TypeOK, Entry, MemIsSaved
<1>1. CASE RestoreEnds
  <2>1. Deliver(mem, saved, idle) /\ idle \in BOOLEAN
    BY <1>1 DEF RestoreEnds, Types, TypeOK
  <2>2. Sends(idle) /\ \A q \in Runs : Same(saved[q], saved'[q])
    BY <1>0, <2>1, DeliverSaves
  <2>3. ~Settled
    BY <1>1 DEF RestoreEnds, Settled
  <2> QED
    BY <2>2, <2>3
<1>2. CASE Settled
  <2> DEFINE seen == {r \in Runs : Unread(mem, r) /\ CompletionPresent(r)}
             m0 == Unqueued(mem)
             m == Consume(m0, seen)
             sv == Consume(saved, seen)
  <2>1. Deliver(m, sv, TRUE) /\ ~InLoop
    BY <1>2 DEF Settled, Unqueued
  <2>2. /\ m0 \in [Runs -> Entry]
        /\ \A r \in Runs :
             /\ m0[r] = Absent <=> mem[r] = Absent
             /\ mem[r] # Absent => /\ m0[r].status = mem[r].status
                                   /\ m0[r].delivery = mem[r].delivery
                                   /\ m0[r].checking = mem[r].checking
                                   /\ m0[r].spawned = mem[r].spawned
    BY <1>0, UnqueuedDoes
  <2>3. /\ seen \subseteq Runs
        /\ \A r \in Runs : r \in seen => /\ m0[r] # Absent /\ saved[r] # Absent
                                         /\ saved[r].delivery = "pending"
    BY <1>0, <2>2 DEF Unread, Terminal, CompletionPresent, Agrees
  <2> HIDE DEF m0, seen
  <2>4. \A r \in Runs : Agrees(m0[r], saved[r])
    BY <1>0, <2>2 DEF Agrees
  <2>5. m \in [Runs -> Entry]
    BY <2>2, <2>3, ConsumeDoes
  <2>6. /\ sv \in [Runs -> Entry]
        /\ \A r \in Runs :
             /\ r \notin seen => sv[r] = saved[r]
             /\ r \in seen => /\ sv[r] # Absent /\ sv[r].status = saved[r].status
                              /\ sv[r].delivery = "delivered"
                              /\ sv[r].checking = saved[r].checking
                              /\ sv[r].spawned = saved[r].spawned
    BY <1>0, <2>3, ConsumeDoes
  <2>7. \A r \in Runs : Agrees(m[r], sv[r])
    BY <1>0, <2>2, <2>3, <2>4, ConsumeAgrees
  <2> HIDE DEF m, sv
  <2>8. TRUE \in BOOLEAN /\ \A r \in Runs : Agrees(m[r], sv[r])
    BY <2>7
  <2> HIDE DEF AgentsInv
  <2>9. Sends(TRUE) /\ \A q \in Runs : Same(sv[q], saved'[q])
    BY <2>1, <2>5, <2>6, <2>8, DeliverSaves
  <2>10. \A q \in Runs : Same(saved[q], sv[q])
    BY <2>3, <2>6 DEF Same
  <2>11. \A q \in Runs : Same(saved[q], saved'[q])
    BY <2>9, <2>10 DEF Same
  <2>12. ~RestoreEnds
    BY <2>1 DEF RestoreEnds
  <2> QED
    BY <2>9, <2>11, <2>12
<1>3. ASSUME NEW r \in Runs, Status(r)
      PROVE  \A q \in Runs : Same(saved[q], saved'[q])
  <2>1. saved' = Consume(saved, {r}) /\ mem[r] # Absent /\ mem[r].delivery = "pending"
    BY <1>3 DEF Status, Unread, Terminal
  <2>2. saved[r] # Absent /\ saved[r].delivery = "pending"
    BY <1>0, <2>1 DEF Agrees
  <2>3. \A q \in Runs :
          /\ q \notin {r} => saved'[q] = saved[q]
          /\ q \in {r} => /\ saved'[q] # Absent /\ saved'[q].status = saved[q].status
                          /\ saved'[q].delivery = "delivered"
                          /\ saved'[q].checking = saved[q].checking
                          /\ saved'[q].spawned = saved[q].spawned
    BY <1>0, <2>1, <2>2, ConsumeDoes
  <2> QED
    BY <2>2, <2>3 DEF Same
<1>4. ASSUME NEW r \in Runs, Stop(r)
      PROVE  \A q \in Runs : Same(saved[q], saved'[q])
  BY <1>4 DEF Stop, branch, Same
<1>5. ASSUME NEW r \in Runs, Status(r) \/ Stop(r)
      PROVE  (RestoreEnds => Sends(idle)) /\ (Settled => Sends(TRUE))
  <2>1. queue' = queue /\ idle' = idle
    BY <1>5 DEF Status, Stop, sessionVars
  <2> QED
    BY <2>1 DEF Sends
<1> QED
  BY <1>1, <1>2, <1>3, <1>4, <1>5

(* What is under way is not for delivery yet.                                *)
Plain(sv) ==
  \A r \in Runs : sv[r] # Absent /\ (sv[r].status = "running" \/ sv[r].checking)
                  => sv[r].delivery = "none"

(* The promises that own their runs are at work for runs not reported yet,    *)
(* one for each, and not for those that a restore has still to visit.       *)
Working ==
  /\ \A s \in sups : s.owned =>
       /\ s.run \notin todo \cup {visiting}
       /\ saved[s.run].delivery = "none"
       /\ s.stage \in {"starting", "watching"} => saved[s.run].status = "running"
       /\ s.stage = "watching" /\ child[s.run] = "alive" => saved[s.run].spawned
  /\ \A s, t \in sups : s.owned /\ t.owned /\ s.run = t.run => s = t

(* A restore awaits a run that goes on only to attach its pane.               *)
Attaching ==
  visiting # Absent /\ saved[visiting].status = "running" =>
    restoring = "start" /\ visiting \in Pane /\ saved[visiting].spawned

WorkInv == Plain(saved) /\ Plain(point.saved) /\ Working /\ Attaching

(* An entry only goes on towards delivery.                                   *)
Grows(e, f) ==
  e # Absent => /\ f # Absent
                /\ e.delivery = "pending" => f.delivery \in {"pending", "delivered"}
                /\ e.delivery = "delivered" => f.delivery = "delivered"

(* A restore leaves a run alone, to attach it, or ends it.                   *)
LEMMA RestoreSaves ==
  ASSUME AgentsInv, Plain(saved), NEW r \in Runs,
         \/ Visit(r)
         \/ r = visiting /\ (Adopted \/ Reconciling)
  PROVE  /\ up /\ restoring # "no" /\ saved[r] # Absent
         /\ \A q \in Runs \ {r} : saved'[q] = saved[q]
         /\ \/ /\ saved' = saved
               /\ \/ Visit(r) /\ Attachable(r) /\ visiting' = r
                     /\ UNCHANGED <<leases, strays, sups, child>>
                  \/ Adopted /\ visiting' = Absent /\ saved[r].status = "running"
            \/ /\ saved'[r] # Absent /\ saved'[r].status # "running"
               /\ saved'[r].spawned = saved[r].spawned /\ visiting' \in {Absent, r}
               /\ saved'[r].checking => saved'[r].delivery = "none"
               /\ Grows(saved[r], saved'[r]) /\ UNCHANGED <<sups, child>>
               /\ \/ ~Adopted /\ UNCHANGED <<leases, strays>>
                  \/ leases' \subseteq leases \cup {r} /\ strays' = strays \cup {r}
               /\ Visit(r) => ~Attachable(r)
<1> USE DEF AgentsInv
<1>1. /\ up /\ restoring # "no" /\ mem[r] # Absent /\ mem[r] \in Run
      /\ mem \in [Runs -> Entry] /\ saved \in [Runs -> Entry] /\ receipts \in [Runs -> Nat]
      /\ Visit(r) => visiting = Absent
      /\ r # Absent
  BY AbsentAssumption DEF AbsentAssumption, Visit, Adopted, Reconciling, InLoop, Awaits, Known, Types, TypeOK, Entry
<1>2. Agrees(mem[r], saved[r]) /\ saved[r] # Absent
  BY <1>1 DEF MemIsSaved, Agrees
<1>3. ASSUME NEW run \in Run, run.status # "running", run.spawned = mem[r].spawned,
             run.checking => run.delivery = "none",
             mem[r].delivery = "pending" => run.delivery = "pending",
             mem[r].delivery = "delivered" => run.delivery = "delivered",
             Reconcile(r, run) \/ (Settle(r, run) /\ visiting' = Absent)
      PROVE  /\ \A q \in Runs \ {r} : saved'[q] = saved[q]
             /\ saved'[r] # Absent /\ saved'[r].status # "running"
             /\ saved'[r].spawned = saved[r].spawned /\ visiting' \in {Absent, r}
             /\ saved'[r].checking => saved'[r].delivery = "none"
             /\ Grows(saved[r], saved'[r])
  <2>1. CASE Settle(r, run) /\ visiting' = Absent
    <3>1. /\ \A q \in Runs \ {r} : saved'[q] = saved[q]
          /\ mem'[r] # Absent /\ Agrees(mem'[r], saved'[r])
          /\ mem'[r].status = run.status /\ mem'[r].checking = run.checking
          /\ mem'[r].spawned = run.spawned
          /\ \/ mem'[r].delivery = run.delivery
             \/ (/\ mem'[r].delivery = "delivered" /\ run.delivery = "pending"
                 /\ run.status # "running" /\ receipts[r] > 0)
      BY <1>1, <2>1, SettleDoes
    <3> QED
      BY <1>2, <1>3, <2>1, <3>1 DEF Agrees, Grows
  <2>2. CASE saved' = [saved EXCEPT ![r] = Snapshot(run)] /\ visiting' = r
    <3>1. saved'[r] = Snapshot(run) /\ \A q \in Runs \ {r} : saved'[q] = saved[q]
      BY <1>1, <2>2
    <3>2. Agrees(run, Snapshot(run)) /\ run # Absent
      BY SnapshotIs, AbsentAssumption DEF AbsentAssumption
    <3> QED
      BY <1>2, <1>3, <2>2, <3>1, <3>2 DEF Agrees, Grows
  <2> QED
    BY <1>3, <2>1, <2>2 DEF Reconcile
<1>4. (mem[r].status = "running" \/ mem[r].checking) => mem[r].delivery = "none"
  BY <1>2 DEF Plain, Agrees
<1>5. CASE Visit(r)
  <2>1. UNCHANGED <<leases, strays, sups, child>> /\ visiting = Absent /\ ~Adopted
    BY <1>1, <1>5 DEF Visit, Adopted
  <2>2. CASE Attachable(r)
    BY <1>1, <1>2, <1>5, <2>1, <2>2 DEF Visit
  <2>3. CASE ~Attachable(r)
    <3> DEFINE run == IF mem[r].status = "running" THEN Lost(r) ELSE Reconciled(r)
    <3>1. Reconcile(r, run)
      BY <1>5, <2>3 DEF Visit
    <3>2. /\ run \in Run /\ run.status # "running" /\ ~run.checking
          /\ run.spawned = mem[r].spawned
          /\ mem[r].delivery = "pending" => run.delivery = "pending"
          /\ mem[r].delivery = "delivered" => run.delivery = "delivered"
      <4>1. CASE mem[r].status = "running"
        BY <1>1, <1>4, <4>1, LostIs
      <4>2. CASE mem[r].status # "running"
        <5>1. \/ run = Reported(mem[r]) /\ (mem[r].checking \/ mem[r].delivery = "none")
              \/ run = mem[r] /\ ~mem[r].checking
          BY <4>2 DEF Reconciled
        <5> QED
          BY <1>1, <1>4, <4>2, <5>1, ReportedIs
      <4> QED
        BY <4>1, <4>2
    <3> HIDE DEF run
    <3> QED
      BY <1>1, <1>2, <1>3, <2>1, <2>3, <3>1, <3>2
  <2> QED
    BY <2>2, <2>3
<1>6. CASE r = visiting /\ Adopted
  <2>1. ~Visit(r) /\ mem[r].status = "running"
    BY <1>1, <1>6 DEF Visit, InLoop, Adopted
  <2>2. CASE UNCHANGED <<mem, saved>> /\ visiting' = Absent
    BY <1>1, <1>2, <1>6, <2>1, <2>2 DEF Agrees
  <2>3. CASE /\ Reconcile(r, Lost(r)) /\ leases' \in {leases, leases \cup {r}}
             /\ strays' = strays \cup {r} /\ UNCHANGED <<sups, child>>
    BY <1>1, <1>2, <1>3, <1>4, <1>6, <2>1, <2>3, LostIs
  <2> QED
    BY <1>6, <2>2, <2>3 DEF Adopted
<1>7. CASE r = visiting /\ Reconciling
  <2>1. /\ ~Visit(r) /\ ~Adopted /\ mem[r].status # "running" /\ Settle(r, mem[r])
        /\ visiting' = Absent /\ UNCHANGED <<leases, strays, sups, child>>
    BY <1>1, <1>7 DEF Visit, InLoop, Adopted, Reconciling
  <2> QED
    BY <1>1, <1>2, <1>3, <1>4, <2>1
<1> QED
  BY <1>5, <1>6, <1>7

(* No promise is at work yet.                                                 *)
LEMMA InitWork == Init => WorkInv
  BY DEF Init, NoRuns, Branch, WorkInv, Plain, Working, Attaching

(* Steps that begin no work and leave the entries as they are.               *)
LEMMA WorkSame ==
  ASSUME AgentsInv, WorkInv, \A r \in Runs : Same(saved[r], saved'[r]),
         point'.saved \in {point.saved, saved},
         \A s \in sups' : s.owned => s \in sups /\ s.run \notin todo' \cup {visiting'},
         \A r \in Runs : child'[r] = "alive" => child[r] = "alive",
         visiting' = visiting \/ visiting' = Absent, restoring' = restoring \/ visiting' = Absent
  PROVE  WorkInv'
<1>1. /\ sups \subseteq Supervisor /\ visiting \in Runs \cup {Absent}
      /\ \A s \in sups : s.owned => saved[s.run] # Absent
      /\ visiting # Absent => saved[visiting] # Absent
  BY DEF AgentsInv, Types, TypeOK, Owners, Awaits, Known, MemIsSaved, Agrees, Supervisor
<1>2. Plain(saved)' /\ Plain(point.saved)'
  BY DEF WorkInv, Plain, Same
<1>3. Working'
  <2>1. ASSUME NEW s \in sups', s.owned
        PROVE  /\ s.run \notin todo' \cup {visiting'}
               /\ saved'[s.run].delivery = "none"
               /\ s.stage \in {"starting", "watching"} => saved'[s.run].status = "running"
               /\ s.stage = "watching" /\ child'[s.run] = "alive" => saved'[s.run].spawned
    <3>1. s \in sups /\ s.run \notin todo' \cup {visiting'}
      BY <2>1
    <3>2. s.run \in Runs /\ saved[s.run] # Absent
      BY <1>1, <2>1, <3>1 DEF Supervisor
    <3>3. Same(saved[s.run], saved'[s.run])
      BY <3>2
    <3> QED
      BY <2>1, <3>1, <3>2, <3>3 DEF WorkInv, Working, Same
  <2>2. \A s, t \in sups' : s.owned /\ t.owned /\ s.run = t.run => s = t
    BY DEF WorkInv, Working
  <2> QED
    BY <2>1, <2>2 DEF Working
<1>4. Attaching'
  BY <1>1 DEF WorkInv, Attaching, Same
<1> QED
  BY <1>2, <1>3, <1>4 DEF WorkInv

(* Steps on the run of one promise, which ends or takes the place of s.       *)
LEMMA WorkOne ==
  ASSUME AgentsInv, WorkInv, NEW s \in sups, s.owned,
         \A q \in Runs \ {s.run} : Same(saved[q], saved'[q]),
         Plain(saved'), point' = point, todo' = todo, visiting' = visiting, restoring' = restoring,
         \A r \in Runs \ {s.run} : child'[r] = "alive" => child[r] = "alive",
         \/ sups' = sups \ {s}
         \/ \E t : /\ sups' = (sups \ {s}) \cup {t} /\ t.run = s.run
                   /\ saved'[s.run].delivery = "none"
                   /\ t.stage \in {"starting", "watching"} => saved'[s.run].status = "running"
                   /\ t.stage = "watching" /\ child'[s.run] = "alive" => saved'[s.run].spawned
  PROVE  WorkInv'
<1>1. /\ sups \subseteq Supervisor /\ visiting \in Runs \cup {Absent}
      /\ \A u \in sups : u.owned => saved[u.run] # Absent
      /\ visiting # Absent => saved[visiting] # Absent
  BY DEF AgentsInv, Types, TypeOK, Owners, Awaits, Known, MemIsSaved, Agrees, Supervisor
<1>2. Plain(point.saved)'
  BY DEF WorkInv
<1>3. s.run \notin todo \cup {visiting}
  BY DEF WorkInv, Working
<1>4. \A u \in sups \ {s} : u.owned => u.run # s.run /\ u.run \in Runs /\ saved[u.run] # Absent
  BY <1>1 DEF WorkInv, Working, Supervisor
<1>5. \A u \in sups \ {s} : u.owned =>
         /\ u.run \notin todo' \cup {visiting'}
         /\ saved'[u.run].delivery = "none"
         /\ u.stage \in {"starting", "watching"} => saved'[u.run].status = "running"
         /\ u.stage = "watching" /\ child'[u.run] = "alive" => saved'[u.run].spawned
  <2> SUFFICES ASSUME NEW u \in sups \ {s}, u.owned
               PROVE  /\ u.run \notin todo' \cup {visiting'}
                      /\ saved'[u.run].delivery = "none"
                      /\ u.stage \in {"starting", "watching"} => saved'[u.run].status = "running"
                      /\ u.stage = "watching" /\ child'[u.run] = "alive" => saved'[u.run].spawned
    OBVIOUS
  <2>1. Same(saved[u.run], saved'[u.run]) /\ saved[u.run] # Absent
        /\ (child'[u.run] = "alive" => child[u.run] = "alive")
    BY <1>4
  <2> QED
    BY <2>1 DEF WorkInv, Working, Same
<1>6. \A u, v \in sups \ {s} : u.owned /\ v.owned /\ u.run = v.run => u = v
  BY DEF WorkInv, Working
<1>7. Working'
  <2>1. CASE sups' = sups \ {s}
    BY <1>5, <1>6, <2>1 DEF Working
  <2>2. ASSUME NEW t, sups' = (sups \ {s}) \cup {t}, t.run = s.run,
               saved'[s.run].delivery = "none",
               t.stage \in {"starting", "watching"} => saved'[s.run].status = "running",
               t.stage = "watching" /\ child'[s.run] = "alive" => saved'[s.run].spawned
        PROVE  Working'
    BY <1>3, <1>4, <1>5, <1>6, <2>2 DEF Working
  <2> QED
    BY <2>1, <2>2
<1>8. Attaching'
  <2>1. visiting # Absent => visiting \in Runs \ {s.run}
    BY <1>1, <1>3
  <2> QED
    BY <1>1, <2>1 DEF WorkInv, Attaching, Same
<1> QED
  BY <1>2, <1>7, <1>8 DEF WorkInv

(* A run begins while no restore is under way: it has no other promise.       *)
LEMMA WorkStarted ==
  ASSUME AgentsInv, WorkInv, ~StartsEarly, NEW r \in Runs, Start(r)
  PROVE  WorkInv'
<1> DEFINE new == [run |-> r, how |-> "run", owned |-> TRUE, stage |-> "starting"]
<1>1. /\ restoring = "no" /\ child[r] = "none" /\ sups' = sups \cup {new} /\ todo' = {}
      /\ child' = [child EXCEPT ![r] = "launching"] /\ Persist(r, NewRun)
      /\ UNCHANGED <<restoring, visiting, point>>
  BY DEF Start
<1>2. todo = {} /\ visiting = Absent /\ sups \subseteq Supervisor
      /\ \A s \in sups : s.run # r
  BY <1>1 DEF AgentsInv, Awaits, Begun, Types, TypeOK
<1>3. /\ saved'[r] # Absent /\ saved'[r].status = "running" /\ saved'[r].delivery = "none"
      /\ \A q \in Runs \ {r} : saved'[q] = saved[q]
  BY <1>1, NewRunIs, PersistDoes DEF Agrees
<1>4. Plain(saved)' /\ Plain(point.saved)'
  BY <1>1, <1>3 DEF WorkInv, Plain
<1>5. Attaching'
  BY <1>1, <1>2 DEF Attaching
<1>6. new.run = r /\ new.owned /\ new.stage = "starting" /\ r # Absent
  BY AbsentAssumption DEF AbsentAssumption
<1>7. \A s \in sups : s.run \in Runs \ {r} /\ child'[s.run] = child[s.run]
  BY <1>1, <1>2 DEF Supervisor, AgentsInv, Types, TypeOK
<1> HIDE DEF new
<1>8. Working'
  BY <1>1, <1>2, <1>3, <1>6, <1>7 DEF WorkInv, Working
<1> QED
  BY <1>4, <1>5, <1>8 DEF WorkInv

(* A promise whose child is alive has told so in the entry.                   *)
LEMMA WorkSpawned ==
  ASSUME AgentsInv, WorkInv, NEW s \in sups, Spawn(s)
  PROVE  WorkInv'
<1> DEFINE t == [s EXCEPT !.stage = "watching"]
           r == s.run
           run == [mem[r] EXCEPT !.spawned = TRUE]
<1>1. /\ s.stage = "starting" /\ sups' = (sups \ {s}) \cup {t}
      /\ UNCHANGED <<up, restoring, todo, visiting, receipts, read, leases, strays, point, changes>>
  BY DEF Spawn, At
<1>2. /\ s \in Supervisor /\ r \in Runs
      /\ t \in Supervisor /\ t.run = s.run /\ t.owned = s.owned /\ t.stage = "watching"
  BY DEF AgentsInv, Types, TypeOK, Supervisor
<1> HIDE DEF t
<1>3. \A q \in Runs \ {r} : child'[q] = child[q]
  BY DEF Spawn, Persist, AgentsInv, Types, TypeOK
<1>4. CASE s.owned /\ ~mem[r].cancel
  <2>1. Persist(r, run)
    BY <1>4 DEF Spawn
  <2>2. mem[r] \in Run /\ mem[r] # Absent /\ Agrees(mem[r], saved[r])
    BY <1>2, <1>4 DEF AgentsInv, Owners, Known, Types, TypeOK, MemIsSaved
  <2>3. /\ run \in Run /\ run.status = mem[r].status /\ run.delivery = mem[r].delivery
        /\ run.checking = mem[r].checking /\ run.spawned
    BY <2>2 DEF Run
  <2> HIDE DEF run
  <2>4. /\ Agrees(run, saved'[r]) /\ run # Absent
        /\ \A q \in Runs \ {r} : saved'[q] = saved[q]
    BY <1>2, <2>1, <2>3, PersistDoes
  <2>5. saved'[r].delivery = "none" /\ saved'[r].status = "running" /\ saved'[r].spawned
    BY <1>1, <1>2, <1>4, <2>2, <2>3, <2>4 DEF Agrees, WorkInv, Working
  <2>6. Plain(saved')
    BY <2>4, <2>5 DEF WorkInv, Plain
  <2>7. \A q \in Runs \ {r} : Same(saved[q], saved'[q])
    BY <2>4 DEF Same
  <2> QED
    BY <1>1, <1>2, <1>3, <1>4, <2>5, <2>6, <2>7, WorkOne
<1>5. CASE s.owned /\ mem[r].cancel
  <2>1. saved' = saved /\ child' = [child EXCEPT ![r] = "aborting"]
    BY <1>5 DEF Spawn
  <2>2. child'[r] # "alive"
    BY <1>2, <2>1 DEF AgentsInv, Types, TypeOK
  <2>3. saved'[r].delivery = "none" /\ saved'[r].status = "running"
    BY <1>1, <1>5, <2>1 DEF WorkInv, Working
  <2>4. Plain(saved') /\ \A q \in Runs \ {r} : Same(saved[q], saved'[q])
    BY <2>1 DEF WorkInv, Same
  <2> QED
    BY <1>1, <1>2, <1>3, <1>5, <2>2, <2>3, <2>4, WorkOne
<1>6. CASE ~s.owned
  <2>1. saved' = saved /\ child' = [child EXCEPT ![r] = "aborting"]
    BY <1>6 DEF Spawn
  <2>2. \A q \in Runs : child'[q] = "alive" => child[q] = "alive"
    BY <1>2, <2>1 DEF AgentsInv, Types, TypeOK
  <2>3. \A u \in sups' : u.owned => u \in sups /\ u.run \notin todo' \cup {visiting'}
    BY <1>1, <1>2, <1>6 DEF WorkInv, Working
  <2>4. \A q \in Runs : Same(saved[q], saved'[q])
    BY <2>1 DEF Same
  <2> QED
    BY <1>1, <2>2, <2>3, <2>4, WorkSame
<1> QED
  BY <1>4, <1>5, <1>6

(* The promise goes on to mark and to verify what has ended, or ends.         *)
LEMMA WorkFinished ==
  ASSUME AgentsInv, WorkInv, NEW s \in sups, Finish(s) \/ Marked(s) \/ Verified(s)
  PROVE  WorkInv'
<1> DEFINE r == s.run
           ends == [mem[r] EXCEPT !.status = child[r], !.delivery = "none", !.queued = FALSE,
                                  !.checking = IF r \in Worktree /\ child[r] = "complete"
                                               THEN TRUE ELSE @]
<1>1. /\ s.owned /\ s \in Supervisor /\ r \in Runs /\ mem[r] \in Run
      /\ UNCHANGED <<restoring, todo, visiting, child, point>>
  BY DEF Finish, Marked, Verified, AgentsInv, Owners, Known, Types, TypeOK, Supervisor
<1>2. ASSUME NEW run \in Run, Report(s, run), run.status # "running"
      PROVE  WorkInv'
  <2>1. /\ sups' = sups \ {s} /\ \A q \in Runs \ {r} : Same(saved[q], saved'[q])
        /\ saved'[r] # Absent /\ ~saved'[r].checking /\ saved'[r].status = run.status
    BY <1>1, <1>2, ReportSaves DEF Ends
  <2>2. Plain(saved')
    BY <1>2, <2>1 DEF WorkInv, Plain, Same
  <2> QED
    BY <1>1, <2>1, <2>2, WorkOne
<1>3. CASE Finish(s)
  <2>1. /\ child[r] \in Ended
        /\ \/ /\ sups' = (sups \ {s}) \cup {[s EXCEPT !.stage = "marking"]}
              /\ Persist(r, ends)
           \/ Report(s, ends)
    BY <1>3 DEF Finish
  <2>2. ends \in Run /\ ends.status = child[r] /\ ends.delivery = "none"
    BY <1>1, <2>1 DEF Run, Ended, Statuses
  <2> HIDE DEF ends
  <2>3. ends.status # "running"
    BY <2>1, <2>2 DEF Ended
  <2>4. CASE Report(s, ends)
    BY <1>2, <2>2, <2>3, <2>4
  <2>5. CASE /\ sups' = (sups \ {s}) \cup {[s EXCEPT !.stage = "marking"]}
             /\ Persist(r, ends)
    <3> DEFINE t == [s EXCEPT !.stage = "marking"]
    <3>1. t.run = r /\ t.stage = "marking" /\ sups' = (sups \ {s}) \cup {t}
      BY <1>1, <2>5 DEF Supervisor
    <3> HIDE DEF t
    <3>2. /\ Agrees(ends, saved'[r]) /\ ends # Absent
          /\ \A q \in Runs \ {r} : saved'[q] = saved[q]
      BY <1>1, <2>2, <2>5, PersistDoes, AbsentAssumption DEF AbsentAssumption
    <3>3. saved'[r].delivery = "none" /\ \A q \in Runs \ {r} : Same(saved[q], saved'[q])
      BY <2>2, <3>2 DEF Agrees, Same
    <3>4. Plain(saved')
      BY <3>2, <3>3 DEF WorkInv, Plain
    <3> QED
      BY <1>1, <3>1, <3>3, <3>4, WorkOne
  <2> QED
    BY <2>1, <2>4, <2>5
<1>4. ASSUME s.stage \in {"marking", "verifying"}, Report(s, mem[r])
      PROVE  WorkInv'
  BY <1>1, <1>2, <1>4 DEF AgentsInv, Judged
<1>5. CASE Verified(s)
  BY <1>4, <1>5 DEF Verified, At
<1>6. CASE Marked(s)
  <2> DEFINE t == [s EXCEPT !.stage = "verifying"]
  <2>1. s.stage = "marking"
    BY <1>6 DEF Marked, At
  <2>2. CASE Report(s, mem[r])
    BY <1>4, <2>1, <2>2
  <2>3. CASE sups' = (sups \ {s}) \cup {t} /\ saved' = saved
    <3>1. t.run = r /\ t.stage = "verifying"
      BY <1>1 DEF Supervisor
    <3> HIDE DEF t
    <3>2. /\ saved'[r].delivery = "none" /\ \A q \in Runs \ {r} : Same(saved[q], saved'[q])
          /\ Plain(saved')
      BY <1>1, <2>3 DEF WorkInv, Working, Same
    <3> QED
      BY <1>1, <2>3, <3>1, <3>2, WorkOne
  <2> QED
    BY <1>6, <2>2, <2>3 DEF Marked
<1> QED
  BY <1>3, <1>5, <1>6

(* A restore works on a run that no promise owns.                             *)
LEMMA WorkRestored ==
  ASSUME AgentsInv, WorkInv, NEW r \in Runs,
         \/ Visit(r)
         \/ r = visiting /\ (Adopted \/ Reconciling)
  PROVE  WorkInv'
<1>1. /\ up /\ saved[r] # Absent /\ mem[r] # Absent /\ Agrees(mem[r], saved[r])
      /\ \A q \in Runs \ {r} : saved'[q] = saved[q]
      /\ r # Absent /\ sups \subseteq Supervisor /\ visiting \in Runs \cup {Absent}
  BY RestoreSaves, AbsentAssumption
     DEF AbsentAssumption, WorkInv, AgentsInv, MemIsSaved, Agrees, Types, TypeOK
<1>2. /\ r \notin todo' /\ r \in todo \cup {visiting} /\ todo' \subseteq todo
      /\ UNCHANGED <<up, restoring, point>> /\ visiting \in {Absent, r}
  BY <1>1 DEF Visit, InLoop, Adopted, Reconciling, AgentsInv, Awaits
<1>3. \A s \in sups : s.owned => s.run \in Runs \ {r} /\ s.run # Absent
  BY <1>1, <1>2, AbsentAssumption DEF AbsentAssumption, WorkInv, Working, Supervisor
<1>4. CASE /\ saved'[r] # Absent /\ saved'[r].status # "running"
           /\ saved'[r].checking => saved'[r].delivery = "none"
           /\ visiting' \in {Absent, r} /\ UNCHANGED <<sups, child>>
  <2>1. Plain(saved)' /\ Plain(point.saved)'
    BY <1>1, <1>2, <1>4 DEF WorkInv, Plain
  <2>2. Working'
    BY <1>1, <1>2, <1>3, <1>4 DEF WorkInv, Working
  <2>3. Attaching'
    BY <1>4 DEF Attaching
  <2> QED
    BY <2>1, <2>2, <2>3 DEF WorkInv
<1>5. CASE /\ saved' = saved /\ Visit(r) /\ Attachable(r) /\ visiting' = r
           /\ UNCHANGED <<sups, child>>
  <2>1. Plain(saved)' /\ Plain(point.saved)'
    BY <1>2, <1>5 DEF WorkInv
  <2>2. Working'
    BY <1>1, <1>2, <1>3, <1>5 DEF WorkInv, Working
  <2>3. Attaching'
    BY <1>1, <1>2, <1>5 DEF Attachable, Attaching, Agrees
  <2> QED
    BY <2>1, <2>2, <2>3 DEF WorkInv
<1>6. CASE saved' = saved /\ Adopted /\ visiting' = Absent /\ saved[r].status = "running"
  <2> DEFINE new == [run |-> r, how |-> "attach", owned |-> TRUE, stage |-> "watching"]
  <2>1. visiting = r
    BY <1>1, <1>2, <1>6 DEF Adopted
  <2>2. Plain(saved)' /\ Plain(point.saved)' /\ Attaching'
    BY <1>2, <1>6 DEF WorkInv, Attaching
  <2>3. saved[r].delivery = "none" /\ saved[r].spawned
    BY <1>1, <1>6, <2>1 DEF WorkInv, Plain, Attaching
  <2>4. new.run = r /\ new.stage = "watching"
    OBVIOUS
  <2>5. /\ sups' \subseteq sups \cup {new}
        /\ \A q \in Runs : child'[q] = "alive" => child[q] = "alive"
    BY <1>6, <2>1 DEF Adopted, Reconcile, AgentsInv, Types, TypeOK
  <2> HIDE DEF new
  <2>6. Working'
    BY <1>1, <1>2, <1>3, <1>6, <2>3, <2>4, <2>5 DEF WorkInv, Working
  <2> QED
    BY <2>2, <2>6 DEF WorkInv
<1> QED
  BY <1>4, <1>5, <1>6, RestoreSaves DEF WorkInv

(* Every step keeps promises and runs in step.                                *)
LEMMA StepWork ==
  ASSUME AgentsInv, WorkInv, ~StartsEarly, [Next]_vars
  PROVE  WorkInv'
<1>1. ASSUME NEW r \in Runs, Start(r)
      PROVE  WorkInv'
  BY <1>1, WorkStarted
<1>2. ASSUME NEW s \in sups, Spawn(s) \/ Finish(s) \/ Marked(s) \/ Verified(s)
      PROVE  WorkInv'
  BY <1>2, WorkSpawned, WorkFinished
<1>3. CASE (\E r \in Runs : Visit(r)) \/ Adopted \/ Reconciling
  <2>1. Adopted \/ Reconciling => visiting \in Runs
    BY DEF Adopted, Reconciling, AgentsInv, Types, TypeOK
  <2> QED
    BY <1>3, <2>1, WorkRestored
<1>4. \A s \in sups : s.owned => s.run \notin todo \cup {visiting}
  BY DEF WorkInv, Working
<1>5. CASE Settled \/ RestoreEnds \/ \E r \in Runs : Status(r) \/ Stop(r)
  <2>1. \A q \in Runs : Same(saved[q], saved'[q])
    BY <1>5, AcknowledgedOnly
  <2>2. /\ UNCHANGED <<point, todo, visiting, sups>>
        /\ restoring' = restoring \/ visiting' = Absent
        /\ \A q \in Runs : child'[q] = "alive" => child[q] = "alive"
    BY <1>5, AbortDoes DEF Settled, RestoreEnds, Status, Stop, sessionVars, branch, InLoop
  <2> QED
    BY <1>4, <2>1, <2>2, WorkSame
<1>6. CASE \/ TurnStarts \/ Record \/ Remember \/ UNCHANGED vars
           \/ \E r \in Runs, how \in Ended : ChildEnds(r, how)
           \/ \E s \in sups : Abandon(s)
  <2>1. /\ UNCHANGED <<saved, restoring, todo, visiting>> /\ sups' \subseteq sups
        /\ point'.saved \in {point.saved, saved}
    BY <1>6 DEF TurnStarts, Record, Remember, ChildEnds, Abandon, Ends, Branch, vars,
                sessionVars, branch
  <2>2. \A q \in Runs : child'[q] = "alive" => child[q] = "alive"
    BY <1>6 DEF TurnStarts, Record, Remember, ChildEnds, Abandon, vars, Ended,
                AgentsInv, Types, TypeOK
  <2>3. \A q \in Runs : Same(saved[q], saved'[q])
    BY <2>1 DEF Same
  <2> QED
    BY <1>4, <2>1, <2>2, <2>3, WorkSame
<1>7. CASE Tree \/ Reload \/ Open \/ \E orderly \in BOOLEAN : Exit(orderly)
  <2>1. sups \subseteq Supervisor
    BY DEF AgentsInv, Types, TypeOK
  <2>2. (\A s \in sups' : ~s.owned) /\ visiting' = Absent
    <3>1. CASE Tree
      BY <2>1, <3>1, DisownDoes DEF Tree, Load, Disowned
    <3>2. CASE Reload
      <4> DEFINE detached == {s \in sups : /\ s.owned /\ s.stage = "watching"
                                           /\ s.run \in Pane /\ mem[s.run].spawned}
      <4>1. sups' = {[s EXCEPT !.owned = FALSE] : s \in sups \ detached}
            /\ visiting' = visiting /\ restoring = "no"
        BY <3>2 DEF Reload, Quiet
      <4>2. sups \ detached \in SUBSET sups
        OBVIOUS
      <4> QED
        BY <2>1, <4>1, <4>2, DisownDoes DEF AgentsInv, Awaits
    <3>3. CASE Open
      BY <3>3 DEF Open, Load, AgentsInv, Owners
    <3>4. CASE \E orderly \in BOOLEAN : Exit(orderly)
      BY <3>4 DEF Exit
    <3> QED
      BY <1>7, <3>1, <3>2, <3>3, <3>4
  <2>3. Plain(saved)' /\ Plain(point.saved)'
    BY <1>7 DEF Tree, Reload, Open, Exit, Branch, branch, WorkInv
  <2> QED
    BY <2>2, <2>3 DEF WorkInv, Working, Attaching
<1> QED
  BY <1>1, <1>2, <1>3, <1>5, <1>6, <1>7 DEF Next, Watch

------------------------------------------------------------------------------
(* A pane that waits for a restore to attach it.                             *)
Waits(r) ==
  /\ saved[r] # Absent /\ saved[r].status = "running" /\ saved[r].spawned /\ r \in Pane
  /\ up => restoring = "start" /\ r \in todo \cup {visiting}

LeaseHeld == \A r \in leases \ strays : (\E s \in sups : s.run = r) \/ Waits(r)
AliveHeld == \A r \in Runs \ strays : child[r] = "alive" => Held(r) \/ Waits(r)

HeldInv == LeaseHeld /\ AliveHeld

(* Nothing is leased and nothing is alive.                                    *)
LEMMA InitHeld == Init => HeldInv
  BY DEF Init, HeldInv, LeaseHeld, AliveHeld

(* What a step must not do to a lease or to a child at work.                 *)
LEMMA HeldStays ==
  ASSUME HeldInv,
         \A q \in leases' \ strays' :
           \/ q \in leases \ strays /\ ((\E s \in sups : s.run = q) \/ Waits(q)
                               => (\E s \in sups' : s.run = q) \/ Waits(q)')
           \/ \E s \in sups' : s.run = q,
         \A q \in Runs \ strays' : child'[q] = "alive" =>
           \/ q \notin strays /\ child[q] = "alive"
              /\ (Held(q) \/ Waits(q) => Held(q)' \/ Waits(q)')
           \/ Held(q)'
  PROVE  HeldInv'
  BY DEF HeldInv, LeaseHeld, AliveHeld

(* A pane goes on waiting while its entry and the restore stay.               *)
LEMMA SameWaits ==
  ASSUME NEW q, Same(saved[q], saved'[q]), UNCHANGED <<up, restoring, todo, visiting>>
  PROVE  Waits(q) => Waits(q)'
  BY DEF Waits, Same

(* No run of an instance waits once its restore is over, nor one that a       *)
(* promise owns.                                                            *)
LEMMA NoneWaits ==
  ASSUME AgentsInv, WorkInv
  PROVE  /\ up /\ restoring = "no" => \A q \in Runs : ~Waits(q)
         /\ \A s \in sups : s.owned => ~Waits(s.run)
  BY DEF Waits, AgentsInv, Owners, WorkInv, Working

(* A promise that reports has no child left to control.                       *)
LEMMA HeldFinished ==
  ASSUME AgentsInv, WorkInv, HeldInv, NEW s \in sups, Finish(s) \/ Marked(s) \/ Verified(s)
  PROVE  HeldInv'
<1> DEFINE r == s.run
           ends == [mem[r] EXCEPT !.status = child[r], !.delivery = "none", !.queued = FALSE,
                                  !.checking = IF r \in Worktree /\ child[r] = "complete"
                                               THEN TRUE ELSE @]
<1>1. /\ s.owned /\ s \in Supervisor /\ r \in Runs /\ mem[r] \in Run /\ leases \subseteq Runs
      /\ UNCHANGED <<up, restoring, todo, visiting, child, point>>
  BY DEF Finish, Marked, Verified, AgentsInv, Owners, Known, Types, TypeOK, Supervisor
<1>2. r \in strays \/ child[r] # "alive"
  <2>1. s.stage \in {"starting", "watching"} => child[r] # "alive"
    BY DEF Finish, Marked, Verified, At, Ended
  <2>2. s.stage \notin {"starting", "watching"} => ~Held(r)
    BY <1>1 DEF Held, WorkInv, Working
  <2>3. ~Waits(r)
    BY <1>1, NoneWaits
  <2> QED
    BY <1>1, <2>1, <2>2, <2>3 DEF HeldInv, AliveHeld
<1>3. /\ \A q \in Runs \ {r} : Same(saved[q], saved'[q])
      /\ \/ /\ sups' = sups \ {s}
            /\ \/ leases' = leases \ {r} /\ strays' = strays
               \/ leases' = leases /\ strays' = strays \cup {r}
         \/ \E t : /\ sups' = (sups \ {s}) \cup {t} /\ t.run = r
                   /\ UNCHANGED <<leases, strays>>
  <2>1. CASE Finish(s)
    <3>1. /\ child[r] \in Ended
          /\ \/ /\ sups' = (sups \ {s}) \cup {[s EXCEPT !.stage = "marking"]}
                /\ Persist(r, ends) /\ UNCHANGED <<leases, strays>>
             \/ Report(s, ends)
      BY <2>1 DEF Finish
    <3>2. ends \in Run
      BY <1>1, <3>1 DEF Run, Ended, Statuses
    <3> HIDE DEF ends
    <3>3. CASE Report(s, ends)
      BY <1>1, <3>2, <3>3, ReportSaves DEF Ends
    <3>4. CASE /\ sups' = (sups \ {s}) \cup {[s EXCEPT !.stage = "marking"]}
               /\ Persist(r, ends) /\ UNCHANGED <<leases, strays>>
      <4>1. [s EXCEPT !.stage = "marking"].run = r
        BY <1>1 DEF Supervisor
      <4>2. \A q \in Runs \ {r} : saved'[q] = saved[q]
        BY <1>1, <3>2, <3>4, PersistDoes
      <4> QED
        BY <3>4, <4>1, <4>2 DEF Same
    <3> QED
      BY <3>1, <3>3, <3>4
  <2>2. CASE Report(s, mem[r])
    BY <1>1, <2>2, ReportSaves DEF Ends
  <2>3. CASE sups' = (sups \ {s}) \cup {[s EXCEPT !.stage = "verifying"]} /\ saved' = saved
             /\ UNCHANGED <<leases, strays>>
    <3>1. [s EXCEPT !.stage = "verifying"].run = r
      BY <1>1 DEF Supervisor
    <3> QED
      BY <2>3, <3>1 DEF Same
  <2> QED
    BY <2>1, <2>2, <2>3 DEF Finish, Marked, Verified
<1>4. ASSUME NEW q \in Runs, q # r
      PROVE  /\ Waits(q) => Waits(q)'
             /\ Held(q) => Held(q)'
             /\ (\E u \in sups : u.run = q) => (\E u \in sups' : u.run = q)
  <2>1. Waits(q) => Waits(q)'
    BY <1>1, <1>3, <1>4, SameWaits
  <2>2. \A u \in sups : u.run = q => u \in sups'
    BY <1>3, <1>4
  <2> QED
    BY <2>1, <2>2 DEF Held
<1>5. \A q \in leases' \ strays' : q = r => \E u \in sups' : u.run = q
  BY <1>3
<1>6. leases' \subseteq leases /\ strays \subseteq strays'
  BY <1>3
<1> QED
  BY <1>1, <1>2, <1>4, <1>5, <1>6, HeldStays

(* A change of session aborts the children or leaves panes that wait.         *)
LEMMA HeldChanged ==
  ASSUME AgentsInv, WorkInv, HeldInv,
         Tree \/ Reload \/ Open \/ \E orderly \in BOOLEAN : Exit(orderly)
  PROVE  HeldInv'
<1>0. /\ leases \subseteq Runs /\ sups \subseteq Supervisor /\ child \in [Runs -> {"none", "launching"} \cup Live \cup Ended]
      /\ \A q \in Runs \ strays : child[q] = "alive" => Held(q) \/ Waits(q)
      /\ \A q \in leases \ strays : (\E s \in sups : s.run = q) \/ Waits(q)
  BY DEF AgentsInv, Types, TypeOK, HeldInv, AliveHeld, LeaseHeld
<1>1. CASE Tree
  <2>1. up /\ restoring = "no" /\ UNCHANGED <<leases, strays>> /\ sups' = Disowned /\ Abort(Runs)
    BY <1>1 DEF Tree, Quiet
  <2>2. \A q \in Runs : ~Waits(q)
    BY <2>1, NoneWaits
  <2>3. \A t \in sups : \E s \in sups' : s.run = t.run
    BY <1>0, <2>1, DisownDoes DEF Disowned
  <2>4. \A q \in Runs : child'[q] = "alive" => child[q] = "alive" /\ ~Held(q)
    BY <2>1 DEF Abort
  <2> QED
    BY <1>0, <2>1, <2>2, <2>3, <2>4 DEF HeldInv, LeaseHeld, AliveHeld
<1>2. CASE Reload
  <2> DEFINE detached == {s \in sups : /\ s.owned /\ s.stage = "watching"
                                       /\ s.run \in Pane /\ mem[s.run].spawned}
  <2>1. /\ up /\ restoring = "no" /\ up' = FALSE /\ UNCHANGED <<leases, strays>> /\ saved' = saved
        /\ sups' = {[s EXCEPT !.owned = FALSE] : s \in sups \ detached}
        /\ Abort(Runs \ {s.run : s \in detached})
    BY <1>2 DEF Reload, Quiet, branch
  <2>2. \A q \in Runs : ~Waits(q)
    BY <2>1, NoneWaits
  <2>3. sups \ detached \in SUBSET sups
    OBVIOUS
  <2>4. \A t \in sups \ detached : \E s \in sups' : s.run = t.run
    BY <1>0, <2>1, <2>3, DisownDoes
  <2>5. ASSUME NEW s \in detached
        PROVE  Waits(s.run)'
    <3>1. /\ s \in sups /\ s.owned /\ s.stage = "watching" /\ s.run \in Pane /\ mem[s.run].spawned
          /\ s.run \in Runs
      BY <1>0 DEF Supervisor
    <3>2. Agrees(mem[s.run], saved[s.run]) /\ mem[s.run] # Absent
      BY <2>1, <3>1 DEF AgentsInv, MemIsSaved, Owners, Known
    <3>3. saved[s.run].status = "running"
      BY <3>1 DEF WorkInv, Working
    <3> QED
      BY <2>1, <3>1, <3>2, <3>3 DEF Waits, Agrees
  <2>6. ASSUME NEW q \in Runs \ strays, child'[q] = "alive"
        PROVE  Waits(q)'
    <3>1. child[q] = "alive" /\ (Held(q) => q \in {s.run : s \in detached})
      BY <2>1, <2>6 DEF Abort
    <3>2. Held(q)
      BY <1>0, <2>2, <2>6, <3>1
    <3> QED
      BY <2>5, <3>1, <3>2
  <2>7. \A q \in leases' \ strays : (\E s \in sups' : s.run = q) \/ Waits(q)'
    <3> SUFFICES ASSUME NEW q \in leases \ strays
                 PROVE  (\E s \in sups' : s.run = q) \/ Waits(q)'
      BY <2>1
    <3>1. PICK s \in sups : s.run = q
      BY <1>0, <2>2
    <3>2. CASE s \in detached
      BY <2>5, <3>1, <3>2
    <3>3. CASE s \in sups \ detached
      BY <2>4, <3>1, <3>3
    <3> QED
      BY <3>1, <3>2, <3>3
  <2> QED
    BY <2>1, <2>6, <2>7 DEF HeldInv, LeaseHeld, AliveHeld
<1>3. CASE Open
  <2>1. /\ ~up /\ up' = TRUE /\ restoring' = "start" /\ todo' = {r \in Runs : saved[r] # Absent}
        /\ saved' = saved /\ UNCHANGED <<sups, leases, strays, child>>
    BY <1>3 DEF Open, Load, branch
  <2>2. \A q \in Runs : Waits(q) => Waits(q)'
    BY <2>1 DEF Waits
  <2>3. \A q \in Runs : Held(q) => Held(q)'
    BY <2>1 DEF Held
  <2> QED
    BY <1>0, <2>1, <2>2, <2>3 DEF HeldInv, LeaseHeld, AliveHeld
<1>4. ASSUME NEW orderly \in BOOLEAN, Exit(orderly)
      PROVE  HeldInv'
  <2>1. /\ up /\ up' = FALSE /\ leases' = {} /\ strays' = strays /\ saved' = saved /\ (orderly => restoring = "no")
    BY <1>4 DEF Exit, Quiet, branch
  <2>2. ASSUME NEW q \in Runs \ strays, child'[q] = "alive"
        PROVE  Waits(q)'
    <3>1. child[q] = "alive" /\ q \in Pane /\ ~(orderly /\ Held(q))
      BY <1>0, <1>4, <2>2 DEF Exit, Live
    <3>2. CASE Waits(q)
      BY <2>1, <3>2 DEF Waits
    <3>3. CASE Held(q)
      <4>1. PICK s \in sups : s.run = q /\ s.owned /\ s.stage = "watching"
        BY <3>3 DEF Held
      <4>2. saved[q].status = "running" /\ saved[q].spawned
        BY <3>1, <4>1 DEF WorkInv, Working
      <4>3. saved[q] # Absent
        BY <2>1, <4>1 DEF AgentsInv, MemIsSaved, Owners, Known, Agrees
      <4> QED
        BY <2>1, <3>1, <4>2, <4>3 DEF Waits
    <3> QED
      BY <1>0, <2>2, <3>1, <3>2, <3>3
  <2> QED
    BY <2>1, <2>2 DEF HeldInv, LeaseHeld, AliveHeld
<1> QED
  BY <1>1, <1>2, <1>3, <1>4

(* A restore attaches the pane that waits for it.                             *)
LEMMA HeldRestored ==
  ASSUME AgentsInv, WorkInv, HeldInv, NEW r \in Runs,
         \/ Visit(r)
         \/ r = visiting /\ (Adopted \/ Reconciling)
  PROVE  HeldInv'
<1>1. /\ up /\ saved[r] # Absent /\ mem[r] # Absent /\ Agrees(mem[r], saved[r])
      /\ \A q \in Runs \ {r} : saved'[q] = saved[q]
      /\ r # Absent /\ visiting \in Runs \cup {Absent} /\ leases \subseteq Runs
  BY RestoreSaves, AbsentAssumption
     DEF AbsentAssumption, WorkInv, AgentsInv, MemIsSaved, Agrees, Types, TypeOK
<1>2. /\ todo' = todo \ {r} /\ r \in todo \cup {visiting} /\ visiting \in {Absent, r}
      /\ UNCHANGED <<up, restoring>>
  BY <1>1 DEF Visit, InLoop, Adopted, Reconciling, AgentsInv, Awaits
<1>3. \A s \in sups : s.owned => s.run # r
  BY <1>2 DEF WorkInv, Working
<1>4. \A q \in Runs \ {r} : Waits(q) => Waits(q)'
  BY <1>1, <1>2, AbsentAssumption DEF AbsentAssumption, Waits
<1>5. CASE saved' = saved /\ Visit(r) /\ Attachable(r) /\ visiting' = r
           /\ UNCHANGED <<leases, strays, sups, child>>
  <2>1. \A q \in Runs : Waits(q) => Waits(q)'
    BY <1>2, <1>4, <1>5 DEF Waits
  <2>2. \A q \in Runs : Held(q) => Held(q)'
    BY <1>5 DEF Held
  <2> QED
    BY <1>1, <1>5, <2>1, <2>2, HeldStays
<1>6. CASE saved' = saved /\ Adopted /\ visiting' = Absent /\ saved[r].status = "running"
  <2> DEFINE new == [run |-> r, how |-> "attach", owned |-> TRUE, stage |-> "watching"]
  <2>1. visiting = r
    BY <1>1, <1>2, <1>6 DEF Adopted
  <2>2. CASE /\ leases' = leases \cup {r} /\ strays' = strays \ {r} /\ sups' = sups \cup {new}
             /\ child' = IF mem[r].cancel /\ child[r] = "alive"
                         THEN [child EXCEPT ![r] = "aborting"] ELSE child
    <3>1. new.run = r /\ new.owned /\ new.stage = "watching"
      OBVIOUS
    <3> HIDE DEF new
    <3>2. Held(r)' /\ \A q \in Runs : Held(q) => Held(q)'
      BY <2>2, <3>1 DEF Held
    <3>3. \A q \in Runs : child'[q] = "alive" => child[q] = "alive"
      BY <2>2 DEF AgentsInv, Types, TypeOK
    <3>4. \A q : q # r => (q \in leases' <=> q \in leases) /\ (q \in strays' <=> q \in strays)
      BY <2>2
    <3>5. \A s \in sups : s \in sups'
      BY <2>2
    <3>6. \E s \in sups' : s.run = r
      BY <2>2, <3>1
    <3> QED
      BY <1>1, <1>4, <3>2, <3>3, <3>4, <3>5, <3>6, HeldStays
  <2>3. CASE /\ leases' \subseteq leases \cup {r} /\ strays' = strays \cup {r}
             /\ UNCHANGED <<sups, child>>
    <3>1. \A q \in Runs : Held(q) => Held(q)'
      BY <2>3 DEF Held
    <3> QED
      BY <1>1, <1>4, <2>3, <3>1, HeldStays
  <2> QED
    BY <1>6, <2>1, <2>2, <2>3 DEF Adopted
<1>7. CASE /\ UNCHANGED <<sups, child>>
           /\ \/ ~Adopted /\ UNCHANGED <<leases, strays>>
              \/ leases' \subseteq leases \cup {r} /\ strays' = strays \cup {r}
           /\ Visit(r) => ~Attachable(r)
  <2>1. ~Held(r)
    BY <1>3 DEF Held
  <2>2. \A q \in Runs \ {r} : Held(q) => Held(q)'
    BY <1>7 DEF Held
  <2>3. CASE strays' = strays \cup {r} /\ leases' \subseteq leases \cup {r}
    BY <1>1, <1>4, <1>7, <2>2, <2>3, HeldStays
  <2>4. CASE ~Adopted /\ UNCHANGED <<leases, strays>>
    <3>1. ~Waits(r)
      <4>1. CASE Visit(r)
        BY <1>1, <1>7, <4>1 DEF Waits, Attachable, Agrees
      <4>2. CASE r = visiting /\ Reconciling
        BY <1>1, <4>2 DEF Waits, Reconciling, Agrees
      <4> QED
        BY <2>4, <4>1, <4>2
    <3> QED
      BY <1>1, <1>4, <1>7, <2>1, <2>2, <3>1, HeldStays
  <2> QED
    BY <1>7, <2>3, <2>4
<1> QED
  BY <1>5, <1>6, <1>7, RestoreSaves DEF WorkInv

(* Every step keeps each lease and each child with its promise.               *)
LEMMA StepHeld ==
  ASSUME AgentsInv, WorkInv, HeldInv, ~StartsEarly, [Next]_vars
  PROVE  HeldInv'
<1>0. /\ leases \subseteq Runs /\ sups \subseteq Supervisor /\ saved \in [Runs -> Entry]
      /\ child \in [Runs -> {"none", "launching"} \cup Live \cup Ended]
  BY DEF AgentsInv, Types, TypeOK, Entry
<1>1. ASSUME NEW r \in Runs, Start(r)
      PROVE  HeldInv'
  <2> DEFINE new == [run |-> r, how |-> "run", owned |-> TRUE, stage |-> "starting"]
  <2>1. /\ up /\ restoring = "no" /\ sups' = sups \cup {new} /\ leases' = leases \cup {r}
        /\ strays' = strays
        /\ child' = [child EXCEPT ![r] = "launching"] /\ new.run = r
    BY <1>1 DEF Start
  <2> HIDE DEF new
  <2>2. \A q \in Runs : ~Waits(q)
    BY <2>1, NoneWaits
  <2>3. \A q \in Runs : Held(q) => Held(q)'
    BY <2>1 DEF Held
  <2>4. \A q \in Runs : child'[q] = "alive" => child[q] = "alive"
    BY <1>0, <2>1
  <2>5. \A s \in sups : s \in sups'
    BY <2>1
  <2>6. \E s \in sups' : s.run = r
    BY <2>1
  <2>7. \A q \in leases' : q = r \/ q \in leases
    BY <2>1
  <2> QED
    BY <1>0, <2>1, <2>2, <2>3, <2>4, <2>5, <2>6, <2>7, HeldStays
<1>2. ASSUME NEW s \in sups, Spawn(s)
      PROVE  HeldInv'
  <2> DEFINE r == s.run
             t == [s EXCEPT !.stage = "watching"]
             run == [mem[r] EXCEPT !.spawned = TRUE]
  <2>1. /\ s.stage = "starting" /\ sups' = (sups \ {s}) \cup {t}
        /\ UNCHANGED <<up, restoring, todo, visiting, leases, strays>>
    BY <1>2 DEF Spawn, At
  <2>2. r \in Runs /\ t.run = r /\ t.owned = s.owned /\ t.stage = "watching"
    BY <1>0 DEF Supervisor
  <2> HIDE DEF t
  <2>3. \A q \in Runs : Held(q) => Held(q)'
    BY <2>1 DEF Held
  <2>4. \A q \in Runs : (\E u \in sups : u.run = q) => (\E u \in sups' : u.run = q)
    BY <2>1, <2>2
  <2>5. \/ saved' = saved /\ child' = [child EXCEPT ![r] = "aborting"]
        \/ s.owned /\ Persist(r, run) /\ child' = [child EXCEPT ![r] = "alive"]
    BY <1>2 DEF Spawn
  <2>6. \A q \in Runs : child'[q] = "alive" => child[q] = "alive" \/ Held(q)'
    BY <1>0, <2>1, <2>2, <2>5 DEF Held
  <2>7. \A q \in Runs : Waits(q) => Waits(q)' \/ Held(q)'
    <3>1. CASE saved' = saved
      BY <2>1, <3>1, SameWaits DEF Same
    <3>2. CASE s.owned /\ Persist(r, run)
      <4>1. mem[r] \in Run
        BY <2>2, <3>2 DEF AgentsInv, Owners, Known, Types, TypeOK
      <4>2. run \in Run
        BY <4>1 DEF Run
      <4> HIDE DEF run
      <4>3. \A q \in Runs \ {r} : saved'[q] = saved[q]
        BY <2>2, <3>2, <4>2, PersistDoes
      <4>4. ~Waits(r)
        BY <3>2, NoneWaits
      <4>5. \A q \in Runs \ {r} : Waits(q) => Waits(q)'
        BY <2>1, <4>3, SameWaits DEF Same
      <4> QED
        BY <4>4, <4>5
    <3> QED
      BY <2>5, <3>1, <3>2
  <2>8. \A q \in Runs : Held(q)' => \E u \in sups' : u.run = q
    BY DEF Held
  <2> QED
    BY <1>0, <2>1, <2>3, <2>4, <2>6, <2>7, <2>8, HeldStays
<1>3. ASSUME NEW s \in sups, Abandon(s)
      PROVE  HeldInv'
  <2>1. /\ sups' = sups \ {s} /\ ~s.owned
        /\ \/ leases' = leases \ {s.run} /\ strays' = strays
           \/ leases' = leases /\ strays' = strays \cup {s.run}
        /\ saved' = saved /\ child' = child /\ UNCHANGED <<up, restoring, todo, visiting>>
    BY <1>3 DEF Abandon, Ends, sessionVars, branch
  <2>2. \A q \in Runs : Held(q) => Held(q)'
    BY <2>1 DEF Held
  <2>3. \A q \in Runs : Waits(q) => Waits(q)'
    BY <2>1, SameWaits DEF Same
  <2>4. \A q \in leases' \ strays' : (\E u \in sups : u.run = q) => (\E u \in sups' : u.run = q)
    BY <2>1
  <2> QED
    BY <1>0, <2>1, <2>2, <2>3, <2>4, HeldStays
<1>4. CASE \/ Settled \/ RestoreEnds \/ TurnStarts \/ Record \/ Remember \/ UNCHANGED vars
           \/ \E r \in Runs : Status(r) \/ Stop(r)
           \/ \E r \in Runs, how \in Ended : ChildEnds(r, how)
  <2>1. UNCHANGED <<sups, leases, strays>>
    BY <1>4 DEF Settled, RestoreEnds, TurnStarts, Record, Remember, vars, sessionVars, branch,
                Status, Stop, ChildEnds
  <2>2. \A q \in Runs : child'[q] = "alive" => child[q] = "alive"
    BY <1>0, <1>4, AbortDoes DEF Settled, RestoreEnds, TurnStarts, Record, Remember, vars,
                sessionVars, branch, Status, Stop, ChildEnds, Ended
  <2>3. \A q \in Runs : Held(q) => Held(q)'
    BY <2>1 DEF Held
  <2>4. \A q \in Runs : Waits(q) => Waits(q)'
    <3>1. CASE RestoreEnds
      <4>1. up /\ todo = {} /\ visiting = Absent
        BY <3>1 DEF RestoreEnds, InLoop, AgentsInv, Awaits
      <4>2. \A q \in Runs : ~Waits(q)
        BY <4>1, AbsentAssumption DEF AbsentAssumption, Waits
      <4> QED
        BY <4>2
    <3>2. CASE Settled \/ \E r \in Runs : Status(r) \/ Stop(r)
      <4>1. \A q \in Runs : Same(saved[q], saved'[q])
        BY <3>2, AcknowledgedOnly
      <4>2. UNCHANGED <<up, restoring, todo, visiting>>
        BY <3>2 DEF Settled, Status, Stop, sessionVars
      <4> QED
        BY <4>1, <4>2, SameWaits
    <3>3. CASE \/ TurnStarts \/ Record \/ Remember \/ UNCHANGED vars
               \/ \E r \in Runs, how \in Ended : ChildEnds(r, how)
      <4>1. UNCHANGED <<up, restoring, todo, visiting>> /\ saved' = saved
        BY <3>3 DEF TurnStarts, Record, Remember, vars, sessionVars, branch, ChildEnds
      <4> QED
        BY <4>1, SameWaits DEF Same
    <3> QED
      BY <1>4, <3>1, <3>2, <3>3
  <2> QED
    BY <1>0, <2>1, <2>2, <2>3, <2>4, HeldStays
<1>5. CASE (\E r \in Runs : Visit(r)) \/ Adopted \/ Reconciling
  <2>1. Adopted \/ Reconciling => visiting \in Runs
    BY DEF Adopted, Reconciling, AgentsInv, Types, TypeOK
  <2> QED
    BY <1>5, <2>1, HeldRestored
<1>6. ASSUME NEW s \in sups, Finish(s) \/ Marked(s) \/ Verified(s)
      PROVE  HeldInv'
  BY <1>6, HeldFinished
<1>7. CASE Tree \/ Reload \/ Open \/ \E orderly \in BOOLEAN : Exit(orderly)
  BY <1>7, HeldChanged
<1> QED
  BY <1>1, <1>2, <1>3, <1>4, <1>5, <1>6, <1>7 DEF Next, Watch

------------------------------------------------------------------------------
(* Delivery: a batch goes out once, and a message follows what it tells.      *)
Receipted(sv, rec) ==
  \A r \in Runs : /\ rec[r] \in 0 .. 1
                  /\ rec[r] = 1 => sv[r] # Absent /\ sv[r].delivery \in {"pending", "delivered"}

DeliveryInv ==
  /\ queue # {} => ~idle
  /\ \A r \in queue : /\ receipts[r] = 0 /\ saved[r] # Absent
                      /\ saved[r].delivery \in {"pending", "delivered"}
  /\ Receipted(saved, receipts) /\ Receipted(point.saved, point.receipts)

(* Nothing was sent.                                                          *)
LEMMA InitDelivery == Init => DeliveryInv
<1> SUFFICES ASSUME Init PROVE DeliveryInv
  OBVIOUS
<1>1. queue = {} /\ receipts = [r \in Runs |-> 0] /\ point.receipts = [r \in Runs |-> 0]
  BY DEF Init, Branch
<1> QED
  BY <1>1 DEF DeliveryInv, Receipted

(* Within a branch entries only go on towards delivery, and messages are      *)
(* only added by Pi.                                                        *)
LEMMA StepEffects ==
  ASSUME AgentsInv, WorkInv, ~StartsEarly, [Next]_vars, ~Tree
  PROVE  /\ \A q \in Runs : Grows(saved[q], saved'[q])
         /\ point' = point \/ (Remember /\ UNCHANGED <<saved, receipts>>)
         /\ \/ Record /\ saved' = saved
            \/ /\ receipts' = receipts
               /\ \/ Sends(idle)
                  \/ queue = {} /\ Sends(TRUE)
                  \/ queue' = {}
<1>0. \A e, f : Same(e, f) => Grows(e, f)
  BY DEF Same, Grows
<1>1. ASSUME NEW r \in Runs, Start(r)
      PROVE  /\ \A q \in Runs : Grows(saved[q], saved'[q])
             /\ point' = point /\ receipts' = receipts /\ Sends(idle)
  <2>1. saved[r] = Absent /\ Persist(r, NewRun) /\ point' = point /\ receipts' = receipts
    BY <1>1 DEF Start, AgentsInv, Begun
  <2>2. /\ \A q \in Runs \ {r} : saved'[q] = saved[q]
        /\ UNCHANGED <<queue, idle, drops>>
    BY <2>1, NewRunIs, PersistDoes
  <2> QED
    BY <2>1, <2>2 DEF Grows, Sends
<1>2. ASSUME NEW s \in sups, NEW run \in Run, s.owned,
             Persist(s.run, run) \/ Report(s, run)
      PROVE  (\A q \in Runs : Grows(saved[q], saved'[q])) /\ Sends(idle)
  <2>1. s.run \in Runs /\ saved[s.run].delivery = "none"
    BY <1>2 DEF AgentsInv, Types, TypeOK, Supervisor, WorkInv, Working
  <2>2. CASE Persist(s.run, run)
    <3>1. /\ \A q \in Runs \ {s.run} : saved'[q] = saved[q]
          /\ Agrees(run, saved'[s.run]) /\ run # Absent
          /\ UNCHANGED <<queue, idle, drops>>
      BY <2>1, <2>2, PersistDoes, AbsentAssumption DEF AbsentAssumption
    <3> QED
      BY <2>1, <3>1 DEF Agrees, Grows, Sends
  <2>3. CASE Report(s, run)
    <3>1. /\ Sends(idle) /\ saved'[s.run] # Absent
          /\ \A q \in Runs \ {s.run} : Same(saved[q], saved'[q])
      BY <1>2, <2>3, ReportSaves
    <3> QED
      BY <1>0, <2>1, <3>1 DEF Grows
  <2> QED
    BY <1>2, <2>2, <2>3
<1>3. ASSUME NEW s \in sups, Watch(s)
      PROVE  /\ \A q \in Runs : Grows(saved[q], saved'[q])
             /\ point' = point /\ receipts' = receipts /\ Sends(idle)
  <2> DEFINE ends == [mem[s.run] EXCEPT !.status = child[s.run], !.delivery = "none",
                        !.queued = FALSE,
                        !.checking = IF s.run \in Worktree /\ child[s.run] = "complete"
                                     THEN TRUE ELSE @]
             spawned == [mem[s.run] EXCEPT !.spawned = TRUE]
  <2>1. point' = point /\ receipts' = receipts
    BY <1>3 DEF Watch, Spawn, Finish, Marked, Verified, Abandon, branch
  <2>2. \/ UNCHANGED <<saved, queue, idle>>
        \/ s.owned /\ \/ Persist(s.run, spawned)
                      \/ Report(s, mem[s.run])
                      \/ child[s.run] \in Ended /\ (Persist(s.run, ends) \/ Report(s, ends))
    BY <1>3 DEF Watch, Spawn, Finish, Marked, Verified, Abandon, branch, sessionVars
  <2>3. s.owned => mem[s.run] \in Run
    BY DEF AgentsInv, Owners, Known, Types, TypeOK, Supervisor
  <2>4. s.owned => spawned \in Run
    BY <2>3 DEF Run
  <2>5. s.owned /\ child[s.run] \in Ended => ends \in Run
    BY <2>3 DEF Run, Ended, Statuses
  <2> HIDE DEF ends, spawned
  <2>6. CASE UNCHANGED <<saved, queue, idle>>
    BY <2>1, <2>6 DEF Grows, Sends
  <2>7. CASE s.owned /\ \/ Persist(s.run, spawned)
                        \/ Report(s, mem[s.run])
                        \/ child[s.run] \in Ended /\ (Persist(s.run, ends) \/ Report(s, ends))
    BY <1>2, <2>1, <2>3, <2>4, <2>5, <2>7
  <2> QED
    BY <2>2, <2>6, <2>7
<1>4. ASSUME NEW r \in Runs, Visit(r) \/ (r = visiting /\ (Adopted \/ Reconciling))
      PROVE  /\ \A q \in Runs : Grows(saved[q], saved'[q])
             /\ point' = point /\ receipts' = receipts /\ Sends(idle)
  <2>1. UNCHANGED <<point, receipts, queue, idle>>
    BY <1>4 DEF Visit, Adopted, Reconciling
  <2>2. /\ \A q \in Runs \ {r} : saved'[q] = saved[q]
        /\ saved' = saved \/ Grows(saved[r], saved'[r])
    BY <1>4, RestoreSaves DEF WorkInv
  <2> QED
    BY <2>1, <2>2 DEF Grows, Sends
<1>5. CASE Settled \/ RestoreEnds \/ \E r \in Runs : Status(r) \/ Stop(r)
  <2>1. /\ \A q \in Runs : Same(saved[q], saved'[q])
        /\ RestoreEnds => Sends(idle)
        /\ Settled => Sends(TRUE)
    BY <1>5, AcknowledgedOnly
  <2>2. point' = point /\ receipts' = receipts
    BY <1>5 DEF Settled, RestoreEnds, Status, Stop, branch
  <2>3. Settled => queue = {}
    BY DEF Settled
  <2>4. (\E r \in Runs : Status(r) \/ Stop(r)) => Sends(idle)
    BY DEF Status, Stop, sessionVars, Sends
  <2> QED
    BY <1>0, <1>5, <2>1, <2>2, <2>3, <2>4
<1>6. CASE Reload \/ Open \/ TurnStarts \/ UNCHANGED vars
           \/ \E r \in Runs, how \in Ended : ChildEnds(r, how)
  <2>1. UNCHANGED <<saved, receipts, point, queue>> /\ (idle' => idle)
    BY <1>6 DEF Reload, Open, TurnStarts, ChildEnds, vars, sessionVars, branch
  <2> QED
    BY <2>1 DEF Grows, Sends
<1>7. CASE Record \/ Remember \/ \E orderly \in BOOLEAN : Exit(orderly)
  <2>1. /\ saved' = saved
        /\ Record => point' = point
        /\ ~Record => receipts' = receipts /\ (queue' = {} \/ UNCHANGED <<queue, idle>>)
        /\ ~Remember => point' = point
    BY <1>7 DEF Record, Remember, Exit, sessionVars, branch
  <2> QED
    BY <1>7, <2>1 DEF Grows, Sends, Remember, branch
<1> QED
  <2>1. CASE \E r \in Runs : Start(r)
    BY <1>1, <2>1
  <2>2. CASE \E s \in sups : Watch(s)
    BY <1>3, <2>2
  <2>3. CASE (\E r \in Runs : Visit(r)) \/ Adopted \/ Reconciling
    <3>1. Adopted \/ Reconciling => visiting \in Runs
      BY DEF Adopted, Reconciling, AgentsInv, Types, TypeOK
    <3>2. ASSUME NEW r \in Runs, Visit(r)
          PROVE  /\ \A q \in Runs : Grows(saved[q], saved'[q])
                 /\ point' = point /\ receipts' = receipts /\ Sends(idle)
      BY <1>4, <3>2
    <3>3. CASE Adopted \/ Reconciling
      <4> DEFINE r == visiting
      <4>1. r \in Runs /\ r = visiting /\ (Adopted \/ Reconciling)
        BY <3>1, <3>3
      <4> HIDE DEF r
      <4> QED
        BY <1>4, <4>1
    <3> QED
      BY <2>3, <3>2, <3>3
  <2>4. \/ \E r \in Runs : Start(r) \/ Status(r) \/ Stop(r) \/ Visit(r)
        \/ \E s \in sups : Watch(s)
        \/ TurnStarts \/ Record \/ Settled \/ Remember \/ Reload \/ Open
        \/ Adopted \/ Reconciling \/ RestoreEnds
        \/ \E r \in Runs, how \in Ended : ChildEnds(r, how)
        \/ \E orderly \in BOOLEAN : Exit(orderly)
        \/ UNCHANGED vars
    BY DEF Next
  <2> QED
    BY <1>5, <1>6, <1>7, <2>1, <2>2, <2>3, <2>4

(* Every step keeps batches and messages in step.                             *)
LEMMA StepDelivery ==
  ASSUME AgentsInv, WorkInv, DeliveryInv, ~StartsEarly, [Next]_vars
  PROVE  DeliveryInv'
<1>0. receipts \in [Runs -> Nat] /\ queue \subseteq Runs
  BY DEF AgentsInv, Types, TypeOK
<1>1. CASE Tree
  <2>1. queue' = {}
    BY <1>1 DEF Tree, Quiet, DeliveryInv
  <2>2. Receipted(saved, receipts)' /\ Receipted(point.saved, point.receipts)'
    BY <1>1 DEF Tree, Branch, branch, DeliveryInv, Receipted
  <2> QED
    BY <2>1, <2>2 DEF DeliveryInv
<1>2. CASE ~Tree
  <2>1. /\ \A q \in Runs : Grows(saved[q], saved'[q])
        /\ point' = point \/ (Remember /\ UNCHANGED <<saved, receipts>>)
        /\ \/ Record /\ saved' = saved
           \/ /\ receipts' = receipts
              /\ \/ Sends(idle)
                 \/ queue = {} /\ Sends(TRUE)
                 \/ queue' = {}
    BY <1>2, StepEffects
  <2>2. CASE Record /\ saved' = saved
    <3>1. /\ queue' = {} /\ point' = point
          /\ \A r \in Runs : receipts'[r] = receipts[r] \/ (r \in queue /\ receipts'[r] = receipts[r] + 1)
      BY <1>0, <2>2 DEF Record
    <3>2. Receipted(saved, receipts)'
      BY <1>0, <2>2, <3>1 DEF DeliveryInv, Receipted
    <3> QED
      BY <3>1, <3>2 DEF DeliveryInv
  <2>3. CASE /\ receipts' = receipts
             /\ \/ Sends(idle)
                \/ queue = {} /\ Sends(TRUE)
                \/ queue' = {}
    <3>1. Receipted(saved, receipts)'
      BY <2>1, <2>3 DEF DeliveryInv, Receipted, Grows
    <3>2. Receipted(point.saved, point.receipts)'
      <4>1. CASE point' = point
        BY <4>1 DEF DeliveryInv
      <4>2. CASE Remember /\ UNCHANGED <<saved, receipts>>
        <5>1. point'.saved = saved /\ point'.receipts = receipts
          BY <4>2 DEF Remember, Branch
        <5> QED
          BY <5>1 DEF DeliveryInv, Receipted
      <4> QED
        BY <2>1, <4>1, <4>2
    <3>3. queue' # {} => ~idle'
      BY <2>3 DEF Sends, DeliveryInv
    <3>4. ASSUME NEW r \in queue'
          PROVE  /\ receipts'[r] = 0 /\ saved'[r] # Absent
                 /\ saved'[r].delivery \in {"pending", "delivered"}
      <4>1. CASE queue' = queue
        BY <1>0, <2>1, <2>3, <3>4, <4>1 DEF DeliveryInv, Grows
      <4>2. CASE queue' # queue
        BY <2>3, <3>4, <4>2 DEF Sends
      <4> QED
        BY <4>1, <4>2
    <3> QED
      BY <3>1, <3>2, <3>3, <3>4 DEF DeliveryInv
  <2> QED
    BY <2>1, <2>2, <2>3
<1> QED
  BY <1>1, <1>2

------------------------------------------------------------------------------
(* All of it holds in every execution in which no turn starts a run while the  *)
(* restore of session_start awaits.                                         *)
Steady == AgentsInv /\ WorkInv /\ HeldInv /\ DeliveryInv

(* Promises, children, leases and messages stay in step with the runs.        *)
THEOREM KeptInStep ==
  ASSUME ~StartsEarly
  PROVE  Spec => []Steady
<1>1. Init => Steady
  BY InitAgents, InitWork, InitHeld, InitDelivery DEF Steady
<1>2. Steady /\ [Next]_vars => Steady'
  BY StepAgents, StepWork, StepHeld, StepDelivery DEF Steady
<1> QED
  BY <1>1, <1>2, PTL DEF Spec

(* A running run always has a promise that will finish it, for any number of  *)
(* runs and whatever happens to the session (index.ts, 576-700).            *)
THEOREM NoneRunsForEver == Spec => []RunningIsWatched
<1>1. AgentsInv => RunningIsWatched
  BY DEF AgentsInv
<1> QED
  BY <1>1, Consistent, PTL

(* A lease has a promise that will release it, unless the registry failed to    *)
(* release it or to let its pane be adopted (registry.ts, 100-122).          *)
THEOREM LeasesAreReleased ==
  ASSUME ~StartsEarly
  PROVE  Spec => []LeasesEnd
<1>1. Steady => LeasesEnd
  <2> SUFFICES ASSUME Steady, up, restoring = "no", NEW r \in leases \ strays
               PROVE  \E s \in sups : s.run = r
    BY DEF LeasesEnd
  <2>1. r \in Runs /\ ~Waits(r)
    BY NoneWaits DEF Steady, AgentsInv, Types, TypeOK
  <2> QED
    BY <2>1 DEF Steady, HeldInv, LeaseHeld
<1> QED
  BY <1>1, KeptInStep, PTL

(* No session change leaves an agent at work unsupervised, nor a run or a      *)
(* lease without the promise that ends it, except the runs for which the      *)
(* registry failed.                                                         *)
THEOREM WorkIsSupervised ==
  ASSUME ~StartsEarly
  PROVE  Spec => []Supervised
<1>1. Steady => LeasesEnd /\ NoOrphans
  <2> SUFFICES ASSUME Steady, up, restoring = "no"
               PROVE  /\ \A r \in leases \ strays : \E s \in sups : s.run = r
                      /\ \A r \in Runs \ strays : child[r] = "alive" =>
                           \E s \in sups : s.run = r /\ s.owned
    BY DEF LeasesEnd, NoOrphans
  <2>1. leases \subseteq Runs /\ \A r \in Runs : ~Waits(r)
    BY NoneWaits DEF Steady, AgentsInv, Types, TypeOK
  <2>2. \A r \in Runs : Held(r) => \E s \in sups : s.run = r /\ s.owned
    BY DEF Held
  <2> QED
    BY <2>1, <2>2 DEF Steady, HeldInv, LeaseHeld, AliveHeld
<1>2. Steady => TypeOK /\ RunningIsWatched
  BY DEF Steady, AgentsInv, Types
<1>3. Steady => Supervised
  BY <1>1, <1>2 DEF Supervised
<1> QED
  BY <1>3, KeptInStep, PTL

------------------------------------------------------------------------------
(* The refinement of ResultDelivery.                                         *)

Tale(sv, rec) ==
  [r \in Runs |->
     [stage |-> IF sv[r] = Absent THEN "unknown"
                ELSE IF sv[r].delivery = "none" THEN "running"
                ELSE IF sv[r].delivery = "pending" THEN "unread" ELSE "delivered",
      messages |-> rec[r]]]

(* What the two leaves tell, now and after a step.                            *)
LEMMA ToldIs ==
  /\ Told(Branch) = Tale(saved, receipts) /\ Told(point) = Tale(point.saved, point.receipts)
  /\ Told(Branch)' = Tale(saved', receipts')
  /\ Told(point)' = Tale(point'.saved, point'.receipts)
  BY DEF Told, Tale, Branch

(* A leaf tells at most one message of each run.                              *)
LEMMA TaleIsView ==
  ASSUME NEW sv, NEW rec, Receipted(sv, rec)
  PROVE  Tale(sv, rec) \in [Runs -> Promise!View]
  BY DEF Receipted, Tale, Promise!View, Promise!Stages

(* Entries that go on towards delivery make a leaf that goes forward.         *)
LEMMA TaleAdvances ==
  ASSUME NEW sv \in [Runs -> Entry], NEW sw \in [Runs -> Entry],
         NEW rec \in [Runs -> Nat], NEW rew \in [Runs -> Nat],
         \A r \in Runs : /\ Grows(sv[r], sw[r]) /\ rec[r] <= rew[r]
                         /\ sv[r] = Absent \/ sv[r].delivery = "none" => rew[r] = rec[r]
  PROVE  Promise!Forward(Tale(sv, rec), Tale(sw, rew))
<1> SUFFICES ASSUME NEW r \in Runs
             PROVE  Promise!Advances(Tale(sv, rec)[r], Tale(sw, rew)[r])
  BY DEF Promise!Forward
<1>1. /\ Tale(sv, rec)[r].messages = rec[r] /\ Tale(sw, rew)[r].messages = rew[r]
      /\ Tale(sv, rec)[r].stage = IF sv[r] = Absent THEN "unknown"
                ELSE IF sv[r].delivery = "none" THEN "running"
                ELSE IF sv[r].delivery = "pending" THEN "unread" ELSE "delivered"
      /\ Tale(sw, rew)[r].stage = IF sw[r] = Absent THEN "unknown"
                ELSE IF sw[r].delivery = "none" THEN "running"
                ELSE IF sw[r].delivery = "pending" THEN "unread" ELSE "delivered"
  BY DEF Tale
<1>2. /\ Promise!Rank("unknown") = 0 /\ Promise!Rank("running") = 1
      /\ Promise!Rank("unread") = 2 /\ Promise!Rank("delivered") = 3
  BY DEF Promise!Rank
<1>3. Promise!Rank(Tale(sv, rec)[r].stage) =
        IF sv[r] = Absent THEN 0 ELSE IF sv[r].delivery = "none" THEN 1
        ELSE IF sv[r].delivery = "pending" THEN 2 ELSE 3
  BY <1>1, <1>2
<1>4. Promise!Rank(Tale(sw, rew)[r].stage) =
        IF sw[r] = Absent THEN 0 ELSE IF sw[r].delivery = "none" THEN 1
        ELSE IF sw[r].delivery = "pending" THEN 2 ELSE 3
  BY <1>1, <1>2
<1>5. /\ Promise!Rank(Tale(sv, rec)[r].stage) <= Promise!Rank(Tale(sw, rew)[r].stage)
      /\ Promise!Rank(Tale(sv, rec)[r].stage) < 2 => rew[r] = rec[r]
  <2>1. sv[r] # Absent => sv[r].delivery \in {"none", "pending", "delivered"}
    BY DEF Entry, Run
  <2>2. /\ Grows(sv[r], sw[r])
        /\ sv[r] = Absent \/ sv[r].delivery = "none" => rew[r] = rec[r]
    OBVIOUS
  <2> QED
    BY <1>3, <1>4, <2>1, <2>2 DEF Grows
<1> QED
  BY <1>1, <1>5 DEF Promise!Advances

(* Every step of background agents is one of the promise they make to a       *)
(* session, or none.                                                        *)
LEMMA StepPromise ==
  ASSUME Steady, Steady', ~StartsEarly, [Next]_vars
  PROVE  [Promise!Next]_(Promise!vars)
<1> DEFINE leaf == Tale(saved, receipts)
           earlier == Tale(point.saved, point.receipts)
           leaf2 == Tale(saved', receipts')
           earlier2 == Tale(point'.saved, point'.receipts)
<1>1. /\ saved \in [Runs -> Entry] /\ saved' \in [Runs -> Entry]
      /\ receipts \in [Runs -> Nat] /\ receipts' \in [Runs -> Nat] /\ queue \subseteq Runs
      /\ point.saved \in [Runs -> Entry] /\ point.receipts \in [Runs -> Nat]
  BY DEF Steady, AgentsInv, Types, TypeOK, Entry
<1>2. leaf2 \in [Runs -> Promise!View]
  <2>1. Receipted(saved', receipts')
    BY DEF Steady, DeliveryInv, Receipted
  <2> QED
    BY <2>1, TaleIsView
<1>3. CASE Tree
  <2>1. CASE UNCHANGED <<branch, point>>
    <3>1. leaf2 = leaf /\ earlier2 = earlier
      BY <2>1 DEF branch
    <3> QED
      BY <3>1, ToldIs DEF Promise!vars
  <2>2. CASE /\ saved' = point.saved /\ receipts' = point.receipts /\ point' = Branch
    <3>1. leaf2 = earlier /\ earlier2 = leaf
      BY <2>2 DEF Branch
    <3>2. Promise!Forward(earlier, earlier)
      <4>1. \A e : Grows(e, e)
        BY DEF Grows
      <4> QED
        BY <1>1, <4>1, TaleAdvances
    <3> QED
      BY <1>2, <3>1, <3>2, ToldIs DEF Promise!Next, Promise!Jump
  <2> QED
    BY <1>3, <2>1, <2>2 DEF Tree
<1>4. CASE ~Tree
  <2>1. /\ \A q \in Runs : Grows(saved[q], saved'[q])
        /\ point' = point \/ (Remember /\ UNCHANGED <<saved, receipts>>)
        /\ \/ Record /\ saved' = saved
           \/ receipts' = receipts
    BY <1>4, StepEffects DEF Steady
  <2>2. CASE Remember /\ UNCHANGED <<saved, receipts>>
    <3>1. earlier2 = leaf /\ leaf2 = leaf
      BY <2>2 DEF Remember, Branch
    <3> QED
      BY <3>1, ToldIs DEF Promise!Next, Promise!Mark
  <2>3. CASE point' = point
    <3>1. \A r \in Runs :
            /\ receipts[r] <= receipts'[r]
            /\ saved[r] = Absent \/ saved[r].delivery = "none" => receipts'[r] = receipts[r]
      BY <1>1, <2>1 DEF Record, Steady, DeliveryInv
    <3>2. Promise!Forward(leaf, leaf2)
      BY <1>1, <2>1, <3>1, TaleAdvances
    <3>3. earlier2 = earlier
      BY <2>3
    <3> QED
      BY <1>2, <3>2, <3>3, ToldIs DEF Promise!Next, Promise!Work
  <2> QED
    BY <2>1, <2>2, <2>3
<1> QED
  BY <1>3, <1>4

(* Supervision, verification, batches, acknowledgements, restores and          *)
(* adoptions amount to what ResultDelivery promises, for any number of runs   *)
(* and of session changes.                                                  *)
THEOREM DeliveryIsKept ==
  ASSUME ~StartsEarly
  PROVE  Spec => DeliveryKept
<1>1. Init => Promise!Init
  <2> SUFFICES ASSUME Init PROVE Promise!Init
    OBVIOUS
  <2>1. /\ Tale(saved, receipts) = Promise!Fresh
        /\ Tale(point.saved, point.receipts) = Promise!Fresh
    BY DEF Init, Branch, NoRuns, Tale, Promise!Fresh
  <2> QED
    BY <2>1, ToldIs DEF Promise!Init
<1>2. Steady /\ Steady' /\ [Next]_vars => [Promise!Next]_(Promise!vars)
  BY StepPromise
<1> QED
  BY <1>1, <1>2, KeptInStep, PTL DEF Spec, DeliveryKept, Promise!Spec
=============================================================================
