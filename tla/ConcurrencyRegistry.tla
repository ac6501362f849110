------------------------- MODULE ConcurrencyRegistry -------------------------
(***************************************************************************)
(* The machine-wide cap on background agents: a JSON file of leases that   *)
(* every Pi process reads and rewrites under an advisory lock directory    *)
(* (extensions/subagent/registry.ts).                                      *)
(*                                                                         *)
(* The lock is the existence of a directory.  A waiter that finds it older *)
(* than ten seconds removes it, and whoever leaves the critical section    *)
(* removes whatever directory is there.  Between any two file-system calls *)
(* another process may run, and a process may die anywhere.                *)
(***************************************************************************)
EXTENDS Naturals, FiniteSets

CONSTANTS
  Procs,       \* process identifiers; one is never reused for a new process
  Ids,         \* run identifiers (randomUUID prefixes, each claimed once)
  Ops,         \* slots for concurrent calls, whichever process makes them
  Limit,       \* maxGlobalConcurrency
  CrashProcs,  \* the processes that may die
  SlowProcs,   \* the processes that may stall for over 10 s inside the lock
  NoId,        \* the run identifier of a call that names none
  NoCall,      \* call: the slot is idle
  Free,        \* lock: there is no lock directory
  Orphan       \* lock: the directory was made by a process that has died

ASSUME RegistryAssumption ==
  /\ Limit \in Nat \ {0}
  /\ CrashProcs \subseteq Procs
  /\ SlowProcs \subseteq Procs
  /\ NoId \notin Ids
  /\ {Free, Orphan} \cap Ops = {}
  /\ Free # Orphan

VARIABLES
  alive,      \* the processes that are running
  file,       \* the leases in concurrency.json
  lock,       \* Free, Orphan, or the call that made the present directory
  stale,      \* the present directory is more than 10 s old
  pc,         \* where each call is
  call,       \* what each call is: claim, adopt, release or capacity
  snap,       \* the leases each call read and will write back
  expired,    \* the call has waited lockTimeoutMs
  outcome,    \* how the operation under the lock ended
  used,       \* the run identifiers claimed so far
  handles,    \* the leases whose ConcurrencyLease object some process holds
  broken      \* history: the lock of a live call was removed by another one

vars == <<alive, file, lock, stale, pc, call, snap, expired, outcome, used,
          handles, broken>>

Leases   == [id : Ids, pid : Procs]
Kinds    == {"claim", "adopt", "release", "capacity"}
Calls    == [kind : Kinds, id : Ids \cup {NoId}, pid : Procs]
Waiting  == {"mkdir", "stat", "steal"}
Locked   == {"read", "write", "unlock"}
Outcomes == {"none", "granted", "refused", "done"}

Lease(c) == [id |-> c.id, pid |-> c.pid]
InFlight(o) == pc[o] # "idle"
CallsOf(p) == {o \in Ops : InFlight(o) /\ call[o].pid = p}

------------------------------------------------------------------------------
Init ==
  /\ alive = Procs
  /\ file = {}
  /\ lock = Free
  /\ stale = FALSE
  /\ pc = [o \in Ops |-> "idle"]
  /\ call = [o \in Ops |-> NoCall]
  /\ snap = [o \in Ops |-> {}]
  /\ expired = [o \in Ops |-> FALSE]
  /\ outcome = [o \in Ops |-> "none"]
  /\ used = {}
  /\ handles = {}
  /\ broken = FALSE

(* withLock begins: the first attempt to make the directory is next. *)
Enter(o, c) ==
  /\ pc[o] = "idle"
  /\ c.pid \in alive
  /\ pc' = [pc EXCEPT ![o] = "mkdir"]
  /\ call' = [call EXCEPT ![o] = c]
  /\ UNCHANGED <<alive, file, lock, stale, snap, expired, outcome, broken>>

(* withLock returns or throws to the caller, and the slot is free again. *)
Leave(S) ==
  /\ pc' = [o \in Ops |-> IF o \in S THEN "idle" ELSE pc[o]]
  /\ call' = [o \in Ops |-> IF o \in S THEN NoCall ELSE call[o]]
  /\ snap' = [o \in Ops |-> IF o \in S THEN {} ELSE snap[o]]
  /\ expired' = [o \in Ops |-> IF o \in S THEN FALSE ELSE expired[o]]
  /\ outcome' = [o \in Ops |-> IF o \in S THEN "none" ELSE outcome[o]]

(* claim(id): a new run, whose identifier nobody has used. *)
Claim(o, p, i) ==
  /\ i \notin used
  /\ Enter(o, [kind |-> "claim", id |-> i, pid |-> p])
  /\ used' = used \cup {i}
  /\ UNCHANGED handles

(* adopt(id): a session is reopened, perhaps by another process, and finds *)
(* a run that was alive.  The caller neither holds the lease nor has a     *)
(* call for it under way.                                                  *)
Adopt(o, p, i) ==
  /\ i \in used
  /\ [id |-> i, pid |-> p] \notin handles
  /\ \A q \in Ops : InFlight(q) => call[q].id # i \/ call[q].pid # p
  /\ Enter(o, [kind |-> "adopt", id |-> i, pid |-> p])
  /\ UNCHANGED <<used, handles>>

(* release(): the handle's "released" flag is set before the lock is taken. *)
Release(o, l) ==
  /\ l \in handles
  /\ Enter(o, [kind |-> "release", id |-> l.id, pid |-> l.pid])
  /\ handles' = handles \ {l}
  /\ UNCHANGED used

(* capacity(): prunes the file as a side effect; it names no run. *)
Capacity(o, p) ==
  /\ Enter(o, [kind |-> "capacity", id |-> NoId, pid |-> p])
  /\ UNCHANGED <<used, handles>>

(* The extension reloads: a tmux run is detached and its handle dropped.   *)
Forget(l) ==
  /\ l \in handles
  /\ handles' = handles \ {l}
  /\ UNCHANGED <<alive, file, lock, stale, pc, call, snap, expired, outcome,
                 used, broken>>

------------------------------------------------------------------------------

(* mkdir succeeds: the directory is fresh and the operation starts. *)
MkdirOk(o) ==
  /\ pc[o] = "mkdir"
  /\ lock = Free
  /\ lock' = o
  /\ stale' = FALSE
  /\ pc' = [pc EXCEPT ![o] = "read"]
  /\ UNCHANGED <<alive, file, call, snap, expired, outcome, used, handles,
                 broken>>

(* mkdir fails with EEXIST. *)
MkdirExists(o) ==
  /\ pc[o] = "mkdir"
  /\ lock # Free
  /\ pc' = [pc EXCEPT ![o] = "stat"]
  /\ UNCHANGED <<alive, file, lock, stale, call, snap, expired, outcome, used,
                 handles, broken>>

(* stat: the directory has gone (retry at once, without looking at the     *)
(* clock), is older than 10 s (remove it next), or is fresh.  A fresh one  *)
(* ends the call with an error when lockTimeoutMs has passed, and is       *)
(* retried after the delay otherwise.                                      *)
Stat(o) ==
  /\ pc[o] = "stat"
  /\ \/ /\ lock = Free \/ (~stale /\ ~expired[o])
        /\ pc' = [pc EXCEPT ![o] = "mkdir"]
        /\ UNCHANGED <<call, snap, expired, outcome>>
     \/ /\ lock # Free
        /\ stale
        /\ pc' = [pc EXCEPT ![o] = "steal"]
        /\ UNCHANGED <<call, snap, expired, outcome>>
     \/ /\ lock # Free
        /\ ~stale
        /\ expired[o]
        /\ Leave({o})
  /\ UNCHANGED <<alive, file, lock, stale, used, handles, broken>>

(* Mutant: the stale directory stays, as rmdir leaves one that has content. *)
FailedSteal(o) ==
  /\ pc[o] = "steal"
  /\ pc' = [pc EXCEPT ![o] = "mkdir"]
  /\ UNCHANGED <<alive, file, lock, stale, call, snap, expired, outcome, used,
                 handles, broken>>

(* rm -rf of the lock directory found stale: it removes whatever directory *)
(* is there by now.                                                        *)
Steal(o) ==
  /\ pc[o] = "steal"
  /\ lock' = Free
  /\ stale' = FALSE
  /\ broken' = (broken \/ lock \in Ops)
  /\ pc' = [pc EXCEPT ![o] = "mkdir"]
  /\ UNCHANGED <<alive, file, call, snap, expired, outcome, used, handles>>

------------------------------------------------------------------------------
LiveLeases == {l \in file : l.pid \in alive}
HasLease(S, i) == \E l \in S : l.id = i

(* Mutant: one lease too many, and a run owned elsewhere is not noticed.    *)
LaxClaim(o, c) ==
  /\ Cardinality(LiveLeases) <= Limit
  /\ outcome' = [outcome EXCEPT ![o] = "granted"]
  /\ snap' = [snap EXCEPT ![o] = LiveLeases \cup {Lease(c)}]
  /\ pc' = [pc EXCEPT ![o] = "write"]

(* readState and the decision that follows it without a pause: the leases  *)
(* of dead processes are dropped, except by release.                       *)
ReadClaim(o, c) ==
  \/ /\ HasLease(LiveLeases, c.id)
     /\ outcome' = [outcome EXCEPT ![o] =
          IF c.kind = "adopt" /\ Lease(c) \in LiveLeases
          THEN "granted" ELSE "refused"]
     /\ pc' = [pc EXCEPT ![o] = "unlock"]
     /\ UNCHANGED snap
  \/ /\ ~HasLease(LiveLeases, c.id)
     /\ Cardinality(LiveLeases) >= Limit
     /\ outcome' = [outcome EXCEPT ![o] = "refused"]
     /\ pc' = [pc EXCEPT ![o] = "unlock"]
     /\ UNCHANGED snap
  \/ /\ ~HasLease(LiveLeases, c.id)
     /\ Cardinality(LiveLeases) < Limit
     /\ outcome' = [outcome EXCEPT ![o] = "granted"]
     /\ snap' = [snap EXCEPT ![o] = LiveLeases \cup {Lease(c)}]
     /\ pc' = [pc EXCEPT ![o] = "write"]

ReadOther(o, c) ==
  /\ snap' = [snap EXCEPT ![o] = IF c.kind = "release"
                                 THEN {l \in file : l.id # c.id}
                                 ELSE LiveLeases]
  /\ outcome' = [outcome EXCEPT ![o] = "done"]
  /\ pc' = [pc EXCEPT ![o] = "write"]

Read(o) ==
  /\ pc[o] = "read"
  /\ \/ call[o].kind \in {"claim", "adopt"} /\ ReadClaim(o, call[o])
     \/ call[o].kind \in {"release", "capacity"} /\ ReadOther(o, call[o])
  /\ UNCHANGED <<alive, file, lock, stale, call, expired, used, handles,
                 broken>>

(* writeState: a temporary file renamed over the registry, in one step. *)
Write(o) ==
  /\ pc[o] = "write"
  /\ file' = snap[o]
  /\ pc' = [pc EXCEPT ![o] = "unlock"]
  /\ UNCHANGED <<alive, lock, stale, call, snap, expired, outcome, used,
                 handles, broken>>

(* The finally block removes the directory, and the caller of claim or     *)
(* adopt receives its handle.                                              *)
Unlock(o) ==
  /\ pc[o] = "unlock"
  /\ lock' = Free
  /\ stale' = FALSE
  /\ broken' = (broken \/ (lock \in Ops /\ lock # o))
  /\ Leave({o})
  /\ handles' = IF outcome[o] = "granted" THEN handles \cup {Lease(call[o])}
                ELSE handles
  /\ UNCHANGED <<alive, file, used>>

------------------------------------------------------------------------------
(* lockTimeoutMs (2 s) has passed for a call that is still waiting. *)
Expire(o) ==
  /\ pc[o] \in Waiting
  /\ ~expired[o]
  /\ expired' = [expired EXCEPT ![o] = TRUE]
  /\ UNCHANGED <<alive, file, lock, stale, pc, call, snap, outcome, used,
                 handles, broken>>

(* Ten seconds pass over a lock directory: one nobody owns any more, or    *)
(* that of a process that stalls while it holds the lock.                  *)
Age ==
  /\ ~stale
  /\ \/ lock = Orphan
     \/ lock \in Ops /\ call[lock].pid \in SlowProcs
  /\ stale' = TRUE
  /\ UNCHANGED <<alive, file, lock, pc, call, snap, expired, outcome, used,
                 handles, broken>>

(* A process dies with its calls and its handles; its lock and its leases  *)
(* stay on the disk.                                                       *)
Crash(p) ==
  /\ p \in CrashProcs \cap alive
  /\ alive' = alive \ {p}
  /\ Leave(CallsOf(p))
  /\ lock' = IF lock \in CallsOf(p) THEN Orphan ELSE lock
  /\ handles' = {l \in handles : l.pid # p}
  /\ UNCHANGED <<file, stale, used, broken>>

------------------------------------------------------------------------------
Begin(o) ==
  \/ \E p \in Procs, i \in Ids : Claim(o, p, i) \/ Adopt(o, p, i)
  \/ \E l \in Leases : Release(o, l)
  \/ \E p \in Procs : Capacity(o, p)

Step(o) ==
  \/ MkdirOk(o) \/ MkdirExists(o) \/ Stat(o) \/ Steal(o)
  \/ Read(o) \/ Write(o) \/ Unlock(o)

Next ==
  \/ \E o \in Ops : Begin(o) \/ Step(o) \/ Expire(o)
  \/ \E l \in Leases : Forget(l)
  \/ \E p \in Procs : Crash(p)
  \/ Age

Spec == Init /\ [][Next]_vars

------------------------------------------------------------------------------
TypeOK ==
  /\ alive \subseteq Procs
  /\ file \subseteq Leases
  /\ lock \in Ops \cup {Free, Orphan}
  /\ stale \in BOOLEAN
  /\ pc \in [Ops -> {"idle"} \cup Waiting \cup Locked]
  /\ call \in [Ops -> Calls \cup {NoCall}]
  /\ snap \in [Ops -> SUBSET Leases]
  /\ expired \in [Ops -> BOOLEAN]
  /\ outcome \in [Ops -> Outcomes]
  /\ used \subseteq Ids
  /\ handles \subseteq Leases
  /\ broken \in BOOLEAN

(* While no live call has had its lock removed, at most one call is        *)
(* between acquiring the lock and removing it (withLock, 119-148): neither *)
(* a crash in the critical section nor the recovery from it lets two calls *)
(* in, only the removal of a directory that somebody still relies on.      *)
LockExclusion ==
  broken \/ \A o, q \in Ops : pc[o] \in Locked /\ pc[q] \in Locked => o = q

(* While no live lock is removed, the runs that hold a lease across all    *)
(* processes never exceed the configured cap, whatever dies in whatever    *)
(* step (claimInternal, 89-117).                                           *)
HeldWithinLimit == broken \/ Cardinality(handles) <= Limit

(* While no live lock is removed, a lease somebody holds is in the file: no *)
(* rewrite of the file loses another process's update, and no release or   *)
(* adoption of one run drops the lease of another.                         *)
HeldIsRecorded == broken \/ handles \subseteq file

(* While no live lock is removed, the file has one lease per run, although *)
(* a reopened session may ask for a run that another process still owns.   *)
OneLeasePerRun ==
  broken \/ \A l, m \in file : l.id = m.id => l = m

(* The lock of a live call is only ever removed after a process stalled in *)
(* the critical section or died: the two assumptions of the protocol.      *)
BrokenOnlyByFault == broken => SlowProcs # {} \/ alive # Procs

(* The cap itself, with no proviso: "six globally concurrent children"     *)
(* (README.md:258).                                                        *)
CapHolds == Cardinality(handles) <= Limit

------------------------------------------------------------------------------
(* Time and the file system are fair to every call, and a process that has *)
(* a call under way keeps running it; new calls come as they please.       *)
Fairness ==
  /\ \A o \in Ops : WF_vars(Step(o)) /\ WF_vars(Expire(o))
  /\ WF_vars(Age)

(* Every call of the registry returns or throws, also when the process that *)
(* held the lock died: the lock times out or is recovered.                 *)
CallsEnd == \A o \in Ops : InFlight(o) ~> ~InFlight(o)

=============================================================================
