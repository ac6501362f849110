----------------------------- MODULE JsonHeadroom -----------------------------
(***************************************************************************)
(* Large JSON results of bash are replaced by a compacted form that names   *)
(* the file with the original (extensions/json-headroom: compact.ts,       *)
(* bridge.ts, originals.ts).  The originals of all Pi processes share one   *)
(* directory, from which nothing a session refers to may go.               *)
(***************************************************************************)
EXTENDS Naturals, FiniteSets

CONSTANTS
  Calls,      \* bash calls with an eligible result
  Procs,      \* Pi processes
  ProcOf,     \* the process of a call
  Content,    \* what the result of a call contains
  MaxFiles,   \* MAX_FILES
  MaxWorkers, \* the most workers of a process
  MaxFaults   \* bound: crashes and files that cannot be removed

VARIABLES
  step,     \* where compactToolResult is
  aborted,  \* calls whose signal is aborted
  active,   \* workers counted by each process
  files,    \* the originals on disk
  left,     \* originals left by a fault
  faults

vars == <<step, aborted, active, files, left, faults>>

Init ==
  /\ step = [c \in Calls |-> "none"] /\ aborted = {}
  /\ active = [p \in Procs |-> 0] /\ files = {} /\ left = {} /\ faults = 0

Goes(c, to) == step' = [step EXCEPT ![c] = to]
At(s) == {c \in Calls : step[c] = s}
UnderWay == {c \in Calls : step[c] \notin {"none", "plain", "compacted"}}

(* createJsonCompressor: no queue, a result that finds the workers busy      *)
(* stays as it is.                                                         *)
Compress(c) ==
  /\ step[c] = "none"
  /\ IF active[ProcOf[c]] >= MaxWorkers \/ c \in aborted
     THEN Goes(c, "plain") /\ UNCHANGED active
     ELSE /\ Goes(c, "compressing")
          /\ active' = [active EXCEPT ![ProcOf[c]] = @ + 1]
  /\ UNCHANGED <<aborted, files, left, faults>>

(* runWorker: the worker answers well enough, or it fails, answers with too   *)
(* much, too late, or for another input, or is cancelled.                  *)
Compressed(c) ==
  /\ step[c] = "compressing"
  /\ \/ c \notin aborted /\ Goes(c, "saving")
     \/ Goes(c, "plain")
  /\ active' = [active EXCEPT ![ProcOf[c]] = @ - 1]
  /\ UNCHANGED <<aborted, files, left, faults>>

(* The signal of a call may be aborted between any two steps. *)
Abort(c) ==
  /\ c \in UnderWay \ aborted /\ aborted' = aborted \cup {c}
  /\ UNCHANGED <<step, active, files, left, faults>>

(* Mutant: a file is named for its content alone. *)
NameByContent(c) == Content[c]

(* "Each result owns its file" *)
Name(c) == c

(* saveOriginal: the files are counted; one that would be too many is not    *)
(* written, and what is referred to is never evicted.                      *)
Count(c) ==
  /\ step[c] = "saving"
  /\ Goes(c, IF Cardinality(files) >= MaxFiles THEN "plain" ELSE "writing")
  /\ UNCHANGED <<aborted, active, files, left, faults>>

Write(c) ==
  /\ step[c] = "writing"
  /\ \/ files' = files \cup {Name(c)} /\ Goes(c, "saved")
     \/ Goes(c, "plain") /\ UNCHANGED files
  /\ UNCHANGED <<aborted, active, left, faults>>

(* The result becomes the compacted one, unless it is too long with the path. *)
Publish(c) ==
  /\ step[c] = "saved"
  /\ \/ c \notin aborted /\ Goes(c, "compacted")
     \/ Goes(c, "discarding")
  /\ UNCHANGED <<aborted, active, files, left, faults>>

(* discard, in finally *)
Discard(c) ==
  /\ step[c] = "discarding" /\ Goes(c, "plain")
  /\ \/ files' = files \ {Name(c)} /\ UNCHANGED <<left, faults>>
     \/ /\ faults < MaxFaults /\ faults' = faults + 1
        /\ left' = left \cup {Name(c)} /\ UNCHANGED files
  /\ UNCHANGED <<aborted, active>>

Crash(p) ==
  LET lost == {c \in UnderWay : ProcOf[c] = p} IN
  /\ lost # {} /\ faults < MaxFaults /\ faults' = faults + 1
  /\ step' = [c \in Calls |-> IF c \in lost THEN "plain" ELSE step[c]]
  /\ left' = left \cup {Name(c) : c \in lost \cap (At("saved") \cup At("discarding"))}
  /\ active' = [active EXCEPT ![p] = 0]
  /\ UNCHANGED <<aborted, files>>

Next ==
  \/ \E c \in Calls : Compress(c) \/ Compressed(c) \/ Abort(c) \/ Count(c)
                      \/ Write(c) \/ Publish(c) \/ Discard(c)
  \/ \E p \in Procs : Crash(p)

Spec == Init /\ [][Next]_vars

------------------------------------------------------------------------------
Step == {"none", "compressing", "saving", "writing", "saved", "discarding", "plain",
         "compacted"}

TypeOK ==
  /\ step \in [Calls -> Step] /\ aborted \subseteq Calls
  /\ active \in [Procs -> 0 .. MaxWorkers] /\ faults \in 0 .. MaxFaults

(* The original a compacted result names is on disk, whatever other calls    *)
(* and processes with the same result do (originals.ts, 5 and 25).           *)
OriginalsKept == \A c \in At("compacted") : Name(c) \in files

(* "Do not retain a new sensitive artifact when no replacement was published" *)
(* (compact.ts:60): an original that no result names belongs to a call that *)
(* is under way, or was left by a crash or a failed removal.               *)
NoneRetained ==
  files \subseteq left \cup {Name(c) : c \in At("compacted") \cup At("saved")
                                             \cup At("discarding")}

(* The store holds the originals that results name, and no others.           *)
OriginalsTrue == OriginalsKept /\ NoneRetained

(* The count that limits the workers of a process is that of its workers,    *)
(* however they end (bridge.ts, 84-94).                                    *)
WorkersCounted ==
  \A p \in Procs : active[p] = Cardinality({c \in At("compressing") : ProcOf[c] = p})
=============================================================================
