------------------------------ MODULE ProcessLog ------------------------------
(***************************************************************************)
(* The log of one background process (background-process/log-store.ts): a  *)
(* current segment, rotated into a previous one when it is full.  A segment *)
(* is the interval of the stream it holds.  The writer is synchronous, but  *)
(* a rotation can fail between its file operations or be cut there by a    *)
(* crash, and another session start removes what is too old.               *)
(***************************************************************************)
EXTENDS Integers

CONSTANTS
  SegmentSize,  \* segmentBytes, in units of output
  MaxOutput,    \* bound: units of output
  MaxFailures,  \* bound: file operations that fail
  Missing       \* no such file

ASSUME LogAssumption ==
  /\ SegmentSize \in Nat \ {0} /\ MaxOutput \in Nat /\ MaxFailures \in Nat
  /\ Missing \notin [from : Nat, to : Nat, old : BOOLEAN]

VARIABLES
  current, previous, \* the two files
  descriptor,        \* the current file is open for writing
  written,           \* currentBytes
  total,             \* the output handed to append
  writer,            \* "open", "closed", or "removed" with its files
  failures

logVars == <<current, previous, descriptor, written, total, writer, failures>>

(* The units after "from" up to "to"; old: its mtime is past ttlMs *)
File(from, to) == [from |-> from, to |-> to, old |-> FALSE]
Length(file) == IF file = Missing THEN 0 ELSE file.to - file.from
retainedBytes == Length(previous) + Length(current)

Init ==
  /\ current = File(0, 0) /\ previous = Missing
  /\ descriptor = TRUE /\ written = 0 /\ total = 0 /\ writer = "open" /\ failures = 0

(* One unit is written where there is room for it. *)
Write ==
  /\ writer = "open" /\ total < MaxOutput
  /\ written < SegmentSize /\ descriptor
  /\ current' = File(current.from, total + 1)
  /\ written' = written + 1 /\ total' = total + 1
  /\ UNCHANGED <<previous, descriptor, writer, failures>>

(* rotate: close and remove, rename, open; it throws after "done" of these, *)
(* and append with it, which loses the rest of the chunk.                  *)
Rotate(done) ==
  /\ writer = "open" /\ total < MaxOutput
  /\ written >= SegmentSize
  /\ done < 3 => failures < MaxFailures
  /\ failures' = IF done < 3 THEN failures + 1 ELSE failures
  /\ total' = IF done < 3 THEN total + 1 ELSE total
  /\ previous' = IF done = 0 THEN previous ELSE IF done = 1 THEN Missing ELSE current
  /\ current' = IF done = 3 THEN File(total, total)
                ELSE IF done = 2 THEN Missing ELSE current
  /\ descriptor' = (done = 3)
  /\ written' = IF done = 3 THEN 0 ELSE written
  /\ UNCHANGED writer

(* The process closes, or Pi ends at any point. *)
Close ==
  /\ writer = "open"
  /\ writer' = "closed" /\ descriptor' = FALSE
  /\ UNCHANGED <<current, previous, written, total, failures>>

(* prune removes the log with its run. *)
Remove ==
  /\ writer # "removed"
  /\ writer' = "removed" /\ descriptor' = FALSE
  /\ current' = Missing /\ previous' = Missing
  /\ UNCHANGED <<written, total, failures>>

Aged(file) == IF file = Missing THEN file ELSE [file EXCEPT !.old = TRUE]

(* Time passes: the current segment is never older than the previous one. *)
Age ==
  /\ \/ previous' = Aged(previous) /\ current' = Aged(current)
     \/ previous' = Aged(previous) /\ UNCHANGED current
  /\ UNCHANGED <<descriptor, written, total, writer, failures>>

(* Mutant: only current files are looked at. *)
KeptCurrent(file) == IF file = current /\ file # Missing /\ file.old THEN Missing ELSE file

Kept(file) == IF file # Missing /\ file.old THEN Missing ELSE file

(* A session starts once the writer is done: cleanup. *)
Cleanup ==
  /\ writer = "closed"
  /\ current' = Kept(current) /\ previous' = Kept(previous)
  /\ UNCHANGED <<descriptor, written, total, writer, failures>>

Next ==
  \/ Write \/ (\E done \in 0 .. 3 : Rotate(done))
  \/ Close \/ Remove \/ Age \/ Cleanup

Spec == Init /\ [][Next]_logVars

------------------------------------------------------------------------------
Segment == [from : Nat, to : Nat, old : BOOLEAN]

(* The variables of a log are well typed, and a segment is never overfull. *)
LogTypeOK ==
  /\ current \in Segment \cup {Missing} /\ previous \in Segment \cup {Missing}
  /\ descriptor \in BOOLEAN /\ written \in 0 .. SegmentSize /\ total \in Nat
  /\ writer \in {"open", "closed", "removed"} /\ failures \in Nat

(* The two segments never hold more than twice the limit, and a quiet       *)
(* process keeps at least its newest full segment: rotating, cut anywhere, *)
(* loses only what is older (README.md:284).                               *)
NewestRetained ==
  /\ retainedBytes <= 2 * SegmentSize
  /\ writer = "open" /\ failures = 0
     => retainedBytes >= (IF total < SegmentSize THEN total ELSE SegmentSize)

(* What tail and search read of a log whose writes never failed is one piece *)
(* of the stream up to its end: a cleanup never leaves the older segment    *)
(* without the newer one (log-store.ts, 129, 229).  A failed rotation may    *)
(* leave a gap, and then the run fails (process.ts, 133), but wherever it is  *)
(* cut, and tried again, the older segment stays the one before (171-182).   *)
OnePiece ==
  /\ previous # Missing /\ current # Missing => previous.to <= current.from
  /\ failures = 0 =>
       /\ previous # Missing => current # Missing /\ previous.to = current.from
       /\ current # Missing => current.to = total
=============================================================================
