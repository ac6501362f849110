----------------------------- MODULE MessageIndex -----------------------------
(***************************************************************************)
(* The index of the messages of one chat (extensions/whatsapp/store.ts):   *)
(* lines are appended to a file, and the worker that appends may die in    *)
(* the middle of one; too many messages are compacted away; the tool pages *)
(* through the messages while others arrive (index.ts, action find).       *)
(***************************************************************************)
EXTENDS Naturals, Sequences, FiniteSets

CONSTANTS
  Messages,   \* references, numbers so that they have an order
  TimeOf,     \* the timestamp of each message
  MaxKept,    \* MAX_CHAT_RECORDS
  Limit,      \* messages on a page
  MaxDeaths,  \* bound: deaths of the worker
  MaxAppends  \* bound: appends to the file

VARIABLES
  lines,   \* the messages that load can read in the file
  torn,    \* its last line has no end
  records, \* #records, {} when no worker runs
  running,
  paging,  \* the state of the reader
  cursor,  \* next_before, 0 if there is none
  want,    \* messages retained since the first page was read
  got,     \* the messages returned, in their order
  deaths, appends

file   == <<lines, torn>>
reader == <<paging, cursor, want, got>>
indexVars == <<file, records, running, reader, deaths, appends>>

Init ==
  /\ lines = {} /\ torn = FALSE /\ records = {} /\ running = TRUE
  /\ paging = "none" /\ cursor = 0 /\ want = {} /\ got = <<>>
  /\ deaths = 0 /\ appends = 0

(* Newest first, ties by reference *)
Before(m, n) == TimeOf[m] > TimeOf[n] \/ (TimeOf[m] = TimeOf[n] /\ m < n)

(* Mutant: ties with the cursor are taken to be on its page. *)
AfterStrictly(m, n) == TimeOf[m] < TimeOf[n]

(* The filter by the cursor *)
After(m, n) == Before(n, m)

(* A page: the first of a set in the order of Before *)
PageOf(S) ==
  LET Rank(m) == Cardinality({k \in S : Before(k, m)})
      size == IF Cardinality(S) < Limit THEN Cardinality(S) ELSE Limit
  IN [i \in 1 .. size |-> CHOOSE m \in S : Rank(m) = i - 1]

Listed(pages) == {pages[i] : i \in 1 .. Len(pages)}

(* compact; ties are left to the order in which the messages came. *)
Retained(S) ==
  {R \in SUBSET S : Cardinality(R) = MaxKept
                    /\ \A m \in S \ R, n \in R : TimeOf[m] <= TimeOf[n]}

(* Mutant: the limit is checked before the append. *)
OverBefore(S) == Cardinality(records) > MaxKept

OverRetention(S) == Cardinality(S) > MaxKept

(* Every append ends its last line. *)
TornAfter == FALSE

(* A line that is appended to a torn one cannot be read. *)
AppendedTo(batch) ==
  lines \cup IF torn THEN Listed(Tail(batch)) ELSE Listed(batch)

Batches == {<<m>> : m \in Messages} \cup {<<m, n>> : m, n \in Messages}

(* What is known is compacted, in memory and by a rename on disk. *)
Compact(S) ==
  \E R \in Retained(S) : records' = R /\ lines' = R /\ torn' = FALSE

(* add: only what is not known is appended. *)
Add(batch) ==
  LET all == records \cup Listed(batch) IN
  /\ running /\ appends < MaxAppends /\ appends' = appends + 1
  /\ Listed(batch) \cap records = {} /\ Cardinality(Listed(batch)) = Len(batch)
  /\ IF OverRetention(all) THEN Compact(all)
     ELSE records' = all /\ lines' = AppendedTo(batch) /\ torn' = TornAfter
  /\ want' = want \cap records'
  /\ UNCHANGED <<running, paging, cursor, got, deaths>>

(* The worker dies in an append, after some of its bytes, or between two. *)
Die ==
  /\ running /\ deaths < MaxDeaths /\ deaths' = deaths + 1
  /\ \/ UNCHANGED file
     \/ torn' = TRUE /\ UNCHANGED lines
     \/ torn' = TRUE /\ \E m \in Messages \ records : lines' = AppendedTo(<<m>>)
  /\ running' = FALSE /\ records' = {}
  /\ paging' = "none" /\ cursor' = 0 /\ want' = {} /\ got' = <<>>
  /\ UNCHANGED appends

(* load *)
Load ==
  /\ ~running /\ running' = TRUE
  /\ IF OverRetention(lines) THEN Compact(lines)
     ELSE records' = lines /\ UNCHANGED file
  /\ UNCHANGED <<reader, deaths, appends>>

(* find, a page at a time; a cursor that was compacted away is refused. *)
Page ==
  LET found == {m \in records : cursor = 0 \/ After(m, cursor)}
      more  == Cardinality(found) > Limit IN
  /\ running /\ paging \in {"none", "more"} /\ records # {}
  /\ IF cursor \notin records \cup {0}
     THEN paging' = "refused" /\ UNCHANGED <<cursor, want, got>>
     ELSE /\ got' = got \o PageOf(found)
          /\ want' = IF paging = "none" THEN records ELSE want
          /\ paging' = IF more THEN "more" ELSE "complete"
          /\ cursor' = IF more THEN PageOf(found)[Limit] ELSE 0
  /\ UNCHANGED <<file, records, running, deaths, appends>>

Next == (\E batch \in Batches : Add(batch)) \/ Die \/ Load \/ Page

Spec == Init /\ [][Next]_indexVars

------------------------------------------------------------------------------
TypeOK ==
  /\ lines \subseteq Messages /\ records \subseteq Messages
  /\ {torn, running} \subseteq BOOLEAN /\ Cardinality(records) <= MaxKept
  /\ paging \in {"none", "more", "complete", "refused"}
  /\ cursor \in Messages \cup {0} /\ want \subseteq Messages /\ got \in Seq(Messages)
  /\ deaths \in 0 .. MaxDeaths /\ appends \in 0 .. MaxAppends

(* A reader that is told "complete" has got every message that was there all *)
(* the time, each once, although others arrived or were compacted away      *)
(* between the pages (README.md, "without losing timestamp ties").          *)
PagesComplete ==
  /\ \A i, j \in 1 .. Len(got) : i < j => Before(got[i], got[j])
  /\ paging = "complete" => want \subseteq Listed(got)

(* A death of the worker costs one record at most: the next append joins its *)
(* first line to the torn one (store.ts, 172-174, 191-199).                 *)
LossBounded == running => Cardinality(records \ lines) <= deaths

(* What the index lists is all there is, but for what deaths have cost.      *)
IndexTrue == PagesComplete /\ LossBounded

=============================================================================
