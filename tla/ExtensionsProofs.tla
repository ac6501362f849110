--------------------------- MODULE ExtensionsProofs ---------------------------
(***************************************************************************)
(* What the small extensions promise, for all of them side by side: the     *)
(* proofs are about one extension at a time, since a step is a step of one  *)
(* of them and leaves the variables of the others alone.                   *)
(***************************************************************************)
EXTENDS MCExtensions, Sequences, TLAPS, FiniteSetTheorems, FunctionTheorems

(* A step of the extensions is one of each of them, or leaves it alone.      *)
LEMMA OneAtATime ==
  [ExtensionsNext]_everything =>
    /\ [Next]_logVars
    /\ [Vault!Next]_(Vault!vaultVars)
    /\ [Requests!Next]_(Requests!idleVars)
    /\ [Headroom!Next]_(Headroom!vars)
    /\ [Popup!Next]_(Popup!vars)
    /\ [Selection!Next]_(Selection!accountVars)
    /\ [Skills!Next]_(Skills!skillVars)
    /\ [Translation!Next]_(Translation!translateVars)
    /\ [Review!Next]_(Review!ledgerVars)
    /\ [Index!Next]_(Index!indexVars)
    /\ [Prompt!Next]_(Prompt!vars)
    /\ [Guidance!Next]_(Guidance!vars)
    /\ [SudoTool!Next]_(SudoTool!sudoVars)
    /\ [Chat!Next]_(Chat!vars)
  BY ZenonT(60) DEF ExtensionsNext, everything, logVars, accountStore, requests, headroom, popups,
               accounts, skills, translator, review, messageStore, prompt,
               Vault!vaultVars, Requests!idleVars, Headroom!vars, Popup!vars,
               Selection!accountVars, Selection!selection, Skills!skillVars,
               Translation!translateVars, Translation!setting, Translation!inputs,
               Translation!backend, Review!ledgerVars,
               Index!indexVars, Index!file, Index!reader, Prompt!vars, guidance, Guidance!vars,
               Guidance!inputs, sudoTool, chat, SudoTool!sudoVars, Chat!vars, Chat!session, Chat!client, Chat!bounds

------------------------------------------------------------------------------
(***************************************************************************)
(* The log of a process keeps its newest output in one piece, for segments  *)
(* of any size, any output and any number of failed file operations.       *)
(***************************************************************************)

(* A file is absent or holds at most a segment. *)
Bounded(file) ==
  file = Missing \/ (file \in Segment /\ file.from <= file.to
                     /\ file.to - file.from <= SegmentSize)

Counters ==
  /\ total \in Nat /\ failures \in Nat /\ written \in Nat /\ written <= SegmentSize
  /\ descriptor \in BOOLEAN /\ writer \in {"open", "closed", "removed"}

(* An open file is the current one, and the writer knows how long it is. *)
OpenIsCurrent ==
  descriptor = TRUE => /\ writer = "open" /\ current # Missing
                       /\ current.to - current.from = written /\ current.to = total

(* What is on disk was handed to append. *)
WithinOutput == current # Missing => current.to <= total

(* Without failures the file of an open writer is open, and all before it    *)
(* is a full segment.                                                      *)
FullBefore ==
  failures = 0 /\ writer = "open" =>
    /\ descriptor = TRUE
    /\ previous = Missing => current.from = 0
    /\ previous # Missing => previous.to - previous.from = SegmentSize

(* The older segment is the first to be too old. *)
OldestFirst ==
  failures = 0 /\ previous # Missing /\ current # Missing /\ current.old => previous.old

LogInv ==
  Bounded(current) /\ Bounded(previous) /\ Counters /\ OpenIsCurrent /\ WithinOutput
  /\ FullBefore /\ OldestFirst /\ OnePiece

(* A new segment holds what it was made of.                                  *)
LEMMA FileIsSegment ==
  ASSUME NEW a \in Nat, NEW b \in Nat
  PROVE  /\ File(a, b) \in Segment /\ File(a, b) # Missing
         /\ File(a, b).from = a /\ File(a, b).to = b /\ ~File(a, b).old
<1>1. File(a, b) \in Segment
  BY DEF File, Segment
<1>2. File(a, b) # Missing
  BY <1>1, LogAssumption DEF LogAssumption, Segment
<1>3. File(a, b).from = a /\ File(a, b).to = b /\ ~File(a, b).old
  BY DEF File
<1> QED
  BY <1>1, <1>2, <1>3

(* An aged segment holds the same lines.                                     *)
LEMMA AgedIsSame ==
  ASSUME NEW file \in Segment
  PROVE  /\ Aged(file) \in Segment /\ Aged(file) # Missing
         /\ Aged(file).from = file.from /\ Aged(file).to = file.to /\ Aged(file).old
<1>1. file # Missing
  BY LogAssumption DEF LogAssumption, Segment
<1>2. Aged(file) = [file EXCEPT !.old = TRUE]
  BY <1>1 DEF Aged
<1>3. Aged(file) \in Segment
  BY <1>2 DEF Segment
<1>4. Aged(file) # Missing
  BY <1>3, LogAssumption DEF LogAssumption, Segment
<1>5. Aged(file).from = file.from /\ Aged(file).to = file.to /\ Aged(file).old
  BY <1>2 DEF Segment
<1> QED
  BY <1>3, <1>4, <1>5

(* The log begins empty, in its current segment.                             *)
LEMMA InitLog == Init => LogInv
<1> SUFFICES ASSUME Init PROVE LogInv
  OBVIOUS
<1>1. /\ current \in Segment /\ current # Missing
      /\ current.from = 0 /\ current.to = 0
  BY FileIsSegment DEF Init
<1> QED
  BY <1>1, LogAssumption
  DEF LogAssumption, Init, LogInv, Bounded, Counters, OpenIsCurrent, WithinOutput,
      FullBefore, OldestFirst, OnePiece

(* Every step keeps the segments in order.                                   *)
LEMMA StepLog == LogInv /\ [Next]_logVars => LogInv'
<1> SUFFICES ASSUME LogInv, [Next]_logVars
             PROVE  LogInv'
  OBVIOUS
<1> USE LogAssumption
<1> USE DEF LogAssumption, LogInv, Bounded, Counters, OpenIsCurrent, WithinOutput,
            FullBefore, OldestFirst, OnePiece
<1>1. CASE Write
  <2>1. current \in Segment /\ total \in Nat /\ current.from \in Nat
    BY <1>1 DEF Write, Segment
  <2>2. /\ current' \in Segment /\ current' # Missing
        /\ current'.from = current.from /\ current'.to = total + 1 /\ ~current'.old
    BY <1>1, <2>1, FileIsSegment DEF Write
  <2> QED
    BY <1>1, <2>1, <2>2 DEF Write
<1>2. ASSUME NEW done \in 0 .. 3, Rotate(done)
      PROVE  LogInv'
  <2>1. CASE done = 3
    <3>1. /\ current' \in Segment /\ current' # Missing
          /\ current'.from = total /\ current'.to = total /\ ~current'.old
      BY <1>2, <2>1, FileIsSegment DEF Rotate
    <3>2. previous' = current /\ total' = total /\ written' = 0 /\ failures' = failures
          /\ writer' = writer /\ written >= SegmentSize /\ writer = "open"
      BY <1>2, <2>1 DEF Rotate
    <3>4. descriptor' = TRUE
      <4>1. descriptor' = (done = 3)
        BY <1>2, Zenon DEF Rotate
      <4> QED
        BY <4>1, <2>1
    <3>3. /\ current \in Segment \cup {Missing}
          /\ current # Missing => current.from \in Nat /\ current.to \in Nat
          /\ current # Missing => current.old \in BOOLEAN
      BY DEF Segment
    <3> QED
      BY <3>1, <3>2, <3>3, <3>4
  <2>2. CASE done < 3
    <3>1. failures' = failures + 1 /\ total' = total + 1 /\ written' = written
      BY <1>2, <2>2 DEF Rotate
    <3>2. previous' \in {previous, current, Missing} /\ current' \in {current, Missing}
      BY <1>2, <2>2 DEF Rotate
    <3>3. descriptor' = FALSE
      <4>1. descriptor' = (done = 3)
        BY <1>2, Zenon DEF Rotate
      <4>2. ~(done = 3)
        BY <2>2
      <4> QED
        BY <4>1, <4>2, Zenon
    <3>4. Bounded(current)' /\ Bounded(previous)'
      BY <3>2
    <3>5. failures' # 0
      BY <3>1
    <3>6. /\ total' \in Nat /\ failures' \in Nat /\ written' \in Nat
          /\ written' <= SegmentSize
      BY <3>1
    <3>10. writer' \in {"open", "closed", "removed"}
      BY <1>2 DEF Rotate
    <3>7. Counters'
      BY <3>3, <3>6, <3>10, Zenon
    <3>8. OpenIsCurrent'
      BY <3>3, Zenon
    <3>9. FullBefore' /\ OldestFirst'
      BY <3>5, Zenon
    <3>11. \/ current' = current /\ previous' = previous
           \/ current' = Missing \/ previous' = Missing
      BY <1>2, <2>2 DEF Rotate
    <3>12. (previous # Missing /\ current # Missing => previous.to <= current.from)'
      BY <3>11
    <3>13. OnePiece'
      BY <3>5, <3>12
    <3>14. WithinOutput'
      BY <3>1, <3>2 DEF Segment
    <3> HIDE DEF Bounded, Counters, OpenIsCurrent, WithinOutput, FullBefore, OldestFirst, OnePiece
    <3> QED
      BY <3>4, <3>7, <3>8, <3>9, <3>13, <3>14
  <2>3. done = 3 \/ done < 3
    OBVIOUS
  <2> QED
    BY <2>1, <2>2, <2>3, Zenon
<1>3. CASE Close
  BY <1>3 DEF Close
<1>4. CASE Remove
  BY <1>4 DEF Remove
<1>5. CASE Age
  <2>1. previous' = Aged(previous) /\ current' \in {current, Aged(current)}
    BY <1>5 DEF Age
  <2>2. UNCHANGED <<descriptor, written, total, writer, failures>>
    BY <1>5 DEF Age
  <2>3. Aged(Missing) = Missing
    BY DEF Aged
  <2>4. Bounded(current)' /\ Bounded(previous)'
    BY <2>1, <2>3, AgedIsSame
  <2>5. /\ current' = Missing <=> current = Missing
        /\ current # Missing => current'.from = current.from /\ current'.to = current.to
        /\ previous' = Missing <=> previous = Missing
        /\ previous # Missing => /\ previous'.from = previous.from
                                 /\ previous'.to = previous.to /\ previous'.old
    BY <2>1, <2>3, AgedIsSame
  <2> QED
    BY <2>2, <2>4, <2>5
<1>6. CASE Cleanup
  <2>1. UNCHANGED <<descriptor, written, total, writer, failures>> /\ writer = "closed"
    BY <1>6 DEF Cleanup
  <2>2. current' = Kept(current) /\ previous' = Kept(previous)
    BY <1>6 DEF Cleanup
  <2>3. current' \in {current, Missing} /\ previous' \in {previous, Missing}
    BY <2>2 DEF Kept
  <2>4. current # Missing /\ current' = Missing => current.old
    BY <2>2 DEF Kept
  <2>5. previous' # Missing => previous' = previous /\ ~previous.old
    BY <2>2 DEF Kept
  <2> QED
    BY <2>1, <2>3, <2>4, <2>5
<1>7. CASE UNCHANGED logVars
  BY <1>7 DEF logVars
<1> QED
  BY <1>1, <1>2, <1>3, <1>4, <1>5, <1>6, <1>7 DEF Next

(* The segments stay in order.                                               *)
LEMMA LogAlways == Extensions => []LogInv
<1>1. ExtensionsInit => LogInv
  BY InitLog DEF ExtensionsInit
<1>2. LogInv /\ [ExtensionsNext]_everything => LogInv'
  BY StepLog, OneAtATime
<1> QED
  BY <1>1, <1>2, PTL DEF Extensions

(* What tail and search read of a log whose writes never failed is one piece *)
(* of the output up to its end, through rotations, ageing and cleanups; and  *)
(* the older segment stays the one before, wherever a rotation is cut.      *)
THEOREM Continuous == Extensions => []OnePiece
<1>1. LogInv => OnePiece
  BY DEF LogInv
<1> QED
  BY <1>1, LogAlways, PTL

(* The files always stay within two segments.  While the writer is open and   *)
(* no file operation has failed, they hold at least the last segment.       *)
THEOREM Retained == Extensions => []NewestRetained
<1>1. LogInv => NewestRetained
  <2> SUFFICES ASSUME LogInv PROVE NewestRetained
    OBVIOUS
  <2>1. Length(current) \in Nat /\ Length(current) <= SegmentSize
    BY LogAssumption DEF LogAssumption, LogInv, Bounded, Segment, Length
  <2>2. Length(previous) \in Nat /\ Length(previous) <= SegmentSize
    BY LogAssumption DEF LogAssumption, LogInv, Bounded, Segment, Length
  <2>3. ASSUME writer = "open", failures = 0
        PROVE  retainedBytes >= (IF total < SegmentSize THEN total ELSE SegmentSize)
    BY <2>1, <2>2, <2>3, LogAssumption
    DEF LogAssumption, LogInv, Counters, OpenIsCurrent, FullBefore, Bounded, Segment, retainedBytes, Length
  <2>4. retainedBytes <= 2 * SegmentSize
    BY <2>1, <2>2, LogAssumption DEF LogAssumption, retainedBytes
  <2> QED
    BY <2>3, <2>4 DEF NewestRetained
<1> QED
  BY <1>1, LogAlways, PTL

------------------------------------------------------------------------------
(***************************************************************************)
(* Transactions on the vault of accounts, for any number of processes and   *)
(* accounts and any number of suspensions: what a process works on is what  *)
(* the vault holds as long as the lock is the process's own.               *)
(***************************************************************************)

Marks == NoAccount \notin Accounts /\ NoAccount \notin Sessions

Transaction ==
  [stage : {"idle", "locking", "reading", "working", "saving", "releasing"},
   op : Vault!Operation, account : Accounts \cup {NoAccount}, base : Vault!Contents,
   state : Vault!Contents, cancelled : BOOLEAN, compromised : BOOLEAN]

Types ==
  /\ vault \in Vault!Contents /\ tokens \in [Accounts -> Nat]
  /\ holder \in Sessions \cup {NoAccount} /\ overrun \in BOOLEAN
  /\ suspensions \in Nat /\ unsaved \subseteq Accounts
  /\ txn \in [Sessions -> Transaction]
  /\ \A s \in Sessions : txn[s].stage # "idle" => txn[s].account \in Accounts

DefaultIn(c) == c.default = NoAccount \/ c.default \in Vault!Stored(c)

Defaults == DefaultIn(vault) /\ \A s \in Sessions : DefaultIn(txn[s].state)

(* The holder of the lock has read what the vault holds. *)
ReadByHolder ==
  overrun \/ \A s \in Sessions :
    holder = s /\ txn[s].stage \in {"working", "saving"} => txn[s].base = vault

(* Nobody was suspended: the holder is the one that is in a transaction. *)
HeldAlone ==
  suspensions = 0 => \A s \in Sessions :
    /\ Vault!InLock(s) <=> holder = s
    /\ ~txn[s].compromised
    /\ txn[s].stage = "working" => txn[s].state = vault
    /\ txn[s].stage = "saving" =>
         \A a \in Vault!Stored(txn[s].state) \ unsaved :
            txn[s].state.token[a] = tokens[a]

VaultInv == Marks /\ Types /\ Defaults /\ ReadByHolder /\ HeldAlone /\ Vault!TokensLive

(* A vault without accounts has no token and no default.                     *)
LEMMA EmptyIsEmpty ==
  ASSUME Marks
  PROVE  /\ Vault!Empty \in Vault!Contents /\ Vault!Stored(Vault!Empty) = {} /\ DefaultIn(Vault!Empty)
         /\ Vault!Idle \in Transaction
<1>1. Vault!Empty \in Vault!Contents /\ Vault!Stored(Vault!Empty) = {} /\ Vault!Empty.default = NoAccount
  BY DEF Vault!Empty, Vault!Contents, Vault!Stored
<1>2. Vault!Idle \in Transaction
  BY <1>1 DEF Vault!Idle, Transaction, Vault!Operation
<1> QED
  BY <1>1, <1>2 DEF DefaultIn

(* The vault begins empty, with no transaction under way.                    *)
LEMMA InitVault ==
  ASSUME Marks, Vault!Init
  PROVE  VaultInv
<1> USE EmptyIsEmpty
<1>1. Types
  BY DEF Vault!Init, Types, Vault!Idle
<1>2. Defaults
  BY DEF Vault!Init, Defaults, Vault!Idle
<1>3. ReadByHolder /\ HeldAlone
  BY DEF Vault!Init, ReadByHolder, HeldAlone, Vault!Idle, Vault!InLock, Marks
<1>4. Vault!TokensLive
  BY DEF Vault!Init, Vault!TokensLive
<1> QED
  BY <1>1, <1>2, <1>3, <1>4 DEF VaultInv


(* The steps before the vault is saved, and the release of the lock.         *)
LEMMA Starts ==
  ASSUME VaultInv, NEW s \in Sessions,
         \/ \E op \in Vault!Operation, a \in Accounts : Vault!Begin(s, op, a)
         \/ Vault!Acquire(s) \/ Vault!GiveUp(s) \/ Vault!ReadVault(s) \/ Vault!Release(s)
  PROVE  VaultInv'
<1> USE DEF VaultInv, Types, Marks
<1> USE EmptyIsEmpty
<1>1. ASSUME NEW op \in Vault!Operation, NEW a \in Accounts, Vault!Begin(s, op, a)
      PROVE  VaultInv'
  <2>1. [Vault!Idle EXCEPT !.stage = "locking", !.op = op, !.account = a] \in Transaction
    BY DEF Transaction, Vault!Idle
  <2>2. Types'
    BY <1>1, <2>1 DEF Vault!Begin, Vault!Idle
  <2>3. txn[s].stage = "idle" /\ UNCHANGED <<vault, tokens, unsaved, holder, suspensions, overrun>>
    BY <1>1 DEF Vault!Begin
  <2>4. /\ txn'[s].stage = "locking" /\ txn'[s].state = Vault!Empty /\ ~txn'[s].compromised
        /\ \A r \in Sessions : r # s => txn'[r] = txn[r]
    BY <1>1 DEF Vault!Begin, Vault!Idle
  <2>5. Defaults'
    BY <2>3, <2>4 DEF Defaults, DefaultIn
  <2>6. ReadByHolder' /\ HeldAlone'
    BY <2>3, <2>4 DEF ReadByHolder, HeldAlone, Vault!InLock
  <2>7. Vault!TokensLive'
    BY <2>3, <2>4 DEF Vault!TokensLive
  <2> QED
    BY <2>2, <2>5, <2>6, <2>7
<1>2. CASE Vault!Acquire(s)
  <2>1. Types'
    BY <1>2 DEF Vault!Acquire, Transaction
  <2>2. Defaults'
    BY <1>2 DEF Vault!Acquire, Transaction, Defaults
  <2>3. txn[s].stage = "locking" /\ holder = NoAccount /\ holder' = s
        /\ UNCHANGED <<vault, tokens, unsaved, suspensions, overrun>>
    BY <1>2 DEF Vault!Acquire
  <2>4. txn'[s] = [txn[s] EXCEPT !.stage = "reading"]
        /\ \A r \in Sessions : r # s => txn'[r] = txn[r]
    BY <1>2 DEF Vault!Acquire
  <2>5. ReadByHolder'
    BY <2>3, <2>4 DEF Transaction, ReadByHolder
  <2>6. HeldAlone'
    BY <2>3, <2>4 DEF Transaction, HeldAlone, Vault!InLock
  <2>7. Vault!TokensLive'
    BY <2>3, <2>4 DEF Transaction, Vault!TokensLive
  <2> QED
    BY <2>1, <2>2, <2>5, <2>6, <2>7
<1>3. CASE Vault!GiveUp(s)
  BY <1>3 DEF Vault!GiveUp, Vault!Idle, Transaction, Defaults, ReadByHolder, HeldAlone, Vault!InLock, Vault!TokensLive
<1>4. CASE Vault!ReadVault(s)
  <2>1. /\ txn[s].stage = "reading" /\ txn[s] \in Transaction
        /\ UNCHANGED <<vault, tokens, unsaved, holder, suspensions, overrun>>
    BY <1>4 DEF Vault!ReadVault
  <2>2. CASE txn' = [txn EXCEPT ![s].stage = "working", ![s].base = vault, ![s].state = vault]
    <3>1. Types'
      BY ZenonT(40), <2>1, <2>2 DEF Transaction
    <3>2. Defaults'
      BY <2>1, <2>2 DEF Transaction, Defaults
    <3>3. ReadByHolder' /\ HeldAlone' /\ Vault!TokensLive'
      BY <2>1, <2>2 DEF Transaction, ReadByHolder, HeldAlone, Vault!InLock, Vault!TokensLive
    <3> QED
      BY <3>1, <3>2, <3>3
  <2>3. CASE Vault!Refuse(s)
    BY <2>1, <2>3 DEF Vault!Refuse, Transaction, Defaults, ReadByHolder, HeldAlone,
                      Vault!InLock, Vault!TokensLive
  <2> QED
    BY <1>4, <2>2, <2>3 DEF Vault!ReadVault
<1>5. CASE Vault!Release(s)
  BY <1>5 DEF Vault!Release, Vault!Idle, Transaction, Defaults, ReadByHolder, HeldAlone, Vault!InLock, Vault!TokensLive
<1> QED
  BY <1>1, <1>2, <1>3, <1>4, <1>5

(* A session is suspended, notices it, or dies.                              *)
LEMMA Faults ==
  ASSUME VaultInv, NEW s \in Sessions, Vault!Suspend(s) \/ Vault!Notice(s) \/ Vault!Die(s)
  PROVE  VaultInv'
<1> USE DEF VaultInv, Types, Marks
<1> USE EmptyIsEmpty
<1>1. CASE Vault!Suspend(s)
  BY <1>1 DEF Vault!Suspend, Vault!Interrupt, Defaults, ReadByHolder, HeldAlone, Vault!TokensLive
<1>2. CASE Vault!Notice(s)
  <2>1. Types' /\ Defaults' /\ ReadByHolder'
    BY <1>2 DEF Vault!Notice, Transaction, Defaults, ReadByHolder
  <2>2. suspensions # 0
    BY <1>2 DEF Vault!Notice, HeldAlone
  <2> QED
    BY <1>2, <2>1, <2>2 DEF Vault!Notice, HeldAlone, Vault!TokensLive
<1>3. CASE Vault!Die(s)
  <2>1. suspensions' # 0
    BY <1>3 DEF Vault!Die, Vault!Interrupt
  <2> QED
    BY <1>3, <2>1 DEF Vault!Die, Vault!Interrupt, Vault!Idle, Transaction, Defaults, ReadByHolder, HeldAlone, Vault!TokensLive
<1> QED
  BY <1>1, <1>2, <1>3

(* A change of the accounts that were read, which an operation has in hand. *)
LEMMA Changes ==
  ASSUME VaultInv, NEW s \in Sessions, Vault!Add(s) \/ Vault!Edit(s) \/ Vault!Rotate(s)
  PROVE  VaultInv'
<1> USE DEF VaultInv, Types, Marks
<1>1. txn[s].stage = "working" /\ txn[s].account \in Accounts /\ txn[s] \in Transaction
  BY DEF Vault!Add, Vault!Edit, Vault!Rotate, Vault!Ready
<1>2. UNCHANGED <<vault, holder, operations, suspensions, overrun>>
  BY DEF Vault!Add, Vault!Edit, Vault!Rotate
<1> DEFINE a == txn[s].account
           old == txn[s].state
<1>3. old \in Vault!Contents /\ DefaultIn(old)
  BY <1>1 DEF Transaction, Defaults
<1>4. ASSUME Vault!Refuse(s), tokens' \in [Accounts -> Nat],
             unsaved \subseteq unsaved', unsaved' \subseteq Accounts,
             \A b \in Accounts \ unsaved' : tokens'[b] = tokens[b]
      PROVE  VaultInv'
  <2>1. Types' /\ Defaults' /\ ReadByHolder'
    BY <1>1, <1>2, <1>4 DEF Vault!Refuse, Transaction, Defaults, ReadByHolder
  <2>2. txn'[s].stage = "releasing" /\ txn'[s].compromised = txn[s].compromised
        /\ \A r \in Sessions : r # s => txn'[r] = txn[r]
    BY <1>1, <1>4 DEF Vault!Refuse, Transaction
  <2>3. HeldAlone'
    BY <1>1, <1>2, <1>4, <2>2 DEF HeldAlone, Vault!InLock, Vault!Stored
  <2>4. Vault!TokensLive'
    <3> SUFFICES ASSUME suspensions' = 0, NEW b \in Vault!Stored(vault) \ unsaved'
                 PROVE  \/ vault.token[b] = tokens'[b]
                        \/ \E r \in Sessions : /\ txn'[r].stage = "saving"
                                              /\ txn'[r].state.token[b] = tokens'[b]
      BY <1>2 DEF Vault!TokensLive
    <3>1. b \in Accounts /\ tokens'[b] = tokens[b] /\ b \notin unsaved
      BY <1>4 DEF Vault!Stored
    <3> QED
      BY <1>1, <1>2, <2>2, <3>1 DEF Vault!TokensLive
  <2> QED
    BY <2>1, <2>3, <2>4
<1>5. ASSUME NEW new \in Vault!Contents, NEW cancelled \in BOOLEAN, DefaultIn(new),
             tokens' \in [Accounts -> Nat], UNCHANGED unsaved,
             txn' = [txn EXCEPT ![s].stage = "saving", ![s].cancelled = cancelled,
                                ![s].state = new],
             \A b \in Accounts :
               \/ tokens'[b] = tokens[b] /\ new.token[b] \in {old.token[b], 0}
               \/ new.token[b] = tokens'[b]
             \* what an operation has in hand is in the new contents
      PROVE  VaultInv'
  <2>1. Types' /\ Defaults'
    BY <1>1, <1>2, <1>5 DEF Transaction, Defaults
  <2>2. ReadByHolder'
    BY <1>1, <1>2, <1>5 DEF Transaction, ReadByHolder
  <2>3. ASSUME suspensions' = 0
        PROVE  /\ \A b \in Vault!Stored(old) \ unsaved : old.token[b] = tokens[b]
               /\ old = vault
    BY <1>1, <1>2, <2>3 DEF HeldAlone, Vault!TokensLive, Vault!InLock
  <2>4. ASSUME suspensions' = 0, NEW b \in Vault!Stored(new) \ unsaved
        PROVE  new.token[b] = tokens'[b]
    BY <1>3, <1>5, <2>3, <2>4 DEF Vault!Stored
  <2>5. txn'[s].stage = "saving" /\ txn'[s].state = new
        /\ txn'[s].compromised = txn[s].compromised
        /\ \A r \in Sessions : r # s => txn'[r] = txn[r]
    BY <1>1, <1>5 DEF Transaction
  <2>6. ASSUME suspensions' = 0, NEW r \in Sessions, r # s
        PROVE  txn'[r] = txn[r] /\ ~Vault!InLock(r)
    BY <1>1, <1>2, <2>5, <2>6 DEF HeldAlone, Vault!InLock
  <2>7. HeldAlone'
    BY <1>1, <1>2, <1>5, <2>4, <2>5, <2>6 DEF HeldAlone, Vault!InLock
  <2>8. Vault!TokensLive'
    <3> SUFFICES ASSUME suspensions' = 0, NEW b \in Vault!Stored(vault) \ unsaved
                 PROVE  vault.token[b] = tokens'[b]
                        \/ (txn'[s].stage = "saving" /\ txn'[s].state.token[b] = tokens'[b])
      BY <1>2, <1>5 DEF Vault!TokensLive
    <3>1. b \in Accounts
      BY DEF Vault!Stored
    <3>2. vault.token[b] = tokens[b]
      BY <1>2, <2>3
    <3> QED
      BY <1>5, <2>5, <3>1, <3>2
  <2> QED
    BY <2>1, <2>2, <2>7, <2>8
<1>6. CASE Vault!Add(s)
  <2> UNCHANGED unsaved
    BY <1>6 DEF Vault!Add
  <2>1. CASE a \in Vault!Stored(old)
    BY <1>4, <1>6, <2>1 DEF Vault!Add
  <2>2. CASE a \notin Vault!Stored(old)
    <3> DEFINE new == [old EXCEPT !.token[a] = tokens[a] + 1]
    <3>1. tokens' = [tokens EXCEPT ![a] = @ + 1]
          /\ txn' = [txn EXCEPT ![s].stage = "saving", ![s].state = new]
      BY <1>6, <2>2 DEF Vault!Add, Vault!Apply
    <3>2. new \in Vault!Contents /\ DefaultIn(new) /\ new.token = [old.token EXCEPT ![a] = tokens[a] + 1]
      BY <1>1, <1>3 DEF Vault!Contents, DefaultIn, Vault!Stored
    <3>3. \A b \in Accounts : \/ tokens'[b] = tokens[b] /\ new.token[b] = old.token[b]
                              \/ new.token[b] = tokens'[b]
      BY <1>1, <1>3, <3>1, <3>2 DEF Vault!Contents
    <3>4. txn' = [txn EXCEPT ![s].stage = "saving", ![s].cancelled = txn[s].cancelled,
                             ![s].state = new]
      BY <1>1, <3>1 DEF Transaction
    <3>5. tokens' \in [Accounts -> Nat] /\ txn[s].cancelled \in BOOLEAN
      BY <1>1, <3>1 DEF Transaction
    <3> HIDE DEF new
    <3> QED
      BY <1>5, <3>2, <3>3, <3>4, <3>5
  <2> QED
    BY <2>1, <2>2
<1>7. CASE Vault!Rotate(s)
  <2>1. CASE Vault!Refuse(s) /\ UNCHANGED <<tokens, unsaved>>
    BY <1>4, <2>1
  <2>2. CASE Vault!Refuse(s) /\ tokens' = [tokens EXCEPT ![a] = @ + 1]
             /\ unsaved' = unsaved \cup {a}
    BY <1>1, <1>4, <2>2
  <2>3. CASE /\ tokens' = [tokens EXCEPT ![a] = @ + 1] /\ UNCHANGED unsaved
             /\ \E cancelled \in BOOLEAN :
                  txn' = [txn EXCEPT ![s].stage = "saving", ![s].cancelled = cancelled,
                            ![s].state.token[a] = tokens[a] + 1]
    <3> DEFINE new == [old EXCEPT !.token[a] = tokens[a] + 1]
    <3>1. tokens' = [tokens EXCEPT ![a] = @ + 1] /\ UNCHANGED unsaved
      BY <2>3
    <3>2. PICK cancelled \in BOOLEAN :
            txn' = [txn EXCEPT ![s].stage = "saving", ![s].cancelled = cancelled,
                      ![s].state.token[a] = tokens[a] + 1]
      BY <2>3
    <3>3. new \in Vault!Contents /\ DefaultIn(new) /\ new.token = [old.token EXCEPT ![a] = tokens[a] + 1]
      BY <1>1, <1>3 DEF Vault!Contents, DefaultIn, Vault!Stored
    <3>4. \A b \in Accounts : \/ tokens'[b] = tokens[b] /\ new.token[b] = old.token[b]
                              \/ new.token[b] = tokens'[b]
      BY <1>1, <1>3, <3>1, <3>3 DEF Vault!Contents
    <3>5. txn' = [txn EXCEPT ![s].stage = "saving", ![s].cancelled = cancelled,
                             ![s].state = new]
      BY <1>1, <3>2 DEF Transaction
    <3>6. tokens' \in [Accounts -> Nat]
      BY <1>1, <3>1
    <3> HIDE DEF new
    <3> QED
      BY <1>5, <3>1, <3>3, <3>4, <3>5, <3>6
  <2> QED
    BY <1>7, <2>1, <2>2, <2>3 DEF Vault!Rotate
<1>8. ASSUME NEW new \in Vault!Contents, Vault!Apply(s, new), DefaultIn(new), UNCHANGED <<tokens, unsaved>>,
             \A b \in Accounts : new.token[b] \in {old.token[b], 0}
      PROVE  VaultInv'
  <2>1. txn' = [txn EXCEPT ![s].stage = "saving", ![s].cancelled = txn[s].cancelled,
                           ![s].state = new]
    BY <1>1, <1>8 DEF Transaction, Vault!Apply
  <2>2. txn[s].cancelled \in BOOLEAN
    BY <1>1 DEF Transaction
  <2> QED
    BY <1>5, <1>8, <2>1, <2>2
<1>9. CASE Vault!Edit(s)
  <2>1. UNCHANGED <<tokens, unsaved>>
    BY <1>9 DEF Vault!Edit
  <2>2. CASE Vault!Apply(s, Vault!Removed(old, a))
    <3>1. Vault!Removed(old, a) \in Vault!Contents /\ DefaultIn(Vault!Removed(old, a))
          /\ \A b \in Accounts : Vault!Removed(old, a).token[b] \in {old.token[b], 0}
      BY <1>1, <1>3 DEF Vault!Removed, Vault!Contents, DefaultIn, Vault!Stored
    <3> QED
      BY <1>8, <2>1, <2>2, <3>1
  <2>3. ASSUME NEW d \in Vault!Stored(old) \cup {NoAccount}, Vault!Apply(s, [old EXCEPT !.default = d])
        PROVE  VaultInv'
    <3> DEFINE new == [old EXCEPT !.default = d]
    <3>1. new \in Vault!Contents /\ DefaultIn(new)
          /\ \A b \in Accounts : new.token[b] = old.token[b]
      BY <1>3 DEF Vault!Contents, DefaultIn, Vault!Stored
    <3> HIDE DEF new
    <3>2. Vault!Apply(s, new)
      BY <2>3 DEF new
    <3> QED
      BY <1>8, <2>1, <3>1, <3>2
  <2>4. CASE Vault!Refuse(s)
    BY <1>4, <2>1, <2>4
  <2> QED
    BY <1>9, <2>2, <2>3, <2>4 DEF Vault!Edit
<1> QED
  BY <1>6, <1>7, <1>9

(* The vault is saved.                                                       *)
LEMMA Saves ==
  ASSUME VaultInv, NEW s \in Sessions, Vault!SaveVault(s)
  PROVE  VaultInv'
<1> USE DEF VaultInv, Types, Marks
<1>1. txn[s].stage = "saving" /\ txn[s] \in Transaction
      /\ txn' = [txn EXCEPT ![s].stage = "releasing"]
      /\ UNCHANGED <<tokens, holder, operations, suspensions>>
  BY DEF Vault!SaveVault, Vault!Refuse
<1>2. txn'[s].stage = "releasing" /\ txn'[s].state = txn[s].state
      /\ txn'[s].compromised = txn[s].compromised /\ txn'[s].base = txn[s].base
      /\ \A r \in Sessions : r # s => txn'[r] = txn[r]
  BY <1>1 DEF Transaction
<1>3. CASE /\ vault' = IF ~txn[s].compromised THEN txn[s].state ELSE vault
           /\ unsaved' = {a \in unsaved : vault'.token[a] # tokens[a]}
           /\ overrun' = (overrun \/ (holder # s /\ ~txn[s].compromised))
  <2>1. Types'
    BY <1>1, <1>3 DEF Transaction
  <2>2. Defaults'
    BY <1>1, <1>2, <1>3 DEF Defaults
  <2>3. ReadByHolder'
    BY <1>1, <1>2, <1>3 DEF ReadByHolder
  <2>4. ASSUME suspensions' = 0
        PROVE  /\ vault' = txn[s].state /\ holder = s /\ ~txn[s].compromised
               /\ \A a \in Vault!Stored(vault') \ unsaved' : vault'.token[a] = tokens[a]
               /\ \A r \in Sessions : r # s => ~Vault!InLock(r) /\ ~txn[r].compromised
    <3>1. vault' = txn[s].state /\ holder = s /\ ~txn[s].compromised
      BY <1>1, <1>3, <2>4 DEF HeldAlone, Vault!InLock
    <3>2. \A r \in Sessions : r # s => ~Vault!InLock(r) /\ ~txn[r].compromised
      BY <1>1, <2>4, <3>1 DEF HeldAlone
    <3>3. \A a \in Vault!Stored(vault') \ unsaved : vault'.token[a] = tokens[a]
      BY <1>1, <2>4, <3>1 DEF HeldAlone
    <3> QED
      BY <1>3, <3>1, <3>2, <3>3
  <2>5. HeldAlone'
    BY <1>1, <1>2, <2>4 DEF HeldAlone, Vault!InLock
  <2>6. Vault!TokensLive'
    BY <1>1, <2>4 DEF Vault!TokensLive
  <2> QED
    BY <2>1, <2>2, <2>3, <2>5, <2>6
<1>4. CASE unsaved' = unsaved \cup Vault!OnlyIn(txn[s].state) /\ UNCHANGED <<vault, overrun>>
  <2>1. unsaved' \subseteq Accounts
    BY <1>4 DEF Vault!OnlyIn
  <2>2. Types'
    BY <1>1, <1>4, <2>1 DEF Transaction
  <2>3. Defaults' /\ ReadByHolder'
    BY <1>1, <1>2, <1>4 DEF Defaults, ReadByHolder
  <2>4. ASSUME suspensions' = 0
        PROVE  /\ holder = s /\ ~txn[s].compromised
               /\ \A r \in Sessions : r # s => ~Vault!InLock(r) /\ ~txn[r].compromised
    BY <1>1, <2>4 DEF HeldAlone, Vault!InLock
  <2>5. HeldAlone'
    BY <1>1, <1>2, <2>4 DEF HeldAlone, Vault!InLock
  <2>6. Vault!TokensLive'
    <3> SUFFICES ASSUME suspensions' = 0, NEW a \in Vault!Stored(vault) \ unsaved'
                 PROVE  vault.token[a] = tokens[a]
      BY <1>1, <1>4 DEF Vault!TokensLive
    <3>1. a \in Accounts /\ a \notin unsaved /\ a \notin Vault!OnlyIn(txn[s].state)
      BY <1>4 DEF Vault!Stored
    <3>2. \A r \in Sessions : txn[r].stage = "saving" => r = s
      BY <2>4 DEF Vault!InLock
    <3> QED
      BY <1>1, <3>1, <3>2 DEF Vault!TokensLive, Vault!OnlyIn
  <2> QED
    BY <2>2, <2>3, <2>5, <2>6
<1> QED
  BY <1>3, <1>4 DEF Vault!SaveVault, Vault!MaySave

(* Every step keeps the vault and its transactions in step.                  *)
LEMMA StepVault == VaultInv /\ [Vault!Next]_(Vault!vaultVars) => VaultInv'
<1> SUFFICES ASSUME VaultInv, [Vault!Next]_(Vault!vaultVars) PROVE VaultInv'
  OBVIOUS
<1>1. CASE UNCHANGED Vault!vaultVars
  BY <1>1 DEF Vault!vaultVars, VaultInv, Marks, Types, Defaults, ReadByHolder, HeldAlone, Vault!InLock,
              Vault!TokensLive
<1>2. CASE Vault!Next
  BY <1>2, Starts, Faults, Changes, Saves DEF Vault!Next
<1> QED
  BY <1>1, <1>2

(* The vault and its transactions stay in step.                              *)
LEMMA VaultAlways == Extensions => []VaultInv
<1>1. ExtensionsInit => VaultInv
  BY InitVault, ExtensionsAssumption DEF ExtensionsAssumption, ExtensionsInit, Marks
<1>2. VaultInv /\ [ExtensionsNext]_everything => VaultInv'
  BY StepVault, OneAtATime
<1> QED
  BY <1>1, <1>2, PTL DEF Extensions

(* The vault keeps the token that the endpoint has rotated to (store.ts,     *)
(* 112-113), for any number of processes and accounts, unless the answer of *)
(* the endpoint was lost, the file could not be written, or a process was   *)
(* suspended or died before it was saved.                                  *)
THEOREM RotatedTokensLive == Extensions => []TokensLive
<1>1. VaultInv => TokensLive
  BY DEF VaultInv, TokensLive
<1> QED
  BY <1>1, VaultAlways, PTL

(* The default account is one that is there (store.ts, 142 and 186).         *)
THEOREM DefaultIsStored == Extensions => []Vault!DefaultStored
<1>1. VaultInv => Vault!DefaultStored
  BY DEF VaultInv, Defaults, DefaultIn, Vault!DefaultStored
<1> QED
  BY <1>1, VaultAlways, PTL

(* A save replaces what its process has read, also after any suspensions,    *)
(* until one was not noticed in time (store.ts, 75 and 114).                *)
THEOREM SavesUndoNothing == Extensions => Vault!NothingUndone
<1>1. ASSUME VaultInv, Vault!Next, vault' # vault, ~overrun'
      PROVE  \E s \in Sessions : txn[s].stage = "saving" /\ txn[s].base = vault
  <2>1. PICK s \in Sessions : Vault!SaveVault(s)
    BY <1>1 DEF Vault!Next, Vault!Begin, Vault!Acquire, Vault!GiveUp, Vault!ReadVault, Vault!Add, Vault!Edit, Vault!Rotate, Vault!Release, Vault!Suspend, Vault!Notice, Vault!Die
  <2>2. ~overrun /\ holder = s /\ txn[s].stage = "saving"
    BY <1>1, <2>1 DEF Vault!SaveVault, Vault!MaySave, VaultInv, Types
  <2> QED
    BY <1>1, <2>2 DEF VaultInv, ReadByHolder
<1>2. VaultInv /\ [ExtensionsNext]_everything =>
        [vault' # vault /\ ~overrun' =>
           \E s \in Sessions : txn[s].stage = "saving" /\ txn[s].base = vault]_(Vault!vaultVars)
  BY <1>1, OneAtATime
<1> QED
  BY <1>2, VaultAlways, PTL DEF Extensions, Vault!NothingUndone

------------------------------------------------------------------------------
(***************************************************************************)
(* A late answer changes nothing, for any number of requests: a request of   *)
(* the present generation is about the present conversation, because each   *)
(* change of the conversation begins a generation.                         *)
(***************************************************************************)

Counted ==
  /\ conversation \in Nat /\ branch \in Nat
  /\ recapGeneration \in Nat /\ titleGeneration \in Nat

RecapsCurrent ==
  \A r \in recaps : /\ r.at \in Nat /\ r.at <= recapGeneration
                    /\ r.at = recapGeneration => r.about = conversation

TitlesCurrent ==
  \A t \in titles : /\ t.at \in Nat /\ t.at <= titleGeneration
                    /\ t.at = titleGeneration => t.about = branch

IdleInv == Counted /\ RecapsCurrent /\ TitlesCurrent /\ Requests!RecapIsCurrent

(* A step of the title's: a name that is set is of the present branch. *)
OwnName == sessionName' # sessionName /\ sessionName'.given = "title"
           => sessionName = Requests!Unnamed /\ sessionName'.of = branch

(* No request is under way.                                                  *)
LEMMA InitIdle == Requests!Init => IdleInv
  BY DEF Requests!Init, IdleInv, Counted, RecapsCurrent, TitlesCurrent, Requests!RecapIsCurrent

(* Every step keeps the requests current, and names no session that has a name. *)
LEMMA StepIdle == IdleInv /\ [Requests!Next]_(Requests!idleVars) => IdleInv' /\ (OwnName \/ UNCHANGED Requests!idleVars)
<1> SUFFICES ASSUME IdleInv, [Requests!Next]_(Requests!idleVars)
             PROVE  IdleInv' /\ (OwnName \/ UNCHANGED Requests!idleVars)
  OBVIOUS
<1> USE DEF IdleInv, Counted
<1>1. CASE Requests!TurnBegins
  BY <1>1 DEF Requests!TurnBegins, Requests!Bounded, Requests!Clear, Requests!Cancel, RecapsCurrent, TitlesCurrent, Requests!RecapIsCurrent, OwnName
<1>2. CASE Requests!Settles
  <2>1. titles' = titles \/ titles' = titles \cup {[at |-> titleGeneration, about |-> branch]}
    BY <1>2 DEF Requests!Settles, Requests!Generate
  <2>2. TitlesCurrent'
    BY <1>2, <2>1 DEF Requests!Settles, Requests!Generate, Requests!Cancel, TitlesCurrent
  <2>3. Counted' /\ RecapsCurrent' /\ Requests!RecapIsCurrent' /\ OwnName
    BY <1>2 DEF Requests!Settles, Requests!Clear, Requests!Schedule, Requests!Cancel, RecapsCurrent, Requests!RecapIsCurrent, OwnName
  <2> QED
    BY <2>2, <2>3
<1>3. CASE Requests!Types
  BY <1>3 DEF Requests!Types, Requests!Clear, Requests!Schedule, RecapsCurrent, TitlesCurrent, Requests!RecapIsCurrent, OwnName
<1>4. CASE Requests!Prompts
  BY <1>4 DEF Requests!Prompts, Requests!Clear, Requests!Cancel, RecapsCurrent, TitlesCurrent, Requests!RecapIsCurrent, OwnName
<1>5. CASE Requests!Tree
  <2>1. titles' = titles \/ titles' = titles \cup {[at |-> titleGeneration', about |-> branch']}
    BY <1>5 DEF Requests!Tree, Requests!Generate
  <2>2. titleGeneration' = titleGeneration + 1 /\ branch' \in Nat
        /\ UNCHANGED <<busy, recaps, sessionName>>
    BY <1>5 DEF Requests!Tree, Requests!Cancel
  <2>3. TitlesCurrent'
    BY <2>1, <2>2 DEF TitlesCurrent
  <2>4. Counted' /\ RecapsCurrent' /\ Requests!RecapIsCurrent' /\ OwnName
    BY <1>5, <2>2 DEF Requests!Tree, Requests!Schedule, RecapsCurrent, Requests!RecapIsCurrent, OwnName
  <2> QED
    BY <2>3, <2>4
<1>6. CASE Requests!Switch
  BY <1>6 DEF Requests!Switch, Requests!Clear, Requests!Cancel, RecapsCurrent, TitlesCurrent, Requests!RecapIsCurrent, OwnName,
              Requests!Unnamed, Requests!Manual
<1>7. CASE Requests!Named
  BY <1>7 DEF Requests!Named, Requests!Cancel, RecapsCurrent, TitlesCurrent, Requests!RecapIsCurrent, OwnName, Requests!Manual
<1>8. CASE Requests!TimerFires
  <2>1. recaps' = recaps
        \/ recaps' = recaps \cup {[at |-> recapGeneration, about |-> conversation]}
    BY <1>8 DEF Requests!TimerFires
  <2> QED
    BY <1>8, <2>1 DEF Requests!TimerFires, RecapsCurrent, TitlesCurrent, Requests!RecapIsCurrent, OwnName
<1>9. ASSUME NEW r \in recaps, Requests!RecapAnswered(r)
      PROVE  IdleInv' /\ OwnName
  BY <1>9 DEF Requests!RecapAnswered, Requests!Fresh, RecapsCurrent, TitlesCurrent, Requests!RecapIsCurrent, OwnName
<1>10. ASSUME NEW t \in titles, Requests!TitleAnswered(t)
       PROVE  IdleInv' /\ OwnName
  BY <1>10 DEF Requests!TitleAnswered, Requests!Wanted, Requests!Cancel, RecapsCurrent, TitlesCurrent, Requests!RecapIsCurrent, OwnName
<1>11. CASE UNCHANGED Requests!idleVars
  BY <1>11 DEF Requests!idleVars, RecapsCurrent, TitlesCurrent, Requests!RecapIsCurrent
<1> QED
  BY <1>1, <1>2, <1>3, <1>4, <1>5, <1>6, <1>7, <1>8, <1>9, <1>10, <1>11 DEF Requests!Next

(* The requests stay current.                                                *)
LEMMA IdleAlways == Extensions => []IdleInv
<1>1. ExtensionsInit => IdleInv
  BY InitIdle DEF ExtensionsInit
<1>2. IdleInv /\ [ExtensionsNext]_everything => IdleInv'
  BY StepIdle, OneAtATime
<1> QED
  BY <1>1, <1>2, PTL DEF Extensions

(* "Stale results are discarded" (README.md, 347 and 351): a recap on the    *)
(* screen is about the conversation as it stands, and a title is given to a  *)
(* session without a name, about the branch it names, however late the       *)
(* answers come and in whatever order.                                     *)
THEOREM LateAnswersDiscarded == Extensions => NoStaleResult
<1>1. IdleInv /\ [ExtensionsNext]_everything =>
        [/\ Requests!RecapIsCurrent'
         /\ sessionName' # sessionName /\ sessionName'.given = "title"
            => sessionName = Requests!Unnamed /\ sessionName'.of = branch]_(Requests!idleVars)
  BY StepIdle, OneAtATime DEF IdleInv, OwnName
<1> QED
  BY <1>1, IdleAlways, PTL DEF Extensions, NoStaleResult, Requests!NoStaleResult

------------------------------------------------------------------------------
(***************************************************************************)
(* The originals of compacted results, and the count of workers, for any     *)
(* number of calls, processes, files and faults.                           *)
(***************************************************************************)

Parameters ==
  /\ ProcOf \in [BashCalls -> PiProcs] /\ IsFiniteSet(BashCalls)
  /\ MaxWorkers \in Nat /\ MaxFaults \in Nat

(* The calls that have a file, which is theirs alone. *)
Owners == Headroom!At("saved") \cup Headroom!At("discarding") \cup Headroom!At("compacted")

Owned == Owners \subseteq files /\ files \subseteq left \cup Owners

Busy(p) == {c \in Headroom!At("compressing") : ProcOf[c] = p}

HeadroomInv == Parameters /\ Headroom!TypeOK /\ Owned /\ Headroom!WorkersCounted

(* The instance counts as this module does.                                  *)
LEMMA CountsWorkers ==
  \A S : Headroom!Cardinality(S) = Cardinality(S)
  BY Zenon DEF Headroom!Cardinality, Cardinality

(* Finitely many workers serve finitely many calls.                          *)
LEMMA BusyFinite ==
  ASSUME IsFiniteSet(BashCalls), NEW p
  PROVE  IsFiniteSet(Busy(p))
  BY FS_Subset DEF Busy, Headroom!At

(* No call is compressed yet.                                                *)
LEMMA InitHeadroom ==
  ASSUME Parameters, Headroom!Init
  PROVE  HeadroomInv
<1>1. \A s \in Headroom!Step : Headroom!At(s) = IF s = "none" THEN BashCalls ELSE {}
  BY DEF Headroom!Init, Headroom!At
<1>2. Headroom!TypeOK /\ Owned
  BY <1>1 DEF Headroom!Init, Parameters, Headroom!TypeOK, Headroom!Step, Owned, Owners, Headroom!At
<1>3. ASSUME NEW p \in PiProcs
      PROVE  Cardinality(Busy(p)) = 0
  <2>1. Busy(p) = {}
    BY DEF Busy, Headroom!Init, Headroom!At
  <2> QED
    BY <2>1, FS_EmptySet
<1> QED
  BY <1>2, <1>3, CountsWorkers DEF Headroom!Init, HeadroomInv, Headroom!WorkersCounted, Busy

(* A call that neither starts nor ends a worker leaves the count alone. *)
LEMMA SameCount ==
  ASSUME HeadroomInv, NEW c \in BashCalls, NEW to \in Headroom!Step, Headroom!Goes(c, to),
         compaction[c] # "compressing", to # "compressing", active' = active
  PROVE  Headroom!WorkersCounted'
<1>1. \A p \in PiProcs : Busy(p)' = Busy(p)
  BY DEF HeadroomInv, Headroom!TypeOK, Headroom!Goes, Busy, Headroom!At
<1> QED
  BY <1>1 DEF HeadroomInv, Headroom!WorkersCounted, Busy

(* Every step keeps the count of the workers.                                *)
LEMMA StepHeadroom == HeadroomInv /\ [Headroom!Next]_(Headroom!vars) => HeadroomInv'
<1> SUFFICES ASSUME HeadroomInv, [Headroom!Next]_(Headroom!vars) PROVE HeadroomInv'
  OBVIOUS
<1> USE DEF HeadroomInv, Parameters
<1>1. ASSUME NEW c \in BashCalls, Headroom!Compress(c) PROVE HeadroomInv'
  <2>1. CASE Headroom!Goes(c, "plain") /\ UNCHANGED active
    <3>1. Headroom!WorkersCounted'
      BY <1>1, <2>1, SameCount DEF Headroom!Compress, Headroom!Step
    <3> QED
      BY <1>1, <2>1, <3>1 DEF Headroom!Compress, Headroom!Goes, Headroom!TypeOK, Headroom!Step, Owned, Owners, Headroom!At
  <2>2. CASE Headroom!Goes(c, "compressing") /\ active[ProcOf[c]] < MaxWorkers
             /\ active' = [active EXCEPT ![ProcOf[c]] = @ + 1]
    <3>1. Busy(ProcOf[c])' = Busy(ProcOf[c]) \cup {c} /\ c \notin Busy(ProcOf[c])
          /\ \A p \in PiProcs : p # ProcOf[c] => Busy(p)' = Busy(p)
      BY <1>1, <2>2 DEF Headroom!Compress, Headroom!Goes, Headroom!TypeOK, Busy, Headroom!At
    <3>2. Cardinality(Busy(ProcOf[c]))' = Cardinality(Busy(ProcOf[c])) + 1
      BY <3>1, BusyFinite, FS_AddElement
    <3>3. Headroom!WorkersCounted'
      BY <2>2, <3>1, <3>2, CountsWorkers DEF Headroom!WorkersCounted, Busy, Headroom!TypeOK
    <3> QED
      BY <1>1, <2>2, <3>3 DEF Headroom!Compress, Headroom!Goes, Headroom!TypeOK, Headroom!Step, Owned, Owners, Headroom!At
  <2> QED
    BY <1>1, <2>1, <2>2 DEF Headroom!Compress, Headroom!TypeOK
<1>2. ASSUME NEW c \in BashCalls, Headroom!Compressed(c) PROVE HeadroomInv'
  <2>1. PICK to \in {"saving", "plain"} : Headroom!Goes(c, to)
    BY <1>2 DEF Headroom!Compressed
  <2>2. compaction[c] = "compressing" /\ active' = [active EXCEPT ![ProcOf[c]] = @ - 1]
        /\ UNCHANGED <<aborted, files, left, faults>>
    BY <1>2 DEF Headroom!Compressed
  <2>3. Busy(ProcOf[c])' = Busy(ProcOf[c]) \ {c} /\ c \in Busy(ProcOf[c])
        /\ \A p \in PiProcs : p # ProcOf[c] => Busy(p)' = Busy(p)
    BY <2>1, <2>2 DEF Headroom!Goes, Headroom!TypeOK, Busy, Headroom!At
  <2>4. /\ Cardinality(Busy(ProcOf[c]))' = Cardinality(Busy(ProcOf[c])) - 1
        /\ Cardinality(Busy(ProcOf[c])) \in Nat /\ Cardinality(Busy(ProcOf[c]))' \in Nat
    <3>1. IsFiniteSet(Busy(ProcOf[c])) /\ IsFiniteSet(Busy(ProcOf[c]) \ {c})
      BY BusyFinite, FS_Subset
    <3>2. Cardinality(Busy(ProcOf[c]) \ {c}) = Cardinality(Busy(ProcOf[c])) - 1
      BY <2>3, <3>1, FS_RemoveElement
    <3> QED
      BY <2>3, <3>1, <3>2, FS_CardinalityType
  <2>5. Headroom!WorkersCounted'
    BY <2>2, <2>3, <2>4, CountsWorkers DEF Headroom!WorkersCounted, Busy, Headroom!TypeOK
  <2>6. active'[ProcOf[c]] \in 0 .. MaxWorkers
    <3>1. active[ProcOf[c]] = Cardinality(Busy(ProcOf[c]))
      BY CountsWorkers DEF Headroom!WorkersCounted, Busy
    <3> QED
      BY <2>2, <2>4, <3>1 DEF Headroom!TypeOK
  <2> QED
    BY <2>1, <2>2, <2>5, <2>6 DEF Headroom!Goes, Headroom!TypeOK, Headroom!Step, Owned, Owners, Headroom!At
<1>3. ASSUME NEW c \in BashCalls, Headroom!Abort(c) PROVE HeadroomInv'
  <2>1. \A p \in PiProcs : Busy(p)' = Busy(p)
    BY <1>3 DEF Headroom!Abort, Busy, Headroom!At
  <2> QED
    BY <1>3, <2>1 DEF Headroom!Abort, Headroom!TypeOK, Owned, Owners, Headroom!At, Headroom!WorkersCounted, Busy
<1>4. ASSUME NEW c \in BashCalls, Headroom!Count(c) PROVE HeadroomInv'
  <2>1. PICK to \in {"plain", "writing"} : Headroom!Goes(c, to)
    BY <1>4 DEF Headroom!Count
  <2>2. Headroom!WorkersCounted'
    BY <1>4, <2>1, SameCount DEF Headroom!Count, Headroom!Step
  <2> QED
    BY <1>4, <2>1, <2>2 DEF Headroom!Count, Headroom!Goes, Headroom!TypeOK, Headroom!Step, Owned, Owners, Headroom!At
<1>5. ASSUME NEW c \in BashCalls, Headroom!Write(c) PROVE HeadroomInv'
  <2>1. PICK to \in {"plain", "saved"} : /\ Headroom!Goes(c, to)
          /\ files' = IF to = "saved" THEN files \cup {c} ELSE files
    BY <1>5 DEF Headroom!Write, Headroom!Name
  <2>2. Headroom!WorkersCounted'
    BY <1>5, <2>1, SameCount DEF Headroom!Write, Headroom!Step
  <2> QED
    BY <1>5, <2>1, <2>2 DEF Headroom!Write, Headroom!Goes, Headroom!TypeOK, Headroom!Step, Owned, Owners, Headroom!At
<1>6. ASSUME NEW c \in BashCalls, Headroom!Publish(c) PROVE HeadroomInv'
  <2>1. PICK to \in {"compacted", "discarding"} : Headroom!Goes(c, to)
    BY <1>6 DEF Headroom!Publish
  <2>2. Headroom!WorkersCounted'
    BY <1>6, <2>1, SameCount DEF Headroom!Publish, Headroom!Step
  <2> QED
    BY <1>6, <2>1, <2>2 DEF Headroom!Publish, Headroom!Goes, Headroom!TypeOK, Headroom!Step, Owned, Owners, Headroom!At
<1>7. ASSUME NEW c \in BashCalls, Headroom!Discard(c) PROVE HeadroomInv'
  <2>1. Headroom!WorkersCounted'
    BY <1>7, SameCount DEF Headroom!Discard, Headroom!Step
  <2>2. Headroom!TypeOK'
    BY <1>7 DEF Headroom!Discard, Headroom!Goes, Headroom!TypeOK, Headroom!Step
  <2>3. Owners' = Owners \ {c}
    BY <1>7 DEF Headroom!Discard, Headroom!Goes, Headroom!TypeOK, Owners, Headroom!At
  <2>4. Owned'
    BY <1>7, <2>3 DEF Headroom!Discard, Headroom!Name, Owned
  <2> QED
    BY <2>1, <2>2, <2>4
<1>8. ASSUME NEW p \in PiProcs, Headroom!Crash(p) PROVE HeadroomInv'
  <2> DEFINE lost == {c \in Headroom!UnderWay : ProcOf[c] = p}
  <2>1. /\ compaction' = [c \in BashCalls |-> IF c \in lost THEN "plain" ELSE compaction[c]]
        /\ left' = left \cup (lost \cap (Headroom!At("saved") \cup Headroom!At("discarding")))
        /\ active' = [active EXCEPT ![p] = 0] /\ faults < MaxFaults /\ faults' = faults + 1
        /\ UNCHANGED <<aborted, files>>
    BY <1>8 DEF Headroom!Crash, Headroom!Name
  <2>2. Headroom!TypeOK'
    BY <2>1 DEF Headroom!TypeOK, Headroom!Step
  <2>3. Owners' = Owners \ (lost \cap (Headroom!At("saved") \cup Headroom!At("discarding")))
    BY <2>1 DEF Headroom!TypeOK, Owners, Headroom!At, Headroom!UnderWay
  <2>4. Owned'
    BY <2>1, <2>3 DEF Owned
  <2>5. Busy(p)' = {} /\ \A q \in PiProcs : q # p => Busy(q)' = Busy(q)
    BY <2>1 DEF Headroom!TypeOK, Busy, Headroom!At, Headroom!UnderWay
  <2>6. Headroom!WorkersCounted'
    BY ZenonT(40), <2>1, <2>5, FS_EmptySet, CountsWorkers DEF Headroom!WorkersCounted, Busy, Headroom!TypeOK
  <2> QED
    BY <2>2, <2>4, <2>6
<1>9. CASE UNCHANGED Headroom!vars
  BY <1>9 DEF Headroom!vars, Headroom!TypeOK, Owned, Owners, Headroom!At, Headroom!WorkersCounted
<1> QED
  BY <1>1, <1>2, <1>3, <1>4, <1>5, <1>6, <1>7, <1>8, <1>9 DEF Headroom!Next

(* The workers stay counted.                                                 *)
LEMMA HeadroomAlways == Extensions => []HeadroomInv
<1>1. ExtensionsInit => HeadroomInv
  BY InitHeadroom, ExtensionsAssumption DEF ExtensionsAssumption, ExtensionsInit, Parameters
<1>2. HeadroomInv /\ [ExtensionsNext]_everything => HeadroomInv'
  BY StepHeadroom, OneAtATime
<1> QED
  BY <1>1, <1>2, PTL DEF Extensions

(* A result that was compacted can be read in full as long as it may be      *)
(* asked for, and nothing is kept of a result that was not (originals.ts,    *)
(* 5 and 25; compact.ts:60).                                               *)
THEOREM OriginalsAreTrue == Extensions => []OriginalsTrue
<1>1. HeadroomInv => OriginalsTrue
  BY DEF HeadroomInv, Owned, Owners, OriginalsTrue, Headroom!OriginalsTrue, Headroom!OriginalsKept, Headroom!NoneRetained, Headroom!Name, Headroom!At
<1> QED
  BY <1>1, HeadroomAlways, PTL

(* No worker is counted that has ended, and none runs that is not counted,   *)
(* however the workers end: the limit neither starves nor overruns (bridge.ts, *)
(* 84-94).                                                                 *)
THEOREM WorkersAreCounted == Extensions => []Headroom!WorkersCounted
<1>1. HeadroomInv => Headroom!WorkersCounted
  BY DEF HeadroomInv
<1> QED
  BY <1>1, HeadroomAlways, PTL

------------------------------------------------------------------------------
(***************************************************************************)
(* The chain of promises shows one question at a time and leaves nobody     *)
(* waiting, for any number of questions.  The argument: the calls that      *)
(* joined the chain can be numbered in the order they joined, each waits    *)
(* for the one before it, and those with the lowest numbers are released.   *)
(***************************************************************************)

Joined == {q \in Questions : stage[q] \in {"waiting", "open"}}
          \cup (released \ {NoQuestion})

(* n calls joined the chain, m of them are released; place numbers them. *)
Chain(place, n, m) ==
  /\ n \in Nat /\ m \in 0 .. n
  /\ place \in [Questions \cup {NoQuestion} -> Nat]
  /\ place[NoQuestion] = 0 /\ place[tail] = n
  /\ tail = NoQuestion \/ tail \in Joined
  /\ \A q \in Joined : place[q] \in 1 .. n /\ place[q] = place[waitsFor[q]] + 1
  /\ \A q, r \in Joined : place[q] = place[r] => q = r
  /\ \A q \in Joined : waitsFor[q] = NoQuestion \/ waitsFor[q] \in Joined
  /\ \A i \in 1 .. n : \E q \in Joined : place[q] = i
  /\ \A q \in Joined : q \in released <=> place[q] <= m

Stages ==
  \A q \in Questions :
    /\ stage[q] \in {"waiting", "open"} => q \notin released
    /\ stage[q] = "none" => q \notin released
    /\ stage[q] = "open" => waitsFor[q] \in released

InOrder == \E place \in [Questions \cup {NoQuestion} -> Nat], n, m \in Nat : Chain(place, n, m)

PopupInv == NoQuestion \notin Questions /\ Popup!TypeOK /\ NoQuestion \in released /\ Stages /\ InOrder

(* No question was asked.                                                    *)
LEMMA InitPopup ==
  ASSUME NoQuestion \notin Questions, Popup!Init
  PROVE  PopupInv
<1>1. Popup!TypeOK /\ NoQuestion \in released /\ Stages
  BY DEF Popup!Init, Popup!TypeOK, Stages, Popup!Over
<1>2. Joined = {}
  BY DEF Joined, Popup!Init
<1>3. Chain([q \in Questions \cup {NoQuestion} |-> 0], 0, 0)
  BY <1>2 DEF Chain, Popup!Init
<1>4. [q \in Questions \cup {NoQuestion} |-> 0] \in [Questions \cup {NoQuestion} -> Nat]
  OBVIOUS
<1> QED
  BY <1>1, <1>3, <1>4 DEF PopupInv, InOrder

(* A call that joins gets the next number. *)
LEMMA JoinKeeps ==
  ASSUME PopupInv, NEW q \in Questions, stage[q] = "none", Popup!Goes(q, "waiting"), Popup!Join(q),
         released' = released
  PROVE  InOrder'
<1>1. PICK place \in [Questions \cup {NoQuestion} -> Nat], n \in Nat, m \in Nat :
        Chain(place, n, m)
  BY DEF PopupInv, InOrder
<1> DEFINE next == [place EXCEPT ![q] = n + 1]
<1>2. q \notin Joined /\ q # NoQuestion /\ q # tail
  BY <1>1 DEF PopupInv, Stages, Joined, Chain
<1>3. Joined' = Joined \cup {q}
  BY <1>2 DEF PopupInv, Popup!TypeOK, Popup!Goes, Joined
<1>4. waitsFor'[q] = tail /\ tail' = q /\ \A r \in Joined : waitsFor'[r] = waitsFor[r]
  BY <1>2 DEF Popup!Join, PopupInv, Popup!TypeOK, Joined
<1>5. next \in [Questions \cup {NoQuestion} -> Nat] /\ next[q] = n + 1
      /\ \A r \in Questions \cup {NoQuestion} : r # q => next[r] = place[r]
  BY <1>1
<1>6. Joined \subseteq Questions
  BY DEF PopupInv, Popup!TypeOK, Joined
<1>7. Chain(next, n + 1, m)'
  <2> HIDE DEF next
  <2>1. n + 1 \in Nat /\ m \in 0 .. n + 1 /\ next[NoQuestion] = 0 /\ next[tail'] = n + 1
    BY <1>1, <1>2, <1>4, <1>5 DEF Chain
  <2>2. \A r \in Joined : r # q /\ r \in Questions
    BY <1>2, <1>6
  <2>3. ASSUME NEW r \in Joined'
        PROVE  /\ next[r] \in 1 .. n + 1 /\ next[r] = next[waitsFor'[r]] + 1
               /\ waitsFor'[r] = NoQuestion \/ waitsFor'[r] \in Joined'
               /\ r \in released' <=> next[r] <= m
    <3>1. CASE r = q
      <4>1. tail = NoQuestion \/ tail \in Joined
        BY <1>1 DEF Chain
      <4>2. next[tail] = n
        BY <1>1, <1>2, <1>5, <2>2, <4>1 DEF Chain
      <4>3. q \notin released /\ ~(n + 1 <= m)
        BY <1>1 DEF PopupInv, Stages, Chain
      <4> QED
        BY <3>1, <4>1, <4>2, <4>3, <1>3, <1>4, <1>5
    <3>2. CASE r \in Joined
      <4>1. waitsFor[r] # q /\ waitsFor[r] \in Questions \cup {NoQuestion}
        BY <1>1, <1>2, <2>2, <3>2 DEF Chain
      <4> QED
        BY <1>1, <1>3, <1>4, <1>5, <2>2, <3>2, <4>1 DEF Chain
    <3> QED
      BY <1>3, <3>1, <3>2
  <2>4. ASSUME NEW r \in Joined', NEW s \in Joined', next[r] = next[s]
        PROVE  r = s
    BY <1>1, <1>3, <1>5, <2>2, <2>4 DEF Chain
  <2>5. ASSUME NEW i \in 1 .. n + 1
        PROVE  \E r \in Joined' : next[r] = i
    <3>1. CASE i = n + 1
      BY <1>3, <1>5, <3>1
    <3>2. CASE i \in 1 .. n
      <4>1. PICK r \in Joined : place[r] = i
        BY <1>1, <3>2 DEF Chain
      <4> QED
        BY <4>1, <1>3, <1>5, <2>2
    <3> QED
      BY <3>1, <3>2
  <2>6. tail' = NoQuestion \/ tail' \in Joined'
    BY <1>3, <1>4
  <2> QED
    BY <1>5, <2>1, <2>3, <2>4, <2>5, <2>6 DEF Chain
<1> QED
  BY <1>5, <1>7 DEF InOrder

(* The call that is released has the number after those of the released. *)
LEMMA ReleaseKeeps ==
  ASSUME PopupInv, NEW q \in Questions, stage[q] \in {"waiting", "open"},
         waitsFor[q] \in released, NEW to \in Popup!Over, Popup!End(q, to),
         waitsFor' = waitsFor, tail' = tail
  PROVE  InOrder'
<1>1. PICK place \in [Questions \cup {NoQuestion} -> Nat], n \in Nat, m \in Nat :
        Chain(place, n, m)
  BY DEF PopupInv, InOrder
<1>2. q \in Joined /\ q \notin released /\ q # NoQuestion
  BY DEF PopupInv, Stages, Joined
<1>3. released' = released \cup {q} /\ stage' = [stage EXCEPT ![q] = to]
  BY DEF Popup!End, Popup!Release, Popup!Goes
<1>4. Joined' = Joined
  BY <1>2, <1>3 DEF PopupInv, Popup!TypeOK, Joined, Popup!Over
<1>5. place[q] = m + 1
  <2>1. place[q] > m /\ place[q] = place[waitsFor[q]] + 1 /\ place[q] \in Nat
    BY <1>1, <1>2 DEF Chain
  <2>2. place[waitsFor[q]] <= m /\ place[waitsFor[q]] \in Nat
    <3>1. CASE waitsFor[q] = NoQuestion
      BY <1>1, <3>1 DEF Chain
    <3>2. CASE waitsFor[q] \in Joined
      BY <1>1, <3>2 DEF Chain
    <3> QED
      BY <1>1, <1>2, <3>1, <3>2 DEF Chain
  <2> QED
    BY <2>1, <2>2
<1>6. Chain(place, n, m + 1)'
  <2>1. m + 1 \in 0 .. n
    BY <1>1, <1>2, <1>5 DEF Chain
  <2>2. ASSUME NEW r \in Joined
        PROVE  r \in released' <=> place[r] <= m + 1
    <3>1. place[r] \in Nat /\ (r \in released <=> place[r] <= m)
          /\ (place[r] = place[q] => r = q)
      BY <1>1, <1>2 DEF Chain
    <3> QED
      BY <1>3, <1>5, <3>1
  <2> QED
    BY <1>1, <1>4, <2>1, <2>2 DEF Chain
<1> QED
  BY <1>6 DEF InOrder

(* Every step keeps the questions in one chain.                              *)
LEMMA StepPopup == PopupInv /\ [Popup!Next]_(Popup!vars) => PopupInv'
<1> SUFFICES ASSUME PopupInv, [Popup!Next]_(Popup!vars) PROVE PopupInv'
  OBVIOUS
<1>1. ASSUME NEW q \in Questions, Popup!Ask(q)
      PROVE  PopupInv'
  <2>1. CASE q \in dropped
    <3>1. stage' = [stage EXCEPT ![q] = "cancelled"] /\ stage[q] = "none"
          /\ UNCHANGED <<tail, waitsFor, released, dropped>>
      BY <1>1, <2>1 DEF Popup!Ask, Popup!Goes
    <3>2. Joined' = Joined
      BY <3>1 DEF PopupInv, Popup!TypeOK, Joined
    <3>3. InOrder'
      BY <3>1, <3>2 DEF PopupInv, InOrder, Chain
    <3> QED
      BY <3>1, <3>3 DEF PopupInv, Popup!TypeOK, Stages, Popup!Over
  <2>2. CASE q \notin dropped
    <3>1. /\ stage[q] = "none" /\ Popup!Goes(q, "waiting") /\ Popup!Join(q)
          /\ released' = released /\ dropped' = dropped
      BY <1>1, <2>2 DEF Popup!Ask
    <3>2. InOrder'
      BY <3>1, JoinKeeps
    <3> QED
      BY <3>1, <3>2 DEF PopupInv, Popup!TypeOK, Stages, Popup!Over, Popup!Goes, Popup!Join
  <2> QED
    BY <2>1, <2>2
<1>2. ASSUME NEW q \in Questions, NEW to \in Popup!Over, Popup!End(q, to), UNCHANGED <<tail, waitsFor, dropped>>,
             stage[q] \in {"waiting", "open"}, waitsFor[q] \in released
      PROVE  PopupInv'
  <2>1. InOrder'
    BY <1>2, ReleaseKeeps
  <2> QED
    BY <1>2, <2>1 DEF PopupInv, Popup!TypeOK, Stages, Popup!Over, Popup!End, Popup!Goes, Popup!Release
<1>3. ASSUME NEW q \in Questions, Popup!TakeTurn(q)
      PROVE  PopupInv'
  <2>1. CASE q \in dropped
    BY <1>2, <1>3, <2>1 DEF Popup!TakeTurn, Popup!MayTakeTurn, Popup!Over
  <2>2. CASE q \notin dropped
    <3>1. /\ stage' = [stage EXCEPT ![q] = "open"] /\ stage[q] = "waiting"
          /\ waitsFor[q] \in released /\ UNCHANGED <<tail, waitsFor, released, dropped>>
      BY <1>3, <2>2 DEF Popup!TakeTurn, Popup!MayTakeTurn, Popup!Goes
    <3>2. Joined' = Joined
      BY <3>1 DEF PopupInv, Popup!TypeOK, Joined
    <3>3. InOrder'
      BY <3>1, <3>2 DEF PopupInv, InOrder, Chain
    <3> QED
      BY <3>1, <3>3 DEF PopupInv, Popup!TypeOK, Stages, Popup!Over
  <2> QED
    BY <2>1, <2>2
<1>4. ASSUME NEW q \in Questions, Popup!Close(q)
      PROVE  PopupInv'
  <2>1. waitsFor[q] \in released /\ stage[q] = "open"
    BY <1>4 DEF Popup!Close, PopupInv, Stages
  <2> QED
    BY <1>2, <1>4, <2>1 DEF Popup!Close
<1>5. ASSUME NEW q \in Questions, Popup!Drop(q)
      PROVE  PopupInv'
  <2>1. UNCHANGED <<stage, tail, waitsFor, released>> /\ dropped' = dropped \cup {q}
    BY <1>5 DEF Popup!Drop
  <2>2. Joined' = Joined
    BY <2>1 DEF Joined
  <2>3. InOrder'
    BY <2>1, <2>2 DEF PopupInv, InOrder, Chain
  <2> QED
    BY <2>1, <2>3 DEF PopupInv, Popup!TypeOK, Stages
<1>6. CASE UNCHANGED Popup!vars
  <2>1. UNCHANGED <<stage, tail, waitsFor, released, dropped>>
    BY <1>6 DEF Popup!vars
  <2>2. Joined' = Joined
    BY <2>1 DEF Joined
  <2>3. InOrder'
    BY ZenonT(40), <2>1, <2>2 DEF PopupInv, InOrder, Chain
  <2> QED
    BY <2>1, <2>3 DEF PopupInv, Popup!TypeOK, Stages
<1> QED
  BY <1>1, <1>3, <1>4, <1>5, <1>6 DEF Popup!Next

(* The questions stay in one chain.                                          *)
LEMMA PopupAlways == Extensions => []PopupInv
<1>1. ExtensionsInit => PopupInv
  BY InitPopup, ExtensionsAssumption DEF ExtensionsAssumption, ExtensionsInit
<1>2. PopupInv /\ [ExtensionsNext]_everything => PopupInv'
  BY StepPopup, OneAtATime
<1> QED
  BY <1>1, <1>2, PTL DEF Extensions

(* An open question is the one whose number comes after the released. *)
LEMMA OpenIsNext ==
  ASSUME PopupInv, NEW place \in [Questions \cup {NoQuestion} -> Nat], NEW n \in Nat,
         NEW m \in Nat, Chain(place, n, m), NEW q \in Questions, stage[q] = "open"
  PROVE  q \in Joined /\ place[q] = m + 1
<1>1. q \in Joined /\ q \notin released /\ waitsFor[q] \in released
  BY DEF PopupInv, Stages, Joined
<1>2. place[q] > m /\ place[q] = place[waitsFor[q]] + 1 /\ place[q] \in Nat
  BY <1>1 DEF Chain
<1>3. place[waitsFor[q]] <= m /\ place[waitsFor[q]] \in Nat
  <2>1. CASE waitsFor[q] = NoQuestion
    BY <2>1 DEF Chain
  <2>2. CASE waitsFor[q] \in Joined
    BY <1>1, <2>2 DEF Chain
  <2> QED
    BY <1>1, <2>1, <2>2 DEF Chain
<1> QED
  BY <1>1, <1>2, <1>3

(* The instance counts as this module does.                                  *)
LEMMA CountsQuestions ==
  \A S : Popup!Cardinality(S) = Cardinality(S)
  BY Zenon DEF Popup!Cardinality, Cardinality

(* Of a chain only the head may be open.                                     *)
LEMMA OneIsOpen == PopupInv => Popup!OnePopup
<1> SUFFICES ASSUME PopupInv PROVE Popup!OnePopup
  OBVIOUS
<1> DEFINE open == {q \in Questions : stage[q] = "open"}
<1>1. PICK place \in [Questions \cup {NoQuestion} -> Nat], n \in Nat, m \in Nat :
        Chain(place, n, m)
  BY DEF PopupInv, InOrder
<1>2. ASSUME NEW q \in open, NEW r \in open
      PROVE  q = r
  <2>1. q \in Joined /\ r \in Joined /\ place[q] = place[r]
    BY <1>1, OpenIsNext
  <2> QED
    BY <1>1, <2>1 DEF Chain
<1>3. CASE open = {}
  BY <1>3, FS_EmptySet, CountsQuestions DEF Popup!OnePopup
<1>4. CASE open # {}
  <2>1. PICK q \in open : TRUE
    BY <1>4
  <2>2. open = {q}
    BY <1>2, <2>1
  <2> HIDE DEF open
  <2>3. Cardinality(open) = 1
    BY <2>2, FS_Singleton
  <2> USE DEF open
  <2> QED
    BY <2>3, CountsQuestions DEF Popup!OnePopup
<1> QED
  BY <1>3, <1>4

(* The head of a chain is open or may open.                                  *)
LEMMA NextIsReady == PopupInv => Popup!NobodyStuck
<1> SUFFICES ASSUME PopupInv, NEW w \in Questions, stage[w] = "waiting"
             PROVE  \E q \in Questions : stage[q] = "open" \/ Popup!MayTakeTurn(q)
  BY DEF Popup!NobodyStuck
<1>1. PICK place \in [Questions \cup {NoQuestion} -> Nat], n \in Nat, m \in Nat :
        Chain(place, n, m)
  BY DEF PopupInv, InOrder
<1>2. w \in Joined /\ w \notin released
  BY DEF PopupInv, Stages, Joined
<1>3. m + 1 \in 1 .. n
  BY <1>1, <1>2 DEF Chain
<1>4. PICK q \in Joined : place[q] = m + 1
  BY <1>1, <1>3 DEF Chain
<1>5. q \notin released /\ place[waitsFor[q]] = m
  <2>1. place[waitsFor[q]] \in Nat
    BY <1>1, <1>4 DEF Chain
  <2> QED
    BY <1>1, <1>4, <2>1 DEF Chain
<1>6. waitsFor[q] \in released
  BY <1>1, <1>4, <1>5 DEF Chain, PopupInv
<1>7. q \in Questions /\ stage[q] \in {"waiting", "open"}
  BY <1>4, <1>5 DEF Joined, PopupInv, Popup!TypeOK
<1> QED
  BY <1>6, <1>7 DEF Popup!MayTakeTurn

(* "Pi can host only one replacement UI at a time" (ui-lock.ts:8): however   *)
(* many questions there are and whichever of them throw or are aborted, one  *)
(* at most is shown, and while one waits, one is shown or can have its turn. *)
THEOREM Serial == Extensions => []PopupsSerial
<1>1. PopupInv => PopupsSerial
  BY OneIsOpen, NextIsReady DEF PopupsSerial, Popup!PopupsSerial
<1> QED
  BY <1>1, PopupAlways, PTL

------------------------------------------------------------------------------
(***************************************************************************)
(* The login that a branch names is the one that is spent, for any accounts, *)
(* sessions and events.                                                    *)
(***************************************************************************)

Apart == {Unpinned, Pi, Selection!Failed} \cap Vaults = {} /\ Pi # Unpinned

(* What the branch names is selected, and stays so while another account is  *)
(* being activated.                                                        *)
SelectedIsPinned ==
  /\ activating \in Vaults \cup {Unpinned}
  /\ bound = IF activating = Unpinned THEN selectedId ELSE activating
  /\ selectedId # Unpinned => pin = selectedId
  /\ pin \in Vaults => selectedId = pin

(* Unless the user has picked a model, a session that goes on and is pinned  *)
(* to an account has the provider of the accounts.                         *)
ModelIsPinned ==
  ~chosen /\ ~selectionUnavailable /\ pin \in Vaults => model # "openai-codex"

(* After an unreadable default the session is blocked, and its branch tells. *)
UnreadIsPinned == unread => pin = Selection!Failed /\ selectionUnavailable

SelectionInv ==
  /\ Apart /\ Selection!TypeOK /\ SelectedIsPinned /\ ModelIsPinned /\ UnreadIsPinned
  /\ Selection!SpentAsPinned /\ Selection!UnreadBlocks

(* Nothing is pinned or spent.                                              *)
LEMMA InitSelection ==
  ASSUME Apart, Selection!Init
  PROVE  SelectionInv
  BY DEF Apart, Selection!Init, SelectionInv, Selection!TypeOK, SelectedIsPinned, ModelIsPinned,
         UnreadIsPinned, Selection!SpentAsPinned, Selection!UnreadBlocks, Selection!Nothing,
         Selection!Codex

(* Every step keeps the model, the provider and the branch together.        *)
LEMMA StepSelection ==
  SelectionInv /\ [Selection!Next]_(Selection!accountVars) => SelectionInv'
<1> SUFFICES ASSUME SelectionInv, [Selection!Next]_(Selection!accountVars)
             PROVE  SelectionInv'
  OBVIOUS
<1> USE DEF SelectionInv, Apart, Selection!TypeOK, SelectedIsPinned, ModelIsPinned, UnreadIsPinned,
            Selection!SpentAsPinned, Selection!UnreadBlocks, Selection!Codex,
            Selection!selection
<1>1. ASSUME NEW fresh \in BOOLEAN, NEW readable \in BOOLEAN, NEW works \in BOOLEAN,
             Selection!Start(fresh, readable, works)
      PROVE  SelectionInv'
  BY <1>1 DEF Selection!Start, Selection!Pinned, Selection!Blocked, Selection!Nothing,
              Selection!Failed
<1>2. ASSUME NEW a \in Vaults, Selection!Activate(a)
      PROVE  SelectionInv'
  BY <1>2 DEF Selection!Activate
<1>3. ASSUME NEW a \in Vaults, NEW here \in BOOLEAN, Selection!RemoveAccount(a, here)
      PROVE  SelectionInv'
  BY <1>3 DEF Selection!RemoveAccount
<1>4. CASE Selection!Activated
  BY <1>4 DEF Selection!Activated
<1>5. CASE Selection!ActivationFails
  BY <1>5 DEF Selection!ActivationFails, Selection!RolledBack
<1>6. CASE Selection!usePiLogin
  BY <1>6 DEF Selection!usePiLogin
<1>7. CASE Selection!Prompt
  BY <1>7 DEF Selection!Prompt, Selection!Spend, Selection!Login
<1>8. ASSUME NEW a \in Vaults \cup {Unpinned}, Selection!SetDefault(a)
      PROVE  SelectionInv'
  BY <1>8 DEF Selection!SetDefault
<1>9. ASSUME NEW m \in Selection!Codex \cup {"other"}, Selection!SelectModel(m)
      PROVE  SelectionInv'
  BY <1>9 DEF Selection!SelectModel
<1>10. ASSUME NEW m \in Selection!Codex \cup {"other"}, Selection!Launch(m)
       PROVE  SelectionInv'
  BY <1>10 DEF Selection!Launch, Selection!Spend
<1>11. CASE UNCHANGED Selection!accountVars
  BY <1>11 DEF Selection!accountVars
<1> QED
  BY <1>1, <1>2, <1>3, <1>4, <1>5, <1>6, <1>7, <1>8, <1>9, <1>10, <1>11 DEF Selection!Next

(* The login stays pinned.                                                  *)
LEMMA SelectionAlways == Extensions => []SelectionInv
<1>1. ExtensionsInit => SelectionInv
  BY InitSelection, ExtensionsAssumption DEF ExtensionsInit, Apart, Selection!Failed
<1>2. SelectionInv /\ [ExtensionsNext]_everything => SelectionInv'
  BY StepSelection, OneAtATime
<1> QED
  BY <1>1, <1>2, PTL DEF Extensions

(* "fail instead of falling back" (README.md, 215): through failed defaults,  *)
(* failed restores, roll-backs, removals by other sessions and reloads, a     *)
(* prompt spends the login that its branch names, or is not sent.           *)
THEOREM NeverAnotherLogin == Extensions => []NoFallback
<1>1. SelectionInv => NoFallback
  BY DEF SelectionInv, Apart, SelectedIsPinned, NoFallback, Selection!NoFallback,
         Selection!BoundAsSelected
<1> QED
  BY <1>1, SelectionAlways, PTL

------------------------------------------------------------------------------
(* A panel that nobody saves for, of a session that is not behind, is of the *)
(* file, and so is the copy of the session.                                *)
PanelIsFile ==
  \A s \in SkillSessions \ behind : shown[s] # NoPanel /\ ~Skills!Busy(s) =>
    shown[s] = stored /\ config[s] = stored

(* A session saves one change at a time.  A save of a panel changes one      *)
(* setting of what the panel shows and, if the session is not behind, of the *)
(* file.                                                                   *)
SavesApart ==
  \A c \in saving :
    /\ c.by \in SkillSessions /\ c.scope \in Skills!Scopes
    /\ c.snapshot = config[c.by] /\ c.previous \in [Skills!Scopes -> Skills!Values]
    /\ \A d \in saving : d.by = c.by => d = c
    /\ c.panel \in BOOLEAN /\ (c.panel <=> shown[c.by] # NoPanel)
    /\ c.panel /\ c.by \notin behind =>
         /\ c.previous = stored /\ shown[c.by] = stored
         /\ c.snapshot = [stored EXCEPT ![c.scope] = c.snapshot[c.scope]]

SkillsInv == Skills!TypeOK /\ shown \in [SkillSessions -> [Skills!Scopes -> Skills!Values] \cup {NoPanel}]
             /\ PanelIsFile /\ SavesApart

(* No panel is open.                                                        *)
LEMMA InitSkills == Skills!Init => SkillsInv
  BY DEF Skills!Init, SkillsInv, Skills!TypeOK, PanelIsFile, SavesApart

(* A session begins to save a change of what it has, or of the file.         *)
LEMMA SaveKeeps ==
  ASSUME SkillsInv, NEW s \in SkillSessions, NEW scope \in Skills!Scopes, NEW value \in Skills!Values,
         NEW before \in [Skills!Scopes -> Skills!Values], Skills!Save(s, scope, value, before),
         ~Skills!Busy(s), UNCHANGED <<stored, shown>>, behind \ {s} \subseteq behind', behind' \subseteq behind,
         shown[s] # NoPanel => before = config[s] /\ behind' = behind
  PROVE  SkillsInv'
<1> DEFINE new == [before EXCEPT ![scope] = value]
           c == [by |-> s, scope |-> scope, snapshot |-> new,
                 previous |-> before, panel |-> shown[s] # NoPanel]
<1>1. new \in [Skills!Scopes -> Skills!Values] /\ new[scope] = value
  BY DEF Skills!Scopes
<1>2. /\ config' = [config EXCEPT ![s] = new] /\ config'[s] = new
      /\ saving' = saving \cup {c}
  BY DEF Skills!Save, Skills!Set, SkillsInv, Skills!TypeOK
<1>3. /\ c.by = s /\ c.scope = scope /\ c.snapshot = new /\ c.previous = before
      /\ c.panel = (shown[s] # NoPanel)
  OBVIOUS
<1> HIDE DEF c
<1>4. \A d \in saving : d.by # s /\ config'[d.by] = config[d.by]
  BY <1>2 DEF Skills!Busy, SkillsInv, SavesApart, Skills!TypeOK
<1>5. Skills!TypeOK' /\ shown' \in [SkillSessions -> [Skills!Scopes -> Skills!Values] \cup {NoPanel}]
  BY <1>1, <1>2 DEF SkillsInv, Skills!TypeOK
<1>6. PanelIsFile'
  <2> SUFFICES ASSUME NEW t \in SkillSessions \ behind', shown'[t] # NoPanel, ~Skills!Busy(t)'
               PROVE  shown'[t] = stored' /\ config'[t] = stored'
    BY DEF PanelIsFile
  <2>1. t # s /\ t \notin behind
    BY <1>2, <1>3 DEF Skills!Busy
  <2>2. ~Skills!Busy(t) /\ config'[t] = config[t]
    BY <1>2, <2>1 DEF Skills!Busy, SkillsInv, Skills!TypeOK
  <2> QED
    BY <2>1, <2>2 DEF SkillsInv, PanelIsFile
<1>7. SavesApart'
  <2>1. ASSUME NEW d \in saving
        PROVE  /\ d.by \in SkillSessions /\ d.scope \in Skills!Scopes
               /\ d.snapshot = config'[d.by] /\ d.previous \in [Skills!Scopes -> Skills!Values]
               /\ \A e \in saving' : e.by = d.by => e = d
               /\ d.panel \in BOOLEAN /\ (d.panel <=> shown'[d.by] # NoPanel)
               /\ d.panel /\ d.by \notin behind' =>
                    /\ d.previous = stored' /\ shown'[d.by] = stored'
                    /\ d.snapshot = [stored' EXCEPT ![d.scope] = d.snapshot[d.scope]]
    <3>1. d.by # s /\ (d.by \notin behind' => d.by \notin behind)
      BY <1>4
    <3> QED
      BY ZenonT(40), <1>2, <1>3, <1>4, <3>1 DEF SkillsInv, SavesApart
  <2>2. c.panel /\ s \notin behind' => before = stored /\ shown[s] = stored
    BY <1>3 DEF SkillsInv, PanelIsFile
  <2>3. \A e \in saving' : e.by = s => e = c
    BY <1>2, <1>4
  <2>4. c.panel /\ s \notin behind' =>
          /\ c.previous = stored' /\ shown'[s] = stored'
          /\ c.snapshot = [stored' EXCEPT ![c.scope] = c.snapshot[c.scope]]
    <3>1. stored' = stored /\ shown' = shown /\ (c.panel => behind' = behind)
      BY <1>3
    <3>2. [before EXCEPT ![scope] = value] = [before EXCEPT ![scope] = new[scope]]
      BY <1>1
    <3> QED
      BY <1>3, <2>2, <3>1, <3>2
  <2>5. /\ c.by \in SkillSessions /\ c.scope \in Skills!Scopes
        /\ c.snapshot = config'[c.by] /\ c.previous \in [Skills!Scopes -> Skills!Values]
        /\ c.panel \in BOOLEAN /\ (c.panel <=> shown'[c.by] # NoPanel)
    BY <1>2, <1>3
  <2> QED
    BY <1>2, <1>3, <2>1, <2>3, <2>4, <2>5 DEF SavesApart
<1> QED
  BY <1>5, <1>6, <1>7 DEF SkillsInv

(* Every step keeps panels, copies and saves together.                     *)
LEMMA StepSkills == SkillsInv /\ [Skills!Next]_(Skills!skillVars) => SkillsInv'
<1> SUFFICES ASSUME SkillsInv, [Skills!Next]_(Skills!skillVars)
             PROVE  SkillsInv'
  OBVIOUS
<1>1. ASSUME NEW s \in SkillSessions, Skills!Open(s)
      PROVE  SkillsInv'
  <2>1. /\ stored' = stored /\ saving' = saving /\ behind' = behind \ {s}
        /\ config' = [config EXCEPT ![s] = stored] /\ shown' = [shown EXCEPT ![s] = stored]
        /\ ~Skills!Busy(s)
    BY <1>1 DEF Skills!Open
  <2>2. \A d \in saving : d.by # s
    BY <2>1 DEF Skills!Busy
  <2>3. \A t \in SkillSessions : Skills!Busy(t)' = Skills!Busy(t)
    BY <2>1 DEF Skills!Busy
  <2> QED
    BY <2>1, <2>2, <2>3 DEF SkillsInv, Skills!TypeOK, PanelIsFile, SavesApart
<1>2. ASSUME NEW s \in SkillSessions, Skills!Close(s)
      PROVE  SkillsInv'
  <2>1. /\ UNCHANGED <<stored, config, saving, behind>>
        /\ shown' = [shown EXCEPT ![s] = NoPanel] /\ ~Skills!Busy(s)
    BY <1>2 DEF Skills!Close
  <2>2. \A d \in saving : d.by # s
    BY <2>1 DEF Skills!Busy
  <2>3. \A t \in SkillSessions : Skills!Busy(t)' = Skills!Busy(t)
    BY <2>1 DEF Skills!Busy
  <2> QED
    BY <2>1, <2>2, <2>3 DEF SkillsInv, Skills!TypeOK, PanelIsFile, SavesApart
<1>3. ASSUME NEW s \in SkillSessions, NEW scope \in Skills!Scopes, NEW value \in Skills!Values,
             Skills!Change(s, scope, value)
      PROVE  SkillsInv'
  BY <1>3, SaveKeeps DEF Skills!Change, SkillsInv, Skills!TypeOK
<1>4. ASSUME NEW s \in SkillSessions, NEW scope \in Skills!Scopes, NEW value \in Skills!Values,
             Skills!Command(s, scope, value)
      PROVE  SkillsInv'
  BY <1>4, SaveKeeps DEF Skills!Command, SkillsInv, Skills!TypeOK
<1>5. ASSUME NEW c \in saving, Skills!Saved(c)
      PROVE  SkillsInv'
  <2>1. /\ stored' = c.snapshot /\ saving' = saving \ {c} /\ config' = config
        /\ behind' = behind \cup (SkillSessions \ {c.by})
        /\ c.panel => shown' = [shown EXCEPT ![c.by][c.scope] = c.snapshot[c.scope]]
        /\ ~c.panel => shown' = shown
    BY <1>5 DEF Skills!Saved
  <2>2. /\ c.by \in SkillSessions /\ c.scope \in Skills!Scopes /\ c.snapshot = config[c.by]
        /\ \A d \in saving : d # c => d.by # c.by
        /\ ~c.panel => shown[c.by] = NoPanel
        /\ c.panel /\ c.by \notin behind =>
             /\ shown[c.by] = stored
             /\ c.snapshot = [stored EXCEPT ![c.scope] = c.snapshot[c.scope]]
    BY DEF SkillsInv, SavesApart
  <2>3. PanelIsFile'
    BY <2>1, <2>2 DEF SkillsInv, Skills!TypeOK, PanelIsFile
  <2>4. \A t \in SkillSessions : t # c.by => shown'[t] = shown[t]
    BY <2>1, <2>2 DEF SkillsInv
  <2>5. SavesApart'
    BY ZenonT(40), <2>1, <2>2, <2>4 DEF SkillsInv, SavesApart
  <2>6. c.snapshot \in [Skills!Scopes -> Skills!Values]
    BY <2>2 DEF SkillsInv, Skills!TypeOK
  <2>7. shown' \in [SkillSessions -> [Skills!Scopes -> Skills!Values] \cup {NoPanel}]
    <3>1. CASE c.panel
      <4>1. shown[c.by] \in [Skills!Scopes -> Skills!Values] \cup {NoPanel}
        BY <2>2 DEF SkillsInv
      <4>2. shown[c.by] \in [Skills!Scopes -> Skills!Values]
            => [shown[c.by] EXCEPT ![c.scope] = c.snapshot[c.scope]]
               \in [Skills!Scopes -> Skills!Values]
        BY <2>2, <2>6
      <4> QED
        BY SMTT(20), <2>1, <2>2, <3>1, <4>1, <4>2 DEF SkillsInv, SavesApart
    <3>2. CASE ~c.panel
      BY <2>1, <3>2 DEF SkillsInv
    <3> QED
      BY <3>1, <3>2
  <2>8. Skills!TypeOK'
    BY <2>1, <2>2, <2>6, <2>7 DEF SkillsInv, Skills!TypeOK
  <2> QED
    BY <2>3, <2>5, <2>7, <2>8 DEF SkillsInv
<1>6. ASSUME NEW c \in saving, Skills!SaveFails(c)
      PROVE  SkillsInv'
  <2> DEFINE kept == IF c.panel THEN c.previous ELSE config[c.by]
  <2>1. /\ config' = [config EXCEPT ![c.by] = kept]
        /\ saving' = saving \ {c} /\ UNCHANGED <<stored, shown, behind>>
    BY <1>6 DEF Skills!SaveFails, Skills!OnFailure
  <2>2. /\ c.by \in SkillSessions /\ kept \in [Skills!Scopes -> Skills!Values]
        /\ \A d \in saving : d # c => d.by # c.by
        /\ ~c.panel => shown[c.by] = NoPanel
        /\ c.panel /\ c.by \notin behind => kept = stored /\ shown[c.by] = stored
    BY DEF SkillsInv, SavesApart, Skills!TypeOK
  <2>3. \A t \in SkillSessions : t # c.by => Skills!Busy(t)' = Skills!Busy(t)
    BY <2>1 DEF Skills!Busy
  <2> HIDE DEF kept
  <2>4. PanelIsFile'
    BY <2>1, <2>2, <2>3 DEF SkillsInv, Skills!TypeOK, PanelIsFile
  <2>5. SavesApart'
    BY <2>1, <2>2 DEF SkillsInv, Skills!TypeOK, SavesApart
  <2> QED
    BY <2>1, <2>2, <2>4, <2>5 DEF SkillsInv, Skills!TypeOK
<1>7. CASE UNCHANGED Skills!skillVars
  BY <1>7 DEF Skills!skillVars, SkillsInv, Skills!TypeOK, PanelIsFile, SavesApart, Skills!Busy
<1> QED
  BY <1>1, <1>2, <1>3, <1>4, <1>5, <1>6, <1>7 DEF Skills!Next

(* Panels stay true.                                                        *)
LEMMA SkillsAlways == Extensions => []SkillsInv
<1>1. ExtensionsInit => SkillsInv
  BY InitSkills DEF ExtensionsInit
<1>2. SkillsInv /\ [ExtensionsNext]_everything => SkillsInv'
  BY StepSkills, OneAtATime
<1> QED
  BY <1>1, <1>2, PTL DEF Extensions

(* "a failed write retains the previous setting" (README.md, 335): for any    *)
(* number of sessions, what a panel shows is what the file says and what its *)
(* session acts on, unless another session has saved since.                 *)
THEOREM PanelsAreTrue == Extensions => []ShownIsStored
<1>1. SkillsInv => ShownIsStored
  BY DEF SkillsInv, PanelIsFile, ShownIsStored, Skills!ShownIsStored
<1> QED
  BY <1>1, SkillsAlways, PTL

------------------------------------------------------------------------------
(***************************************************************************)
(* A translation server is never left over, and a prompt is sent where it    *)
(* was typed or can be recovered, for any prompts, servers and turns.       *)
(***************************************************************************)

Draft == [stage : {"typed", "starting", "asking", "sent", "sentRaw"}, generation : Nat,
          session : Nat, server : Nat, recovered : BOOLEAN]

ServerNumbers ==
  /\ spawned \in Nat /\ server \in 0 .. spawned /\ servers \cup doomed \subseteq 1 .. spawned
  /\ generation \in Nat /\ sessionGeneration \in Nat
  /\ draft \in [Drafts -> Draft]
  /\ enabled \in BOOLEAN /\ toggle \in BOOLEAN /\ (toggle <=> enabled)
  /\ starting \in {"no", "port", "loading", "health"} /\ over \in BOOLEAN

(* Only the server that is used was not told to stop, and none before it is  *)
(* spawned, or once the launch is given up.                                *)
OnlyCurrent ==
  /\ servers \ doomed \subseteq {server}
  /\ over \/ starting = "port" => servers \subseteq doomed

(* A launch that was not given up is wanted, and so is a server that was     *)
(* launched.                                                               *)
Wanted ==
  /\ starting # "no" /\ ~over => enabled \/ generation \in onCalls
  /\ starting = "no" /\ ~enabled => servers \subseteq doomed

ServersInv == ServerNumbers /\ OnlyCurrent /\ Wanted

(* A prompt that waits was submitted in a generation that was on, and of the *)
(* present session if it is the present generation.                        *)
WaitsWhereTyped ==
  \A d \in Translation!Waiting :
    /\ draft[d].generation <= generation
    /\ draft[d].generation = generation =>
         enabled /\ toggle /\ draft[d].session = sessionGeneration

(* Without two prompts at once, a prompt that waits is the only one; if it    *)
(* is a recovered one, none has failed since.                              *)
OneWaits ==
  ~overlapped =>
    \A d \in Translation!Waiting :
      /\ \A e \in Translation!Waiting : e = d
      /\ draft[d].recovered => failed = 0

DraftsInv == WaitsWhereTyped /\ OneWaits /\ Translation!FailedIsKept

TranslationInv == ServersInv /\ DraftsInv

(* No server runs and no prompt waits.                                      *)
LEMMA InitTranslation == Translation!Init => TranslationInv
<1> SUFFICES ASSUME Translation!Init PROVE TranslationInv
  OBVIOUS
<1>1. draft \in [Drafts -> Draft] /\ \A d \in Drafts : draft[d].stage = "typed"
  BY DEF Translation!Init, Draft
<1>2. ServerNumbers
  <2>1. /\ spawned = 0 /\ server = 0 /\ servers \cup doomed = {} /\ generation = 0
        /\ sessionGeneration = 0 /\ enabled = FALSE /\ toggle = FALSE /\ starting = "no"
        /\ over = FALSE
    BY DEF Translation!Init
  <2>2. enabled \in BOOLEAN /\ toggle \in BOOLEAN /\ over \in BOOLEAN /\ (toggle <=> enabled)
    BY Zenon, <2>1
  <2>3. spawned \in Nat /\ server \in 0 .. spawned /\ servers \cup doomed \subseteq 1 .. spawned
        /\ generation \in Nat /\ sessionGeneration \in Nat
    BY <2>1
  <2> QED
    BY <1>1, <2>1, <2>2, <2>3 DEF ServerNumbers
<1>3. OnlyCurrent /\ Wanted
  BY DEF Translation!Init, OnlyCurrent, Wanted
<1>4. Translation!Waiting = {}
  BY <1>1 DEF Translation!Waiting
<1>5. DraftsInv
  BY <1>4 DEF Translation!Init, DraftsInv, WaitsWhereTyped, OneWaits, Translation!FailedIsKept
<1> QED
  BY <1>2, <1>3, <1>5 DEF TranslationInv, ServersInv

(* Who is stopped was told so, and nobody waits for a launch that is given up. *)
LEMMA StopKeeps ==
  ASSUME ServersInv, Translation!Stop, draft' \in [Drafts -> Draft],
         generation' \in Nat, sessionGeneration' \in Nat, enabled' \in BOOLEAN, toggle' \in BOOLEAN,
         toggle' <=> enabled'
  PROVE  ServersInv'
<1>1. /\ over' = TRUE /\ server' = 0 /\ doomed' = doomed \cup ({server} \ {0})
      /\ UNCHANGED <<starting, servers, spawned>>
  BY DEF Translation!Stop
<1>2. servers' \subseteq doomed'
  BY <1>1 DEF ServersInv, ServerNumbers, OnlyCurrent
<1>3. doomed' \subseteq 1 .. spawned
  BY <1>1 DEF ServersInv, ServerNumbers
<1>4. ServerNumbers'
  BY <1>1, <1>3 DEF ServersInv, ServerNumbers
<1> QED
  BY <1>1, <1>2, <1>4 DEF ServersInv, OnlyCurrent, Wanted

(* A launch begins only when there is no server, and somebody wants it.      *)
LEMMA BeginKeeps ==
  ASSUME ServersInv, Translation!Begin, draft' \in [Drafts -> Draft],
         generation' \in Nat, sessionGeneration' \in Nat, enabled' \in BOOLEAN, toggle' \in BOOLEAN,
         toggle' <=> enabled',
         enabled' \/ (~Translation!Loaded /\ generation' \in onCalls'),
         enabled => enabled'
  PROVE  ServersInv'
<1>1. CASE starting # "no" \/ Translation!Loaded
  <2>1. UNCHANGED <<starting, over, server, servers, doomed, spawned>>
    BY <1>1 DEF Translation!Begin, Translation!backend
  <2>2. ServerNumbers'
    BY <2>1 DEF ServersInv, ServerNumbers
  <2> QED
    BY <1>1, <2>1, <2>2 DEF ServersInv, OnlyCurrent, Wanted, Translation!Loaded
<1>2. CASE ~(starting # "no" \/ Translation!Loaded)
  <2>1. /\ starting' = "port" /\ over' = FALSE
        /\ UNCHANGED <<server, servers, doomed, spawned>>
    BY <1>2 DEF Translation!Begin
  <2>2. ServerNumbers'
    BY <2>1 DEF ServersInv, ServerNumbers
  <2>3. servers \subseteq doomed
    BY <1>2 DEF Translation!Loaded, ServersInv, ServerNumbers, OnlyCurrent
  <2> QED
    BY <1>2, <2>1, <2>2, <2>3 DEF ServersInv, OnlyCurrent, Wanted
<1> QED
  BY <1>1, <1>2

(* What the prompts need of a step that begins no generation: those that     *)
(* wait were waiting.                                                      *)
LEMMA DraftsStay ==
  ASSUME TranslationInv, UNCHANGED <<generation, sessionGeneration, overlapped>>,
         enabled => enabled' /\ toggle',
         \A d \in Translation!Waiting' :
           /\ d \in Translation!Waiting
           /\ draft'[d].generation = draft[d].generation
           /\ draft'[d].session = draft[d].session
           /\ draft'[d].recovered = draft[d].recovered,
         failed' = failed \/ Translation!Waiting' = {} \/ overlapped \/ failed' = 0,
         Translation!FailedIsKept'
  PROVE  DraftsInv'
  BY DEF TranslationInv, DraftsInv, ServersInv, ServerNumbers, WaitsWhereTyped, OneWaits

(* A new generation: nothing that waits is of it.                            *)
LEMMA DraftsOutdated ==
  ASSUME TranslationInv, generation' = generation + 1, UNCHANGED <<overlapped, draft>>,
         failed' = failed \/ failed' = 0, Translation!FailedIsKept'
  PROVE  DraftsInv'
<1>1. Translation!Waiting' = Translation!Waiting
  BY DEF Translation!Waiting
<1> QED
  BY <1>1 DEF TranslationInv, DraftsInv, ServersInv, ServerNumbers, WaitsWhereTyped, OneWaits,
              Translation!Waiting, Draft

(* A prompt fails: it is typed again.                                        *)
LEMMA FailDoes ==
  ASSUME TranslationInv, NEW d \in Drafts, d \in Translation!Waiting, Translation!Fail(d),
         UNCHANGED <<generation, sessionGeneration, overlapped, enabled, toggle>>
  PROVE  draft' \in [Drafts -> Draft] /\ DraftsInv'
<1>1. /\ draft' \in [Drafts -> Draft]
      /\ draft'[d].stage = "typed"
      /\ \A e \in Drafts : e # d => draft'[e] = draft[e]
  BY DEF Translation!Fail, TranslationInv, ServersInv, ServerNumbers, Draft
<1>2. \A e \in Translation!Waiting' : e # d /\ e \in Translation!Waiting /\ draft'[e] = draft[e]
  BY <1>1 DEF Translation!Waiting
<1>3. Translation!Waiting' = {} \/ overlapped
  BY <1>2 DEF TranslationInv, DraftsInv, OneWaits
<1>4. Translation!FailedIsKept'
  BY DEF Translation!Fail, Translation!Kept, TranslationInv, DraftsInv, Translation!FailedIsKept
<1> QED
  BY <1>1, <1>2, <1>3, <1>4, DraftsStay DEF TranslationInv, ServersInv, ServerNumbers

(* Every step keeps servers wanted and prompts recoverable.                 *)
LEMMA StepTranslation ==
  TranslationInv /\ [Translation!Next]_(Translation!translateVars) => TranslationInv'
<1> SUFFICES ASSUME TranslationInv, [Translation!Next]_(Translation!translateVars)
             PROVE  TranslationInv'
  OBVIOUS
<1> USE DEF Translation!setting, Translation!inputs, Translation!backend
<1>1. CASE Translation!SpawnServer
  <2>1. ServersInv'
    BY <1>1 DEF Translation!SpawnServer, TranslationInv, ServersInv, ServerNumbers, OnlyCurrent, Wanted
  <2>2. DraftsInv'
    BY <1>1, DraftsStay DEF Translation!SpawnServer, TranslationInv, DraftsInv, ServersInv,
       ServerNumbers, Translation!FailedIsKept, Translation!Waiting
  <2> QED
    BY <2>1, <2>2 DEF TranslationInv
<1>2. CASE Translation!Listening
  <2>1. ServersInv'
    BY <1>2 DEF Translation!Listening, TranslationInv, ServersInv, ServerNumbers, OnlyCurrent, Wanted
  <2>2. DraftsInv'
    BY <1>2, DraftsStay DEF Translation!Listening, TranslationInv, DraftsInv, ServersInv,
       ServerNumbers, Translation!FailedIsKept, Translation!Waiting
  <2> QED
    BY <2>1, <2>2 DEF TranslationInv
<1>3. CASE Translation!Started
  <2>1. /\ enabled' = TRUE /\ toggle' = TRUE /\ starting' = "no" /\ over' = over /\ ~over
        /\ UNCHANGED <<generation, sessionGeneration, recovery, failed, overlapped, server,
                       servers, doomed, spawned>>
    BY <1>3 DEF Translation!Started, TranslationInv, ServersInv, ServerNumbers, Wanted
  <2>2. /\ draft' \in [Drafts -> Draft]
        /\ \A d \in Drafts :
             /\ draft'[d].generation = draft[d].generation
             /\ draft'[d].session = draft[d].session
             /\ draft'[d].recovered = draft[d].recovered
             /\ draft'[d].stage = IF draft[d].stage = "starting" THEN "asking" ELSE draft[d].stage
    <3>1. draft \in [Drafts -> Draft] /\ server \in Nat
      BY DEF TranslationInv, ServersInv, ServerNumbers
    <3>2. draft' = [d \in Drafts |->
             IF draft[d].stage = "starting"
             THEN [draft[d] EXCEPT !.stage = "asking", !.server = server]
             ELSE draft[d]]
      BY <1>3 DEF Translation!Started
    <3>3. \A r \in Draft : [r EXCEPT !.stage = "asking", !.server = server] \in Draft
      BY <3>1 DEF Draft
    <3>4. \A d \in Drafts : draft'[d] \in Draft
      BY <3>1, <3>2, <3>3
    <3>5. draft' \in [Drafts -> Draft]
      BY <3>2, <3>4
    <3> QED
      BY <3>1, <3>2, <3>5 DEF Draft
  <2>3. ServersInv'
    BY <2>1, <2>2 DEF TranslationInv, ServersInv, ServerNumbers, OnlyCurrent, Wanted
  <2>4. \A d \in Translation!Waiting' : d \in Translation!Waiting
    BY <2>2 DEF Translation!Waiting
  <2>5. Translation!FailedIsKept'
    BY <2>1 DEF TranslationInv, DraftsInv, Translation!FailedIsKept
  <2>6. Translation!Waiting' \subseteq Drafts
    BY DEF Translation!Waiting
  <2>7. DraftsInv'
    BY <2>1, <2>2, <2>4, <2>5, <2>6, DraftsStay
  <2> QED
    BY <2>3, <2>7 DEF TranslationInv
<1>4. CASE Translation!StartFails
  <2>1. ASSUME NEW d \in Drafts, draft[d].stage = "starting", Translation!Fail(d),
               UNCHANGED <<over, starting, server, servers, doomed, spawned, onCalls,
                           enabled, generation, sessionGeneration, toggle, overlapped>>
        PROVE  TranslationInv'
    <3>1. draft' \in [Drafts -> Draft] /\ DraftsInv'
      BY <2>1, FailDoes DEF Translation!Waiting
    <3> QED
      BY <2>1, <3>1 DEF TranslationInv, ServersInv, ServerNumbers, OnlyCurrent, Wanted
  <2>2. ASSUME starting' = "no", over' = TRUE, server' = 0,
               doomed' = doomed \cup ({server} \ {0}), onCalls' = {},
               UNCHANGED <<servers, spawned, recovery, editor, draft, failed,
                           enabled, generation, sessionGeneration, toggle, overlapped>>
        PROVE  TranslationInv'
    <3>1. ServersInv'
      BY <2>2 DEF TranslationInv, ServersInv, ServerNumbers, OnlyCurrent, Wanted
    <3>2. DraftsInv'
      BY <2>2, DraftsStay DEF TranslationInv, DraftsInv, ServersInv, ServerNumbers,
         Translation!FailedIsKept, Translation!Waiting
    <3> QED
      BY <3>1, <3>2 DEF TranslationInv
  <2> QED
    BY <1>4, <2>1, <2>2 DEF Translation!StartFails
<1>5. CASE Translation!ServerCrashes
  <2>1. ServersInv'
    BY <1>5 DEF Translation!ServerCrashes, TranslationInv, ServersInv, ServerNumbers, OnlyCurrent, Wanted
  <2>2. DraftsInv'
    BY <1>5, DraftsStay DEF Translation!ServerCrashes, TranslationInv, DraftsInv, ServersInv,
       ServerNumbers, Translation!FailedIsKept, Translation!Waiting
  <2> QED
    BY <2>1, <2>2 DEF TranslationInv
<1>6. CASE Translation!ServerEnds
  <2>1. ServersInv'
    BY <1>6 DEF Translation!ServerEnds, TranslationInv, ServersInv, ServerNumbers, OnlyCurrent, Wanted
  <2>2. DraftsInv'
    BY <1>6, DraftsStay DEF Translation!ServerEnds, TranslationInv, DraftsInv, ServersInv,
       ServerNumbers, Translation!FailedIsKept, Translation!Waiting
  <2> QED
    BY <2>1, <2>2 DEF TranslationInv
<1>7. CASE Translation!On
  <2>1. ServersInv'
    <3>1. /\ generation' = generation + 1 /\ Translation!Begin
          /\ UNCHANGED <<sessionGeneration, draft>>
          /\ IF Translation!Loaded THEN enabled' = TRUE /\ toggle' = TRUE
             ELSE generation' \in onCalls' /\ UNCHANGED <<enabled, toggle>>
      BY <1>7 DEF Translation!On
    <3>2. ServersInv /\ ServerNumbers
      BY DEF TranslationInv, ServersInv
    <3>3. generation' \in Nat /\ sessionGeneration' \in Nat /\ draft' \in [Drafts -> Draft]
      BY <3>1, <3>2 DEF ServerNumbers
    <3>4. /\ enabled' \in BOOLEAN /\ toggle' \in BOOLEAN /\ (toggle' <=> enabled') /\ (enabled => enabled')
          /\ enabled' \/ (~Translation!Loaded /\ generation' \in onCalls')
      BY Zenon, <3>1, <3>2 DEF ServerNumbers
    <3> QED
      BY <3>1, <3>2, <3>3, <3>4, BeginKeeps
  <2>2. DraftsInv'
    BY <1>7, DraftsOutdated DEF Translation!On, TranslationInv, DraftsInv, Translation!FailedIsKept
  <2> QED
    BY <2>1, <2>2 DEF TranslationInv
<1>8. CASE Translation!Off
  <2>1. ServersInv'
    <3>1. /\ generation' = generation + 1 /\ Translation!Stop
          /\ UNCHANGED <<sessionGeneration, draft>> /\ enabled' = FALSE /\ toggle' = FALSE
      BY <1>8 DEF Translation!Off
    <3>2. ServersInv /\ ServerNumbers
      BY DEF TranslationInv, ServersInv
    <3>3. generation' \in Nat /\ sessionGeneration' \in Nat /\ draft' \in [Drafts -> Draft]
      BY <3>1, <3>2 DEF ServerNumbers
    <3>4. enabled' \in BOOLEAN /\ toggle' \in BOOLEAN /\ (toggle' <=> enabled')
      BY Zenon, <3>1
    <3> QED
      BY <3>1, <3>2, <3>3, <3>4, StopKeeps
  <2>2. DraftsInv'
    BY <1>8, DraftsOutdated DEF Translation!Off, TranslationInv, DraftsInv, Translation!FailedIsKept
  <2> QED
    BY <2>1, <2>2 DEF TranslationInv
<1>9. CASE Translation!Recover \/ Translation!EditorCleared
  <2>1. ServersInv'
    BY <1>9 DEF Translation!Recover, Translation!EditorCleared, TranslationInv, ServersInv, ServerNumbers, OnlyCurrent, Wanted
  <2>2. DraftsInv'
    BY <1>9, DraftsStay DEF Translation!Recover, Translation!EditorCleared, TranslationInv,
       DraftsInv, ServersInv, ServerNumbers, Translation!FailedIsKept, Translation!Waiting
  <2> QED
    BY <2>1, <2>2 DEF TranslationInv
<1>10. ASSUME NEW d \in Drafts, Translation!Submit(d)
       PROVE  TranslationInv'
  <2> DEFINE next == IF ~enabled THEN "sentRaw" ELSE IF Translation!Loaded THEN "asking" ELSE "starting"
  <2>1. /\ draft' = [draft EXCEPT ![d] =
              [stage |-> next, generation |-> generation, session |-> sessionGeneration,
               server |-> IF next = "asking" THEN server ELSE 0, recovered |-> recovery = d]]
        /\ recovery' = IF ~enabled /\ recovery = d THEN 0 ELSE recovery
        /\ failed' = IF failed = d THEN 0 ELSE failed
        /\ overlapped' = (overlapped \/ (enabled /\ Translation!Waiting # {}))
        /\ UNCHANGED <<enabled, generation, sessionGeneration, toggle, onCalls>>
        /\ IF enabled THEN Translation!Begin
           ELSE UNCHANGED <<starting, over, server, servers, doomed, spawned>>
    BY <1>10 DEF Translation!Submit
  <2>2. /\ draft' \in [Drafts -> Draft]
        /\ \A e \in Drafts : e # d => draft'[e] = draft[e]
        /\ draft'[d].stage = next /\ draft'[d].generation = generation
        /\ draft'[d].session = sessionGeneration /\ draft'[d].recovered = (recovery = d)
    BY <2>1 DEF TranslationInv, ServersInv, ServerNumbers, Draft
  <2>3. ServersInv'
    <3>1. CASE enabled
      BY <2>1, <2>2, <3>1, BeginKeeps DEF TranslationInv, ServersInv, ServerNumbers
    <3>2. CASE ~enabled
      BY <2>1, <2>2, <3>2 DEF TranslationInv, ServersInv, ServerNumbers, OnlyCurrent, Wanted
    <3> QED
      BY <3>1, <3>2
  <2>4. /\ \A e \in Translation!Waiting' : e \in Drafts /\ (e # d => e \in Translation!Waiting)
        /\ d \in Translation!Waiting' => enabled
    BY <2>2 DEF Translation!Waiting
  <2>5. WaitsWhereTyped'
    BY <2>1, <2>2, <2>4 DEF TranslationInv, ServersInv, ServerNumbers, DraftsInv, WaitsWhereTyped
  <2>6. Translation!FailedIsKept'
    BY <2>1 DEF TranslationInv, DraftsInv, Translation!FailedIsKept
  <2>7. OneWaits'
    BY <2>1, <2>2, <2>4 DEF TranslationInv, DraftsInv, OneWaits, Translation!FailedIsKept
  <2> QED
    BY <2>3, <2>5, <2>6, <2>7 DEF TranslationInv, DraftsInv
<1>11. ASSUME NEW d \in Drafts, Translation!Translated(d)
       PROVE  TranslationInv'
  <2>1. /\ draft[d].stage = "asking" /\ d \in Translation!Waiting
        /\ UNCHANGED <<over, starting, server, servers, doomed, spawned, onCalls,
                       enabled, generation, sessionGeneration, toggle, overlapped>>
    BY <1>11 DEF Translation!Translated, Translation!Waiting
  <2>2. draft' \in [Drafts -> Draft] /\ DraftsInv'
    <3>1. CASE Translation!UpToDate(d)
      <4>1. /\ draft' = [draft EXCEPT ![d].stage = "sent", ![d].server = 0]
            /\ recovery' = IF draft[d].recovered THEN 0 ELSE recovery
            /\ failed' = failed
        BY <1>11, <3>1 DEF Translation!Translated
      <4>2. /\ draft' \in [Drafts -> Draft]
            /\ \A e \in Drafts : e # d => draft'[e] = draft[e]
            /\ draft'[d].stage = "sent"
        BY ZenonT(30), <4>1 DEF TranslationInv, ServersInv, ServerNumbers, Draft
      <4>3. \A e \in Translation!Waiting' : e \in Translation!Waiting /\ draft'[e] = draft[e]
        BY <4>2 DEF Translation!Waiting
      <4>4. Translation!FailedIsKept'
        BY <2>1, <4>1 DEF TranslationInv, DraftsInv, Translation!FailedIsKept, OneWaits
      <4> QED
        BY <2>1, <4>1, <4>2, <4>3, <4>4, DraftsStay DEF TranslationInv, ServersInv, ServerNumbers
    <3>2. CASE ~Translation!UpToDate(d)
      BY <1>11, <2>1, <3>2, FailDoes DEF Translation!Translated
    <3> QED
      BY <3>1, <3>2
  <2> QED
    BY <2>1, <2>2 DEF TranslationInv, ServersInv, ServerNumbers, OnlyCurrent, Wanted
<1>12. ASSUME NEW d \in Drafts, Translation!TranslationFails(d)
       PROVE  TranslationInv'
  <2>1. /\ d \in Translation!Waiting /\ Translation!Fail(d)
        /\ UNCHANGED <<over, starting, server, servers, doomed, spawned, onCalls,
                       enabled, generation, sessionGeneration, toggle, overlapped>>
    BY <1>12 DEF Translation!TranslationFails, Translation!Waiting
  <2>2. draft' \in [Drafts -> Draft] /\ DraftsInv'
    BY <2>1, FailDoes
  <2> QED
    BY <2>1, <2>2 DEF TranslationInv, ServersInv, ServerNumbers, OnlyCurrent, Wanted
<1>13. ASSUME Translation!Moved, enabled' = toggle', toggle' \in BOOLEAN,
              \/ enabled' = TRUE
                 /\ UNCHANGED <<starting, over, server, servers, doomed, spawned>>
              \/ Translation!Stop
       PROVE  TranslationInv'
  <2>1. ServersInv'
    <3>1. CASE Translation!Stop
      BY <1>13, <3>1, StopKeeps DEF Translation!Moved, TranslationInv, ServersInv, ServerNumbers
    <3>2. CASE enabled' = TRUE
               /\ UNCHANGED <<starting, over, server, servers, doomed, spawned>>
      BY <1>13, <3>2 DEF Translation!Moved, TranslationInv, ServersInv, ServerNumbers, OnlyCurrent, Wanted
    <3> QED
      BY <1>13, <3>1, <3>2
  <2>2. DraftsInv'
    BY <1>13, DraftsOutdated DEF Translation!Moved, TranslationInv, DraftsInv, Translation!FailedIsKept
  <2> QED
    BY <2>1, <2>2 DEF TranslationInv
<1>14. CASE Translation!Tree
  BY <1>13, <1>14 DEF Translation!Tree, TranslationInv, ServersInv, ServerNumbers
<1>15. CASE Translation!Replace
  BY <1>13, <1>15 DEF Translation!Replace, TranslationInv, ServersInv, ServerNumbers
<1>16. CASE UNCHANGED Translation!translateVars
  <2>1. ServersInv'
    BY <1>16 DEF Translation!translateVars, TranslationInv, ServersInv, ServerNumbers, OnlyCurrent, Wanted
  <2>2. DraftsInv'
    BY <1>16, DraftsStay DEF Translation!translateVars, TranslationInv,
       DraftsInv, ServersInv, ServerNumbers, Translation!FailedIsKept, Translation!Waiting
  <2> QED
    BY <2>1, <2>2 DEF TranslationInv
<1> QED
  BY <1>1, <1>2, <1>3, <1>4, <1>5, <1>6, <1>7, <1>8, <1>9, <1>10, <1>11, <1>12, <1>14, <1>15,
     <1>16 DEF Translation!Next, Translation!Launch

(* The step that sends a translation sends it where it was typed.            *)
LEMMA TranslatedInPlace ==
  ASSUME TranslationInv, [Translation!Next]_(Translation!translateVars),
         NEW d \in Drafts, draft[d].stage = "asking", draft'[d].stage = "sent"
  PROVE  enabled /\ toggle /\ draft[d].session = sessionGeneration
<1> USE DEF Translation!setting, Translation!inputs, Translation!backend
<1>1. draft \in [Drafts -> Draft] /\ d \in Translation!Waiting
  BY DEF TranslationInv, ServersInv, ServerNumbers, Translation!Waiting
<1>2. draft' # draft
  OBVIOUS
<1>3. ~Translation!Started
  BY <1>1 DEF Translation!Started, Draft
<1>4. ASSUME NEW e \in Drafts PROVE ~Translation!Fail(e)
  BY <1>1 DEF Translation!Fail, Draft
<1>5. ASSUME NEW e \in Drafts PROVE ~Translation!Submit(e)
  BY <1>1 DEF Translation!Submit, Draft
<1>6. ASSUME NEW e \in Drafts, Translation!Translated(e) PROVE e = d /\ Translation!UpToDate(d)
  BY <1>1, <1>4, <1>6 DEF Translation!Translated, Draft
<1>7. \E e \in Drafts : Translation!Translated(e)
  BY <1>2, <1>3, <1>4, <1>5 DEF Translation!Next, Translation!Launch, Translation!translateVars,
     Translation!SpawnServer, Translation!Listening, Translation!StartFails,
     Translation!ServerCrashes, Translation!ServerEnds, Translation!On, Translation!Off,
     Translation!Recover, Translation!EditorCleared, Translation!TranslationFails,
     Translation!Tree, Translation!Replace, Translation!Moved
<1> QED
  BY <1>1, <1>6, <1>7 DEF Translation!UpToDate, TranslationInv, DraftsInv, WaitsWhereTyped

(* Servers stay wanted and prompts recoverable.                             *)
LEMMA TranslationAlways == Extensions => []TranslationInv
<1>1. ExtensionsInit => TranslationInv
  BY InitTranslation DEF ExtensionsInit
<1>2. TranslationInv /\ [ExtensionsNext]_everything => TranslationInv'
  BY StepTranslation, OneAtATime
<1> QED
  BY <1>1, <1>2, PTL DEF Extensions

(* "disables it and unloads the model" (README.md, 129): whatever launches,   *)
(* stops, crashes and changes of session meet, one server at most was not    *)
(* told to stop, and none once translation is off and nobody waits for it.   *)
THEOREM NoServerLeftOver == Extensions => []ServersUnloaded
<1>1. TranslationInv => ServersUnloaded
  <2> SUFFICES ASSUME TranslationInv PROVE ServersUnloaded
    OBVIOUS
  <2>1. Translation!UnloadedWhenOff
    BY DEF TranslationInv, ServersInv, Wanted, Translation!UnloadedWhenOff
  <2>2. Cardinality(servers \ doomed) <= 1
    <3>1. servers \ doomed = {} \/ servers \ doomed = {server}
      BY DEF TranslationInv, ServersInv, OnlyCurrent
    <3>2. Cardinality({}) = 0 /\ Cardinality({server}) = 1
      BY FS_EmptySet, FS_Singleton
    <3> QED
      BY <3>1, <3>2
  <2>3. Translation!Cardinality(servers \ doomed) = Cardinality(servers \ doomed)
    BY Zenon DEF Translation!Cardinality, Cardinality
  <2> QED
    BY <2>1, <2>2, <2>3 DEF ServersUnloaded, Translation!ServersUnloaded, Translation!OneServer
<1> QED
  BY <1>1, TranslationAlways, PTL

(* However long a translation takes, it is sent only on the branch where its *)
(* prompt was typed, and a prompt that failed alone can be recovered.        *)
THEOREM SentWhereTyped == Extensions => PromptSentOrKept
<1>1. TranslationInv /\ [ExtensionsNext]_everything =>
        [/\ Translation!FailedIsKept'
         /\ \A d \in Drafts :
              draft[d].stage = "asking" /\ draft'[d].stage = "sent" =>
                enabled /\ toggle /\ draft[d].session = sessionGeneration]_(Translation!translateVars)
  BY StepTranslation, TranslatedInPlace, OneAtATime DEF TranslationInv, DraftsInv
<1> QED
  BY <1>1, TranslationAlways, PTL DEF Extensions, PromptSentOrKept, Translation!PromptSentOrKept

------------------------------------------------------------------------------
(***************************************************************************)
(* A finished review is a reviewed one and its report is of it, for any      *)
(* reviewers, files and commands, wherever they are killed.                *)
(***************************************************************************)

Ledger == [state : {"open", "complete", "incomplete"}, intent : BOOLEAN,
           coverage : [Items -> {"pending", "reviewed", "deferred"}],
           candidate : [Items -> {"none", "open", "confirmed", "deferred"}]]

(* What a reviewer is doing. *)
Doing ==
  [stage : {"idle", "dead"}] \cup [stage : {"begun"}, command : Review!Commands]
  \cup [stage : {"loaded", "checked", "written"}, command : Review!Commands, copy : Ledger]

Sound(l) == l.state # "open" => ~Review!Errors(l)

(* Only the reviewer that has the lock changes the files; it has the ledger   *)
(* as it is, its change of it, or has written it.                          *)
WriterHasLock ==
  \A r \in Reviewers :
    /\ reviewer[r].stage \in {"loaded", "checked", "written"} => lock = r
    /\ reviewer[r].stage \in {"loaded", "written"} => reviewer[r].copy = ledger
    /\ reviewer[r].stage = "checked" => Sound(reviewer[r].copy)

(* A report that is not of the ledger has a writer about to replace it, or   *)
(* one that failed or was killed before it did.                            *)
ReportOrWriter ==
  report # NoReport /\ ~halfDone =>
    report = ledger \/ \E r \in Reviewers : reviewer[r].stage = "written"

ReviewInv ==
  /\ Nobody \notin Reviewers
  /\ ledger \in Ledger /\ halfDone \in BOOLEAN /\ reviewer \in [Reviewers -> Doing]
  /\ Sound(ledger) /\ WriterHasLock /\ ReportOrWriter

(* Nothing is written yet.                                                  *)
LEMMA InitReview ==
  ASSUME Nobody \notin Reviewers, Review!Init
  PROVE  ReviewInv
<1>1. ledger \in Ledger /\ ledger.state = "open"
  BY DEF Review!Init, Review!Initial, Ledger
<1>2. reviewer \in [Reviewers -> Doing] /\ \A r \in Reviewers : reviewer[r].stage = "idle"
  BY DEF Review!Init, Review!Idle, Doing
<1>3. halfDone = FALSE /\ report = NoReport
  BY DEF Review!Init
<1> QED
  BY <1>1, <1>2, <1>3 DEF ReviewInv, Sound, WriterHasLock, ReportOrWriter

(* A command changes a ledger into one, and opens it unless it finishes it.  *)
LEMMA AppliedIs ==
  ASSUME NEW l \in Ledger, NEW c \in Review!Commands
  PROVE  /\ Review!Applied(l, c) \in Ledger
         /\ c.kind # "finish" => Review!Applied(l, c).state = "open"
<1> DEFINE coverage == IF c.kind = "mark" THEN [l.coverage EXCEPT ![c.item] = c.status] ELSE l.coverage
           candidate == IF c.kind = "cand" THEN [l.candidate EXCEPT ![c.item] = c.disposition] ELSE l.candidate
           state == IF c.kind = "finish" THEN c.state ELSE "open"
           intent == l.intent \/ c.kind = "intent"
<1>1. Review!Applied(l, c) = [l EXCEPT !.state = state, !.intent = intent,
                                       !.coverage = coverage, !.candidate = candidate]
  BY DEF Review!Applied, Review!Reopened
<1>2. coverage \in [Items -> {"pending", "reviewed", "deferred"}]
  BY DEF Ledger, Review!Commands
<1>3. candidate \in [Items -> {"none", "open", "confirmed", "deferred"}]
  BY DEF Ledger, Review!Commands
<1>4. state \in {"open", "complete", "incomplete"} /\ (c.kind # "finish" => state = "open")
  BY DEF Review!Commands
<1>5. intent \in BOOLEAN
  BY Zenon
<1> HIDE DEF coverage, candidate, state, intent
<1> QED
  BY <1>1, <1>2, <1>3, <1>4, <1>5 DEF Ledger

(* A reviewer goes on to what it does next.                                  *)
LEMMA MoveDoes ==
  ASSUME ReviewInv, NEW r \in Reviewers, NEW to \in Doing, Review!Move(r, to)
  PROVE  /\ reviewer' \in [Reviewers -> Doing] /\ reviewer'[r] = to
         /\ \A s \in Reviewers : s # r => reviewer'[s] = reviewer[s]
  BY DEF Review!Move, ReviewInv

(* A reviewer stops writing, or never wrote, and leaves the files alone.     *)
LEMMA Leaves ==
  ASSUME ReviewInv, NEW r \in Reviewers, NEW to \in Doing, Review!Move(r, to),
         to.stage \in {"idle", "dead", "begun"},
         UNCHANGED <<ledger, report>>,
         halfDone' = (halfDone \/ reviewer[r].stage = "written"),
         lock' = lock \/ lock = r
  PROVE  ReviewInv'
<1>1. /\ reviewer' \in [Reviewers -> Doing] /\ reviewer'[r] = to
      /\ \A s \in Reviewers : s # r => reviewer'[s] = reviewer[s]
  BY MoveDoes
<1>2. Sound(ledger)'
  BY DEF ReviewInv, Sound, Review!Errors
<1>3. WriterHasLock'
  BY <1>1 DEF ReviewInv, WriterHasLock
<1>4. ReportOrWriter'
  BY <1>1 DEF ReviewInv, ReportOrWriter
<1>5. halfDone' \in BOOLEAN
  BY Zenon DEF ReviewInv
<1> QED
  BY <1>1, <1>2, <1>3, <1>4, <1>5 DEF ReviewInv

(* Every step keeps the writer alone and the ledger sound.                  *)
LEMMA StepReview == ReviewInv /\ [Review!Next]_(Review!ledgerVars) => ReviewInv'
<1> SUFFICES ASSUME ReviewInv, [Review!Next]_(Review!ledgerVars)
             PROVE  ReviewInv'
  OBVIOUS
<1>a. Review!Idle \in Doing /\ Review!Idle.stage = "idle"
  BY DEF Review!Idle, Doing
<1>b. reviewer \in [Reviewers -> Doing]
  BY DEF ReviewInv
<1>c. \A l : Sound(l)' = Sound(l)
  BY DEF Sound, Review!Errors
<1>1. ASSUME NEW r \in Reviewers, NEW c \in Review!Commands, Review!Begin(r, c)
      PROVE  ReviewInv'
  <2>1. [stage |-> "begun", command |-> c] \in Doing
    BY DEF Doing
  <2>2. reviewer[r].stage # "written"
    BY <1>1 DEF Review!Begin, Review!At
  <2>3. halfDone' = (halfDone \/ reviewer[r].stage = "written")
    BY <1>1, <2>2 DEF Review!Begin, ReviewInv
  <2> QED
    BY <1>1, <2>1, <2>3, Leaves DEF Review!Begin
<1>2. ASSUME NEW r \in Reviewers, Review!Locks(r)
      PROVE  ReviewInv'
  <2>1. reviewer[r].stage = "begun" /\ reviewer[r].command \in Review!Commands
    BY <1>2, <1>b DEF Review!Locks, Review!At, Doing
  <2>2. CASE Review!MayLock
    <3> DEFINE to == [stage |-> "loaded", command |-> reviewer[r].command, copy |-> ledger]
    <3>1. Review!Move(r, to) /\ lock' = r /\ UNCHANGED <<ledger, report, halfDone>> /\ lock = Nobody
      BY <1>2, <2>2 DEF Review!Locks, Review!MayLock
    <3>2. to \in Doing /\ to.stage = "loaded" /\ to.copy = ledger
      BY <2>1 DEF Doing, ReviewInv
    <3> HIDE DEF to
    <3>3. /\ reviewer' \in [Reviewers -> Doing] /\ reviewer'[r] = to
          /\ \A s \in Reviewers : s # r => reviewer'[s] = reviewer[s]
      BY <3>1, <3>2, MoveDoes
    <3>4. WriterHasLock'
      BY <3>1, <3>2, <3>3 DEF ReviewInv, WriterHasLock
    <3>5. ReportOrWriter'
      BY <2>1, <3>1, <3>3 DEF ReviewInv, ReportOrWriter
    <3> QED
      BY <1>c, <3>1, <3>3, <3>4, <3>5 DEF ReviewInv
  <2>3. CASE ~Review!MayLock
    <3>1. halfDone' = (halfDone \/ reviewer[r].stage = "written")
      BY <1>2, <2>1 DEF Review!Locks, ReviewInv
    <3> QED
      BY <1>2, <2>3, <3>1, <1>a, Leaves DEF Review!Locks
  <2> QED
    BY <2>2, <2>3
<1>3. ASSUME NEW r \in Reviewers, Review!Checks(r)
      PROVE  ReviewInv'
  <2> DEFINE c == reviewer[r].command
             l == Review!Applied(reviewer[r].copy, c)
  <2>1. /\ reviewer[r].stage = "loaded" /\ c \in Review!Commands
        /\ reviewer[r].copy \in Ledger /\ lock = r
    BY <1>3, <1>b DEF Review!Checks, Review!At, Doing, ReviewInv, WriterHasLock
  <2>2. l \in Ledger /\ (c.kind # "finish" => l.state = "open")
    BY <2>1, AppliedIs
  <2>3. ASSUME Review!Valid(l, c),
               Review!Move(r, [reviewer[r] EXCEPT !.stage = "checked", !.copy = l]),
               UNCHANGED <<ledger, report, halfDone, lock>>
        PROVE  ReviewInv'
    <3> DEFINE to == [reviewer[r] EXCEPT !.stage = "checked", !.copy = l]
    <3>1. to \in Doing /\ to.stage = "checked" /\ to.copy = l
      BY <1>b, <2>1, <2>2 DEF Doing
    <3>2. Sound(l)
      BY <2>2, <2>3 DEF Sound, Review!Valid
    <3> HIDE DEF to, l
    <3>3. /\ reviewer' \in [Reviewers -> Doing] /\ reviewer'[r] = to
          /\ \A s \in Reviewers : s # r => reviewer'[s] = reviewer[s]
      BY <2>3, <3>1, MoveDoes DEF to
    <3>4. WriterHasLock'
      BY <1>c, <2>1, <2>3, <3>1, <3>2, <3>3 DEF ReviewInv, WriterHasLock
    <3>5. ReportOrWriter'
      BY <2>1, <2>3, <3>3 DEF ReviewInv, ReportOrWriter
    <3> QED
      BY <1>c, <2>3, <3>3, <3>4, <3>5 DEF ReviewInv
  <2>4. ASSUME Review!Move(r, Review!Idle), UNCHANGED <<ledger, report, halfDone>>
        PROVE  ReviewInv'
    <3>1. halfDone' = (halfDone \/ reviewer[r].stage = "written")
      BY <2>1, <2>4 DEF ReviewInv
    <3> QED
      BY <2>1, <2>4, <3>1, <1>a, Leaves
  <2> QED
    BY <1>3, <2>3, <2>4 DEF Review!Checks
<1>4. ASSUME NEW r \in Reviewers, Review!Writes(r)
      PROVE  ReviewInv'
  <2> DEFINE to == [reviewer[r] EXCEPT !.stage = "written"]
  <2>1. /\ reviewer[r].stage = "checked" /\ reviewer[r].copy \in Ledger /\ lock = r
        /\ Sound(reviewer[r].copy)
    BY <1>4, <1>b DEF Review!Writes, Review!At, Doing, ReviewInv, WriterHasLock
  <2>2. to \in Doing /\ to.stage = "written" /\ to.copy = reviewer[r].copy
    BY <1>b, <2>1 DEF Doing
  <2>3. UNCHANGED <<report, halfDone>>
    BY <1>4 DEF Review!Writes
  <2>4. CASE Review!Move(r, to) /\ ledger' = reviewer[r].copy /\ UNCHANGED lock
    <3> HIDE DEF to
    <3>1. /\ reviewer' \in [Reviewers -> Doing] /\ reviewer'[r] = to
          /\ \A s \in Reviewers : s # r => reviewer'[s] = reviewer[s]
      BY <2>2, <2>4, MoveDoes
    <3>2. \A s \in Reviewers : s # r => reviewer[s].stage \notin {"loaded", "checked", "written"}
      BY <2>1 DEF ReviewInv, WriterHasLock
    <3>3. WriterHasLock'
      BY <2>1, <2>2, <2>4, <3>1, <3>2 DEF ReviewInv, WriterHasLock
    <3>4. ReportOrWriter'
      BY <2>2, <3>1 DEF ReportOrWriter
    <3> QED
      BY <1>c, <2>1, <2>3, <2>4, <3>1, <3>3, <3>4 DEF ReviewInv
  <2>5. CASE Review!Move(r, Review!Idle) /\ lock' = Nobody /\ UNCHANGED ledger
    <3>1. halfDone' = (halfDone \/ reviewer[r].stage = "written")
      BY <2>1, <2>3 DEF ReviewInv
    <3> QED
      BY <1>a, <2>1, <2>3, <2>5, <3>1, Leaves
  <2> QED
    BY <1>4, <2>4, <2>5 DEF Review!Writes
<1>5. ASSUME NEW r \in Reviewers, Review!Reports(r)
      PROVE  ReviewInv'
  <2>1. /\ reviewer[r].stage = "written" /\ reviewer[r].copy = ledger /\ lock = r
    BY <1>5 DEF Review!Reports, Review!At, ReviewInv, WriterHasLock
  <2>2. /\ Review!Move(r, Review!Idle) /\ UNCHANGED ledger /\ halfDone' \in BOOLEAN
        /\ halfDone' \/ report' = NoReport \/ report' = ledger
    BY <1>5, <2>1 DEF Review!Reports, Review!Rendered
  <2>3. /\ reviewer' \in [Reviewers -> Doing] /\ reviewer'[r] = Review!Idle
        /\ \A s \in Reviewers : s # r => reviewer'[s] = reviewer[s]
    BY <2>2, <1>a, MoveDoes
  <2>4. \A s \in Reviewers : s # r => reviewer[s].stage \notin {"loaded", "checked", "written"}
    BY <2>1 DEF ReviewInv, WriterHasLock
  <2>5. WriterHasLock'
    BY <1>a, <2>3, <2>4 DEF ReviewInv, WriterHasLock
  <2>6. ReportOrWriter'
    BY <2>2 DEF ReportOrWriter
  <2> QED
    BY <1>c, <2>2, <2>3, <2>5, <2>6 DEF ReviewInv
<1>6. ASSUME NEW r \in Reviewers, Review!Dies(r)
      PROVE  ReviewInv'
  <2>1. [stage |-> "dead"] \in Doing
    BY DEF Doing
  <2> QED
    BY <1>6, <2>1, Leaves DEF Review!Dies, Review!At
<1>7. ASSUME NEW r \in Reviewers, Review!Recovered(r)
      PROVE  ReviewInv'
  <2>1. halfDone' = (halfDone \/ reviewer[r].stage = "written")
    BY <1>7 DEF Review!Recovered, Review!At, ReviewInv
  <2> QED
    BY <1>7, <1>a, <2>1, Leaves DEF Review!Recovered
<1>8. CASE Review!Edited \/ UNCHANGED Review!ledgerVars
  BY <1>8, <1>c DEF Review!Edited, Review!ledgerVars, ReviewInv, WriterHasLock, ReportOrWriter
<1> QED
  BY <1>1, <1>2, <1>3, <1>4, <1>5, <1>6, <1>7, <1>8 DEF Review!Next

(* The ledger stays sound.                                                  *)
LEMMA ReviewAlways == Extensions => []ReviewInv
<1>1. ExtensionsInit => ReviewInv
  BY InitReview, ExtensionsAssumption DEF ExtensionsInit
<1>2. ReviewInv /\ [ExtensionsNext]_everything => ReviewInv'
  BY StepReview, OneAtATime
<1> QED
  BY <1>1, <1>2, PTL DEF Extensions

(* However commands of several reviewers interleave and wherever they are     *)
(* killed, a finished ledger has nothing pending, and a report at a free lock *)
(* is of the ledger, unless a writer failed or was killed between the two    *)
(* files (review.py, 262 to 266).                                           *)
THEOREM ReviewsAreTrue == Extensions => []ReviewTrue
<1>1. ReviewInv => ReviewTrue
  <2> SUFFICES ASSUME ReviewInv PROVE ReviewTrue
    OBVIOUS
  <2>1. lock = Nobody => \A r \in Reviewers : reviewer[r].stage # "written"
    BY DEF ReviewInv, WriterHasLock
  <2> QED
    BY <2>1 DEF ReviewInv, Sound, ReportOrWriter, ReviewTrue, Review!ReviewTrue,
       Review!FinishedIsReviewed, Review!ReportIsOfLedger
<1> QED
  BY <1>1, ReviewAlways, PTL

------------------------------------------------------------------------------
(***************************************************************************)
(* The index lists every message that was there all the time, once and in    *)
(* order, and loses one record at most for each death of its worker, for     *)
(* any messages, pages, compactions and deaths.                            *)
(***************************************************************************)

Numbered ==
  Messages \subseteq Nat \ {0} /\ TimeOf \in [Messages -> Nat] /\ Limit \in Nat \ {0}

(* The instance counts as this module does.                                  *)
LEMMA CountsMessages == \A S : Index!Cardinality(S) = Cardinality(S)
  BY Zenon DEF Index!Cardinality, Cardinality

(* Messages have an order.                                                   *)
LEMMA MessagesInOrder ==
  ASSUME Numbered
  PROVE  /\ \A m \in Messages : ~Index!Before(m, m)
         /\ \A m, n \in Messages : m = n \/ Index!Before(m, n) \/ Index!Before(n, m)
         /\ \A m, n, k \in Messages :
              Index!Before(m, n) /\ Index!Before(n, k) => Index!Before(m, k)
  BY DEF Numbered, Index!Before

Rank(S, m) == Cardinality({k \in S : Index!Before(k, m)})

(* Finitely many messages are numbered by how many come before each.         *)
LEMMA RanksNumber ==
  ASSUME Numbered, NEW S \in SUBSET Messages, IsFiniteSet(S)
  PROVE  /\ Cardinality(S) \in Nat
         /\ \A m \in S : Rank(S, m) \in 0 .. Cardinality(S) - 1
         /\ \A m, n \in S : Rank(S, m) < Rank(S, n) <=> Index!Before(m, n)
         /\ \A m, n \in S : Rank(S, m) = Rank(S, n) => m = n
         /\ \A i \in 0 .. Cardinality(S) - 1 : \E m \in S : Rank(S, m) = i
<1> DEFINE Earlier(m) == {k \in S : Index!Before(k, m)}
<1>1. Cardinality(S) \in Nat
  BY FS_CardinalityType
<1>2. ASSUME NEW m \in S
      PROVE  /\ IsFiniteSet(Earlier(m)) /\ Rank(S, m) \in Nat /\ Rank(S, m) < Cardinality(S)
             /\ Cardinality(Earlier(m) \cup {m}) = Rank(S, m) + 1
  <2>1. m \notin Earlier(m)
    BY MessagesInOrder
  <2>2. IsFiniteSet(Earlier(m)) /\ IsFiniteSet(Earlier(m) \cup {m})
    <3>1. Earlier(m) \in SUBSET S /\ Earlier(m) \cup {m} \in SUBSET S
      OBVIOUS
    <3> QED
      BY <3>1, FS_Subset
  <2>3. Cardinality(Earlier(m) \cup {m}) = Cardinality(Earlier(m)) + 1
    BY <2>1, <2>2, FS_AddElement
  <2>4. Cardinality(Earlier(m) \cup {m}) <= Cardinality(S)
    BY FS_Subset
  <2>5. Cardinality(Earlier(m)) \in Nat
    BY <2>2, FS_CardinalityType
  <2> QED
    BY <1>1, <2>2, <2>3, <2>4, <2>5 DEF Rank
<1>3. ASSUME NEW m \in S, NEW n \in S, Index!Before(m, n)
      PROVE  Rank(S, m) < Rank(S, n)
  <2>1. Earlier(m) \cup {m} \in SUBSET Earlier(n)
    BY <1>3, MessagesInOrder
  <2>2. Cardinality(Earlier(m) \cup {m}) <= Cardinality(Earlier(n))
    BY <1>2, <2>1, FS_Subset
  <2>3. Cardinality(Earlier(n)) = Rank(S, n)
    BY DEF Rank
  <2>4. /\ Cardinality(Earlier(m) \cup {m}) = Rank(S, m) + 1
        /\ Rank(S, m) \in Nat /\ Rank(S, n) \in Nat
    BY <1>2
  <2> HIDE DEF Earlier
  <2> QED
    BY <2>2, <2>3, <2>4
<1>4. \A m \in S : Rank(S, m) \in Nat /\ Rank(S, m) < Cardinality(S)
  BY <1>2
<1>5. \A m, n \in S : Index!Before(m, n) => Rank(S, m) < Rank(S, n)
  BY <1>3
<1>6. \A m, n \in S : m = n \/ Index!Before(m, n) \/ Index!Before(n, m)
  BY MessagesInOrder
<1>7. \A m, n \in S : Rank(S, m) = Rank(S, n) => m = n
  BY <1>4, <1>5, <1>6
<1>8. \A m, n \in S : Rank(S, m) < Rank(S, n) => Index!Before(m, n)
  BY <1>4, <1>5, <1>6
<1>9. ASSUME NEW i \in 0 .. Cardinality(S) - 1
      PROVE  \E m \in S : Rank(S, m) = i
  <2> DEFINE f == [m \in S |-> Rank(S, m)]
             T == 0 .. Cardinality(S) - 1
  <2>1. f \in [S -> T]
    BY <1>1, <1>4
  <2>2. f \in Injection(S, T)
    BY <2>1, <1>7 DEF Injection, IsInjective
  <2>3. IsFiniteSet(T) /\ Cardinality(T) = Cardinality(S)
    <3>1. 0 \in Int /\ Cardinality(S) - 1 \in Int
      BY <1>1
    <3> QED
      BY <1>1, <3>1, FS_Interval
  <2>4. f \in Surjection(S, T)
    BY <2>2, <2>3, FS_Injection
  <2> QED
    BY <2>4 DEF Surjection
<1>10. \A m \in S : Rank(S, m) \in 0 .. Cardinality(S) - 1
  BY <1>1, <1>4
<1> QED
  BY <1>1, <1>7, <1>8, <1>9, <1>5, <1>10

(* A page is in order and has the first messages; all, if they fit.          *)
LEMMA PageHasFirst ==
  ASSUME Numbered, NEW S \in SUBSET Messages, IsFiniteSet(S)
  PROVE  LET page == Index!PageOf(S) IN
         /\ page \in Seq(Messages) /\ Len(page) <= Limit
         /\ \A i \in 1 .. Len(page) : page[i] \in S
         /\ \A i, j \in 1 .. Len(page) : i < j => Index!Before(page[i], page[j])
         /\ Cardinality(S) > Limit => Len(page) = Limit
         /\ \A m \in S : \/ \E i \in 1 .. Len(page) : m = page[i]
                         \/ Cardinality(S) > Limit /\ Index!Before(page[Limit], m)
<1> DEFINE page == Index!PageOf(S)
           size == IF Cardinality(S) < Limit THEN Cardinality(S) ELSE Limit
<1>1. /\ Cardinality(S) \in Nat
      /\ \A m \in S : Rank(S, m) \in 0 .. Cardinality(S) - 1
      /\ \A m, n \in S : Rank(S, m) < Rank(S, n) <=> Index!Before(m, n)
      /\ \A m, n \in S : Rank(S, m) = Rank(S, n) => m = n
      /\ \A i \in 0 .. Cardinality(S) - 1 : \E m \in S : Rank(S, m) = i
  BY RanksNumber
<1>2. size \in Nat /\ size <= Limit /\ size <= Cardinality(S)
      /\ (Cardinality(S) > Limit => size = Limit)
      /\ (size < Cardinality(S) => size = Limit /\ Cardinality(S) > Limit)
  BY <1>1 DEF Numbered
<1>3. page = [i \in 1 .. size |-> CHOOSE m \in S : Rank(S, m) = i - 1]
  <2>1. \A m : Index!Cardinality({k \in S : Index!Before(k, m)}) = Rank(S, m)
    BY CountsMessages DEF Rank
  <2>2. Index!Cardinality(S) = Cardinality(S)
    BY CountsMessages
  <2> QED
    BY <2>1, <2>2 DEF Index!PageOf
<1> HIDE DEF page, size
<1>4. \A i \in 1 .. size : page[i] \in S /\ Rank(S, page[i]) = i - 1
  <2> SUFFICES ASSUME NEW i \in 1 .. size
               PROVE  page[i] \in S /\ Rank(S, page[i]) = i - 1
    OBVIOUS
  <2>1. \E m \in S : Rank(S, m) = i - 1
    BY <1>1, <1>2
  <2> QED
    BY <1>3, <2>1
<1>5. page \in Seq(Messages) /\ Len(page) = size
  BY <1>2, <1>3, <1>4
<1>6. \A i, j \in 1 .. size : i < j => Index!Before(page[i], page[j])
  BY <1>1, <1>2, <1>4
<1>7. ASSUME NEW m \in S
      PROVE  \/ \E i \in 1 .. size : m = page[i]
             \/ Cardinality(S) > Limit /\ Index!Before(page[Limit], m)
  <2>1. CASE Rank(S, m) < size
    <3>1. Rank(S, m) + 1 \in 1 .. size /\ (Rank(S, m) + 1) - 1 = Rank(S, m)
      BY <1>1, <1>2, <2>1
    <3>2. Rank(S, page[Rank(S, m) + 1]) = Rank(S, m) /\ page[Rank(S, m) + 1] \in S
      BY <1>4, <3>1
    <3> QED
      BY <1>1, <3>1, <3>2
  <2>2. CASE ~(Rank(S, m) < size)
    <3>1. size = Limit /\ Cardinality(S) > Limit /\ Limit \in 1 .. size /\ Limit \in Nat
      BY <1>1, <1>2, <2>2 DEF Numbered
    <3>2. page[Limit] \in S /\ Rank(S, page[Limit]) = Limit - 1
      BY <1>4, <3>1
    <3>3. Rank(S, page[Limit]) < Rank(S, m)
      BY <1>1, <2>2, <3>1, <3>2
    <3> QED
      BY <1>1, <3>1, <3>2, <3>3
  <2> QED
    BY <2>1, <2>2
<1> QED
  BY <1>2, <1>4, <1>5, <1>6, <1>7 DEF page

NewestFirst(s) == \A i, j \in 1 .. Len(s) : i < j => Index!Before(s[i], s[j])

(* A reader has got all that was there up to the cursor, in order.           *)
Read ==
  /\ got \in Seq(Messages) /\ NewestFirst(got)
  /\ want \subseteq records
  /\ paging = "none" => cursor = 0 /\ got = <<>>
  /\ paging = "more" =>
       /\ got # <<>> /\ cursor = got[Len(got)]
       /\ \A m \in want : m \in Index!Listed(got) \/ Index!Before(cursor, m)
  /\ paging = "complete" => want \subseteq Index!Listed(got)

(* What is missing in the file, and what the next append will cost, the      *)
(* deaths have paid for.                                                   *)
Torn == IF torn THEN 1 ELSE 0

Loss ==
  /\ deaths \in Nat /\ torn \in BOOLEAN
  /\ lines \subseteq Messages /\ IsFiniteSet(lines)
  /\ records \subseteq Messages /\ IsFiniteSet(records)
  /\ Cardinality(records \ lines) + Torn <= deaths

IndexInv ==
  /\ Numbered /\ Read /\ Loss
  /\ ~running => records = {} /\ paging = "none"

(* Nothing is read or lost yet.                                             *)
LEMMA InitIndex ==
  ASSUME Numbered, Index!Init
  PROVE  IndexInv
<1>1. Read
  BY DEF Index!Init, Read, NewestFirst
<1>2. Loss
  <2>1. records \ lines = {} /\ Cardinality({}) = 0 /\ IsFiniteSet({})
    BY FS_EmptySet DEF Index!Init
  <2>2. ~torn /\ torn \in BOOLEAN
    BY Zenon DEF Index!Init
  <2> QED
    BY <2>1, <2>2 DEF Index!Init, Loss, Torn
<1> QED
  BY <1>1, <1>2 DEF Index!Init, IndexInv

(* A compaction leaves in the file what it leaves in memory.                 *)
LEMMA CompactKeeps ==
  ASSUME NEW S \in SUBSET Messages, IsFiniteSet(S), deaths \in Nat, deaths' = deaths,
         Index!Compact(S)
  PROVE  Loss'
<1>1. PICK R \in SUBSET S : records' = R /\ lines' = R /\ torn' = FALSE
  BY DEF Index!Compact, Index!Retained
<1>2. IsFiniteSet(R) /\ Cardinality({}) = 0
  BY FS_Subset, FS_EmptySet
<1>3. records' \ lines' = {}
  BY <1>1
<1>4. ~torn' /\ torn' \in BOOLEAN
  BY <1>1, Zenon
<1>5. Torn' = 0
  BY <1>4 DEF Torn
<1> QED
  BY <1>1, <1>2, <1>3, <1>4, <1>5 DEF Loss

(* A batch has a first message, and the rest.                                *)
LEMMA BatchIs ==
  ASSUME NEW batch \in Index!Batches
  PROVE  /\ IsFiniteSet(Index!Listed(batch)) /\ Index!Listed(batch) \subseteq Messages
         /\ IsFiniteSet(Index!Listed(Tail(batch)))
         /\ Index!Listed(Tail(batch)) \subseteq Messages
         /\ \E m \in Messages : Index!Listed(batch) \subseteq Index!Listed(Tail(batch)) \cup {m}
<1>1. CASE \E m \in Messages : batch = <<m>>
  <2>1. PICK m \in Messages : batch = <<m>>
    BY <1>1
  <2>2. Index!Listed(batch) = {m} /\ Index!Listed(Tail(batch)) = {}
    BY <2>1 DEF Index!Listed
  <2> QED
    BY SMTT(30), <2>2, FS_EmptySet, FS_Singleton
<1>2. CASE \E m, n \in Messages : batch = <<m, n>>
  <2>1. PICK m \in Messages, n \in Messages : batch = <<m, n>>
    BY <1>2
  <2>2. Len(batch) = 2 /\ batch[1] = m /\ batch[2] = n
        /\ Len(Tail(batch)) = 1 /\ Tail(batch)[1] = n
    BY <2>1
  <2>3. Index!Listed(batch) = {m, n} /\ Index!Listed(Tail(batch)) = {n}
    <3>1. 1 .. 2 = {1, 2} /\ 1 .. 1 = {1}
      OBVIOUS
    <3>2. Index!Listed(batch) = {batch[i] : i \in {1, 2}}
      BY <2>2, <3>1 DEF Index!Listed
    <3>3. Index!Listed(Tail(batch)) = {Tail(batch)[i] : i \in {1}}
      BY <2>2, <3>1 DEF Index!Listed
    <3> QED
      BY <2>2, <3>2, <3>3
  <2>4. IsFiniteSet({n}) /\ {m, n} = {n} \cup {m}
    BY FS_Singleton
  <2>5. IsFiniteSet({m, n})
    BY <2>4, FS_AddElement
  <2> QED
    BY <2>3, <2>4, <2>5
<1> QED
  BY <1>1, <1>2 DEF Index!Batches

(* What is appended is in the file, but for one message behind a torn line.  *)
LEMMA AppendLoses ==
  ASSUME Loss, NEW batch \in Index!Batches, deaths' = deaths,
         records' = records \cup Index!Listed(batch),
         lines' = Index!AppendedTo(batch), torn' = Index!TornAfter
  PROVE  Loss'
<1>1. /\ IsFiniteSet(Index!Listed(batch)) /\ Index!Listed(batch) \subseteq Messages
      /\ IsFiniteSet(Index!Listed(Tail(batch)))
      /\ Index!Listed(Tail(batch)) \subseteq Messages
  BY BatchIs
<1>2. PICK m \in Messages : Index!Listed(batch) \subseteq Index!Listed(Tail(batch)) \cup {m}
  BY BatchIs
<1>3. IsFiniteSet(records') /\ records' \subseteq Messages
  BY <1>1, FS_Union DEF Loss
<1>4. IsFiniteSet(lines') /\ lines' \subseteq Messages
  BY <1>1, FS_Union DEF Loss, Index!AppendedTo
<1>5. IsFiniteSet(records \ lines) /\ Cardinality(records \ lines) \in Nat
  BY FS_Difference, FS_CardinalityType DEF Loss
<1>6. Cardinality(records' \ lines') <= Cardinality(records \ lines) + Torn
  <2>1. CASE torn
    <3>1. (records' \ lines') \in SUBSET ((records \ lines) \cup {m})
      BY <1>2, <2>1 DEF Index!AppendedTo
    <3>2. /\ IsFiniteSet((records \ lines) \cup {m})
          /\ Cardinality((records \ lines) \cup {m}) <= Cardinality(records \ lines) + 1
          /\ Cardinality((records \ lines) \cup {m}) \in Nat
      <4> DEFINE missing == records \ lines
      <4>1. IsFiniteSet(missing) /\ Cardinality(missing) \in Nat
        BY <1>5
      <4> HIDE DEF missing
      <4>2. /\ IsFiniteSet(missing \cup {m})
            /\ Cardinality(missing \cup {m})
                 = IF m \in missing THEN Cardinality(missing) ELSE Cardinality(missing) + 1
        BY <4>1, FS_AddElement
      <4>3. /\ Cardinality(missing \cup {m}) <= Cardinality(missing) + 1
            /\ Cardinality(missing \cup {m}) \in Nat
        BY <4>1, <4>2
      <4> QED
        BY <4>2, <4>3 DEF missing
    <3>3. /\ Cardinality(records' \ lines') <= Cardinality((records \ lines) \cup {m})
          /\ IsFiniteSet(records' \ lines')
      BY <3>1, <3>2, FS_Subset
    <3>4. Cardinality(records' \ lines') \in Nat
      BY <3>3, FS_CardinalityType
    <3> QED
      BY <1>5, <2>1, <3>2, <3>3, <3>4 DEF Torn
  <2>2. CASE ~torn
    <3>1. (records' \ lines') \in SUBSET (records \ lines)
      BY <2>2 DEF Index!AppendedTo
    <3>2. Cardinality(records' \ lines') <= Cardinality(records \ lines)
      BY <1>5, <3>1, FS_Subset
    <3> QED
      BY <1>5, <2>2, <3>2 DEF Torn
  <2> QED
    BY <2>1, <2>2
<1>7. IsFiniteSet(records' \ lines')
  BY <1>3, FS_Difference
<1>8. Cardinality(records' \ lines') \in Nat
  BY <1>7, FS_CardinalityType
<1>9. ~torn' /\ torn' \in BOOLEAN
  BY Zenon DEF Index!TornAfter
<1>10. Torn' = 0 /\ Torn \in Nat
  BY <1>9 DEF Torn
<1>11. Cardinality(records' \ lines') + Torn' <= deaths'
  BY <1>5, <1>6, <1>8, <1>10 DEF Loss
<1> QED
  BY <1>3, <1>4, <1>9, <1>11 DEF Loss

(* The next page goes on where the last one ended.                           *)
LEMMA PageKeeps ==
  ASSUME IndexInv, Index!Page
  PROVE  Read'
<1> DEFINE found == {m \in records : cursor = 0 \/ Index!After(m, cursor)}
           page == Index!PageOf(found)
<1>1. /\ paging \in {"none", "more"} /\ records' = records /\ running' = running
  BY DEF Index!Page
<1>2. found \in SUBSET Messages /\ IsFiniteSet(found) /\ Cardinality(found) \in Nat
  <2>1. found \in SUBSET records /\ records \subseteq Messages /\ IsFiniteSet(records)
    BY DEF IndexInv, Loss
  <2>2. IsFiniteSet(found)
    BY <2>1, FS_Subset
  <2> QED
    BY <2>1, <2>2, FS_CardinalityType
<1>3. CASE cursor \notin records \cup {0}
  <2>1. paging' = "refused" /\ UNCHANGED <<cursor, want, got>>
    BY <1>3 DEF Index!Page
  <2> QED
    BY <1>1, <2>1 DEF IndexInv, Read, NewestFirst, Index!Before
<1>4. CASE cursor \in records \cup {0}
  <2>1. /\ got' = got \o page
        /\ want' = IF paging = "none" THEN records ELSE want
        /\ paging' = IF Cardinality(found) > Limit THEN "more" ELSE "complete"
        /\ cursor' = IF Cardinality(found) > Limit THEN page[Limit] ELSE 0
    BY <1>4, CountsMessages DEF Index!Page
  <2>2. /\ page \in Seq(Messages) /\ Len(page) <= Limit
        /\ \A i \in 1 .. Len(page) : page[i] \in found
        /\ \A i, j \in 1 .. Len(page) : i < j => Index!Before(page[i], page[j])
        /\ Cardinality(found) > Limit => Len(page) = Limit
        /\ \A m \in found : \/ \E i \in 1 .. Len(page) : m = page[i]
                            \/ Cardinality(found) > Limit /\ Index!Before(page[Limit], m)
    BY <1>2, PageHasFirst DEF IndexInv
  <2>3. Limit \in Nat \ {0} /\ Len(page) \in Nat /\ 0 \notin Messages
    BY <2>2 DEF IndexInv, Numbered
  <2>4. /\ got \in Seq(Messages) /\ Len(got) \in Nat
        /\ got' \in Seq(Messages) /\ Len(got') = Len(got) + Len(page)
        /\ \A i \in 1 .. Len(got) : got'[i] = got[i]
        /\ \A i \in 1 .. Len(page) : got'[Len(got) + i] = page[i]
        /\ \A i \in 1 .. Len(got') : i <= Len(got) \/ (i - Len(got) \in 1 .. Len(page) /\ got'[i] = page[i - Len(got)])
    BY <2>1, <2>2 DEF IndexInv, Read
  <2> HIDE DEF page
  <2>5. ASSUME NEW i \in 1 .. Len(got)
        PROVE  paging = "more" /\ got[i] \in Messages /\ (got[i] = cursor \/ Index!Before(got[i], cursor))
    <3>1. paging = "more"
      BY <1>1, <2>5 DEF IndexInv, Read
    <3>2. got[i] \in Messages
      BY <2>4
    <3>3. i = Len(got) \/ i < Len(got)
      BY <2>4
    <3>4. cursor = got[Len(got)] /\ Len(got) \in 1 .. Len(got)
      BY <2>4, <3>1 DEF IndexInv, Read
    <3>5. i < Len(got) => Index!Before(got[i], got[Len(got)])
      BY <3>4 DEF IndexInv, Read, NewestFirst
    <3> QED
      BY <3>1, <3>2, <3>3, <3>4, <3>5
  <2>6. paging = "more" => /\ cursor \in Messages /\ cursor # 0
                           /\ \A m \in found : Index!Before(cursor, m)
    <3>1. paging = "more" => Len(got) \in 1 .. Len(got) /\ cursor = got[Len(got)]
      BY <2>4 DEF IndexInv, Read
    <3> QED
      BY <2>3, <2>5, <3>1 DEF Index!After
  <2>7. \A i \in 1 .. Len(got), j \in 1 .. Len(page) : Index!Before(got[i], page[j])
    <3> SUFFICES ASSUME NEW i \in 1 .. Len(got), NEW j \in 1 .. Len(page)
                 PROVE  Index!Before(got[i], page[j])
      OBVIOUS
    <3>1. paging = "more" /\ got[i] \in Messages /\ (got[i] = cursor \/ Index!Before(got[i], cursor))
      BY <2>5
    <3>2. page[j] \in found /\ page[j] \in Messages
      BY <1>2, <2>2
    <3>3. cursor \in Messages /\ Index!Before(cursor, page[j])
      BY <2>6, <3>1, <3>2
    <3> QED
      BY <3>1, <3>2, <3>3, MessagesInOrder DEF IndexInv
  <2>8. NewestFirst(got)'
    <3>1. ASSUME NEW i \in 1 .. Len(got'), NEW j \in 1 .. Len(got'), i < j
          PROVE  Index!Before(got'[i], got'[j])
      <4>1. CASE j <= Len(got)
        <5>1. i \in 1 .. Len(got) /\ j \in 1 .. Len(got)
          BY <2>4, <3>1, <4>1
        <5> QED
          BY <2>4, <3>1, <5>1 DEF IndexInv, Read, NewestFirst
      <4>2. CASE i <= Len(got) /\ ~(j <= Len(got))
        <5>1. i \in 1 .. Len(got) /\ j - Len(got) \in 1 .. Len(page) /\ got'[j] = page[j - Len(got)]
          BY <2>4, <3>1, <4>2
        <5> QED
          BY <2>4, <2>7, <5>1
      <4>3. CASE ~(i <= Len(got))
        <5>1. /\ i - Len(got) \in 1 .. Len(page) /\ got'[i] = page[i - Len(got)]
              /\ j - Len(got) \in 1 .. Len(page) /\ got'[j] = page[j - Len(got)]
              /\ i - Len(got) < j - Len(got)
          BY <2>4, <3>1, <4>3
        <5> QED
          BY <2>2, <5>1
      <4> QED
        BY <4>1, <4>2, <4>3
    <3> QED
      BY <3>1 DEF NewestFirst, Index!Before
  <2>9. ASSUME NEW m \in want'
        PROVE  /\ m \in records
               /\ m \in Index!Listed(got') \/ (Cardinality(found) > Limit /\ Index!Before(page[Limit], m))
    <3>1. m \in records /\ (m \in Index!Listed(got) \/ m \in found)
      <4>1. CASE paging = "none"
        BY <1>1, <2>1, <4>1 DEF IndexInv, Read
      <4>2. CASE paging = "more"
        BY <1>1, <2>1, <4>2 DEF IndexInv, Read, Index!After
      <4> QED
        BY <1>1, <4>1, <4>2
    <3>2. m \in Index!Listed(got) => m \in Index!Listed(got')
      BY <2>3, <2>4 DEF Index!Listed
    <3>3. ASSUME NEW i \in 1 .. Len(page) PROVE page[i] \in Index!Listed(got')
      <4>1. Len(got) + i \in 1 .. Len(got')
        BY <2>3, <2>4
      <4> QED
        BY <2>4, <4>1 DEF Index!Listed
    <3> QED
      BY <2>2, <3>1, <3>2, <3>3
  <2>10. paging' = "more" => got' # <<>> /\ cursor' = got'[Len(got')]
    <3> SUFFICES ASSUME paging' = "more"
                 PROVE  got' # <<>> /\ cursor' = got'[Len(got')]
      OBVIOUS
    <3>1. Cardinality(found) > Limit /\ Len(page) = Limit
      BY <2>1, <2>2
    <3>2. Len(got') = Len(got) + Limit /\ Limit \in 1 .. Len(page)
      BY <2>3, <2>4, <3>1
    <3> QED
      BY <2>1, <2>3, <2>4, <3>1, <3>2
  <2>11. paging' = "more" => \A m \in want' : m \in Index!Listed(got') \/ Index!Before(cursor', m)
    BY <2>1, <2>9
  <2>12. paging' = "complete" => want' \subseteq Index!Listed(got')
    BY <2>1, <2>9
  <2>13. paging' # "none"
    BY <2>1
  <2>14. \A s : Index!Listed(s)' = Index!Listed(s')
    BY DEF Index!Listed
  <2> QED
    BY <1>1, <2>4, <2>8, <2>9, <2>10, <2>11, <2>12, <2>13
       DEF Read, Index!Listed, Index!Before
<1> QED
  BY <1>3, <1>4

(* Every step keeps what a reader has got, and pays for what is lost.        *)
LEMMA StepIndex == IndexInv /\ [Index!Next]_(Index!indexVars) => IndexInv'
<1> SUFFICES ASSUME IndexInv, [Index!Next]_(Index!indexVars)
             PROVE  IndexInv'
  OBVIOUS
<1>1. ASSUME NEW batch \in Index!Batches, Index!Add(batch)
      PROVE  IndexInv'
  <2> DEFINE all == records \cup Index!Listed(batch)
  <2>1. /\ running /\ running' = running /\ deaths' = deaths
        /\ want' = want \cap records' /\ UNCHANGED <<paging, cursor, got>>
        /\ IF Index!OverRetention(all) THEN Index!Compact(all)
           ELSE records' = all /\ lines' = Index!AppendedTo(batch) /\ torn' = Index!TornAfter
    BY <1>1 DEF Index!Add
  <2>2. all \in SUBSET Messages /\ IsFiniteSet(all)
    BY BatchIs, FS_Union DEF IndexInv, Loss
  <2>3. Loss'
    <3>1. CASE Index!OverRetention(all)
      BY <2>1, <2>2, <3>1, CompactKeeps DEF IndexInv, Loss
    <3>2. CASE ~Index!OverRetention(all)
      BY <2>1, <3>2, AppendLoses DEF IndexInv
    <3> QED
      BY <3>1, <3>2
  <2>4. Read'
    BY <2>1 DEF IndexInv, Read, NewestFirst, Index!Before, Index!Listed
  <2> QED
    BY <2>1, <2>3, <2>4 DEF IndexInv, Numbered
<1>2. CASE Index!Die
  <2>1. /\ running' = FALSE /\ records' = {} /\ paging' = "none" /\ cursor' = 0
        /\ want' = {} /\ got' = <<>> /\ deaths' = deaths + 1 /\ torn' \in {torn, TRUE}
        /\ lines' = lines \/ \E m \in Messages : lines' = Index!AppendedTo(<<m>>)
    BY <1>2 DEF Index!Die, Index!file
  <2>2. lines' \subseteq Messages /\ IsFiniteSet(lines')
    <3>1. ASSUME NEW m \in Messages, lines' = Index!AppendedTo(<<m>>)
          PROVE  lines' \subseteq Messages /\ IsFiniteSet(lines')
      <4>1. <<m>> \in Index!Batches
        BY DEF Index!Batches
      <4> QED
        BY <3>1, <4>1, BatchIs, FS_Union DEF Index!AppendedTo, IndexInv, Loss
    <3> QED
      BY <2>1, <3>1 DEF IndexInv, Loss
  <2>3. Loss'
    <3>1. records' \ lines' = {} /\ Cardinality({}) = 0 /\ IsFiniteSet({})
      BY <2>1, FS_EmptySet
    <3>2. deaths \in Nat /\ torn' \in BOOLEAN
      BY <2>1 DEF IndexInv, Loss
    <3>3. (records \ lines)' = {}
      BY <3>1
    <3> QED
      BY <2>1, <2>2, <3>1, <3>2, <3>3 DEF Loss, Torn
  <2>4. Read'
    BY <2>1 DEF Read, NewestFirst
  <2> QED
    BY <2>1, <2>3, <2>4 DEF IndexInv, Numbered
<1>3. CASE Index!Load
  <2>1. /\ ~running /\ running' = TRUE /\ deaths' = deaths
        /\ UNCHANGED <<paging, cursor, want, got>>
        /\ IF Index!OverRetention(lines) THEN Index!Compact(lines)
           ELSE records' = lines /\ lines' = lines /\ torn' = torn
    BY <1>3 DEF Index!Load, Index!reader, Index!file
  <2>2. Loss'
    <3>1. CASE Index!OverRetention(lines)
      BY <2>1, <3>1, CompactKeeps DEF IndexInv, Loss
    <3>2. CASE ~Index!OverRetention(lines)
      <4>1. records' \ lines' = {} /\ records \ lines = {}
        BY <2>1, <3>2 DEF IndexInv
      <4> QED
        BY <2>1, <3>2, <4>1 DEF IndexInv, Loss, Torn
    <3> QED
      BY <3>1, <3>2
  <2>3. want = {}
    BY <2>1 DEF IndexInv, Read
  <2>4. Read'
    BY <2>1, <2>3 DEF IndexInv, Read, NewestFirst, Index!Before, Index!Listed
  <2> QED
    BY <2>1, <2>2, <2>4 DEF IndexInv, Numbered
<1>4. CASE Index!Page
  <2>1. running /\ UNCHANGED <<lines, torn, records, running, deaths>>
    BY <1>4 DEF Index!Page, Index!file
  <2>2. Loss'
    BY <2>1 DEF IndexInv, Loss, Torn
  <2> QED
    BY <1>4, <2>1, <2>2, PageKeeps DEF IndexInv, Numbered
<1>5. CASE UNCHANGED Index!indexVars
  <2>1. UNCHANGED <<lines, torn, records, running, deaths, paging, cursor, want, got>>
    BY <1>5 DEF Index!indexVars, Index!file, Index!reader
  <2>2. Loss'
    BY <2>1 DEF IndexInv, Loss, Torn
  <2>3. Read'
    BY <2>1 DEF IndexInv, Read, NewestFirst, Index!Before, Index!Listed
  <2> QED
    BY <2>1, <2>2, <2>3 DEF IndexInv, Numbered
<1> QED
  BY <1>1, <1>2, <1>3, <1>4, <1>5 DEF Index!Next

(* The index stays true.                                                     *)
LEMMA IndexAlways == Extensions => []IndexInv
<1>1. ExtensionsInit => IndexInv
  BY InitIndex, ExtensionsAssumption DEF ExtensionsInit, Numbered
<1>2. IndexInv /\ [ExtensionsNext]_everything => IndexInv'
  BY StepIndex, OneAtATime
<1> QED
  BY <1>1, <1>2, PTL DEF Extensions

(* "without losing timestamp ties": a reader that is told that it has all    *)
(* pages has every message that was there all the time, once and in order,   *)
(* whatever arrived or was compacted away meanwhile; and a death of the     *)
(* worker costs one record at most.                                        *)
THEOREM ListingsAreTrue == Extensions => []IndexTrue
<1>1. IndexInv => IndexTrue
  <2> SUFFICES ASSUME IndexInv PROVE IndexTrue
    OBVIOUS
  <2>1. Index!PagesComplete
    BY DEF IndexInv, Read, NewestFirst, Index!PagesComplete
  <2>2. Index!LossBounded
    <3>1. IsFiniteSet(records \ lines)
      BY FS_Difference DEF IndexInv, Loss
    <3>2. Cardinality(records \ lines) \in Nat
      BY <3>1, FS_CardinalityType
    <3> QED
      BY <3>2, CountsMessages DEF IndexInv, Loss, Torn, Index!LossBounded
  <2> QED
    BY <2>1, <2>2 DEF IndexTrue, Index!IndexTrue
<1> QED
  BY <1>1, IndexAlways, PTL

------------------------------------------------------------------------------
(***************************************************************************)
(* What was put into the prompt is still there until Pi is given it or it is *)
(* refused, for any number of files, texts and messages.                   *)
(***************************************************************************)

(* What may be attached was pasted, and has a number of its own.             *)
Attachable ==
  /\ pending \subseteq Prompt!Placeholder /\ nextNumber \in Nat
  /\ pasted \subseteq Prompt!Placeholder
  /\ images \subseteq pasted /\ pending \subseteq pasted
  /\ \A p \in pending : p.number < nextNumber
  /\ \A p, q \in pending : p.number = q.number \/ p.file = q.file => p = q

(* A placeholder in the editor can be attached, or its file was detached.    *)
ShownIsAttachable == \A p \in images : p \in pending \/ p.file \in wiped

(* A message that Pi has not announced has all its files still attached; one *)
(* whose files are read has taken those of its placeholders.                *)
Whole(m) ==
  /\ m.images \subseteq Prompt!Placeholder
  /\ m.step = "submitted" /\ ~m.cut => m.images \subseteq pending
  /\ m.step = "reading" /\ ~m.cut => m.attached = Prompt!FilesIn(m.images)

MessagesWhole ==
  sending \in Seq(Prompt!Message) /\ \A i \in 1 .. Len(sending) : Whole(sending[i])

TextsIn(messages) == {messages[i].text : i \in 1 .. Len(messages)}

PromptInv ==
  /\ Attachable /\ ShownIsAttachable /\ MessagesWhole
  /\ parked = storedDraft /\ Prompt!NoTextLost

(* The editor is empty.                                                     *)
LEMMA InitPrompt == Prompt!Init => PromptInv
<1> SUFFICES ASSUME Prompt!Init PROVE PromptInv
  OBVIOUS
<1>1. Attachable /\ ShownIsAttachable
  BY DEF Prompt!Init, Attachable, ShownIsAttachable, Prompt!FilesIn
<1>2. MessagesWhole
  BY DEF Prompt!Init, MessagesWhole
<1> QED
  BY <1>1, <1>2 DEF Prompt!Init, PromptInv, Prompt!NoTextLost

(* Cut leaves the messages what they are, and marks those that lack a file.  *)
LEMMA CutMarks ==
  ASSUME NEW messages \in Seq(Prompt!Message), NEW only
  PROVE  /\ Prompt!Cut(messages, only) \in Seq(Prompt!Message)
         /\ Len(Prompt!Cut(messages, only)) = Len(messages)
         /\ \A i \in 1 .. Len(messages) :
              LET m == messages[i]
                  n == Prompt!Cut(messages, only)[i]
              IN /\ n.images = m.images /\ n.step = m.step /\ n.attached = m.attached
                 /\ n.text = m.text
                 /\ ~n.cut => ~m.cut /\ (m.step = "submitted" => Prompt!FilesIn(m.images) \subseteq only)
<1> DEFINE new(i) == [messages[i] EXCEPT !.cut = @ \/ (messages[i].step = "submitted"
                                   /\ ~(Prompt!FilesIn(messages[i].images) \subseteq only))]
<1>1. ASSUME NEW i \in 1 .. Len(messages)
      PROVE  /\ new(i) \in Prompt!Message
             /\ new(i).images = messages[i].images /\ new(i).step = messages[i].step
             /\ new(i).attached = messages[i].attached /\ new(i).text = messages[i].text
             /\ ~new(i).cut => /\ ~messages[i].cut
                               /\ messages[i].step = "submitted" =>
                                    Prompt!FilesIn(messages[i].images) \subseteq only
  <2>1. messages[i] \in Prompt!Message
    OBVIOUS
  <2> DEFINE c == messages[i].cut \/ (messages[i].step = "submitted"
                                   /\ ~(Prompt!FilesIn(messages[i].images) \subseteq only))
  <2>2. c \in BOOLEAN
    BY Zenon
  <2>3. new(i) = [messages[i] EXCEPT !.cut = c]
    OBVIOUS
  <2> HIDE DEF c, new
  <2>4. /\ new(i) \in Prompt!Message
        /\ new(i).images = messages[i].images /\ new(i).step = messages[i].step
        /\ new(i).attached = messages[i].attached /\ new(i).cut = c
        /\ new(i).text = messages[i].text
    BY <2>1, <2>2, <2>3 DEF Prompt!Message
  <2> QED
    BY <2>4, Zenon DEF c
<1>2. Prompt!Cut(messages, only) = [i \in 1 .. Len(messages) |-> new(i)]
  BY DEF Prompt!Cut
<1> HIDE DEF new
<1> QED
  BY <1>1, <1>2

(* What goes on without the files that are not kept.                         *)
LEMMA DetachedKeeps ==
  ASSUME Attachable, NEW messages \in Seq(Prompt!Message),
         \A i \in 1 .. Len(messages) : Whole(messages[i]),
         pending' \subseteq pending,
         sending' = Prompt!Cut(messages, Prompt!FilesIn(pending'))
  PROVE  MessagesWhole' /\ TextsIn(sending)' = TextsIn(messages)
<1>1. /\ sending' \in Seq(Prompt!Message) /\ Len(sending') = Len(messages)
      /\ \A i \in 1 .. Len(messages) :
           /\ sending'[i].images = messages[i].images /\ sending'[i].step = messages[i].step
           /\ sending'[i].attached = messages[i].attached
           /\ sending'[i].text = messages[i].text
           /\ ~sending'[i].cut =>
                /\ ~messages[i].cut
                /\ messages[i].step = "submitted" =>
                     Prompt!FilesIn(messages[i].images) \subseteq Prompt!FilesIn(pending')
  BY CutMarks
<1>2. ASSUME NEW i \in 1 .. Len(sending')
      PROVE  Whole(sending[i])'
  <2>1. Whole(messages[i]) /\ i \in 1 .. Len(messages)
    BY <1>1
  <2>2. ASSUME sending'[i].step = "submitted", ~sending'[i].cut
        PROVE  sending'[i].images \subseteq pending'
    <3>1. /\ messages[i].images \subseteq pending
          /\ Prompt!FilesIn(messages[i].images) \subseteq Prompt!FilesIn(pending')
      BY <1>1, <2>1, <2>2 DEF Whole
    <3>2. ASSUME NEW p \in messages[i].images PROVE p \in pending'
      <4>1. PICK q \in pending' : q.file = p.file
        BY <3>1 DEF Prompt!FilesIn
      <4> QED
        BY <3>1, <4>1 DEF Attachable
    <3> QED
      BY <1>1, <2>1, <3>2
  <2> QED
    BY <1>1, <2>1, <2>2 DEF Whole, Prompt!Placeholder, Prompt!FilesIn
<1>3. TextsIn(sending)' = TextsIn(messages)
  BY <1>1 DEF TextsIn
<1> QED
  BY <1>1, <1>2, <1>3 DEF MessagesWhole

(* Detaching files keeps what is attached apart, and marks messages cut.     *)
LEMMA DetachKeeps ==
  ASSUME PromptInv, NEW kept \in SUBSET pending, Prompt!Detached(kept),
         images' \subseteq images \cup pasted, UNCHANGED <<nextNumber, pasted>>
  PROVE  Attachable' /\ MessagesWhole' /\ TextsIn(sending)' = TextsIn(sending)
<1>1. pending' = kept /\ sending' = Prompt!Cut(sending, Prompt!FilesIn(kept))
  BY DEF Prompt!Detached
<1>2. MessagesWhole' /\ TextsIn(sending)' = TextsIn(sending)
  BY <1>1, DetachedKeeps DEF PromptInv, MessagesWhole
<1>3. Attachable'
  BY <1>1 DEF PromptInv, Attachable, Prompt!FilesIn, Prompt!Placeholder
<1> QED
  BY <1>2, <1>3

(* The parts of two sequences put together.                                  *)
LEMMA Concatenated ==
  ASSUME NEW S, NEW s \in Seq(S), NEW t \in Seq(S)
  PROVE  /\ s \o t \in Seq(S) /\ Len(s \o t) = Len(s) + Len(t)
         /\ \A j \in 1 .. Len(s) + Len(t) :
              (s \o t)[j] = IF j <= Len(s) THEN s[j] ELSE t[j - Len(s)]
OBVIOUS

(* What is left of a sequence without one element is in the sequence, and all *)
(* the others are left.                                                     *)
LEMMA RestIsPart ==
  ASSUME NEW S, NEW s \in Seq(S), NEW i \in 1 .. Len(s)
  PROVE  LET rest == SubSeq(s, 1, i - 1) \o SubSeq(s, i + 1, Len(s))
         IN  /\ rest \in Seq(S)
             /\ \A j \in 1 .. Len(rest) : \E k \in 1 .. Len(s) : rest[j] = s[k]
             /\ \A k \in 1 .. Len(s) : k # i => \E j \in 1 .. Len(rest) : rest[j] = s[k]
<1> DEFINE before == SubSeq(s, 1, i - 1)
           after == SubSeq(s, i + 1, Len(s))
           rest == before \o after
<1>1. before \in Seq(S) /\ Len(before) = i - 1 /\ \A j \in 1 .. i - 1 : before[j] = s[j]
  OBVIOUS
<1>2. after \in Seq(S) /\ Len(after) = Len(s) - i
  OBVIOUS
<1>3. \A j \in 1 .. Len(s) - i : after[j] = s[i + j]
  OBVIOUS
<1>4. Len(s) \in Nat
  OBVIOUS
<1> HIDE DEF before, after
<1>5. /\ rest \in Seq(S) /\ Len(rest) = Len(before) + Len(after)
      /\ \A j \in 1 .. Len(before) + Len(after) :
           rest[j] = IF j <= Len(before) THEN before[j] ELSE after[j - Len(before)]
  BY <1>1, <1>2, Concatenated
<1> HIDE DEF rest
<1>6. ASSUME NEW j \in 1 .. Len(rest)
      PROVE  \E k \in 1 .. Len(s) : rest[j] = s[k]
  <2>1. j \in 1 .. i - 1 \/ j - (i - 1) \in 1 .. Len(s) - i
    BY <1>1, <1>2, <1>4, <1>5
  <2>2. CASE j \in 1 .. i - 1
    <3>1. rest[j] = s[j] /\ j \in 1 .. Len(s)
      BY <1>1, <1>2, <1>4, <1>5, <2>2
    <3> QED
      BY <3>1
  <2>3. CASE j - (i - 1) \in 1 .. Len(s) - i
    <3>1. rest[j] = after[j - (i - 1)]
      BY <1>1, <1>2, <1>4, <1>5, <2>3
    <3>2. i + (j - (i - 1)) = j + 1 /\ j + 1 \in 1 .. Len(s)
      BY <1>4, <2>3
    <3> QED
      BY <1>3, <2>3, <3>1, <3>2
  <2> QED
    BY <2>1, <2>2, <2>3
<1>7. ASSUME NEW k \in 1 .. Len(s), k # i
      PROVE  \E j \in 1 .. Len(rest) : rest[j] = s[k]
  <2>1. CASE k < i
    <3>1. k \in 1 .. Len(rest) /\ rest[k] = s[k]
      BY <1>1, <1>2, <1>4, <1>5, <2>1
    <3> QED
      BY <3>1
  <2>2. CASE k > i
    <3>1. k - i \in 1 .. Len(s) - i /\ i + (k - i) = k
      BY <1>4, <2>2
    <3>2. k - 1 \in 1 .. Len(rest) /\ (k - 1) - (i - 1) = k - i /\ ~(k - 1 <= i - 1)
      BY <1>1, <1>2, <1>4, <1>5, <2>2
    <3>3. rest[k - 1] = after[k - i]
      BY <1>1, <1>2, <1>5, <3>2
    <3> QED
      BY <1>3, <3>1, <3>2, <3>3
  <2> QED
    BY <1>4, <1>7, <2>1, <2>2
<1> QED
  BY <1>5, <1>6, <1>7 DEF rest, before, after

(* After a reset nothing is attached, and the editor has what was detached.  *)
LEMMA ResetKeeps ==
  ASSUME PromptInv, NEW rest \in Seq(Prompt!Message), Prompt!Reset(rest),
         \A i \in 1 .. Len(rest) : Whole(rest[i]), UNCHANGED <<images, pasted>>
  PROVE  /\ Attachable' /\ ShownIsAttachable' /\ MessagesWhole'
         /\ TextsIn(sending)' = TextsIn(rest)
<1>1. /\ pending' = {} /\ nextNumber' = 1 /\ sending' = Prompt!Cut(rest, {})
      /\ wiped' = Prompt!FilesIn(images)
  BY DEF Prompt!Reset
<1>2. Prompt!FilesIn(pending') = {}
  BY <1>1 DEF Prompt!FilesIn
<1>3. MessagesWhole' /\ TextsIn(sending)' = TextsIn(rest)
  BY <1>1, <1>2, DetachedKeeps DEF PromptInv
<1>4. Attachable' /\ ShownIsAttachable'
  BY <1>1, <1>2 DEF PromptInv, Attachable, ShownIsAttachable, Prompt!FilesIn, Prompt!Placeholder
<1> QED
  BY <1>3, <1>4

(* The texts and files of the prompt are typed.                              *)
TextTypes ==
  /\ MaxTexts \in Nat /\ MaxAppendFailures \in Nat
  /\ {text, storedDraft, aside, texts} \subseteq Prompt!Text /\ wanted \subseteq Prompt!Text
  /\ refused \subseteq Prompt!Text /\ wiped \subseteq Images
  /\ appendFailures \in 0 .. MaxAppendFailures

(* Nothing was typed or pasted.                                              *)
LEMMA InitTextTypes ==
  ASSUME Prompt!Init, MaxTexts \in Nat, MaxAppendFailures \in Nat
  PROVE  TextTypes
  BY DEF Prompt!Init, Prompt!Nothing, Prompt!Text, TextTypes

(* Texts are numbered as they are typed, and files come from the clipboard.   *)
LEMMA StepTextTypes ==
  PromptInv /\ TextTypes /\ [Prompt!Next]_(Prompt!vars) => TextTypes'
<1> SUFFICES ASSUME PromptInv, TextTypes, [Prompt!Next]_(Prompt!vars)
             PROVE  TextTypes'
  OBVIOUS
<1>1. /\ \/ UNCHANGED texts
         \/ texts < MaxTexts /\ texts' = texts + 1
      /\ \/ UNCHANGED appendFailures
         \/ appendFailures < MaxAppendFailures /\ appendFailures' = appendFailures + 1
  BY DEF Prompt!Next, Prompt!vars, Prompt!Type, Prompt!Paste, Prompt!Delete, Prompt!RemoveInPanel,
     Prompt!Restore, Prompt!Toggle, Prompt!Tree, Prompt!Reload, Prompt!Submit, Prompt!Input, Prompt!Read
<1>2. texts \in 0 .. MaxTexts /\ texts' \in 0 .. MaxTexts
  BY <1>1 DEF TextTypes, Prompt!Text
<1>3. /\ {text', storedDraft', aside'} \subseteq {text, storedDraft, aside, texts', 0}
      /\ wanted' \subseteq wanted \cup {texts'}
  BY DEF PromptInv, Prompt!Next, Prompt!vars, Prompt!Type, Prompt!Paste, Prompt!Delete,
     Prompt!RemoveInPanel, Prompt!Restore, Prompt!Toggle, Prompt!Tree, Prompt!Reload,
     Prompt!Submit, Prompt!Input, Prompt!Read, Prompt!Nothing
<1>4. refused' \subseteq refused \cup TextsIn(sending)
  BY DEF TextsIn, Prompt!Next, Prompt!vars, Prompt!Type, Prompt!Paste, Prompt!Delete,
     Prompt!RemoveInPanel, Prompt!Restore, Prompt!Toggle, Prompt!Tree, Prompt!Reload,
     Prompt!Submit, Prompt!Input, Prompt!Read
<1>5. wiped' \subseteq wiped \cup Prompt!FilesIn(images) \cup Prompt!FilesIn(pasted)
  <2>1. ASSUME NEW p \in images, Prompt!Delete(p)
        PROVE  wiped' \subseteq wiped \cup Prompt!FilesIn(images)
    BY <2>1 DEF Prompt!Delete, Prompt!Forget, Prompt!FilesIn
  <2>2. ASSUME NEW p \in pending, Prompt!RemoveInPanel(p)
        PROVE  wiped' \subseteq wiped
    BY <2>2 DEF Prompt!RemoveInPanel, Prompt!Forget
  <2>3. ASSUME NEW p \in pasted, Prompt!Restore(p)
        PROVE  wiped' \subseteq wiped \cup Prompt!FilesIn(pasted)
    BY <2>3 DEF Prompt!Restore, Prompt!FilesIn
  <2>4. CASE Prompt!Reload
    BY <2>4 DEF Prompt!Reload, Prompt!Reset
  <2>5. ASSUME NEW i \in 1 .. Len(sending), Prompt!Read(i)
        PROVE  wiped' \subseteq Prompt!FilesIn(images)
    BY <2>5 DEF Prompt!Read, Prompt!Reset
  <2>6. CASE Prompt!Submit
    BY <2>6 DEF Prompt!Submit
  <2>7. ASSUME \/ Prompt!Type \/ Prompt!Toggle \/ Prompt!Tree \/ UNCHANGED Prompt!vars
               \/ (\E f \in Images : Prompt!Paste(f))
               \/ (\E i \in 1 .. Len(sending) : Prompt!Input(i))
        PROVE  UNCHANGED wiped
    BY <2>7 DEF Prompt!Type, Prompt!Toggle, Prompt!Tree, Prompt!vars, Prompt!Paste, Prompt!Input
  <2> QED
    BY <2>1, <2>2, <2>3, <2>4, <2>5, <2>6, <2>7 DEF Prompt!Next
<1>6. Prompt!FilesIn(images) \subseteq Images /\ Prompt!FilesIn(pasted) \subseteq Images
  BY DEF PromptInv, Attachable, Prompt!FilesIn, Prompt!Placeholder
<1>7. appendFailures' \in 0 .. MaxAppendFailures
  BY <1>1 DEF TextTypes
<1>8. {text', storedDraft', aside', texts'} \subseteq Prompt!Text /\ wanted' \subseteq Prompt!Text
  BY <1>2, <1>3 DEF TextTypes, Prompt!Text
<1>9. TextsIn(sending) \subseteq Prompt!Text
  <2>1. sending \in Seq(Prompt!Message)
    BY DEF PromptInv, MessagesWhole
  <2>2. \A i \in 1 .. Len(sending) : sending[i] \in Prompt!Message
    BY <2>1
  <2>3. \A m \in Prompt!Message : m.text \in Prompt!Text
    BY DEF Prompt!Message
  <2> QED
    BY <2>2, <2>3 DEF TextsIn
<1> QED
  BY <1>9, <1>4, <1>5, <1>6, <1>7, <1>8 DEF TextTypes, Prompt!Text

(* Every step keeps texts, placeholders, files and messages together.        *)
LEMMA StepPrompt == PromptInv /\ TextTypes /\ [Prompt!Next]_(Prompt!vars) => PromptInv'
<1> SUFFICES ASSUME PromptInv, TextTypes, [Prompt!Next]_(Prompt!vars)
             PROVE  PromptInv'
  OBVIOUS
<1>1. CASE Prompt!Type
  <2> DEFINE kept == {p \in pending : p.number \in Prompt!Numbers(images)}
  <2>1. /\ Prompt!Detached(kept) /\ UNCHANGED <<images, nextNumber, pasted, wiped>>
        /\ kept \in SUBSET pending
    BY <1>1 DEF Prompt!Type, Prompt!Reconcile
  <2> HIDE DEF kept
  <2>2. Attachable' /\ MessagesWhole' /\ TextsIn(sending)' = TextsIn(sending)
    BY <2>1, DetachKeeps
  <2>3. ShownIsAttachable'
    BY <2>1 DEF kept, PromptInv, ShownIsAttachable, Prompt!Detached, Prompt!Numbers
  <2>4. parked' = storedDraft' /\ Prompt!NoTextLost'
    BY <1>1, <2>2 DEF Prompt!Type, PromptInv, Prompt!NoTextLost, TextsIn
  <2> QED
    BY <2>2, <2>3, <2>4 DEF PromptInv
<1>2. ASSUME NEW f \in Images, Prompt!Paste(f)
      PROVE  PromptInv'
  <2> DEFINE new == [number |-> nextNumber, file |-> f]
  <2>1. /\ images' = images \cup {new} /\ pending' = pending \cup {new}
        /\ nextNumber' = nextNumber + 1 /\ f \notin Prompt!FilesIn(pasted)
        /\ pasted' = pasted \cup (images' \ images)
        /\ UNCHANGED <<text, parked, storedDraft, aside, sending, wiped, wanted, refused>>
    BY <1>2 DEF Prompt!Paste, Prompt!Capture
  <2>2. new \in Prompt!Placeholder /\ new.number = nextNumber /\ new.file = f
    BY DEF Prompt!Placeholder, PromptInv, Attachable
  <2> HIDE DEF new
  <2>3. Attachable'
    <3>1. \A p \in pending : p.file # f /\ p.number \in Nat /\ p.number < nextNumber
      BY <2>1 DEF PromptInv, Attachable, Prompt!FilesIn, Prompt!Placeholder
    <3>2. /\ pasted' \subseteq Prompt!Placeholder /\ images' \subseteq pasted'
          /\ pending' \subseteq pasted'
      <4>1. new \notin images
        BY <2>1, <2>2 DEF PromptInv, Attachable, Prompt!FilesIn
      <4> QED
        BY <2>1, <2>2, <4>1 DEF PromptInv, Attachable
    <3>3. \A p, q \in pending' : p.number = q.number \/ p.file = q.file => p = q
      BY <2>1, <2>2, <3>1 DEF PromptInv, Attachable
    <3>4. nextNumber' \in Nat /\ \A p \in pending' : p.number < nextNumber'
      BY <2>1, <2>2, <3>1 DEF PromptInv, Attachable
    <3> QED
      BY <2>1, <2>2, <3>2, <3>3, <3>4 DEF PromptInv, Attachable, Prompt!FilesIn, Prompt!Placeholder
  <2>4. ShownIsAttachable'
    BY <2>1 DEF PromptInv, ShownIsAttachable
  <2>5. MessagesWhole'
    BY <2>1 DEF PromptInv, MessagesWhole, Whole, Prompt!Message, Prompt!Placeholder, Prompt!FilesIn
  <2> QED
    BY <2>1, <2>3, <2>4, <2>5 DEF PromptInv, Prompt!NoTextLost
<1>3. ASSUME NEW d \in images, Prompt!Delete(d)
      PROVE  PromptInv'
  <2> DEFINE rest == images \ {d}
             same == {p \in rest : p.number = d.number}
             kept == {p \in pending : p.number \in Prompt!Numbers(rest)}
             without == Prompt!Without(d.number)
  <2>1. /\ images' = rest /\ UNCHANGED <<text, parked, storedDraft, aside, nextNumber, pasted, wanted, refused>>
        /\ \/ Prompt!Detached(kept) /\ wiped' = wiped \cap Prompt!FilesIn(rest)
           \/ /\ Prompt!Detached(without)
              /\ wiped' = (wiped \cap Prompt!FilesIn(rest)) \cup Prompt!FilesIn(same)
    BY <1>3 DEF Prompt!Delete, Prompt!Reconcile, Prompt!Forget
  <2>2. kept \in SUBSET pending /\ without \in SUBSET pending /\ rest \subseteq images
    BY DEF Prompt!Without
  <2>3. \A p \in rest : (p \in pending \/ p.file \in wiped) /\ p.file \in Prompt!FilesIn(rest)
                        /\ (p \in pending => p \in kept)
                        /\ (p \in pending => p \in without \/ p.file \in Prompt!FilesIn(same))
    BY DEF PromptInv, ShownIsAttachable, Prompt!FilesIn, Prompt!Numbers, Prompt!Without
  <2> HIDE DEF rest, same, kept, without
  <2>4. Attachable' /\ MessagesWhole' /\ TextsIn(sending)' = TextsIn(sending)
    BY <2>1, <2>2, DetachKeeps
  <2>5. ShownIsAttachable'
    BY <2>1, <2>3 DEF ShownIsAttachable, Prompt!Detached
  <2> QED
    BY <2>1, <2>4, <2>5 DEF PromptInv, Prompt!NoTextLost, TextsIn
<1>4. ASSUME NEW d \in pending, Prompt!RemoveInPanel(d)
      PROVE  PromptInv'
  <2> DEFINE rest == {p \in images : p.number # d.number}
             kept == {p \in Prompt!Without(d.number) : p.number \in Prompt!Numbers(rest)}
  <2>1. /\ images' = rest /\ UNCHANGED <<text, parked, storedDraft, aside, nextNumber, pasted, wanted, refused>>
        /\ Prompt!Detached(kept) /\ wiped' = wiped \cap Prompt!FilesIn(rest)
    BY <1>4 DEF Prompt!RemoveInPanel, Prompt!Forget
  <2>2. kept \in SUBSET pending /\ rest \subseteq images
    BY DEF Prompt!Without
  <2>3. \A p \in rest : (p \in pending \/ p.file \in wiped) /\ p.file \in Prompt!FilesIn(rest)
                        /\ (p \in pending => p \in kept)
    BY DEF PromptInv, ShownIsAttachable, Prompt!FilesIn, Prompt!Numbers, Prompt!Without
  <2> HIDE DEF rest, kept
  <2>4. Attachable' /\ MessagesWhole' /\ TextsIn(sending)' = TextsIn(sending)
    BY <2>1, <2>2, DetachKeeps
  <2>5. ShownIsAttachable'
    BY <2>1, <2>3 DEF ShownIsAttachable, Prompt!Detached
  <2> QED
    BY <2>1, <2>4, <2>5 DEF PromptInv, Prompt!NoTextLost, TextsIn
<1>5. CASE Prompt!Toggle
  <2> DEFINE kept == {p \in pending : p.number \in Prompt!Numbers({})}
  <2>1. images = {} /\ UNCHANGED <<images, aside, nextNumber, pasted, wiped, wanted, refused>>
    BY <1>5 DEF Prompt!Toggle, Prompt!MayPark
  <2>2. CASE storedDraft' = text /\ parked' = text /\ text' = parked /\ Prompt!Reconcile({})
    <3>1. Prompt!Detached(kept) /\ kept \in SUBSET pending
      BY <2>2 DEF Prompt!Reconcile
    <3> HIDE DEF kept
    <3>2. Attachable' /\ MessagesWhole' /\ TextsIn(sending)' = TextsIn(sending)
      BY <2>1, <3>1, DetachKeeps
    <3>3. ShownIsAttachable'
      BY <2>1 DEF ShownIsAttachable
    <3> QED
      BY <2>1, <2>2, <3>2, <3>3 DEF PromptInv, Prompt!NoTextLost, TextsIn
  <2>3. CASE UNCHANGED <<storedDraft, parked, text, pending, sending>>
    BY <2>1, <2>3 DEF PromptInv, Attachable, ShownIsAttachable, MessagesWhole, Whole, Prompt!NoTextLost,
       Prompt!FilesIn, Prompt!Placeholder, Prompt!Message
  <2> QED
    BY <1>5, <2>2, <2>3 DEF Prompt!Toggle
<1>6. CASE Prompt!Tree
  BY <1>6 DEF Prompt!Tree, PromptInv, Attachable, ShownIsAttachable, MessagesWhole, Whole, Prompt!NoTextLost,
     Prompt!FilesIn, Prompt!Placeholder, Prompt!Message
<1>7. CASE Prompt!Reload
  <2>1. /\ Prompt!Reset(<<>>) /\ parked' = storedDraft
        /\ sending = <<>> /\ UNCHANGED <<text, images, storedDraft, aside, pasted, wanted, refused>>
    BY <1>7 DEF Prompt!Reload
  <2>2. <<>> \in Seq(Prompt!Message) /\ \A i \in 1 .. Len(<<>>) : Whole(<<>>[i])
    OBVIOUS
  <2>3. /\ Attachable' /\ ShownIsAttachable' /\ MessagesWhole'
        /\ TextsIn(sending)' = TextsIn(sending)
    BY <2>1, <2>2, ResetKeeps
  <2> QED
    BY <2>1, <2>3 DEF PromptInv, Prompt!NoTextLost, TextsIn
<1>8. CASE Prompt!Submit
  <2> DEFINE m == [text |-> text, images |-> images, step |-> "submitted",
                   attached |-> {}, cut |-> wiped # {}]
  <2>1. /\ sending' = Append(sending, m) /\ images' = {} /\ text' = 0
        /\ UNCHANGED <<parked, storedDraft, aside, pending, nextNumber, pasted, wanted, refused>>
    BY <1>8 DEF Prompt!Submit, Prompt!Nothing
  <2>2. m \in Prompt!Message /\ Whole(m) /\ m.text = text
    <3>1. (wiped # {}) \in BOOLEAN
      OBVIOUS
    <3>2. m \in Prompt!Message /\ m.images = images /\ m.step = "submitted" /\ (m.cut <=> wiped # {})
          /\ m.text = text
      BY <3>1 DEF Prompt!Message, PromptInv, Attachable, TextTypes
    <3> HIDE DEF m
    <3> QED
      BY <3>2 DEF Whole, PromptInv, Attachable, ShownIsAttachable
  <2> HIDE DEF m
  <2>3. MessagesWhole' /\ TextsIn(sending)' = TextsIn(sending) \cup {text}
    <3>1. /\ sending' \in Seq(Prompt!Message) /\ Len(sending') = Len(sending) + 1
          /\ \A i \in 1 .. Len(sending') : sending'[i] = IF i <= Len(sending) THEN sending[i] ELSE m
          /\ Len(sending) \in Nat
      BY <2>1, <2>2 DEF PromptInv, MessagesWhole
    <3>2. \A n : Whole(n)' <=> Whole(n)
      BY <2>1 DEF Whole, Prompt!Placeholder, Prompt!FilesIn
    <3>3. \A i \in 1 .. Len(sending') : Whole(sending'[i])
      BY <2>2, <3>1 DEF PromptInv, MessagesWhole
    <3>4. TextsIn(sending)' = TextsIn(sending) \cup {text}
      BY <2>2, <3>1 DEF TextsIn
    <3> QED
      BY <2>1, <3>1, <3>3, <3>4 DEF MessagesWhole, Whole, Prompt!Placeholder, Prompt!FilesIn, Prompt!Message
  <2>4. Attachable' /\ ShownIsAttachable'
    BY <2>1 DEF PromptInv, Attachable, ShownIsAttachable, Prompt!FilesIn, Prompt!Placeholder
  <2> QED
    BY <2>1, <2>3, <2>4 DEF PromptInv, Prompt!NoTextLost, Prompt!Nothing, TextsIn
<1>9. ASSUME NEW i \in 1 .. Len(sending), Prompt!Input(i)
      PROVE  PromptInv'
  <2> DEFINE chosenFiles == Prompt!FilesIn({p \in pending : p.number \in Prompt!Numbers(sending[i].images)})
  <2>1. /\ sending[i].step = "submitted"
        /\ sending' = [sending EXCEPT ![i].step = "reading", ![i].attached = chosenFiles]
        /\ UNCHANGED <<text, images, parked, storedDraft, aside, pending, nextNumber, pasted,
                       wiped, wanted, refused>>
    BY <1>9 DEF Prompt!Input
  <2>2. chosenFiles \subseteq Images
    BY DEF PromptInv, Attachable, Prompt!FilesIn, Prompt!Placeholder
  <2>3. ~sending[i].cut => chosenFiles = Prompt!FilesIn(sending[i].images)
    <3> SUFFICES ASSUME ~sending[i].cut
                 PROVE  chosenFiles = Prompt!FilesIn(sending[i].images)
      OBVIOUS
    <3>1. sending[i].images \subseteq pending
      BY <2>1 DEF PromptInv, MessagesWhole, Whole
    <3>2. {p \in pending : p.number \in Prompt!Numbers(sending[i].images)} = sending[i].images
      BY <3>1 DEF PromptInv, Attachable, Prompt!Numbers
    <3> QED
      BY <3>2
  <2> HIDE DEF chosenFiles
  <2>4. MessagesWhole' /\ TextsIn(sending)' = TextsIn(sending)
    <3>1. sending \in Seq(Prompt!Message) /\ sending[i] \in Prompt!Message
      BY DEF PromptInv, MessagesWhole
    <3>2. /\ sending' \in Seq(Prompt!Message) /\ Len(sending') = Len(sending)
          /\ \A j \in 1 .. Len(sending) : j # i => sending'[j] = sending[j]
          /\ sending'[i].step = "reading" /\ sending'[i].attached = chosenFiles
          /\ sending'[i].images = sending[i].images /\ sending'[i].cut = sending[i].cut
          /\ sending'[i].text = sending[i].text
      <4> DEFINE m == [sending[i] EXCEPT !.step = "reading", !.attached = chosenFiles]
      <4>1. /\ m \in Prompt!Message /\ m.step = "reading" /\ m.attached = chosenFiles
            /\ m.images = sending[i].images /\ m.cut = sending[i].cut
            /\ m.text = sending[i].text
        BY <2>2, <3>1 DEF Prompt!Message
      <4>2. sending' = [sending EXCEPT ![i] = m]
        BY <2>1
      <4> HIDE DEF m
      <4>3. /\ sending' \in Seq(Prompt!Message) /\ Len(sending') = Len(sending)
            /\ \A j \in 1 .. Len(sending) : sending'[j] = IF j = i THEN m ELSE sending[j]
        BY <3>1, <4>1, <4>2
      <4> QED
        BY <4>1, <4>3
    <3>3. \A j \in 1 .. Len(sending) : Whole(sending[j])
      BY DEF PromptInv, MessagesWhole
    <3>4. \A j \in 1 .. Len(sending') : Whole(sending'[j])
      BY <2>3, <3>2, <3>3 DEF Whole
    <3>5. TextsIn(sending)' = TextsIn(sending)
      BY <3>2 DEF TextsIn
    <3> QED
      BY <2>1, <3>2, <3>4, <3>5 DEF MessagesWhole, Whole, Prompt!Placeholder, Prompt!FilesIn, Prompt!Message
  <2>5. Attachable' /\ ShownIsAttachable'
    BY <2>1 DEF PromptInv, Attachable, ShownIsAttachable, Prompt!FilesIn, Prompt!Placeholder
  <2> QED
    BY <2>1, <2>4, <2>5 DEF PromptInv, Prompt!NoTextLost, TextsIn
<1>10. ASSUME NEW i \in 1 .. Len(sending), Prompt!Read(i)
       PROVE  PromptInv'
  <2> DEFINE rest == SubSeq(sending, 1, i - 1) \o SubSeq(sending, i + 1, Len(sending))
  <2>1. /\ Prompt!Reset(rest) /\ UNCHANGED <<text, images, parked, storedDraft, aside, pasted>>
        /\ \/ wanted' = wanted \ {sending[i].text} /\ UNCHANGED refused
           \/ refused' = refused \cup {sending[i].text} /\ UNCHANGED wanted
    BY <1>10 DEF Prompt!Read, Prompt!RemoveAt
  <2>2. /\ rest \in Seq(Prompt!Message)
        /\ \A j \in 1 .. Len(rest) : \E k \in 1 .. Len(sending) : rest[j] = sending[k]
        /\ \A k \in 1 .. Len(sending) : k # i => \E j \in 1 .. Len(rest) : rest[j] = sending[k]
    <3>1. sending \in Seq(Prompt!Message)
      BY DEF PromptInv, MessagesWhole
    <3> QED
      BY <3>1, RestIsPart
  <2> HIDE DEF rest
  <2>3. \A j \in 1 .. Len(rest) : Whole(rest[j])
    BY <2>2 DEF PromptInv, MessagesWhole
  <2>4. /\ Attachable' /\ ShownIsAttachable' /\ MessagesWhole'
        /\ TextsIn(sending)' = TextsIn(rest)
    BY <2>1, <2>2, <2>3, ResetKeeps
  <2>5. TextsIn(sending) \subseteq TextsIn(rest) \cup {sending[i].text}
    BY <2>2 DEF TextsIn
  <2>6. Prompt!NoTextLost'
    BY <2>1, <2>4, <2>5 DEF PromptInv, Prompt!NoTextLost, TextsIn
  <2> QED
    BY <2>1, <2>4, <2>6 DEF PromptInv
<1>11. ASSUME NEW p \in pasted, Prompt!Restore(p)
       PROVE  PromptInv'
  <2> DEFINE kept == {q \in pending : q.number \in Prompt!Numbers(images')}
  <2>1. /\ images' = images \cup {p} /\ Prompt!Detached(kept)
        /\ wiped' = IF p \in pending THEN wiped ELSE wiped \cup {p.file}
        /\ UNCHANGED <<text, parked, storedDraft, aside, nextNumber, pasted, wanted, refused>>
    BY <1>11 DEF Prompt!Restore, Prompt!Reconcile
  <2>2. \A q \in images' : (q \in kept \/ q.file \in wiped')
    BY <2>1 DEF PromptInv, ShownIsAttachable, Prompt!Numbers
  <2>3. kept \in SUBSET pending
    OBVIOUS
  <2> HIDE DEF kept
  <2>4. Attachable' /\ MessagesWhole' /\ TextsIn(sending)' = TextsIn(sending)
    BY <2>1, <2>3, DetachKeeps
  <2>5. ShownIsAttachable'
    BY <2>1, <2>2 DEF ShownIsAttachable, Prompt!Detached
  <2> QED
    BY <2>1, <2>4, <2>5 DEF PromptInv, Prompt!NoTextLost, TextsIn
<1>12. CASE UNCHANGED Prompt!vars
  BY <1>12 DEF Prompt!vars, PromptInv, Attachable, ShownIsAttachable, MessagesWhole, Whole, Prompt!NoTextLost,
     Prompt!FilesIn, Prompt!Placeholder, Prompt!Message
<1> QED
  BY <1>1, <1>2, <1>3, <1>4, <1>5, <1>6, <1>7, <1>8, <1>9, <1>10, <1>11, <1>12 DEF Prompt!Next

(* The prompt stays in order.                                                *)
LEMMA PromptAlways == Extensions => [](PromptInv /\ TextTypes)
<1>1. ExtensionsInit => PromptInv /\ TextTypes
  BY InitPrompt, InitTextTypes, ExtensionsAssumption DEF ExtensionsInit
<1>2. PromptInv /\ TextTypes /\ [ExtensionsNext]_everything => (PromptInv /\ TextTypes)'
  BY StepPrompt, StepTextTypes, OneAtATime
<1> QED
  BY <1>1, <1>2, PTL DEF Extensions

(* Whatever is pasted, deleted, brought back, parked and sent, a message      *)
(* takes the files whose placeholders stood in it, unless one was detached   *)
(* before; and a text that was not replaced is in the editor, parked or on   *)
(* its way (draft-toggle/index.ts, 53: "a storage failure must not clear the *)
(* editor") until Pi is given it or it is refused with a file that cannot be *)
(* read (image-clipboard/index.ts, 189-192).                                *)
THEOREM NothingIsLost == Extensions => []PromptKept
<1>1. PromptInv => PromptKept
  BY DEF PromptInv, MessagesWhole, Whole, PromptKept, Prompt!PromptKept, Prompt!ImagesAsShown
<1> QED
  BY <1>1, PromptAlways, PTL

------------------------------------------------------------------------------
(***************************************************************************)
(* A session of WhatsApp is about the worker it has, and no two workers run *)
(* on the same credentials, for any number of commands, calls and failures. *)
(***************************************************************************)

Flags == {tool, requested, socket, timer, login} \subseteq BOOLEAN

Ops == {"start", "stop", "reset", "restart"}
Steps == {"none", "begin", "starting", "failed", "stopping", "terminating"}
Mail == [from : Chat!Worker, event : Chat!Event, call : Chat!Call]

(* The operations that wait, and how far the first of them is. *)
FirstGoesOn ==
  /\ ops \in Seq(Ops) /\ step \in Steps /\ (ops = <<>> <=> step = "none")
  /\ commands \in 0 .. MaxCommands /\ Len(ops) <= commands
  /\ asked \in 0 .. MaxCalls /\ calls \subseteq Chat!Call
  /\ Chat!StartCall \in calls => step = "starting"
  /\ step = "starting" => ops[1] \in {"start", "restart"}
  /\ step = "terminating" => worker = Nobody

(* The worker of the session runs alone, and so does the last one until it    *)
(* has ended.                                                              *)
OneThread ==
  /\ worker \in Chat!Worker \cup {Nobody}
  /\ worker # Nobody => threads = {worker}
  /\ threads \subseteq Chat!Worker /\ \A v, w \in threads : v = w

(* What workers, the session and the connection say. *)
Said ==
  /\ mail \in Seq(Mail) /\ serving \in Seq(Chat!Call)
  /\ latest \in Chat!Connection /\ connection \in Chat!Connection

Numbers ==
  MaxCommands \in Nat /\ MaxCalls \in Nat /\ Nobody \notin Nat

ChatInv ==
  /\ Numbers /\ Flags /\ FirstGoesOn /\ OneThread /\ Said
  /\ Chat!NothingPending /\ Chat!NoGhost

(* No operation waits and no worker runs.                                   *)
LEMMA InitChat ==
  ASSUME Numbers, Chat!Init
  PROVE  ChatInv
<1>1. Flags
  BY Zenon DEF Flags, Chat!Init
<1>2. FirstGoesOn
  BY DEF Chat!Init, FirstGoesOn, Steps, Numbers
<1>3. OneThread
  BY DEF Chat!Init, OneThread
<1>4. Said
  BY DEF Chat!Init, Said, Chat!Connection
<1> QED
  BY <1>1, <1>2, <1>3, <1>4 DEF Chat!Init, ChatInv, Chat!NothingPending, Chat!NoGhost

(* The first operation ends.                                                *)
LEMMA ConcludeKeeps ==
  ASSUME ops \in Seq(Ops), ops # <<>>, Chat!Conclude
  PROVE  /\ ops' \in Seq(Ops) /\ Len(ops') = Len(ops) - 1
         /\ step' \in {"none", "begin"} /\ (ops' = <<>> <=> step' = "none")
  BY DEF Chat!Conclude

(* The calls a session makes are calls.                                     *)
LEMMA CallsAre ==
  ASSUME Numbers
  PROVE  /\ Chat!StartCall \in Chat!Call /\ Chat!StopCall \in Chat!Call
         /\ Chat!StopCall # Chat!StartCall
         /\ \A c \in 1 .. MaxCalls : c \in Chat!Call /\ c # Chat!StartCall
  BY DEF Numbers, Chat!StartCall, Chat!StopCall, Chat!Call

(* A running worker posts what is a message of its own.                     *)
LEMMA PostKeeps ==
  ASSUME ChatInv, worker \in threads, NEW e \in Chat!Event, NEW c \in Chat!Call
  PROVE  Chat!Letter(e, c) \in Mail /\ Append(mail, Chat!Letter(e, c)) \in Seq(Mail)
<1>1. worker \in Chat!Worker
  BY DEF ChatInv, OneThread
<1>2. Chat!Letter(e, c) \in Mail
  BY <1>1 DEF Mail, Chat!Letter
<1> QED
  BY <1>2 DEF ChatInv, Said

(* So are a status and what it posts next.                                  *)
LEMMA PostsKeep ==
  ASSUME ChatInv, worker \in threads, NEW s \in Chat!Connection, NEW e \in Chat!Event,
         NEW c \in Chat!Call, Chat!PostThen(s, e, c)
  PROVE  mail' \in Seq(Mail)
<1>1. Chat!Letter(s, Chat!StopCall) \in Mail /\ Chat!Letter(e, c) \in Mail
  BY PostKeeps, CallsAre DEF ChatInv, Chat!Event
<1>2. mail \in Seq(Mail)
  BY DEF ChatInv, Said
<1> QED
  BY <1>1, <1>2 DEF Chat!PostThen

(* What a worker does is not about operations, calls or other workers.       *)
LEMMA WorkerKeeps ==
  ASSUME ChatInv, Flags', mail' \in Seq(Mail), serving' \in Seq(Chat!Call),
         connection' \in Chat!Connection,
         UNCHANGED <<ops, step, worker, threads, latest, calls, commands, asked>>
  PROVE  ChatInv'
<1>1. FirstGoesOn'
  BY DEF ChatInv, FirstGoesOn
<1>2. OneThread'
  BY DEF ChatInv, OneThread
<1>3. Said'
  BY DEF ChatInv, Said, Mail
<1> QED
  BY <1>1, <1>2, <1>3 DEF ChatInv, Numbers, Chat!NothingPending, Chat!NoGhost

(* Every step of a worker.                                                  *)
LEMMA KeepKeeps ==
  ASSUME ChatInv, Chat!Keep \/ Chat!Closed \/ Chat!LoggedOut
  PROVE  ChatInv'
<1>1. ASSUME NEW s \in Chat!Connection, Chat!Status(s), worker \in threads,
             UNCHANGED <<ops, step, worker, threads, latest, tool, calls, serving,
                         commands, asked>>,
             {requested', socket', timer', login'} \subseteq BOOLEAN
      PROVE  ChatInv'
  <2>1. mail' \in Seq(Mail) /\ connection' \in Chat!Connection
    BY <1>1, CallsAre, PostKeeps DEF ChatInv, Chat!Status, Chat!Post, Chat!Event
  <2>2. Flags'
    BY <1>1, Zenon DEF ChatInv, Flags
  <2>3. serving' \in Seq(Chat!Call)
    BY <1>1 DEF ChatInv, Said
  <2> QED
    BY <1>1, <2>1, <2>2, <2>3, WorkerKeeps
<1>2. CASE Chat!Serve
  <2> DEFINE c == Head(serving)
  <2>1. /\ worker \in threads /\ serving # <<>> /\ serving' = Tail(serving)
        /\ \/ Chat!PostThen("connecting", "done", c)
           \/ Chat!PostThen("connecting", "error", c)
           \/ Chat!PostThen("off", "done", c)
           \/ Chat!Answer("done", c) \/ Chat!Answer("error", c)
        /\ connection' \in {"connecting", "off", connection}
        /\ UNCHANGED <<ops, step, worker, threads, latest, tool, calls, login, commands, asked>>
    BY <1>2 DEF Chat!Serve, Chat!Running, Chat!ClientEnds, Chat!client, Chat!session,
                Chat!bounds
  <2>2. c \in Chat!Call /\ serving' \in Seq(Chat!Call)
    BY <2>1 DEF ChatInv, Said
  <2> HIDE DEF c
  <2>3. mail' \in Seq(Mail) /\ connection' \in Chat!Connection
    BY <2>1, <2>2, PostKeeps, PostsKeep
       DEF Chat!Answer, Chat!Event, Chat!Connection, ChatInv, Said
  <2>4. Flags'
    <3>1. /\ requested' = TRUE \/ requested' = FALSE \/ requested' = requested
          /\ socket' = TRUE \/ socket' = FALSE \/ socket' = socket
          /\ timer' = FALSE \/ timer' = timer
          /\ tool' = tool /\ login' = login
      BY <1>2, Zenon DEF Chat!Serve, Chat!ClientEnds, Chat!client, Chat!session
    <3> QED
      BY <3>1, Zenon DEF ChatInv, Flags
  <2> QED
    BY <2>1, <2>2, <2>3, <2>4, WorkerKeeps
<1>3. CASE Chat!Connect
  <2>1. /\ Chat!Status("connecting") /\ worker \in threads
        /\ UNCHANGED <<ops, step, worker, threads, latest, tool, calls, serving, commands, asked>>
    BY <1>3 DEF Chat!Connect, Chat!Running, Chat!session, Chat!bounds
  <2>2. timer' = FALSE /\ socket' \in BOOLEAN /\ requested' = requested /\ login' = login
    BY <1>3, Zenon DEF Chat!Connect
  <2>3. {requested', socket', timer', login'} \subseteq BOOLEAN
    BY <2>2, Zenon DEF ChatInv, Flags
  <2>4. "connecting" \in Chat!Connection
    BY DEF Chat!Connection
  <2> QED
    BY <1>1, <2>1, <2>3, <2>4
<1>4. CASE Chat!Pair
  <2>1. /\ Chat!Status("qr") /\ worker \in threads
        /\ UNCHANGED <<ops, step, worker, threads, latest, tool, calls, serving, commands, asked>>
    BY <1>4 DEF Chat!Pair, Chat!Running, Chat!session, Chat!bounds
  <2>2. timer' = timer /\ socket' = socket /\ requested' = requested /\ login' = login
    BY <1>4, Zenon DEF Chat!Pair
  <2>3. {requested', socket', timer', login'} \subseteq BOOLEAN
    BY <2>2, Zenon DEF ChatInv, Flags
  <2>4. "qr" \in Chat!Connection
    BY DEF Chat!Connection
  <2> QED
    BY <1>1, <2>1, <2>3, <2>4
<1>5. CASE Chat!Open
  <2>1. /\ Chat!Status("connected") /\ worker \in threads
        /\ UNCHANGED <<ops, step, worker, threads, latest, tool, calls, serving, commands, asked>>
    BY <1>5 DEF Chat!Open, Chat!Running, Chat!session, Chat!bounds
  <2>2. timer' = timer /\ socket' = socket /\ requested' = requested /\ login' = TRUE
    BY <1>5, Zenon DEF Chat!Open
  <2>3. {requested', socket', timer', login'} \subseteq BOOLEAN
    BY <2>2, Zenon DEF ChatInv, Flags
  <2>4. "connected" \in Chat!Connection
    BY DEF Chat!Connection
  <2> QED
    BY <1>1, <2>1, <2>3, <2>4
<1>6. CASE Chat!Closed
  <2>1. /\ Chat!Status("disconnected") /\ worker \in threads
        /\ UNCHANGED <<ops, step, worker, threads, latest, tool, calls, serving, commands, asked>>
    BY <1>6 DEF Chat!Closed, Chat!Running, Chat!session
  <2>2. timer' = TRUE /\ socket' = FALSE /\ requested' = requested /\ login' = login
    BY <1>6, Zenon DEF Chat!Closed
  <2>3. {requested', socket', timer', login'} \subseteq BOOLEAN
    BY <2>2, Zenon DEF ChatInv, Flags
  <2>4. "disconnected" \in Chat!Connection
    BY DEF Chat!Connection
  <2> QED
    BY <1>1, <2>1, <2>3, <2>4
<1>7. CASE Chat!LoggedOut
  <2>1. /\ Chat!PostThen("disconnected", "terminal", Chat!StopCall)
        /\ worker \in threads /\ connection' = "disconnected"
        /\ UNCHANGED <<ops, step, worker, threads, latest, tool, calls, serving, commands, asked>>
    BY <1>7 DEF Chat!LoggedOut, Chat!Running, Chat!session
  <2>2. tool' = tool /\ timer' = timer /\ socket' = FALSE /\ requested' = FALSE /\ login' = login
    BY <1>7, Zenon DEF Chat!LoggedOut, Chat!session
  <2>3. Flags'
    BY <2>2, Zenon DEF ChatInv, Flags
  <2>4. mail' \in Seq(Mail)
    BY <2>1, CallsAre, PostsKeep DEF Chat!Event, Chat!Connection, ChatInv
  <2>5. connection' \in Chat!Connection /\ serving' \in Seq(Chat!Call)
    BY <2>1 DEF Chat!Connection, ChatInv, Said
  <2> QED
    BY <2>1, <2>3, <2>4, <2>5, WorkerKeeps
<1> QED
  BY <1>2, <1>3, <1>4, <1>5, <1>6, <1>7 DEF Chat!Keep

(* Every step keeps the session with its worker.                            *)
LEMMA StepChat == ChatInv /\ [Chat!Next]_(Chat!vars) => ChatInv'
<1> SUFFICES ASSUME ChatInv, [Chat!Next]_(Chat!vars)
             PROVE  ChatInv'
  OBVIOUS
<1> USE DEF Chat!session, Chat!client, Chat!bounds
<1>1. ASSUME NEW op \in {"start", "stop", "reset"}, Chat!Command(op)
      PROVE  ChatInv'
  <2>1. /\ commands < MaxCommands /\ commands' = commands + 1 /\ ops' = Append(ops, op)
        /\ step' = IF ops = <<>> THEN "begin" ELSE step
        /\ UNCHANGED <<worker, threads, latest, calls, serving, mail, connection, asked>>
    BY <1>1 DEF Chat!Command
  <2>2. Flags'
    <3>1. tool' = (op = "start") /\ UNCHANGED <<requested, socket, timer, login>>
      BY <1>1, Zenon DEF Chat!Command
    <3>2. (op = "start") \in BOOLEAN
      OBVIOUS
    <3> QED
      BY <3>1, <3>2, Zenon DEF ChatInv, Flags
  <2>3. FirstGoesOn'
    <3>1. /\ ops' \in Seq(Ops) /\ Len(ops') = Len(ops) + 1 /\ ops' # <<>>
          /\ ops # <<>> => ops'[1] = ops[1]
      BY <2>1 DEF ChatInv, FirstGoesOn, Ops
    <3> QED
      BY <2>1, <3>1 DEF ChatInv, Numbers, FirstGoesOn, Steps, Chat!Call, Chat!StopCall
  <2>4. OneThread' /\ Said'
    BY <2>1 DEF ChatInv, OneThread, Said, Mail
  <2> QED
    BY <2>1, <2>2, <2>3, <2>4 DEF ChatInv, Numbers, FirstGoesOn, Chat!NothingPending, Chat!NoGhost
<1>2. CASE Chat!StartBegins
  <2>1. /\ ops # <<>> /\ ops[1] \in {"start", "restart"} /\ step = "begin"
        /\ worker # Nobody \/ threads = {}
        /\ UNCHANGED <<latest, mail, commands, asked>>
    BY <1>2 DEF Chat!StartBegins, Chat!Terminated
  <2>2. CASE worker # Nobody
    <3>1. Chat!Conclude /\ UNCHANGED <<worker, threads, calls, serving, connection>>
      BY <1>2, <2>2 DEF Chat!StartBegins
    <3>2. Flags'
      <4>1. UNCHANGED <<tool, requested, socket, timer, login>>
        BY <1>2, <2>2, Zenon DEF Chat!StartBegins
      <4> QED
        BY <4>1, Zenon DEF ChatInv, Flags
    <3>3. FirstGoesOn'
      BY <2>1, <3>1, ConcludeKeeps DEF ChatInv, FirstGoesOn, Steps, Chat!Call, Chat!StopCall
    <3>4. OneThread' /\ Said'
      BY <2>1, <3>1 DEF ChatInv, OneThread, Said, Mail
    <3> QED
      BY <2>2, <3>1, <3>2, <3>3, <3>4 DEF ChatInv, Numbers, Chat!NothingPending, Chat!NoGhost
  <2>3. CASE worker = Nobody
    <3>1. /\ worker' = Chat!First /\ threads' = threads \cup {Chat!First} /\ connection' = "off"
          /\ calls' = calls \cup {Chat!StartCall} /\ serving' = <<Chat!StartCall>>
          /\ step' = "starting" /\ ops' = ops
      BY <1>2, <2>3 DEF Chat!StartBegins, Chat!ClientEnds
    <3>2. Flags'
      <4>1. requested' = FALSE /\ socket' = FALSE /\ timer' = FALSE /\ tool' = tool /\ login' = login
        BY <1>2, <2>3, Zenon DEF Chat!StartBegins, Chat!ClientEnds
      <4> QED
        BY <4>1, Zenon DEF ChatInv, Flags
    <3>3. Chat!First \in Chat!Worker /\ Chat!First # Nobody
      <4>1. Len(ops) \in 1 .. commands /\ commands \in 0 .. MaxCommands
        BY <2>1 DEF ChatInv, FirstGoesOn
      <4> QED
        BY <4>1 DEF ChatInv, Numbers, Chat!First, Chat!Worker
    <3>4. FirstGoesOn'
      BY <2>1, <3>1, CallsAre DEF ChatInv, FirstGoesOn, Steps, Chat!Call, Chat!StopCall
    <3>5. OneThread'
      BY <2>1, <2>3, <3>1, <3>3 DEF OneThread
    <3>6. Said'
      BY <2>1, <3>1, CallsAre DEF ChatInv, Said, Mail, Chat!Connection
    <3> QED
      BY <3>1, <3>2, <3>3, <3>4, <3>5, <3>6
         DEF ChatInv, Numbers, Chat!NothingPending, Chat!NoGhost
  <2> QED
    BY <2>2, <2>3
<1>3. CASE Chat!StopBegins
  <2>1. /\ (step = "begin" /\ ops[1] \in {"stop", "reset"}) \/ step = "failed"
        /\ UNCHANGED <<ops, worker, threads, latest, mail, connection, commands, asked>>
        /\ \/ worker = Nobody /\ step' = "terminating" /\ UNCHANGED <<calls, serving>>
           \/ worker # Nobody /\ step' = "stopping" /\ Chat!Request(Chat!StopCall)
    BY <1>3 DEF Chat!StopBegins
  <2>2. Flags'
    <3>1. UNCHANGED <<tool, requested, socket, timer, login>>
      BY <1>3, Zenon DEF Chat!StopBegins
    <3> QED
      BY <3>1, Zenon DEF ChatInv, Flags
  <2>3. /\ calls' \in {calls, calls \cup {Chat!StopCall}}
        /\ serving' \in {serving, Append(serving, Chat!StopCall)}
    BY <2>1 DEF Chat!Request
  <2>4. FirstGoesOn'
    BY <2>1, <2>3, CallsAre DEF ChatInv, FirstGoesOn, Steps
  <2>5. OneThread'
    BY <2>1 DEF ChatInv, OneThread
  <2>6. Said'
    BY <2>1, <2>3, CallsAre DEF ChatInv, Said, Mail
  <2> QED
    BY <2>1, <2>2, <2>4, <2>5, <2>6 DEF ChatInv, Numbers, Chat!NothingPending, Chat!NoGhost
<1>4. CASE Chat!StopAnswered
  <2>1. /\ step = "stopping" /\ worker' = Nobody /\ calls' = {} /\ step' = "terminating"
        /\ UNCHANGED <<ops, threads, latest, serving, mail, connection, commands, asked>>
    BY <1>4 DEF Chat!StopAnswered
  <2>2. Flags'
    <3>1. UNCHANGED <<tool, requested, socket, timer, login>>
      BY <1>4, Zenon DEF Chat!StopAnswered
    <3> QED
      BY <3>1, Zenon DEF ChatInv, Flags
  <2>3. FirstGoesOn'
    BY <2>1 DEF ChatInv, FirstGoesOn, Steps
  <2>4. OneThread' /\ Said'
    BY <2>1 DEF ChatInv, OneThread, Said, Mail
  <2> QED
    BY <2>1, <2>2, <2>3, <2>4 DEF ChatInv, Numbers, Chat!NothingPending, Chat!NoGhost
<1>5. CASE Chat!Terminate
  <2>1. /\ threads' = threads \cap {worker} /\ threads \ {worker} # {}
        /\ serving' = <<>> /\ connection' = "off"
        /\ UNCHANGED <<ops, step, worker, latest, calls, mail, commands, asked>>
    BY <1>5 DEF Chat!Terminate, Chat!ClientEnds
  <2>2. Flags'
    <3>1. requested' = FALSE /\ socket' = FALSE /\ timer' = FALSE /\ tool' = tool /\ login' = login
      BY <1>5, Zenon DEF Chat!Terminate, Chat!ClientEnds
    <3> QED
      BY <3>1, Zenon DEF ChatInv, Flags
  <2>3. FirstGoesOn'
    BY <2>1 DEF ChatInv, FirstGoesOn
  <2>4. OneThread' /\ Said'
    BY <2>1 DEF ChatInv, OneThread, Said, Mail, Chat!Connection
  <2> QED
    BY <2>1, <2>2, <2>3, <2>4 DEF ChatInv, Numbers, Chat!NothingPending, Chat!NoGhost
<1>6. CASE Chat!StopEnds
  <2>1. /\ step = "terminating" /\ latest' = "off"
        /\ UNCHANGED <<worker, threads, calls, serving, mail, connection, commands, asked>>
        /\ \/ ops' = [ops EXCEPT ![1] = "restart"] /\ step' = "begin"
           \/ Chat!Conclude
    BY <1>6 DEF Chat!StopEnds
  <2>2. Flags'
    <3>1. /\ UNCHANGED <<requested, socket, timer>> /\ login' = (login /\ ops[1] # "reset")
          /\ tool' = tool \/ tool' = (tool /\ ops[1] # "start")
      BY <1>6, Zenon DEF Chat!StopEnds
    <3> QED
      BY <3>1, Zenon DEF ChatInv, Flags
  <2>3. ops \in Seq(Ops) /\ ops # <<>>
    BY <2>1 DEF ChatInv, FirstGoesOn
  <2>4. FirstGoesOn'
    <3>1. CASE Chat!Conclude
      BY <2>1, <2>3, <3>1, ConcludeKeeps DEF ChatInv, FirstGoesOn, Steps
    <3>2. CASE ops' = [ops EXCEPT ![1] = "restart"] /\ step' = "begin"
      <4>1. ops' \in Seq(Ops) /\ Len(ops') = Len(ops) /\ ops' # <<>>
        BY <2>3, <3>2 DEF Ops
      <4> QED
        BY <2>1, <3>2, <4>1 DEF ChatInv, FirstGoesOn, Steps
    <3> QED
      BY <2>1, <3>1, <3>2
  <2>5. OneThread' /\ Said'
    BY <2>1 DEF ChatInv, OneThread, Said, Mail, Chat!Connection
  <2> QED
    BY <2>1, <2>2, <2>4, <2>5 DEF ChatInv, Numbers, Chat!NothingPending, Chat!NoGhost
<1>7. CASE Chat!Receive
  <2> DEFINE m == Head(mail)
  <2>1. /\ mail # <<>> /\ mail' = Tail(mail)
        /\ UNCHANGED <<worker, threads, serving, connection, commands, asked>>
    BY <1>7 DEF Chat!Receive
  <2>2. m \in Mail /\ mail' \in Seq(Mail)
    BY <2>1 DEF ChatInv, Said
  <2>3. CASE ~Chat!Current(m)
    <3>1. UNCHANGED <<latest, calls, step, ops>>
      BY <1>7, <2>3 DEF Chat!Receive
    <3>2. Flags'
      <4>1. UNCHANGED <<tool, requested, socket, timer, login>>
        BY <1>7, <2>3, Zenon DEF Chat!Receive
      <4> QED
        BY <4>1, Zenon DEF ChatInv, Flags
    <3>3. serving' \in Seq(Chat!Call) /\ connection' \in Chat!Connection
      BY <2>1 DEF ChatInv, Said
    <3> QED
      BY <2>1, <2>2, <3>1, <3>2, <3>3, WorkerKeeps
  <2>4. CASE Chat!Current(m)
    <3>1. /\ latest' = Chat!Shown(m) /\ calls' \subseteq calls
          /\ \/ /\ m.call = Chat!StartCall /\ m.call \in calls /\ m.call \notin calls'
                /\ Chat!Conclude \/ (step' = "failed" /\ ops' = ops)
             \/ UNCHANGED <<step, ops>>
      BY <1>7, <2>4 DEF Chat!Receive
    <3>2. m.from = worker /\ worker # Nobody /\ m.from \in Chat!Worker /\ m.event \in Chat!Event
      BY <2>2, <2>4 DEF Chat!Current, Mail, ChatInv, Numbers, Chat!Worker
    <3>3. Flags'
      <4>1. /\ UNCHANGED <<requested, socket, timer, login>>
            /\ \/ tool' = (tool \/ ops[1] = "restart") \/ tool' = tool
               \/ tool' = (tool /\ m.event # "terminal")
        BY <1>7, <2>4, Zenon DEF Chat!Receive
      <4> QED
        BY <4>1, Zenon DEF ChatInv, Flags
    <3> HIDE DEF m
    <3>4. FirstGoesOn'
      <4>1. CASE m.call = Chat!StartCall /\ m.call \in calls /\ m.call \notin calls'
                 /\ (Chat!Conclude \/ (step' = "failed" /\ ops' = ops))
        <5>1. step = "starting" /\ ops # <<>> /\ ops \in Seq(Ops) /\ Chat!StartCall \notin calls'
          BY <4>1 DEF ChatInv, FirstGoesOn
        <5>2. CASE Chat!Conclude
          BY <2>1, <3>1, <5>1, <5>2, ConcludeKeeps DEF ChatInv, FirstGoesOn, Steps
        <5>3. CASE step' = "failed" /\ ops' = ops
          BY <2>1, <3>1, <5>1, <5>3 DEF ChatInv, FirstGoesOn, Steps
        <5> QED
          BY <4>1, <5>2, <5>3
      <4>2. CASE UNCHANGED <<step, ops>>
        BY <2>1, <3>1, <4>2 DEF ChatInv, FirstGoesOn
      <4> QED
        BY <3>1, <4>1, <4>2
    <3>5. OneThread'
      BY <2>1 DEF ChatInv, OneThread
    <3>6. Said'
      BY <2>1, <2>2, <3>1, <3>2 DEF ChatInv, Said, Chat!Shown, Mail
    <3> QED
      BY <2>1, <3>2, <3>3, <3>4, <3>5, <3>6
         DEF ChatInv, Numbers, Chat!NothingPending, Chat!NoGhost
  <2> QED
    BY <2>3, <2>4
<1>8. CASE Chat!Crash
  <2>1. /\ worker # Nobody /\ worker' = Nobody /\ calls' = {} /\ latest' = "disconnected"
        /\ step' = CASE step = "starting" -> "failed"
                     [] step = "stopping" -> "terminating"
                     [] OTHER -> step
        /\ UNCHANGED <<ops, threads, serving, mail, connection, commands, asked>>
    BY <1>8 DEF Chat!Crash, Chat!Failed
  <2>2. Flags'
    <3>1. tool' = FALSE /\ UNCHANGED <<requested, socket, timer, login>>
      BY <1>8, Zenon DEF Chat!Crash, Chat!Failed
    <3> QED
      BY <3>1, Zenon DEF ChatInv, Flags
  <2>3. FirstGoesOn'
    BY <2>1 DEF ChatInv, FirstGoesOn, Steps
  <2>4. OneThread' /\ Said'
    BY <2>1 DEF ChatInv, OneThread, Said, Mail, Chat!Connection
  <2> QED
    BY <2>1, <2>2, <2>3, <2>4 DEF ChatInv, Numbers, Chat!NothingPending, Chat!NoGhost
<1>9. CASE Chat!Read
  <2>1. /\ worker # Nobody /\ asked < MaxCalls /\ asked' = asked + 1
        /\ calls' = calls \cup {asked'} /\ serving' \in {serving, Append(serving, asked')}
        /\ UNCHANGED <<ops, step, worker, threads, latest, mail, connection, commands>>
    BY <1>9 DEF Chat!Read, Chat!Request
  <2>2. Flags'
    <3>1. UNCHANGED <<tool, requested, socket, timer, login>>
      BY <1>9, Zenon DEF Chat!Read
    <3> QED
      BY <3>1, Zenon DEF ChatInv, Flags
  <2>3. asked' \in 1 .. MaxCalls /\ asked' \in Chat!Call /\ asked' # Chat!StartCall
    <3>1. asked' \in 1 .. MaxCalls
      BY <2>1 DEF ChatInv, Numbers, FirstGoesOn
    <3> QED
      BY <3>1, CallsAre DEF ChatInv
  <2>4. FirstGoesOn'
    BY <2>1, <2>3 DEF ChatInv, FirstGoesOn
  <2>5. OneThread'
    BY <2>1 DEF ChatInv, OneThread
  <2>6. Said'
    BY <2>1, <2>3 DEF ChatInv, Said, Mail
  <2> QED
    BY <2>1, <2>2, <2>4, <2>5, <2>6 DEF ChatInv, Numbers, Chat!NothingPending, Chat!NoGhost
<1>10. CASE Chat!TimeOut
  <2>1. PICK c \in calls \ {Chat!StopCall} :
          /\ calls' = calls \ {c} /\ step' = IF c = Chat!StartCall THEN "failed" ELSE step
          /\ UNCHANGED <<ops, worker, threads, latest, serving, mail, connection, commands, asked>>
    BY <1>10 DEF Chat!TimeOut
  <2>2. Flags'
    <3>1. UNCHANGED <<tool, requested, socket, timer, login>>
      BY <1>10, Zenon DEF Chat!TimeOut
    <3> QED
      BY <3>1, Zenon DEF ChatInv, Flags
  <2>3. FirstGoesOn'
    BY <2>1 DEF ChatInv, FirstGoesOn, Steps
  <2>4. OneThread' /\ Said'
    BY <2>1 DEF ChatInv, OneThread, Said, Mail
  <2> QED
    BY <2>1, <2>2, <2>3, <2>4 DEF ChatInv, Numbers, Chat!NothingPending, Chat!NoGhost
<1>11. CASE UNCHANGED Chat!vars
  <2>1. UNCHANGED <<ops, step, worker, threads, latest, calls, serving, mail, connection, commands, asked>>
    BY <1>11 DEF Chat!vars
  <2>2. Flags'
    <3>1. UNCHANGED <<tool, requested, socket, timer, login>>
      BY <1>11, Zenon DEF Chat!vars
    <3> QED
      BY <3>1, Zenon DEF ChatInv, Flags
  <2>3. mail' \in Seq(Mail) /\ serving' \in Seq(Chat!Call) /\ connection' \in Chat!Connection
    BY <2>1 DEF ChatInv, Said
  <2> QED
    BY <2>1, <2>2, <2>3, WorkerKeeps
<1> QED
  BY <1>1, <1>2, <1>3, <1>4, <1>5, <1>6, <1>7, <1>8, <1>9, <1>10, <1>11, KeepKeeps
     DEF Chat!Next, Chat!Operate

(* The session stays with its worker.                                       *)
LEMMA ChatAlways == Extensions => []ChatInv
<1>1. ExtensionsInit => ChatInv
  BY InitChat, ExtensionsAssumption DEF ExtensionsInit, ExtensionsAssumption, Numbers
<1>2. ChatInv /\ [ExtensionsNext]_everything => ChatInv'
  BY StepChat, OneAtATime
<1> QED
  BY <1>1, <1>2, PTL DEF Extensions

(* Whatever commands, answers, failures and late messages meet, a session     *)
(* shows a connection only of the worker it has, and waits for none that is   *)
(* gone (isolated-client.ts, 87, 114-124).                                  *)
THEOREM SessionIsCurrent == Extensions => []WorkerIsCurrent
<1>1. ChatInv => WorkerIsCurrent
  <2> SUFFICES ASSUME ChatInv PROVE WorkerIsCurrent
    OBVIOUS
  <2>1. Chat!TypeOK
    BY DEF ChatInv, Flags, FirstGoesOn, OneThread, Said, Chat!TypeOK, Ops, Steps, Mail
  <2> QED
    BY <2>1 DEF ChatInv, WorkerIsCurrent, Chat!WorkerIsCurrent
<1> QED
  BY <1>1, ChatAlways, PTL

(* No two workers run on the same credentials, and a reset deletes them when  *)
(* none runs, for any number of commands (isolated-client.ts, 60-72, 139).   *)
THEOREM NoTwoWorkers == Extensions => WorkersAlone
<1>1. ChatInv /\ ChatInv' /\ [ExtensionsNext]_everything =>
        [Chat!Cardinality(threads') <= 1 /\ (login /\ ~login' => threads = {})]_(Chat!vars)
  <2> SUFFICES ASSUME ChatInv, ChatInv', Chat!Next
               PROVE  Chat!Cardinality(threads') <= 1 /\ (login /\ ~login' => threads = {})
    BY OneAtATime
  <2>1. Chat!Cardinality(threads') <= 1
    <3>1. Chat!Cardinality(threads') = Cardinality(threads')
      BY Zenon DEF Chat!Cardinality, Cardinality
    <3>2. threads' = {} \/ \E w \in threads' : threads' = {w}
      BY DEF ChatInv, OneThread
    <3>3. Cardinality(threads') \in {0, 1}
      BY <3>2, FS_EmptySet, FS_Singleton
    <3> QED
      BY <3>1, <3>3
  <2>2. login /\ ~login' => threads = {}
    <3>1. CASE Chat!StopEnds
      <4>1. step = "terminating" /\ (worker # Nobody \/ threads = {})
        BY <3>1 DEF Chat!StopEnds, Chat!Terminated
      <4> QED
        BY <4>1 DEF ChatInv, FirstGoesOn
    <3>2. CASE ~Chat!StopEnds
      <4>1. login' = login \/ login' = TRUE
        BY <3>2, Zenon DEF Chat!Next, Chat!Operate, Chat!Keep, Chat!Command, Chat!StartBegins,
           Chat!StopBegins, Chat!StopAnswered, Chat!Terminate, Chat!Receive, Chat!Crash,
           Chat!Read, Chat!TimeOut, Chat!Serve, Chat!Connect, Chat!Pair, Chat!Open,
           Chat!Closed, Chat!LoggedOut
      <4> QED
        BY <4>1, Zenon
    <3> QED
      BY <3>1, <3>2
  <2> QED
    BY <2>1, <2>2
<1> QED
  BY <1>1, ChatAlways, PTL DEF Extensions, WorkersAlone, Chat!WorkersAlone

------------------------------------------------------------------------------
(***************************************************************************)
(* A sudo command that still runs when the session is over has a killer     *)
(* that holds the password, for any number of calls and passwords.          *)
(***************************************************************************)

CallStage == {"none", "confirming", "asking", "opening", "running", "failed", "ended"}
ProcStage == {"none", "alive", "refused", "gone", "rejected"}

NotRun(c) == call[c] \in {"none", "confirming", "asking", "opening"}
Engaged(c) == call[c] \in {"asking", "opening", "running"} \/ SudoTool!Alive(c)

SudoTypes ==
  /\ typed \in Nat /\ password \in Nat /\ zeroed \subseteq Nat
  /\ password <= typed /\ \A buffer \in zeroed : buffer <= typed
  /\ uses \in [SudoCalls -> Nat] /\ \A c \in SudoCalls : uses[c] <= typed
  /\ call \in [SudoCalls -> CallStage] /\ command \in [SudoCalls -> ProcStage]
  /\ told \in [SudoCalls -> {"no", "armed", "empty"}]
  /\ handle \in SudoCalls \cup {NoHandle}

(* One call at a time asks for the password or has a command.               *)
OneAsks == \A c, d \in SudoCalls : Engaged(c) /\ Engaged(d) => c = d

(* Nothing runs, and no stop is called, before the file for the output is   *)
(* open; a call that opens it was given the password that is held, unless that was wiped since.       *)
Prepared ==
  /\ \A c \in SudoCalls : NotRun(c) => command[c] = "none" /\ told[c] = "no" /\ handle # c
  /\ \A c \in SudoCalls : call[c] = "asking" => password = 0
  /\ \A c \in SudoCalls :
       call[c] = "opening" => uses[c] # 0 /\ uses[c] \in zeroed \cup {password}

(* The password of the command that runs is not wiped while the session is  *)
(* open, which can stop it; and once it is over the command was stopped.    *)
Stoppable ==
  \A c \in SudoCalls : SudoTool!Alive(c) =>
    /\ told[c] \in {"no", "armed"}
    /\ sudoOpen => uses[c] \notin zeroed
    /\ told[c] = "no" => sudoOpen /\ handle = c

SudoInv ==
  /\ SudoTypes
  /\ ~sudoOpen => password = 0
  /\ ~overlap => OneAsks /\ Prepared
  /\ ~overlap /\ ~lockedEarly => Stoppable

(* No call has begun.                                                       *)
LEMMA InitSudo ==
  ASSUME NoHandle \notin SudoCalls, SudoTool!Init
  PROVE  SudoInv
<1>1. SudoTypes
  BY DEF SudoTool!Init, SudoTypes, CallStage, ProcStage
<1>2. password = 0 /\ OneAsks /\ Prepared /\ Stoppable
  <2>1. \A c \in SudoCalls : call[c] = "none" /\ command[c] = "none" /\ told[c] = "no"
    BY DEF SudoTool!Init
  <2> QED
    BY <2>1 DEF SudoTool!Init, OneAsks, Prepared, Stoppable, NotRun, Engaged, SudoTool!Alive
<1> QED
  BY <1>1, <1>2 DEF SudoInv

(* What a call asks for before it is approved is nothing.                   *)
LEMMA AskArmed ==
  ASSUME NEW c \in SudoCalls, NoHandle \notin SudoCalls, SudoInv, SudoTool!Ask(c)
  PROVE  SudoInv'
<1>1. SudoTypes'
  BY DEF SudoTool!Ask, SudoInv, SudoTypes, CallStage, ProcStage
<1>2. (~sudoOpen => password = 0)'
  BY DEF SudoTool!Ask, SudoInv
<1>3. ASSUME ~overlap' PROVE OneAsks'
  <2>1. SudoTypes /\ ~overlap /\ OneAsks /\ Prepared
    BY <1>3 DEF SudoTool!Ask, SudoInv
  <2> QED
    BY <1>1, <1>3, <2>1 DEF SudoTool!Ask, SudoTypes, CallStage, ProcStage, OneAsks, Engaged, SudoTool!Alive
<1>4. ASSUME ~overlap' PROVE Prepared'
  <2>1. SudoTypes /\ ~overlap /\ OneAsks /\ Prepared
    BY <1>4 DEF SudoTool!Ask, SudoInv
  <2> QED
    BY <1>1, <1>4, <2>1 DEF SudoTool!Ask, SudoTypes, CallStage, ProcStage, Prepared, OneAsks, Engaged, NotRun, SudoTool!Alive
<1>5. ASSUME ~overlap', ~lockedEarly' PROVE Stoppable'
  <2>1. SudoTypes /\ ~overlap /\ OneAsks /\ Prepared /\ ~lockedEarly /\ Stoppable
    BY <1>5 DEF SudoTool!Ask, SudoInv
  <2> QED
    BY <1>1, <1>5, <2>1 DEF SudoTool!Ask, SudoTypes, CallStage, ProcStage, Stoppable, Prepared, OneAsks, Engaged, NotRun, SudoTool!Alive
<1> QED
  BY <1>1, <1>2, <1>3, <1>4, <1>5 DEF SudoInv

(* An approved call asks for the password that is missing or takes the one that is held. *)
LEMMA ConfirmedArmed ==
  ASSUME NEW c \in SudoCalls, NoHandle \notin SudoCalls, SudoInv, SudoTool!Confirmed(c)
  PROVE  SudoInv'
<1>1. SudoTypes'
  BY DEF SudoTool!Confirmed, SudoTool!Together, SudoTool!Opens, SudoInv, SudoTypes, CallStage, ProcStage
<1>2. (~sudoOpen => password = 0)'
  BY DEF SudoTool!Confirmed, SudoTool!Together, SudoTool!Opens, SudoInv
<1>3. ASSUME ~overlap' PROVE OneAsks'
  <2>1. SudoTypes /\ ~overlap /\ OneAsks /\ Prepared
    BY <1>3 DEF SudoTool!Confirmed, SudoTool!Together, SudoTool!Opens, SudoInv
  <2>2. CASE call'[c] = "ended"
    BY <2>1, <2>2 DEF SudoTool!Confirmed, SudoTool!Together, SudoTool!Opens, SudoTypes, OneAsks, Engaged, SudoTool!Alive
  <2>3. CASE call'[c] # "ended"
    <3>1. ~SudoTool!Together(c)
      BY Zenon, <1>3, <2>3 DEF SudoTool!Confirmed
    <3>2. \A d \in SudoCalls : d # c => ~Engaged(d) /\ call'[d] = call[d]
      BY <3>1, <2>1 DEF SudoTool!Together, SudoTool!Confirmed, SudoTool!Opens, SudoTypes, Engaged
    <3> QED
      BY <3>2 DEF SudoTool!Confirmed, OneAsks, Engaged, SudoTool!Alive
  <2> QED
    BY <2>2, <2>3
<1>4. ASSUME ~overlap' PROVE Prepared'
  <2>1. SudoTypes /\ ~overlap /\ OneAsks /\ Prepared
    BY <1>4 DEF SudoTool!Confirmed, SudoTool!Together, SudoTool!Opens, SudoInv
  <2> QED
    BY <1>1, <1>4, <2>1 DEF SudoTool!Confirmed, SudoTool!Together, SudoTool!Opens, SudoTypes, CallStage, ProcStage, Prepared, OneAsks, Engaged, NotRun, SudoTool!Alive
<1>5. ASSUME ~overlap', ~lockedEarly' PROVE Stoppable'
  <2>1. SudoTypes /\ ~overlap /\ OneAsks /\ Prepared /\ ~lockedEarly /\ Stoppable
    BY <1>5 DEF SudoTool!Confirmed, SudoTool!Together, SudoTool!Opens, SudoInv
  <2> QED
    BY <1>1, <1>5, <2>1 DEF SudoTool!Confirmed, SudoTool!Together, SudoTool!Opens, SudoTypes, CallStage, ProcStage, Stoppable, Prepared, OneAsks, Engaged, NotRun, SudoTool!Alive
<1> QED
  BY <1>1, <1>2, <1>3, <1>4, <1>5 DEF SudoInv

(* A call that was aborted meanwhile wipes what was typed.                  *)
LEMMA TypedArmed ==
  ASSUME NEW c \in SudoCalls, NoHandle \notin SudoCalls, SudoInv, SudoTool!Typed(c)
  PROVE  SudoInv'
<1>1. SudoTypes'
  <2>1. SudoTypes
    BY DEF SudoInv
  <2>2. typed' \in Nat /\ typed <= typed' /\ password' \in Nat /\ password' <= typed'
    BY <2>1 DEF SudoTool!Typed, SudoTool!Opens, SudoTypes
  <2>3. zeroed' \subseteq zeroed \cup ({typed', password} \cap Nat)
    BY <2>1, <2>2 DEF SudoTool!Typed, SudoTool!Opens, SudoTypes
  <2>4. zeroed' \subseteq Nat /\ \A buffer \in zeroed' : buffer <= typed'
    BY <2>1, <2>2, <2>3 DEF SudoTypes
  <2>5. uses' \in [SudoCalls -> Nat]
    BY <2>1, <2>2 DEF SudoTool!Typed, SudoTool!Opens, SudoTypes
  <2>6. \A d \in SudoCalls : uses'[d] <= typed'
    <3> SUFFICES ASSUME NEW d \in SudoCalls PROVE uses'[d] <= typed'
      OBVIOUS
    <3>1. uses'[d] \in {uses[d], typed'}
      BY <2>1 DEF SudoTool!Typed, SudoTool!Opens, SudoTypes
    <3> QED
      BY <3>1, <2>1, <2>2 DEF SudoTypes
  <2>7. /\ call' \in [SudoCalls -> CallStage] /\ command' = command /\ told' = told
        /\ handle' \in {handle, NoHandle}
    BY <2>1 DEF SudoTool!Typed, SudoTool!Opens, SudoTypes, CallStage
  <2> QED
    BY <2>1, <2>2, <2>4, <2>5, <2>6, <2>7 DEF SudoTypes
<1>2. (~sudoOpen => password = 0)'
  BY DEF SudoTool!Typed, SudoTool!Opens, SudoInv
<1>3. ASSUME ~overlap' PROVE OneAsks'
  <2>1. SudoTypes /\ ~overlap /\ OneAsks /\ Prepared
    BY <1>3 DEF SudoTool!Typed, SudoTool!Opens, SudoInv
  <2> QED
    BY <1>1, <1>3, <2>1 DEF SudoTool!Typed, SudoTool!Opens, SudoTypes, CallStage, ProcStage, OneAsks, Engaged, SudoTool!Alive
<1>4. ASSUME ~overlap' PROVE Prepared'
  <2>1. SudoTypes /\ ~overlap /\ OneAsks /\ Prepared
    BY <1>4 DEF SudoTool!Typed, SudoTool!Opens, SudoInv
  <2> QED
    BY <1>1, <1>4, <2>1 DEF SudoTool!Typed, SudoTool!Opens, SudoTypes, CallStage, ProcStage, Prepared, OneAsks, Engaged, NotRun, SudoTool!Alive
<1>5. ASSUME ~overlap', ~lockedEarly' PROVE Stoppable'
  <2>1. SudoTypes /\ ~overlap /\ OneAsks /\ Prepared /\ ~lockedEarly /\ Stoppable
    BY <1>5 DEF SudoTool!Typed, SudoTool!Opens, SudoInv
  <2> QED
    BY <1>1, <1>5, <2>1 DEF SudoTool!Typed, SudoTool!Opens, SudoTypes, CallStage, ProcStage, Stoppable, Prepared, OneAsks, Engaged, NotRun, SudoTool!Alive
<1> QED
  BY <1>1, <1>2, <1>3, <1>4, <1>5 DEF SudoInv

(* A call whose dialog is closed ends.                                      *)
LEMMA DeclinedArmed ==
  ASSUME NEW c \in SudoCalls, NoHandle \notin SudoCalls, SudoInv, SudoTool!Declined(c)
  PROVE  SudoInv'
<1>1. SudoTypes'
  BY DEF SudoTool!Declined, SudoInv, SudoTypes, CallStage, ProcStage
<1>2. (~sudoOpen => password = 0)'
  BY DEF SudoTool!Declined, SudoInv
<1>3. ASSUME ~overlap' PROVE OneAsks'
  <2>1. SudoTypes /\ ~overlap /\ OneAsks /\ Prepared
    BY <1>3 DEF SudoTool!Declined, SudoInv
  <2> QED
    BY <1>1, <1>3, <2>1 DEF SudoTool!Declined, SudoTypes, CallStage, ProcStage, OneAsks, Engaged, SudoTool!Alive
<1>4. ASSUME ~overlap' PROVE Prepared'
  <2>1. SudoTypes /\ ~overlap /\ OneAsks /\ Prepared
    BY <1>4 DEF SudoTool!Declined, SudoInv
  <2> QED
    BY <1>1, <1>4, <2>1 DEF SudoTool!Declined, SudoTypes, CallStage, ProcStage, Prepared, OneAsks, Engaged, NotRun, SudoTool!Alive
<1>5. ASSUME ~overlap', ~lockedEarly' PROVE Stoppable'
  <2>1. SudoTypes /\ ~overlap /\ OneAsks /\ Prepared /\ ~lockedEarly /\ Stoppable
    BY <1>5 DEF SudoTool!Declined, SudoInv
  <2> QED
    BY <1>1, <1>5, <2>1 DEF SudoTool!Declined, SudoTypes, CallStage, ProcStage, Stoppable, Prepared, OneAsks, Engaged, NotRun, SudoTool!Alive
<1> QED
  BY <1>1, <1>2, <1>3, <1>4, <1>5 DEF SudoInv

(* A command runs with a password that was not wiped, as the active one.    *)
LEMMA SpawnedArmed ==
  ASSUME NEW c \in SudoCalls, NoHandle \notin SudoCalls, SudoInv, SudoTool!Spawned(c)
  PROVE  SudoInv'
<1>1. SudoTypes'
  BY DEF SudoTool!Spawned, SudoTool!Ends, SudoTool!StillWanted, SudoInv, SudoTypes, CallStage, ProcStage
<1>2. (~sudoOpen => password = 0)'
  BY DEF SudoTool!Spawned, SudoTool!Ends, SudoTool!StillWanted, SudoInv
<1>3. ASSUME ~overlap' PROVE OneAsks'
  <2>1. SudoTypes /\ ~overlap /\ OneAsks /\ Prepared
    BY <1>3 DEF SudoTool!Spawned, SudoTool!Ends, SudoTool!StillWanted, SudoInv
  <2> QED
    BY <1>1, <1>3, <2>1 DEF SudoTool!Spawned, SudoTool!Ends, SudoTool!StillWanted, SudoTypes, CallStage, ProcStage, OneAsks, Engaged, SudoTool!Alive
<1>4. ASSUME ~overlap' PROVE Prepared'
  <2>1. SudoTypes /\ ~overlap /\ OneAsks /\ Prepared
    BY <1>4 DEF SudoTool!Spawned, SudoTool!Ends, SudoTool!StillWanted, SudoInv
  <2> QED
    BY <1>1, <1>4, <2>1 DEF SudoTool!Spawned, SudoTool!Ends, SudoTool!StillWanted, SudoTypes, CallStage, ProcStage, Prepared, OneAsks, Engaged, NotRun, SudoTool!Alive
<1>5. ASSUME ~overlap', ~lockedEarly' PROVE Stoppable'
  <2>1. SudoTypes /\ ~overlap /\ OneAsks /\ Prepared /\ ~lockedEarly /\ Stoppable
    BY <1>5 DEF SudoTool!Spawned, SudoTool!Ends, SudoTool!StillWanted, SudoInv
  <2> SUFFICES ASSUME NEW d \in SudoCalls, SudoTool!Alive(d)'
               PROVE  /\ told'[d] \in {"no", "armed"}
                      /\ sudoOpen' => uses'[d] \notin zeroed'
                      /\ told'[d] = "no" => sudoOpen' /\ handle' = d
    BY DEF Stoppable, SudoTool!Alive
  <2>2. CASE d = c
    <3>1. command[c] = "none" /\ told[c] = "no"
      BY <2>1 DEF Prepared, NotRun, SudoTool!Spawned
    <3>2. uses[c] \notin zeroed /\ handle' = c /\ uses[c] = password /\ uses[c] # 0
      BY <3>1, <2>1, <2>2 DEF SudoTool!Spawned, SudoTool!Ends, SudoTypes, Prepared, SudoTool!Alive
    <3> QED
      BY <3>1, <3>2, <2>1, <2>2 DEF SudoTool!Spawned, SudoInv, SudoTypes
  <2>3. CASE d # c
    <3>1. Engaged(d) /\ Engaged(c)
      BY <2>3 DEF SudoTool!Spawned, SudoTool!Ends, Engaged, SudoTool!Alive, SudoInv, SudoTypes
    <3> QED
      BY <3>1, <2>1, <2>3 DEF OneAsks
  <2> QED
    BY <2>2, <2>3
<1> QED
  BY <1>1, <1>2, <1>3, <1>4, <1>5 DEF SudoInv

(* A stop finds the password.                                               *)
LEMMA AbortArmed ==
  ASSUME NEW c \in SudoCalls, NoHandle \notin SudoCalls, SudoInv, SudoTool!Abort(c)
  PROVE  SudoInv'
<1>1. SudoTypes'
  BY DEF SudoTool!Abort, SudoTool!Ends, SudoTool!Stop, SudoTool!Told, SudoInv, SudoTypes, CallStage, ProcStage
<1>2. (~sudoOpen => password = 0)'
  BY DEF SudoTool!Abort, SudoTool!Ends, SudoTool!Stop, SudoTool!Told, SudoInv
<1>3. ASSUME ~overlap' PROVE OneAsks'
  <2>1. SudoTypes /\ ~overlap /\ OneAsks /\ Prepared
    BY <1>3 DEF SudoTool!Abort, SudoTool!Ends, SudoTool!Stop, SudoTool!Told, SudoInv
  <2> QED
    BY <1>1, <1>3, <2>1 DEF SudoTool!Abort, SudoTool!Ends, SudoTool!Stop, SudoTool!Told, SudoTypes, CallStage, ProcStage, OneAsks, Engaged, SudoTool!Alive
<1>4. ASSUME ~overlap' PROVE Prepared'
  <2>1. SudoTypes /\ ~overlap /\ OneAsks /\ Prepared
    BY <1>4 DEF SudoTool!Abort, SudoTool!Ends, SudoTool!Stop, SudoTool!Told, SudoInv
  <2> QED
    BY <1>1, <1>4, <2>1 DEF SudoTool!Abort, SudoTool!Ends, SudoTool!Stop, SudoTool!Told, SudoTypes, CallStage, ProcStage, Prepared, OneAsks, Engaged, NotRun, SudoTool!Alive
<1>5. ASSUME ~overlap', ~lockedEarly' PROVE Stoppable'
  <2>1. SudoTypes /\ ~overlap /\ OneAsks /\ Prepared /\ ~lockedEarly /\ Stoppable
    BY <1>5 DEF SudoTool!Abort, SudoTool!Ends, SudoTool!Stop, SudoTool!Told, SudoInv
  <2> QED
    BY <1>1, <1>5, <2>1 DEF SudoTool!Abort, SudoTool!Ends, SudoTool!Stop, SudoTool!Told, SudoTypes, CallStage, ProcStage, Stoppable, Prepared, OneAsks, Engaged, NotRun, SudoTool!Alive
<1> QED
  BY <1>1, <1>2, <1>3, <1>4, <1>5 DEF SudoInv

(* A stop finds the password.                                               *)
LEMMA OutputFailsArmed ==
  ASSUME NEW c \in SudoCalls, NoHandle \notin SudoCalls, SudoInv, SudoTool!OutputFails(c)
  PROVE  SudoInv'
<1>1. SudoTypes'
  BY DEF SudoTool!OutputFails, SudoTool!Ends, SudoTool!Told, SudoInv, SudoTypes, CallStage, ProcStage
<1>2. (~sudoOpen => password = 0)'
  BY DEF SudoTool!OutputFails, SudoTool!Ends, SudoTool!Told, SudoInv
<1>3. ASSUME ~overlap' PROVE OneAsks'
  <2>1. SudoTypes /\ ~overlap /\ OneAsks /\ Prepared
    BY <1>3 DEF SudoTool!OutputFails, SudoTool!Ends, SudoTool!Told, SudoInv
  <2> QED
    BY <1>1, <1>3, <2>1 DEF SudoTool!OutputFails, SudoTool!Ends, SudoTool!Told, SudoTypes, CallStage, ProcStage, OneAsks, Engaged, SudoTool!Alive
<1>4. ASSUME ~overlap' PROVE Prepared'
  <2>1. SudoTypes /\ ~overlap /\ OneAsks /\ Prepared
    BY <1>4 DEF SudoTool!OutputFails, SudoTool!Ends, SudoTool!Told, SudoInv
  <2> QED
    BY <1>1, <1>4, <2>1 DEF SudoTool!OutputFails, SudoTool!Ends, SudoTool!Told, SudoTypes, CallStage, ProcStage, Prepared, OneAsks, Engaged, NotRun, SudoTool!Alive
<1>5. ASSUME ~overlap', ~lockedEarly' PROVE Stoppable'
  <2>1. SudoTypes /\ ~overlap /\ OneAsks /\ Prepared /\ ~lockedEarly /\ Stoppable
    BY <1>5 DEF SudoTool!OutputFails, SudoTool!Ends, SudoTool!Told, SudoInv
  <2> QED
    BY <1>1, <1>5, <2>1 DEF SudoTool!OutputFails, SudoTool!Ends, SudoTool!Told, SudoTypes, CallStage, ProcStage, Stoppable, Prepared, OneAsks, Engaged, NotRun, SudoTool!Alive
<1> QED
  BY <1>1, <1>2, <1>3, <1>4, <1>5 DEF SudoInv

(* A process that has ended is no danger.                                   *)
LEMMA ExitsArmed ==
  ASSUME NEW c \in SudoCalls, NoHandle \notin SudoCalls, SudoInv, SudoTool!Exits(c)
  PROVE  SudoInv'
<1>1. SudoTypes'
  BY DEF SudoTool!Exits, SudoInv, SudoTypes, CallStage, ProcStage
<1>2. (~sudoOpen => password = 0)'
  BY DEF SudoTool!Exits, SudoInv
<1>3. ASSUME ~overlap' PROVE OneAsks'
  <2>1. SudoTypes /\ ~overlap /\ OneAsks /\ Prepared
    BY <1>3 DEF SudoTool!Exits, SudoInv
  <2> QED
    BY <1>1, <1>3, <2>1 DEF SudoTool!Exits, SudoTypes, CallStage, ProcStage, OneAsks, Engaged, SudoTool!Alive
<1>4. ASSUME ~overlap' PROVE Prepared'
  <2>1. SudoTypes /\ ~overlap /\ OneAsks /\ Prepared
    BY <1>4 DEF SudoTool!Exits, SudoInv
  <2> QED
    BY <1>1, <1>4, <2>1 DEF SudoTool!Exits, SudoTypes, CallStage, ProcStage, Prepared, OneAsks, Engaged, NotRun, SudoTool!Alive
<1>5. ASSUME ~overlap', ~lockedEarly' PROVE Stoppable'
  <2>1. SudoTypes /\ ~overlap /\ OneAsks /\ Prepared /\ ~lockedEarly /\ Stoppable
    BY <1>5 DEF SudoTool!Exits, SudoInv
  <2> QED
    BY <1>1, <1>5, <2>1 DEF SudoTool!Exits, SudoTypes, CallStage, ProcStage, Stoppable, Prepared, OneAsks, Engaged, NotRun, SudoTool!Alive
<1> QED
  BY <1>1, <1>2, <1>3, <1>4, <1>5 DEF SudoInv

(* A process that was killed is no danger.                                  *)
LEMMA ForceKillArmed ==
  ASSUME NEW c \in SudoCalls, NoHandle \notin SudoCalls, SudoInv, SudoTool!ForceKill(c)
  PROVE  SudoInv'
<1>1. SudoTypes'
  BY DEF SudoTool!ForceKill, SudoInv, SudoTypes, CallStage, ProcStage
<1>2. (~sudoOpen => password = 0)'
  BY DEF SudoTool!ForceKill, SudoInv
<1>3. ASSUME ~overlap' PROVE OneAsks'
  <2>1. SudoTypes /\ ~overlap /\ OneAsks /\ Prepared
    BY <1>3 DEF SudoTool!ForceKill, SudoInv
  <2> QED
    BY <1>1, <1>3, <2>1 DEF SudoTool!ForceKill, SudoTypes, CallStage, ProcStage, OneAsks, Engaged, SudoTool!Alive
<1>4. ASSUME ~overlap' PROVE Prepared'
  <2>1. SudoTypes /\ ~overlap /\ OneAsks /\ Prepared
    BY <1>4 DEF SudoTool!ForceKill, SudoInv
  <2> QED
    BY <1>1, <1>4, <2>1 DEF SudoTool!ForceKill, SudoTypes, CallStage, ProcStage, Prepared, OneAsks, Engaged, NotRun, SudoTool!Alive
<1>5. ASSUME ~overlap', ~lockedEarly' PROVE Stoppable'
  <2>1. SudoTypes /\ ~overlap /\ OneAsks /\ Prepared /\ ~lockedEarly /\ Stoppable
    BY <1>5 DEF SudoTool!ForceKill, SudoInv
  <2> QED
    BY <1>1, <1>5, <2>1 DEF SudoTool!ForceKill, SudoTypes, CallStage, ProcStage, Stoppable, Prepared, OneAsks, Engaged, NotRun, SudoTool!Alive
<1> QED
  BY <1>1, <1>2, <1>3, <1>4, <1>5 DEF SudoInv

(* A password is forgotten when its command was rejected.                   *)
LEMMA ClosedArmed ==
  ASSUME NEW c \in SudoCalls, NoHandle \notin SudoCalls, SudoInv, SudoTool!Closed(c)
  PROVE  SudoInv'
<1>1. SudoTypes'
  <2>1. SudoTypes
    BY DEF SudoInv
  <2>2. typed' \in Nat /\ typed <= typed' /\ password' \in Nat /\ password' <= typed'
    BY <2>1 DEF SudoTool!Closed, SudoTool!Ends, SudoTool!Lock, SudoTypes
  <2>3. zeroed' \subseteq zeroed \cup ({typed', password} \cap Nat)
    BY <2>1, <2>2 DEF SudoTool!Closed, SudoTool!Ends, SudoTool!Lock, SudoTypes
  <2>4. zeroed' \subseteq Nat /\ \A buffer \in zeroed' : buffer <= typed'
    BY <2>1, <2>2, <2>3 DEF SudoTypes
  <2>5. uses' \in [SudoCalls -> Nat]
    BY <2>1, <2>2 DEF SudoTool!Closed, SudoTool!Ends, SudoTool!Lock, SudoTypes
  <2>6. \A d \in SudoCalls : uses'[d] <= typed'
    <3> SUFFICES ASSUME NEW d \in SudoCalls PROVE uses'[d] <= typed'
      OBVIOUS
    <3>1. uses'[d] \in {uses[d], typed'}
      BY <2>1 DEF SudoTool!Closed, SudoTool!Ends, SudoTool!Lock, SudoTypes
    <3> QED
      BY <3>1, <2>1, <2>2 DEF SudoTypes
  <2>7. /\ call' \in [SudoCalls -> CallStage] /\ command' = command /\ told' = told
        /\ handle' \in {handle, NoHandle}
    BY <2>1 DEF SudoTool!Closed, SudoTool!Ends, SudoTool!Lock, SudoTypes, CallStage
  <2> QED
    BY <2>1, <2>2, <2>4, <2>5, <2>6, <2>7 DEF SudoTypes
<1>2. (~sudoOpen => password = 0)'
  BY DEF SudoTool!Closed, SudoTool!Ends, SudoTool!Lock, SudoInv
<1>3. ASSUME ~overlap' PROVE OneAsks'
  <2>1. SudoTypes /\ ~overlap /\ OneAsks /\ Prepared
    BY <1>3 DEF SudoTool!Closed, SudoTool!Ends, SudoTool!Lock, SudoInv
  <2> QED
    BY <1>1, <1>3, <2>1 DEF SudoTool!Closed, SudoTool!Ends, SudoTool!Lock, SudoTypes, CallStage, ProcStage, OneAsks, Engaged, SudoTool!Alive
<1>4. ASSUME ~overlap' PROVE Prepared'
  <2>1. SudoTypes /\ ~overlap /\ OneAsks /\ Prepared
    BY <1>4 DEF SudoTool!Closed, SudoTool!Ends, SudoTool!Lock, SudoInv
  <2> QED
    BY <1>1, <1>4, <2>1 DEF SudoTool!Closed, SudoTool!Ends, SudoTool!Lock, SudoTypes, CallStage, ProcStage, Prepared, OneAsks, Engaged, NotRun, SudoTool!Alive
<1>5. ASSUME ~overlap', ~lockedEarly' PROVE Stoppable'
  <2>1. SudoTypes /\ ~overlap /\ OneAsks /\ Prepared /\ ~lockedEarly /\ Stoppable
    BY <1>5 DEF SudoTool!Closed, SudoTool!Ends, SudoTool!Lock, SudoInv
  <2> QED
    BY <1>1, <1>5, <2>1 DEF SudoTool!Closed, SudoTool!Ends, SudoTool!Lock, SudoTypes, CallStage, ProcStage, Stoppable, Prepared, OneAsks, Engaged, NotRun, SudoTool!Alive
<1> QED
  BY <1>1, <1>2, <1>3, <1>4, <1>5 DEF SudoInv

(* A lock while a command runs is told of.                                  *)
LEMMA SudoLockArmed ==
  ASSUME NoHandle \notin SudoCalls, SudoInv, SudoTool!SudoLock
  PROVE  SudoInv'
<1>1. SudoTypes'
  BY DEF SudoTool!SudoLock, SudoTool!Lock, SudoInv, SudoTypes, CallStage, ProcStage
<1>2. (~sudoOpen => password = 0)'
  BY DEF SudoTool!SudoLock, SudoTool!Lock, SudoInv
<1>3. ASSUME ~overlap' PROVE OneAsks'
  <2>1. SudoTypes /\ ~overlap /\ OneAsks /\ Prepared
    BY <1>3 DEF SudoTool!SudoLock, SudoTool!Lock, SudoInv
  <2> QED
    BY <1>1, <1>3, <2>1 DEF SudoTool!SudoLock, SudoTool!Lock, SudoTypes, CallStage, ProcStage, OneAsks, Engaged, SudoTool!Alive
<1>4. ASSUME ~overlap' PROVE Prepared'
  <2>1. SudoTypes /\ ~overlap /\ OneAsks /\ Prepared
    BY <1>4 DEF SudoTool!SudoLock, SudoTool!Lock, SudoInv
  <2> QED
    BY <1>1, <1>4, <2>1 DEF SudoTool!SudoLock, SudoTool!Lock, SudoTypes, CallStage, ProcStage, Prepared, OneAsks, Engaged, NotRun, SudoTool!Alive
<1>5. ASSUME ~overlap', ~lockedEarly' PROVE Stoppable'
  <2>1. SudoTypes /\ ~overlap /\ OneAsks /\ Prepared /\ ~lockedEarly /\ Stoppable
    BY <1>5 DEF SudoTool!SudoLock, SudoTool!Lock, SudoInv
  <2> QED
    BY <1>1, <1>5, <2>1 DEF SudoTool!SudoLock, SudoTool!Lock, SudoTypes, CallStage, ProcStage, Stoppable, Prepared, OneAsks, Engaged, NotRun, SudoTool!Alive
<1> QED
  BY <1>1, <1>2, <1>3, <1>4, <1>5 DEF SudoInv

(* The active command is stopped before the password is wiped.              *)
LEMMA ShutdownArmed ==
  ASSUME NoHandle \notin SudoCalls, SudoInv, SudoTool!Shutdown
  PROVE  SudoInv'
<1>1. SudoTypes'
  BY DEF SudoTool!Shutdown, SudoTool!Lock, SudoTool!Told, SudoInv, SudoTypes, CallStage, ProcStage
<1>2. (~sudoOpen => password = 0)'
  BY DEF SudoTool!Shutdown, SudoTool!Lock, SudoTool!Told, SudoInv
<1>3. ASSUME ~overlap' PROVE OneAsks'
  <2>1. SudoTypes /\ ~overlap /\ OneAsks /\ Prepared
    BY <1>3 DEF SudoTool!Shutdown, SudoTool!Lock, SudoTool!Told, SudoInv
  <2> QED
    BY <1>1, <1>3, <2>1 DEF SudoTool!Shutdown, SudoTool!Lock, SudoTool!Told, SudoTypes, CallStage, ProcStage, OneAsks, Engaged, SudoTool!Alive
<1>4. ASSUME ~overlap' PROVE Prepared'
  <2>1. SudoTypes /\ ~overlap /\ OneAsks /\ Prepared
    BY <1>4 DEF SudoTool!Shutdown, SudoTool!Lock, SudoTool!Told, SudoInv
  <2> QED
    BY <1>1, <1>4, <2>1 DEF SudoTool!Shutdown, SudoTool!Lock, SudoTool!Told, SudoTypes, CallStage, ProcStage, Prepared, OneAsks, Engaged, NotRun, SudoTool!Alive
<1>5. ASSUME ~overlap', ~lockedEarly' PROVE Stoppable'
  <2>1. SudoTypes /\ ~overlap /\ OneAsks /\ Prepared /\ ~lockedEarly /\ Stoppable
    BY <1>5 DEF SudoTool!Shutdown, SudoTool!Lock, SudoTool!Told, SudoInv
  <2> QED
    BY <1>1, <1>5, <2>1 DEF SudoTool!Shutdown, SudoTool!Lock, SudoTool!Told, SudoTypes, CallStage, ProcStage, Stoppable, Prepared, OneAsks, Engaged, NotRun, SudoTool!Alive
<1> QED
  BY <1>1, <1>2, <1>3, <1>4, <1>5 DEF SudoInv

(* Every step of the tool keeps all of it, and steps of others do.            *)
LEMMA StepSudo ==
  ASSUME NoHandle \notin SudoCalls, SudoInv, [SudoTool!Next]_(SudoTool!sudoVars)
  PROVE  SudoInv'
<1>1. CASE UNCHANGED SudoTool!sudoVars
  BY <1>1 DEF SudoTool!sudoVars, SudoInv, SudoTypes, OneAsks, Prepared, Stoppable, NotRun, Engaged,
              SudoTool!Alive
<1>2. ASSUME NEW c \in SudoCalls,
             \/ SudoTool!Ask(c) \/ SudoTool!Confirmed(c) \/ SudoTool!Typed(c)
             \/ SudoTool!Declined(c) \/ SudoTool!Spawned(c) \/ SudoTool!Abort(c)
             \/ SudoTool!OutputFails(c) \/ SudoTool!Exits(c) \/ SudoTool!ForceKill(c)
             \/ SudoTool!Closed(c)
      PROVE  SudoInv'
  BY <1>2, AskArmed, ConfirmedArmed, TypedArmed, DeclinedArmed, SpawnedArmed, AbortArmed,
     OutputFailsArmed, ExitsArmed, ForceKillArmed, ClosedArmed
<1>3. CASE SudoTool!SudoLock
  BY <1>3, SudoLockArmed
<1>4. CASE SudoTool!Shutdown
  BY <1>4, ShutdownArmed
<1> QED
  BY Zenon, <1>1, <1>2, <1>3, <1>4 DEF SudoTool!Next

(* At any time.                                                             *)
LEMMA SudoAlways == Extensions => []SudoInv
<1>1. ExtensionsInit => SudoInv
  BY InitSudo, ExtensionsAssumption DEF ExtensionsInit, ExtensionsAssumption
<1>2. SudoInv /\ [ExtensionsNext]_everything => SudoInv'
  BY StepSudo, OneAtATime, ExtensionsAssumption DEF ExtensionsAssumption
<1> QED
  BY <1>1, <1>2, PTL DEF Extensions

(* When a session has ended in which no two calls overlapped and no password  *)
(* was locked under a command (sudo/index.ts, 266), a command that still runs *)
(* was stopped while the password was there: its killer has it.             *)
THEOREM ShutdownArms == Extensions => []SudoTool!KillerArmed
<1>1. SudoInv => SudoTool!KillerArmed
  BY DEF SudoInv, Stoppable, SudoTool!KillerArmed
<1> QED
  BY <1>1, SudoAlways, PTL

------------------------------------------------------------------------------
(***************************************************************************)
(* Every guide on the way to a file that was read is given once or reported, *)
(* and what is given stays within the budgets, for any guides, lengths,    *)
(* paths, budgets and number of reads.                                    *)
(***************************************************************************)

(* The running sums of the lengths of the blocks of some kind *)
IsSum(f, blocks, kind) ==
  f = [n \in 0 .. Len(blocks) |->
         IF n = 0 THEN 0
         ELSE f[n - 1] + (IF blocks[n] \in kind THEN blocks[n].length ELSE 0)]

SumIs(blocks, kind, sum) ==
  /\ sum \in Nat
  /\ \E f : IsSum(f, blocks, kind)
  /\ \A f : IsSum(f, blocks, kind) => f[Len(blocks)] = sum

(* Nothing has no length.                                                   *)
LEMMA SumOfNone ==
  ASSUME NEW kind
  PROVE  SumIs(<<>>, kind, 0)
<1>1. IsSum([n \in 0 .. 0 |-> 0], <<>>, kind)
  BY DEF IsSum
<1>2. ASSUME NEW f, IsSum(f, <<>>, kind) PROVE f[0] = 0
  <2>1. f[0] = [n \in 0 .. 0 |->
                  IF n = 0 THEN 0
                  ELSE f[n - 1] + (IF <<>>[n] \in kind THEN <<>>[n].length ELSE 0)][0]
    BY <1>2 DEF IsSum
  <2> QED
    BY <2>1
<1> QED
  BY <1>1, <1>2 DEF SumIs

(* A block adds its length to the sums it counts in.                        *)
LEMMA SumGrows ==
  ASSUME NEW s \in Seq(Guidance!Block), NEW b \in Guidance!Block, NEW kind, NEW sum,
         Sizes \subseteq Nat, SumIs(s, kind, sum)
  PROVE  SumIs(Append(s, b), kind, sum + (IF b \in kind THEN b.length ELSE 0))
<1> DEFINE w == IF b \in kind THEN b.length ELSE 0
           W(q, n) == IF q[n] \in kind THEN q[n].length ELSE 0
           t == Append(s, b)
<1>1. Len(s) \in Nat /\ Len(t) = Len(s) + 1 /\ w \in Nat /\ W(t, Len(s) + 1) = w /\ sum \in Nat
  <2>1. b.length \in Nat
    <3>1. b.length \in Sizes \cup {1}
      BY DEF Guidance!Block
    <3>2. Sizes \cup {1} \subseteq Nat
      OBVIOUS
    <3> QED
      BY Zenon, <3>1, <3>2
  <2>2. Len(s) \in Nat /\ Len(t) = Len(s) + 1 /\ t[Len(s) + 1] = b
    OBVIOUS
  <2> QED
    BY <2>1, <2>2 DEF SumIs
<1>2. \A n \in 1 .. Len(s) : W(t, n) = W(s, n)
  BY <1>1
<1> HIDE DEF W, t
<1>3. \E f : IsSum(f, t, kind)
  <2>1. PICK f : f = [n \in 0 .. Len(s) |-> IF n = 0 THEN 0 ELSE f[n - 1] + W(s, n)]
    BY DEF SumIs, IsSum, W
  <2> DEFINE g == [n \in 0 .. Len(s) + 1 |-> IF n = Len(s) + 1 THEN f[Len(s)] + w ELSE f[n]]
  <2>2. ASSUME NEW n \in 0 .. Len(t)
        PROVE  g[n] = IF n = 0 THEN 0 ELSE g[n - 1] + W(t, n)
    <3>1. CASE n = 0
      BY <3>1, <2>1, <1>1
    <3>2. CASE n \in 1 .. Len(s)
      BY <3>2, <2>1, <1>1, <1>2
    <3>3. CASE n = Len(s) + 1
      BY <3>3, <2>1, <1>1, <1>2
    <3> QED
      BY <3>1, <3>2, <3>3, <1>1
  <2>3. g = [n \in 0 .. Len(t) |-> IF n = 0 THEN 0 ELSE g[n - 1] + W(t, n)]
    <3>1. g = [n \in 0 .. Len(t) |-> g[n]]
      BY <1>1
    <3> HIDE DEF g
    <3> QED
      BY <2>2, <3>1
  <2> QED
    BY <2>3 DEF IsSum, W
<1>4. ASSUME NEW f, IsSum(f, t, kind) PROVE f[Len(t)] = sum + w
  <2>1. f = [n \in 0 .. Len(t) |-> IF n = 0 THEN 0 ELSE f[n - 1] + W(t, n)]
    BY <1>4 DEF IsSum, W
  <2> DEFINE h == [n \in 0 .. Len(s) |-> f[n]]
  <2>2. ASSUME NEW n \in 0 .. Len(t)
        PROVE  f[n] = IF n = 0 THEN 0 ELSE f[n - 1] + W(t, n)
    BY <2>1
  <2>3. ASSUME NEW n \in 0 .. Len(s)
        PROVE  h[n] = IF n = 0 THEN 0 ELSE h[n - 1] + W(s, n)
    <3>1. CASE n = 0
      BY <3>1, <2>2, <1>1
    <3>2. CASE n \in 1 .. Len(s)
      <4>1. f[n] = f[n - 1] + W(t, n)
        BY <3>2, <2>2, <1>1
      <4> QED
        BY <3>2, <4>1, <1>1, <1>2
    <3> QED
      BY <3>1, <3>2, <1>1
  <2>4. h = [n \in 0 .. Len(s) |-> IF n = 0 THEN 0 ELSE h[n - 1] + W(s, n)]
    <3>1. h = [n \in 0 .. Len(s) |-> h[n]]
      BY <1>1
    <3> HIDE DEF h
    <3> QED
      BY <2>3, <3>1
  <2>5. IsSum(h, s, kind)
    BY <2>4 DEF IsSum, W
  <2>6. h[Len(s)] = sum
    BY <2>5 DEF SumIs
  <2> HIDE DEF w
  <2>7. f[Len(t)] = f[Len(s)] + w
    BY <2>2, <1>1
  <2> QED
    BY <2>6, <2>7, <1>1
<1> QED
  BY <1>1, <1>3, <1>4 DEF SumIs, t

(* The running sums of a sequence are unique, so Bytes is the last of them.   *)
LEMMA BytesIs ==
  ASSUME NEW kind, NEW sum, SumIs(added, kind, sum)
  PROVE  Guidance!Bytes(kind) = sum
<1> DEFINE P(f) == f = [n \in 0 .. Len(added) |->
                          IF n = 0 THEN 0
                          ELSE f[n - 1] + (IF added[n] \in kind THEN added[n].length ELSE 0)]
<1>1. \E f : P(f)
  BY DEF SumIs, IsSum
<1>2. P(CHOOSE f : P(f))
  BY <1>1, Zenon
<1>3. Guidance!Bytes(kind) = (CHOOSE f : P(f))[Len(added)]
  BY Zenon DEF Guidance!Bytes
<1> QED
  BY <1>2, <1>3 DEF SumIs, IsSum

(* What a request is about, and how far it is. *)
GuideTypes ==
  /\ Sizes \subseteq Nat /\ Paths \subseteq Seq(Guides \cup {NoGuide}) /\ MaxReads \in Nat
  /\ Activation \in Nat \ {0} /\ Context \in Nat \ {0} /\ Notices \in Nat \ {0}
  /\ Guidance!TypeOK /\ at \in Nat /\ Len(reads) <= MaxReads

UnderWay ==
  /\ at = 0 => reads = <<>> /\ guideSize = [g \in Guides |-> 0]
  /\ at > 0 => guideSize \in [Guides -> Sizes]
  /\ at <= Len(reads) + 2 /\ (todo # <<>> => at \in 2 .. Len(reads) + 1)
  /\ at < 2 => added = <<>> /\ seen = {} /\ unreported = {} /\ noticeIndex = 0
  /\ at < Len(reads) + 2 => summary = 0

(* The counters are the lengths of what was added, and leave the reserve. *)
Counts ==
  /\ SumIs(added, Guidance!Block, contextBytes) /\ contextBytes <= Context - 1
  /\ SumIs(added, Guidance!OnlyNotices, noticeBytes) /\ noticeBytes <= Notices - 1
  /\ activationBytes <= Activation - 1
  /\ \A i \in DOMAIN reads :
       /\ i >= at => SumIs(added, Guidance!OfRead(i), 0)
       /\ i = at - 1 => SumIs(added, Guidance!OfRead(i), activationBytes)
       /\ \E sum \in 0 .. Activation - 1 : SumIs(added, Guidance!OfRead(i), sum)

(* What was seen was given once, or is known, or will be reported. *)
Given ==
  /\ \A i \in DOMAIN added : added[i].guide \in seen \ known
  /\ \A i, j \in DOMAIN added : added[i].guide = added[j].guide => i = j
  /\ \A g \in seen : \/ g \in known \/ g \in unreported
                     \/ \E i \in DOMAIN added : added[i].guide = g

(* What is on the way to a file that was visited was seen, or is still to do. *)
Reached ==
  /\ \A i \in DOMAIN reads : i < at =>
       \A j \in DOMAIN reads[i] :
         \/ reads[i][j] \in seen \cup {NoGuide}
         \/ i = at - 1 /\ \E k \in DOMAIN todo : todo[k] = reads[i][j]
  /\ unreported # {} \/ todo # <<>> => noticeIndex # 0
  /\ Guidance!Done => (unreported # {} => summary # 0)

GuidesInv == GuideTypes /\ UnderWay /\ Counts /\ Given /\ Reached

(* A request begins with nothing.                                           *)
LEMMA InitGuides ==
  ASSUME Guidance!Init, Sizes \subseteq Nat, Paths \subseteq Seq(Guides \cup {NoGuide}),
         MaxReads \in Nat,
         Activation \in Nat \ {0}, Context \in Nat \ {0}, Notices \in Nat \ {0}
  PROVE  GuidesInv
<1>1. GuideTypes
  BY DEF Guidance!Init, GuideTypes, Guidance!TypeOK
<1>2. UnderWay
  BY DEF Guidance!Init, UnderWay
<1>3. Counts
  BY SumOfNone DEF Guidance!Init, Counts
<1>4. Given /\ Reached
  BY DEF Guidance!Init, Given, Reached, Guidance!Done
<1> QED
  BY <1>1, <1>2, <1>3, <1>4 DEF GuidesInv

(* The reads and the guides are there, and nothing was added.                *)
LEMMA RequestKeeps ==
  ASSUME GuidesInv, Guidance!Request
  PROVE  GuidesInv'
<1>1. PICK n \in 1 .. MaxReads : reads' \in [1 .. n -> Paths]
  BY DEF Guidance!Request
<1>2. reads' \in Seq(Paths) /\ Len(reads') = n /\ DOMAIN reads' = 1 .. n /\ n \in Nat /\ n <= MaxReads
  BY <1>1 DEF GuidesInv, GuideTypes
<1>3. at = 0 /\ at' = 1 /\ guideSize' \in [Guides -> Sizes] /\ unfit' \subseteq Guides /\ known' \subseteq Guides
      /\ UNCHANGED <<todo, added, seen, activationBytes, contextBytes, noticeBytes, unreported,
                     noticeIndex, summary>>
  BY DEF Guidance!Request
<1>4. added = <<>> /\ seen = {} /\ unreported = {} /\ noticeIndex = 0 /\ todo = <<>> /\ summary = 0
      /\ Len(reads) = 0
  BY <1>3 DEF GuidesInv, UnderWay, GuideTypes
<1>5. GuideTypes'
  <2>1. guideSize' \in [Guides -> Sizes \cup {0}]
    BY <1>3
  <2> QED
    BY <2>1, <1>2, <1>3, <1>4 DEF GuidesInv, GuideTypes, Guidance!TypeOK
<1>6. UnderWay'
  BY <1>2, <1>3, <1>4 DEF UnderWay
<1>7. Counts'
  <2>1. \A i : SumIs(added', Guidance!OfRead(i), 0)
    BY <1>3, <1>4, SumOfNone
  <2>2. 0 \in 0 .. Activation - 1
    BY DEF GuidesInv, GuideTypes
  <2>3. Counts /\ \A i \in DOMAIN reads' : i # at' - 1
    BY <1>2, <1>3 DEF GuidesInv
  <2> QED
    BY <2>1, <2>2, <2>3, <1>3 DEF Counts, Guidance!OfRead, Guidance!OnlyNotices, Guidance!Block
<1>8. Given' /\ Reached'
  BY <1>2, <1>3, <1>4 DEF Given, Reached, Guidance!Done
<1> QED
  BY <1>5, <1>6, <1>7, <1>8 DEF GuidesInv

(* The path of the next read is to do.                                      *)
LEMMA VisitKeeps ==
  ASSUME GuidesInv, Guidance!Visit
  PROVE  GuidesInv'
<1>1. /\ at \in 1 .. Len(reads) /\ todo = <<>> /\ at' = at + 1 /\ todo' = reads[at]
      /\ activationBytes' = 0 /\ at \in DOMAIN reads /\ DOMAIN reads = 1 .. Len(reads) /\ Len(reads) \in Nat
      /\ noticeIndex' = IF noticeIndex = 0 /\ reads[at] # <<>> THEN at ELSE noticeIndex
      /\ UNCHANGED <<reads, guideSize, unfit, known, added, seen, contextBytes, noticeBytes, unreported, summary>>
  BY DEF Guidance!Visit, Guidance!inputs, GuidesInv, GuideTypes, Guidance!TypeOK
<1>2. todo' \in Seq(Guides \cup {NoGuide})
  BY <1>1 DEF GuidesInv, GuideTypes, Guidance!TypeOK
<1>3. noticeIndex' \in 0 .. MaxReads /\ (todo' # <<>> \/ noticeIndex # 0 => noticeIndex' # 0)
  BY <1>1 DEF GuidesInv, GuideTypes, Guidance!TypeOK
<1>4. GuideTypes'
  BY SMTT(30), <1>1, <1>2, <1>3 DEF GuidesInv, GuideTypes, Guidance!TypeOK, Guidance!Block
<1>5. UnderWay'
  <2>1. reads # <<>>
    BY <1>1
  <2>2. at' >= 2 /\ at' <= Len(reads) + 1 /\ summary' = 0 /\ guideSize' \in [Guides -> Sizes]
    BY <1>1 DEF GuidesInv, UnderWay
  <2> QED
    BY <1>1, <2>2 DEF UnderWay
<1>6. Counts'
  <2>1. Counts /\ 0 <= Activation - 1
    BY DEF GuidesInv, GuideTypes
  <2>2. SumIs(added, Guidance!OfRead(at), 0)
    BY <1>1, <2>1 DEF Counts
  <2>3. ASSUME NEW i \in DOMAIN reads
        PROVE  /\ i >= at + 1 => SumIs(added, Guidance!OfRead(i), 0)
               /\ i = at => SumIs(added, Guidance!OfRead(i), 0)
               /\ \E sum \in 0 .. Activation - 1 : SumIs(added, Guidance!OfRead(i), sum)
    BY <1>1, <2>1, <2>2 DEF Counts
  <2>4. at' - 1 = at /\ added' = added /\ DOMAIN reads' = DOMAIN reads
    BY <1>1
  <2>5. \A i : Guidance!OfRead(i)' = Guidance!OfRead(i)
    BY DEF Guidance!OfRead, Guidance!Block
  <2>6. Guidance!OnlyNotices' = Guidance!OnlyNotices /\ Guidance!Block' = Guidance!Block
    BY DEF Guidance!OnlyNotices, Guidance!Block
  <2> QED
    BY <1>1, <2>1, <2>3, <2>4, <2>5, <2>6 DEF Counts
<1>7. Given'
  BY <1>1 DEF GuidesInv, Given
<1>8. Reached'
  <2>1. ASSUME NEW i \in DOMAIN reads, i < at + 1, NEW j \in DOMAIN reads[i]
        PROVE  \/ reads[i][j] \in seen \cup {NoGuide}
               \/ i = at /\ \E k \in DOMAIN reads[at] : reads[at][k] = reads[i][j]
    BY <1>1, <2>1 DEF GuidesInv, Reached
  <2>2. ~Guidance!Done'
    BY <1>1 DEF Guidance!Done
  <2>3. unreported' # {} \/ todo' # <<>> => noticeIndex' # 0
    BY <1>1, <1>3 DEF GuidesInv, Reached
  <2> QED
    BY <1>1, <2>1, <2>2, <2>3 DEF Reached
<1> QED
  BY <1>4, <1>5, <1>6, <1>7, <1>8 DEF GuidesInv

(* The end of a request is told of in a last notice.                         *)
LEMMA SummariseKeeps ==
  ASSUME GuidesInv, Guidance!Summarise
  PROVE  GuidesInv'
<1>1. /\ at = Len(reads) + 1 /\ todo = <<>> /\ at' = at + 1 /\ Len(reads) \in Nat
      /\ summary' = IF unreported = {} THEN 0 ELSE noticeIndex
      /\ UNCHANGED <<reads, guideSize, unfit, known, todo, added, seen, activationBytes, contextBytes,
                     noticeBytes, unreported, noticeIndex>>
      /\ DOMAIN reads = 1 .. Len(reads)
  BY DEF Guidance!Summarise, Guidance!inputs, GuidesInv, GuideTypes, Guidance!TypeOK
<1>2. GuideTypes'
  BY <1>1 DEF GuidesInv, GuideTypes, Guidance!TypeOK, Guidance!Block
<1>3. UnderWay'
  BY <1>1 DEF GuidesInv, UnderWay
<1>4. Counts'
  <2>2. Counts /\ \A i \in DOMAIN reads : i # at' - 1 /\ ~(i >= at')
    BY <1>1 DEF GuidesInv
  <2>5. \A i : Guidance!OfRead(i)' = Guidance!OfRead(i)
    BY DEF Guidance!OfRead, Guidance!Block
  <2>6. Guidance!OnlyNotices' = Guidance!OnlyNotices /\ Guidance!Block' = Guidance!Block
    BY DEF Guidance!OnlyNotices, Guidance!Block
  <2> QED
    BY <1>1, <2>2, <2>5, <2>6 DEF Counts
<1>5. Given'
  BY <1>1 DEF GuidesInv, Given
<1>6. Reached'
  BY <1>1 DEF GuidesInv, Reached, Guidance!Done
<1> QED
  BY <1>2, <1>3, <1>4, <1>5, <1>6 DEF GuidesInv

(* The next request begins with nothing.                                    *)
LEMMA AnswerKeeps ==
  ASSUME GuidesInv, Guidance!Answer
  PROVE  GuidesInv'
<1>1. /\ reads' = <<>> /\ guideSize' = [g \in Guides |-> 0] /\ unfit' = {} /\ known' = {}
      /\ at' = 0 /\ added' = <<>> /\ seen' = {} /\ activationBytes' = 0 /\ contextBytes' = 0
      /\ noticeBytes' = 0 /\ unreported' = {} /\ noticeIndex' = 0 /\ summary' = 0 /\ todo' = <<>>
  BY DEF Guidance!Answer, Guidance!Done, GuidesInv, UnderWay, GuideTypes, Guidance!TypeOK
<1>2. GuideTypes'
  BY <1>1 DEF GuidesInv, GuideTypes, Guidance!TypeOK, Guidance!Block
<1>3. UnderWay'
  BY <1>1 DEF UnderWay
<1>4. Counts'
  BY <1>1, SumOfNone DEF GuidesInv, GuideTypes, Counts
<1>5. Given' /\ Reached'
  BY <1>1 DEF Given, Reached, Guidance!Done
<1> QED
  BY <1>2, <1>3, <1>4, <1>5 DEF GuidesInv

(* A block that fits is counted in the sums that it is part of.              *)
LEMMA AddCounts ==
  ASSUME GuideTypes, Counts, at - 1 \in DOMAIN reads,
         NEW b \in Guidance!Block, b.read = at - 1, added' = Append(added, b),
         contextBytes' = contextBytes + b.length, contextBytes' <= Context - 1,
         activationBytes' = activationBytes + b.length, activationBytes' <= Activation - 1,
         noticeBytes' = noticeBytes + (IF b.kind = "notice" THEN b.length ELSE 0),
         noticeBytes' <= Notices - 1, reads' = reads, at' = at
  PROVE  Counts'
<1>1. added \in Seq(Guidance!Block) /\ Sizes \subseteq Nat /\ DOMAIN reads = 1 .. Len(reads)
      /\ Len(reads) \in Nat /\ at \in Nat /\ activationBytes \in Nat /\ Activation \in Nat
  <2>1. added \in Seq(Guidance!Block) /\ Sizes \subseteq Nat /\ at \in Nat /\ reads \in Seq(Paths)
        /\ Activation \in Nat
    BY Zenon DEF GuideTypes, Guidance!TypeOK
  <2>2. activationBytes \in Nat
    BY DEF GuideTypes, Guidance!TypeOK
  <2> QED
    BY <2>1, <2>2
<1>2. b.length \in Nat
  <2>1. b.length \in Sizes \cup {1}
    BY DEF Guidance!Block
  <2>2. Sizes \cup {1} \subseteq Nat
    BY <1>1
  <2> QED
    BY Zenon, <2>1, <2>2
<1>3. ASSUME NEW kind, NEW sum, SumIs(added, kind, sum)
      PROVE  SumIs(added', kind, sum + (IF b \in kind THEN b.length ELSE 0))
  BY <1>1, <1>3, SumGrows
<1>4. SumIs(added', Guidance!Block, contextBytes')
  BY <1>3 DEF Counts
<1>5. SumIs(added', Guidance!OnlyNotices, noticeBytes')
  <2>1. b \in Guidance!OnlyNotices <=> b.kind = "notice"
    BY DEF Guidance!OnlyNotices
  <2> QED
    BY <1>3, <2>1 DEF Counts
<1>6. ASSUME NEW i \in DOMAIN reads
      PROVE  /\ i >= at => SumIs(added', Guidance!OfRead(i), 0)
             /\ i = at - 1 => SumIs(added', Guidance!OfRead(i), activationBytes')
             /\ \E sum \in 0 .. Activation - 1 : SumIs(added', Guidance!OfRead(i), sum)
  <2>1. b \in Guidance!OfRead(i) <=> i = at - 1
    BY DEF Guidance!OfRead
  <2>2. CASE i = at - 1
    <3>1. SumIs(added', Guidance!OfRead(i), activationBytes')
      BY <1>3, <2>1, <2>2 DEF Counts
    <3>2. activationBytes' \in 0 .. Activation - 1
      BY SMTT(20), <1>1, <1>2
    <3>3. ~(i >= at)
      BY <1>1, <2>2
    <3> QED
      BY <3>1, <3>2, <3>3
  <2>3. CASE i # at - 1
    <3>1. ASSUME NEW sum \in Nat, SumIs(added, Guidance!OfRead(i), sum)
          PROVE  SumIs(added', Guidance!OfRead(i), sum)
      <4>1. SumIs(added', Guidance!OfRead(i), sum + 0)
        BY <1>3, <2>1, <2>3, <3>1
      <4> QED
        BY <4>1
    <3>2. PICK sum \in 0 .. Activation - 1 : SumIs(added, Guidance!OfRead(i), sum)
      BY DEF Counts
    <3>3. sum \in Nat
      BY <3>2 DEF GuideTypes
    <3>4. SumIs(added', Guidance!OfRead(i), sum)
      BY <3>1, <3>2, <3>3
    <3>5. i >= at => SumIs(added', Guidance!OfRead(i), 0)
      BY <3>1 DEF Counts
    <3> QED
      BY <3>4, <3>5, <2>3
  <2> QED
    BY <2>2, <2>3
<1>7. \A i : Guidance!OfRead(i)' = Guidance!OfRead(i)
  BY DEF Guidance!OfRead, Guidance!Block
<1>8. Guidance!OnlyNotices' = Guidance!OnlyNotices /\ Guidance!Block' = Guidance!Block
  BY DEF Guidance!OnlyNotices, Guidance!Block
<1> QED
  BY <1>4, <1>5, <1>6, <1>7, <1>8 DEF Counts

(* What is to do gets shorter by what is considered.                        *)
LEMMA TodoShrinks ==
  ASSUME todo \in Seq(Guides \cup {NoGuide}), todo # <<>>, todo' = Tail(todo)
  PROVE  /\ todo' \in Seq(Guides \cup {NoGuide}) /\ Head(todo) \in Guides \cup {NoGuide}
         /\ \A k \in DOMAIN todo :
              todo[k] = Head(todo) \/ \E l \in DOMAIN todo' : todo'[l] = todo[k]
<1>1. ASSUME NEW k \in DOMAIN todo, k # 1 PROVE k - 1 \in DOMAIN todo' /\ todo'[k - 1] = todo[k]
  BY <1>1
<1> QED
  BY <1>1

(* A guide is given, known, announced or counted.                           *)
LEMMA ConsiderKeeps ==
  ASSUME GuidesInv, Guidance!Consider
  PROVE  GuidesInv'
<1> DEFINE g == Head(todo)
           fresh == g # NoGuide /\ g \notin seen
           used == <<added, activationBytes, contextBytes, noticeBytes, unreported>>
           b(kind, length) == [guide |-> g, kind |-> kind, length |-> length, read |-> at - 1]
<1>1. /\ todo # <<>> /\ todo' = Tail(todo)
      /\ UNCHANGED <<reads, guideSize, unfit, known, at, noticeIndex, summary>>
      /\ GuideTypes /\ UnderWay /\ Counts /\ Given /\ Reached
  BY DEF Guidance!Consider, Guidance!inputs, GuidesInv
<1>2. /\ todo' \in Seq(Guides \cup {NoGuide}) /\ g \in Guides \cup {NoGuide}
      /\ \A k \in DOMAIN todo : todo[k] = g \/ \E l \in DOMAIN todo' : todo'[l] = todo[k]
  BY <1>1, TodoShrinks DEF GuideTypes, Guidance!TypeOK
<1>3. /\ at \in 2 .. Len(reads) + 1 /\ at - 1 \in DOMAIN reads /\ at - 1 \in 1 .. MaxReads
      /\ ~Guidance!Done /\ Len(reads) \in Nat
  BY SMTT(30), <1>1 DEF UnderWay, GuideTypes, Guidance!TypeOK, Guidance!Done
<1>4. seen' = IF fresh THEN seen \cup {g} ELSE seen
  BY DEF Guidance!Consider
<1>5. \/ (~fresh \/ g \in known) /\ UNCHANGED used
      \/ /\ fresh /\ g \notin known /\ unreported' = unreported \cup {g}
         /\ UNCHANGED <<added, activationBytes, contextBytes, noticeBytes>>
      \/ \E kind \in {"guide", "notice"}, length \in Sizes \cup {1} :
           /\ fresh /\ g \notin known /\ added' = Append(added, b(kind, length))
           /\ contextBytes' = contextBytes + length /\ contextBytes + length <= Context - 1
           /\ activationBytes' = activationBytes + length
           /\ activationBytes + length <= Activation - 1
           /\ noticeBytes' = noticeBytes + (IF kind = "notice" THEN length ELSE 0)
           /\ noticeBytes' <= Notices - 1 /\ unreported' = unreported
  <2>1. CASE ~fresh \/ g \in known
    BY <2>1 DEF Guidance!Consider
  <2>2. CASE fresh /\ g \notin known /\ Guidance!Loadable(g)
    <3>1. Guidance!Load(g)
      BY <2>2 DEF Guidance!Consider
    <3>2. guideSize[g] \in Sizes
      BY <1>1, <1>2, <1>3, <2>2 DEF UnderWay
    <3>3. added' = Append(added, b("guide", guideSize[g])) /\ unreported' = unreported
          /\ noticeBytes' = noticeBytes
          /\ contextBytes' = contextBytes + guideSize[g]
          /\ activationBytes' = activationBytes + guideSize[g]
      BY <3>1 DEF Guidance!Load, Guidance!Add
    <3>4. contextBytes + guideSize[g] <= Context - 1
          /\ activationBytes + guideSize[g] <= Activation - 1
      BY <2>2 DEF Guidance!Loadable, Guidance!Fits, Guidance!Reserve
    <3>5. noticeBytes <= Notices - 1 /\ noticeBytes + 0 = noticeBytes
      BY <1>1 DEF Counts, GuideTypes, Guidance!TypeOK
    <3> QED
      BY <2>2, <3>2, <3>3, <3>4, <3>5
  <2>3. CASE fresh /\ g \notin known /\ ~Guidance!Loadable(g)
    <3>1. Guidance!Omit(g)
      BY <2>3 DEF Guidance!Consider
    <3> QED
      BY <2>3, <3>1 DEF Guidance!Omit, Guidance!Add, Guidance!Fits, Guidance!Reserve
  <2> QED
    BY <2>1, <2>2, <2>3
<1>6. UnderWay'
  BY <1>1, <1>3 DEF UnderWay
<1>7. ASSUME NEW i \in DOMAIN reads, i < at, NEW j \in DOMAIN reads[i]
      PROVE  \/ reads[i][j] \in seen' \cup {NoGuide}
             \/ i = at - 1 /\ \E k \in DOMAIN todo' : todo'[k] = reads[i][j]
  BY <1>1, <1>2, <1>4, <1>7 DEF Reached
<1>8. Reached'
  <2>1. ~Guidance!Done'
    BY <1>1, <1>3 DEF Guidance!Done
  <2>2. noticeIndex' # 0
    BY <1>1 DEF Reached
  <2> QED
    BY <1>1, <1>7, <2>1, <2>2 DEF Reached
<1>9. CASE (~fresh \/ g \in known) /\ UNCHANGED used
  <2>1. GuideTypes'
    BY <1>1, <1>2, <1>4, <1>9 DEF GuideTypes, Guidance!TypeOK, Guidance!Block
  <2>2. Counts'
    <3>1. \A i : Guidance!OfRead(i)' = Guidance!OfRead(i)
      BY DEF Guidance!OfRead, Guidance!Block
    <3>2. Guidance!OnlyNotices' = Guidance!OnlyNotices /\ Guidance!Block' = Guidance!Block
      BY DEF Guidance!OnlyNotices, Guidance!Block
    <3> QED
      BY <1>1, <1>9, <3>1, <3>2 DEF Counts
  <2>3. Given'
    BY <1>1, <1>4, <1>9 DEF Given
  <2> QED
    BY <1>6, <1>8, <2>1, <2>2, <2>3 DEF GuidesInv
<1>10. CASE /\ fresh /\ g \notin known /\ unreported' = unreported \cup {g}
            /\ UNCHANGED <<added, activationBytes, contextBytes, noticeBytes>>
  <2>1. GuideTypes'
    BY <1>1, <1>2, <1>4, <1>10 DEF GuideTypes, Guidance!TypeOK, Guidance!Block
  <2>2. Counts'
    <3>1. \A i : Guidance!OfRead(i)' = Guidance!OfRead(i)
      BY DEF Guidance!OfRead, Guidance!Block
    <3>2. Guidance!OnlyNotices' = Guidance!OnlyNotices /\ Guidance!Block' = Guidance!Block
      BY DEF Guidance!OnlyNotices, Guidance!Block
    <3> QED
      BY <1>1, <1>10, <3>1, <3>2 DEF Counts
  <2>3. Given'
    BY <1>1, <1>4, <1>10 DEF Given
  <2> QED
    BY <1>6, <1>8, <2>1, <2>2, <2>3 DEF GuidesInv
<1>11. ASSUME NEW kind \in {"guide", "notice"}, NEW length \in Sizes \cup {1},
              fresh, g \notin known, added' = Append(added, b(kind, length)),
              contextBytes' = contextBytes + length, contextBytes + length <= Context - 1,
              activationBytes' = activationBytes + length,
              activationBytes + length <= Activation - 1,
              noticeBytes' = noticeBytes + (IF kind = "notice" THEN length ELSE 0),
              noticeBytes' <= Notices - 1, unreported' = unreported
       PROVE  GuidesInv'
  <2>1. b(kind, length) \in Guidance!Block
    BY <1>2, <1>3, <1>11 DEF Guidance!Block
  <2>2. length \in Nat
    <3>1. Sizes \cup {1} \subseteq Nat
      BY <1>1 DEF GuideTypes
    <3> QED
      BY <3>1
  <2>3. Counts'
    <3> DEFINE new == b(kind, length)
    <3>1. new.length = length /\ new.kind = kind /\ new.read = at - 1
      OBVIOUS
    <3> HIDE DEF new
    <3> QED
      BY <1>1, <1>3, <1>11, <2>1, <3>1, AddCounts DEF new
  <2>4. added \in Seq(Guidance!Block) /\ added' \in Seq(Guidance!Block) /\ Len(added) \in Nat
        /\ Len(added') = Len(added) + 1 /\ DOMAIN added' = 1 .. Len(added) + 1
        /\ added'[Len(added) + 1].guide = g /\ \A i \in DOMAIN added : added'[i] = added[i]
        /\ DOMAIN added = 1 .. Len(added)
    <3> DEFINE new == b(kind, length)
    <3>1. added \in Seq(Guidance!Block)
      BY <1>1, Zenon DEF GuideTypes, Guidance!TypeOK
    <3>2. new.guide = g /\ new \in Guidance!Block /\ added' = Append(added, new)
      BY <1>11, <2>1
    <3> HIDE DEF new
    <3> QED
      BY <3>1, <3>2
  <2>5. GuideTypes'
    <3>1. Guidance!Block' = Guidance!Block
      BY DEF Guidance!Block
    <3>2. activationBytes' \in Nat /\ contextBytes' \in Nat /\ noticeBytes' \in Nat
      <4>1. activationBytes \in Nat /\ contextBytes \in Nat /\ noticeBytes \in Nat
        BY <1>1 DEF GuideTypes, Guidance!TypeOK
      <4> QED
        BY <1>11, <2>2, <4>1
    <3>3. seen' \subseteq Guides
      BY <1>1, <1>2, <1>4 DEF GuideTypes, Guidance!TypeOK
    <3> QED
      BY <1>1, <1>2, <1>11, <2>4, <3>1, <3>2, <3>3 DEF GuideTypes, Guidance!TypeOK
  <2>6. Given'
    <3>1. \A i \in DOMAIN added : added'[i].guide \in seen \ known
      BY <1>1, <2>4 DEF Given
    <3>2. \A i \in DOMAIN added' : added'[i].guide \in seen' \ known'
      BY <1>1, <1>4, <1>11, <2>4, <3>1
    <3>3. \A i, j \in DOMAIN added' : added'[i].guide = added'[j].guide => i = j
      BY <1>1, <1>11, <2>4, <3>1 DEF Given
    <3>4. Len(added) + 1 \in DOMAIN added' /\ DOMAIN added \subseteq DOMAIN added'
      BY <2>4
    <3>5. \A h \in seen : \/ h \in known \/ h \in unreported
                          \/ \E i \in DOMAIN added' : added'[i].guide = h
      BY <1>1, <2>4, <3>4 DEF Given
    <3> QED
      BY <1>1, <1>4, <1>11, <2>4, <3>2, <3>3, <3>4, <3>5 DEF Given
  <2> QED
    BY <1>6, <1>8, <2>3, <2>5, <2>6 DEF GuidesInv
<1> QED
  BY <1>5, <1>9, <1>10, <1>11

(* Every step of a request keeps all of it, and steps of others do.           *)
LEMMA StepGuides == GuidesInv /\ [Guidance!Next]_(Guidance!vars) => GuidesInv'
<1>1. ASSUME GuidesInv, UNCHANGED Guidance!vars PROVE GuidesInv'
  <2>1. UNCHANGED <<reads, guideSize, unfit, known, at, todo, added, seen, activationBytes, contextBytes,
                    noticeBytes, unreported, noticeIndex, summary>>
    BY <1>1 DEF Guidance!vars, Guidance!inputs
  <2>2. \A i : Guidance!OfRead(i)' = Guidance!OfRead(i)
    BY DEF Guidance!OfRead, Guidance!Block
  <2>3. Guidance!OnlyNotices' = Guidance!OnlyNotices /\ Guidance!Block' = Guidance!Block
    BY DEF Guidance!OnlyNotices, Guidance!Block
  <2>4. Counts'
    BY <1>1, <2>1, <2>2, <2>3 DEF GuidesInv, Counts
  <2>5. GuideTypes'
    BY <1>1, <2>1, <2>3 DEF GuidesInv, GuideTypes, Guidance!TypeOK
  <2>6. UnderWay' /\ Given' /\ Reached'
    BY <1>1, <2>1 DEF GuidesInv, UnderWay, Given, Reached, Guidance!Done
  <2> QED
    BY <2>4, <2>5, <2>6 DEF GuidesInv
<1> QED
  BY <1>1, RequestKeeps, VisitKeeps, ConsiderKeeps, SummariseKeeps, AnswerKeeps DEF Guidance!Next

(* At any time.                                                             *)
LEMMA GuidesAlways == Extensions => []GuidesInv
<1>1. ExtensionsInit => GuidesInv
  BY InitGuides, ExtensionsAssumption DEF ExtensionsInit, ExtensionsAssumption
<1>2. GuidesInv /\ [ExtensionsNext]_everything => GuidesInv'
  BY StepGuides, OneAtATime
<1> QED
  BY <1>1, <1>2, PTL DEF Extensions

(* However the guides and the reads of a request fall together, no guide is   *)
(* given twice or passed over in silence, and no budget is exceeded, the     *)
(* last notice included (nested-agents/core.ts, 201, 241-262, 277).        *)
THEOREM EveryGuideIsTold == Extensions => []GuidesTold
<1>1. GuidesInv => Guidance!BudgetsHold
  <2> SUFFICES ASSUME GuidesInv PROVE Guidance!BudgetsHold
    OBVIOUS
  <2>1. Guidance!Bytes(Guidance!Block) = contextBytes /\ Guidance!Bytes(Guidance!OnlyNotices) = noticeBytes
    BY BytesIs DEF GuidesInv, Counts
  <2>2. Guidance!Closing \in {0, 1} /\ Guidance!Reserve = 1
    BY DEF Guidance!Closing, Guidance!Reserve
  <2>3. ASSUME NEW i \in DOMAIN reads
        PROVE  Guidance!Bytes(Guidance!OfRead(i)) \in 0 .. Activation - 1
    <3>1. PICK sum \in 0 .. Activation - 1 : SumIs(added, Guidance!OfRead(i), sum)
      BY DEF GuidesInv, Counts
    <3> QED
      BY <3>1, BytesIs
  <2>4. contextBytes + Guidance!Closing <= Context /\ noticeBytes + Guidance!Closing <= Notices
    BY <2>2 DEF GuidesInv, Counts, GuideTypes, Guidance!TypeOK
  <2>5. ASSUME NEW i \in DOMAIN reads
        PROVE  Guidance!Bytes(Guidance!OfRead(i)) + (IF i = summary THEN Guidance!Closing ELSE 0) <= Activation
    BY <2>2, <2>3 DEF GuidesInv, GuideTypes
  <2> QED
    BY <2>1, <2>4, <2>5 DEF Guidance!BudgetsHold
<1>2. GuidesInv => Guidance!GuidesOnce
  <2>1. Guidance!Blocks = {added[i] : i \in DOMAIN added}
    BY DEF Guidance!Blocks, Guidance!ToSet
  <2> QED
    BY <2>1 DEF GuidesInv, Given, Guidance!GuidesOnce
<1>3. GuidesInv => Guidance!NoneSilent
  <2> SUFFICES ASSUME GuidesInv, Guidance!Done, NEW g \in Guidance!OnTheWay
               PROVE  \/ g \in known \/ \E b \in Guidance!Blocks : b.guide = g
                      \/ g \in unreported /\ summary # 0
    BY DEF Guidance!NoneSilent
  <2>1. Guidance!Blocks = {added[i] : i \in DOMAIN added}
    BY DEF Guidance!Blocks, Guidance!ToSet
  <2>2. PICK i \in DOMAIN reads : g \in {reads[i][j] : j \in DOMAIN reads[i]} /\ g # NoGuide
    BY Zenon DEF Guidance!OnTheWay, Guidance!ToSet
  <2>3. PICK j \in DOMAIN reads[i] : reads[i][j] = g
    BY <2>2
  <2>4. i < at /\ i # at - 1
    BY SMTT(20) DEF Guidance!Done, GuidesInv, GuideTypes, Guidance!TypeOK
  <2>5. g \in seen
    BY <2>2, <2>3, <2>4 DEF GuidesInv, Reached
  <2> QED
    BY <2>1, <2>5 DEF GuidesInv, Given, Reached
<1> QED
  BY <1>1, <1>2, <1>3, GuidesAlways, PTL DEF GuidesTold, Guidance!GuidesTold

------------------------------------------------------------------------------
(***************************************************************************)
(* The variables of the extensions have their types, for any values of the  *)
(* constants.  What the invariants above do not say of them is said here.   *)
(***************************************************************************)

IdleTypes ==
  /\ busy \in BOOLEAN /\ armed \in BOOLEAN
  /\ \A r \in recaps : r.about \in 0 .. conversation
  /\ \A t \in titles : t.about \in 0 .. branch
  /\ sessionName \in [given : {"none", "manual", "title"}, of : 0 .. branch]

(* Nothing is requested yet.                                                 *)
LEMMA InitIdleTypes == Requests!Init => IdleTypes
<1> SUFFICES ASSUME Requests!Init PROVE IdleTypes
  OBVIOUS
<1>1. busy \in BOOLEAN /\ armed \in BOOLEAN
  BY Zenon DEF Requests!Init
<1>2. sessionName \in {Requests!Unnamed, Requests!Manual} /\ branch = 1 /\ recaps = {} /\ titles = {}
  BY DEF Requests!Init
<1>3. 0 \in 0 .. branch
  BY <1>2
<1> QED
  BY <1>1, <1>2, <1>3 DEF IdleTypes, Requests!Unnamed, Requests!Manual

(* A request is about something that was, and a name of a branch that was.   *)
LEMMA StepIdleTypes ==
  IdleInv /\ IdleTypes /\ [Requests!Next]_(Requests!idleVars) => IdleTypes'
<1> SUFFICES ASSUME IdleInv, IdleTypes, [Requests!Next]_(Requests!idleVars)
             PROVE  IdleTypes'
  OBVIOUS
<1>1. /\ conversation' \in Nat /\ conversation <= conversation' /\ branch' \in Nat /\ branch <= branch'
      /\ conversation \in Nat /\ branch \in Nat
  <2>1. IdleInv'
    BY StepIdle
  <2>2. conversation' \in {conversation, conversation + 1} /\ branch' \in {branch, branch + 1}
    BY DEF Requests!Next, Requests!idleVars, Requests!TurnBegins, Requests!Settles, Requests!Types,
       Requests!Prompts, Requests!Tree, Requests!Switch, Requests!Named, Requests!TimerFires,
       Requests!RecapAnswered, Requests!TitleAnswered
  <2> QED
    BY <2>1, <2>2 DEF IdleInv, Counted
<1>2. busy' \in BOOLEAN /\ armed' \in BOOLEAN
  BY Zenon DEF IdleTypes, Requests!Next, Requests!idleVars, Requests!TurnBegins, Requests!Settles,
     Requests!Types, Requests!Prompts, Requests!Tree, Requests!Switch, Requests!Named,
     Requests!TimerFires, Requests!RecapAnswered, Requests!TitleAnswered,
     Requests!Clear, Requests!Schedule
<1>3. ASSUME NEW r \in recaps' PROVE r.about \in 0 .. conversation'
  <2>1. r \in recaps \/ r = [at |-> recapGeneration, about |-> conversation]
    BY DEF Requests!Next, Requests!idleVars, Requests!TurnBegins, Requests!Settles, Requests!Types,
       Requests!Prompts, Requests!Tree, Requests!Switch, Requests!Named, Requests!TimerFires,
       Requests!RecapAnswered, Requests!TitleAnswered
  <2> QED
    BY <1>1, <2>1 DEF IdleTypes
<1>4. ASSUME NEW t \in titles' PROVE t.about \in 0 .. branch'
  <2>1. t \in titles \/ t.about \in {branch, branch'}
    BY DEF Requests!Next, Requests!idleVars, Requests!TurnBegins, Requests!Settles, Requests!Types,
       Requests!Prompts, Requests!Tree, Requests!Switch, Requests!Named, Requests!TimerFires,
       Requests!RecapAnswered, Requests!TitleAnswered, Requests!Generate
  <2> QED
    BY <1>1, <2>1 DEF IdleTypes
<1>5. sessionName' \in [given : {"none", "manual", "title"}, of : 0 .. branch']
  <2>1. \/ sessionName' = sessionName
        \/ sessionName' \in {Requests!Unnamed, Requests!Manual}
        \/ \E t \in titles : sessionName' = [given |-> "title", of |-> t.about]
    BY DEF Requests!Next, Requests!idleVars, Requests!TurnBegins, Requests!Settles, Requests!Types,
       Requests!Prompts, Requests!Tree, Requests!Switch, Requests!Named, Requests!TimerFires,
       Requests!RecapAnswered, Requests!TitleAnswered
  <2> QED
    BY <1>1, <2>1 DEF IdleTypes, Requests!Unnamed, Requests!Manual
<1> QED
  BY <1>2, <1>3, <1>4, <1>5 DEF IdleTypes

(* The variables of recap and title are typed.                               *)
LEMMA IdleTyped == IdleInv /\ IdleTypes => Requests!TypeOK
  BY DEF IdleInv, IdleTypes, Counted, RecapsCurrent, TitlesCurrent, Requests!RecapIsCurrent, Requests!TypeOK

IndexTypes ==
  /\ MaxKept \in Nat /\ MaxDeaths \in Nat /\ MaxAppends \in Nat
  /\ running \in BOOLEAN /\ Cardinality(records) <= MaxKept
  /\ paging \in {"none", "more", "complete", "refused"}
  /\ cursor \in Messages \cup {0} /\ deaths \in 0 .. MaxDeaths /\ appends \in 0 .. MaxAppends

(* Nothing is kept yet.                                                      *)
LEMMA InitIndexTypes ==
  ASSUME Index!Init, MaxKept \in Nat, MaxDeaths \in Nat, MaxAppends \in Nat
  PROVE  IndexTypes
<1>1. running \in BOOLEAN
  BY Zenon DEF Index!Init
<1>2. Cardinality(records) = 0
  BY FS_EmptySet DEF Index!Init
<1> QED
  BY <1>1, <1>2 DEF Index!Init, IndexTypes

(* What is kept stays within the limit of a chat.                            *)
LEMMA StepIndexTypes ==
  IndexInv /\ IndexTypes /\ [Index!Next]_(Index!indexVars) => IndexTypes'
<1> SUFFICES ASSUME IndexInv, IndexTypes, [Index!Next]_(Index!indexVars)
             PROVE  IndexTypes'
  OBVIOUS
<1>1. ASSUME NEW S \in SUBSET Messages, Index!Compact(S)
      PROVE  Cardinality(records') = MaxKept
  BY <1>1, CountsMessages DEF Index!Compact, Index!Retained
<1>2. ASSUME NEW S \in SUBSET Messages, IsFiniteSet(S), ~Index!OverRetention(S)
      PROVE  Cardinality(S) <= MaxKept
  <2>1. Cardinality(S) \in Nat
    BY <1>2, FS_CardinalityType
  <2> QED
    BY <1>2, <2>1, CountsMessages DEF Index!OverRetention, IndexTypes
<1>3. CASE \E batch \in Index!Batches : Index!Add(batch)
  <2>1. PICK batch \in Index!Batches : Index!Add(batch)
    BY <1>3
  <2> DEFINE all == records \cup Index!Listed(batch)
  <2>2. /\ appends' = appends + 1 /\ appends < MaxAppends
        /\ UNCHANGED <<running, paging, cursor, deaths>>
        /\ IF Index!OverRetention(all) THEN Index!Compact(all) ELSE records' = all
    BY <2>1 DEF Index!Add
  <2>3. all \in SUBSET Messages /\ IsFiniteSet(all)
    BY BatchIs, FS_Union DEF IndexInv, Loss
  <2> HIDE DEF all
  <2>4. Cardinality(records') <= MaxKept
    BY <1>1, <1>2, <2>2, <2>3 DEF IndexTypes
  <2> QED
    BY <2>2, <2>4 DEF IndexTypes
<1>4. CASE Index!Die
  <2>1. /\ running' = FALSE /\ records' = {} /\ paging' = "none" /\ cursor' = 0
        /\ deaths < MaxDeaths /\ deaths' = deaths + 1 /\ UNCHANGED appends
    BY <1>4 DEF Index!Die
  <2>2. Cardinality(records') = 0
    BY <2>1, FS_EmptySet
  <2>3. running' \in BOOLEAN
    BY <2>1, Zenon
  <2> QED
    BY <2>1, <2>2, <2>3 DEF IndexTypes
<1>5. CASE Index!Load
  <2>1. /\ running' = TRUE /\ UNCHANGED <<paging, cursor, deaths, appends>>
        /\ IF Index!OverRetention(lines) THEN Index!Compact(lines) ELSE records' = lines
    BY <1>5 DEF Index!Load, Index!reader
  <2>2. running' \in BOOLEAN
    BY <2>1, Zenon
  <2>3. Cardinality(records') <= MaxKept
    BY <1>1, <1>2, <2>1 DEF IndexTypes, IndexInv, Loss
  <2> QED
    BY <2>1, <2>2, <2>3 DEF IndexTypes
<1>6. CASE Index!Page
  <2>1. UNCHANGED <<records, running, deaths, appends>>
    BY <1>6 DEF Index!Page
  <2>2. IndexInv' /\ paging' \in {"more", "complete", "refused"}
        /\ (cursor' = cursor \/ cursor' = 0 \/ paging' = "more")
    BY <1>6, StepIndex DEF Index!Page
  <2>3. paging' = "more" => cursor' \in Messages
    BY <2>2 DEF IndexInv, Read
  <2> QED
    BY <2>1, <2>2, <2>3 DEF IndexTypes
<1>7. CASE UNCHANGED Index!indexVars
  BY <1>7 DEF Index!indexVars, Index!reader, IndexTypes
<1> QED
  BY <1>3, <1>4, <1>5, <1>6, <1>7 DEF Index!Next

(* The variables of the message index are typed.                             *)
LEMMA IndexTyped == IndexInv /\ IndexTypes => Index!TypeOK
<1> SUFFICES ASSUME IndexInv, IndexTypes PROVE Index!TypeOK
  OBVIOUS
<1>1. torn \in BOOLEAN /\ running \in BOOLEAN
  BY DEF IndexInv, Loss, IndexTypes
<1>2. {torn, running} \subseteq BOOLEAN
  BY <1>1, Zenon
<1> QED
  BY <1>2, CountsMessages DEF IndexInv, Loss, Read, IndexTypes, Index!TypeOK

DraftTypes ==
  /\ {recovery, editor, failed} \subseteq Drafts \cup {0}
  /\ overlapped \in BOOLEAN
  /\ onCalls \subseteq 0 .. generation /\ sessionGeneration <= generation

(* No draft was recovered and no handler waits.                              *)
LEMMA InitDraftTypes == Translation!Init => DraftTypes
<1> SUFFICES ASSUME Translation!Init PROVE DraftTypes
  OBVIOUS
<1>1. overlapped \in BOOLEAN
  BY Zenon DEF Translation!Init
<1> QED
  BY <1>1 DEF Translation!Init, DraftTypes

(* Generations only grow, those of the session with them.                    *)
LEMMA StepDraftTypes ==
  TranslationInv /\ DraftTypes /\ [Translation!Next]_(Translation!translateVars) => DraftTypes'
<1> SUFFICES ASSUME TranslationInv, DraftTypes, [Translation!Next]_(Translation!translateVars)
             PROVE  DraftTypes'
  OBVIOUS
<1> USE DEF Translation!setting, Translation!inputs, Translation!backend
<1>1. generation \in Nat /\ sessionGeneration \in Nat
  BY DEF TranslationInv, ServersInv, ServerNumbers
<1>2. \/ generation' = generation /\ sessionGeneration' = sessionGeneration
      \/ generation' = generation + 1 /\ sessionGeneration' \in {sessionGeneration, sessionGeneration + 1}
  BY DEF Translation!Next, Translation!Launch, Translation!translateVars, Translation!SpawnServer,
     Translation!Listening, Translation!Started, Translation!StartFails, Translation!ServerCrashes,
     Translation!ServerEnds, Translation!On, Translation!Off, Translation!Recover,
     Translation!EditorCleared, Translation!Submit, Translation!Translated,
     Translation!TranslationFails, Translation!Tree, Translation!Replace, Translation!Moved
<1>3. onCalls' \subseteq onCalls \cup {generation'}
  BY DEF Translation!Next, Translation!Launch, Translation!translateVars, Translation!SpawnServer,
     Translation!Listening, Translation!Started, Translation!StartFails, Translation!ServerCrashes,
     Translation!ServerEnds, Translation!On, Translation!Off, Translation!Recover,
     Translation!EditorCleared, Translation!Submit, Translation!Translated,
     Translation!TranslationFails, Translation!Tree, Translation!Replace, Translation!Moved
<1>4. overlapped' \in BOOLEAN
  <2>1. overlapped' = overlapped \/ \E b \in BOOLEAN : overlapped' = b
    BY Zenon DEF Translation!Next, Translation!Launch, Translation!translateVars, Translation!SpawnServer,
       Translation!Listening, Translation!Started, Translation!StartFails, Translation!ServerCrashes,
       Translation!ServerEnds, Translation!On, Translation!Off, Translation!Recover,
       Translation!EditorCleared, Translation!Submit, Translation!Translated,
       Translation!TranslationFails, Translation!Tree, Translation!Replace, Translation!Moved
  <2> QED
    BY <2>1 DEF DraftTypes
<1>5. ASSUME NEW d \in Drafts, Translation!Fail(d)
      PROVE  {recovery', editor', failed'} \subseteq Drafts \cup {0}
  BY <1>5 DEF Translation!Fail, Translation!Kept, DraftTypes
<1>6. {recovery', editor', failed'} \subseteq Drafts \cup {0}
  <2>1. \/ {recovery', editor', failed'} \subseteq {recovery, editor, failed, 0}
        \/ \E d \in Drafts : Translation!Fail(d)
    BY DEF Translation!Next, Translation!Launch, Translation!translateVars, Translation!SpawnServer,
       Translation!Listening, Translation!Started, Translation!StartFails, Translation!ServerCrashes,
       Translation!ServerEnds, Translation!On, Translation!Off, Translation!Recover,
       Translation!EditorCleared, Translation!Submit, Translation!Translated,
       Translation!TranslationFails, Translation!Tree, Translation!Replace, Translation!Moved
  <2> QED
    BY <1>5, <2>1 DEF DraftTypes
<1>7. onCalls' \subseteq 0 .. generation' /\ sessionGeneration' <= generation'
  BY <1>1, <1>2, <1>3 DEF DraftTypes
<1> QED
  BY <1>4, <1>6, <1>7 DEF DraftTypes

(* The variables of the translation are typed.                               *)
LEMMA TranslationTyped == TranslationInv /\ DraftTypes => Translation!TypeOK
<1> SUFFICES ASSUME TranslationInv, DraftTypes PROVE Translation!TypeOK
  OBVIOUS
<1>1. \A d \in Drafts : draft[d].stage \in {"typed", "starting", "asking", "sent", "sentRaw"}
  BY DEF TranslationInv, ServersInv, ServerNumbers, Draft
<1>2. enabled \in BOOLEAN /\ toggle \in BOOLEAN /\ overlapped \in BOOLEAN
  BY Zenon DEF TranslationInv, ServersInv, ServerNumbers, DraftTypes
<1> QED
  BY <1>1, <1>2 DEF TranslationInv, ServersInv, ServerNumbers, DraftTypes, Translation!TypeOK

(* The variables of the prompt are typed.                                    *)
LEMMA PromptTyped == PromptInv /\ TextTypes => Prompt!TypeOK
  BY DEF PromptInv, TextTypes, Attachable, MessagesWhole, Prompt!TypeOK

(* The lock is a reviewer's, and no password is none.                        *)
OwnerTypes == lock \in Reviewers \cup {Nobody} /\ 0 \notin zeroed

(* Nobody has the lock and nothing is wiped.                                 *)
LEMMA InitOwnerTypes == Review!Init /\ SudoTool!Init => OwnerTypes
  BY DEF Review!Init, SudoTool!Init, OwnerTypes

(* The lock goes to reviewers, and what is wiped was typed.                  *)
LEMMA StepOwnerTypes ==
  /\ SudoInv /\ OwnerTypes
  /\ [Review!Next]_(Review!ledgerVars) /\ [SudoTool!Next]_(SudoTool!sudoVars)
  => OwnerTypes'
<1> SUFFICES ASSUME SudoInv, OwnerTypes,
                    [Review!Next]_(Review!ledgerVars), [SudoTool!Next]_(SudoTool!sudoVars)
             PROVE  OwnerTypes'
  OBVIOUS
<1>1. lock' \in Reviewers \cup {Nobody}
  BY DEF OwnerTypes, Review!Next, Review!ledgerVars, Review!Begin, Review!Locks, Review!Checks,
     Review!Writes, Review!Reports, Review!Dies, Review!Recovered, Review!Edited
<1>2. zeroed' \subseteq zeroed \cup ({password} \ {0}) \cup {typed + 1}
  BY DEF SudoTool!Next, SudoTool!sudoVars, SudoTool!Ask, SudoTool!Confirmed, SudoTool!Typed,
     SudoTool!Declined, SudoTool!Spawned, SudoTool!Abort, SudoTool!OutputFails, SudoTool!Exits,
     SudoTool!ForceKill, SudoTool!Closed, SudoTool!SudoLock, SudoTool!Shutdown, SudoTool!Lock
<1>3. typed \in Nat
  BY DEF SudoInv, SudoTypes
<1>4. 0 \notin zeroed'
  BY <1>2, <1>3 DEF OwnerTypes
<1> QED
  BY <1>1, <1>4 DEF OwnerTypes

(* The variables of the others are typed by their invariants.                *)
LEMMA OthersTyped ==
  ASSUME VaultInv, SelectionInv, SkillsInv, ReviewInv, HeadroomInv, GuidesInv, PopupInv, SudoInv,
         OwnerTypes
  PROVE  /\ Vault!TypeOK /\ Selection!TypeOK /\ Skills!TypeOK /\ Review!TypeOK
         /\ Headroom!TypeOK /\ Guidance!TypeOK /\ Popup!TypeOK /\ SudoTool!TypeOK
<1>1. Vault!TypeOK
  BY DEF VaultInv, Types, Transaction, Vault!TypeOK
<1>2. Review!TypeOK
  BY DEF ReviewInv, OwnerTypes, Ledger, Doing, Review!TypeOK
<1>3. SudoTool!TypeOK
  BY DEF SudoInv, SudoTypes, CallStage, ProcStage, OwnerTypes, SudoTool!TypeOK
<1> QED
  BY <1>1, <1>2, <1>3 DEF SelectionInv, SkillsInv, HeadroomInv, GuidesInv, GuideTypes, PopupInv

(* The variables of the log are typed.                                      *)
LEMMA LogTyped == LogInv => LogTypeOK
  BY DEF LogInv, Bounded, Segment, Counters, LogTypeOK

(* The variables of WhatsApp are typed.                                     *)
LEMMA ChatTyped == ChatInv => Chat!TypeOK
  BY DEF ChatInv, Flags, FirstGoesOn, OneThread, Said, Chat!TypeOK, Ops, Steps, Mail

TypesInv == IdleTypes /\ IndexTypes /\ DraftTypes /\ OwnerTypes

(* The types stay.                                                           *)
LEMMA TypesAlways == Extensions => []TypesInv
<1>1. ExtensionsInit => TypesInv
  BY InitIdleTypes, InitIndexTypes, InitDraftTypes, InitOwnerTypes,
     ExtensionsAssumption DEF ExtensionsInit, TypesInv
<1>2. /\ IdleInv /\ IndexInv /\ TranslationInv /\ SudoInv
      /\ TypesInv /\ [ExtensionsNext]_everything
      => TypesInv'
  BY StepIdleTypes, StepIndexTypes, StepDraftTypes, StepOwnerTypes, OneAtATime
  DEF TypesInv
<1> QED
  BY <1>1, <1>2, IdleAlways, IndexAlways, TranslationAlways, SudoAlways, PTL
  DEF Extensions

(* The variables of every extension are well typed in every state.           *)
THEOREM AllTyped == Extensions => []AllTypeOK
<1>1. /\ VaultInv /\ SelectionInv /\ SkillsInv /\ ReviewInv /\ HeadroomInv /\ GuidesInv
      /\ PopupInv /\ SudoInv /\ IdleInv /\ IndexInv /\ TranslationInv /\ PromptInv /\ TextTypes
      /\ TypesInv
      /\ LogInv /\ ChatInv
      => AllTypeOK
  BY IdleTyped, IndexTyped, TranslationTyped, PromptTyped, OthersTyped, LogTyped, ChatTyped
  DEF TypesInv, AllTypeOK
<1> QED
  BY <1>1, VaultAlways, SelectionAlways, SkillsAlways, ReviewAlways, HeadroomAlways, GuidesAlways,
     PopupAlways, SudoAlways, IdleAlways, IndexAlways, TranslationAlways, PromptAlways,
     LogAlways, ChatAlways, TypesAlways, PTL

=============================================================================
