----------------------------- MODULE NestedGuides -----------------------------
(***************************************************************************)
(* Guides of the directories an agent has read from are put into its        *)
(* context (extensions/nested-agents/core.ts).  Each request starts from    *)
(* the messages alone: for every read in them, the guides on the way from   *)
(* the root of the project to the file that was read, none twice and none   *)
(* the context has already, within three budgets.  A step is one turn of a  *)
(* loop of addNestedGuides.                                                *)
(***************************************************************************)
EXTENDS Naturals, Sequences, SequencesExt

CONSTANTS
  Guides,     \* guide files
  NoGuide,    \* a directory has none
  Paths,      \* what the directories on the way to a file hold, from the root on;
              \* <<>> is the way to a file outside the project
  Sizes,      \* lengths a guide may have; a notice has length 1
  Activation, \* budget of one read
  Context,    \* budget of a request
  Notices,    \* budget of the notices
  MaxReads    \* bound: reads in the messages

VARIABLES
  reads,      \* the paths of the reads of this request
  size,       \* the length of each guide
  unfit,      \* guides that cannot be loaded: too long, binary, outside the project
  known,      \* guides whose whole text the context has: supplied at the start or read
  at,         \* the read that is visited
  todo,       \* what is left of its path
  told,       \* the blocks that were added
  seen, activationBytes, contextBytes, noticeBytes, unreported,
  noticeIndex, \* the first read in the project, or 0
  summary     \* the read that the final notice is added to, or 0

inputs == <<reads, size, unfit, known>>
vars == <<inputs, at, todo, told, seen, activationBytes, contextBytes, noticeBytes,
          unreported, noticeIndex, summary>>

Reserve == 1

(* A guide or a notice, and the read it was added to *)
Block == [guide : Guides, kind : {"guide", "notice"}, length : Sizes \cup {1},
          read : 1 .. MaxReads]

Init ==
  /\ reads = <<>> /\ size = [g \in Guides |-> 0] /\ unfit = {} /\ known = {}
  /\ at = 0 /\ todo = <<>> /\ told = <<>> /\ seen = {}
  /\ activationBytes = 0 /\ contextBytes = 0 /\ noticeBytes = 0
  /\ unreported = {} /\ noticeIndex = 0 /\ summary = 0

(* A context event: the messages of a request, and the guides as they are. *)
Request ==
  /\ at = 0 /\ at' = 1
  /\ \E n \in 1 .. MaxReads : reads' \in [1 .. n -> Paths]
  /\ size' \in [Guides -> Sizes]
  /\ \E bad \in SUBSET Guides : unfit' = bad /\ known' \in SUBSET (Guides \ bad)
  /\ UNCHANGED <<todo, told, seen, activationBytes, contextBytes, noticeBytes, unreported,
                 noticeIndex, summary>>

(* The next read *)
Visit ==
  /\ at \in 1 .. Len(reads) /\ todo = <<>>
  /\ at' = at + 1 /\ todo' = reads[at] /\ activationBytes' = 0
  /\ noticeIndex' = IF noticeIndex = 0 /\ reads[at] # <<>> THEN at ELSE noticeIndex
  /\ UNCHANGED <<inputs, told, seen, contextBytes, noticeBytes, unreported, summary>>

------------------------------------------------------------------------------
Fits(used, length, budget) == used + length <= budget - Reserve

Add(g, kind, length) ==
  /\ told' = Append(told, [guide |-> g, kind |-> kind, length |-> length, read |-> at - 1])
  /\ activationBytes' = activationBytes + length /\ contextBytes' = contextBytes + length

(* Mutant: a guide without room for a notice is passed over. *)
OmitQuietly(g) == UNCHANGED <<told, activationBytes, contextBytes, noticeBytes, unreported>>

(* A guide that is omitted gets a notice, or counts for the last one. *)
Omit(g) ==
  IF /\ Fits(noticeBytes, 1, Notices) /\ Fits(activationBytes, 1, Activation)
     /\ Fits(contextBytes, 1, Context)
  THEN /\ Add(g, "notice", 1) /\ noticeBytes' = noticeBytes + 1 /\ UNCHANGED unreported
  ELSE /\ unreported' = unreported \cup {g}
       /\ UNCHANGED <<told, activationBytes, contextBytes, noticeBytes>>

Load(g) == Add(g, "guide", size[g]) /\ UNCHANGED <<noticeBytes, unreported>>

Loadable(g) ==
  /\ g \notin unfit
  /\ Fits(activationBytes, size[g], Activation) /\ Fits(contextBytes, size[g], Context)

(* The guide of one directory on the way to the file *)
Consider ==
  /\ todo # <<>> /\ todo' = Tail(todo)
  /\ LET g == Head(todo) IN
     IF g = NoGuide \/ g \in seen
     THEN UNCHANGED <<seen, told, activationBytes, contextBytes, noticeBytes, unreported>>
     ELSE /\ seen' = seen \cup {g}
          /\ \/ /\ g \in known
                /\ UNCHANGED <<told, activationBytes, contextBytes, noticeBytes, unreported>>
             \/ g \notin known /\ Loadable(g) /\ Load(g)
             \/ g \notin known /\ ~Loadable(g) /\ Omit(g)
  /\ UNCHANGED <<inputs, at, noticeIndex, summary>>

(* The guides that got no notice of their own are counted in a last one, at   *)
(* the first read of a file in the project.                                *)
Summarise ==
  /\ at = Len(reads) + 1 /\ todo = <<>> /\ at' = at + 1
  /\ summary' = IF unreported = {} THEN 0 ELSE noticeIndex
  /\ UNCHANGED <<inputs, todo, told, seen, activationBytes, contextBytes, noticeBytes,
                 unreported, noticeIndex>>

Done == at > 1 /\ at = Len(reads) + 2

(* The next request starts anew. *)
Answer ==
  /\ Done
  /\ reads' = <<>> /\ size' = [g \in Guides |-> 0] /\ unfit' = {} /\ known' = {}
  /\ at' = 0 /\ told' = <<>> /\ seen' = {} /\ UNCHANGED todo
  /\ activationBytes' = 0 /\ contextBytes' = 0 /\ noticeBytes' = 0
  /\ unreported' = {} /\ noticeIndex' = 0 /\ summary' = 0

Next == Request \/ Visit \/ Consider \/ Summarise \/ Answer

Spec == Init /\ [][Next]_vars

------------------------------------------------------------------------------
Blocks == ToSet(told)
OnTheWay == (UNION {ToSet(reads[i]) : i \in DOMAIN reads}) \ {NoGuide}

(* The length of the blocks that are of some kind *)
Bytes(kind) ==
  LET upTo[n \in 0 .. Len(told)] ==
        IF n = 0 THEN 0
        ELSE upTo[n - 1] + (IF told[n] \in kind THEN told[n].length ELSE 0)
  IN upTo[Len(told)]

OfRead(i) == {b \in Block : b.read = i}
OnlyNotices == {b \in Block : b.kind = "notice"}
Closing == IF summary = 0 THEN 0 ELSE Reserve

TypeOK ==
  /\ reads \in Seq(Paths) /\ size \in [Guides -> Sizes \cup {0}]
  /\ unfit \subseteq Guides /\ known \subseteq Guides /\ seen \subseteq Guides
  /\ told \in Seq(Block) /\ todo \in Seq(Guides \cup {NoGuide})
  /\ unreported \subseteq Guides /\ {noticeIndex, summary} \subseteq 0 .. MaxReads
  /\ {activationBytes, contextBytes, noticeBytes} \subseteq Nat

(* What is added stays within the budgets of a read, of the request and of    *)
(* the notices, the last notice included ("Reserve a bounded final notice    *)
(* even when individually labelled omissions saturate", core.ts:201).       *)
BudgetsHold ==
  /\ \A i \in DOMAIN reads : Bytes(OfRead(i)) + (IF i = summary THEN Closing ELSE 0) <= Activation
  /\ Bytes(Block) + Closing <= Context
  /\ Bytes(OnlyNotices) + Closing <= Notices

(* The context gets a guide once, and none whose text it has.                *)
GuidesOnce ==
  /\ \A i, j \in DOMAIN told : told[i].guide = told[j].guide => i = j
  /\ \A b \in Blocks : b.guide \notin known

(* No guide on the way to a file that was read is passed over in silence.     *)
NoneSilent ==
  Done => \A g \in OnTheWay : \/ g \in known \/ \E b \in Blocks : b.guide = g
                              \/ g \in unreported /\ summary # 0

(* Every guide on the way is given once or reported, within the budgets.     *)
GuidesTold == BudgetsHold /\ GuidesOnce /\ NoneSilent
=============================================================================
