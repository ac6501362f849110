---------------------------- MODULE RpcChildProofs ----------------------------
(***************************************************************************)
(* A reply is accepted, and a completion is final, for any runs a child may *)
(* delegate to and any number of questions and messages.  The argument for  *)
(* the second: the child reports each run it delegates to before it settles, *)
(* on one pipe, and the parent's list of them only grows; so when it reads   *)
(* that the child settled it has heard of every run the child waited for.   *)
(***************************************************************************)
EXTENDS RpcChild, TLAPS

Kinds == {"message", "question", "nested", "single", "batch", "settled", "refusal"}
Line == [kind : Kinds, question : 0 .. MaxQuestions, runs : SUBSET Nested, bad : BOOLEAN]

(* The run is in the parent's list, or a line before the k-th names it.    *)
Heard(out, known, n, k) ==
  \/ n \in known
  \/ \E j \in 1 .. Len(out) : j < k /\ out[j].kind = "nested" /\ n \in out[j].runs

(* The parent, whose list is "known", has heard or will hear of each run    *)
(* that was started, and of those a child that settled waited for before it *)
(* reads so; the child writes no completion of the single-run protocol.     *)
Reports(out, known, started) ==
  /\ \A n \in started : Heard(out, known, n, Len(out) + 1)
  /\ \A k \in 1 .. Len(out) :
       /\ out[k].kind # "single"
       /\ out[k].kind = "settled" => \A n \in out[k].runs : Heard(out, known, n, k)

Started == {n \in Nested : nested[n] # "none"}

ChildInv == TypeOK /\ Reports(stdout, tracker.nested, Started)

------------------------------------------------------------------------------
(* The child writes a line. *)
LEMMA ReportsAppend ==
  ASSUME NEW out \in Seq(Line), NEW known, NEW started, NEW started2, NEW e \in Line,
         Reports(out, known, started),
         e.kind # "single",
         e.kind = "settled" => e.runs \subseteq started,
         started2 \subseteq started \cup (IF e.kind = "nested" THEN e.runs ELSE {})
  PROVE  Append(out, e) \in Seq(Line) /\ Reports(Append(out, e), known, started2)
<1> DEFINE longer == Append(out, e)
<1>1. /\ longer \in Seq(Line) /\ Len(longer) = Len(out) + 1 /\ Len(out) \in Nat
      /\ longer[Len(out) + 1] = e
      /\ \A k \in 1 .. Len(out) : longer[k] = out[k]
  OBVIOUS
<1> HIDE DEF longer
<1>2. ASSUME NEW n, NEW k \in 1 .. Len(out) + 1, Heard(out, known, n, k)
      PROVE  Heard(longer, known, n, k) /\ Heard(longer, known, n, Len(longer) + 1)
  BY <1>1, <1>2 DEF Heard
<1>3. ASSUME NEW n \in started2
      PROVE  Heard(longer, known, n, Len(longer) + 1)
  <2>1. CASE n \in started
    BY <2>1, <1>1, <1>2 DEF Reports
  <2>2. CASE e.kind = "nested" /\ n \in e.runs
    <3>1. Len(longer) \in 1 .. Len(longer) /\ Len(longer) < Len(longer) + 1
      BY <1>1
    <3> QED
      BY <3>1, <2>2, <1>1 DEF Heard
  <2> QED
    BY <2>1, <2>2
<1>4. ASSUME NEW k \in 1 .. Len(longer)
      PROVE  /\ longer[k].kind # "single"
             /\ longer[k].kind = "settled"
                  => \A n \in longer[k].runs : Heard(longer, known, n, k)
  <2>1. CASE k \in 1 .. Len(out)
    BY <2>1, <1>1, <1>2 DEF Reports
  <2>2. CASE k = Len(out) + 1
    BY <2>2, <1>1, <1>2 DEF Reports
  <2> QED
    BY <2>1, <2>2, <1>1
<1> QED
  BY <1>1, <1>3, <1>4 DEF Reports, longer

(* The parent reads a line. *)
LEMMA ReportsTail ==
  ASSUME NEW out \in Seq(Line), NEW known, NEW started, out # <<>>,
         Reports(out, known, started)
  PROVE  /\ Head(out) \in Line /\ Head(out).kind # "single" /\ Tail(out) \in Seq(Line)
         /\ Head(out).kind = "settled" => Head(out).runs \subseteq known
         /\ Reports(Tail(out),
                    known \cup (IF Head(out).kind = "nested" THEN Head(out).runs ELSE {}),
                    started)
<1> DEFINE rest == Tail(out)
           more == known \cup (IF Head(out).kind = "nested" THEN Head(out).runs ELSE {})
<1>1. /\ rest \in Seq(Line) /\ Len(rest) = Len(out) - 1 /\ Len(out) \in Nat
      /\ Len(out) > 0 /\ Head(out) = out[1] /\ out[1] \in Line
      /\ \A k \in 1 .. Len(rest) : rest[k] = out[k + 1]
  OBVIOUS
<1> HIDE DEF rest
<1>2. ASSUME NEW n, NEW k \in 2 .. Len(out) + 1, Heard(out, known, n, k)
      PROVE  Heard(rest, more, n, k - 1)
  <2>1. CASE n \in known
    BY <2>1 DEF Heard
  <2>2. ASSUME NEW j \in 1 .. Len(out), j < k, out[j].kind = "nested", n \in out[j].runs
        PROVE  Heard(rest, more, n, k - 1)
    <3>1. CASE j = 1
      BY <3>1, <2>2, <1>1 DEF Heard
    <3>2. CASE j # 1
      <4>1. j - 1 \in 1 .. Len(rest) /\ j - 1 < k - 1 /\ rest[j - 1] = out[j]
        BY <3>2, <1>1, <2>2
      <4> QED
        BY <4>1, <2>2 DEF Heard
    <3> QED
      BY <3>1, <3>2
  <2> QED
    BY <2>1, <2>2, <1>2 DEF Heard
<1>3. ASSUME NEW n \in started
      PROVE  Heard(rest, more, n, Len(rest) + 1)
  <2>1. Heard(out, known, n, Len(out) + 1) /\ Len(out) + 1 \in 2 .. Len(out) + 1
    BY <1>1 DEF Reports
  <2> QED
    BY <2>1, <1>1, <1>2, (Len(out) + 1) - 1 = Len(rest) + 1
<1>4. ASSUME NEW k \in 1 .. Len(rest)
      PROVE  /\ rest[k].kind # "single"
             /\ rest[k].kind = "settled" => \A n \in rest[k].runs : Heard(rest, more, n, k)
  <2>1. k + 1 \in 2 .. Len(out) + 1 /\ k + 1 \in 1 .. Len(out) /\ rest[k] = out[k + 1]
        /\ (k + 1) - 1 = k
    BY <1>1
  <2>2. /\ out[k + 1].kind # "single"
        /\ out[k + 1].kind = "settled"
             => \A n \in out[k + 1].runs : Heard(out, known, n, k + 1)
    BY <2>1 DEF Reports
  <2> QED
    BY <2>1, <2>2, <1>2
<1>5. /\ Head(out).kind # "single"
      /\ Head(out).kind = "settled" => Head(out).runs \subseteq known
  <2>1. 1 \in 1 .. Len(out)
    BY <1>1
  <2>2. \A n : Heard(out, known, n, 1) => n \in known
    BY DEF Heard
  <2> QED
    BY <1>1, <2>1, <2>2 DEF Reports
<1> QED
  BY <1>1, <1>3, <1>4, <1>5 DEF Reports, rest

------------------------------------------------------------------------------
(* Before the first command.                                                 *)
LEMMA InitChild == Init => ChildInv
<1> SUFFICES ASSUME Init
             PROVE  ChildInv
  OBVIOUS
<1>1. TypeOK
  <2>1. 0 \in 0 .. MaxQuestions /\ 0 \in 0 .. MaxMessages
    BY RpcAssumption DEF RpcAssumption
  <2>2. stdin \in Seq(Commands) /\ stdout \in Seq(Line)
    BY DEF Init
  <2>3. /\ tracker \in [question : 0 .. MaxQuestions, nested : SUBSET Nested, error : BOOLEAN]
        /\ run \in [activity : {"starting", "running", "waiting"}, question : 0 .. MaxQuestions]
        /\ nested \in [Nested -> {"none", "running", "done", "told"}]
    BY <2>1 DEF Init
  <2> QED
    BY <2>1, <2>2, <2>3 DEF Init, TypeOK, Outcomes, Line, Kinds
<1>2. Started = {} /\ Len(stdout) = 0
  BY DEF Init, Started
<1> QED
  BY <1>1, <1>2 DEF ChildInv, Reports

(* The actions of the parent that read nothing *)
LEMMA ParentActs ==
  ASSUME ChildInv,
         \/ Spawn \/ SpawnFails \/ Stop \/ Message \/ Reply \/ ForceKill \/ Close
  PROVE  ChildInv'
<1> USE RpcAssumption DEF RpcAssumption, ChildInv, Outcomes, Commands, parentVars, childVars
<1>1. TypeOK'
  <2>1. CASE Spawn
    <3>1. <<"abort">> \in Seq(Commands) /\ <<"prompt">> \in Seq(Commands)
      OBVIOUS
    <3>2. stdin' \in Seq(Commands)
      BY <2>1, <3>1 DEF Spawn
    <3>3. run' \in [activity : {"starting", "running", "waiting"}, question : 0 .. MaxQuestions]
      BY <2>1 DEF Spawn, TypeOK
    <3>4. phase' \in {"preparing", "held", "unheld"} /\ aborted' \in BOOLEAN
      BY <2>1 DEF Spawn, TypeOK
    <3> QED
      BY <2>1, <3>2, <3>3, <3>4 DEF Spawn, TypeOK
  <2>2. CASE SpawnFails
    BY <2>2 DEF SpawnFails, TypeOK
  <2>3. CASE Stop
    BY <2>3 DEF Stop, TypeOK
  <2>4. CASE Message
    BY <2>4 DEF Message, TypeOK
  <2>5. CASE Reply
    <3>1. stdin' \in Seq(Commands)
      BY <2>5 DEF Reply, TypeOK
    <3>2. /\ [tracker EXCEPT !.question = 0] \in [question : 0 .. MaxQuestions,
                                                 nested : SUBSET Nested, error : BOOLEAN]
          /\ [activity |-> "running", question |-> 0]
               \in [activity : {"starting", "running", "waiting"},
                   question : 0 .. MaxQuestions]
      <4>1. 0 \in 0 .. MaxQuestions
        OBVIOUS
      <4>2. tracker \in [question : 0 .. MaxQuestions, nested : SUBSET Nested,
                         error : BOOLEAN]
        BY DEF TypeOK
      <4> QED
        BY <4>1, <4>2
    <3>3. /\ tracker' \in {tracker, [tracker EXCEPT !.question = 0]}
          /\ run' \in {run, [activity |-> "running", question |-> 0]}
      BY <2>5 DEF Reply
    <3> QED
      BY <2>5, <3>1, <3>2, <3>3 DEF Reply, TypeOK
  <2>6. CASE ForceKill
    BY <2>6 DEF ForceKill, TypeOK
  <2>7. CASE Close
    BY <2>7 DEF Close, TypeOK
  <2> QED
    BY <2>1, <2>2, <2>3, <2>4, <2>5, <2>6, <2>7
<1>2. UNCHANGED <<stdout, nested>> /\ tracker'.nested = tracker.nested
  BY DEF Spawn, SpawnFails, Stop, Message, Reply, ForceKill, Close, TypeOK
<1> QED
  BY <1>1, <1>2 DEF Started

(* The parent reads a line: the reply to a command, an event or the end.     *)
LEMMA ParentReads ==
  ASSUME ChildInv, ProcessLine
  PROVE  /\ ChildInv'
         /\ ReplyAccepted => ReplyAccepted'
         /\ Running /\ outcome' = "complete"
            => ~aborted /\ Head(stdout).runs = {} /\ tracker.question = 0
<1> DEFINE e == Head(stdout)
           more == tracker.nested \cup (IF e.kind = "nested" THEN e.runs ELSE {})
<1>1. /\ stdout \in Seq(Line) /\ stdout # <<>> /\ stdout' = Tail(stdout)
      /\ Reports(stdout, tracker.nested, Started)
  BY DEF ChildInv, TypeOK, ProcessLine, Line, Kinds
<1>2. /\ e \in Line /\ e.kind # "single" /\ Tail(stdout) \in Seq(Line)
      /\ e.kind = "settled" => e.runs \subseteq tracker.nested
      /\ Reports(Tail(stdout), more, Started)
  BY <1>1, ReportsTail
<1>3. /\ Consume(e)
      /\ outcome' = IF ~Running THEN outcome
                    ELSE CASE e.kind = "refusal" -> "failed"
                           [] e.kind = "settled" -> SettledOutcome(e)
                           [] OTHER              -> outcome
      /\ run' = IF Running /\ outcome' # "none"
                THEN [Callbacks(e) EXCEPT !.question = 0] ELSE Callbacks(e)
      /\ UNCHANGED <<phase, cancel, aborted, turn, open, asks, nested, messages, stdin>>
  BY DEF ProcessLine, childVars
<1>4. /\ tracker \in [question : 0 .. MaxQuestions, nested : SUBSET Nested, error : BOOLEAN]
      /\ run \in [activity : {"starting", "running", "waiting"}, question : 0 .. MaxQuestions]
      /\ outcome \in Outcomes /\ aborted \in BOOLEAN
  BY DEF ChildInv, TypeOK
<1> HIDE DEF e, more
<1>5. /\ tracker' \in [question : 0 .. MaxQuestions, nested : SUBSET Nested, error : BOOLEAN]
      /\ tracker'.nested = more
      /\ tracker'.question = IF e.kind = "question" THEN e.question ELSE tracker.question
  BY <1>2, <1>3, <1>4 DEF Consume, Line, Kinds, more
<1>6. /\ Callbacks(e) \in [activity : {"starting", "running", "waiting"},
                           question : 0 .. MaxQuestions]
      /\ Callbacks(e).question = IF e.kind = "question" THEN e.question ELSE run.question
  BY <1>2, <1>4 DEF Callbacks, Line, Kinds
<1>7. /\ run' \in [activity : {"starting", "running", "waiting"}, question : 0 .. MaxQuestions]
      /\ outcome' = "none" => run' = Callbacks(e)
  BY <1>3, <1>6, RpcAssumption DEF RpcAssumption, Running
<1>8. outcome' \in Outcomes
  BY <1>3, <1>4 DEF Outcomes, SettledOutcome, Running
<1>9. ChildInv'
  <2>1. TypeOK'
    BY <1>1, <1>2, <1>3, <1>5, <1>7, <1>8 DEF ChildInv, TypeOK, Line, Kinds
  <2> QED
    BY <2>1, <1>1, <1>2, <1>3, <1>5 DEF ChildInv, Started
<1>10. ReplyAccepted => ReplyAccepted'
  <2>1. ~Running => outcome' = outcome
    BY <1>3
  <2> QED
    BY <2>1, <1>5, <1>6, <1>7 DEF ReplyAccepted, Running
<1>11. Running /\ outcome' = "complete"
       => ~aborted /\ e.runs = {} /\ tracker.question = 0
  BY <1>2, <1>3, <1>4 DEF Running, SettledOutcome, WaitingTracker, Line
<1> QED
  BY <1>9, <1>10, <1>11 DEF e

(* The child, the pipe and the clock go on.                                  *)
LEMMA ChildActs ==
  ASSUME ChildInv, Child
  PROVE  ChildInv'
<1> USE RpcAssumption DEF RpcAssumption, Commands, parentVars
<1>1. /\ stdout \in Seq(Line) /\ Started \subseteq Nested
      /\ Reports(stdout, tracker.nested, Started)
      /\ TypeOK
  BY DEF ChildInv, TypeOK, Line, Kinds, Started
<1>2. CASE TakePrompt
  <2>1. Event("refusal", 0, {}, TRUE) \in Line /\ Event("refusal", 0, {}, TRUE).kind = "refusal"
    BY DEF Event, Line, Kinds
  <2>2. stdout' \in Seq(Line) /\ Reports(stdout', tracker.nested, Started)
    BY <1>1, <1>2, <2>1, ReportsAppend DEF TakePrompt
  <2>3. TypeOK'
    <3>1. stdin' \in Seq(Commands)
      BY <1>1, <1>2 DEF TakePrompt, TypeOK
    <3> QED
      BY <1>1, <1>2, <2>2, <3>1 DEF TakePrompt, TypeOK, Line, Kinds
  <2> QED
    BY <1>2, <2>2, <2>3 DEF TakePrompt, ChildInv, Started
<1>3. CASE TakeAbort
  <2>1. /\ Event("settled", 0, {}, TRUE) \in Line
        /\ Event("settled", 0, {}, TRUE).kind = "settled"
        /\ Event("settled", 0, {}, TRUE).runs = {}
    BY DEF Event, Line, Kinds
  <2>2. stdout' \in Seq(Line) /\ Reports(stdout', tracker.nested, Started)
    BY <1>1, <1>3, <2>1, ReportsAppend DEF TakeAbort
  <2>3. TypeOK'
    <3>1. stdin' \in Seq(Commands)
      BY <1>1, <1>3 DEF TakeAbort, TypeOK
    <3> QED
      BY <1>1, <1>3, <2>2, <3>1 DEF TakeAbort, TypeOK, Line, Kinds
  <2> QED
    BY <1>3, <2>2, <2>3 DEF TakeAbort, ChildInv, Started
<1>4. CASE Ask
  <2>1. asks + 1 \in 0 .. MaxQuestions
    BY <1>1, <1>4 DEF Ask, TypeOK
  <2>2. /\ Event("question", asks + 1, {}, FALSE) \in Line
        /\ Event("question", asks + 1, {}, FALSE).kind = "question"
    BY <2>1 DEF Event, Line, Kinds
  <2>3. stdout' \in Seq(Line) /\ Reports(stdout', tracker.nested, Started)
    BY <1>1, <1>4, <2>2, ReportsAppend DEF Ask
  <2>4. TypeOK'
    BY <1>1, <1>4, <2>1, <2>3 DEF Ask, TypeOK, Line, Kinds
  <2> QED
    BY <1>4, <2>3, <2>4 DEF Ask, ChildInv, Started
<1>5. CASE EndTurn
  <2>1. PICK bad, abort \in BOOLEAN :
          stdout' = stdout \o <<Event("message", 0, {}, bad),
                               Event("settled", 0, Outstanding, abort)>>
    BY <1>5 DEF EndTurn
  <2> DEFINE a == Event("message", 0, {}, bad)
             b == Event("settled", 0, Outstanding, abort)
  <2>2. Outstanding \subseteq Started /\ Outstanding \in SUBSET Nested
    BY DEF Outstanding, Started
  <2>3. a \in Line /\ a.kind = "message" /\ b \in Line /\ b.kind = "settled" /\ b.runs = Outstanding
    BY <2>2 DEF Event, Line, Kinds
  <2> HIDE DEF a, b
  <2>4. Append(stdout, a) \in Seq(Line)
        /\ Reports(Append(stdout, a), tracker.nested, Started)
    BY <1>1, <2>3, ReportsAppend
  <2>5. /\ Append(Append(stdout, a), b) \in Seq(Line)
        /\ Reports(Append(Append(stdout, a), b), tracker.nested, Started)
    BY <2>2, <2>3, <2>4, ReportsAppend
  <2>6. stdout' = Append(Append(stdout, a), b)
    BY <1>1, <2>1, <2>3 DEF a, b
  <2>7. TypeOK'
    BY <1>1, <1>5, <2>5, <2>6 DEF EndTurn, TypeOK, Line, Kinds
  <2> QED
    BY <1>5, <2>5, <2>6, <2>7 DEF EndTurn, ChildInv, Started
<1>6. CASE Batch
  <2> DEFINE done == {n \in Nested : nested[n] = "done"}
  <2>1. /\ Event("batch", 0, done, FALSE) \in Line
        /\ Event("batch", 0, done, FALSE).kind = "batch"
    BY DEF Event, Line, Kinds
  <2>2. stdout' = Append(stdout, Event("batch", 0, done, FALSE))
        /\ nested' = [n \in Nested |-> IF n \in done THEN "told" ELSE nested[n]]
    BY <1>6 DEF Batch
  <2>3. Started' = Started
    BY <2>2 DEF Started
  <2>4. stdout' \in Seq(Line) /\ Reports(stdout', tracker.nested, Started)
    BY <1>1, <2>1, <2>2, ReportsAppend
  <2>5. nested' \in [Nested -> {"none", "running", "done", "told"}]
    BY <1>1, <2>2 DEF TypeOK
  <2>6. TypeOK'
    BY <1>1, <1>6, <2>4, <2>5 DEF Batch, TypeOK, Line, Kinds
  <2> QED
    BY <1>6, <2>3, <2>4, <2>6 DEF Batch, ChildInv
<1>7. CASE Die
  BY <1>1, <1>7 DEF Die, Alive, TypeOK, ChildInv, Started
<1>8. ASSUME NEW n \in Nested, Delegate(n)
      PROVE  ChildInv'
  <2>1. /\ Event("nested", 0, {n}, FALSE) \in Line
        /\ Event("nested", 0, {n}, FALSE).kind = "nested"
        /\ Event("nested", 0, {n}, FALSE).runs = {n}
    BY DEF Event, Line, Kinds
  <2>2. /\ nested' = [nested EXCEPT ![n] = "running"]
        /\ stdout' = Append(stdout, Event("nested", 0, {n}, FALSE))
    BY <1>8 DEF Delegate
  <2>3. Started' = Started \cup {n}
    BY <1>1, <2>2 DEF Started, TypeOK
  <2>4. stdout' \in Seq(Line) /\ Reports(stdout', tracker.nested, Started \cup {n})
    BY <1>1, <2>1, <2>2, ReportsAppend
  <2>5. TypeOK'
    BY <1>1, <1>8, <2>4 DEF Delegate, TypeOK, Line, Kinds
  <2> QED
    BY <1>8, <2>3, <2>4, <2>5 DEF Delegate, ChildInv
<1>9. ASSUME NEW n \in Nested, NestedEnds(n)
      PROVE  ChildInv'
  <2>1. Started' = Started
    BY <1>1, <1>9 DEF NestedEnds, Started, TypeOK
  <2>2. TypeOK'
    BY <1>1, <1>9 DEF NestedEnds, TypeOK
  <2> QED
    BY <1>1, <1>9, <2>1, <2>2 DEF NestedEnds, ChildInv
<1> QED
  BY <1>2, <1>3, <1>4, <1>5, <1>6, <1>7, <1>8, <1>9 DEF Child

(* Every step keeps the invariant.                                           *)
LEMMA StepChild == ChildInv /\ [Next]_vars => ChildInv'
<1> SUFFICES ASSUME ChildInv, [Next]_vars
             PROVE  ChildInv'
  OBVIOUS
<1>1. CASE Child
  BY <1>1, ChildActs
<1>2. CASE ProcessLine
  BY <1>2, ParentReads
<1>3. CASE Spawn \/ SpawnFails \/ Stop \/ Message \/ Reply \/ ForceKill \/ Close
  BY <1>3, ParentActs
<1>4. CASE UNCHANGED vars
  BY <1>4 DEF vars, parentVars, childVars, ChildInv, TypeOK, Started
<1> QED
  BY <1>1, <1>2, <1>3, <1>4 DEF Next, Parent

(* It holds in every execution.                                              *)
LEMMA ChildAlways == Spec => []ChildInv
<1> QED
  BY InitChild, StepChild, PTL DEF Spec

(* Every reachable state of the child, its parent and their pipes is well   *)
(* typed (runner.ts, protocol.ts).                                         *)
THEOREM TypeCorrect == Spec => []TypeOK
<1>1. ChildInv => TypeOK
  BY DEF ChildInv
<1> QED
  BY <1>1, ChildAlways, PTL

(* The tracker accepts every reply the parent may send: while a run is under *)
(* way, the question it shows is the one the tracker waits with             *)
(* (runner.ts, 265-272), for any number of questions.                       *)
THEOREM RepliesAccepted == Spec => []ReplyAccepted
<1>1. Init => ReplyAccepted
  BY DEF Init, ReplyAccepted
<1>2. ChildInv /\ ReplyAccepted /\ [Next]_vars => ReplyAccepted'
  <2> SUFFICES ASSUME ChildInv, ReplyAccepted, [Next]_vars
               PROVE  ReplyAccepted'
    OBVIOUS
  <2> USE DEF ChildInv, ReplyAccepted, Running, parentVars, childVars
  <2>1. CASE Spawn
    BY <2>1 DEF Spawn, TypeOK
  <2>2. CASE SpawnFails
    BY <2>2 DEF SpawnFails
  <2>3. CASE Stop
    BY <2>3 DEF Stop
  <2>4. CASE Message
    BY <2>4 DEF Message
  <2>5. CASE Reply
    BY <2>5 DEF Reply, TypeOK
  <2>6. CASE ProcessLine
    BY <2>6, ParentReads
  <2>7. CASE ForceKill
    BY <2>7 DEF ForceKill
  <2>8. CASE Close
    BY <2>8 DEF Close
  <2>9. CASE Child
    <3>1. UNCHANGED <<outcome, run, tracker>>
      BY <2>9 DEF Child, TakePrompt, TakeAbort, Ask, EndTurn, Batch, Die, Delegate,
                  NestedEnds
    <3> QED
      BY <3>1
  <2>10. CASE UNCHANGED vars
    BY <2>10 DEF vars
  <2> QED
    BY <2>1, <2>2, <2>3, <2>4, <2>5, <2>6, <2>7, <2>8, <2>9, <2>10 DEF Next, Parent
<1> QED
  BY <1>1, <1>2, ChildAlways, PTL DEF Spec

(* A run is complete only by a handoff whose child waited for no run, with   *)
(* no question open, and only if it was not aborted (protocol.ts, 251-259;  *)
(* runner.ts, 241), whatever the child delegates and however late the       *)
(* parent reads; and what a run was settled as never changes.              *)
THEOREM CompletionsFinal == Spec => CompleteIsFinal
<1>1. ChildInv /\ [Next]_vars
        => [/\ Running /\ outcome' = "complete"
               => ~aborted /\ Head(stdout).runs = {} /\ tracker.question = 0
            /\ ~Running => outcome' = outcome]_vars
  <2> SUFFICES ASSUME ChildInv, Next
               PROVE  /\ Running /\ outcome' = "complete"
                         => ~aborted /\ Head(stdout).runs = {} /\ tracker.question = 0
                      /\ ~Running => outcome' = outcome
    OBVIOUS
  <2>1. CASE ProcessLine
    BY <2>1, ParentReads DEF ProcessLine
  <2>2. CASE ~ProcessLine
    <3>1. /\ outcome' \in {outcome, "failed", "stopped"}
          /\ ~Running => outcome' = outcome
      BY <2>2 DEF Next, Parent, Spawn, SpawnFails, Stop, Message, Reply, ForceKill, Close,
           Child, TakePrompt, TakeAbort, Ask, EndTurn, Batch, Die, Delegate, NestedEnds,
           parentVars
    <3> QED
      BY <3>1 DEF Running
  <2> QED
    BY <2>1, <2>2
<1> QED
  BY <1>1, ChildAlways, PTL DEF Spec, CompleteIsFinal
=============================================================================
