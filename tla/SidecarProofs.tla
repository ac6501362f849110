----------------------------- MODULE SidecarProofs -----------------------------
(* What is proved of an agent in a pane and its parent, for any number of   *)
(* questions, commands and reloads of either side: the child hears every    *)
(* command and every answer once (EachIsHeardOnce), and the parent tells    *)
(* the outcome that the child published (OutcomeIsTrue).  Both follow from  *)
(* SidecarInv: what was heard is acknowledged and its question is over, and *)
(* a parent that did not wait for a result told a failure, because the pane *)
(* was gone or because it took it for gone.                                *)
EXTENDS Sidecar, WellFoundedInduction, TLAPS

(* The question of the bridge and the file that tells of it are the same,   *)
(* and it is the last one asked.                                           *)
OneQuestion == question = pending /\ pending \in {0, questions}

(* A command that was heard is acknowledged, and the question it answers is *)
(* over.                                                                   *)
HeardIsOver ==
  \A i \in 1 .. Len(Heard) :
    /\ Heard[i].at \in acks
    /\ Heard[i].question # 0 =>
         Heard[i].question <= questions /\ Heard[i].question # pending

(* Only a reply is about a question. *)
Commanded ==
  \A i \in 1 .. Len(commands) : commands[i].type # "reply" => commands[i].question = 0

Hearing == ToldOnce /\ AnsweredOnce /\ OneQuestion /\ HeardIsOver /\ Commanded

(* A parent that did not wait for the result tells a failure: the agent is   *)
(* gone and handed nothing off, or the parent took its pane for dead.       *)
EndIsSeen ==
  /\ parent = "launching" => child = "none"
  /\ exit => child = "gone"
  /\ Ended => \/ parent = result
              \/ parent = "failed" /\ child = "gone" /\ result # "complete"
              \/ parent = "failed" /\ gaveUp

SidecarInv == TypeOK /\ Hearing /\ EndIsSeen

------------------------------------------------------------------------------
(* A set of numbers has a least one. *)
LEMMA Least ==
  ASSUME NEW S \in SUBSET Nat, S # {}
  PROVE  \E x \in S : \A y \in S : x <= y
<1> DEFINE R == OpToRel(<, Nat)
<1>1. IsWellFoundedOn(R, Nat)
  BY NatLessThanWellFounded
<1>2. \A x, y \in Nat : x < y => <<x, y>> \in R
  BY DEF OpToRel
<1> HIDE DEF R
<1>3. PICK x \in S : \A y \in S : ~(<<y, x>> \in R)
  BY <1>1, WFMin
<1>4. \A y \in S : ~(y < x)
  BY <1>2, <1>3
<1>5. x \in Nat /\ \A y \in S : y \in Nat
  OBVIOUS
<1>6. \A y \in S : x <= y
  BY <1>4, <1>5
<1> QED
  BY <1>6

(* The first of what was sent goes to the end of what was told. *)
LEMMA Moved ==
  ASSUME NEW S, NEW b \in Seq(S), NEW q \in Seq(S), q # <<>>
  PROVE  /\ Append(b, Head(q)) \o Tail(q) = b \o q
         /\ Append(b, Head(q)) \in Seq(S) /\ Tail(q) \in Seq(S)
<1>1. Head(q) \in S /\ Tail(q) \in Seq(S) /\ Len(q) > 0 /\ Len(Tail(q)) = Len(q) - 1
  OBVIOUS
<1> DEFINE a == Append(b, Head(q))
<1>2. a \in Seq(S) /\ Len(a) = Len(b) + 1
  BY <1>1
<1>3. Len(a \o Tail(q)) = Len(b \o q)
  BY <1>1, <1>2
<1>4. \A i \in 1 .. Len(b \o q) : (a \o Tail(q))[i] = (b \o q)[i]
  <2> SUFFICES ASSUME NEW i \in 1 .. Len(b \o q) PROVE (a \o Tail(q))[i] = (b \o q)[i]
    OBVIOUS
  <2>1. CASE i <= Len(b)
    BY <2>1, <1>1, <1>2
  <2>2. CASE i = Len(b) + 1
    <3>1. (b \o q)[i] = q[1]
      BY <2>2, <1>1
    <3>2. (a \o Tail(q))[i] = a[i]
      BY <2>2, <1>1, <1>2
    <3> QED
      BY <3>1, <3>2, <2>2, <1>1
  <2>3. CASE i > Len(b) + 1
    <3>1. (b \o q)[i] = q[i - Len(b)]
      BY <2>3, <1>1
    <3>2. (a \o Tail(q))[i] = Tail(q)[i - Len(a)]
      BY <2>3, <1>1, <1>2
    <3>3. Tail(q)[i - Len(a)] = q[i - Len(a) + 1]
      BY <2>3, <1>1, <1>2
    <3> QED
      BY <3>1, <3>2, <3>3, <1>2
  <2> QED
    BY <2>1, <2>2, <2>3, <1>1
<1>5. a \o Tail(q) \in Seq(S) /\ b \o q \in Seq(S)
  BY <1>1, <1>2
<1> QED
  BY <1>1, <1>2, <1>3, <1>4, <1>5

(* What is sent goes to the end of what is heard. *)
LEMMA AppendedAtEnd ==
  ASSUME NEW S, NEW b \in Seq(S), NEW q \in Seq(S), NEW x \in S
  PROVE  b \o Append(q, x) = Append(b \o q, x)
<1>1. Append(q, x) \in Seq(S) /\ b \o q \in Seq(S) /\ Len(Append(q, x)) = Len(q) + 1
  OBVIOUS
<1>2. /\ b \o Append(q, x) \in Seq(S) /\ Append(b \o q, x) \in Seq(S)
      /\ Len(b \o Append(q, x)) = Len(Append(b \o q, x))
  BY <1>1
<1>3. \A i \in 1 .. Len(b \o Append(q, x)) : (b \o Append(q, x))[i] = Append(b \o q, x)[i]
  BY <1>1
<1> QED
  BY <1>2, <1>3

------------------------------------------------------------------------------
(* Types. *)

(* The initial state is well typed. *)
LEMMA InitTypes == Init => TypeOK
<1> SUFFICES ASSUME Init PROVE TypeOK
  OBVIOUS
<1> USE SidecarAssumption
<1>1. commands \in Seq(Command) /\ queue \in Seq(Sent) /\ branch \in Seq(Sent)
      /\ Len(commands) = 0
  BY DEF Init
<1>2. {asked, waiting, saved, question, pending, questions} \subseteq Question
  BY DEF Init, Question
<1>3. acks \subseteq 1 .. Len(commands) /\ Len(commands) \in 0 .. MaxCommands
  BY <1>1 DEF Init
<1>4. reloads \in 0 .. MaxReloads
  BY DEF Init
<1>5. /\ parent \in Status \cup {"launching", "supervising", "detached", "rpc"}
      /\ {killing, gaveUp, parentHeard, childHeard, exit, removed, cancelled} \subseteq BOOLEAN
      /\ result \in Status \cup {Absent}
      /\ child \in {"none", "turn", "idle", "reloading", "closing", "down", "hung", "gone"}
  BY DEF Init
<1> QED
  BY <1>1, <1>2, <1>3, <1>4, <1>5 DEF TypeOK

(* What the parent does keeps the types. *)
LEMMA ParentTypes ==
  ASSUME TypeOK,
         Launch \/ Supervise \/ Message \/ Reply \/ Abort \/ Detach \/ RemoveSidecar
  PROVE  TypeOK'
<1> USE SidecarAssumption
<1>1. ASSUME NEW c \in Command, Write(c) PROVE /\ commands' \in Seq(Command) /\ acks' \subseteq 1 .. Len(commands')
                 /\ Len(commands') \in 0 .. MaxCommands
  BY <1>1 DEF Write, TypeOK
<1>2. CASE Launch
  BY <1>2 DEF Launch, TypeOK, bounds, heard, Status
<1>3. CASE Scan
  <2>1. /\ parent' \in Status \cup {"supervising"} /\ killing' \in BOOLEAN
        /\ parentHeard' = FALSE
        /\ {asked', waiting', saved'} \subseteq Question
    BY <1>3 DEF Scan, Finish, TypeOK, Status
  <2>2. UNCHANGED <<gaveUp, files, childVars, childHeard, bounds>>
    BY <1>3 DEF Scan
  <2> QED
    BY <2>1, <2>2 DEF TypeOK, files, childVars, bounds
<1>4. CASE TakeForDead
  BY <1>4 DEF TakeForDead, Finish, TypeOK, files, childVars, heard, bounds, Status
<1>5. CASE Attach
  BY <1>5 DEF Attach, TypeOK, files, childVars, bounds, Question
<1>6. CASE Message
  BY <1>6, <1>1 DEF Message, Write, Changed, TypeOK, childVars, bounds, Question, Command
<1>7. CASE Reply
  BY <1>7, <1>1 DEF Reply, Write, Changed, TypeOK, childVars, bounds, Question, Command
<1>8. CASE Abort
  BY <1>8, <1>1 DEF Abort, Write, Changed, TypeOK, childVars, bounds, Question, Command
<1>9. CASE Detach
  <2>1. reloads' \in 0 .. MaxReloads
    BY <1>9 DEF Detach, Reload, TypeOK
  <2>2. /\ parent' = "detached" /\ killing' = FALSE /\ parentHeard' = FALSE
        /\ UNCHANGED <<asked, waiting, saved, gaveUp, files, childVars, childHeard,
                        questions>>
    BY <1>9 DEF Detach
  <2> QED
    BY <2>1, <2>2 DEF TypeOK, files, childVars
<1>10. CASE RemoveSidecar
  BY <1>10 DEF RemoveSidecar, TypeOK, parentVars, childVars, heard, bounds
<1> QED
  BY <1>2, <1>3, <1>4, <1>5, <1>6, <1>7, <1>8, <1>9, <1>10
     DEF Supervise, FindDead, MisreadPane

(* A command that is processed goes, if it is told at all, to the end of     *)
(* what was sent; what it answers is the question that is open.             *)
LEMMA ProcessTells ==
  ASSUME TypeOK, Process
  PROVE  \/ UNCHANGED <<queue, branch, acks, pending, question>>
         \/ \E i \in 1 .. Len(commands) :
              /\ i \notin acks /\ acks' = acks \cup {i} /\ UNCHANGED branch
              /\ \/ UNCHANGED <<queue, pending, question>>
                 \/ /\ queue' = Append(queue, [at |-> i, question |-> commands[i].question])
                    /\ \/ commands[i].type = "message" /\ UNCHANGED <<pending, question>>
                       \/ /\ commands[i].type = "reply" /\ pending' = 0
                          /\ commands[i].question = pending
                          /\ question' = IF question = commands[i].question THEN 0
                                         ELSE question
<1>1. CASE Due = {} \/ removed
  BY <1>1 DEF Process, childVars, files
<1>2. CASE ~(Due = {} \/ removed)
  <2> DEFINE i == CHOOSE i \in Due : \A j \in Due : i <= j
  <2>1. i \in Due
    <3>1. Due \in SUBSET Nat
      BY DEF Due
    <3>2. \E k \in Due : \A j \in Due : k <= j
      BY <3>1, <1>2, Least
    <3> QED
      BY <3>2
  <2> HIDE DEF i
  <2>2. /\ i \in 1 .. Len(commands) /\ i \notin acks
        /\ commands[i].type = "reply" => commands[i].question = pending \/ Applied(i)
    BY <2>1 DEF Due
  <2>3. /\ acks' = acks \cup {i} /\ UNCHANGED branch
        /\ \/ Applied(i) /\ UNCHANGED <<child, cancelled, queue, pending, question>>
           \/ ~Applied(i) /\ Cancel(i)
           \/ /\ ~Applied(i) /\ commands[i].type = "message" /\ Send(i)
              /\ UNCHANGED <<child, cancelled, pending, question>>
           \/ /\ ~Applied(i) /\ commands[i].type = "reply" /\ Send(i)
              /\ pending' = 0
              /\ question' = IF question = commands[i].question THEN 0 ELSE question
              /\ UNCHANGED <<child, cancelled>>
    BY <1>2 DEF Process, Acknowledge, i
  <2> QED
    BY <2>2, <2>3 DEF Cancel, Send
<1> QED
  BY <1>1, <1>2

(* What is sent for a command tells its place and its question. *)
LEMMA CommandSent ==
  ASSUME TypeOK, NEW i \in 1 .. Len(commands)
  PROVE  /\ commands[i] \in Command
         /\ [at |-> i, question |-> commands[i].question] \in Sent
<1>1. commands[i] \in Command
  BY DEF TypeOK
<1>2. i \in Index
  BY SidecarAssumption DEF TypeOK, Index
<1>3. commands[i].question \in Question
  BY <1>1 DEF Command
<1> QED
  BY <1>1, <1>2, <1>3 DEF Sent

(* The queue and the branch only get what Deliver moves and Process sends.   *)
LEMMA SentTypes ==
  ASSUME TypeOK
  PROVE  /\ Deliver => queue' \in Seq(Sent) /\ branch' \in Seq(Sent) /\ Heard' = Heard
         /\ Process => queue' \in Seq(Sent) /\ branch' \in Seq(Sent)
<1>1. ASSUME Deliver PROVE queue' \in Seq(Sent) /\ branch' \in Seq(Sent) /\ Heard' = Heard
  <2>1. queue \in Seq(Sent) /\ branch \in Seq(Sent) /\ queue # <<>>
    BY <1>1 DEF TypeOK, Deliver
  <2>2. branch' = Append(branch, Head(queue)) /\ queue' = Tail(queue)
    BY <1>1 DEF Deliver
  <2> QED
    BY <2>1, <2>2, Moved DEF Heard
<1>2. ASSUME Process PROVE queue' \in Seq(Sent) /\ branch' \in Seq(Sent)
  <2>1. queue \in Seq(Sent) /\ branch \in Seq(Sent)
    BY DEF TypeOK
  <2>2. ASSUME NEW i \in 1 .. Len(commands)
        PROVE  [at |-> i, question |-> commands[i].question] \in Sent
    BY CommandSent
  <2>3. \/ UNCHANGED <<queue, branch>>
        \/ \E i \in 1 .. Len(commands) :
             /\ queue' = Append(queue, [at |-> i, question |-> commands[i].question])
             /\ UNCHANGED branch
    BY <1>2, ProcessTells
  <2>4. CASE UNCHANGED <<queue, branch>>
    BY <2>1, <2>4
  <2>5. CASE \E i \in 1 .. Len(commands) :
               /\ queue' = Append(queue, [at |-> i, question |-> commands[i].question])
               /\ UNCHANGED branch
    BY <2>1, <2>2, <2>5
  <2> QED
    BY <2>3, <2>4, <2>5
<1> QED
  BY <1>1, <1>2

(* What the child does keeps the types. *)
LEMMA ChildTypes ==
  ASSUME TypeOK, Run \/ Ask \/ Escape \/ Resume \/ Restart \/ Quit \/ Kill
  PROVE  TypeOK'
<1> USE SidecarAssumption
<1> DEFINE Outcome == result' \in Status \cup {Absent}
<1>1. ASSUME NEW s \in Status, Publish(s) PROVE Outcome
  BY <1>1 DEF Publish, TypeOK
<1>2. CASE TurnEnds
  <2>1. Outcome
    BY <1>2, <1>1 DEF TurnEnds, TypeOK, Status
  <2> QED
    BY <1>2, <2>1 DEF TurnEnds, Changed, TypeOK, parentVars, bounds, heard
<1>3. CASE Deliver
  <2>1. queue' \in Seq(Sent) /\ branch' \in Seq(Sent)
    BY <1>3, SentTypes
  <2> QED
    BY <1>3, <2>1 DEF Deliver, TypeOK, parentVars, files, heard, bounds
<1>4. CASE Process
  <2>1. queue' \in Seq(Sent) /\ branch' \in Seq(Sent)
    BY <1>4, SentTypes
  <2>2. /\ acks' \subseteq 1 .. Len(commands)
        /\ {pending', question'} \subseteq Question
    <3>1. {0, pending, question} \subseteq Question
      BY DEF TypeOK, Question
    <3>2. /\ pending' \in {0, pending} /\ question' \in {0, question}
          /\ acks' = acks \/ \E i \in 1 .. Len(commands) : acks' = acks \cup {i}
      BY <1>4, ProcessTells
    <3> QED
      BY <3>1, <3>2 DEF TypeOK
  <2>3. /\ {parentHeard', childHeard', cancelled'} \subseteq BOOLEAN
        /\ child' \in {child, "closing"}
        /\ UNCHANGED <<parentVars, bounds, result, exit, commands, removed>>
    BY <1>4 DEF Process, TypeOK, childVars, files, Cancel, Send
  <2> QED
    BY <2>1, <2>2, <2>3 DEF TypeOK, parentVars, bounds
<1>5. CASE Start
  <2>1. {0, question} \subseteq Question
    BY DEF TypeOK, Question
  <2>2. question' = pending' /\ pending' \in {0, question}
    BY <1>5 DEF Start
  <2> QED
    BY <1>5, <2>1, <2>2 DEF Start, TypeOK, parentVars, bounds
<1>6. CASE Close
  <2>1. Outcome
    BY <1>6, <1>1 DEF Close, Status
  <2> QED
    BY <1>6, <2>1 DEF Close, Changed, TypeOK, parentVars, bounds
<1>7. CASE RecordExit
  BY <1>7 DEF RecordExit, Changed, TypeOK, parentVars, bounds
<1>8. CASE HangUp
  <2>1. Outcome
    BY <1>8, <1>1 DEF HangUp, TypeOK, Status
  <2> QED
    BY <1>8, <2>1 DEF HangUp, Changed, TypeOK, parentVars, bounds
<1>9. CASE Ask
  <2>1. questions' \in Question /\ question' = questions' /\ pending' = questions'
    BY <1>9 DEF Ask, TypeOK, Question
  <2> QED
    BY <1>9, <2>1 DEF Ask, Changed, TypeOK, parentVars
<1>10. CASE Escape
  <2>1. Outcome
    BY <1>10, <1>1 DEF Escape, Aborted, Status
  <2> QED
    BY <1>10, <2>1 DEF Escape, Changed, TypeOK, parentVars, bounds
<1>11. CASE Resume
  BY <1>11 DEF Resume, TypeOK, parentVars, files, heard, bounds
<1>12. CASE Restart
  <2>1. reloads' \in 0 .. MaxReloads
    BY <1>12 DEF Restart, Reload, TypeOK
  <2> QED
    BY <1>12, <2>1 DEF Restart, TypeOK, parentVars, files
<1>13. CASE Quit
  BY <1>13 DEF Quit, TypeOK, parentVars, files, heard, bounds
<1>14. CASE Kill
  BY <1>14 DEF Kill, TypeOK, files, heard, bounds
<1> QED
  BY <1>2, <1>3, <1>4, <1>5, <1>6, <1>7, <1>8, <1>9, <1>10, <1>11, <1>12, <1>13, <1>14
     DEF Run

------------------------------------------------------------------------------
(* What the child hears. *)

(* A step that asks, hears and answers nothing disturbs nothing.             *)
LEMMA StillHearing ==
  ASSUME Hearing, Heard' = Heard,
         UNCHANGED <<acks, question, pending, questions, commands>>
  PROVE  Hearing'
  BY DEF Hearing, ToldOnce, AnsweredOnce, OneQuestion, HeardIsOver, Commanded

(* A command that the parent writes is new, and a message is not a reply.    *)
LEMMA WriteHearing ==
  ASSUME TypeOK, Hearing, Message \/ Reply \/ Abort
  PROVE  Hearing'
<1>1. PICK c \in Command : Write(c) /\ (c.type # "reply" => c.question = 0)
  BY SidecarAssumption DEF Message, Reply, Abort, TypeOK, Command, Question
<1>2. /\ commands \in Seq(Command) /\ commands' = Append(commands, c)
      /\ UNCHANGED <<acks, question, pending, questions, queue, branch>>
  BY <1>1 DEF Write, childVars, bounds, TypeOK
<1>3. Commanded'
  BY <1>1, <1>2 DEF Hearing, Commanded
<1>4. Heard' = Heard
  BY <1>2 DEF Heard
<1> QED
  BY <1>2, <1>3, <1>4 DEF Hearing, ToldOnce, AnsweredOnce, OneQuestion, HeardIsOver

(* A new question is later than all that were answered. *)
LEMMA AskHearing ==
  ASSUME TypeOK, Hearing, Ask
  PROVE  Hearing'
<1>1. /\ questions' = questions + 1 /\ question' = questions' /\ pending' = questions'
      /\ UNCHANGED <<acks, commands, queue, branch>>
  BY DEF Ask
<1>2. Heard' = Heard
  BY <1>1 DEF Heard
<1>3. questions \in Nat
  BY SidecarAssumption DEF TypeOK, Question
<1>4. \A i \in 1 .. Len(Heard) : Heard[i].question # 0 => Heard[i].question \in Nat
  <2>1. Heard \in Seq(Sent)
    BY DEF Heard, TypeOK
  <2>2. ASSUME NEW i \in 1 .. Len(Heard) PROVE Heard[i].question \in Question
    <3>1. Heard[i] \in Sent
      BY <2>1
    <3> QED
      BY <3>1 DEF Sent
  <2> QED
    BY <2>2, SidecarAssumption DEF Question
<1>5. HeardIsOver'
  BY <1>1, <1>2, <1>3, <1>4 DEF Hearing, HeardIsOver
<1> QED
  BY <1>1, <1>2, <1>5 DEF Hearing, ToldOnce, AnsweredOnce, OneQuestion, Commanded

(* A new bridge takes up the question that has no reply yet. *)
LEMMA StartHearing ==
  ASSUME TypeOK, Hearing, Start
  PROVE  Hearing'
<1>1. /\ question' = pending' /\ pending' \in {0, question}
      /\ UNCHANGED <<acks, commands, questions, queue, branch>>
  BY DEF Start, bounds
<1>2. Heard' = Heard
  BY <1>1 DEF Heard
<1>3. HeardIsOver'
  BY <1>1, <1>2 DEF Hearing, HeardIsOver, OneQuestion
<1> QED
  BY <1>1, <1>2, <1>3 DEF Hearing, ToldOnce, AnsweredOnce, OneQuestion, Commanded

(* What is told was not acknowledged before, and answers the open question.  *)
LEMMA ProcessHearing ==
  ASSUME TypeOK, Hearing, Process
  PROVE  Hearing'
<1>1. commands' = commands /\ questions' = questions
  BY DEF Process, files, bounds
<1>2. CASE UNCHANGED <<queue, branch, acks, pending, question>>
  BY <1>1, <1>2, StillHearing DEF Heard
<1>3. CASE ~UNCHANGED <<queue, branch, acks, pending, question>>
  <2>1. PICK i \in 1 .. Len(commands) :
          /\ i \notin acks /\ acks' = acks \cup {i} /\ UNCHANGED branch
          /\ \/ UNCHANGED <<queue, pending, question>>
             \/ /\ queue' = Append(queue, [at |-> i, question |-> commands[i].question])
                /\ \/ commands[i].type = "message" /\ UNCHANGED <<pending, question>>
                   \/ /\ commands[i].type = "reply" /\ pending' = 0
                      /\ commands[i].question = pending
                      /\ question' = IF question = commands[i].question THEN 0
                                     ELSE question
    BY <1>3, ProcessTells
  <2>2. CASE UNCHANGED <<queue, pending, question>>
    BY SMTT(20), <1>1, <2>1, <2>2
       DEF Hearing, ToldOnce, AnsweredOnce, OneQuestion, HeardIsOver, Commanded, Heard
  <2>3. CASE ~UNCHANGED <<queue, pending, question>>
    <3> DEFINE x == [at |-> i, question |-> commands[i].question]
    <3>1. x \in Sent /\ queue \in Seq(Sent) /\ branch \in Seq(Sent) /\ Heard \in Seq(Sent)
      <4>1. x \in Sent
        BY CommandSent
      <4> HIDE DEF x
      <4> QED
        BY <4>1 DEF TypeOK, Heard
    <3>2. Heard' = Append(Heard, x)
      <4>1. queue' = Append(queue, x) /\ branch' = branch
        BY <2>1, <2>3
      <4> HIDE DEF x
      <4> QED
        BY <4>1, <3>1, AppendedAtEnd DEF Heard
    <3>3. /\ x.at = i /\ x.question = commands[i].question
          /\ x.question # 0 => x.question = pending /\ pending' = 0
          /\ question' = pending' /\ pending' \in {0, pending}
          /\ commands[i].question = pending \/ commands[i].question = 0
      BY <2>1, <2>3 DEF Hearing, OneQuestion, Commanded
    <3>4. /\ Len(Heard') = Len(Heard) + 1 /\ Heard'[Len(Heard) + 1] = x
          /\ \A j \in 1 .. Len(Heard) : Heard'[j] = Heard[j]
          /\ Len(Heard) \in Nat
      BY <3>1, <3>2
    <3> HIDE DEF x
    <3>5. \A j \in 1 .. Len(Heard) : /\ Heard[j].at # i
                                     /\ x.question # 0 => Heard[j].question # x.question
      BY <2>1, <3>3 DEF Hearing, HeardIsOver
    <3>6. ToldOnce' /\ AnsweredOnce'
      <4> SUFFICES ASSUME NEW j \in 1 .. Len(Heard'), NEW k \in 1 .. Len(Heard'), j # k
                   PROVE  /\ Heard'[j].at # Heard'[k].at
                          /\ Heard'[j].question # 0 => Heard'[j].question # Heard'[k].question
        BY DEF ToldOnce, AnsweredOnce
      <4>1. CASE j \in 1 .. Len(Heard) /\ k \in 1 .. Len(Heard)
        BY <4>1, <3>4 DEF Hearing, ToldOnce, AnsweredOnce
      <4>2. CASE j = Len(Heard) + 1 /\ k \in 1 .. Len(Heard)
        BY <4>2, <3>3, <3>4, <3>5
      <4>3. CASE k = Len(Heard) + 1 /\ j \in 1 .. Len(Heard)
        <5>1. Heard'[k] = x /\ Heard'[j] = Heard[j]
          BY <4>3, <3>4
        <5>2. Heard[j].question # 0 => Heard[j].question # x.question
          BY <4>3, <3>5
        <5> QED
          BY <4>3, <5>1, <5>2, <3>3, <3>5
      <4> QED
        BY <4>1, <4>2, <4>3, <3>4
    <3>8. OneQuestion'
      BY <1>1, <3>3 DEF Hearing, OneQuestion
    <3>9. HeardIsOver'
      <4> SUFFICES ASSUME NEW j \in 1 .. Len(Heard')
                   PROVE  /\ Heard'[j].at \in acks'
                          /\ Heard'[j].question # 0 =>
                               Heard'[j].question <= questions' /\ Heard'[j].question # pending'
        BY DEF HeardIsOver
      <4>1. CASE j \in 1 .. Len(Heard)
        BY <4>1, <1>1, <2>1, <3>3, <3>4 DEF Hearing, HeardIsOver
      <4>2. CASE j = Len(Heard) + 1
        BY SMTT(20), <4>2, <1>1, <2>1, <3>3, <3>4, SidecarAssumption
           DEF Hearing, OneQuestion, TypeOK, Question
      <4> QED
        BY <4>1, <4>2, <3>4
    <3>10. Commanded'
      BY <1>1 DEF Hearing, Commanded
    <3> QED
      BY <3>6, <3>8, <3>9, <3>10 DEF Hearing
  <2> QED
    BY <2>2, <2>3
<1> QED
  BY <1>2, <1>3

(* Every step keeps what the child hears in order. *)
LEMMA StepHearing ==
  ASSUME TypeOK, Hearing, [Next]_vars
  PROVE  Hearing'
<1>1. CASE Deliver
  <2>1. Heard' = Heard
    BY <1>1, SentTypes
  <2> QED
    BY <1>1, <2>1, StillHearing DEF Deliver, files, bounds
<1> DEFINE Same == UNCHANGED <<queue, branch, acks, question, pending, questions, commands>>
<1>2. ASSUME \/ Launch \/ Supervise \/ Detach \/ RemoveSidecar \/ UNCHANGED vars
      PROVE  Same
  BY <1>2 DEF Launch, Supervise, Scan, FindDead, MisreadPane, TakeForDead, Attach, Detach,
     RemoveSidecar, vars, parentVars, files, childVars, heard, bounds
<1>3. ASSUME TurnEnds \/ Close \/ RecordExit \/ HangUp \/ Escape \/ Resume \/ Restart
             \/ Quit \/ Kill
      PROVE  Same
  BY <1>3 DEF TurnEnds, Close, RecordExit, HangUp, Escape, Resume, Restart, Quit, Kill,
     parentVars, files, childVars, heard, bounds
<1>4. CASE Same
  BY <1>4, StillHearing DEF Heard
<1> QED
  BY <1>1, <1>2, <1>3, <1>4, WriteHearing, AskHearing, StartHearing, ProcessHearing
     DEF Next, Run, Supervise

------------------------------------------------------------------------------
(* What the parent tells. *)

(* A handoff is published by a turn, and only where there is no result yet.  *)
LEMMA StepEnd ==
  ASSUME TypeOK, EndIsSeen, [Next]_vars
  PROVE  EndIsSeen'
<1> USE AbsentAssumption
<1>1. ASSUME UNCHANGED <<parent, gaveUp, result, exit, child>> PROVE EndIsSeen'
  BY <1>1 DEF EndIsSeen, Ended
<1>2. CASE Launch
  BY <1>2 DEF Launch, EndIsSeen, Ended, Status
<1>3. CASE Scan
  <2>1. UNCHANGED <<gaveUp, result, exit, child>>
    BY <1>3 DEF Scan, files, childVars
  <2>2. \/ parent' = result /\ result # Absent
        \/ parent' = "failed" /\ result = Absent /\ exit
        \/ parent' = parent
    <3>1. \/ result # Absent /\ Finish(result)
          \/ result = Absent /\ exit /\ Finish("failed")
          \/ result = Absent /\ ~exit /\ UNCHANGED <<parent, killing>>
      BY <1>3 DEF Scan
    <3> QED
      BY <3>1 DEF Finish
  <2> QED
    BY <2>1, <2>2, <1>3 DEF EndIsSeen, Ended, Status, TypeOK, Scan
<1>4. CASE TakeForDead
  <2>1. /\ UNCHANGED <<result, exit, child>>
        /\ parent' = IF result # Absent THEN result ELSE "failed"
        /\ gaveUp' = (result = Absent /\ child # "gone")
    BY <1>4 DEF TakeForDead, Finish, files, childVars
  <2> QED
    BY <2>1 DEF EndIsSeen, Ended, Status, TypeOK
<1>5. CASE Attach \/ Detach
  BY <1>5 DEF Attach, Detach, EndIsSeen, Ended, Status, files, childVars
<1>6. CASE Message \/ Reply \/ Abort \/ RemoveSidecar
  BY <1>6, <1>1 DEF Message, Reply, Abort, Write, RemoveSidecar, parentVars, childVars
<1>7. CASE TurnEnds \/ Close \/ Escape
  <2>1. /\ child \in {"turn", "closing"} /\ UNCHANGED <<parent, gaveUp, exit>>
        /\ result # Absent => result' = result
    BY <1>7 DEF TurnEnds, Close, Escape, Publish, parentVars
  <2>2. Ended => parent = result \/ (parent = "failed" /\ gaveUp)
    BY <2>1 DEF EndIsSeen
  <2> QED
    BY <2>1, <2>2 DEF EndIsSeen, Ended
<1>8. CASE Deliver \/ Resume \/ Quit \/ Restart
  BY <1>8 DEF Deliver, Resume, Quit, Restart, EndIsSeen, Ended, parentVars, files
<1>9. CASE Process
  <2>1. /\ UNCHANGED <<parent, gaveUp, result, exit>> /\ child' \in {child, "closing"}
        /\ child \in {"turn", "idle", "closing"}
    BY <1>9 DEF Process, Watching, Alive, childVars, files, Cancel, parentVars
  <2> QED
    BY <2>1 DEF EndIsSeen, Ended
<1>10. CASE Start
  BY <1>10 DEF Start, EndIsSeen, Ended, parentVars
<1>11. CASE Ask
  BY <1>11, <1>1 DEF Ask, parentVars
<1>12. CASE RecordExit
  BY <1>12 DEF RecordExit, EndIsSeen, Ended, parentVars
<1>13. CASE HangUp
  <2>1. /\ child = "hung" /\ child' = "gone" /\ UNCHANGED <<parent, gaveUp>>
        /\ result # Absent => result' = result
    BY <1>13 DEF HangUp, Publish, parentVars
  <2> QED
    BY <2>1 DEF EndIsSeen, Ended
<1>14. CASE Kill
  BY <1>14 DEF Kill, EndIsSeen, Ended, files
<1>15. CASE UNCHANGED vars
  BY <1>15, <1>1 DEF vars, parentVars, files, childVars
<1> QED
  BY <1>2, <1>3, <1>4, <1>5, <1>6, <1>7, <1>8, <1>9, <1>10, <1>11, <1>12, <1>13, <1>14,
     <1>15 DEF Next, Run, Supervise, FindDead, MisreadPane

------------------------------------------------------------------------------
(* Through any reloads of either side every command and every answer is      *)
(* heard once, the files agree with the bridge, and what the parent tells is *)
(* what was published, or a failure of a pane that is gone or taken for it.  *)
THEOREM InStep == Spec => []SidecarInv
<1>1. Init => SidecarInv
  <2> SUFFICES ASSUME Init PROVE SidecarInv
    OBVIOUS
  <2>1. /\ question = 0 /\ pending = 0 /\ Len(Heard) = 0 /\ Len(commands) = 0
        /\ parent = "launching" /\ exit = FALSE /\ child = "none"
    BY DEF Init, Heard
  <2>2. Hearing
    BY <2>1 DEF Hearing, ToldOnce, AnsweredOnce, OneQuestion, HeardIsOver, Commanded
  <2>3. EndIsSeen
    BY <2>1 DEF EndIsSeen, Ended, Status
  <2> QED
    BY <2>2, <2>3, InitTypes DEF SidecarInv
<1>2. SidecarInv /\ [Next]_vars => SidecarInv'
  <2> SUFFICES ASSUME SidecarInv, [Next]_vars PROVE SidecarInv'
    OBVIOUS
  <2>1. TypeOK'
    <3>1. CASE UNCHANGED vars
      BY <3>1 DEF SidecarInv, TypeOK, vars, parentVars, files, childVars, heard, bounds
    <3>2. CASE Next
      BY <3>2, ParentTypes, ChildTypes DEF Next, SidecarInv
    <3> QED
      BY <3>1, <3>2
  <2> QED
    BY <2>1, StepHearing, StepEnd DEF SidecarInv
<1> QED
  BY <1>1, <1>2, PTL DEF Spec

(* The child hears each command, and each answer, once, however often        *)
(* either side is reloaded between its steps.                               *)
THEOREM EachIsHeardOnce == Spec => []HeardOnce
<1>1. SidecarInv => HeardOnce
  BY DEF SidecarInv, Hearing, HeardOnce
<1> QED
  BY <1>1, InStep, PTL

(* The parent reports a handoff or a stop only as the child published it, and *)
(* a handoff that was published is reported, except by a parent that had    *)
(* already given up on a pane whose agent was not gone.                     *)
THEOREM OutcomeIsTrue == Spec => []OutcomeTrue
<1>1. SidecarInv => OutcomeTrue
  BY DEF SidecarInv, EndIsSeen, OutcomeTrue
<1> QED
  BY <1>1, InStep, PTL
=============================================================================
