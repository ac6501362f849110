------------------------ MODULE BackgroundProcessProofs ------------------------
(* What is proved of the background processes, for any processes, limits,   *)
(* session changes and lost messages.  ProcessInv is inductive: memory and  *)
(* the entries of the branch agree and what runs is watched (Books), the    *)
(* branch shows what counts as delivered, a batch is sent only when none is *)
(* on the way, and messages are ahead of what is delivered.  From it follow *)
(* Supervised, ResultsKept, OutcomeKept and the steps of ResultDelivery.    *)
(* What deliver does is stated once, in DeliverDoes and DeliverKeeps; every *)
(* handler that delivers prepares the runs those lemmas are applied to.     *)
EXTENDS BackgroundProcess, FiniteSetTheorems, WellFoundedInduction, TLAPS

RunMap == [Procs -> Run \cup {Absent}]

(* Hosts that will close. *)
Watched == Live \cup {"exited", "broken"}

(* What the branch tells is a snapshot, and nothing of a run under way is    *)
(* told as a result.                                                       *)
Entries(sv) ==
  /\ sv \in RunMap
  /\ \A p \in Procs : sv[p] # Absent =>
       /\ ~sv[p].owned /\ ~sv[p].queued
       /\ sv[p].status = "running" => sv[p].delivery = "none"

(* The branch tells of a remembered run what memory does. *)
Agree(m, sv) ==
  /\ m \in RunMap
  /\ \A p \in Procs : m[p] # Absent =>
       sv[p] # Absent /\ sv[p].status = m[p].status /\ sv[p].delivery = m[p].delivery

(* A run is "running" exactly as long as its host is there. *)
Watches(m, ch) ==
  \A p \in Procs : m[p] # Absent =>
    /\ m[p].status = "running" => m[p].owned /\ ch[p].stage \in Watched
    /\ m[p].owned /\ m[p].status # "running" => ch[p].stage = "closed"

(* A host that nobody asked to stop can be asked to. *)
Controlled(m, ch) ==
  \A p \in Procs : ch[p].stage = "alive" /\ ch[p].asked = "no" =>
    m[p] # Absent /\ m[p].owned /\ m[p].status = "running"

Books(m, sv, ch) == Entries(sv) /\ Agree(m, sv) /\ Watches(m, ch) /\ Controlled(m, ch)

(* No unread result waits for a message to come. *)
NoneQueued(m) == \A p \in Procs : Unread(m, p) => ~m[p].queued

(* What counts as delivered was seen: its message or a member of rd. *)
Seen(sv, rec, rd) ==
  \A p \in Procs : sv[p] # Absent /\ sv[p].delivery = "delivered"
                   => rec[p] > 0 \/ p \in rd

(* A message is never sent twice, nor for a run without a result. *)
Receipted(sv, rec) ==
  \A p \in Procs : /\ rec[p] \in 0 .. 1
                   /\ rec[p] > 0 => sv[p] # Absent /\ sv[p].delivery \in {"pending", "delivered"}

Types ==
  /\ TypeOK
  /\ point = [saved |-> point.saved, receipts |-> point.receipts, read |-> point.read]
  /\ point.saved \in RunMap /\ point.receipts \in [Procs -> Nat] /\ point.read \subseteq Procs

(* A process that has not started left no trace. *)
Begun ==
  /\ \A p \in Procs : child[p].stage = "none" =>
       saved[p] = Absent /\ point.saved[p] = Absent /\ started[p] = 0
  /\ \A p \in Procs : started[p] <= Cardinality({q \in Procs : started[q] > 0})

(* A host that could not be spawned is not asked to stop. *)
BrokenUnasked ==
  \A p \in Procs : child[p].stage \in {"none", "broken"} => child[p].asked = "no"

(* Calls and messages belong to a turn, and messages to a batch in flight.   *)
Turns ==
  /\ ~up => idle /\ mem = NoRuns /\ queue = <<>>
  /\ idle => calls = {}
  /\ queue # <<>> => inFlight
  /\ ~inFlight => NoneQueued(mem)
  /\ OneBatch

(* What calls, crashes and tool results have shown. *)
Spent == read \cup cut \cup {p \in Procs : Returning(p) \in calls}

(* What is under way to the branch is not on it. *)
Underway ==
  \A i \in 1 .. Len(queue) : \A p \in queue[i] :
    receipts[p] = 0 /\ saved[p] # Absent /\ saved[p].delivery \in {"pending", "delivered"}

ProcessInv ==
  /\ Types /\ Begun /\ BrokenUnasked /\ Books(mem, saved, child) /\ Entries(point.saved)
  /\ Turns /\ Seen(saved, receipts, Spent)
  /\ Seen(point.saved, point.receipts, point.read \cup cut)
  /\ Receipted(saved, receipts) /\ Receipted(point.saved, point.receipts)
  /\ Underway /\ IdleHasAll

------------------------------------------------------------------------------
(* The entries. *)

(* A set of numbers has a least one. *)
LEMMA Least ==
  ASSUME NEW S \in SUBSET Nat, S # {}
  PROVE  \E x \in S : \A y \in S : x <= y
<1> DEFINE R == OpToRel(<, Nat)
<1>1. IsWellFoundedOn(R, Nat)
  BY NatLessThanWellFounded
<1>2. \A x, y \in Nat : x < y => <<x, y>> \in R
  BY DEF OpToRel
<1> HIDE DEF R
<1>3. PICK x \in S : \A y \in S : ~(<<y, x>> \in R)
  BY <1>1, WFMin
<1>4. \A y \in S : ~(y < x)
  BY <1>2, <1>3
<1>5. x \in Nat /\ \A y \in S : y \in Nat
  OBVIOUS
<1>6. \A y \in S : x <= y
  BY <1>4, <1>5
<1> QED
  BY <1>6

(* A run with its result delivered, or on the way. *)
LEMMA RunChanges ==
  ASSUME NEW m \in RunMap, NEW p \in Procs, m[p] # Absent
  PROVE  /\ m[p] \in Run
         /\ \E r \in Run :
              /\ r = [m[p] EXCEPT !.delivery = "delivered", !.queued = FALSE]
              /\ r.status = m[p].status /\ r.owned = m[p].owned
              /\ r.delivery = "delivered" /\ ~r.queued
         /\ \A q \in BOOLEAN : \E r \in Run :
              /\ r = [m[p] EXCEPT !.queued = q]
              /\ r.status = m[p].status /\ r.owned = m[p].owned
              /\ r.delivery = m[p].delivery /\ r.queued = q
<1>1. m[p] \in Run
  BY DEF RunMap
<1> DEFINE d == [m[p] EXCEPT !.delivery = "delivered", !.queued = FALSE]
           e(q) == [m[p] EXCEPT !.queued = q]
<1>2. /\ d \in Run /\ d.status = m[p].status /\ d.owned = m[p].owned
      /\ d.delivery = "delivered" /\ ~d.queued
  BY <1>1 DEF Run
<1>3. ASSUME NEW q \in BOOLEAN
      PROVE  /\ e(q) \in Run /\ e(q).status = m[p].status /\ e(q).owned = m[p].owned
             /\ e(q).delivery = m[p].delivery /\ e(q).queued = q
  BY <1>1 DEF Run
<1>4. /\ d = [m[p] EXCEPT !.delivery = "delivered", !.queued = FALSE]
      /\ \A q \in BOOLEAN : e(q) = [m[p] EXCEPT !.queued = q]
  OBVIOUS
<1> HIDE DEF d, e
<1>5. \E r \in Run : /\ r = [m[p] EXCEPT !.delivery = "delivered", !.queued = FALSE]
                     /\ r.status = m[p].status /\ r.owned = m[p].owned
                     /\ r.delivery = "delivered" /\ ~r.queued
  BY <1>2, <1>4, Zenon
<1>6. ASSUME NEW q \in BOOLEAN
      PROVE  \E r \in Run : /\ r = [m[p] EXCEPT !.queued = q]
                            /\ r.status = m[p].status /\ r.owned = m[p].owned
                            /\ r.delivery = m[p].delivery /\ r.queued = q
  BY <1>3, <1>4, Zenon
<1> QED
  BY <1>1, <1>5, <1>6

(* What consume leaves of each run. *)
LEMMA Consumed ==
  ASSUME NEW m \in RunMap, NEW S
  PROVE  /\ Consume(m, S) \in RunMap
         /\ \A p \in Procs :
              /\ m[p] = Absent <=> Consume(m, S)[p] = Absent
              /\ m[p] # Absent => /\ Consume(m, S)[p].status = m[p].status
                                  /\ Consume(m, S)[p].owned = m[p].owned
              /\ p \notin S => Consume(m, S)[p] = m[p]
              /\ p \in S /\ m[p] # Absent =>
                   Consume(m, S)[p].delivery = "delivered" /\ ~Consume(m, S)[p].queued
<1>1. ASSUME NEW p \in Procs
      PROVE  /\ Consume(m, S)[p] \in Run \cup {Absent}
             /\ m[p] = Absent <=> Consume(m, S)[p] = Absent
             /\ m[p] # Absent => /\ Consume(m, S)[p].status = m[p].status
                                 /\ Consume(m, S)[p].owned = m[p].owned
             /\ p \notin S => Consume(m, S)[p] = m[p]
             /\ p \in S /\ m[p] # Absent =>
                  Consume(m, S)[p].delivery = "delivered" /\ ~Consume(m, S)[p].queued
  <2>1. CASE m[p] = Absent
    BY <2>1 DEF Consume
  <2>2. CASE m[p] # Absent /\ p \notin S
    BY <2>2, RunChanges DEF Consume
  <2>3. CASE m[p] # Absent /\ p \in S
    <3>1. Consume(m, S)[p] = [m[p] EXCEPT !.delivery = "delivered", !.queued = FALSE]
      BY <2>3 DEF Consume
    <3>2. PICK r \in Run :
            /\ r = [m[p] EXCEPT !.delivery = "delivered", !.queued = FALSE]
            /\ r.status = m[p].status /\ r.owned = m[p].owned
            /\ r.delivery = "delivered" /\ ~r.queued
      BY <2>3, RunChanges
    <3>3. Consume(m, S)[p] = r /\ r # Absent
      BY <3>1, <3>2, AbsentAssumption
    <3> QED
      BY <2>3, <3>2, <3>3
  <2> QED
    BY <2>1, <2>2, <2>3
<1>2. Consume(m, S) \in RunMap
  <2>1. Consume(m, S) = [p \in Procs |-> Consume(m, S)[p]]
    BY DEF Consume
  <2> QED
    BY <2>1, <1>1 DEF RunMap
<1> QED
  BY <1>1, <1>2

(* Results that are read keep the books. *)
LEMMA ConsumeBooks ==
  ASSUME NEW m, NEW sv, NEW ch, Books(m, sv, ch), NEW S \in SUBSET Procs,
         \A p \in S : m[p] # Absent /\ m[p].status # "running"
  PROVE  Books(Consume(m, S), Consume(sv, S), ch)
<1>1. m \in RunMap /\ sv \in RunMap
  BY DEF Books, Entries, Agree
<1> DEFINE n == Consume(m, S)
           sw == Consume(sv, S)
<1>2. /\ n \in RunMap /\ sw \in RunMap
      /\ \A p \in Procs :
           /\ m[p] = Absent <=> n[p] = Absent
           /\ m[p] # Absent => n[p].status = m[p].status /\ n[p].owned = m[p].owned
           /\ p \notin S => n[p] = m[p]
           /\ p \in S /\ m[p] # Absent => n[p].delivery = "delivered" /\ ~n[p].queued
           /\ sv[p] = Absent <=> sw[p] = Absent
           /\ sv[p] # Absent => sw[p].status = sv[p].status /\ sw[p].owned = sv[p].owned
           /\ p \notin S => sw[p] = sv[p]
           /\ p \in S /\ sv[p] # Absent => sw[p].delivery = "delivered" /\ ~sw[p].queued
  BY <1>1, Consumed
<1> HIDE DEF n, sw
<1>3. Agree(n, sw)
  <2> SUFFICES ASSUME NEW p \in Procs, n[p] # Absent
               PROVE  sw[p] # Absent /\ sw[p].status = n[p].status /\ sw[p].delivery = n[p].delivery
    BY <1>2 DEF Agree
  <2>1. m[p] # Absent /\ sv[p] # Absent /\ sv[p].status = m[p].status /\ sv[p].delivery = m[p].delivery
    BY <1>2 DEF Books, Agree
  <2> QED
    BY <1>2, <2>1
<1>4. Watches(n, ch) /\ Controlled(n, ch)
  BY <1>2 DEF Books, Watches, Controlled
<1>5. Entries(sw)
  <2> SUFFICES ASSUME NEW p \in Procs, sw[p] # Absent
               PROVE  /\ ~sw[p].owned /\ ~sw[p].queued
                      /\ sw[p].status = "running" => sw[p].delivery = "none"
    BY <1>2 DEF Entries
  <2>1. CASE p \notin S
    BY <2>1, <1>2 DEF Books, Entries
  <2>2. CASE p \in S
    <3>1. sv[p].status = m[p].status /\ m[p].status # "running"
      BY <2>2 DEF Books, Agree
    <3> QED
      BY <2>2, <3>1, <1>2 DEF Books, Entries
  <2> QED
    BY <2>1, <2>2
<1> QED
  BY <1>3, <1>4, <1>5 DEF Books, n, sw

(* What prune forgets has ended. *)
LEMMA OldEnded ==
  ASSUME NEW m, NEW p \in Old(m)
  PROVE  p \in Procs /\ m[p] # Absent /\ m[p].status # "running"
  BY DEF Old

(* Runs that are forgotten once they ended keep the books. *)
LEMMA ForgetBooks ==
  ASSUME NEW m, NEW sv, NEW ch, Books(m, sv, ch), NEW S,
         \A p \in S : m[p] # Absent /\ m[p].status # "running"
  PROVE  Books(Forget(m, S), sv, ch)
<1> DEFINE n == Forget(m, S)
<1>1. \A p \in Procs : n[p] = IF p \in S THEN Absent ELSE m[p]
  BY DEF Forget
<1>2. n \in RunMap
  <2>1. n = [p \in Procs |-> n[p]] /\ m \in RunMap
    BY DEF Forget, Books, Agree
  <2> QED
    BY <2>1, <1>1 DEF RunMap
<1> HIDE DEF n
<1>3. Agree(n, sv)
  BY <1>1, <1>2 DEF Books, Agree
<1>4. Watches(n, ch) /\ Controlled(n, ch)
  BY <1>1 DEF Books, Watches, Controlled
<1> QED
  BY <1>3, <1>4 DEF Books, n

(* What is on the way keeps the books. *)
LEMMA QueueBooks ==
  ASSUME NEW m, NEW sv, NEW ch, Books(m, sv, ch),
         NEW S \in SUBSET Procs, NEW q \in BOOLEAN, \A p \in S : m[p] # Absent
  PROVE  LET n == [p \in Procs |-> IF p \in S THEN [m[p] EXCEPT !.queued = q] ELSE m[p]] IN
         /\ Books(n, sv, ch)
         /\ \A p \in Procs : /\ n[p] = Absent <=> m[p] = Absent
                             /\ p \notin S => n[p] = m[p]
                             /\ m[p] # Absent => /\ n[p].status = m[p].status
                                                 /\ n[p].delivery = m[p].delivery
                             /\ p \in S => n[p].queued = q
<1> DEFINE n == [p \in Procs |-> IF p \in S THEN [m[p] EXCEPT !.queued = q] ELSE m[p]]
<1>1. ASSUME NEW p \in Procs
      PROVE  /\ n[p] \in Run \cup {Absent}
             /\ n[p] = Absent <=> m[p] = Absent
             /\ p \notin S => n[p] = m[p]
             /\ m[p] # Absent => /\ n[p].status = m[p].status /\ n[p].owned = m[p].owned
                                 /\ n[p].delivery = m[p].delivery
             /\ p \in S => n[p].queued = q
  <2>1. m \in RunMap
    BY DEF Books, Agree
  <2>2. CASE p \notin S
    <3>1. n[p] = m[p]
      BY <2>2
    <3> HIDE DEF n
    <3> QED
      BY <2>1, <2>2, <3>1 DEF RunMap
  <2>3. CASE p \in S
    <3>1. n[p] = [m[p] EXCEPT !.queued = q] /\ m[p] # Absent
      BY <2>3
    <3>2. PICK r \in Run : /\ r = [m[p] EXCEPT !.queued = q]
                           /\ r.status = m[p].status /\ r.owned = m[p].owned
                           /\ r.delivery = m[p].delivery /\ r.queued = q
      <4> HIDE DEF n
      <4>1. m[p] # Absent
        BY <3>1
      <4> QED
        BY ZenonT(30), <2>1, <4>1, RunChanges
    <3>3. n[p] = r /\ r # Absent
      BY <3>1, <3>2, AbsentAssumption
    <3> HIDE DEF n
    <3> QED
      BY <2>3, <3>1, <3>2, <3>3
  <2> QED
    BY <2>2, <2>3
<1>2. n \in RunMap
  <2>1. n = [p \in Procs |-> n[p]]
    OBVIOUS
  <2> HIDE DEF n
  <2> QED
    BY <2>1, <1>1 DEF RunMap
<1> HIDE DEF n
<1>3. Agree(n, sv)
  BY <1>1, <1>2 DEF Books, Agree
<1>4. Watches(n, ch) /\ Controlled(n, ch)
  BY <1>1 DEF Books, Watches, Controlled
<1>5. Books(n, sv, ch)
  BY <1>3, <1>4 DEF Books
<1> QED
  BY <1>1, <1>5 DEF n

------------------------------------------------------------------------------
(* What deliver does. *)

(* Results acked are acknowledged, and batch goes out if it is not empty. *)
Delivers(m, b, resting, flying, old, acked, batch) ==
  /\ \A p \in acked : Unread(m, p) /\ Present(b, p)
  /\ \A p \in batch : Unread(m, p) /\ ~Present(b, p)
  /\ saved' = Consume(b.saved, acked)
  /\ mem' = Forget([p \in Procs |->
        IF p \in batch THEN [Consume(m, acked)[p] EXCEPT !.queued = TRUE]
        ELSE Consume(m, acked)[p]], old)
  /\ drops' \in 0 .. MaxDrops /\ drops' >= drops
  /\ \/ /\ batch = {} /\ queue' = queue /\ inFlight' = flying
        /\ resting /\ ~flying /\ drops' = 0 =>
             \A p \in Procs : Unread(m, p) /\ ~m[p].queued => p \in acked
     \/ /\ resting /\ ~flying /\ inFlight' = TRUE /\ batch # {}
        /\ queue' = Append(queue, batch)

(* Some results are acknowledged, and either nothing goes out, or a batch     *)
(* does, which is not acknowledged.  If an idle agent is sent nothing        *)
(* although Pi takes its messages, then nothing else was unread.            *)
LEMMA DeliverDoes ==
  ASSUME TypeOK, NEW m \in RunMap, NEW b, NEW resting \in BOOLEAN, NEW flying \in BOOLEAN,
         NEW old,
         b.saved \in RunMap, Deliver(m, b, resting, flying, old)
  PROVE  \E acked, batch \in SUBSET Procs : Delivers(m, b, resting, flying, old, acked, batch)
<1> DEFINE unread  == {p \in Procs : Unread(m, p) /\ ~m[p].queued}
           unsent  == {p \in unread : ~Present(b, p)}
           Older(p) == {q \in unsent : started[q] < started[p]}
           batch   == {p \in unsent : Cardinality(Older(p)) < BatchSize}
           acked   == {p \in unread \ unsent : Cardinality(Older(p)) <= BatchSize}
           m1      == Consume(m, acked)
           Sent(S, a) == [p \in Procs |-> IF p \in S THEN [Consume(m, a)[p] EXCEPT !.queued = TRUE]
                                          ELSE Consume(m, a)[p]]
<1>1. IF ~MayDeliver(resting, flying)
      THEN /\ mem' = Forget(m, old) /\ saved' = b.saved /\ inFlight' = flying
           /\ UNCHANGED <<queue, drops>>
      ELSE /\ saved' = Consume(b.saved, acked)
           /\ \/ /\ batch = {} \/ drops < MaxDrops
                 /\ mem' = Forget(m1, old)
                 /\ inFlight' = FALSE
                 /\ drops' = IF batch = {} THEN drops ELSE drops + 1
                 /\ UNCHANGED queue
              \/ /\ batch # {}
                 /\ mem' = Forget([p \in Procs |->
                      IF p \in batch THEN [m1[p] EXCEPT !.queued = TRUE] ELSE m1[p]], old)
                 /\ inFlight' = TRUE
                 /\ queue' = Append(queue, batch)
                 /\ UNCHANGED drops
  BY DEF Deliver
<1>2. /\ acked \in SUBSET Procs /\ batch \in SUBSET Procs
      /\ \A p \in acked : Unread(m, p) /\ Present(b, p)
      /\ \A p \in batch : Unread(m, p) /\ ~Present(b, p)
  OBVIOUS
<1>3. drops \in 0 .. MaxDrops /\ MaxDrops \in Nat /\ BatchSize \in Nat \ {0}
  BY ProcessAssumption DEF TypeOK
<1>4. batch = {} => \A p \in unread : p \in acked
  <2> SUFFICES ASSUME batch = {} PROVE \A p \in unread : p \in acked
    OBVIOUS
  <2>1. unsent = {}
    <3> SUFFICES ASSUME unsent # {} PROVE FALSE
      OBVIOUS
    <3>1. {started[p] : p \in unsent} \in SUBSET Nat /\ {started[p] : p \in unsent} # {}
      BY DEF TypeOK
    <3>2. PICK x \in {started[p] : p \in unsent} : \A y \in {started[p] : p \in unsent} : x <= y
      BY <3>1, Least
    <3>3. PICK p \in unsent : x = started[p]
      BY <3>2
    <3>4. \A q \in unsent : started[p] <= started[q] /\ started[q] \in Nat
      BY <3>2, <3>3 DEF TypeOK
    <3>5. p \in Procs /\ started[p] \in Nat
      BY DEF TypeOK
    <3>6. Older(p) = {}
      BY <3>4, <3>5
    <3>7. Cardinality(Older(p)) < BatchSize
      BY <3>6, <1>3, FS_EmptySet
    <3> QED
      BY <3>3, <3>7
  <2>2. \A p \in Procs : Older(p) = {}
    BY <2>1
  <2>3. ASSUME NEW p \in Procs PROVE Cardinality(Older(p)) <= BatchSize
    <3>1. Older(p) = {}
      BY <2>2
    <3> HIDE DEF Older
    <3> QED
      BY <3>1, <1>3, FS_EmptySet
  <2> QED
    BY <2>1, <2>3
<1>5. \A p \in Procs : Unread(m, p) /\ ~m[p].queued => p \in unread
  OBVIOUS
<1> HIDE DEF unread, unsent, Older, batch, acked
<1>6. Sent({}, acked) = m1 /\ Sent({}, {}) = m /\ Consume(b.saved, {}) = b.saved
  <2>1. ASSUME NEW n \in RunMap PROVE Consume(n, {}) = n
    BY <2>1 DEF Consume, RunMap
  <2>2. m1 \in RunMap /\ Consume(m, {}) \in RunMap
    BY Consumed
  <2> QED
    BY <2>1, <2>2 DEF RunMap
<1>7. CASE ~MayDeliver(resting, flying)
  <2>1. ~(resting /\ ~flying)
    BY <1>7 DEF MayDeliver
  <2>2. /\ mem' = Forget(Sent({}, {}), old) /\ saved' = Consume(b.saved, {}) /\ inFlight' = flying
        /\ queue' = queue /\ drops' = drops
    BY <1>1, <1>6, <1>7
  <2> WITNESS {} \in SUBSET Procs, {} \in SUBSET Procs
  <2> QED
    BY <2>1, <2>2, <1>3 DEF Delivers
<1>8. CASE MayDeliver(resting, flying)
  <2>0. resting /\ flying = FALSE
    BY <1>8 DEF MayDeliver
  <2>1. saved' = Consume(b.saved, acked)
    BY <1>1, <1>8
  <2>2. CASE batch # {} /\ queue' = Append(queue, batch) /\ inFlight' = TRUE /\ drops' = drops
             /\ mem' = Forget(Sent(batch, acked), old)
    <3> acked \in SUBSET Procs /\ batch \in SUBSET Procs
      BY <1>2
    <3>1. drops' \in 0 .. MaxDrops /\ drops' >= drops
      BY <2>2, <1>3
    <3> WITNESS acked \in SUBSET Procs, batch \in SUBSET Procs
    <3> QED
      BY <2>0, <2>1, <2>2, <3>1, <1>2 DEF Delivers
  <2>3. CASE /\ batch = {} \/ drops < MaxDrops
             /\ mem' = Forget(m1, old) /\ inFlight' = FALSE /\ queue' = queue
             /\ drops' = IF batch = {} THEN drops ELSE drops + 1
    <3>1. mem' = Forget(Sent({}, acked), old)
      BY <2>3, <1>6
    <3>2. drops' \in 0 .. MaxDrops /\ drops' >= drops /\ (drops' = 0 => batch = {})
      BY <2>3, <1>3
    <3> acked \in SUBSET Procs
      BY <1>2
    <3> WITNESS acked \in SUBSET Procs, {} \in SUBSET Procs
    <3> QED
      BY <2>0, <2>1, <2>3, <3>1, <3>2, <1>2, <1>4, <1>5 DEF Delivers
  <2> QED
    BY <1>1, <1>8, <2>2, <2>3
<1> QED
  BY <1>7, <1>8

(* An entry that stays, or whose result has been read. *)
Goes(e, f) ==
  /\ e = Absent <=> f = Absent
  /\ e # Absent => /\ f.status = e.status
                   /\ \/ f.delivery = e.delivery
                      \/ e.delivery = "pending" /\ f.delivery = "delivered"

(* What is so after deliver. *)
Delivery(m, b, resting, flying, ch, rd) ==
  /\ Books(mem', saved', ch)
  /\ ~inFlight' => NoneQueued(mem')
  /\ Seen(saved', b.receipts, rd) /\ Receipted(saved', b.receipts)
  /\ drops' \in 0 .. MaxDrops /\ drops' >= drops /\ inFlight' \in BOOLEAN
  /\ resting /\ ~inFlight' /\ drops' = 0 => \A p \in Procs : ~Unread(mem', p)
  /\ \A p \in Procs : Goes(b.saved[p], saved'[p])
  /\ \/ queue' = queue /\ inFlight' = flying
     \/ /\ ~flying /\ inFlight' = TRUE
        /\ \E batch \in SUBSET Procs :
             /\ queue' = Append(queue, batch)
             /\ \A p \in batch : /\ b.receipts[p] = 0 /\ saved'[p] # Absent
                                 /\ saved'[p].delivery \in {"pending", "delivered"}

(* From books in order deliver makes books in order; what it acknowledges is  *)
(* shown, what it sends is not, and an idle agent that no batch is on the    *)
(* way to has no unread result.                                            *)
LEMMA DeliverKeeps ==
  ASSUME TypeOK, NEW m, NEW b, NEW resting \in BOOLEAN, NEW flying \in BOOLEAN,
         NEW old \in SUBSET Procs, NEW ch, NEW rd, Deliver(m, b, resting, flying, old), Books(m, b.saved, ch),
         \A p \in old : m[p] # Absent /\ m[p].status # "running",
         ~flying => NoneQueued(m),
         Seen(b.saved, b.receipts, rd), Receipted(b.saved, b.receipts)
  PROVE  Delivery(m, b, resting, flying, ch, rd)
<1>1. m \in RunMap /\ b.saved \in RunMap
  BY DEF Books, Entries, Agree
<1>2. PICK acked \in SUBSET Procs, batch \in SUBSET Procs :
        Delivers(m, b, resting, flying, old, acked, batch)
  BY <1>1, DeliverDoes
<1> DEFINE m1 == Consume(m, acked)
           m2 == [p \in Procs |-> IF p \in batch THEN [m1[p] EXCEPT !.queued = TRUE] ELSE m1[p]]
           sw == Consume(b.saved, acked)
<1>3. Books(m1, sw, ch)
  <2>1. \A p \in acked : m[p] # Absent /\ m[p].status # "running"
    BY <1>2 DEF Unread, Delivers
  <2> QED
    BY <2>1, ConsumeBooks
<1>4. /\ \A p \in Procs :
           /\ m[p] = Absent <=> m1[p] = Absent
           /\ m[p] # Absent => m1[p].status = m[p].status
           /\ p \notin acked => m1[p] = m[p]
           /\ p \in acked /\ m[p] # Absent => m1[p].delivery = "delivered" /\ ~m1[p].queued
           /\ b.saved[p] = Absent <=> sw[p] = Absent
           /\ b.saved[p] # Absent => sw[p].status = b.saved[p].status
           /\ p \notin acked => sw[p] = b.saved[p]
           /\ p \in acked /\ b.saved[p] # Absent => sw[p].delivery = "delivered"
  BY <1>1, Consumed
<1>5. /\ Books(m2, sw, ch)
      /\ \A p \in Procs : /\ m2[p] = Absent <=> m1[p] = Absent
                          /\ p \notin batch => m2[p] = m1[p]
                          /\ m1[p] # Absent => /\ m2[p].status = m1[p].status
                                               /\ m2[p].delivery = m1[p].delivery
                          /\ p \in batch => m2[p].queued = TRUE
  <2>1. \A p \in batch : m1[p] # Absent
    BY <1>2, <1>4 DEF Unread, Delivers
  <2> HIDE DEF m1, sw
  <2> QED
    BY <1>3, <2>1, QueueBooks
<1>6. mem' = Forget(m2, old) /\ saved' = sw
  BY <1>2 DEF Delivers
<1> HIDE DEF m1, m2, sw
<1>7. Books(mem', saved', ch)
  <2>1. ASSUME NEW p \in old PROVE m2[p] # Absent /\ m2[p].status # "running"
    <3>1. p \in Procs /\ m[p] # Absent /\ m[p].status # "running"
      OBVIOUS
    <3> QED
      BY <3>1, <1>4, <1>5
  <2> QED
    BY <2>1, <1>5, <1>6, ForgetBooks
<1>8. \A p \in Procs : mem'[p] = IF p \in old THEN Absent ELSE m2[p]
  BY <1>6 DEF Forget
<1>9. \A p \in Procs : Goes(b.saved[p], saved'[p])
  <2> SUFFICES ASSUME NEW p \in Procs PROVE Goes(b.saved[p], sw[p])
    BY <1>6
  <2>1. CASE p \notin acked
    BY <2>1, <1>4 DEF Goes
  <2>2. CASE p \in acked
    <3>1. b.saved[p] # Absent /\ b.saved[p].delivery = "pending"
      BY <2>2, <1>2 DEF Unread, Books, Agree, Delivers
    <3> QED
      BY <2>2, <3>1, <1>4 DEF Goes
  <2> QED
    BY <2>1, <2>2
<1>10. Seen(saved', b.receipts, rd) /\ Receipted(saved', b.receipts)
  <2>1. \A p \in acked : b.receipts[p] > 0
    BY <1>2 DEF Present, Delivers
  <2>2. Seen(saved', b.receipts, rd)
    <3> SUFFICES ASSUME NEW p \in Procs, sw[p] # Absent, sw[p].delivery = "delivered"
                 PROVE  b.receipts[p] > 0 \/ p \in rd
      BY <1>6 DEF Seen
    <3>1. CASE p \in acked
      BY <3>1, <2>1
    <3>2. CASE p \notin acked
      BY <3>2, <1>4 DEF Seen
    <3> QED
      BY <3>1, <3>2
  <2>3. Receipted(saved', b.receipts)
    BY <1>9 DEF Receipted, Goes
  <2> QED
    BY <2>2, <2>3
<1>11. ASSUME ~inFlight' PROVE NoneQueued(mem')
  <2>1. batch = {} /\ ~flying
    BY <1>2, <1>11 DEF Delivers
  <2> SUFFICES ASSUME NEW p \in Procs, Unread(mem', p) PROVE ~mem'[p].queued
    BY DEF NoneQueued
  <2>2. p \notin old /\ mem'[p] = m1[p] /\ m1[p] # Absent
    BY <2>1, <1>8, <1>5 DEF Unread
  <2>3. CASE p \in acked
    BY <2>2, <2>3, <1>4
  <2>4. CASE p \notin acked
    BY <2>1, <2>2, <2>4, <1>4 DEF NoneQueued, Unread
  <2> QED
    BY <2>3, <2>4
<1>12. ASSUME resting, ~inFlight', drops' = 0, NEW p \in Procs, Unread(mem', p) PROVE FALSE
  <2>1. /\ batch = {} /\ ~flying
        /\ \A q \in Procs : Unread(m, q) /\ ~m[q].queued => q \in acked
    BY <1>2, <1>12 DEF Delivers
  <2>2. mem'[p] = m1[p] /\ m1[p] # Absent /\ m[p] # Absent
    BY <1>12, <2>1, <1>8, <1>5, <1>4 DEF Unread
  <2>3. p \notin acked
    BY <1>12, <2>2, <1>4 DEF Unread
  <2>4. Unread(m, p) /\ ~m[p].queued
    BY <1>12, <2>1, <2>2, <2>3, <1>4 DEF Unread, NoneQueued
  <2> QED
    BY <2>1, <2>3, <2>4
<1>13. ASSUME NEW p \in batch
       PROVE  /\ b.receipts[p] = 0 /\ saved'[p] # Absent
              /\ saved'[p].delivery \in {"pending", "delivered"}
  <2>1. Unread(m, p) /\ ~(b.receipts[p] > 0) /\ p \in Procs
    BY <1>2 DEF Present, Delivers
  <2>2. b.receipts[p] = 0
    BY <2>1 DEF Receipted
  <2>3. b.saved[p] # Absent /\ b.saved[p].delivery = "pending"
    BY <2>1 DEF Unread, Books, Agree
  <2> QED
    BY <2>1, <2>2, <2>3, <1>9 DEF Goes
<1>14. \/ queue' = queue /\ inFlight' = flying
       \/ ~flying /\ inFlight' = TRUE /\ queue' = Append(queue, batch)
  BY <1>2 DEF Delivers
<1>15. drops' \in 0 .. MaxDrops /\ drops' >= drops /\ inFlight' \in BOOLEAN
  BY <1>2 DEF Delivers
<1> QED
  BY <1>7, <1>9, <1>10, <1>11, <1>12, <1>13, <1>14, <1>15 DEF Delivery

------------------------------------------------------------------------------
(* The hosts. *)

(* A host that goes on towards its end; only an order to stop comes anew.     *)
Moves(c, d) ==
  /\ d \in Child
  /\ c.stage = "none" <=> d.stage = "none"
  /\ c.stage \in Watched <=> d.stage \in Watched
  /\ c.stage = "closed" => d.stage = "closed"
  /\ d.stage \in {"none", "broken"} => d.asked = "no"
  /\ d.stage = "alive" /\ d.asked = "no" => c.stage = "alive" /\ c.asked = "no"

(* A host that stays moves in this sense. *)
LEMMA Stays ==
  ASSUME ProcessInv, NEW p \in Procs
  PROVE  child[p] \in Child /\ Moves(child[p], child[p])
<1>1. child[p] \in Child
  BY DEF ProcessInv, Types, TypeOK
<1> QED
  BY <1>1 DEF ProcessInv, BrokenUnasked, Moves

(* Hosts that go on towards their end disturb nothing. *)
LEMMA HostsMove ==
  ASSUME ProcessInv, child' = [p \in Procs |-> child'[p]],
         \A p \in Procs : Moves(child[p], child'[p]),
         UNCHANGED <<session, mem, started, branch, calls, queue, point, cut, changes>>,
         drops' \in 0 .. MaxDrops, drops' >= drops
  PROVE  ProcessInv'
<1>0. UNCHANGED <<up, idle, inFlight, saved, receipts, read, Spent>>
  BY DEF session, branch, Spent
<1>1. Types'
  <2>1. child' \in [Procs -> Child]
    BY DEF Moves
  <2> QED
    BY <1>0, <2>1 DEF ProcessInv, Types, TypeOK
<1>2. Begun' /\ BrokenUnasked'
  BY <1>0 DEF ProcessInv, Begun, BrokenUnasked, Moves
<1>3. Books(mem, saved, child')
  BY DEF ProcessInv, Books, Watches, Controlled, Moves
<1>4. IdleHasAll'
  <2>1. drops \in Nat
    BY DEF ProcessInv, Types, TypeOK
  <2> QED
    BY <1>0, <2>1 DEF ProcessInv, IdleHasAll
<1>5. Turns' /\ Underway'
  BY <1>0 DEF ProcessInv, Turns, OneBatch, Underway
<1> QED
  BY <1>0, <1>1, <1>2, <1>3, <1>4, <1>5 DEF ProcessInv

(* A request to stop is an order to hosts. *)
LEMMA RequestMoves ==
  ASSUME ProcessInv, NEW S, NEW status \in {"stopped", "timed_out"}, Request(S, status)
  PROVE  /\ child' = [p \in Procs |-> child'[p]]
         /\ \A p \in Procs : /\ Moves(child[p], child'[p])
                             /\ p \in S => ~(child'[p].stage = "alive" /\ child'[p].asked = "no")
<1>1. child' = [p \in Procs |->
         IF p \in S /\ child[p].stage = "alive" /\ child[p].asked = "no"
         THEN [child[p] EXCEPT !.asked = status] ELSE child[p]]
  BY DEF Request
<1>2. ASSUME NEW p \in Procs
      PROVE  /\ Moves(child[p], child'[p])
             /\ p \in S => ~(child'[p].stage = "alive" /\ child'[p].asked = "no")
  <2>1. child[p] \in Child /\ Moves(child[p], child[p])
    BY Stays
  <2>2. CASE p \in S /\ child[p].stage = "alive" /\ child[p].asked = "no"
    <3>1. child'[p] = [child[p] EXCEPT !.asked = status]
      BY <1>1, <2>2
    <3>2. child'[p] \in Child /\ child'[p].stage = "alive" /\ child'[p].asked = status
      BY <2>1, <2>2, <3>1 DEF Child
    <3> QED
      BY <2>2, <3>2 DEF Moves, Watched, Live
  <2>3. CASE ~(p \in S /\ child[p].stage = "alive" /\ child[p].asked = "no")
    <3>1. child'[p] = child[p]
      BY <1>1, <2>3
    <3> QED
      BY <2>1, <2>3, <3>1
  <2> QED
    BY <2>2, <2>3
<1>3. child' = [p \in Procs |-> child'[p]]
  BY <1>1
<1> QED
  BY <1>2, <1>3

(* One host goes on. *)
LEMMA OneMoves ==
  ASSUME ProcessInv, NEW p \in Procs, NEW d, child' = [child EXCEPT ![p] = d],
         Moves(child[p], d)
  PROVE  child' = [q \in Procs |-> child'[q]] /\ \A q \in Procs : Moves(child[q], child'[q])
<1>1. child \in [Procs -> Child]
  BY DEF ProcessInv, Types, TypeOK
<1>2. child'[p] = d /\ \A q \in Procs \ {p} : child'[q] = child[q]
  BY <1>1
<1>3. child' = [q \in Procs |-> child'[q]]
  BY <1>1
<1>4. ASSUME NEW q \in Procs PROVE Moves(child[q], child'[q])
  BY <1>2, Stays
<1> QED
  BY <1>3, <1>4

(* Stops, deadlines, lost output, signals and exits. *)
LEMMA HostSteps ==
  ASSUME ProcessInv, NEW p \in Procs,
         \/ Stop(p) \/ Deadline(p) \/ CaptureFails(p) \/ TakesTerm(p) \/ StrayEnds(p)
         \/ \E code \in {"zero", "other"} : Exits(p, code)
  PROVE  ProcessInv'
<1>0. child \in [Procs -> Child] /\ child[p] \in Child /\ drops \in 0 .. MaxDrops
  BY DEF ProcessInv, Types, TypeOK
<1>1. CASE Stop(p) \/ Deadline(p)
  <2>1. PICK status \in {"stopped", "timed_out"} : Request({p}, status)
    BY <1>1 DEF Stop, Deadline
  <2>2. /\ child' = [q \in Procs |-> child'[q]] /\ \A q \in Procs : Moves(child[q], child'[q])
    BY <2>1, RequestMoves
  <2>3. UNCHANGED <<session, mem, started, branch, calls, queue, point, cut, changes, drops>>
    BY <1>1 DEF Stop, Deadline, bounds
  <2> QED
    BY <1>0, <2>2, <2>3, HostsMove
<1>2. CASE CaptureFails(p)
  <2> DEFINE d == [child[p] EXCEPT !.lost = TRUE,
                     !.asked = IF child[p].stage = "alive" /\ @ = "no" THEN "failed" ELSE @]
  <2>1. child' = [child EXCEPT ![p] = d]
    BY <1>0, <1>2 DEF CaptureFails
  <2>2. d \in Child /\ d.stage = child[p].stage
    BY <1>0 DEF Child
  <2>3. d.asked = IF child[p].stage = "alive" /\ child[p].asked = "no" THEN "failed" ELSE child[p].asked
    BY <1>0 DEF Child
  <2>4. child[p].stage \in Live \cup {"exited"}
    BY <1>2 DEF CaptureFails
  <2> HIDE DEF d
  <2>5. Moves(child[p], d)
    BY <2>2, <2>3, <2>4 DEF Moves, Live
  <2>6. /\ drops' \in 0 .. MaxDrops /\ drops' >= drops
        /\ UNCHANGED <<session, mem, started, branch, calls, queue, point, cut, changes>>
    BY <1>0, <1>2, ProcessAssumption DEF CaptureFails
  <2> QED
    BY <2>1, <2>5, <2>6, OneMoves, HostsMove
<1>3. CASE TakesTerm(p)
  <2> DEFINE d == [child[p] EXCEPT !.stage = "holding"]
  <2>1. child' = [child EXCEPT ![p] = d]
    BY <1>0, <1>3 DEF TakesTerm
  <2>2. d \in Child /\ d.stage = "holding" /\ child[p].stage = "alive"
    BY <1>0, <1>3 DEF Child, TakesTerm
  <2> HIDE DEF d
  <2>3. Moves(child[p], d)
    BY <2>2 DEF Moves, Watched, Live
  <2>4. UNCHANGED <<session, mem, started, branch, calls, queue, point, cut, changes, drops>>
    BY <1>3 DEF TakesTerm, bounds
  <2>5. child' = [q \in Procs |-> child'[q]] /\ \A q \in Procs : Moves(child[q], child'[q])
    BY <2>1, <2>3, OneMoves
  <2> QED
    BY <1>0, <2>4, <2>5, HostsMove
<1>4. ASSUME NEW code \in {"zero", "other"}, Exits(p, code) PROVE ProcessInv'
  <2> DEFINE d == [child[p] EXCEPT !.stage = "exited", !.code = code]
  <2>1. child' = [child EXCEPT ![p] = d]
    BY <1>0, <1>4 DEF Exits
  <2>2. d \in Child /\ d.stage = "exited" /\ child[p].stage \in Live
    BY <1>0, <1>4 DEF Child, Exits, Live
  <2> HIDE DEF d
  <2>3. Moves(child[p], d)
    BY <2>2 DEF Moves, Watched, Live
  <2>4. UNCHANGED <<session, mem, started, branch, calls, queue, point, cut, changes, drops>>
    BY <1>4 DEF Exits, bounds
  <2>5. child' = [q \in Procs |-> child'[q]] /\ \A q \in Procs : Moves(child[q], child'[q])
    BY <2>1, <2>3, OneMoves
  <2> QED
    BY <1>0, <2>4, <2>5, HostsMove
<1>5. CASE StrayEnds(p)
  <2>1. child' = [child EXCEPT ![p] = Closed] /\ child[p].stage = "stray"
    BY <1>5 DEF StrayEnds
  <2>2. Closed \in Child /\ Closed.stage = "closed"
    BY DEF Closed, Child
  <2>3. Moves(child[p], Closed)
    BY <2>1, <2>2 DEF Moves, Watched, Live
  <2>4. UNCHANGED <<session, mem, started, branch, calls, queue, point, cut, changes, drops>>
    BY <1>5 DEF StrayEnds, bounds
  <2>5. child' = [q \in Procs |-> child'[q]] /\ \A q \in Procs : Moves(child[q], child'[q])
    BY <2>1, <2>3, OneMoves
  <2> QED
    BY <1>0, <2>4, <2>5, HostsMove
<1> QED
  BY <1>1, <1>2, <1>3, <1>4, <1>5

------------------------------------------------------------------------------
(* The calls of the agent and its turns. *)

(* In the beginning there is nothing. *)
LEMMA InitProcess == Init => ProcessInv
<1> SUFFICES ASSUME Init PROVE ProcessInv
  OBVIOUS
<1> USE ProcessAssumption
<1>1. /\ NoRuns \in RunMap /\ \A p \in Procs : NoRuns[p] = Absent
      /\ [p \in Procs |-> 0] \in [Procs -> Nat]
  BY DEF NoRuns, RunMap
<1>2. /\ mem = NoRuns /\ saved = NoRuns /\ receipts = [p \in Procs |-> 0]
      /\ read = {} /\ calls = {} /\ queue = <<>> /\ cut = {} /\ up = FALSE /\ idle = TRUE
      /\ started = [p \in Procs |-> 0] /\ changes = 0 /\ drops = 0 /\ inFlight = FALSE
      /\ point.saved = NoRuns /\ point.receipts = [p \in Procs |-> 0] /\ point.read = {}
      /\ point = [saved |-> point.saved, receipts |-> point.receipts, read |-> point.read]
  BY DEF Init, Branch
<1>3. child \in [Procs -> Child] /\ \A p \in Procs : child[p].stage = "none" /\ child[p].asked = "no"
  BY DEF Init, Closed, Child
<1>4. Types
  <2>1. changes \in 0 .. MaxChanges /\ drops \in 0 .. MaxDrops /\ queue \in Seq(SUBSET Procs)
    BY <1>2
  <2> QED
    BY <1>1, <1>2, <1>3, <2>1 DEF Types, TypeOK, RunMap
<1>5. Begun /\ BrokenUnasked
  <2>1. {q \in Procs : started[q] > 0} = {}
    BY <1>2
  <2>2. Cardinality({q \in Procs : started[q] > 0}) = 0
    BY <2>1, FS_EmptySet
  <2>3. \A p \in Procs : started[p] = 0 /\ saved[p] = Absent /\ point.saved[p] = Absent
    BY <1>1, <1>2
  <2>4. \A p \in Procs : started[p] <= Cardinality({q \in Procs : started[q] > 0})
    BY <2>2, <2>3
  <2> QED
    BY <1>3, <2>3, <2>4 DEF Begun, BrokenUnasked
<1>6. Books(mem, saved, child) /\ Entries(point.saved)
  BY <1>1, <1>2, <1>3 DEF Books, Entries, Agree, Watches, Controlled
<1>7. Turns
  BY <1>1, <1>2 DEF Turns, NoneQueued, OneBatch, Unread
<1>8. /\ Seen(saved, receipts, Spent) /\ Seen(point.saved, point.receipts, point.read \cup cut)
      /\ Receipted(saved, receipts) /\ Receipted(point.saved, point.receipts)
  BY <1>1, <1>2 DEF Seen, Receipted
<1>9. Underway /\ IdleHasAll
  BY <1>2 DEF Underway, IdleHasAll
<1> QED
  BY <1>4, <1>5, <1>6, <1>7, <1>8, <1>9 DEF ProcessInv

(* A new run is numbered, recorded and watched. *)
LEMMA StartStep ==
  ASSUME ProcessInv, NEW p \in Procs, Start(p)
  PROVE  ProcessInv'
<1> USE ProcessAssumption
<1>1. /\ up /\ ~idle /\ child[p].stage = "none"
      /\ mem' = [mem EXCEPT ![p] = NewRun] /\ saved' = [saved EXCEPT ![p] = Snapshot(NewRun)]
      /\ started' = [started EXCEPT ![p] = 1 + Cardinality({q \in Procs : started[q] > 0})]
      /\ UNCHANGED <<up, idle, inFlight, receipts, read, calls, queue, point, cut, changes, drops>>
      /\ UNCHANGED Spent
  BY DEF Start, session, bounds, Spent
<1>2. PICK s \in {"alive", "broken"} : child' = [child EXCEPT ![p].stage = s]
  BY DEF Start
<1>3. /\ NewRun \in Run /\ NewRun.status = "running" /\ NewRun.owned /\ ~NewRun.queued
      /\ NewRun.delivery = "none"
      /\ Snapshot(NewRun) \in Run /\ Snapshot(NewRun).status = "running"
      /\ ~Snapshot(NewRun).owned /\ ~Snapshot(NewRun).queued /\ Snapshot(NewRun).delivery = "none"
      /\ NewRun # Absent /\ Snapshot(NewRun) # Absent
  <2>1. /\ NewRun \in Run /\ NewRun.status = "running" /\ NewRun.owned /\ ~NewRun.queued
        /\ NewRun.delivery = "none"
    BY DEF NewRun, Run
  <2>2. Snapshot(NewRun) = [NewRun EXCEPT !.queued = FALSE, !.owned = FALSE]
    BY DEF Snapshot
  <2> HIDE DEF NewRun
  <2>3. /\ Snapshot(NewRun) \in Run /\ Snapshot(NewRun).status = "running"
        /\ ~Snapshot(NewRun).owned /\ ~Snapshot(NewRun).queued
        /\ Snapshot(NewRun).delivery = "none"
    BY <2>1, <2>2 DEF Run
  <2> HIDE DEF Snapshot
  <2> QED
    BY <2>1, <2>3, AbsentAssumption
<1>4. /\ mem \in RunMap /\ saved \in RunMap /\ child \in [Procs -> Child]
      /\ started \in [Procs -> Nat] /\ receipts \in [Procs -> Nat]
  BY DEF ProcessInv, Types, TypeOK, RunMap
<1>5. saved[p] = Absent /\ point.saved[p] = Absent /\ started[p] = 0 /\ mem[p] = Absent
      /\ child[p].asked = "no"
  BY <1>1 DEF ProcessInv, Begun, Books, Agree, BrokenUnasked
<1>6. /\ mem'[p] = NewRun /\ saved'[p] = Snapshot(NewRun)
      /\ \A q \in Procs \ {p} : mem'[q] = mem[q] /\ saved'[q] = saved[q] /\ child'[q] = child[q]
      /\ mem' \in RunMap /\ saved' \in RunMap
  BY <1>1, <1>2, <1>3, <1>4 DEF RunMap
<1>7. child' \in [Procs -> Child] /\ child'[p].stage = s /\ child'[p].asked = "no"
  BY <1>2, <1>4, <1>5 DEF Child
<1> HIDE DEF NewRun, Snapshot
<1> DEFINE S == {q \in Procs : started[q] > 0}
           n == 1 + Cardinality(S)
<1>8. /\ started' \in [Procs -> Nat] /\ started'[p] = n /\ n \in Nat \ {0}
      /\ \A q \in Procs \ {p} : started'[q] = started[q]
      /\ \A q \in Procs : started[q] < n
      /\ Cardinality({q \in Procs : started'[q] > 0}) = n
  <2>1. IsFiniteSet(S) /\ Cardinality(S) \in Nat
    BY FS_Subset, FS_CardinalityType
  <2>2. started' = [started EXCEPT ![p] = n]
    BY <1>1
  <2>3. \A q \in Procs : started[q] <= Cardinality(S) /\ started[q] \in Nat
    BY <1>4 DEF ProcessInv, Begun
  <2>4. p \notin S
    BY <1>5
  <2> HIDE DEF S
  <2>5. n \in Nat \ {0} /\ started' \in [Procs -> Nat] /\ started'[p] = n
        /\ \A q \in Procs \ {p} : started'[q] = started[q]
    BY <2>1, <2>2, <1>4
  <2>6. {q \in Procs : started'[q] > 0} = S \cup {p}
    BY <2>5 DEF S
  <2>7. Cardinality(S \cup {p}) = n
    <3>1. Cardinality(S \cup {p}) = Cardinality(S) + 1
      BY <2>1, <2>4, FS_AddElement
    <3> QED
      BY <2>1, <3>1
  <2> QED
    BY <2>1, <2>3, <2>5, <2>6, <2>7
<1> HIDE DEF n
<1>9. Types'
  <2>1. \A q, r \in Procs : started'[q] = started'[r] => started'[q] = 0 \/ q = r
    <3> SUFFICES ASSUME NEW q \in Procs, NEW r \in Procs, started'[q] = started'[r]
                 PROVE  started'[q] = 0 \/ q = r
      OBVIOUS
    <3>1. \A x \in Procs : started[x] \in Nat
      BY <1>4
    <3>2. CASE q # p /\ r # p
      BY <3>2, <1>8 DEF ProcessInv, Types, TypeOK
    <3>3. CASE q = p \/ r = p
      BY <3>1, <3>3, <1>8
    <3> QED
      BY <3>2, <3>3
  <2> QED
    BY <1>1, <1>6, <1>7, <1>8, <2>1 DEF ProcessInv, Types, TypeOK, RunMap
<1>10. Begun' /\ BrokenUnasked'
  <2>1. \A q \in Procs : started'[q] <= n
    <3>1. \A x \in Procs : started[x] \in Nat
      BY <1>4
    <3> QED
      BY <3>1, <1>8
  <2>2. \A q \in Procs : child'[q].stage = "none" =>
          saved'[q] = Absent /\ point'.saved[q] = Absent /\ started'[q] = 0
    BY <1>1, <1>6, <1>7, <1>8 DEF ProcessInv, Begun
  <2>3. Begun'
    BY <1>8, <2>1, <2>2 DEF Begun
  <2>4. BrokenUnasked'
    BY <1>6, <1>7 DEF ProcessInv, BrokenUnasked
  <2> QED
    BY <2>3, <2>4
<1>11. Books(mem', saved', child')
  <2>1. Entries(saved')
    BY <1>3, <1>6 DEF ProcessInv, Books, Entries
  <2>2. Agree(mem', saved')
    BY <1>3, <1>6 DEF ProcessInv, Books, Agree
  <2>3. Watches(mem', child')
    BY <1>3, <1>6, <1>7 DEF ProcessInv, Books, Watches, Watched, Live
  <2>4. Controlled(mem', child')
    BY <1>3, <1>6 DEF ProcessInv, Books, Controlled
  <2> QED
    BY <2>1, <2>2, <2>3, <2>4 DEF Books
<1>12. Turns'
  <2>1. NoneQueued(mem) => NoneQueued(mem')
    BY <1>3, <1>6 DEF NoneQueued, Unread
  <2> QED
    BY <1>1, <2>1 DEF ProcessInv, Turns, OneBatch
<1>13. Seen(saved', receipts, Spent)
  BY <1>3, <1>6 DEF ProcessInv, Seen
<1>14. Receipted(saved', receipts)
  BY <1>5, <1>6 DEF ProcessInv, Receipted
<1>15. Underway'
  <2> SUFFICES ASSUME NEW i \in 1 .. Len(queue), NEW q \in queue[i]
               PROVE  receipts[q] = 0 /\ saved'[q] # Absent /\ saved'[q].delivery \in {"pending", "delivered"}
    BY <1>1 DEF Underway
  <2>1. q \in Procs
    BY DEF ProcessInv, Types, TypeOK
  <2>2. receipts[q] = 0 /\ saved[q] # Absent /\ saved[q].delivery \in {"pending", "delivered"}
    BY DEF ProcessInv, Underway
  <2> QED
    BY <2>1, <2>2, <1>5, <1>6
<1>16. IdleHasAll'
  BY <1>1 DEF IdleHasAll
<1> QED
  BY <1>1, <1>9, <1>10, <1>11, <1>12, <1>13, <1>14, <1>15, <1>16 DEF ProcessInv

(* Calls that wait, turns and leaves that are remembered. *)
LEMMA TurnSteps ==
  ASSUME ProcessInv,
         \/ \E p \in Procs : Wait(p) \/ WaitGivesUp(p) \/ Return(p)
         \/ TurnStarts \/ Remember
  PROVE  ProcessInv'
<1>0. /\ \A q \in Procs : Waiting(q) \in Call /\ Returning(q) \in Call
      /\ \A q, r \in Procs : Returning(q) # Waiting(r) /\ (Returning(q) = Returning(r) => q = r)
  BY DEF Waiting, Returning, Call
<1>1. ASSUME NEW p \in Procs, Wait(p) \/ WaitGivesUp(p) PROVE ProcessInv'
  <2>1. /\ UNCHANGED <<up, idle, inFlight, mem, started, saved, receipts, read, queue, child,
                       point, cut, changes, drops>>
        /\ calls' \in {calls \cup {Waiting(p)}, calls \ {Waiting(p)}}
        /\ calls' # calls \ {Waiting(p)} => ~idle
    BY <1>1 DEF Wait, WaitGivesUp, session, branch, bounds
  <2>2. Spent' = Spent
    BY <2>1, <1>0 DEF Spent
  <2>3. Types'
    BY <2>1, <1>0 DEF ProcessInv, Types, TypeOK
  <2>4. Turns'
    BY <2>1 DEF ProcessInv, Turns, OneBatch
  <2> QED
    BY <2>1, <2>2, <2>3, <2>4 DEF ProcessInv, Begun, BrokenUnasked, Underway, IdleHasAll
<1>2. ASSUME NEW p \in Procs, Return(p) PROVE ProcessInv'
  <2>1. /\ UNCHANGED <<up, idle, inFlight, mem, started, saved, receipts, queue, child, point,
                       cut, changes, drops>>
        /\ calls' = calls \ {Returning(p)} /\ read' = read \cup {p}
    BY <1>2 DEF Return, session, bounds
  <2>2. Spent \subseteq Spent'
    BY <2>1, <1>0 DEF Spent
  <2>3. Types'
    BY <2>1 DEF ProcessInv, Types, TypeOK
  <2>4. Turns'
    BY <2>1 DEF ProcessInv, Turns, OneBatch
  <2>5. Seen(saved, receipts, Spent')
    BY <2>2 DEF ProcessInv, Seen
  <2> QED
    BY <2>1, <2>3, <2>4, <2>5 DEF ProcessInv, Begun, BrokenUnasked, Underway, IdleHasAll
<1>3. CASE TurnStarts
  <2>1. /\ UNCHANGED <<up, inFlight, mem, started, saved, receipts, read, calls, queue, child,
                       point, cut, changes, drops, Spent>>
        /\ up /\ idle' = FALSE
    BY <1>3 DEF TurnStarts, branch, bounds, Spent
  <2>2. Types'
    BY <2>1 DEF ProcessInv, Types, TypeOK
  <2>3. Turns' /\ IdleHasAll'
    BY <2>1 DEF ProcessInv, Turns, OneBatch, IdleHasAll
  <2> QED
    BY <2>1, <2>2, <2>3 DEF ProcessInv, Begun, BrokenUnasked, Underway
<1>4. CASE Remember
  <2>1. /\ UNCHANGED <<up, idle, inFlight, mem, started, saved, receipts, read, calls, queue,
                       child, cut, changes, drops, Spent>>
        /\ calls = {}
        /\ point'.saved = saved /\ point'.receipts = receipts /\ point'.read = read
        /\ point' = [saved |-> point'.saved, receipts |-> point'.receipts, read |-> point'.read]
    BY <1>4 DEF Remember, session, branch, bounds, Spent, Branch
  <2>2. Types'
    BY <2>1 DEF ProcessInv, Types, TypeOK, RunMap
  <2>3. Begun' /\ Entries(point'.saved) /\ Receipted(point'.saved, point'.receipts)
    BY <2>1 DEF ProcessInv, Begun, Books
  <2>4. Seen(point'.saved, point'.receipts, point'.read \cup cut')
    BY <2>1 DEF ProcessInv, Seen, Spent
  <2>5. Turns' /\ IdleHasAll' /\ Underway' /\ BrokenUnasked'
    BY <2>1 DEF ProcessInv, Turns, OneBatch, IdleHasAll, Underway, BrokenUnasked
  <2> QED
    BY <2>1, <2>2, <2>3, <2>4, <2>5 DEF ProcessInv
<1> QED
  BY <1>1, <1>2, <1>3, <1>4

------------------------------------------------------------------------------
(* Results that come, are read, recorded and sent. *)

(* What is on the way suits branch b, and it is marked so. *)
OnTheWay(b, flying) ==
  /\ ~flying => queue = <<>>
  /\ queue # <<>> => receipts = b.receipts
  /\ queue # <<>> => \A p \in Procs :
       saved[p] # Absent /\ saved[p].delivery \in {"pending", "delivered"} =>
         b.saved[p] # Absent /\ b.saved[p].delivery \in {"pending", "delivered"}

(* After any handler that ends with deliver everything is in order again, if *)
(* the runs and the branch it delivers from are.                           *)
LEMMA Delivered ==
  ASSUME ProcessInv, NEW m, NEW b, NEW resting \in BOOLEAN, NEW flying \in BOOLEAN,
         Delivery(m, b, resting, flying, child', Spent'), OnTheWay(b, flying),
         idle' = resting, up', started' = started, receipts' = b.receipts,
         child' \in [Procs -> Child], BrokenUnasked',
         \A p \in Procs : child'[p].stage = "none" =>
           b.saved[p] = Absent /\ point'.saved[p] = Absent /\ started[p] = 0,
         point' = [saved |-> point'.saved, receipts |-> point'.receipts, read |-> point'.read],
         point'.saved \in RunMap, point'.receipts \in [Procs -> Nat], point'.read \subseteq Procs,
         Entries(point'.saved), Receipted(point'.saved, point'.receipts),
         Seen(point'.saved, point'.receipts, point'.read \cup cut'),
         b.receipts \in [Procs -> Nat], read' \subseteq Procs, cut' \subseteq Procs,
         calls' \subseteq Call, changes' \in 0 .. MaxChanges, resting => calls' = {}
  PROVE  ProcessInv'
<1>0. TypeOK /\ Turns /\ Underway
  BY DEF ProcessInv, Types
<1>1. /\ Books(mem', saved', child')
      /\ ~inFlight' => NoneQueued(mem')
      /\ Seen(saved', b.receipts, Spent') /\ Receipted(saved', b.receipts)
      /\ drops' \in 0 .. MaxDrops /\ inFlight' \in BOOLEAN
      /\ resting /\ ~inFlight' /\ drops' = 0 => \A p \in Procs : ~Unread(mem', p)
      /\ \A p \in Procs : Goes(b.saved[p], saved'[p])
      /\ \/ queue' = queue /\ inFlight' = flying
         \/ /\ ~flying /\ inFlight' = TRUE
            /\ \E batch \in SUBSET Procs :
                 /\ queue' = Append(queue, batch)
                 /\ \A p \in batch : /\ b.receipts[p] = 0 /\ saved'[p] # Absent
                                     /\ saved'[p].delivery \in {"pending", "delivered"}
  BY DEF Delivery
<1>2. /\ queue' \in Seq(SUBSET Procs) /\ Len(queue') <= 1 /\ (queue' # <<>> => inFlight')
      /\ \A i \in 1 .. Len(queue') : \A p \in queue'[i] :
           receipts'[p] = 0 /\ saved'[p] # Absent /\ saved'[p].delivery \in {"pending", "delivered"}
  <2>0. queue \in Seq(SUBSET Procs) /\ Len(queue) <= 1
    BY <1>0 DEF TypeOK, Turns, OneBatch
  <2>1. CASE queue' = queue /\ inFlight' = flying
    <3>1. queue # <<>> => flying
      BY DEF OnTheWay
    <3>2. ASSUME NEW i \in 1 .. Len(queue), NEW p \in queue[i]
          PROVE  receipts'[p] = 0 /\ saved'[p] # Absent /\ saved'[p].delivery \in {"pending", "delivered"}
      <4>1. p \in Procs /\ queue # <<>>
        BY <2>0
      <4>2. receipts[p] = 0 /\ saved[p] # Absent /\ saved[p].delivery \in {"pending", "delivered"}
        BY <1>0 DEF Underway
      <4>3. /\ receipts'[p] = 0 /\ Goes(b.saved[p], saved'[p])
            /\ b.saved[p] # Absent /\ b.saved[p].delivery \in {"pending", "delivered"}
        BY <4>1, <4>2, <1>1 DEF OnTheWay
      <4> QED
        BY <4>3 DEF Goes
    <3> QED
      BY <2>0, <2>1, <3>1, <3>2
  <2>2. CASE ~(queue' = queue /\ inFlight' = flying)
    <3>1. PICK batch \in SUBSET Procs :
            /\ queue' = Append(queue, batch)
            /\ \A p \in batch : /\ b.receipts[p] = 0 /\ saved'[p] # Absent
                                /\ saved'[p].delivery \in {"pending", "delivered"}
      BY <1>1, <2>2
    <3>2. queue = <<>> /\ inFlight' = TRUE
      BY <1>1, <2>2 DEF OnTheWay
    <3>3. queue' = <<batch>>
      BY <3>1, <3>2
    <3>4. Len(queue') = 1 /\ queue'[1] = batch /\ queue' \in Seq(SUBSET Procs)
      BY <3>3
    <3> QED
      BY <3>1, <3>2, <3>4
  <2> QED
    BY <2>1, <2>2
<1>3. mem' \in RunMap /\ saved' \in RunMap
  BY <1>1 DEF Books, Entries, Agree
<1>4. Types'
  BY <1>0, <1>1, <1>2, <1>3 DEF TypeOK, Types, RunMap
<1>5. Begun'
  <2>1. \A p \in Procs : child'[p].stage = "none" =>
          saved'[p] = Absent /\ point'.saved[p] = Absent /\ started'[p] = 0
    BY <1>1 DEF Goes
  <2> QED
    BY <2>1 DEF ProcessInv, Begun
<1>6. Turns'
  BY <1>1, <1>2 DEF Turns, OneBatch
<1>7. Underway'
  BY <1>2 DEF Underway
<1>8. IdleHasAll'
  BY <1>1 DEF IdleHasAll
<1> QED
  BY <1>1, <1>4, <1>5, <1>6, <1>7, <1>8 DEF ProcessInv

(* Runs that a session starts from: nothing runs, and nothing is on the way. *)
LEMMA RestoredBooks ==
  ASSUME NEW sv, NEW ch, NEW rec, NEW rd, Entries(sv), Receipted(sv, rec), Seen(sv, rec, rd),
         \A p \in Procs : ~(ch[p].stage = "alive" /\ ch[p].asked = "no")
  PROVE  /\ Books(Restored(sv), Restored(sv), ch) /\ NoneQueued(Restored(sv))
         /\ Receipted(Restored(sv), rec) /\ Seen(Restored(sv), rec, rd)
         /\ \A p \in Procs : sv[p] = Absent => Restored(sv)[p] = Absent
<1> DEFINE n == Restored(sv)
<1>0. sv \in RunMap
  BY DEF Entries
<1>1. ASSUME NEW p \in Procs
      PROVE  /\ n[p] \in Run \cup {Absent}
             /\ sv[p] = Absent <=> n[p] = Absent
             /\ sv[p] # Absent =>
                  /\ n[p].status # "running" /\ ~n[p].owned /\ ~n[p].queued
                  /\ \/ n[p].delivery = sv[p].delivery
                     \/ n[p].delivery = "pending"
  <2>1. CASE sv[p] = Absent
    BY <2>1 DEF Restored
  <2>2. CASE sv[p] # Absent /\ sv[p].status # "running"
    <3>1. n[p] = sv[p]
      BY <2>2 DEF Restored
    <3> HIDE DEF n
    <3> QED
      BY <1>0, <2>2, <3>1 DEF Entries, RunMap
  <2>3. CASE sv[p] # Absent /\ sv[p].status = "running"
    <3> DEFINE e == [sv[p] EXCEPT !.status = "failed", !.delivery = "pending"]
    <3>1. n[p] = e
      BY <2>3 DEF Restored
    <3>2. sv[p] \in Run /\ ~sv[p].owned /\ ~sv[p].queued
      BY <1>0, <2>3 DEF Entries, RunMap
    <3>3. /\ e \in Run /\ e.status = "failed" /\ e.delivery = "pending"
          /\ e.owned = sv[p].owned /\ e.queued = sv[p].queued
      BY <3>2 DEF Run, Ended
    <3> HIDE DEF n, e
    <3> QED
      BY <2>3, <3>1, <3>2, <3>3, AbsentAssumption
  <2> QED
    BY <2>1, <2>2, <2>3
<1>2. n \in RunMap
  <2>1. n = [p \in Procs |-> n[p]]
    BY DEF Restored
  <2> HIDE DEF n
  <2> QED
    BY <2>1, <1>1 DEF RunMap
<1> HIDE DEF n
<1>3. Books(n, n, ch)
  <2>1. Entries(n)
    BY <1>1, <1>2 DEF Entries
  <2>2. Agree(n, n)
    BY <1>2 DEF Agree
  <2>3. Watches(n, ch) /\ Controlled(n, ch)
    BY <1>1 DEF Watches, Controlled
  <2> QED
    BY <2>1, <2>2, <2>3 DEF Books
<1>4. NoneQueued(n)
  BY <1>1 DEF NoneQueued, Unread
<1>5. Receipted(n, rec)
  BY <1>1 DEF Receipted
<1>6. Seen(n, rec, rd)
  BY <1>1 DEF Seen
<1> QED
  BY <1>1, <1>3, <1>4, <1>5, <1>6 DEF n

(* A session that opens starts from what the branch tells. *)
LEMMA OpenStep ==
  ASSUME ProcessInv, Open
  PROVE  ProcessInv'
<1> DEFINE n == Restored(saved)
           b == [Branch EXCEPT !.saved = n]
<1>1. /\ up' = TRUE /\ ~up /\ Deliver(n, b, idle, FALSE, Old(n))
      /\ UNCHANGED <<idle, started, receipts, read, calls, child, point, cut, changes, Spent>>
  BY DEF Open, Spent
<1>2. b.saved = n /\ b.receipts = receipts
  BY DEF Branch
<1>3. /\ idle /\ queue = <<>> /\ calls = {} /\ mem = NoRuns /\ idle \in BOOLEAN
  BY <1>1 DEF ProcessInv, Turns, Types, TypeOK
<1>4. \A p \in Procs : ~(child[p].stage = "alive" /\ child[p].asked = "no")
  BY <1>3 DEF ProcessInv, Books, Controlled, NoRuns
<1>5. /\ Books(n, n, child) /\ NoneQueued(n) /\ Receipted(n, receipts) /\ Seen(n, receipts, Spent)
      /\ \A p \in Procs : saved[p] = Absent => n[p] = Absent
  <2>1. Entries(saved) /\ Receipted(saved, receipts) /\ Seen(saved, receipts, Spent)
    BY DEF ProcessInv, Books
  <2> QED
    BY <2>1, <1>4, RestoredBooks
<1> HIDE DEF b, n
<1>6. Old(n) \in SUBSET Procs /\ \A p \in Old(n) : n[p] # Absent /\ n[p].status # "running"
  BY OldEnded
<1>7. /\ child' \in [Procs -> Child] /\ BrokenUnasked' /\ receipts \in [Procs -> Nat]
      /\ \A p \in Procs : child'[p].stage = "none" =>
           b.saved[p] = Absent /\ point'.saved[p] = Absent /\ started[p] = 0
      /\ point' = [saved |-> point'.saved, receipts |-> point'.receipts, read |-> point'.read]
      /\ point'.saved \in RunMap /\ point'.receipts \in [Procs -> Nat] /\ point'.read \subseteq Procs
      /\ Entries(point'.saved) /\ Receipted(point'.saved, point'.receipts)
      /\ Seen(point'.saved, point'.receipts, point'.read \cup cut')
      /\ read' \subseteq Procs /\ cut' \subseteq Procs /\ calls' \subseteq Call
      /\ changes' \in 0 .. MaxChanges
  BY <1>1, <1>2, <1>5 DEF ProcessInv, Types, TypeOK, Begun, BrokenUnasked
<1>8. Delivery(n, b, idle, FALSE, child', Spent')
  <2>1. TypeOK /\ idle \in BOOLEAN /\ FALSE \in BOOLEAN
    BY DEF ProcessInv, Types, TypeOK
  <2>2. /\ Deliver(n, b, idle, FALSE, Old(n)) /\ Books(n, b.saved, child') /\ NoneQueued(n)
        /\ Receipted(b.saved, b.receipts) /\ Seen(b.saved, b.receipts, Spent')
    BY <1>1, <1>2, <1>5
  <2> QED
    BY <2>1, <2>2, <1>6, DeliverKeeps
<1>9. OnTheWay(b, FALSE) /\ FALSE \in BOOLEAN
  BY <1>3 DEF OnTheWay
<1> QED
  BY <1>1, <1>2, <1>3, <1>7, <1>8, <1>9, Delivered

(* What is unread may be sent again. *)
LEMMA UnqueueBooks ==
  ASSUME NEW m, NEW sv, NEW ch, Books(m, sv, ch)
  PROVE  Books(Unqueue(m), sv, ch) /\ NoneQueued(Unqueue(m))
<1> DEFINE S == {p \in Procs : Unread(m, p)}
           n == [p \in Procs |-> IF p \in S THEN [m[p] EXCEPT !.queued = FALSE] ELSE m[p]]
<1>1. Unqueue(m) = n
  BY DEF Unqueue
<1>2. S \in SUBSET Procs /\ \A p \in S : m[p] # Absent
  BY DEF Unread
<1>3. \A p \in Procs : Unread(m, p) => p \in S
  OBVIOUS
<1> HIDE DEF S
<1>4. /\ Books(n, sv, ch)
      /\ \A p \in Procs : /\ n[p] = Absent <=> m[p] = Absent
                          /\ m[p] # Absent => /\ n[p].status = m[p].status
                                              /\ n[p].delivery = m[p].delivery
                          /\ p \in S => n[p].queued = FALSE
  <2>1. FALSE \in BOOLEAN
    OBVIOUS
  <2>2. ASSUME NEW q \in BOOLEAN, q = FALSE
        PROVE  LET k == [p \in Procs |-> IF p \in S THEN [m[p] EXCEPT !.queued = q] ELSE m[p]] IN
               /\ Books(k, sv, ch)
               /\ \A p \in Procs : /\ k[p] = Absent <=> m[p] = Absent
                                   /\ m[p] # Absent => /\ k[p].status = m[p].status
                                                       /\ k[p].delivery = m[p].delivery
                                   /\ p \in S => k[p].queued = q
    BY <1>2, QueueBooks
  <2> QED
    BY <2>1, <2>2, Zenon
<1> HIDE DEF n
<1>5. NoneQueued(n)
  BY <1>3, <1>4 DEF NoneQueued, Unread
<1> QED
  BY <1>1, <1>4, <1>5

(* When the agent has settled, what the branch shows is acknowledged, and    *)
(* what else is unread is sent.                                            *)
LEMMA SettledStep ==
  ASSUME ProcessInv, Settled
  PROVE  ProcessInv'
<1> DEFINE seen == {p \in Procs : Unread(mem, p) /\ Present(Branch, p)}
           sv == Consume(saved, seen)
           m1 == Consume(mem, seen)
           b == [Branch EXCEPT !.saved = sv]
<1>1. /\ up /\ queue = <<>> /\ calls = {} /\ idle' = TRUE /\ Deliver(Unqueue(m1), b, TRUE, FALSE, {})
      /\ UNCHANGED <<up, started, receipts, read, calls, child, point, cut, changes, Spent>>
  BY DEF Settled, Spent
<1>2. b.saved = sv /\ b.receipts = receipts
  BY DEF Branch
<1>3. seen \in SUBSET Procs /\ \A p \in seen : Unread(mem, p) /\ receipts[p] > 0
  BY DEF Present, Branch
<1> HIDE DEF seen
<1>4. Books(m1, sv, child)
  <2>1. \A p \in seen : mem[p] # Absent /\ mem[p].status # "running"
    BY <1>3 DEF Unread
  <2> QED
    BY <1>3, <2>1, ConsumeBooks DEF ProcessInv
<1>5. /\ sv \in RunMap
      /\ \A p \in Procs :
           /\ saved[p] = Absent <=> sv[p] = Absent
           /\ p \notin seen => sv[p] = saved[p]
           /\ p \in seen => sv[p].delivery = "delivered"
  <2>1. saved \in RunMap
    BY DEF ProcessInv, Books, Entries
  <2>2. \A p \in seen : saved[p] # Absent
    BY <1>3 DEF ProcessInv, Books, Agree, Unread
  <2> QED
    BY <2>1, <2>2, Consumed
<1> HIDE DEF b, sv, m1
<1>6. Books(Unqueue(m1), sv, child) /\ NoneQueued(Unqueue(m1))
  BY <1>4, UnqueueBooks
<1>7. Seen(sv, receipts, Spent) /\ Receipted(sv, receipts)
  BY <1>3, <1>5 DEF ProcessInv, Seen, Receipted
<1>8. Delivery(Unqueue(m1), b, TRUE, FALSE, child', Spent')
  <2>1. TypeOK /\ TRUE \in BOOLEAN /\ FALSE \in BOOLEAN /\ {} \in SUBSET Procs
    BY DEF ProcessInv, Types
  <2>2. /\ Books(Unqueue(m1), b.saved, child') /\ NoneQueued(Unqueue(m1))
        /\ Receipted(b.saved, b.receipts) /\ Seen(b.saved, b.receipts, Spent')
    BY <1>1, <1>2, <1>6, <1>7
  <2>3. \A p \in {} : Unqueue(m1)[p] # Absent /\ Unqueue(m1)[p].status # "running"
    OBVIOUS
  <2> QED
    BY <1>1, <2>1, <2>2, <2>3, DeliverKeeps
<1>9. OnTheWay(b, FALSE) /\ FALSE \in BOOLEAN /\ TRUE \in BOOLEAN
  BY <1>1 DEF OnTheWay
<1>10. /\ child' \in [Procs -> Child] /\ BrokenUnasked' /\ receipts \in [Procs -> Nat]
       /\ \A p \in Procs : child'[p].stage = "none" =>
            b.saved[p] = Absent /\ point'.saved[p] = Absent /\ started[p] = 0
       /\ point' = [saved |-> point'.saved, receipts |-> point'.receipts, read |-> point'.read]
       /\ point'.saved \in RunMap /\ point'.receipts \in [Procs -> Nat] /\ point'.read \subseteq Procs
       /\ Entries(point'.saved) /\ Receipted(point'.saved, point'.receipts)
       /\ Seen(point'.saved, point'.receipts, point'.read \cup cut')
       /\ read' \subseteq Procs /\ cut' \subseteq Procs /\ calls' \subseteq Call
       /\ changes' \in 0 .. MaxChanges
  BY <1>1, <1>2, <1>5 DEF ProcessInv, Types, TypeOK, Begun, BrokenUnasked
<1> QED
  BY <1>1, <1>2, <1>8, <1>9, <1>10, Delivered

(* A change of branch stops what ran and starts from what the leaf tells.    *)
LEMMA TreeStep ==
  ASSUME ProcessInv, Tree
  PROVE  ProcessInv'
<1>1. PICK c \in {point, Branch} :
        /\ receipts' = c.receipts /\ read' = c.read
        /\ point' = IF c = Branch THEN point ELSE Branch
        /\ Deliver(Restored(c.saved), [c EXCEPT !.saved = Restored(@)], TRUE, FALSE,
                   Old(Restored(c.saved)))
  BY DEF Tree
<1> DEFINE n == Restored(c.saved)
           b == [c EXCEPT !.saved = n]
<1>2. /\ up /\ up' = up /\ idle /\ idle' = idle /\ queue = <<>> /\ calls = {} /\ calls' = {}
      /\ started' = started /\ cut' = cut /\ changes' = changes + 1 /\ changes < MaxChanges
  BY DEF Tree, Quiet, Change
<1>3. /\ child' = [p \in Procs |-> child'[p]]
      /\ \A p \in Procs : Moves(child[p], child'[p])
      /\ \A p \in Procs : ~(child'[p].stage = "alive" /\ child'[p].asked = "no")
  <2>1. Request(Handled, "stopped")
    BY DEF Tree
  <2>2. /\ child' = [p \in Procs |-> child'[p]]
        /\ \A p \in Procs : /\ Moves(child[p], child'[p])
                            /\ p \in Handled => ~(child'[p].stage = "alive" /\ child'[p].asked = "no")
    BY <2>1, RequestMoves
  <2>3. \A p \in Procs : child[p].stage = "alive" /\ child[p].asked = "no" => p \in Handled
    BY DEF ProcessInv, Books, Controlled, Handled
  <2> QED
    BY <2>2, <2>3 DEF Moves
<1>4. /\ c = [saved |-> c.saved, receipts |-> c.receipts, read |-> c.read]
      /\ Entries(c.saved) /\ Receipted(c.saved, c.receipts) /\ Seen(c.saved, c.receipts, c.read \cup cut)
      /\ c.receipts \in [Procs -> Nat] /\ c.read \subseteq Procs
      /\ \A p \in Procs : child[p].stage = "none" => c.saved[p] = Absent
  <2>1. CASE c = point
    BY <2>1 DEF ProcessInv, Types, Begun
  <2>2. CASE c = Branch
    <3>1. /\ c = [saved |-> c.saved, receipts |-> c.receipts, read |-> c.read]
          /\ c.saved = saved /\ c.receipts = receipts /\ c.read = read
      BY <2>2 DEF Branch
    <3>2. Spent = read \cup cut
      BY <1>2 DEF Spent
    <3> QED
      BY <3>1, <3>2 DEF ProcessInv, Types, TypeOK, Begun, Books
  <2> QED
    BY <2>1, <2>2
<1>5. /\ point' = [saved |-> point'.saved, receipts |-> point'.receipts, read |-> point'.read]
      /\ point'.saved \in RunMap /\ point'.receipts \in [Procs -> Nat] /\ point'.read \subseteq Procs
      /\ Entries(point'.saved) /\ Receipted(point'.saved, point'.receipts)
      /\ Seen(point'.saved, point'.receipts, point'.read \cup cut)
      /\ \A p \in Procs : child[p].stage = "none" => point'.saved[p] = Absent
  <2>1. CASE point' = point
    BY <2>1 DEF ProcessInv, Types, Begun
  <2>2. CASE point' = Branch
    <3>1. /\ point' = [saved |-> point'.saved, receipts |-> point'.receipts, read |-> point'.read]
          /\ point'.saved = saved /\ point'.receipts = receipts /\ point'.read = read
      BY <2>2 DEF Branch
    <3>2. Spent = read \cup cut
      BY <1>2 DEF Spent
    <3> QED
      BY <3>1, <3>2 DEF ProcessInv, Types, TypeOK, Begun, Books, RunMap
  <2> QED
    BY <2>1, <2>2, <1>1
<1>6. b.saved = n /\ b.receipts = c.receipts
  BY <1>4
<1>7. Spent' = c.read \cup cut
  BY <1>1, <1>2 DEF Spent
<1>8. /\ Books(n, n, child') /\ NoneQueued(n) /\ Receipted(n, c.receipts)
      /\ Seen(n, c.receipts, c.read \cup cut)
      /\ \A p \in Procs : c.saved[p] = Absent => n[p] = Absent
  BY <1>3, <1>4, RestoredBooks
<1>9. Deliver(n, b, TRUE, FALSE, Old(n))
  BY <1>1
<1> HIDE DEF b, n
<1>10. Old(n) \in SUBSET Procs /\ \A p \in Old(n) : n[p] # Absent /\ n[p].status # "running"
  BY OldEnded
<1>11. Delivery(n, b, TRUE, FALSE, child', Spent')
  <2>1. TypeOK /\ TRUE \in BOOLEAN /\ FALSE \in BOOLEAN
    BY DEF ProcessInv, Types
  <2>2. /\ Books(n, b.saved, child') /\ NoneQueued(n)
        /\ Receipted(b.saved, b.receipts) /\ Seen(b.saved, b.receipts, Spent')
    BY <1>6, <1>7, <1>8
  <2> QED
    BY <1>9, <1>10, <2>1, <2>2, DeliverKeeps
<1>12. OnTheWay(b, FALSE) /\ FALSE \in BOOLEAN /\ TRUE \in BOOLEAN
  BY <1>2 DEF OnTheWay
<1>13. child' \in [Procs -> Child] /\ BrokenUnasked'
  BY <1>3 DEF Moves, BrokenUnasked
<1>14. \A p \in Procs : child'[p].stage = "none" =>
         b.saved[p] = Absent /\ point'.saved[p] = Absent /\ started[p] = 0
  <2>1. \A p \in Procs : child'[p].stage = "none" => child[p].stage = "none"
    BY <1>3 DEF Moves
  <2> QED
    BY <2>1, <1>4, <1>5, <1>6, <1>8 DEF ProcessInv, Begun
<1>15. /\ cut' \subseteq Procs /\ read' \subseteq Procs /\ calls' \subseteq Call
       /\ changes' \in 0 .. MaxChanges /\ b.receipts \in [Procs -> Nat] /\ receipts' = b.receipts
  <2>1. changes \in 0 .. MaxChanges /\ cut \subseteq Procs
    BY DEF ProcessInv, Types, TypeOK
  <2> QED
    BY <2>1, <1>1, <1>2, <1>4, <1>6, ProcessAssumption
<1>16. Seen(point'.saved, point'.receipts, point'.read \cup cut')
  BY <1>2, <1>5
<1> QED
  BY <1>2, <1>5, <1>11, <1>12, <1>13, <1>14, <1>15, <1>16, Delivered

(* A host that closes ends the run it is owned by, once.                    *)
LEMMA CloseBooks ==
  ASSUME ProcessInv, NEW p \in Procs, child[p].stage \in {"exited", "broken"}, Owned(p),
         child' = [child EXCEPT ![p] = Closed]
  PROVE  LET run == [NewRun EXCEPT !.status = Outcome(p), !.delivery = "pending"]
             m  == [mem EXCEPT ![p] = run]
             sv == [saved EXCEPT ![p] = Snapshot(run)] IN
         /\ Books(m, sv, child')
         /\ saved[p] # Absent /\ saved[p].delivery = "none" /\ mem[p].status = "running"
         /\ m[p] # Absent /\ m[p].status # "running" /\ m[p].delivery = "pending" /\ ~m[p].queued
         /\ m[p].status = Outcome(p) /\ sv[p].status = Outcome(p)
         /\ sv[p] # Absent /\ sv[p].delivery = "pending"
         /\ \A q \in Procs \ {p} : m[q] = mem[q] /\ sv[q] = saved[q]
<1> DEFINE run == [NewRun EXCEPT !.status = Outcome(p), !.delivery = "pending"]
           m  == [mem EXCEPT ![p] = run]
           sv == [saved EXCEPT ![p] = Snapshot(run)]
<1>0. /\ mem \in RunMap /\ saved \in RunMap /\ child \in [Procs -> Child]
      /\ Entries(saved) /\ Agree(mem, saved) /\ Watches(mem, child) /\ Controlled(mem, child)
  BY DEF ProcessInv, Types, TypeOK, RunMap, Books
<1>1. Outcome(p) \in Ended
  <2>1. child[p].asked \in {"no", "failed", "stopped", "timed_out"}
    BY <1>0 DEF Child
  <2> QED
    BY <2>1 DEF Outcome, Ended
<1>2. /\ run \in Run /\ run.status = Outcome(p) /\ run.delivery = "pending" /\ run.queued = FALSE
      /\ run.owned = TRUE
  <2>1. NewRun \in Run /\ NewRun.queued = FALSE /\ NewRun.owned = TRUE
    BY DEF NewRun, Run
  <2> HIDE DEF NewRun, Outcome
  <2>2. /\ run \in Run /\ run.status = Outcome(p) /\ run.delivery = "pending"
        /\ run.queued = NewRun.queued /\ run.owned = NewRun.owned
    BY <1>1, <2>1 DEF Run
  <2> QED
    BY <2>1, <2>2
<1>3. /\ Snapshot(run) \in Run /\ Snapshot(run).status = Outcome(p)
      /\ Snapshot(run).delivery = "pending" /\ Snapshot(run).queued = FALSE
      /\ Snapshot(run).owned = FALSE
  <2>1. Snapshot(run) = [run EXCEPT !.queued = FALSE, !.owned = FALSE]
    BY DEF Snapshot
  <2> HIDE DEF run
  <2> QED
    BY <1>2, <2>1 DEF Run
<1>4. run # Absent /\ Snapshot(run) # Absent
  BY <1>2, <1>3, AbsentAssumption
<1> HIDE DEF run
<1>5. /\ m \in RunMap /\ m[p] = run /\ sv \in RunMap /\ sv[p] = Snapshot(run)
      /\ \A q \in Procs \ {p} : m[q] = mem[q] /\ sv[q] = saved[q]
  BY <1>0, <1>2, <1>3 DEF RunMap
<1>6. /\ child' \in [Procs -> Child] /\ child'[p].stage = "closed"
      /\ \A q \in Procs \ {p} : child'[q] = child[q]
  BY <1>0 DEF Closed, Child
<1> HIDE DEF m, sv
<1>7. mem[p] # Absent /\ mem[p].status = "running" /\ saved[p] # Absent /\ saved[p].delivery = "none"
  BY <1>0 DEF Owned, Watches, Agree, Entries
<1>8. Outcome(p) # "running"
  BY <1>1 DEF Ended
<1>9. Books(m, sv, child')
  <2>1. Entries(sv)
    BY <1>0, <1>3, <1>4, <1>5, <1>8 DEF Entries
  <2>2. Agree(m, sv)
    BY <1>0, <1>2, <1>3, <1>4, <1>5 DEF Agree
  <2>3. Watches(m, child')
    BY <1>0, <1>2, <1>5, <1>6, <1>8 DEF Watches
  <2>4. Controlled(m, child')
    BY <1>0, <1>5, <1>6 DEF Controlled
  <2> QED
    BY <2>1, <2>2, <2>3, <2>4 DEF Books
<1> QED
  BY <1>2, <1>3, <1>4, <1>5, <1>7, <1>8, <1>9 DEF m, sv, run

(* The result of a host goes to the call that waits, or is delivered.       *)
LEMMA CloseStep ==
  ASSUME ProcessInv, NEW p \in Procs, Closes(p)
  PROVE  ProcessInv'
<1> DEFINE run == [NewRun EXCEPT !.status = Outcome(p), !.delivery = "pending"]
           m  == [mem EXCEPT ![p] = run]
           sv == [saved EXCEPT ![p] = Snapshot(run)]
           b  == [Branch EXCEPT !.saved = sv]
<1>0. /\ child[p].stage \in {"exited", "broken"} /\ child' = [child EXCEPT ![p] = Closed]
      /\ UNCHANGED <<up, idle, started, receipts, read, point, cut, changes>>
  BY DEF Closes
<1>1. /\ child \in [Procs -> Child] /\ child' \in [Procs -> Child] /\ child'[p].stage = "closed"
      /\ \A q \in Procs \ {p} : child'[q] = child[q]
      /\ Waiting(p) \in Call /\ Returning(p) \in Call
      /\ \A q, r \in Procs : Returning(q) # Waiting(r) /\ (Returning(q) = Returning(r) => q = r)
  BY <1>0 DEF ProcessInv, Types, TypeOK, Closed, Child, Waiting, Returning, Call
<1>2. BrokenUnasked'
  BY <1>1 DEF ProcessInv, BrokenUnasked
<1>3. CASE ~Owned(p)
  <2>1. UNCHANGED <<mem, saved, calls, inFlight, queue, drops, Spent>>
    BY <1>0, <1>3 DEF Closes, Spent
  <2>2. Books(mem, saved, child')
    BY <1>1, <1>3 DEF ProcessInv, Books, Watches, Controlled, Owned
  <2>3. Types'
    BY <1>0, <1>1, <2>1 DEF ProcessInv, Types, TypeOK
  <2>4. Begun'
    BY <1>0, <1>1, <2>1 DEF ProcessInv, Begun
  <2>5. Turns' /\ Underway' /\ IdleHasAll'
    BY <1>0, <2>1 DEF ProcessInv, Turns, OneBatch, Underway, IdleHasAll
  <2> QED
    BY <1>0, <1>2, <2>1, <2>2, <2>3, <2>4, <2>5 DEF ProcessInv
<1>4. ASSUME Owned(p)
      PROVE  /\ Books(m, sv, child')
             /\ saved[p] # Absent /\ saved[p].delivery = "none"
             /\ m[p] # Absent /\ m[p].status # "running" /\ m[p].delivery = "pending" /\ ~m[p].queued
             /\ sv[p] # Absent /\ sv[p].delivery = "pending"
             /\ \A q \in Procs \ {p} : m[q] = mem[q] /\ sv[q] = saved[q]
  BY <1>0, <1>4, CloseBooks
<1>5. b.saved = sv /\ b.receipts = receipts
  BY DEF Branch
<1>6. /\ Owned(p) /\ Waiting(p) \in calls =>
           /\ mem' = Forget(Consume(m, {p}), Old(m)) /\ saved' = Consume(sv, {p})
           /\ calls' = (calls \ {Waiting(p)}) \cup {Returning(p)}
           /\ UNCHANGED <<inFlight, queue, drops>>
      /\ Owned(p) /\ Waiting(p) \notin calls =>
           Deliver(m, b, idle, inFlight, Old(m)) /\ calls' = calls
  BY DEF Closes
<1> HIDE DEF b, sv, m, run
<1>7. Old(m) \in SUBSET Procs /\ \A q \in Old(m) : m[q] # Absent /\ m[q].status # "running"
  BY OldEnded
<1>8. ASSUME Owned(p)
      PROVE  ~inFlight => NoneQueued(m)
  BY <1>4, <1>8 DEF ProcessInv, Turns, NoneQueued, Unread
<1>9. ASSUME Owned(p)
      PROVE  receipts[p] = 0 /\ Receipted(sv, receipts)
  BY <1>4, <1>9 DEF ProcessInv, Receipted
<1>10. CASE Owned(p) /\ Waiting(p) \in calls
  <2>1. Books(Consume(m, {p}), Consume(sv, {p}), child')
    BY <1>4, <1>10, ConsumeBooks
  <2>2. /\ m \in RunMap /\ sv \in RunMap
    BY <1>4, <1>10 DEF Books, Entries, Agree
  <2>3. \A q \in Procs :
          /\ m[q] = Absent <=> Consume(m, {p})[q] = Absent
          /\ m[q] # Absent => Consume(m, {p})[q].status = m[q].status
          /\ q # p => Consume(m, {p})[q] = m[q]
          /\ q = p => Consume(m, {p})[q].delivery = "delivered"
    BY <2>2, <1>4, <1>10, Consumed
  <2>4. \A q \in Procs :
          /\ sv[q] = Absent <=> Consume(sv, {p})[q] = Absent
          /\ q # p => Consume(sv, {p})[q] = sv[q]
          /\ q = p => Consume(sv, {p})[q].delivery = "delivered"
    BY <2>2, <1>4, <1>10, Consumed
  <2>5. Books(mem', saved', child')
    <3>1. \A q \in Old(m) : Consume(m, {p})[q] # Absent /\ Consume(m, {p})[q].status # "running"
      BY <1>7, <2>3
    <3> QED
      BY <1>6, <1>10, <2>1, <3>1, ForgetBooks
  <2>6. /\ mem' = Forget(Consume(m, {p}), Old(m)) /\ saved' = Consume(sv, {p})
        /\ calls' = (calls \ {Waiting(p)}) \cup {Returning(p)}
        /\ UNCHANGED <<inFlight, queue, drops>>
    BY <1>6, <1>10
  <2>7. Spent \subseteq Spent' /\ p \in Spent'
    BY <1>0, <1>1, <2>6 DEF Spent
  <2>8. ~idle /\ up
    BY <1>10 DEF ProcessInv, Turns
  <2>9. Types'
    <3>1. mem' \in RunMap /\ saved' \in RunMap
      BY <2>5 DEF Books, Entries, Agree
    <3> QED
      BY <1>0, <1>1, <2>6, <3>1 DEF ProcessInv, Types, TypeOK, RunMap
  <2>10. Begun'
    BY <1>0, <1>1, <1>4, <1>10, <2>4, <2>6 DEF ProcessInv, Begun
  <2>11. Turns'
    <3>1. ASSUME ~inFlight PROVE NoneQueued(mem')
      <4> SUFFICES ASSUME NEW q \in Procs, Unread(mem', q) PROVE ~mem'[q].queued
        BY DEF NoneQueued
      <4>1. mem'[q] = Consume(m, {p})[q]
        BY <2>6 DEF Forget, Unread
      <4>2. q # p
        BY <4>1, <2>3 DEF Unread
      <4>3. mem'[q] = mem[q]
        BY <4>1, <4>2, <2>3, <1>4, <1>10
      <4> QED
        BY <3>1, <4>3 DEF ProcessInv, Turns, NoneQueued, Unread
    <3> QED
      BY <1>0, <2>6, <2>8, <3>1 DEF ProcessInv, Turns, OneBatch
  <2>12. Seen(saved', receipts, Spent')
    BY <1>4, <1>10, <2>4, <2>6, <2>7 DEF ProcessInv, Seen
  <2>13. Receipted(saved', receipts)
    BY <1>9, <1>10, <2>4, <2>6, <1>4 DEF Receipted
  <2>14. Underway'
    <3> SUFFICES ASSUME NEW i \in 1 .. Len(queue), NEW q \in queue[i]
                 PROVE  receipts[q] = 0 /\ saved'[q] # Absent /\ saved'[q].delivery \in {"pending", "delivered"}
      BY <1>0, <2>6 DEF Underway
    <3>1. q \in Procs
      BY DEF ProcessInv, Types, TypeOK
    <3>2. receipts[q] = 0 /\ saved[q] # Absent /\ saved[q].delivery \in {"pending", "delivered"}
      BY DEF ProcessInv, Underway
    <3>3. q # p
      BY <3>2, <1>4, <1>10
    <3> QED
      BY <3>1, <3>2, <3>3, <1>4, <1>10, <2>4, <2>6
  <2>15. IdleHasAll'
    BY <1>0, <2>8 DEF IdleHasAll
  <2> QED
    BY <1>0, <1>2, <2>5, <2>6, <2>9, <2>10, <2>11, <2>12, <2>13, <2>14, <2>15 DEF ProcessInv
<1>11. CASE Owned(p) /\ Waiting(p) \notin calls
  <2>1. Deliver(m, b, idle, inFlight, Old(m)) /\ calls' = calls /\ Spent' = Spent
    BY <1>0, <1>6, <1>11 DEF Spent
  <2>2. TypeOK /\ idle \in BOOLEAN /\ inFlight \in BOOLEAN
    BY DEF ProcessInv, Types, TypeOK
  <2>3. Seen(sv, receipts, Spent)
    BY <1>4, <1>11 DEF ProcessInv, Seen
  <2>4. ~inFlight => NoneQueued(m)
    BY <1>8, <1>11
  <2>5. Delivery(m, b, idle, inFlight, child', Spent')
    <3>1. /\ Books(m, b.saved, child') /\ Receipted(b.saved, b.receipts)
          /\ Seen(b.saved, b.receipts, Spent')
      BY <1>4, <1>5, <1>9, <1>11, <2>1, <2>3
    <3> QED
      BY <1>7, <2>1, <2>2, <2>4, <3>1, DeliverKeeps
  <2>6. OnTheWay(b, inFlight)
    BY <1>4, <1>5, <1>11 DEF OnTheWay, ProcessInv, Turns
  <2>7. up
    BY <1>11 DEF ProcessInv, Turns, Owned, NoRuns
  <2>8. /\ \A q \in Procs : child'[q].stage = "none" =>
             b.saved[q] = Absent /\ point'.saved[q] = Absent /\ started[q] = 0
        /\ point' = [saved |-> point'.saved, receipts |-> point'.receipts, read |-> point'.read]
        /\ point'.saved \in RunMap /\ point'.receipts \in [Procs -> Nat] /\ point'.read \subseteq Procs
        /\ Entries(point'.saved) /\ Receipted(point'.saved, point'.receipts)
        /\ Seen(point'.saved, point'.receipts, point'.read \cup cut')
        /\ read' \subseteq Procs /\ cut' \subseteq Procs /\ calls' \subseteq Call
        /\ changes' \in 0 .. MaxChanges /\ receipts \in [Procs -> Nat]
        /\ idle => calls' = {}
    BY <1>0, <1>1, <1>4, <1>5, <1>11, <2>1 DEF ProcessInv, Types, TypeOK, Begun, Turns
  <2>9. /\ idle' = idle /\ up' /\ started' = started /\ receipts' = b.receipts
        /\ child' \in [Procs -> Child] /\ b.receipts \in [Procs -> Nat]
    BY <1>0, <1>1, <1>5, <2>7, <2>8
  <2> QED
    BY <1>2, <2>2, <2>5, <2>6, <2>8, <2>9, Delivered
<1> QED
  BY <1>3, <1>10, <1>11

(* A result that a tool call reads is on the way to the branch.              *)
LEMMA InspectStep ==
  ASSUME ProcessInv, NEW p \in Procs, Inspect(p)
  PROVE  ProcessInv'
<1>1. /\ up /\ ~idle /\ Unread(mem, p)
      /\ mem' = Consume(mem, {p}) /\ saved' = Consume(saved, {p})
      /\ calls' = calls \cup {Returning(p)}
      /\ UNCHANGED <<up, idle, inFlight, started, receipts, read, queue, child, point, cut,
                     changes, drops>>
  BY DEF Inspect, session, bounds
<1>2. /\ mem[p] # Absent /\ mem[p].status # "running" /\ saved[p] # Absent
      /\ saved[p].delivery = "pending"
  BY <1>1 DEF ProcessInv, Books, Agree, Unread
<1>3. Books(mem', saved', child)
  BY <1>1, <1>2, ConsumeBooks DEF ProcessInv
<1>4. mem \in RunMap /\ saved \in RunMap /\ mem' \in RunMap /\ saved' \in RunMap
  BY <1>3 DEF ProcessInv, Books, Entries, Agree
<1>5. \A q \in Procs :
        /\ mem[q] = Absent <=> mem'[q] = Absent
        /\ q # p => mem'[q] = mem[q]
        /\ q = p => mem'[q].delivery = "delivered"
        /\ saved[q] = Absent <=> saved'[q] = Absent
        /\ q # p => saved'[q] = saved[q]
        /\ q = p => saved'[q].delivery = "delivered"
  BY <1>1, <1>2, <1>4, Consumed
<1>6. /\ Returning(p) \in Call
      /\ Spent \subseteq Spent' /\ p \in Spent'
  BY <1>1 DEF Spent, Returning, Call
<1>7. Types'
  BY <1>1, <1>4, <1>6 DEF ProcessInv, Types, TypeOK, RunMap
<1>8. Begun' /\ BrokenUnasked'
  BY <1>1, <1>5 DEF ProcessInv, Begun, BrokenUnasked
<1>9. Turns'
  <2>1. NoneQueued(mem) => NoneQueued(mem')
    BY <1>5 DEF NoneQueued, Unread
  <2> QED
    BY <1>1, <2>1 DEF ProcessInv, Turns, OneBatch
<1>10. Seen(saved', receipts, Spent')
  BY <1>5, <1>6 DEF ProcessInv, Seen
<1>11. Receipted(saved', receipts)
  BY <1>2, <1>5 DEF ProcessInv, Receipted
<1>12. Underway'
  <2> SUFFICES ASSUME NEW i \in 1 .. Len(queue), NEW q \in queue[i]
               PROVE  receipts[q] = 0 /\ saved'[q] # Absent /\ saved'[q].delivery \in {"pending", "delivered"}
    BY <1>1 DEF Underway
  <2>1. q \in Procs
    BY DEF ProcessInv, Types, TypeOK
  <2>2. receipts[q] = 0 /\ saved[q] # Absent /\ saved[q].delivery \in {"pending", "delivered"}
    BY DEF ProcessInv, Underway
  <2> QED
    BY <2>1, <2>2, <1>5
<1>13. IdleHasAll'
  BY <1>1 DEF IdleHasAll
<1> QED
  BY <1>1, <1>3, <1>7, <1>8, <1>9, <1>10, <1>11, <1>12, <1>13 DEF ProcessInv

(* A batch that reaches the branch, or is dropped, was the only one.         *)
LEMMA RecordStep ==
  ASSUME ProcessInv, Record
  PROVE  ProcessInv'
<1> USE ProcessAssumption
<1>1. /\ ~idle /\ queue # <<>> /\ queue' = Tail(queue)
      /\ UNCHANGED <<up, idle, inFlight, mem, started, saved, read, calls, child, point, cut,
                     changes, Spent>>
  BY DEF Record, session, Spent
<1>2. /\ queue \in Seq(SUBSET Procs) /\ Len(queue) <= 1 /\ inFlight /\ receipts \in [Procs -> Nat]
      /\ drops \in 0 .. MaxDrops
  BY <1>1 DEF ProcessInv, Types, TypeOK, Turns, OneBatch
<1>3. queue' = <<>> /\ Head(queue) = queue[1] /\ 1 \in 1 .. Len(queue) /\ Head(queue) \subseteq Procs
  <2>1. Len(queue) = 1
    <3> DEFINE n == Len(queue)
    <3>1. n # 0 /\ n \in Nat /\ n <= 1
      BY <1>1, <1>2
    <3> HIDE DEF n
    <3>2. n = 1
      BY <3>1
    <3> QED
      BY <3>2 DEF n
  <2> QED
    BY <1>1, <1>2, <2>1
<1>4. \A p \in Head(queue) :
        receipts[p] = 0 /\ saved[p] # Absent /\ saved[p].delivery \in {"pending", "delivered"}
  BY <1>3 DEF ProcessInv, Underway
<1>5. /\ receipts' \in [Procs -> Nat] /\ Receipted(saved, receipts') /\ drops' \in 0 .. MaxDrops
      /\ \A p \in Procs : receipts[p] > 0 => receipts'[p] > 0
  <2>1. CASE /\ receipts' = [p \in Procs |-> IF p \in Head(queue) THEN receipts[p] + 1 ELSE receipts[p]]
             /\ drops' = drops
    <3>1. \A p \in Procs : receipts'[p] = IF p \in Head(queue) THEN 1 ELSE receipts[p]
      BY <2>1, <1>4
    <3>2. receipts' \in [Procs -> Nat] /\ \A p \in Procs : receipts[p] > 0 => receipts'[p] > 0
      BY <2>1, <3>1, <1>2
    <3>3. Receipted(saved, receipts')
      BY <3>1, <1>4 DEF ProcessInv, Receipted
    <3> QED
      BY <2>1, <3>2, <3>3, <1>2
  <2>2. CASE receipts' = receipts /\ drops < MaxDrops /\ drops' = drops + 1
    BY <2>2, <1>2 DEF ProcessInv
  <2> QED
    BY <2>1, <2>2 DEF Record
<1>6. Types'
  <2>1. <<>> \in Seq(SUBSET Procs)
    OBVIOUS
  <2> QED
    BY <1>1, <1>3, <1>5, <2>1 DEF ProcessInv, Types, TypeOK
<1>7. Begun' /\ BrokenUnasked'
  BY <1>1 DEF ProcessInv, Begun, BrokenUnasked
<1>8. Turns' /\ Underway'
  BY <1>1, <1>2, <1>3 DEF ProcessInv, Turns, OneBatch, Underway
<1>9. Seen(saved, receipts', Spent)
  BY <1>5 DEF ProcessInv, Seen
<1>10. IdleHasAll'
  BY <1>1 DEF IdleHasAll
<1> QED
  BY <1>1, <1>5, <1>6, <1>7, <1>8, <1>9, <1>10 DEF ProcessInv

(* A reload stops what runs, and an exit leaves it without its parent.       *)
LEMMA GoneStep ==
  ASSUME ProcessInv, Reload \/ \E orderly \in BOOLEAN : Exit(orderly)
  PROVE  ProcessInv'
<1>1. /\ up' = FALSE /\ mem' = NoRuns /\ changes < MaxChanges /\ changes' = changes + 1
      /\ UNCHANGED <<inFlight, started, saved, receipts, read, point, drops>>
      /\ idle' /\ idle' \in BOOLEAN /\ queue' = <<>> /\ calls' = {}
  BY DEF Reload, Exit, Change, Quiet, branch, ProcessInv, Types, TypeOK
<1>2. /\ child' \in [Procs -> Child] /\ BrokenUnasked'
      /\ \A p \in Procs : /\ child'[p].stage = "none" => child[p].stage = "none"
                          /\ ~(child'[p].stage = "alive" /\ child'[p].asked = "no")
  <2>1. CASE Reload
    <3>1. Request(Handled, "stopped")
      BY <2>1 DEF Reload
    <3>2. /\ child' = [p \in Procs |-> child'[p]]
          /\ \A p \in Procs : /\ Moves(child[p], child'[p])
                              /\ p \in Handled => ~(child'[p].stage = "alive" /\ child'[p].asked = "no")
      BY <3>1, RequestMoves
    <3>3. \A p \in Procs : child[p].stage = "alive" /\ child[p].asked = "no" => p \in Handled
      BY DEF ProcessInv, Books, Controlled, Handled
    <3> QED
      BY <3>2, <3>3 DEF Moves, BrokenUnasked
  <2>2. ASSUME NEW orderly \in BOOLEAN, Exit(orderly)
        PROVE  /\ child' \in [Procs -> Child] /\ BrokenUnasked'
               /\ \A p \in Procs : /\ child'[p].stage = "none" => child[p].stage = "none"
                                   /\ ~(child'[p].stage = "alive" /\ child'[p].asked = "no")
    <3> DEFINE left(p) == [child[p] EXCEPT !.stage = "stray",
                 !.asked = IF orderly /\ p \in Handled /\ @ = "no" THEN "stopped" ELSE @]
    <3>1. child' = [p \in Procs |-> IF child[p].stage \in Live THEN left(p)
                      ELSE IF child[p].stage \in {"exited", "broken"} THEN Closed ELSE child[p]]
      BY <2>2 DEF Exit
    <3>2. Closed \in Child /\ Closed.stage = "closed"
      BY DEF Closed, Child
    <3>3. ASSUME NEW p \in Procs
          PROVE  /\ child[p] \in Child /\ left(p) \in Child /\ left(p).stage = "stray"
                 /\ child[p].stage = "none" => child[p].asked = "no"
      <4>1. child[p] \in Child
        BY DEF ProcessInv, Types, TypeOK
      <4>2. left(p) \in Child /\ left(p).stage = "stray"
        BY <4>1 DEF Child
      <4> QED
        BY <4>1, <4>2 DEF ProcessInv, BrokenUnasked
    <3> HIDE DEF left
    <3>4. ASSUME NEW p \in Procs
          PROVE  /\ child'[p] \in Child
                 /\ child'[p].stage = "none" => child[p].stage = "none" /\ child'[p].asked = "no"
                 /\ child'[p].stage \notin {"alive", "broken"}
      <4>1. CASE child[p].stage \in Live
        BY <4>1, <3>1, <3>3
      <4>2. CASE child[p].stage \in {"exited", "broken"}
        BY <4>2, <3>1, <3>2 DEF Live
      <4>3. CASE child[p].stage \notin Live \cup {"exited", "broken"}
        <5>1. child'[p] = child[p]
          BY <4>3, <3>1
        <5> QED
          BY <4>3, <5>1, <3>3 DEF Live
      <4> QED
        BY <4>1, <4>2, <4>3
    <3>5. child' \in [Procs -> Child]
      BY <3>1, <3>4
    <3> QED
      BY <3>4, <3>5 DEF BrokenUnasked
  <2> QED
    BY <2>1, <2>2
<1>3. /\ cut \subseteq cut' /\ cut' \subseteq Procs /\ Spent \subseteq Spent'
      /\ Seen(point.saved, point.receipts, point.read \cup cut')
  <2>1. CASE Reload
    BY <1>1, <2>1 DEF Reload, Quiet, Spent, ProcessInv, Types, TypeOK
  <2>2. CASE cut' = cut \cup {p \in Procs : Returning(p) \in calls}
    BY <1>1, <2>2 DEF Spent, ProcessInv, Types, TypeOK, Seen
  <2> QED
    BY <2>1, <2>2 DEF Exit
<1>4. NoRuns \in RunMap /\ \A p \in Procs : NoRuns[p] = Absent
  BY DEF NoRuns, RunMap
<1>5. Types'
  <2>1. changes' \in 0 .. MaxChanges
    <3>1. changes \in 0 .. MaxChanges
      BY DEF ProcessInv, Types, TypeOK
    <3> QED
      BY <3>1, <1>1, ProcessAssumption
  <2>2. queue' \in Seq(SUBSET Procs)
    BY <1>1
  <2> QED
    BY <1>1, <1>2, <1>3, <1>4, <2>1, <2>2 DEF ProcessInv, Types, TypeOK, RunMap
<1>6. Begun'
  BY <1>1, <1>2 DEF ProcessInv, Begun
<1>7. Books(mem', saved', child')
  BY <1>1, <1>2, <1>4 DEF ProcessInv, Books, Agree, Watches, Controlled
<1>8. Turns' /\ Underway'
  BY <1>1, <1>4 DEF Turns, OneBatch, NoneQueued, Unread, Underway
<1>9. Seen(saved', receipts', Spent')
  BY <1>1, <1>3 DEF ProcessInv, Seen
<1>10. IdleHasAll'
  BY <1>1 DEF IdleHasAll
<1> QED
  BY <1>1, <1>2, <1>3, <1>5, <1>6, <1>7, <1>8, <1>9, <1>10 DEF ProcessInv

(* No step breaks the invariant. *)
LEMMA StepProcess == ProcessInv /\ [Next]_vars => ProcessInv'
<1> SUFFICES ASSUME ProcessInv, [Next]_vars PROVE ProcessInv'
  OBVIOUS
<1>1. ASSUME NEW p \in Procs,
             \/ Stop(p) \/ Deadline(p) \/ CaptureFails(p) \/ TakesTerm(p) \/ StrayEnds(p)
             \/ \E code \in {"zero", "other"} : Exits(p, code)
      PROVE  ProcessInv'
  BY <1>1, HostSteps
<1>2. ASSUME NEW p \in Procs, Wait(p) \/ WaitGivesUp(p) \/ Return(p) PROVE ProcessInv'
  BY <1>2, TurnSteps
<1>3. ASSUME NEW p \in Procs, Start(p) \/ Closes(p) \/ Inspect(p) PROVE ProcessInv'
  BY <1>3, StartStep, CloseStep, InspectStep
<1>4. CASE TurnStarts \/ Remember
  BY <1>4, TurnSteps
<1>5. CASE Record \/ Settled \/ Tree \/ Reload \/ Open \/ \E orderly \in BOOLEAN : Exit(orderly)
  BY <1>5, RecordStep, SettledStep, TreeStep, GoneStep, OpenStep
<1>6. CASE UNCHANGED vars
  <2>1. UNCHANGED <<session, mem, started, branch, calls, queue, point, cut, changes, drops, child>>
    BY <1>6 DEF vars, bounds
  <2>2. child' = [p \in Procs |-> child'[p]] /\ drops' \in 0 .. MaxDrops /\ drops' >= drops
    BY <2>1 DEF ProcessInv, Types, TypeOK
  <2>3. \A p \in Procs : Moves(child[p], child'[p])
    BY <2>1, Stays
  <2> QED
    BY <2>1, <2>2, <2>3, HostsMove
<1> QED
  BY <1>1, <1>2, <1>3, <1>4, <1>5, <1>6 DEF Next

------------------------------------------------------------------------------
(* What follows. *)

(* The inductive invariant holds of every behaviour: memory, the entries of *)
(* the branch, the hosts and the messages stay in step (index.ts, 234-414). *)
THEOREM InStep == Spec => []ProcessInv
BY InitProcess, StepProcess, PTL DEF Spec

(* Nothing runs unsupervised (index.ts, 319-386 and 408-414), for any number *)
(* of processes, changes of session and lost messages.                     *)
THEOREM WorkIsWatched == Spec => []Supervised
<1>1. ProcessInv => Supervised
  <2> SUFFICES ASSUME ProcessInv PROVE Supervised
    OBVIOUS
  <2>1. TypeOK
    BY DEF ProcessInv, Types
  <2>2. RunningIsWatched
    BY DEF ProcessInv, Books, Watches, Watched, Running, RunningIsWatched
  <2>3. NoOrphans
    BY DEF ProcessInv, Books, Controlled, Handled, NoOrphans
  <2> QED
    BY <2>1, <2>2, <2>3 DEF Supervised
<1> QED
  BY <1>1, InStep, PTL

(* An unread result stays unread until the branch shows it, and an idle agent *)
(* has been sent it in one batch at a time (index.ts, 275-318).             *)
THEOREM ResultsAreKept == Spec => []ResultsKept
<1>1. ProcessInv => ResultsKept
  <2> SUFFICES ASSUME ProcessInv PROVE ResultsKept
    OBVIOUS
  <2>1. SeenBeforeDelivered
    BY DEF ProcessInv, Seen, Spent, SeenBeforeDelivered
  <2>2. OneBatch /\ IdleHasAll
    BY DEF ProcessInv, Turns
  <2> QED
    BY <2>1, <2>2 DEF ResultsKept
<1> QED
  BY <1>1, InStep, PTL

(* An entry that goes on: how its run ended stays, and its delivery advances. *)
Grows(e, f) ==
  e # Absent => /\ f # Absent
                /\ e.status # "running" => f.status = e.status
                /\ e.delivery = "pending" => f.delivery \in {"pending", "delivered"}
                /\ e.delivery = "delivered" => f.delivery = "delivered"

(* Results that are consumed go on. *)
LEMMA ConsumeGrows ==
  ASSUME NEW sv \in RunMap, NEW S
  PROVE  /\ Consume(sv, S) \in RunMap
         /\ \A p \in Procs : /\ Grows(sv[p], Consume(sv, S)[p])
                             /\ sv[p] # Absent => Consume(sv, S)[p].status = sv[p].status
BY Consumed DEF Grows

(* So do those that deliver acknowledges. *)
LEMMA DeliverGrows ==
  ASSUME TypeOK, NEW m \in RunMap, NEW b, NEW resting \in BOOLEAN, NEW flying \in BOOLEAN,
         NEW old, b.saved \in RunMap, Deliver(m, b, resting, flying, old)
  PROVE  /\ saved' \in RunMap
         /\ \A p \in Procs : /\ Grows(b.saved[p], saved'[p])
                             /\ b.saved[p] # Absent => saved'[p].status = b.saved[p].status
<1>1. PICK acked, batch \in SUBSET Procs : Delivers(m, b, resting, flying, old, acked, batch)
  BY DeliverDoes
<1>2. saved' = Consume(b.saved, acked)
  BY <1>1 DEF Delivers
<1> QED
  BY <1>2, ConsumeGrows

(* And those a session starts from, in whatever branch. *)
LEMMA RestoredGrows ==
  ASSUME TypeOK, NEW sv, NEW b, Entries(sv), b.saved = Restored(sv),
         NEW resting \in BOOLEAN, NEW flying \in BOOLEAN, NEW old,
         Deliver(Restored(sv), b, resting, flying, old)
  PROVE  \A p \in Procs : Grows(sv[p], saved'[p])
<1> DEFINE n == Restored(sv)
<1>1. n \in RunMap /\ \A p \in Procs : Grows(sv[p], n[p])
  <2>1. ASSUME NEW p \in Procs
        PROVE  n[p] \in Run \cup {Absent} /\ Grows(sv[p], n[p])
    <3>1. sv[p] \in Run \cup {Absent}
      BY DEF Entries, RunMap
    <3>2. CASE sv[p] = Absent \/ sv[p].status # "running"
      <4>1. n[p] = sv[p]
        BY <3>2 DEF Restored
      <4> HIDE DEF n
      <4> QED
        BY <3>1, <4>1 DEF Grows
    <3>3. CASE sv[p] # Absent /\ sv[p].status = "running"
      <4> DEFINE e == [sv[p] EXCEPT !.status = "failed", !.delivery = "pending"]
      <4>1. n[p] = e
        BY <3>3 DEF Restored
      <4>2. sv[p] \in Run /\ sv[p].delivery = "none"
        BY <3>1, <3>3 DEF Entries
      <4>3. e \in Run
        BY <4>2 DEF Run, Ended
      <4> HIDE DEF e, n
      <4> QED
        BY <3>3, <4>1, <4>2, <4>3, AbsentAssumption DEF Grows
    <3> QED
      BY <3>2, <3>3
  <2>2. n = [p \in Procs |-> n[p]]
    BY DEF Restored
  <2> HIDE DEF n
  <2> QED
    BY <2>1, <2>2 DEF RunMap
<1> HIDE DEF n
<1>2. Deliver(n, b, resting, flying, old) /\ b.saved = n
  BY DEF n
<1>3. \A p \in Procs : Grows(n[p], saved'[p])
  BY <1>1, <1>2, DeliverGrows
<1> QED
  BY <1>1, <1>3 DEF Grows

(* A host that closes tells its outcome, and nothing else of other runs.     *)
LEMMA CloseTells ==
  ASSUME ProcessInv, NEW q \in Procs, Closes(q), Owned(q)
  PROVE  /\ saved'[q].status = Outcome(q)
         /\ \A p \in Procs : Grows(saved[p], saved'[p])
<1> DEFINE run == [NewRun EXCEPT !.status = Outcome(q), !.delivery = "pending"]
           m  == [mem EXCEPT ![q] = run]
           sv == [saved EXCEPT ![q] = Snapshot(run)]
           b  == [Branch EXCEPT !.saved = sv]
<1>0. TypeOK /\ Agree(mem, saved)
  BY DEF ProcessInv, Types, Books
<1>1. /\ child[q].stage \in {"exited", "broken"} /\ child' = [child EXCEPT ![q] = Closed]
      /\ \/ saved' = Consume(sv, {q})
         \/ Deliver(m, b, idle, inFlight, Old(m))
  BY DEF Closes
<1>2. /\ Books(m, sv, child') /\ saved[q].delivery = "none" /\ mem[q].status = "running"
      /\ sv[q] # Absent /\ sv[q].status = Outcome(q)
      /\ \A r \in Procs \ {q} : sv[r] = saved[r]
  BY <1>1, CloseBooks
<1>3. b.saved = sv
  BY DEF Branch
<1> HIDE DEF run, m, sv, b
<1>4. sv \in RunMap /\ m \in RunMap
  BY <1>2 DEF Books, Entries, Agree
<1>5. \A p \in Procs : Grows(saved[p], sv[p])
  <2>1. Grows(saved[q], sv[q])
    BY <1>0, <1>2 DEF Grows, Agree, Owned
  <2>2. \A e : Grows(e, e)
    BY DEF Grows
  <2> QED
    BY <2>1, <2>2, <1>2
<1>6. \A p \in Procs : /\ Grows(sv[p], saved'[p])
                       /\ sv[p] # Absent => saved'[p].status = sv[p].status
  <2>1. CASE saved' = Consume(sv, {q})
    BY <1>4, <2>1, ConsumeGrows
  <2>2. CASE Deliver(m, b, idle, inFlight, Old(m))
    <3>1. idle \in BOOLEAN /\ inFlight \in BOOLEAN /\ b.saved \in RunMap
      BY <1>0, <1>3, <1>4 DEF TypeOK
    <3> QED
      BY <1>0, <1>3, <1>4, <2>2, <3>1, DeliverGrows
  <2> QED
    BY <1>1, <2>1, <2>2
<1> QED
  BY <1>2, <1>5, <1>6 DEF Grows

(* Unless the branch changes, every entry goes on. *)
LEMMA EntriesGrow ==
  ASSUME ProcessInv, [Next]_vars, ~Tree, NEW p \in Procs
  PROVE  Grows(saved[p], saved'[p])
<1>0. saved \in RunMap /\ Entries(saved) /\ TypeOK /\ \A e : Grows(e, e)
  BY DEF ProcessInv, Books, Entries, Types, Grows
<1>1. CASE saved' = saved
  BY <1>0, <1>1
<1>2. ASSUME NEW q \in Procs, Start(q) PROVE Grows(saved[p], saved'[p])
  <2>1. child[q].stage = "none" /\ saved' = [saved EXCEPT ![q] = Snapshot(NewRun)]
    BY <1>2 DEF Start
  <2>2. saved[q] = Absent
    BY <2>1 DEF ProcessInv, Begun
  <2>3. CASE q = p
    BY <2>2, <2>3 DEF Grows
  <2>4. CASE q # p
    <3>1. saved'[p] = saved[p]
      BY <2>1, <2>4, <1>0 DEF RunMap
    <3> QED
      BY <3>1, <1>0
  <2> QED
    BY <2>3, <2>4
<1>3. ASSUME NEW q \in Procs, Inspect(q) PROVE Grows(saved[p], saved'[p])
  <2>1. saved' = Consume(saved, {q})
    BY <1>3 DEF Inspect
  <2> QED
    BY <2>1, <1>0, ConsumeGrows
<1>4. ASSUME NEW q \in Procs, Closes(q), Owned(q) PROVE Grows(saved[p], saved'[p])
  BY <1>4, CloseTells
<1>5. ASSUME Settled PROVE Grows(saved[p], saved'[p])
  <2> DEFINE seen == {q \in Procs : Unread(mem, q) /\ Present(Branch, q)}
             sv == Consume(saved, seen)
             m  == Unqueue(Consume(mem, seen))
             b == [Branch EXCEPT !.saved = sv]
  <2>1. Deliver(m, b, TRUE, FALSE, {}) /\ b.saved = sv
    BY <1>5 DEF Settled, Branch
  <2>2. sv \in RunMap /\ Grows(saved[p], sv[p])
    BY <1>0, ConsumeGrows
  <2>3. m \in RunMap
    <3>1. seen \in SUBSET Procs /\ \A q \in seen : mem[q] # Absent /\ mem[q].status # "running"
      BY DEF Unread
    <3> HIDE DEF seen
    <3>2. Books(Consume(mem, seen), sv, child)
      BY <3>1, ConsumeBooks DEF ProcessInv
    <3> HIDE DEF sv
    <3> QED
      BY <3>2, UnqueueBooks DEF Books, Agree
  <2> HIDE DEF seen, sv, m, b
  <2>4. TRUE \in BOOLEAN /\ FALSE \in BOOLEAN /\ b.saved \in RunMap
    BY <2>1, <2>2
  <2>5. Grows(sv[p], saved'[p])
    BY <1>0, <2>1, <2>3, <2>4, DeliverGrows
  <2> QED
    BY <2>2, <2>5 DEF Grows
<1>6. ASSUME Open PROVE Grows(saved[p], saved'[p])
  <2> DEFINE b == [Branch EXCEPT !.saved = Restored(saved)]
  <2>1. Deliver(Restored(saved), b, idle, FALSE, Old(Restored(saved))) /\ b.saved = Restored(saved)
    BY <1>6 DEF Open, Branch
  <2> HIDE DEF b
  <2>2. idle \in BOOLEAN /\ FALSE \in BOOLEAN
    BY <1>0 DEF TypeOK
  <2> QED
    BY <1>0, <2>1, <2>2, RestoredGrows
<1>7. ASSUME NEW q \in Procs,
             \/ Stop(q) \/ Deadline(q) \/ CaptureFails(q) \/ TakesTerm(q) \/ StrayEnds(q)
             \/ Wait(q) \/ WaitGivesUp(q) \/ Return(q) \/ \E code \in {"zero", "other"} : Exits(q, code)
      PROVE  saved' = saved
  BY <1>7 DEF Stop, Deadline, CaptureFails, TakesTerm, StrayEnds, Wait, WaitGivesUp, Return, Exits, branch
<1>8. ASSUME NEW q \in Procs, Closes(q), ~Owned(q) PROVE saved' = saved
  BY <1>8 DEF Closes
<1>9. ASSUME TurnStarts \/ Record \/ Remember \/ Reload \/ (\E orderly \in BOOLEAN : Exit(orderly))
      PROVE  saved' = saved
  BY <1>9 DEF TurnStarts, Record, Remember, Reload, Exit, branch
<1>10. ASSUME UNCHANGED vars PROVE saved' = saved
  BY <1>10 DEF vars, branch
<1> QED
  BY <1>1, <1>2, <1>3, <1>4, <1>5, <1>6, <1>7, <1>8, <1>9, <1>10 DEF Next

(* Only a host that closes, or the end of Pi, takes one that runs away.      *)
LEMMA OnlyClosing ==
  ASSUME ProcessInv, [Next]_vars, up', NEW p \in Procs, child[p].stage \in Watched,
         child'[p].stage = "closed"
  PROVE  Closes(p)
<1>0. child \in [Procs -> Child] /\ Watched = {"alive", "holding", "exited", "broken"}
  BY DEF ProcessInv, Types, TypeOK, Watched, Live
<1>1. ASSUME NEW q \in Procs, Start(q) PROVE FALSE
  <2>1. PICK s \in {"alive", "broken"} : child' = [child EXCEPT ![q].stage = s]
    BY <1>1 DEF Start
  <2>2. q # p
    BY <1>0, <1>1 DEF Start
  <2> QED
    BY <1>0, <2>1, <2>2
<1>2. ASSUME NEW q \in Procs, NEW status, Request({q}, status) PROVE FALSE
  BY <1>0, <1>2 DEF Request, Child
<1>3. ASSUME NEW q \in Procs, CaptureFails(q) PROVE FALSE
  <2> DEFINE d == [child[q] EXCEPT !.lost = TRUE,
                     !.asked = IF child[q].stage = "alive" /\ @ = "no" THEN "failed" ELSE @]
  <2>1. child' = [child EXCEPT ![q] = d]
    BY <1>0, <1>3 DEF CaptureFails
  <2>2. d.stage = child[q].stage
    BY <1>0 DEF Child
  <2> HIDE DEF d
  <2> QED
    BY <1>0, <2>1, <2>2
<1>4. ASSUME NEW q \in Procs, TakesTerm(q) PROVE FALSE
  BY <1>0, <1>4 DEF TakesTerm, Child
<1>5. ASSUME NEW q \in Procs, NEW code \in {"zero", "other"}, Exits(q, code) PROVE FALSE
  <2> DEFINE d == [child[q] EXCEPT !.stage = "exited", !.code = code]
  <2>1. child' = [child EXCEPT ![q] = d]
    BY <1>0, <1>5 DEF Exits
  <2>2. d.stage = "exited"
    BY <1>0 DEF Child
  <2> HIDE DEF d
  <2> QED
    BY <1>0, <2>1, <2>2
<1>6. ASSUME NEW q \in Procs, StrayEnds(q) PROVE FALSE
  BY <1>0, <1>6 DEF StrayEnds
<1>7. ASSUME NEW q \in Procs, Closes(q) PROVE Closes(p)
  <2>1. child' = [child EXCEPT ![q] = Closed]
    BY <1>7 DEF Closes
  <2>2. q = p
    BY <1>0, <2>1
  <2> QED
    BY <1>7, <2>2
<1>8. ASSUME Tree PROVE FALSE
  <2>1. Request(Handled, "stopped")
    BY <1>8 DEF Tree
  <2> QED
    BY <1>0, <2>1 DEF Request, Child
<1>9. ASSUME Reload \/ \E orderly \in BOOLEAN : Exit(orderly) PROVE FALSE
  BY <1>9 DEF Reload, Exit
<1>10. ASSUME NEW q \in Procs, Wait(q) \/ WaitGivesUp(q) \/ Inspect(q) \/ Return(q) PROVE child' = child
  BY <1>10 DEF Wait, WaitGivesUp, Inspect, Return
<1>11. ASSUME TurnStarts \/ Record \/ Settled \/ Remember \/ Open \/ UNCHANGED vars PROVE child' = child
  BY <1>11 DEF TurnStarts, Record, Settled, Remember, Open, vars
<1>12. child' # child
  BY <1>0
<1>13. ASSUME NEW q \in Procs, Stop(q) \/ Deadline(q) PROVE FALSE
  BY <1>2, <1>13 DEF Stop, Deadline
<1> QED
  BY <1>1, <1>3, <1>4, <1>5, <1>6, <1>7, <1>8, <1>9, <1>10, <1>11, <1>12, <1>13 DEF Next

(* How a run ended is told as it was asked for, and never told otherwise, by   *)
(* a process that ends late or in another branch (index.ts, 178-184).        *)
THEOREM OutcomesAreKept == Spec => OutcomeKept
<1>1. ProcessInv /\ [Next]_vars =>
        [~Tree => \A p \in Procs :
           saved[p] # Absent /\ saved[p].status # "running"
           => saved'[p] # Absent /\ saved'[p].status = saved[p].status]_vars
  BY EntriesGrow DEF Grows
<1>2. ProcessInv /\ [Next]_vars =>
        [\A p \in Procs : child[p].asked # "no" /\ ~child[p].lost /\ Owned(p)
           /\ mem[p].status = "running" /\ child'[p].stage = "closed" /\ up'
           => saved'[p].status = child[p].asked]_vars
  <2> SUFFICES ASSUME ProcessInv, [Next]_vars, NEW p \in Procs,
                      child[p].asked # "no", ~child[p].lost, Owned(p), mem[p].status = "running",
                      child'[p].stage = "closed", up'
               PROVE  saved'[p].status = child[p].asked
    OBVIOUS
  <2>1. child[p].stage \in Watched /\ child[p].stage # "broken"
    BY DEF ProcessInv, BrokenUnasked, Books, Watches, Owned
  <2>2. Closes(p)
    BY <2>1, OnlyClosing
  <2>3. Outcome(p) = child[p].asked
    BY <2>1 DEF Outcome
  <2> QED
    BY <2>2, <2>3, CloseTells
<1> QED
  BY <1>1, <1>2, InStep, PTL DEF Spec, OutcomeKept, EndedStays, RequestIsOutcome

------------------------------------------------------------------------------
(* The refinement of ResultDelivery. *)

Tale(sv, rec) ==
  [p \in Procs |->
     [stage |-> IF sv[p] = Absent THEN "unknown"
                ELSE IF sv[p].delivery = "none" THEN "running"
                ELSE IF sv[p].delivery = "pending" THEN "unread" ELSE "delivered",
      messages |-> rec[p]]]

(* What the two leaves tell, now and after a step. *)
LEMMA ToldIs ==
  /\ Told(Branch) = Tale(saved, receipts) /\ Told(point) = Tale(point.saved, point.receipts)
  /\ Told(Branch)' = Tale(saved', receipts')
  /\ Told(point)' = Tale(point'.saved, point'.receipts)
  BY DEF Told, Tale, Branch

(* A leaf tells at most one message of each run. *)
LEMMA TaleIsView ==
  ASSUME NEW sv, NEW rec, Receipted(sv, rec)
  PROVE  Tale(sv, rec) \in [Procs -> Promise!View]
  BY DEF Receipted, Tale, Promise!View, Promise!Stages

(* Entries that go on make a leaf that goes forward. *)
LEMMA TaleAdvances ==
  ASSUME NEW sv \in RunMap, NEW sw \in RunMap,
         NEW rec \in [Procs -> Nat], NEW rew \in [Procs -> Nat],
         \A p \in Procs : /\ Grows(sv[p], sw[p]) /\ rec[p] <= rew[p]
                          /\ sv[p] = Absent \/ sv[p].delivery = "none" => rew[p] = rec[p]
  PROVE  Promise!Forward(Tale(sv, rec), Tale(sw, rew))
<1> SUFFICES ASSUME NEW p \in Procs
             PROVE  Promise!Advances(Tale(sv, rec)[p], Tale(sw, rew)[p])
  BY DEF Promise!Forward
<1>1. /\ Tale(sv, rec)[p].messages = rec[p] /\ Tale(sw, rew)[p].messages = rew[p]
      /\ Tale(sv, rec)[p].stage = IF sv[p] = Absent THEN "unknown"
                ELSE IF sv[p].delivery = "none" THEN "running"
                ELSE IF sv[p].delivery = "pending" THEN "unread" ELSE "delivered"
      /\ Tale(sw, rew)[p].stage = IF sw[p] = Absent THEN "unknown"
                ELSE IF sw[p].delivery = "none" THEN "running"
                ELSE IF sw[p].delivery = "pending" THEN "unread" ELSE "delivered"
  BY DEF Tale
<1>2. /\ Promise!Rank("unknown") = 0 /\ Promise!Rank("running") = 1
      /\ Promise!Rank("unread") = 2 /\ Promise!Rank("delivered") = 3
  BY DEF Promise!Rank
<1>3. Promise!Rank(Tale(sv, rec)[p].stage) =
        IF sv[p] = Absent THEN 0 ELSE IF sv[p].delivery = "none" THEN 1
        ELSE IF sv[p].delivery = "pending" THEN 2 ELSE 3
  BY <1>1, <1>2
<1>4. Promise!Rank(Tale(sw, rew)[p].stage) =
        IF sw[p] = Absent THEN 0 ELSE IF sw[p].delivery = "none" THEN 1
        ELSE IF sw[p].delivery = "pending" THEN 2 ELSE 3
  BY <1>1, <1>2
<1>5. /\ Promise!Rank(Tale(sv, rec)[p].stage) <= Promise!Rank(Tale(sw, rew)[p].stage)
      /\ Promise!Rank(Tale(sv, rec)[p].stage) < 2 => rew[p] = rec[p]
  <2>1. sv[p] # Absent => sv[p].delivery \in {"none", "pending", "delivered"}
    BY DEF RunMap, Run
  <2>2. /\ Grows(sv[p], sw[p])
        /\ sv[p] = Absent \/ sv[p].delivery = "none" => rew[p] = rec[p]
    OBVIOUS
  <2> QED
    BY <1>3, <1>4, <2>1, <2>2 DEF Grows
<1> QED
  BY <1>1, <1>5 DEF Promise!Advances

(* Messages come one at a time, after the result they tell. *)
LEMMA MessagesGrow ==
  ASSUME ProcessInv, [Next]_vars, ~Tree
  PROVE  \A p \in Procs : /\ receipts[p] <= receipts'[p]
                          /\ saved[p] = Absent \/ saved[p].delivery = "none" => receipts'[p] = receipts[p]
<1>0. receipts \in [Procs -> Nat]
  BY DEF ProcessInv, Types, TypeOK
<1>1. CASE receipts' = receipts
  BY <1>0, <1>1
<1>2. CASE Record
  <2>1. CASE receipts' = [p \in Procs |-> IF p \in Head(queue) THEN receipts[p] + 1 ELSE receipts[p]]
    <3>1. Head(queue) = queue[1] /\ 1 \in 1 .. Len(queue)
      <4>1. queue # <<>> /\ queue \in Seq(SUBSET Procs)
        BY <1>2 DEF Record, ProcessInv, Types, TypeOK
      <4>2. Len(queue) # 0 /\ Len(queue) \in Nat /\ Head(queue) = queue[1]
        BY <4>1
      <4> DEFINE n == Len(queue)
      <4>3. n # 0 /\ n \in Nat
        BY <4>2
      <4> HIDE DEF n
      <4>4. 1 \in 1 .. n
        BY <4>3
      <4> QED
        BY <4>2, <4>4 DEF n
    <3>2. \A p \in Head(queue) : saved[p] # Absent /\ saved[p].delivery \in {"pending", "delivered"}
      BY <3>1 DEF ProcessInv, Underway
    <3> QED
      BY <1>0, <2>1, <3>2
  <2> QED
    BY <1>0, <1>2, <2>1 DEF Record
<1>3. ASSUME NEW q \in Procs,
             \/ Start(q) \/ Stop(q) \/ Deadline(q) \/ CaptureFails(q) \/ TakesTerm(q) \/ StrayEnds(q)
             \/ Closes(q) \/ Wait(q) \/ WaitGivesUp(q) \/ Inspect(q) \/ Return(q)
             \/ \E code \in {"zero", "other"} : Exits(q, code)
      PROVE  receipts' = receipts
  BY <1>3 DEF Start, Stop, Deadline, CaptureFails, TakesTerm, StrayEnds, Closes, Wait, WaitGivesUp,
              Inspect, Return, Exits, branch
<1>4. ASSUME \/ TurnStarts \/ Settled \/ Remember \/ Reload \/ Open \/ UNCHANGED vars
             \/ \E orderly \in BOOLEAN : Exit(orderly)
      PROVE  receipts' = receipts
  BY <1>4 DEF TurnStarts, Settled, Remember, Reload, Open, Exit, branch, vars
<1> QED
  BY <1>1, <1>2, <1>3, <1>4 DEF Next

(* The other leaf changes only when the user notes one or goes back to it. *)
LEMMA PointStays ==
  ASSUME [Next]_vars, ~Tree
  PROVE  point' = point \/ Remember
<1>1. ASSUME NEW q \in Procs,
             \/ Start(q) \/ Stop(q) \/ Deadline(q) \/ CaptureFails(q) \/ TakesTerm(q) \/ StrayEnds(q)
             \/ Closes(q) \/ Wait(q) \/ WaitGivesUp(q) \/ Inspect(q) \/ Return(q)
             \/ \E code \in {"zero", "other"} : Exits(q, code)
      PROVE  point' = point
  BY <1>1 DEF Start, Stop, Deadline, CaptureFails, TakesTerm, StrayEnds, Closes, Wait, WaitGivesUp,
              Inspect, Return, Exits
<1>2. ASSUME \/ TurnStarts \/ Record \/ Settled \/ Reload \/ Open \/ UNCHANGED vars
             \/ \E orderly \in BOOLEAN : Exit(orderly)
      PROVE  point' = point
  BY <1>2 DEF TurnStarts, Record, Settled, Reload, Open, Exit, vars
<1> QED
  BY <1>1, <1>2 DEF Next

(* Every step of a background process is one of the promise it makes to a    *)
(* session, or none.                                                       *)
LEMMA StepPromise ==
  ASSUME ProcessInv, ProcessInv', [Next]_vars
  PROVE  [Promise!Next]_(Promise!vars)
<1> DEFINE leaf == Tale(saved, receipts)
           earlier == Tale(point.saved, point.receipts)
           leaf2 == Tale(saved', receipts')
           earlier2 == Tale(point'.saved, point'.receipts)
<1>1. /\ saved \in RunMap /\ saved' \in RunMap /\ Entries(saved) /\ Entries(point.saved)
      /\ receipts \in [Procs -> Nat] /\ receipts' \in [Procs -> Nat]
      /\ point.saved \in RunMap /\ point.receipts \in [Procs -> Nat] /\ TypeOK
  BY DEF ProcessInv, Types, TypeOK, RunMap, Books
<1>2. leaf2 \in [Procs -> Promise!View]
  <2>1. Receipted(saved', receipts')
    BY DEF ProcessInv
  <2> QED
    BY <2>1, TaleIsView
<1>3. CASE Tree
  <2>1. PICK c \in {point, Branch} :
          /\ receipts' = c.receipts
          /\ point' = IF c = Branch THEN point ELSE Branch
          /\ Deliver(Restored(c.saved), [c EXCEPT !.saved = Restored(@)], TRUE, FALSE,
                     Old(Restored(c.saved)))
    BY <1>3 DEF Tree
  <2> DEFINE b == [c EXCEPT !.saved = Restored(c.saved)]
  <2>2. /\ c = [saved |-> c.saved, receipts |-> c.receipts, read |-> c.read] /\ Entries(c.saved)
        /\ c.saved \in RunMap /\ c.receipts \in [Procs -> Nat]
    <3>1. CASE c = point
      BY <1>1, <3>1 DEF ProcessInv, Types
    <3>2. CASE c = Branch
      BY <1>1, <3>2 DEF Branch
    <3> QED
      BY <3>1, <3>2
  <2>3. b.saved = Restored(c.saved) /\ Deliver(Restored(c.saved), b, TRUE, FALSE, Old(Restored(c.saved)))
    BY <2>1, <2>2
  <2> HIDE DEF b
  <2>4. TRUE \in BOOLEAN /\ FALSE \in BOOLEAN
    OBVIOUS
  <2>5. \A p \in Procs : Grows(c.saved[p], saved'[p])
    BY <1>1, <2>2, <2>3, <2>4, RestoredGrows
  <2>6. Promise!Forward(Tale(c.saved, c.receipts), leaf2)
    <3>1. \A p \in Procs : c.receipts[p] <= receipts'[p] /\ receipts'[p] = c.receipts[p]
      BY <2>1, <2>2
    <3> QED
      BY <1>1, <2>2, <2>5, <3>1, TaleAdvances
  <2>7. CASE c = Branch
    <3>1. Tale(c.saved, c.receipts) = leaf /\ earlier2 = earlier
      BY <2>1, <2>7 DEF Branch
    <3> QED
      BY <1>2, <2>6, <3>1, ToldIs DEF Promise!Next, Promise!Work
  <2>8. CASE c # Branch
    <3>1. Tale(c.saved, c.receipts) = earlier /\ earlier2 = leaf
      BY <2>1, <2>8 DEF Branch
    <3> QED
      BY <1>2, <2>6, <3>1, ToldIs DEF Promise!Next, Promise!Jump
  <2> QED
    BY <2>7, <2>8
<1>4. CASE ~Tree
  <2>1. \A p \in Procs : /\ Grows(saved[p], saved'[p])
                         /\ receipts[p] <= receipts'[p]
                         /\ saved[p] = Absent \/ saved[p].delivery = "none" => receipts'[p] = receipts[p]
    BY <1>4, EntriesGrow, MessagesGrow
  <2>2. CASE Remember
    <3>1. earlier2 = leaf /\ leaf2 = leaf
      BY <2>2 DEF Remember, Branch, branch
    <3> QED
      BY <3>1, ToldIs DEF Promise!Next, Promise!Mark
  <2>3. CASE point' = point
    <3>1. Promise!Forward(leaf, leaf2)
      BY <1>1, <2>1, TaleAdvances
    <3>2. earlier2 = earlier
      BY <2>3
    <3> QED
      BY <1>2, <3>1, <3>2, ToldIs DEF Promise!Next, Promise!Work
  <2> QED
    BY <1>4, <2>2, <2>3, PointStays
<1> QED
  BY <1>3, <1>4

(* Batches, acknowledgements, drops, reloads, crashes and changes of branch  *)
(* amount to what ResultDelivery promises (index.ts, 259-414), for any       *)
(* number of processes and of changes.                                     *)
THEOREM DeliveryIsKept == Spec => DeliveryKept
<1>1. Init => Promise!Init
  <2> SUFFICES ASSUME Init PROVE Promise!Init
    OBVIOUS
  <2>1. /\ Tale(saved, receipts) = Promise!Fresh
        /\ Tale(point.saved, point.receipts) = Promise!Fresh
    BY DEF Init, Branch, NoRuns, Tale, Promise!Fresh
  <2> QED
    BY <2>1, ToldIs DEF Promise!Init
<1>2. ProcessInv /\ ProcessInv' /\ [Next]_vars => [Promise!Next]_(Promise!vars)
  BY StepPromise
<1> QED
  BY <1>1, <1>2, InStep, PTL DEF Spec, DeliveryKept, Promise!Spec
=============================================================================
