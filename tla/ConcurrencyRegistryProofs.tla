----------------------- MODULE ConcurrencyRegistryProofs -----------------------
(***************************************************************************)
(* The registry's lock and cap, for every set of processes, runs and calls *)
(* and every cap.  The inductive invariant has a part that always holds    *)
(* (Calls: who is in flight, for which run) and a part that holds until a  *)
(* live lock is removed (Excl, FileOK, SnapOK).                            *)
(***************************************************************************)
EXTENDS ConcurrencyRegistry, FiniteSetTheorems, TLAPS

(* A release that has not yet rewritten the file still has its lease.      *)
Releasing(o) == InFlight(o) /\ pc[o] # "unlock" /\ call[o].kind = "release"

(* Every call under way is a call of a live process for a known run, and   *)
(* no process has two calls, or a call and a handle, for one run.          *)
CallOK ==
  /\ \A o \in Ops : InFlight(o) =>
       /\ call[o] \in Calls
       /\ call[o].pid \in alive
       /\ IF call[o].kind = "capacity" THEN call[o].id = NoId
                                       ELSE call[o].id \in used
  /\ \A o, q \in Ops : InFlight(o) /\ InFlight(q) /\ o # q
       /\ call[o].pid = call[q].pid /\ call[o].id = call[q].id
       => call[o].kind = "capacity"
  /\ \A l \in handles : l.pid \in alive /\ l.id \in used
  /\ \A o \in Ops, l \in handles :
       InFlight(o) => call[o].id # l.id \/ call[o].pid # l.pid
  /\ \A o \in Ops : InFlight(o) /\ outcome[o] = "granted"
       => call[o].kind \in {"claim", "adopt"}
  /\ \A o \in Ops : ~InFlight(o) => outcome[o] = "none"
  /\ lock \in Ops => pc[lock] \in Locked

Excl == \A o \in Ops : pc[o] \in Locked => lock = o

(* What the file, or a copy about to be written, must satisfy.             *)
GoodLeases(S) ==
  /\ IsFiniteSet(S)
  /\ Cardinality(S) <= Limit
  /\ handles \subseteq S
  /\ \A l, m \in S : l.id = m.id => l = m

FileOK ==
  /\ GoodLeases(file)
  /\ \A o \in Ops : Releasing(o) => Lease(call[o]) \in file
  /\ \A o \in Ops : pc[o] = "unlock" /\ outcome[o] = "granted"
       => Lease(call[o]) \in file

SnapOK == \A o \in Ops : pc[o] = "write" =>
  /\ GoodLeases(snap[o])
  /\ \A q \in Ops : q # o /\ Releasing(q) => Lease(call[q]) \in snap[o]
  /\ outcome[o] = "granted" => Lease(call[o]) \in snap[o]

Guarded == broken \/ (Excl /\ FileOK /\ SnapOK)

IInv == TypeOK /\ CallOK /\ Guarded

------------------------------------------------------------------------------
(* A subset of good leases that keeps the handles is good.                 *)
LEMMA SubsetGood ==
  ASSUME NEW S, NEW T, GoodLeases(S), T \subseteq S, handles \subseteq T, TypeOK
  PROVE  GoodLeases(T)
<1>1. IsFiniteSet(T) /\ Cardinality(T) <= Cardinality(S)
  BY FS_Subset DEF GoodLeases
<1>2. Cardinality(T) \in Nat /\ Cardinality(S) \in Nat /\ Limit \in Nat
  BY <1>1, FS_CardinalityType, RegistryAssumption DEF GoodLeases
<1> QED
  BY <1>1, <1>2 DEF GoodLeases

(* The initial state satisfies the invariant.                              *)
LEMMA InitIInv == Init => IInv
<1> SUFFICES ASSUME Init PROVE IInv
  OBVIOUS
<1>1. IsFiniteSet({}) /\ Cardinality({}) = 0
  BY FS_EmptySet
<1>2. Limit \in Nat /\ 0 <= Limit
  BY RegistryAssumption
<1>3. TypeOK
  BY RegistryAssumption DEF Init, TypeOK, Outcomes
<1>4. CallOK
  BY RegistryAssumption DEF Init, CallOK, InFlight
<1>5. Excl /\ FileOK /\ SnapOK
  BY <1>1, <1>2 DEF Init, Excl, FileOK, SnapOK, GoodLeases, Releasing, InFlight, Locked
<1> QED
  BY <1>3, <1>4, <1>5 DEF IInv, Guarded

------------------------------------------------------------------------------
(* A call that names a run has a lease of the right type. *)
LEMMA LeaseOfCall ==
  ASSUME TypeOK, CallOK, NEW o \in Ops, InFlight(o), call[o].kind # "capacity"
  PROVE  Lease(call[o]) \in Leases /\ call[o].pid \in alive /\ call[o].id \in used
BY DEF TypeOK, CallOK, Lease, Leases, Calls

(* Types are preserved by every step. *)
LEMMA TypeStep == TypeOK /\ CallOK /\ [Next]_vars => TypeOK'
<1> SUFFICES ASSUME TypeOK, CallOK, [Next]_vars PROVE TypeOK'
  OBVIOUS
<1> USE DEF TypeOK, Waiting, Locked, Outcomes
<1>1. ASSUME NEW o \in Ops, NEW p \in Procs, NEW i \in Ids,
             Claim(o, p, i) \/ Adopt(o, p, i)
      PROVE  TypeOK'
  <2>1. [kind |-> "claim", id |-> i, pid |-> p] \in Calls
        /\ [kind |-> "adopt", id |-> i, pid |-> p] \in Calls
    BY DEF Calls, Kinds
  <2> QED
    BY <1>1, <2>1 DEF Claim, Adopt, Enter
<1>2. ASSUME NEW o \in Ops, NEW l \in Leases, Release(o, l)
      PROVE  TypeOK'
  <2>1. [kind |-> "release", id |-> l.id, pid |-> l.pid] \in Calls
    BY DEF Calls, Kinds, Leases
  <2> QED
    BY <1>2, <2>1 DEF Release, Enter
<1>3. ASSUME NEW o \in Ops, NEW p \in Procs, Capacity(o, p)
      PROVE  TypeOK'
  <2>1. [kind |-> "capacity", id |-> NoId, pid |-> p] \in Calls
    BY DEF Calls, Kinds
  <2> QED
    BY <1>3, <2>1 DEF Capacity, Enter
<1>4. ASSUME NEW o \in Ops, MkdirOk(o) \/ MkdirExists(o) \/ Steal(o) \/ Expire(o)
      PROVE  TypeOK'
  BY <1>4 DEF MkdirOk, MkdirExists, Steal, Expire
<1>5. ASSUME NEW o \in Ops, Stat(o)
      PROVE  TypeOK'
  <2>1. CASE Leave({o})
    BY <1>5, <2>1 DEF Stat, Leave
  <2>2. CASE pc' \in {[pc EXCEPT ![o] = "mkdir"], [pc EXCEPT ![o] = "steal"]}
             /\ UNCHANGED <<call, snap, expired, outcome>>
    BY <1>5, <2>2 DEF Stat
  <2> QED
    BY <1>5, <2>1, <2>2 DEF Stat
<1>6. ASSUME NEW o \in Ops, Read(o)
      PROVE  TypeOK'
  <2>1. CASE call[o].kind \in {"claim", "adopt"} /\ ReadClaim(o, call[o])
    <3>1. Lease(call[o]) \in Leases
      BY <1>6, <2>1, LeaseOfCall DEF Read, InFlight
    <3> QED
      BY <1>6, <2>1, <3>1 DEF Read, ReadClaim, LiveLeases
  <2>2. CASE call[o].kind \in {"release", "capacity"} /\ ReadOther(o, call[o])
    BY <1>6, <2>2 DEF Read, ReadOther, LiveLeases
  <2> QED
    BY <1>6, <2>1, <2>2 DEF Read
<1>7. ASSUME NEW o \in Ops, Write(o)
      PROVE  TypeOK'
  BY <1>7 DEF Write
<1>8. ASSUME NEW o \in Ops, Unlock(o)
      PROVE  TypeOK'
  <2>1. outcome[o] = "granted" => Lease(call[o]) \in Leases
    BY <1>8, LeaseOfCall DEF Unlock, InFlight, CallOK
  <2> QED
    BY <1>8, <2>1 DEF Unlock, Leave
<1>9. ASSUME NEW l \in Leases, Forget(l)
      PROVE  TypeOK'
  BY <1>9 DEF Forget
<1>10. ASSUME NEW p \in Procs, Crash(p)
       PROVE  TypeOK'
  BY <1>10 DEF Crash, Leave, CallsOf
<1>11. CASE Age
  BY <1>11 DEF Age
<1>12. CASE UNCHANGED vars
  BY <1>12 DEF vars
<1> QED
  BY <1>1, <1>2, <1>3, <1>4, <1>5, <1>6, <1>7, <1>8, <1>9, <1>10, <1>11, <1>12
  DEF Next, Begin, Step

------------------------------------------------------------------------------
(* Who is in flight, and for which run, stays consistent. *)
LEMMA CallStep == TypeOK /\ CallOK /\ [Next]_vars => CallOK'
<1> SUFFICES ASSUME TypeOK, CallOK, [Next]_vars PROVE CallOK'
  OBVIOUS
<1> USE DEF TypeOK, CallOK, InFlight, Waiting, Locked
<1>1. ASSUME NEW o \in Ops, NEW p \in Procs, NEW i \in Ids, Claim(o, p, i)
      PROVE  CallOK'
  <2>1. [kind |-> "claim", id |-> i, pid |-> p] \in Calls
    BY DEF Calls, Kinds
  <2> QED
    BY <1>1, <2>1, RegistryAssumption DEF Claim, Enter
<1>2. ASSUME NEW o \in Ops, NEW p \in Procs, NEW i \in Ids, Adopt(o, p, i)
      PROVE  CallOK'
  <2>1. [kind |-> "adopt", id |-> i, pid |-> p] \in Calls
    BY DEF Calls, Kinds
  <2> QED
    BY <1>2, <2>1, RegistryAssumption DEF Adopt, Enter, Leases
<1>3. ASSUME NEW o \in Ops, NEW l \in Leases, Release(o, l)
      PROVE  CallOK'
  <2>1. [kind |-> "release", id |-> l.id, pid |-> l.pid] \in Calls
    BY DEF Calls, Kinds, Leases
  <2> QED
    BY <1>3, <2>1, RegistryAssumption DEF Release, Enter, Leases
<1>4. ASSUME NEW o \in Ops, NEW p \in Procs, Capacity(o, p)
      PROVE  CallOK'
  <2>1. [kind |-> "capacity", id |-> NoId, pid |-> p] \in Calls
    BY DEF Calls, Kinds
  <2> QED
    BY <1>4, <2>1, RegistryAssumption DEF Capacity, Enter, Leases
<1>5. ASSUME NEW o \in Ops, MkdirOk(o) \/ MkdirExists(o) \/ Steal(o) \/ Expire(o)
      PROVE  CallOK'
  BY <1>5, RegistryAssumption DEF MkdirOk, MkdirExists, Steal, Expire
<1>6. ASSUME NEW o \in Ops, Stat(o)
      PROVE  CallOK'
  <2>1. CASE Leave({o})
    BY <1>6, <2>1 DEF Stat, Leave
  <2>2. CASE pc' \in {[pc EXCEPT ![o] = "mkdir"], [pc EXCEPT ![o] = "steal"]}
             /\ UNCHANGED <<call, snap, expired, outcome>>
    BY <1>6, <2>2 DEF Stat
  <2> QED
    BY <1>6, <2>1, <2>2 DEF Stat
<1>7. ASSUME NEW o \in Ops, Read(o)
      PROVE  CallOK'
  BY <1>7 DEF Read, ReadClaim, ReadOther
<1>8. ASSUME NEW o \in Ops, Write(o)
      PROVE  CallOK'
  BY <1>8 DEF Write
<1>9. ASSUME NEW o \in Ops, Unlock(o)
      PROVE  CallOK'
  BY <1>9, LeaseOfCall, RegistryAssumption DEF Unlock, Leave, Lease
<1>10. ASSUME NEW l \in Leases, Forget(l)
       PROVE  CallOK'
  BY <1>10 DEF Forget
<1>11. ASSUME NEW p \in Procs, Crash(p)
       PROVE  CallOK'
  BY <1>11, RegistryAssumption DEF Crash, Leave, CallsOf
<1>12. CASE Age
  BY <1>12 DEF Age
<1>13. CASE UNCHANGED vars
  BY <1>13 DEF vars
<1> QED
  BY <1>1, <1>2, <1>3, <1>4, <1>5, <1>6, <1>7, <1>8, <1>9, <1>10, <1>11, <1>12,
     <1>13 DEF Next, Begin, Step

------------------------------------------------------------------------------
(* The lock and the file stay consistent until a live lock is removed. *)
LEMMA GuardedStep == IInv /\ [Next]_vars => Guarded'
<1> SUFFICES ASSUME TypeOK, CallOK, Excl, FileOK, SnapOK, ~broken, ~broken',
                    TypeOK', CallOK', [Next]_vars
             PROVE  (Excl /\ FileOK /\ SnapOK)'
  <2>1. ASSUME broken, [Next]_vars PROVE broken'
    BY ZenonT(30), <2>1 DEF Next, Begin, Step, vars, Claim, Adopt, Release, Capacity, Enter,
       MkdirOk, MkdirExists, Stat, Steal, Read, Write, Unlock, Expire, Forget,
       Crash, Age
  <2> QED
    BY <2>1, TypeStep, CallStep DEF IInv, Guarded
<1>2. ASSUME NEW o \in Ops,
             \/ \E p \in Procs, i \in Ids : Claim(o, p, i) \/ Adopt(o, p, i)
             \/ \E p \in Procs : Capacity(o, p)
      PROVE  (Excl /\ FileOK /\ SnapOK)'
  <2>1. PICK c : Enter(o, c) /\ c.kind # "release" /\ UNCHANGED handles
    BY <1>2 DEF Claim, Adopt, Capacity
  <2>2. /\ UNCHANGED <<file, lock, snap, handles, outcome>>
        /\ pc[o] = "idle" /\ pc' = [pc EXCEPT ![o] = "mkdir"]
        /\ call' = [call EXCEPT ![o] = c]
    BY <2>1 DEF Enter
  <2>3. \A q \in Ops : /\ Releasing(q)' => Releasing(q) /\ q # o
                       /\ pc'[q] \in Locked => q # o /\ pc'[q] = pc[q]
    BY <2>1, <2>2 DEF Releasing, InFlight, TypeOK, Locked
  <2>4. \A q \in Ops : q # o => call'[q] = call[q]
    BY <2>2 DEF TypeOK
  <2>5. Excl'
    BY <2>2, <2>3 DEF Excl
  <2>6. FileOK'
    BY <2>2, <2>3, <2>4 DEF FileOK, GoodLeases, Lease, Locked
  <2>7. SnapOK'
    BY <2>2, <2>3, <2>4 DEF SnapOK, GoodLeases, Lease, Locked
  <2> QED
    BY <2>5, <2>6, <2>7
<1>3. ASSUME NEW o \in Ops, NEW l \in Leases, Release(o, l)
      PROVE  (Excl /\ FileOK /\ SnapOK)'
  <2> USE <1>3 DEF Release, Enter, TypeOK, Locked
  <2>0. l = [id |-> l.id, pid |-> l.pid] /\ l \in file
    BY DEF Leases, FileOK, GoodLeases
  <2>1. Excl'
    BY DEF Excl
  <2>2. FileOK'
    BY <2>0 DEF FileOK, GoodLeases, Releasing, InFlight, Lease
  <2>3. SnapOK'
    BY SMTT(20), <2>0 DEF SnapOK, GoodLeases, Releasing, InFlight, Lease
  <2> QED
    BY <2>1, <2>2, <2>3
<1>4. ASSUME NEW o \in Ops, MkdirOk(o) \/ MkdirExists(o) \/ Steal(o) \/ Expire(o)
      PROVE  (Excl /\ FileOK /\ SnapOK)'
  <2> USE <1>4, RegistryAssumption
      DEF MkdirOk, MkdirExists, Steal, Expire, TypeOK, Locked, Waiting
  <2>1. Excl'
    BY DEF Excl
  <2>2. FileOK'
    BY DEF FileOK, GoodLeases, Releasing, InFlight, Lease
  <2>3. SnapOK'
    BY DEF SnapOK, GoodLeases, Releasing, InFlight, Lease
  <2> QED
    BY <2>1, <2>2, <2>3
<1>5. ASSUME NEW o \in Ops, Stat(o)
      PROVE  (Excl /\ FileOK /\ SnapOK)'
  <2>1. CASE Leave({o})
    <3> USE <1>5, <2>1 DEF Stat, Leave, TypeOK, Locked
    <3>1. Excl'
      BY DEF Excl
    <3>2. FileOK'
      BY DEF FileOK, GoodLeases, Releasing, InFlight, Lease
    <3>3. SnapOK'
      BY DEF SnapOK, GoodLeases, Releasing, InFlight, Lease
    <3> QED
      BY <3>1, <3>2, <3>3
  <2>2. CASE pc' \in {[pc EXCEPT ![o] = "mkdir"], [pc EXCEPT ![o] = "steal"]}
             /\ UNCHANGED <<call, snap, expired, outcome>>
    <3> USE <1>5, <2>2 DEF Stat, TypeOK, Locked
    <3>1. Excl'
      BY DEF Excl
    <3>2. FileOK'
      BY DEF FileOK, GoodLeases, Releasing, InFlight, Lease
    <3>3. SnapOK'
      BY DEF SnapOK, GoodLeases, Releasing, InFlight, Lease
    <3> QED
      BY <3>1, <3>2, <3>3
  <2> QED
    BY <1>5, <2>1, <2>2 DEF Stat
<1>6. ASSUME NEW o \in Ops, Write(o)
      PROVE  (Excl /\ FileOK /\ SnapOK)'
  <2>1. /\ pc[o] = "write" /\ pc' = [pc EXCEPT ![o] = "unlock"]
        /\ file' = snap[o] /\ UNCHANGED <<lock, snap, call, outcome, handles>>
    BY <1>6 DEF Write
  <2>2. \A q \in Ops : pc[q] \in Locked => q = o
    BY <2>1 DEF Excl, Locked
  <2>3. \A q \in Ops : /\ pc'[q] \in Locked => q = o /\ pc'[q] = "unlock"
                       /\ Releasing(q)' => Releasing(q) /\ q # o
    BY <2>1, <2>2 DEF Releasing, InFlight, TypeOK, Locked
  <2>4. Excl'
    BY <2>1, <2>3 DEF Excl, Locked
  <2>5. GoodLeases(file)'
    BY <2>1 DEF SnapOK, GoodLeases
  <2>6. FileOK'
    BY <2>1, <2>3, <2>5 DEF FileOK, SnapOK, Lease, Locked
  <2>7. SnapOK'
    BY <2>3 DEF SnapOK, Locked
  <2> QED
    BY <2>4, <2>6, <2>7
<1>7. ASSUME NEW l \in Leases, Forget(l)
      PROVE  (Excl /\ FileOK /\ SnapOK)'
  <2> USE <1>7 DEF Forget, TypeOK
  <2>1. Excl'
    BY DEF Excl
  <2>2. FileOK'
    BY DEF FileOK, GoodLeases, Releasing, InFlight, Lease
  <2>3. SnapOK'
    BY DEF SnapOK, GoodLeases, Releasing, InFlight, Lease
  <2> QED
    BY <2>1, <2>2, <2>3
<1>8. ASSUME NEW p \in Procs, Crash(p)
      PROVE  (Excl /\ FileOK /\ SnapOK)'
  <2> USE <1>8 DEF Crash, Leave, CallsOf, InFlight, TypeOK, Locked
  <2>1. Excl'
    BY DEF Excl
  <2>2. FileOK'
    BY DEF FileOK, GoodLeases, Releasing, Lease
  <2>3. SnapOK'
    BY DEF SnapOK, GoodLeases, Releasing, Lease
  <2> QED
    BY <2>1, <2>2, <2>3
<1>9. CASE Age \/ UNCHANGED vars
  <2> USE <1>9 DEF Age, vars
  <2>1. Excl'
    BY DEF Excl
  <2>2. FileOK'
    BY DEF FileOK, GoodLeases, Releasing, InFlight, Lease
  <2>3. SnapOK'
    BY DEF SnapOK, GoodLeases, Releasing, InFlight, Lease
  <2> QED
    BY <2>1, <2>2, <2>3
<1>10. ASSUME NEW o \in Ops, Unlock(o)
       PROVE  (Excl /\ FileOK /\ SnapOK)'
  <2> USE <1>10 DEF Unlock, Leave, TypeOK, Locked
  <2>0. handles' \subseteq file /\ \A q \in Ops : pc[q] \in Locked => q = o
    BY DEF FileOK, GoodLeases, Excl
  <2>1. Excl'
    BY <2>0 DEF Excl
  <2>2. FileOK'
    BY <2>0 DEF FileOK, GoodLeases, Releasing, InFlight, Lease
  <2>3. SnapOK'
    BY <2>0 DEF SnapOK
  <2> QED
    BY <2>1, <2>2, <2>3
<1>11. ASSUME NEW o \in Ops, Read(o)
       PROVE  (Excl /\ FileOK /\ SnapOK)'
  <2>1. \A q \in Ops : pc[q] \in Locked => q = o
    BY <1>11 DEF Read, Excl, Locked
  <2>2. Excl'
    BY <1>11 DEF Read, ReadClaim, ReadOther, Excl, TypeOK, Locked
  <2>3. CASE call[o].kind \in {"claim", "adopt"} /\ ReadClaim(o, call[o])
    <3>1. InFlight(o) /\ Lease(call[o]) \in Leases
      BY <1>11, <2>3, LeaseOfCall DEF Read, InFlight
    <3>2. LiveLeases \subseteq file /\ handles \subseteq LiveLeases
          /\ \A q \in Ops : q # o /\ Releasing(q) => Lease(call[q]) \in LiveLeases
      BY LeaseOfCall DEF LiveLeases, FileOK, GoodLeases, Releasing, CallOK, Lease
    <3>3. FileOK'
      BY <1>11, <2>3, <3>2 DEF Read, ReadClaim, FileOK, GoodLeases, Releasing,
         InFlight, TypeOK, Lease
    <3>4. GoodLeases(LiveLeases)
      BY <3>2, SubsetGood DEF FileOK
    <3>5. CASE pc' = [pc EXCEPT ![o] = "unlock"]
      <4>1. \A q \in Ops : pc'[q] # "write"
        BY <2>1, <3>5 DEF TypeOK, Locked
      <4> QED
        BY <2>2, <3>3, <4>1 DEF SnapOK
    <3>6. CASE /\ ~HasLease(LiveLeases, call[o].id)
               /\ Cardinality(LiveLeases) < Limit
               /\ outcome' = [outcome EXCEPT ![o] = "granted"]
               /\ snap' = [snap EXCEPT ![o] = LiveLeases \cup {Lease(call[o])}]
               /\ pc' = [pc EXCEPT ![o] = "write"]
      <4>1. /\ IsFiniteSet(LiveLeases \cup {Lease(call[o])})
            /\ Cardinality(LiveLeases \cup {Lease(call[o])}) <= Limit
        <5>1. Cardinality(LiveLeases) \in Nat /\ Limit \in Nat
          BY <3>4, FS_CardinalityType, RegistryAssumption DEF GoodLeases
        <5>2. /\ IsFiniteSet(LiveLeases \cup {Lease(call[o])})
              /\ \/ Cardinality(LiveLeases \cup {Lease(call[o])}) = Cardinality(LiveLeases)
                 \/ Cardinality(LiveLeases \cup {Lease(call[o])}) = Cardinality(LiveLeases) + 1
          BY <3>4, FS_AddElement DEF GoodLeases
        <5> QED
          BY <3>6, <5>1, <5>2
      <4>2. \A l, m \in LiveLeases \cup {Lease(call[o])} : l.id = m.id => l = m
        BY <3>4, <3>6 DEF GoodLeases, HasLease, Lease
      <4>3. snap'[o] = LiveLeases \cup {Lease(call[o])} /\ UNCHANGED <<handles, call>>
        BY <1>11, <3>6 DEF Read, TypeOK
      <4>4. \A q \in Ops : pc'[q] = "write" => q = o
        BY <2>1, <3>6 DEF TypeOK, Locked
      <4>5. \A q \in Ops : q # o /\ Releasing(q)' => Releasing(q)
        BY <3>6, <4>3 DEF Releasing, InFlight, TypeOK
      <4>6. GoodLeases(snap[o])'
        BY <3>2, <4>1, <4>2, <4>3 DEF GoodLeases
      <4>7. \A q \in Ops : q # o /\ Releasing(q)' => Lease(call[q])' \in snap'[o]
        BY <3>2, <4>3, <4>5 DEF Lease
      <4>8. SnapOK'
        BY <4>3, <4>4, <4>6, <4>7 DEF SnapOK, Lease
      <4> QED
        BY <2>2, <3>3, <4>8
    <3> QED
      BY <2>2, <2>3, <3>3, <3>5, <3>6 DEF ReadClaim
  <2>4. CASE call[o].kind \in {"release", "capacity"} /\ ReadOther(o, call[o])
    <3>1. PICK S : S = snap'[o]
      OBVIOUS
    <3>2. S \subseteq file
      BY <1>11, <2>4, <3>1 DEF Read, ReadOther, LiveLeases, TypeOK
    <3>3. ASSUME NEW l \in file, l.pid \in alive,
                 call[o].kind = "release" => l.id # call[o].id
          PROVE  l \in S
      BY <1>11, <2>4, <3>1, <3>3 DEF Read, ReadOther, LiveLeases, TypeOK
    <3>4. call[o].kind = "release" => /\ Lease(call[o]) \in file
                                      /\ \A l \in file : l.id = call[o].id => l = Lease(call[o])
      BY <1>11 DEF Read, FileOK, GoodLeases, Releasing, InFlight, Lease
    <3>5. handles \subseteq S
      BY <1>11, <3>3, <3>4 DEF FileOK, GoodLeases, CallOK, Read, InFlight, Lease
    <3>6. ASSUME NEW q \in Ops, q # o, Releasing(q)
          PROVE  Lease(call[q]) \in S
      BY <1>11, <3>3, <3>4, <3>6, LeaseOfCall
      DEF FileOK, CallOK, Releasing, Read, InFlight, Lease
    <3>7. GoodLeases(S)
      BY <3>2, <3>5, SubsetGood DEF FileOK
    <3>8. FileOK'
      BY <1>11, <2>4 DEF Read, ReadOther, FileOK, GoodLeases, Releasing,
         InFlight, TypeOK, Lease
    <3>9. SnapOK'
      BY <1>11, <2>1, <2>4, <3>1, <3>6, <3>7 DEF Read, ReadOther, SnapOK,
         GoodLeases, Releasing, InFlight, TypeOK, Locked, Lease
    <3> QED
      BY <2>2, <3>8, <3>9
  <2> QED
    BY <1>11, <2>3, <2>4 DEF Read
<1> QED
  BY <1>2, <1>3, <1>4, <1>5, <1>6, <1>7, <1>8, <1>9, <1>10, <1>11
  DEF Next, Begin, Step

------------------------------------------------------------------------------
(* The invariant of every behaviour of the registry. *)
LEMMA Invariance == Spec => []IInv
<1>1. IInv /\ [Next]_vars => IInv'
  BY TypeStep, CallStep, GuardedStep DEF IInv
<1> QED
  BY InitIInv, <1>1, PTL DEF Spec

(* The variables of the registry keep their types.                         *)
THEOREM TypeCorrect == Spec => []TypeOK
<1>1. IInv => TypeOK
  BY DEF IInv
<1> QED
  BY Invariance, <1>1, PTL

(* withLock is a mutual exclusion lock as long as nobody removes the        *)
(* directory of a live call, however many processes die inside it.         *)
THEOREM MutualExclusion == Spec => []LockExclusion
<1>1. IInv => LockExclusion
  BY DEF IInv, Guarded, Excl, LockExclusion
<1> QED
  BY Invariance, <1>1, PTL

(* Under the same proviso every lease that somebody holds is in the file,  *)
(* the file names no run twice, and the leases held never exceed the cap.  *)
THEOREM LeasesSafe ==
  Spec => [](HeldWithinLimit /\ HeldIsRecorded /\ OneLeasePerRun)
<1>1. ASSUME IInv
      PROVE  HeldWithinLimit /\ HeldIsRecorded /\ OneLeasePerRun
  <2>1. CASE broken
    BY <2>1 DEF HeldWithinLimit, HeldIsRecorded, OneLeasePerRun
  <2>2. CASE GoodLeases(file)
    <3>1. IsFiniteSet(handles) /\ Cardinality(handles) <= Cardinality(file)
      BY <2>2, FS_Subset DEF GoodLeases
    <3>2. /\ Cardinality(handles) \in Nat /\ Cardinality(file) \in Nat
          /\ Limit \in Nat /\ Cardinality(file) <= Limit
      BY <2>2, <3>1, FS_CardinalityType, RegistryAssumption DEF GoodLeases
    <3>3. Cardinality(handles) <= Limit
      BY <3>1, <3>2
    <3> QED
      BY <2>2, <3>3 DEF GoodLeases, HeldWithinLimit, HeldIsRecorded, OneLeasePerRun
  <2> QED
    BY <1>1, <2>1, <2>2 DEF IInv, Guarded, FileOK
<1> QED
  BY Invariance, <1>1, PTL

------------------------------------------------------------------------------
(* With no stalled holder and no death, no lock is ever found stale.       *)
Calm == SlowProcs = {} /\ alive = Procs =>
  /\ ~stale /\ ~broken /\ lock # Orphan
  /\ \A o \in Ops : pc[o] # "steal"

(* The lock of a live call is removed only after a process has stalled in  *)
(* the critical section or died: otherwise the cap needs no proviso.       *)
THEOREM BreakNeedsFault == Spec => []BrokenOnlyByFault
<1>1. Init => Calm
  BY RegistryAssumption DEF Init, Calm
<1>2. IInv /\ Calm /\ [Next]_vars => Calm'
  <2> SUFFICES ASSUME IInv, Calm, [Next]_vars, SlowProcs = {}, alive' = Procs
               PROVE  /\ ~stale' /\ ~broken' /\ lock' # Orphan
                      /\ \A o \in Ops : pc'[o] # "steal"
    BY DEF Calm
  <2> USE DEF TypeOK, Locked
  <2>1. TypeOK /\ CallOK
    BY DEF IInv
  <2>2. \A p \in Procs : ~Crash(p)
    BY <2>1 DEF Crash
  <2>3. alive = Procs
    BY ZenonT(30), <2>2 DEF Next, Begin, Step, vars, Claim, Adopt, Release, Capacity, Enter,
       MkdirOk, MkdirExists, Stat, Steal, Read, Write, Unlock, Expire, Forget, Age
  <2>4. /\ ~stale /\ ~broken /\ lock # Orphan
        /\ \A o \in Ops : pc[o] # "steal"
        /\ Excl
    BY <2>3 DEF Calm, IInv, Guarded
  <2>5. ~Age /\ \A o \in Ops : ~Steal(o)
    BY <2>4 DEF Age, Steal
  <2>6. ASSUME NEW o \in Ops, Begin(o) \/ Expire(o)
        PROVE  /\ ~stale' /\ ~broken' /\ lock' # Orphan
               /\ \A q \in Ops : pc'[q] # "steal"
    <3>1. CASE Expire(o)
      BY <2>4, <3>1 DEF Expire
    <3>2. CASE Begin(o)
      <4>1. PICK c : Enter(o, c)
        BY <3>2 DEF Begin, Claim, Adopt, Release, Capacity
      <4> QED
        BY <2>1, <2>4, <4>1 DEF Enter
    <3> QED
      BY <2>6, <3>1, <3>2
  <2>7. ASSUME NEW o \in Ops, Step(o)
        PROVE  /\ ~stale' /\ ~broken' /\ lock' # Orphan
               /\ \A q \in Ops : pc'[q] # "steal"
    <3>1. CASE Stat(o)
      BY ZenonT(30), <2>1, <2>4, <3>1 DEF Stat, Leave
    <3>2. CASE Read(o)
      BY <2>1, <2>4, <3>2 DEF Read, ReadClaim, ReadOther
    <3>3. CASE Unlock(o)
      BY <2>1, <2>4, <3>3, RegistryAssumption DEF Unlock, Leave, Excl
    <3>4. CASE MkdirOk(o) \/ MkdirExists(o) \/ Write(o)
      BY <2>1, <2>4, <3>4, RegistryAssumption DEF MkdirOk, MkdirExists, Write
    <3> QED
      BY <2>5, <2>7, <3>1, <3>2, <3>3, <3>4 DEF Step
  <2>8. ASSUME (\E l \in Leases : Forget(l)) \/ UNCHANGED vars
        PROVE  /\ ~stale' /\ ~broken' /\ lock' # Orphan
               /\ \A q \in Ops : pc'[q] # "steal"
    BY <2>4, <2>8 DEF Forget, vars
  <2> QED
    BY <2>2, <2>5, <2>6, <2>7, <2>8 DEF Next
<1>3. Calm => BrokenOnlyByFault
  BY DEF Calm, BrokenOnlyByFault
<1> QED
  BY Invariance, <1>1, <1>2, <1>3, PTL DEF Spec

(* A call leaves no lock behind, however it ends and also after a steal: a *)
(* lock is a call's that is between taking it and giving it back, or was   *)
(* left by a process that died. What CallsEnd waits for can thus go on.    *)
THEOREM LockIsOwned == Spec => [](lock \in Ops => pc[lock] \in Locked)
<1>1. IInv => (lock \in Ops => pc[lock] \in Locked)
  BY DEF IInv, CallOK
<1> QED
  BY Invariance, <1>1, PTL

=============================================================================
