----------------------------- MODULE AccountVault -----------------------------
(***************************************************************************)
(* The vault of Codex accounts (extensions/codex-accounts/store.ts): every *)
(* read, change and token rotation is a transaction under one lock between *)
(* processes.  A rotation calls the token endpoint while it holds the      *)
(* lock: the endpoint replaces the token that it was shown.  A process may *)
(* be suspended until its lock is stale, or die, in a transaction.         *)
(***************************************************************************)
EXTENDS Naturals, FiniteSets

CONSTANTS
  Sessions,       \* the processes
  Accounts,
  MaxOperations,  \* bound: transactions
  MaxSuspensions, \* bound: suspensions and deaths in a transaction
  NoAccount

VARIABLES
  vault,       \* accounts.json
  tokens,      \* the refresh token the endpoint accepts, per account
  unsaved,     \* accounts whose token an exchange or a save lost that failed
  txn,         \* the transaction of each process
  holder,      \* who made the lock directory, NoAccount if there is none
  operations, suspensions,
  overrun      \* a save by a process that had not noticed its lock was lost

vaultVars == <<vault, tokens, unsaved, txn, holder, operations, suspensions, overrun>>

(* token: 0 if the account is not stored *)
Contents == [token : [Accounts -> Nat], default : Accounts \cup {NoAccount}]
Empty == [token |-> [a \in Accounts |-> 0], default |-> NoAccount]
Operation == {"add", "remove", "default", "clear", "rotate", "list"}

Idle == [stage |-> "idle", op |-> "list", account |-> NoAccount, base |-> Empty,
         state |-> Empty, cancelled |-> FALSE, compromised |-> FALSE]

Init ==
  /\ vault = Empty /\ tokens = [a \in Accounts |-> 0] /\ unsaved = {}
  /\ txn = [s \in Sessions |-> Idle] /\ holder = NoAccount
  /\ operations = 0 /\ suspensions = 0 /\ overrun = FALSE

Stored(c) == {a \in Accounts : c.token[a] # 0}

(* A login has been given a token of its own before it is added. *)
Begin(s, op, a) ==
  /\ txn[s].stage = "idle" /\ operations < MaxOperations
  /\ operations' = operations + 1
  /\ txn' = [txn EXCEPT ![s] = [Idle EXCEPT !.stage = "locking", !.op = op, !.account = a]]
  /\ UNCHANGED <<vault, tokens, unsaved, holder, suspensions, overrun>>

(* lockfile.lock *)
Acquire(s) ==
  /\ txn[s].stage = "locking" /\ holder = NoAccount
  /\ holder' = s
  /\ txn' = [txn EXCEPT ![s].stage = "reading"]
  /\ UNCHANGED <<vault, tokens, unsaved, operations, suspensions, overrun>>

(* The retries are used up, or the caller cancelled. *)
GiveUp(s) ==
  /\ txn[s].stage = "locking"
  /\ txn' = [txn EXCEPT ![s] = Idle]
  /\ UNCHANGED <<vault, tokens, unsaved, holder, operations, suspensions, overrun>>

Refuse(s) == txn' = [txn EXCEPT ![s].stage = "releasing"]

(* A caller who has cancelled, or a file that cannot be read, ends it here.  *)
ReadVault(s) ==
  /\ txn[s].stage = "reading"
  /\ \/ txn' = [txn EXCEPT ![s].stage = "working", ![s].base = vault, ![s].state = vault]
     \/ Refuse(s)
  /\ UNCHANGED <<vault, tokens, unsaved, holder, operations, suspensions, overrun>>

Removed(c, a) ==
  [c EXCEPT !.token[a] = 0, !.default = IF @ = a THEN NoAccount ELSE @]

Ready(s, op) == txn[s].stage = "working" /\ txn[s].op = op
Apply(s, state) == txn' = [txn EXCEPT ![s].stage = "saving", ![s].state = state]

(* add; the token is that of a login that has just ended *)
Add(s) ==
  LET t == txn[s] IN
  /\ Ready(s, "add")
  /\ IF t.account \in Stored(t.state) THEN Refuse(s) /\ UNCHANGED tokens
     ELSE /\ tokens' = [tokens EXCEPT ![t.account] = @ + 1]
          /\ Apply(s, [t.state EXCEPT !.token[t.account] = tokens[t.account] + 1])
  /\ UNCHANGED <<vault, unsaved, holder, operations, suspensions, overrun>>

(* remove, setDefaultAccount and list *)
Edit(s) ==
  LET t == txn[s] IN
  /\ \/ Ready(s, "remove") /\ Apply(s, Removed(t.state, t.account))
     \/ Ready(s, "clear") /\ Apply(s, [t.state EXCEPT !.default = NoAccount])
     \/ /\ Ready(s, "default") /\ t.account \in Stored(t.state)
        /\ Apply(s, [t.state EXCEPT !.default = t.account])
     \/ Ready(s, "default") /\ t.account \notin Stored(t.state) /\ Refuse(s)
     \/ Ready(s, "list") /\ Refuse(s)
  /\ UNCHANGED <<vault, tokens, unsaved, holder, operations, suspensions, overrun>>

(* modify: a token that still holds, an account that is gone and an exchange *)
(* that fails are not saved.  The endpoint replaces the token it accepts,   *)
(* and refuses others; its answer may be lost or refused, and the call of a  *)
(* caller who cancelled may have succeeded.                                *)
Rotate(s) ==
  LET t == txn[s]  a == txn[s].account IN
  /\ Ready(s, "rotate")
  /\ \/ Refuse(s) /\ UNCHANGED <<tokens, unsaved>>
     \/ /\ a \in Stored(t.state) /\ t.state.token[a] = tokens[a]
        /\ tokens' = [tokens EXCEPT ![a] = @ + 1]
        /\ \/ Refuse(s) /\ unsaved' = unsaved \cup {a}
           \/ /\ \E cancelled \in BOOLEAN :
                   txn' = [txn EXCEPT ![s].stage = "saving", ![s].cancelled = cancelled,
                             ![s].state.token[a] = tokens[a] + 1]
              /\ UNCHANGED unsaved
  /\ UNCHANGED <<vault, holder, operations, suspensions, overrun>>

(* Mutant: nothing is saved for a caller who cancelled. *)
MaySaveUncancelled(t) == ~t.compromised /\ ~t.cancelled

(* "Persist it even if the caller cancelled"; not without the lock. *)
MaySave(t) == ~t.compromised

(* Accounts whose token is only in what is to be saved *)
OnlyIn(c) == {a \in Accounts : c.token[a] = tokens[a] /\ vault.token[a] # tokens[a]}

(* The file is replaced by a renamed one, unless that fails. *)
SaveVault(s) ==
  LET t == txn[s] IN
  /\ t.stage = "saving" /\ Refuse(s)
  /\ \/ /\ vault' = IF MaySave(t) THEN t.state ELSE vault
        /\ unsaved' = {a \in unsaved : vault'.token[a] # tokens[a]}
        /\ overrun' = (overrun \/ (holder # s /\ ~t.compromised))
     \/ unsaved' = unsaved \cup OnlyIn(t.state) /\ UNCHANGED <<vault, overrun>>
  /\ UNCHANGED <<tokens, holder, operations, suspensions>>

Release(s) ==
  /\ txn[s].stage = "releasing"
  /\ holder' = IF holder = s THEN NoAccount ELSE holder
  /\ txn' = [txn EXCEPT ![s] = Idle]
  /\ UNCHANGED <<vault, tokens, unsaved, operations, suspensions, overrun>>

Interrupt == suspensions < MaxSuspensions /\ suspensions' = suspensions + 1
InLock(s) == txn[s].stage \in {"reading", "working", "saving", "releasing"}

(* After 30 seconds without a sign of the holder the lock is anybody's. *)
Suspend(s) ==
  /\ InLock(s) /\ holder = s /\ Interrupt
  /\ holder' = NoAccount
  /\ UNCHANGED <<vault, tokens, unsaved, txn, operations, overrun>>

(* onCompromised, some time after the process went on *)
Notice(s) ==
  /\ InLock(s) /\ holder # s /\ ~txn[s].compromised
  /\ txn' = [txn EXCEPT ![s].compromised = TRUE]
  /\ UNCHANGED <<vault, tokens, unsaved, holder, operations, suspensions, overrun>>

Die(s) ==
  /\ InLock(s) /\ Interrupt
  /\ txn' = [txn EXCEPT ![s] = Idle]
  /\ holder' = IF holder = s THEN NoAccount ELSE holder
  /\ UNCHANGED <<vault, tokens, unsaved, operations, overrun>>

Next ==
  \E s \in Sessions :
    \/ \E op \in Operation, a \in Accounts : Begin(s, op, a)
    \/ Acquire(s) \/ GiveUp(s) \/ ReadVault(s) \/ Add(s) \/ Edit(s) \/ Rotate(s)
    \/ SaveVault(s) \/ Release(s) \/ Suspend(s) \/ Notice(s) \/ Die(s)

Spec == Init /\ [][Next]_vaultVars

------------------------------------------------------------------------------
TypeOK ==
  /\ vault \in Contents /\ tokens \in [Accounts -> Nat] /\ unsaved \subseteq Accounts
  /\ holder \in Sessions \cup {NoAccount} /\ overrun \in BOOLEAN
  /\ \A s \in Sessions :
       /\ txn[s].op \in Operation /\ {txn[s].base, txn[s].state} \subseteq Contents
       /\ txn[s].stage \in {"idle", "locking", "reading", "working", "saving", "releasing"}

(* The vault keeps the token that the endpoint has rotated to, also when the *)
(* caller cancelled meanwhile (store.ts, 112-113).  It is lost only if the   *)
(* answer of the endpoint was, if the file could not be written, or if the   *)
(* process died or was suspended between the exchange and the save.         *)
TokensLive ==
  suspensions = 0 =>
    \A a \in Stored(vault) \ unsaved :
      \/ vault.token[a] = tokens[a]
      \/ \E s \in Sessions : txn[s].stage = "saving" /\ txn[s].state.token[a] = tokens[a]

(* A save undoes no change of another process, however long its token       *)
(* exchange took: what it replaces is what it has read, or it had lost its  *)
(* lock without noticing (store.ts, 75, 114).                              *)
NothingUndone ==
  [][vault' # vault /\ ~overrun' =>
       \E s \in Sessions : txn[s].stage = "saving" /\ txn[s].base = vault]_vaultVars

(* The default is an account that is there, whoever removes accounts while  *)
(* another process makes one the default (store.ts, 142, 186).             *)
DefaultStored == vault.default = NoAccount \/ vault.default \in Stored(vault)
=============================================================================
