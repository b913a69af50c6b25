------------------------------- MODULE PgRows -------------------------------
(***************************************************************************)
(* What authkit/postgres relies on of Postgres at READ COMMITTED: each     *)
(* statement of a transaction reads the rows committed before it, a write  *)
(* or SELECT ... FOR UPDATE takes its row's lock until the transaction     *)
(* ends, a statement that waited looks at the row again before taking it,  *)
(* a statement over several rows keeps those it has while it waits for the *)
(* next, and nothing a transaction wrote is seen before it commits.        *)
(*                                                                         *)
(* The variables of AccountRows are the committed rows.  The writes of an  *)
(* open transaction are its call, applied by its commit, and the rows it   *)
(* has deleted, in doomed.                                                 *)
(***************************************************************************)
EXTENDS AccountRows

CONSTANTS Tx, NoTx, NoCall

ASSUME TxAssumption == NoTx \notin Tx

\* SELECT ... ORDER BY id takes its locks in the order of the ids.
ASSUME OrderAssumption == Account \subseteq Nat

VARIABLES
    tx,         \* each transaction: where it stands, its call, the rows it has still
                \* to lock, and the session and token rows it has deleted
    lock,       \* the transaction holding each account's row
    keyed,      \* the accounts held FOR UPDATE, which also stops foreign-key checks
    taken,      \* the rows each transaction's DELETE at hand has got hold of so far
    answer      \* what each transaction's last call returned

txVars == <<tx, lock, keyed, taken, answer>>

Idle == [pc |-> "idle", call |-> NoCall, todo |-> {}, doomed |-> {}]

Answer == {"none", "ok", "ErrUserNotFound", "ErrRoleChanged", "ErrLastPrivileged",
           "ErrTokenNotFound", "ErrTokenExists", "error"}

At(x, pc) == tx[x].pc = pc

-----------------------------------------------------------------------------
\* The row of account a is not locked by another transaction.
Free(x, a) == lock[a] \in {NoTx, x}

\* Another transaction has deleted one of the items, or has its lock to delete it, and may
\* still roll back.
Contended(x, items) == \E y \in Tx \ {x} : (tx[y].doomed \cup taken[y]) \cap items # {}

\* The first account, in the order of ids, that x has still to lock.
NextRow(x, a) == a \in tx[x].todo /\ \A b \in tx[x].todo : a <= b

Open(x, call, pc) ==
    /\ At(x, "idle")
    /\ tx' = [tx EXCEPT ![x] = [Idle EXCEPT !.pc = pc, !.call = call]]
    /\ answer' = [answer EXCEPT ![x] = "none"]
    /\ UNCHANGED <<lock, keyed, taken>>

Goto(x, pc) == tx' = [tx EXCEPT ![x].pc = pc]

\* Take the lock of row a and go on at pc.
Update(x, a, pc) ==
    /\ Free(x, a)
    /\ lock' = [lock EXCEPT ![a] = x]
    /\ Goto(x, pc)
    /\ UNCHANGED <<keyed, taken, answer>>

ForUpdate(x, a, pc) ==
    /\ Free(x, a)
    /\ lock' = [lock EXCEPT ![a] = x]
    /\ keyed' = keyed \cup {a}
    /\ Goto(x, pc)
    /\ UNCHANGED <<taken, answer>>

\* A DELETE of the items gets hold of one of them, in no certain order.
TakeRow(x, items) ==
    /\ \E i \in items \ taken[x] :
        /\ ~Contended(x, {i})
        /\ taken' = [taken EXCEPT ![x] = @ \cup {i}]
    /\ UNCHANGED <<rowVars, tx, lock, keyed, answer>>

\* Commit or roll back: every lock is released.
End(x, result) ==
    /\ tx' = [tx EXCEPT ![x] = Idle]
    /\ lock' = [a \in Account |-> IF lock[a] = x THEN NoTx ELSE lock[a]]
    /\ keyed' = {a \in keyed : lock[a] # x}
    /\ taken' = [taken EXCEPT ![x] = {}]
    /\ answer' = [answer EXCEPT ![x] = result]

Rollback(x, result) == End(x, result) /\ UNCHANGED rowVars

\* A lost connection, a cancelled context, or a deadlock Postgres resolved against x.
Fail(x) == ~At(x, "idle") /\ Rollback(x, "error")

-----------------------------------------------------------------------------
\* INSERT INTO auth.users, committed at once.
InsertUser(a, role, password) ==
    /\ ~Known(a)
    /\ users' = [users EXCEPT ![a] = NewRow(role, password)]
    /\ UNCHANGED <<sessions, tokens, minted, clock, txVars>>

\* INSERT INTO auth.sessions, committed at once.  Its foreign key takes the account's row
\* FOR KEY SHARE: that waits for a FOR UPDATE, and not for an UPDATE of other columns.
InsertSession(s) ==
    /\ Known(s.user)
    /\ s.user \notin keyed
    /\ s.hash \notin minted
    /\ sessions' = sessions \cup {s}
    /\ minted' = minted \cup {s.hash}
    /\ UNCHANGED <<users, tokens, clock, txVars>>
=============================================================================
