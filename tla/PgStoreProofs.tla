---------------------------- MODULE PgStoreProofs ---------------------------
(***************************************************************************)
(* Proofs about the Postgres store, for any number of accounts,            *)
(* transactions and calls: that the guarded writes of role.go never take   *)
(* the last cover, and that the whole store, statement by statement, keeps *)
(* its rows right, deadlocks a redemption with no call but a sweep, and    *)
(* implements the serial StoreContract.                                    *)
(***************************************************************************)
EXTENDS PgStore, FiniteSetTheorems, TLAPS

AnyCall == GuardCall \cup GrantCall \cup IssueCall \cup RedeemCall \cup SweepCall \cup PurgeCall
           \cup {NoCall}

StoreRow == [pc : StorePC, call : AnyCall, todo : SUBSET Account,
             doomed : SUBSET (Session \cup Token)]

\* A locked row is there.
LocksOK == \A a \in Account : lock[a] # NoTx => Known(a)

\* The record a step leaves its transaction in.
Placed(x, pc, call, todo, doomed) ==
    tx' = [tx EXCEPT ![x] = [pc |-> pc, call |-> call, todo |-> todo, doomed |-> doomed]]

LEMMA PlacedBy ==
    ASSUME tx \in [Tx -> StoreRow], NEW x \in Tx, NEW pc, NEW call, NEW todo, NEW a, NEW held
    PROVE  /\ Goto(x, pc) => Placed(x, pc, tx[x].call, tx[x].todo, tx[x].doomed)
           /\ tx' = [tx EXCEPT ![x].pc = pc, ![x].todo = todo] =>
                Placed(x, pc, tx[x].call, todo, tx[x].doomed)
           /\ tx' = [tx EXCEPT ![x].todo = @ \ {a}] =>
                Placed(x, tx[x].pc, tx[x].call, tx[x].todo \ {a}, tx[x].doomed)
           /\ tx' = [tx EXCEPT ![x].pc = pc, ![x].doomed = @ \cup held] =>
                Placed(x, pc, tx[x].call, tx[x].todo, tx[x].doomed \cup held)
           /\ Open(x, call, pc) => Placed(x, pc, call, {}, {})
<1>2. Goto(x, pc) => Placed(x, pc, tx[x].call, tx[x].todo, tx[x].doomed)
  <2> SUFFICES ASSUME Goto(x, pc)
               PROVE  Placed(x, pc, tx[x].call, tx[x].todo, tx[x].doomed)
    OBVIOUS
  <2>1. tx'[x] = [pc |-> pc, call |-> tx[x].call, todo |-> tx[x].todo,
                  doomed |-> tx[x].doomed]
    BY DEF Goto, StoreRow
  <2> QED BY <2>1 DEF Goto, Placed
<1>3. tx' = [tx EXCEPT ![x].pc = pc, ![x].todo = todo] =>
         Placed(x, pc, tx[x].call, todo, tx[x].doomed)
  <2> SUFFICES ASSUME tx' = [tx EXCEPT ![x].pc = pc, ![x].todo = todo]
               PROVE  Placed(x, pc, tx[x].call, todo, tx[x].doomed)
    OBVIOUS
  <2>1. tx'[x] = [pc |-> pc, call |-> tx[x].call, todo |-> todo, doomed |-> tx[x].doomed]
    BY DEF StoreRow
  <2> QED BY <2>1 DEF Placed
<1>4. tx' = [tx EXCEPT ![x].todo = @ \ {a}] =>
         Placed(x, tx[x].pc, tx[x].call, tx[x].todo \ {a}, tx[x].doomed)
  <2> SUFFICES ASSUME tx' = [tx EXCEPT ![x].todo = @ \ {a}]
               PROVE  Placed(x, tx[x].pc, tx[x].call, tx[x].todo \ {a}, tx[x].doomed)
    OBVIOUS
  <2>1. tx'[x] = [pc |-> tx[x].pc, call |-> tx[x].call, todo |-> tx[x].todo \ {a},
                  doomed |-> tx[x].doomed]
    BY DEF StoreRow
  <2> QED BY <2>1 DEF Placed
<1>5. tx' = [tx EXCEPT ![x].pc = pc, ![x].doomed = @ \cup held] =>
         Placed(x, pc, tx[x].call, tx[x].todo, tx[x].doomed \cup held)
  <2> SUFFICES ASSUME tx' = [tx EXCEPT ![x].pc = pc, ![x].doomed = @ \cup held]
               PROVE  Placed(x, pc, tx[x].call, tx[x].todo, tx[x].doomed \cup held)
    OBVIOUS
  <2>1. tx'[x] = [pc |-> pc, call |-> tx[x].call, todo |-> tx[x].todo,
                  doomed |-> tx[x].doomed \cup held]
    BY DEF StoreRow
  <2> QED BY <2>1 DEF Placed
<1>6. Open(x, call, pc) => Placed(x, pc, call, {}, {})
  BY DEF Open, Idle, Placed
<1> QED BY <1>2, <1>3, <1>4, <1>5, <1>6

-----------------------------------------------------------------------------
\* The configuration the guard is correct in: one privileged list, which every write is
\* handed and which does not name the empty role, and no write that gives an account holding
\* no privileged role one.  PgGuardSkew shows what a concurrent promotion does, CoverRoleless
\* what an empty role in the list does.
OnlyGuarded(P) ==
    /\ Guards = {P} /\ P # {} /\ NoRole \notin P
    /\ \A c \in Calls : /\ c.privileged = P
                        /\ c.op = "role" /\ c.role \in P => c.from \subseteq P
    /\ Grants \cap P = {}

TxRow == [pc : PC, call : GuardCall \cup GrantCall \cup {NoCall},
          todo : SUBSET Account, doomed : SUBSET (Session \cup Token)]

\* A transaction's call is one its place in the code belongs to.
CallFits(pc, call, todo) ==
    /\ pc \in {"match", "granting"} => call \in GrantCall /\ call.role \in Grants
    /\ pc \notin {"idle", "match", "granting"} => call \in Calls
    /\ pc \in {"hold", "locking", "count"} => Guarded(call)
    /\ pc \notin {"locking", "granting"} => todo = {}

CallOK(x) == CallFits(tx[x].pc, tx[x].call, tx[x].todo)

\* The row a transaction has written is still its own, and as it was when written.
Written(x) ==
    tx[x].pc \in {"sessions", "tokens", "commit"} =>
        lock[tx[x].call.id] = x /\ StillHolds(tx[x].call)

TypesOK == TypeOK /\ TxOK /\ \A x \in Tx : CallOK(x)

\* What holds whatever calls are made.
RowsInv == TypesOK /\ LocksOK /\ \A x \in Tx : Written(x)

-----------------------------------------------------------------------------
\* A transaction that ends leaves a state of the right types, if its rows are.
LEMMA Ends ==
    ASSUME TypesOK, NEW x \in Tx, NEW result \in Answer, End(x, result), TypeOK'
    PROVE  TypesOK'
<1>1. Idle \in TxRow
  BY DEF Idle, TxRow, PC
<1>2. (CallOK(x))' /\ \A y \in Tx \ {x} : (CallOK(y))'
  BY DEF TypesOK, GuardTypeOK, TxOK, CallOK, CallFits, End, Idle
<1>3. (TxOK)'
  BY <1>1 DEF TypesOK, GuardTypeOK, TxOK, TxRow, End
<1> QED BY <1>2, <1>3 DEF TypesOK, GuardTypeOK

\* A step short of the commit keeps the types when its transaction's new record has them.
LEMMA Moves ==
    ASSUME TypesOK, NEW x \in Tx, NEW pc \in PC,
           NEW call \in GuardCall \cup GrantCall \cup {NoCall}, NEW todo \in SUBSET Account,
           NEW doomed \in SUBSET (Session \cup Token),
           Placed(x, pc, call, todo, doomed), CallFits(pc, call, todo), UNCHANGED rowVars,
           lock' \in [Account -> Tx \cup {NoTx}], keyed' \subseteq Account,
           answer' \in [Tx -> Answer]
    PROVE  TypesOK'
<1>1. tx \in [Tx -> TxRow] /\ [pc |-> pc, call |-> call, todo |-> todo, doomed |-> doomed] \in TxRow
  BY DEF TypesOK, GuardTypeOK, TxOK, TxRow
<1>2. \A y \in Tx : (CallOK(y))'
  BY <1>1 DEF TypesOK, CallOK, Placed
<1>3. (TypeOK)'
  BY DEF TypesOK, GuardTypeOK, TypeOK, rowVars
<1>4. (TxOK)'
  BY <1>1 DEF TypesOK, GuardTypeOK, TxOK, TxRow, Placed
<1> QED BY <1>2, <1>3, <1>4 DEF TypesOK, GuardTypeOK

LEMMA TypesStep == RowsInv /\ [Next]_vars => TypesOK'
<1> SUFFICES ASSUME TypesOK, LocksOK, \A x \in Tx : Written(x), [Next]_vars PROVE TypesOK'
  BY DEF RowsInv
<1>1. /\ tx \in [Tx -> TxRow]
      /\ lock \in [Account -> Tx \cup {NoTx}] /\ keyed \subseteq Account
      /\ answer \in [Tx -> Answer]
      /\ sessions \subseteq Session /\ tokens \subseteq Token
      /\ Calls \subseteq GuardCall
  BY CallsAssumption DEF TypesOK, GuardTypeOK, TypeOK, TxOK, TxRow
<1>5. tx \in [Tx -> StoreRow]
  BY <1>1 DEF TxRow, StoreRow, StorePC, AnyCall
<1>2. CASE \E a \in Account, role \in NewRoles, password \in Password :
              Drawn(a) /\ InsertUser(a, role, password)
  <2>1. TypeOK'
    BY <1>2, CallsAssumption
       DEF InsertUser, TypesOK, GuardTypeOK, TypeOK, NewRow, Row, RoleName, txVars
  <2>2. UNCHANGED txVars
    BY <1>2 DEF InsertUser
  <2> QED BY <2>1, <2>2 DEF TypesOK, GuardTypeOK, TxOK, CallOK, txVars
<1>3. CASE \E a \in Account, hash \in Hash :
              InsertSession([hash |-> hash, user |-> a, expires |-> MaxClock + 1])
  <2> PICK a \in Account, hash \in Hash :
         InsertSession([hash |-> hash, user |-> a, expires |-> MaxClock + 1])
    BY <1>3
  <2>1. [hash |-> hash, user |-> a, expires |-> MaxClock + 1] \in Session
    BY BoundAssumption DEF Session
  <2>2. TypeOK'
    BY <2>1 DEF InsertSession, TypesOK, GuardTypeOK, TypeOK
  <2> QED BY <2>2 DEF InsertSession, TypesOK, GuardTypeOK, TxOK, CallOK, txVars
<1>4. ASSUME NEW x \in Tx,
             \/ \E c \in Calls : Begin(x, c)
             \/ \E role \in Grants : BeginGrant(x, role)
             \/ Step(x)
             \/ Fail(x)
      PROVE  TypesOK'
  <2>1. tx[x] \in TxRow /\ CallOK(x) /\ tx[x].pc \in PC
    BY <1>1 DEF TypesOK, TxRow
  <2>2. ASSUME NEW result \in Answer, Rollback(x, result) PROVE TypesOK'
    BY <2>2, Ends DEF Rollback, TypesOK, GuardTypeOK, TypeOK, rowVars
  <2>3. ASSUME NEW c \in Calls, Begin(x, c) PROVE TypesOK'
    <3> DEFINE pc == IF Checked(c) THEN "check" ELSE AfterCheck(c)
    <3>1. pc \in PC /\ c \in GuardCall /\ CallFits(pc, c, {})
      BY <1>1 DEF PC, AfterCheck, CallFits
    <3>2. Placed(x, pc, c, {}, {})
      BY <2>3, <3>1, <1>5, PlacedBy DEF Begin
    <3> HIDE DEF pc
    <3> QED BY <1>1, <2>3, <3>1, <3>2, Moves DEF Begin, Open, Answer
  <2>4. ASSUME NEW role \in Grants, BeginGrant(x, role) PROVE TypesOK'
    <3> DEFINE c == [op |-> "grant", role |-> role]
    <3>1. "match" \in PC /\ c \in GrantCall /\ CallFits("match", c, {})
      BY CallsAssumption DEF PC, GrantCall, CallFits
    <3>2. Placed(x, "match", c, {}, {})
      BY <2>4, <3>1, <1>5, PlacedBy DEF BeginGrant
    <3> HIDE DEF c
    <3> QED BY <1>1, <2>4, <3>1, <3>2, Moves DEF BeginGrant, Open, Answer
  <2>5. ASSUME NEW pc \in PC, Goto(x, pc), CallFits(pc, tx[x].call, tx[x].todo),
               UNCHANGED rowVars, lock' \in [Account -> Tx \cup {NoTx}],
               keyed' \subseteq Account, answer' \in [Tx -> Answer]
        PROVE  TypesOK'
    BY <2>1, <2>5, <1>5, PlacedBy, Moves DEF TxRow
  <2>6. CASE Check(x)
    <3>1. CASE StillHolds(tx[x].call) /\ Goto(x, AfterCheck(tx[x].call))
      <4> DEFINE pc == AfterCheck(tx[x].call)
      <4>1. pc \in PC /\ CallFits(pc, tx[x].call, tx[x].todo)
        BY <1>1, <2>1, <2>6 DEF Check, At, PC, AfterCheck, CallOK, CallFits
      <4>2. Goto(x, pc) /\ UNCHANGED <<rowVars, lock, keyed, answer>>
        BY <2>1, <2>6, <3>1 DEF Check, Rollback, End, Goto, Idle, StillHolds
      <4> HIDE DEF pc
      <4> QED BY <1>1, <2>5, <4>1, <4>2
    <3>2. CASE Rollback(x, Moved(tx[x].call))
      BY <2>2, <3>2 DEF Moved, Answer
    <3> QED BY <2>6, <3>1, <3>2 DEF Check
  <2>7. CASE HoldPrivileged(x)
    <3> DEFINE todo == {a \in Account : Privileged(a, tx[x].call.privileged)}
    <3>1. Placed(x, "locking", tx[x].call, todo, tx[x].doomed)
      BY <2>7, <1>5, PlacedBy DEF HoldPrivileged, PC
    <3>2. CallFits("locking", tx[x].call, todo)
      BY <2>1, <2>7 DEF HoldPrivileged, At, CallOK, CallFits
    <3>3. todo \in SUBSET Account
      OBVIOUS
    <3> HIDE DEF todo
    <3> QED BY <1>1, <2>1, <2>7, <3>1, <3>2, <3>3, Moves DEF HoldPrivileged, TxRow, PC
  <2>8. CASE LockPrivileged(x) \/ GrantRow(x)
    <3> PICK a \in Account : /\ tx' = [tx EXCEPT ![x].todo = @ \ {a}]
                             /\ lock' \in {lock, [lock EXCEPT ![a] = x]}
                             /\ keyed' \in {keyed, keyed \cup {a}}
                             /\ UNCHANGED <<rowVars, answer>>
      BY <2>8 DEF LockPrivileged, GrantRow
    <3>1. Placed(x, tx[x].pc, tx[x].call, tx[x].todo \ {a}, tx[x].doomed)
      BY <2>1, <1>5, PlacedBy
    <3>2. CallFits(tx[x].pc, tx[x].call, tx[x].todo \ {a})
      BY <2>1 DEF CallOK, CallFits
    <3>3. lock' \in [Account -> Tx \cup {NoTx}] /\ keyed' \subseteq Account
      BY <1>1
    <3> QED BY <1>1, <2>1, <3>1, <3>2, <3>3, Moves DEF TxRow
  <2>9. CASE HoldsPrivilege(x) \/ CountCover(x)
    <3> PICK pc \in {"count", "write", "recheck"} :
            /\ Goto(x, pc) /\ UNCHANGED <<rowVars, lock, keyed, answer>>
            /\ tx[x].pc \in {"count", "locking"}
            /\ tx[x].pc = "locking" => tx[x].todo = {}
      BY <2>9 DEF HoldsPrivilege, CountCover, At
    <3>1. pc \in PC /\ CallFits(pc, tx[x].call, tx[x].todo)
      BY <2>1 DEF PC, CallOK, CallFits
    <3> QED BY <1>1, <2>5, <3>1
  <2>10. CASE Recheck(x) \/ MissedOrMoved(x)
    BY <2>2, <2>10 DEF Recheck, MissedOrMoved, Moved, Answer
  <2>11. CASE Write(x)
    <3> DEFINE pc == IF tx[x].call.op = "disable" /\ tx[x].call.disabled
                     THEN "sessions" ELSE "commit"
    <3>1. pc \in PC /\ CallFits(pc, tx[x].call, tx[x].todo)
      BY <2>1, <2>11 DEF Write, At, PC, CallOK, CallFits
    <3>2. Update(x, tx[x].call.id, pc) /\ UNCHANGED rowVars
      BY <2>11 DEF Write
    <3> HIDE DEF pc
    <3>3. lock' \in [Account -> Tx \cup {NoTx}]
      BY <1>1, <3>2 DEF Update
    <3> QED BY <1>1, <2>5, <3>1, <3>2, <3>3 DEF Update
  <2>12. CASE WriteMissed(x)
    <3>1. CallFits("missed", tx[x].call, tx[x].todo) /\ "missed" \in PC
      BY <2>1, <2>12 DEF WriteMissed, At, PC, CallOK, CallFits
    <3> QED BY <1>1, <2>2, <2>5, <2>12, <3>1 DEF WriteMissed, Answer
  <2>13. ASSUME NEW from \in {"sessions", "tokens"}, NEW to \in {"tokens", "commit"},
                NEW items \in SUBSET (Session \cup Token), Revoke(x, from, items, to)
         PROVE  TypesOK'
    <3> DEFINE held == {i \in items : i.user = tx[x].call.id}
    <3>1. Placed(x, to, tx[x].call, tx[x].todo, tx[x].doomed \cup held)
      BY <2>13, <1>5, PlacedBy DEF Revoke, PC
    <3>2. CallFits(to, tx[x].call, tx[x].todo) /\ to \in PC
      BY <2>1, <2>13 DEF Revoke, At, PC, CallOK, CallFits
    <3>3. tx[x].doomed \cup held \in SUBSET (Session \cup Token)
      BY <2>1 DEF TxRow
    <3> HIDE DEF held
    <3> QED BY <1>1, <2>1, <2>13, <3>1, <3>2, <3>3, Moves DEF Revoke, TxRow
  <2>14. CASE RevokeSessions(x) \/ RevokeTokens(x)
    BY <1>1, <2>13, <2>14 DEF RevokeSessions, RevokeTokens
  <2>15. CASE Commit(x)
    <3>1. tx[x].call \in GuardCall
      BY <1>1, <2>1, <2>15 DEF Commit, At, CallOK, CallFits
    <3>2. users[tx[x].call.id] \in Row
      BY <2>15, <3>1 DEF Commit, At, Written, StillHolds, Known, TypesOK, GuardTypeOK, TypeOK,
                         GuardCall
    <3>3. TypeOK'
      BY <2>15, <3>1, <3>2
         DEF Commit, TypesOK, GuardTypeOK, TypeOK, GuardCall, RoleName, Row
    <3> QED BY <2>15, <3>3, Ends DEF Commit, Answer
  <2>16. CASE MatchRoleless(x)
    <3> DEFINE todo == {a \in Account : Known(a) /\ users[a].role = NoRole}
    <3>1. Placed(x, "granting", tx[x].call, todo, tx[x].doomed)
      BY <2>16, <1>5, PlacedBy DEF MatchRoleless, PC
    <3>2. CallFits("granting", tx[x].call, todo)
      BY <2>1, <2>16 DEF MatchRoleless, At, CallOK, CallFits
    <3>3. todo \in SUBSET Account
      OBVIOUS
    <3> HIDE DEF todo
    <3> QED BY <1>1, <2>1, <2>16, <3>1, <3>2, <3>3, Moves DEF MatchRoleless, TxRow, PC
  <2>17. CASE CommitGrant(x)
    <3>1. tx[x].call.role \in Role
      BY <2>1, <2>17, CallsAssumption DEF CommitGrant, At, CallOK, CallFits
    <3>2. \A a \in Account : lock[a] = x => users[a] \in Row
      BY TxAssumption DEF LocksOK, Known, TypesOK, GuardTypeOK, TypeOK
    <3>3. TypeOK'
      BY <2>17, <3>1, <3>2 DEF CommitGrant, TypesOK, GuardTypeOK, TypeOK, Row
    <3> QED BY <2>17, <3>3, Ends DEF CommitGrant, Answer
  <2>18. CASE Fail(x)
    BY <2>2, <2>18 DEF Fail, Answer
  <2>19. CASE RevokeRow(x)
    BY <2>19 DEF RevokeRow, TakeRow, rowVars, TypesOK, TypeOK, TxOK, CallOK
  <2> QED BY <1>4, <2>3, <2>4, <2>6, <2>7, <2>8, <2>9, <2>10, <2>11, <2>12, <2>14, <2>15,
             <2>16, <2>17, <2>18, <2>19 DEF Step
<1> QED BY <1>2, <1>3, <1>4 DEF Next, vars, rowVars, txVars, TypesOK, GuardTypeOK, TypeOK, TxOK, CallOK

-----------------------------------------------------------------------------
\* A guarded write from its holdPrivileged to its commit.
Past(x) ==
    /\ tx[x].pc \in {"locking", "count", "write", "sessions", "tokens", "commit"}
    /\ Guarded(tx[x].call)

\* x has row a locked or is about to lock it.
Has(x, a) == a \in tx[x].todo \/ lock[a] = x

\* The row it names is among those it locks.
HoldsOwn(P, x) ==
    Past(x) /\ Privileged(tx[x].call.id, P) => Has(x, tx[x].call.id)

\* What countCover found stays true to the commit.
Counted(P, x) ==
    /\ tx[x].pc \in {"write", "sessions", "tokens", "commit"}
    /\ Guarded(tx[x].call)
    /\ Covers(tx[x].call.id, P)
    => \E b \in Account \ {tx[x].call.id} : Covers(b, P)

\* Of two guarded writes of privileged accounts one has to lock the other's account, so one
\* waits for the other.
Meets(P, x, y) ==
    /\ Past(x) /\ Privileged(tx[x].call.id, P)
    /\ Past(y) /\ Privileged(tx[y].call.id, P)
    => Has(x, tx[y].call.id) \/ Has(y, tx[x].call.id)

GuardInv(P) ==
    /\ RowsInv
    /\ \A x \in Tx : HoldsOwn(P, x) /\ Counted(P, x)
    /\ \A x, y \in Tx : x # y => Meets(P, x, y)

\* What a step of transaction y, or a step of none, does to the others: it leaves their places
\* and locks and the rows they have locked.
LockFrame(y) ==
    /\ \A x \in Tx \ {y} :
          /\ tx'[x] = tx[x]
          /\ \A a \in Account : /\ lock'[a] = x <=> lock[a] = x
                                /\ lock[a] = x => users'[a] = users[a]
    /\ (LocksOK)'

\* It gives no account they name a privilege, and takes no cover but the one its own guarded
\* write names.
CoverFrame(P, y) ==
    /\ \A x \in Tx, a \in Account :
          tx[x].call \in Calls /\ a = tx[x].call.id /\ Privileged(a, P)' => Privileged(a, P)
    /\ \A b \in Account :
          \/ Covers(b, P) => Covers(b, P)'
          \/ y \in Tx /\ At(y, "commit") /\ Guarded(tx[y].call) /\ b = tx[y].call.id

Frame(P, y) == LockFrame(y) /\ (OnlyGuarded(P) => CoverFrame(P, y))

LEMMA NoCallIsNoGuard == ASSUME NEW x \in Tx, CallOK(x), Past(x) PROVE tx[x].call \in Calls
BY DEF CallOK, CallFits, Past

\* A step that leaves the account rows alone and takes no lock but free ones.
LEMMA QuietFrame ==
    ASSUME NEW P, RowsInv, NEW y \in Tx, UNCHANGED users,
           \A x \in Tx \ {y} : tx'[x] = tx[x],
           \A x \in Tx \ {y}, a \in Account : lock'[a] = x <=> lock[a] = x,
           \A a \in Account : lock'[a] # NoTx => lock[a] # NoTx \/ Known(a)
    PROVE  Frame(P, y)
BY DEF Frame, LockFrame, CoverFrame, RowsInv, LocksOK, Known, Privileged, Covers, Enabled

LEMMA FrameStep ==
    ASSUME NEW P, RowsInv, NEW y \in Tx,
           \/ \E c \in Calls : Begin(y, c)
           \/ \E role \in Grants : BeginGrant(y, role)
           \/ Step(y)
           \/ Fail(y)
    PROVE  Frame(P, y)
<1>1. /\ tx \in [Tx -> TxRow] /\ tx[y] \in TxRow /\ CallOK(y)
      /\ lock \in [Account -> Tx \cup {NoTx}]
      /\ users \in [Account -> Row \cup {NoAccount}]
      /\ Calls \subseteq GuardCall
  BY CallsAssumption DEF RowsInv, TypesOK, GuardTypeOK, TypeOK, TxOK, TxRow
<1>2. ASSUME NEW result, Rollback(y, result) PROVE Frame(P, y)
  BY <1>1, <1>2, QuietFrame, TxAssumption DEF Rollback, End, rowVars
<1>3. ASSUME UNCHANGED <<users, lock>>, \A x \in Tx \ {y} : tx'[x] = tx[x]
      PROVE  Frame(P, y)
  BY <1>3, QuietFrame
<1>4. ASSUME NEW a \in Account, Free(y, a), Known(a), lock' = [lock EXCEPT ![a] = y],
             UNCHANGED users, \A x \in Tx \ {y} : tx'[x] = tx[x]
      PROVE  Frame(P, y)
  BY <1>1, <1>4, QuietFrame, TxAssumption DEF Free
<1>5. CASE (\E c \in Calls : Begin(y, c)) \/ (\E role \in Grants : BeginGrant(y, role))
  BY <1>1, <1>3, <1>5 DEF Begin, BeginGrant, Open, rowVars
<1>6. CASE Check(y)
  BY <1>1, <1>2, <1>3, <1>6 DEF Check, Goto, rowVars
<1>7. CASE HoldPrivileged(y) \/ HoldsPrivilege(y) \/ CountCover(y) \/ MatchRoleless(y)
  BY <1>1, <1>3, <1>7 DEF HoldPrivileged, HoldsPrivilege, CountCover, MatchRoleless, Goto, rowVars
<1>8. CASE LockPrivileged(y) \/ GrantRow(y)
  <2> PICK a \in Account : /\ Free(y, a) /\ UNCHANGED users
                           /\ tx' = [tx EXCEPT ![y].todo = @ \ {a}]
                           /\ lock' = IF Known(a) THEN [lock EXCEPT ![a] = y] ELSE lock
    BY <1>8 DEF LockPrivileged, GrantRow, rowVars
  <2>1. \A x \in Tx \ {y} : tx'[x] = tx[x]
    BY <1>1
  <2> QED BY <1>3, <1>4, <2>1
<1>9. CASE Recheck(y) \/ MissedOrMoved(y) \/ Fail(y)
  BY <1>2, <1>9 DEF Recheck, MissedOrMoved, Fail
<1>10. CASE Write(y)
  <2>1. tx[y].call \in GuardCall /\ tx[y].call.id \in Account
    BY <1>1, <1>10 DEF Write, At, CallOK, CallFits, GuardCall
  <2> QED BY <1>1, <1>4, <1>10, <2>1 DEF Write, Update, StillHolds, Goto, rowVars
<1>11. CASE WriteMissed(y)
  BY <1>1, <1>2, <1>3, <1>11 DEF WriteMissed, Goto, rowVars
<1>12. CASE RevokeRow(y) \/ RevokeSessions(y) \/ RevokeTokens(y)
  BY <1>1, <1>3, <1>12 DEF RevokeRow, TakeRow, RevokeSessions, RevokeTokens, Revoke, rowVars
<1>13. CASE Commit(y)
  <2> DEFINE c == tx[y].call
  <2>1. /\ c \in Calls /\ c \in GuardCall /\ c.id \in Account /\ c.op \in {"role", "disable"}
        /\ c.disabled \in BOOLEAN /\ c.role \in RoleName
    BY <1>1, <1>13 DEF Commit, At, CallOK, CallFits, GuardCall
  <2>2. lock[c.id] = y /\ users[c.id] \in Row /\ users[c.id].role \in c.from
    <3>1. Written(y) /\ tx[y].pc = "commit"
      BY <1>13 DEF Commit, At, RowsInv
    <3> QED BY <1>1, <2>1, <3>1 DEF Written, StillHolds, Known
  <2>3. /\ users' = IF c.op = "role" THEN [users EXCEPT ![c.id].role = c.role]
                    ELSE [users EXCEPT ![c.id].disabled = c.disabled]
        /\ End(y, "ok") /\ At(y, "commit")
    BY <1>13 DEF Commit
  <2>4. OnlyGuarded(P) => /\ c.privileged = P
                          /\ c.op = "role" /\ c.role \in P => c.from \subseteq P
                          /\ P # {} /\ NoRole \notin P
    BY <2>1 DEF OnlyGuarded
  <2> HIDE DEF c
  <2>5. \A a \in Account \ {c.id} : users'[a] = users[a]
    BY <1>1, <2>3
  <2>6. /\ users'[c.id] \in Row
        /\ users'[c.id].role = IF c.op = "role" THEN c.role ELSE users[c.id].role
        /\ users'[c.id].disabled = IF c.op = "role" THEN users[c.id].disabled ELSE c.disabled
    BY <1>1, <2>1, <2>2, <2>3 DEF Row, RoleName
  <2>7. \A x \in Tx \ {y} :
           /\ tx'[x] = tx[x]
           /\ \A a \in Account : /\ lock'[a] = x <=> lock[a] = x
                                 /\ lock[a] = x => users'[a] = users[a]
    BY <1>1, <2>2, <2>3, <2>5, TxAssumption DEF End
  <2>8. OnlyGuarded(P) => \A a \in Account : Privileged(a, P)' => Privileged(a, P)
    BY <2>2, <2>4, <2>5, <2>6, <2>1, NoAccountAssumption DEF Privileged, Known
  <2>9. \A b \in Account \ {c.id} : Covers(b, P) => Covers(b, P)'
    BY <2>5 DEF Covers, Enabled, Known
  <2>10. OnlyGuarded(P) /\ ~Guarded(c) /\ Covers(c.id, P) =>
            users'[c.id] # NoAccount /\ ~users'[c.id].disabled /\ users'[c.id].role \in P
    BY <2>1, <2>4, <2>6, NoAccountAssumption
       DEF Guarded, RemovesCover, Holds, Covers, Enabled
  <2>11. OnlyGuarded(P) => \A b \in Account :
            \/ Covers(b, P) => Covers(b, P)'
            \/ y \in Tx /\ At(y, "commit") /\ Guarded(tx[y].call) /\ b = tx[y].call.id
    BY <2>3, <2>9, <2>10 DEF c, Covers, Enabled, Known
  <2>12. (LocksOK)'
    BY <1>1, <2>2, <2>3, <2>5 DEF LocksOK, End, Known, RowsInv
  <2> QED BY <2>7, <2>8, <2>11, <2>12 DEF Frame, LockFrame, CoverFrame
<1>14. CASE CommitGrant(y)
  <2> DEFINE role == tx[y].call.role
  <2>1. role \in Role /\ (OnlyGuarded(P) => role \notin P /\ NoRole \notin P)
    BY <1>1, <1>14, CallsAssumption DEF CommitGrant, At, CallOK, CallFits, OnlyGuarded
  <2>2. /\ users' = [a \in Account |->
                       IF lock[a] = y /\ users[a].role = NoRole
                       THEN [users[a] EXCEPT !.role = role] ELSE users[a]]
        /\ End(y, "ok")
    BY <1>14 DEF CommitGrant
  <2> HIDE DEF role
  <2>3. \A a \in Account : lock[a] = y => users[a] \in Row
    BY <1>1, TxAssumption DEF RowsInv, LocksOK, Known
  <2>4. \A a \in Account :
           \/ users'[a] = users[a]
           \/ /\ lock[a] = y /\ users[a] \in Row /\ users[a].role = NoRole
              /\ users'[a] \in Row /\ users'[a].role = role
    BY <2>1, <2>2, <2>3 DEF Row
  <2>5. \A x \in Tx \ {y} :
           /\ tx'[x] = tx[x]
           /\ \A a \in Account : /\ lock'[a] = x <=> lock[a] = x
                                 /\ lock[a] = x => users'[a] = users[a]
    BY <1>1, <2>2, <2>4, TxAssumption DEF End
  <2>6. OnlyGuarded(P) => \A a \in Account : /\ Privileged(a, P)' => Privileged(a, P)
                                             /\ Covers(a, P) => Covers(a, P)'
    BY <2>1, <2>4 DEF Privileged, Covers, Enabled, Known
  <2>7. (LocksOK)'
    BY <1>1, <2>2, <2>4, NoAccountAssumption DEF LocksOK, End, Known, RowsInv
  <2> QED BY <2>5, <2>6, <2>7 DEF Frame, LockFrame, CoverFrame
<1> QED BY <1>5, <1>6, <1>7, <1>8, <1>9, <1>10, <1>11, <1>12, <1>13, <1>14 DEF Step

\* An account or a session is inserted: no transaction moves.
LEMMA InsertFrame ==
    ASSUME NEW P, RowsInv,
           \/ \E a \in Account, role \in NewRoles, password \in Password :
                 Drawn(a) /\ InsertUser(a, role, password)
           \/ \E a \in Account, hash \in Hash :
                 InsertSession([hash |-> hash, user |-> a, expires |-> MaxClock + 1])
    PROVE  Frame(P, NoTx) /\ UNCHANGED txVars
<1>1. /\ users \in [Account -> Row \cup {NoAccount}]
      /\ lock \in [Account -> Tx \cup {NoTx}]
      /\ Calls \subseteq GuardCall
  BY CallsAssumption DEF RowsInv, TypesOK, GuardTypeOK, TypeOK, TxOK
<1>2. ASSUME NEW a \in Account, NEW role, NEW password,
             Drawn(a), InsertUser(a, role, password)
      PROVE  Frame(P, NoTx) /\ UNCHANGED txVars
  <2>1. /\ ~Known(a) /\ UNCHANGED txVars
        /\ \A b \in Account \ {a} : users'[b] = users[b]
        /\ \A x \in Tx : tx[x].call \in Calls => tx[x].call.id # a
    BY <1>1, <1>2 DEF InsertUser, Drawn
  <2>2. lock[a] = NoTx
    BY <2>1 DEF RowsInv, LocksOK
  <2> QED
    BY <1>1, <2>1, <2>2, TxAssumption
       DEF Frame, LockFrame, CoverFrame, txVars, Privileged, Covers, Enabled, Known, RowsInv, LocksOK
<1>3. ASSUME UNCHANGED users, UNCHANGED txVars PROVE Frame(P, NoTx) /\ UNCHANGED txVars
  BY <1>3, TxAssumption
     DEF Frame, LockFrame, CoverFrame, txVars, Privileged, Covers, Enabled, Known, RowsInv, LocksOK
<1> QED BY <1>2, <1>3 DEF InsertSession

-----------------------------------------------------------------------------
\* A step leaves the row another transaction has written as it is.
LEMMA WrittenOthers ==
    ASSUME RowsInv, NEW y \in Tx \cup {NoTx}, LockFrame(y), NEW x \in Tx \ {y}
    PROVE  (Written(x))'
<1> DEFINE id == tx[x].call.id
<1>1. tx'[x] = tx[x] /\ CallOK(x)
  BY DEF LockFrame, RowsInv, TypesOK
<1> SUFFICES ASSUME tx[x].pc \in {"sessions", "tokens", "commit"}
             PROVE  lock'[id] = x /\ users'[id] # NoAccount /\ users'[id].role \in tx[x].call.from
  BY <1>1 DEF Written, StillHolds, Known
<1>2. id \in Account /\ lock[id] = x /\ StillHolds(tx[x].call)
  BY <1>1, CallsAssumption DEF CallOK, CallFits, GuardCall, Written, RowsInv
<1> QED BY <1>1, <1>2 DEF LockFrame, StillHolds, Known

\* A transaction goes from its UPDATE to its commit with the row it updated.
LEMMA WrittenOwn ==
    ASSUME RowsInv, NEW y \in Tx,
           \/ \E c \in Calls : Begin(y, c)
           \/ \E role \in Grants : BeginGrant(y, role)
           \/ Step(y)
           \/ Fail(y)
    PROVE  (Written(y))'
<1>1. /\ tx \in [Tx -> TxRow] /\ tx[y] \in TxRow /\ CallOK(y) /\ Written(y)
      /\ lock \in [Account -> Tx \cup {NoTx}]
      /\ \A c \in Calls : c.id \in Account
  BY CallsAssumption DEF RowsInv, TypesOK, GuardTypeOK, TxOK, TxRow, GuardCall
<1>2. ASSUME tx'[y].pc \notin {"sessions", "tokens", "commit"} PROVE (Written(y))'
  BY <1>2 DEF Written
<1>3. ASSUME NEW result, End(y, result) PROVE (Written(y))'
  BY <1>1, <1>2, <1>3 DEF End, Idle
<1>4. ASSUME NEW c, NEW pc \in {"check", "hold", "write", "match"}, Open(y, c, pc)
      PROVE  (Written(y))'
  <2>1. tx'[y].pc = pc
    BY <1>1, <1>4 DEF Open, Idle
  <2> QED BY <1>2, <2>1
<1>5. ASSUME NEW pc \in {"hold", "write", "count", "recheck", "missed"}, Goto(y, pc)
      PROVE  (Written(y))'
  <2>1. tx'[y].pc = pc
    BY <1>1, <1>5 DEF Goto, TxRow
  <2> QED BY <1>2, <2>1
<1>6. CASE (\E c \in Calls : Begin(y, c)) \/ (\E role \in Grants : BeginGrant(y, role))
  BY <1>4, <1>6 DEF Begin, BeginGrant, AfterCheck
<1>7. CASE \/ Check(y) \/ Recheck(y) \/ MissedOrMoved(y) \/ Fail(y) \/ Commit(y)
           \/ CommitGrant(y) \/ HoldsPrivilege(y) \/ CountCover(y) \/ WriteMissed(y)
  BY <1>3, <1>5, <1>7
     DEF Check, AfterCheck, Recheck, MissedOrMoved, Fail, Commit, CommitGrant, HoldsPrivilege,
         CountCover, WriteMissed, Rollback
<1>8. CASE HoldPrivileged(y) \/ LockPrivileged(y) \/ MatchRoleless(y) \/ GrantRow(y)
  <2>1. tx'[y].pc \in {"locking", "granting"}
    BY <1>1, <1>8 DEF HoldPrivileged, LockPrivileged, MatchRoleless, GrantRow, At, TxRow
  <2> QED BY <1>2, <2>1
<1>9. CASE Write(y)
  <2>1. /\ tx[y].call \in Calls /\ UNCHANGED users /\ StillHolds(tx[y].call)
        /\ lock' = [lock EXCEPT ![tx[y].call.id] = y]
    BY <1>1, <1>9 DEF Write, Update, At, CallOK, CallFits, rowVars
  <2>2. tx'[y].call = tx[y].call
    BY <1>1, <1>9 DEF Write, Update, Goto, TxRow
  <2> QED BY <1>1, <2>1, <2>2 DEF Written, StillHolds, Known
<1>10. CASE RevokeRow(y) \/ RevokeSessions(y) \/ RevokeTokens(y)
  <2>1. tx[y].pc \in {"sessions", "tokens"} /\ UNCHANGED <<users, lock>>
    BY <1>10 DEF RevokeRow, TakeRow, RevokeSessions, RevokeTokens, Revoke, At, rowVars
  <2>2. tx'[y].call = tx[y].call
    BY <1>1, <1>10 DEF RevokeRow, TakeRow, RevokeSessions, RevokeTokens, Revoke, TxRow
  <2> QED BY <1>1, <2>1, <2>2 DEF Written, StillHolds, Known
<1> QED BY <1>6, <1>7, <1>8, <1>9, <1>10 DEF Step

LEMMA RowsStep == RowsInv /\ [Next]_vars => RowsInv'
<1> SUFFICES ASSUME RowsInv, [Next]_vars PROVE RowsInv'
  OBVIOUS
<1>1. (TypesOK)'
  BY TypesStep
<1>2. CASE \E y \in Tx : \/ \E c \in Calls : Begin(y, c)
                         \/ \E role \in Grants : BeginGrant(y, role)
                         \/ Step(y)
                         \/ Fail(y)
  <2> PICK y \in Tx : \/ \E c \in Calls : Begin(y, c)
                      \/ \E role \in Grants : BeginGrant(y, role)
                      \/ Step(y)
                      \/ Fail(y)
    BY <1>2
  <2>1. LockFrame(y)
    BY FrameStep DEF Frame
  <2>2. (Written(y))' /\ \A x \in Tx \ {y} : (Written(x))'
    BY <2>1, WrittenOwn, WrittenOthers
  <2> QED BY <1>1, <2>1, <2>2 DEF RowsInv, LockFrame
<1>3. ASSUME LockFrame(NoTx) PROVE RowsInv'
  <2>1. \A x \in Tx : (Written(x))'
    BY <1>3, WrittenOthers, TxAssumption
  <2> QED BY <1>1, <1>3, <2>1 DEF RowsInv, LockFrame
<1>4. CASE UNCHANGED vars
  BY <1>1, <1>4 DEF vars, rowVars, txVars, RowsInv, LocksOK, Written, Known, StillHolds
<1> QED BY <1>2, <1>3, <1>4, InsertFrame DEF Next, Frame

\* What a step leaves of the invariant at the transactions it is not a step of.
LEMMA OthersStep ==
    ASSUME NEW P, OnlyGuarded(P), GuardInv(P), NEW y \in Tx \cup {NoTx}, Frame(P, y),
           NEW x \in Tx \ {y}
    PROVE  /\ (HoldsOwn(P, x))' /\ (Counted(P, x))'
           /\ \A z \in Tx \ {y} : x # z => (Meets(P, x, z))'
<1> DEFINE id == tx[x].call.id
<1>1. /\ tx'[x] = tx[x] /\ CallOK(x)
      /\ \A a \in Account : /\ lock'[a] = x <=> lock[a] = x
                            /\ lock[a] = x => users'[a] = users[a]
  BY DEF Frame, LockFrame, CoverFrame, GuardInv, RowsInv, TypesOK
<1>2. ASSUME NEW z \in Tx, tx[z].call \in Calls
      PROVE  tx[z].call.id \in Account
  BY <1>2, CallsAssumption DEF GuardCall
<1>3. ASSUME NEW z \in Tx, Past(z) PROVE tx[z].call \in Calls
  BY <1>3, NoCallIsNoGuard DEF GuardInv, RowsInv, TypesOK
<1>5. ASSUME NEW z \in Tx \ {y}, (Past(z) /\ Privileged(tx[z].call.id, P))'
      PROVE  /\ Past(z) /\ Privileged(tx[z].call.id, P) /\ tx[z].call.id \in Account
             /\ tx'[z] = tx[z]
             /\ \A a \in Account : Has(z, a) => (Has(z, a))'
  <2>1. /\ tx'[z] = tx[z] /\ Past(z)
        /\ \A a \in Account : lock'[a] = z <=> lock[a] = z
    BY <1>5 DEF Frame, LockFrame, CoverFrame, Past
  <2>2. tx[z].call \in Calls /\ tx[z].call.id \in Account
    BY <1>2, <1>3, <2>1
  <2>3. Privileged(tx[z].call.id, P)
    BY <1>5, <2>1, <2>2 DEF Frame, LockFrame, CoverFrame, Privileged, Known
  <2> QED BY <2>1, <2>2, <2>3 DEF Has
<1>6. (HoldsOwn(P, x))'
  BY <1>5 DEF HoldsOwn, GuardInv, Has
<1>7. \A z \in Tx \ {y} : x # z => (Meets(P, x, z))'
  <2> SUFFICES ASSUME NEW z \in Tx \ {y}, x # z,
                      (Past(x) /\ Privileged(tx[x].call.id, P))',
                      (Past(z) /\ Privileged(tx[z].call.id, P))'
               PROVE  (Has(x, tx[z].call.id) \/ Has(z, tx[x].call.id))'
    BY DEF Meets
  <2>1. Has(x, tx[z].call.id) \/ Has(z, tx[x].call.id)
    BY <1>5 DEF GuardInv, Meets
  <2> QED BY <1>5, <2>1 DEF Has
<1>8. (Counted(P, x))'
  <2> SUFFICES ASSUME tx[x].pc \in {"write", "sessions", "tokens", "commit"},
                      Guarded(tx[x].call), users'[id] # NoAccount, ~users'[id].disabled,
                      users'[id].role \in P
               PROVE  \E b \in Account \ {id} : Covers(b, P)'
    BY <1>1 DEF Counted, Covers, Enabled, Known
  <2>1. Past(x) /\ tx[x].call \in Calls /\ id \in Account /\ tx[x].todo = {}
    BY <1>1, <1>2, <1>3 DEF Past, CallOK, CallFits
  <2>2. Privileged(id, P)
    BY <2>1 DEF Frame, LockFrame, CoverFrame, Privileged, Known
  <2>3. lock[id] = x
    BY <2>1, <2>2 DEF GuardInv, HoldsOwn, Has
  <2>4. Covers(id, P)
    BY <1>1, <2>1, <2>3 DEF Covers, Enabled, Known
  <2>5. PICK b \in Account \ {id} : Covers(b, P)
    BY <2>4 DEF GuardInv, Counted
  <2>6. CASE y \in Tx /\ At(y, "commit") /\ Guarded(tx[y].call) /\ b = tx[y].call.id
    <3>1. Past(y) /\ tx[y].todo = {} /\ Privileged(tx[y].call.id, P)
      BY <2>5, <2>6 DEF Past, At, GuardInv, RowsInv, TypesOK, CallOK, CallFits, Covers, Enabled, Privileged
    <3>2. lock[b] = y
      BY <2>6, <3>1 DEF GuardInv, HoldsOwn, Has
    <3>3. Has(x, b) \/ Has(y, id)
      BY <2>1, <2>2, <2>6, <3>1 DEF GuardInv, Meets
    <3> QED BY <2>1, <2>3, <3>1, <3>2, <3>3 DEF Has
  <2> QED BY <2>5, <2>6 DEF Frame, LockFrame, CoverFrame
<1> QED BY <1>6, <1>7, <1>8

\* A step that keeps its guarded write under way and every row it has or is about to lock.
LEMMA HasStep ==
    ASSUME NEW P, GuardInv(P), NEW y \in Tx, Frame(P, y), UNCHANGED users,
           Past(y), tx'[y].call = tx[y].call,
           \A a \in Account : Privileged(a, P) /\ Has(y, a) => (Has(y, a))'
    PROVE  /\ (HoldsOwn(P, y))'
           /\ \A x \in Tx \ {y} : (Meets(P, y, x))'
<1>1. tx[y].call.id \in Account
  BY NoCallIsNoGuard, CallsAssumption DEF GuardInv, RowsInv, TypesOK, GuardCall
<1>2. (HoldsOwn(P, y))'
  BY <1>1 DEF HoldsOwn, GuardInv, Privileged, Known
<1>3. ASSUME NEW x \in Tx \ {y} PROVE (Meets(P, y, x))'
  <2> SUFFICES ASSUME Privileged(tx[y].call.id, P), Past(x), Privileged(tx[x].call.id, P)
               PROVE  (Has(y, tx[x].call.id) \/ Has(x, tx[y].call.id))'
    BY DEF Frame, LockFrame, CoverFrame, Meets, Past, Privileged, Known
  <2>1. tx[x].call.id \in Account
    BY NoCallIsNoGuard, CallsAssumption DEF GuardInv, RowsInv, TypesOK, GuardCall
  <2>2. Has(y, tx[x].call.id) \/ Has(x, tx[y].call.id)
    BY DEF GuardInv, Meets
  <2>3. \A a \in Account : Has(x, a) => (Has(x, a))'
    BY DEF Frame, LockFrame, CoverFrame, Has
  <2> QED BY <1>1, <2>1, <2>2, <2>3 DEF Frame, LockFrame, CoverFrame, Has
<1> QED BY <1>2, <1>3

LEMMA OwnStep ==
    ASSUME NEW P, OnlyGuarded(P), GuardInv(P), NEW y \in Tx, Frame(P, y),
           \/ \E c \in Calls : Begin(y, c)
           \/ \E role \in Grants : BeginGrant(y, role)
           \/ Step(y)
           \/ Fail(y)
    PROVE  /\ (HoldsOwn(P, y))' /\ (Counted(P, y))'
           /\ \A x \in Tx \ {y} : (Meets(P, y, x))'
<1> DEFINE Own == /\ (HoldsOwn(P, y))' /\ (Counted(P, y))'
                  /\ \A x \in Tx \ {y} : (Meets(P, y, x))'
           id == tx[y].call.id
<1>1. /\ tx \in [Tx -> TxRow] /\ tx[y] \in TxRow /\ CallOK(y)
      /\ lock \in [Account -> Tx \cup {NoTx}]
      /\ Calls \subseteq GuardCall
      /\ \A c \in Calls : c.id \in Account /\ c.privileged = P
  BY CallsAssumption DEF GuardInv, RowsInv, TypesOK, GuardTypeOK, TypeOK, TxOK, TxRow, GuardCall, OnlyGuarded
<1>2. ASSUME tx'[y].pc \notin {"locking", "count", "write", "sessions", "tokens", "commit"}
      PROVE  Own
  BY <1>2 DEF HoldsOwn, Counted, Meets, Past
<1>3. ASSUME tx'[y].pc = "write", ~Guarded(tx'[y].call) PROVE Own
  BY <1>3 DEF HoldsOwn, Counted, Meets, Past
<1>4. ASSUME NEW result, End(y, result) PROVE Own
  BY <1>1, <1>2, <1>4 DEF End, Idle
<1>5. CASE (\E c \in Calls : Begin(y, c)) \/ (\E role \in Grants : BeginGrant(y, role))
  <2>1. \/ tx'[y].pc \in {"check", "hold", "match"}
        \/ tx'[y].pc = "write" /\ ~Guarded(tx'[y].call)
    <3>1. ASSUME NEW c, NEW pc, Open(y, c, pc) PROVE tx'[y].pc = pc /\ tx'[y].call = c
      BY <1>1, <3>1 DEF Open, Idle
    <3>2. ASSUME NEW c \in Calls, Begin(y, c)
          PROVE  \/ tx'[y].pc \in {"check", "hold"}
                 \/ tx'[y].pc = "write" /\ ~Guarded(tx'[y].call)
      BY <3>1, <3>2 DEF Begin, AfterCheck
    <3> QED BY <1>5, <3>1, <3>2 DEF BeginGrant
  <2> QED BY <1>2, <1>3, <2>1
<1>6. CASE Check(y)
  <2>1. CASE StillHolds(tx[y].call) /\ Goto(y, AfterCheck(tx[y].call))
    <3>1. tx'[y].pc = AfterCheck(tx[y].call) /\ tx'[y].call = tx[y].call
      BY <1>1, <2>1 DEF Goto, TxRow
    <3> QED BY <1>2, <1>3, <3>1 DEF AfterCheck
  <2> QED BY <1>4, <1>6, <2>1 DEF Check, Rollback
<1>7. CASE Recheck(y) \/ MissedOrMoved(y) \/ Fail(y) \/ Commit(y) \/ CommitGrant(y)
  BY <1>4, <1>7 DEF Recheck, MissedOrMoved, Fail, Commit, CommitGrant, Rollback
<1>8. CASE MatchRoleless(y) \/ GrantRow(y)
  <2>1. tx'[y].pc = "granting"
    BY <1>1, <1>8 DEF MatchRoleless, GrantRow, At, TxRow
  <2> QED BY <1>2, <2>1
<1>9. CASE WriteMissed(y)
  <2>1. CASE Goto(y, "missed")
    <3>1. tx'[y].pc = "missed"
      BY <1>1, <2>1 DEF Goto, TxRow
    <3> QED BY <1>2, <3>1
  <2> QED BY <1>4, <1>9, <2>1 DEF WriteMissed, Rollback
<1>10. CASE HoldPrivileged(y)
  <2>1. /\ tx'[y].pc = "locking" /\ tx'[y].call = tx[y].call
        /\ tx'[y].todo = {a \in Account : Privileged(a, P)}
        /\ tx[y].call \in Calls /\ UNCHANGED users
    BY <1>1, <1>10 DEF HoldPrivileged, At, TxRow, CallOK, CallFits, rowVars
  <2>2. \A a \in Account : Privileged(a, P)' => (Has(y, a))'
    BY <2>1 DEF Privileged, Known, Has
  <2>3. (Counted(P, y))'
    BY <2>1 DEF Counted
  <2>4. (HoldsOwn(P, y))'
    BY <1>1, <2>1, <2>2 DEF HoldsOwn, Privileged, Known
  <2>5. ASSUME NEW x \in Tx \ {y} PROVE (Meets(P, y, x))'
    <3>1. tx'[x] = tx[x] /\ (Past(x) => tx[x].call.id \in Account)
      BY <1>1, NoCallIsNoGuard DEF Frame, LockFrame, CoverFrame, GuardInv, RowsInv, TypesOK
    <3> QED BY <2>2, <3>1 DEF Meets, Past, Privileged, Known
  <2> QED BY <2>3, <2>4, <2>5
<1>11. CASE LockPrivileged(y)
  <2> PICK a \in Account :
         /\ tx' = [tx EXCEPT ![y].todo = @ \ {a}] /\ UNCHANGED users
         /\ lock' = IF Known(a) THEN [lock EXCEPT ![a] = y] ELSE lock
    BY <1>11 DEF LockPrivileged, rowVars
  <2>1. /\ tx'[y].pc = "locking" /\ tx'[y].call = tx[y].call /\ tx'[y].todo = tx[y].todo \ {a}
        /\ Past(y)
    BY <1>1, <1>11 DEF LockPrivileged, At, TxRow, CallOK, CallFits, Past
  <2>2. \A b \in Account : Privileged(b, P) /\ Has(y, b) => (Has(y, b))'
    BY <1>1, <2>1 DEF Privileged, Has
  <2>3. (Counted(P, y))'
    BY <2>1 DEF Counted
  <2> QED BY <2>1, <2>2, <2>3, HasStep
<1>12. CASE HoldsPrivilege(y) \/ CountCover(y)
  <2>1. /\ tx[y].pc \in {"locking", "count"} /\ tx[y].call \in Calls /\ Past(y)
        /\ UNCHANGED <<users, lock>>
    BY <1>1, <1>12 DEF HoldsPrivilege, CountCover, At, CallOK, CallFits, Past, rowVars
  <2>2. /\ tx'[y].pc \in {"count", "write", "recheck"} /\ tx'[y].call = tx[y].call
        /\ tx'[y].todo = tx[y].todo
        /\ tx'[y].pc = "write" =>
              ~Covers(id, P) \/ \E b \in Account \ {id} : Covers(b, P)
    BY <1>1, <1>12, <2>1 DEF HoldsPrivilege, CountCover, Goto, TxRow
  <2>4. (Counted(P, y))'
    BY <2>1, <2>2 DEF Counted, Covers, Enabled, Known
  <2>5. \A b \in Account : Has(y, b) => (Has(y, b))'
    BY <2>1, <2>2 DEF Has
  <2> QED BY <2>1, <2>2, <2>4, <2>5, HasStep
<1>13. CASE Write(y)
  <2>1. /\ tx[y].pc = "write" /\ tx[y].call \in Calls /\ UNCHANGED users
        /\ lock' = [lock EXCEPT ![id] = y] /\ StillHolds(tx[y].call)
    BY <1>1, <1>13 DEF Write, Update, At, CallOK, CallFits, rowVars
  <2>2. /\ tx'[y].pc \in {"sessions", "commit"} /\ tx'[y].call = tx[y].call
        /\ tx'[y].todo = tx[y].todo
    BY <1>1, <1>13 DEF Write, Update, Goto, TxRow
  <2>4. (Counted(P, y))'
    BY <2>1, <2>2 DEF GuardInv, Counted, Covers, Enabled, Known
  <2>5. \A b \in Account : Has(y, b) => (Has(y, b))'
    BY <1>1, <2>1, <2>2 DEF Has
  <2>6. CASE Past(y)
    BY <2>1, <2>2, <2>4, <2>5, <2>6, HasStep
  <2>7. CASE ~Past(y)
    BY <2>1, <2>2, <2>4, <2>7 DEF Past, HoldsOwn, Meets
  <2> QED BY <2>6, <2>7
<1>14. CASE RevokeRow(y) \/ RevokeSessions(y) \/ RevokeTokens(y)
  <2>1. /\ tx[y].pc \in {"sessions", "tokens"} /\ tx[y].call \in Calls
        /\ UNCHANGED <<users, lock>>
    BY <1>1, <1>14 DEF RevokeRow, TakeRow, RevokeSessions, RevokeTokens, Revoke, At, CallOK,
                       CallFits, rowVars
  <2>2. /\ tx'[y].pc \in {"sessions", "tokens", "commit"} /\ tx'[y].call = tx[y].call
        /\ tx'[y].todo = tx[y].todo
    BY <1>1, <1>14 DEF RevokeRow, TakeRow, RevokeSessions, RevokeTokens, Revoke, TxRow
  <2>4. (Counted(P, y))'
    BY <2>1, <2>2 DEF GuardInv, Counted, Covers, Enabled, Known
  <2>5. \A b \in Account : Has(y, b) => (Has(y, b))'
    BY <2>1, <2>2 DEF Has
  <2>6. CASE Past(y)
    BY <2>1, <2>2, <2>4, <2>5, <2>6, HasStep
  <2>7. CASE ~Past(y)
    BY <2>1, <2>2, <2>4, <2>7 DEF Past, HoldsOwn, Meets
  <2> QED BY <2>6, <2>7
<1> QED
  BY <1>5, <1>6, <1>7, <1>8, <1>9, <1>10, <1>11, <1>12, <1>13, <1>14 DEF Step

-----------------------------------------------------------------------------
LEMMA GuardStep ==
    ASSUME NEW P, OnlyGuarded(P), GuardInv(P), [Next]_vars
    PROVE  (GuardInv(P))'
<1>1. RowsInv'
  BY RowsStep DEF GuardInv
<1>2. ASSUME NEW y \in Tx, Frame(P, y),
             (HoldsOwn(P, y))' /\ (Counted(P, y))',
             \A x \in Tx \ {y} : (Meets(P, y, x))'
      PROVE  (GuardInv(P))'
  <2>1. \A x \in Tx : (HoldsOwn(P, x))' /\ (Counted(P, x))'
    BY <1>2, OthersStep
  <2>2. \A x, z \in Tx \ {y} : x # z => (Meets(P, x, z))'
    BY <1>2, OthersStep
  <2>3. \A x \in Tx \ {y} : (Meets(P, x, y))'
    BY <1>2 DEF Meets
  <2> QED BY <1>1, <1>2, <2>1, <2>2, <2>3 DEF GuardInv, Frame, LockFrame, CoverFrame
<1>3. CASE \E y \in Tx : \/ \E c \in Calls : Begin(y, c)
                         \/ \E role \in Grants : BeginGrant(y, role)
                         \/ Step(y)
                         \/ Fail(y)
  BY <1>2, <1>3, FrameStep, OwnStep DEF GuardInv
<1>4. ASSUME Frame(P, NoTx) PROVE (GuardInv(P))'
  <2>1. \A x \in Tx : /\ (HoldsOwn(P, x))' /\ (Counted(P, x))'
                      /\ \A z \in Tx : x # z => (Meets(P, x, z))'
    BY <1>4, OthersStep, TxAssumption
  <2> QED BY <1>1, <1>4, <2>1 DEF GuardInv, Frame, LockFrame, CoverFrame
<1>5. CASE UNCHANGED vars
  BY <1>1, <1>5 DEF vars, rowVars, txVars, GuardInv, HoldsOwn, Counted, Meets,
                    Past, Has, Privileged, Covers, Enabled, Known
<1> QED BY <1>3, <1>4, <1>5, InsertFrame DEF Next, GuardInv

LEMMA GuardInit == ASSUME NEW P PROVE Init => GuardInv(P)
<1> SUFFICES ASSUME Init PROVE GuardInv(P)
  OBVIOUS
<1>1. TypeOK /\ TxOK
  <2> DEFINE Before == {NoAccount} \cup [disabled : BOOLEAN, confirmed : {TRUE},
                                         role : RoleName, password : Password]
  <2>1. Before \subseteq Row \cup {NoAccount}
    BY DEF Row, RoleName
  <2>2. TypeOK
    <3>1. users \in [Account -> Before]
      BY DEF Init
    <3> HIDE DEF Before
    <3>2. users \in [Account -> Row \cup {NoAccount}]
      BY <2>1, <3>1
    <3> QED BY <3>2, BoundAssumption DEF Init, TypeOK
  <2>3. Idle \in [pc : PC, call : GuardCall \cup GrantCall \cup {NoCall},
                 todo : SUBSET Account, doomed : SUBSET (Session \cup Token)]
    BY DEF Idle, PC
  <2>4. TxOK
    BY <2>3 DEF Init, TxOK, Answer
  <2> QED BY <2>2, <2>4
<1>2. LocksOK /\ \A x \in Tx : tx[x].pc = "idle" /\ tx[x].todo = {}
  BY DEF Init, LocksOK, Idle
<1> QED
  BY <1>1, <1>2 DEF GuardInv, RowsInv, TypesOK, CallOK, CallFits, Written, HoldsOwn, Counted, Meets, Past

\* However many guarded writes run at once, on however many accounts, none takes the last
\* enabled privileged account: a covered store stays covered.
THEOREM GuardedWritesKeepCover ==
    ASSUME NEW P, OnlyGuarded(P)
    PROVE  Spec => CoverKept
<1>1. ASSUME GuardInv(P), [Next]_vars, Covered(P) PROVE Covered(P)'
  <2>1. ASSUME NEW y \in Tx \cup {NoTx}, Frame(P, y) PROVE Covered(P)'
    <3>1. PICK b \in Account : Covers(b, P)
      BY <1>1 DEF Covered
    <3>2. CASE y \in Tx /\ At(y, "commit") /\ Guarded(tx[y].call) /\ b = tx[y].call.id
      <4>1. PICK d \in Account \ {b} : Covers(d, P)
        BY <1>1, <3>1, <3>2 DEF GuardInv, Counted, At
      <4> QED BY <2>1, <3>2, <4>1 DEF Frame, LockFrame, CoverFrame, Covered
    <3> QED BY <2>1, <3>1, <3>2 DEF Frame, LockFrame, CoverFrame, Covered
  <2>2. CASE UNCHANGED vars
    BY <1>1, <2>2 DEF vars, rowVars, Covered, Covers, Enabled, Known
  <2>3. CASE \E y \in Tx : \/ \E c \in Calls : Begin(y, c)
                           \/ \E role \in Grants : BeginGrant(y, role)
                           \/ Step(y)
                           \/ Fail(y)
    BY <1>1, <2>1, <2>3, FrameStep DEF GuardInv
  <2> QED BY <1>1, <2>1, <2>2, <2>3, InsertFrame DEF Next, GuardInv
<1>2. GuardInv(P) /\ [Next]_vars => \A g \in Guards : Covered(g) => Covered(g)'
  BY <1>1 DEF OnlyGuarded
<1>3. GuardInv(P) /\ [Next]_vars => (GuardInv(P))'
  BY GuardStep
<1> QED BY <1>2, <1>3, GuardInit, PTL DEF Spec, CoverKept

\* What holds whatever calls are made, guarded or not.
LEMMA RowsInvariant == Spec => []RowsInv
<1>1. Init => RowsInv
  BY GuardInit DEF GuardInv
<1> QED BY <1>1, RowsStep, PTL DEF Spec

\* What a DELETE has got hold of is rows.
LEMMA TakenTyped ==
    ASSUME TypeOK, TakenOK, NEW x \in Tx,
           \/ taken' = taken \/ taken' = [taken EXCEPT ![x] = {}]
           \/ \E items \in SUBSET (sessions \cup tokens) : TakeRow(x, items)
    PROVE  TakenOK'
<1>1. CASE taken' = taken \/ taken' = [taken EXCEPT ![x] = {}]
  BY <1>1 DEF TakenOK
<1>2. ASSUME NEW items \in SUBSET (sessions \cup tokens), TakeRow(x, items) PROVE TakenOK'
  <2>1. PICK i \in items : taken' = [taken EXCEPT ![x] = @ \cup {i}]
    BY <1>2 DEF TakeRow
  <2>2. i \in Session \cup Token
    BY DEF TypeOK
  <2> QED BY <2>1, <2>2 DEF TakenOK
<1> QED BY <1>1, <1>2

LEMMA TakenNext ==
    ASSUME RowsInv, TakenOK, [Next]_vars
    PROVE  TakenOK'
<1>1. TypeOK
  BY DEF RowsInv, TypesOK
<1>2. ASSUME NEW x \in Tx,
             \/ \E c \in Calls : Begin(x, c)
             \/ \E role \in Grants : BeginGrant(x, role)
             \/ Step(x)
             \/ Fail(x)
      PROVE  TakenOK'
  <2>1. CASE RevokeRow(x)
    <3>1. Revoked(x) \in SUBSET (sessions \cup tokens)
      BY DEF Revoked
    <3> QED BY <1>1, <2>1, <3>1, TakenTyped DEF RevokeRow
  <2>2. CASE \/ \E c \in Calls : Begin(x, c)
             \/ \E role \in Grants : BeginGrant(x, role)
             \/ Fail(x)
    BY <1>1, <2>2, TakenTyped DEF Begin, BeginGrant, Open, Fail, Rollback, End
  <2>3. CASE Check(x) \/ HoldPrivileged(x) \/ LockPrivileged(x) \/ HoldsPrivilege(x) \/ CountCover(x)
    BY <1>1, <2>3, TakenTyped
       DEF Check, HoldPrivileged, LockPrivileged, HoldsPrivilege, CountCover, Rollback, End
  <2>4. CASE Recheck(x) \/ Write(x) \/ WriteMissed(x) \/ MissedOrMoved(x)
    BY <1>1, <2>4, TakenTyped
       DEF Recheck, Write, WriteMissed, MissedOrMoved, Update, Rollback, End
  <2>5. CASE \/ RevokeSessions(x) \/ RevokeTokens(x) \/ Commit(x)
             \/ MatchRoleless(x) \/ GrantRow(x) \/ CommitGrant(x)
    BY <1>1, <2>5, TakenTyped
       DEF RevokeSessions, RevokeTokens, Revoke, Commit, MatchRoleless, GrantRow, CommitGrant, End
  <2> QED BY <1>2, <2>1, <2>2, <2>3, <2>4, <2>5 DEF Step
<1>3. CASE UNCHANGED taken
  BY <1>3 DEF TakenOK
<1> QED BY <1>2, <1>3 DEF Next, InsertUser, InsertSession, vars, txVars

\* Every row, transaction and lock is one the code can be in, whatever calls are made.
THEOREM GuardTypes == Spec => []GuardTypeOK
<1>1. Init => TakenOK
  BY DEF Init, TakenOK
<1>2. RowsInv /\ TakenOK /\ [Next]_vars => TakenOK'
  BY TakenNext
<1>3. RowsInv /\ TakenOK => GuardTypeOK
  BY DEF RowsInv, TypesOK, GuardTypeOK
<1> QED BY <1>1, <1>2, <1>3, RowsInvariant, PTL DEF Spec

\* A write checked against a role commits only on an account that holds it to the last.
THEOREM CheckedWritesLand == Spec => CheckedWriteLands
<1>1. RowsInv /\ [Next]_vars =>
        \A x \in Tx : answer'[x] = "ok" /\ At(x, "commit") => StillHolds(tx[x].call)
  BY DEF RowsInv, Written, At
<1> QED BY <1>1, RowsInvariant, PTL DEF Spec, CheckedWriteLands

-----------------------------------------------------------------------------
\* The whole store.
GuardPC == {"check", "hold", "locking", "count", "recheck", "write", "missed",
            "sessions", "tokens", "commit"}
GrantPC == {"match", "granting"}
IssuePC == {"holdAccount", "countLive", "supersede", "insert"}
SpentPC == {"apply", "endSessions", "endResets", "redeemed"}
OwnedPC == {"holdOwner", "spend"} \cup SpentPC
SweepPC == {"expired", "unconfirmed", "stranded", "deleteExpired", "swept"}

\* A disable that ends the sessions and tokens of its account.
Revokes(c) == c.op = "disable" /\ c.disabled

\* A transaction's call, the accounts it has to do and the rows it has deleted are ones its
\* place in the code belongs to.
Suits(pc, c, todo, doomed) ==
    /\ pc = "idle" => c = NoCall
    /\ pc \in GuardPC => c \in Calls
    /\ pc \in {"sessions", "tokens"} => Revokes(c)
    /\ pc \in GrantPC => c \in GrantCall /\ c.role \in Grants
    /\ pc \in IssuePC => /\ c \in IssueCall
                         /\ c.token.purpose \in {"invite", "reset"}
                         /\ c.op = "replace" => c.token.purpose = "invite"
                         /\ c.token.expires <= MaxClock + 1
    /\ pc = "countLive" => c.op = "create"
    /\ pc = "supersede" => c.op = "replace"
    /\ pc \in {"find"} \cup OwnedPC => c \in RedeemCall
    /\ pc \in {"endSessions", "endResets"} => c.op = "reset"
    /\ pc \in OwnedPC => \E a \in Account : todo = {a}
    /\ pc \in SweepPC => c \in SweepCall
    /\ pc = "purge" => c \in PurgeCall
    /\ pc \notin {"locking", "granting", "unconfirmed", "stranded", "deleteExpired", "swept"}
                 \cup OwnedPC => todo = {}
    /\ pc \notin {"tokens", "commit", "insert", "deleteExpired", "swept"} \cup SpentPC => doomed = {}

\* x holds row a FOR UPDATE.
Keeps(x, a) == lock[a] = x /\ a \in keyed

\* A guarded write has the row it updates locked as it checked it, and of the rows a disable
\* deletes none it has passed is left.
GuardPhase(x, pc, c, doomed) ==
    /\ pc \in {"sessions", "tokens", "commit"} =>
          lock[c.id] = x /\ Known(c.id) /\ users[c.id].role \in c.from
    /\ pc \in {"tokens", "commit"} => \A i \in doomed : i.user = c.id
    /\ pc = "commit" /\ ~Revokes(c) => doomed = {}
    /\ pc \in {"tokens", "commit"} /\ Revokes(c) /\ ~LoginsOverlap =>
          \A s \in sessions : s.user = c.id => s \in doomed
    /\ pc = "commit" /\ Revokes(c) => \A t \in tokens : t.user = c.id => t \in doomed

\* An issue holds its account from holdAccount on, its secret stays unused, and what it counted
\* or superseded is still so.
IssuePhase(x, pc, c, doomed) ==
    /\ pc \in IssuePC =>
          /\ c.token.hash \notin minted
          /\ clock < c.token.expires
          /\ c.token.purpose = "reset" => Known(c.token.user) /\ users[c.token.user].confirmed
    /\ pc \in IssuePC \ {"holdAccount"} => Keeps(x, c.token.user) /\ MayHold(c)
    /\ pc = "insert" /\ c.op = "create" =>
          /\ doomed = {}
          /\ Cardinality(Standing(c.token.user, c.token.purpose)) < Cap(c.token.purpose)
    /\ pc = "insert" /\ c.op = "replace" => doomed = OfPurpose(c.token.user, c.token.purpose)

\* A redemption: the token behind its secret is the one it found or gone, the account is held
\* before the token is spent, and what it has ended of the account does not come back.
RedeemPhase(x, pc, c, todo, doomed) ==
    /\ pc \in {"idle", "find", "holdOwner"} => \A a \in Account : lock[a] # x
    /\ pc \in {"find"} \cup OwnedPC => c.hash \in minted /\ c.at <= clock
    /\ pc \in {"holdOwner", "spend"} =>
          \A t \in tokens : t.hash = c.hash => Found(c, t) /\ t.user \in todo
    /\ pc \in {"spend"} \cup SpentPC => \A a \in todo : Keeps(x, a) /\ Enabled(a)
    /\ pc \in SpentPC =>
          /\ \E t \in tokens : /\ t \in doomed /\ Found(c, t) /\ t.user \in todo
                               /\ c.op = "activate" => doomed = {t}
          /\ \A i \in doomed : /\ i.user \in todo
                               /\ i \in tokens => i.purpose = PurposeOf(c)
    /\ pc \in {"endResets", "redeemed"} /\ c.op = "reset" =>
          \A s \in sessions : s.user \in todo => s \in doomed
    /\ pc = "redeemed" /\ c.op = "reset" =>
          \A t \in tokens : t.user \in todo /\ t.purpose = "reset" => t \in doomed
    /\ pc = "redeemed" /\ c.op = "activate" => \A a \in todo : ~users[a].confirmed

ExpiredInvite(t, at) == t.purpose = "invite" /\ ~Live(t, at)

\* A sweep: the account of every expired invite, while unconfirmed, is one it has still to look
\* at or has locked, and in the end one it deletes or one that holds a live invite.
SweepPhase(x, pc, c, todo, doomed) ==
    /\ pc \in SweepPC \cup {"purge"} => c.at <= clock
    /\ pc \in {"idle"} \cup SweepPC => \A a \in Account : lock[a] = x => a \in keyed
    /\ pc = "unconfirmed" => \A t \in tokens : ExpiredInvite(t, c.at) => t.user \in todo
    /\ pc = "stranded" =>
          \A t \in tokens : ExpiredInvite(t, c.at) /\ ~users[t.user].confirmed =>
                               t.user \in todo \/ lock[t.user] = x
    /\ pc \in {"deleteExpired", "swept"} =>
          /\ \A t \in tokens : ExpiredInvite(t, c.at) /\ ~users[t.user].confirmed =>
                /\ lock[t.user] = x
                /\ \/ t.user \in todo
                   \/ \E u \in tokens : u.user = t.user /\ u.purpose = "invite" /\ Live(u, c.at)
          /\ \A a \in todo : lock[a] = x /\ Known(a) /\ ~users[a].confirmed
          /\ \A t \in tokens : t.user \in todo /\ t.purpose = "invite" => ~Live(t, c.at)
          /\ \A i \in sessions \cup tokens : i.user \in todo => i \in doomed
          /\ \A i \in doomed : \/ i.user \in todo
                               \/ pc = "swept" /\ i \in tokens /\ ~Live(i, c.at)
    /\ pc = "swept" => \A t \in tokens : ~Live(t, c.at) => t \in doomed

Phase(x, pc, c, todo, doomed) ==
    /\ GuardPhase(x, pc, c, doomed)
    /\ IssuePhase(x, pc, c, doomed)
    /\ RedeemPhase(x, pc, c, todo, doomed)
    /\ SweepPhase(x, pc, c, todo, doomed)

\* Two transactions delete no row in common and issue no secret in common.
Apart(pc, c, doomed, pc2, c2, doomed2) ==
    /\ doomed \cap doomed2 = {}
    /\ pc \in IssuePC /\ pc2 \in IssuePC => c.token.hash # c2.token.hash

TxTypes ==
    /\ tx \in [Tx -> StoreRow]
    /\ lock \in [Account -> Tx \cup {NoTx}]
    /\ keyed \subseteq Account
    /\ answer \in [Tx -> Answer]

RowsOK == TypeOK /\ IsFiniteSet(tokens) /\ Owned

StoreInv ==
    /\ RowsOK /\ TxTypes /\ LocksOK
    /\ \A x \in Tx : \A r \in {tx[x]} :
          /\ Suits(r.pc, r.call, r.todo, r.doomed)
          /\ Phase(x, r.pc, r.call, r.todo, r.doomed)
          /\ r.doomed \subseteq sessions \cup tokens
    /\ \A x, y \in Tx : x # y => Apart(tx[x].pc, tx[x].call, tx[x].doomed,
                                       tx[y].pc, tx[y].call, tx[y].doomed)

-----------------------------------------------------------------------------
\* What a step of transaction y leaves of transaction x.
Untouched(x) ==
    /\ tx'[x] = tx[x]
    /\ \A a \in Account :
          /\ lock'[a] = x <=> lock[a] = x
          /\ lock[a] = x => users'[a] = users[a] /\ (a \in keyed => a \in keyed')
    /\ \A t \in tokens' \ tokens : lock[t.user] # x
    /\ \A i \in tx[x].doomed : /\ i \in sessions => i \in sessions'
                               /\ i \in tokens => i \in tokens'
    /\ tx[x].pc \in IssuePC =>
          /\ tx[x].call.token.hash \notin minted'
          /\ clock' < tx[x].call.token.expires
    /\ \A t, u \in tokens :
          (/\ lock[t.user] = x /\ u.user = t.user /\ t.expires < u.expires
           /\ t \in tokens') => u \in tokens'

\* What a step of y, or a step of no transaction, does: of the tokens of an account another has
\* locked it adds none and removes none but the first to expire.
StoreFrame(y) ==
    /\ \A x \in Tx \ {y} : Untouched(x)
    /\ (LocksOK)'
    /\ minted \subseteq minted' /\ clock <= clock'
    /\ \A a \in Account : Known(a) /\ users[a].confirmed =>
                            users'[a] # NoAccount /\ users'[a].confirmed
    /\ \A t \in tokens' \ tokens : t.hash \notin minted /\ clock < t.expires
    /\ \A s \in sessions' \ sessions : /\ s.user \notin keyed
                                       /\ LoginsOverlap \/ NoDisable(s.user)

LEMMA GuardOthers ==
    ASSUME RowsOK, RowsOK', NEW y, StoreFrame(y), NEW x \in Tx \ {y}, NEW r \in StoreRow,
           r = tx[x], Suits(r.pc, r.call, r.todo, r.doomed),
           GuardPhase(x, r.pc, r.call, r.doomed)
    PROVE  (GuardPhase(x, r.pc, r.call, r.doomed))'
<1> DEFINE c == r.call
<1> SUFFICES ASSUME r.pc \in {"sessions", "tokens", "commit"}
             PROVE  (GuardPhase(x, r.pc, c, r.doomed))'
  BY DEF GuardPhase
<1>1. c \in Calls /\ c \in GuardCall /\ c.id \in Account /\ c.op \in {"role", "disable"}
  BY CallsAssumption DEF Suits, GuardPC, GuardCall
<1>2. lock[c.id] = x /\ Known(c.id) /\ users[c.id].role \in c.from
  BY DEF GuardPhase
<1>3. Untouched(x)
  BY DEF StoreFrame
<1>4. lock'[c.id] = x /\ users'[c.id] = users[c.id]
  BY <1>1, <1>2, <1>3 DEF Untouched
<1>5. \A s \in sessions' \ sessions : s.user = c.id => LoginsOverlap \/ c.op # "disable"
  BY <1>1, NoCallAssumption DEF StoreFrame, NoDisable, Ops
<1>6. \A t \in tokens' \ tokens : t.user # c.id
  BY <1>2, <1>3 DEF Untouched
<1> QED
  BY <1>2, <1>4, <1>5, <1>6 DEF GuardPhase, Known, Revokes

LEMMA IssueOthers ==
    ASSUME RowsOK, RowsOK', NEW y, StoreFrame(y), NEW x \in Tx \ {y}, NEW r \in StoreRow,
           r = tx[x], Suits(r.pc, r.call, r.todo, r.doomed),
           IssuePhase(x, r.pc, r.call, r.doomed)
    PROVE  (IssuePhase(x, r.pc, r.call, r.doomed))'
<1> DEFINE c == r.call
           a == c.token.user
           p == c.token.purpose
<1> SUFFICES ASSUME r.pc \in IssuePC
             PROVE  (IssuePhase(x, r.pc, c, r.doomed))'
  BY DEF IssuePhase, IssuePC
<1>1. c \in IssueCall /\ c.token \in Token /\ a \in Account
  BY DEF Suits, IssueCall, Token
<1>2. Untouched(x)
  BY DEF StoreFrame
<1>3. c.token.hash \notin minted' /\ clock' < c.token.expires
  BY <1>2 DEF Untouched
<1>4. p = "reset" => users'[a] # NoAccount /\ users'[a].confirmed
  BY <1>1 DEF StoreFrame, IssuePhase
<1>5. ASSUME r.pc # "holdAccount"
      PROVE  /\ (Keeps(x, a))' /\ users'[a] = users[a] /\ MayHold(c)
             /\ \A t \in tokens' \ tokens : t.user # a
  BY <1>1, <1>2, <1>5 DEF IssuePhase, Keeps, Untouched
<1>6. r.pc # "holdAccount" => (MayHold(c))'
  BY <1>5 DEF MayHold, Enabled, Unactivated, Known
<1>7. ASSUME r.pc = "insert", c.op = "create"
      PROVE  (Cardinality(Standing(a, p)) < Cap(p))'
  <2> DEFINE S == Standing(a, p)
             T == {t \in tokens' : t.user = a /\ t.purpose = p /\ Live(t, clock')}
  <2>1. T \subseteq S
    BY <1>5, <1>7 DEF StoreFrame, Live, Standing, RowsOK, TypeOK, Token
  <2>2. IsFiniteSet(S) /\ S \subseteq tokens
    BY FS_Subset DEF RowsOK, Standing
  <2>3. Cardinality(T) <= Cardinality(S)
    BY <2>1, <2>2, FS_Subset
  <2>4. Cardinality(S) \in Nat /\ Cardinality(T) \in Nat
    BY <2>1, <2>2, FS_Subset, FS_CardinalityType
  <2>5. Cardinality(S) < Cap(p) /\ Cap(p) \in Nat
    BY <1>7, BoundAssumption DEF IssuePhase, Cap
  <2>6. Cardinality(T) < Cap(p)
    <3> HIDE DEF S, T
    <3> QED BY <2>3, <2>4, <2>5
  <2> QED BY <2>6 DEF Standing, Live
<1>8. ASSUME r.pc = "insert", c.op = "replace"
      PROVE  (r.doomed = OfPurpose(a, p))'
  <2>1. r.doomed = {t \in tokens : t.user = a /\ t.purpose = p}
    BY <1>8 DEF IssuePhase, OfPurpose
  <2>2. \A i \in r.doomed : i \in tokens'
    BY <1>2, <2>1 DEF Untouched
  <2>3. \A t \in tokens' : t.user = a /\ t.purpose = p => t \in r.doomed
    BY <1>5, <1>8, <2>1
  <2>4. r.doomed = {t \in tokens' : t.user = a /\ t.purpose = p}
    BY <2>1, <2>2, <2>3
  <2> QED BY <2>4 DEF OfPurpose
<1>9. r.pc = "insert" /\ c.op = "create" => r.doomed = {}
  BY DEF IssuePhase
<1> QED
  BY <1>3, <1>4, <1>5, <1>6, <1>7, <1>8, <1>9 DEF IssuePhase, Known

LEMMA RedeemOthers ==
    ASSUME RowsOK, RowsOK', TxTypes, NEW y, StoreFrame(y), NEW x \in Tx \ {y}, NEW r \in StoreRow,
           r = tx[x], Suits(r.pc, r.call, r.todo, r.doomed),
           RedeemPhase(x, r.pc, r.call, r.todo, r.doomed)
    PROVE  (RedeemPhase(x, r.pc, r.call, r.todo, r.doomed))'
<1> DEFINE c == r.call
<1>1. Untouched(x)
  BY DEF StoreFrame
<1>2. r.todo \subseteq Account
  BY DEF StoreRow
<1>3. r.pc \in {"idle", "find", "holdOwner"} => \A a \in Account : lock'[a] # x
  BY <1>1 DEF RedeemPhase, Untouched
<1>4. r.pc \in {"find"} \cup OwnedPC => c \in RedeemCall /\ c.hash \in minted' /\ c.at <= clock'
  <2> SUFFICES ASSUME r.pc \in {"find"} \cup OwnedPC
               PROVE  c \in RedeemCall /\ c.hash \in minted' /\ c.at <= clock'
    OBVIOUS
  <2>1. c \in RedeemCall /\ c.at \in Nat /\ c.hash \in minted /\ c.at <= clock
    BY DEF Suits, RedeemCall, RedeemPhase
  <2>2. clock \in Nat /\ clock' \in Nat /\ clock <= clock' /\ minted \subseteq minted'
    BY BoundAssumption DEF RowsOK, TypeOK, StoreFrame
  <2> QED BY <2>1, <2>2
<1>5. ASSUME r.pc \in {"holdOwner", "spend"}
      PROVE  \A t \in tokens' : t.hash = c.hash => Found(c, t) /\ t.user \in r.todo
  <2>1. c.hash \in minted
    BY <1>5 DEF RedeemPhase, OwnedPC
  <2>2. \A t \in tokens' : t.hash = c.hash => t \in tokens
    BY <2>1 DEF StoreFrame
  <2> QED BY <1>5, <2>2 DEF RedeemPhase
<1>6. ASSUME r.pc \in {"spend"} \cup SpentPC, NEW a \in r.todo
      PROVE  (Keeps(x, a) /\ Enabled(a))' /\ users'[a] = users[a] /\ lock[a] = x
  <2>1. Keeps(x, a) /\ Enabled(a) /\ a \in Account
    BY <1>2, <1>6 DEF RedeemPhase
  <2> QED BY <1>1, <2>1 DEF Untouched, Keeps, Enabled, Known
<1>7. ASSUME r.pc \in SpentPC
      PROVE  /\ \E t \in tokens' : /\ t \in r.doomed /\ Found(c, t) /\ t.user \in r.todo
                                   /\ c.op = "activate" => r.doomed = {t}
             /\ \A i \in r.doomed : /\ i.user \in r.todo
                                    /\ i \in tokens' => i.purpose = PurposeOf(c)
  <2>1. PICK t \in tokens : /\ t \in r.doomed /\ Found(c, t) /\ t.user \in r.todo
                            /\ c.op = "activate" => r.doomed = {t}
    BY <1>7 DEF RedeemPhase
  <2>2. t \in tokens'
    BY <1>1, <2>1 DEF Untouched
  <2>3. ASSUME NEW i \in r.doomed
        PROVE  i.user \in r.todo /\ (i \in tokens' => i.purpose = PurposeOf(c))
    <3>1. i.user \in r.todo /\ (i \in tokens => i.purpose = PurposeOf(c))
      BY <1>7 DEF RedeemPhase
    <3>2. i \in tokens' => i \in tokens
      <4>1. lock[i.user] = x
        BY <1>6, <1>7, <3>1
      <4> QED BY <1>1, <4>1 DEF Untouched
    <3> QED BY <3>1, <3>2
  <2> QED BY <2>1, <2>2, <2>3
<1>8. ASSUME r.pc \in {"endResets", "redeemed"}, c.op = "reset"
      PROVE  \A s \in sessions' : s.user \in r.todo => s \in r.doomed
  <2>1. \A s \in sessions : s.user \in r.todo => s \in r.doomed
    BY <1>8 DEF RedeemPhase
  <2>2. \A a \in r.todo : a \in keyed
    BY <1>8 DEF RedeemPhase, SpentPC, Keeps
  <2> QED BY <2>1, <2>2 DEF StoreFrame
<1>9. ASSUME r.pc = "redeemed", c.op = "reset"
      PROVE  \A t \in tokens' : t.user \in r.todo /\ t.purpose = "reset" => t \in r.doomed
  <2>1. \A t \in tokens : t.user \in r.todo /\ t.purpose = "reset" => t \in r.doomed
    BY <1>9 DEF RedeemPhase
  <2>2. \A t \in tokens' : t.user \in r.todo => t \in tokens
    BY <1>1, <1>6, <1>9 DEF SpentPC, Untouched
  <2> QED BY <2>1, <2>2
<1>10. ASSUME r.pc = "redeemed", c.op = "activate", NEW a \in r.todo
       PROVE  ~users'[a].confirmed
  BY <1>6, <1>10 DEF RedeemPhase, SpentPC
<1> QED
  BY <1>3, <1>4, <1>5, <1>6, <1>7, <1>8, <1>9, <1>10 DEF RedeemPhase, Found, Live

LEMMA SweepOthers ==
    ASSUME RowsOK, RowsOK', TxTypes, NEW y, StoreFrame(y), NEW x \in Tx \ {y}, NEW r \in StoreRow,
           r = tx[x], Suits(r.pc, r.call, r.todo, r.doomed),
           SweepPhase(x, r.pc, r.call, r.todo, r.doomed)
    PROVE  (SweepPhase(x, r.pc, r.call, r.todo, r.doomed))'
<1> DEFINE c == r.call
<1>1. Untouched(x)
  BY DEF StoreFrame
<1>2. r.todo \subseteq Account
  BY DEF StoreRow
<1>3. r.pc \in {"idle"} \cup SweepPC => \A a \in Account : lock'[a] = x => a \in keyed'
  BY <1>1 DEF SweepPhase, Untouched
<1>12. r.pc = "purge" => c.at <= clock'
  BY BoundAssumption DEF Suits, PurgeCall, SweepPhase, RowsOK, TypeOK, StoreFrame
<1> SUFFICES ASSUME r.pc \in SweepPC PROVE (SweepPhase(x, r.pc, c, r.todo, r.doomed))'
  BY <1>3, <1>12 DEF SweepPhase, SweepPC
<1>4. /\ c.at \in Nat /\ c.at <= clock /\ clock \in Nat /\ clock' \in Nat /\ clock <= clock'
      /\ tokens \subseteq Token /\ tokens' \subseteq Token /\ sessions' \subseteq Session
  BY BoundAssumption DEF Suits, SweepCall, SweepPhase, RowsOK, TypeOK, StoreFrame
<1>5. c.at <= clock'
  BY <1>4
<1>6. \A t \in tokens' : ~Live(t, c.at) => t \in tokens
  BY <1>4 DEF StoreFrame, Live, Token
<1>7. \A t \in tokens : /\ t.user \in Account /\ Known(t.user)
                        /\ ~users'[t.user].confirmed => ~users[t.user].confirmed
  BY <1>4 DEF RowsOK, Owned, Token, StoreFrame
<1>8. r.pc = "unconfirmed" => \A t \in tokens' : ExpiredInvite(t, c.at) => t.user \in r.todo
  BY <1>6 DEF SweepPhase, ExpiredInvite
<1>9. r.pc = "stranded" =>
         \A t \in tokens' : ExpiredInvite(t, c.at) /\ ~users'[t.user].confirmed =>
                               t.user \in r.todo \/ lock'[t.user] = x
  BY <1>1, <1>6, <1>7 DEF SweepPhase, ExpiredInvite, Untouched
<1>10. ASSUME r.pc \in {"deleteExpired", "swept"}
       PROVE  /\ \A t \in tokens' : ExpiredInvite(t, c.at) /\ ~users'[t.user].confirmed =>
                    /\ lock'[t.user] = x
                    /\ \/ t.user \in r.todo
                       \/ \E u \in tokens' : u.user = t.user /\ u.purpose = "invite" /\ Live(u, c.at)
              /\ \A a \in r.todo : lock'[a] = x /\ users'[a] # NoAccount /\ ~users'[a].confirmed
              /\ \A t \in tokens' : t.user \in r.todo /\ t.purpose = "invite" => ~Live(t, c.at)
              /\ \A i \in sessions' \cup tokens' : i.user \in r.todo => i \in r.doomed
              /\ \A i \in r.doomed : \/ i.user \in r.todo
                                     \/ r.pc = "swept" /\ i \in tokens' /\ ~Live(i, c.at)
  <2>1. ASSUME NEW t \in tokens', ExpiredInvite(t, c.at), ~users'[t.user].confirmed
        PROVE  /\ lock'[t.user] = x
               /\ \/ t.user \in r.todo
                  \/ \E u \in tokens' : u.user = t.user /\ u.purpose = "invite" /\ Live(u, c.at)
    <3>1. t \in tokens /\ t.user \in Account /\ ~users[t.user].confirmed
      BY <1>6, <1>7, <2>1 DEF ExpiredInvite
    <3>2. /\ lock[t.user] = x
          /\ \/ t.user \in r.todo
             \/ \E u \in tokens : u.user = t.user /\ u.purpose = "invite" /\ Live(u, c.at)
      BY <1>10, <2>1, <3>1 DEF SweepPhase
    <3>3. ASSUME NEW u \in tokens, u.user = t.user, Live(u, c.at) PROVE u \in tokens'
      <4>1. t.expires < u.expires
        BY <1>4, <2>1, <3>1, <3>3 DEF ExpiredInvite, Live, Token
      <4> QED BY <1>1, <2>1, <3>1, <3>2, <3>3, <4>1 DEF Untouched
    <3> QED BY <1>1, <3>1, <3>2, <3>3 DEF Untouched
  <2>2. \A a \in r.todo : /\ lock[a] = x /\ Known(a) /\ ~users[a].confirmed /\ a \in keyed
                          /\ lock'[a] = x /\ users'[a] = users[a]
    BY <1>1, <1>2, <1>10 DEF SweepPhase, SweepPC, Untouched
  <2>3. \A t \in tokens' : t.user \in r.todo => t \in tokens
    BY <1>1, <2>2 DEF Untouched
  <2>4. \A s \in sessions' : s.user \in r.todo => s \in sessions
    BY <2>2 DEF StoreFrame
  <2>5. \A t \in tokens' : t.user \in r.todo /\ t.purpose = "invite" => ~Live(t, c.at)
    BY <1>10, <2>3 DEF SweepPhase
  <2>6. \A i \in sessions' \cup tokens' : i.user \in r.todo => i \in r.doomed
    BY <1>10, <2>3, <2>4 DEF SweepPhase
  <2>7. \A i \in r.doomed : \/ i.user \in r.todo
                            \/ r.pc = "swept" /\ i \in tokens' /\ ~Live(i, c.at)
    BY <1>1, <1>10 DEF SweepPhase, Untouched
  <2> QED BY <2>1, <2>2, <2>5, <2>6, <2>7 DEF Known
<1>11. r.pc = "swept" => \A t \in tokens' : ~Live(t, c.at) => t \in r.doomed
  BY <1>6 DEF SweepPhase
<1> QED
  BY <1>3, <1>5, <1>8, <1>9, <1>10, <1>11 DEF SweepPhase, ExpiredInvite, Live, Known

\* The transactions a step is not a step of keep their part of the invariant.
LEMMA StoreOthers ==
    ASSUME StoreInv, RowsOK', NEW y, StoreFrame(y), NEW x \in Tx \ {y}
    PROVE  /\ tx'[x] = tx[x]
           /\ (\A r \in {tx[x]} : /\ Suits(r.pc, r.call, r.todo, r.doomed)
                                  /\ Phase(x, r.pc, r.call, r.todo, r.doomed)
                                  /\ r.doomed \subseteq sessions \cup tokens)'
<1> PICK r \in StoreRow : r = tx[x]
  BY DEF StoreInv, TxTypes
<1>1. /\ RowsOK /\ TxTypes /\ Suits(r.pc, r.call, r.todo, r.doomed)
      /\ Phase(x, r.pc, r.call, r.todo, r.doomed)
      /\ r.doomed \subseteq sessions \cup tokens
  BY DEF StoreInv
<1>2. Untouched(x)
  BY DEF StoreFrame
<1>3. (Phase(x, r.pc, r.call, r.todo, r.doomed))'
  <2>1. (GuardPhase(x, r.pc, r.call, r.doomed))'
    BY <1>1, GuardOthers DEF Phase
  <2>2. (IssuePhase(x, r.pc, r.call, r.doomed))'
    BY <1>1, IssueOthers DEF Phase
  <2>3. (RedeemPhase(x, r.pc, r.call, r.todo, r.doomed))'
    BY <1>1, RedeemOthers DEF Phase
  <2>4. (SweepPhase(x, r.pc, r.call, r.todo, r.doomed))'
    BY <1>1, SweepOthers DEF Phase
  <2> QED BY <2>1, <2>2, <2>3, <2>4 DEF Phase
<1>4. r.doomed \subseteq sessions' \cup tokens'
  BY <1>1, <1>2 DEF Untouched
<1>5. tx'[x] = r
  BY <1>2 DEF Untouched
<1> QED BY <1>1, <1>3, <1>4, <1>5

\* A step of no transaction.
LEMMA NoTxStep ==
    ASSUME StoreInv, RowsOK', UNCHANGED <<tx, lock, keyed, answer>>, StoreFrame(NoTx)
    PROVE  StoreInv'
<1>1. (TxTypes)'
  BY DEF StoreInv, TxTypes
<1>2. \A x \in Tx : (\A r \in {tx[x]} : /\ Suits(r.pc, r.call, r.todo, r.doomed)
                                        /\ Phase(x, r.pc, r.call, r.todo, r.doomed)
                                        /\ r.doomed \subseteq sessions \cup tokens)'
  BY StoreOthers, TxAssumption
<1> QED BY <1>1, <1>2 DEF StoreInv, StoreFrame

\* A step that at most takes hold of a row to delete: what a DELETE under way has is no part of
\* the invariant.
LEMMA StillStep ==
    ASSUME StoreInv, UNCHANGED <<rowVars, tx, lock, keyed, answer>>
    PROVE  StoreInv'
<1>1. \A x \in Tx : tx[x].pc \in IssuePC => /\ tx[x].call.token.hash \notin minted
                                            /\ clock < tx[x].call.token.expires
  BY DEF StoreInv, Phase, IssuePhase
<1>2. RowsOK' /\ (LocksOK)' /\ clock <= clock'
  BY BoundAssumption DEF StoreInv, RowsOK, TypeOK, Owned, LocksOK, Known, rowVars
<1>3. StoreFrame(NoTx)
  BY <1>1, <1>2 DEF StoreFrame, Untouched, Known, rowVars
<1> QED BY <1>2, <1>3, NoTxStep

\* A step of y leaves the invariant when it leaves y's part of it, the rows', and y apart from
\* the others.
LEMMA OneTxStep ==
    ASSUME StoreInv, RowsOK', (TxTypes)', NEW y \in Tx, StoreFrame(y), NEW r \in StoreRow,
           tx'[y] = r, Suits(r.pc, r.call, r.todo, r.doomed),
           (Phase(y, r.pc, r.call, r.todo, r.doomed))',
           r.doomed \subseteq sessions' \cup tokens',
           \A x \in Tx \ {y} : Apart(r.pc, r.call, r.doomed, tx[x].pc, tx[x].call, tx[x].doomed)
    PROVE  StoreInv'
<1>1. \A x \in Tx \ {y} :
         /\ tx'[x] = tx[x]
         /\ (\A q \in {tx[x]} : /\ Suits(q.pc, q.call, q.todo, q.doomed)
                                /\ Phase(x, q.pc, q.call, q.todo, q.doomed)
                                /\ q.doomed \subseteq sessions \cup tokens)'
  BY StoreOthers
<1>2. (\A q \in {tx[y]} : /\ Suits(q.pc, q.call, q.todo, q.doomed)
                          /\ Phase(y, q.pc, q.call, q.todo, q.doomed)
                          /\ q.doomed \subseteq sessions \cup tokens)'
  OBVIOUS
<1>3. \A x \in Tx : (\A q \in {tx[x]} : /\ Suits(q.pc, q.call, q.todo, q.doomed)
                                        /\ Phase(x, q.pc, q.call, q.todo, q.doomed)
                                        /\ q.doomed \subseteq sessions \cup tokens)'
  BY <1>1, <1>2
<1>4. ASSUME NEW x \in Tx, NEW z \in Tx, x # z
      PROVE  Apart(tx'[x].pc, tx'[x].call, tx'[x].doomed, tx'[z].pc, tx'[z].call, tx'[z].doomed)
  <2>1. CASE x = y
    BY <1>1, <1>4, <2>1
  <2>2. CASE z = y
    BY <1>1, <1>4, <2>2 DEF Apart
  <2>3. CASE x # y /\ z # y
    BY <1>1, <1>4, <2>3 DEF StoreInv
  <2> QED BY <2>1, <2>2, <2>3
<1> QED BY <1>3, <1>4 DEF StoreInv, StoreFrame

\* A transaction ends.
LEMMA EndStep ==
    ASSUME StoreInv, RowsOK', NEW y \in Tx, NEW result \in Answer, End(y, result), StoreFrame(y)
    PROVE  StoreInv'
<1>1. Idle \in StoreRow
  BY DEF Idle, StoreRow, StorePC, PC, AnyCall
<1>2. (TxTypes)' /\ tx'[y] = Idle
  BY <1>1 DEF End, TxTypes, StoreInv
<1>3. Suits(Idle.pc, Idle.call, Idle.todo, Idle.doomed)
  BY DEF Suits, Idle, GuardPC, GrantPC, IssuePC, OwnedPC, SpentPC, SweepPC
<1>4. \A a \in Account : lock'[a] # y
  BY TxAssumption DEF End
<1>5. (Phase(y, "idle", NoCall, {}, {}))'
  BY <1>4 DEF Phase, GuardPhase, IssuePhase, RedeemPhase, SweepPhase, IssuePC, OwnedPC, SpentPC,
              SweepPC
<1>6. \A x \in Tx \ {y} : Apart("idle", NoCall, {}, tx[x].pc, tx[x].call, tx[x].doomed)
  BY DEF Apart, IssuePC
<1>7. Idle.pc = "idle" /\ Idle.call = NoCall /\ Idle.todo = {} /\ Idle.doomed = {}
  BY DEF Idle
<1> HIDE DEF Idle
<1> PICK r \in StoreRow : r = Idle
  BY <1>1
<1>8. (Phase(y, r.pc, r.call, r.todo, r.doomed))'
  BY <1>5, <1>7
<1> QED BY <1>2, <1>3, <1>6, <1>7, <1>8, OneTxStep

\* A step that leaves the committed rows alone and takes no lock but a free one.
Takes(y) ==
    \/ UNCHANGED <<lock, keyed>>
    \/ \E a \in Account : /\ Free(y, a) /\ Known(a)
                          /\ lock' = [lock EXCEPT ![a] = y]
                          /\ keyed' \in {keyed, keyed \cup {a}}

LEMMA QuietStoreFrame ==
    ASSUME StoreInv, NEW y \in Tx, UNCHANGED rowVars,
           \A x \in Tx \ {y} : /\ tx'[x] = tx[x]
                               /\ \A a \in Account : /\ lock'[a] = x <=> lock[a] = x
                                                     /\ lock[a] = x /\ a \in keyed => a \in keyed',
           \A a \in Account : lock'[a] # NoTx => lock[a] # NoTx \/ Known(a)
    PROVE  StoreFrame(y) /\ RowsOK'
<1>1. RowsOK'
  BY DEF rowVars, StoreInv, RowsOK, TypeOK, Owned, Known
<1>2. (LocksOK)'
  BY DEF rowVars, StoreInv, LocksOK, Known
<1>3. \A x \in Tx \ {y} : tx[x].pc \in IssuePC => /\ tx[x].call.token.hash \notin minted
                                                  /\ clock < tx[x].call.token.expires
  BY DEF StoreInv, Phase, IssuePhase
<1>4. \A x \in Tx \ {y} : Untouched(x)
  BY <1>3 DEF rowVars, Untouched
<1>5. clock <= clock'
  BY BoundAssumption DEF rowVars, StoreInv, RowsOK, TypeOK
<1> QED BY <1>1, <1>2, <1>4, <1>5 DEF StoreFrame, rowVars, Known

LEMMA RollbackStep ==
    ASSUME StoreInv, NEW y \in Tx, NEW result \in Answer, Rollback(y, result)
    PROVE  StoreInv'
<1>1. StoreFrame(y) /\ RowsOK'
  BY QuietStoreFrame, TxAssumption DEF Rollback, End, StoreInv, TxTypes
<1> QED BY <1>1, EndStep DEF Rollback

LEMMA QuietStep ==
    ASSUME StoreInv, NEW y \in Tx, UNCHANGED rowVars, Takes(y), answer' \in [Tx -> Answer],
           NEW pc \in StorePC, NEW c \in AnyCall, NEW todo \in SUBSET Account,
           NEW doomed \in SUBSET (sessions \cup tokens),
           Placed(y, pc, c, todo, doomed),
           Suits(pc, c, todo, doomed), (Phase(y, pc, c, todo, doomed))',
           \A x \in Tx \ {y} : Apart(pc, c, doomed, tx[x].pc, tx[x].call, tx[x].doomed)
    PROVE  StoreInv'
<1> PICK r : r = [pc |-> pc, call |-> c, todo |-> todo, doomed |-> doomed]
  OBVIOUS
<1>1. r \in StoreRow
  BY DEF StoreRow, StoreInv, RowsOK, TypeOK
<1>2. /\ tx \in [Tx -> StoreRow] /\ lock \in [Account -> Tx \cup {NoTx}] /\ keyed \subseteq Account
      /\ tx' = [tx EXCEPT ![y] = r]
  BY DEF StoreInv, TxTypes, Placed
<1>3. (TxTypes)' /\ tx'[y] = r
  BY <1>1, <1>2 DEF TxTypes, Takes
<1>4. StoreFrame(y) /\ RowsOK'
  <2>1. \A x \in Tx \ {y} : tx'[x] = tx[x]
    BY <1>2
  <2>2. \A x \in Tx \ {y}, a \in Account :
           /\ lock'[a] = x <=> lock[a] = x
           /\ lock[a] = x /\ a \in keyed => a \in keyed'
    BY <1>2, TxAssumption DEF Takes, Free
  <2>3. \A a \in Account : lock'[a] # NoTx => lock[a] # NoTx \/ Known(a)
    BY <1>2 DEF Takes
  <2> QED BY <2>1, <2>2, <2>3, QuietStoreFrame
<1>5. r.pc = pc /\ r.call = c /\ r.todo = todo /\ r.doomed = doomed
  OBVIOUS
<1>6. (Phase(y, r.pc, r.call, r.todo, r.doomed))'
  BY <1>5
<1>7. r.doomed \subseteq sessions' \cup tokens'
  BY <1>5 DEF rowVars
<1>8. RowsOK' /\ StoreFrame(y)
  BY <1>4
<1> QED BY <1>1, <1>3, <1>5, <1>6, <1>7, <1>8, OneTxStep

-----------------------------------------------------------------------------
\* Of the four phases only the one its call belongs to says anything of a transaction.
LEMMA PhaseOf ==
    ASSUME NEW x, NEW pc, NEW c, NEW todo, NEW doomed
    PROVE  /\ pc \in GuardPC \cup GrantPC =>
                 (Phase(x, pc, c, todo, doomed) <=> GuardPhase(x, pc, c, doomed))
           /\ pc \in IssuePC =>
                 (Phase(x, pc, c, todo, doomed) <=> IssuePhase(x, pc, c, doomed))
           /\ pc \in {"find"} \cup OwnedPC =>
                 (Phase(x, pc, c, todo, doomed) <=> RedeemPhase(x, pc, c, todo, doomed))
           /\ pc \in SweepPC \cup {"purge"} =>
                 (Phase(x, pc, c, todo, doomed) <=> SweepPhase(x, pc, c, todo, doomed))
<1>1. pc \notin {"sessions", "tokens", "commit"} => GuardPhase(x, pc, c, doomed)
  BY DEF GuardPhase
<1>2. pc \notin IssuePC => IssuePhase(x, pc, c, doomed)
  BY DEF IssuePhase, IssuePC
<1>3. pc \notin {"idle", "find"} \cup OwnedPC => RedeemPhase(x, pc, c, todo, doomed)
  BY DEF RedeemPhase, OwnedPC, SpentPC
<1>4. pc \notin {"idle", "purge"} \cup SweepPC => SweepPhase(x, pc, c, todo, doomed)
  BY DEF SweepPhase, SweepPC
<1> QED
  BY <1>1, <1>2, <1>3, <1>4 DEF Phase, GuardPC, GrantPC, IssuePC, OwnedPC, SpentPC, SweepPC

LEMMA PhaseOfNext ==
    ASSUME NEW x, NEW pc, NEW c, NEW todo, NEW doomed
    PROVE  /\ pc \in GuardPC \cup GrantPC =>
                 ((Phase(x, pc, c, todo, doomed))' <=> (GuardPhase(x, pc, c, doomed))')
           /\ pc \in IssuePC =>
                 ((Phase(x, pc, c, todo, doomed))' <=> (IssuePhase(x, pc, c, doomed))')
           /\ pc \in {"find"} \cup OwnedPC =>
                 ((Phase(x, pc, c, todo, doomed))' <=> (RedeemPhase(x, pc, c, todo, doomed))')
           /\ pc \in SweepPC \cup {"purge"} =>
                 ((Phase(x, pc, c, todo, doomed))' <=> (SweepPhase(x, pc, c, todo, doomed))')
<1>1. pc \notin {"sessions", "tokens", "commit"} => (GuardPhase(x, pc, c, doomed))'
  BY DEF GuardPhase
<1>2. pc \notin IssuePC => (IssuePhase(x, pc, c, doomed))'
  BY DEF IssuePhase, IssuePC
<1>3. pc \notin {"idle", "find"} \cup OwnedPC => (RedeemPhase(x, pc, c, todo, doomed))'
  BY DEF RedeemPhase, OwnedPC, SpentPC
<1>4. pc \notin {"idle", "purge"} \cup SweepPC => (SweepPhase(x, pc, c, todo, doomed))'
  BY DEF SweepPhase, SweepPC
<1> QED
  BY <1>1, <1>2, <1>3, <1>4 DEF Phase, GuardPC, GrantPC, IssuePC, OwnedPC, SpentPC, SweepPC

\* What the invariant says of one transaction.
LEMMA OwnRow ==
    ASSUME StoreInv, NEW y \in Tx
    PROVE  \E r \in StoreRow :
              /\ r = tx[y] /\ Suits(r.pc, r.call, r.todo, r.doomed)
              /\ Phase(y, r.pc, r.call, r.todo, r.doomed)
              /\ r.pc \in StorePC /\ r.call \in AnyCall /\ r.todo \in SUBSET Account
              /\ r.doomed \in SUBSET (sessions \cup tokens)
BY DEF StoreInv, TxTypes, StoreRow

\* The places a call is at before it has locked an account or deleted a row.
LEMMA GotoStep ==
    ASSUME StoreInv, NEW y \in Tx, NEW r \in StoreRow, r = tx[y],
           r.doomed \in SUBSET (sessions \cup tokens),
           UNCHANGED rowVars, Takes(y), answer' = answer, NEW pc \in StorePC, Goto(y, pc),
           Suits(pc, r.call, r.todo, r.doomed), (Phase(y, pc, r.call, r.todo, r.doomed))',
           pc \in IssuePC => r.pc \in IssuePC
    PROVE  StoreInv'
<1>1. r.call \in AnyCall /\ r.todo \in SUBSET Account
  BY DEF StoreRow
<1>2. tx \in [Tx -> StoreRow] /\ answer' \in [Tx -> Answer]
  BY DEF StoreInv, TxTypes
<1>3. Placed(y, pc, r.call, r.todo, r.doomed)
  <2>1. tx'[y] = [pc |-> pc, call |-> r.call, todo |-> r.todo, doomed |-> r.doomed]
    BY <1>2 DEF Goto, StoreRow
  <2> QED BY <1>2, <2>1 DEF Goto, Placed
<1>4. \A x \in Tx \ {y} :
         Apart(pc, r.call, r.doomed, tx[x].pc, tx[x].call, tx[x].doomed)
  BY DEF StoreInv, Apart
<1> QED BY <1>1, <1>2, <1>3, <1>4, QuietStep

\* The steps that change what a transaction has to do.
LEMMA TodoStep ==
    ASSUME StoreInv, NEW y \in Tx, NEW r \in StoreRow, r = tx[y],
           r.doomed \in SUBSET (sessions \cup tokens),
           UNCHANGED rowVars, Takes(y), answer' = answer, NEW pc \in StorePC,
           NEW todo \in SUBSET Account, Placed(y, pc, r.call, todo, r.doomed),
           Suits(pc, r.call, todo, r.doomed), (Phase(y, pc, r.call, todo, r.doomed))',
           pc \notin IssuePC
    PROVE  StoreInv'
<1>1. r.call \in AnyCall
  BY DEF StoreRow
<1>2. answer' \in [Tx -> Answer]
  BY DEF StoreInv, TxTypes
<1>3. \A x \in Tx \ {y} :
         Apart(pc, r.call, r.doomed, tx[x].pc, tx[x].call, tx[x].doomed)
  BY DEF StoreInv, Apart
<1> QED BY <1>1, <1>2, <1>3, QuietStep

\* The steps that delete rows no other transaction has deleted.
LEMMA DeleteStep ==
    ASSUME StoreInv, NEW y \in Tx, NEW r \in StoreRow, r = tx[y],
           UNCHANGED <<rowVars, lock, keyed, answer>>, NEW pc \in StorePC,
           NEW todo \in SUBSET Account, NEW doomed \in SUBSET (sessions \cup tokens),
           NEW items, doomed \subseteq r.doomed \cup items, ~Contended(y, items),
           Placed(y, pc, r.call, todo, doomed),
           Suits(pc, r.call, todo, doomed), (Phase(y, pc, r.call, todo, doomed))',
           pc \in IssuePC => r.pc \in IssuePC
    PROVE  StoreInv'
<1>1. r.call \in AnyCall
  BY DEF StoreRow
<1>2. answer' \in [Tx -> Answer] /\ Takes(y) /\ UNCHANGED rowVars
  BY DEF StoreInv, TxTypes, Takes
<1>3. ASSUME NEW x \in Tx \ {y}
      PROVE  Apart(pc, r.call, doomed, tx[x].pc, tx[x].call, tx[x].doomed)
  <2>1. Apart(r.pc, r.call, r.doomed, tx[x].pc, tx[x].call, tx[x].doomed)
    BY DEF StoreInv
  <2>2. tx[x].doomed \cap items = {}
    BY <1>3 DEF Contended
  <2> QED BY <2>1, <2>2 DEF Apart
<1> QED BY <1>1, <1>2, <1>3, QuietStep

LEMMA OpenStep ==
    ASSUME StoreInv, NEW y \in Tx, NEW c \in AnyCall, NEW pc \in StorePC, Open(y, c, pc),
           UNCHANGED rowVars, Suits(pc, c, {}, {}), (Phase(y, pc, c, {}, {}))',
           pc \in IssuePC => \A x \in Tx \ {y} :
              tx[x].pc \in IssuePC => tx[x].call.token.hash # c.token.hash
    PROVE  StoreInv'
<1>1. Placed(y, pc, c, {}, {})
  BY PlacedBy DEF StoreInv, TxTypes
<1>2. Takes(y) /\ answer' \in [Tx -> Answer]
  BY DEF Open, Takes, StoreInv, TxTypes, Answer
<1>3. \A x \in Tx \ {y} : Apart(pc, c, {}, tx[x].pc, tx[x].call, tx[x].doomed)
  BY DEF Apart
<1>4. {} \in SUBSET Account /\ {} \in SUBSET (sessions \cup tokens)
  OBVIOUS
<1> QED BY <1>1, <1>2, <1>3, <1>4, QuietStep

-----------------------------------------------------------------------------
\* The guarded writes short of their commit.
LEMMA GuardSteps ==
    ASSUME StoreInv, NEW y \in Tx,
           \/ \E c \in Calls : Begin(y, c)
           \/ Check(y) \/ HoldPrivileged(y) \/ LockPrivileged(y) \/ HoldsPrivilege(y)
           \/ CountCover(y) \/ Recheck(y) \/ Write(y) \/ WriteMissed(y) \/ MissedOrMoved(y)
           \/ RevokeSessions(y) \/ RevokeTokens(y)
    PROVE  StoreInv'
<1> PICK r \in StoreRow :
       /\ r = tx[y] /\ Suits(r.pc, r.call, r.todo, r.doomed)
       /\ Phase(y, r.pc, r.call, r.todo, r.doomed)
       /\ r.pc \in StorePC /\ r.call \in AnyCall /\ r.todo \in SUBSET Account
       /\ r.doomed \in SUBSET (sessions \cup tokens)
  BY OwnRow
<1> DEFINE c == r.call
<1>1. /\ Calls \subseteq GuardCall
      /\ r.pc \in GuardPC => /\ c \in Calls /\ c \in GuardCall /\ c.id \in Account
                             /\ c.op \in {"role", "disable"} /\ c.disabled \in BOOLEAN
  BY CallsAssumption DEF Suits, GuardCall
<1>2. tx \in [Tx -> StoreRow] /\ RowsOK /\ lock \in [Account -> Tx \cup {NoTx}]
  BY DEF StoreInv, TxTypes
\* The places before the UPDATE, where nothing is locked or deleted yet.
<1>3. ASSUME NEW pc \in GuardPC \ {"sessions", "tokens", "commit"}, NEW d, NEW todo, NEW doomed
      PROVE  pc \in StorePC /\ pc \notin IssuePC /\ (Phase(y, pc, d, todo, doomed))'
  BY PhaseOfNext DEF GuardPC, GuardPhase, StorePC, PC, IssuePC
<1>4. ASSUME NEW pc \in GuardPC \ {"sessions", "tokens", "commit"}, r.pc \in GuardPC, Goto(y, pc),
             UNCHANGED <<rowVars, lock, keyed, answer>>,
             r.pc \notin {"sessions", "tokens", "commit"},
             pc \notin {"locking"} => r.todo = {}
      PROVE  StoreInv'
  <2>1. Suits(pc, c, r.todo, r.doomed)
    BY <1>1, <1>4
       DEF Suits, GuardPC, GrantPC, IssuePC, OwnedPC, SpentPC, SweepPC
  <2> QED BY <1>3, <1>4, <2>1, GotoStep DEF Takes
<1>5. ASSUME NEW d \in Calls, Begin(y, d) PROVE StoreInv'
  <2> DEFINE pc == IF Checked(d) THEN "check" ELSE AfterCheck(d)
  <2>1. pc \in GuardPC \ {"sessions", "tokens", "commit"}
    BY DEF AfterCheck, GuardPC
  <2>2. Open(y, d, pc) /\ UNCHANGED rowVars
    BY <1>5 DEF Begin
  <2> HIDE DEF pc
  <2>3. d \in AnyCall
    BY <1>1 DEF AnyCall
  <2>4. Suits(pc, d, {}, {})
    BY <2>1 DEF Suits, GuardPC, GrantPC, IssuePC, OwnedPC, SpentPC, SweepPC
  <2> QED BY <1>3, <2>1, <2>2, <2>3, <2>4, OpenStep
<1>6. CASE Check(y)
  <2>1. CASE StillHolds(c) /\ Goto(y, AfterCheck(c)) /\ UNCHANGED <<rowVars, lock, keyed, answer>>
    <3>1. AfterCheck(c) \in GuardPC \ {"sessions", "tokens", "commit"}
      BY DEF AfterCheck, GuardPC
    <3>2. r.pc = "check" /\ r.todo = {}
      BY <1>6 DEF Check, At, Suits, OwnedPC, SpentPC
    <3> QED BY <1>4, <2>1, <3>1, <3>2 DEF GuardPC
  <2>2. CASE Rollback(y, Moved(c))
    BY <2>2, RollbackStep DEF Moved, Answer
  <2> QED BY <1>6, <2>1, <2>2 DEF Check
<1>7. CASE HoldPrivileged(y)
  <2> DEFINE todo == {a \in Account : Privileged(a, tx[y].call.privileged)}
  <2>1. r.pc = "hold" /\ UNCHANGED <<rowVars, lock, keyed, answer>>
    BY <1>7 DEF HoldPrivileged, At
  <2>2. Placed(y, "locking", c, todo, r.doomed)
    BY <1>2, <1>7, PlacedBy DEF HoldPrivileged
  <2>3. todo \in SUBSET Account
    OBVIOUS
  <2> HIDE DEF todo
  <2>4. Suits("locking", c, todo, r.doomed)
    BY <1>1, <2>1 DEF Suits, GuardPC, GrantPC, IssuePC, OwnedPC, SpentPC, SweepPC
  <2>5. "locking" \in GuardPC \ {"sessions", "tokens", "commit"}
    BY DEF GuardPC
  <2> QED BY <1>3, <2>1, <2>2, <2>3, <2>4, <2>5, TodoStep DEF Takes
<1>8. CASE LockPrivileged(y)
  <2> PICK a \in Account :
         /\ Free(y, a) /\ tx' = [tx EXCEPT ![y].todo = @ \ {a}]
         /\ IF Known(a)
            THEN lock' = [lock EXCEPT ![a] = y] /\ keyed' = keyed \cup {a}
            ELSE UNCHANGED <<lock, keyed>>
         /\ UNCHANGED <<rowVars, answer>>
    BY <1>8 DEF LockPrivileged
  <2>1. r.pc = "locking"
    BY <1>8 DEF LockPrivileged, At
  <2>2. Placed(y, "locking", c, r.todo \ {a}, r.doomed)
    BY <1>2, <2>1, PlacedBy
  <2>3. Suits("locking", c, r.todo \ {a}, r.doomed)
    BY <1>1, <2>1 DEF Suits, GuardPC, GrantPC, IssuePC, OwnedPC, SpentPC, SweepPC
  <2>4. Takes(y)
    BY DEF Takes
  <2>5. "locking" \in GuardPC \ {"sessions", "tokens", "commit"} /\ r.todo \ {a} \in SUBSET Account
    BY DEF GuardPC
  <2> QED BY <1>3, <2>2, <2>3, <2>4, <2>5, TodoStep
<1>9. CASE HoldsPrivilege(y) \/ CountCover(y)
  <2> PICK pc \in {"count", "write", "recheck"} :
         Goto(y, pc) /\ UNCHANGED <<rowVars, lock, keyed, answer>>
    BY <1>9 DEF HoldsPrivilege, CountCover
  <2>1. r.pc \in {"locking", "count"} /\ r.todo = {}
    BY <1>9 DEF HoldsPrivilege, CountCover, At, Suits, OwnedPC, SpentPC
  <2> QED BY <1>4, <2>1 DEF GuardPC
<1>10. CASE Recheck(y) \/ MissedOrMoved(y)
  BY <1>10, RollbackStep DEF Recheck, MissedOrMoved, Moved, Answer
<1>11. CASE Write(y)
  <2> PICK pc : pc = IF tx[y].call.op = "disable" /\ tx[y].call.disabled
                     THEN "sessions" ELSE "commit"
    OBVIOUS
  <2>1. r.pc = "write" /\ r.todo = {} /\ r.doomed = {}
    BY <1>11 DEF Write, At, Suits, OwnedPC, SpentPC
  <2>2. Update(y, c.id, pc) /\ UNCHANGED rowVars /\ StillHolds(c)
    BY <1>11 DEF Write
  <2>3. pc \in {"sessions", "commit"} /\ (pc = "sessions" <=> Revokes(c))
    BY DEF Revokes
  <2>4. r.pc \in GuardPC /\ pc \in GuardPC /\ pc \in StorePC /\ pc \notin IssuePC
    BY <2>1, <2>3 DEF GuardPC, StorePC, PC, IssuePC
  <2>5. Takes(y) /\ Goto(y, pc) /\ UNCHANGED answer /\ lock' = [lock EXCEPT ![c.id] = y]
    BY <1>1, <2>2, <2>4 DEF Update, Takes, StillHolds
  <2>6. Suits(pc, c, r.todo, r.doomed)
    BY <1>1, <2>1, <2>3, <2>4 DEF Suits, GuardPC, GrantPC, IssuePC, OwnedPC, SpentPC, SweepPC
  <2>7. (GuardPhase(y, pc, c, r.doomed))'
    <3>1. lock'[c.id] = y /\ users' = users /\ Known(c.id) /\ users[c.id].role \in c.from
      BY <1>1, <1>2, <2>2, <2>4, <2>5 DEF StillHolds, rowVars
    <3> QED BY <2>1, <2>3, <3>1 DEF GuardPhase, Known
  <2>8. (Phase(y, pc, c, r.todo, r.doomed))'
    BY <2>4, <2>7, PhaseOfNext
  <2> QED BY <2>2, <2>4, <2>5, <2>6, <2>8, GotoStep
<1>12. CASE WriteMissed(y)
  <2>1. r.pc = "write" /\ r.todo = {}
    BY <1>12 DEF WriteMissed, At, Suits, OwnedPC, SpentPC
  <2>2. CASE Goto(y, "missed") /\ UNCHANGED <<rowVars, lock, keyed, answer>>
    BY <1>4, <2>1, <2>2 DEF GuardPC
  <2> QED BY <1>12, <2>2, RollbackStep DEF WriteMissed, Answer
<1>13. CASE RevokeSessions(y)
  <2> DEFINE held == {i \in sessions : i.user = tx[y].call.id}
  <2>1. r.pc = "sessions" /\ ~Contended(y, held) /\ UNCHANGED <<rowVars, lock, keyed, answer>>
    BY <1>13 DEF RevokeSessions, Revoke, At
  <2> PICK doomed : doomed = r.doomed \cup held
    OBVIOUS
  <2>2. Placed(y, "tokens", c, r.todo, doomed)
    BY <1>2, <1>13, PlacedBy DEF RevokeSessions, Revoke
  <2>3. r.doomed = {} /\ r.todo = {} /\ r.pc \in GuardPC /\ Revokes(c)
    BY <2>1 DEF Suits, OwnedPC, SpentPC, GuardPC
  <2>4. (GuardPhase(y, "tokens", c, doomed))'
    <3>1. GuardPhase(y, r.pc, c, r.doomed)
      BY PhaseOf, <2>3
    <3>2. /\ lock[c.id] = y /\ Known(c.id) /\ users[c.id].role \in c.from
          /\ \A i \in doomed : i.user = c.id
          /\ \A s \in sessions : s.user = c.id => s \in doomed
      BY <2>1, <2>3, <3>1 DEF GuardPhase
    <3> QED BY <2>1, <2>3, <3>2 DEF GuardPhase, Known, rowVars
  <2>5. "tokens" \in GuardPC /\ "tokens" \in StorePC /\ "tokens" \notin IssuePC
    BY DEF GuardPC, StorePC, PC, IssuePC
  <2>6. Suits("tokens", c, r.todo, doomed)
    BY <1>1, <2>3 DEF Suits, GuardPC, GrantPC, IssuePC, OwnedPC, SpentPC, SweepPC
  <2>7. (Phase(y, "tokens", c, r.todo, doomed))'
    BY <2>4, <2>5, PhaseOfNext
  <2>8. doomed \in SUBSET (sessions \cup tokens) /\ doomed \subseteq r.doomed \cup held
    OBVIOUS
  <2> HIDE DEF held
  <2> QED BY <2>1, <2>2, <2>5, <2>6, <2>7, <2>8, DeleteStep
<1>14. CASE RevokeTokens(y)
  <2> DEFINE held == {i \in tokens : i.user = tx[y].call.id}
  <2>1. r.pc = "tokens" /\ ~Contended(y, held) /\ UNCHANGED <<rowVars, lock, keyed, answer>>
    BY <1>14 DEF RevokeTokens, Revoke, At
  <2> PICK doomed : doomed = r.doomed \cup held
    OBVIOUS
  <2>2. Placed(y, "commit", c, r.todo, doomed)
    BY <1>2, <1>14, PlacedBy DEF RevokeTokens, Revoke
  <2>3. r.todo = {} /\ r.pc \in GuardPC /\ Revokes(c)
    BY <2>1 DEF Suits, OwnedPC, SpentPC, GuardPC
  <2>4. (GuardPhase(y, "commit", c, doomed))'
    <3>1. GuardPhase(y, r.pc, c, r.doomed)
      BY PhaseOf, <2>3
    <3>2. /\ lock[c.id] = y /\ Known(c.id) /\ users[c.id].role \in c.from
          /\ \A i \in doomed : i.user = c.id
          /\ ~LoginsOverlap => \A s \in sessions : s.user = c.id => s \in doomed
          /\ \A t \in tokens : t.user = c.id => t \in doomed
      BY <2>1, <2>3, <3>1 DEF GuardPhase
    <3> QED BY <2>1, <2>3, <3>2 DEF GuardPhase, Known, rowVars
  <2>5. "commit" \in GuardPC /\ "commit" \in StorePC /\ "commit" \notin IssuePC
    BY DEF GuardPC, StorePC, PC, IssuePC
  <2>6. Suits("commit", c, r.todo, doomed)
    BY <1>1, <2>3 DEF Suits, GuardPC, GrantPC, IssuePC, OwnedPC, SpentPC, SweepPC
  <2>7. (Phase(y, "commit", c, r.todo, doomed))'
    BY <2>4, <2>5, PhaseOfNext
  <2>8. doomed \in SUBSET (sessions \cup tokens) /\ doomed \subseteq r.doomed \cup held
    OBVIOUS
  <2> HIDE DEF held
  <2> QED BY <2>1, <2>2, <2>5, <2>6, <2>7, <2>8, DeleteStep
<1> QED BY <1>5, <1>6, <1>7, <1>8, <1>9, <1>10, <1>11, <1>12, <1>13, <1>14

\* GrantRoleToRoleless short of its commit.
LEMMA GrantSteps ==
    ASSUME StoreInv, NEW y \in Tx,
           \/ \E role \in Grants : BeginGrant(y, role)
           \/ MatchRoleless(y) \/ GrantRow(y)
    PROVE  StoreInv'
<1> PICK r \in StoreRow :
       /\ r = tx[y] /\ Suits(r.pc, r.call, r.todo, r.doomed)
       /\ Phase(y, r.pc, r.call, r.todo, r.doomed)
       /\ r.pc \in StorePC /\ r.call \in AnyCall /\ r.todo \in SUBSET Account
       /\ r.doomed \in SUBSET (sessions \cup tokens)
  BY OwnRow
<1> DEFINE c == r.call
<1>1. tx \in [Tx -> StoreRow] /\ lock \in [Account -> Tx \cup {NoTx}]
  BY DEF StoreInv, TxTypes
<1>2. ASSUME NEW pc \in GrantPC, NEW d, NEW todo, NEW doomed
      PROVE  pc \in StorePC /\ pc \notin IssuePC /\ (Phase(y, pc, d, todo, doomed))'
  BY PhaseOfNext DEF GrantPC, GuardPhase, StorePC, PC, IssuePC
<1>3. ASSUME NEW role \in Grants, BeginGrant(y, role) PROVE StoreInv'
  <2> PICK d : d = [op |-> "grant", role |-> role]
    OBVIOUS
  <2>1. d \in GrantCall /\ d.role \in Grants
    BY CallsAssumption DEF GrantCall
  <2>2. Open(y, d, "match") /\ UNCHANGED rowVars
    BY <1>3 DEF BeginGrant
  <2>3. Suits("match", d, {}, {})
    BY <2>1 DEF Suits, GuardPC, GrantPC, IssuePC, OwnedPC, SpentPC, SweepPC
  <2>4. "match" \in GrantPC /\ d \in AnyCall
    BY <2>1 DEF GrantPC, AnyCall
  <2> QED BY <1>2, <2>2, <2>3, <2>4, OpenStep
<1>4. CASE MatchRoleless(y)
  <2> DEFINE todo == {a \in Account : Known(a) /\ users[a].role = NoRole}
  <2>1. r.pc = "match" /\ UNCHANGED <<rowVars, lock, keyed, answer>>
    BY <1>4 DEF MatchRoleless, At
  <2>2. Placed(y, "granting", c, todo, r.doomed)
    BY <1>1, <1>4, PlacedBy DEF MatchRoleless
  <2>3. todo \in SUBSET Account
    OBVIOUS
  <2> HIDE DEF todo
  <2>4. Suits("granting", c, todo, r.doomed)
    BY <2>1 DEF Suits, GuardPC, GrantPC, IssuePC, OwnedPC, SpentPC, SweepPC
  <2>5. "granting" \in GrantPC
    BY DEF GrantPC
  <2> QED BY <1>2, <2>1, <2>2, <2>3, <2>4, <2>5, TodoStep DEF Takes
<1>5. CASE GrantRow(y)
  <2> PICK a \in Account :
         /\ Free(y, a) /\ tx' = [tx EXCEPT ![y].todo = @ \ {a}]
         /\ lock' = IF Known(a) THEN [lock EXCEPT ![a] = y] ELSE lock
         /\ UNCHANGED <<rowVars, keyed, answer>>
    BY <1>5 DEF GrantRow
  <2>1. r.pc = "granting"
    BY <1>5 DEF GrantRow, At
  <2>2. Placed(y, "granting", c, r.todo \ {a}, r.doomed)
    BY <1>1, <2>1, PlacedBy
  <2>3. Suits("granting", c, r.todo \ {a}, r.doomed)
    BY <2>1 DEF Suits, GuardPC, GrantPC, IssuePC, OwnedPC, SpentPC, SweepPC
  <2>4. Takes(y)
    BY DEF Takes
  <2>5. "granting" \in GrantPC /\ r.todo \ {a} \in SUBSET Account
    BY DEF GrantPC
  <2> QED BY <1>2, <2>2, <2>3, <2>4, <2>5, TodoStep
<1> QED BY <1>3, <1>4, <1>5

\* CreateToken and ReplaceToken short of their commit.
LEMMA IssueBegins ==
    ASSUME StoreInv, NEW y \in Tx, IssueStep(y)
    PROVE  StoreInv'
<1>1. tokens \subseteq Token /\ clock \in 0..MaxClock /\ clock \in Nat /\ MaxClock \in Nat
  BY BoundAssumption DEF StoreInv, RowsOK, TypeOK
<1>2. PICK op \in {"create", "replace"}, purpose \in {"invite", "reset"}, hash \in Hash,
           a \in Account, expires \in (clock + 1)..(MaxClock + 1) :
         /\ BeginIssue(y, op, [hash |-> hash, user |-> a, purpose |-> purpose,
                               expires |-> expires])
         /\ op = "replace" => purpose = "invite"
         /\ purpose = "reset" => Known(a) /\ users[a].confirmed
  BY DEF IssueStep
<1> PICK t : t = [hash |-> hash, user |-> a, purpose |-> purpose, expires |-> expires]
  OBVIOUS
<1>3. /\ t \in Token /\ t.hash = hash /\ t.user = a /\ t.purpose = purpose /\ t.expires = expires
      /\ expires \in Nat /\ clock < expires /\ expires <= MaxClock + 1
  BY <1>1 DEF Token, Purpose
<1> PICK c : c = [op |-> op, token |-> t]
  OBVIOUS
<1>4. c \in IssueCall /\ c.op = op /\ c.token = t
  BY <1>3 DEF IssueCall
<1>5. Fresh(hash) /\ Open(y, c, "holdAccount") /\ UNCHANGED rowVars
  BY <1>2, <1>3, <1>4 DEF BeginIssue
<1>6. Suits("holdAccount", c, {}, {})
  BY <1>2, <1>3, <1>4 DEF Suits, GuardPC, GrantPC, IssuePC, OwnedPC, SpentPC, SweepPC
<1>7. "holdAccount" \in StorePC /\ "holdAccount" \in IssuePC /\ c \in AnyCall
  BY <1>4 DEF StorePC, PC, IssuePC, AnyCall
<1>8. (IssuePhase(y, "holdAccount", c, {}))'
  BY <1>2, <1>3, <1>4, <1>5 DEF IssuePhase, Fresh, rowVars, Known
<1>9. (Phase(y, "holdAccount", c, {}, {}))'
  BY <1>7, <1>8, PhaseOfNext
<1>10. ASSUME NEW x \in Tx \ {y}, tx[x].pc \in IssuePC PROVE tx[x].call.token.hash # c.token.hash
  <2>1. tx[x].call \in IssueCall
    BY <1>10 DEF StoreInv, Suits
  <2>2. tx[x].call # NoCall /\ tx[x].call.op \in {"create", "replace"}
    BY <2>1, NoCallAssumption DEF IssueCall
  <2> QED BY <1>3, <1>4, <1>5, <2>2 DEF Fresh, Ops
<1> QED BY <1>5, <1>6, <1>7, <1>9, <1>10, OpenStep

LEMMA IssueMoves ==
    ASSUME StoreInv, NEW y \in Tx, HoldAccount(y) \/ CountLive(y) \/ Supersede(y)
    PROVE  StoreInv'
<1> PICK r \in StoreRow :
       /\ r = tx[y] /\ Suits(r.pc, r.call, r.todo, r.doomed)
       /\ Phase(y, r.pc, r.call, r.todo, r.doomed)
       /\ r.pc \in StorePC /\ r.call \in AnyCall /\ r.todo \in SUBSET Account
       /\ r.doomed \in SUBSET (sessions \cup tokens)
  BY OwnRow
<1> DEFINE c == r.call
<1>1. tx \in [Tx -> StoreRow] /\ lock \in [Account -> Tx \cup {NoTx}] /\ keyed \subseteq Account
  BY DEF StoreInv, TxTypes
<1>2. /\ r.pc \in IssuePC /\ r.todo = {} /\ r.doomed = {}
      /\ c \in IssueCall /\ c.token.user \in Account /\ c.op \in {"create", "replace"}
  <2>1. r.pc \in {"holdAccount", "countLive", "supersede"}
    BY DEF HoldAccount, CountLive, Supersede, At
  <2> QED BY <2>1 DEF Suits, IssuePC, OwnedPC, SpentPC, IssueCall, Token
<1>3. IssuePhase(y, r.pc, c, r.doomed)
  BY <1>2, PhaseOf
<1>4. ASSUME NEW pc \in IssuePC, NEW doomed, (IssuePhase(y, pc, c, doomed))'
      PROVE  pc \in StorePC /\ (Phase(y, pc, c, r.todo, doomed))'
  <2>1. pc \in StorePC
    BY DEF StorePC, IssuePC
  <2> QED BY <1>4, <2>1, PhaseOfNext
<1>5. ASSUME NEW pc \in {"countLive", "supersede", "insert"}, NEW doomed,
             pc = "countLive" => c.op = "create", pc = "supersede" => c.op = "replace",
             pc # "insert" => doomed = {}
      PROVE  pc \in IssuePC /\ Suits(pc, c, r.todo, doomed)
  BY <1>2, <1>5 DEF Suits, GuardPC, GrantPC, IssuePC, OwnedPC, SpentPC, SweepPC
<1>6. CASE HoldAccount(y)
  <2>1. CASE MayHold(c) /\ ForUpdate(y, c.token.user, IF c.op = "create" THEN "countLive"
                                                      ELSE "supersede")
             /\ UNCHANGED rowVars
    <3> PICK pc : pc = IF c.op = "create" THEN "countLive" ELSE "supersede"
      OBVIOUS
    <3>1. pc \in {"countLive", "supersede"} /\ pc \in {"countLive", "supersede", "insert"}
      OBVIOUS
    <3>2. /\ Free(y, c.token.user) /\ Goto(y, pc) /\ UNCHANGED answer
          /\ lock' = [lock EXCEPT ![c.token.user] = y] /\ keyed' = keyed \cup {c.token.user}
      BY <2>1 DEF ForUpdate
    <3>3. Known(c.token.user)
      BY <2>1 DEF MayHold, Unactivated, Enabled
    <3>4. Takes(y)
      BY <1>2, <3>2, <3>3 DEF Takes
    <3>5. (Keeps(y, c.token.user))'
      BY <1>1, <1>2, <3>2 DEF Keeps
    <3>6. (MayHold(c))'
      BY <2>1 DEF MayHold, Unactivated, Enabled, Known, rowVars
    <3>7. (IssuePhase(y, pc, c, r.doomed))'
      BY <1>2, <1>3, <2>1, <3>1, <3>5, <3>6 DEF IssuePhase, rowVars, Known
    <3>8. pc \in IssuePC /\ Suits(pc, c, r.todo, r.doomed)
      BY <1>2, <1>5, <3>1
    <3> QED BY <1>2, <1>4, <2>1, <3>2, <3>4, <3>7, <3>8, GotoStep
  <2> QED BY <1>6, <2>1, RollbackStep DEF HoldAccount, Answer
<1>7. CASE CountLive(y)
  <2>1. CASE /\ Cardinality(Standing(c.token.user, c.token.purpose)) < Cap(c.token.purpose)
             /\ Goto(y, "insert")
             /\ UNCHANGED <<rowVars, lock, keyed, answer>>
    <3>1. r.pc = "countLive" /\ c.op = "create"
      BY <1>7 DEF CountLive, At, Suits
    <3>2. /\ Keeps(y, c.token.user) /\ MayHold(c) /\ c.token.hash \notin minted
          /\ clock < c.token.expires
          /\ c.token.purpose = "reset" => Known(c.token.user) /\ users[c.token.user].confirmed
      BY <1>2, <1>3, <3>1 DEF IssuePhase
    <3>3. (MayHold(c))' /\ (Keeps(y, c.token.user))'
      BY <2>1, <3>2 DEF MayHold, Unactivated, Enabled, Known, rowVars, Keeps
    <3>4. (Cardinality(Standing(c.token.user, c.token.purpose)) < Cap(c.token.purpose))'
      BY <2>1 DEF Standing, rowVars
    <3>5. (IssuePhase(y, "insert", c, r.doomed))'
      BY <1>2, <2>1, <3>1, <3>2, <3>3, <3>4 DEF IssuePhase, rowVars, Known
    <3>6. "insert" \in IssuePC /\ Suits("insert", c, r.todo, r.doomed)
      BY <1>5
    <3> QED BY <1>2, <1>4, <2>1, <3>5, <3>6, GotoStep DEF Takes
  <2> QED BY <1>7, <2>1, RollbackStep DEF CountLive, Answer
<1>8. CASE Supersede(y)
  <2> DEFINE items == OfPurpose(c.token.user, c.token.purpose)
  <2>1. /\ r.pc = "supersede" /\ c.op = "replace" /\ Delete(y, items, "insert")
    BY <1>8 DEF Supersede, At, Suits
  <2> PICK doomed : doomed = r.doomed \cup items
    OBVIOUS
  <2>2. doomed = items
    BY <1>2
  <2>3. Placed(y, "insert", c, r.todo, doomed)
    BY <1>1, <2>1, PlacedBy DEF Delete
  <2>4. ~Contended(y, items) /\ UNCHANGED <<rowVars, lock, keyed, answer>>
    BY <2>1 DEF Delete
  <2>5. /\ Keeps(y, c.token.user) /\ MayHold(c) /\ c.token.hash \notin minted
        /\ clock < c.token.expires
        /\ c.token.purpose = "reset" => Known(c.token.user) /\ users[c.token.user].confirmed
    BY <1>2, <1>3, <2>1 DEF IssuePhase
  <2>6. (MayHold(c))' /\ (Keeps(y, c.token.user))'
    BY <2>4, <2>5 DEF MayHold, Unactivated, Enabled, Known, rowVars, Keeps
  <2>7. (doomed = OfPurpose(c.token.user, c.token.purpose))'
    BY <2>2, <2>4 DEF OfPurpose, rowVars
  <2>8. (IssuePhase(y, "insert", c, doomed))'
    BY <2>1, <2>4, <2>5, <2>6, <2>7 DEF IssuePhase, rowVars, Known
  <2>9. "insert" \in IssuePC /\ Suits("insert", c, r.todo, doomed)
    BY <1>5
  <2>10. doomed \in SUBSET (sessions \cup tokens) /\ doomed \subseteq r.doomed \cup items
    BY <2>2 DEF OfPurpose
  <2> HIDE DEF items
  <2> QED BY <1>2, <1>4, <2>3, <2>4, <2>8, <2>9, <2>10, DeleteStep
<1> QED BY <1>6, <1>7, <1>8

\* ActivateByToken and ResetByToken short of their commit.
LEMMA RedeemBegins ==
    ASSUME StoreInv, NEW y \in Tx, RedeemStep(y)
    PROVE  StoreInv'
<1>1. minted \subseteq Hash /\ clock \in Nat
  BY BoundAssumption DEF StoreInv, RowsOK, TypeOK
<1>2. PICK op \in {"activate", "reset"}, hash \in minted, password \in Password :
         BeginRedeem(y, op, hash, clock, password)
  BY DEF RedeemStep
<1> PICK c : c = [op |-> op, hash |-> hash, at |-> clock, password |-> password]
  OBVIOUS
<1>3. c \in RedeemCall /\ c.hash = hash /\ c.at = clock
  BY <1>1 DEF RedeemCall
<1>4. Open(y, c, "find") /\ UNCHANGED rowVars
  BY <1>2 DEF BeginRedeem
<1>5. Suits("find", c, {}, {})
  BY <1>3 DEF Suits, GuardPC, GrantPC, IssuePC, OwnedPC, SpentPC, SweepPC
<1>6. "find" \in StorePC /\ "find" \notin IssuePC /\ c \in AnyCall
  BY <1>3 DEF StorePC, PC, IssuePC, AnyCall
<1>7. \A a \in Account : lock[a] # y
  BY <1>4, OwnRow DEF Open, At, Phase, RedeemPhase
<1>8. lock' = lock
  BY <1>4 DEF Open
<1>9. (RedeemPhase(y, "find", c, {}, {}))'
  BY <1>1, <1>3, <1>4, <1>7, <1>8 DEF RedeemPhase, OwnedPC, SpentPC, rowVars
<1>10. (Phase(y, "find", c, {}, {}))'
  BY <1>9, PhaseOfNext
<1> QED BY <1>4, <1>5, <1>6, <1>10, OpenStep

LEMMA RedeemMoves ==
    ASSUME StoreInv, NEW y \in Tx,
           Find(y) \/ HoldOwner(y) \/ Spend(y) \/ Apply(y) \/ EndSessions(y) \/ EndResets(y)
    PROVE  StoreInv'
<1> PICK r \in StoreRow :
       /\ r = tx[y] /\ Suits(r.pc, r.call, r.todo, r.doomed)
       /\ Phase(y, r.pc, r.call, r.todo, r.doomed)
       /\ r.pc \in StorePC /\ r.call \in AnyCall /\ r.todo \in SUBSET Account
       /\ r.doomed \in SUBSET (sessions \cup tokens)
  BY OwnRow
<1> DEFINE c == r.call
<1>1. /\ tx \in [Tx -> StoreRow] /\ lock \in [Account -> Tx \cup {NoTx}] /\ keyed \subseteq Account
      /\ tokens \subseteq Token /\ users \in [Account -> Row \cup {NoAccount}]
  BY DEF StoreInv, TxTypes, RowsOK, TypeOK
<1>2. /\ r.pc \in {"find"} \cup OwnedPC /\ c \in RedeemCall /\ c.op \in {"activate", "reset"}
      /\ c.hash \in minted /\ c.at <= clock
  <2>1. r.pc \in {"find", "holdOwner", "spend", "apply", "endSessions", "endResets"}
    BY DEF Find, HoldOwner, Spend, Apply, EndSessions, EndResets, At
  <2>2. r.pc \in {"find"} \cup OwnedPC
    BY <2>1 DEF OwnedPC, SpentPC
  <2> QED BY <2>2 DEF Suits, Phase, RedeemPhase, RedeemCall
<1>3. RedeemPhase(y, r.pc, c, r.todo, r.doomed)
  BY <1>2, PhaseOf
<1>4. ASSUME NEW pc \in OwnedPC, NEW todo, NEW doomed, (RedeemPhase(y, pc, c, todo, doomed))'
      PROVE  pc \in StorePC /\ pc \notin IssuePC /\ (Phase(y, pc, c, todo, doomed))'
  <2>1. pc \in StorePC /\ pc \notin IssuePC
    BY DEF StorePC, IssuePC, OwnedPC, SpentPC
  <2> QED BY <1>4, <2>1, PhaseOfNext
<1>5. ASSUME NEW pc \in OwnedPC, NEW todo, NEW doomed, \E a \in Account : todo = {a},
             pc \notin SpentPC => doomed = {}, pc \in {"endSessions", "endResets"} => c.op = "reset"
      PROVE  Suits(pc, c, todo, doomed)
  BY <1>2, <1>5 DEF Suits, GuardPC, GrantPC, IssuePC, OwnedPC, SpentPC, SweepPC
<1>6. CASE Find(y)
  <2> DEFINE found == {t \in tokens : Found(c, t)}
             held == {t.user : t \in found}
  <2>1. r.pc = "find" /\ r.doomed = {}
    BY <1>6 DEF Find, At, Suits, SpentPC
  <2>2. CASE /\ held # {}
             /\ tx' = [tx EXCEPT ![y].pc = "holdOwner", ![y].todo = held]
             /\ UNCHANGED <<rowVars, lock, keyed, answer>>
    <3>1. PICK t \in found : held = {t.user}
      <4>1. PICK t \in found : t.user \in held
        BY <2>2
      <4>2. \A u \in found : u = t
        BY DEF Found, StoreInv, RowsOK, Owned
      <4> QED BY <4>1, <4>2
    <3> PICK todo : todo = held
      OBVIOUS
    <3>2. Placed(y, "holdOwner", c, todo, r.doomed)
      BY <1>1, <2>2, PlacedBy
    <3>3. t \in tokens /\ Found(c, t) /\ t.user \in Account /\ todo = {t.user}
      BY <1>1, <3>1 DEF Token
    <3>4. \A u \in tokens : u.hash = c.hash => Found(c, u) /\ u.user \in todo
      BY <3>3 DEF Found, StoreInv, RowsOK, Owned
    <3>5. \A a \in Account : lock[a] # y
      BY <1>3, <2>1 DEF RedeemPhase
    <3>6. (RedeemPhase(y, "holdOwner", c, todo, r.doomed))'
      BY <1>2, <2>2, <3>4, <3>5 DEF RedeemPhase, SpentPC, rowVars, Found, Live
    <3>7. "holdOwner" \in OwnedPC /\ Suits("holdOwner", c, todo, r.doomed)
      BY <1>5, <2>1, <3>3 DEF OwnedPC, SpentPC
    <3>8. todo \in SUBSET Account
      BY <3>3
    <3> QED BY <1>4, <2>2, <3>2, <3>6, <3>7, <3>8, TodoStep DEF Takes
  <2> QED BY <1>6, <2>2, RollbackStep DEF Find, Answer
<1>7. CASE HoldOwner(y)
  <2>1. r.pc = "holdOwner" /\ r.doomed = {}
    BY <1>7 DEF HoldOwner, At, Suits, SpentPC
  <2>2. PICK b \in Account : r.todo = {b}
    BY <2>1 DEF Suits, OwnedPC
  <2>3. CASE Enabled(b) /\ ForUpdate(y, b, "spend") /\ UNCHANGED rowVars
    <3>1. /\ Free(y, b) /\ Goto(y, "spend") /\ UNCHANGED answer
          /\ lock' = [lock EXCEPT ![b] = y] /\ keyed' = keyed \cup {b}
      BY <2>3 DEF ForUpdate
    <3>2. Takes(y)
      BY <2>3, <3>1 DEF Takes, Enabled
    <3>3. (Keeps(y, b))' /\ (Enabled(b))'
      BY <1>1, <2>3, <3>1 DEF Keeps, Enabled, Known, rowVars
    <3>4. \A u \in tokens : u.hash = c.hash => Found(c, u) /\ u.user \in r.todo
      BY <1>3, <2>1 DEF RedeemPhase
    <3>5. (RedeemPhase(y, "spend", c, r.todo, r.doomed))'
      BY <1>2, <2>2, <2>3, <3>3, <3>4 DEF RedeemPhase, SpentPC, rowVars, Found, Live
    <3>6. "spend" \in OwnedPC /\ Suits("spend", c, r.todo, r.doomed)
      BY <1>5, <2>1, <2>2 DEF OwnedPC, SpentPC
    <3> QED BY <1>4, <2>3, <3>1, <3>2, <3>5, <3>6, GotoStep
  <2> QED BY <1>7, <2>2, <2>3, RollbackStep DEF HoldOwner, Answer
<1>8. CASE Spend(y)
  <2> DEFINE spent == {t \in tokens : t.hash = tx[y].call.hash}
  <2>1. r.pc = "spend" /\ r.doomed = {}
    BY <1>8 DEF Spend, At, Suits, SpentPC
  <2>2. PICK b \in Account : r.todo = {b}
    BY <2>1 DEF Suits, OwnedPC
  <2>3. CASE spent # {} /\ Delete(y, spent, "apply")
    <3>1. PICK t \in tokens : spent = {t}
      <4>1. PICK t \in tokens : t.hash = c.hash
        BY <2>3
      <4>2. \A u \in spent : u = t
        BY <4>1 DEF StoreInv, RowsOK, Owned
      <4> QED BY <4>1, <4>2
    <3> PICK doomed : doomed = r.doomed \cup spent
      OBVIOUS
    <3>2. doomed = {t} /\ Found(c, t) /\ t.user \in r.todo
      BY <1>3, <2>1, <3>1 DEF RedeemPhase
    <3>3. ~Contended(y, spent) /\ UNCHANGED <<rowVars, lock, keyed, answer>>
      BY <2>3 DEF Delete
    <3>4. Placed(y, "apply", c, r.todo, doomed)
      BY <1>1, <2>3, PlacedBy DEF Delete
    <3>5. (Keeps(y, b))' /\ (Enabled(b))'
      <4>1. Keeps(y, b) /\ Enabled(b)
        BY <1>3, <2>1, <2>2 DEF RedeemPhase
      <4> QED BY <3>3, <4>1 DEF Keeps, Enabled, Known, rowVars
    <3>6. t.purpose = PurposeOf(c)
      BY <3>2 DEF Found
    <3>7. (RedeemPhase(y, "apply", c, r.todo, doomed))'
      BY <1>2, <2>2, <3>2, <3>3, <3>5, <3>6 DEF RedeemPhase, SpentPC, rowVars, Found, Live
    <3>8. "apply" \in OwnedPC /\ Suits("apply", c, r.todo, doomed)
      BY <1>5, <2>2 DEF OwnedPC, SpentPC
    <3>9. doomed \in SUBSET (sessions \cup tokens) /\ doomed \subseteq r.doomed \cup spent
      BY <3>2
    <3> HIDE DEF spent
    <3> QED BY <1>4, <3>3, <3>4, <3>7, <3>8, <3>9, DeleteStep
  <2> QED BY <1>8, <2>3, RollbackStep DEF Spend, Answer
<1>9. CASE Apply(y)
  <2>1. r.pc = "apply"
    BY <1>9 DEF Apply, At
  <2>2. PICK b \in Account : r.todo = {b}
    BY <2>1 DEF Suits, OwnedPC, SpentPC
  <2>3. CASE /\ c.op = "reset" \/ ~users[b].confirmed
             /\ Update(y, b, IF c.op = "reset" THEN "endSessions" ELSE "redeemed")
             /\ UNCHANGED rowVars
    <3> PICK pc : pc = IF c.op = "reset" THEN "endSessions" ELSE "redeemed"
      OBVIOUS
    <3>1. /\ Free(y, b) /\ Goto(y, pc) /\ UNCHANGED <<keyed, answer>>
          /\ lock' = [lock EXCEPT ![b] = y]
      BY <2>3 DEF Update
    <3>2. Keeps(y, b) /\ Enabled(b)
      BY <1>3, <2>1, <2>2 DEF RedeemPhase, SpentPC
    <3>3. Takes(y) /\ (Keeps(y, b))' /\ (Enabled(b))'
      BY <1>1, <2>3, <3>1, <3>2 DEF Takes, Keeps, Enabled, Known, rowVars
    <3>4. /\ \E t \in tokens : /\ t \in r.doomed /\ Found(c, t) /\ t.user \in r.todo
                               /\ c.op = "activate" => r.doomed = {t}
          /\ \A i \in r.doomed : /\ i.user \in r.todo
                                 /\ i \in tokens => i.purpose = PurposeOf(c)
      BY <1>3, <2>1 DEF RedeemPhase, SpentPC
    <3>5. pc \in {"endSessions", "redeemed"} /\ (pc = "endSessions" <=> c.op = "reset")
      OBVIOUS
    <3>6. (RedeemPhase(y, pc, c, r.todo, r.doomed))'
      BY <1>2, <2>2, <2>3, <3>3, <3>4, <3>5 DEF RedeemPhase, SpentPC, rowVars, Found, Live
    <3>7. pc \in OwnedPC /\ Suits(pc, c, r.todo, r.doomed)
      BY <1>5, <2>2, <3>5 DEF OwnedPC, SpentPC
    <3> QED BY <1>4, <2>3, <3>1, <3>3, <3>6, <3>7, GotoStep
  <2> QED BY <1>9, <2>2, <2>3, RollbackStep DEF Apply, Answer
<1>10. CASE EndSessions(y)
  <2>1. r.pc = "endSessions" /\ c.op = "reset"
    BY <1>10 DEF EndSessions, At, Suits
  <2>2. PICK b \in Account : r.todo = {b}
    BY <2>1 DEF Suits, OwnedPC, SpentPC
  <2> DEFINE items == {s \in sessions : s.user = b}
  <2>3. Delete(y, items, "endResets")
    BY <1>10, <2>2 DEF EndSessions
  <2> PICK doomed : doomed = r.doomed \cup items
    OBVIOUS
  <2>4. ~Contended(y, items) /\ UNCHANGED <<rowVars, lock, keyed, answer>>
    BY <2>3 DEF Delete
  <2>5. Placed(y, "endResets", c, r.todo, doomed)
    BY <1>1, <2>3, PlacedBy DEF Delete
  <2>6. (Keeps(y, b))' /\ (Enabled(b))'
    <3>1. Keeps(y, b) /\ Enabled(b)
      BY <1>3, <2>1, <2>2 DEF RedeemPhase, SpentPC
    <3> QED BY <2>4, <3>1 DEF Keeps, Enabled, Known, rowVars
  <2>7. /\ \E t \in tokens : t \in doomed /\ Found(c, t) /\ t.user \in r.todo
        /\ \A i \in doomed : /\ i.user \in r.todo
                             /\ i \in tokens => i.purpose = PurposeOf(c)
        /\ \A s \in sessions : s.user \in r.todo => s \in doomed
    <3>1. /\ \E t \in tokens : t \in r.doomed /\ Found(c, t) /\ t.user \in r.todo
          /\ \A i \in r.doomed : /\ i.user \in r.todo
                                 /\ i \in tokens => i.purpose = PurposeOf(c)
      BY <1>3, <2>1 DEF RedeemPhase, SpentPC
    <3>2. \A s \in sessions : s \notin tokens
      BY DEF StoreInv, RowsOK, Owned
    <3> QED BY <2>2, <3>1, <3>2
  <2>8. (RedeemPhase(y, "endResets", c, r.todo, doomed))'
    BY <1>2, <2>1, <2>2, <2>4, <2>6, <2>7 DEF RedeemPhase, SpentPC, rowVars, Found, Live
  <2>9. "endResets" \in OwnedPC /\ Suits("endResets", c, r.todo, doomed)
    BY <1>5, <2>1, <2>2 DEF OwnedPC, SpentPC
  <2>10. doomed \in SUBSET (sessions \cup tokens) /\ doomed \subseteq r.doomed \cup items
    OBVIOUS
  <2> HIDE DEF items
  <2> QED BY <1>4, <2>4, <2>5, <2>8, <2>9, <2>10, DeleteStep
<1>11. CASE EndResets(y)
  <2>1. r.pc = "endResets" /\ c.op = "reset"
    BY <1>11 DEF EndResets, At, Suits
  <2>2. PICK b \in Account : r.todo = {b}
    BY <2>1 DEF Suits, OwnedPC, SpentPC
  <2> DEFINE items == OfPurpose(b, "reset")
  <2>3. Delete(y, items, "redeemed")
    BY <1>11, <2>2 DEF EndResets
  <2> PICK doomed : doomed = r.doomed \cup items
    OBVIOUS
  <2>4. ~Contended(y, items) /\ UNCHANGED <<rowVars, lock, keyed, answer>>
    BY <2>3 DEF Delete
  <2>5. Placed(y, "redeemed", c, r.todo, doomed)
    BY <1>1, <2>3, PlacedBy DEF Delete
  <2>6. (Keeps(y, b))' /\ (Enabled(b))'
    <3>1. Keeps(y, b) /\ Enabled(b)
      BY <1>3, <2>1, <2>2 DEF RedeemPhase, SpentPC
    <3> QED BY <2>4, <3>1 DEF Keeps, Enabled, Known, rowVars
  <2>7. /\ \E t \in tokens : t \in doomed /\ Found(c, t) /\ t.user \in r.todo
        /\ \A i \in doomed : /\ i.user \in r.todo
                             /\ i \in tokens => i.purpose = PurposeOf(c)
        /\ \A s \in sessions : s.user \in r.todo => s \in doomed
        /\ \A t \in tokens : t.user \in r.todo /\ t.purpose = "reset" => t \in doomed
    <3>1. /\ \E t \in tokens : t \in r.doomed /\ Found(c, t) /\ t.user \in r.todo
          /\ \A i \in r.doomed : /\ i.user \in r.todo
                                 /\ i \in tokens => i.purpose = PurposeOf(c)
          /\ \A s \in sessions : s.user \in r.todo => s \in r.doomed
      BY <1>3, <2>1 DEF RedeemPhase, SpentPC
    <3>2. PurposeOf(c) = "reset"
      BY <2>1 DEF PurposeOf
    <3> QED BY <2>2, <3>1, <3>2 DEF OfPurpose
  <2>8. (RedeemPhase(y, "redeemed", c, r.todo, doomed))'
    BY <1>2, <2>1, <2>2, <2>4, <2>6, <2>7 DEF RedeemPhase, SpentPC, rowVars, Found, Live
  <2>9. "redeemed" \in OwnedPC /\ Suits("redeemed", c, r.todo, doomed)
    BY <1>5, <2>2 DEF OwnedPC, SpentPC
  <2>10. doomed \in SUBSET (sessions \cup tokens) /\ doomed \subseteq r.doomed \cup items
    BY DEF OfPurpose
  <2> HIDE DEF items
  <2> QED BY <1>4, <2>4, <2>5, <2>8, <2>9, <2>10, DeleteStep
<1> QED BY <1>6, <1>7, <1>8, <1>9, <1>10, <1>11

\* DeleteExpiredTokens short of its commit.
LEMMA SweepBegins ==
    ASSUME StoreInv, NEW y \in Tx, BeginSweep(y, clock)
    PROVE  StoreInv'
<1>1. clock \in Nat
  BY BoundAssumption DEF StoreInv, RowsOK, TypeOK
<1> PICK c : c = [op |-> "sweep", at |-> clock]
  OBVIOUS
<1>2. c \in SweepCall /\ c.at = clock
  BY <1>1 DEF SweepCall
<1>3. Open(y, c, "expired") /\ UNCHANGED rowVars
  BY DEF BeginSweep
<1>4. Suits("expired", c, {}, {})
  BY <1>2 DEF Suits, GuardPC, GrantPC, IssuePC, OwnedPC, SpentPC, SweepPC
<1>5. "expired" \in StorePC /\ "expired" \notin IssuePC /\ c \in AnyCall /\ "expired" \in SweepPC
  BY <1>2 DEF StorePC, PC, IssuePC, AnyCall, SweepPC
<1>6. \A a \in Account : lock[a] # y
  BY <1>3, OwnRow DEF Open, At, Phase, RedeemPhase
<1>7. lock' = lock
  BY <1>3 DEF Open
<1>8. (SweepPhase(y, "expired", c, {}, {}))'
  BY <1>1, <1>2, <1>3, <1>6, <1>7 DEF SweepPhase, rowVars
<1>9. (Phase(y, "expired", c, {}, {}))'
  BY <1>5, <1>8, PhaseOfNext
<1> QED BY <1>3, <1>4, <1>5, <1>9, OpenStep

\* DeleteExpiredSessions begins.
LEMMA PurgeBegins ==
    ASSUME StoreInv, NEW y \in Tx, BeginPurge(y, clock)
    PROVE  StoreInv'
<1>1. clock \in Nat
  BY BoundAssumption DEF StoreInv, RowsOK, TypeOK
<1> PICK c : c = [op |-> "purge", at |-> clock]
  OBVIOUS
<1>2. c \in PurgeCall /\ c.at = clock
  BY <1>1 DEF PurgeCall
<1>3. Open(y, c, "purge") /\ UNCHANGED rowVars
  BY DEF BeginPurge
<1>4. Suits("purge", c, {}, {})
  BY <1>2 DEF Suits, GuardPC, GrantPC, IssuePC, OwnedPC, SpentPC, SweepPC
<1>5. "purge" \in StorePC /\ "purge" \notin IssuePC /\ c \in AnyCall
  BY <1>2 DEF StorePC, PC, IssuePC, AnyCall
<1>6. (SweepPhase(y, "purge", c, {}, {}))'
  BY <1>1, <1>2, <1>3 DEF SweepPhase, SweepPC, rowVars
<1>7. (Phase(y, "purge", c, {}, {}))'
  BY <1>6, PhaseOfNext
<1> QED BY <1>3, <1>4, <1>5, <1>7, OpenStep

LEMMA SweepMoves ==
    ASSUME StoreInv, NEW y \in Tx,
           \/ ReadExpired(y) \/ ReadUnconfirmed(y) \/ LockStranded(y) \/ DeleteStranded(y)
           \/ DeleteExpired(y)
    PROVE  StoreInv'
<1> PICK r \in StoreRow :
       /\ r = tx[y] /\ Suits(r.pc, r.call, r.todo, r.doomed)
       /\ Phase(y, r.pc, r.call, r.todo, r.doomed)
       /\ r.pc \in StorePC /\ r.call \in AnyCall /\ r.todo \in SUBSET Account
       /\ r.doomed \in SUBSET (sessions \cup tokens)
  BY OwnRow
<1> DEFINE c == r.call
<1>1. /\ tx \in [Tx -> StoreRow] /\ lock \in [Account -> Tx \cup {NoTx}] /\ keyed \subseteq Account
      /\ tokens \subseteq Token
  BY DEF StoreInv, TxTypes, RowsOK, TypeOK
<1>2. r.pc \in SweepPC /\ c \in SweepCall
  <2>1. r.pc \in SweepPC
    BY DEF ReadExpired, ReadUnconfirmed, LockStranded, DeleteStranded, DeleteExpired, At, SweepPC
  <2> QED BY <2>1 DEF Suits
<1>3. SweepPhase(y, r.pc, c, r.todo, r.doomed)
  BY <1>2, PhaseOf
<1>4. c.at <= clock /\ \A a \in Account : lock[a] = y => a \in keyed
  BY <1>2, <1>3 DEF SweepPhase
<1>5. ASSUME NEW pc \in SweepPC, NEW todo, NEW doomed, (SweepPhase(y, pc, c, todo, doomed))'
      PROVE  pc \in StorePC /\ pc \notin IssuePC /\ (Phase(y, pc, c, todo, doomed))'
  <2>1. pc \in StorePC /\ pc \notin IssuePC
    BY DEF StorePC, IssuePC, SweepPC
  <2> QED BY <1>5, <2>1, PhaseOfNext
<1>6. ASSUME NEW pc \in SweepPC, NEW todo, NEW doomed,
             pc \notin {"deleteExpired", "swept"} => doomed = {}, pc = "expired" => todo = {}
      PROVE  Suits(pc, c, todo, doomed)
  BY <1>2, <1>6 DEF Suits, GuardPC, GrantPC, IssuePC, OwnedPC, SpentPC, SweepPC
<1>7. CASE ReadExpired(y)
  <2> PICK todo : todo = {t.user : t \in {u \in tokens : u.purpose = "invite"
                                                 /\ ~Live(u, c.at)}}
    OBVIOUS
  <2>1. r.pc = "expired" /\ r.doomed = {} /\ UNCHANGED <<rowVars, lock, keyed, answer>>
    BY <1>7 DEF ReadExpired, At, Suits, SpentPC
  <2>2. Placed(y, "unconfirmed", c, todo, r.doomed)
    BY <1>1, <1>7, PlacedBy DEF ReadExpired
  <2>3. todo \in SUBSET Account /\ \A t \in tokens : ExpiredInvite(t, c.at) => t.user \in todo
    BY <1>1 DEF Token, ExpiredInvite
  <2>4. (SweepPhase(y, "unconfirmed", c, todo, r.doomed))'
    BY <1>4, <2>1, <2>3 DEF SweepPhase, rowVars, ExpiredInvite, Live
  <2>5. "unconfirmed" \in SweepPC /\ Suits("unconfirmed", c, todo, r.doomed)
    BY <1>6, <2>1 DEF SweepPC
  <2> QED BY <1>5, <2>1, <2>2, <2>3, <2>4, <2>5, TodoStep DEF Takes
<1>8. CASE ReadUnconfirmed(y)
  <2> PICK todo : todo = {a \in r.todo : Known(a) /\ ~users[a].confirmed}
    OBVIOUS
  <2>1. r.pc = "unconfirmed" /\ r.doomed = {} /\ UNCHANGED <<rowVars, lock, keyed, answer>>
    BY <1>8 DEF ReadUnconfirmed, At, Suits, SpentPC
  <2>2. Placed(y, "stranded", c, todo, r.doomed)
    <3>1. tx' = [tx EXCEPT ![y].pc = "stranded", ![y].todo = todo]
      BY <1>8 DEF ReadUnconfirmed
    <3> QED BY <1>1, <3>1, PlacedBy
  <2>3. /\ todo \in SUBSET Account
        /\ \A t \in tokens : ExpiredInvite(t, c.at) /\ ~users[t.user].confirmed => t.user \in todo
    BY <1>3, <2>1 DEF SweepPhase, StoreInv, RowsOK, Owned
  <2>4. (SweepPhase(y, "stranded", c, todo, r.doomed))'
    BY <1>4, <2>1, <2>3 DEF SweepPhase, rowVars, ExpiredInvite, Live
  <2>5. "stranded" \in SweepPC /\ Suits("stranded", c, todo, r.doomed)
    BY <1>6, <2>1 DEF SweepPC
  <2> QED BY <1>5, <2>1, <2>2, <2>3, <2>4, <2>5, TodoStep DEF Takes
<1>9. CASE LockStranded(y)
  <2> PICK a \in Account :
         /\ Free(y, a) /\ tx' = [tx EXCEPT ![y].todo = @ \ {a}]
         /\ IF Known(a)
            THEN lock' = [lock EXCEPT ![a] = y] /\ keyed' = keyed \cup {a}
            ELSE UNCHANGED <<lock, keyed>>
         /\ UNCHANGED <<rowVars, answer>>
    BY <1>9 DEF LockStranded
  <2>1. r.pc = "stranded" /\ r.doomed = {}
    BY <1>9 DEF LockStranded, At, Suits, SpentPC
  <2> PICK todo : todo = r.todo \ {a}
    OBVIOUS
  <2>2. Placed(y, "stranded", c, todo, r.doomed)
    BY <1>1, <2>1, PlacedBy
  <2>3. Takes(y)
    BY DEF Takes
  <2>4. \A b \in Account : lock'[b] = y => b \in keyed'
    BY <1>1, <1>4
  <2>5. \A t \in tokens : ExpiredInvite(t, c.at) /\ ~users[t.user].confirmed =>
                             t.user \in todo \/ lock'[t.user] = y
    <3>1. \A t \in tokens : t.user \in Account /\ Known(t.user)
      BY <1>1 DEF Token, StoreInv, RowsOK, Owned
    <3>2. \A t \in tokens : ExpiredInvite(t, c.at) /\ ~users[t.user].confirmed =>
                               t.user \in r.todo \/ lock[t.user] = y
      BY <1>3, <2>1 DEF SweepPhase
    <3> QED BY <1>1, <3>1, <3>2
  <2>6. (SweepPhase(y, "stranded", c, todo, r.doomed))'
    BY <1>4, <2>4, <2>5 DEF SweepPhase, rowVars, ExpiredInvite, Live
  <2>7. "stranded" \in SweepPC /\ Suits("stranded", c, todo, r.doomed) /\ todo \in SUBSET Account
    BY <1>6, <2>1 DEF SweepPC
  <2> QED BY <1>5, <2>2, <2>3, <2>6, <2>7, TodoStep
<1>10. CASE DeleteStranded(y)
  <2>1. PICK gone : gone = {a \in Account :
                    /\ lock[a] = y /\ ~users[a].confirmed
                    /\ ~\E t \in OfPurpose(a, "invite") : Live(t, c.at)}
    OBVIOUS
  <2>2. PICK rows : rows = {i \in sessions \cup tokens : i.user \in gone}
    OBVIOUS
  <2>3. /\ r.pc = "stranded" /\ r.doomed = {} /\ r.todo = {} /\ ~Contended(y, rows)
        /\ tx' = [tx EXCEPT ![y].pc = "deleteExpired", ![y].todo = gone, ![y].doomed = rows]
        /\ UNCHANGED <<rowVars, lock, keyed, answer>>
    BY <1>10, <2>1, <2>2 DEF DeleteStranded, Gone, At, Suits, SpentPC
  <2>4. Placed(y, "deleteExpired", c, gone, rows)
    <3>1. tx'[y] = [pc |-> "deleteExpired", call |-> c, todo |-> gone, doomed |-> rows]
      BY <1>1, <2>3 DEF StoreRow
    <3> QED BY <2>3, <3>1 DEF Placed
  <2>5. \A t \in tokens : ExpiredInvite(t, c.at) /\ ~users[t.user].confirmed =>
           /\ lock[t.user] = y
           /\ \/ t.user \in gone
              \/ \E u \in tokens : u.user = t.user /\ u.purpose = "invite" /\ Live(u, c.at)
    <3>1. \A t \in tokens : ExpiredInvite(t, c.at) /\ ~users[t.user].confirmed =>
                               lock[t.user] = y
      BY <1>3, <2>3 DEF SweepPhase
    <3> QED BY <1>1, <2>1, <3>1 DEF Token, OfPurpose
  <2>6. \A a \in gone : lock[a] = y /\ Known(a) /\ ~users[a].confirmed
    BY <2>1, TxAssumption DEF StoreInv, LocksOK
  <2>7. \A t \in tokens : t.user \in gone /\ t.purpose = "invite" => ~Live(t, c.at)
    BY <1>1, <2>1 DEF OfPurpose, Token
  <2>8. (SweepPhase(y, "deleteExpired", c, gone, rows))'
    BY <1>4, <2>3, <2>5, <2>6, <2>7, <2>2 DEF SweepPhase, rowVars, ExpiredInvite, Live, Known
  <2>9. "deleteExpired" \in SweepPC /\ Suits("deleteExpired", c, gone, rows)
    BY <1>6 DEF SweepPC
  <2>10. /\ gone \in SUBSET Account /\ rows \in SUBSET (sessions \cup tokens)
         /\ rows \subseteq r.doomed \cup rows
    BY <2>1, <2>2
  <2> QED BY <1>5, <2>3, <2>4, <2>8, <2>9, <2>10, DeleteStep
<1>11. CASE DeleteExpired(y)
  <2> DEFINE items == {t \in tokens : ~Live(t, tx[y].call.at)}
  <2>1. r.pc = "deleteExpired" /\ Delete(y, items, "swept")
    BY <1>11 DEF DeleteExpired, At
  <2> PICK doomed : doomed = r.doomed \cup items
    OBVIOUS
  <2>2. ~Contended(y, items) /\ UNCHANGED <<rowVars, lock, keyed, answer>>
    BY <2>1 DEF Delete
  <2>3. Placed(y, "swept", c, r.todo, doomed)
    BY <1>1, <2>1, PlacedBy DEF Delete
  <2>4. /\ \A t \in tokens : ExpiredInvite(t, c.at) /\ ~users[t.user].confirmed =>
              /\ lock[t.user] = y
              /\ \/ t.user \in r.todo
                 \/ \E u \in tokens : u.user = t.user /\ u.purpose = "invite" /\ Live(u, c.at)
        /\ \A a \in r.todo : lock[a] = y /\ Known(a) /\ ~users[a].confirmed
        /\ \A t \in tokens : t.user \in r.todo /\ t.purpose = "invite" => ~Live(t, c.at)
        /\ \A i \in sessions \cup tokens : i.user \in r.todo => i \in r.doomed
        /\ \A i \in r.doomed : i.user \in r.todo
    BY <1>3, <2>1 DEF SweepPhase
  <2>5. /\ \A i \in sessions \cup tokens : i.user \in r.todo => i \in doomed
        /\ \A i \in doomed : i.user \in r.todo \/ (i \in tokens /\ ~Live(i, c.at))
        /\ \A t \in tokens : ~Live(t, c.at) => t \in doomed
    BY <2>4
  <2>6. (SweepPhase(y, "swept", c, r.todo, doomed))'
    BY <1>4, <2>2, <2>4, <2>5 DEF SweepPhase, rowVars, ExpiredInvite, Live, Known
  <2>7. "swept" \in SweepPC /\ Suits("swept", c, r.todo, doomed)
    BY <1>6 DEF SweepPC
  <2>8. doomed \in SUBSET (sessions \cup tokens) /\ doomed \subseteq r.doomed \cup items
    OBVIOUS
  <2> HIDE DEF items
  <2> QED BY <1>5, <2>2, <2>3, <2>6, <2>7, <2>8, DeleteStep
<1> QED BY <1>7, <1>8, <1>9, <1>10, <1>11

-----------------------------------------------------------------------------
\* A commit changes account rows its transaction has locked, takes the rows it has deleted and
\* adds at most the token of its call.
LEMMA CommitStep ==
    ASSUME StoreInv, NEW y \in Tx, NEW r \in StoreRow, r = tx[y], End(y, "ok"),
           users' \in [Account -> Row \cup {NoAccount}],
           \A a \in Account : users'[a] # users[a] => lock[a] = y,
           \A a \in Account : Known(a) /\ users[a].confirmed =>
                                 users'[a] # NoAccount /\ users'[a].confirmed,
           \A a \in Account : users'[a] = NoAccount =>
              users[a] = NoAccount \/ \A i \in sessions \cup tokens : i.user = a => i \in r.doomed,
           NEW added \in SUBSET (Token \cap {r.call.token}),
           \A t \in added : /\ r.pc \in IssuePC /\ lock[t.user] = y /\ users'[t.user] # NoAccount
                            /\ t.hash \notin minted /\ clock < t.expires,
           sessions' = sessions \ r.doomed, tokens' = (tokens \ r.doomed) \cup added,
           minted' = minted \cup {t.hash : t \in added}, clock' = clock,
           \A i \in r.doomed : \/ lock[i.user] = y
                               \/ r.pc = "swept" /\ i \in tokens /\ ~Live(i, r.call.at)
    PROVE  StoreInv'
<1>1. /\ RowsOK /\ SweepPhase(y, r.pc, r.call, r.todo, r.doomed)
      /\ Suits(r.pc, r.call, r.todo, r.doomed)
      /\ lock \in [Account -> Tx \cup {NoTx}] /\ tx \in [Tx -> StoreRow]
  BY DEF StoreInv, Phase, TxTypes
<1>2. /\ sessions \subseteq Session /\ tokens \subseteq Token /\ minted \subseteq Hash
      /\ clock \in 0..MaxClock /\ IsFiniteSet(tokens)
      /\ \A i \in sessions \cup tokens : i.user \in Account
  BY <1>1 DEF RowsOK, TypeOK, Session, Token
<1>3. RowsOK'
  <2>1. (TypeOK)'
    BY <1>2 DEF TypeOK, Token
  <2>2. IsFiniteSet(tokens')
    <3>1. IsFiniteSet(added)
      <4>1. IsFiniteSet({r.call.token}) /\ added \in SUBSET {r.call.token}
        BY FS_Singleton
      <4> QED BY <4>1, FS_Subset
    <3>2. IsFiniteSet(tokens \ r.doomed)
      BY <1>2, FS_Subset
    <3> QED BY <3>1, <3>2, FS_Union
  <2>3. Owned'
    <3>1. \A i \in sessions' \cup tokens' : users'[i.user] # NoAccount /\ i.hash \in minted'
      BY <1>1, <1>2 DEF RowsOK, Owned, Known
    <3>2. \A s \in sessions', t \in tokens' : s.hash # t.hash
      BY <1>1 DEF RowsOK, Owned
    <3>3. \A s, t \in sessions' : s.hash = t.hash => s = t
      BY <1>1 DEF RowsOK, Owned
    <3>4. \A s, t \in tokens' : s.hash = t.hash => s = t
      BY <1>1 DEF RowsOK, Owned
    <3> QED BY <3>1, <3>2, <3>3, <3>4 DEF Owned, Known
  <2> QED BY <2>1, <2>2, <2>3 DEF RowsOK
<1>4. /\ \A x \in Tx \ {y} : tx'[x] = tx[x]
      /\ \A x \in Tx \ {y}, a \in Account : /\ lock'[a] = x <=> lock[a] = x
                                            /\ lock[a] = x /\ a \in keyed => a \in keyed'
      /\ \A a \in Account : lock'[a] # NoTx => lock[a] # NoTx /\ lock[a] # y
  BY <1>1, TxAssumption DEF End
<1>5. \A i \in r.doomed, t \in tokens :
         ~(i \in tokens /\ t.user = i.user /\ t.expires < i.expires /\ t \notin r.doomed
           /\ lock[i.user] # y)
  <2> SUFFICES ASSUME NEW i \in r.doomed, i \in tokens, lock[i.user] # y, NEW t \in tokens,
                      t.expires < i.expires
               PROVE  t \in r.doomed
    OBVIOUS
  <2>1. r.pc = "swept" /\ ~Live(i, r.call.at) /\ r.call.at \in Nat
    BY <1>1 DEF Suits, SweepPC, SweepCall
  <2>2. ~Live(t, r.call.at)
    BY <1>2, <2>1 DEF Live, Token
  <2> QED BY <1>1, <2>1, <2>2 DEF SweepPhase
<1>6. ASSUME NEW x \in Tx \ {y} PROVE Untouched(x)
  <2>1. /\ tx[x].doomed \cap r.doomed = {}
        /\ r.pc \in IssuePC /\ tx[x].pc \in IssuePC => r.call.token.hash # tx[x].call.token.hash
    BY DEF StoreInv, Apart
  <2>2. \A i \in tx[x].doomed : /\ i \in sessions => i \in sessions'
                                /\ i \in tokens => i \in tokens'
    BY <2>1
  <2>3. tx[x].pc \in IssuePC => /\ tx[x].call.token.hash \notin minted'
                                /\ clock' < tx[x].call.token.expires
    BY <2>1 DEF StoreInv, Phase, IssuePhase
  <2>4. \A a \in Account :
          /\ lock'[a] = x <=> lock[a] = x
          /\ lock[a] = x => users'[a] = users[a] /\ (a \in keyed => a \in keyed')
    BY <1>4
  <2>5. \A t \in tokens' \ tokens : lock[t.user] # x
    OBVIOUS
  <2>6. \A t, u \in tokens :
          (/\ lock[t.user] = x /\ u.user = t.user /\ t.expires < u.expires
           /\ t \in tokens') => u \in tokens'
    <3> SUFFICES ASSUME NEW t \in tokens, NEW u \in tokens, lock[t.user] = x, u.user = t.user,
                        t.expires < u.expires, t \in tokens', u \in r.doomed
                 PROVE  FALSE
      OBVIOUS
    <3>1. t \notin r.doomed
      <4>1. CASE t \in added
        BY <1>1, <4>1 DEF RowsOK, Owned
      <4> QED BY <4>1
    <3> QED BY <1>5, <3>1
  <2> QED BY <1>4, <2>2, <2>3, <2>4, <2>5, <2>6 DEF Untouched
<1>7. (LocksOK)'
  BY <1>4 DEF StoreInv, LocksOK, Known
<1>8. StoreFrame(y)
  <2>1. clock <= clock'
    BY <1>2, BoundAssumption
  <2> QED BY <1>6, <1>7, <2>1 DEF StoreFrame
<1> QED BY <1>3, <1>8, EndStep DEF Answer

LEMMA CommitNoToken ==
    ASSUME StoreInv, NEW y \in Tx, NEW r \in StoreRow, r = tx[y], End(y, "ok"),
           users' \in [Account -> Row \cup {NoAccount}],
           \A a \in Account : users'[a] # users[a] => lock[a] = y,
           \A a \in Account : Known(a) /\ users[a].confirmed =>
                                 users'[a] # NoAccount /\ users'[a].confirmed,
           \A a \in Account : users'[a] = NoAccount =>
              users[a] = NoAccount \/ \A i \in sessions \cup tokens : i.user = a => i \in r.doomed,
           sessions' = sessions \ r.doomed, tokens' = tokens \ r.doomed,
           minted' = minted, clock' = clock,
           \A i \in r.doomed : \/ lock[i.user] = y
                               \/ r.pc = "swept" /\ i \in tokens /\ ~Live(i, r.call.at)
    PROVE  StoreInv'
<1>1. PICK added \in SUBSET (Token \cap {r.call.token}) : added = {}
  OBVIOUS
<1>2. tokens' = (tokens \ r.doomed) \cup added /\ minted' = minted \cup {t.hash : t \in added}
  BY <1>1
<1>3. \A t \in added : /\ r.pc \in IssuePC /\ lock[t.user] = y /\ users'[t.user] # NoAccount
                       /\ t.hash \notin minted /\ clock < t.expires
  BY <1>1
<1> QED BY <1>2, <1>3, CommitStep

\* Every commit is such a step.
LEMMA CommitGuard ==
    ASSUME StoreInv, NEW y \in Tx, Commit(y)
    PROVE  StoreInv'
<1>1. PICK r \in StoreRow :
         /\ r = tx[y] /\ Suits(r.pc, r.call, r.todo, r.doomed)
         /\ Phase(y, r.pc, r.call, r.todo, r.doomed)
         /\ r.pc \in StorePC /\ r.call \in AnyCall /\ r.todo \in SUBSET Account
         /\ r.doomed \in SUBSET (sessions \cup tokens)
  BY OwnRow
<1> DEFINE c == r.call
<1>2. /\ r.pc = "commit" /\ End(y, "ok")
      /\ users' = IF c.op = "role" THEN [users EXCEPT ![c.id].role = c.role]
                  ELSE [users EXCEPT ![c.id].disabled = c.disabled]
      /\ sessions' = sessions \ r.doomed /\ tokens' = tokens \ r.doomed
      /\ minted' = minted /\ clock' = clock
  BY <1>1 DEF Commit, At
<1>3. c \in GuardCall /\ c.id \in Account /\ c.role \in RoleName /\ c.disabled \in BOOLEAN
  BY <1>1, <1>2, CallsAssumption DEF Suits, GuardPC, GuardCall
<1>4. lock[c.id] = y /\ Known(c.id) /\ \A i \in r.doomed : i.user = c.id
  BY <1>1, <1>2 DEF Phase, GuardPhase
<1>5. users \in [Account -> Row \cup {NoAccount}]
  BY DEF StoreInv, RowsOK, TypeOK
<1>6. /\ users[c.id] \in Row
      /\ [users[c.id] EXCEPT !.role = c.role] \in Row
      /\ [users[c.id] EXCEPT !.disabled = c.disabled] \in Row
  BY <1>3, <1>4, <1>5 DEF Known, Row, RoleName
<1>7. /\ users' \in [Account -> Row \cup {NoAccount}]
      /\ \A a \in Account \ {c.id} : users'[a] = users[a]
      /\ users'[c.id] \in Row /\ users'[c.id].confirmed = users[c.id].confirmed
  BY <1>2, <1>3, <1>5, <1>6 DEF Row
<1>8. \A a \in Account : users'[a] = NoAccount => users[a] = NoAccount
  BY <1>7, NoAccountAssumption
<1>9. \A a \in Account : Known(a) /\ users[a].confirmed =>
                            users'[a] # NoAccount /\ users'[a].confirmed
  BY <1>7, <1>8 DEF Known
<1>10. \A a \in Account : users'[a] # users[a] => lock[a] = y
  BY <1>4, <1>7
<1>11. \A i \in r.doomed : lock[i.user] = y
  BY <1>4
<1>12. /\ End(y, "ok") /\ sessions' = sessions \ r.doomed /\ tokens' = tokens \ r.doomed
       /\ minted' = minted /\ clock' = clock /\ users' \in [Account -> Row \cup {NoAccount}]
  BY <1>2, <1>7
<1> QED BY <1>1, <1>8, <1>9, <1>10, <1>11, <1>12, CommitNoToken

LEMMA CommitGranted ==
    ASSUME StoreInv, NEW y \in Tx, CommitGrant(y)
    PROVE  StoreInv'
<1>1. PICK r \in StoreRow :
         /\ r = tx[y] /\ Suits(r.pc, r.call, r.todo, r.doomed)
         /\ Phase(y, r.pc, r.call, r.todo, r.doomed)
         /\ r.pc \in StorePC /\ r.call \in AnyCall /\ r.todo \in SUBSET Account
         /\ r.doomed \in SUBSET (sessions \cup tokens)
  BY OwnRow
<1> DEFINE c == r.call
<1>2. /\ r.pc = "granting" /\ End(y, "ok")
      /\ users' = [a \in Account |-> IF lock[a] = y /\ users[a].role = NoRole
                                     THEN [users[a] EXCEPT !.role = c.role] ELSE users[a]]
      /\ UNCHANGED <<sessions, tokens, minted, clock>>
  BY <1>1 DEF CommitGrant, At
<1>3. c.role \in Role /\ r.doomed = {}
  BY <1>1, <1>2 DEF Suits, GrantPC, GrantCall, SpentPC
<1>4. /\ users \in [Account -> Row \cup {NoAccount}]
      /\ \A a \in Account : lock[a] = y => Known(a)
  BY TxAssumption DEF StoreInv, RowsOK, TypeOK, LocksOK
<1>5. \A a \in Account : lock[a] = y /\ users[a].role = NoRole =>
         /\ users'[a] = [users[a] EXCEPT !.role = c.role] /\ users[a] \in Row
  BY <1>2, <1>4 DEF Known
<1>6. \A a \in Account : \/ users'[a] = users[a]
                         \/ /\ lock[a] = y /\ users'[a] \in Row
                            /\ users'[a].confirmed = users[a].confirmed
  BY <1>2, <1>3, <1>5 DEF Row
<1>7. users' \in [Account -> Row \cup {NoAccount}]
  BY <1>2, <1>4, <1>6
<1>8. \A a \in Account : users'[a] = NoAccount => users[a] = NoAccount
  BY <1>6, NoAccountAssumption
<1>9. \A a \in Account : Known(a) /\ users[a].confirmed =>
                            users'[a] # NoAccount /\ users'[a].confirmed
  BY <1>6, <1>8 DEF Known
<1>10. /\ sessions' = sessions \ r.doomed /\ tokens' = tokens \ r.doomed
       /\ minted' = minted /\ clock' = clock
  BY <1>2, <1>3
<1> QED BY <1>1, <1>2, <1>3, <1>6, <1>7, <1>8, <1>9, <1>10, CommitNoToken

LEMMA CommitIssued ==
    ASSUME StoreInv, NEW y \in Tx, CommitIssue(y)
    PROVE  StoreInv'
<1>1. PICK r \in StoreRow :
         /\ r = tx[y] /\ Suits(r.pc, r.call, r.todo, r.doomed)
         /\ Phase(y, r.pc, r.call, r.todo, r.doomed)
         /\ r.pc \in StorePC /\ r.call \in AnyCall /\ r.todo \in SUBSET Account
         /\ r.doomed \in SUBSET (sessions \cup tokens)
  BY OwnRow
<1> DEFINE t == r.call.token
<1>2. /\ r.pc = "insert" /\ End(y, "ok")
      /\ tokens' = (tokens \ r.doomed) \cup {t} /\ minted' = minted \cup {t.hash}
      /\ UNCHANGED <<users, sessions, clock>>
  BY <1>1 DEF CommitIssue, At
<1>3. r.call \in IssueCall /\ t \in Token /\ t.user \in Account /\ r.pc \in IssuePC
  BY <1>1, <1>2 DEF Suits, IssuePC, IssueCall, Token
<1>4. /\ t.hash \notin minted /\ clock < t.expires /\ lock[t.user] = y /\ MayHold(r.call)
      /\ r.call.op = "create" => r.doomed = {}
      /\ r.call.op = "replace" => r.doomed = OfPurpose(t.user, t.purpose)
  BY <1>1, <1>2 DEF Phase, IssuePhase, IssuePC, Keeps
<1>5. users[t.user] # NoAccount
  BY <1>4 DEF MayHold, Unactivated, Enabled, Known
<1>6. \A i \in r.doomed : lock[i.user] = y
  BY <1>3, <1>4 DEF OfPurpose, IssueCall
<1>7. sessions' = sessions \ r.doomed
  <2>1. \A s \in sessions : s \notin tokens
    BY DEF StoreInv, RowsOK, Owned
  <2> QED BY <1>2, <1>3, <1>4, <2>1 DEF OfPurpose, IssueCall
<1>8. users' \in [Account -> Row \cup {NoAccount}]
  BY <1>2 DEF StoreInv, RowsOK, TypeOK
<1>9. PICK added \in SUBSET (Token \cap {t}) : added = {t}
  BY <1>3
<1>10. \A u \in added : /\ r.pc \in IssuePC /\ lock[u.user] = y /\ users'[u.user] # NoAccount
                        /\ u.hash \notin minted /\ clock < u.expires
  BY <1>2, <1>3, <1>4, <1>5, <1>9
<1>11. tokens' = (tokens \ r.doomed) \cup added /\ minted' = minted \cup {u.hash : u \in added}
  BY <1>2, <1>9
<1> HIDE DEF t
<1> QED BY <1>1, <1>2, <1>6, <1>7, <1>8, <1>10, <1>11, CommitStep DEF t, Known

LEMMA CommitRedeemed ==
    ASSUME StoreInv, NEW y \in Tx, CommitRedeem(y)
    PROVE  StoreInv'
<1>1. PICK r \in StoreRow :
         /\ r = tx[y] /\ Suits(r.pc, r.call, r.todo, r.doomed)
         /\ Phase(y, r.pc, r.call, r.todo, r.doomed)
         /\ r.pc \in StorePC /\ r.call \in AnyCall /\ r.todo \in SUBSET Account
         /\ r.doomed \in SUBSET (sessions \cup tokens)
  BY OwnRow
<1> DEFINE c == r.call
<1>2. r.pc = "redeemed" /\ c \in RedeemCall /\ c.password \in Password
  BY <1>1 DEF CommitRedeem, At, Suits, OwnedPC, SpentPC, RedeemCall
<1>3. PICK b \in Account : r.todo = {b}
  BY <1>1, <1>2 DEF Suits, OwnedPC, SpentPC
<1>4. /\ users' = [users EXCEPT ![b].password = c.password,
                                ![b].confirmed = @ \/ c.op = "activate"]
      /\ sessions' = sessions \ r.doomed /\ tokens' = tokens \ r.doomed /\ End(y, "ok")
      /\ minted' = minted /\ clock' = clock
  BY <1>1, <1>3 DEF CommitRedeem
<1>5. lock[b] = y /\ Enabled(b) /\ \A i \in r.doomed : i.user = b
  BY <1>1, <1>2, <1>3 DEF Phase, RedeemPhase, SpentPC, Keeps
<1>6. users \in [Account -> Row \cup {NoAccount}] /\ users[b] \in Row
  BY <1>5 DEF StoreInv, RowsOK, TypeOK, Enabled, Known
<1>7. users'[b] = [disabled |-> users[b].disabled, role |-> users[b].role, password |-> c.password,
                   confirmed |-> users[b].confirmed \/ c.op = "activate"]
  BY <1>4, <1>6 DEF Row
<1>8. users'[b] \in Row /\ (users[b].confirmed => users'[b].confirmed)
  <2>1. users[b].disabled \in BOOLEAN /\ users[b].role \in Role \cup {NoRole}
    BY <1>6 DEF Row
  <2>2. (users[b].confirmed \/ c.op = "activate") \in BOOLEAN
    OBVIOUS
  <2>3. users'[b] \in Row
    BY <1>2, <1>7, <2>1, <2>2 DEF Row
  <2>4. users'[b].confirmed = (users[b].confirmed \/ c.op = "activate")
    BY <1>7
  <2> QED BY <2>3, <2>4
<1>9. \A a \in Account \ {b} : users'[a] = users[a]
  BY <1>4, <1>6
<1>10. users' \in [Account -> Row \cup {NoAccount}]
  BY <1>4, <1>6, <1>8, <1>9
<1>11. /\ \A a \in Account : users'[a] # users[a] => lock[a] = y
       /\ \A a \in Account : users'[a] = NoAccount => users[a] = NoAccount
       /\ \A a \in Account : Known(a) /\ users[a].confirmed =>
                                users'[a] # NoAccount /\ users'[a].confirmed
  BY <1>5, <1>8, <1>9, NoAccountAssumption DEF Known
<1>12. \A i \in r.doomed : lock[i.user] = y
  BY <1>5
<1> QED BY <1>1, <1>4, <1>10, <1>11, <1>12, CommitNoToken

LEMMA CommitSwept ==
    ASSUME StoreInv, NEW y \in Tx, CommitSweep(y)
    PROVE  StoreInv'
<1>1. PICK r \in StoreRow :
         /\ r = tx[y] /\ Suits(r.pc, r.call, r.todo, r.doomed)
         /\ Phase(y, r.pc, r.call, r.todo, r.doomed)
         /\ r.pc \in StorePC /\ r.call \in AnyCall /\ r.todo \in SUBSET Account
         /\ r.doomed \in SUBSET (sessions \cup tokens)
  BY OwnRow
<1>2. /\ r.pc = "swept" /\ End(y, "ok")
      /\ users' = [a \in Account |-> IF a \in r.todo THEN NoAccount ELSE users[a]]
      /\ sessions' = sessions \ r.doomed /\ tokens' = tokens \ r.doomed
      /\ minted' = minted /\ clock' = clock
  BY <1>1 DEF CommitSweep, At
<1>3. SweepPhase(y, "swept", r.call, r.todo, r.doomed)
  BY <1>1, <1>2 DEF Phase
<1>4. /\ \A a \in r.todo : lock[a] = y /\ ~users[a].confirmed
      /\ \A i \in sessions \cup tokens : i.user \in r.todo => i \in r.doomed
      /\ \A i \in r.doomed : i.user \in r.todo \/ (i \in tokens /\ ~Live(i, r.call.at))
  BY <1>3 DEF SweepPhase
<1>5. \A i \in r.doomed : \/ lock[i.user] = y
                          \/ r.pc = "swept" /\ i \in tokens /\ ~Live(i, r.call.at)
  BY <1>2, <1>4
<1>6. users' \in [Account -> Row \cup {NoAccount}]
  BY <1>2 DEF StoreInv, RowsOK, TypeOK
<1>7. /\ \A a \in Account : users'[a] # users[a] => lock[a] = y
      /\ \A a \in Account : Known(a) /\ users[a].confirmed =>
                               users'[a] # NoAccount /\ users'[a].confirmed
      /\ \A a \in Account : users'[a] = NoAccount =>
            users[a] = NoAccount \/ \A i \in sessions \cup tokens : i.user = a => i \in r.doomed
  BY <1>2, <1>4 DEF Known
<1> QED BY <1>1, <1>2, <1>5, <1>6, <1>7, CommitNoToken

-----------------------------------------------------------------------------
\* An account created meanwhile.
LEMMA UserInserted ==
    ASSUME StoreInv, NEW a \in Account, NEW role \in NewRoles,
           NEW password \in Password \cup {NoPassword}, InsertUser(a, role, password)
    PROVE  StoreInv'
<1>1. /\ ~Known(a) /\ users' = [users EXCEPT ![a] = NewRow(role, password)]
      /\ sessions' = sessions /\ tokens' = tokens /\ minted' = minted /\ clock' = clock
      /\ tx' = tx /\ lock' = lock /\ keyed' = keyed /\ answer' = answer
  BY DEF InsertUser, txVars
<1>2. RowsOK /\ users \in [Account -> Row \cup {NoAccount}] /\ clock \in 0..MaxClock
  BY DEF StoreInv, RowsOK, TypeOK
<1>3. NewRow(role, password) \in Row
  BY CallsAssumption DEF NewRow, Row, RoleName
<1>4. \A b \in Account : /\ Known(b) => users'[b] = users[b]
                         /\ Known(b) => (Known(b))'
  BY <1>1, <1>2 DEF Known
<1>5. RowsOK'
  <2>1. (TypeOK)'
    BY <1>1, <1>2, <1>3 DEF RowsOK, TypeOK
  <2>2. \A i \in sessions \cup tokens : i.user \in Account /\ Known(i.user)
    BY <1>2 DEF RowsOK, TypeOK, Owned, Session, Token
  <2>3. Owned'
    BY <1>1, <1>2, <1>4, <2>2 DEF RowsOK, Owned
  <2> QED BY <1>1, <1>2, <2>1, <2>3 DEF RowsOK
<1>6. \A x \in Tx, b \in Account : lock[b] = x => Known(b)
  BY TxAssumption DEF StoreInv, LocksOK
<1>7. ASSUME NEW x \in Tx PROVE Untouched(x)
  <2>1. tx[x].pc \in IssuePC => /\ tx[x].call.token.hash \notin minted
                                /\ clock < tx[x].call.token.expires
    BY DEF StoreInv, Phase, IssuePhase
  <2> QED BY <1>1, <1>4, <1>6, <2>1 DEF Untouched
<1>8. (LocksOK)'
  BY <1>1, <1>4 DEF StoreInv, LocksOK
<1>9. clock <= clock'
  BY <1>1, <1>2, BoundAssumption
<1>10. StoreFrame(NoTx)
  BY <1>1, <1>4, <1>7, <1>8, <1>9 DEF StoreFrame, Known
<1> QED BY <1>1, <1>5, <1>10, NoTxStep

\* A login.
LEMMA SessionInserted ==
    ASSUME StoreInv, LoginStep
    PROVE  StoreInv'
<1>1. PICK a \in Account, hash \in Hash, expires \in (clock + 1)..(MaxClock + 1) :
         /\ LoginsOverlap \/ NoDisable(a)
         /\ \A x \in Tx : Ops(x, {"create", "replace"}) => tx[x].call.token.hash # hash
         /\ InsertSession([hash |-> hash, user |-> a, expires |-> expires])
  BY DEF LoginStep
<1>2. PICK s : s = [hash |-> hash, user |-> a, expires |-> expires]
  OBVIOUS
<1>3. /\ Known(a) /\ a \notin keyed /\ hash \notin minted
      /\ sessions' = sessions \cup {s} /\ minted' = minted \cup {hash}
      /\ users' = users /\ tokens' = tokens /\ clock' = clock
      /\ tx' = tx /\ lock' = lock /\ keyed' = keyed /\ answer' = answer
  BY <1>1, <1>2 DEF InsertSession, txVars
<1>4. RowsOK /\ clock \in 0..MaxClock
  BY DEF StoreInv, RowsOK, TypeOK
<1>5. s \in Session /\ s.user = a /\ s.hash = hash
  BY <1>2, <1>4, BoundAssumption DEF Session
<1>6. RowsOK'
  <2>1. (TypeOK)'
    BY <1>3, <1>4, <1>5 DEF RowsOK, TypeOK
  <2>2. Owned'
    <3>1. \A i \in sessions' \cup tokens' : users'[i.user] # NoAccount /\ i.hash \in minted'
      BY <1>3, <1>4, <1>5 DEF RowsOK, Owned, Known
    <3>2. \A r \in sessions', t \in tokens' : r.hash # t.hash
      BY <1>3, <1>4, <1>5 DEF RowsOK, Owned
    <3>3. \A r, t \in sessions' : r.hash = t.hash => r = t
      BY <1>3, <1>4, <1>5 DEF RowsOK, Owned
    <3> QED BY <1>3, <1>4, <3>1, <3>2, <3>3 DEF RowsOK, Owned, Known
  <2> QED BY <1>3, <1>4, <2>1, <2>2 DEF RowsOK
<1>7. ASSUME NEW x \in Tx PROVE Untouched(x)
  <2>1. tx[x].pc \in IssuePC => /\ tx[x].call.token.hash \notin minted
                                /\ clock < tx[x].call.token.expires
                                /\ tx[x].call \in IssueCall
    BY DEF StoreInv, Phase, IssuePhase, Suits
  <2>2. tx[x].pc \in IssuePC => tx[x].call.token.hash # hash
    BY <1>1, <2>1, NoCallAssumption DEF Ops, IssueCall
  <2> QED BY <1>3, <2>1, <2>2 DEF Untouched
<1>8. (LocksOK)'
  BY <1>3 DEF StoreInv, LocksOK, Known
<1>9. clock <= clock'
  BY <1>3, <1>4, BoundAssumption
<1>10. StoreFrame(NoTx)
  <2>1. \A r \in sessions' \ sessions : /\ r.user \notin keyed
                                        /\ LoginsOverlap \/ NoDisable(r.user)
    BY <1>1, <1>3, <1>5
  <2> QED BY <1>3, <1>7, <1>8, <1>9, <2>1 DEF StoreFrame, Known
<1> QED BY <1>3, <1>6, <1>10, NoTxStep

\* Sessions are deleted that no other transaction has deleted.
LEMMA RemovalFrame ==
    ASSUME StoreInv, NEW y, NEW items, \A x \in Tx \ {y} : tx[x].doomed \cap items = {},
           sessions' = sessions \ items, UNCHANGED <<users, tokens, minted, clock>>,
           \A x \in Tx \ {y} : /\ tx'[x] = tx[x]
                               /\ \A a \in Account : /\ lock'[a] = x <=> lock[a] = x
                                                     /\ lock[a] = x /\ a \in keyed => a \in keyed',
           \A a \in Account : lock'[a] # NoTx => lock[a] # NoTx
    PROVE  StoreFrame(y) /\ RowsOK'
<1>2. RowsOK /\ clock \in 0..MaxClock
  BY DEF StoreInv, RowsOK, TypeOK
<1>3. RowsOK'
  BY <1>2 DEF RowsOK, TypeOK, Owned, Known
<1>4. ASSUME NEW x \in Tx \ {y} PROVE Untouched(x)
  <2>1. tx[x].pc \in IssuePC => /\ tx[x].call.token.hash \notin minted
                                /\ clock < tx[x].call.token.expires
    BY DEF StoreInv, Phase, IssuePhase
  <2>2. \A i \in tx[x].doomed : i \in sessions => i \in sessions'
    BY <1>4
  <2> QED BY <2>1, <2>2 DEF Untouched
<1>5. (LocksOK)'
  BY DEF StoreInv, LocksOK, Known
<1>6. clock <= clock'
  BY <1>2, BoundAssumption
<1> QED BY <1>3, <1>4, <1>5, <1>6 DEF StoreFrame, Known

\* A logout.
LEMMA SessionRemoved ==
    ASSUME StoreInv, NEW hash, DeleteSession(hash)
    PROVE  StoreInv'
<1>1. PICK items : items = {s \in sessions : s.hash = hash}
  OBVIOUS
<1>2. /\ \A x \in Tx : tx[x].doomed \cap items = {}
      /\ sessions' = sessions \ items /\ UNCHANGED <<users, tokens, minted, clock>>
      /\ UNCHANGED <<tx, lock, keyed, answer>>
  BY <1>1 DEF DeleteSession, txVars
<1>3. StoreFrame(NoTx) /\ RowsOK'
  BY <1>2, RemovalFrame
<1> QED BY <1>2, <1>3, NoTxStep

\* A sweep of the expired sessions ends.
LEMMA CommitPurged ==
    ASSUME StoreInv, NEW y \in Tx, CommitPurge(y)
    PROVE  StoreInv'
<1>1. PICK items : items = {s \in sessions : s.expires <= tx[y].call.at}
  OBVIOUS
<1>2. /\ \A x \in Tx \ {y} : tx[x].doomed \cap items = {}
      /\ sessions' = sessions \ items /\ UNCHANGED <<users, tokens, minted, clock>>
      /\ End(y, "ok")
  BY <1>1 DEF CommitPurge, Contended
<1>3. /\ \A x \in Tx \ {y} : /\ tx'[x] = tx[x]
                             /\ \A a \in Account : /\ lock'[a] = x <=> lock[a] = x
                                                   /\ lock[a] = x /\ a \in keyed => a \in keyed'
      /\ \A a \in Account : lock'[a] # NoTx => lock[a] # NoTx
  BY <1>2, TxAssumption DEF End, StoreInv, TxTypes
<1>4. StoreFrame(y) /\ RowsOK'
  BY <1>2, <1>3, RemovalFrame
<1> QED BY <1>2, <1>4, EndStep DEF Answer

LEMMA Ticked ==
    ASSUME StoreInv, Tick
    PROVE  StoreInv'
<1>1. /\ clock < MaxClock /\ clock' = clock + 1
      /\ \A x \in Tx : Ops(x, {"create", "replace"}) => tx[x].call.token.expires > clock + 1
      /\ users' = users /\ sessions' = sessions /\ tokens' = tokens /\ minted' = minted
      /\ tx' = tx /\ lock' = lock /\ keyed' = keyed /\ answer' = answer
  BY DEF Tick, txVars
<1>2. RowsOK /\ clock \in 0..MaxClock
  BY DEF StoreInv, RowsOK, TypeOK
<1>3. clock' \in 0..MaxClock /\ clock <= clock'
  BY <1>1, <1>2, BoundAssumption
<1>4. RowsOK'
  BY <1>1, <1>2, <1>3 DEF RowsOK, TypeOK, Owned, Known
<1>5. ASSUME NEW x \in Tx PROVE Untouched(x)
  <2>1. tx[x].pc \in IssuePC => tx[x].call.token.hash \notin minted /\ tx[x].call \in IssueCall
    BY DEF StoreInv, Phase, IssuePhase, Suits
  <2>2. tx[x].pc \in IssuePC => tx[x].call.token.expires > clock + 1
    BY <1>1, <2>1, NoCallAssumption DEF Ops, IssueCall
  <2>3. tx[x].pc \in IssuePC => tx[x].call.token.expires \in Nat
    BY <2>1 DEF IssueCall, Token
  <2>4. tx[x].pc \in IssuePC => clock' < tx[x].call.token.expires
    BY <1>1, <1>2, <2>2, <2>3, BoundAssumption
  <2> QED BY <1>1, <2>1, <2>4 DEF Untouched
<1>6. (LocksOK)'
  BY <1>1 DEF StoreInv, LocksOK, Known
<1>7. StoreFrame(NoTx)
  BY <1>1, <1>3, <1>5, <1>6 DEF StoreFrame, Known
<1> QED BY <1>1, <1>4, <1>7, NoTxStep

-----------------------------------------------------------------------------
LEMMA StoreInitInv ==
    ASSUME StoreInit PROVE StoreInv
<1>1. /\ users \in [Account -> {NoAccount} \cup
                      [disabled : BOOLEAN, confirmed : {TRUE}, role : RoleName,
                       password : Password]]
      /\ sessions = {} /\ tokens = {} /\ minted = {} /\ clock = 0
      /\ tx = [x \in Tx |-> Idle] /\ lock = [a \in Account |-> NoTx] /\ keyed = {}
      /\ answer = [x \in Tx |-> "none"]
  BY DEF StoreInit, Init
<1>2. RowsOK
  <2>1. \A a \in Account : users[a] = NoAccount
    BY DEF StoreInit, Known
  <2>2. users \in [Account -> Row \cup {NoAccount}]
    BY <1>1, <2>1
  <2>3. clock \in 0..MaxClock
    BY <1>1, BoundAssumption
  <2> QED BY <1>1, <2>2, <2>3, FS_EmptySet DEF RowsOK, TypeOK, Owned
<1>3. Idle \in StoreRow
  BY DEF Idle, StoreRow, StorePC, PC, AnyCall
<1>4. TxTypes
  BY <1>1, <1>3 DEF TxTypes, Answer
<1>5. LocksOK
  BY <1>1 DEF LocksOK
<1>6. \A a \in Account, x \in Tx : lock[a] # x
  BY <1>1, TxAssumption
<1>7. ASSUME NEW x \in Tx
      PROVE  /\ Suits("idle", NoCall, {}, {}) /\ Phase(x, "idle", NoCall, {}, {})
             /\ Apart("idle", NoCall, {}, "idle", NoCall, {})
  <2>1. Suits("idle", NoCall, {}, {})
    BY DEF Suits, GuardPC, GrantPC, IssuePC, OwnedPC, SpentPC, SweepPC
  <2>2. Phase(x, "idle", NoCall, {}, {})
    BY <1>6 DEF Phase, GuardPhase, IssuePhase, RedeemPhase, SweepPhase, IssuePC, OwnedPC, SpentPC,
                SweepPC
  <2> QED BY <2>1, <2>2 DEF Apart, IssuePC
<1>8. \A x \in Tx : tx[x].pc = "idle" /\ tx[x].call = NoCall /\ tx[x].todo = {}
                    /\ tx[x].doomed = {}
  BY <1>1 DEF Idle
<1> QED BY <1>2, <1>4, <1>5, <1>7, <1>8 DEF StoreInv

LEMMA StoreNextInv ==
    ASSUME StoreInv, [StoreNext]_vars
    PROVE  StoreInv'
<1>1. CASE UNCHANGED vars
  BY <1>1, StillStep DEF vars, txVars
<1>2. ASSUME NEW x \in Tx,
             \/ \E c \in Calls : Begin(x, c)
             \/ \E role \in Grants : BeginGrant(x, role)
             \/ IssueStep(x) \/ RedeemStep(x) \/ BeginSweep(x, clock) \/ BeginPurge(x, clock)
             \/ Step(x) \/ TokenStep(x) \/ Fail(x)
      PROVE  StoreInv'
  <2>1. CASE Fail(x)
    BY <2>1, RollbackStep DEF Fail, Answer
  <2>4. CASE RevokeRow(x) \/ DeleteRow(x)
    BY <2>4, StillStep DEF RevokeRow, DeleteRow, TakeRow
  <2>2. CASE Step(x)
    BY <2>2, <2>4, GuardSteps, GrantSteps, CommitGuard, CommitGranted DEF Step
  <2>3. CASE TokenStep(x)
    BY <2>3, <2>4, IssueMoves, RedeemMoves, SweepMoves, CommitIssued, CommitRedeemed,
       CommitSwept, CommitPurged DEF TokenStep
  <2> QED
    BY <1>2, <2>1, <2>2, <2>3, GuardSteps, GrantSteps, IssueBegins, RedeemBegins, SweepBegins,
       PurgeBegins
<1>3. ASSUME NEW a \in Account, NEW role \in NewRoles,
             NEW password \in Password \cup {NoPassword}, InsertUser(a, role, password)
      PROVE  StoreInv'
  BY <1>3, UserInserted
<1>4. CASE \E s \in sessions : DeleteSession(s.hash)
  BY <1>4, SessionRemoved
<1> QED
  BY <1>1, <1>2, <1>3, <1>4, SessionInserted, Ticked DEF StoreNext

LEMMA StoreInvariant == StoreSpec => []StoreInv
<1>1. StoreInit => StoreInv
  BY StoreInitInv
<1>2. StoreInv /\ [StoreNext]_vars => StoreInv'
  BY StoreNextInv
<1> QED BY <1>1, <1>2, PTL DEF StoreSpec

-----------------------------------------------------------------------------
\* The rows a DELETE under way has got hold of.
DeletePC == {"sessions", "tokens", "supersede", "spend", "endSessions", "endResets", "stranded",
             "deleteExpired", "purge"}

\* But for the sweeps of what expired, a DELETE takes rows of an account its transaction holds.
TakenInv ==
    /\ TakenOK
    /\ \A x \in Tx : tx[x].pc \notin DeletePC => taken[x] = {}
    /\ \A x \in Tx : tx[x].pc \notin {"deleteExpired", "purge"} =>
                        \A i \in taken[x] : lock[i.user] = x

LEMMA TakenOthers ==
    ASSUME StoreInv, TakenInv, NEW z \in Tx, NEW y \in Tx \ {z}, tx'[y] = tx[y],
           \A a \in Account : lock[a] = y => lock'[a] = y, taken'[y] = taken[y]
    PROVE  /\ tx'[y].pc \notin DeletePC => taken'[y] = {}
           /\ tx'[y].pc \notin {"deleteExpired", "purge"} => \A i \in taken'[y] : lock'[i.user] = y
BY DEF TakenInv, TakenOK, Session, Token

\* A step that ends a DELETE or is none leaves its transaction with no row in hand.
LEMMA TakenMoves ==
    ASSUME StoreInv, TakenInv, NEW z \in Tx, \A y \in Tx \ {z} : tx'[y] = tx[y],
           \A y \in Tx \ {z}, a \in Account : lock[a] = y => lock'[a] = y,
           \/ taken' = taken /\ tx[z].pc \notin DeletePC
           \/ taken' = [taken EXCEPT ![z] = {}]
    PROVE  TakenInv'
<1>1. TakenOK' /\ taken'[z] = {} /\ \A y \in Tx \ {z} : taken'[y] = taken[y]
  BY DEF TakenInv, TakenOK
<1>2. ASSUME NEW y \in Tx
      PROVE  /\ tx'[y].pc \notin DeletePC => taken'[y] = {}
             /\ tx'[y].pc \notin {"deleteExpired", "purge"} =>
                   \A i \in taken'[y] : lock'[i.user] = y
  <2>1. CASE y = z
    BY <1>1, <2>1
  <2>2. CASE y # z
    BY <1>1, <2>2, TakenOthers
  <2> QED BY <2>1, <2>2
<1> QED BY <1>1, <1>2 DEF TakenInv

\* A DELETE gets hold of a row its statement matches.
LEMMA TakenRow ==
    ASSUME StoreInv, TakenInv, NEW z \in Tx, DeleteRow(z)
    PROVE  TakenInv'
<1>1. PICK r \in StoreRow :
         /\ r = tx[z] /\ Suits(r.pc, r.call, r.todo, r.doomed)
         /\ Phase(z, r.pc, r.call, r.todo, r.doomed)
         /\ r.pc \in StorePC /\ r.call \in AnyCall /\ r.todo \in SUBSET Account
         /\ r.doomed \in SUBSET (sessions \cup tokens)
  BY OwnRow
<1>2. PICK i \in Wanted(z) : taken' = [taken EXCEPT ![z] = @ \cup {i}] /\ tx' = tx /\ lock' = lock
  BY DEF DeleteRow, TakeRow
<1>3. r.pc \in DeletePC
  BY <1>1, <1>2 DEF Wanted, Revoked, At, DeletePC
<1>4. r.pc \notin {"deleteExpired", "purge"} => lock[i.user] = z
  <2>1. CASE r.pc \in {"sessions", "tokens"}
    <3>1. i.user = r.call.id
      BY <1>1, <1>2, <2>1 DEF Wanted, Revoked, At
    <3> QED BY <1>1, <2>1, <3>1 DEF Phase, GuardPhase
  <2>2. CASE r.pc = "supersede"
    <3>1. i.user = r.call.token.user
      BY <1>1, <1>2, <2>2 DEF Wanted, Revoked, OfPurpose, At
    <3> QED BY <1>1, <2>2, <3>1 DEF Phase, IssuePhase, IssuePC, Keeps
  <2>3. CASE r.pc \in {"spend", "endSessions", "endResets"}
    <3>1. /\ RedeemPhase(z, r.pc, r.call, r.todo, r.doomed)
          /\ \A a \in r.todo : lock[a] = z
      BY <1>1, <2>3 DEF Phase, RedeemPhase, SpentPC, Keeps
    <3>2. \/ r.pc = "spend" /\ i \in tokens /\ i.hash = r.call.hash
          \/ i.user \in r.todo
      BY <1>1, <1>2, <2>3 DEF Wanted, Revoked, OfPurpose, At
    <3> QED BY <3>1, <3>2 DEF RedeemPhase
  <2>4. CASE r.pc = "stranded"
    BY <1>1, <1>2, <2>4 DEF Wanted, Revoked, Gone, At
  <2> QED BY <1>3, <2>1, <2>2, <2>3, <2>4 DEF DeletePC
<1>5. TakenOK'
  <2>1. Wanted(z) \in SUBSET (sessions \cup tokens)
    BY DEF Wanted
  <2> QED BY <2>1, TakenTyped DEF DeleteRow, TakenInv, StoreInv, RowsOK
<1>6. ASSUME NEW y \in Tx
      PROVE  /\ tx'[y].pc \notin DeletePC => taken'[y] = {}
             /\ tx'[y].pc \notin {"deleteExpired", "purge"} =>
                   \A j \in taken'[y] : lock'[j.user] = y
  <2>1. CASE y = z
    <3>1. taken'[z] = taken[z] \cup {i}
      BY <1>2 DEF TakenInv, TakenOK
    <3> QED BY <1>1, <1>2, <1>3, <1>4, <2>1, <3>1 DEF TakenInv
  <2>2. CASE y # z
    <3>1. taken'[y] = taken[y] /\ tx'[y] = tx[y] /\ \A a \in Account : lock[a] = y => lock'[a] = y
      BY <1>2, <2>2
    <3> QED BY <2>2, <3>1, TakenOthers
  <2> QED BY <2>1, <2>2
<1> QED BY <1>5, <1>6 DEF TakenInv

\* The rows a guarded write's DELETE matches are among those of the store's.
LEMMA RevokeRowDeletes ==
    ASSUME NEW x \in Tx, RevokeRow(x)
    PROVE  DeleteRow(x)
<1>1. Wanted(x) = Revoked(x)
  BY DEF RevokeRow, Wanted, Revoked, At
<1> QED BY <1>1 DEF RevokeRow, DeleteRow

LEMMA TakenStep ==
    ASSUME StoreInv, TakenInv, [StoreNext]_vars
    PROVE  TakenInv'
<1>1. tx \in [Tx -> StoreRow] /\ lock \in [Account -> Tx \cup {NoTx}]
  BY DEF StoreInv, TxTypes
<1>2. ASSUME NEW z \in Tx,
             \/ \E c \in Calls : Begin(z, c)
             \/ \E role \in Grants : BeginGrant(z, role)
             \/ IssueStep(z) \/ RedeemStep(z) \/ BeginSweep(z, clock) \/ BeginPurge(z, clock)
             \/ Step(z) \/ TokenStep(z) \/ Fail(z)
      PROVE  TakenInv'
  <2>1. ASSUME NEW result, End(z, result) PROVE TakenInv'
    BY <1>1, <2>1, TakenMoves, TxAssumption DEF End
  <2>2. ASSUME NEW c, NEW pc, Open(z, c, pc) PROVE TakenInv'
    BY <1>1, <2>2, TakenMoves DEF Open, At, DeletePC
  <2>3. ASSUME tx[z].pc \notin DeletePC, taken' = taken, \A y \in Tx \ {z} : tx'[y] = tx[y],
               \/ lock' = lock
               \/ \E a \in Account : Free(z, a) /\ lock' = [lock EXCEPT ![a] = z]
        PROVE  TakenInv'
    BY <1>1, <2>3, TakenMoves, TxAssumption DEF Free
  <2>4. ASSUME taken' = [taken EXCEPT ![z] = {}], \A y \in Tx \ {z} : tx'[y] = tx[y], lock' = lock
        PROVE  TakenInv'
    BY <2>4, TakenMoves
  <2>5. CASE \/ \E c \in Calls : Begin(z, c)
             \/ \E role \in Grants : BeginGrant(z, role)
             \/ IssueStep(z) \/ RedeemStep(z) \/ BeginSweep(z, clock) \/ BeginPurge(z, clock)
    BY <2>2, <2>5 DEF Begin, BeginGrant, IssueStep, BeginIssue, RedeemStep, BeginRedeem, BeginSweep,
                      BeginPurge
  <2>6. CASE \/ Fail(z) \/ Recheck(z) \/ MissedOrMoved(z) \/ Commit(z) \/ CommitGrant(z)
             \/ CommitIssue(z) \/ CommitRedeem(z) \/ CommitSweep(z) \/ CommitPurge(z)
    BY <2>1, <2>6 DEF Fail, Recheck, MissedOrMoved, Rollback, Commit, CommitGrant, CommitIssue,
                      CommitRedeem, CommitSweep, CommitPurge
  <2>7. CASE RevokeRow(z) \/ DeleteRow(z)
    BY <2>7, TakenRow, RevokeRowDeletes
  <2>8. CASE RevokeSessions(z) \/ RevokeTokens(z)
    BY <1>1, <2>4, <2>8 DEF RevokeSessions, RevokeTokens, Revoke
  <2>9. CASE Supersede(z) \/ Spend(z) \/ EndSessions(z) \/ EndResets(z) \/ DeleteExpired(z)
    BY <1>1, <2>1, <2>4, <2>9 DEF Supersede, Spend, EndSessions, EndResets, DeleteExpired, Delete,
                                 Rollback
  <2>10. CASE DeleteStranded(z)
    BY <1>1, <2>4, <2>10 DEF DeleteStranded
  <2>11. CASE \/ Check(z) \/ HoldPrivileged(z) \/ HoldsPrivilege(z) \/ CountCover(z)
              \/ WriteMissed(z) \/ MatchRoleless(z)
    <3>1. tx[z].pc \notin DeletePC
      BY <2>11 DEF Check, HoldPrivileged, HoldsPrivilege, CountCover, WriteMissed, MatchRoleless, At,
                   DeletePC
    <3> QED
      BY <1>1, <2>1, <2>3, <2>11, <3>1
         DEF Check, HoldPrivileged, HoldsPrivilege, CountCover, WriteMissed, MatchRoleless, Goto,
             Rollback
  <2>12. CASE LockPrivileged(z) \/ GrantRow(z)
    <3>1. tx[z].pc \notin DeletePC
      BY <2>12 DEF LockPrivileged, GrantRow, At, DeletePC
    <3> QED BY <1>1, <2>3, <2>12, <3>1 DEF LockPrivileged, GrantRow
  <2>13. CASE Write(z)
    <3>1. tx[z].pc = "write" /\ tx[z].call.id \in Account
      BY <2>13, OwnRow, CallsAssumption DEF Write, At, Suits, GuardPC, GuardCall
    <3> QED BY <1>1, <2>3, <2>13, <3>1 DEF Write, Update, Goto, DeletePC
  <2>14. CASE HoldAccount(z)
    <3>1. tx[z].pc = "holdAccount" /\ tx[z].call.token.user \in Account
      BY <2>14, OwnRow DEF HoldAccount, At, Suits, IssuePC, IssueCall, Token
    <3> QED BY <1>1, <2>1, <2>3, <2>14, <3>1 DEF HoldAccount, ForUpdate, Goto, Rollback, DeletePC
  <2>15. CASE CountLive(z) \/ Find(z) \/ ReadExpired(z) \/ ReadUnconfirmed(z)
    <3>1. tx[z].pc \notin DeletePC
      BY <2>15 DEF CountLive, Find, ReadExpired, ReadUnconfirmed, At, DeletePC
    <3> QED
      BY <1>1, <2>1, <2>3, <2>15, <3>1
         DEF CountLive, Find, ReadExpired, ReadUnconfirmed, Goto, Rollback
  <2>16. CASE HoldOwner(z) \/ Apply(z)
    <3>1. tx[z].pc \notin DeletePC /\ tx[z].todo \subseteq Account
      BY <1>1, <2>16 DEF HoldOwner, Apply, At, DeletePC, StoreRow
    <3> QED
      BY <1>1, <2>1, <2>3, <2>16, <3>1 DEF HoldOwner, Apply, ForUpdate, Update, Goto, Rollback
  <2>17. CASE LockStranded(z)
    <3>1. /\ tx'[z].pc = "stranded" /\ tx[z].pc = "stranded" /\ taken' = taken
          /\ \A y \in Tx \ {z} : tx'[y] = tx[y]
          /\ \A y \in Tx, a \in Account : lock[a] = y => lock'[a] = y
      BY <1>1, <2>17, TxAssumption DEF LockStranded, At, Free, StoreRow
    <3>2. \A i \in taken[z] : i.user \in Account
      BY DEF TakenInv, TakenOK, Session, Token
    <3>3. \A y \in Tx \ {z} :
             /\ tx'[y].pc \notin DeletePC => taken'[y] = {}
             /\ tx'[y].pc \notin {"deleteExpired", "purge"} =>
                   \A i \in taken'[y] : lock'[i.user] = y
      BY <3>1, TakenOthers
    <3> QED BY <3>1, <3>2, <3>3 DEF TakenInv, TakenOK, DeletePC
  <2> QED
    BY <1>2, <2>5, <2>6, <2>7, <2>8, <2>9, <2>10, <2>11, <2>12, <2>13, <2>14, <2>15, <2>16, <2>17
       DEF Step, TokenStep
<1>3. CASE UNCHANGED <<tx, lock, taken>>
  BY <1>3 DEF TakenInv, TakenOK
<1> QED
  BY <1>2, <1>3 DEF StoreNext, InsertUser, LoginStep, InsertSession, DeleteSession, Tick, vars,
                    txVars

LEMMA TakenInvariant == StoreSpec => [](StoreInv /\ TakenInv)
<1>1. StoreInit => TakenInv
  BY DEF StoreInit, Init, TakenInv, TakenOK
<1>2. StoreInv /\ TakenInv /\ [StoreNext]_vars => TakenInv'
  BY TakenStep
<1> QED BY <1>1, <1>2, StoreInvariant, PTL DEF StoreSpec

\* Every committed row, transaction and lock of the whole store is one its code can be in.
THEOREM StoreTypes == StoreSpec => []StoreTypeOK
<1>1. StoreInv /\ TakenInv => StoreTypeOK
  <2> SUFFICES ASSUME StoreInv, TakenInv PROVE StoreTypeOK
    OBVIOUS
  <2>1. TypeOK /\ TxTypes
    BY DEF StoreInv, RowsOK
  <2>2. \A x \in Tx : /\ tx[x].pc \in StorePC /\ tx[x].call \in AnyCall
                      /\ tx[x].todo \subseteq Account
                      /\ tx[x].doomed \subseteq Session \cup Token
    BY <2>1 DEF TxTypes, StoreRow
  <2> QED BY <2>1, <2>2 DEF StoreTypeOK, TxTypes, AnyCall, TakenInv
<1> QED BY <1>1, TakenInvariant, PTL

-----------------------------------------------------------------------------
\* A transaction that has deleted a row of an account another has locked is a sweep past its
\* last statement.
LEMMA DeletesItsOwn ==
    ASSUME StoreInv, NEW y \in Tx, NEW i \in tx[y].doomed, lock[i.user] # y
    PROVE  tx[y].pc = "swept"
<1>1. PICK r \in StoreRow :
         /\ r = tx[y] /\ Suits(r.pc, r.call, r.todo, r.doomed)
         /\ Phase(y, r.pc, r.call, r.todo, r.doomed)
         /\ r.pc \in StorePC /\ r.call \in AnyCall /\ r.todo \in SUBSET Account
         /\ r.doomed \in SUBSET (sessions \cup tokens)
  BY OwnRow
<1>2. r.pc \in {"tokens", "commit", "insert", "deleteExpired", "swept"} \cup SpentPC
  BY <1>1 DEF Suits
<1>3. r.pc \notin {"tokens", "commit"}
  BY <1>1 DEF Phase, GuardPhase
<1>4. r.pc # "insert"
  <2> SUFFICES ASSUME r.pc = "insert" PROVE FALSE
    OBVIOUS
  <2>1. r.call \in IssueCall /\ Keeps(y, r.call.token.user)
        /\ (r.call.op = "create" => r.doomed = {})
        /\ (r.call.op = "replace" => r.doomed = OfPurpose(r.call.token.user, r.call.token.purpose))
    BY <1>1 DEF Suits, Phase, IssuePhase, IssuePC
  <2> QED BY <1>1, <2>1 DEF IssueCall, OfPurpose, Keeps
<1>5. r.pc \notin SpentPC
  BY <1>1 DEF Phase, RedeemPhase, Keeps
<1>6. r.pc # "deleteExpired"
  BY <1>1 DEF Phase, SweepPhase
<1> QED BY <1>1, <1>2, <1>3, <1>4, <1>5, <1>6

\* A redemption another transaction waits for waits, if at all, for a sweep that deletes what
\* expired: before it holds its account it holds nothing, and from then on all it needs is its
\* own account's.
LEMMA RedemptionWaits ==
    ASSUME StoreInv, TakenInv, NEW x \in Tx, Ops(x, {"activate", "reset"}), NEW y \in Tx,
           NEW z \in Tx, WaitsFor(x, y), WaitsFor(z, x)
    PROVE  tx[y].pc \in {"deleteExpired", "swept", "purge"}
<1>1. PICK r \in StoreRow :
         /\ r = tx[x] /\ Suits(r.pc, r.call, r.todo, r.doomed)
         /\ Phase(x, r.pc, r.call, r.todo, r.doomed)
         /\ r.pc \in StorePC /\ r.call \in AnyCall /\ r.todo \in SUBSET Account
         /\ r.doomed \in SUBSET (sessions \cup tokens)
  BY OwnRow
<1>2. r.call # NoCall /\ r.call.op \in {"activate", "reset"}
  BY <1>1 DEF Ops
<1>3. r.pc \in {"find"} \cup OwnedPC
  <2>1. r.pc \notin GuardPC
    BY <1>1, <1>2, CallsAssumption DEF Suits, GuardCall
  <2>2. r.pc \notin GrantPC
    BY <1>1, <1>2 DEF Suits, GrantCall
  <2>3. r.pc \notin IssuePC
    BY <1>1, <1>2 DEF Suits, IssueCall
  <2>4. r.pc \notin SweepPC
    BY <1>1, <1>2 DEF Suits, SweepCall
  <2>5. r.pc \notin {"idle", "purge"}
    BY <1>1, <1>2 DEF Suits, PurgeCall
  <2> QED
    BY <1>1, <2>1, <2>2, <2>3, <2>4, <2>5
       DEF StorePC, PC, GuardPC, GrantPC, IssuePC, OwnedPC, SpentPC, SweepPC
<1>4. RedeemPhase(x, r.pc, r.call, r.todo, r.doomed)
  BY <1>1 DEF Phase
<1>5. r.pc \notin {"find", "holdOwner"}
  <2> SUFFICES ASSUME r.pc \in {"find", "holdOwner"} PROVE FALSE
    OBVIOUS
  <2>1. r.doomed = {} /\ taken[x] = {}
    BY <1>1 DEF Suits, SpentPC, TakenInv, DeletePC
  <2>2. \A a \in Account : lock[a] # x
    BY <1>4 DEF RedeemPhase
  <2> QED BY <1>1, <2>1, <2>2 DEF WaitsFor, Awaited
<1>6. \A a \in r.todo : lock[a] = x
  BY <1>3, <1>4, <1>5 DEF RedeemPhase, OwnedPC, Keeps
<1>7. \A a \in Awaited(x) : a \in r.todo
  BY <1>1, <1>3 DEF Awaited, At, OwnedPC, SpentPC
<1>8. x # y /\ \E i \in Wanted(x) : i \in tx[y].doomed \cup taken[y]
  BY <1>6, <1>7 DEF WaitsFor
<1> PICK i \in Wanted(x) : i \in tx[y].doomed \cup taken[y]
  BY <1>8
<1>9. i.user \in r.todo
  <2>1. \/ r.pc = "spend" /\ i \in tokens /\ i.hash = r.call.hash
        \/ r.pc = "endSessions" /\ i.user \in r.todo
        \/ r.pc = "endResets" /\ \E a \in r.todo : i \in OfPurpose(a, "reset")
    BY <1>1, <1>3 DEF Wanted, Revoked, At, OwnedPC, SpentPC
  <2> QED BY <1>4, <2>1 DEF RedeemPhase, OfPurpose
<1>10. lock[i.user] # y
  BY <1>6, <1>8, <1>9
<1>11. i \in taken[y] => tx[y].pc \in {"deleteExpired", "purge"}
  BY <1>10 DEF TakenInv
<1> QED BY <1>10, <1>11, DeletesItsOwn

\* A redemption is in a deadlock only with a sweep that deletes expired tokens or sessions row
\* by row, whatever else runs beside it: with no other call can it be waited for and wait.
THEOREM RedeemsDeadlockOnlySweeps == StoreSpec => []RedeemDeadlocksOnlySweeps
<1>1. StoreInv /\ TakenInv => RedeemDeadlocksOnlySweeps
  BY RedemptionWaits DEF RedeemDeadlocksOnlySweeps
<1> QED BY <1>1, TakenInvariant, PTL

-----------------------------------------------------------------------------
\* The refinement: which call of the contract each step is.

\* A guarded write is, at its commit, the unguarded write of the role the account holds.
LEMMA CommitIsWrite ==
    ASSUME StoreInv, LoginsOverlap = FALSE, NEW y \in Tx, Commit(y)
    PROVE  Contract!UserSteps \/ Contract!DisableSteps
<1>1. PICK r \in StoreRow :
         /\ r = tx[y] /\ Suits(r.pc, r.call, r.todo, r.doomed)
         /\ Phase(y, r.pc, r.call, r.todo, r.doomed)
         /\ r.pc \in StorePC /\ r.call \in AnyCall /\ r.todo \in SUBSET Account
         /\ r.doomed \in SUBSET (sessions \cup tokens)
  BY OwnRow
<1> DEFINE c == r.call
           a == c.id
<1>2. /\ r.pc = "commit"
      /\ users' = IF c.op = "role" THEN [users EXCEPT ![a].role = c.role]
                  ELSE [users EXCEPT ![a].disabled = c.disabled]
      /\ sessions' = sessions \ r.doomed /\ tokens' = tokens \ r.doomed
      /\ UNCHANGED <<minted, clock>>
  BY <1>1 DEF Commit, At
<1>3. /\ c \in GuardCall /\ a \in Account /\ c.role \in Role \cup {NoRole}
      /\ c.disabled \in BOOLEAN /\ c.op \in {"role", "disable"}
  BY <1>1, <1>2, CallsAssumption DEF Suits, GuardPC, GuardCall, RoleName
<1>4. /\ Known(a) /\ \A i \in r.doomed : i.user = a
      /\ ~Revokes(c) => r.doomed = {}
      /\ Revokes(c) => /\ \A s \in sessions : s.user = a => s \in r.doomed
                       /\ \A t \in tokens : t.user = a => t \in r.doomed
  BY <1>1, <1>2 DEF Phase, GuardPhase
<1>5. users[a].role \in Role \cup {NoRole}
  BY <1>3, <1>4 DEF StoreInv, RowsOK, TypeOK, Known, Row
<1>6. {users[a].role} \in Contract!From
  BY <1>5 DEF Contract!From
<1>7. CASE c.op = "role"
  <2>1. r.doomed = {} /\ users' = [users EXCEPT ![a].role = c.role]
    BY <1>2, <1>4, <1>7 DEF Revokes
  <2>2. Contract!SetUserRole(a, {users[a].role}, c.role, {})
    BY <1>2, <1>4, <2>1 DEF Contract!SetUserRole, Contract!Known, Contract!KeepsCover, Known
  <2> HIDE DEF c, a
  <2> QED BY <1>3, <1>6, <2>2 DEF Contract!UserSteps
<1>8. CASE c.op = "disable"
  <2>1. users' = [users EXCEPT ![a].disabled = c.disabled]
    BY <1>2, <1>8
  <2>2. /\ sessions' = IF c.disabled THEN {i \in sessions : i.user \notin {a}} ELSE sessions
        /\ tokens' = IF c.disabled THEN {i \in tokens : i.user \notin {a}} ELSE tokens
    BY <1>2, <1>4, <1>8 DEF Revokes
  <2>3. Contract!SetUserDisabled(a, {users[a].role}, c.disabled, {})
    BY <1>2, <1>4, <2>1, <2>2
       DEF Contract!SetUserDisabled, Contract!Known, Contract!KeepsCover, Contract!NotOf, Known
  <2> HIDE DEF c, a
  <2> QED BY <1>3, <1>6, <2>3 DEF Contract!DisableSteps
<1> QED BY <1>3, <1>7, <1>8

\* An issue is, at its commit, the CreateToken or ReplaceToken of its token.
LEMMA CommitIsIssue ==
    ASSUME StoreInv, NEW y \in Tx, CommitIssue(y)
    PROVE  Contract!IssueSteps
<1>1. PICK r \in StoreRow :
         /\ r = tx[y] /\ Suits(r.pc, r.call, r.todo, r.doomed)
         /\ Phase(y, r.pc, r.call, r.todo, r.doomed)
         /\ r.pc \in StorePC /\ r.call \in AnyCall /\ r.todo \in SUBSET Account
         /\ r.doomed \in SUBSET (sessions \cup tokens)
  BY OwnRow
<1>2. PICK t : t = r.call.token
  OBVIOUS
<1>3. /\ r.pc = "insert"
      /\ tokens' = (tokens \ r.doomed) \cup {t} /\ minted' = minted \cup {t.hash}
      /\ UNCHANGED <<users, sessions, clock>>
  BY <1>1, <1>2 DEF CommitIssue, At
<1>4. /\ r.call \in IssueCall /\ r.call.op \in {"create", "replace"} /\ t \in Token
      /\ t.purpose \in {"invite", "reset"} /\ t.expires <= MaxClock + 1
      /\ r.call.op = "replace" => t.purpose = "invite"
  BY <1>1, <1>2, <1>3 DEF Suits, IssuePC, IssueCall
<1>5. /\ t.hash \in Hash /\ t.user \in Account /\ t.expires \in Nat
      /\ t = [hash |-> t.hash, user |-> t.user, purpose |-> t.purpose, expires |-> t.expires]
  BY <1>4 DEF Token
<1>6. /\ t.hash \notin minted /\ clock < t.expires /\ MayHold(r.call)
      /\ t.purpose = "reset" => Known(t.user) /\ users[t.user].confirmed
      /\ r.call.op = "create" => /\ r.doomed = {}
                                 /\ Cardinality(Standing(t.user, t.purpose)) < Cap(t.purpose)
      /\ r.call.op = "replace" => r.doomed = OfPurpose(t.user, t.purpose)
  BY <1>1, <1>2, <1>3 DEF Phase, IssuePhase, IssuePC
<1>7. t.expires \in Contract!Expiry
  <2>1. clock \in Nat /\ MaxClock \in Nat
    BY BoundAssumption DEF StoreInv, RowsOK, TypeOK
  <2> QED BY <1>4, <1>5, <1>6, <2>1 DEF Contract!Expiry
<1>8. CASE r.call.op = "create"
  <2>1. Enabled(t.user) /\ r.doomed = {}
    BY <1>2, <1>6, <1>8 DEF MayHold
  <2>2. Cardinality(Contract!Standing(t.user, t.purpose)) < Contract!Cap(t.purpose)
    BY <1>6, <1>8 DEF Contract!Standing, Contract!Cap, Contract!Live, Standing, Cap, Live
  <2>3. tokens' = tokens \cup {t}
    BY <1>3, <2>1
  <2>4. Contract!Enabled(t.user) /\ t.hash \notin minted
    BY <1>6, <2>1 DEF Contract!Enabled, Contract!Known, Enabled, Known
  <2>5. Contract!CreateToken(t)
    BY <1>3, <2>2, <2>3, <2>4 DEF Contract!CreateToken, Contract!Cardinality, Cardinality
  <2> QED
    BY <1>4, <1>5, <1>6, <1>7, <2>5 DEF Contract!IssueSteps, Contract!Known, Known
<1>9. CASE r.call.op = "replace"
  <2>1. t.purpose = "invite" /\ Unactivated(t.user)
    BY <1>2, <1>4, <1>6, <1>9 DEF MayHold
  <2>2. tokens' = {o \in tokens : o.user # t.user \/ o.purpose # t.purpose} \cup {t}
    BY <1>3, <1>6, <1>9 DEF OfPurpose
  <2>3. Contract!ReplaceToken(t)
    BY <1>3, <1>6, <2>1, <2>2
       DEF Contract!ReplaceToken, Contract!Unactivated, Contract!Enabled, Contract!Known,
           Unactivated, Enabled, Known
  <2> QED
    BY <1>4, <1>5, <1>7, <2>1, <2>3 DEF Contract!IssueSteps
<1> QED BY <1>4, <1>8, <1>9

\* A redemption is, at its commit, the ActivateByToken or ResetByToken of the token it spent,
\* as of the instant it was asked at.
LEMMA CommitIsRedemption ==
    ASSUME StoreInv, NEW y \in Tx, CommitRedeem(y)
    PROVE  Contract!RedeemSteps
<1>1. PICK r \in StoreRow :
         /\ r = tx[y] /\ Suits(r.pc, r.call, r.todo, r.doomed)
         /\ Phase(y, r.pc, r.call, r.todo, r.doomed)
         /\ r.pc \in StorePC /\ r.call \in AnyCall /\ r.todo \in SUBSET Account
         /\ r.doomed \in SUBSET (sessions \cup tokens)
  BY OwnRow
<1> DEFINE c == r.call
<1>2. /\ r.pc = "redeemed" /\ c \in RedeemCall /\ c.password \in Password /\ c.at \in Nat
      /\ c.op \in {"activate", "reset"}
  BY <1>1 DEF CommitRedeem, At, Suits, OwnedPC, SpentPC, RedeemCall
<1>3. PICK b \in Account : r.todo = {b}
  BY <1>1, <1>2 DEF Suits, OwnedPC, SpentPC
<1>4. /\ users' = [users EXCEPT ![b].password = c.password,
                                ![b].confirmed = @ \/ c.op = "activate"]
      /\ sessions' = sessions \ r.doomed /\ tokens' = tokens \ r.doomed
      /\ minted' = minted /\ clock' = clock
  BY <1>1, <1>3 DEF CommitRedeem
<1>5. RedeemPhase(y, "redeemed", c, r.todo, r.doomed)
  BY <1>1, <1>2 DEF Phase
<1>6. PICK t \in tokens : /\ t \in r.doomed /\ Found(c, t) /\ t.user = b
                          /\ c.op = "activate" => r.doomed = {t}
  BY <1>3, <1>5 DEF RedeemPhase, SpentPC
<1>7. /\ Enabled(b) /\ c.at <= clock
      /\ \A i \in r.doomed : i.user = b /\ (i \in tokens => i.purpose = PurposeOf(c))
      /\ c.op = "activate" => ~users[b].confirmed
      /\ c.op = "reset" => /\ \A s \in sessions : s.user = b => s \in r.doomed
                           /\ \A u \in tokens : u.user = b /\ u.purpose = "reset" => u \in r.doomed
  BY <1>3, <1>5 DEF RedeemPhase, SpentPC, OwnedPC
<1>8. users \in [Account -> Row \cup {NoAccount}] /\ users[b] \in Row
  BY <1>7 DEF StoreInv, RowsOK, TypeOK, Enabled, Known
<1>9. c.at \in {i \in Contract!Instant : clock <= i + MaxClock}
  BY <1>2, <1>7, BoundAssumption DEF Contract!Instant, StoreInv, RowsOK, TypeOK
<1>10. Contract!Redeemable(t, PurposeOf(c), c.at)
  BY <1>6, <1>7 DEF Found, Contract!Redeemable, Contract!Live, Contract!Enabled, Contract!Known,
                    Live, Enabled, Known
<1>11. \A s \in sessions : s \notin tokens
  BY DEF StoreInv, RowsOK, Owned
<1>12. CASE c.op = "activate"
  <2>1. users' = [users EXCEPT ![b].password = c.password, ![b].confirmed = TRUE]
    BY <1>4, <1>8, <1>12
  <2>2. sessions' = sessions /\ tokens' = tokens \ {t}
    BY <1>4, <1>6, <1>11, <1>12
  <2>3. Contract!ActivateByToken(t, c.at, c.password)
    BY <1>4, <1>6, <1>7, <1>10, <1>12, <2>1, <2>2 DEF Contract!ActivateByToken, PurposeOf
  <2> QED BY <1>2, <1>9, <2>3 DEF Contract!RedeemSteps
<1>13. CASE c.op = "reset"
  <2>1. users' = [users EXCEPT ![b].password = c.password]
    <3>1. [users[b] EXCEPT !.password = c.password,
                           !.confirmed = users[b].confirmed \/ c.op = "activate"]
             = [users[b] EXCEPT !.password = c.password]
      BY <1>8, <1>13 DEF Row
    <3>2. users' = [users EXCEPT ![b] = [users[b] EXCEPT !.password = c.password]]
      BY <1>4, <1>8, <3>1
    <3> QED BY <1>8, <3>2
  <2>2. sessions' = {i \in sessions : i.user \notin {b}}
    BY <1>4, <1>7, <1>13
  <2>3. tokens' = {o \in tokens : o.user # b \/ o.purpose # "reset"}
    BY <1>4, <1>7, <1>13 DEF PurposeOf
  <2>4. Contract!ResetByToken(t, c.at, c.password)
    BY <1>4, <1>6, <1>10, <1>13, <2>1, <2>2, <2>3
       DEF Contract!ResetByToken, Contract!NotOf, PurposeOf
  <2> QED BY <1>2, <1>9, <2>4 DEF Contract!RedeemSteps
<1> QED BY <1>2, <1>12, <1>13

\* A sweep is, at its commit, a sweep as of the instant it was asked at of the accounts it has
\* locked.
LEMMA CommitIsSweep ==
    ASSUME StoreInv, NEW y \in Tx, CommitSweep(y)
    PROVE  Contract!PromisedSweep
<1>1. PICK r \in StoreRow :
         /\ r = tx[y] /\ Suits(r.pc, r.call, r.todo, r.doomed)
         /\ Phase(y, r.pc, r.call, r.todo, r.doomed)
         /\ r.pc \in StorePC /\ r.call \in AnyCall /\ r.todo \in SUBSET Account
         /\ r.doomed \in SUBSET (sessions \cup tokens)
  BY OwnRow
<1> DEFINE at == r.call.at
           gone == r.todo
<1>2. /\ r.pc = "swept"
      /\ users' = [a \in Account |-> IF a \in gone THEN NoAccount ELSE users[a]]
      /\ sessions' = sessions \ r.doomed /\ tokens' = tokens \ r.doomed
      /\ UNCHANGED <<minted, clock>>
  BY <1>1 DEF CommitSweep, At
<1>3. SweepPhase(y, "swept", r.call, gone, r.doomed) /\ at \in Nat
  BY <1>1, <1>2 DEF Phase, Suits, SweepPC, SweepCall
<1>4. /\ at <= clock
      /\ \A t \in tokens : ExpiredInvite(t, at) /\ ~users[t.user].confirmed =>
            \/ t.user \in gone
            \/ \E u \in tokens : u.user = t.user /\ u.purpose = "invite" /\ Live(u, at)
      /\ \A a \in gone : Known(a) /\ ~users[a].confirmed
      /\ \A t \in tokens : t.user \in gone /\ t.purpose = "invite" => ~Live(t, at)
      /\ \A i \in sessions \cup tokens : i.user \in gone => i \in r.doomed
      /\ \A i \in r.doomed : i.user \in gone \/ (i \in tokens /\ ~Live(i, at))
      /\ \A t \in tokens : ~Live(t, at) => t \in r.doomed
  BY <1>3 DEF SweepPhase, SweepPC
<1>5. at \in Contract!Instant
  BY <1>3, <1>4, BoundAssumption DEF Contract!Instant, StoreInv, RowsOK, TypeOK
<1>6. gone \in SUBSET Contract!Abandoned(at)
  BY <1>1, <1>4 DEF Contract!Abandoned, Contract!Known, Contract!Live, Known, Live
<1>7. Contract!Stranded(at) \subseteq gone
  BY <1>4 DEF Contract!Stranded, Contract!Known, Contract!Live, ExpiredInvite, Live
<1>8. sessions' = {i \in sessions : i.user \notin gone}
  <2>1. \A s \in sessions : s \notin tokens
    BY DEF StoreInv, RowsOK, Owned
  <2> QED BY <1>2, <1>4, <2>1
<1>9. tokens' = {t \in {i \in tokens : i.user \notin gone} : Live(t, at)}
  BY <1>2, <1>4
<1>10. Contract!SweepTokens(at, gone)
  BY <1>2, <1>8, <1>9 DEF Contract!SweepTokens, Contract!NotOf, Contract!Live, Live
<1> QED BY <1>5, <1>6, <1>7, <1>10 DEF Contract!PromisedSweep

\* A sweep of the expired sessions is, at its commit, one as of the instant it was asked at.
LEMMA CommitIsPurge ==
    ASSUME StoreInv, NEW y \in Tx, CommitPurge(y)
    PROVE  Contract!SessionSteps
<1>1. PICK r \in StoreRow :
         /\ r = tx[y] /\ Suits(r.pc, r.call, r.todo, r.doomed)
         /\ Phase(y, r.pc, r.call, r.todo, r.doomed)
         /\ r.pc \in StorePC /\ r.call \in AnyCall /\ r.todo \in SUBSET Account
         /\ r.doomed \in SUBSET (sessions \cup tokens)
  BY OwnRow
<1> DEFINE at == r.call.at
<1>2. /\ r.pc = "purge" /\ sessions' = sessions \ {s \in sessions : s.expires <= at}
      /\ UNCHANGED <<users, tokens, minted, clock>>
  BY <1>1 DEF CommitPurge, At
<1>3. at \in Nat /\ at <= clock /\ sessions \subseteq Session
  BY <1>1, <1>2 DEF Suits, PurgeCall, Phase, SweepPhase, StoreInv, RowsOK, TypeOK
<1>4. at \in Contract!Instant
  BY <1>3, BoundAssumption DEF Contract!Instant, StoreInv, RowsOK, TypeOK
<1>5. sessions' = {s \in sessions : s.expires > at}
  BY <1>2, <1>3 DEF Session
<1>6. Contract!DeleteExpiredSessions(at)
  BY <1>2, <1>5 DEF Contract!DeleteExpiredSessions
<1> QED BY <1>4, <1>6 DEF Contract!SessionSteps

\* The calls that are one statement.
LEMMA StatementIsCall ==
    ASSUME StoreInv,
           \/ \E a \in Account, role \in NewRoles, password \in Password \cup {NoPassword} :
                 InsertUser(a, role, password)
           \/ LoginStep
           \/ \E s \in sessions : DeleteSession(s.hash)
           \/ Tick
    PROVE  Contract!UserSteps \/ Contract!SessionSteps \/ Contract!Tick
<1>1. clock \in Nat /\ clock \in 0..MaxClock /\ sessions \subseteq Session
  BY BoundAssumption DEF StoreInv, RowsOK, TypeOK
<1>2. ASSUME NEW a \in Account, NEW role \in NewRoles,
             NEW password \in Password \cup {NoPassword}, InsertUser(a, role, password)
      PROVE  Contract!UserSteps
  <2>1. Contract!CreateUser(a, role, password)
    BY <1>2 DEF InsertUser, Contract!CreateUser, Contract!Known, Contract!NewRow, Known, NewRow
  <2>2. role \in Role \cup {NoRole}
    BY CallsAssumption DEF RoleName
  <2> QED BY <2>1, <2>2 DEF Contract!UserSteps
<1>3. ASSUME LoginStep PROVE Contract!SessionSteps
  <2>1. PICK a \in Account, hash \in Hash, expires \in (clock + 1)..(MaxClock + 1) :
           InsertSession([hash |-> hash, user |-> a, expires |-> expires])
    BY <1>3 DEF LoginStep
  <2>2. Contract!CreateSession([hash |-> hash, user |-> a, expires |-> expires])
    BY <2>1 DEF InsertSession, Contract!CreateSession, Contract!Known, Known
  <2> QED BY <2>2 DEF Contract!SessionSteps, Contract!Expiry
<1>4. ASSUME NEW s \in sessions, DeleteSession(s.hash) PROVE Contract!SessionSteps
  <2>1. sessions \ {r \in sessions : r.hash = s.hash} = {r \in sessions : r.hash # s.hash}
    OBVIOUS
  <2>2. Contract!DeleteSession(s.hash)
    BY <1>4, <2>1 DEF DeleteSession, Contract!DeleteSession
  <2> QED BY <2>2 DEF Contract!SessionSteps
<1>5. ASSUME Tick PROVE Contract!Tick
  BY <1>5 DEF Tick, Contract!Tick
<1> QED BY <1>2, <1>3, <1>4, <1>5

\* A statement short of the commit leaves the committed rows alone.
LEMMA StatementsAreQuiet ==
    ASSUME NEW x \in Tx,
           \/ \E c \in Calls : Begin(x, c)
           \/ \E role \in Grants : BeginGrant(x, role)
           \/ IssueStep(x) \/ RedeemStep(x) \/ BeginSweep(x, clock) \/ BeginPurge(x, clock)
           \/ Step(x) \/ TokenStep(x) \/ Fail(x)
    PROVE  \/ UNCHANGED rowVars
           \/ Commit(x) \/ CommitGrant(x) \/ CommitIssue(x) \/ CommitRedeem(x) \/ CommitSweep(x)
           \/ CommitPurge(x)
<1>1. CASE \/ \E c \in Calls : Begin(x, c)
           \/ \E role \in Grants : BeginGrant(x, role)
           \/ IssueStep(x) \/ RedeemStep(x) \/ BeginSweep(x, clock) \/ BeginPurge(x, clock)
           \/ Fail(x)
  BY <1>1 DEF Begin, BeginGrant, IssueStep, BeginIssue, RedeemStep, BeginRedeem, BeginSweep,
             BeginPurge, Fail, Rollback
<1>2. CASE Step(x)
  <2>1. CASE \/ Check(x) \/ HoldPrivileged(x) \/ LockPrivileged(x) \/ HoldsPrivilege(x)
             \/ CountCover(x) \/ Recheck(x)
    BY <2>1 DEF Check, HoldPrivileged, LockPrivileged, HoldsPrivilege, CountCover, Recheck, Rollback
  <2>2. CASE \/ Write(x) \/ WriteMissed(x) \/ MissedOrMoved(x) \/ RevokeSessions(x)
             \/ RevokeTokens(x) \/ MatchRoleless(x) \/ GrantRow(x) \/ RevokeRow(x)
    BY <2>2 DEF Write, WriteMissed, MissedOrMoved, RevokeSessions, RevokeTokens, Revoke,
                MatchRoleless, GrantRow, RevokeRow, TakeRow, Rollback
  <2> QED BY <1>2, <2>1, <2>2 DEF Step
<1>3. CASE TokenStep(x)
  <2>1. CASE HoldAccount(x) \/ CountLive(x) \/ Supersede(x)
    BY <2>1 DEF HoldAccount, CountLive, Supersede, Delete, Rollback
  <2>2. CASE Find(x) \/ HoldOwner(x) \/ Spend(x)
    BY <2>2 DEF Find, HoldOwner, Spend, Delete, Rollback
  <2>3. CASE Apply(x) \/ EndSessions(x) \/ EndResets(x)
    BY <2>3 DEF Apply, EndSessions, EndResets, Delete, Rollback
  <2>4. CASE \/ ReadExpired(x) \/ ReadUnconfirmed(x) \/ LockStranded(x) \/ DeleteStranded(x)
             \/ DeleteExpired(x) \/ DeleteRow(x)
    BY <2>4 DEF ReadExpired, ReadUnconfirmed, LockStranded, DeleteStranded, DeleteExpired, Delete,
                DeleteRow, TakeRow
  <2> QED BY <1>3, <2>1, <2>2, <2>3, <2>4 DEF TokenStep
<1> QED BY <1>1, <1>2, <1>3

\* Every call of the Postgres store, its statements interleaved with those of any number of
\* others under row locks alone, is one call of the serial contract, made at its commit.  A
\* login between the statements of a disable and a grant to the roleless are left out: neither
\* is one call of the contract.
THEOREM StoreImplementsContract ==
    ASSUME LoginsOverlap = FALSE, Grants = {}
    PROVE  StoreSpec => Implements
<1>1. StoreInit => Contract!Init
  BY DEF StoreInit, Init, Known, Contract!Init
<1>2. StoreInv /\ [StoreNext]_vars => [Contract!PromisedNext]_(Contract!vars)
  <2> SUFFICES ASSUME StoreInv, [StoreNext]_vars
               PROVE  Contract!PromisedNext \/ UNCHANGED rowVars
    BY DEF Contract!vars, Contract!rowVars, rowVars
  <2>1. CASE UNCHANGED vars
    BY <2>1 DEF vars
  <2>2. ASSUME NEW x \in Tx,
               \/ \E c \in Calls : Begin(x, c)
               \/ \E role \in Grants : BeginGrant(x, role)
               \/ IssueStep(x) \/ RedeemStep(x) \/ BeginSweep(x, clock) \/ BeginPurge(x, clock)
               \/ Step(x) \/ TokenStep(x) \/ Fail(x)
        PROVE  Contract!PromisedNext \/ UNCHANGED rowVars
    <3>1. ~CommitGrant(x)
      <4>1. tx[x].pc \notin GrantPC
        BY OwnRow DEF Suits
      <4> QED BY <4>1 DEF CommitGrant, At, GrantPC
    <3>2. \/ UNCHANGED rowVars
          \/ Commit(x) \/ CommitIssue(x) \/ CommitRedeem(x) \/ CommitSweep(x) \/ CommitPurge(x)
      BY <2>2, <3>1, StatementsAreQuiet
    <3> QED
      BY <3>2, CommitIsWrite, CommitIsIssue, CommitIsRedemption, CommitIsSweep, CommitIsPurge
         DEF Contract!PromisedNext
  <2>3. CASE \/ \E a \in Account, role \in NewRoles, password \in Password \cup {NoPassword} :
                   InsertUser(a, role, password)
             \/ LoginStep
             \/ \E s \in sessions : DeleteSession(s.hash)
             \/ Tick
    BY <2>3, StatementIsCall DEF Contract!PromisedNext
  <2> QED BY <2>1, <2>2, <2>3 DEF StoreNext
<1> QED BY <1>1, <1>2, StoreInvariant, PTL DEF StoreSpec, Implements, Contract!Promised

-----------------------------------------------------------------------------
\* What the tables of the store hold, whatever is called, overlapping logins and grants to the
\* roleless included.

\* A step that is no issue, redemption or sweep: no account loses or gains a password or its
\* confirmation or is deleted, no token is added, and none is left to an account it disables.
Administered ==
    /\ tokens' \subseteq tokens /\ clock <= clock'
    /\ \A a \in Account : Known(a) => /\ users'[a] # NoAccount
                                      /\ users'[a].confirmed = users[a].confirmed
                                      /\ users'[a].password = users[a].password
    /\ \A a \in Account : ~Known(a) /\ users'[a] # NoAccount =>
                             (users'[a].confirmed <=> users'[a].password # NoPassword)
    /\ \A t \in tokens' : users'[t.user].disabled => users[t.user].disabled

LEMMA GuardAdministers ==
    ASSUME StoreInv, NEW y \in Tx, Commit(y)
    PROVE  Administered
<1>1. PICK r \in StoreRow :
         /\ r = tx[y] /\ Suits(r.pc, r.call, r.todo, r.doomed)
         /\ Phase(y, r.pc, r.call, r.todo, r.doomed)
         /\ r.pc \in StorePC /\ r.call \in AnyCall /\ r.todo \in SUBSET Account
         /\ r.doomed \in SUBSET (sessions \cup tokens)
  BY OwnRow
<1> DEFINE c == r.call
           a == c.id
<1>2. /\ r.pc = "commit" /\ clock' = clock /\ tokens' = tokens \ r.doomed
      /\ users' = IF c.op = "role" THEN [users EXCEPT ![a].role = c.role]
                  ELSE [users EXCEPT ![a].disabled = c.disabled]
  BY <1>1 DEF Commit, At
<1>3. a \in Account /\ c.op \in {"role", "disable"}
  BY <1>1, <1>2, CallsAssumption DEF Suits, GuardPC, GuardCall
<1>4. Known(a) /\ (Revokes(c) => \A t \in tokens : t.user = a => t \in r.doomed)
  BY <1>1, <1>2 DEF Phase, GuardPhase
<1>5. /\ users \in [Account -> Row \cup {NoAccount}] /\ clock <= clock'
      /\ \A t \in tokens : t.user \in Account
  BY <1>2, BoundAssumption DEF StoreInv, RowsOK, TypeOK, Token
<1>6. users[a] \in Row
  BY <1>3, <1>4, <1>5 DEF Known
<1>7. /\ \A b \in Account \ {a} : users'[b] = users[b]
      /\ users'[a] \in {[users[a] EXCEPT !.role = c.role], [users[a] EXCEPT !.disabled = c.disabled]}
      /\ ~Revokes(c) /\ users'[a].disabled => users[a].disabled
  BY <1>2, <1>3, <1>5, <1>6 DEF Row, Revokes
<1>8. /\ users'[a].confirmed = users[a].confirmed /\ users'[a].password = users[a].password
      /\ users'[a] # NoAccount
  <2>1. c.role \in Role \cup {NoRole} /\ c.disabled \in BOOLEAN
    BY <1>1, <1>2, CallsAssumption DEF Suits, GuardPC, GuardCall, RoleName
  <2>2. /\ [users[a] EXCEPT !.role = c.role] \in Row
        /\ [users[a] EXCEPT !.disabled = c.disabled] \in Row
    BY <1>6, <2>1 DEF Row
  <2>3. users'[a] # NoAccount
    BY <1>7, <2>2, NoAccountAssumption
  <2> QED BY <1>6, <1>7, <2>3 DEF Row
<1>9. \A t \in tokens' : users'[t.user].disabled => users[t.user].disabled
  BY <1>2, <1>4, <1>5, <1>7
<1> QED BY <1>2, <1>4, <1>5, <1>7, <1>8, <1>9 DEF Administered, Known

LEMMA GrantAdministers ==
    ASSUME StoreInv, NEW y \in Tx, CommitGrant(y)
    PROVE  Administered
<1>1. PICK r \in StoreRow :
         /\ r = tx[y] /\ Suits(r.pc, r.call, r.todo, r.doomed)
         /\ Phase(y, r.pc, r.call, r.todo, r.doomed)
         /\ r.pc \in StorePC /\ r.call \in AnyCall /\ r.todo \in SUBSET Account
         /\ r.doomed \in SUBSET (sessions \cup tokens)
  BY OwnRow
<1> DEFINE c == r.call
<1>2. /\ r.pc = "granting" /\ UNCHANGED <<sessions, tokens, minted, clock>>
      /\ users' = [a \in Account |-> IF lock[a] = y /\ users[a].role = NoRole
                                     THEN [users[a] EXCEPT !.role = c.role] ELSE users[a]]
  BY <1>1 DEF CommitGrant, At
<1>3. c.role \in Role
  BY <1>1, <1>2 DEF Suits, GrantPC, GrantCall
<1>4. /\ users \in [Account -> Row \cup {NoAccount}] /\ clock <= clock'
      /\ \A a \in Account : lock[a] = y => Known(a)
      /\ \A t \in tokens : t.user \in Account
  BY <1>2, TxAssumption, BoundAssumption DEF StoreInv, RowsOK, TypeOK, LocksOK, Token
<1>5. ASSUME NEW a \in Account
      PROVE  \/ users'[a] = users[a]
             \/ /\ Known(a) /\ users'[a] # NoAccount
                /\ users'[a].confirmed = users[a].confirmed
                /\ users'[a].password = users[a].password
                /\ users'[a].disabled = users[a].disabled
  <2>1. CASE lock[a] = y /\ users[a].role = NoRole
    <3>1. users[a] \in Row /\ users'[a] = [users[a] EXCEPT !.role = c.role]
      BY <1>2, <1>4, <2>1 DEF Known
    <3>2. users'[a] \in Row
      BY <1>3, <3>1 DEF Row
    <3> QED BY <1>4, <2>1, <3>1, <3>2, NoAccountAssumption DEF Row
  <2> QED BY <1>2, <2>1
<1> QED BY <1>2, <1>4, <1>5 DEF Administered, Known

\* So is every statement short of a commit, and every call of one statement.
LEMMA OthersAdminister ==
    ASSUME StoreInv,
           \/ UNCHANGED rowVars
           \/ \E a \in Account, role \in NewRoles, password \in Password \cup {NoPassword} :
                 InsertUser(a, role, password)
           \/ LoginStep
           \/ \E s \in sessions : DeleteSession(s.hash)
           \/ \E x \in Tx : CommitPurge(x)
           \/ Tick
    PROVE  Administered
<1>1. /\ users \in [Account -> Row \cup {NoAccount}] /\ clock \in Nat
      /\ \A t \in tokens : t.user \in Account /\ Known(t.user)
  BY BoundAssumption DEF StoreInv, RowsOK, TypeOK, Owned, Token
<1>2. CASE /\ users' = users /\ tokens' = tokens
           /\ clock' = clock \/ clock' = clock + 1
  BY <1>1, <1>2 DEF Administered, Known
<1>3. ASSUME NEW a \in Account, NEW role \in NewRoles,
             NEW password \in Password \cup {NoPassword}, InsertUser(a, role, password)
      PROVE  Administered
  <2>1. /\ users[a] = NoAccount /\ users' = [users EXCEPT ![a] = NewRow(role, password)]
        /\ tokens' = tokens /\ clock' = clock
    BY <1>3 DEF InsertUser, Known
  <2>2. /\ users'[a].confirmed <=> users'[a].password # NoPassword
        /\ \A b \in Account \ {a} : users'[b] = users[b]
    BY <1>1, <2>1 DEF NewRow
  <2> QED BY <1>1, <2>1, <2>2 DEF Administered, Known
<1> QED
  BY <1>2, <1>3 DEF rowVars, LoginStep, InsertSession, DeleteSession, CommitPurge, Tick

\* The steps that are not: the commits of the calls that issue, redeem and sweep tokens.
LEMMA RowsChange ==
    ASSUME StoreInv, [StoreNext]_vars
    PROVE  \/ Administered
           \/ \E x \in Tx : CommitIssue(x) \/ CommitRedeem(x) \/ CommitSweep(x)
<1>1. CASE UNCHANGED vars
  BY <1>1, OthersAdminister DEF vars
<1>2. ASSUME NEW x \in Tx,
             \/ \E c \in Calls : Begin(x, c)
             \/ \E role \in Grants : BeginGrant(x, role)
             \/ IssueStep(x) \/ RedeemStep(x) \/ BeginSweep(x, clock) \/ BeginPurge(x, clock)
             \/ Step(x) \/ TokenStep(x) \/ Fail(x)
      PROVE  Administered \/ CommitIssue(x) \/ CommitRedeem(x) \/ CommitSweep(x)
  <2>1. \/ UNCHANGED rowVars
        \/ Commit(x) \/ CommitGrant(x) \/ CommitIssue(x) \/ CommitRedeem(x) \/ CommitSweep(x)
        \/ CommitPurge(x)
    BY <1>2, StatementsAreQuiet
  <2> QED BY <2>1, OthersAdminister, GuardAdministers, GrantAdministers
<1>3. CASE \/ \E a \in Account, role \in NewRoles, password \in Password \cup {NoPassword} :
                 InsertUser(a, role, password)
           \/ LoginStep
           \/ \E s \in sessions : DeleteSession(s.hash)
           \/ Tick
  BY <1>3, OthersAdminister
<1> QED BY <1>1, <1>2, <1>3 DEF StoreNext

\* A reset token is of a confirmed account.
ResetOfConfirmed == \A t \in tokens : t.purpose = "reset" => users[t.user].confirmed

\* What a redemption's commit does: it spends a token of its account that was live at the instant
\* of its call, and a reset leaves the account no session and no other reset token.
LEMMA RedemptionSpends ==
    ASSUME StoreInv, ResetOfConfirmed, NEW y \in Tx, CommitRedeem(y)
    PROVE  \E t \in tokens \ tokens' :
              /\ Ops(y, {"activate", "reset"}) /\ Live(t, tx[y].call.at)
              /\ tokens' \subseteq tokens /\ clock' = clock
              /\ t.user \in Account /\ Enabled(t.user)
              /\ t.purpose = IF users[t.user].confirmed THEN "reset" ELSE "invite"
              /\ \A a \in Account \ {t.user} : users'[a] = users[a]
              /\ users'[t.user] # NoAccount /\ users'[t.user].confirmed
              /\ users'[t.user].password \in Password
              /\ users'[t.user].disabled = users[t.user].disabled
              /\ t.purpose = "reset" =>
                    /\ \A s \in sessions' : s.user # t.user
                    /\ \A u \in tokens' : u.user # t.user \/ u.purpose # "reset"
<1>1. PICK r \in StoreRow :
         /\ r = tx[y] /\ Suits(r.pc, r.call, r.todo, r.doomed)
         /\ Phase(y, r.pc, r.call, r.todo, r.doomed)
         /\ r.pc \in StorePC /\ r.call \in AnyCall /\ r.todo \in SUBSET Account
         /\ r.doomed \in SUBSET (sessions \cup tokens)
  BY OwnRow
<1> DEFINE c == r.call
<1>2. r.pc = "redeemed" /\ c \in RedeemCall /\ c.password \in Password /\ c.op \in {"activate", "reset"}
  BY <1>1 DEF CommitRedeem, At, Suits, OwnedPC, SpentPC, RedeemCall
<1>3. PICK b \in Account : r.todo = {b}
  BY <1>1, <1>2 DEF Suits, OwnedPC, SpentPC
<1>4. /\ users' = [users EXCEPT ![b].password = c.password,
                                ![b].confirmed = @ \/ c.op = "activate"]
      /\ sessions' = sessions \ r.doomed /\ tokens' = tokens \ r.doomed /\ clock' = clock
  BY <1>1, <1>3 DEF CommitRedeem
<1>5. RedeemPhase(y, "redeemed", c, r.todo, r.doomed)
  BY <1>1, <1>2 DEF Phase
<1>6. PICK t \in tokens : t \in r.doomed /\ Found(c, t) /\ t.user = b
  BY <1>3, <1>5 DEF RedeemPhase, SpentPC
<1>7. /\ Enabled(b)
      /\ c.op = "activate" => ~users[b].confirmed
      /\ c.op = "reset" => /\ \A s \in sessions : s.user = b => s \in r.doomed
                           /\ \A u \in tokens : u.user = b /\ u.purpose = "reset" => u \in r.doomed
  BY <1>3, <1>5 DEF RedeemPhase, SpentPC, OwnedPC
<1>8. users \in [Account -> Row \cup {NoAccount}] /\ users[b] \in Row
  BY <1>7 DEF StoreInv, RowsOK, TypeOK, Enabled, Known
<1>9. t.purpose = IF users[b].confirmed THEN "reset" ELSE "invite"
  BY <1>2, <1>6, <1>7 DEF Found, PurposeOf, ResetOfConfirmed
<1>10. /\ users'[b] = [disabled |-> users[b].disabled, role |-> users[b].role,
                       password |-> c.password,
                       confirmed |-> users[b].confirmed \/ c.op = "activate"]
       /\ \A a \in Account \ {b} : users'[a] = users[a]
  BY <1>4, <1>8 DEF Row
<1>11. users[b].confirmed \/ c.op = "activate"
  BY <1>2, <1>6, <1>9 DEF Found, PurposeOf
<1>12. /\ users'[b].confirmed /\ users'[b].password \in Password
       /\ users'[b].disabled = users[b].disabled
  <2>1. users'[b].confirmed = (users[b].confirmed \/ c.op = "activate")
    BY <1>10
  <2>2. users'[b].password = c.password /\ users'[b].disabled = users[b].disabled
    BY <1>10
  <2> QED BY <1>2, <1>11, <2>1, <2>2
<1>13. users'[b] # NoAccount
  <2>1. /\ users[b].disabled \in BOOLEAN /\ users[b].role \in Role \cup {NoRole}
        /\ (users[b].confirmed \/ c.op = "activate") \in BOOLEAN
    BY <1>8 DEF Row
  <2>2. users'[b] \in Row
    BY <1>2, <1>10, <2>1 DEF Row
  <2> QED BY <2>2, NoAccountAssumption
<1>14. t.purpose = "reset" => /\ \A s \in sessions' : s.user # b
                              /\ \A u \in tokens' : u.user # b \/ u.purpose # "reset"
  BY <1>2, <1>4, <1>6, <1>7 DEF Found, PurposeOf
<1>15. /\ tokens' \subseteq tokens /\ t \in tokens \ tokens' /\ clock' = clock
       /\ t.user = b /\ Enabled(b) /\ \A a \in Account \ {b} : users'[a] = users[a]
  BY <1>4, <1>6, <1>7, <1>10
<1>16. Ops(y, {"activate", "reset"}) /\ Live(t, tx[y].call.at)
  BY <1>1, <1>2, <1>6, NoCallAssumption DEF Ops, Found
<1> HIDE DEF c
<1> QED BY <1>9, <1>12, <1>13, <1>14, <1>15, <1>16

\* What a sweep's commit does: it takes unconfirmed accounts past every invite, with all their
\* tokens.
LEMMA SweepTakesAbandoned ==
    ASSUME StoreInv, NEW y \in Tx, CommitSweep(y)
    PROVE  \E gone \in SUBSET Account :
              /\ clock' = clock /\ tokens' \subseteq NotOf(tokens, gone)
              /\ \A a \in Account : users'[a] = IF a \in gone THEN NoAccount ELSE users[a]
              /\ \A a \in gone : ~users[a].confirmed /\ Standing(a, "invite") = {}
<1>1. PICK r \in StoreRow :
         /\ r = tx[y] /\ Suits(r.pc, r.call, r.todo, r.doomed)
         /\ Phase(y, r.pc, r.call, r.todo, r.doomed)
         /\ r.pc \in StorePC /\ r.call \in AnyCall /\ r.todo \in SUBSET Account
         /\ r.doomed \in SUBSET (sessions \cup tokens)
  BY OwnRow
<1> DEFINE gone == r.todo
           at == r.call.at
<1>2. /\ r.pc = "swept"
      /\ users' = [a \in Account |-> IF a \in gone THEN NoAccount ELSE users[a]]
      /\ tokens' = tokens \ r.doomed /\ clock' = clock
  BY <1>1 DEF CommitSweep, At
<1>3. SweepPhase(y, "swept", r.call, gone, r.doomed) /\ at \in Nat
  BY <1>1, <1>2 DEF Phase, Suits, SweepPC, SweepCall
<1>4. /\ at <= clock /\ \A a \in gone : ~users[a].confirmed
      /\ \A t \in tokens : t.user \in gone /\ t.purpose = "invite" => ~Live(t, at)
      /\ \A t \in tokens : t.user \in gone => t \in r.doomed
  BY <1>3 DEF SweepPhase, SweepPC
<1>5. \A t \in tokens : ~Live(t, at) => ~Live(t, clock)
  BY <1>3, <1>4, BoundAssumption DEF Live, StoreInv, RowsOK, TypeOK, Token
<1>6. \A a \in gone : Standing(a, "invite") = {}
  BY <1>4, <1>5 DEF Standing
<1>7. tokens' \subseteq NotOf(tokens, gone)
  BY <1>2, <1>4 DEF NotOf
<1> QED BY <1>1, <1>2, <1>4, <1>6, <1>7

\* What an issue's commit does: one fresh token for an enabled account, a reset for a confirmed
\* one, in place of its kind or below the cap.
LEMMA IssueAddsOne ==
    ASSUME StoreInv, NEW y \in Tx, CommitIssue(y)
    PROVE  \E t \in Token :
              /\ users' = users /\ clock' = clock
              /\ t.user \in Account /\ Enabled(t.user)
              /\ t.purpose = "reset" => users[t.user].confirmed
              /\ tokens' \subseteq tokens \cup {t}
              /\ \/ Cardinality(Standing(t.user, t.purpose)) < Cap(t.purpose)
                 \/ \A u \in tokens' : u.user = t.user /\ u.purpose = t.purpose => u = t
<1>1. PICK r \in StoreRow :
         /\ r = tx[y] /\ Suits(r.pc, r.call, r.todo, r.doomed)
         /\ Phase(y, r.pc, r.call, r.todo, r.doomed)
         /\ r.pc \in StorePC /\ r.call \in AnyCall /\ r.todo \in SUBSET Account
         /\ r.doomed \in SUBSET (sessions \cup tokens)
  BY OwnRow
<1>2. PICK t : t = r.call.token
  OBVIOUS
<1>3. /\ r.pc = "insert" /\ tokens' = (tokens \ r.doomed) \cup {t}
      /\ users' = users /\ clock' = clock
  BY <1>1, <1>2 DEF CommitIssue, At
<1>4. /\ r.call.op \in {"create", "replace"} /\ t \in Token /\ t.user \in Account
  BY <1>1, <1>2, <1>3 DEF Suits, IssuePC, IssueCall, Token
<1>5. /\ MayHold(r.call)
      /\ t.purpose = "reset" => users[t.user].confirmed
      /\ r.call.op = "create" => Cardinality(Standing(t.user, t.purpose)) < Cap(t.purpose)
      /\ r.call.op = "replace" => r.doomed = OfPurpose(t.user, t.purpose)
  BY <1>1, <1>2, <1>3 DEF Phase, IssuePhase, IssuePC
<1>6. Enabled(t.user)
  BY <1>2, <1>5 DEF MayHold, Unactivated
<1>7. r.call.op = "replace" => \A u \in tokens' : u.user = t.user /\ u.purpose = t.purpose => u = t
  BY <1>3, <1>5 DEF OfPurpose
<1> QED BY <1>3, <1>4, <1>5, <1>6, <1>7

\* What the tables hold, as an induction needs it: ConfirmedHoldsPassword needs ResetOfConfirmed,
\* for a reset stores a password.
TablesOK ==
    ClosedHoldsNoToken /\ ResetOfConfirmed /\ ConfirmedHoldsPassword /\ CapHolds

LEMMA TablesStep ==
    ASSUME StoreInv, ClosedHoldsNoToken, ResetOfConfirmed, ConfirmedHoldsPassword, [StoreNext]_vars
    PROVE  (ClosedHoldsNoToken /\ ResetOfConfirmed /\ ConfirmedHoldsPassword)'
<1> USE DEF ClosedHoldsNoToken, ResetOfConfirmed, ConfirmedHoldsPassword
<1>1. \A t \in tokens : t.user \in Account /\ Known(t.user)
  BY DEF StoreInv, RowsOK, TypeOK, Owned, Token
<1>2. CASE Administered
  BY <1>1, <1>2 DEF Administered, Known
<1>3. ASSUME NEW y \in Tx, CommitIssue(y)
      PROVE  (ClosedHoldsNoToken /\ ResetOfConfirmed /\ ConfirmedHoldsPassword)'
  <2>1. PICK t \in Token : /\ users' = users /\ t.user \in Account /\ Enabled(t.user)
                           /\ t.purpose = "reset" => users[t.user].confirmed
                           /\ tokens' \subseteq tokens \cup {t}
    BY <1>3, IssueAddsOne
  <2> QED BY <1>1, <2>1 DEF Enabled, Known
<1>4. ASSUME NEW y \in Tx, CommitRedeem(y)
      PROVE  (ClosedHoldsNoToken /\ ResetOfConfirmed /\ ConfirmedHoldsPassword)'
  <2>1. PICK t \in tokens \ tokens' :
           /\ tokens' \subseteq tokens /\ Enabled(t.user)
           /\ \A a \in Account \ {t.user} : users'[a] = users[a]
           /\ users'[t.user].confirmed /\ users'[t.user].password \in Password
           /\ users'[t.user].disabled = users[t.user].disabled
    BY <1>4, RedemptionSpends
  <2>2. (ClosedHoldsNoToken /\ ResetOfConfirmed)'
    BY <1>1, <2>1
  <2>3. (ConfirmedHoldsPassword)'
    BY <1>1, <2>1, NullAssumption DEF Known
  <2> QED BY <2>2, <2>3
<1>5. ASSUME NEW y \in Tx, CommitSweep(y)
      PROVE  (ClosedHoldsNoToken /\ ResetOfConfirmed /\ ConfirmedHoldsPassword)'
  <2>1. PICK gone \in SUBSET Account :
           /\ tokens' \subseteq NotOf(tokens, gone)
           /\ \A a \in Account : users'[a] = IF a \in gone THEN NoAccount ELSE users[a]
    BY <1>5, SweepTakesAbandoned
  <2> QED BY <1>1, <2>1 DEF NotOf, Known
<1> QED BY <1>2, <1>3, <1>4, <1>5, RowsChange

\* An account's standing tokens grow by an issue alone, by its one token.
LEMMA StandingStep ==
    ASSUME StoreInv, ResetOfConfirmed, [StoreNext]_vars, NEW a \in Account, NEW p \in Purpose
    PROVE  \/ (Standing(a, p))' \subseteq Standing(a, p)
           \/ \E t \in Token :
                 \/ (Standing(a, p))' \subseteq {t}
                 \/ /\ (Standing(a, p))' \subseteq Standing(a, p) \cup {t}
                    /\ Cardinality(Standing(a, p)) < Cap(p)
<1>1. clock \in Nat /\ clock' \in Nat /\ \A t \in tokens : t.expires \in Nat
  BY StoreNextInv, BoundAssumption DEF StoreInv, RowsOK, TypeOK, Token
<1>2. ASSUME tokens' \subseteq tokens, clock <= clock'
      PROVE  (Standing(a, p))' \subseteq Standing(a, p)
  BY <1>1, <1>2 DEF Standing, Live
<1>3. ASSUME NEW y \in Tx, CommitIssue(y)
      PROVE  \/ (Standing(a, p))' \subseteq Standing(a, p)
             \/ \E t \in Token :
                   \/ (Standing(a, p))' \subseteq {t}
                   \/ /\ (Standing(a, p))' \subseteq Standing(a, p) \cup {t}
                      /\ Cardinality(Standing(a, p)) < Cap(p)
  <2>1. PICK t \in Token :
           /\ clock' = clock /\ tokens' \subseteq tokens \cup {t}
           /\ \/ Cardinality(Standing(t.user, t.purpose)) < Cap(t.purpose)
              \/ \A u \in tokens' : u.user = t.user /\ u.purpose = t.purpose => u = t
    BY <1>3, IssueAddsOne
  <2>2. (Standing(a, p))' \subseteq Standing(a, p) \cup {t}
    BY <2>1 DEF Standing, Live
  <2>3. CASE t.user = a /\ t.purpose = p
    <3>1. (\A u \in tokens' : u.user = a /\ u.purpose = p => u = t) => (Standing(a, p))' \subseteq {t}
      BY DEF Standing
    <3> QED BY <2>1, <2>2, <2>3, <3>1
  <2>4. CASE ~(t.user = a /\ t.purpose = p)
    BY <2>1, <2>4 DEF Standing, Live
  <2> QED BY <2>3, <2>4
<1>4. ASSUME NEW y \in Tx, CommitRedeem(y) \/ CommitSweep(y)
      PROVE  tokens' \subseteq tokens /\ clock' = clock
  BY <1>4, RedemptionSpends, SweepTakesAbandoned DEF NotOf
<1> QED BY <1>1, <1>2, <1>3, <1>4, RowsChange DEF Administered

LEMMA CapStep ==
    ASSUME StoreInv, ResetOfConfirmed, CapHolds, [StoreNext]_vars
    PROVE  CapHolds'
<1> SUFFICES ASSUME NEW a \in Account, NEW p \in Purpose
             PROVE  Cardinality((Standing(a, p))') <= Cap(p)
  BY DEF CapHolds, Cap
<1> DEFINE now == Standing(a, p)
           next == (Standing(a, p))'
<1>1. IsFiniteSet(now)
  BY FS_Subset DEF StoreInv, RowsOK, Standing
<1>2. /\ Cardinality(now) \in Nat /\ Cardinality(now) <= Cap(p) /\ Cap(p) \in Nat \ {0}
  BY <1>1, FS_CardinalityType, BoundAssumption DEF Cap, CapHolds
<1>3. \/ next \subseteq now
      \/ \E t \in Token : \/ next \subseteq {t}
                          \/ next \subseteq now \cup {t} /\ Cardinality(now) < Cap(p)
  BY StandingStep
<1> HIDE DEF now, next
<1>4. ASSUME NEW bound, IsFiniteSet(bound), Cardinality(bound) <= Cap(p), next \subseteq bound
      PROVE  Cardinality(next) <= Cap(p)
  <2>1. IsFiniteSet(next) /\ Cardinality(next) <= Cardinality(bound)
    BY <1>4, FS_Subset
  <2> QED BY <1>2, <1>4, <2>1, FS_CardinalityType
<1>5. ASSUME NEW t \in Token PROVE IsFiniteSet({t}) /\ Cardinality({t}) <= Cap(p)
  BY <1>2, FS_Singleton
<1>6. ASSUME NEW t \in Token, Cardinality(now) < Cap(p)
      PROVE  IsFiniteSet(now \cup {t}) /\ Cardinality(now \cup {t}) <= Cap(p)
  <2>1. /\ IsFiniteSet(now \cup {t})
        /\ Cardinality(now \cup {t}) = IF t \in now THEN Cardinality(now) ELSE Cardinality(now) + 1
    BY <1>1, FS_AddElement
  <2> QED BY <1>2, <1>6, <2>1
<1>7. Cardinality(next) <= Cap(p)
  BY <1>1, <1>2, <1>3, <1>4, <1>5, <1>6
<1> QED BY <1>7 DEF next

LEMMA TablesInvariant == StoreSpec => [](StoreInv /\ TablesOK)
<1>1. StoreInit => TablesOK
  <2> SUFFICES ASSUME StoreInit PROVE TablesOK
    OBVIOUS
  <2>1. tokens = {} /\ \A a \in Account : ~Known(a)
    BY DEF StoreInit, Init
  <2>2. \A a \in Account, p \in Purpose : Standing(a, p) = {}
    BY <2>1 DEF Standing
  <2>3. CapHolds
    BY <2>2, FS_EmptySet, BoundAssumption DEF CapHolds, Cap
  <2> QED
    BY <2>1, <2>3 DEF TablesOK, ClosedHoldsNoToken, ResetOfConfirmed, ConfirmedHoldsPassword
<1>2. StoreInv /\ TablesOK /\ [StoreNext]_vars => TablesOK'
  BY TablesStep, CapStep DEF TablesOK
<1> QED BY <1>1, <1>2, StoreInvariant, PTL DEF StoreSpec

\* A disabled account holds no token: a disable that interleaves with an issue, a replacement or
\* a redemption ends what they leave or stops them.
THEOREM ClosedHasNoToken == StoreSpec => []ClosedHoldsNoToken
BY TablesInvariant, PTL DEF TablesOK

\* However many CreateToken and ReplaceToken transactions count and insert at once, an account
\* never has more live tokens of a purpose than the cap.
THEOREM CapKept == StoreSpec => []CapHolds
BY TablesInvariant, PTL DEF TablesOK

\* An account is confirmed exactly when it holds a password, between any two commits.
THEOREM ConfirmedHasPassword == StoreSpec => []ConfirmedHoldsPassword
BY TablesInvariant, PTL DEF TablesOK

\* Every session and token row names an account that exists, whatever a sweep deletes beside a
\* login or an issue.
THEOREM RowsOwned == StoreSpec => []Owned
BY StoreInvariant, PTL DEF StoreInv, RowsOK

-----------------------------------------------------------------------------
\* The commit that changes a password is a redemption.
LEMMA PasswordStep ==
    ASSUME StoreInv, ResetOfConfirmed, [StoreNext]_vars, NEW a \in Account, Known(a), Known(a)',
           users[a].password # users[a].password'
    PROVE  \E t \in tokens \ tokens' :
              /\ t.user = a
              /\ t.purpose = IF users[a].confirmed THEN "reset" ELSE "invite"
              /\ \E x \in Tx : Ops(x, {"activate", "reset"}) /\ Live(t, tx[x].call.at)
              /\ t.purpose = "reset" => /\ \A s \in sessions' : s.user # a
                                        /\ \A u \in tokens' : u.user # a \/ u.purpose # "reset"
<1>1. ~Administered
  BY DEF Administered
<1>2. ~\E y \in Tx : CommitIssue(y) \/ CommitSweep(y)
  BY IssueAddsOne, SweepTakesAbandoned DEF Known
<1>3. PICK y \in Tx : CommitRedeem(y)
  BY <1>1, <1>2, RowsChange
<1> QED BY <1>3, RedemptionSpends

\* Every password change spends a token of the account, an invite or a reset, that was live at
\* the instant of the redemption that spends it, however long its transaction waits.
PasswordSpendsLiveToken ==
    [][\A a \in Account :
         Known(a) /\ Known(a)' /\ users[a].password # users[a].password' =>
            \E t \in tokens \ tokens' :
                /\ t.user = a
                /\ t.purpose = IF users[a].confirmed THEN "reset" ELSE "invite"
                /\ \E x \in Tx : Ops(x, {"activate", "reset"}) /\ Live(t, tx[x].call.at)]_vars

\* No password changes in Postgres but by a redemption whose token was live when it was asked for.
THEOREM PasswordNeedsToken == StoreSpec => PasswordSpendsLiveToken
<1>1. StoreInv /\ TablesOK /\ [StoreNext]_vars =>
        \A a \in Account :
            Known(a) /\ Known(a)' /\ users[a].password # users[a].password' =>
               \E t \in tokens \ tokens' :
                  /\ t.user = a
                  /\ t.purpose = IF users[a].confirmed THEN "reset" ELSE "invite"
                  /\ \E x \in Tx : Ops(x, {"activate", "reset"}) /\ Live(t, tx[x].call.at)
  BY PasswordStep DEF TablesOK
<1> QED BY <1>1, TablesInvariant, PTL DEF StoreSpec, PasswordSpendsLiveToken

\* A reset leaves the account no session and no other reset token, of those committed while it
\* ran too.
THEOREM ResetEndsEverything == StoreSpec => Contract!ResetLeavesNothing
<1>1. StoreInv /\ TablesOK /\ [StoreNext]_vars =>
        \A a \in Account :
            Contract!Known(a) /\ users[a].confirmed /\ Contract!Known(a)'
                /\ users[a].password # users[a].password' =>
               /\ \A s \in sessions' : s.user # a
               /\ \A t \in tokens' : t.user # a \/ t.purpose # "reset"
  BY PasswordStep DEF TablesOK, Contract!Known, Known
<1> QED
  BY <1>1, TablesInvariant, PTL
     DEF StoreSpec, Contract!ResetLeavesNothing, Contract!vars, Contract!rowVars, vars, rowVars

\* An account disappears only while unconfirmed and past every invite it was sent, those sent
\* while the sweep ran too.
THEOREM SweepSparesLiveInvites == StoreSpec => Contract!SweptWasStranded
<1>1. StoreInv /\ TablesOK /\ [StoreNext]_vars =>
        \A a \in Account : Contract!Known(a) /\ ~Contract!Known(a)' =>
            ~users[a].confirmed /\ Contract!Standing(a, "invite") = {}
  <2> SUFFICES ASSUME StoreInv, TablesOK, [StoreNext]_vars, NEW a \in Account,
                      users[a] # NoAccount, users'[a] = NoAccount
               PROVE  ~users[a].confirmed /\ Standing(a, "invite") = {}
    BY DEF Contract!Known, Contract!Standing, Contract!Live, Standing, Live
  <2>1. ~Administered
    BY DEF Administered, Known
  <2>2. ~\E y \in Tx : CommitIssue(y) \/ CommitRedeem(y)
    BY IssueAddsOne, RedemptionSpends DEF TablesOK
  <2>3. PICK y \in Tx : CommitSweep(y)
    BY <2>1, <2>2, RowsChange
  <2> QED BY <2>3, SweepTakesAbandoned
<1> QED
  BY <1>1, TablesInvariant, PTL
     DEF StoreSpec, Contract!SweptWasStranded, Contract!vars, Contract!rowVars, vars, rowVars

\* A ...From write lands only on an account that holds the checked role to the last, whatever
\* tokens are redeemed and accounts swept beside it.
THEOREM CheckedWritesStillLand == StoreSpec => CheckedWriteLands
<1>1. StoreInv => \A x \in Tx :
                     answer'[x] = "ok" /\ At(x, "commit") => StillHolds(tx[x].call)
  <2> SUFFICES ASSUME StoreInv, NEW x \in Tx, tx[x].pc = "commit"
               PROVE  StillHolds(tx[x].call)
    BY DEF At
  <2> QED BY OwnRow DEF Phase, GuardPhase, StillHolds
<1> QED BY <1>1, StoreInvariant, PTL DEF StoreSpec, CheckedWriteLands

=============================================================================
