------------------------------ MODULE PgGuard -------------------------------
(***************************************************************************)
(* The guarded account writes of authkit/postgres/role.go, statement by    *)
(* statement: SetUserRole, SetUserRoleFrom, SetUserDisabledUnderCover,     *)
(* SetUserDisabledFrom, the unguarded SetUserDisabled of store.go and      *)
(* GrantRoleToRoleless, beside logins and account creations.               *)
(***************************************************************************)
EXTENDS PgRows

CONSTANTS
    Calls,      \* the guarded calls made: a subset of GuardCall
    Grants,     \* the roles GrantRoleToRoleless is called with
    NewRoles    \* the roles of the accounts created meanwhile

RoleName == Role \cup {NoRole}

\* from is the role a ...From write was checked against, or every role.
GuardCall == [op : {"role", "disable"}, id : Account, from : SUBSET RoleName,
              role : RoleName, disabled : BOOLEAN, privileged : SUBSET RoleName]

GrantCall == [op : {"grant"}, role : Role]

ASSUME CallsAssumption ==
    Calls \subseteq GuardCall /\ Grants \subseteq Role /\ NewRoles \subseteq RoleName

vars == <<rowVars, txVars>>

-----------------------------------------------------------------------------
Checked(c) == c.from # RoleName

\* The write may take a privileged account's cover away.
RemovesCover(c) == IF c.op = "role" THEN ~Holds(c.privileged, c.role) ELSE c.disabled

Guarded(c) == c.privileged # {} /\ RemovesCover(c)

\* Where a call goes once check has accepted its account.
AfterCheck(c) == IF Guarded(c) THEN "hold" ELSE "write"

\* stillHolds
StillHolds(c) == Known(c.id) /\ users[c.id].role \in c.from

\* stillHolds and missedOrMoved: why the account is not the one the caller checked.
Moved(c) == IF Known(c.id) THEN "ErrRoleChanged" ELSE "ErrUserNotFound"

\* The rows holdPrivileged selects, disabled ones too.
Privileged(a, privileged) == Known(a) /\ users[a].role \in privileged

Begin(x, c) ==
    /\ Open(x, c, IF Checked(c) THEN "check" ELSE AfterCheck(c))
    /\ UNCHANGED rowVars

Check(x) ==
    /\ At(x, "check")
    /\ \/ /\ StillHolds(tx[x].call)
          /\ Goto(x, AfterCheck(tx[x].call))
          /\ UNCHANGED <<rowVars, lock, keyed, taken, answer>>
       \/ /\ ~StillHolds(tx[x].call)
          /\ Rollback(x, Moved(tx[x].call))

\* A fault: holdPrivileged without FOR UPDATE.
HoldNothing(x) ==
    /\ At(x, "hold")
    /\ Goto(x, "locking")
    /\ UNCHANGED <<rowVars, lock, keyed, taken, answer>>

\* holdPrivileged starts: the rows its snapshot matches.
HoldPrivileged(x) ==
    /\ At(x, "hold")
    /\ tx' = [tx EXCEPT ![x].pc = "locking",
                        ![x].todo = {a \in Account : Privileged(a, tx[x].call.privileged)}]
    /\ UNCHANGED <<rowVars, lock, keyed, taken, answer>>

\* holdPrivileged takes its next row.  A row that no longer matches by now is not returned,
\* but Postgres has locked it to find out.
LockPrivileged(x) ==
    /\ At(x, "locking")
    /\ \E a \in Account :
        /\ NextRow(x, a)
        /\ Free(x, a)
        /\ tx' = [tx EXCEPT ![x].todo = @ \ {a}]
        /\ IF Known(a)
           THEN lock' = [lock EXCEPT ![a] = x] /\ keyed' = keyed \cup {a}
           ELSE UNCHANGED <<lock, keyed>>
    /\ UNCHANGED <<rowVars, taken, answer>>

HoldsPrivilege(x) ==
    /\ At(x, "locking")
    /\ tx[x].todo = {}
    /\ Goto(x, IF Covers(tx[x].call.id, tx[x].call.privileged) THEN "count" ELSE "write")
    /\ UNCHANGED <<rowVars, lock, keyed, taken, answer>>

CountCover(x) ==
    /\ At(x, "count")
    /\ Goto(x, IF \E b \in Account \ {tx[x].call.id} : Covers(b, tx[x].call.privileged)
               THEN "write" ELSE "recheck")
    /\ UNCHANGED <<rowVars, lock, keyed, taken, answer>>

\* recheckedGuard: a refusal is about the account only while the account is as checked.
Recheck(x) ==
    /\ At(x, "recheck")
    /\ Rollback(x, IF Checked(tx[x].call) /\ ~StillHolds(tx[x].call)
                   THEN Moved(tx[x].call) ELSE "ErrLastPrivileged")

\* A fault: SetUserRoleFrom and SetUserDisabledFrom without AND role = held.
WriteWhateverRole(x) ==
    /\ At(x, "write")
    /\ Known(tx[x].call.id)
    /\ Update(x, tx[x].call.id,
              IF tx[x].call.op = "disable" /\ tx[x].call.disabled THEN "sessions" ELSE "commit")
    /\ UNCHANGED rowVars

\* The UPDATE, of the row or of the row still holding held.
Write(x) ==
    /\ At(x, "write")
    /\ StillHolds(tx[x].call)
    /\ Update(x, tx[x].call.id,
              IF tx[x].call.op = "disable" /\ tx[x].call.disabled THEN "sessions" ELSE "commit")
    /\ UNCHANGED rowVars

\* The UPDATE that matches no row: an unchecked write has missed its account.
WriteMissed(x) ==
    /\ At(x, "write")
    /\ ~StillHolds(tx[x].call)
    /\ \/ /\ Checked(tx[x].call)
          /\ Goto(x, "missed")
          /\ UNCHANGED <<rowVars, lock, keyed, taken, answer>>
       \/ /\ ~Checked(tx[x].call)
          /\ Rollback(x, "ErrUserNotFound")

MissedOrMoved(x) == At(x, "missed") /\ Rollback(x, Moved(tx[x].call))

\* The account's rows that the DELETE at hand matches.
Revoked(x) ==
    {i \in sessions \cup tokens :
        /\ \/ At(x, "sessions") /\ i \in sessions
           \/ At(x, "tokens") /\ i \in tokens
        /\ i.user = tx[x].call.id}

\* The DELETE gets hold of one of them.
RevokeRow(x) == tx[x].pc \in {"sessions", "tokens"} /\ TakeRow(x, Revoked(x))

\* The DELETE ends: it takes the rows it has not got hold of yet.
Revoke(x, from, items, to) ==
    LET held == {i \in items : i.user = tx[x].call.id} IN
    /\ At(x, from)
    /\ ~Contended(x, held)
    /\ tx' = [tx EXCEPT ![x].pc = to, ![x].doomed = @ \cup held]
    /\ taken' = [taken EXCEPT ![x] = {}]
    /\ UNCHANGED <<rowVars, lock, keyed, answer>>

RevokeSessions(x) == Revoke(x, "sessions", sessions, "tokens")

RevokeTokens(x) == Revoke(x, "tokens", tokens, "commit")

Commit(x) ==
    LET c == tx[x].call IN
    /\ At(x, "commit")
    /\ users' = IF c.op = "role" THEN [users EXCEPT ![c.id].role = c.role]
                ELSE [users EXCEPT ![c.id].disabled = c.disabled]
    /\ sessions' = sessions \ tx[x].doomed
    /\ tokens' = tokens \ tx[x].doomed
    /\ End(x, "ok")
    /\ UNCHANGED <<minted, clock>>

-----------------------------------------------------------------------------
\* GrantRoleToRoleless is one UPDATE: it takes the roleless rows of its snapshot one by
\* one and commits.
BeginGrant(x, role) ==
    /\ Open(x, [op |-> "grant", role |-> role], "match")
    /\ UNCHANGED rowVars

MatchRoleless(x) ==
    /\ At(x, "match")
    /\ tx' = [tx EXCEPT ![x].pc = "granting",
                        ![x].todo = {a \in Account : Known(a) /\ users[a].role = NoRole}]
    /\ UNCHANGED <<rowVars, lock, keyed, taken, answer>>

GrantRow(x) ==
    /\ At(x, "granting")
    /\ \E a \in Account :
        /\ NextRow(x, a)
        /\ Free(x, a)
        /\ tx' = [tx EXCEPT ![x].todo = @ \ {a}]
        /\ lock' = IF Known(a) THEN [lock EXCEPT ![a] = x] ELSE lock
    /\ UNCHANGED <<rowVars, keyed, taken, answer>>

CommitGrant(x) ==
    /\ At(x, "granting")
    /\ tx[x].todo = {}
    /\ users' = [a \in Account |->
                    IF lock[a] = x /\ users[a].role = NoRole
                    THEN [users[a] EXCEPT !.role = tx[x].call.role]
                    ELSE users[a]]
    /\ End(x, "ok")
    /\ UNCHANGED <<sessions, tokens, minted, clock>>

-----------------------------------------------------------------------------
\* Accounts were created, given roles and disabled before.
Init ==
    /\ users \in [Account -> {NoAccount} \cup
                    [disabled : BOOLEAN, confirmed : {TRUE}, role : RoleName,
                     password : Password]]
    /\ sessions = {}
    /\ tokens = {}
    /\ minted = {}
    /\ clock = 0
    /\ tx = [x \in Tx |-> Idle]
    /\ lock = [a \in Account |-> NoTx]
    /\ keyed = {}
    /\ taken = [x \in Tx |-> {}]
    /\ answer = [x \in Tx |-> "none"]

\* A new account's id is drawn at random: no call under way names it.
Drawn(a) ==
    \A x \in Tx : a \notin tx[x].todo /\ (tx[x].call \in GuardCall => tx[x].call.id # a)

Step(x) ==
    \/ Check(x) \/ HoldPrivileged(x) \/ LockPrivileged(x) \/ HoldsPrivilege(x)
    \/ CountCover(x) \/ Recheck(x) \/ Write(x) \/ WriteMissed(x) \/ MissedOrMoved(x)
    \/ RevokeRow(x) \/ RevokeSessions(x) \/ RevokeTokens(x) \/ Commit(x)
    \/ MatchRoleless(x) \/ GrantRow(x) \/ CommitGrant(x)

Next ==
    \/ \E x \in Tx :
        \/ \E c \in Calls : Begin(x, c)
        \/ \E role \in Grants : BeginGrant(x, role)
        \/ Step(x)
        \/ Fail(x)
    \/ \E a \in Account, role \in NewRoles, password \in Password :
          Drawn(a) /\ InsertUser(a, role, password)
    \/ \E a \in Account, hash \in Hash :
          InsertSession([hash |-> hash, user |-> a, expires |-> MaxClock + 1])

Spec == Init /\ [][Next]_vars

-----------------------------------------------------------------------------
PC == {"idle", "check", "hold", "locking", "count", "recheck", "write", "missed",
       "sessions", "tokens", "commit", "match", "granting"}

TxOK ==
    /\ tx \in [Tx -> [pc : PC, call : GuardCall \cup GrantCall \cup {NoCall},
                      todo : SUBSET Account, doomed : SUBSET (Session \cup Token)]]
    /\ lock \in [Account -> Tx \cup {NoTx}]
    /\ keyed \subseteq Account
    /\ answer \in [Tx -> Answer]

TakenOK == taken \in [Tx -> SUBSET (Session \cup Token)]

\* Every row, transaction and lock is one the code can be in.
GuardTypeOK == TypeOK /\ TxOK /\ TakenOK

\* The last enabled privileged account is never demoted or disabled, by however many guarded
\* writes running at once: countCover reads what holdPrivileged has locked.
CoverKept == [][\A g \in Guards : Covered(g) => Covered(g)']_vars

\* A ...From write lands only on an account that holds the checked role to the last: of the
\* calls checked against one role, the first to move the account wins and the rest are
\* answered ErrRoleChanged.
CheckedWriteLands ==
    [][\A x \in Tx :
         answer'[x] = "ok" /\ At(x, "commit") => StillHolds(tx[x].call)]_vars
=============================================================================
