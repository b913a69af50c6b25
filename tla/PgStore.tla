------------------------------- MODULE PgStore ------------------------------
(***************************************************************************)
(* The whole Postgres store: the token transactions of                     *)
(* authkit/postgres/invite.go and the session writes of store.go beside    *)
(* the guarded writes of PgGuard, statement by statement, and what they    *)
(* implement together: StoreContract.                                      *)
(***************************************************************************)
EXTENDS PgGuard

CONSTANTS
    LoginsOverlap   \* a login may fall between the statements of a disable

ASSUME OverlapAssumption == LoginsOverlap \in BOOLEAN

IssueCall == [op : {"create", "replace"}, token : Token]

RedeemCall == [op : {"activate", "reset"}, hash : Hash, at : Nat, password : Password]

SweepCall == [op : {"sweep"}, at : Nat]

PurgeCall == [op : {"purge"}, at : Nat]

ASSUME NoCallAssumption ==
    NoCall \notin GuardCall \cup GrantCall \cup IssueCall \cup RedeemCall \cup SweepCall
                  \cup PurgeCall

Ops(x, ops) == tx[x].call # NoCall /\ tx[x].call.op \in ops

\* The purpose a redemption spends.
PurposeOf(c) == IF c.op = "activate" THEN "invite" ELSE "reset"

-----------------------------------------------------------------------------
\* A secret no table and no open transaction holds: NewToken draws a fresh one.
Fresh(hash) ==
    /\ hash \notin minted
    /\ \A x \in Tx : Ops(x, {"create", "replace"}) => tx[x].call.token.hash # hash

\* Invite and RequestReset issue a token, ResendInvite replaces one.
BeginIssue(x, op, t) ==
    /\ Fresh(t.hash)
    /\ Open(x, [op |-> op, token |-> t], "holdAccount")
    /\ UNCHANGED rowVars

\* holdReplaceable asks for an unactivated account under an invite, holdEnabled for an
\* enabled one.
MayHold(c) ==
    IF c.op = "replace" /\ c.token.purpose = "invite"
    THEN Unactivated(c.token.user) ELSE Enabled(c.token.user)

HoldAccount(x) ==
    LET c == tx[x].call IN
    /\ At(x, "holdAccount")
    /\ \/ /\ MayHold(c)
          /\ ForUpdate(x, c.token.user, IF c.op = "create" THEN "countLive" ELSE "supersede")
          /\ UNCHANGED rowVars
       \/ ~MayHold(c) /\ Rollback(x, "ErrUserNotFound")

\* CountLiveTokens, against the instant it is asked at.
CountLive(x) ==
    LET t == tx[x].call.token IN
    /\ At(x, "countLive")
    /\ \/ /\ Cardinality(Standing(t.user, t.purpose)) < Cap(t.purpose)
          /\ Goto(x, "insert")
          /\ UNCHANGED <<rowVars, lock, keyed, taken, answer>>
       \/ /\ Cardinality(Standing(t.user, t.purpose)) >= Cap(t.purpose)
          /\ Rollback(x, "ErrTokenExists")

\* A DELETE of the items ends, on to pc to: it takes those it has not got hold of yet.
Delete(x, items, to) ==
    /\ ~Contended(x, items)
    /\ tx' = [tx EXCEPT ![x].pc = to, ![x].doomed = @ \cup items]
    /\ taken' = [taken EXCEPT ![x] = {}]
    /\ UNCHANGED <<rowVars, lock, keyed, answer>>

\* DeleteUserTokensForPurpose
OfPurpose(a, purpose) == {t \in tokens : t.user = a /\ t.purpose = purpose}

Supersede(x) ==
    LET t == tx[x].call.token IN
    At(x, "supersede") /\ Delete(x, OfPurpose(t.user, t.purpose), "insert")

\* insertToken and the commit: the row is seen once the transaction commits.
CommitIssue(x) ==
    LET t == tx[x].call.token IN
    /\ At(x, "insert")
    /\ tokens' = (tokens \ tx[x].doomed) \cup {t}
    /\ minted' = minted \cup {t.hash}
    /\ End(x, "ok")
    /\ UNCHANGED <<users, sessions, clock>>

-----------------------------------------------------------------------------
\* redeem, for ActivateByToken and ResetByToken.
BeginRedeem(x, op, hash, at, password) ==
    /\ Open(x, [op |-> op, hash |-> hash, at |-> at, password |-> password], "find")
    /\ UNCHANGED rowVars

\* The live token behind the call, as FindLiveToken selects it.
Found(c, t) == t.hash = c.hash /\ t.purpose = PurposeOf(c) /\ Live(t, c.at)

\* FindLiveToken takes no lock; the account it names is the one to hold.
Find(x) ==
    LET held == {t.user : t \in {u \in tokens : Found(tx[x].call, u)}} IN
    /\ At(x, "find")
    /\ \/ /\ held # {}
          /\ tx' = [tx EXCEPT ![x].pc = "holdOwner", ![x].todo = held]
          /\ UNCHANGED <<rowVars, lock, keyed, taken, answer>>
       \/ held = {} /\ Rollback(x, "ErrTokenNotFound")

\* A fault: a redemption that spends the token before it holds the account.
SpendFirst(x) ==
    /\ At(x, "holdOwner")
    /\ Goto(x, "spend")
    /\ UNCHANGED <<rowVars, lock, keyed, taken, answer>>

\* holdEnabled on the account the token named.
HoldOwner(x) ==
    /\ At(x, "holdOwner")
    /\ \E a \in tx[x].todo :
        \/ Enabled(a) /\ ForUpdate(x, a, "spend") /\ UNCHANGED rowVars
        \/ ~Enabled(a) /\ Rollback(x, "ErrUserNotFound")

\* DeleteToken: a token spent while the account was waited for is no longer there.
Spend(x) ==
    LET spent == {t \in tokens : t.hash = tx[x].call.hash} IN
    /\ At(x, "spend")
    /\ \/ spent # {} /\ Delete(x, spent, "apply")
       \/ spent = {} /\ Rollback(x, "ErrTokenNotFound")

\* ActivateUser matches an unconfirmed account only, SetUserPassword any enabled one.
Apply(x) ==
    LET c == tx[x].call IN
    /\ At(x, "apply")
    /\ \E a \in tx[x].todo :
        \/ /\ c.op = "reset" \/ ~users[a].confirmed
           /\ Update(x, a, IF c.op = "reset" THEN "endSessions" ELSE "redeemed")
           /\ UNCHANGED rowVars
        \/ /\ c.op = "activate" /\ users[a].confirmed
           /\ Rollback(x, "ErrUserNotFound")

EndSessions(x) ==
    /\ At(x, "endSessions")
    /\ \E a \in tx[x].todo : Delete(x, {s \in sessions : s.user = a}, "endResets")

EndResets(x) ==
    /\ At(x, "endResets")
    /\ \E a \in tx[x].todo : Delete(x, OfPurpose(a, "reset"), "redeemed")

CommitRedeem(x) ==
    /\ At(x, "redeemed")
    /\ \E a \in tx[x].todo :
        users' = [users EXCEPT ![a].password = tx[x].call.password,
                               ![a].confirmed = @ \/ tx[x].call.op = "activate"]
    /\ sessions' = sessions \ tx[x].doomed
    /\ tokens' = tokens \ tx[x].doomed
    /\ End(x, "ok")
    /\ UNCHANGED <<minted, clock>>

-----------------------------------------------------------------------------
\* DeleteExpiredTokens.
BeginSweep(x, at) ==
    /\ Open(x, [op |-> "sweep", at |-> at], "expired")
    /\ UNCHANGED rowVars

\* ExpiredTokens: the accounts behind an expired invite.
ReadExpired(x) ==
    /\ At(x, "expired")
    /\ tx' = [tx EXCEPT
                ![x].pc = "unconfirmed",
                ![x].todo = {t.user : t \in {u \in tokens : u.purpose = "invite"
                                                  /\ ~Live(u, tx[x].call.at)}}]
    /\ UNCHANGED <<rowVars, lock, keyed, taken, answer>>

\* LockUnconfirmedAccounts starts: the unconfirmed ones among them.
ReadUnconfirmed(x) ==
    /\ At(x, "unconfirmed")
    /\ tx' = [tx EXCEPT ![x].pc = "stranded",
                        ![x].todo = {a \in @ : Known(a) /\ ~users[a].confirmed}]
    /\ UNCHANGED <<rowVars, lock, keyed, taken, answer>>

LockStranded(x) ==
    /\ At(x, "stranded")
    /\ \E a \in Account :
        /\ NextRow(x, a)
        /\ Free(x, a)
        /\ tx' = [tx EXCEPT ![x].todo = @ \ {a}]
        /\ IF Known(a)
           THEN lock' = [lock EXCEPT ![a] = x] /\ keyed' = keyed \cup {a}
           ELSE UNCHANGED <<lock, keyed>>
    /\ UNCHANGED <<rowVars, taken, answer>>

\* A fault: DeleteUnconfirmedAccounts without its NOT EXISTS.
DeleteDespiteRenewal(x) ==
    LET gone == {a \in Account : lock[a] = x /\ ~users[a].confirmed}
        rows == {i \in sessions \cup tokens : i.user \in gone}
    IN
    /\ At(x, "stranded")
    /\ tx[x].todo = {}
    /\ ~Contended(x, rows)
    /\ tx' = [tx EXCEPT ![x].pc = "deleteExpired", ![x].todo = gone, ![x].doomed = rows]
    /\ taken' = [taken EXCEPT ![x] = {}]
    /\ UNCHANGED <<rowVars, lock, keyed, answer>>

\* The accounts DeleteUnconfirmedAccounts matches: of those held, the unconfirmed ones
\* without a live invite.
Gone(x) ==
    {a \in Account :
        /\ lock[a] = x /\ ~users[a].confirmed
        /\ ~\E t \in OfPurpose(a, "invite") : Live(t, tx[x].call.at)}

\* DeleteUnconfirmedAccounts ends, with the rows its cascade takes.
DeleteStranded(x) ==
    LET gone == Gone(x)
        rows == {i \in sessions \cup tokens : i.user \in gone}
    IN
    /\ At(x, "stranded")
    /\ tx[x].todo = {}
    /\ ~Contended(x, rows)
    /\ tx' = [tx EXCEPT ![x].pc = "deleteExpired", ![x].todo = gone, ![x].doomed = rows]
    /\ taken' = [taken EXCEPT ![x] = {}]
    /\ UNCHANGED <<rowVars, lock, keyed, answer>>

DeleteExpired(x) ==
    /\ At(x, "deleteExpired")
    /\ Delete(x, {t \in tokens : ~Live(t, tx[x].call.at)}, "swept")

CommitSweep(x) ==
    /\ At(x, "swept")
    /\ users' = [a \in Account |-> IF a \in tx[x].todo THEN NoAccount ELSE users[a]]
    /\ sessions' = sessions \ tx[x].doomed
    /\ tokens' = tokens \ tx[x].doomed
    /\ End(x, "ok")
    /\ UNCHANGED <<minted, clock>>

-----------------------------------------------------------------------------
\* DeleteSession commits at once.  A row another transaction has deleted is waited for.
DeleteSession(hash) ==
    LET items == {s \in sessions : s.hash = hash} IN
    /\ \A x \in Tx : (tx[x].doomed \cup taken[x]) \cap items = {}
    /\ sessions' = sessions \ items
    /\ UNCHANGED <<users, tokens, minted, clock, txVars>>

\* DeleteExpiredSessions is one DELETE, which holds the rows it has while it waits for the
\* next, and commits as it ends.
BeginPurge(x, at) ==
    /\ Open(x, [op |-> "purge", at |-> at], "purge")
    /\ UNCHANGED rowVars

CommitPurge(x) ==
    LET items == {s \in sessions : s.expires <= tx[x].call.at} IN
    /\ At(x, "purge")
    /\ ~Contended(x, items)
    /\ sessions' = sessions \ items
    /\ End(x, "ok")
    /\ UNCHANGED <<users, tokens, minted, clock>>

-----------------------------------------------------------------------------
\* The session and token rows the DELETE at hand of x matches.
Wanted(x) ==
    {i \in sessions \cup tokens :
        \/ i \in Revoked(x)
        \/ At(x, "supersede") /\ i \in OfPurpose(tx[x].call.token.user, tx[x].call.token.purpose)
        \/ At(x, "spend") /\ i \in tokens /\ i.hash = tx[x].call.hash
        \/ At(x, "endSessions") /\ i \in sessions /\ i.user \in tx[x].todo
        \/ At(x, "endResets") /\ \E a \in tx[x].todo : i \in OfPurpose(a, "reset")
        \/ At(x, "stranded") /\ tx[x].todo = {} /\ i.user \in Gone(x)
        \/ At(x, "deleteExpired") /\ i \in tokens /\ ~Live(i, tx[x].call.at)
        \/ At(x, "purge") /\ i \in sessions /\ i.expires <= tx[x].call.at}

\* The DELETE gets hold of one of them.
DeleteRow(x) == TakeRow(x, Wanted(x))

\* No disable of the account is under way.
NoDisable(a) == \A x \in Tx : Ops(x, {"disable"}) => tx[x].call.id # a

\* Bound: a transaction is shorter than the lifetime of the token it issues.
Tick ==
    /\ clock < MaxClock
    /\ \A x \in Tx : Ops(x, {"create", "replace"}) => tx[x].call.token.expires > clock + 1
    /\ clock' = clock + 1
    /\ UNCHANGED <<users, sessions, tokens, minted, txVars>>

-----------------------------------------------------------------------------
\* An empty store.
StoreInit == Init /\ \A a \in Account : ~Known(a)

IssueStep(x) ==
    \E hash \in Hash, a \in Account, expires \in (clock + 1)..(MaxClock + 1) :
        LET token(purpose) ==
                [hash |-> hash, user |-> a, purpose |-> purpose, expires |-> expires]
        IN  \/ BeginIssue(x, "create", token("invite"))
            \/ BeginIssue(x, "replace", token("invite"))
            \/ Known(a) /\ users[a].confirmed /\ BeginIssue(x, "create", token("reset"))

RedeemStep(x) ==
    \E hash \in minted, password \in Password :
        \E op \in {"activate", "reset"} : BeginRedeem(x, op, hash, clock, password)

TokenStep(x) ==
    \/ HoldAccount(x) \/ CountLive(x) \/ Supersede(x) \/ CommitIssue(x)
    \/ Find(x) \/ HoldOwner(x) \/ Spend(x) \/ Apply(x) \/ EndSessions(x) \/ EndResets(x)
    \/ CommitRedeem(x)
    \/ ReadExpired(x) \/ ReadUnconfirmed(x) \/ LockStranded(x) \/ DeleteStranded(x)
    \/ DeleteExpired(x) \/ CommitSweep(x)
    \/ CommitPurge(x) \/ DeleteRow(x)

LoginStep ==
    \E a \in Account, hash \in Hash, expires \in (clock + 1)..(MaxClock + 1) :
        /\ LoginsOverlap \/ NoDisable(a)
        /\ \A x \in Tx : Ops(x, {"create", "replace"}) => tx[x].call.token.hash # hash
        /\ InsertSession([hash |-> hash, user |-> a, expires |-> expires])

StoreNext ==
    \/ \E x \in Tx :
        \/ \E c \in Calls : Begin(x, c)
        \/ \E role \in Grants : BeginGrant(x, role)
        \/ IssueStep(x) \/ RedeemStep(x) \/ BeginSweep(x, clock) \/ BeginPurge(x, clock)
        \/ Step(x) \/ TokenStep(x) \/ Fail(x)
    \/ \E a \in Account, role \in NewRoles, password \in Password \cup {NoPassword} :
          Drawn(a) /\ InsertUser(a, role, password)
    \/ LoginStep
    \/ \E s \in sessions : DeleteSession(s.hash)
    \/ Tick

StoreSpec == StoreInit /\ [][StoreNext]_vars

-----------------------------------------------------------------------------
StorePC == PC \cup {"holdAccount", "countLive", "supersede", "insert", "find", "holdOwner",
                    "spend", "apply", "endSessions", "endResets", "redeemed", "expired",
                    "unconfirmed", "stranded", "deleteExpired", "swept", "purge"}

\* Every row and transaction is one the code can be in.
StoreTypeOK ==
    /\ TypeOK
    /\ \A x \in Tx :
        /\ tx[x].pc \in StorePC
        /\ tx[x].call \in GuardCall \cup GrantCall \cup IssueCall \cup RedeemCall
                             \cup SweepCall \cup PurgeCall \cup {NoCall}
        /\ tx[x].todo \subseteq Account
        /\ tx[x].doomed \subseteq Session \cup Token
    /\ lock \in [Account -> Tx \cup {NoTx}]
    /\ keyed \subseteq Account
    /\ answer \in [Tx -> Answer]
    /\ TakenOK

\* The next row of accounts x is about to lock.
Awaited(x) ==
    {a \in Account :
        \/ tx[x].pc \in {"locking", "granting", "stranded"} /\ NextRow(x, a)
        \/ At(x, "write") /\ StillHolds(tx[x].call) /\ a = tx[x].call.id
        \/ At(x, "holdAccount") /\ MayHold(tx[x].call) /\ a = tx[x].call.token.user
        \/ tx[x].pc \in {"holdOwner", "apply"} /\ a \in tx[x].todo}

WaitsFor(x, y) ==
    /\ x # y
    /\ \/ \E a \in Awaited(x) : lock[a] = y
       \/ Wanted(x) \cap (tx[y].doomed \cup taken[y]) # {}

\* CHANGELOG.md 0.9.0 of authkit/postgres: "a redemption cannot deadlock against a disable",
\* nor against an issue, another redemption, or any guarded write: a redemption another
\* transaction waits for waits itself for nobody but a sweep that deletes what expired, of
\* the tokens or of the sessions.  A circle of waits through a redemption has such a sweep in
\* it: one that has the account's second expired row and waits for the first.
RedeemDeadlocksOnlySweeps ==
    \A x, y, z \in Tx :
        Ops(x, {"activate", "reset"}) /\ WaitsFor(z, x) /\ WaitsFor(x, y) =>
            tx[y].pc \in {"deleteExpired", "swept", "purge"}

\* The guard's refusal is left out of this contract, and so is what it keeps: a sweep or a
\* promotion that commits between countCover and the write's own commit makes the order of
\* the commits one the guard would have refused (PgGuard checks what it does keep).  A
\* transaction may last as long as the run, and so may the Lag of its redemption.
Contract == INSTANCE StoreContract WITH Guards <- {{}}, Lag <- MaxClock

\* Statement by statement, under row locks alone, the Postgres store looks like the serial
\* one: each call takes effect at its commit, whole, or not at all.
Implements == Contract!Promised
=============================================================================
