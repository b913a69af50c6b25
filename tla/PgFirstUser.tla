---------------------------- MODULE PgFirstUser -----------------------------
(***************************************************************************)
(* CreateFirstUser in Postgres (authkit/postgres/setup.go): it locks the   *)
(* whole table against writers, makes sure its next statements see what    *)
(* was committed before them, looks whether any account exists and inserts *)
(* its own.  Other accounts are inserted meanwhile, by calls that take no  *)
(* more than the table lock every INSERT takes.                            *)
(*                                                                         *)
(* A transaction makes one call and stands for the account it inserts.     *)
(***************************************************************************)
EXTENDS FiniteSets

CONSTANTS
    Tx,     \* the transactions
    First   \* those that call CreateFirstUser; the others insert an account

ASSUME FirstAssumption == First \subseteq Tx

VARIABLES
    pc,     \* the next statement of each transaction
    mode,   \* the table lock it holds
    level,  \* its isolation level, which the database or the connection may set
    since,  \* the accounts committed when it began
    users   \* the accounts committed

vars == <<pc, mode, level, since, users>>

Level == {"read committed", "repeatable read"}

Mode == {"none", "row exclusive", "share", "share row exclusive"}

Pc == {"idle", "lock", "level", "look", "insert", "commit", "done"}

TypeOK ==
    /\ pc \in [Tx -> Pc]
    /\ mode \in [Tx -> Mode]
    /\ level \in [Tx -> Level]
    /\ since \in [Tx -> SUBSET Tx]
    /\ users \subseteq Tx

-----------------------------------------------------------------------------
\* A fault: a lock that several can hold, and then none of them can insert.
LockModeShared == "share"

\* lockUsers: LOCK TABLE auth.users IN SHARE ROW EXCLUSIVE MODE.
LockMode == "share row exclusive"

\* The table lock modes Postgres does not grant to two transactions at once.
Conflict ==
    {{"share row exclusive"}, {"share row exclusive", "row exclusive"},
     {"share row exclusive", "share"}, {"share", "row exclusive"}}

Grantable(x, m) == \A y \in Tx \ {x} : {mode[y], m} \notin Conflict

\* A transaction keeps what it holds: an INSERT adds nothing to a stronger lock.
Held(x, m) == IF mode[x] = "none" THEN m ELSE mode[x]

Goto(x, next) == pc' = [pc EXCEPT ![x] = next]

-----------------------------------------------------------------------------
Init ==
    /\ pc = [x \in Tx |-> "idle"]
    /\ mode = [x \in Tx |-> "none"]
    /\ level = [x \in Tx |-> "read committed"]
    /\ since = [x \in Tx |-> {}]
    /\ users = {}

Begin(x) ==
    /\ pc[x] = "idle"
    /\ Goto(x, IF x \in First THEN "lock" ELSE "insert")
    /\ \E l \in Level : level' = [level EXCEPT ![x] = l]
    /\ since' = [since EXCEPT ![x] = users]
    /\ UNCHANGED <<mode, users>>

LockUsers(x) ==
    /\ pc[x] = "lock"
    /\ Grantable(x, LockMode)
    /\ mode' = [mode EXCEPT ![x] = LockMode]
    /\ Goto(x, "level")
    /\ UNCHANGED <<level, since, users>>

End(x) ==
    /\ Goto(x, "done")
    /\ mode' = [mode EXCEPT ![x] = "none"]
    /\ UNCHANGED <<level, since>>

\* A fault: any isolation level will do.
SeesAny(x) ==
    /\ pc[x] = "level"
    /\ Goto(x, "look")
    /\ UNCHANGED <<mode, level, since, users>>

\* seesLatest refuses a transaction whose statements may not see the latest commits.
SeesLatest(x) ==
    /\ pc[x] = "level"
    /\ IF level[x] = "read committed"
       THEN Goto(x, "look") /\ UNCHANGED <<mode, level, since>>
       ELSE End(x)
    /\ UNCHANGED users

\* What a statement sees: at READ COMMITTED all that is committed, above it a snapshot of
\* which the code assumes no more than that it was taken after the transaction began.
Seen(x) ==
    IF level[x] = "read committed" THEN {users} ELSE {s \in SUBSET users : since[x] \subseteq s}

HasUsers(x) ==
    /\ pc[x] = "look"
    /\ \/ {} \in Seen(x) /\ Goto(x, "insert") /\ UNCHANGED <<mode, level, since>>
       \/ (\E s \in Seen(x) : s # {}) /\ End(x)
    /\ UNCHANGED users

InsertUser(x) ==
    /\ pc[x] = "insert"
    /\ Grantable(x, "row exclusive")
    /\ mode' = [mode EXCEPT ![x] = Held(x, "row exclusive")]
    /\ Goto(x, "commit")
    /\ UNCHANGED <<level, since, users>>

Commit(x) ==
    /\ pc[x] = "commit"
    /\ users' = users \cup {x}
    /\ End(x)

\* A statement fails, the connection drops or the context ends: the transaction rolls back.
Fail(x) ==
    /\ pc[x] \notin {"idle", "done"}
    /\ End(x)
    /\ UNCHANGED users

Next ==
    \E x \in Tx :
        \/ Begin(x) \/ LockUsers(x) \/ SeesLatest(x) \/ HasUsers(x) \/ InsertUser(x)
        \/ Commit(x) \/ Fail(x)

Spec == Init /\ [][Next]_vars

-----------------------------------------------------------------------------
\* The account CreateFirstUser commits is the first of all: no other was committed before
\* it, by whichever call.
FirstIsFirst == [][\A x \in First : x \in users' \ users => users = {}]_vars

\* The transactions under way never all wait for one another: some one of them can go on.
Waits(x) ==
    \/ pc[x] = "lock" /\ ~Grantable(x, LockMode)
    \/ pc[x] = "insert" /\ ~Grantable(x, "row exclusive")

Under == {x \in Tx : pc[x] \notin {"idle", "done"}}

SomeoneProceeds == Under # {} => \E x \in Under : ~Waits(x)
=============================================================================
