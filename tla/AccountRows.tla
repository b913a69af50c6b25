---------------------------- MODULE AccountRows -----------------------------
(***************************************************************************)
(* The three tables both account stores keep, auth.users, auth.sessions    *)
(* and auth.tokens: their rows, the conditions their queries select by,    *)
(* and what must be true of their committed contents under either store.   *)
(***************************************************************************)
EXTENDS Naturals, FiniteSets

CONSTANTS
    Account,        \* the account ids, each with the address it is filed under
    Role,           \* the non-empty role names
    Password,       \* the password hashes
    Hash,           \* the hashes of the secrets NewToken and NewSession draw
    Guards,         \* the privileged role lists the guarded writes are handed
    ResetLive,      \* InvitesConfig.ResetTokensLive
    MaxClock,       \* bound: the last instant the clock reaches
    NoAccount, NoRole, NoPassword

ASSUME NullAssumption ==
    /\ NoRole \notin Role
    /\ NoPassword \notin Password

\* An unprivileged list is the empty one.  A list may hold the empty role name.
ASSUME GuardsAssumption == Guards \subseteq SUBSET (Role \cup {NoRole})

ASSUME BoundAssumption == MaxClock \in Nat /\ ResetLive \in Nat \ {0}

VARIABLES
    users,          \* auth_users
    sessions,       \* auth_sessions
    tokens,         \* auth_tokens
    minted,         \* the hashes drawn so far: a fresh secret repeats none
    clock           \* the current instant

rowVars == <<users, sessions, tokens, minted, clock>>

Purpose == {"invite", "reset", "confirm"}

Row == [disabled : BOOLEAN, confirmed : BOOLEAN,
        role : Role \cup {NoRole}, password : Password \cup {NoPassword}]

Session == [hash : Hash, user : Account, expires : Nat]

Token == [hash : Hash, user : Account, purpose : Purpose, expires : Nat]

ASSUME NoAccountAssumption == NoAccount \notin Row

-----------------------------------------------------------------------------
Known(a) == users[a] # NoAccount

\* LockEnabledUser
Enabled(a) == Known(a) /\ ~users[a].disabled

\* LockUnactivatedUser
Unactivated(a) == Enabled(a) /\ ~users[a].confirmed

\* Roles.Holds: the empty role is never privileged, even when it is listed.
Holds(privileged, role) == role # NoRole /\ role \in privileged

\* The rows the guard's SQL counts: it compares role names and knows no empty one.
Covers(a, privileged) == Enabled(a) /\ users[a].role \in privileged

\* A fault: countCover without its id <> $2 counts the account it is asked about.
KeepsCoverCountingItself(a, privileged, removesCover) ==
    \/ privileged = {} \/ ~removesCover
    \/ \E b \in Account : Covers(b, privileged)

\* refuseUncovered lets the write of account a pass.
KeepsCover(a, privileged, removesCover) ==
    \/ privileged = {} \/ ~removesCover
    \/ ~Covers(a, privileged)
    \/ \E b \in Account \ {a} : Covers(b, privileged)

Live(t, at) == t.expires > at

\* The live tokens CreateToken admits: Invite asks for one, RequestReset for ResetLive.
Cap(purpose) == IF purpose = "reset" THEN ResetLive ELSE 1

Standing(a, purpose) ==
    {t \in tokens : t.user = a /\ t.purpose = purpose /\ Live(t, clock)}

\* Deleting an account's row cascades to its sessions and tokens.
NotOf(items, accounts) == {i \in items : i.user \notin accounts}

\* A fault: a sweep that does not look for the invite that replaced the expired one.
StrandedDespiteRenewal(at) ==
    {a \in Account :
        /\ Known(a) /\ ~users[a].confirmed
        /\ \E t \in tokens : t.user = a /\ t.purpose = "invite" /\ ~Live(t, at)}

\* The unconfirmed accounts behind an expired invite that hold no live one.
Stranded(at) ==
    {a \in Account :
        /\ Known(a) /\ ~users[a].confirmed
        /\ \E t \in tokens : t.user = a /\ t.purpose = "invite" /\ ~Live(t, at)
        /\ ~\E t \in tokens : t.user = a /\ t.purpose = "invite" /\ Live(t, at)}

\* A fault: two string columns of the insert swapped.
NewRowSwapped(role, password) ==
    [disabled |-> FALSE, confirmed |-> password # NoPassword,
     role |-> password, password |-> role]

\* NewUser makes a confirmed account with a password, NewInvitedUser one without either.
NewRow(role, password) ==
    [disabled |-> FALSE, confirmed |-> password # NoPassword,
     role |-> role, password |-> password]

\* An enabled account holds a privileged role.
Covered(privileged) == \E a \in Account : Covers(a, privileged)

-----------------------------------------------------------------------------
\* Every variable holds what its table can hold.
TypeOK ==
    /\ users \in [Account -> Row \cup {NoAccount}]
    /\ sessions \subseteq Session
    /\ tokens \subseteq Token
    /\ minted \subseteq Hash
    /\ clock \in 0..MaxClock

\* A row of the sessions or tokens table names an account that exists, whatever was
\* swept, and carries a hash no other row carries: the cascade of DeleteUnconfirmedAccounts
\* and the foreign keys of the schema.
Owned ==
    /\ \A i \in sessions \cup tokens : Known(i.user) /\ i.hash \in minted
    /\ \A s \in sessions, t \in tokens : s.hash # t.hash
    /\ \A s, r \in sessions : s.hash = r.hash => s = r
    /\ \A s, r \in tokens : s.hash = r.hash => s = r

\* A disabled account holds no token: disable ends them, and no issue, replacement or
\* redemption gives it one back (revoke, holdEnabled).
ClosedHoldsNoToken == \A t \in tokens : ~users[t.user].disabled

\* An account is confirmed exactly when it holds a password, so RequestReset, which asks
\* for a confirmed account, and ResendInvite, which asks for one without a password,
\* never both serve an address.
ConfirmedHoldsPassword ==
    \A a \in Account : Known(a) => (users[a].confirmed <=> users[a].password # NoPassword)

\* No account has more live tokens of a purpose than the cap its issuer passes: the count
\* of CreateToken and the swap of ReplaceToken agree.
CapHolds ==
    \A a \in Account, p \in Purpose : Cardinality(Standing(a, p)) <= Cap(p)
=============================================================================
