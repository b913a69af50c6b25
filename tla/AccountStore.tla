---------------------------- MODULE AccountStore ----------------------------
(***************************************************************************)
(* The account store of authkit/sqlite: accounts, login sessions and       *)
(* single-use tokens.  Every write runs in a transaction begun IMMEDIATE,  *)
(* so writes are serial and each operation is one step.  This is also what *)
(* the in-memory store of authkit/testkit does under its mutex, and what   *)
(* the Postgres store promises to look like (StoreContract says how far).  *)
(*                                                                         *)
(* A call the store refuses rolls back and changes nothing: it is a        *)
(* stuttering step, and the condition it is refused under is the negation  *)
(* of the action's guard.                                                  *)
(***************************************************************************)
EXTENDS AccountRows

CONSTANTS
    Lag             \* bound: ticks from the instant a redemption reads to its transaction

ASSUME LagAssumption == Lag \in Nat

vars == rowVars

-----------------------------------------------------------------------------
Init ==
    /\ users = [a \in Account |-> NoAccount]
    /\ sessions = {}
    /\ tokens = {}
    /\ minted = {}
    /\ clock = 0

CreateUser(a, role, password) ==
    /\ ~Known(a)
    /\ users' = [users EXCEPT ![a] = NewRow(role, password)]
    /\ UNCHANGED <<sessions, tokens, minted, clock>>

CreateFirstUser(a, role, password) ==
    /\ \A b \in Account : ~Known(b)
    /\ users' = [users EXCEPT ![a] = NewRow(role, password)]
    /\ UNCHANGED <<sessions, tokens, minted, clock>>

\* The foreign key refuses a session of no account.  A disabled one is not refused.
CreateSession(s) ==
    /\ Known(s.user)
    /\ s.hash \notin minted
    /\ sessions' = sessions \cup {s}
    /\ minted' = minted \cup {s.hash}
    /\ UNCHANGED <<users, tokens, clock>>

DeleteSession(hash) ==
    /\ sessions' = {s \in sessions : s.hash # hash}
    /\ UNCHANGED <<users, tokens, minted, clock>>

DeleteExpiredSessions(at) ==
    /\ sessions' = {s \in sessions : s.expires > at}
    /\ UNCHANGED <<users, tokens, minted, clock>>

\* SetUserRole, and SetUserRoleFrom when the account still holds the role in from.
SetUserRole(a, from, role, privileged) ==
    /\ Known(a)
    /\ users[a].role \in from
    /\ KeepsCover(a, privileged, ~Holds(privileged, role))
    /\ users' = [users EXCEPT ![a].role = role]
    /\ UNCHANGED <<sessions, tokens, minted, clock>>

\* A fault: a disable that revokes the sessions and leaves the tokens.
DisableKeepingTokens(a, from, disabled, privileged) ==
    /\ Known(a)
    /\ users[a].role \in from
    /\ KeepsCover(a, privileged, disabled)
    /\ users' = [users EXCEPT ![a].disabled = disabled]
    /\ sessions' = IF disabled THEN NotOf(sessions, {a}) ELSE sessions
    /\ UNCHANGED <<tokens, minted, clock>>

\* SetUserDisabled (no privileged roles), SetUserDisabledUnderCover and SetUserDisabledFrom.
SetUserDisabled(a, from, disabled, privileged) ==
    /\ Known(a)
    /\ users[a].role \in from
    /\ KeepsCover(a, privileged, disabled)
    /\ users' = [users EXCEPT ![a].disabled = disabled]
    /\ sessions' = IF disabled THEN NotOf(sessions, {a}) ELSE sessions
    /\ tokens' = IF disabled THEN NotOf(tokens, {a}) ELSE tokens
    /\ UNCHANGED <<minted, clock>>

GrantRoleToRoleless(role) ==
    /\ role # NoRole
    /\ users' = [a \in Account |->
                    IF Known(a) /\ users[a].role = NoRole
                    THEN [users[a] EXCEPT !.role = role] ELSE users[a]]
    /\ UNCHANGED <<sessions, tokens, minted, clock>>

\* A fault: the cap read as the count that may already stand.
CreateTokenPastCap(t) ==
    /\ Enabled(t.user)
    /\ t.hash \notin minted
    /\ Cardinality(Standing(t.user, t.purpose)) <= Cap(t.purpose)
    /\ tokens' = tokens \cup {t}
    /\ minted' = minted \cup {t.hash}
    /\ UNCHANGED <<users, sessions, clock>>

CreateToken(t) ==
    /\ Enabled(t.user)
    /\ t.hash \notin minted
    /\ Cardinality(Standing(t.user, t.purpose)) < Cap(t.purpose)
    /\ tokens' = tokens \cup {t}
    /\ minted' = minted \cup {t.hash}
    /\ UNCHANGED <<users, sessions, clock>>

ReplaceToken(t) ==
    /\ IF t.purpose = "invite" THEN Unactivated(t.user) ELSE Enabled(t.user)
    /\ t.hash \notin minted
    /\ tokens' = {o \in tokens : o.user # t.user \/ o.purpose # t.purpose} \cup {t}
    /\ minted' = minted \cup {t.hash}
    /\ UNCHANGED <<users, sessions, clock>>

\* A fault: a redemption that takes an expired token.
RedeemableExpired(t, purpose, at) == t.purpose = purpose /\ Enabled(t.user)

\* A redemption names the live token of its purpose and an enabled account.
Redeemable(t, purpose, at) ==
    t.purpose = purpose /\ Live(t, at) /\ Enabled(t.user)

\* A fault: an activation that stores the password and leaves the account unconfirmed.
ActivateUnconfirmed(t, at, password) ==
    /\ Redeemable(t, "invite", at)
    /\ ~users[t.user].confirmed
    /\ users' = [users EXCEPT ![t.user].password = password]
    /\ tokens' = tokens \ {t}
    /\ UNCHANGED <<sessions, minted, clock>>

ActivateByToken(t, at, password) ==
    /\ Redeemable(t, "invite", at)
    /\ ~users[t.user].confirmed
    /\ users' = [users EXCEPT ![t.user].password = password,
                              ![t.user].confirmed = TRUE]
    /\ tokens' = tokens \ {t}
    /\ UNCHANGED <<sessions, minted, clock>>

\* A fault: a reset that leaves the sessions the old password opened.
ResetKeepingSessions(t, at, password) ==
    /\ Redeemable(t, "reset", at)
    /\ users' = [users EXCEPT ![t.user].password = password]
    /\ tokens' = {o \in tokens : o.user # t.user \/ o.purpose # "reset"}
    /\ UNCHANGED <<sessions, minted, clock>>

ResetByToken(t, at, password) ==
    /\ Redeemable(t, "reset", at)
    /\ users' = [users EXCEPT ![t.user].password = password]
    /\ sessions' = NotOf(sessions, {t.user})
    /\ tokens' = {o \in tokens : o.user # t.user \/ o.purpose # "reset"}
    /\ UNCHANGED <<minted, clock>>

\* A fault: no ON DELETE CASCADE on the sessions of an account.
SweepKeepingSessions(at, gone) ==
    /\ users' = [a \in Account |-> IF a \in gone THEN NoAccount ELSE users[a]]
    /\ tokens' = {t \in NotOf(tokens, gone) : Live(t, at)}
    /\ UNCHANGED <<sessions, minted, clock>>

\* A fault: the expired tokens are deleted first, so that no account is found stranded.
SweepTokensFirst(at, gone) ==
    /\ tokens' = {t \in tokens : Live(t, at)}
    /\ UNCHANGED <<users, sessions, minted, clock>>

\* Delete the accounts in gone, whose rows cascade, and the expired tokens.
SweepTokens(at, gone) ==
    /\ users' = [a \in Account |-> IF a \in gone THEN NoAccount ELSE users[a]]
    /\ sessions' = NotOf(sessions, gone)
    /\ tokens' = {t \in NotOf(tokens, gone) : Live(t, at)}
    /\ UNCHANGED <<minted, clock>>

DeleteExpiredTokens(at) == SweepTokens(at, Stranded(at))

\* Time passes between calls.
Tick ==
    /\ clock < MaxClock
    /\ clock' = clock + 1
    /\ UNCHANGED <<users, sessions, tokens, minted>>

-----------------------------------------------------------------------------
\* What the callers hand over: an instant read at or before the call, and a lifetime that
\* has not run out and ends within the run or outlasts it.
Instant == 0..clock
Expiry == (clock + 1)..(MaxClock + 1)

\* The role a checked write names, or any role for an unchecked one.
From == {{r} : r \in Role \cup {NoRole}} \cup {Role \cup {NoRole}}

UserSteps ==
    \E a \in Account, role \in Role \cup {NoRole} :
        \/ \E password \in Password \cup {NoPassword} : CreateUser(a, role, password)
        \/ \E password \in Password : role # NoRole /\ CreateFirstUser(a, role, password)
        \/ \E from \in From, g \in Guards : SetUserRole(a, from, role, g)
        \/ GrantRoleToRoleless(role)

DisableSteps ==
    \E a \in Account, from \in From, disabled \in BOOLEAN, g \in Guards :
        SetUserDisabled(a, from, disabled, g)

SessionSteps ==
    \/ \E hash \in Hash, a \in Account, expires \in Expiry :
          CreateSession([hash |-> hash, user |-> a, expires |-> expires])
    \/ \E s \in sessions : DeleteSession(s.hash)
    \/ \E at \in Instant : DeleteExpiredSessions(at)

\* Invite creates a first invite, ResendInvite replaces it, and RequestReset issues to an
\* account it read as confirmed, which an account never ceases to be.
IssueSteps ==
    \E hash \in Hash, a \in Account, expires \in Expiry :
        LET token(purpose) ==
                [hash |-> hash, user |-> a, purpose |-> purpose, expires |-> expires]
        IN  \/ CreateToken(token("invite"))
            \/ ReplaceToken(token("invite"))
            \/ Known(a) /\ users[a].confirmed /\ CreateToken(token("reset"))

\* Activate and Reset read the time and call the store: the instant is Lag old at most.
RedeemSteps ==
    \E at \in {i \in Instant : clock <= i + Lag}, t \in tokens, password \in Password :
        ActivateByToken(t, at, password) \/ ResetByToken(t, at, password)

SweepSteps == \E at \in Instant : DeleteExpiredTokens(at)

Next ==
    \/ UserSteps \/ DisableSteps \/ SessionSteps \/ IssueSteps \/ RedeemSteps
    \/ SweepSteps \/ Tick

Spec == Init /\ [][Next]_vars

-----------------------------------------------------------------------------
\* The guarded writes never take the last cover.  When every write is guarded, only the
\* token sweep does, by deleting an unconfirmed account the guard had counted.
CoverLostOnlyToSweep ==
    [][\A g \in Guards :
         Covered(g) /\ ~Covered(g)' =>
            \E a \in Account : Covers(a, g) /\ ~users[a].confirmed /\ ~Known(a)']_vars

\* Only the owner of a mailbox changes a password: each change spends a token, an invite
\* while the account is unconfirmed and a reset token once it is confirmed, that was live
\* when the redemption read the time, which is Lag ago at most.
PasswordChangeSpendsToken ==
    [][\A a \in Account :
         Known(a) /\ Known(a)' /\ users[a].password # users[a].password' =>
            \E t \in tokens \ tokens' :
                /\ t.user = a
                /\ t.purpose = IF users[a].confirmed THEN "reset" ELSE "invite"
                /\ clock < t.expires + Lag]_vars

\* A reset leaves nothing an older password opened: no session and no other reset token
\* of the account outlives it.
ResetLeavesNothing ==
    [][\A a \in Account :
         Known(a) /\ users[a].confirmed /\ Known(a)'
             /\ users[a].password # users[a].password' =>
            /\ \A s \in sessions' : s.user # a
            /\ \A t \in tokens' : t.user # a \/ t.purpose # "reset"]_vars

\* An account disappears only while unconfirmed and past every invite it was sent: the
\* sweep spares a confirmed account and a renewed invite.
SweptWasStranded ==
    [][\A a \in Account :
         Known(a) /\ ~Known(a)' =>
            ~users[a].confirmed /\ Standing(a, "invite") = {}]_vars
=============================================================================
