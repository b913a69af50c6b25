------------------------------- MODULE Logins -------------------------------
(***************************************************************************)
(* Login sessions, invites and resets (authkit/service.go, authkit.go,     *)
(* invite.go) over the account store.  A call of these reads an account,   *)
(* decides, and writes in a later step, so that logins, invites, resends,  *)
(* resets, disables and sweeps meet in any order; the write after a read   *)
(* may fail, or never come.                                                *)
(***************************************************************************)
EXTENDS AccountStore

CONSTANTS
    Call,           \* the calls in flight at once
    SessionTTL, InviteTTL, ResetTTL

ASSUME TTLAssumption == {SessionTTL, InviteTTL, ResetTTL} \subseteq Nat \ {0}

VARIABLES
    calls,          \* each call between its read and its write
    opened,         \* history: how each session was opened
    ended,          \* history: the sessions a logout ended
    created,        \* history: the ids drawn; a fresh account repeats none
    orphaned,       \* history: the accounts that lost their invite, or never had one
    tardy           \* history: the accounts whose Invite sent its own after a resend

loginVars == <<rowVars, calls, opened, ended, created, orphaned, tardy>>

Idle == [at |-> "idle"]
Verified(a) == [at |-> "verified", user |-> a, password |-> users[a].password, late |-> FALSE]
Issuing(a, purpose) == [at |-> purpose, user |-> a]
Replacing(a) == [at |-> "replace", user |-> a]

-----------------------------------------------------------------------------
Ready(c, stage) == calls[c].at = stage
Goto(c, to) == calls' = [calls EXCEPT ![c] = to]

\* What a reset or a disable does to the logins that have already read the account.
Overtake(a) ==
    calls' = [c \in Call |->
                IF Ready(c, "verified") /\ calls[c].user = a
                THEN [calls[c] EXCEPT !.late = TRUE] ELSE calls[c]]

token(hash, a, purpose, ttl) ==
    [hash |-> hash, user |-> a, purpose |-> purpose, expires |-> clock + ttl]

LoginInit ==
    /\ Init
    /\ calls = [c \in Call |-> Idle]
    /\ opened = {} /\ ended = {} /\ created = {} /\ orphaned = {} /\ tardy = {}

-----------------------------------------------------------------------------
\* A fault: the disabled flag is left to the session query.
AuthenticateDisabled(c, a, password) ==
    /\ Ready(c, "idle")
    /\ Known(a)
    /\ users[a].password = password
    /\ Goto(c, Verified(a))
    /\ UNCHANGED <<rowVars, opened, ended, created, orphaned, tardy>>

\* Authenticate: the right password of an enabled account, which has one.
Authenticate(c, a, password) ==
    /\ Ready(c, "idle")
    /\ Enabled(a)
    /\ users[a].password = password
    /\ Goto(c, Verified(a))
    /\ UNCHANGED <<rowVars, opened, ended, created, orphaned, tardy>>

\* StartSession, and the cookie of the answer.
StartSession(c, hash) ==
    /\ Ready(c, "verified")
    /\ CreateSession([hash |-> hash, user |-> calls[c].user, expires |-> clock + SessionTTL])
    /\ opened' = opened \cup
          {[hash |-> hash, password |-> calls[c].password, late |-> calls[c].late]}
    /\ Goto(c, Idle)
    /\ UNCHANGED <<ended, created, orphaned, tardy>>

\* A fault: a logout that deletes by the secret of the cookie and not by its hash.
EndNoSession(hash) ==
    /\ ended' = ended \cup {hash}
    /\ UNCHANGED <<rowVars, calls, opened, created, orphaned, tardy>>

\* EndSession for a cookie that was handed out, whether its session still stands or not.
EndSession(hash) ==
    /\ DeleteSession(hash)
    /\ ended' = ended \cup {hash}
    /\ UNCHANGED <<calls, opened, created, orphaned, tardy>>

\* Invite stores an unconfirmed account without a password, under a fresh id.
Invite(c, a) ==
    /\ Ready(c, "idle")
    /\ a \notin created
    /\ CreateUser(a, NoRole, NoPassword)
    /\ created' = created \cup {a}
    /\ Goto(c, Issuing(a, "invite"))
    /\ UNCHANGED <<opened, ended, orphaned, tardy>>

\* RequestReset reads a confirmed enabled account.
RequestReset(c, a) ==
    /\ Ready(c, "idle")
    /\ Enabled(a) /\ users[a].confirmed
    /\ Goto(c, Issuing(a, "reset"))
    /\ UNCHANGED <<rowVars, opened, ended, created, orphaned, tardy>>

\* ResendInvite reads an enabled account without a password.
ResendInvite(c, a) ==
    /\ Ready(c, "idle")
    /\ Unactivated(a) /\ users[a].password = NoPassword
    /\ Goto(c, Replacing(a))
    /\ UNCHANGED <<rowVars, opened, ended, created, orphaned, tardy>>

TTL(purpose) == IF purpose = "reset" THEN ResetTTL ELSE InviteTTL

\* A resend has reached the account between the two writes of its Invite.
Overtaken(a) ==
    users[a].confirmed \/ \E t \in tokens : t.user = a /\ t.purpose = "invite"

\* issue with createWithin: the second write of Invite and of RequestReset.
Issue(c, hash) ==
    LET a == calls[c].user  purpose == calls[c].at
    IN  /\ purpose \in {"invite", "reset"}
        /\ CreateToken(token(hash, a, purpose, TTL(purpose)))
        /\ tardy' = IF purpose = "invite" /\ Overtaken(a) THEN tardy \cup {a} ELSE tardy
        /\ Goto(c, Idle)
        /\ UNCHANGED <<opened, ended, created, orphaned>>

\* A fault: the replacement of an invite asks for an enabled account only.
ReissueToActivated(c, hash) ==
    LET t == token(hash, calls[c].user, "invite", InviteTTL)
    IN  /\ Ready(c, "replace")
        /\ Enabled(t.user) /\ hash \notin minted
        /\ tokens' = {o \in tokens : o.user # t.user \/ o.purpose # "invite"} \cup {t}
        /\ minted' = minted \cup {hash}
        /\ Goto(c, Idle)
        /\ UNCHANGED <<users, sessions, clock, opened, ended, created, orphaned, tardy>>

\* issue with ReplaceToken: the write of ResendInvite.
Reissue(c, hash) ==
    /\ Ready(c, "replace")
    /\ ReplaceToken(token(hash, calls[c].user, "invite", InviteTTL))
    /\ Goto(c, Idle)
    /\ UNCHANGED <<opened, ended, created, orphaned, tardy>>

\* The write after the read is refused or fails, or the caller has gone: an Invite leaves
\* its account behind without a token.
GiveUp(c) ==
    /\ ~Ready(c, "idle")
    /\ Goto(c, Idle)
    /\ orphaned' = IF Ready(c, "invite") THEN orphaned \cup {calls[c].user} ELSE orphaned
    /\ UNCHANGED <<rowVars, opened, ended, created, tardy>>

RedeemInvite(t, at, password) ==
    /\ ActivateByToken(t, at, password)
    /\ UNCHANGED <<calls, opened, ended, created, orphaned, tardy>>

RedeemReset(t, at, password) ==
    /\ ResetByToken(t, at, password)
    /\ Overtake(t.user)
    /\ UNCHANGED <<opened, ended, created, orphaned, tardy>>

Disable(a, disabled) ==
    /\ SetUserDisabled(a, {NoRole}, disabled, {})
    /\ IF disabled THEN Overtake(a) ELSE UNCHANGED calls
    /\ orphaned' = IF disabled THEN orphaned \cup {a} ELSE orphaned
    /\ UNCHANGED <<opened, ended, created, tardy>>

\* Reaper.Sweep, both halves with one instant; Reaper takes them apart.
Reap(at) ==
    /\ \/ DeleteExpiredSessions(at)
       \/ DeleteExpiredTokens(at)
    /\ UNCHANGED <<calls, opened, ended, created, orphaned, tardy>>

Pass == Tick /\ UNCHANGED <<calls, opened, ended, created, orphaned, tardy>>

-----------------------------------------------------------------------------
Step(c) ==
    \/ \E a \in Account :
          \/ \E password \in Password : Authenticate(c, a, password)
          \/ Invite(c, a) \/ RequestReset(c, a) \/ ResendInvite(c, a)
    \/ \E hash \in Hash : StartSession(c, hash) \/ Issue(c, hash) \/ Reissue(c, hash)
    \/ GiveUp(c)

LoginNext ==
    \/ \E c \in Call : Step(c)
    \/ \E o \in opened : EndSession(o.hash)
    \/ \E t \in tokens, at \in Instant, password \in Password :
          RedeemInvite(t, at, password) \/ RedeemReset(t, at, password)
    \/ \E a \in Account, disabled \in BOOLEAN : Disable(a, disabled)
    \/ \E at \in Instant : Reap(at)
    \/ Pass

LoginSpec == LoginInit /\ [][LoginNext]_loginVars

-----------------------------------------------------------------------------
\* A session stands only for a login that has not been logged out, under the password the
\* account still has and while the account is enabled.  One kind escapes: the session of a
\* login that had already verified its password when the reset or the disable landed.
SessionsStand ==
    \A s \in sessions : \E o \in opened :
        /\ o.hash = s.hash /\ s.hash \notin ended
        /\ o.late \/ (~users[s.user].disabled /\ users[s.user].password = o.password)

\* A reset is out for a confirmed account only and an invite for an unconfirmed one only,
\* though each was issued on an earlier reading of the account.  One kind escapes, and
\* activates nothing: what is left over when a resend overtook the account's own Invite.
TokensMatchAccounts ==
    \A t \in tokens :
        /\ t.purpose = "reset" => users[t.user].confirmed
        /\ t.purpose = "invite" /\ users[t.user].confirmed => t.user \in tardy

\* An unconfirmed account always has its invite out, or a call about to send it, so that
\* the sweep finds it in the end.  Only a failed Invite and a disable leave one without,
\* which no sweep collects and only a resend saves.
InviteStaysOut ==
    \A a \in Account \ orphaned :
        Known(a) /\ ~users[a].confirmed =>
            \/ \E t \in tokens : t.user = a /\ t.purpose = "invite"
            \/ \E c \in Call : Ready(c, "invite") /\ calls[c].user = a
=============================================================================
