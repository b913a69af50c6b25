----------------------------- MODULE FlowProofs -----------------------------
(***************************************************************************)
(* Proofs about the flows over the serial store, for any number of         *)
(* accounts, secrets, calls in flight and lifetimes: what stands after     *)
(* logins, invites, resends, resets, disables and sweeps meet in any order *)
(* (Logins), and what the reaper's sweeps take, late ones included         *)
(* (Reaper).                                                               *)
(***************************************************************************)
EXTENDS Logins, Reaper, AccountStoreProofs

-----------------------------------------------------------------------------
Calls ==
    {Idle} \cup [at : {"verified"}, user : Account, password : Password, late : BOOLEAN]
           \cup [at : {"invite", "reset", "replace"}, user : Account]

\* The calls in flight and the histories hold what they can hold.
CallsOK ==
    /\ calls \in [Call -> Calls]
    /\ opened \subseteq [hash : Hash, password : Password, late : BOOLEAN]
    /\ \A o \in opened : o.hash \in minted
    /\ ended \subseteq minted

\* What a call has read still holds when it writes: an account that had a password keeps one,
\* and a reset or a disable marks the logins it overtakes.
ReadsHold ==
    \A c \in Call :
        LET a == calls[c].user
        IN  /\ Ready(c, "verified") /\ ~calls[c].late =>
                  Enabled(a) /\ users[a].password = calls[c].password
            /\ Ready(c, "reset") => Known(a) /\ users[a].confirmed

\* Only an Invite that a resend overtook leaves an account with two invites.
OneInvite ==
    \A t, o \in tokens :
        t.purpose = "invite" /\ o.purpose = "invite" /\ t.user = o.user /\ t # o =>
            t.user \in tardy

LoginInv ==
    /\ TypeOK /\ Owned /\ ConfirmedHoldsPassword
    /\ CallsOK /\ ReadsHold /\ OneInvite
    /\ SessionsStand /\ TokensMatchAccounts /\ InviteStaysOut

LEMMA LoginInitHolds == LoginInit => LoginInv
<1> SUFFICES ASSUME LoginInit PROVE LoginInv
  OBVIOUS
<1>1. TypeOK /\ Owned /\ ConfirmedHoldsPassword
  BY BoundAssumption DEF LoginInit, Init, TypeOK, Owned, ConfirmedHoldsPassword, Known
<1>2. CallsOK
  BY DEF LoginInit, Init, CallsOK, Calls
<1>3. ReadsHold
  BY DEF LoginInit, ReadsHold, Ready, Idle
<1>4. OneInvite /\ SessionsStand /\ TokensMatchAccounts /\ InviteStaysOut
  BY DEF LoginInit, Init, OneInvite, SessionsStand, TokensMatchAccounts, InviteStaysOut, Known
<1> QED BY <1>1, <1>2, <1>3, <1>4 DEF LoginInv

-----------------------------------------------------------------------------
\* What a call in flight carries.
LEMMA CallShapes ==
    ASSUME CallsOK, NEW c \in Call
    PROVE  /\ calls[c].at \in {"idle", "verified", "invite", "reset", "replace"}
           /\ calls[c].at # "idle" => calls[c].user \in Account
           /\ calls[c].at = "verified" =>
                 calls[c].password \in Password /\ calls[c].late \in BOOLEAN
BY DEF CallsOK, Calls, Idle

\* The rows of the tables belong to accounts that exist.
LEMMA RowShapes ==
    ASSUME TypeOK, Owned
    PROVE  /\ \A s \in sessions : s.user \in Account /\ Known(s.user) /\ s.hash \in minted
           /\ \A t \in tokens : t.user \in Account /\ Known(t.user) /\ t.hash \in minted
           /\ \A a \in Account : Known(a) => users[a] \in Row
BY DEF TypeOK, Owned, Session, Token, Known

\* A call that moves leaves the others where they are.
LEMMA CallMoves ==
    ASSUME CallsOK, NEW c \in Call, NEW to \in Calls, Goto(c, to)
    PROVE  /\ calls' \in [Call -> Calls] /\ calls'[c] = to
           /\ \A other \in Call \ {c} : calls'[other] = calls[other]
BY DEF CallsOK, Goto

\* A read: the tables and the histories stay as they are.
LEMMA LookKeeps ==
    ASSUME LoginInv, NEW c \in Call, NEW to \in Calls, Goto(c, to),
           UNCHANGED <<rowVars, opened, ended, created, orphaned, tardy>>,
           Ready(c, "idle"),
           to.at = "verified" /\ ~to.late =>
              Enabled(to.user) /\ users[to.user].password = to.password,
           to.at = "reset" => Known(to.user) /\ users[to.user].confirmed
    PROVE  LoginInv'
<1>1. /\ calls' \in [Call -> Calls] /\ calls'[c] = to
      /\ \A other \in Call \ {c} : calls'[other] = calls[other]
  BY CallMoves DEF LoginInv
<1>2. CallsOK'
  BY <1>1 DEF LoginInv, CallsOK, rowVars
<1>3. ReadsHold'
  BY <1>1 DEF LoginInv, ReadsHold, Ready, rowVars, Enabled, Known
<1>4. InviteStaysOut'
  BY <1>1 DEF LoginInv, InviteStaysOut, Ready, rowVars, Known
<1>5. TypeOK' /\ Owned' /\ ConfirmedHoldsPassword'
  BY DEF LoginInv, TypeOK, Owned, ConfirmedHoldsPassword, rowVars, Known
<1>6. OneInvite' /\ SessionsStand' /\ TokensMatchAccounts'
  BY DEF LoginInv, OneInvite, SessionsStand, TokensMatchAccounts, rowVars
<1> QED BY <1>2, <1>3, <1>4, <1>5, <1>6 DEF LoginInv

-----------------------------------------------------------------------------
LEMMA AuthenticateKeeps ==
    ASSUME LoginInv, NEW c \in Call, NEW a \in Account, NEW password \in Password,
           Authenticate(c, a, password)
    PROVE  LoginInv'
<1> DEFINE to == [at |-> "verified", user |-> a, password |-> password, late |-> FALSE]
<1>1. to \in Calls /\ to.at = "verified" /\ to.user = a /\ to.password = password
  BY DEF Calls
<1>2. Goto(c, to) /\ Enabled(a) /\ users[a].password = password
  BY DEF Authenticate, Verified
<1> HIDE DEF to
<1> QED BY <1>1, <1>2, LookKeeps DEF Authenticate

LEMMA RequestResetKeeps ==
    ASSUME LoginInv, NEW c \in Call, NEW a \in Account, RequestReset(c, a)
    PROVE  LoginInv'
<1> DEFINE to == Issuing(a, "reset")
<1>1. to \in Calls /\ to.at = "reset" /\ to.user = a
  BY DEF Calls, Issuing
<1>2. Goto(c, to) /\ Known(a) /\ users[a].confirmed
  BY DEF RequestReset, Enabled
<1> HIDE DEF to
<1> QED BY <1>1, <1>2, LookKeeps DEF RequestReset

LEMMA ResendInviteKeeps ==
    ASSUME LoginInv, NEW c \in Call, NEW a \in Account, ResendInvite(c, a)
    PROVE  LoginInv'
<1> DEFINE to == Replacing(a)
<1>1. to \in Calls /\ to.at = "replace" /\ Goto(c, to)
  BY DEF Calls, Replacing, ResendInvite
<1> HIDE DEF to
<1> QED BY <1>1, LookKeeps DEF ResendInvite

\* A new session goes to a login that read an enabled account, or was overtaken since.
LEMMA StartSessionKeeps ==
    ASSUME LoginInv, NEW c \in Call, NEW hash \in Hash, StartSession(c, hash)
    PROVE  LoginInv'
<1>1. calls[c].at = "verified" /\ CallsOK
  BY DEF StartSession, Ready, LoginInv
<1>2. PICK a \in Account, password \in Password, late \in BOOLEAN :
         calls[c].user = a /\ calls[c].password = password /\ calls[c].late = late
  BY <1>1, CallShapes
<1> DEFINE s == [hash |-> hash, user |-> a, expires |-> clock + SessionTTL]
<1> DEFINE o == [hash |-> hash, password |-> password, late |-> late]
<1>3. /\ Known(a) /\ hash \notin minted /\ sessions' = sessions \cup {s}
      /\ minted' = minted \cup {hash} /\ opened' = opened \cup {o}
      /\ UNCHANGED <<users, tokens, clock, ended, created, orphaned, tardy>>
  BY <1>2 DEF StartSession, CreateSession
<1>4. s \in Session /\ s.hash = hash /\ s.user = a
  <2>1. clock \in Nat /\ SessionTTL \in Nat
    BY BoundAssumption, TTLAssumption DEF LoginInv, TypeOK
  <2> QED BY <2>1 DEF Session
<1>5. /\ o \in [hash : Hash, password : Password, late : BOOLEAN] /\ o.hash = hash
      /\ o.password = password /\ o.late = late
  OBVIOUS
<1>6. /\ calls' \in [Call -> Calls] /\ calls'[c] = Idle
      /\ \A other \in Call \ {c} : calls'[other] = calls[other]
  <2>1. Idle \in Calls
    BY DEF Calls
  <2> QED BY <1>1, <2>1, CallMoves DEF StartSession
<1>7. ~late => Enabled(a) /\ users[a].password = password
  BY <1>1, <1>2 DEF LoginInv, ReadsHold, Ready
<1> HIDE DEF s, o
<1>8. TypeOK'
  BY <1>3, <1>4 DEF LoginInv, TypeOK
<1>9. Owned'
  BY <1>3, <1>4, RowShapes DEF LoginInv, Owned, Known
<1>10. CallsOK'
  BY <1>3, <1>5, <1>6 DEF LoginInv, CallsOK
<1>11. ReadsHold'
  BY <1>3, <1>6 DEF LoginInv, ReadsHold, Ready, Idle, Enabled, Known
<1>12. ConfirmedHoldsPassword' /\ OneInvite' /\ TokensMatchAccounts'
  BY <1>3 DEF LoginInv, ConfirmedHoldsPassword, OneInvite, TokensMatchAccounts, Known
<1>13. SessionsStand'
  <2>1. ASSUME NEW r \in sessions'
        PROVE  \E p \in opened' :
                  /\ p.hash = r.hash /\ r.hash \notin ended'
                  /\ p.late \/ (~users'[r.user].disabled /\ users'[r.user].password = p.password)
    <3>1. CASE r \in sessions
      BY <1>3, <3>1 DEF LoginInv, SessionsStand
    <3>2. CASE r = s
      <4>1. o \in opened' /\ o.hash = r.hash /\ r.hash \notin ended'
        BY <1>3, <1>4, <1>5, <3>2 DEF LoginInv, CallsOK
      <4> QED BY <1>3, <1>4, <1>5, <1>7, <3>2, <4>1 DEF Enabled
    <3> QED BY <1>3, <2>1, <3>1, <3>2
  <2> QED BY <2>1 DEF SessionsStand
<1>14. InviteStaysOut'
  BY <1>1, <1>3, <1>6 DEF LoginInv, InviteStaysOut, Ready, Known
<1> QED BY <1>8, <1>9, <1>10, <1>11, <1>12, <1>13, <1>14 DEF LoginInv

\* A session that goes takes nothing with it.
LEMMA FewerSessions ==
    ASSUME LoginInv, sessions' \subseteq sessions, ended \subseteq ended', ended' \subseteq minted,
           \A s \in sessions' : s.hash \notin ended' \ ended,
           UNCHANGED <<users, tokens, minted, clock, calls, opened, created, orphaned, tardy>>
    PROVE  LoginInv'
<1>1. TypeOK' /\ Owned' /\ ConfirmedHoldsPassword'
  BY DEF LoginInv, TypeOK, Owned, ConfirmedHoldsPassword, Known
<1>2. CallsOK' /\ ReadsHold'
  BY DEF LoginInv, CallsOK, ReadsHold, Ready, Enabled, Known
<1>3. OneInvite' /\ TokensMatchAccounts' /\ InviteStaysOut'
  BY DEF LoginInv, OneInvite, TokensMatchAccounts, InviteStaysOut, Ready, Known
<1>4. SessionsStand'
  BY DEF LoginInv, SessionsStand
<1> QED BY <1>1, <1>2, <1>3, <1>4 DEF LoginInv

LEMMA EndSessionKeeps ==
    ASSUME LoginInv, NEW o \in opened, EndSession(o.hash)
    PROVE  LoginInv'
<1>1. o.hash \in minted
  BY DEF LoginInv, CallsOK
<1>2. /\ sessions' = {s \in sessions : s.hash # o.hash} /\ ended' = ended \cup {o.hash}
      /\ UNCHANGED <<users, tokens, minted, clock, calls, opened, created, orphaned, tardy>>
  BY DEF EndSession, DeleteSession
<1> QED BY <1>1, <1>2, FewerSessions DEF LoginInv, CallsOK

\* A call that comes to rest without writing: only an Invite leaves something behind.
LEMMA GiveUpKeeps ==
    ASSUME LoginInv, NEW c \in Call, GiveUp(c)
    PROVE  LoginInv'
<1>1. /\ calls' \in [Call -> Calls] /\ calls'[c] = Idle
      /\ \A other \in Call \ {c} : calls'[other] = calls[other]
  <2>1. Idle \in Calls
    BY DEF Calls
  <2> QED BY <2>1, CallMoves DEF LoginInv, GiveUp
<1>2. UNCHANGED <<users, sessions, tokens, minted, clock, opened, ended, created, tardy>>
  BY DEF GiveUp, rowVars
<1>3. TypeOK' /\ Owned' /\ ConfirmedHoldsPassword'
  BY <1>2 DEF LoginInv, TypeOK, Owned, ConfirmedHoldsPassword, Known
<1>4. CallsOK' /\ ReadsHold'
  BY <1>1, <1>2 DEF LoginInv, CallsOK, ReadsHold, Ready, Idle, Enabled, Known
<1>5. OneInvite' /\ TokensMatchAccounts' /\ SessionsStand'
  BY <1>2 DEF LoginInv, OneInvite, TokensMatchAccounts, SessionsStand
<1>6. InviteStaysOut'
  BY <1>1, <1>2 DEF LoginInv, InviteStaysOut, GiveUp, Ready, Known
<1> QED BY <1>3, <1>4, <1>5, <1>6 DEF LoginInv

-----------------------------------------------------------------------------
\* Invite stores an account that has nothing yet, and its call is about to send the invite.
LEMMA InviteKeeps ==
    ASSUME LoginInv, NEW c \in Call, NEW a \in Account, Invite(c, a)
    PROVE  LoginInv'
<1>0. TypeOK /\ Owned /\ CallsOK
  BY DEF LoginInv
<1>1. /\ calls' \in [Call -> Calls] /\ calls'[c] = Issuing(a, "invite")
      /\ \A other \in Call \ {c} : calls'[other] = calls[other]
  <2>1. Issuing(a, "invite") \in Calls
    BY DEF Calls, Issuing
  <2> QED BY <1>0, <2>1, CallMoves DEF Invite
<1>2. /\ ~Known(a) /\ calls[c].at = "idle"
      /\ UNCHANGED <<sessions, tokens, minted, clock, opened, ended, orphaned, tardy>>
      /\ users' = [users EXCEPT ![a] = NewRow(NoRole, NoPassword)]
  BY DEF Invite, CreateUser, Ready
<1>3. /\ NewRow(NoRole, NoPassword) \in Row
      /\ ~NewRow(NoRole, NoPassword).confirmed
      /\ NewRow(NoRole, NoPassword).password = NoPassword
  BY NewRowType DEF NewRow
<1>4. /\ users'[a] = NewRow(NoRole, NoPassword) /\ Known(a)'
      /\ \A b \in Account \ {a} : users'[b] = users[b]
  BY <1>0, <1>2, <1>3, NoAccountAssumption DEF TypeOK, Known
<1> HIDE DEF NewRow
<1>5. TypeOK'
  BY <1>0, <1>2, <1>3 DEF TypeOK
<1>6. Owned'
  BY <1>0, <1>2, <1>4, RowShapes DEF Owned, Known
<1>7. ConfirmedHoldsPassword'
  BY <1>3, <1>4 DEF LoginInv, ConfirmedHoldsPassword, Known
<1>8. CallsOK'
  BY <1>1, <1>2 DEF LoginInv, CallsOK
<1>9. ReadsHold'
  <2>1. ASSUME NEW d \in Call, d # c
        PROVE  /\ Ready(d, "verified") /\ ~calls[d].late => calls[d].user # a
               /\ Ready(d, "reset") => calls[d].user # a
    BY <1>2 DEF LoginInv, ReadsHold, Enabled
  <2> QED BY <1>0, <1>1, <1>4, <2>1, CallShapes
          DEF LoginInv, ReadsHold, Ready, Issuing, Enabled, Known
<1>10. OneInvite'
  BY <1>2 DEF LoginInv, OneInvite
<1>11. SessionsStand' /\ TokensMatchAccounts'
  <2>1. /\ \A s \in sessions : s.user \in Account \ {a}
        /\ \A t \in tokens : t.user \in Account \ {a}
    BY <1>0, <1>2, RowShapes
  <2> QED BY <1>2, <1>4, <2>1 DEF LoginInv, SessionsStand, TokensMatchAccounts
<1>12. InviteStaysOut'
  <2>1. Ready(c, "invite")' /\ calls'[c].user = a
    BY <1>1 DEF Ready, Issuing
  <2>2. ASSUME NEW b \in Account \ orphaned, b # a, Known(b), ~users[b].confirmed,
               NEW d \in Call, Ready(d, "invite"), calls[d].user = b
        PROVE  Ready(d, "invite")' /\ calls'[d].user = b
    BY <1>1, <1>2, <2>2 DEF Ready
  <2> QED BY <1>2, <1>4, <2>1, <2>2 DEF LoginInv, InviteStaysOut, Known
<1> QED BY <1>5, <1>6, <1>7, <1>8, <1>9, <1>10, <1>11, <1>12 DEF LoginInv

\* A token reaches an account that is still what it was read as.
LEMMA TokenIssued ==
    ASSUME LoginInv, NEW c \in Call, Goto(c, Idle), NEW t \in Token, NEW kept \in SUBSET tokens,
           tokens' = kept \cup {t}, Known(t.user), t.hash \notin minted,
           minted' = minted \cup {t.hash},
           UNCHANGED <<users, sessions, clock, opened, ended, created, orphaned>>,
           tardy \subseteq tardy',
           t.purpose = "reset" => users[t.user].confirmed,
           t.purpose = "invite" =>
              /\ users[t.user].confirmed => t.user \in tardy'
              /\ \A o \in kept : o.user = t.user /\ o.purpose = "invite" => t.user \in tardy',
           Ready(c, "invite") => t.purpose = "invite" /\ t.user = calls[c].user,
           \A o \in tokens \ kept : t.purpose = "invite" /\ o.user = t.user
    PROVE  LoginInv'
<1>0. TypeOK /\ Owned /\ CallsOK
  BY DEF LoginInv
<1>1. /\ calls' \in [Call -> Calls] /\ calls'[c] = Idle
      /\ \A other \in Call \ {c} : calls'[other] = calls[other]
  <2>1. Idle \in Calls
    BY DEF Calls
  <2> QED BY <1>0, <2>1, CallMoves
<1>2. t.user \in Account /\ t.hash \in Hash
  BY DEF Token
<1>3. TypeOK'
  BY <1>0, <1>2 DEF TypeOK
<1>4. Owned'
  BY <1>0, RowShapes DEF Owned, Known
<1>5. ConfirmedHoldsPassword' /\ SessionsStand'
  BY DEF LoginInv, ConfirmedHoldsPassword, SessionsStand, Known
<1>6. CallsOK' /\ ReadsHold'
  BY <1>1 DEF LoginInv, CallsOK, ReadsHold, Ready, Idle, Enabled, Known
<1>7. OneInvite'
  BY DEF LoginInv, OneInvite
<1>8. TokensMatchAccounts'
  BY DEF LoginInv, TokensMatchAccounts
<1>9. InviteStaysOut'
  <2>1. ASSUME NEW a \in Account \ orphaned, Known(a), ~users[a].confirmed
        PROVE  \/ \E o \in tokens' : o.user = a /\ o.purpose = "invite"
               \/ \E d \in Call : Ready(d, "invite")' /\ calls'[d].user = a
    <3>1. CASE \E o \in tokens : o.user = a /\ o.purpose = "invite"
      BY <3>1
    <3>2. CASE \E d \in Call : Ready(d, "invite") /\ calls[d].user = a
      BY <1>1, <3>2 DEF Ready
    <3> QED BY <2>1, <3>1, <3>2 DEF LoginInv, InviteStaysOut
  <2> QED BY <2>1 DEF InviteStaysOut, Known
<1> QED BY <1>3, <1>4, <1>5, <1>6, <1>7, <1>8, <1>9 DEF LoginInv

LEMMA TokenShape ==
    ASSUME TypeOK, NEW hash \in Hash, NEW a \in Account, NEW purpose \in Purpose,
           NEW ttl \in Nat
    PROVE  /\ token(hash, a, purpose, ttl) \in Token
           /\ token(hash, a, purpose, ttl).hash = hash
           /\ token(hash, a, purpose, ttl).user = a
           /\ token(hash, a, purpose, ttl).purpose = purpose
<1>1. clock + ttl \in Nat
  BY BoundAssumption DEF TypeOK
<1> QED BY <1>1 DEF token, Token

LEMMA IssueKeeps ==
    ASSUME LoginInv, NEW c \in Call, NEW hash \in Hash, Issue(c, hash)
    PROVE  LoginInv'
<1>0. TypeOK /\ CallsOK
  BY DEF LoginInv
<1>1. PICK a \in Account, purpose \in {"invite", "reset"} :
         calls[c].user = a /\ calls[c].at = purpose
  BY <1>0, CallShapes DEF Issue
<1> DEFINE t == token(hash, a, purpose, TTL(purpose))
<1>2. t \in Token /\ t.hash = hash /\ t.user = a /\ t.purpose = purpose
  <2>1. TTL(purpose) \in Nat /\ purpose \in Purpose
    BY TTLAssumption DEF TTL, Purpose
  <2> QED BY <1>0, <2>1, TokenShape
<1>3. /\ Enabled(a) /\ hash \notin minted
      /\ tokens' = tokens \cup {t} /\ minted' = minted \cup {hash}
      /\ UNCHANGED <<users, sessions, clock, opened, ended, created, orphaned>>
      /\ tardy' = IF purpose = "invite" /\ Overtaken(a) THEN tardy \cup {a} ELSE tardy
      /\ Goto(c, Idle)
  BY <1>1, <1>2 DEF Issue, CreateToken
<1>4. purpose = "reset" => users[a].confirmed
  BY <1>1 DEF LoginInv, ReadsHold, Ready
<1>5. purpose = "invite" =>
         /\ users[a].confirmed => a \in tardy'
         /\ \A o \in tokens : o.user = a /\ o.purpose = "invite" => a \in tardy'
  BY <1>3 DEF Overtaken
<1>6. Ready(c, "invite") => purpose = "invite" /\ a = calls[c].user
  BY <1>1 DEF Ready
<1> HIDE DEF t
<1> QED BY <1>2, <1>3, <1>4, <1>5, <1>6, TokenIssued DEF Enabled

LEMMA ReissueKeeps ==
    ASSUME LoginInv, NEW c \in Call, NEW hash \in Hash, Reissue(c, hash)
    PROVE  LoginInv'
<1>0. TypeOK /\ CallsOK
  BY DEF LoginInv
<1>1. PICK a \in Account : calls[c].user = a /\ calls[c].at = "replace"
  BY <1>0, CallShapes DEF Reissue, Ready
<1> DEFINE t == token(hash, a, "invite", InviteTTL)
<1> DEFINE kept == {o \in tokens : o.user # a \/ o.purpose # "invite"}
<1>2. t \in Token /\ t.hash = hash /\ t.user = a /\ t.purpose = "invite"
  <2>1. InviteTTL \in Nat /\ "invite" \in Purpose
    BY TTLAssumption DEF Purpose
  <2> QED BY <1>0, <2>1, TokenShape
<1>3. /\ Unactivated(a) /\ hash \notin minted
      /\ tokens' = kept \cup {t} /\ minted' = minted \cup {hash}
      /\ UNCHANGED <<users, sessions, clock, opened, ended, created, orphaned, tardy>>
      /\ Goto(c, Idle)
  BY <1>1, <1>2 DEF Reissue, ReplaceToken
<1>4. ~Ready(c, "invite") /\ ~users[a].confirmed /\ Known(a)
  BY <1>1, <1>3 DEF Ready, Unactivated, Enabled
<1>5. /\ kept \in SUBSET tokens /\ \A o \in tokens \ kept : o.user = a
      /\ \A o \in kept : ~(o.user = a /\ o.purpose = "invite")
  OBVIOUS
<1> HIDE DEF t, kept
<1> QED BY <1>2, <1>3, <1>4, <1>5, TokenIssued

-----------------------------------------------------------------------------
\* An activation gives an account its first password, and leaves it an invite only when it
\* had two.
LEMMA RedeemInviteKeeps ==
    ASSUME LoginInv, NEW t \in tokens, NEW now, NEW password \in Password,
           RedeemInvite(t, now, password)
    PROVE  LoginInv'
<1>0. TypeOK /\ Owned /\ CallsOK
  BY DEF LoginInv
<1>1. PICK a \in Account : t.user = a /\ Known(a) /\ users[a] \in Row
  BY <1>0, RowShapes
<1>2. /\ t.purpose = "invite" /\ ~users[a].confirmed
      /\ users' = [users EXCEPT ![a].password = password, ![a].confirmed = TRUE]
      /\ tokens' = tokens \ {t}
      /\ UNCHANGED <<sessions, minted, clock, calls, opened, ended, created, orphaned, tardy>>
  BY <1>1 DEF RedeemInvite, ActivateByToken, Redeemable
<1>3. /\ users'[a] \in Row /\ users'[a].password = password /\ users'[a].confirmed
      /\ users'[a].disabled = users[a].disabled
      /\ \A b \in Account \ {a} : users'[b] = users[b]
  BY <1>0, <1>1, <1>2 DEF TypeOK, Row
<1>4. users[a].password = NoPassword /\ password # NoPassword
  BY <1>1, <1>2, NullAssumption DEF LoginInv, ConfirmedHoldsPassword
<1>5. \A b \in Account : Known(b)' <=> Known(b)
  BY <1>1, <1>3, NoAccountAssumption DEF Known
<1>6. TypeOK'
  BY <1>0, <1>2, <1>3 DEF TypeOK
<1>7. Owned'
  BY <1>0, <1>2, <1>5, RowShapes DEF Owned
<1>8. ConfirmedHoldsPassword'
  BY <1>3, <1>4, <1>5 DEF LoginInv, ConfirmedHoldsPassword
<1>9. CallsOK'
  BY <1>2 DEF LoginInv, CallsOK
<1>10. ReadsHold'
  <2>1. ASSUME NEW c \in Call, Ready(c, "verified"), ~calls[c].late
        PROVE  calls[c].user \in Account \ {a} /\ Enabled(calls[c].user)'
    <3>1. calls[c].user \in Account /\ calls[c].password \in Password
      BY <1>0, <2>1, CallShapes DEF Ready
    <3>2. Enabled(calls[c].user) /\ users[calls[c].user].password = calls[c].password
      BY <2>1 DEF LoginInv, ReadsHold
    <3>3. calls[c].user # a
      BY <1>4, <3>1, <3>2, NullAssumption
    <3> QED BY <1>2, <1>3, <1>5, <3>1, <3>2, <3>3 DEF Enabled, Known
  <2>2. ASSUME NEW c \in Call, Ready(c, "reset")
        PROVE  calls[c].user \in Account \ {a}
    BY <1>0, <1>2, <2>2, CallShapes DEF LoginInv, ReadsHold, Ready
  <2>3. ASSUME NEW c \in Call, Ready(c, "verified"), ~calls[c].late
        PROVE  Enabled(calls[c].user)' /\ users'[calls[c].user].password = calls[c].password
    BY <1>3, <2>1, <2>3 DEF LoginInv, ReadsHold
  <2>4. ASSUME NEW c \in Call, Ready(c, "reset")
        PROVE  Known(calls[c].user)' /\ users'[calls[c].user].confirmed
    BY <1>2, <1>3, <1>5, <2>2, <2>4 DEF LoginInv, ReadsHold, Known
  <2>5. calls' = calls
    BY <1>2
  <2>6. ASSUME NEW c \in Call
        PROVE  /\ Ready(c, "verified")' /\ ~calls'[c].late =>
                     Enabled(calls[c].user)' /\ users'[calls'[c].user].password = calls'[c].password
               /\ Ready(c, "reset")' => Known(calls[c].user)' /\ users'[calls'[c].user].confirmed
    BY <2>3, <2>4, <2>5 DEF Ready, Enabled, Known
  <2> QED BY <2>6 DEF ReadsHold
<1>11. OneInvite'
  BY <1>2 DEF LoginInv, OneInvite
<1>12. SessionsStand'
  <2>1. ASSUME NEW s \in sessions, NEW o \in opened,
               o.late \/ (~users[s.user].disabled /\ users[s.user].password = o.password)
        PROVE  o.late \/ (~users'[s.user].disabled /\ users'[s.user].password = o.password)
    <3>1. o.password # NoPassword /\ s.user \in Account
      BY <1>0, RowShapes, NullAssumption DEF CallsOK
    <3> QED BY <1>3, <1>4, <2>1, <3>1
  <2>2. ASSUME NEW s \in sessions
        PROVE  \E o \in opened :
                  /\ o.hash = s.hash /\ s.hash \notin ended
                  /\ o.late \/ (~users'[s.user].disabled /\ users'[s.user].password = o.password)
    <3>1. PICK o \in opened :
             /\ o.hash = s.hash /\ s.hash \notin ended
             /\ o.late \/ (~users[s.user].disabled /\ users[s.user].password = o.password)
      BY DEF LoginInv, SessionsStand
    <3> QED BY <2>1, <3>1
  <2> QED BY <1>2, <2>2 DEF SessionsStand
<1>13. TokensMatchAccounts'
  <2>1. ASSUME NEW o \in tokens'
        PROVE  /\ o.purpose = "reset" => users'[o.user].confirmed
               /\ o.purpose = "invite" /\ users'[o.user].confirmed => o.user \in tardy'
    <3>1. o \in tokens /\ o # t /\ o.user \in Account
      BY <1>0, <1>2, <2>1, RowShapes
    <3>2. CASE o.user = a
      BY <1>1, <1>2, <3>1, <3>2 DEF LoginInv, OneInvite, TokensMatchAccounts
    <3>3. CASE o.user # a
      BY <1>2, <1>3, <3>1, <3>3 DEF LoginInv, TokensMatchAccounts
    <3> QED BY <3>2, <3>3
  <2> QED BY <2>1 DEF TokensMatchAccounts
<1>14. InviteStaysOut'
  <2>1. ASSUME NEW b \in Account \ orphaned, Known(b)', ~users'[b].confirmed
        PROVE  \/ \E o \in tokens' : o.user = b /\ o.purpose = "invite"
               \/ \E c \in Call : Ready(c, "invite")' /\ calls'[c].user = b
    <3>1. b # a /\ Known(b) /\ ~users[b].confirmed
      BY <1>3, <1>5, <2>1
    <3> QED BY <1>1, <1>2, <3>1 DEF LoginInv, InviteStaysOut, Ready
  <2> QED BY <1>2, <2>1 DEF InviteStaysOut
<1> QED BY <1>6, <1>7, <1>8, <1>9, <1>10, <1>11, <1>12, <1>13, <1>14 DEF LoginInv

\* The logins that have read an account when a reset or a disable reaches it are marked, and
\* every call stays at its stage.
LEMMA OvertakeMarks ==
    ASSUME CallsOK, NEW a \in Account, Overtake(a)
    PROVE  /\ calls' \in [Call -> Calls]
           /\ \A c \in Call :
                 /\ calls'[c].at = calls[c].at
                 /\ calls[c].at # "idle" => calls'[c].user = calls[c].user
                 /\ calls[c].at = "verified" =>
                       /\ calls'[c].password = calls[c].password
                       /\ calls'[c].late <=> (calls[c].late \/ calls[c].user = a)
<1>1. ASSUME NEW c \in Call
      PROVE  /\ calls'[c] \in Calls
             /\ calls'[c].at = calls[c].at
             /\ calls[c].at # "idle" => calls'[c].user = calls[c].user
             /\ calls[c].at = "verified" =>
                   /\ calls'[c].password = calls[c].password
                   /\ calls'[c].late <=> (calls[c].late \/ calls[c].user = a)
  <2>1. CASE calls[c].at = "verified" /\ calls[c].user = a
    <3>1. calls'[c] = [calls[c] EXCEPT !.late = TRUE]
      BY <2>1 DEF Overtake, Ready
    <3>2. calls[c] \in [at : {"verified"}, user : Account, password : Password, late : BOOLEAN]
      BY <2>1 DEF CallsOK, Calls, Idle
    <3>3. /\ calls'[c] \in [at : {"verified"}, user : Account, password : Password,
                             late : BOOLEAN]
          /\ calls'[c].at = "verified" /\ calls'[c].user = calls[c].user
          /\ calls'[c].password = calls[c].password /\ calls'[c].late = TRUE
      BY <3>1, <3>2
    <3> QED BY <2>1, <3>3 DEF Calls
  <2>2. CASE ~(calls[c].at = "verified" /\ calls[c].user = a)
    <3>1. calls'[c] = calls[c]
      BY <2>2 DEF Overtake, Ready
    <3> QED BY <2>2, <3>1 DEF CallsOK
  <2> QED BY <2>1, <2>2
<1>2. calls' = [c \in Call |-> calls'[c]]
  BY DEF Overtake
<1> QED BY <1>1, <1>2

\* A reset ends what the old password opened, and the logins it overtakes are marked.
LEMMA RedeemResetKeeps ==
    ASSUME LoginInv, NEW t \in tokens, NEW now, NEW password \in Password,
           RedeemReset(t, now, password)
    PROVE  LoginInv'
<1>0. TypeOK /\ Owned /\ CallsOK
  BY DEF LoginInv
<1>1. PICK a \in Account : t.user = a /\ Known(a) /\ users[a] \in Row
  BY <1>0, RowShapes
<1>2. /\ t.purpose = "reset" /\ users' = [users EXCEPT ![a].password = password]
      /\ sessions' = NotOf(sessions, {a})
      /\ tokens' = {o \in tokens : o.user # a \/ o.purpose # "reset"}
      /\ UNCHANGED <<minted, clock, opened, ended, created, orphaned, tardy>>
      /\ Overtake(a)
  BY <1>1 DEF RedeemReset, ResetByToken, Redeemable, Overtake, Ready
<1>3. /\ users'[a] \in Row /\ users'[a].password = password
      /\ users'[a].confirmed = users[a].confirmed /\ users'[a].disabled = users[a].disabled
      /\ \A b \in Account \ {a} : users'[b] = users[b]
  BY <1>0, <1>1, <1>2 DEF TypeOK, Row
<1>4. users[a].confirmed /\ password # NoPassword
  BY <1>1, <1>2, NullAssumption DEF LoginInv, TokensMatchAccounts
<1>5. \A b \in Account : Known(b)' <=> Known(b)
  BY <1>1, <1>3, NoAccountAssumption DEF Known
<1>6. TypeOK'
  BY <1>0, <1>2, <1>3 DEF TypeOK, NotOf
<1>7. Owned'
  BY <1>0, <1>2, <1>5, RowShapes DEF Owned, NotOf
<1>8. ConfirmedHoldsPassword'
  BY <1>3, <1>4, <1>5 DEF LoginInv, ConfirmedHoldsPassword
<1>9. CallsOK'
  BY <1>0, <1>2, OvertakeMarks DEF CallsOK
<1>10. ReadsHold'
  BY <1>0, <1>2, <1>3, <1>5, OvertakeMarks, CallShapes
     DEF LoginInv, ReadsHold, Ready, Enabled, Known
<1>11. OneInvite'
  BY <1>2 DEF LoginInv, OneInvite
<1>12. SessionsStand'
  BY <1>0, <1>2, <1>3, RowShapes DEF LoginInv, SessionsStand, NotOf
<1>13. TokensMatchAccounts'
  BY <1>0, <1>2, <1>3, RowShapes DEF LoginInv, TokensMatchAccounts
<1>14. InviteStaysOut'
  BY <1>0, <1>2, <1>3, <1>5, OvertakeMarks DEF LoginInv, InviteStaysOut, Ready
<1> QED BY <1>6, <1>7, <1>8, <1>9, <1>10, <1>11, <1>12, <1>13, <1>14 DEF LoginInv

\* A disable ends sessions and tokens, and marks the logins it overtakes.
LEMMA DisableKeeps ==
    ASSUME LoginInv, NEW a \in Account, NEW disabled \in BOOLEAN, Disable(a, disabled)
    PROVE  LoginInv'
<1>0. TypeOK /\ Owned /\ CallsOK
  BY DEF LoginInv
<1>1. /\ Known(a) /\ users[a] \in Row
      /\ users' = [users EXCEPT ![a].disabled = disabled]
      /\ sessions' = IF disabled THEN NotOf(sessions, {a}) ELSE sessions
      /\ tokens' = IF disabled THEN NotOf(tokens, {a}) ELSE tokens
      /\ IF disabled THEN Overtake(a) ELSE UNCHANGED calls
      /\ orphaned' = IF disabled THEN orphaned \cup {a} ELSE orphaned
      /\ UNCHANGED <<minted, clock, opened, ended, created, tardy>>
  BY <1>0, RowShapes DEF Disable, SetUserDisabled
<1>2. /\ users'[a] \in Row /\ users'[a].password = users[a].password
      /\ users'[a].confirmed = users[a].confirmed /\ users'[a].disabled = disabled
      /\ \A b \in Account \ {a} : users'[b] = users[b]
  BY <1>0, <1>1 DEF TypeOK, Row
<1>3. \A b \in Account : Known(b)' <=> Known(b)
  BY <1>1, <1>2, NoAccountAssumption DEF Known
<1>4. TypeOK'
  BY <1>0, <1>1, <1>2 DEF TypeOK, NotOf
<1>5. Owned'
  BY <1>0, <1>1, <1>3, RowShapes DEF Owned, NotOf
<1>6. ConfirmedHoldsPassword'
  BY <1>2, <1>3 DEF LoginInv, ConfirmedHoldsPassword
<1>7. CASE disabled
  <2>1. CallsOK'
    BY <1>0, <1>1, <1>7, OvertakeMarks DEF CallsOK
  <2>2. ReadsHold'
    BY <1>0, <1>1, <1>2, <1>3, <1>7, OvertakeMarks, CallShapes
       DEF LoginInv, ReadsHold, Ready, Enabled, Known
  <2>3. OneInvite' /\ TokensMatchAccounts' /\ SessionsStand'
    BY <1>0, <1>1, <1>2, <1>7, RowShapes
       DEF LoginInv, OneInvite, TokensMatchAccounts, SessionsStand, NotOf
  <2>4. InviteStaysOut'
    BY <1>0, <1>1, <1>2, <1>3, <1>7, OvertakeMarks
       DEF LoginInv, InviteStaysOut, Ready, NotOf
  <2> QED BY <1>4, <1>5, <1>6, <2>1, <2>2, <2>3, <2>4 DEF LoginInv
<1>8. CASE ~disabled
  <2>1. CallsOK'
    BY <1>1, <1>8 DEF LoginInv, CallsOK
  <2>2. ReadsHold'
    BY <1>0, <1>1, <1>2, <1>3, <1>8, CallShapes DEF LoginInv, ReadsHold, Ready, Enabled, Known
  <2>3. OneInvite' /\ TokensMatchAccounts' /\ SessionsStand'
    BY <1>0, <1>1, <1>2, <1>8, RowShapes
       DEF LoginInv, OneInvite, TokensMatchAccounts, SessionsStand
  <2>4. InviteStaysOut'
    BY <1>1, <1>2, <1>3, <1>8 DEF LoginInv, InviteStaysOut, Ready
  <2> QED BY <1>4, <1>5, <1>6, <2>1, <2>2, <2>3, <2>4 DEF LoginInv
<1> QED BY <1>7, <1>8

\* A sweep takes unconfirmed accounts whose every invite has run out, with what is theirs.
LEMMA ReapTokensKeeps ==
    ASSUME LoginInv, NEW now, DeleteExpiredTokens(now),
           UNCHANGED <<calls, opened, ended, created, orphaned, tardy>>
    PROVE  LoginInv'
<1> DEFINE gone == Stranded(now)
<1>0. TypeOK /\ Owned /\ CallsOK
  BY DEF LoginInv
<1>1. /\ users' = [a \in Account |-> IF a \in gone THEN NoAccount ELSE users[a]]
      /\ sessions' = NotOf(sessions, gone)
      /\ tokens' = {t \in NotOf(tokens, gone) : Live(t, now)}
      /\ UNCHANGED <<minted, clock>>
  BY DEF DeleteExpiredTokens, SweepTokens
<1>2. \A a \in Account : a \in gone <=>
         /\ Known(a) /\ ~users[a].confirmed
         /\ \E t \in tokens : t.user = a /\ t.purpose = "invite" /\ ~Live(t, now)
         /\ ~\E t \in tokens : t.user = a /\ t.purpose = "invite" /\ Live(t, now)
  BY DEF Stranded
<1> HIDE DEF gone
<1>3. \A a \in Account : Known(a)' <=> Known(a) /\ a \notin gone
  BY <1>1 DEF Known
<1>4. TypeOK'
  BY <1>0, <1>1 DEF TypeOK, NotOf
<1>5. Owned'
  BY <1>0, <1>1, <1>3, RowShapes DEF Owned, NotOf
<1>6. ConfirmedHoldsPassword'
  BY <1>1, <1>3 DEF LoginInv, ConfirmedHoldsPassword
<1>7. CallsOK'
  BY <1>1 DEF LoginInv, CallsOK
<1>8. ReadsHold'
  <2>1. ASSUME NEW c \in Call, (Ready(c, "verified") /\ ~calls[c].late) \/ Ready(c, "reset")
        PROVE  calls[c].user \in Account \ gone
    <3>1. calls[c].user \in Account
      BY <1>0, <2>1, CallShapes DEF Ready
    <3>2. users[calls[c].user].confirmed /\ Known(calls[c].user)
      <4>1. CASE Ready(c, "reset")
        BY <4>1 DEF LoginInv, ReadsHold
      <4>2. CASE Ready(c, "verified") /\ ~calls[c].late
        <5>1. calls[c].password \in Password
          BY <1>0, <4>2, CallShapes DEF Ready
        <5>2. Known(calls[c].user) /\ users[calls[c].user].password = calls[c].password
          BY <4>2 DEF LoginInv, ReadsHold, Enabled
        <5> QED BY <3>1, <5>1, <5>2, NullAssumption DEF LoginInv, ConfirmedHoldsPassword
      <4> QED BY <2>1, <4>1, <4>2
    <3> QED BY <1>2, <3>1, <3>2
  <2> QED BY <1>1, <1>3, <2>1 DEF LoginInv, ReadsHold, Ready, Enabled, Known
<1>9. OneInvite'
  BY <1>1 DEF LoginInv, OneInvite, NotOf
<1>10. SessionsStand' /\ TokensMatchAccounts'
  BY <1>0, <1>1, RowShapes DEF LoginInv, SessionsStand, TokensMatchAccounts, NotOf
<1>11. InviteStaysOut'
  <2>1. ASSUME NEW a \in Account \ orphaned, Known(a)', ~users'[a].confirmed
        PROVE  \/ \E t \in tokens' : t.user = a /\ t.purpose = "invite"
               \/ \E c \in Call : Ready(c, "invite")' /\ calls'[c].user = a
    <3>1. a \notin gone /\ Known(a) /\ ~users[a].confirmed
      BY <1>1, <1>3, <2>1
    <3>2. CASE \E t \in tokens : t.user = a /\ t.purpose = "invite"
      BY <1>1, <1>2, <3>1, <3>2 DEF NotOf
    <3>3. CASE \E c \in Call : Ready(c, "invite") /\ calls[c].user = a
      BY <3>3 DEF Ready
    <3> QED BY <3>1, <3>2, <3>3 DEF LoginInv, InviteStaysOut
  <2> QED BY <2>1 DEF InviteStaysOut
<1> QED BY <1>4, <1>5, <1>6, <1>7, <1>8, <1>9, <1>10, <1>11 DEF LoginInv

-----------------------------------------------------------------------------
LEMMA LoginStep == LoginInv /\ [LoginNext]_loginVars => LoginInv'
<1> SUFFICES ASSUME LoginInv, [LoginNext]_loginVars PROVE LoginInv'
  OBVIOUS
<1>1. ASSUME NEW c \in Call, Step(c) PROVE LoginInv'
  BY <1>1, AuthenticateKeeps, InviteKeeps, RequestResetKeeps, ResendInviteKeeps,
     StartSessionKeeps, IssueKeeps, ReissueKeeps, GiveUpKeeps DEF Step
<1>2. ASSUME NEW now \in Instant, Reap(now) PROVE LoginInv'
  <2>1. CASE DeleteExpiredSessions(now)
    <3>1. /\ sessions' \subseteq sessions
          /\ UNCHANGED <<users, tokens, minted, clock, calls, opened, ended, created, orphaned,
                         tardy>>
      BY <1>2, <2>1 DEF Reap, DeleteExpiredSessions
    <3> QED BY <3>1, FewerSessions DEF LoginInv, CallsOK
  <2>2. CASE DeleteExpiredTokens(now)
    BY <1>2, <2>2, ReapTokensKeeps DEF Reap
  <2> QED BY <1>2, <2>1, <2>2 DEF Reap
<1>3. CASE Pass
  <2>1. clock' \in 0..MaxClock
    BY <1>3, BoundAssumption DEF Pass, Tick, LoginInv, TypeOK
  <2>2. TypeOK' /\ Owned' /\ ConfirmedHoldsPassword'
    BY <1>3, <2>1 DEF Pass, Tick, LoginInv, TypeOK, Owned, ConfirmedHoldsPassword, Known
  <2>3. CallsOK' /\ ReadsHold' /\ OneInvite'
    BY <1>3 DEF Pass, Tick, LoginInv, CallsOK, ReadsHold, OneInvite, Ready, Enabled, Known
  <2>4. SessionsStand' /\ TokensMatchAccounts' /\ InviteStaysOut'
    BY <1>3 DEF Pass, Tick, LoginInv, SessionsStand, TokensMatchAccounts, InviteStaysOut,
                Ready, Known
  <2> QED BY <2>2, <2>3, <2>4 DEF LoginInv
<1>4. CASE UNCHANGED loginVars
  <2>1. TypeOK' /\ Owned' /\ ConfirmedHoldsPassword'
    BY <1>4 DEF loginVars, rowVars, LoginInv, TypeOK, Owned, ConfirmedHoldsPassword, Known
  <2>2. CallsOK' /\ ReadsHold' /\ OneInvite'
    BY <1>4 DEF loginVars, rowVars, LoginInv, CallsOK, ReadsHold, OneInvite, Ready, Enabled,
                Known
  <2>3. SessionsStand' /\ TokensMatchAccounts' /\ InviteStaysOut'
    BY <1>4 DEF loginVars, rowVars, LoginInv, SessionsStand, TokensMatchAccounts,
                InviteStaysOut, Ready, Known
  <2> QED BY <2>1, <2>2, <2>3 DEF LoginInv
<1> QED BY <1>1, <1>2, <1>3, <1>4, EndSessionKeeps, RedeemInviteKeeps, RedeemResetKeeps,
           DisableKeeps DEF LoginNext

LEMMA LoginInvariant == LoginSpec => []LoginInv
BY LoginInitHolds, LoginStep, PTL DEF LoginSpec

\* A session stands only under the password its account still has, of an enabled account and
\* for a login nobody ended, but for the logins a reset or a disable overtook.
THEOREM StandingSessions == LoginSpec => []SessionsStand
<1>1. LoginInv => SessionsStand
  BY DEF LoginInv
<1> QED BY <1>1, LoginInvariant, PTL

\* A token out is of the kind its account can use, though it was issued on an earlier
\* reading, but for what an overtaken Invite leaves over.
THEOREM MatchingTokens == LoginSpec => []TokensMatchAccounts
<1>1. LoginInv => TokensMatchAccounts
  BY DEF LoginInv
<1> QED BY <1>1, LoginInvariant, PTL

\* An unconfirmed account that neither a failed Invite nor a disable bereft of its invite has
\* one out, or a call about to send it.
THEOREM InvitesStayOut == LoginSpec => []InviteStaysOut
<1>1. LoginInv => InviteStaysOut
  BY DEF LoginInv
<1> QED BY <1>1, LoginInvariant, PTL

-----------------------------------------------------------------------------
\* The reaper.  Whatever instant it sweeps at has passed, for a call given up on too.
SweepsAtPast ==
    /\ at \in Nat /\ (loop \in Half => at <= clock)
    /\ \A l \in lost : l.at \in Nat /\ l.at <= clock

\* The callers around the reaper end no session.
LEMMA CallersKeep == ASSUME Callers PROVE clock' = clock /\ sessions \subseteq sessions'
<1> SUFFICES ASSUME NEW a \in Account, NEW hash, NEW expires, NEW invite,
                    \/ CreateUser(a, NoRole, NoPassword)
                    \/ CreateToken(invite) \/ ReplaceToken(invite)
                    \/ \E t \in tokens, p \in Password : ActivateByToken(t, clock, p)
                    \/ CreateSession([hash |-> hash, user |-> a, expires |-> expires])
             PROVE  clock' = clock /\ sessions \subseteq sessions'
  BY DEF Callers
<1>1. CASE CreateUser(a, NoRole, NoPassword) \/ CreateToken(invite) \/ ReplaceToken(invite)
  BY <1>1 DEF CreateUser, CreateToken, ReplaceToken
<1>2. CASE \E t \in tokens, p \in Password : ActivateByToken(t, clock, p)
  BY <1>2 DEF ActivateByToken
<1>3. CASE CreateSession([hash |-> hash, user |-> a, expires |-> expires])
  BY <1>3 DEF CreateSession
<1> QED BY <1>1, <1>2, <1>3

LEMMA PastStep ==
    ASSUME TypeOK, SweepsAtPast, [ReaperNext]_reaperVars
    PROVE  SweepsAtPast'
<1> USE DEF SweepsAtPast, Half
<1>1. clock \in Nat
  BY BoundAssumption DEF TypeOK
<1>2. CASE Start \/ TakeTick
  BY <1>1, <1>2 DEF Start, TakeTick, BeginSweep, rowVars
<1>3. CASE SessionsDone
  BY <1>3 DEF SessionsDone, DeleteExpiredSessions
<1>4. CASE TokensDone
  BY <1>4 DEF TokensDone, DeleteExpiredTokens, SweepTokens, EndSweep
<1>5. CASE SweepFails
  BY <1>5 DEF SweepFails, EndSweep, rowVars
<1>6. CASE Fire \/ Leave \/ Stop \/ Stopped
  BY <1>6 DEF Fire, Leave, Stop, Stopped, rowVars
<1>7. ASSUME NEW l \in lost, Land(l) PROVE SweepsAtPast'
  <2>1. clock' = clock
    BY <1>7 DEF Land, Delete, DeleteExpiredSessions, DeleteExpiredTokens, SweepTokens
  <2> QED BY <1>7, <2>1 DEF Land
<1>8. CASE (Callers \/ Tick) /\ UNCHANGED loopVars
  <2>1. clock' \in {clock, clock + 1}
    BY <1>8, CallersKeep DEF Tick
  <2> QED BY <1>1, <1>8, <2>1 DEF loopVars
<1>9. CASE UNCHANGED reaperVars
  BY <1>9 DEF reaperVars, rowVars, loopVars
<1> QED
  BY <1>2, <1>3, <1>4, <1>5, <1>6, <1>7, <1>8, <1>9 DEF ReaperNext, Sweeping

\* Seen through the tables, every step of the reaper and of the callers around it is one call of
\* the store, with an instant that its caller had read.
LEMMA ReaperStepsAreCalls ==
    ASSUME TypeOK, SweepsAtPast, [ReaperNext]_reaperVars
    PROVE  [Next]_vars
<1>1. ASSUME NEW half \in Half, NEW now \in Nat, now <= clock, Delete(half, now) PROVE Next
  <2>1. now \in Instant
    BY <1>1, BoundAssumption DEF Instant, TypeOK
  <2> QED BY <1>1, <2>1 DEF Delete, Half, Next, SessionSteps, SweepSteps
<1>2. CASE SessionsDone \/ TokensDone
  BY <1>1, <1>2 DEF SessionsDone, TokensDone, Delete, Half, SweepsAtPast
<1>3. ASSUME NEW l \in lost, Land(l) PROVE Next
  <2>1. l.at \in Instant
    BY BoundAssumption DEF Instant, TypeOK, SweepsAtPast
  <2> QED BY <1>3, <2>1 DEF Land, Delete, Next, SessionSteps, SweepSteps
<1>4. CASE Callers
  <2> SUFFICES ASSUME NEW a \in Account, NEW hash \in Hash, NEW expires \in Expiry, NEW invite,
                      invite = [hash |-> hash, user |-> a, purpose |-> "invite", expires |-> expires],
                      \/ CreateUser(a, NoRole, NoPassword)
                      \/ CreateToken(invite) \/ ReplaceToken(invite)
                      \/ \E t \in tokens, p \in Password : ActivateByToken(t, clock, p)
                      \/ CreateSession([hash |-> hash, user |-> a, expires |-> expires])
               PROVE  Next
    BY <1>4 DEF Callers
  <2>1. clock \in {i \in Instant : clock <= i + Lag}
    BY BoundAssumption, LagAssumption DEF Instant, TypeOK
  <2> QED BY <2>1 DEF Next, UserSteps, IssueSteps, RedeemSteps, SessionSteps
<1>5. CASE Start \/ SweepFails \/ Fire \/ TakeTick \/ Leave \/ Stop \/ Stopped \/ UNCHANGED reaperVars
  BY <1>5 DEF Start, SweepFails, Fire, TakeTick, Leave, Stop, Stopped, reaperVars, vars
<1> QED
  BY <1>2, <1>3, <1>4, <1>5 DEF ReaperNext, Sweeping, Next

LEMMA ReaperInvariant == ReaperSpec => [](TypeOK /\ SweepsAtPast) /\ Spec
<1>1. ReaperInit => Init /\ SweepsAtPast
  BY DEF ReaperInit, SweepsAtPast, Half
<1>2. Init => TypeOK
  BY BoundAssumption DEF Init, TypeOK
<1>3. TypeOK /\ [Next]_vars => TypeOK'
  BY TypeStep
<1> QED
  BY <1>1, <1>2, <1>3, PastStep, ReaperStepsAreCalls, PTL DEF ReaperSpec, Spec

\* The reaper is a caller of the store like any other: whatever its sweeps, its failures and its
\* late calls do, every theorem about the store's Spec holds of it.
THEOREM ReaperKeepsToStore == ReaperSpec => Spec
BY ReaperInvariant, PTL

\* NothingLiveSwept (reaper.go): no sweep takes a live session or an account that may still be
\* activated, not even one that lands long after it was given up on.
THEOREM ReaperSparesTheLive == ReaperSpec => NothingLiveSwept
<1>1. TypeOK /\ SweepsAtPast /\ [ReaperNext]_reaperVars =>
        /\ \A s \in sessions \ sessions' : ~Live(s, clock) \/ ~Known(s.user)'
        /\ \A a \in Account :
              Known(a) /\ ~Known(a)' => ~users[a].confirmed /\ Standing(a, "invite") = {}
  <2> SUFFICES ASSUME TypeOK, SweepsAtPast, [ReaperNext]_reaperVars
               PROVE  /\ \A s \in sessions \ sessions' : ~Live(s, clock) \/ ~Known(s.user)'
                      /\ \A a \in Account : Known(a) /\ ~Known(a)' =>
                            ~users[a].confirmed /\ Standing(a, "invite") = {}
    OBVIOUS
  <2>1. ASSUME NEW s \in sessions \ sessions' PROVE ~Live(s, clock) \/ ~Known(s.user)'
    <3>1. ASSUME NEW now \in Nat, now <= clock, DeleteExpiredSessions(now) PROVE ~Live(s, clock)
      BY <3>1, BoundAssumption DEF DeleteExpiredSessions, Live, TypeOK, Session
    <3>2. ASSUME NEW now, DeleteExpiredTokens(now) PROVE ~Known(s.user)'
      BY <3>2 DEF DeleteExpiredTokens, SweepTokens, NotOf, Known, TypeOK, Session
    <3>3. CASE SessionsDone \/ TokensDone
      BY <3>1, <3>2, <3>3 DEF SessionsDone, TokensDone, SweepsAtPast, Half
    <3>4. ASSUME NEW l \in lost, Land(l) PROVE ~Live(s, clock) \/ ~Known(s.user)'
      BY <3>1, <3>2, <3>4 DEF Land, Delete, SweepsAtPast
    <3>5. CASE (Callers \/ Tick) /\ UNCHANGED loopVars
      BY <3>5, CallersKeep DEF Tick
    <3>6. ~(\/ Start \/ SweepFails \/ Fire \/ TakeTick \/ Leave \/ Stop \/ Stopped
            \/ UNCHANGED reaperVars)
      BY DEF Start, SweepFails, Fire, TakeTick, Leave, Stop, Stopped, reaperVars, rowVars
    <3> QED BY <3>3, <3>4, <3>5, <3>6 DEF ReaperNext, Sweeping
  <2>2. [Next]_vars
    BY ReaperStepsAreCalls
  <2> QED BY <2>1, <2>2, OnlyStrandedGo
<1> QED BY <1>1, ReaperInvariant, PTL DEF ReaperSpec, NothingLiveSwept
=============================================================================
