------------------------ MODULE AccountStoreProofs --------------------------
(***************************************************************************)
(* Proofs about AccountStore, the invariants of its tables for any number  *)
(* of accounts, roles, passwords, secrets and instants, and about what     *)
(* every store that keeps StoreContract has in common with it.             *)
(***************************************************************************)
EXTENDS StoreContract, FiniteSetTheorems, TLAPS

\* A row the domain constructors make is a row of the table.
LEMMA NewRowType ==
    ASSUME NEW role \in Role \cup {NoRole}, NEW password \in Password \cup {NoPassword}
    PROVE  NewRow(role, password) \in Row
BY DEF NewRow, Row

LEMMA TypeStep == TypeOK /\ [Next]_vars => TypeOK'
<1> SUFFICES ASSUME TypeOK, [Next]_vars PROVE TypeOK'
  OBVIOUS
<1>1. CASE UserSteps
  <2> SUFFICES ASSUME NEW a \in Account, NEW role \in Role \cup {NoRole},
                      \/ \E password \in Password \cup {NoPassword} :
                            CreateUser(a, role, password)
                      \/ \E password \in Password :
                            role # NoRole /\ CreateFirstUser(a, role, password)
                      \/ \E from \in From, g \in Guards : SetUserRole(a, from, role, g)
                      \/ GrantRoleToRoleless(role)
               PROVE  TypeOK'
    BY <1>1 DEF UserSteps
  <2>1. ASSUME NEW password \in Password \cup {NoPassword}, CreateUser(a, role, password)
        PROVE  TypeOK'
    BY <2>1, NewRowType DEF TypeOK, CreateUser
  <2>2. ASSUME NEW password \in Password, CreateFirstUser(a, role, password)
        PROVE  TypeOK'
    BY <2>2, NewRowType DEF TypeOK, CreateFirstUser
  <2>3. ASSUME NEW from \in From, NEW g \in Guards, SetUserRole(a, from, role, g)
        PROVE  TypeOK'
    BY <2>3 DEF TypeOK, SetUserRole, Known, Row
  <2>4. ASSUME GrantRoleToRoleless(role) PROVE TypeOK'
    BY <2>4 DEF TypeOK, GrantRoleToRoleless, Known, Row
  <2> QED BY <2>1, <2>2, <2>3, <2>4
<1>2. CASE DisableSteps
  BY <1>2 DEF DisableSteps, SetUserDisabled, TypeOK, Known, Row, NotOf
<1>3. CASE SessionSteps
  <2>1. ASSUME NEW hash \in Hash, NEW a \in Account, NEW expires \in Expiry,
               CreateSession([hash |-> hash, user |-> a, expires |-> expires])
        PROVE  TypeOK'
    <3>1. [hash |-> hash, user |-> a, expires |-> expires] \in Session
      BY BoundAssumption DEF Session, Expiry, TypeOK
    <3> QED BY <2>1, <3>1 DEF CreateSession, TypeOK
  <2> QED BY <1>3, <2>1 DEF SessionSteps, DeleteSession, DeleteExpiredSessions, TypeOK
<1>4. CASE IssueSteps
  <2> SUFFICES ASSUME NEW hash \in Hash, NEW a \in Account, NEW expires \in Expiry,
                      NEW purpose \in Purpose,
                      LET t == [hash |-> hash, user |-> a, purpose |-> purpose,
                                expires |-> expires]
                      IN  CreateToken(t) \/ ReplaceToken(t)
               PROVE  TypeOK'
    BY <1>4 DEF IssueSteps, Purpose
  <2> DEFINE t == [hash |-> hash, user |-> a, purpose |-> purpose, expires |-> expires]
  <2>1. t \in Token
    BY BoundAssumption DEF Token, Expiry, TypeOK
  <2> QED BY <2>1 DEF CreateToken, ReplaceToken, TypeOK
<1>5. CASE RedeemSteps
  BY <1>5 DEF RedeemSteps, ActivateByToken, ResetByToken, Redeemable, Enabled, Known, TypeOK,
              Row, Token, NotOf
<1>6. CASE SweepSteps
  BY <1>6 DEF SweepSteps, DeleteExpiredTokens, SweepTokens, TypeOK, NotOf
<1>7. CASE Tick
  BY <1>7, BoundAssumption DEF Tick, TypeOK
<1>8. CASE UNCHANGED vars
  BY <1>8 DEF vars, rowVars, TypeOK
<1> QED BY <1>1, <1>2, <1>3, <1>4, <1>5, <1>6, <1>7, <1>8 DEF Next

\* Every variable keeps to what its table can hold.
THEOREM TypeInvariant == Spec => []TypeOK
<1>1. Init => TypeOK
  BY BoundAssumption DEF Init, TypeOK
<1> QED BY <1>1, TypeStep, PTL DEF Spec

-----------------------------------------------------------------------------
\* The steps that write only accounts, creating or altering them.
LEMMA UserStepsKeep ==
    ASSUME TypeOK, UserSteps
    PROVE  /\ UNCHANGED <<sessions, tokens, minted, clock>>
           /\ \A a \in Account :
                 /\ Known(a) => /\ Known(a)'
                                /\ users'[a].disabled = users[a].disabled
                                /\ users'[a].confirmed = users[a].confirmed
                                /\ users'[a].password = users[a].password
                 /\ ~Known(a) /\ Known(a)' =>
                       ~users'[a].disabled
                          /\ (users'[a].confirmed <=> users'[a].password # NoPassword)
<1> SUFFICES ASSUME NEW b \in Account, NEW role \in Role \cup {NoRole},
                    \/ \E password \in Password \cup {NoPassword} :
                          CreateUser(b, role, password)
                    \/ \E password \in Password :
                          role # NoRole /\ CreateFirstUser(b, role, password)
                    \/ \E from \in From, g \in Guards : SetUserRole(b, from, role, g)
                    \/ GrantRoleToRoleless(role),
                    NEW a \in Account
             PROVE  /\ UNCHANGED <<sessions, tokens, minted, clock>>
                    /\ Known(a) => /\ Known(a)'
                                   /\ users'[a].disabled = users[a].disabled
                                   /\ users'[a].confirmed = users[a].confirmed
                                   /\ users'[a].password = users[a].password
                    /\ ~Known(a) /\ Known(a)' =>
                          ~users'[a].disabled
                             /\ (users'[a].confirmed <=> users'[a].password # NoPassword)
  BY DEF UserSteps
<1>1. ASSUME NEW password \in Password \cup {NoPassword},
             ~Known(b), users' = [users EXCEPT ![b] = NewRow(role, password)]
      PROVE  /\ Known(a) => Known(a)' /\ users'[a] = users[a]
             /\ ~Known(a) /\ Known(a)' =>
                   ~users'[a].disabled
                      /\ (users'[a].confirmed <=> users'[a].password # NoPassword)
  BY <1>1 DEF TypeOK, Known, NewRow
<1>2. CASE \E password \in Password \cup {NoPassword} : CreateUser(b, role, password)
  BY <1>1, <1>2 DEF CreateUser
<1>3. CASE \E password \in Password : CreateFirstUser(b, role, password)
  BY <1>1, <1>3 DEF CreateFirstUser
<1>4. CASE \E from \in From, g \in Guards : SetUserRole(b, from, role, g)
  BY <1>4, NoAccountAssumption DEF SetUserRole, TypeOK, Known, Row
<1>5. CASE GrantRoleToRoleless(role)
  BY <1>5, NoAccountAssumption DEF GrantRoleToRoleless, TypeOK, Known, Row
<1> QED BY <1>2, <1>3, <1>4, <1>5

\* A write of the disabled flag.
LEMMA DisableStepsKeep ==
    ASSUME TypeOK, DisableSteps
    PROVE  \E b \in Account, disabled \in BOOLEAN :
              /\ UNCHANGED <<minted, clock>>
              /\ Known(b)
              /\ \A a \in Account :
                    /\ Known(a)' <=> Known(a)
                    /\ a # b => users'[a] = users[a]
              /\ users'[b].disabled = disabled
              /\ users'[b].confirmed = users[b].confirmed
              /\ users'[b].password = users[b].password
              /\ sessions' = IF disabled THEN NotOf(sessions, {b}) ELSE sessions
              /\ tokens' = IF disabled THEN NotOf(tokens, {b}) ELSE tokens
<1> PICK b \in Account, from \in From, disabled \in BOOLEAN, g \in Guards :
        SetUserDisabled(b, from, disabled, g)
  BY DEF DisableSteps
<1>1. /\ UNCHANGED <<minted, clock>>
      /\ Known(b)
      /\ \A a \in Account : (Known(a)' <=> Known(a)) /\ (a # b => users'[a] = users[a])
      /\ users'[b].disabled = disabled
      /\ users'[b].confirmed = users[b].confirmed
      /\ users'[b].password = users[b].password
  BY NoAccountAssumption DEF SetUserDisabled, TypeOK, Known, Row
<1>2. /\ sessions' = IF disabled THEN NotOf(sessions, {b}) ELSE sessions
      /\ tokens' = IF disabled THEN NotOf(tokens, {b}) ELSE tokens
  BY DEF SetUserDisabled
<1> QED BY <1>1, <1>2

\* A redemption: of an invite by its unconfirmed account, or of a reset token.
LEMMA RedeemStepsKeep ==
    ASSUME TypeOK, RedeemSteps
    PROVE  \E t \in tokens :
              /\ UNCHANGED <<minted, clock>>
              /\ Enabled(t.user)
              /\ t.purpose = IF users[t.user].confirmed THEN "reset" ELSE t.purpose
              /\ t.purpose \in {"invite", "reset"}
              /\ clock < t.expires + Lag
              /\ t.purpose = "invite" => sessions' = sessions /\ tokens' = tokens \ {t}
              /\ t.purpose = "reset" =>
                    /\ sessions' = NotOf(sessions, {t.user})
                    /\ tokens' = {o \in tokens : o.user # t.user \/ o.purpose # "reset"}
                    /\ users'[t.user].confirmed = users[t.user].confirmed
              /\ t.purpose = "invite" => users'[t.user].confirmed
              /\ users'[t.user].password \in Password
              /\ users'[t.user].disabled = users[t.user].disabled
              /\ \A a \in Account :
                    /\ Known(a)' <=> Known(a)
                    /\ a # t.user => users'[a] = users[a]
<1> PICK at \in {i \in Instant : clock <= i + Lag}, t \in tokens, password \in Password :
        ActivateByToken(t, at, password) \/ ResetByToken(t, at, password)
  BY DEF RedeemSteps
<1>1. t \in Token /\ t.user \in Account
  BY DEF TypeOK, Token
<1>4. clock < t.expires + Lag
  <2>1. t.expires > at
    BY DEF ActivateByToken, ResetByToken, Redeemable, Live
  <2>2. clock \in Nat /\ at \in Nat /\ t.expires \in Nat /\ clock <= at + Lag
    BY <1>1, BoundAssumption DEF Instant, TypeOK, Token
  <2> QED BY <2>1, <2>2, LagAssumption
<1>2. CASE ActivateByToken(t, at, password)
  BY <1>1, <1>2, <1>4, NoAccountAssumption
     DEF ActivateByToken, Redeemable, Enabled, TypeOK, Known, Row
<1>3. CASE ResetByToken(t, at, password)
  BY <1>1, <1>3, <1>4, NoAccountAssumption
     DEF ResetByToken, Redeemable, Enabled, TypeOK, Known, Row
<1> QED BY <1>2, <1>3

\* A session begins or ends: only sessions and minted change.
LEMMA SessionStepsKeep ==
    ASSUME TypeOK, SessionSteps
    PROVE  /\ UNCHANGED <<users, tokens, clock>>
           /\ \/ sessions' \subseteq sessions /\ minted' = minted
              \/ \E s \in Session : /\ Known(s.user)
                                    /\ s.hash \notin minted
                                    /\ sessions' = sessions \cup {s}
                                    /\ minted' = minted \cup {s.hash}
<1>1. ASSUME NEW hash \in Hash, NEW a \in Account, NEW expires \in Expiry,
             CreateSession([hash |-> hash, user |-> a, expires |-> expires])
      PROVE  \E s \in Session : /\ Known(s.user)
                                /\ s.hash \notin minted
                                /\ sessions' = sessions \cup {s}
                                /\ minted' = minted \cup {s.hash}
  <2> DEFINE s == [hash |-> hash, user |-> a, expires |-> expires]
  <2>1. s \in Session
    BY BoundAssumption DEF Session, Expiry, TypeOK
  <2> QED BY <1>1, <2>1 DEF CreateSession
<1> QED
  BY <1>1 DEF SessionSteps, CreateSession, DeleteSession, DeleteExpiredSessions

\* A token is issued to an enabled account, a reset token to a confirmed one.
LEMMA IssueStepsKeep ==
    ASSUME TypeOK, IssueSteps
    PROVE  \E t \in Token, kept \in SUBSET tokens :
              /\ UNCHANGED <<users, sessions, clock>>
              /\ Enabled(t.user)
              /\ t.purpose = "reset" => users[t.user].confirmed
              /\ t.hash \notin minted
              /\ tokens' = kept \cup {t}
              /\ minted' = minted \cup {t.hash}
<1> SUFFICES ASSUME NEW hash \in Hash, NEW a \in Account, NEW expires \in Expiry,
                    NEW purpose \in Purpose, purpose = "reset" => users[a].confirmed,
                    LET t == [hash |-> hash, user |-> a, purpose |-> purpose,
                              expires |-> expires]
                    IN  CreateToken(t) \/ ReplaceToken(t)
             PROVE  \E t \in Token, kept \in SUBSET tokens :
                       /\ UNCHANGED <<users, sessions, clock>>
                       /\ Enabled(t.user)
                       /\ t.purpose = "reset" => users[t.user].confirmed
                       /\ t.hash \notin minted
                       /\ tokens' = kept \cup {t}
                       /\ minted' = minted \cup {t.hash}
  BY DEF IssueSteps, Purpose
<1> DEFINE t == [hash |-> hash, user |-> a, purpose |-> purpose, expires |-> expires]
<1>1. t \in Token /\ t.purpose = purpose /\ t.user = a
  BY BoundAssumption DEF Token, Expiry, TypeOK
<1> HIDE DEF t
<1>2. CASE CreateToken(t)
  BY <1>1, <1>2 DEF CreateToken
<1>3. CASE ReplaceToken(t)
  <2> DEFINE kept == {o \in tokens : o.user # t.user \/ o.purpose # t.purpose}
  <2>1. kept \in SUBSET tokens /\ Enabled(t.user)
    BY <1>3 DEF ReplaceToken, Unactivated
  <2> QED BY <1>1, <1>3, <2>1 DEF ReplaceToken
<1> QED BY <1>2, <1>3 DEF t

\* A sweep takes accounts with their sessions and tokens.
LEMMA SweepStepsKeep ==
    ASSUME TypeOK, SweepSteps
    PROVE  \E at \in Instant :
              /\ UNCHANGED <<minted, clock>>
              /\ sessions' = NotOf(sessions, Stranded(at))
              /\ tokens' \subseteq NotOf(tokens, Stranded(at))
              /\ \A a \in Account :
                    users'[a] = IF a \in Stranded(at) THEN NoAccount ELSE users[a]
BY DEF SweepSteps, DeleteExpiredTokens, SweepTokens, NotOf

-----------------------------------------------------------------------------
\* The cascade and the foreign keys hold up under every write.
LEMMA OwnedStep == TypeOK /\ Owned /\ [Next]_vars => Owned'
<1> SUFFICES ASSUME TypeOK, Owned, [Next]_vars PROVE Owned'
  OBVIOUS
<1>1. /\ \A i \in sessions : i.user \in Account
      /\ \A i \in tokens : i.user \in Account
  BY DEF TypeOK, Session, Token
<1>2. CASE UserSteps
  BY <1>1, <1>2, UserStepsKeep DEF Owned
<1>3. CASE DisableSteps
  BY <1>1, <1>3, DisableStepsKeep DEF Owned, NotOf
<1>4. CASE SessionSteps
  BY <1>4, SessionStepsKeep DEF Owned, Known
<1>5. CASE IssueSteps
  BY <1>5, IssueStepsKeep DEF Owned, Known, Enabled
<1>6. CASE RedeemSteps
  <2>1. PICK t \in tokens :
           /\ minted' = minted
           /\ sessions' \subseteq sessions
           /\ tokens' \subseteq tokens
           /\ \A a \in Account : Known(a)' <=> Known(a)
    BY <1>6, RedeemStepsKeep DEF NotOf
  <2> QED BY <1>1, <2>1 DEF Owned
<1>7. CASE SweepSteps
  BY <1>1, <1>7, SweepStepsKeep DEF Owned, NotOf, Known
<1>8. CASE Tick \/ UNCHANGED vars
  BY <1>8 DEF Owned, Tick, vars, rowVars, Known
<1> QED BY <1>2, <1>3, <1>4, <1>5, <1>6, <1>7, <1>8 DEF Next

\* No write leaves a token with a disabled account.
LEMMA ClosedStep ==
    TypeOK /\ Owned /\ ClosedHoldsNoToken /\ [Next]_vars => ClosedHoldsNoToken'
<1> SUFFICES ASSUME TypeOK, Owned, ClosedHoldsNoToken, [Next]_vars
             PROVE  ClosedHoldsNoToken'
  OBVIOUS
<1>1. \A t \in tokens : t.user \in Account /\ Known(t.user)
  BY DEF TypeOK, Token, Owned
<1>2. CASE UserSteps
  BY <1>1, <1>2, UserStepsKeep DEF ClosedHoldsNoToken
<1>3. CASE DisableSteps
  BY <1>1, <1>3, DisableStepsKeep DEF ClosedHoldsNoToken, NotOf
<1>4. CASE SessionSteps
  BY <1>4, SessionStepsKeep DEF ClosedHoldsNoToken
<1>5. CASE IssueSteps
  BY <1>5, IssueStepsKeep DEF ClosedHoldsNoToken, Enabled
<1>6. CASE RedeemSteps
  <2>1. PICK t \in tokens :
           /\ tokens' \subseteq tokens
           /\ users'[t.user].disabled = users[t.user].disabled
           /\ \A a \in Account : a # t.user => users'[a] = users[a]
    BY <1>6, RedeemStepsKeep
  <2> QED BY <1>1, <2>1 DEF ClosedHoldsNoToken
<1>7. CASE SweepSteps
  BY <1>1, <1>7, SweepStepsKeep DEF ClosedHoldsNoToken, NotOf
<1>8. CASE Tick \/ UNCHANGED vars
  BY <1>8 DEF ClosedHoldsNoToken, Tick, vars, rowVars
<1> QED BY <1>2, <1>3, <1>4, <1>5, <1>6, <1>7, <1>8 DEF Next

\* A reset token is of a confirmed account.  ConfirmedHoldsPassword needs it: a reset stores
\* a password and would leave an unconfirmed account holding one.
ResetOfConfirmed == \A t \in tokens : t.purpose = "reset" => users[t.user].confirmed

\* A password is stored with the confirmation, and only a confirmed account's is replaced.
LEMMA ConfirmedStep ==
    TypeOK /\ Owned /\ ResetOfConfirmed /\ ConfirmedHoldsPassword /\ [Next]_vars
        => (ResetOfConfirmed /\ ConfirmedHoldsPassword)'
<1> SUFFICES ASSUME TypeOK, Owned, ResetOfConfirmed, ConfirmedHoldsPassword, [Next]_vars
             PROVE  (ResetOfConfirmed /\ ConfirmedHoldsPassword)'
  OBVIOUS
<1> USE DEF ResetOfConfirmed, ConfirmedHoldsPassword
<1>1. \A t \in tokens : t.user \in Account /\ Known(t.user)
  BY DEF TypeOK, Token, Owned
<1>2. CASE UserSteps
  BY <1>1, <1>2, UserStepsKeep
<1>3. CASE DisableSteps
  BY <1>1, <1>3, DisableStepsKeep DEF NotOf
<1>4. CASE SessionSteps
  BY <1>4, SessionStepsKeep DEF Known
<1>5. CASE IssueSteps
  BY <1>5, IssueStepsKeep DEF Known
<1>6. CASE RedeemSteps
  <2>1. PICK t \in tokens :
           /\ Known(t.user)
           /\ tokens' \subseteq tokens
           /\ users'[t.user].confirmed
           /\ users'[t.user].password \in Password
           /\ \A a \in Account : /\ Known(a)' <=> Known(a)
                                 /\ a # t.user => users'[a] = users[a]
    BY <1>6, RedeemStepsKeep DEF Enabled
  <2>2. (ResetOfConfirmed)'
    BY <1>1, <2>1
  <2>3. (ConfirmedHoldsPassword)'
    BY <1>1, <2>1, NullAssumption
  <2> QED BY <2>2, <2>3
<1>7. CASE SweepSteps
  BY <1>1, <1>7, SweepStepsKeep DEF NotOf, Known
<1>8. CASE Tick \/ UNCHANGED vars
  BY <1>8 DEF Tick, vars, rowVars, Known
<1> QED BY <1>2, <1>3, <1>4, <1>5, <1>6, <1>7, <1>8 DEF Next

-----------------------------------------------------------------------------
\* What the tables hold in every reachable state, as an induction needs it.
TablesOK ==
    TypeOK /\ Owned /\ ClosedHoldsNoToken /\ ResetOfConfirmed /\ ConfirmedHoldsPassword

LEMMA TablesInvariant == Spec => []TablesOK
<1>1. Init => TablesOK
  BY BoundAssumption
     DEF Init, TablesOK, TypeOK, Owned, ClosedHoldsNoToken, ResetOfConfirmed,
         ConfirmedHoldsPassword, Known
<1>2. Spec => []TypeOK
  BY TypeInvariant
<1>3. TypeOK' /\ TablesOK /\ [Next]_vars => TablesOK'
  BY OwnedStep, ClosedStep, ConfirmedStep DEF TablesOK
<1> QED BY <1>1, <1>2, <1>3, PTL DEF Spec

\* Every session and token row names an existing account and has a hash of its own: deleting
\* an account reaches all its rows.
THEOREM RowsOwned == Spec => []Owned
BY TablesInvariant, PTL DEF TablesOK

\* A disabled account holds no token, whatever was issued, replaced or redeemed before.
THEOREM ClosedHasNoToken == Spec => []ClosedHoldsNoToken
BY TablesInvariant, PTL DEF TablesOK

\* An account is confirmed exactly when it holds a password.
THEOREM ConfirmedHasPassword == Spec => []ConfirmedHoldsPassword
BY TablesInvariant, PTL DEF TablesOK

-----------------------------------------------------------------------------
\* An account's standing tokens grow by an issue alone, by its one token.
LEMMA StandingStep ==
    ASSUME TypeOK, [Next]_vars, NEW a \in Account, NEW p \in Purpose
    PROVE  \/ (Standing(a, p))' \subseteq Standing(a, p)
           \/ \E t \in Token : (Standing(a, p))' \subseteq {t}
           \/ \E t \in Token :
                 /\ (Standing(a, p))' \subseteq Standing(a, p) \cup {t}
                 /\ Cardinality(Standing(a, p)) < Cap(p)
<1>1. ASSUME tokens' \subseteq tokens, clock' \in Nat, clock <= clock'
      PROVE  (Standing(a, p))' \subseteq Standing(a, p)
  BY <1>1 DEF Standing, Live, TypeOK, Token
<1>2. clock \in Nat
  BY BoundAssumption DEF TypeOK
<1>3. CASE UserSteps
  BY <1>1, <1>2, <1>3, UserStepsKeep
<1>4. CASE DisableSteps
  BY <1>1, <1>2, <1>4, DisableStepsKeep DEF NotOf
<1>5. CASE SessionSteps
  BY <1>1, <1>2, <1>5, SessionStepsKeep
<1>6. CASE IssueSteps
  <2> SUFFICES ASSUME NEW hash \in Hash, NEW b \in Account, NEW expires \in Expiry,
                      NEW purpose \in Purpose,
                      LET t == [hash |-> hash, user |-> b, purpose |-> purpose,
                                expires |-> expires]
                      IN  CreateToken(t) \/ ReplaceToken(t)
               PROVE  \/ (Standing(a, p))' \subseteq Standing(a, p)
                      \/ \E t \in Token : (Standing(a, p))' \subseteq {t}
                      \/ \E t \in Token :
                            /\ (Standing(a, p))' \subseteq Standing(a, p) \cup {t}
                            /\ Cardinality(Standing(a, p)) < Cap(p)
    BY <1>6 DEF IssueSteps, Purpose
  <2> DEFINE t == [hash |-> hash, user |-> b, purpose |-> purpose, expires |-> expires]
  <2>1. t \in Token
    BY BoundAssumption DEF Token, Expiry, TypeOK
  <2> HIDE DEF t
  <2>2. CASE CreateToken(t)
    <3>1. CASE t.user = a /\ t.purpose = p
      BY <2>1, <2>2, <3>1 DEF CreateToken, Standing, Live
    <3>2. CASE ~(t.user = a /\ t.purpose = p)
      BY <2>2, <3>2 DEF CreateToken, Standing, Live
    <3> QED BY <3>1, <3>2
  <2>3. CASE ReplaceToken(t)
    <3>1. CASE t.user = a /\ t.purpose = p
      BY <2>1, <2>3, <3>1 DEF ReplaceToken, Standing, Live
    <3>2. CASE ~(t.user = a /\ t.purpose = p)
      BY <2>3, <3>2 DEF ReplaceToken, Standing, Live
    <3> QED BY <3>1, <3>2
  <2> QED BY <2>2, <2>3 DEF t
<1>7. CASE RedeemSteps
  <2>1. tokens' \subseteq tokens /\ clock' = clock
    BY <1>7, RedeemStepsKeep
  <2> QED BY <1>1, <1>2, <2>1
<1>8. CASE SweepSteps
  BY <1>1, <1>2, <1>8, SweepStepsKeep DEF NotOf
<1>9. CASE Tick \/ UNCHANGED vars
  BY <1>1, <1>2, <1>9 DEF Tick, vars, rowVars
<1> QED BY <1>3, <1>4, <1>5, <1>6, <1>7, <1>8, <1>9 DEF Next

\* No account has more live tokens of a purpose than its issuer's cap.  The cardinalities need
\* the standing tokens to be finite, which they are because each issue adds one.
THEOREM CapKept == Spec => []CapHolds
<1> DEFINE Capped ==
      \A a \in Account, p \in Purpose :
          IsFiniteSet(Standing(a, p)) /\ Cardinality(Standing(a, p)) <= Cap(p)
<1>1. Init => Capped
  <2> SUFFICES ASSUME Init, NEW a \in Account, NEW p \in Purpose
               PROVE  IsFiniteSet(Standing(a, p)) /\ Cardinality(Standing(a, p)) <= Cap(p)
    OBVIOUS
  <2>1. Standing(a, p) = {}
    BY DEF Init, Standing
  <2> QED BY <2>1, FS_EmptySet, BoundAssumption DEF Cap
<1>2. TypeOK /\ Capped /\ [Next]_vars => Capped'
  <2> SUFFICES ASSUME TypeOK, Capped, [Next]_vars, NEW a \in Account, NEW p \in Purpose
               PROVE  /\ IsFiniteSet((Standing(a, p))')
                      /\ Cardinality((Standing(a, p))') <= Cap(p)
    BY DEF Cap
  <2> DEFINE now == Standing(a, p)
             next == (Standing(a, p))'
  <2>1. /\ IsFiniteSet(now) /\ Cardinality(now) \in Nat /\ Cardinality(now) <= Cap(p)
        /\ Cap(p) \in Nat \ {0}
    BY FS_CardinalityType, BoundAssumption DEF Cap
  <2> HIDE DEF now, next
  <2>2. ASSUME next \subseteq now
        PROVE  IsFiniteSet(next) /\ Cardinality(next) <= Cap(p)
    <3>1. IsFiniteSet(next) /\ Cardinality(next) <= Cardinality(now)
      BY <2>1, <2>2, FS_Subset
    <3> QED BY <2>1, <3>1, FS_CardinalityType
  <2>3. ASSUME NEW t \in Token, next \subseteq {t}
        PROVE  IsFiniteSet(next) /\ Cardinality(next) <= Cap(p)
    <3>1. IsFiniteSet({t}) /\ Cardinality({t}) = 1
      BY FS_Singleton
    <3>2. IsFiniteSet(next) /\ Cardinality(next) <= 1
      BY <2>3, <3>1, FS_Subset
    <3> QED BY <2>1, <3>2, FS_CardinalityType
  <2>4. ASSUME NEW t \in Token, next \subseteq now \cup {t}, Cardinality(now) < Cap(p)
        PROVE  IsFiniteSet(next) /\ Cardinality(next) <= Cap(p)
    <3>1. IsFiniteSet(now \cup {t}) /\ Cardinality(now \cup {t}) <= Cap(p)
      <4>1. /\ IsFiniteSet(now \cup {t})
            /\ Cardinality(now \cup {t}) =
                 IF t \in now THEN Cardinality(now) ELSE Cardinality(now) + 1
        BY <2>1, FS_AddElement
      <4> QED BY <2>1, <2>4, <4>1
    <3>2. IsFiniteSet(next) /\ Cardinality(next) <= Cardinality(now \cup {t})
      BY <2>4, <3>1, FS_Subset
    <3> QED BY <2>1, <3>1, <3>2, FS_CardinalityType
  <2> QED BY <2>2, <2>3, <2>4, StandingStep DEF now, next
<1>3. Capped => CapHolds
  BY DEF CapHolds
<1> QED BY <1>1, <1>2, <1>3, TypeInvariant, PTL DEF Spec

-----------------------------------------------------------------------------
\* An account that disappears was stranded at an instant that had passed.
LEMMA OnlyStrandedGo ==
    ASSUME TypeOK, [Next]_vars, NEW a \in Account, Known(a), ~Known(a)'
    PROVE  ~users[a].confirmed /\ Standing(a, "invite") = {}
<1>1. SweepSteps
  BY UserStepsKeep, DisableStepsKeep, SessionStepsKeep, IssueStepsKeep, RedeemStepsKeep
     DEF Next, Known, Tick, vars, rowVars
<1>2. PICK at \in Instant : a \in Stranded(at)
  BY <1>1, SweepStepsKeep DEF Known
<1>3. \A t \in tokens : Live(t, clock) => Live(t, at)
  BY BoundAssumption DEF Live, Instant, TypeOK, Token
<1> QED BY <1>2, <1>3 DEF Stranded, Standing

\* An account disappears only while unconfirmed and past every invite it was sent.
THEOREM SweepSparesLiveInvites == Spec => SweptWasStranded
<1>1. TypeOK /\ [Next]_vars =>
        \A a \in Account : Known(a) /\ ~Known(a)' =>
            ~users[a].confirmed /\ Standing(a, "invite") = {}
  BY OnlyStrandedGo
<1> QED BY <1>1, TypeInvariant, PTL DEF Spec, SweptWasStranded

\* A password changes only by spending a live token of its account, and a reset leaves no
\* session and no other reset token.
LEMMA PasswordStep ==
    ASSUME TablesOK, [Next]_vars, NEW a \in Account, Known(a), Known(a)',
           users[a].password # users[a].password'
    PROVE  \E t \in tokens \ tokens' :
              /\ t.user = a
              /\ t.purpose = IF users[a].confirmed THEN "reset" ELSE "invite"
              /\ clock < t.expires + Lag
              /\ t.purpose = "reset" =>
                    /\ sessions' = NotOf(sessions, {a})
                    /\ tokens' = {o \in tokens : o.user # a \/ o.purpose # "reset"}
<1> USE DEF TablesOK
<1>1. RedeemSteps
  <2>1. ~UserSteps
    BY UserStepsKeep
  <2>2. ~DisableSteps
    BY DisableStepsKeep
  <2>3. ~SessionSteps /\ ~IssueSteps
    BY SessionStepsKeep, IssueStepsKeep
  <2>4. ~SweepSteps
    BY SweepStepsKeep DEF Known
  <2> QED BY <2>1, <2>2, <2>3, <2>4 DEF Next, Tick, vars, rowVars
<1> PICK t \in tokens :
       /\ t.purpose = IF users[t.user].confirmed THEN "reset" ELSE t.purpose
       /\ t.purpose \in {"invite", "reset"}
       /\ clock < t.expires + Lag
       /\ t.purpose = "invite" => sessions' = sessions /\ tokens' = tokens \ {t}
       /\ t.purpose = "reset" =>
             /\ sessions' = NotOf(sessions, {t.user})
             /\ tokens' = {o \in tokens : o.user # t.user \/ o.purpose # "reset"}
       /\ \A b \in Account : b # t.user => users'[b] = users[b]
  BY <1>1, RedeemStepsKeep
<1>2. t.user = a
  OBVIOUS
<1>3. t.purpose = IF users[a].confirmed THEN "reset" ELSE "invite"
  BY <1>2 DEF ResetOfConfirmed
<1>4. t \notin tokens'
  BY <1>2, <1>3
<1> QED BY <1>2, <1>3, <1>4

\* Every password change spends a token of the account, an invite or a reset, that was live
\* when the redemption read the time.
THEOREM PasswordNeedsToken == Spec => PasswordChangeSpendsToken
<1>1. TablesOK /\ [Next]_vars =>
        \A a \in Account :
            Known(a) /\ Known(a)' /\ users[a].password # users[a].password' =>
               \E t \in tokens \ tokens' :
                  /\ t.user = a
                  /\ t.purpose = IF users[a].confirmed THEN "reset" ELSE "invite"
                  /\ clock < t.expires + Lag
  BY PasswordStep
<1> QED BY <1>1, TablesInvariant, PTL DEF Spec, PasswordChangeSpendsToken

\* A reset leaves the account no session and no other reset token.
THEOREM ResetEndsEverything == Spec => ResetLeavesNothing
<1>1. TablesOK /\ [Next]_vars =>
        \A a \in Account :
            Known(a) /\ users[a].confirmed /\ Known(a)'
                /\ users[a].password # users[a].password' =>
               /\ \A s \in sessions' : s.user # a
               /\ \A t \in tokens' : t.user # a \/ t.purpose # "reset"
  BY PasswordStep DEF NotOf
<1> QED BY <1>1, TablesInvariant, PTL DEF Spec, ResetLeavesNothing

-----------------------------------------------------------------------------
\* With one privileged list in force, which names no empty role, cover is lost to a sweep and
\* to nothing else.  The empty role must be left out: GrantRoleToRoleless is not guarded.
THEOREM GuardKeepsCover ==
    ASSUME NEW P, Guards = {P}, P # {}, NoRole \notin P
    PROVE  Spec => CoverLostOnlyToSweep
<1>1. ASSUME TypeOK, [Next]_vars, Covered(P), ~Covered(P)'
      PROVE  \E a \in Account : Covers(a, P) /\ ~users[a].confirmed /\ ~Known(a)'
  <2> USE DEF Covered, Covers, Enabled
  <2> PICK c \in Account : Covers(c, P)
    BY <1>1
  <2>1. ASSUME \A a \in Account : Covers(a, P) => Covers(a, P)'
        PROVE  FALSE
    BY <1>1, <2>1
  <2>2. ASSUME NEW b \in Account, NEW removes,
               KeepsCover(b, P, removes),
               ~removes => (Covers(b, P) => Covers(b, P)'),
               \A a \in Account \ {b} : users'[a] = users[a]
        PROVE  FALSE
    BY <1>1, <2>2 DEF KeepsCover, Known
  <2>3. ~UserSteps
    <3> SUFFICES ASSUME NEW b \in Account, NEW role \in Role \cup {NoRole},
                        \/ \E password \in Password \cup {NoPassword} :
                              CreateUser(b, role, password)
                        \/ \E password \in Password :
                              role # NoRole /\ CreateFirstUser(b, role, password)
                        \/ \E from \in From : SetUserRole(b, from, role, P)
                        \/ GrantRoleToRoleless(role)
                 PROVE  FALSE
      BY DEF UserSteps
    <3>1. CASE \/ \E password \in Password \cup {NoPassword} : CreateUser(b, role, password)
               \/ \E password \in Password : CreateFirstUser(b, role, password)
      BY <1>1, <2>1, <3>1 DEF CreateUser, CreateFirstUser, Known, TypeOK
    <3>2. CASE \E from \in From : SetUserRole(b, from, role, P)
      <4> DEFINE removes == ~Holds(P, role)
      <4>1. KeepsCover(b, P, removes) /\ \A a \in Account \ {b} : users'[a] = users[a]
        BY <1>1, <3>2 DEF SetUserRole, TypeOK
      <4>2. ~removes => (Covers(b, P) => Covers(b, P)')
        BY <1>1, <3>2, NoAccountAssumption DEF SetUserRole, TypeOK, Known, Row, Holds
      <4> QED BY <2>2, <4>1, <4>2
    <3>3. CASE GrantRoleToRoleless(role)
      BY <1>1, <2>1, <3>3 DEF GrantRoleToRoleless, Known, TypeOK
    <3> QED BY <3>1, <3>2, <3>3
  <2>4. ~DisableSteps
    <3> SUFFICES ASSUME NEW b \in Account, NEW from \in From, NEW disabled \in BOOLEAN,
                        SetUserDisabled(b, from, disabled, P)
                 PROVE  FALSE
      BY DEF DisableSteps
    <3>1. KeepsCover(b, P, disabled) /\ \A a \in Account \ {b} : users'[a] = users[a]
      BY <1>1 DEF SetUserDisabled, TypeOK
    <3>2. ~disabled => (Covers(b, P) => Covers(b, P)')
      BY <1>1, NoAccountAssumption DEF SetUserDisabled, TypeOK, Known, Row
    <3> QED BY <2>2, <3>1, <3>2
  <2>5. ~SessionSteps /\ ~IssueSteps
    BY <1>1, <2>1, SessionStepsKeep, IssueStepsKeep DEF Known
  <2>6. ~RedeemSteps
    <3> SUFFICES ASSUME NEW at \in {i \in Instant : clock <= i + Lag}, NEW t \in tokens, NEW password \in Password,
                        ActivateByToken(t, at, password) \/ ResetByToken(t, at, password)
                 PROVE  FALSE
      BY DEF RedeemSteps
    <3>1. t.user \in Account
      BY <1>1 DEF TypeOK, Token
    <3>2. \A a \in Account : Covers(a, P) => Covers(a, P)'
      BY <1>1, <3>1, NoAccountAssumption
         DEF ActivateByToken, ResetByToken, TypeOK, Known, Row
    <3> QED BY <2>1, <3>2
  <2>7. ~Tick /\ ~UNCHANGED vars
    BY <1>1, <2>1 DEF Tick, vars, rowVars, Known
  <2>8. SweepSteps
    BY <1>1, <2>3, <2>4, <2>5, <2>6, <2>7 DEF Next
  <2>9. PICK at \in Instant : c \in Stranded(at) /\ ~Known(c)'
    BY <1>1, <2>8, SweepStepsKeep DEF Known
  <2> QED BY <2>9 DEF Stranded
<1>2. TypeOK /\ [Next]_vars =>
        \A g \in Guards :
            Covered(g) /\ ~Covered(g)' =>
               \E a \in Account : Covers(a, g) /\ ~users[a].confirmed /\ ~Known(a)'
  BY <1>1
<1> QED BY <1>2, TypeInvariant, PTL DEF Spec, CoverLostOnlyToSweep
-----------------------------------------------------------------------------
\* The serial store sweeps as the contract promises, and takes no account but those it must.
THEOREM SerialKeepsContract == Spec => Promised
<1>1. SweepSteps => PromisedSweep
  BY DEF SweepSteps, DeleteExpiredTokens, PromisedSweep, Abandoned, Stranded
<1>2. [Next]_vars => [PromisedNext]_vars
  BY <1>1 DEF Next, PromisedNext
<1> QED BY <1>2, PTL DEF Spec, Promised

\* A promised sweep takes accounts that are unconfirmed and hold no live invite, with their rows.
LEMMA PromisedSweepKeeps ==
    ASSUME TypeOK, PromisedSweep
    PROVE  \E gone \in SUBSET Account :
              /\ UNCHANGED <<minted, clock>>
              /\ sessions' = NotOf(sessions, gone)
              /\ tokens' \subseteq NotOf(tokens, gone)
              /\ \A a \in Account : users'[a] = IF a \in gone THEN NoAccount ELSE users[a]
              /\ \A a \in gone : ~users[a].confirmed /\ Standing(a, "invite") = {}
<1>1. PICK at \in Instant : \E gone \in SUBSET Abandoned(at) : SweepTokens(at, gone)
  BY DEF PromisedSweep
<1>2. PICK gone \in SUBSET Abandoned(at) : SweepTokens(at, gone)
  BY <1>1
<1>3. \A t \in tokens : Live(t, clock) => Live(t, at)
  BY BoundAssumption DEF Live, Instant, TypeOK, Token
<1>4. \A a \in gone : a \in Account /\ ~users[a].confirmed /\ Standing(a, "invite") = {}
  BY <1>3 DEF Abandoned, Standing
<1> QED BY <1>2, <1>4 DEF SweepTokens, NotOf

LEMMA PromisedTablesStep ==
    ASSUME TablesOK, [PromisedNext]_vars
    PROVE  TablesOK'
<1>1. CASE [Next]_vars
  BY <1>1, TypeStep, OwnedStep, ClosedStep, ConfirmedStep DEF TablesOK
<1>2. CASE PromisedSweep
  <2>1. TypeOK'
    BY <1>2 DEF TablesOK, PromisedSweep, SweepTokens, TypeOK, NotOf
  <2>2. PICK gone \in SUBSET Account :
           /\ UNCHANGED <<minted, clock>>
           /\ sessions' = NotOf(sessions, gone)
           /\ tokens' \subseteq NotOf(tokens, gone)
           /\ \A a \in Account : users'[a] = IF a \in gone THEN NoAccount ELSE users[a]
    BY <1>2, PromisedSweepKeeps DEF TablesOK
  <2>3. \A i \in sessions \cup tokens : i.user \in Account
    BY DEF TablesOK, TypeOK, Session, Token
  <2>4. (Owned /\ ClosedHoldsNoToken /\ ResetOfConfirmed /\ ConfirmedHoldsPassword)'
    BY <2>2, <2>3 DEF TablesOK, Owned, ClosedHoldsNoToken, ResetOfConfirmed,
                      ConfirmedHoldsPassword, NotOf, Known
  <2> QED BY <2>1, <2>4 DEF TablesOK
<1> QED BY <1>1, <1>2 DEF Next, PromisedNext

LEMMA PromisedTables == Promised => []TablesOK
<1>1. Init => TablesOK
  BY BoundAssumption
     DEF Init, TablesOK, TypeOK, Owned, ClosedHoldsNoToken, ResetOfConfirmed,
         ConfirmedHoldsPassword, Known
<1> QED BY <1>1, PromisedTablesStep, PTL DEF Promised

\* What the tables of any store hold that keeps the contract: its rows have owners, a disabled
\* account holds no token, and a confirmed one a password.
THEOREM ContractKeepsTables ==
    Promised => [](Owned /\ ClosedHoldsNoToken /\ ConfirmedHoldsPassword)
BY PromisedTables, PTL DEF TablesOK

\* What no call of any store does that keeps the contract: change a password without a live token,
\* leave a session or a reset token over from before a reset, or delete an account that could
\* still be activated.
THEOREM ContractKeepsSteps ==
    Promised => PasswordChangeSpendsToken /\ ResetLeavesNothing /\ SweptWasStranded
<1>1. ASSUME TablesOK, [PromisedNext]_vars, NEW a \in Account, Known(a), ~Known(a)'
      PROVE  ~users[a].confirmed /\ Standing(a, "invite") = {}
  <2>1. CASE [Next]_vars
    BY <1>1, <2>1, OnlyStrandedGo DEF TablesOK
  <2>2. CASE PromisedSweep
    BY <1>1, <2>2, PromisedSweepKeeps DEF TablesOK, Known
  <2> QED BY <1>1, <2>1, <2>2 DEF Next, PromisedNext
<1>2. ASSUME TablesOK, [PromisedNext]_vars, NEW a \in Account, Known(a), Known(a)',
             users[a].password # users[a].password'
      PROVE  \E t \in tokens \ tokens' :
                /\ t.user = a
                /\ t.purpose = IF users[a].confirmed THEN "reset" ELSE "invite"
                /\ clock < t.expires + Lag
                /\ t.purpose = "reset" =>
                      /\ sessions' = NotOf(sessions, {a})
                      /\ tokens' = {o \in tokens : o.user # a \/ o.purpose # "reset"}
  <2>1. [Next]_vars
    BY <1>2, PromisedSweepKeeps DEF Next, PromisedNext, TablesOK, Known
  <2> QED BY <1>2, <2>1, PasswordStep
<1>3. TablesOK /\ [PromisedNext]_vars =>
        \A a \in Account : Known(a) /\ ~Known(a)' =>
            ~users[a].confirmed /\ Standing(a, "invite") = {}
  BY <1>1
<1>4. TablesOK /\ [PromisedNext]_vars =>
        \A a \in Account :
            Known(a) /\ Known(a)' /\ users[a].password # users[a].password' =>
               \E t \in tokens \ tokens' :
                  /\ t.user = a
                  /\ t.purpose = IF users[a].confirmed THEN "reset" ELSE "invite"
                  /\ clock < t.expires + Lag
  BY <1>2
<1>5. TablesOK /\ [PromisedNext]_vars =>
        \A a \in Account :
            Known(a) /\ users[a].confirmed /\ Known(a)'
                /\ users[a].password # users[a].password' =>
               /\ \A s \in sessions' : s.user # a
               /\ \A t \in tokens' : t.user # a \/ t.purpose # "reset"
  BY <1>2 DEF NotOf
<1> QED
  BY <1>3, <1>4, <1>5, PromisedTables, PTL
     DEF Promised, PasswordChangeSpendsToken, ResetLeavesNothing, SweptWasStranded
=============================================================================
