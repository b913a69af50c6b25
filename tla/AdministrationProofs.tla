------------------------ MODULE AdministrationProofs ------------------------
(***************************************************************************)
(* Proofs about Administration: what administrators and the operator's     *)
(* commands can do to each other's accounts, for any number of accounts,   *)
(* roles and requests in flight.                                           *)
(***************************************************************************)
EXTENDS Administration, AccountStoreProofs

-----------------------------------------------------------------------------
\* What a request in flight carries at each stage.
LEMMA RequestShapes ==
    ASSUME NEW q \in AllRequests
    PROVE  /\ q.at \in {"idle", "begun", "stamp", "role", "disabled"}
           /\ q.at = "begun" => q.actor \in Account /\ q.role \in AnyRole
           /\ q.at = "stamp" => q.target \in Account /\ q.role \in Role
           /\ q.at \in {"role", "disabled"} =>
                 q.target \in Account /\ q.role \in AnyRole /\ q.held \in AnyRole
           /\ q.at = "role" => q.want \in Declared
           /\ q.at = "disabled" => q.want \in BOOLEAN
BY DEF AllRequests, Idle

\* A write of one account.
LEMMA CreateUserKeeps ==
    ASSUME TypeOK, NEW a \in Account, NEW role \in AnyRole,
           NEW password \in Password \cup {NoPassword}, CreateUser(a, role, password)
    PROVE  /\ TypeOK' /\ ~Known(a) /\ users'[a].role = role
           /\ \A b \in Account \ {a} : users'[b] = users[b]
<1>1. NewRow(role, password) \in Row
  BY NewRowType DEF AnyRole
<1> QED BY <1>1 DEF CreateUser, TypeOK, NewRow

LEMMA SetUserRoleKeeps ==
    ASSUME TypeOK, NEW a \in Account, NEW from, NEW role \in AnyRole, NEW privileged,
           SetUserRole(a, from, role, privileged)
    PROVE  /\ TypeOK' /\ Known(a) /\ Known(a)'
           /\ users'[a] = [users[a] EXCEPT !.role = role]
           /\ users[a] \in Row /\ users'[a].role = role
           /\ \A b \in Account \ {a} : users'[b] = users[b]
BY NoAccountAssumption DEF SetUserRole, TypeOK, Known, Row, AnyRole

LEMMA SetUserDisabledKeeps ==
    ASSUME TypeOK, NEW a \in Account, NEW from, NEW disabled \in BOOLEAN, NEW privileged,
           SetUserDisabled(a, from, disabled, privileged)
    PROVE  /\ TypeOK' /\ Known(a) /\ Known(a)'
           /\ users'[a] = [users[a] EXCEPT !.disabled = disabled]
           /\ users[a] \in Row /\ users'[a].role = users[a].role
           /\ \A b \in Account \ {a} : users'[b] = users[b]
<1>1. users[a] \in Row /\ users' = [users EXCEPT ![a].disabled = disabled]
  BY DEF SetUserDisabled, TypeOK, Known
<1>2. /\ users'[a] = [users[a] EXCEPT !.disabled = disabled] /\ users'[a] \in Row
      /\ users'[a].role = users[a].role
      /\ \A b \in Account \ {a} : users'[b] = users[b]
  BY <1>1 DEF TypeOK, Row
<1>3. TypeOK'
  BY <1>1, <1>2 DEF SetUserDisabled, TypeOK, NotOf
<1> QED BY <1>1, <1>2, <1>3, NoAccountAssumption DEF SetUserDisabled, Known

LEMMA GrantKeeps ==
    ASSUME TypeOK, NEW role \in Role, GrantRoleToRoleless(role)
    PROVE  /\ TypeOK'
           /\ \A a \in Account :
                 /\ Known(a)' <=> Known(a)
                 /\ Known(a) => /\ users'[a].disabled = users[a].disabled
                                /\ users'[a].role = IF users[a].role = NoRole
                                                    THEN role ELSE users[a].role
<1>1. \A a \in Account : Known(a) => users[a] \in Row
  BY DEF TypeOK, Known
<1>2. \A a \in Account : users'[a] = IF Known(a) /\ users[a].role = NoRole
                                     THEN [users[a] EXCEPT !.role = role] ELSE users[a]
  BY DEF GrantRoleToRoleless
<1>3. \A a \in Account : Known(a) =>
         /\ users'[a] \in Row /\ users'[a].disabled = users[a].disabled
         /\ users'[a].role = IF users[a].role = NoRole THEN role ELSE users[a].role
  BY <1>1, <1>2 DEF Row
<1>4. TypeOK'
  BY <1>1, <1>2 DEF GrantRoleToRoleless, TypeOK, Row
<1> QED BY <1>1, <1>2, <1>3, <1>4, NoAccountAssumption DEF Known

-----------------------------------------------------------------------------
\* A request that is ready to write was checked: its target's role as it was read, and the
\* role it gives, against the role of its actor.
Sound(q) ==
    /\ q.at \in {"role", "disabled"} => Editable(q.role, q.held)
    /\ q.at = "role" => IsDeclared(q.want) /\ Outranks(q.role, q.want)
    /\ q.at = "disabled" /\ ~q.want => IsDeclared(q.held)

Checked == \A r \in Request : Sound(requests[r])

\* A declared role is outranked by one of those in roles.
Below(role, roles) == IsDeclared(role) => \E o \in roles : Outranks(o, role)

Acts(q, roles) == q.at \in {"begun", "role", "disabled"} => Below(q.role, roles)

\* AuthorityCeiling, and the empty role among those given, below which nothing is.
Ceiling == NoRole \in ordained /\ AuthorityCeiling

AInv == AdminTypeOK /\ Checked /\ Ceiling

LEMMA AInitHolds == AdminInit => AInv
<1> SUFFICES ASSUME AdminInit PROVE AInv
  OBVIOUS
<1>1. \A role \in AnyRole, p \in Password : NewRow(role, p) \in Row /\ NewRow(role, p).role = role
  BY NewRowType DEF AnyRole, NewRow
<1>2. TypeOK
  BY <1>1, BoundAssumption DEF AdminInit, TypeOK
<1>3. \A a \in Account : Known(a) => users[a].role \in AnyRole
  BY <1>2 DEF TypeOK, Known, Row, AnyRole
<1>4. AdminTypeOK
  BY <1>2, <1>3 DEF AdminInit, AdminTypeOK, AllRequests, AnyRole
<1>5. \A r \in Request : requests[r].at = "idle"
  BY DEF AdminInit, Idle
<1>6. Ceiling
  <2>1. \A a \in Account : Known(a) => users[a].role \in ordained
    BY DEF AdminInit
  <2> QED BY <1>5, <2>1 DEF Ceiling, AuthorityCeiling, Outranks, AdminInit
<1> QED BY <1>4, <1>5, <1>6 DEF AInv, Checked, Sound

\* A request moves on: the others stay where they are.
LEMMA GotoMoves ==
    ASSUME AdminTypeOK, NEW r \in Request, NEW to \in AllRequests, Goto(r, to)
    PROVE  /\ requests' \in [Request -> AllRequests] /\ requests'[r] = to
           /\ \A other \in Request \ {r} : requests'[other] = requests[other]
BY DEF AdminTypeOK, Goto

LEMMA Stages ==
    /\ Idle \in AllRequests /\ Idle.at = "idle"
    /\ \A a \in Account, role \in AnyRole :
          /\ Begun(a, role) \in AllRequests /\ Begun(a, role).at = "begun"
          /\ Begun(a, role).role = role
    /\ \A a \in Account, role \in Role :
          Stamping(a, role) \in AllRequests /\ Stamping(a, role).at = "stamp"
BY DEF AllRequests, Idle, Begun, Stamping

\* A request that read its target holds what it read.
LEMMA ReadyRole ==
    \A by, held \in AnyRole, a \in Account, want \in Declared :
       /\ Ready("role", by, a, held, want) \in AllRequests
       /\ Ready("role", by, a, held, want).at = "role"
       /\ Ready("role", by, a, held, want).role = by
       /\ Ready("role", by, a, held, want).held = held
       /\ Ready("role", by, a, held, want).want = want
BY DEF AllRequests, Ready

LEMMA ReadyDisabled ==
    \A by, held \in AnyRole, a \in Account, want \in BOOLEAN :
       /\ Ready("disabled", by, a, held, want) \in AllRequests
       /\ Ready("disabled", by, a, held, want).at = "disabled"
       /\ Ready("disabled", by, a, held, want).role = by
       /\ Ready("disabled", by, a, held, want).held = held
       /\ Ready("disabled", by, a, held, want).want = want
BY DEF AllRequests, Ready

-----------------------------------------------------------------------------
LEMMA CeilingOf ==
    ASSUME AInv, checked
    PROVE  /\ NoRole \in ordained
           /\ \A a \in Account : Known(a) => Below(users[a].role, ordained)
           /\ \A r \in Request : Acts(requests[r], ordained)
BY DEF AInv, Ceiling, AuthorityCeiling, Below, Acts

\* What the actor of a request may give is outranked by a role an operator gave: by the one
\* above its own, or, under an undeclared role that carries nothing, by any.
LEMMA GivenBelow ==
    ASSUME AInv, checked, NEW r \in Request, NEW want,
           requests[r].at \in {"begun", "role", "disabled"}, Outranks(requests[r].role, want)
    PROVE  Below(want, ordained)
<1> DEFINE by == requests[r].role
<1>1. by \in AnyRole
  <2>1. requests[r] \in AllRequests
    BY DEF AInv, AdminTypeOK
  <2> QED BY <2>1, RequestShapes
<1>2. CASE IsDeclared(by)
  <2>1. PICK o \in ordained : Outranks(o, by)
    BY <1>2, CeilingOf DEF Acts, Below
  <2> QED BY <2>1 DEF Outranks, Below
<1>3. CASE ~IsDeclared(by)
  <2>1. Carries[by] = {} /\ NoRole \in ordained
    BY <1>1, <1>3, RankAssumption, CeilingOf DEF IsDeclared
  <2>2. Outranks(NoRole, want)
    BY <2>1 DEF Outranks
  <2> QED BY <2>1, <2>2 DEF Below
<1> QED BY <1>2, <1>3

\* A step keeps the invariant when each request it moves was checked and each role it gives
\* is below one an operator gave.
LEMMA StepKeeps ==
    ASSUME AInv, TypeOK', requests' \in [Request -> AllRequests], checked' = checked,
           ordained \subseteq ordained', ordained' \subseteq AnyRole,
           \A r \in Request :
              \/ requests'[r] = requests[r]
              \/ Sound(requests'[r]) /\ (checked => Acts(requests'[r], ordained')),
           \A a \in Account : Known(a)' =>
              \/ Known(a) /\ users'[a].role = users[a].role
              \/ checked => Below(users'[a].role, ordained')
    PROVE  AInv'
<1>1. AdminTypeOK'
  BY DEF AInv, AdminTypeOK
<1>2. Checked'
  BY DEF AInv, Checked, Sound
<1>3. NoRole \in ordained'
  BY DEF AInv, Ceiling
<1>4. ASSUME checked PROVE AuthorityCeiling'
  <2>1. \A role : Below(role, ordained) => Below(role, ordained')
    BY DEF Below
  <2>2. \A a \in Account : Known(a)' => Below(users'[a].role, ordained')
    BY <1>4, <2>1, CeilingOf
  <2>3. \A r \in Request : Acts(requests'[r], ordained')
    BY <1>4, <2>1, CeilingOf DEF Acts
  <2> QED BY <2>2, <2>3 DEF AuthorityCeiling, Below, Acts
<1>5. ASSUME ~checked PROVE AuthorityCeiling'
  BY <1>5 DEF AuthorityCeiling
<1> QED BY <1>1, <1>2, <1>3, <1>4, <1>5 DEF AInv, Ceiling

\* A request that comes to rest, whatever it wrote.
LEMMA IdleKeeps ==
    ASSUME AInv, TypeOK', NEW r \in Request, Goto(r, Idle), Rest,
           \A a \in Account : Known(a)' =>
              \/ Known(a) /\ users'[a].role = users[a].role
              \/ checked => Below(users'[a].role, ordained)
    PROVE  AInv'
<1>1. /\ requests' \in [Request -> AllRequests] /\ requests'[r] = Idle
      /\ \A other \in Request \ {r} : requests'[other] = requests[other]
  BY GotoMoves, Stages DEF AInv
<1>2. Sound(Idle) /\ Acts(Idle, ordained)
  BY Stages DEF Sound, Acts
<1> QED BY <1>1, <1>2, StepKeeps DEF Rest, AInv, AdminTypeOK

\* A request that reads on: the tables stay as they are.
LEMMA ReadKeeps ==
    ASSUME AInv, UNCHANGED rowVars, NEW r \in Request, NEW to \in AllRequests, Goto(r, to),
           Rest, Sound(to), checked => Acts(to, ordained)
    PROVE  AInv'
<1>1. /\ requests' \in [Request -> AllRequests] /\ requests'[r] = to
      /\ \A other \in Request \ {r} : requests'[other] = requests[other]
  BY GotoMoves DEF AInv
<1>2. TypeOK' /\ \A a \in Account : Known(a)' => Known(a) /\ users'[a].role = users[a].role
  BY DEF rowVars, AInv, AdminTypeOK, TypeOK, Known
<1> QED BY <1>1, <1>2, StepKeeps DEF Rest, AInv, AdminTypeOK

LEMMA AdminStep == AInv /\ [AdminNext]_adminVars => AInv'
<1> SUFFICES ASSUME AInv, [AdminNext]_adminVars PROVE AInv'
  OBVIOUS
<1>0. /\ TypeOK /\ ordained \subseteq AnyRole /\ checked \in BOOLEAN
      /\ requests \in [Request -> AllRequests]
      /\ \A a \in Account : Known(a) => users[a].role \in AnyRole
  BY DEF AInv, AdminTypeOK, TypeOK, Known, Row, AnyRole
<1>1. ASSUME NEW r \in Request, NEW a \in Account, Begin(r, a) PROVE AInv'
  <2> DEFINE to == Begun(a, users[a].role)
  <2>1. /\ users[a].role \in AnyRole /\ to \in AllRequests /\ to.at = "begun"
        /\ to.role = users[a].role
    BY <1>0, <1>1, Stages DEF Begin, Enabled
  <2>2. Sound(to) /\ (checked => Acts(to, ordained))
    BY <1>1, <2>1, CeilingOf DEF Sound, Acts, Begin, Enabled
  <2> HIDE DEF to
  <2>3. Goto(r, to) /\ UNCHANGED rowVars /\ Rest
    BY <1>1 DEF Begin, to
  <2> QED BY <2>1, <2>2, <2>3, ReadKeeps
<1>2. ASSUME NEW r \in Request, Abandon(r) PROVE AInv'
  <2>1. Sound(Idle) /\ Acts(Idle, ordained)
    BY Stages DEF Sound, Acts
  <2> QED BY <1>2, <2>1, Stages, ReadKeeps DEF Abandon
<1>3. ASSUME NEW r \in Request, NEW target \in Account, NEW want \in Declared,
             ReadForRole(r, target, want)
      PROVE  AInv'
  <2> DEFINE q == requests[r]
  <2> DEFINE held == users[target].role
  <2> DEFINE to == Ready("role", q.role, target, held, want)
  <2>1. /\ q.at = "begun" /\ checked /\ held \in AnyRole
        /\ Editable(q.role, held) /\ IsDeclared(want) /\ Outranks(q.role, want)
    BY <1>0, <1>3 DEF ReadForRole, At, MayWrite, MayHandOut
  <2>2. q.role \in AnyRole
    BY <1>0, <2>1, RequestShapes
  <2>3. /\ to \in AllRequests /\ to.at = "role" /\ to.role = q.role /\ to.held = held
        /\ to.want = want
    BY <2>1, <2>2, ReadyRole
  <2>4. Goto(r, to) /\ UNCHANGED rowVars /\ Rest
    BY <1>3 DEF ReadForRole
  <2>5. Acts(q, ordained)
    BY <2>1, CeilingOf
  <2> HIDE DEF to, held, q
  <2>6. Sound(to) /\ Acts(to, ordained)
    BY <2>1, <2>3, <2>5 DEF Sound, Acts
  <2> QED BY <2>3, <2>4, <2>6, ReadKeeps
<1>4. ASSUME NEW r \in Request, NEW target \in Account, NEW disabled \in BOOLEAN,
             ReadForDisabled(r, target, disabled)
      PROVE  AInv'
  <2> DEFINE q == requests[r]
  <2> DEFINE held == users[target].role
  <2> DEFINE to == Ready("disabled", q.role, target, held, disabled)
  <2>1. /\ q.at = "begun" /\ checked /\ held \in AnyRole
        /\ Editable(q.role, held) /\ (~disabled => IsDeclared(held))
    BY <1>0, <1>4 DEF ReadForDisabled, At, MayWrite
  <2>2. q.role \in AnyRole
    BY <1>0, <2>1, RequestShapes
  <2>3. /\ to \in AllRequests /\ to.at = "disabled" /\ to.role = q.role /\ to.held = held
        /\ to.want = disabled
    BY <2>1, <2>2, ReadyDisabled
  <2>4. Goto(r, to) /\ UNCHANGED rowVars /\ Rest
    BY <1>4 DEF ReadForDisabled
  <2>5. Acts(q, ordained)
    BY <2>1, CeilingOf
  <2> HIDE DEF to, held, q
  <2>6. Sound(to) /\ Acts(to, ordained)
    BY <2>1, <2>3, <2>5 DEF Sound, Acts
  <2> QED BY <2>3, <2>4, <2>6, ReadKeeps
<1>5. ASSUME NEW r \in Request, WriteRole(r) PROVE AInv'
  <2>1. requests[r] \in AllRequests /\ requests[r].at = "role" /\ Goto(r, Idle) /\ Rest
    BY <1>0, <1>5 DEF WriteRole, At
  <2>2. PICK target \in Account, held \in AnyRole, want \in Declared :
           /\ requests[r].target = target /\ requests[r].held = held
           /\ requests[r].want = want
    BY <2>1, RequestShapes
  <2>3. SetUserRole(target, {held}, want, Privileged) /\ want \in AnyRole
    BY <1>5, <2>2, RankAssumption DEF WriteRole, SetUserRole, AnyRole
  <2>4. /\ TypeOK' /\ users'[target].role = want
        /\ \A b \in Account \ {target} : users'[b] = users[b]
    BY <1>0, <2>3, SetUserRoleKeeps
  <2>5. Outranks(requests[r].role, want)
    BY <2>1, <2>2 DEF AInv, Checked, Sound
  <2>6. checked => Below(want, ordained)
    BY <2>1, <2>5, GivenBelow
  <2>7. \A a \in Account : Known(a)' =>
           \/ Known(a) /\ users'[a].role = users[a].role
           \/ checked => Below(users'[a].role, ordained)
    BY <2>4, <2>6 DEF Known
  <2> QED BY <2>1, <2>4, <2>7, IdleKeeps
<1>6. ASSUME NEW r \in Request, WriteDisabled(r) PROVE AInv'
  <2>1. requests[r] \in AllRequests /\ requests[r].at = "disabled" /\ Goto(r, Idle) /\ Rest
    BY <1>0, <1>6 DEF WriteDisabled, At
  <2>2. PICK target \in Account, held \in AnyRole, want \in BOOLEAN :
           /\ requests[r].target = target /\ requests[r].held = held
           /\ requests[r].want = want
    BY <2>1, RequestShapes
  <2>3. SetUserDisabled(target, {held}, want, Privileged)
    BY <1>6, <2>2 DEF WriteDisabled, SetUserDisabled
  <2>4. /\ TypeOK' /\ Known(target) /\ users'[target].role = users[target].role
        /\ \A b \in Account \ {target} : users'[b] = users[b]
    BY <1>0, <2>3, SetUserDisabledKeeps
  <2> QED BY <2>1, <2>4, IdleKeeps DEF Known
<1>7. ASSUME NEW r \in Request, NEW target \in Account, NEW want \in AnyRole,
             WriteRoleUnchecked(r, target, want)
      PROVE  AInv'
  <2>1. ~checked /\ Goto(r, Idle) /\ Rest /\ SetUserRole(target, AnyRole, want, Privileged)
    BY <1>7 DEF WriteRoleUnchecked
  <2>2. TypeOK'
    BY <1>0, <2>1, SetUserRoleKeeps
  <2> QED BY <2>1, <2>2, IdleKeeps
<1>8. ASSUME NEW r \in Request, NEW target \in Account, NEW disabled \in BOOLEAN,
             WriteDisabledUnchecked(r, target, disabled)
      PROVE  AInv'
  <2>1. /\ ~checked /\ Goto(r, Idle) /\ Rest
        /\ SetUserDisabled(target, AnyRole, disabled, Privileged)
    BY <1>8 DEF WriteDisabledUnchecked
  <2>2. TypeOK'
    BY <1>0, <2>1, SetUserDisabledKeeps
  <2> QED BY <2>1, <2>2, IdleKeeps
<1>9. ASSUME NEW r \in Request, NEW target \in Account, NEW want \in AnyRole,
             NEW p \in Password, Create(r, target, want, p)
      PROVE  AInv'
  <2>1. /\ requests[r].at = "begun" /\ MayHandOut(requests[r].role, want)
        /\ Goto(r, Idle) /\ Rest /\ CreateUser(target, want, p)
    BY <1>9 DEF Create, At
  <2>2. /\ TypeOK' /\ users'[target].role = want
        /\ \A b \in Account \ {target} : users'[b] = users[b]
    BY <1>0, <2>1, CreateUserKeeps
  <2>3. checked => Below(want, ordained)
    BY <2>1, GivenBelow DEF MayHandOut
  <2> QED BY <2>1, <2>2, <2>3, IdleKeeps DEF Known
<1>10. ASSUME NEW a \in Account, NEW role \in Commanded, NEW p \in Password,
              Provision(a, role, p)
       PROVE  AInv'
  <2>1. /\ CreateUser(a, role, p) /\ ordained' = ordained \cup {role}
        /\ requests' = requests /\ checked' = checked
    BY <1>10 DEF Provision
  <2>2. role \in AnyRole
    BY RankAssumption DEF AnyRole
  <2>3. /\ TypeOK' /\ users'[a].role = role
        /\ \A b \in Account \ {a} : users'[b] = users[b]
    BY <1>0, <2>1, <2>2, CreateUserKeeps
  <2>4. Below(role, ordained')
    BY <2>1 DEF Below, Outranks
  <2> QED BY <1>0, <2>1, <2>2, <2>3, <2>4, StepKeeps DEF Known
<1>11. ASSUME NEW r \in Request, NEW a \in Account, NEW role \in Commanded,
              FindRoleless(r, a, role)
       PROVE  AInv'
  <2> DEFINE to == Stamping(a, role)
  <2>1. to \in AllRequests /\ to.at = "stamp"
    BY Stages, RankAssumption
  <2>2. Goto(r, to) /\ UNCHANGED rowVars /\ Rest
    BY <1>11 DEF FindRoleless
  <2> HIDE DEF to
  <2>3. Sound(to) /\ Acts(to, ordained)
    BY <2>1 DEF Sound, Acts
  <2> QED BY <2>1, <2>2, <2>3, ReadKeeps
<1>12. ASSUME NEW r \in Request, Stamp(r) PROVE AInv'
  <2>1. requests[r] \in AllRequests /\ requests[r].at = "stamp" /\ Goto(r, Idle)
    BY <1>0, <1>12 DEF Stamp, At
  <2>2. PICK target \in Account, role \in AnyRole :
           requests[r].target = target /\ requests[r].role = role
    BY <2>1, RequestShapes DEF AnyRole
  <2>3. /\ SetUserRole(target, AnyRole, role, {})
        /\ ordained' = ordained \cup {role} /\ checked' = checked
    BY <1>12, <2>2 DEF Stamp, SetUserRole
  <2>4. /\ TypeOK' /\ users'[target].role = role
        /\ \A b \in Account \ {target} : users'[b] = users[b]
    BY <1>0, <2>3, SetUserRoleKeeps
  <2>5. /\ requests' \in [Request -> AllRequests] /\ requests'[r] = Idle
        /\ \A other \in Request \ {r} : requests'[other] = requests[other]
    BY <2>1, GotoMoves, Stages DEF AInv
  <2>6. Sound(Idle) /\ Acts(Idle, ordained') /\ Below(role, ordained')
    BY <2>3, Stages DEF Sound, Acts, Below, Outranks
  <2> QED BY <1>0, <2>3, <2>4, <2>5, <2>6, StepKeeps DEF Known
<1>13. ASSUME NEW role \in Commanded, GrantRole(role) PROVE AInv'
  <2>1. /\ GrantRoleToRoleless(role) /\ ordained' = ordained \cup {role}
        /\ requests' = requests /\ checked' = checked
    BY <1>13 DEF GrantRole
  <2>2. role \in Role /\ role \in AnyRole
    BY RankAssumption DEF AnyRole
  <2>3. /\ TypeOK'
        /\ \A a \in Account : Known(a)' =>
              Known(a) /\ users'[a].role \in {role, users[a].role}
    BY <1>0, <2>1, <2>2, GrantKeeps
  <2>4. Below(role, ordained')
    BY <2>1 DEF Below, Outranks
  <2> QED BY <1>0, <2>1, <2>2, <2>3, <2>4, StepKeeps
<1>14. CASE UNCHANGED adminVars
  BY <1>14 DEF adminVars, rowVars, AInv, AdminTypeOK, TypeOK, Checked, Ceiling, AuthorityCeiling,
               Known
<1> QED
  BY <1>1, <1>2, <1>3, <1>4, <1>5, <1>6, <1>7, <1>8, <1>9, <1>10, <1>11, <1>12, <1>13, <1>14
     DEF AdminNext, Handle, Commands

LEMMA AdminInvariant == AdminSpec => []AInv
BY AInitHolds, AdminStep, PTL DEF AdminSpec

\* A request that is ready to write carries what its checks left it with.
THEOREM AdminTypes == AdminSpec => []AdminTypeOK
<1>1. AInv => AdminTypeOK
  BY DEF AInv
<1> QED BY <1>1, AdminInvariant, PTL

\* Under a role source nobody administers their way up, through any chain of hand-outs of
\* any number of requests in flight.
THEOREM NobodyRises == AdminSpec => []AuthorityCeiling
<1>1. AInv => AuthorityCeiling
  BY DEF AInv, Ceiling
<1> QED BY <1>1, AdminInvariant, PTL

-----------------------------------------------------------------------------
\* Only a request of its own moves a request.
LEMMA OthersStay ==
    ASSUME AdminTypeOK, NEW r \in Request, NEW other \in Request \ {r}, NEW to, Goto(r, to)
    PROVE  requests'[other] = requests[other]
BY DEF AdminTypeOK, Goto

\* The accounts change while a request that was ready to write comes to rest: the request
\* wrote them, and nothing else.
LEMMA OwnWrite ==
    ASSUME AdminTypeOK, [AdminNext]_adminVars, NEW r \in Request,
           requests[r].at \in {"role", "disabled"}, users # users', requests'[r] = Idle
    PROVE  WriteRole(r) \/ WriteDisabled(r)
<1> SUFFICES ASSUME ~WriteRole(r), ~WriteDisabled(r) PROVE FALSE
  OBVIOUS
<1>0. requests[r] # Idle /\ requests[r].at \notin {"idle", "begun", "stamp"}
  BY DEF Idle
<1>1. ASSUME NEW by \in Request, NEW to, Goto(by, to) PROVE by = r
  BY <1>0, <1>1, OthersStay
<1>2. ASSUME NEW by \in Request, NEW a \in Account, Begin(by, a) PROVE FALSE
  BY <1>0, <1>1, <1>2 DEF Begin, At
<1>3. ASSUME NEW by \in Request, Abandon(by) PROVE FALSE
  BY <1>3 DEF Abandon, rowVars
<1>4. ASSUME NEW by \in Request, Handle(by) PROVE FALSE
  <2>1. ASSUME NEW target \in Account, NEW want \in Declared, ReadForRole(by, target, want)
        PROVE  FALSE
    BY <2>1 DEF ReadForRole, rowVars
  <2>2. ASSUME NEW target \in Account, NEW disabled \in BOOLEAN,
               ReadForDisabled(by, target, disabled)
        PROVE  FALSE
    BY <2>2 DEF ReadForDisabled, rowVars
  <2>3. ASSUME WriteRole(by) \/ WriteDisabled(by) PROVE FALSE
    BY <1>1, <2>3 DEF WriteRole, WriteDisabled
  <2>4. ASSUME NEW target \in Account, NEW want \in AnyRole, WriteRoleUnchecked(by, target, want)
        PROVE  FALSE
    BY <1>0, <1>1, <2>4 DEF WriteRoleUnchecked, At
  <2>5. ASSUME NEW target \in Account, NEW disabled \in BOOLEAN,
               WriteDisabledUnchecked(by, target, disabled)
        PROVE  FALSE
    BY <1>0, <1>1, <2>5 DEF WriteDisabledUnchecked, At
  <2>6. ASSUME NEW target \in Account, NEW want \in AnyRole, NEW p \in Password,
               Create(by, target, want, p)
        PROVE  FALSE
    BY <1>0, <1>1, <2>6 DEF Create, At
  <2> QED BY <1>4, <2>1, <2>2, <2>3, <2>4, <2>5, <2>6 DEF Handle
<1>5. ASSUME Commands PROVE FALSE
  <2>1. ASSUME NEW a \in Account, NEW role \in Commanded, NEW p \in Password,
               Provision(a, role, p)
        PROVE  FALSE
    BY <1>0, <2>1 DEF Provision
  <2>2. ASSUME NEW by \in Request, NEW a \in Account, NEW role \in Commanded,
               FindRoleless(by, a, role)
        PROVE  FALSE
    BY <2>2 DEF FindRoleless, rowVars
  <2>3. ASSUME NEW by \in Request, Stamp(by) PROVE FALSE
    BY <1>0, <1>1, <2>3 DEF Stamp, At
  <2>4. ASSUME NEW role \in Commanded, GrantRole(role) PROVE FALSE
    BY <1>0, <2>4 DEF GrantRole
  <2> QED BY <1>5, <2>1, <2>2, <2>3, <2>4 DEF Commands
<1>6. CASE UNCHANGED adminVars
  BY <1>6 DEF adminVars, rowVars
<1> QED BY <1>2, <1>3, <1>4, <1>5, <1>6 DEF AdminNext

\* What SetRole and SetDisabled write was checked against the role the account has at that
\* moment, whatever other requests did since it was read.
THEOREM WritesWithinAuthority == AdminSpec => WriteWithinAuthority
<1>1. ASSUME AInv, [AdminNext]_adminVars, NEW r \in Request,
             requests[r].at \in {"role", "disabled"}, users # users', requests'[r] = Idle
      PROVE  LET q == requests[r]  held == users[q.target].role  now == users'[q.target]
             IN  /\ Editable(q.role, held)
                 /\ now.role # held => IsDeclared(now.role) /\ Outranks(q.role, now.role)
                 /\ users[q.target].disabled /\ ~now.disabled => IsDeclared(held)
  <2>0. TypeOK /\ Sound(requests[r]) /\ requests[r] \in AllRequests
    BY <1>1 DEF AInv, AdminTypeOK, Checked
  <2>1. CASE WriteRole(r)
    <3>1. requests[r].at = "role"
      BY <2>1 DEF WriteRole, At
    <3>2. PICK target \in Account, held \in AnyRole, want \in Declared :
             /\ requests[r].target = target /\ requests[r].held = held
             /\ requests[r].want = want
      BY <2>0, <3>1, RequestShapes
    <3>3. SetUserRole(target, {held}, want, Privileged) /\ want \in AnyRole
      BY <2>1, <3>2, RankAssumption DEF WriteRole, SetUserRole, AnyRole
    <3>4. /\ users[target].role = held /\ users[target] \in Row
          /\ users'[target] = [users[target] EXCEPT !.role = want]
      BY <2>0, <3>3, SetUserRoleKeeps DEF SetUserRole
    <3>5. users'[target].role = want /\ users'[target].disabled = users[target].disabled
      BY <3>4 DEF Row
    <3> QED BY <2>0, <3>1, <3>2, <3>4, <3>5 DEF Sound
  <2>2. CASE WriteDisabled(r)
    <3>1. requests[r].at = "disabled"
      BY <2>2 DEF WriteDisabled, At
    <3>2. PICK target \in Account, held \in AnyRole, want \in BOOLEAN :
             /\ requests[r].target = target /\ requests[r].held = held
             /\ requests[r].want = want
      BY <2>0, <3>1, RequestShapes
    <3>3. SetUserDisabled(target, {held}, want, Privileged)
      BY <2>2, <3>2 DEF WriteDisabled, SetUserDisabled
    <3>4. /\ users[target].role = held /\ users[target] \in Row
          /\ users'[target] = [users[target] EXCEPT !.disabled = want]
      BY <2>0, <3>3, SetUserDisabledKeeps DEF SetUserDisabled
    <3>5. users'[target].role = held /\ users'[target].disabled = want
      BY <3>4 DEF Row
    <3> QED BY <2>0, <3>1, <3>2, <3>4, <3>5 DEF Sound
  <2>3. WriteRole(r) \/ WriteDisabled(r)
    BY <1>1, OwnWrite DEF AInv
  <2> QED BY <2>1, <2>2, <2>3
<1>2. AInv /\ [AdminNext]_adminVars =>
         [\A r \in Request :
             requests[r].at \in {"role", "disabled"} /\ users # users' /\ requests'[r] = Idle =>
                LET q == requests[r]  held == users[q.target].role  now == users'[q.target]
                IN  /\ Editable(q.role, held)
                    /\ now.role # held => IsDeclared(now.role) /\ Outranks(q.role, now.role)
                    /\ users[q.target].disabled /\ ~now.disabled => IsDeclared(held)]_adminVars
  BY <1>1
<1> QED BY <1>2, AdminInvariant, PTL DEF AdminSpec, WriteWithinAuthority

-----------------------------------------------------------------------------
\* A guarded write of one account leaves a covering one, itself or another.
LEMMA CoverKept ==
    ASSUME NEW P, Covered(P), NEW a \in Account, NEW removes \in BOOLEAN,
           KeepsCover(a, P, removes), ~removes /\ Covers(a, P) => Covers(a, P)',
           \A b \in Account \ {a} : users'[b] = users[b]
    PROVE  Covered(P)'
BY DEF Covered, Covers, KeepsCover, Enabled, Known

LEMMA RoleKeepsCover ==
    ASSUME TypeOK, NEW P, Covered(P), NEW a \in Account, NEW from, NEW role \in AnyRole,
           SetUserRole(a, from, role, P)
    PROVE  Covered(P)'
<1> DEFINE removes == ~Holds(P, role)
<1>1. KeepsCover(a, P, removes) /\ \A b \in Account \ {a} : users'[b] = users[b]
  BY SetUserRoleKeeps DEF SetUserRole
<1>2. /\ users[a] \in Row /\ Known(a)' /\ users'[a] = [users[a] EXCEPT !.role = role]
  BY SetUserRoleKeeps
<1>3. users'[a].role = role /\ users'[a].disabled = users[a].disabled
  BY <1>2 DEF Row
<1>4. ~removes /\ Covers(a, P) => Covers(a, P)'
  BY <1>2, <1>3 DEF Covers, Enabled, Holds
<1> HIDE DEF removes
<1> QED BY <1>1, <1>4, CoverKept DEF removes

LEMMA DisabledKeepsCover ==
    ASSUME TypeOK, NEW P, Covered(P), NEW a \in Account, NEW from, NEW disabled \in BOOLEAN,
           SetUserDisabled(a, from, disabled, P)
    PROVE  Covered(P)'
<1>1. KeepsCover(a, P, disabled) /\ \A b \in Account \ {a} : users'[b] = users[b]
  BY SetUserDisabledKeeps DEF SetUserDisabled
<1>2. /\ users[a] \in Row /\ Known(a)' /\ users'[a] = [users[a] EXCEPT !.disabled = disabled]
  BY SetUserDisabledKeeps
<1>3. users'[a].role = users[a].role /\ users'[a].disabled = disabled
  BY <1>2 DEF Row
<1>4. ~disabled /\ Covers(a, P) => Covers(a, P)'
  BY <1>2, <1>3 DEF Covers, Enabled
<1> QED BY <1>1, <1>4, CoverKept

\* A write that takes no role and disables nobody.
LEMMA UncoversNone ==
    ASSUME NEW P, Covered(P), \A a \in Account : Covers(a, P) => Covers(a, P)'
    PROVE  Covered(P)'
BY DEF Covered

\* Administrators who demote and disable each other at once leave one: the last cover goes
\* only to an EnsureAdmin that stamps a role over the one its account was given since.  The
\* empty role must not be privileged: RunGrantRole replaces it under no guard.
THEOREM OnlyStaleStampUncovers ==
    ASSUME NoRole \notin Privileged
    PROVE  AdminSpec => CoverLostOnlyToStaleStamp
<1>1. ASSUME AInv, [AdminNext]_adminVars, Covered(Privileged), ~Covered(Privileged)'
      PROVE  \E r \in Request : /\ requests[r].at = "stamp"
                                /\ requests[r].role \notin Privileged
                                /\ Covers(requests[r].target, Privileged)
  <2>0. TypeOK /\ \A r \in Request : requests[r] \in AllRequests
    BY <1>1 DEF AInv, AdminTypeOK
  <2>1. users' # users
    BY <1>1 DEF Covered, Covers, Enabled, Known
  <2>2. ASSUME NEW a \in Account, NEW role \in AnyRole, NEW p \in Password, CreateUser(a, role, p)
        PROVE  FALSE
    <3>1. ~Known(a) /\ \A b \in Account \ {a} : users'[b] = users[b]
      BY <2>0, <2>2, CreateUserKeeps
    <3> QED BY <1>1, <3>1 DEF Covered, Covers, Enabled, Known
  <2>3. ASSUME NEW r \in Request, WriteRole(r) PROVE FALSE
    <3>1. requests[r].at = "role"
      BY <2>3 DEF WriteRole, At
    <3>2. PICK target \in Account, held \in AnyRole, want \in Declared :
             /\ requests[r].target = target /\ requests[r].held = held
             /\ requests[r].want = want
      BY <2>0, <3>1, RequestShapes
    <3>3. SetUserRole(target, {held}, want, Privileged) /\ want \in AnyRole
      BY <2>3, <3>2, RankAssumption DEF WriteRole, SetUserRole, AnyRole
    <3> QED BY <1>1, <2>0, <3>3, RoleKeepsCover
  <2>4. ASSUME NEW r \in Request, WriteDisabled(r) PROVE FALSE
    <3>1. requests[r].at = "disabled"
      BY <2>4 DEF WriteDisabled, At
    <3>2. PICK target \in Account, held \in AnyRole, want \in BOOLEAN :
             /\ requests[r].target = target /\ requests[r].held = held
             /\ requests[r].want = want
      BY <2>0, <3>1, RequestShapes
    <3>3. SetUserDisabled(target, {held}, want, Privileged)
      BY <2>4, <3>2 DEF WriteDisabled, SetUserDisabled
    <3> QED BY <1>1, <2>0, <3>3, DisabledKeepsCover
  <2>5. ASSUME NEW r \in Request, Handle(r) PROVE FALSE
    <3>1. ASSUME NEW target \in Account, NEW want \in Declared, ReadForRole(r, target, want)
          PROVE  FALSE
      BY <2>1, <3>1 DEF ReadForRole, rowVars
    <3>2. ASSUME NEW target \in Account, NEW disabled \in BOOLEAN,
                 ReadForDisabled(r, target, disabled)
          PROVE  FALSE
      BY <2>1, <3>2 DEF ReadForDisabled, rowVars
    <3>3. ASSUME NEW target \in Account, NEW want \in AnyRole,
                 WriteRoleUnchecked(r, target, want)
          PROVE  FALSE
      BY <1>1, <2>0, <3>3, RoleKeepsCover DEF WriteRoleUnchecked
    <3>4. ASSUME NEW target \in Account, NEW disabled \in BOOLEAN,
                 WriteDisabledUnchecked(r, target, disabled)
          PROVE  FALSE
      BY <1>1, <2>0, <3>4, DisabledKeepsCover DEF WriteDisabledUnchecked
    <3>5. ASSUME NEW target \in Account, NEW want \in AnyRole, NEW p \in Password,
                 Create(r, target, want, p)
          PROVE  FALSE
      BY <2>2, <3>5 DEF Create
    <3> QED BY <2>3, <2>4, <2>5, <3>1, <3>2, <3>3, <3>4, <3>5 DEF Handle
  <2>6. ASSUME NEW r \in Request, Stamp(r)
        PROVE  /\ requests[r].at = "stamp" /\ requests[r].role \notin Privileged
               /\ Covers(requests[r].target, Privileged)
    <3>1. requests[r].at = "stamp"
      BY <2>6 DEF Stamp, At
    <3>2. PICK target \in Account, role \in AnyRole :
             requests[r].target = target /\ requests[r].role = role
      BY <2>0, <3>1, RequestShapes DEF AnyRole
    <3>3. SetUserRole(target, AnyRole, role, {})
      BY <2>6, <3>2 DEF Stamp, SetUserRole
    <3>4. /\ users[target] \in Row /\ Known(target)'
          /\ users'[target] = [users[target] EXCEPT !.role = role]
          /\ \A b \in Account \ {target} : users'[b] = users[b]
      BY <2>0, <3>3, SetUserRoleKeeps
    <3>5. users'[target].role = role /\ users'[target].disabled = users[target].disabled
      BY <3>4 DEF Row
    <3>6. \A b \in Account \ {target} : Covers(b, Privileged) => Covers(b, Privileged)'
      BY <3>4 DEF Covers, Enabled, Known
    <3>7. Covers(target, Privileged) /\ role \in Privileged => Covers(target, Privileged)'
      BY <3>4, <3>5 DEF Covers, Enabled
    <3>8. Covers(target, Privileged) /\ role \notin Privileged
      BY <1>1, <3>6, <3>7 DEF Covered
    <3> QED BY <3>1, <3>2, <3>8 DEF Covers, Enabled, Known
  <2>7. ASSUME NEW role \in Commanded, GrantRole(role) PROVE FALSE
    <3>1. GrantRoleToRoleless(role) /\ role \in Role
      BY <2>7, RankAssumption DEF GrantRole
    <3>2. \A a \in Account : Covers(a, Privileged) => Covers(a, Privileged)'
      BY <2>0, <3>1, GrantKeeps DEF Covers, Enabled
    <3> QED BY <1>1, <3>2, UncoversNone
  <2>8. ASSUME Commands
        PROVE  \E r \in Request : Stamp(r)
    <3>1. ASSUME NEW a \in Account, NEW role \in Commanded, NEW p \in Password,
                 Provision(a, role, p)
          PROVE  FALSE
      BY <2>2, <3>1, RankAssumption DEF Provision, AnyRole
    <3>2. ASSUME NEW r \in Request, NEW a \in Account, NEW role \in Commanded,
                 FindRoleless(r, a, role)
          PROVE  FALSE
      BY <2>1, <3>2 DEF FindRoleless, rowVars
    <3> QED BY <2>7, <2>8, <3>1, <3>2 DEF Commands
  <2>9. ASSUME NEW r \in Request, NEW a \in Account, Begin(r, a) PROVE FALSE
    BY <2>1, <2>9 DEF Begin, rowVars
  <2>10. ASSUME NEW r \in Request, Abandon(r) PROVE FALSE
    BY <2>1, <2>10 DEF Abandon, rowVars
  <2>11. ~UNCHANGED adminVars
    BY <2>1 DEF adminVars, rowVars
  <2> QED BY <1>1, <2>5, <2>6, <2>8, <2>9, <2>10, <2>11 DEF AdminNext
<1>2. AInv /\ [AdminNext]_adminVars =>
         [Covered(Privileged) /\ ~Covered(Privileged)' =>
             \E r \in Request : /\ requests[r].at = "stamp"
                                /\ requests[r].role \notin Privileged
                                /\ Covers(requests[r].target, Privileged)]_adminVars
  BY <1>1
<1> QED BY <1>2, AdminInvariant, PTL DEF AdminSpec, CoverLostOnlyToStaleStamp
=============================================================================
