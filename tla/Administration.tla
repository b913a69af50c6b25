--------------------------- MODULE Administration ---------------------------
(***************************************************************************)
(* Administration over HTTP (authkit/admin.go, authkit/role.go) and the    *)
(* operator's commands beside it (EnsureAdmin, CreateAdmin, grantrole).    *)
(*                                                                         *)
(* RequireSession reads the actor's role once and the handler works from   *)
(* that reading.  A handler with a role source then reads the role its     *)
(* target holds, checks both, and writes in a third step, which the store  *)
(* refuses when the target's role is no longer the one checked.  EnsureAdmin *)
(* reads an account as roleless and stamps its role in a later step, with  *)
(* no check.  Requests interleave at every one of these steps.             *)
(***************************************************************************)
EXTENDS AccountStore

CONSTANTS
    Request,        \* the requests and commands in flight at once
    Privileged,     \* AdminConfig.Privileged
    Declared,       \* the roles the role source knows
    Commanded,      \* the roles the operator's commands are run with
    Carries         \* the capabilities of each role, on which the source ranks them

AnyRole == Role \cup {NoRole}

ASSUME PrivilegedAssumption == Guards = {Privileged}

\* What the role source does not know carries nothing.
ASSUME RankAssumption ==
    /\ Declared \subseteq Role /\ Commanded \subseteq Role
    /\ \A r \in AnyRole \ Declared : Carries[r] = {}

VARIABLES
    requests,       \* each request in flight
    checked,        \* whether AdminConfig.Roles is set, from construction on
    ordained        \* history: the roles an operator gave, and the empty one

adminVars == <<rowVars, requests, checked, ordained>>

Idle == [at |-> "idle"]
Begun(a, role) == [at |-> "begun", actor |-> a, role |-> role]

\* A fault: two adjacent string arguments of SetAccountRoleFrom swapped.
ReadySwapped(op, role, target, held, want) ==
    [at |-> op, role |-> role, target |-> target, held |-> want, want |-> held]

Ready(op, role, target, held, want) ==
    [at |-> op, role |-> role, target |-> target, held |-> held, want |-> want]
Stamping(target, role) == [at |-> "stamp", target |-> target, role |-> role]

AllRequests ==
    {Idle}
    \cup [at : {"begun"}, actor : Account, role : AnyRole]
    \cup [at : {"stamp"}, target : Account, role : Role]
    \cup [at : {"role"}, role : AnyRole, target : Account, held : AnyRole, want : Declared]
    \cup [at : {"disabled"}, role : AnyRole, target : Account, held : AnyRole, want : BOOLEAN]

-----------------------------------------------------------------------------
\* RoleSource.Outranks: the caller carries every capability the target carries.
Outranks(caller, target) == Carries[target] \subseteq Carries[caller]

\* declared, under a role source.
IsDeclared(role) == role \in Declared

\* editable: an undeclared role stands in nobody's way.
Editable(reader, held) == ~IsDeclared(held) \/ Outranks(reader, held)

\* A fault: a hand-out that asks only whether the role exists.
MayHandOutDeclared(actor, role) == checked => IsDeclared(role)

\* refuseHandout lets the actor give the role.
MayHandOut(actor, role) == checked => IsDeclared(role) /\ Outranks(actor, role)

\* heldRefusal finds nothing against a write to an account that holds held.
MayWrite(actor, held, reenable) ==
    Editable(actor, held) /\ (reenable => IsDeclared(held))

\* refuseUnprivileged admits the actor.
Admitted(role) == Privileged = {} \/ Holds(Privileged, role)

\* selfDisabling
SelfDisabling(actor, target, disabled) == disabled /\ actor = target

At(r, stage) == requests[r].at = stage
Goto(r, to) == requests' = [requests EXCEPT ![r] = to]

Rest == UNCHANGED <<checked, ordained>>

-----------------------------------------------------------------------------
\* Confirmed accounts under any roles, empty ones from before there were roles among them.
AdminInit ==
    /\ users \in [Account -> {NoAccount} \cup
                             {NewRow(role, p) : role \in AnyRole, p \in Password}]
    /\ ordained = {NoRole} \cup {users[a].role : a \in {b \in Account : Known(b)}}
    /\ sessions = {} /\ tokens = {} /\ minted = {} /\ clock = 0
    /\ requests = [r \in Request |-> Idle]
    /\ checked \in BOOLEAN

\* RequireSession passes on the identity of an enabled account, whose session may end or
\* whose role may change from here on; the handler refuses an unprivileged one.
Begin(r, a) ==
    /\ At(r, "idle")
    /\ Enabled(a)
    /\ Admitted(users[a].role)
    /\ Goto(r, Begun(a, users[a].role))
    /\ UNCHANGED rowVars /\ Rest

\* A refusal, an error of the store, or a client that has gone.
Abandon(r) ==
    /\ ~At(r, "idle")
    /\ Goto(r, Idle)
    /\ UNCHANGED rowVars /\ Rest

\* SetRole: roleChangeHeld, with checkRoleChange, which only reads the request.
ReadForRole(r, target, want) ==
    /\ At(r, "begun") /\ checked
    /\ Known(target)
    /\ MayWrite(requests[r].role, users[target].role, FALSE)
    /\ MayHandOut(requests[r].role, want)
    /\ target # requests[r].actor
    /\ Goto(r, Ready("role", requests[r].role, target, users[target].role, want))
    /\ UNCHANGED rowVars /\ Rest

\* SetDisabled: heldEditable, with selfDisabling, which only reads the request.
ReadForDisabled(r, target, disabled) ==
    /\ At(r, "begun") /\ checked
    /\ Known(target)
    /\ MayWrite(requests[r].role, users[target].role, ~disabled)
    /\ ~SelfDisabling(requests[r].actor, target, disabled)
    /\ Goto(r, Ready("disabled", requests[r].role, target, users[target].role, disabled))
    /\ UNCHANGED rowVars /\ Rest

\* A fault: the handler writes with SetUserRole, whatever role the account has by now.
WriteRoleUnheld(r) ==
    /\ At(r, "role")
    /\ SetUserRole(requests[r].target, AnyRole, requests[r].want, Privileged)
    /\ Goto(r, Idle)
    /\ Rest

\* A fault: the checked write is handed no privileged list.
WriteRoleUnguarded(r) ==
    /\ At(r, "role")
    /\ SetUserRole(requests[r].target, {requests[r].held}, requests[r].want, {})
    /\ Goto(r, Idle)
    /\ Rest

\* SetAccountRoleFrom: the store refuses the write once the role left held.
WriteRole(r) ==
    /\ At(r, "role")
    /\ SetUserRole(requests[r].target, {requests[r].held}, requests[r].want, Privileged)
    /\ Goto(r, Idle)
    /\ Rest

\* SetAccountDisabledFrom
WriteDisabled(r) ==
    /\ At(r, "disabled")
    /\ SetUserDisabled(requests[r].target, {requests[r].held}, requests[r].want, Privileged)
    /\ Goto(r, Idle)
    /\ Rest

\* Without a role source SetRole is SetAccountRole, guarded alone.
WriteRoleUnchecked(r, target, want) ==
    /\ At(r, "begun") /\ ~checked
    /\ target # requests[r].actor
    /\ SetUserRole(target, AnyRole, want, Privileged)
    /\ Goto(r, Idle)
    /\ Rest

\* Without a role source SetDisabled is SetAccountDisabled.
WriteDisabledUnchecked(r, target, disabled) ==
    /\ At(r, "begun") /\ ~checked
    /\ ~SelfDisabling(requests[r].actor, target, disabled)
    /\ SetUserDisabled(target, AnyRole, disabled, Privileged)
    /\ Goto(r, Idle)
    /\ Rest

\* Create: refuseHandout, then CreateAccount.
Create(r, target, want, password) ==
    /\ At(r, "begun")
    /\ MayHandOut(requests[r].role, want)
    /\ CreateUser(target, want, password)
    /\ Goto(r, Idle)
    /\ Rest

-----------------------------------------------------------------------------
\* A fresh account under a role: EnsureAdmin, CreateAdmin and createadmin's RunCreateAdmin.
Provision(a, role, password) ==
    /\ CreateUser(a, role, password)
    /\ ordained' = ordained \cup {role}
    /\ UNCHANGED <<requests, checked>>

\* EnsureAdmin found the address taken and reads the account that holds it.
FindRoleless(r, a, role) ==
    /\ At(r, "idle")
    /\ Known(a) /\ users[a].role = NoRole
    /\ Goto(r, Stamping(a, role))
    /\ UNCHANGED rowVars /\ Rest

\* stampRoleless writes with no privileged list and without asking for the role it read.
Stamp(r) ==
    /\ At(r, "stamp")
    /\ SetUserRole(requests[r].target, AnyRole, requests[r].role, {})
    /\ ordained' = ordained \cup {requests[r].role}
    /\ Goto(r, Idle)
    /\ UNCHANGED checked

\* RunGrantRole
GrantRole(role) ==
    /\ GrantRoleToRoleless(role)
    /\ ordained' = ordained \cup {role}
    /\ UNCHANGED <<requests, checked>>

-----------------------------------------------------------------------------
Handle(r) ==
    \/ \E target \in Account, want \in Declared : ReadForRole(r, target, want)
    \/ \E target \in Account, disabled \in BOOLEAN : ReadForDisabled(r, target, disabled)
    \/ WriteRole(r) \/ WriteDisabled(r)
    \/ \E target \in Account, want \in AnyRole : WriteRoleUnchecked(r, target, want)
    \/ \E target \in Account, disabled \in BOOLEAN : WriteDisabledUnchecked(r, target, disabled)
    \/ \E target \in Account, want \in AnyRole, p \in Password : Create(r, target, want, p)

Commands ==
    \/ \E a \in Account, role \in Commanded, p \in Password : Provision(a, role, p)
    \/ \E r \in Request, a \in Account, role \in Commanded : FindRoleless(r, a, role)
    \/ \E r \in Request : Stamp(r)
    \/ \E role \in Commanded : GrantRole(role)

AdminNext ==
    \/ \E r \in Request :
          \/ \E a \in Account : Begin(r, a)
          \/ Abandon(r) \/ Handle(r)
    \/ Commands

AdminSpec == AdminInit /\ [][AdminNext]_adminVars

-----------------------------------------------------------------------------
\* Every variable holds what it can hold, and a request that is ready to write was checked
\* against its actor's role.
AdminTypeOK ==
    /\ TypeOK
    /\ requests \in [Request -> AllRequests]
    /\ checked \in BOOLEAN
    /\ ordained \subseteq AnyRole

\* A write of SetRole or SetDisabled lands only on an account whose role, at that moment,
\* the actor outranks or nobody declares, gives only a role the actor outranks, and
\* re-enables only a declared one: whatever other requests did since the account was read.
WriteWithinAuthority ==
    [][\A r \in Request :
         requests[r].at \in {"role", "disabled"} /\ users # users' /\ requests'[r] = Idle =>
            LET q == requests[r]  held == users[q.target].role  now == users'[q.target]
            IN  /\ Editable(q.role, held)
                /\ now.role # held => IsDeclared(now.role) /\ Outranks(q.role, now.role)
                /\ users[q.target].disabled /\ ~now.disabled => IsDeclared(held)]_adminVars

\* Under a role source nobody administers their way up: every declared role an account
\* holds or a request acts under is outranked by one an operator gave, through any chain
\* of hand-outs, demotions in flight included.
AuthorityCeiling ==
    checked =>
        LET Below(role) == \E o \in ordained : Outranks(o, role)
        IN  /\ \A a \in Account : Known(a) /\ IsDeclared(users[a].role) => Below(users[a].role)
            /\ \A r \in Request :
                  requests[r].at \in {"begun", "role", "disabled"}
                      /\ IsDeclared(requests[r].role) => Below(requests[r].role)

\* The last cover goes in one way only: EnsureAdmin stamps an unprivileged role over a
\* privileged one that its account was given since EnsureAdmin read it as roleless.  Two
\* administrators who demote or disable each other at once leave one.
CoverLostOnlyToStaleStamp ==
    [][Covered(Privileged) /\ ~Covered(Privileged)' =>
         \E r \in Request :
            /\ requests[r].at = "stamp"
            /\ requests[r].role \notin Privileged
            /\ Covers(requests[r].target, Privileged)]_adminVars
=============================================================================
