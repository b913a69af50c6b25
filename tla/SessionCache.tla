---------------------------- MODULE SessionCache ----------------------------
(***************************************************************************)
(* The login session as one browser tab caches it (react-auth/src/         *)
(* session.ts, queryClient.ts, api.ts and admin/index.ts): the query cache *)
(* of TanStack Query, which is not in this repository, holds the session   *)
(* and the list of accounts; every request carries the cookie the jar held *)
(* when it left, and its answer is taken whenever it arrives.  Between two *)
(* awaits anything else may run.                                           *)
(*                                                                         *)
(* A cached value is named by the login whose cookie fetched it.  Another  *)
(* tab shares the jar and not the cache.                                   *)
(***************************************************************************)
EXTENDS FiniteSets

CONSTANTS
    Login,          \* the logins there may be
    Call,           \* the requests in flight that no query makes
    NoLogin,        \* an empty jar
    None,           \* null: the cached session of nobody
    Unknown         \* undefined: nothing cached

ASSUME MarkAssumption == {NoLogin, None, Unknown} \cap Login = {}

VARIABLES
    jar,            \* the login whose cookie the browser holds
    accepted,       \* the logins the server still accepts
    session,        \* the data of the session query
    users,          \* the data of the users query
    fetch,          \* the request of each query
    calls,          \* the requests of the mutations and bulk actions
    drawn,          \* history: the logins ever opened
    astray          \* history: the jar changed behind the tab, and no login or logout since

vars == <<jar, accepted, session, users, fetch, calls, drawn, astray>>

Query == {"session", "users"}
Cookie == Login \cup {NoLogin}
Idle == [at |-> "idle"]
Request == [at : {"sent"}, cookie : Cookie]
Answer == [at : {"answered"}, cookie : Cookie, login : Login \cup {None}]
Kind == {"write", "update", "login", "logout"}
Stage == {"sent", "answered", "landed", "settling"}

Sent == [at |-> "sent", cookie |-> jar]
Answered(request) ==
    [at |-> "answered", cookie |-> request.cookie,
     login |-> IF request.cookie \in accepted THEN request.cookie ELSE None]

Open(m) == calls[m] # Idle
At(m, stage) == calls[m].at = stage
Is(m, kinds, stage) == Open(m) /\ calls[m].kind \in kinds /\ At(m, stage)
Goto(m, stage) == calls' = [calls EXCEPT ![m].at = stage]
End(m) == calls' = [calls EXCEPT ![m] = Idle]
Ask(q) == [fetch EXCEPT ![q] = Sent]
Dropped(q) == [fetch EXCEPT ![q] = Idle]

\* AuthGate shows the application, and with it the accounts, only to a cached user.
Shown == session \in Login
Observed(q) == q = "session" \/ Shown
Ready(q) == fetch[q].at = "answered"
Refused(q) == Ready(q) /\ fetch[q].login = None

Init ==
    /\ jar = NoLogin /\ accepted = {} /\ drawn = {} /\ astray = FALSE
    /\ session = Unknown /\ users = Unknown
    /\ fetch = [q \in Query |-> Idle]
    /\ calls = [m \in Call |-> Idle]

-----------------------------------------------------------------------------
\* A mount, a focus or an invalidation asks for an observed query.
Fetch(q) ==
    /\ Observed(q)
    /\ fetch[q] = Idle
    /\ fetch' = Ask(q)
    /\ UNCHANGED <<jar, accepted, session, users, calls, drawn, astray>>

\* RequireSession answers a request by its cookie.
Serve(q) ==
    /\ fetch[q].at = "sent"
    /\ fetch' = [fetch EXCEPT ![q] = Answered(fetch[q])]
    /\ UNCHANGED <<jar, accepted, session, users, calls, drawn, astray>>

\* fetchSession: a 401 is the answer null and no error.
TakeSession ==
    /\ Ready("session")
    /\ session' = fetch["session"].login
    /\ fetch' = Dropped("session")
    /\ UNCHANGED <<jar, accepted, users, calls, drawn, astray>>

\* fetchUsers.
TakeUsers ==
    /\ Ready("users") /\ ~Refused("users")
    /\ users' = fetch["users"].login
    /\ fetch' = Dropped("users")
    /\ UNCHANGED <<jar, accepted, session, calls, drawn, astray>>

\* dropExpiredSession, for a query that gives up on a 401.
DropForQuery ==
    /\ Refused("users")
    /\ session' = None
    /\ fetch' = Dropped("users")
    /\ UNCHANGED <<jar, accepted, users, calls, drawn, astray>>

\* The query asks again before it reports the error, with the cookie of then.
Retry ==
    /\ Refused("users")
    /\ fetch' = Ask("users")
    /\ UNCHANGED <<jar, accepted, session, users, calls, drawn, astray>>

\* A fault: dropExpiredSession for an error of any kind.
FailFetchDropping(q) ==
    /\ fetch[q].at = "sent"
    /\ session' = None
    /\ fetch' = Dropped(q)
    /\ UNCHANGED <<jar, accepted, users, calls, drawn, astray>>

\* Any other failure of a query keeps what is cached.
FailFetch(q) ==
    /\ fetch[q].at = "sent"
    /\ fetch' = Dropped(q)
    /\ UNCHANGED <<jar, accepted, session, users, calls, drawn, astray>>

-----------------------------------------------------------------------------
\* The application begins a write: one react-query knows (an invitation, a new account),
\* or one of a bulk action (a role, the disabled flag), or a logout.
Begin(m, kind) ==
    /\ Shown
    /\ ~Open(m)
    /\ calls' = [calls EXCEPT ![m] =
                    [at |-> "sent", kind |-> kind, cookie |-> jar, ok |-> FALSE]]
    /\ UNCHANGED <<jar, accepted, session, users, fetch, drawn, astray>>

\* The login screen sends one login at a time.
BeginLogin(m) ==
    /\ session = None
    /\ ~Open(m)
    /\ \A n \in Call : Open(n) => calls[n].kind # "login"
    /\ calls' = [calls EXCEPT ![m] =
                    [at |-> "sent", kind |-> "login", cookie |-> NoLogin, ok |-> FALSE]]
    /\ UNCHANGED <<jar, accepted, session, users, fetch, drawn, astray>>

\* The server answers a write by its cookie.
ServeWrite(m) ==
    /\ Is(m, {"write", "update"}, "sent")
    /\ calls' = [calls EXCEPT ![m].at = "answered",
                              ![m].ok = calls[m].cookie \in accepted]
    /\ UNCHANGED <<jar, accepted, session, users, fetch, drawn, astray>>

\* Login opens a session.
ServeLogin(m, login) ==
    /\ Is(m, {"login"}, "sent")
    /\ login \notin drawn
    /\ accepted' = accepted \cup {login}
    /\ drawn' = drawn \cup {login}
    /\ calls' = [calls EXCEPT ![m].at = "answered", ![m].cookie = login, ![m].ok = TRUE]
    /\ UNCHANGED <<jar, session, users, fetch, astray>>

\* Logout deletes the session of the cookie it carries, if there is one.
ServeLogout(m) ==
    /\ Is(m, {"logout"}, "sent")
    /\ accepted' = accepted \ {calls[m].cookie}
    /\ calls' = [calls EXCEPT ![m].at = "answered", ![m].ok = TRUE]
    /\ UNCHANGED <<jar, session, users, fetch, drawn, astray>>

\* dropExpiredSession, for a mutation refused with a 401.
DropForMutation(m) ==
    /\ Is(m, {"write"}, "answered") /\ ~calls[m].ok
    /\ session' = None
    /\ End(m)
    /\ UNCHANGED <<jar, accepted, users, fetch, drawn, astray>>

\* A mutation that went through leaves the cached session alone.
TakeWrite(m) ==
    /\ Is(m, {"write"}, "answered") /\ calls[m].ok
    /\ End(m)
    /\ UNCHANGED <<jar, accepted, session, users, fetch, drawn, astray>>

\* A bulk action reports its failures in a toast and reads the list again, which cancels
\* a read in flight, if the list is shown.
TakeUpdate(m) ==
    /\ Is(m, {"update"}, "answered")
    /\ fetch' = IF Shown THEN Ask("users") ELSE fetch
    /\ End(m)
    /\ UNCHANGED <<jar, accepted, session, users, drawn, astray>>

\* A request that is refused otherwise, or whose answer is lost.
FailCall(m) ==
    /\ Open(m)
    /\ calls[m].at \in {"sent", "answered"}
    /\ End(m)
    /\ UNCHANGED <<jar, accepted, session, users, fetch, drawn, astray>>

\* The cookie a login's or a logout's answer sets.
Stored(m) == IF calls[m].kind = "login" THEN calls[m].cookie ELSE NoLogin

\* The head of a login's or a logout's answer: the browser stores the cookie.
Land(m) ==
    /\ Is(m, {"login", "logout"}, "answered")
    /\ jar' = Stored(m)
    /\ Goto(m, "landed")
    /\ UNCHANGED <<accepted, session, users, fetch, drawn, astray>>

\* The body does not arrive or does not parse: the mutation fails with its cookie stored.
Tear(m) ==
    /\ Open(m) /\ At(m, "landed")
    /\ astray' = TRUE
    /\ End(m)
    /\ UNCHANGED <<jar, accepted, session, users, fetch, drawn>>

\* A fault: the requests in flight are left to answer.
CancelNothing(m) ==
    /\ Open(m) /\ At(m, "landed")
    /\ astray' = (jar # Stored(m))
    /\ Goto(m, "settling")
    /\ UNCHANGED <<jar, accepted, session, users, fetch, drawn>>

\* useLogout and adoptSession: await cancelQueries.
Cancel(m) ==
    /\ Open(m) /\ At(m, "landed")
    /\ fetch' = [q \in Query |-> Idle]
    /\ astray' = (jar # Stored(m))
    /\ Goto(m, "settling")
    /\ UNCHANGED <<jar, accepted, session, users, drawn>>

\* A fault: the other queries keep their data.
SettleKeeping(m) ==
    /\ Open(m) /\ At(m, "settling")
    /\ session' = IF calls[m].kind = "login" THEN calls[m].cookie ELSE None
    /\ End(m)
    /\ UNCHANGED <<jar, accepted, users, fetch, drawn, astray>>

\* ... then setQueryData of the session and removeQueries of every other, with its request.
Settle(m) ==
    /\ Open(m) /\ At(m, "settling")
    /\ session' = IF calls[m].kind = "login" THEN calls[m].cookie ELSE None
    /\ users' = Unknown
    /\ fetch' = Dropped("users")
    /\ End(m)
    /\ UNCHANGED <<jar, accepted, drawn, astray>>

-----------------------------------------------------------------------------
\* A session expires, or an administrator or a reset ends it.
Revoke(login) ==
    /\ accepted' = accepted \ {login}
    /\ UNCHANGED <<jar, session, users, fetch, calls, drawn, astray>>

\* Another tab logs in.
LoginElsewhere(login) ==
    /\ login \notin drawn
    /\ jar' = login
    /\ accepted' = accepted \cup {login}
    /\ drawn' = drawn \cup {login}
    /\ astray' = TRUE
    /\ UNCHANGED <<session, users, fetch, calls>>

\* Another tab logs out.
LogoutElsewhere ==
    /\ accepted' = accepted \ {jar}
    /\ jar' = NoLogin
    /\ astray' = TRUE
    /\ UNCHANGED <<session, users, fetch, calls, drawn>>

QuerySteps ==
    \/ \E q \in Query : Fetch(q) \/ Serve(q) \/ FailFetch(q)
    \/ TakeSession \/ TakeUsers \/ DropForQuery \/ Retry

CallSteps ==
    \E m \in Call :
        \/ \E kind \in Kind \ {"login"} : Begin(m, kind)
        \/ BeginLogin(m)
        \/ \E login \in Login : ServeLogin(m, login)
        \/ ServeWrite(m) \/ ServeLogout(m)
        \/ DropForMutation(m) \/ TakeWrite(m) \/ TakeUpdate(m) \/ FailCall(m)
        \/ Land(m) \/ Tear(m) \/ Cancel(m) \/ Settle(m)

Elsewhere ==
    \/ \E login \in Login : Revoke(login) \/ LoginElsewhere(login)
    \/ LogoutElsewhere

Next == QuerySteps \/ CallSteps \/ Elsewhere

Spec == Init /\ [][Next]_vars

-----------------------------------------------------------------------------
\* A login or a logout whose cookie is stored and whose cache is not settled yet.
Pending == \E m \in Call : Open(m) /\ calls[m].at \in {"landed", "settling"}

\* The list of accounts shown was read by the login that is shown, never by the one before
\* it: adoptSession drops "what the previous account left cached".  Another tab
\* can come between the two, and then only until a login or a logout of this one settles.
ListIsOfTheShown ==
    Shown /\ users \in Login /\ users # session =>
        Pending \/ astray

\* A session that comes to be shown is the one the jar holds: once a login or a logout has
\* settled, no answer to an earlier login brings that one back.  Two times are left out: while
\* a login or logout has its cookie stored and its cache not settled yet, when what an answer
\* shows is written over; and once the jar has changed behind the tab (another tab's login or
\* logout, or one of this tab that failed with its cookie stored), until a login or a logout
\* of this tab cancels the requests in flight.
ShownIsHeld ==
    [][Shown' /\ session' # session =>
         session' = jar \/ Pending \/ astray]_vars

\* The answer to query q is taken, and refuses a login other than the one that is shown.
LateRefusal(q) == Refused(q) /\ fetch[q].cookie # session /\ fetch'[q] = Idle

\* A mutation or a logout ends that another login than the shown one began.
LateCall(m) == Open(m) /\ calls[m].cookie # session /\ calls'[m] = Idle

\* A session that is shown, accepted and in the jar is dropped in two cases only: a mutation
\* or a logout that an earlier login began ends only now; or a query that left with an earlier
\* cookie is refused only now, and this only while a login or logout has its cookie stored and
\* its cache not settled yet, or once the jar has changed behind the tab.  A login or logout
\* that has settled leaves no query to do it.
DroppedForCause ==
    [][session' = None /\ session \in accepted /\ jar = session =>
         \/ \E m \in Call : LateCall(m)
         \/ (Pending \/ astray) /\ \E q \in Query : LateRefusal(q)]_vars
=============================================================================
