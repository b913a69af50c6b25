------------------------- MODULE SessionCacheProofs -------------------------
(***************************************************************************)
(* Proofs about SessionCache: what a tab shows and whose it is, for any    *)
(* number of logins and of requests in flight.                             *)
(***************************************************************************)
EXTENDS SessionCache, TLAPS

-----------------------------------------------------------------------------
\* The jar, the cache and every request hold what they can hold.
CacheOK ==
    /\ jar \in Cookie /\ accepted \subseteq drawn /\ drawn \subseteq Login
    /\ jar \in Login => jar \in drawn
    /\ session \in Login \cup {None, Unknown} /\ users \in Login \cup {Unknown}
    /\ fetch \in [Query -> {Idle} \cup Request \cup Answer]
    /\ calls \in [Call -> {Idle} \cup
                          [at : Stage, kind : Kind, cookie : Cookie, ok : BOOLEAN]]
    /\ astray \in BOOLEAN

\* One login is in flight at a time; a write in flight carries a cookie that was drawn, and
\* one that was refused carries a cookie the server will not accept again.
CallsOK ==
    /\ \A m, n \in Call :
          Open(m) /\ Open(n) /\ calls[m].kind = "login" /\ calls[n].kind = "login" => m = n
    /\ \A m \in Call : Open(m) =>
          /\ calls[m].cookie \in drawn \cup {NoLogin}
          /\ calls[m].at \in {"landed", "settling"} => calls[m].kind \in {"login", "logout"}
          /\ calls[m].kind = "login" /\ calls[m].at # "sent" => calls[m].cookie \in Login
          /\ Is(m, {"write"}, "answered") /\ ~calls[m].ok => calls[m].cookie \notin accepted

Landed == \E m \in Call : Open(m) /\ At(m, "landed")

\* The query in flight asks, or was answered, for the login the jar holds.
FetchesOfJar ==
    ~astray /\ ~Landed =>
        \A q \in Query :
            /\ fetch[q].at = "sent" => fetch[q].cookie = jar
            /\ Ready(q) => \/ fetch[q].login = jar
                           \/ (fetch[q].login = None /\ jar \notin accepted)

\* A login whose answer has landed put its cookie in the jar, and only a logout took it out.
LoginInJar ==
    ~astray => \A m \in Call :
        Is(m, {"login"}, "landed") \/ Is(m, {"login"}, "settling") =>
            jar \in {calls[m].cookie, NoLogin}

\* What is cached is of the login in the jar, unless the jar was emptied since.
CachedOfJar ==
    ~astray /\ ~Pending =>
        /\ session \in Login => jar \in {session, NoLogin}
        /\ users \in Login => jar \in {users, NoLogin}

CacheInv ==
    /\ CacheOK /\ CallsOK /\ FetchesOfJar /\ LoginInJar /\ CachedOfJar
    /\ ListIsOfTheShown

LEMMA CacheInit == Init => CacheInv
<1> SUFFICES ASSUME Init PROVE CacheInv
  OBVIOUS
<1>1. CacheOK
  <2>1. jar \in Cookie /\ jar \notin Login
    BY MarkAssumption DEF Init, Cookie
  <2>2. /\ accepted \subseteq drawn /\ drawn \subseteq Login
        /\ session \in Login \cup {None, Unknown} /\ users \in Login \cup {Unknown}
    BY DEF Init
  <2>3. fetch \in [Query -> {Idle} \cup Request \cup Answer]
    BY DEF Init
  <2>4. calls \in [Call -> {Idle} \cup
                          [at : Stage, kind : Kind, cookie : Cookie, ok : BOOLEAN]]
    BY DEF Init
  <2>5. astray \in BOOLEAN
    BY DEF Init
  <2> QED BY <2>1, <2>2, <2>3, <2>4, <2>5 DEF CacheOK
<1>2. CallsOK /\ LoginInJar
  BY DEF Init, CallsOK, LoginInJar, Open, Is
<1>3. FetchesOfJar
  <2>1. \A q \in Query : fetch[q].at = "idle"
    BY DEF Init, Idle
  <2> QED BY <2>1 DEF FetchesOfJar, Ready
<1>4. session \notin Login /\ users \notin Login
  BY MarkAssumption DEF Init
<1>5. CachedOfJar /\ ListIsOfTheShown
  BY <1>4 DEF CachedOfJar, ListIsOfTheShown, Shown
<1> QED BY <1>1, <1>2, <1>3, <1>5 DEF CacheInv

-----------------------------------------------------------------------------
\* What a request in flight carries.
LEMMA FetchShape ==
    ASSUME CacheOK, NEW q \in Query
    PROVE  /\ fetch[q].at \in {"idle", "sent", "answered"}
           /\ fetch[q].at = "sent" => fetch[q].cookie \in Cookie
           /\ fetch[q].at = "answered" => fetch[q].login \in Login \cup {None}
BY DEF CacheOK, Idle, Request, Answer

\* A query's step moves its requests so that FetchesOfJar stands ...
FetchStep ==
    ~astray /\ ~Landed =>
        \A q \in Query :
            \/ fetch'[q] = fetch[q] \/ fetch'[q].at = "idle"
            \/ (fetch'[q].at = "sent" /\ fetch'[q].cookie = jar)
            \/ /\ fetch'[q].at = "answered"
               /\ fetch'[q].login = jar \/ (fetch'[q].login = None /\ jar \notin accepted)

\* ... and what is cached so that CachedOfJar does.
TakeStep ==
    ~astray /\ ~Pending =>
        /\ session' \in {session, jar, None}
        /\ users' = users \/ (users' \in Login /\ users' = jar)

\* A session the server comes to accept is a new one.
Fresh == accepted' \subseteq accepted \cup (Login \ drawn)

\* A step that leaves the jar alone and lands or settles nothing.
LEMMA QuietKeeps ==
    ASSUME CacheInv, CacheOK', CallsOK', LoginInJar', jar' = jar, astray' = astray,
           Pending' <=> Pending, Landed' <=> Landed, Fresh, FetchStep, TakeStep
    PROVE  CacheInv'
<1>1. jar \notin accepted => jar \notin accepted'
  BY MarkAssumption DEF CacheInv, CacheOK, Fresh, Cookie
<1>2. FetchesOfJar'
  <2> SUFFICES ASSUME ~astray, ~Landed, NEW q \in Query
               PROVE  /\ fetch'[q].at = "sent" => fetch'[q].cookie = jar
                      /\ fetch'[q].at = "answered" =>
                            \/ fetch'[q].login = jar
                            \/ (fetch'[q].login = None /\ jar \notin accepted')
    BY DEF FetchesOfJar, Ready
  <2>1. CASE fetch'[q] = fetch[q]
    BY <1>1, <2>1 DEF CacheInv, FetchesOfJar, Ready
  <2>2. CASE fetch'[q] # fetch[q]
    BY <1>1, <2>2 DEF FetchStep
  <2> QED BY <2>1, <2>2
<1>3. CachedOfJar' /\ ListIsOfTheShown'
  <2> SUFFICES ASSUME ~astray, ~Pending
               PROVE  /\ session' \in Login => jar \in {session', NoLogin}
                      /\ users' \in Login => jar \in {users', NoLogin}
                      /\ session' \in Login /\ users' \in Login => users' = session'
    BY DEF CachedOfJar, ListIsOfTheShown, Shown
  <2>1. /\ session \in Login => jar \in {session, NoLogin}
        /\ users \in Login => jar \in {users, NoLogin}
        /\ session \in Login /\ users \in Login => users = session
    BY DEF CacheInv, CachedOfJar, ListIsOfTheShown, Shown
  <2>2. None \notin Login /\ NoLogin \notin Login
    BY MarkAssumption
  <2>3. /\ session' \in {session, jar, None}
        /\ users' = users \/ (users' \in Login /\ users' = jar)
    BY DEF TakeStep
  <2> QED BY <2>1, <2>2, <2>3
<1> QED BY <1>2, <1>3 DEF CacheInv

\* A query's step: the jar, the server and the calls stay as they are.
LEMMA QueryKeeps ==
    ASSUME CacheInv, UNCHANGED <<jar, accepted, calls, drawn, astray>>,
           session' \in Login \cup {None, Unknown}, users' \in Login \cup {Unknown},
           fetch' \in [Query -> {Idle} \cup Request \cup Answer],
           FetchStep, TakeStep
    PROVE  CacheInv'
<1>1. CacheOK'
  BY DEF CacheInv, CacheOK
<1>2. CallsOK' /\ LoginInJar'
  BY DEF CacheInv, CallsOK, LoginInJar, Open, Is, At
<1>3. (Pending' <=> Pending) /\ (Landed' <=> Landed)
  BY DEF Pending, Landed, Open, At
<1>4. Fresh
  BY DEF Fresh
<1> QED BY <1>1, <1>2, <1>3, <1>4, QuietKeeps

LEMMA QueryStepsKeep == CacheInv /\ QuerySteps => CacheInv' /\ TakeStep
<1> SUFFICES ASSUME CacheInv, QuerySteps PROVE CacheInv' /\ TakeStep
  OBVIOUS
<1>0. /\ CacheOK /\ FetchesOfJar /\ CachedOfJar
      /\ session \in Login \cup {None, Unknown} /\ users \in Login \cup {Unknown}
      /\ fetch \in [Query -> {Idle} \cup Request \cup Answer] /\ jar \in Cookie
      /\ "session" \in Query /\ "users" \in Query
  BY DEF CacheInv, CacheOK, Query
<1>1. Sent \in Request /\ Sent.at = "sent" /\ Sent.cookie = jar
  BY <1>0 DEF Sent, Request
<1>2. ASSUME NEW q \in Query, Fetch(q) \/ FailFetch(q) PROVE CacheInv' /\ TakeStep
  <2>1. /\ UNCHANGED <<jar, accepted, session, users, calls, drawn, astray>>
        /\ fetch' \in [Query -> {Idle} \cup Request \cup Answer]
        /\ \A p \in Query : fetch'[p] \in {fetch[p], Sent, Idle}
    BY <1>0, <1>1, <1>2 DEF Fetch, FailFetch, Ask, Dropped
  <2>2. FetchStep
    BY <1>1, <2>1 DEF FetchStep, Idle
  <2>3. TakeStep
    BY <2>1 DEF TakeStep
  <2> QED BY <1>0, <2>1, <2>2, <2>3, QueryKeeps
<1>3. ASSUME NEW q \in Query, Serve(q) PROVE CacheInv' /\ TakeStep
  <2> DEFINE reply == Answered(fetch[q])
  <2>1. /\ UNCHANGED <<jar, accepted, session, users, calls, drawn, astray>>
        /\ fetch' = [fetch EXCEPT ![q] = reply] /\ fetch[q].at = "sent"
    BY <1>3 DEF Serve
  <2>2. /\ reply \in Answer /\ reply.at = "answered"
        /\ reply.login = IF fetch[q].cookie \in accepted THEN fetch[q].cookie ELSE None
    BY <1>0, <2>1 DEF Answered, Answer, CacheOK, Request, Idle
  <2> HIDE DEF reply
  <2>3. /\ fetch' \in [Query -> {Idle} \cup Request \cup Answer] /\ fetch'[q] = reply
        /\ \A p \in Query \ {q} : fetch'[p] = fetch[p]
    BY <1>0, <2>1, <2>2
  <2>4. ~astray /\ ~Landed =>
           reply.login = jar \/ (reply.login = None /\ jar \notin accepted)
    BY <1>0, <2>1, <2>2 DEF FetchesOfJar
  <2>5. FetchStep
    BY <2>2, <2>3, <2>4 DEF FetchStep
  <2>6. TakeStep
    BY <2>1 DEF TakeStep
  <2> QED BY <1>0, <2>1, <2>3, <2>5, <2>6, QueryKeeps
<1>4. ASSUME ~astray, ~Pending PROVE ~Landed
  BY <1>4 DEF Landed, Pending, At
<1>5. CASE TakeSession
  <2>1. /\ UNCHANGED <<jar, accepted, users, calls, drawn, astray>>
        /\ session' = fetch["session"].login /\ fetch["session"].at = "answered"
        /\ fetch' \in [Query -> {Idle} \cup Request \cup Answer]
        /\ \A p \in Query : fetch'[p] \in {fetch[p], Idle}
    BY <1>0, <1>5 DEF TakeSession, Ready, Dropped
  <2>2. session' \in Login \cup {None}
    BY <1>0, <2>1, FetchShape
  <2>3. ~astray /\ ~Pending => session' \in {jar, None}
    BY <1>0, <1>4, <2>1 DEF FetchesOfJar, Ready
  <2>4. FetchStep
    BY <2>1 DEF FetchStep, Idle
  <2>5. TakeStep
    BY <2>1, <2>3 DEF TakeStep
  <2> QED BY <1>0, <2>1, <2>2, <2>4, <2>5, QueryKeeps
<1>6. CASE TakeUsers
  <2>1. /\ UNCHANGED <<jar, accepted, session, calls, drawn, astray>>
        /\ users' = fetch["users"].login /\ fetch["users"].at = "answered" /\ users' # None
        /\ fetch' \in [Query -> {Idle} \cup Request \cup Answer]
        /\ \A p \in Query : fetch'[p] \in {fetch[p], Idle}
    BY <1>0, <1>6 DEF TakeUsers, Ready, Refused, Dropped
  <2>2. users' \in Login
    BY <1>0, <2>1, FetchShape
  <2>3. ~astray /\ ~Pending => users' = jar
    BY <1>0, <1>4, <2>1 DEF FetchesOfJar, Ready
  <2>4. FetchStep
    BY <2>1 DEF FetchStep, Idle
  <2>5. TakeStep
    BY <2>1, <2>2, <2>3 DEF TakeStep
  <2> QED BY <1>0, <2>1, <2>2, <2>4, <2>5, QueryKeeps
<1>7. CASE DropForQuery
  <2>1. /\ UNCHANGED <<jar, accepted, users, calls, drawn, astray>> /\ session' = None
        /\ fetch' \in [Query -> {Idle} \cup Request \cup Answer]
        /\ \A p \in Query : fetch'[p] \in {fetch[p], Idle}
    BY <1>0, <1>7 DEF DropForQuery, Dropped
  <2>2. FetchStep
    BY <2>1 DEF FetchStep, Idle
  <2>3. TakeStep
    BY <2>1 DEF TakeStep
  <2> QED BY <1>0, <2>1, <2>2, <2>3, QueryKeeps
<1>8. CASE Retry
  <2>1. /\ UNCHANGED <<jar, accepted, session, users, calls, drawn, astray>>
        /\ fetch' \in [Query -> {Idle} \cup Request \cup Answer]
        /\ \A p \in Query : fetch'[p] \in {fetch[p], Sent}
    BY <1>0, <1>1, <1>8 DEF Retry, Ask
  <2>2. FetchStep
    BY <1>1, <2>1 DEF FetchStep
  <2>3. TakeStep
    BY <2>1 DEF TakeStep
  <2> QED BY <1>0, <2>1, <2>2, <2>3, QueryKeeps
<1> QED BY <1>2, <1>3, <1>5, <1>6, <1>7, <1>8 DEF QuerySteps
-----------------------------------------------------------------------------
\* What a request of a mutation or a bulk action may be.
CallRecord == [at : Stage, kind : Kind, cookie : Cookie, ok : BOOLEAN]

LEMMA CallShape ==
    ASSUME CacheInv, NEW m \in Call, Open(m)
    PROVE  /\ calls[m] \in CallRecord
           /\ calls[m].cookie \in drawn \cup {NoLogin}
           /\ calls[m].at \in {"landed", "settling"} => calls[m].kind \in {"login", "logout"}
           /\ calls[m].kind = "login" /\ calls[m].at # "sent" => calls[m].cookie \in Login
<1>1. calls[m] \in CallRecord
  BY DEF CacheInv, CacheOK, CallRecord, Open
<1>2. /\ calls[m].cookie \in drawn \cup {NoLogin}
      /\ calls[m].at \in {"landed", "settling"} => calls[m].kind \in {"login", "logout"}
      /\ calls[m].kind = "login" /\ calls[m].at # "sent" => calls[m].cookie \in Login
  BY DEF CacheInv, CallsOK
<1> QED BY <1>1, <1>2

\* Nothing is idle that is open.
LEMMA RecordIsOpen == ASSUME NEW c \in CallRecord PROVE c # Idle
<1>1. DOMAIN c = {"at", "kind", "cookie", "ok"}
  BY DEF CallRecord
<1>2. DOMAIN Idle = {"at"}
  BY DEF Idle
<1> QED BY <1>1, <1>2

\* One request goes from what it was to c, and the server's sessions move on.
LEMMA CallsKeep ==
    ASSUME CacheInv, NEW m \in Call, NEW c \in {Idle} \cup CallRecord,
           calls' = [calls EXCEPT ![m] = c],
           Fresh, drawn \subseteq drawn',
           c # Idle =>
              /\ c.cookie \in drawn' \cup {NoLogin}
              /\ c.at \in {"landed", "settling"} => c.kind \in {"login", "logout"}
              /\ c.kind = "login" /\ c.at # "sent" => c.cookie \in Login
              /\ c.kind = "write" /\ c.at = "answered" /\ ~c.ok => c.cookie \notin accepted'
              /\ c.kind = "login" =>
                    \A n \in Call \ {m} : Open(n) => calls[n].kind # "login"
    PROVE  /\ CallsOK' /\ calls' \in [Call -> {Idle} \cup CallRecord]
           /\ calls'[m] = c /\ \A n \in Call \ {m} : calls'[n] = calls[n]
<1>1. calls \in [Call -> {Idle} \cup CallRecord]
  BY DEF CacheInv, CacheOK, CallRecord
<1>2. /\ calls' \in [Call -> {Idle} \cup CallRecord]
      /\ calls'[m] = c /\ \A n \in Call \ {m} : calls'[n] = calls[n]
  BY <1>1
<1>3. \A n, p \in Call : calls'[n] # Idle /\ calls'[p] # Idle
                        /\ calls'[n].kind = "login" /\ calls'[p].kind = "login" => n = p
  BY <1>2 DEF CacheInv, CallsOK, Open
<1>4. ASSUME NEW n \in Call, calls'[n] # Idle
      PROVE  /\ calls'[n].cookie \in drawn' \cup {NoLogin}
             /\ calls'[n].at \in {"landed", "settling"} => calls'[n].kind \in {"login", "logout"}
             /\ calls'[n].kind = "login" /\ calls'[n].at # "sent" => calls'[n].cookie \in Login
             /\ calls'[n].kind = "write" /\ calls'[n].at = "answered" /\ ~calls'[n].ok =>
                    calls'[n].cookie \notin accepted'
  <2>1. CASE n = m
    BY <1>2, <1>4, <2>1
  <2>2. CASE n # m
    <3>1. calls'[n] = calls[n] /\ Open(n)
      BY <1>2, <1>4, <2>2 DEF Open
    <3>2. /\ calls[n].cookie \in drawn \cup {NoLogin}
          /\ calls[n].at \in {"landed", "settling"} => calls[n].kind \in {"login", "logout"}
          /\ calls[n].kind = "login" /\ calls[n].at # "sent" => calls[n].cookie \in Login
          /\ calls[n].kind = "write" /\ calls[n].at = "answered" /\ ~calls[n].ok =>
                 calls[n].cookie \notin accepted
      BY <3>1 DEF CacheInv, CallsOK, Is, At
    <3>3. NoLogin \notin Login
      BY MarkAssumption
    <3>4. accepted' \subseteq accepted \cup (Login \ drawn)
      BY DEF Fresh
    <3> QED BY <3>1, <3>2, <3>3, <3>4
  <2> QED BY <2>1, <2>2
<1>5. CallsOK'
  BY <1>3, <1>4 DEF CallsOK, Open, Is, At
<1> QED BY <1>2, <1>5

\* A request that neither lands nor settles.
LEMMA CallKeeps ==
    ASSUME CacheInv, NEW m \in Call, NEW c \in {Idle} \cup CallRecord,
           calls' = [calls EXCEPT ![m] = c],
           Open(m) => calls[m].at \in {"sent", "answered"},
           c # Idle =>
              /\ c.at \in {"sent", "answered"}
              /\ c.kind = "login" /\ c.at # "sent" => c.cookie \in Login
              /\ c.cookie \in drawn' \cup {NoLogin}
              /\ c.kind = "write" /\ c.at = "answered" /\ ~c.ok => c.cookie \notin accepted'
              /\ c.kind = "login" =>
                    \A n \in Call \ {m} : Open(n) => calls[n].kind # "login",
           UNCHANGED <<jar, users, astray>>, session' \in {session, None},
           fetch' \in [Query -> {Idle} \cup Request \cup Answer], FetchStep,
           Fresh, drawn \subseteq drawn', drawn' \subseteq Login, accepted' \subseteq drawn'
    PROVE  CacheInv' /\ TakeStep
<1>1. /\ CallsOK' /\ calls' \in [Call -> {Idle} \cup CallRecord]
      /\ calls'[m] = c /\ \A n \in Call \ {m} : calls'[n] = calls[n]
  BY CallsKeep
<1>2. CacheOK'
  BY <1>1 DEF CacheInv, CacheOK, CallRecord
<1>3. \A n \in Call :
         /\ Is(n, {"login"}, "landed")' <=> Is(n, {"login"}, "landed")
         /\ Is(n, {"login"}, "settling")' <=> Is(n, {"login"}, "settling")
         /\ Open(n)' /\ At(n, "landed")' <=> Open(n) /\ At(n, "landed")
         /\ Open(n)' /\ At(n, "settling")' <=> Open(n) /\ At(n, "settling")
         /\ n # m => calls'[n] = calls[n]
  BY <1>1 DEF Open, At, Is
<1>4. (Pending' <=> Pending) /\ (Landed' <=> Landed)
  BY <1>3 DEF Pending, Landed, Open, At
<1>5. LoginInJar'
  <2> SUFFICES ASSUME ~astray, NEW n \in Call,
                      Is(n, {"login"}, "landed")' \/ Is(n, {"login"}, "settling")'
               PROVE  jar \in {calls'[n].cookie, NoLogin}
    BY DEF LoginInJar
  <2>1. Is(n, {"login"}, "landed") \/ Is(n, {"login"}, "settling")
    BY <1>3
  <2>2. n # m
    BY <2>1 DEF Is, At
  <2> QED BY <1>1, <2>1, <2>2 DEF CacheInv, LoginInJar
<1>6. TakeStep
  BY DEF TakeStep
<1> QED BY <1>1, <1>2, <1>4, <1>5, <1>6, QuietKeeps
-----------------------------------------------------------------------------
\* The two steps of a login or a logout that end in astray or leave it behind.
LEMMA AstrayKeeps ==
    ASSUME CacheOK', CallsOK', astray'
    PROVE  CacheInv'
BY DEF CacheInv, FetchesOfJar, LoginInJar, CachedOfJar, ListIsOfTheShown

\* An answer that no login or logout waits for, or the question it answers.
LEMMA QuietCallStepsKeep ==
    ASSUME CacheInv, NEW m \in Call,
           \/ \E kind \in Kind \ {"login"} : Begin(m, kind)
           \/ BeginLogin(m)
           \/ \E login \in Login : ServeLogin(m, login)
           \/ ServeWrite(m) \/ ServeLogout(m)
           \/ DropForMutation(m) \/ TakeWrite(m) \/ TakeUpdate(m) \/ FailCall(m)
    PROVE  CacheInv' /\ TakeStep
<1>0. /\ fetch \in [Query -> {Idle} \cup Request \cup Answer] /\ jar \in Cookie
      /\ accepted \subseteq drawn /\ drawn \subseteq Login
      /\ jar \in drawn \cup {NoLogin} /\ NoLogin \in Cookie
      /\ "users" \in Query
  BY DEF CacheInv, CacheOK, Cookie, Query
<1>1. fetch' = fetch => FetchStep
  BY DEF FetchStep
<1>2. accepted' \subseteq accepted => Fresh
  BY DEF Fresh
<1>3. CASE \E kind \in Kind \ {"login"} : Begin(m, kind)
  <2> PICK kind \in Kind \ {"login"} : Begin(m, kind)
    BY <1>3
  <2> DEFINE c == [at |-> "sent", kind |-> kind, cookie |-> jar, ok |-> FALSE]
  <2>1. c \in CallRecord /\ c.at = "sent" /\ c.cookie = jar /\ c.kind # "login"
    BY <1>0 DEF CallRecord, Stage
  <2>2. /\ ~Open(m) /\ calls' = [calls EXCEPT ![m] = c]
        /\ UNCHANGED <<jar, accepted, session, users, fetch, drawn, astray>>
    BY DEF Begin
  <2> HIDE DEF c
  <2> QED BY <1>0, <1>1, <1>2, <2>1, <2>2, CallKeeps
<1>4. CASE BeginLogin(m)
  <2> DEFINE c == [at |-> "sent", kind |-> "login", cookie |-> NoLogin, ok |-> FALSE]
  <2>1. c \in CallRecord /\ c.at = "sent" /\ c.cookie = NoLogin /\ c.kind = "login"
    BY <1>0 DEF CallRecord, Stage, Kind
  <2>2. /\ ~Open(m) /\ calls' = [calls EXCEPT ![m] = c]
        /\ \A n \in Call : Open(n) => calls[n].kind # "login"
        /\ UNCHANGED <<jar, accepted, session, users, fetch, drawn, astray>>
    BY <1>4 DEF BeginLogin
  <2> HIDE DEF c
  <2> QED BY <1>0, <1>1, <1>2, <2>1, <2>2, CallKeeps
<1>5. CASE \E login \in Login : ServeLogin(m, login)
  <2> PICK login \in Login : ServeLogin(m, login)
    BY <1>5
  <2> DEFINE c == [calls[m] EXCEPT !.at = "answered", !.cookie = login, !.ok = TRUE]
  <2>1. calls[m] \in CallRecord /\ Open(m) /\ calls[m].at = "sent" /\ calls[m].kind = "login"
    BY CallShape DEF ServeLogin, Is, At
  <2>2. c \in CallRecord /\ c.at = "answered" /\ c.cookie = login /\ c.kind = "login"
    BY <2>1 DEF CallRecord, Stage, Cookie
  <2>3. /\ calls' = [calls EXCEPT ![m] = c]
        /\ accepted' = accepted \cup {login} /\ drawn' = drawn \cup {login}
        /\ login \notin drawn /\ UNCHANGED <<jar, session, users, fetch, astray>>
    BY DEF ServeLogin
  <2>4. \A n \in Call \ {m} : Open(n) => calls[n].kind # "login"
    BY <2>1 DEF CacheInv, CallsOK
  <2>5. Fresh
    BY <2>3 DEF Fresh
  <2> HIDE DEF c
  <2> QED BY <1>0, <1>1, <2>1, <2>2, <2>3, <2>4, <2>5, CallKeeps
<1>6. CASE ServeWrite(m)
  <2> DEFINE ok == calls[m].cookie \in accepted
             c == [calls[m] EXCEPT !.at = "answered", !.ok = ok]
  <2>1. /\ calls[m] \in CallRecord /\ Open(m) /\ calls[m].at = "sent"
        /\ calls[m].kind \in {"write", "update"} /\ calls[m].cookie \in drawn \cup {NoLogin}
    BY <1>6, CallShape DEF ServeWrite, Is, At
  <2>4. ok \in BOOLEAN /\ (ok <=> calls[m].cookie \in accepted)
    OBVIOUS
  <2> HIDE DEF ok
  <2>2. /\ c \in CallRecord /\ c.at = "answered" /\ c.cookie = calls[m].cookie
        /\ c.kind = calls[m].kind /\ c.ok = ok
    BY <2>1, <2>4 DEF CallRecord, Stage
  <2>3. /\ calls' = [calls EXCEPT ![m] = c]
        /\ UNCHANGED <<jar, accepted, session, users, fetch, drawn, astray>>
    BY <1>6 DEF ServeWrite, ok
  <2> HIDE DEF c
  <2> QED BY <1>0, <1>1, <1>2, <2>1, <2>4, <2>2, <2>3, CallKeeps
<1>7. CASE ServeLogout(m)
  <2> DEFINE c == [calls[m] EXCEPT !.at = "answered", !.ok = TRUE]
  <2>1. /\ calls[m] \in CallRecord /\ Open(m) /\ calls[m].at = "sent"
        /\ calls[m].kind = "logout" /\ calls[m].cookie \in drawn \cup {NoLogin}
    BY <1>7, CallShape DEF ServeLogout, Is, At
  <2>2. /\ c \in CallRecord /\ c.at = "answered" /\ c.cookie = calls[m].cookie
        /\ c.kind = "logout"
    BY <2>1 DEF CallRecord, Stage
  <2>3. /\ calls' = [calls EXCEPT ![m] = c] /\ accepted' \subseteq accepted
        /\ UNCHANGED <<jar, session, users, fetch, drawn, astray>>
    BY <1>7 DEF ServeLogout
  <2> HIDE DEF c
  <2> QED BY <1>0, <1>1, <1>2, <2>1, <2>2, <2>3, CallKeeps
<1>8. CASE DropForMutation(m) \/ TakeWrite(m) \/ FailCall(m)
  <2>1. /\ Open(m) /\ calls[m].at \in {"sent", "answered"}
        /\ calls' = [calls EXCEPT ![m] = Idle] /\ session' \in {session, None}
        /\ UNCHANGED <<jar, accepted, users, fetch, drawn, astray>>
    BY <1>8 DEF DropForMutation, TakeWrite, FailCall, Is, At, End
  <2> QED BY <1>0, <1>1, <1>2, <2>1, CallKeeps
<1>9. CASE TakeUpdate(m)
  <2>1. /\ Open(m) /\ calls[m].at \in {"sent", "answered"}
        /\ calls' = [calls EXCEPT ![m] = Idle] /\ fetch' \in {Ask("users"), fetch}
        /\ UNCHANGED <<jar, accepted, session, users, drawn, astray>>
    BY <1>9 DEF TakeUpdate, Is, At, End
  <2>2. Sent \in Request /\ Sent.at = "sent" /\ Sent.cookie = jar
    BY <1>0 DEF Sent, Request
  <2>3. /\ fetch' \in [Query -> {Idle} \cup Request \cup Answer]
        /\ \A q \in Query : fetch'[q] \in {fetch[q], Sent}
    BY <1>0, <2>1, <2>2 DEF Ask
  <2>4. FetchStep
    BY <2>2, <2>3 DEF FetchStep
  <2> QED BY <1>0, <1>2, <2>1, <2>3, <2>4, CallKeeps
<1> QED BY <1>3, <1>4, <1>5, <1>6, <1>7, <1>8, <1>9
-----------------------------------------------------------------------------
\* A login or a logout whose cookie is stored.
LEMMA LandingStepsKeep ==
    ASSUME CacheInv, NEW m \in Call, Land(m) \/ Tear(m) \/ Cancel(m) \/ Settle(m)
    PROVE  CacheInv'
<1>0. /\ fetch \in [Query -> {Idle} \cup Request \cup Answer] /\ "users" \in Query
      /\ calls \in [Call -> {Idle} \cup CallRecord] /\ CallsOK /\ LoginInJar
  BY DEF CacheInv, CacheOK, Query, CallRecord
<1>1. /\ Open(m) /\ calls[m] \in CallRecord
      /\ calls[m].cookie \in drawn \cup {NoLogin} /\ calls[m].kind \in {"login", "logout"}
      /\ calls[m].kind = "login" => calls[m].cookie \in Login
  BY CallShape DEF Land, Tear, Cancel, Settle, Is, At
<1>2. drawn' = drawn /\ accepted' = accepted /\ Fresh
  BY DEF Land, Tear, Cancel, Settle, Fresh
<1>3. ASSUME calls[m].kind = "login", NEW n \in Call \ {m}, Open(n)
      PROVE  calls[n].kind # "login"
  BY <1>0, <1>1, <1>3 DEF CallsOK
<1>4. ASSUME NEW stage \in Stage \ {"sent"}, Goto(m, stage)
      PROVE  /\ CallsOK' /\ calls' \in [Call -> {Idle} \cup CallRecord]
             /\ calls'[m] # Idle /\ calls'[m].at = stage
             /\ calls'[m].kind = calls[m].kind /\ calls'[m].cookie = calls[m].cookie
             /\ \A n \in Call \ {m} : calls'[n] = calls[n]
  <2> DEFINE c == [calls[m] EXCEPT !.at = stage]
  <2>1. /\ c \in CallRecord /\ c.at = stage
        /\ c.kind = calls[m].kind /\ c.cookie = calls[m].cookie
    BY <1>1 DEF CallRecord
  <2>2. calls' = [calls EXCEPT ![m] = c]
    BY <1>4 DEF Goto
  <2>3. c # Idle
    BY <2>1, RecordIsOpen
  <2> HIDE DEF c
  <2>4. /\ CallsOK' /\ calls' \in [Call -> {Idle} \cup CallRecord]
        /\ calls'[m] = c /\ \A n \in Call \ {m} : calls'[n] = calls[n]
    BY <1>1, <1>2, <1>3, <2>1, <2>2, CallsKeep
  <2> QED BY <2>1, <2>3, <2>4
<1>5. ASSUME End(m)
      PROVE  /\ CallsOK' /\ calls' \in [Call -> {Idle} \cup CallRecord]
             /\ calls'[m] = Idle /\ \A n \in Call \ {m} : calls'[n] = calls[n]
  BY <1>2, <1>5, CallsKeep DEF End
<1>6. Stored(m) \in Cookie /\ (Stored(m) \in Login => Stored(m) \in drawn)
  BY <1>1, MarkAssumption DEF Stored, CacheInv, CacheOK, Cookie
<1>7. CASE Land(m)
  <2>1. /\ jar' = Stored(m) /\ Goto(m, "landed")
        /\ UNCHANGED <<accepted, session, users, fetch, drawn, astray>>
    BY <1>7 DEF Land
  <2>2. /\ CallsOK' /\ calls' \in [Call -> {Idle} \cup CallRecord]
        /\ calls'[m] # Idle /\ calls'[m].at = "landed"
        /\ calls'[m].kind = calls[m].kind /\ calls'[m].cookie = calls[m].cookie
        /\ \A n \in Call \ {m} : calls'[n] = calls[n]
    BY <1>4, <2>1 DEF Stage
  <2>3. CacheOK'
    BY <1>6, <2>1, <2>2 DEF CacheInv, CacheOK, CallRecord
  <2>4. Landed' /\ Pending'
    BY <2>2 DEF Landed, Pending, Open, At
  <2>5. \A n \in Call : calls'[n] # Idle /\ calls'[n].kind = "login" =>
                            jar' \in {calls'[n].cookie, NoLogin}
    BY <1>1, <1>3, <2>1, <2>2 DEF Stored, Open
  <2>6. LoginInJar'
    BY <2>5 DEF LoginInJar, Is, Open
  <2> QED BY <2>2, <2>3, <2>4, <2>6
            DEF CacheInv, FetchesOfJar, CachedOfJar, ListIsOfTheShown
<1>8. CASE Tear(m)
  <2>1. /\ astray' /\ End(m) /\ astray' \in BOOLEAN
        /\ UNCHANGED <<jar, accepted, session, users, fetch, drawn>>
    BY <1>8 DEF Tear
  <2>2. CacheOK'
    BY <1>5, <2>1 DEF CacheInv, CacheOK, CallRecord
  <2> QED BY <1>5, <2>1, <2>2, AstrayKeeps
<1>9. CASE Cancel(m)
  <2>1. /\ fetch' = [q \in Query |-> Idle] /\ astray' = (jar # Stored(m))
        /\ Goto(m, "settling") /\ UNCHANGED <<jar, accepted, session, users, drawn>>
    BY <1>9 DEF Cancel
  <2>2. /\ CallsOK' /\ calls' \in [Call -> {Idle} \cup CallRecord]
        /\ calls'[m] # Idle /\ calls'[m].at = "settling"
        /\ calls'[m].kind = calls[m].kind /\ calls'[m].cookie = calls[m].cookie
        /\ \A n \in Call \ {m} : calls'[n] = calls[n]
    BY <1>4, <2>1 DEF Stage
  <2>3. fetch' \in [Query -> {Idle} \cup Request \cup Answer] /\ astray' \in BOOLEAN
    BY <2>1
  <2>4. CacheOK'
    BY <2>1, <2>2, <2>3 DEF CacheInv, CacheOK, CallRecord
  <2>5. Pending'
    BY <2>2 DEF Pending, Open, At
  <2>6. FetchesOfJar'
    <3>1. \A q \in Query : fetch'[q].at = "idle"
      BY <2>1 DEF Idle
    <3> QED BY <3>1 DEF FetchesOfJar, Ready
  <2>7. ASSUME ~astray', NEW n \in Call, calls'[n] # Idle, calls'[n].kind = "login"
        PROVE  jar \in {calls'[n].cookie, NoLogin}
    BY <1>1, <1>3, <2>1, <2>2, <2>7 DEF Stored, Open
  <2>8. LoginInJar'
    BY <2>1, <2>7 DEF LoginInJar, Is, Open
  <2> QED BY <2>2, <2>4, <2>5, <2>6, <2>8 DEF CacheInv, CachedOfJar, ListIsOfTheShown
<1>10. CASE Settle(m)
  <2>1. /\ Open(m) /\ calls[m].at = "settling" /\ End(m)
        /\ session' = (IF calls[m].kind = "login" THEN calls[m].cookie ELSE None)
        /\ users' = Unknown /\ fetch' = [fetch EXCEPT !["users"] = Idle]
        /\ UNCHANGED <<jar, accepted, drawn, astray>>
    BY <1>10 DEF Settle, At, Dropped
  <2>2. /\ CallsOK' /\ calls' \in [Call -> {Idle} \cup CallRecord]
        /\ calls'[m] = Idle /\ \A n \in Call \ {m} : calls'[n] = calls[n]
    BY <1>5, <2>1
  <2>3. fetch' \in [Query -> {Idle} \cup Request \cup Answer]
        /\ \A q \in Query : fetch'[q] \in {fetch[q], Idle}
    BY <1>0, <2>1
  <2>4. Landed => Landed'
    <3> SUFFICES ASSUME NEW n \in Call, Open(n), calls[n].at = "landed" PROVE Landed'
      BY DEF Landed, At
    <3>1. n # m
      BY <2>1
    <3> QED BY <2>2, <3>1 DEF Landed, Open, At
  <2>5. FetchesOfJar'
    <3> SUFFICES ASSUME ~astray, ~Landed, NEW q \in Query
                 PROVE  /\ fetch'[q].at = "sent" => fetch'[q].cookie = jar
                        /\ fetch'[q].at = "answered" =>
                              \/ fetch'[q].login = jar
                              \/ (fetch'[q].login = None /\ jar \notin accepted)
      BY <2>1, <2>4 DEF FetchesOfJar, Ready
    <3>1. CASE fetch'[q] = fetch[q]
      BY <3>1 DEF CacheInv, FetchesOfJar, Ready
    <3>2. CASE fetch'[q] = Idle
      BY <3>2 DEF Idle
    <3> QED BY <2>3, <3>1, <3>2
  <2>6. LoginInJar'
    <3> SUFFICES ASSUME ~astray, NEW n \in Call, calls'[n] # Idle, calls'[n].kind = "login",
                        calls'[n].at \in {"landed", "settling"}
                 PROVE  jar \in {calls'[n].cookie, NoLogin}
      BY <2>1 DEF LoginInJar, Is, At, Open
    <3>1. n # m
      BY <2>2
    <3>2. calls'[n] = calls[n]
      BY <2>2, <3>1
    <3> QED BY <1>0, <3>2 DEF LoginInJar, Is, At, Open
  <2>7. None \notin Login /\ Unknown \notin Login
    BY MarkAssumption
  <2>8. session' \in Login \cup {None} /\ CacheOK'
    <3>1. session' \in Login \cup {None}
      BY <1>1, <2>1
    <3>2. users' \in Login \cup {Unknown} /\ jar' = jar /\ astray' = astray
      BY <2>1
    <3> QED BY <1>2, <2>1, <2>2, <2>3, <3>1, <3>2 DEF CacheInv, CacheOK, CallRecord
  <2>9. ~astray => (session' \in Login => jar \in {session', NoLogin})
    BY <1>0, <1>1, <2>1, <2>7 DEF LoginInJar, Is, At
  <2>10. users' \notin Login
    BY <2>1, <2>7
  <2>11. CachedOfJar' /\ ListIsOfTheShown'
    BY <2>1, <2>9, <2>10 DEF CachedOfJar, ListIsOfTheShown, Shown
  <2> QED BY <2>2, <2>5, <2>6, <2>8, <2>11 DEF CacheInv
<1> QED BY <1>7, <1>8, <1>9, <1>10

\* Another tab, or the server.
LEMMA ElsewhereKeeps == CacheInv /\ Elsewhere => CacheInv'
<1> SUFFICES ASSUME CacheInv, Elsewhere PROVE CacheInv'
  OBVIOUS
<1>1. ASSUME NEW login \in Login, Revoke(login) PROVE CacheInv'
  <2>1. /\ accepted' \subseteq accepted
        /\ UNCHANGED <<jar, session, users, fetch, calls, drawn, astray>>
    BY <1>1 DEF Revoke
  <2>2. CacheOK'
    BY <2>1 DEF CacheInv, CacheOK
  <2>3. CallsOK' /\ LoginInJar'
    BY <2>1 DEF CacheInv, CallsOK, LoginInJar, Open, Is, At
  <2>4. (Pending' <=> Pending) /\ (Landed' <=> Landed)
    BY <2>1 DEF Pending, Landed, Open, At
  <2>5. Fresh /\ FetchStep /\ TakeStep
    BY <2>1 DEF Fresh, FetchStep, TakeStep
  <2> QED BY <2>1, <2>2, <2>3, <2>4, <2>5, QuietKeeps
<1>2. ASSUME NEW login \in Login, LoginElsewhere(login) PROVE CacheInv'
  <2>1. /\ jar' = login /\ accepted' = accepted \cup {login} /\ drawn' = drawn \cup {login}
        /\ login \notin drawn /\ astray' /\ astray' \in BOOLEAN
        /\ UNCHANGED <<session, users, fetch, calls>>
    BY <1>2 DEF LoginElsewhere
  <2>2. CacheOK'
    BY <2>1 DEF CacheInv, CacheOK, Cookie
  <2>3. NoLogin \notin Login
    BY MarkAssumption
  <2>4. CallsOK'
    BY <2>1, <2>3 DEF CacheInv, CallsOK, Open, Is, At
  <2> QED BY <2>1, <2>2, <2>4, AstrayKeeps
<1>3. CASE LogoutElsewhere
  <2>1. /\ jar' = NoLogin /\ accepted' \subseteq accepted
        /\ astray' /\ astray' \in BOOLEAN
        /\ UNCHANGED <<session, users, fetch, calls, drawn>>
    BY <1>3 DEF LogoutElsewhere
  <2>2. CacheOK'
    BY <2>1, MarkAssumption DEF CacheInv, CacheOK, Cookie
  <2>3. CallsOK'
    BY <2>1 DEF CacheInv, CallsOK, Open, Is, At
  <2> QED BY <2>1, <2>2, <2>3, AstrayKeeps
<1> QED BY <1>1, <1>2, <1>3 DEF Elsewhere

LEMMA CacheStutters == CacheInv /\ UNCHANGED vars => CacheInv'
<1> SUFFICES ASSUME CacheInv, UNCHANGED vars PROVE CacheInv'
  OBVIOUS
<1>1. CacheOK' /\ CallsOK' /\ LoginInJar'
  BY DEF vars, CacheInv, CacheOK, CallsOK, LoginInJar, Open, Is, At
<1>2. (Pending' <=> Pending) /\ (Landed' <=> Landed)
  BY DEF vars, Pending, Landed, Open, At
<1>3. Fresh /\ FetchStep /\ TakeStep
  BY DEF vars, Fresh, FetchStep, TakeStep
<1> QED BY <1>1, <1>2, <1>3, QuietKeeps DEF vars

LEMMA CacheInvariant == Spec => []CacheInv
<1>1. CacheInv /\ [Next]_vars => CacheInv'
  BY QueryStepsKeep, QuietCallStepsKeep, LandingStepsKeep, ElsewhereKeeps, CacheStutters
     DEF Next, CallSteps
<1> QED BY CacheInit, <1>1, PTL DEF Spec

-----------------------------------------------------------------------------
\* The list of accounts on the screen is the one the shown login read, whatever answers
\* were in flight when the login changed (adoptSession, useLogout).
THEOREM ListIsOwn == Spec => []ListIsOfTheShown
<1>1. CacheInv => ListIsOfTheShown
  BY DEF CacheInv
<1> QED BY CacheInvariant, <1>1, PTL

\* A login comes to be shown only when the jar holds it: a late answer to an earlier one
\* does not bring it back (fetchSession, cancelQueries).
THEOREM ShownIsOfTheJar == Spec => ShownIsHeld
<1>1. ASSUME CacheInv, [Next]_vars
      PROVE  Shown' /\ session' # session => session' = jar \/ Pending \/ astray
  <2> SUFFICES ASSUME session' \in Login, session' # session, ~Pending, ~astray
               PROVE  session' = jar
    BY DEF Shown
  <2>1. None \notin Login
    BY MarkAssumption
  <2>2. CASE TakeStep
    BY <2>1, <2>2 DEF TakeStep
  <2>3. ASSUME NEW m \in Call, Land(m) \/ Tear(m) \/ Cancel(m) \/ Settle(m) PROVE FALSE
    <3>1. CASE Land(m)
      BY <3>1 DEF Land
    <3>2. CASE Tear(m) \/ Cancel(m) \/ Settle(m)
      BY <3>2 DEF Tear, Cancel, Settle, Pending, At
    <3> QED BY <2>3, <3>1, <3>2
  <2>4. CASE Elsewhere
    BY <2>4 DEF Elsewhere, Revoke, LoginElsewhere, LogoutElsewhere
  <2>5. CASE UNCHANGED vars
    BY <2>5 DEF vars
  <2> QED
    BY <1>1, <2>2, <2>3, <2>4, <2>5, QueryStepsKeep, QuietCallStepsKeep DEF Next, CallSteps
<1> QED BY CacheInvariant, <1>1, PTL DEF Spec, ShownIsHeld

\* A query carries a cookie that was drawn, and one that was refused a cookie the server will
\* not accept again.
RefusalsOK ==
    \A q \in Query : fetch[q].at # "idle" =>
        /\ fetch[q].cookie \in drawn \cup {NoLogin}
        /\ Refused(q) => fetch[q].cookie \notin accepted

\* What any step does to a query, and to the sessions the server accepts.
LEMMA QueriesMove ==
    ASSUME CacheInv, [Next]_vars
    PROVE  /\ Fresh /\ drawn \subseteq drawn'
           /\ \A q \in Query : \/ fetch'[q] \in {fetch[q], Idle, Sent}
                               \/ fetch[q].at = "sent" /\ fetch'[q] = Answered(fetch[q])
<1>1. /\ fetch \in [Query -> {Idle} \cup Request \cup Answer]
      /\ "session" \in Query /\ "users" \in Query
  BY DEF CacheInv, CacheOK, Query
<1>2. CASE QuerySteps
  <2>1. UNCHANGED <<accepted, drawn>>
    BY <1>2 DEF QuerySteps, Fetch, Serve, FailFetch, TakeSession, TakeUsers, DropForQuery, Retry
  <2>2. ASSUME NEW p \in Query, fetch' \in {Ask(p), Dropped(p)}
        PROVE  \A q \in Query : fetch'[q] \in {fetch[q], Idle, Sent}
    BY <1>1, <2>2 DEF Ask, Dropped
  <2>3. CASE \E p \in Query : fetch' \in {Ask(p), Dropped(p)}
    BY <2>1, <2>2, <2>3 DEF Fresh
  <2>4. ASSUME NEW p \in Query, Serve(p)
        PROVE  \A q \in Query : \/ fetch'[q] = fetch[q]
                                \/ fetch[q].at = "sent" /\ fetch'[q] = Answered(fetch[q])
    BY <1>1, <2>4 DEF Serve
  <2>5. CASE \E p \in Query : Serve(p)
    BY <2>1, <2>4, <2>5 DEF Fresh
  <2> QED
    BY <1>1, <1>2, <2>3, <2>5
       DEF QuerySteps, Fetch, FailFetch, TakeSession, TakeUsers, DropForQuery, Retry
<1>3. ASSUME NEW m \in Call,
             \/ \E kind \in Kind \ {"login"} : Begin(m, kind)
             \/ BeginLogin(m)
             \/ \E login \in Login : ServeLogin(m, login)
             \/ ServeWrite(m) \/ ServeLogout(m)
             \/ DropForMutation(m) \/ TakeWrite(m) \/ TakeUpdate(m) \/ FailCall(m)
             \/ Land(m) \/ Tear(m) \/ Cancel(m) \/ Settle(m)
      PROVE  /\ Fresh /\ drawn \subseteq drawn'
             /\ \A q \in Query : fetch'[q] \in {fetch[q], Idle, Sent}
  BY <1>1, <1>3
     DEF Begin, BeginLogin, ServeLogin, ServeWrite, ServeLogout, DropForMutation, TakeWrite,
         TakeUpdate, FailCall, Land, Tear, Cancel, Settle, Ask, Dropped, Fresh
<1>4. CASE Elsewhere \/ UNCHANGED vars
  <2>1. fetch' = fetch
    BY <1>4 DEF Elsewhere, Revoke, LoginElsewhere, LogoutElsewhere, vars
  <2>2. Fresh /\ drawn \subseteq drawn'
    BY <1>4 DEF Elsewhere, Revoke, LoginElsewhere, LogoutElsewhere, vars, Fresh
  <2> QED BY <2>1, <2>2
<1> QED BY <1>2, <1>3, <1>4 DEF Next, CallSteps

LEMMA RefusalsStep == CacheInv /\ RefusalsOK /\ [Next]_vars => RefusalsOK'
<1> SUFFICES ASSUME CacheInv, RefusalsOK, [Next]_vars, NEW q \in Query, fetch'[q].at # "idle"
             PROVE  /\ fetch'[q].cookie \in drawn' \cup {NoLogin}
                    /\ fetch'[q].at = "answered" /\ fetch'[q].login = None =>
                          fetch'[q].cookie \notin accepted'
  BY DEF RefusalsOK, Refused, Ready
<1>1. /\ Fresh /\ drawn \subseteq drawn'
      /\ \/ fetch'[q] \in {fetch[q], Idle, Sent}
         \/ fetch[q].at = "sent" /\ fetch'[q] = Answered(fetch[q])
  BY QueriesMove
<1>2. jar \in drawn \cup {NoLogin} /\ accepted \subseteq Login /\ None \notin Login
  BY MarkAssumption DEF CacheInv, CacheOK, Cookie
<1>3. CASE fetch'[q] = fetch[q]
  <2>1. fetch[q].cookie \in drawn \cup {NoLogin}
    BY <1>3 DEF RefusalsOK
  <2>2. fetch[q].at = "answered" /\ fetch[q].login = None => fetch[q].cookie \notin accepted
    BY <1>3 DEF RefusalsOK, Refused, Ready
  <2> QED BY <1>1, <1>3, <2>1, <2>2, MarkAssumption DEF Fresh
<1>4. CASE fetch'[q] = Idle
  BY <1>4 DEF Idle
<1>5. CASE fetch'[q] = Sent
  BY <1>1, <1>2, <1>5 DEF Sent
<1>6. CASE fetch[q].at = "sent" /\ fetch'[q] = Answered(fetch[q])
  <2>1. fetch[q].cookie \in drawn \cup {NoLogin}
    BY <1>6 DEF RefusalsOK
  <2>2. /\ fetch'[q].cookie = fetch[q].cookie
        /\ fetch'[q].login = None => fetch[q].cookie \notin accepted
    BY <1>2, <1>6 DEF Answered
  <2> QED BY <1>1, <2>1, <2>2, MarkAssumption DEF Fresh
<1> QED BY <1>1, <1>3, <1>4, <1>5, <1>6

LEMMA RefusalsInvariant == Spec => []RefusalsOK
<1>1. Init => RefusalsOK
  <2> SUFFICES ASSUME Init PROVE \A q \in Query : fetch[q].at = "idle"
    BY DEF RefusalsOK
  <2> QED BY DEF Init, Idle
<1> QED BY <1>1, RefusalsStep, CacheInvariant, PTL DEF Spec

\* A logout that was answered ended the session of the cookie it carries.
LogoutsOK ==
    \A m \in Call : Open(m) /\ calls[m].kind = "logout" /\ ~At(m, "sent") =>
                        calls[m].cookie \notin accepted

LEMMA LogoutsStep == CacheInv /\ LogoutsOK /\ [Next]_vars => LogoutsOK'
<1> SUFFICES ASSUME CacheInv, LogoutsOK, [Next]_vars, NEW m \in Call,
                    calls'[m] # Idle, calls'[m].kind = "logout", calls'[m].at # "sent"
             PROVE  calls'[m].cookie \notin accepted'
  BY DEF LogoutsOK, Open, At
<1>0. calls \in [Call -> {Idle} \cup CallRecord]
  BY DEF CacheInv, CacheOK, CallRecord
<1>1. ASSUME calls[m] # Idle, calls[m].kind = "logout", calls[m].at # "sent",
             calls'[m].cookie = calls[m].cookie
      PROVE  calls'[m].cookie \notin accepted'
  <2>1. calls[m].cookie \notin accepted /\ calls[m].cookie \in drawn \cup {NoLogin}
    BY <1>1 DEF LogoutsOK, Open, At, CacheInv, CallsOK
  <2>2. Fresh
    BY QueriesMove
  <2> QED BY <1>1, <2>1, <2>2, MarkAssumption DEF Fresh
<1>2. CASE calls'[m] = calls[m]
  BY <1>1, <1>2
<1>3. CASE QuerySteps \/ Elsewhere \/ UNCHANGED vars
  <2>1. calls' = calls
    BY <1>3
       DEF QuerySteps, Fetch, Serve, FailFetch, TakeSession, TakeUsers, DropForQuery, Retry,
           Elsewhere, Revoke, LoginElsewhere, LogoutElsewhere, vars
  <2> QED BY <1>2, <2>1
<1>4. ASSUME NEW n \in Call,
             \/ \E kind \in Kind \ {"login"} : Begin(n, kind)
             \/ BeginLogin(n)
             \/ \E login \in Login : ServeLogin(n, login)
             \/ ServeWrite(n) \/ ServeLogout(n)
             \/ DropForMutation(n) \/ TakeWrite(n) \/ TakeUpdate(n) \/ FailCall(n)
             \/ Land(n) \/ Tear(n) \/ Cancel(n) \/ Settle(n)
      PROVE  calls'[m].cookie \notin accepted'
  <2>1. CASE \/ \E kind \in Kind \ {"login"} : Begin(n, kind)
             \/ BeginLogin(n)
    BY <1>0, <1>2, <2>1 DEF Begin, BeginLogin
  <2>2. CASE \E login \in Login : ServeLogin(n, login)
    BY <1>0, <1>2, <2>2 DEF ServeLogin, Is, Open, CallRecord
  <2>3. CASE ServeWrite(n)
    BY <1>0, <1>2, <2>3 DEF ServeWrite, Is, Open, CallRecord
  <2>4. CASE ServeLogout(n)
    <3>1. CASE n = m
      BY <1>0, <2>4, <3>1 DEF ServeLogout, Is, Open, CallRecord
    <3>2. CASE n # m
      BY <1>0, <1>2, <2>4, <3>2 DEF ServeLogout
    <3> QED BY <3>1, <3>2
  <2>5. CASE DropForMutation(n) \/ TakeWrite(n) \/ TakeUpdate(n) \/ FailCall(n) \/ Tear(n)
             \/ Settle(n)
    BY <1>0, <1>2, <2>5
       DEF DropForMutation, TakeWrite, TakeUpdate, FailCall, Tear, Settle, End
  <2>6. CASE Land(n) \/ Cancel(n)
    <3>1. CASE n = m
      <4>1. Open(m) /\ calls[m] \in CallRecord /\ calls[m].at # "sent"
        BY <1>0, <2>6, <3>1 DEF Land, Cancel, Is, Open, At
      <4>2. calls'[m].kind = calls[m].kind /\ calls'[m].cookie = calls[m].cookie
        BY <1>0, <2>6, <3>1, <4>1 DEF Land, Cancel, Goto, CallRecord
      <4> QED BY <1>1, <4>1, <4>2 DEF Open
    <3>2. CASE n # m
      BY <1>0, <1>2, <2>6, <3>2 DEF Land, Cancel, Goto
    <3> QED BY <3>1, <3>2
  <2> QED BY <1>4, <2>1, <2>2, <2>3, <2>4, <2>5, <2>6
<1> QED BY <1>3, <1>4 DEF Next, CallSteps

LEMMA LogoutsInvariant == Spec => []LogoutsOK
<1>1. Init => LogoutsOK
  BY DEF Init, LogoutsOK, Open
<1> QED BY <1>1, LogoutsStep, CacheInvariant, PTL DEF Spec

\* A session that is good is dropped only for a request that left with another cookie and ends
\* now; a query can be one only while a login or logout settles or after another tab changed
\* the jar (dropExpiredSession, useLogout, cancelQueries).
THEOREM GoodSessionStays == Spec => DroppedForCause
<1>1. ASSUME CacheInv, RefusalsOK, LogoutsOK, [Next]_vars
      PROVE  session' = None /\ session \in accepted /\ jar = session =>
                \/ \E m \in Call : LateCall(m)
                \/ (Pending \/ astray) /\ \E q \in Query : LateRefusal(q)
  <2> SUFFICES ASSUME session' = None, session \in accepted, jar = session
               PROVE  \/ \E m \in Call : LateCall(m)
                      \/ (Pending \/ astray) /\ \E q \in Query : LateRefusal(q)
    OBVIOUS
  <2>0. session \in Login /\ None \notin Login /\ jar # NoLogin
    BY <1>1, MarkAssumption DEF CacheInv, CacheOK
  <2>1. session' # session
    BY <2>0
  <2>2. ~Pending => ~Landed
    BY DEF Landed, Pending, At
  <2>3. \A q \in Query : Refused(q) => Pending \/ astray
    BY <1>1, <2>0, <2>2 DEF CacheInv, FetchesOfJar, Refused, Ready
  <2>4. ASSUME NEW q \in Query, Refused(q), fetch'[q] = Idle
        PROVE  (Pending \/ astray) /\ LateRefusal(q)
    <3>1. fetch[q].cookie \notin accepted
      BY <1>1, <2>4 DEF RefusalsOK, Refused, Ready
    <3> QED BY <2>3, <2>4, <3>1 DEF LateRefusal
  <2>5. CASE QuerySteps
    <3>1. /\ "session" \in Query /\ "users" \in Query
          /\ fetch \in [Query -> {Idle} \cup Request \cup Answer]
      BY <1>1 DEF Query, CacheInv, CacheOK
    <3>2. CASE TakeSession
      BY <2>4, <3>1, <3>2 DEF TakeSession, Refused, Dropped
    <3>3. CASE DropForQuery
      BY <2>4, <3>1, <3>3 DEF DropForQuery, Dropped
    <3> QED
      BY <2>1, <2>5, <3>2, <3>3 DEF QuerySteps, Fetch, Serve, FailFetch, TakeUsers, Retry
  <2>6. ASSUME NEW m \in Call, DropForMutation(m) PROVE LateCall(m)
    <3>1. Open(m) /\ Is(m, {"write"}, "answered") /\ ~calls[m].ok /\ calls[m].kind = "write"
      BY <2>6 DEF DropForMutation, Is
    <3>2. calls[m].cookie \notin accepted
      BY <1>1, <3>1 DEF CacheInv, CallsOK
    <3>3. calls'[m] = Idle
      BY <1>1, <2>6 DEF DropForMutation, End, CacheInv, CacheOK
    <3> QED BY <3>1, <3>2, <3>3 DEF LateCall
  <2>7. ASSUME NEW m \in Call, Land(m) \/ Tear(m) \/ Cancel(m) PROVE FALSE
    BY <2>1, <2>7 DEF Land, Tear, Cancel
  <2>8. ASSUME NEW m \in Call,
               \/ \E kind \in Kind \ {"login"} : Begin(m, kind)
               \/ BeginLogin(m)
               \/ \E login \in Login : ServeLogin(m, login)
               \/ ServeWrite(m) \/ ServeLogout(m)
               \/ TakeWrite(m) \/ TakeUpdate(m) \/ FailCall(m)
        PROVE  FALSE
    BY <2>1, <2>8 DEF Begin, BeginLogin, ServeLogin, ServeWrite, ServeLogout, TakeWrite,
                      TakeUpdate, FailCall
  <2>9. CASE Elsewhere \/ UNCHANGED vars
    BY <2>1, <2>9 DEF Elsewhere, Revoke, LoginElsewhere, LogoutElsewhere, vars
  <2>10. ASSUME NEW m \in Call, Settle(m) PROVE LateCall(m)
    <3>1. /\ Open(m) /\ At(m, "settling") /\ calls'[m] = Idle
          /\ session' = IF calls[m].kind = "login" THEN calls[m].cookie ELSE None
      BY <1>1, <2>10 DEF Settle, End, CacheInv, CacheOK
    <3>2. calls[m].kind \in {"login", "logout"}
          /\ (calls[m].kind = "login" => calls[m].cookie \in Login)
      BY <1>1, <3>1, CallShape DEF At
    <3>3. calls[m].cookie \notin accepted
      BY <1>1, <2>0, <3>1, <3>2 DEF LogoutsOK, At
    <3> QED BY <3>1, <3>3 DEF LateCall
  <2> QED BY <1>1, <2>5, <2>6, <2>7, <2>8, <2>9, <2>10 DEF Next, CallSteps
<1> QED BY CacheInvariant, RefusalsInvariant, LogoutsInvariant, <1>1, PTL DEF Spec, DroppedForCause
=============================================================================
