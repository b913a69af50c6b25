------------------------------- MODULE Reaper -------------------------------
(***************************************************************************)
(* The reaper of authkit/reaper.go: a goroutine that sweeps the store once *)
(* and then at every tick, sessions first and then tokens, each half a     *)
(* store call that may fail, or time out and land later.  Stop cancels the *)
(* loop and waits for it.  Around it callers open sessions and send        *)
(* invites, and time passes.                                               *)
(***************************************************************************)
EXTENDS AccountStore

CONSTANT MaxLost    \* bound: the calls given up on that have yet to land

VARIABLES
    loop,           \* where the goroutine is: the call it waits on, or its select
    at,             \* the instant of the sweep under way
    timer,          \* the ticker, whose channel holds one tick
    stop,           \* the caller of Stop; the context is cancelled once it waits
    outcome,        \* history: the half the last sweep failed in, if it did
    lost            \* the calls that were given up on and may still land

loopVars == <<loop, at, timer, stop, outcome, lost>>
reaperVars == <<rowVars, loopVars>>

Half == {"sessions", "tokens"}

ReaperInit ==
    /\ Init
    /\ loop = "new" /\ at = 0 /\ timer = "none" /\ stop = "none"
    /\ outcome = "fine" /\ lost = {}

-----------------------------------------------------------------------------
\* What a half of Sweep does to the store when its statement lands.
Delete(half, now) ==
    IF half = "sessions" THEN DeleteExpiredSessions(now) ELSE DeleteExpiredTokens(now)

\* reapOnce reads the time and makes the first call.
BeginSweep ==
    /\ loop' = "sessions"
    /\ at' = clock

\* The sweep is over; after the first one the ticker starts.
EndSweep(result) ==
    /\ loop' = "select"
    /\ timer' = IF timer = "none" THEN "armed" ELSE timer
    /\ outcome' = result

Start ==
    /\ loop = "new"
    /\ BeginSweep
    /\ UNCHANGED <<rowVars, timer, stop, outcome, lost>>

\* A fault: a sweep that finds no expired session leaves the tokens for another time.
SessionsDoneSkipping ==
    /\ loop = "sessions"
    /\ DeleteExpiredSessions(at)
    /\ IF sessions' = sessions THEN EndSweep("fine")
       ELSE loop' = "tokens" /\ UNCHANGED <<timer, outcome>>
    /\ UNCHANGED <<at, stop, lost>>

SessionsDone ==
    /\ loop = "sessions"
    /\ DeleteExpiredSessions(at)
    /\ loop' = "tokens"
    /\ UNCHANGED <<at, timer, stop, outcome, lost>>

TokensDone ==
    /\ loop = "tokens"
    /\ DeleteExpiredTokens(at)
    /\ EndSweep("fine")
    /\ UNCHANGED <<at, stop, lost>>

\* The store answers with an error, or the context is cancelled or past its timeout.  The
\* statement may be with the database by then, which runs it later or never.
SweepFails ==
    /\ loop \in Half
    /\ EndSweep(loop)
    /\ \/ UNCHANGED lost
       \/ Cardinality(lost) < MaxLost /\ lost' = lost \cup {[half |-> loop, at |-> at]}
    /\ UNCHANGED <<rowVars, at, stop>>

Land(l) ==
    /\ Delete(l.half, l.at)
    /\ lost' = lost \ {l}
    /\ UNCHANGED <<loop, at, timer, stop, outcome>>

\* The ticker drops a tick nobody has taken yet.
Fire ==
    /\ timer = "armed"
    /\ timer' = "fired"
    /\ UNCHANGED <<rowVars, loop, at, stop, outcome, lost>>

\* A fault: a timer in the place of the ticker.
TakeOnlyTick ==
    /\ loop = "select" /\ timer = "fired"
    /\ BeginSweep
    /\ timer' = "stopped"
    /\ UNCHANGED <<rowVars, stop, outcome, lost>>

\* select takes the tick, even when the context is done as well.
TakeTick ==
    /\ loop = "select" /\ timer = "fired"
    /\ BeginSweep
    /\ timer' = "armed"
    /\ UNCHANGED <<rowVars, stop, outcome, lost>>

\* A fault: the loop ends without closing done.
LeaveOpen ==
    /\ loop = "select" /\ stop # "none"
    /\ loop' = "gone"
    /\ timer' = "stopped"
    /\ UNCHANGED <<rowVars, at, stop, outcome, lost>>

\* select sees the context done; the ticker is stopped and done is closed.
Leave ==
    /\ loop = "select" /\ stop # "none"
    /\ loop' = "done"
    /\ timer' = "stopped"
    /\ UNCHANGED <<rowVars, at, stop, outcome, lost>>

\* Stop of a started reaper cancels the context; of one never started it returns at once.
Stop ==
    /\ stop = "none"
    /\ stop' = IF loop = "new" THEN "none" ELSE "waiting"
    /\ UNCHANGED <<rowVars, loop, at, timer, outcome, lost>>

Stopped ==
    /\ stop = "waiting" /\ loop = "done"
    /\ stop' = "returned"
    /\ UNCHANGED <<rowVars, loop, at, timer, outcome, lost>>

-----------------------------------------------------------------------------
\* The rest of the program: invites and their resends, redemptions and logins.
Callers ==
    \E a \in Account, hash \in Hash, expires \in Expiry :
        LET invite == [hash |-> hash, user |-> a, purpose |-> "invite", expires |-> expires]
        IN  \/ CreateUser(a, NoRole, NoPassword)
            \/ CreateToken(invite) \/ ReplaceToken(invite)
            \/ \E t \in tokens, p \in Password : ActivateByToken(t, clock, p)
            \/ CreateSession([hash |-> hash, user |-> a, expires |-> expires])

Sweeping == SessionsDone \/ TokensDone \/ SweepFails

ReaperNext ==
    \/ Start \/ Sweeping \/ Fire \/ TakeTick \/ Leave \/ Stop \/ Stopped
    \/ \E l \in lost : Land(l)
    \/ (Callers \/ Tick) /\ UNCHANGED loopVars

\* A call of the store ends: reapOnce bounds it by a timeout.  The ticker ticks, and a
\* select that finds its context done at every turn takes that case at last, since it draws
\* among the ready ones.  Whether calls succeed is nobody's promise.
Fairness ==
    /\ WF_reaperVars(Sweeping)
    /\ WF_reaperVars(Fire) /\ WF_reaperVars(TakeTick)
    /\ SF_reaperVars(Leave) /\ WF_reaperVars(Stopped)
    /\ WF_reaperVars(Tick /\ UNCHANGED loopVars)

ReaperSpec == ReaperInit /\ [][ReaperNext]_reaperVars /\ Fairness

-----------------------------------------------------------------------------
\* A call to Stop returns, whatever the sweep in flight and the ticker do.
StopReturns == stop = "waiting" ~> stop = "returned"

Running == loop # "new" /\ stop = "none"

Expired(hash) ==
    Running /\ \E s \in sessions : s.hash = hash /\ ~Live(s, clock)

\* While the reaper runs an expired session goes, unless session halves fail for ever.
\* Failing token halves do not keep one.
SessionsCollected ==
    []<>(outcome = "sessions")
    \/ \A hash \in Hash : Expired(hash) ~> (stop # "none" \/ \A s \in sessions : s.hash # hash)

\* While the reaper runs an account behind an expired invite goes, or is renewed or
\* activated, unless halves of either kind fail for ever: a session half that fails skips
\* the token half, though that one would have succeeded.
StrandedCollected ==
    []<>(outcome # "fine")
    \/ \A a \in Account :
          (Running /\ a \in Stranded(clock)) ~> (stop # "none" \/ a \notin Stranded(clock))

\* Nothing is swept before its time, by a call that lands long after it was given up on
\* included: a session goes only once expired, an account only unconfirmed and without a
\* live invite.
NothingLiveSwept ==
    [][/\ \A s \in sessions \ sessions' : ~Live(s, clock) \/ ~Known(s.user)'
       /\ \A a \in Account :
             Known(a) /\ ~Known(a)' => ~users[a].confirmed /\ Standing(a, "invite") = {}]_reaperVars
=============================================================================
