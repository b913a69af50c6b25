------------------------------- MODULE Setup --------------------------------
(***************************************************************************)
(* First-time setup (authkit/setup.go, setupcode.go, setuplock_unix.go):   *)
(* several processes, each with one Setup over one code file, prepare it,  *)
(* check codes and create the first account, a system call at a time.      *)
(*                                                                         *)
(* A stale code is renewed under the Setup's own mutex and then the lock   *)
(* file all processes share.  First codes are linked into place and the    *)
(* file is removed without either.                                         *)
(*                                                                         *)
(* A file stands for its code: codes are random, so no two files have the  *)
(* same.  What os.SameFile and the modification time tell apart, the code  *)
(* does here.  The store creates a first account in one step, as           *)
(* AccountStore and PgFirstUser do.                                        *)
(***************************************************************************)
EXTENDS Integers, FiniteSets

CONSTANTS
    Setups,     \* the Setup objects, one in each process
    Calls,      \* the goroutines that call them
    SetupOf,    \* the Setup each goroutine calls
    Code,       \* the codes that can be drawn
    Wrong,      \* what a person types that is no code
    Free,       \* the holder of a lock nobody holds
    NoFile,     \* what lstat finds where no file is
    Lifetime,   \* SetupConfig.CodeLifetime
    MaxClock,   \* a bound: time stops there
    Requests,   \* what is asked for after the start: "check", "create", "shell"
    MaxChmods,  \* a bound: how often the owner changes the mode of the code file
    Faulty      \* whether system calls and the store may fail

ASSUME SetupAssumption ==
    /\ SetupOf \in [Calls -> Setups]
    /\ Setups \cap Calls = {}
    /\ Free \notin Setups \cup Calls
    /\ Wrong \notin Code
    /\ Lifetime \in Nat \ {0}
    /\ MaxClock \in Nat
    /\ Requests \subseteq {"check", "create", "shell"}
    /\ MaxChmods \in Nat
    /\ Faulty \in BOOLEAN

VARIABLES
    clock,
    file,       \* what is at CodeFile
    chmods,     \* how often the owner has changed the mode of the code file
    accounts,   \* what the store holds, by who created it
    up,         \* the processes whose Prepare succeeded
    closed,     \* Setup.closed
    renewing,   \* Setup.renewing: the call holding the renewal mutex
    left,       \* Setup.lock.left: none, or a channel that is open or closed
    behind,     \* how many flock calls ended waits have left behind
    lock,       \* who holds the lock file: a call, or a Setup's flock left behind
    call,       \* where each call stands and what it has read
    announced,  \* the code each Setup handed out last, while it is live, no account exists
                \* and others could not read it at any time
    exposed     \* the codes others could read at some time

vars == <<clock, file, chmods, accounts, up, closed, renewing, left, behind, lock, call,
          announced, exposed>>

-----------------------------------------------------------------------------
\* A code file: its code, its modification time, and whether others may read it.
File == [code : Code, made : 0..MaxClock, shared : BOOLEAN]

ASSUME NoFileAssumption == NoFile \notin File

NoCall == [op |-> "none", at |-> "idle", reading |-> "none", given |-> Wrong,
           seen |-> NoFile, held |-> NoFile, ours |-> NoFile]

Op == {"none", "prepare", "check", "create"}

At == {"idle", "refuse", "look", "open", "read", "mutex", "left", "flock", "temp", "compare",
       "rename", "place", "link", "undo", "unlink", "announce", "create", "finish", "remove"}

\* Who called readCode: Check or ensureCode, renewLocked, keptCode, readBack, removeCode.
Reading == {"none", "first", "again", "kept", "back", "finish"}

TypeOK ==
    /\ clock \in 0..MaxClock
    /\ file \in File \cup {NoFile}
    /\ chmods \in 0..MaxChmods
    /\ accounts \in [setup : Nat, shell : BOOLEAN]
    /\ up \in [Setups -> BOOLEAN]
    /\ closed \in [Setups -> BOOLEAN]
    /\ renewing \in [Setups -> Calls \cup {Free}]
    /\ left \in [Setups -> {"none", "open", "closed"}]
    /\ behind \in [Setups -> Nat]
    /\ lock \in Calls \cup Setups \cup {Free}
    /\ call \in [Calls -> [op : Op, at : At, reading : Reading, given : Code \cup {Wrong},
                           seen : File \cup {NoFile}, held : File \cup {NoFile},
                           ours : File \cup {NoFile}]]
    /\ announced \in [Setups -> File \cup {NoFile}]
    /\ exposed \subseteq Code

Expired(f) == clock >= f.made + Lifetime

Stale(f) == f.shared \/ Expired(f)

HasUsers == accounts.setup > 0 \/ accounts.shell

Is(c, at) == call[c].at = at

Read(c, reading, at) == call[c].reading = reading /\ call[c].at = at

\* rand.Text never repeats a code: the new one is in nobody's hands.  Which of those it is
\* makes no difference, so one is chosen.
InHand == {f.code : f \in ({announced[s] : s \in Setups} \cup {file}
                             \cup {call[c].seen : c \in Calls}
                             \cup {call[c].held : c \in Calls}
                             \cup {call[c].ours : c \in Calls}) \ {NoFile}}
             \cup {call[c].given : c \in Calls}

\* A fault: the file is stamped with the time its code expires.
NewFileDated ==
    [code |-> CHOOSE k \in Code : k \notin InHand, made |-> clock + Lifetime, shared |-> FALSE]

NewFile == [code |-> CHOOSE k \in Code : k \notin InHand, made |-> clock, shared |-> FALSE]

-----------------------------------------------------------------------------
Init ==
    /\ clock = 0
    /\ file = NoFile
    /\ chmods = 0
    /\ accounts = [setup |-> 0, shell |-> FALSE]
    /\ up = [s \in Setups |-> FALSE]
    /\ closed = [s \in Setups |-> FALSE]
    /\ renewing = [s \in Setups |-> Free]
    /\ left = [s \in Setups |-> "none"]
    /\ behind = [s \in Setups |-> 0]
    /\ lock = Free
    /\ call = [c \in Calls |-> NoCall]
    /\ announced = [s \in Setups |-> NoFile]
    /\ exposed = {}

site == <<clock, chmods, accounts>>
locks == <<renewing, left, behind, lock>>
running == <<up, closed>>
handed == <<announced, exposed>>

Goto(c, at) == call' = [call EXCEPT ![c].at = at]

StartReading(c, reading) ==
    call' = [call EXCEPT ![c] = [@ EXCEPT !.at = "look", !.reading = reading, !.seen = NoFile]]

\* A call returns.  The deferred releases, if it holds them, are the lock file's and then
\* the mutex's; nothing else happens between them.
Release(c) ==
    /\ renewing' = [s \in Setups |-> IF renewing[s] = c THEN Free ELSE renewing[s]]
    /\ lock' = IF lock = c THEN Free ELSE lock

Return(c) ==
    /\ call' = [call EXCEPT ![c] = NoCall]
    /\ Release(c)
    /\ UNCHANGED <<left, behind>>

\* A Prepare that answers no error lets its process serve.
Answer(c) ==
    /\ Return(c)
    /\ up' = IF call[c].op = "prepare" THEN [up EXCEPT ![SetupOf[c]] = TRUE] ELSE up

Error(c) == Return(c) /\ UNCHANGED up

\* Go on to placeCode, or to failedReadBack.
Place(c) ==
    /\ call' = [call EXCEPT ![c] = [@ EXCEPT !.at = "place", !.seen = NoFile]]
    /\ UNCHANGED <<up, locks>>

Undo(c) ==
    /\ call' = [call EXCEPT ![c] = [@ EXCEPT !.at = "undo", !.seen = NoFile]]
    /\ UNCHANGED <<up, locks>>

\* A renewal, or Prepare, has its code.
Got(c) ==
    /\ Goto(c, "announce")
    /\ Release(c)
    /\ UNCHANGED <<left, behind>>

-----------------------------------------------------------------------------
\* The calls.  A process prepares before it serves.
Prepare(c) ==
    /\ Is(c, "idle")
    /\ ~up[SetupOf[c]]
    /\ \A d \in Calls : SetupOf[d] = SetupOf[c] => Is(d, "idle")
    /\ call' = [call EXCEPT ![c] = [NoCall EXCEPT !.op = "prepare", !.at = "refuse"]]
    /\ UNCHANGED <<site, file, running, locks, handed>>

Submit(c, op, given) ==
    /\ Is(c, "idle")
    /\ up[SetupOf[c]]
    /\ op \in Requests
    /\ call' = [call EXCEPT ![c] = [NoCall EXCEPT !.op = op, !.at = "refuse", !.given = given]]
    /\ UNCHANGED <<site, file, running, locks, handed>>

\* Which code is typed decides what Check answers and nothing else it does.
Check(c) == Submit(c, "check", Wrong)

\* A person types a code read from the file.  With a wrong one this is a Check.
CreateFirstAccount(c) ==
    \E f \in ({announced[s] : s \in Setups} \cup {file}) \ {NoFile} : Submit(c, "create", f.code)

\* What readCode's caller does when there is no file: ensureCode and renewLocked place a
\* code, readBack looks again, removeCode has nothing to do, Check and keptCode refuse.
Missing(c) ==
    /\ UNCHANGED closed
    /\ CASE call[c].reading = "again" \/ (call[c].reading = "first" /\ call[c].op = "prepare")
              -> Place(c)
         [] call[c].reading = "back" -> Undo(c)
         [] call[c].reading = "finish" -> Answer(c)
         [] OTHER -> Error(c)

\* Nor does removeCode mind what is no code; others answer ErrSetupCodeFile.
Refused(c) ==
    /\ UNCHANGED closed
    /\ IF call[c].reading = "finish" THEN Answer(c) ELSE Error(c)

\* Any other failure; finish only warns of it.
Failed(c) ==
    /\ UNCHANGED closed
    /\ CASE call[c].reading = "back" -> Undo(c)
         [] call[c].reading = "finish" -> Answer(c)
         [] OTHER -> Error(c)

\* refuseClosed.  Prepare and Check may be handed no store: only closed counts then.
RefuseClosed(c) ==
    LET s == SetupOf[c] IN
    /\ Is(c, "refuse")
    /\ \/ /\ closed[s]
          /\ Answer(c)
          /\ UNCHANGED closed
       \/ /\ ~closed[s] /\ HasUsers
          /\ closed' = [closed EXCEPT ![s] = TRUE]
          /\ StartReading(c, "finish")
          /\ UNCHANGED <<up, locks>>
       \/ /\ ~closed[s] /\ (HasUsers => call[c].op # "create")
          /\ StartReading(c, "first")
          /\ UNCHANGED <<running, locks>>
       \/ Faulty /\ Error(c) /\ UNCHANGED closed
    /\ UNCHANGED <<site, file, handed>>

-----------------------------------------------------------------------------
\* readCode: lstat, then open and compare with what lstat saw, then what it read is used.
\* It finds no file, refuses one that changed meanwhile, or fails.
Look(c) ==
    /\ Is(c, "look")
    /\ \/ /\ file # NoFile
          /\ call' = [call EXCEPT ![c] = [@ EXCEPT !.at = "open", !.seen = file]]
          /\ UNCHANGED <<running, locks>>
       \/ file = NoFile /\ Missing(c)
       \/ Faulty /\ Failed(c)
    /\ UNCHANGED <<site, file, handed>>

Open(c) ==
    /\ Is(c, "open")
    /\ \/ /\ file # NoFile /\ file.code = call[c].seen.code
          /\ Goto(c, "read")
          /\ UNCHANGED <<running, locks>>
       \/ file = NoFile /\ Missing(c)
       \/ file # NoFile /\ file.code # call[c].seen.code /\ Refused(c)
       \/ Faulty /\ Failed(c)
    /\ UNCHANGED <<site, file, handed>>

\* Check and ensureCode, with what they read.
FirstRead(c) ==
    /\ Read(c, "first", "read")
    /\ \/ /\ Stale(call[c].seen)
          /\ call' = [call EXCEPT ![c] = [@ EXCEPT !.at = "mutex", !.held = call[c].seen,
                                                 !.given = Wrong, !.seen = NoFile]]
          /\ UNCHANGED <<running, locks>>
       \/ /\ ~Stale(call[c].seen) /\ call[c].op = "prepare"
          /\ Goto(c, "announce")
          /\ UNCHANGED <<running, locks>>
       \/ /\ ~Stale(call[c].seen)
          /\ call[c].op = "create" /\ call[c].given = call[c].seen.code
          /\ call' = [call EXCEPT ![c] = [@ EXCEPT !.at = "create", !.given = Wrong,
                                                 !.seen = NoFile]]
          /\ UNCHANGED <<running, locks>>
       \/ /\ ~Stale(call[c].seen) /\ call[c].op # "prepare"
          /\ call[c].op = "create" => call[c].given # call[c].seen.code
          /\ Answer(c) /\ UNCHANGED closed
    /\ UNCHANGED <<site, file, handed>>

\* takeRenewal: the mutex at once when it is free, or a wait that the context may end.
TakeMutex(c) ==
    LET s == SetupOf[c] IN
    /\ Is(c, "mutex")
    /\ renewing[s] = Free
    /\ renewing' = [renewing EXCEPT ![s] = c]
    /\ Goto(c, "left")
    /\ UNCHANGED <<site, file, running, left, behind, lock, handed>>

MutexWaitEnds(c) ==
    /\ Is(c, "mutex")
    /\ renewing[SetupOf[c]] # Free
    /\ Error(c)
    /\ UNCHANGED <<site, file, closed, handed>>

\* A fault: the call left behind is not waited for.
WaitLeftNever(c) ==
    /\ Is(c, "left")
    /\ Goto(c, "flock")
    /\ UNCHANGED <<site, file, running, locks, handed>>

\* waitLeftFlock, then the lock file is opened and a flock call started on it.
WaitLeft(c) ==
    LET s == SetupOf[c] IN
    /\ Is(c, "left")
    /\ left[s] # "open"
    /\ left' = [left EXCEPT ![s] = "none"]
    /\ Goto(c, "flock")
    /\ UNCHANGED <<site, file, running, renewing, behind, lock, handed>>

OpenLockFails(c) ==
    LET s == SetupOf[c] IN
    /\ Faulty
    /\ Is(c, "left")
    /\ left[s] # "open"
    /\ call' = [call EXCEPT ![c] = NoCall]
    /\ left' = [left EXCEPT ![s] = "none"]
    /\ Release(c)
    /\ UNCHANGED <<site, file, running, behind, handed>>

LeftWaitEnds(c) ==
    /\ Is(c, "left")
    /\ left[SetupOf[c]] # "none"
    /\ Error(c)
    /\ UNCHANGED <<site, file, closed, handed>>

\* The kernel grants the lock to one of those that ask.
Flock(c) ==
    /\ Is(c, "flock")
    /\ lock = Free
    /\ lock' = c
    /\ UNCHANGED <<site, file, running, renewing, left, behind, call, handed>>

FlockFails(c) ==
    /\ Faulty
    /\ Is(c, "flock")
    /\ lock # c
    /\ Error(c)
    /\ UNCHANGED <<site, file, closed, handed>>

Locked(c) ==
    /\ Is(c, "flock")
    /\ lock = c
    /\ StartReading(c, "again")
    /\ UNCHANGED <<site, file, running, locks, handed>>

\* A wait whose context ends leaves its flock call behind, granted or not, and returns.
LockWaitEnds(c) ==
    LET s == SetupOf[c] IN
    /\ Is(c, "flock")
    /\ behind' = [behind EXCEPT ![s] = @ + 1]
    /\ left' = [left EXCEPT ![s] = "open"]
    /\ lock' = IF lock = c THEN s ELSE lock
    /\ renewing' = [renewing EXCEPT ![s] = Free]
    /\ call' = [call EXCEPT ![c] = NoCall]
    /\ UNCHANGED <<site, file, running, handed>>

\* A fault: the channel closes and the file stays open.
CloseLeftLeaking(s) ==
    /\ behind[s] > 0
    /\ lock = s
    /\ behind' = [behind EXCEPT ![s] = @ - 1]
    /\ left' = [left EXCEPT ![s] = "closed"]
    /\ UNCHANGED <<site, file, running, renewing, lock, call, handed>>

\* closeAfterFlock: the call left behind answers, its file closes, then the channel.
LeftFlock(s) ==
    /\ behind[s] > 0
    /\ lock = Free
    /\ lock' = s
    /\ UNCHANGED <<site, file, running, renewing, left, behind, call, handed>>

CloseLeft(s) ==
    /\ behind[s] > 0
    /\ lock = s
    /\ lock' = Free
    /\ behind' = [behind EXCEPT ![s] = @ - 1]
    /\ left' = [left EXCEPT ![s] = "closed"]
    /\ UNCHANGED <<site, file, running, renewing, call, handed>>

\* The call left behind answers an error; whoever holds the lock keeps it.
LeftFlockFails(s) ==
    /\ Faulty
    /\ behind[s] > 0
    /\ lock # s
    /\ behind' = [behind EXCEPT ![s] = @ - 1]
    /\ left' = [left EXCEPT ![s] = "closed"]
    /\ UNCHANGED <<site, file, running, renewing, lock, call, handed>>

-----------------------------------------------------------------------------
\* A fault: what another renewal put there is not looked at.
ReadAgainBlind(c) ==
    /\ Read(c, "again", "read")
    /\ Goto(c, "temp")
    /\ UNCHANGED <<site, file, running, locks, handed>>

\* A fault: a file that looks live is kept, were it the one that was stale before.
ReadAgainLoose(c) ==
    /\ Read(c, "again", "read")
    /\ IF ~Stale(call[c].seen) THEN Got(c) ELSE Goto(c, "temp") /\ UNCHANGED locks
    /\ UNCHANGED <<site, file, running, handed>>

\* renewLocked, with what it read under both locks: another renewal's code is kept.
ReadAgain(c) ==
    /\ Read(c, "again", "read")
    /\ IF call[c].seen.code # call[c].held.code /\ ~Stale(call[c].seen)
       THEN Got(c)
       ELSE Goto(c, "temp") /\ UNCHANGED locks
    /\ UNCHANGED <<site, file, running, handed>>

\* writeTemp, for replaceCode and for linkFresh: the file's time is the time it is written.
WriteTemp(c, next) ==
    /\ \/ /\ ~(Code \subseteq InHand)
          /\ call' = [call EXCEPT ![c] = [@ EXCEPT !.at = next, !.ours = NewFile]]
          /\ exposed' = exposed \cap InHand
          /\ UNCHANGED <<running, locks>>
       \/ Faulty /\ Error(c) /\ UNCHANGED <<closed, exposed>>
    /\ UNCHANGED <<site, file, announced>>

\* replaceCode: write, look whether the code file is still the one read, rename over it.
Temp(c) == Is(c, "temp") /\ WriteTemp(c, "compare")

Compare(c) ==
    /\ Is(c, "compare")
    /\ \/ /\ file = NoFile
          /\ Place(c) /\ UNCHANGED closed
       \/ /\ file # NoFile /\ file.code # call[c].seen.code
          /\ StartReading(c, "kept") /\ UNCHANGED <<running, locks>>
       \/ /\ file # NoFile /\ file.code = call[c].seen.code
          /\ Goto(c, "rename") /\ UNCHANGED <<running, locks>>
       \/ Faulty /\ Error(c) /\ UNCHANGED closed
    /\ UNCHANGED <<site, file, handed>>

\* A fault: the stale file is removed first, and a fresh one linked into its place.
RemoveFirst(c) ==
    /\ Is(c, "rename")
    /\ file' = NoFile
    /\ Goto(c, "link")
    /\ UNCHANGED <<site, running, locks, handed>>

Rename(c) ==
    /\ Is(c, "rename")
    /\ \/ /\ file' = call[c].ours
          /\ StartReading(c, "back")
          /\ UNCHANGED <<running, locks>>
       \/ Faulty /\ Error(c) /\ UNCHANGED <<closed, file>>
    /\ UNCHANGED <<site, handed>>

\* keptCode, with what it read.
KeptRead(c) ==
    /\ Read(c, "kept", "read")
    /\ IF ~Stale(call[c].seen)
       THEN Got(c) /\ UNCHANGED up
       ELSE Error(c)
    /\ UNCHANGED <<site, file, closed, handed>>

\* placeCode: write, then link unless something is there.
PlaceTemp(c) == Is(c, "place") /\ WriteTemp(c, "link")

Link(c) ==
    /\ Is(c, "link")
    /\ \/ /\ file' = IF file = NoFile THEN call[c].ours ELSE file
          /\ call' = [call EXCEPT ![c] = [@ EXCEPT !.at = "look", !.reading = "back",
                                     !.seen = NoFile,
                                     !.ours = IF file = NoFile THEN call[c].ours ELSE NoFile]]
          /\ UNCHANGED <<running, locks>>
       \/ Faulty /\ Error(c) /\ UNCHANGED <<closed, file>>
    /\ UNCHANGED <<site, handed>>

\* readBack, with what it read, and failedReadBack.
ReadBack(c) ==
    /\ Read(c, "back", "read")
    /\ IF call[c].seen.shared
       THEN Goto(c, "unlink") /\ UNCHANGED locks
       ELSE Got(c)
    /\ UNCHANGED <<site, file, running, handed>>

Ours(c) == NoFile \notin {file, call[c].ours} /\ file.code = call[c].ours.code

FailedReadBack(c) ==
    /\ Is(c, "undo")
    /\ \/ Ours(c) /\ Goto(c, "unlink") /\ UNCHANGED <<up, locks>>
       \/ (~Ours(c) \/ Faulty) /\ Error(c)
    /\ UNCHANGED <<site, file, closed, handed>>

\* unlink goes by the path, whatever is there by then.
Unlink(c) ==
    /\ Is(c, "unlink")
    /\ file' = NoFile \/ (Faulty /\ UNCHANGED file)
    /\ Error(c)
    /\ UNCHANGED <<site, closed, handed>>

\* Prepare and judge hand out what the renewal, the placing or the first read found.
Announce(c) ==
    /\ Is(c, "announce")
    /\ announced' = IF HasUsers \/ Stale(call[c].seen) \/ call[c].seen.code \in exposed
                    THEN announced
                    ELSE [announced EXCEPT ![SetupOf[c]] = call[c].seen]
    /\ Answer(c)
    /\ UNCHANGED <<site, file, closed, exposed>>

-----------------------------------------------------------------------------
\* CreateFirstUser.  It refuses when the store holds an account; the details may be refused
\* first, and the store may fail.
CreateFirstUser(c) ==
    /\ Is(c, "create")
    /\ \/ /\ ~HasUsers
          /\ accounts' = [accounts EXCEPT !.setup = @ + 1]
          /\ announced' = [s \in Setups |-> NoFile]
          /\ Goto(c, "finish")
          /\ UNCHANGED <<running, locks>>
       \/ Error(c) /\ UNCHANGED <<accounts, closed, announced>>
    /\ UNCHANGED <<clock, chmods, file, exposed>>

\* finish and removeCode: what is no code, or changed while it was read, stays.
Finish(c) ==
    /\ Is(c, "finish")
    /\ closed' = [closed EXCEPT ![SetupOf[c]] = TRUE]
    /\ StartReading(c, "finish")
    /\ UNCHANGED <<site, file, up, locks, handed>>

FinishRead(c) ==
    /\ Read(c, "finish", "read")
    /\ Goto(c, "remove")
    /\ UNCHANGED <<site, file, running, locks, handed>>

Remove(c) ==
    /\ Is(c, "remove")
    /\ file' = NoFile \/ (Faulty /\ UNCHANGED file)
    /\ Answer(c)
    /\ UNCHANGED <<site, closed, handed>>

-----------------------------------------------------------------------------
\* The world: an account made from the command line, time, the owner's chmod, a crash.
Forget(files) ==
    [s \in Setups |-> IF announced[s] \in files THEN NoFile ELSE announced[s]]

ShellCreates ==
    /\ "shell" \in Requests
    /\ ~accounts.shell
    /\ accounts' = [accounts EXCEPT !.shell = TRUE]
    /\ announced' = [s \in Setups |-> NoFile]
    /\ UNCHANGED <<clock, chmods, file, running, locks, call, exposed>>

\* announced forgets what expires.
Tick ==
    /\ clock < MaxClock
    /\ clock' = clock + 1
    /\ announced' = Forget({f \in File : clock' >= f.made + Lifetime})
    /\ UNCHANGED <<chmods, accounts, file, running, locks, call, exposed>>

\* The owner's chmod.
Share ==
    /\ chmods < MaxChmods
    /\ file # NoFile
    /\ chmods' = chmods + 1
    /\ file' = [file EXCEPT !.shared = ~@]
    /\ announced' = Forget({f \in File : f.code = file.code})
    /\ exposed' = exposed \cup {file.code}
    /\ UNCHANGED <<clock, accounts, running, locks, call>>

\* The kernel closes the files of a process that dies, and with them its locks.
Crash(s) ==
    LET mine == {c \in Calls : SetupOf[c] = s} IN
    /\ up' = [up EXCEPT ![s] = FALSE]
    /\ closed' = [closed EXCEPT ![s] = FALSE]
    /\ renewing' = [renewing EXCEPT ![s] = Free]
    /\ left' = [left EXCEPT ![s] = "none"]
    /\ behind' = [behind EXCEPT ![s] = 0]
    /\ lock' = IF lock \in mine \cup {s} THEN Free ELSE lock
    /\ call' = [c \in Calls |-> IF c \in mine THEN NoCall ELSE call[c]]
    /\ UNCHANGED <<site, file, handed>>

-----------------------------------------------------------------------------
\* What a call does by itself once it has begun.
Step(c) ==
    \/ RefuseClosed(c) \/ Look(c) \/ Open(c) \/ FirstRead(c)
    \/ WaitLeft(c) \/ Locked(c)
    \/ ReadAgain(c) \/ Temp(c) \/ Compare(c) \/ Rename(c) \/ KeptRead(c)
    \/ PlaceTemp(c) \/ Link(c) \/ ReadBack(c) \/ FailedReadBack(c) \/ Unlink(c)
    \/ Announce(c) \/ CreateFirstUser(c) \/ Finish(c) \/ FinishRead(c) \/ Remove(c)

ContextEnds(c) == MutexWaitEnds(c) \/ LeftWaitEnds(c) \/ LockWaitEnds(c)

Fault(c) == OpenLockFails(c) \/ FlockFails(c)

Begin(c) == Prepare(c) \/ Check(c) \/ CreateFirstAccount(c)

Next ==
    \/ \E c \in Calls :
        Begin(c) \/ Step(c) \/ TakeMutex(c) \/ Flock(c) \/ ContextEnds(c) \/ Fault(c)
    \/ \E s \in Setups : LeftFlock(s) \/ CloseLeft(s) \/ LeftFlockFails(s) \/ Crash(s)
    \/ ShellCreates \/ Tick \/ Share

Spec == Init /\ [][Next]_vars

\* Goroutines run.  A channel serves those blocked on it in turn, and the kernel those
\* that wait for a file lock.  No context need end, no process crash and no wait fail.
Fairness ==
    /\ \A c \in Calls : WF_vars(Step(c)) /\ SF_vars(TakeMutex(c)) /\ SF_vars(Flock(c))
    /\ \A s \in Setups : SF_vars(LeftFlock(s)) /\ WF_vars(CloseLeft(s))

FairSpec == Spec /\ Fairness

-----------------------------------------------------------------------------
\* While the site has no account, every code handed out is the one in the file until it
\* expires or others could read it: starts and renewals in any process leave it there.
AnnouncedHolds == \A s \in Setups : announced[s] \in {NoFile, file}

\* A Setup has one flock call at most, however many waits for the lock have ended.
OneFlock ==
    \A s \in Setups :
        behind[s] + Cardinality({c \in Calls : SetupOf[c] = s /\ (Is(c, "flock") \/ lock = c)})
            <= 1

\* Once a process serves, a code is there to be read until the site has an account: no
\* renewal, start or crash in any process leaves the path empty for a moment.  (A file the
\* owner opened to others, or one that cannot be read back, is taken away.)
CodeStays == (\E s \in Setups : up[s]) /\ ~HasUsers => file # NoFile

\* A renewal never answers with the code it set out to replace, not even when the file was
\* made private again while it waited.
RenewedIsNew ==
    [][\A c \in Calls :
        (call[c].held # NoFile /\ ~Is(c, "announce") /\ call'[c].at = "announce")
            => call'[c].seen.code # call[c].held.code]_vars

\* Every call returns: no mutex, lock file or flock call left behind holds it up for ever.
CallsEnd == \A c \in Calls : ~Is(c, "idle") ~> Is(c, "idle")
=============================================================================
