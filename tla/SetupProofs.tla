---------------------------- MODULE SetupProofs -----------------------------
(***************************************************************************)
(* Proofs about Setup, for any number of processes and calls.              *)
(***************************************************************************)
EXTENDS Setup, FiniteSetTheorems, TLAPS

CallRec == [op : Op, at : At, reading : Reading, given : Code \cup {Wrong},
            seen : File \cup {NoFile}, held : File \cup {NoFile}, ours : File \cup {NoFile}]

LocksOK ==
    /\ renewing \in [Setups -> Calls \cup {Free}]
    /\ left \in [Setups -> {"none", "open", "closed"}]
    /\ behind \in [Setups -> Nat]
    /\ lock \in Calls \cup Setups \cup {Free}

\* What most steps of a call do to the locks: nothing, or the call gives back what it holds;
\* and it does not come to wait for the lock file.
Quiet(c) ==
    /\ call' \in [Calls -> CallRec]
    /\ \A d \in Calls \ {c} : call'[d] = call[d]
    /\ call'[c].at \notin {"left", "flock"}
    /\ UNCHANGED <<left, behind>>
    /\ UNCHANGED <<renewing, lock>> \/ Release(c)
    /\ up' \in [Setups -> BOOLEAN]

-----------------------------------------------------------------------------
LEMMA NoCallType == NoCall \in CallRec /\ NoCall.at = "idle"
BY DEF NoCall, CallRec, Op, At, Reading

LEMMA CallsType == ASSUME TypeOK PROVE call \in [Calls -> CallRec] /\ LocksOK
BY DEF TypeOK, CallRec, LocksOK

LEMMA NewFileType == ASSUME TypeOK, ~(Code \subseteq InHand) PROVE NewFile \in File
<1>1. PICK new \in Code : new \notin InHand
  OBVIOUS
<1> DEFINE fresh == CHOOSE k \in Code : k \notin InHand
<1>2. fresh \in Code
  BY <1>1
<1>3. clock \in 0..MaxClock
  BY DEF TypeOK
<1> HIDE DEF fresh
<1>4. [code |-> fresh, made |-> clock, shared |-> FALSE] \in File
  BY <1>2, <1>3 DEF File
<1> QED
  BY <1>4 DEF NewFile, fresh

\* The helpers a step ends in are quiet.
LEMMA GotoType ==
    ASSUME TypeOK, NEW c \in Calls, NEW at \in At, Goto(c, at)
    PROVE  /\ call' \in [Calls -> CallRec]
           /\ call'[c].at = at
           /\ \A d \in Calls \ {c} : call'[d] = call[d]
<1>1. call \in [Calls -> CallRec]
  BY CallsType
<1>2. call'[c] \in CallRec /\ call'[c].at = at
  BY <1>1 DEF Goto, CallRec
<1> QED
  BY <1>1, <1>2 DEF Goto

LEMMA GotoQuiet ==
    ASSUME TypeOK, NEW c \in Calls, NEW at \in At \ {"left", "flock"}, Goto(c, at),
           UNCHANGED <<left, behind>>, UNCHANGED <<renewing, lock>> \/ Release(c), UNCHANGED up
    PROVE  Quiet(c)
BY GotoType DEF Quiet, TypeOK

LEMMA StartReadingQuiet ==
    ASSUME TypeOK, NEW c \in Calls, NEW reading \in Reading, StartReading(c, reading),
           UNCHANGED locks, UNCHANGED up
    PROVE  Quiet(c)
<1>1. call \in [Calls -> CallRec] /\ up \in [Setups -> BOOLEAN]
  BY CallsType DEF TypeOK
<1>2. call'[c] \in CallRec /\ call'[c].at = "look"
  BY <1>1 DEF StartReading, CallRec, At
<1>3. call' \in [Calls -> CallRec] /\ \A d \in Calls \ {c} : call'[d] = call[d]
  BY <1>1, <1>2 DEF StartReading
<1> QED
  BY <1>1, <1>2, <1>3 DEF Quiet, locks

LEMMA ReturnType ==
    ASSUME TypeOK, NEW c \in Calls, Return(c), up' \in [Setups -> BOOLEAN] PROVE Quiet(c)
<1>1. call \in [Calls -> CallRec]
  BY CallsType
<1>2. call'[c] \in CallRec /\ call'[c].at = "idle"
  BY <1>1, NoCallType DEF Return
<1>3. call' \in [Calls -> CallRec] /\ \A d \in Calls \ {c} : call'[d] = call[d]
  BY <1>1, <1>2 DEF Return
<1> QED
  BY <1>2, <1>3 DEF Quiet, Return

LEMMA ErrorQuiet == ASSUME TypeOK, NEW c \in Calls, Error(c) PROVE Quiet(c)
BY ReturnType DEF Error, TypeOK

LEMMA AnswerQuiet == ASSUME TypeOK, NEW c \in Calls, Answer(c) PROVE Quiet(c)
BY ReturnType DEF Answer, TypeOK

LEMMA PlaceQuiet == ASSUME TypeOK, NEW c \in Calls, Place(c) PROVE Quiet(c)
<1>1. call \in [Calls -> CallRec] /\ up \in [Setups -> BOOLEAN]
  BY CallsType DEF TypeOK
<1>2. call'[c] \in CallRec /\ call'[c].at = "place"
  BY <1>1 DEF Place, CallRec, At
<1>3. call' \in [Calls -> CallRec] /\ \A d \in Calls \ {c} : call'[d] = call[d]
  BY <1>1, <1>2 DEF Place
<1> QED
  BY <1>1, <1>2, <1>3 DEF Quiet, Place, locks

LEMMA UndoQuiet == ASSUME TypeOK, NEW c \in Calls, Undo(c) PROVE Quiet(c)
<1>1. call \in [Calls -> CallRec] /\ up \in [Setups -> BOOLEAN]
  BY CallsType DEF TypeOK
<1>2. call'[c] \in CallRec /\ call'[c].at = "undo"
  BY <1>1 DEF Undo, CallRec, At
<1>3. call' \in [Calls -> CallRec] /\ \A d \in Calls \ {c} : call'[d] = call[d]
  BY <1>1, <1>2 DEF Undo
<1> QED
  BY <1>1, <1>2, <1>3 DEF Quiet, Undo, locks

LEMMA GotQuiet == ASSUME TypeOK, NEW c \in Calls, Got(c), UNCHANGED up PROVE Quiet(c)
BY GotoQuiet DEF Got, At

LEMMA FailureQuiet ==
    ASSUME TypeOK, NEW c \in Calls, Missing(c) \/ Refused(c) \/ Failed(c)
    PROVE  Quiet(c) /\ UNCHANGED closed
<1>1. UNCHANGED closed /\ (Place(c) \/ Undo(c) \/ Answer(c) \/ Error(c))
  BY DEF Missing, Refused, Failed
<1> QED
  BY <1>1, PlaceQuiet, UndoQuiet, AnswerQuiet, ErrorQuiet

-----------------------------------------------------------------------------
QuietStep(c) ==
    \/ RefuseClosed(c) \/ Look(c) \/ Open(c) \/ FirstRead(c)
    \/ MutexWaitEnds(c) \/ LeftWaitEnds(c) \/ FlockFails(c) \/ Locked(c)
    \/ ReadAgain(c) \/ Temp(c) \/ Compare(c) \/ Rename(c) \/ KeptRead(c)
    \/ PlaceTemp(c) \/ Link(c) \/ ReadBack(c) \/ FailedReadBack(c) \/ Unlink(c)
    \/ Announce(c) \/ CreateFirstUser(c) \/ Finish(c) \/ FinishRead(c) \/ Remove(c)

\* A step that rewrites a call's own record, within its type, and leaves the locks alone.
LEMMA RecordQuiet ==
    ASSUME TypeOK, NEW c \in Calls, NEW r \in CallRec, r.at \notin {"left", "flock"},
           call' = [call EXCEPT ![c] = r], UNCHANGED locks, UNCHANGED up
    PROVE  Quiet(c)
<1>1. call \in [Calls -> CallRec] /\ up \in [Setups -> BOOLEAN]
  BY CallsType DEF TypeOK
<1>2. call' \in [Calls -> CallRec] /\ call'[c] = r /\ \A d \in Calls \ {c} : call'[d] = call[d]
  BY <1>1
<1> QED
  BY <1>1, <1>2 DEF Quiet, locks

LEMMA BeginQuiet == ASSUME TypeOK, NEW c \in Calls, Begin(c) PROVE Quiet(c)
<1>1. CASE Prepare(c)
  <2> DEFINE r == [NoCall EXCEPT !.op = "prepare", !.at = "refuse"]
  <2>1. r \in CallRec /\ r.at = "refuse"
    BY NoCallType DEF CallRec, Op, At
  <2>2. call' = [call EXCEPT ![c] = r] /\ UNCHANGED locks /\ UNCHANGED up
    BY <1>1 DEF Prepare, running
  <2> QED
    BY <2>1, <2>2, RecordQuiet
<1>2. ASSUME NEW op \in {"check", "create"}, NEW given \in Code \cup {Wrong},
             Submit(c, op, given)
      PROVE  Quiet(c)
  <2> DEFINE r == [NoCall EXCEPT !.op = op, !.at = "refuse", !.given = given]
  <2>1. r \in CallRec /\ r.at = "refuse"
    BY NoCallType DEF CallRec, Op, At
  <2>2. call' = [call EXCEPT ![c] = r] /\ UNCHANGED locks /\ UNCHANGED up
    BY <1>2 DEF Submit, running
  <2> QED
    BY <2>1, <2>2, RecordQuiet
<1>3. CASE CreateFirstAccount(c)
  <2>1. PICK f \in ({announced[s] : s \in Setups} \cup {file}) \ {NoFile} :
          Submit(c, "create", f.code)
    BY <1>3 DEF CreateFirstAccount
  <2>2. f \in File
    BY DEF TypeOK
  <2>3. f.code \in Code
    BY <2>2 DEF File
  <2> QED
    BY <1>2, <2>1, <2>3
<1>4. CASE Check(c)
  BY <1>2, <1>4 DEF Check
<1> QED
  BY <1>1, <1>3, <1>4 DEF Begin

LEMMA WriteTempQuiet ==
    ASSUME TypeOK, NEW c \in Calls, NEW next \in {"compare", "link"}, WriteTemp(c, next)
    PROVE  Quiet(c)
<1>1. CASE Error(c)
  BY <1>1, ErrorQuiet
<1>2. CASE ~(Code \subseteq InHand)
           /\ call' = [call EXCEPT ![c] = [@ EXCEPT !.at = next, !.ours = NewFile]]
           /\ UNCHANGED <<running, locks>>
  <2> DEFINE r == [call[c] EXCEPT !.at = next, !.ours = NewFile]
  <2>1. call \in [Calls -> CallRec] /\ NewFile \in File
    BY <1>2, CallsType, NewFileType
  <2>2. r \in CallRec /\ r.at = next
    BY <2>1 DEF CallRec, At
  <2>3. call' = [call EXCEPT ![c] = r]
    BY <1>2
  <2> QED
    BY <1>2, <2>2, <2>3, RecordQuiet DEF running
<1> QED
  BY <1>1, <1>2 DEF WriteTemp
\* Every step of a call but the five that deal with the mutex and the lock file is quiet.
LEMMA StepsQuiet == ASSUME TypeOK, NEW c \in Calls, QuietStep(c) PROVE Quiet(c)
<1>0. call \in [Calls -> CallRec] /\ file \in File \cup {NoFile}
  BY CallsType DEF TypeOK
<1>1. CASE RefuseClosed(c)
  BY <1>1, AnswerQuiet, ErrorQuiet, StartReadingQuiet DEF RefuseClosed, Reading, running
<1>2. CASE Look(c)
  <2>1. CASE Missing(c) \/ Failed(c)
    BY <2>1, FailureQuiet
  <2>2. CASE /\ file # NoFile
             /\ call' = [call EXCEPT ![c] = [@ EXCEPT !.at = "open", !.seen = file]]
             /\ UNCHANGED <<running, locks>>
    <3> DEFINE r == [call[c] EXCEPT !.at = "open", !.seen = file]
    <3>1. r \in CallRec /\ r.at = "open"
      BY <1>0 DEF CallRec, At
    <3> QED
      BY <2>2, <3>1, RecordQuiet DEF running
  <2> QED
    BY <1>2, <2>1, <2>2 DEF Look
<1>3. CASE Open(c)
  BY <1>3, FailureQuiet, GotoQuiet DEF Open, At, running, locks
<1>4. CASE FirstRead(c)
  <2> DEFINE mutex == [call[c] EXCEPT !.at = "mutex", !.held = call[c].seen,
                                      !.given = Wrong, !.seen = NoFile]
             create == [call[c] EXCEPT !.at = "create", !.given = Wrong, !.seen = NoFile]
  <2>1. mutex \in CallRec /\ mutex.at = "mutex" /\ create \in CallRec /\ create.at = "create"
    BY <1>0 DEF CallRec, At
  <2>2. CASE call' = [call EXCEPT ![c] = mutex] /\ UNCHANGED <<running, locks>>
    BY <2>1, <2>2, RecordQuiet DEF running
  <2>3. CASE call' = [call EXCEPT ![c] = create] /\ UNCHANGED <<running, locks>>
    BY <2>1, <2>3, RecordQuiet DEF running
  <2>4. CASE Goto(c, "announce") /\ UNCHANGED <<running, locks>>
    BY <2>4, GotoQuiet DEF At, running, locks
  <2> QED
    BY <1>4, <2>2, <2>3, <2>4, AnswerQuiet DEF FirstRead
<1>5. CASE MutexWaitEnds(c) \/ LeftWaitEnds(c) \/ FlockFails(c)
  BY <1>5, ErrorQuiet DEF MutexWaitEnds, LeftWaitEnds, FlockFails
<1>6. CASE Locked(c) \/ Finish(c)
  BY <1>6, StartReadingQuiet DEF Locked, Finish, Reading, running
<1>7. CASE ReadAgain(c)
  BY <1>7, GotQuiet, GotoQuiet DEF ReadAgain, At, running, locks
<1>8. CASE Temp(c) \/ PlaceTemp(c)
  BY <1>8, WriteTempQuiet DEF Temp, PlaceTemp
<1>9. CASE Compare(c)
  <2>1. CASE Goto(c, "rename") /\ UNCHANGED <<running, locks>>
    BY <2>1, GotoQuiet DEF At, running, locks
  <2>2. CASE StartReading(c, "kept") /\ UNCHANGED <<running, locks>>
    BY <2>2, StartReadingQuiet DEF Reading, running
  <2> QED
    BY <1>9, <2>1, <2>2, PlaceQuiet, ErrorQuiet DEF Compare
<1>10. CASE Rename(c)
  BY <1>10, StartReadingQuiet, ErrorQuiet DEF Rename, Reading, running
<1>11. CASE KeptRead(c)
  BY <1>11, GotQuiet, ErrorQuiet DEF KeptRead
<1>12. CASE Link(c)
  <2> DEFINE r == [call[c] EXCEPT !.at = "look", !.reading = "back", !.seen = NoFile,
                                  !.ours = IF file = NoFile THEN call[c].ours ELSE NoFile]
  <2>1. r \in CallRec /\ r.at = "look"
    BY <1>0 DEF CallRec, At, Reading
  <2>2. CASE call' = [call EXCEPT ![c] = r] /\ UNCHANGED <<running, locks>>
    BY <2>1, <2>2, RecordQuiet DEF running
  <2> QED
    BY <1>12, <2>2, ErrorQuiet DEF Link
<1>13. CASE ReadBack(c)
  BY <1>13, GotQuiet, GotoQuiet DEF ReadBack, At, running, locks
<1>14. CASE FailedReadBack(c)
  BY <1>14, ErrorQuiet, GotoQuiet DEF FailedReadBack, At, locks
<1>15. CASE Unlink(c) \/ Announce(c) \/ Remove(c)
  BY <1>15, ErrorQuiet, AnswerQuiet DEF Unlink, Announce, Remove
<1>16. CASE CreateFirstUser(c) \/ FinishRead(c)
  BY <1>16, ErrorQuiet, GotoQuiet DEF CreateFirstUser, FinishRead, At, running, locks
<1> QED
  BY <1>1, <1>2, <1>3, <1>4, <1>5, <1>6, <1>7, <1>8, <1>9, <1>10, <1>11, <1>12, <1>13, <1>14,
     <1>15, <1>16 DEF QuietStep
-----------------------------------------------------------------------------
\* The variables that are neither locks nor a call's own.
RestOK ==
    /\ clock \in 0..MaxClock
    /\ file \in File \cup {NoFile}
    /\ chmods \in 0..MaxChmods
    /\ accounts \in [setup : Nat, shell : BOOLEAN]
    /\ closed \in [Setups -> BOOLEAN]
    /\ announced \in [Setups -> File \cup {NoFile}]
    /\ exposed \subseteq Code

LEMMA TypeParts ==
    /\ TypeOK <=> RestOK /\ LocksOK /\ up \in [Setups -> BOOLEAN] /\ call \in [Calls -> CallRec]
    /\ TypeOK' <=> /\ RestOK' /\ LocksOK'
                   /\ up' \in [Setups -> BOOLEAN] /\ call' \in [Calls -> CallRec]
BY DEF TypeOK, RestOK, LocksOK, CallRec

LEMMA QuietLocksOK == ASSUME TypeOK, NEW c \in Calls, Quiet(c) PROVE LocksOK'
BY CallsType DEF Quiet, LocksOK, Release

\* The steps that leave every one of these variables alone but Setup.closed.
LEMMA ClosedRest ==
    ASSUME RestOK, UNCHANGED site, UNCHANGED file, UNCHANGED handed,
           closed' \in [Setups -> BOOLEAN]
    PROVE  RestOK'
BY DEF RestOK, site, handed

LEMMA WriteTempRest ==
    ASSUME TypeOK, NEW c \in Calls, NEW next, WriteTemp(c, next) PROVE RestOK'
<1>1. RestOK
  BY TypeParts
<1>2. UNCHANGED <<clock, chmods, accounts, file, closed, announced>> /\ exposed' \subseteq exposed
  BY DEF WriteTemp, site, running
<1> QED
  BY <1>1, <1>2 DEF RestOK

LEMMA StepRest == ASSUME TypeOK, NEW c \in Calls, QuietStep(c) PROVE RestOK'
<1>0. RestOK /\ call \in [Calls -> CallRec]
  BY TypeParts
<1>1. CASE RefuseClosed(c) \/ Finish(c)
  <2>1. closed' \in [Setups -> BOOLEAN]
    BY <1>0, <1>1 DEF RefuseClosed, Finish, RestOK, running
  <2>2. UNCHANGED site /\ UNCHANGED file /\ UNCHANGED handed
    BY <1>1 DEF RefuseClosed, Finish
  <2> QED
    BY <1>0, <2>1, <2>2, ClosedRest
<1>2. CASE \/ Look(c) \/ Open(c) \/ FirstRead(c) \/ MutexWaitEnds(c) \/ LeftWaitEnds(c)
           \/ FlockFails(c) \/ Locked(c) \/ ReadAgain(c) \/ Compare(c) \/ KeptRead(c)
           \/ ReadBack(c) \/ FailedReadBack(c) \/ FinishRead(c)
  <2>1. UNCHANGED closed
    BY <1>2 DEF Look, Open, FirstRead, MutexWaitEnds, LeftWaitEnds, FlockFails, Locked, ReadAgain,
                Compare, KeptRead, ReadBack, FailedReadBack, FinishRead, Missing, Refused, Failed,
                running
  <2>2. UNCHANGED site /\ UNCHANGED file /\ UNCHANGED handed
    BY <1>2 DEF Look, Open, FirstRead, MutexWaitEnds, LeftWaitEnds, FlockFails, Locked, ReadAgain,
                Compare, KeptRead, ReadBack, FailedReadBack, FinishRead
  <2> QED
    BY <1>0, <2>1, <2>2, ClosedRest DEF RestOK
<1>3. CASE Temp(c) \/ PlaceTemp(c)
  BY <1>3, WriteTempRest DEF Temp, PlaceTemp
<1>4. CASE Rename(c) \/ Link(c) \/ Unlink(c) \/ Remove(c)
  <2>1. call[c].ours \in File \cup {NoFile}
    BY <1>0 DEF CallRec
  <2>2. file' \in File \cup {NoFile}
    BY <1>0, <1>4, <2>1 DEF Rename, Link, Unlink, Remove, RestOK
  <2>3. UNCHANGED site /\ UNCHANGED closed /\ UNCHANGED handed
    BY <1>4 DEF Rename, Link, Unlink, Remove, running
  <2> QED
    BY <1>0, <2>2, <2>3 DEF RestOK, site, handed
<1>5. CASE Announce(c)
  <2>1. call[c].seen \in File \cup {NoFile}
    BY <1>0 DEF CallRec
  <2>2. announced' \in [Setups -> File \cup {NoFile}]
    BY <1>0, <1>5, <2>1 DEF Announce, RestOK
  <2>3. UNCHANGED site /\ UNCHANGED closed /\ UNCHANGED file /\ UNCHANGED exposed
    BY <1>5 DEF Announce
  <2> QED
    BY <1>0, <2>2, <2>3 DEF RestOK, site
<1>6. CASE CreateFirstUser(c)
  <2>1. accounts \in [setup : Nat, shell : BOOLEAN]
    BY <1>0 DEF RestOK
  <2>2. accounts' \in [setup : Nat, shell : BOOLEAN]
    BY <1>6, <2>1 DEF CreateFirstUser
  <2>3. announced' \in [Setups -> File \cup {NoFile}]
    BY <1>0, <1>6 DEF CreateFirstUser, RestOK
  <2>4. UNCHANGED <<clock, chmods, file, exposed, closed>>
    BY <1>6 DEF CreateFirstUser, running
  <2> QED
    BY <1>0, <2>2, <2>3, <2>4 DEF RestOK
<1> QED
  BY <1>1, <1>2, <1>3, <1>4, <1>5, <1>6 DEF QuietStep
-----------------------------------------------------------------------------
\* The steps that deal with the mutex and the lock file.
LockStep(c) == TakeMutex(c) \/ WaitLeft(c) \/ OpenLockFails(c) \/ Flock(c) \/ LockWaitEnds(c)

LeftStep(s) == LeftFlock(s) \/ CloseLeft(s) \/ LeftFlockFails(s)

WorldStep == ShellCreates \/ Tick \/ Share

LEMMA NextSteps ==
    ASSUME Next
    PROVE  \/ \E c \in Calls : Begin(c) \/ QuietStep(c) \/ LockStep(c)
           \/ \E s \in Setups : LeftStep(s) \/ Crash(s)
           \/ WorldStep
BY DEF Next, Step, ContextEnds, Fault, QuietStep, LockStep, LeftStep, WorldStep

LEMMA LockStepTypes == ASSUME TypeOK, NEW c \in Calls, LockStep(c) PROVE TypeOK'
<1>0. RestOK /\ LocksOK /\ up \in [Setups -> BOOLEAN] /\ call \in [Calls -> CallRec]
  BY TypeParts
<1>1. RestOK' /\ up' \in [Setups -> BOOLEAN]
  BY <1>0 DEF LockStep, TakeMutex, WaitLeft, OpenLockFails, Flock, LockWaitEnds, RestOK, site, handed,
              running
<1>2. SetupOf[c] \in Setups
  BY SetupAssumption
<1>3. call' \in [Calls -> CallRec]
  <2>1. CASE TakeMutex(c)
    BY <2>1, GotoType DEF TakeMutex, At
  <2>2. CASE WaitLeft(c)
    BY <2>2, GotoType DEF WaitLeft, At
  <2>3. CASE OpenLockFails(c) \/ Flock(c) \/ LockWaitEnds(c)
    BY <1>0, <2>3, NoCallType DEF OpenLockFails, Flock, LockWaitEnds
  <2> QED
    BY <2>1, <2>2, <2>3 DEF LockStep
<1>4. LocksOK'
  <2>1. CASE TakeMutex(c) \/ WaitLeft(c) \/ Flock(c)
    BY <1>0, <1>2, <2>1 DEF TakeMutex, WaitLeft, Flock, LocksOK
  <2>2. CASE OpenLockFails(c)
    BY <1>0, <1>2, <2>2 DEF OpenLockFails, LocksOK, Release
  <2>3. CASE LockWaitEnds(c)
    BY <1>0, <1>2, <2>3 DEF LockWaitEnds, LocksOK
  <2> QED
    BY <2>1, <2>2, <2>3 DEF LockStep
<1> QED
  BY <1>1, <1>3, <1>4, TypeParts

LEMMA SetupStepTypes == ASSUME TypeOK, NEW s \in Setups, LeftStep(s) \/ Crash(s) PROVE TypeOK'
<1>0. RestOK /\ LocksOK /\ up \in [Setups -> BOOLEAN] /\ call \in [Calls -> CallRec]
  BY TypeParts
<1>1. CASE LeftStep(s)
  <2>1. RestOK' /\ up' \in [Setups -> BOOLEAN] /\ call' \in [Calls -> CallRec]
    BY <1>0, <1>1 DEF LeftStep, LeftFlock, CloseLeft, LeftFlockFails, RestOK, site, handed, running
  <2>2. LocksOK'
    BY <1>0, <1>1 DEF LeftStep, LeftFlock, CloseLeft, LeftFlockFails, LocksOK
  <2> QED
    BY <2>1, <2>2, TypeParts
<1>2. CASE Crash(s)
  <2>1. RestOK' /\ up' \in [Setups -> BOOLEAN]
    BY <1>0, <1>2 DEF Crash, RestOK, site, handed
  <2>2. call' \in [Calls -> CallRec]
    BY <1>0, <1>2, NoCallType DEF Crash
  <2>3. LocksOK'
    BY <1>0, <1>2 DEF Crash, LocksOK
  <2> QED
    BY <2>1, <2>2, <2>3, TypeParts
<1> QED
  BY <1>1, <1>2

LEMMA WorldStepTypes == ASSUME TypeOK, WorldStep PROVE TypeOK'
<1>0. RestOK /\ LocksOK /\ up \in [Setups -> BOOLEAN] /\ call \in [Calls -> CallRec]
  BY TypeParts
<1>1. LocksOK' /\ up' \in [Setups -> BOOLEAN] /\ call' \in [Calls -> CallRec]
  BY <1>0 DEF WorldStep, ShellCreates, Tick, Share, locks, running, LocksOK
<1>2. RestOK'
  <2>1. CASE ShellCreates
    <3>1. accounts' \in [setup : Nat, shell : BOOLEAN]
      BY <1>0, <2>1 DEF ShellCreates, RestOK
    <3>2. announced' \in [Setups -> File \cup {NoFile}]
      BY <2>1 DEF ShellCreates
    <3> QED
      BY <1>0, <2>1, <3>1, <3>2 DEF ShellCreates, RestOK, running
  <2>2. CASE Tick
    <3>1. announced' \in [Setups -> File \cup {NoFile}]
      BY <1>0, <2>2 DEF Tick, Forget, RestOK
    <3>2. clock' \in 0..MaxClock
      BY <1>0, <2>2, SetupAssumption DEF Tick, RestOK
    <3> QED
      BY <1>0, <2>2, <3>1, <3>2 DEF Tick, RestOK, running
  <2>3. CASE Share
    <3>1. file \in File
      BY <1>0, <2>3 DEF Share, RestOK
    <3>2. file' \in File /\ exposed' \subseteq Code
      BY <1>0, <2>3, <3>1 DEF Share, RestOK, File
    <3>3. announced' \in [Setups -> File \cup {NoFile}]
      BY <1>0, <2>3 DEF Share, Forget, RestOK
    <3>4. chmods' \in 0..MaxChmods
      BY <1>0, <2>3, SetupAssumption DEF Share, RestOK
    <3> QED
      BY <1>0, <2>3, <3>2, <3>3, <3>4 DEF Share, RestOK, running
  <2> QED
    BY <2>1, <2>2, <2>3 DEF WorldStep
<1> QED
  BY <1>1, <1>2, TypeParts

-----------------------------------------------------------------------------
\* Every variable of a set-up site keeps its type, for any number of processes and calls,
\* through crashes, failing system calls and ended waits.
THEOREM SetupTypes == Spec => []TypeOK
<1>1. Init => TypeOK
  <2> SUFFICES ASSUME Init PROVE TypeOK
    OBVIOUS
  <2>1. RestOK
    BY SetupAssumption DEF Init, RestOK
  <2>2. LocksOK /\ up \in [Setups -> BOOLEAN]
    BY DEF Init, LocksOK
  <2>3. call \in [Calls -> CallRec]
    BY NoCallType DEF Init
  <2> QED
    BY <2>1, <2>2, <2>3, TypeParts
<1>2. TypeOK /\ [Next]_vars => TypeOK'
  <2> SUFFICES ASSUME TypeOK, [Next]_vars PROVE TypeOK'
    OBVIOUS
  <2>1. CASE UNCHANGED vars
    BY <2>1 DEF vars, TypeOK
  <2>2. ASSUME NEW c \in Calls, Begin(c) PROVE TypeOK'
    <3>1. RestOK'
      BY <2>2, TypeParts DEF Begin, Prepare, Check, CreateFirstAccount, Submit, RestOK, site, running,
                             handed
    <3>2. Quiet(c)
      BY <2>2, BeginQuiet
    <3>3. LocksOK' /\ up' \in [Setups -> BOOLEAN] /\ call' \in [Calls -> CallRec]
      BY <3>2, QuietLocksOK DEF Quiet
    <3> QED
      BY <3>1, <3>3, TypeParts
  <2>3. ASSUME NEW c \in Calls, QuietStep(c) PROVE TypeOK'
    <3>1. Quiet(c) /\ RestOK'
      BY <2>3, StepsQuiet, StepRest
    <3>2. LocksOK' /\ up' \in [Setups -> BOOLEAN] /\ call' \in [Calls -> CallRec]
      BY <3>1, QuietLocksOK DEF Quiet
    <3> QED
      BY <3>1, <3>2, TypeParts
  <2> QED
    BY <2>1, <2>2, <2>3, NextSteps, LockStepTypes, SetupStepTypes, WorldStepTypes
<1> QED
  BY <1>1, <1>2, PTL DEF Spec
-----------------------------------------------------------------------------
\* Whoever waits for the lock file or holds it holds the mutex of its Setup, and there is no
\* flock call left behind that it has not seen the end of.
Inside(c) == Is(c, "flock") \/ lock = c

Asking(s) == {c \in Calls : SetupOf[c] = s /\ Inside(c)}

LocksInv ==
    /\ \A c \in Calls : Is(c, "left") \/ Inside(c) => renewing[SetupOf[c]] = c
    /\ \A c \in Calls : Inside(c) => left[SetupOf[c]] = "none"
    /\ \A s \in Setups : behind[s] <= 1 /\ (behind[s] > 0 <=> left[s] = "open")
    /\ \A s \in Setups : lock = s => behind[s] > 0

LEMMA QuietInv == ASSUME TypeOK, LocksInv, NEW c \in Calls, Quiet(c) PROVE LocksInv'
<1>0. /\ Setups \cap Calls = {} /\ Free \notin Setups \cup Calls
      /\ \A d \in Calls : SetupOf[d] \in Setups
  BY SetupAssumption
<1>1. UNCHANGED <<left, behind>> /\ call'[c].at \notin {"left", "flock"}
      /\ \A d \in Calls \ {c} : call'[d] = call[d]
  BY DEF Quiet
<1>2. /\ lock' \in {lock, Free} /\ (lock' = c => UNCHANGED <<renewing, lock>>)
      /\ \A d \in Calls \ {c} : \A s \in Setups : renewing[s] = d => renewing'[s] = d
  BY <1>0, TypeParts DEF Quiet, Release, LocksOK
<1>3. \A d \in Calls : Is(d, "left")' \/ Inside(d)' => Is(d, "left") \/ Inside(d)
  BY <1>0, <1>1, <1>2 DEF Inside, Is
<1>4. \A d \in Calls : Is(d, "left")' \/ Inside(d)' => renewing'[SetupOf[d]] = d
  BY <1>0, <1>1, <1>2, <1>3 DEF Inside, Is, LocksInv
<1>5. \A d \in Calls : Inside(d)' => Inside(d)
  BY <1>0, <1>1, <1>2 DEF Inside, Is
<1> QED
  BY <1>0, <1>1, <1>2, <1>4, <1>5 DEF LocksInv

LEMMA LockStepInv == ASSUME TypeOK, LocksInv, NEW c \in Calls, LockStep(c) PROVE LocksInv'
<1>0. /\ Setups \cap Calls = {} /\ Free \notin Setups \cup Calls
      /\ \A d \in Calls : SetupOf[d] \in Setups
      /\ LocksOK /\ call \in [Calls -> CallRec]
  BY SetupAssumption, TypeParts
<1>1. CASE TakeMutex(c)
  <2>1. call'[c].at = "left" /\ \A d \in Calls \ {c} : call'[d] = call[d]
    BY <1>1, GotoType DEF TakeMutex, At
  <2>2. /\ renewing[SetupOf[c]] = Free /\ renewing' = [renewing EXCEPT ![SetupOf[c]] = c]
        /\ UNCHANGED <<left, behind, lock>>
    BY <1>1 DEF TakeMutex
  <2> QED
    BY <1>0, <2>1, <2>2 DEF LocksInv, Inside, Is, LocksOK
<1>2. CASE WaitLeft(c)
  <2>1. call'[c].at = "flock" /\ \A d \in Calls \ {c} : call'[d] = call[d]
    BY <1>2, GotoType DEF WaitLeft, At
  <2>2. /\ Is(c, "left") /\ left[SetupOf[c]] # "open" /\ left' = [left EXCEPT ![SetupOf[c]] = "none"]
        /\ UNCHANGED <<renewing, behind, lock>>
    BY <1>2 DEF WaitLeft
  <2> QED
    BY <1>0, <2>1, <2>2 DEF LocksInv, Inside, Is, LocksOK
<1>3. CASE OpenLockFails(c)
  <2>1. call'[c].at = "idle" /\ \A d \in Calls \ {c} : call'[d] = call[d]
    BY <1>0, <1>3, NoCallType DEF OpenLockFails
  <2>2. /\ left[SetupOf[c]] # "open" /\ left' = [left EXCEPT ![SetupOf[c]] = "none"]
        /\ Release(c) /\ UNCHANGED behind
    BY <1>3 DEF OpenLockFails
  <2> QED
    BY <1>0, <2>1, <2>2 DEF LocksInv, Inside, Is, LocksOK, Release
<1>4. CASE Flock(c)
  BY <1>0, <1>4 DEF Flock, LocksInv, Inside, Is, LocksOK
<1>5. CASE LockWaitEnds(c)
  <2>1. call'[c].at = "idle" /\ \A d \in Calls \ {c} : call'[d] = call[d]
    BY <1>0, <1>5, NoCallType DEF LockWaitEnds
  <2>2. /\ Is(c, "flock")
        /\ behind' = [behind EXCEPT ![SetupOf[c]] = @ + 1]
        /\ left' = [left EXCEPT ![SetupOf[c]] = "open"]
        /\ lock' = IF lock = c THEN SetupOf[c] ELSE lock
        /\ renewing' = [renewing EXCEPT ![SetupOf[c]] = Free]
    BY <1>5 DEF LockWaitEnds
  <2>3. renewing[SetupOf[c]] = c /\ behind[SetupOf[c]] = 0
    BY <1>0, <2>2 DEF LocksInv, Inside, LocksOK
  <2>4. \A d \in Calls \ {c} : SetupOf[d] = SetupOf[c] => ~Is(d, "left") /\ ~Inside(d)
    BY <2>3 DEF LocksInv
  <2> QED
    BY <1>0, <2>1, <2>2, <2>3, <2>4 DEF LocksInv, Inside, Is, LocksOK
<1> QED
  BY <1>1, <1>2, <1>3, <1>4, <1>5 DEF LockStep

LEMMA SetupStepInv ==
    ASSUME TypeOK, LocksInv, NEW s \in Setups, LeftStep(s) \/ Crash(s) PROVE LocksInv'
<1>0. /\ Setups \cap Calls = {} /\ Free \notin Setups \cup Calls
      /\ \A d \in Calls : SetupOf[d] \in Setups
      /\ LocksOK /\ call \in [Calls -> CallRec]
  BY SetupAssumption, TypeParts
<1>1. CASE LeftFlock(s)
  BY <1>0, <1>1 DEF LeftFlock, LocksInv, Inside, Is, LocksOK
<1>2. CASE CloseLeft(s)
  BY <1>0, <1>2 DEF CloseLeft, LocksInv, Inside, Is, LocksOK
<1>3. CASE LeftFlockFails(s)
  BY <1>0, <1>3 DEF LeftFlockFails, LocksInv, Inside, Is, LocksOK
<1>4. CASE Crash(s)
  <2>1. \A c \in Calls : IF SetupOf[c] = s THEN call'[c].at = "idle" ELSE call'[c] = call[c]
    BY <1>0, <1>4, NoCallType DEF Crash
  <2>2. /\ renewing' = [renewing EXCEPT ![s] = Free]
        /\ left' = [left EXCEPT ![s] = "none"]
        /\ behind' = [behind EXCEPT ![s] = 0]
        /\ lock' = IF lock \in {c \in Calls : SetupOf[c] = s} \cup {s} THEN Free ELSE lock
    BY <1>4 DEF Crash
  <2> QED
    BY <1>0, <2>1, <2>2 DEF LocksInv, Inside, Is, LocksOK
<1> QED
  BY <1>1, <1>2, <1>3, <1>4 DEF LeftStep

\* Where LocksInv holds, the flock calls of one Setup are at most one.
LEMMA OneFlockFromInv == ASSUME TypeOK, LocksInv PROVE OneFlock
<1> SUFFICES ASSUME NEW s \in Setups PROVE behind[s] + Cardinality(Asking(s)) <= 1
  BY DEF OneFlock, Inside, Asking
<1>1. behind[s] \in {0, 1} /\ (behind[s] = 1 => left[s] = "open")
  BY TypeParts DEF LocksInv, LocksOK
<1>2. CASE Asking(s) = {}
  <2>1. Cardinality(Asking(s)) = 0
    BY <1>2, FS_EmptySet
  <2> QED
    BY <1>1, <2>1
<1>3. CASE Asking(s) # {}
  <2>1. PICK c \in Asking(s) : TRUE
    BY <1>3
  <2>2. Asking(s) = {c}
    BY <2>1 DEF LocksInv, Asking
  <2>3. Cardinality(Asking(s)) = 1
    BY <2>2, FS_Singleton
  <2>4. behind[s] = 0
    BY <1>1, <2>1 DEF LocksInv, Asking
  <2> QED
    BY <2>3, <2>4
<1> QED
  BY <1>2, <1>3

\* OneFlock (setuplock_unix.go): however many calls wait for the lock file and however many
\* of their contexts end, a Setup never has two flock calls, for any number of processes and
\* calls.  It does so because a call gives up the mutex only with its flock call left behind
\* where the next holder of the mutex waits for it.
THEOREM OneFlockPerSetup == Spec => []OneFlock
<1>1. Init => LocksInv
  <2> SUFFICES ASSUME Init PROVE LocksInv
    OBVIOUS
  <2>1. \A c \in Calls : ~Is(c, "left") /\ ~Inside(c)
    BY SetupAssumption DEF Init, Is, Inside, NoCall
  <2> QED
    BY <2>1, SetupAssumption DEF Init, LocksInv
<1>2. TypeOK /\ LocksInv /\ [Next]_vars => LocksInv'
  <2> SUFFICES ASSUME TypeOK, LocksInv, [Next]_vars PROVE LocksInv'
    OBVIOUS
  <2>1. CASE UNCHANGED vars
    BY <2>1 DEF vars, LocksInv, Is, Inside
  <2>2. CASE WorldStep
    BY <2>2 DEF WorldStep, ShellCreates, Tick, Share, locks, LocksInv, Is, Inside
  <2>3. ASSUME NEW c \in Calls, Begin(c) \/ QuietStep(c) PROVE LocksInv'
    BY <2>3, BeginQuiet, StepsQuiet, QuietInv
  <2> QED
    BY <2>1, <2>2, <2>3, NextSteps, LockStepInv, SetupStepInv
<1> QED
  BY <1>1, <1>2, SetupTypes, OneFlockFromInv, PTL DEF Spec

-----------------------------------------------------------------------------
\* What becomes of the codes handed out.

\* The files somebody may still read, compare or put into place.
Files == ({file} \cup {call[c].seen : c \in Calls} \cup {call[c].held : c \in Calls}
            \cup {call[c].ours : c \in Calls}) \ {NoFile}

InRead(r) == r.at \in {"look", "open", "read"}

\* The call is past the lock file and may still replace the code.
Renewing(r) == (InRead(r) /\ r.reading = "again") \/ r.at \in {"temp", "compare", "rename"}

\* What a call has read while the site has no account.  The file it saw is in place still or has
\* expired, the one it set out to replace has expired, and the one it is about to rename over is
\* in place and has expired.
ReadOK(r) ==
    /\ r.at \notin {"undo", "unlink", "finish", "remove"}
    /\ InRead(r) => r.reading \in {"first", "again", "kept", "back"}
    /\ r.seen # NoFile \/ r.held # NoFile \/ (InRead(r) /\ r.reading = "back") => file # NoFile
    /\ r.seen # NoFile => r.seen = file \/ Expired(r.seen)
    /\ r.held # NoFile => Expired(r.held)
    /\ r.at \in {"open", "read", "temp", "compare", "rename", "announce"} => r.seen # NoFile
    /\ r.at \in {"mutex", "left", "flock"} \/ Renewing(r) => r.held # NoFile
    /\ r.at \in {"compare", "rename", "link"} => r.ours # NoFile
    /\ r.at \in {"temp", "compare", "rename"} => Expired(r.seen)
    /\ r.at = "rename" => r.seen = file

\* Until the site has an account, no code is shared, a code names one file, and a file is
\* replaced once it has expired, by the one call that holds the lock file.
CodeInv ==
    IF HasUsers
    THEN \A s \in Setups : announced[s] = NoFile
    ELSE /\ \A s \in Setups :
              /\ ~closed[s] /\ (up[s] => file # NoFile)
              /\ announced[s] # NoFile => announced[s] = file /\ ~Expired(file)
         /\ \A f, g \in Files : ~f.shared /\ (f.code = g.code => f = g)
         /\ \A c \in Calls : ReadOK(call[c]) /\ (Renewing(call[c]) => lock = c)

LEMMA FilesOf ==
    ASSUME NEW c \in Calls
    PROVE  /\ file # NoFile => file \in Files
           /\ call[c].seen # NoFile => call[c].seen \in Files
           /\ call[c].held # NoFile => call[c].held \in Files
           /\ call[c].ours # NoFile => call[c].ours \in Files
BY DEF Files

\* A step that gives call c the record r, leaves the code file in place, and keeps the locks of
\* the other calls.
LEMMA CallMoves ==
    ASSUME TypeOK, CodeInv, ~HasUsers, NEW c \in Calls, NEW r, call' = [call EXCEPT ![c] = r],
           ReadOK(r), Renewing(r) => lock' = c,
           r.seen \in {NoFile, call[c].seen, file},
           r.held \in {NoFile, call[c].held, call[c].seen},
           \/ r.ours \in {NoFile, call[c].ours}
           \/ ~r.ours.shared /\ \A f \in Files : f.code # r.ours.code,
           \A d \in Calls \ {c} : lock = d => lock' = d,
           UNCHANGED <<clock, accounts, file, closed>>,
           \A s \in Setups : up'[s] => up[s] \/ file # NoFile,
           \A s \in Setups : \/ announced'[s] \in {announced[s], NoFile}
                             \/ announced'[s] = file /\ ~Expired(file)
    PROVE  CodeInv'
<1>1. /\ call'[c] = r /\ \A d \in Calls \ {c} : call'[d] = call[d]
  BY CallsType
<1>2. \A f \in Files' : f \in Files \/ (f = r.ours /\ r.ours \notin {NoFile, call[c].ours})
  BY <1>1 DEF Files
<1>3. \A f, g \in Files' : ~f.shared /\ (f.code = g.code => f = g)
  BY <1>2 DEF CodeInv
<1>4. /\ ~HasUsers'
      /\ \A d : ReadOK(d) => (ReadOK(d))'
      /\ \A d : (Renewing(d))' <=> Renewing(d)
  BY DEF HasUsers, ReadOK, Expired, InRead, Renewing
<1>5. \A d \in Calls : (ReadOK(call[d]))' /\ ((Renewing(call[d]))' => lock' = d)
  <2> SUFFICES ASSUME NEW d \in Calls
               PROVE  (ReadOK(call[d]))' /\ ((Renewing(call[d]))' => lock' = d)
    OBVIOUS
  <2>1. ReadOK(call[d]) /\ (Renewing(call[d]) => lock = d)
    BY DEF CodeInv
  <2>2. PICK q : q = call'[d]
    OBVIOUS
  <2>3. ReadOK(q) /\ (Renewing(q) => lock' = d)
    BY <1>1, <2>1, <2>2
  <2>4. (ReadOK(q))' /\ ((Renewing(q))' => lock' = d)
    BY <1>4, <2>3
  <2> QED BY <2>2, <2>4 DEF ReadOK, Renewing, InRead, Expired
<1>6. \A s \in Setups : /\ ~closed'[s] /\ (up'[s] => file' # NoFile)
                        /\ announced'[s] # NoFile => announced'[s] = file' /\ ~(Expired(file))'
  BY DEF CodeInv, Expired
<1> QED BY <1>3, <1>4, <1>5, <1>6 DEF CodeInv

LEMMA Returns ==
    ASSUME TypeOK, CodeInv, ~HasUsers, NEW c \in Calls, Return(c),
           UNCHANGED <<clock, accounts, file, closed>>,
           \A s \in Setups : up'[s] => up[s] \/ file # NoFile,
           \A s \in Setups : \/ announced'[s] \in {announced[s], NoFile}
                             \/ announced'[s] = file /\ ~Expired(file)
    PROVE  CodeInv'
<1>1. ReadOK(NoCall) /\ ~Renewing(NoCall)
  BY DEF ReadOK, Renewing, InRead, NoCall
<1>2. NoCall.seen = NoFile /\ NoCall.held = NoFile /\ NoCall.ours = NoFile
  BY DEF NoCall
<1>3. call' = [call EXCEPT ![c] = NoCall] /\ \A d \in Calls \ {c} : lock = d => lock' = d
  BY DEF Return, Release
<1> QED BY <1>1, <1>2, <1>3, CallMoves

\* A call that only goes on, with what it has read.
LEMMA GoesOn ==
    ASSUME TypeOK, CodeInv, ~HasUsers, NEW c \in Calls, NEW at, Goto(c, at),
           UNCHANGED <<clock, accounts, file, closed, announced, up>>,
           UNCHANGED <<renewing, lock>> \/ Release(c) \/ (lock' = lock /\ at = "left"),
           \/ at \in {"left", "flock"} /\ call[c].held # NoFile
           \/ at = "announce" /\ call[c].seen # NoFile
           \/ at = "read" /\ Is(c, "open") /\ lock' = lock
           \/ /\ at \in {"temp", "rename"} /\ lock' = c
              /\ call[c].held # NoFile /\ call[c].seen # NoFile /\ Expired(call[c].seen)
              /\ at = "rename" => call[c].seen = file /\ call[c].ours # NoFile
    PROVE  CodeInv'
<1>1. PICK o \in CallRec : o = call[c] /\ ReadOK(o) /\ (Renewing(o) => lock = c)
  BY CallsType DEF CodeInv
<1>2. PICK r : r = [o EXCEPT !.at = at]
  OBVIOUS
<1>3. /\ r.at = at /\ r.reading = o.reading /\ r.seen = o.seen /\ r.held = o.held
      /\ r.ours = o.ours
  BY <1>1, <1>2 DEF CallRec
<1>4. ReadOK(r) /\ (Renewing(r) => lock' = c)
  BY <1>1, <1>3 DEF ReadOK, Renewing, InRead, Is
<1>5. call' = [call EXCEPT ![c] = r] /\ \A d \in Calls \ {c} : lock = d => lock' = d
  BY <1>1, <1>2 DEF Goto, Release
<1> QED BY <1>1, <1>3, <1>4, <1>5, CallMoves

LEMMA StartsReading ==
    ASSUME TypeOK, CodeInv, ~HasUsers, NEW c \in Calls, NEW reading,
           StartReading(c, reading), UNCHANGED <<clock, accounts, file, closed, announced, up, lock>>,
           reading \in {"first", "kept"} \/ (reading = "again" /\ lock = c /\ Is(c, "flock"))
    PROVE  CodeInv'
<1>1. PICK o \in CallRec : o = call[c] /\ ReadOK(o) /\ (Renewing(o) => lock = c)
  BY CallsType DEF CodeInv
<1>2. PICK r : r = [o EXCEPT !.at = "look", !.reading = reading, !.seen = NoFile]
  OBVIOUS
<1>3. /\ r.at = "look" /\ r.reading = reading /\ r.seen = NoFile /\ r.held = o.held
      /\ r.ours = o.ours
  BY <1>1, <1>2 DEF CallRec
<1>4. ReadOK(r) /\ (Renewing(r) => lock' = c)
  BY <1>1, <1>3 DEF ReadOK, Renewing, InRead, Is
<1>5. call' = [call EXCEPT ![c] = r]
  BY <1>1, <1>2 DEF StartReading
<1> QED BY <1>1, <1>3, <1>4, <1>5, CallMoves

LEMMA Places ==
    ASSUME TypeOK, CodeInv, ~HasUsers, NEW c \in Calls, Place(c),
           UNCHANGED <<clock, accounts, file, closed, announced>>
    PROVE  CodeInv'
<1>1. PICK o \in CallRec : o = call[c] /\ ReadOK(o)
  BY CallsType DEF CodeInv
<1>2. PICK r : r = [o EXCEPT !.at = "place", !.seen = NoFile]
  OBVIOUS
<1>3. r.at = "place" /\ r.seen = NoFile /\ r.held = o.held /\ r.ours = o.ours
  BY <1>1, <1>2 DEF CallRec
<1>4. ReadOK(r) /\ ~Renewing(r)
  BY <1>1, <1>3 DEF ReadOK, Renewing, InRead
<1>5. call' = [call EXCEPT ![c] = r] /\ UNCHANGED <<up, lock>>
  BY <1>1, <1>2 DEF Place, locks
<1> QED BY <1>1, <1>3, <1>4, <1>5, CallMoves

\* No file where there must be one, or none that is a code: a call that reads back what it put
\* there, or removes a code, does not meet it.
LEMMA NotFound ==
    ASSUME TypeOK, CodeInv, ~HasUsers, NEW c \in Calls, InRead(call[c]),
           (Missing(c) /\ file = NoFile) \/ (Refused(c) /\ file # NoFile),
           UNCHANGED <<clock, accounts, file, announced>>
    PROVE  CodeInv'
<1>1. /\ call[c].reading \in {"first", "again", "kept", "back"}
      /\ call[c].reading = "back" => file # NoFile
  BY DEF CodeInv, ReadOK
<1>2. UNCHANGED closed /\ (Place(c) \/ Error(c))
  BY <1>1 DEF Missing, Refused
<1>3. CASE Error(c)
  BY <1>2, <1>3, Returns DEF Error
<1> QED BY <1>2, <1>3, Places

-----------------------------------------------------------------------------
\* The steps of a call that read.
LEMMA ReadsKeep ==
    ASSUME TypeOK, CodeInv, ~HasUsers, Faulty = FALSE, NEW c \in Calls,
           RefuseClosed(c) \/ Look(c) \/ Open(c) \/ FirstRead(c)
    PROVE  CodeInv'
<1>1. PICK o \in CallRec : o = call[c] /\ ReadOK(o) /\ (Renewing(o) => lock = c)
  BY CallsType DEF CodeInv
<1>2. CASE RefuseClosed(c)
  <2>1. ~closed[SetupOf[c]]
    BY SetupAssumption DEF CodeInv
  <2>2. StartReading(c, "first") /\ UNCHANGED <<clock, accounts, file, closed, announced, up, lock>>
    BY <1>2, <2>1 DEF RefuseClosed, site, running, handed, locks
  <2> QED BY <2>2, StartsReading
<1>3. CASE Look(c)
  <2>1. InRead(call[c]) /\ UNCHANGED <<clock, accounts, file, announced>>
    BY <1>3 DEF Look, InRead, Is, site, handed
  <2>2. CASE file = NoFile /\ Missing(c)
    BY <2>1, <2>2, NotFound
  <2>3. CASE /\ file # NoFile
             /\ call' = [call EXCEPT ![c] = [@ EXCEPT !.at = "open", !.seen = file]]
             /\ UNCHANGED <<running, locks>>
    <3>1. PICK r : r = [o EXCEPT !.at = "open", !.seen = file]
      OBVIOUS
    <3>2. /\ r.at = "open" /\ r.reading = o.reading /\ r.seen = file /\ r.held = o.held
          /\ r.ours = o.ours
      BY <1>1, <3>1 DEF CallRec
    <3>3. ReadOK(r) /\ (Renewing(r) => lock = c)
      BY <1>1, <1>3, <2>3, <3>2 DEF ReadOK, Renewing, InRead, Look, Is
    <3>4. call' = [call EXCEPT ![c] = r] /\ UNCHANGED <<up, closed, lock>>
      BY <1>1, <2>3, <3>1 DEF running, locks
    <3> QED BY <1>1, <2>1, <3>2, <3>3, <3>4, CallMoves
  <2> QED BY <1>3, <2>2, <2>3 DEF Look
<1>4. CASE Open(c)
  <2>1. InRead(call[c]) /\ Is(c, "open") /\ UNCHANGED <<clock, accounts, file, announced>>
    BY <1>4 DEF Open, InRead, Is, site, handed
  <2>2. CASE Goto(c, "read") /\ UNCHANGED <<running, locks>>
    BY <2>1, <2>2, GoesOn DEF running, locks
  <2> QED BY <1>4, <2>1, <2>2, NotFound DEF Open
<1>5. CASE FirstRead(c)
  <2>1. /\ UNCHANGED <<clock, accounts, file, announced>>
        /\ o.at = "read" /\ o.reading = "first" /\ o.seen # NoFile /\ file # NoFile
    BY <1>1, <1>5 DEF FirstRead, Read, ReadOK, site, handed
  <2>2. CASE /\ Stale(call[c].seen)
             /\ call' = [call EXCEPT ![c] = [@ EXCEPT !.at = "mutex", !.held = call[c].seen,
                                                    !.given = Wrong, !.seen = NoFile]]
             /\ UNCHANGED <<running, locks>>
    <3>1. PICK r : r = [o EXCEPT !.at = "mutex", !.held = o.seen, !.given = Wrong, !.seen = NoFile]
      OBVIOUS
    <3>2. /\ r.at = "mutex" /\ r.reading = o.reading /\ r.seen = NoFile /\ r.held = o.seen
          /\ r.ours = o.ours
      BY <1>1, <3>1 DEF CallRec
    <3>3. Expired(o.seen)
      BY <1>1, <2>1, <2>2, FilesOf DEF Stale, CodeInv
    <3>4. ReadOK(r) /\ ~Renewing(r)
      BY <1>1, <2>1, <3>2, <3>3 DEF ReadOK, Renewing, InRead
    <3>5. call' = [call EXCEPT ![c] = r] /\ UNCHANGED <<up, closed, lock>>
      BY <1>1, <2>2, <3>1 DEF running, locks
    <3> QED BY <1>1, <2>1, <3>2, <3>4, <3>5, CallMoves
  <2>3. CASE /\ call' = [call EXCEPT ![c] = [@ EXCEPT !.at = "create", !.given = Wrong,
                                                    !.seen = NoFile]]
             /\ UNCHANGED <<running, locks>>
    <3>1. PICK r : r = [o EXCEPT !.at = "create", !.given = Wrong, !.seen = NoFile]
      OBVIOUS
    <3>2. /\ r.at = "create" /\ r.reading = o.reading /\ r.seen = NoFile /\ r.held = o.held
          /\ r.ours = o.ours
      BY <1>1, <3>1 DEF CallRec
    <3>3. ReadOK(r) /\ ~Renewing(r)
      BY <1>1, <3>2 DEF ReadOK, Renewing, InRead
    <3>4. call' = [call EXCEPT ![c] = r] /\ UNCHANGED <<up, closed, lock>>
      BY <1>1, <2>3, <3>1 DEF running, locks
    <3> QED BY <1>1, <2>1, <3>2, <3>3, <3>4, CallMoves
  <2>4. CASE Goto(c, "announce") /\ UNCHANGED <<running, locks>>
    BY <1>1, <2>1, <2>4, GoesOn DEF running, locks
  <2>5. CASE Answer(c) /\ UNCHANGED closed
    <3>1. \A s \in Setups : up'[s] => up[s] \/ file # NoFile
      BY <2>1
    <3> QED BY <2>1, <2>5, <3>1, Returns DEF Answer
  <2> QED BY <1>5, <2>2, <2>3, <2>4, <2>5 DEF FirstRead
<1> QED BY <1>2, <1>3, <1>4, <1>5

\* The waits: a call holds what it gives back and no more.
LEMMA WaitsKeep ==
    ASSUME TypeOK, CodeInv, ~HasUsers, Faulty = FALSE, NEW c \in Calls,
           \/ TakeMutex(c) \/ MutexWaitEnds(c) \/ WaitLeft(c) \/ LeftWaitEnds(c)
           \/ OpenLockFails(c) \/ Flock(c) \/ FlockFails(c) \/ Locked(c) \/ LockWaitEnds(c)
    PROVE  CodeInv'
<1>1. /\ ReadOK(call[c])
      /\ UNCHANGED <<clock, accounts, file, closed, announced, up>>
  BY DEF CodeInv, TakeMutex, MutexWaitEnds, WaitLeft, LeftWaitEnds, OpenLockFails, Flock, FlockFails,
         Locked, LockWaitEnds, Error, site, handed, running
<1>2. CASE TakeMutex(c) \/ WaitLeft(c)
  <2>1. call[c].held # NoFile
    BY <1>1, <1>2 DEF TakeMutex, WaitLeft, ReadOK, Is
  <2> QED BY <1>1, <1>2, <2>1, GoesOn DEF TakeMutex, WaitLeft
<1>3. CASE MutexWaitEnds(c) \/ LeftWaitEnds(c)
  BY <1>1, <1>3, Returns DEF MutexWaitEnds, LeftWaitEnds, Error
<1>4. CASE Flock(c)
  <2>1. call' = call /\ lock = Free /\ lock' = c /\ Is(c, "flock")
    BY <1>4 DEF Flock
  <2>2. call' = [call EXCEPT ![c] = call[c]] /\ ~Renewing(call[c])
    BY <2>1, CallsType DEF Renewing, InRead, Is
  <2>3. \A d \in Calls \ {c} : lock = d => lock' = d
    BY <2>1, SetupAssumption
  <2> QED BY <1>1, <2>2, <2>3, CallMoves
<1>5. CASE Locked(c)
  BY <1>1, <1>5, StartsReading DEF Locked, locks
<1>6. CASE LockWaitEnds(c)
  <2>1. ReadOK(NoCall) /\ ~Renewing(NoCall)
    BY DEF ReadOK, Renewing, InRead, NoCall
  <2>2. NoCall.seen = NoFile /\ NoCall.held = NoFile /\ NoCall.ours = NoFile
    BY DEF NoCall
  <2>3. call' = [call EXCEPT ![c] = NoCall] /\ \A d \in Calls \ {c} : lock = d => lock' = d
    BY <1>6 DEF LockWaitEnds
  <2> QED BY <1>1, <2>1, <2>2, <2>3, CallMoves
<1> QED BY <1>2, <1>3, <1>4, <1>5, <1>6 DEF OpenLockFails, FlockFails

\* A fresh code is in nobody's hands.
LEMMA NewFileFresh ==
    ASSUME TypeOK, ~(Code \subseteq InHand)
    PROVE  NewFile \in File /\ NewFile # NoFile /\ NewFile.code \notin InHand /\ ~NewFile.shared
<1>1. PICK fresh : fresh \in Code /\ fresh \notin InHand
  OBVIOUS
<1>2. PICK chosen : chosen = CHOOSE k \in Code : k \notin InHand
  OBVIOUS
<1>3. chosen \notin InHand
  BY <1>1, <1>2
<1>4. NewFile = [code |-> chosen, made |-> clock, shared |-> FALSE]
  BY <1>2 DEF NewFile
<1> QED BY <1>3, <1>4, NewFileType, NoFileAssumption

LEMMA WriteTempKeeps ==
    ASSUME TypeOK, CodeInv, ~HasUsers, Faulty = FALSE, NEW c \in Calls,
           Temp(c) \/ PlaceTemp(c)
    PROVE  CodeInv'
<1>1. PICK o \in CallRec : o = call[c] /\ ReadOK(o) /\ (Renewing(o) => lock = c)
  BY CallsType DEF CodeInv
<1>2. PICK next \in {"compare", "link"} :
         /\ WriteTemp(c, next)
         /\ o.at = IF next = "compare" THEN "temp" ELSE "place"
  BY <1>1 DEF Temp, PlaceTemp, Is
<1>3. /\ ~(Code \subseteq InHand) /\ UNCHANGED <<clock, accounts, file, announced, up, closed, lock>>
      /\ call' = [call EXCEPT ![c] = [o EXCEPT !.at = next, !.ours = NewFile]]
  BY <1>1, <1>2 DEF WriteTemp, site, running, locks
<1>4. PICK new \in File : new = NewFile
  BY <1>3, NewFileFresh
<1>5. new # NoFile /\ new.code \notin InHand /\ ~new.shared
  BY <1>3, <1>4, NewFileFresh
<1>6. \A f \in Files : f.code # new.code
  BY <1>5 DEF Files, InHand
<1>7. PICK r : r = [o EXCEPT !.at = next, !.ours = new]
  OBVIOUS
<1>8. /\ r.at = next /\ r.reading = o.reading /\ r.seen = o.seen /\ r.held = o.held
      /\ r.ours = new
  BY <1>1, <1>7 DEF CallRec
<1>9. ReadOK(r) /\ (Renewing(r) => lock = c)
  BY <1>1, <1>2, <1>5, <1>8 DEF ReadOK, Renewing, InRead
<1>10. call' = [call EXCEPT ![c] = r]
  BY <1>3, <1>4, <1>7
<1> QED BY <1>1, <1>3, <1>5, <1>6, <1>8, <1>9, <1>10, CallMoves

\* What a call does with what it has read or found.
LEMMA UsesKeep ==
    ASSUME TypeOK, CodeInv, ~HasUsers, Faulty = FALSE, NEW c \in Calls,
           ReadAgain(c) \/ Compare(c) \/ KeptRead(c) \/ ReadBack(c) \/ Announce(c)
    PROVE  CodeInv'
<1>1. PICK o \in CallRec : o = call[c] /\ ReadOK(o) /\ (Renewing(o) => lock = c)
  BY CallsType DEF CodeInv
<1>2. o.seen # NoFile /\ file # NoFile
  BY <1>1 DEF ReadAgain, Compare, KeptRead, ReadBack, Announce, Is, Read, ReadOK
<1>3. o.seen \in Files /\ file \in Files /\ (o.held # NoFile => o.held \in Files)
  BY <1>1, <1>2, FilesOf
<1>4. \A f, g \in Files : ~f.shared /\ (f.code = g.code => f = g)
  BY DEF CodeInv
<1>5. UNCHANGED <<clock, accounts, file, closed>>
  BY DEF ReadAgain, Compare, KeptRead, ReadBack, Announce, site, running, Place, Error
<1>6. CASE ReadAgain(c)
  <2>1. o.at = "read" /\ o.reading = "again" /\ UNCHANGED <<announced, up>>
    BY <1>1, <1>6 DEF ReadAgain, Read, handed, running
  <2>2. o.held # NoFile /\ Expired(o.held) /\ lock = c
    BY <1>1, <2>1 DEF ReadOK, Renewing, InRead
  <2>3. CASE Got(c)
    BY <1>1, <1>2, <1>5, <2>1, <2>3, GoesOn DEF Got
  <2>4. CASE /\ Goto(c, "temp") /\ UNCHANGED locks
             /\ ~(o.seen.code # o.held.code /\ ~Stale(o.seen))
    <3>1. Expired(o.seen)
      BY <1>3, <1>4, <2>2, <2>4 DEF Stale
    <3> QED BY <1>1, <1>2, <1>5, <2>1, <2>2, <2>4, <3>1, GoesOn DEF locks
  <2> QED BY <1>1, <1>6, <2>3, <2>4 DEF ReadAgain
<1>7. CASE Compare(c)
  <2>1. o.at = "compare" /\ UNCHANGED announced
    BY <1>1, <1>7 DEF Compare, Is, handed
  <2>2. o.held # NoFile /\ Expired(o.seen) /\ lock = c /\ o.ours # NoFile
    BY <1>1, <2>1 DEF ReadOK, Renewing
  <2>3. CASE file.code # o.seen.code /\ StartReading(c, "kept") /\ UNCHANGED <<running, locks>>
    BY <1>5, <2>1, <2>3, StartsReading DEF running, locks
  <2>4. CASE file.code = o.seen.code /\ Goto(c, "rename") /\ UNCHANGED <<running, locks>>
    <3>1. o.seen = file
      BY <1>3, <1>4, <2>4
    <3> QED BY <1>1, <1>2, <1>5, <2>1, <2>2, <2>4, <3>1, GoesOn DEF running, locks
  <2> QED BY <1>1, <1>2, <1>7, <2>3, <2>4 DEF Compare
<1>8. CASE KeptRead(c)
  <2>1. UNCHANGED <<announced, up>> /\ (Got(c) \/ Return(c))
    BY <1>8 DEF KeptRead, handed, Error
  <2> QED BY <1>1, <1>2, <1>5, <2>1, GoesOn, Returns DEF Got
<1>9. CASE ReadBack(c)
  <2>1. UNCHANGED <<announced, up>> /\ Got(c)
    BY <1>1, <1>3, <1>4, <1>9 DEF ReadBack, handed, running
  <2> QED BY <1>1, <1>2, <1>5, <2>1, GoesOn DEF Got
<1>10. CASE Announce(c)
  <2>1. Return(c) /\ \A s \in Setups : up'[s] => up[s] \/ file # NoFile
    BY <1>2, <1>10 DEF Announce, Answer
  <2>2. announced \in [Setups -> File \cup {NoFile}]
    BY DEF TypeOK
  <2>3. \/ announced' = announced
        \/ ~Stale(o.seen) /\ announced' = [announced EXCEPT ![SetupOf[c]] = o.seen]
    BY <1>1, <1>10 DEF Announce
  <2>4. ~Stale(o.seen) => o.seen = file /\ ~Expired(file)
    BY <1>1, <1>2 DEF ReadOK, Stale
  <2>5. \A s \in Setups : \/ announced'[s] \in {announced[s], NoFile}
                          \/ announced'[s] = file /\ ~Expired(file)
    BY <2>2, <2>3, <2>4
  <2> QED BY <1>5, <2>1, <2>5, Returns
<1> QED BY <1>6, <1>7, <1>8, <1>9, <1>10

\* A code is put into place over an expired one, or where there is none.
LEMMA PutsKeep ==
    ASSUME TypeOK, CodeInv, ~HasUsers, Faulty = FALSE, NEW c \in Calls, Rename(c) \/ Link(c)
    PROVE  CodeInv'
<1>1. PICK o \in CallRec : o = call[c] /\ ReadOK(o) /\ (Renewing(o) => lock = c)
  BY CallsType DEF CodeInv
<1>2. /\ UNCHANGED <<clock, accounts, closed, announced, up, lock>>
      /\ o.ours # NoFile /\ o.ours \in Files
  BY <1>1, FilesOf DEF Rename, Link, ReadOK, Is, site, handed, running, locks
<1>3. CASE Link(c) /\ file # NoFile
  <2>1. PICK r : r = [o EXCEPT !.at = "look", !.reading = "back", !.seen = NoFile,
                               !.ours = NoFile]
    OBVIOUS
  <2>2. /\ r.at = "look" /\ r.reading = "back" /\ r.seen = NoFile /\ r.held = o.held
        /\ r.ours = NoFile
    BY <1>1, <2>1 DEF CallRec
  <2>3. ReadOK(r) /\ ~Renewing(r)
    BY <1>1, <1>3, <2>2 DEF ReadOK, Renewing, InRead
  <2>4. call' = [call EXCEPT ![c] = r] /\ file' = file
    BY <1>1, <1>3, <2>1 DEF Link
  <2> QED BY <1>1, <1>2, <2>2, <2>3, <2>4, CallMoves
<1>4. CASE Rename(c) \/ (Link(c) /\ file = NoFile)
  <2>1. PICK r : r = [o EXCEPT !.at = "look", !.reading = "back", !.seen = NoFile]
    OBVIOUS
  <2>2. /\ r.at = "look" /\ r.reading = "back" /\ r.seen = NoFile /\ r.held = o.held
        /\ r.ours = o.ours
    BY <1>1, <2>1 DEF CallRec
  <2>3. file' = o.ours /\ call' = [call EXCEPT ![c] = r]
    <3>1. CASE Rename(c)
      BY <1>1, <2>1, <3>1 DEF Rename, StartReading
    <3>2. CASE Link(c) /\ file = NoFile
      BY <1>1, <2>1, <3>2 DEF Link, CallRec
    <3> QED BY <1>4, <3>1, <3>2
  <2>4. file = NoFile \/ (Expired(file) /\ lock = c)
    BY <1>1, <1>4 DEF Rename, Is, ReadOK, Renewing
  <2>5. /\ call'[c] = r /\ \A d \in Calls \ {c} : call'[d] = call[d]
    BY <2>3, CallsType
  <2>6. Files' \subseteq Files
    BY <1>1, <1>2, <2>2, <2>3, <2>5 DEF Files
  <2>7. ASSUME NEW d \in Calls, d # c
        PROVE  (ReadOK(call[d]))' /\ ((Renewing(call[d]))' => lock' = d)
    <3>1. PICK q : q = call[d]
      OBVIOUS
    <3>2. ReadOK(q) /\ (Renewing(q) => lock = d)
      BY <3>1 DEF CodeInv
    <3>3. q.at # "rename"
      BY <2>4, <2>7, <3>2 DEF Renewing, ReadOK
    <3>4. q.seen # NoFile => Expired(q.seen)
      BY <2>4, <3>2 DEF ReadOK
    <3>5. (ReadOK(q))' /\ ((Renewing(q))' => lock' = d)
      BY <1>2, <2>3, <3>2, <3>3, <3>4 DEF ReadOK, Renewing, InRead, Expired
    <3> QED BY <2>5, <2>7, <3>1, <3>5 DEF ReadOK, Renewing, InRead, Expired
  <2>8. (ReadOK(call[c]))' /\ ~(Renewing(call[c]))'
    <3>1. (ReadOK(r))' /\ ~(Renewing(r))'
      BY <1>1, <1>2, <2>2, <2>3 DEF ReadOK, Renewing, InRead, Expired
    <3> QED BY <2>5, <3>1 DEF ReadOK, Renewing, InRead, Expired
  <2>9. \A s \in Setups : announced[s] = NoFile
    BY <2>4 DEF CodeInv
  <2>10. ~HasUsers' /\ \A f, g \in Files' : ~f.shared /\ (f.code = g.code => f = g)
    BY <1>2, <2>6 DEF CodeInv, HasUsers
  <2>11. file' # NoFile /\ \A s \in Setups : ~closed'[s] /\ announced'[s] = NoFile
    BY <1>2, <2>3, <2>9 DEF CodeInv
  <2>12. \A d \in Calls : (ReadOK(call[d]))' /\ ((Renewing(call[d]))' => lock' = d)
    BY <2>7, <2>8
  <2> QED BY <2>10, <2>11, <2>12 DEF CodeInv
<1> QED BY <1>3, <1>4

\* Before there is an account, no call takes a code away.
LEMMA NoneRemoves ==
    ASSUME CodeInv, ~HasUsers, NEW c \in Calls
    PROVE  ~(FailedReadBack(c) \/ Unlink(c) \/ Finish(c) \/ FinishRead(c) \/ Remove(c))
<1>1. ReadOK(call[c])
  BY DEF CodeInv
<1> QED BY <1>1 DEF FailedReadBack, Unlink, Finish, FinishRead, Remove, Is, Read, ReadOK, InRead

\* A call begins with nothing in hand.
LEMMA BeginsEmpty ==
    ASSUME NEW c \in Calls, Begin(c)
    PROVE  \E r : /\ call' = [call EXCEPT ![c] = r]
                  /\ r.at = "refuse" /\ r.seen = NoFile /\ r.held = NoFile /\ r.ours = NoFile
<1>1. CASE Prepare(c)
  <2>1. PICK r : r = [NoCall EXCEPT !.op = "prepare", !.at = "refuse"]
    OBVIOUS
  <2>2. r.at = "refuse" /\ r.seen = NoFile /\ r.held = NoFile /\ r.ours = NoFile
    BY <2>1 DEF NoCall
  <2> QED BY <1>1, <2>1, <2>2 DEF Prepare
<1>2. ASSUME NEW op, NEW given, Submit(c, op, given)
      PROVE  \E r : /\ call' = [call EXCEPT ![c] = r]
                    /\ r.at = "refuse" /\ r.seen = NoFile /\ r.held = NoFile /\ r.ours = NoFile
  <2>1. PICK r : r = [NoCall EXCEPT !.op = op, !.at = "refuse", !.given = given]
    OBVIOUS
  <2>2. r.at = "refuse" /\ r.seen = NoFile /\ r.held = NoFile /\ r.ours = NoFile
    BY <2>1 DEF NoCall
  <2> QED BY <1>2, <2>1, <2>2 DEF Submit
<1> QED BY <1>1, <1>2 DEF Begin, Check, CreateFirstAccount

LEMMA BeginKeeps ==
    ASSUME TypeOK, CodeInv, ~HasUsers, NEW c \in Calls, Begin(c)
    PROVE  CodeInv'
<1>1. PICK r : /\ call' = [call EXCEPT ![c] = r]
               /\ r.at = "refuse" /\ r.seen = NoFile /\ r.held = NoFile /\ r.ours = NoFile
  BY BeginsEmpty
<1>2. ReadOK(r) /\ ~Renewing(r)
  BY <1>1 DEF ReadOK, Renewing, InRead
<1>3. UNCHANGED <<clock, accounts, file, closed, announced, up, lock>>
  BY DEF Begin, Prepare, Check, CreateFirstAccount, Submit, site, running, locks, handed
<1> QED BY <1>1, <1>2, <1>3, CallMoves

\* The kernel answers a flock call left behind.
LEMMA LeftKeeps ==
    ASSUME TypeOK, CodeInv, ~HasUsers, Faulty = FALSE, NEW s \in Setups, LeftStep(s)
    PROVE  CodeInv'
<1>1. UNCHANGED <<clock, accounts, file, closed, announced, up, call>>
  BY DEF LeftStep, LeftFlock, CloseLeft, LeftFlockFails, site, running, handed
<1>2. \A c \in Calls : lock = c => lock' = c
  BY SetupAssumption DEF LeftStep, LeftFlock, CloseLeft, LeftFlockFails
<1>3. HasUsers' = HasUsers /\ Files' = Files
  BY <1>1 DEF HasUsers, Files
<1> QED BY <1>1, <1>2, <1>3 DEF CodeInv, ReadOK, Renewing, InRead, Expired

LEMMA CrashKeeps ==
    ASSUME TypeOK, CodeInv, ~HasUsers, NEW s \in Setups, Crash(s)
    PROVE  CodeInv'
<1>1. /\ UNCHANGED <<clock, accounts, file, announced>>
      /\ \A t \in Setups : (closed'[t] => closed[t]) /\ (up'[t] => up[t])
  BY DEF Crash, site, handed, TypeOK
<1>2. \A c \in Calls : call'[c] = IF SetupOf[c] = s THEN NoCall ELSE call[c]
  BY CallsType DEF Crash
<1>3. \A c \in Calls : lock = c /\ SetupOf[c] # s => lock' = c
  BY SetupAssumption DEF Crash
<1>4. Files' \subseteq Files /\ ~HasUsers'
  BY <1>1, <1>2 DEF Files, HasUsers, NoCall
<1>5. ASSUME NEW c \in Calls
      PROVE  (ReadOK(call[c]))' /\ ((Renewing(call[c]))' => lock' = c)
  <2>1. PICK q : q = call'[c]
    OBVIOUS
  <2>2. ReadOK(q) /\ (Renewing(q) => lock' = c)
    <3>1. ReadOK(NoCall) /\ ~Renewing(NoCall)
      BY DEF ReadOK, Renewing, InRead, NoCall
    <3>2. ReadOK(call[c]) /\ (Renewing(call[c]) => lock = c)
      BY DEF CodeInv
    <3> QED BY <1>2, <1>3, <2>1, <3>1, <3>2
  <2>3. (ReadOK(q))' /\ ((Renewing(q))' => lock' = c)
    BY <1>1, <2>2 DEF ReadOK, Renewing, InRead, Expired
  <2> QED BY <2>1, <2>3 DEF ReadOK, Renewing, InRead, Expired
<1>6. \A t \in Setups : /\ ~closed'[t] /\ (up'[t] => file' # NoFile)
                        /\ announced'[t] # NoFile => announced'[t] = file' /\ ~(Expired(file))'
  BY <1>1 DEF CodeInv, Expired
<1>7. \A f, g \in Files' : ~f.shared /\ (f.code = g.code => f = g)
  BY <1>4 DEF CodeInv
<1> QED BY <1>4, <1>5, <1>6, <1>7 DEF CodeInv

\* Time: what has expired stays so, and a code is no longer vouched for from then on.
LEMMA TickKeeps ==
    ASSUME TypeOK, CodeInv, ~HasUsers, Tick
    PROVE  CodeInv'
<1>1. /\ UNCHANGED <<accounts, file, closed, up, lock, call>>
      /\ clock' = clock + 1 /\ clock \in Nat
      /\ announced' = Forget({f \in File : clock' >= f.made + Lifetime})
  BY SetupAssumption DEF Tick, TypeOK, running, locks
<1>2. \A f \in File : f.made \in Nat /\ (Expired(f) => (Expired(f))')
  BY <1>1, SetupAssumption DEF Expired, File
<1>3. \A c \in Calls : call[c].seen \in File \cup {NoFile} /\ call[c].held \in File \cup {NoFile}
  BY CallsType DEF CallRec
<1>4. Files' = Files /\ ~HasUsers'
  BY <1>1 DEF Files, HasUsers
<1>5. ASSUME NEW c \in Calls
      PROVE  (ReadOK(call[c]))' /\ ((Renewing(call[c]))' => lock' = c)
  <2>1. PICK q \in CallRec : q = call[c]
    BY CallsType
  <2>2. ReadOK(q) /\ (Renewing(q) => lock = c)
    BY <2>1 DEF CodeInv
  <2>3. /\ q.seen # NoFile /\ Expired(q.seen) => (Expired(q.seen))'
        /\ q.held # NoFile /\ Expired(q.held) => (Expired(q.held))'
    BY <1>2, <1>3, <2>1
  <2>4. (ReadOK(q))' /\ ((Renewing(q))' => lock' = c)
    BY <1>1, <2>2, <2>3 DEF ReadOK, Renewing, InRead
  <2> QED BY <1>1, <2>1, <2>4 DEF ReadOK, Renewing, InRead, Expired
<1>6. ASSUME NEW s \in Setups, announced'[s] # NoFile
      PROVE  announced'[s] = file' /\ ~(Expired(file))'
  <2>1. announced[s] \in File /\ announced'[s] = announced[s] /\ ~(clock' >= announced[s].made + Lifetime)
    BY <1>1, <1>6 DEF Forget, TypeOK
  <2>2. announced[s] = file
    BY <2>1, NoFileAssumption DEF CodeInv
  <2> QED BY <1>1, <2>1, <2>2 DEF Expired
<1>7. \A s \in Setups : ~closed'[s] /\ (up'[s] => file' # NoFile)
  BY <1>1 DEF CodeInv
<1> QED BY <1>4, <1>5, <1>6, <1>7 DEF CodeInv

\* The site's first account ends it all: nothing is vouched for any more.
LEMMA AccountKeeps ==
    ASSUME TypeOK, CodeInv, [Next]_vars, HasUsers \/ HasUsers'
    PROVE  CodeInv'
<1>1. accounts \in [setup : Nat, shell : BOOLEAN]
  BY DEF TypeOK
<1>2. CASE ShellCreates \/ \E c \in Calls : CreateFirstUser(c) /\ accounts' # accounts
  <2>1. \A s \in Setups : announced'[s] = NoFile
    BY <1>2 DEF ShellCreates, CreateFirstUser
  <2>2. HasUsers'
    BY <1>1, <1>2 DEF ShellCreates, CreateFirstUser, HasUsers
  <2> QED BY <2>1, <2>2 DEF CodeInv
<1>3. CASE accounts' = accounts
  <2>1. HasUsers /\ HasUsers' /\ \A s \in Setups : announced[s] = NoFile
    BY <1>3 DEF HasUsers, CodeInv
  <2>2. \A s \in Setups : announced'[s] = NoFile
    <3>1. CASE UNCHANGED announced
      BY <2>1, <3>1
    <3>2. CASE \E c \in Calls : Announce(c)
      BY <2>1, <3>2 DEF Announce
    <3>3. CASE Tick \/ Share \/ ShellCreates
      BY <2>1, <3>3 DEF Tick, Share, ShellCreates, Forget
    <3>4. CASE \E c \in Calls : CreateFirstUser(c)
      BY <2>1, <3>4 DEF CreateFirstUser
    <3>5. ASSUME NEW c \in Calls, Begin(c) \/ LockStep(c) PROVE UNCHANGED announced
      BY <3>5 DEF Begin, Prepare, Check, CreateFirstAccount, Submit, LockStep, TakeMutex, WaitLeft,
                  OpenLockFails, Flock, LockWaitEnds, handed
    <3>6. ASSUME NEW s \in Setups, LeftStep(s) \/ Crash(s) PROVE UNCHANGED announced
      BY <3>6 DEF LeftStep, LeftFlock, CloseLeft, LeftFlockFails, Crash, handed
    <3>7. ASSUME NEW c \in Calls, QuietStep(c), ~Announce(c), ~CreateFirstUser(c)
          PROVE  UNCHANGED announced
      BY <3>7 DEF QuietStep, RefuseClosed, Look, Open, FirstRead, MutexWaitEnds, LeftWaitEnds,
                  FlockFails, Locked, ReadAgain, Temp, Compare, Rename, KeptRead, PlaceTemp, WriteTemp,
                  Link, ReadBack, FailedReadBack, Unlink, Finish, FinishRead, Remove, handed
    <3> QED BY <3>1, <3>2, <3>3, <3>4, <3>5, <3>6, <3>7, NextSteps DEF WorldStep, vars
  <2> QED BY <2>1, <2>2 DEF CodeInv
<1>4. accounts' = accounts \/ ShellCreates \/ \E c \in Calls : CreateFirstUser(c)
  <2>1. ASSUME NEW c \in Calls, Begin(c) \/ LockStep(c) PROVE UNCHANGED accounts
    BY <2>1 DEF Begin, Prepare, Check, CreateFirstAccount, Submit, LockStep, TakeMutex, WaitLeft,
                OpenLockFails, Flock, LockWaitEnds, site
  <2>2. ASSUME NEW s \in Setups, LeftStep(s) \/ Crash(s) PROVE UNCHANGED accounts
    BY <2>2 DEF LeftStep, LeftFlock, CloseLeft, LeftFlockFails, Crash, site
  <2>3. ASSUME NEW c \in Calls, QuietStep(c), ~CreateFirstUser(c) PROVE UNCHANGED accounts
    BY <2>3 DEF QuietStep, RefuseClosed, Look, Open, FirstRead, MutexWaitEnds, LeftWaitEnds,
                FlockFails, Locked, ReadAgain, Temp, Compare, Rename, KeptRead, PlaceTemp, WriteTemp,
                Link, ReadBack, FailedReadBack, Unlink, Announce, Finish, FinishRead, Remove, site
  <2> QED BY <2>1, <2>2, <2>3, NextSteps DEF WorldStep, Tick, Share, vars
<1> QED BY <1>2, <1>3, <1>4

LEMMA CodeStep ==
    ASSUME TypeOK, CodeInv, Faulty = FALSE, MaxChmods = 0, [Next]_vars
    PROVE  CodeInv'
<1>1. CASE HasUsers \/ HasUsers'
  BY <1>1, AccountKeeps
<1>2. CASE ~HasUsers /\ ~HasUsers'
  <2>1. CASE UNCHANGED vars
    BY <2>1 DEF vars, CodeInv, HasUsers, Files, ReadOK, Renewing, InRead, Expired
  <2>2. ~Share
    BY DEF Share, TypeOK
  <2>3. ~ShellCreates
    BY <1>2 DEF ShellCreates, HasUsers, TypeOK
  <2>4. ASSUME NEW c \in Calls, CreateFirstUser(c) PROVE CodeInv'
    <3>1. ~(accounts' = [accounts EXCEPT !.setup = @ + 1])
      BY <1>2 DEF HasUsers, TypeOK
    <3>2. Return(c) /\ UNCHANGED <<clock, accounts, file, closed, announced, up>>
      BY <2>4, <3>1 DEF CreateFirstUser, Error
    <3> QED BY <1>2, <3>2, Returns
  <2>5. ASSUME NEW c \in Calls, Begin(c) \/ QuietStep(c) \/ LockStep(c) PROVE CodeInv'
    BY <1>2, <2>4, <2>5, BeginKeeps, ReadsKeep, WaitsKeep, WriteTempKeeps, UsesKeep, PutsKeep,
       NoneRemoves DEF QuietStep, LockStep
  <2> QED
    BY <1>2, <2>1, <2>2, <2>3, <2>5, NextSteps, LeftKeeps, CrashKeeps, TickKeeps DEF WorldStep
<1> QED BY <1>1, <1>2

LEMMA CodeInvariant == ASSUME Faulty = FALSE, MaxChmods = 0 PROVE Spec => []CodeInv
<1>1. Init => CodeInv
  <2> SUFFICES ASSUME Init PROVE CodeInv
    OBVIOUS
  <2>1. Files = {} /\ ~HasUsers
    BY DEF Init, Files, HasUsers, NoCall
  <2>2. \A c \in Calls : ReadOK(call[c]) /\ ~Renewing(call[c])
    BY DEF Init, ReadOK, Renewing, InRead, NoCall
  <2> QED BY <2>1, <2>2 DEF CodeInv, Init
<1>2. TypeOK /\ CodeInv /\ [Next]_vars => CodeInv'
  BY CodeStep
<1> QED BY <1>1, <1>2, SetupTypes, PTL DEF Spec

\* AnnouncedHolds (setupcode.go): while no system call fails and the owner leaves the file's mode
\* alone, no start, renewal, crash or ended wait takes a live code that was handed out away from
\* the file, for any number of processes and calls.  A code is replaced only by a call that holds
\* the lock file, and only once it has expired; a first code is linked where there is none.
THEOREM AnnouncedCodesHold ==
    ASSUME Faulty = FALSE, MaxChmods = 0
    PROVE  Spec => []AnnouncedHolds
<1>1. CodeInv => AnnouncedHolds
  BY DEF CodeInv, AnnouncedHolds
<1> QED BY <1>1, CodeInvariant, PTL

\* CodeStays: under the same conditions there is a code to be read from the moment a process
\* serves until the site has an account.
THEOREM CodesStay ==
    ASSUME Faulty = FALSE, MaxChmods = 0
    PROVE  Spec => []CodeStays
<1>1. CodeInv => CodeStays
  BY DEF CodeInv, CodeStays
<1> QED BY <1>1, CodeInvariant, PTL

-----------------------------------------------------------------------------
\* Why a renewal never answers with the code it set out to replace.

Bears(f, k) == f # NoFile /\ f.code = k

\* The call has written a code that nobody can have read yet.
Unplaced(r) == r.at \in {"compare", "rename", "link"}

\* The code a renewal set out to replace is gone for good once the renewal has seen another, or
\* no file, at the code's path, or has put its own there.
RenewalOK(r) ==
    /\ r.at \in {"open", "read", "temp", "compare", "rename"} => r.seen # NoFile
    /\ r.at = "refuse" \/ (InRead(r) /\ r.reading \in {"none", "first"}) => r.held = NoFile
    /\ r.held # NoFile =>
          /\ r.at \in {"place", "link"} \/ (InRead(r) /\ r.reading \in {"kept", "back"}) =>
                ~Bears(file, r.held.code) /\ ~Bears(r.seen, r.held.code)
          /\ (InRead(r) /\ r.reading = "again") \/ r.at \in {"temp", "compare", "rename"} =>
                r.seen = NoFile \/ r.seen.code = r.held.code \/ ~Bears(file, r.held.code)

\* A code that is yet to be put into place is in no file that any call has met.
Fresh(d) ==
    /\ call[d].ours # NoFile
    /\ ~Bears(file, call[d].ours.code)
    /\ \A c \in Calls : /\ ~Bears(call[c].seen, call[d].ours.code)
                        /\ ~Bears(call[c].held, call[d].ours.code)
                        /\ c # d => ~Bears(call[c].ours, call[d].ours.code)

RenewInv == \A c \in Calls : RenewalOK(call[c]) /\ (Unplaced(call[c]) => Fresh(c))

\* A step that gives call c the record r and leaves the code file, removes it, or puts into place
\* the code c has written.
LEMMA RenewalMoves ==
    ASSUME TypeOK, RenewInv, NEW c \in Calls, NEW r, call' = [call EXCEPT ![c] = r],
           (RenewalOK(r))',
           r.seen \in {NoFile, call[c].seen, file},
           r.held \in {NoFile, call[c].held, call[c].seen},
           \/ /\ r.ours \in {NoFile, call[c].ours}
              /\ Unplaced(r) => Unplaced(call[c]) /\ r.ours = call[c].ours
           \/ r.ours # NoFile /\ r.ours.code \notin InHand,
           \/ file' \in {NoFile, file}
           \/ file' = call[c].ours /\ r.ours = call[c].ours /\ Unplaced(call[c]) /\ ~Unplaced(r)
    PROVE  RenewInv'
<1>1. /\ call'[c] = r /\ \A d \in Calls \ {c} : call'[d] = call[d]
  BY CallsType
<1>2. ASSUME NEW d \in Calls \ {c} PROVE (RenewalOK(call[d]))'
  <2>1. PICK q : q = call[d] /\ RenewalOK(q)
    BY DEF RenewInv
  <2>2. q.held # NoFile => ((Bears(file, q.held.code))' => Bears(file, q.held.code))
    <3>1. CASE file' \in {NoFile, file}
      BY <3>1 DEF Bears
    <3>2. CASE file' = call[c].ours /\ Unplaced(call[c])
      BY <2>1, <3>2 DEF RenewInv, Fresh, Bears
    <3> QED BY <3>1, <3>2
  <2>3. (RenewalOK(q))'
    BY <2>1, <2>2 DEF RenewalOK, InRead, Bears
  <2> QED BY <1>1, <2>1, <2>3 DEF RenewalOK, InRead, Bears
<1>3. (RenewalOK(call[c]))'
  BY <1>1 DEF RenewalOK, InRead, Bears
<1>4. ASSUME NEW d \in Calls \ {c}, Unplaced(call[d]) PROVE Fresh(d)'
  <2>1. Fresh(d)
    BY <1>4 DEF RenewInv
  <2>2. PICK k : k = call[d].ours.code
    OBVIOUS
  <2>3. k \in InHand
    BY <2>1, <2>2 DEF InHand, Fresh
  <2>4. ~Bears(file', k)
    BY <2>1, <2>2 DEF Fresh, Bears
  <2>5. ~Bears(r.seen, k) /\ ~Bears(r.held, k)
    BY <2>1, <2>2 DEF Fresh, Bears
  <2>6. ~Bears(r.ours, k)
    BY <2>1, <2>2, <2>3 DEF Fresh, Bears
  <2>7. \A e \in Calls \ {c} : /\ ~Bears(call[e].seen, k) /\ ~Bears(call[e].held, k)
                               /\ e # d => ~Bears(call[e].ours, k)
    BY <2>1, <2>2 DEF Fresh
  <2> QED BY <1>1, <2>1, <2>2, <2>4, <2>5, <2>6, <2>7 DEF Fresh, Bears
<1>5. ASSUME Unplaced(r) PROVE Fresh(c)'
  <2>1. PICK k : k = r.ours.code
    OBVIOUS
  <2>2. file' \in {NoFile, file}
    BY <1>5
  <2>3. CASE Unplaced(call[c]) /\ r.ours = call[c].ours
    <3>1. Fresh(c)
      BY <2>3 DEF RenewInv
    <3>2. ~Bears(file', k) /\ ~Bears(r.seen, k) /\ ~Bears(r.held, k) /\ r.ours # NoFile
      BY <2>1, <2>2, <2>3, <3>1 DEF Fresh, Bears
    <3>3. \A e \in Calls \ {c} : /\ ~Bears(call[e].seen, k) /\ ~Bears(call[e].held, k)
                                 /\ ~Bears(call[e].ours, k)
      BY <2>1, <2>3, <3>1 DEF Fresh
    <3> QED BY <1>1, <2>1, <3>2, <3>3 DEF Fresh, Bears
  <2>4. CASE r.ours # NoFile /\ k \notin InHand
    <3>1. /\ ~Bears(file, k)
          /\ \A e \in Calls : /\ ~Bears(call[e].seen, k) /\ ~Bears(call[e].held, k)
                              /\ ~Bears(call[e].ours, k)
      BY <2>4 DEF InHand, Bears
    <3>2. ~Bears(file', k) /\ ~Bears(r.seen, k) /\ ~Bears(r.held, k)
      BY <2>2, <3>1 DEF Bears
    <3> QED BY <1>1, <2>1, <2>4, <3>1, <3>2 DEF Fresh, Bears
  <2> QED BY <1>5, <2>1, <2>3, <2>4
<1> QED BY <1>1, <1>2, <1>3, <1>4, <1>5 DEF RenewInv, Unplaced

LEMMA RenewalReturns ==
    ASSUME TypeOK, RenewInv, NEW c \in Calls, call' = [call EXCEPT ![c] = NoCall],
           file' \in {NoFile, file}
    PROVE  RenewInv'
<1>1. (RenewalOK(NoCall))' /\ ~Unplaced(NoCall)
  BY DEF RenewalOK, Unplaced, InRead, NoCall
<1>2. NoCall.seen = NoFile /\ NoCall.held = NoFile /\ NoCall.ours = NoFile
  BY DEF NoCall
<1> QED BY <1>1, <1>2, RenewalMoves

LEMMA RenewalGoesOn ==
    ASSUME TypeOK, RenewInv, NEW c \in Calls, NEW at, Goto(c, at), UNCHANGED file,
           \/ at \in {"left", "flock", "announce", "unlink", "remove", "finish"}
           \/ at = "read" /\ Is(c, "open")
           \/ at = "temp" /\ Read(c, "again", "read")
           \/ at = "rename" /\ Is(c, "compare")
    PROVE  RenewInv'
<1>1. PICK o \in CallRec : o = call[c] /\ RenewalOK(o)
  BY CallsType DEF RenewInv
<1>2. PICK r : r = [o EXCEPT !.at = at]
  OBVIOUS
<1>3. /\ r.at = at /\ r.reading = o.reading /\ r.seen = o.seen /\ r.held = o.held
      /\ r.ours = o.ours
  BY <1>1, <1>2 DEF CallRec
<1>4. (RenewalOK(r))' /\ (Unplaced(r) => Unplaced(o))
  BY <1>1, <1>3 DEF RenewalOK, InRead, Bears, Unplaced, Is, Read
<1>5. call' = [call EXCEPT ![c] = r]
  BY <1>1, <1>2 DEF Goto
<1> QED BY <1>1, <1>3, <1>4, <1>5, RenewalMoves

LEMMA RenewalReads ==
    ASSUME TypeOK, RenewInv, NEW c \in Calls, NEW reading, StartReading(c, reading),
           UNCHANGED file,
           \/ reading \in {"again", "finish"}
           \/ reading = "first" /\ Is(c, "refuse")
           \/ reading = "kept" /\ Is(c, "compare") /\ file # NoFile /\ file.code # call[c].seen.code
    PROVE  RenewInv'
<1>1. PICK o \in CallRec : o = call[c] /\ RenewalOK(o)
  BY CallsType DEF RenewInv
<1>2. PICK r : r = [o EXCEPT !.at = "look", !.reading = reading, !.seen = NoFile]
  OBVIOUS
<1>3. /\ r.at = "look" /\ r.reading = reading /\ r.seen = NoFile /\ r.held = o.held
      /\ r.ours = o.ours
  BY <1>1, <1>2 DEF CallRec
<1>4. (RenewalOK(r))' /\ ~Unplaced(r)
  BY <1>1, <1>3 DEF RenewalOK, InRead, Bears, Unplaced, Is
<1>5. call' = [call EXCEPT ![c] = r]
  BY <1>1, <1>2 DEF StartReading
<1> QED BY <1>1, <1>3, <1>4, <1>5, RenewalMoves

\* A call places a code where it found none.
LEMMA RenewalPlaces ==
    ASSUME TypeOK, RenewInv, NEW c \in Calls, Undo(c) \/ (Place(c) /\ file = NoFile),
           UNCHANGED file
    PROVE  RenewInv'
<1>1. PICK o \in CallRec : o = call[c] /\ RenewalOK(o)
  BY CallsType DEF RenewInv
<1>2. PICK at \in {"place", "undo"} :
         /\ call' = [call EXCEPT ![c] = [o EXCEPT !.at = at, !.seen = NoFile]]
         /\ at = "place" => file = NoFile
  BY <1>1 DEF Undo, Place
<1>3. PICK r : r = [o EXCEPT !.at = at, !.seen = NoFile]
  OBVIOUS
<1>4. r.at = at /\ r.seen = NoFile /\ r.held = o.held /\ r.ours = o.ours
  BY <1>1, <1>3 DEF CallRec
<1>5. (RenewalOK(r))' /\ ~Unplaced(r)
  BY <1>1, <1>2, <1>4 DEF RenewalOK, InRead, Bears, Unplaced
<1>6. call' = [call EXCEPT ![c] = r]
  BY <1>2, <1>3
<1> QED BY <1>1, <1>4, <1>5, <1>6, RenewalMoves

LEMMA RenewalUnread ==
    ASSUME TypeOK, RenewInv, NEW c \in Calls, UNCHANGED file,
           (Missing(c) /\ file = NoFile) \/ Refused(c) \/ Failed(c)
    PROVE  RenewInv'
<1>1. (Place(c) /\ file = NoFile) \/ Undo(c) \/ Answer(c) \/ Error(c)
  BY DEF Missing, Refused, Failed
<1>2. CASE Answer(c) \/ Error(c)
  BY <1>2, RenewalReturns DEF Answer, Error, Return
<1> QED BY <1>1, <1>2, RenewalPlaces

-----------------------------------------------------------------------------
LEMMA RenewalLooks ==
    ASSUME TypeOK, RenewInv, NEW c \in Calls,
           RefuseClosed(c) \/ Look(c) \/ Open(c) \/ FirstRead(c)
    PROVE  RenewInv'
<1>1. PICK o \in CallRec : o = call[c] /\ RenewalOK(o)
  BY CallsType DEF RenewInv
<1>2. UNCHANGED file
  BY DEF RefuseClosed, Look, Open, FirstRead
<1>3. CASE \/ Answer(c) \/ Error(c)
           \/ (Missing(c) /\ file = NoFile) \/ Refused(c) \/ Failed(c)
  BY <1>2, <1>3, RenewalReturns, RenewalUnread DEF Answer, Error, Return
<1>4. CASE RefuseClosed(c)
  BY <1>2, <1>3, <1>4, RenewalReads DEF RefuseClosed
<1>5. CASE Look(c)
  <2>1. CASE file # NoFile /\ call' = [call EXCEPT ![c] = [@ EXCEPT !.at = "open", !.seen = file]]
    <3>1. PICK r : r = [o EXCEPT !.at = "open", !.seen = file]
      OBVIOUS
    <3>2. /\ r.at = "open" /\ r.reading = o.reading /\ r.seen = file /\ r.held = o.held
          /\ r.ours = o.ours
      BY <1>1, <3>1 DEF CallRec
    <3>3. (RenewalOK(r))' /\ ~Unplaced(r)
      BY <1>1, <1>2, <1>5, <2>1, <3>2 DEF RenewalOK, InRead, Bears, Unplaced, Look, Is
    <3>4. call' = [call EXCEPT ![c] = r]
      BY <1>1, <2>1, <3>1
    <3> QED BY <1>1, <1>2, <3>2, <3>3, <3>4, RenewalMoves
  <2> QED BY <1>3, <1>5, <2>1 DEF Look
<1>6. CASE Open(c)
  BY <1>2, <1>3, <1>6, RenewalGoesOn DEF Open
<1>7. CASE FirstRead(c)
  <2>1. CASE Goto(c, "announce")
    BY <1>2, <2>1, RenewalGoesOn
  <2>2. ASSUME NEW at \in {"mutex", "create"}, NEW held \in {o.held, o.seen},
               call' = [call EXCEPT ![c] = [o EXCEPT !.at = at, !.held = held, !.given = Wrong,
                                                     !.seen = NoFile]]
        PROVE  RenewInv'
    <3>1. PICK r : r = [o EXCEPT !.at = at, !.held = held, !.given = Wrong, !.seen = NoFile]
      OBVIOUS
    <3>2. r.at = at /\ r.seen = NoFile /\ r.held = held /\ r.ours = o.ours
      BY <1>1, <3>1 DEF CallRec
    <3>3. (RenewalOK(r))' /\ ~Unplaced(r)
      BY <3>2 DEF RenewalOK, InRead, Unplaced
    <3> QED BY <1>1, <1>2, <2>2, <3>1, <3>2, <3>3, RenewalMoves
  <2>3. CASE call' = [call EXCEPT ![c] = [@ EXCEPT !.at = "mutex", !.held = call[c].seen,
                                                   !.given = Wrong, !.seen = NoFile]]
    BY <1>1, <2>2, <2>3
  <2>4. CASE call' = [call EXCEPT ![c] = [@ EXCEPT !.at = "create", !.given = Wrong,
                                                   !.seen = NoFile]]
    <3>1. [o EXCEPT !.at = "create", !.given = Wrong, !.seen = NoFile]
            = [o EXCEPT !.at = "create", !.held = o.held, !.given = Wrong, !.seen = NoFile]
      BY <1>1 DEF CallRec
    <3> QED BY <1>1, <2>2, <2>4, <3>1
  <2> QED BY <1>3, <1>7, <2>1, <2>3, <2>4 DEF FirstRead
<1> QED BY <1>4, <1>5, <1>6, <1>7

LEMMA RenewalWaits ==
    ASSUME TypeOK, RenewInv, NEW c \in Calls,
           \/ TakeMutex(c) \/ MutexWaitEnds(c) \/ WaitLeft(c) \/ LeftWaitEnds(c)
           \/ OpenLockFails(c) \/ Flock(c) \/ FlockFails(c) \/ Locked(c) \/ LockWaitEnds(c)
    PROVE  RenewInv'
<1>1. UNCHANGED file
  BY DEF TakeMutex, MutexWaitEnds, WaitLeft, LeftWaitEnds, OpenLockFails, Flock, FlockFails,
         Locked, LockWaitEnds
<1>2. CASE TakeMutex(c) \/ WaitLeft(c)
  BY <1>1, <1>2, RenewalGoesOn DEF TakeMutex, WaitLeft
<1>3. CASE \/ MutexWaitEnds(c) \/ LeftWaitEnds(c) \/ OpenLockFails(c) \/ FlockFails(c)
           \/ LockWaitEnds(c)
  BY <1>1, <1>3, RenewalReturns DEF MutexWaitEnds, LeftWaitEnds, OpenLockFails, FlockFails,
                                    LockWaitEnds, Error, Return
<1>4. CASE Flock(c)
  BY <1>1, <1>4 DEF Flock, RenewInv, RenewalOK, Fresh, Bears, InRead, Unplaced
<1>5. CASE Locked(c)
  BY <1>1, <1>5, RenewalReads DEF Locked
<1> QED BY <1>2, <1>3, <1>4, <1>5

LEMMA RenewalWrites ==
    ASSUME TypeOK, RenewInv, NEW c \in Calls, Temp(c) \/ PlaceTemp(c)
    PROVE  RenewInv'
<1>1. PICK o \in CallRec : o = call[c] /\ RenewalOK(o)
  BY CallsType DEF RenewInv
<1>2. PICK next \in {"compare", "link"} :
         WriteTemp(c, next) /\ o.at = IF next = "compare" THEN "temp" ELSE "place"
  BY <1>1 DEF Temp, PlaceTemp, Is
<1>3. UNCHANGED file
  BY <1>2 DEF WriteTemp
<1>4. CASE Error(c)
  BY <1>3, <1>4, RenewalReturns DEF Error, Return
<1>5. CASE /\ ~(Code \subseteq InHand)
           /\ call' = [call EXCEPT ![c] = [o EXCEPT !.at = next, !.ours = NewFile]]
  <2>1. PICK new \in File : new = NewFile
    BY <1>5, NewFileFresh
  <2>2. new # NoFile /\ new.code \notin InHand
    BY <1>5, <2>1, NewFileFresh
  <2>3. PICK r : r = [o EXCEPT !.at = next, !.ours = new]
    OBVIOUS
  <2>4. /\ r.at = next /\ r.reading = o.reading /\ r.seen = o.seen /\ r.held = o.held
        /\ r.ours = new
    BY <1>1, <2>3 DEF CallRec
  <2>5. (RenewalOK(r))'
    BY <1>1, <1>2, <1>3, <2>4 DEF RenewalOK, InRead, Bears
  <2>6. call' = [call EXCEPT ![c] = r]
    BY <1>5, <2>1, <2>3
  <2> QED BY <1>1, <1>3, <2>2, <2>4, <2>5, <2>6, RenewalMoves
<1> QED BY <1>1, <1>2, <1>4, <1>5 DEF WriteTemp

LEMMA RenewalUses ==
    ASSUME TypeOK, RenewInv, NEW c \in Calls,
           \/ ReadAgain(c) \/ Compare(c) \/ KeptRead(c) \/ ReadBack(c) \/ FailedReadBack(c)
           \/ Announce(c) \/ CreateFirstUser(c) \/ Finish(c) \/ FinishRead(c)
    PROVE  RenewInv'
<1>1. UNCHANGED file
  BY DEF ReadAgain, Compare, KeptRead, ReadBack, FailedReadBack, Announce, CreateFirstUser,
         Finish, FinishRead
<1>2. CASE Got(c)
  BY <1>1, <1>2, RenewalGoesOn DEF Got
<1>3. CASE Answer(c) \/ Error(c)
  BY <1>1, <1>3, RenewalReturns DEF Answer, Error, Return
<1>4. CASE ReadAgain(c)
  BY <1>1, <1>2, <1>4, RenewalGoesOn DEF ReadAgain
<1>5. CASE Compare(c)
  BY <1>1, <1>3, <1>5, RenewalGoesOn, RenewalReads, RenewalPlaces DEF Compare
<1>6. CASE ReadBack(c)
  BY <1>1, <1>2, <1>6, RenewalGoesOn DEF ReadBack
<1>7. CASE FailedReadBack(c) \/ CreateFirstUser(c) \/ FinishRead(c)
  BY <1>1, <1>3, <1>7, RenewalGoesOn DEF FailedReadBack, CreateFirstUser, FinishRead
<1>8. CASE Finish(c)
  BY <1>1, <1>8, RenewalReads DEF Finish
<1>9. CASE KeptRead(c) \/ Announce(c)
  BY <1>2, <1>3, <1>9 DEF KeptRead, Announce
<1> QED BY <1>4, <1>5, <1>6, <1>7, <1>8, <1>9

\* Whatever a call puts at the path, nobody has met it before; or it takes away what is there.
LEMMA RenewalPuts ==
    ASSUME TypeOK, RenewInv, NEW c \in Calls,
           Rename(c) \/ Link(c) \/ Unlink(c) \/ Remove(c)
    PROVE  RenewInv'
<1>1. PICK o \in CallRec : o = call[c] /\ RenewalOK(o) /\ (Unplaced(o) => Fresh(c))
  BY CallsType DEF RenewInv
<1>2. CASE (Error(c) \/ Answer(c)) /\ file' \in {NoFile, file}
  BY <1>2, RenewalReturns DEF Answer, Error, Return
<1>3. CASE Unlink(c) \/ Remove(c)
  BY <1>2, <1>3 DEF Unlink, Remove
<1>4. ASSUME NEW ours \in {o.ours, NoFile}, Is(c, "rename") \/ Is(c, "link"),
             call' = [call EXCEPT ![c] = [o EXCEPT !.at = "look", !.reading = "back",
                                                   !.seen = NoFile, !.ours = ours]],
             \/ file' = o.ours /\ ours = o.ours
             \/ file' = file /\ Is(c, "link")
      PROVE  RenewInv'
  <2>1. PICK r : r = [o EXCEPT !.at = "look", !.reading = "back", !.seen = NoFile, !.ours = ours]
    OBVIOUS
  <2>2. /\ r.at = "look" /\ r.reading = "back" /\ r.seen = NoFile /\ r.held = o.held
        /\ r.ours = ours
    BY <1>1, <2>1 DEF CallRec
  <2>3. Unplaced(o) /\ ~Unplaced(r)
    BY <1>1, <1>4, <2>2 DEF Unplaced, Is
  <2>4. r.held # NoFile => ~Bears(file', r.held.code)
    <3>1. CASE file' = o.ours
      BY <1>1, <2>2, <2>3, <3>1 DEF Fresh, Bears
    <3>2. CASE file' = file /\ Is(c, "link")
      BY <1>1, <2>2, <3>2 DEF RenewalOK, Bears, Is
    <3> QED BY <1>4, <3>1, <3>2
  <2>5. (RenewalOK(r))'
    BY <2>2, <2>4 DEF RenewalOK, InRead, Bears
  <2> QED BY <1>1, <1>4, <2>1, <2>2, <2>3, <2>5, RenewalMoves
<1>5. CASE Rename(c)
  <2>1. CASE file' = o.ours /\ StartReading(c, "back")
    <3>1. [o EXCEPT !.at = "look", !.reading = "back", !.seen = NoFile]
            = [o EXCEPT !.at = "look", !.reading = "back", !.seen = NoFile, !.ours = o.ours]
      BY <1>1 DEF CallRec
    <3> QED BY <1>1, <1>4, <1>5, <2>1, <3>1 DEF Rename, StartReading
  <2> QED BY <1>1, <1>2, <1>5, <2>1 DEF Rename
<1>6. CASE Link(c)
  <2>1. PICK ours : ours = IF file = NoFile THEN o.ours ELSE NoFile
    OBVIOUS
  <2>2. CASE /\ file' = IF file = NoFile THEN o.ours ELSE file
             /\ call' = [call EXCEPT ![c] = [o EXCEPT !.at = "look", !.reading = "back",
                                                      !.seen = NoFile, !.ours = ours]]
    BY <1>4, <1>6, <2>1, <2>2 DEF Link
  <2> QED BY <1>1, <1>2, <1>6, <2>1, <2>2 DEF Link
<1> QED BY <1>3, <1>5, <1>6

LEMMA RenewalBegins ==
    ASSUME TypeOK, RenewInv, NEW c \in Calls, Begin(c)
    PROVE  RenewInv'
<1>1. UNCHANGED file
  BY DEF Begin, Prepare, Check, CreateFirstAccount, Submit
<1>2. PICK r : /\ call' = [call EXCEPT ![c] = r]
               /\ r.at = "refuse" /\ r.seen = NoFile /\ r.held = NoFile /\ r.ours = NoFile
  BY BeginsEmpty
<1>3. (RenewalOK(r))' /\ ~Unplaced(r)
  BY <1>2 DEF RenewalOK, InRead, Unplaced
<1> QED BY <1>1, <1>2, <1>3, RenewalMoves

\* What goes on around the calls changes no code.
LEMMA RenewalAround ==
    ASSUME TypeOK, RenewInv, WorldStep \/ \E s \in Setups : LeftStep(s) \/ Crash(s)
    PROVE  RenewInv'
<1>1. \A k : (Bears(file, k))' <=> Bears(file, k)
  <2>1. CASE Share
    <3>1. file \in File /\ file' = [file EXCEPT !.shared = ~@]
      BY <2>1 DEF Share, TypeOK
    <3>2. file' \in File /\ file'.code = file.code
      BY <3>1 DEF File
    <3> QED BY <3>1, <3>2, NoFileAssumption DEF Bears
  <2>2. CASE UNCHANGED file
    BY <2>2 DEF Bears
  <2> QED
    BY <2>1, <2>2 DEF WorldStep, ShellCreates, Tick, LeftStep, LeftFlock, CloseLeft, LeftFlockFails,
                      Crash
<1>2. \A c \in Calls : call'[c] \in {call[c], NoCall}
  BY CallsType DEF WorldStep, ShellCreates, Tick, Share, LeftStep, LeftFlock, CloseLeft,
                   LeftFlockFails, Crash
<1>3. ASSUME NEW c \in Calls PROVE (RenewalOK(call[c]))'
  <2>1. PICK q : q = call'[c]
    OBVIOUS
  <2>2. (RenewalOK(NoCall))'
    BY DEF RenewalOK, InRead, NoCall
  <2>3. RenewalOK(call[c])
    BY DEF RenewInv
  <2>4. (RenewalOK(q))'
    BY <1>1, <1>2, <2>1, <2>2, <2>3 DEF RenewalOK, InRead, Bears
  <2> QED BY <2>1, <2>4 DEF RenewalOK, InRead, Bears
<1>4. ASSUME NEW c \in Calls, (Unplaced(call[c]))' PROVE Fresh(c)'
  <2>1. call'[c] = call[c] /\ Fresh(c)
    BY <1>2, <1>4 DEF RenewInv, Unplaced, NoCall
  <2>2. NoCall.seen = NoFile /\ NoCall.held = NoFile /\ NoCall.ours = NoFile
    BY DEF NoCall
  <2> QED BY <1>1, <1>2, <2>1, <2>2 DEF Fresh, Bears
<1> QED BY <1>3, <1>4 DEF RenewInv

LEMMA RenewStep ==
    ASSUME TypeOK, RenewInv, [Next]_vars
    PROVE  RenewInv'
<1>1. CASE UNCHANGED vars
  BY <1>1 DEF vars, RenewInv, RenewalOK, Fresh, Bears, InRead, Unplaced
<1>2. ASSUME NEW c \in Calls, Begin(c) \/ QuietStep(c) \/ LockStep(c) PROVE RenewInv'
  BY <1>2, RenewalBegins, RenewalLooks, RenewalWaits, RenewalWrites, RenewalUses, RenewalPuts
     DEF QuietStep, LockStep
<1> QED BY <1>1, <1>2, NextSteps, RenewalAround

\* A call comes to hand out a code only with what it has just read.
NotAnswering == \A c \in Calls : call'[c].at = "announce" => Is(c, "announce")

LEMMA RecordsNotAnswering ==
    ASSUME TypeOK, NEW d \in Calls,
           \/ Answer(d) \/ Error(d) \/ call' = [call EXCEPT ![d] = NoCall]
           \/ Place(d) \/ Undo(d)
           \/ \E reading : StartReading(d, reading)
           \/ \E at \in At \ {"announce"} : Goto(d, at)
           \/ \E r : call' = [call EXCEPT ![d] = r] /\ r.at # "announce"
    PROVE  NotAnswering
<1>1. call[d] \in CallRec
  BY CallsType
<1>2. PICK r : call' = [call EXCEPT ![d] = r] /\ r.at # "announce"
  <2>1. CASE Answer(d) \/ Error(d) \/ call' = [call EXCEPT ![d] = NoCall]
    <3>1. NoCall.at # "announce"
      BY DEF NoCall
    <3> QED BY <2>1, <3>1 DEF Answer, Error, Return
  <2>2. CASE Place(d) \/ Undo(d)
    <3>1. PICK at \in {"place", "undo"} :
             call' = [call EXCEPT ![d] = [call[d] EXCEPT !.at = at, !.seen = NoFile]]
      BY <2>2 DEF Place, Undo
    <3>2. [call[d] EXCEPT !.at = at, !.seen = NoFile].at = at
      BY <1>1 DEF CallRec
    <3> QED BY <3>1, <3>2
  <2>3. ASSUME NEW reading, StartReading(d, reading)
        PROVE  \E r : call' = [call EXCEPT ![d] = r] /\ r.at # "announce"
    <3>1. [call[d] EXCEPT !.at = "look", !.reading = reading, !.seen = NoFile].at = "look"
      BY <1>1 DEF CallRec
    <3> QED BY <2>3, <3>1 DEF StartReading
  <2>4. ASSUME NEW at \in At \ {"announce"}, Goto(d, at)
        PROVE  \E r : call' = [call EXCEPT ![d] = r] /\ r.at # "announce"
    <3>1. call' = [call EXCEPT ![d] = [call[d] EXCEPT !.at = at]]
      BY <2>4 DEF Goto
    <3>2. [call[d] EXCEPT !.at = at].at = at
      BY <1>1 DEF CallRec
    <3> QED BY <2>4, <3>1, <3>2
  <2> QED BY <2>1, <2>2, <2>3, <2>4
<1>3. call'[d] = r /\ \A c \in Calls \ {d} : call'[c] = call[c]
  BY <1>2, CallsType
<1> QED BY <1>2, <1>3 DEF NotAnswering, Is

LEMMA StepsNotAnswering ==
    ASSUME TypeOK, NEW d \in Calls, Begin(d) \/ QuietStep(d) \/ LockStep(d)
    PROVE  \/ NotAnswering
           \/ /\ FirstRead(d) \/ ReadAgain(d) \/ KeptRead(d) \/ ReadBack(d)
              /\ Goto(d, "announce")
<1>1. PICK o \in CallRec : o = call[d]
  BY CallsType
<1> USE DEF At
<1>2. CASE Begin(d)
  BY <1>2, BeginsEmpty, RecordsNotAnswering
<1>3. CASE RefuseClosed(d) \/ Look(d) \/ Open(d)
  <2>1. [o EXCEPT !.at = "open", !.seen = file].at = "open"
    BY <1>1 DEF CallRec
  <2> QED
    BY <1>1, <1>3, <2>1, RecordsNotAnswering
       DEF RefuseClosed, Look, Open, Missing, Refused, Failed
<1>4. CASE FirstRead(d)
  <2>1. /\ [o EXCEPT !.at = "mutex", !.held = o.seen, !.given = Wrong, !.seen = NoFile].at = "mutex"
        /\ [o EXCEPT !.at = "create", !.given = Wrong, !.seen = NoFile].at = "create"
    BY <1>1 DEF CallRec
  <2> QED BY <1>1, <1>4, <2>1, RecordsNotAnswering DEF FirstRead
<1>5. CASE LockStep(d) \/ MutexWaitEnds(d) \/ LeftWaitEnds(d) \/ FlockFails(d) \/ Locked(d)
  <2>1. CASE Flock(d)
    BY <2>1 DEF Flock, NotAnswering, Is
  <2> QED
    BY <1>5, <2>1, RecordsNotAnswering
       DEF LockStep, TakeMutex, WaitLeft, OpenLockFails, LockWaitEnds, MutexWaitEnds, LeftWaitEnds,
           FlockFails, Locked
<1>6. CASE ReadAgain(d) \/ KeptRead(d) \/ ReadBack(d) \/ Compare(d) \/ FailedReadBack(d) \/ Unlink(d)
  BY <1>6, RecordsNotAnswering DEF ReadAgain, KeptRead, ReadBack, Compare, FailedReadBack, Unlink, Got
<1>7. CASE Temp(d) \/ PlaceTemp(d)
  <2>1. ASSUME NEW next \in {"compare", "link"}
        PROVE  [o EXCEPT !.at = next, !.ours = NewFile].at = next
    BY <1>1 DEF CallRec
  <2> QED BY <1>1, <1>7, <2>1, RecordsNotAnswering DEF Temp, PlaceTemp, WriteTemp
<1>8. CASE Rename(d) \/ Link(d)
  <2>1. ASSUME NEW ours
        PROVE  [o EXCEPT !.at = "look", !.reading = "back", !.seen = NoFile, !.ours = ours].at = "look"
    BY <1>1 DEF CallRec
  <2> QED BY <1>1, <1>8, <2>1, RecordsNotAnswering DEF Rename, Link
<1>9. CASE Announce(d) \/ CreateFirstUser(d) \/ Finish(d) \/ FinishRead(d) \/ Remove(d)
  BY <1>9, RecordsNotAnswering DEF Announce, CreateFirstUser, Finish, FinishRead, Remove
<1> QED
  BY <1>2, <1>3, <1>4, <1>5, <1>6, <1>7, <1>8, <1>9 DEF QuietStep

LEMMA AnswersNew ==
    ASSUME TypeOK, RenewInv, [Next]_vars, NEW c \in Calls, call[c].held # NoFile,
           ~Is(c, "announce"), call'[c].at = "announce"
    PROVE  call'[c].seen.code # call[c].held.code
<1>1. PICK o \in CallRec : o = call[c] /\ RenewalOK(o)
  BY CallsType DEF RenewInv
<1>2. ~NotAnswering
  BY DEF NotAnswering
<1>3. PICK d \in Calls : Begin(d) \/ QuietStep(d) \/ LockStep(d)
  <2>1. NotAnswering \/ \E d \in Calls : Begin(d) \/ QuietStep(d) \/ LockStep(d)
    BY NextSteps, CallsType DEF WorldStep, ShellCreates, Tick, Share, LeftStep, LeftFlock, CloseLeft,
         LeftFlockFails, Crash, NotAnswering, NoCall, Is, vars
  <2> QED BY <1>2, <2>1
<1>4. /\ FirstRead(d) \/ ReadAgain(d) \/ KeptRead(d) \/ ReadBack(d)
      /\ Goto(d, "announce")
  BY <1>2, <1>3, StepsNotAnswering
<1>5. d = c
  BY <1>4, CallsType DEF Goto, Is
<1>6. call'[c] = [o EXCEPT !.at = "announce"]
  BY <1>1, <1>4, <1>5, CallsType DEF Goto
<1>7. call'[c].seen = o.seen
  BY <1>1, <1>6 DEF CallRec
<1>8. o.seen.code # o.held.code
  <2>1. o.at = "read" /\ o.seen # NoFile /\ o.held # NoFile
    BY <1>1, <1>4, <1>5 DEF FirstRead, ReadAgain, KeptRead, ReadBack, Read, RenewalOK
  <2>2. CASE ReadAgain(c)
    <3>1. ~(Goto(c, "temp") /\ UNCHANGED locks)
      BY <1>1, <1>6, <2>1, CallsType DEF Goto, CallRec
    <3> QED BY <1>1, <2>2, <3>1 DEF ReadAgain
  <2>3. CASE FirstRead(c)
    BY <1>1, <2>1, <2>3 DEF FirstRead, Read, RenewalOK, InRead
  <2>4. CASE KeptRead(c) \/ ReadBack(c)
    BY <1>1, <2>1, <2>4 DEF KeptRead, ReadBack, Read, RenewalOK, InRead, Bears
  <2> QED BY <1>4, <1>5, <2>2, <2>3, <2>4
<1> QED BY <1>1, <1>7, <1>8

\* RenewedIsNew (setupcode.go): whatever fails, and however often the owner opens and closes the
\* file to others, a renewal does not answer with the code it set out to replace, for any number
\* of processes and calls.  Each code is written for one file and comes to the path once, so
\* that a code the renewal no longer finds there cannot come back.
THEOREM RenewalsAreNew == Spec => RenewedIsNew
<1>1. Init => RenewInv
  BY DEF Init, RenewInv, RenewalOK, InRead, Unplaced, NoCall
<1>2. TypeOK /\ RenewInv /\ [Next]_vars =>
        \A c \in Calls :
           (call[c].held # NoFile /\ ~Is(c, "announce") /\ call'[c].at = "announce")
              => call'[c].seen.code # call[c].held.code
  BY AnswersNew
<1> QED BY <1>1, <1>2, RenewStep, SetupTypes, PTL DEF Spec, RenewedIsNew
=============================================================================
