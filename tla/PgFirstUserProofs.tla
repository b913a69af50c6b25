------------------------- MODULE PgFirstUserProofs --------------------------
(***************************************************************************)
(* Proofs about PgFirstUser, for any number of transactions.               *)
(***************************************************************************)
EXTENDS PgFirstUser, TLAPS

Writing == {"row exclusive", "share row exclusive"}

\* While one transaction holds the table lock no other holds what a write needs.
Exclusive ==
    \A x, y \in Tx : x # y /\ mode[x] = "share row exclusive" => mode[y] \notin Writing

\* Nobody takes "share", and whoever is about to commit holds what its INSERT took.
WritersHold ==
    \A x \in Tx : mode[x] # "share" /\ (pc[x] = "commit" => mode[x] \in Writing)

\* CreateFirstUser keeps the table lock from its LOCK to its end, and looks only at READ
\* COMMITTED.
FirstHolds ==
    \A x \in First :
        /\ pc[x] \in {"level", "look", "insert", "commit"} => mode[x] = "share row exclusive"
        /\ pc[x] = "look" => level[x] = "read committed"

\* What it found stays true until it commits.
FoundNone == \A x \in First : pc[x] \in {"insert", "commit"} => users = {}

Inv == TypeOK /\ Exclusive /\ WritersHold /\ FirstHolds /\ FoundNone

LEMMA InitInv == Init => Inv
BY FirstAssumption
   DEF Init, Inv, TypeOK, Exclusive, WritersHold, FirstHolds, FoundNone, Pc, Mode, Level, Writing

-----------------------------------------------------------------------------
LEMMA TypeStep == ASSUME TypeOK, [Next]_vars PROVE TypeOK'
<1> USE DEF TypeOK, Pc, Mode, Level
<1>1. CASE UNCHANGED vars
  BY <1>1 DEF vars
<1>2. ASSUME NEW x \in Tx,
             Begin(x) \/ LockUsers(x) \/ SeesLatest(x) \/ HasUsers(x) \/ InsertUser(x)
               \/ Commit(x) \/ Fail(x)
      PROVE  TypeOK'
  <2>1. CASE Begin(x)
    BY <2>1 DEF Begin, Goto
  <2>2. CASE LockUsers(x)
    BY <2>2 DEF LockUsers, LockMode, Goto
  <2>3. CASE SeesLatest(x)
    BY <2>3 DEF SeesLatest, End, Goto
  <2>4. CASE HasUsers(x)
    <3>1. CASE Goto(x, "insert") /\ UNCHANGED <<mode, level, since, users>>
      BY <3>1 DEF Goto
    <3>2. CASE End(x) /\ UNCHANGED users
      BY <3>2 DEF End, Goto
    <3> QED
      BY <2>4, <3>1, <3>2, Zenon DEF HasUsers
  <2>5. CASE InsertUser(x)
    BY <2>5 DEF InsertUser, Held, Goto
  <2>6. CASE Commit(x)
    BY <2>6 DEF Commit, End, Goto
  <2>7. CASE Fail(x)
    BY <2>7 DEF Fail, End, Goto
  <2> QED
    BY <1>2, <2>1, <2>2, <2>3, <2>4, <2>5, <2>6, <2>7
<1> QED
  BY <1>1, <1>2 DEF Next

\* A transaction that ends takes nothing away from what the invariant says of the others.
LEMMA EndKeeps ==
    ASSUME Inv, NEW x \in Tx, End(x), UNCHANGED users
    PROVE  Exclusive' /\ WritersHold' /\ FirstHolds' /\ FoundNone'
BY FirstAssumption
   DEF Inv, TypeOK, Exclusive, WritersHold, FirstHolds, FoundNone, End, Goto, Writing

\* The strong lock is granted to nobody while another writes, and the other way round.
LEMMA WritingConflicts ==
    /\ \A m \in Writing : {m, "share row exclusive"} \in Conflict
    /\ {"share row exclusive", "row exclusive"} \in Conflict
<1>1. {"row exclusive", "share row exclusive"} = {"share row exclusive", "row exclusive"}
  OBVIOUS
<1>2. {"share row exclusive", "share row exclusive"} = {"share row exclusive"}
  OBVIOUS
<1> QED
  BY <1>1, <1>2 DEF Writing, Conflict

LEMMA InvStep == ASSUME Inv, [Next]_vars PROVE Inv'
<1>0. TypeOK'
  BY TypeStep DEF Inv
<1> USE FirstAssumption DEF Inv, TypeOK
<1>1. CASE UNCHANGED vars
  BY <1>0, <1>1 DEF vars, Exclusive, WritersHold, FirstHolds, FoundNone
<1>2. ASSUME NEW x \in Tx,
             Begin(x) \/ LockUsers(x) \/ SeesLatest(x) \/ HasUsers(x) \/ InsertUser(x)
               \/ Commit(x) \/ Fail(x)
      PROVE  Exclusive' /\ WritersHold' /\ FirstHolds' /\ FoundNone'
  <2>1. CASE Begin(x)
    \* A plain insert begins at "insert", but it is not in First.
    BY <2>1 DEF Begin, Goto, Exclusive, WritersHold, FirstHolds, FoundNone, Writing
  <2>2. CASE LockUsers(x)
    <3>0. \A y \in Tx \ {x} : mode[y] \notin Writing
      <4> SUFFICES ASSUME NEW y \in Tx \ {x}
                   PROVE  {mode[y], "share row exclusive"} \notin Conflict
                            => mode[y] \notin Writing
        BY <2>2 DEF LockUsers, LockMode, Grantable
      <4> QED
        BY WritingConflicts
    <3>1. Exclusive'
      BY <2>2, <3>0 DEF LockUsers, LockMode, Goto, Exclusive, Writing
    <3>2. WritersHold' /\ FirstHolds' /\ FoundNone'
      BY <2>2 DEF LockUsers, LockMode, Goto, WritersHold, FirstHolds, FoundNone
    <3> QED
      BY <3>1, <3>2
  <2>3. CASE SeesLatest(x)
    <3>1. CASE level[x] = "read committed"
      BY <2>3, <3>1 DEF SeesLatest, Goto, Exclusive, WritersHold, FirstHolds, FoundNone
    <3>2. CASE level[x] # "read committed"
      BY <2>3, <3>2, EndKeeps DEF SeesLatest
    <3> QED
      BY <3>1, <3>2
  <2>4. CASE HasUsers(x)
    <3>1. CASE {} \in Seen(x) /\ Goto(x, "insert") /\ UNCHANGED <<mode, level, since>>
      <4>1. x \in First => users = {}
        BY <2>4, <3>1 DEF HasUsers, Seen, FirstHolds
      <4> QED
        BY <2>4, <3>1, <4>1 DEF HasUsers, Goto, Exclusive, WritersHold, FirstHolds, FoundNone
    <3>2. CASE End(x)
      BY <2>4, <3>2, EndKeeps DEF HasUsers
    <3> QED
      BY <2>4, <3>1, <3>2 DEF HasUsers
  <2>5. CASE InsertUser(x)
    <3>0. \A y \in Tx \ {x} : mode[y] # "share row exclusive"
      <4> SUFFICES ASSUME NEW y \in Tx \ {x}
                   PROVE  {mode[y], "row exclusive"} \notin Conflict
                            => mode[y] # "share row exclusive"
        BY <2>5 DEF InsertUser, Grantable
      <4> QED
        BY WritingConflicts
    <3>1. Exclusive'
      BY <2>5, <3>0 DEF InsertUser, Held, Goto, Exclusive, Writing
    <3>3. WritersHold'
      BY <2>5 DEF InsertUser, Held, Goto, WritersHold, Mode, Writing
    <3>2. FirstHolds' /\ FoundNone'
      BY <2>5 DEF InsertUser, Held, Goto, FirstHolds, FoundNone
    <3> QED
      BY <3>1, <3>2, <3>3
  <2>6. CASE Commit(x)
    <3>1. \A y \in First \ {x} : pc[y] \notin {"insert", "commit"}
      BY <2>6 DEF Commit, Exclusive, WritersHold, FirstHolds, Writing
    <3> QED
      BY <2>6, <3>1
         DEF Commit, End, Goto, Exclusive, WritersHold, FirstHolds, FoundNone, Writing
  <2>7. CASE Fail(x)
    BY <2>7, EndKeeps DEF Fail
  <2> QED
    BY <1>2, <2>1, <2>2, <2>3, <2>4, <2>5, <2>6, <2>7
<1> QED
  BY <1>0, <1>1, <1>2 DEF Next

LEMMA InvHolds == Spec => []Inv
<1>1. Inv /\ [Next]_vars => Inv'
  BY InvStep
<1> QED
  BY InitInv, <1>1, PTL DEF Spec

-----------------------------------------------------------------------------
\* CreateFirstUser commits only into a table with no account, whatever isolation levels the
\* transactions begin at and however many accounts are inserted meanwhile.
THEOREM FirstUserIsFirst == Spec => FirstIsFirst
<1>1. ASSUME Inv, [Next]_vars
      PROVE  [\A x \in First : x \in users' \ users => users = {}]_vars
  <2> SUFFICES ASSUME NEW x \in First, x \in users' \ users
               PROVE  users = {}
    OBVIOUS
  <2>1. PICK y \in Tx : Commit(y)
    BY <1>1 DEF Next, vars, Begin, LockUsers, SeesLatest, HasUsers, InsertUser, Fail, End
  <2>2. y = x /\ pc[x] = "commit"
    BY <2>1 DEF Commit
  <2> QED
    BY <1>1, <2>2 DEF Inv, FoundNone
<1> QED
  BY InvHolds, <1>1, PTL DEF Spec, FirstIsFirst

-----------------------------------------------------------------------------
\* Who holds a lock has not begun to wait, but for a first account about to insert, which
\* holds the strong one.
Holding ==
    \A x \in Tx :
        /\ pc[x] \in {"idle", "lock", "done"} => mode[x] = "none"
        /\ pc[x] \in {"level", "look", "insert"} => mode[x] \in {"none", "share row exclusive"}

LEMMA HoldingHolds == Spec => []Holding
<1>1. Init => Holding
  BY DEF Init, Holding
<1>2. ASSUME Inv, Holding, [Next]_vars PROVE Holding'
  <2> USE <1>2 DEF Inv, TypeOK, Holding
  <2>1. ASSUME NEW x \in Tx, End(x) PROVE Holding'
    BY <2>1 DEF End, Goto
  <2>2. ASSUME NEW x \in Tx, Begin(x) PROVE Holding'
    BY <2>2 DEF Begin, Goto
  <2>3. ASSUME NEW x \in Tx, LockUsers(x) PROVE Holding'
    BY <2>3 DEF LockUsers, LockMode, Goto
  <2>4. ASSUME NEW x \in Tx, SeesLatest(x) PROVE Holding'
    BY <2>1, <2>4 DEF SeesLatest, Goto
  <2>5. ASSUME NEW x \in Tx, HasUsers(x) PROVE Holding'
    <3>1. CASE Goto(x, "insert") /\ UNCHANGED <<mode, level, since>> /\ pc[x] = "look"
      BY <3>1 DEF Goto
    <3> QED BY <2>1, <2>5, <3>1 DEF HasUsers
  <2>6. ASSUME NEW x \in Tx, InsertUser(x) PROVE Holding'
    BY <2>6 DEF InsertUser, Goto
  <2>7. CASE UNCHANGED vars
    BY <2>7 DEF vars
  <2> QED
    BY <2>1, <2>2, <2>3, <2>4, <2>5, <2>6, <2>7 DEF Next, Commit, Fail
<1> QED BY <1>1, <1>2, InvHolds, PTL DEF Spec

\* Only a lock that writes holds anybody up.
LEMMA OnlyWritersBlock ==
    ASSUME NEW held \in {"none", "row exclusive", "share row exclusive"},
           NEW m \in Writing, {held, m} \in Conflict
    PROVE  held \in Writing
BY DEF Writing, Conflict

\* The table lock of CreateFirstUser never stops everyone: of the transactions under way one
\* can go on, however many first accounts and inserts meet.
THEOREM FirstUsersProceed == Spec => []SomeoneProceeds
<1>1. ASSUME Inv, Holding PROVE SomeoneProceeds
  <2> SUFFICES ASSUME NEW x \in Under, \A y \in Under : Waits(y) PROVE FALSE
    BY DEF SomeoneProceeds
  <2>1. \A y \in Tx : mode[y] \in {"none", "row exclusive", "share row exclusive"}
    BY <1>1 DEF Inv, TypeOK, Mode, WritersHold
  <2>2. \A y \in Under : y \in Tx /\ pc[y] \in {"lock", "insert"}
    BY DEF Waits, Under
  <2>3. \A y \in Under : \E z \in Tx \ {y} : mode[z] \in Writing
    <3> SUFFICES ASSUME NEW y \in Under PROVE \E z \in Tx \ {y} : mode[z] \in Writing
      OBVIOUS
    <3>1. PICK m \in Writing : ~Grantable(y, m)
      BY DEF Waits, LockMode, Writing
    <3>2. PICK z \in Tx \ {y} : {mode[z], m} \in Conflict
      BY <3>1 DEF Grantable
    <3> QED BY <2>1, <3>2, OnlyWritersBlock
  <2>4. ASSUME NEW z \in Tx, mode[z] \in Writing
        PROVE  z \in Under /\ mode[z] = "share row exclusive"
    <3>1. pc[z] \notin {"idle", "done", "lock"}
      BY <1>1, <2>4 DEF Holding, Writing
    <3>2. z \in Under
      BY <3>1 DEF Under
    <3> QED BY <1>1, <2>2, <2>4, <3>1, <3>2 DEF Holding, Writing
  <2>5. PICK z \in Tx : mode[z] \in Writing
    BY <2>3
  <2>6. z \in Under /\ mode[z] = "share row exclusive"
    BY <2>4, <2>5
  <2>7. \A y \in Tx \ {z} : mode[y] \notin Writing
    BY <1>1, <2>6 DEF Inv, Exclusive
  <2> QED BY <2>3, <2>6, <2>7
<1> QED BY InvHolds, HoldingHolds, <1>1, PTL
=============================================================================
