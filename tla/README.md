# gouncer in TLA+

gouncer is an account library for Go web applications: accounts with roles,
password login sessions, single-use invite and reset tokens, administration
under a "last administrator" guard, and first-time setup, with a SQLite and a
Postgres store and a React client. This directory is its formal model: TLA+
modules translated from the source, TLC configurations that check them on small
instances, and proofs, checked by TLAPS, of what matters most for every
instance. Paths below are relative to the repository.

## The system and its parts

| Part | State | Operations | Interacts with |
|---|---|---|---|
| Core types (`gouncer.go`, `role.go`, `token.go`, `session.go`, `store.go`) | none | `NewUser`, `NewInvitedUser`, `NewToken`, `NewSession`, `Roles.Holds` | everything |
| SQLite store (`authkit/sqlite`) | `auth_users`, `auth_sessions`, `auth_tokens` | every store call, in a transaction begun IMMEDIATE | called by authkit |
| Postgres store (`authkit/postgres`) | the same tables in schema `auth`, and row locks | the same calls, statement by statement at READ COMMITTED | called by authkit; other processes share the database |
| In-memory store (`authkit/testkit`) | maps under a mutex | the same calls | tests |
| Store contract (`store.go`, `authkit/storetest`) | none | states what every store promises | all stores |
| Session transport (`authkit/service.go`, `identity.go`, `authkit.go`) | cookies | login: `Authenticate`, then `StartSession`; identity lookup; logout | store |
| Invites and resets (`authkit/invite.go`) | none | `Invite`, `ResendInvite`, `RequestReset`, `Activate`, `ResetPassword` | store, mail |
| Administration (`authkit/admin.go`, `authkit/role.go`) | none | list, disable, enable, change role, authority rules | guarded store calls |
| Provisioning (`createadmin.go`, `ensureadmin.go`, `grantrole.go`) | none | create or repair an administrator from the command line | store |
| First-time setup (`setup.go`, `setupcode.go`, `setuplock_*.go`) | a code file, a lock file, a mutex per process, a deadline | start, show the code, renew it, create the first account, finish | store, file system, other processes |
| Reaper (`reaper.go`) | a loop and its cancel function | sweep sessions, sweep tokens, stop | store |
| Rate limiter (`authkit/ratelimit`) | a bounded map of failure budgets | check before an attempt, record after it | HTTP handlers |
| React client (`react-auth`) | the cached session query | probe, login, logout, adopt a session | HTTP API |
| Avatars, names, passwords, JSON, migrations | none | pure functions or one-off work | — |

What makes each part correct, and what is hard about it:

* **Stores.** Disabling an account ends its sessions and its tokens for good; a
  token works once, for its purpose, while its account is enabled; no account
  has more live tokens than its cap; a sweep takes the accounts nobody can
  activate and no other; writes that could close the last enabled privileged
  account are refused. In SQLite every write is serial. In Postgres each is a
  sequence of statements between which others commit, so this has to come from
  the order in which rows are locked and counted.
* **Flows over a store** (login, invite, administration, provisioning). Each
  reads, decides and writes in separate calls; what it read may be stale. No
  session or token may outlast what it was issued on, and nobody may administer
  their way to more than they were given.
* **Setup.** Several processes share one code file; one account may be created,
  one code is live, and a stale file must not bring setup back.
* **Reaper and limiter.** A sweep can fail half-way, or land after it was given
  up on, and has to stop when told; a budget is checked before and charged after
  the attempt, and is kept by an address a client may try to choose.
* **React client.** Answers arrive in any order over one cached session; what
  one login fetched must not be shown to the next.

`PROJECT.json` lists, under "hazards", each of these at its line, with the
properties that cover it or the reason none does yet.

## Modules

| Module | Models | Built on |
|---|---|---|
| `AccountRows` | The three tables, the conditions queries select rows by, and the invariants of committed contents | — |
| `AccountStore` | The serial store: SQLite (and `testkit`), one action per store call | `AccountRows` |
| `StoreContract` | What any store promises: `AccountStore` with a looser sweep | `AccountStore` |
| `PgRows` | What the code relies on of Postgres: row locks, snapshots per statement, commit and rollback | `AccountRows` |
| `PgGuard` | `postgres/role.go`: the guarded writes and `GrantRoleToRoleless`, one action per statement | `PgRows` |
| `PgStore` | `postgres/invite.go` and the session writes beside `PgGuard`; refines `StoreContract` | `PgGuard`, `StoreContract` |
| `PgFirstUser` | `postgres/setup.go`: `CreateFirstUser` under its table lock, beside plain inserts | — |
| `Setup` | `setup.go`, `setupcode.go`, `setuplock_unix.go`: first-time setup in several processes, a system call at a time | — |
| `Administration` | `authkit/admin.go`, `authkit/role.go`, and the commands of `ensureadmin.go`, `createadmin.go` and `grantrole.go` | `AccountStore` |
| `Logins` | `authkit/service.go`, `authkit.go` and `invite.go`: login, logout, invite, resend, reset, between their read and their write | `AccountStore` |
| `Reaper` | `authkit/reaper.go`: the loop, its ticker, half-failed and late sweeps, `Stop` | `AccountStore` |
| `Limiter` | `authkit/ratelimit/ratelimit.go` and what it uses of httprate: the check, the count, the client's address | — |
| `SessionCache` | `react-auth/src/session.ts`, `queryClient.ts`, `AuthGate.tsx`, `api.ts` and `admin/index.ts`: one tab's cache and the requests in flight | — |
| `MC...` | Instances for TLC (`Reaper` needs none) | the module named |
| `...Proofs` | Theorems: `AccountStoreProofs` also has those on `StoreContract`, `PgStoreProofs` those on `PgGuard`, `FlowProofs` those on `Logins` and `Reaper` | the module named |

### How the state corresponds to the code

`users` maps each account id to a row or to `NoAccount`. An account's id stands
for its address too: the code never changes an address. `sessions` and `tokens`
are sets of rows; a hash stands for the digest of a secret. `minted` remembers
every hash drawn, because `NewToken` and `NewSession` draw 32 random bytes and
never repeat one. `clock` is the instant `time.Now()` gives; a call carries the
instant its caller read, which may be earlier (`Instant`). Names, addresses,
cookies and mail are left out.

In `AccountStore` each store call is one action whose guard is everything the
call checks; a refused call rolls back and is a stuttering step. In the Postgres
modules a transaction is a record: `pc` names the statement it is at, `call` its
arguments, `todo` the rows it still has to lock (or, later, those it acts on)
and `doomed` the session and token rows it has deleted and not yet committed;
`taken` has those its `DELETE` at hand has got hold of so far.
`lock` says which transaction holds an account's row, `keyed` which of those
locks are `FOR UPDATE` and so hold off foreign-key checks too, and `answer` what
the last call returned. Committed contents change only in the `Commit...`
actions, whole.

In `Setup` a goroutine's call is a record: `at` names the system call it makes
next, `reading` who called `readCode`, `seen`, `held` and `ours` the files it
remembers (`lstat`'s answer, the stale code it set out to renew, what it
linked). A file stands for its code: `rand.Text` never repeats one, so two
files are `os.SameFile` exactly when their codes are equal; this leaves out that
an inode can be used again at the very instant a file was written. `behind` and
`left` are the flock calls of waits that ended and the channel the next renewal
waits on. `announced` and `exposed` are history: which code each process handed
out last and which codes others could read at some time. The store is one step
here, as it is in `AccountStore` and, for Postgres, in `PgFirstUser`. Accounts
are never removed: those setup or the shell creates are confirmed, and no sweep
takes a confirmed account.

The modules over `AccountStore` take its actions as the store calls they make,
one atomic step each, and add what the code holds between two of them:

* In `Administration` a request is a record: `begun` once `RequireSession` has
  read the actor's role, `role` or `disabled` once the target was read and both
  were checked, with the role `held` that the write will insist on; `stamp` is
  an `EnsureAdmin` that found an account roleless. `checked` says whether
  `AdminConfig.Roles` is set: without it the handlers use the store's unchecked
  writes. `Carries` gives each role its capabilities, by which `Outranks` ranks
  them. `ordained` is history: the roles an operator gave.
* In `Logins` a call is `verified` between `Authenticate` and `StartSession`,
  `invite` or `reset` between the account's read or insert and its token's, and
  `replace` between a resend's two. `GiveUp` is the second write that fails or
  never comes. `opened`, `ended`, `orphaned` and `tardy` are history: how each
  session was opened, which a logout ended, which accounts lost their invite,
  and whose own invite was sent after a resend. `Overtake` marks logins that had
  verified their password when a reset or a disable landed.
* In `Reaper` `loop` is the call or the select the goroutine waits on, `at` the
  instant of the sweep, `timer` the ticker with its channel of one tick, `lost`
  the calls given up on that the database may still run, and `outcome` the half
  the last sweep failed in.

In `Limiter` an attempt is `served` between `Check` and `RecordFailure` (or the
answer that costs nothing). `counts` is httprate's counter per key and bucket;
the rate is kept multiplied by the window, so that its rounding half up is exact
in integers. `path` is the proxies an attempt came through, `header` what it
carried before the first of them, and `failures` and `last` are history kept by
who really failed.

In `SessionCache` a cached value is named by the login whose cookie fetched it.
`fetch` has the request of each query, `calls` those of mutations, bulk actions,
logins and logouts: sent, answered by the server, its head landed (the browser
has stored the cookie), and settling, between `await cancelQueries` and
`setQueryData`. `jar` is the browser's cookie, which a second tab shares, and
`accepted` the sessions the server stands by. `drawn` and `astray` are history.

A definition named "A fault: ..." is not part of the specification. It is the
form its neighbour would have with a plausible bug in it, and each property is
known to fail with one of them put in (`PROJECT.json`, "mutants").

### What is assumed of Postgres

A statement reads what was committed before it. `UPDATE`, `DELETE` and `SELECT
... FOR UPDATE` wait for a row another transaction has locked, and look at the
row again after the wait. `SELECT ... ORDER BY id FOR UPDATE` locks in the order
of ids. A foreign-key check waits for `FOR UPDATE` and for a delete, and not for
an `UPDATE` that leaves the key alone. Whenever transactions wait in a circle
Postgres ends one; `Fail` lets any open transaction end with an error at any
point, which also covers lost connections and cancelled contexts. A `DELETE` of
several rows takes them one by one, in no certain order, and keeps those it has
while it waits for the next (`DeleteRow`, `RevokeRow`); so does
`DeleteExpiredSessions`, a statement that commits on its own and is a
transaction of the model for that reason. That a transaction the code begins
without naming an isolation level (role.go:141, invite.go:183) runs at READ
COMMITTED is Postgres's default, and assumed. Two simplifications: a `DELETE`
takes the rows that match as it ends, and account ids are never reused
(`Drawn`), since they are random.

## Runs

All properties but `CallsEnd` and the three of `Reaper` that say that something
happens are safety properties and assume no fairness.

| Run | Shows | Bounds |
|---|---|---|
| `AccountStore` | Serial store: `TypeOK`, `Owned`, `ClosedHoldsNoToken`, `ConfirmedHoldsPassword`, `CapHolds`; `CoverLostOnlyToSweep`, `PasswordChangeSpendsToken`, `ResetLeavesNothing`, `SweptWasStranded` | 2 accounts, 1 role (and none), 2 passwords, 3 secrets, 3 instants, redemptions that read the time 1 tick before at most (`Lag`) |
| `PgGuard` | `CoverKept`: guarded writes never take the last cover, with accounts created and sessions opened meanwhile; `CheckedWriteLands`, `GuardTypeOK` | 2 accounts, 2 roles, 1 session, 2 transactions |
| `PgStore` | The Postgres store implements `StoreContract` (`Implements`), with guarded and unguarded disables; a redemption somebody waits for waits for nobody but a sweep of expired tokens or sessions (`RedeemDeadlocksOnlySweeps`); `StoreTypeOK` | 1 account, 3 secrets, 2 instants, 2 transactions |
| `PgFirstUser` | `FirstIsFirst`: a first account is committed only into an empty table; `SomeoneProceeds`: the table locks never stop everyone | 3 first accounts, 2 inserts |
| `Setup` | `AnnouncedHolds`: a code handed out stays in the file until it expires or an account exists; `CodeStays`: once a process serves, a code is there until an account is; `OneFlock`: waits that end leave one flock call at most; `TypeOK` | 2 processes, 1 call each, all requests, 1 tick |
| `SetupEnds` | `CallsEnd`: every call returns; `RenewedIsNew`: the stale code is not answered again when the file was made private meanwhile | 1 process, 2 calls, failing system calls, 1 tick, 2 chmods |
| `Administration` | `WriteWithinAuthority`: no write lands outside the authority its actor was admitted with; `AuthorityCeiling`: nobody administers their way up; `CoverLostOnlyToStaleStamp`; `AdminTypeOK` | 3 accounts, 4 roles (one undeclared) and none, 2 requests, with and without a role source |
| `Logins` | `SessionsStand`, `TokensMatchAccounts`, `InviteStaysOut`: which sessions, tokens and invites may be left standing, and which only by an overlap the code allows | 2 accounts, 2 passwords, 3 secrets, 2 calls, 3 instants |
| `Reaper` | `StopReturns`; `SessionsCollected` and `StrandedCollected`: what expired goes in the end; `NothingLiveSwept`: nothing else does | 1 account, 2 secrets, 3 instants, 1 call given up on |
| `Limiter` | `FailuresBounded`: attempts that pass one check cost no more than one failure each beyond the limit; `RefusedForOwnFailures`: a refusal is for a client's own failures and its wait suffices; `LimiterTypeOK` | limit 2, window 3, 2 clients, 1 proxy, chains of 2, 2 attempts at once, 9 instants |
| `SessionCache` | `ListIsOfTheShown`: a list one login fetched is not shown to the next; `ShownIsHeld`: no late answer brings a login back; `DroppedForCause`: no late refusal drops a good session, but for the two kinds the code lets through | 2 logins, 2 calls beside the queries |
| `PgGuardSkew` | The finding below | as small as shows it |

Why the bounds suffice. The guard relates the account written to the others that
cover it: two accounts make it matter. A third lets two writes on different
accounts leave one other; that instance was checked too, without sessions (2.8
million states, two minutes), is left out for its length, and is covered by the proof. Token rules relate one account's tokens: three secrets
allow a token, its replacement and a late use of the first, and a session beside
them. Two live instants and one past the end let a token be live, expire, and be
presented with an instant read before. `Lag` bounds how long before: a
redemption reads the time and calls the store, and the token it spends was live
then, so it has expired for fewer than `Lag` ticks; `Lag` is 1 in the
`AccountStore` run and any number in the proofs. In Postgres the call carries its
instant, and no bound is needed. Two transactions are enough for every
race named in the hazards, each of which is between two calls, while further
commits (logins, logouts, creations) come between. Symmetry is
used on transactions, secrets, and, where no order of ids matters, accounts and
passwords; the specifications treat these alike and every property is one of
states or of steps (`Reaper`, whose properties are temporal, uses none). The
runs but those of `PgGuard`, `Setup` and `SessionCache` use `CHECK_DEADLOCK FALSE`, because the
bounds on time, secrets and logins, or the end of every call, let the model
stop; the guard runs do not stop and check deadlock: no state leaves every
transaction waiting with nothing else possible, as `Fail` is. In both Postgres
runs of several statements a wait that would never end is `Fail`'s to end, so
`RedeemDeadlocksOnlySweeps` looks for circles of waits itself. It speaks of
circles a redemption is part of: with two accounts and more, guarded writes that
lock each other's rows can deadlock, and a redemption may wait on one of them
until Postgres ends it. The circle it leaves open is in the instance: one account
with two sessions, one instant after which both have expired, and a reset beside
a `DeleteExpiredSessions` reach it.

For setup two processes give every race over the file and the lock file, two
calls in one process every race over the mutex. With both at once
(three calls, 260,000 states) `AnnouncedHolds` and `OneFlock` hold too. One tick makes every code written before it stale; a code renewed
after it cannot expire again, which costs no interleaving the second expiry
would add, as a stale code is treated alike each time. Two chmods open the file
and close it again. Seven codes are as many as those runs can have in hands at
once; a shortage would only keep a call from writing (`WriteTemp`). Codes are picked with `CHOOSE`, which
stands for any new one since all new codes are alike.

`CallsEnd` is checked under `FairSpec`: a goroutine that can take its next step
does (weak fairness of `Step`, of `CloseLeft`); one that waits for the mutex or
the lock file gets it if it becomes free again and again (strong fairness): Go
serves senders blocked on a channel in their order, and the kernel queues those
that wait in flock(2). Contexts need not end, processes need not crash, and
nobody need start a call.

For administration a third account lets two administrators act on each other
and on one more, and two requests are one race: a chain of hand-outs is several
requests one after another, which no bound limits. `admin` outranks `editor`,
which may administer too, and an account may stand under `legacy`, which no
source declares. For logins two calls are any one race between a read and a
write; redemptions, disables, logouts and sweeps are single store calls and need
no call of their own. Three secrets give an account its invite, a resend's and a
session. The limiter's clock crosses the boundaries of three buckets, so a
refusal may weigh two of them and its wait runs out inside the run. In the
session cache two logins are a login and its successor, and two calls allow a
write or a logout of the first to be answered during the second's login; the
server may end any session at any time, and the second tab may log in or out
between any two steps.

Under `ReaperSpec` a call of the store ends, since `reapOnce` gives each a
timeout; the ticker ticks and the loop takes a tick that is there (weak
fairness); a select that finds its context done at every turn takes that case at
last, as Go draws among the ready ones with equal chance (strong fairness of
`Leave`, needed because a tick may be ready each time as well); time passes.
Nothing says that a call succeeds: each collecting property has the failure it
cannot exclude as a disjunct, `[]<>` and not `<>`, so one failing sweep excuses
nothing. `StrandedCollected` needs both halves to succeed and `SessionsCollected`
only the first, as the session half's failure skips the token half.

A refinement instance with two accounts, two secrets and unguarded disables was
also checked (1.4 million states, two minutes), as was one with one secret and
guarded disables that lock several rows (320,000 states); they are left out of the runs for their length.

### What the refinement says

`Implements` says that, seen through the committed tables, the Postgres store is
the serial store: each call takes effect at once, at its commit, or not at all.
`Contract` instantiates it with no privileged list, so a write that the guard
let pass need not satisfy the guard again at its commit. It could not: a sweep
can delete an invited administrator after `countCover` counted it. What the
guard does keep is `CoverKept`. The contract's sweep is looser than SQLite's, as
a Postgres sweep reads the expired invites before it holds the accounts and a
disable may revoke such an invite in between: the account is swept though at the
commit no expired invite names it. Both are unconfirmed accounts with no live
invite, which is what the contract suite asks. The refinement run sets
`LoginsOverlap = FALSE`: a login never falls inside a disable, since one that
does leaves a session behind (below).

## Findings

`PgGuardSkew`. A demotion whose target holds no privileged role when
`holdsPrivilege` looks skips `countCover`, and its `UPDATE` writes the target
whatever role that holds by then. In the run one demotion waits for a row to
lock, finds its target unprivileged and goes on. Before its `UPDATE` others
promote the target and demote the last other administrator; this last demotion
is the only one that counts, and finds the target as cover, whose row the first
one has not locked. Both commit and nobody privileged is left. `Meets` in the
proofs says what a promotion in between destroys.

What else the models made plain, each allowed for by name in the properties
that would otherwise fail:

* A login in Postgres that commits between a disable's `DELETE` of the sessions
  and its commit leaves a session, which is refused while the account is
  disabled and usable after a re-enable. The same overlap exists above any
  store, between `Authenticate` and `StartSession`; there `SessionsStand` names
  it (`late`), and allows no other.
* The guard counts an invited administrator who has not activated as cover. The
  last confirmed administrator may then be demoted, and when the invite expires
  the sweep, which is not guarded, deletes the invited account
  (`CoverLostOnlyToSweep`).
* `EnsureAdmin` stamps its role on an account it read as roleless with no check
  and no guard, and so may take a privileged role the account was given since
  (`CoverLostOnlyToStaleStamp`).
* A reset can deadlock with a sweep of what has expired. When an account has two
  expired rows the sweep has not reached, the reset that has deleted one
  (`DeleteToken` at invite.go:159, or `DeleteUserSessions` at invite.go:94) and
  wants the other waits for a sweep (queries.sql:130, or queries.sql:53) that has
  that one and wants the first. Postgres ends one of them with an error and
  nothing is half done (`Fail`). The CHANGELOG denies a deadlock against a
  disable only, which `RedeemDeadlocksOnlySweeps` confirms.
* In SQL a privileged list that contains the empty name is matched by roleless
  accounts, where `Roles.Holds` never is. The runs and the theorems about cover
  use lists without it.
* `failedReadBack` unlinks, by path, a code file it found readable by others; by
  then another process may have put its own private file there under the locks.
  `CodeStays` excludes codes others could read.
* An Invite whose second write fails, and a disable, leave an unconfirmed
  account without an invite, which no sweep collects (`orphaned` in
  `InviteStaysOut`). An Invite that is overtaken by a resend and a redemption
  sends an invite to an account already confirmed; it activates nothing
  (`tardy` in `TokensMatchAccounts`).
* Two kinds of late answer drop a good session from the cache
  (`DroppedForCause`); the next probe brings it back. A mutation or a logout that
  an earlier login began does, whenever it is answered. A query that left with an
  earlier cookie does if its 401 arrives while a login or logout has its cookie
  stored and its cache not settled yet, or after the jar was changed behind the
  tab: by another tab, or by a call of this one that failed with its cookie
  stored.
* The `Retry-After` header is the wait cut to whole seconds (ratelimit.go:111),
  so a client that waits exactly that long may be refused once more. The wait in
  `RefusedForOwnFailures` is the duration `Check` returns.

## Proofs

`AccountStoreProofs`, from the assumptions declared in `AccountRows`, and that `Lag` is a
number, alone:

* `TypeInvariant`, by one case per disjunct of `Next`.
* `RowsOwned`, `ClosedHasNoToken`, `ConfirmedHasPassword`. They are proved
  together as `TablesOK`, which adds `ResetOfConfirmed`: every reset token is of
  a confirmed account. Without it `ConfirmedHoldsPassword` is not inductive, as
  a reset writes a password and leaves the confirmation alone. Six lemmas
  (`UserStepsKeep`, ..., `SweepStepsKeep`) say what each group of steps leaves
  alone, so that each conjunct follows from them without the actions.
* `CapKept`, with the finiteness of an account's standing tokens carried along.
* `SweepSparesLiveInvites`, `PasswordNeedsToken`, `ResetEndsEverything`.
* `GuardKeepsCover`: with one privileged list in force, naming no empty role,
  only a sweep loses the last cover. The hypothesis is needed: a list that names
  the empty role is covered by an account the store calls roleless.
* `SerialKeepsContract`: the serial store implements `StoreContract`.
  `ContractKeepsTables` and `ContractKeepsSteps`: every store that keeps the
  contract has the table invariants and the three action properties, so a
  caller can rely on them whichever store it is given. All that the looser sweep
  takes is unconfirmed accounts without a live invite, what is theirs, and
  expired tokens (`PromisedSweepKeeps`), which is as much as these properties need.

`PgStoreProofs`, about `PgGuard`, for any number of accounts, transactions, calls
and grants:

* `GuardTypes` and `CheckedWritesLand`, for all calls. The invariant `RowsInv`
  says that a transaction's call fits the statement it is at, that a locked row
  exists, and that from its `UPDATE` to its commit a write holds the row and the
  row still satisfies what the write was checked against.
* `GuardedWritesKeepCover`: a covered store stays covered, under `OnlyGuarded`:
  one privileged list, handed to every write, without the empty role, and no
  write that promotes an account. `CoverKept` is not inductive; `GuardInv` adds
  three facts. A guarded write has locked, or will lock, the account it names if
  that is privileged (`HoldsOwn`). Of two guarded writes naming privileged
  accounts one has to lock the other's (`Meets`), so at most one of them is past
  its locks. What `countCover` found is true until the commit (`Counted`), as
  only a second such write could undo it. `Meets` holds because whichever of
  the two took its snapshot later saw the other's account; it is what a
  promotion in between destroys, and `PgGuardSkew` shows the result. Accounts
  created meanwhile, privileged ones too, do no harm: no call under way names
  them.

and about the whole of `PgStore`, for any accounts, secrets, lifetimes and
transactions, guarded and unguarded, with grants and with logins inside a
disable except where said:

* `StoreTypes`, from the invariant `StoreInv`. Of each transaction it says that
  its call fits the statement it is at (`Suits`), and what it has locked, found,
  counted and deleted so far and that all of it is still true (`Phase`, with a
  part for each kind of call): an issue has counted fewer tokens than the cap, a
  redemption's token is the one it found or gone, a sweep has locked, listed or
  passed every account with an expired invite. Of two transactions it says that
  they delete no row in common and issue no secret in common (`Apart`). A step
  must keep the `Phase` of every other transaction, and there are some thirty kinds of step;
  `StoreFrame` says once what a step leaves of what another has locked
  (`Untouched`), each kind of step is shown to satisfy it, and each part of
  `Phase` to survive such a step. `NoCallAssumption` keeps the value an idle transaction
  carries apart from the calls.
* `RedeemsDeadlockOnlySweeps`. A redemption somebody waits for holds its account:
  before, it holds nothing and has deleted nothing. So it waits for no account's
  row, and who has a session or token row it wants does not hold the account.
  `TakenInv` says that a `DELETE` gets hold of rows of an account its transaction
  holds, unless it is the last one of a token sweep or a `DeleteExpiredSessions`.
* `StoreImplementsContract`: `Implements`, by the identity on the tables. No
  statement but a commit changes what others see, and each commit is one call of
  the contract, because what `Phase` says of its reads is still true then. It
  assumes `LoginsOverlap = FALSE` and `Grants = {}`: a disable that a login
  slips into leaves a session the contract's disable would have ended, and a
  grant to the roleless is as many role changes as it meets accounts. Neither
  is one call.
* `RowsOwned`, `ClosedHasNoToken`, `ConfirmedHasPassword`, `CapKept`,
  `PasswordNeedsToken` (by the instant the call carries), `ResetEndsEverything`, `SweepSparesLiveInvites` and
  `CheckedWritesStillLand` without those two hypotheses: the refinement fails
  there but the tables stay right. An administrator's step is reduced to what it
  does to rows (`Administered`), and the rest follows as for the serial store.

`PgFirstUserProofs`: `FirstUserIsFirst`, for any transactions. The invariant says
that the table lock excludes every other writer (`Exclusive`), that a first
account holds it from its `LOCK` to its end and looks only at READ COMMITTED
(`FirstHolds`), and that whoever is about to commit holds a write lock
(`WritersHold`); from these, that what the look found stays true until the
commit (`FoundNone`). `FirstUsersProceed`: whoever holds a lock does not wait,
but for a first account about to insert (`Holding`), and that one holds a lock no
other writer shares; so not everyone waits.

`SetupProofs`, for any number of processes and calls, with system calls failing
or not except where said:

* `SetupTypes`. Most steps are `Quiet`: the call goes on outside the locks'
  code, and the locks stay as they are or it gives back the ones it holds.
* `OneFlockPerSetup`. `OneFlock` alone is not inductive. `LocksInv` adds that
  whoever waits for the lock file or holds it holds its Setup's mutex, that
  `left` is open exactly while a flock call is left behind, and that no call is
  at the lock file meanwhile: a call gives up the mutex only with its flock call
  where the mutex's next holder waits for it.
* `AnnouncedCodesHold`, `CodesStay`, where no system call fails and nobody
  changes the file's mode (`Faulty = FALSE`, `MaxChmods = 0`). `CodeInv` says,
  until an account exists, that codes and files answer to each other, that a
  file somebody has read is in place still or has expired, and that a call which
  may still rename holds the lock file and has found the file in place expired
  (`ReadOK`). Both hypotheses are needed for this argument: a read-back that
  fails, or that finds the file shared after a chmod, unlinks by path
  (setupcode.go:257), and another process may have handed out what is there by
  then. The `Setup` run checks the two properties under
  the same hypotheses.
* `RenewalsAreNew`, with no hypothesis. A code is written for one file, which is
  put into place once (`Fresh`), so once a renewal has found the path without
  the code it set out to replace, that code does not come back, and what the
  renewal answers with is another (`RenewalOK`).

`AdministrationProofs`, for any roles, ranks, accounts and requests in flight,
and on the lemmas of `AccountStoreProofs`:

* `AdminTypes`, `NobodyRises`, `WritesWithinAuthority`, from one invariant.
  `Ceiling` is the authority ceiling, `Checked` says that a request ready to
  write was checked against the role its actor was admitted with: what it holds
  is that role's to edit and what it wants that role's to give. A hand-out goes
  below its actor, whom `Ceiling` puts below an operator's gift, and ranks are
  inclusions of capabilities, so the chain composes. The store's refusal of a
  write whose target left the role `held` is what carries `Checked` to the
  instant the write lands.
* `OnlyStaleStampUncovers`, assuming no empty name in the privileged list.

`FlowProofs`, of `Logins`, for any accounts, secrets, lifetimes and calls:
`StandingSessions`, `MatchingTokens`, `InvitesStayOut`, proved together. The
invariant adds to `TypeOK`, `Owned` and `ConfirmedHoldsPassword` that a call
between its read and its write still finds what its guard read or is marked late
(`ReadsHold`), that every session ever opened or ended took a hash that was drawn
(`CallsOK`), and that only an account whose Invite a resend overtook has two
invites (`OneInvite`).

`FlowProofs`, of `Reaper`, for any number of sweeps given up on:
`ReaperKeepsToStore` (seen through the tables every step of the reaper is one
call of the store or none, so what `AccountStoreProofs` says of `Spec` holds
under the reaper) and `ReaperSparesTheLive`. The invariant is that every sweep's
instant, the late ones' too, has passed (`SweepsAtPast`): a row live now was
live then.

`LimiterProofs`, for any limit, window, clients and chains of proxies:
`LimiterTypes`, `FailuresAreBounded`, `RefusedForOwn`. The invariant `LInv` says
that what is counted under a key is what its clients failed (`Counted`), which
needs that a chain of trusted proxies resolves to the client whatever the header
held, and that what a key has used of a bucket, the attempts that may still fail
in it included, is within the bound (`Budgeted`). A refusal's weighted rate is turned into a count by a lemma of nonlinear
arithmetic, `WeighedFailures`.

`SessionCacheProofs`, for any number of logins and requests: `ListIsOwn`,
`ShownIsOfTheJar`, `GoodSessionStays`. None of the three is inductive alone.
`CacheInv` adds that a query in flight asks for the login in the jar, and that a
refusal it carries is still true (`FetchesOfJar`); that a login whose answer
landed is in the jar until a logout empties it (`LoginInJar`); and that what is
cached is of the login in the jar (`CachedOfJar`). A login that lands breaks the
first and the third; `cancelQueries` restores the one, by leaving no query in
flight, and `setQueryData` with `removeQueries` the other.
`GoodSessionStays` takes two facts more, each an invariant of its own: a query
refused carries a cookie the server does not accept again (`RefusalsOK`), so it
is not the one shown, and a logout that was answered has ended the session of
its cookie (`LogoutsOK`).

Only model-checked: the four liveness properties, `CallsEnd` of `SetupEnds` and
`StopReturns`, `SessionsCollected` and `StrandedCollected` of `Reaper`, because
nothing about fairness or `ENABLED` is within the prover's reach. Every other
property of a passing run is stated by a theorem. Six of those theorems have
hypotheses on the constants: `GuardKeepsCover`, `GuardedWritesKeepCover` and
`OnlyStaleStampUncovers` on the privileged list, `StoreImplementsContract` on
logins and grants, `AnnouncedCodesHold` and `CodesStay` on what fails. Beyond these
hypotheses the runs say no more than their bounds allow.

## Not modelled

Parsing, validation and formatting of names, addresses, cookies and JSON;
argon2id; migrations and generated query code; avatars; rendering; mail.
Read-only listings and `RequireCapability`, a check of one value. The React
screens: rendering, form state, the steps of the setup wizard. How TanStack
Query and httprate are built; they are modelled by what this code relies on of
them and marked external; that httprate evicts only counts no rate reads any
more is assumed. Statement-level Postgres behaviour beyond what is listed
above, and, but for `CreateFirstUser`, isolation levels other than READ
COMMITTED: the code sets none for the other transactions, and a server with
another default is not modelled. Setup on systems without
flock (`setuplock_other.go`), where renewals in two processes are not kept
apart; code files that hold no code, and links and folders in their place, which
every call refuses; `setup_http.go`, which decodes requests and encodes answers.

## Plan

1. **Setup**: what `AnnouncedHolds` and `CodeStays` need of failing system calls
   and of chmods, in place of excluding them.
2. **Refinement**: a contract for stores in which logins slip into a disable,
   and grants as several contract calls, so that `StoreImplementsContract` needs
   no hypothesis.
3. **Algorithms**: name cleaning and initials against reference definitions.
