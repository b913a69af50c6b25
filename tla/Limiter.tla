------------------------------ MODULE Limiter -------------------------------
(***************************************************************************)
(* The login limiter of authkit/ratelimit: attempts of clients, direct or  *)
(* through trusted proxies, checked against a budget of failures before    *)
(* they are served and counted after they failed, so that attempts served  *)
(* at once pass one check.  The counter is that of httprate: a count per   *)
(* key and bucket, and a rate that weighs the previous bucket by what is   *)
(* left of the current one.                                                *)
(***************************************************************************)
EXTENDS Integers, Sequences, FiniteSets

CONSTANTS
    Limit, Window,      \* Config.Limit, and Config.Window in ticks of the clock
    Client,             \* the addresses attempts come from
    Proxy,              \* Config.TrustedProxies: the addresses of the proxies
    Key, Canonical,     \* CanonicalizeIP: the key each address is counted under
    Attempt,            \* the attempts served at once
    MaxClock            \* bound: the last instant the clock reaches

ASSUME BudgetAssumption == Limit \in Nat \ {0} /\ Window \in Nat \ {0} /\ MaxClock \in Nat

ASSUME AddressAssumption ==
    /\ Client \cap Proxy = {}
    /\ Canonical \in [Client \cup Proxy -> Key]

ASSUME AttemptAssumption == IsFiniteSet(Attempt)

VARIABLES
    clock,
    counts,             \* the failures counted per key and bucket
    attempts,           \* the attempts being served
    failures,           \* history: the failures of the clients of a key in each bucket
    last                \* history: the instant after the last of them

limiterVars == <<clock, counts, attempts, failures, last>>

Address == Client \cup Proxy
Bucket == 0..(MaxClock \div Window)

Idle == [at |-> "idle"]

\* A fault: the address itself for the key.
ServedByAddress(client, key) == [at |-> "served", client |-> client, key |-> client]

Served(client, key) == [at |-> "served", client |-> client, key |-> key]

-----------------------------------------------------------------------------
\* Time.Truncate
BucketOf(now) == now \div Window

Previous(table, key) ==
    IF BucketOf(clock) = 0 THEN 0 ELSE table[key][BucketOf(clock) - 1]
Recent(table, key) == Previous(table, key) + table[key][BucketOf(clock)]

\* Window times the rate of Status.
WeightedRate(key) ==
    Previous(counts, key) * (Window - (clock % Window)) + counts[key][BucketOf(clock)] * Window

\* A fault: the rounded rate may reach the limit.
RefusedPastLimit(key) == 2 * WeightedRate(key) + Window >= 2 * Window * (Limit + 1)

\* Check: the rate, rounded half up, has reached the limit.
Refused(key) == 2 * WeightedRate(key) + Window >= 2 * Window * Limit

\* A fault: one window looks long enough.
RetryAfterWindow == Window

\* The wait Check answers a refusal with.
RetryAfter == 2 * Window

\* What reaches the server: each proxy appends the address it was reached from.
Peer(client, path) == IF path = <<>> THEN client ELSE path[Len(path)]
Forwarded(client, header, path) ==
    IF path = <<>> THEN header ELSE header \o <<client>> \o SubSeq(path, 1, Len(path) - 1)

\* A fault: the first address of the header and not the last untrusted one.
ClientIPFirst(peer, forwarded) ==
    IF peer \in Proxy /\ forwarded # <<>> THEN forwarded[1] ELSE peer

\* clientIPResolver: the peer, unless it is a trusted proxy, which is taken at its word for
\* the last address it does not trust; peerWhenUnset when the header holds none.
ClientIP(peer, forwarded) ==
    LET untrusted == {i \in DOMAIN forwarded : forwarded[i] \notin Proxy}
    IN  IF peer \in Proxy /\ untrusted # {}
        THEN forwarded[CHOOSE i \in untrusted : \A j \in untrusted : j <= i]
        ELSE peer

-----------------------------------------------------------------------------
LimiterInit ==
    /\ clock = 0
    /\ counts = [key \in Key |-> [b \in Bucket |-> 0]]
    /\ attempts = [i \in Attempt |-> Idle]
    /\ failures = counts
    /\ last = [key \in Key |-> 0]

\* The middleware serves an attempt under its key once Check allows it.  A refused attempt
\* changes nothing.
Serve(i, client, header, path) ==
    LET key == Canonical[ClientIP(Peer(client, path), Forwarded(client, header, path))]
    IN  /\ attempts[i] = Idle
        /\ ~Refused(key)
        /\ attempts' = [attempts EXCEPT ![i] = Served(client, key)]
        /\ UNCHANGED <<clock, counts, failures, last>>

\* What the history notes of a failure of client.
Noted(client) ==
    /\ failures' = [failures EXCEPT ![Canonical[client]][BucketOf(clock)] = @ + 1]
    /\ last' = [last EXCEPT ![Canonical[client]] = clock + 1]

\* A fault: RecordFailure counts under a bucket that has not begun.
FailAhead(i) ==
    /\ attempts[i] # Idle
    /\ counts' = [counts EXCEPT ![attempts[i].key][BucketOf(clock) + 1] = @ + 1]
    /\ Noted(attempts[i].client)
    /\ attempts' = [attempts EXCEPT ![i] = Idle]
    /\ UNCHANGED clock

\* The handler answered 401: RecordFailure counts it in the bucket of this instant.
Fail(i) ==
    /\ attempts[i] # Idle
    /\ counts' = [counts EXCEPT ![attempts[i].key][BucketOf(clock)] = @ + 1]
    /\ Noted(attempts[i].client)
    /\ attempts' = [attempts EXCEPT ![i] = Idle]
    /\ UNCHANGED clock

\* Any other answer costs nothing.
Pass(i) ==
    /\ attempts[i] # Idle
    /\ attempts' = [attempts EXCEPT ![i] = Idle]
    /\ UNCHANGED <<clock, counts, failures, last>>

Tick ==
    /\ clock < MaxClock
    /\ clock' = clock + 1
    /\ UNCHANGED <<counts, attempts, failures, last>>

\* What a header holds before the first proxy adds to it, and the proxies on the way.
Header == {<<>>} \cup {<<a>> : a \in Address}
Path == {<<>>} \cup {<<p>> : p \in Proxy} \cup {<<p, q>> : p, q \in Proxy}

LimiterNext ==
    \/ \E i \in Attempt :
          \/ \E client \in Client, header \in Header, path \in Path :
                Serve(i, client, header, path)
          \/ Fail(i) \/ Pass(i)
    \/ Tick

LimiterSpec == LimiterInit /\ [][LimiterNext]_limiterVars

-----------------------------------------------------------------------------
\* Every variable holds what it can hold.
LimiterTypeOK ==
    /\ clock \in 0..MaxClock
    /\ counts \in [Key -> [Bucket -> Nat]]
    /\ attempts \in [Attempt -> {Idle} \cup [at : {"served"}, client : Client, key : Key]]
    /\ failures \in [Key -> [Bucket -> Nat]]
    /\ last \in [Key -> 0..clock + 1]

\* Limit failures of its own, in this bucket and the one before, are what a client is
\* refused for, whatever its header held and whoever else fails; and the wait it is told
\* is long enough: whoever fails no more for that long is admitted.
RefusedForOwnFailures ==
    \A key \in Key :
        Refused(key) =>
            /\ Recent(failures, key) >= Limit
            /\ clock < (last[key] - 1) + RetryAfter

\* The clients of a key fail at most Limit - 1 times in a bucket, and once more for each
\* attempt that can be served at once: Limit times when attempts come one by one.
FailuresBounded ==
    \A key \in Key, b \in Bucket :
        failures[key][b] <= Limit - 1 + Cardinality(Attempt)
=============================================================================
