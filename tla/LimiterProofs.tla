--------------------------- MODULE LimiterProofs ----------------------------
(***************************************************************************)
(* Proofs about Limiter: who the limiter counts, how often a client can    *)
(* fail, and what a refusal rests on, for any budget, window, addresses    *)
(* and number of attempts at once.                                         *)
(***************************************************************************)
EXTENDS Limiter, FiniteSetTheorems, SequenceTheorems, TLAPS

-----------------------------------------------------------------------------
\* Buckets of a window are contiguous, and an instant falls within its own.
LEMMA BucketBounds ==
    ASSUME NEW n \in Nat
    PROVE  /\ BucketOf(n) \in Nat /\ n % Window \in 0..(Window - 1)
           /\ BucketOf(n) * Window <= n
           /\ n < (BucketOf(n) + 1) * Window
<1>1. Window \in Nat \ {0}
  BY BudgetAssumption
<1>2. n \div Window \in Nat /\ n % Window \in 0..(Window - 1)
  BY <1>1
<1>3. n = (Window * (n \div Window)) + (n % Window)
  BY <1>1
<1> QED BY <1>1, <1>2, <1>3 DEF BucketOf

\* A later instant is in no earlier bucket.
LEMMA BucketMonotone ==
    ASSUME NEW n \in Nat, NEW m \in Nat, n <= m
    PROVE  BucketOf(n) <= BucketOf(m)
<1>1. Window \in Nat \ {0}
  BY BudgetAssumption
<1> QED BY <1>1 DEF BucketOf

\* The clock's bucket is one of the table's.
LEMMA BucketInRange ==
    ASSUME LimiterTypeOK
    PROVE  /\ clock \in Nat /\ BucketOf(clock) \in Bucket
           /\ BucketOf(clock) # 0 => BucketOf(clock) - 1 \in Bucket
<1>1. clock \in Nat /\ MaxClock \in Nat /\ clock <= MaxClock
  BY BudgetAssumption DEF LimiterTypeOK
<1>2. BucketOf(clock) \in Nat /\ BucketOf(clock) <= BucketOf(MaxClock)
  BY <1>1, BucketBounds, BucketMonotone
<1>3. BucketOf(MaxClock) \in Nat /\ BucketOf(MaxClock) = MaxClock \div Window
  BY <1>1, BucketBounds DEF BucketOf
<1> QED BY <1>1, <1>2, <1>3 DEF Bucket

\* The proxies on the way are taken off the header from its end, so the address counted is
\* the client's, whatever the header held before the first proxy.
LEMMA ClientIPIsTheClient ==
    ASSUME NEW client \in Client, NEW header \in Header, NEW path \in Path
    PROVE  ClientIP(Peer(client, path), Forwarded(client, header, path)) = client
<1>1. client \notin Proxy
  BY AddressAssumption
<1>2. CASE path = <<>>
  BY <1>1, <1>2 DEF ClientIP, Peer
<1>3. CASE path # <<>>
  <2>1. /\ path \in Seq(Proxy) /\ Len(path) \in Nat \ {0}
        /\ \A i \in 1..Len(path) : path[i] \in Proxy
    <3>1. ASSUME NEW p \in Proxy, path = <<p>> PROVE path \in Seq(Proxy) /\ Len(path) = 1
      BY <3>1
    <3>2. ASSUME NEW p \in Proxy, NEW q \in Proxy, path = <<p, q>>
          PROVE  path \in Seq(Proxy) /\ Len(path) = 2
      BY <3>2
    <3>3. path \in Seq(Proxy) /\ Len(path) \in Nat \ {0}
      BY <1>3, <3>1, <3>2 DEF Path
    <3> QED BY <3>3, LenProperties
  <2>2. header \in Seq(Address) /\ Len(header) \in Nat
    <3>1. ASSUME NEW a \in Address, header = <<a>> PROVE header \in Seq(Address)
      BY <3>1
    <3>2. header \in Seq(Address)
      BY <3>1, EmptySeq DEF Header
    <3> QED BY <3>2, LenProperties
  <2> DEFINE tail == SubSeq(path, 1, Len(path) - 1)
  <2> DEFINE front == header \o <<client>>
  <2> DEFINE forwarded == Forwarded(client, header, path)
  <2> DEFINE at == Len(header) + 1
  <2> DEFINE untrusted == {i \in DOMAIN forwarded : forwarded[i] \notin Proxy}
  <2>3. tail \in Seq(Proxy) /\ Len(tail) = Len(path) - 1
    <3>1. \A i \in 1..(Len(path) - 1) : path[i] \in Proxy
      BY <2>1
    <3>2. 1 \in Int /\ Len(path) - 1 \in Int
      BY <2>1
    <3>3. /\ tail \in Seq(Proxy)
          /\ Len(tail) = IF 1 <= Len(path) - 1 THEN Len(path) - 1 - 1 + 1 ELSE 0
      BY ONLY <3>1, <3>2, SubSeqProperties
    <3>4. \A n \in Nat \ {0} : n - 1 = IF 1 <= n - 1 THEN n - 1 - 1 + 1 ELSE 0
      OBVIOUS
    <3> HIDE DEF tail
    <3> QED BY <2>1, <3>3, <3>4
  <2>4. forwarded = front \o tail
    BY <1>3 DEF Forwarded
  <2>5. /\ front \in Seq(Address) /\ Len(front) = at /\ front[at] = client
    <3>1. <<client>> \in Seq(Address) /\ Len(<<client>>) = 1 /\ <<client>>[1] = client
      BY DEF Address
    <3> QED BY <2>2, <3>1, ConcatProperties
  <2>6. /\ tail \in Seq(Address) /\ Len(tail) \in Nat
        /\ \A i \in 1..Len(tail) : tail[i] \in Proxy
    <3>1. Len(tail) \in Nat /\ \A i \in 1..Len(tail) : tail[i] \in Proxy
      BY <2>3, LenProperties
    <3>2. Seq(Proxy) \subseteq Seq(Address)
      BY DEF Address
    <3> QED BY <2>3, <3>1, <3>2
  <2>7. /\ DOMAIN forwarded = 1..(at + Len(tail))
        /\ \A i \in 1..(at + Len(tail)) :
              forwarded[i] = IF i <= at THEN front[i] ELSE tail[i - at]
    <3> HIDE DEF tail, front, at, forwarded
    <3>1. /\ forwarded \in Seq(Address) /\ Len(forwarded) = at + Len(tail)
          /\ \A i \in 1..(at + Len(tail)) :
                forwarded[i] = IF i <= at THEN front[i] ELSE tail[i - at]
      BY <2>4, <2>5, <2>6, ConcatProperties
    <3> QED BY <3>1, LenProperties
  <2>8. at \in untrusted /\ \A i \in untrusted : i <= at
    <3>1. at \in Nat \ {0}
      BY <2>2
    <3> HIDE DEF tail, front, at, forwarded
    <3>2. at \in DOMAIN forwarded /\ forwarded[at] = client
      BY <2>5, <2>6, <2>7, <3>1
    <3>3. ASSUME NEW i \in DOMAIN forwarded, forwarded[i] \notin Proxy PROVE i <= at
      BY <2>6, <2>7, <3>1, <3>3
    <3> QED BY <1>1, <3>2, <3>3
  <2>9. untrusted \subseteq Nat /\ at \in Nat
    <3> HIDE DEF tail, front, forwarded
    <3> QED BY <2>2, <2>6, <2>7
  <2>10. \A i \in untrusted : (\A j \in untrusted : j <= i) => i = at
    <3> HIDE DEF tail, front, at, forwarded, untrusted
    <3> QED BY <2>8, <2>9
  <2>11. (CHOOSE i \in untrusted : \A j \in untrusted : j <= i) = at
    <3> HIDE DEF at, untrusted, forwarded
    <3> QED BY <2>8, <2>10
  <2>12. Peer(client, path) \in Proxy
    BY <1>3, <2>1 DEF Peer
  <2>13. ClientIP(Peer(client, path), forwarded)
           = forwarded[CHOOSE i \in untrusted : \A j \in untrusted : j <= i]
    BY <2>8, <2>12 DEF ClientIP
  <2>14. forwarded[at] = client
    <3> HIDE DEF tail, front, forwarded
    <3> QED BY <2>2, <2>5, <2>6, <2>7
  <2> HIDE DEF tail, front, at, forwarded, untrusted
  <2> QED BY <2>11, <2>13, <2>14 DEF forwarded
<1> QED BY <1>2, <1>3

-----------------------------------------------------------------------------
\* What an attempt being served carries.
LEMMA ServedShape ==
    /\ \A client \in Client, key \in Key :
          Served(client, key) \in [at : {"served"}, client : Client, key : Key]
    /\ LimiterTypeOK => \A i \in Attempt :
          attempts[i] # Idle => \E client \in Client, key \in Key :
                                   attempts[i] = Served(client, key)
<1>1. \A client \in Client, key \in Key :
         Served(client, key) \in [at : {"served"}, client : Client, key : Key]
  BY DEF Served
<1>2. \A q \in [at : {"served"}, client : Client, key : Key] :
         q.client \in Client /\ q.key \in Key /\ q = Served(q.client, q.key)
  BY DEF Served
<1> QED BY <1>1, <1>2 DEF LimiterTypeOK

\* Every variable keeps to what it can hold.
LEMMA TypeStep == LimiterTypeOK /\ [LimiterNext]_limiterVars => LimiterTypeOK'
<1> SUFFICES ASSUME LimiterTypeOK, [LimiterNext]_limiterVars PROVE LimiterTypeOK'
  OBVIOUS
<1>0. clock \in Nat /\ BucketOf(clock) \in Bucket
  BY BucketInRange
<1>1. ASSUME NEW i \in Attempt, NEW client \in Client, NEW header \in Header, NEW path \in Path,
             Serve(i, client, header, path)
      PROVE  LimiterTypeOK'
  <2>1. Canonical[client] \in Key
    BY AddressAssumption
  <2>2. attempts' = [attempts EXCEPT ![i] = Served(client, Canonical[client])]
    BY <1>1, ClientIPIsTheClient DEF Serve
  <2>3. Served(client, Canonical[client]) \in [at : {"served"}, client : Client, key : Key]
    BY <2>1, ServedShape
  <2> QED BY <1>1, <2>2, <2>3 DEF Serve, LimiterTypeOK
<1>2. ASSUME NEW i \in Attempt, Fail(i) PROVE LimiterTypeOK'
  <2>1. PICK client \in Client, key \in Key : attempts[i] = Served(client, key)
    BY <1>2, ServedShape DEF Fail
  <2>2. attempts[i].client = client /\ attempts[i].key = key /\ Canonical[client] \in Key
    BY <2>1, AddressAssumption DEF Served
  <2>3. counts' \in [Key -> [Bucket -> Nat]]
    BY <1>0, <1>2, <2>2 DEF Fail, LimiterTypeOK
  <2>4. failures' \in [Key -> [Bucket -> Nat]]
    BY <1>0, <1>2, <2>2 DEF Fail, Noted, LimiterTypeOK
  <2>5. last' \in [Key -> 0..clock + 1]
    BY <1>0, <1>2, <2>2 DEF Fail, Noted, LimiterTypeOK
  <2>6. attempts' \in [Attempt -> {Idle} \cup [at : {"served"}, client : Client, key : Key]]
    BY <1>2 DEF Fail, LimiterTypeOK
  <2> QED BY <1>2, <2>3, <2>4, <2>5, <2>6 DEF Fail, LimiterTypeOK
<1>3. ASSUME NEW i \in Attempt, Pass(i) PROVE LimiterTypeOK'
  BY <1>3 DEF Pass, LimiterTypeOK
<1>4. CASE Tick
  <2>1. clock' \in 0..MaxClock /\ 0..(clock + 1) \subseteq 0..(clock' + 1)
    BY <1>0, <1>4, BudgetAssumption DEF Tick, LimiterTypeOK
  <2> QED BY <1>4, <2>1 DEF Tick, LimiterTypeOK
<1>5. CASE UNCHANGED limiterVars
  BY <1>5 DEF limiterVars, LimiterTypeOK
<1> QED BY <1>1, <1>2, <1>3, <1>4, <1>5 DEF LimiterNext

\* The attempts being served under a key.
InFlight(key) == {i \in Attempt : attempts[i] # Idle /\ attempts[i].key = key}

\* A failure is counted under the key of the client that failed; what is counted is of a
\* bucket that has begun, and no older than the last failure noted.
Counted ==
    /\ counts = failures
    /\ \A i \in Attempt : attempts[i] # Idle => attempts[i].key = Canonical[attempts[i].client]
    /\ \A key \in Key, b \in Bucket :
          counts[key][b] > 0 => b <= BucketOf(clock) /\ b * Window <= last[key] - 1

\* What a key has used of the bucket under way: its failures, and the attempts that may fail.
Used(key) == counts[key][BucketOf(clock)] + Cardinality(InFlight(key))

Most == Limit - 1 + Cardinality(Attempt)

\* Within the budget: the bucket under way with the attempts in flight, the others alone.
Budgeted ==
    \A key \in Key : Used(key) <= Most /\ \A b \in Bucket : counts[key][b] <= Most

LInv == LimiterTypeOK /\ Counted /\ Budgeted

LEMMA InFlightSize ==
    ASSUME NEW key
    PROVE  /\ IsFiniteSet(InFlight(key))
           /\ Cardinality(InFlight(key)) \in Nat /\ Cardinality(Attempt) \in Nat
           /\ Cardinality(InFlight(key)) <= Cardinality(Attempt)
<1>1. InFlight(key) \subseteq Attempt
  BY DEF InFlight
<1> QED BY <1>1, AttemptAssumption, FS_Subset, FS_CardinalityType

\* Failures counted up to the limit in this bucket alone refuse the key.
LEMMA LimitRefuses ==
    ASSUME LimiterTypeOK, NEW key \in Key, ~Refused(key)
    PROVE  counts[key][BucketOf(clock)] <= Limit - 1
<1> DEFINE prev == Previous(counts, key)
<1> DEFINE cur == counts[key][BucketOf(clock)]
<1> DEFINE left == Window - (clock % Window)
<1>1. Window \in Nat \ {0} /\ Limit \in Nat \ {0}
  BY BudgetAssumption
<1>2. prev \in Nat /\ cur \in Nat
  BY BucketInRange DEF LimiterTypeOK, Previous
<1>3. left \in Nat
  <2>1. clock % Window \in 0..(Window - 1)
    BY BucketInRange, BucketBounds
  <2> HIDE DEF left
  <2>2. \A r \in 0..(Window - 1) : Window - r \in Nat
    BY <1>1
  <2> QED BY <2>1, <2>2 DEF left
<1>4. 2 * (prev * left + cur * Window) + Window < 2 * Window * Limit
  <2>1. ~(2 * (prev * left + cur * Window) + Window >= 2 * Window * Limit)
    BY DEF Refused, WeightedRate
  <2> HIDE DEF prev, cur, left
  <2> QED BY <1>1, <1>2, <1>3, <2>1
<1> HIDE DEF prev, cur, left
<1>5. cur < Limit
  BY <1>1, <1>2, <1>3, <1>4
<1> QED BY <1>1, <1>2, <1>5 DEF cur

LEMMA CountedStep == LimiterTypeOK /\ Counted /\ [LimiterNext]_limiterVars => Counted'
<1> SUFFICES ASSUME LimiterTypeOK, Counted, [LimiterNext]_limiterVars PROVE Counted'
  OBVIOUS
<1>0. clock \in Nat /\ BucketOf(clock) \in Bucket /\ BucketOf(clock) * Window <= clock
  BY BucketInRange, BucketBounds
<1>1. ASSUME NEW i \in Attempt, NEW client \in Client, NEW header \in Header, NEW path \in Path,
             Serve(i, client, header, path)
      PROVE  Counted'
  <2>1. attempts' = [attempts EXCEPT ![i] = Served(client, Canonical[client])]
    BY <1>1, ClientIPIsTheClient DEF Serve
  <2>2. \A j \in Attempt :
           attempts'[j] # Idle => attempts'[j].key = Canonical[attempts'[j].client]
    BY <2>1 DEF LimiterTypeOK, Counted, Served
  <2> QED BY <1>1, <2>2 DEF Serve, Counted
<1>2. ASSUME NEW i \in Attempt, Fail(i) PROVE Counted'
  <2>1. PICK client \in Client, key \in Key : attempts[i] = Served(client, key)
    BY <1>2, ServedShape DEF Fail
  <2>2. attempts[i].client = client /\ attempts[i].key = key /\ Canonical[client] = key
    BY <1>2, <2>1 DEF Served, Fail, Counted
  <2>3. counts' = [counts EXCEPT ![key][BucketOf(clock)] = @ + 1] /\ counts' = failures'
    BY <1>2, <2>2 DEF Fail, Noted, Counted
  <2>4. last' = [last EXCEPT ![key] = clock + 1] /\ clock' = clock
    BY <1>2, <2>2 DEF Fail, Noted
  <2>5. \A j \in Attempt :
           attempts'[j] # Idle => attempts'[j].key = Canonical[attempts'[j].client]
    BY <1>2 DEF Fail, LimiterTypeOK, Counted
  <2>6. ASSUME NEW k \in Key, NEW b \in Bucket, counts'[k][b] > 0
        PROVE  b <= BucketOf(clock) /\ b * Window <= last'[k] - 1
    <3>1. CASE k = key /\ b = BucketOf(clock)
      <4>1. last'[k] = clock + 1
        BY <2>4, <3>1 DEF LimiterTypeOK
      <4>2. last'[k] - 1 = clock
        BY <1>0, <4>1
      <4>3. b <= BucketOf(clock) /\ b * Window <= clock
        BY <1>0, <3>1 DEF Bucket
      <4> QED BY <4>2, <4>3
    <3>2. CASE k = key /\ b # BucketOf(clock)
      <4>1. counts[k][b] > 0
        BY <2>3, <2>6, <3>2, <1>0 DEF LimiterTypeOK
      <4>2. b <= BucketOf(clock) /\ b * Window <= last[k] - 1
        BY <4>1 DEF Counted
      <4>3. last[k] - 1 <= clock /\ last[k] \in Nat
        BY <1>0 DEF LimiterTypeOK
      <4>4. b * Window \in Nat
        BY BudgetAssumption DEF Bucket
      <4>5. b * Window <= clock
        BY <1>0, <4>2, <4>3, <4>4
      <4>6. last'[k] - 1 = clock
        BY <1>0, <2>4, <3>2 DEF LimiterTypeOK
      <4> QED BY <4>2, <4>5, <4>6
    <3>3. CASE k # key
      <4>1. counts'[k][b] = counts[k][b] /\ last'[k] = last[k]
        BY <2>3, <2>4, <3>3 DEF LimiterTypeOK
      <4> QED BY <2>6, <4>1 DEF Counted
    <3> QED BY <3>1, <3>2, <3>3
  <2>7. BucketOf(clock)' = BucketOf(clock)
    BY <2>4 DEF BucketOf
  <2> QED BY <2>3, <2>5, <2>6, <2>7 DEF Counted
<1>3. ASSUME NEW i \in Attempt, Pass(i) PROVE Counted'
  <2>1. \A j \in Attempt :
           attempts'[j] # Idle => attempts'[j].key = Canonical[attempts'[j].client]
    BY <1>3 DEF Pass, LimiterTypeOK, Counted
  <2> QED BY <1>3, <2>1 DEF Pass, Counted
<1>4. CASE Tick
  <2>1. BucketOf(clock) <= BucketOf(clock)' /\ BucketOf(clock)' \in Nat
    BY <1>0, <1>4, BucketMonotone, BucketBounds DEF Tick
  <2>2. ASSUME NEW k \in Key, NEW b \in Bucket, counts[k][b] > 0
        PROVE  b <= BucketOf(clock)' /\ b * Window <= last[k] - 1
    BY <1>0, <2>1, <2>2 DEF Counted, Bucket
  <2> QED BY <1>4, <2>2 DEF Tick, Counted
<1>5. CASE UNCHANGED limiterVars
  BY <1>5 DEF limiterVars, Counted, BucketOf
<1> QED BY <1>1, <1>2, <1>3, <1>4, <1>5 DEF LimiterNext

LEMMA BudgetedStep == LInv /\ [LimiterNext]_limiterVars => Budgeted'
<1> SUFFICES ASSUME LInv, [LimiterNext]_limiterVars PROVE Budgeted'
  OBVIOUS
<1> DEFINE B == BucketOf(clock)
<1>0. /\ clock \in Nat /\ B \in Bucket /\ Limit \in Nat \ {0}
      /\ counts \in [Key -> [Bucket -> Nat]] /\ Most \in Nat /\ LimiterTypeOK
  <2>1. LimiterTypeOK /\ Limit \in Nat \ {0}
    BY BudgetAssumption DEF LInv
  <2>2. clock \in Nat /\ B \in Bucket
    BY <2>1, BucketInRange
  <2>3. Most \in Nat
    <3>1. Cardinality(Attempt) \in Nat
      BY AttemptAssumption, FS_CardinalityType
    <3> QED BY <2>1, <3>1 DEF Most
  <2> QED BY <2>1, <2>2, <2>3 DEF LimiterTypeOK
<1>1. ASSUME NEW i \in Attempt, NEW client \in Client, NEW header \in Header, NEW path \in Path,
             Serve(i, client, header, path)
      PROVE  Budgeted'
  <2> DEFINE served == Canonical[client]
  <2>1. /\ ~Refused(served) /\ served \in Key /\ UNCHANGED <<clock, counts>>
        /\ attempts' = [attempts EXCEPT ![i] = Served(client, served)]
    BY <1>1, ClientIPIsTheClient, AddressAssumption DEF Serve
  <2>2. counts[served][B] <= Limit - 1
    BY <1>0, <2>1, LimitRefuses
  <2>3. ASSUME NEW key \in Key PROVE Used(key)' <= Most
    <3>1. Cardinality(InFlight(key))' \in Nat /\ Cardinality(InFlight(key))' <= Cardinality(Attempt)
      <4>1. InFlight(key)' \subseteq Attempt
        BY DEF InFlight
      <4> QED BY <4>1, AttemptAssumption, FS_Subset, FS_CardinalityType
    <3>2. CASE key = served
      <4>1. Used(key)' = counts[key][B] + Cardinality(InFlight(key))'
        BY <2>1 DEF Used, BucketOf
      <4>2. counts[key][B] \in Nat /\ counts[key][B] <= Limit - 1
        BY <1>0, <2>2, <3>2
      <4>3. Cardinality(Attempt) \in Nat
        BY AttemptAssumption, FS_CardinalityType
      <4> HIDE DEF B
      <4> QED BY <1>0, <3>1, <4>1, <4>2, <4>3 DEF Most
    <3>3. CASE key # served
      <4>1. InFlight(key)' \subseteq InFlight(key)
        BY <1>0, <2>1, <3>3 DEF InFlight, Served, LimiterTypeOK
      <4>2. Cardinality(InFlight(key))' <= Cardinality(InFlight(key))
        BY <4>1, InFlightSize, FS_Subset
      <4>3. Used(key) <= Most
        BY DEF LInv, Budgeted
      <4>4. counts[key][B] \in Nat /\ Cardinality(InFlight(key)) \in Nat
        BY <1>0, InFlightSize
      <4> QED BY <1>0, <2>1, <3>1, <4>2, <4>3, <4>4 DEF Used, BucketOf
    <3> QED BY <3>2, <3>3
  <2>4. \A key \in Key, b \in Bucket : counts'[key][b] <= Most
    BY <2>1 DEF LInv, Budgeted
  <2> QED BY <2>3, <2>4 DEF Budgeted, Most
<1>2. ASSUME NEW i \in Attempt, Fail(i) PROVE Budgeted'
  <2>1. PICK client \in Client, failed \in Key : attempts[i] = Served(client, failed)
    BY <1>0, <1>2, ServedShape DEF Fail
  <2>2. /\ attempts[i].key = failed /\ clock' = clock
        /\ counts' = [counts EXCEPT ![failed][B] = @ + 1]
        /\ attempts' = [attempts EXCEPT ![i] = Idle]
    BY <1>2, <2>1 DEF Served, Fail
  <2>3. /\ InFlight(failed)' = InFlight(failed) \ {i} /\ i \in InFlight(failed)
        /\ \A key \in Key : key # failed => InFlight(key)' = InFlight(key)
    BY <1>0, <1>2, <2>2 DEF InFlight, LimiterTypeOK, Fail
  <2>4. Cardinality(InFlight(failed))' = Cardinality(InFlight(failed)) - 1
    BY <2>3, InFlightSize, FS_RemoveElement
  <2>5. ASSUME NEW key \in Key PROVE Used(key)' <= Most
    <3>1. Used(key) <= Most /\ counts[key][B] \in Nat /\ Cardinality(InFlight(key)) \in Nat
      BY <1>0, InFlightSize DEF LInv, Budgeted
    <3>2. CASE key = failed
      <4>1. counts'[key][B] = counts[key][B] + 1
        BY <1>0, <2>2, <3>2
      <4> QED BY <2>2, <2>4, <3>1, <3>2, <4>1 DEF Used, BucketOf
    <3>3. CASE key # failed
      <4>1. counts'[key][B] = counts[key][B]
        BY <1>0, <2>2, <3>3
      <4> QED BY <2>2, <2>3, <3>1, <3>3, <4>1 DEF Used, BucketOf
    <3> QED BY <3>2, <3>3
  <2>6. ASSUME NEW key \in Key, NEW b \in Bucket PROVE counts'[key][b] <= Most
    <3>1. CASE b = B
      <4>1. /\ Used(key)' = counts'[key][B] + Cardinality(InFlight(key))'
        BY <2>2 DEF Used, BucketOf
      <4>2. Cardinality(InFlight(key))' \in Nat
        <5>1. InFlight(key)' \subseteq Attempt
          BY DEF InFlight
        <5> QED BY <5>1, AttemptAssumption, FS_Subset, FS_CardinalityType
      <4>3. counts'[key][B] \in Nat
        BY <1>0, <2>2
      <4> QED BY <1>0, <2>5, <3>1, <4>1, <4>2, <4>3
    <3>2. CASE b # B
      <4>1. counts'[key][b] = counts[key][b]
        BY <1>0, <2>2, <3>2
      <4> QED BY <4>1 DEF LInv, Budgeted
    <3> QED BY <3>1, <3>2
  <2> QED BY <2>5, <2>6 DEF Budgeted, Most
<1>3. ASSUME NEW i \in Attempt, Pass(i) PROVE Budgeted'
  <2>1. ASSUME NEW key \in Key PROVE Used(key)' <= Most
    <3>1. InFlight(key)' \subseteq InFlight(key)
      BY <1>0, <1>3 DEF InFlight, Pass, LimiterTypeOK
    <3>2. /\ Cardinality(InFlight(key))' <= Cardinality(InFlight(key))
          /\ Cardinality(InFlight(key))' \in Nat
      BY <3>1, InFlightSize, FS_Subset, FS_CardinalityType
    <3>3. Used(key) <= Most /\ counts[key][B] \in Nat /\ Cardinality(InFlight(key)) \in Nat
      BY <1>0, InFlightSize DEF LInv, Budgeted
    <3>4. Used(key)' = counts[key][B] + Cardinality(InFlight(key))'
      BY <1>3 DEF Pass, Used, BucketOf
    <3> QED BY <1>0, <3>2, <3>3, <3>4 DEF Used
  <2> QED BY <1>3, <2>1 DEF Pass, LInv, Budgeted, Most
<1>4. CASE Tick
  <2>1. ASSUME NEW key \in Key PROVE Used(key)' <= Most
    <3>1. InFlight(key)' = InFlight(key) /\ counts' = counts
      BY <1>4 DEF InFlight, Tick
    <3>2. CASE BucketOf(clock)' = B
      BY <3>1, <3>2 DEF LInv, Budgeted, Used
    <3>3. CASE BucketOf(clock)' # B
      <4>1. BucketOf(clock)' > B /\ BucketOf(clock)' \in Bucket
        <5>1. clock' \in Nat /\ clock <= clock' /\ LimiterTypeOK'
          BY <1>0, <1>4, TypeStep DEF Tick, LInv
        <5>2. BucketOf(clock)' \in Bucket
          <6>1. clock' \in Nat /\ MaxClock \in Nat /\ clock' <= MaxClock
            BY <5>1, BudgetAssumption DEF LimiterTypeOK
          <6>2. /\ BucketOf(clock') \in Nat /\ BucketOf(clock') <= BucketOf(MaxClock)
                /\ BucketOf(MaxClock) \in Nat /\ BucketOf(MaxClock) = MaxClock \div Window
            BY <6>1, BucketBounds, BucketMonotone DEF BucketOf
          <6>3. BucketOf(clock)' = BucketOf(clock')
            BY DEF BucketOf
          <6> QED BY <6>2, <6>3 DEF Bucket
        <5>3. B <= BucketOf(clock') /\ BucketOf(clock') = BucketOf(clock)'
          BY <1>0, <5>1, BucketMonotone DEF BucketOf
        <5> QED BY <1>0, <3>3, <5>2, <5>3 DEF Bucket
      <4>2. counts[key][BucketOf(clock)'] = 0
        <5> DEFINE next == BucketOf(clock)'
        <5>1. next \in Bucket /\ ~(next <= B)
          BY <1>0, <4>1 DEF Bucket
        <5>2. counts[key][next] > 0 => next <= B
          BY <5>1 DEF LInv, Counted
        <5>3. counts[key][next] \in Nat
          BY <1>0, <5>1
        <5> HIDE DEF next
        <5>4. counts[key][next] = 0
          BY <5>1, <5>2, <5>3
        <5> QED BY <5>4 DEF next
      <4>3. Used(key)' = 0 + Cardinality(InFlight(key))
        BY <3>1, <4>2 DEF Used
      <4> QED BY <1>0, <4>3, InFlightSize DEF Most
    <3> QED BY <3>2, <3>3
  <2> QED BY <1>4, <2>1 DEF Tick, LInv, Budgeted, Most
<1>5. CASE UNCHANGED limiterVars
  BY <1>5 DEF limiterVars, LInv, Budgeted, Used, BucketOf, InFlight, Most
<1> QED BY <1>1, <1>2, <1>3, <1>4, <1>5 DEF LimiterNext
-----------------------------------------------------------------------------
LEMMA LInit == LimiterInit => LInv
<1> SUFFICES ASSUME LimiterInit PROVE LInv
  OBVIOUS
<1>1. 0 \in Nat /\ BucketOf(0) = 0 /\ 0 \in Bucket
  <2>1. MaxClock \div Window \in Nat /\ 0 \div Window = 0
    BY BudgetAssumption
  <2> QED BY <2>1 DEF BucketOf, Bucket
<1>2. LimiterTypeOK
  BY BudgetAssumption DEF LimiterInit, LimiterTypeOK
<1>3. Counted
  BY DEF LimiterInit, Counted
<1>4. ASSUME NEW key \in Key PROVE InFlight(key) = {}
  BY DEF LimiterInit, InFlight
<1>5. Most \in Nat
  <2>1. Cardinality(Attempt) \in Nat /\ Limit \in Nat \ {0}
    BY AttemptAssumption, FS_CardinalityType, BudgetAssumption
  <2> QED BY <2>1 DEF Most
<1>6. Budgeted
  <2>1. ASSUME NEW key \in Key PROVE Used(key) <= Most
    <3>1. Used(key) = 0
      BY <1>1, <1>4, FS_EmptySet DEF Used, LimiterInit
    <3> QED BY <1>5, <3>1
  <2> QED BY <1>5, <2>1 DEF LimiterInit, Budgeted
<1> QED BY <1>2, <1>3, <1>6 DEF LInv

\* What is counted is within the budget, and counted for who failed, in every reachable state.
LEMMA LimiterInvariant == LimiterSpec => []LInv
<1>1. LimiterInit => LInv
  BY LInit
<1>2. LInv /\ [LimiterNext]_limiterVars => LInv'
  BY TypeStep, CountedStep, BudgetedStep DEF LInv
<1> QED BY <1>1, <1>2, PTL DEF LimiterSpec

\* The clients of a key fail at most Limit - 1 times in a bucket, and once more for each
\* attempt in flight: attempts served at once pass one check of Check, for any budget.
THEOREM FailuresAreBounded == LimiterSpec => []FailuresBounded
<1>1. LInv => FailuresBounded
  BY DEF LInv, Counted, Budgeted, FailuresBounded, Most
<1> QED BY <1>1, LimiterInvariant, PTL

\* The rounded, weighted rate reaches the limit only when the failures of the two buckets do.
LEMMA WeighedFailures ==
    ASSUME NEW w \in Nat \ {0}, NEW limit \in Nat \ {0}, NEW r \in 0..(w - 1),
           NEW a \in Nat, NEW b \in Nat,
           2 * (a * (w - r) + b * w) + w >= 2 * w * limit
    PROVE  a + b >= limit
OBVIOUS

\* Check refuses a key only for Limit failures of its own clients in this bucket and the one
\* before, and names a wait that is long enough, whatever the headers held.
THEOREM RefusedForOwn == LimiterSpec => []RefusedForOwnFailures
<1>1. ASSUME LInv PROVE RefusedForOwnFailures
  <2> SUFFICES ASSUME NEW key \in Key, Refused(key)
               PROVE  /\ Recent(failures, key) >= Limit
                      /\ clock < (last[key] - 1) + RetryAfter
    BY DEF RefusedForOwnFailures
  <2> DEFINE B == BucketOf(clock)
  <2> DEFINE prev == Previous(counts, key)
  <2> DEFINE cur == counts[key][B]
  <2> DEFINE r == clock % Window
  <2>1. LimiterTypeOK /\ Window \in Nat \ {0} /\ Limit \in Nat \ {0}
    BY <1>1, BudgetAssumption DEF LInv
  <2>2. /\ clock \in Nat /\ B \in Bucket /\ B \in Nat /\ r \in 0..(Window - 1)
        /\ clock < (B + 1) * Window
        /\ B # 0 => B - 1 \in Bucket
    BY <2>1, BucketInRange, BucketBounds
  <2>3. prev \in Nat /\ cur \in Nat
    BY <2>1, <2>2 DEF LimiterTypeOK, Previous
  <2>4. prev + cur >= Limit
    <3>1. 2 * (prev * (Window - r) + cur * Window) + Window >= 2 * Window * Limit
      BY DEF Refused, WeightedRate
    <3> HIDE DEF prev, cur, r
    <3> QED BY <2>1, <2>2, <2>3, <3>1, WeighedFailures
  <2>5. Recent(failures, key) = prev + cur
    BY <1>1 DEF LInv, Counted, Recent, Previous
  <2>6. last[key] \in Nat
    BY <2>1, <2>2 DEF LimiterTypeOK
  <2>7. (B - 1) * Window <= last[key] - 1
    <3>1. CASE cur > 0
      <4>1. B * Window <= last[key] - 1
        BY <1>1, <2>2, <3>1 DEF LInv, Counted
      <4>2. (B - 1) * Window <= B * Window
        <5> HIDE DEF B
        <5> QED BY <2>1, <2>2
      <4>3. (B - 1) * Window \in Int /\ B * Window \in Int /\ last[key] - 1 \in Int
        <5> HIDE DEF B
        <5> QED BY <2>1, <2>2, <2>6
      <4> HIDE DEF B
      <4> QED BY <4>1, <4>2, <4>3
    <3>2. CASE prev > 0
      <4>1. B # 0 /\ prev = counts[key][B - 1]
        BY <3>2 DEF Previous
      <4>2. B - 1 \in Bucket /\ counts[key][B - 1] > 0
        BY <2>2, <3>2, <4>1
      <4> HIDE DEF B
      <4> QED BY <1>1, <4>2 DEF LInv, Counted
    <3> HIDE DEF prev, cur
    <3> QED BY <2>1, <2>3, <2>4, <3>1, <3>2
  <2>8. clock < (last[key] - 1) + RetryAfter
    <3>1. (B + 1) * Window = (B - 1) * Window + 2 * Window
      <4> HIDE DEF B
      <4> QED BY <2>1, <2>2
    <3>2. (B - 1) * Window \in Int /\ (B + 1) * Window \in Int /\ 2 * Window \in Int
      <4> HIDE DEF B
      <4> QED BY <2>1, <2>2
    <3> HIDE DEF B
    <3> QED BY <2>2, <2>6, <2>7, <3>1, <3>2 DEF RetryAfter
  <2> QED BY <2>4, <2>5, <2>8
<1> QED BY <1>1, LimiterInvariant, PTL

\* Every bucket, client and proxy list of the limiter is one the code can be in, at any
\* time, for any window, limit and chain of proxies.
THEOREM LimiterTypes == LimiterSpec => []LimiterTypeOK
<1>1. LInv => LimiterTypeOK
  BY DEF LInv
<1> QED BY <1>1, LimiterInvariant, PTL
=============================================================================
