------------------------- MODULE RateLimiterProofs -------------------------
(***************************************************************************)
(* Proofs about RateLimiter, for any addresses, requests, limits and       *)
(* durations.                                                              *)
(***************************************************************************)
EXTENDS RateLimiter, TLAPS

USE RateLimiterAssumption, NoBucketAssumption DEF FourMinutes

\* What a tick adds is a natural number, and most for the highest limit.
LEMMA Shares == \A l \in Limits : l \div Minute \in Nat
  OBVIOUS

LEMMA SharesGrow ==
  \A l \in Limits : l \div Minute <= Highest \div Minute
  OBVIOUS

\* A bucket that is left alone for a minute is full.
LEMMA MinuteFills == (Highest \div Minute) * Minute = Highest
  OBVIOUS

\* One more tick of rest is worth one more share.
LEMMA OneMoreShare == \A m \in Int, n \in Nat : (m + 1) * n = m * n + n
  OBVIOUS

\* The lesser of two numbers is one of them, and not above either.
LEMMA LeastFacts ==
  \A m, n \in Int : Least(m, n) \in {m, n} /\ Least(m, n) <= m /\ Least(m, n) <= n
  BY DEF Least

\* The start: no bucket is made yet.
LEMMA InitInv == LimiterInit => LimiterInv
  BY DEF LimiterInit, LimiterInv, LimiterTypeOK, Uniform, NoExtraTokens, NoStolenTokens,
         Resting, Asked, Buckets, RequestStates

\* Reading the configuration moves nobody into Allow.
LEMMA ReadInv ==
  ASSUME LimiterInv, NEW r \in Requests, NEW i \in IPs, Read(r, i)
  PROVE  LimiterInv'
<1>1. LimiterTypeOK'
  BY DEF LimiterInv, LimiterTypeOK, Read, limiter, RequestStates
<1>2. \A j \in IPs : Asked(j)' => Asked(j)
  BY DEF LimiterInv, LimiterTypeOK, Read, Asked, RequestStates
<1>3. QED
  BY <1>1, <1>2 DEF LimiterInv, Read, limiter, Uniform, NoExtraTokens, NoStolenTokens, Resting

\* A reload changes nothing until a request brings the new limit.
LEMMA ReloadInv == ASSUME LimiterInv, Reload PROVE LimiterInv'
  BY DEF LimiterInv, LimiterTypeOK, Reload, limiter, Uniform, NoExtraTokens, NoStolenTokens,
         Resting, Asked

\* A bucket that cleanupLoop may drop is full, and nobody is about to ask it.
LEMMA DroppedIsFull ==
  ASSUME LimiterInv, NEW i \in IPs, clients[i] # None, Stale(clients[i])
  PROVE  most[i] = Highest /\ ~ Asked(i)
<1>1. clients[i].idle = FiveMinutes + 1
  <2>1. clients[i] \in Buckets
    BY DEF LimiterInv, LimiterTypeOK
  <2>2. clients[i].idle \in 0 .. FiveMinutes + 1
    BY <2>1 DEF Buckets
  <2>3. QED
    BY <2>2 DEF Stale
<1>2. (clients[i].idle - FourMinutes) * (Highest \div Minute) >= Highest
  <2>1. clients[i].idle - FourMinutes = Minute + 1
    BY <1>1
  <2>2. (Minute + 1) * (Highest \div Minute) = Minute * (Highest \div Minute) + Highest \div Minute
    BY OneMoreShare, Shares
  <2>3. Minute * (Highest \div Minute) = Highest /\ Highest \div Minute \in Nat
    BY Shares, MinuteFills
  <2>4. (Minute + 1) * (Highest \div Minute) >= Highest
    <3> HIDE RateLimiterAssumption
    <3>1. Highest \in Nat
      BY RateLimiterAssumption
    <3>2. QED
      BY <2>2, <2>3, <3>1
  <2>5. QED
    BY <2>1, <2>4
<1>3. most[i] >= Highest
  <2>1. PICK p \in Int : p = (clients[i].idle - FourMinutes) * (Highest \div Minute)
    BY <1>1, Shares
  <2>2. most[i] >= Least(p, Highest)
    BY <2>1 DEF LimiterInv, Resting
  <2>3. Least(p, Highest) = Highest
    BY <1>2, <2>1 DEF Least
  <2>4. QED
    BY <2>2, <2>3
<1>4. QED
  BY <1>1, <1>3 DEF LimiterInv, LimiterTypeOK, Resting

\* Cleaning drops only such buckets.
LEMMA CleanupInv == ASSUME LimiterInv, Cleanup PROVE LimiterInv'
<1>1. LimiterTypeOK'
  BY DEF LimiterInv, LimiterTypeOK, Cleanup
<1>2. ASSUME NEW i \in IPs, clients[i] # None, Stale(clients[i])
      PROVE  most[i] = Highest /\ ~ Asked(i)
  BY <1>2, DroppedIsFull
<1>3. ASSUME NEW i \in IPs PROVE clients'[i] = clients[i] \/ clients'[i] = None
  BY DEF Cleanup
<1>4. \A i \in IPs : Asked(i)' => Asked(i)
  BY DEF Cleanup, Asked
<1>5. Uniform' /\ NoStolenTokens'
  BY <1>3 DEF Cleanup, LimiterInv, Uniform, NoStolenTokens
<1>6. NoExtraTokens'
  BY <1>2 DEF Cleanup, LimiterInv, LimiterTypeOK, NoExtraTokens
<1>7. Resting'
  BY <1>2, <1>3, <1>4 DEF Cleanup, LimiterInv, LimiterTypeOK, Resting
<1>8. QED
  BY <1>1, <1>5, <1>6, <1>7 DEF LimiterInv

\* Where there was no rest yet, nothing is asked of the ideal bucket.
LEMMA NoRest == \A k \in Int : k <= 0 => Least(k * (Highest \div Minute), Highest) <= 0
<1>1. \A k \in Int, n \in Nat : k <= 0 => k * n \in Int /\ k * n <= 0
  OBVIOUS
<1>2. QED
  BY <1>1, Shares DEF Least

\* Retuning leaves a bucket no more than it had, and no less than a poorer one.
LEMMA RetunedFacts ==
  ASSUME NEW b \in Buckets, NEW l \in Limits, NEW n \in 0 .. Highest, b.tokens >= n
  PROVE  LET c == Retuned(b, l)
         IN  /\ c \in Buckets /\ c.limit = l /\ c.idle = b.idle
             /\ c.tokens <= l /\ c.tokens <= b.tokens /\ c.tokens >= Least(n, l)
<1>1. b.tokens \in 0 .. Highest
  BY DEF Buckets
<1>2. Least(b.tokens, l) \in 0 .. Highest /\ Least(b.tokens, l) <= l
      /\ Least(b.tokens, l) <= b.tokens /\ Least(b.tokens, l) >= Least(n, l)
  <2>1. l \in Nat /\ n \in Nat /\ Highest \in Nat /\ l <= Highest
    OBVIOUS
  <2>2. QED
    BY <1>1, <2>1 DEF Least
<1>3. Retuned(b, l) \in Buckets
  BY <1>2 DEF Retuned, Buckets
<1>4. /\ Retuned(b, l).limit = l
      /\ Retuned(b, l).tokens = Least(b.tokens, l)
      /\ Retuned(b, l).idle = b.idle
  BY DEF Retuned, Buckets
<1>5. QED
  BY <1>2, <1>3, <1>4

\* Under the mutex: one limit for all, the caller's bucket made or touched.
LEMMA GetLimiterInv == ASSUME LimiterInv, NEW r \in Requests, GetLimiter(r) PROVE LimiterInv'
<1> DEFINE i == requests[r].ip
           l == requests[r].limit
<1>1. i \in IPs /\ l \in Limits
  BY DEF GetLimiter, LimiterInv, LimiterTypeOK, RequestStates
<1>2. currentLimit' = l
  BY DEF GetLimiter, Changed
<1>3. ASSUME NEW j \in IPs, clients[j] # None
      PROVE  /\ clients'[j] \in Buckets
             /\ clients'[j].limit = l
             /\ clients'[j].tokens <= l
             /\ clients'[j].tokens <= clients[j].tokens
             /\ clients'[j].tokens >= Least(least[j], l)
             /\ clients'[j].idle = IF j = i THEN 0 ELSE clients[j].idle
  <2>1. /\ clients[j] \in Buckets
        /\ clients[j].limit = currentLimit
        /\ clients[j].tokens <= currentLimit
        /\ clients[j].tokens >= least[j]
        /\ least[j] \in 0 .. Highest
    BY <1>3 DEF LimiterInv, LimiterTypeOK, Uniform, NoStolenTokens
  <2> DEFINE b == IF Changed(l) THEN Retuned(clients[j], l) ELSE clients[j]
  <2>2. b \in Buckets /\ b.limit = l /\ b.tokens <= l /\ b.tokens <= clients[j].tokens
        /\ b.tokens >= Least(least[j], l) /\ b.idle = clients[j].idle
    <3>1. CASE Changed(l)
      BY <1>1, <2>1, <3>1, RetunedFacts
    <3>2. CASE ~ Changed(l)
      BY <2>1, <3>2 DEF Changed, Buckets, Least
    <3>3. QED
      BY <3>1, <3>2
  <2>3. b # None
    BY <2>2
  <2>4. clients'[j] = IF j = i THEN Seen(b) ELSE b
    BY <1>1, <1>3, <2>3 DEF GetLimiter, AllRetuned
  <2> HIDE DEF b
  <2>5. QED
    BY <2>2, <2>4 DEF Seen, Buckets
<1>4. ASSUME NEW j \in IPs, clients[j] = None
      PROVE  clients'[j] = IF j = i THEN NewBucket(l) ELSE None
  BY <1>1, <1>4 DEF GetLimiter, AllRetuned
<1>5. NewBucket(l) \in Buckets
  BY <1>1 DEF NewBucket, Buckets
<1>6. \A j \in IPs : clients'[j] # None <=> clients[j] # None \/ j = i
  BY <1>3, <1>4, <1>5
<1>7. \A j \in IPs : Asked(j)' => Asked(j) \/ j = i
  BY DEF GetLimiter, Asked, LimiterInv, LimiterTypeOK, RequestStates
<1>8. \A j \in IPs : least'[j] = Least(least[j], l) /\ least'[j] \in 0 .. Highest /\ least'[j] <= l
  <2>1. \A j \in IPs : least'[j] = Least(least[j], l) /\ least[j] \in 0 .. Highest
    BY <1>2 DEF GetLimiter, LimiterInv, LimiterTypeOK
  <2>2. l \in Nat /\ Highest \in Nat
    BY <1>1
  <2> HIDE DEF l
  <2>3. QED
    BY <2>1, <2>2 DEF Least
<1>9. LimiterTypeOK'
  <2>1. \A j \in IPs : clients'[j] \in Buckets \cup {None}
    BY <1>3, <1>4, <1>5
  <2>2. clients' \in [IPs -> Buckets \cup {None}] /\ least' \in [IPs -> 0 .. Highest]
    BY <1>8, <2>1 DEF GetLimiter, AllRetuned
  <2>3. QED
    BY <1>1, <1>2, <2>2 DEF GetLimiter, LimiterInv, LimiterTypeOK, RequestStates
<1>10. Uniform'
  BY <1>1, <1>2, <1>3, <1>4 DEF Uniform, NewBucket
<1>11. NoExtraTokens'
  BY <1>1, <1>3, <1>4, <1>5 DEF GetLimiter, LimiterInv, LimiterTypeOK, NoExtraTokens, NewBucket, Buckets
<1>12. NoStolenTokens'
  BY <1>1, <1>3, <1>4, <1>8 DEF NoStolenTokens, NewBucket
<1>13. Resting'
  <2>1. ASSUME NEW j \in IPs, clients'[j] # None, j = i
        PROVE  clients'[j].idle = 0
    BY <1>3, <1>4, <2>1 DEF NewBucket
  <2>2. Least((0 - FourMinutes) * (Highest \div Minute), Highest) <= 0
    BY NoRest
  <2>3. \A j \in IPs : most'[j] = most[j] /\ most[j] \in Int /\ most[j] >= 0
    BY DEF GetLimiter, LimiterInv, LimiterTypeOK
  <2> HIDE DEF i, l
  <2>4. ASSUME NEW j \in IPs
        PROVE  Asked(j)' => clients'[j] # None /\ clients'[j].idle <= FourMinutes
    <3>1. CASE j = i
      BY <1>6, <2>1, <3>1
    <3>2. CASE j # i
      BY <1>3, <1>6, <1>7, <3>2 DEF LimiterInv, Resting
    <3>3. QED
      BY <3>1, <3>2
  <2>5. ASSUME NEW j \in IPs, clients'[j] # None
        PROVE  most'[j] >= Least((clients'[j].idle - FourMinutes) * (Highest \div Minute), Highest)
    <3>1. CASE j = i
      BY <2>1, <2>2, <2>3, <2>5, <3>1 DEF Least
    <3>2. CASE j # i
      BY <1>3, <1>6, <2>3, <2>5, <3>2 DEF LimiterInv, Resting
    <3>3. QED
      BY <3>1, <3>2
  <2>6. QED
    BY <2>4, <2>5 DEF Resting
<1>14. QED
  BY <1>9, <1>10, <1>11, <1>12, <1>13 DEF LimiterInv

\* A request takes a token, or finds none.
LEMMA AllowInv == ASSUME LimiterInv, NEW r \in Requests, Allow(r) PROVE LimiterInv'
<1> DEFINE i == requests[r].ip
<1>1. i \in IPs /\ Asked(i) /\ clients[i] # None
  BY DEF Allow, Asked, LimiterInv, LimiterTypeOK, RequestStates
<1>2. /\ clients[i] \in Buckets /\ clients[i].tokens \in 0 .. Highest
      /\ most[i] \in 0 .. Highest /\ least[i] \in 0 .. Highest
      /\ clients[i].limit = currentLimit /\ clients[i].tokens <= currentLimit
      /\ clients[i].tokens <= most[i] /\ clients[i].tokens >= least[i]
      /\ clients[i].idle <= FourMinutes /\ clients[i].idle \in Int
  BY <1>1 DEF LimiterInv, LimiterTypeOK, Buckets, Uniform, NoExtraTokens, NoStolenTokens, Resting
<1> HIDE DEF i
<1>3. /\ clients' = [clients EXCEPT ![i].tokens = Spent(@)]
      /\ most' = [most EXCEPT ![i] = IF clients[i].tokens >= 1 THEN Spent(@) ELSE @]
      /\ least' = [least EXCEPT ![i] = Spent(@)]
      /\ requests' = [requests EXCEPT ![r] = None]
      /\ UNCHANGED <<limit, currentLimit>>
  BY DEF Allow, i
<1>4. /\ clients'[i] = [clients[i] EXCEPT !.tokens = Spent(@)]
      /\ most'[i] = (IF clients[i].tokens >= 1 THEN Spent(most[i]) ELSE most[i])
      /\ least'[i] = Spent(least[i])
  BY <1>1, <1>3 DEF LimiterInv, LimiterTypeOK
<1>5. /\ Spent(clients[i].tokens) \in 0 .. Highest
      /\ Spent(clients[i].tokens) <= clients[i].tokens
      /\ most'[i] \in 0 .. Highest /\ least'[i] \in 0 .. Highest
      /\ Spent(clients[i].tokens) <= most'[i]
      /\ Spent(clients[i].tokens) >= least'[i]
  BY <1>2, <1>4 DEF Spent
<1>6. /\ clients'[i] \in Buckets /\ clients'[i] # None
      /\ clients'[i].tokens = Spent(clients[i].tokens)
      /\ clients'[i].limit = clients[i].limit /\ clients'[i].idle = clients[i].idle
  BY <1>2, <1>4, <1>5 DEF Buckets
<1>7. \A j \in IPs : j # i => clients'[j] = clients[j] /\ most'[j] = most[j] /\ least'[j] = least[j]
  BY <1>3 DEF LimiterInv, LimiterTypeOK
<1>8. \A j \in IPs : Asked(j)' => Asked(j)
  BY <1>3 DEF Asked, LimiterInv, LimiterTypeOK
<1>9. LimiterTypeOK'
  <2>1. \A j \in IPs : /\ clients'[j] \in Buckets \cup {None}
                       /\ most'[j] \in 0 .. Highest /\ least'[j] \in 0 .. Highest
    BY <1>5, <1>6, <1>7 DEF LimiterInv, LimiterTypeOK
  <2>2. clients' \in [IPs -> Buckets \cup {None}] /\ most' \in [IPs -> 0 .. Highest]
        /\ least' \in [IPs -> 0 .. Highest]
    BY <2>1, <1>3 DEF LimiterInv, LimiterTypeOK
  <2>3. QED
    BY <2>2, <1>3 DEF LimiterInv, LimiterTypeOK
<1>10. Uniform'
  <2>1. clients'[i].limit = currentLimit' /\ clients'[i].tokens <= currentLimit'
    <3>1. currentLimit' = currentLimit /\ currentLimit \in Nat
      BY <1>3 DEF LimiterInv, LimiterTypeOK
    <3>2. QED
      BY <1>2, <1>5, <1>6, <3>1
  <2>2. QED
    BY <1>3, <1>7, <2>1 DEF LimiterInv, Uniform
<1>11. NoExtraTokens'
  BY <1>5, <1>6, <1>7 DEF LimiterInv, NoExtraTokens
<1>12. NoStolenTokens'
  BY <1>5, <1>6, <1>7 DEF LimiterInv, NoStolenTokens
<1>13. Resting'
  <2>1. Least((clients[i].idle - FourMinutes) * (Highest \div Minute), Highest) <= 0
    BY <1>2, NoRest
  <2>2. most'[i] >= Least((clients[i].idle - FourMinutes) * (Highest \div Minute), Highest)
    <3>1. PICK p \in Int : p = (clients[i].idle - FourMinutes) * (Highest \div Minute)
      BY <1>2, Shares
    <3>2. QED
      BY <1>5, <2>1, <3>1 DEF Least
  <2>3. QED
    BY <1>1, <1>6, <1>7, <1>8, <2>2 DEF LimiterInv, Resting
<1>14. QED
  BY <1>9, <1>10, <1>11, <1>12, <1>13 DEF LimiterInv

\* Refilling keeps the order of buckets of one limit, and of one with the highest.
LEMMA RefilledFacts ==
  ASSUME NEW l \in Limits, NEW t \in Nat, t <= l
  PROVE  /\ Refilled(t, l) \in 0 .. l
         /\ \A n \in 0 .. Highest : n <= t => Least(n + l \div Minute, l) <= Refilled(t, l)
         /\ \A n \in 0 .. Highest : t <= n => Refilled(t, l) <= Least(n + Highest \div Minute, Highest)
<1>1. l \div Minute \in Nat /\ Highest \div Minute \in Nat /\ l \div Minute <= Highest \div Minute
  BY Shares, SharesGrow
<1>2. l \in Nat /\ Highest \in Nat /\ l <= Highest
  OBVIOUS
<1> DEFINE b == l \div Minute
           c == Highest \div Minute
<1>3. b \in Nat /\ c \in Nat /\ b <= c
  BY <1>1
<1>4. Refilled(t, l) = Least(t + b, l)
  BY DEF Refilled
<1> HIDE RateLimiterAssumption DEF b, c
<1>5. Least(t + b, l) \in 0 .. l
  BY <1>2, <1>3 DEF Least
<1>6. \A n \in 0 .. Highest : n <= t => Least(n + b, l) <= Least(t + b, l)
  BY <1>2, <1>3 DEF Least
<1>7. \A n \in 0 .. Highest : t <= n => Least(t + b, l) <= Least(n + c, Highest)
  BY <1>2, <1>3 DEF Least
<1>8. QED
  BY <1>4, <1>5, <1>6, <1>7 DEF b, c

\* A tick of rest adds a share to what the ideal bucket is known to hold.
LEMMA TickInv == ASSUME LimiterInv, Tick PROVE LimiterInv'
<1> DEFINE share == Highest \div Minute
<1>1. \A i \in IPs : /\ clients'[i] = IF clients[i] = None THEN None ELSE Aged(clients[i])
                     /\ most'[i] = Least(most[i] + share, Highest)
                     /\ least'[i] = Least(least[i] + currentLimit \div Minute, currentLimit)
  BY DEF Tick
<1>2. share \in Nat /\ Highest \in Nat /\ currentLimit \in 0 .. Highest
      /\ currentLimit \div Minute \in Nat
  BY Shares DEF LimiterInv, LimiterTypeOK
<1> HIDE DEF share
<1>3. \A i \in IPs : most[i] \in 0 .. Highest /\ least[i] \in 0 .. Highest
  BY DEF LimiterInv, LimiterTypeOK
<1>4. \A i \in IPs : most'[i] \in 0 .. Highest /\ most'[i] >= most[i] /\ least'[i] \in 0 .. Highest
  BY <1>1, <1>2, <1>3 DEF Least
<1>5. ASSUME NEW i \in IPs, clients[i] # None
      PROVE  /\ clients'[i] \in Buckets /\ clients'[i] # None
             /\ clients'[i].limit = clients[i].limit
             /\ clients'[i].tokens <= clients[i].limit
             /\ clients'[i].tokens <= most'[i]
             /\ clients'[i].tokens >= least'[i]
             /\ clients'[i].idle = Least(clients[i].idle + 1, FiveMinutes + 1)
  <2> DEFINE b == clients[i]
  <2>1. /\ b \in Buckets /\ b.limit \in Limits /\ b.limit = currentLimit /\ b.tokens \in Nat /\ b.tokens <= b.limit
        /\ b.idle \in 0 .. FiveMinutes + 1
        /\ b.tokens <= most[i] /\ b.tokens >= least[i]
    BY <1>5 DEF LimiterInv, LimiterTypeOK, Buckets, Uniform, NoExtraTokens, NoStolenTokens
  <2>2. clients'[i] = Aged(b)
    BY <1>1, <1>5
  <2> HIDE DEF b
  <2>3. /\ Refilled(b.tokens, b.limit) \in 0 .. b.limit
        /\ Least(least[i] + b.limit \div Minute, b.limit) <= Refilled(b.tokens, b.limit)
        /\ Refilled(b.tokens, b.limit) <= Least(most[i] + Highest \div Minute, Highest)
    BY <2>1, <1>3, RefilledFacts
  <2>4. Refilled(b.tokens, b.limit) \in 0 .. Highest
    BY <2>1, <2>3
  <2>5. Least(b.idle + 1, FiveMinutes + 1) \in 0 .. FiveMinutes + 1
    BY <2>1 DEF Least
  <2>6. Aged(b) \in Buckets
    BY <2>1, <2>4, <2>5 DEF Aged, Buckets
  <2>7. /\ Aged(b).limit = b.limit
        /\ Aged(b).tokens = Refilled(b.tokens, b.limit)
        /\ Aged(b).idle = Least(b.idle + 1, FiveMinutes + 1)
    BY <2>1 DEF Aged, Buckets
  <2>8. Refilled(b.tokens, b.limit) <= b.limit
    BY <2>1, <2>3
  <2>9. QED
    BY <1>1, <2>1, <2>2, <2>3, <2>6, <2>7, <2>8 DEF b, share
<1>6. \A i \in IPs : clients[i] = None => clients'[i] = None /\ most'[i] = Highest
  <2>1. ASSUME NEW i \in IPs, clients[i] = None
        PROVE  clients'[i] = None /\ most'[i] = Highest
    <3>1. most[i] = Highest
      BY <2>1 DEF LimiterInv, NoExtraTokens
    <3>2. Least(Highest + share, Highest) = Highest
      BY <1>2 DEF Least
    <3>3. QED
      BY <1>1, <2>1, <3>1, <3>2
  <2>2. QED
    BY <2>1
<1>7. \A i \in IPs : Asked(i)' <=> Asked(i)
  BY DEF Tick, Asked
<1>8. LimiterTypeOK'
  <2>1. \A i \in IPs : clients'[i] \in Buckets \cup {None}
    BY <1>5, <1>6
  <2>2. clients' \in [IPs -> Buckets \cup {None}] /\ most' \in [IPs -> 0 .. Highest]
        /\ least' \in [IPs -> 0 .. Highest]
    BY <2>1, <1>4 DEF Tick
  <2>3. QED
    BY <2>2 DEF Tick, LimiterInv, LimiterTypeOK
<1>9. Uniform'
  BY <1>5, <1>6 DEF Tick, LimiterInv, Uniform
<1>10. NoExtraTokens'
  BY <1>5, <1>6 DEF LimiterInv, NoExtraTokens
<1>11. NoStolenTokens'
  BY <1>5, <1>6 DEF LimiterInv, NoStolenTokens
<1>12. Resting'
  <2>1. ASSUME NEW i \in IPs, Asked(i)
        PROVE  clients'[i] # None /\ clients'[i].idle <= FourMinutes
    <3>1. clients[i] # None /\ clients[i].idle < FourMinutes /\ clients[i] \in Buckets
      BY <2>1 DEF Tick, LimiterInv, LimiterTypeOK, Resting
    <3>2. clients[i].idle \in 0 .. FiveMinutes + 1
      BY <3>1 DEF Buckets
    <3>3. Least(clients[i].idle + 1, FiveMinutes + 1) <= FourMinutes
      BY <3>1, <3>2 DEF Least
    <3>4. QED
      BY <1>5, <3>1, <3>3
  <2>2. ASSUME NEW i \in IPs, clients[i] # None
        PROVE  most'[i] >= Least((clients'[i].idle - FourMinutes) * share, Highest)
    <3>1. clients[i].idle \in 0 .. FiveMinutes + 1
      BY <2>2 DEF LimiterInv, LimiterTypeOK, Buckets
    <3> DEFINE k == clients[i].idle - FourMinutes
    <3>2. k \in Int /\ k * share \in Int /\ (k + 1) * share \in Int
          /\ (k + 1) * share = k * share + share
      BY <3>1, <1>2, OneMoreShare
    <3>3. most[i] >= Least(k * share, Highest)
      BY <2>2 DEF LimiterInv, Resting, share
    <3>4. CASE Stale(clients[i])
      <4>1. most'[i] = Highest
        <5>1. most[i] = Highest
          BY <2>2, <3>4, DroppedIsFull
        <5>2. QED
          BY <1>2, <1>4, <5>1
      <4>2. PICK p \in Int : p = (clients'[i].idle - FourMinutes) * share
        <5>1. clients'[i].idle - FourMinutes \in Int
          BY <1>5, <2>2, <3>1 DEF Least
        <5>2. QED
          BY <5>1, <1>2
      <4>3. QED
        BY <1>2, <4>1, <4>2 DEF Least
    <3>5. CASE ~ Stale(clients[i])
      <4>1. clients'[i].idle = clients[i].idle + 1
        BY <1>5, <2>2, <3>1, <3>5 DEF Least, Stale
      <4>2. clients'[i].idle - FourMinutes = k + 1
        BY <3>1, <4>1
      <4>3. PICK p \in Int : p = k * share
        BY <3>2
      <4>4. (k + 1) * share = p + share
        BY <3>2, <4>3
      <4>5. most[i] >= Least(p, Highest) /\ most'[i] = Least(most[i] + share, Highest)
        BY <1>1, <3>3, <4>3
      <4>6. most'[i] >= Least(p + share, Highest)
        BY <1>2, <1>3, <4>5 DEF Least
      <4>7. QED
        BY <4>2, <4>4, <4>6
    <3>6. QED
      BY <3>4, <3>5
  <2>3. QED
    BY <1>5, <1>6, <1>7, <2>1, <2>2 DEF Resting, share
<1>13. QED
  BY <1>8, <1>9, <1>10, <1>11, <1>12 DEF LimiterInv

\* Through reloads, stale limits, eviction and the passing of time, the buckets
\* stay between the two ideal ones and under one limit.
THEOREM RateLimiterInvariant == LimiterSpec => []LimiterInv
<1>1. LimiterInv /\ [LimiterNext]_limiterVars => LimiterInv'
  <2> SUFFICES ASSUME LimiterInv, [LimiterNext]_limiterVars PROVE LimiterInv'
    OBVIOUS
  <2>1. ASSUME NEW r \in Requests, NEW i \in IPs, Read(r, i) PROVE LimiterInv'
    BY <2>1, ReadInv
  <2>2. ASSUME NEW r \in Requests, GetLimiter(r) PROVE LimiterInv'
    BY <2>2, GetLimiterInv
  <2>3. ASSUME NEW r \in Requests, Allow(r) PROVE LimiterInv'
    BY <2>3, AllowInv
  <2>4. CASE Cleanup
    BY <2>4, CleanupInv
  <2>5. CASE Reload
    BY <2>5, ReloadInv
  <2>6. CASE Tick
    BY <2>6, TickInv
  <2>7. CASE UNCHANGED limiterVars
    BY <2>7 DEF limiterVars, limiter, LimiterInv, LimiterTypeOK, Uniform, NoExtraTokens,
                NoStolenTokens, Resting, Asked
  <2>8. QED
    BY <2>1, <2>2, <2>3, <2>4, <2>5, <2>6, <2>7 DEF LimiterNext
<1>2. QED
  BY <1>1, InitInv, PTL DEF LimiterSpec

\* No address gains by eviction or retuning (getLimiter and cleanupLoop).
THEOREM NoExtraTokensTheorem == LimiterSpec => []NoExtraTokens
<1>1. LimiterInv => NoExtraTokens
  BY DEF LimiterInv
<1>2. QED
  BY <1>1, RateLimiterInvariant, PTL

\* No address loses by them.
THEOREM NoStolenTokensTheorem == LimiterSpec => []NoStolenTokens
<1>1. LimiterInv => NoStolenTokens
  BY DEF LimiterInv
<1>2. QED
  BY <1>1, RateLimiterInvariant, PTL

\* Requests with different limits never leave two addresses under different ones.
THEOREM UniformTheorem == LimiterSpec => []Uniform
<1>1. LimiterInv => Uniform
  BY DEF LimiterInv
<1>2. QED
  BY <1>1, RateLimiterInvariant, PTL
=============================================================================
