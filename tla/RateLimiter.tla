---------------------------- MODULE RateLimiter ----------------------------
(***************************************************************************)
(* The rate limiter (internal/middleware/rate_limit.go): a token bucket    *)
(* per client address, made when the address comes, thrown away when it    *)
(* has been idle for five minutes, and retuned when a request brings a     *)
(* limit that differs from the last one.  The limit a request brings is    *)
(* the one it read from the configuration before it took the mutex, so it  *)
(* may be older than the one in force.                                     *)
(*                                                                         *)
(* The buckets are golang.org/x/time/rate's: a limit of n per minute and a *)
(* burst of n.  Time advances in ticks; a bucket refills at each tick by   *)
(* what the tick is worth.                                                 *)
(***************************************************************************)
EXTENDS Integers

CONSTANTS
  IPs,         \* client addresses, as getIP returns them
  Requests,    \* requests in the middleware at a time
  Limits,      \* values of security.rate_limit
  Highest,     \* the largest of them
  Minute,      \* ticks in a minute
  FiveMinutes, \* ticks after which cleanupLoop drops an address
  None         \* no bucket, no request

ASSUME RateLimiterAssumption ==
  /\ Minute \in Nat \ {0}
  /\ FiveMinutes \in Nat /\ FiveMinutes >= 2 * Minute
  /\ Highest \in Limits
  /\ \A l \in Limits : l \in Nat /\ l % Minute = 0 /\ l <= Highest

VARIABLES
  limit,         \* RateLimit of the configuration in force
  currentLimit,  \* IPRateLimiter.currentLimit
  clients,       \* IPRateLimiter.clients: address -> bucket, or None
  requests,      \* request -> where it is, from which address, with which limit
  most,          \* what is left in a bucket of the highest limit that is never
                 \* dropped; only the properties read it
  least          \* what is left in one that is never dropped, but retuned with the rest

limiter == <<currentLimit, clients>>
limiterVars == <<limit, currentLimit, clients, requests, most, least>>

Buckets == [limit : Limits, tokens : 0 .. Highest, idle : 0 .. FiveMinutes + 1]

RequestStates == [at : {"getLimiter", "Allow"}, ip : IPs, limit : Limits]

ASSUME NoBucketAssumption == None \notin Buckets /\ None \notin RequestStates

LimiterTypeOK ==
  /\ limit \in Limits /\ currentLimit \in Limits
  /\ clients \in [IPs -> Buckets \cup {None}]
  /\ requests \in [Requests -> RequestStates \cup {None}]
  /\ most \in [IPs -> 0 .. Highest]
  /\ least \in [IPs -> 0 .. Highest]

LimiterInit ==
  /\ limit \in Limits
  /\ currentLimit = limit
  /\ clients = [i \in IPs |-> None]
  /\ requests = [r \in Requests |-> None]
  /\ most = [i \in IPs |-> Highest]
  /\ least = [i \in IPs |-> limit]

-----------------------------------------------------------------------------
(* Token buckets (golang.org/x/time/rate).                                 *)

Least(m, n) == IF m <= n THEN m ELSE n

Refilled(tokens, l) == Least(tokens + l \div Minute, l)

Spent(tokens) == IF tokens >= 1 THEN tokens - 1 ELSE 0

\* Variant: a bucket that is empty at first.
EmptyBucket(l) == [limit |-> l, tokens |-> 0, idle |-> 0]

\* rate.NewLimiter: full.
NewBucket(l) == [limit |-> l, tokens |-> l, idle |-> 0]

\* SetLimit and SetBurst: what exceeds the new burst is gone by the next look.
Retuned(b, l) == [b EXCEPT !.limit = l, !.tokens = Least(@, l)]

-----------------------------------------------------------------------------
\* Handler: mgr.Get() and getIP.
Read(r, i) ==
  /\ requests[r] = None
  /\ requests' = [requests EXCEPT ![r] = [at |-> "getLimiter", ip |-> i, limit |-> limit]]
  /\ UNCHANGED <<limit, limiter, most, least>>

\* Variant: only a higher limit counts as a change.
Raised(l) == currentLimit < l

Changed(l) == currentLimit # l

\* Variant: only new buckets get the new limit.
NoneRetuned(l) == clients

\* A changed limit goes to every bucket.
AllRetuned(l) ==
  [i \in IPs |-> IF clients[i] # None /\ Changed(l) THEN Retuned(clients[i], l) ELSE clients[i]]

\* Variant: lastSeen is set when the bucket is made, and never again.
NotSeen(b) == b

Seen(b) == [b EXCEPT !.idle = 0]

\* The whole of getLimiter, under the mutex.
GetLimiter(r) ==
  /\ requests[r] # None
  /\ requests[r].at = "getLimiter"
  /\ LET i == requests[r].ip
         l == requests[r].limit
     IN  /\ currentLimit' = IF Changed(l) THEN l ELSE currentLimit
         /\ clients' = [AllRetuned(l) EXCEPT ![i] = IF @ = None THEN NewBucket(l) ELSE Seen(@)]
  /\ requests' = [requests EXCEPT ![r].at = "Allow"]
  /\ least' = [i \in IPs |-> Least(least[i], currentLimit')]
  /\ UNCHANGED <<limit, most>>

\* limiter.Allow(), after the mutex was given back: the request goes on or is
\* answered 429.
Allow(r) ==
  /\ requests[r] # None
  /\ requests[r].at = "Allow"
  /\ LET i == requests[r].ip
     IN  /\ clients[i] # None
         /\ clients' = [clients EXCEPT ![i].tokens = Spent(@)]
         /\ most' = [most EXCEPT ![i] = IF clients[i].tokens >= 1 THEN Spent(@) ELSE @]
         /\ least' = [least EXCEPT ![i] = Spent(@)]
  /\ requests' = [requests EXCEPT ![r] = None]
  /\ UNCHANGED <<limit, currentLimit>>

\* Variant: the comparison is the wrong way round.
SeenLately(b) == b.idle < FiveMinutes

Stale(b) == b.idle > FiveMinutes

\* cleanupLoop, once a minute, at any phase.
Cleanup ==
  /\ \E i \in IPs : clients[i] # None /\ Stale(clients[i])
  /\ clients' = [i \in IPs |-> IF clients[i] # None /\ Stale(clients[i]) THEN None ELSE clients[i]]
  /\ UNCHANGED <<limit, currentLimit, requests, most, least>>

\* config.Manager.Update with another limit.
Reload ==
  /\ limit' \in Limits \ {limit}
  /\ UNCHANGED <<limiter, requests, most, least>>

FourMinutes == FiveMinutes - Minute

\* A request has the bucket of address i and will ask it.
Asked(i) == \E r \in Requests : requests[r] # None /\ requests[r].at = "Allow" /\ requests[r].ip = i

\* A bucket one tick later; beyond five minutes its age makes no difference.
Aged(b) == [b EXCEPT !.tokens = Refilled(@, b.limit), !.idle = Least(@ + 1, FiveMinutes + 1)]

\* Time passes.  A request that has its bucket asks it within four minutes: there
\* is nothing between the two calls.
Tick ==
  /\ \A i \in IPs : Asked(i) /\ clients[i] # None => clients[i].idle < FourMinutes
  /\ clients' = [i \in IPs |-> IF clients[i] = None THEN None ELSE Aged(clients[i])]
  /\ most' = [i \in IPs |-> Least(most[i] + Highest \div Minute, Highest)]
  /\ least' = [i \in IPs |-> Least(least[i] + currentLimit \div Minute, currentLimit)]
  /\ UNCHANGED <<limit, currentLimit, requests>>

LimiterNext ==
  \/ \E r \in Requests, i \in IPs : Read(r, i)
  \/ \E r \in Requests : GetLimiter(r) \/ Allow(r)
  \/ Cleanup \/ Reload \/ Tick

LimiterSpec == LimiterInit /\ [][LimiterNext]_limiterVars

\* Time passes, requests go through the middleware, the cleaning goes on.
LimiterFairness ==
  /\ \A r \in Requests : WF_limiterVars(GetLimiter(r)) /\ WF_limiterVars(Allow(r))
  /\ WF_limiterVars(Cleanup) /\ WF_limiterVars(Tick)

FairLimiterSpec == LimiterSpec /\ LimiterFairness

-----------------------------------------------------------------------------
\* One limit for everybody: requests with different limits may retune the buckets
\* to and fro, but never leave two addresses under different limits, nor one with
\* more than its burst.
Uniform ==
  \A i \in IPs : clients[i] # None =>
    clients[i].limit = currentLimit /\ clients[i].tokens <= currentLimit

\* No address gains by what happens to its bucket: dropping it, making it anew and
\* retuning it to and fro admits no request that a bucket of the highest limit,
\* never dropped, would have refused.
NoExtraTokens ==
  \A i \in IPs : IF clients[i] = None THEN most[i] = Highest ELSE clients[i].tokens <= most[i]

\* And none loses by it: a request is admitted that a bucket would have admitted which
\* was never dropped and lost, when the limit changed, what exceeded the new burst.
\* After a limit of 0 it has what the next limit has given since.
NoStolenTokens == \A i \in IPs : clients[i] # None => clients[i].tokens >= least[i]

\* A bucket is asked only while it is kept, and one that nobody has asked for a
\* while has refilled by as much: when it is dropped it is full.
Resting ==
  \A i \in IPs :
    /\ Asked(i) => clients[i] # None /\ clients[i].idle <= FourMinutes
    /\ clients[i] # None =>
         most[i] >= Least((clients[i].idle - FourMinutes) * (Highest \div Minute), Highest)

\* What is proved by induction over the steps.
LimiterInv == LimiterTypeOK /\ Uniform /\ NoExtraTokens /\ NoStolenTokens /\ Resting

\* Requests that read an old limit may bring it back for a while; but once the
\* configuration stays and requests go on coming, its limit is the one applied.
LimitSettles ==
  <>[][FALSE]_limit /\ []<>(\E r \in Requests : requests[r] # None)
    => <>[](currentLimit = limit)

\* The table of addresses does not grow for ever: one that stays away is dropped.
Forgotten ==
  \A i \in IPs :
    clients[i] # None /\ clients[i].idle > 0 ~> clients[i] = None \/ clients[i].idle = 0

\* A bucket that has the limit of the configuration keeps it until a reload ("If rate
\* limit has changed from configuration, update it", getLimiter).
UpdatesFollowConfig ==
  [][\A i \in IPs :
       clients[i] # None /\ clients[i].limit = limit /\ clients'[i] # None
         => clients'[i].limit = limit]_limiterVars
=============================================================================
