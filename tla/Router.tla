------------------------------- MODULE Router -------------------------------
(***************************************************************************)
(* The way of a request through the middlewares of SetupRouter             *)
(* (internal/api/handler.go): body limit, CORS, rate limiter,              *)
(* authentication, handler, and back through the metrics and the request   *)
(* log.  Each middleware reads the configuration when its turn comes, and  *)
(* a reload replaces it whole, at any moment.                              *)
(*                                                                         *)
(* The rate limiter is RateLimiter's, with its clients, buckets and time;  *)
(* its limit is that of the configuration here.  The handler is any        *)
(* answer a handler may write.                                             *)
(***************************************************************************)
EXTENDS RateLimiter, FiniteSets

CONSTANTS
  Configs,   \* configurations: [limit, maxBody, origins, basic, bearer]; origins
             \* is empty with CORS disabled, "*" stands for all of them
             \* basic is None unless user name and password are both set
  Calls      \* requests: [route, method, ip, origin, cred, size]; size is that of
             \* the body its handler reads (0 if none), cred None without one

ASSUME RouterAssumption ==
  /\ IsFiniteSet(Requests)
  /\ Limits = {c.limit : c \in Configs}
  /\ \A c \in Configs : c.maxBody \in Nat
  /\ \A k \in Calls : k.ip \in IPs /\ k.size \in Nat

VARIABLES
  config,   \* config.Manager's configuration
  at,       \* which middleware serves the request
  call,     \* the request
  maxBody,  \* what MaxBytesReader lets it read
  sent,     \* the status the client got: the first one written, or 0
  status,   \* statusWriter.status: the last one written
  since,    \* configurations in force since the request came; for the properties
  books     \* answers sent less answers counted, per status; for the properties

chain == <<at, call, maxBody, sent, status, since, books>>
routerVars == <<limiterVars, config, chain>>

Statuses == {200, 204, 400, 401, 404, 405, 409, 423, 429, 500, 503}

RouterInit ==
  /\ LimiterInit
  /\ config \in Configs /\ config.limit = limit
  /\ at = [r \in Requests |-> "none"]
  /\ call = [r \in Requests |-> None]
  /\ maxBody = [r \in Requests |-> 0]
  /\ sent = [r \in Requests |-> 0]
  /\ status = [r \in Requests |-> 0]
  /\ since = [r \in Requests |-> {}]
  /\ books = [s \in Statuses |-> 0]

-----------------------------------------------------------------------------
(* On the way in.                                                          *)

\* MaxBodySize reads its limit.
Arrive(r, k) ==
  /\ at[r] = "none"
  /\ at' = [at EXCEPT ![r] = "headers"]
  /\ call' = [call EXCEPT ![r] = k]
  /\ maxBody' = [maxBody EXCEPT ![r] = config.maxBody]
  /\ since' = [since EXCEPT ![r] = {config}]
  /\ UNCHANGED <<limiterVars, config, sent, status, books>>

Preflight(k) == k.method = "OPTIONS" /\ ({k.origin, "*"} \cap config.origins # {})

\* The request is over, and its place is free.
Leave(r) ==
  /\ at' = [at EXCEPT ![r] = "none"]
  /\ call' = [call EXCEPT ![r] = None]
  /\ maxBody' = [maxBody EXCEPT ![r] = 0]
  /\ sent' = [sent EXCEPT ![r] = 0]
  /\ status' = [status EXCEPT ![r] = 0]
  /\ since' = [since EXCEPT ![r] = {}]

\* SecurityHeaders answers a preflight 204 by itself, before log and metrics.
SecurityHeaders(r) ==
  /\ at[r] = "headers"
  /\ IF Preflight(call[r])
       THEN Leave(r)
       ELSE at' = [at EXCEPT ![r] = "limiter"] /\ UNCHANGED <<call, maxBody, sent, status, since>>
  /\ UNCHANGED <<limiterVars, config, books>>

\* The limiter's own steps, up to Allow.
Limit(r) ==
  /\ at[r] = "limiter"
  /\ Read(r, call[r].ip) \/ GetLimiter(r)
  /\ UNCHANGED <<config, chain>>

\* WriteHeader: the client gets the first status, statusWriter keeps the last.
\* /metrics goes past the statusWriter of the metrics.
WriteHeader(r, s) ==
  /\ status' = [status EXCEPT ![r] = s]
  /\ sent' = [sent EXCEPT ![r] = IF @ = 0 THEN s ELSE @]
  /\ books' = IF sent[r] = 0 /\ call[r].route # "metrics" THEN [books EXCEPT ![s] = @ + 1] ELSE books

\* A middleware or the handler answers, and the request turns back.
Answer(r, s) ==
  /\ WriteHeader(r, s)
  /\ at' = [at EXCEPT ![r] = "answered"]

PassOn(r, next) ==
  /\ at' = [at EXCEPT ![r] = next]
  /\ UNCHANGED <<sent, status, books>>

\* Auth is used for /state only.
AfterLimiter(r) == IF call[r].route = "state" THEN "auth" ELSE "handler"

\* Variant: the return after http.Error is missing.
AdmitAnyway(r) ==
  /\ at[r] = "limiter"
  /\ Allow(r)
  /\ IF clients[requests[r].ip].tokens >= 1
       THEN PassOn(r, AfterLimiter(r))
       ELSE WriteHeader(r, 429) /\ at' = [at EXCEPT ![r] = AfterLimiter(r)]
  /\ UNCHANGED <<config, call, maxBody, since>>

\* Variant: the bucket is looked at, and no token is taken.
AdmitForFree(r) ==
  /\ at[r] = "limiter" /\ requests[r] # None /\ requests[r].at = "Allow"
  /\ IF clients[requests[r].ip].tokens >= 1
       THEN PassOn(r, AfterLimiter(r))
       ELSE Answer(r, 429)
  /\ requests' = [requests EXCEPT ![r] = None]
  /\ UNCHANGED <<limit, limiter, most, least, config, call, maxBody, since>>

\* limiter.Allow(): on to the router, or 429.
Admit(r) ==
  /\ at[r] = "limiter"
  /\ Allow(r)
  /\ IF clients[requests[r].ip].tokens >= 1
       THEN PassOn(r, AfterLimiter(r))
       ELSE Answer(r, 429)
  /\ UNCHANGED <<config, call, maxBody, since>>

\* Variant: || for &&.
AcceptedUnlessBoth(k) ==
  \/ config.basic = None \/ config.bearer = {}
  \/ k.cred # None /\ k.cred \in {config.basic} \cup config.bearer

\* No authentication is configured, or the credentials are among those that are.
Accepted(k) ==
  \/ config.basic = None /\ config.bearer = {}
  \/ k.cred # None /\ k.cred \in {config.basic} \cup config.bearer

Auth(r) ==
  /\ at[r] = "auth"
  /\ IF Accepted(call[r]) THEN PassOn(r, "handler") ELSE Answer(r, 401)
  /\ UNCHANGED <<limiterVars, config, call, maxBody, since>>

-----------------------------------------------------------------------------
(* The handler, and the way out.                                           *)

\* What the handlers of /state write.  Any of them answers 400 to an empty {workspace},
\* those that read a body to a read that fails, and LOCK and UNLOCK to what is not JSON.
StateOutcomes ==
  [GET |-> {200, 400, 404, 500}, POST |-> {200, 400, 500}, DELETE |-> {200, 400, 500},
   LOCK |-> {200, 400, 423, 500}, UNLOCK |-> {200, 400, 409, 500}]

\* The methods that chi knows for a route; /metrics takes any.
Routed(k) ==
  \/ k.route = "metrics"
  \/ k.route = "healthz" /\ k.method = "GET"
  \/ k.route = "state" /\ k.method \in DOMAIN StateOutcomes

\* Variant: the limit of the body is not looked at.
OutcomesOfAnyBody(r) == IF Routed(call[r]) THEN {200, 500} ELSE {405}

\* Other methods are refused, and so is a body above its limit.
Outcomes(r) ==
  LET k == call[r]
  IN  IF ~Routed(k) THEN {405}
      ELSE IF k.size > maxBody[r] THEN {400}
      ELSE IF k.route = "state" THEN StateOutcomes[k.method]
      ELSE IF k.route = "healthz" THEN {200, 503} ELSE {200, 500}

Handle(r) ==
  /\ at[r] = "handler"
  /\ \E s \in Outcomes(r) : Answer(r, s)
  /\ UNCHANGED <<limiterVars, config, call, maxBody, since>>

\* Metrics, after next: requests_total of the status it has seen, 200 if none.
Count(r) ==
  IF call[r].route = "metrics" THEN books
  ELSE [books EXCEPT ![IF status[r] = 0 THEN 200 ELSE status[r]] = @ - 1]

\* And RequestLogger after that; then the response is complete.
Log(r) ==
  /\ at[r] = "answered"
  /\ books' = Count(r)
  /\ Leave(r)
  /\ UNCHANGED <<limiterVars, config>>

-----------------------------------------------------------------------------
\* config.Manager.Update swaps the pointer: the limit and all else at once.
Update(c) ==
  /\ c # config
  /\ config' = c /\ limit' = c.limit
  /\ since' = [r \in Requests |-> IF at[r] = "none" THEN {} ELSE since[r] \cup {c}]
  /\ UNCHANGED <<limiter, requests, most, least, at, call, maxBody, sent, status, books>>

Serve(r) ==
  \/ SecurityHeaders(r) \/ Limit(r) \/ Admit(r) \/ Auth(r) \/ Handle(r) \/ Log(r)

RouterNext ==
  \/ \E r \in Requests, k \in Calls : Arrive(r, k)
  \/ \E r \in Requests : Serve(r)
  \/ \E c \in Configs : Update(c)
  \/ (Cleanup \/ Tick) /\ UNCHANGED <<config, chain>>

RouterSpec == RouterInit /\ [][RouterNext]_routerVars

\* Requests go on; that time passes is not needed.
RouterFairness == \A r \in Requests : WF_routerVars(Serve(r))

FairRouterSpec == RouterSpec /\ RouterFairness

-----------------------------------------------------------------------------
\* The chain uses the rate limiter as it is meant to be used: what holds of it
\* alone (LimiterInv) holds of it in the server, with the limit of each reload.
Limited == LimiterSpec

Names(c, k) == k.cred \in {c.basic} \cup c.bearer

Open(c) == c.basic = None /\ c.bearer = {}

\* However reloads fall between the middlewares, a request is in its handler only
\* if a configuration in force since it came knows its credentials, or knows none
\* at all.
ServedByRules ==
  \A r \in Requests :
    at[r] = "handler" /\ call[r].route = "state"
      => \E c \in since[r] : Open(c) \/ (call[r].cred # None /\ Names(c, call[r]))

\* And its body is taken only if one of them allows the size.
TakenByRules ==
  \A r \in Requests :
    status[r] = 200 => \E c \in since[r] : call[r].size <= c.maxBody

\* The books balance: every status a client gets is counted once, as that status,
\* except what never meets the metrics (preflights, /metrics).
Uncounted(s) == {r \in Requests : sent[r] = s /\ call[r].route # "metrics"}

Balanced == \A s \in Statuses : books[s] = Cardinality(Uncounted(s))

\* Credentials that stay out of the configuration, while some are in it, are
\* eventually served no more.
RevocationSettles ==
  \A k \in Calls :
    <>[](~Open(config) /\ ~Names(config, k))
      => <>[](\A r \in Requests : at[r] = "handler" /\ call[r].route = "state" => call[r].cred # k.cred)
-----------------------------------------------------------------------------
(* What is proved by induction over the steps.                             *)

RouterTypeOK ==
  /\ config \in Configs
  /\ at \in [Requests -> {"none", "headers", "limiter", "auth", "handler", "answered"}]
  /\ call \in [Requests -> Calls \cup {None}]
  /\ maxBody \in [Requests -> Nat]
  /\ sent \in [Requests -> Statuses \cup {0}]
  /\ status \in [Requests -> Statuses \cup {0}]
  /\ books \in [Statuses -> Int]
  /\ since \in [Requests -> SUBSET Configs]

\* A request in the chain has seen the configuration in force, its body limit is
\* that of one it has seen, and it has one status, that of its answer, which is
\* both sent and logged.
Tracked ==
  \A r \in Requests :
    /\ at[r] # "none" =>
         /\ call[r] \in Calls /\ config \in since[r]
         /\ \E c \in since[r] : maxBody[r] = c.maxBody
    /\ status[r] # 0 <=> at[r] = "answered"
    /\ sent[r] = status[r]

RouterInv == RouterTypeOK /\ Tracked /\ ServedByRules /\ TakenByRules
=============================================================================
