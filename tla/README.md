# Verification of pgstate-gateway

TLA+ models of pgstate-gateway, a Terraform / OpenTofu HTTP state backend on
PostgreSQL, with TLC runs on small instances and TLAPS proofs for all instances.
The reference is the code under `src/`; `PROJECT.json` maps each definition to its
lines.

## 1. The system

One process (`tf-http-backend serve`) answers `GET`, `POST`, `DELETE`, `LOCK` and
`UNLOCK` on `/state/{workspace}`. It keeps nothing between requests but counters,
configuration and rate-limiter buckets: states and locks live in two tables.
Several processes may share a database.

| Part | State | Operations | Source |
|---|---|---|---|
| HTTP handlers | none; one goroutine per request | GetState, PostState, DeleteState, LockState, UnlockState, Healthz | `internal/api/handler.go` |
| Services | none | Update takes the serial from the body; the others delegate | `internal/service` |
| Repositories | tables `states`, `locks` | one SQL statement per method, no transaction over two | `internal/repository/postgres` |
| Connection pool | at most `MaxConns` connections | acquire for the time of one query, release, close | `db.go`, pgxpool |
| Server process | signal channel of size 1, listeners, pool | start-up, reload on SIGHUP, shutdown on SIGTERM/SIGINT | `cmd/tf-http-backend/main.go` |
| Configuration | one pointer under a RWMutex | Get, Update; Load reads file and environment | `internal/config/config.go` |
| Logger | `logLevelVar` | Init, SetLevel | `internal/logger/logger.go` |
| Rate limiter | map address -> bucket, `currentLimit`, one mutex | getLimiter, Allow, cleanupLoop | `internal/middleware/rate_limit.go` |
| Other middleware | none of its own; each reads the configuration | 30 s deadline, body limit, security headers and CORS, request log, metrics, authentication | `internal/middleware` |
| Health check, database metrics | a pool connection each while they ask | Healthz, DBCollector.Collect | `handler.go`, `internal/metrics` |
| pprof server | a listener on localhost | profiles; shut down last | `main.go` |
| Migrations | the schema | `migrate up`, `migrate down` | `runMigrate`, `src/migrations` |

How they interact: the server process builds the router; a request passes the
middlewares, which each read the configuration when they run, then a handler, which
calls one repository method, or two for a `LOCK` or `UNLOCK` that misses. Each
method takes a pool connection for itself. A reload replaces the configuration
pointer under running requests. Shutdown stops the listeners, waits for requests
for ten seconds, then closes the pool.

What is hard here:

* **Concurrency in the database.** The tables are the only place where requests
  (and processes) meet, and each statement commits on its own. `LOCK` and `UNLOCK`
  answer from two statements that others can separate.
* **Abandoned statements.** The request context ends after 30 s or when the client
  leaves. pgx then breaks the connection; the server may still run the statement,
  later or never, while the client already retries.
* **A bounded pool** from which some handlers need a second connection.
* **Clients that vanish, retry and come back.**
* **Reload and shutdown** driven by signals through a one-place channel, with one
  deadline for two servers and a pool that closes in a deferred call.
* **Limits read before a mutex and applied under it**, and buckets that are dropped.
* **One request, several readings of the configuration**: body limit, CORS, rate limit and
  credentials are each looked up when their middleware runs, with reloads in between.

What makes each part correct:

* handlers: a request takes effect at most once and wholly, and its answer tells the
  truth about that effect (a 500 or no answer says nothing);
* clients on the gateway: mutual exclusion, and a lock that is held is not taken away;
* pool: no request waits for connections that only other waiting requests could free;
* process: a reload takes effect as a whole, the pool outlives the requests,
  a shutdown ends;
* rate limiter: eviction and retuning neither give nor take tokens, and the limit in
  force comes to apply;
* middleware chain: whatever a request meets was in force while it was there, revoked
  credentials stop being served, and what is counted is what was sent.

## 2. Modules

```
Api ── Backend                      abstract: atomic, at most once
  └─── Gateway ── MCGateway         handlers, pool, tables
         │  └──── GatewayProofs ── RefinementProofs ── ObserversProofs
         ├─ Observers ── MCObservers     + health checks and scrapes on the pool
         └─ Workflow ── MCWorkflow ── Authorship
            │  └─────── WorkflowProofs (on RefinementProofs, too) ── LockProofs
            └─ WorkspaceLock        abstract: one lock per workspace
Server ── MCServer                  process, signals, configuration, log level
  └────── ServerProofs
RateLimiter ── MCRateLimiter        buckets, eviction, retuning
  │  └──────── RateLimiterProofs
  └─ Router ── MCRouter             the middleware chain around the limiter
       └────── RouterProofs
```

**Api**: requests, responses, and the row a posted body becomes. A body is abstracted to
whether JSONB takes it, to the value it reads back as, and to its `serial`, which need not
decode into an int64 (the error is ignored and the serial is 0).

**Backend**: the promise. A request in progress takes its effect in one step, at most
once, before or after it is answered; it may look at the lock in a later step. A 200
or 404 requires the matching effect, a 409 or 423 a miss; a 500 or a lost connection
allows any outcome.

**Gateway**: one slot per request. `pc` is the handler (`idle`, `queued` for a
connection, `waiting` for a result, `replied`, `dropped` by a crash); `query` is the
repository method it runs, by the name the code's metric uses; `stmt` and `row` are
its statement and what that returned. The handler and its statement are separate:
`QueryError` ends the handler with 500 (or the bare 423/409 of the second query) at
any time and leaves `stmt = "sent"`, and `Execute` or `Fail` may then settle it long
after. `Enter` and `Refuse` begin a request (`Refuse` is an empty workspace, for any method, a
body that cannot be read, or lock JSON that does not decode), `Acquire` takes a connection, `Receive` goes on after a result, `LookUpHolder`
is the second query, `Crash` kills the process. Several processes on one database are
covered for the tables; `MaxConns` and `Crash` are those of one process.

**Workflow**: Terraform clients on the gateway, modelled from
`test/terraform/main.tf` and `test/integration_test.go`: lock with a new ID, use the
state, unlock, with time-outs, retries under the same ID, and giving up at any point.
They are external. Two assumptions matter: a run takes a lock ID that nobody uses, sends or
left in the table (a new UUID), and nobody unlocks with an ID that is not its own. `StateOps`
are the methods used on a state. The variable `astray` is only read by properties: the IDs of runs
that may leave a lock behind, because a LOCK of theirs was not answered 200 or 423, or because
the run ended without a 200 to its UNLOCK.

**WorkspaceLock**: what the clients may rely on, with no handlers, statements or lock IDs in it.
A lock is free or taken and has one owner at most; a client holds a lock only while it owns
it; nobody but the owner gives it back, and not before it means to. The abstraction also says what
is *not* promised: an owner that quits leaves the lock taken, a LOCK sent twice may be granted
after the UNLOCK (`Grant` while unlocking), and requests of finished runs may take a free lock or free
one without an owner (`Leftover`). Workflow is mapped onto it by `takenRows` (the rows of `locks`) and
`rowOwners` (the clients whose own ID is in the row).

**Authorship**: Workflow with a history variable: under which lock ID each request was sent.

**Observers**: Gateway with health checks (`Healthz`) and scrapes (`DBCollector.Collect`) that
take connections from the same pool: `Observe`, `Ask`, `Report`, and `GiveUp` for their
deadlines of 5 s and 2 s. What they report is left out; nothing reads it. `WithinLimit` is
`poolConfig.MaxConns` for both kinds of connection.

**Server**: `runServer`. `Boot`, `Connect` and `Listen` start it, with the failures of
configuration, database, certificate cache and port; `Load` gives the defaults for a file
that is missing unless `--config` named it; `Kill` sends a signal
(dropped if the channel is full, fatal before `signal.Notify`, which comes once the pool is
there, and so in the deferred calls after a failed `NewDB`, too); `CatchReload`, `Reload` and
`SetLevel` are the reload, in three steps because requests and signals come between;
`CatchStop` (with or without the redirector of HTTPS), `StopRedirector`, `Expire`, `StopServer`,
`ClosePool`, `PoolClosed` and `StopPprof` are the
shutdown. Requests are reduced to handling or querying, and the pprof server to whether a
profile is under way. `Edit` and `Migrate` are the
operator. The variable `asked` is only read by properties.

**RateLimiter**: `Read` (the configuration's limit, before the mutex), `GetLimiter` (all
of `getLimiter`, under it), `Allow` (after it), `Cleanup`, `Reload` and `Tick`. The buckets
of golang.org/x/time/rate are external: a limit of n per minute with a burst of n, refilled
at each tick by `n div Minute`. `most` and `least` are two ideal buckets per address that are
never dropped: `most` has the highest limit for good, `least` is retuned with the others. Only
properties read them.

**Router**: the chain of `SetupRouter`, one variable `at` per request: `Arrive` (`MaxBodySize` reads its
limit), `SecurityHeaders` (CORS preflight), `Limit` and `Admit` (the limiter, whose steps are
RateLimiter's), `Auth`, `Handle`, `Log` (metrics, then request log). A handler is any answer it may
write; `Outcomes` lists them per route and method (answers to paths without a route, 404, are
left out). `Update` replaces the configuration at any moment.
`status` is `statusWriter.status`, the last one written, and `sent` the first, which the client gets.
`since` and `books` are read by properties only: the configurations a request has seen in force, and
answers sent less answers counted.

## 3. Runs

| Run | Bounds | Shows |
|---|---|---|
| Gateway | 2 slots, 1 workspace, 2 lock IDs, 3 bodies (good, undecodable serial, not JSON), 2 connections | `Promised`: Gateway implements Backend; `TypeOK`; `Coherent` |
| Observers | 2 slots, 2 observers, 1 connection | `Answered`: no circular wait for connections, and none lost to health checks and scrapes |
| Workflow | 2 clients, 2 slots, 3 lock IDs, POST and DELETE of the state | `LockPromised`: clients, gateway and tables implement WorkspaceLock; `MutualExclusion`, `HolderKeepsRow`, `NothingLeft`, `OwnConflict`, `WritesUnderLock`, `WorkflowInv` |
| Server | 2 requests, 3 configurations (one with an unknown level), a file that may be missing or unreadable | `ServerInv`, `LevelFollowsConfig`, `ReloadIsPending`, `PoolOutlivesRequests`, `StopCompletes`, `ReloadHappens` |
| RateLimiter | 2 addresses, 2 requests, limits 0, 1 and 2 a minute, ticks of a minute, eviction after 3 ticks | `Uniform`, `NoExtraTokens`, `NoStolenTokens`, `LimiterInv`, `LimitSettles`, `Forgotten` |
| Router | 1 address, 2 requests, 2 configurations with other limits, body sizes, credentials and CORS, 3 calls | `Limited`: the chain implements RateLimiter; `RouterInv`, `ServedByRules`, `TakenByRules`, `Balanced`, `RevocationSettles` |

Six runs end in a violation, each of a sentence of the repository:

| Run | The repository says | The code does |
|---|---|---|
| GatewayConflict | README.md:15: a 423 returns the existing lock's metadata | 423 without it, though no query fails, if the lock is released between the `INSERT` and the second query |
| Authorship | README.md:15: the lock prevents state conflicts | `PostState` never looks at the lock: a POST abandoned by an earlier holder is saved under the next one's lock |
| ServerTerm | main.go:260: the loop catches SIGINT/SIGTERM | a SIGTERM is dropped while a SIGHUP fills the channel |
| ServerClean | main.go:293: "Server shutdown completed cleanly." | also logged after "Server shutdown failed" |
| ServerSchema | README.md:21: migrations run at start-up | `runServer` runs none |
| RateLimiterStale | rate_limit.go:72: the limit is updated if it "has changed from configuration" | a request that read the limit before a reload sets a bucket that has the new limit back to the old one |

`ConflictNamesHolder`, `OnlyHolderWrites`, `TermIsCaught`, `CleanlyMeansClean`,
`StartMigrates` and `UpdatesFollowConfig` are these sentences; they are not expected to hold.

**Why the bounds are enough.** Requests meet only in single rows, so one workspace shows
every interference: no statement reads or writes two rows. Two slots are two concurrent requests,
or one and a statement left by another; a slot is reused once its statement settled, so
sequences of any length occur. The hazard of a late statement needs one abandoned and one
live request. Three lock IDs let both clients be active while an ID of an earlier run is
still in a row or a statement. There the clients send no GET, which changes no table and
occupies a slot as a POST does; DELETE is needed, so that a state changes again and again with
one body. (Gateway has all five methods.) In Server the channel's size is the code's; three
configurations suffice to have a valid change and an invalid level. In RateLimiter
three limits give a raise, a cut and a bucket that never refills; two requests are one that is stale and one
that is not. Three ticks before eviction instead of five are enough for a bucket of 2 a minute to be full again before it
is dropped, and leave room for a request that is slow to ask its bucket (the proofs cover five, and any number from two on). In
Router one address suffices, since buckets of other addresses take no part in a request
(RateLimiter has two); the two configurations differ in all that the middlewares read, and no
credentials are good in both (a configuration without any is left to the proof of `ServedTheorem`). In Observers one connection is the smallest pool, where waiting is
worst. The proofs below remove these bounds for the safety properties.

Symmetry is used in safety runs only (slots, lock IDs, clients), where the
specification and properties treat the values alike. Workflow has a `VIEW`, too: it leaves out whether a
lock ID is in `astray` that no client, row or pending LOCK has. Such an ID returns by `StartLock`
only, which takes it out of `astray`, and no property looks at it, so states that differ there only
behave alike.

No deadlock is found in any run, and `CHECK_DEADLOCK` is left on.

Bounds inside the models: `Slots` bounds requests in flight together with their abandoned
statements; `FiveMinutes + 1` caps a bucket's age, which beyond it makes no
difference; `Tick` assumes that a request gets from `getLimiter` to `Allow` within four
minutes (there is nothing between the two calls).

## 4. Fairness

* Observers (`ObservedFairness`): the database settles each statement a handler sent it (weak), a
  handler receives a result (weak), and a waiter gets a connection if one is free again and again
  (strong: pgxpool serves waiters in turn). Nothing is assumed of the 30 s deadline, so
  `Answered` does not hold merely because everything times out. The observers' own deadlines
  pass (weak, `GiveUp`); that the database answers them is not assumed. Without their
  deadlines, `Answered` fails.
* Server (`ServerFairness`): `runServer` goes on when it can, its deadlines pass, and queries end (they
  carry the request's 30 s). Handlers and profiles need not end, and the operator, clients and
  signals owe nothing. `StopCompletes` thus rests on the deadlines of ten and two seconds.
* RateLimiter (`LimiterFairness`): time passes, requests inside the middleware go on, and
  the cleaning goes on. That requests come at all is a premise of `LimitSettles`.
* Router (`RouterFairness`): requests in the chain go on. Time need not pass, nor reloads stop.

## 5. Proofs

All are checked by `tlapm` without assumptions other than the named ones on constants
(`ApiAssumption`, `NoneAssumption`, `GatewayAssumption`, `RateLimiterAssumption`,
`NoBucketAssumption`, `ServerAssumption`, `RouterAssumption`, `WorkflowAssumption`), which TLC evaluates in the runs.

* `GatewayInvariant` (GatewayProofs): `Spec => [](TypeOK /\ Coherent)`, one lemma per
  action. `TypeOK` is not inductive: what a handler answers depends on which query its
  result belongs to and on whether a reply can be there already. `Coherent` says so.
* `GatewayImplementsBackend` (RefinementProofs): `Spec => Promised`. The mapping shows a
  request in its second query as one that has missed, and a dropped handler as one without
  an answer. Statements that run map to the backend's effect, `LookUpHolder` and `Acquire`
  to stutters, `Receive` and `QueryError` to answers.
* `WorkflowInvariant` and from it `HolderKeepsRowTheorem` and `MutualExclusionTheorem`
  (WorkflowProofs). Mutual exclusion follows from `HolderKeepsRow` and `OwnIDs`: two holders
  would both have their own ID in the one row. `HolderKeepsRow` is not inductive. It needs
  `NoStrayUnlock` (no UNLOCK with a holder's ID exists anywhere, not even an abandoned
  one), `GrantsStand` (a LOCK that took the row, or read its own ID in the second query, still finds it)
  and `TrueAnswers` (a 200 to a LOCK means that it took the row, to an UNLOCK that it removed it, and a
  423 comes from the second query only).
* `NothingLeftTheorem`: how much a lost answer can leave behind. It needs `Awaited` (of a run that is
  not astray, only the LOCK its client waits for can still take a row) and `CleanRows` (such a run has
  the row from its answer on and until its UNLOCK removes it), which are parts of the same invariant.
  Without the premise on the answers the property is false; that is the late `LOCK` of section 6.
* `OwnConflictTheorem`: a client that is refused with its own ID has the lock, so that it could go
  on; from `GrantsStand`, since the second query has shown the row.
* `WritesTheorem`: an action property. Of the steps of the gateway only `UpsertState` and
  `DeleteStateRow` change a state, and the client that waits for one of them holds the lock and its row
  is there. It says nothing of requests that nobody waits for, and cannot: Authorship is the counterexample.
* `WorkflowImplementsGateway`, `WorkflowKeepsPromise`: the clients only restrict when `Enter` and
  `Finish` happen, so every theorem about Gateway holds with them.
* `WorkflowImplementsLock` (LockProofs): `WorkflowSpec => LockPromised`. `LockMoves` finds that only a
  LOCK on a free row or an UNLOCK with the row's ID moves a lock; `TakeMaps` and `FreeMaps` say whose grant or
  release that is, or that it is a leftover, with `NoStrayUnlock` excluding a release under a holder. A
  200 to a LOCK maps to `Hold`, whose condition is `GrantsStand`. `PromiseGivesMutualExclusion` then derives
  mutual exclusion from the abstract specification alone, by its own invariant `Exclusive`.
* `RateLimiterInvariant`, `NoExtraTokensTheorem`, `NoStolenTokensTheorem`
  (RateLimiterProofs), for all limits and durations. `NoExtraTokens` is not inductive: that an
  evicted bucket was full needs `Resting`, which bounds the ideal bucket by the time the
  bucket has rested, and says that nobody is about to ask a bucket that can be dropped.
  `NoStolenTokens` needs only the type invariant and `Uniform`: a new bucket is full, and
  the rest of the buckets are retuned and refilled as `least` is.
* `RateLimiterInvariant` gives `UniformTheorem`, too. A limit of 0 is included.
* `ServerInvariant` (ServerProofs) and from it `LevelTheorem`, `ReloadTheorem` and `PoolTheorem`.
  `PoolOutlivesRequests` is not inductive: `StagesInOrder` adds that the loop runs with an open pool, that nobody arrives once Shutdown has
  begun and that its condition still holds when the deferred calls run. `LevelFollowsConfig` needs
  `LevelInForce`, which follows the level through the stages between `Update` and `SetLevel`.
* `RouterInvariant` and from it `ServedTheorem` and `TakenTheorem` (RouterProofs), for any
  configurations and calls. `Tracked` adds that a request has seen the configuration in force and took its body
  limit from one it has seen. `RouterImplementsLimiter` shows that each step of the chain is a step of the limiter
  or none: requests bring their own address, and `Update` is a reload or changes no limit.
  `RouterKeepsLimiterInv` carries the limiter's invariant over.
* `BalancedTheorem`: the answers sent with a status exceed those counted under it by the requests answered so and still in
  the chain, so each is counted once and as what was sent. Each step that answers or counts a request moves one element of `Uncounted`, a set whose cardinality is tracked by
  the library's facts on adding and removing an element; `Requests` must be finite for that.
* `ObservedImplementsGateway` and `ObservedKeepsPromise` (ObserversProofs): with observers
  the gateway does nothing that it does not do alone.

Every safety and action property of the passing runs is a theorem. Only model-checked is liveness (`Answered`,
`StopCompletes`, `ReloadHappens`, `LimitSettles`, `Forgotten`, `RevocationSettles`), since fairness and ENABLED are
outside the prover's reach.

## 6. Not modelled

* The values of the security headers, request IDs, latencies and the wording of the request log; `Router`
  has who is logged and counted, and as what. The values a scrape reports, and the metrics of single queries: nothing
  reads them. Two sentences of README.md (33, 34) have no counterpart in the code and need no run: no
  record carries `log_type: "audit"`, and `lock_count` is one number, not one per workspace.
* The redirector's answers: a fixed 301 per request. Its part in the shutdown is in Server.
* Redaction in the logger, parsing in viper, TLS and autocert, golang-migrate, pgx and
  net/http internals: formatting or third-party code.
* PostgreSQL beyond one atomic statement per row. Replication and failover are not considered.
* The lock's other columns (`Operation`, `Who`, `Info`, `Version`, `Created`): stored and returned
  with the ID, decided on nowhere.
* Two facts of the code that no document denies: a `LOCK` left in the database can
  create a lock after its client unlocked and left, and a retried `LOCK` whose 200 was lost is
  answered 423 with its own ID. Both behaviours are in Workflow, where `NothingLeft` says when the first cannot
  happen and `OwnConflict` what the second tells the client.

## 7. Possible extensions

All parts of the system that keep state are modelled. What could be added:

1. An abstract life cycle for Server (starting, serving, draining, closed), as WorkspaceLock is one for the
   lock, and its refinement.
2. The schema as a variable of Gateway, so that Server's `Migrate` and the handlers meet. Today a missing
   table is one of the causes of `Fail`, which leads to the same 500.

## 8. Running

`tlc -config Gateway.cfg MCGateway`, and likewise for the runs in `PROJECT.json`;
`tlapm GatewayProofs.tla` for the proofs (and the other modules named `...Proofs`). The operators marked "Variant" are plausible mistakes in
the definition that follows them; each property of the passing runs is violated by the one
`PROJECT.json` lists for it.
