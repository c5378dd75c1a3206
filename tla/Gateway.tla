------------------------------- MODULE Gateway -------------------------------
(***************************************************************************)
(* The request handlers of the gateway (internal/api/handler.go) on the    *)
(* services, the repositories and the two PostgreSQL tables below them.    *)
(*                                                                         *)
(* A slot is one request: the goroutine that serves it, its pool           *)
(* connection while it has one, and the SQL statement it sent.  The        *)
(* handler and its statement fail separately: a handler whose query        *)
(* returns an error (30 s deadline, client gone, connection broken)        *)
(* answers and goes away, and the statement it sent may still run in the   *)
(* database, later or never.  A slot is reused once its handler is gone    *)
(* and its statement is settled, so Slots bounds the requests in flight    *)
(* together with the statements they left behind.                          *)
(***************************************************************************)
EXTENDS Api, FiniteSets

CONSTANT MaxConns   \* poolConfig.MaxConns

VARIABLES
  locks,    \* table locks: workspace -> lock_id, or None
  states,   \* table states: workspace -> [state, serial], or None
  pc,       \* where the handler is
  call,     \* the request: method, {workspace}, lock ID, body
  query,    \* the repository method that runs (its DBQueryDuration label)
  stmt,     \* its statement: not sent, at the database, or how it ended
  row,      \* the row a SELECT returned
  reply     \* the response the handler wrote

tables == <<locks, states>>
gatewayVars == <<locks, states, pc, call, query, stmt, row, reply>>

-----------------------------------------------------------------------------
Queries == {"GetState", "UpdateState", "DeleteState",
            "AcquireLock", "ReleaseLock", "GetLock"}

ASSUME GatewayAssumption == MaxConns \in Nat \ {0} /\ None \notin Queries

\* The repository method each handler calls first.
FirstQuery == [GET |-> "GetState", POST |-> "UpdateState", DELETE |-> "DeleteState",
               LOCK |-> "AcquireLock", UNLOCK |-> "ReleaseLock"]

Settled == {"hit", "miss", "error"}

TypeOK ==
  /\ locks \in [Workspaces -> LockIDs \cup {None}]
  /\ states \in [Workspaces -> StateRows \cup {None}]
  /\ pc \in [Slots -> {"idle", "queued", "waiting", "replied", "dropped"}]
  /\ call \in [Slots -> Calls \cup {None}]
  /\ query \in [Slots -> Queries \cup {None}]
  /\ stmt \in [Slots -> {"none", "sent"} \cup Settled]
  /\ row \in [Slots -> LockIDs \cup Values \cup {None}]
  /\ reply \in [Slots -> Responses \cup {None}]

Init ==
  /\ locks = [w \in Workspaces |-> None]
  /\ states = [w \in Workspaces |-> None]
  /\ pc = [s \in Slots |-> "idle"]
  /\ call = [s \in Slots |-> None]
  /\ query = [s \in Slots |-> None]
  /\ stmt = [s \in Slots |-> "none"]
  /\ row = [s \in Slots |-> None]
  /\ reply = [s \in Slots |-> None]

-----------------------------------------------------------------------------
(* The handler, up to its first statement.                                 *)

\* Auth passed and the body was read: the handler waits for a connection.
Enter(s, c) ==
  /\ pc[s] = "idle"
  /\ pc' = [pc EXCEPT ![s] = "queued"]
  /\ call' = [call EXCEPT ![s] = c]
  /\ query' = [query EXCEPT ![s] = FirstQuery[c.op]]
  /\ UNCHANGED <<locks, states, stmt, row, reply>>

\* Variant: the return after http.Error is missing.
RefuseAndGoOn(s, c) ==
  /\ pc[s] = "idle"
  /\ pc' = [pc EXCEPT ![s] = "queued"]
  /\ call' = [call EXCEPT ![s] = c]
  /\ query' = [query EXCEPT ![s] = FirstQuery[c.op]]
  /\ reply' = [reply EXCEPT ![s] = BadRequest]
  /\ UNCHANGED <<locks, states, stmt, row>>

\* {workspace} is empty (any handler; call.ws then stands for no workspace), or the
\* body is too large, came too slowly or, for a lock, is not JSON.
Refuse(s, c) ==
  /\ pc[s] = "idle"
  /\ pc' = [pc EXCEPT ![s] = "replied"]
  /\ call' = [call EXCEPT ![s] = c]
  /\ reply' = [reply EXCEPT ![s] = BadRequest]
  /\ UNCHANGED <<locks, states, query, stmt, row>>

\* Variant: a handler keeps its first connection while it asks for a second.
HeldConnections ==
  {s \in Slots : pc[s] = "waiting" \/ (pc[s] = "queued" /\ query[s] = "GetLock")}

\* pgxpool hands out at most MaxConns connections, one per running query.
Connections == {s \in Slots : pc[s] = "waiting"}

Acquire(s) ==
  /\ pc[s] = "queued"
  /\ Cardinality(Connections) < MaxConns
  /\ pc' = [pc EXCEPT ![s] = "waiting"]
  /\ stmt' = [stmt EXCEPT ![s] = "sent"]
  /\ UNCHANGED <<locks, states, call, query, row, reply>>

-----------------------------------------------------------------------------
(* The database.  Each statement is a transaction of its own (autocommit,  *)
(* READ COMMITTED) and touches one row, so it is one step.                  *)

Settle(s, outcome, value) ==
  /\ stmt' = [stmt EXCEPT ![s] = outcome]
  /\ row' = [row EXCEPT ![s] = value]

SelectState(s) ==
  LET found == states[call[s].ws]
  IN  /\ query[s] = "GetState"
      /\ IF found = None THEN Settle(s, "miss", None) ELSE Settle(s, "hit", found.state)
      /\ UNCHANGED tables

\* INSERT ... ON CONFLICT DO UPDATE; JSONB refuses what is not JSON.
UpsertState(s) ==
  LET c == call[s]
  IN  /\ query[s] = "UpdateState"
      /\ c.body.json
      /\ states' = [states EXCEPT ![c.ws] = StateRow(c.body)]
      /\ Settle(s, "hit", None)
      /\ UNCHANGED locks

DeleteStateRow(s) ==
  /\ query[s] = "DeleteState"
  /\ states' = [states EXCEPT ![call[s].ws] = None]
  /\ Settle(s, "hit", None)
  /\ UNCHANGED locks

\* Variant: RowsAffected is not looked at.
InsertLockUnchecked(s) ==
  LET w == call[s].ws
  IN  /\ query[s] = "AcquireLock"
      /\ locks' = IF locks[w] = None THEN [locks EXCEPT ![w] = call[s].id] ELSE locks
      /\ Settle(s, "hit", None)
      /\ UNCHANGED states

\* Variant: ON CONFLICT DO UPDATE, as for the states.
UpsertLock(s) ==
  /\ query[s] = "AcquireLock"
  /\ locks' = [locks EXCEPT ![call[s].ws] = call[s].id]
  /\ Settle(s, "hit", None)
  /\ UNCHANGED states

\* Variant: RowsAffected() > 1.
InsertLockUnreported(s) ==
  LET w == call[s].ws
  IN  /\ query[s] = "AcquireLock"
      /\ locks' = IF locks[w] = None THEN [locks EXCEPT ![w] = call[s].id] ELSE locks
      /\ Settle(s, "miss", None)
      /\ UNCHANGED states

\* INSERT ... ON CONFLICT DO NOTHING: RowsAffected is 1 or 0.
InsertLock(s) ==
  LET w == call[s].ws
      free == locks[w] = None
  IN  /\ query[s] = "AcquireLock"
      /\ locks' = IF free THEN [locks EXCEPT ![w] = call[s].id] ELSE locks
      /\ Settle(s, IF free THEN "hit" ELSE "miss", None)
      /\ UNCHANGED states

\* Variant: DELETE ... WHERE workspace.
DeleteAnyLock(s) ==
  /\ query[s] = "ReleaseLock"
  /\ locks' = [locks EXCEPT ![call[s].ws] = None]
  /\ Settle(s, IF locks[call[s].ws] = None THEN "miss" ELSE "hit", None)
  /\ UNCHANGED states

\* DELETE ... WHERE workspace AND lock_id: RowsAffected is 1 or 0.
DeleteLock(s) ==
  LET w == call[s].ws
      matches == locks[w] = call[s].id
  IN  /\ query[s] = "ReleaseLock"
      /\ locks' = IF matches THEN [locks EXCEPT ![w] = None] ELSE locks
      /\ Settle(s, IF matches THEN "hit" ELSE "miss", None)
      /\ UNCHANGED states

SelectLock(s) ==
  LET holder == locks[call[s].ws]
  IN  /\ query[s] = "GetLock"
      /\ Settle(s, IF holder = None THEN "miss" ELSE "hit", holder)
      /\ UNCHANGED tables

\* The statement runs; whether its handler still waits makes no difference.
Execute(s) ==
  /\ stmt[s] = "sent"
  /\ \/ SelectState(s) \/ UpsertState(s) \/ DeleteStateRow(s)
     \/ InsertLock(s) \/ DeleteLock(s) \/ SelectLock(s)
  /\ UNCHANGED <<pc, call, query, reply>>

\* The database refuses the statement, or never gets to it.
Fail(s) ==
  /\ stmt[s] = "sent"
  /\ Settle(s, "error", None)
  /\ UNCHANGED <<locks, states, pc, call, query, reply>>

-----------------------------------------------------------------------------
(* The handler, from the result of a query on.                             *)

\* Variant: a LOCK that finds no holder any more is answered 200.
AnswerFreeAsGranted(s, outcome) ==
  CASE query[s] = "GetLock" /\ outcome = "miss" -> Response(200, None, None)
    [] query[s] = "GetLock" /\ outcome # "miss" -> Response(423, row[s], None)
    [] query[s] # "GetLock" /\ outcome = "error" -> ServerError
    [] query[s] # "GetLock" /\ outcome = "miss" -> Response(404, None, None)
    [] OTHER -> Response(200, None, row[s])

\* What each handler writes for the outcome of the query it waited for.
Answer(s, outcome) ==
  LET lock == IF outcome = "hit" THEN row[s] ELSE None
  IN  CASE query[s] = "GetLock" -> Response(IF call[s].op = "LOCK" THEN 423 ELSE 409, lock, None)
        [] query[s] # "GetLock" /\ outcome = "error" -> ServerError
        [] query[s] # "GetLock" /\ outcome = "miss" -> Response(404, None, None)
        [] OTHER -> Response(200, None, IF query[s] = "GetState" THEN row[s] ELSE None)

Respond(s, outcome) ==
  /\ pc' = [pc EXCEPT ![s] = "replied"]
  /\ reply' = [reply EXCEPT ![s] = Answer(s, outcome)]
  /\ UNCHANGED <<locks, states, call, query, stmt, row>>

\* !acquired and !released: a second query, on a connection of its own, asks
\* who holds the lock.
LookUpHolder(s) ==
  /\ pc' = [pc EXCEPT ![s] = "queued"]
  /\ query' = [query EXCEPT ![s] = "GetLock"]
  /\ stmt' = [stmt EXCEPT ![s] = "none"]
  /\ UNCHANGED <<locks, states, call, row, reply>>

\* The query returns and its connection goes back to the pool.
Receive(s) ==
  /\ pc[s] = "waiting"
  /\ stmt[s] \in Settled
  /\ IF stmt[s] = "miss" /\ query[s] \in {"AcquireLock", "ReleaseLock"}
       THEN LookUpHolder(s)
       ELSE Respond(s, stmt[s])

\* The query returns an error without the result: the 30 s deadline of the
\* request context, a client that left, a broken connection.  What was sent
\* is not taken back.
QueryError(s) ==
  /\ pc[s] \in {"queued", "waiting"}
  /\ Respond(s, "error")

Finish(s) ==
  /\ pc[s] \in {"replied", "dropped"}
  /\ stmt[s] # "sent"
  /\ pc' = [pc EXCEPT ![s] = "idle"]
  /\ call' = [call EXCEPT ![s] = None]
  /\ query' = [query EXCEPT ![s] = None]
  /\ stmt' = [stmt EXCEPT ![s] = "none"]
  /\ row' = [row EXCEPT ![s] = None]
  /\ reply' = [reply EXCEPT ![s] = None]
  /\ UNCHANGED tables

\* The process dies: its handlers answer nothing, the tables and what the
\* database was sent stay.
Crash ==
  /\ \E s \in Slots : pc[s] \in {"queued", "waiting"}
  /\ pc' = [s \in Slots |-> IF pc[s] \in {"queued", "waiting"} THEN "dropped" ELSE pc[s]]
  /\ UNCHANGED <<locks, states, call, query, stmt, row, reply>>

\* What happens to a request once it is in, whoever sent it.
Progress(s) ==
  Acquire(s) \/ Execute(s) \/ Fail(s) \/ Receive(s) \/ QueryError(s)

Next ==
  \/ \E s \in Slots, c \in Calls : Enter(s, c) \/ Refuse(s, c)
  \/ \E s \in Slots : Progress(s) \/ Finish(s)
  \/ Crash

Spec == Init /\ [][Next]_gatewayVars

-----------------------------------------------------------------------------
(* How the parts of a slot fit together: what the proofs add to TypeOK.    *)

\* The query belongs to the method of the request.
QueryFitsCall(s) ==
  query[s] # None =>
    /\ call[s] # None
    /\ \/ query[s] = FirstQuery[call[s].op]
       \/ query[s] = "GetLock" /\ call[s].op \in LockOps

\* Writing or deleting a state cannot miss, and only the two SELECTs return a row.
ResultFitsQuery(s) ==
  /\ stmt[s] = "miss" => query[s] \notin {"UpdateState", "DeleteState"}
  /\ \/ row[s] = None
     \/ query[s] = "GetState" /\ row[s] \in Values
     \/ query[s] = "GetLock" /\ row[s] \in LockIDs

\* A handler that runs has a query and no reply yet, and one that waits has sent its
\* statement.
Coherent ==
  \A s \in Slots :
    /\ QueryFitsCall(s)
    /\ pc[s] = "idle" <=> call[s] = None
    /\ pc[s] = "idle" => row[s] = None
    /\ pc[s] = "replied" <=> reply[s] # None
    /\ pc[s] \in {"queued", "waiting", "dropped"} => query[s] # None
    /\ pc[s] = "queued" => stmt[s] = "none"
    /\ pc[s] = "waiting" => stmt[s] # "none"
    /\ query[s] = None => stmt[s] = "none"
    /\ query[s] = None /\ call[s] # None => reply[s] = BadRequest
    /\ query[s] # None => reply[s] # BadRequest
    /\ ResultFitsQuery(s)

-----------------------------------------------------------------------------
(* What the gateway promises, and how its state shows it: a request in its *)
(* second query has missed in its first, and a dead handler has lost its   *)
(* connection.                                                             *)

effects == [s \in Slots |-> IF query[s] = "GetLock" THEN "miss"
                            ELSE IF stmt[s] \in Settled THEN stmt[s] ELSE "none"]

answers == [s \in Slots |-> IF pc[s] = "dropped" THEN Lost ELSE reply[s]]

Promise == INSTANCE Backend WITH outcome <- effects, seen <- row, answer <- answers

\* The handlers, with their second query, their retained errors and the
\* statements they abandon, implement the atomic at-most-once backend: no
\* request takes effect twice or in halves, and no 200, 404, 409 or 423 lies.
Promised == Promise!Spec

\* A request that entered is answered or dropped, without help from the 30 s
\* deadline: handlers that make two queries never wait for connections that
\* only other such handlers could give back.
Answered == \A s \in Slots : pc[s] = "queued" ~> pc[s] \in {"replied", "dropped"}

\* A 423 carries the metadata of the lock it met (README.md, LOCK), at least when both
\* queries go well.
ConflictNamesHolder ==
  [][\A s \in Slots :
       Receive(s) /\ stmt[s] # "error" /\ reply'[s] # None /\ reply'[s].status = 423
         => reply'[s].lock # None]_gatewayVars
=============================================================================
