-------------------------- MODULE RefinementProofs --------------------------
(***************************************************************************)
(* Gateway implements Backend: every step of a handler or of the database  *)
(* is a step of the promise, or none that it can see.                      *)
(***************************************************************************)
EXTENDS GatewayProofs

USE ApiAssumption, NoneAssumption, GatewayAssumption

\* The first query of a request is never the one that looks up the holder.
LEMMA FirstQueryFacts ==
  \A op \in Ops : FirstQuery[op] \in Queries /\ FirstQuery[op] # "GetLock"
  BY DEF Ops, FirstQuery, Queries

\* The initial tables, and nothing in flight.
LEMMA InitMaps == Init => Promise!Init
  BY DEF Init, Promise!Init, effects, answers, Settled, Queries

LEMMA EnterMaps ==
  ASSUME TypeOK, Coherent, NEW s \in Slots, NEW c \in Calls, Enter(s, c) \/ Refuse(s, c)
  PROVE  Promise!Invoke(s, c)
<1>1. call[s] = None /\ query[s] = None /\ stmt[s] = "none" /\ reply[s] = None
  BY DEF Enter, Refuse, Coherent, QueryFitsCall
<1>2. UNCHANGED effects
  <2>1. FirstQuery[c.op] # "GetLock" /\ None # "GetLock"
    BY FirstQueryFacts DEF Calls, Queries
  <2>2. UNCHANGED stmt /\ \E q : q # "GetLock" /\ query' = [query EXCEPT ![s] = q]
    <3>1. CASE Enter(s, c)
      BY <2>1, <3>1 DEF Enter
    <3>2. CASE Refuse(s, c)
      BY <1>1, <2>1, <3>2 DEF Refuse, TypeOK
    <3> QED BY <3>1, <3>2
  <2> QED BY <1>1, <2>1, <2>2 DEF TypeOK, effects
<1>3. CASE Enter(s, c)
  <2>1. UNCHANGED answers
    BY <1>3 DEF Enter, TypeOK, answers
  <2> QED BY <1>1, <1>2, <1>3, <2>1 DEF Enter, Promise!Invoke
<1>4. CASE Refuse(s, c)
  <2>1. answers' = [answers EXCEPT ![s] = BadRequest]
    BY <1>4 DEF Refuse, TypeOK, answers
  <2> QED BY <1>1, <1>2, <1>4, <2>1 DEF Refuse, Promise!Invoke, LockOps, Promise!LockOps,
                                        BadRequest, Promise!BadRequest, Response, Promise!Response
<1> QED BY <1>3, <1>4

\* Waiting for a connection cannot be seen.
LEMMA AcquireMaps ==
  ASSUME TypeOK, Coherent, NEW s \in Slots, Acquire(s)
  PROVE  UNCHANGED Promise!vars
<1>1. stmt[s] = "none" /\ stmt' = [stmt EXCEPT ![s] = "sent"]
  BY DEF Acquire, Coherent
<1>2. UNCHANGED effects
  BY <1>1 DEF Acquire, TypeOK, effects, Settled
<1>3. UNCHANGED answers
  BY DEF Acquire, TypeOK, answers
<1> QED BY <1>2, <1>3 DEF Acquire, Promise!vars

\* A statement that has been sent has an effect still to come, or is the second.
LEMMA SentFacts ==
  ASSUME TypeOK, Coherent, NEW s \in Slots, stmt[s] = "sent"
  PROVE  /\ call[s] # None /\ call[s] \in Calls
         /\ answers[s] # BadRequest
         /\ query[s] # "GetLock" => effects[s] = "none"
         /\ query[s] = "GetLock" => effects[s] = "miss" /\ call[s].op \in LockOps
<1>1. query[s] # None /\ call[s] # None /\ call[s] \in Calls
  BY DEF Coherent, QueryFitsCall, TypeOK
<1>2. answers[s] # BadRequest
  BY <1>1 DEF answers, Coherent, Lost, BadRequest, Response
<1>3. query[s] # "GetLock" => effects[s] = "none"
  BY DEF effects, Settled
<1>4. query[s] = "GetLock" => effects[s] = "miss" /\ call[s].op \in LockOps
  BY <1>1, FirstQueryFacts DEF effects, Coherent, QueryFitsCall, Calls
<1> QED BY <1>1, <1>2, <1>3, <1>4

\* How a settled first statement shows, and a settled second one.
LEMMA SettleMaps ==
  ASSUME TypeOK, NEW s \in Slots, NEW outcome \in Settled, NEW value,
         Settle(s, outcome, value), UNCHANGED <<pc, call, query, reply>>
  PROVE  /\ UNCHANGED answers
         /\ query[s] # "GetLock" => Promise!Result(s, outcome, value)
         /\ query[s] = "GetLock" => UNCHANGED effects /\ row' = [row EXCEPT ![s] = value]
<1>1. UNCHANGED answers
  BY DEF answers
<1>2. query[s] # "GetLock" => effects' = [effects EXCEPT ![s] = outcome]
  BY DEF Settle, TypeOK, effects
<1>3. query[s] = "GetLock" => UNCHANGED effects
  BY DEF Settle, TypeOK, effects
<1> QED BY <1>1, <1>2, <1>3 DEF Settle, Promise!Result
\* Which request each first query belongs to.
LEMMA QueryOps ==
  ASSUME TypeOK, Coherent, NEW s \in Slots, query[s] # None
  PROVE  /\ query[s] = "GetState" => call[s].op = "GET"
         /\ query[s] = "UpdateState" => call[s].op = "POST"
         /\ query[s] = "DeleteState" => call[s].op = "DELETE"
         /\ query[s] = "AcquireLock" => call[s].op = "LOCK"
         /\ query[s] = "ReleaseLock" => call[s].op = "UNLOCK"
         /\ query[s] = "GetLock" => call[s].op \in LockOps
<1>1. call[s].op \in Ops
  BY DEF TypeOK, Coherent, QueryFitsCall, Calls
<1>2. \/ query[s] = FirstQuery[call[s].op]
      \/ query[s] = "GetLock" /\ call[s].op \in LockOps
  BY DEF Coherent, QueryFitsCall
<1> QED BY <1>1, <1>2 DEF Ops, FirstQuery

\* A first statement that runs is the effect of its request.
LEMMA FirstStatementMaps ==
  ASSUME TypeOK, Coherent, NEW s \in Slots, stmt[s] = "sent", query[s] # "GetLock",
         UNCHANGED <<pc, call, query, reply>>,
         Promise!Read(s) \/ Promise!Write(s) \/ Promise!TakeOrFree(s)
           \/ Promise!Conflict(s) \/ Promise!NoEffect(s)
  PROVE  Promise!TakeEffect(s)
<1>1. UNCHANGED answers
  BY DEF answers
<1> QED BY <1>1, SentFacts DEF Promise!TakeEffect, BadRequest, Promise!BadRequest,
                             Response, Promise!Response

LEMMA ExecuteMaps ==
  ASSUME TypeOK, Coherent, NEW s \in Slots, Execute(s)
  PROVE  Promise!TakeEffect(s) \/ Promise!LookUp(s)
<1>1. stmt[s] = "sent" /\ query[s] # None /\ UNCHANGED <<pc, call, query, reply>>
  BY DEF Execute, Coherent
<1>2. CASE SelectState(s)
  <2>1. Promise!Read(s)
    <3>1. CASE states[call[s].ws] = None
      BY <1>1, <1>2, <3>1, QueryOps, SettleMaps DEF SelectState, Promise!Read, tables, Settled
    <3>2. CASE states[call[s].ws] # None
      BY <1>1, <1>2, <3>2, QueryOps, SettleMaps DEF SelectState, Promise!Read, tables, Settled
    <3> QED BY <3>1, <3>2
  <2> QED BY <1>1, <1>2, <2>1, FirstStatementMaps DEF SelectState
<1>3. CASE UpsertState(s)
  <2>1. Promise!StateRow(call[s].body) = StateRow(call[s].body)
    BY DEF StateRow, Promise!StateRow, HeaderSerial, Promise!HeaderSerial
  <2>2. Promise!Write(s)
    BY <1>1, <1>3, <2>1, QueryOps, SettleMaps DEF UpsertState, Promise!Write, Settled
  <2> QED BY <1>1, <1>3, <2>2, FirstStatementMaps DEF UpsertState
<1>4. CASE DeleteStateRow(s)
  <2>1. Promise!Write(s)
    BY <1>1, <1>4, QueryOps, SettleMaps DEF DeleteStateRow, Promise!Write, Settled
  <2> QED BY <1>1, <1>4, <2>1, FirstStatementMaps DEF DeleteStateRow
<1>5. CASE InsertLock(s)
  <2>1. CASE locks[call[s].ws] = None
    BY <1>1, <1>5, <2>1, QueryOps, SettleMaps, FirstStatementMaps
       DEF InsertLock, Promise!TakeOrFree, Settled
  <2>2. CASE locks[call[s].ws] # None
    BY <1>1, <1>5, <2>2, QueryOps, SettleMaps, FirstStatementMaps
       DEF InsertLock, Promise!Conflict, Settled
  <2> QED BY <2>1, <2>2
<1>6. CASE DeleteLock(s)
  <2>1. CASE locks[call[s].ws] = call[s].id
    BY <1>1, <1>6, <2>1, QueryOps, SettleMaps, FirstStatementMaps
       DEF DeleteLock, Promise!TakeOrFree, Settled
  <2>2. CASE locks[call[s].ws] # call[s].id
    BY <1>1, <1>6, <2>2, QueryOps, SettleMaps, FirstStatementMaps
       DEF DeleteLock, Promise!Conflict, Settled
  <2> QED BY <2>1, <2>2
<1>7. CASE SelectLock(s)
  BY <1>1, <1>7, SentFacts, SettleMaps
     DEF SelectLock, Promise!LookUp, LockOps, Promise!LockOps, tables, Settled
<1> QED BY <1>2, <1>3, <1>4, <1>5, <1>6, <1>7 DEF Execute

LEMMA FailMaps ==
  ASSUME TypeOK, Coherent, NEW s \in Slots, Fail(s)
  PROVE  Promise!TakeEffect(s) \/ Promise!LookUp(s)
<1>1. CASE query[s] # "GetLock"
  BY <1>1, SettleMaps, FirstStatementMaps DEF Fail, Promise!NoEffect, Settled
<1>2. CASE query[s] = "GetLock"
  BY <1>2, SentFacts, SettleMaps
     DEF Fail, Promise!LookUp, LockOps, Promise!LockOps, Settled
<1> QED BY <1>1, <1>2

-----------------------------------------------------------------------------
\* What a handler answers is true of what its statement did.
LEMMA RespondMaps ==
  ASSUME TypeOK, Coherent, NEW s \in Slots, NEW outcome,
         pc[s] \in {"queued", "waiting"}, Respond(s, outcome),
         outcome = "error" \/ (outcome = stmt[s] /\ stmt[s] \in Settled),
         outcome = "miss" => query[s] \notin {"AcquireLock", "ReleaseLock"}
  PROVE  Promise!Reply(s)
<1>1. query[s] # None /\ call[s] # None /\ reply[s] = None /\ query[s] \in Queries
  BY DEF TypeOK, Coherent
<1>2. UNCHANGED effects
  BY DEF Respond, effects
<1>3. answers' = [answers EXCEPT ![s] = Answer(s, outcome)] /\ answers[s] = None
  BY <1>1 DEF Respond, TypeOK, answers
<1>4. Answer(s, outcome) \in Responses
  BY <1>1, AnswerType
<1>5. Promise!Truthful(s, Answer(s, outcome))
  <2>1. CASE query[s] = "GetLock"
    <3>1. effects[s] = "miss" /\ call[s].op \in {"LOCK", "UNLOCK"}
      BY <1>1, <2>1, QueryOps DEF effects, LockOps
    <3> QED BY <2>1, <3>1 DEF Answer, Promise!Truthful, Response, Promise!Response
  <2>2. CASE query[s] # "GetLock" /\ outcome = "error"
    BY <2>2 DEF Answer, Promise!Truthful, ServerError, Promise!ServerError,
                Response, Promise!Response
  <2>3. CASE query[s] # "GetLock" /\ outcome # "error"
    <3>1. effects[s] = outcome /\ outcome \in {"hit", "miss"}
      BY <2>3 DEF effects, Settled
    <3>2. CASE outcome = "hit"
      <4>1. query[s] = "GetState" <=> call[s].op = "GET"
        BY <1>1, <2>3, QueryOps DEF Queries
      <4> QED BY <2>3, <3>1, <3>2, <4>1 DEF Answer, Promise!Truthful, Response, Promise!Response
    <3>3. CASE outcome = "miss"
      <4>1. query[s] = "GetState" /\ call[s].op = "GET"
        BY <1>1, <2>3, <3>3, QueryOps DEF Queries, Coherent, ResultFitsQuery
      <4> QED BY <2>3, <3>1, <3>3, <4>1 DEF Answer, Promise!Truthful, Response, Promise!Response
    <3> QED BY <3>1, <3>2, <3>3
  <2> QED BY <2>1, <2>2, <2>3
<1>6. Answer(s, outcome) \in Promise!Responses
  BY <1>4 DEF Responses, Promise!Responses
<1>7. \E r \in Promise!Responses : Promise!Truthful(s, r) /\ answers' = [answers EXCEPT ![s] = r]
  BY <1>3, <1>5, <1>6
<1> QED BY <1>1, <1>2, <1>3, <1>7 DEF Respond, Promise!Reply
\* Going on to the second query cannot be seen: the first has missed.
LEMMA LookUpHolderMaps ==
  ASSUME TypeOK, Coherent, NEW s \in Slots,
         LookUpHolder(s), stmt[s] = "miss", pc[s] = "waiting"
  PROVE  UNCHANGED Promise!vars
<1>1. UNCHANGED effects
  BY DEF LookUpHolder, TypeOK, effects, Settled
<1>2. UNCHANGED answers
  BY DEF LookUpHolder, TypeOK, answers
<1> QED BY <1>1, <1>2 DEF LookUpHolder, Promise!vars

LEMMA ReceiveMaps ==
  ASSUME TypeOK, Coherent, NEW s \in Slots, Receive(s)
  PROVE  Promise!Reply(s) \/ UNCHANGED Promise!vars
<1>1. CASE stmt[s] = "miss" /\ query[s] \in {"AcquireLock", "ReleaseLock"}
  BY <1>1, LookUpHolderMaps DEF Receive
<1>2. CASE ~(stmt[s] = "miss" /\ query[s] \in {"AcquireLock", "ReleaseLock"})
  <2>1. Respond(s, stmt[s]) /\ pc[s] = "waiting" /\ stmt[s] \in Settled
    BY <1>2 DEF Receive
  <2> QED BY <1>2, <2>1, RespondMaps
<1> QED BY <1>1, <1>2

LEMMA FinishMaps ==
  ASSUME TypeOK, Coherent, NEW s \in Slots, Finish(s)
  PROVE  Promise!End(s)
<1>1. answers[s] # None
  <2>1. Lost \in Responses
    BY DEF Lost, Response, Responses
  <2> QED BY <2>1 DEF Finish, Coherent, answers
<1>2. effects' = [effects EXCEPT ![s] = "none"]
  BY DEF Finish, TypeOK, effects, Settled, Queries
<1>3. answers' = [answers EXCEPT ![s] = None]
  BY DEF Finish, TypeOK, answers
<1> QED BY <1>1, <1>2, <1>3 DEF Finish, Promise!End, tables

LEMMA CrashMaps ==
  ASSUME TypeOK, Coherent, Crash
  PROVE  Promise!LoseAll
<1>1. UNCHANGED effects
  BY DEF Crash, effects
<1>2. Lost # None /\ Promise!Lost = Lost
  BY DEF Lost, Promise!Lost, Response, Promise!Response, Responses
<1>3. answers' = [s \in Slots |-> IF call[s] # None /\ answers[s] = None THEN Lost ELSE answers[s]]
  <2>1. ASSUME NEW s \in Slots
        PROVE  answers'[s] = IF call[s] # None /\ answers[s] = None THEN Lost ELSE answers[s]
    BY <1>2 DEF Crash, TypeOK, Coherent, answers
  <2> QED BY <2>1 DEF answers
<1> QED BY <1>1, <1>2, <1>3 DEF Crash, Promise!LoseAll

-----------------------------------------------------------------------------
\* One step of the gateway is one step of the promise, or a stutter.
LEMMA StepMaps ==
  ASSUME TypeOK, Coherent, [Next]_gatewayVars
  PROVE  [Promise!Next]_(Promise!vars)
<1>1. ASSUME NEW s \in Slots, NEW c \in Calls, Enter(s, c) \/ Refuse(s, c)
      PROVE  Promise!Next
  <2>1. Promise!Calls = Calls
    BY DEF Calls, Promise!Calls, Ops, Promise!Ops, LockOps, Promise!LockOps
  <2> QED BY <1>1, <2>1, EnterMaps DEF Promise!Next
<1>2. ASSUME NEW s \in Slots, Progress(s)
      PROVE  Promise!Next \/ UNCHANGED Promise!vars
  <2>1. CASE QueryError(s)
    BY <2>1, RespondMaps DEF QueryError, Promise!Next
  <2> QED BY <1>2, <2>1, AcquireMaps, ExecuteMaps, FailMaps, ReceiveMaps
          DEF Progress, Promise!Next
<1>3. ASSUME NEW s \in Slots, Finish(s)
      PROVE  Promise!Next
  BY <1>3, FinishMaps DEF Promise!Next
<1>4. CASE Crash
  BY <1>4, CrashMaps DEF Promise!Next
<1>5. CASE UNCHANGED gatewayVars
  BY <1>5 DEF gatewayVars, Promise!vars, effects, answers
<1> QED BY <1>1, <1>2, <1>3, <1>4, <1>5 DEF Next

\* The handlers, with their second query, their abandoned statements and crashes,
\* implement the atomic at-most-once backend (handler.go, lock_repository.go).
THEOREM GatewayImplementsBackend == Spec => Promised
<1>1. Init => Promise!Init
  BY InitMaps
<1>2. TypeOK /\ Coherent /\ [Next]_gatewayVars => [Promise!Next]_(Promise!vars)
  BY StepMaps
<1> QED BY <1>1, <1>2, GatewayInvariant, PTL DEF Spec, Promised, Promise!Spec
=============================================================================
