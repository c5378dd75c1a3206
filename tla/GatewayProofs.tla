--------------------------- MODULE GatewayProofs ---------------------------
(***************************************************************************)
(* Proofs about Gateway, for any slots, workspaces, lock IDs, bodies and   *)
(* pool size.                                                              *)
(***************************************************************************)
EXTENDS Gateway, TLAPS

USE ApiAssumption, NoneAssumption, GatewayAssumption

\* The answer to a bad request is an answer.
LEMMA BadRequestType == BadRequest \in Responses
  BY DEF BadRequest, Responses, Response

\* The initial state is well typed and coherent.
LEMMA InitInv == Init => TypeOK /\ Coherent
  BY DEF Init, TypeOK, Coherent, QueryFitsCall, ResultFitsQuery, Settled

\* What an accepted request leaves behind.
LEMMA EnterInv ==
  ASSUME TypeOK, Coherent, NEW s \in Slots, NEW c \in Calls, Enter(s, c)
  PROVE  TypeOK' /\ Coherent'
<1>1. FirstQuery[c.op] \in Queries
  BY DEF Calls, Ops, FirstQuery, Queries
<1>2. TypeOK'
  BY <1>1 DEF Enter, TypeOK
<1>3. Coherent'
  BY <1>1, BadRequestType DEF Enter, TypeOK, Coherent, QueryFitsCall, ResultFitsQuery
<1> QED BY <1>2, <1>3

LEMMA RefuseInv ==
  ASSUME TypeOK, Coherent, NEW s \in Slots, NEW c \in Calls, Refuse(s, c)
  PROVE  TypeOK' /\ Coherent'
<1>1. TypeOK'
  BY BadRequestType DEF Refuse, TypeOK
<1>2. Coherent'
  BY BadRequestType DEF Refuse, TypeOK, Coherent, QueryFitsCall, ResultFitsQuery
<1> QED BY <1>1, <1>2

LEMMA AcquireInv ==
  ASSUME TypeOK, Coherent, NEW s \in Slots, Acquire(s)
  PROVE  TypeOK' /\ Coherent'
<1>1. TypeOK'
  BY DEF Acquire, TypeOK
<1>2. Coherent'
  BY DEF Acquire, TypeOK, Coherent, QueryFitsCall, ResultFitsQuery
<1> QED BY <1>1, <1>2

LEMMA FinishInv ==
  ASSUME TypeOK, Coherent, NEW s \in Slots, Finish(s)
  PROVE  TypeOK' /\ Coherent'
<1>1. TypeOK'
  BY DEF Finish, TypeOK, tables
<1>2. Coherent'
  BY DEF Finish, TypeOK, Coherent, QueryFitsCall, ResultFitsQuery
<1> QED BY <1>1, <1>2

LEMMA CrashInv ==
  ASSUME TypeOK, Coherent, Crash
  PROVE  TypeOK' /\ Coherent'
<1>1. TypeOK'
  BY DEF Crash, TypeOK
<1>2. Coherent'
  BY DEF Crash, TypeOK, Coherent, QueryFitsCall, ResultFitsQuery
<1> QED BY <1>1, <1>2

-----------------------------------------------------------------------------
(* The statements.                                                         *)

\* The row an accepted body becomes.
LEMMA StateRowType == \A b \in Bodies : b.value \in Values /\ StateRow(b) \in StateRows
  BY DEF StateRow, HeaderSerial, StateRows

\* What a request in flight asks for.
LEMMA CallFields ==
  ASSUME TypeOK, NEW s \in Slots, call[s] # None
  PROVE  /\ call[s] \in Calls
         /\ call[s].op \in Ops /\ call[s].ws \in Workspaces
         /\ call[s].op = "POST" => call[s].body \in Bodies
         /\ call[s].op \in LockOps => call[s].id \in LockIDs
  BY DEF TypeOK, Calls

LEMMA ExecuteInv ==
  ASSUME TypeOK, Coherent, NEW s \in Slots, Execute(s)
  PROVE  TypeOK' /\ Coherent'
<1>1. /\ stmt[s] = "sent" /\ call[s] # None /\ query[s] # None
      /\ UNCHANGED <<pc, call, query, reply>>
  BY DEF Execute, Coherent, QueryFitsCall, ResultFitsQuery
<1>2. ASSUME NEW outcome \in Settled, NEW value \in LockIDs \cup Values \cup {None},
             Settle(s, outcome, value), ResultFitsQuery(s)'
      PROVE  /\ stmt' \in [Slots -> {"none", "sent"} \cup Settled]
             /\ row' \in [Slots -> LockIDs \cup Values \cup {None}]
             /\ Coherent'
  <2>1. /\ stmt' \in [Slots -> {"none", "sent"} \cup Settled]
        /\ row' \in [Slots -> LockIDs \cup Values \cup {None}]
    BY <1>2 DEF Settle, TypeOK
  <2>2. Coherent'
    BY <1>1, <1>2 DEF Settle, Settled, TypeOK, Coherent, QueryFitsCall, ResultFitsQuery
  <2> QED BY <2>1, <2>2
<1>3. CASE SelectState(s)
  <2>1. UNCHANGED tables /\ \E outcome \in Settled, value \in Values \cup {None} : Settle(s, outcome, value) /\ ResultFitsQuery(s)'
    BY <1>1, <1>3, CallFields DEF SelectState, Settle, ResultFitsQuery, TypeOK, StateRows, Settled
  <2> QED BY <1>1, <1>2, <2>1 DEF TypeOK, tables
<1>4. CASE UpsertState(s)
  <2>1. call[s].op = "POST"
    BY <1>1, <1>4, CallFields DEF UpsertState, Coherent, QueryFitsCall, ResultFitsQuery, FirstQuery, Ops
  <2>2. states' \in [Workspaces -> StateRows \cup {None}]
    BY <1>1, <1>4, <2>1, CallFields, StateRowType DEF UpsertState, TypeOK
  <2>3. UNCHANGED locks /\ Settle(s, "hit", None) /\ ResultFitsQuery(s)'
    BY <1>1, <1>4 DEF UpsertState, Settle, ResultFitsQuery, TypeOK
  <2> QED BY <1>1, <1>2, <2>2, <2>3 DEF TypeOK, Settled
<1>5. CASE DeleteStateRow(s)
  <2>1. states' \in [Workspaces -> StateRows \cup {None}]
    BY <1>5 DEF DeleteStateRow, TypeOK
  <2>2. UNCHANGED locks /\ Settle(s, "hit", None) /\ ResultFitsQuery(s)'
    BY <1>1, <1>5 DEF DeleteStateRow, Settle, ResultFitsQuery, TypeOK
  <2> QED BY <1>1, <1>2, <2>1, <2>2 DEF TypeOK, Settled
<1>6. CASE InsertLock(s)
  <2>1. call[s].op = "LOCK"
    BY <1>1, <1>6, CallFields DEF InsertLock, Coherent, QueryFitsCall, ResultFitsQuery, FirstQuery, Ops
  <2>2. locks' \in [Workspaces -> LockIDs \cup {None}]
    BY <1>1, <1>6, <2>1, CallFields DEF InsertLock, TypeOK, LockOps
  <2>3. UNCHANGED states /\ \E outcome \in Settled : Settle(s, outcome, None) /\ ResultFitsQuery(s)'
    BY <1>1, <1>6 DEF InsertLock, Settle, ResultFitsQuery, TypeOK, Settled
  <2> QED BY <1>1, <1>2, <2>2, <2>3 DEF TypeOK
<1>7. CASE DeleteLock(s)
  <2>1. locks' \in [Workspaces -> LockIDs \cup {None}]
    BY <1>7 DEF DeleteLock, TypeOK
  <2>2. UNCHANGED states /\ \E outcome \in Settled : Settle(s, outcome, None) /\ ResultFitsQuery(s)'
    BY <1>1, <1>7 DEF DeleteLock, Settle, ResultFitsQuery, TypeOK, Settled
  <2> QED BY <1>1, <1>2, <2>1, <2>2 DEF TypeOK
<1>8. CASE SelectLock(s)
  <2>1. UNCHANGED tables /\ \E outcome \in Settled, value \in LockIDs \cup {None} : Settle(s, outcome, value) /\ ResultFitsQuery(s)'
    BY <1>1, <1>8, CallFields DEF SelectLock, Settle, ResultFitsQuery, TypeOK, Settled
  <2> QED BY <1>1, <1>2, <2>1 DEF TypeOK, tables
<1> QED BY <1>3, <1>4, <1>5, <1>6, <1>7, <1>8 DEF Execute

LEMMA FailInv ==
  ASSUME TypeOK, Coherent, NEW s \in Slots, Fail(s)
  PROVE  TypeOK' /\ Coherent'
<1>1. TypeOK'
  BY DEF Fail, Settle, Settled, TypeOK
<1>2. Coherent'
  BY DEF Fail, Settle, TypeOK, Coherent, QueryFitsCall, ResultFitsQuery
<1> QED BY <1>1, <1>2

-----------------------------------------------------------------------------
(* The results.                                                            *)

\* Every answer is a response, and none of them is that to a bad request.
LEMMA AnswerType ==
  ASSUME TypeOK, Coherent, NEW s \in Slots, NEW outcome, query[s] # None
  PROVE  Answer(s, outcome) \in Responses /\ Answer(s, outcome) # BadRequest
<1> DEFINE lock == IF outcome = "hit" THEN row[s] ELSE None
<1>1. CASE query[s] = "GetLock"
  <2>1. lock \in LockIDs \cup {None}
    BY <1>1 DEF Coherent, ResultFitsQuery
  <2>2. \E status \in {409, 423} : Answer(s, outcome) = Response(status, lock, None)
    BY <1>1 DEF Answer
  <2> QED BY <2>1, <2>2 DEF Responses, Response, BadRequest
<1>2. CASE query[s] # "GetLock"
  <2>1. (IF query[s] = "GetState" THEN row[s] ELSE None) \in Values \cup {None}
    BY DEF Coherent, ResultFitsQuery
  <2>2. \/ \E status \in {404, 500} : Answer(s, outcome) = Response(status, None, None)
        \/ Answer(s, outcome) = Response(200, None, IF query[s] = "GetState" THEN row[s] ELSE None)
    BY <1>2 DEF Answer, ServerError
  <2> QED BY <2>1, <2>2 DEF Responses, Response, BadRequest
<1> QED BY <1>1, <1>2

LEMMA RespondInv ==
  ASSUME TypeOK, Coherent, NEW s \in Slots, NEW outcome,
         pc[s] \in {"queued", "waiting"}, Respond(s, outcome)
  PROVE  TypeOK' /\ Coherent'
<1>1. query[s] # None
  BY DEF Coherent
<1>2. Answer(s, outcome) \in Responses /\ Answer(s, outcome) # BadRequest
  BY <1>1, AnswerType
<1>3. TypeOK'
  BY <1>2 DEF Respond, TypeOK
<1>4. Coherent'
  BY <1>1, <1>2 DEF Respond, TypeOK, Coherent, QueryFitsCall, ResultFitsQuery
<1> QED BY <1>3, <1>4

LEMMA ReceiveInv ==
  ASSUME TypeOK, Coherent, NEW s \in Slots, Receive(s)
  PROVE  TypeOK' /\ Coherent'
<1>1. CASE Respond(s, stmt[s])
  BY <1>1, RespondInv DEF Receive
<1>2. CASE LookUpHolder(s) /\ query[s] \in {"AcquireLock", "ReleaseLock"}
  <2>1. call[s] # None /\ call[s].op \in LockOps
    BY <1>2, CallFields DEF Receive, Coherent, QueryFitsCall, FirstQuery, Ops, LockOps
  <2>2. TypeOK'
    BY <1>2 DEF LookUpHolder, TypeOK, Queries
  <2>3. Coherent'
    BY <1>2, <2>1 DEF Receive, LookUpHolder, TypeOK, Coherent, QueryFitsCall, ResultFitsQuery, Queries
  <2> QED BY <2>2, <2>3
<1> QED BY <1>1, <1>2 DEF Receive

LEMMA ProgressInv ==
  ASSUME TypeOK, Coherent, NEW s \in Slots, Progress(s)
  PROVE  TypeOK' /\ Coherent'
<1>1. CASE QueryError(s)
  BY <1>1, RespondInv DEF QueryError
<1> QED BY <1>1, AcquireInv, ExecuteInv, FailInv, ReceiveInv DEF Progress

-----------------------------------------------------------------------------
\* Every reachable state of the gateway is well typed, and its handlers,
\* statements and replies fit together (handler.go, repository/postgres).
THEOREM GatewayInvariant == Spec => [](TypeOK /\ Coherent)
<1>1. TypeOK /\ Coherent /\ [Next]_gatewayVars => (TypeOK /\ Coherent)'
  <2> SUFFICES ASSUME TypeOK, Coherent, [Next]_gatewayVars
               PROVE  TypeOK' /\ Coherent'
    OBVIOUS
  <2>1. CASE UNCHANGED gatewayVars
    BY <2>1 DEF gatewayVars, TypeOK, Coherent, QueryFitsCall, ResultFitsQuery
  <2>2. CASE Next
    BY <2>2, EnterInv, RefuseInv, ProgressInv, FinishInv, CrashInv DEF Next
  <2> QED BY <2>1, <2>2
<1> QED BY <1>1, InitInv, PTL DEF Spec

\* Handlers, statements and replies fit together, the part of it that is no typing.
THEOREM CoherentTheorem == Spec => []Coherent
<1>1. TypeOK /\ Coherent => Coherent
  OBVIOUS
<1> QED BY <1>1, GatewayInvariant, PTL
=============================================================================
