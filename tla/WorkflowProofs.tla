--------------------------- MODULE WorkflowProofs ---------------------------
(***************************************************************************)
(* The lock protocol of Workflow is safe for any number of clients,        *)
(* requests, workspaces and lock IDs.                                      *)
(***************************************************************************)
EXTENDS Workflow, RefinementProofs

USE ApiAssumption, NoneAssumption, GatewayAssumption, WorkflowAssumption

LEMMA WorkflowInitInv == WorkflowInit => WorkflowInv
<1> SUFFICES ASSUME WorkflowInit PROVE WorkflowInv
  OBVIOUS
<1>1. TypeOK /\ Coherent
  BY InitInv DEF WorkflowInit
<1>2. WorkflowTypeOK /\ ClientsFit /\ OwnIDs /\ NoStrayUnlock /\ GrantsStand /\ HolderKeepsRow
  BY DEF WorkflowInit, WorkflowTypeOK, ClientsFit, OwnIDs, NoStrayUnlock, GrantsStand, HolderKeepsRow
<1>3. TrueAnswers /\ Awaited /\ CleanRows /\ NothingLeft
  BY DEF WorkflowInit, Init, TrueAnswers, Awaited, Pending, CleanRows, NothingLeft
<1> QED BY <1>1, <1>2, <1>3 DEF WorkflowInv

-----------------------------------------------------------------------------
(* The gateway moves, the clients do not.                                  *)

\* No step that leaves the requests and the locks alone bothers a client, if it shows
\* no row that was not shown before, makes no LOCK pending and answers the truth.
LEMMA HandlerStepInv ==
  ASSUME WorkflowInv, UNCHANGED clientVars, UNCHANGED <<locks, call>>,
         TypeOK', Coherent', TrueAnswers',
         \A s \in Slots : pc[s] # "idle" => pc'[s] # "idle",
         \A s \in Slots, i \in LockIDs : Shown(s, i)' => Shown(s, i),
         \A s \in Slots : Pending(s)' => Pending(s),
         \A s \in Slots : /\ Hit(s, "AcquireLock") => Hit(s, "AcquireLock")'
                          /\ Hit(s, "ReleaseLock")' => Hit(s, "ReleaseLock")
  PROVE  WorkflowInv'
<1>1. WorkflowTypeOK' /\ OwnIDs' /\ NoStrayUnlock' /\ HolderKeepsRow' /\ NothingLeft'
  BY DEF WorkflowInv, clientVars, WorkflowTypeOK, OwnIDs, NoStrayUnlock, HolderKeepsRow, NothingLeft
<1>2. ClientsFit'
  BY DEF WorkflowInv, clientVars, WorkflowTypeOK, ClientsFit
<1>3. GrantsStand'
  BY DEF WorkflowInv, clientVars, WorkflowTypeOK, ClientsFit, GrantsStand
<1>4. Awaited'
  BY DEF WorkflowInv, clientVars, Awaited
<1>5. CleanRows'
  BY DEF WorkflowInv, clientVars, WorkflowTypeOK, CleanRows
<1> QED BY <1>1, <1>2, <1>3, <1>4, <1>5 DEF WorkflowInv

LEMMA AcquireSafe ==
  ASSUME WorkflowInv, UNCHANGED clientVars, NEW s \in Slots, Acquire(s)
  PROVE  WorkflowInv'
<1>1. TypeOK' /\ Coherent'
  BY AcquireInv DEF WorkflowInv
<1>2. stmt[s] = "none" /\ stmt' = [stmt EXCEPT ![s] = "sent"]
      /\ pc[s] = "queued" /\ pc' = [pc EXCEPT ![s] = "waiting"]
      /\ UNCHANGED <<locks, call, query, row, reply>>
  BY DEF Acquire, WorkflowInv, Coherent
<1>3. TrueAnswers'
  BY <1>2 DEF WorkflowInv, TypeOK, TrueAnswers, Hit
<1> QED BY <1>1, <1>2, <1>3, HandlerStepInv DEF WorkflowInv, TypeOK, Shown, Pending, Hit

LEMMA FailSafe ==
  ASSUME WorkflowInv, UNCHANGED clientVars, NEW s \in Slots, Fail(s)
  PROVE  WorkflowInv'
<1>1. TypeOK' /\ Coherent'
  BY FailInv DEF WorkflowInv
<1>2. stmt[s] = "sent" /\ stmt' = [stmt EXCEPT ![s] = "error"]
      /\ row' = [row EXCEPT ![s] = None] /\ UNCHANGED <<locks, pc, call, query, reply>>
  BY DEF Fail, Settle
<1>3. TrueAnswers'
  BY <1>2 DEF WorkflowInv, TypeOK, TrueAnswers, Hit
<1> QED BY <1>1, <1>2, <1>3, HandlerStepInv DEF WorkflowInv, TypeOK, Shown, Pending, Hit

\* The answers to a LOCK and an UNLOCK are what their queries found.
LEMMA RespondSafe ==
  ASSUME WorkflowInv, UNCHANGED clientVars, NEW s \in Slots, NEW outcome,
         pc[s] \in {"queued", "waiting"}, Respond(s, outcome),
         outcome = "error" \/ outcome = stmt[s],
         outcome = "hit" \/ outcome = "miss" \/ outcome = "error"
  PROVE  WorkflowInv'
<1>1. TypeOK' /\ Coherent'
  BY RespondInv DEF WorkflowInv
<1>2. /\ pc' = [pc EXCEPT ![s] = "replied"] /\ reply' = [reply EXCEPT ![s] = Answer(s, outcome)]
      /\ UNCHANGED <<locks, call, query, stmt, row>>
  BY DEF Respond
<1>3. ASSUME call[s].op \in LockOps
      PROVE  /\ \/ query[s] = "GetLock"
                \/ query[s] = IF call[s].op = "LOCK" THEN "AcquireLock" ELSE "ReleaseLock"
             /\ Answer(s, outcome).status = 200 => query[s] # "GetLock" /\ stmt[s] = "hit"
             /\ Answer(s, outcome).status = 423 => query[s] = "GetLock"
  <2>1. query[s] = FirstQuery[call[s].op] \/ query[s] = "GetLock"
    BY DEF WorkflowInv, Coherent, QueryFitsCall
  <2>2. FirstQuery[call[s].op] = IF call[s].op = "LOCK" THEN "AcquireLock" ELSE "ReleaseLock"
    BY <1>3 DEF FirstQuery, LockOps
  <2> QED BY <2>1, <2>2 DEF Answer, Response, ServerError
<1>4. TrueAnswers'
  BY <1>2, <1>3 DEF WorkflowInv, TypeOK, TrueAnswers, Hit, LockOps
<1>5. Answer(s, outcome).lock \in {row[s], None}
  BY DEF Answer, Response, ServerError
<1>6. \A t \in Slots, i \in LockIDs : Shown(t, i)' => Shown(t, i)
  BY <1>2, <1>5 DEF WorkflowInv, TypeOK, Shown, Hit
<1> QED BY <1>1, <1>2, <1>4, <1>6, HandlerStepInv DEF WorkflowInv, TypeOK, Pending, Hit

LEMMA ReceiveSafe ==
  ASSUME WorkflowInv, UNCHANGED clientVars, NEW s \in Slots, Receive(s)
  PROVE  WorkflowInv'
<1>1. CASE Respond(s, stmt[s])
  BY <1>1, RespondSafe DEF Receive, Settled
<1>2. CASE LookUpHolder(s) /\ stmt[s] = "miss"
  <2>1. TypeOK' /\ Coherent'
    BY ReceiveInv DEF WorkflowInv
  <2>2. reply[s] = None
    BY DEF Receive, WorkflowInv, Coherent
  <2>3. /\ pc' = [pc EXCEPT ![s] = "queued"] /\ query' = [query EXCEPT ![s] = "GetLock"]
        /\ stmt' = [stmt EXCEPT ![s] = "none"] /\ UNCHANGED <<locks, call, row, reply>>
    BY <1>2 DEF LookUpHolder
  <2>4. TrueAnswers'
    BY <2>2, <2>3 DEF WorkflowInv, TypeOK, TrueAnswers, Hit
  <2> QED BY <1>2, <2>1, <2>3, <2>4, HandlerStepInv DEF WorkflowInv, TypeOK, Shown, Pending, Hit
<1> QED BY <1>1, <1>2 DEF Receive

LEMMA CrashSafe ==
  ASSUME WorkflowInv, UNCHANGED clientVars, Crash
  PROVE  WorkflowInv'
<1>1. TypeOK' /\ Coherent'
  BY CrashInv DEF WorkflowInv
<1>2. UNCHANGED <<locks, call, query, stmt, row, reply>>
      /\ \A s \in Slots : pc'[s] = pc[s] \/ pc'[s] = "dropped"
  BY DEF Crash
<1>3. TrueAnswers'
  BY <1>2 DEF WorkflowInv, TrueAnswers, Hit
<1> QED BY <1>1, <1>2, <1>3, HandlerStepInv DEF WorkflowInv, TypeOK, Shown, Pending, Hit

\* The row of a client that takes or holds a lock outlives every statement.
LEMMA RowStays ==
  ASSUME WorkflowInv, UNCHANGED clientVars, NEW s \in Slots, Execute(s),
         NEW c \in Clients, phase[c] \in {"locking", "holding"},
         locks[home[c]] = lockId[c]
  PROVE  locks'[home[c]] = lockId[c]
<1>1. lockId[c] # None /\ home[c] \in Workspaces
  BY DEF WorkflowInv, ClientsFit
<1>2. CASE UNCHANGED locks
  BY <1>2
<1>3. CASE InsertLock(s)
  BY <1>1, <1>3 DEF InsertLock, WorkflowInv, TypeOK
<1>4. CASE DeleteLock(s)
  <2>1. call[s] # None /\ call[s].op # "LOCK" /\ query[s] = "ReleaseLock"
    BY <1>4 DEF DeleteLock, WorkflowInv, Coherent, QueryFitsCall, FirstQuery, Queries
  <2>2. call[s].id # lockId[c]
    BY <2>1 DEF WorkflowInv, NoStrayUnlock
  <2> QED BY <1>4, <2>1, <2>2 DEF DeleteLock, WorkflowInv, TypeOK
<1> QED BY <1>2, <1>3, <1>4
        DEF Execute, SelectState, UpsertState, DeleteStateRow, SelectLock, tables

\* A row appears by a LOCK, and that LOCK is waited for or its run not clean.
LEMMA RowComes ==
  ASSUME WorkflowInv, NEW s \in Slots, Execute(s),
         NEW w \in Workspaces, locks'[w] # None, locks'[w] # locks[w]
  PROVE  /\ InsertLock(s) /\ Hit(s, "AcquireLock")'
         /\ \/ locks'[w] \in astray
            \/ \E c \in Clients : /\ phase[c] = "locking" /\ conn[c] = s
                               /\ lockId[c] = locks'[w] /\ home[c] = w
<1>1. InsertLock(s)
  <2>1. CASE DeleteLock(s)
    BY <2>1 DEF DeleteLock, WorkflowInv, TypeOK
  <2> QED BY <2>1 DEF Execute, SelectState, UpsertState, DeleteStateRow, SelectLock, tables
<1>2. call[s].ws = w /\ call[s].id = locks'[w] /\ locks[w] = None
  BY <1>1 DEF InsertLock, WorkflowInv, TypeOK
<1>3. Hit(s, "AcquireLock")'
  BY <1>1, <1>2 DEF Execute, InsertLock, Settle, Hit, WorkflowInv, TypeOK
<1>4. ASSUME call[s].id \notin astray
      PROVE  \E c \in Clients : /\ phase[c] = "locking" /\ conn[c] = s
                               /\ lockId[c] = locks'[w] /\ home[c] = w
  <2>1. Pending(s)
    BY <1>1 DEF Pending, Execute, InsertLock
  <2>2. PICK c \in Clients : phase[c] = "locking" /\ conn[c] = s
    BY <1>4, <2>1 DEF WorkflowInv, Awaited
  <2>3. lockId[c] = call[s].id /\ home[c] = call[s].ws
    BY <2>2 DEF WorkflowInv, ClientsFit
  <2> QED BY <1>2, <2>2, <2>3
<1> QED BY <1>1, <1>2, <1>3, <1>4

\* A LOCK that shows the row after its statement has just taken it, or seen it.
LEMMA ExecuteShows ==
  ASSUME WorkflowInv, UNCHANGED clientVars, NEW s \in Slots, Execute(s)
  PROVE  GrantsStand'
<1>1. stmt[s] = "sent" /\ UNCHANGED <<pc, call, query, reply>>
  BY DEF Execute
<1>2. \A t \in Slots : t # s => stmt'[t] = stmt[t] /\ row'[t] = row[t]
  BY DEF Execute, SelectState, UpsertState, DeleteStateRow, InsertLock, DeleteLock,
         SelectLock, Settle, WorkflowInv, TypeOK
<1> SUFFICES ASSUME NEW c \in Clients, NEW t \in Slots,
                    phase[c] \in {"locking", "holding"}, call[t] # None,
                    call[t].id = lockId[c], Shown(t, lockId[c])'
             PROVE  locks'[home[c]] = lockId[c]
  BY <1>1 DEF clientVars, GrantsStand, Shown, Hit
<1>3. call[t].op = "LOCK" /\ call[t].ws = home[c] /\ home[c] \in Workspaces
      /\ lockId[c] # None
  BY DEF WorkflowInv, NoStrayUnlock, ClientsFit
<1>4. CASE Shown(t, lockId[c])
  BY <1>4, RowStays DEF WorkflowInv, GrantsStand
<1>5. CASE ~Shown(t, lockId[c])
  <2>1. t = s
    BY <1>1, <1>2, <1>5 DEF Shown, Hit, clientVars
  <2>2. query[s] \in {"AcquireLock", "GetLock"}
    BY <1>1, <1>3, <2>1 DEF WorkflowInv, Coherent, QueryFitsCall, FirstQuery
  <2>3. CASE InsertLock(s)
    <3>1. stmt'[s] = "hit"
      BY <1>1, <1>3, <1>5, <2>1, <2>3
         DEF InsertLock, Settle, Shown, Hit, WorkflowInv, TypeOK, clientVars
    <3>2. locks[call[s].ws] = None
      BY <2>3, <3>1 DEF InsertLock, Settle, WorkflowInv, TypeOK
    <3> QED BY <1>3, <2>1, <2>3, <3>2 DEF InsertLock, WorkflowInv, TypeOK
  <2>4. CASE SelectLock(s)
    <3>1. row'[s] = lockId[c]
      BY <1>1, <1>5, <2>1, <2>4 DEF SelectLock, Shown, Hit, clientVars
    <3> QED BY <1>3, <2>1, <2>4, <3>1 DEF SelectLock, Settle, tables, WorkflowInv, TypeOK
  <2> QED BY <2>2, <2>3, <2>4 DEF Execute, SelectState, UpsertState, DeleteStateRow, DeleteLock
<1> QED BY <1>4, <1>5

LEMMA ExecuteClean ==
  ASSUME WorkflowInv, UNCHANGED clientVars, NEW s \in Slots, Execute(s)
  PROVE  CleanRows'
<1>1. stmt[s] = "sent" /\ UNCHANGED <<pc, call, query, reply, conn>>
  BY DEF Execute, clientVars
<1>2. \A t \in Slots : t # s => stmt'[t] = stmt[t]
  BY DEF Execute, SelectState, UpsertState, DeleteStateRow, InsertLock, DeleteLock,
         SelectLock, Settle, WorkflowInv, TypeOK
<1> SUFFICES ASSUME NEW c \in Clients, phase[c] # "idle", lockId[c] \notin astray,
                    locks'[home[c]] = lockId[c]
             PROVE  /\ phase[c] = "locking" => conn[c] # None /\ Hit(conn[c], "AcquireLock")'
                    /\ phase[c] = "unlocking" /\ conn[c] # None => ~Hit(conn[c], "ReleaseLock")'
  BY DEF clientVars, CleanRows, Hit
<1>3. home[c] \in Workspaces /\ lockId[c] # None /\ conn[c] \in Slots \cup {None}
  BY DEF WorkflowInv, WorkflowTypeOK, ClientsFit
<1>4. CASE locks[home[c]] # lockId[c]
  <2>1. Hit(s, "AcquireLock")'
    BY <1>3, <1>4, RowComes
  <2>2. PICK d \in Clients : phase[d] = "locking" /\ conn[d] = s /\ lockId[d] = lockId[c]
    BY <1>3, <1>4, RowComes
  <2>3. d = c
    BY <1>3, <2>2 DEF WorkflowInv, OwnIDs
  <2> QED BY <1>1, <1>3, <2>1, <2>2, <2>3, NoneAssumption DEF Hit
<1>5. CASE locks[home[c]] = lockId[c]
  <2>1. phase[c] = "locking" => conn[c] # None /\ Hit(conn[c], "AcquireLock")'
    BY <1>1, <1>2, <1>3, <1>5 DEF WorkflowInv, CleanRows, Hit
  <2>2. ASSUME phase[c] = "unlocking", conn[c] # None, Hit(conn[c], "ReleaseLock")'
        PROVE  FALSE
    <3>1. conn[c] = s
      BY <1>2, <1>1, <1>3, <1>5, <2>2 DEF WorkflowInv, CleanRows, Hit
    <3>2. call[s].ws = home[c] /\ call[s].id = lockId[c]
      BY <2>2, <3>1 DEF WorkflowInv, ClientsFit
    <3>3. DeleteLock(s)
      BY <1>1, <2>2, <3>1 DEF Execute, SelectState, UpsertState, DeleteStateRow, InsertLock,
                            SelectLock, Hit
    <3>4. locks'[home[c]] = None
      BY <1>3, <1>5, <3>2, <3>3 DEF DeleteLock, WorkflowInv, TypeOK
    <3> QED BY <1>3, <3>4
  <2> QED BY <2>1, <2>2
<1> QED BY <1>4, <1>5

LEMMA ExecuteSafe ==
  ASSUME WorkflowInv, UNCHANGED clientVars, NEW s \in Slots, Execute(s)
  PROVE  WorkflowInv'
<1>1. TypeOK' /\ Coherent'
  BY ExecuteInv DEF WorkflowInv
<1>2. stmt[s] = "sent" /\ UNCHANGED <<pc, call, query, reply>>
  BY DEF Execute
<1>3. /\ stmt'[s] # "sent"
      /\ \A t \in Slots : t # s => stmt'[t] = stmt[t]
  BY DEF Execute, SelectState, UpsertState, DeleteStateRow, InsertLock, DeleteLock,
         SelectLock, Settle, WorkflowInv, TypeOK
<1>4. WorkflowTypeOK' /\ ClientsFit' /\ OwnIDs' /\ NoStrayUnlock'
  BY <1>2 DEF WorkflowInv, clientVars, WorkflowTypeOK, ClientsFit, OwnIDs, NoStrayUnlock
<1>5. HolderKeepsRow'
  BY RowStays DEF WorkflowInv, clientVars, HolderKeepsRow
<1>6. TrueAnswers'
  BY <1>2, <1>3 DEF WorkflowInv, TrueAnswers, Hit
<1>7. Awaited'
  <2>1. pc[s] # "queued"
    BY <1>2 DEF WorkflowInv, Coherent
  <2> QED BY <1>2, <1>3, <2>1 DEF WorkflowInv, clientVars, Awaited, Pending
<1>8. NothingLeft'
  BY RowComes DEF WorkflowInv, clientVars, NothingLeft
<1> QED BY <1>1, <1>4, <1>5, <1>6, <1>7, <1>8, ExecuteShows, ExecuteClean DEF WorkflowInv

LEMMA FinishSafe ==
  ASSUME WorkflowInv, UNCHANGED clientVars, NEW s \in Slots, Finish(s),
         \A c \in Clients : conn[c] # s
  PROVE  WorkflowInv'
<1>1. TypeOK' /\ Coherent'
  BY FinishInv DEF WorkflowInv
<1>2. UNCHANGED locks /\ call'[s] = None /\ query'[s] = None
      /\ \A t \in Slots : t # s => /\ pc'[t] = pc[t] /\ call'[t] = call[t]
                                  /\ query'[t] = query[t] /\ stmt'[t] = stmt[t]
                                  /\ row'[t] = row[t] /\ reply'[t] = reply[t]
  BY DEF Finish, tables, WorkflowInv, TypeOK
<1>3. WorkflowTypeOK' /\ OwnIDs' /\ HolderKeepsRow' /\ NothingLeft'
  BY <1>2 DEF WorkflowInv, clientVars, WorkflowTypeOK, OwnIDs, HolderKeepsRow, NothingLeft
<1>4. ClientsFit'
  BY <1>2 DEF WorkflowInv, clientVars, WorkflowTypeOK, ClientsFit
<1>5. NoStrayUnlock' /\ GrantsStand' /\ TrueAnswers'
  BY <1>2 DEF WorkflowInv, clientVars, NoStrayUnlock, GrantsStand, TrueAnswers, Shown, Hit
<1>6. Awaited'
  BY <1>2 DEF WorkflowInv, clientVars, Awaited, Pending, Queries
<1>7. CleanRows'
  BY <1>2 DEF WorkflowInv, clientVars, WorkflowTypeOK, CleanRows, Hit
<1> QED BY <1>1, <1>3, <1>4, <1>5, <1>6, <1>7 DEF WorkflowInv

\* The gateway alone keeps the invariant.
LEMMA GatewayNextSafe ==
  ASSUME WorkflowInv, GatewayNext
  PROVE  WorkflowInv'
<1>1. UNCHANGED clientVars
  BY DEF GatewayNext
<1>2. ASSUME NEW s \in Slots, Progress(s)
      PROVE  WorkflowInv'
  <2>1. CASE QueryError(s)
    BY <1>1, <2>1, RespondSafe DEF QueryError
  <2> QED BY <1>1, <1>2, <2>1, AcquireSafe, ExecuteSafe, FailSafe, ReceiveSafe DEF Progress
<1> QED BY <1>1, <1>2, FinishSafe, CrashSafe DEF GatewayNext

-----------------------------------------------------------------------------
(* The clients move.                                                       *)

\* What every request of a client has in common: it takes an idle slot, and the
\* others are as they were.
LEMMA SendFacts ==
  ASSUME WorkflowInv, NEW c \in Clients, NEW s \in Slots, NEW r \in Calls, Send(c, s, r)
  PROVE  /\ TypeOK' /\ Coherent' /\ TrueAnswers' /\ UNCHANGED locks
         /\ conn[c] = None /\ conn' = [conn EXCEPT ![c] = s]
         /\ pc'[s] # "idle" /\ call'[s] = r
         /\ \A d \in Clients : conn[d] # s
         /\ \A t \in Slots : t # s => pc'[t] = pc[t] /\ call'[t] = call[t]
<1>1. TypeOK' /\ Coherent'
  BY EnterInv DEF Send, WorkflowInv
<1>2. pc[s] = "idle" /\ stmt[s] = "none" /\ reply[s] = None
  BY DEF Send, Enter, WorkflowInv, Coherent, QueryFitsCall
<1>3. TrueAnswers'
  BY <1>2 DEF Send, Enter, WorkflowInv, TypeOK, TrueAnswers, Hit
<1>4. \A d \in Clients : conn[d] # s
  BY <1>2 DEF WorkflowInv, ClientsFit
<1> QED BY <1>1, <1>2, <1>3, <1>4 DEF Send, Enter, WorkflowInv, TypeOK

\* A request just sent has shown nothing yet, and is pending if it is a LOCK.
LEMMA SendShowsNothing ==
  ASSUME WorkflowInv, NEW c \in Clients, NEW s \in Slots, NEW r \in Calls, Send(c, s, r)
  PROVE  /\ UNCHANGED <<stmt, row, reply>>
         /\ stmt[s] = "none" /\ row[s] = None /\ reply[s] = None
         /\ query'[s] = "AcquireLock" => r.op = "LOCK"
         /\ \A t \in Slots : t # s => query'[t] = query[t]
<1>1. stmt[s] = "none" /\ reply[s] = None /\ row[s] = None
  BY DEF Send, Enter, WorkflowInv, Coherent, QueryFitsCall
<1>2. query' = [query EXCEPT ![s] = FirstQuery[r.op]] /\ UNCHANGED <<stmt, row, reply>>
  BY DEF Send, Enter
<1>3. FirstQuery[r.op] = "AcquireLock" => r.op = "LOCK"
  BY DEF FirstQuery, Calls, Ops
<1> QED BY <1>1, <1>2, <1>3 DEF WorkflowInv, TypeOK

LEMMA StartLockSafe ==
  ASSUME WorkflowInv, NEW c \in Clients, NEW s \in Slots, NEW w \in Workspaces,
         NEW i \in LockIDs, StartLock(c, s, w, i)
  PROVE  WorkflowInv'
<1> DEFINE r == Request("LOCK", w, i, None)
<1>1. r \in Calls
  BY DEF Request, Calls, Ops, LockOps
<1> USE <1>1, SendFacts, SendShowsNothing DEF StartLock
<1>2. r.op = "LOCK" /\ r.ws = w /\ r.id = i /\ i # None
  BY DEF Request
<1>3. TypeOK' /\ Coherent' /\ TrueAnswers'
  OBVIOUS
<1>4. WorkflowTypeOK'
  BY DEF WorkflowInv, WorkflowTypeOK
<1>5. ClientsFit'
  BY <1>2 DEF WorkflowInv, WorkflowTypeOK, ClientsFit, LockOps
<1>6. OwnIDs'
  BY DEF WorkflowInv, WorkflowTypeOK, OwnIDs, Fresh
<1>7. NoStrayUnlock'
  BY <1>2 DEF WorkflowInv, WorkflowTypeOK, NoStrayUnlock, Fresh
<1>8. GrantsStand'
  <2> SUFFICES ASSUME NEW d \in Clients, NEW t \in Slots, NEW j, j = lockId'[d],
                      phase'[d] \in {"locking", "holding"}, call'[t] # None, call'[t].id = j,
                      Shown(t, j)'
               PROVE  locks[home'[d]] = j
    BY DEF GrantsStand, Shown, Hit
  <2>1. j \in LockIDs
    BY <1>4, <1>5 DEF WorkflowTypeOK, ClientsFit
  <2>2. t # s /\ Shown(t, j)
    BY <2>1 DEF Shown, Hit
  <2>3. call[t] # None /\ call[t].id = j
    BY <2>2
  <2>4. d # c
    BY <2>3 DEF WorkflowInv, WorkflowTypeOK, Fresh
  <2>5. phase[d] = phase'[d] /\ home[d] = home'[d] /\ lockId[d] = j
    BY <2>4 DEF WorkflowInv, WorkflowTypeOK
  <2> QED BY <2>2, <2>3, <2>5 DEF WorkflowInv, GrantsStand
<1>9. HolderKeepsRow'
  BY DEF WorkflowInv, WorkflowTypeOK, HolderKeepsRow
<1>10. Awaited'
  <2> SUFFICES ASSUME NEW t \in Slots, Pending(t)', call'[t].id \notin astray'
               PROVE  \E d \in Clients : phase'[d] = "locking" /\ conn'[d] = t
    BY DEF Awaited
  <2>1. CASE t = s
    BY <2>1 DEF WorkflowInv, WorkflowTypeOK, Pending
  <2>2. CASE t # s
    <3>1. Pending(t) /\ call[t] # None /\ call'[t] = call[t]
      BY <2>2 DEF WorkflowInv, Coherent, QueryFitsCall, Pending
    <3>2. call[t].id \notin astray
      BY <3>1 DEF Fresh
    <3>3. PICK d \in Clients : phase[d] = "locking" /\ conn[d] = t
      BY <3>1, <3>2 DEF WorkflowInv, Awaited
    <3> QED BY <3>3 DEF WorkflowInv, WorkflowTypeOK
  <2> QED BY <2>1, <2>2
<1>11. CleanRows'
  <2> SUFFICES ASSUME NEW d \in Clients, NEW e, e = conn'[d],
                      phase'[d] # "idle", lockId'[d] \notin astray', locks[home'[d]] = lockId'[d]
               PROVE  /\ phase'[d] = "locking" => e # None /\ Hit(e, "AcquireLock")'
                      /\ phase'[d] = "unlocking" /\ e # None => ~Hit(e, "ReleaseLock")'
    BY DEF CleanRows, Hit
  <2>1. d # c
    BY <1>2 DEF WorkflowInv, WorkflowTypeOK, Fresh
  <2>2. phase[d] = phase'[d] /\ lockId[d] = lockId'[d] /\ home[d] = home'[d] /\ conn[d] = e
    BY <2>1 DEF WorkflowInv, WorkflowTypeOK
  <2>3. lockId[d] \notin astray
    BY <2>1, <2>2 DEF WorkflowInv, WorkflowTypeOK, Fresh, ClientsFit
  <2>4. e # None => e \in Slots /\ e # s
    BY <2>2 DEF WorkflowInv, WorkflowTypeOK
  <2> QED BY <2>2, <2>3, <2>4 DEF WorkflowInv, CleanRows, Hit
<1>12. NothingLeft'
  BY DEF WorkflowInv, WorkflowTypeOK, NothingLeft, ClientsFit, Fresh
<1> QED BY <1>3, <1>4, <1>5, <1>6, <1>7, <1>8, <1>9, <1>10, <1>11, <1>12 DEF WorkflowInv

\* A client that sends for its own workspace under its own ID, and no UNLOCK
\* unless it is unlocking then, harms nobody.
LEMMA OwnRequestSafe ==
  ASSUME WorkflowInv, NEW c \in Clients, NEW s \in Slots, NEW r \in Calls, Send(c, s, r),
         phase[c] # "idle", UNCHANGED <<lockId, home, astray>>,
         \/ UNCHANGED phase
         \/ phase' = [phase EXCEPT ![c] = "unlocking"],
         r.ws = home[c],
         phase'[c] = "holding" <=> r.op \notin LockOps,
         phase'[c] = "locking" <=> r.op = "LOCK",
         IF phase'[c] = "holding" THEN r.id = None ELSE r.id = lockId[c]
  PROVE  WorkflowInv'
<1> USE SendFacts, SendShowsNothing
<1>1. TypeOK' /\ Coherent' /\ TrueAnswers'
  OBVIOUS
<1>2. \A d \in Clients : phase'[d] \in {"locking", "holding"} => phase[d] = phase'[d]
  BY DEF WorkflowInv, WorkflowTypeOK
<1>3. phase'[c] # "idle" /\ \A d \in Clients : d # c => UNCHANGED <<phase[d], conn[d]>>
  BY DEF WorkflowInv, WorkflowTypeOK
<1>4. WorkflowTypeOK' /\ OwnIDs'
  BY DEF WorkflowInv, WorkflowTypeOK, OwnIDs
<1>5. ClientsFit'
  BY <1>3 DEF WorkflowInv, WorkflowTypeOK, ClientsFit
<1>6. NoStrayUnlock'
  <2> SUFFICES ASSUME NEW d \in Clients, NEW t \in Slots,
                      phase'[d] \in {"locking", "holding"},
                      call'[t] # None, call'[t].id = lockId[d]
               PROVE  call'[t].op = "LOCK" /\ call'[t].ws = home[d]
    BY DEF NoStrayUnlock
  <2>1. lockId[d] # None /\ (lockId[d] = lockId[c] => d = c)
    BY <1>2 DEF WorkflowInv, ClientsFit, OwnIDs
  <2>2. CASE t = s
    BY <2>1, <2>2
  <2>3. CASE t # s
    BY <1>2, <2>3 DEF WorkflowInv, NoStrayUnlock
  <2> QED BY <2>2, <2>3
<1>7. GrantsStand'
  <2> SUFFICES ASSUME NEW d \in Clients, NEW t \in Slots, NEW j, j = lockId[d],
                      phase'[d] \in {"locking", "holding"}, call'[t] # None, call'[t].id = j,
                      Shown(t, j)'
               PROVE  locks[home[d]] = j
    BY DEF GrantsStand, Shown, Hit
  <2>1. j \in LockIDs
    BY <1>2 DEF WorkflowInv, WorkflowTypeOK, ClientsFit
  <2>2. t # s /\ Shown(t, j)
    BY <2>1 DEF Shown, Hit
  <2> QED BY <1>2, <2>2 DEF WorkflowInv, GrantsStand
<1>8. HolderKeepsRow' /\ NothingLeft'
  BY <1>2 DEF WorkflowInv, HolderKeepsRow, NothingLeft
<1>9. Awaited'
  <2> SUFFICES ASSUME NEW t \in Slots, Pending(t)', call'[t].id \notin astray
               PROVE  \E d \in Clients : phase'[d] = "locking" /\ conn'[d] = t
    BY DEF Awaited
  <2>1. CASE t = s
    BY <2>1 DEF WorkflowInv, WorkflowTypeOK, Pending
  <2>2. CASE t # s
    <3>1. PICK d \in Clients : phase[d] = "locking" /\ conn[d] = t
      BY <2>2 DEF WorkflowInv, Awaited, Pending
    <3>2. d # c
      BY <3>1
    <3> QED BY <1>3, <3>1, <3>2
  <2> QED BY <2>1, <2>2
<1>10. CleanRows'
  <2> SUFFICES ASSUME NEW d \in Clients, NEW e, e = conn'[d],
                      phase'[d] # "idle", lockId[d] \notin astray, locks[home[d]] = lockId[d]
               PROVE  /\ phase'[d] = "locking" => e # None /\ Hit(e, "AcquireLock")'
                      /\ phase'[d] = "unlocking" /\ e # None => ~Hit(e, "ReleaseLock")'
    BY DEF CleanRows, Hit
  <2>1. CASE d = c
    <3>1. phase'[c] # "locking"
      BY <1>2, <2>1 DEF WorkflowInv, CleanRows
    <3>2. e = s
      BY <2>1 DEF WorkflowInv, WorkflowTypeOK
    <3> QED BY <2>1, <3>1, <3>2 DEF Hit
  <2>2. CASE d # c
    <3>1. phase[d] = phase'[d] /\ conn[d] = e
      BY <1>3, <2>2
    <3>2. e # None => e \in Slots /\ e # s
      BY <3>1 DEF WorkflowInv, WorkflowTypeOK
    <3> QED BY <3>1, <3>2 DEF WorkflowInv, CleanRows, Hit
  <2> QED BY <2>1, <2>2
<1> QED BY <1>1, <1>4, <1>5, <1>6, <1>7, <1>8, <1>9, <1>10 DEF WorkflowInv

LEMMA ClientRequestsSafe ==
  ASSUME WorkflowInv, NEW c \in Clients, NEW s \in Slots,
         \/ RetryLock(c, s)
         \/ Unlock(c, s)
         \/ \E op \in StateOps, b \in Bodies \cup {None} : UseState(c, s, op, b)
  PROVE  WorkflowInv'
<1>1. lockId[c] \in LockIDs \cup {None} /\ (phase[c] # "idle" => home[c] \in Workspaces /\ lockId[c] # None)
  BY DEF WorkflowInv, WorkflowTypeOK, ClientsFit
<1>2. CASE RetryLock(c, s)
  <2> DEFINE r == Request("LOCK", home[c], lockId[c], None)
  <2>1. r \in Calls /\ Send(c, s, r)
    BY <1>1, <1>2 DEF RetryLock, Request, Calls, Ops, LockOps
  <2>2. r.op = "LOCK" /\ r.id = lockId[c] /\ r.ws = home[c]
    BY DEF Request
  <2> HIDE DEF r
  <2>3. phase'[c] = "locking"
    BY <1>2 DEF RetryLock
  <2> QED BY <1>2, <2>1, <2>2, <2>3, OwnRequestSafe DEF RetryLock, LockOps
<1>3. CASE Unlock(c, s)
  <2> DEFINE r == Request("UNLOCK", home[c], lockId[c], None)
  <2>1. r \in Calls /\ Send(c, s, r)
    BY <1>1, <1>3 DEF Unlock, Request, Calls, Ops, LockOps
  <2>2. r.op = "UNLOCK" /\ r.id = lockId[c] /\ r.ws = home[c]
    BY DEF Request
  <2>3. phase'[c] = "unlocking"
    BY <1>3 DEF Unlock, WorkflowInv, WorkflowTypeOK
  <2> HIDE DEF r
  <2> QED BY <1>3, <2>1, <2>2, <2>3, OwnRequestSafe DEF Unlock, LockOps
<1>4. ASSUME NEW op \in StateOps, NEW b \in Bodies \cup {None},
             UseState(c, s, op, b)
      PROVE  WorkflowInv'
  <2> DEFINE r == Request(op, home[c], None, b)
  <2>1. r \in Calls /\ Send(c, s, r)
    BY <1>1, <1>4 DEF UseState, Request, Calls, Ops, LockOps
  <2>2. r.op \notin LockOps /\ r.id = None /\ r.ws = home[c]
    BY DEF Request, LockOps
  <2>3. phase'[c] = "holding"
    BY <1>4 DEF UseState
  <2> HIDE DEF r
  <2> QED BY <1>4, <2>1, <2>2, <2>3, OwnRequestSafe DEF UseState, LockOps
<1> QED BY <1>2, <1>3, <1>4

\* A client stops waiting.  Its LOCK then either goes into the doubtful ones, or has
\* neither the row nor a statement that could still take it.
LEMMA HangUpSafe ==
  ASSUME WorkflowInv, NEW c \in Clients, conn[c] # None,
         UNCHANGED <<gatewayVars, lockId, home>>, conn' = [conn EXCEPT ![c] = None],
         \/ UNCHANGED phase
         \/ /\ phase[c] = "locking" /\ phase' = [phase EXCEPT ![c] = "holding"]
            /\ locks[home[c]] = lockId[c],
         astray \subseteq astray', astray' \subseteq LockIDs,
         phase[c] = "locking" /\ lockId[c] \notin astray' =>
           ~Pending(conn[c]) /\ (locks[home[c]] = lockId[c] => phase'[c] = "holding")
  PROVE  WorkflowInv'
<1> USE DEF gatewayVars
<1>1. TypeOK' /\ Coherent' /\ TrueAnswers'
  BY DEF WorkflowInv, TypeOK, Coherent, QueryFitsCall, ResultFitsQuery, TrueAnswers, Hit
<1>2. WorkflowTypeOK' /\ ClientsFit' /\ OwnIDs'
  BY DEF WorkflowInv, WorkflowTypeOK, ClientsFit, OwnIDs
<1>3. NoStrayUnlock' /\ GrantsStand' /\ HolderKeepsRow'
  BY DEF WorkflowInv, WorkflowTypeOK, NoStrayUnlock, GrantsStand, Shown, Hit, HolderKeepsRow
<1>4. Awaited'
  <2> SUFFICES ASSUME NEW t \in Slots, Pending(t), call[t].id \notin astray'
               PROVE  \E d \in Clients : phase'[d] = "locking" /\ conn'[d] = t
    BY DEF Awaited, Pending
  <2>1. PICK d \in Clients : phase[d] = "locking" /\ conn[d] = t
    BY DEF WorkflowInv, Awaited
  <2>2. lockId[d] = call[t].id
    BY <2>1, NoneAssumption DEF WorkflowInv, ClientsFit
  <2>3. d # c
    BY <2>1, <2>2
  <2> QED BY <2>1, <2>3 DEF WorkflowInv, WorkflowTypeOK
<1>5. CleanRows'
  <2> SUFFICES ASSUME NEW d \in Clients, phase'[d] # "idle", lockId[d] \notin astray',
                      locks[home[d]] = lockId[d]
               PROVE  /\ phase'[d] = "locking" => conn'[d] # None /\ Hit(conn'[d], "AcquireLock")
                      /\ phase'[d] = "unlocking" /\ conn'[d] # None => ~Hit(conn'[d], "ReleaseLock")
    BY DEF CleanRows, Hit
  <2>1. CASE d = c
    BY <2>1 DEF WorkflowInv, WorkflowTypeOK
  <2>2. CASE d # c
    BY <2>2 DEF WorkflowInv, WorkflowTypeOK, CleanRows
  <2> QED BY <2>1, <2>2
<1>6. NothingLeft'
  BY DEF WorkflowInv, NothingLeft
<1> QED BY <1>1, <1>2, <1>3, <1>4, <1>5, <1>6 DEF WorkflowInv

\* A client goes.  Unless its run is a doubtful one, no row has its ID, and no LOCK of
\* its is under way.
LEMMA LeaveSafe ==
  ASSUME WorkflowInv, NEW c \in Clients, Leave(c), UNCHANGED gatewayVars,
         astray \subseteq astray', astray' \subseteq LockIDs,
         lockId[c] \notin astray' =>
           /\ locks[home[c]] # lockId[c]
           /\ phase[c] = "locking" => conn[c] = None
  PROVE  WorkflowInv'
<1> USE DEF gatewayVars
<1>1. TypeOK' /\ Coherent' /\ TrueAnswers'
  BY DEF WorkflowInv, TypeOK, Coherent, QueryFitsCall, ResultFitsQuery, TrueAnswers, Hit
<1>2. WorkflowTypeOK' /\ ClientsFit' /\ OwnIDs'
  BY DEF Leave, WorkflowInv, WorkflowTypeOK, ClientsFit, OwnIDs
<1>3. NoStrayUnlock' /\ GrantsStand' /\ HolderKeepsRow'
  BY DEF Leave, WorkflowInv, WorkflowTypeOK, NoStrayUnlock, GrantsStand, Shown, Hit, HolderKeepsRow
<1>4. Awaited'
  <2> SUFFICES ASSUME NEW t \in Slots, Pending(t), call[t].id \notin astray'
               PROVE  \E d \in Clients : phase'[d] = "locking" /\ conn'[d] = t
    BY DEF Awaited, Pending
  <2>1. PICK d \in Clients : phase[d] = "locking" /\ conn[d] = t
    BY DEF WorkflowInv, Awaited
  <2>2. lockId[d] = call[t].id /\ conn[d] # None
    BY <2>1, NoneAssumption DEF WorkflowInv, ClientsFit
  <2>3. d # c
    BY <2>1, <2>2
  <2> QED BY <2>1, <2>3 DEF Leave, WorkflowInv, WorkflowTypeOK
<1>5. CleanRows'
  BY DEF Leave, WorkflowInv, WorkflowTypeOK, CleanRows, Hit
<1>6. NothingLeft'
  BY DEF Leave, WorkflowInv, WorkflowTypeOK, NothingLeft
<1> QED BY <1>1, <1>2, <1>3, <1>4, <1>5, <1>6 DEF WorkflowInv

LEMMA DoubtFacts ==
  ASSUME WorkflowInv, NEW c \in Clients, phase[c] # "idle", NEW unclean, Doubt(c, unclean)
  PROVE  /\ astray \subseteq astray' /\ astray' \subseteq LockIDs
         /\ unclean => lockId[c] \in astray'
  BY DEF Doubt, WorkflowInv, WorkflowTypeOK, ClientsFit

\* A client waits for the answer to its own LOCK or UNLOCK.
LEMMA HearFacts ==
  ASSUME WorkflowInv, NEW c \in Clients, Hear(c)
  PROVE  /\ conn[c] \in Slots /\ phase[c] # "idle"
         /\ call[conn[c]] # None /\ reply[conn[c]] # None
         /\ phase[c] = "locking" => call[conn[c]].op = "LOCK" /\ call[conn[c]].id = lockId[c]
         /\ phase[c] = "unlocking" => call[conn[c]].op = "UNLOCK" /\ call[conn[c]].id = lockId[c]
<1> DEFINE s == conn[c]
<1>1. s \in Slots /\ phase[c] # "idle" /\ pc[s] = "replied"
  BY DEF Hear, WorkflowInv, WorkflowTypeOK, ClientsFit
<1>2. call[s] # None /\ reply[s] # None
  BY <1>1 DEF WorkflowInv, Coherent
<1>3. phase[c] = "unlocking" => call[s].op \in LockOps /\ call[s].op # "LOCK" /\ call[s].id = lockId[c]
  BY <1>1 DEF Hear, WorkflowInv, ClientsFit
<1> QED BY <1>1, <1>2, <1>3 DEF Hear, WorkflowInv, ClientsFit, LockOps

\* A 200 to its LOCK is its own grant, and the row is still there.
LEMMA HearGrant ==
  ASSUME WorkflowInv, NEW c \in Clients, Hear(c), phase[c] = "locking", reply[conn[c]].status = 200
  PROVE  Hit(conn[c], "AcquireLock") /\ locks[home[c]] = lockId[c]
<1>1. Hit(conn[c], "AcquireLock")
  BY HearFacts DEF WorkflowInv, TrueAnswers
<1> QED BY <1>1, HearFacts DEF WorkflowInv, GrantsStand, Shown

\* An answer: 200 to the LOCK a client waits for is its own grant, 423 leaves it nothing,
\* and with 200 to its UNLOCK the row is gone.
LEMMA HearSafe ==
  ASSUME WorkflowInv, NEW c \in Clients, Hear(c)
  PROVE  WorkflowInv'
<1> DEFINE s == conn[c]
<1>1. s \in Slots /\ phase[c] # "idle" /\ pc[s] = "replied" /\ UNCHANGED gatewayVars
      /\ Doubt(c, phase[c] = "locking" /\ reply[s].status \notin {200, 423})
  BY HearFacts DEF Hear
<1>2. /\ call[s] # None /\ reply[s] # None
      /\ phase[c] = "locking" => call[s].op = "LOCK"
      /\ phase[c] = "unlocking" => call[s].op = "UNLOCK"
  BY HearFacts
<1>3. /\ astray \subseteq astray' /\ astray' \subseteq LockIDs
      /\ phase[c] = "locking" /\ reply[s].status \notin {200, 423} => lockId[c] \in astray'
  BY <1>1 DEF Doubt, WorkflowInv, WorkflowTypeOK, ClientsFit
<1>4. CASE phase[c] = "unlocking" /\ reply[s].status = 200
  <2>1. Hit(s, "ReleaseLock")
    BY <1>1, <1>2, <1>4 DEF WorkflowInv, TrueAnswers
  <2>2. lockId[c] \notin astray' => locks[home[c]] # lockId[c]
    BY <1>1, <1>3, <1>4, <2>1 DEF Hear, WorkflowInv, CleanRows
  <2> QED BY <1>1, <1>3, <1>4, <2>2, LeaveSafe DEF Hear
<1>5. CASE phase[c] = "locking" /\ reply[s].status = 200
  <2>1. Hit(s, "AcquireLock")
    BY <1>5, HearGrant
  <2>2. locks[home[c]] = lockId[c]
    BY <1>5, HearGrant
  <2>3. ~Pending(s)
    BY <1>1, <2>1 DEF Pending, Hit
  <2>4. phase' = [phase EXCEPT ![c] = "holding"] /\ phase'[c] = "holding"
    BY <1>5 DEF Hear, WorkflowInv, WorkflowTypeOK
  <2> QED BY <1>1, <1>3, <1>5, <2>2, <2>3, <2>4, HangUpSafe DEF Hear
<1>6. CASE phase[c] = "locking" /\ reply[s].status = 423
  <2>1. query[s] = "GetLock"
    BY <1>1, <1>2, <1>6 DEF WorkflowInv, TrueAnswers
  <2>2. ~Pending(s) /\ ~Hit(s, "AcquireLock")
    BY <2>1 DEF Pending, Hit
  <2>3. lockId[c] \notin astray' => locks[home[c]] # lockId[c]
    BY <1>3, <1>6, <2>2 DEF WorkflowInv, CleanRows
  <2> QED BY <1>1, <1>3, <1>6, <2>2, <2>3, HangUpSafe DEF Hear
<1>7. CASE /\ ~(phase[c] = "unlocking" /\ reply[s].status = 200)
           /\ ~(phase[c] = "locking" /\ reply[s].status \in {200, 423})
  BY <1>1, <1>3, <1>7, HangUpSafe DEF Hear
<1> QED BY <1>4, <1>5, <1>6, <1>7

LEMMA WithdrawSafe ==
  ASSUME WorkflowInv, NEW c \in Clients, TimeOut(c) \/ GiveUp(c)
  PROVE  WorkflowInv'
<1>1. CASE TimeOut(c)
  <2>1. phase[c] # "idle"
    BY <1>1 DEF TimeOut, WorkflowInv, ClientsFit
  <2>2. /\ astray \subseteq astray' /\ astray' \subseteq LockIDs
        /\ phase[c] = "locking" => lockId[c] \in astray'
    BY <1>1, <2>1, DoubtFacts DEF TimeOut
  <2> QED BY <1>1, <2>2, HangUpSafe DEF TimeOut
<1>2. CASE GiveUp(c)
  <2>1. /\ astray \subseteq astray' /\ astray' \subseteq LockIDs
        /\ phase[c] # "locking" \/ conn[c] # None => lockId[c] \in astray'
    BY <1>2, DoubtFacts DEF GiveUp
  <2>2. lockId[c] \notin astray' => locks[home[c]] # lockId[c]
    BY <1>2, <2>1 DEF GiveUp, WorkflowInv, CleanRows
  <2> QED BY <1>2, <2>1, <2>2, LeaveSafe DEF GiveUp
<1> QED BY <1>1, <1>2

-----------------------------------------------------------------------------
\* The invariant of clients, gateway and tables together.
THEOREM WorkflowInvariant == WorkflowSpec => []WorkflowInv
<1>1. WorkflowInv /\ [WorkflowNext]_vars => WorkflowInv'
  <2> SUFFICES ASSUME WorkflowInv, [WorkflowNext]_vars PROVE WorkflowInv'
    OBVIOUS
  <2>1. CASE UNCHANGED vars
    BY <2>1 DEF vars, gatewayVars, clientVars, WorkflowInv, TypeOK, Coherent, QueryFitsCall,
       ResultFitsQuery, WorkflowTypeOK, ClientsFit, OwnIDs, NoStrayUnlock, GrantsStand, Shown,
       Hit, TrueAnswers, HolderKeepsRow, Awaited, Pending, CleanRows, NothingLeft
  <2>2. CASE GatewayNext
    BY <2>2, GatewayNextSafe
  <2>3. ASSUME NEW c \in Clients, ClientNext(c)
        PROVE  WorkflowInv'
    BY <2>3, StartLockSafe, ClientRequestsSafe, HearSafe, WithdrawSafe DEF ClientNext
  <2> QED BY <2>1, <2>2, <2>3 DEF WorkflowNext
<1> QED BY <1>1, WorkflowInitInv, PTL DEF WorkflowSpec

\* The row of a held lock stays until its holder sends UNLOCK (lock_repository.go,
\* Release: DELETE ... WHERE workspace AND lock_id).
THEOREM HolderKeepsRowTheorem == WorkflowSpec => []HolderKeepsRow
<1>1. WorkflowInv => HolderKeepsRow
  BY DEF WorkflowInv
<1> QED BY <1>1, WorkflowInvariant, PTL

\* No two clients hold the lock of one workspace (lock_repository.go, Acquire:
\* INSERT ... ON CONFLICT DO NOTHING), whatever was retried, late or abandoned.
THEOREM MutualExclusionTheorem == WorkflowSpec => []MutualExclusion
<1>1. WorkflowInv => MutualExclusion
  <2> SUFFICES ASSUME WorkflowInv, NEW w \in Workspaces, NEW c \in Clients, NEW d \in Clients,
                      Holds(c, w), Holds(d, w), c # d
               PROVE  FALSE
    BY DEF MutualExclusion
  <2>1. locks[w] = lockId[c] /\ locks[w] = lockId[d]
    BY DEF WorkflowInv, HolderKeepsRow, Holds
  <2>2. lockId[c] # None /\ lockId[c] # lockId[d]
    BY DEF WorkflowInv, OwnIDs, ClientsFit, Holds
  <2> QED BY <2>1, <2>2
<1> QED BY <1>1, WorkflowInvariant, PTL

\* A run that was not cut off leaves no lock behind (handler.go, LockHandler: 200 for a
\* row the INSERT made, 423 for one that was there, and neither lies).
THEOREM NothingLeftTheorem == WorkflowSpec => []NothingLeft
<1>1. WorkflowInv => NothingLeft
  BY DEF WorkflowInv
<1> QED BY <1>1, WorkflowInvariant, PTL

\* A LOCK that meets the client's own row has been granted before (handler.go,
\* LockHandler: every row is a conflict, the client's own too).
THEOREM OwnConflictTheorem == WorkflowSpec => []OwnConflict
<1>1. WorkflowInv => OwnConflict
  BY DEF WorkflowInv, GrantsStand, Shown, OwnConflict
<1> QED BY <1>1, WorkflowInvariant, PTL

\* Only the UPSERT and the DELETE of a state change one, the one of their request.
LEMMA WriteFacts ==
  ASSUME WorkflowInv, [WorkflowNext]_vars, NEW w \in Workspaces, states'[w] # states[w]
  PROVE  \E s \in Slots : /\ stmt[s] = "sent" /\ stmt'[s] = "hit" /\ call[s].ws = w
                          /\ query[s] \in {"UpdateState", "DeleteState"}
<1>1. PICK s \in Slots : Execute(s)
  <2>1. CASE GatewayNext
    BY <2>1 DEF GatewayNext, Progress, Acquire, Fail, Receive, LookUpHolder, QueryError, Respond,
                Finish, Crash, tables
  <2>2. ASSUME NEW c \in Clients, ClientNext(c)
        PROVE  UNCHANGED states
    BY <2>2 DEF ClientNext, StartLock, RetryLock, UseState, Unlock, Send, Enter, Hear, TimeOut,
                GiveUp, gatewayVars
  <2> QED BY <2>1, <2>2 DEF WorkflowNext, vars, gatewayVars
<1>2. UpsertState(s) \/ DeleteStateRow(s)
  BY <1>1 DEF Execute, SelectState, InsertLock, DeleteLock, SelectLock, tables
<1>3. call[s].ws = w /\ query[s] \in {"UpdateState", "DeleteState"}
  BY <1>2 DEF UpsertState, DeleteStateRow, WorkflowInv, TypeOK
<1>4. stmt[s] = "sent" /\ stmt'[s] = "hit"
  BY <1>1, <1>2 DEF Execute, UpsertState, DeleteStateRow, Settle, WorkflowInv, TypeOK
<1> QED BY <1>3, <1>4

\* A state changes under the lock of the client that waits for the change, or by a request
\* that nobody waits for any more (handler.go, UpdateStateHandler and DeleteStateHandler
\* ask for no lock: it is the clients' order that makes it so).
THEOREM WritesTheorem == WorkflowSpec => WritesUnderLock
<1>1. WorkflowInv /\ [WorkflowNext]_vars => [WriteUnderLock]_vars
  <2> SUFFICES ASSUME WorkflowInv, [WorkflowNext]_vars, NEW w \in Workspaces, states'[w] # states[w]
               PROVE  \E s \in Slots :
                        /\ stmt[s] = "sent" /\ stmt'[s] = "hit" /\ call[s].ws = w
                        /\ \A c \in Clients : conn[c] = s => Holds(c, w) /\ locks[w] = lockId[c]
    BY DEF WriteUnderLock
  <2>1. PICK s \in Slots : /\ stmt[s] = "sent" /\ stmt'[s] = "hit" /\ call[s].ws = w
                           /\ query[s] \in {"UpdateState", "DeleteState"}
    BY WriteFacts
  <2>2. ASSUME NEW c \in Clients, conn[c] = s
        PROVE  Holds(c, w) /\ locks[w] = lockId[c]
    <3>1. call[s].op \notin LockOps
      BY <2>1, QueryOps, GatewayAssumption DEF WorkflowInv, LockOps, Queries
    <3>2. phase[c] = "holding" /\ home[c] = w
      BY <2>1, <2>2, <3>1 DEF WorkflowInv, ClientsFit
    <3> QED BY <3>2 DEF WorkflowInv, HolderKeepsRow, Holds
  <2> QED BY <2>1, <2>2
<1> QED BY <1>1, WorkflowInvariant, PTL DEF WorkflowSpec, WritesUnderLock

-----------------------------------------------------------------------------
\* Under its clients the gateway does nothing that it could not do alone.
LEMMA WorkflowStepMaps ==
  ASSUME WorkflowInv, [WorkflowNext]_vars
  PROVE  [Next]_gatewayVars
<1>1. ASSUME NEW c \in Clients, NEW s \in Slots, NEW r \in Calls, Send(c, s, r)
      PROVE  Next
  BY <1>1 DEF Send, Next
<1>2. ASSUME NEW c \in Clients, ClientNext(c)
      PROVE  [Next]_gatewayVars
  <2>1. ASSUME NEW s \in Slots, NEW w \in Workspaces, NEW i \in LockIDs, StartLock(c, s, w, i)
        PROVE  Next
    <3>1. Request("LOCK", w, i, None) \in Calls
      BY DEF Request, Calls, Ops, LockOps
    <3> QED BY <1>1, <2>1, <3>1 DEF StartLock
  <2>2. ASSUME NEW s \in Slots,
               \/ RetryLock(c, s)
               \/ Unlock(c, s)
               \/ \E op \in StateOps, b \in Bodies \cup {None} : UseState(c, s, op, b)
        PROVE  Next
    <3>1. phase[c] # "idle" /\ home[c] \in Workspaces /\ lockId[c] \in LockIDs
      BY <2>2 DEF RetryLock, Unlock, UseState, WorkflowInv, WorkflowTypeOK, ClientsFit
    <3>2. CASE RetryLock(c, s)
      <4>1. Request("LOCK", home[c], lockId[c], None) \in Calls
        BY <3>1 DEF Request, Calls, Ops, LockOps
      <4> QED BY <1>1, <3>2, <4>1 DEF RetryLock
    <3>3. CASE Unlock(c, s)
      <4>1. Request("UNLOCK", home[c], lockId[c], None) \in Calls
        BY <3>1 DEF Request, Calls, Ops, LockOps
      <4> QED BY <1>1, <3>3, <4>1 DEF Unlock
    <3>4. ASSUME NEW op \in StateOps, NEW b \in Bodies \cup {None}, UseState(c, s, op, b)
          PROVE  Next
      <4>1. Request(op, home[c], None, b) \in Calls
        BY <3>1, <3>4 DEF UseState, Request, Calls, Ops, LockOps
      <4> QED BY <1>1, <3>4, <4>1 DEF UseState
    <3> QED BY <2>2, <3>2, <3>3, <3>4
  <2> QED BY <1>2, <2>1, <2>2 DEF ClientNext, Hear, TimeOut, GiveUp
<1>3. CASE GatewayNext
  BY <1>3 DEF GatewayNext, Next
<1> QED BY <1>2, <1>3 DEF WorkflowNext, vars

\* So what holds for every caller of the gateway holds for these.
THEOREM WorkflowImplementsGateway == WorkflowSpec => Spec
<1>1. WorkflowInit => Init
  BY DEF WorkflowInit
<1>2. WorkflowInv /\ [WorkflowNext]_vars => [Next]_gatewayVars
  BY WorkflowStepMaps
<1> QED BY <1>1, <1>2, WorkflowInvariant, PTL DEF WorkflowSpec, Spec

\* And the clients get what Backend promises.
THEOREM WorkflowKeepsPromise == WorkflowSpec => Promised
BY WorkflowImplementsGateway, GatewayImplementsBackend, PTL
=============================================================================
