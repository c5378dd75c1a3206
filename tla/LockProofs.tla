----------------------------- MODULE LockProofs -----------------------------
(***************************************************************************)
(* Workflow implements WorkspaceLock: what clients, handlers and tables do *)
(* to the rows is what their promise allows, or cannot be seen.            *)
(***************************************************************************)
EXTENDS WorkflowProofs

USE ApiAssumption, NoneAssumption, GatewayAssumption, WorkflowAssumption

\* The gateway moves the lock only when a LOCK takes a free row or an UNLOCK its own.
LEMMA LockMoves ==
  ASSUME WorkflowInv, GatewayNext, locks' # locks
  PROVE  \E w \in Workspaces, i \in LockIDs :
           \/ /\ locks[w] = None /\ locks' = [locks EXCEPT ![w] = i]
           \/ /\ locks[w] = i /\ locks' = [locks EXCEPT ![w] = None]
              /\ \E s \in Slots : call[s] # None /\ call[s].op # "LOCK" /\ call[s].id = i
<1>1. PICK s \in Slots : Execute(s)
  BY DEF GatewayNext, Progress, Acquire, Fail, Receive, LookUpHolder, QueryError, Respond,
         Finish, Crash, tables
<1>2. query[s] # None /\ call[s] # None /\ call[s] \in Calls
  BY <1>1 DEF Execute, WorkflowInv, Coherent, QueryFitsCall, TypeOK
<1>3. InsertLock(s) \/ DeleteLock(s)
  BY <1>1 DEF Execute, SelectState, UpsertState, DeleteStateRow, SelectLock, tables
<1>4. query[s] \in {"AcquireLock", "ReleaseLock"} /\ call[s].op \in LockOps
      /\ (DeleteLock(s) => call[s].op # "LOCK")
  BY <1>2, <1>3, QueryOps DEF InsertLock, DeleteLock, WorkflowInv, LockOps
<1>5. call[s].ws \in Workspaces /\ call[s].id \in LockIDs
  BY <1>2, <1>4 DEF Calls
<1> QED BY <1>2, <1>3, <1>4, <1>5 DEF InsertLock, DeleteLock

\* A LOCK that takes the row grants the lock to the client it belongs to, if that is
\* still at work.
LEMMA TakeMaps ==
  ASSUME WorkflowInv, UNCHANGED clientVars, NEW w \in Workspaces, NEW i \in LockIDs,
         locks[w] = None, locks' = [locks EXCEPT ![w] = i]
  PROVE  Lock!Next
<1>1. takenRows' = takenRows \cup {w} /\ w \notin takenRows
  BY DEF takenRows, WorkflowInv, TypeOK
<1>2. \A c \in Clients : phase[c] # "idle" => lockId[c] # None /\ home[c] \in Workspaces
  BY DEF WorkflowInv, ClientsFit
<1>3. CASE \E c \in Clients : phase[c] # "idle" /\ home[c] = w /\ lockId[c] = i
  <2>1. PICK c \in Clients : phase[c] # "idle" /\ home[c] = w /\ lockId[c] = i
    BY <1>3
  <2>2. phase[c] \in {"locking", "unlocking"}
    BY <1>2, <2>1 DEF WorkflowInv, WorkflowTypeOK, HolderKeepsRow
  <2>3. \A d \in Clients : d # c => (d \in rowOwners' <=> d \in rowOwners)
    BY <1>2, <2>1 DEF clientVars, rowOwners, WorkflowInv, OwnIDs, TypeOK
  <2>4. c \in rowOwners'
    BY <2>1 DEF clientVars, rowOwners, WorkflowInv, TypeOK
  <2>5. rowOwners' = rowOwners \cup {c}
    BY <2>3, <2>4 DEF rowOwners
  <2> QED BY <1>1, <2>1, <2>2, <2>5 DEF clientVars, Lock!Next, Lock!Grant, takenRows, rowOwners
<1>4. CASE ~\E c \in Clients : phase[c] # "idle" /\ home[c] = w /\ lockId[c] = i
  <2>1. rowOwners' = rowOwners
    BY <1>2, <1>4 DEF clientVars, rowOwners, WorkflowInv, TypeOK
  <2> QED BY <1>1, <2>1 DEF clientVars, Lock!Next, Lock!Leftover, takenRows, rowOwners
<1> QED BY <1>3, <1>4

\* An UNLOCK that removes the row frees the lock of a client that asked for it, or one
\* that nobody owns.
LEMMA FreeMaps ==
  ASSUME WorkflowInv, UNCHANGED clientVars, NEW w \in Workspaces, NEW i \in LockIDs,
         locks[w] = i, locks' = [locks EXCEPT ![w] = None],
         NEW s \in Slots, call[s] # None, call[s].op # "LOCK", call[s].id = i
  PROVE  Lock!Next
<1>1. takenRows' = takenRows \ {w} /\ w \in takenRows
  BY DEF takenRows, WorkflowInv, TypeOK
<1>2. \A c \in Clients : phase[c] # "idle" => lockId[c] # None /\ home[c] \in Workspaces
  BY DEF WorkflowInv, ClientsFit
<1>3. CASE \E c \in rowOwners : home[c] = w
  <2>1. PICK c \in Clients : c \in rowOwners /\ phase[c] # "idle" /\ home[c] = w /\ lockId[c] = i
    BY <1>3 DEF rowOwners
  <2>2. phase[c] = "unlocking"
    BY <2>1 DEF WorkflowInv, WorkflowTypeOK, NoStrayUnlock
  <2>3. \A d \in Clients : d # c => (d \in rowOwners' <=> d \in rowOwners)
    BY <1>2, <2>1 DEF clientVars, rowOwners, WorkflowInv, OwnIDs, TypeOK
  <2>4. c \notin rowOwners'
    BY <1>2, <2>1 DEF clientVars, rowOwners, WorkflowInv, TypeOK
  <2>5. rowOwners' = rowOwners \ {c}
    BY <2>3, <2>4 DEF rowOwners
  <2> QED BY <1>1, <2>1, <2>2, <2>5 DEF clientVars, Lock!Next, Lock!Free, takenRows, rowOwners
<1>4. CASE \A c \in rowOwners : home[c] # w
  <2>1. rowOwners' = rowOwners
    BY <1>2, <1>4 DEF clientVars, rowOwners, WorkflowInv, TypeOK
  <2> QED BY <1>1, <1>4, <2>1 DEF clientVars, Lock!Next, Lock!Leftover, takenRows, rowOwners
<1> QED BY <1>3, <1>4

LEMMA GatewayLockMaps ==
  ASSUME WorkflowInv, GatewayNext
  PROVE  [Lock!Next]_(Lock!vars)
<1>1. UNCHANGED clientVars
  BY DEF GatewayNext
<1>2. CASE UNCHANGED locks
  BY <1>1, <1>2 DEF clientVars, Lock!vars, takenRows, rowOwners
<1>3. CASE locks' # locks
  <2>1. PICK w \in Workspaces, i \in LockIDs :
           \/ /\ locks[w] = None /\ locks' = [locks EXCEPT ![w] = i]
           \/ /\ locks[w] = i /\ locks' = [locks EXCEPT ![w] = None]
              /\ \E s \in Slots : call[s] # None /\ call[s].op # "LOCK" /\ call[s].id = i
    BY <1>3, LockMoves
  <2> QED BY <1>1, <2>1, TakeMaps, FreeMaps
<1> QED BY <1>2, <1>3

\* The requests of a client: the first LOCK begins a run, the first UNLOCK returns the
\* lock, and the rest cannot be seen.
LEMMA RequestLockMaps ==
  ASSUME WorkflowInv, NEW c \in Clients, NEW s \in Slots,
         \/ \E w \in Workspaces, i \in LockIDs : StartLock(c, s, w, i)
         \/ RetryLock(c, s)
         \/ Unlock(c, s)
         \/ \E op \in StateOps, b \in Bodies \cup {None} : UseState(c, s, op, b)
  PROVE  [Lock!Next]_(Lock!vars)
<1>1. UNCHANGED locks /\ UNCHANGED takenRows
  BY DEF StartLock, RetryLock, Unlock, UseState, Send, Enter, takenRows
<1>2. ASSUME NEW w \in Workspaces, NEW i \in LockIDs, StartLock(c, s, w, i)
      PROVE  Lock!Begin(c, w)
  <2>1. \A d \in Clients : d \in rowOwners' <=> d \in rowOwners
    BY <1>1, <1>2 DEF StartLock, Fresh, rowOwners, WorkflowInv, WorkflowTypeOK
  <2>2. UNCHANGED rowOwners
    BY <2>1 DEF rowOwners
  <2> QED BY <1>1, <1>2, <2>2 DEF StartLock, Lock!Begin, takenRows, rowOwners
<1>3. CASE RetryLock(c, s)
  BY <1>1, <1>3 DEF RetryLock, Lock!vars, takenRows, rowOwners
<1>4. CASE Unlock(c, s)
  <2>1. UNCHANGED rowOwners
    BY <1>1, <1>4 DEF Unlock, rowOwners, WorkflowInv, WorkflowTypeOK
  <2>2. CASE phase[c] = "holding"
    BY <1>1, <1>4, <2>1, <2>2 DEF Unlock, Lock!Next, Lock!Return, takenRows, rowOwners
  <2>3. CASE phase[c] = "unlocking"
    <3>1. UNCHANGED phase
      BY <1>4, <2>3 DEF Unlock, WorkflowInv, WorkflowTypeOK
    <3> QED BY <1>1, <1>4, <2>1, <3>1 DEF Unlock, Lock!vars, takenRows, rowOwners
  <2> QED BY <1>4, <2>2, <2>3 DEF Unlock
<1>5. ASSUME NEW op \in StateOps, NEW b \in Bodies \cup {None}, UseState(c, s, op, b)
      PROVE  UNCHANGED Lock!vars
  BY <1>1, <1>5 DEF UseState, Lock!vars, takenRows, rowOwners
<1> QED BY <1>2, <1>3, <1>4, <1>5 DEF Lock!Next

\* A client that goes takes nothing with it.
LEMMA LeaveMaps ==
  ASSUME WorkflowInv, NEW c \in Clients, phase[c] # "idle", Leave(c), UNCHANGED locks
  PROVE  Lock!Next
<1>1. \A d \in Clients : d \in rowOwners' <=> d \in rowOwners \ {c}
  BY DEF Leave, rowOwners, WorkflowInv, WorkflowTypeOK
<1>2. rowOwners' = rowOwners \ {c}
  BY <1>1 DEF rowOwners
<1>3. Lock!Quit(c)
  BY <1>2 DEF Leave, Lock!Quit, takenRows
<1> QED BY <1>3 DEF Lock!Next

\* The answers: a granted client owns the lock.
LEMMA HearLockMaps ==
  ASSUME WorkflowInv, NEW c \in Clients, Hear(c)
  PROVE  [Lock!Next]_(Lock!vars)
<1>1. UNCHANGED locks /\ phase[c] # "idle" /\ home[c] \in Workspaces
  BY DEF Hear, gatewayVars, WorkflowInv, ClientsFit
<1>2. CASE phase[c] = "unlocking" /\ reply[conn[c]].status = 200
  BY <1>1, <1>2, LeaveMaps DEF Hear
<1>3. CASE phase[c] = "locking" /\ reply[conn[c]].status = 200
  <2>1. locks[home[c]] = lockId[c]
    BY <1>3, HearGrant
  <2>2. phase' = [phase EXCEPT ![c] = "holding"] /\ UNCHANGED <<lockId, home>>
    BY <1>3 DEF Hear
  <2>3. \A d \in Clients : d \in rowOwners' <=> d \in rowOwners
    BY <1>1, <1>3, <2>2 DEF rowOwners, WorkflowInv, WorkflowTypeOK
  <2>4. UNCHANGED rowOwners /\ c \in rowOwners
    BY <1>1, <2>1, <2>3 DEF rowOwners
  <2>5. UNCHANGED takenRows
    BY <1>1 DEF takenRows
  <2>6. Lock!Hold(c)
    BY <1>3, <2>2, <2>4, <2>5 DEF Lock!Hold
  <2> QED BY <2>6 DEF Lock!Next
<1>4. CASE ~(phase[c] \in {"locking", "unlocking"} /\ reply[conn[c]].status = 200)
  <2>1. UNCHANGED <<phase, lockId, home>>
    BY <1>4 DEF Hear
  <2>2. UNCHANGED <<takenRows, rowOwners>>
    BY <1>1, <2>1 DEF takenRows, rowOwners
  <2> QED BY <2>1, <2>2 DEF Lock!vars
<1> QED BY <1>2, <1>3, <1>4

\* Every client, and the rows of the gateway with their IDs, keep to the lock of
\* WorkspaceLock (lock_repository.go, Acquire and Release).
THEOREM WorkflowImplementsLock == WorkflowSpec => LockPromised
<1>1. WorkflowInit => Lock!Init
  BY DEF WorkflowInit, Init, Lock!Init, takenRows, rowOwners
<1>2. WorkflowInv /\ [WorkflowNext]_vars => [Lock!Next]_(Lock!vars)
  <2> SUFFICES ASSUME WorkflowInv, [WorkflowNext]_vars
               PROVE  [Lock!Next]_(Lock!vars)
    OBVIOUS
  <2>1. CASE UNCHANGED vars
    BY <2>1 DEF vars, gatewayVars, clientVars, Lock!vars, takenRows, rowOwners
  <2>2. CASE GatewayNext
    BY <2>2, GatewayLockMaps
  <2>3. ASSUME NEW c \in Clients, ClientNext(c)
        PROVE  [Lock!Next]_(Lock!vars)
    <3>1. CASE TimeOut(c)
      BY <3>1 DEF TimeOut, gatewayVars, Lock!vars, takenRows, rowOwners
    <3>2. CASE GiveUp(c)
      BY <3>2, LeaveMaps DEF GiveUp, gatewayVars
    <3> QED BY <2>3, <3>1, <3>2, RequestLockMaps, HearLockMaps DEF ClientNext
  <2> QED BY <2>1, <2>2, <2>3 DEF WorkflowNext
<1> QED BY <1>1, <1>2, WorkflowInvariant, PTL DEF WorkflowSpec, LockPromised, Lock!Spec

-----------------------------------------------------------------------------
\* The types of the promise.
LockTypeOK ==
  /\ phase \in [Clients -> {"idle", "locking", "holding", "unlocking"}]
  /\ home \in [Clients -> Workspaces \cup {None}]
  /\ rowOwners \subseteq Clients

\* Each step of one client keeps the lock exclusive.
LEMMA ClientKeepsExclusive ==
  ASSUME LockTypeOK, Lock!Exclusive, rowOwners' \subseteq Clients, NEW c \in Clients,
         \/ \E w \in Workspaces : Lock!Begin(c, w)
         \/ Lock!Grant(c) \/ Lock!Hold(c) \/ Lock!Return(c) \/ Lock!Free(c) \/ Lock!Quit(c)
  PROVE  LockTypeOK' /\ Lock!Exclusive'
<1>1. ASSUME NEW w \in Workspaces, Lock!Begin(c, w)
      PROVE  LockTypeOK' /\ Lock!Exclusive'
  BY <1>1 DEF LockTypeOK, Lock!Begin, Lock!Exclusive
<1>2. CASE Lock!Grant(c)
  BY <1>2 DEF LockTypeOK, Lock!Grant, Lock!Exclusive
<1>3. CASE Lock!Hold(c) \/ Lock!Return(c)
  BY <1>3 DEF LockTypeOK, Lock!Hold, Lock!Return, Lock!Exclusive
<1>4. CASE Lock!Free(c)
  BY <1>4 DEF LockTypeOK, Lock!Free, Lock!Exclusive
<1>5. CASE Lock!Quit(c)
  BY <1>5 DEF LockTypeOK, Lock!Quit, Lock!Exclusive
<1> QED BY <1>1, <1>2, <1>3, <1>4, <1>5

\* Whatever keeps the promise has exclusive locks.
LEMMA PromiseExcludes == LockPromised => []Lock!Exclusive
<1>1. Lock!Init => LockTypeOK /\ Lock!Exclusive
  BY DEF Lock!Init, LockTypeOK, Lock!Exclusive
<1>2. LockTypeOK /\ Lock!Exclusive /\ [Lock!Next]_(Lock!vars) => LockTypeOK' /\ Lock!Exclusive'
  <2> SUFFICES ASSUME LockTypeOK, Lock!Exclusive, [Lock!Next]_(Lock!vars)
               PROVE  LockTypeOK' /\ Lock!Exclusive'
    OBVIOUS
  <2>1. CASE UNCHANGED Lock!vars
    BY <2>1 DEF Lock!vars, LockTypeOK, Lock!Exclusive
  <2>2. ASSUME NEW w \in Workspaces, Lock!Leftover(w)
        PROVE  LockTypeOK' /\ Lock!Exclusive'
    BY <2>2 DEF Lock!Leftover, LockTypeOK, Lock!Exclusive
  <2>3. rowOwners' \subseteq Clients
    BY DEF rowOwners
  <2> QED BY <2>1, <2>2, <2>3, ClientKeepsExclusive DEF Lock!Next
<1> QED BY <1>1, <1>2, PTL DEF LockPromised, Lock!Spec

\* So the promise alone gives what the clients want of it, whatever keeps it.
THEOREM PromiseGivesMutualExclusion == LockPromised => []MutualExclusion
<1>1. Lock!Exclusive => MutualExclusion
  BY DEF Lock!Exclusive, MutualExclusion, Holds
<1> QED BY <1>1, PromiseExcludes, PTL
=============================================================================
