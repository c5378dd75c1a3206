------------------------------ MODULE Observers ------------------------------
(***************************************************************************)
(* Health checks (Healthz) and scrapes of the database metrics             *)
(* (DBCollector) on the connection pool that the handlers of Gateway use.  *)
(* An observer asks the database one question, on a connection of its own, *)
(* under a deadline of its own: 5 s for the ping, 2 s for the count of the *)
(* locks.  It reads, so all it can do to a request is to keep it waiting   *)
(* for a connection.                                                       *)
(***************************************************************************)
EXTENDS Gateway

CONSTANT Observers   \* health checks and scrapes under way at a time

VARIABLE
  observer   \* where each is: away, in the queue of the pool, or at the database

observedVars == <<gatewayVars, observer>>

ObservedInit == Init /\ observer = [o \in Observers |-> "away"]

\* poolConfig.MaxConns is the limit for both.
WithinLimit ==
  Cardinality(Connections) + Cardinality({o \in Observers : observer[o] = "asking"}) <= MaxConns

-----------------------------------------------------------------------------
Go(o, from, to) ==
  /\ observer[o] \in from
  /\ observer' = [observer EXCEPT ![o] = to]
  /\ UNCHANGED gatewayVars

\* Healthz calls pingFunc; Collect, after it has read the pool's statistics,
\* QueryRow.  Both begin with a connection.
Observe(o) == Go(o, {"away"}, "queued")

\* The pool has one for it.
Ask(o) == Go(o, {"queued"}, "asking") /\ WithinLimit'

\* The database has answered: 200 or 503; the count, or none.
Report(o) == Go(o, {"asking"}, "away")

\* Variant: the context has no deadline.
NoDeadline(o) == FALSE /\ UNCHANGED observedVars

\* The deadline of its context: 503, or no count.  The connection goes back.
GiveUp(o) == Go(o, {"queued", "asking"}, "away")

\* The handlers, with the observers' connections taken.
Handlers ==
  /\ \/ \E s \in Slots, c \in Calls : Enter(s, c) \/ Refuse(s, c)
     \/ \E s \in Slots : Progress(s) \/ Finish(s)
  /\ UNCHANGED observer
  /\ WithinLimit'

\* The process dies with both.
CrashAll == Crash /\ observer' = [o \in Observers |-> "away"]

ObservedNext ==
  \/ \E o \in Observers : Observe(o) \/ Ask(o) \/ Report(o) \/ GiveUp(o)
  \/ Handlers \/ CrashAll

ObservedSpec == ObservedInit /\ [][ObservedNext]_observedVars

AcquireShared(s) == Acquire(s) /\ UNCHANGED observer /\ WithinLimit'

\* A database that settles the statements of the handlers, and a pool that serves
\* waiters in turn (pgxpool queues them), so that none is passed over for ever.
\* Nothing is assumed of the handlers' 30 s.  The observers have their deadlines,
\* and the database need not answer them.
ObservedFairness ==
  /\ \A s \in Slots :
       /\ SF_observedVars(AcquireShared(s))
       /\ WF_observedVars((Execute(s) \/ Fail(s)) /\ UNCHANGED observer)
       /\ WF_observedVars(Receive(s) /\ UNCHANGED observer)
  /\ \A o \in Observers : WF_observedVars(GiveUp(o))

FairObservedSpec == ObservedSpec /\ ObservedFairness
=============================================================================
