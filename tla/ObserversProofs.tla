-------------------------- MODULE ObserversProofs --------------------------
(***************************************************************************)
(* Health checks and scrapes disturb no handler: with them the gateway     *)
(* does nothing that it does not do alone.                                 *)
(***************************************************************************)
EXTENDS Observers, RefinementProofs

\* Every step of the whole is one of Gateway's, or none that it can see: an
\* observer's connection only takes choices away (pgxpool, Healthz, Collect).
THEOREM ObservedImplementsGateway == ObservedSpec => Spec
<1>1. ObservedInit => Init
  BY DEF ObservedInit
<1>2. [ObservedNext]_observedVars => [Next]_gatewayVars
  <2> SUFFICES ASSUME ObservedNext PROVE Next \/ UNCHANGED gatewayVars
    BY DEF observedVars
  <2>1. CASE \E o \in Observers : Observe(o) \/ Ask(o) \/ Report(o) \/ GiveUp(o)
    BY <2>1 DEF Observe, Ask, Report, GiveUp, Go
  <2>2. CASE Handlers
    BY <2>2 DEF Handlers, Next
  <2>3. CASE CrashAll
    BY <2>3 DEF CrashAll, Next
  <2>4. QED
    BY <2>1, <2>2, <2>3 DEF ObservedNext
<1>3. QED
  BY <1>1, <1>2, PTL DEF ObservedSpec, Spec

\* So the promise is kept under observation, too.
THEOREM ObservedKeepsPromise == ObservedSpec => Promised
  BY ObservedImplementsGateway, GatewayImplementsBackend, PTL

=============================================================================
