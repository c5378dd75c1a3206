----------------------------- MODULE ServerProofs -----------------------------
(***************************************************************************)
(* The safety properties of Server, for any requests, configurations and   *)
(* levels: start-up, signals, reload, shutdown, requests and the operator  *)
(* keep ServerInv.                                                         *)
(***************************************************************************)
EXTENDS Server, TLAPS

USE DEF Starting, Looping, Stopping, operator, settings, signals, resources, ending, users

\* What sending to the channel and receiving from it leave there.
LEMMA Channel ==
  ASSUME NEW S, NEW q \in Seq(S), Len(q) <= 1
  PROVE  /\ q # <<>> => Tail(q) \in Seq(S) /\ Len(Tail(q)) <= 1
         /\ \A e \in S : Len(q) < 1 => /\ Append(q, e) \in Seq(S) /\ Len(Append(q, e)) <= 1
                                       /\ Append(q, e) # <<>>
         /\ ~(Len(q) < 1) => q # <<>>
<1>1. q # <<>> => Tail(q) \in Seq(S) /\ Len(Tail(q)) = Len(q) - 1
  OBVIOUS
<1>2. \A e \in S : Append(q, e) \in Seq(S) /\ Len(Append(q, e)) = Len(q) + 1
  OBVIOUS
<1> QED BY <1>1, <1>2

\* The initial states.
LEMMA InitInv == ServerInit => ServerInv
<1> SUFFICES ASSUME ServerInit PROVE ServerInv
  OBVIOUS
<1>1. sigChan \in Seq(Signals) /\ Len(sigChan) <= 1
  BY DEF ServerInit
<1>2. ServerTypeOK
  BY <1>1 DEF ServerInit, ServerTypeOK, Contents, NoRequests
<1>3. LevelInForce /\ ReloadIsPending /\ PoolOutlivesRequests /\ StagesInOrder
  BY DEF ServerInit, LevelInForce, ReloadIsPending, PoolOutlivesRequests, StagesInOrder,
         Active, NoRequests
<1> QED BY <1>2, <1>3 DEF ServerInv

\* Start-up: the first configuration comes with its level, and nobody is served yet.
LEMMA StartUp ==
  ASSUME ServerInv, Boot \/ Connect \/ Listen
  PROVE  ServerInv'
<1> USE DEF ServerInv
<1>1. CASE Boot
  <2>1. ServerTypeOK'
    BY <1>1, ServerAssumption DEF Boot, Load, Contents, Die, NoRequests, LevelKnown, ServerTypeOK
  <2>2. LevelInForce'
    BY <1>1, ServerAssumption DEF Boot, Load, Contents, Die, NoRequests, LevelKnown, ServerTypeOK, LevelInForce
  <2>3. ReloadIsPending'
    BY <1>1 DEF Boot, Load, Contents, Die, NoRequests, LevelKnown, ServerTypeOK, ReloadIsPending, StagesInOrder
  <2>4. PoolOutlivesRequests' /\ StagesInOrder'
    BY <1>1 DEF Boot, Load, Contents, Die, NoRequests, LevelKnown, ServerTypeOK, PoolOutlivesRequests, StagesInOrder, Active
  <2> QED BY <2>1, <2>2, <2>3, <2>4
<1>2. CASE Connect
  <2>1. ServerTypeOK'
    BY <1>2 DEF Connect, ServerTypeOK
  <2>2. LevelInForce'
    BY <1>2 DEF Connect, ServerTypeOK, LevelInForce
  <2>3. ReloadIsPending'
    BY <1>2 DEF Connect, ServerTypeOK, ReloadIsPending, StagesInOrder
  <2>4. PoolOutlivesRequests' /\ StagesInOrder'
    BY <1>2 DEF Connect, ServerTypeOK, PoolOutlivesRequests, StagesInOrder, Active
  <2> QED BY <2>1, <2>2, <2>3, <2>4
<1>3. CASE Listen
  <2>1. ServerTypeOK'
    BY <1>3 DEF Listen, ServerTypeOK
  <2>2. LevelInForce'
    BY <1>3 DEF Listen, ServerTypeOK, LevelInForce
  <2>3. ReloadIsPending'
    BY <1>3 DEF Listen, ServerTypeOK, ReloadIsPending, StagesInOrder
  <2>4. PoolOutlivesRequests' /\ StagesInOrder'
    BY <1>3 DEF Listen, ServerTypeOK, PoolOutlivesRequests, StagesInOrder, Active
  <2> QED BY <2>1, <2>2, <2>3, <2>4
<1> QED BY <1>1, <1>2, <1>3

\* A SIGHUP is served: the level follows the configuration.
LEMMA Reloading ==
  ASSUME ServerInv, CatchReload \/ Reload \/ SetLevel
  PROVE  ServerInv'
<1> USE DEF ServerInv
<1>1. CASE CatchReload
  <2>1. ServerTypeOK'
    BY <1>1, Channel DEF CatchReload, Catch, ServerTypeOK
  <2>2. LevelInForce'
    BY <1>1 DEF CatchReload, Catch, ServerTypeOK, LevelInForce
  <2>3. ReloadIsPending'
    BY <1>1 DEF CatchReload, Catch, ServerTypeOK, ReloadIsPending, StagesInOrder
  <2>4. PoolOutlivesRequests' /\ StagesInOrder'
    BY <1>1 DEF CatchReload, Catch, ServerTypeOK, PoolOutlivesRequests, StagesInOrder, Active
  <2> QED BY <2>1, <2>2, <2>3, <2>4
<1>2. CASE Reload
  <2>1. ServerTypeOK'
    BY <1>2, ServerAssumption DEF Reload, Load, Contents, ServerTypeOK
  <2>2. LevelInForce'
    BY <1>2, ServerAssumption DEF Reload, Load, Contents, ServerTypeOK, LevelInForce
  <2>3. ReloadIsPending'
    BY <1>2 DEF Reload, Load, Contents, ServerTypeOK, ReloadIsPending, StagesInOrder
  <2>4. PoolOutlivesRequests' /\ StagesInOrder'
    BY <1>2 DEF Reload, Load, Contents, ServerTypeOK, PoolOutlivesRequests, StagesInOrder, Active
  <2> QED BY <2>1, <2>2, <2>3, <2>4
<1>3. CASE SetLevel
  <2>1. ServerTypeOK'
    BY <1>3 DEF SetLevel, LevelKnown, ServerTypeOK
  <2>2. LevelInForce'
    BY <1>3 DEF SetLevel, LevelKnown, ServerTypeOK, LevelInForce
  <2>3. ReloadIsPending'
    BY <1>3 DEF SetLevel, LevelKnown, ServerTypeOK, ReloadIsPending, StagesInOrder
  <2>4. PoolOutlivesRequests' /\ StagesInOrder'
    BY <1>3 DEF SetLevel, LevelKnown, ServerTypeOK, PoolOutlivesRequests, StagesInOrder, Active
  <2> QED BY <2>1, <2>2, <2>3, <2>4
<1> QED BY <1>1, <1>2, <1>3

\* The pool closes, and the process ends, only after Shutdown has waited.
LEMMA ShuttingDown ==
  ASSUME ServerInv, CatchStop \/ StopRedirector \/ StopServer \/ ClosePool
           \/ PoolClosed \/ StopPprof \/ Deadlines
  PROVE  ServerInv'
<1> USE DEF ServerInv
<1>1. CASE CatchStop
  <2>1. ServerTypeOK'
    BY <1>1, Channel DEF CatchStop, Catch, ServerTypeOK
  <2>2. LevelInForce'
    BY <1>1 DEF CatchStop, Catch, ServerTypeOK, LevelInForce
  <2>3. ReloadIsPending'
    BY <1>1 DEF CatchStop, Catch, ServerTypeOK, ReloadIsPending, StagesInOrder
  <2>4. PoolOutlivesRequests' /\ StagesInOrder'
    BY <1>1 DEF CatchStop, Catch, ServerTypeOK, PoolOutlivesRequests, StagesInOrder, Active
  <2> QED BY <2>1, <2>2, <2>3, <2>4
<1>2. CASE StopRedirector
  <2>1. ServerTypeOK'
    BY <1>2 DEF StopRedirector, ServerTypeOK
  <2>2. LevelInForce'
    BY <1>2 DEF StopRedirector, ServerTypeOK, LevelInForce
  <2>3. ReloadIsPending'
    BY <1>2 DEF StopRedirector, ServerTypeOK, ReloadIsPending, StagesInOrder
  <2>4. PoolOutlivesRequests' /\ StagesInOrder'
    BY <1>2 DEF StopRedirector, ServerTypeOK, PoolOutlivesRequests, StagesInOrder, Active
  <2> QED BY <2>1, <2>2, <2>3, <2>4
<1>3. CASE StopServer
  <2>1. ServerTypeOK'
    BY <1>3 DEF StopServer, ServerTypeOK
  <2>2. LevelInForce'
    BY <1>3 DEF StopServer, ServerTypeOK, LevelInForce
  <2>3. ReloadIsPending'
    BY <1>3 DEF StopServer, ServerTypeOK, ReloadIsPending, StagesInOrder
  <2>4. PoolOutlivesRequests' /\ StagesInOrder'
    BY <1>3 DEF StopServer, ServerTypeOK, PoolOutlivesRequests, StagesInOrder, Active
  <2> QED BY <2>1, <2>2, <2>3, <2>4
<1>4. CASE ClosePool
  <2>1. ServerTypeOK'
    BY <1>4 DEF ClosePool, ServerTypeOK
  <2>2. LevelInForce'
    BY <1>4 DEF ClosePool, ServerTypeOK, LevelInForce
  <2>3. ReloadIsPending'
    BY <1>4 DEF ClosePool, ServerTypeOK, ReloadIsPending, StagesInOrder
  <2>4. PoolOutlivesRequests' /\ StagesInOrder'
    BY <1>4 DEF ClosePool, ServerTypeOK, PoolOutlivesRequests, StagesInOrder, Active
  <2> QED BY <2>1, <2>2, <2>3, <2>4
<1>5. CASE PoolClosed
  <2>1. ServerTypeOK'
    BY <1>5 DEF PoolClosed, ServerTypeOK
  <2>2. LevelInForce'
    BY <1>5 DEF PoolClosed, ServerTypeOK, LevelInForce
  <2>3. ReloadIsPending'
    BY <1>5 DEF PoolClosed, ServerTypeOK, ReloadIsPending, StagesInOrder
  <2>4. PoolOutlivesRequests' /\ StagesInOrder'
    BY <1>5 DEF PoolClosed, ServerTypeOK, PoolOutlivesRequests, StagesInOrder, Active
  <2> QED BY <2>1, <2>2, <2>3, <2>4
<1>6. CASE StopPprof
  <2>1. ServerTypeOK'
    BY <1>6 DEF StopPprof, Die, NoRequests, ServerTypeOK
  <2>2. LevelInForce'
    BY <1>6 DEF StopPprof, Die, NoRequests, ServerTypeOK, LevelInForce
  <2>3. ReloadIsPending'
    BY <1>6 DEF StopPprof, Die, NoRequests, ServerTypeOK, ReloadIsPending, StagesInOrder
  <2>4. PoolOutlivesRequests' /\ StagesInOrder'
    BY <1>6 DEF StopPprof, Die, NoRequests, ServerTypeOK, PoolOutlivesRequests, StagesInOrder, Active
  <2> QED BY <2>1, <2>2, <2>3, <2>4
<1>7. CASE Deadlines
  <2>1. ServerTypeOK'
    BY <1>7 DEF Deadlines, Expire, ServerTypeOK
  <2>2. LevelInForce'
    BY <1>7 DEF Deadlines, Expire, ServerTypeOK, LevelInForce
  <2>3. ReloadIsPending'
    BY <1>7 DEF Deadlines, Expire, ServerTypeOK, ReloadIsPending, StagesInOrder
  <2>4. PoolOutlivesRequests' /\ StagesInOrder'
    BY <1>7 DEF Deadlines, Expire, ServerTypeOK, PoolOutlivesRequests, StagesInOrder, Active
  <2> QED BY <2>1, <2>2, <2>3, <2>4
<1> QED BY <1>1, <1>2, <1>3, <1>4, <1>5, <1>6, <1>7

\* A signal waits in the channel, is dropped or kills.
LEMMA Signalled ==
  ASSUME ServerInv, NEW sig \in Signals, Kill(sig)
  PROVE  ServerInv'
<1> USE DEF ServerInv
<1>1. CASE Kill(sig)
  <2>0. sigChan' \in Seq(Signals) /\ Len(sigChan') <= 1
    <3>1. sigChan \in Seq(Signals) /\ Len(sigChan) <= 1
      BY DEF ServerTypeOK
    <3>2. sigChan' = sigChan \/ (Len(sigChan) < 1 /\ sigChan' = Append(sigChan, sig))
      BY <1>1 DEF Kill, SigChanSize
    <3>3. Len(sigChan) < 1 => Append(sigChan, sig) \in Seq(Signals) /\ Len(Append(sigChan, sig)) <= 1
      BY <3>1, Channel
    <3> QED BY <3>1, <3>2, <3>3
  <2>1. ServerTypeOK'
    BY <1>1, <2>0 DEF Kill, Die, NoRequests, ServerTypeOK
  <2>2. LevelInForce'
    BY <1>1 DEF Kill, Die, NoRequests, SigChanSize, ServerTypeOK, LevelInForce
  <2>5. sigChan \in Seq(Signals) /\ Len(sigChan) <= 1
    BY DEF ServerTypeOK
  <2>6. main \in Looping => sigChan' # <<>> /\ main' = main
    <3>1. Len(sigChan) < 1 => Append(sigChan, sig) # <<>>
      BY <2>5, Channel
    <3>2. ~(Len(sigChan) < 1) => sigChan # <<>>
      BY <2>5, Channel
    <3>3. main \in Looping => pool = "open"
      BY DEF StagesInOrder
    <3> QED BY <1>1, <3>1, <3>2, <3>3 DEF Kill, SigChanSize
  <2>3. ReloadIsPending'
    BY <1>1, <2>6 DEF Kill, Die, ServerTypeOK, ReloadIsPending, StagesInOrder
  <2>4. PoolOutlivesRequests' /\ StagesInOrder'
    BY <1>1 DEF Kill, Die, NoRequests, SigChanSize, ServerTypeOK, PoolOutlivesRequests, StagesInOrder, Active
  <2> QED BY <2>1, <2>2, <2>3, <2>4
<1> QED BY <1>1

\* Requests arrive only at an open listener.
LEMMA Requesting ==
  ASSUME ServerInv, NEW r \in Requests, Arrive(r) \/ BeginQuery(r) \/ EndQuery(r) \/ Answer(r)
  PROVE  ServerInv'
<1> USE DEF ServerInv
<1>1. CASE Arrive(r)
  <2>1. ServerTypeOK'
    BY <1>1 DEF Arrive, Move, ServerTypeOK
  <2>2. LevelInForce'
    BY <1>1 DEF Arrive, Move, ServerTypeOK, LevelInForce
  <2>3. ReloadIsPending'
    BY <1>1 DEF Arrive, Move, ServerTypeOK, ReloadIsPending, StagesInOrder
  <2>4. PoolOutlivesRequests' /\ StagesInOrder'
    BY <1>1 DEF Arrive, Move, ServerTypeOK, PoolOutlivesRequests, StagesInOrder, Active
  <2> QED BY <2>1, <2>2, <2>3, <2>4
<1>2. CASE BeginQuery(r)
  <2>1. ServerTypeOK'
    BY <1>2 DEF BeginQuery, Move, ServerTypeOK
  <2>2. LevelInForce'
    BY <1>2 DEF BeginQuery, Move, ServerTypeOK, LevelInForce
  <2>3. ReloadIsPending'
    BY <1>2 DEF BeginQuery, Move, ServerTypeOK, ReloadIsPending, StagesInOrder
  <2>4. PoolOutlivesRequests' /\ StagesInOrder'
    BY <1>2 DEF BeginQuery, Move, ServerTypeOK, PoolOutlivesRequests, StagesInOrder, Active
  <2> QED BY <2>1, <2>2, <2>3, <2>4
<1>3. CASE EndQuery(r)
  <2>1. ServerTypeOK'
    BY <1>3 DEF EndQuery, Move, ServerTypeOK
  <2>2. LevelInForce'
    BY <1>3 DEF EndQuery, Move, ServerTypeOK, LevelInForce
  <2>3. ReloadIsPending'
    BY <1>3 DEF EndQuery, Move, ServerTypeOK, ReloadIsPending, StagesInOrder
  <2>4. PoolOutlivesRequests' /\ StagesInOrder'
    BY <1>3 DEF EndQuery, Move, ServerTypeOK, PoolOutlivesRequests, StagesInOrder, Active
  <2> QED BY <2>1, <2>2, <2>3, <2>4
<1>4. CASE Answer(r)
  <2>1. ServerTypeOK'
    BY <1>4 DEF Answer, Move, ServerTypeOK
  <2>2. LevelInForce'
    BY <1>4 DEF Answer, Move, ServerTypeOK, LevelInForce
  <2>3. ReloadIsPending'
    BY <1>4 DEF Answer, Move, ServerTypeOK, ReloadIsPending, StagesInOrder
  <2>4. PoolOutlivesRequests' /\ StagesInOrder'
    BY <1>4 DEF Answer, Move, ServerTypeOK, PoolOutlivesRequests, StagesInOrder, Active
  <2> QED BY <2>1, <2>2, <2>3, <2>4
<1> QED BY <1>1, <1>2, <1>3, <1>4

\* An edit withdraws the request to reload; migrations and profiles change
\* nothing else.
LEMMA Operating ==
  ASSUME ServerInv, Profile \/ Edit \/ Migrate \/ UNCHANGED serverVars
  PROVE  ServerInv'
<1> USE DEF ServerInv
<1>1. CASE Profile
  <2>1. ServerTypeOK'
    BY <1>1 DEF Profile, ServerTypeOK
  <2>2. LevelInForce'
    BY <1>1 DEF Profile, ServerTypeOK, LevelInForce
  <2>3. ReloadIsPending'
    BY <1>1 DEF Profile, ServerTypeOK, ReloadIsPending, StagesInOrder
  <2>4. PoolOutlivesRequests' /\ StagesInOrder'
    BY <1>1 DEF Profile, ServerTypeOK, PoolOutlivesRequests, StagesInOrder, Active
  <2> QED BY <2>1, <2>2, <2>3, <2>4
<1>2. CASE Edit
  <2>1. ServerTypeOK'
    BY <1>2 DEF Edit, Contents, ServerTypeOK
  <2>2. LevelInForce'
    BY <1>2 DEF Edit, Contents, ServerTypeOK, LevelInForce
  <2>3. ReloadIsPending'
    BY <1>2 DEF Edit, Contents, ServerTypeOK, ReloadIsPending, StagesInOrder
  <2>4. PoolOutlivesRequests' /\ StagesInOrder'
    BY <1>2 DEF Edit, Contents, ServerTypeOK, PoolOutlivesRequests, StagesInOrder, Active
  <2> QED BY <2>1, <2>2, <2>3, <2>4
<1>3. CASE Migrate
  <2>1. ServerTypeOK'
    BY <1>3 DEF Migrate, ServerTypeOK
  <2>2. LevelInForce'
    BY <1>3 DEF Migrate, ServerTypeOK, LevelInForce
  <2>3. ReloadIsPending'
    BY <1>3 DEF Migrate, ServerTypeOK, ReloadIsPending, StagesInOrder
  <2>4. PoolOutlivesRequests' /\ StagesInOrder'
    BY <1>3 DEF Migrate, ServerTypeOK, PoolOutlivesRequests, StagesInOrder, Active
  <2> QED BY <2>1, <2>2, <2>3, <2>4
<1>4. CASE UNCHANGED serverVars
  <2>1. ServerTypeOK'
    <3>1. UNCHANGED <<file, schema, main, cfg, level, listener, pool, expired, log>>
      BY <1>4 DEF serverVars
    <3>2. UNCHANGED <<sigChan, asked, requests, profiling>>
      BY <1>4 DEF serverVars
    <3> QED BY <3>1, <3>2 DEF ServerTypeOK
  <2>2. LevelInForce'
    BY <1>4 DEF serverVars, LevelKnown, ServerTypeOK, LevelInForce
  <2>3. ReloadIsPending'
    BY <1>4 DEF serverVars, LevelKnown, ServerTypeOK, ReloadIsPending, StagesInOrder
  <2>4. PoolOutlivesRequests' /\ StagesInOrder'
    BY <1>4 DEF serverVars, LevelKnown, ServerTypeOK, PoolOutlivesRequests, StagesInOrder, Active
  <2> QED BY <2>1, <2>2, <2>3, <2>4
<1> QED BY <1>1, <1>2, <1>3, <1>4

\* Whatever files, signals, requests and profiles there are, the process keeps
\* ServerInv: its configuration, channel, listener and pool go with where it is.
THEOREM ServerInvariant == ServerSpec => []ServerInv
<1>1. ServerInit => ServerInv
  BY InitInv
<1>2. ServerInv /\ [ServerNext]_serverVars => ServerInv'
  <2> SUFFICES ASSUME ServerInv, [ServerNext]_serverVars PROVE ServerInv'
    OBVIOUS
  <2>1. CASE Loop
    BY <2>1, StartUp, Reloading, ShuttingDown DEF Loop
  <2>2. CASE \E sig \in Signals : Kill(sig)
    BY <2>2, Signalled
  <2>3. CASE \E r \in Requests : Arrive(r) \/ BeginQuery(r) \/ EndQuery(r) \/ Answer(r)
    BY <2>3, Requesting
  <2>4. CASE Deadlines \/ Profile \/ Edit \/ Migrate \/ UNCHANGED serverVars
    BY <2>4, ShuttingDown, Operating
  <2> QED BY <2>1, <2>2, <2>3, <2>4 DEF ServerNext
<1> QED BY <1>1, <1>2, PTL DEF ServerSpec

\* Between reloads the level is that of the configuration in force, if known.
THEOREM LevelTheorem == ServerSpec => []LevelFollowsConfig
<1>1. ServerInv => LevelFollowsConfig
  BY DEF ServerInv, LevelInForce, LevelFollowsConfig
<1> QED BY <1>1, ServerInvariant, PTL

\* A SIGHUP sent for the file as it is has a signal in the channel to serve it.
THEOREM ReloadTheorem == ServerSpec => []ReloadIsPending
<1>1. ServerInv => ReloadIsPending
  BY DEF ServerInv
<1> QED BY <1>1, ServerInvariant, PTL

\* No request loses the pool or the process before Shutdown's deadline.
THEOREM PoolTheorem == ServerSpec => []PoolOutlivesRequests
<1>1. ServerInv => PoolOutlivesRequests
  BY DEF ServerInv
<1> QED BY <1>1, ServerInvariant, PTL
=============================================================================
