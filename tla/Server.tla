------------------------------- MODULE Server -------------------------------
(***************************************************************************)
(* The life of the server process (runServer in cmd/tf-http-backend):      *)
(* start-up, the signal loop with its one-place channel, the reload of the *)
(* configuration, the shutdown with its 10 s deadline, and the deferred    *)
(* calls: the pool closes, then the pprof server within 2 s.               *)
(*                                                                         *)
(* Requests are those of Gateway seen from outside: a request is in its    *)
(* handler, uses a pool connection now and then, and is answered.          *)
(***************************************************************************)
EXTENDS Integers, Sequences

CONSTANTS
  Requests,     \* requests in flight at a time
  Configs,      \* configurations
  Missing,      \* what the file holds when there is none
  Defaults,     \* the configuration of Load's default values
  PathGiven,    \* the file was named with --config
  LevelOf,      \* the logging.level of each
  Levels,       \* the levels parseLevel knows
  None          \* an unreadable file, no configuration, no level

ASSUME ServerAssumption ==
  /\ LevelOf \in [Configs -> STRING]
  /\ Defaults \in Configs
  /\ None \notin Configs \cup Levels \cup {Missing} /\ Missing \notin Configs

\* What the file may hold.
Contents == Configs \cup {None, Missing}

\* config.Load: a file that is not found is an error if it was named; else the
\* defaults apply.
Load(content) ==
  IF content # Missing THEN content ELSE IF PathGiven THEN None ELSE Defaults

VARIABLES
  file,      \* the configuration file
  schema,    \* the tables exist
  main,      \* where runServer is
  cfg,       \* config.Manager's configuration
  level,     \* logLevelVar
  sigChan,   \* signals the loop has not yet received
  listener,  \* the server's listener
  pool,      \* the connection pool
  expired,   \* deadlines of Shutdown that have passed
  log,       \* what the shutdown logged
  requests,  \* where each request is
  profiling, \* a request to the pprof server is in flight
  asked      \* signals sent and, for SIGHUP, the file is as it was then; only
             \* the properties read it

operator == <<file, schema>>
settings == <<cfg, level>>
signals == <<sigChan, asked>>
resources == <<listener, pool>>
ending == <<expired, log>>
users == <<requests, profiling>>
serverVars == <<operator, main, settings, signals, resources, ending, users>>

Signals == {"SIGHUP", "SIGTERM"}       \* SIGINT is treated like SIGTERM

Starting == {"boot", "connecting"}
Looping == {"serving", "reloading", "updated"}
Stopping == {"stopRedirector", "stopServer", "closing", "stopPprof"}

ServerTypeOK ==
  /\ file \in Contents /\ cfg \in Configs \cup {None} /\ schema \in BOOLEAN
  /\ main \in Starting \cup Looping \cup Stopping \cup {"exited"}
  /\ level \in Levels \cup {None}
  /\ sigChan \in Seq(Signals) /\ Len(sigChan) <= 1 /\ asked \subseteq Signals
  /\ listener \in {"none", "up", "failed", "closed"}
  /\ pool \in {"none", "open", "closing", "closed"}
  /\ expired \subseteq {"10s", "2s"}
  /\ log \subseteq {"Server shutdown failed", "Server shutdown completed cleanly."}
  /\ requests \in [Requests -> {"none", "handling", "querying"}]
  /\ profiling \in BOOLEAN

NoRequests == [r \in Requests |-> "none"]

ServerInit ==
  /\ file \in Contents /\ schema = FALSE
  /\ main = "boot" /\ cfg = None /\ level = None
  /\ sigChan = <<>> /\ asked = {} /\ listener = "none" /\ pool = "none"
  /\ expired = {} /\ log = {}
  /\ requests = NoRequests /\ profiling = FALSE

\* The process ends, and everything in flight with it.
Die == main' = "exited" /\ requests' = NoRequests /\ profiling' = FALSE

-----------------------------------------------------------------------------
(* Start-up: config.Load, logger.Init, the pprof server, NewDB (which      *)
(* pings), signal.Notify.                                                  *)

LevelKnown(c) == LevelOf[c] \in Levels

Boot ==
  /\ main = "boot"
  /\ LET c == Load(file)
     IN  IF c # None /\ LevelKnown(c)
           THEN main' = "connecting" /\ cfg' = c /\ level' = LevelOf[c] /\ UNCHANGED users
           ELSE Die /\ UNCHANGED settings
  /\ UNCHANGED <<operator, signals, resources, ending>>

\* NewDB pings the database; with HTTPS the certificate cache must be there, too,
\* or the pool that was just opened closes again.
Connect ==
  /\ main = "connecting"
  /\ \/ main' = "serving" /\ pool' = "open"
     \/ main' = "stopPprof" /\ UNCHANGED pool
     \/ main' = "closing" /\ pool' = "closing"
  /\ UNCHANGED <<operator, settings, signals, listener, ending, users>>

\* The goroutine that listens: an error is logged and the process stays.
Listen ==
  /\ main \in Looping \cup {"stopRedirector"}
  /\ listener = "none"
  /\ listener' \in {"up", "failed"}
  /\ UNCHANGED <<operator, main, settings, signals, pool, ending, users>>

-----------------------------------------------------------------------------
(* Signals and reload.                                                     *)

\* Variant: make(chan os.Signal).
Unbuffered == 0

\* make(chan os.Signal, 1)
SigChanSize == 1

\* Before signal.Notify, which comes once the pool is there, the signal kills the
\* process, in the deferred calls after a failed NewDB, too; afterwards it is delivered
\* to the channel, or lost if that is full.
Kill(sig) ==
  /\ main # "exited"
  /\ IF pool = "none" THEN Die /\ UNCHANGED sigChan
       ELSE /\ sigChan' = IF Len(sigChan) < SigChanSize THEN Append(sigChan, sig) ELSE sigChan
            /\ UNCHANGED <<main, users>>
  /\ asked' = IF main \in Looping THEN asked \cup {sig} ELSE asked
  /\ UNCHANGED <<operator, settings, resources, ending>>

Catch(sig) ==
  /\ main = "serving"
  /\ sigChan # <<>> /\ Head(sigChan) = sig
  /\ sigChan' = Tail(sigChan)
  /\ UNCHANGED <<operator, settings, asked, pool, ending, users>>

CatchReload == Catch("SIGHUP") /\ main' = "reloading" /\ UNCHANGED listener

\* Variant: the loop goes on after Update, without SetLevel.
ReloadWithoutLevel ==
  /\ main = "reloading"
  /\ main' = "serving"
  /\ cfg' = IF Load(file) # None THEN Load(file) ELSE cfg
  /\ asked' = asked \ {"SIGHUP"}
  /\ UNCHANGED <<operator, level, sigChan, resources, ending, users>>

\* Variant: a configuration with an unknown level is not taken at all.
ReloadIfLevelKnown ==
  /\ main = "reloading"
  /\ IF Load(file) # None /\ LevelKnown(Load(file))
       THEN main' = "updated" /\ cfg' = Load(file)
       ELSE main' = "serving" /\ UNCHANGED cfg
  /\ asked' = asked \ {"SIGHUP"}
  /\ UNCHANGED <<operator, level, sigChan, resources, ending, users>>

\* config.Load and, if it succeeds, configMgr.Update; else the old one stays.
Reload ==
  /\ main = "reloading"
  /\ IF Load(file) # None
       THEN main' = "updated" /\ cfg' = Load(file)
       ELSE main' = "serving" /\ UNCHANGED cfg
  /\ asked' = asked \ {"SIGHUP"}
  /\ UNCHANGED <<operator, level, sigChan, resources, ending, users>>

\* Variant: the level is set before it is checked.
SetAnyLevel ==
  /\ main = "updated"
  /\ level' = LevelOf[cfg]
  /\ main' = "serving"
  /\ UNCHANGED <<operator, cfg, signals, resources, ending, users>>

\* logger.SetLevel keeps the level if it does not know the new one.
SetLevel ==
  /\ main = "updated"
  /\ level' = IF LevelKnown(cfg) THEN LevelOf[cfg] ELSE level
  /\ main' = "serving"
  /\ UNCHANGED <<operator, cfg, signals, resources, ending, users>>

-----------------------------------------------------------------------------
(* Shutdown.                                                               *)

Active == {r \in Requests : requests[r] # "none"}

\* With HTTPS the redirector is shut down first; Shutdown closes the listener.
CatchStop ==
  /\ Catch("SIGTERM")
  /\ \/ main' = "stopRedirector" /\ UNCHANGED listener
     \/ main' = "stopServer" /\ listener' = "closed"

\* redirectSrv.Shutdown returns.
StopRedirector ==
  /\ main = "stopRedirector"
  /\ main' = "stopServer"
  /\ listener' = "closed"
  /\ UNCHANGED <<operator, settings, signals, pool, ending, users>>

\* Variant: Shutdown(context.Background()).
NeverExpire(deadline, at) == FALSE /\ UNCHANGED serverVars

\* A deadline passes: the 10 s that two Shutdowns share, or the 2 s of the third.
Expire(deadline, at) ==
  /\ main \in at
  /\ deadline \notin expired
  /\ expired' = expired \cup {deadline}
  /\ UNCHANGED <<operator, main, settings, signals, resources, log, users>>

\* Variant: go srv.Shutdown(ctx), which is not waited for.
StopServerUnawaited ==
  /\ main = "stopServer"
  /\ main' = "closing"
  /\ UNCHANGED <<operator, settings, signals, resources, ending, users>>

\* srv.Shutdown returns when no request is in flight or the deadline has passed.
StopServer ==
  /\ main = "stopServer"
  /\ \/ Active = {} /\ UNCHANGED log
     \/ Active # {} /\ "10s" \in expired /\ log' = log \cup {"Server shutdown failed"}
  /\ main' = "closing"
  /\ UNCHANGED <<operator, settings, signals, resources, expired, users>>

\* The last message, then the deferred db.Close: no new connections.
ClosePool ==
  /\ main = "closing"
  /\ pool = "open"
  /\ log' = log \cup {"Server shutdown completed cleanly."}
  /\ pool' = "closing"
  /\ UNCHANGED <<operator, main, settings, signals, listener, expired, users>>

\* pgxpool.Close waits for every connection.
PoolClosed ==
  /\ main = "closing"
  /\ pool = "closing"
  /\ \A r \in Requests : requests[r] # "querying"
  /\ pool' = "closed"
  /\ main' = "stopPprof"
  /\ UNCHANGED <<operator, settings, signals, listener, ending, users>>

\* The deferred pprofSrv.Shutdown returns, and the process ends.
StopPprof ==
  /\ main = "stopPprof"
  /\ ~profiling \/ "2s" \in expired
  /\ Die
  /\ UNCHANGED <<operator, settings, signals, resources, ending>>

-----------------------------------------------------------------------------
(* Requests, and profiles that somebody takes.                             *)

Move(r, from, to) ==
  /\ main # "exited"
  /\ requests[r] = from
  /\ requests' = [requests EXCEPT ![r] = to]
  /\ UNCHANGED <<operator, main, settings, signals, resources, ending, profiling>>

Arrive(r) == listener = "up" /\ Move(r, "none", "handling")
BeginQuery(r) == pool = "open" /\ Move(r, "handling", "querying")
EndQuery(r) == Move(r, "querying", "handling")
Answer(r) == Move(r, "handling", "none")

\* A profile begins while the pprof server listens, and ends, when it likes.
Profile ==
  /\ IF profiling THEN main # "exited" ELSE main \notin {"boot", "stopPprof", "exited"}
  /\ profiling' = ~profiling
  /\ UNCHANGED <<operator, main, settings, signals, resources, ending, requests>>

-----------------------------------------------------------------------------
(* The operator: edits the file, runs `migrate up` or `migrate down`.      *)

Edit ==
  /\ file' \in Contents \ {file}
  /\ asked' = asked \ {"SIGHUP"}
  /\ UNCHANGED <<schema, main, settings, sigChan, resources, ending, users>>

Migrate ==
  /\ schema' \in BOOLEAN \ {schema}
  /\ UNCHANGED <<file, main, settings, signals, resources, ending, users>>

-----------------------------------------------------------------------------
Loop ==
  \/ Boot \/ Connect \/ Listen
  \/ CatchReload \/ Reload \/ SetLevel
  \/ CatchStop \/ StopRedirector \/ StopServer \/ ClosePool \/ PoolClosed \/ StopPprof

Deadlines ==
  \/ Expire("10s", {"stopRedirector", "stopServer"})
  \/ Expire("2s", {"stopPprof"})

ServerNext ==
  \/ Loop \/ Deadlines
  \/ \E sig \in Signals : Kill(sig)
  \/ \E r \in Requests : Arrive(r) \/ BeginQuery(r) \/ EndQuery(r) \/ Answer(r)
  \/ Profile \/ Edit \/ Migrate

ServerSpec == ServerInit /\ [][ServerNext]_serverVars

\* runServer keeps running, deadlines pass, and queries end: each has the
\* request's 30 s.  That handlers or profiles end is not assumed.
ServerFairness ==
  /\ WF_serverVars(Loop) /\ WF_serverVars(Deadlines)
  /\ \A r \in Requests : WF_serverVars(EndQuery(r))

FairServerSpec == ServerSpec /\ ServerFairness

-----------------------------------------------------------------------------
\* A reload applies as a whole or, with a level it does not know, but for the
\* level: between reloads the level is that of the configuration in force.
LevelFollowsConfig ==
  main = "serving" /\ cfg # None /\ LevelKnown(cfg) => level = LevelOf[cfg]

\* A SIGHUP is never lost for good: if one was sent for the file as it is now and
\* not yet served, the loop still has one to receive, or is about to stop.  The
\* channel holds one signal, so one of two SIGHUPs may be dropped.
ReloadIsPending ==
  "SIGHUP" \in asked /\ main \in Looping => sigChan # <<>> \/ main = "reloading"

\* The pool is not closed under a request that arrived in time, nor the process
\* ended: the deferred calls run after Shutdown, and Shutdown waits for requests
\* unless its deadline has passed.
PoolOutlivesRequests == pool \in {"closing", "closed"} => "10s" \in expired \/ Active = {}

\* Once the loop has caught a SIGTERM the process ends, whatever is in flight.
StopCompletes == main \in Stopping ~> main = "exited"

\* The configuration in force becomes what Load makes of the file that SIGHUP was
\* sent for, the defaults included, unless the file is edited again or the
\* process stops first.
ReloadHappens ==
  \A f \in Contents :
    "SIGHUP" \in asked /\ file = f /\ Load(f) # None
      ~> cfg = Load(f) \/ file # f \/ main \in Stopping \cup {"exited"}

\* The loop catches every SIGTERM sent to it (main.go, comment on the loop).
TermIsCaught == "SIGTERM" \in asked ~> main = "exited"

\* "Server shutdown completed cleanly." is not said of a shutdown that failed.
CleanlyMeansClean ==
  "Server shutdown completed cleanly." \in log => "Server shutdown failed" \notin log

\* Start-up applies the migrations (README.md, database layer).
StartMigrates == [][main = "connecting" /\ main' = "serving" => schema']_serverVars

-----------------------------------------------------------------------------
(* What is proved by induction over the steps: how main relates to the     *)
(* configuration, the channel and the resources.                           *)

\* From Boot on there is a configuration, and its level, if known, is in force
\* except between Update and SetLevel.
LevelInForce ==
  /\ main \notin {"boot", "exited"} => cfg # None
  /\ main \in {"connecting", "serving", "reloading"} /\ LevelKnown(cfg) => level = LevelOf[cfg]

\* Nobody signals or arrives before the loop, which has the pool; and nobody arrives
\* once Shutdown has begun, with Shutdown's condition true from its return on.
StagesInOrder ==
  /\ main \in Starting => asked = {} /\ listener = "none" /\ pool = "none"
  /\ main \in Looping \cup {"stopRedirector", "stopServer"} => pool = "open"
  /\ listener = "none" => Active = {}
  /\ pool \in {"closing", "closed"} => main \in {"closing", "stopPprof", "exited"}
  /\ main \in {"stopServer", "closing", "stopPprof", "exited"} => listener # "up"
  /\ main \in {"closing", "stopPprof"} => "10s" \in expired \/ Active = {}

ServerInv == ServerTypeOK /\ LevelInForce /\ ReloadIsPending /\ PoolOutlivesRequests /\ StagesInOrder
=============================================================================
