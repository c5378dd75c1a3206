------------------------------ MODULE Workflow ------------------------------
(***************************************************************************)
(* Terraform clients on the gateway: each takes the lock of a workspace    *)
(* under a new lock ID, reads and writes the state while it holds it, and  *)
(* releases it.  A client waits for one request at a time; it may time     *)
(* out, send the request again, or give up (or be killed) and leave        *)
(* everything as it is.  The clients are external: they are the ones       *)
(* test/terraform/main.tf configures and test/integration_test.go plays.   *)
(* Nobody unlocks with an ID that is not its own (terraform force-unlock). *)
(***************************************************************************)
EXTENDS Gateway

CONSTANTS
  Clients,
  StateOps      \* the methods they use on a state

ASSUME WorkflowAssumption == StateOps \subseteq {"GET", "POST", "DELETE"}

VARIABLES
  phase,    \* client -> what it is doing
  lockId,   \* client -> the lock ID of this run, or None
  home,     \* client -> the workspace of this run, or None
  conn,     \* client -> the request it waits for, or None
  astray    \* lock IDs of runs that did not end cleanly, or may not; for the properties

clientVars == <<phase, lockId, home, conn, astray>>
vars == <<gatewayVars, clientVars>>

WorkflowTypeOK ==
  /\ phase \in [Clients -> {"idle", "locking", "holding", "unlocking"}]
  /\ lockId \in [Clients -> LockIDs \cup {None}]
  /\ home \in [Clients -> Workspaces \cup {None}]
  /\ conn \in [Clients -> Slots \cup {None}]
  /\ astray \subseteq LockIDs

WorkflowInit ==
  /\ Init
  /\ phase = [c \in Clients |-> "idle"]
  /\ lockId = [c \in Clients |-> None]
  /\ home = [c \in Clients |-> None]
  /\ conn = [c \in Clients |-> None]
  /\ astray = {}

Request(op, w, id, body) == [op |-> op, ws |-> w, id |-> id, body |-> body]

\* A lock ID nobody uses, sends or left in the table: a new UUID.
Fresh(i) ==
  /\ \A c \in Clients : lockId[c] # i
  /\ \A w \in Workspaces : locks[w] # i
  /\ \A s \in Slots : call[s] # None => call[s].id # i

\* Client c sends a request and waits for it in slot s.
Send(c, s, r) ==
  /\ conn[c] = None
  /\ Enter(s, r)
  /\ conn' = [conn EXCEPT ![c] = s]

StartLock(c, s, w, i) ==
  /\ phase[c] = "idle"
  /\ Fresh(i)
  /\ Send(c, s, Request("LOCK", w, i, None))
  /\ phase' = [phase EXCEPT ![c] = "locking"]
  /\ lockId' = [lockId EXCEPT ![c] = i]
  /\ home' = [home EXCEPT ![c] = w]
  /\ astray' = astray \ {i}

RetryLock(c, s) ==
  /\ phase[c] = "locking"
  /\ Send(c, s, Request("LOCK", home[c], lockId[c], None))
  /\ UNCHANGED <<phase, lockId, home, astray>>

UseState(c, s, op, body) ==
  /\ phase[c] = "holding"
  /\ op = "POST" <=> body # None
  /\ Send(c, s, Request(op, home[c], None, body))
  /\ UNCHANGED <<phase, lockId, home, astray>>

\* The first UNLOCK, or one more after an answer that did not come or did not help.
Unlock(c, s) ==
  /\ phase[c] \in {"holding", "unlocking"}
  /\ Send(c, s, Request("UNLOCK", home[c], lockId[c], None))
  /\ phase' = [phase EXCEPT ![c] = "unlocking"]
  /\ UNCHANGED <<lockId, home, astray>>

Leave(c) ==
  /\ phase' = [phase EXCEPT ![c] = "idle"]
  /\ lockId' = [lockId EXCEPT ![c] = None]
  /\ home' = [home EXCEPT ![c] = None]
  /\ conn' = [conn EXCEPT ![c] = None]

\* A LOCK of the client was not answered, or its lock not released.
Doubt(c, unclean) == astray' = IF unclean THEN astray \cup {lockId[c]} ELSE astray

\* The answer arrives.  A 200 ends LOCK and UNLOCK; after anything else the
\* client may try again or give up.
Hear(c) ==
  /\ conn[c] # None
  /\ pc[conn[c]] = "replied"
  /\ IF phase[c] = "unlocking" /\ reply[conn[c]].status = 200
       THEN Leave(c)
       ELSE /\ phase' = IF phase[c] = "locking" /\ reply[conn[c]].status = 200
                          THEN [phase EXCEPT ![c] = "holding"] ELSE phase
            /\ conn' = [conn EXCEPT ![c] = None]
            /\ UNCHANGED <<lockId, home>>
  /\ Doubt(c, phase[c] = "locking" /\ reply[conn[c]].status \notin {200, 423})
  /\ UNCHANGED gatewayVars

\* No answer in time, or the connection closed.
TimeOut(c) ==
  /\ conn[c] # None
  /\ conn' = [conn EXCEPT ![c] = None]
  /\ Doubt(c, phase[c] = "locking")
  /\ UNCHANGED <<gatewayVars, phase, lockId, home>>

\* After a 423 it may go without harm; otherwise it leaves what it has.
GiveUp(c) ==
  /\ phase[c] # "idle"
  /\ Leave(c)
  /\ Doubt(c, phase[c] # "locking" \/ conn[c] # None)
  /\ UNCHANGED gatewayVars

ClientNext(c) ==
  \/ \E s \in Slots, w \in Workspaces, i \in LockIDs : StartLock(c, s, w, i)
  \/ \E s \in Slots : RetryLock(c, s) \/ Unlock(c, s)
  \/ \E s \in Slots, op \in StateOps, b \in Bodies \cup {None} : UseState(c, s, op, b)
  \/ Hear(c) \/ TimeOut(c) \/ GiveUp(c)

\* The gateway works on; a slot somebody waits for is kept.
GatewayNext ==
  /\ \/ \E s \in Slots : Progress(s)
     \/ \E s \in Slots : (\A c \in Clients : conn[c] # s) /\ Finish(s)
     \/ Crash
  /\ UNCHANGED clientVars

WorkflowNext == GatewayNext \/ \E c \in Clients : ClientNext(c)

WorkflowSpec == WorkflowInit /\ [][WorkflowNext]_vars

-----------------------------------------------------------------------------
Holds(c, w) == phase[c] = "holding" /\ home[c] = w

\* No two clients believe they hold the lock of one workspace, whatever LOCKs
\* and UNLOCKs were sent twice, answered late or abandoned in the database.
MutualExclusion ==
  \A w \in Workspaces, c, d \in Clients : Holds(c, w) /\ Holds(d, w) => c = d

\* The row of a held lock stays until its holder sends UNLOCK: a LOCK or UNLOCK
\* left over from an earlier run, or of another client, never takes it away.
HolderKeepsRow == \A c \in Clients : phase[c] = "holding" => locks[home[c]] = lockId[c]

\* A run whose LOCKs were all answered 200 or 423, and that ended with a 200 to
\* its UNLOCK or without the lock, leaves no lock behind: a row belongs to a client
\* at work or to a run that was cut off.
NothingLeft ==
  \A w \in Workspaces :
    locks[w] # None => locks[w] \in astray \/ \E c \in Clients : lockId[c] = locks[w] /\ home[c] = w

\* A 423 that names the client's own ID, to a LOCK sent again, is the lock itself.
OwnConflict ==
  \A c \in Clients, s \in Slots :
    phase[c] = "locking" /\ call[s] # None /\ call[s].id = lockId[c]
      /\ reply[s] # None /\ reply[s].status = 423 /\ reply[s].lock = lockId[c]
        => locks[home[c]] = lockId[c]

\* A state changes under the lock of the client that waits for the change, or by a
\* request that nobody waits for any more.
WriteUnderLock ==
  \A w \in Workspaces :
    states'[w] # states[w] =>
      \E s \in Slots :
        /\ stmt[s] = "sent" /\ stmt'[s] = "hit" /\ call[s].ws = w
        /\ \A c \in Clients : conn[c] = s => Holds(c, w) /\ locks[w] = lockId[c]

WritesUnderLock == [][WriteUnderLock]_vars

\* Clients, gateway and tables implement the lock of WorkspaceLock: a row is a taken
\* lock, and it is owned by the client whose ID it holds.
takenRows == {w \in Workspaces : locks[w] # None}
rowOwners == {c \in Clients : phase[c] # "idle" /\ locks[home[c]] = lockId[c]}

Lock == INSTANCE WorkspaceLock WITH taken <- takenRows, owners <- rowOwners

LockPromised == Lock!Spec

\* The parts of the inductive invariant behind these.

\* A client waits for a request that fits what it is doing.
ClientsFit ==
  \A c \in Clients :
    /\ phase[c] = "idle" <=> lockId[c] = None
    /\ phase[c] = "idle" => home[c] = None /\ conn[c] = None
    /\ phase[c] # "idle" => home[c] \in Workspaces
    /\ conn[c] # None =>
         /\ pc[conn[c]] # "idle" /\ call[conn[c]].ws = home[c]
         /\ phase[c] = "holding" <=> call[conn[c]].op \notin LockOps
         /\ phase[c] = "locking" <=> call[conn[c]].op = "LOCK"
         /\ phase[c] # "holding" => call[conn[c]].id = lockId[c]

OwnIDs == \A c, d \in Clients : c # d => lockId[c] = None \/ lockId[c] # lockId[d]

\* No UNLOCK of a client that has not yet asked for one, not even an old one.
NoStrayUnlock ==
  \A c \in Clients, s \in Slots :
    phase[c] \in {"locking", "holding"} /\ call[s] # None /\ call[s].id = lockId[c]
      => call[s].op = "LOCK" /\ call[s].ws = home[c]

Hit(s, method) == query[s] = method /\ stmt[s] = "hit"

\* What shows that lock ID i has the row: the INSERT, the second query, the answer.
Shown(s, i) ==
  \/ Hit(s, "AcquireLock")
  \/ row[s] = i
  \/ reply[s] # None /\ reply[s].lock = i

\* A LOCK that took the row still finds it there, and so does one that saw it.
GrantsStand ==
  \A c \in Clients, s \in Slots :
    phase[c] \in {"locking", "holding"} /\ call[s] # None /\ call[s].id = lockId[c]
      => (Shown(s, lockId[c]) => locks[home[c]] = lockId[c])

\* A LOCK is answered 200 only for a row it took and 423 only after it missed, an
\* UNLOCK 200 only for a row it removed.
TrueAnswers ==
  \A s \in Slots :
    call[s] # None /\ reply[s] # None =>
      /\ call[s].op = "LOCK" /\ reply[s].status = 200 => Hit(s, "AcquireLock")
      /\ call[s].op = "LOCK" /\ reply[s].status = 423 => query[s] = "GetLock"
      /\ call[s].op = "UNLOCK" /\ reply[s].status = 200 => Hit(s, "ReleaseLock")

Pending(s) == query[s] = "AcquireLock" /\ (pc[s] = "queued" \/ stmt[s] = "sent")

\* Of a run with no unanswered LOCK, no LOCK can take a row but the one that is
\* waited for.
Awaited ==
  \A s \in Slots :
    Pending(s) /\ call[s].id \notin astray => \E c \in Clients : phase[c] = "locking" /\ conn[c] = s

\* And such a run has the row only from its answer on, and until its UNLOCK.
CleanRows ==
  \A c \in Clients :
    phase[c] # "idle" /\ lockId[c] \notin astray /\ locks[home[c]] = lockId[c] =>
      /\ phase[c] = "locking" => conn[c] # None /\ Hit(conn[c], "AcquireLock")
      /\ phase[c] = "unlocking" /\ conn[c] # None => ~Hit(conn[c], "ReleaseLock")

WorkflowInv ==
  /\ TypeOK /\ Coherent /\ WorkflowTypeOK /\ ClientsFit /\ OwnIDs
  /\ NoStrayUnlock /\ GrantsStand /\ TrueAnswers /\ HolderKeepsRow
  /\ Awaited /\ CleanRows /\ NothingLeft
=============================================================================
