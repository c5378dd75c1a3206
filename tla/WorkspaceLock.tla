---------------------------- MODULE WorkspaceLock ----------------------------
(***************************************************************************)
(* What the clients may rely on: the lock of a workspace goes to one of    *)
(* them at a time, and only its owner gives it back.  An owner that goes   *)
(* away leaves the lock taken, and the requests of runs that are over may  *)
(* still take a free lock or give back one that nobody owns.               *)
(***************************************************************************)
CONSTANTS Clients, Workspaces, None

VARIABLES
  phase,    \* client -> what it is doing
  home,     \* client -> its workspace, or None
  taken,    \* the workspaces whose lock is not free
  owners    \* the clients that have the lock of their workspace

vars == <<phase, home, taken, owners>>

Init ==
  /\ phase = [c \in Clients |-> "idle"]
  /\ home = [c \in Clients |-> None]
  /\ taken = {}
  /\ owners = {}

Begin(c, w) ==
  /\ phase[c] = "idle"
  /\ phase' = [phase EXCEPT ![c] = "locking"]
  /\ home' = [home EXCEPT ![c] = w]
  /\ UNCHANGED <<taken, owners>>

\* A LOCK sent twice may be granted once more, after the UNLOCK.
Grant(c) ==
  /\ phase[c] \in {"locking", "unlocking"}
  /\ home[c] \notin taken
  /\ taken' = taken \cup {home[c]}
  /\ owners' = owners \cup {c}
  /\ UNCHANGED <<phase, home>>

\* Only an owner believes that it holds the lock.
Hold(c) ==
  /\ phase[c] = "locking"
  /\ c \in owners
  /\ phase' = [phase EXCEPT ![c] = "holding"]
  /\ UNCHANGED <<home, taken, owners>>

Return(c) ==
  /\ phase[c] = "holding"
  /\ phase' = [phase EXCEPT ![c] = "unlocking"]
  /\ UNCHANGED <<home, taken, owners>>

Free(c) ==
  /\ phase[c] = "unlocking"
  /\ c \in owners
  /\ taken' = taken \ {home[c]}
  /\ owners' = owners \ {c}
  /\ UNCHANGED <<phase, home>>

Quit(c) ==
  /\ phase[c] # "idle"
  /\ phase' = [phase EXCEPT ![c] = "idle"]
  /\ home' = [home EXCEPT ![c] = None]
  /\ owners' = owners \ {c}
  /\ UNCHANGED taken

\* A request of a run that is over.
Leftover(w) ==
  /\ \/ w \notin taken /\ taken' = taken \cup {w}
     \/ w \in taken /\ (\A c \in owners : home[c] # w) /\ taken' = taken \ {w}
  /\ UNCHANGED <<phase, home, owners>>

Next ==
  \/ \E c \in Clients :
       \/ \E w \in Workspaces : Begin(c, w)
       \/ Grant(c) \/ Hold(c) \/ Return(c) \/ Free(c) \/ Quit(c)
  \/ \E w \in Workspaces : Leftover(w)

Spec == Init /\ [][Next]_vars

\* What makes it a lock: a workspace has one owner at most, whose lock is taken, and
\* who believes to hold a lock owns it.
Exclusive ==
  /\ \A c \in owners : phase[c] # "idle" /\ home[c] \in taken
  /\ \A c, d \in owners : home[c] = home[d] => c = d
  /\ \A c \in Clients : phase[c] = "holding" => c \in owners
=============================================================================
