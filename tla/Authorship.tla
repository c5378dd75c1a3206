----------------------------- MODULE Authorship -----------------------------
(***************************************************************************)
(* Workflow with a history variable: under which lock ID, that is in which *)
(* run of which client, each request was sent.                             *)
(***************************************************************************)
EXTENDS MCWorkflow

VARIABLE author     \* slot -> the lock ID its client had when it sent the request

AuthorInit == WorkflowInit /\ author = [s \in Slots |-> None]

AuthorNext ==
  \/ GatewayNext /\ UNCHANGED author
  \/ \E c \in Clients :
       /\ ClientNext(c)
       /\ author' = [s \in Slots |-> IF conn[c] # s /\ conn'[c] = s THEN lockId'[c] ELSE author[s]]

AuthorSpec == AuthorInit /\ [][AuthorNext]_<<vars, author>>

\* While a client holds the lock of a workspace, the state changes only by what
\* was sent in the run that took that lock (README.md, LOCK).
OnlyHolderWrites ==
  [][\A w \in Workspaces, c \in Clients :
       Holds(c, w) /\ states'[w] # states[w]
         => \E s \in Slots : stmt[s] = "sent" /\ stmt'[s] = "hit" /\ author[s] = lockId[c]]_<<vars, author>>
=============================================================================
