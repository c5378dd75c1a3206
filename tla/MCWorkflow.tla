----------------------------- MODULE MCWorkflow -----------------------------
(***************************************************************************)
(* Small instances of Workflow for TLC.                                    *)
(***************************************************************************)
EXTENDS Workflow, TLC

CONSTANTS s1, s2, l1, l2, l3, w1, v1, v2, c1, c2

MCBodies == {[json |-> TRUE, value |-> v1, serial |-> 1]}

Symmetry == Permutations(Slots) \cup Permutations(LockIDs) \cup Permutations(Clients)

\* The lock IDs that a row has or may come to have.
InUse ==
  {lockId[c] : c \in Clients} \cup {locks[w] : w \in Workspaces}
    \cup {call[s].id : s \in {t \in Slots : Pending(t)}}

\* Whether another lock ID is astray is without consequence: StartLock takes it out
\* before it is used again.
View == <<gatewayVars, phase, lockId, home, conn, astray \cap InUse>>
=============================================================================
