----------------------------- MODULE MCGateway -----------------------------
(***************************************************************************)
(* Small instances of Gateway for TLC.                                     *)
(***************************************************************************)
EXTENDS Gateway, TLC

CONSTANTS s1, s2, w1, l1, l2, v1, v2

\* JSON with a serial, JSON whose serial is no int64, and what is not JSON.
MCBodies == {[json |-> TRUE, value |-> v1, serial |-> 7],
             [json |-> TRUE, value |-> v2, serial |-> Undecodable],
             [json |-> FALSE, value |-> v1, serial |-> Undecodable]}

\* Slots and lock IDs are interchangeable.
Symmetry == Permutations(Slots) \cup Permutations(LockIDs)
=============================================================================
