---------------------------- MODULE MCObservers ----------------------------
(***************************************************************************)
(* Small instances of Observers for TLC.                                   *)
(***************************************************************************)
EXTENDS Observers

CONSTANTS s1, s2, w1, l1, v1, o1, o2

OneBody == {[json |-> TRUE, value |-> v1, serial |-> 7]}
=============================================================================
