------------------------------ MODULE MCServer ------------------------------
(***************************************************************************)
(* Small instances of Server for TLC: two good configurations and one with *)
(* a level parseLevel does not know.                                       *)
(***************************************************************************)
EXTENDS Server, TLC

CONSTANTS r1, r2, cfg1, cfg2, cfg3

MCLevelOf == (cfg1 :> "info") @@ (cfg2 :> "debug") @@ (cfg3 :> "verbose")
MCLevels == {"info", "debug", "warn", "error"}
=============================================================================
