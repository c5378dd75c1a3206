------------------------------ MODULE MCRouter ------------------------------
(***************************************************************************)
(* Small instances of Router for TLC: a configuration with both kinds of   *)
(* authentication, and one without Basic, with another token, more body    *)
(* and CORS.                                                               *)
(***************************************************************************)
EXTENDS Router

CONSTANTS i1, r1, r2, user, token1, token2, site

MCConfigs ==
  {[limit |-> 2, maxBody |-> 1, origins |-> {}, basic |-> user, bearer |-> {token1}],
   [limit |-> 1, maxBody |-> 2, origins |-> {site}, basic |-> None, bearer |-> {token2}]}

Call(route, method, cred, size) ==
  [route |-> route, method |-> method, ip |-> i1, origin |-> site, cred |-> cred, size |-> size]

MCCalls ==
  {Call("state", "POST", user, 2), Call("state", "GET", token2, 0),
   Call("metrics", "OPTIONS", None, 0)}
=============================================================================
