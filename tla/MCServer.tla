------------------------------ MODULE MCServer ------------------------------
(* Instances of Server: which client makes which requests.                 *)
EXTENDS Server

CONSTANTS c1, c2, j1, j2

(* Both clients start, reload and stop the jail, and one may go away.      *)
BothStart ==
    (c1 :> {"start", "restart", "start_all", "reload", "status"})
    @@ (c2 :> {"start", "reload", "reload_jail", "stop", "stop_all", "disconnect"})

StartStop == c1 :> {"start", "stop"}
=============================================================================
