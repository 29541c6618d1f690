------------------------------ MODULE MCCoReactor -----------------------------
(* Two descriptors.  Four connections: on one descriptor after the other    *)
(* they meet a coroutine that is finished, dead, and freed.  Three that     *)
(* send twice, and two that may abort.                                      *)
EXTENDS CoReactor, TLC

CONSTANTS c1, c2, c3, c4

MCConn == {c1, c2, c3, c4}

Load(clients, n1, n2, n3, n4, resets) ==
  [clients |-> clients, resets |-> resets,
   sends |-> (c1 :> n1) @@ (c2 :> n2) @@ (c3 :> n3) @@ (c4 :> n4)]

MCWorkload ==
  { Load(MCConn, 1, 0, 2, 1, {}), Load({c1, c2, c3}, 1, 2, 1, 0, {}),
    Load({c1, c2}, 1, 2, 0, 0, {c1, c2}) }
===============================================================================
