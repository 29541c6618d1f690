------------------------------ MODULE MCProactor ------------------------------
(* Three clients: in turns, at the same time, one that may abort, and a     *)
(* server that has one descriptor only.  Requests of one to three words; in *)
(* turns they get longer and shorter, so that some are read with the end of *)
(* an earlier one and some end where that one had a blank.                  *)
EXTENDS Proactor, TLC

CONSTANTS c1, c2, c3

MCConn == {c1, c2, c3}

Get == <<"x", " ", "x">>
Set == <<"x", " ", "x", "x", " ", "x">>
Odd == <<"x", "x">>

Load(s1, s2, s3, resets, limit, turns) ==
  [sends |-> (c1 :> s1) @@ (c2 :> s2) @@ (c3 :> s3), resets |-> resets, limit |-> limit, turns |-> turns]

MCWorkload ==
  { Load(<<Get, Set>>, <<Get, Set>>, <<Odd>>, {}, 3, TRUE),
    Load(<<Get>>, <<Get>>, <<Get>>, {}, 3, FALSE),
    Load(<<Set, Get>>, <<Odd>>, <<>>, {c1}, 2, FALSE),
    Load(<<Get>>, <<Set>>, <<>>, {}, 1, FALSE) }
===============================================================================
