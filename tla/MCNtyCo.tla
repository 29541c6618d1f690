------------------------------- MODULE MCNtyCo -------------------------------
(* Two clients throughout.  The kvstore: both well-behaved, one that may    *)
(* abort, and one descriptor too few; two HTTP workers: both well-behaved,  *)
(* one that may abort, and workers that run out of descriptors.  The two    *)
(* workers have counters of their own, or share one.                        *)
EXTENDS NtyCo

CONSTANTS c1, c2

MCConn == {c1, c2}

Load(app, procs, limit, n1, n2, resets, slot) ==
  [app |-> app, procs |-> procs, limit |-> limit,
   sends |-> (c1 :> n1) @@ (c2 :> n2), resets |-> resets,
   slot |-> 1 :> 7 @@ 2 :> slot]

MCWorkload ==
  { Load("kvstore", {1}, 3, 2, 1, {}, 8),
    Load("kvstore", {1}, 3, 2, 1, {c1}, 8),
    Load("kvstore", {1}, 1, 1, 1, {}, 8),
    Load("httpd", {1, 2}, 3, 1, 1, {}, 8),
    Load("httpd", {1, 2}, 3, 1, 1, {c1}, 8),
    Load("httpd", {1, 2}, 1, 1, 1, {}, 7) }
==============================================================================
