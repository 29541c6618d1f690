------------------------------ MODULE MCReactor ------------------------------
(* Three clients and two descriptors: one client sends two requests,       *)
(* one half a request, one only connects and disconnects.                   *)
EXTENDS Reactor

MCConn == 1 .. 3
MCMaxSend == <<4, 1, 0>>
==============================================================================
