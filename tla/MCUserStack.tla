----------------------------- MODULE MCUserStack -----------------------------
(* TCP alone: one client that sends a message longer than the server's      *)
(* buffer, with the FIN in it or a short message behind it; one that writes *)
(* two segments, the first without PSH; or two clients, at the same time or *)
(* one after the other.  UDP alone: three datagrams of two hosts, of which  *)
(* one does not answer ARP; one of them is cut, once within its data and    *)
(* once within the bytes read past its end, where it finds a zero byte or   *)
(* not; a datagram with a ping and an ARP request, and an empty string.     *)
(* And a TCP client next to a datagram, in the same rings.                  *)
EXTENDS UserStack

CONSTANTS c1, c2, h1, h2

Entry(len, fin) == [len |-> len, fin |-> fin, psh |-> len > 0]
Unpushed(len, fin) == [len |-> len, fin |-> fin, psh |-> FALSE]

MCHost == {c1, c2, h1, h2}
MCClient == {c1, c2}
MCDeaf == {h2}
MCScanned == {h1}

Alone == [c \in {} |-> <<>>]
Short == [c \in {c1} |-> <<Entry(1, FALSE)>>]
MCTcp ==
  {[c \in {c1} |-> <<Entry(3, TRUE)>>],
   [c \in {c1} |-> <<Entry(3, FALSE), Entry(1, FALSE)>>],
   [c \in {c1} |-> <<Unpushed(2, FALSE), Entry(1, FALSE), Unpushed(1, TRUE)>>],
   [c \in {c1, c2} |-> IF c = c1 THEN <<Entry(1, FALSE), Entry(0, TRUE)>>
                                 ELSE <<Entry(0, TRUE)>>]}
MCWorkload == MCTcp \cup {Alone, Short}

Datagrams(s1, s2) == [h \in {h1, h2} |-> IF h = h1 THEN s1 ELSE s2]
Udp(s1, s2, nul, ping, ask, timer, w) ==
  [udp |-> Datagrams(s1, s2), nul |-> nul, ping |-> ping, ask |-> ask, timer |-> timer, script |-> w]

MCTraffic ==
  {Udp(<<>>, <<>>, {}, {}, {}, FALSE, w) : w \in MCTcp}
  \cup {Udp(<<4, 1>>, <<1>>, {}, {}, {}, FALSE, Alone),
        Udp(<<1>>, <<3>>, {}, {}, {}, TRUE, Alone),
        Udp(<<3, 1>>, <<>>, {<<h1, 1, 3>>}, {}, {}, FALSE, Alone),
        Udp(<<4, 1>>, <<>>, {<<h1, 1, 0>>}, {h2}, {h2}, FALSE, Alone),
        Udp(<<1>>, <<>>, {}, {}, {}, FALSE, Short)}
==============================================================================
