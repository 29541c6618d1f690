----------------------------- MODULE MCWebServer -----------------------------
(* Two descriptors and three connections, so that one comes to a slot with  *)
(* a past; while both are taken the server cannot open its file.            *)
(* Handshakes arrive whole, cut within the key or behind it; frames are     *)
(* short, empty, as long as a buffer allows, cut, or laid out as the        *)
(* WebSocket standard has them.                                             *)
EXTENDS WebServer, TLC

CONSTANTS c1, c2, c3

MCConn == {c1, c2, c3}

Text(key, byte) == [kind |-> "upgrade", key |-> key, byte |-> byte, ext |-> 0, len |-> 150,
                    exact |-> FALSE, payload |-> 0]

Frame(n) == [kind |-> "frame", key |-> "none", byte |-> IF n < 126 THEN 2 * n + 1 ELSE 253,
             ext |-> n, len |-> n + (IF n < 126 THEN 6 ELSE 8), exact |-> TRUE, payload |-> n]

Standard(n) == [Frame(n) EXCEPT !.byte = 128 + n, !.exact = FALSE]

HalfFrame(n) == [Frame(n) EXCEPT !.len = 4 + n \div 2, !.exact = FALSE]

Get == [Text("none", 69) EXCEPT !.kind = "http"]

Whole == <<Text("all", 69)>>

Within == <<Text("start", 69), Text("end", 120)>>

Behind == <<Text("all", 69), Text("none", 13)>>

Load(build, s1, s2, s3, resets) ==
  [build |-> build, resets |-> resets, sends |-> (c1 :> s1) @@ (c2 :> s2) @@ (c3 :> s3)]

MCWorkload ==
  { Load("page", <<Get, Get>>, <<Get>>, <<Get>>, {c1}),
    Load("file", <<Get>>, <<Get>>, <<>>, {}),
    Load("sendfile", <<Get, Get>>, <<Get>>, <<>>, {c1}),
    Load("ws", Whole \o <<Frame(5), Frame(0)>>, Within, Whole, {}),
    Load("ws", Whole \o <<Frame(1016), Frame(125), Frame(126)>>, Whole, <<>>, {c2}),
    Load("ws", Behind \o <<Frame(5)>>, Whole \o <<Standard(5), HalfFrame(8)>>, <<>>, {}) }
===============================================================================
