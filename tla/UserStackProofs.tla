--------------------------- MODULE UserStackProofs ---------------------------
(***************************************************************************)
(* Proofs about the user-space stack, for any hosts, clients, workloads,   *)
(* traffic and buffer sizes: its state is consistent and no stream is      *)
(* freed under the server; no server waits over work; of what a client     *)
(* sends the SYN, the FIN and the data with PSH are acknowledged, exactly; *)
(* the data with PSH is read at most once and in order; and a datagram is  *)
(* echoed piece by piece, each once but those that begin with a zero byte. *)
(* The peers and the hosts are those of UserTcp and UserStack: nothing is  *)
(* lost or retransmitted on the way.                                       *)
(***************************************************************************)
EXTENDS UserStack, FiniteSetsExt, FiniteSetTheorems, SequenceTheorems, TLAPS

(* What the variables hold.                                                 *)
Fragment == [msg : Nat, off : Nat, len : Nat]

Stream == [status : Status, fd : {-1, 5}, snd_nxt : Nat, rcv_nxt : Nat,
           sndbuf : Seq(Segment), rcvbuf : Seq(Fragment)]

PeerState == {"idle", "SYN_SENT", "ESTABLISHED", "FIN_WAIT", "closed"}

PeerFrame == [st : PeerState, snd : Nat, cnt : Nat, rcv : Nat, n : Nat, pushes : Nat]

PeerEnd == {e \in PeerFrame : e.cnt <= e.snd}

PktPc == {"poll", "enqueue", "signal", "rcv_nxt", "ackpkt", "accept", "udp_signal"}

Types ==
  /\ alive \in BOOLEAN /\ missed \in BOOLEAN
  /\ rin \in Seq(Segment) /\ rout \in Seq(Segment) /\ arp \subseteq Host
  /\ tcb \in [Client -> Stream]
  /\ peer \in [Client -> PeerEnd]
  /\ reads \in [Client -> Seq(Nat \X Nat)]
  /\ p \in [pc : PktPc, seg : Segment \cup {NULL}, part : {"none", "PSH", "FIN"}]
  /\ t \in [pc : Pc, cur : Client \cup {NULL}, iter : Client \cup {Listener, NULL},
            fd : {-1, 5}, len : Nat, seq : Nat, ack : Nat]
  /\ script \in Workload

(* The sockets of a client before and after its handshake, and after its    *)
(* FIN.                                                                     *)
Opening == {"idle", "SYN_SENT"}
Finished == {"FIN_WAIT", "closed"}

(* The list holds the listener and at most one stream: a second one would   *)
(* have no rings.                                                           *)
Listed(c) == tcb_set = <<c, Listener>>

ListInv ==
  /\ tcb_set = <<Listener>> \/ \E c \in Client : Listed(c)
  /\ \A c \in Client : Listed(c) <=> tcb[c].status \notin {"none", "freed"}

(* The echo server: which of its variables are in use where. *)
Sending == {"send_ack", "send_seq", "send"}
Closing == {"close_numbers", "close", "last_ack"}
Receiving == {"try", "hold", "recv_wait"}
Working == {"fd"} \cup Receiving \cup Sending \cup Closing
Looking == {"find", "walk", "accept", "pick", "accept_wait"}

ServerInv ==
  /\ t.cur # NULL <=> t.pc \in Working
  /\ t.pc \in {"walk", "pick"} => t.iter # NULL
  /\ fd_table = {3, listenfd} \cup ({t.fd} \ {-1})
  /\ t.pc \in Looking \cup {"fd"} => t.fd = -1
  /\ t.pc \in Closing => tcb[t.cur].status = "CLOSE_WAIT"
  /\ t.pc \in Sending => tcb[t.cur].status \notin {"none", "SYN_RCVD"}
  /\ t.pc \in {"send_seq", "send", "close"} => t.ack <= peer[t.cur].cnt

(* Unless a lookup of the listening socket has failed, the server works on  *)
(* the stream whose descriptor it holds, and that one is not closed.        *)
InUseInv ==
  ~missed =>
    /\ t.pc \notin Looking \cup {"fd"} => t.fd = 5
    /\ t.cur # NULL => Listed(t.cur)
    /\ t.pc \in Working \ {"fd"} => tcb[t.cur].fd = 5
    /\ \A c \in Client : tcb[c].status = "LAST_ACK" => t.pc \in Looking /\ tcb[c].fd = 5

(* The signals: what a server that waits, or is about to, has not seen is   *)
(* what pkt_process is about to signal.                                     *)
SignalInv ==
  /\ t.pc \in {"hold", "recv_wait"} /\ tcb[t.cur].rcvbuf # <<>>
       => p.pc = "signal" /\ p.seg.peer = t.cur
  /\ \A c \in Client :
       Listed(c) /\ tcb[c].fd = -1 /\ tcb[c].status # "SYN_RCVD" =>
         /\ t.pc = "accept_wait" => p.pc = "accept"
         /\ t.pc = "pick" => p.pc = "accept" \/ t.iter = c

UdpInv ==
  u.pc \in {"hold", "wait"} /\ lhost.rcvbuf # <<>> => p.pc = "udp_signal"

(* The segments of a client in a ring; those whose numbers the handlers     *)
(* count, a SYN, a FIN or a message; and how many are counted with it.      *)
Of(in, c) == {i \in 1 .. Len(in) : in[i].kind = "tcp" /\ in[i].peer = c}

Data(s) == {"SYN", "PSH", "FIN"} \cap s.flags # {}

IsPush(s) == "PSH" \in s.flags

EndOf(s) ==
  s.cnt + Space(IF IsPush(s) THEN s.len ELSE 0, "FIN" \in s.flags) + (IF "SYN" \in s.flags THEN 1 ELSE 0)

(* The segments of c in a ring are those from need on, one after the other  *)
(* up to all that is to be counted.                                         *)
Chain(in, c, need, snd) ==
  /\ need <= snd
  /\ \A i \in Of(in, c) : Data(in[i]) =>
       /\ need <= in[i].cnt /\ EndOf(in[i]) <= snd
       /\ \/ in[i].cnt = need
          \/ \E j \in Of(in, c) : j < i /\ Data(in[j]) /\ EndOf(in[j]) = in[i].cnt
  /\ \A i, j \in Of(in, c) : i < j /\ Data(in[i]) /\ Data(in[j]) => EndOf(in[i]) <= in[j].cnt
  /\ snd = need \/ \E i \in Of(in, c) : Data(in[i]) /\ EndOf(in[i]) = snd

(* What pkt_process has still to add to rcv_nxt for the segment it handles. *)
Due(q, c) ==
  IF q.pc \in {"enqueue", "signal", "rcv_nxt"} /\ q.seg.peer = c
  THEN IF q.part = "PSH" THEN Space(q.seg.len, "FIN" \in q.seg.flags) ELSE 1
  ELSE IF q.pc = "ackpkt" /\ q.seg.peer = c /\ q.part = "PSH" /\ "FIN" \in q.seg.flags
       THEN 1 ELSE 0

NoData(in, c) == \A i \in Of(in, c) : ~Data(in[i])

(* The messages of c in a ring follow those in got, in order, up to n. *)
Messages(in, c, got, n, open) ==
  /\ \A m \in got : m \in 1 .. n
  /\ \A i \in Of(in, c) : IsPush(in[i]) =>
       /\ in[i].msg \in 1 .. n
       /\ \A m \in got : m < in[i].msg
       /\ \/ in[i].msg = 1 \/ in[i].msg - 1 \in got
          \/ \E j \in Of(in, c) : j < i /\ IsPush(in[j]) /\ in[j].msg = in[i].msg - 1
  /\ \A i, j \in Of(in, c) : i < j /\ IsPush(in[i]) /\ IsPush(in[j]) => in[i].msg < in[j].msg
  /\ open => n = 0 \/ n \in got \/ \E i \in Of(in, c) : IsPush(in[i]) /\ in[i].msg = n

(* The messages whose beginning is in rcvbuf or has been read; and the one  *)
(* that pkt_process has in its hands.                                       *)
Started(r, buf) ==
  {m \in Nat : <<m, 0>> \in ToSet(r)
               \/ \E i \in 1 .. Len(buf) : buf[i].msg = m /\ buf[i].off = 0 /\ buf[i].len > 0}

InHand(q, c) ==
  {m \in Nat : q.pc = "enqueue" /\ q.part = "PSH" /\ q.seg.peer = c /\ q.seg.msg = m}

(* The form of the segments of a client. *)
Form(s, e) ==
  /\ s.flags \in {{"SYN"}, {"ACK"}, {"ACK", "PSH"}, {"ACK", "FIN"}, {"ACK", "PSH", "FIN"}}
  /\ IsPush(s) => s.len > 0
  /\ s.ack <= e.rcv
  /\ "ACK" \in s.flags => e.st \notin Opening
  /\ "FIN" \in s.flags => e.st \in Finished
  /\ "SYN" \in s.flags => s.seq = 0 /\ s.cnt = 0

Forms(in, c, e) ==
  /\ \A i \in Of(in, c) : Form(in[i], e)
  /\ \A i, j \in Of(in, c) : i < j /\ "FIN" \in in[i].flags => ~Data(in[j])

(* What may be in the ring at each status of the stream. *)
Phase(in, c, status, e) ==
  /\ status = "none" => e.st \in Opening /\ \A i \in Of(in, c) : "SYN" \in in[i].flags
  /\ status # "none" => e.st # "idle" /\ \A i \in Of(in, c) : "SYN" \notin in[i].flags
  /\ status = "SYN_RCVD" =>
       /\ \A i \in Of(in, c) : Data(in[i]) => \E j \in Of(in, c) : j < i /\ ~Data(in[j])
       /\ e.st \notin Opening => \E j \in Of(in, c) : ~Data(in[j])
  /\ status \notin {"none", "SYN_RCVD"} => e.st \notin Opening
  /\ status \in {"CLOSE_WAIT", "LAST_ACK", "freed"} => e.st \in Finished /\ NoData(in, c)
  /\ e.st \in Opening => e.rcv = 0 /\ e.pushes = 0
  /\ e.st = "idle" => e.cnt = 0

Line(c) ==
  /\ Forms(rin, c, peer[c])
  /\ Phase(rin, c, tcb[c].status, peer[c])
  /\ tcb[c].status # "freed" => Chain(rin, c, tcb[c].rcv_nxt + Due(p, c), peer[c].cnt)
  /\ Messages(rin, c, Started(reads[c], tcb[c].rcvbuf) \cup InHand(p, c), peer[c].pushes,
              peer[c].st = "ESTABLISHED")

LineInv == \A c \in Client : Line(c)

(* pkt_process within ng_tcp_handle_established. *)
Handling == {"enqueue", "signal", "rcv_nxt", "ackpkt"}

PktInv ==
  p.pc \in Handling =>
    /\ p.seg \in Segment /\ p.seg.peer \in Client
    /\ p.part \in {"PSH", "FIN"} /\ p.part \in p.seg.flags
    /\ IsPush(p.seg) => p.seg.len > 0
    /\ p.seg.ack <= peer[p.seg.peer].rcv
    /\ p.part = "PSH" \/ p.pc = "enqueue" => tcb[p.seg.peer].status = "ESTABLISHED"
    /\ p.part = "FIN" /\ p.pc # "enqueue" => tcb[p.seg.peer].status \in {"CLOSE_WAIT", "LAST_ACK"}
    /\ "FIN" \in p.seg.flags => peer[p.seg.peer].st \in Finished /\ NoData(rin, p.seg.peer)
    /\ p.pc = "enqueue" /\ p.part = "PSH" =>
         LET got == Started(reads[p.seg.peer], tcb[p.seg.peer].rcvbuf)
             m == p.seg.msg
         IN /\ m > 0 /\ \A k \in got : k < m
            /\ m = 1 \/ m - 1 \in got

(* What goes out: acknowledgements of what the peer has sent, and nothing   *)
(* but the SYN/ACK before the handshake is over.                            *)
OutOK(s, tb, pe) ==
  s.kind = "tcp" =>
    /\ s.peer \in Client /\ s.ack <= pe[s.peer].cnt /\ tb[s.peer].status # "none"
    /\ "SYN" \notin s.flags => pe[s.peer].st \notin Opening

RingOut(q, tb, pe, known) ==
  \A i \in 1 .. Len(q) : OutOK(q[i], tb, pe) /\ (q[i].kind = "tcp" => q[i].peer \in known)

StreamOut(c, tb, pe, known) ==
  /\ \A i \in 1 .. Len(tb[c].sndbuf) :
       /\ OutOK(tb[c].sndbuf[i], tb, pe)
       /\ tb[c].sndbuf[i].kind = "tcp" /\ tb[c].sndbuf[i].peer = c
  /\ c \notin known => Len(tb[c].sndbuf) <= 1 /\ pe[c].st \in Opening
  /\ tb[c].snd_nxt <= pe[c].rcv
  /\ tb[c].rcv_nxt <= pe[c].cnt

TcpPeers(q) == \A i \in 1 .. Len(q) : q[i].kind = "tcp" => q[i].peer \in Client

OutInv ==
  /\ TcpPeers(rin)
  /\ RingOut(rout, tcb, peer, arp)
  /\ \A c \in Client : StreamOut(c, tcb, peer, arp)

(* The fragments of a stream: at most one is empty, the one of the FIN; the *)
(* others are one piece each of different messages, to be read after their  *)
(* earlier pieces and after the beginnings of the earlier messages.         *)
Fragments(buf, r) ==
  \A i \in 1 .. Len(buf) :
    /\ \A j \in 1 .. Len(buf) : i # j => buf[i].len > 0 \/ buf[j].len > 0
    /\ buf[i].len > 0 =>
         /\ \A j \in 1 .. Len(buf) : i # j /\ buf[j].len > 0 => buf[i].msg # buf[j].msg
         /\ \A k \in 1 .. Len(r) : r[k][1] = buf[i].msg => r[k][2] < buf[i].off
         /\ buf[i].off = 0 =>
              \/ buf[i].msg = 1 \/ <<buf[i].msg - 1, 0>> \in ToSet(r)
              \/ \E j \in 1 .. i - 1 : buf[j].msg = buf[i].msg - 1 /\ buf[j].off = 0 /\ buf[j].len > 0
         /\ buf[i].off > 0 =>
              <<buf[i].msg, buf[i].off - BUFFER_SIZE>> \in ToSet(r) /\ <<buf[i].msg, 0>> \in ToSet(r)

ReadInv ==
  \A c \in Client :
    /\ Fragments(tcb[c].rcvbuf, reads[c])
    /\ \A i \in 1 .. Len(reads[c]) : <<reads[c][i][1], 0>> \in ToSet(reads[c])
    /\ tcb[c].status \in {"none", "SYN_RCVD", "freed"} => tcb[c].rcvbuf = <<>>
    /\ \A i \in 1 .. Len(tcb[c].rcvbuf) : tcb[c].rcvbuf[i].len = 0 =>
         tcb[c].status = "CLOSE_WAIT" /\ ~(t.cur = c /\ t.pc \in Closing)

TcpInv ==
  /\ Types /\ ListInv /\ ServerInv /\ InUseInv /\ SignalInv
  /\ LineInv /\ PktInv /\ OutInv /\ ReadInv /\ ReadOnceInOrder

------------------------------------------------------------------------------
(* How the segments of one client in the in ring change: they only move;    *)
(* one is added; the first is taken.                                        *)
Shifted(in, new, c, d) ==
  /\ \A i \in Of(new, c) : i + d \in Of(in, c) /\ new[i] = in[i + d]
  /\ \A i \in Of(in, c) : i - d \in Of(new, c) /\ new[i - d] = in[i]

Pushed(in, new, c, x) ==
  /\ Of(new, c) = Of(in, c) \cup {Len(in) + 1}
  /\ new[Len(in) + 1] = x
  /\ \A i \in Of(in, c) : i < Len(in) + 1 /\ new[i] = in[i]

Popped(in, new, c) ==
  /\ 1 \in Of(in, c)
  /\ \A i \in Of(new, c) : i + 1 \in Of(in, c) /\ new[i] = in[i + 1]
  /\ \A i \in Of(in, c) : i # 1 => i > 1 /\ i - 1 \in Of(new, c) /\ new[i - 1] = in[i]

(* Places in a ring are positive numbers. *)
LEMMA OfFacts ==
  ASSUME NEW in \in Seq(Segment), NEW c
  PROVE  \A i \in Of(in, c) : i \in Nat /\ i > 0 /\ i \in 1 .. Len(in) /\ in[i] \in Segment
BY DEF Of

(* Nothing moves when the ring does not change. *)
LEMMA ShiftSame ==
  ASSUME NEW in \in Seq(Segment), NEW c
  PROVE  Shifted(in, in, c, 0)
BY OfFacts DEF Shifted

(* A packet that is not the client's is added or taken. *)
LEMMA ShiftAppend ==
  ASSUME NEW in \in Seq(Segment), NEW x \in Segment, NEW c, x.kind # "tcp" \/ x.peer # c
  PROVE  Shifted(in, Append(in, x), c, 0)
<1> DEFINE new == Append(in, x)
<1>1. Len(new) = Len(in) + 1 /\ Len(in) \in Nat /\ new[Len(in) + 1] = x
  OBVIOUS
<1>2. \A i \in 1 .. Len(in) : new[i] = in[i]
  OBVIOUS
<1> HIDE DEF new
<1>3. Of(new, c) = Of(in, c)
  BY <1>1, <1>2 DEF Of
<1>4. \A i \in Of(in, c) : i + 0 = i /\ i - 0 = i /\ new[i] = in[i]
  BY <1>1, <1>2 DEF Of
<1>5. QED
  BY <1>3, <1>4 DEF Shifted, new

(* The same when the head is another's. *)
LEMMA ShiftTail ==
  ASSUME NEW in \in Seq(Segment), in # <<>>, NEW c, Head(in).kind # "tcp" \/ Head(in).peer # c
  PROVE  Shifted(in, Tail(in), c, 1)
<1> DEFINE new == Tail(in)
<1>1. Len(new) = Len(in) - 1 /\ Len(in) \in Nat \ {0} /\ Head(in) = in[1]
  OBVIOUS
<1>2. \A i \in 1 .. Len(in) - 1 : new[i] = in[i + 1]
  OBVIOUS
<1> HIDE DEF new
<1>3. ASSUME NEW i \in Of(new, c)
      PROVE  i + 1 \in Of(in, c) /\ new[i] = in[i + 1]
  BY <1>1, <1>2 DEF Of
<1>4. ASSUME NEW i \in Of(in, c)
      PROVE  i - 1 \in Of(new, c) /\ new[i - 1] = in[i]
  <2>1. i # 1 /\ i \in 1 .. Len(in)
    BY <1>1 DEF Of
  <2>2. i - 1 \in 1 .. Len(new) /\ new[i - 1] = in[i]
    BY <1>1, <1>2, <2>1
  <2>3. QED
    BY <2>2 DEF Of
<1>5. QED
  BY <1>3, <1>4 DEF Shifted, new

(* The client's own packet is added or taken. *)
LEMMA PushAppend ==
  ASSUME NEW in \in Seq(Segment), NEW x \in Segment, NEW c, x.kind = "tcp", x.peer = c
  PROVE  Pushed(in, Append(in, x), c, x)
<1> DEFINE new == Append(in, x)
<1>1. Len(new) = Len(in) + 1 /\ Len(in) \in Nat /\ new[Len(in) + 1] = x
  OBVIOUS
<1>2. \A i \in 1 .. Len(in) : new[i] = in[i]
  OBVIOUS
<1> HIDE DEF new
<1>3. Of(new, c) = Of(in, c) \cup {Len(in) + 1}
  BY <1>1, <1>2 DEF Of
<1>4. \A i \in Of(in, c) : i < Len(in) + 1 /\ new[i] = in[i]
  BY <1>1, <1>2 DEF Of
<1>5. QED
  BY <1>1, <1>3, <1>4 DEF Pushed, new

(* The same for the head. *)
LEMMA PopTail ==
  ASSUME NEW in \in Seq(Segment), in # <<>>, NEW c, Head(in).kind = "tcp", Head(in).peer = c
  PROVE  Popped(in, Tail(in), c) /\ Head(in) = in[1]
<1> DEFINE new == Tail(in)
<1>1. Len(new) = Len(in) - 1 /\ Len(in) \in Nat \ {0} /\ Head(in) = in[1]
  OBVIOUS
<1>2. \A i \in 1 .. Len(in) - 1 : new[i] = in[i + 1]
  OBVIOUS
<1> HIDE DEF new
<1>3. ASSUME NEW i \in Of(new, c)
      PROVE  i + 1 \in Of(in, c) /\ new[i] = in[i + 1]
  BY <1>1, <1>2 DEF Of
<1>4. ASSUME NEW i \in Of(in, c), i # 1
      PROVE  i > 1 /\ i - 1 \in Of(new, c) /\ new[i - 1] = in[i]
  <2>1. i \in 1 .. Len(in)
    BY <1>1 DEF Of
  <2>2. i > 1 /\ i - 1 \in 1 .. Len(new) /\ new[i - 1] = in[i]
    BY <1>1, <1>2, <1>4, <2>1
  <2>3. QED
    BY <2>2 DEF Of
<1>5. 1 \in Of(in, c)
  BY <1>1 DEF Of
<1>6. QED
  BY <1>1, <1>3, <1>4, <1>5 DEF Popped, new

(* The number after a segment. *)
LEMMA EndFacts ==
  ASSUME NEW s \in Segment
  PROVE  /\ EndOf(s) \in Nat /\ s.cnt \in Nat /\ s.cnt <= EndOf(s)
         /\ (Data(s) /\ (IsPush(s) => s.len > 0)) => s.cnt < EndOf(s)
         /\ Data(s) \in BOOLEAN /\ IsPush(s) \in BOOLEAN
<1>1. s.cnt \in Nat /\ s.len \in Nat /\ s.flags \in SUBSET Flag
  BY DEF Segment
<1>2. EndOf(s) = s.cnt + (IF IsPush(s) THEN s.len ELSE 0) + (IF "FIN" \in s.flags THEN 1 ELSE 0)
                       + (IF "SYN" \in s.flags THEN 1 ELSE 0)
  BY <1>1 DEF EndOf, Space
<1>3. Data(s) => "SYN" \in s.flags \/ "FIN" \in s.flags \/ IsPush(s)
  BY DEF Data, IsPush
<1>4. Data(s) \in BOOLEAN /\ IsPush(s) \in BOOLEAN
  BY DEF Data, IsPush
<1>5. CASE "SYN" \in s.flags \/ "FIN" \in s.flags
  BY <1>1, <1>2, <1>4, <1>5
<1>6. CASE ~("SYN" \in s.flags \/ "FIN" \in s.flags)
  BY <1>1, <1>2, <1>3, <1>4, <1>6
<1>7. QED
  BY <1>5, <1>6

(* What has only moved is still in sequence. *)
LEMMA ShiftChain ==
  ASSUME NEW in \in Seq(Segment), NEW new \in Seq(Segment), NEW c, NEW d \in Int,
         Shifted(in, new, c, d), NEW need \in Nat, NEW snd \in Nat, Chain(in, c, need, snd)
  PROVE  Chain(new, c, need, snd)
<1>1. \A i \in Of(in, c) : i \in Int
  BY OfFacts
<1>2. \A i \in Of(new, c) : i \in Int
  BY OfFacts
<1>3. need <= snd
  BY DEF Chain
<1>4. ASSUME NEW i \in Of(new, c), Data(new[i])
      PROVE  /\ need <= new[i].cnt /\ EndOf(new[i]) <= snd
             /\ \/ new[i].cnt = need
                \/ \E j \in Of(new, c) : j < i /\ Data(new[j]) /\ EndOf(new[j]) = new[i].cnt
  <2>1. i + d \in Of(in, c) /\ new[i] = in[i + d]
    BY DEF Shifted
  <2>2. need <= new[i].cnt /\ EndOf(new[i]) <= snd
    BY <1>4, <2>1 DEF Chain
  <2>3. ASSUME NEW j \in Of(in, c), j < i + d, Data(in[j]), EndOf(in[j]) = in[i + d].cnt
        PROVE  \E k \in Of(new, c) : k < i /\ Data(new[k]) /\ EndOf(new[k]) = new[i].cnt
    <3>1. j - d \in Of(new, c) /\ new[j - d] = in[j]
      BY DEF Shifted
    <3>2. j - d < i
      BY <1>1, <1>2, <2>3
    <3>3. QED
      BY <2>1, <2>3, <3>1, <3>2
  <2>4. \/ in[i + d].cnt = need
        \/ \E j \in Of(in, c) : j < i + d /\ Data(in[j]) /\ EndOf(in[j]) = in[i + d].cnt
    BY <1>4, <2>1 DEF Chain
  <2>5. QED
    BY <2>1, <2>2, <2>3, <2>4
<1>5. ASSUME NEW i \in Of(new, c), NEW j \in Of(new, c), i < j, Data(new[i]), Data(new[j])
      PROVE  EndOf(new[i]) <= new[j].cnt
  <2>1. /\ i + d \in Of(in, c) /\ new[i] = in[i + d]
        /\ j + d \in Of(in, c) /\ new[j] = in[j + d]
    BY DEF Shifted
  <2>2. i + d < j + d
    BY <1>2, <1>5
  <2>3. QED
    BY <1>5, <2>1, <2>2 DEF Chain
<1>6. snd = need \/ \E i \in Of(new, c) : Data(new[i]) /\ EndOf(new[i]) = snd
  <2>1. ASSUME NEW i \in Of(in, c), Data(in[i]), EndOf(in[i]) = snd
        PROVE  \E j \in Of(new, c) : Data(new[j]) /\ EndOf(new[j]) = snd
    BY <2>1 DEF Shifted
  <2>2. QED
    BY <2>1 DEF Chain
<1>7. QED
  BY <1>3, <1>4, <1>5, <1>6 DEF Chain

(* A segment that occupies no numbers is added. *)
LEMMA PushChainBare ==
  ASSUME NEW in \in Seq(Segment), NEW new \in Seq(Segment), NEW c, NEW x \in Segment,
         Pushed(in, new, c, x), ~Data(x), NEW need \in Nat, NEW snd \in Nat,
         Chain(in, c, need, snd)
  PROVE  Chain(new, c, need, snd)
<1>1. \A i \in Of(new, c) : Data(new[i]) => i \in Of(in, c) /\ new[i] = in[i]
  BY DEF Pushed
<1>2. \A i \in Of(in, c) : i \in Of(new, c) /\ new[i] = in[i]
  BY DEF Pushed
<1>3. need <= snd
  BY DEF Chain
<1>4. ASSUME NEW i \in Of(new, c), Data(new[i])
      PROVE  /\ need <= new[i].cnt /\ EndOf(new[i]) <= snd
             /\ \/ new[i].cnt = need
                \/ \E j \in Of(new, c) : j < i /\ Data(new[j]) /\ EndOf(new[j]) = new[i].cnt
  <2>1. i \in Of(in, c) /\ new[i] = in[i]
    BY <1>1, <1>4
  <2>2. need <= new[i].cnt /\ EndOf(new[i]) <= snd
    BY <1>4, <2>1 DEF Chain
  <2>3. \/ in[i].cnt = need
        \/ \E j \in Of(in, c) : j < i /\ Data(in[j]) /\ EndOf(in[j]) = in[i].cnt
    BY <1>4, <2>1 DEF Chain
  <2>4. QED
    BY <1>2, <2>1, <2>2, <2>3
<1>5. ASSUME NEW i \in Of(new, c), NEW j \in Of(new, c), i < j, Data(new[i]), Data(new[j])
      PROVE  EndOf(new[i]) <= new[j].cnt
  <2>1. i \in Of(in, c) /\ new[i] = in[i] /\ j \in Of(in, c) /\ new[j] = in[j]
    BY <1>1, <1>5
  <2>2. QED
    BY <1>5, <2>1 DEF Chain
<1>6. snd = need \/ \E i \in Of(new, c) : Data(new[i]) /\ EndOf(new[i]) = snd
  BY <1>2 DEF Chain
<1>7. QED
  BY <1>3, <1>4, <1>5, <1>6 DEF Chain

(* The client sends its next segment. *)
LEMMA PushChainData ==
  ASSUME NEW in \in Seq(Segment), NEW new \in Seq(Segment), NEW c, NEW x \in Segment,
         Pushed(in, new, c, x), Data(x), NEW need \in Nat, NEW snd \in Nat, x.cnt = snd,
         Chain(in, c, need, snd)
  PROVE  Chain(new, c, need, EndOf(x))
<1> DEFINE n == Len(in) + 1
           e == EndOf(x)
<1>1. \A i \in Of(new, c) : i = n \/ (i \in Of(in, c) /\ new[i] = in[i] /\ i < n)
  BY DEF Pushed
<1>2. \A i \in Of(in, c) : i \in Of(new, c) /\ new[i] = in[i] /\ i < n
  BY DEF Pushed
<1>3. n \in Of(new, c) /\ new[n] = x /\ n \in Int
  BY DEF Pushed
<1>4. e \in Nat /\ snd <= e
  BY EndFacts
<1> HIDE DEF n, e
<1>5. need <= snd /\ need <= e
  BY <1>4 DEF Chain
<1>6. \A i \in Of(in, c) : Data(in[i]) => EndOf(in[i]) <= snd /\ EndOf(in[i]) \in Nat
  BY OfFacts, EndFacts DEF Chain
<1>7. ASSUME NEW i \in Of(new, c), Data(new[i])
      PROVE  /\ need <= new[i].cnt /\ EndOf(new[i]) <= e
             /\ \/ new[i].cnt = need
                \/ \E j \in Of(new, c) : j < i /\ Data(new[j]) /\ EndOf(new[j]) = new[i].cnt
  <2>1. CASE i = n
    <3>1. need <= new[i].cnt /\ EndOf(new[i]) <= e /\ new[i].cnt = snd
      BY <1>3, <1>4, <1>5, <2>1 DEF e
    <3>2. snd = need \/ \E j \in Of(in, c) : Data(in[j]) /\ EndOf(in[j]) = snd
      BY DEF Chain
    <3>3. QED
      BY <1>2, <2>1, <3>1, <3>2
  <2>2. CASE i # n
    <3>1. i \in Of(in, c) /\ new[i] = in[i]
      BY <1>1, <2>2
    <3>2. need <= new[i].cnt /\ EndOf(new[i]) <= snd /\ EndOf(new[i]) \in Nat
      BY <1>6, <1>7, <3>1 DEF Chain
    <3>3. \/ in[i].cnt = need
          \/ \E j \in Of(in, c) : j < i /\ Data(in[j]) /\ EndOf(in[j]) = in[i].cnt
      BY <1>7, <3>1 DEF Chain
    <3>4. EndOf(new[i]) <= e
      BY <1>4, <3>2
    <3>5. QED
      BY <1>2, <3>1, <3>2, <3>3, <3>4
  <2>3. QED
    BY <2>1, <2>2
<1>8. ASSUME NEW i \in Of(new, c), NEW j \in Of(new, c), i < j, Data(new[i]), Data(new[j])
      PROVE  EndOf(new[i]) <= new[j].cnt
  <2>0. i \in Int /\ j \in Int
    BY OfFacts
  <2>1. i \in Of(in, c) /\ new[i] = in[i]
    BY <1>1, <1>3, <1>8, <2>0
  <2>2. CASE j = n
    BY <1>3, <1>6, <1>8, <2>1, <2>2
  <2>3. CASE j # n
    <3>1. j \in Of(in, c) /\ new[j] = in[j]
      BY <1>1, <2>3
    <3>2. QED
      BY <1>8, <2>1, <3>1 DEF Chain
  <2>4. QED
    BY <2>2, <2>3
<1>9. \E i \in Of(new, c) : Data(new[i]) /\ EndOf(new[i]) = e
  BY <1>3 DEF e
<1>10. QED
  BY <1>5, <1>7, <1>8, <1>9 DEF Chain, e

(* A segment that occupies no numbers is taken. *)
LEMMA PopChainBare ==
  ASSUME NEW in \in Seq(Segment), NEW new \in Seq(Segment), NEW c,
         Popped(in, new, c), ~Data(in[1]), NEW need \in Nat, NEW snd \in Nat,
         Chain(in, c, need, snd)
  PROVE  Chain(new, c, need, snd)
<1>1. \A i \in Of(new, c) : i \in Int /\ i + 1 \in Of(in, c) /\ new[i] = in[i + 1]
  BY OfFacts DEF Popped
<1>2. \A i \in Of(in, c) : Data(in[i]) => i \in Int /\ i - 1 \in Of(new, c) /\ new[i - 1] = in[i]
  BY OfFacts DEF Popped
<1>3. need <= snd
  BY DEF Chain
<1>4. ASSUME NEW i \in Of(new, c), Data(new[i])
      PROVE  /\ need <= new[i].cnt /\ EndOf(new[i]) <= snd
             /\ \/ new[i].cnt = need
                \/ \E j \in Of(new, c) : j < i /\ Data(new[j]) /\ EndOf(new[j]) = new[i].cnt
  <2>1. i + 1 \in Of(in, c) /\ new[i] = in[i + 1]
    BY <1>1
  <2>2. need <= new[i].cnt /\ EndOf(new[i]) <= snd
    BY <1>4, <2>1 DEF Chain
  <2>3. ASSUME NEW j \in Of(in, c), j < i + 1, Data(in[j]), EndOf(in[j]) = in[i + 1].cnt
        PROVE  \E k \in Of(new, c) : k < i /\ Data(new[k]) /\ EndOf(new[k]) = new[i].cnt
    <3>1. j - 1 \in Of(new, c) /\ new[j - 1] = in[j] /\ j - 1 < i
      BY <1>1, <1>2, <2>3
    <3>2. QED
      BY <2>1, <2>3, <3>1
  <2>4. \/ in[i + 1].cnt = need
        \/ \E j \in Of(in, c) : j < i + 1 /\ Data(in[j]) /\ EndOf(in[j]) = in[i + 1].cnt
    BY <1>4, <2>1 DEF Chain
  <2>5. QED
    BY <2>1, <2>2, <2>3, <2>4
<1>5. ASSUME NEW i \in Of(new, c), NEW j \in Of(new, c), i < j, Data(new[i]), Data(new[j])
      PROVE  EndOf(new[i]) <= new[j].cnt
  <2>1. /\ i + 1 \in Of(in, c) /\ new[i] = in[i + 1]
        /\ j + 1 \in Of(in, c) /\ new[j] = in[j + 1] /\ i + 1 < j + 1
    BY <1>1, <1>5
  <2>2. QED
    BY <1>5, <2>1 DEF Chain
<1>6. snd = need \/ \E i \in Of(new, c) : Data(new[i]) /\ EndOf(new[i]) = snd
  <2>1. ASSUME NEW i \in Of(in, c), Data(in[i]), EndOf(in[i]) = snd
        PROVE  \E j \in Of(new, c) : Data(new[j]) /\ EndOf(new[j]) = snd
    BY <1>2, <2>1
  <2>2. QED
    BY <2>1 DEF Chain
<1>7. QED
  BY <1>3, <1>4, <1>5, <1>6 DEF Chain

(* The next segment is taken: it begins where the stream stands, and the    *)
(* others begin where it ends.                                              *)
LEMMA PopChainData ==
  ASSUME NEW in \in Seq(Segment), NEW new \in Seq(Segment), NEW c,
         Popped(in, new, c), Data(in[1]), NEW need \in Nat, NEW snd \in Nat,
         in[1].cnt < EndOf(in[1]), Chain(in, c, need, snd)
  PROVE  in[1].cnt = need /\ Chain(new, c, EndOf(in[1]), snd)
<1> DEFINE e == EndOf(in[1])
<1>0. 1 \in Of(in, c) /\ in[1] \in Segment
  BY OfFacts DEF Popped
<1>1. \A i \in Of(new, c) : i \in Int /\ i > 0 /\ i + 1 \in Of(in, c) /\ new[i] = in[i + 1]
  BY OfFacts DEF Popped
<1>2. \A i \in Of(in, c) : i \in Int /\ i > 0 /\ in[i] \in Segment
                           /\ (i # 1 => i - 1 \in Of(new, c) /\ new[i - 1] = in[i])
  BY OfFacts DEF Popped
<1>3. e \in Nat
  BY <1>0, EndFacts
<1>4. in[1].cnt = need
  <2>1. \A j \in Of(in, c) : ~(j < 1)
    BY <1>2
  <2>2. QED
    BY <1>0, <2>1 DEF Chain
<1> HIDE DEF e
<1>5. e <= snd
  BY <1>0 DEF Chain, e
<1>6. ASSUME NEW i \in Of(new, c), Data(new[i])
      PROVE  /\ e <= new[i].cnt /\ EndOf(new[i]) <= snd
             /\ \/ new[i].cnt = e
                \/ \E j \in Of(new, c) : j < i /\ Data(new[j]) /\ EndOf(new[j]) = new[i].cnt
  <2>1. i + 1 \in Of(in, c) /\ new[i] = in[i + 1] /\ 1 < i + 1
    BY <1>1
  <2>2. EndOf(new[i]) <= snd
    BY <1>6, <2>1 DEF Chain
  <2>3. e <= new[i].cnt
    BY <1>0, <1>6, <2>1 DEF Chain, e
  <2>4. new[i].cnt \in Nat
    BY <1>2, <2>1, EndFacts
  <2>5. in[i + 1].cnt # need
    <3>1. need < e /\ e <= in[i + 1].cnt /\ in[i + 1].cnt \in Nat
      BY <1>4, <2>1, <2>3, <2>4 DEF e
    <3>2. QED
      BY <1>3, <3>1
  <2>6. PICK j \in Of(in, c) : j < i + 1 /\ Data(in[j]) /\ EndOf(in[j]) = in[i + 1].cnt
    BY <1>6, <2>1, <2>5 DEF Chain
  <2>7. CASE j = 1
    BY <2>1, <2>2, <2>3, <2>6, <2>7 DEF e
  <2>8. CASE j # 1
    <3>1. j - 1 \in Of(new, c) /\ new[j - 1] = in[j] /\ j - 1 < i
      BY <1>1, <1>2, <2>6, <2>8
    <3>2. QED
      BY <2>1, <2>2, <2>3, <2>6, <3>1
  <2>9. QED
    BY <2>7, <2>8
<1>7. ASSUME NEW i \in Of(new, c), NEW j \in Of(new, c), i < j, Data(new[i]), Data(new[j])
      PROVE  EndOf(new[i]) <= new[j].cnt
  <2>1. /\ i + 1 \in Of(in, c) /\ new[i] = in[i + 1]
        /\ j + 1 \in Of(in, c) /\ new[j] = in[j + 1] /\ i + 1 < j + 1
    BY <1>1, <1>7
  <2>2. QED
    BY <1>7, <2>1 DEF Chain
<1>8. snd = e \/ \E i \in Of(new, c) : Data(new[i]) /\ EndOf(new[i]) = snd
  <2>1. ASSUME NEW i \in Of(in, c), Data(in[i]), EndOf(in[i]) = snd
        PROVE  snd = e \/ \E j \in Of(new, c) : Data(new[j]) /\ EndOf(new[j]) = snd
    <3>1. CASE i = 1
      BY <2>1, <3>1 DEF e
    <3>2. CASE i # 1
      BY <1>2, <2>1, <3>2
    <3>3. QED
      BY <3>1, <3>2
  <2>2. snd # need
    BY <1>3, <1>4, <1>5 DEF e
  <2>3. QED
    BY <2>1, <2>2 DEF Chain
<1>9. QED
  BY <1>4, <1>5, <1>6, <1>7, <1>8 DEF Chain, e

(* The messages of a client, when its segments only move. *)
LEMMA ShiftMessages ==
  ASSUME NEW in \in Seq(Segment), NEW new \in Seq(Segment), NEW c, NEW d \in Int,
         Shifted(in, new, c, d), NEW got, NEW n, NEW open, Messages(in, c, got, n, open)
  PROVE  Messages(new, c, got, n, open)
<1>1. \A i \in Of(in, c) : i \in Int
  BY OfFacts
<1>2. \A i \in Of(new, c) : i \in Int
  BY OfFacts
<1>3. \A m \in got : m \in 1 .. n
  BY DEF Messages
<1>4. ASSUME NEW i \in Of(new, c), IsPush(new[i])
      PROVE  /\ new[i].msg \in 1 .. n
             /\ \A m \in got : m < new[i].msg
             /\ \/ new[i].msg = 1 \/ new[i].msg - 1 \in got
                \/ \E j \in Of(new, c) : j < i /\ IsPush(new[j]) /\ new[j].msg = new[i].msg - 1
  <2>1. i + d \in Of(in, c) /\ new[i] = in[i + d]
    BY DEF Shifted
  <2>2. new[i].msg \in 1 .. n /\ \A m \in got : m < new[i].msg
    BY <1>4, <2>1 DEF Messages
  <2>3. ASSUME NEW j \in Of(in, c), j < i + d, IsPush(in[j]), in[j].msg = in[i + d].msg - 1
        PROVE  \E k \in Of(new, c) : k < i /\ IsPush(new[k]) /\ new[k].msg = new[i].msg - 1
    <3>1. j - d \in Of(new, c) /\ new[j - d] = in[j]
      BY DEF Shifted
    <3>2. j - d < i
      BY <1>1, <1>2, <2>3
    <3>3. QED
      BY <2>1, <2>3, <3>1, <3>2
  <2>4. \/ in[i + d].msg = 1 \/ in[i + d].msg - 1 \in got
        \/ \E j \in Of(in, c) : j < i + d /\ IsPush(in[j]) /\ in[j].msg = in[i + d].msg - 1
    BY <1>4, <2>1 DEF Messages
  <2>5. QED
    BY <2>1, <2>2, <2>3, <2>4
<1>5. ASSUME NEW i \in Of(new, c), NEW j \in Of(new, c), i < j, IsPush(new[i]), IsPush(new[j])
      PROVE  new[i].msg < new[j].msg
  <2>1. /\ i + d \in Of(in, c) /\ new[i] = in[i + d]
        /\ j + d \in Of(in, c) /\ new[j] = in[j + d]
    BY DEF Shifted
  <2>2. i + d < j + d
    BY <1>2, <1>5
  <2>3. QED
    BY <1>5, <2>1, <2>2 DEF Messages
<1>6. open => n = 0 \/ n \in got \/ \E i \in Of(new, c) : IsPush(new[i]) /\ new[i].msg = n
  <2>1. ASSUME NEW i \in Of(in, c), IsPush(in[i]), in[i].msg = n
        PROVE  \E j \in Of(new, c) : IsPush(new[j]) /\ new[j].msg = n
    BY <2>1 DEF Shifted
  <2>2. QED
    BY <2>1 DEF Messages
<1>7. QED
  BY <1>3, <1>4, <1>5, <1>6 DEF Messages

(* A segment without data is added. *)
LEMMA PushMessagesBare ==
  ASSUME NEW in \in Seq(Segment), NEW new \in Seq(Segment), NEW c, NEW x \in Segment,
         Pushed(in, new, c, x), ~IsPush(x), NEW got, NEW n, NEW open, NEW still,
         still => open \/ n = 0, Messages(in, c, got, n, open)
  PROVE  Messages(new, c, got, n, still)
<1>1. \A i \in Of(new, c) : IsPush(new[i]) => i \in Of(in, c) /\ new[i] = in[i]
  BY DEF Pushed
<1>2. \A i \in Of(in, c) : i \in Of(new, c) /\ new[i] = in[i]
  BY DEF Pushed
<1>3. \A m \in got : m \in 1 .. n
  BY DEF Messages
<1>4. ASSUME NEW i \in Of(new, c), IsPush(new[i])
      PROVE  /\ new[i].msg \in 1 .. n
             /\ \A m \in got : m < new[i].msg
             /\ \/ new[i].msg = 1 \/ new[i].msg - 1 \in got
                \/ \E j \in Of(new, c) : j < i /\ IsPush(new[j]) /\ new[j].msg = new[i].msg - 1
  <2>1. i \in Of(in, c) /\ new[i] = in[i]
    BY <1>1, <1>4
  <2>2. new[i].msg \in 1 .. n /\ \A m \in got : m < new[i].msg
    BY <1>4, <2>1 DEF Messages
  <2>3. \/ in[i].msg = 1 \/ in[i].msg - 1 \in got
        \/ \E j \in Of(in, c) : j < i /\ IsPush(in[j]) /\ in[j].msg = in[i].msg - 1
    BY <1>4, <2>1 DEF Messages
  <2>4. QED
    BY <1>2, <2>1, <2>2, <2>3
<1>5. ASSUME NEW i \in Of(new, c), NEW j \in Of(new, c), i < j, IsPush(new[i]), IsPush(new[j])
      PROVE  new[i].msg < new[j].msg
  <2>1. i \in Of(in, c) /\ new[i] = in[i] /\ j \in Of(in, c) /\ new[j] = in[j]
    BY <1>1, <1>5
  <2>2. QED
    BY <1>5, <2>1 DEF Messages
<1>6. still => n = 0 \/ n \in got \/ \E i \in Of(new, c) : IsPush(new[i]) /\ new[i].msg = n
  BY <1>2 DEF Messages
<1>7. QED
  BY <1>3, <1>4, <1>5, <1>6 DEF Messages

(* The client sends its next message. *)
LEMMA PushMessagesData ==
  ASSUME NEW in \in Seq(Segment), NEW new \in Seq(Segment), NEW c, NEW x \in Segment,
         Pushed(in, new, c, x), IsPush(x), NEW got, NEW n \in Nat, x.msg = n + 1, NEW still,
         Messages(in, c, got, n, TRUE)
  PROVE  Messages(new, c, got, n + 1, still)
<1> DEFINE z == Len(in) + 1
<1>1. \A i \in Of(new, c) : i = z \/ (i \in Of(in, c) /\ new[i] = in[i] /\ i < z)
  BY DEF Pushed
<1>2. \A i \in Of(in, c) : i \in Of(new, c) /\ new[i] = in[i] /\ i < z
  BY DEF Pushed
<1>3. z \in Of(new, c) /\ new[z] = x /\ z \in Int
  BY DEF Pushed
<1> HIDE DEF z
<1>4. \A m \in got : m \in 1 .. n /\ m \in 1 .. n + 1 /\ m < n + 1
  BY DEF Messages
<1>5. \A i \in Of(in, c) : IsPush(in[i]) =>
        in[i].msg \in 1 .. n /\ in[i].msg \in 1 .. n + 1 /\ in[i].msg < n + 1
  BY DEF Messages
<1>6. ASSUME NEW i \in Of(new, c), IsPush(new[i])
      PROVE  /\ new[i].msg \in 1 .. n + 1
             /\ \A m \in got : m < new[i].msg
             /\ \/ new[i].msg = 1 \/ new[i].msg - 1 \in got
                \/ \E j \in Of(new, c) : j < i /\ IsPush(new[j]) /\ new[j].msg = new[i].msg - 1
  <2>1. CASE i = z
    <3>1. new[i].msg = n + 1 /\ new[i].msg - 1 = n /\ n + 1 \in 1 .. n + 1
      BY <1>3, <2>1
    <3>2. \A m \in got : m < new[i].msg
      BY <1>4, <3>1
    <3>3. n = 0 \/ n \in got \/ \E j \in Of(in, c) : IsPush(in[j]) /\ in[j].msg = n
      BY DEF Messages
    <3>4. QED
      BY <1>2, <2>1, <3>1, <3>2, <3>3
  <2>2. CASE i # z
    <3>1. i \in Of(in, c) /\ new[i] = in[i]
      BY <1>1, <2>2
    <3>2. new[i].msg \in 1 .. n + 1 /\ \A m \in got : m < new[i].msg
      BY <1>5, <1>6, <3>1 DEF Messages
    <3>3. \/ in[i].msg = 1 \/ in[i].msg - 1 \in got
          \/ \E j \in Of(in, c) : j < i /\ IsPush(in[j]) /\ in[j].msg = in[i].msg - 1
      BY <1>6, <3>1 DEF Messages
    <3>4. QED
      BY <1>2, <3>1, <3>2, <3>3
  <2>3. QED
    BY <2>1, <2>2
<1>7. ASSUME NEW i \in Of(new, c), NEW j \in Of(new, c), i < j, IsPush(new[i]), IsPush(new[j])
      PROVE  new[i].msg < new[j].msg
  <2>0. i \in Int /\ j \in Int
    BY OfFacts
  <2>1. i \in Of(in, c) /\ new[i] = in[i]
    BY <1>1, <1>3, <1>7, <2>0
  <2>2. CASE j = z
    BY <1>3, <1>5, <1>7, <2>1, <2>2
  <2>3. CASE j # z
    <3>1. j \in Of(in, c) /\ new[j] = in[j]
      BY <1>1, <2>3
    <3>2. QED
      BY <1>7, <2>1, <3>1 DEF Messages
  <2>4. QED
    BY <2>2, <2>3
<1>8. \E i \in Of(new, c) : IsPush(new[i]) /\ new[i].msg = n + 1
  BY <1>3
<1>9. QED
  BY <1>4, <1>6, <1>7, <1>8 DEF Messages

(* A segment without data is taken. *)
LEMMA PopMessagesBare ==
  ASSUME NEW in \in Seq(Segment), NEW new \in Seq(Segment), NEW c,
         Popped(in, new, c), ~IsPush(in[1]), NEW got, NEW n, NEW open,
         Messages(in, c, got, n, open)
  PROVE  Messages(new, c, got, n, open)
<1>1. \A i \in Of(new, c) : i \in Int /\ i + 1 \in Of(in, c) /\ new[i] = in[i + 1]
  BY OfFacts DEF Popped
<1>2. \A i \in Of(in, c) : IsPush(in[i]) => i \in Int /\ i - 1 \in Of(new, c) /\ new[i - 1] = in[i]
  BY OfFacts DEF Popped
<1>3. \A m \in got : m \in 1 .. n
  BY DEF Messages
<1>4. ASSUME NEW i \in Of(new, c), IsPush(new[i])
      PROVE  /\ new[i].msg \in 1 .. n
             /\ \A m \in got : m < new[i].msg
             /\ \/ new[i].msg = 1 \/ new[i].msg - 1 \in got
                \/ \E j \in Of(new, c) : j < i /\ IsPush(new[j]) /\ new[j].msg = new[i].msg - 1
  <2>1. i + 1 \in Of(in, c) /\ new[i] = in[i + 1]
    BY <1>1
  <2>2. new[i].msg \in 1 .. n /\ \A m \in got : m < new[i].msg
    BY <1>4, <2>1 DEF Messages
  <2>3. ASSUME NEW j \in Of(in, c), j < i + 1, IsPush(in[j]), in[j].msg = in[i + 1].msg - 1
        PROVE  \E k \in Of(new, c) : k < i /\ IsPush(new[k]) /\ new[k].msg = new[i].msg - 1
    <3>1. j - 1 \in Of(new, c) /\ new[j - 1] = in[j] /\ j - 1 < i
      BY <1>1, <1>2, <2>3
    <3>2. QED
      BY <2>1, <2>3, <3>1
  <2>4. \/ in[i + 1].msg = 1 \/ in[i + 1].msg - 1 \in got
        \/ \E j \in Of(in, c) : j < i + 1 /\ IsPush(in[j]) /\ in[j].msg = in[i + 1].msg - 1
    BY <1>4, <2>1 DEF Messages
  <2>5. QED
    BY <2>1, <2>2, <2>3, <2>4
<1>5. ASSUME NEW i \in Of(new, c), NEW j \in Of(new, c), i < j, IsPush(new[i]), IsPush(new[j])
      PROVE  new[i].msg < new[j].msg
  <2>1. /\ i + 1 \in Of(in, c) /\ new[i] = in[i + 1]
        /\ j + 1 \in Of(in, c) /\ new[j] = in[j + 1] /\ i + 1 < j + 1
    BY <1>1, <1>5
  <2>2. QED
    BY <1>5, <2>1 DEF Messages
<1>6. open => n = 0 \/ n \in got \/ \E i \in Of(new, c) : IsPush(new[i]) /\ new[i].msg = n
  <2>1. ASSUME NEW i \in Of(in, c), IsPush(in[i]), in[i].msg = n
        PROVE  \E j \in Of(new, c) : IsPush(new[j]) /\ new[j].msg = n
    BY <1>2, <2>1
  <2>2. QED
    BY <2>1 DEF Messages
<1>7. QED
  BY <1>3, <1>4, <1>5, <1>6 DEF Messages

(* The next message is taken: it is the one after those before. *)
LEMMA PopMessagesData ==
  ASSUME NEW in \in Seq(Segment), NEW new \in Seq(Segment), NEW c,
         Popped(in, new, c), IsPush(in[1]), NEW got, NEW n \in Nat, NEW open,
         Messages(in, c, got, n, open)
  PROVE  /\ in[1].msg \in 1 .. n /\ \A m \in got : m < in[1].msg
         /\ in[1].msg = 1 \/ in[1].msg - 1 \in got
         /\ Messages(new, c, got \cup {in[1].msg}, n, open)
<1> DEFINE k == in[1].msg
<1>0. 1 \in Of(in, c)
  BY DEF Popped
<1>1. \A i \in Of(new, c) : i \in Int /\ i > 0 /\ i + 1 \in Of(in, c) /\ new[i] = in[i + 1]
  BY OfFacts DEF Popped
<1>2. \A i \in Of(in, c) : i \in Int /\ i > 0
                           /\ (i # 1 => i - 1 \in Of(new, c) /\ new[i - 1] = in[i])
  BY OfFacts DEF Popped
<1>3. k \in 1 .. n /\ \A m \in got : m < k
  BY <1>0 DEF Messages
<1>4. k = 1 \/ k - 1 \in got
  <2>1. \A j \in Of(in, c) : ~(j < 1)
    BY <1>2
  <2>2. QED
    BY <1>0, <2>1 DEF Messages
<1>5. \A m \in got \cup {k} : m \in 1 .. n
  BY <1>3 DEF Messages
<1>6. ASSUME NEW i \in Of(new, c), IsPush(new[i])
      PROVE  /\ new[i].msg \in 1 .. n
             /\ \A m \in got \cup {k} : m < new[i].msg
             /\ \/ new[i].msg = 1 \/ new[i].msg - 1 \in got \cup {k}
                \/ \E j \in Of(new, c) : j < i /\ IsPush(new[j]) /\ new[j].msg = new[i].msg - 1
  <2>1. i + 1 \in Of(in, c) /\ new[i] = in[i + 1] /\ 1 < i + 1
    BY <1>1
  <2>2. new[i].msg \in 1 .. n /\ \A m \in got : m < new[i].msg
    BY <1>6, <2>1 DEF Messages
  <2>3. k < new[i].msg
    BY <1>0, <1>6, <2>1 DEF Messages
  <2>4. ASSUME NEW j \in Of(in, c), j < i + 1, IsPush(in[j]), in[j].msg = in[i + 1].msg - 1
        PROVE  \/ new[i].msg - 1 = k
               \/ \E l \in Of(new, c) : l < i /\ IsPush(new[l]) /\ new[l].msg = new[i].msg - 1
    <3>1. CASE j = 1
      BY <2>1, <2>4, <3>1
    <3>2. CASE j # 1
      <4>1. j - 1 \in Of(new, c) /\ new[j - 1] = in[j] /\ j - 1 < i
        BY <1>1, <1>2, <2>4, <3>2
      <4>2. QED
        BY <2>1, <2>4, <4>1
    <3>3. QED
      BY <3>1, <3>2
  <2>5. \/ in[i + 1].msg = 1 \/ in[i + 1].msg - 1 \in got
        \/ \E j \in Of(in, c) : j < i + 1 /\ IsPush(in[j]) /\ in[j].msg = in[i + 1].msg - 1
    BY <1>6, <2>1 DEF Messages
  <2>6. QED
    BY <2>1, <2>2, <2>3, <2>4, <2>5
<1>7. ASSUME NEW i \in Of(new, c), NEW j \in Of(new, c), i < j, IsPush(new[i]), IsPush(new[j])
      PROVE  new[i].msg < new[j].msg
  <2>1. /\ i + 1 \in Of(in, c) /\ new[i] = in[i + 1]
        /\ j + 1 \in Of(in, c) /\ new[j] = in[j + 1] /\ i + 1 < j + 1
    BY <1>1, <1>7
  <2>2. QED
    BY <1>7, <2>1 DEF Messages
<1>8. open => \/ n = 0 \/ n \in got \cup {k}
              \/ \E i \in Of(new, c) : IsPush(new[i]) /\ new[i].msg = n
  <2>1. ASSUME NEW i \in Of(in, c), IsPush(in[i]), in[i].msg = n
        PROVE  n = k \/ \E j \in Of(new, c) : IsPush(new[j]) /\ new[j].msg = n
    <3>1. CASE i = 1
      BY <2>1, <3>1
    <3>2. CASE i # 1
      BY <1>2, <2>1, <3>2
    <3>3. QED
      BY <3>1, <3>2
  <2>2. QED
    BY <2>1 DEF Messages
<1> HIDE DEF k
<1>9. Messages(new, c, got \cup {k}, n, open)
  BY <1>5, <1>6, <1>7, <1>8 DEF Messages
<1>10. QED
  BY <1>3, <1>4, <1>9 DEF k

(* No message is on its way, and fewer are held. *)
LEMMA LessMessages ==
  ASSUME NEW in \in Seq(Segment), NEW c, NEW got, NEW n, NEW open, NEW less, less \subseteq got,
         NoData(in, c), Messages(in, c, got, n, open)
  PROVE  Messages(in, c, less, n, FALSE)
<1>1. \A i \in Of(in, c) : ~IsPush(in[i])
  BY DEF NoData, Data, IsPush
<1>2. \A m \in less : m \in 1 .. n
  BY DEF Messages
<1>3. QED
  BY <1>1, <1>2 DEF Messages

(* A client's end only goes forward. *)
Onward(e, f) ==
  /\ e.cnt <= f.cnt /\ e.rcv <= f.rcv /\ e.pushes <= f.pushes
  /\ e.st \notin Opening => f.st \notin Opening
  /\ e.st \in Finished => f.st \in Finished
  /\ f.st = "idle" => e.st = "idle"

(* The form of a segment stays when its client goes on. *)
LEMMA FormOnward ==
  ASSUME NEW s \in Segment, NEW e \in PeerEnd, NEW f \in PeerEnd, Onward(e, f), Form(s, e)
  PROVE  Form(s, f)
<1>1. s.ack \in Nat /\ e.rcv \in Nat /\ f.rcv \in Nat
  BY DEF Segment, PeerEnd, PeerFrame
<1>2. s.ack <= f.rcv
  BY <1>1 DEF Onward, Form
<1>3. QED
  BY <1>2 DEF Onward, Form

(* The same for all segments in the ring. *)
LEMMA FormsOnward ==
  ASSUME NEW in \in Seq(Segment), NEW c, NEW e \in PeerEnd, NEW f \in PeerEnd, Onward(e, f),
         Forms(in, c, e)
  PROVE  Forms(in, c, f)
<1>1. \A i \in Of(in, c) : in[i] \in Segment
  BY OfFacts
<1>2. \A i \in Of(in, c) : Form(in[i], f)
  BY <1>1, FormOnward DEF Forms
<1>3. QED
  BY <1>2 DEF Forms

(* When segments only move. *)
LEMMA ShiftForms ==
  ASSUME NEW in \in Seq(Segment), NEW new \in Seq(Segment), NEW c, NEW d \in Int,
         Shifted(in, new, c, d), NEW e, Forms(in, c, e)
  PROVE  Forms(new, c, e)
<1>1. \A i \in Of(new, c) : i \in Int /\ i + d \in Of(in, c) /\ new[i] = in[i + d]
  BY OfFacts DEF Shifted
<1>2. \A i \in Of(new, c) : Form(new[i], e)
  BY <1>1 DEF Forms
<1>3. ASSUME NEW i \in Of(new, c), NEW j \in Of(new, c), i < j, "FIN" \in new[i].flags
      PROVE  ~Data(new[j])
  <2>1. i + d < j + d
    BY <1>1, <1>3
  <2>2. QED
    BY <1>1, <1>3, <2>1 DEF Forms
<1>4. QED
  BY <1>2, <1>3 DEF Forms

(* When one is added. *)
LEMMA PushForms ==
  ASSUME NEW in \in Seq(Segment), NEW new \in Seq(Segment), NEW c, NEW x \in Segment,
         Pushed(in, new, c, x), NEW e, Forms(in, c, e), Form(x, e),
         ~Data(x) \/ \A i \in Of(in, c) : "FIN" \notin in[i].flags
  PROVE  Forms(new, c, e)
<1>0. \A i \in Of(new, c) : i \in Int
  BY OfFacts
<1>1. \A i \in Of(new, c) :
        (i = Len(in) + 1 /\ new[i] = x) \/ (i \in Of(in, c) /\ new[i] = in[i] /\ i < Len(in) + 1)
  BY DEF Pushed
<1>2. \A i \in Of(new, c) : Form(new[i], e)
  BY <1>1 DEF Forms
<1>3. ASSUME NEW i \in Of(new, c), NEW j \in Of(new, c), i < j, "FIN" \in new[i].flags
      PROVE  ~Data(new[j])
  <2>1. i \in Of(in, c) /\ new[i] = in[i]
    BY <1>0, <1>1, <1>3
  <2>2. CASE j \in Of(in, c) /\ new[j] = in[j]
    BY <1>3, <2>1, <2>2 DEF Forms
  <2>3. CASE new[j] = x
    BY <1>3, <2>1, <2>3
  <2>4. QED
    BY <1>1, <2>2, <2>3
<1>4. QED
  BY <1>2, <1>3 DEF Forms

(* When the head is taken; after a FIN nothing occupies numbers. *)
LEMMA PopForms ==
  ASSUME NEW in \in Seq(Segment), NEW new \in Seq(Segment), NEW c, Popped(in, new, c),
         NEW e, Forms(in, c, e)
  PROVE  /\ Forms(new, c, e) /\ Form(in[1], e)
         /\ "FIN" \in in[1].flags => NoData(new, c)
<1>1. \A i \in Of(new, c) : i \in Int /\ i > 0 /\ i + 1 \in Of(in, c) /\ new[i] = in[i + 1]
  BY OfFacts DEF Popped
<1>2. \A i \in Of(new, c) : Form(new[i], e)
  BY <1>1 DEF Forms
<1>3. ASSUME NEW i \in Of(new, c), NEW j \in Of(new, c), i < j, "FIN" \in new[i].flags
      PROVE  ~Data(new[j])
  <2>1. i + 1 < j + 1
    BY <1>1, <1>3
  <2>2. QED
    BY <1>1, <1>3, <2>1 DEF Forms
<1>4. 1 \in Of(in, c)
  BY DEF Popped
<1>5. ASSUME "FIN" \in in[1].flags, NEW j \in Of(new, c)
      PROVE  ~Data(new[j])
  <2>1. 1 < j + 1
    BY <1>1
  <2>2. QED
    BY <1>1, <1>4, <1>5, <2>1 DEF Forms
<1>6. QED
  BY <1>2, <1>3, <1>4, <1>5 DEF Forms, NoData

(* Nothing that occupies numbers comes in by moving. *)
LEMMA ShiftNoData ==
  ASSUME NEW in, NEW new, NEW c, NEW d, Shifted(in, new, c, d), NoData(in, c)
  PROVE  NoData(new, c)
BY DEF Shifted, NoData

(* Nor with a segment that occupies none. *)
LEMMA PushNoData ==
  ASSUME NEW in, NEW new, NEW c, NEW x, Pushed(in, new, c, x), ~Data(x), NoData(in, c)
  PROVE  NoData(new, c)
BY DEF Pushed, NoData

(* Nor when the head is taken. *)
LEMMA PopNoData ==
  ASSUME NEW in, NEW new, NEW c, Popped(in, new, c), NoData(in, c)
  PROVE  NoData(new, c)
BY DEF Popped, NoData

(* What may be in the ring, when segments only move. *)
LEMMA ShiftPhase ==
  ASSUME NEW in \in Seq(Segment), NEW new \in Seq(Segment), NEW c, NEW d \in Int,
         Shifted(in, new, c, d), NEW status, NEW e, Phase(in, c, status, e)
  PROVE  Phase(new, c, status, e)
<1>1. \A i \in Of(new, c) : i \in Int /\ i + d \in Of(in, c) /\ new[i] = in[i + d]
  BY OfFacts DEF Shifted
<1>2. \A i \in Of(in, c) : i \in Int /\ i - d \in Of(new, c) /\ new[i - d] = in[i]
  BY OfFacts DEF Shifted
<1>3. ASSUME status = "SYN_RCVD", NEW i \in Of(new, c), Data(new[i])
      PROVE  \E j \in Of(new, c) : j < i /\ ~Data(new[j])
  <2>1. PICK j \in Of(in, c) : j < i + d /\ ~Data(in[j])
    BY <1>1, <1>3 DEF Phase
  <2>2. j - d < i
    BY <1>1, <1>2, <2>1
  <2>3. QED
    BY <1>2, <2>1, <2>2
<1>4. ASSUME status = "SYN_RCVD", e.st \notin Opening
      PROVE  \E j \in Of(new, c) : ~Data(new[j])
  BY <1>2, <1>4 DEF Phase
<1>5. status \in {"CLOSE_WAIT", "LAST_ACK", "freed"} => NoData(new, c)
  BY ShiftNoData DEF Phase
<1>6. (status = "none" => \A i \in Of(new, c) : "SYN" \in new[i].flags)
      /\ (status # "none" => \A i \in Of(new, c) : "SYN" \notin new[i].flags)
  BY <1>1 DEF Phase
<1>7. QED
  BY <1>3, <1>4, <1>5, <1>6 DEF Phase

(* When the client sends on an open connection or acknowledges. *)
LEMMA PushPhase ==
  ASSUME NEW in \in Seq(Segment), NEW new \in Seq(Segment), NEW c, NEW x \in Segment,
         Pushed(in, new, c, x), NEW status, NEW e, NEW f, Phase(in, c, status, e),
         status # "none", "SYN" \notin x.flags, f.st \notin Opening,
         status \in {"CLOSE_WAIT", "LAST_ACK", "freed"} => f.st \in Finished /\ ~Data(x),
         e.st \notin Opening \/ ~Data(x)
  PROVE  Phase(new, c, status, f)
<1>0. Len(in) + 1 \in Of(new, c) /\ new[Len(in) + 1] = x
  BY DEF Pushed
<1>1. \A i \in Of(new, c) : (new[i] = x /\ i = Len(in) + 1) \/ (i \in Of(in, c) /\ new[i] = in[i])
  BY DEF Pushed
<1>2. \A i \in Of(in, c) : i \in Of(new, c) /\ new[i] = in[i] /\ i < Len(in) + 1
  BY DEF Pushed
<1>3. ASSUME status = "SYN_RCVD", NEW i \in Of(new, c), Data(new[i])
      PROVE  \E j \in Of(new, c) : j < i /\ ~Data(new[j])
  <2>1. CASE i \in Of(in, c) /\ new[i] = in[i]
    BY <1>2, <1>3, <2>1 DEF Phase
  <2>2. CASE new[i] = x /\ i = Len(in) + 1
    <3>1. PICK j \in Of(in, c) : ~Data(in[j])
      BY <1>3, <2>2 DEF Phase
    <3>2. QED
      BY <1>2, <2>2, <3>1
  <2>3. QED
    BY <1>1, <2>1, <2>2
<1>4. ASSUME status = "SYN_RCVD"
      PROVE  \E j \in Of(new, c) : ~Data(new[j])
  <2>1. CASE ~Data(x)
    BY <1>0, <2>1
  <2>2. CASE e.st \notin Opening
    BY <1>2, <1>4, <2>2 DEF Phase
  <2>3. QED
    BY <2>1, <2>2
<1>5. status \in {"CLOSE_WAIT", "LAST_ACK", "freed"} => NoData(new, c)
  BY PushNoData DEF Phase
<1>6. \A i \in Of(new, c) : "SYN" \notin new[i].flags
  BY <1>1 DEF Phase
<1>7. f.st # "idle"
  BY DEF Opening
<1>8. QED
  BY <1>3, <1>4, <1>5, <1>6, <1>7 DEF Phase

(* When the head is taken and the status is another than SYN_RCVD. *)
LEMMA PopPhase ==
  ASSUME NEW in \in Seq(Segment), NEW new \in Seq(Segment), NEW c, Popped(in, new, c),
         NEW status, NEW e, Phase(in, c, status, e), status # "SYN_RCVD"
  PROVE  Phase(new, c, status, e)
<1>1. \A i \in Of(new, c) : i + 1 \in Of(in, c) /\ new[i] = in[i + 1]
  BY DEF Popped
<1>2. status \in {"CLOSE_WAIT", "LAST_ACK", "freed"} => NoData(new, c)
  BY PopNoData DEF Phase
<1>3. QED
  BY <1>1, <1>2 DEF Phase

------------------------------------------------------------------------------
(* The streams and the listener are different things. *)
LEMMA Apart ==
  /\ Listener \notin Client /\ NULL \notin Client /\ NULL # Listener
  /\ Client \subseteq Host
BY ConstantAssumption

(* The first place with a property, in the two lists there are. *)
LEMMA FirstOfTwo ==
  ASSUME NEW I \in SUBSET Nat, NEW k \in I, \A i \in I : k <= i
  PROVE  Min(I) = k
<1>1. Min(I) = CHOOSE x \in I : \A y \in I : x <= y
  BY DEF Min
<1>2. \A x \in I : (\A y \in I : x <= y) => x = k
  OBVIOUS
<1>3. QED
  BY <1>1, <1>2

(* The list with no stream. *)
LEMMA NoneListed ==
  ASSUME tcb_set = <<Listener>>
  PROVE  /\ \A c \in Client : ~Contains(tcb_set, c) /\ ~Listed(c)
                              /\ ng_tcp_stream_search(c) = Listener /\ NextOf(c) = NULL
         /\ ~rte_ring_exists /\ Head(tcb_set) = Listener /\ NextOf(Listener) = NULL
         /\ \A fd : get_hostinfo_fromfd(fd) = NULL
<1>1. Len(tcb_set) = 1 /\ tcb_set[1] = Listener /\ Head(tcb_set) = Listener
  OBVIOUS
<1>2. ASSUME NEW c \in Client
      PROVE  ~Contains(tcb_set, c) /\ ~Listed(c)
  BY <1>1, Apart DEF Contains, Listed
<1>3. \A s : NextOf(s) = NULL
  BY <1>1 DEF NextOf
<1>4. ASSUME NEW fd
      PROVE  get_hostinfo_fromfd(fd) = NULL
  <2>1. {i \in 1 .. Len(tcb_set) : tcb_set[i] # Listener /\ tcb[tcb_set[i]].fd = fd} = {}
    BY <1>1
  <2>2. QED
    BY <2>1 DEF get_hostinfo_fromfd, SelectInSeq
<1>5. ~rte_ring_exists
  BY <1>2 DEF rte_ring_exists
<1>6. \A c \in Client : ng_tcp_stream_search(c) = Listener
  BY <1>2 DEF ng_tcp_stream_search
<1>7. QED
  BY <1>1, <1>2, <1>3, <1>4, <1>5, <1>6

(* The list with one stream. *)
LEMMA OneListed ==
  ASSUME NEW c \in Client, Listed(c)
  PROVE  /\ \A d \in Client : /\ (Contains(tcb_set, d) <=> d = c) /\ (Listed(d) <=> d = c)
                              /\ ng_tcp_stream_search(d) = IF d = c THEN c ELSE Listener
         /\ rte_ring_exists /\ Head(tcb_set) = c
         /\ NextOf(c) = Listener /\ NextOf(Listener) = NULL
         /\ \A d \in Client : d # c => NextOf(d) = NULL
         /\ \A fd : get_hostinfo_fromfd(fd) = IF tcb[c].fd = fd THEN c ELSE NULL
<1>1. /\ Len(tcb_set) = 2 /\ tcb_set[1] = c /\ tcb_set[2] = Listener /\ Head(tcb_set) = c
      /\ c # Listener
  BY Apart DEF Listed
<1>2. ASSUME NEW d \in Client
      PROVE  (Contains(tcb_set, d) <=> d = c) /\ (Listed(d) <=> d = c)
  <2>1. Contains(tcb_set, d) <=> d = c
    BY <1>1, Apart DEF Contains
  <2>2. Listed(d) => d = c
    BY <1>1 DEF Listed
  <2>3. QED
    BY <2>1, <2>2
<1>3. NextOf(c) = Listener
  <2> DEFINE I == {i \in 1 .. Len(tcb_set) : tcb_set[i] = c}
  <2>1. I \in SUBSET Nat /\ 1 \in I /\ \A i \in I : 1 <= i
    BY <1>1
  <2>2. Min(I) = 1
    BY <2>1, FirstOfTwo
  <2>3. SelectInSeq(tcb_set, LAMBDA x : x = c) = 1
    BY <2>1, <2>2 DEF SelectInSeq
  <2>4. QED
    BY <1>1, <2>3 DEF NextOf
<1>4. NextOf(Listener) = NULL
  <2> DEFINE I == {i \in 1 .. Len(tcb_set) : tcb_set[i] = Listener}
  <2>1. I \in SUBSET Nat /\ 2 \in I /\ \A i \in I : 2 <= i
    BY <1>1
  <2>2. Min(I) = 2
    BY <2>1, FirstOfTwo
  <2>3. SelectInSeq(tcb_set, LAMBDA x : x = Listener) = 2
    BY <2>1, <2>2 DEF SelectInSeq
  <2>4. QED
    BY <1>1, <2>3 DEF NextOf
<1>5. ASSUME NEW d \in Client, d # c
      PROVE  NextOf(d) = NULL
  <2>1. {i \in 1 .. Len(tcb_set) : tcb_set[i] = d} = {}
    BY <1>1, <1>5, Apart
  <2>2. SelectInSeq(tcb_set, LAMBDA x : x = d) = 0
    BY <2>1 DEF SelectInSeq
  <2>3. QED
    BY <1>1, <2>2 DEF NextOf
<1>6. ASSUME NEW fd
      PROVE  get_hostinfo_fromfd(fd) = IF tcb[c].fd = fd THEN c ELSE NULL
  <2> DEFINE I == {i \in 1 .. Len(tcb_set) : tcb_set[i] # Listener /\ tcb[tcb_set[i]].fd = fd}
             S == SelectInSeq(tcb_set, LAMBDA x : x # Listener /\ tcb[x].fd = fd)
  <2>0. get_hostinfo_fromfd(fd) = IF S = 0 THEN NULL ELSE tcb_set[S]
    BY DEF get_hostinfo_fromfd
  <2>1. CASE tcb[c].fd = fd
    <3>1. I \in SUBSET Nat /\ 1 \in I /\ \A i \in I : 1 <= i
      BY <1>1, <2>1
    <3>2. Min(I) = 1
      BY <3>1, FirstOfTwo
    <3>3. S = 1
      BY <3>1, <3>2 DEF SelectInSeq
    <3>4. QED
      BY <1>1, <2>0, <2>1, <3>3
  <2>2. CASE tcb[c].fd # fd
    <3>1. I = {}
      BY <1>1, <2>2
    <3>2. S = 0
      BY <3>1 DEF SelectInSeq
    <3>3. QED
      BY <2>0, <2>2, <3>2
  <2>3. QED
    BY <2>1, <2>2
<1>7. rte_ring_exists
  BY <1>2 DEF rte_ring_exists
<1>8. \A d \in Client : ng_tcp_stream_search(d) = IF d = c THEN c ELSE Listener
  BY <1>2 DEF ng_tcp_stream_search
<1>9. QED
  BY <1>1, <1>2, <1>3, <1>4, <1>5, <1>6, <1>7, <1>8

(* A stream is added to the list, and taken out of it. *)
LEMMA ListChange ==
  ASSUME NEW c \in Client
  PROVE  /\ Cons(c, <<Listener>>) = <<c, Listener>>
         /\ RemoveFirst(<<c, Listener>>, c) = <<Listener>>
<1> DEFINE T == {c, Listener}
<1>1. Cons(c, <<Listener>>) = <<c, Listener>>
  <2> DEFINE a == <<c>>
             b == <<Listener>>
             z == <<c, Listener>>
  <2>1. a \in Seq(T) /\ b \in Seq(T) /\ Len(a) = 1 /\ Len(b) = 1 /\ a[1] = c /\ b[1] = Listener
    OBVIOUS
  <2>2. z \in Seq(T) /\ Len(z) = 2 /\ z[1] = c /\ z[2] = Listener
    OBVIOUS
  <2> HIDE DEF a, b, z, T
  <2>3. a \o b \in Seq(T) /\ Len(a \o b) = 2 /\ (a \o b)[1] = c /\ (a \o b)[2] = Listener
    BY <2>1, ConcatProperties
  <2>4. \A i \in 1 .. Len(z) : (a \o b)[i] = z[i]
    BY <2>2, <2>3
  <2>5. a \o b = z
    BY <2>2, <2>3, <2>4, SeqEqual
  <2>6. QED
    BY <2>5 DEF Cons, a, b, z
<1> DEFINE s == <<c, Listener>>
           I == {i \in 1 .. Len(s) : s[i] = c}
<1>2. Len(s) = 2 /\ s[1] = c /\ s[2] = Listener
  OBVIOUS
<1> HIDE DEF s
<1>3. I \in SUBSET Nat /\ 1 \in I /\ \A i \in I : 1 <= i
  BY <1>2
<1>4. Min(I) = 1
  BY <1>3, FirstOfTwo
<1>5. SelectInSeq(s, LAMBDA v : v = c) = 1
  BY <1>3, <1>4 DEF SelectInSeq
<1>6. RemoveFirst(s, c) = RemoveAt(s, 1)
  BY <1>2, <1>5 DEF RemoveFirst
<1>7. RemoveAt(s, 1) = <<Listener>>
  <2> DEFINE a == SubSeq(s, 1, 0)
             b == SubSeq(s, 2, 2)
             z == <<Listener>>
  <2>1. s \in Seq(T)
    BY DEF s
  <2>2. a \in Seq(T) /\ Len(a) = 0 /\ b \in Seq(T) /\ Len(b) = 1 /\ b[1] = Listener
    BY <1>2, <2>1
  <2>3. z \in Seq(T) /\ Len(z) = 1 /\ z[1] = Listener
    OBVIOUS
  <2>4. RemoveAt(s, 1) = a \o b
    BY <1>2 DEF RemoveAt
  <2> HIDE DEF a, b, z, T
  <2>5. a \o b \in Seq(T) /\ Len(a \o b) = 1 /\ (a \o b)[1] = Listener
    BY <2>2, ConcatProperties
  <2>6. \A i \in 1 .. Len(z) : (a \o b)[i] = z[i]
    BY <2>3, <2>5
  <2>7. a \o b = z
    BY <2>3, <2>5, <2>6, SeqEqual
  <2>8. QED
    BY <2>4, <2>7 DEF z
<1>8. QED
  BY <1>1, <1>6, <1>7 DEF s

(* What the list says of a client. *)
LEMMA ListFacts ==
  ASSUME ListInv, NEW c \in Client
  PROVE  /\ Contains(tcb_set, c) <=> Listed(c)
         /\ ng_tcp_stream_search(c) = IF Listed(c) THEN c ELSE Listener
         /\ ng_tcp_stream_search(c) = c <=> Listed(c)
         /\ Listed(c) <=> tcb[c].status \notin {"none", "freed"}
         /\ rte_ring_exists <=> tcb_set # <<Listener>>
<1>1. Listed(c) <=> tcb[c].status \notin {"none", "freed"}
  BY DEF ListInv
<1>2. CASE tcb_set = <<Listener>>
  BY <1>1, <1>2, NoneListed, Apart
<1>3. CASE \E d \in Client : Listed(d)
  <2>1. PICK d \in Client : Listed(d)
    BY <1>3
  <2>2. tcb_set # <<Listener>>
    BY <2>1 DEF Listed
  <2>3. QED
    BY <1>1, <2>1, <2>2, OneListed, Apart
<1>4. QED
  BY <1>2, <1>3 DEF ListInv

------------------------------------------------------------------------------
(* The fields of a stream. *)
LEMMA StreamFields ==
  ASSUME NEW r \in Stream
  PROVE  /\ r.status \in Status /\ r.fd \in {-1, 5} /\ r.snd_nxt \in Nat /\ r.rcv_nxt \in Nat
         /\ r.sndbuf \in Seq(Segment) /\ r.rcvbuf \in Seq(Fragment)
BY DEF Stream

(* Those of a client's end. *)
LEMMA PeerFields ==
  ASSUME NEW e \in PeerEnd
  PROVE  /\ e.st \in PeerState /\ e.cnt \in Nat /\ e.rcv \in Nat /\ e.pushes \in Nat
         /\ e.snd \in Nat /\ e.n \in Nat /\ e.cnt <= e.snd
BY DEF PeerEnd, PeerFrame

(* One stream is written. *)
LEMMA UpdateFacts ==
  ASSUME NEW tb \in [Client -> Stream], NEW c \in Client, NEW r \in Stream, NEW nw,
         nw = [tb EXCEPT ![c] = r]
  PROVE  nw \in [Client -> Stream] /\ nw[c] = r /\ \A d \in Client : d # c => nw[d] = tb[d]
OBVIOUS

(* One client's end is written. *)
LEMMA PeerUpdateFacts ==
  ASSUME NEW pe \in [Client -> PeerEnd], NEW c \in Client, NEW r \in PeerEnd, NEW nw,
         nw = [pe EXCEPT ![c] = r]
  PROVE  nw \in [Client -> PeerEnd] /\ nw[c] = r /\ \A d \in Client : d # c => nw[d] = pe[d]
OBVIOUS

(* Nothing has to be done for a client whose end stays. *)
LEMMA OnwardSame ==
  ASSUME NEW e \in PeerEnd
  PROVE  Onward(e, e)
BY PeerFields DEF Onward

AllOnward == \A c \in Client : Onward(peer[c], peer'[c])

(* The steps of a stream that pkt_process takes. *)
StatusStep(a, b) ==
  \/ a = b
  \/ a = "none" /\ b = "SYN_RCVD"
  \/ a = "SYN_RCVD" /\ b = "ESTABLISHED"
  \/ a = "ESTABLISHED" /\ b = "CLOSE_WAIT"
  \/ a = "LAST_ACK" /\ b = "freed"

PktStatus == \A c \in Client : StatusStep(tcb[c].status, tcb'[c].status)

StatusKept == \A c \in Client : tcb'[c].status = tcb[c].status

(* The list, when no status changes. *)
LEMMA ListKept ==
  ASSUME ListInv, tcb_set' = tcb_set, StatusKept
  PROVE  ListInv'
BY DEF ListInv, Listed, StatusKept

(* The server, while pkt_process or a peer moves. *)
LEMMA ServerKept ==
  ASSUME Types, peer' \in [Client -> PeerEnd], ServerInv, t' = t, fd_table' = fd_table,
         PktStatus, AllOnward
  PROVE  ServerInv'
<1>1. t.cur \in Client \cup {NULL}
  BY DEF Types
<1>2. t.pc \in Closing \cup Sending => t.cur \in Client
  BY <1>1 DEF ServerInv, Working
<1>3. t.pc \in Closing => tcb'[t.cur].status = "CLOSE_WAIT"
  BY <1>2 DEF ServerInv, PktStatus, StatusStep
<1>4. t.pc \in Sending => tcb'[t.cur].status \notin {"none", "SYN_RCVD"}
  BY <1>2 DEF ServerInv, PktStatus, StatusStep
<1>5. t.pc \in {"send_seq", "send", "close"} => t.ack <= peer'[t.cur].cnt
  <2>1. SUFFICES ASSUME t.pc \in {"send_seq", "send", "close"}
                 PROVE  t.ack <= peer'[t.cur].cnt
    OBVIOUS
  <2>2. t.cur \in Client
    BY <1>2, <2>1 DEF Closing, Sending
  <2>3. peer[t.cur] \in PeerEnd /\ peer'[t.cur] \in PeerEnd /\ t.ack \in Nat
    BY <2>2 DEF Types
  <2>4. peer[t.cur].cnt \in Nat /\ peer'[t.cur].cnt \in Nat
    BY <2>3, PeerFields
  <2>5. t.ack <= peer[t.cur].cnt /\ peer[t.cur].cnt <= peer'[t.cur].cnt
    BY <2>1, <2>2 DEF ServerInv, AllOnward, Onward
  <2>6. QED
    BY <2>3, <2>4, <2>5
<1>6. QED
  BY <1>3, <1>4, <1>5 DEF ServerInv

(* The stream the server works on, when no stream changes its place. *)
LEMMA InUseKept ==
  ASSUME Types, ServerInv, InUseInv, t' = t, missed' = missed, tcb_set' = tcb_set,
         \A c \in Client : /\ tcb'[c].fd = tcb[c].fd
                           /\ tcb'[c].status = "LAST_ACK" => tcb[c].status = "LAST_ACK"
  PROVE  InUseInv'
<1>1. t.cur \in Client \cup {NULL}
  BY DEF Types
<1>2. t.pc \in Working => t.cur \in Client
  BY <1>1 DEF ServerInv
<1>3. QED
  BY <1>1, <1>2 DEF InUseInv, Listed

(* The signals, when nothing changes that a server looks at. *)
LEMMA SignalKept ==
  ASSUME Types, ServerInv, SignalInv, t' = t, tcb_set' = tcb_set, p'.pc = p.pc, p'.seg = p.seg,
         StatusKept, \A c \in Client : tcb'[c].fd = tcb[c].fd /\ tcb'[c].rcvbuf = tcb[c].rcvbuf
  PROVE  SignalInv'
<1>1. t.pc \in {"hold", "recv_wait"} => t.cur \in Client
  BY DEF Types, ServerInv, Working, Receiving
<1>2. QED
  BY <1>1 DEF SignalInv, StatusKept, Listed

(* The same while pkt_process only changes its place among those that hold  *)
(* no signal.                                                               *)
LEMMA SignalQuiet ==
  ASSUME Types, ServerInv, SignalInv, t' = t, tcb_set' = tcb_set, p.pc \notin {"signal", "accept"},
         StatusKept, \A c \in Client : tcb'[c].fd = tcb[c].fd /\ tcb'[c].rcvbuf = tcb[c].rcvbuf
  PROVE  SignalInv'
<1>1. t.pc \in {"hold", "recv_wait"} => t.cur \in Client
  BY DEF Types, ServerInv, Working, Receiving
<1>2. QED
  BY <1>1 DEF SignalInv, StatusKept, Listed

(* The segments of a client, when they only move. *)
LEMMA LineKept ==
  ASSUME NEW c \in Client, NEW d \in Int, Line(c), rin \in Seq(Segment), rin' \in Seq(Segment),
         Shifted(rin, rin', c, d), peer'[c] = peer[c], peer[c] \in PeerEnd,
         tcb'[c].status = tcb[c].status,
         tcb[c].rcv_nxt + Due(p, c) \in Nat,
         tcb'[c].rcv_nxt + Due(p', c) = tcb[c].rcv_nxt + Due(p, c),
         Started(reads'[c], tcb'[c].rcvbuf) \cup InHand(p', c)
           = Started(reads[c], tcb[c].rcvbuf) \cup InHand(p, c)
  PROVE  Line(c)'
<1>0. peer[c].cnt \in Nat
  BY PeerFields
<1>1. Forms(rin', c, peer[c])
  BY ShiftForms DEF Line
<1>2. Phase(rin', c, tcb[c].status, peer[c])
  BY ShiftPhase DEF Line
<1>3. tcb[c].status # "freed" => Chain(rin', c, tcb[c].rcv_nxt + Due(p, c), peer[c].cnt)
  BY <1>0, ShiftChain DEF Line
<1>4. Messages(rin', c, Started(reads[c], tcb[c].rcvbuf) \cup InHand(p, c), peer[c].pushes,
               peer[c].st = "ESTABLISHED")
  BY ShiftMessages DEF Line
<1>5. QED
  BY <1>1, <1>2, <1>3, <1>4 DEF Line

(* pkt_process in the middle of a segment, while others move. *)
LEMMA PktKept ==
  ASSUME Types, peer' \in [Client -> PeerEnd], PktInv, p' = p, AllOnward,
         \A c \in Client :
           /\ tcb[c].status = "ESTABLISHED" => tcb'[c].status = "ESTABLISHED"
           /\ tcb[c].status \in {"CLOSE_WAIT", "LAST_ACK"} =>
                tcb'[c].status \in {"CLOSE_WAIT", "LAST_ACK"}
           /\ peer[c].st \in Finished /\ NoData(rin, c) => NoData(rin', c)
           /\ Started(reads'[c], tcb'[c].rcvbuf) = Started(reads[c], tcb[c].rcvbuf)
  PROVE  PktInv'
<1>1. SUFFICES ASSUME p.pc \in Handling
               PROVE  PktInv'
  BY DEF PktInv
<1> DEFINE c == p.seg.peer
<1>2. c \in Client /\ p.seg \in Segment
  BY <1>1 DEF PktInv
<1>3. p.seg.ack <= peer'[c].rcv
  <2>1. p.seg.ack \in Nat
    BY <1>2 DEF Segment
  <2>2. peer[c].rcv \in Nat /\ peer'[c].rcv \in Nat
    BY <1>2, PeerFields DEF Types
  <2>3. p.seg.ack <= peer[c].rcv /\ peer[c].rcv <= peer'[c].rcv
    BY <1>1, <1>2 DEF PktInv, AllOnward, Onward
  <2>4. QED
    BY <2>1, <2>2, <2>3
<1>4. "FIN" \in p.seg.flags => peer'[c].st \in Finished /\ NoData(rin', c)
  BY <1>1, <1>2 DEF PktInv, AllOnward, Onward
<1>5. QED
  BY <1>1, <1>2, <1>3, <1>4 DEF PktInv

(* The world a packet goes out into goes forward. *)
Ahead(tb, pe, nt, np) ==
  /\ pe \in [Client -> PeerEnd] /\ np \in [Client -> PeerEnd]
  /\ \A c \in Client : Onward(pe[c], np[c])
  /\ \A c \in Client : tb[c].status # "none" => nt[c].status # "none"

(* What may go out may still go out later. *)
LEMMA OutLater ==
  ASSUME NEW s \in Segment, NEW tb, NEW pe, NEW nt, NEW np, Ahead(tb, pe, nt, np),
         OutOK(s, tb, pe)
  PROVE  OutOK(s, nt, np)
<1>1. SUFFICES ASSUME s.kind = "tcp" PROVE OutOK(s, nt, np)
  BY DEF OutOK
<1>2. s.peer \in Client /\ s.ack \in Nat
  BY <1>1 DEF OutOK, Segment
<1>3. pe[s.peer].cnt \in Nat /\ np[s.peer].cnt \in Nat
  BY <1>2, PeerFields DEF Ahead
<1>4. s.ack <= pe[s.peer].cnt /\ pe[s.peer].cnt <= np[s.peer].cnt
  BY <1>1, <1>2 DEF OutOK, Ahead, Onward
<1>5. s.ack <= np[s.peer].cnt
  BY <1>2, <1>3, <1>4
<1>6. QED
  BY <1>1, <1>2, <1>5 DEF OutOK, Ahead, Onward

(* The same for the out ring, as it is. *)
LEMMA RingLater ==
  ASSUME NEW q \in Seq(Segment), NEW tb, NEW pe, NEW nt, NEW np, Ahead(tb, pe, nt, np),
         NEW known, NEW more, known \subseteq more, RingOut(q, tb, pe, known)
  PROVE  RingOut(q, nt, np, more)
<1>1. SUFFICES ASSUME NEW i \in 1 .. Len(q)
               PROVE  OutOK(q[i], nt, np) /\ (q[i].kind = "tcp" => q[i].peer \in more)
  BY DEF RingOut
<1>2. q[i] \in Segment
  OBVIOUS
<1>3. QED
  BY <1>2, OutLater DEF RingOut

(* With a packet more. *)
LEMMA RingAppend ==
  ASSUME NEW q \in Seq(Segment), NEW x \in Segment, NEW tb, NEW pe, NEW known,
         RingOut(q, tb, pe, known), OutOK(x, tb, pe), x.kind = "tcp" => x.peer \in known
  PROVE  RingOut(Append(q, x), tb, pe, known)
<1> DEFINE n == Append(q, x)
<1>1. Len(n) = Len(q) + 1 /\ Len(q) \in Nat /\ n[Len(q) + 1] = x
  OBVIOUS
<1>2. \A i \in 1 .. Len(q) : n[i] = q[i]
  OBVIOUS
<1> HIDE DEF n
<1>3. \A i \in 1 .. Len(n) : i \in 1 .. Len(q) \/ i = Len(q) + 1
  BY <1>1
<1>4. RingOut(n, tb, pe, known)
  BY <1>1, <1>2, <1>3 DEF RingOut
<1>5. QED
  BY <1>4 DEF n

(* Without the first. *)
LEMMA RingTail ==
  ASSUME NEW q \in Seq(Segment), q # <<>>, NEW tb, NEW pe, NEW known, RingOut(q, tb, pe, known)
  PROVE  /\ RingOut(Tail(q), tb, pe, known)
         /\ Head(q) \in Segment /\ OutOK(Head(q), tb, pe)
         /\ Head(q).kind = "tcp" => Head(q).peer \in known
<1> DEFINE n == Tail(q)
<1>1. Len(n) = Len(q) - 1 /\ Len(q) \in Nat \ {0} /\ Head(q) = q[1] /\ 1 \in 1 .. Len(q)
  OBVIOUS
<1>2. \A i \in 1 .. Len(q) - 1 : n[i] = q[i + 1] /\ i + 1 \in 1 .. Len(q)
  OBVIOUS
<1>3. q[1] \in Segment
  BY <1>1
<1> HIDE DEF n
<1>4. RingOut(n, tb, pe, known)
  BY <1>1, <1>2 DEF RingOut
<1>5. QED
  BY <1>1, <1>3, <1>4 DEF n, RingOut

(* What a stream has to send, when it is not touched. *)
LEMMA StreamLater ==
  ASSUME NEW c \in Client, NEW tb \in [Client -> Stream], NEW pe, NEW nt \in [Client -> Stream],
         NEW np, Ahead(tb, pe, nt, np), NEW known, NEW more, known \subseteq more,
         np[c].st \in Opening \/ pe[c].st \notin Opening \/ c \in more,
         nt[c].sndbuf = tb[c].sndbuf, nt[c].snd_nxt = tb[c].snd_nxt,
         nt[c].rcv_nxt = tb[c].rcv_nxt, StreamOut(c, tb, pe, known)
  PROVE  StreamOut(c, nt, np, more)
<1>1. /\ tb[c].snd_nxt \in Nat /\ tb[c].rcv_nxt \in Nat /\ tb[c].sndbuf \in Seq(Segment)
      /\ pe[c].rcv \in Nat /\ np[c].rcv \in Nat /\ pe[c].cnt \in Nat /\ np[c].cnt \in Nat
  BY StreamFields, PeerFields DEF Ahead
<1>2. \A i \in 1 .. Len(tb[c].sndbuf) : tb[c].sndbuf[i] \in Segment
  BY <1>1
<1>3. \A i \in 1 .. Len(tb[c].sndbuf) :
        /\ OutOK(tb[c].sndbuf[i], nt, np)
        /\ tb[c].sndbuf[i].kind = "tcp" /\ tb[c].sndbuf[i].peer = c
  BY <1>2, OutLater DEF StreamOut
<1>4. pe[c].rcv <= np[c].rcv /\ pe[c].cnt <= np[c].cnt
  BY DEF Ahead, Onward
<1>5. tb[c].snd_nxt <= pe[c].rcv /\ tb[c].rcv_nxt <= pe[c].cnt
  BY DEF StreamOut
<1>6. tb[c].snd_nxt <= np[c].rcv /\ tb[c].rcv_nxt <= np[c].cnt
  BY <1>1, <1>4, <1>5
<1>7. c \notin more => Len(tb[c].sndbuf) <= 1 /\ np[c].st \in Opening
  BY DEF StreamOut
<1>8. QED
  BY <1>3, <1>6, <1>7 DEF StreamOut

(* The in ring names clients, with a packet more and without the first. *)
LEMMA PeersAppend ==
  ASSUME NEW q \in Seq(Segment), NEW x \in Segment, TcpPeers(q), x.kind = "tcp" => x.peer \in Client
  PROVE  TcpPeers(Append(q, x)) /\ Append(q, x) \in Seq(Segment)
<1> DEFINE n == Append(q, x)
<1>1. Len(n) = Len(q) + 1 /\ Len(q) \in Nat /\ n[Len(q) + 1] = x /\ n \in Seq(Segment)
  OBVIOUS
<1>2. \A i \in 1 .. Len(q) : n[i] = q[i]
  OBVIOUS
<1> HIDE DEF n
<1>3. TcpPeers(n)
  BY <1>1, <1>2 DEF TcpPeers
<1>4. QED
  BY <1>1, <1>3 DEF n

(* The same for the tail. *)
LEMMA PeersTail ==
  ASSUME NEW q \in Seq(Segment), q # <<>>, TcpPeers(q)
  PROVE  /\ TcpPeers(Tail(q)) /\ Tail(q) \in Seq(Segment)
         /\ Head(q) \in Segment /\ (Head(q).kind = "tcp" => Head(q).peer \in Client)
<1> DEFINE n == Tail(q)
<1>1. Len(n) = Len(q) - 1 /\ Len(q) \in Nat \ {0} /\ Head(q) = q[1] /\ 1 \in 1 .. Len(q)
  OBVIOUS
<1>2. \A i \in 1 .. Len(q) - 1 : n[i] = q[i + 1] /\ i + 1 \in 1 .. Len(q)
  OBVIOUS
<1>3. q[1] \in Segment /\ n \in Seq(Segment)
  BY <1>1
<1> HIDE DEF n
<1>4. TcpPeers(n)
  BY <1>1, <1>2 DEF TcpPeers
<1>5. QED
  BY <1>1, <1>3, <1>4 DEF n, TcpPeers

(* What goes out, when neither streams nor clients are touched and the      *)
(* rings change by packets that are not TCP.                                *)
LEMMA OutKept ==
  ASSUME Types, Types', OutInv, peer' = peer, arp \subseteq arp', TcpPeers(rin'),
         RingOut(rout', tcb, peer, arp),
         \A c \in Client : /\ tcb[c].status # "none" => tcb'[c].status # "none"
                           /\ tcb'[c].sndbuf = tcb[c].sndbuf
                           /\ tcb'[c].snd_nxt = tcb[c].snd_nxt
                           /\ tcb'[c].rcv_nxt = tcb[c].rcv_nxt
  PROVE  OutInv'
<1>1. Ahead(tcb, peer, tcb', peer')
  BY OnwardSame DEF Types, Ahead
<1>2. RingOut(rout', tcb', peer', arp')
  BY <1>1, RingLater DEF Types
<1>3. ASSUME NEW c \in Client
      PROVE  StreamOut(c, tcb', peer', arp')
  <2>1. StreamOut(c, tcb, peer, arp)
    BY DEF OutInv
  <2>2. peer'[c].st \in Opening \/ peer[c].st \notin Opening
    OBVIOUS
  <2>3. QED
    BY <1>1, <2>1, <2>2, StreamLater DEF Types
<1>4. QED
  BY <1>2, <1>3 DEF OutInv

(* The fragments, when neither they nor the reads change. *)
LEMMA ReadKept ==
  ASSUME ReadInv, reads' = reads,
         \A c \in Client :
           /\ tcb'[c].rcvbuf = tcb[c].rcvbuf \/ tcb'[c].rcvbuf = <<>>
           /\ StatusStep(tcb[c].status, tcb'[c].status)
           /\ tcb'[c].status = "freed" => tcb'[c].rcvbuf = <<>>
           /\ t'.cur = c /\ t'.pc \in Closing => t.cur = c /\ t.pc \in Closing
  PROVE  ReadInv'
<1>1. SUFFICES ASSUME NEW c \in Client
               PROVE  /\ Fragments(tcb'[c].rcvbuf, reads'[c])
                      /\ \A i \in 1 .. Len(reads'[c]) : <<reads'[c][i][1], 0>> \in ToSet(reads'[c])
                      /\ tcb'[c].status \in {"none", "SYN_RCVD", "freed"} => tcb'[c].rcvbuf = <<>>
                      /\ \A i \in 1 .. Len(tcb'[c].rcvbuf) : tcb'[c].rcvbuf[i].len = 0 =>
                           tcb'[c].status = "CLOSE_WAIT" /\ ~(t'.cur = c /\ t'.pc \in Closing)
  BY DEF ReadInv
<1>2. Fragments(tcb'[c].rcvbuf, reads'[c])
  <2>1. CASE tcb'[c].rcvbuf = tcb[c].rcvbuf
    BY <2>1 DEF ReadInv
  <2>2. CASE tcb'[c].rcvbuf = <<>>
    BY <2>2 DEF Fragments
  <2>3. QED
    BY <2>1, <2>2
<1>3. \A i \in 1 .. Len(reads'[c]) : <<reads'[c][i][1], 0>> \in ToSet(reads'[c])
  BY DEF ReadInv
<1>4. tcb'[c].status \in {"none", "SYN_RCVD", "freed"} => tcb'[c].rcvbuf = <<>>
  BY DEF ReadInv, StatusStep
<1>5. \A i \in 1 .. Len(tcb'[c].rcvbuf) : tcb'[c].rcvbuf[i].len = 0 =>
        tcb'[c].status = "CLOSE_WAIT" /\ ~(t'.cur = c /\ t'.pc \in Closing)
  BY DEF ReadInv, StatusStep
<1>6. QED
  BY <1>2, <1>3, <1>4, <1>5

------------------------------------------------------------------------------
(* What is still due is a number. *)
LEMMA DueFacts ==
  ASSUME Types, PktInv, NEW c \in Client
  PROVE  Due(p, c) \in Nat /\ tcb[c].rcv_nxt \in Nat /\ tcb[c].rcv_nxt + Due(p, c) \in Nat
<1>1. tcb[c].rcv_nxt \in Nat
  BY StreamFields DEF Types
<1>2. p.pc \in Handling => p.seg.len \in Nat
  BY DEF PktInv, Segment
<1>3. Due(p, c) \in Nat
  BY <1>2 DEF Due, Space, Handling
<1>4. QED
  BY <1>1, <1>3

ServerRecord ==
  [pc : Pc, cur : Client \cup {NULL}, iter : Client \cup {Listener, NULL},
   fd : {-1, 5}, len : Nat, seq : Nat, ack : Nat]

(* A step of the server that changes its own variables only. *)
LEMMA ServerOnly ==
  ASSUME TcpInv, UNCHANGED <<alive, stack, world, reads>>, t' \in ServerRecord,
         missed' \in BOOLEAN,
         t'.pc \in Closing => t.pc \in Closing /\ t'.cur = t.cur,
         ServerInv', InUseInv', SignalInv'
  PROVE  TcpInv'
<1> USE DEF TcpInv
<1>1. /\ rin' = rin /\ rout' = rout /\ arp' = arp /\ tcb_set' = tcb_set /\ tcb' = tcb
      /\ fd_table' = fd_table /\ p' = p /\ peer' = peer /\ script' = script /\ reads' = reads
      /\ alive' = alive
  BY DEF stack, world
<1>2. Types'
  BY <1>1 DEF Types, ServerRecord
<1>3. StatusKept
  BY <1>1 DEF StatusKept
<1>4. ListInv'
  BY <1>1, <1>3, ListKept
<1>5. LineInv'
  <2>1. SUFFICES ASSUME NEW c \in Client PROVE Line(c)'
    BY DEF LineInv
  <2>2. Line(c)
    BY DEF LineInv
  <2>3. QED
    BY <1>1, <2>2 DEF Line
<1>6. PktInv'
  BY <1>1 DEF PktInv
<1>7. OutInv'
  BY <1>1 DEF OutInv
<1>8. ReadInv'
  <2>1. \A c \in Client :
           /\ tcb'[c].rcvbuf = tcb[c].rcvbuf
           /\ StatusStep(tcb[c].status, tcb'[c].status)
           /\ tcb'[c].status = "freed" => tcb'[c].rcvbuf = <<>>
           /\ t'.cur = c /\ t'.pc \in Closing => t.cur = c /\ t.pc \in Closing
    BY <1>1 DEF StatusStep, ReadInv
  <2>2. QED
    BY <1>1, <2>1, ReadKept
<1>9. ReadOnceInOrder'
  BY <1>1 DEF ReadOnceInOrder
<1>10. QED
  BY <1>2, <1>4, <1>5, <1>6, <1>7, <1>8, <1>9

(* What a step that keeps t.cur and the streams has to show about it. *)
LEMMA ServerTypes ==
  ASSUME TcpInv
  PROVE  /\ t \in ServerRecord /\ t.pc \in Pc /\ t.cur \in Client \cup {NULL}
         /\ t.iter \in Client \cup {Listener, NULL} /\ t.fd \in {-1, 5}
         /\ t.len \in Nat /\ t.seq \in Nat /\ t.ack \in Nat /\ missed \in BOOLEAN
         /\ t.pc \in Working => t.cur \in Client
         /\ t.pc \notin Working => t.cur = NULL
         /\ tcb_set # <<>> /\ Head(tcb_set) \in Client \cup {Listener}
<1>1. t \in ServerRecord
  BY DEF TcpInv, Types, ServerRecord
<1>2. (t.pc \in Working => t.cur \in Client) /\ (t.pc \notin Working => t.cur = NULL)
  BY <1>1 DEF TcpInv, ServerInv, ServerRecord
<1>3. tcb_set # <<>> /\ Head(tcb_set) \in Client \cup {Listener}
  <2>1. CASE tcb_set = <<Listener>>
    BY <2>1
  <2>2. CASE \E c \in Client : Listed(c)
    BY <2>2 DEF Listed
  <2>3. QED
    BY <2>1, <2>2 DEF TcpInv, ListInv
<1>4. missed \in BOOLEAN
  BY DEF TcpInv, Types
<1>5. QED
  BY <1>1, <1>2, <1>3, <1>4 DEF ServerRecord

(* naccept begins its lookup. *)
LEMMA FindListenerStep ==
  ASSUME TcpInv, FindListener
  PROVE  TcpInv'
<1>1. /\ t.pc = "find" /\ t' = [t EXCEPT !.pc = "walk", !.iter = Head(tcb_set)]
      /\ UNCHANGED <<alive, stack, world, reads>> /\ missed' = missed
      /\ tcb' = tcb /\ tcb_set' = tcb_set /\ fd_table' = fd_table /\ peer' = peer /\ p' = p
  BY DEF FindListener, ghosts, stack, world
<1>2. /\ t \in ServerRecord /\ t.cur = NULL /\ Head(tcb_set) \in Client \cup {Listener}
      /\ missed \in BOOLEAN
  BY <1>1, ServerTypes DEF Working, Receiving, Sending, Closing
<1>3. /\ t' \in ServerRecord /\ t'.pc = "walk" /\ t'.cur = NULL /\ t'.iter = Head(tcb_set)
      /\ t'.fd = t.fd /\ Head(tcb_set) # NULL
  BY <1>1, <1>2, Apart DEF ServerRecord, Pc
<1>4. ServerInv'
  BY <1>1, <1>2, <1>3 DEF TcpInv, ServerInv, Working, Receiving, Sending, Closing, Looking
<1>5. InUseInv'
  BY <1>1, <1>2, <1>3 DEF TcpInv, InUseInv, Working, Receiving, Sending, Closing, Looking, Listed
<1>6. SignalInv'
  BY <1>1, <1>3 DEF TcpInv, SignalInv
<1>7. QED
  BY <1>1, <1>2, <1>3, <1>4, <1>5, <1>6, ServerOnly DEF Closing

(* The walk goes from a stream to the listener, and from there nowhere. *)
LEMMA NextFacts ==
  ASSUME ListInv, NEW s \in Client \cup {Listener}
  PROVE  NextOf(s) \in {Listener, NULL}
<1>1. CASE tcb_set = <<Listener>>
  BY <1>1, NoneListed
<1>2. CASE \E c \in Client : Listed(c)
  BY <1>2, OneListed
<1>3. QED
  BY <1>1, <1>2 DEF ListInv

(* The walk of naccept goes on, ends at the listener or misses it. *)
LEMMA WalkToListenerStep ==
  ASSUME TcpInv, WalkToListener
  PROVE  TcpInv'
<1>1. /\ t.pc = "walk" /\ UNCHANGED <<alive, stack, world, reads>>
      /\ tcb' = tcb /\ tcb_set' = tcb_set /\ fd_table' = fd_table /\ peer' = peer /\ p' = p
  BY DEF WalkToListener, ghosts, stack, world
<1>2. /\ t \in ServerRecord /\ t.cur = NULL /\ missed \in BOOLEAN
      /\ t.iter \in Client \cup {Listener} /\ t.fd = -1
  BY <1>1, ServerTypes DEF Working, Receiving, Sending, Closing, TcpInv, ServerInv, Looking
<1>3. NextOf(t.iter) \in {Listener, NULL}
  BY <1>2, NextFacts DEF TcpInv
<1>4. CASE t.iter = Listener /\ t' = [t EXCEPT !.pc = "accept", !.iter = NULL] /\ UNCHANGED missed
  <2>1. t' \in ServerRecord /\ t'.pc = "accept" /\ t'.cur = NULL /\ t'.fd = -1
    BY <1>2, <1>4 DEF ServerRecord, Pc
  <2>2. ServerInv'
    BY <1>1, <1>2, <2>1 DEF TcpInv, ServerInv, Working, Receiving, Sending, Closing, Looking
  <2>3. InUseInv'
    BY <1>1, <1>2, <1>4, <2>1
    DEF TcpInv, InUseInv, Working, Receiving, Sending, Closing, Looking, Listed
  <2>4. SignalInv'
    BY <1>1, <2>1 DEF TcpInv, SignalInv
  <2>5. QED
    BY <1>1, <1>2, <1>4, <2>1, <2>2, <2>3, <2>4, ServerOnly DEF Closing
<1>5. CASE NextOf(t.iter) # NULL /\ t' = [t EXCEPT !.iter = NextOf(t.iter)] /\ UNCHANGED missed
  <2>1. t' \in ServerRecord /\ t'.pc = "walk" /\ t'.cur = NULL /\ t'.fd = -1 /\ t'.iter # NULL
    BY <1>1, <1>2, <1>3, <1>5 DEF ServerRecord, Pc
  <2>2. ServerInv'
    BY <1>1, <1>2, <2>1 DEF TcpInv, ServerInv, Working, Receiving, Sending, Closing, Looking
  <2>3. InUseInv'
    BY <1>1, <1>2, <1>5, <2>1
    DEF TcpInv, InUseInv, Working, Receiving, Sending, Closing, Looking, Listed
  <2>4. SignalInv'
    BY <1>1, <2>1 DEF TcpInv, SignalInv
  <2>5. QED
    BY <1>1, <1>2, <1>5, <2>1, <2>2, <2>3, <2>4, ServerOnly DEF Closing
<1>6. CASE t' = [t EXCEPT !.pc = "recv", !.iter = NULL, !.fd = -1] /\ missed' = TRUE
  <2>1. t' \in ServerRecord /\ t'.pc = "recv" /\ t'.cur = NULL /\ t'.fd = -1
    BY <1>2, <1>6 DEF ServerRecord, Pc
  <2>2. ServerInv'
    BY <1>1, <1>2, <2>1 DEF TcpInv, ServerInv, Working, Receiving, Sending, Closing, Looking
  <2>3. InUseInv'
    BY <1>6 DEF InUseInv
  <2>4. SignalInv'
    BY <1>1, <2>1 DEF TcpInv, SignalInv
  <2>5. QED
    BY <1>1, <1>2, <1>6, <2>1, <2>2, <2>3, <2>4, ServerOnly DEF Closing
<1>7. QED
  BY <1>4, <1>5, <1>6 DEF WalkToListener

(* naccept locks the listener: a stream there is comes first in the walk. *)
LEMMA LockListenerStep ==
  ASSUME TcpInv, LockListener
  PROVE  TcpInv'
<1>1. /\ t.pc = "accept" /\ t' = [t EXCEPT !.pc = "pick", !.iter = Head(tcb_set)]
      /\ UNCHANGED <<alive, stack, world, reads>> /\ missed' = missed
      /\ tcb' = tcb /\ tcb_set' = tcb_set /\ fd_table' = fd_table /\ peer' = peer /\ p' = p
  BY DEF LockListener, ghosts, stack, world
<1>2. /\ t \in ServerRecord /\ t.cur = NULL /\ Head(tcb_set) \in Client \cup {Listener}
      /\ missed \in BOOLEAN
  BY <1>1, ServerTypes DEF Working, Receiving, Sending, Closing
<1>3. /\ t' \in ServerRecord /\ t'.pc = "pick" /\ t'.cur = NULL /\ t'.iter = Head(tcb_set)
      /\ t'.fd = t.fd /\ Head(tcb_set) # NULL
  BY <1>1, <1>2, Apart DEF ServerRecord, Pc
<1>4. ServerInv'
  BY <1>1, <1>2, <1>3 DEF TcpInv, ServerInv, Working, Receiving, Sending, Closing, Looking
<1>5. InUseInv'
  BY <1>1, <1>2, <1>3 DEF TcpInv, InUseInv, Working, Receiving, Sending, Closing, Looking, Listed
<1>6. SignalInv'
  <2>1. \A c \in Client : Listed(c) => Head(tcb_set) = c
    BY OneListed
  <2>2. QED
    BY <1>1, <1>3, <2>1 DEF SignalInv, Listed
<1>7. QED
  BY <1>1, <1>2, <1>3, <1>4, <1>5, <1>6, ServerOnly DEF Closing

(* naccept looks at one stream of the list. *)
LEMMA AcceptTcbStep ==
  ASSUME TcpInv, get_accept_tcb
  PROVE  TcpInv'
<1> DEFINE free == Contains(tcb_set, t.iter) /\ t.iter # Listener /\ tcb[t.iter].fd = -1
<1>1. /\ t.pc = "pick" /\ UNCHANGED <<alive, stack, world, reads>> /\ missed' = missed
      /\ tcb' = tcb /\ tcb_set' = tcb_set /\ fd_table' = fd_table /\ peer' = peer /\ p' = p
  BY DEF get_accept_tcb, ghosts, stack, world
<1>2. /\ t \in ServerRecord /\ t.cur = NULL /\ missed \in BOOLEAN
      /\ t.iter \in Client \cup {Listener} /\ t.fd = -1
  BY <1>1, ServerTypes DEF Working, Receiving, Sending, Closing, TcpInv, ServerInv, Looking
<1>3. NextOf(t.iter) \in {Listener, NULL}
  BY <1>2, NextFacts DEF TcpInv
<1>4. free <=> t.iter \in Client /\ Listed(t.iter) /\ tcb[t.iter].fd = -1
  BY <1>2, ListFacts, Apart DEF TcpInv
<1>5. \/ free /\ t' = [t EXCEPT !.pc = "fd", !.cur = t.iter, !.iter = NULL]
      \/ ~free /\ NextOf(t.iter) # NULL /\ t' = [t EXCEPT !.iter = NextOf(t.iter)]
      \/ ~free /\ t' = [t EXCEPT !.pc = "accept_wait", !.iter = NULL]
  BY <1>3 DEF get_accept_tcb
<1> HIDE DEF free
<1>6. CASE free /\ t' = [t EXCEPT !.pc = "fd", !.cur = t.iter, !.iter = NULL]
  <2>0. t.iter \in Client /\ Listed(t.iter) /\ tcb[t.iter].fd = -1
    BY <1>4, <1>6
  <2>1. t' \in ServerRecord /\ t'.pc = "fd" /\ t'.cur = t.iter /\ t'.fd = -1 /\ t'.cur # NULL
    BY <1>2, <1>6, <2>0, Apart DEF ServerRecord, Pc
  <2>2. ServerInv'
    BY <1>1, <1>2, <2>1 DEF TcpInv, ServerInv, Working, Receiving, Sending, Closing, Looking
  <2>3. InUseInv'
    <3>1. \A c \in Client : tcb[c].status = "LAST_ACK" => Listed(c)
      BY DEF TcpInv, ListInv
    <3>2. \A c \in Client : Listed(c) => c = t.iter
      BY <2>0, OneListed
    <3>3. ~missed => \A c \in Client : tcb[c].status # "LAST_ACK"
      BY <2>0, <3>1, <3>2 DEF TcpInv, InUseInv
    <3>4. QED
      BY <1>1, <2>0, <2>1, <3>3
      DEF TcpInv, InUseInv, Working, Receiving, Sending, Closing, Looking, Listed
  <2>4. SignalInv'
    BY <1>1, <2>1 DEF TcpInv, SignalInv
  <2>5. QED
    BY <1>1, <1>2, <2>1, <2>2, <2>3, <2>4, ServerOnly DEF Closing
<1>7. CASE ~free /\ NextOf(t.iter) # NULL /\ t' = [t EXCEPT !.iter = NextOf(t.iter)]
  <2>1. t' \in ServerRecord /\ t'.pc = "pick" /\ t'.cur = NULL /\ t'.fd = -1 /\ t'.iter # NULL
    BY <1>1, <1>2, <1>3, <1>7 DEF ServerRecord, Pc
  <2>2. ServerInv'
    BY <1>1, <1>2, <2>1 DEF TcpInv, ServerInv, Working, Receiving, Sending, Closing, Looking
  <2>3. InUseInv'
    BY <1>1, <1>2, <2>1
    DEF TcpInv, InUseInv, Working, Receiving, Sending, Closing, Looking, Listed
  <2>4. SignalInv'
    BY <1>1, <1>4, <1>7, <2>1 DEF TcpInv, SignalInv, Listed
  <2>5. QED
    BY <1>1, <1>2, <2>1, <2>2, <2>3, <2>4, ServerOnly DEF Closing
<1>8. CASE ~free /\ t' = [t EXCEPT !.pc = "accept_wait", !.iter = NULL]
  <2>1. t' \in ServerRecord /\ t'.pc = "accept_wait" /\ t'.cur = NULL /\ t'.fd = -1
    BY <1>1, <1>2, <1>8 DEF ServerRecord, Pc
  <2>2. ServerInv'
    BY <1>1, <1>2, <2>1 DEF TcpInv, ServerInv, Working, Receiving, Sending, Closing, Looking
  <2>3. InUseInv'
    BY <1>1, <1>2, <2>1
    DEF TcpInv, InUseInv, Working, Receiving, Sending, Closing, Looking, Listed
  <2>4. SignalInv'
    BY <1>1, <1>4, <1>8, <2>1 DEF TcpInv, SignalInv, Listed
  <2>5. QED
    BY <1>1, <1>2, <2>1, <2>2, <2>3, <2>4, ServerOnly DEF Closing
<1>9. QED
  BY <1>5, <1>6, <1>7, <1>8

(* nrecv finds its stream. *)
LEMMA RecvLockStep ==
  ASSUME TcpInv, RecvLock
  PROVE  TcpInv'
<1> DEFINE c == get_hostinfo_fromfd(t.fd)
<1>1. /\ t.pc = "recv" /\ UNCHANGED <<alive, stack, world, reads>> /\ missed' = missed
      /\ tcb' = tcb /\ tcb_set' = tcb_set /\ fd_table' = fd_table /\ peer' = peer /\ p' = p
      /\ t' = [t EXCEPT !.pc = "try", !.cur = c] /\ c # NULL
  BY DEF RecvLock, ghosts, stack, world
<1>2. t \in ServerRecord /\ missed \in BOOLEAN
  BY ServerTypes
<1>3. c \in Client /\ Listed(c) /\ tcb[c].fd = t.fd
  <2>1. CASE tcb_set = <<Listener>>
    BY <1>1, <2>1, NoneListed
  <2>2. CASE \E d \in Client : Listed(d)
    BY <1>1, <2>2, OneListed
  <2>3. QED
    BY <2>1, <2>2 DEF TcpInv, ListInv
<1> HIDE DEF c
<1>4. t' \in ServerRecord /\ t'.pc = "try" /\ t'.cur = c /\ t'.fd = t.fd /\ c # NULL
  BY <1>1, <1>2, <1>3 DEF ServerRecord, Pc
<1>5. ServerInv'
  BY <1>1, <1>4 DEF TcpInv, ServerInv, Working, Receiving, Sending, Closing, Looking
<1>6. InUseInv'
  BY <1>1, <1>3, <1>4
  DEF TcpInv, InUseInv, Working, Receiving, Sending, Closing, Looking, Listed
<1>7. SignalInv'
  BY <1>1, <1>4 DEF TcpInv, SignalInv
<1>8. QED
  BY <1>1, <1>2, <1>4, <1>5, <1>6, <1>7, ServerOnly DEF Closing

(* nrecv goes to sleep: what arrived since it looked is about to be         *)
(* signalled.                                                               *)
LEMMA CondWaitStep ==
  ASSUME TcpInv, pthread_cond_wait
  PROVE  TcpInv'
<1>1. /\ t.pc = "hold" /\ UNCHANGED <<alive, stack, world, reads>> /\ missed' = missed
      /\ tcb' = tcb /\ tcb_set' = tcb_set /\ fd_table' = fd_table /\ peer' = peer /\ p' = p
      /\ t' = [t EXCEPT !.pc = "recv_wait"]
  BY DEF pthread_cond_wait, AppStep, ghosts, stack, world
<1>2. t \in ServerRecord /\ missed \in BOOLEAN
  BY ServerTypes
<1>3. t' \in ServerRecord /\ t'.pc = "recv_wait" /\ t'.cur = t.cur /\ t'.fd = t.fd
  BY <1>1, <1>2 DEF ServerRecord, Pc
<1>4. ServerInv'
  BY <1>1, <1>3 DEF TcpInv, ServerInv, Working, Receiving, Sending, Closing, Looking
<1>5. InUseInv'
  BY <1>1, <1>3
  DEF TcpInv, InUseInv, Working, Receiving, Sending, Closing, Looking, Listed
<1>6. SignalInv'
  BY <1>1, <1>3 DEF TcpInv, SignalInv
<1>7. QED
  BY <1>1, <1>2, <1>3, <1>4, <1>5, <1>6, ServerOnly DEF Closing

(* A waiting server wakes up, for whatever reason. *)
LEMMA SpuriousStep ==
  ASSUME TcpInv, SpuriousWakeup
  PROVE  TcpInv'
<1>1. /\ t.pc \in {"accept_wait", "recv_wait"}
      /\ UNCHANGED <<alive, stack, world, reads>> /\ missed' = missed
      /\ tcb' = tcb /\ tcb_set' = tcb_set /\ fd_table' = fd_table /\ peer' = peer /\ p' = p
      /\ t' = [t EXCEPT !.pc = WokenFrom(t.pc)]
  BY DEF SpuriousWakeup, ghosts, stack, world
<1>2. t \in ServerRecord /\ missed \in BOOLEAN
  BY ServerTypes
<1>3. /\ t' \in ServerRecord /\ t'.cur = t.cur /\ t'.fd = t.fd
      /\ t'.pc = IF t.pc = "accept_wait" THEN "accept" ELSE "try"
  BY <1>1, <1>2 DEF ServerRecord, Pc, WokenFrom
<1>4. ServerInv'
  BY <1>1, <1>3 DEF TcpInv, ServerInv, Working, Receiving, Sending, Closing, Looking
<1>5. InUseInv'
  BY <1>1, <1>3
  DEF TcpInv, InUseInv, Working, Receiving, Sending, Closing, Looking, Listed
<1>6. SignalInv'
  BY <1>1, <1>3 DEF TcpInv, SignalInv
<1>7. QED
  BY <1>1, <1>2, <1>3, <1>4, <1>5, <1>6, ServerOnly DEF Closing

(* nsend reads what it will acknowledge. *)
LEMMA SendAckStep ==
  ASSUME TcpInv, SendAck
  PROVE  TcpInv'
<1>1. /\ t.pc = "send_ack" /\ UNCHANGED <<alive, stack, world, reads>> /\ missed' = missed
      /\ tcb' = tcb /\ tcb_set' = tcb_set /\ fd_table' = fd_table /\ peer' = peer /\ p' = p
      /\ t' = [t EXCEPT !.pc = "send_seq", !.ack = tcb[t.cur].rcv_nxt]
  BY DEF SendAck, ghosts, stack, world
<1>2. t \in ServerRecord /\ missed \in BOOLEAN /\ t.cur \in Client
  BY <1>1, ServerTypes DEF Working, Sending
<1>3. tcb[t.cur].rcv_nxt \in Nat /\ tcb[t.cur].rcv_nxt <= peer[t.cur].cnt
  BY <1>2, StreamFields DEF TcpInv, Types, OutInv, StreamOut
<1>4. /\ t' \in ServerRecord /\ t'.pc = "send_seq" /\ t'.cur = t.cur /\ t'.fd = t.fd
      /\ t'.ack = tcb[t.cur].rcv_nxt
  BY <1>1, <1>2, <1>3 DEF ServerRecord, Pc
<1>5. ServerInv'
  BY <1>1, <1>3, <1>4 DEF TcpInv, ServerInv, Working, Receiving, Sending, Closing, Looking
<1>6. InUseInv'
  BY <1>1, <1>4
  DEF TcpInv, InUseInv, Working, Receiving, Sending, Closing, Looking, Listed
<1>7. SignalInv'
  BY <1>1, <1>4 DEF TcpInv, SignalInv
<1>8. QED
  BY <1>1, <1>2, <1>4, <1>5, <1>6, <1>7, ServerOnly DEF Closing

(* nsend reads the sequence number it will send from. *)
LEMMA SendSeqStep ==
  ASSUME TcpInv, SendSeq
  PROVE  TcpInv'
<1>1. /\ t.pc = "send_seq" /\ UNCHANGED <<alive, stack, world, reads>> /\ missed' = missed
      /\ tcb' = tcb /\ tcb_set' = tcb_set /\ fd_table' = fd_table /\ peer' = peer /\ p' = p
      /\ t' = [t EXCEPT !.pc = "send", !.seq = tcb[t.cur].snd_nxt]
  BY DEF SendSeq, ghosts, stack, world
<1>2. t \in ServerRecord /\ missed \in BOOLEAN /\ t.cur \in Client
  BY <1>1, ServerTypes DEF Working, Sending
<1>3. tcb[t.cur].snd_nxt \in Nat
  BY <1>2, StreamFields DEF TcpInv, Types
<1>4. /\ t' \in ServerRecord /\ t'.pc = "send" /\ t'.cur = t.cur /\ t'.fd = t.fd
      /\ t'.ack = t.ack
  BY <1>1, <1>2, <1>3 DEF ServerRecord, Pc
<1>5. ServerInv'
  BY <1>1, <1>4 DEF TcpInv, ServerInv, Working, Receiving, Sending, Closing, Looking
<1>6. InUseInv'
  BY <1>1, <1>4
  DEF TcpInv, InUseInv, Working, Receiving, Sending, Closing, Looking, Listed
<1>7. SignalInv'
  BY <1>1, <1>4 DEF TcpInv, SignalInv
<1>8. QED
  BY <1>1, <1>2, <1>4, <1>5, <1>6, <1>7, ServerOnly DEF Closing

(* nclose reads both. *)
LEMMA CloseNumbersStep ==
  ASSUME TcpInv, CloseNumbers
  PROVE  TcpInv'
<1>1. /\ t.pc = "close_numbers" /\ UNCHANGED <<alive, stack, world, reads>> /\ missed' = missed
      /\ tcb' = tcb /\ tcb_set' = tcb_set /\ fd_table' = fd_table /\ peer' = peer /\ p' = p
      /\ t' = [t EXCEPT !.pc = "close", !.seq = tcb[t.cur].snd_nxt, !.ack = tcb[t.cur].rcv_nxt]
  BY DEF CloseNumbers, ghosts, stack, world
<1>2. t \in ServerRecord /\ missed \in BOOLEAN /\ t.cur \in Client
  BY <1>1, ServerTypes DEF Working, Closing
<1>3. /\ tcb[t.cur].rcv_nxt \in Nat /\ tcb[t.cur].rcv_nxt <= peer[t.cur].cnt
      /\ tcb[t.cur].snd_nxt \in Nat
  BY <1>2, StreamFields DEF TcpInv, Types, OutInv, StreamOut
<1>4. /\ t' \in ServerRecord /\ t'.pc = "close" /\ t'.cur = t.cur /\ t'.fd = t.fd
      /\ t'.ack = tcb[t.cur].rcv_nxt
  BY <1>1, <1>2, <1>3 DEF ServerRecord, Pc
<1>5. ServerInv'
  BY <1>1, <1>3, <1>4 DEF TcpInv, ServerInv, Working, Receiving, Sending, Closing, Looking
<1>6. InUseInv'
  BY <1>1, <1>4
  DEF TcpInv, InUseInv, Working, Receiving, Sending, Closing, Looking, Listed
<1>7. SignalInv'
  BY <1>1, <1>4 DEF TcpInv, SignalInv
<1>8. QED
  BY <1>1, <1>2, <1>4, <1>5, <1>6, <1>7, ServerOnly DEF Closing

(* A step of the server that writes a stream, but neither its numbers nor   *)
(* its fragments.                                                           *)
LEMMA ServerWrites ==
  ASSUME TcpInv, NEW c \in Client, NEW r \in Stream, tcb' = [tcb EXCEPT ![c] = r],
         r.status = tcb[c].status, r.snd_nxt = tcb[c].snd_nxt, r.rcv_nxt = tcb[c].rcv_nxt,
         r.rcvbuf = tcb[c].rcvbuf, StreamOut(c, tcb', peer, arp),
         UNCHANGED <<alive, rin, rout, arp, tcb_set, p, world, ghosts>>,
         t' \in ServerRecord,
         t'.pc \in Closing => t.pc \in Closing /\ t'.cur = t.cur,
         ServerInv', InUseInv', SignalInv'
  PROVE  TcpInv'
<1> USE DEF TcpInv
<1>1. /\ rin' = rin /\ rout' = rout /\ arp' = arp /\ tcb_set' = tcb_set
      /\ p' = p /\ peer' = peer /\ script' = script /\ reads' = reads
      /\ alive' = alive /\ missed' = missed
  BY DEF ghosts, world
<1>2. /\ tcb' \in [Client -> Stream] /\ tcb'[c] = r /\ \A d \in Client : d # c => tcb'[d] = tcb[d]
  BY UpdateFacts DEF Types
<1>3. \A d \in Client : /\ tcb'[d].status = tcb[d].status /\ tcb'[d].snd_nxt = tcb[d].snd_nxt
                        /\ tcb'[d].rcv_nxt = tcb[d].rcv_nxt /\ tcb'[d].rcvbuf = tcb[d].rcvbuf
  BY <1>2
<1>4. Types'
  BY <1>1, <1>2, SMTT(30) DEF Types, ServerRecord
<1>5. ListInv'
  BY <1>1, <1>3, ListKept DEF StatusKept
<1>6. LineInv'
  <2>1. SUFFICES ASSUME NEW d \in Client PROVE Line(d)'
    BY DEF LineInv
  <2>2. Line(d)
    BY DEF LineInv
  <2>3. QED
    BY <1>1, <1>3, <2>2 DEF Line
<1>7. PktInv'
  <2>1. p.pc \in Handling => p.seg.peer \in Client
    BY DEF PktInv
  <2>2. QED
    BY <1>1, <1>3, <2>1 DEF PktInv
<1>8. OutInv'
  <2>1. Ahead(tcb, peer, tcb', peer)
    BY <1>3, OnwardSame DEF Types, Ahead
  <2>2. RingOut(rout, tcb', peer, arp)
    BY <2>1, RingLater DEF Types, OutInv
  <2>3. ASSUME NEW d \in Client, d # c
        PROVE  StreamOut(d, tcb', peer, arp)
    <3>1. tcb'[d].sndbuf = tcb[d].sndbuf /\ StreamOut(d, tcb, peer, arp)
      BY <1>2, <2>3 DEF OutInv
    <3>2. peer[d].st \in Opening \/ peer[d].st \notin Opening
      OBVIOUS
    <3>3. tcb \in [Client -> Stream] /\ tcb' \in [Client -> Stream]
      BY <1>2 DEF Types
    <3>4. QED
      BY <1>3, <2>1, <3>1, <3>2, <3>3, StreamLater
  <2>4. QED
    BY <1>1, <2>2, <2>3 DEF OutInv
<1>9. ReadInv'
  <2>1. \A d \in Client :
           /\ tcb'[d].rcvbuf = tcb[d].rcvbuf
           /\ StatusStep(tcb[d].status, tcb'[d].status)
           /\ tcb'[d].status = "freed" => tcb'[d].rcvbuf = <<>>
           /\ t'.cur = d /\ t'.pc \in Closing => t.cur = d /\ t.pc \in Closing
    BY <1>3 DEF StatusStep, ReadInv
  <2>2. QED
    BY <1>1, <2>1, ReadKept
<1>10. ReadOnceInOrder'
  BY <1>1 DEF ReadOnceInOrder
<1>11. QED
  BY <1>4, <1>5, <1>6, <1>7, <1>8, <1>9, <1>10

(* naccept gives the stream its descriptor: the first free one is 5. *)
LEMMA AcceptStep ==
  ASSUME TcpInv, naccept
  PROVE  TcpInv'
<1> DEFINE c == t.cur
           r == [tcb[c] EXCEPT !.fd = 5]
<1>1. /\ t.pc = "fd" /\ UNCHANGED <<alive, rin, rout, arp, tcb_set, p, world, ghosts>>
      /\ fd_table' = fd_table \cup {get_fd_frombitmap}
      /\ tcb' = [tcb EXCEPT ![c].fd = get_fd_frombitmap]
      /\ t' = [t EXCEPT !.pc = "recv", !.fd = get_fd_frombitmap, !.cur = NULL]
      /\ missed' = missed /\ tcb_set' = tcb_set /\ p' = p
  BY DEF naccept, ghosts
<1>2. t \in ServerRecord /\ c \in Client /\ t.fd = -1 /\ fd_table = {3, 4}
  BY <1>1, ServerTypes DEF Working, TcpInv, ServerInv, listenfd
<1>3. get_fd_frombitmap = 5
  <2> DEFINE I == (3 .. 6) \ {3, 4}
  <2>1. I \in SUBSET Nat /\ 5 \in I /\ \A i \in I : 5 <= i
    OBVIOUS
  <2> HIDE DEF I
  <2>2. Min(I) = 5
    BY <2>1, FirstOfTwo
  <2>3. QED
    BY <1>2, <2>2 DEF get_fd_frombitmap, MAX_FD, I
<1>4. tcb[c] \in Stream /\ tcb \in [Client -> Stream]
  BY <1>2 DEF TcpInv, Types
<1>5. /\ r \in Stream /\ r.fd = 5 /\ r.status = tcb[c].status /\ r.snd_nxt = tcb[c].snd_nxt
      /\ r.rcv_nxt = tcb[c].rcv_nxt /\ r.rcvbuf = tcb[c].rcvbuf /\ r.sndbuf = tcb[c].sndbuf
  BY <1>4 DEF Stream
<1>6. tcb' = [tcb EXCEPT ![c] = r]
  BY <1>1, <1>3
<1> HIDE DEF r
<1>7. /\ tcb' \in [Client -> Stream] /\ tcb'[c] = r /\ \A d \in Client : d # c => tcb'[d] = tcb[d]
  BY <1>2, <1>4, <1>5, <1>6, UpdateFacts
<1>8. t' \in ServerRecord /\ t'.pc = "recv" /\ t'.cur = NULL /\ t'.fd = 5
  BY <1>1, <1>2, <1>3 DEF ServerRecord, Pc
<1>9. StreamOut(c, tcb', peer, arp)
  <2>1. Ahead(tcb, peer, tcb', peer)
    BY <1>5, <1>7, OnwardSame DEF TcpInv, Types, Ahead
  <2>2. peer[c].st \in Opening \/ peer[c].st \notin Opening
    OBVIOUS
  <2>3. QED
    BY <1>2, <1>4, <1>5, <1>7, <2>1, <2>2, StreamLater DEF TcpInv, OutInv
<1>10. ServerInv'
  BY <1>1, <1>2, <1>3, <1>8
  DEF ServerInv, Working, Receiving, Sending, Closing, Looking, listenfd
<1>11. InUseInv'
  <2>1. SUFFICES ASSUME ~missed PROVE InUseInv'
    BY <1>1 DEF InUseInv
  <2>2. \A d \in Client : tcb[d].status # "LAST_ACK"
    BY <1>1, <2>1 DEF TcpInv, InUseInv, Looking
  <2>3. \A d \in Client : tcb'[d].status # "LAST_ACK"
    BY <1>5, <1>7, <2>2
  <2>4. QED
    BY <1>8, <2>3 DEF InUseInv, Working, Receiving, Sending, Closing, Looking
<1>12. SignalInv'
  BY <1>8 DEF SignalInv
<1>13. QED
  BY <1>1, <1>2, <1>5, <1>6, <1>8, <1>9, <1>10, <1>11, <1>12, ServerWrites DEF Closing

(* A segment more waits in a stream whose handshake is over. *)
LEMMA StreamAppend ==
  ASSUME NEW c \in Client, NEW tb \in [Client -> Stream], NEW pe \in [Client -> PeerEnd],
         NEW known, StreamOut(c, tb, pe, known), pe[c].st \notin Opening,
         NEW x \in Segment, x.kind = "tcp", x.peer = c, x.ack <= pe[c].cnt,
         NEW nt \in [Client -> Stream], nt[c].sndbuf = Append(tb[c].sndbuf, x),
         nt[c].status # "none", nt[c].snd_nxt <= pe[c].rcv, nt[c].rcv_nxt <= pe[c].cnt
  PROVE  StreamOut(c, nt, pe, known)
<1> DEFINE b == tb[c].sndbuf
           n == nt[c].sndbuf
<1>1. b \in Seq(Segment)
  BY StreamFields
<1>2. n = Append(b, x)
  OBVIOUS
<1> HIDE DEF b, n
<1>3. Len(n) = Len(b) + 1 /\ Len(b) \in Nat /\ n[Len(b) + 1] = x
  BY <1>1, <1>2
<1>4. \A i \in 1 .. Len(b) : n[i] = b[i]
  BY <1>1, <1>2
<1>5. OutOK(x, nt, pe)
  BY DEF OutOK
<1>6. \A i \in 1 .. Len(b) : OutOK(b[i], tb, pe) /\ b[i].kind = "tcp" /\ b[i].peer = c
  BY DEF StreamOut, b
<1>7. \A i \in 1 .. Len(b) : OutOK(b[i], nt, pe)
  BY <1>6 DEF OutOK
<1>8. \A i \in 1 .. Len(n) : i \in 1 .. Len(b) \/ i = Len(b) + 1
  BY <1>3
<1>9. \A i \in 1 .. Len(n) : OutOK(n[i], nt, pe) /\ n[i].kind = "tcp" /\ n[i].peer = c
  BY <1>3, <1>4, <1>5, <1>6, <1>7, <1>8
<1>10. c \in known
  BY DEF StreamOut
<1>11. QED
  BY <1>9, <1>10 DEF StreamOut, n

(* The server queues a segment of its own. *)
LEMMA ServerSends ==
  ASSUME TcpInv, NEW c \in Client, tcb[c].status \notin {"none", "SYN_RCVD"},
         NEW x \in Segment, x.kind = "tcp", x.peer = c, x.ack <= peer[c].cnt,
         tcb' = [tcb EXCEPT ![c].sndbuf = Append(@, x)],
         UNCHANGED <<alive, rin, rout, arp, tcb_set, p, world, ghosts>>,
         fd_table' = fd_table, t' \in ServerRecord, t'.fd = t.fd,
         \/ t.pc = "send" /\ t'.pc = "recv" /\ t'.cur = NULL
         \/ t.pc = "close" /\ t'.pc = "last_ack" /\ t'.cur = t.cur
  PROVE  TcpInv'
<1> DEFINE s == Append(tcb[c].sndbuf, x)
           r == [tcb[c] EXCEPT !.sndbuf = s]
<1>1. tcb[c] \in Stream /\ tcb \in [Client -> Stream] /\ peer \in [Client -> PeerEnd]
  BY DEF TcpInv, Types
<1>2. s \in Seq(Segment)
  BY <1>1, StreamFields
<1>3. tcb' = [tcb EXCEPT ![c] = r]
  BY <1>1
<1> HIDE DEF s
<1>4. /\ r \in Stream /\ r.fd = tcb[c].fd /\ r.status = tcb[c].status
      /\ r.snd_nxt = tcb[c].snd_nxt
      /\ r.rcv_nxt = tcb[c].rcv_nxt /\ r.rcvbuf = tcb[c].rcvbuf /\ r.sndbuf = s
  BY <1>1, <1>2 DEF Stream
<1> HIDE DEF r
<1>5. /\ tcb' \in [Client -> Stream] /\ tcb'[c] = r /\ \A d \in Client : d # c => tcb'[d] = tcb[d]
  <2>1. c \in Client
    OBVIOUS
  <2>2. QED
    BY ONLY <1>1, <1>3, <1>4, <2>1, UpdateFacts
<1>6. \A d \in Client : tcb'[d].status = tcb[d].status /\ tcb'[d].fd = tcb[d].fd
  BY <1>4, <1>5
<1>7. StreamOut(c, tcb', peer, arp)
  <2>1. peer[c].st \notin Opening
    BY DEF TcpInv, LineInv, Line, Phase
  <2>2. StreamOut(c, tcb, peer, arp)
    BY DEF TcpInv, OutInv
  <2>3. tcb[c].snd_nxt <= peer[c].rcv /\ tcb[c].rcv_nxt <= peer[c].cnt
    BY <2>2 DEF StreamOut
  <2>4. tcb'[c].sndbuf = Append(tcb[c].sndbuf, x) /\ tcb'[c].status # "none"
    BY <1>4, <1>5 DEF s
  <2>5. tcb'[c].snd_nxt <= peer[c].rcv /\ tcb'[c].rcv_nxt <= peer[c].cnt
    BY <1>4, <1>5, <2>3
  <2>6. c \in Client /\ x \in Segment /\ x.kind = "tcp" /\ x.peer = c /\ x.ack <= peer[c].cnt
    OBVIOUS
  <2>7. QED
    BY ONLY <1>1, <1>5, <2>1, <2>2, <2>4, <2>5, <2>6, StreamAppend
<1>8. missed' = missed /\ tcb_set' = tcb_set /\ p' = p /\ peer' = peer
  BY DEF ghosts, world
<1>9. t.cur \in Client /\ NULL \notin Client
  BY ServerTypes, Apart DEF Working, Sending, Closing
<1>10. ServerInv'
  BY <1>6, <1>8, <1>9 DEF TcpInv, ServerInv, Working, Receiving, Sending, Closing, Looking
<1>11. InUseInv'
  BY <1>6, <1>8, <1>9
  DEF TcpInv, InUseInv, Working, Receiving, Sending, Closing, Looking, Listed
<1>12. SignalInv'
  BY DEF SignalInv
<1>13. QED
  BY <1>3, <1>4, <1>7, <1>10, <1>11, <1>12, ServerWrites DEF Closing

(* nsend queues the echo. *)
LEMMA SendStep ==
  ASSUME TcpInv, nsend
  PROVE  TcpInv'
<1> DEFINE x == Tcp(t.cur, {"ACK", "PSH"}, t.seq, t.ack, t.len, 0)
<1>1. /\ t.pc = "send" /\ UNCHANGED <<alive, rin, rout, arp, tcb_set, p, world, ghosts>>
      /\ fd_table' = fd_table /\ tcb' = [tcb EXCEPT ![t.cur].sndbuf = Append(@, x)]
      /\ t' = [t EXCEPT !.pc = "recv", !.cur = NULL, !.len = 0, !.seq = 0, !.ack = 0]
  BY DEF nsend
<1>2. /\ t \in ServerRecord /\ t.cur \in Client /\ t.len \in Nat /\ t.seq \in Nat /\ t.ack \in Nat
  BY <1>1, ServerTypes DEF Working, Sending
<1>3. x \in Segment /\ x.kind = "tcp" /\ x.peer = t.cur /\ x.ack = t.ack
  BY <1>2, Apart DEF Segment, Tcp, Kind, Flag
<1>4. t' \in ServerRecord /\ t'.pc = "recv" /\ t'.cur = NULL /\ t'.fd = t.fd
  BY <1>1, <1>2 DEF ServerRecord, Pc
<1>5. t.ack <= peer[t.cur].cnt /\ tcb[t.cur].status \notin {"none", "SYN_RCVD"}
  BY <1>1 DEF TcpInv, ServerInv, Sending
<1> HIDE DEF x
<1>6. QED
  BY <1>1, <1>2, <1>3, <1>4, <1>5, ServerSends

(* nclose queues the FIN. *)
LEMMA CloseStep ==
  ASSUME TcpInv, nclose
  PROVE  TcpInv'
<1> DEFINE x == Tcp(t.cur, {"FIN", "ACK"}, t.seq, t.ack, 0, 0)
<1>1. /\ t.pc = "close" /\ UNCHANGED <<alive, rin, rout, arp, tcb_set, p, world, ghosts>>
      /\ fd_table' = fd_table /\ tcb' = [tcb EXCEPT ![t.cur].sndbuf = Append(@, x)]
      /\ t' = [t EXCEPT !.pc = "last_ack", !.seq = 0, !.ack = 0]
  BY DEF nclose
<1>2. /\ t \in ServerRecord /\ t.cur \in Client /\ t.len \in Nat /\ t.seq \in Nat /\ t.ack \in Nat
  BY <1>1, ServerTypes DEF Working, Closing
<1>3. x \in Segment /\ x.kind = "tcp" /\ x.peer = t.cur /\ x.ack = t.ack
  BY <1>2, Apart DEF Segment, Tcp, Kind, Flag
<1>4. t' \in ServerRecord /\ t'.pc = "last_ack" /\ t'.cur = t.cur /\ t'.fd = t.fd
  BY <1>1, <1>2 DEF ServerRecord, Pc
<1>5. t.ack <= peer[t.cur].cnt /\ tcb[t.cur].status = "CLOSE_WAIT"
  BY <1>1 DEF TcpInv, ServerInv, Closing
<1> HIDE DEF x
<1>6. QED
  BY <1>1, <1>2, <1>3, <1>4, <1>5, ServerSends

(* nclose moves the stream to LAST_ACK and gives the descriptor back. *)
LEMMA EnterLastAckStep ==
  ASSUME TcpInv, EnterLastAck
  PROVE  TcpInv'
<1> DEFINE c == t.cur
           r == [tcb[c] EXCEPT !.status = "LAST_ACK"]
<1>1. /\ t.pc = "last_ack" /\ tcb' = [tcb EXCEPT ![c].status = "LAST_ACK"]
      /\ fd_table' = fd_table \ {t.fd}
      /\ t' = [t EXCEPT !.pc = "find", !.cur = NULL, !.fd = -1, !.len = 0]
      /\ rin' = rin /\ rout' = rout /\ arp' = arp /\ tcb_set' = tcb_set
      /\ p' = p /\ peer' = peer /\ script' = script /\ reads' = reads
      /\ alive' = alive /\ missed' = missed
  BY DEF EnterLastAck, ghosts, world
<1>2. t \in ServerRecord /\ c \in Client /\ t.fd \in {-1, 5}
  BY <1>1, ServerTypes DEF Working, Closing
<1>3. tcb[c] \in Stream /\ tcb \in [Client -> Stream] /\ peer \in [Client -> PeerEnd]
  BY <1>2 DEF TcpInv, Types
<1>4. /\ r \in Stream /\ r.fd = tcb[c].fd /\ r.status = "LAST_ACK" /\ r.snd_nxt = tcb[c].snd_nxt
      /\ r.rcv_nxt = tcb[c].rcv_nxt /\ r.rcvbuf = tcb[c].rcvbuf /\ r.sndbuf = tcb[c].sndbuf
  BY <1>3 DEF Stream, Status
<1>5. tcb' = [tcb EXCEPT ![c] = r]
  BY <1>1
<1> HIDE DEF r
<1>6. /\ tcb' \in [Client -> Stream] /\ tcb'[c] = r /\ \A d \in Client : d # c => tcb'[d] = tcb[d]
  BY <1>2, <1>3, <1>4, <1>5, UpdateFacts
<1>7. \A d \in Client : /\ tcb'[d].fd = tcb[d].fd /\ tcb'[d].snd_nxt = tcb[d].snd_nxt
                        /\ tcb'[d].rcv_nxt = tcb[d].rcv_nxt /\ tcb'[d].rcvbuf = tcb[d].rcvbuf
                        /\ tcb'[d].sndbuf = tcb[d].sndbuf
  BY <1>4, <1>6
<1>8. tcb[c].status = "CLOSE_WAIT" /\ tcb'[c].status = "LAST_ACK"
  BY <1>1, <1>4, <1>6 DEF TcpInv, ServerInv, Closing
<1>9. t' \in ServerRecord /\ t'.pc = "find" /\ t'.cur = NULL /\ t'.fd = -1
  BY <1>1, <1>2 DEF ServerRecord, Pc
<1> HIDE DEF c
<1>10. Types'
  BY <1>1, <1>6, <1>9 DEF TcpInv, Types, ServerRecord
<1>11. ListInv'
  BY <1>1, <1>6, <1>8 DEF TcpInv, ListInv, Listed
<1>12. ServerInv'
  <2>1. fd_table' = {3, listenfd} \cup ({-1} \ {-1})
    BY <1>1, <1>2 DEF TcpInv, ServerInv, listenfd
  <2>2. QED
    BY <1>9, <2>1 DEF ServerInv, Working, Receiving, Sending, Closing, Looking
<1>13. InUseInv'
  <2>1. SUFFICES ASSUME ~missed PROVE InUseInv'
    BY <1>1 DEF InUseInv
  <2>2. tcb[c].fd = 5 /\ \A d \in Client : tcb[d].status # "LAST_ACK"
    BY <1>1, <2>1 DEF c, TcpInv, InUseInv, Looking, Working, Closing
  <2>3. \A d \in Client : tcb'[d].status = "LAST_ACK" => tcb'[d].fd = 5
    BY <1>6, <1>7, <2>2
  <2>4. QED
    BY <1>9, <2>3 DEF InUseInv, Working, Receiving, Sending, Closing, Looking
<1>14. SignalInv'
  BY <1>9 DEF SignalInv
<1>15. LineInv'
  <2>1. SUFFICES ASSUME NEW d \in Client PROVE Line(d)'
    BY DEF LineInv
  <2>2. Line(d)
    BY DEF TcpInv, LineInv
  <2>3. CASE d # c
    BY <1>1, <1>6, <2>2, <2>3 DEF Line
  <2>4. CASE d = c
    <3>1. Phase(rin, c, "CLOSE_WAIT", peer[c])
      BY <1>8, <2>2, <2>4 DEF Line
    <3>2. Phase(rin, c, "LAST_ACK", peer[c])
      BY <3>1 DEF Phase
    <3>3. QED
      BY <1>1, <1>7, <1>8, <2>2, <2>4, <3>2 DEF Line
  <2>5. QED
    BY <2>3, <2>4
<1>16. PktInv'
  <2>1. AllOnward
    BY <1>1, <1>3, OnwardSame DEF AllOnward
  <2>2. \A d \in Client :
           /\ tcb[d].status = "ESTABLISHED" => tcb'[d].status = "ESTABLISHED"
           /\ tcb[d].status \in {"CLOSE_WAIT", "LAST_ACK"} =>
                tcb'[d].status \in {"CLOSE_WAIT", "LAST_ACK"}
           /\ peer[d].st \in Finished /\ NoData(rin, d) => NoData(rin', d)
           /\ Started(reads'[d], tcb'[d].rcvbuf) = Started(reads[d], tcb[d].rcvbuf)
    BY <1>1, <1>6, <1>7, <1>8
  <2>3. QED
    BY <1>1, <1>3, <2>1, <2>2, PktKept DEF TcpInv
<1>17. OutInv'
  <2>1. \A d \in Client : tcb[d].status # "none" => tcb'[d].status # "none"
    BY <1>6, <1>8
  <2>2. QED
    BY <1>1, <1>7, <1>10, <2>1, OutKept DEF TcpInv, OutInv
<1>18. ReadInv'
  <2>1. SUFFICES ASSUME NEW d \in Client
                 PROVE  /\ Fragments(tcb'[d].rcvbuf, reads'[d])
                        /\ \A i \in 1 .. Len(reads'[d]) : <<reads'[d][i][1], 0>> \in ToSet(reads'[d])
                        /\ tcb'[d].status \in {"none", "SYN_RCVD", "freed"} => tcb'[d].rcvbuf = <<>>
                        /\ \A i \in 1 .. Len(tcb'[d].rcvbuf) : tcb'[d].rcvbuf[i].len = 0 =>
                             tcb'[d].status = "CLOSE_WAIT" /\ ~(t'.cur = d /\ t'.pc \in Closing)
    BY DEF ReadInv
  <2>2. /\ Fragments(tcb'[d].rcvbuf, reads'[d])
        /\ \A i \in 1 .. Len(reads'[d]) : <<reads'[d][i][1], 0>> \in ToSet(reads'[d])
    BY <1>1, <1>7 DEF TcpInv, ReadInv
  <2>3. tcb'[d].status \in {"none", "SYN_RCVD", "freed"} => tcb'[d].rcvbuf = <<>>
    BY <1>6, <1>7, <1>8 DEF TcpInv, ReadInv
  <2>4. \A i \in 1 .. Len(tcb[d].rcvbuf) : tcb[d].rcvbuf[i].len = 0 =>
          tcb[d].status = "CLOSE_WAIT" /\ d # c
    BY <1>1 DEF TcpInv, ReadInv, Closing, c
  <2>5. QED
    BY <1>6, <1>7, <1>9, <2>2, <2>3, <2>4 DEF Closing
<1>19. ReadOnceInOrder'
  BY <1>1 DEF TcpInv, ReadOnceInOrder
<1>20. QED
  BY <1>10, <1>11, <1>12, <1>13, <1>14, <1>15, <1>16, <1>17, <1>18, <1>19 DEF TcpInv

(* What nrecv has returned for one client. *)
ReadStarts(r) == \A i \in 1 .. Len(r) : <<r[i][1], 0>> \in ToSet(r)

Reading(r) ==
  /\ IsInjective(r)
  /\ \A i \in 1 .. Len(r) :
       LET m == r[i][1]
           off == r[i][2]
       IN \/ off = 0 /\ m = 1
          \/ off = 0 /\ \E j \in 1 .. i - 1 : r[j] = <<m - 1, 0>>
          \/ off > 0 /\ \E j \in 1 .. i - 1 : r[j] = <<m, off - BUFFER_SIZE>>

(* A sequence of reads with one more. *)
More(r, x, nr) ==
  /\ nr \in Seq(Nat \X Nat) /\ Len(nr) = Len(r) + 1 /\ Len(r) \in Nat
  /\ nr[Len(r) + 1] = x /\ \A i \in 1 .. Len(r) : nr[i] = r[i]
  /\ \A y : y \in ToSet(nr) <=> y \in ToSet(r) \/ y = x

(* Its elements. *)
LEMMA ReadMore ==
  ASSUME NEW r \in Seq(Nat \X Nat), NEW x \in Nat \X Nat
  PROVE  More(r, x, Append(r, x))
<1> DEFINE nr == Append(r, x)
<1>1. /\ nr \in Seq(Nat \X Nat) /\ Len(nr) = Len(r) + 1 /\ Len(r) \in Nat
      /\ nr[Len(r) + 1] = x /\ \A i \in 1 .. Len(r) : nr[i] = r[i]
  OBVIOUS
<1> HIDE DEF nr
<1>2. DOMAIN nr = 1 .. Len(r) + 1 /\ DOMAIN r = 1 .. Len(r)
  BY <1>1
<1>3. \A i : i \in 1 .. Len(r) + 1 <=> i \in 1 .. Len(r) \/ i = Len(r) + 1
  BY <1>1
<1>4. ASSUME NEW y
      PROVE  y \in ToSet(nr) <=> y \in ToSet(r) \/ y = x
  <2>1. y \in ToSet(nr) <=> \E i \in 1 .. Len(r) + 1 : y = nr[i]
    BY <1>2 DEF ToSet
  <2>2. y \in ToSet(r) <=> \E i \in 1 .. Len(r) : y = r[i]
    BY <1>2 DEF ToSet
  <2>3. QED
    BY ONLY <1>1, <1>3, <2>1, <2>2
<1>5. QED
  BY <1>1, <1>4 DEF More, nr

(* nrecv takes the first fragment, which has a message in it: a piece that  *)
(* has not been read, after those before it.                                *)
LEMMA ReadNext ==
  ASSUME NEW buf \in Seq(Fragment), buf # <<>>, NEW r \in Seq(Nat \X Nat),
         Fragments(buf, r), ReadStarts(r), Reading(r), buf[1].len > 0,
         NEW nr, More(r, <<buf[1].msg, buf[1].off>>, nr)
  PROVE  ReadStarts(nr) /\ Reading(nr)
<1> DEFINE m == buf[1].msg
           o == buf[1].off
           x == <<m, o>>
<1>1. 1 \in 1 .. Len(buf) /\ buf[1] \in Fragment /\ BUFFER_SIZE \in Nat
  BY ConstantAssumption
<1>2. m \in Nat /\ o \in Nat
  BY <1>1 DEF Fragment
<1>3. x \in Nat \X Nat /\ x[1] = m /\ x[2] = o
  BY <1>2
<1>4. /\ \A k \in 1 .. Len(r) : r[k][1] = m => r[k][2] < o
      /\ o = 0 => m = 1 \/ <<m - 1, 0>> \in ToSet(r)
      /\ o > 0 => <<m, o - BUFFER_SIZE>> \in ToSet(r) /\ <<m, 0>> \in ToSet(r)
  BY <1>1 DEF Fragments
<1>5. More(r, x, nr)
  OBVIOUS
<1> HIDE DEF x, m, o
<1>6. /\ nr \in Seq(Nat \X Nat) /\ Len(nr) = Len(r) + 1 /\ Len(r) \in Nat
      /\ nr[Len(r) + 1] = x /\ (\A i \in 1 .. Len(r) : nr[i] = r[i])
      /\ \A y : y \in ToSet(nr) <=> y \in ToSet(r) \/ y = x
  BY <1>5 DEF More
<1>7. \A i \in 1 .. Len(nr) : i \in 1 .. Len(r) \/ i = Len(r) + 1
  BY <1>6
<1>8. o = 0 => x = <<m, 0>>
  BY DEF x
<1>9. ReadStarts(nr)
  <2>1. <<m, 0>> \in ToSet(nr)
    <3>1. o = 0 \/ o > 0
      BY <1>2
    <3>2. QED
      BY <1>4, <1>6, <1>8, <3>1
  <2>2. nr[Len(r) + 1][1] = m
    BY <1>3, <1>6
  <2>3. ASSUME NEW i \in 1 .. Len(r)
        PROVE  <<nr[i][1], 0>> \in ToSet(nr)
    <3>1. nr[i] = r[i] /\ <<r[i][1], 0>> \in ToSet(r)
      BY <1>6 DEF ReadStarts
    <3>2. QED
      BY <1>6, <3>1
  <2>4. ASSUME NEW i \in 1 .. Len(nr)
        PROVE  <<nr[i][1], 0>> \in ToSet(nr)
    <3>1. CASE i \in 1 .. Len(r)
      BY <2>3, <3>1
    <3>2. CASE i = Len(r) + 1
      <4>1. nr[i][1] = m
        BY <2>2, <3>2
      <4>2. <<nr[i][1], 0>> = <<m, 0>>
        BY <4>1
      <4>3. QED
        BY <2>1, <4>2
    <3>3. QED
      BY <1>7, <3>1, <3>2
  <2>5. QED
    BY <2>4 DEF ReadStarts
<1>10. \A k \in 1 .. Len(r) : r[k] # x
  <2>1. SUFFICES ASSUME NEW k \in 1 .. Len(r), r[k] = x PROVE FALSE
    OBVIOUS
  <2>2. o < o
    BY <1>3, <1>4, <2>1
  <2>3. QED
    BY <1>2, <2>2
<1>11. IsInjective(nr)
  <2>1. DOMAIN nr = 1 .. Len(nr) /\ DOMAIN r = 1 .. Len(r)
    BY <1>6
  <2>2. \A i, j \in 1 .. Len(r) : r[i] = r[j] => i = j
    BY <2>1 DEF Reading, IsInjective
  <2>3. \A i, j \in 1 .. Len(nr) : nr[i] = nr[j] => i = j
    BY <1>6, <1>7, <1>10, <2>2
  <2>4. QED
    BY <2>1, <2>3 DEF IsInjective
<1>12. ASSUME NEW i \in 1 .. Len(r)
       PROVE  \/ nr[i][2] = 0 /\ nr[i][1] = 1
              \/ nr[i][2] = 0 /\ \E j \in 1 .. i - 1 : nr[j] = <<nr[i][1] - 1, 0>>
              \/ nr[i][2] > 0 /\ \E j \in 1 .. i - 1 : nr[j] = <<nr[i][1], nr[i][2] - BUFFER_SIZE>>
  <2>1. \A j \in 1 .. i - 1 : nr[j] = r[j]
    BY <1>6
  <2>2. QED
    BY <1>6, <2>1 DEF Reading
<1>13. /\ o = 0 => m = 1 \/ \E j \in 1 .. Len(r) : nr[j] = <<m - 1, 0>>
       /\ o > 0 => \E j \in 1 .. Len(r) : nr[j] = <<m, o - BUFFER_SIZE>>
  <2>1. \A y \in ToSet(r) : \E j \in 1 .. Len(r) : r[j] = y
    BY DEF ToSet
  <2>2. QED
    BY <1>4, <1>6, <2>1
<1>14. \A i \in 1 .. Len(nr) :
         \/ nr[i][2] = 0 /\ nr[i][1] = 1
         \/ nr[i][2] = 0 /\ \E j \in 1 .. i - 1 : nr[j] = <<nr[i][1] - 1, 0>>
         \/ nr[i][2] > 0 /\ \E j \in 1 .. i - 1 : nr[j] = <<nr[i][1], nr[i][2] - BUFFER_SIZE>>
  <2>1. Len(r) + 1 - 1 = Len(r)
    BY <1>6
  <2>2. o = 0 \/ o > 0
    BY <1>2
  <2>3. /\ nr[Len(r) + 1][1] = m /\ nr[Len(r) + 1][2] = o
    BY <1>3, <1>6
  <2>4. ASSUME NEW i, i = Len(r) + 1
        PROVE  \/ nr[i][2] = 0 /\ nr[i][1] = 1
               \/ nr[i][2] = 0 /\ \E j \in 1 .. i - 1 : nr[j] = <<nr[i][1] - 1, 0>>
               \/ nr[i][2] > 0 /\ \E j \in 1 .. i - 1 : nr[j] = <<nr[i][1], nr[i][2] - BUFFER_SIZE>>
    <3>1. nr[i][1] = m /\ nr[i][2] = o /\ i - 1 = Len(r)
      BY <2>1, <2>3, <2>4
    <3>2. QED
      BY ONLY <1>13, <2>2, <3>1
  <2>5. QED
    BY <1>7, <1>12, <2>4
<1>15. QED
  BY <1>9, <1>11, <1>14 DEF Reading

(* nrecv takes the first fragment: the others move up, and what it cut off  *)
(* comes last.                                                              *)
Taken(buf, nb, r, nr) ==
  /\ nb \in Seq(Fragment) /\ Len(buf) \in Nat \ {0} /\ Len(nb) \in {Len(buf) - 1, Len(buf)}
  /\ \A i \in 1 .. Len(buf) - 1 : nb[i] = buf[i + 1]
  /\ Len(nb) = Len(buf) =>
       /\ nb[Len(buf)].msg = buf[1].msg /\ nb[Len(buf)].off = buf[1].off + BUFFER_SIZE
       /\ nb[Len(buf)].len > 0 /\ buf[1].len > 0
  /\ buf[1].len > 0 => More(r, <<buf[1].msg, buf[1].off>>, nr)
  /\ buf[1].len = 0 => nr = r

(* Which places are which, and what has been read only grows. *)
LEMMA TakenFacts ==
  ASSUME NEW buf \in Seq(Fragment), NEW nb, NEW r \in Seq(Nat \X Nat), NEW nr,
         Taken(buf, nb, r, nr)
  PROVE  /\ \A i \in 1 .. Len(nb) :
              \/ i \in 1 .. Len(buf) - 1 /\ i + 1 \in 1 .. Len(buf) /\ nb[i] = buf[i + 1]
              \/ i = Len(buf) /\ Len(nb) = Len(buf)
         /\ \A i \in 1 .. Len(buf) : i # 1 =>
              i - 1 \in 1 .. Len(buf) - 1 /\ i - 1 \in 1 .. Len(nb) /\ nb[i - 1] = buf[i]
         /\ 1 \in 1 .. Len(buf) /\ ToSet(r) \subseteq ToSet(nr)
         /\ \A i \in 1 .. Len(buf) : buf[i].msg \in Nat /\ buf[i].off \in Nat /\ buf[i].len \in Nat
         /\ BUFFER_SIZE \in Nat \ {0}
<1>1. /\ Len(buf) \in Nat \ {0} /\ Len(nb) \in {Len(buf) - 1, Len(buf)}
      /\ \A i \in 1 .. Len(buf) - 1 : nb[i] = buf[i + 1]
  BY DEF Taken
<1>2. \A i \in 1 .. Len(nb) :
        \/ i \in 1 .. Len(buf) - 1 /\ i + 1 \in 1 .. Len(buf) /\ nb[i] = buf[i + 1]
        \/ i = Len(buf) /\ Len(nb) = Len(buf)
  BY <1>1
<1>3. ASSUME NEW i \in 1 .. Len(buf), i # 1
      PROVE  i - 1 \in 1 .. Len(buf) - 1 /\ i - 1 \in 1 .. Len(nb) /\ nb[i - 1] = buf[i]
  <2>1. i - 1 \in 1 .. Len(buf) - 1 /\ i - 1 \in 1 .. Len(nb) /\ i - 1 + 1 = i
    BY <1>1, <1>3
  <2>2. QED
    BY <1>1, <2>1
<1>4. \A i \in 1 .. Len(buf) : buf[i].msg \in Nat /\ buf[i].off \in Nat /\ buf[i].len \in Nat
  <2>1. \A i \in 1 .. Len(buf) : buf[i] \in Fragment
    OBVIOUS
  <2>2. QED
    BY <2>1 DEF Fragment
<1>5. 1 \in 1 .. Len(buf)
  BY <1>1
<1>6. ToSet(r) \subseteq ToSet(nr)
  <2>1. buf[1].len > 0 \/ buf[1].len = 0
    BY <1>4, <1>5
  <2>2. QED
    BY <2>1 DEF Taken, More
<1>7. QED
  BY <1>2, <1>3, <1>4, <1>5, <1>6, ConstantAssumption

(* What is left is in order with what has been read. *)
LEMMA TakenFragments ==
  ASSUME NEW buf \in Seq(Fragment), NEW nb, NEW r \in Seq(Nat \X Nat), NEW nr,
         Taken(buf, nb, r, nr), Fragments(buf, r)
  PROVE  Fragments(nb, nr)
<1> DEFINE n == Len(buf)
           Old(i) == i \in 1 .. n - 1 /\ i + 1 \in 1 .. n /\ nb[i] = buf[i + 1]
           Cut(i) == i = n /\ Len(nb) = n
<1>1. \A i \in 1 .. Len(nb) : Old(i) \/ Cut(i)
  BY TakenFacts
<1>2. 1 \in 1 .. n /\ n \in Nat \ {0}
  BY TakenFacts DEF Taken
<1>3. \A i \in 1 .. n : buf[i].msg \in Nat /\ buf[i].off \in Nat /\ buf[i].len \in Nat
  BY TakenFacts
<1>4. ToSet(r) \subseteq ToSet(nr) /\ BUFFER_SIZE \in Nat \ {0}
  BY TakenFacts
<1>5. \A i \in 1 .. Len(nb) : Cut(i) =>
        /\ nb[i].msg = buf[1].msg /\ nb[i].off = buf[1].off + BUFFER_SIZE
        /\ nb[i].len > 0 /\ buf[1].len > 0
  BY DEF Taken
<1>6. \A i : Old(i) => i + 1 # 1 /\ i \in Nat
  BY <1>2
<1>7. buf[1].len > 0 => More(r, <<buf[1].msg, buf[1].off>>, nr)
  BY DEF Taken
<1>8. buf[1].len = 0 => nr = r
  BY DEF Taken
<1>9. buf[1].len = 0 \/ buf[1].len > 0
  BY <1>2, <1>3
<1>10. buf[1].len > 0 => <<buf[1].msg, buf[1].off>> \in ToSet(nr)
  BY <1>7 DEF More
<1>11. \A q \in 1 .. n : q # 1 => nb[q - 1] = buf[q]
  <2>1. ASSUME NEW q \in 1 .. n, q # 1
        PROVE  nb[q - 1] = buf[q]
    <3>1. \A i \in 1 .. n - 1 : nb[i] = buf[i + 1]
      BY DEF Taken
    <3>2. q - 1 \in 1 .. n - 1 /\ (q - 1) + 1 = q
      BY <1>2, <2>1
    <3> HIDE DEF n
    <3>3. QED
      BY ONLY <3>1, <3>2
  <2>2. QED
    BY <2>1
<1> HIDE DEF n, Old, Cut
<1>12. ASSUME NEW i \in 1 .. Len(nb), NEW j \in 1 .. Len(nb), i # j
       PROVE  /\ nb[i].len > 0 \/ nb[j].len > 0
              /\ nb[i].len > 0 /\ nb[j].len > 0 => nb[i].msg # nb[j].msg
  <2>1. CASE Cut(i) /\ Cut(j)
    BY <1>12, <2>1 DEF Cut
  <2>2. CASE Cut(i) /\ Old(j)
    <3>1. nb[i].msg = buf[1].msg /\ nb[i].len > 0 /\ buf[1].len > 0
      BY <1>5, <2>2
    <3>2. nb[j] = buf[j + 1] /\ j + 1 \in 1 .. n /\ j + 1 # 1
      BY <1>6, <2>2 DEF Old
    <3>3. buf[j + 1].len > 0 => buf[1].msg # buf[j + 1].msg
      BY <1>2, <3>1, <3>2 DEF Fragments, n
    <3>4. QED
      BY <3>1, <3>2, <3>3
  <2>3. CASE Old(i) /\ Cut(j)
    <3>1. nb[j].msg = buf[1].msg /\ nb[j].len > 0 /\ buf[1].len > 0
      BY <1>5, <2>3
    <3>2. nb[i] = buf[i + 1] /\ i + 1 \in 1 .. n /\ i + 1 # 1
      BY <1>6, <2>3 DEF Old
    <3>3. buf[i + 1].len > 0 => buf[1].msg # buf[i + 1].msg
      BY <1>2, <3>1, <3>2 DEF Fragments, n
    <3>4. QED
      BY <3>1, <3>2, <3>3
  <2>4. CASE Old(i) /\ Old(j)
    <3>1. nb[i] = buf[i + 1] /\ i + 1 \in 1 .. n /\ nb[j] = buf[j + 1] /\ j + 1 \in 1 .. n
      BY <2>4 DEF Old
    <3>2. i + 1 # j + 1
      BY <1>6, <1>12, <2>4
    <3>3. QED
      BY <3>1, <3>2 DEF Fragments, n
  <2>5. QED
    BY <1>1, <2>1, <2>2, <2>3, <2>4
<1>13. ASSUME NEW i \in 1 .. Len(nb), nb[i].len > 0, NEW k \in 1 .. Len(nr), nr[k][1] = nb[i].msg
       PROVE  nr[k][2] < nb[i].off
  <2>1. \/ k \in 1 .. Len(r) /\ nr[k] = r[k]
        \/ buf[1].len > 0 /\ nr[k] = <<buf[1].msg, buf[1].off>>
    <3>1. CASE buf[1].len = 0
      BY <1>8, <3>1
    <3>2. CASE buf[1].len > 0
      <4>1. /\ Len(nr) = Len(r) + 1 /\ Len(r) \in Nat /\ nr[Len(r) + 1] = <<buf[1].msg, buf[1].off>>
            /\ \A q \in 1 .. Len(r) : nr[q] = r[q]
        BY <1>7, <3>2 DEF More
      <4>2. k \in 1 .. Len(r) \/ k = Len(r) + 1
        BY <4>1
      <4>3. QED
        BY <3>2, <4>1, <4>2
    <3>3. QED
      BY <1>9, <3>1, <3>2
  <2>2. CASE Old(i)
    <3>1. nb[i] = buf[i + 1] /\ i + 1 \in 1 .. n /\ i + 1 # 1
      BY <1>6, <2>2 DEF Old
    <3>2. buf[1].len > 0 => buf[1].msg # buf[i + 1].msg
      BY <1>2, <1>13, <3>1 DEF Fragments, n
    <3>3. k \in 1 .. Len(r) /\ nr[k] = r[k]
      BY <1>13, <2>1, <3>1, <3>2
    <3>4. QED
      BY <1>13, <3>1, <3>3 DEF Fragments, n
  <2>3. CASE Cut(i)
    <3>1. nb[i].msg = buf[1].msg /\ nb[i].off = buf[1].off + BUFFER_SIZE /\ buf[1].len > 0
      BY <1>5, <2>3
    <3>2. buf[1].off \in Nat
      BY <1>2, <1>3
    <3>3. CASE nr[k] = <<buf[1].msg, buf[1].off>>
      BY <1>4, <3>1, <3>2, <3>3
    <3>4. CASE k \in 1 .. Len(r) /\ nr[k] = r[k]
      <4>1. r[k][2] < buf[1].off
        BY <1>2, <1>13, <3>1, <3>4 DEF Fragments, n
      <4>2. r[k][2] \in Nat
        BY <3>4
      <4>3. r[k][2] < buf[1].off + BUFFER_SIZE
        <5> DEFINE x == r[k][2]
                   o == buf[1].off
        <5>1. x \in Nat /\ o \in Nat /\ BUFFER_SIZE \in Nat /\ x < o
          BY <1>4, <3>2, <4>1, <4>2
        <5> HIDE DEF x, o
        <5>2. x < o + BUFFER_SIZE
          BY ONLY <5>1
        <5>3. QED
          BY <5>2 DEF x, o
      <4>4. QED
        BY <3>1, <3>4, <4>3
    <3>5. QED
      BY <2>1, <3>3, <3>4
  <2>4. QED
    BY <1>1, <2>2, <2>3
<1>14. ASSUME NEW i \in 1 .. Len(nb), nb[i].len > 0, nb[i].off = 0
       PROVE  \/ nb[i].msg = 1 \/ <<nb[i].msg - 1, 0>> \in ToSet(nr)
              \/ \E j \in 1 .. i - 1 : nb[j].msg = nb[i].msg - 1 /\ nb[j].off = 0 /\ nb[j].len > 0
  <2>1. Old(i)
    <3>1. SUFFICES ASSUME Cut(i) PROVE FALSE
      BY <1>1
    <3>2. nb[i].off = buf[1].off + BUFFER_SIZE
      BY <1>5, <3>1
    <3>3. buf[1].off \in Nat
      BY <1>2, <1>3
    <3>4. QED
      BY ONLY <1>4, <1>14, <3>2, <3>3
  <2>2. nb[i] = buf[i + 1] /\ i + 1 \in 1 .. n /\ i + 1 # 1 /\ i \in Nat /\ i + 1 - 1 = i
    BY <1>6, <2>1 DEF Old
  <2>3. \/ buf[i + 1].msg = 1 \/ <<buf[i + 1].msg - 1, 0>> \in ToSet(r)
        \/ \E j \in 1 .. i : buf[j].msg = buf[i + 1].msg - 1 /\ buf[j].off = 0 /\ buf[j].len > 0
    <3>1. buf[i + 1].len > 0 /\ buf[i + 1].off = 0
      BY <1>14, <2>2
    <3>2. \/ buf[i + 1].msg = 1 \/ <<buf[i + 1].msg - 1, 0>> \in ToSet(r)
          \/ \E j \in 1 .. (i + 1) - 1 :
               buf[j].msg = buf[i + 1].msg - 1 /\ buf[j].off = 0 /\ buf[j].len > 0
      BY <2>2, <3>1 DEF Fragments, n
    <3>3. QED
      BY <2>2, <3>2
  <2>4. ASSUME NEW j \in 1 .. i, buf[j].msg = buf[i + 1].msg - 1, buf[j].off = 0, buf[j].len > 0
        PROVE  \/ <<nb[i].msg - 1, 0>> \in ToSet(nr)
               \/ \E k \in 1 .. i - 1 : nb[k].msg = nb[i].msg - 1 /\ nb[k].off = 0 /\ nb[k].len > 0
    <3>1. CASE j = 1
      <4>1. <<buf[1].msg, buf[1].off>> \in ToSet(nr)
        BY <1>10, <2>4, <3>1
      <4>2. <<buf[1].msg, buf[1].off>> = <<nb[i].msg - 1, 0>>
        BY <2>2, <2>4, <3>1
      <4>3. QED
        BY <4>1, <4>2
    <3>2. CASE j # 1
      <4>1. j \in 1 .. n /\ j - 1 \in 1 .. i - 1
        BY <1>2, <2>2, <3>2
      <4>2. nb[j - 1] = buf[j]
        BY <1>11, <3>2, <4>1
      <4>3. QED
        BY <2>2, <2>4, <4>1, <4>2
    <3>3. QED
      BY <3>1, <3>2
  <2>5. QED
    BY <1>4, <2>2, <2>3, <2>4
<1>15. ASSUME NEW i \in 1 .. Len(nb), nb[i].len > 0, nb[i].off > 0
       PROVE  /\ <<nb[i].msg, nb[i].off - BUFFER_SIZE>> \in ToSet(nr)
              /\ <<nb[i].msg, 0>> \in ToSet(nr)
  <2>1. CASE Old(i)
    <3>1. nb[i] = buf[i + 1] /\ i + 1 \in 1 .. n
      BY <2>1 DEF Old
    <3>2. QED
      BY <1>4, <1>15, <3>1 DEF Fragments, n
  <2>2. CASE Cut(i)
    <3>1. nb[i].msg = buf[1].msg /\ nb[i].off = buf[1].off + BUFFER_SIZE /\ buf[1].len > 0
      BY <1>5, <2>2
    <3>2. buf[1].off \in Nat
      BY <1>2, <1>3
    <3>3. nb[i].off - BUFFER_SIZE = buf[1].off
      BY <1>4, <3>1, <3>2
    <3>4. <<nb[i].msg, nb[i].off - BUFFER_SIZE>> \in ToSet(nr)
      BY <1>10, <3>1, <3>3
    <3>5. CASE buf[1].off = 0
      BY <3>1, <3>3, <3>4, <3>5
    <3>6. CASE buf[1].off > 0
      BY <1>2, <1>4, <3>1, <3>4, <3>6 DEF Fragments, n
    <3>7. QED
      BY <3>2, <3>5, <3>6
  <2>3. QED
    BY <1>1, <2>1, <2>2
<1>16. QED
  BY <1>12, <1>13, <1>14, <1>15 DEF Fragments

(* The beginning of a message goes from rcvbuf to what has been read. *)
LEMMA TakenStarted ==
  ASSUME NEW buf \in Seq(Fragment), NEW nb, NEW r \in Seq(Nat \X Nat), NEW nr,
         Taken(buf, nb, r, nr)
  PROVE  Started(nr, nb) = Started(r, buf)
<1> DEFINE n == Len(buf)
           Here(b, m) == \E i \in 1 .. Len(b) : b[i].msg = m /\ b[i].off = 0 /\ b[i].len > 0
<1>1. \A i \in 1 .. Len(nb) : \/ i + 1 \in 1 .. n /\ nb[i] = buf[i + 1]
                              \/ i = n /\ Len(nb) = n
  BY TakenFacts
<1>2. 1 \in 1 .. n /\ \A i \in 1 .. n : i # 1 => i - 1 \in 1 .. Len(nb) /\ nb[i - 1] = buf[i]
  <2>1. /\ n \in Nat \ {0} /\ Len(nb) \in {n - 1, n} /\ \A i \in 1 .. n - 1 : nb[i] = buf[i + 1]
    BY DEF Taken
  <2>2. ASSUME NEW i \in 1 .. n, i # 1
        PROVE  i - 1 \in 1 .. Len(nb) /\ nb[i - 1] = buf[i]
    <3>1. i - 1 \in 1 .. Len(nb) /\ i - 1 \in 1 .. n - 1 /\ (i - 1) + 1 = i
      BY <2>1, <2>2
    <3> HIDE DEF n
    <3>2. QED
      BY ONLY <2>1, <3>1
  <2>3. QED
    BY <2>1, <2>2
<1>3. ToSet(r) \subseteq ToSet(nr) /\ BUFFER_SIZE \in Nat \ {0}
  BY TakenFacts
<1>4. buf[1].off \in Nat /\ buf[1].len \in Nat
  BY <1>2, TakenFacts
<1>5. Len(nb) = n => nb[n].off = buf[1].off + BUFFER_SIZE
  BY DEF Taken
<1>6. buf[1].len > 0 => \A y : y \in ToSet(nr) <=> y \in ToSet(r) \/ y = <<buf[1].msg, buf[1].off>>
  BY DEF Taken, More
<1>7. buf[1].len = 0 => nr = r
  BY DEF Taken
<1>8. Len(nb) = n => nb[n].off # 0
  BY <1>3, <1>4, <1>5
<1> HIDE DEF n
<1>9. ASSUME NEW m \in Nat
      PROVE  <<m, 0>> \in ToSet(nr) \/ Here(nb, m) <=> <<m, 0>> \in ToSet(r) \/ Here(buf, m)
  <2>1. ASSUME Here(buf, m) PROVE <<m, 0>> \in ToSet(nr) \/ Here(nb, m)
    <3>1. PICK i \in 1 .. n : buf[i].msg = m /\ buf[i].off = 0 /\ buf[i].len > 0
      BY <2>1 DEF n
    <3>2. CASE i = 1
      <4>1. <<buf[1].msg, buf[1].off>> = <<m, 0>> /\ buf[1].len > 0
        BY <3>1, <3>2
      <4>2. QED
        BY <1>6, <4>1
    <3>3. CASE i # 1
      <4>1. i - 1 \in 1 .. Len(nb) /\ nb[i - 1] = buf[i]
        BY <1>2, <3>3
      <4>2. QED
        BY <3>1, <4>1
    <3>4. QED
      BY <3>2, <3>3
  <2>2. ASSUME <<m, 0>> \in ToSet(nr) PROVE <<m, 0>> \in ToSet(r) \/ Here(buf, m)
    <3>1. CASE buf[1].len = 0
      BY <1>7, <2>2, <3>1
    <3>2. CASE buf[1].len > 0 /\ <<m, 0>> = <<buf[1].msg, buf[1].off>>
      <4>1. buf[1].msg = m /\ buf[1].off = 0
        BY <3>2
      <4>2. QED
        BY <1>2, <3>2, <4>1 DEF n
    <3>3. QED
      BY <1>4, <1>6, <2>2, <3>1, <3>2
  <2>3. ASSUME Here(nb, m) PROVE Here(buf, m)
    <3>1. PICK i \in 1 .. Len(nb) : nb[i].msg = m /\ nb[i].off = 0 /\ nb[i].len > 0
      BY <2>3
    <3>2. i + 1 \in 1 .. n /\ nb[i] = buf[i + 1]
      BY <1>1, <1>8, <3>1
    <3>3. QED
      BY <3>1, <3>2 DEF n
  <2> HIDE DEF Here
  <2>4. QED
    BY <1>3, <2>1, <2>2, <2>3
<1>10. QED
  BY <1>9 DEF Started

(* nrecv finds rcvbuf empty and is about to wait. *)
LEMMA HoldStep ==
  ASSUME TcpInv, TakeFragment, tcb[t.cur].rcvbuf = <<>>
  PROVE  TcpInv'
<1>1. /\ t.pc = "try" /\ UNCHANGED <<alive, stack, world, reads>> /\ missed' = missed
      /\ tcb' = tcb /\ tcb_set' = tcb_set /\ fd_table' = fd_table /\ peer' = peer /\ p' = p
      /\ t' = [t EXCEPT !.pc = "hold"]
  BY DEF TakeFragment, ghosts, stack, world
<1>2. t \in ServerRecord /\ missed \in BOOLEAN
  BY ServerTypes
<1>3. t' \in ServerRecord /\ t'.pc = "hold" /\ t'.cur = t.cur /\ t'.fd = t.fd
  BY <1>1, <1>2 DEF ServerRecord, Pc
<1>4. ServerInv'
  BY <1>1, <1>3 DEF TcpInv, ServerInv, Working, Receiving, Sending, Closing, Looking
<1>5. InUseInv'
  BY <1>1, <1>3
  DEF TcpInv, InUseInv, Working, Receiving, Sending, Closing, Looking, Listed
<1>6. SignalInv'
  BY <1>1, <1>3 DEF TcpInv, SignalInv
<1>7. QED
  BY <1>1, <1>2, <1>3, <1>4, <1>5, <1>6, ServerOnly DEF Closing

(* What the sequence operations of nrecv do. *)
LEMMA TakenSteps ==
  ASSUME NEW buf \in Seq(Fragment), buf # <<>>, NEW r \in Seq(Nat \X Nat), NEW nb, NEW nr, NEW over,
         over = buf[1].len - BUFFER_SIZE,
         nb = IF over > 0
              THEN Append(Tail(buf), Received(buf[1].msg, buf[1].off + BUFFER_SIZE, over))
              ELSE Tail(buf),
         nr = IF buf[1].len = 0 THEN r ELSE Append(r, <<buf[1].msg, buf[1].off>>)
  PROVE  Taken(buf, nb, r, nr)
<1> DEFINE f == buf[1]
           y == Received(f.msg, f.off + BUFFER_SIZE, over)
           x == <<f.msg, f.off>>
           rest == Tail(buf)
<1>1. Len(buf) \in Nat \ {0} /\ f \in Fragment /\ BUFFER_SIZE \in Nat \ {0}
  BY ConstantAssumption
<1>2. f.msg \in Nat /\ f.off \in Nat /\ f.len \in Nat
  BY <1>1 DEF Fragment
<1>3. rest \in Seq(Fragment) /\ Len(rest) = Len(buf) - 1 /\ \A i \in 1 .. Len(buf) - 1 : rest[i] = buf[i + 1]
  OBVIOUS
<1>4. x \in Nat \X Nat
  BY <1>2
<1>5. nb = IF over > 0 THEN Append(rest, y) ELSE rest
  OBVIOUS
<1>6. nr = IF f.len = 0 THEN r ELSE Append(r, x)
  OBVIOUS
<1>7. over \in Int /\ (over > 0 => f.len > 0 /\ f.len # 0)
  BY ONLY <1>1, <1>2, over = buf[1].len - BUFFER_SIZE
<1>8. over > 0 => /\ y \in Fragment /\ y.msg = f.msg /\ y.off = f.off + BUFFER_SIZE
                  /\ y.len = over
  <2> DEFINE m == f.msg
             o == f.off + BUFFER_SIZE
  <2>1. SUFFICES ASSUME over > 0
                 PROVE  y \in Fragment /\ y.msg = m /\ y.off = o /\ y.len = over
    OBVIOUS
  <2>2. m \in Nat /\ o \in Nat /\ over \in Nat
    BY ONLY <1>1, <1>2, <1>7, <2>1
  <2>3. y = [msg |-> m, off |-> o, len |-> over]
    BY DEF Received
  <2> HIDE DEF m, o, y
  <2>4. QED
    BY ONLY <2>2, <2>3 DEF Fragment
<1> HIDE DEF f, y, x, rest
<1>9. f.len > 0 => More(r, x, nr)
  BY ONLY <1>2, <1>4, <1>6, ReadMore, r \in Seq(Nat \X Nat)
<1>10. CASE over > 0
  <2>1. nb = Append(rest, y) /\ y \in Fragment /\ f.len > 0
    BY <1>5, <1>7, <1>8, <1>10
  <2>2. Len(rest) \in Nat
    BY <1>3
  <2>3. /\ nb \in Seq(Fragment) /\ Len(nb) = Len(rest) + 1 /\ nb[Len(rest) + 1] = y
        /\ \A i \in 1 .. Len(rest) : nb[i] = rest[i]
    BY ONLY <1>3, <2>1, <2>2
  <2>4. Len(rest) + 1 = Len(buf) /\ 1 .. Len(rest) = 1 .. Len(buf) - 1
    BY <1>1, <1>3
  <2>5. nb[Len(buf)] = y /\ Len(nb) = Len(buf) /\ \A i \in 1 .. Len(buf) - 1 : nb[i] = buf[i + 1]
    BY ONLY <1>3, <2>3, <2>4
  <2>6. y.len > 0
    BY <1>8, <1>10
  <2>7. f.len = 0 => nr = r
    BY <1>6
  <2>8. QED
    BY ONLY <1>1, <1>8, <1>9, <1>10, <2>1, <2>3, <2>5, <2>6, <2>7 DEF Taken, f, x
<1>11. CASE ~(over > 0)
  <2>1. nb = rest
    BY <1>5, <1>11
  <2>2. Len(nb) = Len(buf) - 1 /\ Len(nb) # Len(buf)
    BY ONLY <1>1, <1>3, <2>1
  <2>3. f.len = 0 => nr = r
    BY <1>6
  <2>4. QED
    BY ONLY <1>1, <1>3, <1>9, <2>1, <2>2, <2>3 DEF Taken, f, x
<1>12. QED
  BY <1>10, <1>11

(* The reads of every client are in order. *)
LEMMA ReadsInOrder ==
  /\ ReadOnceInOrder <=> \A c \in Client : Reading(reads[c])
  /\ ReadOnceInOrder' <=> \A c \in Client : Reading(reads'[c])
BY DEF ReadOnceInOrder, Reading

(* nrecv takes a fragment, to echo it or, when it is the empty one of the   *)
(* FIN, to close.                                                           *)
LEMMA TakeFragmentStep ==
  ASSUME TcpInv, TakeFragment
  PROVE  TcpInv'
<1> DEFINE c == t.cur
           buf == tcb[c].rcvbuf
           f == buf[1]
           over == f.len - BUFFER_SIZE
           nb == IF over > 0 THEN Append(Tail(buf), Received(f.msg, f.off + BUFFER_SIZE, over))
                             ELSE Tail(buf)
           nr == IF f.len = 0 THEN reads[c] ELSE Append(reads[c], <<f.msg, f.off>>)
           r == [tcb[c] EXCEPT !.rcvbuf = nb]
<1>1. SUFFICES ASSUME buf # <<>> PROVE TcpInv'
  BY HoldStep
<1>2. t \in ServerRecord /\ c \in Client /\ t.pc = "try"
  BY ServerTypes DEF Working, Receiving, TakeFragment
<1>3. /\ tcb[c] \in Stream /\ tcb \in [Client -> Stream] /\ peer \in [Client -> PeerEnd]
      /\ reads \in [Client -> Seq(Nat \X Nat)] /\ reads[c] \in Seq(Nat \X Nat)
      /\ buf \in Seq(Fragment)
  BY <1>2, StreamFields DEF TcpInv, Types
<1>4. Head(buf) = f /\ f \in Fragment /\ 1 \in 1 .. Len(buf)
  BY <1>1, <1>3
<1>5. f.len \in Nat
  BY ONLY <1>4, SMTT(30) DEF Fragment
<1>6. /\ t' = [t EXCEPT !.pc = IF f.len = 0 THEN "close_numbers" ELSE "send_ack",
                        !.len = IF over > 0 THEN over ELSE f.len]
      /\ tcb' = [tcb EXCEPT ![c].rcvbuf = nb]
      /\ reads' = IF f.len = 0 THEN reads ELSE [reads EXCEPT ![c] = Append(@, <<f.msg, f.off>>)]
      /\ rin' = rin /\ rout' = rout /\ arp' = arp /\ tcb_set' = tcb_set /\ fd_table' = fd_table
      /\ p' = p /\ peer' = peer /\ script' = script /\ alive' = alive /\ missed' = missed
  BY <1>1, <1>4 DEF TakeFragment, world
<1>7. tcb' = [tcb EXCEPT ![c] = r]
  BY ONLY <1>6, SMTT(30)
<1>8. reads' = [reads EXCEPT ![c] = nr]
  BY <1>2, <1>3, <1>6
<1>9. Taken(buf, nb, reads[c], nr)
  BY <1>1, <1>3, TakenSteps
<1> HIDE DEF nb, nr
<1>10. nb \in Seq(Fragment)
  BY <1>9 DEF Taken
<1>11. /\ r \in Stream /\ r.fd = tcb[c].fd /\ r.status = tcb[c].status /\ r.snd_nxt = tcb[c].snd_nxt
       /\ r.rcv_nxt = tcb[c].rcv_nxt /\ r.rcvbuf = nb /\ r.sndbuf = tcb[c].sndbuf
  BY <1>3, <1>10 DEF Stream
<1> HIDE DEF r
<1>12. /\ tcb' \in [Client -> Stream] /\ tcb'[c] = r /\ \A d \in Client : d # c => tcb'[d] = tcb[d]
  BY <1>2, <1>3, <1>7, <1>11, UpdateFacts
<1>13. nr \in Seq(Nat \X Nat)
  <2>1. f.len = 0 \/ f.len > 0
    BY <1>5
  <2>2. QED
    BY <1>3, <1>9, <2>1 DEF Taken, More
<1>14. /\ reads' \in [Client -> Seq(Nat \X Nat)] /\ reads'[c] = nr
       /\ \A d \in Client : d # c => reads'[d] = reads[d]
  BY <1>2, <1>3, <1>8, <1>13
<1>15. \A d \in Client : /\ tcb'[d].fd = tcb[d].fd /\ tcb'[d].snd_nxt = tcb[d].snd_nxt
                         /\ tcb'[d].rcv_nxt = tcb[d].rcv_nxt /\ tcb'[d].status = tcb[d].status
                         /\ tcb'[d].sndbuf = tcb[d].sndbuf
  BY <1>11, <1>12
<1>16. \A d \in Client : Started(reads'[d], tcb'[d].rcvbuf) = Started(reads[d], tcb[d].rcvbuf)
  <2>1. Started(nr, nb) = Started(reads[c], buf)
    BY <1>3, <1>9, TakenStarted
  <2>2. QED
    BY <1>11, <1>12, <1>14, <2>1
<1>17. /\ t' \in ServerRecord /\ t'.cur = c /\ t'.fd = t.fd
       /\ t'.pc = IF f.len = 0 THEN "close_numbers" ELSE "send_ack"
  <2> DEFINE pc == IF f.len = 0 THEN "close_numbers" ELSE "send_ack"
             len == IF over > 0 THEN over ELSE f.len
  <2>1. over \in Int
    BY <1>5, ConstantAssumption
  <2>2. pc \in Pc /\ len \in Nat
    BY <1>5, <2>1 DEF Pc
  <2>3. t' = [t EXCEPT !.pc = pc, !.len = len]
    BY <1>6
  <2> HIDE DEF pc, len
  <2>4. t' \in ServerRecord /\ t'.cur = c /\ t'.fd = t.fd /\ t'.pc = pc
    BY <1>2, <2>2, <2>3 DEF ServerRecord
  <2>5. QED
    BY <2>4 DEF pc
<1>18. /\ tcb[c].status \notin {"none", "SYN_RCVD", "freed"}
       /\ f.len = 0 => tcb[c].status = "CLOSE_WAIT"
       /\ Fragments(buf, reads[c]) /\ ReadStarts(reads[c]) /\ Reading(reads[c])
  BY <1>1, <1>2, <1>4, ReadsInOrder DEF TcpInv, ReadInv, ReadStarts
<1>19. c # NULL
  BY <1>2, Apart
<1> HIDE DEF c, f
<1>20. Types'
  BY <1>6, <1>12, <1>14, <1>17 DEF TcpInv, Types, ServerRecord
<1>21. ListInv'
  BY <1>6, <1>15, ListKept DEF TcpInv, StatusKept
<1>22. ServerInv'
  BY <1>2, <1>6, <1>15, <1>17, <1>18, <1>19
  DEF TcpInv, ServerInv, Working, Receiving, Sending, Closing, Looking
<1>23. InUseInv'
  <2>1. SUFFICES ASSUME ~missed PROVE InUseInv'
    BY <1>6 DEF InUseInv
  <2>2. t.fd = 5 /\ Listed(c) /\ tcb[c].fd = 5 /\ \A d \in Client : tcb[d].status # "LAST_ACK"
    BY <1>2, <1>19, <2>1 DEF TcpInv, InUseInv, Working, Receiving, Sending, Closing, Looking, c
  <2>3. \A d \in Client : tcb'[d].status # "LAST_ACK"
    BY <1>15, <2>2
  <2>4. tcb_set' = <<c, Listener>> /\ tcb'[c].fd = 5
    BY <1>2, <1>6, <1>15, <2>2 DEF Listed
  <2>5. tcb_set' = <<t'.cur, Listener>> /\ tcb'[t'.cur].fd = 5 /\ t'.fd = 5
    BY <1>17, <2>2, <2>4
  <2>6. QED
    BY <2>3, <2>5 DEF InUseInv, Listed
<1>24. SignalInv'
  BY <1>17 DEF SignalInv
<1>25. LineInv'
  <2>1. SUFFICES ASSUME NEW d \in Client PROVE Line(d)'
    BY DEF LineInv
  <2>2. Line(d)
    BY DEF TcpInv, LineInv
  <2>3. QED
    BY <1>6, <1>15, <1>16, <2>2 DEF Line
<1>26. PktInv'
  <2>1. AllOnward
    BY <1>3, <1>6, OnwardSame DEF AllOnward
  <2>2. \A d \in Client :
           /\ tcb[d].status = "ESTABLISHED" => tcb'[d].status = "ESTABLISHED"
           /\ tcb[d].status \in {"CLOSE_WAIT", "LAST_ACK"} =>
                tcb'[d].status \in {"CLOSE_WAIT", "LAST_ACK"}
           /\ peer[d].st \in Finished /\ NoData(rin, d) => NoData(rin', d)
           /\ Started(reads'[d], tcb'[d].rcvbuf) = Started(reads[d], tcb[d].rcvbuf)
    BY <1>6, <1>15, <1>16
  <2>3. QED
    BY <1>3, <1>6, <2>1, <2>2, PktKept DEF TcpInv
<1>27. OutInv'
  BY <1>6, <1>15, <1>20, OutKept DEF TcpInv, OutInv
<1>28. f.len > 0 => ReadStarts(nr) /\ Reading(nr)
  <2>1. f.len > 0 => More(reads[c], <<buf[1].msg, buf[1].off>>, nr)
    BY <1>9 DEF Taken, f
  <2>2. QED
    BY <1>1, <1>3, <1>18, <2>1, ReadNext DEF f
<1>29. ReadStarts(nr) /\ Reading(nr) /\ Fragments(nb, nr)
  <2>1. f.len = 0 => nr = reads[c]
    BY DEF nr
  <2>2. f.len = 0 \/ f.len > 0
    BY <1>5
  <2>3. Fragments(nb, nr)
    BY <1>3, <1>9, <1>18, TakenFragments
  <2>4. QED
    BY <1>18, <1>28, <2>1, <2>2, <2>3
<1>30. ASSUME NEW i \in 1 .. Len(nb), nb[i].len = 0
       PROVE  f.len > 0 /\ \E j \in 1 .. Len(buf) : buf[j].len = 0
  <2>1. \/ i \in 1 .. Len(buf) - 1 /\ i + 1 \in 1 .. Len(buf) /\ nb[i] = buf[i + 1]
        \/ i = Len(buf) /\ Len(nb) = Len(buf)
    BY <1>3, <1>9, TakenFacts
  <2>2. Len(nb) = Len(buf) => nb[Len(buf)].len > 0
    BY <1>9 DEF Taken
  <2>3. i + 1 \in 1 .. Len(buf) /\ buf[i + 1].len = 0 /\ i + 1 # 1
    BY <1>30, <2>1, <2>2
  <2>4. buf[1].len > 0
    <3>1. Fragments(buf, reads[c]) /\ 1 \in 1 .. Len(buf)
      BY <1>4, <1>18
    <3> HIDE DEF buf
    <3>2. buf[1].len > 0 \/ buf[i + 1].len > 0
      BY ONLY <2>3, <3>1 DEF Fragments
    <3>3. QED
      BY <2>3, <3>2
  <2>5. QED
    BY <2>3, <2>4 DEF f
<1>31. ReadInv'
  <2>1. SUFFICES ASSUME NEW d \in Client
                 PROVE  /\ Fragments(tcb'[d].rcvbuf, reads'[d])
                        /\ \A i \in 1 .. Len(reads'[d]) : <<reads'[d][i][1], 0>> \in ToSet(reads'[d])
                        /\ tcb'[d].status \in {"none", "SYN_RCVD", "freed"} => tcb'[d].rcvbuf = <<>>
                        /\ \A i \in 1 .. Len(tcb'[d].rcvbuf) : tcb'[d].rcvbuf[i].len = 0 =>
                             tcb'[d].status = "CLOSE_WAIT" /\ ~(t'.cur = d /\ t'.pc \in Closing)
    BY DEF ReadInv
  <2>2. CASE d # c
    BY <1>12, <1>14, <1>17, <2>2 DEF TcpInv, ReadInv
  <2>3. CASE d = c
    <3>1. tcb'[d].rcvbuf = nb /\ reads'[d] = nr /\ tcb'[d].status = tcb[c].status
      BY <1>11, <1>12, <1>14, <2>3
    <3>2. \A i \in 1 .. Len(nb) : nb[i].len = 0 => tcb[c].status = "CLOSE_WAIT" /\ t'.pc \notin Closing
      <4>1. \A j \in 1 .. Len(buf) : buf[j].len = 0 => tcb[c].status = "CLOSE_WAIT"
        BY <1>2 DEF TcpInv, ReadInv
      <4>2. f.len > 0 => t'.pc \notin Closing
        BY <1>17 DEF Closing
      <4>3. QED
        BY <1>30, <4>1, <4>2
    <3>3. QED
      BY <1>18, <1>29, <3>1, <3>2 DEF ReadStarts
  <2>4. QED
    BY <2>2, <2>3
<1>32. ReadOnceInOrder'
  <2>1. \A d \in Client : Reading(reads[d])
    BY ReadsInOrder DEF TcpInv
  <2>2. \A d \in Client : Reading(reads'[d])
    BY <1>14, <1>29, <2>1
  <2>3. QED
    BY <2>2, ReadsInOrder
<1>33. QED
  BY <1>20, <1>21, <1>22, <1>23, <1>24, <1>25, <1>26, <1>27, <1>31, <1>32 DEF TcpInv

PktRecord == [pc : PktPc, seg : Segment \cup {NULL}, part : {"none", "PSH", "FIN"}]

(* A step of pkt_process that writes at most the stream of one client. *)
LEMMA PktWrites ==
  ASSUME TcpInv, NEW c \in Client, NEW r \in Stream, tcb' = [tcb EXCEPT ![c] = r],
         StatusStep(tcb[c].status, r.status), StreamOut(c, tcb', peer, arp),
         UNCHANGED <<alive, arp, fd_table, t, script, peer, reads, missed>>,
         rin' \in Seq(Segment), TcpPeers(rin'),
         \A d \in Client : d # c => \E k \in Int : Shifted(rin, rin', d, k),
         rout' \in Seq(Segment), RingOut(rout', tcb, peer, arp),
         p' \in PktRecord,
         \A d \in Client : d # c => Due(p', d) = Due(p, d) /\ InHand(p', d) = InHand(p, d),
         ListInv', InUseInv', SignalInv', Line(c)', PktInv', ReadInv'
  PROVE  TcpInv'
<1> USE DEF TcpInv
<1>1. /\ alive' = alive /\ arp' = arp /\ fd_table' = fd_table /\ t' = t /\ script' = script
      /\ peer' = peer /\ reads' = reads /\ missed' = missed
  OBVIOUS
<1>2. /\ tcb' \in [Client -> Stream] /\ tcb'[c] = r /\ \A d \in Client : d # c => tcb'[d] = tcb[d]
  <2>1. tcb \in [Client -> Stream] /\ c \in Client /\ r \in Stream /\ tcb' = [tcb EXCEPT ![c] = r]
    BY DEF Types
  <2>2. QED
    BY ONLY <2>1, UpdateFacts
<1>3. peer \in [Client -> PeerEnd] /\ \A d \in Client : peer[d] \in PeerEnd
  BY DEF Types
<1>4. Types'
  BY <1>1, <1>2 DEF Types, PktRecord
<1>5. ServerInv'
  <2>1. PktStatus
    BY <1>2 DEF PktStatus, StatusStep
  <2>2. AllOnward
    BY <1>1, <1>3, OnwardSame DEF AllOnward
  <2>3. QED
    BY <1>1, <1>3, <2>1, <2>2, ServerKept
<1>6. LineInv'
  <2>1. SUFFICES ASSUME NEW d \in Client, d # c PROVE Line(d)'
    BY DEF LineInv
  <2>2. PICK k \in Int : Shifted(rin, rin', d, k)
    BY <2>1
  <2>3. Line(d) /\ tcb[d].rcv_nxt + Due(p, d) \in Nat
    BY DueFacts DEF LineInv
  <2>4. tcb'[d] = tcb[d] /\ Due(p', d) = Due(p, d) /\ InHand(p', d) = InHand(p, d)
    BY <1>2, <2>1
  <2>5. rin \in Seq(Segment) /\ rin' \in Seq(Segment) /\ peer[d] \in PeerEnd /\ peer'[d] = peer[d]
    BY <1>1, <1>3 DEF Types
  <2>6. /\ Started(reads'[d], tcb'[d].rcvbuf) \cup InHand(p', d)
             = Started(reads[d], tcb[d].rcvbuf) \cup InHand(p, d)
        /\ tcb'[d].rcv_nxt + Due(p', d) = tcb[d].rcv_nxt + Due(p, d)
        /\ tcb'[d].status = tcb[d].status
    BY <1>1, <2>4
  <2>7. QED
    BY <2>1, <2>2, <2>3, <2>5, <2>6, LineKept
<1>7. OutInv'
  <2>1. Ahead(tcb, peer, tcb', peer)
    BY <1>2, <1>3, OnwardSame DEF Ahead, StatusStep
  <2>2. RingOut(rout', tcb', peer, arp)
    BY <2>1, RingLater
  <2>3. ASSUME NEW d \in Client, d # c
        PROVE  StreamOut(d, tcb', peer, arp)
    <3>1. tcb'[d] = tcb[d] /\ StreamOut(d, tcb, peer, arp)
      BY <1>2, <2>3 DEF OutInv
    <3>2. peer[d].st \in Opening \/ peer[d].st \notin Opening
      OBVIOUS
    <3>3. tcb \in [Client -> Stream] /\ tcb' \in [Client -> Stream] /\ d \in Client
      BY <1>2 DEF Types
    <3>4. QED
      BY ONLY <2>1, <3>1, <3>2, <3>3, StreamLater
  <2>4. QED
    BY <1>1, <2>2, <2>3 DEF OutInv
<1>8. ReadOnceInOrder'
  BY <1>1 DEF ReadOnceInOrder
<1>9. QED
  BY <1>4, <1>5, <1>6, <1>7, <1>8

(* pkt_process between segments has nothing in its hands. *)
LEMMA Idle ==
  ASSUME NEW q, q.pc \notin Handling, NEW d
  PROVE  Due(q, d) = 0 /\ InHand(q, d) = {}
BY DEF Due, InHand, Handling

(* ng_tcp_process takes the next segment. *)
LEMMA ProcessFacts ==
  ASSUME TcpInv, p.pc = "poll", rin # <<>>, Head(rin).kind = "tcp", rin' = Tail(rin),
         NEW c, c = Head(rin).peer
  PROVE  /\ c \in Client /\ rin \in Seq(Segment) /\ rin' \in Seq(Segment) /\ TcpPeers(rin')
         /\ Popped(rin, rin', c) /\ Head(rin) = rin[1] /\ rin[1] \in Segment
         /\ \A d \in Client : d # c => \E k \in Int : Shifted(rin, rin', d, k)
         /\ 1 \in Of(rin, c) /\ Line(c)
         /\ Forms(rin', c, peer[c]) /\ Form(rin[1], peer[c])
         /\ "FIN" \in rin[1].flags => NoData(rin', c)
         /\ \A d \in Client : Due(p, d) = 0 /\ InHand(p, d) = {}
<1>1. rin \in Seq(Segment) /\ TcpPeers(rin)
  BY DEF TcpInv, Types, OutInv
<1>2. c \in Client /\ rin' \in Seq(Segment) /\ TcpPeers(rin') /\ Head(rin) \in Segment
  BY <1>1, PeersTail
<1>3. Popped(rin, rin', c) /\ Head(rin) = rin[1]
  BY <1>1, PopTail
<1>4. \A d \in Client : d # c => Shifted(rin, rin', d, 1)
  BY <1>1, ShiftTail
<1>5. Line(c)
  BY <1>2 DEF TcpInv, LineInv
<1>6. /\ Forms(rin', c, peer[c]) /\ Form(rin[1], peer[c])
      /\ "FIN" \in rin[1].flags => NoData(rin', c)
  BY <1>1, <1>2, <1>3, <1>5, PopForms DEF Line
<1>7. \A d \in Client : Due(p, d) = 0 /\ InHand(p, d) = {}
  BY Idle DEF Handling
<1>8. 1 \in Of(rin, c) /\ 1 \in Int
  BY <1>3 DEF Popped
<1>9. QED
  BY <1>1, <1>2, <1>3, <1>4, <1>5, <1>6, <1>7, <1>8

(* The segments of a client when one that occupies no number is taken. *)
LEMMA PopLine ==
  ASSUME NEW c \in Client, rin \in Seq(Segment), rin' \in Seq(Segment), Popped(rin, rin', c),
         ~Data(rin[1]), Line(c), peer' = peer, peer[c] \in PeerEnd,
         Phase(rin', c, tcb'[c].status, peer[c]),
         tcb[c].status = "freed" => tcb'[c].status = "freed",
         tcb[c].rcv_nxt + Due(p, c) \in Nat,
         tcb'[c].rcv_nxt + Due(p', c) = tcb[c].rcv_nxt + Due(p, c),
         Started(reads'[c], tcb'[c].rcvbuf) \cup InHand(p', c)
           = Started(reads[c], tcb[c].rcvbuf) \cup InHand(p, c)
  PROVE  Line(c)'
<1>1. peer[c].cnt \in Nat
  BY PeerFields
<1>2. Forms(rin', c, peer[c])
  BY PopForms DEF Line
<1>3. tcb'[c].status # "freed" => Chain(rin', c, tcb[c].rcv_nxt + Due(p, c), peer[c].cnt)
  BY <1>1, PopChainBare DEF Line
<1>4. ~IsPush(rin[1])
  BY DEF IsPush, Data
<1>5. Messages(rin', c, Started(reads[c], tcb[c].rcvbuf) \cup InHand(p, c), peer[c].pushes,
               peer[c].st = "ESTABLISHED")
  BY <1>4, PopMessagesBare DEF Line
<1>6. QED
  BY <1>2, <1>3, <1>5 DEF Line

(* A segment nobody looks at: it occupies no number. *)
LEMMA IgnoredStep ==
  ASSUME TcpInv, ng_tcp_process, NEW c, c = Head(rin).peer, Ignored(c, Head(rin)),
         UNCHANGED <<alive, tcb_set, tcb, p>>
  PROVE  TcpInv'
<1>1. /\ p.pc = "poll" /\ rin # <<>> /\ Head(rin).kind = "tcp" /\ rin' = Tail(rin)
      /\ rout' = rout /\ arp' = arp /\ fd_table' = fd_table /\ t' = t /\ script' = script
      /\ peer' = peer /\ reads' = reads /\ missed' = missed
  BY DEF ng_tcp_process, world, ghosts
<1>2. /\ c \in Client /\ rin \in Seq(Segment) /\ rin' \in Seq(Segment) /\ TcpPeers(rin')
      /\ Popped(rin, rin', c) /\ Head(rin) = rin[1] /\ rin[1] \in Segment
      /\ \A d \in Client : d # c => \E k \in Int : Shifted(rin, rin', d, k)
      /\ 1 \in Of(rin, c) /\ Line(c) /\ Form(rin[1], peer[c])
      /\ \A d \in Client : Due(p, d) = 0 /\ InHand(p, d) = {}
  BY <1>1, ProcessFacts
<1>3. /\ tcb[c] \in Stream /\ tcb \in [Client -> Stream] /\ peer \in [Client -> PeerEnd]
      /\ peer[c] \in PeerEnd /\ p \in PktRecord /\ rout \in Seq(Segment)
  BY <1>2 DEF TcpInv, Types, PktRecord
<1>4. tcb[c].status \in Status
  BY <1>3, StreamFields
<1>5. LET status == IF Listed(c) THEN tcb[c].status ELSE "LISTEN" IN
        rin[1].flags \cap Heeded(status) = {}
  BY <1>2, ListFacts DEF Ignored, TcpInv
<1>6. Phase(rin, c, tcb[c].status, peer[c]) /\ (Listed(c) <=> tcb[c].status \notin {"none", "freed"})
  BY <1>2, ListFacts DEF Line, TcpInv
<1>7. rin[1].flags \in {{"SYN"}, {"ACK"}, {"ACK", "PSH"}, {"ACK", "FIN"}, {"ACK", "PSH", "FIN"}}
  BY <1>2 DEF Form
<1>8. tcb[c].status \notin {"none", "SYN_RCVD"} /\ ~Data(rin[1])
  <2>1. CASE tcb[c].status = "none"
    BY <1>2, <1>5, <1>6, <2>1 DEF Heeded, Phase
  <2>2. CASE tcb[c].status = "SYN_RCVD"
    BY <1>2, <1>5, <1>6, <1>7, <2>2 DEF Heeded, Phase
  <2>3. CASE tcb[c].status = "ESTABLISHED"
    BY <1>2, <1>5, <1>6, <1>7, <2>3 DEF Heeded, Phase, Data
  <2>4. CASE tcb[c].status \in {"CLOSE_WAIT", "LAST_ACK", "freed"}
    BY <1>2, <1>6, <2>4 DEF Phase, NoData
  <2>5. QED
    BY <1>4, <2>1, <2>2, <2>3, <2>4 DEF Status
<1>9. Phase(rin', c, tcb[c].status, peer[c])
  BY <1>2, <1>6, <1>8, PopPhase
<1>10. Line(c)'
  <2>1. tcb[c].rcv_nxt + Due(p, c) \in Nat
    BY <1>2, DueFacts DEF TcpInv
  <2>2. QED
    BY <1>1, <1>2, <1>3, <1>8, <1>9, <2>1, PopLine
<1>11. tcb' = [tcb EXCEPT ![c] = tcb[c]]
  BY <1>2, <1>3
<1>12. ListInv' /\ InUseInv' /\ SignalInv' /\ ReadInv'
  BY <1>1 DEF TcpInv, ListInv, InUseInv, SignalInv, ReadInv, Listed
<1>13. PktInv'
  BY <1>1 DEF PktInv, Handling
<1>14. StreamOut(c, tcb', peer, arp) /\ RingOut(rout', tcb, peer, arp)
  BY <1>1, <1>2 DEF TcpInv, OutInv
<1>15. StatusStep(tcb[c].status, tcb[c].status)
  BY DEF StatusStep
<1>16. \A d \in Client : d # c => Due(p', d) = Due(p, d) /\ InHand(p', d) = InHand(p, d)
  OBVIOUS
<1>17. /\ UNCHANGED <<alive, arp, fd_table, t, script, peer, reads, missed>>
       /\ rout' \in Seq(Segment) /\ p' \in PktRecord
  BY <1>1, <1>3
<1>18. QED
  BY <1>2, <1>3, <1>10, <1>11, <1>12, <1>13, <1>14, <1>15, <1>16, <1>17, PktWrites

(* The acknowledgement of the SYN/ACK: the connection is established. *)
LEMMA EstablishStep ==
  ASSUME TcpInv, ng_tcp_process, NEW c, c = Head(rin).peer,
         ng_tcp_stream_search(c) = c, tcb[c].status = "SYN_RCVD", "ACK" \in Head(rin).flags,
         tcb' = [tcb EXCEPT ![c].status = "ESTABLISHED"],
         p' = [pc |-> "accept", seg |-> Head(rin), part |-> "none"], UNCHANGED <<alive, tcb_set>>
  PROVE  TcpInv'
<1> DEFINE r == [tcb[c] EXCEPT !.status = "ESTABLISHED"]
<1>1. /\ p.pc = "poll" /\ rin # <<>> /\ Head(rin).kind = "tcp" /\ rin' = Tail(rin)
      /\ rout' = rout /\ arp' = arp /\ fd_table' = fd_table /\ t' = t /\ script' = script
      /\ peer' = peer /\ reads' = reads /\ missed' = missed
  BY DEF ng_tcp_process, world, ghosts
<1>2. /\ c \in Client /\ rin \in Seq(Segment) /\ rin' \in Seq(Segment) /\ TcpPeers(rin')
      /\ Popped(rin, rin', c) /\ Head(rin) = rin[1] /\ rin[1] \in Segment
      /\ \A d \in Client : d # c => \E k \in Int : Shifted(rin, rin', d, k)
      /\ 1 \in Of(rin, c) /\ Line(c) /\ Form(rin[1], peer[c])
      /\ \A d \in Client : Due(p, d) = 0 /\ InHand(p, d) = {}
  BY <1>1, ProcessFacts
<1>3. /\ tcb[c] \in Stream /\ tcb \in [Client -> Stream] /\ peer \in [Client -> PeerEnd]
      /\ peer[c] \in PeerEnd /\ rout \in Seq(Segment)
  BY <1>2 DEF TcpInv, Types
<1>4. /\ r \in Stream /\ r.fd = tcb[c].fd /\ r.status = "ESTABLISHED" /\ r.snd_nxt = tcb[c].snd_nxt
      /\ r.rcv_nxt = tcb[c].rcv_nxt /\ r.rcvbuf = tcb[c].rcvbuf /\ r.sndbuf = tcb[c].sndbuf
  BY <1>3 DEF Stream, Status
<1>5. tcb' = [tcb EXCEPT ![c] = r]
  OBVIOUS
<1> HIDE DEF r
<1>6. /\ tcb' \in [Client -> Stream] /\ tcb'[c] = r /\ \A d \in Client : d # c => tcb'[d] = tcb[d]
  BY ONLY <1>2, <1>3, <1>4, <1>5, UpdateFacts
<1>7. p' \in PktRecord /\ p'.pc = "accept" /\ p'.pc \notin Handling
  BY <1>2 DEF PktRecord, PktPc, Handling
<1>8. \A d \in Client : Due(p', d) = 0 /\ InHand(p', d) = {}
  BY <1>7, Idle
<1>9. Phase(rin, c, "SYN_RCVD", peer[c])
  BY <1>2 DEF Line
<1>10. ~Data(rin[1])
  <2>1. \A j \in Of(rin, c) : ~(j < 1)
    BY <1>2, OfFacts
  <2>2. QED
    BY <1>2, <1>9, <2>1 DEF Phase
<1>11. peer[c].st \notin Opening
  BY <1>2 DEF Form
<1>12. Phase(rin', c, "ESTABLISHED", peer[c])
  <2>1. Phase(rin, c, "ESTABLISHED", peer[c])
    BY <1>9, <1>11 DEF Phase
  <2>2. QED
    BY <1>2, <2>1, PopPhase
<1>13. Line(c)'
  <2>1. tcb[c].rcv_nxt + Due(p, c) \in Nat
    BY <1>2, DueFacts DEF TcpInv
  <2>2. Phase(rin', c, tcb'[c].status, peer[c]) /\ tcb[c].status # "freed"
    BY <1>4, <1>6, <1>12
  <2>3. tcb'[c].rcv_nxt + Due(p', c) = tcb[c].rcv_nxt + Due(p, c)
    BY <1>2, <1>4, <1>6, <1>8
  <2>4. Started(reads'[c], tcb'[c].rcvbuf) \cup InHand(p', c)
          = Started(reads[c], tcb[c].rcvbuf) \cup InHand(p, c)
    BY <1>1, <1>2, <1>4, <1>6, <1>8
  <2>5. QED
    BY ONLY <1>1, <1>2, <1>3, <1>10, <2>1, <2>2, <2>3, <2>4, PopLine
<1>14. \A d \in Client : /\ tcb'[d].fd = tcb[d].fd /\ tcb'[d].snd_nxt = tcb[d].snd_nxt
                         /\ tcb'[d].rcv_nxt = tcb[d].rcv_nxt /\ tcb'[d].rcvbuf = tcb[d].rcvbuf
                         /\ tcb'[d].sndbuf = tcb[d].sndbuf
                         /\ tcb'[d].status = "LAST_ACK" => tcb[d].status = "LAST_ACK"
  BY <1>4, <1>6
<1>15. ListInv'
  <2>1. \A d \in Client : tcb'[d].status \in {"none", "freed"} <=> tcb[d].status \in {"none", "freed"}
    BY <1>4, <1>6
  <2>2. QED
    BY <2>1 DEF TcpInv, ListInv, Listed
<1>16. InUseInv'
  BY <1>1, <1>14, InUseKept DEF TcpInv
<1>17. SignalInv'
  <2>1. t.pc \in {"hold", "recv_wait"} => t.cur \in Client
    BY ServerTypes DEF Working, Receiving
  <2>2. t.pc \in {"hold", "recv_wait"} => tcb[t.cur].rcvbuf = <<>>
    BY <1>1 DEF TcpInv, SignalInv
  <2>3. t'.pc \in {"hold", "recv_wait"} => tcb'[t'.cur].rcvbuf = <<>>
    BY <1>1, <1>14, <2>1, <2>2
  <2>4. QED
    BY <1>7, <2>3 DEF SignalInv
<1>18. PktInv'
  BY <1>7 DEF PktInv
<1>19. ReadInv'
  <2>1. \A d \in Client :
           /\ tcb'[d].rcvbuf = tcb[d].rcvbuf
           /\ StatusStep(tcb[d].status, tcb'[d].status)
           /\ tcb'[d].status = "freed" => tcb'[d].rcvbuf = <<>>
           /\ t'.cur = d /\ t'.pc \in Closing => t.cur = d /\ t.pc \in Closing
    BY <1>1, <1>4, <1>6 DEF StatusStep, TcpInv, ReadInv
  <2>2. QED
    BY <1>1, <2>1, ReadKept DEF TcpInv
<1>20. StreamOut(c, tcb', peer, arp) /\ RingOut(rout', tcb, peer, arp)
  <2>1. Ahead(tcb, peer, tcb', peer)
    BY <1>3, <1>4, <1>6, OnwardSame DEF Ahead
  <2>2. (peer[c].st \in Opening \/ peer[c].st \notin Opening) /\ StreamOut(c, tcb, peer, arp)
    BY <1>2 DEF TcpInv, OutInv
  <2>3. StreamOut(c, tcb', peer, arp)
    BY ONLY <1>2, <1>3, <1>4, <1>6, <2>1, <2>2, StreamLater
  <2>4. QED
    BY <1>1, <2>3 DEF TcpInv, OutInv
<1>21. StatusStep(tcb[c].status, r.status)
  BY <1>4 DEF StatusStep
<1>22. \A d \in Client : d # c => Due(p', d) = Due(p, d) /\ InHand(p', d) = InHand(p, d)
  BY <1>2, <1>8
<1>23. /\ UNCHANGED <<alive, arp, fd_table, t, script, peer, reads, missed>>
       /\ rout' \in Seq(Segment)
  BY <1>1, <1>3
<1>24. TcpInv
  OBVIOUS
<1>25. QED
  BY ONLY <1>2, <1>4, <1>5, <1>7, <1>13, <1>15, <1>16, <1>17, <1>18, <1>19, <1>20, <1>21, <1>22,
     <1>23, <1>24, PktWrites

(* Data or a FIN for an established connection: pkt_process takes it in     *)
(* hand, and from now on it is due.                                         *)
LEMMA DataStep ==
  ASSUME TcpInv, ng_tcp_process, NEW c, c = Head(rin).peer,
         ng_tcp_stream_search(c) = c, tcb[c].status = "ESTABLISHED",
         {"PSH", "FIN"} \cap Head(rin).flags # {},
         p' = [pc |-> "enqueue", seg |-> Head(rin),
               part |-> IF "PSH" \in Head(rin).flags THEN "PSH" ELSE "FIN"],
         UNCHANGED <<alive, tcb_set, tcb>>
  PROVE  TcpInv'
<1> DEFINE s == rin[1]
           got == Started(reads[c], tcb[c].rcvbuf)
           n == peer[c].pushes
           open == peer[c].st = "ESTABLISHED"
           need == tcb[c].rcv_nxt
<1>1. /\ p.pc = "poll" /\ rin # <<>> /\ Head(rin).kind = "tcp" /\ rin' = Tail(rin)
      /\ rout' = rout /\ arp' = arp /\ fd_table' = fd_table /\ t' = t /\ script' = script
      /\ peer' = peer /\ reads' = reads /\ missed' = missed
  BY DEF ng_tcp_process, world, ghosts
<1>2. /\ c \in Client /\ rin \in Seq(Segment) /\ rin' \in Seq(Segment) /\ TcpPeers(rin')
      /\ Popped(rin, rin', c) /\ Head(rin) = s /\ s \in Segment
      /\ \A d \in Client : d # c => \E k \in Int : Shifted(rin, rin', d, k)
      /\ 1 \in Of(rin, c) /\ Line(c) /\ Forms(rin', c, peer[c]) /\ Form(s, peer[c])
      /\ "FIN" \in s.flags => NoData(rin', c)
      /\ \A d \in Client : Due(p, d) = 0 /\ InHand(p, d) = {}
  BY <1>1, ProcessFacts
<1>3. /\ tcb[c] \in Stream /\ tcb \in [Client -> Stream] /\ peer \in [Client -> PeerEnd]
      /\ peer[c] \in PeerEnd /\ rout \in Seq(Segment)
  BY <1>2 DEF TcpInv, Types
<1>4. /\ s.flags \in {{"SYN"}, {"ACK"}, {"ACK", "PSH"}, {"ACK", "FIN"}, {"ACK", "PSH", "FIN"}}
      /\ (IsPush(s) => s.len > 0) /\ s.ack <= peer[c].rcv
      /\ "FIN" \in s.flags => peer[c].st \in Finished
  BY <1>2 DEF Form
<1>5. s.cnt \in Nat /\ s.len \in Nat /\ s.msg \in Nat /\ s.flags \in SUBSET Flag
  BY <1>2 DEF Segment
<1>6. s.peer = c
  BY <1>2
<1>7. /\ p' \in PktRecord /\ p'.pc = "enqueue" /\ p'.seg = s
      /\ p'.part = IF IsPush(s) THEN "PSH" ELSE "FIN"
  BY <1>2 DEF PktRecord, PktPc, IsPush
<1>8. Data(s) /\ "SYN" \notin s.flags /\ (~IsPush(s) => "FIN" \in s.flags)
  BY <1>2, <1>4 DEF Data, IsPush
<1>9. need \in Nat /\ peer[c].cnt \in Nat /\ n \in Nat
  BY <1>3, StreamFields, PeerFields
<1>10. need + Due(p, c) = need
  BY <1>2, <1>9
<1>11. Chain(rin, c, need, peer[c].cnt)
  BY <1>2, <1>10 DEF Line
<1>12. s.cnt < EndOf(s) /\ EndOf(s) \in Nat
  BY <1>2, <1>4, <1>8, EndFacts
<1> HIDE DEF need
<1>13. s.cnt = need /\ Chain(rin', c, EndOf(s), peer[c].cnt)
  BY <1>2, <1>8, <1>9, <1>11, <1>12, PopChainData
<1>14. need + Due(p', c) = EndOf(s)
  <2>1. EndOf(s) = s.cnt + Space(IF IsPush(s) THEN s.len ELSE 0, "FIN" \in s.flags)
    BY <1>5, <1>8 DEF EndOf, Space
  <2>2. CASE IsPush(s)
    <3>1. Due(p', c) = Space(s.len, "FIN" \in s.flags)
      BY <1>6, <1>7, <2>2 DEF Due
    <3>2. QED
      BY <1>13, <2>1, <2>2, <3>1
  <2>3. CASE ~IsPush(s)
    <3>1. Due(p', c) = 1
      BY <1>6, <1>7, <2>3 DEF Due
    <3>2. "FIN" \in s.flags
      BY <1>8, <2>3
    <3>3. Space(0, "FIN" \in s.flags) = 1
      BY <3>2 DEF Space
    <3>4. QED
      BY <1>13, <2>1, <2>3, <3>1, <3>3
  <2>4. QED
    BY <2>2, <2>3
<1>15. Phase(rin', c, tcb[c].status, peer[c])
  BY <1>2, PopPhase DEF Line
<1> HIDE DEF n, open, got
<1>16. Messages(rin, c, got, n, open)
  BY <1>2 DEF Line, got, n, open
<1>17. InHand(p', c) = IF IsPush(s) THEN {s.msg} ELSE {}
  BY <1>5, <1>6, <1>7 DEF InHand
<1>18. IsPush(s) => s.msg \in 1 .. n /\ (\A m \in got : m < s.msg) /\ (s.msg = 1 \/ s.msg - 1 \in got)
  BY <1>2, <1>9, <1>16, PopMessagesData
<1>19. Messages(rin', c, got \cup InHand(p', c), n, open)
  <2>1. CASE IsPush(s)
    BY <1>2, <1>9, <1>16, <1>17, <2>1, PopMessagesData
  <2>2. CASE ~IsPush(s)
    <3>1. got \cup InHand(p', c) = got
      BY <1>17, <2>2
    <3>2. Messages(rin', c, got, n, open)
      BY ONLY <1>2, <1>16, <2>2, PopMessagesBare
    <3>3. QED
      BY <3>1, <3>2
  <2>3. QED
    BY <2>1, <2>2
<1>20. Line(c)'
  BY <1>1, <1>2, <1>13, <1>14, <1>15, <1>19 DEF Line, need, got, n, open
<1>21. PktInv'
  <2>1. /\ s \in Segment /\ s.peer \in Client /\ p'.part \in {"PSH", "FIN"} /\ p'.part \in s.flags
        /\ (IsPush(s) => s.len > 0) /\ s.ack <= peer[c].rcv
    BY <1>2, <1>4, <1>6, <1>7, <1>8 DEF IsPush
  <2>2. "FIN" \in s.flags => peer[c].st \in Finished /\ NoData(rin', c)
    BY <1>2, <1>4
  <2>3. p'.part = "PSH" => s.msg > 0 /\ (\A k \in got : k < s.msg) /\ (s.msg = 1 \/ s.msg - 1 \in got)
    BY <1>7, <1>9, <1>18
  <2>4. QED
    BY <1>1, <1>6, <1>7, <2>1, <2>2, <2>3 DEF PktInv, got
<1>22. ListInv' /\ InUseInv' /\ ReadInv'
  BY <1>1 DEF TcpInv, ListInv, InUseInv, ReadInv, Listed
<1>23. SignalInv'
  BY <1>1, SignalQuiet DEF TcpInv, StatusKept
<1>24. StreamOut(c, tcb', peer, arp) /\ RingOut(rout', tcb, peer, arp)
  BY <1>1, <1>2 DEF TcpInv, OutInv
<1>25. StatusStep(tcb[c].status, tcb[c].status)
  BY DEF StatusStep
<1>26. \A d \in Client : d # c => Due(p', d) = Due(p, d) /\ InHand(p', d) = InHand(p, d)
  <2>1. SUFFICES ASSUME NEW d \in Client, d # c PROVE Due(p', d) = 0 /\ InHand(p', d) = {}
    BY <1>2
  <2>2. p'.seg.peer # d
    BY <1>6, <1>7, <2>1
  <2>3. QED
    BY <1>7, <2>2 DEF Due, InHand
<1>27. /\ UNCHANGED <<alive, arp, fd_table, t, script, peer, reads, missed>>
       /\ rout' \in Seq(Segment) /\ tcb' = [tcb EXCEPT ![c] = tcb[c]]
  BY <1>1, <1>2, <1>3
<1>28. TcpInv
  OBVIOUS
<1>29. QED
  BY ONLY <1>2, <1>3, <1>7, <1>20, <1>21, <1>22, <1>23, <1>24, <1>25, <1>26, <1>27, <1>28, PktWrites

(* The acknowledgement of the server's FIN: the stream is freed. *)
LEMMA FreeStep ==
  ASSUME TcpInv, ng_tcp_process, NEW c, c = Head(rin).peer,
         ng_tcp_stream_search(c) = c, ng_tcp_handle_last_ack(c), Poll, UNCHANGED alive
  PROVE  TcpInv'
<1> DEFINE r == [NoStream EXCEPT !.status = "freed"]
<1>1. /\ p.pc = "poll" /\ rin # <<>> /\ Head(rin).kind = "tcp" /\ rin' = Tail(rin)
      /\ rout' = rout /\ arp' = arp /\ fd_table' = fd_table /\ t' = t /\ script' = script
      /\ peer' = peer /\ reads' = reads /\ missed' = missed
      /\ tcb[c].status = "LAST_ACK" /\ tcb_set' = RemoveFirst(tcb_set, c)
      /\ tcb' = [tcb EXCEPT ![c] = r]
  BY DEF ng_tcp_process, ng_tcp_handle_last_ack, world, ghosts
<1>2. /\ c \in Client /\ rin \in Seq(Segment) /\ rin' \in Seq(Segment) /\ TcpPeers(rin')
      /\ Popped(rin, rin', c) /\ Head(rin) = rin[1] /\ rin[1] \in Segment
      /\ \A d \in Client : d # c => \E k \in Int : Shifted(rin, rin', d, k)
      /\ 1 \in Of(rin, c) /\ Line(c) /\ Forms(rin', c, peer[c])
      /\ \A d \in Client : Due(p, d) = 0 /\ InHand(p, d) = {}
  BY <1>1, ProcessFacts
<1>3. /\ tcb[c] \in Stream /\ tcb \in [Client -> Stream] /\ peer \in [Client -> PeerEnd]
      /\ peer[c] \in PeerEnd /\ rout \in Seq(Segment)
  BY <1>2 DEF TcpInv, Types
<1>4. /\ r \in Stream /\ r.fd = -1 /\ r.status = "freed" /\ r.snd_nxt = 0
      /\ r.rcv_nxt = 0 /\ r.rcvbuf = <<>> /\ r.sndbuf = <<>>
  <2> DEFINE e == <<>>
  <2>1. e \in Seq(Segment) /\ e \in Seq(Fragment)
    OBVIOUS
  <2>2. r = [status |-> "freed", fd |-> -1, snd_nxt |-> 0, rcv_nxt |-> 0, sndbuf |-> e, rcvbuf |-> e]
    BY DEF NoStream
  <2> HIDE DEF e, r
  <2>3. /\ r \in Stream /\ r.fd = -1 /\ r.status = "freed" /\ r.snd_nxt = 0
        /\ r.rcv_nxt = 0 /\ r.rcvbuf = e /\ r.sndbuf = e
    BY <2>1, <2>2 DEF Stream, Status
  <2>4. QED
    BY <2>3 DEF e
<1> HIDE DEF r
<1>5. /\ tcb' \in [Client -> Stream] /\ tcb'[c] = r /\ \A d \in Client : d # c => tcb'[d] = tcb[d]
  BY ONLY <1>1, <1>2, <1>3, <1>4, UpdateFacts
<1>6. Listed(c) /\ tcb_set' = <<Listener>>
  BY <1>1, <1>2, ListFacts, ListChange DEF TcpInv, Listed
<1>7. /\ p' \in PktRecord /\ p'.pc = "poll" /\ p'.pc \notin Handling
  BY DEF Poll, PktRecord, PktPc, Handling
<1>8. \A d \in Client : Due(p', d) = 0 /\ InHand(p', d) = {}
  BY <1>7, Idle
<1>9. Phase(rin, c, "LAST_ACK", peer[c])
  BY <1>1, <1>2 DEF Line
<1>10. peer[c].st \in Finished /\ NoData(rin, c)
  BY <1>9 DEF Phase
<1>11. ~IsPush(rin[1]) /\ NoData(rin', c)
  <2>1. ~Data(rin[1])
    BY <1>2, <1>10 DEF NoData
  <2>2. QED
    BY <1>2, <1>10, <2>1, PopNoData DEF Data, IsPush
<1>12. Phase(rin', c, "freed", peer[c])
  <2>1. Phase(rin, c, "freed", peer[c])
    BY <1>9 DEF Phase
  <2>2. QED
    BY <1>2, <2>1, PopPhase
<1>13. Messages(rin', c, Started(reads[c], <<>>), peer[c].pushes, FALSE)
  <2> DEFINE got == Started(reads[c], tcb[c].rcvbuf)
             less == Started(reads[c], <<>>)
             open == peer[c].st = "ESTABLISHED"
  <2>1. less \subseteq got
    BY DEF Started
  <2>2. Messages(rin, c, got, peer[c].pushes, open)
    BY <1>2 DEF Line
  <2> HIDE DEF got, less, open
  <2>3. Messages(rin', c, got, peer[c].pushes, open)
    BY <1>2, <1>11, <2>2, PopMessagesBare
  <2>4. Messages(rin', c, less, peer[c].pushes, FALSE)
    BY <1>2, <1>11, <2>1, <2>3, LessMessages
  <2>5. QED
    BY <2>4 DEF less
<1>14. Line(c)'
  <2>1. (peer[c].st = "ESTABLISHED") = FALSE
    BY <1>10 DEF Finished
  <2>2. Started(reads'[c], tcb'[c].rcvbuf) \cup InHand(p', c) = Started(reads[c], <<>>)
    BY <1>1, <1>2, <1>4, <1>5, <1>8
  <2>3. QED
    BY <1>1, <1>2, <1>4, <1>5, <1>12, <1>13, <2>1, <2>2 DEF Line
<1>15. \A d \in Client : d # c => tcb[d].status \in {"none", "freed"}
  <2>1. \A d \in Client : d # c => ~Listed(d)
    BY <1>2, <1>6, OneListed
  <2>2. QED
    BY <2>1 DEF TcpInv, ListInv
<1>16. ListInv'
  <2>1. \A d \in Client : tcb'[d].status \in {"none", "freed"}
    BY <1>4, <1>5, <1>15
  <2>2. \A d \in Client : tcb_set' # <<d, Listener>>
    BY <1>6
  <2>3. QED
    BY <1>6, <2>1, <2>2 DEF ListInv, Listed
<1>17. InUseInv'
  <2>1. SUFFICES ASSUME ~missed PROVE InUseInv'
    BY <1>1 DEF InUseInv
  <2>2. t.pc \in Looking
    BY <1>1, <1>2, <2>1 DEF TcpInv, InUseInv
  <2>3. t.pc \notin Working /\ t.cur = NULL
    BY <2>2, ServerTypes DEF Looking, Working, Receiving, Sending, Closing
  <2>4. \A d \in Client : tcb'[d].status # "LAST_ACK"
    BY <1>4, <1>5, <1>15
  <2>5. QED
    BY <1>1, <2>2, <2>3, <2>4 DEF InUseInv
<1>18. SignalInv'
  <2>1. t.pc \in {"hold", "recv_wait"} => t.cur \in Client
    BY ServerTypes DEF Working, Receiving
  <2>2. t.pc \in {"hold", "recv_wait"} => tcb[t.cur].rcvbuf = <<>>
    BY <1>1 DEF TcpInv, SignalInv
  <2>3. t'.pc \in {"hold", "recv_wait"} => tcb'[t'.cur].rcvbuf = <<>>
    BY <1>1, <1>4, <1>5, <2>1, <2>2
  <2>4. \A d \in Client : tcb_set' # <<d, Listener>>
    BY <1>6
  <2>5. QED
    BY <2>3, <2>4 DEF SignalInv, Listed
<1>19. PktInv'
  BY <1>7 DEF PktInv
<1>20. ReadInv'
  <2>1. \A d \in Client :
           /\ tcb'[d].rcvbuf = tcb[d].rcvbuf \/ tcb'[d].rcvbuf = <<>>
           /\ StatusStep(tcb[d].status, tcb'[d].status)
           /\ tcb'[d].status = "freed" => tcb'[d].rcvbuf = <<>>
           /\ t'.cur = d /\ t'.pc \in Closing => t.cur = d /\ t.pc \in Closing
    BY <1>1, <1>4, <1>5 DEF StatusStep, TcpInv, ReadInv
  <2>2. QED
    BY <1>1, <2>1, ReadKept DEF TcpInv
<1>21. StreamOut(c, tcb', peer, arp) /\ RingOut(rout', tcb, peer, arp)
  <2>1. c \in arp
    BY <1>2, <1>10 DEF TcpInv, OutInv, StreamOut, Opening, Finished
  <2>2. peer[c].rcv \in Nat /\ peer[c].cnt \in Nat
    BY <1>3, PeerFields
  <2>3. /\ tcb'[c].sndbuf = <<>> /\ tcb'[c].snd_nxt <= peer[c].rcv /\ tcb'[c].rcv_nxt <= peer[c].cnt
    BY <1>4, <1>5, <2>2
  <2>4. StreamOut(c, tcb', peer, arp)
    BY <2>1, <2>3 DEF StreamOut
  <2>5. QED
    BY <1>1, <2>4 DEF TcpInv, OutInv
<1>22. StatusStep(tcb[c].status, r.status)
  BY <1>1, <1>4 DEF StatusStep
<1>23. \A d \in Client : d # c => Due(p', d) = Due(p, d) /\ InHand(p', d) = InHand(p, d)
  BY <1>2, <1>8
<1>24. /\ UNCHANGED <<alive, arp, fd_table, t, script, peer, reads, missed>>
       /\ rout' \in Seq(Segment)
  BY <1>1, <1>3
<1>25. TcpInv
  OBVIOUS
<1>26. QED
  BY ONLY <1>1, <1>2, <1>4, <1>7, <1>14, <1>16, <1>17, <1>18, <1>19, <1>20, <1>21, <1>22, <1>23,
     <1>24, <1>25, PktWrites

(* A stream before its connection. *)
LEMMA EmptyStream ==
  /\ NoStream \in Stream /\ NoStream.fd = -1 /\ NoStream.status = "none" /\ NoStream.snd_nxt = 0
  /\ NoStream.rcv_nxt = 0 /\ NoStream.sndbuf = <<>> /\ NoStream.rcvbuf = <<>>
<1> DEFINE e == <<>>
           z == NoStream
<1>1. e \in Seq(Fragment) /\ e \in Seq(Segment)
  OBVIOUS
<1>2. z = [status |-> "none", fd |-> -1, snd_nxt |-> 0, rcv_nxt |-> 0, sndbuf |-> e, rcvbuf |-> e]
  BY DEF NoStream
<1> HIDE DEF e, z
<1>3. /\ z \in Stream /\ z.fd = -1 /\ z.status = "none" /\ z.snd_nxt = 0
      /\ z.rcv_nxt = 0 /\ z.sndbuf = e /\ z.rcvbuf = e
  BY ONLY <1>1, <1>2 DEF Stream, Status
<1>4. QED
  BY <1>3 DEF e, z

(* A SYN while no other stream exists: a new stream, with its SYN/ACK. *)
LEMMA ListenStep ==
  ASSUME TcpInv, ng_tcp_process, NEW c, c = Head(rin).peer, alive' = alive,
         ng_tcp_stream_search(c) = Listener, "SYN" \in Head(rin).flags,
         tcb_set = <<Listener>>, tcb_set' = Cons(c, tcb_set),
         tcb' = [tcb EXCEPT ![c] =
            [NoStream EXCEPT !.status = "SYN_RCVD", !.snd_nxt = ISS, !.rcv_nxt = Head(rin).seq + 1,
                !.sndbuf = <<Tcp(c, {"SYN", "ACK"}, ISS, Head(rin).seq + 1, 0, 0)>>]],
         Poll
  PROVE  TcpInv'
<1> DEFINE s == rin[1]
           x == Tcp(c, {"SYN", "ACK"}, 0, 1, 0, 0)
           k == Head(rin).seq + 1
           b == <<Tcp(c, {"SYN", "ACK"}, ISS, k, 0, 0)>>
           r == [NoStream EXCEPT !.status = "SYN_RCVD", !.snd_nxt = ISS, !.rcv_nxt = k, !.sndbuf = b]
<1>1. /\ p.pc = "poll" /\ rin # <<>> /\ Head(rin).kind = "tcp" /\ rin' = Tail(rin)
      /\ rout' = rout /\ arp' = arp /\ fd_table' = fd_table /\ t' = t /\ script' = script
      /\ peer' = peer /\ reads' = reads /\ missed' = missed
  BY DEF ng_tcp_process, world, ghosts
<1>2. /\ c \in Client /\ rin \in Seq(Segment) /\ rin' \in Seq(Segment) /\ TcpPeers(rin')
      /\ Popped(rin, rin', c) /\ Head(rin) = s /\ s \in Segment
      /\ \A d \in Client : d # c => \E j \in Int : Shifted(rin, rin', d, j)
      /\ 1 \in Of(rin, c) /\ Line(c) /\ Forms(rin', c, peer[c]) /\ Form(s, peer[c])
      /\ \A d \in Client : Due(p, d) = 0 /\ InHand(p, d) = {}
  BY <1>1, ProcessFacts
<1>3. /\ tcb[c] \in Stream /\ tcb \in [Client -> Stream] /\ peer \in [Client -> PeerEnd]
      /\ peer[c] \in PeerEnd /\ rout \in Seq(Segment)
  BY <1>2 DEF TcpInv, Types
<1>4. /\ s.flags = {"SYN"} /\ (IsPush(s) => s.len > 0) /\ s.seq = 0 /\ s.cnt = 0
  BY <1>2 DEF Form
<1>5. s.seq \in Nat /\ s.len \in Nat
  BY <1>2 DEF Segment
<1>6. ~IsPush(s) /\ Data(s) /\ EndOf(s) = 1
  <2>1. ~IsPush(s) /\ Data(s)
    BY <1>4 DEF IsPush, Data
  <2>2. "FIN" \notin s.flags /\ "SYN" \in s.flags
    BY <1>4
  <2>3. EndOf(s) = 1
    BY <1>4, <2>1, <2>2 DEF EndOf, Space
  <2>4. QED
    BY <2>1, <2>3
<1>7. tcb' = [tcb EXCEPT ![c] = r]
  OBVIOUS
<1>8. x \in Segment /\ x.kind = "tcp" /\ x.peer = c /\ x.ack = 1 /\ x.flags = {"SYN", "ACK"}
  BY <1>2, Apart DEF Tcp, Segment, Kind, Flag
<1>9. /\ r \in Stream /\ r.fd = -1 /\ r.status = "SYN_RCVD" /\ r.snd_nxt = 0
      /\ r.rcv_nxt = 1 /\ r.rcvbuf = <<>> /\ r.sndbuf = <<x>>
  <2> DEFINE z == NoStream
  <2>1. k = 1
    BY <1>2, <1>4
  <2>2. b = <<x>> /\ b \in Seq(Segment)
    BY <1>8, <2>1 DEF ISS
  <2>3. z \in Stream /\ z.fd = -1 /\ z.rcvbuf = <<>>
    BY EmptyStream
  <2>4. r = [z EXCEPT !.status = "SYN_RCVD", !.snd_nxt = ISS, !.rcv_nxt = k, !.sndbuf = b]
    OBVIOUS
  <2> HIDE DEF k, b, r, x, z
  <2>5. /\ r \in Stream /\ r.fd = z.fd /\ r.status = "SYN_RCVD" /\ r.snd_nxt = 0
        /\ r.rcv_nxt = k /\ r.rcvbuf = z.rcvbuf /\ r.sndbuf = b
    BY ONLY <2>1, <2>2, <2>3, <2>4 DEF Stream, Status, ISS
  <2>6. QED
    BY ONLY <2>1, <2>2, <2>3, <2>5
<1> HIDE DEF r, x, k, b
<1>10. /\ tcb' \in [Client -> Stream] /\ tcb'[c] = r /\ \A d \in Client : d # c => tcb'[d] = tcb[d]
  BY ONLY <1>2, <1>3, <1>7, <1>9, UpdateFacts
<1>11. tcb_set' = <<c, Listener>>
  BY <1>2, ListChange
<1>12. \A d \in Client : ~Listed(d) /\ tcb[d].status \in {"none", "freed"}
  <2>1. \A d \in Client : ~Listed(d)
    BY NoneListed
  <2>2. QED
    BY <2>1 DEF TcpInv, ListInv
<1>13. tcb[c].status = "none" /\ tcb[c].rcvbuf = <<>>
  <2>1. Phase(rin, c, tcb[c].status, peer[c])
    BY <1>2 DEF Line
  <2>2. tcb[c].status = "none"
    BY <1>2, <1>4, <2>1 DEF Phase
  <2>3. QED
    BY <1>2, <2>2 DEF TcpInv, ReadInv
<1>14. Phase(rin, c, "none", peer[c])
  BY <1>2, <1>13 DEF Line
<1>15. /\ p' \in PktRecord /\ p'.pc = "poll" /\ p'.pc \notin Handling
  BY DEF Poll, PktRecord, PktPc, Handling
<1>16. \A d \in Client : Due(p', d) = 0 /\ InHand(p', d) = {}
  BY <1>15, Idle
<1>17. tcb[c].rcv_nxt \in Nat /\ peer[c].cnt \in Nat
  BY <1>3, StreamFields, PeerFields
<1>18. Chain(rin, c, tcb[c].rcv_nxt, peer[c].cnt)
  <2>1. tcb[c].rcv_nxt + Due(p, c) = tcb[c].rcv_nxt
    BY <1>2, <1>17
  <2>2. QED
    BY <1>2, <1>13, <2>1 DEF Line
<1>19. Chain(rin', c, 1, peer[c].cnt)
  <2>1. s.cnt < EndOf(s)
    BY <1>4, <1>6
  <2>2. QED
    BY <1>2, <1>6, <1>17, <1>18, <2>1, PopChainData
<1>20. 1 <= peer[c].cnt
  BY <1>19 DEF Chain
<1>21. Of(rin', c) = {}
  <2>1. SUFFICES ASSUME NEW i \in Of(rin', c) PROVE FALSE
    OBVIOUS
  <2>2. i + 1 \in Of(rin, c) /\ rin'[i] = rin[i + 1]
    BY <1>2 DEF Popped
  <2>3. "SYN" \in rin[i + 1].flags
    BY <1>14, <2>2 DEF Phase
  <2>4. Form(rin[i + 1], peer[c])
    BY <1>2, <2>2 DEF Line, Forms
  <2>5. rin'[i].cnt = 0 /\ Data(rin'[i])
    BY <2>2, <2>3, <2>4 DEF Form, Data
  <2>6. 1 <= rin'[i].cnt
    BY <1>19, <2>5 DEF Chain
  <2>7. QED
    BY <2>5, <2>6
<1>22. Phase(rin', c, "SYN_RCVD", peer[c])
  <2>1. peer[c].st \in Opening /\ (peer[c].st \in Opening => peer[c].rcv = 0 /\ peer[c].pushes = 0)
        /\ (peer[c].st = "idle" => peer[c].cnt = 0)
    BY <1>14 DEF Phase
  <2>2. peer[c].st # "idle"
    BY <1>20, <2>1
  <2>3. QED
    BY <1>21, <2>1, <2>2 DEF Phase
<1>23. Line(c)'
  <2> DEFINE got == Started(reads[c], tcb[c].rcvbuf)
             open == peer[c].st = "ESTABLISHED"
  <2>1. got \cup InHand(p, c) = got
    BY <1>2
  <2>2. Messages(rin, c, got, peer[c].pushes, open)
    BY <1>2, <2>1 DEF Line
  <2> HIDE DEF got, open
  <2>3. Messages(rin', c, got, peer[c].pushes, open)
    BY <1>2, <1>6, <2>2, PopMessagesBare
  <2>4. Started(reads'[c], tcb'[c].rcvbuf) \cup InHand(p', c) = got
    BY <1>1, <1>2, <1>9, <1>10, <1>13, <1>16 DEF got
  <2>5. tcb'[c].rcv_nxt + Due(p', c) = 1 /\ tcb'[c].status = "SYN_RCVD"
    BY ONLY <1>2, <1>9, <1>10, <1>16
  <2>6. QED
    BY ONLY <1>1, <1>2, <1>19, <1>22, <2>3, <2>4, <2>5 DEF Line, open
<1>24. ListInv'
  <2>1. \A d \in Client : tcb_set' = <<d, Listener>> <=> d = c
    BY <1>11
  <2>2. \A d \in Client : tcb'[d].status \notin {"none", "freed"} <=> d = c
    BY <1>9, <1>10, <1>12
  <2>3. QED
    BY <1>2, <1>11, <2>1, <2>2 DEF ListInv, Listed
<1>25. InUseInv'
  <2>1. SUFFICES ASSUME ~missed PROVE InUseInv'
    BY <1>1 DEF InUseInv
  <2>2. t.cur = NULL
    <3>1. t.cur # NULL => t.cur \in Client /\ Listed(t.cur)
      BY <2>1, ServerTypes DEF TcpInv, InUseInv
    <3>2. QED
      BY <1>12, <3>1
  <2>3. t.pc \notin Working
    BY <2>2 DEF TcpInv, ServerInv
  <2>4. \A d \in Client : tcb'[d].status # "LAST_ACK"
    BY <1>9, <1>10, <1>12
  <2>5. QED
    BY <1>1, <2>1, <2>2, <2>3, <2>4 DEF InUseInv, TcpInv
<1>26. SignalInv'
  <2>1. t.pc \in {"hold", "recv_wait"} => t.cur \in Client
    BY ServerTypes DEF Working, Receiving
  <2>2. t.pc \in {"hold", "recv_wait"} => tcb[t.cur].rcvbuf = <<>>
    BY <1>1 DEF TcpInv, SignalInv
  <2>3. t'.pc \in {"hold", "recv_wait"} => tcb'[t'.cur].rcvbuf = <<>>
    BY <1>1, <1>9, <1>10, <2>1, <2>2
  <2>4. \A d \in Client : tcb_set' = <<d, Listener>> => tcb'[d].status = "SYN_RCVD"
    BY <1>9, <1>10, <1>11
  <2>5. QED
    BY <2>3, <2>4 DEF SignalInv, Listed
<1>27. PktInv'
  BY <1>15 DEF PktInv
<1>28. ReadInv'
  <2>1. \A d \in Client :
           /\ tcb'[d].rcvbuf = tcb[d].rcvbuf
           /\ StatusStep(tcb[d].status, tcb'[d].status)
           /\ tcb'[d].status = "freed" => tcb'[d].rcvbuf = <<>>
           /\ t'.cur = d /\ t'.pc \in Closing => t.cur = d /\ t.pc \in Closing
    <3>1. \A d \in Client : tcb[d].status \in {"none", "freed"} => tcb[d].rcvbuf = <<>>
      BY DEF TcpInv, ReadInv
    <3>2. QED
      BY ONLY <1>1, <1>9, <1>10, <1>13, <3>1 DEF StatusStep
  <2>2. QED
    BY <1>1, <2>1, ReadKept DEF TcpInv
<1>29. StreamOut(c, tcb', peer, arp) /\ RingOut(rout', tcb, peer, arp)
  <2>1. peer[c].rcv \in Nat /\ peer[c].st \in Opening
    BY <1>3, <1>14, PeerFields DEF Phase
  <2>2. OutOK(x, tcb', peer)
    BY <1>2, <1>8, <1>9, <1>10, <1>20 DEF OutOK
  <2>3. /\ Len(tcb'[c].sndbuf) = 1 /\ tcb'[c].sndbuf[1] = x
        /\ tcb'[c].snd_nxt <= peer[c].rcv /\ tcb'[c].rcv_nxt <= peer[c].cnt
    <3>1. tcb'[c].sndbuf = <<x>> /\ tcb'[c].snd_nxt = 0 /\ tcb'[c].rcv_nxt = 1
      BY ONLY <1>9, <1>10
    <3>2. Len(<<x>>) = 1 /\ <<x>>[1] = x
      OBVIOUS
    <3>3. 0 <= peer[c].rcv /\ 1 <= peer[c].cnt
      BY ONLY <1>20, <2>1
    <3>4. QED
      BY ONLY <3>1, <3>2, <3>3
  <2>4. \A i \in 1 .. 1 : i = 1
    OBVIOUS
  <2>5. StreamOut(c, tcb', peer, arp)
    BY ONLY <1>8, <2>1, <2>2, <2>3, <2>4 DEF StreamOut
  <2>6. QED
    BY <1>1, <2>5 DEF TcpInv, OutInv
<1>30. StatusStep(tcb[c].status, r.status)
  BY <1>9, <1>13 DEF StatusStep
<1>31. \A d \in Client : d # c => Due(p', d) = Due(p, d) /\ InHand(p', d) = InHand(p, d)
  BY <1>2, <1>16
<1>32. /\ UNCHANGED <<alive, arp, fd_table, t, script, peer, reads, missed>>
       /\ rout' \in Seq(Segment)
  BY <1>1, <1>3
<1>33. TcpInv
  OBVIOUS
<1>34. QED
  BY ONLY <1>2, <1>7, <1>9, <1>15, <1>23, <1>24, <1>25, <1>26, <1>27, <1>28, <1>29, <1>30, <1>31,
     <1>32, <1>33, PktWrites

(* The process dies over a second stream; nothing else happens. *)
Died ==
  /\ alive' = FALSE /\ p.pc = "poll" /\ p'.pc = "poll" /\ rin # <<>> /\ rin' = Tail(rin)
  /\ UNCHANGED <<rout, arp, tcb_set, tcb, fd_table, t, script, peer, reads, missed>>

(* ng_tcp_process: every segment, whatever the status of its stream. *)
LEMMA ProcessStep ==
  ASSUME TcpInv, ng_tcp_process
  PROVE  TcpInv' \/ Died
<1>1. PICK c : c = Head(rin).peer
  OBVIOUS
<1>2. /\ p.pc = "poll" /\ rin # <<>> /\ Head(rin).kind = "tcp" /\ rin' = Tail(rin)
      /\ UNCHANGED <<rout, arp, fd_table, t, script, peer, reads, missed>>
  BY DEF ng_tcp_process, world, ghosts
<1>3. c \in Client
  BY <1>1, <1>2, ProcessFacts
<1>4. Handle(c, Head(rin)) \/ (Ignored(c, Head(rin)) /\ UNCHANGED <<alive, tcb_set, tcb, p>>)
  BY <1>1 DEF ng_tcp_process
<1>5. CASE Ignored(c, Head(rin)) /\ UNCHANGED <<alive, tcb_set, tcb, p>>
  BY <1>1, <1>5, IgnoredStep
<1>6. CASE /\ ng_tcp_stream_search(c) = Listener /\ "SYN" \in Head(rin).flags
           /\ ng_tcp_handle_listen(c, Head(rin)) /\ Poll
  <2>1. CASE rte_ring_exists
    BY <1>2, <1>6, <2>1 DEF ng_tcp_handle_listen, Died, Poll
  <2>2. CASE ~rte_ring_exists
    <3>1. tcb_set = <<Listener>>
      BY <1>3, <2>2, ListFacts DEF TcpInv
    <3>2. QED
      BY <1>1, <1>6, <2>2, <3>1, ListenStep DEF ng_tcp_handle_listen
  <2>3. QED
    BY <2>1, <2>2
<1>7. CASE /\ ng_tcp_stream_search(c) = c /\ tcb[c].status = "SYN_RCVD" /\ "ACK" \in Head(rin).flags
           /\ tcb' = [tcb EXCEPT ![c].status = "ESTABLISHED"]
           /\ p' = [pc |-> "accept", seg |-> Head(rin), part |-> "none"]
           /\ UNCHANGED <<alive, tcb_set>>
  BY <1>1, <1>7, EstablishStep
<1>8. CASE /\ ng_tcp_stream_search(c) = c /\ tcb[c].status = "ESTABLISHED"
           /\ {"PSH", "FIN"} \cap Head(rin).flags # {}
           /\ p' = [pc |-> "enqueue", seg |-> Head(rin),
                    part |-> IF "PSH" \in Head(rin).flags THEN "PSH" ELSE "FIN"]
           /\ UNCHANGED <<alive, tcb_set, tcb>>
  BY <1>1, <1>8, DataStep
<1>9. CASE /\ ng_tcp_stream_search(c) = c /\ "ACK" \in Head(rin).flags
           /\ ng_tcp_handle_last_ack(c) /\ Poll /\ UNCHANGED alive
  BY <1>1, <1>9, FreeStep
<1>10. QED
  BY <1>4, <1>5, <1>6, <1>7, <1>8, <1>9 DEF Handle

(* A step that only moves packets that are not TCP, in or out, or learns an *)
(* address.                                                                 *)
LEMMA RingOnly ==
  ASSUME TcpInv, UNCHANGED <<alive, tcb_set, tcb, fd_table, t, script, peer, reads, missed>>,
         arp \subseteq arp', arp' \subseteq Host, rin' \in Seq(Segment), rout' \in Seq(Segment),
         TcpPeers(rin'), \A c \in Client : \E k \in Int : Shifted(rin, rin', c, k),
         RingOut(rout', tcb, peer, arp), p' \in PktRecord,
         p' = p \/ (p.pc \in {"poll", "udp_signal"} /\ p'.pc \in {"poll", "udp_signal"})
  PROVE  TcpInv'
<1> USE DEF TcpInv
<1>1. /\ alive' = alive /\ tcb_set' = tcb_set /\ tcb' = tcb /\ fd_table' = fd_table /\ t' = t
      /\ script' = script /\ peer' = peer /\ reads' = reads /\ missed' = missed
  OBVIOUS
<1>2. Types'
  BY <1>1 DEF Types, PktRecord
<1>3. ListInv' /\ ServerInv' /\ InUseInv' /\ ReadInv' /\ ReadOnceInOrder'
  <2>1. ListInv'
    BY <1>1 DEF ListInv, Listed
  <2>2. ServerInv'
    BY <1>1 DEF ServerInv
  <2>3. InUseInv'
    BY <1>1 DEF InUseInv, Listed
  <2>4. ReadInv'
    BY <1>1 DEF ReadInv
  <2>5. ReadOnceInOrder'
    BY <1>1 DEF ReadOnceInOrder
  <2>6. QED
    BY <2>1, <2>2, <2>3, <2>4, <2>5
<1>4. StatusKept /\ AllOnward
  BY <1>1, OnwardSame DEF StatusKept, AllOnward, Types
<1>5. SignalInv'
  <2>1. CASE p' = p
    BY <1>1, <1>4, <2>1, SignalKept
  <2>2. CASE p.pc \in {"poll", "udp_signal"}
    BY <1>1, <1>4, <2>2, SignalQuiet
  <2>3. QED
    BY <2>1, <2>2
<1>6. \A c \in Client : Due(p', c) = Due(p, c) /\ InHand(p', c) = InHand(p, c)
  <2>1. CASE p' = p
    BY <2>1
  <2>2. CASE p.pc \in {"poll", "udp_signal"} /\ p'.pc \in {"poll", "udp_signal"}
    <3>1. p.pc \notin Handling /\ p'.pc \notin Handling
      BY <2>2 DEF Handling
    <3>2. QED
      BY <3>1, Idle
  <2>3. QED
    BY <2>1, <2>2
<1>7. LineInv'
  <2>1. SUFFICES ASSUME NEW c \in Client PROVE Line(c)'
    BY DEF LineInv
  <2>2. PICK k \in Int : Shifted(rin, rin', c, k)
    OBVIOUS
  <2>3. Line(c) /\ tcb[c].rcv_nxt + Due(p, c) \in Nat
    BY DueFacts DEF LineInv
  <2>4. rin \in Seq(Segment) /\ peer[c] \in PeerEnd
    BY DEF Types
  <2>5. QED
    BY <1>1, <1>6, <2>2, <2>3, <2>4, LineKept
<1>8. PktInv'
  <2>1. CASE p' = p
    <3>1. \A c \in Client : NoData(rin, c) => NoData(rin', c)
      BY ShiftNoData
    <3>2. peer' \in [Client -> PeerEnd]
      BY <1>1 DEF Types
    <3>3. QED
      BY <1>1, <1>4, <2>1, <3>1, <3>2, PktKept
  <2>2. CASE p'.pc \in {"poll", "udp_signal"}
    BY <2>2 DEF PktInv, Handling
  <2>3. QED
    BY <2>1, <2>2
<1>9. OutInv'
  BY <1>1, <1>2, OutKept
<1>10. QED
  BY <1>2, <1>3, <1>5, <1>7, <1>8, <1>9

(* An ARP reply. *)
LEMMA ArpReplyStep ==
  ASSUME TcpInv, arp_reply
  PROVE  TcpInv'
<1>1. /\ p.pc = "poll" /\ rin # <<>> /\ Head(rin).kind = "arp" /\ rin' = Tail(rin)
      /\ arp' = arp \cup {Head(rin).peer} /\ rout' = rout /\ p' = p
      /\ UNCHANGED <<alive, tcb_set, tcb, fd_table, t, script, peer, reads, missed>>
  BY DEF arp_reply, world, ghosts
<1>2. rin \in Seq(Segment) /\ TcpPeers(rin) /\ arp \subseteq Host /\ p \in PktRecord
      /\ rout \in Seq(Segment) /\ RingOut(rout, tcb, peer, arp)
  BY DEF TcpInv, Types, OutInv, PktRecord
<1>3. rin' \in Seq(Segment) /\ TcpPeers(rin') /\ Head(rin) \in Segment
  BY <1>1, <1>2, PeersTail
<1>4. arp \subseteq arp' /\ arp' \subseteq Host
  BY <1>1, <1>2, <1>3 DEF Segment
<1>5. \A c \in Client : Shifted(rin, rin', c, 1)
  BY <1>1, <1>2, ShiftTail
<1>6. QED
  BY <1>1, <1>2, <1>3, <1>4, <1>5, RingOnly

(* A signal, and what it may do to the server. *)
LEMMA Woken ==
  ASSUME TcpInv, NEW s, pthread_cond_signal(s), s = Listener \/ s \in Client
  PROVE  /\ t' \in ServerRecord /\ t'.cur = t.cur /\ t'.iter = t.iter /\ t'.fd = t.fd /\ t'.ack = t.ack
         /\ \/ t'.pc = t.pc /\ ~Waiting(s)
            \/ t.pc = "accept_wait" /\ t'.pc = "accept"
            \/ t.pc = "recv_wait" /\ t'.pc = "try"
<1>1. t \in ServerRecord
  BY ServerTypes
<1>2. CASE ~Waiting(s)
  BY <1>1, <1>2 DEF pthread_cond_signal
<1>3. CASE Waiting(s)
  <2>1. t' = [t EXCEPT !.pc = WokenFrom(t.pc)]
    BY <1>3 DEF pthread_cond_signal
  <2>2. t.pc \in {"accept_wait", "recv_wait"}
    BY <1>3 DEF Waiting
  <2>3. QED
    BY <1>1, <2>1, <2>2 DEF WokenFrom, ServerRecord, Pc
<1>4. QED
  BY <1>2, <1>3

(* A step of pkt_process that signals and changes nothing else. *)
LEMMA SignalOnly ==
  ASSUME TcpInv, UNCHANGED <<alive, rin, rout, arp, tcb_set, tcb, fd_table, script, peer, reads, missed>>,
         t' \in ServerRecord, t'.cur = t.cur, t'.iter = t.iter, t'.fd = t.fd, t'.ack = t.ack,
         \/ t'.pc = t.pc
         \/ t.pc = "accept_wait" /\ t'.pc = "accept"
         \/ t.pc = "recv_wait" /\ t'.pc = "try",
         p' \in PktRecord,
         \A c \in Client : Due(p', c) = Due(p, c) /\ InHand(p', c) = InHand(p, c),
         SignalInv', PktInv'
  PROVE  TcpInv'
<1>1. /\ alive' = alive /\ tcb_set' = tcb_set /\ tcb' = tcb /\ fd_table' = fd_table /\ rin' = rin
      /\ script' = script /\ peer' = peer /\ reads' = reads /\ missed' = missed /\ rout' = rout /\ arp' = arp
  OBVIOUS
<1>2. Types'
  BY <1>1 DEF TcpInv, Types, PktRecord, ServerRecord
<1>3. ListInv'
  BY <1>1 DEF TcpInv, ListInv, Listed
<1>4. ServerInv'
  BY <1>1 DEF TcpInv, ServerInv, Working, Receiving, Sending, Closing, Looking
<1>5. InUseInv'
  BY <1>1 DEF TcpInv, InUseInv, Working, Receiving, Sending, Closing, Looking, Listed
<1>6. LineInv'
  <2>1. SUFFICES ASSUME NEW c \in Client PROVE Line(c)'
    BY DEF LineInv
  <2>2. Line(c) /\ Due(p', c) = Due(p, c) /\ InHand(p', c) = InHand(p, c)
    BY DEF TcpInv, LineInv
  <2>3. QED
    BY <1>1, <2>2 DEF Line
<1>7. OutInv'
  BY <1>1 DEF TcpInv, OutInv
<1>8. ReadInv'
  <2>1. t'.pc \in Closing => t.pc \in Closing
    BY DEF Closing
  <2>2. QED
    BY <1>1, <2>1 DEF TcpInv, ReadInv
<1>9. ReadOnceInOrder'
  BY <1>1 DEF TcpInv, ReadOnceInOrder
<1>10. QED
  BY <1>2, <1>3, <1>4, <1>5, <1>6, <1>7, <1>8, <1>9 DEF TcpInv

(* ng_tcp_handle_syn_rcvd wakes the accepting thread. *)
LEMMA SignalListenerStep ==
  ASSUME TcpInv, SignalListener
  PROVE  TcpInv'
<1>1. /\ p.pc = "accept" /\ pthread_cond_signal(Listener)
      /\ p' = [pc |-> "poll", seg |-> NULL, part |-> "none"]
      /\ UNCHANGED <<alive, rin, rout, arp, tcb_set, tcb, fd_table, script, peer, reads, missed>>
  BY DEF SignalListener, Poll, world, ghosts
<1>2. /\ t' \in ServerRecord /\ t'.cur = t.cur /\ t'.iter = t.iter /\ t'.fd = t.fd /\ t'.ack = t.ack
      /\ \/ t'.pc = t.pc /\ ~Waiting(Listener)
         \/ t.pc = "accept_wait" /\ t'.pc = "accept"
         \/ t.pc = "recv_wait" /\ t'.pc = "try"
  BY <1>1, Woken
<1>3. p' \in PktRecord /\ p'.pc = "poll"
  BY <1>1 DEF PktRecord, PktPc
<1>4. \A c \in Client : Due(p', c) = Due(p, c) /\ InHand(p', c) = InHand(p, c)
  <2>1. p.pc \notin Handling /\ p'.pc \notin Handling
    BY <1>1, <1>3 DEF Handling
  <2>2. QED
    BY <2>1, Idle
<1>5. PktInv'
  BY <1>3 DEF PktInv, Handling
<1>6. SignalInv'
  <2>1. t'.pc # "accept_wait" /\ t'.pc # "pick"
    BY <1>1, <1>2 DEF pthread_cond_signal, Locked, Waiting
  <2>2. t'.pc \in {"hold", "recv_wait"} => t'.pc = t.pc /\ tcb[t.cur].rcvbuf = <<>>
    BY <1>1, <1>2 DEF TcpInv, SignalInv
  <2>3. tcb' = tcb
    BY <1>1
  <2>4. QED
    BY <1>2, <2>1, <2>2, <2>3 DEF SignalInv
<1>7. QED
  BY <1>1, <1>2, <1>3, <1>4, <1>5, <1>6, SignalOnly

(* What pkt_process has in hand within ng_tcp_handle_established. *)
LEMMA HandFacts ==
  ASSUME TcpInv, p.pc \in Handling
  PROVE  /\ p \in PktRecord /\ p.seg \in Segment /\ p.seg.peer \in Client
         /\ p.seg.len \in Nat /\ p.seg.msg \in Nat /\ p.seg.ack \in Nat
         /\ p.part \in {"PSH", "FIN"} /\ p.part \in p.seg.flags
         /\ p.part = "PSH" => p.seg.len > 0
         /\ p.seg.ack <= peer[p.seg.peer].rcv
         /\ p.part = "PSH" \/ p.pc = "enqueue" => tcb[p.seg.peer].status = "ESTABLISHED"
         /\ tcb[p.seg.peer].status \in {"ESTABLISHED", "CLOSE_WAIT", "LAST_ACK"}
         /\ peer[p.seg.peer].st \notin Opening
<1>1. p \in PktRecord /\ PktInv /\ LineInv
  BY DEF TcpInv, Types, PktRecord
<1>2. p.seg \in Segment /\ p.seg.peer \in Client /\ p.part \in {"PSH", "FIN"} /\ p.part \in p.seg.flags
  BY <1>1 DEF PktInv
<1>3. p.seg.len \in Nat /\ p.seg.msg \in Nat /\ p.seg.ack \in Nat
  BY <1>2 DEF Segment
<1>4. /\ p.part = "PSH" => p.seg.len > 0
      /\ p.seg.ack <= peer[p.seg.peer].rcv
      /\ p.part = "PSH" \/ p.pc = "enqueue" => tcb[p.seg.peer].status = "ESTABLISHED"
      /\ tcb[p.seg.peer].status \in {"ESTABLISHED", "CLOSE_WAIT", "LAST_ACK"}
  BY <1>1, <1>2 DEF PktInv, IsPush
<1>5. peer[p.seg.peer].st \notin Opening
  BY <1>1, <1>2, <1>4 DEF LineInv, Line, Phase
<1>6. QED
  BY <1>1, <1>2, <1>3, <1>4, <1>5

(* ng_tcp_handle_established wakes the reader of the stream. *)
LEMMA SignalReaderStep ==
  ASSUME TcpInv, SignalReader
  PROVE  TcpInv'
<1>1. /\ p.pc = "signal" /\ pthread_cond_signal(p.seg.peer) /\ p' = [p EXCEPT !.pc = "rcv_nxt"]
      /\ UNCHANGED <<alive, rin, rout, arp, tcb_set, tcb, fd_table, script, peer, reads, missed>>
  BY DEF SignalReader, PktStep, pseg, world, ghosts
<1>2. p \in PktRecord /\ p.seg \in Segment /\ p.seg.peer \in Client /\ p.part \in {"PSH", "FIN"}
  BY <1>1, HandFacts DEF Handling
<1>3. /\ t' \in ServerRecord /\ t'.cur = t.cur /\ t'.iter = t.iter /\ t'.fd = t.fd /\ t'.ack = t.ack
      /\ \/ t'.pc = t.pc /\ ~Waiting(p.seg.peer)
         \/ t.pc = "accept_wait" /\ t'.pc = "accept"
         \/ t.pc = "recv_wait" /\ t'.pc = "try"
  BY <1>1, <1>2, Woken
<1>4. p' \in PktRecord /\ p'.pc = "rcv_nxt" /\ p'.seg = p.seg /\ p'.part = p.part
  BY <1>1, <1>2 DEF PktRecord, PktPc
<1>5. \A c \in Client : Due(p', c) = Due(p, c) /\ InHand(p', c) = InHand(p, c)
  BY <1>1, <1>4 DEF Due, InHand
<1>6. PktInv'
  BY <1>1, <1>4 DEF TcpInv, PktInv, Handling
<1>7. SignalInv'
  <2>1. t'.pc \in {"hold", "recv_wait"} => t'.pc = t.pc /\ t.cur # p.seg.peer
    BY <1>1, <1>3 DEF pthread_cond_signal, Locked, Waiting
  <2>2. t'.pc \in {"hold", "recv_wait"} => tcb[t.cur].rcvbuf = <<>>
    BY <2>1 DEF TcpInv, SignalInv
  <2>3. tcb' = tcb /\ tcb_set' = tcb_set
    BY <1>1
  <2>4. t'.pc \in {"accept_wait", "pick"} => t'.pc = t.pc
    BY <1>3
  <2>5. \A c \in Client : Listed(c)' <=> Listed(c)
    BY <2>3 DEF Listed
  <2>6. QED
    BY <1>1, <1>3, <2>2, <2>3, <2>4, <2>5 DEF SignalInv, TcpInv
<1>8. QED
  BY <1>1, <1>3, <1>4, <1>5, <1>6, <1>7, SignalOnly

(* What is in hand is due to no other client. *)
LEMMA OthersHand ==
  ASSUME NEW q, NEW n, NEW c, q.seg.peer = c, n.seg.peer = c \/ n.pc \notin Handling
  PROVE  \A d : d # c => Due(n, d) = Due(q, d) /\ InHand(n, d) = InHand(q, d)
<1>1. ASSUME NEW d, d # c
      PROVE  Due(q, d) = 0 /\ InHand(q, d) = {}
  BY <1>1 DEF Due, InHand
<1>2. ASSUME NEW d, d # c
      PROVE  Due(n, d) = 0 /\ InHand(n, d) = {}
  BY <1>2 DEF Due, InHand, Handling
<1>3. QED
  BY <1>1, <1>2

(* A step of pkt_process that changes the numbers or the sndbuf of a        *)
(* stream.                                                                  *)
LEMMA QuietWrites ==
  ASSUME TcpInv, NEW c \in Client, NEW r \in Stream, tcb' = [tcb EXCEPT ![c] = r],
         r.status = tcb[c].status, r.fd = tcb[c].fd, r.rcvbuf = tcb[c].rcvbuf,
         p.pc \notin {"signal", "accept"},
         UNCHANGED <<alive, rin, arp, tcb_set, fd_table, t, script, peer, reads, missed>>,
         rout' \in Seq(Segment), RingOut(rout', tcb, peer, arp), StreamOut(c, tcb', peer, arp),
         p' \in PktRecord, r.rcv_nxt + Due(p', c) = tcb[c].rcv_nxt + Due(p, c),
         InHand(p', c) = InHand(p, c),
         \A d \in Client : d # c => Due(p', d) = Due(p, d) /\ InHand(p', d) = InHand(p, d),
         PktInv'
  PROVE  TcpInv'
<1>1. /\ alive' = alive /\ rin' = rin /\ arp' = arp /\ tcb_set' = tcb_set
      /\ fd_table' = fd_table /\ t' = t /\ script' = script /\ peer' = peer /\ reads' = reads
      /\ missed' = missed
  OBVIOUS
<1>2. c \in Client /\ r \in Stream /\ tcb' = [tcb EXCEPT ![c] = r]
      /\ r.status = tcb[c].status /\ r.fd = tcb[c].fd /\ r.rcvbuf = tcb[c].rcvbuf
  OBVIOUS
<1>3. /\ tcb[c] \in Stream /\ tcb \in [Client -> Stream] /\ peer[c] \in PeerEnd /\ rin \in Seq(Segment)
  BY DEF TcpInv, Types
<1>4. /\ tcb' \in [Client -> Stream] /\ tcb'[c] = r /\ \A d \in Client : d # c => tcb'[d] = tcb[d]
  BY ONLY <1>2, <1>3, UpdateFacts
<1>5. \A d \in Client : /\ tcb'[d].status = tcb[d].status /\ tcb'[d].fd = tcb[d].fd
                        /\ tcb'[d].rcvbuf = tcb[d].rcvbuf
  BY <1>2, <1>4
<1>6. Line(c)'
  <2>1. Line(c) /\ Shifted(rin, rin', c, 0)
    BY <1>1, <1>3, ShiftSame DEF TcpInv, LineInv
  <2>2. /\ tcb'[c].rcv_nxt + Due(p', c) = tcb[c].rcv_nxt + Due(p, c)
        /\ tcb[c].rcv_nxt + Due(p, c) \in Nat
    BY <1>4, DueFacts DEF TcpInv
  <2>3. tcb'[c].status = tcb[c].status /\ tcb'[c].rcvbuf = tcb[c].rcvbuf
    BY <1>5
  <2>4. /\ 0 \in Int /\ rin' \in Seq(Segment) /\ peer'[c] = peer[c]
        /\ Started(reads'[c], tcb'[c].rcvbuf) \cup InHand(p', c)
             = Started(reads[c], tcb[c].rcvbuf) \cup InHand(p, c)
    BY <1>1, <1>3, <2>3
  <2>5. QED
    BY ONLY <1>2, <1>3, <2>1, <2>2, <2>3, <2>4, LineKept
<1>7. ListInv'
  BY <1>1, <1>5, ListKept DEF TcpInv, StatusKept
<1>8. InUseInv'
  BY <1>1, <1>5, InUseKept DEF TcpInv
<1>9. SignalInv'
  BY <1>1, <1>5, SignalQuiet DEF TcpInv, StatusKept
<1>10. ReadInv'
  <2>1. ReadInv
    BY DEF TcpInv
  <2>2. QED
    BY ONLY <1>1, <1>5, <2>1 DEF ReadInv
<1>11. StatusStep(tcb[c].status, r.status)
  BY <1>2 DEF StatusStep
<1>12. /\ UNCHANGED <<alive, arp, fd_table, t, script, peer, reads, missed>>
       /\ rin' \in Seq(Segment) /\ TcpPeers(rin')
  BY <1>1, <1>3 DEF TcpInv, OutInv
<1>13. \A d \in Client : d # c => \E j \in Int : Shifted(rin, rin', d, j)
  <2>1. 0 \in Int /\ \A d \in Client : Shifted(rin, rin', d, 0)
    BY <1>1, <1>3, ShiftSame
  <2>2. QED
    BY <2>1
<1>14. /\ TcpInv /\ rout' \in Seq(Segment) /\ RingOut(rout', tcb, peer, arp)
       /\ StreamOut(c, tcb', peer, arp) /\ p' \in PktRecord /\ PktInv'
       /\ \A d \in Client : d # c => Due(p', d) = Due(p, d) /\ InHand(p', d) = InHand(p, d)
  OBVIOUS
<1>15. QED
  BY ONLY <1>2, <1>6, <1>7, <1>8, <1>9, <1>10, <1>11, <1>12, <1>13, <1>14, PktWrites

(* rcv_nxt moves by what is due. *)
LEMMA AdvanceStep ==
  ASSUME TcpInv, AdvanceRcvNxt
  PROVE  TcpInv'
<1>0. PICK c : c = p.seg.peer
  OBVIOUS
<1> DEFINE k == IF p.part = "PSH" THEN p.seg.len ELSE 1
           w == tcb[c].rcv_nxt + k
           r == [tcb[c] EXCEPT !.rcv_nxt = w]
<1>1. /\ p.pc = "rcv_nxt" /\ p' = [p EXCEPT !.pc = "ackpkt"] /\ t' = t
      /\ tcb' = [tcb EXCEPT ![c].rcv_nxt = @ + k]
      /\ alive' = alive /\ rin' = rin /\ rout' = rout /\ arp' = arp /\ tcb_set' = tcb_set
      /\ fd_table' = fd_table /\ script' = script /\ peer' = peer /\ reads' = reads
      /\ missed' = missed
  BY <1>0 DEF AdvanceRcvNxt, PktStep, pseg, world, ghosts
<1>2. /\ p \in PktRecord /\ p.seg \in Segment /\ c \in Client /\ p.part \in {"PSH", "FIN"}
      /\ p.seg.len \in Nat
      /\ tcb[c].status \in {"ESTABLISHED", "CLOSE_WAIT", "LAST_ACK"}
  BY <1>0, <1>1, HandFacts DEF Handling
<1>3. /\ tcb[c] \in Stream /\ tcb \in [Client -> Stream] /\ peer[c] \in PeerEnd
      /\ rout \in Seq(Segment)
  BY <1>2 DEF TcpInv, Types
<1>4. k \in Nat /\ tcb[c].rcv_nxt \in Nat /\ w \in Nat /\ peer[c].cnt \in Nat
  BY <1>2, <1>3, StreamFields, PeerFields
<1>5. tcb' = [tcb EXCEPT ![c] = r]
  BY <1>1, <1>2, <1>3
<1>6. p' \in PktRecord /\ p'.pc = "ackpkt" /\ p'.seg = p.seg /\ p'.part = p.part
  BY <1>1, <1>2 DEF PktRecord, PktPc
<1>7. /\ w + Due(p', c) = tcb[c].rcv_nxt + Due(p, c) /\ w <= tcb[c].rcv_nxt + Due(p, c)
      /\ tcb[c].rcv_nxt + Due(p, c) \in Nat
  BY <1>0, <1>1, <1>2, <1>4, <1>6 DEF Due, Space
<1>8. w <= peer[c].cnt
  <2>1. Chain(rin, c, tcb[c].rcv_nxt + Due(p, c), peer[c].cnt)
    BY <1>2 DEF TcpInv, LineInv, Line
  <2>2. tcb[c].rcv_nxt + Due(p, c) <= peer[c].cnt
    BY <2>1 DEF Chain
  <2>3. QED
    BY <1>4, <1>7, <2>2
<1> HIDE DEF w
<1>9. /\ r \in Stream /\ r.fd = tcb[c].fd /\ r.status = tcb[c].status
      /\ r.snd_nxt = tcb[c].snd_nxt
      /\ r.rcv_nxt = w /\ r.rcvbuf = tcb[c].rcvbuf /\ r.sndbuf = tcb[c].sndbuf
  BY <1>3, <1>4 DEF Stream
<1> HIDE DEF r
<1>10. /\ tcb' \in [Client -> Stream] /\ tcb'[c] = r /\ \A d \in Client : d # c => tcb'[d] = tcb[d]
  BY ONLY <1>2, <1>3, <1>5, <1>9, UpdateFacts
<1>11. \A d \in Client : tcb'[d].status = tcb[d].status
  BY <1>9, <1>10
<1>12. \A d \in Client : d # c => Due(p', d) = Due(p, d) /\ InHand(p', d) = InHand(p, d)
  <2>1. p.seg.peer = c /\ p'.seg.peer = c
    BY <1>0, <1>6
  <2>2. QED
    BY <2>1, OthersHand
<1>13. InHand(p', c) = InHand(p, c)
  BY <1>1, <1>6 DEF InHand
<1>14. PktInv'
  <2>1. tcb'[p'.seg.peer].status = tcb[p.seg.peer].status
    BY <1>0, <1>2, <1>6, <1>11
  <2>2. PktInv
    BY DEF TcpInv
  <2>3. QED
    BY ONLY <1>1, <1>6, <2>1, <2>2 DEF PktInv, Handling
<1>15. StreamOut(c, tcb', peer, arp) /\ RingOut(rout', tcb, peer, arp)
  <2>1. StreamOut(c, tcb, peer, arp) /\ RingOut(rout, tcb, peer, arp)
    BY <1>2 DEF TcpInv, OutInv
  <2>2. /\ tcb'[c].sndbuf = tcb[c].sndbuf /\ tcb'[c].snd_nxt = tcb[c].snd_nxt
        /\ tcb'[c].rcv_nxt <= peer[c].cnt
    BY <1>8, <1>9, <1>10
  <2>3. \A x : OutOK(x, tcb, peer) => OutOK(x, tcb', peer)
    BY <1>11 DEF OutOK
  <2>4. StreamOut(c, tcb', peer, arp)
    BY ONLY <2>1, <2>2, <2>3 DEF StreamOut
  <2>5. QED
    BY <1>1, <2>1, <2>4
<1>16. /\ UNCHANGED <<alive, rin, arp, tcb_set, fd_table, t, script, peer, reads, missed>>
       /\ rout' \in Seq(Segment) /\ TcpInv /\ p.pc \notin {"signal", "accept"}
       /\ r.rcv_nxt + Due(p', c) = tcb[c].rcv_nxt + Due(p, c)
  BY <1>1, <1>3, <1>7, <1>9
<1>17. QED
  BY ONLY <1>2, <1>5, <1>6, <1>9, <1>12, <1>13, <1>14, <1>15, <1>16, QuietWrites

(* The acknowledgement is queued; the FIN of a segment with data is next. *)
LEMMA AckStep ==
  ASSUME TcpInv, ng_tcp_send_ackpkt
  PROVE  TcpInv'
<1>0. PICK c : c = p.seg.peer
  OBVIOUS
<1> DEFINE a == p.seg.ack
           x == Tcp(c, {"ACK"}, a, tcb[c].rcv_nxt, 0, 0)
           q == Append(tcb[c].sndbuf, x)
           r == [tcb[c] EXCEPT !.snd_nxt = a, !.sndbuf = q]
           more == p.part = "PSH" /\ "FIN" \in p.seg.flags
<1>1. /\ p.pc = "ackpkt" /\ t' = t
      /\ tcb' = [tcb EXCEPT ![c].snd_nxt = a, ![c].sndbuf = Append(@, x)]
      /\ alive' = alive /\ rin' = rin /\ rout' = rout /\ arp' = arp /\ tcb_set' = tcb_set
      /\ fd_table' = fd_table /\ script' = script /\ peer' = peer /\ reads' = reads
      /\ missed' = missed
  BY <1>0 DEF ng_tcp_send_ackpkt, pseg, world, ghosts
<1>2. p' = IF more THEN [p EXCEPT !.pc = "enqueue", !.part = "FIN"]
           ELSE [pc |-> "poll", seg |-> NULL, part |-> "none"]
  BY DEF ng_tcp_send_ackpkt, pseg, Poll
<1>3. /\ p \in PktRecord /\ p.seg \in Segment /\ c \in Client /\ p.part \in {"PSH", "FIN"}
      /\ a \in Nat /\ a <= peer[c].rcv /\ peer[c].st \notin Opening
      /\ tcb[c].status \in {"ESTABLISHED", "CLOSE_WAIT", "LAST_ACK"}
      /\ p.part = "PSH" => tcb[c].status = "ESTABLISHED"
  BY <1>0, <1>1, HandFacts DEF Handling
<1>4. /\ tcb[c] \in Stream /\ tcb \in [Client -> Stream] /\ peer \in [Client -> PeerEnd]
      /\ rout \in Seq(Segment)
  BY <1>3 DEF TcpInv, Types
<1>5. tcb[c].rcv_nxt \in Nat /\ tcb[c].sndbuf \in Seq(Segment)
  BY <1>4, StreamFields
<1>6. x \in Segment /\ x.kind = "tcp" /\ x.peer = c /\ x.ack = tcb[c].rcv_nxt
  BY <1>3, <1>5, Apart DEF Segment, Tcp, Kind, Flag
<1>7. tcb' = [tcb EXCEPT ![c] = r]
  BY <1>1, <1>3, <1>4
<1> HIDE DEF x, a
<1>8. q \in Seq(Segment)
  BY <1>5, <1>6
<1> HIDE DEF q
<1>9. /\ r \in Stream /\ r.fd = tcb[c].fd /\ r.status = tcb[c].status /\ r.snd_nxt = a
      /\ r.rcv_nxt = tcb[c].rcv_nxt /\ r.rcvbuf = tcb[c].rcvbuf /\ r.sndbuf = q
  BY <1>3, <1>4, <1>8 DEF Stream
<1> HIDE DEF r
<1>10. /\ tcb' \in [Client -> Stream] /\ tcb'[c] = r /\ \A d \in Client : d # c => tcb'[d] = tcb[d]
  BY ONLY <1>3, <1>4, <1>7, <1>9, UpdateFacts
<1>11. StreamOut(c, tcb', peer, arp)
  <2>1. StreamOut(c, tcb, peer, arp) /\ tcb[c].rcv_nxt <= peer[c].cnt
    BY <1>3 DEF TcpInv, OutInv, StreamOut
  <2>2. tcb'[c].sndbuf = Append(tcb[c].sndbuf, x) /\ tcb'[c].status # "none"
    BY <1>3, <1>9, <1>10 DEF q
  <2>3. /\ tcb'[c].snd_nxt <= peer[c].rcv /\ tcb'[c].rcv_nxt <= peer[c].cnt
        /\ x.ack <= peer[c].cnt
    BY <1>3, <1>6, <1>9, <1>10, <2>1
  <2>4. QED
    BY ONLY <1>3, <1>4, <1>6, <1>10, <2>1, <2>2, <2>3, StreamAppend
<1>12. /\ p' \in PktRecord
       /\ more => p'.pc = "enqueue" /\ p'.seg = p.seg /\ p'.part = "FIN"
       /\ ~more => p'.pc = "poll"
  BY <1>2, <1>3 DEF PktRecord, PktPc
<1>13. Due(p', c) = Due(p, c) /\ InHand(p', c) = InHand(p, c)
  BY <1>0, <1>1, <1>12 DEF Due, InHand
<1>14. \A d \in Client : d # c => Due(p', d) = Due(p, d) /\ InHand(p', d) = InHand(p, d)
  <2>1. p.seg.peer = c /\ (p'.seg.peer = c \/ p'.pc \notin Handling)
    BY <1>0, <1>12 DEF Handling
  <2>2. QED
    BY <2>1, OthersHand
<1>15. PktInv'
  <2>1. CASE more
    <3>1. tcb'[p'.seg.peer].status = "ESTABLISHED"
      BY <1>0, <1>3, <1>9, <1>10, <1>12, <2>1
    <3>2. PktInv
      BY DEF TcpInv
    <3>3. QED
      BY ONLY <1>1, <1>12, <2>1, <3>1, <3>2 DEF PktInv, Handling
  <2>2. CASE ~more
    BY <1>12, <2>2 DEF PktInv, Handling
  <2>3. QED
    BY <2>1, <2>2
<1>16. /\ UNCHANGED <<alive, rin, arp, tcb_set, fd_table, t, script, peer, reads, missed>>
       /\ rout' \in Seq(Segment) /\ TcpInv /\ p.pc \notin {"signal", "accept"}
       /\ r.rcv_nxt + Due(p', c) = tcb[c].rcv_nxt + Due(p, c)
       /\ RingOut(rout', tcb, peer, arp)
  BY <1>1, <1>4, <1>9, <1>13 DEF TcpInv, OutInv
<1>17. QED
  BY ONLY <1>3, <1>7, <1>9, <1>11, <1>12, <1>13, <1>14, <1>15, <1>16, QuietWrites

(* A stream stays in order when its first fragment leaves. *)
LEMMA StreamTail ==
  ASSUME NEW c \in Client, NEW tb \in [Client -> Stream], NEW pe, NEW known,
         StreamOut(c, tb, pe, known), tb[c].sndbuf # <<>>,
         NEW nt, nt[c].sndbuf = Tail(tb[c].sndbuf), nt[c].snd_nxt = tb[c].snd_nxt,
         nt[c].rcv_nxt = tb[c].rcv_nxt, \A d \in Client : nt[d].status = tb[d].status
  PROVE  StreamOut(c, nt, pe, known)
<1> DEFINE q == tb[c].sndbuf
           z == Tail(tb[c].sndbuf)
<1>1. q \in Seq(Segment)
  BY StreamFields
<1>2. /\ Len(z) = Len(q) - 1 /\ Len(q) \in Nat \ {0}
      /\ \A i \in 1 .. Len(z) : z[i] = q[i + 1] /\ i + 1 \in 1 .. Len(q)
  BY <1>1
<1>3. nt[c].sndbuf = z /\ tb[c].sndbuf = q
  OBVIOUS
<1> HIDE DEF z, q
<1>4. \A s : OutOK(s, tb, pe) => OutOK(s, nt, pe)
  BY DEF OutOK
<1>5. \A i \in 1 .. Len(z) : OutOK(z[i], nt, pe) /\ z[i].kind = "tcp" /\ z[i].peer = c
  BY <1>2, <1>3, <1>4 DEF StreamOut
<1>6. c \notin known => Len(z) <= 1
  BY <1>2, <1>3 DEF StreamOut
<1>7. QED
  BY <1>3, <1>5, <1>6 DEF StreamOut

(* A request for an address is no TCP segment. *)
LEMMA ArpFacts ==
  ASSUME NEW h \in Host
  PROVE  Arp(h) \in Segment /\ Arp(h).kind = "arp" /\ \A tb, pe : OutOK(Arp(h), tb, pe)
BY DEF Arp, Segment, Kind, OutOK

(* ng_tcp_out with the address known: a fragment goes out. *)
LEMMA OutKnownStep ==
  ASSUME TcpInv, NEW c \in Client, ng_tcp_out(c), c \in arp
  PROVE  TcpInv'
<1> DEFINE f == Head(tcb[c].sndbuf)
           q == Tail(tcb[c].sndbuf)
           r == [tcb[c] EXCEPT !.sndbuf = q]
<1>1. /\ p.pc = "poll" /\ tcb[c].sndbuf # <<>> /\ rout' = Append(rout, f)
      /\ tcb' = [tcb EXCEPT ![c].sndbuf = q]
      /\ alive' = alive /\ rin' = rin /\ arp' = arp /\ tcb_set' = tcb_set /\ p' = p /\ t' = t
      /\ fd_table' = fd_table /\ script' = script /\ peer' = peer /\ reads' = reads
      /\ missed' = missed
  BY DEF ng_tcp_out, ng_get_dst_macaddr, world, ghosts
<1>2. /\ tcb[c] \in Stream /\ tcb \in [Client -> Stream] /\ rout \in Seq(Segment) /\ p \in PktRecord
  BY DEF TcpInv, Types, PktRecord
<1>3. tcb[c].sndbuf \in Seq(Segment) /\ StreamOut(c, tcb, peer, arp) /\ RingOut(rout, tcb, peer, arp)
  BY <1>2, StreamFields DEF TcpInv, OutInv
<1>4. q \in Seq(Segment) /\ f \in Segment /\ f = tcb[c].sndbuf[1] /\ 1 \in 1 .. Len(tcb[c].sndbuf)
  BY <1>1, <1>3
<1>5. OutOK(f, tcb, peer) /\ f.kind = "tcp" /\ f.peer = c
  BY <1>3, <1>4 DEF StreamOut
<1>6. tcb' = [tcb EXCEPT ![c] = r]
  BY <1>1, <1>2
<1>7. tcb[c].sndbuf # <<>> /\ q = Tail(tcb[c].sndbuf)
  BY <1>1
<1> HIDE DEF q, f
<1>8. /\ r \in Stream /\ r.fd = tcb[c].fd /\ r.status = tcb[c].status
      /\ r.snd_nxt = tcb[c].snd_nxt
      /\ r.rcv_nxt = tcb[c].rcv_nxt /\ r.rcvbuf = tcb[c].rcvbuf /\ r.sndbuf = q
  BY <1>2, <1>4 DEF Stream
<1> HIDE DEF r
<1>9. c \in Client /\ c \in arp
  OBVIOUS
<1>10. /\ tcb' \in [Client -> Stream] /\ tcb'[c] = r /\ \A d \in Client : d # c => tcb'[d] = tcb[d]
  BY ONLY <1>2, <1>6, <1>8, <1>9, UpdateFacts
<1>11. RingOut(rout', tcb, peer, arp) /\ rout' \in Seq(Segment)
  BY ONLY <1>1, <1>2, <1>3, <1>4, <1>5, <1>9, RingAppend
<1>12. StreamOut(c, tcb', peer, arp)
  <2>1. \A d \in Client : tcb'[d].status = tcb[d].status
    BY <1>8, <1>10
  <2>2. /\ tcb'[c].sndbuf = Tail(tcb[c].sndbuf) /\ tcb'[c].snd_nxt = tcb[c].snd_nxt
        /\ tcb'[c].rcv_nxt = tcb[c].rcv_nxt
    BY <1>7, <1>8, <1>10
  <2>3. QED
    BY ONLY <1>2, <1>3, <1>7, <1>9, <2>1, <2>2, StreamTail
<1>13. PktInv'
  BY <1>1 DEF PktInv, Handling
<1>14. /\ UNCHANGED <<alive, rin, arp, tcb_set, fd_table, t, script, peer, reads, missed>>
       /\ TcpInv /\ p.pc \notin {"signal", "accept"} /\ p' \in PktRecord
       /\ r.rcv_nxt + Due(p', c) = tcb[c].rcv_nxt + Due(p, c)
       /\ InHand(p', c) = InHand(p, c)
       /\ \A d \in Client : d # c => Due(p', d) = Due(p, d) /\ InHand(p', d) = InHand(p, d)
  BY <1>1, <1>2, <1>8
<1>15. QED
  BY ONLY <1>6, <1>8, <1>9, <1>11, <1>12, <1>13, <1>14, QuietWrites

(* A queue of one element is the same after a turn. *)
LEMMA TurnOne ==
  ASSUME NEW s \in Seq(Segment), s # <<>>, Len(s) <= 1
  PROVE  Append(Tail(s), Head(s)) = s
<1>1. Len(s) = 1
  <2> DEFINE l == Len(s)
  <2>1. l \in Nat /\ l # 0 /\ l <= 1
    BY EmptySeq
  <2> HIDE DEF l
  <2>2. l = 1
    BY <2>1
  <2>3. QED
    BY <2>2 DEF l
<1>2. Len(Tail(s)) = 0 /\ Tail(s) \in Seq(Segment) /\ Head(s) = s[1] /\ Head(s) \in Segment
  BY <1>1
<1>3. /\ Append(Tail(s), Head(s)) \in Seq(Segment) /\ Len(Append(Tail(s), Head(s))) = 1
      /\ Append(Tail(s), Head(s))[1] = s[1]
  BY <1>2
<1>4. \A i \in 1 .. Len(s) : Append(Tail(s), Head(s))[i] = s[i]
  <2>1. \A i \in 1 .. Len(s) : i = 1
    BY <1>1
  <2>2. QED
    BY <1>3, <2>1
<1>5. QED
  BY <1>1, <1>3, <1>4, SeqEqual

(* ng_tcp_out without it: the only fragment goes back to where it was. *)
LEMMA OutUnknownStep ==
  ASSUME TcpInv, NEW c \in Client, ng_tcp_out(c), c \notin arp
  PROVE  TcpInv'
<1> DEFINE s == tcb[c].sndbuf
<1>1. /\ p.pc = "poll" /\ s # <<>> /\ (rout' = rout \/ rout' = Append(rout, Arp(c)))
      /\ tcb' = [tcb EXCEPT ![c].sndbuf = Append(Tail(s), Head(s))]
      /\ alive' = alive /\ rin' = rin /\ arp' = arp /\ tcb_set' = tcb_set /\ p' = p /\ t' = t
      /\ fd_table' = fd_table /\ script' = script /\ peer' = peer /\ reads' = reads
      /\ missed' = missed
  BY DEF ng_tcp_out, ng_get_dst_macaddr, world, ghosts
<1>2. /\ tcb[c] \in Stream /\ tcb \in [Client -> Stream] /\ rout \in Seq(Segment) /\ p \in PktRecord
      /\ rin \in Seq(Segment) /\ arp \subseteq Host
  BY DEF TcpInv, Types, PktRecord
<1>3. s \in Seq(Segment) /\ Len(s) <= 1 /\ RingOut(rout, tcb, peer, arp) /\ TcpPeers(rin)
  BY <1>2, StreamFields DEF TcpInv, OutInv, StreamOut
<1>4. Append(Tail(s), Head(s)) = s
  BY <1>1, <1>3, TurnOne
<1>5. tcb' = tcb
  <2>1. tcb' = [tcb EXCEPT ![c].sndbuf = s]
    BY <1>1, <1>4
  <2>2. [tcb[c] EXCEPT !.sndbuf = tcb[c].sndbuf] = tcb[c]
    BY <1>2 DEF Stream
  <2>3. QED
    BY <1>2, <2>1, <2>2
<1>6. RingOut(rout', tcb, peer, arp) /\ rout' \in Seq(Segment)
  <2>1. Arp(c) \in Segment /\ Arp(c).kind # "tcp" /\ OutOK(Arp(c), tcb, peer)
    BY Apart, ArpFacts
  <2>2. RingOut(Append(rout, Arp(c)), tcb, peer, arp) /\ Append(rout, Arp(c)) \in Seq(Segment)
    BY ONLY <1>2, <1>3, <2>1, RingAppend
  <2>3. QED
    BY <1>1, <1>2, <1>3, <2>2
<1>7. \A d \in Client : \E j \in Int : Shifted(rin, rin', d, j)
  <2>1. 0 \in Int /\ \A d \in Client : Shifted(rin, rin', d, 0)
    BY <1>1, <1>2, ShiftSame
  <2>2. QED
    BY <2>1
<1>8. /\ UNCHANGED <<alive, tcb_set, tcb, fd_table, t, script, peer, reads, missed>> /\ TcpInv
      /\ arp \subseteq arp' /\ arp' \subseteq Host /\ rin' \in Seq(Segment) /\ TcpPeers(rin')
      /\ p' \in PktRecord /\ p' = p
  BY <1>1, <1>2, <1>3, <1>5
<1>9. QED
  BY ONLY <1>6, <1>7, <1>8, RingOnly

(* A fragment is queued at the end of rcvbuf. *)
GrownBy(buf, x, nb) ==
  /\ Len(nb) = Len(buf) + 1 /\ nb[Len(buf) + 1] = x
  /\ \A i \in 1 .. Len(buf) : nb[i] = buf[i]

(* The beginning of a new message is queued: it counts as begun. *)
LEMMA QueueStarted ==
  ASSUME NEW buf \in Seq(Fragment), NEW r, NEW x \in Fragment, NEW nb, GrownBy(buf, x, nb), x.off = 0
  PROVE  Started(r, nb) = Started(r, buf) \cup (IF x.len > 0 THEN {x.msg} ELSE {})
<1>1. Len(buf) \in Nat /\ x.msg \in Nat
  BY DEF Fragment
<1>2. \A i \in 1 .. Len(nb) : i \in 1 .. Len(buf) \/ i = Len(buf) + 1
  BY <1>1 DEF GrownBy
<1>3. \A i \in 1 .. Len(buf) : i \in 1 .. Len(nb) /\ nb[i] = buf[i]
  BY <1>1 DEF GrownBy
<1>4. Len(buf) + 1 \in 1 .. Len(nb) /\ nb[Len(buf) + 1] = x
  BY <1>1 DEF GrownBy
<1>5. ASSUME NEW m \in Started(r, nb)
      PROVE  m \in Started(r, buf) \cup (IF x.len > 0 THEN {x.msg} ELSE {})
  BY <1>2, <1>3, <1>4 DEF Started
<1>6. ASSUME NEW m \in Started(r, buf)
      PROVE  m \in Started(r, nb)
  BY <1>3 DEF Started
<1>7. x.len > 0 => x.msg \in Started(r, nb)
  BY <1>1, <1>4 DEF Started
<1>8. QED
  BY <1>5, <1>6, <1>7

(* A new message, the next one, is queued behind the others. *)
LEMMA QueueMessage ==
  ASSUME NEW buf \in Seq(Fragment), NEW r \in Seq(Nat \X Nat), NEW x \in Fragment, NEW nb,
         GrownBy(buf, x, nb), x.off = 0, x.len > 0, Fragments(buf, r), ReadStarts(r),
         \A k \in Started(r, buf) : k < x.msg, x.msg = 1 \/ x.msg - 1 \in Started(r, buf)
  PROVE  Fragments(nb, r)
<1> DEFINE n == Len(buf)
<1>1. n \in Nat /\ x.msg \in Nat /\ x.len \in Nat /\ x.off \in Nat
  BY DEF Fragment
<1>2. /\ Len(nb) = n + 1 /\ nb[n + 1] = x /\ \A i \in 1 .. n : nb[i] = buf[i]
      /\ \A i \in 1 .. n : buf[i].msg \in Nat /\ buf[i].off \in Nat /\ buf[i].len \in Nat
  <2>1. \A i \in 1 .. n : buf[i] \in Fragment
    OBVIOUS
  <2>2. \A i \in 1 .. n : buf[i].msg \in Nat /\ buf[i].off \in Nat /\ buf[i].len \in Nat
    BY <2>1 DEF Fragment
  <2>3. QED
    BY <2>2 DEF GrownBy
<1>3. \A i \in 1 .. n : buf[i].len > 0 => buf[i].msg \in Started(r, buf)
  <2>1. SUFFICES ASSUME NEW i \in 1 .. n, buf[i].len > 0 PROVE buf[i].msg \in Started(r, buf)
    OBVIOUS
  <2>2. buf[i].msg \in Nat /\ (buf[i].off = 0 \/ buf[i].off > 0)
    BY <1>2
  <2>3. buf[i].off > 0 => <<buf[i].msg, 0>> \in ToSet(r)
    BY <2>1 DEF Fragments
  <2>4. QED
    BY ONLY <2>1, <2>2, <2>3 DEF Started
<1>4. \A k \in 1 .. Len(r) : r[k][1] # x.msg
  <2>1. SUFFICES ASSUME NEW k \in 1 .. Len(r) PROVE r[k][1] # x.msg
    OBVIOUS
  <2>2. r[k][1] \in Nat
    OBVIOUS
  <2>3. r[k][1] \in Started(r, buf)
    BY <2>2 DEF ReadStarts, Started
  <2>4. r[k][1] < x.msg
    BY <2>3
  <2>5. QED
    BY <1>1, <2>2, <2>4
<1>5. \A i \in 1 .. n : buf[i].len > 0 => buf[i].msg # x.msg
  <2>1. SUFFICES ASSUME NEW i \in 1 .. n, buf[i].len > 0 PROVE buf[i].msg # x.msg
    OBVIOUS
  <2>2. buf[i].msg < x.msg
    BY <1>3, <2>1
  <2>3. QED
    BY <1>1, <1>2, <2>2
<1>6. \/ x.msg = 1 \/ <<x.msg - 1, 0>> \in ToSet(r)
      \/ \E j \in 1 .. n : buf[j].msg = x.msg - 1 /\ buf[j].off = 0 /\ buf[j].len > 0
  BY DEF Started
<1> HIDE DEF n
<1>7. SUFFICES ASSUME NEW i \in 1 .. Len(nb)
      PROVE  /\ \A j \in 1 .. Len(nb) : i # j => nb[i].len > 0 \/ nb[j].len > 0
             /\ nb[i].len > 0 =>
                  /\ \A j \in 1 .. Len(nb) : i # j /\ nb[j].len > 0 => nb[i].msg # nb[j].msg
                  /\ \A k \in 1 .. Len(r) : r[k][1] = nb[i].msg => r[k][2] < nb[i].off
                  /\ nb[i].off = 0 =>
                      \/ nb[i].msg = 1 \/ <<nb[i].msg - 1, 0>> \in ToSet(r)
                      \/ \E j \in 1 .. i - 1 : nb[j].msg = nb[i].msg - 1 /\ nb[j].off = 0 /\ nb[j].len > 0
                  /\ nb[i].off > 0 =>
                      <<nb[i].msg, nb[i].off - BUFFER_SIZE>> \in ToSet(r) /\ <<nb[i].msg, 0>> \in ToSet(r)
  BY DEF Fragments
<1>8. \A j \in 1 .. Len(nb) : j \in 1 .. n \/ j = n + 1
  BY <1>1, <1>2
<1>9. CASE i = n + 1
  <2>1. nb[i] = x /\ i - 1 = n
    BY <1>1, <1>2, <1>9
  <2>2. \A j \in 1 .. Len(nb) : i # j => j \in 1 .. n /\ nb[j] = buf[j]
    BY <1>2, <1>8, <1>9
  <2>3. \A j \in 1 .. Len(nb) : i # j /\ nb[j].len > 0 => x.msg # nb[j].msg
    BY <1>5, <2>2
  <2>4. \/ x.msg = 1 \/ <<x.msg - 1, 0>> \in ToSet(r)
        \/ \E j \in 1 .. n : nb[j].msg = x.msg - 1 /\ nb[j].off = 0 /\ nb[j].len > 0
    BY <1>2, <1>6
  <2>5. ~(x.off > 0)
    BY <1>1
  <2>6. QED
    BY <1>4, <2>1, <2>3, <2>4, <2>5
<1>10. CASE i \in 1 .. n
  <2>1. nb[i] = buf[i]
    BY <1>2, <1>10
  <2>2. /\ \A j \in 1 .. n : i # j => buf[i].len > 0 \/ buf[j].len > 0
        /\ buf[i].len > 0 =>
             /\ \A j \in 1 .. n : i # j /\ buf[j].len > 0 => buf[i].msg # buf[j].msg
             /\ \A k \in 1 .. Len(r) : r[k][1] = buf[i].msg => r[k][2] < buf[i].off
             /\ buf[i].off = 0 =>
                  \/ buf[i].msg = 1 \/ <<buf[i].msg - 1, 0>> \in ToSet(r)
                  \/ \E j \in 1 .. i - 1 : buf[j].msg = buf[i].msg - 1 /\ buf[j].off = 0 /\ buf[j].len > 0
             /\ buf[i].off > 0 =>
                  <<buf[i].msg, buf[i].off - BUFFER_SIZE>> \in ToSet(r) /\ <<buf[i].msg, 0>> \in ToSet(r)
    BY <1>10 DEF Fragments, n
  <2>3. \A j \in 1 .. Len(nb) : i # j => nb[i].len > 0 \/ nb[j].len > 0
    BY <1>2, <1>8, <2>1, <2>2
  <2>4. nb[i].len > 0 => \A j \in 1 .. Len(nb) : i # j /\ nb[j].len > 0 => nb[i].msg # nb[j].msg
    BY <1>2, <1>5, <1>8, <1>10, <2>1, <2>2
  <2>5. \A j \in 1 .. i - 1 : j \in 1 .. n /\ nb[j] = buf[j]
    BY <1>1, <1>2, <1>10
  <2>6. (nb[i].len > 0 /\ nb[i].off = 0) =>
          \/ nb[i].msg = 1 \/ <<nb[i].msg - 1, 0>> \in ToSet(r)
          \/ \E j \in 1 .. i - 1 : nb[j].msg = nb[i].msg - 1 /\ nb[j].off = 0 /\ nb[j].len > 0
    BY <2>1, <2>2, <2>5
  <2>7. QED
    BY <2>1, <2>2, <2>3, <2>4, <2>6
<1>11. QED
  BY <1>8, <1>9, <1>10

(* The empty fragment of the FIN is queued behind the others. *)
LEMMA QueueEnd ==
  ASSUME NEW buf \in Seq(Fragment), NEW r, NEW x \in Fragment, NEW nb,
         GrownBy(buf, x, nb), x.len = 0, Fragments(buf, r),
         \A i \in 1 .. Len(buf) : buf[i].len > 0
  PROVE  Fragments(nb, r)
<1> DEFINE n == Len(buf)
<1>1. n \in Nat
  OBVIOUS
<1>2. /\ Len(nb) = n + 1 /\ nb[n + 1] = x /\ \A i \in 1 .. n : nb[i] = buf[i] /\ nb[i].len > 0
  BY DEF GrownBy
<1>3. ~(x.len > 0)
  OBVIOUS
<1> HIDE DEF n
<1>4. \A j \in 1 .. n + 1 : j \in 1 .. n \/ j = n + 1
  BY <1>1
<1>5. SUFFICES ASSUME NEW i \in 1 .. n + 1
      PROVE  /\ \A j \in 1 .. n + 1 : i # j => nb[i].len > 0 \/ nb[j].len > 0
             /\ nb[i].len > 0 =>
                  /\ \A j \in 1 .. n + 1 : i # j /\ nb[j].len > 0 => nb[i].msg # nb[j].msg
                  /\ \A k \in 1 .. Len(r) : r[k][1] = nb[i].msg => r[k][2] < nb[i].off
                  /\ nb[i].off = 0 =>
                      \/ nb[i].msg = 1 \/ <<nb[i].msg - 1, 0>> \in ToSet(r)
                      \/ \E j \in 1 .. i - 1 : nb[j].msg = nb[i].msg - 1 /\ nb[j].off = 0 /\ nb[j].len > 0
                  /\ nb[i].off > 0 =>
                      <<nb[i].msg, nb[i].off - BUFFER_SIZE>> \in ToSet(r) /\ <<nb[i].msg, 0>> \in ToSet(r)
  BY <1>2 DEF Fragments
<1>6. \A j \in 1 .. n + 1 : i # j => nb[i].len > 0 \/ nb[j].len > 0
  BY <1>2, <1>4
<1>7. CASE i = n + 1
  BY <1>2, <1>3, <1>6, <1>7
<1>8. CASE i \in 1 .. n
  <2>1. nb[i] = buf[i] /\ nb[i].len > 0
    BY <1>2, <1>8
  <2>2. /\ \A j \in 1 .. n : i # j /\ buf[j].len > 0 => buf[i].msg # buf[j].msg
        /\ \A k \in 1 .. Len(r) : r[k][1] = buf[i].msg => r[k][2] < buf[i].off
        /\ buf[i].off = 0 =>
             \/ buf[i].msg = 1 \/ <<buf[i].msg - 1, 0>> \in ToSet(r)
             \/ \E j \in 1 .. i - 1 : buf[j].msg = buf[i].msg - 1 /\ buf[j].off = 0 /\ buf[j].len > 0
        /\ buf[i].off > 0 =>
             <<buf[i].msg, buf[i].off - BUFFER_SIZE>> \in ToSet(r) /\ <<buf[i].msg, 0>> \in ToSet(r)
    BY <1>8, <2>1 DEF Fragments, n
  <2>3. \A j \in 1 .. n + 1 : i # j /\ nb[j].len > 0 => nb[i].msg # nb[j].msg
    BY <1>2, <1>3, <1>4, <2>1, <2>2
  <2>4. \A j \in 1 .. i - 1 : j \in 1 .. n /\ nb[j] = buf[j]
    BY <1>1, <1>2, <1>8
  <2>5. nb[i].off = 0 =>
          \/ nb[i].msg = 1 \/ <<nb[i].msg - 1, 0>> \in ToSet(r)
          \/ \E j \in 1 .. i - 1 : nb[j].msg = nb[i].msg - 1 /\ nb[j].off = 0 /\ nb[j].len > 0
    BY <2>1, <2>2, <2>4
  <2>6. QED
    BY <1>6, <2>1, <2>2, <2>3, <2>5
<1>9. QED
  BY <1>4, <1>7, <1>8

(* Append queues. *)
LEMMA QueueAppend ==
  ASSUME NEW buf \in Seq(Fragment), NEW x \in Fragment
  PROVE  /\ Append(buf, x) \in Seq(Fragment) /\ Append(buf, x) # <<>>
         /\ GrownBy(buf, x, Append(buf, x))
BY DEF GrownBy

(* ng_tcp_enqueue_recvbuffer: the data, or the end of it, is queued. *)
LEMMA EnqueueStep ==
  ASSUME TcpInv, ng_tcp_enqueue_recvbuffer
  PROVE  TcpInv'
<1>0. PICK c : c = p.seg.peer
  OBVIOUS
<1> DEFINE x == IF p.part = "PSH" THEN Received(p.seg.msg, 0, p.seg.len) ELSE Received(0, 0, 0)
           st == IF p.part = "FIN" THEN "CLOSE_WAIT" ELSE tcb[c].status
           q == Append(tcb[c].rcvbuf, x)
           r == [tcb[c] EXCEPT !.rcvbuf = q, !.status = st]
           got == Started(reads[c], tcb[c].rcvbuf)
<1>1. /\ p.pc = "enqueue" /\ p' = [p EXCEPT !.pc = "signal"] /\ t' = t
      /\ tcb' = [tcb EXCEPT ![c].rcvbuf = Append(@, x),
                            ![c].status = IF p.part = "FIN" THEN "CLOSE_WAIT" ELSE @]
      /\ alive' = alive /\ rin' = rin /\ rout' = rout /\ arp' = arp /\ tcb_set' = tcb_set
      /\ fd_table' = fd_table /\ script' = script /\ peer' = peer /\ reads' = reads
      /\ missed' = missed
  BY <1>0 DEF ng_tcp_enqueue_recvbuffer, PktStep, pseg, world, ghosts
<1>2. /\ p \in PktRecord /\ p.seg \in Segment /\ c \in Client /\ p.part \in {"PSH", "FIN"}
      /\ p.seg.len \in Nat /\ p.seg.msg \in Nat /\ tcb[c].status = "ESTABLISHED"
      /\ p.part = "PSH" => p.seg.len > 0
  BY <1>0, <1>1, HandFacts DEF Handling
<1>3. /\ tcb[c] \in Stream /\ tcb \in [Client -> Stream] /\ peer \in [Client -> PeerEnd]
      /\ peer[c] \in PeerEnd /\ rout \in Seq(Segment) /\ rin \in Seq(Segment)
      /\ reads[c] \in Seq(Nat \X Nat) /\ tcb[c].rcvbuf \in Seq(Fragment)
  BY <1>2, StreamFields DEF TcpInv, Types
<1>4. /\ x \in Fragment /\ x.off = 0
      /\ p.part = "PSH" => x.len > 0 /\ x.msg = p.seg.msg
      /\ p.part = "FIN" => x.len = 0
  BY <1>2 DEF Fragment, Received
<1>5. st \in Status /\ st = IF p.part = "FIN" THEN "CLOSE_WAIT" ELSE "ESTABLISHED"
  BY <1>2 DEF Status
<1>6. tcb' = [tcb EXCEPT ![c] = r]
  BY <1>1, <1>2, <1>3
<1>7. p' \in PktRecord /\ p'.pc = "signal" /\ p'.seg = p.seg /\ p'.part = p.part
  BY <1>1, <1>2 DEF PktRecord, PktPc
<1> HIDE DEF x, st
<1>8. q \in Seq(Fragment) /\ q # <<>> /\ GrownBy(tcb[c].rcvbuf, x, q)
  BY <1>3, <1>4, QueueAppend
<1> HIDE DEF q
<1>9. /\ r \in Stream /\ r.fd = tcb[c].fd /\ r.status = st /\ r.snd_nxt = tcb[c].snd_nxt
       /\ r.rcv_nxt = tcb[c].rcv_nxt /\ r.sndbuf = tcb[c].sndbuf /\ r.rcvbuf = q
  BY <1>3, <1>5, <1>8 DEF Stream
<1> HIDE DEF r
<1>10. /\ r \in Stream /\ r.fd = tcb[c].fd /\ r.status = st /\ r.snd_nxt = tcb[c].snd_nxt
       /\ r.rcv_nxt = tcb[c].rcv_nxt /\ r.sndbuf = tcb[c].sndbuf
       /\ GrownBy(tcb[c].rcvbuf, x, r.rcvbuf) /\ r.rcvbuf # <<>>
  BY <1>8, <1>9
<1>11. /\ tcb' \in [Client -> Stream] /\ tcb'[c] = r /\ \A d \in Client : d # c => tcb'[d] = tcb[d]
  BY ONLY <1>2, <1>3, <1>6, <1>10, UpdateFacts
<1>12. /\ "FIN" \in p.seg.flags => peer[c].st \in Finished /\ NoData(rin, c)
       /\ p.part = "PSH" => (\A k \in got : k < x.msg) /\ (x.msg = 1 \/ x.msg - 1 \in got)
       /\ p.part \in p.seg.flags
  <2>1. PktInv /\ p.pc \in Handling
    BY <1>1 DEF TcpInv, Handling
  <2>2. QED
    BY <1>0, <1>1, <1>4, <2>1 DEF PktInv
<1>13. StatusStep(tcb[c].status, r.status)
  BY <1>2, <1>5, <1>10 DEF StatusStep
<1>14. \A d \in Client : d # c => Due(p', d) = Due(p, d) /\ InHand(p', d) = InHand(p, d)
  <2>1. p.seg.peer = c /\ p'.seg.peer = c
    BY <1>0, <1>7
  <2>2. QED
    BY <2>1, OthersHand
<1>15. Due(p', c) = Due(p, c)
  BY <1>1, <1>7 DEF Due
<1>16. Started(reads[c], r.rcvbuf) \cup InHand(p', c) = got \cup InHand(p, c)
  <2>1. Started(reads[c], r.rcvbuf) = got \cup (IF x.len > 0 THEN {x.msg} ELSE {})
    BY <1>3, <1>4, <1>10, QueueStarted
  <2>2. InHand(p', c) = {}
    BY <1>7 DEF InHand
  <2>3. InHand(p, c) = IF p.part = "PSH" THEN {p.seg.msg} ELSE {}
    BY <1>0, <1>1, <1>2 DEF InHand
  <2>4. x.len > 0 <=> p.part = "PSH"
    BY <1>2, <1>4
  <2>5. QED
    BY <1>4, <2>1, <2>2, <2>3, <2>4
<1> HIDE DEF got
<1>17. Line(c)'
  <2>1. Line(c)
    BY <1>2 DEF TcpInv, LineInv
  <2>2. Forms(rin, c, peer[c])
    BY <2>1 DEF Line
  <2>3. Phase(rin, c, r.status, peer[c])
    <3>1. Phase(rin, c, "ESTABLISHED", peer[c])
      BY <1>2, <2>1 DEF Line
    <3>2. CASE p.part = "PSH"
      BY <1>5, <1>10, <3>1, <3>2
    <3>3. CASE p.part = "FIN"
      BY <1>5, <1>10, <1>12, <3>1, <3>3 DEF Phase
    <3>4. QED
      BY <1>2, <3>2, <3>3
  <2>4. Chain(rin, c, r.rcv_nxt + Due(p', c), peer[c].cnt)
    BY <1>2, <1>10, <1>15, <2>1 DEF Line
  <2>5. Messages(rin, c, Started(reads[c], r.rcvbuf) \cup InHand(p', c), peer[c].pushes,
                 peer[c].st = "ESTABLISHED")
    BY <1>16, <2>1 DEF Line, got
  <2>6. QED
    BY ONLY <1>1, <1>11, <2>2, <2>3, <2>4, <2>5 DEF Line
<1>18. \A d \in Client : /\ tcb'[d].fd = tcb[d].fd /\ tcb'[d].sndbuf = tcb[d].sndbuf
                         /\ tcb'[d].snd_nxt = tcb[d].snd_nxt /\ tcb'[d].rcv_nxt = tcb[d].rcv_nxt
                         /\ tcb'[d].status \in {"none", "freed"} <=> tcb[d].status \in {"none", "freed"}
                         /\ tcb'[d].status = "SYN_RCVD" <=> tcb[d].status = "SYN_RCVD"
                         /\ tcb'[d].status = "LAST_ACK" => tcb[d].status = "LAST_ACK"
                         /\ tcb[d].status # "none" => tcb'[d].status # "none"
  BY <1>2, <1>5, <1>10, <1>11
<1>19. ListInv'
  BY <1>1, <1>18 DEF TcpInv, ListInv, Listed
<1>20. InUseInv'
  BY <1>1, <1>18, InUseKept DEF TcpInv
<1>21. SignalInv'
  <2>1. \A d \in Client : Listed(d)' <=> Listed(d)
    BY <1>1 DEF Listed
  <2>2. t.pc \in {"hold", "recv_wait"} => t.cur \in Client
    BY ServerTypes DEF Working, Receiving
  <2>3. SignalInv
    BY DEF TcpInv
  <2>4. ASSUME t'.pc \in {"hold", "recv_wait"}, tcb'[t'.cur].rcvbuf # <<>>
        PROVE  p'.seg.peer = t'.cur
    <3>1. t.cur = c
      BY <1>1, <1>11, <2>2, <2>3, <2>4 DEF SignalInv
    <3>2. QED
      BY <1>0, <1>1, <1>7, <3>1
  <2>5. ASSUME NEW d \in Client, Listed(d)', tcb'[d].fd = -1, tcb'[d].status # "SYN_RCVD"
        PROVE  t'.pc # "accept_wait" /\ (t'.pc = "pick" => t'.iter = d)
    BY <1>1, <1>18, <2>1, <2>3, <2>5 DEF SignalInv
  <2>6. QED
    BY <1>7, <2>4, <2>5 DEF SignalInv
<1>22. PktInv'
  <2>1. tcb'[p'.seg.peer].status = st
    BY <1>0, <1>7, <1>10, <1>11
  <2>2. PktInv
    BY DEF TcpInv
  <2>3. QED
    BY ONLY <1>1, <1>2, <1>5, <1>7, <2>1, <2>2 DEF PktInv, Handling
<1>23. ReadInv'
  <2>1. ReadInv /\ ServerInv
    BY DEF TcpInv
  <2>2. /\ Fragments(tcb[c].rcvbuf, reads[c]) /\ ReadStarts(reads[c])
        /\ \A i \in 1 .. Len(tcb[c].rcvbuf) : tcb[c].rcvbuf[i].len # 0
    BY <1>2, <2>1 DEF ReadInv, ReadStarts
  <2>3. \A i \in 1 .. Len(tcb[c].rcvbuf) : tcb[c].rcvbuf[i].len \in Nat
    <3>1. \A i \in 1 .. Len(tcb[c].rcvbuf) : tcb[c].rcvbuf[i] \in Fragment
      BY <1>3
    <3>2. QED
      BY <3>1 DEF Fragment
  <2>4. \A i \in 1 .. Len(tcb[c].rcvbuf) : tcb[c].rcvbuf[i].len > 0
    BY <2>2, <2>3
  <2>5. Fragments(r.rcvbuf, reads[c])
    <3>1. CASE p.part = "PSH"
      BY ONLY <1>3, <1>4, <1>10, <1>12, <2>2, <3>1, QueueMessage DEF got
    <3>2. CASE p.part = "FIN"
      BY ONLY <1>3, <1>4, <1>10, <2>2, <2>4, <3>2, QueueEnd
    <3>3. QED
      BY <1>2, <3>1, <3>2
  <2>6. ~(t.cur = c /\ t.pc \in Closing)
    BY <1>2, <2>1 DEF ServerInv
  <2>7. ASSUME NEW i \in 1 .. Len(r.rcvbuf), r.rcvbuf[i].len = 0
        PROVE  st = "CLOSE_WAIT"
    <3>1. Len(tcb[c].rcvbuf) \in Nat
      BY <1>3
    <3>2. i \in 1 .. Len(tcb[c].rcvbuf) \/ i = Len(tcb[c].rcvbuf) + 1
      BY <1>10, <2>7, <3>1 DEF GrownBy
    <3>3. i \notin 1 .. Len(tcb[c].rcvbuf)
      BY <1>10, <2>2, <2>7 DEF GrownBy
    <3>4. x.len = 0
      BY <1>10, <2>7, <3>2, <3>3 DEF GrownBy
    <3>5. p.part = "FIN"
      BY <1>2, <1>4, <3>4
    <3>6. QED
      BY <1>5, <3>5
  <2>8. r.status \notin {"none", "SYN_RCVD", "freed"}
    BY <1>5, <1>10
  <2>9. ASSUME NEW d \in Client
        PROVE  /\ Fragments(tcb'[d].rcvbuf, reads'[d])
               /\ \A i \in 1 .. Len(reads'[d]) : <<reads'[d][i][1], 0>> \in ToSet(reads'[d])
               /\ tcb'[d].status \in {"none", "SYN_RCVD", "freed"} => tcb'[d].rcvbuf = <<>>
               /\ \A i \in 1 .. Len(tcb'[d].rcvbuf) : tcb'[d].rcvbuf[i].len = 0 =>
                    tcb'[d].status = "CLOSE_WAIT" /\ ~(t'.cur = d /\ t'.pc \in Closing)
    <3>1. CASE d = c
      <4>1. tcb'[d] = r /\ reads'[d] = reads[c] /\ t' = t
        BY <1>1, <1>11, <3>1
      <4>2. \A i \in 1 .. Len(reads[c]) : <<reads[c][i][1], 0>> \in ToSet(reads[c])
        BY <2>2 DEF ReadStarts
      <4>3. \A i \in 1 .. Len(r.rcvbuf) : r.rcvbuf[i].len = 0 =>
              r.status = "CLOSE_WAIT" /\ ~(t.cur = d /\ t.pc \in Closing)
        BY <1>10, <2>6, <2>7, <3>1
      <4>4. QED
        BY ONLY <2>5, <2>8, <4>1, <4>2, <4>3
    <3>2. CASE d # c
      <4>1. tcb'[d] = tcb[d] /\ reads' = reads /\ t' = t
        BY <1>1, <1>11, <3>2
      <4>2. d \in Client
        OBVIOUS
      <4>3. QED
        BY ONLY <2>1, <4>1, <4>2 DEF ReadInv
    <3>3. QED
      BY <3>1, <3>2
  <2>10. QED
    BY <2>9 DEF ReadInv
<1>24. StreamOut(c, tcb', peer, arp) /\ RingOut(rout', tcb, peer, arp)
  <2>1. Ahead(tcb, peer, tcb', peer)
    BY <1>3, <1>18, OnwardSame DEF Ahead
  <2>2. (peer[c].st \in Opening \/ peer[c].st \notin Opening) /\ StreamOut(c, tcb, peer, arp)
    BY <1>2 DEF TcpInv, OutInv
  <2>3. StreamOut(c, tcb', peer, arp)
    BY ONLY <1>2, <1>3, <1>11, <1>18, <2>1, <2>2, StreamLater
  <2>4. QED
    BY <1>1, <2>3 DEF TcpInv, OutInv
<1>25. /\ UNCHANGED <<alive, arp, fd_table, t, script, peer, reads, missed>>
       /\ rin' \in Seq(Segment) /\ TcpPeers(rin') /\ rout' \in Seq(Segment) /\ TcpInv
  BY <1>1, <1>3 DEF TcpInv, OutInv
<1>26. \A d \in Client : d # c => \E j \in Int : Shifted(rin, rin', d, j)
  <2>1. 0 \in Int /\ \A d \in Client : Shifted(rin, rin', d, 0)
    BY <1>1, <1>3, ShiftSame
  <2>2. QED
    BY <2>1
<1>27. QED
  BY ONLY <1>2, <1>6, <1>7, <1>10, <1>13, <1>14, <1>17, <1>19, <1>20, <1>21, <1>22, <1>23, <1>24,
     <1>25, <1>26, PktWrites

------------------------------------------------------------------------------
(* The peers.                                                               *)
(* One client goes on and sends a segment of its own.                       *)
LEMMA PeerStep ==
  ASSUME TcpInv, NEW c \in Client, NEW e \in PeerEnd, peer' = [peer EXCEPT ![c] = e],
         Onward(peer[c], e), NEW x \in Segment, x.kind = "tcp", x.peer = c, rin' = Append(rin, x),
         UNCHANGED <<alive, arp, tcb_set, tcb, fd_table, p, t, script, reads, missed>>,
         rout' \in Seq(Segment), RingOut(rout', tcb, peer, arp),
         e.st \in Opening \/ peer[c].st \notin Opening \/ c \in arp,
         peer[c].st \in Finished => ~Data(x), Line(c)'
  PROVE  TcpInv'
<1>1. /\ alive' = alive /\ arp' = arp /\ tcb_set' = tcb_set /\ tcb' = tcb /\ fd_table' = fd_table
      /\ p' = p /\ t' = t /\ script' = script /\ reads' = reads /\ missed' = missed
  OBVIOUS
<1>2. /\ c \in Client /\ e \in PeerEnd /\ peer' = [peer EXCEPT ![c] = e] /\ x \in Segment
      /\ x.kind = "tcp" /\ x.peer = c /\ rin' = Append(rin, x) /\ Onward(peer[c], e)
      /\ Line(c)' /\ RingOut(rout', tcb, peer, arp) /\ rout' \in Seq(Segment)
      /\ (e.st \in Opening \/ peer[c].st \notin Opening \/ c \in arp)
  OBVIOUS
<1>3. /\ peer \in [Client -> PeerEnd] /\ rin \in Seq(Segment) /\ TcpPeers(rin)
      /\ tcb \in [Client -> Stream]
  BY DEF TcpInv, Types, OutInv
<1>4. /\ peer' \in [Client -> PeerEnd] /\ peer'[c] = e
      /\ \A d \in Client : d # c => peer'[d] = peer[d]
  BY ONLY <1>2, <1>3, PeerUpdateFacts
<1>5. rin' \in Seq(Segment) /\ TcpPeers(rin')
  BY ONLY <1>2, <1>3, PeersAppend
<1>6. Pushed(rin, rin', c, x) /\ \A d \in Client : d # c => Shifted(rin, rin', d, 0)
  BY ONLY <1>2, <1>3, PushAppend, ShiftAppend
<1>7. AllOnward
  <2>1. SUFFICES ASSUME NEW d \in Client PROVE Onward(peer[d], peer'[d])
    BY DEF AllOnward
  <2>2. QED
    BY <1>2, <1>3, <1>4, OnwardSame
<1>8. Types'
  BY <1>1, <1>2, <1>4, <1>5 DEF TcpInv, Types
<1>9. ListInv'
  BY <1>1 DEF TcpInv, ListInv, Listed
<1>10. ServerInv'
  <2>1. PktStatus
    BY <1>1 DEF PktStatus, StatusStep
  <2>2. QED
    BY <1>1, <1>4, <1>7, <2>1, ServerKept DEF TcpInv
<1>11. InUseInv'
  BY <1>1 DEF TcpInv, InUseInv, Listed
<1>12. SignalInv'
  BY <1>1 DEF TcpInv, SignalInv, Listed
<1>13. LineInv'
  <2>1. SUFFICES ASSUME NEW d \in Client PROVE Line(d)'
    BY DEF LineInv
  <2>2. CASE d = c
    BY <1>2, <2>2
  <2>3. CASE d # c
    <3>1. Line(d) /\ tcb[d].rcv_nxt + Due(p, d) \in Nat /\ 0 \in Int /\ d \in Client
      BY DueFacts DEF TcpInv, LineInv
    <3>2. peer'[d] = peer[d] /\ peer[d] \in PeerEnd /\ Shifted(rin, rin', d, 0)
      BY <1>3, <1>4, <1>6, <2>3
    <3>3. QED
      BY ONLY <1>1, <1>3, <1>5, <3>1, <3>2, LineKept
  <2>4. QED
    BY <2>2, <2>3
<1>14. PktInv'
  <2>1. ASSUME NEW d \in Client, peer[d].st \in Finished, NoData(rin, d)
        PROVE  NoData(rin', d)
    <3>1. CASE d = c
      BY <1>6, <2>1, <3>1, PushNoData
    <3>2. CASE d # c
      BY <1>6, <2>1, <3>2, ShiftNoData
    <3>3. QED
      BY <3>1, <3>2
  <2>2. QED
    BY <1>1, <1>4, <1>7, <2>1, PktKept DEF TcpInv
<1>15. OutInv'
  <2>1. Ahead(tcb, peer, tcb', peer')
    BY <1>1, <1>3, <1>4, <1>7 DEF Ahead, AllOnward
  <2>2. RingOut(rout', tcb', peer', arp')
    BY ONLY <1>1, <1>2, <2>1, RingLater
  <2>3. ASSUME NEW d \in Client
        PROVE  StreamOut(d, tcb', peer', arp')
    <3>1. StreamOut(d, tcb, peer, arp) /\ d \in Client
      BY DEF TcpInv, OutInv
    <3>2. peer'[d].st \in Opening \/ peer[d].st \notin Opening \/ d \in arp'
      BY <1>1, <1>2, <1>4
    <3>3. QED
      BY ONLY <1>1, <1>3, <2>1, <3>1, <3>2, StreamLater
  <2>4. QED
    BY <1>5, <2>2, <2>3 DEF OutInv
<1>16. ReadInv' /\ ReadOnceInOrder'
  <2>1. ReadInv'
    BY <1>1 DEF TcpInv, ReadInv
  <2>2. ReadOnceInOrder
    BY DEF TcpInv
  <2>3. ReadOnceInOrder'
    BY ONLY <1>1, <2>2 DEF ReadOnceInOrder
  <2>4. QED
    BY <2>1, <2>3
<1>17. QED
  BY <1>8, <1>9, <1>10, <1>11, <1>12, <1>13, <1>14, <1>15, <1>16 DEF TcpInv

(* A client acknowledges what it received. *)
LEMMA PeerAcks ==
  ASSUME TcpInv, NEW c \in Client, NEW e \in PeerEnd, peer' = [peer EXCEPT ![c] = e],
         Onward(peer[c], e), e.cnt = peer[c].cnt, e.pushes = peer[c].pushes, e.st \notin Opening,
         e.st = "ESTABLISHED" => peer[c].st \in {"SYN_SENT", "ESTABLISHED"},
         NEW x \in Segment, x.kind = "tcp", x.peer = c, x.flags = {"ACK"}, x.len = 0, x.ack <= e.rcv,
         rin' = Append(rin, x), tcb[c].status # "none",
         UNCHANGED <<alive, arp, tcb_set, tcb, fd_table, p, t, script, reads, missed>>,
         rout' \in Seq(Segment), RingOut(rout', tcb, peer, arp),
         peer[c].st \notin Opening \/ c \in arp
  PROVE  TcpInv'
<1>1. ~Data(x) /\ ~IsPush(x) /\ "SYN" \notin x.flags
  BY DEF Data, IsPush
<1>2. /\ peer \in [Client -> PeerEnd] /\ rin \in Seq(Segment) /\ peer[c] \in PeerEnd
      /\ tcb[c] \in Stream /\ Line(c)
  BY DEF TcpInv, Types, LineInv
<1>3. /\ c \in Client /\ e \in PeerEnd /\ peer' = [peer EXCEPT ![c] = e] /\ x \in Segment
      /\ x.kind = "tcp" /\ x.peer = c /\ rin' = Append(rin, x) /\ Onward(peer[c], e)
      /\ RingOut(rout', tcb, peer, arp) /\ rout' \in Seq(Segment) /\ TcpInv
      /\ (e.st \in Opening \/ peer[c].st \notin Opening \/ c \in arp)
      /\ UNCHANGED <<alive, arp, tcb_set, tcb, fd_table, p, t, script, reads, missed>>
  OBVIOUS
<1>4. /\ peer' \in [Client -> PeerEnd] /\ peer'[c] = e
  BY ONLY <1>2, <1>3, PeerUpdateFacts
<1>5. Pushed(rin, rin', c, x) /\ rin' \in Seq(Segment)
  BY ONLY <1>2, <1>3, PushAppend
<1>6. Forms(rin', c, e)
  <2>1. Forms(rin, c, e)
    BY <1>2, FormsOnward DEF Line
  <2>2. Form(x, e)
    BY <1>1 DEF Form
  <2>3. QED
    BY ONLY <1>1, <1>2, <1>3, <1>5, <2>1, <2>2, PushForms
<1>7. Phase(rin, c, tcb[c].status, peer[c])
  BY <1>2 DEF Line
<1>8. Phase(rin', c, tcb[c].status, e)
  <2>1. tcb[c].status \in {"CLOSE_WAIT", "LAST_ACK", "freed"} => e.st \in Finished
    BY <1>7 DEF Phase, Onward
  <2>2. e.st \notin Opening /\ tcb[c].status # "none"
    OBVIOUS
  <2>3. QED
    BY ONLY <1>1, <1>2, <1>3, <1>5, <1>7, <2>1, <2>2, PushPhase
<1>9. tcb[c].status # "freed" => Chain(rin', c, tcb[c].rcv_nxt + Due(p, c), e.cnt)
  <2>1. tcb[c].rcv_nxt + Due(p, c) \in Nat /\ peer[c].cnt \in Nat /\ e.cnt = peer[c].cnt
    BY <1>2, DueFacts, PeerFields DEF TcpInv
  <2>2. tcb[c].status # "freed" => Chain(rin, c, tcb[c].rcv_nxt + Due(p, c), peer[c].cnt)
    BY <1>2 DEF Line
  <2>3. QED
    BY ONLY <1>1, <1>2, <1>3, <1>5, <2>1, <2>2, PushChainBare
<1>10. Messages(rin', c, Started(reads[c], tcb[c].rcvbuf) \cup InHand(p, c), e.pushes, e.st = "ESTABLISHED")
  <2> DEFINE open == peer[c].st = "ESTABLISHED"
             still == e.st = "ESTABLISHED"
             got == Started(reads[c], tcb[c].rcvbuf) \cup InHand(p, c)
  <2>1. Messages(rin, c, got, e.pushes, open)
    BY <1>2 DEF Line
  <2>2. still => open \/ e.pushes = 0
    BY <1>7 DEF Phase, Opening
  <2> HIDE DEF open, still, got
  <2>3. Messages(rin', c, got, e.pushes, still)
    BY ONLY <1>1, <1>2, <1>3, <1>5, <2>1, <2>2, PushMessagesBare
  <2>4. QED
    BY <2>3 DEF still, got
<1>11. Line(c)'
  BY ONLY <1>3, <1>4, <1>6, <1>8, <1>9, <1>10 DEF Line
<1>12. QED
  BY ONLY <1>1, <1>3, <1>11, PeerStep

(* A client opens its connection. *)
LEMMA ConnectStep ==
  ASSUME TcpInv, NEW c \in Client, Connect(c)
  PROVE  TcpInv'
<1> DEFINE x == Tcp(c, {"SYN"}, 0, 0, 0, 0)
           e == [peer[c] EXCEPT !.st = "SYN_SENT", !.snd = 1, !.cnt = 1]
           need == tcb[c].rcv_nxt + Due(p, c)
<1>1. /\ peer[c].st = "idle" /\ rin' = Append(rin, x) /\ rout' = rout
      /\ peer' = [peer EXCEPT ![c].st = "SYN_SENT", ![c].snd = 1, ![c].cnt = 1]
      /\ UNCHANGED <<alive, arp, tcb_set, tcb, fd_table, p, t, script, reads, missed>>
  BY DEF Connect, ToStack, ghosts
<1>2. /\ peer \in [Client -> PeerEnd] /\ rin \in Seq(Segment) /\ peer[c] \in PeerEnd
      /\ tcb[c] \in Stream /\ Line(c) /\ rout \in Seq(Segment) /\ c \in Client /\ TcpInv
      /\ RingOut(rout, tcb, peer, arp)
  BY DEF TcpInv, Types, LineInv, OutInv
<1>3. /\ x \in Segment /\ x.kind = "tcp" /\ x.peer = c /\ x.flags = {"SYN"} /\ x.len = 0 /\ x.seq = 0
      /\ x.ack = 0 /\ x.cnt = 0
  BY Apart DEF Tcp, Segment, Kind, Flag
<1>4. peer' = [peer EXCEPT ![c] = e]
  BY <1>1, <1>2
<1>5. /\ e \in PeerEnd /\ e.st = "SYN_SENT" /\ e.cnt = 1 /\ e.rcv = peer[c].rcv /\ e.pushes = peer[c].pushes
  <2>1. peer[c] \in PeerFrame
    BY <1>2 DEF PeerEnd, PeerFrame
  <2>2. /\ e \in PeerFrame /\ e.st = "SYN_SENT" /\ e.cnt = 1 /\ e.snd = 1 /\ e.rcv = peer[c].rcv
        /\ e.pushes = peer[c].pushes
    BY <2>1 DEF PeerFrame, PeerState
  <2> HIDE DEF e
  <2>3. QED
    BY <2>2 DEF PeerEnd, PeerFrame
<1> HIDE DEF x, e
<1>6. Data(x) /\ ~IsPush(x) /\ EndOf(x) = 1
  BY <1>3 DEF Data, IsPush, EndOf, Space
<1>7. Phase(rin, c, tcb[c].status, peer[c])
  BY <1>2 DEF Line
<1>8. tcb[c].status = "none" /\ peer[c].cnt = 0 /\ peer[c].rcv = 0 /\ peer[c].pushes = 0
  BY <1>1, <1>7 DEF Phase, Opening
<1>9. Onward(peer[c], e)
  BY <1>1, <1>5, <1>8 DEF Onward, Opening, Finished
<1>10. Pushed(rin, rin', c, x) /\ rin' \in Seq(Segment) /\ rin' = Append(rin, x)
  BY ONLY <1>1, <1>2, <1>3, PushAppend
<1>11. /\ peer' \in [Client -> PeerEnd] /\ peer'[c] = e
  BY ONLY <1>2, <1>4, <1>5, PeerUpdateFacts
<1>12. Forms(rin', c, e)
  <2>1. Forms(rin, c, e) /\ Forms(rin, c, peer[c])
    BY <1>2, <1>5, <1>9, FormsOnward DEF Line
  <2>2. Form(x, e)
    BY <1>3, <1>5, <1>6, <1>8 DEF Form, Opening
  <2>3. \A i \in Of(rin, c) : "FIN" \notin rin[i].flags
    BY <1>1, <2>1 DEF Forms, Form, Finished
  <2>4. QED
    BY ONLY <1>2, <1>3, <1>10, <2>1, <2>2, <2>3, PushForms
<1>13. Phase(rin', c, "none", e)
  <2>1. \A i \in Of(rin', c) : "SYN" \in rin'[i].flags
    BY <1>3, <1>7, <1>8, <1>10 DEF Phase, Pushed
  <2>2. QED
    BY <1>5, <1>8, <2>1 DEF Phase, Opening
<1>14. Chain(rin', c, need, e.cnt)
  <2>1. need \in Nat /\ peer[c].cnt \in Nat /\ x.cnt = peer[c].cnt
    BY <1>2, <1>3, <1>8, DueFacts, PeerFields DEF TcpInv
  <2>2. Chain(rin, c, need, peer[c].cnt)
    BY <1>2, <1>8 DEF Line
  <2> HIDE DEF need
  <2>3. Chain(rin', c, need, EndOf(x))
    BY ONLY <1>2, <1>3, <1>6, <1>10, <2>1, <2>2, PushChainData
  <2>4. QED
    BY <1>5, <1>6, <2>3
<1>15. Messages(rin', c, Started(reads[c], tcb[c].rcvbuf) \cup InHand(p, c), e.pushes, e.st = "ESTABLISHED")
  <2> DEFINE open == peer[c].st = "ESTABLISHED"
             still == e.st = "ESTABLISHED"
             got == Started(reads[c], tcb[c].rcvbuf) \cup InHand(p, c)
  <2>1. Messages(rin, c, got, e.pushes, open)
    BY <1>2, <1>5 DEF Line
  <2>2. still => open \/ e.pushes = 0
    BY <1>5
  <2> HIDE DEF open, still, got
  <2>3. Messages(rin', c, got, e.pushes, still)
    BY ONLY <1>2, <1>3, <1>6, <1>10, <2>1, <2>2, PushMessagesBare
  <2>4. QED
    BY <2>3 DEF still, got
<1>16. Line(c)'
  <2>1. tcb' = tcb /\ p' = p /\ reads' = reads
    BY <1>1
  <2>2. QED
    BY ONLY <1>8, <1>11, <1>12, <1>13, <1>14, <1>15, <2>1 DEF Line, need
<1>17. /\ e.st \in Opening /\ rout' \in Seq(Segment) /\ RingOut(rout', tcb, peer, arp)
       /\ peer[c].st \in Finished => ~Data(x)
  BY <1>1, <1>2, <1>5 DEF Opening, Finished
<1>18. QED
  BY ONLY <1>1, <1>2, <1>3, <1>4, <1>5, <1>9, <1>10, <1>16, <1>17, PeerStep

(* A client that has connected is one of the workload. *)
ScriptInv == \A c \in Client : peer[c].st # "idle" => c \in DOMAIN script

(* What a client sends next. *)
LEMMA ScriptFacts ==
  ASSUME TcpInv, ScriptInv, NEW c \in Client, peer[c].st = "ESTABLISHED", peer[c].n < Len(script[c]),
         NEW z, z = script[c][peer[c].n + 1]
  PROVE  z.len \in Nat /\ z.fin \in BOOLEAN /\ z.psh \in BOOLEAN /\ (z.psh => z.len > 0)
<1>1. script \in Workload /\ peer[c] \in PeerEnd /\ c \in DOMAIN script
  BY DEF TcpInv, Types, ScriptInv
<1>2. /\ script[c] \in Seq([len : Nat, fin : BOOLEAN, psh : BOOLEAN])
      /\ \A i \in 1 .. Len(script[c]) : script[c][i].psh => script[c][i].len > 0
  BY <1>1, ConstantAssumption
<1>3. peer[c].n \in Nat /\ Len(script[c]) \in Nat
  BY <1>1, <1>2, PeerFields
<1>4. peer[c].n + 1 \in 1 .. Len(script[c])
  BY <1>3
<1>5. z \in [len : Nat, fin : BOOLEAN, psh : BOOLEAN]
  BY <1>2, <1>4, ElementOfSeq
<1>6. z.psh => z.len > 0
  BY <1>2, <1>4, Zenon
<1>7. QED
  BY <1>5, <1>6

(* A client sends data, with PSH or not, its FIN, or both. *)
LEMMA SendEntryStep ==
  ASSUME TcpInv, ScriptInv, NEW c \in Client, Send(c)
  PROVE  TcpInv'
<1>0. PICK z : z = script[c][peer[c].n + 1]
  OBVIOUS
<1> DEFINE m == peer[c].pushes + (IF z.psh THEN 1 ELSE 0)
           fl == {"ACK"} \cup (IF z.psh THEN {"PSH"} ELSE {}) \cup (IF z.fin THEN {"FIN"} ELSE {})
           v == peer[c].snd + Space(z.len, z.fin)
           w == peer[c].cnt + Space(IF z.psh THEN z.len ELSE 0, z.fin)
           st == IF z.fin THEN "FIN_WAIT" ELSE peer[c].st
           y == Tcp(c, fl, peer[c].snd, peer[c].rcv, z.len, m)
           x == [y EXCEPT !.cnt = peer[c].cnt]
           e == [peer[c] EXCEPT !.n = @ + 1, !.pushes = m, !.snd = v, !.cnt = w, !.st = st]
           need == tcb[c].rcv_nxt + Due(p, c)
           got == Started(reads[c], tcb[c].rcvbuf) \cup InHand(p, c)
<1>1. /\ peer[c].st = "ESTABLISHED" /\ peer[c].n < Len(script[c])
      /\ rin' = Append(rin, x) /\ rout' = rout
      /\ peer' = [peer EXCEPT ![c].n = @ + 1, ![c].pushes = m,
                              ![c].snd = @ + Space(z.len, z.fin),
                              ![c].cnt = @ + Space(IF z.psh THEN z.len ELSE 0, z.fin),
                              ![c].st = IF z.fin THEN "FIN_WAIT" ELSE @]
      /\ UNCHANGED <<alive, arp, tcb_set, tcb, fd_table, p, t, script, reads, missed>>
  BY <1>0 DEF Send, ToStack, ghosts
<1>2. /\ peer \in [Client -> PeerEnd] /\ rin \in Seq(Segment) /\ peer[c] \in PeerEnd
      /\ tcb[c] \in Stream /\ Line(c) /\ rout \in Seq(Segment) /\ c \in Client /\ TcpInv
      /\ RingOut(rout, tcb, peer, arp)
  BY DEF TcpInv, Types, LineInv, OutInv
<1>3. z.len \in Nat /\ z.fin \in BOOLEAN /\ z.psh \in BOOLEAN /\ (z.psh => z.len > 0)
  BY <1>0, <1>1, ScriptFacts
<1>4. /\ peer[c].cnt \in Nat /\ peer[c].rcv \in Nat /\ peer[c].pushes \in Nat
      /\ peer[c].snd \in Nat /\ peer[c].n \in Nat /\ peer[c].cnt <= peer[c].snd
  BY <1>2, PeerFields DEF PeerEnd, PeerFrame
<1>5. /\ m \in Nat /\ w \in Nat /\ w >= peer[c].cnt /\ m >= peer[c].pushes
      /\ v \in Nat /\ w <= v
  BY <1>3, <1>4 DEF Space
<1>6. /\ fl \in {{"ACK"}, {"ACK", "PSH"}, {"ACK", "FIN"}, {"ACK", "PSH", "FIN"}} /\ fl \in SUBSET Flag
      /\ ("PSH" \in fl <=> z.psh) /\ ("FIN" \in fl <=> z.fin) /\ "SYN" \notin fl
  BY <1>3 DEF Flag
<1>7. st \in PeerState /\ st \in {"ESTABLISHED", "FIN_WAIT"} /\ (st = "FIN_WAIT" <=> z.fin)
  BY <1>1, <1>3 DEF PeerState
<1>8. peer' = [peer EXCEPT ![c] = e]
  BY <1>1, <1>2
<1> HIDE DEF fl, st
<1>9. /\ x \in Segment /\ x.kind = "tcp" /\ x.peer = c /\ x.flags = fl /\ x.len = z.len
      /\ x.cnt = peer[c].cnt /\ x.ack = peer[c].rcv /\ x.msg = m
  <2>1. /\ y \in Segment /\ y.kind = "tcp" /\ y.peer = c /\ y.flags = fl /\ y.len = z.len
        /\ y.ack = peer[c].rcv /\ y.msg = m
    BY <1>3, <1>4, <1>5, <1>6, Apart DEF Tcp, Segment, Kind
  <2> HIDE DEF y
  <2>2. QED
    BY <1>4, <2>1 DEF Segment
<1>10. /\ w = peer[c].cnt + Space(IF z.psh THEN z.len ELSE 0, z.fin)
       /\ m = peer[c].pushes + (IF z.psh THEN 1 ELSE 0)
  OBVIOUS
<1> HIDE DEF x, y, v, w, m
<1>11. /\ e \in PeerEnd /\ e.st = st /\ e.cnt = w /\ e.rcv = peer[c].rcv /\ e.pushes = m
  <2>1. peer[c] \in PeerFrame
    BY <1>2 DEF PeerEnd, PeerFrame
  <2>2. /\ e \in PeerFrame /\ e.st = st /\ e.cnt = w /\ e.snd = v /\ e.rcv = peer[c].rcv
        /\ e.pushes = m
    <3>1. PICK r : r = peer[c]
      OBVIOUS
    <3>2. e = [r EXCEPT !.n = @ + 1, !.pushes = m, !.snd = v, !.cnt = w, !.st = st]
      BY <3>1
    <3> HIDE DEF e
    <3>3. r.n + 1 \in Nat /\ r.rcv \in Nat
      BY <1>4, <3>1
    <3>4. e = [st |-> st, snd |-> v, cnt |-> w, rcv |-> r.rcv, n |-> r.n + 1, pushes |-> m]
      BY ONLY <2>1, <3>1, <3>2 DEF PeerFrame
    <3>5. /\ e \in PeerFrame /\ e.st = st /\ e.cnt = w /\ e.snd = v /\ e.rcv = r.rcv
          /\ e.pushes = m
      BY ONLY <1>5, <1>7, <3>3, <3>4 DEF PeerFrame
    <3>6. QED
      BY <3>1, <3>5
  <2> HIDE DEF e
  <2>3. QED
    BY <1>5, <2>2 DEF PeerEnd, PeerFrame
<1> HIDE DEF e
<1>12. (IsPush(x) <=> z.psh) /\ (Data(x) <=> z.psh \/ z.fin) /\ EndOf(x) = w
  <2>1. (IsPush(x) <=> z.psh) /\ (Data(x) <=> z.psh \/ z.fin)
    BY <1>3, <1>6, <1>9 DEF Data, IsPush
  <2>2. EndOf(x) = x.cnt + Space(IF z.psh THEN z.len ELSE 0, z.fin) + 0
    BY <1>3, <1>6, <1>9, <2>1 DEF EndOf, Space
  <2>3. QED
    BY <1>4, <1>5, <1>9, <1>10, <2>1, <2>2
<1>13. Phase(rin, c, tcb[c].status, peer[c]) /\ Forms(rin, c, peer[c])
  BY <1>2 DEF Line
<1>14. tcb[c].status \notin {"none", "CLOSE_WAIT", "LAST_ACK", "freed"}
  BY <1>1, <1>13 DEF Phase, Opening, Finished
<1>15. Onward(peer[c], e)
  BY <1>1, <1>4, <1>5, <1>7, <1>11 DEF Onward, Opening, Finished
<1>16. Pushed(rin, rin', c, x) /\ rin' \in Seq(Segment) /\ rin' = Append(rin, x)
  BY ONLY <1>1, <1>2, <1>9, PushAppend
<1>17. /\ peer' \in [Client -> PeerEnd] /\ peer'[c] = e
  BY ONLY <1>2, <1>8, <1>11, PeerUpdateFacts
<1>18. Forms(rin', c, e)
  <2>1. Forms(rin, c, e)
    BY <1>2, <1>11, <1>13, <1>15, FormsOnward
  <2>2. Form(x, e)
    <3>1. x.flags \in {{"SYN"}, {"ACK"}, {"ACK", "PSH"}, {"ACK", "FIN"}, {"ACK", "PSH", "FIN"}}
      BY <1>6, <1>9
    <3>2. x.ack <= e.rcv /\ (IsPush(x) => x.len > 0)
      BY <1>3, <1>4, <1>9, <1>11, <1>12
    <3>3. e.st \notin Opening /\ ("FIN" \in x.flags => e.st \in Finished) /\ "SYN" \notin x.flags
      BY <1>6, <1>7, <1>9, <1>11 DEF Opening, Finished
    <3>4. QED
      BY <3>1, <3>2, <3>3 DEF Form
  <2>3. \A i \in Of(rin, c) : "FIN" \notin rin[i].flags
    BY <1>1, <1>13 DEF Forms, Form, Finished
  <2>4. QED
    BY ONLY <1>2, <1>9, <1>16, <2>1, <2>2, <2>3, PushForms
<1>19. Phase(rin', c, tcb[c].status, e)
  <2>1. e.st \notin Opening /\ peer[c].st \notin Opening /\ "SYN" \notin x.flags
    BY <1>1, <1>6, <1>7, <1>9, <1>11 DEF Opening
  <2>2. /\ tcb[c].status # "none"
        /\ tcb[c].status \in {"CLOSE_WAIT", "LAST_ACK", "freed"} => e.st \in Finished /\ ~Data(x)
        /\ peer[c].st \notin Opening \/ ~Data(x)
    BY <1>14, <2>1
  <2>3. rin \in Seq(Segment) /\ x \in Segment /\ Phase(rin, c, tcb[c].status, peer[c])
    BY <1>2, <1>9, <1>13
  <2> DEFINE status == tcb[c].status
             o == peer[c]
  <2>4. /\ Pushed(rin, rin', c, x) /\ rin' \in Seq(Segment) /\ rin \in Seq(Segment) /\ x \in Segment
        /\ Phase(rin, c, status, o) /\ status # "none" /\ "SYN" \notin x.flags /\ e.st \notin Opening
        /\ status \in {"CLOSE_WAIT", "LAST_ACK", "freed"} => e.st \in Finished /\ ~Data(x)
        /\ o.st \notin Opening \/ ~Data(x)
    BY <1>16, <2>1, <2>2, <2>3
  <2> HIDE DEF status, o
  <2>5. Phase(rin', c, status, e)
    BY ONLY <2>4, PushPhase
  <2>6. QED
    BY <2>5 DEF status
<1>20. Chain(rin', c, need, e.cnt)
  <2>1. need \in Nat /\ x.cnt = peer[c].cnt
    BY <1>2, <1>9, DueFacts DEF TcpInv
  <2>2. Chain(rin, c, need, peer[c].cnt)
    BY <1>2, <1>14 DEF Line
  <2> HIDE DEF need
  <2>3. CASE Data(x)
    <3>1. Chain(rin', c, need, EndOf(x))
      BY ONLY <1>2, <1>4, <1>9, <1>16, <2>1, <2>2, <2>3, PushChainData
    <3>2. QED
      BY <1>11, <1>12, <3>1
  <2>4. CASE ~Data(x)
    <3>1. Chain(rin', c, need, peer[c].cnt)
      BY ONLY <1>2, <1>4, <1>9, <1>16, <2>1, <2>2, <2>4, PushChainBare
    <3>2. ~z.psh /\ ~z.fin
      BY <1>3, <1>12, <2>4
    <3>3. w = peer[c].cnt
      BY <1>4, <1>10, <3>2 DEF Space
    <3>4. QED
      BY <1>11, <3>1, <3>3
  <2>5. QED
    BY <2>3, <2>4
<1>21. Messages(rin', c, got, e.pushes, e.st = "ESTABLISHED")
  <2>1. Messages(rin, c, got, peer[c].pushes, peer[c].st = "ESTABLISHED")
    BY <1>2 DEF Line
  <2>2. (peer[c].st = "ESTABLISHED") = TRUE
    BY <1>1
  <2>3. Messages(rin, c, got, peer[c].pushes, TRUE)
    BY <2>1, <2>2
  <2> DEFINE still == e.st = "ESTABLISHED"
  <2> HIDE DEF still, got
  <2>4. CASE IsPush(x)
    <3>1. x.msg = peer[c].pushes + 1 /\ e.pushes = peer[c].pushes + 1
      BY <1>3, <1>9, <1>10, <1>11, <1>12, <2>4
    <3>2. Messages(rin', c, got, peer[c].pushes + 1, still)
      BY ONLY <1>2, <1>4, <1>9, <1>16, <2>3, <2>4, <3>1, PushMessagesData
    <3>3. QED
      BY <3>1, <3>2 DEF still
  <2>5. CASE ~IsPush(x)
    <3>1. e.pushes = peer[c].pushes
      BY <1>3, <1>4, <1>10, <1>11, <1>12, <2>5
    <3>2. still => TRUE \/ peer[c].pushes = 0
      OBVIOUS
    <3>3. Messages(rin', c, got, peer[c].pushes, still)
      BY ONLY <1>2, <1>4, <1>9, <1>16, <2>3, <2>5, <3>2, PushMessagesBare
    <3>4. QED
      BY <3>1, <3>3 DEF still
  <2>6. QED
    BY <2>4, <2>5
<1>22. Line(c)'
  <2>1. tcb' = tcb /\ p' = p /\ reads' = reads
    BY <1>1
  <2>2. QED
    BY ONLY <1>17, <1>18, <1>19, <1>20, <1>21, <2>1 DEF Line, need, got
<1>23. /\ rout' \in Seq(Segment) /\ RingOut(rout', tcb, peer, arp) /\ peer[c].st \notin Opening
       /\ peer[c].st \in Finished => ~Data(x)
  BY <1>1, <1>2 DEF Opening, Finished
<1>24. QED
  BY ONLY <1>1, <1>2, <1>8, <1>9, <1>11, <1>15, <1>16, <1>22, <1>23, PeerStep

(* What the main thread transmits. *)
LEMMA TransmitFacts ==
  ASSUME TcpInv, rout # <<>>, rout' = Tail(rout), NEW s, s = Head(rout)
  PROVE  /\ s \in Segment /\ s.peer \in Host /\ s.seq \in Nat /\ s.len \in Nat /\ OutOK(s, tcb, peer)
         /\ s.kind = "tcp" => s.peer \in Client /\ s.peer \in arp /\ tcb[s.peer].status # "none"
                              /\ peer[s.peer] \in PeerEnd
                              /\ ("SYN" \notin s.flags => peer[s.peer].st \notin Opening)
         /\ rout' \in Seq(Segment) /\ RingOut(rout', tcb, peer, arp)
         /\ rin \in Seq(Segment) /\ TcpPeers(rin) /\ arp \subseteq Host /\ p \in PktRecord
         /\ peer \in [Client -> PeerEnd]
<1>1. /\ rout \in Seq(Segment) /\ RingOut(rout, tcb, peer, arp) /\ rin \in Seq(Segment)
      /\ TcpPeers(rin) /\ arp \subseteq Host /\ p \in PktRecord /\ peer \in [Client -> PeerEnd]
  BY DEF TcpInv, Types, OutInv, PktRecord
<1>2. /\ RingOut(rout', tcb, peer, arp) /\ s \in Segment /\ OutOK(s, tcb, peer)
      /\ s.kind = "tcp" => s.peer \in arp
  BY <1>1, RingTail
<1>3. rout' \in Seq(Segment)
  BY <1>1
<1>4. s.peer \in Host /\ s.seq \in Nat /\ s.len \in Nat
  BY <1>2 DEF Segment
<1>5. s.kind = "tcp" => s.peer \in Client /\ tcb[s.peer].status # "none"
                        /\ ("SYN" \notin s.flags => peer[s.peer].st \notin Opening)
  BY <1>2 DEF OutOK
<1>6. QED
  BY <1>1, <1>2, <1>3, <1>4, <1>5

(* A SYN/ACK reaches the client: the handshake is over for it. *)
LEMMA TransmitSynStep ==
  ASSUME TcpInv, rout # <<>>, rout' = Tail(rout), NEW s, s = Head(rout), NEW c, c = s.peer,
         s.kind = "tcp", peer[c].st = "SYN_SENT",
         rin' = Append(rin, Tcp(c, {"ACK"}, peer[c].snd, s.seq + 1, 0, 0)),
         peer' = [peer EXCEPT ![c].st = "ESTABLISHED", ![c].rcv = s.seq + 1],
         UNCHANGED <<alive, arp, tcb_set, tcb, fd_table, p, t, script, reads, missed>>
  PROVE  TcpInv'
<1> DEFINE w == s.seq + 1
           x == Tcp(c, {"ACK"}, peer[c].snd, w, 0, 0)
           e == [peer[c] EXCEPT !.st = "ESTABLISHED", !.rcv = w]
<1>1. /\ c \in Client /\ c \in arp /\ tcb[c].status # "none" /\ peer[c] \in PeerEnd /\ s.seq \in Nat
      /\ rout' \in Seq(Segment) /\ RingOut(rout', tcb, peer, arp) /\ peer \in [Client -> PeerEnd]
  BY TransmitFacts
<1>2. w \in Nat /\ peer[c].snd \in Nat /\ peer[c].cnt \in Nat /\ peer[c].rcv \in Nat /\ peer[c].pushes \in Nat
  BY <1>1, PeerFields
<1>3. peer' = [peer EXCEPT ![c] = e]
  BY <1>1
<1>4. rin' = Append(rin, x) /\ TcpInv
  OBVIOUS
<1>5. peer[c].rcv = 0
  BY <1>1 DEF TcpInv, LineInv, Line, Phase, Opening
<1> HIDE DEF w
<1>6. /\ x \in Segment /\ x.kind = "tcp" /\ x.peer = c /\ x.flags = {"ACK"} /\ x.len = 0 /\ x.ack = w
  BY <1>1, <1>2, Apart DEF Tcp, Segment, Kind, Flag
<1> HIDE DEF x
<1>7. /\ e \in PeerEnd /\ e.st = "ESTABLISHED" /\ e.cnt = peer[c].cnt /\ e.rcv = w /\ e.pushes = peer[c].pushes
  BY <1>1, <1>2 DEF PeerEnd, PeerFrame, PeerState
<1> HIDE DEF e
<1>8. Onward(peer[c], e) /\ e.st \notin Opening /\ x.ack <= e.rcv
  BY <1>2, <1>5, <1>6, <1>7 DEF Onward, Opening, Finished
<1>9. /\ UNCHANGED <<alive, arp, tcb_set, tcb, fd_table, p, t, script, reads, missed>>
      /\ e.st = "ESTABLISHED" => peer[c].st \in {"SYN_SENT", "ESTABLISHED"}
  OBVIOUS
<1>10. QED
  BY ONLY <1>1, <1>3, <1>4, <1>6, <1>7, <1>8, <1>9, PeerAcks

(* Data or a FIN reaches the client, in sequence or not. *)
LEMMA TransmitDataStep ==
  ASSUME TcpInv, rout # <<>>, rout' = Tail(rout), NEW s, s = Head(rout), NEW c, c = s.peer,
         s.kind = "tcp", "SYN" \notin s.flags, NEW w, NEW end,
         w = IF s.seq = peer[c].rcv THEN peer[c].rcv + Space(s.len, "FIN" \in s.flags) ELSE peer[c].rcv,
         rin' = Append(rin, Tcp(c, {"ACK"}, peer[c].snd, w, 0, 0)),
         peer' = [peer EXCEPT ![c].rcv = w, ![c].st = IF end THEN "closed" ELSE @],
         UNCHANGED <<alive, arp, tcb_set, tcb, fd_table, p, t, script, reads, missed>>
  PROVE  TcpInv'
<1> DEFINE x == Tcp(c, {"ACK"}, peer[c].snd, w, 0, 0)
           st == IF end THEN "closed" ELSE peer[c].st
           e == [peer[c] EXCEPT !.rcv = w, !.st = st]
<1>1. /\ c \in Client /\ c \in arp /\ tcb[c].status # "none" /\ peer[c] \in PeerEnd /\ s.len \in Nat
      /\ rout' \in Seq(Segment) /\ RingOut(rout', tcb, peer, arp) /\ peer \in [Client -> PeerEnd]
      /\ peer[c].st \notin Opening
  BY TransmitFacts
<1>2. peer[c].snd \in Nat /\ peer[c].cnt \in Nat /\ peer[c].rcv \in Nat /\ peer[c].pushes \in Nat /\ peer[c].st \in PeerState
  BY <1>1, PeerFields
<1>3. w \in Nat /\ w >= peer[c].rcv
  BY <1>1, <1>2 DEF Space
<1>4. peer' = [peer EXCEPT ![c] = e]
  BY <1>1
<1>5. rin' = Append(rin, x) /\ TcpInv
  OBVIOUS
<1>6. /\ x \in Segment /\ x.kind = "tcp" /\ x.peer = c /\ x.flags = {"ACK"} /\ x.len = 0 /\ x.ack = w
  BY <1>1, <1>2, <1>3, Apart DEF Tcp, Segment, Kind, Flag
<1> HIDE DEF x
<1>7. st \in PeerState /\ (st = peer[c].st \/ st = "closed")
  BY <1>2 DEF PeerState
<1> HIDE DEF st
<1>8. /\ e \in PeerEnd /\ e.st = st /\ e.cnt = peer[c].cnt /\ e.rcv = w /\ e.pushes = peer[c].pushes
  BY <1>1, <1>3, <1>7 DEF PeerEnd, PeerFrame
<1> HIDE DEF e
<1>9. Onward(peer[c], e) /\ e.st \notin Opening /\ x.ack <= e.rcv
  BY <1>1, <1>2, <1>3, <1>6, <1>7, <1>8 DEF Onward, Opening, Finished
<1>10. /\ UNCHANGED <<alive, arp, tcb_set, tcb, fd_table, p, t, script, reads, missed>>
       /\ e.st = "ESTABLISHED" => peer[c].st \in {"SYN_SENT", "ESTABLISHED"}
  BY <1>7, <1>8
<1>11. QED
  BY ONLY <1>1, <1>4, <1>5, <1>6, <1>8, <1>9, <1>10, PeerAcks

(* Transmit: whatever is next in the out ring. *)
LEMMA TransmitStep ==
  ASSUME TcpInv, Transmit
  PROVE  TcpInv'
<1>1. PICK s, c : s = Head(rout) /\ c = s.peer
  OBVIOUS
<1> DEFINE w == IF s.seq = peer[c].rcv THEN peer[c].rcv + Space(s.len, "FIN" \in s.flags)
                ELSE peer[c].rcv
           end == s.seq = peer[c].rcv /\ "FIN" \in s.flags
<1>2. /\ rout # <<>> /\ rout' = Tail(rout)
      /\ UNCHANGED <<alive, arp, tcb_set, tcb, fd_table, p, t, script, reads, missed>>
  BY DEF Transmit, ghosts
<1>3. /\ rin \in Seq(Segment) /\ TcpPeers(rin) /\ rout' \in Seq(Segment)
      /\ RingOut(rout', tcb, peer, arp) /\ arp \subseteq Host /\ p \in PktRecord /\ c \in Host
  BY <1>1, <1>2, TransmitFacts
<1>4. CASE /\ s.kind = "arp" /\ peer' = peer
           /\ rin' = IF c \in Deaf THEN rin ELSE Append(rin, Arp(c))
  <2>1. Arp(c) \in Segment /\ Arp(c).kind = "arp"
    BY <1>3, ArpFacts
  <2>2. \A d \in Client : Shifted(rin, rin, d, 0) /\ Shifted(rin, Append(rin, Arp(c)), d, 0)
    BY <1>3, <2>1, ShiftSame, ShiftAppend
  <2>3. TcpPeers(Append(rin, Arp(c))) /\ Append(rin, Arp(c)) \in Seq(Segment)
    BY <1>3, <2>1, PeersAppend
  <2>4. rin' \in Seq(Segment) /\ TcpPeers(rin')
    BY <1>3, <1>4, <2>3
  <2>5. \A d \in Client : \E k \in Int : Shifted(rin, rin', d, k)
    <3>1. 0 \in Int /\ \A d \in Client : Shifted(rin, rin', d, 0)
      BY <1>4, <2>2
    <3>2. QED
      BY <3>1
  <2>6. /\ UNCHANGED <<alive, tcb_set, tcb, fd_table, t, script, peer, reads, missed>>
        /\ arp \subseteq arp' /\ arp' \subseteq Host /\ p' \in PktRecord /\ p' = p /\ TcpInv
    BY <1>2, <1>3, <1>4
  <2>7. QED
    BY ONLY <1>3, <2>4, <2>5, <2>6, RingOnly
<1>5. CASE /\ s.kind = "tcp" /\ peer[c].st = "SYN_SENT"
           /\ rin' = Append(rin, Tcp(c, {"ACK"}, peer[c].snd, s.seq + 1, 0, 0))
           /\ peer' = [peer EXCEPT ![c].st = "ESTABLISHED", ![c].rcv = s.seq + 1]
  BY <1>1, <1>2, <1>5, TransmitSynStep
<1>6. CASE /\ s.kind = "tcp" /\ "SYN" \notin s.flags
           /\ peer' = [peer EXCEPT ![c].rcv = w, ![c].st = IF end THEN "closed" ELSE @]
           /\ rin' = Append(rin, Tcp(c, {"ACK"}, peer[c].snd, w, 0, 0))
  <2>1. w = IF s.seq = peer[c].rcv THEN peer[c].rcv + Space(s.len, "FIN" \in s.flags) ELSE peer[c].rcv
    OBVIOUS
  <2>2. TcpInv
    OBVIOUS
  <2> HIDE DEF w, end
  <2>3. QED
    BY ONLY <1>1, <1>2, <1>6, <2>1, <2>2, TransmitDataStep
<1>7. CASE s.kind = "tcp" /\ rin' = rin /\ peer' = peer
  <2>1. \A d \in Client : \E k \in Int : Shifted(rin, rin', d, k)
    <3>1. 0 \in Int /\ \A d \in Client : Shifted(rin, rin', d, 0)
      BY <1>3, <1>7, ShiftSame
    <3>2. QED
      BY <3>1
  <2>2. /\ UNCHANGED <<alive, tcb_set, tcb, fd_table, t, script, peer, reads, missed>>
        /\ arp \subseteq arp' /\ arp' \subseteq Host /\ p' \in PktRecord /\ p' = p /\ TcpInv
        /\ rin' \in Seq(Segment) /\ TcpPeers(rin')
    BY <1>2, <1>3, <1>7
  <2>3. QED
    BY ONLY <1>3, <2>1, <2>2, RingOnly
<1>8. \/ /\ s.kind = "arp" /\ peer' = peer
         /\ rin' = IF c \in Deaf THEN rin ELSE Append(rin, Arp(c))
      \/ /\ s.kind = "tcp" /\ peer[c].st = "SYN_SENT"
         /\ rin' = Append(rin, Tcp(c, {"ACK"}, peer[c].snd, s.seq + 1, 0, 0))
         /\ peer' = [peer EXCEPT ![c].st = "ESTABLISHED", ![c].rcv = s.seq + 1]
      \/ /\ s.kind = "tcp" /\ "SYN" \notin s.flags
         /\ peer' = [peer EXCEPT ![c].rcv = w, ![c].st = IF end THEN "closed" ELSE @]
         /\ rin' = Append(rin, Tcp(c, {"ACK"}, peer[c].snd, w, 0, 0))
      \/ s.kind = "tcp" /\ rin' = rin /\ peer' = peer
  BY <1>1 DEF Transmit, ToStack
<1>9. QED
  BY <1>4, <1>5, <1>6, <1>7, <1>8

------------------------------------------------------------------------------
(* The UDP half. *)
Offload == [peer : UdpHost, msg : Nat, off : Nat, length : Nat]

Socket == [rcvbuf : Seq(Offload), sndbuf : Seq(Offload)]

Answer == {"no", "sent", "answered"}

RemoteEnd == [n : Nat, echoes : Seq(Nat \X Nat), ping : Answer, ask : Answer]

UdpPackets(q) == \A i \in 1 .. Len(q) : q[i].kind = "udp" => q[i].peer \in UdpHost

Lengths(q) == \A i \in 1 .. Len(q) : q[i].length > 0

(* The hosts have sent what the traffic of this behaviour says, and every   *)
(* datagram in the in ring is from one of them.                             *)
HostInv ==
  /\ traffic \in Traffic
  /\ remote \in [UdpHost -> RemoteEnd]
  /\ \A c \in UdpHost : remote[c].n <= Len(traffic.udp[c])
  /\ UdpPackets(rin)

(* What the UDP socket and its server hold. *)
SocketInv ==
  /\ lhost \in Socket /\ Lengths(lhost.rcvbuf)
  /\ u.pc \in {"try", "hold", "wait", "copy", "send"}
  /\ u.pc \in {"copy", "send"} => u.ol \in Offload

StackInv == TcpInv /\ ScriptInv /\ HostInv /\ SocketInv /\ UdpInv

(* Datagrams stay those of the hosts when other packets come, and when a    *)
(* packet goes.                                                             *)
LEMMA UdpAppend ==
  ASSUME NEW q \in Seq(Segment), NEW x, UdpPackets(q), x.kind = "udp" => x.peer \in UdpHost
  PROVE  UdpPackets(Append(q, x))
<1> DEFINE z == Append(q, x)
<1>1. /\ Len(z) = Len(q) + 1 /\ Len(q) \in Nat /\ z[Len(q) + 1] = x
      /\ \A i \in 1 .. Len(q) : z[i] = q[i]
  OBVIOUS
<1> HIDE DEF z
<1>2. \A i \in 1 .. Len(z) : i \in 1 .. Len(q) \/ i = Len(q) + 1
  BY <1>1
<1>3. UdpPackets(z)
  BY <1>1, <1>2 DEF UdpPackets
<1>4. QED
  BY <1>3 DEF z

(* The same for the one that is taken. *)
LEMMA UdpTail ==
  ASSUME NEW q \in Seq(Segment), q # <<>>, UdpPackets(q)
  PROVE  UdpPackets(Tail(q)) /\ (Head(q).kind = "udp" => Head(q).peer \in UdpHost)
<1> DEFINE z == Tail(q)
<1>1. /\ Len(z) = Len(q) - 1 /\ Len(q) \in Nat \ {0} /\ Head(q) = q[1]
      /\ \A i \in 1 .. Len(z) : z[i] = q[i + 1] /\ i + 1 \in 1 .. Len(q)
      /\ 1 \in 1 .. Len(q)
  OBVIOUS
<1> HIDE DEF z
<1>2. UdpPackets(z)
  BY <1>1 DEF UdpPackets
<1>3. QED
  BY <1>1, <1>2 DEF z, UdpPackets

(* A fragment is queued in rcvbuf, or taken from it. *)
LEMMA LengthsAppend ==
  ASSUME NEW q \in Seq(Offload), NEW x \in Offload, Lengths(q), x.length > 0
  PROVE  Lengths(Append(q, x))
<1> DEFINE z == Append(q, x)
<1>1. /\ Len(z) = Len(q) + 1 /\ Len(q) \in Nat /\ z[Len(q) + 1] = x
      /\ \A i \in 1 .. Len(q) : z[i] = q[i]
  OBVIOUS
<1> HIDE DEF z
<1>2. \A i \in 1 .. Len(z) : i \in 1 .. Len(q) \/ i = Len(q) + 1
  BY <1>1
<1>3. Lengths(z)
  BY <1>1, <1>2 DEF Lengths
<1>4. QED
  BY <1>3 DEF z

(* The same for the one that is taken. *)
LEMMA LengthsTail ==
  ASSUME NEW q \in Seq(Offload), q # <<>>, Lengths(q)
  PROVE  Lengths(Tail(q)) /\ Head(q) \in Offload /\ Tail(q) \in Seq(Offload)
<1> DEFINE z == Tail(q)
<1>1. /\ Len(z) = Len(q) - 1 /\ Len(q) \in Nat \ {0} /\ Head(q) \in Offload /\ z \in Seq(Offload)
      /\ \A i \in 1 .. Len(z) : z[i] = q[i + 1] /\ i + 1 \in 1 .. Len(q)
  OBVIOUS
<1> HIDE DEF z
<1>2. Lengths(z)
  BY <1>1 DEF Lengths
<1>3. QED
  BY <1>1, <1>2 DEF z

(* What a step of the TCP half does to the rings, and to a signal that      *)
(* pkt_process has yet to send to the UDP server.                           *)
Bystander ==
  /\ UNCHANGED udp
  /\ \/ rin' = rin
     \/ rin # <<>> /\ rin' = Tail(rin)
     \/ \E x : x.kind # "udp" /\ rin' = Append(rin, x)
  /\ p.pc = "udp_signal" => p'.pc = "udp_signal"

(* A step of the TCP half leaves the UDP half alone. *)
LEMMA BystanderKept ==
  ASSUME rin \in Seq(Segment), HostInv, SocketInv, UdpInv, Bystander
  PROVE  HostInv' /\ SocketInv' /\ UdpInv'
<1>1. traffic' = traffic /\ lhost' = lhost /\ u' = u /\ remote' = remote
  BY DEF Bystander, udp
<1>2. UdpPackets(rin')
  <2>1. UdpPackets(rin)
    BY DEF HostInv
  <2>2. CASE rin' = rin
    BY <2>1, <2>2
  <2>3. CASE rin # <<>> /\ rin' = Tail(rin)
    BY <2>1, <2>3, UdpTail
  <2>4. CASE \E x : x.kind # "udp" /\ rin' = Append(rin, x)
    BY <2>1, <2>4, UdpAppend
  <2>5. QED
    BY <2>2, <2>3, <2>4 DEF Bystander
<1>3. HostInv'
  BY <1>1, <1>2 DEF HostInv
<1>4. SocketInv'
  BY <1>1 DEF SocketInv
<1>5. UdpInv'
  BY <1>1 DEF UdpInv, Bystander
<1>6. QED
  BY <1>3, <1>4, <1>5

(* Every step of pkt_process and of the TCP server, and what they do not    *)
(* touch.                                                                   *)
LEMMA ServersBystand ==
  ASSUME Packets \/ (\E c \in Client : ng_tcp_out(c)) \/ App \/ SpuriousWakeup, UNCHANGED udp
  PROVE  Bystander /\ script' = script /\ peer' = peer
<1>1. CASE ng_tcp_process
  BY <1>1 DEF ng_tcp_process, Bystander, world
<1>2. CASE arp_reply
  BY <1>2 DEF arp_reply, Bystander, world
<1>3. CASE SignalListener
  BY <1>3 DEF SignalListener, Bystander, world
<1>4. CASE ng_tcp_enqueue_recvbuffer
  BY <1>4 DEF ng_tcp_enqueue_recvbuffer, PktStep, Bystander, world
<1>5. CASE SignalReader
  BY <1>5 DEF SignalReader, PktStep, Bystander, world
<1>6. CASE AdvanceRcvNxt
  BY <1>6 DEF AdvanceRcvNxt, PktStep, Bystander, world
<1>7. CASE ng_tcp_send_ackpkt
  BY <1>7 DEF ng_tcp_send_ackpkt, Bystander, world
<1>8. CASE \E c \in Client : ng_tcp_out(c)
  <2>1. rin' = rin /\ p' = p /\ script' = script /\ peer' = peer
    BY <1>8, ZenonT(60) DEF ng_tcp_out, world
  <2>2. QED
    BY <2>1 DEF Bystander
<1>9. CASE App \/ SpuriousWakeup
  BY <1>9 DEF App, SpuriousWakeup, FindListener, WalkToListener, LockListener, get_accept_tcb,
     naccept, RecvLock, TakeFragment, pthread_cond_wait, AppStep, SendAck, SendSeq, nsend,
     CloseNumbers, nclose, EnterLastAck, Bystander, world, stack
<1>10. QED
  BY <1>1, <1>2, <1>3, <1>4, <1>5, <1>6, <1>7, <1>8, <1>9 DEF Packets

(* Every step of the peers of the TCP half. *)
LEMMA PeersBystand ==
  ASSUME TcpInv, ScriptInv, UNCHANGED udp, Peers \/ Transmit
  PROVE  Bystander /\ ScriptInv'
<1>1. peer \in [Client -> PeerEnd]
  BY DEF TcpInv, Types
<1>2. ASSUME NEW c \in Client, Connect(c)
      PROVE  Bystander /\ ScriptInv'
  <2>1. /\ rin' = Append(rin, Tcp(c, {"SYN"}, 0, 0, 0, 0)) /\ p' = p
        /\ Tcp(c, {"SYN"}, 0, 0, 0, 0).kind # "udp"
    BY <1>2 DEF Connect, ToStack, Tcp
  <2>2. /\ c \in DOMAIN script /\ script' = script
        /\ peer' = [peer EXCEPT ![c].st = "SYN_SENT", ![c].snd = 1, ![c].cnt = 1]
    BY <1>2 DEF Connect
  <2>3. \A d \in Client : d # c => peer'[d] = peer[d]
    BY <1>1, <2>2
  <2>4. ScriptInv'
    <3>1. ScriptInv
      BY SMTT(30)
    <3>2. QED
      BY ONLY <2>2, <2>3, <3>1 DEF ScriptInv
  <2>5. QED
    BY <2>1, <2>4 DEF Bystander
<1>3. ASSUME NEW c \in Client, Send(c)
      PROVE  Bystander /\ ScriptInv'
  <2> DEFINE z == script[c][peer[c].n + 1]
             m == peer[c].pushes + (IF z.psh THEN 1 ELSE 0)
             fl == {"ACK"} \cup (IF z.psh THEN {"PSH"} ELSE {}) \cup (IF z.fin THEN {"FIN"} ELSE {})
             y == Tcp(c, fl, peer[c].snd, peer[c].rcv, z.len, m)
             x == [y EXCEPT !.cnt = peer[c].cnt]
  <2>1. rin' = Append(rin, x) /\ x.kind # "udp"
    <3>1. rin' = Append(rin, x)
      BY <1>3 DEF Send, ToStack
    <3>2. QED
      BY <3>1 DEF Tcp
  <2>2. p' = p /\ script' = script /\ peer[c].st = "ESTABLISHED"
    BY <1>3, Zenon DEF Send
  <2>3. \A d \in Client : d # c => peer'[d] = peer[d]
    BY <1>1, <1>3 DEF Send
  <2>4. ScriptInv'
    <3>1. ScriptInv
      OBVIOUS
    <3>2. QED
      BY ONLY <2>2, <2>3, <3>1 DEF ScriptInv
  <2>5. QED
    BY <2>1, <2>2, <2>4 DEF Bystander
<1>4. CASE Transmit
  <2> DEFINE c == Head(rout).peer
  <2>1. rout # <<>> /\ rout' = Tail(rout) /\ p' = p /\ script' = script
    BY <1>4, Zenon DEF Transmit
  <2>2. rin' = rin \/ \E x : x.kind # "udp" /\ rin' = Append(rin, x)
    BY <1>4 DEF Transmit, ToStack, Tcp, Arp
  <2>3. /\ \A d \in Client : d # c => peer'[d] = peer[d]
        /\ peer' = peer \/ peer[c].st # "idle"
    <3>1. \A s : s = Head(rout) /\ s.kind = "tcp" =>
             ("SYN" \notin s.flags => peer[s.peer].st \notin Opening)
      BY <2>1, TransmitFacts
    <3>2. QED
      BY <1>1, <1>4, <3>1 DEF Transmit, Opening
  <2>4. ScriptInv'
    BY <2>1, <2>3 DEF ScriptInv
  <2>5. UNCHANGED udp
    OBVIOUS
  <2>6. QED
    BY ONLY <2>1, <2>2, <2>4, <2>5 DEF Bystander
<1>5. QED
  BY <1>2, <1>3, <1>4 DEF Peers

(* The TCP half, step by step. *)
LEMMA TcpStep ==
  ASSUME StackInv, Next, UNCHANGED udp
  PROVE  StackInv' \/ Died
<1>1. TcpInv /\ ScriptInv /\ HostInv /\ SocketInv /\ UdpInv /\ rin \in Seq(Segment)
  BY DEF StackInv, TcpInv, Types
<1>2. CASE Peers \/ Transmit
  <2>1. TcpInv'
    BY <1>1, <1>2, ConnectStep, SendEntryStep, TransmitStep DEF Peers
  <2>2. Bystander /\ ScriptInv'
    BY <1>1, <1>2, PeersBystand
  <2>3. QED
    BY <1>1, <2>1, <2>2, BystanderKept DEF StackInv
<1>3. CASE Packets \/ (\E c \in Client : ng_tcp_out(c)) \/ App \/ SpuriousWakeup
  <2>1. TcpInv' \/ Died
    <3>1. CASE Packets
      BY <1>1, <3>1, ProcessStep, ArpReplyStep, SignalListenerStep, EnqueueStep, SignalReaderStep,
         AdvanceStep, AckStep DEF Packets
    <3>2. CASE \E c \in Client : ng_tcp_out(c)
      BY <1>1, <3>2, OutKnownStep, OutUnknownStep
    <3>3. CASE App
      BY <1>1, <3>3, FindListenerStep, WalkToListenerStep, LockListenerStep, AcceptTcbStep, AcceptStep,
         RecvLockStep, TakeFragmentStep, CondWaitStep, SendAckStep, SendSeqStep, SendStep,
         CloseNumbersStep, CloseStep, EnterLastAckStep DEF App
    <3>4. CASE SpuriousWakeup
      BY <1>1, <3>4, SpuriousStep
    <3>5. QED
      BY <1>3, <3>1, <3>2, <3>3, <3>4
  <2>2. Bystander /\ script' = script /\ peer' = peer
    BY <1>3, ServersBystand
  <2>3. ScriptInv'
    BY <1>1, <2>2 DEF ScriptInv
  <2>4. HostInv' /\ SocketInv' /\ UdpInv'
    BY <1>1, <2>2, BystanderKept
  <2>5. QED
    BY <2>1, <2>3, <2>4 DEF StackInv
<1>4. QED
  BY <1>2, <1>3 DEF Next

(* A step of the UDP half: packets that are not TCP come and go. *)
OtherPackets ==
  /\ UNCHANGED <<alive, arp, tcb_set, tcb, fd_table, t, script, peer, reads, missed>>
  /\ \/ rin' = rin
     \/ rin # <<>> /\ Head(rin).kind # "tcp" /\ rin' = Tail(rin)
     \/ \E x \in Segment : x.kind # "tcp" /\ rin' = Append(rin, x)
  /\ \/ rout' = rout
     \/ rout # <<>> /\ rout' = Tail(rout)
     \/ \E x \in Segment : x.kind # "tcp" /\ rout' = Append(rout, x)
  /\ p' \in PktRecord
  /\ p' = p \/ (p.pc \in {"poll", "udp_signal"} /\ p'.pc \in {"poll", "udp_signal"})

(* Such a step leaves the TCP half alone. *)
LEMMA OthersKept ==
  ASSUME TcpInv, ScriptInv, OtherPackets
  PROVE  TcpInv' /\ ScriptInv'
<1>1. /\ rin \in Seq(Segment) /\ TcpPeers(rin) /\ rout \in Seq(Segment)
      /\ RingOut(rout, tcb, peer, arp) /\ arp \subseteq Host
  BY DEF TcpInv, Types, OutInv
<1>2. /\ UNCHANGED <<alive, tcb_set, tcb, fd_table, t, script, peer, reads, missed>> /\ arp' = arp
      /\ p' \in PktRecord
      /\ p' = p \/ (p.pc \in {"poll", "udp_signal"} /\ p'.pc \in {"poll", "udp_signal"})
  BY DEF OtherPackets
<1>3. /\ rin' \in Seq(Segment) /\ TcpPeers(rin')
      /\ \A c \in Client : \E k \in Int : Shifted(rin, rin', c, k)
  <2>0. 0 \in Int /\ 1 \in Int
    OBVIOUS
  <2>1. CASE rin' = rin
    <3>1. \A c \in Client : Shifted(rin, rin', c, 0)
      BY <1>1, <2>1, ShiftSame
    <3>2. QED
      BY <1>1, <2>0, <2>1, <3>1
  <2>2. CASE rin # <<>> /\ Head(rin).kind # "tcp" /\ rin' = Tail(rin)
    <3>1. \A c \in Client : Shifted(rin, rin', c, 1)
      BY <1>1, <2>2, ShiftTail
    <3>2. rin' \in Seq(Segment) /\ TcpPeers(rin')
      BY <1>1, <2>2, PeersTail
    <3>3. QED
      BY <2>0, <3>1, <3>2
  <2>3. ASSUME NEW x \in Segment, x.kind # "tcp", rin' = Append(rin, x)
        PROVE  /\ rin' \in Seq(Segment) /\ TcpPeers(rin')
               /\ \A c \in Client : \E k \in Int : Shifted(rin, rin', c, k)
    <3>1. \A c \in Client : Shifted(rin, rin', c, 0)
      BY <1>1, <2>3, ShiftAppend
    <3>2. rin' \in Seq(Segment) /\ TcpPeers(rin')
      BY <1>1, <2>3, PeersAppend
    <3>3. QED
      BY <2>0, <3>1, <3>2
  <2>4. QED
    BY <2>1, <2>2, <2>3 DEF OtherPackets
<1>4. rout' \in Seq(Segment) /\ RingOut(rout', tcb, peer, arp)
  <2>1. CASE rout' = rout
    BY <1>1, <2>1
  <2>2. CASE rout # <<>> /\ rout' = Tail(rout)
    BY <1>1, <2>2, RingTail
  <2>3. ASSUME NEW x \in Segment, x.kind # "tcp", rout' = Append(rout, x)
        PROVE  rout' \in Seq(Segment) /\ RingOut(rout', tcb, peer, arp)
    <3>1. OutOK(x, tcb, peer) /\ (x.kind = "tcp" => x.peer \in arp)
      BY <2>3 DEF OutOK
    <3>2. QED
      BY <1>1, <2>3, <3>1, RingAppend
  <2>4. QED
    BY <2>1, <2>2, <2>3 DEF OtherPackets
<1>5. arp \subseteq arp' /\ arp' \subseteq Host /\ TcpInv
  BY <1>1, <1>2
<1>6. TcpInv'
  BY ONLY <1>2, <1>3, <1>4, <1>5, RingOnly
<1>7. ScriptInv'
  BY <1>2 DEF ScriptInv
<1>8. QED
  BY <1>6, <1>7

(* What the invariant says of the UDP half. *)
LEMMA UdpFacts ==
  ASSUME StackInv
  PROVE  /\ TcpInv /\ ScriptInv /\ HostInv /\ SocketInv /\ UdpInv
         /\ rin \in Seq(Segment) /\ rout \in Seq(Segment) /\ p \in PktRecord
         /\ lhost \in Socket /\ lhost.rcvbuf \in Seq(Offload) /\ lhost.sndbuf \in Seq(Offload)
         /\ Lengths(lhost.rcvbuf) /\ UdpPackets(rin)
<1>1. /\ TcpInv /\ ScriptInv /\ HostInv /\ SocketInv /\ UdpInv
  BY DEF StackInv
<1>2. rin \in Seq(Segment) /\ rout \in Seq(Segment) /\ p \in PktRecord
  BY <1>1 DEF TcpInv, Types, PktRecord
<1>3. lhost \in Socket /\ Lengths(lhost.rcvbuf) /\ UdpPackets(rin)
  BY <1>1 DEF SocketInv, HostInv
<1>4. lhost.rcvbuf \in Seq(Offload) /\ lhost.sndbuf \in Seq(Offload)
  BY <1>3 DEF Socket
<1>5. QED
  BY <1>1, <1>2, <1>3, <1>4

(* The form of the packets that are not TCP. *)
LEMMA PacketFacts ==
  ASSUME NEW kind \in {"udp", "icmp", "arp_request"}, NEW c \in Host, NEW d \in Nat, NEW off \in Nat,
         NEW len \in Nat
  PROVE  /\ Packet(kind, c, d, off, len) \in Segment /\ Packet(kind, c, d, off, len).kind = kind
         /\ Packet(kind, c, d, off, len).peer = c
BY DEF Packet, Segment, Kind

(* A host emits a packet. *)
LEMMA EmitStep ==
  ASSUME StackInv, NEW c \in UdpHost, NEW pkt \in Segment, NEW r \in RemoteEnd, Emit(c, pkt, r),
         pkt.kind # "tcp", pkt.peer = c, r.n <= Len(traffic.udp[c])
  PROVE  StackInv'
<1>1. /\ rin' = Append(rin, pkt) /\ remote' = [remote EXCEPT ![c] = r]
      /\ UNCHANGED <<alive, arp, tcb_set, tcb, fd_table, t, script, peer, reads, missed>>
      /\ rout' = rout /\ p' = p /\ traffic' = traffic /\ lhost' = lhost /\ u' = u
  BY DEF Emit, ToStack, world, ghosts
<1>2. /\ TcpInv /\ ScriptInv /\ HostInv /\ SocketInv /\ UdpInv /\ p \in PktRecord
      /\ rin \in Seq(Segment) /\ UdpPackets(rin)
  BY UdpFacts
<1>3. TcpInv' /\ ScriptInv'
  <2>1. OtherPackets
    BY <1>1, <1>2 DEF OtherPackets
  <2>2. QED
    BY <1>2, <2>1, OthersKept
<1>4. HostInv'
  <2>1. UdpPackets(rin')
    BY <1>1, <1>2, UdpAppend
  <2>2. /\ remote' \in [UdpHost -> RemoteEnd] /\ remote'[c] = r
        /\ \A d \in UdpHost : d # c => remote'[d] = remote[d]
    BY <1>1, <1>2 DEF HostInv
  <2>3. \A d \in UdpHost : remote'[d].n <= Len(traffic'.udp[d])
    BY <1>1, <1>2, <2>2 DEF HostInv
  <2>4. QED
    BY <1>1, <1>2, <2>1, <2>2, <2>3 DEF HostInv
<1>5. SocketInv' /\ UdpInv'
  BY <1>1, <1>2 DEF SocketInv, UdpInv
<1>6. QED
  BY <1>3, <1>4, <1>5 DEF StackInv

(* The hosts' datagrams, pings and requests. *)
LEMMA HostsStep ==
  ASSUME StackInv, Hosts
  PROVE  StackInv'
<1>1. PICK c \in UdpHost : SendDatagram(c) \/ Ping(c) \/ AskAddress(c)
  BY DEF Hosts
<1>2. /\ c \in Host /\ remote[c] \in RemoteEnd /\ remote[c].n <= Len(traffic.udp[c])
      /\ traffic.udp[c] \in Seq(Nat \ {0})
  <2>1. HostInv
    BY UdpFacts
  <2>2. traffic.udp \in [UdpHost -> Seq(Nat \ {0})]
    BY <2>1, TrafficAssumption DEF HostInv
  <2>3. QED
    BY <1>1, <2>1, <2>2 DEF HostInv, UdpHost
<1>3. remote[c].n \in Nat /\ Len(traffic.udp[c]) \in Nat
  BY <1>2 DEF RemoteEnd
<1>4. CASE SendDatagram(c)
  <2> DEFINE d == remote[c].n + 1
             l == traffic.udp[c][d]
             pkt == Packet("udp", c, d, 0, l)
             r == [remote[c] EXCEPT !.n = d]
  <2>1. remote[c].n < Len(traffic.udp[c]) /\ Emit(c, pkt, r)
    BY <1>4 DEF SendDatagram
  <2>2. d \in Nat /\ d \in 1 .. Len(traffic.udp[c]) /\ d <= Len(traffic.udp[c])
    BY <1>3, <2>1
  <2>3. l \in Nat
    BY <1>2, <2>2
  <2> HIDE DEF l, d
  <2>4. pkt \in Segment /\ pkt.kind = "udp" /\ pkt.peer = c
    BY <1>2, <2>2, <2>3 DEF Packet, Segment, Kind
  <2>5. r \in RemoteEnd /\ r.n = d
    BY <1>2, <2>2 DEF RemoteEnd
  <2> HIDE DEF pkt, r
  <2>6. QED
    BY <2>1, <2>2, <2>4, <2>5, EmitStep
<1>5. CASE Ping(c)
  <2> DEFINE pkt == Packet("icmp", c, 0, 0, 0)
             r == [remote[c] EXCEPT !.ping = "sent"]
  <2>1. Emit(c, pkt, r)
    BY <1>5 DEF Ping
  <2>2. pkt \in Segment /\ pkt.kind = "icmp" /\ pkt.peer = c
    BY <1>2, PacketFacts
  <2>3. r \in RemoteEnd /\ r.n = remote[c].n
    BY <1>2 DEF RemoteEnd, Answer
  <2> HIDE DEF pkt, r
  <2>4. QED
    BY <1>2, <2>1, <2>2, <2>3, EmitStep
<1>6. CASE AskAddress(c)
  <2> DEFINE pkt == Packet("arp_request", c, 0, 0, 0)
             r == [remote[c] EXCEPT !.ask = "sent"]
  <2>1. Emit(c, pkt, r)
    BY <1>6 DEF AskAddress
  <2>2. pkt \in Segment /\ pkt.kind = "arp_request" /\ pkt.peer = c
    BY <1>2, PacketFacts
  <2>3. r \in RemoteEnd /\ r.n = remote[c].n
    BY <1>2 DEF RemoteEnd, Answer
  <2> HIDE DEF pkt, r
  <2>4. QED
    BY <1>2, <2>1, <2>2, <2>3, EmitStep
<1>7. QED
  BY <1>1, <1>4, <1>5, <1>6

(* Of what a host has, only the answers change. *)
LEMMA AnsweredFacts ==
  ASSUME NEW q \in RemoteEnd, NEW pkt \in Segment, pkt.kind \in {"udp", "icmp", "arp_request"}, NEW r,
         r = CASE pkt.kind = "udp" -> [q EXCEPT !.echoes = Append(q.echoes, <<pkt.msg, pkt.seq>>)]
               [] pkt.kind = "icmp" -> [q EXCEPT !.ping = "answered"]
               [] pkt.kind = "arp_request" -> [q EXCEPT !.ask = "answered"]
  PROVE  r \in RemoteEnd /\ r.n = q.n
<1> DEFINE e == Append(q.echoes, <<pkt.msg, pkt.seq>>)
<1>1. e \in Seq(Nat \X Nat)
  <2>1. q.echoes \in Seq(Nat \X Nat)
    BY DEF RemoteEnd
  <2>2. <<pkt.msg, pkt.seq>> \in Nat \X Nat
    BY DEF Segment
  <2>3. QED
    BY <2>1, <2>2
<1> HIDE DEF e
<1>2. CASE pkt.kind = "udp"
  <2>1. r = [q EXCEPT !.echoes = e]
    BY <1>2 DEF e
  <2>2. QED
    BY <1>1, <2>1 DEF RemoteEnd
<1>3. CASE pkt.kind = "icmp"
  <2>1. r = [q EXCEPT !.ping = "answered"]
    BY <1>3
  <2>2. QED
    BY <2>1 DEF RemoteEnd, Answer
<1>4. CASE pkt.kind = "arp_request"
  <2>1. r = [q EXCEPT !.ask = "answered"]
    BY <1>4
  <2>2. QED
    BY <2>1 DEF RemoteEnd, Answer
<1>5. QED
  BY <1>2, <1>3, <1>4

(* The main thread transmits what is not TCP. *)
LEMMA TransmitUdpStep ==
  ASSUME StackInv, TransmitUdp
  PROVE  StackInv'
<1> DEFINE pkt == Head(rout)
           new(q) == CASE pkt.kind = "udp" -> [q EXCEPT !.echoes = Append(q.echoes, <<pkt.msg, pkt.seq>>)]
                       [] pkt.kind = "icmp" -> [q EXCEPT !.ping = "answered"]
                       [] pkt.kind = "arp_request" -> [q EXCEPT !.ask = "answered"]
<1>0. /\ rout # <<>> /\ rout' = Tail(rout) /\ pkt.kind \in {"udp", "icmp", "arp_request"}
      /\ UNCHANGED <<alive, arp, tcb_set, tcb, fd_table, t, script, peer, reads, missed>>
      /\ rin' = rin /\ p' = p /\ traffic' = traffic /\ lhost' = lhost /\ u' = u
  BY DEF TransmitUdp, world, ghosts
<1>1. remote' = [remote EXCEPT ![pkt.peer] = new(remote[pkt.peer])]
  BY DEF TransmitUdp
<1>2. /\ TcpInv /\ ScriptInv /\ HostInv /\ SocketInv /\ UdpInv /\ p \in PktRecord
      /\ rout \in Seq(Segment)
  BY UdpFacts
<1>3. pkt \in Segment
  BY <1>0, <1>2
<1>4. TcpInv' /\ ScriptInv'
  <2>1. OtherPackets
    BY <1>0, <1>2 DEF OtherPackets
  <2>2. QED
    BY <1>2, <2>1, OthersKept
<1>5. HostInv'
  <2>1. remote \in [UdpHost -> RemoteEnd]
    BY <1>2 DEF HostInv
  <2>2. ASSUME NEW q \in RemoteEnd
        PROVE  new(q) \in RemoteEnd /\ new(q).n = q.n
    <3>1. PICK r : r = new(q)
      OBVIOUS
    <3>2. r \in RemoteEnd /\ r.n = q.n
      BY <1>0, <1>3, <3>1, AnsweredFacts
    <3>3. QED
      BY <3>1, <3>2
  <2> HIDE DEF new
  <2>4. remote' \in [UdpHost -> RemoteEnd] /\ \A d \in UdpHost : remote'[d].n = remote[d].n
    BY <1>1, <2>1, <2>2
  <2>5. QED
    BY <1>0, <1>2, <2>4 DEF HostInv
<1>6. SocketInv' /\ UdpInv'
  BY <1>0, <1>2 DEF SocketInv, UdpInv
<1>7. QED
  BY <1>4, <1>5, <1>6 DEF StackInv

(* The timer asks for an address. *)
LEMMA TimerStep ==
  ASSUME StackInv, arp_request_timer_cb
  PROVE  StackInv'
<1>1. PICK c \in Scanned : rout' = Append(rout, Arp(c))
  BY DEF arp_request_timer_cb
<1>2. /\ UNCHANGED <<alive, arp, tcb_set, tcb, fd_table, t, script, peer, reads, missed>>
      /\ rin' = rin /\ p' = p /\ UNCHANGED udp
  BY DEF arp_request_timer_cb, world, ghosts
<1>3. /\ TcpInv /\ ScriptInv /\ HostInv /\ SocketInv /\ UdpInv /\ p \in PktRecord
      /\ rin \in Seq(Segment)
  BY UdpFacts
<1>4. Arp(c) \in Segment /\ Arp(c).kind = "arp"
  BY <1>1, TrafficAssumption, ArpFacts
<1>5. OtherPackets
  BY <1>1, <1>2, <1>3, <1>4 DEF OtherPackets
<1>6. Bystander
  BY <1>2 DEF Bystander
<1>7. QED
  BY <1>3, <1>5, <1>6, OthersKept, BystanderKept DEF StackInv

(* A request or a ping is answered. *)
LEMMA AnswerStep ==
  ASSUME StackInv, arp_request \/ ng_send_icmp
  PROVE  StackInv'
<1>1. /\ rin # <<>> /\ Head(rin).kind \in {"arp_request", "icmp"} /\ rin' = Tail(rin)
      /\ rout' = Append(rout, Head(rin)) /\ p' = p
      /\ UNCHANGED <<alive, arp, tcb_set, tcb, fd_table, t, script, peer, reads, missed>>
      /\ UNCHANGED udp
  BY DEF arp_request, ng_send_icmp, Process, Same, world, ghosts, udp
<1>2. /\ TcpInv /\ ScriptInv /\ HostInv /\ SocketInv /\ UdpInv /\ p \in PktRecord
      /\ rin \in Seq(Segment)
  BY UdpFacts
<1>3. Head(rin) \in Segment
  BY <1>1, <1>2
<1>4. OtherPackets
  BY <1>1, <1>2, <1>3 DEF OtherPackets
<1>5. Bystander
  BY <1>1 DEF Bystander
<1>6. QED
  BY <1>2, <1>4, <1>5, OthersKept, BystanderKept DEF StackInv

(* udp_process queues a datagram. *)
LEMMA UdpProcessStep ==
  ASSUME StackInv, udp_process
  PROVE  StackInv'
<1> DEFINE pkt == Head(rin)
           l == pkt.len + UDP_HDR
           x == offload(pkt.peer, pkt.msg, 0, l)
           q == Append(lhost.rcvbuf, x)
<1>1. /\ p.pc = "poll" /\ rin # <<>> /\ pkt.kind = "udp" /\ rin' = Tail(rin) /\ rout' = rout
      /\ UNCHANGED <<alive, arp, tcb_set, tcb, fd_table, t, script, peer, reads, missed>>
      /\ lhost' = [lhost EXCEPT !.rcvbuf = q] /\ p' = [p EXCEPT !.pc = "udp_signal"]
      /\ traffic' = traffic /\ u' = u /\ remote' = remote
  BY DEF udp_process, Process, Same, world, ghosts
<1>2. /\ TcpInv /\ ScriptInv /\ HostInv /\ SocketInv /\ UdpInv /\ p \in PktRecord
      /\ rin \in Seq(Segment) /\ UdpPackets(rin) /\ lhost \in Socket /\ lhost.rcvbuf \in Seq(Offload)
      /\ Lengths(lhost.rcvbuf)
  BY UdpFacts
<1>3. p' \in PktRecord /\ p'.pc = "udp_signal"
  BY <1>1, <1>2 DEF PktRecord, PktPc
<1>4. TcpInv' /\ ScriptInv'
  <2>1. OtherPackets
    BY <1>1, <1>3 DEF OtherPackets
  <2>2. QED
    BY <1>2, <2>1, OthersKept
<1>5. pkt \in Segment /\ pkt.peer \in UdpHost /\ UdpPackets(rin')
  BY <1>1, <1>2, UdpTail
<1>6. pkt.msg \in Nat /\ l \in Nat /\ l > 0
  BY <1>5, TrafficAssumption DEF Segment
<1> HIDE DEF l
<1>7. x \in Offload /\ x.length > 0
  BY <1>5, <1>6 DEF offload, Offload
<1> HIDE DEF x
<1>8. q \in Seq(Offload) /\ Lengths(q)
  BY <1>2, <1>7, LengthsAppend
<1> HIDE DEF q
<1>9. lhost' \in Socket /\ lhost'.rcvbuf = q
  BY <1>1, <1>2, <1>8 DEF Socket
<1>10. HostInv'
  BY <1>1, <1>2, <1>5 DEF HostInv
<1>11. SocketInv'
  BY <1>1, <1>2, <1>8, <1>9 DEF SocketInv
<1>12. UdpInv'
  BY <1>3 DEF UdpInv
<1>13. QED
  BY <1>4, <1>10, <1>11, <1>12 DEF StackInv

(* The UDP server is signalled. *)
LEMMA SignalUdpStep ==
  ASSUME StackInv, SignalUdp
  PROVE  StackInv'
<1>1. /\ p.pc = "udp_signal" /\ u.pc # "hold" /\ rin' = rin /\ rout' = rout
      /\ UNCHANGED <<alive, arp, tcb_set, tcb, fd_table, t, script, peer, reads, missed>>
      /\ u' = (IF u.pc = "wait" THEN [u EXCEPT !.pc = "try"] ELSE u)
      /\ p' = [pc |-> "poll", seg |-> NULL, part |-> "none"]
      /\ traffic' = traffic /\ lhost' = lhost /\ remote' = remote
  BY DEF SignalUdp, Poll, world, ghosts
<1>2. TcpInv /\ ScriptInv /\ HostInv /\ SocketInv
  BY UdpFacts
<1>3. p' \in PktRecord /\ p'.pc = "poll"
  BY <1>1 DEF PktRecord, PktPc
<1>4. TcpInv' /\ ScriptInv'
  <2>1. OtherPackets
    BY <1>1, <1>3 DEF OtherPackets
  <2>2. QED
    BY <1>2, <2>1, OthersKept
<1>5. HostInv'
  BY <1>1, <1>2 DEF HostInv
<1>6. u'.pc \in {"try", "copy", "send"} /\ (u'.pc \in {"copy", "send"} => u' = u)
  BY <1>1, <1>2 DEF SocketInv
<1>7. SocketInv'
  BY <1>1, <1>2, <1>6 DEF SocketInv
<1>8. UdpInv'
  BY <1>6 DEF UdpInv
<1>9. QED
  BY <1>4, <1>5, <1>7, <1>8 DEF StackInv

(* udp_out sends a fragment, or puts it behind the others and asks for the  *)
(* address of its host.                                                     *)
LEMMA UdpOutStep ==
  ASSUME StackInv, udp_out
  PROVE  StackInv'
<1> DEFINE ol == Head(lhost.sndbuf)
           rest == Tail(lhost.sndbuf)
           pkt == Packet("udp", ol.peer, ol.msg, ol.off, 0)
<1>1. /\ p.pc = "poll" /\ lhost.sndbuf # <<>> /\ rin' = rin /\ p' = p
      /\ UNCHANGED <<alive, arp, tcb_set, tcb, fd_table, t, script, peer, reads, missed>>
      /\ traffic' = traffic /\ u' = u /\ remote' = remote
      /\ rout' \in {rout, Append(rout, pkt), Append(rout, Arp(ol.peer))}
      /\ \/ lhost' = [lhost EXCEPT !.sndbuf = rest]
         \/ lhost' = [lhost EXCEPT !.sndbuf = Append(rest, ol)]
  BY DEF udp_out, Same, world, ghosts
<1>2. /\ TcpInv /\ ScriptInv /\ HostInv /\ SocketInv /\ UdpInv /\ p \in PktRecord
      /\ lhost \in Socket /\ lhost.sndbuf \in Seq(Offload)
  BY UdpFacts
<1>3. ol \in Offload /\ rest \in Seq(Offload)
  BY <1>1, <1>2
<1>4. Append(rest, ol) \in Seq(Offload)
  BY <1>3
<1>5. ol.peer \in Host /\ ol.msg \in Nat /\ ol.off \in Nat /\ 0 \in Nat
  BY <1>3 DEF Offload, UdpHost
<1>6. /\ pkt \in Segment /\ pkt.kind # "tcp"
      /\ Arp(ol.peer) \in Segment /\ Arp(ol.peer).kind # "tcp"
  <2> HIDE DEF ol
  <2>1. QED
    BY <1>5, PacketFacts, ArpFacts
<1> HIDE DEF pkt, ol, rest
<1>7. OtherPackets
  BY <1>1, <1>2, <1>6 DEF OtherPackets
<1>8. TcpInv' /\ ScriptInv'
  BY <1>2, <1>7, OthersKept
<1>9. lhost' \in Socket /\ lhost'.rcvbuf = lhost.rcvbuf
  BY <1>1, <1>2, <1>3, <1>4 DEF Socket
<1>10. HostInv'
  BY <1>1, <1>2 DEF HostInv
<1>11. SocketInv' /\ UdpInv'
  BY <1>1, <1>2, <1>9 DEF SocketInv, UdpInv
<1>12. QED
  BY <1>8, <1>10, <1>11 DEF StackInv

(* A step of the UDP server disturbs nothing but the socket. *)
LEMMA UdpServerOnly ==
  ASSUME StackInv, NEW v, ServerStep(v)
  PROVE  TcpInv' /\ ScriptInv' /\ HostInv' /\ p' = p /\ u' = v
<1>1. /\ UNCHANGED <<alive, arp, tcb_set, tcb, fd_table, t, script, peer, reads, missed>>
      /\ rin' = rin /\ rout' = rout /\ p' = p /\ u' = v /\ traffic' = traffic /\ remote' = remote
  BY DEF ServerStep, stack, world, ghosts
<1>2. TcpInv /\ ScriptInv /\ HostInv /\ p \in PktRecord
  BY UdpFacts
<1>3. OtherPackets
  BY <1>1, <1>2 DEF OtherPackets
<1>4. TcpInv' /\ ScriptInv'
  BY <1>2, <1>3, OthersKept
<1>5. HostInv'
  BY <1>1, <1>2 DEF HostInv
<1>6. QED
  BY <1>1, <1>4, <1>5

(* nrecvfrom finds a fragment or goes to wait. *)
LEMMA DequeueStep ==
  ASSUME StackInv, Dequeue
  PROVE  StackInv'
<1>1. /\ SocketInv /\ UdpInv /\ lhost \in Socket /\ lhost.rcvbuf \in Seq(Offload)
      /\ Lengths(lhost.rcvbuf)
  BY UdpFacts
<1>2. CASE lhost.rcvbuf = <<>>
  <2>1. ServerStep([u EXCEPT !.pc = "hold"]) /\ lhost' = lhost /\ u.pc = "try"
    BY <1>2 DEF Dequeue
  <2>2. TcpInv' /\ ScriptInv' /\ HostInv' /\ u' = [u EXCEPT !.pc = "hold"]
    BY <2>1, UdpServerOnly
  <2>3. u'.pc \in {"hold", "try"}
    BY <2>1, <2>2
  <2>4. SocketInv' /\ UdpInv'
    BY <1>1, <1>2, <2>1, <2>3 DEF SocketInv, UdpInv
  <2>5. QED
    BY <2>2, <2>4 DEF StackInv
<1>3. CASE lhost.rcvbuf # <<>>
  <2> DEFINE v == [pc |-> "copy", ol |-> Head(lhost.rcvbuf)]
             rest == Tail(lhost.rcvbuf)
  <2>1. ServerStep(v) /\ lhost' = [lhost EXCEPT !.rcvbuf = rest]
    BY <1>3 DEF Dequeue
  <2>2. Lengths(rest) /\ rest \in Seq(Offload) /\ v.pc = "copy" /\ v.ol \in Offload
    BY <1>1, <1>3, LengthsTail
  <2> HIDE DEF v, rest
  <2>3. TcpInv' /\ ScriptInv' /\ HostInv' /\ u' = v
    BY <2>1, UdpServerOnly
  <2>4. lhost' \in Socket /\ lhost'.rcvbuf = rest
    BY <1>1, <2>1, <2>2 DEF Socket
  <2>5. SocketInv' /\ UdpInv'
    BY <2>2, <2>3, <2>4 DEF SocketInv, UdpInv
  <2>6. QED
    BY <2>3, <2>5 DEF StackInv
<1>4. QED
  BY <1>2, <1>3

(* The server waits, or wakes up without a signal. *)
LEMMA WaitStep ==
  ASSUME StackInv, CondWait \/ SpuriousUdp
  PROVE  StackInv'
<1>1. PICK s \in {"wait", "try"} : /\ ServerStep([u EXCEPT !.pc = s]) /\ lhost' = lhost
                                   /\ u.pc \in {"hold", "wait"}
  BY DEF CondWait, SpuriousUdp
<1>2. TcpInv' /\ ScriptInv' /\ HostInv' /\ p' = p /\ u' = [u EXCEPT !.pc = s]
  BY <1>1, UdpServerOnly
<1>3. SocketInv /\ UdpInv
  BY UdpFacts
<1>4. u'.pc \in {"wait", "try", "hold"}
  BY <1>1, <1>2
<1>5. SocketInv' /\ UdpInv'
  BY <1>1, <1>2, <1>3, <1>4 DEF SocketInv, UdpInv
<1>6. QED
  BY <1>2, <1>5 DEF StackInv

(* nrecvfrom cuts a fragment longer than the buffer. *)
LEMMA CutStep ==
  ASSUME StackInv, nrecvfrom
  PROVE  StackInv'
<1> DEFINE B == UDP_APP_RECV_BUFFER_SIZE
           x == offload(u.ol.peer, u.ol.msg, u.ol.off + B, u.ol.length - B)
           q == Append(lhost.rcvbuf, x)
<1>1. /\ ServerStep([u EXCEPT !.pc = "send"]) /\ u.pc = "copy"
      /\ lhost' = IF B < u.ol.length THEN [lhost EXCEPT !.rcvbuf = q] ELSE lhost
  BY DEF nrecvfrom
<1>2. /\ SocketInv /\ lhost \in Socket /\ lhost.rcvbuf \in Seq(Offload) /\ Lengths(lhost.rcvbuf)
  BY UdpFacts
<1>3. u.ol \in Offload
  BY <1>1, <1>2 DEF SocketInv
<1>4. TcpInv' /\ ScriptInv' /\ HostInv' /\ u' = [u EXCEPT !.pc = "send"]
  BY <1>1, UdpServerOnly
<1>5. lhost' \in Socket /\ Lengths(lhost'.rcvbuf)
  <2>1. CASE B < u.ol.length
    <3>1. /\ u.ol.peer \in UdpHost /\ u.ol.msg \in Nat /\ u.ol.off + B \in Nat
          /\ u.ol.length - B \in Nat /\ u.ol.length - B > 0
      BY <1>3, <2>1, TrafficAssumption DEF Offload
    <3>2. x \in Offload /\ x.length > 0
      BY <3>1 DEF offload, Offload
    <3> HIDE DEF x
    <3>3. q \in Seq(Offload) /\ Lengths(q)
      BY <1>2, <3>2, LengthsAppend
    <3> HIDE DEF q
    <3>4. lhost' = [lhost EXCEPT !.rcvbuf = q]
      BY <1>1, <2>1
    <3>5. QED
      BY <1>2, <3>3, <3>4 DEF Socket
  <2>2. CASE ~(B < u.ol.length)
    BY <1>1, <1>2, <2>2
  <2>3. QED
    BY <2>1, <2>2
<1>6. u'.pc \in {"send", "copy"} /\ u'.ol \in Offload /\ u'.pc \notin {"hold", "wait"}
  <2>1. u.pc = "copy" /\ u' = [u EXCEPT !.pc = "send"]
    BY <1>1, <1>4
  <2>2. QED
    BY <1>3, <2>1
<1>7. SocketInv' /\ UdpInv'
  BY <1>5, <1>6 DEF SocketInv, UdpInv
<1>8. QED
  BY <1>4, <1>7 DEF StackInv

(* nsendto queues the echo, or finds nothing to copy. *)
LEMMA SendtoStep ==
  ASSUME StackInv, nsendto
  PROVE  StackInv'
<1> DEFINE x == offload(u.ol.peer, u.ol.msg, u.ol.off, 0)
           v == [pc |-> "try", ol |-> NoOffload]
           q == Append(lhost.sndbuf, x)
<1>1. ServerStep(v) /\ u.pc = "send" /\ (lhost' = lhost \/ lhost' = [lhost EXCEPT !.sndbuf = q])
  BY DEF nsendto
<1>2. /\ SocketInv /\ lhost \in Socket /\ lhost.sndbuf \in Seq(Offload) /\ Lengths(lhost.rcvbuf)
  BY UdpFacts
<1>3. u.ol \in Offload
  BY <1>1, <1>2 DEF SocketInv
<1>4. x \in Offload /\ v.pc = "try"
  BY <1>3 DEF offload, Offload
<1> HIDE DEF x, v
<1>5. q \in Seq(Offload)
  BY <1>2, <1>4
<1> HIDE DEF q
<1>6. TcpInv' /\ ScriptInv' /\ HostInv' /\ u' = v
  BY <1>1, UdpServerOnly
<1>7. lhost' \in Socket /\ lhost'.rcvbuf = lhost.rcvbuf
  <2>1. CASE lhost' = lhost
    BY <1>2, <2>1
  <2>2. CASE lhost' = [lhost EXCEPT !.sndbuf = q]
    BY <1>2, <1>5, <2>2 DEF Socket
  <2>3. QED
    BY <1>1, <2>1, <2>2
<1>8. SocketInv' /\ UdpInv'
  BY <1>2, <1>4, <1>6, <1>7 DEF SocketInv, UdpInv
<1>9. QED
  BY <1>6, <1>8 DEF StackInv

(* Every step of the stack keeps the invariant, or the process dies. *)
LEMMA StackStep ==
  ASSUME StackInv, StackNext
  PROVE  StackInv' \/ (Died /\ UNCHANGED udp)
BY TcpStep, HostsStep, TransmitUdpStep, TimerStep, AnswerStep, UdpProcessStep, SignalUdpStep,
   UdpOutStep, DequeueStep, WaitStep, CutStep, SendtoStep
   DEF StackNext, PacketsUdp, udp_server_entry

------------------------------------------------------------------------------
(* The first states. *)
LEMMA StackInitInv ==
  ASSUME StackInit
  PROVE  StackInv
<1>1. /\ alive = TRUE /\ missed = FALSE /\ rin = <<>> /\ rout = <<>> /\ arp = {}
      /\ tcb_set = <<Listener>> /\ tcb = [c \in Client |-> NoStream]
      /\ fd_table = {3, listenfd} /\ script \in Workload
      /\ reads = [c \in Client |-> <<>>]
  BY DEF StackInit, Init
<1>2. p = [pc |-> "poll", seg |-> NULL, part |-> "none"]
  BY DEF StackInit, Init
<1>3. t = [pc |-> "find", cur |-> NULL, iter |-> NULL, fd |-> -1, len |-> 0, seq |-> 0, ack |-> 0]
  BY DEF StackInit, Init
<1>4. peer = [c \in Client |-> [st |-> "idle", snd |-> 0, cnt |-> 0, rcv |-> 0, n |-> 0, pushes |-> 0]]
  BY DEF StackInit, Init
<1>5. /\ traffic \in Traffic /\ lhost = [rcvbuf |-> <<>>, sndbuf |-> <<>>]
      /\ u = [pc |-> "try", ol |-> NoOffload]
      /\ remote = [c \in UdpHost |-> [n |-> 0, echoes |-> <<>>, ping |-> "no", ask |-> "no"]]
  BY DEF StackInit
<1> DEFINE none == <<>>
<1>6. /\ none \in Seq(Segment) /\ none \in Seq(Nat \X Nat) /\ none \in Seq(Offload) /\ Len(none) = 0
      /\ 1 .. Len(none) = {} /\ ToSet(none) = {} /\ IsInjective(none)
  BY DEF ToSet, IsInjective
<1> HIDE DEF none
<1>7. rin = none /\ rout = none
  BY <1>1 DEF none
<1>8. ASSUME NEW c \in Client
      PROVE  /\ tcb[c] \in Stream /\ tcb[c].fd = -1 /\ tcb[c].status = "none" /\ tcb[c].snd_nxt = 0
             /\ tcb[c].rcv_nxt = 0 /\ tcb[c].sndbuf = none /\ tcb[c].rcvbuf = none
             /\ reads[c] = none
             /\ peer[c] \in PeerEnd /\ peer[c].st = "idle" /\ peer[c].cnt = 0 /\ peer[c].rcv = 0
             /\ peer[c].pushes = 0
  <2>1. tcb[c] = NoStream /\ reads[c] = none
    BY <1>1 DEF none
  <2>2. peer[c] = [st |-> "idle", snd |-> 0, cnt |-> 0, rcv |-> 0, n |-> 0, pushes |-> 0]
    BY <1>4
  <2>3. /\ peer[c] \in PeerEnd /\ peer[c].st = "idle" /\ peer[c].cnt = 0 /\ peer[c].rcv = 0
        /\ peer[c].pushes = 0
    BY <2>2 DEF PeerEnd, PeerFrame, PeerState
  <2>4. QED
    BY <2>1, <2>3, EmptyStream DEF none
<1>9. p \in PktRecord /\ p.pc = "poll"
  BY <1>2 DEF PktRecord, PktPc
<1>10. /\ t.pc = "find" /\ t.cur = NULL /\ t.fd = -1
       /\ t \in [pc : Pc, cur : Client \cup {NULL}, iter : Client \cup {Listener, NULL},
                 fd : {-1, 5}, len : Nat, seq : Nat, ack : Nat]
  BY <1>3 DEF Pc
<1>11. \A c : Of(rin, c) = {}
  BY <1>6, <1>7 DEF Of
<1>12. Types
  <2>1. tcb \in [Client -> Stream] /\ peer \in [Client -> PeerEnd]
    BY <1>1, <1>4, <1>8
  <2>2. reads \in [Client -> Seq(Nat \X Nat)]
    BY <1>1, <1>6 DEF none
  <2>3. QED
    BY <1>1, <1>6, <1>7, <1>9, <1>10, <2>1, <2>2 DEF Types, PktRecord
<1>13. ListInv
  <2>1. ASSUME NEW c \in Client PROVE ~Listed(c)
    BY <1>1, Apart DEF Listed
  <2>2. QED
    BY <1>1, <1>8, <2>1 DEF ListInv
<1>14. ServerInv
  <2>1. t.pc \notin Working /\ t.pc \notin Closing /\ t.pc \notin Sending
    BY <1>10 DEF Working, Closing, Sending, Receiving
  <2>2. fd_table = {3, listenfd} \cup ({t.fd} \ {-1})
    BY <1>1, <1>10
  <2>3. QED
    BY <1>10, <2>1, <2>2 DEF ServerInv
<1>15. InUseInv
  BY <1>8, <1>10 DEF InUseInv, Working, Closing, Sending, Receiving, Looking
<1>16. SignalInv
  BY <1>8, <1>10 DEF SignalInv
<1>17. LineInv
  <2>1. SUFFICES ASSUME NEW c \in Client PROVE Line(c)
    BY DEF LineInv
  <2>2. Of(rin, c) = {}
    BY <1>11
  <2>3. Forms(rin, c, peer[c])
    BY <2>2 DEF Forms
  <2>4. Phase(rin, c, tcb[c].status, peer[c])
    BY <1>8, <2>2 DEF Phase, Opening, NoData
  <2>5. Due(p, c) = 0
    BY <1>9 DEF Due
  <2>6. Chain(rin, c, tcb[c].rcv_nxt + Due(p, c), peer[c].cnt)
    <3>1. tcb[c].rcv_nxt + Due(p, c) = 0 /\ peer[c].cnt = 0
      BY <1>8, <2>5
    <3>2. Chain(rin, c, 0, 0)
      BY <2>2 DEF Chain
    <3>3. QED
      BY <3>1, <3>2
  <2>7. Started(reads[c], tcb[c].rcvbuf) \cup InHand(p, c) = {}
    <3>1. Started(none, none) = {}
      BY <1>6 DEF Started
    <3>2. InHand(p, c) = {}
      BY <1>9 DEF InHand
    <3>3. QED
      BY <1>8, <3>1, <3>2
  <2>8. Messages(rin, c, Started(reads[c], tcb[c].rcvbuf) \cup InHand(p, c), peer[c].pushes,
                 peer[c].st = "ESTABLISHED")
    <3> DEFINE open == peer[c].st = "ESTABLISHED"
    <3>1. ~open /\ peer[c].pushes = 0
      BY <1>8
    <3> HIDE DEF open
    <3>2. Messages(rin, c, {}, 0, open)
      BY <2>2, <3>1 DEF Messages
    <3>3. QED
      BY <2>7, <3>1, <3>2 DEF open
  <2>9. QED
    BY <2>3, <2>4, <2>6, <2>8 DEF Line
<1>18. PktInv
  BY <1>9 DEF PktInv, Handling
<1>19. OutInv
  <2>1. TcpPeers(rin) /\ RingOut(rout, tcb, peer, arp)
    BY <1>6, <1>7 DEF TcpPeers, RingOut
  <2>2. ASSUME NEW c \in Client PROVE StreamOut(c, tcb, peer, arp)
    BY <1>6, <1>8 DEF StreamOut, Opening
  <2>3. QED
    BY <2>1, <2>2 DEF OutInv
<1>20. ReadInv
  <2>1. ASSUME NEW c \in Client
        PROVE  /\ Fragments(tcb[c].rcvbuf, reads[c]) /\ tcb[c].rcvbuf = none /\ reads[c] = none
               /\ \A i \in 1 .. Len(reads[c]) : <<reads[c][i][1], 0>> \in ToSet(reads[c])
               /\ \A i \in 1 .. Len(tcb[c].rcvbuf) : tcb[c].rcvbuf[i].len = 0 =>
                    tcb[c].status = "CLOSE_WAIT" /\ ~(t.cur = c /\ t.pc \in Closing)
    BY <1>6, <1>8 DEF Fragments
  <2>2. QED
    BY <2>1 DEF ReadInv, none
<1>21. ReadOnceInOrder
  BY <1>6, <1>8 DEF ReadOnceInOrder
<1>22. TcpInv
  BY <1>12, <1>13, <1>14, <1>15, <1>16, <1>17, <1>18, <1>19, <1>20, <1>21 DEF TcpInv
<1>23. ScriptInv
  BY <1>8 DEF ScriptInv
<1>24. HostInv
  <2>1. ASSUME NEW c \in UdpHost
        PROVE  remote[c] \in RemoteEnd /\ remote[c].n <= Len(traffic.udp[c])
    <3>1. remote[c] = [n |-> 0, echoes |-> none, ping |-> "no", ask |-> "no"]
      BY <1>5 DEF none
    <3>2. traffic.udp[c] \in Seq(Nat \ {0})
      BY <1>5, TrafficAssumption
    <3>3. QED
      BY <1>6, <3>1, <3>2 DEF RemoteEnd, Answer
  <2>2. remote \in [UdpHost -> RemoteEnd]
    BY <1>5, <2>1
  <2>3. UdpPackets(rin)
    BY <1>6, <1>7 DEF UdpPackets
  <2>4. QED
    BY <1>5, <2>1, <2>2, <2>3 DEF HostInv
<1>25. SocketInv /\ UdpInv
  <2>1. lhost = [rcvbuf |-> none, sndbuf |-> none] /\ u.pc = "try"
    BY <1>5 DEF none
  <2>2. lhost \in Socket /\ lhost.rcvbuf = none
    BY <1>6, <2>1 DEF Socket
  <2>3. QED
    BY <1>6, <2>1, <2>2 DEF SocketInv, UdpInv, Lengths
<1>26. QED
  BY <1>22, <1>23, <1>24, <1>25 DEF StackInv

------------------------------------------------------------------------------
(* What the theorems say, of a state. *)
Safe == StackConsistent /\ NoLostWakeups /\ AcksExact /\ InOrder

(* What the invariant says of the types. *)
LEMMA InvTypes ==
  ASSUME StackInv
  PROVE  TypeOK
<1>1. /\ Types /\ ListInv /\ ServerInv /\ OutInv
      /\ tcb \in [Client -> Stream] /\ peer \in [Client -> PeerEnd]
  BY DEF StackInv, TcpInv, Types
<1>2. ToSet(rin) \subseteq Segment /\ ToSet(rout) \subseteq Segment
  BY <1>1 DEF Types, ToSet
<1>3. ToSet(tcb_set) = {Listener} \cup {c \in Client : tcb[c].status \notin {"none", "freed"}}
  <2>1. CASE tcb_set = <<Listener>>
    <3>1. ToSet(tcb_set) = {Listener}
      BY <2>1 DEF ToSet
    <3>2. \A c \in Client : ~Listed(c)
      BY <2>1, Apart DEF Listed
    <3>3. QED
      BY <1>1, <3>1, <3>2 DEF ListInv
  <2>2. ASSUME NEW c \in Client, tcb_set = <<c, Listener>>
        PROVE  ToSet(tcb_set) = {Listener} \cup {d \in Client : tcb[d].status \notin {"none", "freed"}}
    <3>1. ToSet(tcb_set) = {c, Listener}
      BY <2>2 DEF ToSet
    <3>2. \A d \in Client : Listed(d) <=> d = c
      BY <2>2 DEF Listed
    <3>3. QED
      BY <1>1, <3>1, <3>2 DEF ListInv
  <2>3. QED
    BY <1>1, <2>1, <2>2 DEF ListInv, Listed
<1>4. ASSUME NEW c \in Client
      PROVE  /\ tcb[c].status \in Status
             /\ tcb[c].fd \in (-1) .. MAX_FD
             /\ tcb[c].snd_nxt \in 0 .. peer[c].rcv /\ tcb[c].rcv_nxt \in 0 .. peer[c].snd
             /\ ToSet(tcb[c].sndbuf) \subseteq Segment
  <2>1. tcb[c] \in Stream /\ peer[c] \in PeerEnd
    BY <1>1
  <2>2. tcb[c].status \in Status /\ tcb[c].fd \in (-1) .. MAX_FD
    BY <2>1 DEF Stream, MAX_FD
  <2>3. tcb[c].snd_nxt <= peer[c].rcv /\ tcb[c].rcv_nxt <= peer[c].cnt
    BY <1>1 DEF OutInv, StreamOut
  <2>4. /\ tcb[c].snd_nxt \in Nat /\ tcb[c].rcv_nxt \in Nat /\ peer[c].rcv \in Nat
        /\ peer[c].cnt \in Nat /\ peer[c].snd \in Nat /\ peer[c].cnt <= peer[c].snd
        /\ tcb[c].sndbuf \in Seq(Segment)
    BY <2>1 DEF Stream, PeerEnd, PeerFrame
  <2>5. ToSet(tcb[c].sndbuf) \subseteq Segment
    BY <2>4 DEF ToSet
  <2>6. QED
    BY <2>2, <2>3, <2>4, <2>5
<1>5. fd_table \subseteq 3 .. MAX_FD
  BY <1>1 DEF ServerInv, Types, MAX_FD, listenfd
<1>6. /\ alive \in BOOLEAN /\ missed \in BOOLEAN /\ arp \subseteq Host /\ p.pc \in PktPc
      /\ t.pc \in Pc /\ t.cur \in Client \cup {NULL} /\ t.iter \in Client \cup {Listener, NULL}
  BY <1>1 DEF Types
<1>7. QED
  BY <1>2, <1>3, <1>4, <1>5, <1>6 DEF TypeOK, PktPc

(* What the invariant says of a client's acknowledgements. *)
LEMMA InvAcks ==
  ASSUME StackInv
  PROVE  AcksExact
<1>1. /\ Types /\ PktInv /\ OutInv /\ LineInv /\ peer \in [Client -> PeerEnd]
      /\ tcb \in [Client -> Stream] /\ rout \in Seq(Segment)
  BY DEF StackInv, TcpInv, Types
<1>2. ASSUME NEW c \in Client, NEW s \in ToSet(rout) \cup ToSet(tcb[c].sndbuf),
             s.kind = "tcp", s.peer = c
      PROVE  s.ack <= peer[c].snd
  <2>0. peer[c].cnt \in Nat /\ peer[c].snd \in Nat /\ peer[c].cnt <= peer[c].snd
    BY <1>1 DEF PeerEnd, PeerFrame
  <2>1. CASE s \in ToSet(rout)
    <3>1. PICK i \in 1 .. Len(rout) : s = rout[i]
      BY <1>1, <2>1 DEF ToSet
    <3>2. OutOK(s, tcb, peer)
      BY <1>1, <3>1 DEF OutInv, RingOut
    <3>3. s.ack <= peer[c].cnt /\ s.ack \in Nat
      <4>1. s \in Segment
        BY <1>1, <3>1
      <4>2. s.ack \in Nat
        BY <4>1 DEF Segment
      <4>3. QED
        BY ONLY <1>2, <3>2, <4>2 DEF OutOK
    <3>4. QED
      BY <2>0, <3>3
  <2>2. CASE s \in ToSet(tcb[c].sndbuf)
    <3>1. tcb[c].sndbuf \in Seq(Segment)
      BY <1>1 DEF Stream
    <3>2. PICK i \in 1 .. Len(tcb[c].sndbuf) : s = tcb[c].sndbuf[i]
      BY <2>2, <3>1 DEF ToSet
    <3>3. OutOK(s, tcb, peer)
      BY <1>1, <3>2 DEF OutInv, StreamOut
    <3>4. s.ack <= peer[c].cnt /\ s.ack \in Nat
      <4>1. s \in Segment
        BY <3>1, <3>2
      <4>2. s.ack \in Nat
        BY <4>1 DEF Segment
      <4>3. QED
        BY ONLY <1>2, <3>3, <4>2 DEF OutOK
    <3>5. QED
      BY <2>0, <3>4
  <2>3. QED
    BY <2>1, <2>2
<1>3. ASSUME NEW c \in Client, p.pc = "poll", FromPeer(c) = {},
             tcb[c].status \in {"ESTABLISHED", "CLOSE_WAIT", "LAST_ACK"}
      PROVE  tcb[c].rcv_nxt = peer[c].cnt
  <2>1. Of(rin, c) = {}
    BY <1>3 DEF FromPeer, Of
  <2>2. Due(p, c) = 0
    BY <1>3, Idle DEF Handling
  <2>3. Chain(rin, c, tcb[c].rcv_nxt + Due(p, c), peer[c].cnt)
    BY <1>1, <1>3 DEF LineInv, Line
  <2>4. tcb[c].rcv_nxt + Due(p, c) = peer[c].cnt
    BY <2>1, <2>3 DEF Chain
  <2>5. QED
    BY <1>1, <2>2, <2>4, DueFacts
<1>4. QED
  BY <1>2, <1>3 DEF AcksExact

(* What the invariant says. *)
LEMMA InvSafe ==
  ASSUME StackInv
  PROVE  Safe
<1>1. TcpInv /\ HostInv /\ SocketInv /\ UdpInv
  BY DEF StackInv
<1>2. /\ Types /\ ListInv /\ ServerInv /\ InUseInv /\ SignalInv /\ OutInv /\ ReadOnceInOrder
      /\ t.cur \in Client \cup {NULL}
  BY <1>1 DEF TcpInv, Types
<1>3. NoStreamFreedInUse
  <2>1. SUFFICES ASSUME t.cur # NULL, ~missed PROVE Contains(tcb_set, t.cur)
    BY DEF NoStreamFreedInUse
  <2>2. t.cur \in Client /\ Listed(t.cur)
    BY <1>2, <2>1 DEF InUseInv
  <2>3. QED
    BY <1>2, <2>2, ListFacts
<1>4. StackConsistent
  <2>1. \A c \in UdpHost : remote[c].n \in 0 .. Len(traffic.udp[c])
    <3>1. SUFFICES ASSUME NEW c \in UdpHost PROVE remote[c].n \in 0 .. Len(traffic.udp[c])
      OBVIOUS
    <3>2. remote[c] \in RemoteEnd /\ remote[c].n <= Len(traffic.udp[c])
      BY <1>1 DEF HostInv
    <3>3. traffic.udp[c] \in Seq(Nat \ {0})
      BY <1>1, TrafficAssumption DEF HostInv
    <3>4. remote[c].n \in Nat /\ Len(traffic.udp[c]) \in Nat
      BY <3>2, <3>3 DEF RemoteEnd
    <3>5. QED
      BY <3>2, <3>4
  <2>2. u.pc \in {"copy", "send"} => u.ol.peer \in UdpHost
    BY <1>1 DEF SocketInv, Offload
  <2>3. TypeOK
    BY InvTypes
  <2>4. QED
    BY <1>1, <1>3, <2>1, <2>2, <2>3 DEF StackConsistent, SocketInv, Lengths
<1>5. NoLostWakeups
  <2>1. ASSUME t.pc = "accept_wait", NEW c \in Client, Contains(tcb_set, c), tcb[c].fd = -1,
               tcb[c].status # "SYN_RCVD"
        PROVE  p.pc = "accept"
    <3>1. Listed(c)
      BY <1>2, <2>1, ListFacts
    <3>2. QED
      BY <1>2, <2>1, <3>1 DEF SignalInv
  <2>2. NoLostWakeup
    BY <1>2, <2>1 DEF NoLostWakeup, SignalInv
  <2>3. QED
    BY <1>1, <2>2 DEF NoLostWakeups, UdpInv
<1>6. InOrder
  BY <1>2 DEF InOrder, RequeueKeepsOrder, OutInv, StreamOut
<1>7. QED
  BY <1>4, <1>5, <1>6, InvAcks DEF Safe

(* When the process dies the rest of the state is as it was. *)
LEMMA DiedSafe ==
  ASSUME StackInv, Died, UNCHANGED udp
  PROVE  ~alive' /\ Safe'
<1>1. /\ alive' = FALSE /\ p.pc = "poll" /\ p'.pc = "poll" /\ rin # <<>> /\ rin' = Tail(rin)
      /\ rout' = rout /\ arp' = arp /\ tcb_set' = tcb_set /\ tcb' = tcb /\ fd_table' = fd_table
      /\ t' = t /\ script' = script /\ peer' = peer /\ reads' = reads /\ missed' = missed
      /\ traffic' = traffic /\ lhost' = lhost /\ u' = u /\ remote' = remote
  BY DEF Died, udp
<1>2. Safe /\ rin \in Seq(Segment)
  BY InvSafe, UdpFacts
<1>3. TypeOK'
  <2>1. ToSet(rin') \subseteq Segment
    <3>1. rin' \in Seq(Segment)
      BY <1>1, <1>2
    <3>2. QED
      BY <3>1 DEF ToSet
  <2>2. TypeOK
    BY <1>2 DEF Safe, StackConsistent
  <2>3. QED
    BY <1>1, <2>1, <2>2 DEF TypeOK
<1>4. StackConsistent'
  BY <1>1, <1>2, <1>3 DEF Safe, StackConsistent, NoStreamFreedInUse
<1>5. NoLostWakeups'
  BY <1>1, <1>2 DEF Safe, NoLostWakeups, NoLostWakeup
<1>6. AcksExact'
  BY <1>1, <1>2 DEF Safe, AcksExact
<1>7. InOrder'
  <2>1. ReadOnceInOrder /\ RequeueKeepsOrder
    BY <1>2 DEF Safe, InOrder
  <2>2. ReadOnceInOrder'
    BY ONLY <1>1, <2>1 DEF ReadOnceInOrder
  <2>3. RequeueKeepsOrder'
    BY ONLY <1>1, <2>1 DEF RequeueKeepsOrder
  <2>4. QED
    BY <2>2, <2>3 DEF InOrder
<1>8. QED
  BY <1>1, <1>4, <1>5, <1>6, <1>7 DEF Safe

(* Nothing happens once the process is dead. *)
LEMMA NeedsAlive ==
  ASSUME StackNext
  PROVE  alive
<1>1. CASE Peers \/ Transmit
  <2>1. ASSUME NEW c \in Client, Connect(c) PROVE alive
    BY <2>1 DEF Connect
  <2>2. ASSUME NEW c \in Client, Send(c) PROVE alive
    BY <2>2, Zenon DEF Send
  <2>3. CASE Transmit
    BY <2>3, Zenon DEF Transmit
  <2>4. QED
    BY <1>1, <2>1, <2>2, <2>3 DEF Peers
<1>2. CASE Packets
  BY <1>2 DEF Packets, ng_tcp_process, arp_reply, SignalListener, ng_tcp_enqueue_recvbuffer,
     SignalReader, AdvanceRcvNxt, ng_tcp_send_ackpkt, PktStep
<1>3. CASE \E c \in Client : ng_tcp_out(c)
  BY <1>3, ZenonT(60) DEF ng_tcp_out
<1>4. CASE App \/ SpuriousWakeup
  BY <1>4 DEF App, SpuriousWakeup, FindListener, WalkToListener, LockListener, get_accept_tcb,
     naccept, RecvLock, TakeFragment, pthread_cond_wait, AppStep, SendAck, SendSeq, nsend,
     CloseNumbers, nclose, EnterLastAck
<1>5. CASE Hosts
  BY <1>5 DEF Hosts, SendDatagram, Ping, AskAddress, Emit
<1>6. CASE TransmitUdp \/ arp_request_timer_cb \/ PacketsUdp \/ udp_out
  BY <1>6 DEF TransmitUdp, arp_request_timer_cb, PacketsUdp, arp_request, ng_send_icmp, udp_process,
     SignalUdp, Process, udp_out
<1>7. CASE udp_server_entry \/ SpuriousUdp
  BY <1>7 DEF udp_server_entry, Dequeue, CondWait, nrecvfrom, nsendto, SpuriousUdp, ServerStep
<1>8. QED
  BY <1>1, <1>2, <1>3, <1>4, <1>5, <1>6, <1>7 DEF StackNext, Next

(* The inductive invariant: the process is dead and was safe, or it works   *)
(* as described.                                                            *)
IInv == StackInv \/ (~alive /\ Safe)

(* The invariant is kept. *)
LEMMA IInvStep ==
  ASSUME IInv, [StackNext]_all
  PROVE  IInv'
<1>1. CASE UNCHANGED all
  <2>1. /\ UNCHANGED <<alive, arp, tcb_set, tcb, fd_table, t, script, peer, reads, missed>>
        /\ rin' = rin /\ rout' = rout /\ p' = p /\ traffic' = traffic /\ lhost' = lhost /\ u' = u
        /\ remote' = remote
    BY <1>1 DEF all, vars, udp
  <2>2. CASE StackInv
    <3>1. TcpInv /\ ScriptInv /\ HostInv /\ SocketInv /\ UdpInv /\ p \in PktRecord
      BY <2>2, UdpFacts
    <3>2. OtherPackets
      BY <2>1, <3>1 DEF OtherPackets
    <3>3. TcpInv' /\ ScriptInv'
      BY <3>1, <3>2, OthersKept
    <3>4. HostInv' /\ SocketInv' /\ UdpInv'
      BY <2>1, <3>1 DEF HostInv, SocketInv, UdpInv
    <3>5. QED
      BY <3>3, <3>4 DEF StackInv, IInv
  <2>3. CASE ~alive /\ Safe
    <3>1. TypeOK'
      BY <2>1, <2>3 DEF Safe, StackConsistent, TypeOK
    <3>2. StackConsistent'
      BY <2>1, <2>3, <3>1 DEF Safe, StackConsistent, NoStreamFreedInUse
    <3>3. NoLostWakeups'
      BY <2>1, <2>3 DEF Safe, NoLostWakeups, NoLostWakeup
    <3>4. AcksExact'
      BY <2>1, <2>3 DEF Safe, AcksExact
    <3>5. InOrder'
      <4>1. ReadOnceInOrder /\ RequeueKeepsOrder
        BY <2>3 DEF Safe, InOrder
      <4>2. ReadOnceInOrder'
        BY ONLY <2>1, <4>1 DEF ReadOnceInOrder
      <4>3. RequeueKeepsOrder'
        BY ONLY <2>1, <4>1 DEF RequeueKeepsOrder
      <4>4. QED
        BY <4>2, <4>3 DEF InOrder
    <3>6. QED
      BY <2>1, <2>3, <3>2, <3>3, <3>4, <3>5 DEF Safe, IInv
  <2>4. QED
    BY <2>2, <2>3 DEF IInv
<1>2. CASE StackNext
  <2>1. StackInv
    BY <1>2, NeedsAlive DEF IInv
  <2>2. StackInv' \/ (Died /\ UNCHANGED udp)
    BY <1>2, <2>1, StackStep
  <2>3. QED
    BY <2>1, <2>2, DiedSafe DEF IInv
<1>3. QED
  BY <1>1, <1>2

(* Every state of the stack is safe. *)
LEMMA StackSafe ==
  StackSpec => []Safe
<1>1. StackInit => IInv
  BY StackInitInv DEF IInv
<1>2. IInv /\ [StackNext]_all => IInv'
  BY IInvStep
<1>3. IInv => Safe
  BY InvSafe DEF IInv
<1>4. QED
  BY <1>1, <1>2, <1>3, PTL DEF StackSpec

(* The state of the stack is consistent: sequence numbers stay within what  *)
(* the peer has sent and acknowledged, exactly the living streams are in    *)
(* the list, descriptors stay within the table, the UDP socket holds no     *)
(* empty fragment, and pkt_process frees no stream that tcp_server_entry    *)
(* works on unless a lookup of the listening socket has failed before.      *)
THEOREM StackIsConsistent ==
  StackSpec => []StackConsistent
<1>1. Safe => StackConsistent
  BY DEF Safe
<1>2. QED
  BY <1>1, StackSafe, PTL

(* Neither server waits, in naccept, nrecv or nrecvfrom, while there is     *)
(* something for it and no signal is on its way, although the rings and the *)
(* streams are written without the mutex of the condition variable.         *)
THEOREM StackLosesNoWakeup ==
  StackSpec => []NoLostWakeups
<1>1. Safe => NoLostWakeups
  BY DEF Safe
<1>2. QED
  BY <1>1, StackSafe, PTL

(* The stack acknowledges nothing its peer has not sent, and once it has    *)
(* handled the peer's segments exactly the SYN, the FIN and the data that   *)
(* came with PSH: data without PSH is dropped and the numbers stay behind   *)
(* the peer's by its length, and by nothing else, although pkt_process and  *)
(* the echo server both queue segments with the stream's numbers, unlocked. *)
THEOREM StackAcksExactly ==
  StackSpec => []AcksExact
<1>1. Safe => AcksExact
  BY DEF Safe
<1>2. QED
  BY <1>1, StackSafe, PTL

(* nrecv returns the messages of a client, its segments with PSH, none of   *)
(* them twice and none before the one sent before it, and a long one piece  *)
(* by piece from its beginning; the rest of one may be lost behind a FIN.   *)
(* No fragment of sndbuf falls behind another one when ng_tcp_out finds no  *)
(* address.                                                                 *)
THEOREM StackReadsInOrder ==
  StackSpec => []InOrder
<1>1. Safe => InOrder
  BY DEF Safe
<1>2. QED
  BY <1>1, StackSafe, PTL

------------------------------------------------------------------------------
(* The datagrams.                                                           *)
(* Where the pieces of datagrams are: <<c, d, o>> is the piece of datagram  *)
(* d of host c that begins at o.                                            *)
RingSet(q) ==
  {<<q[i].peer, q[i].msg, q[i].seq>> : i \in {j \in 1 .. Len(q) : q[j].kind = "udp"}}

BufSet(q) == {<<q[i].peer, q[i].msg, q[i].off>> : i \in 1 .. Len(q)}

EchoSet(ends) ==
  {z \in UdpHost \X Nat \X Nat :
     \E i \in 1 .. Len(ends[z[1]].echoes) : ends[z[1]].echoes[i] = <<z[2], z[3]>>}

(* No piece is at two places of a queue. *)
RingOnce(q) ==
  \A i, j \in 1 .. Len(q) :
    i # j /\ q[i].kind = "udp" /\ q[j].kind = "udp" =>
      <<q[i].peer, q[i].msg, q[i].seq>> # <<q[j].peer, q[j].msg, q[j].seq>>

BufOnce(q) ==
  \A i, j \in 1 .. Len(q) :
    i # j => <<q[i].peer, q[i].msg, q[i].off>> # <<q[j].peer, q[j].msg, q[j].off>>

EchoOnce(q) == \A i, j \in 1 .. Len(q) : i # j => q[i] # q[j]

(* The piece nrecvfrom is about to cut, and the one nsendto is about to     *)
(* echo.                                                                    *)
Cut == IF u.pc = "copy" THEN {<<u.ol.peer, u.ol.msg, u.ol.off>>} ELSE {}

Echo == IF u.pc = "send" THEN {<<u.ol.peer, u.ol.msg, u.ol.off>>} ELSE {}

ToCut == RingSet(rin) \cup BufSet(lhost.rcvbuf) \cup Cut

Done == BufSet(lhost.sndbuf) \cup RingSet(rout) \cup EchoSet(remote)

Emitted == [c \in UdpHost |-> remote[c].n]

(* Of a datagram at most one piece is still to be cut: it begins where the  *)
(* others end, which are echoed, being echoed, or begin with a zero byte.   *)
Progress(A, S, D, sent) ==
  /\ \A x \in A \cup S \cup D :
       /\ x \in UdpHost \X Nat \X Nat
       /\ x[2] \in 1 .. sent[x[1]] /\ x[3] \in Pieces(x[1], x[2])
  /\ \A x, y \in A : x[1] = y[1] /\ x[2] = y[2] => x[3] = y[3]
  /\ \A x \in A : \A y \in S \cup D : x[1] = y[1] /\ x[2] = y[2] => y[3] < x[3]
  /\ \A x \in S : \A y \in D : x[1] = y[1] /\ x[2] = y[2] => y[3] < x[3]
  /\ \A c \in UdpHost : \A d \in 1 .. sent[c] : \A o \in Pieces(c, d) :
       \/ <<c, d, o>> \in A \cup S \cup D
       \/ \E x \in A : x[1] = c /\ x[2] = d /\ x[3] < o
       \/ <<c, d, o>> \in traffic.nul
  /\ \A y \in D : y \notin traffic.nul

(* What is left of a datagram begins where the length says. *)
EndsRight(x) == x.off + x.length = Length(x.peer, x.msg)

RingBegins(q) ==
  \A i \in 1 .. Len(q) : q[i].kind = "udp" =>
    q[i].seq = 0 /\ q[i].len + UDP_HDR = Length(q[i].peer, q[i].msg)

BufEnds(q) == \A i \in 1 .. Len(q) : EndsRight(q[i])

LengthInv ==
  RingBegins(rin) /\ BufEnds(lhost.rcvbuf) /\ (u.pc = "copy" => EndsRight(u.ol))

OnceInv ==
  /\ RingOnce(rin) /\ BufOnce(lhost.rcvbuf) /\ BufOnce(lhost.sndbuf) /\ RingOnce(rout)
  /\ \A c \in UdpHost : EchoOnce(remote[c].echoes)
  /\ RingSet(rin) \cap (BufSet(lhost.rcvbuf) \cup Cut) = {} /\ BufSet(lhost.rcvbuf) \cap Cut = {}
  /\ BufSet(lhost.sndbuf) \cap (RingSet(rout) \cup EchoSet(remote)) = {}
  /\ RingSet(rout) \cap EchoSet(remote) = {}

DatagramInv == OnceInv /\ LengthInv /\ Progress(ToCut, Echo, Done, Emitted)

(* A packet that is no datagram is added to a ring. *)
LEMMA RingGrowsOther ==
  ASSUME NEW q \in Seq(Segment), NEW x, x.kind # "udp", RingOnce(q)
  PROVE  RingSet(Append(q, x)) = RingSet(q) /\ RingOnce(Append(q, x))
<1> DEFINE z == Append(q, x)
<1>1. /\ Len(z) = Len(q) + 1 /\ Len(q) \in Nat /\ z[Len(q) + 1] = x
      /\ \A i \in 1 .. Len(q) : z[i] = q[i]
  OBVIOUS
<1> HIDE DEF z
<1>2. \A i \in 1 .. Len(z) : z[i].kind = "udp" => i \in 1 .. Len(q) /\ z[i] = q[i]
  BY <1>1
<1>3. \A i \in 1 .. Len(q) : i \in 1 .. Len(z) /\ z[i] = q[i]
  BY <1>1
<1>4. RingSet(z) = RingSet(q)
  BY <1>2, <1>3 DEF RingSet
<1>5. RingOnce(z)
  BY <1>2 DEF RingOnce
<1>6. QED
  BY <1>4, <1>5 DEF z

(* A datagram is added. *)
LEMMA RingGrows ==
  ASSUME NEW q \in Seq(Segment), NEW x, x.kind = "udp", RingOnce(q),
         <<x.peer, x.msg, x.seq>> \notin RingSet(q)
  PROVE  /\ RingSet(Append(q, x)) = RingSet(q) \cup {<<x.peer, x.msg, x.seq>>}
         /\ RingOnce(Append(q, x))
<1> DEFINE z == Append(q, x)
           w == <<x.peer, x.msg, x.seq>>
<1>1. /\ Len(z) = Len(q) + 1 /\ Len(q) \in Nat /\ z[Len(q) + 1] = x
      /\ \A i \in 1 .. Len(q) : z[i] = q[i]
  OBVIOUS
<1> HIDE DEF z
<1>2. \A i \in 1 .. Len(z) : (i \in 1 .. Len(q) /\ z[i] = q[i]) \/ (i = Len(q) + 1 /\ z[i] = x)
  BY <1>1
<1>3. \A i \in 1 .. Len(q) : i \in 1 .. Len(z) /\ z[i] = q[i]
  BY <1>1
<1>4. Len(q) + 1 \in 1 .. Len(z) /\ z[Len(q) + 1] = x
  BY <1>1
<1>5. \A i \in 1 .. Len(q) : q[i].kind = "udp" => <<q[i].peer, q[i].msg, q[i].seq>> # w
  BY DEF RingSet
<1>6. RingSet(z) = RingSet(q) \cup {w}
  BY <1>2, <1>3, <1>4 DEF RingSet
<1>7. RingOnce(z)
  BY <1>2, <1>5, ZenonT(60) DEF RingOnce
<1>8. QED
  BY <1>6, <1>7 DEF z

(* A packet is taken from a ring. *)
LEMMA RingShrinks ==
  ASSUME NEW q \in Seq(Segment), q # <<>>, RingOnce(q), NEW w,
         w = <<Head(q).peer, Head(q).msg, Head(q).seq>>
  PROVE  /\ RingOnce(Tail(q))
         /\ Head(q).kind # "udp" => RingSet(Tail(q)) = RingSet(q)
         /\ Head(q).kind = "udp" => w \in RingSet(q) /\ RingSet(Tail(q)) = RingSet(q) \ {w}
<1> DEFINE z == Tail(q)
<1>1. /\ Len(z) = Len(q) - 1 /\ Len(q) \in Nat \ {0} /\ Head(q) = q[1]
      /\ \A i \in 1 .. Len(z) : z[i] = q[i + 1] /\ i + 1 \in 1 .. Len(q) /\ i \in Nat
      /\ 1 \in 1 .. Len(q)
  OBVIOUS
<1> HIDE DEF z
<1>2. \A i \in 1 .. Len(q) : i # 1 => i - 1 \in 1 .. Len(z) /\ z[i - 1] = q[i]
  BY <1>1
<1>3. RingOnce(z)
  BY <1>1 DEF RingOnce
<1>4. RingSet(z) \subseteq RingSet(q)
  BY <1>1 DEF RingSet
<1>5. CASE Head(q).kind # "udp"
  <2>1. RingSet(q) \subseteq RingSet(z)
    BY <1>1, <1>2, <1>5 DEF RingSet
  <2>2. QED
    BY <1>3, <1>4, <1>5, <2>1 DEF z
<1>6. CASE Head(q).kind = "udp"
  <2>1. w \in RingSet(q)
    BY <1>1, <1>6 DEF RingSet
  <2>2. w \notin RingSet(z)
    <3>1. SUFFICES ASSUME NEW i \in 1 .. Len(z), z[i].kind = "udp",
                          w = <<z[i].peer, z[i].msg, z[i].seq>>
                   PROVE  FALSE
      BY DEF RingSet
    <3>2. i + 1 \in 1 .. Len(q) /\ i + 1 # 1 /\ z[i] = q[i + 1]
      BY <1>1
    <3>3. QED
      BY <1>1, <1>6, <3>1, <3>2 DEF RingOnce
  <2>3. \A v \in RingSet(q) : v # w => v \in RingSet(z)
    BY <1>1, <1>2 DEF RingSet
  <2>4. RingSet(z) = RingSet(q) \ {w}
    BY <1>4, <2>2, <2>3
  <2>5. QED
    BY <1>3, <1>6, <2>1, <2>4 DEF z
<1>7. QED
  BY <1>5, <1>6

(* A fragment is added to a queue. *)
LEMMA BufGrows ==
  ASSUME NEW q \in Seq(Offload), NEW x \in Offload, BufOnce(q),
         <<x.peer, x.msg, x.off>> \notin BufSet(q)
  PROVE  /\ BufSet(Append(q, x)) = BufSet(q) \cup {<<x.peer, x.msg, x.off>>}
         /\ BufOnce(Append(q, x))
<1> DEFINE z == Append(q, x)
           w == <<x.peer, x.msg, x.off>>
<1>1. /\ Len(z) = Len(q) + 1 /\ Len(q) \in Nat /\ z[Len(q) + 1] = x
      /\ \A i \in 1 .. Len(q) : z[i] = q[i]
  OBVIOUS
<1> HIDE DEF z
<1>2. \A i \in 1 .. Len(z) : (i \in 1 .. Len(q) /\ z[i] = q[i]) \/ (i = Len(q) + 1 /\ z[i] = x)
  BY <1>1
<1>3. \A i \in 1 .. Len(q) : i \in 1 .. Len(z) /\ z[i] = q[i]
  BY <1>1
<1>4. Len(q) + 1 \in 1 .. Len(z) /\ z[Len(q) + 1] = x
  BY <1>1
<1>5. \A i \in 1 .. Len(q) : <<q[i].peer, q[i].msg, q[i].off>> # w
  BY DEF BufSet
<1>6. BufSet(z) = BufSet(q) \cup {w}
  BY <1>2, <1>3, <1>4 DEF BufSet
<1>7. BufOnce(z)
  BY <1>2, <1>5 DEF BufOnce
<1>8. QED
  BY <1>6, <1>7 DEF z

(* A fragment is taken from a queue. *)
LEMMA BufShrinks ==
  ASSUME NEW q \in Seq(Offload), q # <<>>, BufOnce(q), NEW w,
         w = <<Head(q).peer, Head(q).msg, Head(q).off>>
  PROVE  BufOnce(Tail(q)) /\ w \in BufSet(q) /\ BufSet(Tail(q)) = BufSet(q) \ {w}
<1> DEFINE z == Tail(q)
<1>1. /\ Len(z) = Len(q) - 1 /\ Len(q) \in Nat \ {0} /\ Head(q) = q[1]
      /\ \A i \in 1 .. Len(z) : z[i] = q[i + 1] /\ i + 1 \in 1 .. Len(q) /\ i \in Nat
      /\ 1 \in 1 .. Len(q)
  OBVIOUS
<1> HIDE DEF z
<1>2. \A i \in 1 .. Len(q) : i # 1 => i - 1 \in 1 .. Len(z) /\ z[i - 1] = q[i]
  BY <1>1
<1>3. BufOnce(z)
  BY <1>1 DEF BufOnce
<1>4. BufSet(z) \subseteq BufSet(q)
  BY <1>1 DEF BufSet
<1>5. w \in BufSet(q)
  BY <1>1 DEF BufSet
<1>6. w \notin BufSet(z)
  <2>1. SUFFICES ASSUME NEW i \in 1 .. Len(z), w = <<z[i].peer, z[i].msg, z[i].off>> PROVE FALSE
    BY DEF BufSet
  <2>2. i + 1 \in 1 .. Len(q) /\ i + 1 # 1 /\ z[i] = q[i + 1]
    BY <1>1
  <2>3. QED
    BY <1>1, <2>1, <2>2 DEF BufOnce
<1>7. \A v \in BufSet(q) : v # w => v \in BufSet(z)
  BY <1>1, <1>2 DEF BufSet
<1>8. BufSet(z) = BufSet(q) \ {w}
  BY <1>4, <1>6, <1>7
<1>9. QED
  BY <1>3, <1>5, <1>8 DEF z

(* A multiple of the buffer's size, as a product; and the other way round. *)
LEMMA Multiple ==
  ASSUME NEW b \in Nat \ {0}, NEW o \in Nat, o % b = 0
  PROVE  \E k \in Nat : o = k * b
OBVIOUS

(* The other direction. *)
LEMMA Product ==
  ASSUME NEW b \in Nat \ {0}, NEW k \in Nat
  PROVE  (k * b) % b = 0
OBVIOUS

(* Two products that differ, differ by the factor at least. *)
LEMMA ProductsApart ==
  ASSUME NEW b \in Nat \ {0}, NEW j \in Nat, NEW k \in Nat, j * b < k * b
  PROVE  j * b + b <= k * b
<1>1. j < k
  OBVIOUS
<1>2. k - j - 1 \in Nat
  BY <1>1
<1>3. (k - j - 1) * b \in Nat
  BY <1>2
<1>4. QED
  BY <1>3

Multiples(l, b) == {o \in 0 .. l - 1 : o % b = 0}

(* The pieces of a datagram of length l: the first begins at 0, each of the *)
(* others where the one before it ends.                                     *)
LEMMA PieceFacts ==
  ASSUME NEW l \in Nat, l > 0, NEW b \in Nat \ {0}, NEW P, P = Multiples(l, b)
  PROVE  /\ P \subseteq Nat /\ 0 \in P
         /\ \A o \in P : o < l
         /\ \A o \in P : o + b < l => o + b \in P
         /\ \A o, r \in P : o < r => o + b <= r
<1>1. P \subseteq Nat /\ \A o \in P : o < l /\ o % b = 0
  BY DEF Multiples
<1>2. 0 \in P
  BY DEF Multiples
<1>3. ASSUME NEW o \in P, o + b < l
      PROVE  o + b \in P
  <2>1. PICK k \in Nat : o = k * b
    BY <1>1, Multiple
  <2>2. k + 1 \in Nat /\ o + b = (k + 1) * b
    BY <2>1
  <2>3. (o + b) % b = 0
    BY <2>2, Product
  <2>4. o + b \in 0 .. l - 1
    BY <1>1, <1>3
  <2>5. QED
    BY <2>3, <2>4 DEF Multiples
<1>4. ASSUME NEW o \in P, NEW r \in P, o < r
      PROVE  o + b <= r
  <2>1. PICK j \in Nat : o = j * b
    BY <1>1, Multiple
  <2>2. PICK k \in Nat : r = k * b
    BY <1>1, Multiple
  <2>3. QED
    BY <1>4, <2>1, <2>2, ProductsApart
<1>5. QED
  BY <1>1, <1>2, <1>3, <1>4

(* A host sends a datagram. *)
LEMMA ProgressSend ==
  ASSUME NEW A, NEW S, NEW D, NEW n \in [UdpHost -> Nat], NEW m \in [UdpHost -> Nat],
         Progress(A, S, D, n), NEW c \in UdpHost, NEW d, d = n[c] + 1, m[c] = d,
         \A e \in UdpHost : e # c => m[e] = n[e], NEW z, z = <<c, d, 0>>,
         0 \in Pieces(c, d), Pieces(c, d) \subseteq Nat
  PROVE  z \notin A \cup S \cup D /\ Progress(A \cup {z}, S, D, m)
<1>1. /\ d \in Nat /\ d \in 1 .. m[c] /\ d \notin 1 .. n[c] /\ n[c] \in Nat
      /\ \A k \in 1 .. m[c] : k # d => k \in 1 .. n[c]
      /\ \A k \in 1 .. n[c] : k \in 1 .. m[c]
  OBVIOUS
<1>2. z \in UdpHost \X Nat \X Nat /\ z[1] = c /\ z[2] = d /\ z[3] = 0
  BY <1>1
<1>3. \A x \in A \cup S \cup D :
        /\ x \in UdpHost \X Nat \X Nat /\ x[1] \in UdpHost
        /\ x[2] \in 1 .. n[x[1]] /\ x[3] \in Pieces(x[1], x[2])
  BY DEF Progress
<1>4. \A x \in A \cup S \cup D : ~(x[1] = c /\ x[2] = d)
  BY <1>1, <1>3
<1>5. z \notin A \cup S \cup D
  BY <1>2, <1>4
<1>6. \A x \in (A \cup {z}) \cup S \cup D :
        /\ x \in UdpHost \X Nat \X Nat
        /\ x[2] \in 1 .. m[x[1]] /\ x[3] \in Pieces(x[1], x[2])
  <2>1. ASSUME NEW x \in A \cup S \cup D
        PROVE  /\ x \in UdpHost \X Nat \X Nat
               /\ x[2] \in 1 .. m[x[1]] /\ x[3] \in Pieces(x[1], x[2])
    <3>1. CASE x[1] = c
      BY <1>1, <1>3, <3>1
    <3>2. CASE x[1] # c
      BY <1>3, <3>2
    <3>3. QED
      BY <3>1, <3>2
  <2>2. QED
    BY <1>1, <1>2, <2>1
<1>7. \A x, y \in A \cup {z} : x[1] = y[1] /\ x[2] = y[2] => x[3] = y[3]
  <2>1. \A x, y \in A : x[1] = y[1] /\ x[2] = y[2] => x[3] = y[3]
    BY DEF Progress
  <2>2. QED
    BY <1>2, <1>4, <2>1
<1>8. \A x \in A \cup {z} : \A y \in S \cup D : x[1] = y[1] /\ x[2] = y[2] => y[3] < x[3]
  <2>1. \A x \in A : \A y \in S \cup D : x[1] = y[1] /\ x[2] = y[2] => y[3] < x[3]
    BY DEF Progress
  <2>2. QED
    BY <1>2, <1>4, <2>1
<1>9. /\ \A x \in S : \A y \in D : x[1] = y[1] /\ x[2] = y[2] => y[3] < x[3]
      /\ \A y \in D : y \notin traffic.nul
  BY DEF Progress
<1>10. ASSUME NEW e \in UdpHost, NEW k \in 1 .. m[e], NEW o \in Pieces(e, k)
       PROVE  \/ <<e, k, o>> \in (A \cup {z}) \cup S \cup D
              \/ \E x \in A \cup {z} : x[1] = e /\ x[2] = k /\ x[3] < o
              \/ <<e, k, o>> \in traffic.nul
  <2>1. CASE e = c /\ k = d
    <3>1. o \in Nat
      BY <2>1
    <3>2. CASE o = 0
      BY <2>1, <3>2
    <3>3. CASE o > 0
      BY <1>2, <2>1, <3>3
    <3>4. QED
      BY <3>1, <3>2, <3>3
  <2>2. CASE ~(e = c /\ k = d)
    <3>1. k \in 1 .. n[e]
      BY <1>1, <2>2
    <3>2. \/ <<e, k, o>> \in A \cup S \cup D
          \/ \E x \in A : x[1] = e /\ x[2] = k /\ x[3] < o
          \/ <<e, k, o>> \in traffic.nul
      BY <3>1 DEF Progress
    <3>3. QED
      BY <3>2
  <2>3. QED
    BY <2>1, <2>2
<1>11. Progress(A \cup {z}, S, D, m)
  BY ONLY <1>6, <1>7, <1>8, <1>9, <1>10 DEF Progress
<1>12. QED
  BY <1>5, <1>11

(* The conditions of Progress one by one. *)
LEMMA ProgressFacts ==
  ASSUME NEW A, NEW S, NEW D, NEW n, Progress(A, S, D, n)
  PROVE  /\ \A x \in A \cup S \cup D :
              /\ x \in UdpHost \X Nat \X Nat /\ x[1] \in UdpHost /\ x[2] \in Nat /\ x[3] \in Nat
              /\ x = <<x[1], x[2], x[3]>>
              /\ x[2] \in 1 .. n[x[1]] /\ x[3] \in Pieces(x[1], x[2])
         /\ \A x, y \in A : x[1] = y[1] /\ x[2] = y[2] => x = y
         /\ \A x \in A : \A y \in S \cup D : x[1] = y[1] /\ x[2] = y[2] => y[3] < x[3]
         /\ \A x \in S : \A y \in D : x[1] = y[1] /\ x[2] = y[2] => y[3] < x[3]
         /\ \A c \in UdpHost : \A d \in 1 .. n[c] : \A o \in Pieces(c, d) :
              \/ <<c, d, o>> \in A \cup S \cup D
              \/ \E x \in A : x[1] = c /\ x[2] = d /\ x[3] < o
              \/ <<c, d, o>> \in traffic.nul
         /\ \A y \in D : y \notin traffic.nul
<1>1. \A x \in A \cup S \cup D :
        /\ x \in UdpHost \X Nat \X Nat
        /\ x[2] \in 1 .. n[x[1]] /\ x[3] \in Pieces(x[1], x[2])
  BY DEF Progress
<1>2. \A x \in A \cup S \cup D :
        x[1] \in UdpHost /\ x[2] \in Nat /\ x[3] \in Nat /\ x = <<x[1], x[2], x[3]>>
  BY <1>1
<1>3. \A x, y \in A : x[1] = y[1] /\ x[2] = y[2] => x = y
  <2>1. \A x, y \in A : x[1] = y[1] /\ x[2] = y[2] => x[3] = y[3]
    BY DEF Progress
  <2>2. \A x, y \in A : x = <<x[1], x[2], x[3]>> /\ y = <<y[1], y[2], y[3]>>
    BY <1>2
  <2>3. QED
    BY ONLY <2>1, <2>2
<1>4. /\ \A x \in A : \A y \in S \cup D : x[1] = y[1] /\ x[2] = y[2] => y[3] < x[3]
      /\ \A x \in S : \A y \in D : x[1] = y[1] /\ x[2] = y[2] => y[3] < x[3]
  BY DEF Progress
<1>5. /\ \A c \in UdpHost : \A d \in 1 .. n[c] : \A o \in Pieces(c, d) :
           \/ <<c, d, o>> \in A \cup S \cup D
           \/ \E x \in A : x[1] = c /\ x[2] = d /\ x[3] < o
           \/ <<c, d, o>> \in traffic.nul
      /\ \A y \in D : y \notin traffic.nul
  BY DEF Progress
<1>6. QED
  BY <1>1, <1>2, <1>3, <1>4, <1>5

(* nrecvfrom takes a piece that fits the buffer. *)
LEMMA ProgressLast ==
  ASSUME NEW A, NEW D, NEW n, NEW z \in A, Progress(A, {}, D, n),
         \A o \in Pieces(z[1], z[2]) : o \in Nat /\ ~(z[3] < o)
  PROVE  Progress(A \ {z}, {z}, D, n)
<1>1. /\ \A x \in A \cup D :
           /\ x \in UdpHost \X Nat \X Nat
           /\ x[2] \in 1 .. n[x[1]] /\ x[3] \in Pieces(x[1], x[2])
      /\ \A x, y \in A : x[1] = y[1] /\ x[2] = y[2] => x = y
      /\ \A x \in A : \A y \in D : x[1] = y[1] /\ x[2] = y[2] => y[3] < x[3]
      /\ \A c \in UdpHost : \A d \in 1 .. n[c] : \A o \in Pieces(c, d) :
           \/ <<c, d, o>> \in A \cup D
           \/ \E x \in A : x[1] = c /\ x[2] = d /\ x[3] < o
           \/ <<c, d, o>> \in traffic.nul
      /\ \A y \in D : y \notin traffic.nul
  BY ProgressFacts
<1>2. \A x \in (A \ {z}) \cup {z} \cup D :
        /\ x \in UdpHost \X Nat \X Nat
        /\ x[2] \in 1 .. n[x[1]] /\ x[3] \in Pieces(x[1], x[2])
  BY <1>1
<1>3. \A x, y \in A \ {z} : x[1] = y[1] /\ x[2] = y[2] => x[3] = y[3]
  BY <1>1
<1>4. \A x \in A \ {z} : \A y \in {z} \cup D : x[1] = y[1] /\ x[2] = y[2] => y[3] < x[3]
  BY <1>1
<1>5. \A x \in {z} : \A y \in D : x[1] = y[1] /\ x[2] = y[2] => y[3] < x[3]
  BY <1>1
<1>6. ASSUME NEW c \in UdpHost, NEW d \in 1 .. n[c], NEW o \in Pieces(c, d)
      PROVE  \/ <<c, d, o>> \in (A \ {z}) \cup {z} \cup D
             \/ \E x \in A \ {z} : x[1] = c /\ x[2] = d /\ x[3] < o
             \/ <<c, d, o>> \in traffic.nul
  <2>1. CASE <<c, d, o>> \in A \cup D
    BY <2>1
  <2>2. CASE \E x \in A : x[1] = c /\ x[2] = d /\ x[3] < o
    <3>1. PICK x \in A : x[1] = c /\ x[2] = d /\ x[3] < o
      BY <2>2
    <3>2. x # z
      BY <3>1
    <3>3. QED
      BY <3>1, <3>2
  <2>3. QED
    BY <1>1, <2>1, <2>2
<1>7. \A y \in D : y \notin traffic.nul
  BY <1>1
<1>8. QED
  BY ONLY <1>2, <1>3, <1>4, <1>5, <1>6, <1>7 DEF Progress

(* nrecvfrom cuts a piece off: the rest w is the next to be cut. *)
LEMMA ProgressMore ==
  ASSUME NEW A, NEW D, NEW n, NEW z \in A, Progress(A, {}, D, n),
         NEW w, w = <<z[1], z[2], w[3]>>, w[3] \in Nat, z[3] < w[3], w[3] \in Pieces(z[1], z[2]),
         \A o \in Pieces(z[1], z[2]) : o \in Nat /\ (z[3] < o => w[3] <= o)
  PROVE  w \notin A /\ w \notin D /\ Progress((A \ {z}) \cup {w}, {z}, D, n)
<1>1. /\ \A x \in A \cup D :
           /\ x \in UdpHost \X Nat \X Nat /\ x[1] \in UdpHost /\ x[2] \in Nat /\ x[3] \in Nat
           /\ x[2] \in 1 .. n[x[1]] /\ x[3] \in Pieces(x[1], x[2])
      /\ \A x, y \in A : x[1] = y[1] /\ x[2] = y[2] => x = y
      /\ \A x \in A : \A y \in D : x[1] = y[1] /\ x[2] = y[2] => y[3] < x[3]
      /\ \A c \in UdpHost : \A d \in 1 .. n[c] : \A o \in Pieces(c, d) :
           \/ <<c, d, o>> \in A \cup D
           \/ \E x \in A : x[1] = c /\ x[2] = d /\ x[3] < o
           \/ <<c, d, o>> \in traffic.nul
      /\ \A y \in D : y \notin traffic.nul
  BY ProgressFacts
<1>2. w[1] = z[1] /\ w[2] = z[2] /\ w # z
  <2>1. <<z[1], z[2], w[3]>>[1] = z[1] /\ <<z[1], z[2], w[3]>>[2] = z[2]
    OBVIOUS
  <2>2. w[1] = z[1] /\ w[2] = z[2]
    BY <2>1
  <2>3. z[3] \in Nat
    BY <1>1
  <2>4. QED
    BY <2>2, <2>3
<1>3. w \notin A
  BY <1>1, <1>2
<1>4. w \notin D
  <2>1. SUFFICES ASSUME w \in D PROVE FALSE
    OBVIOUS
  <2>2. w[3] < z[3] /\ z[3] \in Nat
    BY <1>1, <1>2, <2>1
  <2>3. QED
    BY <2>2
<1>5. w \in UdpHost \X Nat \X Nat
  BY <1>1
<1>6. \A x \in ((A \ {z}) \cup {w}) \cup {z} \cup D :
        /\ x \in UdpHost \X Nat \X Nat
        /\ x[2] \in 1 .. n[x[1]] /\ x[3] \in Pieces(x[1], x[2])
  BY <1>1, <1>2, <1>5
<1>7. \A x, y \in (A \ {z}) \cup {w} : x[1] = y[1] /\ x[2] = y[2] => x[3] = y[3]
  BY <1>1, <1>2
<1>8. \A x \in (A \ {z}) \cup {w} : \A y \in {z} \cup D : x[1] = y[1] /\ x[2] = y[2] => y[3] < x[3]
  <2>1. ASSUME NEW y \in D, w[1] = y[1], w[2] = y[2]
        PROVE  y[3] < w[3]
    <3>1. y[3] < z[3] /\ y[3] \in Nat /\ z[3] \in Nat
      BY <1>1, <1>2, <2>1
    <3>2. QED
      BY <3>1
  <2>2. QED
    BY <1>1, <1>2, <2>1
<1>9. /\ \A x \in {z} : \A y \in D : x[1] = y[1] /\ x[2] = y[2] => y[3] < x[3]
      /\ \A y \in D : y \notin traffic.nul
  BY <1>1
<1>10. ASSUME NEW c \in UdpHost, NEW d \in 1 .. n[c], NEW o \in Pieces(c, d)
       PROVE  \/ <<c, d, o>> \in ((A \ {z}) \cup {w}) \cup {z} \cup D
              \/ \E x \in (A \ {z}) \cup {w} : x[1] = c /\ x[2] = d /\ x[3] < o
              \/ <<c, d, o>> \in traffic.nul
  <2>1. CASE <<c, d, o>> \in A \cup D
    BY <2>1
  <2>2. CASE \E x \in A : x[1] = c /\ x[2] = d /\ x[3] < o
    <3>1. PICK x \in A : x[1] = c /\ x[2] = d /\ x[3] < o
      BY <2>2
    <3>2. CASE x # z
      BY <3>1, <3>2
    <3>3. CASE x = z
      <4>1. o \in Nat /\ w[3] <= o
        BY <3>1, <3>3
      <4>2. CASE w[3] = o
        <5>1. w = <<c, d, o>>
          BY <3>1, <3>3, <4>2
        <5>2. QED
          BY <5>1
      <4>3. CASE w[3] < o
        BY <1>2, <3>1, <3>3, <4>3
      <4>4. QED
        BY <4>1, <4>2, <4>3
    <3>4. QED
      BY <3>2, <3>3
  <2>3. QED
    BY <1>1, <2>1, <2>2
<1>11. Progress((A \ {z}) \cup {w}, {z}, D, n)
  BY ONLY <1>6, <1>7, <1>8, <1>9, <1>10 DEF Progress
<1>12. QED
  BY <1>3, <1>4, <1>11

(* nsendto echoes a piece. *)
LEMMA ProgressEcho ==
  ASSUME NEW A, NEW D, NEW n, NEW z, Progress(A, {z}, D, n), z \notin traffic.nul
  PROVE  z \notin D /\ Progress(A, {}, D \cup {z}, n)
<1>1. /\ \A x \in A \cup {z} \cup D :
           /\ x \in UdpHost \X Nat \X Nat /\ x[3] \in Nat
           /\ x[2] \in 1 .. n[x[1]] /\ x[3] \in Pieces(x[1], x[2])
      /\ \A x, y \in A : x[1] = y[1] /\ x[2] = y[2] => x = y
      /\ \A x \in A : \A y \in {z} \cup D : x[1] = y[1] /\ x[2] = y[2] => y[3] < x[3]
      /\ \A x \in {z} : \A y \in D : x[1] = y[1] /\ x[2] = y[2] => y[3] < x[3]
      /\ \A c \in UdpHost : \A d \in 1 .. n[c] : \A o \in Pieces(c, d) :
           \/ <<c, d, o>> \in A \cup {z} \cup D
           \/ \E x \in A : x[1] = c /\ x[2] = d /\ x[3] < o
           \/ <<c, d, o>> \in traffic.nul
      /\ \A y \in D : y \notin traffic.nul
  BY ProgressFacts
<1>2. z \notin D
  <2>1. SUFFICES ASSUME z \in D PROVE FALSE
    OBVIOUS
  <2>2. z[3] < z[3] /\ z[3] \in Nat
    BY <1>1, <2>1
  <2>3. QED
    BY <2>2
<1>3. \A y \in D \cup {z} : y \notin traffic.nul
  BY <1>1
<1>4. Progress(A, {}, D \cup {z}, n)
  BY ONLY <1>1, <1>3 DEF Progress
<1>5. QED
  BY <1>2, <1>4

(* nsendto does not echo a piece that begins with a zero byte. *)
LEMMA ProgressSilent ==
  ASSUME NEW A, NEW D, NEW n, NEW z, Progress(A, {z}, D, n), z \in traffic.nul
  PROVE  Progress(A, {}, D, n)
<1>1. /\ \A x \in A \cup {} \cup D :
           /\ x \in UdpHost \X Nat \X Nat
           /\ x[2] \in 1 .. n[x[1]] /\ x[3] \in Pieces(x[1], x[2])
      /\ \A x, y \in A : x[1] = y[1] /\ x[2] = y[2] => x[3] = y[3]
      /\ \A x \in A : \A y \in {} \cup D : x[1] = y[1] /\ x[2] = y[2] => y[3] < x[3]
      /\ \A y \in D : y \notin traffic.nul
  BY ProgressFacts
<1>2. ASSUME NEW c \in UdpHost, NEW d \in 1 .. n[c], NEW o \in Pieces(c, d)
      PROVE  \/ <<c, d, o>> \in A \cup {} \cup D
             \/ \E x \in A : x[1] = c /\ x[2] = d /\ x[3] < o
             \/ <<c, d, o>> \in traffic.nul
  <2>1. \/ <<c, d, o>> \in A \cup {z} \cup D
        \/ \E x \in A : x[1] = c /\ x[2] = d /\ x[3] < o
        \/ <<c, d, o>> \in traffic.nul
    BY <1>2, ProgressFacts
  <2>2. QED
    BY <2>1
<1>3. QED
  BY ONLY <1>1, <1>2 DEF Progress

(* The pieces of a datagram do not change. *)
LEMMA ProgressKept ==
  ASSUME NEW A, NEW S, NEW D, NEW n, Progress(A, S, D, n), traffic' = traffic,
         ToCut' = A, Echo' = S, Done' = D, Emitted' = n
  PROVE  Progress(ToCut, Echo, Done, Emitted)'
BY DEF Progress, Pieces, Length

(* No host's echoes change. *)
LEMMA EchoesSame ==
  ASSUME NEW ends, NEW new, \A c \in UdpHost : new[c].echoes = ends[c].echoes
  PROVE  EchoSet(new) = EchoSet(ends)
<1>1. \A z \in UdpHost \X Nat \X Nat : z[1] \in UdpHost
  OBVIOUS
<1>2. QED
  BY <1>1 DEF EchoSet

(* A host gets an echo. *)
EchoAdded(ends, new, w) ==
  /\ ends[w[1]].echoes \in Seq(Nat \X Nat)
  /\ new[w[1]].echoes = Append(ends[w[1]].echoes, <<w[2], w[3]>>)
  /\ \A e \in UdpHost : e # w[1] => new[e].echoes = ends[e].echoes

(* Its piece is then among those echoed. *)
LEMMA EchoGrows ==
  ASSUME NEW ends, NEW new, NEW w \in UdpHost \X Nat \X Nat, w \notin EchoSet(ends),
         EchoAdded(ends, new, w), EchoOnce(ends[w[1]].echoes)
  PROVE  EchoSet(new) = EchoSet(ends) \cup {w} /\ EchoOnce(new[w[1]].echoes)
<1>1. PICK c, v, q, z : c = w[1] /\ v = <<w[2], w[3]>> /\ q = ends[c].echoes /\ z = new[c].echoes
  OBVIOUS
<1>2. q \in Seq(Nat \X Nat) /\ z = Append(q, v) /\ EchoOnce(q)
  BY <1>1 DEF EchoAdded
<1>3. /\ Len(z) = Len(q) + 1 /\ Len(q) \in Nat /\ z[Len(q) + 1] = v
      /\ \A i \in 1 .. Len(q) : z[i] = q[i]
  BY ONLY <1>2
<1>4. \A i \in 1 .. Len(q) : q[i] # v
  BY <1>1 DEF EchoSet
<1>5. \A i \in 1 .. Len(z) : (i \in 1 .. Len(q) /\ z[i] = q[i]) \/ (i = Len(q) + 1 /\ z[i] = v)
  BY ONLY <1>3
<1>6. \A i \in 1 .. Len(q) : i \in 1 .. Len(z) /\ z[i] = q[i]
  BY ONLY <1>3
<1>7. Len(q) + 1 \in 1 .. Len(z) /\ z[Len(q) + 1] = v
  BY ONLY <1>3
<1>8. EchoOnce(z)
  BY ONLY <1>2, <1>4, <1>5 DEF EchoOnce
<1>9. ASSUME NEW x \in UdpHost \X Nat \X Nat
      PROVE  x \in EchoSet(new) <=> x \in EchoSet(ends) \cup {w}
  <2>1. x[1] \in UdpHost /\ x = <<x[1], x[2], x[3]>> /\ w = <<w[1], w[2], w[3]>>
    OBVIOUS
  <2>2. CASE x[1] # c
    <3>1. new[x[1]].echoes = ends[x[1]].echoes /\ x # w
      BY <1>1, <2>1, <2>2 DEF EchoAdded
    <3>2. QED
      BY <3>1 DEF EchoSet
  <2>3. CASE x[1] = c
    <3>1. PICK y : y = <<x[2], x[3]>>
      OBVIOUS
    <3>2. (\E i \in 1 .. Len(z) : z[i] = y) <=> (\E i \in 1 .. Len(q) : q[i] = y) \/ y = v
      BY ONLY <1>5, <1>6, <1>7
    <3>3. y = v <=> x = w
      BY ONLY <1>1, <2>1, <2>3, <3>1
    <3>4. x \in EchoSet(new) <=> \E i \in 1 .. Len(z) : z[i] = y
      BY ONLY x \in UdpHost \X Nat \X Nat, <1>1, <2>3, <3>1 DEF EchoSet
    <3>5. x \in EchoSet(ends) <=> \E i \in 1 .. Len(q) : q[i] = y
      BY ONLY x \in UdpHost \X Nat \X Nat, <1>1, <2>3, <3>1 DEF EchoSet
    <3>6. QED
      BY <3>2, <3>3, <3>4, <3>5
  <2>4. QED
    BY <2>2, <2>3
<1>10. EchoSet(new) = EchoSet(ends) \cup {w}
  <2>1. EchoSet(new) \subseteq UdpHost \X Nat \X Nat /\ EchoSet(ends) \subseteq UdpHost \X Nat \X Nat
    BY DEF EchoSet
  <2>2. w \in UdpHost \X Nat \X Nat
    OBVIOUS
  <2>3. QED
    BY ONLY <1>9, <2>1, <2>2
<1>11. QED
  BY <1>1, <1>8, <1>10

(* A ring without a change to the datagrams in it. *)
Still(q, new) ==
  \/ new = q
  \/ q # <<>> /\ Head(q).kind # "udp" /\ new = Tail(q)
  \/ \E x : x.kind # "udp" /\ new = Append(q, x)

(* The datagrams in such a ring are the same. *)
LEMMA StillSame ==
  ASSUME NEW q \in Seq(Segment), NEW new, Still(q, new), RingOnce(q)
  PROVE  RingSet(new) = RingSet(q) /\ RingOnce(new)
<1>1. CASE q # <<>> /\ Head(q).kind # "udp" /\ new = Tail(q)
  <2>1. PICK w : w = <<Head(q).peer, Head(q).msg, Head(q).seq>>
    OBVIOUS
  <2>2. QED
    BY <1>1, <2>1, RingShrinks
<1>2. CASE \E x : x.kind # "udp" /\ new = Append(q, x)
  BY <1>2, RingGrowsOther
<1>3. QED
  BY <1>1, <1>2 DEF Still

(* What a datagram in the ring says of its length: one is added, or a       *)
(* packet is taken.                                                         *)
LEMMA BeginsAppend ==
  ASSUME NEW q \in Seq(Segment), NEW x, RingBegins(q),
         x.kind = "udp" => x.seq = 0 /\ x.len + UDP_HDR = Length(x.peer, x.msg)
  PROVE  RingBegins(Append(q, x))
<1> DEFINE z == Append(q, x)
<1>1. /\ Len(z) = Len(q) + 1 /\ Len(q) \in Nat /\ z[Len(q) + 1] = x
      /\ \A i \in 1 .. Len(q) : z[i] = q[i]
  OBVIOUS
<1> HIDE DEF z
<1>2. \A i \in 1 .. Len(z) : (i \in 1 .. Len(q) /\ z[i] = q[i]) \/ z[i] = x
  BY <1>1
<1>3. RingBegins(z)
  BY <1>2 DEF RingBegins
<1>4. QED
  BY <1>3 DEF z

(* The same for the one that is taken. *)
LEMMA BeginsTail ==
  ASSUME NEW q \in Seq(Segment), q # <<>>, RingBegins(q)
  PROVE  /\ RingBegins(Tail(q))
         /\ Head(q).kind = "udp" =>
              Head(q).seq = 0 /\ Head(q).len + UDP_HDR = Length(Head(q).peer, Head(q).msg)
<1> DEFINE z == Tail(q)
<1>1. /\ Len(z) = Len(q) - 1 /\ Len(q) \in Nat \ {0} /\ Head(q) = q[1]
      /\ \A i \in 1 .. Len(z) : z[i] = q[i + 1] /\ i + 1 \in 1 .. Len(q)
      /\ 1 \in 1 .. Len(q)
  OBVIOUS
<1> HIDE DEF z
<1>2. RingBegins(z)
  BY <1>1 DEF RingBegins
<1>3. QED
  BY <1>1, <1>2 DEF z, RingBegins

(* The same for the fragments of rcvbuf. *)
LEMMA EndsAppend ==
  ASSUME NEW q \in Seq(Offload), NEW x \in Offload, BufEnds(q), EndsRight(x)
  PROVE  BufEnds(Append(q, x))
<1> DEFINE z == Append(q, x)
<1>1. /\ Len(z) = Len(q) + 1 /\ Len(q) \in Nat /\ z[Len(q) + 1] = x
      /\ \A i \in 1 .. Len(q) : z[i] = q[i]
  OBVIOUS
<1> HIDE DEF z
<1>2. \A i \in 1 .. Len(z) : (i \in 1 .. Len(q) /\ z[i] = q[i]) \/ z[i] = x
  BY <1>1
<1>3. BufEnds(z)
  BY <1>2 DEF BufEnds
<1>4. QED
  BY <1>3 DEF z

(* The same for the one that is taken. *)
LEMMA EndsTail ==
  ASSUME NEW q \in Seq(Offload), q # <<>>, BufEnds(q)
  PROVE  BufEnds(Tail(q)) /\ EndsRight(Head(q))
<1> DEFINE z == Tail(q)
<1>1. /\ Len(z) = Len(q) - 1 /\ Len(q) \in Nat \ {0} /\ Head(q) = q[1]
      /\ \A i \in 1 .. Len(z) : z[i] = q[i + 1] /\ i + 1 \in 1 .. Len(q)
      /\ 1 \in 1 .. Len(q)
  OBVIOUS
<1> HIDE DEF z
<1>2. BufEnds(z)
  BY <1>1 DEF BufEnds
<1>3. QED
  BY <1>1, <1>2 DEF z, BufEnds

(* The lengths do not change. *)
LEMMA LengthKept ==
  ASSUME traffic' = traffic, RingBegins(rin'), BufEnds(lhost'.rcvbuf), u'.pc = "copy" => EndsRight(u'.ol)
  PROVE  LengthInv'
BY DEF LengthInv, RingBegins, BufEnds, EndsRight, Length

(* The parts of the invariant. *)
LEMMA DatagramFacts ==
  ASSUME DatagramInv
  PROVE  /\ RingOnce(rin) /\ BufOnce(lhost.rcvbuf) /\ BufOnce(lhost.sndbuf) /\ RingOnce(rout)
         /\ \A c \in UdpHost : EchoOnce(remote[c].echoes)
         /\ RingSet(rin) \cap BufSet(lhost.rcvbuf) = {} /\ RingSet(rin) \cap Cut = {}
         /\ BufSet(lhost.rcvbuf) \cap Cut = {}
         /\ BufSet(lhost.sndbuf) \cap RingSet(rout) = {} /\ BufSet(lhost.sndbuf) \cap EchoSet(remote) = {}
         /\ RingSet(rout) \cap EchoSet(remote) = {}
         /\ RingBegins(rin) /\ BufEnds(lhost.rcvbuf) /\ (u.pc = "copy" => EndsRight(u.ol))
         /\ Progress(ToCut, Echo, Done, Emitted)
<1>1. OnceInv /\ LengthInv /\ Progress(ToCut, Echo, Done, Emitted)
  BY DEF DatagramInv
<1>2. RingBegins(rin) /\ BufEnds(lhost.rcvbuf) /\ (u.pc = "copy" => EndsRight(u.ol))
  BY <1>1 DEF LengthInv
<1>3. /\ RingOnce(rin) /\ BufOnce(lhost.rcvbuf) /\ BufOnce(lhost.sndbuf) /\ RingOnce(rout)
      /\ \A c \in UdpHost : EchoOnce(remote[c].echoes)
  BY <1>1 DEF OnceInv
<1>4. /\ RingSet(rin) \cap BufSet(lhost.rcvbuf) = {} /\ RingSet(rin) \cap Cut = {}
      /\ BufSet(lhost.rcvbuf) \cap Cut = {}
      /\ BufSet(lhost.sndbuf) \cap RingSet(rout) = {} /\ BufSet(lhost.sndbuf) \cap EchoSet(remote) = {}
      /\ RingSet(rout) \cap EchoSet(remote) = {}
  <2>1. /\ RingSet(rin) \cap (BufSet(lhost.rcvbuf) \cup Cut) = {} /\ BufSet(lhost.rcvbuf) \cap Cut = {}
        /\ BufSet(lhost.sndbuf) \cap (RingSet(rout) \cup EchoSet(remote)) = {}
        /\ RingSet(rout) \cap EchoSet(remote) = {}
    BY <1>1 DEF OnceInv
  <2>2. QED
    BY ONLY <2>1
<1>5. QED
  BY ONLY <1>1, <1>2, <1>3, <1>4

(* A step after which every piece is where it was. *)
LEMMA DatagramsStay ==
  ASSUME DatagramInv, rin \in Seq(Segment), rout \in Seq(Segment),
         Still(rin, rin'), Still(rout, rout'), lhost' = lhost, traffic' = traffic,
         \A c \in UdpHost : remote'[c].echoes = remote[c].echoes /\ remote'[c].n = remote[c].n,
         u' = u \/ (u.pc \notin {"copy", "send"} /\ u'.pc \notin {"copy", "send"})
  PROVE  DatagramInv'
<1>1. /\ RingOnce(rin) /\ BufOnce(lhost.rcvbuf) /\ BufOnce(lhost.sndbuf) /\ RingOnce(rout)
      /\ \A c \in UdpHost : EchoOnce(remote[c].echoes)
      /\ RingSet(rin) \cap BufSet(lhost.rcvbuf) = {} /\ RingSet(rin) \cap Cut = {}
      /\ BufSet(lhost.rcvbuf) \cap Cut = {}
      /\ BufSet(lhost.sndbuf) \cap RingSet(rout) = {} /\ BufSet(lhost.sndbuf) \cap EchoSet(remote) = {}
      /\ RingSet(rout) \cap EchoSet(remote) = {}
      /\ RingBegins(rin) /\ BufEnds(lhost.rcvbuf) /\ (u.pc = "copy" => EndsRight(u.ol))
      /\ Progress(ToCut, Echo, Done, Emitted)
  BY DatagramFacts
<1>2. RingSet(rin') = RingSet(rin) /\ RingOnce(rin')
  BY <1>1, StillSame
<1>3. RingSet(rout') = RingSet(rout) /\ RingOnce(rout')
  BY <1>1, StillSame
<1>4. EchoSet(remote') = EchoSet(remote) /\ Emitted' = Emitted
  <2>1. EchoSet(remote') = EchoSet(remote)
    BY EchoesSame
  <2>2. QED
    BY <2>1 DEF Emitted
<1>5. Cut' = Cut /\ Echo' = Echo
  BY DEF Cut, Echo
<1>6. OnceInv'
  <2>1. \A c \in UdpHost : EchoOnce(remote'[c].echoes)
    BY <1>1
  <2>2. lhost' = lhost
    OBVIOUS
  <2>3. QED
    BY ONLY <1>1, <1>2, <1>3, <1>4, <1>5, <2>1, <2>2 DEF OnceInv
<1>7. LengthInv'
  <2>1. RingBegins(rin')
    <3>1. CASE rin # <<>> /\ rin' = Tail(rin)
      BY <1>1, <3>1, BeginsTail
    <3>2. ASSUME NEW x, x.kind # "udp", rin' = Append(rin, x)
          PROVE  RingBegins(rin')
      BY <1>1, <3>2, BeginsAppend
    <3>3. QED
      BY <1>1, <3>1, <3>2 DEF Still
  <2>2. BufEnds(lhost'.rcvbuf) /\ (u'.pc = "copy" => EndsRight(u'.ol))
    BY <1>1
  <2>3. QED
    BY <2>1, <2>2, LengthKept
<1>8. ToCut' = ToCut /\ Done' = Done
  <2>1. lhost' = lhost
    OBVIOUS
  <2>2. QED
    BY ONLY <1>2, <1>3, <1>4, <1>5, <2>1 DEF ToCut, Done
<1>9. Progress(ToCut, Echo, Done, Emitted)'
  <2>1. PICK A, S, D, n : A = ToCut /\ S = Echo /\ D = Done /\ n = Emitted
    OBVIOUS
  <2>2. Progress(A, S, D, n) /\ ToCut' = A /\ Echo' = S /\ Done' = D /\ Emitted' = n /\ traffic' = traffic
    BY <1>1, <1>4, <1>5, <1>8, <2>1
  <2>3. QED
    BY ONLY <2>2, ProgressKept
<1>10. QED
  BY <1>6, <1>7, <1>9 DEF DatagramInv

(* The TCP half moves no datagram. *)
LEMMA TcpStill ==
  ASSUME StackInv, Next
  PROVE  Still(rin, rin') /\ Still(rout, rout')
<1>1. ASSUME NEW c \in Client, Connect(c)
      PROVE  Still(rin, rin') /\ Still(rout, rout')
  <2>1. /\ rin' = Append(rin, Tcp(c, {"SYN"}, 0, 0, 0, 0)) /\ rout' = rout
        /\ Tcp(c, {"SYN"}, 0, 0, 0, 0).kind # "udp"
    BY <1>1 DEF Connect, ToStack, Tcp
  <2>2. QED
    BY ONLY <2>1 DEF Still
<1>2. ASSUME NEW c \in Client, Send(c)
      PROVE  Still(rin, rin') /\ Still(rout, rout')
  <2> DEFINE z == script[c][peer[c].n + 1]
             m == peer[c].pushes + (IF z.psh THEN 1 ELSE 0)
             fl == {"ACK"} \cup (IF z.psh THEN {"PSH"} ELSE {}) \cup (IF z.fin THEN {"FIN"} ELSE {})
             y == Tcp(c, fl, peer[c].snd, peer[c].rcv, z.len, m)
             x == [y EXCEPT !.cnt = peer[c].cnt]
  <2>1. rin' = Append(rin, x)
    BY <1>2 DEF Send, ToStack
  <2>2. x.kind # "udp"
    BY DEF Tcp
  <2>3. rout' = rout
    BY <1>2, Zenon DEF Send
  <2> HIDE DEF x
  <2>4. QED
    BY ONLY <2>1, <2>2, <2>3 DEF Still
<1>3. CASE Transmit
  <2>1. rout # <<>> /\ rout' = Tail(rout)
    BY <1>3, Zenon DEF Transmit
  <2>2. Head(rout).kind # "udp"
    BY <1>3 DEF Transmit
  <2>3. rin' = rin \/ \E x : x.kind # "udp" /\ rin' = Append(rin, x)
    BY <1>3 DEF Transmit, ToStack, Tcp, Arp
  <2>4. QED
    BY ONLY <2>1, <2>2, <2>3 DEF Still
<1>4. CASE Packets
  <2>1. rout' = rout
    BY <1>4 DEF Packets, ng_tcp_process, arp_reply, SignalListener, ng_tcp_enqueue_recvbuffer,
       SignalReader, AdvanceRcvNxt, ng_tcp_send_ackpkt, PktStep
  <2>2. rin' = rin \/ (rin # <<>> /\ Head(rin).kind # "udp" /\ rin' = Tail(rin))
    BY <1>4 DEF Packets, ng_tcp_process, arp_reply, SignalListener, ng_tcp_enqueue_recvbuffer,
       SignalReader, AdvanceRcvNxt, ng_tcp_send_ackpkt, PktStep
  <2>3. QED
    BY ONLY <2>1, <2>2 DEF Still
<1>5. ASSUME NEW c \in Client, ng_tcp_out(c)
      PROVE  Still(rin, rin') /\ Still(rout, rout')
  <2> DEFINE frag == Head(tcb[c].sndbuf)
  <2>1. /\ rin' = rin /\ tcb[c].sndbuf # <<>>
        /\ \/ rout' = Append(rout, frag) \/ rout' = rout \/ rout' = Append(rout, Arp(c))
    BY <1>5, Zenon DEF ng_tcp_out
  <2>2. TcpInv /\ OutInv /\ Types
    BY UdpFacts DEF TcpInv
  <2>3. tcb[c].sndbuf \in Seq(Segment)
    BY <2>2 DEF Types, Stream
  <2>4. 1 \in 1 .. Len(tcb[c].sndbuf) /\ frag = tcb[c].sndbuf[1]
    BY <2>1, <2>3
  <2>5. frag.kind = "tcp"
    BY <2>2, <2>4 DEF OutInv, StreamOut
  <2>6. Arp(c).kind # "udp"
    BY DEF Arp
  <2> HIDE DEF frag
  <2>7. frag.kind # "udp"
    BY <2>5
  <2>8. QED
    BY ONLY <2>1, <2>6, <2>7 DEF Still
<1>6. CASE App \/ SpuriousWakeup
  <2>1. rin' = rin /\ rout' = rout
    BY <1>6 DEF App, SpuriousWakeup, FindListener, WalkToListener, LockListener, get_accept_tcb,
       naccept, RecvLock, TakeFragment, pthread_cond_wait, AppStep, SendAck, SendSeq, nsend,
       CloseNumbers, nclose, EnterLastAck, stack
  <2>2. QED
    BY ONLY <2>1, SMTT(30) DEF Still
<1>7. QED
  BY <1>1, <1>2, <1>3, <1>4, <1>5, <1>6 DEF Next, Peers

(* Its steps leave the datagrams alone. *)
LEMMA TcpDatagrams ==
  ASSUME StackInv, DatagramInv, Next, UNCHANGED udp
  PROVE  DatagramInv'
<1>1. Still(rin, rin') /\ Still(rout, rout')
  BY TcpStill
<1>2. lhost' = lhost /\ traffic' = traffic /\ u' = u /\ remote' = remote
  BY DEF udp
<1>3. DatagramInv /\ rin \in Seq(Segment) /\ rout \in Seq(Segment)
  BY UdpFacts
<1>4. QED
  BY ONLY <1>1, <1>2, <1>3, DatagramsStay

(* So do the packets of the other protocols. *)
LEMMA OtherDatagrams ==
  ASSUME StackInv, DatagramInv,
         \/ \E c \in UdpHost : Ping(c) \/ AskAddress(c)
         \/ TransmitUdp /\ Head(rout).kind # "udp"
         \/ arp_request_timer_cb \/ arp_request \/ ng_send_icmp \/ SignalUdp
         \/ CondWait \/ SpuriousUdp \/ (Dequeue /\ lhost.rcvbuf = <<>>)
  PROVE  DatagramInv'
<1>1. DatagramInv /\ rin \in Seq(Segment) /\ rout \in Seq(Segment) /\ remote \in [UdpHost -> RemoteEnd]
  BY UdpFacts DEF HostInv
<1>2. ASSUME NEW c \in UdpHost, Ping(c) \/ AskAddress(c)
      PROVE  DatagramInv'
  <2>1. PICK pkt, r : Emit(c, pkt, r) /\ pkt.kind # "udp" /\ r.n = remote[c].n /\ r.echoes = remote[c].echoes
    <3>1. CASE Ping(c)
      <4> DEFINE pkt == Packet("icmp", c, 0, 0, 0)
                 r == [remote[c] EXCEPT !.ping = "sent"]
      <4>1. Emit(c, pkt, r)
        BY <3>1 DEF Ping
      <4>2. pkt.kind # "udp"
        BY DEF Packet
      <4>3. r.n = remote[c].n /\ r.echoes = remote[c].echoes
        BY <1>1 DEF RemoteEnd
      <4> HIDE DEF pkt, r
      <4>4. QED
        BY ONLY <4>1, <4>2, <4>3
    <3>2. CASE AskAddress(c)
      <4> DEFINE pkt == Packet("arp_request", c, 0, 0, 0)
                 r == [remote[c] EXCEPT !.ask = "sent"]
      <4>1. Emit(c, pkt, r)
        BY <3>2 DEF AskAddress
      <4>2. pkt.kind # "udp"
        BY DEF Packet
      <4>3. r.n = remote[c].n /\ r.echoes = remote[c].echoes
        BY <1>1 DEF RemoteEnd
      <4> HIDE DEF pkt, r
      <4>4. QED
        BY ONLY <4>1, <4>2, <4>3
    <3>3. QED
      BY <1>2, <3>1, <3>2
  <2>2. /\ rin' = Append(rin, pkt) /\ rout' = rout /\ remote' = [remote EXCEPT ![c] = r]
        /\ traffic' = traffic /\ lhost' = lhost /\ u' = u
    BY <2>1 DEF Emit, ToStack
  <2>3. \A e \in UdpHost : remote'[e].echoes = remote[e].echoes /\ remote'[e].n = remote[e].n
    BY <1>1, <2>1, <2>2
  <2>4. Still(rin, rin') /\ Still(rout, rout')
    BY <2>1, <2>2 DEF Still
  <2>5. QED
    BY ONLY <1>1, <2>2, <2>3, <2>4, DatagramsStay
<1>3. CASE TransmitUdp /\ Head(rout).kind # "udp"
  <2> DEFINE pkt == Head(rout)
  <2>1. /\ rout # <<>> /\ rout' = Tail(rout) /\ pkt.kind \in {"icmp", "arp_request"}
        /\ rin' = rin /\ traffic' = traffic /\ lhost' = lhost /\ u' = u
    BY <1>3, SMTT(30) DEF TransmitUdp
  <2>2. \/ remote' = [remote EXCEPT ![pkt.peer] = [remote[pkt.peer] EXCEPT !.ping = "answered"]]
        \/ remote' = [remote EXCEPT ![pkt.peer] = [remote[pkt.peer] EXCEPT !.ask = "answered"]]
    BY <1>3, <2>1 DEF TransmitUdp
  <2> HIDE DEF pkt
  <2>3. \A e \in UdpHost : remote'[e].echoes = remote[e].echoes /\ remote'[e].n = remote[e].n
    <3>1. SUFFICES ASSUME NEW e \in UdpHost
                   PROVE  remote'[e].echoes = remote[e].echoes /\ remote'[e].n = remote[e].n
      OBVIOUS
    <3>2. remote[e] \in RemoteEnd
      BY <1>1
    <3>3. CASE e # pkt.peer
      BY <1>1, <2>2, <3>3
    <3>4. CASE e = pkt.peer
      <4>1. \/ remote'[e] = [remote[e] EXCEPT !.ping = "answered"]
            \/ remote'[e] = [remote[e] EXCEPT !.ask = "answered"]
        BY <1>1, <2>2, <3>4
      <4>2. QED
        BY <3>2, <4>1 DEF RemoteEnd
    <3>5. QED
      BY <3>3, <3>4
  <2>4. Still(rin, rin') /\ Still(rout, rout')
    BY <2>1 DEF Still, pkt
  <2>5. QED
    BY ONLY <1>1, <2>1, <2>3, <2>4, DatagramsStay
<1>4. CASE arp_request_timer_cb
  <2>1. PICK c : rout' = Append(rout, Arp(c))
    BY <1>4 DEF arp_request_timer_cb
  <2>2. rin' = rin /\ traffic' = traffic /\ lhost' = lhost /\ u' = u /\ remote' = remote
    BY <1>4 DEF arp_request_timer_cb, udp
  <2>3. Arp(c).kind # "udp"
    BY DEF Arp
  <2>4. Still(rin, rin') /\ Still(rout, rout')
    BY <2>1, <2>2, <2>3 DEF Still
  <2>5. QED
    BY ONLY <1>1, <2>2, <2>4, DatagramsStay
<1>5. CASE arp_request \/ ng_send_icmp
  <2>1. /\ rin # <<>> /\ Head(rin).kind # "udp" /\ rin' = Tail(rin)
        /\ rout' = Append(rout, Head(rin))
        /\ traffic' = traffic /\ lhost' = lhost /\ u' = u /\ remote' = remote
    BY <1>5 DEF arp_request, ng_send_icmp, Process, Same
  <2>2. Still(rin, rin') /\ Still(rout, rout')
    BY <2>1 DEF Still
  <2>3. QED
    BY ONLY <1>1, <2>1, <2>2, DatagramsStay
<1>6. CASE SignalUdp \/ CondWait \/ SpuriousUdp \/ (Dequeue /\ lhost.rcvbuf = <<>>)
  <2>1. rin' = rin /\ rout' = rout /\ traffic' = traffic /\ lhost' = lhost /\ remote' = remote
    BY <1>6 DEF SignalUdp, CondWait, SpuriousUdp, Dequeue, ServerStep, stack
  <2>2. PICK s \in {"hold", "wait", "try"} :
          u' = u \/ (u.pc \notin {"copy", "send"} /\ u' = [u EXCEPT !.pc = s])
    BY <1>6 DEF SignalUdp, CondWait, SpuriousUdp, Dequeue, ServerStep
  <2>3. u' = u \/ (u.pc \notin {"copy", "send"} /\ u'.pc \notin {"copy", "send"})
    <3>1. CASE u.pc \notin {"copy", "send"} /\ u' = [u EXCEPT !.pc = s]
      <4>1. u'.pc = s \/ u'.pc = u.pc
        BY ONLY <3>1
      <4>2. s \notin {"copy", "send"}
        OBVIOUS
      <4>3. QED
        BY ONLY <3>1, <4>1, <4>2
    <3>2. QED
      BY <2>2, <3>1
  <2>4. Still(rin, rin') /\ Still(rout, rout')
    BY <2>1 DEF Still
  <2>5. QED
    BY ONLY <1>1, <2>1, <2>3, <2>4, DatagramsStay
<1>7. QED
  BY <1>2, <1>3, <1>4, <1>5, <1>6

(* The invariant after a step, from where the step leaves the pieces. *)
LEMMA DatagramsMove ==
  ASSUME traffic' = traffic, NEW R, NEW Q, NEW C, NEW S, NEW N, NEW O, NEW H, NEW n,
         RingSet(rin') = R, BufSet(lhost'.rcvbuf) = Q, Cut' = C, Echo' = S,
         BufSet(lhost'.sndbuf) = N, RingSet(rout') = O, EchoSet(remote') = H, Emitted' = n,
         RingOnce(rin'), BufOnce(lhost'.rcvbuf), BufOnce(lhost'.sndbuf), RingOnce(rout'),
         \A c \in UdpHost : EchoOnce(remote'[c].echoes),
         R \cap Q = {}, R \cap C = {}, Q \cap C = {}, N \cap O = {}, N \cap H = {}, O \cap H = {},
         RingBegins(rin'), BufEnds(lhost'.rcvbuf), u'.pc = "copy" => EndsRight(u'.ol),
         Progress(R \cup Q \cup C, S, N \cup O \cup H, n)
  PROVE  DatagramInv'
<1>1. LengthInv'
  BY LengthKept
<1>2. OnceInv'
  BY DEF OnceInv
<1>3. ToCut' = R \cup Q \cup C /\ Done' = N \cup O \cup H
  BY DEF ToCut, Done
<1>4. PICK A, D : A = R \cup Q \cup C /\ D = N \cup O \cup H
  OBVIOUS
<1>5. Progress(A, S, D, n) /\ ToCut' = A /\ Done' = D
  BY <1>3, <1>4
<1>6. Echo' = S /\ Emitted' = n /\ traffic' = traffic
  OBVIOUS
<1>7. Progress(ToCut, Echo, Done, Emitted)'
  BY ONLY <1>5, <1>6, ProgressKept
<1>8. QED
  BY ONLY <1>1, <1>2, <1>7 DEF DatagramInv

(* The pieces of the datagrams of this behaviour. *)
LEMMA HostPieces ==
  ASSUME HostInv, NEW c \in UdpHost, NEW d \in 1 .. Len(traffic.udp[c]), NEW b,
         b = UDP_APP_RECV_BUFFER_SIZE, NEW P, P = Pieces(c, d), NEW l, l = Length(c, d)
  PROVE  /\ traffic.udp[c][d] \in Nat /\ l = traffic.udp[c][d] + UDP_HDR /\ l \in Nat /\ b \in Nat \ {0}
         /\ P \subseteq Nat /\ 0 \in P
         /\ \A o \in P : o < l
         /\ \A o \in P : o + b < l => o + b \in P
         /\ \A o, r \in P : o < r => o + b <= r
<1>1. traffic.udp \in [UdpHost -> Seq(Nat \ {0})]
  BY TrafficAssumption DEF HostInv
<1>2. traffic.udp[c][d] \in Nat \ {0}
  BY <1>1
<1>3. UDP_HDR \in Nat \ {0} /\ b \in Nat \ {0}
  BY TrafficAssumption
<1>4. l = traffic.udp[c][d] + UDP_HDR /\ l \in Nat /\ l > 0
  BY <1>2, <1>3 DEF Length
<1>5. P = Multiples(l, b)
  BY DEF Pieces, Multiples
<1>6. /\ P \subseteq Nat /\ 0 \in P
      /\ \A o \in P : o < l
      /\ \A o \in P : o + b < l => o + b \in P
      /\ \A o, r \in P : o < r => o + b <= r
  BY ONLY <1>3, <1>4, <1>5, PieceFacts
<1>7. QED
  BY ONLY <1>2, <1>3, <1>4, <1>6

(* A host sends a datagram. *)
LEMMA SendDatagrams ==
  ASSUME StackInv, DatagramInv, NEW c \in UdpHost, SendDatagram(c)
  PROVE  DatagramInv'
<1>1. /\ RingOnce(rin) /\ BufOnce(lhost.rcvbuf) /\ BufOnce(lhost.sndbuf) /\ RingOnce(rout)
      /\ \A e \in UdpHost : EchoOnce(remote[e].echoes)
      /\ RingSet(rin) \cap BufSet(lhost.rcvbuf) = {} /\ RingSet(rin) \cap Cut = {}
      /\ BufSet(lhost.rcvbuf) \cap Cut = {}
      /\ BufSet(lhost.sndbuf) \cap RingSet(rout) = {} /\ BufSet(lhost.sndbuf) \cap EchoSet(remote) = {}
      /\ RingSet(rout) \cap EchoSet(remote) = {}
      /\ RingBegins(rin) /\ BufEnds(lhost.rcvbuf) /\ (u.pc = "copy" => EndsRight(u.ol))
      /\ Progress(ToCut, Echo, Done, Emitted)
  BY DatagramFacts
<1>2. HostInv /\ rin \in Seq(Segment) /\ remote \in [UdpHost -> RemoteEnd]
  BY UdpFacts DEF HostInv
<1>3. PICK d : d = remote[c].n + 1
  OBVIOUS
<1>4. PICK l : l = traffic.udp[c][d]
  OBVIOUS
<1>5. PICK pkt : pkt = Packet("udp", c, d, 0, l)
  OBVIOUS
<1>6. PICK r : r = [remote[c] EXCEPT !.n = d]
  OBVIOUS
<1>7. /\ rin' = Append(rin, pkt) /\ remote' = [remote EXCEPT ![c] = r]
      /\ rout' = rout /\ traffic' = traffic /\ lhost' = lhost /\ u' = u
      /\ remote[c].n < Len(traffic.udp[c])
  BY <1>3, <1>4, <1>5, <1>6 DEF SendDatagram, Emit, ToStack
<1>8. pkt.kind = "udp" /\ pkt.peer = c /\ pkt.msg = d /\ pkt.seq = 0 /\ pkt.len = l
  BY <1>5 DEF Packet
<1>9. d \in 1 .. Len(traffic.udp[c]) /\ d \in Nat /\ remote[c] \in RemoteEnd
  <2>1. remote[c].n \in Nat /\ remote[c] \in RemoteEnd
    BY <1>2 DEF RemoteEnd
  <2>2. Len(traffic.udp[c]) \in Nat
    BY <1>2, TrafficAssumption DEF HostInv
  <2>3. QED
    BY <1>3, <1>7, <2>1, <2>2
<1>10. /\ Length(c, d) = l + UDP_HDR /\ 0 \in Pieces(c, d) /\ Pieces(c, d) \subseteq Nat
  <2>1. PICK P, k, b : P = Pieces(c, d) /\ k = Length(c, d) /\ b = UDP_APP_RECV_BUFFER_SIZE
    OBVIOUS
  <2>2. k = traffic.udp[c][d] + UDP_HDR /\ P \subseteq Nat /\ 0 \in P
    BY <1>2, <1>9, <2>1, HostPieces
  <2>3. QED
    BY <1>4, <2>1, <2>2
<1>11. /\ \A e \in UdpHost : remote'[e].echoes = remote[e].echoes
       /\ remote'[c].n = d /\ \A e \in UdpHost : e # c => remote'[e].n = remote[e].n
  <2>1. r.n = d /\ r.echoes = remote[c].echoes
    BY <1>6, <1>9 DEF RemoteEnd
  <2>2. QED
    BY <1>2, <1>7, <2>1
<1>12. EchoSet(remote') = EchoSet(remote)
  BY <1>11, EchoesSame
<1>13. /\ Emitted \in [UdpHost -> Nat] /\ Emitted' \in [UdpHost -> Nat]
       /\ Emitted'[c] = d /\ d = Emitted[c] + 1
       /\ \A e \in UdpHost : e # c => Emitted'[e] = Emitted[e]
  <2>1. \A e \in UdpHost : remote[e].n \in Nat
    BY <1>2 DEF RemoteEnd
  <2>2. \A e \in UdpHost : remote'[e].n \in Nat
    BY <1>9, <1>11, <2>1
  <2>3. QED
    BY <1>3, <1>11, <2>1, <2>2 DEF Emitted
<1>14. PICK w : w = <<c, d, 0>>
  OBVIOUS
<1>15. w \notin ToCut \cup Echo \cup Done /\ Progress(ToCut \cup {w}, Echo, Done, Emitted')
  <2>1. PICK A, S, D, n, m : /\ A = ToCut /\ S = Echo /\ D = Done /\ n = Emitted /\ m = Emitted'
    OBVIOUS
  <2>2. /\ Progress(A, S, D, n) /\ n \in [UdpHost -> Nat] /\ m \in [UdpHost -> Nat]
        /\ m[c] = d /\ d = n[c] + 1 /\ \A e \in UdpHost : e # c => m[e] = n[e]
    BY <1>1, <1>13, <2>1
  <2>3. w \notin A \cup S \cup D /\ Progress(A \cup {w}, S, D, m)
    BY <1>10, <1>14, <2>2, ProgressSend
  <2>4. QED
    BY <2>1, <2>3
<1>16. w \notin RingSet(rin) /\ w \notin BufSet(lhost.rcvbuf) /\ w \notin Cut
  BY <1>15 DEF ToCut
<1>17. RingSet(rin') = RingSet(rin) \cup {w} /\ RingOnce(rin')
  BY <1>1, <1>2, <1>7, <1>8, <1>14, <1>16, RingGrows
<1>18. RingBegins(rin')
  BY <1>1, <1>2, <1>7, <1>8, <1>10, BeginsAppend
<1>19. PICK R, Q, C, S, N, O, H, n :
         /\ R = RingSet(rin) \cup {w} /\ Q = BufSet(lhost.rcvbuf) /\ C = Cut /\ S = Echo
         /\ N = BufSet(lhost.sndbuf) /\ O = RingSet(rout) /\ H = EchoSet(remote) /\ n = Emitted'
  OBVIOUS
<1>20. /\ RingSet(rin') = R /\ BufSet(lhost'.rcvbuf) = Q /\ Cut' = C /\ Echo' = S
       /\ BufSet(lhost'.sndbuf) = N /\ RingSet(rout') = O /\ EchoSet(remote') = H /\ Emitted' = n
  BY <1>7, <1>12, <1>17, <1>19 DEF Cut, Echo
<1>21. /\ R \cap Q = {} /\ R \cap C = {} /\ Q \cap C = {} /\ N \cap O = {} /\ N \cap H = {}
       /\ O \cap H = {}
  BY ONLY <1>1, <1>16, <1>19
<1>22. Progress(R \cup Q \cup C, S, N \cup O \cup H, n)
  <2>1. R \cup Q \cup C = ToCut \cup {w} /\ N \cup O \cup H = Done
    BY ONLY <1>19 DEF ToCut, Done
  <2>2. QED
    BY <1>15, <1>19, <2>1
<1>23. /\ BufOnce(lhost'.rcvbuf) /\ BufOnce(lhost'.sndbuf) /\ RingOnce(rout') /\ BufEnds(lhost'.rcvbuf)
       /\ u'.pc = "copy" => EndsRight(u'.ol)
       /\ \A e \in UdpHost : EchoOnce(remote'[e].echoes)
       /\ traffic' = traffic
  BY <1>1, <1>7, <1>11
<1>24. QED
  BY ONLY <1>17, <1>18, <1>20, <1>21, <1>22, <1>23, DatagramsMove

(* udp_process queues a datagram in rcvbuf. *)
LEMMA ProcessDatagrams ==
  ASSUME StackInv, DatagramInv, udp_process
  PROVE  DatagramInv'
<1>1. /\ RingOnce(rin) /\ BufOnce(lhost.rcvbuf) /\ BufOnce(lhost.sndbuf) /\ RingOnce(rout)
      /\ \A e \in UdpHost : EchoOnce(remote[e].echoes)
      /\ RingSet(rin) \cap BufSet(lhost.rcvbuf) = {} /\ RingSet(rin) \cap Cut = {}
      /\ BufSet(lhost.rcvbuf) \cap Cut = {}
      /\ BufSet(lhost.sndbuf) \cap RingSet(rout) = {} /\ BufSet(lhost.sndbuf) \cap EchoSet(remote) = {}
      /\ RingSet(rout) \cap EchoSet(remote) = {}
      /\ RingBegins(rin) /\ BufEnds(lhost.rcvbuf) /\ (u.pc = "copy" => EndsRight(u.ol))
      /\ Progress(ToCut, Echo, Done, Emitted)
  BY DatagramFacts
<1>2. /\ rin \in Seq(Segment) /\ UdpPackets(rin) /\ lhost \in Socket /\ lhost.rcvbuf \in Seq(Offload)
  BY UdpFacts
<1>3. PICK pkt : pkt = Head(rin)
  OBVIOUS
<1>4. PICK x : x = offload(pkt.peer, pkt.msg, 0, pkt.len + UDP_HDR)
  OBVIOUS
<1>5. PICK q : q = Append(lhost.rcvbuf, x)
  OBVIOUS
<1>6. /\ rin # <<>> /\ pkt.kind = "udp" /\ rin' = Tail(rin) /\ rout' = rout
      /\ lhost' = [lhost EXCEPT !.rcvbuf = q] /\ traffic' = traffic /\ u' = u /\ remote' = remote
  BY <1>3, <1>4, <1>5 DEF udp_process, Process, Same
<1>7. /\ pkt \in Segment /\ pkt.peer \in UdpHost
      /\ RingBegins(rin') /\ pkt.seq = 0 /\ pkt.len + UDP_HDR = Length(pkt.peer, pkt.msg)
  <2>1. pkt \in Segment /\ pkt.peer \in UdpHost
    BY <1>2, <1>3, <1>6, UdpTail
  <2>2. RingBegins(rin') /\ pkt.seq = 0 /\ pkt.len + UDP_HDR = Length(pkt.peer, pkt.msg)
    BY <1>1, <1>2, <1>3, <1>6, BeginsTail
  <2>3. QED
    BY <2>1, <2>2
<1>8. /\ x \in Offload /\ EndsRight(x) /\ x.peer = pkt.peer /\ x.msg = pkt.msg /\ x.off = 0
  <2>1. x.peer = pkt.peer /\ x.msg = pkt.msg /\ x.off = 0 /\ x.length = pkt.len + UDP_HDR
    BY <1>4 DEF offload
  <2>2. pkt.msg \in Nat /\ pkt.len + UDP_HDR \in Nat
    BY <1>7, TrafficAssumption DEF Segment
  <2>3. x \in Offload
    BY <1>4, <1>7, <2>2 DEF offload, Offload
  <2>4. EndsRight(x)
    BY <1>7, <2>1, <2>2 DEF EndsRight
  <2>5. QED
    BY <2>1, <2>3, <2>4
<1>9. PICK w : w = <<pkt.peer, pkt.msg, 0>>
  OBVIOUS
<1>10. RingOnce(rin') /\ w \in RingSet(rin) /\ RingSet(rin') = RingSet(rin) \ {w}
  <2>1. w = <<Head(rin).peer, Head(rin).msg, Head(rin).seq>> /\ Head(rin).kind = "udp"
    BY <1>3, <1>6, <1>7, <1>9
  <2>2. QED
    BY <1>1, <1>2, <1>6, <2>1, RingShrinks
<1>11. BufSet(q) = BufSet(lhost.rcvbuf) \cup {w} /\ BufOnce(q) /\ BufEnds(q)
  <2>1. w = <<x.peer, x.msg, x.off>> /\ w \notin BufSet(lhost.rcvbuf)
    BY <1>1, <1>8, <1>9, <1>10
  <2>2. BufSet(q) = BufSet(lhost.rcvbuf) \cup {w} /\ BufOnce(q)
    BY <1>1, <1>2, <1>5, <1>8, <2>1, BufGrows
  <2>3. BufEnds(q)
    BY <1>1, <1>2, <1>5, <1>8, EndsAppend
  <2>4. QED
    BY <2>2, <2>3
<1>12. lhost'.rcvbuf = q /\ lhost'.sndbuf = lhost.sndbuf
  BY <1>2, <1>6 DEF Socket
<1>13. PICK R, Q, C, S, N, O, H, n :
         /\ R = RingSet(rin) \ {w} /\ Q = BufSet(lhost.rcvbuf) \cup {w} /\ C = Cut /\ S = Echo
         /\ N = BufSet(lhost.sndbuf) /\ O = RingSet(rout) /\ H = EchoSet(remote) /\ n = Emitted
  OBVIOUS
<1>14. /\ RingSet(rin') = R /\ BufSet(lhost'.rcvbuf) = Q /\ Cut' = C /\ Echo' = S
       /\ BufSet(lhost'.sndbuf) = N /\ RingSet(rout') = O /\ EchoSet(remote') = H /\ Emitted' = n
  BY <1>6, <1>10, <1>11, <1>12, <1>13 DEF Cut, Echo, Emitted
<1>15. /\ R \cap Q = {} /\ R \cap C = {} /\ Q \cap C = {} /\ N \cap O = {} /\ N \cap H = {}
       /\ O \cap H = {}
  BY ONLY <1>1, <1>10, <1>13
<1>16. Progress(R \cup Q \cup C, S, N \cup O \cup H, n)
  <2>1. R \cup Q \cup C = ToCut /\ N \cup O \cup H = Done
    BY ONLY <1>10, <1>13 DEF ToCut, Done
  <2>2. QED
    BY <1>1, <1>13, <2>1
<1>17. /\ BufOnce(lhost'.rcvbuf) /\ BufOnce(lhost'.sndbuf) /\ RingOnce(rout') /\ BufEnds(lhost'.rcvbuf)
       /\ u'.pc = "copy" => EndsRight(u'.ol)
       /\ \A e \in UdpHost : EchoOnce(remote'[e].echoes)
       /\ traffic' = traffic /\ RingOnce(rin') /\ RingBegins(rin')
  BY <1>1, <1>6, <1>7, <1>10, <1>11, <1>12
<1>18. QED
  BY ONLY <1>14, <1>15, <1>16, <1>17, DatagramsMove

(* nrecvfrom takes a fragment from rcvbuf. *)
LEMMA DequeueDatagrams ==
  ASSUME StackInv, DatagramInv, Dequeue, lhost.rcvbuf # <<>>
  PROVE  DatagramInv'
<1>1. /\ RingOnce(rin) /\ BufOnce(lhost.rcvbuf) /\ BufOnce(lhost.sndbuf) /\ RingOnce(rout)
      /\ \A e \in UdpHost : EchoOnce(remote[e].echoes)
      /\ RingSet(rin) \cap BufSet(lhost.rcvbuf) = {} /\ RingSet(rin) \cap Cut = {}
      /\ BufSet(lhost.sndbuf) \cap RingSet(rout) = {} /\ BufSet(lhost.sndbuf) \cap EchoSet(remote) = {}
      /\ RingSet(rout) \cap EchoSet(remote) = {}
      /\ RingBegins(rin) /\ BufEnds(lhost.rcvbuf)
      /\ Progress(ToCut, Echo, Done, Emitted)
  BY DatagramFacts
<1>2. lhost \in Socket /\ lhost.rcvbuf \in Seq(Offload)
  BY UdpFacts
<1>3. PICK x : x = Head(lhost.rcvbuf)
  OBVIOUS
<1>4. PICK q : q = Tail(lhost.rcvbuf)
  OBVIOUS
<1>5. /\ u.pc = "try" /\ u' = [pc |-> "copy", ol |-> x] /\ lhost' = [lhost EXCEPT !.rcvbuf = q]
      /\ rin' = rin /\ rout' = rout /\ traffic' = traffic /\ remote' = remote
  BY <1>3, <1>4 DEF Dequeue, ServerStep, stack
<1>6. u'.pc = "copy" /\ u'.ol = x
  BY <1>5
<1>7. lhost'.rcvbuf = q /\ lhost'.sndbuf = lhost.sndbuf
  BY <1>2, <1>5 DEF Socket
<1>8. PICK w : w = <<x.peer, x.msg, x.off>>
  OBVIOUS
<1>9. BufOnce(q) /\ w \in BufSet(lhost.rcvbuf) /\ BufSet(q) = BufSet(lhost.rcvbuf) \ {w}
  BY <1>1, <1>2, <1>3, <1>4, <1>8, BufShrinks
<1>10. BufEnds(q) /\ EndsRight(x)
  BY <1>1, <1>2, <1>3, <1>4, EndsTail
<1>11. Cut = {} /\ Echo = {} /\ Cut' = {w} /\ Echo' = {}
  BY <1>5, <1>6, <1>8 DEF Cut, Echo
<1>12. PICK R, Q, C, S, N, O, H, n :
         /\ R = RingSet(rin) /\ Q = BufSet(lhost.rcvbuf) \ {w} /\ C = {w} /\ S = {}
         /\ N = BufSet(lhost.sndbuf) /\ O = RingSet(rout) /\ H = EchoSet(remote) /\ n = Emitted
  OBVIOUS
<1>13. /\ RingSet(rin') = R /\ BufSet(lhost'.rcvbuf) = Q /\ Cut' = C /\ Echo' = S
       /\ BufSet(lhost'.sndbuf) = N /\ RingSet(rout') = O /\ EchoSet(remote') = H /\ Emitted' = n
  BY <1>5, <1>7, <1>9, <1>11, <1>12 DEF Emitted
<1>14. /\ R \cap Q = {} /\ R \cap C = {} /\ Q \cap C = {} /\ N \cap O = {} /\ N \cap H = {}
       /\ O \cap H = {}
  BY ONLY <1>1, <1>9, <1>12
<1>15. Progress(R \cup Q \cup C, S, N \cup O \cup H, n)
  <2>1. R \cup Q \cup C = ToCut /\ N \cup O \cup H = Done /\ S = Echo
    BY ONLY <1>9, <1>11, <1>12 DEF ToCut, Done
  <2>2. QED
    BY <1>1, <1>12, <2>1
<1>16. /\ BufOnce(lhost'.rcvbuf) /\ BufOnce(lhost'.sndbuf) /\ RingOnce(rout') /\ BufEnds(lhost'.rcvbuf)
       /\ u'.pc = "copy" => EndsRight(u'.ol)
       /\ \A e \in UdpHost : EchoOnce(remote'[e].echoes)
       /\ traffic' = traffic /\ RingOnce(rin') /\ RingBegins(rin')
  BY <1>1, <1>5, <1>6, <1>7, <1>9, <1>10
<1>17. QED
  BY ONLY <1>13, <1>14, <1>15, <1>16, DatagramsMove

(* The variables of the UDP server. *)
FormInv == u = [pc |-> u.pc, ol |-> u.ol]

(* It has no others. *)
LEMMA FormStep ==
  ASSUME FormInv, [StackNext]_all
  PROVE  FormInv'
<1>1. u' = u \/ (\E s : u' = [u EXCEPT !.pc = s]) \/ \E s, x : u' = [pc |-> s, ol |-> x]
  <2>1. CASE UNCHANGED all
    BY <2>1 DEF all, udp
  <2>2. CASE Next /\ UNCHANGED udp
    BY <2>2 DEF udp
  <2>3. CASE Hosts
    BY <2>3 DEF Hosts, SendDatagram, Ping, AskAddress, Emit
  <2>4. CASE TransmitUdp
    BY <2>4, Zenon DEF TransmitUdp
  <2>5. CASE arp_request_timer_cb
    BY <2>5 DEF arp_request_timer_cb, udp
  <2>6. CASE PacketsUdp
    BY <2>6 DEF PacketsUdp, arp_request, ng_send_icmp, udp_process, SignalUdp, Same
  <2>7. CASE udp_out
    BY <2>7, Zenon DEF udp_out, Same
  <2>8. CASE udp_server_entry \/ SpuriousUdp
    BY <2>8 DEF udp_server_entry, Dequeue, CondWait, nrecvfrom, nsendto, SpuriousUdp, ServerStep
  <2>9. QED
    BY <2>1, <2>2, <2>3, <2>4, <2>5, <2>6, <2>7, <2>8 DEF StackNext
<1>2. ASSUME NEW s, u' = [u EXCEPT !.pc = s]
      PROVE  FormInv'
  <2>1. PICK a, b : u = [pc |-> a, ol |-> b]
    BY DEF FormInv
  <2>2. u' = [pc |-> s, ol |-> b]
    BY <1>2, <2>1
  <2>3. QED
    BY ONLY <2>2 DEF FormInv
<1>3. ASSUME NEW s, NEW x, u' = [pc |-> s, ol |-> x]
      PROVE  FormInv'
  BY ONLY <1>3 DEF FormInv
<1>4. QED
  BY <1>1, <1>2, <1>3 DEF FormInv

(* nrecvfrom copies a piece, and puts the rest back. *)
LEMMA CutDatagrams ==
  ASSUME StackInv, DatagramInv, FormInv, nrecvfrom
  PROVE  DatagramInv'
<1>1. /\ RingOnce(rin) /\ BufOnce(lhost.rcvbuf) /\ BufOnce(lhost.sndbuf) /\ RingOnce(rout)
      /\ \A e \in UdpHost : EchoOnce(remote[e].echoes)
      /\ RingSet(rin) \cap BufSet(lhost.rcvbuf) = {} /\ RingSet(rin) \cap Cut = {}
      /\ BufSet(lhost.rcvbuf) \cap Cut = {}
      /\ BufSet(lhost.sndbuf) \cap RingSet(rout) = {} /\ BufSet(lhost.sndbuf) \cap EchoSet(remote) = {}
      /\ RingSet(rout) \cap EchoSet(remote) = {}
      /\ RingBegins(rin) /\ BufEnds(lhost.rcvbuf) /\ (u.pc = "copy" => EndsRight(u.ol))
      /\ Progress(ToCut, Echo, Done, Emitted)
  BY DatagramFacts
<1>2. lhost \in Socket /\ lhost.rcvbuf \in Seq(Offload) /\ HostInv /\ SocketInv
  BY UdpFacts
<1>3. PICK b, c, d, o, k : /\ b = UDP_APP_RECV_BUFFER_SIZE /\ c = u.ol.peer /\ d = u.ol.msg
                           /\ o = u.ol.off /\ k = u.ol.length
  OBVIOUS
<1>4. PICK x : x = offload(c, d, o + b, k - b)
  OBVIOUS
<1>5. PICK q : q = Append(lhost.rcvbuf, x)
  OBVIOUS
<1>6. /\ u.pc = "copy" /\ u' = [u EXCEPT !.pc = "send"]
      /\ lhost' = IF b < k THEN [lhost EXCEPT !.rcvbuf = q] ELSE lhost
      /\ rin' = rin /\ rout' = rout /\ traffic' = traffic /\ remote' = remote
  BY <1>3, <1>4, <1>5 DEF nrecvfrom, ServerStep, stack
<1>7. u'.pc = "send" /\ u'.ol = u.ol
  <2>1. PICK a, y : u = [pc |-> a, ol |-> y]
    BY DEF FormInv
  <2>2. QED
    BY ONLY <1>6, <2>1
<1>8. c \in UdpHost /\ d \in Nat /\ o \in Nat /\ k \in Nat /\ o + k = Length(c, d)
  <2>1. u.ol \in Offload
    BY <1>2, <1>6 DEF SocketInv
  <2>2. EndsRight(u.ol)
    BY <1>1, <1>6
  <2>3. QED
    BY <1>3, <2>1, <2>2 DEF Offload, EndsRight
<1>9. PICK z : z = <<c, d, o>>
  OBVIOUS
<1>10. z[1] = c /\ z[2] = d /\ z[3] = o
  BY <1>9
<1>11. Cut = {z} /\ Echo = {} /\ Cut' = {} /\ Echo' = {z} /\ z \in ToCut
  BY <1>3, <1>6, <1>7, <1>9 DEF Cut, Echo, ToCut
<1>12. PICK A, D, n : A = ToCut /\ D = Done /\ n = Emitted
  OBVIOUS
<1>13. Progress(A, {}, D, n) /\ z \in A
  BY <1>1, <1>11, <1>12
<1>14. d \in 1 .. Len(traffic.udp[c])
  <2>1. d \in 1 .. n[c]
    <3>1. z[2] \in 1 .. n[z[1]]
      BY ONLY <1>13, ProgressFacts
    <3>2. QED
      BY <1>10, <3>1
  <2>2. n[c] = remote[c].n /\ remote[c].n \in Nat /\ remote[c].n <= Len(traffic.udp[c])
    BY <1>2, <1>8, <1>12 DEF Emitted, HostInv, RemoteEnd
  <2>3. Len(traffic.udp[c]) \in Nat
    BY <1>2, <1>8, TrafficAssumption DEF HostInv
  <2>4. QED
    BY ONLY <2>1, <2>2, <2>3
<1>15. PICK P : P = Pieces(c, d)
  OBVIOUS
<1>16. /\ b \in Nat \ {0} /\ P \subseteq Nat /\ o \in P
       /\ \A i \in P : i < o + k
       /\ \A i \in P : i + b < o + k => i + b \in P
       /\ \A i, j \in P : i < j => i + b <= j
  <2>1. PICK l : l = Length(c, d)
    OBVIOUS
  <2>2. /\ b \in Nat \ {0} /\ P \subseteq Nat
        /\ \A i \in P : i < l
        /\ \A i \in P : i + b < l => i + b \in P
        /\ \A i, j \in P : i < j => i + b <= j
    BY <1>2, <1>3, <1>8, <1>14, <1>15, <2>1, HostPieces
  <2>3. z[3] \in Pieces(z[1], z[2])
    BY ONLY <1>13, ProgressFacts
  <2>4. QED
    BY <1>8, <1>10, <1>15, <2>1, <2>2, <2>3
<1>17. PICK R, Q, N, O, H :
         /\ R = RingSet(rin) /\ Q = BufSet(lhost.rcvbuf)
         /\ N = BufSet(lhost.sndbuf) /\ O = RingSet(rout) /\ H = EchoSet(remote)
  OBVIOUS
<1>18. /\ R \cap Q = {} /\ z \notin R /\ z \notin Q /\ N \cap O = {} /\ N \cap H = {} /\ O \cap H = {}
       /\ A = R \cup Q \cup {z} /\ D = N \cup O \cup H
  BY ONLY <1>1, <1>11, <1>12, <1>17 DEF ToCut, Done
<1>19. /\ RingSet(rin') = R /\ Cut' = {} /\ Echo' = {z}
       /\ RingSet(rout') = O /\ EchoSet(remote') = H /\ Emitted' = n
       /\ RingOnce(rout') /\ RingOnce(rin') /\ RingBegins(rin')
       /\ u'.pc = "copy" => EndsRight(u'.ol)
       /\ \A e \in UdpHost : EchoOnce(remote'[e].echoes)
       /\ traffic' = traffic
  BY <1>1, <1>6, <1>7, <1>11, <1>12, <1>17 DEF Emitted
<1>20. CASE b < k
  <2>1. PICK w : w = <<c, d, o + b>>
    OBVIOUS
  <2>2. /\ w = <<z[1], z[2], w[3]>> /\ w[3] = o + b /\ w[3] \in Nat /\ z[3] < w[3]
        /\ w[3] \in Pieces(z[1], z[2])
        /\ \A i \in Pieces(z[1], z[2]) : i \in Nat /\ (z[3] < i => w[3] <= i)
    <3>1. w[3] = o + b /\ o + b \in Nat /\ o < o + b
      BY <1>8, <1>16, <2>1
    <3>2. w = <<z[1], z[2], w[3]>>
      BY <1>10, <2>1, <3>1
    <3>3. o + b \in P
      BY <1>8, <1>16, <1>20
    <3>4. \A i \in P : i \in Nat /\ (o < i => o + b <= i)
      BY <1>16
    <3>5. QED
      BY ONLY <1>10, <1>15, <3>1, <3>2, <3>3, <3>4
  <2>3. w \notin A /\ w \notin D /\ Progress((A \ {z}) \cup {w}, {z}, D, n)
    BY ONLY <1>13, <2>2, ProgressMore
  <2>4. /\ x.peer = c /\ x.msg = d /\ x.off = o + b /\ x.length = k - b /\ x \in Offload
        /\ EndsRight(x)
    <3>1. o + b \in Nat /\ k - b \in Nat /\ o + b + (k - b) = o + k
      BY <1>8, <1>16, <1>20
    <3>2. x.peer = c /\ x.msg = d /\ x.off = o + b /\ x.length = k - b
      BY <1>4 DEF offload
    <3>3. x \in Offload
      BY <1>4, <1>8, <3>1 DEF offload, Offload
    <3>4. EndsRight(x)
      BY <1>8, <3>1, <3>2 DEF EndsRight
    <3>5. QED
      BY <3>2, <3>3, <3>4
  <2>5. BufSet(q) = Q \cup {w} /\ BufOnce(q) /\ BufEnds(q)
    <3>1. w = <<x.peer, x.msg, x.off>> /\ w \notin BufSet(lhost.rcvbuf)
      BY <1>17, <1>18, <2>1, <2>3, <2>4
    <3>2. BufSet(q) = Q \cup {w} /\ BufOnce(q)
      BY <1>1, <1>2, <1>5, <1>17, <2>4, <3>1, BufGrows
    <3>3. BufEnds(q)
      BY <1>1, <1>2, <1>5, <2>4, EndsAppend
    <3>4. QED
      BY <3>2, <3>3
  <2>6. lhost'.rcvbuf = q /\ lhost'.sndbuf = lhost.sndbuf
    BY <1>2, <1>6, <1>20 DEF Socket
  <2>7. PICK V, C, S : V = Q \cup {w} /\ C = {} /\ S = {z}
    OBVIOUS
  <2>8. /\ BufSet(lhost'.rcvbuf) = V /\ BufSet(lhost'.sndbuf) = N /\ Cut' = C /\ Echo' = S
        /\ BufOnce(lhost'.rcvbuf) /\ BufOnce(lhost'.sndbuf) /\ BufEnds(lhost'.rcvbuf)
    BY <1>1, <1>17, <1>19, <2>5, <2>6, <2>7
  <2>9. R \cap V = {} /\ R \cap C = {} /\ V \cap C = {}
    BY ONLY <1>18, <2>3, <2>7
  <2>10. Progress(R \cup V \cup C, S, N \cup O \cup H, n)
    <3>1. R \cup V \cup C = (A \ {z}) \cup {w}
      BY ONLY <1>18, <2>7
    <3>2. QED
      BY <1>18, <2>3, <2>7, <3>1
  <2>11. QED
    BY ONLY <1>18, <1>19, <2>8, <2>9, <2>10, DatagramsMove
<1>21. CASE ~(b < k)
  <2>1. \A i \in Pieces(z[1], z[2]) : i \in Nat /\ ~(z[3] < i)
    <3>1. ASSUME NEW i \in P
          PROVE  i \in Nat /\ ~(o < i)
      <4>1. i \in Nat /\ i < o + k /\ (o < i => o + b <= i)
        BY <1>16
      <4>2. QED
        BY <1>8, <1>16, <1>21, <4>1
    <3>2. QED
      BY ONLY <1>10, <1>15, <3>1
  <2>2. Progress(A \ {z}, {z}, D, n)
    BY ONLY <1>13, <2>1, ProgressLast
  <2>3. lhost' = lhost
    BY <1>6, <1>21
  <2>4. PICK C, S : C = {} /\ S = {z}
    OBVIOUS
  <2>5. /\ BufSet(lhost'.rcvbuf) = Q /\ BufSet(lhost'.sndbuf) = N /\ Cut' = C /\ Echo' = S
        /\ BufOnce(lhost'.rcvbuf) /\ BufOnce(lhost'.sndbuf) /\ BufEnds(lhost'.rcvbuf)
    BY <1>1, <1>17, <1>19, <2>3, <2>4
  <2>6. R \cap C = {} /\ Q \cap C = {}
    BY ONLY <2>4
  <2>7. Progress(R \cup Q \cup C, S, N \cup O \cup H, n)
    <3>1. R \cup Q \cup C = A \ {z}
      BY ONLY <1>18, <2>4
    <3>2. QED
      BY <1>18, <2>2, <2>4, <3>1
  <2>8. QED
    BY ONLY <1>18, <1>19, <2>5, <2>6, <2>7, DatagramsMove
<1>22. QED
  BY <1>20, <1>21

(* nsendto queues the echo of a piece. *)
LEMMA EchoDatagrams ==
  ASSUME StackInv, DatagramInv, nsendto, ~IsEmpty(u.ol.peer, u.ol.msg, u.ol.off)
  PROVE  DatagramInv'
<1>1. /\ RingOnce(rin) /\ BufOnce(lhost.rcvbuf) /\ BufOnce(lhost.sndbuf) /\ RingOnce(rout)
      /\ \A e \in UdpHost : EchoOnce(remote[e].echoes)
      /\ RingSet(rin) \cap BufSet(lhost.rcvbuf) = {}
      /\ BufSet(lhost.sndbuf) \cap RingSet(rout) = {} /\ BufSet(lhost.sndbuf) \cap EchoSet(remote) = {}
      /\ RingSet(rout) \cap EchoSet(remote) = {}
      /\ RingBegins(rin) /\ BufEnds(lhost.rcvbuf)
      /\ Progress(ToCut, Echo, Done, Emitted)
  BY DatagramFacts
<1>2. lhost \in Socket /\ lhost.sndbuf \in Seq(Offload) /\ SocketInv
  BY UdpFacts
<1>3. PICK x : x = offload(u.ol.peer, u.ol.msg, u.ol.off, 0)
  OBVIOUS
<1>4. PICK q : q = Append(lhost.sndbuf, x)
  OBVIOUS
<1>5. /\ u.pc = "send" /\ u' = [pc |-> "try", ol |-> NoOffload] /\ lhost' = [lhost EXCEPT !.sndbuf = q]
      /\ rin' = rin /\ rout' = rout /\ traffic' = traffic /\ remote' = remote
  BY <1>3, <1>4 DEF nsendto, ServerStep, stack
<1>6. u'.pc = "try"
  BY <1>5
<1>7. lhost'.sndbuf = q /\ lhost'.rcvbuf = lhost.rcvbuf
  BY <1>2, <1>5 DEF Socket
<1>8. /\ x \in Offload /\ x.peer = u.ol.peer /\ x.msg = u.ol.msg /\ x.off = u.ol.off
  <2>1. u.ol \in Offload
    BY <1>2, <1>5 DEF SocketInv
  <2>2. QED
    BY <1>3, <2>1 DEF offload, Offload
<1>9. PICK z : z = <<u.ol.peer, u.ol.msg, u.ol.off>>
  OBVIOUS
<1>10. Cut = {} /\ Echo = {z} /\ Cut' = {} /\ Echo' = {}
  BY <1>5, <1>6, <1>9 DEF Cut, Echo
<1>11. PICK A, D, n : A = ToCut /\ D = Done /\ n = Emitted
  OBVIOUS
<1>12. z \notin D /\ Progress(A, {}, D \cup {z}, n)
  <2>1. Progress(A, {z}, D, n)
    BY <1>1, <1>10, <1>11
  <2>2. z \notin traffic.nul
    BY <1>9 DEF IsEmpty
  <2>3. QED
    BY ONLY <2>1, <2>2, ProgressEcho
<1>13. PICK R, Q, C, S, N, O, H :
         /\ R = RingSet(rin) /\ Q = BufSet(lhost.rcvbuf) /\ C = {} /\ S = {}
         /\ N = BufSet(lhost.sndbuf) \cup {z} /\ O = RingSet(rout) /\ H = EchoSet(remote)
  OBVIOUS
<1>14. BufSet(q) = N /\ BufOnce(q)
  <2>1. z = <<x.peer, x.msg, x.off>> /\ z \notin BufSet(lhost.sndbuf)
    BY <1>8, <1>9, <1>11, <1>12 DEF Done
  <2>2. BufSet(q) = BufSet(lhost.sndbuf) \cup {z} /\ BufOnce(q)
    BY <1>1, <1>2, <1>4, <1>8, <2>1, BufGrows
  <2>3. QED
    BY <1>13, <2>2
<1>15. /\ RingSet(rin') = R /\ BufSet(lhost'.rcvbuf) = Q /\ Cut' = C /\ Echo' = S
       /\ BufSet(lhost'.sndbuf) = N /\ RingSet(rout') = O /\ EchoSet(remote') = H /\ Emitted' = n
  BY <1>5, <1>7, <1>10, <1>11, <1>13, <1>14 DEF Emitted
<1>16. /\ R \cap Q = {} /\ R \cap C = {} /\ Q \cap C = {} /\ N \cap O = {} /\ N \cap H = {}
       /\ O \cap H = {}
  BY ONLY <1>1, <1>11, <1>12, <1>13 DEF Done
<1>17. Progress(R \cup Q \cup C, S, N \cup O \cup H, n)
  <2>1. R \cup Q \cup C = A /\ N \cup O \cup H = D \cup {z}
    BY ONLY <1>10, <1>11, <1>13 DEF ToCut, Done
  <2>2. QED
    BY <1>12, <1>13, <2>1
<1>18. /\ BufOnce(lhost'.rcvbuf) /\ BufOnce(lhost'.sndbuf) /\ RingOnce(rout') /\ BufEnds(lhost'.rcvbuf)
       /\ u'.pc = "copy" => EndsRight(u'.ol)
       /\ \A e \in UdpHost : EchoOnce(remote'[e].echoes)
       /\ traffic' = traffic /\ RingOnce(rin') /\ RingBegins(rin')
  BY <1>1, <1>5, <1>6, <1>7, <1>14
<1>19. QED
  BY ONLY <1>15, <1>16, <1>17, <1>18, DatagramsMove

(* nsendto makes no copy of a piece that begins with a zero byte. *)
LEMMA SilentDatagrams ==
  ASSUME StackInv, DatagramInv, nsendto, IsEmpty(u.ol.peer, u.ol.msg, u.ol.off)
  PROVE  DatagramInv'
<1>1. /\ RingOnce(rin) /\ BufOnce(lhost.rcvbuf) /\ BufOnce(lhost.sndbuf) /\ RingOnce(rout)
      /\ \A e \in UdpHost : EchoOnce(remote[e].echoes)
      /\ RingSet(rin) \cap BufSet(lhost.rcvbuf) = {}
      /\ BufSet(lhost.sndbuf) \cap RingSet(rout) = {} /\ BufSet(lhost.sndbuf) \cap EchoSet(remote) = {}
      /\ RingSet(rout) \cap EchoSet(remote) = {}
      /\ RingBegins(rin) /\ BufEnds(lhost.rcvbuf)
      /\ Progress(ToCut, Echo, Done, Emitted)
  BY DatagramFacts
<1>2. /\ u.pc = "send" /\ u' = [pc |-> "try", ol |-> NoOffload] /\ lhost' = lhost
      /\ rin' = rin /\ rout' = rout /\ traffic' = traffic /\ remote' = remote
  BY DEF nsendto, ServerStep, stack
<1>3. u'.pc = "try"
  BY <1>2
<1>4. PICK z : z = <<u.ol.peer, u.ol.msg, u.ol.off>>
  OBVIOUS
<1>5. Cut = {} /\ Echo = {z} /\ Cut' = {} /\ Echo' = {}
  BY <1>2, <1>3, <1>4 DEF Cut, Echo
<1>6. PICK A, D, n : A = ToCut /\ D = Done /\ n = Emitted
  OBVIOUS
<1>7. Progress(A, {}, D, n)
  <2>1. Progress(A, {z}, D, n)
    BY <1>1, <1>5, <1>6
  <2>2. z \in traffic.nul
    BY <1>4 DEF IsEmpty
  <2>3. QED
    BY ONLY <2>1, <2>2, ProgressSilent
<1>8. PICK R, Q, C, S, N, O, H :
        /\ R = RingSet(rin) /\ Q = BufSet(lhost.rcvbuf) /\ C = {} /\ S = {}
        /\ N = BufSet(lhost.sndbuf) /\ O = RingSet(rout) /\ H = EchoSet(remote)
  OBVIOUS
<1>9. /\ RingSet(rin') = R /\ BufSet(lhost'.rcvbuf) = Q /\ Cut' = C /\ Echo' = S
      /\ BufSet(lhost'.sndbuf) = N /\ RingSet(rout') = O /\ EchoSet(remote') = H /\ Emitted' = n
  BY <1>2, <1>5, <1>6, <1>8 DEF Emitted
<1>10. /\ R \cap Q = {} /\ R \cap C = {} /\ Q \cap C = {} /\ N \cap O = {} /\ N \cap H = {}
       /\ O \cap H = {}
  BY ONLY <1>1, <1>8
<1>11. Progress(R \cup Q \cup C, S, N \cup O \cup H, n)
  <2>1. R \cup Q \cup C = A /\ N \cup O \cup H = D
    BY ONLY <1>5, <1>6, <1>8 DEF ToCut, Done
  <2>2. QED
    BY <1>7, <1>8, <2>1
<1>12. /\ BufOnce(lhost'.rcvbuf) /\ BufOnce(lhost'.sndbuf) /\ RingOnce(rout') /\ BufEnds(lhost'.rcvbuf)
       /\ u'.pc = "copy" => EndsRight(u'.ol)
       /\ \A e \in UdpHost : EchoOnce(remote'[e].echoes)
       /\ traffic' = traffic /\ RingOnce(rin') /\ RingBegins(rin')
  BY <1>1, <1>2, <1>3
<1>13. QED
  BY ONLY <1>9, <1>10, <1>11, <1>12, DatagramsMove

(* udp_out puts a fragment into the out ring, or behind the others. *)
LEMMA OutDatagrams ==
  ASSUME StackInv, DatagramInv, udp_out
  PROVE  DatagramInv'
<1>1. /\ RingOnce(rin) /\ BufOnce(lhost.rcvbuf) /\ BufOnce(lhost.sndbuf) /\ RingOnce(rout)
      /\ \A e \in UdpHost : EchoOnce(remote[e].echoes)
      /\ RingSet(rin) \cap BufSet(lhost.rcvbuf) = {} /\ RingSet(rin) \cap Cut = {}
      /\ BufSet(lhost.rcvbuf) \cap Cut = {}
      /\ BufSet(lhost.sndbuf) \cap RingSet(rout) = {} /\ BufSet(lhost.sndbuf) \cap EchoSet(remote) = {}
      /\ RingSet(rout) \cap EchoSet(remote) = {}
      /\ RingBegins(rin) /\ BufEnds(lhost.rcvbuf) /\ (u.pc = "copy" => EndsRight(u.ol))
      /\ Progress(ToCut, Echo, Done, Emitted)
  BY DatagramFacts
<1>2. lhost \in Socket /\ lhost.sndbuf \in Seq(Offload) /\ rout \in Seq(Segment)
  BY UdpFacts
<1>3. PICK x, rest : x = Head(lhost.sndbuf) /\ rest = Tail(lhost.sndbuf)
  OBVIOUS
<1>4. PICK pkt : pkt = Packet("udp", x.peer, x.msg, x.off, 0)
  OBVIOUS
<1>5. /\ lhost.sndbuf # <<>> /\ rin' = rin /\ traffic' = traffic /\ u' = u /\ remote' = remote
      /\ \/ rout' = Append(rout, pkt) /\ lhost' = [lhost EXCEPT !.sndbuf = rest]
         \/ rout' \in {rout, Append(rout, Arp(x.peer))} /\ lhost' = [lhost EXCEPT !.sndbuf = Append(rest, x)]
  BY <1>3, <1>4 DEF udp_out, Same
<1>6. /\ x \in Offload /\ rest \in Seq(Offload)
      /\ pkt.kind = "udp" /\ pkt.peer = x.peer /\ pkt.msg = x.msg /\ pkt.seq = x.off
      /\ Arp(x.peer).kind # "udp"
  <2>1. x \in Offload /\ rest \in Seq(Offload)
    BY <1>2, <1>3, <1>5
  <2>2. QED
    BY <1>4, <2>1 DEF Packet, Arp
<1>7. PICK w : w = <<x.peer, x.msg, x.off>>
  OBVIOUS
<1>8. BufOnce(rest) /\ w \in BufSet(lhost.sndbuf) /\ BufSet(rest) = BufSet(lhost.sndbuf) \ {w}
  BY <1>1, <1>2, <1>3, <1>5, <1>7, BufShrinks
<1>9. PICK R, Q, C, S, H, n :
        /\ R = RingSet(rin) /\ Q = BufSet(lhost.rcvbuf) /\ C = Cut /\ S = Echo
        /\ H = EchoSet(remote) /\ n = Emitted
  OBVIOUS
<1>10. /\ RingSet(rin') = R /\ Cut' = C /\ Echo' = S /\ EchoSet(remote') = H /\ Emitted' = n
       /\ R \cap Q = {} /\ R \cap C = {} /\ Q \cap C = {}
       /\ u'.pc = "copy" => EndsRight(u'.ol)
       /\ \A e \in UdpHost : EchoOnce(remote'[e].echoes)
       /\ traffic' = traffic /\ RingOnce(rin') /\ RingBegins(rin')
  BY <1>1, <1>5, <1>9 DEF Cut, Echo, Emitted
<1>11. ASSUME NEW N, NEW O, BufSet(lhost'.sndbuf) = N, RingSet(rout') = O,
              BufOnce(lhost'.sndbuf), RingOnce(rout'), lhost'.rcvbuf = lhost.rcvbuf,
              N \cap O = {}, N \cap H = {}, O \cap H = {},
              N \cup O = BufSet(lhost.sndbuf) \cup RingSet(rout)
       PROVE  DatagramInv'
  <2>1. BufSet(lhost'.rcvbuf) = Q /\ BufOnce(lhost'.rcvbuf) /\ BufEnds(lhost'.rcvbuf)
    BY <1>1, <1>9, <1>11
  <2>2. Progress(R \cup Q \cup C, S, N \cup O \cup H, n)
    <3>1. R \cup Q \cup C = ToCut /\ N \cup O \cup H = Done
      BY ONLY <1>9, <1>11 DEF ToCut, Done
    <3>2. QED
      BY <1>1, <1>9, <3>1
  <2>3. QED
    BY ONLY <1>10, <1>11, <2>1, <2>2, DatagramsMove
<1>12. CASE rout' = Append(rout, pkt) /\ lhost' = [lhost EXCEPT !.sndbuf = rest]
  <2>1. lhost'.sndbuf = rest /\ lhost'.rcvbuf = lhost.rcvbuf
    BY <1>2, <1>12 DEF Socket
  <2>2. RingSet(rout') = RingSet(rout) \cup {w} /\ RingOnce(rout')
    <3>1. w = <<pkt.peer, pkt.msg, pkt.seq>> /\ w \notin RingSet(rout)
      BY <1>1, <1>6, <1>7, <1>8
    <3>2. QED
      BY <1>1, <1>2, <1>6, <1>12, <3>1, RingGrows
  <2>3. PICK N, O : N = BufSet(lhost.sndbuf) \ {w} /\ O = RingSet(rout) \cup {w}
    OBVIOUS
  <2>4. /\ N \cap O = {} /\ N \cap H = {} /\ O \cap H = {}
        /\ N \cup O = BufSet(lhost.sndbuf) \cup RingSet(rout)
    BY ONLY <1>1, <1>8, <1>9, <2>3
  <2>5. BufSet(lhost'.sndbuf) = N /\ RingSet(rout') = O /\ BufOnce(lhost'.sndbuf) /\ RingOnce(rout')
    BY <1>8, <2>1, <2>2, <2>3
  <2>6. QED
    BY <1>11, <2>1, <2>4, <2>5
<1>13. CASE /\ rout' \in {rout, Append(rout, Arp(x.peer))}
            /\ lhost' = [lhost EXCEPT !.sndbuf = Append(rest, x)]
  <2>1. PICK q : q = Append(rest, x)
    OBVIOUS
  <2>2. lhost'.sndbuf = q /\ lhost'.rcvbuf = lhost.rcvbuf
    BY <1>2, <1>13, <2>1 DEF Socket
  <2>3. BufSet(q) = BufSet(lhost.sndbuf) /\ BufOnce(q)
    <3>1. w \notin BufSet(rest)
      BY <1>8
    <3>2. BufSet(q) = BufSet(rest) \cup {w} /\ BufOnce(q)
      BY <1>6, <1>7, <1>8, <2>1, <3>1, BufGrows
    <3>3. QED
      BY ONLY <1>8, <3>2
  <2>4. RingSet(rout') = RingSet(rout) /\ RingOnce(rout')
    <3>1. Still(rout, rout')
      BY <1>6, <1>13 DEF Still
    <3>2. QED
      BY <1>1, <1>2, <3>1, StillSame
  <2>5. PICK N, O : N = BufSet(lhost.sndbuf) /\ O = RingSet(rout)
    OBVIOUS
  <2>6. /\ N \cap O = {} /\ N \cap H = {} /\ O \cap H = {}
        /\ N \cup O = BufSet(lhost.sndbuf) \cup RingSet(rout)
    BY ONLY <1>1, <1>9, <2>5
  <2>7. BufSet(lhost'.sndbuf) = N /\ RingSet(rout') = O /\ BufOnce(lhost'.sndbuf) /\ RingOnce(rout')
    BY <2>2, <2>3, <2>4, <2>5
  <2>8. QED
    BY <1>11, <2>2, <2>6, <2>7
<1>14. QED
  BY <1>5, <1>12, <1>13

(* An echo reaches its host. *)
LEMMA TransmitDatagrams ==
  ASSUME StackInv, DatagramInv, TransmitUdp, Head(rout).kind = "udp"
  PROVE  DatagramInv'
<1>1. /\ RingOnce(rin) /\ BufOnce(lhost.rcvbuf) /\ BufOnce(lhost.sndbuf) /\ RingOnce(rout)
      /\ \A e \in UdpHost : EchoOnce(remote[e].echoes)
      /\ RingSet(rin) \cap BufSet(lhost.rcvbuf) = {} /\ RingSet(rin) \cap Cut = {}
      /\ BufSet(lhost.rcvbuf) \cap Cut = {}
      /\ BufSet(lhost.sndbuf) \cap RingSet(rout) = {} /\ BufSet(lhost.sndbuf) \cap EchoSet(remote) = {}
      /\ RingSet(rout) \cap EchoSet(remote) = {}
      /\ RingBegins(rin) /\ BufEnds(lhost.rcvbuf) /\ (u.pc = "copy" => EndsRight(u.ol))
      /\ Progress(ToCut, Echo, Done, Emitted)
  BY DatagramFacts
<1>2. rout \in Seq(Segment) /\ remote \in [UdpHost -> RemoteEnd]
  BY UdpFacts DEF HostInv
<1>3. PICK pkt : pkt = Head(rout)
  OBVIOUS
<1>4. PICK r : r = [remote[pkt.peer] EXCEPT
                      !.echoes = Append(remote[pkt.peer].echoes, <<pkt.msg, pkt.seq>>)]
  OBVIOUS
<1>5. /\ rout # <<>> /\ rout' = Tail(rout) /\ remote' = [remote EXCEPT ![pkt.peer] = r]
      /\ rin' = rin /\ traffic' = traffic /\ lhost' = lhost /\ u' = u
  BY <1>3, <1>4 DEF TransmitUdp
<1>6. PICK w : w = <<pkt.peer, pkt.msg, pkt.seq>>
  OBVIOUS
<1>7. RingOnce(rout') /\ w \in RingSet(rout) /\ RingSet(rout') = RingSet(rout) \ {w}
  BY <1>1, <1>2, <1>3, <1>5, <1>6, RingShrinks
<1>8. pkt.peer \in UdpHost /\ pkt.msg \in Nat /\ pkt.seq \in Nat
  <2>1. PICK A, S, D, n : A = ToCut /\ S = Echo /\ D = Done /\ n = Emitted
    OBVIOUS
  <2>2. Progress(A, S, D, n) /\ w \in A \cup S \cup D
    BY <1>1, <1>7, <2>1 DEF Done
  <2>3. w[1] \in UdpHost /\ w[2] \in Nat /\ w[3] \in Nat
    BY ONLY <2>2, ProgressFacts
  <2>4. QED
    BY <1>6, <2>3
<1>9. PICK c, d, o : c = pkt.peer /\ d = pkt.msg /\ o = pkt.seq
  OBVIOUS
<1>10. /\ remote[c] \in RemoteEnd /\ remote[c].echoes \in Seq(Nat \X Nat)
       /\ remote'[c].echoes = Append(remote[c].echoes, <<d, o>>) /\ remote'[c].n = remote[c].n
       /\ \A e \in UdpHost : e # c => remote'[e] = remote[e]
  <2>1. remote[c] \in RemoteEnd /\ remote'[c] = r
    BY <1>2, <1>5, <1>8, <1>9
  <2>2. remote[c].echoes \in Seq(Nat \X Nat)
    BY <2>1 DEF RemoteEnd
  <2>3. PICK s : s = Append(remote[c].echoes, <<d, o>>)
    OBVIOUS
  <2>4. r = [remote[c] EXCEPT !.echoes = s]
    BY <1>4, <1>9, <2>3
  <2>5. r.echoes = s /\ r.n = remote[c].n
    BY <2>1, <2>4 DEF RemoteEnd
  <2>6. \A e \in UdpHost : e # c => remote'[e] = remote[e]
    BY <1>2, <1>5, <1>9
  <2>7. QED
    BY <2>1, <2>2, <2>3, <2>5, <2>6
<1>11. EchoSet(remote') = EchoSet(remote) \cup {w} /\ EchoOnce(remote'[c].echoes)
  <2>1. PICK ends, new : ends = remote /\ new = remote'
    OBVIOUS
  <2>2. w = <<c, d, o>> /\ w \notin EchoSet(ends) /\ c \in UdpHost /\ d \in Nat /\ o \in Nat
    BY <1>1, <1>6, <1>7, <1>8, <1>9, <2>1
  <2>3. w[1] = c /\ w[2] = d /\ w[3] = o /\ w \in UdpHost \X Nat \X Nat
    BY <2>2
  <2>4. EchoAdded(ends, new, w) /\ EchoOnce(ends[w[1]].echoes)
    BY <1>1, <1>10, <2>1, <2>2, <2>3 DEF EchoAdded
  <2>5. EchoSet(new) = EchoSet(ends) \cup {w} /\ EchoOnce(new[w[1]].echoes)
    BY ONLY <2>2, <2>3, <2>4, EchoGrows
  <2>6. QED
    BY <2>1, <2>3, <2>5
<1>12. (\A e \in UdpHost : EchoOnce(remote'[e].echoes)) /\ Emitted' = Emitted
  <2>1. \A e \in UdpHost : EchoOnce(remote'[e].echoes)
    BY <1>1, <1>10, <1>11
  <2>2. \A e \in UdpHost : remote'[e].n = remote[e].n
    BY <1>10
  <2>3. QED
    BY <2>1, <2>2 DEF Emitted
<1>13. PICK R, Q, C, S, N, O, H, n :
         /\ R = RingSet(rin) /\ Q = BufSet(lhost.rcvbuf) /\ C = Cut /\ S = Echo
         /\ N = BufSet(lhost.sndbuf) /\ O = RingSet(rout) \ {w} /\ H = EchoSet(remote) \cup {w}
         /\ n = Emitted
  OBVIOUS
<1>14. /\ RingSet(rin') = R /\ BufSet(lhost'.rcvbuf) = Q /\ Cut' = C /\ Echo' = S
       /\ BufSet(lhost'.sndbuf) = N /\ RingSet(rout') = O /\ EchoSet(remote') = H /\ Emitted' = n
  BY <1>5, <1>7, <1>11, <1>12, <1>13 DEF Cut, Echo
<1>15. /\ R \cap Q = {} /\ R \cap C = {} /\ Q \cap C = {} /\ N \cap O = {} /\ N \cap H = {}
       /\ O \cap H = {}
  BY ONLY <1>1, <1>7, <1>13
<1>16. Progress(R \cup Q \cup C, S, N \cup O \cup H, n)
  <2>1. R \cup Q \cup C = ToCut /\ N \cup O \cup H = Done
    BY ONLY <1>7, <1>13 DEF ToCut, Done
  <2>2. QED
    BY <1>1, <1>13, <2>1
<1>17. /\ BufOnce(lhost'.rcvbuf) /\ BufOnce(lhost'.sndbuf) /\ RingOnce(rout') /\ BufEnds(lhost'.rcvbuf)
       /\ u'.pc = "copy" => EndsRight(u'.ol)
       /\ \A e \in UdpHost : EchoOnce(remote'[e].echoes)
       /\ traffic' = traffic /\ RingOnce(rin') /\ RingBegins(rin')
  BY <1>1, <1>5, <1>7, <1>12
<1>18. QED
  BY ONLY <1>14, <1>15, <1>16, <1>17, DatagramsMove

(* Every step of the stack keeps the pieces in order. *)
LEMMA DatagramStep ==
  ASSUME StackInv, DatagramInv, FormInv, StackNext
  PROVE  DatagramInv'
<1>1. CASE Next /\ UNCHANGED udp
  BY <1>1, TcpDatagrams
<1>2. CASE Hosts
  <2>1. PICK c \in UdpHost : SendDatagram(c) \/ Ping(c) \/ AskAddress(c)
    BY <1>2 DEF Hosts
  <2>2. CASE SendDatagram(c)
    BY <2>2, SendDatagrams
  <2>3. CASE Ping(c) \/ AskAddress(c)
    BY <2>3, OtherDatagrams
  <2>4. QED
    BY <2>1, <2>2, <2>3
<1>3. CASE TransmitUdp
  <2>1. CASE Head(rout).kind = "udp"
    BY <1>3, <2>1, TransmitDatagrams
  <2>2. CASE Head(rout).kind # "udp"
    BY <1>3, <2>2, OtherDatagrams
  <2>3. QED
    BY <2>1, <2>2
<1>4. CASE arp_request_timer_cb \/ arp_request \/ ng_send_icmp \/ SignalUdp
           \/ CondWait \/ SpuriousUdp
  BY <1>4, OtherDatagrams
<1>5. CASE udp_process
  BY <1>5, ProcessDatagrams
<1>6. CASE udp_out
  BY <1>6, OutDatagrams
<1>7. CASE Dequeue
  <2>1. CASE lhost.rcvbuf = <<>>
    BY <1>7, <2>1, OtherDatagrams
  <2>2. CASE lhost.rcvbuf # <<>>
    BY <1>7, <2>2, DequeueDatagrams
  <2>3. QED
    BY <2>1, <2>2
<1>8. CASE nrecvfrom
  BY <1>8, CutDatagrams
<1>9. CASE nsendto
  BY <1>9, EchoDatagrams, SilentDatagrams
<1>10. QED
  BY <1>1, <1>2, <1>3, <1>4, <1>5, <1>6, <1>7, <1>8, <1>9
     DEF StackNext, PacketsUdp, udp_server_entry

(* In the first states there are no pieces. *)
LEMMA DatagramInit ==
  ASSUME StackInit
  PROVE  DatagramInv /\ FormInv /\ remote \in [UdpHost -> RemoteEnd]
<1>1. /\ rin = <<>> /\ rout = <<>> /\ lhost = [rcvbuf |-> <<>>, sndbuf |-> <<>>]
      /\ u = [pc |-> "try", ol |-> NoOffload]
      /\ remote = [c \in UdpHost |-> [n |-> 0, echoes |-> <<>>, ping |-> "no", ask |-> "no"]]
  BY DEF StackInit, Init
<1>2. /\ lhost.rcvbuf = <<>> /\ lhost.sndbuf = <<>> /\ u.pc = "try"
      /\ \A c \in UdpHost : remote[c].n = 0 /\ remote[c].echoes = <<>>
  BY <1>1
<1>3. FormInv
  BY <1>1 DEF FormInv
<1>4. remote \in [UdpHost -> RemoteEnd]
  BY <1>1 DEF RemoteEnd, Answer
<1>5. /\ RingSet(<<>>) = {} /\ RingOnce(<<>>) /\ BufSet(<<>>) = {} /\ BufOnce(<<>>) /\ EchoOnce(<<>>)
  BY DEF RingSet, RingOnce, BufSet, BufOnce, EchoOnce
<1>6. EchoSet(remote) = {}
  <2>1. \A z \in UdpHost \X Nat \X Nat : remote[z[1]].echoes = <<>>
    BY <1>2
  <2>2. QED
    BY <2>1 DEF EchoSet
<1>7. Cut = {} /\ Echo = {}
  BY <1>2 DEF Cut, Echo
<1>8. OnceInv
  BY <1>1, <1>2, <1>5, <1>6, <1>7 DEF OnceInv
<1>9. LengthInv
  BY <1>1, <1>2 DEF LengthInv, RingBegins, BufEnds
<1>10. ToCut = {} /\ Done = {}
  BY <1>1, <1>2, <1>5, <1>6, <1>7 DEF ToCut, Done
<1>11. Progress({}, {}, {}, Emitted)
  <2>1. \A c \in UdpHost : Emitted[c] = 0
    BY <1>2 DEF Emitted
  <2>2. QED
    BY ONLY <2>1 DEF Progress
<1>12. QED
  BY <1>3, <1>4, <1>7, <1>8, <1>9, <1>10, <1>11 DEF DatagramInv

(* The places of the pieces of one datagram, against a set of pieces. *)
Holds(X, T, c, d) ==
  /\ \A x \in X : <<c, d, x[3]>> \in T
  /\ \A x, y \in X : x[3] = y[3] => x = y
  /\ \A o : <<c, d, o>> \in T => \E x \in X : x[3] = o

(* Places of different pieces together. *)
LEMMA HoldsUnion ==
  ASSUME NEW X, NEW Y, NEW T, NEW V, NEW c, NEW d, Holds(X, T, c, d), Holds(Y, V, c, d), T \cap V = {}
  PROVE  Holds(X \cup Y, T \cup V, c, d)
<1>1. \A x \in X \cup Y : <<c, d, x[3]>> \in T \cup V
  BY DEF Holds
<1>2. \A x \in X : \A y \in Y : x[3] # y[3]
  <2>1. SUFFICES ASSUME NEW x \in X, NEW y \in Y, x[3] = y[3] PROVE FALSE
    OBVIOUS
  <2>2. <<c, d, x[3]>> \in T /\ <<c, d, y[3]>> \in V
    BY DEF Holds
  <2>3. QED
    BY <2>1, <2>2
<1>3. \A x, y \in X \cup Y : x[3] = y[3] => x = y
  BY <1>2 DEF Holds
<1>4. \A o : <<c, d, o>> \in T \cup V => \E x \in X \cup Y : x[3] = o
  BY DEF Holds
<1>5. QED
  BY <1>1, <1>3, <1>4 DEF Holds

(* The places in a ring. *)
LEMMA HoldsRing ==
  ASSUME NEW place, NEW q, NEW c, NEW d, RingOnce(q)
  PROVE  Holds(Flying(place, q, c, d), RingSet(q), c, d)
<1> DEFINE F == Flying(place, q, c, d)
<1>1. ASSUME NEW x \in F
      PROVE  \E i \in 1 .. Len(q) : /\ x = <<place, i, q[i].seq>> /\ x[3] = q[i].seq
                                    /\ q[i].kind = "udp" /\ q[i].peer = c /\ q[i].msg = d
  BY DEF Flying
<1>2. ASSUME NEW i \in 1 .. Len(q), q[i].kind = "udp", q[i].peer = c, q[i].msg = d
      PROVE  <<place, i, q[i].seq>> \in F
  BY <1>2 DEF Flying
<1> HIDE DEF F
<1>3. \A x \in F : <<c, d, x[3]>> \in RingSet(q)
  BY <1>1 DEF RingSet
<1>4. \A x, y \in F : x[3] = y[3] => x = y
  <2>1. SUFFICES ASSUME NEW x \in F, NEW y \in F, x[3] = y[3] PROVE x = y
    OBVIOUS
  <2>2. PICK i \in 1 .. Len(q) : /\ x = <<place, i, q[i].seq>> /\ x[3] = q[i].seq
                                 /\ q[i].kind = "udp" /\ q[i].peer = c /\ q[i].msg = d
    BY <1>1
  <2>3. PICK j \in 1 .. Len(q) : /\ y = <<place, j, q[j].seq>> /\ y[3] = q[j].seq
                                 /\ q[j].kind = "udp" /\ q[j].peer = c /\ q[j].msg = d
    BY <1>1
  <2>4. i = j
    BY <2>1, <2>2, <2>3 DEF RingOnce
  <2>5. QED
    BY <2>2, <2>3, <2>4
<1>5. \A o : <<c, d, o>> \in RingSet(q) => \E x \in F : x[3] = o
  <2>1. SUFFICES ASSUME NEW o, <<c, d, o>> \in RingSet(q) PROVE \E x \in F : x[3] = o
    OBVIOUS
  <2>2. PICK i \in 1 .. Len(q) : q[i].kind = "udp" /\ <<c, d, o>> = <<q[i].peer, q[i].msg, q[i].seq>>
    BY <2>1 DEF RingSet
  <2>3. q[i].peer = c /\ q[i].msg = d /\ q[i].seq = o
    BY <2>2
  <2>4. <<place, i, q[i].seq>> \in F /\ <<place, i, q[i].seq>>[3] = o
    BY <1>2, <2>2, <2>3
  <2>5. QED
    BY ONLY <2>4
<1>6. QED
  BY ONLY <1>3, <1>4, <1>5 DEF Holds, F

(* The places in rcvbuf or sndbuf. *)
LEMMA HoldsBuf ==
  ASSUME NEW place, NEW q, NEW c, NEW d, BufOnce(q)
  PROVE  Holds(Queued(place, q, c, d), BufSet(q), c, d)
<1> DEFINE F == Queued(place, q, c, d)
<1>1. ASSUME NEW x \in F
      PROVE  \E i \in 1 .. Len(q) : /\ x = <<place, i, q[i].off>> /\ x[3] = q[i].off
                                    /\ q[i].peer = c /\ q[i].msg = d
  BY DEF Queued
<1>2. ASSUME NEW i \in 1 .. Len(q), q[i].peer = c, q[i].msg = d
      PROVE  <<place, i, q[i].off>> \in F
  BY <1>2 DEF Queued
<1> HIDE DEF F
<1>3. \A x \in F : <<c, d, x[3]>> \in BufSet(q)
  BY <1>1 DEF BufSet
<1>4. \A x, y \in F : x[3] = y[3] => x = y
  <2>1. SUFFICES ASSUME NEW x \in F, NEW y \in F, x[3] = y[3] PROVE x = y
    OBVIOUS
  <2>2. PICK i \in 1 .. Len(q) : /\ x = <<place, i, q[i].off>> /\ x[3] = q[i].off
                                 /\ q[i].peer = c /\ q[i].msg = d
    BY <1>1
  <2>3. PICK j \in 1 .. Len(q) : /\ y = <<place, j, q[j].off>> /\ y[3] = q[j].off
                                 /\ q[j].peer = c /\ q[j].msg = d
    BY <1>1
  <2>4. i = j
    BY <2>1, <2>2, <2>3 DEF BufOnce
  <2>5. QED
    BY <2>2, <2>3, <2>4
<1>5. \A o : <<c, d, o>> \in BufSet(q) => \E x \in F : x[3] = o
  <2>1. SUFFICES ASSUME NEW o, <<c, d, o>> \in BufSet(q) PROVE \E x \in F : x[3] = o
    OBVIOUS
  <2>2. PICK i \in 1 .. Len(q) : <<c, d, o>> = <<q[i].peer, q[i].msg, q[i].off>>
    BY <2>1 DEF BufSet
  <2>3. q[i].peer = c /\ q[i].msg = d /\ q[i].off = o
    BY <2>2
  <2>4. <<place, i, q[i].off>> \in F /\ <<place, i, q[i].off>>[3] = o
    BY <1>2, <2>3
  <2>5. QED
    BY ONLY <2>4
<1>6. QED
  BY ONLY <1>3, <1>4, <1>5 DEF Holds, F

(* The places among the echoes a host has received. *)
LEMMA HoldsEcho ==
  ASSUME NEW ends, NEW c \in UdpHost, NEW d \in Nat, NEW q, q = ends[c].echoes,
         q \in Seq(Nat \X Nat), EchoOnce(q)
  PROVE  Holds(Heard(q, d), EchoSet(ends), c, d)
<1> DEFINE F == Heard(q, d)
<1>0. q \in Seq(Nat \X Nat) /\ EchoOnce(q) /\ q = ends[c].echoes /\ c \in UdpHost /\ d \in Nat
  OBVIOUS
<1>1. \A i \in 1 .. Len(q) : q[i] \in Nat \X Nat /\ q[i] = <<q[i][1], q[i][2]>> /\ q[i][2] \in Nat
  BY ONLY <1>0
<1>2. ASSUME NEW x \in F
      PROVE  \E i \in 1 .. Len(q) : x = <<"host", i, q[i][2]>> /\ x[3] = q[i][2] /\ q[i][1] = d
  BY ONLY x \in F DEF Heard
<1>3. ASSUME NEW i \in 1 .. Len(q), q[i][1] = d
      PROVE  <<"host", i, q[i][2]>> \in F
  BY <1>3 DEF Heard
<1>4. \A o : <<c, d, o>> \in EchoSet(ends) <=> o \in Nat /\ \E i \in 1 .. Len(q) : q[i] = <<d, o>>
  <2>1. \A o : <<c, d, o>>[1] = c /\ <<c, d, o>>[2] = d /\ <<c, d, o>>[3] = o
    OBVIOUS
  <2>2. \A o : <<c, d, o>> \in UdpHost \X Nat \X Nat <=> o \in Nat
    BY ONLY <1>0
  <2>3. QED
    BY ONLY <1>0, <2>1, <2>2 DEF EchoSet
<1> HIDE DEF F
<1>5. \A x \in F : <<c, d, x[3]>> \in EchoSet(ends)
  <2>1. SUFFICES ASSUME NEW x \in F PROVE <<c, d, x[3]>> \in EchoSet(ends)
    OBVIOUS
  <2>2. PICK i \in 1 .. Len(q) : x[3] = q[i][2] /\ q[i][1] = d
    BY <1>2
  <2>3. q[i] = <<d, x[3]>> /\ x[3] \in Nat
    BY ONLY <1>1, <2>2
  <2>4. QED
    BY ONLY <1>4, <2>3
<1>6. \A x, y \in F : x[3] = y[3] => x = y
  <2>1. SUFFICES ASSUME NEW x \in F, NEW y \in F, x[3] = y[3] PROVE x = y
    OBVIOUS
  <2>2. PICK i \in 1 .. Len(q) : x = <<"host", i, q[i][2]>> /\ x[3] = q[i][2] /\ q[i][1] = d
    BY <1>2
  <2>3. PICK j \in 1 .. Len(q) : y = <<"host", j, q[j][2]>> /\ y[3] = q[j][2] /\ q[j][1] = d
    BY <1>2
  <2>4. q[i] = q[j]
    BY ONLY <1>1, <2>1, <2>2, <2>3
  <2>5. i = j
    BY ONLY <1>0, <2>4 DEF EchoOnce
  <2>6. QED
    BY <2>2, <2>3, <2>5
<1>7. \A o : <<c, d, o>> \in EchoSet(ends) => \E x \in F : x[3] = o
  <2>1. SUFFICES ASSUME NEW o, <<c, d, o>> \in EchoSet(ends) PROVE \E x \in F : x[3] = o
    OBVIOUS
  <2>2. PICK i \in 1 .. Len(q) : q[i] = <<d, o>>
    BY ONLY <1>4, <2>1
  <2>3. q[i][1] = d /\ q[i][2] = o
    BY ONLY <2>2
  <2>4. <<"host", i, q[i][2]>> \in F /\ <<"host", i, q[i][2]>>[3] = o
    BY <1>3, <2>3
  <2>5. QED
    BY ONLY <2>4
<1>8. QED
  BY ONLY <1>5, <1>6, <1>7 DEF Holds, F

(* The place in the server's hands. *)
LEMMA HoldsServer ==
  ASSUME NEW c, NEW d
  PROVE  Holds(IF u.pc \in {"copy", "send"} THEN Queued("server", <<u.ol>>, c, d) ELSE {},
               Cut \cup Echo, c, d)
<1>1. CASE u.pc \in {"copy", "send"}
  <2>1. PICK q : q = <<u.ol>>
    OBVIOUS
  <2>2. BufOnce(q) /\ BufSet(q) = Cut \cup Echo
    <3>1. Len(q) = 1 /\ q[1] = u.ol
      BY <2>1
    <3>2. \A i : i \in 1 .. Len(q) <=> i = 1
      BY ONLY <3>1
    <3>3. BufOnce(q)
      BY ONLY <3>2 DEF BufOnce
    <3>4. BufSet(q) = {<<u.ol.peer, u.ol.msg, u.ol.off>>}
      BY ONLY <3>1, <3>2 DEF BufSet
    <3>5. Cut \cup Echo = {<<u.ol.peer, u.ol.msg, u.ol.off>>}
      BY <1>1 DEF Cut, Echo
    <3>6. QED
      BY <3>3, <3>4, <3>5
  <2>3. Holds(Queued("server", q, c, d), BufSet(q), c, d)
    BY <2>2, HoldsBuf
  <2>4. QED
    BY <1>1, <2>1, <2>2, <2>3
<1>2. CASE u.pc \notin {"copy", "send"}
  <2>1. Cut \cup Echo = {}
    BY <1>2 DEF Cut, Echo
  <2>2. Holds({}, {}, c, d)
    BY DEF Holds
  <2>3. QED
    BY <1>2, <2>1, <2>2
<1>3. QED
  BY <1>1, <1>2

(* What the pieces are says where they are. *)
LEMMA DatagramsOnce ==
  ASSUME DatagramInv, remote \in [UdpHost -> RemoteEnd]
  PROVE  DatagramsAnsweredOnce
<1>1. SUFFICES ASSUME NEW c \in UdpHost, NEW d \in 1 .. remote[c].n, NEW rest, NEW done,
                      rest = Unanswered(c, d), done = Echoed(c, d)
               PROVE  /\ \A x, y \in done \cup rest : x[3] = y[3] => x = y
                      /\ {x[3] : x \in done} =
                           {o \in Pieces(c, d) : ~IsEmpty(c, d, o) /\ \A x \in rest : o < x[3]}
  BY DEF DatagramsAnsweredOnce
<1>2. /\ RingOnce(rin) /\ BufOnce(lhost.rcvbuf) /\ BufOnce(lhost.sndbuf) /\ RingOnce(rout)
      /\ EchoOnce(remote[c].echoes)
      /\ RingSet(rin) \cap BufSet(lhost.rcvbuf) = {} /\ RingSet(rin) \cap Cut = {}
      /\ BufSet(lhost.rcvbuf) \cap Cut = {}
      /\ BufSet(lhost.sndbuf) \cap RingSet(rout) = {} /\ BufSet(lhost.sndbuf) \cap EchoSet(remote) = {}
      /\ RingSet(rout) \cap EchoSet(remote) = {}
      /\ Progress(ToCut, Echo, Done, Emitted)
  BY <1>1, DatagramFacts
<1>3. PICK A, S, D, n : A = ToCut /\ S = Echo /\ D = Done /\ n = Emitted
  OBVIOUS
<1>4. Progress(A, S, D, n)
  BY <1>2, <1>3
<1>5. /\ \A x \in A \cup S \cup D :
           x[3] \in Nat /\ x = <<x[1], x[2], x[3]>> /\ x[3] \in Pieces(x[1], x[2])
      /\ \A x \in A : \A y \in S \cup D : x[1] = y[1] /\ x[2] = y[2] => y[3] < x[3]
      /\ \A x \in S : \A y \in D : x[1] = y[1] /\ x[2] = y[2] => y[3] < x[3]
      /\ \A k \in 1 .. n[c] : \A o \in Pieces(c, k) :
           \/ <<c, k, o>> \in A \cup S \cup D
           \/ \E x \in A : x[1] = c /\ x[2] = k /\ x[3] < o
           \/ <<c, k, o>> \in traffic.nul
      /\ \A y \in D : y \notin traffic.nul
  BY <1>1, <1>4, ProgressFacts
<1>6. A \cap S = {} /\ (A \cup S) \cap D = {}
  <2>1. \A x \in A \cup S \cup D : ~(x[3] < x[3])
    BY <1>5
  <2>2. QED
    BY ONLY <1>5, <2>1
<1>7. PICK srv : srv = IF u.pc \in {"copy", "send"} THEN Queued("server", <<u.ol>>, c, d) ELSE {}
  OBVIOUS
<1>8. Holds(rest, A \cup S, c, d)
  <2>1. PICK I, B, T, V, W : /\ I = Flying("in", rin, c, d) /\ B = Queued("rcvbuf", lhost.rcvbuf, c, d)
                             /\ T = RingSet(rin) /\ V = BufSet(lhost.rcvbuf) /\ W = Cut \cup S
    OBVIOUS
  <2>2. Holds(I, T, c, d)
    BY <1>2, <2>1, HoldsRing
  <2>3. Holds(B, V, c, d)
    BY <1>2, <2>1, HoldsBuf
  <2>4. Holds(srv, W, c, d)
    BY <1>3, <1>7, <2>1, HoldsServer
  <2>5. T \cap V = {} /\ (T \cup V) \cap W = {} /\ A \cup S = T \cup V \cup W
    BY ONLY <1>2, <1>3, <1>6, <2>1 DEF ToCut
  <2>6. Holds(I \cup B, T \cup V, c, d)
    BY ONLY <2>2, <2>3, <2>5, HoldsUnion
  <2>7. Holds((I \cup B) \cup srv, (T \cup V) \cup W, c, d)
    BY ONLY <2>4, <2>5, <2>6, HoldsUnion
  <2>8. rest = (I \cup B) \cup srv
    BY <1>1, <1>7, <2>1 DEF Unanswered
  <2>9. QED
    BY ONLY <2>5, <2>7, <2>8
<1>9. d \in Nat /\ n[c] = remote[c].n /\ remote[c].echoes \in Seq(Nat \X Nat)
  <2>1. remote[c] \in RemoteEnd
    BY <1>1
  <2>2. remote[c].n \in Nat /\ remote[c].echoes \in Seq(Nat \X Nat)
    BY <2>1 DEF RemoteEnd
  <2>3. QED
    BY <1>1, <1>3, <2>2 DEF Emitted
<1>10. Holds(done, D, c, d)
  <2>1. PICK I, B, E, T, V, W, q, ends :
          /\ q = remote[c].echoes /\ ends = remote
          /\ I = Flying("out", rout, c, d) /\ B = Queued("sndbuf", lhost.sndbuf, c, d)
          /\ E = Heard(q, d)
          /\ T = RingSet(rout) /\ V = BufSet(lhost.sndbuf) /\ W = EchoSet(ends)
    OBVIOUS
  <2>2. Holds(I, T, c, d)
    BY <1>2, <2>1, HoldsRing
  <2>3. Holds(B, V, c, d)
    BY <1>2, <2>1, HoldsBuf
  <2>4. Holds(E, W, c, d)
    <3>1. q = ends[c].echoes /\ q \in Seq(Nat \X Nat) /\ EchoOnce(q) /\ c \in UdpHost /\ d \in Nat
      BY <1>1, <1>2, <1>9, <2>1
    <3>2. Holds(Heard(q, d), EchoSet(ends), c, d)
      BY ONLY <3>1, HoldsEcho
    <3>3. QED
      BY <2>1, <3>2
  <2>5. V \cap T = {} /\ (V \cup T) \cap W = {} /\ D = V \cup T \cup W
    BY ONLY <1>2, <1>3, <2>1 DEF Done
  <2>6. Holds(B \cup I, V \cup T, c, d)
    BY ONLY <2>2, <2>3, <2>5, HoldsUnion
  <2>7. Holds((B \cup I) \cup E, (V \cup T) \cup W, c, d)
    BY ONLY <2>4, <2>5, <2>6, HoldsUnion
  <2>8. done = (B \cup I) \cup E
    BY <1>1, <2>1 DEF Echoed
  <2>9. QED
    BY ONLY <2>5, <2>7, <2>8
<1>11. \A x, y \in done \cup rest : x[3] = y[3] => x = y
  <2>1. D \cap (A \cup S) = {}
    BY ONLY <1>6
  <2>2. Holds(done \cup rest, D \cup (A \cup S), c, d)
    BY ONLY <1>8, <1>10, <2>1, HoldsUnion
  <2>3. QED
    BY ONLY <2>2 DEF Holds
<1>12. \A x \in rest : \A y \in done : y[3] < x[3]
  <2>1. SUFFICES ASSUME NEW x \in rest, NEW y \in done PROVE y[3] < x[3]
    OBVIOUS
  <2>2. PICK a, b : a = <<c, d, x[3]>> /\ b = <<c, d, y[3]>>
    OBVIOUS
  <2>3. a \in A \cup S /\ b \in D
    BY ONLY <1>8, <1>10, <2>2, x \in rest, y \in done DEF Holds
  <2>4. a[1] = b[1] /\ a[2] = b[2] /\ a[3] = x[3] /\ b[3] = y[3]
    BY ONLY <2>2
  <2>5. b[3] < a[3]
    BY ONLY <1>5, <2>3, <2>4
  <2>6. QED
    BY <2>4, <2>5
<1>13. ASSUME NEW x \in done
       PROVE  x[3] \in Pieces(c, d) /\ ~IsEmpty(c, d, x[3])
  <2>1. PICK a : a = <<c, d, x[3]>>
    OBVIOUS
  <2>2. a \in D
    BY ONLY <1>10, <2>1, x \in done DEF Holds
  <2>3. a[3] \in Pieces(a[1], a[2]) /\ a[1] = c /\ a[2] = d /\ a[3] = x[3] /\ a \notin traffic.nul
    BY <1>5, <2>1, <2>2
  <2>4. QED
    BY <2>1, <2>3 DEF IsEmpty
<1>14. ASSUME NEW o \in Pieces(c, d), ~IsEmpty(c, d, o), \A x \in rest : o < x[3]
       PROVE  \E x \in done : o = x[3]
  <2>1. d \in 1 .. n[c] /\ o \in Int
    BY <1>1, <1>9 DEF Pieces
  <2>2. \/ <<c, d, o>> \in A \cup S \cup D
        \/ \E x \in A : x[1] = c /\ x[2] = d /\ x[3] < o
    BY <1>5, <1>14, <2>1 DEF IsEmpty
  <2>3. CASE <<c, d, o>> \in D
    BY ONLY <1>10, <2>3 DEF Holds
  <2>4. CASE <<c, d, o>> \in A \cup S
    <3>1. PICK x \in rest : x[3] = o
      BY ONLY <1>8, <2>4 DEF Holds
    <3>2. QED
      BY <1>14, <2>1, <3>1
  <2>5. CASE \E x \in A : x[1] = c /\ x[2] = d /\ x[3] < o
    <3>1. PICK a \in A : a[1] = c /\ a[2] = d /\ a[3] < o
      BY <2>5
    <3>2. a[3] \in Nat /\ a = <<c, d, a[3]>>
      BY <1>5, <3>1
    <3>3. PICK x \in rest : x[3] = a[3]
      BY ONLY <1>8, <3>1, <3>2 DEF Holds
    <3>4. o < x[3]
      BY <1>14, <3>3
    <3>5. QED
      BY ONLY <2>1, <3>1, <3>2, <3>3, <3>4
  <2>6. QED
    BY <2>2, <2>3, <2>4, <2>5
<1>15. {x[3] : x \in done} =
         {o \in Pieces(c, d) : ~IsEmpty(c, d, o) /\ \A x \in rest : o < x[3]}
  BY ONLY <1>12, <1>13, <1>14
<1>16. QED
  BY ONLY <1>11, <1>15

(* The pieces are where they should be whether the process lives or not. *)
EchoInv == IInv /\ DatagramInv /\ FormInv /\ remote \in [UdpHost -> RemoteEnd]

(* Every step keeps that, too. *)
LEMMA EchoInvStep ==
  ASSUME EchoInv, [StackNext]_all
  PROVE  EchoInv'
<1>1. IInv /\ DatagramInv /\ FormInv /\ remote \in [UdpHost -> RemoteEnd]
  BY DEF EchoInv
<1>2. IInv' /\ FormInv'
  BY <1>1, IInvStep, FormStep
<1>3. CASE UNCHANGED all
  <2>1. /\ rin' = rin /\ rout' = rout /\ traffic' = traffic /\ lhost' = lhost /\ u' = u
        /\ remote' = remote
    BY <1>3 DEF all, vars, udp
  <2>2. OnceInv'
    BY ONLY <1>1, <2>1 DEF DatagramInv, OnceInv, Cut
  <2>3. LengthInv'
    BY ONLY <1>1, <2>1 DEF DatagramInv, LengthInv, RingBegins, BufEnds, EndsRight, Length
  <2>4. Progress(ToCut, Echo, Done, Emitted)'
    <3>1. PICK A, S, D, n : A = ToCut /\ S = Echo /\ D = Done /\ n = Emitted
      OBVIOUS
    <3>2. ToCut' = A /\ Echo' = S /\ Done' = D /\ Emitted' = n
      BY ONLY <2>1, <3>1 DEF ToCut, Cut, Echo, Done, Emitted
    <3>3. Progress(A, S, D, n)
      BY <1>1, <3>1 DEF DatagramInv
    <3>4. QED
      BY ONLY <2>1, <3>2, <3>3, ProgressKept
  <2>5. QED
    BY <1>1, <1>2, <2>1, <2>2, <2>3, <2>4 DEF EchoInv, DatagramInv
<1>4. CASE StackNext
  <2>1. StackInv
    BY <1>1, <1>4, NeedsAlive DEF IInv
  <2>2. DatagramInv'
    BY <1>1, <1>4, <2>1, DatagramStep
  <2>3. remote' \in [UdpHost -> RemoteEnd]
    <3>1. StackInv' \/ UNCHANGED udp
      BY <1>4, <2>1, StackStep
    <3>2. QED
      BY <1>1, <3>1 DEF StackInv, HostInv, udp
  <2>4. QED
    BY <1>2, <2>2, <2>3 DEF EchoInv
<1>5. QED
  BY <1>3, <1>4

(* A datagram is echoed to its sender in pieces of the buffer's size, each  *)
(* of them once, but for those that begin with a zero byte, which nsendto   *)
(* makes no copy of; although pieces and datagrams overtake each other in   *)
(* rcvbuf, where nrecvfrom puts the rest of a long one at the tail, and     *)
(* echoes overtake each other in sndbuf, where udp_out does the same while  *)
(* it waits for an address.                                                 *)
THEOREM StackEchoesOnce ==
  StackSpec => []DatagramsAnsweredOnce
<1>1. StackInit => EchoInv
  BY StackInitInv, DatagramInit DEF IInv, EchoInv
<1>2. EchoInv /\ [StackNext]_all => EchoInv'
  BY EchoInvStep
<1>3. EchoInv => DatagramsAnsweredOnce
  BY DatagramsOnce DEF EchoInv
<1>4. QED
  BY <1>1, <1>2, <1>3, PTL DEF StackSpec
==============================================================================
