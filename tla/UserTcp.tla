------------------------------- MODULE UserTcp -------------------------------
(***************************************************************************)
(* The TCP half of the user-space stack (02/2.4_dpdk/ustack/tcp.c) with    *)
(* its echo server.  Two threads work on the same streams: pkt_process     *)
(* takes segments from the in ring, runs the state machine and sends what  *)
(* is queued; tcp_server_entry calls naccept, nrecv, nsend and nclose.     *)
(* Only the condition variables are used under a mutex, so the steps of a  *)
(* handler that the other thread can observe are steps of the model.       *)
(*                                                                         *)
(* The main thread's polling and the wire are one with the peers: what a   *)
(* peer sends enters the in ring, what leaves the out ring reaches the     *)
(* peer, in order and without loss.  A peer is a TCP client that sets PSH  *)
(* on the segments its script says (a write of several segments has it on  *)
(* the last one only) and retransmits nothing, although data without PSH   *)
(* is not acknowledged.  Bytes are counted, not stored: a message is the   *)
(* data of a segment with PSH, a number and a length.  Sequence numbers    *)
(* start at 0 and do not wrap within the bounds.                           *)
(***************************************************************************)
EXTENDS Integers, Sequences, FiniteSets, SequencesExt

CONSTANTS
  Host,         \* the hosts on the network
  Client,       \* the TCP clients among them, each with one connection
  Deaf,         \* hosts that do not answer ARP requests
  Workload,     \* bound: which clients connect, and what each of them sends
  BUFFER_SIZE,  \* bytes one nrecv of the echo server asks for
  Listener,     \* the stream of the listening socket
  NULL          \* no stream

ASSUME ConstantAssumption ==
  /\ Client \subseteq Host /\ Deaf \subseteq Host \ Client
  /\ \A w \in Workload :
       /\ DOMAIN w \subseteq Client
       /\ \A c \in DOMAIN w :
            /\ w[c] \in Seq([len : Nat, fin : BOOLEAN, psh : BOOLEAN])
            /\ \A i \in 1 .. Len(w[c]) :
                 /\ w[c][i].len > 0 \/ w[c][i].fin
                 /\ w[c][i].psh => w[c][i].len > 0
                 /\ w[c][i].fin => i = Len(w[c])
  /\ BUFFER_SIZE \in Nat \ {0}
  /\ Listener \notin Host /\ NULL \notin Host \cup {Listener}

VARIABLES
  alive,     \* the process has not died
  rin, rout, \* ring->in and ring->out
  arp,       \* the hosts whose address is in the ARP table
  tcb_set,   \* the list of streams, newest first
  tcb,       \* the stream made for each client
  fd_table,  \* descriptors in use
  p,         \* pkt_process: where it is and the segment in its hands
  t,         \* tcp_server_entry: where it is and its local variables
  script,    \* the workload of this behaviour
  peer,      \* each client's end of the connection
  reads,     \* what nrecv returned for each client: message and offset
  missed     \* naccept once failed to find the listening socket

world == <<script, peer>>
ghosts == <<reads, missed>>
stack == <<rin, rout, arp, tcb_set, tcb, fd_table, p>>
vars == <<alive, rin, rout, arp, tcb_set, tcb, fd_table, p, t, script, peer, reads, missed>>

MAX_FD == 6
listenfd == 4
ISS == 0

Flag == {"SYN", "ACK", "PSH", "FIN"}
Status == {"none", "SYN_RCVD", "ESTABLISHED", "CLOSE_WAIT", "LAST_ACK", "freed"}

Kind == {"tcp", "arp", "arp_request", "udp", "icmp"}

(* Besides its own fields a segment carries, for the properties only, the   *)
(* number of its message and how much of what the client sent before it the *)
(* handlers count.                                                          *)
Segment == [kind : Kind, peer : Host, flags : SUBSET Flag,
            seq : Nat, ack : Nat, len : Nat, msg : Nat, cnt : Nat]

Pc == {"find", "walk", "accept", "pick", "accept_wait", "fd",
       "recv", "try", "hold", "recv_wait",
       "send_ack", "send_seq", "send", "close_numbers", "close", "last_ack"}

(* Type invariant.  The code behaviour behind it: the sequence numbers of   *)
(* a stream stay within what its peer has sent and acknowledged, a stream   *)
(* in the list has its rings, and the descriptors stay within the table.    *)
TypeOK ==
  /\ alive \in BOOLEAN /\ missed \in BOOLEAN
  /\ ToSet(rin) \subseteq Segment /\ ToSet(rout) \subseteq Segment
  /\ arp \subseteq Host
  /\ ToSet(tcb_set) = {Listener} \cup {c \in Client : tcb[c].status \notin {"none", "freed"}}
  /\ \A c \in Client :
       /\ tcb[c].status \in Status
       /\ tcb[c].fd \in (-1) .. MAX_FD
       /\ tcb[c].snd_nxt \in 0 .. peer[c].rcv /\ tcb[c].rcv_nxt \in 0 .. peer[c].snd
       /\ ToSet(tcb[c].sndbuf) \subseteq Segment
  /\ fd_table \subseteq 3 .. MAX_FD
  /\ p.pc \in {"poll", "enqueue", "signal", "rcv_nxt", "ackpkt", "accept", "udp_signal"}
  /\ t.pc \in Pc /\ t.cur \in Client \cup {NULL} /\ t.iter \in Client \cup {Listener, NULL}

------------------------------------------------------------------------------
(* Segments.  A fragment waits in sndbuf already in the form of the segment *)
(* that ng_tcp_pkt makes of it: ports and headers are the stream's.         *)
Tcp(c, flags, seq, ack, len, msg) ==
  [kind |-> "tcp", peer |-> c, flags |-> flags,
   seq |-> seq, ack |-> ack, len |-> len, msg |-> msg, cnt |-> 0]

Arp(c) ==
  [kind |-> "arp", peer |-> c, flags |-> {},
   seq |-> 0, ack |-> 0, len |-> 0, msg |-> 0, cnt |-> 0]

NoStream ==
  [status |-> "none", fd |-> -1, snd_nxt |-> 0, rcv_nxt |-> 0, sndbuf |-> <<>>, rcvbuf |-> <<>>]

(* A fragment of rcvbuf: so many bytes of a message from an offset on.      *)
Received(msg, off, len) == [msg |-> msg, off |-> off, len |-> len]

(* The list.  LL_REMOVE clears the next pointer of what it takes out, so a  *)
(* walk that stands on it ends there.                                       *)
NextOf(s) ==
  LET i == SelectInSeq(tcb_set, LAMBDA x : x = s) IN
    IF i \in 1 .. Len(tcb_set) - 1 THEN tcb_set[i + 1] ELSE NULL

(* The address of a host is known.                                          *)
ng_get_dst_macaddr(h) == h \in arp

get_hostinfo_fromfd(fd) ==
  LET i == SelectInSeq(tcb_set, LAMBDA x : x # Listener /\ tcb[x].fd = fd) IN
    IF i = 0 THEN NULL ELSE tcb_set[i]

ng_tcp_stream_search(c) == IF Contains(tcb_set, c) THEN c ELSE Listener

get_fd_frombitmap == Min((3 .. MAX_FD) \ fd_table)

(* rte_ring_create refuses a name that exists, and every stream asks for    *)
(* "sndbuf" and "rcvbuf": only one of them at a time can have its rings.    *)
rte_ring_exists == \E c \in Client : Contains(tcb_set, c)

------------------------------------------------------------------------------
(* The peers: clients that accept only what is in sequence.  cnt counts, of *)
(* the numbers in snd, the SYN, the FIN and the data sent with PSH.         *)
(* The sequence numbers a segment occupies.                                 *)
Space(len, fin) == len + (IF fin THEN 1 ELSE 0)

ToStack(seg) == rin' = Append(rin, seg)

Connect(c) ==
  /\ alive /\ c \in DOMAIN script /\ peer[c].st = "idle"
  /\ ToStack(Tcp(c, {"SYN"}, 0, 0, 0, 0))
  /\ peer' = [peer EXCEPT ![c].st = "SYN_SENT", ![c].snd = 1, ![c].cnt = 1]
  /\ UNCHANGED <<alive, rout, arp, tcb_set, tcb, fd_table, p, t, script, ghosts>>

(* The client sends the next entry of its script: data, with PSH or not, a  *)
(* FIN, or both.                                                            *)
Send(c) ==
  /\ alive /\ peer[c].st = "ESTABLISHED" /\ peer[c].n < Len(script[c])
  /\ LET e == script[c][peer[c].n + 1]
         m == peer[c].pushes + (IF e.psh THEN 1 ELSE 0)
         flags == {"ACK"} \cup (IF e.psh THEN {"PSH"} ELSE {}) \cup (IF e.fin THEN {"FIN"} ELSE {})
         seg == Tcp(c, flags, peer[c].snd, peer[c].rcv, e.len, m)
     IN /\ ToStack([seg EXCEPT !.cnt = peer[c].cnt])
        /\ peer' = [peer EXCEPT ![c].n = @ + 1, ![c].pushes = m,
                                ![c].snd = @ + Space(e.len, e.fin),
                                ![c].cnt = @ + Space(IF e.psh THEN e.len ELSE 0, e.fin),
                                ![c].st = IF e.fin THEN "FIN_WAIT" ELSE @]
  /\ UNCHANGED <<alive, rout, arp, tcb_set, tcb, fd_table, p, t, script, ghosts>>

(* The main thread transmits the next packet of the out ring, and the peer  *)
(* takes it: it answers an ARP request, completes the handshake, and        *)
(* acknowledges what occupies sequence numbers, in sequence or not.         *)
Transmit ==
  /\ alive /\ rout # <<>>
  /\ rout' = Tail(rout)
  /\ LET seg == Head(rout)
         c == seg.peer
         inseq == seg.seq = peer[c].rcv
         space == Space(seg.len, "FIN" \in seg.flags)
     IN \/ /\ seg.kind = "arp"
           /\ rin' = IF c \in Deaf THEN rin ELSE Append(rin, Arp(c))
           /\ UNCHANGED peer
        \/ /\ seg.kind = "tcp" /\ peer[c].st = "SYN_SENT" /\ "SYN" \in seg.flags
           /\ ToStack(Tcp(c, {"ACK"}, peer[c].snd, seg.seq + 1, 0, 0))
           /\ peer' = [peer EXCEPT ![c].st = "ESTABLISHED", ![c].rcv = seg.seq + 1]
        \/ /\ seg.kind = "tcp" /\ "SYN" \notin seg.flags /\ space > 0
           /\ LET rcv == IF inseq THEN peer[c].rcv + space ELSE peer[c].rcv
                  end == inseq /\ "FIN" \in seg.flags
              IN /\ peer' = [peer EXCEPT ![c].rcv = rcv, ![c].st = IF end THEN "closed" ELSE @]
                 /\ ToStack(Tcp(c, {"ACK"}, peer[c].snd, rcv, 0, 0))
        \/ /\ seg.kind = "tcp" /\ "SYN" \notin seg.flags /\ space = 0
           /\ UNCHANGED <<rin, peer>>
  /\ UNCHANGED <<alive, arp, tcb_set, tcb, fd_table, p, t, script, ghosts>>

------------------------------------------------------------------------------
(* The condition variables.  naccept walks the list with the listener's     *)
(* mutex locked, nrecv looks into rcvbuf with the stream's: a signal, which *)
(* pkt_process sends with the mutex locked, falls before or after that.     *)
Locked(s) ==
  \/ s = Listener /\ t.pc = "pick"
  \/ s = t.cur /\ t.pc \in {"try", "hold"}

Waiting(s) ==
  \/ s = Listener /\ t.pc = "accept_wait"
  \/ s = t.cur /\ t.pc = "recv_wait"

WokenFrom(pc) == IF pc = "accept_wait" THEN "accept" ELSE "try"

pthread_cond_signal(s) ==
  /\ ~Locked(s)
  /\ t' = IF Waiting(s) THEN [t EXCEPT !.pc = WokenFrom(@)] ELSE t

------------------------------------------------------------------------------
(* pkt_process, one packet of the in ring at a time.                        *)
pseg == p.seg

Poll == p' = [pc |-> "poll", seg |-> NULL, part |-> "none"]

(* Mutant of ng_tcp_handle_listen: the acknowledgement leaves out the SYN.  *)
ng_tcp_handle_listen_noack(c, s) ==
  IF rte_ring_exists
  THEN alive' = FALSE /\ UNCHANGED <<tcb_set, tcb>>
  ELSE /\ tcb_set' = Cons(c, tcb_set)
       /\ tcb' = [tcb EXCEPT ![c] =
            [NoStream EXCEPT !.status = "SYN_RCVD", !.snd_nxt = ISS, !.rcv_nxt = s.seq,
                !.sndbuf = <<Tcp(c, {"SYN", "ACK"}, ISS, s.seq, 0, 0)>>]]
       /\ UNCHANGED alive

(* A stream without rings is a null pointer in the enqueue that follows.    *)
ng_tcp_handle_listen(c, s) ==
  IF rte_ring_exists
  THEN alive' = FALSE /\ UNCHANGED <<tcb_set, tcb>>
  ELSE /\ tcb_set' = Cons(c, tcb_set)
       /\ tcb' = [tcb EXCEPT ![c] =
            [NoStream EXCEPT !.status = "SYN_RCVD", !.snd_nxt = ISS, !.rcv_nxt = s.seq + 1,
                !.sndbuf = <<Tcp(c, {"SYN", "ACK"}, ISS, s.seq + 1, 0, 0)>>]]
       /\ UNCHANGED alive

(* Mutant of ng_tcp_handle_last_ack: any stream the peer acknowledges on    *)
(* after its FIN is removed, the server's own close not awaited.            *)
ng_tcp_handle_last_ack_early(c) ==
  /\ tcb[c].status \in {"CLOSE_WAIT", "LAST_ACK"}
  /\ tcb_set' = RemoveFirst(tcb_set, c)
  /\ tcb' = [tcb EXCEPT ![c] = [NoStream EXCEPT !.status = "freed"]]

ng_tcp_handle_last_ack(c) ==
  /\ tcb[c].status = "LAST_ACK"
  /\ tcb_set' = RemoveFirst(tcb_set, c)
  /\ tcb' = [tcb EXCEPT ![c] = [NoStream EXCEPT !.status = "freed"]]

(* ng_tcp_process: the segment goes to its stream, or to the listener, and  *)
(* there to the handler of the stream's status.                             *)
Handle(c, s) ==
  \/ /\ ng_tcp_stream_search(c) = Listener /\ "SYN" \in s.flags
     /\ ng_tcp_handle_listen(c, s)
     /\ Poll
  \/ /\ ng_tcp_stream_search(c) = c /\ tcb[c].status = "SYN_RCVD" /\ "ACK" \in s.flags
     /\ tcb' = [tcb EXCEPT ![c].status = "ESTABLISHED"]
     /\ p' = [pc |-> "accept", seg |-> s, part |-> "none"]
     /\ UNCHANGED <<alive, tcb_set>>
  \/ /\ ng_tcp_stream_search(c) = c /\ tcb[c].status = "ESTABLISHED"
     /\ {"PSH", "FIN"} \cap s.flags # {}
     /\ p' = [pc |-> "enqueue", seg |-> s, part |-> IF "PSH" \in s.flags THEN "PSH" ELSE "FIN"]
     /\ UNCHANGED <<alive, tcb_set, tcb>>
  \/ /\ ng_tcp_stream_search(c) = c /\ "ACK" \in s.flags
     /\ ng_tcp_handle_last_ack(c)
     /\ Poll
     /\ UNCHANGED alive

(* A segment without a flag that the handler of the status looks for.       *)
Heeded(status) ==
  CASE status = "LISTEN" -> {"SYN"}
    [] status \in {"SYN_RCVD", "LAST_ACK"} -> {"ACK"}
    [] status = "ESTABLISHED" -> {"PSH", "FIN"}
    [] status = "CLOSE_WAIT" -> {}

Ignored(c, s) ==
  LET status == IF ng_tcp_stream_search(c) = c THEN tcb[c].status ELSE "LISTEN" IN
    s.flags \cap Heeded(status) = {}

ng_tcp_process ==
  /\ alive /\ p.pc = "poll" /\ rin # <<>> /\ Head(rin).kind = "tcp"
  /\ rin' = Tail(rin)
  /\ \/ Handle(Head(rin).peer, Head(rin))
     \/ Ignored(Head(rin).peer, Head(rin)) /\ UNCHANGED <<alive, tcb_set, tcb, p>>
  /\ UNCHANGED <<rout, arp, fd_table, t, world, ghosts>>

(* An ARP reply: an entry is made once and never changes.                   *)
arp_reply ==
  /\ alive /\ p.pc = "poll" /\ rin # <<>> /\ Head(rin).kind = "arp"
  /\ rin' = Tail(rin)
  /\ arp' = arp \cup {Head(rin).peer}
  /\ UNCHANGED <<alive, rout, tcb_set, tcb, fd_table, p, t, world, ghosts>>

(* ng_tcp_handle_syn_rcvd wakes the accepting thread.                       *)
SignalListener ==
  /\ alive /\ p.pc = "accept"
  /\ pthread_cond_signal(Listener)
  /\ Poll
  /\ UNCHANGED <<alive, rin, rout, arp, tcb_set, tcb, fd_table, world, ghosts>>

(* ng_tcp_handle_established, for the PSH and then for the FIN: the         *)
(* fragment is queued and signalled, then rcv_nxt moves, then snd_nxt, and  *)
(* the acknowledgement is queued.                                           *)
PktStep(from, to) ==
  /\ alive /\ p.pc = from
  /\ p' = [p EXCEPT !.pc = to]
  /\ UNCHANGED <<alive, rin, rout, arp, tcb_set, fd_table, world, ghosts>>

ng_tcp_enqueue_recvbuffer ==
  /\ PktStep("enqueue", "signal")
  /\ tcb' = [tcb EXCEPT
       ![pseg.peer].rcvbuf = Append(@, IF p.part = "PSH" THEN Received(pseg.msg, 0, pseg.len)
                                                        ELSE Received(0, 0, 0)),
       ![pseg.peer].status = IF p.part = "FIN" THEN "CLOSE_WAIT" ELSE @]
  /\ UNCHANGED t

SignalReader ==
  /\ PktStep("signal", "rcv_nxt")
  /\ pthread_cond_signal(pseg.peer)
  /\ UNCHANGED tcb

AdvanceRcvNxt ==
  /\ PktStep("rcv_nxt", "ackpkt")
  /\ tcb' = [tcb EXCEPT ![pseg.peer].rcv_nxt = @ + (IF p.part = "PSH" THEN pseg.len ELSE 1)]
  /\ UNCHANGED t

ng_tcp_send_ackpkt ==
  /\ alive /\ p.pc = "ackpkt"
  /\ tcb' = [tcb EXCEPT
       ![pseg.peer].snd_nxt = pseg.ack,
       ![pseg.peer].sndbuf =
          Append(@, Tcp(pseg.peer, {"ACK"}, pseg.ack, tcb[pseg.peer].rcv_nxt, 0, 0))]
  /\ IF p.part = "PSH" /\ "FIN" \in pseg.flags
     THEN p' = [p EXCEPT !.pc = "enqueue", !.part = "FIN"]
     ELSE Poll
  /\ UNCHANGED <<alive, rin, rout, arp, tcb_set, fd_table, t, world, ghosts>>

(* ng_tcp_out: one fragment of a stream goes to the out ring, or back to    *)
(* the tail of sndbuf behind an ARP request.  The loop repeats the request  *)
(* until the answer is in; one copy stands for all.                         *)
ng_tcp_out(c) ==
  /\ alive /\ p.pc = "poll"
  /\ Contains(tcb_set, c) /\ tcb[c].sndbuf # <<>>
  /\ LET frag == Head(tcb[c].sndbuf)
         rest == Tail(tcb[c].sndbuf)
     IN IF ng_get_dst_macaddr(c)
        THEN /\ rout' = Append(rout, frag)
             /\ tcb' = [tcb EXCEPT ![c].sndbuf = rest]
        ELSE /\ rout' = IF Contains(rout \o rin, Arp(c)) THEN rout ELSE Append(rout, Arp(c))
             /\ tcb' = [tcb EXCEPT ![c].sndbuf = Append(rest, frag)]
  /\ UNCHANGED <<alive, rin, arp, tcb_set, fd_table, p, t, world, ghosts>>

------------------------------------------------------------------------------
(* tcp_server_entry: accept, echo until an empty read, close, accept again. *)
AppStep(from, to) == alive /\ t.pc = from /\ t' = [t EXCEPT !.pc = to]

(* naccept looks up the listening socket: a walk along the list, during     *)
(* which pkt_process may take a stream out.  A walk that ends without it    *)
(* makes naccept return -1, and the server goes on with -1 as descriptor.   *)
FindListener ==
  /\ alive /\ t.pc = "find"
  /\ t' = [t EXCEPT !.pc = "walk", !.iter = Head(tcb_set)]
  /\ UNCHANGED <<alive, stack, world, ghosts>>

WalkToListener ==
  /\ alive /\ t.pc = "walk"
  /\ \/ /\ t.iter = Listener
        /\ t' = [t EXCEPT !.pc = "accept", !.iter = NULL]
        /\ UNCHANGED missed
     \/ /\ t.iter # Listener /\ NextOf(t.iter) # NULL
        /\ t' = [t EXCEPT !.iter = NextOf(t.iter)]
        /\ UNCHANGED missed
     \/ /\ t.iter # Listener /\ NextOf(t.iter) = NULL
        /\ t' = [t EXCEPT !.pc = "recv", !.iter = NULL, !.fd = -1]
        /\ missed' = TRUE
  /\ UNCHANGED <<alive, stack, world, reads>>

(* The mutex is locked from here until the walk of get_accept_tcb is over.  *)
LockListener ==
  /\ alive /\ t.pc = "accept"
  /\ t' = [t EXCEPT !.pc = "pick", !.iter = Head(tcb_set)]
  /\ UNCHANGED <<alive, stack, world, ghosts>>

(* Any stream without a descriptor will do, a half-open one included.       *)
get_accept_tcb ==
  /\ alive /\ t.pc = "pick"
  /\ LET free == Contains(tcb_set, t.iter) /\ t.iter # Listener /\ tcb[t.iter].fd = -1
     IN t' = CASE free -> [t EXCEPT !.pc = "fd", !.cur = t.iter, !.iter = NULL]
               [] ~free /\ NextOf(t.iter) # NULL -> [t EXCEPT !.iter = NextOf(t.iter)]
               [] OTHER -> [t EXCEPT !.pc = "accept_wait", !.iter = NULL]
  /\ UNCHANGED <<alive, stack, world, ghosts>>

naccept ==
  /\ alive /\ t.pc = "fd"
  /\ fd_table' = fd_table \cup {get_fd_frombitmap}
  /\ tcb' = [tcb EXCEPT ![t.cur].fd = get_fd_frombitmap]
  /\ t' = [t EXCEPT !.pc = "recv", !.fd = get_fd_frombitmap, !.cur = NULL]
  /\ UNCHANGED <<alive, rin, rout, arp, tcb_set, p, world, ghosts>>

(* nrecv.  A lookup that fails returns -1 and the server calls again.       *)
RecvLock ==
  /\ alive /\ t.pc = "recv"
  /\ get_hostinfo_fromfd(t.fd) # NULL
  /\ t' = [t EXCEPT !.pc = "try", !.cur = get_hostinfo_fromfd(t.fd)]
  /\ UNCHANGED <<alive, stack, world, ghosts>>

(* Mutant of TakeFragment: what is put back is the whole fragment.          *)
TakeFragment_whole ==
  /\ alive /\ t.pc = "try"
  /\ IF tcb[t.cur].rcvbuf = <<>>
     THEN /\ t' = [t EXCEPT !.pc = "hold"]
          /\ UNCHANGED <<tcb, reads>>
     ELSE LET frag == Head(tcb[t.cur].rcvbuf)
              rest == Tail(tcb[t.cur].rcvbuf)
              over == frag.len - BUFFER_SIZE
          IN /\ t' = [t EXCEPT !.pc = IF frag.len = 0 THEN "close_numbers" ELSE "send_ack",
                               !.len = IF over > 0 THEN over ELSE frag.len]
             /\ tcb' = [tcb EXCEPT ![t.cur].rcvbuf =
                  IF over > 0 THEN Append(rest, frag)
                              ELSE rest]
             /\ reads' = IF frag.len = 0 THEN reads
                         ELSE [reads EXCEPT ![t.cur] = Append(@, <<frag.msg, frag.off>>)]
  /\ UNCHANGED <<alive, rin, rout, arp, tcb_set, fd_table, p, world, missed>>

(* A fragment longer than the buffer is cut: nrecv returns the length of    *)
(* what is left, and that goes to the tail of rcvbuf.  What is queued while *)
(* it is cut, without the mutex, might as well have been queued before.     *)
TakeFragment ==
  /\ alive /\ t.pc = "try"
  /\ IF tcb[t.cur].rcvbuf = <<>>
     THEN /\ t' = [t EXCEPT !.pc = "hold"]
          /\ UNCHANGED <<tcb, reads>>
     ELSE LET frag == Head(tcb[t.cur].rcvbuf)
              rest == Tail(tcb[t.cur].rcvbuf)
              over == frag.len - BUFFER_SIZE
          IN /\ t' = [t EXCEPT !.pc = IF frag.len = 0 THEN "close_numbers" ELSE "send_ack",
                               !.len = IF over > 0 THEN over ELSE frag.len]
             /\ tcb' = [tcb EXCEPT ![t.cur].rcvbuf =
                  IF over > 0 THEN Append(rest, Received(frag.msg, frag.off + BUFFER_SIZE, over))
                              ELSE rest]
             /\ reads' = IF frag.len = 0 THEN reads
                         ELSE [reads EXCEPT ![t.cur] = Append(@, <<frag.msg, frag.off>>)]
  /\ UNCHANGED <<alive, rin, rout, arp, tcb_set, fd_table, p, world, missed>>

pthread_cond_wait ==
  /\ AppStep("hold", "recv_wait")
  /\ UNCHANGED <<alive, stack, world, ghosts>>

(* A condition variable may wake its waiter for no reason.                  *)
SpuriousWakeup ==
  /\ alive /\ t.pc \in {"accept_wait", "recv_wait"}
  /\ t' = [t EXCEPT !.pc = WokenFrom(@)]
  /\ UNCHANGED <<alive, stack, world, ghosts>>

(* nsend reads rcv_nxt, then snd_nxt, then queues the echo.                 *)
SendAck ==
  /\ alive /\ t.pc = "send_ack"
  /\ t' = [t EXCEPT !.pc = "send_seq", !.ack = tcb[t.cur].rcv_nxt]
  /\ UNCHANGED <<alive, stack, world, ghosts>>

SendSeq ==
  /\ alive /\ t.pc = "send_seq"
  /\ t' = [t EXCEPT !.pc = "send", !.seq = tcb[t.cur].snd_nxt]
  /\ UNCHANGED <<alive, stack, world, ghosts>>

nsend ==
  /\ alive /\ t.pc = "send"
  /\ tcb' = [tcb EXCEPT ![t.cur].sndbuf =
               Append(@, Tcp(t.cur, {"ACK", "PSH"}, t.seq, t.ack, t.len, 0))]
  /\ t' = [t EXCEPT !.pc = "recv", !.cur = NULL, !.len = 0, !.seq = 0, !.ack = 0]
  /\ UNCHANGED <<alive, rin, rout, arp, tcb_set, fd_table, p, world, ghosts>>

(* nclose reads snd_nxt, then rcv_nxt (pkt_process writes them in the other *)
(* order, so no pair is missed by reading both at once), queues the FIN,    *)
(* and only then moves to LAST_ACK and gives the descriptor back.           *)
CloseNumbers ==
  /\ alive /\ t.pc = "close_numbers"
  /\ t' = [t EXCEPT !.pc = "close", !.seq = tcb[t.cur].snd_nxt, !.ack = tcb[t.cur].rcv_nxt]
  /\ UNCHANGED <<alive, stack, world, ghosts>>

nclose ==
  /\ alive /\ t.pc = "close"
  /\ tcb' = [tcb EXCEPT ![t.cur].sndbuf =
               Append(@, Tcp(t.cur, {"FIN", "ACK"}, t.seq, t.ack, 0, 0))]
  /\ t' = [t EXCEPT !.pc = "last_ack", !.seq = 0, !.ack = 0]
  /\ UNCHANGED <<alive, rin, rout, arp, tcb_set, fd_table, p, world, ghosts>>

EnterLastAck ==
  /\ alive /\ t.pc = "last_ack"
  /\ tcb' = [tcb EXCEPT ![t.cur].status = "LAST_ACK"]
  /\ fd_table' = fd_table \ {t.fd}
  /\ t' = [t EXCEPT !.pc = "find", !.cur = NULL, !.fd = -1, !.len = 0]
  /\ UNCHANGED <<alive, rin, rout, arp, tcb_set, p, world, ghosts>>

------------------------------------------------------------------------------
(* Both sockets are open, the listener bound and listening; the UDP         *)
(* server's is descriptor 3.                                                *)
Init ==
  /\ alive = TRUE /\ missed = FALSE
  /\ rin = <<>> /\ rout = <<>> /\ arp = {}
  /\ tcb_set = <<Listener>>
  /\ tcb = [c \in Client |-> NoStream]
  /\ fd_table = {3, listenfd}
  /\ p = [pc |-> "poll", seg |-> NULL, part |-> "none"]
  /\ t = [pc |-> "find", cur |-> NULL, iter |-> NULL, fd |-> -1, len |-> 0, seq |-> 0, ack |-> 0]
  /\ script \in Workload
  /\ peer = [c \in Client |-> [st |-> "idle", snd |-> 0, cnt |-> 0, rcv |-> 0, n |-> 0, pushes |-> 0]]
  /\ reads = [c \in Client |-> <<>>]

Packets ==
  \/ ng_tcp_process \/ arp_reply \/ SignalListener
  \/ ng_tcp_enqueue_recvbuffer \/ SignalReader \/ AdvanceRcvNxt \/ ng_tcp_send_ackpkt

App ==
  \/ FindListener \/ WalkToListener \/ LockListener \/ get_accept_tcb \/ naccept
  \/ RecvLock \/ TakeFragment \/ pthread_cond_wait
  \/ SendAck \/ SendSeq \/ nsend
  \/ CloseNumbers \/ nclose \/ EnterLastAck

Peers == \E c \in Client : Connect(c) \/ Send(c)

Next ==
  \/ Peers \/ Transmit
  \/ Packets \/ \E c \in Client : ng_tcp_out(c)
  \/ App \/ SpuriousWakeup

------------------------------------------------------------------------------
(* A thread that waits has nothing to do, or its signal is on the way:      *)
(* nobody waits in nrecv over a fragment, nor in naccept over a connection, *)
(* although fragments are queued and streams established without a lock.    *)
NoLostWakeup ==
  /\ t.pc = "recv_wait" /\ tcb[t.cur].rcvbuf # <<>>
       => p.pc = "signal" /\ p.seg.peer = t.cur
  /\ t.pc = "accept_wait"
     /\ (\E c \in Client : Contains(tcb_set, c) /\ tcb[c].fd = -1 /\ tcb[c].status # "SYN_RCVD")
       => p.pc = "accept"

(* The server works on a stream that is still in the list: pkt_process, who *)
(* frees streams, frees none that the server has not closed.  The one way   *)
(* around it starts with a lookup of the listening socket that failed.      *)
NoStreamFreedInUse == t.cur # NULL => Contains(tcb_set, t.cur) \/ missed

(* nrecv returns a client's messages, the data of its segments with PSH,    *)
(* once each, in the order they were sent and without a gap between them;   *)
(* what it cut off a long one comes later, once, and never before its       *)
(* beginning.  Data without PSH is not among them: the handler looks only   *)
(* for the flag.                                                            *)
ReadOnceInOrder ==
  \A c \in Client :
    /\ IsInjective(reads[c])
    /\ \A i \in 1 .. Len(reads[c]) :
         LET m == reads[c][i][1]
             off == reads[c][i][2]
         IN \/ off = 0 /\ m = 1
            \/ off = 0 /\ \E j \in 1 .. i - 1 : reads[c][j] = <<m - 1, 0>>
            \/ off > 0 /\ \E j \in 1 .. i - 1 : reads[c][j] = <<m, off - BUFFER_SIZE>>

FromPeer(c) == {i \in 1 .. Len(rin) : rin[i].peer = c}

(* The stack acknowledges no byte its peer has not sent, and once it has    *)
(* handled all the peer's segments it has acknowledged exactly the SYN, the *)
(* FIN and the data that came with PSH, whoever queued the segment: it      *)
(* falls behind the peer by the data sent without PSH, and by nothing else. *)
AcksExact ==
  \A c \in Client :
    /\ \A s \in ToSet(rout) \cup ToSet(tcb[c].sndbuf) :
         s.kind = "tcp" /\ s.peer = c => s.ack <= peer[c].snd
    /\ alive /\ p.pc = "poll" /\ FromPeer(c) = {}
       /\ tcb[c].status \in {"ESTABLISHED", "CLOSE_WAIT", "LAST_ACK"}
         => tcb[c].rcv_nxt = peer[c].cnt

(* A fragment that finds no ARP entry goes to the tail of sndbuf; it never  *)
(* falls behind another one, for nothing but the SYN/ACK is queued before   *)
(* the peer's address is known.                                             *)
RequeueKeepsOrder ==
  \A c \in Client : c \notin arp => Len(tcb[c].sndbuf) <= 1

(* A stream is in order in both directions: what nrecv returns and what     *)
(* waits in sndbuf for the peer's address.                                  *)
InOrder == ReadOnceInOrder /\ RequeueKeepsOrder

(* A piece of a message that a client has sent and the server has not read. *)
(* Once the client has sent its FIN only the beginnings are awaited: what   *)
(* nrecv then cuts off a message may be queued behind the empty fragment of *)
(* the FIN, at which the server closes.                                     *)
MessagesOf(c) == SelectSeq(script[c], LAMBDA e : e.psh)

Unread ==
  \E c \in DOMAIN script : \E m \in 1 .. peer[c].pushes :
    \E off \in 0 .. MessagesOf(c)[m].len - 1 :
      /\ off % BUFFER_SIZE = 0 /\ <<m, off>> \notin ToSet(reads[c])
      /\ off = 0 \/ peer[c].st = "ESTABLISHED"
==============================================================================
