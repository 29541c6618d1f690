------------------------------ MODULE UserStack ------------------------------
(***************************************************************************)
(* The whole user-space stack (02/2.4_dpdk/ustack/tcp.c): the TCP half of  *)
(* UserTcp together with UDP and its echo server udp_server_entry, ping,   *)
(* the answers to ARP requests and the ARP timer.  They share pkt_process, *)
(* the in and out rings and the ARP table.                                 *)
(*                                                                         *)
(* A datagram is a number and a length.  The length the stack keeps for it *)
(* is the one of the UDP header, which counts the header's own bytes too:  *)
(* nrecvfrom copies that many and so reads past the end of the data.  The  *)
(* server echoes the string in its buffer, of which only the beginning is  *)
(* known; an echo is named by the datagram and the offset it begins at.  A *)
(* piece that begins with a zero byte is an empty string and not echoed.   *)
(* The rings of 1024 entries do not fill up within the bounds.             *)
(***************************************************************************)
EXTENDS UserTcp

CONSTANTS
  Traffic,   \* bound: the datagrams, pings and ARP requests of a behaviour
  Scanned,   \* the hosts whose addresses the ARP timer asks for
  UDP_HDR,   \* sizeof(struct rte_udp_hdr)
  UDP_APP_RECV_BUFFER_SIZE

UdpHost == Host \ Client

ASSUME TrafficAssumption ==
  /\ \A w \in Traffic :
       /\ w.udp \in [UdpHost -> Seq(Nat \ {0})] /\ w.nul \subseteq UdpHost \X Nat \X Nat
       /\ w.ping \subseteq UdpHost /\ w.ask \subseteq UdpHost /\ w.timer \in BOOLEAN
       /\ w.script \in Workload
  /\ Scanned \subseteq Host
  /\ UDP_HDR \in Nat \ {0} /\ UDP_APP_RECV_BUFFER_SIZE \in Nat \ {0}

VARIABLES
  traffic,   \* the traffic of this behaviour
  lhost,     \* the UDP socket: its rcvbuf and sndbuf
  u,         \* udp_server_entry: where it is and its local variables
  remote     \* the hosts' ends: datagrams sent, echoes and answers received

udp == <<traffic, lhost, u, remote>>
all == <<vars, udp>>

(* A fragment of rcvbuf or sndbuf: from, or to, a host.                     *)
offload(c, d, off, len) == [peer |-> c, msg |-> d, off |-> off, length |-> len]

NoOffload == offload(NULL, 0, 0, 0)

Packet(kind, c, d, off, len) ==
  [kind |-> kind, peer |-> c, flags |-> {}, seq |-> off, ack |-> 0, len |-> len, msg |-> d,
   cnt |-> 0]

Length(c, d) == traffic.udp[c][d] + UDP_HDR

(* The piece of datagram d that begins at off begins with a zero byte: what *)
(* the host sent, or what happens to lie behind it.                         *)
IsEmpty(c, d, off) == <<c, d, off>> \in traffic.nul

------------------------------------------------------------------------------
(* The hosts: datagrams, pings, and requests for the stack's own address.   *)
Emit(c, pkt, r) ==
  /\ alive
  /\ ToStack(pkt)
  /\ remote' = [remote EXCEPT ![c] = r]
  /\ UNCHANGED <<alive, rout, arp, tcb_set, tcb, fd_table, p, t, world, ghosts>>
  /\ UNCHANGED <<traffic, lhost, u>>

SendDatagram(c) ==
  /\ remote[c].n < Len(traffic.udp[c])
  /\ LET d == remote[c].n + 1 IN
       Emit(c, Packet("udp", c, d, 0, traffic.udp[c][d]), [remote[c] EXCEPT !.n = d])

Ping(c) ==
  /\ c \in traffic.ping /\ remote[c].ping = "no"
  /\ Emit(c, Packet("icmp", c, 0, 0, 0), [remote[c] EXCEPT !.ping = "sent"])

AskAddress(c) ==
  /\ c \in traffic.ask /\ remote[c].ask = "no"
  /\ Emit(c, Packet("arp_request", c, 0, 0, 0), [remote[c] EXCEPT !.ask = "sent"])

(* The main thread transmits what is not TCP; the host takes it.            *)
TransmitUdp ==
  /\ alive /\ rout # <<>> /\ Head(rout).kind \in {"udp", "icmp", "arp_request"}
  /\ rout' = Tail(rout)
  /\ LET pkt == Head(rout)
         r == remote[pkt.peer]
     IN remote' = [remote EXCEPT ![pkt.peer] =
          CASE pkt.kind = "udp" -> [r EXCEPT !.echoes = Append(@, <<pkt.msg, pkt.seq>>)]
            [] pkt.kind = "icmp" -> [r EXCEPT !.ping = "answered"]
            [] pkt.kind = "arp_request" -> [r EXCEPT !.ask = "answered"]]
  /\ UNCHANGED <<alive, rin, arp, tcb_set, tcb, fd_table, p, t, world, ghosts>>
  /\ UNCHANGED <<traffic, lhost, u>>

(* arp_request_timer_cb runs in the main thread: a request for each of the  *)
(* addresses, known or not.  One copy in the rings stands for all.          *)
arp_request_timer_cb ==
  /\ alive /\ traffic.timer
  /\ \E c \in Scanned :
       /\ ~Contains(rout \o rin, Arp(c))
       /\ rout' = Append(rout, Arp(c))
  /\ UNCHANGED <<alive, rin, arp, tcb_set, tcb, fd_table, p, t, world, ghosts, udp>>

------------------------------------------------------------------------------
(* pkt_process: the packets that are not TCP.                               *)
Process(kind) ==
  /\ alive /\ p.pc = "poll" /\ rin # <<>> /\ Head(rin).kind = kind
  /\ rin' = Tail(rin)

Same == UNCHANGED <<alive, arp, tcb_set, tcb, fd_table, t, world, ghosts, traffic, u, remote>>

(* The requester's address is in the request; nothing is learnt from it.    *)
arp_request ==
  /\ Process("arp_request")
  /\ rout' = Append(rout, Head(rin))
  /\ UNCHANGED <<p, lhost>> /\ Same

(* The echo reply goes back to the hardware address the request came from.  *)
ng_send_icmp ==
  /\ Process("icmp")
  /\ rout' = Append(rout, Head(rin))
  /\ UNCHANGED <<p, lhost>> /\ Same

(* udp_process queues the datagram, and signals the server afterwards.      *)
udp_process ==
  /\ Process("udp")
  /\ LET pkt == Head(rin) IN
       lhost' = [lhost EXCEPT !.rcvbuf =
                   Append(@, offload(pkt.peer, pkt.msg, 0, pkt.len + UDP_HDR))]
  /\ p' = [p EXCEPT !.pc = "udp_signal"]
  /\ UNCHANGED rout /\ Same

(* Mutant of SignalUdp: the signal is sent without the mutex.               *)
SignalUdp_unlocked ==
  /\ alive /\ p.pc = "udp_signal"
  /\ u' = IF u.pc = "wait" THEN [u EXCEPT !.pc = "try"] ELSE u
  /\ Poll
  /\ UNCHANGED <<alive, rin, rout, arp, tcb_set, tcb, fd_table, t, world, ghosts>>
  /\ UNCHANGED <<traffic, lhost, remote>>

(* The mutex is locked while the server has found rcvbuf empty and does not *)
(* wait yet.                                                                *)
SignalUdp ==
  /\ alive /\ p.pc = "udp_signal" /\ u.pc # "hold"
  /\ u' = IF u.pc = "wait" THEN [u EXCEPT !.pc = "try"] ELSE u
  /\ Poll
  /\ UNCHANGED <<alive, rin, rout, arp, tcb_set, tcb, fd_table, t, world, ghosts>>
  /\ UNCHANGED <<traffic, lhost, remote>>

(* Mutant of udp_out: the fragment that has to wait stays at the head.      *)
udp_out_head ==
  /\ alive /\ p.pc = "poll" /\ lhost.sndbuf # <<>>
  /\ LET ol == Head(lhost.sndbuf)
         rest == Tail(lhost.sndbuf)
     IN IF ng_get_dst_macaddr(ol.peer)
        THEN /\ rout' = Append(rout, Packet("udp", ol.peer, ol.msg, ol.off, 0))
             /\ lhost' = [lhost EXCEPT !.sndbuf = rest]
        ELSE /\ rout' = IF Contains(rout \o rin, Arp(ol.peer)) THEN rout ELSE Append(rout, Arp(ol.peer))
             /\ UNCHANGED lhost
  /\ UNCHANGED <<rin, p>> /\ Same

(* udp_out: one fragment leaves, or goes to the tail of sndbuf behind a     *)
(* request for its host's address, as in ng_tcp_out.                        *)
udp_out ==
  /\ alive /\ p.pc = "poll" /\ lhost.sndbuf # <<>>
  /\ LET ol == Head(lhost.sndbuf)
         rest == Tail(lhost.sndbuf)
     IN IF ng_get_dst_macaddr(ol.peer)
        THEN /\ rout' = Append(rout, Packet("udp", ol.peer, ol.msg, ol.off, 0))
             /\ lhost' = [lhost EXCEPT !.sndbuf = rest]
        ELSE /\ rout' = IF Contains(rout \o rin, Arp(ol.peer)) THEN rout ELSE Append(rout, Arp(ol.peer))
             /\ lhost' = [lhost EXCEPT !.sndbuf = Append(rest, ol)]
  /\ UNCHANGED <<rin, p>> /\ Same

------------------------------------------------------------------------------
(* udp_server_entry: nrecvfrom and nsendto in turn.                         *)
ServerStep(v) ==
  /\ alive /\ u' = v
  /\ UNCHANGED <<alive, stack, t, world, ghosts, traffic, remote>>

(* nrecvfrom takes a fragment under the mutex, or waits.                    *)
Dequeue ==
  /\ u.pc = "try"
  /\ IF lhost.rcvbuf = <<>>
     THEN ServerStep([u EXCEPT !.pc = "hold"]) /\ UNCHANGED lhost
     ELSE /\ ServerStep([pc |-> "copy", ol |-> Head(lhost.rcvbuf)])
          /\ lhost' = [lhost EXCEPT !.rcvbuf = Tail(@)]

CondWait ==
  /\ u.pc = "hold"
  /\ ServerStep([u EXCEPT !.pc = "wait"]) /\ UNCHANGED lhost

SpuriousUdp ==
  /\ u.pc = "wait"
  /\ ServerStep([u EXCEPT !.pc = "try"]) /\ UNCHANGED lhost

(* Mutant of nrecvfrom: what is put back begins where it began before.      *)
nrecvfrom_same ==
  /\ u.pc = "copy"
  /\ LET B == UDP_APP_RECV_BUFFER_SIZE IN
       lhost' = IF B < u.ol.length
                THEN [lhost EXCEPT !.rcvbuf =
                        Append(@, offload(u.ol.peer, u.ol.msg, u.ol.off, u.ol.length - B))]
                ELSE lhost
  /\ ServerStep([u EXCEPT !.pc = "send"])

(* A fragment longer than the buffer is cut, and the rest goes to the tail  *)
(* of rcvbuf; the mutex has been given back before.                         *)
nrecvfrom ==
  /\ u.pc = "copy"
  /\ LET B == UDP_APP_RECV_BUFFER_SIZE IN
       lhost' = IF B < u.ol.length
                THEN [lhost EXCEPT !.rcvbuf =
                        Append(@, offload(u.ol.peer, u.ol.msg, u.ol.off + B, u.ol.length - B))]
                ELSE lhost
  /\ ServerStep([u EXCEPT !.pc = "send"])

(* nsendto is given strlen(buffer) bytes; of no bytes rte_malloc makes no   *)
(* copy, and nsendto returns -1.  The server goes on either way.            *)
nsendto ==
  /\ u.pc = "send"
  /\ lhost' = IF IsEmpty(u.ol.peer, u.ol.msg, u.ol.off) THEN lhost
              ELSE [lhost EXCEPT !.sndbuf = Append(@, offload(u.ol.peer, u.ol.msg, u.ol.off, 0))]
  /\ ServerStep([pc |-> "try", ol |-> NoOffload])

udp_server_entry == Dequeue \/ CondWait \/ nrecvfrom \/ nsendto

------------------------------------------------------------------------------
(* The three threads have started and both servers have their sockets.      *)
StackInit ==
  /\ Init
  /\ traffic \in Traffic /\ traffic.script = script
  /\ lhost = [rcvbuf |-> <<>>, sndbuf |-> <<>>]
  /\ u = [pc |-> "try", ol |-> NoOffload]
  /\ remote = [c \in UdpHost |-> [n |-> 0, echoes |-> <<>>, ping |-> "no", ask |-> "no"]]

Hosts == \E c \in UdpHost : SendDatagram(c) \/ Ping(c) \/ AskAddress(c)

PacketsUdp == arp_request \/ ng_send_icmp \/ udp_process \/ SignalUdp

StackNext ==
  \/ Next /\ UNCHANGED udp
  \/ Hosts \/ TransmitUdp \/ arp_request_timer_cb
  \/ PacketsUdp \/ udp_out
  \/ udp_server_entry \/ SpuriousUdp

(* pkt_process handles whatever is next in the in ring and calls udp_out    *)
(* and ng_tcp_out in every round; the servers and the main thread run on    *)
(* cores of their own.  Nobody is owed an answer to an ARP request.         *)
StackSpec ==
  /\ StackInit /\ [][StackNext]_all
  /\ SF_all((Packets /\ UNCHANGED udp) \/ PacketsUdp)
  /\ WF_all((Transmit /\ UNCHANGED udp) \/ TransmitUdp)
  /\ WF_all(App /\ UNCHANGED udp) /\ WF_all(udp_server_entry)
  /\ SF_all(udp_out)
  /\ \A c \in Client : WF_all(ng_tcp_out(c) /\ UNCHANGED udp)

------------------------------------------------------------------------------
(* Type invariant of the whole stack, and no stream freed under the server. *)
(* The code behaviour behind it: the one of TypeOK; pkt_process frees no    *)
(* stream the TCP server works on; and rcvbuf holds no empty fragments.     *)
StackConsistent ==
  /\ TypeOK /\ NoStreamFreedInUse
  /\ u.pc \in {"try", "hold", "wait", "copy", "send"}
  /\ u.pc \in {"copy", "send"} => u.ol.peer \in UdpHost
  /\ \A i \in 1 .. Len(lhost.rcvbuf) : lhost.rcvbuf[i].length > 0
  /\ \A c \in UdpHost : remote[c].n \in 0 .. Len(traffic.udp[c])

(* No thread waits over work: neither server, in naccept, nrecv or          *)
(* nrecvfrom, waits while there is something for it and no signal is on its *)
(* way.                                                                     *)
NoLostWakeups ==
  /\ NoLostWakeup
  /\ u.pc = "wait" /\ lhost.rcvbuf # <<>> => p.pc = "udp_signal"

(* The pieces of a datagram; and those in a ring or a queue, each with its  *)
(* place.                                                                   *)
Pieces(c, d) == {o \in 0 .. Length(c, d) - 1 : o % UDP_APP_RECV_BUFFER_SIZE = 0}

Queued(place, q, c, d) ==
  {<<place, i, q[i].off>> : i \in {j \in 1 .. Len(q) : q[j].peer = c /\ q[j].msg = d}}

Flying(place, q, c, d) ==
  {<<place, i, q[i].seq>> :
     i \in {j \in 1 .. Len(q) : q[j].kind = "udp" /\ q[j].peer = c /\ q[j].msg = d}}

Heard(q, d) == {<<"host", i, q[i][2]>> : i \in {j \in 1 .. Len(q) : q[j][1] = d}}

(* The pieces still in the stack, and those echoed.                         *)
Unanswered(c, d) ==
  Flying("in", rin, c, d) \cup Queued("rcvbuf", lhost.rcvbuf, c, d)
    \cup (IF u.pc \in {"copy", "send"} THEN Queued("server", <<u.ol>>, c, d) ELSE {})

Echoed(c, d) ==
  Queued("sndbuf", lhost.sndbuf, c, d) \cup Flying("out", rout, c, d)
    \cup Heard(remote[c].echoes, d)

(* A datagram is answered in pieces of the buffer's size, each of them once *)
(* and to its own sender, although pieces and datagrams overtake each other *)
(* in rcvbuf and echoes in sndbuf: at any time the pieces echoed are those  *)
(* before the one that is still in the stack, and all of them when none is, *)
(* but for the ones that begin with a zero byte, which are never echoed.    *)
DatagramsAnsweredOnce ==
  \A c \in UdpHost : \A d \in 1 .. remote[c].n :
    LET rest == Unanswered(c, d)
        done == Echoed(c, d)
    IN /\ \A x, y \in done \cup rest : x[3] = y[3] => x = y
       /\ {x[3] : x \in done} =
            {o \in Pieces(c, d) : ~IsEmpty(c, d, o) /\ \A x \in rest : o < x[3]}

(* An echo or the answer to a ping that has not arrived.                    *)
Outstanding ==
  \/ \E c \in UdpHost \ Deaf : \E d \in 1 .. remote[c].n : \E o \in Pieces(c, d) :
       ~IsEmpty(c, d, o) /\ <<d, o>> \notin ToSet(remote[c].echoes)
  \/ \E c \in UdpHost : remote[c].ping = "sent"

(* Every message of a TCP client, the data of a segment with PSH, is read,  *)
(* and to its end unless the client's FIN comes in between; every piece of  *)
(* a datagram of a host that answers ARP is echoed to it, unless it begins  *)
(* with a zero byte, although the echoes to hosts that do not answer stay   *)
(* in the same sndbuf for ever; and every ping is answered, whoever sent    *)
(* it.  What is sent and what is answered only grow, so it is enough that   *)
(* again and again nothing is outstanding.                                  *)
EveryoneAnswered ==
  []<>(~alive \/ ((missed \/ ~Unread) /\ ~Outstanding))
==============================================================================
