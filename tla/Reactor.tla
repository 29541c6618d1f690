------------------------------- MODULE Reactor -------------------------------
(***************************************************************************)
(* The network front end of the kvstore (12_1/reactor.c): one thread, one  *)
(* epoll instance, blocking sockets, and a connection slot per descriptor. *)
(* Clients connect, send, and disconnect at any time, also between         *)
(* epoll_wait and the callback for an event it returned.                   *)
(*                                                                         *)
(* What a client sends is a sequence of pieces, two to a request, which is *)
(* what TCP may cut it into: piece i of connection c is <<c, i>>.  A       *)
(* message is what one recv returns, and a reply is told by the message    *)
(* that kvs_protocol was called with.                                      *)
(***************************************************************************)
EXTENDS Integers, Sequences, FiniteSets, SequencesExt

CONSTANTS
  Conn,           \* the connections clients make
  NumFds,         \* descriptors the process may have besides the listener's
  BUFFER_LENGTH,  \* pieces that fit into rbuffer
  MaxSend,        \* bound: pieces a client sends on each connection
  NULL            \* no connection

ASSUME ConstantAssumption ==
  /\ NumFds \in Nat \ {0}
  /\ BUFFER_LENGTH \in Nat \ {0}
  /\ MaxSend \in [Conn -> Nat]
  /\ NULL \notin Conn

Fd == 1 .. NumFds
listenfd == 0

VARIABLES
  \* the kernel
  backlog,   \* connections not accepted yet
  file,      \* the connection behind each open descriptor
  interest,  \* the event each descriptor is registered for
  stream,    \* pieces in the receive buffer of each connection
  fin,       \* connections the client has closed
  rst,       \* connections reset because the server sent to a closed client
  \* the clients
  sent,      \* pieces sent on each connection
  got,       \* replies sent to each connection
  \* the server
  events,    \* what is left of the array epoll_wait returned
  wbuffer,   \* conn_list[fd].wbuffer
  up         \* the process runs

kernel == <<backlog, file, interest, stream, fin, rst>>
clients == <<sent, got>>
vars == <<backlog, file, interest, stream, fin, rst, sent, got, events, wbuffer, up>>

(* What a client may send on a connection, in pieces, and what one recv    *)
(* may return.                                                             *)
PieceOf(c) == {c} \X (1 .. MaxSend[c])

Piece == UNION {PieceOf(c) : c \in Conn}

Message == {msg \in Seq(Piece) : Len(msg) <= BUFFER_LENGTH}

(* Type invariant.  The code behaviour behind it: recv is bounded by the   *)
(* length of rbuffer, and event_register never sees a failed accept.       *)
TypeOK ==
  /\ backlog \in Seq(Conn)
  /\ file \in [Fd -> Conn \cup {NULL}]
  /\ interest \in [Fd -> {"none", "IN", "OUT"}]
  /\ stream \in [Conn -> Seq(Piece)]
  /\ fin \subseteq Conn /\ rst \subseteq Conn
  /\ sent \in [Conn -> Nat] /\ \A c \in Conn : sent[c] <= MaxSend[c]
  /\ got \in [Conn -> Seq(Message)]
  /\ events \in Seq([fd : Fd \cup {listenfd}, event : {"IN", "OUT"}, conn : Conn \cup {NULL}])
  /\ wbuffer \in [Fd -> Message]
  /\ up \in BOOLEAN

------------------------------------------------------------------------------
(* The clients and the network.                                            *)
Connected == ToSet(backlog) \cup {file[fd] : fd \in {g \in Fd : file[g] # NULL}}

Fresh(c) == sent[c] = 0 /\ c \notin fin /\ c \notin Connected

Connect(c) ==
  /\ Fresh(c)
  /\ backlog' = Append(backlog, c)
  /\ UNCHANGED <<file, interest, stream, fin, rst, clients, events, wbuffer, up>>

Send(c) ==
  /\ c \in Connected /\ c \notin fin
  /\ sent[c] < MaxSend[c]
  /\ sent' = [sent EXCEPT ![c] = @ + 1]
  /\ stream' = [stream EXCEPT ![c] = Append(@, <<c, sent[c] + 1>>)]
  /\ UNCHANGED <<backlog, file, interest, fin, rst, got, events, wbuffer, up>>

Disconnect(c) ==
  /\ c \in Connected /\ c \notin fin
  /\ fin' = fin \cup {c}
  /\ UNCHANGED <<backlog, file, interest, stream, rst, clients, events, wbuffer, up>>

------------------------------------------------------------------------------
(* reactor_start's loop: epoll_wait returns every ready descriptor once,   *)
(* in any order.  A socket registered for OUT is always writable.  An event*)
(* is kept with the connection it was raised for, which the code does not  *)
(* know.                                                                   *)
Readable(fd) == interest[fd] = "IN" /\ (stream[file[fd]] # <<>> \/ file[fd] \in fin)

Ready ==
  {[fd |-> fd, event |-> interest[fd], conn |-> file[fd]] :
     fd \in {g \in Fd : Readable(g) \/ interest[g] = "OUT"}}
  \cup {[fd |-> listenfd, event |-> "IN", conn |-> NULL] : c \in ToSet(backlog)}

epoll_wait ==
  /\ up
  /\ events = <<>> /\ Ready # {}
  /\ events' \in SetToSeqs(Ready)
  /\ UNCHANGED <<kernel, clients, wbuffer, up>>

Event == Head(events)

(* Mutant of Dispatch: a connection's event stays in the array and is seen *)
(* once more.                                                              *)
Dispatch_again(fd, event) ==
  /\ up
  /\ events # <<>> /\ Event.fd = fd /\ Event.event = event
  /\ events' = IF fd = listenfd THEN Tail(events) ELSE events

(* The for loop takes the next event and calls the descriptor's callback.  *)
Dispatch(fd, event) ==
  /\ up
  /\ events # <<>> /\ Event.fd = fd /\ Event.event = event
  /\ events' = Tail(events)

FreeFds == {fd \in Fd : file[fd] = NULL}

(* event_register: the slot is cleared and the descriptor added to epoll.  *)
event_register(fd, event) ==
  /\ wbuffer' = [wbuffer EXCEPT ![fd] = <<>>]
  /\ interest' = [interest EXCEPT ![fd] = event]

set_event(fd, event) == interest' = [interest EXCEPT ![fd] = event]

(* accept_cb: the lowest free descriptor, or an error when there is none.  *)
accept_cb ==
  /\ Dispatch(listenfd, "IN")
  /\ \/ /\ FreeFds # {}
        /\ LET fd == CHOOSE f \in FreeFds : \A g \in FreeFds : f <= g
           IN /\ file' = [file EXCEPT ![fd] = Head(backlog)]
              /\ event_register(fd, "IN")
        /\ backlog' = Tail(backlog)
     \/ /\ FreeFds = {}
        /\ UNCHANGED <<file, wbuffer, interest, backlog>>
  /\ UNCHANGED <<stream, fin, rst, clients, up>>

(* close, which also takes the descriptor out of epoll.                    *)
close(fd) ==
  /\ file' = [file EXCEPT ![fd] = NULL]
  /\ interest' = [interest EXCEPT ![fd] = "none"]

(* kvs_protocol answers a whole request.  Anything else, a part of a       *)
(* request or several stuck together, is either taken for another request  *)
(* or fails the assertion on the command.                                  *)
Whole(msg) == Len(msg) = 2 /\ msg[1][2] % 2 = 1

kvs_request(fd, msg) ==
  \/ wbuffer' = [wbuffer EXCEPT ![fd] = msg] /\ UNCHANGED up
  \/ ~Whole(msg) /\ up' = FALSE /\ UNCHANGED wbuffer

recv(c) ==
  SubSeq(stream[c], 1, IF Len(stream[c]) < BUFFER_LENGTH THEN Len(stream[c]) ELSE BUFFER_LENGTH)

(* recv_cb: a message is answered into wbuffer and the descriptor is then  *)
(* registered for OUT; the end of the stream, or an error, closes it.      *)
recv_cb(fd) ==
  /\ Dispatch(fd, "IN")
  /\ LET c   == file[fd]
         msg == IF c = NULL THEN <<>> ELSE recv(c)
     IN \/ /\ msg # <<>>
           /\ stream' = [stream EXCEPT ![c] = SubSeq(@, Len(msg) + 1, Len(@))]
           /\ kvs_request(fd, msg)
           /\ set_event(fd, "OUT")
           /\ UNCHANGED file
        \/ /\ msg = <<>>
           /\ close(fd)
           /\ UNCHANGED <<stream, wbuffer, up>>
  /\ UNCHANGED <<backlog, fin, rst, clients>>

(* Mutant of send_cb: the descriptor stays registered for OUT.             *)
send_cb_again(fd) ==
  /\ Dispatch(fd, "OUT")
  /\ LET c == file[fd] IN got' = [got EXCEPT ![c] = Append(@, wbuffer[fd])]
  /\ UNCHANGED <<kernel, sent, wbuffer, up>>

(* Mutant of send_cb: the descriptor is not registered for IN again.       *)
send_cb_forget(fd) ==
  /\ Dispatch(fd, "OUT")
  /\ LET c == file[fd] IN got' = [got EXCEPT ![c] = Append(@, wbuffer[fd])]
  /\ set_event(fd, "none")
  /\ UNCHANGED <<backlog, file, stream, fin, rst, sent, wbuffer, up>>

(* send_cb: the reply is sent, or SIGPIPE ends the process when the        *)
(* connection was reset after an earlier send to a closed client.          *)
send_cb(fd) ==
  /\ Dispatch(fd, "OUT")
  /\ LET c == file[fd]
     IN \/ /\ c \notin rst
           /\ got' = [got EXCEPT ![c] = Append(@, wbuffer[fd])]
           /\ rst' \in {rst, rst \cup ({c} \cap fin)}
           /\ set_event(fd, "IN")
           /\ UNCHANGED up
        \/ /\ c \in rst
           /\ up' = FALSE
           /\ UNCHANGED <<got, rst, interest>>
  /\ UNCHANGED <<backlog, file, stream, fin, sent, wbuffer>>

(* A server that died is not started again.                                *)
Down == ~up /\ UNCHANGED vars

Idle == up /\ (\A c \in Conn : c \in fin) /\ Connected = {} /\ UNCHANGED vars

Init ==
  /\ backlog = <<>>
  /\ file = [fd \in Fd |-> NULL]
  /\ interest = [fd \in Fd |-> "none"]
  /\ stream = [c \in Conn |-> <<>>]
  /\ fin = {} /\ rst = {}
  /\ sent = [c \in Conn |-> 0]
  /\ got = [c \in Conn |-> <<>>]
  /\ events = <<>>
  /\ wbuffer = [fd \in Fd |-> <<>>]
  /\ up = TRUE

ServerStep ==
  \/ epoll_wait \/ accept_cb
  \/ \E fd \in Fd : recv_cb(fd) \/ send_cb(fd)

ClientStep == up /\ \E c \in Conn : Connect(c) \/ Send(c) \/ Disconnect(c)

Next == ServerStep \/ ClientStep \/ Down \/ Idle

Spec == Init /\ [][Next]_vars

(* The server's thread runs whenever it can; clients promise nothing.      *)
FairSpec == Spec /\ WF_vars(ServerStep)

------------------------------------------------------------------------------
Answering(c) == {fd \in Fd : file[fd] = c /\ interest[fd] = "OUT"}

(* Replies reach the connection whose bytes they answer, although slots    *)
(* and descriptors go from one connection to the next.                     *)
OwnReplies ==
  /\ \A c \in Conn : \A i \in 1 .. Len(got[c]) : \A j \in 1 .. Len(got[c][i]) :
       got[c][i][j][1] = c
  /\ \A c \in Conn : \A fd \in Answering(c) : \A j \in 1 .. Len(wbuffer[fd]) :
       wbuffer[fd][j][1] = c

Pending(c) ==
  IF Answering(c) = {} THEN <<>> ELSE wbuffer[CHOOSE fd \in Answering(c) : TRUE]

(* Replies reach their own connections, and while the server runs every    *)
(* piece of an open connection is, in the order it was sent, in a reply    *)
(* sent, in the reply being sent or still unread: nothing is lost, answered*)
(* twice or answered out of order.                                         *)
NothingLost ==
  /\ TypeOK /\ OwnReplies
  /\ up => \A c \in Connected :
             FlattenSeq(got[c]) \o Pending(c) \o stream[c] = [i \in 1 .. sent[c] |-> <<c, i>>]

(* An event is never handled for another connection than the one it was    *)
(* raised for: a descriptor closed and accepted again within one round of  *)
(* the loop has no event left in that round.                               *)
EventsFresh ==
  up => \A i \in 1 .. Len(events) :
          events[i].fd \in Fd =>
            /\ file[events[i].fd] = events[i].conn
            /\ interest[events[i].fd] = events[i].event

(* What an accepted client has sent is read, whatever the other clients do,*)
(* unless the server has died.                                             *)
Served ==
  \A c \in Conn :
    (stream[c] # <<>> /\ \E fd \in Fd : file[fd] = c) ~> (stream[c] = <<>> \/ ~up)
==============================================================================
