------------------------------ MODULE WebServer ------------------------------
(***************************************************************************)
(* The HTTP and WebSocket server (02/2.1network/2.1.3 http-server): the    *)
(* epoll loop of Reactor.c, the responses of webserver.c and the frames of *)
(* websocket.c.  What is built is chosen by #if: the fixed page ("page"),  *)
(* the file in one buffer ("file"), the file sent in three turns by its    *)
(* status together with the send_cb that follows the status ("sendfile"),  *)
(* or WebSocket ("ws").  The slot of a descriptor is not reset in full     *)
(* when the descriptor is used again: status and payload stay.             *)
(*                                                                         *)
(* A piece is what TCP delivers at once.  Of its text only the key line of *)
(* the handshake counts (missing, cut or whole), of its first bytes the    *)
(* second, which decode_packet reads as one bit of mask and seven of       *)
(* length, and the number behind them.                                     *)
(***************************************************************************)
EXTENDS Integers, Sequences, FiniteSets, SequencesExt, FiniteSetsExt

CONSTANTS
  Conn,           \* the connections clients make
  Fd,             \* the descriptors of connections and of the file, lowest first
  BUFFER_LENGTH,  \* bytes in rbuffer and in wbuffer
  Workload,       \* bound: the build, and the pieces each client sends
  Listen,         \* the listening descriptor
  None            \* nothing

Piece == [kind : {"http", "upgrade", "frame"},
          key : {"none", "start", "end", "all"},  \* of the key line
          byte : 0 .. 255, ext : Nat,             \* the second byte, the number behind it
          len : 1 .. BUFFER_LENGTH,
          exact : BOOLEAN, payload : Nat]         \* a whole frame in the code's own layout

ASSUME WebServerAssumption ==
  /\ IsFiniteSet(Conn) /\ IsFiniteSet(Fd) /\ Fd \subseteq Nat
  /\ BUFFER_LENGTH \in Nat
  /\ Listen \notin Fd /\ None \notin Conn
  /\ \A w \in Workload :
       /\ w.build \in {"page", "file", "sendfile", "ws"} /\ w.resets \subseteq Conn
       /\ \A c \in Conn : \A i \in 1 .. Len(w.sends[c]) : w.sends[c][i] \in Piece

VARIABLES
  work,       \* the workload of this behaviour
  up,         \* the process runs
  events,     \* the rest of the batch
  conn_list,  \* the slots of the descriptors
  interest,   \* the event each descriptor is registered for
  conn,       \* each connection: its socket, and what was read and sent
  backlog     \* connections waiting for accept

vars == <<work, up, events, conn_list, interest, conn, backlog>>

------------------------------------------------------------------------------
(* The clients.  One that speaks WebSocket sends frames after the answer to *)
(* its handshake, and what is unread never exceeds a buffer.                *)
Usable(c) == conn[c].st \in {"backlog", "open"} /\ ~conn[c].eof /\ conn[c].reset = "no"

Bytes(msg) == MapThenSumSet(LAMBDA i : msg[i].len, 1 .. Len(msg))

Accepted(c) == \E i \in 1 .. Len(conn[c].replies) : conn[c].replies[i].what = "accept"

Connect(c) ==
  /\ conn[c].st = "idle" /\ up /\ work.sends[c] # <<>>
  /\ conn' = [conn EXCEPT ![c].st = "backlog"]
  /\ backlog' = Append(backlog, c)
  /\ UNCHANGED <<work, up, events, conn_list, interest>>

Send(c) ==
  /\ Usable(c) /\ conn[c].n < Len(work.sends[c])
  /\ LET p == work.sends[c][conn[c].n + 1] IN
       /\ p.kind = "frame" => Accepted(c)
       /\ Bytes(Append(conn[c].inbox, p)) <= BUFFER_LENGTH
       /\ conn' = [conn EXCEPT ![c].n = @ + 1, ![c].inbox = Append(@, p)]
  /\ UNCHANGED <<work, up, events, conn_list, interest, backlog>>

Shutdown(c) ==
  /\ Usable(c) /\ conn[c].n > 0
  /\ conn' = [conn EXCEPT ![c].eof = TRUE]
  /\ UNCHANGED <<work, up, events, conn_list, interest, backlog>>

Reset(c) ==
  /\ c \in work.resets /\ conn[c].st = "open" /\ conn[c].reset = "no"
  /\ conn' = [conn EXCEPT ![c].reset = "error", ![c].inbox = <<>>]
  /\ UNCHANGED <<work, up, events, conn_list, interest, backlog>>

------------------------------------------------------------------------------
(* main's loop.                                                             *)
On(fd) == {c \in Conn : conn[c].st = "open" /\ conn[c].fd = fd}

ConnOf(fd) == CHOOSE c \in On(fd) : TRUE

FreeFds == {fd \in Fd : On(fd) = {}}

Readable(c) == conn[c].inbox # <<>> \/ conn[c].eof \/ conn[c].reset # "no"

Fires ==
  {fd \in Fd : interest[fd] = "OUT" \/ (interest[fd] = "IN" /\ Readable(ConnOf(fd)))}
  \cup (IF backlog = <<>> THEN {} ELSE {Listen})

epoll_wait ==
  /\ up /\ events = <<>> /\ Fires # {}
  /\ \E batch \in SetToSeqs(Fires) :
       events' = [i \in 1 .. Len(batch) |->
                    [fd |-> batch[i],
                     event |-> IF batch[i] = Listen THEN "IN" ELSE interest[batch[i]]]]
  /\ UNCHANGED <<work, up, conn_list, interest, conn, backlog>>

IsEvent(fd, event) ==
  /\ up /\ events # <<>> /\ Head(events) = [fd |-> fd, event |-> event]
  /\ events' = Tail(events)

set_event(fd, event) == interest' = [interest EXCEPT ![fd] = event]

(* event_register clears the buffers of the slot and no more.               *)
event_register(fd) == [conn_list EXCEPT ![fd].wbuffer = None, ![fd].wlength = 0]

(* accept takes the lowest descriptor, and fails when there is none.        *)
accept_cb ==
  /\ IsEvent(Listen, "IN")
  /\ IF FreeFds = {} THEN UNCHANGED <<conn, backlog, conn_list, interest>>
     ELSE LET fd == Min(FreeFds) IN
          /\ conn' = [conn EXCEPT ![Head(backlog)].st = "open", ![Head(backlog)].fd = fd,
                                  ![Head(backlog)].fresh = (conn_list[fd].status = 0)]
          /\ backlog' = Tail(backlog)
          /\ conn_list' = event_register(fd)
          /\ set_event(fd, "IN")
  /\ UNCHANGED <<work, up>>

------------------------------------------------------------------------------
(* websocket.c.                                                             *)
(* The line with the key, as far as the message has it: handshark takes a   *)
(* line that the message ends for a whole one.                              *)
KeyLine(msg) ==
  IF \E i \in 1 .. Len(msg) : \/ msg[i].key = "all"
                              \/ msg[i].key = "end" /\ i > 1 /\ msg[i - 1].key = "start"
  THEN "all"
  ELSE IF \E i \in 1 .. Len(msg) : msg[i].key = "start" THEN "start" ELSE "none"

(* The digest of the key has 20 bytes, in four characters for each three.   *)
Base64Length(in_len) == 4 * ((in_len + 2) \div 3)

AcceptLength == 101 + Base64Length(20)

(* The answer to the handshake: for the key, for a part of it, or none.     *)
handshark(s, c, msg) ==
  IF KeyLine(msg) = "none" THEN s
  ELSE [s EXCEPT !.wbuffer = [what |-> IF KeyLine(msg) = "all" THEN "accept" ELSE "misaccept",
                              of |-> c, piece |-> None],
                 !.wlength = AcceptLength]

(* The second byte has the mask bit lowest, in the order the compiler lays  *)
(* the bit fields out.                                                      *)
nty_ophdr(byte) == [mask |-> byte % 2, payload_length |-> byte \div 2]

decode_packet(p) ==
  LET mask   == nty_ophdr(p.byte).mask
      length == nty_ophdr(p.byte).payload_length
      wide   == mask = 1 /\ length \in {126, 127}
  IN [size  |-> IF wide THEN p.ext ELSE length,
      start |-> 2 + 4 * mask + (IF ~wide THEN 0 ELSE IF length = 126 THEN 2 ELSE 8)]

(* Mutant of EncodedHeader: the data of the long headers is counted.        *)
EncodedHeader_whole(length) == IF length < 126 THEN 2 ELSE IF length < 65535 THEN 16 ELSE 22

(* The long headers have room for a mask.                                   *)
EncodedHeader(length) == IF length < 126 THEN 2 ELSE IF length < 65535 THEN 8 ELSE 14

encode_packet(s) ==
  [s EXCEPT !.wbuffer = [what |-> "echo", of |-> s.payload.of, piece |-> s.payload.piece],
            !.wlength = EncodedHeader(@) + @]

(* The first message is the handshake, found or not; a later one is a frame,*)
(* and one without payload leaves the answer before it in wbuffer.          *)
ws_request(s, c, msg) ==
  LET d == decode_packet(msg[1]) IN
  CASE s.status = 0 -> [handshark(s, c, msg) EXCEPT !.status = 1]
    [] s.status = 1 /\ d.size > 0 ->
         [s EXCEPT !.payload = [of |-> c, piece |-> msg[1], end |-> d.start + d.size],
                   !.wlength = d.size, !.status = 2]
    [] OTHER -> s

ws_response(s) == IF s.status = 2 THEN [encode_packet(s) EXCEPT !.status = 1] ELSE s

------------------------------------------------------------------------------
(* webserver.c.                                                             *)
http_requset(s) == [s EXCEPT !.wbuffer = None, !.wlength = 0, !.status = 0]

PageLength == 205

HeaderLength == 124

Http(what, c) == [what |-> what, of |-> c, piece |-> None]

(* open, in every turn but those of the fixed page.                         *)
Opens == FreeFds # {}

(* Without a descriptor the size in the header is whatever was on the stack *)
(* and nothing is read: read's -1 even takes the header's last byte.        *)
Header(c) == Http(IF Opens THEN "header" ELSE "misheader", c)

FilePage(s, c) ==
  IF Opens THEN [s EXCEPT !.wbuffer = Http("page", c), !.wlength = BUFFER_LENGTH]
           ELSE [s EXCEPT !.wbuffer = Header(c), !.wlength = HeaderLength - 1]

(* Mutant of http_response: the last turn does not begin anew.              *)
http_response_stuck(s, c) ==
  CASE work.build = "page" -> [s EXCEPT !.wbuffer = Http("page", c), !.wlength = PageLength]
    [] work.build = "file" -> FilePage(s, c)
    [] work.build = "sendfile" /\ s.status = 0 ->
         [s EXCEPT !.wbuffer = Header(c), !.wlength = HeaderLength, !.status = 1]
    [] work.build = "sendfile" /\ s.status = 1 -> [s EXCEPT !.status = 2]
    [] OTHER -> [s EXCEPT !.wbuffer = None, !.wlength = 0]

(* The page at once; or the header, then the file, then the end: a turn     *)
(* each.                                                                    *)
http_response(s, c) ==
  CASE work.build = "page" -> [s EXCEPT !.wbuffer = Http("page", c), !.wlength = PageLength]
    [] work.build = "file" -> FilePage(s, c)
    [] work.build = "sendfile" /\ s.status = 0 ->
         [s EXCEPT !.wbuffer = Header(c), !.wlength = HeaderLength, !.status = 1]
    [] work.build = "sendfile" /\ s.status = 1 -> [s EXCEPT !.status = 2]
    [] OTHER -> [s EXCEPT !.wbuffer = None, !.wlength = 0, !.status = 0]

------------------------------------------------------------------------------
request(s, c, msg) == IF work.build = "ws" THEN ws_request(s, c, msg) ELSE http_requset(s)

(* All that is there is read at once.                                       *)
recv_data(fd) ==
  /\ IsEvent(fd, "IN")
  /\ LET c == ConnOf(fd) IN
       /\ conn[c].inbox # <<>>
       /\ conn_list' = [conn_list EXCEPT ![fd] = request(@, c, conn[c].inbox)]
       /\ conn' = [conn EXCEPT ![c].inbox = <<>>, ![c].reads = Append(@, conn[c].inbox)]
  /\ set_event(fd, "OUT")
  /\ UNCHANGED <<work, up, backlog>>

(* The peer has ended or aborted the connection.                            *)
recv_end(fd) ==
  /\ IsEvent(fd, "IN")
  /\ LET c == ConnOf(fd) IN
       /\ conn[c].inbox = <<>>
       /\ conn' = [conn EXCEPT ![c].st = "closed"]
  /\ set_event(fd, "none")
  /\ UNCHANGED <<work, up, conn_list, backlog>>

response(s, c) == IF work.build = "ws" THEN ws_response(s) ELSE http_response(s, c)

(* sendfile without a descriptor fails and sends nothing.                   *)
SendFile(c) == IF Opens THEN <<Http("file", c)>> ELSE <<>>

(* Mutant of Sent: what is in wbuffer goes out before the response is made. *)
Sent_before(old, new, c) ==
  IF work.build # "sendfile" THEN IF old.wlength # 0 THEN <<old.wbuffer>> ELSE <<>>
  ELSE IF new.status = 1 THEN <<new.wbuffer>> ELSE IF old.status = 1 THEN SendFile(c) ELSE <<>>

(* What goes out in a turn that takes the slot from old to new: what is in  *)
(* wbuffer, or the file from the disk.                                      *)
Sent(old, new, c) ==
  IF work.build # "sendfile" THEN IF new.wlength # 0 THEN <<new.wbuffer>> ELSE <<>>
  ELSE IF new.status = 1 THEN <<new.wbuffer>> ELSE IF old.status = 1 THEN SendFile(c) ELSE <<>>

(* The event after a turn: the sendfile build goes on by its status.        *)
NextEvent(new) == IF work.build = "sendfile" /\ new.status # 0 THEN "OUT" ELSE "IN"

(* A turn that needs the file and cannot open it.                           *)
Starves(s) == work.build \in {"file", "sendfile"} /\ s.status # 2 /\ ~Opens

(* A send to a peer that has aborted fails once; the next one, or the first *)
(* when the peer had also ended its side, raises SIGPIPE.                   *)
send_cb(fd) ==
  /\ IsEvent(fd, "OUT")
  /\ LET c   == ConnOf(fd)
         new == response(conn_list[fd], c)
         out == Sent(conn_list[fd], new, c)
     IN /\ conn_list' = [conn_list EXCEPT ![fd] = new]
        /\ set_event(fd, NextEvent(new))
        /\ \/ /\ conn[c].reset = "no" \/ out = <<>>
              /\ conn' = [conn EXCEPT ![c].replies = @ \o out, ![c].starved = @ \/ Starves(conn_list[fd])]
              /\ UNCHANGED up
           \/ /\ conn[c].reset = "error" /\ ~conn[c].eof /\ out # <<>>
              /\ conn' = [conn EXCEPT ![c].reset = "told"]
              /\ UNCHANGED up
           \/ /\ conn[c].reset = "told" \/ (conn[c].reset = "error" /\ conn[c].eof)
              /\ out # <<>>
              /\ up' = FALSE
              /\ UNCHANGED conn
  /\ UNCHANGED <<work, backlog>>

------------------------------------------------------------------------------
(* The slots come from fresh pages.                                         *)
Init ==
  /\ work \in Workload
  /\ up = TRUE /\ events = <<>>
  /\ conn_list = [fd \in Fd |-> [status |-> 0, wbuffer |-> None, wlength |-> 0, payload |-> None]]
  /\ interest = [fd \in Fd |-> "none"]
  /\ conn = [c \in Conn |-> [st |-> "idle", fd |-> None, inbox |-> <<>>, n |-> 0, eof |-> FALSE,
                             reset |-> "no", reads |-> <<>>, replies |-> <<>>, fresh |-> FALSE,
                             starved |-> FALSE]]
  /\ backlog = <<>>

Client == \E c \in Conn : Connect(c) \/ Send(c) \/ Shutdown(c) \/ Reset(c)

Server ==
  \/ epoll_wait \/ accept_cb
  \/ \E fd \in Fd : recv_data(fd) \/ recv_end(fd) \/ send_cb(fd)

Next == Client \/ Server

(* The one thread runs; clients promise nothing.                            *)
Spec == Init /\ [][Next]_vars /\ WF_vars(Server)

------------------------------------------------------------------------------
(* Type invariant: a descriptor is registered exactly while one connection  *)
(* has it, and a slot's status is one of the three the code writes.         *)
TypeOK ==
  /\ work \in Workload /\ up \in BOOLEAN
  /\ interest \in [Fd -> {"none", "IN", "OUT"}]
  /\ \A fd \in Fd : Cardinality(On(fd)) <= 1 /\ (interest[fd] = "none" <=> On(fd) = {})
  /\ \A fd \in Fd : conn_list[fd].status \in 0 .. 2
  /\ ToSet(backlog) \subseteq Conn

(* The slot of a descriptor serves the connection that has it: an event is  *)
(* for the registration it was raised for, a payload is only answered to    *)
(* the connection whose frame it is, from within the read buffer, and what  *)
(* goes out is within the write buffer (event_register leaves status and    *)
(* payload to the next connection; the longest frame that one recv takes    *)
(* fills both buffers to the last byte).                                    *)
SlotsServeTheirOwner ==
  /\ TypeOK
  /\ \A i \in 1 .. Len(events) :
       events[i].fd # Listen => interest[events[i].fd] = events[i].event
  /\ \A fd \in Fd :
       /\ conn_list[fd].wlength <= BUFFER_LENGTH
       /\ work.build = "ws" /\ conn_list[fd].status = 2 =>
            /\ interest[fd] = "OUT"
            /\ conn_list[fd].payload.of = ConnOf(fd)
            /\ conn_list[fd].payload.end <= BUFFER_LENGTH

(* No turn is outstanding for a connection.                                 *)
Quiet(c) == conn[c].st = "closed" \/ (conn[c].st = "open" /\ interest[conn[c].fd] = "IN")

(* A WebSocket connection on a slot with no past, whose handshake came with *)
(* its whole key in one read, and whose later reads each begin with a whole *)
(* frame in the code's layout.                                              *)
Clean(c) ==
  /\ conn[c].fresh
  /\ conn[c].reads # <<>> => KeyLine(conn[c].reads[1]) = "all"
  /\ \A i \in 2 .. Len(conn[c].reads) : conn[c].reads[i][1].exact

(* What a clean connection is answered: the first frame of the last read    *)
(* that did not begin with an empty one, which repeats the answer before.   *)
(* What came in the same read behind the first frame is dropped.            *)
WsReply(c, i) ==
  LET j == Max({k \in 1 .. i : k = 1 \/ conn[c].reads[k][1].payload > 0})
  IN IF j = 1 THEN [what |-> "accept", of |-> c, piece |-> None]
     ELSE [what |-> "echo", of |-> c, piece |-> conn[c].reads[j][1]]

Expected(c) ==
  CASE work.build \in {"page", "file"} -> [i \in 1 .. Len(conn[c].reads) |-> Http("page", c)]
    [] work.build = "sendfile" ->
         [i \in 1 .. 2 * Len(conn[c].reads) |-> Http(IF i % 2 = 1 THEN "header" ELSE "file", c)]
    [] OTHER -> [i \in 1 .. Len(conn[c].reads) |-> WsReply(c, i)]

(* When no turn is outstanding each read has had one answer, whole and in   *)
(* order: a page, a header with its file, the accept of the key, the echo   *)
(* of the first frame in the read; frames that TCP glued behind that one in *)
(* the same read get none.  A file is lacking, or its header wrong, only    *)
(* for a client one of whose turns found no free descriptor; a WebSocket    *)
(* client is promised nothing on a slot with a past, after a handshake cut  *)
(* before the end of its key, and from a read on that begins with a frame   *)
(* cut or laid out otherwise.  Every reply is to the client's own message.  *)
RepliesWhole ==
  /\ \A c \in Conn : \A i \in 1 .. Len(conn[c].replies) : conn[c].replies[i].of = c
  /\ \A c \in Conn :
       /\ Quiet(c) /\ conn[c].reset = "no"
       /\ work.build \in {"file", "sendfile"} => ~conn[c].starved
       /\ work.build = "ws" => Clean(c)
       => conn[c].replies = Expected(c)

(* Again and again, unless the process has died, all that open connections  *)
(* have sent is read and answered and their descriptors wait for more.      *)
EveryReadAnswered ==
  []<>(~up \/ \A c \in Conn : conn[c].st = "open" => conn[c].inbox = <<>> /\ Quiet(c))
===============================================================================
