------------------------------- MODULE Proactor -------------------------------
(***************************************************************************)
(* The kvstore's proactor front end (12_1/proactor.c) on io_uring: one     *)
(* thread that submits operations, waits, and handles completions in       *)
(* batches.  Every recv writes the one buffer and every send reads the one *)
(* response, whatever connection they belong to.  The kernel performs the  *)
(* operations between any two steps of the thread.                         *)
(*                                                                         *)
(* The buffer is never cleared, and the handler is given no length: it     *)
(* reads up to the first zero byte, so what an earlier, longer message     *)
(* left behind a request is read as part of it.  A request is known by its *)
(* connection and number, and its text by which of its bytes are blanks:   *)
(* "x" is any other byte, "0" the zero byte.                               *)
(***************************************************************************)
EXTENDS Integers, Sequences, FiniteSets, SequencesExt, FiniteSetsExt

CONSTANTS
  Conn,            \* the connections clients make, standing for their descriptors
  Workload,        \* bound: what the clients do
  BUFFER_LENGTH,   \* bytes of buffer
  ENTRIES_LENGTH,  \* the submission queue
  BATCH,           \* the completions of one batch
  Listen,          \* the listening descriptor
  NoFd             \* a descriptor that accept could not make

Text == Seq({"x", " "})

(* Requests are words with one blank between them, and shorter than the     *)
(* buffer.  One accept is pending at a time and only it leads to two        *)
(* submissions.                                                             *)
ASSUME ProactorAssumption ==
  /\ IsFiniteSet(Conn) /\ Listen \notin Conn /\ NoFd \notin Conn
  /\ BATCH \in Nat \ {0} /\ ENTRIES_LENGTH > BATCH
  /\ BUFFER_LENGTH \in Nat
  /\ \A w \in Workload :
       /\ w.sends \in [Conn -> Seq(Text)] /\ w.resets \subseteq Conn
       /\ w.limit \in Nat \ {0} /\ w.turns \in BOOLEAN
       /\ \A c \in Conn : \A i \in 1 .. Len(w.sends[c]) :
            LET m == w.sends[c][i] IN
              /\ Len(m) \in 1 .. BUFFER_LENGTH - 1 /\ m[1] = "x" /\ m[Len(m)] = "x"
              /\ \A k \in 1 .. Len(m) - 1 : m[k] = "x" \/ m[k + 1] = "x"

VARIABLES
  work,      \* the workload of this behaviour
  ring,      \* sq, the operations the kernel has, and the completions in order
  pc,        \* the thread: submitting, or handling completion i of nready
  up,        \* the process runs
  buffer,    \* the request received last and the bytes there are
  response,  \* the answer in response: to which request, read with how many bytes more
  conn,      \* each connection: the socket and the client's end
  backlog    \* connections waiting for accept

vars == <<work, ring, pc, up, buffer, response, conn, backlog>>

Nobody == <<NoFd, 0>>

Op(event, fd) == [event |-> event, fd |-> fd]

------------------------------------------------------------------------------
(* The clients, which send a request when they have the answer to the last  *)
(* one; in turns: when nobody waits for an answer.                          *)
Waiting(c) == conn[c].n > Len(conn[c].replies)

MayUse(c) ==
  /\ conn[c].st \in {"backlog", "open"} /\ ~conn[c].eof /\ conn[c].reset = "no"
  /\ ~Waiting(c)

Connect(c) ==
  /\ conn[c].st = "idle" /\ work.sends[c] # <<>>
  /\ conn' = [conn EXCEPT ![c].st = "backlog"]
  /\ backlog' = Append(backlog, c)
  /\ UNCHANGED <<work, ring, pc, up, buffer, response>>

Send(c) ==
  /\ MayUse(c) /\ conn[c].n < Len(work.sends[c])
  /\ work.turns => \A d \in Conn : ~Waiting(d)
  /\ conn' = [conn EXCEPT ![c].n = @ + 1, ![c].rx = TRUE]
  /\ UNCHANGED <<work, ring, pc, up, buffer, response, backlog>>

Shutdown(c) ==
  /\ MayUse(c) /\ conn[c].n = Len(work.sends[c])
  /\ conn' = [conn EXCEPT ![c].eof = TRUE]
  /\ UNCHANGED <<work, ring, pc, up, buffer, response, backlog>>

Reset(c) ==
  /\ c \in work.resets /\ conn[c].st = "open" /\ conn[c].reset = "no"
  /\ conn' = [conn EXCEPT ![c].reset = "err", ![c].rx = FALSE]
  /\ UNCHANGED <<work, ring, pc, up, buffer, response, backlog>>

------------------------------------------------------------------------------
(* io_uring.  An operation that can complete does so at any time: its       *)
(* effect on the socket and on the buffer, and a completion at the tail of  *)
(* the queue.                                                               *)
Cqe(op, res) == [event |-> op.event, fd |-> op.fd, res |-> res]

Completed(op, res) == [ring EXCEPT !.fly = @ \ {op}, !.cq = Append(@, Cqe(op, res))]

Opens == {c \in Conn : conn[c].st = "open"}

AcceptDone(op) ==
  /\ op.event = "ACCEPT" /\ backlog # <<>>
  /\ IF Cardinality(Opens) < work.limit
     THEN /\ ring' = Completed(op, Head(backlog))
          /\ conn' = [conn EXCEPT ![Head(backlog)].st = "open"]
          /\ backlog' = Tail(backlog)
     ELSE /\ ring' = Completed(op, NoFd)
          /\ UNCHANGED <<conn, backlog>>
  /\ UNCHANGED <<work, pc, up, buffer, response>>

(* recv writes the bytes it received and leaves those behind them.          *)
Overwritten(bytes, text) == text \o SubSeq(bytes, Len(text) + 1, BUFFER_LENGTH)

(* recv: data, the end, or an error.                                        *)
RecvDone(op) ==
  LET c == op.fd IN
    /\ op.event = "READ"
    /\ \/ /\ conn[c].reset = "err"
          /\ ring' = Completed(op, -1)
          /\ conn' = [conn EXCEPT ![c].reset = "seen"]
          /\ UNCHANGED buffer
       \/ /\ conn[c].reset # "err" /\ conn[c].rx
          /\ ring' = Completed(op, 1)
          /\ conn' = [conn EXCEPT ![c].rx = FALSE]
          /\ buffer' = [msg |-> <<c, conn[c].n>>,
                        bytes |-> Overwritten(buffer.bytes, work.sends[c][conn[c].n])]
       \/ /\ conn[c].reset # "err" /\ ~conn[c].rx
          /\ conn[c].eof \/ conn[c].reset = "seen"
          /\ ring' = Completed(op, 0)
          /\ UNCHANGED <<conn, buffer>>
    /\ UNCHANGED <<work, pc, up, response, backlog>>

SendDone(op) ==
  LET c == op.fd IN
    /\ op.event = "WRITE"
    /\ \/ /\ conn[c].reset = "no"
          /\ ring' = Completed(op, 1)
          /\ conn' = [conn EXCEPT ![c].replies = Append(@, response)]
       \/ /\ conn[c].reset # "no"
          /\ ring' = Completed(op, -1)
          /\ conn' = [conn EXCEPT ![c].reset = "seen"]
    /\ UNCHANGED <<work, pc, up, buffer, response, backlog>>

Kernel(op) == AcceptDone(op) \/ RecvDone(op) \/ SendDone(op)

------------------------------------------------------------------------------
(* The thread.  io_uring_get_sqe takes the next entry of the submission     *)
(* queue.                                                                   *)
io_uring_get_sqe(r, op) == [r EXCEPT !.sq = Append(@, op)]

set_event_accept(r) == io_uring_get_sqe(r, Op("ACCEPT", Listen))

set_event_recv(r, fd) == io_uring_get_sqe(r, Op("READ", fd))

set_event_send(r, fd) == io_uring_get_sqe(r, Op("WRITE", fd))

(* A recv on what is no descriptor fails at once.                           *)
io_uring_submit ==
  /\ pc.at = "submit"
  /\ LET bad == SelectSeq(ring.sq, LAMBDA o : o.fd = NoFd) IN
       ring' = [sq |-> <<>>, fly |-> ring.fly \cup (ToSet(ring.sq) \ ToSet(bad)),
                cq |-> ring.cq \o [k \in 1 .. Len(bad) |-> Cqe(bad[k], -1)]]
  /\ pc' = [pc EXCEPT !.at = "wait"]
  /\ UNCHANGED <<work, up, buffer, response, conn, backlog>>

Nready == Min({BATCH, Len(ring.cq)})

io_uring_wait_cqe ==
  /\ pc.at = "wait" /\ ring.cq # <<>>
  /\ pc' = [at |-> "batch", i |-> 1, nready |-> Nready]
  /\ UNCHANGED <<work, ring, up, buffer, response, conn, backlog>>

Entry == ring.cq[pc.i]

Handling(event) == pc.at = "batch" /\ pc.i <= pc.nready /\ Entry.event = event

Handled(r) == ring' = r /\ pc' = [pc EXCEPT !.i = @ + 1]

(* The next accept, and a recv on whatever this one returned.               *)
OnAccept ==
  /\ Handling("ACCEPT")
  /\ Handled(set_event_recv(set_event_accept(ring), Entry.res))
  /\ UNCHANGED <<work, up, buffer, response, conn, backlog>>

(* What there is to read: the bytes before the first zero byte.             *)
ReadLength == SelectInSeq(buffer.bytes, LAMBDA b : b = "0") - 1

(* Mutant of kvs_handler: the answer of the message before.                 *)
kvs_handler_stale == response

(* The answer stands for what was read: a request, and the bytes after it.  *)
kvs_handler ==
  [msg |-> buffer.msg, more |-> ReadLength - Len(work.sends[buffer.msg[1]][buffer.msg[2]])]

(* strtok has put a zero byte in the place of every blank it met.           *)
kvs_split_token ==
  [buffer EXCEPT !.bytes =
     [k \in 1 .. BUFFER_LENGTH |-> IF k <= ReadLength /\ @[k] = " " THEN "0" ELSE @[k]]]

(* Mutant of Answering: it waits for the next message at once.              *)
Answering_none(fd) == set_event_recv(ring, fd)

Answering(fd) == set_event_send(ring, fd)

(* The handler answers what is in buffer now, or ends the process: by the   *)
(* assertion on an unknown command, which any message with bytes more may   *)
(* be, or within an engine.  Nothing follows an error.                      *)
OnRead ==
  /\ Handling("READ")
  /\ \/ /\ Entry.res = 0
        /\ conn' = [conn EXCEPT ![Entry.fd].st = "closed"]
        /\ Handled(ring)
        /\ UNCHANGED <<up, buffer, response>>
     \/ /\ Entry.res > 0
        /\ response' = kvs_handler /\ buffer' = kvs_split_token
        /\ Handled(Answering(Entry.fd))
        /\ UNCHANGED <<up, conn>>
     \/ /\ Entry.res > 0
        /\ up' = FALSE
        /\ UNCHANGED <<ring, pc, buffer, response, conn>>
     \/ /\ Entry.res < 0
        /\ Handled(ring)
        /\ UNCHANGED <<up, buffer, response, conn>>
  /\ UNCHANGED <<work, backlog>>

(* Mutant of OnWrite: the next recv is armed twice.                         *)
OnWrite_twice ==
  /\ Handling("WRITE")
  /\ Handled(set_event_recv(set_event_recv(ring, Entry.fd), Entry.fd))
  /\ UNCHANGED <<work, up, buffer, response, conn, backlog>>

(* The next recv, whatever became of the send.                              *)
OnWrite ==
  /\ Handling("WRITE")
  /\ Handled(set_event_recv(ring, Entry.fd))
  /\ UNCHANGED <<work, up, buffer, response, conn, backlog>>

io_uring_cq_advance ==
  /\ pc.at = "batch" /\ pc.i > pc.nready
  /\ ring' = [ring EXCEPT !.cq = SubSeq(@, pc.nready + 1, Len(@))]
  /\ pc' = [at |-> "submit", i |-> 0, nready |-> 0]
  /\ UNCHANGED <<work, up, buffer, response, conn, backlog>>

------------------------------------------------------------------------------
(* The first accept is queued.                                              *)
Init ==
  /\ work \in Workload
  /\ ring = [sq |-> <<Op("ACCEPT", Listen)>>, fly |-> {}, cq |-> <<>>]
  /\ pc = [at |-> "submit", i |-> 0, nready |-> 0]
  /\ up = TRUE
  /\ buffer = [msg |-> Nobody, bytes |-> [k \in 1 .. BUFFER_LENGTH |-> "0"]]
  /\ response = [msg |-> Nobody, more |-> 0]
  /\ conn = [c \in Conn |-> [st |-> "idle", eof |-> FALSE, reset |-> "no", n |-> 0,
                             rx |-> FALSE, replies |-> <<>>]]
  /\ backlog = <<>>

Client == \E c \in Conn : Connect(c) \/ Send(c) \/ Shutdown(c) \/ Reset(c)

proactor_start ==
  \/ io_uring_submit \/ io_uring_wait_cqe \/ OnAccept \/ OnRead \/ OnWrite
  \/ io_uring_cq_advance

KernelStep == \E op \in ring.fly : Kernel(op)

Next == up /\ (Client \/ proactor_start \/ KernelStep)

(* The operation of a descriptor completes.                                 *)
Completes(fd) == up /\ \E op \in ring.fly : op.fd = fd /\ Kernel(op)

(* The thread runs, and the kernel performs what can be performed.          *)
Spec ==
  /\ Init /\ [][Next]_vars
  /\ WF_vars(up /\ proactor_start) /\ \A fd \in Conn \cup {Listen} : WF_vars(Completes(fd))

------------------------------------------------------------------------------
(* Type invariant.  The code behaviour behind it: the tags of operations    *)
(* and completions, and the walk over a batch.                              *)
TypeOK ==
  /\ work \in Workload
  /\ \A o \in ToSet(ring.sq) \cup ring.fly :
       o.event \in {"ACCEPT", "READ", "WRITE"} /\ o.fd \in Conn \cup {Listen, NoFd}
  /\ pc.at \in {"submit", "wait", "batch"} /\ pc.nready \in 0 .. BATCH
  /\ pc.i \in 0 .. BATCH + 1 /\ pc.nready <= Len(ring.cq)
  /\ up \in BOOLEAN
  /\ buffer.msg \in (Conn \cup {NoFd}) \X Nat /\ response.msg \in (Conn \cup {NoFd}) \X Nat
  /\ Len(buffer.bytes) = BUFFER_LENGTH /\ buffer.bytes[BUFFER_LENGTH] = "0"
  /\ ToSet(backlog) \subseteq Conn

(* Operations and unhandled completions of a descriptor, in all queues.     *)
Unhandled == SubSeq(ring.cq, IF pc.at = "batch" THEN pc.i ELSE 1, Len(ring.cq))

Pending(fd) ==
  Len(SelectSeq(ring.sq, LAMBDA o : o.fd = fd)) + Cardinality({o \in ring.fly : o.fd = fd})
  + Len(SelectSeq(Unhandled, LAMBDA o : o.fd = fd))

Arriving(c) == \E i \in 1 .. Len(Unhandled) : Unhandled[i].event = "ACCEPT" /\ Unhandled[i].res = c

(* One accept is always pending, and one operation per open connection: its *)
(* recv or its send, never both, so no two operations of a connection use   *)
(* the buffers at once; only a connection whose recv failed has none, and   *)
(* is never closed.  A closed connection has none, and the submission queue *)
(* never runs out of entries within a batch.                                *)
OneOperationEach ==
  /\ TypeOK
  /\ Pending(Listen) = 1
  /\ \A c \in Conn :
       Pending(c) = IF conn[c].st # "open" \/ Arriving(c) THEN 0
                    ELSE IF conn[c].reset = "seen" THEN Pending(c) ELSE 1
  /\ \A c \in Conn : Pending(c) <= 1
  /\ Len(ring.sq) <= ENTRIES_LENGTH

(* Clients that take turns are answered for their own requests, in order,   *)
(* although every pending recv may write the same buffer.  The answer is to *)
(* the request alone unless a longer request came before it, of whichever   *)
(* client: then what that one left in the buffer may be read with it.       *)
TurnsGetOwnReplies ==
  work.turns =>
    \A c \in Conn : \A i \in 1 .. Len(conn[c].replies) :
      /\ conn[c].replies[i].msg = <<c, i>>
      /\ conn[c].replies[i].more = 0
         \/ \E d \in Conn : \E j \in 1 .. conn[d].n :
              Len(work.sends[d][j]) > Len(work.sends[c][i])

(* A request on a connection is answered, with some answer, unless the      *)
(* client aborts, the server has no descriptor for the connection, or the   *)
(* process ends.                                                            *)
EveryRequestAnswered ==
  \A c \in Conn :
    (Waiting(c) /\ conn[c].st = "open") ~> (~Waiting(c) \/ conn[c].reset # "no" \/ ~up)
===============================================================================
