------------------------------ MODULE CoReactor ------------------------------
(***************************************************************************)
(* The reactor that answers HTTP requests in coroutines                    *)
(* (02/2.3 coroutine/reactor_coroutine.c and webserver.c): epoll callbacks *)
(* receive, make a coroutine for the descriptor's slot when it has none,   *)
(* and queue it; after each batch of events the queue is run empty.  A     *)
(* slot keeps its coroutine when the connection is closed and the          *)
(* descriptor is used again, and a coroutine that has finished is marked   *)
(* as suspended, so that it is neither made anew nor destroyed.            *)
(***************************************************************************)
EXTENDS Integers, Sequences, FiniteSets, SequencesExt, FiniteSetsExt

CONSTANTS
  Conn,      \* the connections clients make
  Fd,        \* the descriptors of connections, lowest first
  MaxCo,     \* bound: coroutines in memory
  Workload,  \* bound: what the clients do
  Listen,    \* the listening descriptor
  None       \* no connection, no coroutine

ASSUME CoReactorAssumption ==
  /\ IsFiniteSet(Conn) /\ IsFiniteSet(Fd) /\ Fd \subseteq Nat
  /\ MaxCo \in Nat /\ MaxCo >= Cardinality(Fd)
  /\ Listen \notin Fd /\ None \notin Conn
  /\ \A w \in Workload : /\ w.sends \in [Conn -> Nat]
                         /\ w.clients \subseteq Conn /\ w.resets \subseteq Conn

VARIABLES
  work,       \* the workload of this behaviour
  pc,         \* the thread: "poll", "events" or "execute", or "dead"
  events,     \* the rest of the batch
  ready,      \* the ready queue
  co,         \* the coroutines in memory
  conn_list,  \* the slots of the descriptors: the coroutine of each
  conn,       \* each connection: descriptor, socket and the client's end
  backlog     \* connections waiting for accept

vars == <<work, pc, events, ready, co, conn_list, conn, backlog>>

Co == 1 .. MaxCo

(* READY, SUSPEND and DEAD are the code's states; a coroutine is RUNNING    *)
(* between two steps only when its function has returned to the main        *)
(* context, and "freed" is not in memory.                                   *)
State == {"freed", "READY", "SUSPEND", "RUNNING", "DEAD"}

------------------------------------------------------------------------------
(* The clients.  A client may send before it has an answer.                 *)
Usable(c) == conn[c].st \in {"backlog", "open"} /\ ~conn[c].eof /\ conn[c].reset = "no"

Connect(c) ==
  /\ conn[c].st = "idle" /\ c \in work.clients /\ pc # "dead"
  /\ conn' = [conn EXCEPT ![c].st = "backlog"]
  /\ backlog' = Append(backlog, c)
  /\ UNCHANGED <<work, pc, events, ready, co, conn_list>>

Send(c) ==
  /\ Usable(c) /\ conn[c].n < work.sends[c] /\ ~conn[c].rx
  /\ conn' = [conn EXCEPT ![c].n = @ + 1, ![c].rx = TRUE]
  /\ UNCHANGED <<work, pc, events, ready, co, conn_list, backlog>>

Shutdown(c) ==
  /\ Usable(c) /\ conn[c].n = work.sends[c]
  /\ conn' = [conn EXCEPT ![c].eof = TRUE]
  /\ UNCHANGED <<work, pc, events, ready, co, conn_list, backlog>>

Reset(c) ==
  /\ c \in work.resets /\ conn[c].st = "open" /\ conn[c].reset = "no"
  /\ conn' = [conn EXCEPT ![c].reset = "err", ![c].rx = FALSE]
  /\ UNCHANGED <<work, pc, events, ready, co, conn_list, backlog>>

------------------------------------------------------------------------------
(* The connection on a descriptor.                                          *)
On(fd) == {c \in Conn : conn[c].st = "open" /\ conn[c].fd = fd}

ConnOf(fd) == CHOOSE c \in On(fd) : TRUE

FreeFds == {fd \in Fd : On(fd) = {}}

Closed(c) == [conn EXCEPT ![c].st = "closed"]

(* Mutant of Readable: a descriptor is watched for one request.             *)
Readable_once(fd) ==
  \E c \in On(fd) : (conn[c].rx /\ conn[c].got = 0) \/ conn[c].eof \/ conn[c].reset # "no"

Readable(fd) ==
  \E c \in On(fd) : conn[c].rx \/ conn[c].eof \/ conn[c].reset # "no"

Fires == {fd \in Fd : Readable(fd)} \cup (IF backlog = <<>> THEN {} ELSE {Listen})

epoll_wait ==
  /\ pc = "poll" /\ Fires # {}
  /\ \E batch \in SetToSeqs(Fires) : events' = batch
  /\ pc' = "events"
  /\ UNCHANGED <<work, ready, co, conn_list, conn, backlog>>

BatchDone ==
  /\ pc = "events" /\ events = <<>>
  /\ pc' = "execute"
  /\ UNCHANGED <<work, events, ready, co, conn_list, conn, backlog>>

IsEvent(fd) == pc = "events" /\ events # <<>> /\ Head(events) = fd

(* The new connection gets the lowest descriptor; event_register leaves the *)
(* coroutine of the slot alone.  accept fails when there is no descriptor.  *)
accept_cb ==
  /\ IsEvent(Listen)
  /\ events' = Tail(events)
  /\ IF FreeFds = {} THEN UNCHANGED <<conn, backlog>>
     ELSE /\ conn' = [conn EXCEPT ![Head(backlog)].st = "open", ![Head(backlog)].fd = Min(FreeFds)]
          /\ backlog' = Tail(backlog)
  /\ UNCHANGED <<work, pc, ready, co, conn_list>>

(* The peer is gone: the slot's coroutine is marked, in memory or not.      *)
Die(x) ==
  IF x = None \/ co[x].state = "freed" THEN co ELSE [co EXCEPT ![x].state = "DEAD"]

recv_end(fd) ==
  /\ IsEvent(fd)
  /\ LET c == ConnOf(fd) IN
       /\ ~conn[c].rx
       /\ conn' = Closed(c)
  /\ co' = Die(conn_list[fd])
  /\ events' = Tail(events)
  /\ UNCHANGED <<work, pc, ready, conn_list, backlog>>

(* Mutant of schedule_add: the queue is replaced.                           *)
schedule_add_head(q, x) == <<x>>

(* schedule_add links the coroutine behind the tail and ends the list with  *)
(* it: when it is in the list already, what follows it there is lost.       *)
schedule_add(q, x) ==
  IF x \in ToSet(q) THEN SubSeq(q, 1, CHOOSE i \in 1 .. Len(q) : q[i] = x) ELSE Append(q, x)

Received(c) == [conn EXCEPT ![c].rx = FALSE, ![c].got = @ + 1]

NewCo == Min({x \in Co : co[x].state = "freed"})

recv_new(fd) ==
  /\ IsEvent(fd) /\ conn_list[fd] = None
  /\ LET c == ConnOf(fd) IN
       /\ conn[c].rx
       /\ conn' = Received(c)
       /\ co' = [co EXCEPT ![NewCo] = [state |-> "READY", arg |-> fd, made_for |-> c]]
  /\ conn_list' = [conn_list EXCEPT ![fd] = NewCo]
  /\ ready' = schedule_add(ready, NewCo)
  /\ events' = Tail(events)
  /\ UNCHANGED <<work, pc, backlog>>

(* The slot has a coroutine: it is queued, whatever it was made for.  When  *)
(* its memory is freed and not in use again, what follows is undefined.     *)
recv_again(fd) ==
  /\ IsEvent(fd) /\ conn_list[fd] # None
  /\ LET c == ConnOf(fd)
         x == conn_list[fd]
     IN /\ conn[c].rx
        /\ conn' = Received(c)
        /\ IF co[x].state = "freed"
           THEN pc' = "dead" /\ UNCHANGED <<ready, events>>
           ELSE /\ ready' = schedule_add(ready, x)
                /\ events' = Tail(events)
                /\ UNCHANGED pc
  /\ UNCHANGED <<work, co, conn_list, backlog>>

------------------------------------------------------------------------------
(* execute_ready_coroutines.                                                *)
IsNext(states) == pc = "execute" /\ ready # <<>> /\ co[Head(ready)].state \in states

coroutine_destroy ==
  /\ IsNext({"DEAD"})
  /\ co' = [co EXCEPT ![Head(ready)].state = "freed"]
  /\ ready' = Tail(ready)
  /\ UNCHANGED <<work, pc, events, conn_list, conn, backlog>>

(* The function marks the coroutine dead; the yield at its end suspends it. *)
Finished(x) == [co EXCEPT ![x].state = "SUSPEND"]

(* coroutine_handler: the answer, or none when the peer has aborted, then   *)
(* the connection is closed.  A peer that had also ended its side raises    *)
(* SIGPIPE.                                                                 *)
coroutine_handler ==
  /\ IsNext({"READY"})
  /\ LET x == Head(ready)
         c == ConnOf(co[x].arg)
     IN \/ /\ On(co[x].arg) # {} /\ conn[c].reset = "no"
           /\ conn' = [Closed(c) EXCEPT ![c].replies = Append(@, conn[c].got)]
           /\ co' = Finished(x)
           /\ UNCHANGED pc
        \/ /\ On(co[x].arg) # {} /\ conn[c].reset # "no" /\ ~conn[c].eof
           /\ conn' = Closed(c)
           /\ co' = Finished(x)
           /\ UNCHANGED pc
        \/ /\ On(co[x].arg) # {} /\ conn[c].reset # "no" /\ conn[c].eof
           /\ pc' = "dead"
           /\ UNCHANGED <<conn, co>>
  /\ ready' = Tail(ready)
  /\ UNCHANGED <<work, events, conn_list, backlog>>

(* A finished coroutine is resumed: its entry returns to the main context.  *)
coroutine_resume_finished ==
  /\ IsNext({"SUSPEND"})
  /\ co' = [co EXCEPT ![Head(ready)].state = "RUNNING"]
  /\ ready' = Tail(ready)
  /\ UNCHANGED <<work, pc, events, conn_list, conn, backlog>>

(* Resumed once more, the context returns a second time over a stack that   *)
(* was left: it gets back to the main context, or the process exits.        *)
coroutine_resume_returned ==
  /\ IsNext({"RUNNING"})
  /\ pc' \in {"execute", "dead"}
  /\ ready' = Tail(ready)
  /\ UNCHANGED <<work, events, co, conn_list, conn, backlog>>

QueueEmpty ==
  /\ pc = "execute" /\ ready = <<>>
  /\ pc' = "poll"
  /\ UNCHANGED <<work, events, ready, co, conn_list, conn, backlog>>

------------------------------------------------------------------------------
(* The slots come from fresh pages: no coroutine.                           *)
Init ==
  /\ work \in Workload
  /\ pc = "poll" /\ events = <<>> /\ ready = <<>>
  /\ co = [x \in Co |-> [state |-> "freed", arg |-> None, made_for |-> None]]
  /\ conn_list = [fd \in Fd |-> None]
  /\ conn = [c \in Conn |-> [st |-> "idle", fd |-> None, rx |-> FALSE, eof |-> FALSE,
                             reset |-> "no", n |-> 0, got |-> 0, replies |-> <<>>]]
  /\ backlog = <<>>

Client == \E c \in Conn : Connect(c) \/ Send(c) \/ Shutdown(c) \/ Reset(c)

Server ==
  \/ epoll_wait \/ BatchDone \/ accept_cb
  \/ \E fd \in Fd : recv_end(fd) \/ recv_new(fd) \/ recv_again(fd)
  \/ coroutine_destroy \/ coroutine_handler
  \/ coroutine_resume_finished \/ coroutine_resume_returned \/ QueueEmpty

Next == Client \/ Server

(* The one thread runs.                                                     *)
Spec == Init /\ [][Next]_vars /\ WF_vars(Server)

------------------------------------------------------------------------------
(* Type invariant.  The code behaviour behind it: callbacks get descriptors *)
(* of open connections, and the queue holds coroutines in memory.           *)
TypeOK ==
  /\ work \in Workload /\ pc \in {"poll", "events", "execute", "dead"}
  /\ \A fd \in ToSet(events) : fd = Listen \/ On(fd) # {}
  /\ \A x \in ToSet(ready) : x \in Co /\ co[x].state # "freed"
  /\ \A x \in Co : co[x].state \in State
  /\ \A fd \in Fd : conn_list[fd] \in Co \cup {None}
  /\ \A fd \in Fd : Cardinality(On(fd)) <= 1
  /\ ToSet(backlog) \subseteq Conn

(* Slots whose coroutine is made for their connection.                      *)
Own(c) ==
  LET x == conn_list[conn[c].fd] IN x # None /\ co[x].state # "freed" /\ co[x].made_for = c

Shared(x) == Cardinality({fd \in Fd : conn_list[fd] = x}) > 1

(* When the server waits for events, every request it has received is       *)
(* answered and its connection closed, or the connection found the          *)
(* coroutine of an earlier one in its slot and stays open unanswered, or    *)
(* the memory of a destroyed coroutine serves two slots.  No connection is  *)
(* answered twice, and none before its request.                             *)
AnsweredOrStranded ==
  /\ TypeOK
  /\ \A c \in Conn :
       /\ Len(conn[c].replies) <= 1 /\ \A i \in 1 .. Len(conn[c].replies) : conn[c].replies[i] >= 1
       /\ conn[c].replies # <<>> => conn[c].st = "closed"
  /\ pc = "poll" =>
       \A c \in Conn : conn[c].st = "open" /\ conn[c].got > 0 =>
         ~Own(c) \/ \E x \in Co : Shared(x)

(* A request that arrives on an open connection is read.                    *)
EveryRequestRead ==
  \A c \in Conn : (conn[c].st = "open" /\ conn[c].rx) ~>
                    (conn[c].st # "open" \/ ~conn[c].rx \/ pc = "dead")
===============================================================================
