-------------------------------- MODULE NtyCo --------------------------------
(***************************************************************************)
(* The NtyCo coroutine library (12_1/NtyCo/core) under two of its          *)
(* programs: the kvstore's coroutine front end (12_1/ntyco.c, one process) *)
(* and the multi-process HTTP server (sample/ntyco_httpd.c), whose workers *)
(* share the listening socket and a lock in shared memory.                 *)
(*                                                                         *)
(* A process runs one coroutine at a time on ONE stack: yielding copies    *)
(* the stack away, resuming copies it back.  A step of the model is what a *)
(* process does up to a yield or to a call another process or a client can *)
(* interfere with.  None of the programs sleeps for a time, so the tree of *)
(* sleepers stays empty and epoll_wait's timeout only begins a new round.  *)
(* The HTTP server calls nty_accept and nty_recv, which wait, and inside   *)
(* them the hooked accept and recv, which wait again for a descriptor that *)
(* is still ready: one wait stands for both.                               *)
(***************************************************************************)
EXTENDS Integers, Sequences, FiniteSets, SequencesExt, TLC

CONSTANTS
  Proc,      \* the worker processes
  Conn,      \* the connections clients make, standing for their descriptors
  Workload,  \* bound: program, workers, and what the clients do
  MaxCo,     \* bound: coroutines of a process beside the server; each but the newest
             \*   waits on a descriptor of its own
  Listen,    \* the listening descriptor
  NoFd,      \* -1, or a value that is no descriptor at all
  None       \* no coroutine, no value

(* The counters in shared memory.  A worker uses the one at its process id  *)
(* modulo the number of processors, which is also the number of workers:    *)
(* two may share one, and on a machine with more than TOTALFDS processors   *)
(* the code would leave the array, so there are at most that many here.     *)
TOTALFDS == 16

Slot == 0 .. TOTALFDS - 1

ASSUME ConstantAssumption ==
  /\ MaxCo \in Nat /\ IsFiniteSet(Conn) /\ MaxCo >= Cardinality(Conn) + 2
  /\ {Listen, NoFd, None} \cap Conn = {} /\ None \notin Nat
  /\ Listen # NoFd /\ Listen # None /\ NoFd # None
  /\ \A w \in Workload :
       /\ w.app \in {"kvstore", "httpd"} /\ w.procs \subseteq Proc
       /\ w.app = "kvstore" => Cardinality(w.procs) = 1
       /\ w.limit \in Nat \ {0}
       /\ w.sends \in [Conn -> Nat] /\ w.resets \subseteq Conn
       /\ IsFiniteSet(w.procs) /\ Cardinality(w.procs) <= TOTALFDS
       /\ w.slot \in [Proc -> Slot]

VARIABLES
  work,      \* the workload of this behaviour
  sched,     \* the scheduler of each process with its coroutines
  mtx,       \* accept_mtx, in shared memory
  totalfds,  \* totalfds, in shared memory
  conn,      \* each connection: the socket and the client's end
  backlog    \* connections waiting for accept

vars == <<work, sched, mtx, totalfds, conn, backlog>>

Server == 0
Co == Server .. MaxCo

(* Where a coroutine is.  "accept", "recv" and "sendw" are inside           *)
(* nty_poll_inner; "sleep" is nty_coroutine_sleep(0).                       *)
At == {"free", "new", "sleep", "lock", "accept", "recv", "send", "sendw", "send2"}

Message == Conn \X Nat
Local == Message \cup Conn \cup {NoFd, None}

File == Conn \cup {Listen}

Fd == File \cup {NoFd}

Coroutine == [at : At, fd : Fd, arg : Conn \cup {None}, saved : Local]

Scheduler ==
  [alive : BOOLEAN, pc : {"ready", "epoll", "events", "run"}, ready : Seq(Co),
   last : Co \cup {None}, waiting : [Fd -> Co \cup {None}], epoll : SUBSET File, events : Seq(File),
   cur : Co \cup {None}, co : [Co -> Coroutine],
   stack : [owner : Co \cup {None}, val : Local], spawned_coroutines : Int]

Connection ==
  [st : {"idle", "backlog", "open", "closed"}, owner : Proc \cup {None}, rx : Seq(Message),
   eof : BOOLEAN, reset : {"no", "err", "seen"}, n : Nat, replies : Seq(Local)]

(* Type invariant.  The code behaviour behind it: a process runs at most    *)
(* one coroutine, and the trees and queues hold coroutines and descriptors. *)
TypeOK ==
  /\ work \in Workload
  /\ sched \in [Proc -> Scheduler]
  /\ \A p \in Proc : (sched[p].cur # None) = (sched[p].alive /\ sched[p].pc = "run")
  /\ mtx \in {0, 1} /\ totalfds \in [Slot -> Int]
  /\ conn \in [Conn -> Connection] /\ backlog \in Seq(Conn)

------------------------------------------------------------------------------
(* Coroutines.  Only one local variable of each matters: cli_fd of the      *)
(* server, the message and its answer of a reader.                          *)
Free == [at |-> "free", fd |-> NoFd, arg |-> None, saved |-> None]

(* A new coroutine goes to the tail of the ready queue.                     *)
nty_coroutine_create(s, arg) ==
  LET x == Min({y \in Co \ {Server} : s.co[y].at = "free"}) IN
    [s EXCEPT !.co[x] = [Free EXCEPT !.at = "new", !.arg = arg],
              !.ready = Append(@, x), !.spawned_coroutines = @ + 1]

(* The stack of the process, and the copy of a coroutine.                   *)
_save_stack(s, x) == [s EXCEPT !.co[x].saved = s.stack.val]

_load_stack(s, x) == [s EXCEPT !.stack = [owner |-> x, val |-> s.co[x].saved]]

(* A new coroutine begins at the top of the stack of the process, which     *)
(* holds what the one before it left.                                       *)
nty_coroutine_init(s, x) == [s EXCEPT !.co[x].saved = None]

(* Mutant of nty_coroutine_resume: the stack of the coroutine is not        *)
(* copied back.                                                             *)
nty_coroutine_resume_noload(s, x) ==
  [s EXCEPT !.cur = x]

nty_coroutine_resume(s, x) ==
  [IF s.co[x].at = "new" THEN nty_coroutine_init(s, x) ELSE _load_stack(s, x) EXCEPT !.cur = x]

nty_coroutine_yield(s, x) == [_save_stack(s, x) EXCEPT !.cur = None]

nty_coroutine_free(s, x) == [s EXCEPT !.co[x] = Free, !.spawned_coroutines = @ - 1]

(* The function of the coroutine has returned: nothing is saved, and the    *)
(* scheduler frees it.                                                      *)
_exec(s, x) == [nty_coroutine_free(s, x) EXCEPT !.cur = None]

nty_coroutine_sleep(s, x) ==
  nty_coroutine_yield([s EXCEPT !.co[x].at = "sleep", !.ready = Append(@, x)], x)

(* The locals of a function that starts, or that gets a value into one.     *)
SetLocal(s, x, val) == [s EXCEPT !.stack = [owner |-> x, val |-> val]]

------------------------------------------------------------------------------
(* The tree of waiting coroutines, ordered by descriptor: what it holds     *)
(* under each, and an element with the same descriptor is refused.          *)
RB_EMPTY == [fd \in Fd |-> None]

RB_FIND(tree, fd) == tree[fd]

(* A leaf is linked in, and the tree rebalanced.                            *)
RB_INSERT_COLOR(tree, fd, x) == [tree EXCEPT ![fd] = x]

RB_INSERT(tree, fd, x) ==
  IF RB_FIND(tree, fd) = None THEN RB_INSERT_COLOR(tree, fd, x) ELSE tree

RB_REMOVE(tree, fd) == [tree EXCEPT ![fd] = None]

(* Descriptors open in process p.                                           *)
Open(p) == {Listen} \cup {c \in Conn : conn[c].st = "open" /\ conn[c].owner = p}

(* A second waiter for a descriptor fails the assertion: the process ends.  *)
nty_schedule_sched_wait(s, x, fd) ==
  IF RB_FIND(s.waiting, fd) # None
  THEN [s EXCEPT !.alive = FALSE, !.cur = None]
  ELSE [s EXCEPT !.waiting = RB_INSERT(@, fd, x)]

(* Mutant of nty_schedule_desched_wait: the coroutine stays in the tree.    *)
nty_schedule_desched_wait_kept(s, fd) == s

nty_schedule_desched_wait(s, fd) == [s EXCEPT !.waiting = RB_REMOVE(@, fd)]

(* nty_poll_inner up to its yield: epoll_ctl, whose failure for a           *)
(* descriptor that is not open is not looked at, then the wait.  "opens"    *)
(* are the process's descriptors at that time.                              *)
nty_poll_inner(s, x, fd, at, opens) ==
  LET w == nty_schedule_sched_wait([s EXCEPT !.epoll = @ \cup ({fd} \cap opens)], x, fd) IN
    IF w.alive THEN nty_coroutine_yield([w EXCEPT !.co[x].at = at, !.co[x].fd = fd], x)
               ELSE w

(* Mutant of Woken: the descriptor stays registered after the wait.         *)
Woken_registered(s, x, fd) ==
  nty_schedule_desched_wait(nty_coroutine_resume(s, x), fd)

(* nty_poll_inner after its yield.                                          *)
Woken(s, x, fd) ==
  LET r == nty_coroutine_resume(s, x) IN
    nty_schedule_desched_wait([r EXCEPT !.epoll = @ \ {fd}], fd)

------------------------------------------------------------------------------
(* The clients.                                                             *)
Connect(c) ==
  /\ conn[c].st = "idle" /\ work.sends[c] > 0
  /\ \E p \in work.procs : sched[p].alive /\ sched[p].co[Server].at # "new"
  /\ conn' = [conn EXCEPT ![c].st = "backlog"]
  /\ backlog' = Append(backlog, c)
  /\ UNCHANGED <<work, sched, mtx, totalfds>>

(* A client sends its next request when it has the answer to the last.      *)
Send(c) ==
  /\ conn[c].st \in {"backlog", "open"} /\ ~conn[c].eof /\ conn[c].reset = "no"
  /\ conn[c].n < work.sends[c] /\ Len(conn[c].replies) = conn[c].n
  /\ conn' = [conn EXCEPT ![c].n = @ + 1, ![c].rx = Append(@, <<c, conn[c].n + 1>>)]
  /\ UNCHANGED <<work, sched, mtx, totalfds, backlog>>

(* A client ends its side, or aborts: what is not read yet is gone.         *)
Shutdown(c) ==
  /\ conn[c].st \in {"backlog", "open"} /\ ~conn[c].eof /\ conn[c].reset = "no"
  /\ conn[c].n = work.sends[c]
  /\ conn' = [conn EXCEPT ![c].eof = TRUE]
  /\ UNCHANGED <<work, sched, mtx, totalfds, backlog>>

Reset(c) ==
  /\ c \in work.resets
  /\ conn[c].st = "open" /\ conn[c].reset = "no"
  /\ conn' = [conn EXCEPT ![c].reset = "err", ![c].rx = <<>>]
  /\ UNCHANGED <<work, sched, mtx, totalfds, backlog>>

------------------------------------------------------------------------------
(* Resource changes that go with a step of process p.                       *)
Closed(c) == [conn EXCEPT ![c].st = "closed"]

(* The process dies: the kernel closes its descriptors.                     *)
Orphaned(p) ==
  [c \in Conn |-> IF conn[c].owner = p /\ conn[c].st = "open"
                  THEN [conn[c] EXCEPT !.st = "closed"] ELSE conn[c]]

Step(p, s) == sched' = [sched EXCEPT ![p] = s]

(* A step that may end in a failed assertion.                               *)
Risky(p, s) == Step(p, s) /\ conn' = IF s.alive THEN conn ELSE Orphaned(p)

Is(app) == work.app = app

Running(p) == p \in work.procs /\ sched[p].alive

------------------------------------------------------------------------------
(* nty_schedule_run, phase 2: the coroutines that were ready when the       *)
(* phase began.                                                             *)
FirstReady(p) == Head(sched[p].ready)

Dequeued(p) ==
  LET s == sched[p] IN
    [s EXCEPT !.ready = Tail(@), !.pc = IF FirstReady(p) = s.last \/ Tail(s.ready) = <<>>
                                        THEN "epoll" ELSE "ready"]

IsReady(p, x, ats) ==
  /\ Running(p) /\ sched[p].pc = "ready" /\ sched[p].ready # <<>>
  /\ FirstReady(p) = x /\ sched[p].co[x].at \in ats

(* The server of the kvstore opens its socket and waits in accept.          *)
StartServer(p) ==
  /\ Is("kvstore") /\ IsReady(p, Server, {"new"})
  /\ Step(p, LET s == SetLocal(nty_coroutine_resume(Dequeued(p), Server), Server, None) IN
               nty_poll_inner(s, Server, Listen, "accept", Open(p)))
  /\ UNCHANGED <<work, mtx, totalfds, conn, backlog>>

(* Mutant of lock: the lock is taken without looking at it.                 *)
lock_blind(p, s) ==
  /\ mtx' = 1
  /\ Step(p, nty_poll_inner(s, Server, Listen, "accept", Open(p)))

cmpxchg(_old, _new) == mtx' = IF mtx = _old THEN _new ELSE mtx

(* The server of the HTTP worker takes the accept lock and waits in accept, *)
(* or goes to the tail of the ready queue.                                  *)
lock(p, s) ==
  /\ cmpxchg(0, 1)
  /\ Step(p, IF mtx = 0 THEN nty_poll_inner(s, Server, Listen, "accept", Open(p))
                        ELSE nty_coroutine_sleep(s, Server))

unlock == mtx' = 0

StartLock(p) ==
  /\ Is("httpd") /\ IsReady(p, Server, {"new", "sleep"})
  /\ LET s == nty_coroutine_resume(Dequeued(p), Server) IN
       lock(p, IF sched[p].co[Server].at = "new" THEN SetLocal(s, Server, None) ELSE s)
  /\ UNCHANGED <<work, totalfds, conn, backlog>>

RetryLock(p) ==
  /\ Running(p) /\ sched[p].pc = "run" /\ sched[p].cur = Server
  /\ lock(p, [sched[p] EXCEPT !.pc = "events"])
  /\ UNCHANGED <<work, totalfds, conn, backlog>>

(* The kvstore hands its readers the address of cli_fd, on the stack of the *)
(* server: the new reader finds the descriptor there only if nobody else    *)
(* has run on that stack in between; otherwise it reads anything.           *)
FdArgument(p) ==
  LET s == sched[p] IN
    IF Is("httpd") THEN {s.co[FirstReady(p)].arg}
    ELSE IF s.stack.owner = Server THEN {s.stack.val}
    ELSE Conn \cup {NoFd}

StartReader(p) ==
  /\ \E x \in Co \ {Server} : IsReady(p, x, {"new"})
  /\ \E fd \in FdArgument(p) :
       LET x == FirstReady(p)
           s == SetLocal(nty_coroutine_resume(Dequeued(p), x), x, None)
       IN Risky(p, nty_poll_inner(s, x, fd, "recv", Open(p)))
  /\ UNCHANGED <<work, mtx, totalfds, backlog>>

(* Phase 2 without anything to do.                                          *)
NothingReady(p) ==
  /\ Running(p) /\ sched[p].pc = "ready" /\ sched[p].ready = <<>>
  /\ Step(p, [sched[p] EXCEPT !.pc = "epoll"])
  /\ UNCHANGED <<work, mtx, totalfds, conn, backlog>>

------------------------------------------------------------------------------
(* Phase 3.  epoll reports every registered descriptor that is ready, in    *)
(* the order in which they became so, but only when no coroutine is ready.  *)
Pending(c) == conn[c].rx # <<>> \/ conn[c].eof \/ conn[c].reset # "no"

Fires(p) ==
  {f \in sched[p].epoll :
     IF f = Listen THEN backlog # <<>>
                   ELSE Pending(f) \/ sched[p].co[sched[p].waiting[f]].at = "sendw"}

NewRound(s) ==
  [s EXCEPT !.pc = "ready", !.last = IF s.ready = <<>> THEN None ELSE Last(s.ready)]

nty_schedule_epoll(p) ==
  /\ Running(p) /\ sched[p].pc = "epoll"
  /\ IF sched[p].ready # <<>>
     THEN Step(p, NewRound(sched[p]))
     ELSE /\ Fires(p) # {}
          /\ \E batch \in SetToSeqs(Fires(p)) :
               Step(p, [sched[p] EXCEPT !.pc = "events", !.events = batch])
  /\ UNCHANGED <<work, mtx, totalfds, conn, backlog>>

(* Mutant of BatchDone: what is left of the batch is dropped.               *)
BatchDone_early(p) ==
  /\ Running(p) /\ sched[p].pc = "events"
  /\ Step(p, NewRound([sched[p] EXCEPT !.events = <<>>]))
  /\ UNCHANGED <<work, mtx, totalfds, conn, backlog>>

BatchDone(p) ==
  /\ Running(p) /\ sched[p].pc = "events" /\ sched[p].events = <<>>
  /\ Step(p, NewRound(sched[p]))
  /\ UNCHANGED <<work, mtx, totalfds, conn, backlog>>

(* The batch is handled from its end.  nty_schedule_search_wait finds the   *)
(* coroutine.                                                               *)
Event(p) == Last(sched[p].events)

nty_schedule_search_wait(p) == RB_FIND(sched[p].waiting, Event(p))

IsEvent(p, at) ==
  /\ Running(p) /\ sched[p].pc = "events" /\ sched[p].events # <<>>
  /\ sched[p].co[nty_schedule_search_wait(p)].at = at

Resumed(p) ==
  Woken([sched[p] EXCEPT !.events = Front(@)], nty_schedule_search_wait(p), Event(p))

(* accept fails when the process has no descriptor left.                    *)
Exhausted(p) == Cardinality(Open(p)) > work.limit

Accepted(p) == [conn EXCEPT ![Head(backlog)].st = "open", ![Head(backlog)].owner = p]

(* The kvstore makes a reader of whatever accept returns and waits again.   *)
server_kvstore(p) ==
  /\ Is("kvstore") /\ IsEvent(p, "accept")
  /\ LET cli_fd == IF Exhausted(p) THEN NoFd ELSE Head(backlog)
         s == nty_coroutine_create(SetLocal(Resumed(p), Server, cli_fd), None)
     IN Step(p, nty_poll_inner(s, Server, Listen, "accept", Open(p)))
  /\ conn' = IF Exhausted(p) THEN conn ELSE Accepted(p)
  /\ backlog' = IF Exhausted(p) THEN backlog ELSE Tail(backlog)
  /\ UNCHANGED <<work, mtx, totalfds>>

(* The counter at the slot of a worker.                                     *)
atomic_add(p, add) == [totalfds EXCEPT ![work.slot[p]] = @ + add]

atomic_sub(p, sub) == [totalfds EXCEPT ![work.slot[p]] = @ - sub]

INC_COUNTFD(p) == totalfds' = atomic_add(p, 1)

DEC_COUNTFD(p) == totalfds' = IF Is("httpd") THEN atomic_sub(p, 1) ELSE totalfds

(* The HTTP worker gives the lock back before it looks at the result.       *)
server_httpd(p) ==
  /\ Is("httpd") /\ IsEvent(p, "accept")
  /\ unlock
  /\ IF Exhausted(p)
     THEN /\ Step(p, _exec(Resumed(p), Server))
          /\ UNCHANGED <<conn, backlog, totalfds>>
     ELSE /\ Step(p, LET s == SetLocal(Resumed(p), Server, Head(backlog)) IN
                       [nty_coroutine_create(s, Head(backlog))
                          EXCEPT !.pc = "run", !.co[Server].at = "lock"])
          /\ conn' = Accepted(p) /\ backlog' = Tail(backlog)
          /\ INC_COUNTFD(p)
  /\ UNCHANGED work

(* The reader goes on inside its loop: it answers what it received.         *)
Answering(s, x, val) == [SetLocal(s, x, val) EXCEPT !.pc = "run", !.co[x].at = "send"]

(* recv of a reset connection fails once, then it sees the end.  The        *)
(* kvstore's reader receives again; the HTTP worker, whose result is        *)
(* unsigned, takes the failure for a request.                               *)
recv(p) ==
  /\ IsEvent(p, "recv")
  /\ LET x == nty_schedule_search_wait(p)
         c == Event(p)
     IN \/ /\ conn[c].reset = "err"
           /\ IF Is("kvstore")
              THEN Step(p, nty_poll_inner(Resumed(p), x, c, "recv", Open(p)))
              ELSE Step(p, Answering(Resumed(p), x, None))
           /\ conn' = [conn EXCEPT ![c].reset = "seen"]
           /\ UNCHANGED totalfds
        \/ /\ conn[c].reset # "err" /\ conn[c].rx # <<>>
           /\ Step(p, Answering(Resumed(p), x, Head(conn[c].rx)))
           /\ conn' = [conn EXCEPT ![c].rx = Tail(@)]
           /\ UNCHANGED totalfds
        \/ /\ conn[c].reset # "err" /\ conn[c].rx = <<>>
           /\ Step(p, _exec(Resumed(p), x))
           /\ conn' = Closed(c)
           /\ DEC_COUNTFD(p)
  /\ UNCHANGED <<work, mtx, backlog>>

(* The answer has left, whole: the client has it, and the reader receives.  *)
Replied(c, s) == [conn EXCEPT ![c].replies = Append(@, s.stack.val)]

ReceiveAgain(p, x) ==
  nty_poll_inner(SetLocal([sched[p] EXCEPT !.pc = "events"], x, None),
                 x, sched[p].co[x].fd, "recv", Open(p))

WaitWritable(p, x) ==
  nty_poll_inner([sched[p] EXCEPT !.pc = "events"], x, sched[p].co[x].fd, "sendw", Open(p))

(* SIGPIPE: the peer is gone and the error was seen before.                 *)
Broken(p) == Step(p, [sched[p] EXCEPT !.alive = FALSE, !.cur = None]) /\ conn' = Orphaned(p)

(* send: the first attempt.  A failure does not leave the loop, which waits *)
(* for the descriptor and tries once more, as after a part.                 *)
send(p) ==
  /\ Running(p) /\ sched[p].pc = "run" /\ sched[p].co[sched[p].cur].at = "send"
  /\ LET x == sched[p].cur
         c == sched[p].co[x].fd
     IN \/ /\ conn[c].reset = "no"
           /\ Step(p, ReceiveAgain(p, x))
           /\ conn' = Replied(c, sched[p])
        \/ /\ conn[c].reset = "no"
           /\ Step(p, WaitWritable(p, x))
           /\ UNCHANGED conn
        \/ /\ conn[c].reset = "err"
           /\ Step(p, WaitWritable(p, x))
           /\ conn' = [conn EXCEPT ![c].reset = "seen"]
        \/ /\ conn[c].reset = "seen"
           /\ Broken(p)
  /\ UNCHANGED <<work, mtx, totalfds, backlog>>

Writable(p) ==
  /\ IsEvent(p, "sendw")
  /\ Step(p, [Resumed(p) EXCEPT !.pc = "run", !.co[nty_schedule_search_wait(p)].at = "send2"])
  /\ UNCHANGED <<work, mtx, totalfds, conn, backlog>>

(* The second attempt failed.  The nty_send of the HTTP worker, around      *)
(* send, waits and tries again.  The reader of the kvstore receives again   *)
(* when a part had left before, which send returns; when nothing had, send  *)
(* returns -1, and the reader closes and returns.                           *)
Failed(p, x, c) ==
  \/ /\ Step(p, IF Is("httpd") THEN WaitWritable(p, x) ELSE ReceiveAgain(p, x))
     /\ conn' = [conn EXCEPT ![c].reset = "seen"]
  \/ /\ Is("kvstore")
     /\ Step(p, _exec([sched[p] EXCEPT !.pc = "events"], x))
     /\ conn' = Closed(c)

(* send: the second attempt, or a later one of nty_send.                    *)
send_rest(p) ==
  /\ Running(p) /\ sched[p].pc = "run" /\ sched[p].co[sched[p].cur].at = "send2"
  /\ LET x == sched[p].cur
         c == sched[p].co[x].fd
     IN \/ /\ conn[c].reset = "no"
           /\ Step(p, ReceiveAgain(p, x))
           /\ conn' = Replied(c, sched[p])
        \/ /\ conn[c].reset = "err"
           /\ Failed(p, x, c)
        \/ /\ conn[c].reset = "seen"
           /\ Broken(p)
  /\ UNCHANGED <<work, mtx, totalfds, backlog>>

(* nty_schedule_isdone: no coroutine is left and the process ends.          *)
nty_schedule_isdone(p) ==
  /\ Running(p) /\ sched[p].pc = "epoll"
  /\ sched[p].ready = <<>> /\ sched[p].waiting = RB_EMPTY
  /\ Step(p, [sched[p] EXCEPT !.alive = FALSE])
  /\ UNCHANGED <<work, mtx, totalfds, conn, backlog>>

------------------------------------------------------------------------------
nty_schedule_create ==
  [alive |-> TRUE, pc |-> "ready", ready |-> <<>>, last |-> None,
   waiting |-> RB_EMPTY, epoll |-> {}, events |-> <<>>, cur |-> None, co |-> [x \in Co |-> Free],
   stack |-> [owner |-> None, val |-> None], spawned_coroutines |-> 0]

(* A process creates its server coroutine and runs the scheduler.           *)
process_bind ==
  [nty_schedule_create EXCEPT !.co[Server] = [Free EXCEPT !.at = "new"], !.ready = <<Server>>,
                              !.last = Server, !.spawned_coroutines = 1]

init_shmvalue == mtx = 0 /\ totalfds = [i \in Slot |-> 0]

Init ==
  /\ work \in Workload
  /\ init_shmvalue
  /\ sched = [p \in Proc |-> process_bind]
  /\ conn = [c \in Conn |-> [st |-> "idle", owner |-> None, rx |-> <<>>, eof |-> FALSE,
                             reset |-> "no", n |-> 0, replies |-> <<>>]]
  /\ backlog = <<>>

Client == \E c \in Conn : Connect(c) \/ Send(c) \/ Shutdown(c) \/ Reset(c)

Worker(p) ==
  \/ StartServer(p) \/ StartLock(p) \/ RetryLock(p) \/ StartReader(p) \/ NothingReady(p)
  \/ nty_schedule_epoll(p) \/ BatchDone(p)
  \/ server_kvstore(p) \/ server_httpd(p) \/ recv(p) \/ send(p) \/ Writable(p) \/ send_rest(p)
  \/ nty_schedule_isdone(p)

Next == Client \/ \E p \in Proc : Worker(p)

Spec == Init /\ [][Next]_vars

(* Every process is scheduled by the kernel.                                *)
FairSpec == Spec /\ \A p \in Proc : WF_vars(Worker(p))

------------------------------------------------------------------------------
(* Every event of a batch still has its coroutine in the tree when it is    *)
(* handled, although the coroutines before it closed, accepted and waited   *)
(* again: nty_schedule_search_wait writes through what it finds, and never  *)
(* finds nothing.                                                           *)
EventsHaveWaiters ==
  \A p \in Proc : sched[p].alive =>
    \A f \in sched[p].epoll \cup ToSet(sched[p].events) : RB_FIND(sched[p].waiting, f) # None

Places(s, x) ==
  Cardinality({i \in 1 .. Len(s.ready) : s.ready[i] = x})
  + Cardinality({f \in Fd : s.waiting[f] = x})
  + (IF s.cur = x THEN 1 ELSE 0)

OwnSlot(p) == \A q \in work.procs : work.slot[q] = work.slot[p] => q = p

(* A coroutine is in one place: running, once in the ready queue, or once   *)
(* in the tree of the waiting ones, under its descriptor.  None is lost and *)
(* none is resumed after it was freed; spawned_coroutines counts them.  The *)
(* counter in totalfds that an HTTP worker has to itself is the number of   *)
(* its connections.                                                         *)
OnePlace ==
  TypeOK /\ \A p \in Proc :
    LET s == sched[p]
        live == {x \in Co : s.co[x].at # "free"}
    IN /\ s.alive => /\ \A x \in Co : Places(s, x) = IF x \in live THEN 1 ELSE 0
                     /\ s.spawned_coroutines = Cardinality(live)
                     /\ \A f \in Fd : s.waiting[f] # None => s.co[s.waiting[f]].fd = f
       /\ s.alive /\ Is("httpd") /\ OwnSlot(p) =>
            totalfds[work.slot[p]] = Cardinality(Open(p) \ {Listen})

(* Each client gets the answers to its own requests, in order, although all *)
(* coroutines share one stack, an answer may leave in two parts, and a      *)
(* reader may have started with a wrong descriptor.                         *)
OwnReplies ==
  \A c \in Conn : conn[c].reset = "no" =>
    \A i \in 1 .. Len(conn[c].replies) : conn[c].replies[i] = <<c, i>>

InAccept(p) == sched[p].co[Server].at = "accept"

(* The accept lock is held from before the wait to after accept, across     *)
(* yields: at most one worker is in accept, and the lock is taken exactly   *)
(* while one is, or died there.                                             *)
AcceptMutex ==
  Is("httpd") =>
    /\ \A p, q \in work.procs : InAccept(p) /\ InAccept(q) => p = q
    /\ (mtx = 1) = (\E p \in work.procs : InAccept(p))

(* What a client has sent and nobody has read; a connection no coroutine    *)
(* is left for; a process that spins on the lock.                           *)
Unread(c) == conn[c].st = "open" /\ conn[c].rx # <<>>

Leaked(c) ==
  LET s == sched[conn[c].owner] IN
    /\ c \notin s.epoll
    /\ \A x \in Co : s.co[x].at # "new" /\ ~(s.cur = x /\ s.co[x].fd = c)

LockedOut(c) == sched[conn[c].owner].co[Server].at = "sleep"

(* A request on an open connection is read, unless the reader was given a   *)
(* wrong descriptor, or the process spins on the accept lock of another     *)
(* one: its ready queue is never empty then and it does not poll.           *)
EveryRequestRead ==
  \A c \in Conn : Unread(c) ~> (~Unread(c) \/ Leaked(c) \/ LockedOut(c))
==============================================================================
