------------------------------- MODULE ConnPool -------------------------------
(***************************************************************************)
(* The MySQL connection pool (00/05_mysql/mysql_connectPool.c): a list of  *)
(* free and a list of used connections under one mutex, which is held      *)
(* during the calls to the server too, so that a critical section is one   *)
(* step.  main makes the pool, runs its session and closes the pool; other *)
(* threads, which the mutex is there for, run the same session meanwhile.  *)
(* The session is that of the program without a pool, 00/05_mysql/my_sql.c:*)
(* in the pool's own main it is the same, but hands the library the        *)
(* address of the pointer to the handle (lines 451 to 486) instead of the  *)
(* handle, and line 262 misses the f of its if.  The model reads both the  *)
(* way they are meant.                                                     *)
(***************************************************************************)
EXTENDS Integers, Sequences, FiniteSets, SequencesExt, FiniteSetsExt

CONSTANTS
  Thread,         \* the threads
  Main,           \* the one that makes and closes the pool
  MAX_POOL_SIZE,
  MIN_POOL_SIZE,
  MaxSessions,    \* bound: sessions of a thread other than Main
  MaxOutages,     \* bound: times the server goes away
  MaxDrops        \* bound: connections the server drops while it stays up

ASSUME PoolAssumption ==
  /\ Main \in Thread /\ IsFiniteSet(Thread)
  /\ MAX_POOL_SIZE \in Nat \ {0} /\ MIN_POOL_SIZE \in 0 .. MAX_POOL_SIZE
  /\ {MaxSessions, MaxOutages, MaxDrops} \subseteq Nat

(* The addresses of db_connection_t nodes and of MYSQL handles.             *)
Address == Nat \ {0}

VARIABLES
  g_pool,    \* the pool
  mysql,     \* the handle of each node that is allocated
  handle,    \* each handle that is allocated: connected, or broken
  server,    \* the server: up, and what may still happen to it
  thread     \* the threads

vars == <<g_pool, mysql, handle, server, thread>>

(* What main does with its connection, in this order.                       *)
Session == <<"insert", "select", "delete", "select", "image", "write", "read">>

At == {"start", "get", "got", "use", "release", "close", "done", "undefined"}

------------------------------------------------------------------------------
(* Memory: an address that is not in use, perhaps again.                    *)
NewAddress(f) == CHOOSE a \in 1 .. Cardinality(DOMAIN f) + 1 : a \notin DOMAIN f

Put(f, x, y) == [z \in DOMAIN f \cup {x} |-> IF z = x THEN y ELSE f[z]]

Drop(f, x) == [z \in DOMAIN f \ {x} |-> f[z]]

(* The MySQL client library: mysql_init takes a handle, mysql_real_connect  *)
(* connects it while the server is up, mysql_ping fails on a broken one,    *)
(* mysql_close frees it.                                                    *)
Connected(hs) == Put(hs, NewAddress(hs), "ok")

LeftBehind(hs) == Put(hs, NewAddress(hs), "broken")

mysql_close(hs, h) == Drop(hs, h)

------------------------------------------------------------------------------
(* main makes the pool with MIN_POOL_SIZE connections, or with none when    *)
(* the server is away.                                                      *)
init_connection_pool ==
  /\ thread[Main].at = "start" /\ g_pool.state = "none"
  /\ LET n == IF server.up THEN MIN_POOL_SIZE ELSE 0 IN
       /\ g_pool' = [state |-> "open", free_list |-> [i \in 1 .. n |-> n + 1 - i],
                     used_list |-> <<>>, total_connections |-> n]
       /\ mysql' = [x \in 1 .. n |-> x]
       /\ handle' = [h \in 1 .. n |-> "ok"]
  /\ thread' = [thread EXCEPT ![Main].at = "get"]
  /\ UNCHANGED server

Begin(t) ==
  /\ t # Main /\ thread[t].at = "start" /\ g_pool.state = "open"
  /\ thread[t].sessions < MaxSessions
  /\ thread' = [thread EXCEPT ![t].at = "get", ![t].sessions = @ + 1]
  /\ UNCHANGED <<g_pool, mysql, handle, server>>

(* The pool is gone: its mutex is destroyed and its nodes are freed.  What  *)
(* a thread does then is undefined.                                         *)
Undefined(t) ==
  /\ thread' = [thread EXCEPT ![t].at = "undefined"]
  /\ UNCHANGED <<g_pool, mysql, handle, server>>

(* The first free node becomes a used one.                                  *)
Taken(pool, x) ==
  [pool EXCEPT !.free_list = Tail(@), !.used_list = <<x>> \o @]

(* Mutant of Discarded: the node is still counted.                          *)
Discarded_counted(pool, x) ==
  [pool EXCEPT !.used_list = RemoveFirst(@, x)]

(* A used node is dropped.                                                  *)
Discarded(pool, x) ==
  [pool EXCEPT !.used_list = RemoveFirst(@, x), !.total_connections = @ - 1]

(* A free connection is taken, and reconnected when it is broken: when that *)
(* fails the node is freed, its new handle is not, and the caller gets      *)
(* NULL.                                                                    *)
GetFree(t) ==
  /\ thread[t].at = "get" /\ g_pool.state = "open" /\ g_pool.free_list # <<>>
  /\ LET x == Head(g_pool.free_list)
         h == mysql[x]
     IN \/ /\ handle[h] = "ok"
           /\ g_pool' = Taken(g_pool, x)
           /\ thread' = [thread EXCEPT ![t].at = "got", ![t].conn = x]
           /\ UNCHANGED <<mysql, handle>>
        \/ /\ handle[h] = "broken" /\ server.up
           /\ g_pool' = Taken(g_pool, x)
           /\ LET closed == mysql_close(handle, h) IN
                /\ mysql' = [mysql EXCEPT ![x] = NewAddress(closed)]
                /\ handle' = Connected(closed)
           /\ thread' = [thread EXCEPT ![t].at = "got", ![t].conn = x]
        \/ /\ handle[h] = "broken" /\ ~server.up
           /\ g_pool' = Discarded(Taken(g_pool, x), x)
           /\ mysql' = Drop(mysql, x)
           /\ handle' = LeftBehind(mysql_close(handle, h))
           /\ thread' = [thread EXCEPT ![t].at = "done"]
  /\ UNCHANGED server

(* Mutant of MayGrow: a pool that has lost all its connections stays empty. *)
MayGrow_nonempty == g_pool.total_connections \in 1 .. MAX_POOL_SIZE - 1

MayGrow == g_pool.total_connections < MAX_POOL_SIZE

(* No connection is free: a new one is made, or the caller sleeps and tries *)
(* again, when the pool is full or the server is away.                      *)
GetNew(t) ==
  /\ thread[t].at = "get" /\ g_pool.state = "open" /\ g_pool.free_list = <<>>
  /\ MayGrow /\ server.up
  /\ LET x == NewAddress(mysql) IN
       /\ g_pool' = [g_pool EXCEPT !.used_list = <<x>> \o @, !.total_connections = @ + 1]
       /\ mysql' = Put(mysql, x, NewAddress(handle))
       /\ thread' = [thread EXCEPT ![t].at = "got", ![t].conn = x]
  /\ handle' = Connected(handle)
  /\ UNCHANGED server

GetAfterClose(t) ==
  /\ thread[t].at = "get" /\ g_pool.state = "closed"
  /\ Undefined(t)

(* The handle is read from the node after the mutex was given back.         *)
Return(t) ==
  /\ thread[t].at = "got" /\ thread[t].conn \in DOMAIN mysql
  /\ thread' = [thread EXCEPT ![t].at = "use", ![t].mysql = mysql[thread[t].conn],
                              ![t].conn = 0, ![t].step = 1]
  /\ UNCHANGED <<g_pool, mysql, handle, server>>

ReturnAfterClose(t) ==
  /\ thread[t].at = "got" /\ thread[t].conn \notin DOMAIN mysql
  /\ Undefined(t)

------------------------------------------------------------------------------
(* One statement of the session.  A query that fails ends it, and so does a *)
(* missing image; the others report their failure and the session goes on.  *)
Works(t) == handle[thread[t].mysql] = "ok"

GoesOn(t) ==
  \/ Works(t)
  \/ Session[thread[t].step] \in {"select", "image", "write", "read"}

Exits(t) == Session[thread[t].step] \in {"insert", "delete", "image"}

LastStatement(t) == thread[t].step = Len(Session)

Statement(t) ==
  /\ thread[t].at = "use" /\ thread[t].mysql \in DOMAIN handle
  /\ \/ /\ GoesOn(t)
        /\ thread' = IF LastStatement(t)
                     THEN [thread EXCEPT ![t].at = "release", ![t].step = 0]
                     ELSE [thread EXCEPT ![t].step = @ + 1]
     \/ /\ Exits(t)
        /\ thread' = [thread EXCEPT ![t].at = "release", ![t].step = 0]
  /\ UNCHANGED <<g_pool, mysql, handle, server>>

StatementAfterClose(t) ==
  /\ thread[t].at = "use" /\ thread[t].mysql \notin DOMAIN handle
  /\ Undefined(t)

(* After the session main closes the pool; another thread may begin again.  *)
After(t) == IF t = Main THEN "close" ELSE "start"

(* Mutant of NodesOf: the latest used node is given back.                   *)
NodesOf_latest(h) == 1 .. Len(g_pool.used_list)

(* The node of a handle among the used ones.                                *)
NodesOf(h) == {i \in 1 .. Len(g_pool.used_list) : mysql[g_pool.used_list[i]] = h}

Freed(pool, x) ==
  [pool EXCEPT !.used_list = RemoveFirst(@, x), !.free_list = <<x>> \o @]

(* A connection that still works goes to the head of the free list, a       *)
(* broken one is closed and freed.                                          *)
release_connection_to_pool(t) ==
  /\ thread[t].at = "release" /\ g_pool.state = "open"
  /\ LET h == thread[t].mysql
         x == g_pool.used_list[Min(NodesOf(h))]
     IN IF NodesOf(h) = {} THEN UNCHANGED <<g_pool, mysql, handle>>
        ELSE \/ /\ handle[h] = "ok"
                /\ g_pool' = Freed(g_pool, x)
                /\ UNCHANGED <<mysql, handle>>
             \/ /\ handle[h] = "broken"
                /\ g_pool' = Discarded(g_pool, x)
                /\ mysql' = Drop(mysql, x)
                /\ handle' = mysql_close(handle, h)
  /\ thread' = [thread EXCEPT ![t].at = After(t), ![t].mysql = 0]
  /\ UNCHANGED server

ReleaseAfterClose(t) ==
  /\ thread[t].at = "release" /\ g_pool.state = "closed"
  /\ Undefined(t)

(* Every node goes, the used ones too, whoever holds them.                  *)
close_connection_pool ==
  /\ thread[Main].at = "close"
  /\ g_pool' = [state |-> "closed", free_list |-> <<>>, used_list |-> <<>>,
                total_connections |-> 0]
  /\ mysql' = <<>>
  /\ handle' = [h \in DOMAIN handle \
                        {mysql[x] : x \in ToSet(g_pool.free_list) \cup ToSet(g_pool.used_list)} |->
                  handle[h]]
  /\ thread' = [thread EXCEPT ![Main].at = "done"]
  /\ UNCHANGED server

------------------------------------------------------------------------------
(* The server goes away and comes back, or drops one connection.            *)
ServerDown ==
  /\ server.up /\ server.outages > 0
  /\ server' = [server EXCEPT !.up = FALSE, !.outages = @ - 1]
  /\ handle' = [h \in DOMAIN handle |-> "broken"]
  /\ UNCHANGED <<g_pool, mysql, thread>>

ServerUp ==
  /\ ~server.up
  /\ server' = [server EXCEPT !.up = TRUE]
  /\ UNCHANGED <<g_pool, mysql, handle, thread>>

ServerDrops(h) ==
  /\ handle[h] = "ok" /\ server.drops > 0
  /\ server' = [server EXCEPT !.drops = @ - 1]
  /\ handle' = [handle EXCEPT ![h] = "broken"]
  /\ UNCHANGED <<g_pool, mysql, thread>>

Init ==
  /\ g_pool = [state |-> "none", free_list |-> <<>>, used_list |-> <<>>,
               total_connections |-> 0]
  /\ mysql = <<>> /\ handle = <<>>
  /\ server \in [up : BOOLEAN, outages : {MaxOutages}, drops : {MaxDrops}]
  /\ thread = [t \in Thread |-> [at |-> "start", conn |-> 0, mysql |-> 0, step |-> 0,
                                 sessions |-> 0]]

ThreadStep(t) ==
  \/ GetFree(t) \/ GetNew(t) \/ GetAfterClose(t) \/ Return(t) \/ ReturnAfterClose(t)
  \/ Statement(t) \/ StatementAfterClose(t)
  \/ release_connection_to_pool(t) \/ ReleaseAfterClose(t)

MainStep == init_connection_pool \/ close_connection_pool

Next ==
  \/ MainStep \/ \E t \in Thread : Begin(t) \/ ThreadStep(t)
  \/ ServerDown \/ ServerUp \/ \E h \in DOMAIN handle : ServerDrops(h)

(* Threads run on, and the server comes back.  Sessions are finite, so that *)
(* a caller of get that sleeps and retries ends up alone with the pool.     *)
Fairness ==
  /\ WF_vars(MainStep) /\ WF_vars(ServerUp)
  /\ \A t \in Thread : WF_vars(ThreadStep(t))

Spec == Init /\ [][Next]_vars /\ Fairness

------------------------------------------------------------------------------
(* Type invariant.  The code behaviour behind it: a thread that uses the    *)
(* pool is at one place of get, session and release.                        *)
TypeOK ==
  /\ g_pool \in [state : {"none", "open", "closed"}, free_list : Seq(Address),
                 used_list : Seq(Address), total_connections : Int]
  /\ DOMAIN mysql \subseteq Address /\ mysql \in [DOMAIN mysql -> Address]
  /\ DOMAIN handle \subseteq Address /\ IsFiniteSet(DOMAIN handle)
  /\ handle \in [DOMAIN handle -> {"ok", "broken"}]
  /\ server \in [up : BOOLEAN, outages : 0 .. MaxOutages, drops : 0 .. MaxDrops]
  /\ thread \in [Thread -> [at : At, conn : Nat, mysql : Nat, step : 0 .. Len(Session),
                            sessions : 0 .. MaxSessions]]

(* total_connections counts the nodes of the two lists through failed       *)
(* reconnects, dead connections and growth, and never exceeds the maximum;  *)
(* a node is in one list, once, and is allocated exactly while it is; no    *)
(* two nodes share a handle and the handle of each is allocated.            *)
Accounting ==
  /\ TypeOK
  /\ g_pool.total_connections = Len(g_pool.free_list) + Len(g_pool.used_list)
  /\ g_pool.total_connections <= MAX_POOL_SIZE
  /\ IsInjective(g_pool.free_list) /\ IsInjective(g_pool.used_list)
  /\ ToSet(g_pool.free_list) \cap ToSet(g_pool.used_list) = {}
  /\ ToSet(g_pool.free_list) \cup ToSet(g_pool.used_list) = DOMAIN mysql
  /\ IsInjective(mysql)
  /\ \A x \in DOMAIN mysql : mysql[x] \in DOMAIN handle

Held(t) ==
  IF thread[t].at = "got" THEN {thread[t].conn}
  ELSE IF thread[t].at \in {"use", "release"}
       THEN {x \in DOMAIN mysql : mysql[x] = thread[t].mysql} ELSE {}

(* While the pool is open a thread's connection is its own, is among the    *)
(* used ones and is not closed, although a handle's address is used again   *)
(* after a close and the handle is read from the node without the mutex.    *)
(* Only main's close takes a connection away from its user.                 *)
HeldIsOwn ==
  g_pool.state = "open" =>
    /\ \A t \in Thread : thread[t].at \in {"got", "use", "release"} =>
         Held(t) # {} /\ Held(t) \subseteq ToSet(g_pool.used_list)
    /\ \A t, u \in Thread : t # u => Held(t) \cap Held(u) = {}
    /\ \A x \in ToSet(g_pool.used_list) : \E t \in Thread : x \in Held(t)
    /\ \A t \in Thread : thread[t].at # "undefined"

(* Every thread that asks for a connection goes on, although more threads   *)
(* ask than the pool has connections, connections break while they are held *)
(* and while they are free, and the caller of get may sleep and try again   *)
(* many times.                                                              *)
EveryoneServed ==
  \A t \in Thread : thread[t].at = "get" ~> thread[t].at # "get"
===============================================================================
