# A TLA+ model of the Linux C/C++ course programs

The repository holds the programs of a systems-programming course. The largest
are a key-value store with three storage engines and three network front ends
(`12_1`), a coroutine library it can run on (`12_1/NtyCo`), a user-space TCP/IP
stack (`02/2.4_dpdk`), a coroutine reactor and an HTTP/WebSocket server (`02`),
and a set of smaller concurrent programs: a thread pool, a MySQL connection
pool, an asynchronous DNS client, contacts (`00`).

This directory models every one of them that has concurrency, failure or long
histories in it, checks the models with TLC and proves the main results about
the hash and array engines, the reactor, the coroutine library, the two pools,
the DNS client and the user-space stack with TLAPS.

## The system's parts

| part | state | operations | what is hard |
|---|---|---|---|
| array engine, `12_1/kvs_array.c` | `table[KVS_ARRAY_SIZE]`, `total` | set, get, del, mod, exist | `total` is the number of entries *and* the end of each scan; holes; unwritten slots; a full table |
| hash engine, `12_1/kvs_hash.c` | chains `nodes[]`, `count` | the same five | collisions; two delete paths; a value freed before its replacement exists |
| tree engine, `12_1/kvs_rbtree.c` | a red-black tree with a shared sentinel | the same five | cascades of rotations; node exchange on delete; the sentinel's parent |
| protocol, `12_1/kvstore.c` | none | splits a message into tokens, calls an engine, formats the reply | missing arguments, unknown commands (`assert`) |
| reactor, `12_1/reactor.c` | `conn_list[fd]`, epoll registrations | `accept_cb`, `recv_cb`, `send_cb` | streams that cut and glue requests; descriptors reused within one round of events; clients that leave |
| proactor, `12_1/proactor.c` | one ring, one receive and one response buffer | completions of accept, recv, send | the buffers are shared by all connections and never cleared; the handler ignores the length |
| coroutine front end, `12_1/ntyco.c` | one accepting coroutine, a reader per connection | accept, read, answer | a reader gets its descriptor by the address of a local variable |
| NtyCo, `12_1/NtyCo/core` | ready queue, wait tree, one stack for all coroutines | create, yield, resume, free, hooked socket calls | a coroutine in two containers; events without a waiter; stacks copied away and back |
| HTTP workers, `NtyCo/sample/ntyco_httpd.c` | lock and counters in shared memory | try lock, accept, unlock, answer | processes that share a listening socket; a lock held across yields |
| thread pool, `00/04_threadpool` | task list, worker list, mutex, condition | create, push, worker loop, destroy | lost wake-ups, the destroying walk |
| MySQL pool, `00/05_mysql/mysql_connectPool.c` | free and used lists, total | get, release, close | the total through failures; retries; close with connections in use |
| DNS client, `00/06_dns/dns_async.c` | task list with statuses | add, thread, wait with timeout, collect | statuses written without the mutex; `strtok` in several threads; threads that outlive the wait |
| user-space stack, `02/2.4_dpdk/ustack/tcp.c` | streams with status, UDP socket, rings, ARP table | packet handlers, socket calls, ARP timer, ping | three threads on the same structures, mostly without locks; blocking calls on condition variables; no sequence checks |
| coroutine reactor, `02/2.3 coroutine` | ready queue, a coroutine per slot | callbacks, resume | finished coroutines left in slots; memory used again |
| HTTP/WebSocket server, `02/2.1network` | a slot per descriptor with a send status and a payload | as the reactor, in four builds | a response sent over several rounds; slots that are not reset; a file that needs a descriptor; frames as long as the buffer |

The front end calls `kvs_protocol` through a function pointer once for each
message it receives; `kvs_protocol` calls one operation of one engine and
returns the reply. All of this runs in one thread: the engines are sequential,
and what makes them hard is long sequences of legal requests, failing
allocations in the middle of one, and the end of the process. The front ends'
concurrency is with the kernel and the clients, and under NtyCo among
coroutines and worker processes. The other programs stand alone: the pools and
the DNS client with threads, the stack with a main thread that moves packets
between the port and two rings, `pkt_process` on a second core, and the TCP and
UDP echo servers on two more.

`PROJECT.json` lists every part, also the ones not modelled, and the hazards of
each at the line where they bite, with the properties that would catch them.

## Modules

| module | what it is |
|---|---|
| `KvMap` | the promise of an engine: a map behind SET, GET, DEL, MOD, EXIST |
| `KvHash`, `MCKvHash`, `KvHashProofs` | the hash engine; its instance; its proofs |
| `KvArray`, `MCKvArray`, `KvArrayProofs` | the array engine |
| `KvRbtree`, `MCKvRbtree` | the red-black tree engine |
| `Reactor`, `MCReactor`, `ReactorProofs` | the epoll front end, its clients and the kernel between them |
| `Proactor`, `MCProactor` | the io_uring front end |
| `NtyCo`, `MCNtyCo`, `NtyCoProofs` | the coroutine library under the kvstore's front end and the HTTP workers |
| `ThreadPool`, `ThreadPoolProofs` | the thread pool and its proofs |
| `ConnPool`, `ConnPoolProofs` | the MySQL connection pool and its users |
| `DnsAsync`, `MCDnsAsync`, `DnsAsyncProofs` | the asynchronous DNS client |
| `UserTcp` | the TCP half of the user-space stack, its echo server and their peers |
| `UserStack`, `MCUserStack`, `UserStackProofs` | the whole stack: `UserTcp` composed with UDP, ping, ARP and the UDP echo server; its proofs |
| `CoReactor`, `MCCoReactor` | the reactor that answers in coroutines |
| `WebServer`, `MCWebServer` | the HTTP and WebSocket server in its four builds |

`KvHash` and `KvRbtree` are instances of `KvMap` by refinement; `UserStack`
extends `UserTcp` and shares its packet thread, rings and ARP table. A
`Workload` constant is a set of scenarios: the initial state picks one, so that
one run covers several kinds of clients without all of them at once. Model
values stand for connections; where the code tells a descriptor from the
connection on it, because a descriptor is used again, the model has both.

### KvMap
Its variables are the map, whether the server runs, and the last request with
its answer. What an operation may answer is read off the return-value comments
of `kvs_array.c` ("<0 error; =0 success; >0 exist", "NULL noexist; value
exist", ...) and the replies `kvs_filter_protocol` derives from them. Three
freedoms are part of the promise: SET may be refused; a MOD that fails leaves
`Lost` under the key, for which later answers are open but which stays one
stored key; and the server may die, after which it restarts with an empty map.
The constant `DelMissing` is the answer to a DEL of a missing key, in which the
engines differ ("error" for the hash engine, "no exist" for the tree).

### The engines
Each C function is an operator with its return value as last parameter: the
early returns are its disjuncts. A command (`HSET`, `RDEL`, ...) is an action
that runs the function and derives the reply from the return value as
`kvs_filter_protocol` does. A key or value missing in the request is `NULL`. The conditions
under which the code follows a null, unset or freed pointer are the `_dies`
operators: the process ends (`up` becomes FALSE) and `Restart` is a new process
with empty engines. Allocation fails only if the constant
`MallocMayFail` holds, in the tree engine only in workloads with `fails`.

* `KvHash`: keys are sequences of character codes, so that the hash function is
  the code's sum modulo the table size. The codes are not negative: `_hash` adds
  signed chars, so a key with bytes from 0x80 up can give a negative index, in
  front of the table (`kvs_hash.c:23-37`), and is outside the model
  (`HashAssumption`). A chain is a sequence, newest node
  first. `nodes` is allocated and not cleared; `main` allocates it on a heap
  nothing was freed to yet, so it reads as zeros, which is how it starts.
* `KvArray`: slots nobody has written hold `Junk`, freed values are `Lost`.
  `kvs_array_del` tests no slot for NULL, so passing a hole is a death.
* `KvRbtree`: nodes are numbers, 0 is the sentinel, `tree` is a record of
  functions (children, parents, colours, keys, values), and each loop of the
  code is a recursive operator over that record. The mirrored halves of the
  code are one operator with a side as parameter. The sentinel's parent is
  `NULL` from the start, as on a fresh heap; the fix-up that follows it is a
  death.

### Reactor
A client sends pieces, two to a request, and TCP delivers them in order but cut
and glued at will; one `recv` takes at most `BUFFER_LENGTH` pieces.
`epoll_wait` returns all ready descriptors in any order; then one action per
callback handles the event at the head. Clients connect, send and disconnect
between any two of these. `accept` gives the lowest free descriptor and fails
when there is none. A message that is not one whole request may be taken for a
request or end the server in `assert(0)`. A reply to a client that has closed
may provoke a reset, and a reply after that ends the server (SIGPIPE). Sending
never blocks: replies are short, and the sockets' buffers are not modelled.
Each event is kept with the connection it was raised for, which the code does
not know and the property `EventsFresh` needs.

### ThreadPool
A worker's program counter has one value per section between synchronisation
points: taking the mutex, the test of the list, the test of `terminate` with the
wait, the second test of `terminate`, taking the head, running the task,
freeing itself. `pthread_cond_signal` wakes one waiting worker, `broadcast` all;
wake-ups may be spurious. `main` creates the workers, pushes the tasks, sleeps,
and destroys the pool: the walk that sets `terminate` without the mutex is one
action per access (`Mark`, `Step`), then the broadcast, then the unlocked
clearing. `main` returning ends all threads (`At` disables them). A failing
allocation of a task ends the program.

### UserTcp
The state is that of `tcp.c`: the list `tcb_set`, for each connection its stream
(status, descriptor, `snd_nxt`, `rcv_nxt` and the two rings), the rings `in` and
`out`, the ARP table and the descriptor bitmap. `p` and `t` are the two threads:
where they are and their local variables.

* `pkt_process` handles one packet at a time. A handler is one action, except
  where the server thread can see or disturb the middle of it: the queueing of a
  fragment, the signal, and the moves of the two numbers are steps of their own.
  `snd_nxt` moves in the same step as the acknowledgement is queued, which only
  `ng_tcp_out`, on the same thread, takes out.
* `naccept` walks the list twice, once without a lock to find its own socket,
  once with the listener's mutex to find a stream without a descriptor; each
  step of a walk is an action. A stream that was removed has a null `next`, and
  freed memory of the DPDK heap is zeroed, so a walk that stands on one ends
  there. `nrecv`, `nsend` and `nclose` look their stream up too, but a stream
  with a descriptor stays in the list while the server uses it, which
  `NoStreamFreedInUse` checks, so their lookups are one step.
* `nsend` reads the two numbers in two steps. `nclose` reads them in the opposite
  order to the one `pkt_process` writes them in, so that every pair it can see
  exists at some moment; it reads them in one step.
* The main thread, the wire and the peers are `Transmit`, `Connect` and `Send`.
  A peer sends segments with data, a FIN or both, data with PSH or without, as
  its script says, and accepts only what is in sequence. Nothing is lost or
  reordered, and peers retransmit nothing: that includes data the stack drops
  because it came without PSH, which a real peer would send again when no
  acknowledgement arrives. A segment carries, besides its sequence number, what
  the stack will have counted before it (`cnt`), which the code does not see and
  the properties need. Sequence numbers start at 0.
  While an address is unknown the loop repeats its ARP request; one in flight
  stands for all.
* `rte_ring_create` refuses a name that is taken, and all streams use the same
  two names. A stream without rings ends the process in the next enqueue:
  `alive` becomes FALSE.
* The two servers have their listening descriptors, 3 and 4, from the start:
  `get_fd_frombitmap` is called by both threads without a lock when they begin
  (`tcp.c:750-762`, `1020`), and a race there is not modelled.
* If the unlocked walk of `naccept` misses the listening socket, the server goes
  on with the descriptor -1. The model follows it (`missed`), and the properties
  promise nothing after it.

### Proactor
The state is the ring (submission queue, operations the kernel has, completions
in order), the one `buffer` and the one `response`. The thread
(`proactor_start`) submits, waits for a completion, peeks at a batch and
handles its entries one by one; each handler posts the next operation. The
kernel performs an operation at any moment between: a recv writes `buffer` when
it is performed, not when it is handled, and a send reads `response` then. A
recv overwrites as many bytes as it received and leaves the rest, and the
handler reads up to the first zero byte: `buffer` holds its bytes, each a blank,
a zero or another, and `kvs_split_token` puts zeros over the blanks as `strtok`
does. An answer stands for the request it was made for and the number of bytes
read behind it. The handler may also end the process: by the assertion on an
unknown command or within an engine (`up` becomes FALSE). An
accept without a free descriptor completes with -1, which the code takes for a
connection; a failed recv leaves the connection open.

### NtyCo
A process is a record: ready queue, wait tree (descriptor to coroutine), epoll
registrations, the rest of the batch, the running coroutine, and for each
coroutine where it stands, its descriptor and its saved stack. The library's
functions are operators on this record (`nty_coroutine_create`, `_resume`,
`_yield`, `nty_schedule_sched_wait`, `_save_stack`, ...), and an action is what
a process does up to a yield or to a call that another process or a client can
interfere with. The kvstore's server passes the address of its local descriptor
to the reader, which reads it when it first runs: meanwhile the next accept may
have changed it. The HTTP server's workers take `accept_mtx` with a
compare-and-exchange, keep it over the wait and the accept, and count their
connections in `totalfds`, an array of 16, at their process number modulo the
number of processors: a workload gives each worker its slot, and two may share
one. There are at most 16 workers; with more processors the index would leave
the array, and at 20 be `accept_mtx`. Neither program sleeps for a time. The wait tree is
a function from descriptors to the coroutine under each, or `None`. A kvstore
has one process, as `main` has; `MaxCo` bounds the coroutines of a process and
is never met, because all readers but the newest wait on descriptors of their
own (`FreeExists` in `NtyCoProofs` proves it).

### ConnPool
`get_connection_from_pool` is one step per critical section: a free connection
is pinged, a dead one replaced or dropped, a new one made below the maximum,
else the caller sleeps a second and tries again. The handle is read from the
node after the mutex is released, a step of its own. The server may drop
connections, go away and return; sessions run their statements on whatever
handle they hold. `close_connection_pool` takes everything, also what is in
use; the actions `...AfterClose` follow users that go on then. Addresses of
nodes and handles are numbers; a new one is any that is not in use, so an
address is used again after a free or a close. Two slips of the file's own `main` (the
address of the handle's pointer passed to the library, and a misspelt `if`) are
read the way they are meant, which the module says.

### DnsAsync
`main` creates a detached thread per name, puts its task into the list, pauses,
works, waits up to a timeout and collects. A thread splits its name with
`strtok`, one label a step, over the position all threads share; sends; waits
for an answer or `recvfrom`'s timeout; stores its result in the task in single
writes without the mutex; and prints the name from it, after which it is done
(`Report`). Time is the seconds `main` sleeps. A prompt
behaviour lets no second pass while a thread can run, as on a machine that is
not busy; what is promised of the names holds for these only. That
`recvfrom`'s timeout is shorter than the wait of `main` is an assumption of the
module: the code has 5 and 10 seconds (`dns_async.c:169` and `:360`).

### UserStack
UDP shares the packet thread with TCP: `udp_process` puts a datagram into
`rcvbuf` and signals, `udp_out` takes one echo at a time from `sndbuf` and, while
the sender's hardware address is unknown, asks for it and puts the echo back at
the end. `nrecvfrom` hands out a datagram in pieces of the server's buffer and
returns the rest to the ring. Ping and ARP requests are answered in the packet
thread; the ARP timer asks for addresses on its own. A datagram is a number and
a length; the length kept is that of the UDP header, header bytes included, so
the pieces run past the data by that much, as in the code. The server echoes
the string in its buffer: of a piece that begins with a zero byte, its own or one
behind the data, there is nothing to copy and `nsendto` gives up. Which pieces do
is chosen by the traffic (`nul`).

### CoReactor
A slot has a coroutine or none; `recv_cb` makes one or queues the one there.
After each batch the queue is run empty: a coroutine answers, closes and
returns. It is marked suspended after that, so it is neither made anew nor
destroyed, and the next connection on the descriptor finds it in its slot. The
actions follow all that can happen to it: resumed after its end, destroyed
while queued, its memory given to another slot.

### WebServer
`event_register` resets a slot's buffers and callback and leaves status and
payload. In the `sendfile` build a response takes three turns of `send_cb` by
the slot's status; in the `ws` build the status separates handshake and frames.
`decode_packet` reads the second byte as the code's bit fields lay it out, then
7 or 16 bits of length, and bounds are checked against what one `recv` can take.
Several pieces may come in one `recv`; only the first is decoded. In the `file`
and `sendfile` builds each turn opens the file, which takes a descriptor: with
none free (`Opens`) the header is wrong and no file follows.

## Runs

| run | checks | bounds |
|---|---|---|
| `kv_hash` | `TypeOK`, `TableConsistent`, `ImplementsKvMap` | a table of 2 slots, 3 keys of one and 1 of the other, 2 values: chains long enough for head, middle and last node |
| `kv_array` | `TableConsistent`, `NoEntryOverwritten` | 3 slots, 4 keys, 2 values: the table fills up, and holes occur before, between and after entries |
| `kv_rbtree` | `WellFormed`, `ImplementsKvMap` | 9 keys with one value, and 5 keys with 2 values and failing allocations: trees in which every case of both fix-ups occurs that the code survives; the view forgets node numbers and replies, on which nothing checked depends |
| `thread_pool` | `TypeOK`, `TakeFindsTask`, `RunOnce`, `NoLostWakeup`, `TasksRun` | 3 workers, 3 tasks: one asleep, one awake, one taking |
| `reactor` | `NothingLost`, `EventsFresh`, `Served` | 3 connections that send 4, 1 and 0 pieces, 2 descriptors, 3 pieces per recv: a request cut, requests glued, a descriptor reused, accept failing |
| `proactor` | `OneOperationEach`, `TurnsGetOwnReplies`, `EveryRequestAnswered` | 3 clients, a queue of 3 entries, batches of 2, a buffer of 7 bytes; requests of 2, 3 and 6 bytes with and without blanks where an earlier one ends; clients in turns, together, one aborting, one descriptor only |
| `ntyco` | `EventsHaveWaiters`, `OnePlace`, `OwnReplies`, `AcceptMutex`, `EveryRequestRead` | 2 clients; the kvstore with 1 process and HTTP with 2 workers in two slots and in one, each well-behaved, with an abort, and out of descriptors |
| `conn_pool` | `Accounting`, `HeldIsOwn`, `EveryoneServed` | 3 threads over 1 to 2 connections, 2 sessions each, one outage, one dropped connection: more users than connections, and each failure both free and in use |
| `dns_async` | `TasksCollectedOnce`, `PromptIsSafe`, `Ends` | 3 names of 2, 2 and 1 labels, `recvfrom` 2 s, work 1 s, wait 3 s: the order of the real values |
| `user_stack` | `StackConsistent`, `NoLostWakeups`, `InOrder`, `AcksExact`, `DatagramsAnsweredOnce`, `EveryoneAnswered` | 2 TCP clients and 2 UDP hosts, one deaf to ARP; buffers of 2 and 3 bytes: long and pipelined messages, data without PSH before, between and with the FIN, cut datagrams with and without pieces that begin with a zero byte, ping, ARP, and TCP next to UDP |
| `co_reactor` | `AnsweredOrStranded`, `EveryRequestRead` | 4 connections on 2 descriptors, memory for 3 coroutines: a slot is met with a finished, a dead and a freed coroutine |
| `web_server` | `SlotsServeTheirOwner`, `RepliesWhole`, `EveryReadAnswered` | 3 connections on 2 descriptors, the real `BUFFER_LENGTH`, four builds, descriptors that run out; handshakes whole and cut, frames of 0, 5, 125, 126 and 1016 bytes, glued by TCP or not, one in the standard's layout, half a frame, aborts |

What the runs show:

* The hash engine is the promised map. So is the tree engine, in every history
  in which the server survives its deletes. The array engine is not: it keeps a
  weaker promise, that no entry is overwritten, that `total` is the exact number
  of entries, and that an entry is out of reach of the scans only while there is
  a hole below it that the next SET fills.
* The reactor answers every byte of a connection once, in order, on that
  connection. The proactor keeps one operation per connection and, while it runs,
  never drops a request; as long as clients take turns a reply answers the
  client's own request, but that request may have been read with the tail of an
  earlier, longer one. Only when none was sent before is it read alone.
* NtyCo never handles an event without its coroutine and keeps each coroutine in
  one place, although coroutines close and wait again within a batch; replies
  are a client's own although all coroutines share one stack; one worker at a
  time accepts. A request is read unless its reader started with a wrong
  descriptor, or its worker waits for the accept lock.
* The thread pool runs each task once and loses no wake-up. The connection
  pool's total follows its lists, nobody shares a connection while the pool is
  open, and nobody waits for ever. The DNS client collects each task once, frees
  none before its thread has stored the result (the thread still prints the name
  from it, then possibly freed), and ends.
* The stack's servers sleep over nothing, although they share the streams with
  the packet thread almost without locks. Of what a TCP client sends, the data
  with PSH is acknowledged, exactly, and read, never twice and no message's
  beginning before an earlier one's, as long as one client is served at a time;
  data without PSH is neither, and the rest of a long message may be lost behind
  the FIN. Datagrams are echoed piece by piece, once, to their senders, also
  behind echoes to a host that never answers ARP, except pieces that begin with
  a zero byte.
* The coroutine reactor answers once or leaves the connection stranded on a slot
  with a past. The web server gives every read its whole answer, and no other
  connection's, with the exceptions `RepliesWhole` names.

### Behaviours worth knowing
The models follow the code where it does what a reader may not expect, and the
properties say no more than what holds. The places:

* a DEL in the middle of the array hides the last entry from GET until the hole
  is filled (`kvs_array.c:118`);
* an RDEL whose fix-up follows the sentinel's parent ends the server
  (`kvs_rbtree.c:267`);
* `nThreadPoolDestory` walks workers that may have freed themselves
  (`Threadpool.c:173`);
* `nsend` does not advance `snd_nxt`, so two echoes can carry the same sequence
  number (`tcp.c:1200`);
* the stack drops data that comes without PSH and does not acknowledge it
  (`tcp.c:1713`): of a write in several segments only the last is read;
* the rest of a message longer than the buffer is queued behind the FIN when
  that has arrived, and lost when the server closes (`tcp.c:1261`, `1849`);
* a piece of a datagram that begins with a zero byte is not echoed
  (`tcp.c:1360`, `1476`);
* simultaneous clients of the proactor can get each other's replies
  (`proactor.c:157`), and a reader of `ntyco.c:66` another's descriptor;
* the proactor never clears its buffer, so after "SET key value" the request
  "GET a" is read as "GET aey" (`proactor.c:179`, `kvstore.c:275`);
* a DNS thread prints the name from its task after storing the status, when
  `main` may have freed it (`dns_async.c:204`, `207`);
* workers whose process numbers agree modulo the number of processors share a
  counter, and with more than 16 processors the counters leave their array
  (`ntyco_httpd.c:187`);
* an HTTP worker that finds the accept lock taken keeps its ready queue filled
  and does not poll its own connections meanwhile;
* `strtok` mixes names when the query threads are slow to run;
* a connection of the coroutine reactor that meets the finished coroutine of
  another is never answered;
* a WebSocket slot starts with the status of the previous connection, a
  handshake cut within its key is answered for what arrived, an empty frame
  sends the previous reply again, and of frames glued into one `recv` only the
  first is echoed;
* while all descriptors are taken the web server cannot open its file: the
  header states whatever size was on the stack and no file follows
  (`webserver.c:58`, `74`).

### Fairness
What is assumed is that the operating system runs every runnable thread and that
a mutex held for a few statements is eventually obtained; nothing is ever
assumed of clients, hosts or servers of other programs to do more.

* `ThreadPool`: weak fairness of each worker; none of `main`, so tasks need not
  be pushed and the pool need not be destroyed.
* `Reactor`, `CoReactor`, `WebServer`: weak fairness of the server's one thread.
* `NtyCo`: weak fairness of each process.
* `Proactor`: weak fairness of the thread, and of each operation the kernel can
  complete.
* `ConnPool`: weak fairness of `main` and the threads, and of the database's
  return after an outage, without which a caller retries for ever.
* `DnsAsync`: weak fairness of `main` and the threads; answers may be lost.
* `UserStack`: weak fairness of the main loop, of both servers and of
  `ng_tcp_out` for each stream; strong fairness of the packet thread, because it
  has to get a mutex that a waiter woken for no reason may take again and again,
  and of `udp_out`, which the packet thread's loop reaches in every round but
  which is not enabled in the middle of a packet.

The clients' workloads are finite: when they are done, servers wait in
`epoll_wait`, in the ring or on a condition, and programs have ended, so these
runs do not check deadlock; their liveness properties say that nothing is left
undone. The engines have no liveness property: an operation is one step.

## Proofs

`KvHashProofs`, for any set of keys (sequences of natural numbers), values and
table size, with or without allocation failures:

* `TypeCorrect`, `TableCorrect`: the inductive invariant is `TypeOK` with
  `TableConsistent`, that is `NoDuplicates`, `InOwnSlot` and `CountIsExact`. The count cannot be
  proved alone: that one delete removes one position needs the chain's form.
  One lemma per operation shows that it keeps the table
  (`SetKeepsTable`, `ModKeepsTable`, `DelKeepsTable`), over lemmas on what
  putting a node in front, changing a value and leaving a node out do to a
  chain.
* `Refinement`: every step is a step of `KvMap` under the mapping
  `map[k] = kvs_hash_get(k)`. One lemma per operation says how the lookup of
  every key changes (`SetEntry`, `ModEntry`, `DelEntry`), and one per command
  that it is the abstract action with the same answer. Deleting relies on
  `NoDuplicates`: only then does the removed node's key vanish from the map.

`ThreadPoolProofs`, for any number of workers and tasks:

* `TypeCorrect`, `MutexCorrect`, `TakeSafe`, `TasksRunOnce`, `WakeupNotLost`.
  The inductive invariant adds to the properties themselves: `Lifecycle` (which
  workers exist, and have their flag set, at each stage of `main`), `ListKnown`
  (what a worker knows of the list from its last test of it, and that no worker
  is taking a task any more once the broadcast is made), and `OnlyPushed` and
  `Once` (where a task can be). `TakeSafe` rests on the broadcast being made
  under the mutex: it separates the flags from the unlocked clearing.

`KvArrayProofs`, for any size of the table, keys and values:

* `TableCorrect`, `EntriesSafe`. The inductive invariant is `TypeOK`,
  `TotalCountsEntries` and `WrittenFromFirst`: the slots ever written are a
  prefix of the table. From it follow `NoJunkRead`, because the entries lie in
  that prefix and `total` counts them, and `HiddenOnlyBehindHole`, because an
  entry at or above `total` leaves fewer than `total` entries below. That
  appending overwrites nothing (`EntriesSafe`) rests on the latter: SET appends
  only when it saw no hole.

`ReactorProofs`, for any connections, descriptors, buffer length and amounts
sent:

* `EventsAreFresh`: the invariant needs `Places` (a connection is in the backlog
  once or behind one descriptor, and a descriptor is registered exactly while it
  is open) and `EventsTrue` (each reported event is still true, and no
  descriptor is reported twice). The second is stronger than the property: a
  readable descriptor stays readable until its own callback, which is why an
  empty `recv` means that the client has closed.
* `NothingIsLost`: adds `Owned` (bytes, replies and slots belong to their
  connection), `Untouched` (a connection the server does not know and the client
  has not closed has no history) and `Flow`, the property's equation. A callback
  moves pieces from one part of the equation to the next; that a reply more is a
  piece of the concatenation more is `FlattenAppend`, proved from the recursive
  definition of `FlattenSeq` by taking least counterexamples.

`ConnPoolProofs`, for any number of threads, pool sizes and sessions:

* `PoolBalances`, `ConnectionsOwned`: the inductive invariant is `Accounting`
  with `HeldIsOwn` and `NobodyBefore` (before the pool is open no thread has a
  connection). Neither of the first two is inductive alone: releasing finds the
  node by its handle, so that exactly one node leaves the used list needs
  distinct handles, and the handle is still the holder's because nobody else
  has the node.

`DnsAsyncProofs`, for any number of names and labels:

* `CollectedOnce`: adds `TasksFollowThreads`, which relates what is stored in a
  task to the position of its thread; a task is collected only after the status
  is stored, so after the last store into it.
* `PromptSafe`: adds `OneSplits` (in a prompt behaviour one thread at a time is
  between its first and last label, and `strtok`'s position is its own) and
  `TimeoutsNear` (every receive ends before `main`'s wait can).

`NtyCoProofs`, for up to 16 processes, each with any slot of `totalfds`, any
number of connections and requests, and either program:

* `EventsFound`, `PlacesUnique`, `AcceptLockHeld`: the properties come from one
  invariant. `Core(s, X)` says of a scheduler that its ready queue holds the new
  and the sleeping coroutines once, its tree the blocked ones under their
  descriptors, and that the coroutines in `X` are in neither: the running one
  between steps, the one just taken out within a step. So an operation of the
  library is a lemma from one `Core` to the next (`DequeueKeeps`, `WakeKeeps`,
  `PollKeeps`, `CreateKeeps`, `ExitKeeps`, ...), and an action a chain of them.
  `EventsOK` in it is stronger than the property: what epoll watches has a
  waiter, and what is left of a batch is watched, each once. `RoleOK` keeps the
  listening socket to the server; `FilesOK` keeps what is watched to what the
  process has open, so that a close always takes one of its own connections off
  `totalfds`; the counter is exact for a worker that is alone in its slot.
* `AcceptReady`, that a worker told of a connection finds one, needs the lock for
  the HTTP workers, and the single process for the kvstore; with it, and with
  the empty ready queue while an accept is left in the batch, a server that
  accepts always finds a free coroutine.
* A reader of the kvstore that starts with a wrong descriptor may be the second
  one to wait for it, and the process ends by the assertion: the proof follows
  that path too, and no invariant excludes it.
* `RepliesOwn`: adds `FlowOK`, where a request is. It is unread, or with the one
  reader that answers it, never both, and it is the one after those answered;
  the reader has it on the stack of the process while it runs and in its own
  copy while it waits (`Val`). `HoldersOK`, that a reader answers only on what
  its process has open, keeps the readers of other processes away; that no other
  reader of the same process has the connection is the tree's one waiter for a
  descriptor (`Alone`, `Talks`). Readers with a wrong descriptor do no harm
  because what they receive there is that connection's own request.

`UserStackProofs`, for any hosts, clients, workloads (data with PSH and
without), datagrams (pieces that begin with a zero byte and not) and buffer
sizes, over a network that neither loses nor retransmits:

* `StackIsConsistent`, `StackLosesNoWakeup`, `StackAcksExactly`,
  `StackReadsInOrder`. The inductive invariant is `StackInv`, or a dead process
  that was safe when it died (a second stream has no rings, `Died`). Its parts:
  * `ListInv`: the list is the listener, behind at most one stream. All walks and
    lookups of the code are over one of two lists, which is what makes them
    tractable.
  * `ServerInv`, `InUseInv`: the echo server's stream has its descriptor, is in
    the list and is not yet in `LAST_ACK`, so the packet thread, which frees only
    there, frees nothing under it; unless the listener was missed.
  * `SignalInv`, `UdpInv`: what a waiting server has not seen, the packet thread
    is about to signal. It speaks of the states before the wait too (`hold`, and
    `pick` with what of the list is still to be looked at): the mutex keeps the
    signal away between the test and the wait, although it does not guard what
    is tested.
  * `Line(c)`: what of a client is in the in ring. Its segments form a `Chain`
    from what the stream has acknowledged, with what the packet thread still owes
    (`Due`) added, to what the client has sent, counted as the stack counts: SYN,
    FIN and the data with PSH; `Messages` says the same of the
    messages, and `Phase` what may be there at each status of the stream.
    `AcksExact` is the chain with no segments in it.
  * `OutInv`: every segment on its way out, in the ring or in `sndbuf`,
    acknowledges no more than was sent; before the address of a client is known
    there is only the SYN/ACK, because the client cannot have answered it.
  * `ReadInv`: the fragments of `rcvbuf` are pieces of different messages, each
    to be read after its own earlier pieces and after the beginnings of the
    earlier messages, whatever the order in which rests are queued again.
* `StackEchoesOnce`: adds `DatagramInv`. `OnceInv`: no piece of a datagram is at
  two places, neither among those to be cut (the in ring, the receive ring, the
  server) nor among those echoed (the send ring, the out ring, the host).
  `LengthInv`: what is left of a datagram begins where its length, header
  included, says. `Progress`: of each datagram at most one piece is still to be
  cut, the piece the server is about to echo comes before it, and all earlier
  ones are echoed or begin with a zero byte. No order between datagrams is needed, and the send ring keeps
  none.
* Operations on the ring are lemmas about `Shifted`, `Pushed` and `Popped`: how
  one client's segments move when another's, or its own, come and go. The UDP
  half moves no TCP segment and the TCP half no datagram (`OthersKept`,
  `BystanderKept`), so the two halves are proved apart.

Assumptions are the constants' types only (`ASSUME` in the modules), for the DNS
client the order of the two timeouts, and for NtyCo the one process of the
kvstore, at most 16 workers and the size of `MaxCo`; TLC evaluates them in the runs.

Only model-checked: every liveness property, because liveness under fairness is
out of the prover's reach; the tree engine, whose loops are recursive operators
on a graph of nodes; and the proactor, the coroutine reactor and the web server,
for which no proof has been attempted.

## Not modelled

* Of the key-value store: which tokens a message is cut into (of `strtok` only
  the zero bytes it leaves in the proactor's buffer; the 128 entries of `tokens`,
  `kvstore.c:77`, are not tested for) and the formatting of
  replies; keys with bytes from 0x80 up in the hash engine; the `destory` functions of the engines (the server loops never
  return) and counters without callers; the HTTP and WebSocket variants compiled
  out of `12_1/reactor.c`; a message of blanks only, for which `kvs_protocol`
  returns -1 as the length to send; the skip table, a stub.
* Of the thread pool: failures of `pthread_create` and of worker allocation,
  which `main` ignores.
* Of NtyCo: sleeping for a time, `connect` and the datagram calls, the balancing
  of the third-party trees, and the other samples, which are single servers and
  clients of the same calls.
* Of the MySQL pool: a creation that makes only some of its first connections
  (it succeeds or fails as a whole).
* Of the coroutine reactor: `schedule_add` of a coroutine that is in the ready
  queue already cuts off what follows it. The operator does so too, but it takes
  three descriptors ready in one batch to lose something, and the run has two.
* Of the user-space stack: failing allocations (but for the empty echo), the
  servers' unlocked reservation of their first descriptors, rings that fill up, buffers of
  the driver, checksums, and a network that loses, duplicates or reorders, or a
  peer that sends again: the code has no retransmission and no sequence check,
  so it would read a segment as often as it comes.
* Of the web server: a frame whose stated length leads outside the buffer, bytes
  beyond one buffer, a client that does not read (`sendfile` then blocks or is
  cut short).
* The io_uring and epoll servers from which the front ends were made, earlier
  versions of the stack, the lock comparison, exercises with `setjmp`, `ucontext`
  and hooks, shell scripts, test clients; and the sequential programs without
  failure handling: contacts, word counters, the simple DNS and HTTP clients.

## Plan

What is left is proof: `OneOperationEach` of `Proactor`, with the place of each
descriptor's operation, and the two invariants of `WebServer`, slot by slot.
