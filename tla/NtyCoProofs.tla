----------------------------- MODULE NtyCoProofs -----------------------------
(***************************************************************************)
(* The scheduler of NtyCo proved for every workload: a coroutine is in one *)
(* place, every event finds its coroutine, the accept lock is held by the  *)
(* one worker that waits in accept, and each client gets its own replies.  *)
(***************************************************************************)
EXTENDS NtyCo, SequencesExt, FiniteSetsExt, FiniteSetTheorems, SequenceTheorems, TLAPS

(* A set of numbers that is not empty has a least member, and Min is it.    *)
LEMMA MinFacts ==
  ASSUME NEW S \in SUBSET Nat, S # {}
  PROVE  Min(S) \in S /\ \A j \in S : Min(S) <= j
<1>1. \E i \in S : \A j \in S : i <= j
  <2> DEFINE R == {ss \in Nat \X Nat : ss[1] < ss[2]}
  <2>1. OpToRel(<, Nat) = R
    BY DEF OpToRel
  <2>2. IsWellFoundedOn(R, Nat)
    BY <2>1, NatLessThanWellFounded
  <2> HIDE DEF R
  <2>3. PICK i \in S : \A j \in S : ~ (<<j, i>> \in R)
    BY <2>2, WFMin
  <2>4. ASSUME NEW j \in S
        PROVE  i <= j
    <3>1. ~ (<<j, i>> \in R)
      BY <2>3
    <3>2. i \in Nat /\ j \in Nat
      OBVIOUS
    <3>3. j < i => <<j, i>> \in R
      BY <3>2 DEF R
    <3>4. QED
      BY <3>1, <3>2, <3>3
  <2>5. QED
    BY <2>4
<1>2. QED
  BY <1>1 DEF Min

(* Adding at the tail.                                                      *)
LEMMA AppendFacts ==
  ASSUME NEW T, NEW s \in Seq(T), NEW x \in T
  PROVE  /\ Append(s, x) \in Seq(T) /\ Len(Append(s, x)) = Len(s) + 1
         /\ ToSet(Append(s, x)) = ToSet(s) \cup {x}
         /\ IsInjective(s) /\ x \notin ToSet(s) => IsInjective(Append(s, x))
<1> DEFINE c == Append(s, x)
<1>1. c \in Seq(T) /\ Len(c) = Len(s) + 1 /\ Len(s) \in Nat
  OBVIOUS
<1>2. c[Len(s) + 1] = x /\ \A i \in 1 .. Len(s) : c[i] = s[i]
  OBVIOUS
<1>3. DOMAIN c = 1 .. Len(s) + 1 /\ DOMAIN s = 1 .. Len(s)
  BY <1>1
<1> HIDE DEF c
<1>4. \A i \in 1 .. Len(s) + 1 : i \in 1 .. Len(s) \/ i = Len(s) + 1
  BY <1>1
<1>5. ToSet(c) = ToSet(s) \cup {x}
  <2>1. ASSUME NEW y \in ToSet(c) PROVE y \in {x} \cup ToSet(s)
    BY <1>1, <1>2, <1>3, <1>4 DEF ToSet
  <2>2. x \in ToSet(c)
    BY <1>1, <1>2, <1>3, Len(s) + 1 \in 1 .. Len(s) + 1 DEF ToSet
  <2>3. ASSUME NEW i \in 1 .. Len(s) PROVE s[i] \in ToSet(c)
    BY <1>1, <1>2, <1>3, i \in 1 .. Len(s) + 1 DEF ToSet
  <2>4. QED
    BY <2>1, <2>2, <2>3, <1>3 DEF ToSet
<1>6. ASSUME IsInjective(s), x \notin ToSet(s) PROVE IsInjective(c)
  BY <1>2, <1>3, <1>4, <1>6 DEF ToSet, IsInjective
<1>7. QED
  BY <1>1, <1>5, <1>6 DEF c

(* Taking the head.                                                         *)
LEMMA TailFacts ==
  ASSUME NEW T, NEW s \in Seq(T), s # <<>>
  PROVE  /\ Tail(s) \in Seq(T) /\ Head(s) \in T /\ Len(Tail(s)) = Len(s) - 1
         /\ ToSet(s) = {Head(s)} \cup ToSet(Tail(s))
         /\ IsInjective(s) => IsInjective(Tail(s)) /\ Head(s) \notin ToSet(Tail(s))
<1> DEFINE c == Tail(s)
<1>1. c \in Seq(T) /\ Len(c) = Len(s) - 1 /\ Len(s) \in Nat \ {0} /\ Head(s) = s[1]
  OBVIOUS
<1>2. \A i \in 1 .. Len(s) - 1 : c[i] = s[i + 1]
  OBVIOUS
<1>3. DOMAIN c = 1 .. Len(s) - 1 /\ DOMAIN s = 1 .. Len(s)
  BY <1>1
<1>4. s[1] \in T
  BY <1>1
<1> HIDE DEF c
<1>5. \A i \in 1 .. Len(s) : i = 1 \/ (i - 1 \in 1 .. Len(s) - 1 /\ c[i - 1] = s[i])
  BY <1>1, <1>2
<1>6. ToSet(s) = {Head(s)} \cup ToSet(c)
  <2>1. ASSUME NEW i \in 1 .. Len(s) PROVE s[i] \in {Head(s)} \cup ToSet(c)
    BY <1>1, <1>3, <1>5 DEF ToSet
  <2>2. s[1] \in ToSet(s)
    BY <1>1, <1>3 DEF ToSet
  <2>3. ASSUME NEW i \in 1 .. Len(s) - 1 PROVE c[i] \in ToSet(s)
    BY <1>1, <1>2, <1>3, i + 1 \in 1 .. Len(s) DEF ToSet
  <2>4. QED
    BY <1>1, <2>1, <2>2, <2>3, <1>3 DEF ToSet
<1>7. ASSUME IsInjective(s) PROVE IsInjective(c) /\ Head(s) \notin ToSet(c)
  <2>1. \A k, l \in 1 .. Len(s) : s[k] = s[l] => k = l
    BY <1>3, <1>7 DEF IsInjective
  <2>2. \A i \in 1 .. Len(s) - 1 : i + 1 \in 1 .. Len(s) /\ i + 1 # 1
    BY <1>1
  <2>3. ASSUME NEW i \in 1 .. Len(s) - 1, NEW j \in 1 .. Len(s) - 1, c[i] = c[j]
        PROVE  i = j
    BY <1>1, <1>2, <2>1, <2>2, <2>3, i + 1 = j + 1
  <2>4. \A i \in 1 .. Len(s) - 1 : c[i] # s[1]
    BY <1>1, <1>2, <2>1, <2>2
  <2>5. QED
    BY <1>1, <1>3, <2>3, <2>4 DEF IsInjective, ToSet
<1>8. QED
  BY <1>1, <1>4, <1>6, <1>7 DEF c

------------------------------------------------------------------------------
Queued == {"new", "sleep"}

Blocked == {"accept", "recv", "sendw"}

Active == {"lock", "send", "send2"}

Live(s) == {x \in Co : s.co[x].at # "free"}

(* The coroutine that runs, which is in no queue and in no tree.            *)
Hand(s) == {s.cur} \ {None}

(* The ready queue holds the new and the sleeping ones, each once.          *)
ReadyOK(s, X) ==
  /\ IsInjective(s.ready)
  /\ \A x \in Co : x \in ToSet(s.ready) <=> (s.co[x].at \in Queued /\ x \notin X)

(* The tree holds the blocked ones under their descriptors.                 *)
TreeOK(s, X) ==
  /\ \A f \in Fd : s.waiting[f] # None =>
       LET x == s.waiting[f] IN x \notin X /\ s.co[x].at \in Blocked /\ s.co[x].fd = f
  /\ \A x \in Co \ X : s.co[x].at \in Blocked => s.waiting[s.co[x].fd] = x

HandOK(s, X) ==
  /\ X \subseteq Live(s)
  /\ \A x \in Co \ X : s.co[x].at \notin Active

(* The server waits for the listening socket and nobody else does.          *)
RoleOK(c, x) ==
  IF x = Server
  THEN c.at \in {"free", "new", "sleep", "lock", "accept"} /\ (c.at = "accept" => c.fd = Listen)
  ELSE /\ c.at \in {"free", "new", "recv", "send", "sendw", "send2"}
       /\ c.at \in {"recv", "send", "sendw", "send2"} => c.fd # Listen
       /\ c.at \in {"send", "sendw", "send2"} => c.fd \in Conn

RolesOK(s) == \A x \in Co : RoleOK(s.co[x], x)

(* What epoll watches has a waiter; what is left of a batch is watched; and *)
(* while an accept is left in it, nothing is ready.                         *)
EventsOK(s) ==
  /\ IsInjective(s.events) /\ ToSet(s.events) \subseteq s.epoll
  /\ \A f \in s.epoll : s.waiting[f] # None
  /\ Listen \in ToSet(s.events) => s.ready = <<>>

CountOK(s) == s.spawned_coroutines = Cardinality(Live(s))

(* The first run of the server comes before every reader.                   *)
StartOK(s) == s.co[Server].at = "new" => \A x \in Co \ {Server} : s.co[x].at = "free"

(* A scheduler whose coroutines X are in nobody's queue: just taken out.    *)
Core(s, X) ==
  /\ ReadyOK(s, X) /\ TreeOK(s, X) /\ HandOK(s, X) /\ RolesOK(s) /\ EventsOK(s) /\ CountOK(s)
  /\ StartOK(s)

RunOK(s) ==
  s.cur # None => /\ s.co[s.cur].at \in Active
                  /\ s.cur # Server => s.waiting[s.co[s.cur].fd] = None

SchedOK(s) ==
  /\ Core(s, Hand(s)) /\ RunOK(s)
  /\ s.pc \in {"ready", "epoll"} => s.events = <<>>

(* What a new reader will find as its descriptor.                           *)
ArgOK(s) ==
  \A x \in Co \ {Server} : s.co[x].at = "new" =>
    /\ Is("httpd") => s.co[x].arg \in Conn
    /\ Is("kvstore") /\ s.stack.owner = Server => s.stack.val \in Conn \cup {NoFd}

FilesOK(p) ==
  /\ sched[p].epoll \subseteq Open(p)
  /\ Is("httpd") /\ OwnSlot(p) => totalfds[work.slot[p]] = Cardinality(Open(p) \ {Listen})

(* A reader that has received and not answered has its connection open.     *)
Answers(s, x) == s.co[x].at \in {"send", "sendw", "send2"}

HoldersOK(p) == \A x \in Co : Answers(sched[p], x) => sched[p].co[x].fd \in Open(p)

BacklogOK == IsInjective(backlog) /\ \A c \in ToSet(backlog) : conn[c].st = "backlog"

(* Nobody takes the connection that a worker was told of.                   *)
AcceptReady ==
  \A p \in work.procs : sched[p].alive /\ Listen \in ToSet(sched[p].events) => backlog # <<>>

IInv ==
  /\ TypeOK
  /\ \A p \in Proc : sched[p].alive => SchedOK(sched[p]) /\ ArgOK(sched[p]) /\ FilesOK(p)
  /\ BacklogOK /\ AcceptMutex /\ AcceptReady

------------------------------------------------------------------------------
(* The fields of a scheduler.                                               *)
LEMMA Fields ==
  ASSUME NEW s \in Scheduler
  PROVE  /\ s.alive \in BOOLEAN /\ s.pc \in {"ready", "epoll", "events", "run"}
         /\ s.ready \in Seq(Co) /\ s.last \in Co \cup {None}
         /\ s.waiting \in [Fd -> Co \cup {None}] /\ s.epoll \in SUBSET File
         /\ s.events \in Seq(File) /\ s.cur \in Co \cup {None}
         /\ s.co \in [Co -> Coroutine]
         /\ s.stack \in [owner : Co \cup {None}, val : Local]
         /\ s.spawned_coroutines \in Int
BY DEF Scheduler

(* A scheduler that waits: its coroutine x is in the tree under fd.         *)
Polled(s, x, fd, at, opens) ==
  [s EXCEPT !.waiting = [s.waiting EXCEPT ![fd] = x], !.epoll = s.epoll \cup ({fd} \cap opens),
            !.co = [s.co EXCEPT ![x] = [s.co[x] EXCEPT !.at = at, !.fd = fd, !.saved = s.stack.val]],
            !.cur = None]

(* nty_poll_inner, where nobody waits for the descriptor yet.               *)
LEMMA PollIs ==
  ASSUME NEW s \in Scheduler, NEW x \in Co, NEW fd \in Fd, NEW at \in At,
         NEW opens \in SUBSET File, s.alive, s.waiting[fd] = None
  PROVE  nty_poll_inner(s, x, fd, at, opens) = Polled(s, x, fd, at, opens)
<1> DEFINE a == [s EXCEPT !.epoll = s.epoll \cup ({fd} \cap opens)]
           w == nty_schedule_sched_wait(a, x, fd)
           b == [a EXCEPT !.waiting = [s.waiting EXCEPT ![fd] = x]]
           c == [b EXCEPT !.co[x].at = at, !.co[x].fd = fd]
<1>1. a.waiting = s.waiting /\ a.alive
  BY DEF Scheduler
<1>2. w = b
  BY <1>1 DEF nty_schedule_sched_wait, RB_FIND, RB_INSERT, RB_INSERT_COLOR
<1>3. w.alive
  BY <1>2 DEF Scheduler
<1>4. nty_poll_inner(s, x, fd, at, opens) = nty_coroutine_yield(c, x)
  BY <1>2, <1>3 DEF nty_poll_inner
<1>5. nty_coroutine_yield(c, x) = Polled(s, x, fd, at, opens)
  <2> DEFINE r == [s.co[x] EXCEPT !.at = at, !.fd = fd]
             t == [s.co[x] EXCEPT !.at = at, !.fd = fd, !.saved = s.stack.val]
             d == [s.co EXCEPT ![x] = r]
             e == [s.co EXCEPT ![x] = t]
  <2>1. s.co \in [Co -> Coroutine] /\ s.co[x] \in Coroutine
    BY Fields
  <2>2. c = [b EXCEPT !.co = d]
    BY <2>1, ZenonT(60) DEF Scheduler, Coroutine
  <2>3. [r EXCEPT !.saved = s.stack.val] = t
    BY <2>1 DEF Coroutine
  <2>4. [d EXCEPT ![x] = t] = e /\ d[x] = r
    BY <2>1
  <2> HIDE DEF t, r
  <2>5. [d EXCEPT ![x].saved = s.stack.val] = e
    BY <2>1, <2>3, <2>4
  <2> HIDE DEF d, e
  <2>6. nty_coroutine_yield(c, x) = [[[b EXCEPT !.co = d] EXCEPT !.co[x].saved = b.stack.val] EXCEPT !.cur = None]
    BY <2>2 DEF nty_coroutine_yield, _save_stack, Scheduler
  <2>7. b.stack = s.stack
    BY DEF Scheduler
  <2>8. [[b EXCEPT !.co = d] EXCEPT !.co[x].saved = s.stack.val] = [b EXCEPT !.co = e]
    BY <2>5 DEF Scheduler
  <2>9. [[b EXCEPT !.co = e] EXCEPT !.cur = None] = Polled(s, x, fd, at, opens)
    BY DEF Polled, Scheduler, e, t
  <2>10. QED
    BY <2>6, <2>7, <2>8, <2>9
<1>6. QED
  BY <1>4, <1>5

(* The batch is taken from its end.                                         *)
LEMMA FrontFacts ==
  ASSUME NEW T, NEW s \in Seq(T), s # <<>>
  PROVE  /\ Front(s) \in Seq(T) /\ Last(s) \in T
         /\ ToSet(s) = {Last(s)} \cup ToSet(Front(s))
         /\ IsInjective(s) => IsInjective(Front(s)) /\ Last(s) \notin ToSet(Front(s))
<1> DEFINE c == Front(s)
           n == Len(s)
<1>1. n \in Nat \ {0} /\ DOMAIN s = 1 .. n
  OBVIOUS
<1>2. c \in Seq(T) /\ Len(c) = n - 1 /\ \A i \in 1 .. n - 1 : c[i] = s[i]
  BY <1>1 DEF Front
<1>3. DOMAIN c = 1 .. n - 1 /\ Last(s) = s[n] /\ s[n] \in T
  BY <1>1, <1>2 DEF Last
<1> HIDE DEF c, n
<1>4. \A i \in 1 .. n : i \in 1 .. n - 1 \/ i = n
  BY <1>1
<1>5. n \in 1 .. n /\ (\A i \in 1 .. n - 1 : i \in 1 .. n /\ i # n)
  BY <1>1
<1>6. ToSet(s) = {Last(s)} \cup ToSet(c)
  BY <1>1, <1>2, <1>3, <1>4, <1>5 DEF ToSet
<1>7. ASSUME IsInjective(s) PROVE IsInjective(c) /\ Last(s) \notin ToSet(c)
  BY <1>1, <1>2, <1>3, <1>5, <1>7 DEF ToSet, IsInjective
<1>8. QED
  BY <1>2, <1>3, <1>6, <1>7 DEF c

(* Two schedulers that differ in the stack and in what runs on it.          *)
Alike(s, r) ==
  /\ r.alive = s.alive /\ r.pc = s.pc /\ r.ready = s.ready /\ r.waiting = s.waiting
  /\ r.epoll = s.epoll /\ r.events = s.events /\ r.spawned_coroutines = s.spawned_coroutines
  /\ \A y \in Co : r.co[y].at = s.co[y].at /\ r.co[y].fd = s.co[y].fd /\ r.co[y].arg = s.co[y].arg

(* The lists do not depend on the stack.                                    *)
LEMMA CoreAlike ==
  ASSUME NEW s \in Scheduler, NEW r \in Scheduler, NEW X, Alike(s, r), Core(s, X)
  PROVE  Core(r, X)
<1> USE DEF Alike, Core
<1>1. Live(r) = Live(s)
  BY DEF Live
<1>2. ReadyOK(r, X)
  BY DEF ReadyOK
<1>3. TreeOK(r, X)
  <2>1. s.waiting \in [Fd -> Co \cup {None}]
    BY Fields
  <2>2. QED
    BY <2>1 DEF TreeOK
<1>4. HandOK(r, X)
  BY <1>1 DEF HandOK
<1>5. RolesOK(r)
  BY DEF RolesOK, RoleOK
<1>6. EventsOK(r)
  BY DEF EventsOK
<1>7. CountOK(r)
  BY <1>1 DEF CountOK
<1>8. Server \in Co
  BY ConstantAssumption DEF Co, Server
<1>9. StartOK(r)
  BY <1>8 DEF StartOK
<1>10. QED
  BY <1>2, <1>3, <1>4, <1>5, <1>6, <1>7, <1>9

(* A function gets a value into its local variable.                         *)
LEMMA SetLocalFacts ==
  ASSUME NEW s \in Scheduler, NEW x \in Co, NEW val \in Local, NEW r, r = SetLocal(s, x, val)
  PROVE  /\ r \in Scheduler /\ Alike(s, r) /\ r.cur = s.cur
         /\ r.stack.owner = x /\ r.stack.val = val
<1> DEFINE k == [owner |-> x, val |-> val]
<1>1. k \in [owner : Co \cup {None}, val : Local] /\ k.owner = x /\ k.val = val
  OBVIOUS
<1>2. r = [s EXCEPT !.stack = k]
  BY DEF SetLocal
<1> HIDE DEF k
<1>3. r \in Scheduler
  BY <1>1, <1>2 DEF Scheduler
<1>4. r.stack = k /\ r.cur = s.cur /\ r.co = s.co
  BY <1>2 DEF Scheduler
<1>5. Alike(s, r)
  BY <1>2 DEF Alike, Scheduler
<1>6. QED
  BY <1>1, <1>3, <1>4, <1>5

(* A coroutine is resumed: the stack is its own, unless it is new.          *)
LEMMA ResumeFacts ==
  ASSUME NEW s \in Scheduler, NEW x \in Co, NEW r, r = nty_coroutine_resume(s, x)
  PROVE  /\ r \in Scheduler /\ Alike(s, r) /\ r.cur = x
         /\ s.co[x].at # "new" => r.stack.owner = x
         /\ s.co[x].at = "new" => r.stack = s.stack
<1> DEFINE c == [s.co[x] EXCEPT !.saved = None]
           d == [s.co EXCEPT ![x] = c]
           k == [owner |-> x, val |-> s.co[x].saved]
<1>1. s.co \in [Co -> Coroutine] /\ s.co[x] \in Coroutine
  BY Fields
<1>2. CASE s.co[x].at = "new"
  <2>1. r = [[s EXCEPT !.co = d] EXCEPT !.cur = x]
    BY <1>1, <1>2 DEF nty_coroutine_resume, nty_coroutine_init, Scheduler
  <2>2. c \in Coroutine /\ c.at = s.co[x].at /\ c.fd = s.co[x].fd /\ c.arg = s.co[x].arg
    BY <1>1 DEF Coroutine, Local
  <2> HIDE DEF c
  <2>3. /\ d \in [Co -> Coroutine]
        /\ \A y \in Co : d[y].at = s.co[y].at /\ d[y].fd = s.co[y].fd /\ d[y].arg = s.co[y].arg
    BY <1>1, <2>2
  <2> HIDE DEF d
  <2>4. r \in Scheduler
    BY <2>1, <2>3 DEF Scheduler
  <2>5. r.cur = x /\ r.co = d /\ r.stack = s.stack
    BY <2>1 DEF Scheduler
  <2>6. Alike(s, r)
    BY <2>1, <2>3, <2>5 DEF Alike, Scheduler
  <2>7. QED
    BY <1>2, <2>4, <2>5, <2>6
<1>3. CASE s.co[x].at # "new"
  <2>1. r = [[s EXCEPT !.stack = k] EXCEPT !.cur = x]
    BY <1>1, <1>3 DEF nty_coroutine_resume, _load_stack, Scheduler
  <2>2. k \in [owner : Co \cup {None}, val : Local] /\ k.owner = x
    BY <1>1 DEF Coroutine
  <2> HIDE DEF k
  <2>3. r \in Scheduler
    BY <2>1, <2>2 DEF Scheduler
  <2>4. r.cur = x /\ r.co = s.co /\ r.stack = k
    BY <2>1 DEF Scheduler
  <2>5. Alike(s, r)
    BY <2>1 DEF Alike, Scheduler
  <2>6. QED
    BY <1>3, <2>2, <2>3, <2>4, <2>5
<1>4. QED
  BY <1>2, <1>3

(* What a scheduler in which x runs has after x waits for fd.               *)
PolledAs(s, x, fd, at, opens, r) ==
  /\ r \in Scheduler
  /\ r.alive = s.alive /\ r.pc = s.pc /\ r.ready = s.ready /\ r.cur = None
  /\ r.waiting = [s.waiting EXCEPT ![fd] = x]
  /\ r.epoll = s.epoll \cup ({fd} \cap opens)
  /\ r.events = s.events /\ r.stack = s.stack
  /\ r.spawned_coroutines = s.spawned_coroutines
  /\ r.co[x].at = at /\ r.co[x].fd = fd /\ r.co[x].saved = s.stack.val
  /\ \A y \in Co : y # x => r.co[y] = s.co[y]

(* The fields of Polled.                                                    *)
LEMMA PolledFields ==
  ASSUME NEW s \in Scheduler, NEW x \in Co, NEW fd \in Fd, NEW at \in At, NEW opens \in SUBSET File,
         NEW r, r = Polled(s, x, fd, at, opens)
  PROVE  PolledAs(s, x, fd, at, opens, r)
<1> DEFINE c == [s.co[x] EXCEPT !.at = at, !.fd = fd, !.saved = s.stack.val]
           d == [s.co EXCEPT ![x] = c]
           w == [s.waiting EXCEPT ![fd] = x]
           e == s.epoll \cup ({fd} \cap opens)
<1>1. s.co \in [Co -> Coroutine] /\ s.co[x] \in Coroutine /\ s.stack.val \in Local
  BY Fields
<1>2. c \in Coroutine /\ c.at = at /\ c.fd = fd /\ c.saved = s.stack.val
  BY <1>1 DEF Coroutine
<1>0. r = [s EXCEPT !.waiting = w, !.epoll = e, !.co = d, !.cur = None]
  BY DEF Polled
<1> HIDE DEF c
<1>3. /\ d \in [Co -> Coroutine] /\ d[x] = c
      /\ \A y \in Co : y # x => d[y] = s.co[y]
  BY <1>1, <1>2
<1>4. w \in [Fd -> Co \cup {None}] /\ e \in SUBSET File
  BY Fields
<1> HIDE DEF d, w, e
<1>5. r \in Scheduler
  BY <1>0, <1>3, <1>4 DEF Scheduler
<1>6. /\ r.alive = s.alive /\ r.pc = s.pc /\ r.ready = s.ready /\ r.cur = None
      /\ r.waiting = w /\ r.epoll = e /\ r.events = s.events /\ r.stack = s.stack
      /\ r.spawned_coroutines = s.spawned_coroutines /\ r.co = d
  BY <1>0 DEF Scheduler
<1>7. QED
  BY <1>2, <1>3, <1>5, <1>6 DEF w, e, PolledAs

(* Only the server waits for the listening socket.                          *)
LEMMA ListenFree ==
  ASSUME NEW s \in Scheduler, Core(s, {Server})
  PROVE  s.waiting[Listen] = None /\ Listen \notin s.epoll /\ Listen \notin ToSet(s.events)
<1>1. s.waiting \in [Fd -> Co \cup {None}] /\ Listen \in Fd
  BY Fields DEF Fd, File
<1>2. ASSUME s.waiting[Listen] # None PROVE FALSE
  <2> DEFINE y == s.waiting[Listen]
  <2>1. y \in Co /\ y # Server /\ s.co[y].at \in Blocked /\ s.co[y].fd = Listen
    BY <1>1, <1>2 DEF Core, TreeOK
  <2>2. RoleOK(s.co[y], y)
    BY <2>1 DEF Core, RolesOK
  <2>3. QED
    BY <2>1, <2>2 DEF RoleOK, Blocked
<1>3. QED
  BY <1>2 DEF Core, EventsOK

(* The coroutine in hand is in the tree.                                    *)
Waits(s, x, fd, at, opens, r) ==
  /\ r \in Scheduler /\ Core(r, {})
  /\ r.alive /\ r.pc = s.pc /\ r.cur = None
  /\ r.epoll = s.epoll \cup ({fd} \cap opens)
  /\ r.events = s.events /\ r.stack = s.stack
  /\ r.co[x].at = at /\ \A y \in Co : y # x => r.co[y] = s.co[y]

(* A coroutine in hand may wait where nobody waits.                         *)
LEMMA PollKeeps ==
  ASSUME NEW s \in Scheduler, NEW x \in Co, NEW fd \in Fd, NEW at \in Blocked,
         NEW opens \in SUBSET File, s.alive, s.waiting[fd] = None, Core(s, {x}),
         IF x = Server THEN at = "accept" /\ fd = Listen
         ELSE at # "accept" /\ fd # Listen /\ (at = "sendw" => fd \in Conn),
         NEW r, r = nty_poll_inner(s, x, fd, at, opens)
  PROVE  Waits(s, x, fd, at, opens, r)
<1>1. at \in At
  BY DEF Blocked, At
<1>2. r = Polled(s, x, fd, at, opens)
  BY <1>1, PollIs
<1>0. PolledAs(s, x, fd, at, opens, r)
  BY <1>1, <1>2, PolledFields
<1>3. /\ r \in Scheduler
      /\ r.alive = s.alive /\ r.pc = s.pc /\ r.ready = s.ready /\ r.cur = None
      /\ r.waiting = [s.waiting EXCEPT ![fd] = x]
      /\ r.epoll = s.epoll \cup ({fd} \cap opens)
      /\ r.events = s.events /\ r.stack = s.stack
      /\ r.spawned_coroutines = s.spawned_coroutines
      /\ r.co[x].at = at /\ r.co[x].fd = fd
      /\ \A y \in Co : y # x => r.co[y] = s.co[y]
  BY <1>0 DEF PolledAs
<1>4. s.waiting \in [Fd -> Co \cup {None}] /\ s.epoll \in SUBSET File
  BY Fields
<1>5. x # None
  BY ConstantAssumption DEF Co, Server
<1>6. Live(r) = Live(s)
  <2>1. x \in Live(s)
    BY DEF Core, HandOK
  <2>2. QED
    BY <1>3, <2>1 DEF Live, Blocked
<1>7. ReadyOK(r, {})
  BY <1>3 DEF Core, ReadyOK, Blocked, Queued
<1>8. TreeOK(r, {})
  <2>1. /\ r.waiting[fd] = x
        /\ \A f \in Fd : f # fd => r.waiting[f] = s.waiting[f]
    BY <1>3, <1>4
  <2>2. ASSUME NEW f \in Fd, r.waiting[f] # None
        PROVE  r.co[r.waiting[f]].at \in Blocked /\ r.co[r.waiting[f]].fd = f
    <3>1. CASE f = fd
      BY <1>3, <2>1, <3>1
    <3>2. CASE f # fd
      <4>1. /\ s.waiting[f] \in Co /\ s.waiting[f] # x
            /\ s.co[s.waiting[f]].at \in Blocked /\ s.co[s.waiting[f]].fd = f
        BY <1>4, <2>1, <2>2, <3>2 DEF Core, TreeOK
      <4>2. QED
        BY <1>3, <2>1, <3>2, <4>1
    <3>3. QED
      BY <3>1, <3>2
  <2>3. ASSUME NEW y \in Co, r.co[y].at \in Blocked
        PROVE  r.waiting[r.co[y].fd] = y
    <3>1. CASE y = x
      BY <1>3, <2>1, <3>1
    <3>2. CASE y # x
      <4>1. s.co[y].at \in Blocked /\ r.co[y] = s.co[y]
        BY <1>3, <2>3, <3>2
      <4>2. s.waiting[s.co[y].fd] = y
        BY <3>2, <4>1 DEF Core, TreeOK
      <4>3. s.co[y].fd \in Fd /\ y # None
        BY Fields, ConstantAssumption DEF Coroutine, Co, Server
      <4>4. s.co[y].fd # fd
        BY <4>2, <4>3
      <4>5. QED
        BY <2>1, <4>1, <4>2, <4>3, <4>4
    <3>3. QED
      BY <3>1, <3>2
  <2>4. QED
    BY <2>2, <2>3 DEF TreeOK
<1>9. HandOK(r, {})
  BY <1>3 DEF Core, HandOK, Blocked, Active
<1>10. RolesOK(r)
  <2>1. ASSUME NEW y \in Co
        PROVE  RoleOK(r.co[y], y)
    <3>1. CASE y = x
      BY <1>3, <3>1 DEF RoleOK, Blocked
    <3>2. CASE y # x
      BY <1>3, <3>2 DEF Core, RolesOK
    <3>3. QED
      BY <3>1, <3>2
  <2>2. QED
    BY <2>1 DEF RolesOK
<1>11. EventsOK(r)
  <2>1. \A f \in r.epoll : f \in Fd /\ (f = fd \/ f \in s.epoll)
    BY <1>3, <1>4 DEF Fd
  <2>2. \A f \in r.epoll : r.waiting[f] # None
    BY <1>3, <1>4, <1>5, <2>1 DEF Core, EventsOK
  <2>3. QED
    BY <1>3, <2>2 DEF Core, EventsOK
<1>12. CountOK(r)
  BY <1>3, <1>6 DEF Core, CountOK
<1>13. StartOK(r)
  <2>1. Server \in Co
    BY ConstantAssumption DEF Co, Server
  <2>2. s.co[x].at # "free"
    BY DEF Core, HandOK, Live
  <2>3. QED
    BY <1>3, <2>1, <2>2 DEF Core, StartOK, Blocked
<1>14. QED
  BY <1>3, <1>7, <1>8, <1>9, <1>10, <1>11, <1>12, <1>13 DEF Core, Waits

(* The first of the ready queue is in hand.                                 *)
Taken(s, x, q, r) ==
  /\ x \in Co /\ x = Head(s.ready) /\ s.co[x].at \in Queued
  /\ r \in Scheduler /\ Core(r, {x})
  /\ r.alive = s.alive /\ r.pc = q /\ r.cur = s.cur
  /\ r.waiting = s.waiting /\ r.epoll = s.epoll /\ r.events = s.events
  /\ r.co = s.co /\ r.stack = s.stack

(* Taking the first of the ready queue.                                     *)
LEMMA DequeueKeeps ==
  ASSUME NEW s \in Scheduler, Core(s, {}), s.ready # <<>>, NEW q \in {"ready", "epoll"},
         NEW r, r = [s EXCEPT !.ready = Tail(s.ready), !.pc = q]
  PROVE  Taken(s, Head(s.ready), q, r)
<1> DEFINE x == Head(s.ready)
<1>1. s.ready \in Seq(Co)
  BY Fields
<1>2. /\ Tail(s.ready) \in Seq(Co) /\ x \in Co
      /\ ToSet(s.ready) = {x} \cup ToSet(Tail(s.ready))
      /\ IsInjective(Tail(s.ready)) /\ x \notin ToSet(Tail(s.ready))
  BY <1>1, TailFacts DEF Core, ReadyOK
<1> HIDE DEF x
<1>3. r \in Scheduler
  BY <1>2 DEF Scheduler
<1>4. /\ r.alive = s.alive /\ r.pc = q /\ r.cur = s.cur /\ r.waiting = s.waiting
      /\ r.epoll = s.epoll /\ r.events = s.events /\ r.co = s.co /\ r.stack = s.stack
      /\ r.spawned_coroutines = s.spawned_coroutines /\ r.ready = Tail(s.ready)
  BY DEF Scheduler
<1>5. s.co[x].at \in Queued
  BY <1>2 DEF Core, ReadyOK
<1>6. ReadyOK(r, {x})
  BY <1>2, <1>4 DEF Core, ReadyOK
<1>7. TreeOK(r, {x})
  <2>1. s.waiting \in [Fd -> Co \cup {None}]
    BY Fields
  <2>2. \A f \in Fd : s.waiting[f] # None => s.waiting[f] # x
    BY <1>5 DEF Core, TreeOK, Queued, Blocked
  <2>3. QED
    BY <1>4, <2>2 DEF Core, TreeOK
<1>8. HandOK(r, {x})
  BY <1>2, <1>4, <1>5 DEF Core, HandOK, Live, Queued
<1>9. RolesOK(r)
  BY <1>4 DEF Core, RolesOK
<1>10. EventsOK(r)
  <2>1. Listen \notin ToSet(s.events)
    BY DEF Core, EventsOK
  <2>2. QED
    BY <1>4, <2>1 DEF Core, EventsOK
<1>11. CountOK(r)
  BY <1>4 DEF Core, CountOK, Live
<1>12. StartOK(r)
  BY <1>4 DEF Core, StartOK
<1>13. QED
  BY <1>2, <1>3, <1>4, <1>5, <1>6, <1>7, <1>8, <1>9, <1>10, <1>11, <1>12 DEF Taken, Core, x

(* The coroutine of the last event is in hand, and out of the tree.         *)
Wakes(s, f, x, r) ==
  /\ f \in File /\ f \in s.epoll /\ x \in Co /\ s.co[x].at \in Blocked /\ s.co[x].fd = f
  /\ r \in Scheduler /\ Core(r, {x})
  /\ r.alive = s.alive /\ r.pc = s.pc /\ r.cur = x
  /\ r.waiting[f] = None /\ r.epoll = s.epoll \ {f} /\ r.stack.owner = x
  /\ \A y \in Co : r.co[y].at = s.co[y].at /\ r.co[y].fd = s.co[y].fd /\ r.co[y].arg = s.co[y].arg
  /\ (x = Server) = (f = Listen)
  /\ x = Server => r.ready = <<>>
  /\ ToSet(r.events) \subseteq ToSet(s.events) \ {f} /\ f \in ToSet(s.events)

(* What nty_schedule_search_wait finds can be resumed.                      *)
LEMMA WakeKeeps ==
  ASSUME NEW s \in Scheduler, Core(s, {}), s.events # <<>>,
         NEW f, f = Last(s.events), NEW x, x = s.waiting[f],
         NEW r, r = Woken([s EXCEPT !.events = Front(s.events)], x, f)
  PROVE  Wakes(s, f, x, r)
<1>1. s.events \in Seq(File) /\ s.waiting \in [Fd -> Co \cup {None}] /\ s.epoll \in SUBSET File
  BY Fields
<1>2. /\ Front(s.events) \in Seq(File) /\ f \in File
      /\ ToSet(s.events) = {f} \cup ToSet(Front(s.events))
      /\ IsInjective(Front(s.events)) /\ f \notin ToSet(Front(s.events))
  BY <1>1, FrontFacts DEF Core, EventsOK
<1>3. f \in s.epoll /\ f \in Fd
  BY <1>2 DEF Core, EventsOK, Fd
<1>4. x \in Co /\ s.co[x].at \in Blocked /\ s.co[x].fd = f
  BY <1>1, <1>3 DEF Core, EventsOK, TreeOK
<1> DEFINE a == [s EXCEPT !.events = Front(s.events)]
           b == nty_coroutine_resume(a, x)
           c == [b EXCEPT !.epoll = b.epoll \ {f}]
<1>5. a \in Scheduler
  BY <1>2 DEF Scheduler
<1>6. /\ a.alive = s.alive /\ a.pc = s.pc /\ a.cur = s.cur /\ a.waiting = s.waiting
      /\ a.epoll = s.epoll /\ a.co = s.co /\ a.ready = s.ready
      /\ a.spawned_coroutines = s.spawned_coroutines /\ a.events = Front(s.events)
  BY DEF Scheduler
<1> HIDE DEF a
<1>7. b \in Scheduler /\ Alike(a, b) /\ b.cur = x /\ b.stack.owner = x
  BY <1>4, <1>5, <1>6, ResumeFacts DEF Blocked
<1>8. r = [c EXCEPT !.waiting = [b.waiting EXCEPT ![f] = None]]
  <2>1. r = nty_schedule_desched_wait(c, f)
    BY DEF Woken, a
  <2> HIDE DEF b
  <2>2. c.waiting = b.waiting
    BY <1>7 DEF Scheduler
  <2>3. QED
    BY <2>1, <2>2 DEF nty_schedule_desched_wait, RB_REMOVE
<1> HIDE DEF b
<1>9. b.waiting = s.waiting /\ b.epoll = s.epoll
  BY <1>6, <1>7 DEF Alike
<1>10. r \in Scheduler
  <2>1. [b.waiting EXCEPT ![f] = None] \in [Fd -> Co \cup {None}] /\ b.epoll \ {f} \in SUBSET File
    BY <1>1, <1>9
  <2>2. QED
    BY <1>7, <1>8, <2>1 DEF Scheduler
<1>11. /\ r.alive = b.alive /\ r.pc = b.pc /\ r.cur = x /\ r.ready = b.ready
       /\ r.waiting = [s.waiting EXCEPT ![f] = None] /\ r.epoll = s.epoll \ {f}
       /\ r.events = b.events /\ r.co = b.co /\ r.stack = b.stack
       /\ r.spawned_coroutines = b.spawned_coroutines
  BY <1>7, <1>8, <1>9 DEF Scheduler
<1>12. /\ r.alive = s.alive /\ r.pc = s.pc /\ r.ready = s.ready /\ r.events = Front(s.events)
       /\ r.spawned_coroutines = s.spawned_coroutines
       /\ \A y \in Co : r.co[y].at = s.co[y].at /\ r.co[y].fd = s.co[y].fd /\ r.co[y].arg = s.co[y].arg
  <2>1. /\ r.alive = s.alive /\ r.pc = s.pc /\ r.ready = s.ready /\ r.events = Front(s.events)
        /\ r.spawned_coroutines = s.spawned_coroutines
    BY <1>6, <1>7, <1>11 DEF Alike
  <2>2. ASSUME NEW y \in Co
        PROVE  r.co[y].at = s.co[y].at /\ r.co[y].fd = s.co[y].fd /\ r.co[y].arg = s.co[y].arg
    <3>1. b.co[y].at = a.co[y].at /\ b.co[y].fd = a.co[y].fd /\ b.co[y].arg = a.co[y].arg
      BY <1>7 DEF Alike
    <3>2. r.co = b.co /\ a.co = s.co
      BY <1>6, <1>11
    <3>3. QED
      BY <3>1, <3>2
  <2>3. QED
    BY <2>1, <2>2
<1>13. r.waiting[f] = None /\ \A g \in Fd : g # f => r.waiting[g] = s.waiting[g]
  BY <1>1, <1>3, <1>11
<1>14. x # None /\ (\A y \in Co : y # None)
  BY <1>4, ConstantAssumption DEF Co, Server
<1>15. Live(r) = Live(s) /\ x \in Live(s)
  BY <1>4, <1>12 DEF Live, Blocked
<1>16. ReadyOK(r, {x})
  BY <1>4, <1>12 DEF Core, ReadyOK, Blocked, Queued
<1>17. TreeOK(r, {x})
  <2>1. ASSUME NEW g \in Fd, r.waiting[g] # None
        PROVE  /\ r.waiting[g] # x /\ r.co[r.waiting[g]].at \in Blocked
               /\ r.co[r.waiting[g]].fd = g
    <3>1. g # f /\ r.waiting[g] = s.waiting[g]
      BY <1>13, <2>1
    <3>2. s.waiting[g] \in Co /\ s.co[s.waiting[g]].at \in Blocked /\ s.co[s.waiting[g]].fd = g
      BY <1>1, <2>1, <3>1 DEF Core, TreeOK
    <3>3. r.co[s.waiting[g]].at = s.co[s.waiting[g]].at /\ r.co[s.waiting[g]].fd = s.co[s.waiting[g]].fd
      BY <1>12, <3>2
    <3>4. s.waiting[g] # x
      BY <1>4, <3>1, <3>2
    <3>5. QED
      BY <3>1, <3>2, <3>3, <3>4
  <2>2. ASSUME NEW y \in Co, y # x, r.co[y].at \in Blocked
        PROVE  r.waiting[r.co[y].fd] = y
    <3>1. s.waiting[s.co[y].fd] = y /\ r.co[y].fd = s.co[y].fd
      BY <1>12, <2>2 DEF Core, TreeOK
    <3>2. s.co[y].fd \in Fd
      BY Fields DEF Coroutine
    <3>3. s.co[y].fd # f
      BY <2>2, <3>1
    <3>4. QED
      BY <1>13, <3>1, <3>2, <3>3
  <2>3. QED
    BY <2>1, <2>2 DEF TreeOK
<1>18. HandOK(r, {x})
  BY <1>12, <1>15 DEF Core, HandOK
<1>19. RolesOK(r)
  <2> SUFFICES ASSUME NEW y \in Co
               PROVE  RoleOK(r.co[y], y)
    BY DEF RolesOK
  <2>1. r.co[y].at = s.co[y].at /\ r.co[y].fd = s.co[y].fd
    BY <1>12
  <2>2. RoleOK(s.co[y], y)
    BY DEF Core, RolesOK
  <2>3. QED
    BY <2>1, <2>2 DEF RoleOK
<1>20. EventsOK(r)
  <2>1. \A g \in r.epoll : g \in Fd /\ g # f /\ g \in s.epoll
    BY <1>1, <1>11 DEF Fd
  <2>2. \A g \in r.epoll : r.waiting[g] # None
    BY <1>13, <2>1 DEF Core, EventsOK
  <2>3. IsInjective(r.events) /\ ToSet(r.events) \subseteq r.epoll
    BY <1>2, <1>11, <1>12 DEF Core, EventsOK
  <2>4. Listen \in ToSet(r.events) => r.ready = <<>>
    BY <1>2, <1>12 DEF Core, EventsOK
  <2>5. QED
    BY <2>2, <2>3, <2>4 DEF EventsOK
<1>21. CountOK(r)
  BY <1>12, <1>15 DEF Core, CountOK
<1>22. StartOK(r)
  <2>1. Server \in Co
    BY ConstantAssumption DEF Co, Server
  <2>2. \A y \in Co : r.co[y].at = s.co[y].at
    BY <1>12
  <2>3. StartOK(s)
    BY DEF Core
  <2>4. QED
    BY <2>1, <2>2, <2>3 DEF StartOK
<1>23. (x = Server) = (f = Listen)
  <2>1. RoleOK(s.co[x], x)
    BY <1>4 DEF Core, RolesOK
  <2>2. QED
    BY <1>4, <2>1 DEF RoleOK, Blocked
<1>24. x = Server => r.ready = <<>>
  BY <1>2, <1>12, <1>23 DEF Core, EventsOK
<1>25. Core(r, {x})
  BY <1>16, <1>17, <1>18, <1>19, <1>20, <1>21, <1>22 DEF Core
<1>26. ToSet(r.events) \subseteq ToSet(s.events) \ {f} /\ f \in ToSet(s.events)
  BY <1>2, <1>12
<1>27. QED
  BY <1>2, <1>3, <1>4, <1>7, <1>10, <1>11, <1>12, <1>13, <1>23, <1>24, <1>25, <1>26 DEF Wakes

(* The coroutine in hand is in no place any more.                           *)
Released(s, x, at, r) ==
  /\ r \in Scheduler /\ Core(r, {})
  /\ r.alive = s.alive /\ r.pc = s.pc /\ r.cur = None
  /\ r.epoll = s.epoll /\ r.events = s.events /\ r.stack = s.stack
  /\ r.co[x].at = at /\ \A y \in Co : y # x => r.co[y] = s.co[y]

(* The server goes to the tail of the ready queue.                          *)
LEMMA SleepKeeps ==
  ASSUME NEW s \in Scheduler, Core(s, {Server}),
         NEW r, r = nty_coroutine_sleep(s, Server)
  PROVE  Released(s, Server, "sleep", r)
<1> DEFINE c == [s.co[Server] EXCEPT !.at = "sleep"]
           e == [s.co[Server] EXCEPT !.at = "sleep", !.saved = s.stack.val]
           d == [s.co EXCEPT ![Server] = c]
           g == [s.co EXCEPT ![Server] = e]
           a == [s EXCEPT !.co = d, !.ready = Append(s.ready, Server)]
<1>1. /\ s.co \in [Co -> Coroutine] /\ Server \in Co /\ s.stack.val \in Local
      /\ s.ready \in Seq(Co)
  BY Fields, ConstantAssumption DEF Co, Server
<1>2. s.co[Server] \in Coroutine
  BY <1>1
<1>3. r = nty_coroutine_yield([s EXCEPT !.co[Server].at = "sleep", !.ready = Append(@, Server)], Server)
  BY DEF nty_coroutine_sleep
<1>4. [s EXCEPT !.co[Server].at = "sleep", !.ready = Append(@, Server)] = a
  BY <1>1 DEF Scheduler, Coroutine
<1>5. e \in Coroutine /\ e.at = "sleep" /\ e.fd = s.co[Server].fd /\ [c EXCEPT !.saved = s.stack.val] = e
  BY <1>1, <1>2 DEF Coroutine, At
<1> HIDE DEF c, e
<1>6. /\ g \in [Co -> Coroutine] /\ g[Server] = e /\ d[Server] = c
      /\ \A y \in Co : y # Server => g[y] = s.co[y]
      /\ [d EXCEPT ![Server] = e] = g
  BY <1>1, <1>5
<1>7. [d EXCEPT ![Server].saved = s.stack.val] = g
  BY <1>1, <1>5, <1>6
<1>8. Append(s.ready, Server) \in Seq(Co)
  BY <1>1
<1> HIDE DEF d, g
<1>9. r = [[a EXCEPT !.co = g] EXCEPT !.cur = None]
  <2>1. a.stack = s.stack /\ a.co = d
    BY DEF Scheduler
  <2>2. [a EXCEPT !.co[Server].saved = s.stack.val] = [a EXCEPT !.co = g]
    BY <1>7, <2>1
  <2>3. r = [[a EXCEPT !.co[Server].saved = a.stack.val] EXCEPT !.cur = None]
    BY <1>3, <1>4 DEF nty_coroutine_yield, _save_stack
  <2>4. QED
    BY <2>1, <2>2, <2>3
<1>10. r \in Scheduler
  BY <1>6, <1>8, <1>9 DEF Scheduler
<1>11. /\ r.alive = s.alive /\ r.pc = s.pc /\ r.cur = None /\ r.ready = Append(s.ready, Server)
       /\ r.waiting = s.waiting /\ r.epoll = s.epoll /\ r.events = s.events
       /\ r.stack = s.stack /\ r.co = g
       /\ r.spawned_coroutines = s.spawned_coroutines
  BY <1>9 DEF Scheduler
<1>12. /\ r.co[Server].at = "sleep" /\ r.co[Server].fd = s.co[Server].fd
       /\ \A y \in Co : y # Server => r.co[y] = s.co[y]
  BY <1>5, <1>6, <1>11
<1>13. Server \in Live(s) /\ Server \notin ToSet(s.ready)
  BY <1>1 DEF Core, HandOK, ReadyOK
<1>14. Live(r) = Live(s)
  BY <1>12, <1>13 DEF Live
<1>15. ReadyOK(r, {})
  <2>1. IsInjective(r.ready) /\ ToSet(r.ready) = ToSet(s.ready) \cup {Server}
    BY <1>1, <1>11, <1>13, AppendFacts DEF Core, ReadyOK
  <2>2. QED
    BY <1>12, <2>1 DEF Core, ReadyOK, Queued
<1>16. TreeOK(r, {})
  <2>1. s.waiting \in [Fd -> Co \cup {None}]
    BY Fields
  <2>2. \A f \in Fd : s.waiting[f] # None => s.waiting[f] \in Co \ {Server}
    BY <2>1 DEF Core, TreeOK
  <2>3. QED
    BY <1>11, <1>12, <2>2 DEF Core, TreeOK, Blocked
<1>17. HandOK(r, {})
  BY <1>12 DEF Core, HandOK, Active
<1>18. RolesOK(r)
  <2>1. RoleOK(r.co[Server], Server)
    BY <1>12 DEF RoleOK
  <2>2. QED
    BY <1>12, <2>1 DEF Core, RolesOK
<1>19. EventsOK(r)
  BY <1>11, ListenFree DEF Core, EventsOK
<1>20. CountOK(r)
  BY <1>11, <1>14 DEF Core, CountOK
<1>21. StartOK(r)
  BY <1>12 DEF StartOK
<1>22. QED
  BY <1>10, <1>11, <1>12, <1>15, <1>16, <1>17, <1>18, <1>19, <1>20, <1>21 DEF Released, Core

(* The numbers of the coroutines.                                           *)
LEMMA CoFacts ==
  /\ Server \in Co /\ IsFiniteSet(Co) /\ (\A x \in Co : x # None) /\ Co \subseteq Nat
  /\ MaxCo \in Nat /\ Cardinality(Co \ {Server}) = MaxCo
<1>1. MaxCo \in Nat /\ MaxCo \in Int /\ 0 \in Int
  BY ConstantAssumption
<1>2. IsFiniteSet(Co) /\ Cardinality(Co) = MaxCo + 1
  BY <1>1, FS_Interval DEF Co, Server
<1>3. Server \in Co /\ (\A x \in Co : x # None) /\ Co \subseteq Nat
  BY ConstantAssumption DEF Co, Server
<1>4. QED
  BY <1>1, <1>2, <1>3, FS_RemoveElement

(* The function of the coroutine in hand has returned.                      *)
LEMMA ExitKeeps ==
  ASSUME NEW s \in Scheduler, NEW x \in Co, Core(s, {x}), NEW r, r = _exec(s, x)
  PROVE  Released(s, x, "free", r)
<1> DEFINE g == [s.co EXCEPT ![x] = Free]
           m == s.spawned_coroutines - 1
<1>1. s.co \in [Co -> Coroutine] /\ s.spawned_coroutines \in Int
  BY Fields
<1>2. Free \in Coroutine /\ Free.at = "free" /\ m \in Int
  BY <1>1 DEF Free, Coroutine, At, Fd, Local
<1>3. g \in [Co -> Coroutine] /\ g[x] = Free /\ \A y \in Co : y # x => g[y] = s.co[y]
  BY <1>1, <1>2
<1>4. r = [s EXCEPT !.co = g, !.spawned_coroutines = m, !.cur = None]
  BY DEF _exec, nty_coroutine_free, Scheduler
<1> HIDE DEF g, m
<1>5. r \in Scheduler
  BY <1>2, <1>3, <1>4 DEF Scheduler
<1>6. /\ r.alive = s.alive /\ r.pc = s.pc /\ r.cur = None /\ r.ready = s.ready
      /\ r.waiting = s.waiting /\ r.epoll = s.epoll /\ r.events = s.events
      /\ r.stack = s.stack /\ r.co = g /\ r.spawned_coroutines = m
  BY <1>4 DEF Scheduler
<1>7. r.co[x].at = "free" /\ \A y \in Co : y # x => r.co[y] = s.co[y]
  BY <1>2, <1>3, <1>6
<1>8. Live(r) = Live(s) \ {x} /\ x \in Live(s)
  BY <1>7 DEF Core, HandOK, Live
<1>9. ReadyOK(r, {})
  BY <1>6, <1>7 DEF Core, ReadyOK, Queued
<1>10. TreeOK(r, {})
  <2>1. s.waiting \in [Fd -> Co \cup {None}]
    BY Fields
  <2>2. \A f \in Fd : s.waiting[f] # None => s.waiting[f] \in Co \ {x}
    BY <2>1 DEF Core, TreeOK
  <2>3. QED
    BY <1>6, <1>7, <2>2 DEF Core, TreeOK, Blocked
<1>11. HandOK(r, {})
  BY <1>7 DEF Core, HandOK, Active
<1>12. RolesOK(r)
  BY <1>7 DEF Core, RolesOK, RoleOK
<1>13. EventsOK(r)
  BY <1>6 DEF Core, EventsOK
<1>14. CountOK(r)
  <2>1. IsFiniteSet(Live(s))
    BY CoFacts, FS_Subset, Live(s) \in SUBSET Co DEF Live
  <2>2. Cardinality(Live(s) \ {x}) = Cardinality(Live(s)) - 1
    BY <1>8, <2>1, FS_RemoveElement
  <2>3. QED
    BY <1>6, <1>8, <2>2 DEF Core, CountOK, m
<1>15. StartOK(r)
  BY <1>7, CoFacts DEF Core, StartOK
<1>16. QED
  BY <1>5, <1>6, <1>7, <1>9, <1>10, <1>11, <1>12, <1>13, <1>14, <1>15 DEF Released, Core

(* The coroutine in hand goes on in its loop.                               *)
GoesOn(s, x, at, r) ==
  /\ r \in Scheduler /\ Core(r, {x})
  /\ r.alive = s.alive /\ r.pc = "run" /\ r.cur = s.cur
  /\ r.waiting = s.waiting /\ r.epoll = s.epoll /\ r.events = s.events /\ r.stack = s.stack
  /\ r.co[x].at = at /\ r.co[x].fd = s.co[x].fd
  /\ \A y \in Co : y # x => r.co[y] = s.co[y]

(* It keeps its descriptor, and is in hand as before.                       *)
LEMMA GoesOnKeeps ==
  ASSUME NEW s \in Scheduler, NEW x \in Co, Core(s, {x}), NEW at \in Active,
         (x = Server) = (at = "lock"), x # Server => s.co[x].fd \in Conn,
         NEW r, r = [s EXCEPT !.pc = "run", !.co[x].at = at]
  PROVE  GoesOn(s, x, at, r)
<1> DEFINE c == [s.co[x] EXCEPT !.at = at]
           g == [s.co EXCEPT ![x] = c]
<1>1. s.co \in [Co -> Coroutine] /\ s.co[x] \in Coroutine /\ at \in At
  BY Fields DEF Active, At
<1>2. c \in Coroutine /\ c.at = at /\ c.fd = s.co[x].fd
  BY <1>1 DEF Coroutine
<1>3. r = [s EXCEPT !.pc = "run", !.co = g]
  BY <1>1 DEF Scheduler
<1> HIDE DEF c
<1>4. g \in [Co -> Coroutine] /\ g[x] = c /\ \A y \in Co : y # x => g[y] = s.co[y]
  BY <1>1, <1>2
<1> HIDE DEF g
<1>5. r \in Scheduler
  BY <1>3, <1>4 DEF Scheduler
<1>6. /\ r.alive = s.alive /\ r.pc = "run" /\ r.cur = s.cur /\ r.ready = s.ready
      /\ r.waiting = s.waiting /\ r.epoll = s.epoll /\ r.events = s.events
      /\ r.stack = s.stack /\ r.co = g /\ r.spawned_coroutines = s.spawned_coroutines
  BY <1>3 DEF Scheduler
<1>7. /\ r.co[x].at = at /\ r.co[x].fd = s.co[x].fd
      /\ \A y \in Co : y # x => r.co[y] = s.co[y]
  BY <1>2, <1>4, <1>6
<1>8. Live(r) = Live(s) /\ x \in Live(s)
  BY <1>7 DEF Core, HandOK, Live, Active
<1>9. ReadyOK(r, {x})
  BY <1>6, <1>7 DEF Core, ReadyOK
<1>10. TreeOK(r, {x})
  <2>1. s.waiting \in [Fd -> Co \cup {None}]
    BY Fields
  <2>2. \A f \in Fd : s.waiting[f] # None => s.waiting[f] \in Co \ {x}
    BY <2>1 DEF Core, TreeOK
  <2>3. QED
    BY <1>6, <1>7, <2>2 DEF Core, TreeOK
<1>11. HandOK(r, {x})
  BY <1>7, <1>8 DEF Core, HandOK
<1>12. RolesOK(r)
  <2>1. RoleOK(r.co[x], x)
    BY <1>7, ConstantAssumption DEF RoleOK, Active
  <2>2. QED
    BY <1>7, <2>1 DEF Core, RolesOK
<1>13. EventsOK(r)
  BY <1>6 DEF Core, EventsOK
<1>14. CountOK(r)
  BY <1>6, <1>8 DEF Core, CountOK
<1>15. StartOK(r)
  <2>1. x # Server => s.co[x].at # "free"
    BY <1>8 DEF Live
  <2>2. QED
    BY <1>7, <2>1, CoFacts DEF Core, StartOK, Active
<1>16. QED
  BY <1>5, <1>6, <1>7, <1>9, <1>10, <1>11, <1>12, <1>13, <1>14, <1>15 DEF GoesOn, Core

(* While the server holds an accepted connection every reader waits on a    *)
(* descriptor of its own, so one coroutine is free.                         *)
LEMMA FreeExists ==
  ASSUME NEW s \in Scheduler, Core(s, {Server}), s.ready = <<>>
  PROVE  \E z \in Co \ {Server} : s.co[z].at = "free"
<1> SUFFICES ASSUME \A z \in Co \ {Server} : s.co[z].at # "free"
             PROVE  FALSE
  OBVIOUS
<1> DEFINE R == Co \ {Server}
           T == Conn \cup {NoFd}
           f == [z \in R |-> s.co[z].fd]
<1>1. ToSet(s.ready) = {}
  BY DEF ToSet
<1>2. ASSUME NEW z \in R
      PROVE  s.co[z].fd \in T /\ s.waiting[s.co[z].fd] = z
  <2>1. s.co[z] \in Coroutine
    BY Fields
  <2>2. s.co[z].at \in At /\ s.co[z].fd \in Fd
    BY <2>1 DEF Coroutine
  <2>3. s.co[z].at \notin Queued /\ s.co[z].at \notin Active
    BY <1>1 DEF Core, ReadyOK, HandOK
  <2>4. s.co[z].at \in Blocked
    BY <2>2, <2>3 DEF At, Queued, Active, Blocked
  <2>5. RoleOK(s.co[z], z)
    BY DEF Core, RolesOK
  <2>6. QED
    BY <2>2, <2>4, <2>5 DEF Core, TreeOK, RoleOK, Blocked, Fd, File
<1>3. f \in [R -> T]
  BY <1>2
<1>4. IsFiniteSet(R) /\ Cardinality(R) = MaxCo
  BY CoFacts, FS_RemoveElement
<1>5. IsFiniteSet(T) /\ Cardinality(T) < MaxCo
  <2>1. IsFiniteSet(Conn) /\ NoFd \notin Conn /\ MaxCo \in Nat /\ MaxCo >= Cardinality(Conn) + 2
    BY ConstantAssumption
  <2>2. Cardinality(Conn) \in Nat
    BY <2>1, FS_CardinalityType
  <2>3. IsFiniteSet(T) /\ Cardinality(T) = Cardinality(Conn) + 1
    BY <2>1, FS_AddElement
  <2>4. QED
    BY <2>1, <2>2, <2>3
<1> HIDE DEF R, T
<1>6. \E x, y \in R : x # y /\ f[x] = f[y]
  <2> HIDE DEF f
  <2> QED
    BY <1>3, <1>4, <1>5, FS_PigeonHole
<1>7. QED
  BY <1>2, <1>6

(* A coroutine z, free before, is new and at the tail of the ready queue.   *)
Created(s, z, arg, r) ==
  /\ z \in Co \ {Server} /\ s.co[z].at = "free"
  /\ r \in Scheduler /\ Core(r, {Server})
  /\ r.alive = s.alive /\ r.pc = s.pc /\ r.cur = s.cur
  /\ r.waiting = s.waiting /\ r.epoll = s.epoll /\ r.events = s.events /\ r.stack = s.stack
  /\ r.co[z].at = "new" /\ r.co[z].arg = arg
  /\ \A y \in Co : y # z => r.co[y] = s.co[y]

(* nty_coroutine_create finds a free coroutine.                             *)
LEMMA CreateKeeps ==
  ASSUME NEW s \in Scheduler, Core(s, {Server}), s.ready = <<>>, s.co[Server].at # "new",
         NEW arg \in Conn \cup {None}, NEW r, r = nty_coroutine_create(s, arg)
  PROVE  \E z \in Co : Created(s, z, arg, r)
<1> DEFINE S == {y \in Co \ {Server} : s.co[y].at = "free"}
           z == Min(S)
           n == [Free EXCEPT !.at = "new", !.arg = arg]
           g == [s.co EXCEPT ![z] = n]
           m == s.spawned_coroutines + 1
           q == Append(s.ready, z)
<1>1. z \in Co \ {Server} /\ s.co[z].at = "free"
  <2>1. S # {} /\ S \in SUBSET Nat
    BY FreeExists, CoFacts
  <2>2. z \in S
    BY <2>1, MinFacts
  <2>3. QED
    BY <2>2
<1>2. r = [s EXCEPT !.co[z] = n, !.ready = Append(@, z), !.spawned_coroutines = @ + 1]
  BY DEF nty_coroutine_create
<1> HIDE DEF z
<1>3. /\ s.co \in [Co -> Coroutine] /\ s.spawned_coroutines \in Int /\ s.ready \in Seq(Co)
  BY Fields
<1>4. n \in Coroutine /\ n.at = "new" /\ n.arg = arg
  BY DEF Free, Coroutine, At, Fd, Local
<1>5. r = [s EXCEPT !.co = g, !.ready = q, !.spawned_coroutines = m]
  BY <1>2 DEF Scheduler
<1> HIDE DEF n
<1>6. g \in [Co -> Coroutine] /\ g[z] = n /\ \A y \in Co : y # z => g[y] = s.co[y]
  BY <1>1, <1>3, <1>4
<1>7. /\ q \in Seq(Co) /\ ToSet(q) = ToSet(s.ready) \cup {z} /\ m \in Int
      /\ IsInjective(s.ready) /\ z \notin ToSet(s.ready) => IsInjective(q)
  <2>1. m \in Int
    BY <1>3
  <2>2. z \in Co
    BY <1>1
  <2>3. ASSUME NEW t \in Seq(Co), t = s.ready
        PROVE  /\ q \in Seq(Co) /\ ToSet(q) = ToSet(t) \cup {z}
               /\ IsInjective(t) /\ z \notin ToSet(t) => IsInjective(q)
    <3>1. q = Append(t, z)
      BY <2>3
    <3> HIDE DEF q
    <3>2. QED
      BY <2>2, <3>1, AppendFacts, ZenonT(60)
  <2>4. QED
    BY <1>3, <2>1, <2>3
<1> HIDE DEF g, m, q
<1>8. r \in Scheduler
  BY <1>5, <1>6, <1>7 DEF Scheduler
<1>9. /\ r.alive = s.alive /\ r.pc = s.pc /\ r.cur = s.cur /\ r.ready = q
      /\ r.waiting = s.waiting /\ r.epoll = s.epoll /\ r.events = s.events
      /\ r.stack = s.stack /\ r.co = g /\ r.spawned_coroutines = m
  BY <1>5 DEF Scheduler
<1>10. /\ r.co[z].at = "new" /\ r.co[z].arg = arg
       /\ \A y \in Co : y # z => r.co[y] = s.co[y]
  BY <1>4, <1>6, <1>9
<1>11. Live(r) = Live(s) \cup {z} /\ z \notin Live(s)
  BY <1>1, <1>10 DEF Live
<1>12. ReadyOK(r, {Server})
  <2>1. z \notin ToSet(s.ready)
    BY <1>1 DEF Core, ReadyOK, Queued
  <2>2. QED
    BY <1>1, <1>7, <1>9, <1>10, <2>1 DEF Core, ReadyOK, Queued
<1>13. TreeOK(r, {Server})
  <2>1. s.waiting \in [Fd -> Co \cup {None}]
    BY Fields
  <2>2. \A f \in Fd : s.waiting[f] # None => s.waiting[f] \in Co /\ s.waiting[f] # z
    BY <1>1, <2>1 DEF Core, TreeOK, Blocked
  <2>3. QED
    BY <1>9, <1>10, <2>2 DEF Core, TreeOK, Blocked
<1>14. HandOK(r, {Server})
  BY <1>10, <1>11 DEF Core, HandOK, Active
<1>15. RolesOK(r)
  BY <1>1, <1>10 DEF Core, RolesOK, RoleOK
<1>16. EventsOK(r)
  BY <1>9, ListenFree DEF Core, EventsOK
<1>17. CountOK(r)
  <2>1. IsFiniteSet(Live(s))
    BY CoFacts, FS_Subset, Live(s) \in SUBSET Co DEF Live
  <2>2. Cardinality(Live(s) \cup {z}) = Cardinality(Live(s)) + 1
    BY <1>11, <2>1, FS_AddElement
  <2>3. QED
    BY <1>9, <1>11, <2>2 DEF Core, CountOK, m
<1>18. StartOK(r)
  BY <1>1, <1>10, CoFacts DEF StartOK
<1>19. Core(r, {Server})
  BY <1>12, <1>13, <1>14, <1>15, <1>16, <1>17, <1>18 DEF Core
<1>20. Created(s, z, arg, r)
  BY <1>1, <1>8, <1>9, <1>10, <1>19 DEF Created
<1>21. QED
  BY <1>1, <1>20

------------------------------------------------------------------------------
(* From the scheduler of one process to the whole.                          *)

(* A scheduler that nobody runs on.                                         *)
LEMMA IdleOK ==
  ASSUME NEW r \in Scheduler, Core(r, {}), r.cur = None,
         r.pc \in {"ready", "epoll"} => r.events = <<>>
  PROVE  SchedOK(r)
<1>1. Hand(r) = {}
  BY DEF Hand
<1>2. QED
  BY <1>1 DEF SchedOK, RunOK

(* A scheduler on which x runs, in its loop.                                *)
LEMMA BusyOK ==
  ASSUME NEW r \in Scheduler, NEW x \in Co, Core(r, {x}), r.cur = x, r.pc = "run",
         r.co[x].at \in Active, x # Server => r.waiting[r.co[x].fd] = None
  PROVE  SchedOK(r)
<1>1. Hand(r) = {x}
  BY CoFacts DEF Hand
<1>2. QED
  BY <1>1 DEF SchedOK, RunOK

(* What a step of process p begins from.                                    *)
LEMMA ProcessFacts ==
  ASSUME IInv, NEW p \in Proc, Running(p)
  PROVE  /\ sched \in [Proc -> Scheduler] /\ sched[p] \in Scheduler /\ sched[p].alive
         /\ p \in work.procs /\ SchedOK(sched[p]) /\ ArgOK(sched[p]) /\ FilesOK(p)
         /\ (sched[p].cur # None) = (sched[p].pc = "run")
         /\ Open(p) \in SUBSET File /\ Listen \in Open(p)
<1>1. sched \in [Proc -> Scheduler] /\ sched[p] \in Scheduler
  BY DEF IInv, TypeOK
<1>2. sched[p].alive /\ p \in work.procs
  BY DEF Running
<1>3. (sched[p].cur # None) = (sched[p].alive /\ sched[p].pc = "run")
  BY DEF IInv, TypeOK
<1>4. Open(p) \in SUBSET File /\ Listen \in Open(p)
  BY DEF Open, File
<1>5. QED
  BY <1>1, <1>2, <1>3, <1>4 DEF IInv

(* The counters a worker uses: its own is not that of another worker, when  *)
(* that one has its own.                                                    *)
LEMMA SlotFacts ==
  ASSUME IInv, NEW p \in Proc, Running(p)
  PROVE  /\ \A q \in Proc : work.slot[q] \in Slot
         /\ \A q \in Proc : q # p /\ OwnSlot(q) => work.slot[q] # work.slot[p]
<1>1. work.slot \in [Proc -> Slot]
  BY ConstantAssumption DEF IInv, TypeOK, Slot
<1>2. QED
  BY <1>1 DEF Running, OwnSlot

(* Nobody runs outside of "run".                                            *)
LEMMA IdleFacts ==
  ASSUME NEW s \in Scheduler, SchedOK(s), s.cur = None
  PROVE  Core(s, {})
BY DEF SchedOK, Hand

(* The parts of the invariant after a step of process p.                    *)
LEMMA Assemble ==
  ASSUME IInv, NEW p \in Proc, NEW r \in Scheduler, Step(p, r), work' = work,
         (r.cur # None) = (r.alive /\ r.pc = "run"),
         r.alive => SchedOK(r) /\ ArgOK(r),
         mtx' \in {0, 1}, totalfds' \in [Slot -> Int], conn' \in [Conn -> Connection],
         backlog' \in Seq(Conn), BacklogOK', AcceptMutex', AcceptReady',
         \A q \in Proc : sched'[q].alive => FilesOK(q)'
  PROVE  IInv'
<1>1. sched \in [Proc -> Scheduler]
  BY DEF IInv, TypeOK
<1>2. sched' \in [Proc -> Scheduler] /\ sched'[p] = r /\ \A q \in Proc : q # p => sched'[q] = sched[q]
  BY <1>1 DEF Step
<1>3. \A q \in Proc : (sched'[q].cur # None) = (sched'[q].alive /\ sched'[q].pc = "run")
  <2> SUFFICES ASSUME NEW q \in Proc
               PROVE  (sched'[q].cur # None) = (sched'[q].alive /\ sched'[q].pc = "run")
    OBVIOUS
  <2>1. CASE q = p
    BY <1>2, <2>1
  <2>2. CASE q # p
    <3>1. (sched[q].cur # None) = (sched[q].alive /\ sched[q].pc = "run") /\ sched'[q] = sched[q]
      BY <1>2, <2>2 DEF IInv, TypeOK
    <3>2. QED
      BY <3>1
  <2>3. QED
    BY <2>1, <2>2
<1>4. TypeOK'
  BY <1>2, <1>3 DEF IInv, TypeOK
<1>5. ASSUME NEW q \in Proc, sched'[q].alive
      PROVE  SchedOK(sched[q])' /\ ArgOK(sched[q])'
  <2>1. CASE q = p
    <3>1. SchedOK(sched[q])'
      BY <1>2, <1>5, <2>1
    <3>2. ArgOK(sched[q])'
      BY <1>2, <1>5, <2>1 DEF ArgOK, Is
    <3>3. QED
      BY <3>1, <3>2
  <2>2. CASE q # p
    <3>1. sched'[q] = sched[q] /\ SchedOK(sched[q]) /\ ArgOK(sched[q])
      BY <1>2, <1>5, <2>2 DEF IInv
    <3>2. SchedOK(sched[q])'
      BY <3>1
    <3>3. ArgOK(sched[q])'
      BY <3>1 DEF ArgOK, Is
    <3>4. QED
      BY <3>2, <3>3
  <2>3. QED
    BY <2>1, <2>2
<1>6. QED
  BY <1>4, <1>5 DEF IInv

(* A step after which the same workers are in accept.                       *)
LEMMA MutexSame ==
  ASSUME IInv, NEW p \in Proc, NEW r \in Scheduler, Step(p, r), UNCHANGED <<work, mtx>>,
         Is("httpd") => (r.co[Server].at = "accept") = (sched[p].co[Server].at = "accept")
  PROVE  AcceptMutex'
<1> SUFFICES ASSUME Is("httpd")
             PROVE  AcceptMutex'
  BY DEF AcceptMutex, Is
<1>1. sched \in [Proc -> Scheduler] /\ work.procs \subseteq Proc
  BY ConstantAssumption DEF IInv, TypeOK
<1>2. sched'[p] = r /\ \A q \in Proc : q # p => sched'[q] = sched[q]
  BY <1>1 DEF Step
<1>3. \A q \in Proc : InAccept(q)' = InAccept(q)
  BY <1>2 DEF InAccept
<1>4. AcceptMutex
  BY DEF IInv
<1>5. QED
  BY <1>1, <1>3, <1>4 DEF AcceptMutex, Is

(* A step after which no other accept is left to do.                        *)
LEMMA ReadySame ==
  ASSUME IInv, NEW p \in Proc, NEW r \in Scheduler, Step(p, r), UNCHANGED <<work, backlog>>,
         r.alive /\ Listen \in ToSet(r.events) => backlog # <<>>
  PROVE  AcceptReady'
<1>1. sched \in [Proc -> Scheduler] /\ work.procs \subseteq Proc
  BY ConstantAssumption DEF IInv, TypeOK
<1>2. sched'[p] = r /\ \A q \in Proc : q # p => sched'[q] = sched[q]
  BY <1>1 DEF Step
<1>3. QED
  BY <1>1, <1>2 DEF IInv, AcceptReady

(* Connections that change, but not in who has them open.                   *)
SameOwners ==
  \A c \in Conn : conn'[c].st = conn[c].st /\ conn'[c].owner = conn[c].owner

(* What is open stays open.                                                 *)
LEMMA OwnersSame ==
  ASSUME SameOwners
  PROVE  \A q \in Proc : Open(q)' = Open(q)
BY DEF SameOwners, Open

(* The backlog stays what it was.                                           *)
LEMMA BacklogSame ==
  ASSUME IInv, SameOwners, UNCHANGED backlog
  PROVE  BacklogOK'
<1>1. backlog \in Seq(Conn)
  BY DEF IInv, TypeOK
<1>2. ToSet(backlog) \subseteq Conn
  BY <1>1 DEF ToSet
<1>3. QED
  BY <1>2 DEF IInv, BacklogOK, SameOwners

(* A step of process p that leaves the lock, the counters and the owners of *)
(* connections alone.                                                       *)
LEMMA QuietStep ==
  ASSUME IInv, NEW p \in Proc, Running(p), NEW r \in Scheduler, Step(p, r),
         UNCHANGED <<work, mtx, totalfds, backlog>>,
         conn' \in [Conn -> Connection], SameOwners,
         (r.cur # None) = (r.alive /\ r.pc = "run"),
         r.alive => SchedOK(r) /\ ArgOK(r) /\ r.epoll \subseteq Open(p),
         r.alive /\ Listen \in ToSet(r.events) => backlog # <<>>,
         Is("httpd") => (r.co[Server].at = "accept") = (sched[p].co[Server].at = "accept")
  PROVE  IInv'
<1>1. /\ sched \in [Proc -> Scheduler] /\ totalfds \in [Slot -> Int] /\ mtx \in {0, 1}
      /\ backlog \in Seq(Conn)
  BY DEF IInv, TypeOK
<1>2. sched'[p] = r /\ \A q \in Proc : q # p => sched'[q] = sched[q]
  BY <1>1 DEF Step
<1>3. AcceptMutex'
  BY MutexSame
<1>4. ASSUME NEW q \in Proc, sched'[q].alive
      PROVE  FilesOK(q)'
  <2>1. Open(q)' = Open(q) /\ totalfds' = totalfds /\ work' = work
    BY OwnersSame
  <2>2. sched'[q].epoll \subseteq Open(q)
    <3>1. CASE q = p
      BY <1>2, <1>4, <3>1
    <3>2. CASE q # p
      BY <1>2, <1>4, <3>2 DEF IInv, FilesOK
    <3>3. QED
      BY <3>1, <3>2
  <2>3. Is("httpd") /\ OwnSlot(q) => totalfds[work.slot[q]] = Cardinality(Open(q) \ {Listen})
    <3>1. sched[q].alive
      BY <1>2, <1>4 DEF Running
    <3>2. QED
      BY <3>1 DEF IInv, FilesOK
  <2>4. QED
    BY <2>1, <2>2, <2>3 DEF FilesOK, Is, OwnSlot
<1>5. BacklogOK'
  BY BacklogSame
<1>6. work' = work /\ mtx' \in {0, 1} /\ totalfds' \in [Slot -> Int] /\ backlog' \in Seq(Conn)
  BY <1>1
<1>7. AcceptReady'
  BY <1>2, ReadySame
<1>8. QED
  BY <1>3, <1>4, <1>5, <1>6, <1>7, Assemble

(* A process dies; the kernel closes what it had open.                      *)
LEMMA DeathStep ==
  ASSUME IInv, NEW p \in Proc, Running(p), NEW r \in Scheduler, Step(p, r),
         UNCHANGED <<work, mtx, totalfds, backlog>>, conn' = Orphaned(p),
         ~r.alive, r.cur = None,
         Is("httpd") => (r.co[Server].at = "accept") = (sched[p].co[Server].at = "accept")
  PROVE  IInv'
<1>1. /\ sched \in [Proc -> Scheduler] /\ totalfds \in [Slot -> Int] /\ mtx \in {0, 1}
      /\ backlog \in Seq(Conn) /\ conn \in [Conn -> Connection]
  BY DEF IInv, TypeOK
<1>2. sched'[p] = r /\ \A q \in Proc : q # p => sched'[q] = sched[q]
  BY <1>1 DEF Step
<1>3. AcceptMutex'
  BY MutexSame
<1>4. ASSUME NEW c \in Conn
      PROVE  /\ conn'[c] \in Connection /\ conn'[c].owner = conn[c].owner
             /\ conn[c].owner # p \/ conn[c].st # "open" => conn'[c] = conn[c]
  <2>1. conn[c] \in Connection
    BY <1>1
  <2> DEFINE n == [conn[c] EXCEPT !.st = "closed"]
  <2>2. n \in Connection /\ n.owner = conn[c].owner
    BY <2>1 DEF Connection
  <2>3. conn'[c] = IF conn[c].owner = p /\ conn[c].st = "open" THEN n ELSE conn[c]
    BY DEF Orphaned
  <2> HIDE DEF n
  <2>4. QED
    BY <2>1, <2>2, <2>3
<1>5. conn' \in [Conn -> Connection]
  BY <1>4 DEF Orphaned
<1>6. ASSUME NEW q \in Proc, sched'[q].alive
      PROVE  FilesOK(q)'
  <2>1. q # p /\ sched'[q] = sched[q] /\ sched[q].alive
    BY <1>2, <1>6
  <2>2. Open(q)' = Open(q)
    BY <1>4, <2>1 DEF Open
  <2>3. FilesOK(q)
    BY <2>1 DEF IInv
  <2>4. QED
    BY <2>1, <2>2, <2>3 DEF FilesOK, Is, OwnSlot
<1>7. BacklogOK'
  <2>1. ToSet(backlog) \subseteq Conn
    BY <1>1 DEF ToSet
  <2>2. QED
    BY <1>4, <2>1 DEF IInv, BacklogOK
<1>8. work' = work /\ mtx' \in {0, 1} /\ totalfds' \in [Slot -> Int] /\ backlog' \in Seq(Conn)
  BY <1>1
<1>9. AcceptReady'
  BY <1>2, ReadySame
<1>10. QED
  BY <1>3, <1>5, <1>6, <1>7, <1>8, <1>9, Assemble

(* No reader is new that was not new before, and the stack is not one the   *)
(* server has left for another value.                                       *)
LEMMA ArgKeeps ==
  ASSUME NEW s, NEW r, ArgOK(s),
         \A x \in Co \ {Server} : r.co[x].at = "new" => s.co[x].at = "new" /\ r.co[x].arg = s.co[x].arg,
         r.stack = s.stack \/ r.stack.owner # Server
  PROVE  ArgOK(r)
BY DEF ArgOK

------------------------------------------------------------------------------
(* The clients.                                                             *)
LEMMA ClientStep ==
  ASSUME IInv, Client
  PROVE  IInv'
<1> PICK c \in Conn : Connect(c) \/ Send(c) \/ Shutdown(c) \/ Reset(c)
  BY DEF Client
<1>1. UNCHANGED <<work, sched, mtx, totalfds>>
  BY DEF Connect, Send, Shutdown, Reset
<1>2. conn \in [Conn -> Connection] /\ conn[c] \in Connection /\ backlog \in Seq(Conn)
  BY DEF IInv, TypeOK
<1>3. /\ conn' \in [Conn -> Connection] /\ backlog' \in Seq(Conn) /\ BacklogOK'
      /\ \A q \in Proc : Open(q)' = Open(q)
  <2>1. CASE Connect(c)
    <3> DEFINE n == [conn[c] EXCEPT !.st = "backlog"]
    <3>1. conn' = [conn EXCEPT ![c] = n] /\ conn[c].st = "idle" /\ backlog' = Append(backlog, c)
      BY <1>2, <2>1 DEF Connect
    <3>2. n \in Connection /\ n.st = "backlog"
      BY <1>2 DEF Connection
    <3> HIDE DEF n
    <3>3. /\ conn' \in [Conn -> Connection] /\ conn'[c] = n
          /\ \A d \in Conn : d # c => conn'[d] = conn[d]
      BY <1>2, <3>1, <3>2
    <3>4. /\ backlog' \in Seq(Conn) /\ ToSet(backlog') = ToSet(backlog) \cup {c}
          /\ IsInjective(backlog) /\ c \notin ToSet(backlog) => IsInjective(backlog')
      BY <1>2, <3>1, AppendFacts
    <3>5. c \notin ToSet(backlog) /\ ToSet(backlog) \subseteq Conn
      BY <1>2, <3>1 DEF IInv, BacklogOK, ToSet
    <3>6. BacklogOK'
      BY <3>2, <3>3, <3>4, <3>5 DEF IInv, BacklogOK
    <3>7. \A q \in Proc : Open(q)' = Open(q)
      BY <3>1, <3>2, <3>3 DEF Open
    <3>8. QED
      BY <3>3, <3>4, <3>6, <3>7
  <2>2. ASSUME NEW n \in Connection, conn' = [conn EXCEPT ![c] = n], backlog' = backlog,
               n.st = conn[c].st, n.owner = conn[c].owner
        PROVE  /\ conn' \in [Conn -> Connection] /\ backlog' \in Seq(Conn) /\ BacklogOK'
               /\ \A q \in Proc : Open(q)' = Open(q)
    <3>1. conn' \in [Conn -> Connection] /\ SameOwners
      BY <1>2, <2>2 DEF SameOwners
    <3>2. QED
      BY <1>2, <2>2, <3>1, OwnersSame, BacklogSame
  <2>3. CASE Send(c)
    <3> DEFINE m == <<c, conn[c].n + 1>>
               n == [conn[c] EXCEPT !.n = conn[c].n + 1, !.rx = Append(conn[c].rx, m)]
    <3>1. m \in Message /\ conn[c].rx \in Seq(Message) /\ conn[c].n \in Nat
      BY <1>2 DEF Connection, Message
    <3>2. conn' = [conn EXCEPT ![c] = n] /\ backlog' = backlog
      BY <1>2, <2>3 DEF Send
    <3> HIDE DEF m
    <3>3. conn[c].n + 1 \in Nat /\ Append(conn[c].rx, m) \in Seq(Message)
      BY <3>1
    <3>4. n \in Connection
      BY <1>2, <3>3 DEF Connection
    <3>5. n.st = conn[c].st /\ n.owner = conn[c].owner
      BY <1>2 DEF Connection
    <3>6. QED
      BY <2>2, <3>2, <3>4, <3>5
  <2>4. CASE Shutdown(c)
    <3> DEFINE n == [conn[c] EXCEPT !.eof = TRUE]
    <3>1. conn' = [conn EXCEPT ![c] = n] /\ backlog' = backlog
      BY <1>2, <2>4 DEF Shutdown
    <3>2. n \in Connection /\ n.st = conn[c].st /\ n.owner = conn[c].owner
      BY <1>2 DEF Connection
    <3>3. QED
      BY <2>2, <3>1, <3>2
  <2>5. CASE Reset(c)
    <3> DEFINE e == <<>>
               n == [conn[c] EXCEPT !.reset = "err", !.rx = e]
    <3>1. conn' = [conn EXCEPT ![c] = n] /\ backlog' = backlog
      BY <1>2, <2>5 DEF Reset
    <3>2. e \in Seq(Message)
      OBVIOUS
    <3> HIDE DEF e
    <3>3. n \in Connection
      BY <1>2, <3>2 DEF Connection
    <3>4. n.st = conn[c].st /\ n.owner = conn[c].owner
      BY <1>2 DEF Connection
    <3>5. QED
      BY <2>2, <3>1, <3>3, <3>4
  <2>6. QED
    BY <2>1, <2>3, <2>4, <2>5
<1>4. TypeOK'
  BY <1>1, <1>3 DEF IInv, TypeOK
<1>5. AcceptMutex'
  BY <1>1 DEF IInv, AcceptMutex, InAccept, Is
<1>6. ASSUME NEW q \in Proc, sched'[q].alive
      PROVE  SchedOK(sched[q])' /\ ArgOK(sched[q])' /\ FilesOK(q)'
  <2>1. SchedOK(sched[q]) /\ ArgOK(sched[q]) /\ FilesOK(q)
    BY <1>1, <1>6 DEF IInv
  <2>2. SchedOK(sched[q])'
    BY <1>1, <2>1
  <2>3. ArgOK(sched[q])'
    BY <1>1, <2>1 DEF ArgOK, Is
  <2>4. FilesOK(q)'
    BY <1>1, <1>3, <2>1 DEF FilesOK, Is, OwnSlot
  <2>5. QED
    BY <2>2, <2>3, <2>4
<1>7. AcceptReady'
  <2>1. backlog # <<>> => backlog' # <<>>
    <3>1. CASE Connect(c)
      <4>1. backlog' = Append(backlog, c)
        BY <3>1 DEF Connect
      <4>2. Len(backlog') = Len(backlog) + 1 /\ Len(backlog) \in Nat
        BY <1>2, <4>1
      <4>3. backlog' # <<>>
        BY <4>2, Len(<<>>) = 0
      <4>4. QED
        BY <4>3
    <3>2. CASE ~Connect(c)
      BY <3>2 DEF Send, Shutdown, Reset
    <3>3. QED
      BY <3>1, <3>2
  <2>2. QED
    BY <1>1, <2>1 DEF IInv, AcceptReady
<1>8. QED
  BY <1>3, <1>4, <1>5, <1>6, <1>7 DEF IInv

------------------------------------------------------------------------------
(* What the first of the ready queue starts from.                           *)
LEMMA DequeuedFacts ==
  ASSUME IInv, NEW p \in Proc, Running(p), sched[p].pc = "ready", sched[p].ready # <<>>,
         NEW d, d = Dequeued(p), NEW x, x = FirstReady(p)
  PROVE  /\ \E q \in {"ready", "epoll"} : Taken(sched[p], x, q, d)
         /\ d.pc \in {"ready", "epoll"} /\ d.events = <<>> /\ d.cur = None /\ d.alive
         /\ d.epoll \subseteq Open(p)
<1> DEFINE s == sched[p]
           q == IF FirstReady(p) = s.last \/ Tail(s.ready) = <<>> THEN "epoll" ELSE "ready"
<1>1. s \in Scheduler /\ s.alive /\ SchedOK(s) /\ s.cur = None /\ s.epoll \subseteq Open(p)
  BY ProcessFacts DEF FilesOK
<1>2. Core(s, {}) /\ s.events = <<>>
  BY <1>1, IdleFacts DEF SchedOK
<1>3. d = [s EXCEPT !.ready = Tail(s.ready), !.pc = q]
  BY DEF Dequeued
<1>4. q \in {"ready", "epoll"} /\ x = Head(s.ready)
  BY DEF FirstReady
<1> HIDE DEF q
<1>5. Taken(s, x, q, d)
  BY <1>1, <1>2, <1>3, <1>4, DequeueKeeps, ZenonT(30)
<1>6. QED
  BY <1>1, <1>2, <1>4, <1>5 DEF Taken

(* Another phase of the loop.                                               *)
SameLists(s, r) ==
  /\ r.ready = s.ready /\ r.waiting = s.waiting /\ r.epoll = s.epoll /\ r.events = s.events
  /\ r.co = s.co /\ r.spawned_coroutines = s.spawned_coroutines

(* The lists do not depend on the phase.                                    *)
LEMMA CoreSame ==
  ASSUME NEW s \in Scheduler, NEW r \in Scheduler, NEW X, SameLists(s, r), Core(s, X)
  PROVE  Core(r, X)
<1> USE DEF SameLists, Core
<1>1. Live(r) = Live(s)
  BY DEF Live
<1>2. ReadyOK(r, X) /\ TreeOK(r, X)
  BY DEF ReadyOK, TreeOK
<1>3. HandOK(r, X)
  BY <1>1 DEF HandOK
<1>4. RolesOK(r) /\ EventsOK(r) /\ StartOK(r)
  BY DEF RolesOK, EventsOK, StartOK
<1>5. CountOK(r)
  BY <1>1 DEF CountOK
<1>6. QED
  BY <1>2, <1>3, <1>4, <1>5

(* The first of the ready queue is resumed.                                 *)
Begins(p, x, s) ==
  /\ x \in Co /\ s \in Scheduler /\ Core(s, {x}) /\ s.alive
  /\ s.pc \in {"ready", "epoll"} /\ s.events = <<>> /\ s.epoll \subseteq Open(p)
  /\ \A y \in Co : /\ s.co[y].at = sched[p].co[y].at /\ s.co[y].fd = sched[p].co[y].fd
                   /\ s.co[y].arg = sched[p].co[y].arg

(* nty_coroutine_resume of a ready coroutine.                               *)
LEMMA BeginFacts ==
  ASSUME IInv, NEW p \in Proc, NEW x, NEW ats, IsReady(p, x, ats),
         NEW b, b = nty_coroutine_resume(Dequeued(p), x)
  PROVE  Begins(p, x, b)
<1> DEFINE d == Dequeued(p)
<1>1. Running(p) /\ sched[p].pc = "ready" /\ sched[p].ready # <<>> /\ x = FirstReady(p)
  BY DEF IsReady
<1>2. PICK q \in {"ready", "epoll"} : Taken(sched[p], x, q, d)
  BY <1>1, DequeuedFacts
<1>3. d.pc \in {"ready", "epoll"} /\ d.events = <<>> /\ d.cur = None /\ d.alive /\ d.epoll \subseteq Open(p)
  BY <1>1, DequeuedFacts
<1> HIDE DEF d
<1>4. x \in Co /\ d \in Scheduler /\ Core(d, {x}) /\ d.co = sched[p].co
  BY <1>2 DEF Taken
<1>5. b \in Scheduler /\ Alike(d, b)
  BY <1>4, ResumeFacts DEF d
<1>6. Core(b, {x})
  BY <1>4, <1>5, CoreAlike
<1>7. QED
  BY <1>3, <1>4, <1>5, <1>6 DEF Begins, Alike

(* And its function starts with its locals.                                 *)
LEMMA BeginLocal ==
  ASSUME NEW p, NEW x, NEW b, Begins(p, x, b), NEW s, s = SetLocal(b, x, None)
  PROVE  Begins(p, x, s) /\ s.stack.owner = x
<1>1. x \in Co /\ b \in Scheduler /\ None \in Local /\ Core(b, {x})
  BY DEF Begins, Local
<1>2. s \in Scheduler /\ Alike(b, s) /\ s.stack.owner = x
  BY <1>1, SetLocalFacts
<1>3. Core(s, {x})
  BY <1>1, <1>2, CoreAlike
<1>4. QED
  BY <1>2, <1>3 DEF Begins, Alike

(* The server of the kvstore starts.                                        *)
LEMMA StartServerStep ==
  ASSUME IInv, NEW p \in Proc, StartServer(p)
  PROVE  IInv'
<1> DEFINE b == nty_coroutine_resume(Dequeued(p), Server)
           s == SetLocal(b, Server, None)
           r == nty_poll_inner(s, Server, Listen, "accept", Open(p))
<1>1. /\ Is("kvstore") /\ IsReady(p, Server, {"new"}) /\ Step(p, r)
      /\ UNCHANGED <<work, mtx, totalfds, conn, backlog>>
  BY DEF StartServer
<1>2. Running(p) /\ sched[p].co[Server].at = "new"
  BY <1>1 DEF IsReady
<1>3. Begins(p, Server, b)
  BY <1>1, BeginFacts
<1>4. Begins(p, Server, s)
  <2> HIDE DEF b
  <2> QED
    BY <1>3, BeginLocal
<1> HIDE DEF b, s
<1>5. Listen \in Fd /\ "accept" \in Blocked /\ Open(p) \in SUBSET File /\ Server \in Co
  BY <1>2, ProcessFacts, CoFacts DEF Fd, File, Blocked
<1>6. s \in Scheduler /\ Core(s, {Server}) /\ s.alive /\ s.waiting[Listen] = None
  BY <1>4, ListenFree DEF Begins
<1>7. Waits(s, Server, Listen, "accept", Open(p), r)
  BY <1>5, <1>6, PollKeeps
<1> HIDE DEF r
<1>8. /\ r \in Scheduler /\ Core(r, {}) /\ r.cur = None /\ r.alive /\ r.pc # "run"
      /\ r.events = <<>> /\ r.epoll \subseteq Open(p)
  BY <1>4, <1>7 DEF Waits, Begins
<1>9. SchedOK(r)
  BY <1>8, IdleOK
<1>10. ArgOK(r)
  <2>1. \A x \in Co \ {Server} : s.co[x].at = "free"
    BY <1>2, <1>4, <1>5 DEF Begins, Core, StartOK
  <2>2. QED
    BY <1>7, <2>1 DEF Waits, ArgOK
<1>11. conn' \in [Conn -> Connection] /\ SameOwners
  BY <1>1 DEF IInv, TypeOK, SameOwners
<1>12. ~Is("httpd")
  BY <1>1 DEF Is
<1>13. Listen \notin ToSet(r.events)
  BY <1>8 DEF ToSet
<1>14. QED
  BY <1>1, <1>2, <1>8, <1>9, <1>10, <1>11, <1>12, <1>13, QuietStep

(* The server tries the lock: it waits in accept or goes to sleep.          *)
LEMMA LockStep ==
  ASSUME IInv, NEW p \in Proc, Running(p), NEW s \in Scheduler, Core(s, {Server}), s.alive,
         s.pc # "run", s.pc \in {"ready", "epoll"} => s.events = <<>>, s.epoll \subseteq Open(p),
         ArgOK(s), ~InAccept(p), lock(p, s), UNCHANGED <<work, totalfds, conn, backlog>>
  PROVE  IInv'
<1>1. /\ sched \in [Proc -> Scheduler] /\ totalfds \in [Slot -> Int] /\ mtx \in {0, 1}
      /\ backlog \in Seq(Conn) /\ conn \in [Conn -> Connection] /\ work.procs \subseteq Proc
      /\ AcceptMutex /\ p \in work.procs
  BY ProcessFacts, ConstantAssumption DEF IInv, TypeOK
<1>2. SameOwners /\ conn' \in [Conn -> Connection]
  BY <1>1 DEF SameOwners
<1>3. Listen \in Fd /\ "accept" \in Blocked /\ Open(p) \in SUBSET File /\ Server \in Co
  BY ProcessFacts, CoFacts DEF Fd, File, Blocked
<1>4. CASE mtx = 0
  <2> DEFINE r == nty_poll_inner(s, Server, Listen, "accept", Open(p))
  <2>1. Step(p, r) /\ mtx' = 1
    BY <1>4 DEF lock, cmpxchg
  <2>2. Waits(s, Server, Listen, "accept", Open(p), r)
    BY <1>3, ListenFree, PollKeeps
  <2> HIDE DEF r
  <2>3. /\ r \in Scheduler /\ Core(r, {}) /\ r.cur = None /\ r.alive /\ r.pc = s.pc
        /\ r.events = s.events /\ r.epoll \subseteq Open(p) /\ r.co[Server].at = "accept"
    BY <1>3, <2>2 DEF Waits
  <2>4. SchedOK(r)
    BY <2>3, IdleOK
  <2>5. ArgOK(r)
    <3>1. r.stack = s.stack /\ \A y \in Co : y # Server => r.co[y] = s.co[y]
      BY <2>2 DEF Waits
    <3>2. QED
      BY <3>1 DEF ArgOK
  <2>6. sched'[p] = r /\ \A q \in Proc : q # p => sched'[q] = sched[q]
    BY <1>1, <2>1 DEF Step
  <2>7. AcceptMutex'
    <3> SUFFICES ASSUME Is("httpd")
                 PROVE  AcceptMutex'
      BY DEF AcceptMutex, Is
    <3>1. \A q \in work.procs : ~InAccept(q)
      <4>1. (mtx = 1) = (\E q \in work.procs : InAccept(q))
        BY <1>1 DEF AcceptMutex
      <4>2. mtx # 1
        BY <1>4
      <4>3. QED
        BY <4>1, <4>2
    <3>2. InAccept(p)'
      BY <2>3, <2>6 DEF InAccept
    <3>3. \A q \in work.procs : InAccept(q)' => q = p
      BY <1>1, <2>6, <3>1 DEF InAccept
    <3>4. QED
      BY <1>1, <2>1, <3>2, <3>3 DEF AcceptMutex
  <2>8. ASSUME NEW q \in Proc, sched'[q].alive
        PROVE  FilesOK(q)'
    <3>1. Open(q)' = Open(q) /\ totalfds' = totalfds /\ work' = work
      BY <1>2, OwnersSame
    <3>2. sched[q].alive
      BY <2>6, <2>8, ProcessFacts
    <3>3. FilesOK(q)
      BY <3>2 DEF IInv
    <3>4. sched'[q].epoll \subseteq Open(q)
      BY <2>3, <2>6, <3>3 DEF FilesOK
    <3>5. QED
      BY <3>1, <3>3, <3>4 DEF FilesOK, Is, OwnSlot
  <2>9. BacklogOK'
    BY <1>2, BacklogSame
  <2>10. AcceptReady'
    BY <2>1, <2>3, ListenFree, ReadySame
  <2>11. QED
    BY <1>1, <1>2, <2>1, <2>3, <2>4, <2>5, <2>7, <2>8, <2>9, <2>10, Assemble
<1>5. CASE mtx # 0
  <2> DEFINE r == nty_coroutine_sleep(s, Server)
  <2>1. Step(p, r) /\ mtx' = mtx
    BY <1>5 DEF lock, cmpxchg
  <2>2. Released(s, Server, "sleep", r)
    BY SleepKeeps
  <2> HIDE DEF r
  <2>3. /\ r \in Scheduler /\ Core(r, {}) /\ r.cur = None /\ r.alive /\ r.pc = s.pc
        /\ r.events = s.events /\ r.epoll \subseteq Open(p) /\ r.co[Server].at = "sleep"
    BY <2>2 DEF Released
  <2>4. SchedOK(r)
    BY <2>3, IdleOK
  <2>5. ArgOK(r)
    <3>1. r.stack = s.stack /\ \A y \in Co : y # Server => r.co[y] = s.co[y]
      BY <2>2 DEF Released
    <3>2. QED
      BY <3>1 DEF ArgOK
  <2>6. (r.co[Server].at = "accept") = (sched[p].co[Server].at = "accept")
    BY <2>3 DEF InAccept
  <2>7. Listen \notin ToSet(r.events)
    BY <2>3, ListenFree
  <2>8. QED
    BY <1>2, <2>1, <2>3, <2>4, <2>5, <2>6, <2>7, QuietStep
<1>6. QED
  BY <1>4, <1>5

(* The server of the HTTP worker starts or was asleep.                      *)
LEMMA StartLockStep ==
  ASSUME IInv, NEW p \in Proc, StartLock(p)
  PROVE  IInv'
<1> DEFINE b == nty_coroutine_resume(Dequeued(p), Server)
           c == SetLocal(b, Server, None)
           s == IF sched[p].co[Server].at = "new" THEN c ELSE b
<1>1. /\ Is("httpd") /\ IsReady(p, Server, {"new", "sleep"}) /\ lock(p, s)
      /\ UNCHANGED <<work, totalfds, conn, backlog>>
  BY DEF StartLock
<1>2. Running(p) /\ sched[p].co[Server].at \in {"new", "sleep"}
  BY <1>1 DEF IsReady
<1>3. Begins(p, Server, b)
  BY <1>1, BeginFacts
<1>4. Begins(p, Server, s)
  <2> HIDE DEF b
  <2>1. Begins(p, Server, c)
    BY <1>3, BeginLocal
  <2>2. QED
    BY <1>3, <2>1
<1> HIDE DEF b, c, s
<1>5. /\ s \in Scheduler /\ Core(s, {Server}) /\ s.alive /\ s.pc # "run" /\ s.events = <<>>
      /\ s.epoll \subseteq Open(p)
  BY <1>4 DEF Begins
<1>6. ArgOK(s)
  <2>1. ArgOK(sched[p])
    BY <1>2, ProcessFacts
  <2>2. QED
    BY <1>1, <1>4, <2>1 DEF ArgOK, Begins, Is
<1>7. ~InAccept(p)
  BY <1>2 DEF InAccept
<1>8. QED
  BY <1>1, <1>2, <1>5, <1>6, <1>7, LockStep

(* The server tries the lock again after it has made a reader.              *)
LEMMA RetryLockStep ==
  ASSUME IInv, NEW p \in Proc, RetryLock(p)
  PROVE  IInv'
<1> DEFINE t == sched[p]
           s == [t EXCEPT !.pc = "events"]
<1>1. /\ Running(p) /\ t.pc = "run" /\ t.cur = Server /\ lock(p, s)
      /\ UNCHANGED <<work, totalfds, conn, backlog>>
  BY DEF RetryLock
<1>2. t \in Scheduler /\ t.alive /\ SchedOK(t) /\ ArgOK(t) /\ t.epoll \subseteq Open(p)
  BY <1>1, ProcessFacts DEF FilesOK
<1>3. Core(t, {Server}) /\ t.co[Server].at \in Active
  BY <1>1, <1>2, CoFacts DEF SchedOK, Hand, RunOK
<1>4. s \in Scheduler
  BY <1>2 DEF Scheduler
<1>5. SameLists(t, s) /\ s.alive = t.alive /\ s.pc = "events" /\ s.stack = t.stack
  BY <1>2 DEF SameLists, Scheduler
<1> HIDE DEF s
<1>6. Core(s, {Server})
  BY <1>2, <1>3, <1>4, <1>5, CoreSame
<1>7. ArgOK(s) /\ s.epoll \subseteq Open(p)
  BY <1>2, <1>5 DEF ArgOK, SameLists
<1>8. ~InAccept(p)
  BY <1>3 DEF InAccept, Active
<1>9. QED
  BY <1>1, <1>2, <1>4, <1>5, <1>6, <1>7, <1>8, LockStep

(* A second waiter for a descriptor fails the assertion.                    *)
LEMMA PollDies ==
  ASSUME NEW s \in Scheduler, NEW x \in Co, NEW fd \in Fd, NEW at, NEW opens \in SUBSET File,
         s.waiting[fd] # None, NEW r, r = nty_poll_inner(s, x, fd, at, opens)
  PROVE  r \in Scheduler /\ ~r.alive /\ r.cur = None /\ r.co = s.co
<1> DEFINE e == s.epoll \cup ({fd} \cap opens)
           a == [s EXCEPT !.epoll = e]
           w == [a EXCEPT !.alive = FALSE, !.cur = None]
<1>1. e \in SUBSET File
  BY Fields
<1>2. a.waiting = s.waiting
  BY DEF Scheduler
<1>3. nty_schedule_sched_wait(a, x, fd) = w
  BY <1>2 DEF nty_schedule_sched_wait, RB_FIND
<1> HIDE DEF e
<1>4. w \in Scheduler
  BY <1>1 DEF Scheduler
<1>5. ~w.alive /\ w.cur = None /\ w.co = s.co
  BY DEF Scheduler
<1>6. r = w
  BY <1>3, <1>5 DEF nty_poll_inner, e
<1>7. QED
  BY <1>4, <1>5, <1>6

(* A reader starts, with the descriptor it finds.                           *)
LEMMA StartReaderStep ==
  ASSUME IInv, NEW p \in Proc, StartReader(p)
  PROVE  IInv'
<1> DEFINE x == FirstReady(p)
           b == nty_coroutine_resume(Dequeued(p), x)
           s == SetLocal(b, x, None)
<1>1. x \in Co \ {Server} /\ IsReady(p, x, {"new"}) /\ UNCHANGED <<work, mtx, totalfds, backlog>>
  BY DEF StartReader, IsReady
<1>2. PICK fd \in FdArgument(p) : Risky(p, nty_poll_inner(s, x, fd, "recv", Open(p)))
  BY DEF StartReader
<1> DEFINE r == nty_poll_inner(s, x, fd, "recv", Open(p))
<1>3. Running(p) /\ sched[p].co[x].at = "new"
  BY <1>1 DEF IsReady
<1>4. /\ ArgOK(sched[p]) /\ Open(p) \in SUBSET File /\ work \in Workload
      /\ conn \in [Conn -> Connection]
  BY <1>3, ProcessFacts DEF IInv, TypeOK
<1>5. fd \in Conn \cup {NoFd}
  <2>1. Is("kvstore") \/ Is("httpd")
    BY <1>4, ConstantAssumption DEF Is
  <2>2. QED
    BY <1>1, <1>2, <1>3, <1>4, <2>1 DEF FdArgument, ArgOK, Is
<1>6. fd \in Fd /\ fd # Listen /\ "recv" \in Blocked
  BY <1>5, ConstantAssumption DEF Fd, File, Blocked
<1> HIDE DEF x
<1>7. Begins(p, x, b)
  BY <1>1, BeginFacts
<1>8. Begins(p, x, s) /\ s.stack.owner = x
  <2> HIDE DEF b
  <2> QED
    BY <1>7, BeginLocal
<1> HIDE DEF b, s
<1>9. s \in Scheduler /\ Core(s, {x}) /\ s.alive
  BY <1>8 DEF Begins
<1>10. CASE s.waiting[fd] = None
  <2>1. Waits(s, x, fd, "recv", Open(p), r)
    BY <1>1, <1>4, <1>6, <1>9, <1>10, PollKeeps
  <2>2. Step(p, r) /\ conn' = IF r.alive THEN conn ELSE Orphaned(p)
    BY <1>2 DEF Risky, x, b, s
  <2> HIDE DEF r
  <2>3. /\ r \in Scheduler /\ Core(r, {}) /\ r.cur = None /\ r.alive /\ r.pc # "run"
        /\ r.events = <<>> /\ r.epoll \subseteq Open(p) /\ r.stack = s.stack
        /\ r.co[x].at = "recv" /\ \A y \in Co : y # x => r.co[y] = s.co[y]
    BY <1>8, <2>1 DEF Waits, Begins
  <2>4. SchedOK(r)
    BY <2>3, IdleOK
  <2>5. ArgOK(r)
    BY <1>1, <1>4, <1>8, <2>3 DEF ArgOK, Begins
  <2>6. conn' = conn
    BY <2>2, <2>3
  <2>7. conn' \in [Conn -> Connection] /\ SameOwners
    BY <1>4, <2>6 DEF SameOwners
  <2>8. r.co[Server].at = sched[p].co[Server].at
    BY <1>1, <1>8, <2>3, CoFacts DEF Begins
  <2>9. Listen \notin ToSet(r.events)
    BY <2>3 DEF ToSet
  <2>10. QED
    BY <1>1, <1>3, <2>2, <2>3, <2>4, <2>5, <2>7, <2>8, <2>9, QuietStep
<1>11. CASE s.waiting[fd] # None
  <2>1. r \in Scheduler /\ ~r.alive /\ r.cur = None /\ r.co = s.co
    BY <1>1, <1>4, <1>6, <1>9, <1>11, PollDies
  <2>2. Step(p, r) /\ conn' = IF r.alive THEN conn ELSE Orphaned(p)
    BY <1>2 DEF Risky, x, b, s
  <2> HIDE DEF r
  <2>3. conn' = Orphaned(p)
    BY <2>1, <2>2
  <2>4. r.co[Server].at = sched[p].co[Server].at
    BY <1>8, <2>1, CoFacts DEF Begins
  <2>5. QED
    BY <1>1, <1>3, <2>1, <2>2, <2>3, <2>4, DeathStep
<1>12. QED
  BY <1>10, <1>11

(* Only the phase and the batch change.                                     *)
LEMMA PhaseStep ==
  ASSUME IInv, NEW p \in Proc,
         NothingReady(p) \/ nty_schedule_epoll(p) \/ BatchDone(p) \/ nty_schedule_isdone(p)
  PROVE  IInv'
<1> DEFINE s == sched[p]
<1>1. Running(p) /\ UNCHANGED <<work, mtx, totalfds, conn, backlog>> /\ s.pc # "run"
  BY DEF NothingReady, nty_schedule_epoll, BatchDone, nty_schedule_isdone
<1>2. /\ s \in Scheduler /\ s.alive /\ SchedOK(s) /\ ArgOK(s) /\ s.epoll \subseteq Open(p)
      /\ s.cur = None
  BY <1>1, ProcessFacts DEF FilesOK
<1>3. Core(s, {})
  BY <1>2, IdleFacts
<1>4. conn' \in [Conn -> Connection] /\ SameOwners
  BY <1>1 DEF IInv, TypeOK, SameOwners
<1>5. ASSUME NEW r \in Scheduler, Step(p, r), r.cur = None, r.alive => r.pc # "run",
             r.co = s.co, r.stack = s.stack, r.epoll = s.epoll,
             r.alive => Core(r, {}) /\ (r.pc \in {"ready", "epoll"} => r.events = <<>>),
             r.alive /\ Listen \in ToSet(r.events) => backlog # <<>>
      PROVE  IInv'
  <2>1. r.alive => SchedOK(r)
    BY <1>5, IdleOK
  <2>2. ArgOK(r)
    BY <1>2, <1>5 DEF ArgOK
  <2>3. QED
    BY <1>1, <1>2, <1>4, <1>5, <2>1, <2>2, QuietStep
<1>6. ASSUME NEW pc \in {"ready", "epoll"}, NEW last \in Co \cup {None}, s.events = <<>>,
             Step(p, [s EXCEPT !.pc = pc, !.last = last])
      PROVE  IInv'
  <2> DEFINE r == [s EXCEPT !.pc = pc, !.last = last]
  <2>1. r \in Scheduler
    BY <1>2, <1>6 DEF Scheduler
  <2>2. /\ SameLists(s, r) /\ r.cur = s.cur /\ r.stack = s.stack /\ r.alive = s.alive /\ r.pc = pc
    BY <1>2 DEF SameLists, Scheduler
  <2>3. Step(p, r)
    BY <1>6
  <2> HIDE DEF r
  <2>4. Core(r, {})
    BY <1>2, <1>3, <2>1, <2>2, CoreSame
  <2>5. Listen \notin ToSet(r.events)
    BY <1>6, <2>2 DEF SameLists, ToSet
  <2>6. QED
    BY <1>2, <1>5, <1>6, <2>1, <2>2, <2>3, <2>4, <2>5 DEF SameLists
<1>7. s.last \in Co \cup {None} /\ [s EXCEPT !.pc = "epoll"] = [s EXCEPT !.pc = "epoll", !.last = s.last]
  BY <1>2 DEF Scheduler
<1>8. ASSUME s.events = <<>>, Step(p, NewRound(s))
      PROVE  IInv'
  <2> DEFINE l == IF s.ready = <<>> THEN None ELSE Last(s.ready)
  <2>1. s.ready \in Seq(Co)
    BY <1>2, Fields
  <2>2. l \in Co \cup {None}
    BY <2>1, FrontFacts
  <2>3. NewRound(s) = [s EXCEPT !.pc = "ready", !.last = l]
    BY DEF NewRound
  <2> HIDE DEF l
  <2>4. QED
    BY <1>6, <1>8, <2>2, <2>3
<1>9. CASE NothingReady(p)
  <2>1. s.events = <<>> /\ Step(p, [s EXCEPT !.pc = "epoll"])
    BY <1>2, <1>9 DEF NothingReady, SchedOK
  <2>2. QED
    BY <1>6, <1>7, <2>1
<1>10. CASE BatchDone(p)
  BY <1>8, <1>10 DEF BatchDone
<1>11. CASE nty_schedule_isdone(p)
  <2> DEFINE r == [s EXCEPT !.alive = FALSE]
  <2>1. Step(p, r)
    BY <1>11 DEF nty_schedule_isdone
  <2>2. r \in Scheduler
    BY <1>2 DEF Scheduler
  <2>3. ~r.alive /\ r.cur = s.cur /\ r.co = s.co /\ r.stack = s.stack /\ r.epoll = s.epoll
    BY <1>2 DEF Scheduler
  <2> HIDE DEF r
  <2>4. QED
    BY <1>2, <1>5, <2>1, <2>2, <2>3
<1>12. CASE nty_schedule_epoll(p) /\ s.ready # <<>>
  <2>1. s.events = <<>> /\ Step(p, NewRound(s))
    BY <1>2, <1>12 DEF nty_schedule_epoll, SchedOK
  <2>2. QED
    BY <1>8, <2>1
<1>13. CASE nty_schedule_epoll(p) /\ s.ready = <<>>
  <2>1. PICK batch \in SetToSeqs(Fires(p)) : Step(p, [s EXCEPT !.pc = "events", !.events = batch])
    BY <1>13 DEF nty_schedule_epoll
  <2> DEFINE r == [s EXCEPT !.pc = "events", !.events = batch]
  <2>2. Fires(p) \subseteq s.epoll /\ s.epoll \subseteq File
    BY <1>2, Fields DEF Fires
  <2>3. IsFiniteSet(Fires(p))
    <3>1. IsFiniteSet(File)
      BY ConstantAssumption, FS_AddElement DEF File
    <3>2. Fires(p) \in SUBSET File
      BY <2>2
    <3>3. QED
      BY <3>1, <3>2, FS_Subset
  <2>4. /\ batch \in Seq(File) /\ IsInjective(batch) /\ ToSet(batch) \subseteq s.epoll
        /\ ToSet(batch) \subseteq Fires(p)
    <3>1. Cardinality(Fires(p)) \in Nat
      BY <2>3, FS_CardinalityType
    <3>2. /\ batch \in [1 .. Cardinality(Fires(p)) -> Fires(p)]
          /\ \A i, j \in 1 .. Cardinality(Fires(p)) : i # j => batch[i] # batch[j]
      BY DEF SetToSeqs
    <3>3. DOMAIN batch = 1 .. Cardinality(Fires(p))
      BY <3>2
    <3>4. IsInjective(batch)
      BY <3>2, <3>3 DEF IsInjective
    <3>5. batch \in Seq(Fires(p))
      BY <3>1, <3>2, SeqDef
    <3>6. QED
      BY <2>2, <3>3, <3>4, <3>5, <3>2 DEF ToSet
  <2>5. r \in Scheduler
    BY <1>2, <2>4 DEF Scheduler
  <2>6. /\ r.ready = s.ready /\ r.waiting = s.waiting /\ r.epoll = s.epoll /\ r.co = s.co
        /\ r.spawned_coroutines = s.spawned_coroutines /\ r.events = batch /\ r.cur = s.cur
        /\ r.stack = s.stack /\ r.pc = "events"
    BY <1>2 DEF Scheduler
  <2>7. Step(p, r)
    BY <2>1
  <2> HIDE DEF r
  <2>8. Core(r, {})
    <3>1. Live(r) = Live(s)
      BY <2>6 DEF Live
    <3>2. ReadyOK(r, {}) /\ TreeOK(r, {}) /\ RolesOK(r) /\ StartOK(r)
      BY <1>3, <2>6 DEF Core, ReadyOK, TreeOK, RolesOK, StartOK
    <3>3. HandOK(r, {}) /\ CountOK(r)
      BY <1>3, <2>6, <3>1 DEF Core, HandOK, CountOK
    <3>4. EventsOK(r)
      BY <1>3, <1>13, <2>4, <2>6 DEF Core, EventsOK
    <3>5. QED
      BY <3>2, <3>3, <3>4 DEF Core
  <2>9. Listen \in ToSet(r.events) => backlog # <<>>
    BY <2>4, <2>6 DEF Fires
  <2>10. QED
    BY <1>2, <1>5, <2>5, <2>6, <2>7, <2>8, <2>9
<1>14. QED
  BY <1>9, <1>10, <1>11, <1>12, <1>13

------------------------------------------------------------------------------
(* What the coroutine of an event goes on from.                             *)
Handles(p, f, x, w) ==
  /\ Running(p) /\ Wakes(sched[p], f, x, w) /\ w.alive /\ w.pc = "events"
  /\ f \in Open(p) /\ w.epoll \subseteq Open(p) \ {f} /\ Open(p) \in SUBSET File
  /\ Listen \in ToSet(w.events) => backlog # <<>>
  /\ x = Server => backlog # <<>>

(* An event of the batch, handled.                                          *)
LEMMA EventFacts ==
  ASSUME IInv, NEW p \in Proc, NEW at, IsEvent(p, at),
         NEW f, f = Event(p), NEW x, x = nty_schedule_search_wait(p), NEW w, w = Resumed(p)
  PROVE  Handles(p, f, x, w) /\ sched[p].co[x].at = at
<1> DEFINE s == sched[p]
<1>1. Running(p) /\ s.pc = "events" /\ s.events # <<>> /\ s.co[x].at = at
  BY DEF IsEvent
<1>2. /\ s \in Scheduler /\ s.alive /\ SchedOK(s) /\ s.cur = None /\ s.epoll \subseteq Open(p)
      /\ p \in work.procs /\ Open(p) \in SUBSET File
  BY <1>1, ProcessFacts DEF FilesOK
<1>3. Core(s, {})
  BY <1>2, IdleFacts
<1>4. f = Last(s.events) /\ x = s.waiting[f] /\ w = Woken([s EXCEPT !.events = Front(s.events)], x, f)
  BY DEF Event, nty_schedule_search_wait, RB_FIND, Resumed
<1>5. Wakes(s, f, x, w)
  BY <1>1, <1>2, <1>3, <1>4, WakeKeeps
<1>6. /\ f \in Open(p) /\ w.epoll \subseteq Open(p) \ {f} /\ w.alive /\ w.pc = "events"
      /\ Listen \in ToSet(w.events) => Listen \in ToSet(s.events)
      /\ x = Server => Listen \in ToSet(s.events)
  BY <1>1, <1>2, <1>5 DEF Wakes
<1>7. Listen \in ToSet(s.events) => backlog # <<>>
  BY <1>2 DEF IInv, AcceptReady
<1>8. QED
  BY <1>1, <1>2, <1>5, <1>6, <1>7 DEF Handles

(* A reader x in hand that may go on with connection c.                     *)
InHand(p, x, c, s) ==
  /\ x \in Co \ {Server} /\ c \in Conn /\ s \in Scheduler /\ Core(s, {x}) /\ s.alive
  /\ s.waiting[c] = None /\ s.epoll \subseteq Open(p) /\ ArgOK(s)
  /\ Listen \in ToSet(s.events) => backlog # <<>>
  /\ s.co[Server].at = sched[p].co[Server].at

(* A reader was woken by its connection.                                    *)
Reads(p, f, x, w) ==
  /\ InHand(p, x, f, w) /\ w.cur = x /\ w.co[x].fd = f /\ w.pc = "events"
  /\ conn[f].st = "open" /\ conn[f].owner = p /\ f \in Open(p) /\ w.epoll \subseteq Open(p) \ {f}

(* A reader's event: its descriptor is an open connection.                  *)
LEMMA ReaderFacts ==
  ASSUME IInv, NEW p \in Proc, NEW f, NEW x, NEW w, Handles(p, f, x, w),
         sched[p].co[x].at \in {"recv", "sendw"}
  PROVE  Reads(p, f, x, w) /\ Running(p)
<1> DEFINE s == sched[p]
<1>1. /\ Wakes(s, f, x, w) /\ f \in Open(p) /\ w.alive /\ w.pc = "events" /\ Running(p)
      /\ w.epoll \subseteq Open(p) \ {f} /\ (Listen \in ToSet(w.events) => backlog # <<>>)
  BY DEF Handles
<1>2. /\ x \in Co /\ w \in Scheduler /\ Core(w, {x}) /\ w.cur = x /\ w.waiting[f] = None
      /\ w.co[x].fd = f /\ w.stack.owner = x /\ (x = Server) = (f = Listen)
      /\ \A y \in Co : w.co[y].at = s.co[y].at /\ w.co[y].arg = s.co[y].arg
  BY <1>1 DEF Wakes
<1>3. RoleOK(w.co[x], x)
  BY <1>2 DEF Core, RolesOK
<1>4. x # Server
  BY <1>2, <1>3 DEF RoleOK
<1>5. f \in Conn /\ conn[f].st = "open" /\ conn[f].owner = p
  BY <1>1, <1>2, <1>4 DEF Open
<1>6. ArgOK(s)
  BY <1>1, ProcessFacts
<1>7. ArgOK(w)
  BY <1>2, <1>4, <1>6 DEF ArgOK
<1>8. w.co[Server].at = s.co[Server].at
  BY <1>2, CoFacts
<1>9. InHand(p, x, f, w)
  BY <1>1, <1>2, <1>4, <1>5, <1>7, <1>8 DEF InHand
<1>10. QED
  BY <1>1, <1>2, <1>5, <1>9 DEF Reads

(* A scheduler that process p may have after a step of a reader.            *)
Fine(p, r) ==
  /\ r \in Scheduler /\ (r.cur # None) = (r.alive /\ r.pc = "run") /\ r.alive
  /\ SchedOK(r) /\ ArgOK(r) /\ r.epoll \subseteq Open(p)
  /\ Listen \in ToSet(r.events) => backlog # <<>>
  /\ r.co[Server].at = sched[p].co[Server].at

(* A step of a reader that only touches its connection.                     *)
LEMMA FineStep ==
  ASSUME IInv, NEW p \in Proc, Running(p), NEW r, Fine(p, r), Step(p, r),
         UNCHANGED <<work, mtx, totalfds, backlog>>,
         conn' \in [Conn -> Connection], SameOwners
  PROVE  IInv'
BY QuietStep DEF Fine

(* A change of a connection that keeps its state and its owner.             *)
LEMMA ConnChange ==
  ASSUME IInv, NEW c \in Conn, NEW n \in Connection, n.st = conn[c].st, n.owner = conn[c].owner,
         conn' = [conn EXCEPT ![c] = n]
  PROVE  conn' \in [Conn -> Connection] /\ SameOwners
<1>1. conn \in [Conn -> Connection]
  BY DEF IInv, TypeOK
<1>2. QED
  BY <1>1 DEF SameOwners

(* A reader in hand receives or waits to write on its own descriptor.       *)
LEMMA WaitsFine ==
  ASSUME IInv, NEW p \in Proc, Running(p), NEW x, NEW c, NEW s, InHand(p, x, c, s),
         s.pc = "events", NEW at \in {"recv", "sendw"},
         NEW r, r = nty_poll_inner(s, x, c, at, Open(p))
  PROVE  Fine(p, r)
<1>0. /\ x \in Co \ {Server} /\ c \in Conn /\ s \in Scheduler /\ Core(s, {x}) /\ s.alive
      /\ s.waiting[c] = None /\ s.epoll \subseteq Open(p) /\ ArgOK(s)
      /\ Listen \in ToSet(s.events) => backlog # <<>>
      /\ s.co[Server].at = sched[p].co[Server].at
  BY DEF InHand
<1>1. c \in Fd /\ c # Listen /\ at \in Blocked /\ Open(p) \in SUBSET File
  BY <1>0, ProcessFacts, ConstantAssumption DEF Fd, File, Blocked
<1>2. Waits(s, x, c, at, Open(p), r)
  BY <1>0, <1>1, PollKeeps
<1>3. /\ r \in Scheduler /\ Core(r, {}) /\ r.cur = None /\ r.alive /\ r.pc = "events"
      /\ r.events = s.events /\ r.epoll \subseteq Open(p) /\ r.stack = s.stack
      /\ r.co[x].at = at /\ \A y \in Co : y # x => r.co[y] = s.co[y]
  BY <1>0, <1>2 DEF Waits
<1>4. SchedOK(r)
  BY <1>3, IdleOK
<1>5. ArgOK(r)
  BY <1>0, <1>3 DEF ArgOK
<1>6. r.co[Server].at = sched[p].co[Server].at
  BY <1>0, <1>3, CoFacts
<1>7. QED
  BY <1>0, <1>3, <1>4, <1>5, <1>6 DEF Fine

(* A reader in hand goes on with the answer or the rest of it.              *)
LEMMA GoesOnFine ==
  ASSUME IInv, NEW p \in Proc, NEW x, NEW c, NEW s, InHand(p, x, c, s),
         s.cur = x, s.co[x].fd = c,
         NEW at \in {"send", "send2"}, NEW r, r = [s EXCEPT !.pc = "run", !.co[x].at = at]
  PROVE  Fine(p, r)
<1>0. /\ x \in Co \ {Server} /\ c \in Conn /\ s \in Scheduler /\ Core(s, {x}) /\ s.alive
      /\ s.waiting[c] = None /\ s.epoll \subseteq Open(p) /\ ArgOK(s)
      /\ Listen \in ToSet(s.events) => backlog # <<>>
      /\ s.co[Server].at = sched[p].co[Server].at
  BY DEF InHand
<1>1. at \in Active /\ (x = Server) = (at = "lock")
  BY <1>0 DEF Active
<1>2. GoesOn(s, x, at, r)
  BY <1>0, <1>1, GoesOnKeeps
<1>3. /\ r \in Scheduler /\ Core(r, {x}) /\ r.cur = x /\ r.alive /\ r.pc = "run"
      /\ r.events = s.events /\ r.epoll \subseteq Open(p) /\ r.stack = s.stack
      /\ r.waiting = s.waiting /\ r.co[x].fd = c
      /\ r.co[x].at = at /\ \A y \in Co : y # x => r.co[y] = s.co[y]
  BY <1>0, <1>2 DEF GoesOn
<1>4. SchedOK(r)
  BY <1>0, <1>1, <1>3, BusyOK
<1>5. ArgOK(r)
  BY <1>0, <1>3 DEF ArgOK
<1>6. r.co[Server].at = sched[p].co[Server].at
  BY <1>0, <1>3, CoFacts
<1>7. QED
  BY <1>0, <1>3, <1>4, <1>5, <1>6, CoFacts DEF Fine

(* A reader answers what it received.                                       *)
LEMMA AnsweringFine ==
  ASSUME IInv, NEW p \in Proc, NEW f, NEW x, NEW w, Reads(p, f, x, w), NEW val \in Local,
         NEW r, r = Answering(w, x, val)
  PROVE  Fine(p, r)
<1> DEFINE s == SetLocal(w, x, val)
<1>1. InHand(p, x, f, w) /\ w.cur = x /\ w.co[x].fd = f
  BY DEF Reads
<1>2. /\ x \in Co \ {Server} /\ f \in Conn /\ w \in Scheduler /\ Core(w, {x}) /\ w.alive
      /\ w.waiting[f] = None /\ w.epoll \subseteq Open(p) /\ ArgOK(w)
      /\ Listen \in ToSet(w.events) => backlog # <<>>
      /\ w.co[Server].at = sched[p].co[Server].at
  BY <1>1 DEF InHand
<1>3. s \in Scheduler /\ Alike(w, s) /\ s.cur = w.cur /\ s.stack.owner = x
  BY <1>2, SetLocalFacts
<1>4. r = [s EXCEPT !.pc = "run", !.co[x].at = "send"]
  BY DEF Answering
<1> HIDE DEF s
<1>5. Core(s, {x})
  BY <1>2, <1>3, CoreAlike
<1>6. /\ s.alive /\ s.waiting = w.waiting /\ s.epoll = w.epoll /\ s.events = w.events
      /\ s.co[x].fd = f /\ s.co[Server].at = sched[p].co[Server].at
  BY <1>1, <1>2, <1>3, CoFacts DEF Alike
<1>7. ArgOK(s)
  BY <1>2, <1>3 DEF ArgOK, Alike
<1>8. InHand(p, x, f, s)
  BY <1>2, <1>3, <1>5, <1>6, <1>7 DEF InHand
<1>9. s.cur = x /\ s.co[x].fd = f /\ "send" \in {"send", "send2"}
  BY <1>1, <1>3, <1>6
<1>10. QED
  BY <1>4, <1>8, <1>9, GoesOnFine

(* A reader goes on with the rest of its answer.                            *)
LEMMA WritableStep ==
  ASSUME IInv, NEW p \in Proc, Writable(p)
  PROVE  IInv'
<1> DEFINE x == nty_schedule_search_wait(p)
           f == Event(p)
           w == Resumed(p)
           r == [w EXCEPT !.pc = "run", !.co[x].at = "send2"]
<1>1. IsEvent(p, "sendw") /\ Step(p, r) /\ UNCHANGED <<work, mtx, totalfds, conn, backlog>>
  BY DEF Writable
<1>2. Handles(p, f, x, w) /\ sched[p].co[x].at = "sendw"
  BY <1>1, EventFacts
<1> HIDE DEF x, f, w
<1>3. Reads(p, f, x, w) /\ Running(p)
  BY <1>2, ReaderFacts
<1>4. InHand(p, x, f, w) /\ w.cur = x /\ w.co[x].fd = f
  BY <1>3 DEF Reads
<1>5. Fine(p, r)
  BY <1>4, GoesOnFine
<1>6. conn' \in [Conn -> Connection] /\ SameOwners
  BY <1>1 DEF IInv, TypeOK, SameOwners
<1> HIDE DEF r
<1>7. QED
  BY <1>1, <1>3, <1>5, <1>6, FineStep

(* The reader that runs, and what it does next.                             *)
LEMMA RunFacts ==
  ASSUME IInv, NEW p \in Proc, Running(p), sched[p].pc = "run",
         NEW x, x = sched[p].cur, sched[p].co[x].at \in {"send", "send2"},
         NEW c, c = sched[p].co[x].fd
  PROVE  /\ x \in Co \ {Server} /\ c \in Conn /\ sched[p].stack.val \in Local
         /\ \A r : r = ReceiveAgain(p, x) \/ r = WaitWritable(p, x) => Fine(p, r)
         /\ HoldersOK(p) => \A w : w = [sched[p] EXCEPT !.pc = "events"] => Reads(p, c, x, w)
<1> DEFINE t == sched[p]
           s == [t EXCEPT !.pc = "events"]
           l == SetLocal(s, x, None)
<1>1. /\ t \in Scheduler /\ t.alive /\ SchedOK(t) /\ ArgOK(t) /\ t.epoll \subseteq Open(p)
      /\ t.cur # None /\ p \in work.procs /\ t.stack.val \in Local
  <2>1. t \in Scheduler
    BY ProcessFacts
  <2>2. QED
    BY <2>1, ProcessFacts, Fields DEF FilesOK
<1>2. x \in Co /\ Core(t, {x}) /\ (x # Server => t.waiting[c] = None)
  <2>1. x \in Co
    BY <1>1, Fields
  <2>2. Hand(t) = {x}
    BY <1>1 DEF Hand
  <2>3. QED
    BY <1>1, <2>1, <2>2 DEF SchedOK, RunOK
<1>3. x # Server /\ c \in Conn
  <2>1. RoleOK(t.co[x], x)
    BY <1>2 DEF Core, RolesOK
  <2>2. QED
    BY <2>1 DEF RoleOK
<1>4. Listen \in ToSet(t.events) => backlog # <<>>
  BY <1>1 DEF IInv, AcceptReady
<1>5. s \in Scheduler
  BY <1>1 DEF Scheduler
<1>6. SameLists(t, s) /\ s.alive = t.alive /\ s.pc = "events" /\ s.stack = t.stack
  BY <1>1 DEF SameLists, Scheduler
<1> HIDE DEF s
<1>7. Core(s, {x})
  BY <1>1, <1>2, <1>5, <1>6, CoreSame
<1>8. ArgOK(s) /\ s.co[Server].at = t.co[Server].at
  BY <1>1, <1>6 DEF ArgOK, SameLists
<1>9. InHand(p, x, c, s)
  BY <1>1, <1>2, <1>3, <1>4, <1>5, <1>6, <1>7, <1>8 DEF InHand, SameLists
<1>10. ASSUME NEW r, r = WaitWritable(p, x)
       PROVE  Fine(p, r)
  <2>1. r = nty_poll_inner(s, x, c, "sendw", Open(p))
    BY <1>10 DEF WaitWritable, s
  <2>2. QED
    BY <1>6, <1>9, <2>1, WaitsFine
<1>11. ASSUME NEW r, r = ReceiveAgain(p, x)
       PROVE  Fine(p, r)
  <2>1. r = nty_poll_inner(l, x, c, "recv", Open(p))
    BY <1>11 DEF ReceiveAgain, s
  <2>2. l \in Scheduler /\ Alike(s, l) /\ l.stack.owner = x
    BY <1>2, <1>5, SetLocalFacts, None \in Local DEF Local
  <2> HIDE DEF l
  <2>3. Core(l, {x})
    BY <1>5, <1>7, <2>2, CoreAlike
  <2>4. /\ l.waiting[c] = None /\ l.alive /\ l.pc = "events" /\ l.epoll \subseteq Open(p)
        /\ Listen \in ToSet(l.events) => backlog # <<>>
    BY <1>6, <1>9, <2>2 DEF InHand, Alike
  <2>5. ArgOK(l) /\ l.co[Server].at = t.co[Server].at
    BY <1>3, <1>8, <2>2, CoFacts DEF ArgOK, Alike
  <2>6. InHand(p, x, c, l)
    BY <1>2, <1>3, <2>2, <2>3, <2>4, <2>5 DEF InHand
  <2>7. QED
    BY <2>1, <2>4, <2>6, WaitsFine
<1>12. ASSUME HoldersOK(p), NEW w, w = [sched[p] EXCEPT !.pc = "events"]
       PROVE  Reads(p, c, x, w)
  <2>1. w = s
    BY <1>12 DEF s
  <2>2. Answers(t, x)
    BY DEF Answers
  <2>3. c \in Open(p)
    BY <1>2, <1>12, <2>2 DEF HoldersOK
  <2>4. conn[c].st = "open" /\ conn[c].owner = p
    BY <1>3, <2>3, ConstantAssumption DEF Open
  <2>5. c \notin s.epoll
    BY <1>7, <1>9 DEF InHand, Core, EventsOK
  <2>6. s.cur = x /\ s.co[x].fd = c /\ s.epoll \subseteq Open(p)
    BY <1>1, <1>6, <1>9 DEF InHand, SameLists, s, Scheduler
  <2>7. QED
    BY <1>6, <1>9, <2>1, <2>3, <2>4, <2>5, <2>6 DEF Reads
<1>13. QED
  BY <1>1, <1>2, <1>3, <1>10, <1>11, <1>12

(* SIGPIPE ends the process.                                                *)
LEMMA BrokenStep ==
  ASSUME IInv, NEW p \in Proc, Running(p), Broken(p), UNCHANGED <<work, mtx, totalfds, backlog>>
  PROVE  IInv'
<1> DEFINE r == [sched[p] EXCEPT !.alive = FALSE, !.cur = None]
<1>1. sched[p] \in Scheduler
  BY ProcessFacts
<1>2. r \in Scheduler
  BY <1>1 DEF Scheduler
<1>3. ~r.alive /\ r.cur = None /\ r.co = sched[p].co
  BY <1>1 DEF Scheduler
<1>4. Step(p, r) /\ conn' = Orphaned(p)
  BY DEF Broken
<1> HIDE DEF r
<1>5. QED
  BY <1>2, <1>3, <1>4, DeathStep

(* What becomes of a connection when its reader answers.                    *)
LEMMA AnswerConn ==
  ASSUME IInv, NEW c \in Conn, NEW val \in Local,
         \/ conn' = [conn EXCEPT ![c].replies = Append(@, val)]
         \/ conn' = [conn EXCEPT ![c].reset = "seen"]
         \/ conn' = conn
  PROVE  conn' \in [Conn -> Connection] /\ SameOwners
<1> DEFINE k == conn[c]
           q == Append(k.replies, val)
           m == [k EXCEPT !.replies = q]
           n == [k EXCEPT !.reset = "seen"]
<1>1. conn \in [Conn -> Connection] /\ k \in Connection
  BY DEF IInv, TypeOK
<1>2. k.replies \in Seq(Local)
  BY <1>1 DEF Connection
<1>3. q \in Seq(Local)
  BY <1>2
<1> HIDE DEF q
<1>4. m \in Connection /\ m.st = k.st /\ m.owner = k.owner
  BY <1>1, <1>3 DEF Connection
<1>5. n \in Connection /\ n.st = k.st /\ n.owner = k.owner
  BY <1>1 DEF Connection
<1>6. CASE conn' = [conn EXCEPT ![c].replies = Append(@, val)]
  <2>1. conn' = [conn EXCEPT ![c] = m]
    BY <1>6 DEF q
  <2> HIDE DEF m
  <2>2. QED
    BY <1>4, <2>1, ConnChange
<1>7. CASE conn' = [conn EXCEPT ![c].reset = "seen"]
  <2>1. conn' = [conn EXCEPT ![c] = n]
    BY <1>7
  <2> HIDE DEF n
  <2>2. QED
    BY <1>5, <2>1, ConnChange
<1>8. CASE conn' = conn
  BY <1>1, <1>8 DEF SameOwners
<1>9. QED
  BY <1>6, <1>7, <1>8

(* The reader sees the end, closes its connection and returns.              *)
LEMMA CloseStep ==
  ASSUME IInv, NEW p \in Proc, Running(p), NEW f, NEW x, NEW w, Reads(p, f, x, w),
         Step(p, _exec(w, x)), conn' = Closed(f), DEC_COUNTFD(p), UNCHANGED <<work, mtx, backlog>>
  PROVE  IInv'
<1> DEFINE r == _exec(w, x)
           n == [conn[f] EXCEPT !.st = "closed"]
           i == work.slot[p]
<1>0. /\ x \in Co \ {Server} /\ f \in Conn /\ w \in Scheduler /\ Core(w, {x}) /\ w.alive
      /\ ArgOK(w) /\ w.pc = "events" /\ conn[f].st = "open" /\ conn[f].owner = p
      /\ w.epoll \subseteq Open(p) \ {f} /\ (Listen \in ToSet(w.events) => backlog # <<>>)
      /\ w.co[Server].at = sched[p].co[Server].at
  BY DEF Reads, InHand
<1>1. /\ sched \in [Proc -> Scheduler] /\ totalfds \in [Slot -> Int] /\ mtx \in {0, 1}
      /\ backlog \in Seq(Conn) /\ conn \in [Conn -> Connection]
  BY DEF IInv, TypeOK
<1>2. Released(w, x, "free", r)
  BY <1>0, ExitKeeps
<1>3. Step(p, r)
  OBVIOUS
<1> HIDE DEF r
<1>4. /\ r \in Scheduler /\ Core(r, {}) /\ r.alive /\ r.pc = "events" /\ r.cur = None
      /\ r.epoll = w.epoll /\ r.events = w.events /\ r.stack = w.stack
      /\ r.co[x].at = "free" /\ \A y \in Co : y # x => r.co[y] = w.co[y]
  BY <1>0, <1>2 DEF Released
<1>5. SchedOK(r)
  BY <1>4, IdleOK
<1>6. ArgOK(r)
  BY <1>0, <1>4 DEF ArgOK
<1>7. sched'[p] = r /\ \A q \in Proc : q # p => sched'[q] = sched[q]
  BY <1>1, <1>3, ZenonT(30) DEF Step
<1>8. n \in Connection /\ n.st = "closed" /\ n.owner = p
  BY <1>0, <1>1 DEF Connection
<1>9. conn' = [conn EXCEPT ![f] = n]
  BY DEF Closed
<1> HIDE DEF n
<1>10. conn' \in [Conn -> Connection] /\ conn'[f] = n /\ \A c \in Conn : c # f => conn'[c] = conn[c]
  BY <1>0, <1>1, <1>8, <1>9
<1>11. Open(p)' = Open(p) \ {f} /\ \A q \in Proc : q # p => Open(q)' = Open(q)
  <2>1. f # Listen
    BY <1>0, ConstantAssumption
  <2>2. QED
    BY <1>0, <1>8, <1>10, <2>1 DEF Open
<1>12. totalfds' \in [Slot -> Int] /\ (Is("httpd") => totalfds'[i] = totalfds[i] - 1)
       /\ \A j \in Slot : j # i => totalfds'[j] = totalfds[j]
  BY <1>1, SlotFacts DEF DEC_COUNTFD, atomic_sub
<1>13. ASSUME NEW q \in Proc, sched'[q].alive
       PROVE  FilesOK(q)'
  <2>1. CASE q = p
    <3>1. sched'[q].epoll \subseteq Open(q)'
      BY <1>0, <1>4, <1>7, <1>11, <2>1
    <3>2. ASSUME Is("httpd"), OwnSlot(p) PROVE totalfds'[i] = Cardinality(Open(q)' \ {Listen})
      <4> DEFINE S == Open(p) \ {Listen}
      <4>1. totalfds[i] = Cardinality(S)
        BY <3>2, ProcessFacts DEF FilesOK
      <4>2. S \subseteq Conn /\ f \in S
        BY <1>0, ConstantAssumption DEF Open
      <4>3. Open(q)' \ {Listen} = S \ {f}
        BY <1>11, <2>1
      <4> HIDE DEF S
      <4>4. IsFiniteSet(S)
        BY <4>2, FS_Subset, ConstantAssumption
      <4>5. Cardinality(S \ {f}) = Cardinality(S) - 1
        BY <4>2, <4>4, FS_RemoveElement
      <4>6. QED
        BY <1>12, <2>1, <3>2, <4>1, <4>3, <4>5
    <3>3. QED
      BY <2>1, <3>1, <3>2 DEF FilesOK, Is, OwnSlot
  <2>2. CASE q # p
    <3>1. FilesOK(q)
      BY <1>7, <1>13, <2>2 DEF IInv
    <3>2. OwnSlot(q) => totalfds'[work.slot[q]] = totalfds[work.slot[q]]
      BY <1>12, <2>2, SlotFacts
    <3>3. QED
      BY <1>7, <1>11, <2>2, <3>1, <3>2 DEF FilesOK, Is, OwnSlot
  <2>3. QED
    BY <2>1, <2>2
<1>14. BacklogOK'
  <2>1. ToSet(backlog) \subseteq Conn
    BY <1>1 DEF ToSet
  <2>2. f \notin ToSet(backlog)
    BY <1>0 DEF IInv, BacklogOK
  <2>3. QED
    BY <1>10, <2>1, <2>2 DEF IInv, BacklogOK
<1>15. AcceptMutex'
  BY <1>0, <1>3, <1>4, CoFacts, MutexSame
<1>16. AcceptReady'
  BY <1>0, <1>3, <1>4, ReadySame
<1>17. work' = work /\ mtx' \in {0, 1} /\ backlog' \in Seq(Conn) /\ (r.cur # None) = (r.alive /\ r.pc = "run")
  BY <1>1, <1>4
<1>18. QED
  BY <1>3, <1>4, <1>5, <1>6, <1>10, <1>12, <1>13, <1>14, <1>15, <1>16, <1>17, Assemble

(* recv: an error, a request, or the end.                                   *)
LEMMA RecvStep ==
  ASSUME IInv, NEW p \in Proc, recv(p)
  PROVE  IInv'
<1> DEFINE x == nty_schedule_search_wait(p)
           c == Event(p)
           w == Resumed(p)
           Err == /\ IF Is("kvstore") THEN Step(p, nty_poll_inner(w, x, c, "recv", Open(p)))
                                      ELSE Step(p, Answering(w, x, None))
                  /\ conn' = [conn EXCEPT ![c].reset = "seen"]
                  /\ UNCHANGED totalfds
           Req == /\ conn[c].rx # <<>>
                  /\ Step(p, Answering(w, x, Head(conn[c].rx)))
                  /\ conn' = [conn EXCEPT ![c].rx = Tail(@)]
                  /\ UNCHANGED totalfds
           End == Step(p, _exec(w, x)) /\ conn' = Closed(c) /\ DEC_COUNTFD(p)
<1>1. IsEvent(p, "recv") /\ (Err \/ Req \/ End) /\ UNCHANGED <<work, mtx, backlog>>
  BY DEF recv
<1>2. Handles(p, c, x, w) /\ sched[p].co[x].at = "recv"
  BY <1>1, EventFacts
<1> HIDE DEF x, c, w
<1>3. Reads(p, c, x, w) /\ Running(p)
  BY <1>2, ReaderFacts
<1>4. InHand(p, x, c, w) /\ w.pc = "events" /\ c \in Conn
  BY <1>3 DEF Reads, InHand
<1>5. CASE Err
  <2>1. PICK r : Step(p, r) /\ (r = nty_poll_inner(w, x, c, "recv", Open(p)) \/ r = Answering(w, x, None))
    BY <1>5
  <2>2. None \in Local /\ "recv" \in {"recv", "sendw"}
    BY DEF Local
  <2>3. Fine(p, r)
    <3>1. CASE r = nty_poll_inner(w, x, c, "recv", Open(p))
      BY <1>3, <1>4, <2>2, <3>1, WaitsFine
    <3>2. CASE r = Answering(w, x, None)
      BY <1>3, <2>2, <3>2, AnsweringFine
    <3>3. QED
      BY <2>1, <3>1, <3>2
  <2>4. conn' \in [Conn -> Connection] /\ SameOwners
    BY <1>4, <1>5, <2>2, AnswerConn
  <2>5. QED
    BY <1>1, <1>3, <1>5, <2>1, <2>3, <2>4, FineStep
<1>6. CASE Req
  <2> DEFINE r == Answering(w, x, Head(conn[c].rx))
             q == conn[c].rx
             t == Tail(q)
             n == [conn[c] EXCEPT !.rx = t]
  <2>1. conn[c] \in Connection
    BY <1>4 DEF IInv, TypeOK
  <2>2. q \in Seq(Message) /\ q # <<>>
    BY <1>6, <2>1 DEF Connection
  <2>3. t \in Seq(Message) /\ Head(q) \in Local
    BY <2>2 DEF Local
  <2>4. Fine(p, r)
    <3> HIDE DEF q
    <3>1. r = Answering(w, x, Head(q))
      BY DEF q
    <3> HIDE DEF r
    <3>2. QED
      BY <1>3, <2>3, <3>1, AnsweringFine
  <2>5. conn' = [conn EXCEPT ![c] = n]
    BY <1>6
  <2> HIDE DEF t
  <2>6. n \in Connection /\ n.st = conn[c].st /\ n.owner = conn[c].owner
    BY <2>1, <2>3 DEF Connection
  <2> HIDE DEF n
  <2>7. conn' \in [Conn -> Connection] /\ SameOwners
    BY <1>4, <2>5, <2>6, ConnChange
  <2>8. Step(p, r)
    BY <1>6
  <2> HIDE DEF r
  <2>9. QED
    BY <1>1, <1>3, <1>6, <2>4, <2>7, <2>8, FineStep
<1>7. CASE End
  BY <1>1, <1>3, <1>7, CloseStep
<1>8. QED
  BY <1>1, <1>5, <1>6, <1>7

(* send and send_rest: the reader receives again, waits, closes, or dies.   *)
LEMMA SendStep ==
  ASSUME IInv, NEW p \in Proc, sched[p].alive => HoldersOK(p), send(p) \/ send_rest(p)
  PROVE  IInv'
<1> DEFINE x == sched[p].cur
           c == sched[p].co[x].fd
           v == sched[p].stack.val
           w == [sched[p] EXCEPT !.pc = "events"]
           Close == Is("kvstore") /\ Step(p, _exec(w, x)) /\ conn' = Closed(c)
<1>1. /\ Running(p) /\ sched[p].pc = "run" /\ sched[p].co[x].at \in {"send", "send2"}
      /\ UNCHANGED <<work, mtx, totalfds, backlog>>
  BY DEF send, send_rest
<1>2. \/ Broken(p)
      \/ Close
      \/ /\ Step(p, ReceiveAgain(p, x)) \/ Step(p, WaitWritable(p, x))
         /\ \/ conn' = [conn EXCEPT ![c].replies = Append(@, v)]
            \/ conn' = [conn EXCEPT ![c].reset = "seen"]
            \/ conn' = conn
  <2>1. CASE send(p)
    BY <2>1 DEF send, Replied
  <2>2. CASE send_rest(p)
    BY <2>2 DEF send_rest, Replied, Failed
  <2>3. QED
    BY <2>1, <2>2
<1>3. /\ c \in Conn /\ v \in Local
      /\ \A r : r = ReceiveAgain(p, x) \/ r = WaitWritable(p, x) => Fine(p, r)
      /\ Reads(p, c, x, w)
  BY <1>1, RunFacts DEF Running
<1> HIDE DEF x, c, v, w
<1>4. CASE Broken(p)
  BY <1>1, <1>4, BrokenStep
<1>7. CASE Close
  <2>1. DEC_COUNTFD(p)
    BY <1>1, <1>7 DEF DEC_COUNTFD, Is
  <2>2. QED
    BY <1>1, <1>3, <1>7, <2>1, CloseStep
<1>5. CASE ~Broken(p) /\ ~Close
  <2>1. PICK r : Step(p, r) /\ (r = ReceiveAgain(p, x) \/ r = WaitWritable(p, x))
    BY <1>2, <1>5
  <2>2. Fine(p, r)
    BY <1>3, <2>1
  <2>3. conn' \in [Conn -> Connection] /\ SameOwners
    BY <1>2, <1>3, <1>5, AnswerConn
  <2>4. QED
    BY <1>1, <2>1, <2>2, <2>3, FineStep
<1>6. QED
  BY <1>4, <1>5, <1>7

------------------------------------------------------------------------------
(* Process p takes the first connection of the backlog.                     *)
Admits(p, h) ==
  /\ h \in Conn /\ h \notin Open(p)
  /\ conn' \in [Conn -> Connection] /\ backlog' \in Seq(Conn) /\ BacklogOK'
  /\ Open(p)' = Open(p) \cup {h} /\ \A q \in Proc : q # p => Open(q)' = Open(q)

(* accept opens the connection in the process that called it.               *)
LEMMA AdmitFacts ==
  ASSUME IInv, NEW p \in Proc, backlog # <<>>, conn' = Accepted(p), backlog' = Tail(backlog),
         NEW h, h = Head(backlog)
  PROVE  Admits(p, h)
<1> DEFINE n == [conn[h] EXCEPT !.st = "open", !.owner = p]
<1>1. backlog \in Seq(Conn) /\ conn \in [Conn -> Connection] /\ IsInjective(backlog)
  BY DEF IInv, TypeOK, BacklogOK
<1>2. /\ Tail(backlog) \in Seq(Conn) /\ h \in Conn
      /\ ToSet(backlog) = {h} \cup ToSet(Tail(backlog))
      /\ IsInjective(Tail(backlog)) /\ h \notin ToSet(Tail(backlog))
  BY <1>1, TailFacts
<1>3. conn[h].st = "backlog" /\ \A c \in ToSet(Tail(backlog)) : conn[c].st = "backlog"
  BY <1>2 DEF IInv, BacklogOK
<1>4. h # Listen
  BY <1>2, ConstantAssumption
<1>5. n \in Connection /\ n.st = "open" /\ n.owner = p
  BY <1>1, <1>2 DEF Connection
<1>6. conn' = [conn EXCEPT ![h] = n]
  BY <1>1, <1>2 DEF Accepted
<1> HIDE DEF n
<1>7. conn' \in [Conn -> Connection] /\ conn'[h] = n /\ \A c \in Conn : c # h => conn'[c] = conn[c]
  BY <1>1, <1>2, <1>5, <1>6
<1>8. h \notin Open(p)
  BY <1>3, <1>4 DEF Open
<1>9. Open(p)' = Open(p) \cup {h}
  BY <1>2, <1>5, <1>7 DEF Open
<1>10. ASSUME NEW q \in Proc, q # p PROVE Open(q)' = Open(q)
  BY <1>2, <1>3, <1>5, <1>7, <1>10 DEF Open
<1>11. BacklogOK'
  <2>1. ToSet(Tail(backlog)) \subseteq Conn
    BY <1>2 DEF ToSet
  <2>2. \A c \in ToSet(Tail(backlog)) : conn'[c].st = "backlog"
    BY <1>2, <1>3, <1>7, <2>1
  <2>3. QED
    BY <1>2, <2>2 DEF BacklogOK
<1>12. QED
  BY <1>2, <1>7, <1>8, <1>9, <1>10, <1>11 DEF Admits

(* A server woken in accept.                                                *)
Accepts(p, w) ==
  /\ Running(p) /\ w \in Scheduler /\ Core(w, {Server}) /\ w.alive /\ w.pc = "events"
  /\ w.cur = Server /\ w.ready = <<>> /\ w.epoll \subseteq Open(p)
  /\ Listen \notin ToSet(w.events) /\ backlog # <<>> /\ w.co[Server].at = "accept"
  /\ \A y \in Co : w.co[y].at = sched[p].co[y].at /\ w.co[y].arg = sched[p].co[y].arg

(* The event a server finds is one of the listening socket, and a           *)
(* connection is there.                                                     *)
LEMMA AcceptFacts ==
  ASSUME IInv, NEW p \in Proc, IsEvent(p, "accept"), NEW w, w = Resumed(p)
  PROVE  Accepts(p, w)
<1> DEFINE x == nty_schedule_search_wait(p)
           f == Event(p)
           s == sched[p]
<1>1. Handles(p, f, x, w) /\ s.co[x].at = "accept"
  BY EventFacts
<1> HIDE DEF x, f
<1>2. Wakes(s, f, x, w) /\ Running(p) /\ w.alive /\ w.pc = "events" /\ w.epoll \subseteq Open(p)
      /\ (x = Server => backlog # <<>>)
  BY <1>1 DEF Handles
<1>3. /\ x \in Co /\ w \in Scheduler /\ Core(w, {x}) /\ w.cur = x
      /\ (x = Server) = (f = Listen) /\ (x = Server => w.ready = <<>>)
      /\ \A y \in Co : w.co[y].at = s.co[y].at /\ w.co[y].fd = s.co[y].fd /\ w.co[y].arg = s.co[y].arg
  BY <1>2 DEF Wakes
<1>4. x = Server
  <2>1. RoleOK(w.co[x], x) /\ w.co[x].at = "accept"
    BY <1>1, <1>3 DEF Core, RolesOK
  <2>2. QED
    BY <2>1 DEF RoleOK
<1>5. Listen \notin ToSet(w.events)
  BY <1>3, <1>4, ListenFree
<1>6. QED
  BY <1>1, <1>2, <1>3, <1>4, <1>5 DEF Accepts

(* A server that has made a reader.                                         *)
Makes(p, m) ==
  /\ m \in Scheduler /\ Core(m, {Server}) /\ m.alive /\ m.pc = "events" /\ m.cur = Server
  /\ m.epoll \subseteq Open(p) /\ Listen \notin ToSet(m.events) /\ ArgOK(m)

(* The server makes a reader of what accept returned.                       *)
LEMMA MakeFacts ==
  ASSUME IInv, NEW p \in Proc, NEW w, Accepts(p, w), NEW v \in Conn \cup {NoFd},
         NEW arg \in Conn \cup {None}, Is("httpd") => arg \in Conn,
         NEW m, m = nty_coroutine_create(SetLocal(w, Server, v), arg)
  PROVE  Makes(p, m)
<1> DEFINE s == SetLocal(w, Server, v)
<1>1. /\ Running(p) /\ w \in Scheduler /\ Core(w, {Server}) /\ w.alive /\ w.pc = "events"
      /\ w.cur = Server /\ w.ready = <<>> /\ w.epoll \subseteq Open(p)
      /\ Listen \notin ToSet(w.events) /\ w.co[Server].at = "accept"
      /\ \A y \in Co : w.co[y].at = sched[p].co[y].at /\ w.co[y].arg = sched[p].co[y].arg
  BY DEF Accepts
<1>2. /\ s \in Scheduler /\ Alike(w, s) /\ s.cur = w.cur
      /\ s.stack.owner = Server /\ s.stack.val = v
  BY <1>1, SetLocalFacts, CoFacts, v \in Local DEF Local
<1>3. m = nty_coroutine_create(s, arg)
  OBVIOUS
<1> HIDE DEF s
<1>4. Core(s, {Server})
  BY <1>1, <1>2, CoreAlike
<1>5. /\ s.ready = <<>> /\ s.co[Server].at # "new" /\ s.alive /\ s.pc = "events"
      /\ s.epoll = w.epoll /\ s.events = w.events
      /\ \A y \in Co : s.co[y].at = w.co[y].at /\ s.co[y].arg = w.co[y].arg
  BY <1>1, <1>2, CoFacts DEF Alike
<1>6. PICK z \in Co : Created(s, z, arg, m)
  BY <1>2, <1>3, <1>4, <1>5, CreateKeeps
<1>7. /\ m \in Scheduler /\ Core(m, {Server}) /\ m.alive /\ m.pc = "events" /\ m.cur = Server
      /\ m.epoll = w.epoll /\ m.events = w.events /\ m.stack = s.stack
      /\ m.co[z].at = "new" /\ m.co[z].arg = arg /\ \A y \in Co : y # z => m.co[y] = s.co[y]
  BY <1>1, <1>2, <1>5, <1>6 DEF Created
<1>8. ArgOK(m)
  <2>1. ArgOK(sched[p])
    BY <1>1, ProcessFacts
  <2> SUFFICES ASSUME NEW y \in Co \ {Server}, m.co[y].at = "new"
               PROVE  /\ Is("httpd") => m.co[y].arg \in Conn
                      /\ Is("kvstore") /\ m.stack.owner = Server => m.stack.val \in Conn \cup {NoFd}
    BY DEF ArgOK
  <2>2. m.stack.val \in Conn \cup {NoFd}
    BY <1>2, <1>7
  <2>3. Is("httpd") => m.co[y].arg \in Conn
    <3>1. CASE y = z
      BY <1>7, <3>1
    <3>2. CASE y # z
      BY <1>1, <1>5, <1>7, <2>1, <3>2 DEF ArgOK
    <3>3. QED
      BY <3>1, <3>2
  <2>4. QED
    BY <2>2, <2>3
<1>9. QED
  BY <1>1, <1>7, <1>8 DEF Makes

(* The kvstore's server makes a reader and waits again.                     *)
LEMMA ServerKvstoreStep ==
  ASSUME IInv, NEW p \in Proc, server_kvstore(p)
  PROVE  IInv'
<1> DEFINE w == Resumed(p)
           v == IF Exhausted(p) THEN NoFd ELSE Head(backlog)
           m == nty_coroutine_create(SetLocal(w, Server, v), None)
           r == nty_poll_inner(m, Server, Listen, "accept", Open(p))
<1>1. /\ Is("kvstore") /\ IsEvent(p, "accept") /\ Step(p, r) /\ UNCHANGED <<work, mtx, totalfds>>
      /\ conn' = IF Exhausted(p) THEN conn ELSE Accepted(p)
      /\ backlog' = IF Exhausted(p) THEN backlog ELSE Tail(backlog)
  BY DEF server_kvstore
<1>2. Accepts(p, w)
  BY <1>1, AcceptFacts
<1>3. backlog # <<>> /\ Running(p) /\ ~Is("httpd")
  BY <1>1, <1>2 DEF Accepts, Is
<1>4. /\ sched \in [Proc -> Scheduler] /\ totalfds \in [Slot -> Int] /\ mtx \in {0, 1}
      /\ backlog \in Seq(Conn) /\ conn \in [Conn -> Connection] /\ work \in Workload
  BY DEF IInv, TypeOK
<1>5. v \in Conn \cup {NoFd}
  BY <1>3, <1>4, TailFacts
<1> HIDE DEF w, v
<1>6. Makes(p, m)
  BY <1>2, <1>3, <1>5, MakeFacts
<1> HIDE DEF m
<1>7. /\ m \in Scheduler /\ Core(m, {Server}) /\ m.alive /\ m.pc = "events"
      /\ m.epoll \subseteq Open(p) /\ Listen \notin ToSet(m.events) /\ ArgOK(m)
  BY <1>6 DEF Makes
<1>8. Listen \in Fd /\ "accept" \in Blocked /\ Open(p) \in SUBSET File /\ Listen \in Open(p)
  BY <1>3, ProcessFacts DEF Fd, File, Blocked
<1>9. Waits(m, Server, Listen, "accept", Open(p), r)
  BY <1>7, <1>8, CoFacts, ListenFree, PollKeeps
<1> HIDE DEF r
<1>10. /\ r \in Scheduler /\ Core(r, {}) /\ r.cur = None /\ r.alive /\ r.pc = "events"
       /\ r.events = m.events /\ r.epoll \subseteq Open(p) /\ r.stack = m.stack
       /\ \A y \in Co : y # Server => r.co[y] = m.co[y]
  BY <1>7, <1>8, <1>9 DEF Waits
<1>11. SchedOK(r)
  BY <1>10, IdleOK
<1>12. ArgOK(r)
  BY <1>7, <1>10 DEF ArgOK
<1>13. CASE Exhausted(p)
  <2>1. UNCHANGED <<work, mtx, totalfds, backlog>> /\ conn' \in [Conn -> Connection] /\ SameOwners
    BY <1>1, <1>4, <1>13 DEF SameOwners
  <2>2. QED
    BY <1>1, <1>3, <1>7, <1>10, <1>11, <1>12, <2>1, QuietStep
<1>14. CASE ~Exhausted(p)
  <2> DEFINE h == Head(backlog)
  <2>1. conn' = Accepted(p) /\ backlog' = Tail(backlog)
    BY <1>1, <1>14
  <2>2. Admits(p, h)
    BY <1>3, <2>1, AdmitFacts
  <2> HIDE DEF h
  <2>3. /\ conn' \in [Conn -> Connection] /\ backlog' \in Seq(Conn) /\ BacklogOK'
        /\ Open(p)' = Open(p) \cup {h} /\ \A q \in Proc : q # p => Open(q)' = Open(q)
    BY <2>2 DEF Admits
  <2>4. sched'[p] = r /\ \A q \in Proc : q # p => sched'[q] = sched[q]
    BY <1>1, <1>4 DEF Step
  <2>5. ASSUME NEW q \in Proc, sched'[q].alive PROVE FilesOK(q)'
    <3>1. sched'[q].epoll \subseteq Open(q)'
      <4>1. CASE q = p
        BY <1>10, <2>3, <2>4, <4>1
      <4>2. CASE q # p
        <5>1. FilesOK(q) /\ sched'[q] = sched[q]
          BY <2>4, <2>5, <4>2 DEF IInv
        <5>2. QED
          BY <2>3, <4>2, <5>1 DEF FilesOK
      <4>3. QED
        BY <4>1, <4>2
    <3>2. QED
      BY <1>1, <1>3, <3>1 DEF FilesOK, Is
  <2>6. AcceptMutex'
    BY <1>1, <1>3 DEF AcceptMutex, Is
  <2>7. AcceptReady'
    <3>1. \A q \in work.procs : q = p
      <4>1. IsFiniteSet(work.procs) /\ Cardinality(work.procs) = 1
        BY <1>1, <1>4, ConstantAssumption DEF Is
      <4>2. p \in work.procs
        BY <1>3 DEF Running
      <4>3. PICK e : work.procs = {e}
        BY <4>1, FS_Singleton
      <4>4. QED
        BY <4>2, <4>3
    <3>2. QED
      BY <1>1, <1>7, <1>10, <2>4, <3>1 DEF AcceptReady
  <2>8. work' = work /\ mtx' \in {0, 1} /\ totalfds' \in [Slot -> Int]
        /\ (r.cur # None) = (r.alive /\ r.pc = "run")
    BY <1>1, <1>4, <1>10
  <2>9. QED
    BY <1>1, <1>10, <1>11, <1>12, <2>3, <2>5, <2>6, <2>7, <2>8, Assemble
<1>15. QED
  BY <1>13, <1>14

(* A worker that gives the accept lock back: nobody is in accept then.      *)
LEMMA UnlockFacts ==
  ASSUME IInv, NEW p \in Proc, Is("httpd"), p \in work.procs, InAccept(p),
         NEW r \in Scheduler, Step(p, r), r.co[Server].at # "accept", Listen \notin ToSet(r.events),
         unlock, work' = work
  PROVE  AcceptMutex' /\ AcceptReady'
<1>1. sched \in [Proc -> Scheduler] /\ work.procs \subseteq Proc /\ AcceptMutex
  BY ConstantAssumption DEF IInv, TypeOK
<1>2. sched'[p] = r /\ \A q \in Proc : q # p => sched'[q] = sched[q]
  BY <1>1 DEF Step
<1>3. \A q \in work.procs : InAccept(q) => q = p
  BY <1>1 DEF AcceptMutex
<1>4. \A q \in work.procs : ~InAccept(q)'
  BY <1>1, <1>2, <1>3 DEF InAccept
<1>5. AcceptMutex'
  <2>1. (mtx' = 1) = FALSE
    BY DEF unlock
  <2>2. (\E q \in work.procs : InAccept(q))' = FALSE
    BY <1>4
  <2>3. (\A q, u \in work.procs : InAccept(q) /\ InAccept(u) => q = u)'
    BY <1>4
  <2>4. QED
    BY <2>1, <2>2, <2>3 DEF AcceptMutex
<1>6. ASSUME NEW q \in work.procs, sched'[q].alive, Listen \in ToSet(sched'[q].events)
      PROVE  FALSE
  <2>1. q # p /\ q \in Proc /\ sched'[q] = sched[q]
    BY <1>1, <1>2, <1>6
  <2> DEFINE s == sched[q]
  <2>2. s \in Scheduler /\ SchedOK(s) /\ s.alive /\ Listen \in ToSet(s.events)
    BY <1>1, <1>6, <2>1 DEF IInv
  <2> HIDE DEF s
  <2>3. s.waiting \in [Fd -> Co \cup {None}] /\ Listen \in Fd
    BY <2>2, Fields DEF Fd, File
  <2>4. s.waiting[Listen] # None
    BY <2>2 DEF SchedOK, Core, EventsOK
  <2>5. PICK x \in Co : s.co[x].at \in Blocked /\ s.co[x].fd = Listen
    BY <2>2, <2>3, <2>4 DEF SchedOK, Core, TreeOK
  <2>6. RoleOK(s.co[x], x)
    BY <2>2 DEF SchedOK, Core, RolesOK
  <2>7. x = Server /\ s.co[x].at = "accept"
    BY <2>5, <2>6 DEF RoleOK, Blocked
  <2>8. InAccept(q)
    BY <2>7 DEF InAccept, s
  <2>9. QED
    BY <1>3, <2>1, <2>8
<1>7. AcceptReady'
  BY <1>6 DEF AcceptReady
<1>8. QED
  BY <1>5, <1>7

(* The HTTP worker's server unlocks, then makes a reader or returns.        *)
LEMMA ServerHttpdStep ==
  ASSUME IInv, NEW p \in Proc, server_httpd(p)
  PROVE  IInv'
<1> DEFINE w == Resumed(p)
           h == Head(backlog)
           e == _exec(w, Server)
           m == nty_coroutine_create(SetLocal(w, Server, h), h)
           g == [m EXCEPT !.pc = "run", !.co[Server].at = "lock"]
           i == work.slot[p]
<1>1. /\ Is("httpd") /\ IsEvent(p, "accept") /\ unlock /\ work' = work
      /\ IF Exhausted(p)
         THEN Step(p, e) /\ UNCHANGED <<conn, backlog, totalfds>>
         ELSE /\ Step(p, g) /\ conn' = Accepted(p) /\ backlog' = Tail(backlog)
              /\ INC_COUNTFD(p)
  BY DEF server_httpd
<1>2. Accepts(p, w)
  BY <1>1, AcceptFacts
<1> HIDE DEF w
<1>3. /\ Running(p) /\ w \in Scheduler /\ Core(w, {Server}) /\ w.alive /\ w.pc = "events"
      /\ w.epoll \subseteq Open(p) /\ Listen \notin ToSet(w.events) /\ backlog # <<>>
      /\ \A y \in Co : w.co[y].at = sched[p].co[y].at /\ w.co[y].arg = sched[p].co[y].arg
  BY <1>2 DEF Accepts
<1>4. /\ sched \in [Proc -> Scheduler] /\ totalfds \in [Slot -> Int]
      /\ backlog \in Seq(Conn) /\ conn \in [Conn -> Connection] /\ mtx' \in {0, 1}
  BY <1>1 DEF IInv, TypeOK, unlock
<1>5. p \in work.procs /\ InAccept(p) /\ FilesOK(p) /\ ArgOK(sched[p])
  BY <1>2, <1>3, CoFacts, ProcessFacts DEF Accepts, InAccept
<1>6. CASE Exhausted(p)
  <2>1. Released(w, Server, "free", e)
    BY <1>3, CoFacts, ExitKeeps
  <2>2. Step(p, e) /\ UNCHANGED <<conn, backlog, totalfds>>
    BY <1>1, <1>6
  <2> HIDE DEF e
  <2>3. /\ e \in Scheduler /\ Core(e, {}) /\ e.alive /\ e.pc = "events" /\ e.cur = None
        /\ e.epoll = w.epoll /\ e.events = w.events
        /\ e.co[Server].at = "free" /\ \A y \in Co : y # Server => e.co[y] = w.co[y]
    BY <1>3, <2>1 DEF Released
  <2>4. SchedOK(e)
    BY <2>3, IdleOK
  <2>5. ArgOK(e)
    BY <1>1, <1>3, <1>5, <2>3 DEF ArgOK, Is
  <2>6. e.co[Server].at # "accept" /\ Listen \notin ToSet(e.events)
    BY <1>3, <2>3
  <2>7. AcceptMutex' /\ AcceptReady'
    BY <1>1, <1>5, <2>2, <2>3, <2>6, UnlockFacts
  <2>8. SameOwners /\ conn' \in [Conn -> Connection]
    BY <1>4, <2>2 DEF SameOwners
  <2>9. sched'[p] = e /\ \A q \in Proc : q # p => sched'[q] = sched[q]
    BY <1>4, <2>2 DEF Step
  <2>10. ASSUME NEW q \in Proc, sched'[q].alive PROVE FilesOK(q)'
    <3>1. Open(q)' = Open(q) /\ totalfds' = totalfds /\ work' = work
      BY <1>1, <2>2, <2>8, OwnersSame
    <3>2. sched[q].alive
      BY <1>3, <2>9, <2>10 DEF Running
    <3>3. FilesOK(q)
      BY <3>2 DEF IInv
    <3>4. sched'[q].epoll \subseteq Open(q)
      BY <1>3, <2>3, <2>9, <3>3 DEF FilesOK
    <3>5. QED
      BY <3>1, <3>3, <3>4 DEF FilesOK, Is, OwnSlot
  <2>11. BacklogOK'
    BY <2>2, <2>8, BacklogSame
  <2>12. /\ totalfds' \in [Slot -> Int] /\ backlog' \in Seq(Conn)
         /\ (e.cur # None) = (e.alive /\ e.pc = "run")
    BY <1>4, <2>2, <2>3
  <2>13. QED
    BY <1>1, <1>4, <2>2, <2>3, <2>4, <2>5, <2>7, <2>8, <2>10, <2>11, <2>12, Assemble
<1>7. CASE ~Exhausted(p)
  <2>1. Step(p, g) /\ conn' = Accepted(p) /\ backlog' = Tail(backlog) /\ INC_COUNTFD(p)
    BY <1>1, <1>7
  <2>2. Admits(p, h)
    BY <1>3, <2>1, AdmitFacts
  <2> HIDE DEF h
  <2>3. /\ h \in Conn /\ h \notin Open(p)
        /\ conn' \in [Conn -> Connection] /\ backlog' \in Seq(Conn) /\ BacklogOK'
        /\ Open(p)' = Open(p) \cup {h} /\ \A q \in Proc : q # p => Open(q)' = Open(q)
    BY <2>2 DEF Admits
  <2>4. Makes(p, m)
    BY <1>2, <2>3, MakeFacts
  <2> HIDE DEF m
  <2>5. /\ m \in Scheduler /\ Core(m, {Server}) /\ m.alive /\ m.cur = Server
        /\ m.epoll \subseteq Open(p) /\ Listen \notin ToSet(m.events) /\ ArgOK(m)
    BY <2>4 DEF Makes
  <2>6. "lock" \in Active /\ Server \in Co /\ (Server = Server) = ("lock" = "lock")
    BY CoFacts DEF Active
  <2>7. GoesOn(m, Server, "lock", g)
    BY <2>5, <2>6, GoesOnKeeps
  <2> HIDE DEF g
  <2>8. /\ g \in Scheduler /\ Core(g, {Server}) /\ g.alive /\ g.pc = "run" /\ g.cur = Server
        /\ g.epoll \subseteq Open(p) /\ g.events = m.events /\ g.stack = m.stack
        /\ g.co[Server].at = "lock" /\ \A y \in Co : y # Server => g.co[y] = m.co[y]
    BY <2>5, <2>7 DEF GoesOn
  <2>9. SchedOK(g)
    BY <2>6, <2>8, BusyOK
  <2>10. ArgOK(g)
    BY <2>5, <2>8 DEF ArgOK
  <2>11. AcceptMutex' /\ AcceptReady'
    BY <1>1, <1>5, <2>1, <2>5, <2>8, UnlockFacts
  <2>12. sched'[p] = g /\ \A q \in Proc : q # p => sched'[q] = sched[q]
    BY <1>4, <2>1 DEF Step
  <2>13. /\ totalfds' \in [Slot -> Int] /\ totalfds'[i] = totalfds[i] + 1
         /\ \A j \in Slot : j # i => totalfds'[j] = totalfds[j]
    BY <1>3, <1>4, <2>1, SlotFacts DEF INC_COUNTFD, atomic_add
  <2>14. ASSUME NEW q \in Proc, sched'[q].alive PROVE FilesOK(q)'
    <3>1. CASE q = p
      <4> DEFINE S == Open(p) \ {Listen}
      <4>1. OwnSlot(p) => totalfds[i] = Cardinality(S)
        BY <1>1, <1>5 DEF FilesOK
      <4>2. S \subseteq Conn /\ h \notin S
        BY <2>3 DEF Open
      <4>3. Open(q)' \ {Listen} = S \cup {h}
        BY <2>3, <3>1, ConstantAssumption
      <4> HIDE DEF S
      <4>4. IsFiniteSet(S)
        BY <4>2, FS_Subset, ConstantAssumption
      <4>5. Cardinality(S \cup {h}) = Cardinality(S) + 1
        BY <4>2, <4>4, FS_AddElement
      <4>6. OwnSlot(p) => totalfds'[i] = Cardinality(Open(q)' \ {Listen})
        BY <2>13, <3>1, <4>1, <4>3, <4>5
      <4>7. sched'[q].epoll \subseteq Open(q)'
        BY <2>3, <2>8, <2>12, <3>1
      <4>8. QED
        BY <1>1, <3>1, <4>6, <4>7 DEF FilesOK, OwnSlot
    <3>2. CASE q # p
      <4>1. FilesOK(q)
        BY <2>12, <2>14, <3>2 DEF IInv
      <4>2. OwnSlot(q) => totalfds'[work.slot[q]] = totalfds[work.slot[q]]
        BY <1>3, <2>13, <3>2, SlotFacts
      <4>3. QED
        BY <1>1, <2>3, <2>12, <3>2, <4>1, <4>2 DEF FilesOK, Is, OwnSlot
    <3>3. QED
      BY <3>1, <3>2
  <2>15. (g.cur # None) = (g.alive /\ g.pc = "run")
    BY <2>6, <2>8, CoFacts
  <2>16. QED
    BY <1>1, <1>4, <2>1, <2>3, <2>8, <2>9, <2>10, <2>11, <2>13, <2>14, <2>15, Assemble
<1>8. QED
  BY <1>6, <1>7

------------------------------------------------------------------------------
(* A process starts with its server, new and ready.                         *)
LEMMA BindFacts ==
  ASSUME NEW r, r = process_bind
  PROVE  /\ r \in Scheduler /\ SchedOK(r) /\ ArgOK(r) /\ r.cur = None /\ r.pc = "ready"
         /\ r.epoll = {} /\ r.events = <<>> /\ r.co[Server].at = "new"
<1> DEFINE o == <<>>
           b == RB_EMPTY
           k == [owner |-> None, val |-> None]
           z == [x \in Co |-> Free]
           n == [Free EXCEPT !.at = "new"]
           g == [z EXCEPT ![Server] = n]
           q == <<Server>>
<1>1. o \in Seq(File) /\ o \in Seq(Co) /\ q \in Seq(Co) /\ ToSet(q) = {Server} /\ ToSet(o) = {}
      /\ IsInjective(q) /\ IsInjective(o)
  BY CoFacts DEF ToSet, IsInjective
<1>2. Free \in Coroutine /\ Free.at = "free" /\ n \in Coroutine /\ n.at = "new"
  BY DEF Free, Coroutine, At, Fd, Local
<1>3. /\ b \in [Fd -> Co \cup {None}] /\ \A f \in Fd : b[f] = None
  BY DEF RB_EMPTY
<1>4. k \in [owner : Co \cup {None}, val : Local] /\ z \in [Co -> Coroutine]
  BY <1>2 DEF Local
<1> HIDE DEF n
<1>5. g \in [Co -> Coroutine] /\ g[Server] = n /\ \A x \in Co : x # Server => g[x] = Free
  BY <1>2, <1>4, CoFacts
<1>6. r = [[alive |-> TRUE, pc |-> "ready", ready |-> o, last |-> None, waiting |-> b,
            epoll |-> {}, events |-> o, cur |-> None, co |-> z, stack |-> k,
            spawned_coroutines |-> 0]
             EXCEPT !.co = g, !.ready = q, !.last = Server, !.spawned_coroutines = 1]
  BY DEF process_bind, nty_schedule_create, n
<1> HIDE DEF o, b, k, z, g, q
<1>7. r = [alive |-> TRUE, pc |-> "ready", ready |-> q, last |-> Server, waiting |-> b,
           epoll |-> {}, events |-> o, cur |-> None, co |-> g, stack |-> k,
           spawned_coroutines |-> 1]
  BY <1>6
<1>8. r \in Scheduler
  BY <1>1, <1>3, <1>4, <1>5, <1>7, CoFacts DEF Scheduler
<1>9. /\ r.ready = q /\ r.waiting = b /\ r.epoll = {} /\ r.events = o /\ r.cur = None
      /\ r.co = g /\ r.spawned_coroutines = 1 /\ r.pc = "ready"
  BY <1>7
<1>10. r.co[Server].at = "new" /\ \A x \in Co : x # Server => r.co[x].at = "free"
  BY <1>2, <1>5, <1>9
<1>11. Live(r) = {Server} /\ Server \in Co
  BY <1>10, CoFacts DEF Live
<1>12. ReadyOK(r, {})
  BY <1>1, <1>9, <1>10 DEF ReadyOK, Queued
<1>13. TreeOK(r, {}) /\ HandOK(r, {})
  BY <1>3, <1>9, <1>10 DEF TreeOK, HandOK, Blocked, Active
<1>14. RolesOK(r) /\ StartOK(r)
  BY <1>10 DEF RolesOK, RoleOK, StartOK
<1>15. EventsOK(r)
  BY <1>1, <1>9 DEF EventsOK
<1>16. CountOK(r)
  <2>1. Cardinality({Server}) = 1
    BY FS_Singleton
  <2>2. QED
    BY <1>9, <1>11, <2>1 DEF CountOK
<1>17. Core(r, {})
  BY <1>12, <1>13, <1>14, <1>15, <1>16 DEF Core
<1>18. r.events = <<>>
  BY <1>9 DEF o
<1>19. SchedOK(r)
  BY <1>8, <1>9, <1>17, <1>18, IdleOK
<1>20. ArgOK(r)
  BY <1>10 DEF ArgOK
<1>21. QED
  BY <1>8, <1>9, <1>10, <1>18, <1>19, <1>20

(* The initial states.                                                      *)
LEMMA InitHolds ==
  ASSUME Init
  PROVE  IInv
<1> DEFINE o == <<>>
           k == [st |-> "idle", owner |-> None, rx |-> o, eof |-> FALSE,
                 reset |-> "no", n |-> 0, replies |-> o]
<1>1. /\ work \in Workload /\ mtx = 0 /\ totalfds = [i \in Slot |-> 0]
      /\ sched = [p \in Proc |-> process_bind] /\ conn = [c \in Conn |-> k] /\ backlog = o
  BY DEF Init, init_shmvalue, Slot
<1>2. o \in Seq(Message) /\ o \in Seq(Local) /\ o \in Seq(Conn) /\ IsInjective(o) /\ ToSet(o) = {}
  BY DEF IsInjective, ToSet
<1> HIDE DEF o
<1>3. k \in Connection /\ k.st = "idle"
  BY <1>2 DEF Connection
<1> HIDE DEF k
<1>4. ASSUME NEW p \in Proc
      PROVE  /\ sched[p] \in Scheduler /\ SchedOK(sched[p]) /\ ArgOK(sched[p])
             /\ sched[p].cur = None /\ sched[p].pc = "ready" /\ sched[p].epoll = {}
             /\ sched[p].events = <<>> /\ sched[p].co[Server].at = "new"
  <2>1. sched[p] = process_bind
    BY <1>1
  <2>2. QED
    BY <2>1, BindFacts
<1>5. TypeOK
  <2>1. sched \in [Proc -> Scheduler]
    BY <1>1, <1>4
  <2>2. \A p \in Proc : (sched[p].cur # None) = (sched[p].alive /\ sched[p].pc = "run")
    BY <1>4
  <2>3. totalfds \in [Slot -> Int] /\ conn \in [Conn -> Connection] /\ backlog \in Seq(Conn)
    BY <1>1, <1>2, <1>3
  <2>4. QED
    BY <1>1, <2>1, <2>2, <2>3 DEF TypeOK
<1>6. ASSUME NEW p \in Proc PROVE FilesOK(p)
  <2>1. Open(p) = {Listen}
    BY <1>1, <1>3 DEF Open
  <2>2. Open(p) \ {Listen} = {}
    BY <2>1
  <2>3. totalfds[work.slot[p]] = 0 /\ Cardinality({}) = 0
    BY <1>1, FS_EmptySet, ConstantAssumption DEF Slot
  <2>4. QED
    BY <1>4, <2>1, <2>2, <2>3 DEF FilesOK
<1>7. BacklogOK
  BY <1>1, <1>2 DEF BacklogOK
<1>8. work.procs \subseteq Proc
  BY <1>1, ConstantAssumption
<1>9. \A p \in work.procs : ~InAccept(p)
  BY <1>4, <1>8 DEF InAccept
<1>10. AcceptMutex
  <2>1. (mtx = 1) = FALSE
    BY <1>1
  <2>2. (\E p \in work.procs : InAccept(p)) = FALSE
    BY <1>9
  <2>3. \A p, q \in work.procs : InAccept(p) /\ InAccept(q) => p = q
    BY <1>9
  <2>4. QED
    BY <2>1, <2>2, <2>3 DEF AcceptMutex
<1>11. AcceptReady
  <2>1. ToSet(<<>>) = {}
    BY DEF ToSet
  <2>2. QED
    BY <1>4, <1>8, <2>1 DEF AcceptReady
<1>12. QED
  BY <1>4, <1>5, <1>6, <1>7, <1>10, <1>11 DEF IInv

(* Every step.                                                              *)
LEMMA NextHolds ==
  ASSUME IInv, \A p \in Proc : sched[p].alive => HoldersOK(p), [Next]_vars
  PROVE  IInv'
<1>1. CASE Client
  BY <1>1, ClientStep
<1>2. CASE \E p \in Proc : Worker(p)
  <2> PICK p \in Proc : Worker(p)
    BY <1>2
  <2>1. CASE StartServer(p) \/ StartLock(p) \/ RetryLock(p) \/ StartReader(p)
    BY <2>1, StartServerStep, StartLockStep, RetryLockStep, StartReaderStep
  <2>2. CASE NothingReady(p) \/ nty_schedule_epoll(p) \/ BatchDone(p) \/ nty_schedule_isdone(p)
    BY <2>2, PhaseStep
  <2>3. CASE server_kvstore(p) \/ server_httpd(p)
    BY <2>3, ServerKvstoreStep, ServerHttpdStep
  <2>4. CASE recv(p) \/ send(p) \/ Writable(p) \/ send_rest(p)
    BY <2>4, RecvStep, SendStep, WritableStep
  <2>5. QED
    BY <2>1, <2>2, <2>3, <2>4 DEF Worker
<1>3. CASE UNCHANGED vars
  <2>1. UNCHANGED <<work, sched, mtx, totalfds, conn, backlog>>
    BY <1>3 DEF vars
  <2>2. TypeOK' /\ BacklogOK' /\ AcceptMutex' /\ AcceptReady'
    BY <2>1 DEF IInv, TypeOK, BacklogOK, AcceptMutex, AcceptReady, Is, InAccept
  <2>3. ASSUME NEW p \in Proc, sched'[p].alive
        PROVE  SchedOK(sched[p])' /\ ArgOK(sched[p])' /\ FilesOK(p)'
    BY <2>1, <2>3 DEF IInv, ArgOK, FilesOK, Open, Is, OwnSlot
  <2>4. QED
    BY <2>2, <2>3 DEF IInv
<1>4. QED
  BY <1>1, <1>2, <1>3 DEF Next

(* A coroutine of a list without repetitions is there once.                 *)
LEMMA OnceInList ==
  ASSUME NEW T, NEW s \in Seq(T), IsInjective(s), NEW x
  PROVE  Cardinality({i \in 1 .. Len(s) : s[i] = x}) = IF x \in ToSet(s) THEN 1 ELSE 0
<1> DEFINE A == {i \in 1 .. Len(s) : s[i] = x}
<1>1. DOMAIN s = 1 .. Len(s)
  OBVIOUS
<1>2. CASE x \in ToSet(s)
  <2>1. PICK i \in 1 .. Len(s) : s[i] = x
    BY <1>1, <1>2 DEF ToSet
  <2>2. A = {i}
    BY <1>1, <2>1 DEF IsInjective
  <2> HIDE DEF A
  <2>3. Cardinality(A) = 1
    BY <2>2, FS_Singleton
  <2>4. QED
    BY <1>2, <2>3 DEF A
<1>3. CASE x \notin ToSet(s)
  <2>1. A = {}
    BY <1>1, <1>3 DEF ToSet
  <2> HIDE DEF A
  <2>2. Cardinality(A) = 0
    BY <2>1, FS_EmptySet
  <2>3. QED
    BY <1>3, <2>2 DEF A
<1>4. QED
  BY <1>2, <1>3

(* A coroutine is once in the tree, or not at all.                          *)
LEMMA OnceInTree ==
  ASSUME NEW s \in Scheduler, NEW X, Core(s, X), NEW x \in Co
  PROVE  Cardinality({f \in Fd : s.waiting[f] = x})
           = IF x \notin X /\ s.co[x].at \in Blocked THEN 1 ELSE 0
<1> DEFINE B == {f \in Fd : s.waiting[f] = x}
<1>1. s.co[x] \in Coroutine /\ x # None
  BY Fields, CoFacts
<1>2. s.co[x].fd \in Fd
  BY <1>1 DEF Coroutine
<1>3. CASE x \notin X /\ s.co[x].at \in Blocked
  <2>1. B = {s.co[x].fd}
    BY <1>1, <1>2, <1>3 DEF Core, TreeOK
  <2> HIDE DEF B
  <2>2. Cardinality(B) = 1
    BY <2>1, FS_Singleton
  <2>3. QED
    BY <1>3, <2>2 DEF B
<1>4. CASE ~(x \notin X /\ s.co[x].at \in Blocked)
  <2>1. B = {}
    BY <1>1, <1>4 DEF Core, TreeOK
  <2> HIDE DEF B
  <2>2. Cardinality(B) = 0
    BY <2>1, FS_EmptySet
  <2>3. QED
    BY <1>4, <2>2 DEF B
<1>5. QED
  BY <1>3, <1>4

(* The places of a coroutine.                                               *)
LEMMA PlacesOne ==
  ASSUME NEW s \in Scheduler, SchedOK(s), NEW x \in Co
  PROVE  Places(s, x) = IF s.co[x].at # "free" THEN 1 ELSE 0
<1> DEFINE a == s.co[x].at
           A == Cardinality({i \in 1 .. Len(s.ready) : s.ready[i] = x})
           B == Cardinality({f \in Fd : s.waiting[f] = x})
           C == IF s.cur = x THEN 1 ELSE 0
<1>1. s.ready \in Seq(Co) /\ s.co[x] \in Coroutine /\ x # None
  BY Fields, CoFacts
<1>2. a \in At
  BY <1>1 DEF Coroutine
<1>3. Core(s, Hand(s)) /\ RunOK(s) /\ (x \in Hand(s) <=> s.cur = x)
  BY <1>1 DEF SchedOK, Hand
<1>4. /\ IsInjective(s.ready)
      /\ x \in ToSet(s.ready) <=> (a \in Queued /\ x \notin Hand(s))
      /\ x \notin Hand(s) => a \notin Active
  BY <1>3 DEF Core, ReadyOK, HandOK
<1>5. A = IF x \in ToSet(s.ready) THEN 1 ELSE 0
  BY <1>1, <1>4, OnceInList
<1>6. B = IF x \notin Hand(s) /\ a \in Blocked THEN 1 ELSE 0
  BY <1>3, OnceInTree
<1>7. s.cur = x => a \in Active
  BY <1>1, <1>3 DEF RunOK
<1>8. Places(s, x) = A + B + C
  BY DEF Places
<1> HIDE DEF A, B, a
<1>9. CASE s.cur = x
  <2>1. A = 0 /\ B = 0 /\ C = 1 /\ a # "free"
    BY <1>3, <1>4, <1>5, <1>6, <1>7, <1>9 DEF Active
  <2>2. QED
    BY <1>8, <2>1 DEF a
<1>10. CASE s.cur # x
  <2>1. C = 0 /\ A \in {0, 1} /\ B \in {0, 1}
    BY <1>5, <1>6, <1>10
  <2>2. a = "free" => A = 0 /\ B = 0
    BY <1>4, <1>5, <1>6 DEF Queued, Blocked
  <2>3. a # "free" => (A = 1 /\ B = 0) \/ (A = 0 /\ B = 1)
    BY <1>2, <1>3, <1>4, <1>5, <1>6, <1>10 DEF At, Queued, Blocked, Active
  <2> HIDE DEF C
  <2>4. A + B + C = IF a # "free" THEN 1 ELSE 0
    BY <2>1, <2>2, <2>3
  <2>5. QED
    BY <1>8, <2>4 DEF a
<1>11. QED
  BY <1>9, <1>10

(* The invariant implies the properties.                                    *)
LEMMA IInvImplies ==
  ASSUME IInv
  PROVE  EventsHaveWaiters /\ OnePlace /\ AcceptMutex
<1>1. ASSUME NEW p \in Proc, sched[p].alive
      PROVE  /\ sched[p] \in Scheduler /\ SchedOK(sched[p]) /\ FilesOK(p)
             /\ Core(sched[p], Hand(sched[p]))
  BY <1>1 DEF IInv, TypeOK, SchedOK
<1>2. EventsHaveWaiters
  BY <1>1 DEF EventsHaveWaiters, RB_FIND, Core, EventsOK
<1>3. OnePlace
  <2>1. TypeOK
    BY DEF IInv
  <2>2. ASSUME NEW p \in Proc, sched[p].alive
        PROVE  LET s == sched[p]
                   live == {x \in Co : s.co[x].at # "free"}
               IN /\ \A x \in Co : Places(s, x) = IF x \in live THEN 1 ELSE 0
                  /\ s.spawned_coroutines = Cardinality(live)
                  /\ \A f \in Fd : s.waiting[f] # None => s.co[s.waiting[f]].fd = f
                  /\ Is("httpd") /\ OwnSlot(p) =>
                       totalfds[work.slot[p]] = Cardinality(Open(p) \ {Listen})
    <3> DEFINE s == sched[p]
               live == {x \in Co : s.co[x].at # "free"}
    <3>1. s \in Scheduler /\ SchedOK(s) /\ FilesOK(p) /\ Core(s, Hand(s))
      BY <1>1, <2>2
    <3>2. ASSUME NEW x \in Co PROVE Places(s, x) = IF x \in live THEN 1 ELSE 0
      <4>1. Places(s, x) = IF s.co[x].at # "free" THEN 1 ELSE 0
        BY <3>1, PlacesOne
      <4>2. x \in live <=> s.co[x].at # "free"
        OBVIOUS
      <4> HIDE DEF live, s
      <4>3. QED
        BY <4>1, <4>2
    <3>3. s.spawned_coroutines = Cardinality(live)
      BY <3>1 DEF Core, CountOK, Live
    <3>4. \A f \in Fd : s.waiting[f] # None => s.co[s.waiting[f]].fd = f
      BY <3>1 DEF Core, TreeOK
    <3>5. Is("httpd") /\ OwnSlot(p) => totalfds[work.slot[p]] = Cardinality(Open(p) \ {Listen})
      BY <3>1 DEF FilesOK
    <3>6. QED
      BY <3>2, <3>3, <3>4, <3>5
  <2>3. QED
    BY <2>1, <2>2 DEF OnePlace
<1>4. QED
  BY <1>2, <1>3 DEF IInv

------------------------------------------------------------------------------
(* What it answers with is on the stack while it runs, and in its copy of   *)
(* the stack while it waits.                                                *)
Val(s, x) == IF s.cur = x THEN s.stack.val ELSE s.co[x].saved

Holds(p, x, c) == sched[p].alive /\ Answers(sched[p], x) /\ sched[p].co[x].fd = c

(* A request is unread, or with the one reader that answers it, never both, *)
(* and it is the one after those answered.                                  *)
FlowOK(c) ==
  conn[c].reset = "no" =>
    LET k == Len(conn[c].replies) IN
      /\ \A i \in 1 .. k : conn[c].replies[i] = <<c, i>>
      /\ conn[c].rx # <<>> => /\ conn[c].rx = <<<<c, k + 1>>>> /\ conn[c].n = k + 1
                              /\ \A p \in Proc, x \in Co : ~Holds(p, x, c)
      /\ \A p \in Proc, x \in Co : Holds(p, x, c) =>
           Val(sched[p], x) = <<c, k + 1>> /\ conn[c].n = k + 1

RInv ==
  /\ IInv
  /\ \A p \in Proc : sched[p].alive => HoldersOK(p)
  /\ \A c \in Conn : FlowOK(c)

(* What nty_poll_inner does with the values: x, if the process lives, has   *)
(* saved the stack, and nobody else is touched.                             *)
Polls(s, x, fd, at, r) ==
  /\ \A y \in Co : y # x => r.co[y] = s.co[y]
  /\ r.alive => /\ r.cur = None /\ r.co[x].at = at /\ r.co[x].fd = fd
                /\ r.co[x].saved = s.stack.val

(* nty_poll_inner, whether or not somebody waits for the descriptor.        *)
LEMMA PollValues ==
  ASSUME NEW s \in Scheduler, s.alive, NEW x \in Co, NEW fd \in Fd, NEW at \in At,
         NEW opens \in SUBSET File, NEW r, r = nty_poll_inner(s, x, fd, at, opens)
  PROVE  Polls(s, x, fd, at, r)
<1>1. CASE s.waiting[fd] = None
  <2>1. r = Polled(s, x, fd, at, opens)
    BY <1>1, PollIs
  <2>2. PolledAs(s, x, fd, at, opens, r)
    BY <2>1, PolledFields
  <2>3. QED
    BY <2>2 DEF PolledAs, Polls
<1>2. CASE s.waiting[fd] # None
  <2>1. ~r.alive /\ r.co = s.co
    BY <1>2, PollDies
  <2>2. QED
    BY <2>1 DEF Polls
<1>3. QED
  BY <1>1, <1>2

(* nty_coroutine_resume copies a stack back, and saves none.                *)
LEMMA ResumeValues ==
  ASSUME NEW s \in Scheduler, NEW x \in Co, NEW r, r = nty_coroutine_resume(s, x)
  PROVE  /\ \A y \in Co : y # x => r.co[y] = s.co[y]
         /\ s.co[x].at # "new" => r.co = s.co /\ r.stack.val = s.co[x].saved
<1>1. s.co \in [Co -> Coroutine]
  BY Fields
<1>2. CASE s.co[x].at = "new"
  <2> DEFINE d == [s.co EXCEPT ![x].saved = None]
  <2>1. r = [[s EXCEPT !.co = d] EXCEPT !.cur = x]
    BY <1>2 DEF nty_coroutine_resume, nty_coroutine_init, Scheduler
  <2>2. \A y \in Co : y # x => d[y] = s.co[y]
    BY <1>1
  <2> HIDE DEF d
  <2>3. r.co = d
    BY <2>1 DEF Scheduler
  <2>4. QED
    BY <1>2, <2>2, <2>3
<1>3. CASE s.co[x].at # "new"
  <2> DEFINE k == [owner |-> x, val |-> s.co[x].saved]
  <2>1. r = [[s EXCEPT !.stack = k] EXCEPT !.cur = x]
    BY <1>3 DEF nty_coroutine_resume, _load_stack, Scheduler
  <2>2. k.val = s.co[x].saved
    OBVIOUS
  <2> HIDE DEF k
  <2>3. r.co = s.co /\ r.stack = k
    BY <2>1 DEF Scheduler
  <2>4. QED
    BY <1>3, <2>2, <2>3
<1>4. QED
  BY <1>2, <1>3

(* A local variable is on the stack alone.                                  *)
LEMMA SetLocalValues ==
  ASSUME NEW s \in Scheduler, NEW x, NEW val, NEW r, r = SetLocal(s, x, val)
  PROVE  r.co = s.co /\ r.cur = s.cur /\ r.stack.val = val /\ r.alive = s.alive
<1> DEFINE k == [owner |-> x, val |-> val]
<1>1. r = [s EXCEPT !.stack = k] /\ k.val = val
  BY DEF SetLocal
<1> HIDE DEF k
<1>2. QED
  BY <1>1 DEF Scheduler

(* The woken coroutine has its stack back.                                  *)
LEMMA WokenValues ==
  ASSUME NEW s \in Scheduler, NEW x \in Co, NEW f, NEW e \in Seq(File), s.co[x].at # "new",
         NEW r, r = Woken([s EXCEPT !.events = e], x, f)
  PROVE  r.co = s.co /\ r.stack.val = s.co[x].saved /\ r.cur = x /\ r.alive = s.alive
<1> DEFINE a == [s EXCEPT !.events = e]
           b == nty_coroutine_resume(a, x)
           c == [b EXCEPT !.epoll = b.epoll \ {f}]
<1>1. a \in Scheduler /\ a.co = s.co /\ a.alive = s.alive
  BY DEF Scheduler
<1>2. r = nty_schedule_desched_wait(c, f)
  BY DEF Woken
<1> HIDE DEF a
<1>3. /\ b \in Scheduler /\ b.co = s.co /\ b.stack.val = s.co[x].saved /\ b.cur = x
      /\ b.alive = s.alive
  BY <1>1, ResumeFacts, ResumeValues DEF Alike
<1> HIDE DEF b
<1>4. r = [c EXCEPT !.waiting = RB_REMOVE(c.waiting, f)]
  BY <1>2 DEF nty_schedule_desched_wait
<1>5. QED
  BY <1>3, <1>4 DEF Scheduler

(* Who answers after the step answered before it, the same value.           *)
Carries(s, r) ==
  r.alive => \A y \in Co : Answers(r, y) =>
    Answers(s, y) /\ r.co[y].fd = s.co[y].fd /\ Val(r, y) = Val(s, y)

(* The same, of the coroutines other than x and of their saved values.      *)
Apart(s, r, x) ==
  \A y \in Co : y # x /\ Answers(r, y) =>
    Answers(s, y) /\ r.co[y].fd = s.co[y].fd /\ r.co[y].saved = s.co[y].saved

(* A step in which only x runs, and does not end in an answer.              *)
LEMMA CarriesApart ==
  ASSUME NEW s, NEW r, NEW x \in Co, s.cur \in {None, x},
         r.alive => r.cur \in {None, x} /\ Apart(s, r, x) /\ ~Answers(r, x)
  PROVE  Carries(s, r)
<1> SUFFICES ASSUME r.alive, NEW y \in Co, Answers(r, y)
             PROVE  Answers(s, y) /\ r.co[y].fd = s.co[y].fd /\ Val(r, y) = Val(s, y)
  BY DEF Carries
<1>1. y # x /\ y # None /\ r.cur # y /\ s.cur # y
  BY CoFacts
<1>2. Answers(s, y) /\ r.co[y].fd = s.co[y].fd /\ r.co[y].saved = s.co[y].saved
  BY <1>1 DEF Apart
<1>3. QED
  BY <1>1, <1>2 DEF Val

(* Nobody else is touched.                                                  *)
LEMMA ApartSame ==
  ASSUME NEW s, NEW r, NEW x, \A y \in Co : y # x => r.co[y] = s.co[y]
  PROVE  Apart(s, r, x)
BY DEF Apart, Answers

SameFlow(c) ==
  /\ conn'[c].rx = conn[c].rx /\ conn'[c].n = conn[c].n
  /\ conn'[c].replies = conn[c].replies /\ conn'[c].reset = conn[c].reset

(* A connection that does not change, and whose readers go on with what     *)
(* they have.                                                               *)
LEMMA FlowKept ==
  ASSUME NEW c \in Conn, FlowOK(c), SameFlow(c),
         \A q \in Proc, x \in Co : Holds(q, x, c)'
           => Holds(q, x, c) /\ Val(sched[q], x)' = Val(sched[q], x)
  PROVE  FlowOK(c)'
<1> SUFFICES ASSUME conn'[c].reset = "no"
             PROVE  FlowOK(c)'
  BY DEF FlowOK
<1> DEFINE k == Len(conn[c].replies)
<1>1. /\ \A i \in 1 .. k : conn[c].replies[i] = <<c, i>>
      /\ conn[c].rx # <<>> => /\ conn[c].rx = <<<<c, k + 1>>>> /\ conn[c].n = k + 1
                              /\ \A q \in Proc, x \in Co : ~Holds(q, x, c)
      /\ \A q \in Proc, x \in Co : Holds(q, x, c) =>
           Val(sched[q], x) = <<c, k + 1>> /\ conn[c].n = k + 1
  BY DEF FlowOK, SameFlow
<1>2. /\ conn'[c].rx = conn[c].rx /\ conn'[c].n = conn[c].n
      /\ conn'[c].replies = conn[c].replies
  BY DEF SameFlow
<1>3. Len(conn'[c].replies) = k
  BY <1>2
<1> HIDE DEF k
<1>4. \A i \in 1 .. k : conn'[c].replies[i] = <<c, i>>
  BY <1>1, <1>2
<1>5. conn'[c].rx # <<>> => /\ conn'[c].rx = <<<<c, k + 1>>>> /\ conn'[c].n = k + 1
                            /\ \A q \in Proc, x \in Co : ~Holds(q, x, c)'
  BY <1>1, <1>2
<1>6. ASSUME NEW q \in Proc, NEW x \in Co, Holds(q, x, c)'
      PROVE  Val(sched[q], x)' = <<c, k + 1>> /\ conn'[c].n = k + 1
  BY <1>1, <1>2, <1>6
<1>7. QED
  BY <1>3, <1>4, <1>5, <1>6 DEF FlowOK

(* The same after a step of process p.                                      *)
LEMMA FlowSame ==
  ASSUME RInv, NEW p \in Proc, NEW r, Step(p, r), NEW c \in Conn, SameFlow(c),
         \A x \in Co : r.alive /\ Answers(r, x) /\ r.co[x].fd = c
                         => Holds(p, x, c) /\ Val(r, x) = Val(sched[p], x)
  PROVE  FlowOK(c)'
<1>1. sched \in [Proc -> Scheduler] /\ FlowOK(c)
  BY DEF RInv, IInv, TypeOK
<1>2. sched'[p] = r /\ \A q \in Proc : q # p => sched'[q] = sched[q]
  BY <1>1 DEF Step
<1>3. ASSUME NEW q \in Proc, NEW x \in Co, Holds(q, x, c)'
      PROVE  Holds(q, x, c) /\ Val(sched[q], x)' = Val(sched[q], x)
  <2>1. CASE q = p
    <3>1. sched'[q] = r /\ r.alive /\ Answers(r, x) /\ r.co[x].fd = c
      BY <1>2, <1>3, <2>1 DEF Holds, Answers
    <3>2. Holds(p, x, c) /\ Val(r, x) = Val(sched[p], x)
      BY <3>1
    <3>3. QED
      BY <2>1, <3>1, <3>2 DEF Val
  <2>2. CASE q # p
    <3>1. sched'[q] = sched[q]
      BY <1>2, <2>2
    <3>2. QED
      BY <1>3, <3>1 DEF Holds, Answers, Val
  <2>3. QED
    BY <2>1, <2>2
<1>4. QED
  BY <1>1, <1>3, FlowKept

(* A step that moves no message.                                            *)
LEMMA FlowStep ==
  ASSUME RInv, IInv', NEW p \in Proc, Running(p), NEW r, Step(p, r), Carries(sched[p], r),
         \A c \in Conn : SameFlow(c),
         \A q \in Proc : sched'[q].alive => Open(q) \subseteq Open(q)'
  PROVE  RInv'
<1>1. sched \in [Proc -> Scheduler]
  BY DEF RInv, IInv, TypeOK
<1>2. sched'[p] = r /\ \A q \in Proc : q # p => sched'[q] = sched[q]
  BY <1>1 DEF Step
<1>3. ASSUME NEW c \in Conn PROVE FlowOK(c)'
  <2>1. ASSUME NEW x \in Co, r.alive, Answers(r, x), r.co[x].fd = c
        PROVE  Holds(p, x, c) /\ Val(r, x) = Val(sched[p], x)
    BY <2>1 DEF Carries, Holds, Running
  <2>2. QED
    BY <2>1, FlowSame
<1>4. ASSUME NEW q \in Proc, sched'[q].alive PROVE HoldersOK(q)'
  <2> SUFFICES ASSUME NEW x \in Co, Answers(sched'[q], x)
               PROVE  sched'[q].co[x].fd \in Open(q)'
    BY DEF HoldersOK, Answers
  <2>1. sched[q].alive /\ Answers(sched[q], x) /\ sched'[q].co[x].fd = sched[q].co[x].fd
    <3>1. CASE q = p
      BY <1>2, <1>4, <3>1 DEF Carries, Running
    <3>2. CASE q # p
      BY <1>2, <1>4, <3>2
    <3>3. QED
      BY <3>1, <3>2
  <2>2. sched[q].co[x].fd \in Open(q)
    BY <2>1 DEF RInv, HoldersOK
  <2>3. QED
    BY <1>4, <2>1, <2>2
<1>5. QED
  BY <1>3, <1>4 DEF RInv

(* A client's request is the next one, and nobody has the one before.       *)
LEMMA SendFlow ==
  ASSUME RInv, NEW c \in Conn, Send(c)
  PROVE  FlowOK(c)'
<1> DEFINE k == Len(conn[c].replies)
           m == conn[c].n
           g == <<c, m + 1>>
<1>1. /\ conn[c].reset = "no" /\ k = m /\ UNCHANGED sched
      /\ conn' = [conn EXCEPT ![c].n = @ + 1, ![c].rx = Append(@, g)]
  BY DEF Send
<1>2. conn \in [Conn -> Connection] /\ conn[c] \in Connection /\ FlowOK(c)
  BY DEF RInv, IInv, TypeOK
<1>3. m \in Nat /\ conn[c].rx \in Seq(Message)
  BY <1>2 DEF Connection
<1>4. /\ \A i \in 1 .. k : conn[c].replies[i] = <<c, i>>
      /\ conn[c].rx # <<>> => m = k + 1
      /\ \A q \in Proc, x \in Co : Holds(q, x, c) => m = k + 1
  BY <1>1, <1>2 DEF FlowOK
<1>5. k # m + 1 /\ m # k + 1
  BY <1>1, <1>3
<1>6. conn[c].rx = <<>> /\ \A q \in Proc, x \in Co : ~Holds(q, x, c)
  BY <1>4, <1>5
<1>7. /\ conn'[c].n = m + 1 /\ conn'[c].rx = Append(conn[c].rx, g)
      /\ conn'[c].replies = conn[c].replies
  BY <1>1, <1>2 DEF Connection
<1>8. conn'[c].rx = <<g>>
  BY <1>6, <1>7
<1>9. \A q \in Proc, x \in Co : ~Holds(q, x, c)'
  BY <1>1, <1>6 DEF Holds, Answers
<1>10. Len(conn'[c].replies) = k /\ g = <<c, k + 1>> /\ m + 1 = k + 1
  BY <1>1, <1>7
<1> HIDE DEF k, m, g
<1>11. QED
  BY <1>4, <1>7, <1>8, <1>9, <1>10 DEF FlowOK

(* The steps of the clients.                                                *)
LEMMA ClientFlow ==
  ASSUME RInv, IInv', Client
  PROVE  RInv'
<1> PICK c \in Conn : Connect(c) \/ Send(c) \/ Shutdown(c) \/ Reset(c)
  BY DEF Client
<1>1. UNCHANGED sched /\ conn \in [Conn -> Connection] /\ conn[c] \in Connection
  BY DEF RInv, IInv, TypeOK, Connect, Send, Shutdown, Reset
<1>2. \A d \in Conn : d # c => conn'[d] = conn[d]
  BY <1>1 DEF Connect, Send, Shutdown, Reset
<1>3. conn'[c].owner = conn[c].owner /\ (conn[c].st = "open" => conn'[c].st = "open")
  BY <1>1 DEF Connect, Send, Shutdown, Reset, Connection
<1>4. \A q \in Proc, x \in Co, d \in Conn : Holds(q, x, d)'
        => Holds(q, x, d) /\ Val(sched[q], x)' = Val(sched[q], x)
  BY <1>1 DEF Holds, Answers, Val
<1>5. ASSUME NEW d \in Conn PROVE FlowOK(d)'
  <2>1. FlowOK(d)
    BY DEF RInv
  <2>2. CASE d # c
    BY <1>2, <1>4, <2>1, <2>2, FlowKept DEF SameFlow
  <2>3. CASE d = c /\ (Connect(c) \/ Shutdown(c))
    <3>1. SameFlow(c)
      BY <1>1, <2>3 DEF SameFlow, Connect, Shutdown, Connection
    <3>2. QED
      BY <1>4, <2>1, <2>3, <3>1, FlowKept
  <2>4. CASE d = c /\ Send(c)
    BY <2>4, SendFlow
  <2>5. CASE d = c /\ Reset(c)
    <3>1. conn'[c].reset = "err"
      BY <1>1, <2>5 DEF Reset, Connection
    <3>2. QED
      BY <2>5, <3>1 DEF FlowOK
  <2>6. QED
    BY <2>2, <2>3, <2>4, <2>5
<1>6. ASSUME NEW q \in Proc, sched'[q].alive PROVE HoldersOK(q)'
  <2>1. Open(q) \subseteq Open(q)'
    BY <1>2, <1>3 DEF Open
  <2>2. HoldersOK(q)
    BY <1>1, <1>6 DEF RInv
  <2>3. QED
    BY <1>1, <2>1, <2>2 DEF HoldersOK, Answers
<1>7. QED
  BY <1>5, <1>6 DEF RInv

(* A step that leaves the connections alone.                                *)
LEMMA ConnSame ==
  ASSUME conn' = conn
  PROVE  (\A c \in Conn : SameFlow(c)) /\ \A q \in Proc : Open(q)' = Open(q)
BY DEF SameFlow, Open

(* Another phase: the coroutines and the stack stay.                        *)
LEMMA PhaseFlow ==
  ASSUME RInv, IInv', NEW p \in Proc,
         NothingReady(p) \/ nty_schedule_epoll(p) \/ BatchDone(p) \/ nty_schedule_isdone(p)
  PROVE  RInv'
<1> DEFINE s == sched[p]
<1>1. Running(p) /\ conn' = conn
  BY DEF NothingReady, nty_schedule_epoll, BatchDone, nty_schedule_isdone
<1>2. s \in Scheduler
  BY DEF RInv, IInv, TypeOK
<1>3. \E r : Step(p, r) /\ r.co = s.co /\ r.cur = s.cur /\ r.stack = s.stack
  <2> DEFINE n == NewRound(s)
  <2>1. n.co = s.co /\ n.cur = s.cur /\ n.stack = s.stack
    BY <1>2 DEF NewRound, Scheduler
  <2>2. CASE NothingReady(p)
    BY <1>2, <2>2 DEF NothingReady, Scheduler
  <2>3. CASE BatchDone(p)
    <3>1. Step(p, n)
      BY <2>3 DEF BatchDone
    <3>2. QED
      BY <2>1, <3>1
  <2>4. CASE nty_schedule_isdone(p)
    BY <1>2, <2>4 DEF nty_schedule_isdone, Scheduler
  <2>5. CASE nty_schedule_epoll(p) /\ s.ready # <<>>
    <3>1. Step(p, n)
      BY <2>5 DEF nty_schedule_epoll
    <3>2. QED
      BY <2>1, <3>1
  <2>6. CASE nty_schedule_epoll(p) /\ s.ready = <<>>
    <3>1. PICK batch : Step(p, [s EXCEPT !.pc = "events", !.events = batch])
      BY <2>6 DEF nty_schedule_epoll
    <3> DEFINE r == [s EXCEPT !.pc = "events", !.events = batch]
    <3>2. r.co = s.co /\ r.cur = s.cur /\ r.stack = s.stack
      BY <1>2 DEF Scheduler
    <3>3. QED
      BY <3>1, <3>2
  <2>7. QED
    BY <2>2, <2>3, <2>4, <2>5, <2>6
<1>4. PICK r : Step(p, r) /\ r.co = s.co /\ r.cur = s.cur /\ r.stack = s.stack
  BY <1>3
<1>5. Carries(s, r)
  BY <1>4 DEF Carries, Answers, Val
<1>6. QED
  BY <1>1, <1>4, <1>5, ConnSame, FlowStep

(* A step of the server, which answers nobody.                              *)
LEMMA ServerFlow ==
  ASSUME RInv, IInv', NEW p \in Proc, Running(p), NEW r, Step(p, r),
         sched[p].cur \in {None, Server},
         r.alive => r.cur \in {None, Server} /\ Apart(sched[p], r, Server),
         \A c \in Conn : SameFlow(c),
         \A q \in Proc : Open(q) \subseteq Open(q)'
  PROVE  RInv'
<1>1. sched \in [Proc -> Scheduler] /\ Server \in Co
  BY CoFacts DEF RInv, IInv, TypeOK
<1>2. sched'[p] = r
  BY <1>1 DEF Step
<1>3. r.alive => ~Answers(r, Server)
  <2>1. r.alive => RoleOK(r.co[Server], Server)
    BY <1>1, <1>2 DEF IInv, SchedOK, Core, RolesOK
  <2>2. QED
    BY <2>1 DEF RoleOK, Answers
<1>4. Carries(sched[p], r)
  BY <1>1, <1>3, CarriesApart
<1>5. QED
  BY <1>4, FlowStep

(* The first of the ready queue runs, and nobody else is touched.           *)
Resumes(p, x, b) ==
  /\ Running(p) /\ x \in Co /\ b \in Scheduler /\ b.alive /\ Core(b, {x})
  /\ sched[p].cur = None /\ \A y \in Co : y # x => b.co[y] = sched[p].co[y]

(* nty_coroutine_resume of the first of the ready queue.                    *)
LEMMA BeginValues ==
  ASSUME IInv, NEW p \in Proc, NEW x, NEW ats, IsReady(p, x, ats),
         NEW b, b = nty_coroutine_resume(Dequeued(p), x)
  PROVE  Resumes(p, x, b)
<1>1. Running(p) /\ sched[p].pc = "ready" /\ sched[p].ready # <<>> /\ x = FirstReady(p)
  BY DEF IsReady
<1>2. sched[p].cur = None
  BY <1>1, ProcessFacts
<1>3. Begins(p, x, b)
  BY BeginFacts
<1> DEFINE d == Dequeued(p)
<1>4. d \in Scheduler /\ d.co = sched[p].co
  <2>1. \E q \in {"ready", "epoll"} : Taken(sched[p], x, q, d)
    BY <1>1, DequeuedFacts
  <2>2. QED
    BY <2>1 DEF Taken
<1> HIDE DEF d
<1>5. x \in Co /\ b \in Scheduler /\ b.alive /\ Core(b, {x})
  BY <1>3 DEF Begins
<1>6. \A y \in Co : y # x => b.co[y] = d.co[y]
  BY <1>4, <1>5, ResumeValues DEF d
<1>7. QED
  BY <1>1, <1>2, <1>4, <1>5, <1>6 DEF Resumes

(* The server of the kvstore starts.                                        *)
LEMMA StartServerFlow ==
  ASSUME RInv, IInv', NEW p \in Proc, StartServer(p)
  PROVE  RInv'
<1> DEFINE b == nty_coroutine_resume(Dequeued(p), Server)
           s == SetLocal(b, Server, None)
           r == nty_poll_inner(s, Server, Listen, "accept", Open(p))
<1>1. IInv /\ IsReady(p, Server, {"new"}) /\ Step(p, r) /\ conn' = conn
  BY DEF StartServer, RInv
<1>2. /\ Running(p) /\ Server \in Co /\ b \in Scheduler /\ b.alive /\ Core(b, {Server})
      /\ sched[p].cur = None /\ \A y \in Co : y # Server => b.co[y] = sched[p].co[y]
  <2>1. Resumes(p, Server, b)
    BY <1>1, BeginValues
  <2>2. QED
    BY <2>1 DEF Resumes
<1>3. Open(p) \in SUBSET File
  BY <1>1, <1>2, ProcessFacts
<1>4. Listen \in Fd /\ "accept" \in At /\ None \in Local
  BY DEF Fd, File, At, Local
<1> HIDE DEF b
<1>5. s \in Scheduler /\ s.co = b.co /\ s.alive
  BY <1>2, <1>4, SetLocalFacts, SetLocalValues
<1> HIDE DEF s
<1>6. Polls(s, Server, Listen, "accept", r)
  BY <1>2, <1>3, <1>4, <1>5, PollValues
<1> HIDE DEF r
<1>7. \A y \in Co : y # Server => r.co[y] = sched[p].co[y]
  BY <1>2, <1>5, <1>6 DEF Polls
<1>8. r.alive => r.cur = None
  BY <1>6 DEF Polls
<1>9. Apart(sched[p], r, Server)
  BY <1>7, ApartSame
<1>10. QED
  BY <1>1, <1>2, <1>8, <1>9, ConnSame, ServerFlow

(* The server tries the lock.                                               *)
LEMMA LockFlow ==
  ASSUME RInv, IInv', NEW p \in Proc, Running(p), sched[p].cur \in {None, Server},
         NEW s \in Scheduler, s.alive, Core(s, {Server}),
         \A y \in Co : y # Server => s.co[y] = sched[p].co[y],
         lock(p, s), conn' = conn
  PROVE  RInv'
<1>1. IInv /\ Server \in Co /\ Listen \in Fd /\ "accept" \in At
  BY CoFacts DEF RInv, Fd, File, At
<1>2. Open(p) \in SUBSET File
  BY <1>1, ProcessFacts
<1>3. ASSUME NEW r, Step(p, r), \A y \in Co : y # Server => r.co[y] = s.co[y],
             r.alive => r.cur = None
      PROVE  RInv'
  <2>1. Apart(sched[p], r, Server)
    BY <1>3, ApartSame
  <2>2. QED
    BY <1>3, <2>1, ConnSame, ServerFlow
<1>4. CASE mtx = 0
  <2> DEFINE r == nty_poll_inner(s, Server, Listen, "accept", Open(p))
  <2>1. Step(p, r)
    BY <1>4 DEF lock
  <2>2. Polls(s, Server, Listen, "accept", r)
    BY <1>1, <1>2, PollValues
  <2> HIDE DEF r
  <2>3. QED
    BY <1>3, <2>1, <2>2 DEF Polls
<1>5. CASE mtx # 0
  <2> DEFINE r == nty_coroutine_sleep(s, Server)
  <2>1. Step(p, r)
    BY <1>5 DEF lock
  <2>2. Released(s, Server, "sleep", r)
    BY SleepKeeps
  <2> HIDE DEF r
  <2>3. QED
    BY <1>3, <2>1, <2>2 DEF Released
<1>6. QED
  BY <1>4, <1>5

(* The server of the HTTP worker starts or was asleep.                      *)
LEMMA StartLockFlow ==
  ASSUME RInv, IInv', NEW p \in Proc, StartLock(p)
  PROVE  RInv'
<1> DEFINE b == nty_coroutine_resume(Dequeued(p), Server)
           l == SetLocal(b, Server, None)
<1>1. IInv /\ IsReady(p, Server, {"new", "sleep"}) /\ conn' = conn
  BY DEF StartLock, RInv
<1>2. /\ Running(p) /\ Server \in Co /\ b \in Scheduler /\ b.alive /\ Core(b, {Server})
      /\ sched[p].cur = None /\ \A y \in Co : y # Server => b.co[y] = sched[p].co[y]
  <2>1. Resumes(p, Server, b)
    BY <1>1, BeginValues
  <2>2. QED
    BY <2>1 DEF Resumes
<1>3. lock(p, l) \/ lock(p, b)
  BY DEF StartLock
<1> HIDE DEF b
<1>4. l \in Scheduler /\ l.co = b.co /\ l.alive /\ Core(l, {Server})
  <2>1. None \in Local
    BY DEF Local
  <2>2. l \in Scheduler /\ Alike(b, l)
    BY <1>2, <2>1, SetLocalFacts
  <2>3. l.co = b.co /\ l.alive
    BY <1>2, SetLocalValues
  <2> HIDE DEF l
  <2>4. Core(l, {Server})
    BY <1>2, <2>2, CoreAlike
  <2>5. QED
    BY <2>2, <2>3, <2>4
<1> HIDE DEF l
<1>5. CASE lock(p, l)
  BY <1>1, <1>2, <1>4, <1>5, LockFlow
<1>6. CASE lock(p, b)
  BY <1>1, <1>2, <1>6, LockFlow
<1>7. QED
  BY <1>3, <1>5, <1>6

(* The server tries the lock again after it has made a reader.              *)
LEMMA RetryLockFlow ==
  ASSUME RInv, IInv', NEW p \in Proc, RetryLock(p)
  PROVE  RInv'
<1> DEFINE s == sched[p]
           t == [s EXCEPT !.pc = "events"]
<1>1. IInv /\ Running(p) /\ s.cur = Server /\ lock(p, t) /\ conn' = conn
  BY DEF RetryLock, RInv
<1>2. s \in Scheduler /\ s.alive /\ SchedOK(s)
  BY <1>1, ProcessFacts
<1>3. t \in Scheduler /\ SameLists(s, t) /\ t.alive
  BY <1>2 DEF Scheduler, SameLists
<1>4. Hand(s) = {Server}
  BY <1>1, CoFacts DEF Hand
<1>5. Core(s, {Server})
  BY <1>2, <1>4 DEF SchedOK
<1> HIDE DEF t
<1>6. Core(t, {Server}) /\ t.co = s.co
  BY <1>2, <1>3, <1>5, CoreSame DEF SameLists
<1>7. QED
  BY <1>1, <1>3, <1>6, LockFlow

(* A server woken in accept has touched nobody.                             *)
LEMMA AcceptValues ==
  ASSUME IInv, NEW p \in Proc, IsEvent(p, "accept"), NEW w, w = Resumed(p)
  PROVE  Accepts(p, w) /\ w.co = sched[p].co /\ sched[p].cur = None
<1> DEFINE f == Event(p)
           x == nty_schedule_search_wait(p)
           e == Front(sched[p].events)
<1>1. Running(p) /\ sched[p].pc = "events" /\ sched[p].events # <<>>
  BY DEF IsEvent
<1>2. sched[p] \in Scheduler /\ sched[p].cur = None
  BY <1>1, ProcessFacts
<1>3. Handles(p, f, x, w) /\ sched[p].co[x].at = "accept"
  BY EventFacts
<1>4. x \in Co
  BY <1>3 DEF Handles, Wakes
<1>5. sched[p].events \in Seq(File)
  BY <1>2, Fields
<1>6. e \in Seq(File)
  BY <1>1, <1>5, FrontFacts
<1>7. w = Woken([sched[p] EXCEPT !.events = e], x, f)
  BY DEF Resumed
<1> HIDE DEF f, x, e
<1>8. w.co = sched[p].co
  BY <1>2, <1>3, <1>4, <1>6, <1>7, WokenValues
<1>9. QED
  BY <1>2, <1>8, AcceptFacts

(* A server that makes a reader touches nobody who answers.                 *)
LEMMA MakeValues ==
  ASSUME IInv, NEW p \in Proc, NEW w, Accepts(p, w), w.co = sched[p].co,
         NEW v \in Conn \cup {NoFd}, NEW arg \in Conn \cup {None},
         NEW m, m = nty_coroutine_create(SetLocal(w, Server, v), arg)
  PROVE  Apart(sched[p], m, Server)
<1> DEFINE l == SetLocal(w, Server, v)
<1>1. w \in Scheduler /\ Core(w, {Server}) /\ w.ready = <<>> /\ w.co[Server].at = "accept"
  BY DEF Accepts
<1>2. v \in Local /\ Server \in Co
  BY CoFacts DEF Local
<1>3. l \in Scheduler /\ Alike(w, l) /\ l.co = w.co
  BY <1>1, <1>2, SetLocalFacts, SetLocalValues
<1> HIDE DEF l
<1>4. Core(l, {Server}) /\ l.ready = <<>> /\ l.co[Server].at # "new"
  BY <1>1, <1>3, CoreAlike DEF Alike
<1>5. \E z \in Co : Created(l, z, arg, m)
  BY <1>3, <1>4, CreateKeeps DEF l
<1>6. PICK z \in Co : Created(l, z, arg, m)
  BY <1>5
<1>7. m.co[z].at = "new" /\ \A y \in Co : y # z => m.co[y] = sched[p].co[y]
  BY <1>3, <1>6 DEF Created
<1>8. QED
  BY <1>7 DEF Apart, Answers

(* accept moves no message.                                                 *)
LEMMA AdmitFlow ==
  ASSUME IInv, NEW p \in Proc, backlog # <<>>, conn' = Accepted(p), backlog' = Tail(backlog)
  PROVE  (\A c \in Conn : SameFlow(c)) /\ \A q \in Proc : Open(q) \subseteq Open(q)'
<1> DEFINE h == Head(backlog)
<1>1. Admits(p, h)
  BY AdmitFacts
<1>2. \A q \in Proc : Open(q) \subseteq Open(q)'
  BY <1>1 DEF Admits
<1>3. h \in Conn /\ conn \in [Conn -> Connection]
  BY <1>1 DEF Admits, IInv, TypeOK
<1>4. conn' = [conn EXCEPT ![h].st = "open", ![h].owner = p]
  BY DEF Accepted
<1> HIDE DEF h
<1>5. ASSUME NEW c \in Conn PROVE SameFlow(c)
  BY <1>3, <1>4 DEF SameFlow, Connection
<1>6. QED
  BY <1>2, <1>5

(* The kvstore's server makes a reader and waits again.                     *)
LEMMA ServerKvstoreFlow ==
  ASSUME RInv, IInv', NEW p \in Proc, server_kvstore(p)
  PROVE  RInv'
<1> DEFINE w == Resumed(p)
           v == IF Exhausted(p) THEN NoFd ELSE Head(backlog)
           m == nty_coroutine_create(SetLocal(w, Server, v), None)
           r == nty_poll_inner(m, Server, Listen, "accept", Open(p))
<1>1. /\ IInv /\ Is("kvstore") /\ IsEvent(p, "accept") /\ Step(p, r)
      /\ conn' = (IF Exhausted(p) THEN conn ELSE Accepted(p))
      /\ backlog' = (IF Exhausted(p) THEN backlog ELSE Tail(backlog))
  BY DEF server_kvstore, RInv
<1>2. Accepts(p, w) /\ w.co = sched[p].co /\ sched[p].cur = None
  BY <1>1, AcceptValues
<1>3. Running(p) /\ backlog # <<>>
  BY <1>2 DEF Accepts
<1>4. v \in Conn \cup {NoFd} /\ ~Is("httpd") /\ None \in Conn \cup {None}
  BY <1>1, <1>3 DEF IInv, TypeOK, Is
<1> HIDE DEF w, v
<1>5. Makes(p, m)
  BY <1>1, <1>2, <1>4, MakeFacts
<1>6. Apart(sched[p], m, Server)
  BY <1>1, <1>2, <1>4, MakeValues
<1> HIDE DEF m
<1>7. m \in Scheduler /\ m.alive /\ Server \in Co /\ Listen \in Fd /\ "accept" \in At
  BY <1>5, CoFacts DEF Makes, Fd, File, At
<1>8. Open(p) \in SUBSET File
  BY <1>1, <1>3, ProcessFacts
<1>9. Polls(m, Server, Listen, "accept", r)
  BY <1>7, <1>8, PollValues
<1> HIDE DEF r
<1>10. Apart(sched[p], r, Server)
  BY <1>6, <1>9 DEF Apart, Polls, Answers
<1>11. r.alive => r.cur = None
  BY <1>9 DEF Polls
<1>12. (\A c \in Conn : SameFlow(c)) /\ \A q \in Proc : Open(q) \subseteq Open(q)'
  BY <1>1, <1>3, AdmitFlow, ConnSame
<1>13. QED
  BY <1>1, <1>2, <1>3, <1>10, <1>11, <1>12, ServerFlow

(* The HTTP worker's server unlocks, then makes a reader or returns.        *)
LEMMA ServerHttpdFlow ==
  ASSUME RInv, IInv', NEW p \in Proc, server_httpd(p)
  PROVE  RInv'
<1> DEFINE w == Resumed(p)
<1>1. IInv /\ Is("httpd") /\ IsEvent(p, "accept")
  BY DEF server_httpd, RInv
<1>2. Accepts(p, w) /\ w.co = sched[p].co /\ sched[p].cur = None
  BY <1>1, AcceptValues
<1>3. /\ Running(p) /\ backlog # <<>> /\ w \in Scheduler /\ Core(w, {Server}) /\ w.cur = Server
      /\ Server \in Co
  BY <1>2, CoFacts DEF Accepts
<1>4. CASE Exhausted(p)
  <2> DEFINE r == _exec(w, Server)
  <2>1. Step(p, r) /\ conn' = conn
    BY <1>4 DEF server_httpd
  <2> HIDE DEF w
  <2>2. Released(w, Server, "free", r)
    BY <1>3, ExitKeeps
  <2> HIDE DEF r
  <2>3. r.cur = None /\ Apart(sched[p], r, Server)
    BY <1>2, <2>2, ApartSame DEF Released
  <2>4. QED
    BY <1>2, <1>3, <2>1, <2>3, ConnSame, ServerFlow
<1>5. CASE ~Exhausted(p)
  <2> DEFINE h == Head(backlog)
             m == nty_coroutine_create(SetLocal(w, Server, h), h)
             r == [m EXCEPT !.pc = "run", !.co[Server].at = "lock"]
  <2>1. Step(p, r) /\ conn' = Accepted(p) /\ backlog' = Tail(backlog)
    BY <1>5 DEF server_httpd
  <2>2. h \in Conn
    BY <1>1, <1>3 DEF IInv, TypeOK
  <2> HIDE DEF w, h
  <2>3. Makes(p, m)
    BY <1>1, <1>2, <2>2, MakeFacts
  <2>4. Apart(sched[p], m, Server)
    BY <1>1, <1>2, <2>2, MakeValues
  <2> HIDE DEF m
  <2>5. m \in Scheduler /\ Core(m, {Server}) /\ m.cur = Server
    BY <2>3 DEF Makes
  <2>6. GoesOn(m, Server, "lock", r)
    BY <1>3, <2>5, GoesOnKeeps DEF Active
  <2> HIDE DEF r
  <2>7. r.cur = Server /\ Apart(sched[p], r, Server)
    BY <2>4, <2>5, <2>6 DEF GoesOn, Apart, Answers
  <2>8. QED
    BY <1>1, <1>2, <1>3, <2>1, <2>7, AdmitFlow, ServerFlow
<1>6. QED
  BY <1>4, <1>5

(* A process dies with the answers it had.                                  *)
LEMMA DeathFlow ==
  ASSUME RInv, IInv', NEW p \in Proc, Running(p), NEW r, Step(p, r), ~r.alive,
         conn' = Orphaned(p)
  PROVE  RInv'
<1>1. sched \in [Proc -> Scheduler] /\ conn \in [Conn -> Connection]
  BY DEF RInv, IInv, TypeOK
<1>2. sched'[p] = r
  BY <1>1 DEF Step
<1>3. ASSUME NEW c \in Conn PROVE SameFlow(c) /\ (conn[c].owner # p => conn'[c] = conn[c])
  BY <1>1 DEF SameFlow, Orphaned, Connection
<1>4. ASSUME NEW q \in Proc, sched'[q].alive PROVE Open(q) \subseteq Open(q)'
  BY <1>2, <1>3, <1>4 DEF Open
<1>5. Carries(sched[p], r)
  BY DEF Carries
<1>6. QED
  BY <1>3, <1>4, <1>5, FlowStep

(* A reader starts, with the descriptor it finds, and has no answer.        *)
LEMMA StartReaderFlow ==
  ASSUME RInv, IInv', NEW p \in Proc, StartReader(p)
  PROVE  RInv'
<1> DEFINE x == FirstReady(p)
           b == nty_coroutine_resume(Dequeued(p), x)
           s == SetLocal(b, x, None)
<1>1. IInv /\ x \in Co \ {Server} /\ IsReady(p, x, {"new"})
  BY DEF StartReader, IsReady, RInv
<1>2. PICK fd \in FdArgument(p) : Risky(p, nty_poll_inner(s, x, fd, "recv", Open(p)))
  BY DEF StartReader
<1> DEFINE r == nty_poll_inner(s, x, fd, "recv", Open(p))
<1>3. Running(p) /\ sched[p].co[x].at = "new"
  BY <1>1 DEF IsReady
<1>4. ArgOK(sched[p]) /\ Open(p) \in SUBSET File /\ work \in Workload
  BY <1>1, <1>3, ProcessFacts DEF IInv, TypeOK
<1>5. fd \in Conn \cup {NoFd}
  <2>1. Is("kvstore") \/ Is("httpd")
    BY <1>4, ConstantAssumption DEF Is
  <2>2. QED
    BY <1>1, <1>2, <1>3, <1>4, <2>1 DEF FdArgument, ArgOK, Is
<1>6. fd \in Fd /\ "recv" \in At /\ None \in Local
  BY <1>5 DEF Fd, File, At, Local
<1>7. Step(p, r) /\ conn' = IF r.alive THEN conn ELSE Orphaned(p)
  BY <1>2 DEF Risky
<1> HIDE DEF x
<1>8. /\ Running(p) /\ x \in Co /\ b \in Scheduler /\ b.alive /\ Core(b, {x})
      /\ sched[p].cur = None /\ \A y \in Co : y # x => b.co[y] = sched[p].co[y]
  <2>1. Resumes(p, x, b)
    BY <1>1, BeginValues
  <2>2. QED
    BY <2>1 DEF Resumes
<1> HIDE DEF b
<1>9. s \in Scheduler /\ s.co = b.co /\ s.alive
  BY <1>6, <1>8, SetLocalFacts, SetLocalValues
<1> HIDE DEF s
<1>10. Polls(s, x, fd, "recv", r)
  BY <1>4, <1>6, <1>8, <1>9, PollValues
<1> HIDE DEF r
<1>11. CASE ~r.alive
  BY <1>7, <1>8, <1>11, DeathFlow
<1>12. CASE r.alive
  <2>1. conn' = conn /\ r.cur = None /\ ~Answers(r, x)
    BY <1>7, <1>10, <1>12 DEF Polls, Answers
  <2>2. \A y \in Co : y # x => r.co[y] = sched[p].co[y]
    BY <1>8, <1>9, <1>10 DEF Polls
  <2>3. Apart(sched[p], r, x)
    BY <2>2, ApartSame
  <2>4. Carries(sched[p], r)
    BY <1>8, <2>1, <2>3, CarriesApart
  <2>5. QED
    BY <1>7, <1>8, <2>1, <2>4, ConnSame, FlowStep
<1>13. QED
  BY <1>11, <1>12

(* What FlowOK says of a connection o with one reader, which answers if a   *)
(* and has the value v then.                                                *)
Tidy(o, c, a, v) ==
  o.reset = "no" =>
    LET k == Len(o.replies) IN
      /\ \A i \in 1 .. k : o.replies[i] = <<c, i>>
      /\ o.rx # <<>> => o.rx = <<<<c, k + 1>>>> /\ o.n = k + 1 /\ ~a
      /\ a => v = <<c, k + 1>> /\ o.n = k + 1

(* A reader x, alone with its connection c, has acted.                      *)
Acts(p, x, c, r) ==
  /\ Running(p) /\ r.alive /\ x \in Co /\ c \in Conn
  /\ conn[c].st = "open" /\ conn[c].owner = p /\ sched[p].co[x].fd = c
  /\ sched[p].cur \in {None, x} /\ r.cur \in {None, x}
  /\ \A y \in Co : y # x => r.co[y] = sched[p].co[y]
  /\ Answers(r, x) => r.co[x].fd = c
  /\ \A y \in Co : y # x /\ Answers(sched[p], y) => sched[p].co[y].fd # c

(* What the invariant says of a reader's connection.                        *)
LEMMA FlowTidy ==
  ASSUME RInv, NEW p \in Proc, NEW x \in Co, NEW c \in Conn, Running(p), sched[p].co[x].fd = c
  PROVE  Tidy(conn[c], c, Answers(sched[p], x), Val(sched[p], x))
<1>1. FlowOK(c) /\ (Answers(sched[p], x) => Holds(p, x, c))
  BY DEF RInv, Holds, Running
<1>2. QED
  BY <1>1 DEF FlowOK, Tidy

(* It is enough to look at the connection the reader has acted on.          *)
LEMMA ReaderFlow ==
  ASSUME RInv, IInv', NEW p \in Proc, NEW x, NEW c, NEW r, Acts(p, x, c, r), Step(p, r),
         NEW n, conn' = [conn EXCEPT ![c] = n], n.owner = p, Answers(r, x) => n.st = "open",
         Tidy(n, c, Answers(r, x), Val(r, x))
  PROVE  RInv'
<1>1. /\ sched \in [Proc -> Scheduler] /\ conn \in [Conn -> Connection]
      /\ x \in Co /\ c \in Conn /\ r.alive /\ sched[p].alive
  BY DEF RInv, IInv, TypeOK, Acts, Running
<1>2. /\ sched'[p] = r /\ \A q \in Proc : q # p => sched'[q] = sched[q]
      /\ conn'[c] = n /\ \A d \in Conn : d # c => conn'[d] = conn[d]
  BY <1>1 DEF Step
<1>3. ASSUME NEW q \in Proc, NEW d \in Open(q), q # p \/ d # c
      PROVE  d \in Open(q)' /\ d # c
  <2>1. d = Listen \/ (d \in Conn /\ conn[d].st = "open" /\ conn[d].owner = q)
    BY DEF Open
  <2>2. d # c
    BY <1>1, <1>3, <2>1, ConstantAssumption DEF Acts
  <2>3. d \in Conn => conn'[d] = conn[d]
    BY <1>2, <2>2
  <2>4. QED
    BY <2>1, <2>2, <2>3 DEF Open
<1>4. ASSUME NEW q \in Proc, sched'[q].alive PROVE HoldersOK(q)'
  <2> SUFFICES ASSUME NEW y \in Co, Answers(sched'[q], y)
               PROVE  sched'[q].co[y].fd \in Open(q)'
    BY DEF HoldersOK, Answers
  <2>1. CASE q = p /\ y = x
    <3>1. r.co[x].fd = c /\ n.st = "open"
      BY <1>2, <2>1 DEF Acts
    <3>2. QED
      BY <1>1, <1>2, <2>1, <3>1 DEF Open
  <2>2. CASE q # p \/ y # x
    <3>1. /\ sched[q].alive /\ sched'[q].co[y] = sched[q].co[y] /\ Answers(sched[q], y)
          /\ q = p => sched[q].co[y].fd # c
      BY <1>1, <1>2, <1>4, <2>2 DEF Acts, Answers
    <3>2. sched[q].co[y].fd \in Open(q)
      BY <3>1 DEF RInv, HoldersOK
    <3>3. QED
      BY <1>3, <3>1, <3>2
  <2>3. QED
    BY <2>1, <2>2
<1>5. ASSUME NEW d \in Conn, d # c PROVE FlowOK(d)'
  <2>1. ASSUME NEW y \in Co, Answers(r, y), r.co[y].fd = d
        PROVE  Holds(p, y, d) /\ Val(r, y) = Val(sched[p], y)
    <3>1. y # x /\ y # None /\ r.co[y] = sched[p].co[y] /\ r.cur # y /\ sched[p].cur # y
      BY <1>5, <2>1, CoFacts DEF Acts
    <3>2. QED
      BY <1>1, <2>1, <3>1 DEF Holds, Answers, Val
  <2>2. SameFlow(d)
    BY <1>2, <1>5 DEF SameFlow
  <2>3. QED
    BY <2>1, <2>2, FlowSame
<1>6. FlowOK(c)'
  <2>1. ASSUME NEW q \in Proc, NEW y \in Co, Holds(q, y, c)' PROVE q = p /\ y = x
    <3> SUFFICES ASSUME q # p \/ y # x PROVE FALSE
      OBVIOUS
    <3>1. sched'[q].alive /\ Answers(sched'[q], y) /\ sched'[q].co[y].fd = c
      BY <2>1 DEF Holds, Answers
    <3>2. /\ sched[q].alive /\ sched[q].co[y].fd = c /\ Answers(sched[q], y) /\ q # p
      BY <1>1, <1>2, <3>1 DEF Acts, Answers
    <3>3. c \in Open(q)
      BY <3>2 DEF RInv, HoldersOK
    <3>4. QED
      BY <1>3, <3>2, <3>3
  <2>2. Holds(p, x, c)' => Answers(r, x)
    BY <1>2 DEF Holds, Answers
  <2>3. Val(sched[p], x)' = Val(r, x)
    BY <1>2 DEF Val
  <2> SUFFICES ASSUME conn'[c].reset = "no"
               PROVE  FlowOK(c)'
    BY DEF FlowOK
  <2> DEFINE k == Len(n.replies)
             v == <<c, k + 1>>
             l == <<v>>
  <2>4. /\ \A i \in 1 .. k : n.replies[i] = <<c, i>>
        /\ n.rx # <<>> => n.rx = l /\ n.n = k + 1 /\ ~Answers(r, x)
        /\ Answers(r, x) => Val(r, x) = v /\ n.n = k + 1
    BY <1>2 DEF Tidy
  <2>5. Len(conn'[c].replies) = k
    BY <1>2
  <2> HIDE DEF k
  <2>6. n.rx # <<>> => \A q \in Proc, y \in Co : ~Holds(q, y, c)'
    BY <2>1, <2>2, <2>4
  <2>7. ASSUME NEW q \in Proc, NEW y \in Co, Holds(q, y, c)'
        PROVE  Val(sched[q], y)' = v /\ n.n = k + 1
    <3>1. q = p /\ y = x
      BY <2>1, <2>7
    <3>2. Holds(p, x, c)'
      BY <2>7, <3>1
    <3>3. Val(r, x) = v /\ n.n = k + 1
      BY <2>2, <2>4, <3>2
    <3>4. QED
      BY <2>3, <3>1, <3>3
  <2>8. QED
    BY <1>2, <2>4, <2>5, <2>6, <2>7 DEF FlowOK
<1>7. QED
  BY <1>4, <1>5, <1>6 DEF RInv

(* A reader woken by its connection has its stack back, and is the only one *)
(* with an answer for that connection, if it has one.                       *)
Alone(p, x, c, w) ==
  /\ Running(p) /\ Reads(p, c, x, w) /\ w.co = sched[p].co /\ w.stack.val = sched[p].co[x].saved
  /\ sched[p].cur = None /\ sched[p].co[x].fd = c
  /\ \A y \in Co : y # x /\ Answers(sched[p], y) => sched[p].co[y].fd # c

(* The tree has one coroutine for a descriptor.                             *)
LEMMA WakeValues ==
  ASSUME IInv, NEW p \in Proc, NEW at \in {"recv", "sendw"}, IsEvent(p, at),
         NEW x, x = nty_schedule_search_wait(p), NEW c, c = Event(p), NEW w, w = Resumed(p)
  PROVE  Alone(p, x, c, w) /\ sched[p].co[x].at = at
<1> DEFINE s == sched[p]
           e == Front(s.events)
<1>1. Running(p) /\ s.pc = "events" /\ s.events # <<>> /\ x = s.waiting[c]
  BY DEF IsEvent, nty_schedule_search_wait, RB_FIND
<1>2. s \in Scheduler /\ s.cur = None /\ SchedOK(s)
  BY <1>1, ProcessFacts
<1>3. Handles(p, c, x, w) /\ s.co[x].at = at
  BY EventFacts
<1>4. x \in Co /\ s.co[x].fd = c
  BY <1>3 DEF Handles, Wakes
<1>5. Reads(p, c, x, w)
  BY <1>3, ReaderFacts
<1>6. e \in Seq(File)
  <2>1. s.events \in Seq(File)
    BY <1>2, Fields
  <2>2. QED
    BY <1>1, <2>1, FrontFacts
<1>7. w = Woken([s EXCEPT !.events = e], x, c)
  BY DEF Resumed
<1> HIDE DEF e
<1>8. w.co = s.co /\ w.stack.val = s.co[x].saved
  BY <1>2, <1>3, <1>4, <1>6, <1>7, WokenValues
<1>9. ASSUME NEW y \in Co, y # x, Answers(s, y) PROVE s.co[y].fd # c
  <2>1. Core(s, {})
    BY <1>2, IdleFacts
  <2>2. s.co[y].at \notin Active /\ (s.co[y].at \in Blocked => s.waiting[s.co[y].fd] = y)
    BY <2>1 DEF Core, HandOK, TreeOK
  <2>3. s.co[y].at = "sendw"
    BY <1>9, <2>2 DEF Answers, Active
  <2>4. s.waiting[s.co[y].fd] = y
    BY <2>2, <2>3 DEF Blocked
  <2>5. QED
    BY <1>1, <1>9, <2>4
<1>10. QED
  BY <1>1, <1>2, <1>3, <1>4, <1>5, <1>8, <1>9 DEF Alone

(* A reader goes on with the rest of its answer.                            *)
LEMMA WritableFlow ==
  ASSUME RInv, IInv', NEW p \in Proc, Writable(p)
  PROVE  RInv'
<1> DEFINE x == nty_schedule_search_wait(p)
           c == Event(p)
           w == Resumed(p)
           r == [w EXCEPT !.pc = "run", !.co[x].at = "send2"]
<1>1. IInv /\ IsEvent(p, "sendw") /\ Step(p, r) /\ conn' = conn
  BY DEF Writable, RInv
<1>2. Alone(p, x, c, w) /\ sched[p].co[x].at = "sendw"
  BY <1>1, WakeValues
<1> HIDE DEF x, c, w
<1>3. /\ Running(p) /\ w.cur = x /\ w.co[x].fd = c /\ w.stack.val = sched[p].co[x].saved
      /\ conn[c].st = "open" /\ conn[c].owner = p /\ w.alive
      /\ x \in Co \ {Server} /\ c \in Conn /\ w \in Scheduler /\ Core(w, {x})
  BY <1>2 DEF Alone, Reads, InHand
<1>4. GoesOn(w, x, "send2", r)
  <2>1. "send2" \in Active /\ (x = Server) = FALSE /\ ("send2" = "lock") = FALSE
    BY <1>3 DEF Active
  <2>2. QED
    BY <1>3, <2>1, GoesOnKeeps
<1> HIDE DEF r
<1>5. r.cur = x /\ Answers(r, x) /\ r.co[x].fd = c /\ Val(r, x) = sched[p].co[x].saved
  BY <1>3, <1>4 DEF GoesOn, Answers, Val
<1>6. Answers(sched[p], x) /\ Val(sched[p], x) = sched[p].co[x].saved
  <2>1. sched[p].cur = None /\ x # None
    BY <1>2, <1>3, CoFacts DEF Alone
  <2>2. QED
    BY <1>2, <2>1 DEF Answers, Val
<1>7. Acts(p, x, c, r)
  BY <1>2, <1>3, <1>4, <1>5 DEF Acts, Alone, GoesOn
<1>8. Tidy(conn[c], c, TRUE, sched[p].co[x].saved)
  <2>1. Tidy(conn[c], c, Answers(sched[p], x), Val(sched[p], x))
    BY <1>2, <1>3, FlowTidy DEF Alone
  <2>2. QED
    BY <1>6, <2>1 DEF Tidy
<1>9. Tidy(conn[c], c, Answers(r, x), Val(r, x))
  BY <1>5, <1>8 DEF Tidy
<1> DEFINE n == conn[c]
<1>10. conn' = [conn EXCEPT ![c] = n] /\ n.owner = p /\ n.st = "open"
  BY <1>1, <1>3 DEF IInv, TypeOK
<1>11. Tidy(n, c, Answers(r, x), Val(r, x))
  BY <1>9
<1> HIDE DEF n
<1>12. QED
  BY <1>1, <1>7, <1>10, <1>11, ReaderFlow

(* A reader that answers has the value on the stack.                        *)
Sends(w, x, val, r) ==
  /\ r.alive = w.alive /\ r.cur = w.cur /\ r.stack.val = val
  /\ Answers(r, x) /\ r.co[x].fd = w.co[x].fd /\ \A y \in Co : y # x => r.co[y] = w.co[y]

(* It answers what it received.                                             *)
LEMMA AnsweringValues ==
  ASSUME NEW w \in Scheduler, NEW x \in Co \ {Server}, Core(w, {x}), w.co[x].fd \in Conn,
         NEW val \in Local, NEW r, r = Answering(w, x, val)
  PROVE  Sends(w, x, val, r)
<1> DEFINE l == SetLocal(w, x, val)
<1>1. l \in Scheduler /\ Alike(w, l)
  BY SetLocalFacts
<1>2. l.co = w.co /\ l.cur = w.cur /\ l.stack.val = val /\ l.alive = w.alive
  BY SetLocalValues
<1>3. r = [l EXCEPT !.pc = "run", !.co[x].at = "send"]
  BY DEF Answering
<1> HIDE DEF l
<1>4. Core(l, {x})
  BY <1>1, CoreAlike
<1>5. "send" \in Active /\ (x = Server) = FALSE /\ ("send" = "lock") = FALSE
  BY DEF Active
<1>6. GoesOn(l, x, "send", r)
  BY <1>1, <1>2, <1>3, <1>4, <1>5, GoesOnKeeps
<1>7. QED
  BY <1>2, <1>6 DEF GoesOn, Answers, Sends

(* The reader takes the only request there is.                              *)
LEMMA TakeTidy ==
  ASSUME NEW o \in Connection, NEW c \in Conn, NEW a, NEW u, Tidy(o, c, a, u), o.rx # <<>>,
         NEW n, n = [o EXCEPT !.rx = Tail(o.rx)], NEW v, v = Head(o.rx)
  PROVE  Tidy(n, c, TRUE, v)
<1> SUFFICES ASSUME n.reset = "no" PROVE Tidy(n, c, TRUE, v)
  BY DEF Tidy
<1> DEFINE k == Len(o.replies)
           g == <<c, k + 1>>
<1>1. n.reset = o.reset /\ n.replies = o.replies /\ n.n = o.n /\ n.rx = Tail(o.rx)
  BY DEF Connection
<1>2. (\A i \in 1 .. k : o.replies[i] = <<c, i>>) /\ o.rx = <<g>> /\ o.n = k + 1
  BY <1>1 DEF Tidy
<1>3. v = g /\ n.rx = <<>>
  <2> HIDE DEF g
  <2> QED
    BY <1>1, <1>2
<1>4. Len(n.replies) = k
  BY <1>1
<1> HIDE DEF k
<1>5. QED
  BY <1>1, <1>2, <1>3, <1>4 DEF Tidy

(* The connection is closed: its reader has no answer.                      *)
LEMMA EndTidy ==
  ASSUME NEW o \in Connection, NEW c \in Conn, NEW a, NEW u, Tidy(o, c, a, u),
         NEW n, n = [o EXCEPT !.st = "closed"], NEW v
  PROVE  Tidy(n, c, FALSE, v)
<1>1. n.reset = o.reset /\ n.replies = o.replies /\ n.n = o.n /\ n.rx = o.rx
  BY DEF Connection
<1>2. QED
  BY <1>1 DEF Tidy

(* The answer was the next one, and there is no request left.               *)
LEMMA ReplyTidy ==
  ASSUME NEW o \in Connection, NEW c \in Conn, NEW v \in Local, Tidy(o, c, TRUE, v),
         o.reset = "no", NEW n, n = [o EXCEPT !.replies = Append(o.replies, v)], NEW u
  PROVE  Tidy(n, c, FALSE, u)
<1> DEFINE k == Len(o.replies)
           g == <<c, k + 1>>
           b == Append(o.replies, v)
<1>1. o.replies \in Seq(Local) /\ k \in Nat
  BY DEF Connection
<1>2. n.reset = o.reset /\ n.replies = b /\ n.n = o.n /\ n.rx = o.rx
  BY DEF Connection
<1>3. (\A i \in 1 .. k : o.replies[i] = <<c, i>>) /\ o.rx = <<>> /\ v = g
  BY DEF Tidy
<1>4. Len(b) = k + 1 /\ b[k + 1] = v /\ \A i \in 1 .. k : b[i] = o.replies[i]
  BY <1>1
<1>5. \A i \in 1 .. k + 1 : i = k + 1 \/ i \in 1 .. k
  BY <1>1
<1> HIDE DEF b, k
<1>6. \A i \in 1 .. k + 1 : b[i] = <<c, i>>
  BY <1>3, <1>4, <1>5
<1>7. \A i \in 1 .. Len(n.replies) : n.replies[i] = <<c, i>>
  BY <1>2, <1>4, <1>6
<1>8. n.rx = <<>>
  BY <1>2, <1>3
<1>9. QED
  BY <1>7, <1>8 DEF Tidy

(* A reader that was woken has acted.                                       *)
LEMMA AloneActs ==
  ASSUME NEW p, NEW x, NEW c, NEW w, Alone(p, x, c, w), NEW r, r.alive, r.cur \in {None, x},
         \A y \in Co : y # x => r.co[y] = w.co[y], Answers(r, x) => r.co[x].fd = c
  PROVE  Acts(p, x, c, r)
BY DEF Alone, Acts, Reads, InHand

(* recv: an error, a request, or the end.                                   *)
LEMMA RecvFlow ==
  ASSUME RInv, IInv', NEW p \in Proc, recv(p)
  PROVE  RInv'
<1> DEFINE x == nty_schedule_search_wait(p)
           c == Event(p)
           w == Resumed(p)
           Err == /\ IF Is("kvstore") THEN Step(p, nty_poll_inner(w, x, c, "recv", Open(p)))
                                      ELSE Step(p, Answering(w, x, None))
                  /\ conn' = [conn EXCEPT ![c].reset = "seen"]
           Req == /\ conn[c].rx # <<>>
                  /\ Step(p, Answering(w, x, Head(conn[c].rx)))
                  /\ conn' = [conn EXCEPT ![c].rx = Tail(@)]
           End == Step(p, _exec(w, x)) /\ conn' = Closed(c)
<1>1. IInv /\ IsEvent(p, "recv") /\ (Err \/ Req \/ End)
  BY DEF recv, RInv
<1>2. Alone(p, x, c, w) /\ sched[p].co[x].at = "recv"
  BY <1>1, WakeValues
<1> HIDE DEF x, c, w
<1>3. /\ Running(p) /\ InHand(p, x, c, w) /\ w.pc = "events" /\ w.cur = x /\ w.co[x].fd = c
      /\ conn[c].st = "open" /\ conn[c].owner = p /\ w.alive
      /\ x \in Co \ {Server} /\ c \in Conn /\ w \in Scheduler /\ Core(w, {x})
  BY <1>2 DEF Alone, Reads, InHand
<1>4. conn \in [Conn -> Connection] /\ conn[c] \in Connection /\ Open(p) \in SUBSET File
  BY <1>1, <1>3, ProcessFacts DEF IInv, TypeOK
<1>5. Tidy(conn[c], c, Answers(sched[p], x), Val(sched[p], x))
  BY <1>2, <1>3, FlowTidy DEF Alone
<1>6. ASSUME NEW val \in Local, NEW r, r = Answering(w, x, val)
      PROVE  Acts(p, x, c, r) /\ Answers(r, x) /\ Val(r, x) = val
  <2>1. Sends(w, x, val, r)
    <3>1. w.co[x].fd \in Conn
      BY <1>3
    <3>2. QED
      BY <1>3, <1>6, <3>1, AnsweringValues
  <2>2. r.alive /\ r.cur = x /\ r.co[x].fd = c
    BY <1>3, <2>1 DEF Sends
  <2>3. Acts(p, x, c, r)
    BY <1>2, <2>1, <2>2, AloneActs DEF Sends
  <2>4. QED
    BY <2>1, <2>2, <2>3 DEF Val, Sends
<1>7. CASE Err
  <2> DEFINE n == [conn[c] EXCEPT !.reset = "seen"]
  <2>1. PICK r : Step(p, r) /\ (r = nty_poll_inner(w, x, c, "recv", Open(p)) \/ r = Answering(w, x, None))
    BY <1>7
  <2>2. Acts(p, x, c, r)
    <3>1. CASE r = nty_poll_inner(w, x, c, "recv", Open(p))
      <4>1. Fine(p, r)
        BY <1>1, <1>3, <3>1, WaitsFine
      <4>2. c \in Fd /\ "recv" \in At
        BY <1>3 DEF Fd, File, At
      <4>3. Polls(w, x, c, "recv", r)
        BY <1>3, <1>4, <3>1, <4>2, PollValues
      <4>4. r.alive /\ r.cur = None /\ r.co[x].fd = c /\ \A y \in Co : y # x => r.co[y] = w.co[y]
        BY <4>1, <4>3 DEF Fine, Polls
      <4>5. QED
        BY <1>2, <4>4, AloneActs
    <3>2. CASE r = Answering(w, x, None)
      <4>1. None \in Local
        BY DEF Local
      <4>2. QED
        BY <1>6, <3>2, <4>1
    <3>3. QED
      BY <2>1, <3>1, <3>2
  <2>3. n.owner = p /\ n.st = "open" /\ n.reset = "seen"
    BY <1>3, <1>4 DEF Connection
  <2>4. conn' = [conn EXCEPT ![c] = n]
    BY <1>7
  <2> HIDE DEF n
  <2>5. Tidy(n, c, Answers(r, x), Val(r, x))
    BY <2>3 DEF Tidy
  <2>6. QED
    BY <2>1, <2>2, <2>3, <2>4, <2>5, ReaderFlow
<1>8. CASE Req
  <2> DEFINE o == conn[c]
             v == Head(o.rx)
             n == [o EXCEPT !.rx = Tail(o.rx)]
             r == Answering(w, x, v)
  <2>1. Step(p, r) /\ conn' = [conn EXCEPT ![c] = n] /\ o.rx # <<>>
    BY <1>8
  <2>2. o.rx \in Seq(Message)
    BY <1>4 DEF Connection
  <2>3. v \in Local
    BY <2>1, <2>2 DEF Local
  <2>4. Tidy(n, c, TRUE, v)
    BY <1>3, <1>4, <1>5, <2>1, TakeTidy
  <2>5. n.owner = p /\ n.st = "open"
    BY <1>3, <1>4 DEF Connection
  <2> HIDE DEF n, v
  <2>6. Acts(p, x, c, r) /\ Answers(r, x) /\ Val(r, x) = v
    BY <1>6, <2>3
  <2> HIDE DEF r
  <2>7. Tidy(n, c, Answers(r, x), Val(r, x))
    BY <2>4, <2>6 DEF Tidy
  <2>8. QED
    BY <2>1, <2>5, <2>6, <2>7, ReaderFlow
<1>9. CASE End
  <2> DEFINE o == conn[c]
             n == [o EXCEPT !.st = "closed"]
             r == _exec(w, x)
  <2>1. Step(p, r) /\ conn' = [conn EXCEPT ![c] = n]
    BY <1>9 DEF Closed
  <2>2. Released(w, x, "free", r)
    BY <1>3, ExitKeeps
  <2> HIDE DEF r
  <2>3. /\ r.alive /\ r.cur = None /\ ~Answers(r, x) /\ \A y \in Co : y # x => r.co[y] = w.co[y]
    BY <1>3, <2>2 DEF Released, Answers
  <2>4. Acts(p, x, c, r)
    BY <1>2, <2>3, AloneActs
  <2>5. n.owner = p
    BY <1>3, <1>4 DEF Connection
  <2>6. Tidy(n, c, FALSE, Val(r, x))
    BY <1>3, <1>4, <1>5, EndTidy
  <2> HIDE DEF n
  <2>7. Tidy(n, c, Answers(r, x), Val(r, x))
    BY <2>3, <2>6 DEF Tidy
  <2>8. QED
    BY <2>1, <2>3, <2>4, <2>5, <2>7, ReaderFlow
<1>10. QED
  BY <1>1, <1>7, <1>8, <1>9

(* The reader x that runs has its answer on the stack, alone with its       *)
(* connection c.                                                            *)
Talks(p, x, c) ==
  /\ Running(p) /\ sched[p].cur = x /\ sched[p].co[x].fd = c
  /\ x \in Co \ {Server} /\ c \in Conn /\ conn[c].st = "open" /\ conn[c].owner = p
  /\ Answers(sched[p], x) /\ Val(sched[p], x) = sched[p].stack.val
  /\ sched[p].stack.val \in Local
  /\ \A y \in Co : y # x /\ Answers(sched[p], y) => sched[p].co[y].fd # c

(* Nobody waits for the descriptor of the coroutine that runs.              *)
LEMMA TalkFacts ==
  ASSUME RInv, NEW p \in Proc, Running(p), sched[p].pc = "run",
         NEW x, x = sched[p].cur, sched[p].co[x].at \in {"send", "send2"},
         NEW c, c = sched[p].co[x].fd
  PROVE  Talks(p, x, c)
<1> DEFINE s == sched[p]
<1>1. IInv /\ HoldersOK(p)
  BY DEF RInv, Running
<1>2. x \in Co \ {Server} /\ c \in Conn /\ s.stack.val \in Local
  BY <1>1, RunFacts
<1>3. Answers(s, x) /\ Val(s, x) = s.stack.val
  BY DEF Answers, Val
<1>4. c \in Open(p)
  BY <1>1, <1>2, <1>3 DEF HoldersOK
<1>5. conn[c].st = "open" /\ conn[c].owner = p
  BY <1>2, <1>4, ConstantAssumption DEF Open
<1>6. ASSUME NEW y \in Co, y # x, Answers(s, y) PROVE s.co[y].fd # c
  <2>1. SchedOK(s) /\ Hand(s) = {x} /\ x # None /\ y # None
    BY <1>1, <1>2, ProcessFacts, CoFacts DEF Hand
  <2>2. Core(s, {x}) /\ s.waiting[c] = None
    BY <1>2, <2>1 DEF SchedOK, RunOK
  <2>3. s.co[y].at \notin Active /\ (s.co[y].at \in Blocked => s.waiting[s.co[y].fd] = y)
    BY <1>6, <2>2 DEF Core, HandOK, TreeOK
  <2>4. s.co[y].at = "sendw"
    BY <1>6, <2>3 DEF Answers, Active
  <2>5. s.waiting[s.co[y].fd] = y
    BY <2>3, <2>4 DEF Blocked
  <2>6. QED
    BY <2>1, <2>2, <2>5
<1>7. QED
  BY <1>2, <1>3, <1>5, <1>6 DEF Talks

(* What has become of the value when the reader waits again.                *)
LEMMA TalkValues ==
  ASSUME RInv, NEW p \in Proc, sched[p].pc = "run", NEW x, NEW c, Talks(p, x, c),
         sched[p].co[x].at \in {"send", "send2"},
         NEW r, r = ReceiveAgain(p, x) \/ r = WaitWritable(p, x)
  PROVE  /\ Acts(p, x, c, r)
         /\ r = ReceiveAgain(p, x) => ~Answers(r, x)
         /\ r = WaitWritable(p, x) => Answers(r, x) /\ Val(r, x) = sched[p].stack.val
<1> DEFINE s == sched[p]
           t == [s EXCEPT !.pc = "events"]
           l == SetLocal(t, x, None)
<1>1. /\ IInv /\ Running(p) /\ x \in Co \ {Server} /\ c \in Conn /\ s.cur = x /\ s.co[x].fd = c
      /\ x # None
  BY CoFacts DEF RInv, Talks
<1>2. s \in Scheduler /\ s.alive /\ Open(p) \in SUBSET File
  BY <1>1, ProcessFacts
<1>3. t \in Scheduler /\ t.co = s.co /\ t.stack = s.stack /\ t.alive
  BY <1>2 DEF Scheduler
<1>4. c \in Fd /\ "recv" \in At /\ "sendw" \in At /\ None \in Local
  BY <1>1 DEF Fd, File, At, Local
<1>5. Fine(p, r)
  BY <1>1, RunFacts
<1>6. r.alive
  BY <1>5 DEF Fine
<1>7. ASSUME NEW u, NEW at, Polls(u, x, c, at, r), u.co = s.co
      PROVE  Acts(p, x, c, r) /\ r.co[x].at = at /\ Val(r, x) = u.stack.val
  <2>1. /\ r.cur = None /\ r.co[x].at = at /\ r.co[x].fd = c /\ r.co[x].saved = u.stack.val
        /\ \A y \in Co : y # x => r.co[y] = s.co[y]
    BY <1>6, <1>7 DEF Polls
  <2>2. Acts(p, x, c, r)
    BY <1>6, <2>1 DEF Acts, Talks
  <2>3. QED
    BY <1>1, <2>1, <2>2 DEF Val
<1>8. CASE r = ReceiveAgain(p, x)
  <2>1. r = nty_poll_inner(l, x, c, "recv", Open(p))
    BY <1>1, <1>8 DEF ReceiveAgain
  <2> HIDE DEF t
  <2>2. l \in Scheduler /\ l.co = s.co /\ l.alive
    BY <1>1, <1>3, <1>4, SetLocalFacts, SetLocalValues
  <2> HIDE DEF l
  <2>3. Polls(l, x, c, "recv", r)
    BY <1>1, <1>2, <1>4, <2>1, <2>2, PollValues
  <2>4. Acts(p, x, c, r) /\ r.co[x].at = "recv"
    BY <1>7, <2>2, <2>3
  <2>5. ~Answers(r, x)
    BY <2>4 DEF Answers
  <2>6. r # WaitWritable(p, x)
    <3>1. ASSUME r = WaitWritable(p, x) PROVE FALSE
      <4>1. r = nty_poll_inner(t, x, c, "sendw", Open(p))
        BY <1>1, <3>1 DEF WaitWritable, t
      <4>2. Polls(t, x, c, "sendw", r)
        BY <1>1, <1>2, <1>3, <1>4, <4>1, PollValues
      <4>3. r.co[x].at = "sendw"
        BY <1>6, <4>2 DEF Polls
      <4>4. QED
        BY <2>4, <4>3
    <3>2. QED
      BY <3>1
  <2>7. QED
    BY <2>4, <2>5, <2>6
<1>9. CASE r = WaitWritable(p, x) /\ r # ReceiveAgain(p, x)
  <2>1. r = nty_poll_inner(t, x, c, "sendw", Open(p))
    BY <1>1, <1>9 DEF WaitWritable
  <2> HIDE DEF t
  <2>2. Polls(t, x, c, "sendw", r)
    BY <1>1, <1>2, <1>3, <1>4, <2>1, PollValues
  <2>3. Acts(p, x, c, r) /\ r.co[x].at = "sendw" /\ Val(r, x) = t.stack.val
    BY <1>3, <1>7, <2>2
  <2>4. Answers(r, x) /\ Val(r, x) = s.stack.val
    BY <1>3, <2>3 DEF Answers
  <2>5. QED
    BY <1>9, <2>3, <2>4
<1>10. QED
  BY <1>8, <1>9

(* send and send_rest: the answer leaves, waits, or is given up with the    *)
(* connection or the process.                                               *)
LEMMA AnswerFlow ==
  ASSUME RInv, IInv', NEW p \in Proc, send(p) \/ send_rest(p)
  PROVE  RInv'
<1> DEFINE s == sched[p]
           x == s.cur
           c == s.co[x].fd
           o == conn[c]
           v == s.stack.val
           Done(r) == r = ReceiveAgain(p, x) /\ o.reset = "no" /\ conn' = Replied(c, s)
           Part(r) == r = WaitWritable(p, x) /\ conn' = conn
           Fail(r) == /\ r = ReceiveAgain(p, x) \/ r = WaitWritable(p, x)
                      /\ conn' = [conn EXCEPT ![c].reset = "seen"]
           w == [s EXCEPT !.pc = "events"]
           Close == Step(p, _exec(w, x)) /\ conn' = Closed(c)
<1>1. /\ Running(p) /\ s.pc = "run" /\ s.co[x].at \in {"send", "send2"}
      /\ Broken(p) \/ Close \/ \E r : Step(p, r) /\ (Done(r) \/ Part(r) \/ Fail(r))
  BY DEF send, send_rest, Failed
<1>2. Talks(p, x, c)
  BY <1>1, TalkFacts
<1> HIDE DEF x, c
<1>3. /\ x \in Co /\ c \in Conn /\ s.co[x].fd = c /\ o.st = "open" /\ o.owner = p
      /\ v \in Local /\ Answers(s, x) /\ Val(s, x) = v
  BY <1>2 DEF Talks
<1>4. conn \in [Conn -> Connection] /\ o \in Connection
  BY <1>3 DEF RInv, IInv, TypeOK
<1>5. Tidy(o, c, TRUE, v)
  <2>1. Tidy(o, c, Answers(s, x), Val(s, x))
    BY <1>1, <1>3, FlowTidy
  <2>2. QED
    BY <1>3, <2>1 DEF Tidy
<1>6. CASE Broken(p)
  <2> DEFINE r == [s EXCEPT !.alive = FALSE, !.cur = None]
  <2>1. s \in Scheduler
    BY <1>1, ProcessFacts DEF RInv
  <2>2. Step(p, r) /\ conn' = Orphaned(p) /\ ~r.alive
    BY <1>6, <2>1 DEF Broken, Scheduler
  <2> HIDE DEF r
  <2>3. QED
    BY <1>1, <2>2, DeathFlow
<1>7. ASSUME NEW r, Step(p, r), Done(r) \/ Part(r) \/ Fail(r) PROVE RInv'
  <2>1. /\ Acts(p, x, c, r)
        /\ r = ReceiveAgain(p, x) => ~Answers(r, x)
        /\ r = WaitWritable(p, x) => Answers(r, x) /\ Val(r, x) = v
    BY <1>1, <1>2, <1>7, TalkValues
  <2>2. CASE Done(r)
    <3> DEFINE n == [o EXCEPT !.replies = Append(o.replies, v)]
    <3>1. conn' = [conn EXCEPT ![c] = n]
      BY <2>2 DEF Replied
    <3>2. n.owner = p
      BY <1>3, <1>4 DEF Connection
    <3>3. Tidy(n, c, FALSE, Val(r, x))
      BY <1>3, <1>4, <1>5, <2>2, ReplyTidy
    <3> HIDE DEF n
    <3>4. ~Answers(r, x)
      BY <2>1, <2>2
    <3>5. Tidy(n, c, Answers(r, x), Val(r, x))
      BY <3>3, <3>4 DEF Tidy
    <3>6. QED
      BY <1>7, <2>1, <3>1, <3>2, <3>4, <3>5, ReaderFlow
  <2>3. CASE Part(r)
    <3>1. Answers(r, x) /\ Val(r, x) = v
      BY <2>1, <2>3
    <3>2. Tidy(o, c, Answers(r, x), Val(r, x))
      BY <1>5, <3>1 DEF Tidy
    <3>3. conn' = [conn EXCEPT ![c] = o]
      BY <1>3, <1>4, <2>3
    <3> HIDE DEF o
    <3>4. QED
      BY <1>3, <1>7, <2>1, <3>2, <3>3, ReaderFlow
  <2>4. CASE Fail(r)
    <3> DEFINE n == [o EXCEPT !.reset = "seen"]
    <3>1. n.owner = p /\ n.st = "open" /\ n.reset = "seen"
      BY <1>3, <1>4 DEF Connection
    <3>2. conn' = [conn EXCEPT ![c] = n]
      BY <2>4
    <3> HIDE DEF n
    <3>3. Tidy(n, c, Answers(r, x), Val(r, x))
      BY <3>1 DEF Tidy
    <3>4. QED
      BY <1>7, <2>1, <3>1, <3>2, <3>3, ReaderFlow
  <2>5. QED
    BY <1>7, <2>2, <2>3, <2>4
<1>8. CASE Close
  <2> DEFINE n == [o EXCEPT !.st = "closed"]
             r == _exec(w, x)
  <2>1. Step(p, r) /\ conn' = [conn EXCEPT ![c] = n]
    BY <1>8 DEF Closed
  <2>2. IInv /\ HoldersOK(p) /\ s \in Scheduler
    BY <1>1, ProcessFacts DEF RInv, Running
  <2>3. Reads(p, c, x, w)
    BY <1>1, <2>2, RunFacts DEF x, c
  <2>4. w.co = s.co
    BY <2>2 DEF Scheduler
  <2> HIDE DEF w
  <2>5. w \in Scheduler /\ Core(w, {x}) /\ w.alive
    BY <2>3 DEF Reads, InHand
  <2>6. Released(w, x, "free", r)
    BY <1>3, <2>5, ExitKeeps
  <2> HIDE DEF r
  <2>7. /\ r.alive /\ r.cur = None /\ ~Answers(r, x) /\ \A y \in Co : y # x => r.co[y] = s.co[y]
    BY <2>4, <2>5, <2>6 DEF Released, Answers
  <2>8. Acts(p, x, c, r)
    BY <1>2, <2>7 DEF Acts, Talks
  <2>9. n.owner = p
    BY <1>3, <1>4 DEF Connection
  <2>10. Tidy(n, c, FALSE, Val(r, x))
    BY <1>3, <1>4, <1>5, EndTidy
  <2> HIDE DEF n
  <2>11. Tidy(n, c, Answers(r, x), Val(r, x))
    BY <2>7, <2>10 DEF Tidy
  <2>12. QED
    BY <2>1, <2>7, <2>8, <2>9, <2>11, ReaderFlow
<1>9. QED
  BY <1>1, <1>6, <1>7, <1>8

(* The initial states: nothing was sent and nobody answers.                 *)
LEMMA FlowInit ==
  ASSUME Init
  PROVE  RInv
<1>1. IInv
  BY InitHolds
<1>2. ASSUME NEW p \in Proc, NEW x \in Co PROVE ~Answers(sched[p], x)
  <2> DEFINE f == [y \in Co |-> Free]
             g == [f EXCEPT ![Server] = [Free EXCEPT !.at = "new"]]
  <2>1. sched[p].co = g
    BY DEF Init, process_bind, nty_schedule_create
  <2>2. f[x].at = "free" /\ g[Server].at = "new" /\ (x # Server => g[x] = f[x])
    BY CoFacts DEF Free
  <2> HIDE DEF f, g
  <2>3. QED
    BY <2>1, <2>2 DEF Answers
<1>3. ASSUME NEW c \in Conn PROVE FlowOK(c)
  <2>1. conn[c].rx = <<>> /\ conn[c].replies = <<>>
    BY DEF Init
  <2>2. \A p \in Proc, x \in Co : ~Holds(p, x, c)
    BY <1>2 DEF Holds
  <2>3. \A i \in 1 .. Len(conn[c].replies) : FALSE
    BY <2>1
  <2>4. QED
    BY <2>1, <2>2, <2>3 DEF FlowOK
<1>4. QED
  BY <1>1, <1>2, <1>3 DEF RInv, HoldersOK

(* Every step.                                                              *)
LEMMA FlowNext ==
  ASSUME RInv, [Next]_vars
  PROVE  RInv'
<1>1. IInv'
  BY NextHolds DEF RInv
<1>2. CASE Client
  BY <1>1, <1>2, ClientFlow
<1>3. ASSUME NEW p \in Proc, Worker(p) PROVE RInv'
  BY <1>1, <1>3, StartServerFlow, StartLockFlow, RetryLockFlow, StartReaderFlow, PhaseFlow,
     ServerKvstoreFlow, ServerHttpdFlow, RecvFlow, AnswerFlow, WritableFlow DEF Worker
<1>4. CASE UNCHANGED vars
  <2>1. sched' = sched /\ conn' = conn
    BY <1>4 DEF vars
  <2>2. ASSUME NEW c \in Conn PROVE FlowOK(c)'
    <3>1. SameFlow(c) /\ FlowOK(c)
      BY <2>1 DEF SameFlow, RInv
    <3>2. \A q \in Proc, x \in Co : Holds(q, x, c)'
            => Holds(q, x, c) /\ Val(sched[q], x)' = Val(sched[q], x)
      BY <2>1 DEF Holds, Answers, Val
    <3>3. QED
      BY <3>1, <3>2, FlowKept
  <2>3. \A q \in Proc : sched'[q].alive => HoldersOK(q)'
    BY <2>1 DEF RInv, HoldersOK, Answers, Open
  <2>4. QED
    BY <1>1, <2>2, <2>3 DEF RInv
<1>5. QED
  BY <1>2, <1>3, <1>4 DEF Next

(* The inductive invariant holds in every reachable state.                  *)
LEMMA Inductive == Spec => []RInv
<1>1. Init => RInv
  BY FlowInit
<1>2. RInv /\ [Next]_vars => RInv'
  BY FlowNext
<1>3. QED
  BY <1>1, <1>2, PTL DEF Spec

(* nty_schedule_search_wait never finds nothing: whatever the coroutines    *)
(* before it in a batch have closed, accepted or waited for again, an event *)
(* still has its coroutine in the tree, with up to 16 processes and any     *)
(* number of connections and requests.                                      *)
THEOREM EventsFound == Spec => []EventsHaveWaiters
<1>1. RInv => EventsHaveWaiters
  BY IInvImplies DEF RInv
<1>2. QED
  BY <1>1, Inductive, PTL

(* A coroutine is running, or once in the ready queue, or once in the tree  *)
(* of the waiting ones under its descriptor; none is lost or freed while it *)
(* is in one of them, and the counter of coroutines is right; so is that of *)
(* connections of a worker which shares it with no other.  The workers are  *)
(* at most the 16 whose counters totalfds holds.                            *)
THEOREM PlacesUnique == Spec => []OnePlace
<1>1. RInv => OnePlace
  BY IInvImplies DEF RInv
<1>2. QED
  BY <1>1, Inductive, PTL

(* Of the HTTP workers, at most 16, only one is in accept, and the lock is  *)
(* taken exactly while one is, or died there.  With more workers, of which  *)
(* some have their counter where accept_mtx is, this would not follow.      *)
THEOREM AcceptLockHeld == Spec => []AcceptMutex
<1>1. RInv => AcceptMutex
  BY IInvImplies DEF RInv
<1>2. QED
  BY <1>1, Inductive, PTL

(* Every client that does not abort gets the answers to its own requests,   *)
(* each once and in order, with up to 16 workers, readers that share        *)
(* the one stack of their process, answers that leave in two parts, and     *)
(* readers that found a wrong descriptor when they started.                 *)
THEOREM RepliesOwn == Spec => []OwnReplies
<1>1. RInv => OwnReplies
  BY DEF RInv, FlowOK, OwnReplies
<1>2. QED
  BY <1>1, Inductive, PTL
==============================================================================
