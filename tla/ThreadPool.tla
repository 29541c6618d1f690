----------------------------- MODULE ThreadPool ------------------------------
(***************************************************************************)
(* The thread pool (00/04_threadpool/Threadpool.c) and its main: main      *)
(* creates the workers, pushes its tasks and destroys the pool, while      *)
(* every worker runs nThreadPoolCallback.  A step of a worker is one       *)
(* access to what threads share without the mutex (terminate, tasks) or    *)
(* one section under it.  The list of workers is in reverse order of their *)
(* creation, so worker w's next is w - 1 and 0 is its end; only main reads *)
(* that list.  Tasks are pushed in order, each once.                       *)
(***************************************************************************)
EXTENDS Integers, Sequences

CONSTANTS
  NumWorkers,   \* the argument of nThreadPoolCreate
  NumTasks      \* TASK_INIT_SIZE

ASSUME ConstantAssumption == NumWorkers \in Nat \ {0} /\ NumTasks \in Nat

Worker == 1 .. NumWorkers
Task == 1 .. NumTasks
NoTask == 0

VARIABLES
  pc,         \* where each worker is in nThreadPoolCallback
  terminate,  \* worker->terminate
  held,       \* the task a worker has taken off the list
  tasks,      \* pool->tasks, head first
  done,       \* tasks whose function has returned
  main,       \* where main is
  created,    \* workers created, the head of pool->workers
  pushed,     \* tasks pushed
  cur         \* the worker nThreadPoolDestory's loop is at

vars == <<pc, terminate, held, tasks, done, main, created, pushed, cur>>

(* The points at which a worker owns the mutex.                            *)
Critical == {"test", "idle", "check", "take"}

WorkerPc == {"new", "lock", "wait", "relock", "run", "free", "gone"} \cup Critical

Destroying == {"mark", "next", "broadcast", "clear", "return", "exit"}

MainPc == {"create", "push", "sleep"} \cup Destroying

(* Type invariant.  The code behaviour behind it: the loops of             *)
(* nThreadPoolCreate, main and nThreadPoolDestory end where their lists do.*)
TypeOK ==
  /\ pc \in [Worker -> WorkerPc]
  /\ terminate \in [Worker -> BOOLEAN]
  /\ held \in [Worker -> Task \cup {NoTask}]
  /\ tasks \in Seq(Task)
  /\ done \subseteq Task
  /\ main \in MainPc
  /\ created \in 0 .. NumWorkers
  /\ pushed \in 0 .. NumTasks
  /\ cur \in 0 .. NumWorkers

------------------------------------------------------------------------------
(* pthread_mutex_t and pthread_cond_t.                                     *)
MutexFree == \A w \in Worker : pc[w] \notin Critical

Waiting == {w \in Worker : pc[w] = "wait"}

(* pthread_cond_signal: one of the waiting threads, if any, goes on to get *)
(* the mutex back.                                                         *)
Signal ==
  \/ Waiting = {} /\ UNCHANGED pc
  \/ \E w \in Waiting : pc' = [pc EXCEPT ![w] = "relock"]

Broadcast == pc' = [w \in Worker |-> IF pc[w] = "wait" THEN "relock" ELSE pc[w]]

------------------------------------------------------------------------------
(* nThreadPoolCallback, for a worker of a process that has not exited.     *)
At(w, p) == pc[w] = p /\ main # "exit"

Goto(w, p) == pc' = [pc EXCEPT ![w] = p]

MainUnchanged == UNCHANGED <<main, created, pushed, cur>>

(* pthread_mutex_lock, and the way back into pthread_cond_wait's caller.   *)
Lock(w) ==
  /\ At(w, "lock") \/ At(w, "relock")
  /\ MutexFree
  /\ Goto(w, "test")
  /\ UNCHANGED <<terminate, held, tasks, done>> /\ MainUnchanged

(* Mutant of Test: the list is not looked at before waiting.               *)
Test_blind(w) ==
  /\ At(w, "test")
  /\ Goto(w, "idle")
  /\ UNCHANGED <<terminate, held, tasks, done>> /\ MainUnchanged

(* while (tasks == NULL)                                                   *)
Test(w) ==
  /\ At(w, "test")
  /\ Goto(w, IF tasks = <<>> THEN "idle" ELSE "check")
  /\ UNCHANGED <<terminate, held, tasks, done>> /\ MainUnchanged

(* if (terminate) break; pthread_cond_wait                                 *)
Idle(w) ==
  /\ At(w, "idle")
  /\ Goto(w, IF terminate[w] THEN "check" ELSE "wait")
  /\ UNCHANGED <<terminate, held, tasks, done>> /\ MainUnchanged

(* pthread_cond_wait may return without a signal.                          *)
SpuriousWakeup(w) ==
  /\ At(w, "wait")
  /\ Goto(w, "relock")
  /\ UNCHANGED <<terminate, held, tasks, done>> /\ MainUnchanged

(* if (terminate) { unlock; break; }                                       *)
Check(w) ==
  /\ At(w, "check")
  /\ Goto(w, IF terminate[w] THEN "free" ELSE "take")
  /\ UNCHANGED <<terminate, held, tasks, done>> /\ MainUnchanged

(* Mutant of Take: the task stays in the list.                             *)
Take_keep(w) ==
  /\ At(w, "take")
  /\ tasks # <<>>
  /\ held' = [held EXCEPT ![w] = Head(tasks)]
  /\ Goto(w, "run")
  /\ UNCHANGED <<terminate, tasks, done>> /\ MainUnchanged

(* The head of the list is removed and the mutex released.                 *)
Take(w) ==
  /\ At(w, "take")
  /\ tasks # <<>>
  /\ held' = [held EXCEPT ![w] = Head(tasks)]
  /\ tasks' = Tail(tasks)
  /\ Goto(w, "run")
  /\ UNCHANGED <<terminate, done>> /\ MainUnchanged

(* task_func: task_entry frees the task.                                   *)
Run(w) ==
  /\ At(w, "run")
  /\ done' = done \cup {held[w]}
  /\ held' = [held EXCEPT ![w] = NoTask]
  /\ Goto(w, "lock")
  /\ UNCHANGED <<terminate, tasks>> /\ MainUnchanged

(* free(worker); the thread returns.                                       *)
Free(w) ==
  /\ At(w, "free")
  /\ Goto(w, "gone")
  /\ UNCHANGED <<terminate, held, tasks, done>> /\ MainUnchanged

WorkerStep(w) ==
  \/ Lock(w) \/ Test(w) \/ Idle(w) \/ Check(w) \/ Take(w) \/ Run(w) \/ Free(w)

------------------------------------------------------------------------------
(* nThreadPoolCreate: a thread and its place in the list.  When malloc or  *)
(* pthread_create fails it returns early, and main goes on all the same.   *)
nThreadPoolCreate ==
  /\ main = "create"
  /\ \/ /\ created < NumWorkers
        /\ created' = created + 1
        /\ Goto(created + 1, "lock")
        /\ UNCHANGED main
     \/ /\ main' = "push"
        /\ UNCHANGED <<created, pc>>
  /\ UNCHANGED <<terminate, held, tasks, done, pushed, cur>>

(* Mutant of nThreadPoolPushTask: nobody is signalled.                     *)
nThreadPoolPushTask_silent ==
  /\ main = "push" /\ pushed < NumTasks
  /\ MutexFree
  /\ pushed' = pushed + 1
  /\ tasks' = <<pushed + 1>> \o tasks
  /\ UNCHANGED <<pc, terminate, held, done, main, created, cur>>

(* nThreadPoolPushTask: the task becomes the head of the list.             *)
nThreadPoolPushTask ==
  /\ main = "push" /\ pushed < NumTasks
  /\ MutexFree
  /\ pushed' = pushed + 1
  /\ tasks' = <<pushed + 1>> \o tasks
  /\ Signal
  /\ UNCHANGED <<terminate, held, done, main, created, cur>>

(* main cannot allocate a task: exit(1).                                   *)
MallocFails ==
  /\ main = "push" /\ pushed < NumTasks
  /\ main' = "exit"
  /\ UNCHANGED <<pc, terminate, held, tasks, done, created, pushed, cur>>

AllPushed ==
  /\ main = "push" /\ pushed = NumTasks
  /\ main' = "sleep"
  /\ UNCHANGED <<pc, terminate, held, tasks, done, created, pushed, cur>>

(* nThreadPoolDestory, called when sleep(2) is over.                       *)
nThreadPoolDestory ==
  /\ main = "sleep"
  /\ cur' = created
  /\ main' = IF created = 0 THEN "broadcast" ELSE "mark"
  /\ UNCHANGED <<pc, terminate, held, tasks, done, created, pushed>>

(* worker->terminate = 1, without the mutex.                               *)
Mark ==
  /\ main = "mark"
  /\ terminate' = [terminate EXCEPT ![cur] = TRUE]
  /\ main' = "next"
  /\ UNCHANGED <<pc, held, tasks, done, created, pushed, cur>>

(* Mutant of Step: the loop does not stop at the end of the list.          *)
Step_endless ==
  /\ main = "next"
  /\ cur' = cur - 1
  /\ main' = "mark"
  /\ UNCHANGED <<pc, terminate, held, tasks, done, created, pushed>>

(* worker = worker->next; a freed worker still holds its old next, since   *)
(* nothing is allocated at that time.                                      *)
Step ==
  /\ main = "next"
  /\ cur' = cur - 1
  /\ main' = IF cur = 1 THEN "broadcast" ELSE "mark"
  /\ UNCHANGED <<pc, terminate, held, tasks, done, created, pushed>>

(* Mutant of WakeAll: the broadcast does not take the mutex.               *)
WakeAll_nolock ==
  /\ main = "broadcast"
  /\ Broadcast
  /\ main' = "clear"
  /\ UNCHANGED <<terminate, held, tasks, done, created, pushed, cur>>

(* lock; pthread_cond_broadcast; unlock                                    *)
WakeAll ==
  /\ main = "broadcast"
  /\ MutexFree
  /\ Broadcast
  /\ main' = "clear"
  /\ UNCHANGED <<terminate, held, tasks, done, created, pushed, cur>>

(* workers = NULL; tasks = NULL, without the mutex.                        *)
Clear ==
  /\ main = "clear"
  /\ tasks' = <<>>
  /\ main' = "return"
  /\ UNCHANGED <<pc, terminate, held, done, created, pushed, cur>>

(* main returns and ends the process with the workers that are left.       *)
Return ==
  /\ main = "return"
  /\ main' = "exit"
  /\ UNCHANGED <<pc, terminate, held, tasks, done, created, pushed, cur>>

MainStep ==
  \/ nThreadPoolCreate \/ nThreadPoolPushTask \/ MallocFails \/ AllPushed
  \/ nThreadPoolDestory \/ Mark \/ Step \/ WakeAll \/ Clear \/ Return

Exited == main = "exit" /\ UNCHANGED vars

Init ==
  /\ pc = [w \in Worker |-> "new"]
  /\ terminate = [w \in Worker |-> FALSE]
  /\ held = [w \in Worker |-> NoTask]
  /\ tasks = <<>>
  /\ done = {}
  /\ main = "create"
  /\ created = 0
  /\ pushed = 0
  /\ cur = 0

Next ==
  \/ MainStep
  \/ \E w \in Worker : WorkerStep(w) \/ SpuriousWakeup(w)
  \/ Exited

Spec == Init /\ [][Next]_vars

(* The scheduler runs every thread that can go on.  How long main sleeps   *)
(* is not assumed.                                                         *)
FairSpec == Spec /\ \A w \in Worker : WF_vars(WorkerStep(w))

------------------------------------------------------------------------------
(* The mutex protects what it is for: two workers are never between lock   *)
(* and unlock together, pthread_cond_wait's way back included.             *)
MutualExclusion ==
  \A v, w \in Worker : pc[v] \in Critical /\ pc[w] \in Critical => v = w

(* Line 97 never dereferences an empty list: although nThreadPoolDestory   *)
(* empties the list without the mutex, no worker is then beyond its last   *)
(* test of terminate.                                                      *)
TakeFindsTask == \A w \in Worker : pc[w] = "take" => tasks # <<>>

Pending == {tasks[i] : i \in 1 .. Len(tasks)}

(* A pushed task is run by one worker and once: it is in the list, or held *)
(* by one worker, or done, or was dropped by nThreadPoolDestory.           *)
RunOnce ==
  /\ \A i, j \in 1 .. Len(tasks) : tasks[i] = tasks[j] => i = j
  /\ \A v, w \in Worker : held[v] = held[w] /\ held[v] # NoTask => v = w
  /\ \A w \in Worker : held[w] \notin Pending \cup done
  /\ Pending \cap done = {}

Awake(w) == pc[w] \notin {"new", "wait", "gone"}

(* No lost wakeup: until the pool is destroyed, a task never lies in the   *)
(* list while every worker there is sleeps in pthread_cond_wait.           *)
NoLostWakeup ==
  main \notin Destroying /\ tasks # <<>> /\ created > 0
    => \E w \in Worker : Awake(w)

(* Every pushed task is run, once the pool has a worker, unless main       *)
(* destroys the pool first.                                                *)
TasksRun ==
  \A t \in Task :
    (t \in Pending /\ created > 0) ~> (t \in done \/ main \in Destroying)
==============================================================================
