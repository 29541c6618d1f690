-------------------------- MODULE ThreadPoolProofs ---------------------------
(***************************************************************************)
(* Proofs about ThreadPool for every number of workers and tasks: mutual   *)
(* exclusion, safety of taking a task while the pool is torn down, each    *)
(* task run once, and no lost wakeup.                                      *)
(***************************************************************************)
EXTENDS ThreadPool, TLAPS

(* What main has done so far, against what the workers are allowed to see: *)
(* nobody is told to stop before nThreadPoolDestory starts, and everybody  *)
(* has been told when its loop is over.                                    *)
Lifecycle ==
  /\ \A w \in Worker : pc[w] = "new" <=> w > created
  /\ main \notin Destroying =>
       \A w \in Worker : ~terminate[w] /\ pc[w] \notin {"free", "gone"}
  /\ main \in {"mark", "next"} => cur \in 1 .. created
  /\ main = "mark" => \A w \in Worker : cur < w /\ w <= created => terminate[w]
  /\ main = "next" => \A w \in Worker : cur <= w /\ w <= created => terminate[w]
  /\ main \in {"broadcast", "clear", "return"} =>
       \A w \in Worker : w <= created => terminate[w]

(* What a worker knows of the list from its last test of it.               *)
ListKnown ==
  /\ \A w \in Worker : pc[w] = "idle" => tasks = <<>>
  /\ \A w \in Worker : pc[w] = "check" /\ ~terminate[w] => tasks # <<>>
  /\ \A w \in Worker : pc[w] = "take" => tasks # <<>>
  /\ main \in {"clear", "return"} => \A w \in Worker : pc[w] # "take"

(* Tasks not pushed yet are nowhere.                                       *)
OnlyPushed ==
  /\ \A i \in 1 .. Len(tasks) : tasks[i] <= pushed
  /\ \A w \in Worker : held[w] <= pushed
  /\ \A t \in done : t <= pushed

(* RunOnce in terms of positions of the list, with the fact that makes it  *)
(* inductive: nothing but the running of a task holds it.                  *)
Once ==
  /\ \A i, j \in 1 .. Len(tasks) : tasks[i] = tasks[j] => i = j
  /\ \A v, w \in Worker : held[v] = held[w] /\ held[v] # NoTask => v = w
  /\ \A w \in Worker : held[w] \notin done
  /\ \A w \in Worker : \A i \in 1 .. Len(tasks) : held[w] # tasks[i]
  /\ \A i \in 1 .. Len(tasks) : tasks[i] \notin done
  /\ \A w \in Worker : held[w] # NoTask <=> pc[w] = "run"

IInv ==
  /\ TypeOK
  /\ MutualExclusion
  /\ Lifecycle
  /\ ListKnown
  /\ OnlyPushed
  /\ Once
  /\ NoLostWakeup

------------------------------------------------------------------------------
(* The actions keep the types: every counter is changed within its loop.   *)
LEMMA NextTypeOK == IInv /\ [Next]_vars => TypeOK'
<1> SUFFICES ASSUME IInv, [Next]_vars PROVE TypeOK'
  OBVIOUS
<1> USE ConstantAssumption DEF Worker, Task, NoTask, WorkerPc, Critical, MainPc, Destroying
<1>t. TypeOK /\ Lifecycle
  BY DEF IInv
<1>1. ASSUME NEW w \in Worker, WorkerStep(w) PROVE TypeOK'
  <2>1. CASE Lock(w)
    BY <1>t, <2>1 DEF Lock, Goto, MainUnchanged, TypeOK
  <2>2. CASE Test(w)
    BY <1>t, <2>2 DEF Test, Goto, MainUnchanged, TypeOK
  <2>3. CASE Idle(w)
    BY <1>t, <2>3 DEF Idle, Goto, MainUnchanged, TypeOK
  <2>4. CASE Check(w)
    BY <1>t, <2>4 DEF Check, Goto, MainUnchanged, TypeOK
  <2>5. CASE Take(w)
    BY <1>t, <2>5 DEF Take, Goto, MainUnchanged, TypeOK
  <2>6. CASE Run(w)
    <3>1. held[w] # NoTask
      BY <2>6 DEF IInv, Once, Run, At
    <3> QED
      BY <1>t, <2>6, <3>1 DEF Run, Goto, MainUnchanged, TypeOK
  <2>7. CASE Free(w)
    BY <1>t, <2>7 DEF Free, Goto, MainUnchanged, TypeOK
  <2> QED
    BY <1>1, <2>1, <2>2, <2>3, <2>4, <2>5, <2>6, <2>7 DEF WorkerStep
<1>2. ASSUME NEW w \in Worker, SpuriousWakeup(w) PROVE TypeOK'
  BY <1>t, <1>2 DEF SpuriousWakeup, Goto, MainUnchanged, TypeOK
<1>3. CASE nThreadPoolCreate
  BY <1>t, <1>3 DEF nThreadPoolCreate, Goto, TypeOK
<1>4. CASE nThreadPoolPushTask
  BY <1>t, <1>4 DEF nThreadPoolPushTask, Signal, Waiting, TypeOK
<1>5. CASE MallocFails \/ AllPushed \/ Clear \/ Return
  <2>1. main' \in MainPc
    BY <1>5 DEF MallocFails, AllPushed, Clear, Return
  <2>2. tasks' = tasks \/ tasks' = <<>>
    BY <1>5 DEF MallocFails, AllPushed, Clear, Return
  <2>3. UNCHANGED <<pc, terminate, held, done, created, pushed, cur>>
    BY <1>5 DEF MallocFails, AllPushed, Clear, Return
  <2>4. tasks' \in Seq(Task)
    <3>1. CASE tasks' = <<>>
      <4> HIDE DEF Task
      <4> QED
        BY <3>1
    <3>2. CASE tasks' = tasks
      BY <1>t, <3>2 DEF TypeOK
    <3> QED
      BY <2>2, <3>1, <3>2
  <2> QED
    BY <1>t, <2>1, <2>3, <2>4 DEF TypeOK
<1>6. CASE nThreadPoolDestory
  BY <1>t, <1>6 DEF nThreadPoolDestory, TypeOK
<1>7. CASE Mark
  BY <1>t, <1>7 DEF Mark, TypeOK
<1>8. CASE Step
  BY <1>t, <1>8 DEF Step, TypeOK, Lifecycle
<1>9. CASE WakeAll
  BY <1>t, <1>9 DEF WakeAll, Broadcast, TypeOK
<1>10. CASE UNCHANGED vars
  BY <1>t, <1>10 DEF vars, TypeOK
<1> QED
  BY <1>1, <1>2, <1>3, <1>4, <1>5, <1>6, <1>7, <1>8, <1>9, <1>10 DEF Next, MainStep, Exited

(* A worker enters the sections under the mutex only by Lock.              *)
LEMMA NextMutualExclusion == IInv /\ [Next]_vars => MutualExclusion'
<1> SUFFICES ASSUME IInv, [Next]_vars PROVE MutualExclusion'
  OBVIOUS
<1> USE DEF MutualExclusion
<1>t. TypeOK /\ MutualExclusion
  BY DEF IInv
<1>1. ASSUME NEW w \in Worker, WorkerStep(w) \/ SpuriousWakeup(w) PROVE MutualExclusion'
  <2>1. CASE Lock(w)
    BY <1>t, <2>1 DEF Lock, Goto, MutexFree, TypeOK, Critical
  <2>2. CASE pc[w] \in Critical /\ (Test(w) \/ Idle(w) \/ Check(w) \/ Take(w))
    BY <1>t, <2>2 DEF Test, Idle, Check, Take, Goto, TypeOK, Critical
  <2>3. CASE Run(w) \/ Free(w) \/ SpuriousWakeup(w)
    BY <1>t, <2>3 DEF Run, Free, SpuriousWakeup, Goto, TypeOK, Critical
  <2> QED
    BY <1>1, <2>1, <2>2, <2>3
    DEF WorkerStep, Test, Idle, Check, Take, At, Critical
<1>2. CASE MainStep
  <2>1. CASE nThreadPoolCreate
    BY <1>t, <2>1 DEF nThreadPoolCreate, Goto, TypeOK, Critical
  <2>2. CASE nThreadPoolPushTask \/ WakeAll
    BY <1>t, <2>2
    DEF nThreadPoolPushTask, WakeAll, Signal, Broadcast, Waiting, MutexFree, TypeOK, Critical
  <2>3. CASE UNCHANGED pc
    BY <1>t, <2>3
  <2> QED
    BY <1>2, <2>1, <2>2, <2>3
    DEF MainStep, MallocFails, AllPushed, nThreadPoolDestory, Mark, Step, Clear, Return
<1>3. CASE UNCHANGED vars
  BY <1>t, <1>3 DEF vars
<1> QED
  BY <1>1, <1>2, <1>3 DEF Next, Exited

(* The order of creation, marking and stopping.                            *)
LEMMA NextLifecycle == IInv /\ [Next]_vars => Lifecycle'
<1> SUFFICES ASSUME IInv, [Next]_vars PROVE Lifecycle'
  OBVIOUS
<1> USE ConstantAssumption DEF Worker, Destroying
<1>t. TypeOK /\ Lifecycle
  BY DEF IInv
<1>1. ASSUME NEW w \in Worker, WorkerStep(w) \/ SpuriousWakeup(w) PROVE Lifecycle'
  <2>1. UNCHANGED <<terminate, main, created, cur>>
    BY <1>1 DEF WorkerStep, SpuriousWakeup, Lock, Test, Idle, Check, Take, Run, Free, MainUnchanged
  <2>2. PICK p \in WorkerPc \ {"new"} :
          /\ pc' = [pc EXCEPT ![w] = p]
          /\ p = "free" => terminate[w]
          /\ p = "gone" => pc[w] = "free"
    BY <1>1 DEF WorkerStep, SpuriousWakeup, Lock, Test, Idle, Check, Take, Run, Free, Goto, At,
      WorkerPc, Critical
  <2>3. pc[w] # "new"
    BY <1>1 DEF WorkerStep, SpuriousWakeup, Lock, Test, Idle, Check, Take, Run, Free, At
  <2> QED
    BY <1>t, <2>1, <2>2, <2>3 DEF Lifecycle, TypeOK
<1>2. CASE nThreadPoolCreate
  BY <1>t, <1>2 DEF nThreadPoolCreate, Goto, Lifecycle, TypeOK
<1>3. CASE nThreadPoolPushTask
  BY <1>t, <1>3 DEF nThreadPoolPushTask, Signal, Waiting, Lifecycle, TypeOK
<1>4. CASE MallocFails \/ AllPushed \/ Clear \/ Return
  BY <1>t, <1>4 DEF MallocFails, AllPushed, Clear, Return, Lifecycle
<1>5. CASE nThreadPoolDestory
  BY <1>t, <1>5 DEF nThreadPoolDestory, Lifecycle, TypeOK
<1>6. CASE Mark
  BY <1>t, <1>6 DEF Mark, Lifecycle, TypeOK
<1>7. CASE Step
  BY <1>t, <1>7 DEF Step, Lifecycle, TypeOK
<1>8. CASE WakeAll
  BY <1>t, <1>8 DEF WakeAll, Broadcast, Lifecycle, TypeOK
<1>9. CASE UNCHANGED vars
  BY <1>t, <1>9 DEF vars, Lifecycle
<1> QED
  BY <1>1, <1>2, <1>3, <1>4, <1>5, <1>6, <1>7, <1>8, <1>9 DEF Next, MainStep, Exited

(* A worker under the mutex is the only one to change the list, but for    *)
(* nThreadPoolDestory, which by then has told every worker to stop.        *)
LEMMA NextListKnown == IInv /\ [Next]_vars => ListKnown'
<1> SUFFICES ASSUME IInv, [Next]_vars PROVE ListKnown'
  OBVIOUS
<1>t. TypeOK /\ MutualExclusion /\ ListKnown /\ Lifecycle
  BY DEF IInv
<1>1. ASSUME NEW w \in Worker, WorkerStep(w) \/ SpuriousWakeup(w) PROVE ListKnown'
  <2>1. CASE Lock(w) \/ Run(w) \/ Free(w) \/ SpuriousWakeup(w)
    BY <1>t, <2>1 DEF Lock, Run, Free, SpuriousWakeup, Goto, MainUnchanged, ListKnown, TypeOK
  <2>2. CASE Test(w)
    BY <1>t, <2>2 DEF Test, Goto, MainUnchanged, ListKnown, TypeOK
  <2>3. CASE Idle(w)
    BY <1>t, <2>3 DEF Idle, Goto, MainUnchanged, ListKnown, TypeOK
  <2>4. CASE Check(w)
    <3>1. main \in {"clear", "return"} => terminate[w]
      BY <1>t, <2>4, ConstantAssumption DEF Check, At, Lifecycle, TypeOK, Worker
    <3> QED
      BY <1>t, <2>4, <3>1 DEF Check, At, Goto, MainUnchanged, ListKnown, TypeOK
  <2>5. CASE Take(w)
    <3>1. \A v \in Worker : v # w => pc'[v] \notin Critical
      BY <1>t, <2>5 DEF Take, At, Goto, MutualExclusion, Critical, TypeOK
    <3>2. pc'[w] = "run"
      BY <1>t, <2>5 DEF Take, Goto, TypeOK
    <3> QED
      BY <1>t, <2>5, <3>1, <3>2 DEF Take, At, MainUnchanged, ListKnown, Critical, TypeOK
  <2> QED
    BY <1>1, <2>1, <2>2, <2>3, <2>4, <2>5 DEF WorkerStep
<1>2. CASE nThreadPoolCreate
  BY <1>t, <1>2 DEF nThreadPoolCreate, Goto, ListKnown, TypeOK
<1>3. CASE nThreadPoolPushTask \/ WakeAll
  <2>1. \A v \in Worker : pc'[v] \notin Critical
    BY <1>t, <1>3 DEF nThreadPoolPushTask, WakeAll, Signal, Broadcast, Waiting, MutexFree,
      Critical, TypeOK
  <2> QED
    BY <2>1 DEF ListKnown, Critical
<1>4. CASE MallocFails \/ AllPushed \/ nThreadPoolDestory \/ Step \/ Return
  BY <1>t, <1>4 DEF MallocFails, AllPushed, nThreadPoolDestory, Step, Return, ListKnown
<1>5. CASE Mark
  BY <1>t, <1>5 DEF Mark, ListKnown, TypeOK
<1>6. CASE Clear
  <2>1. \A w \in Worker : terminate[w] \/ pc[w] = "new"
    BY <1>t, <1>6, ConstantAssumption DEF Clear, Lifecycle, TypeOK, Worker
  <2> QED
    BY <1>t, <1>6, <2>1 DEF Clear, ListKnown, TypeOK
<1>7. CASE UNCHANGED vars
  BY <1>t, <1>7 DEF vars, ListKnown
<1> QED
  BY <1>1, <1>2, <1>3, <1>4, <1>5, <1>6, <1>7 DEF Next, MainStep, Exited

(* The list, the held tasks and the finished ones stay below pushed, and   *)
(* apart from each other.                                                  *)
LEMMA NextOnce == IInv /\ [Next]_vars => OnlyPushed' /\ Once'
<1> SUFFICES ASSUME IInv, [Next]_vars PROVE OnlyPushed' /\ Once'
  OBVIOUS
<1>t. TypeOK /\ OnlyPushed /\ Once /\ MutualExclusion
  BY DEF IInv
<1>s. tasks \in Seq(Task) /\ Len(tasks) \in Nat
      /\ \A i \in 1 .. Len(tasks) : tasks[i] \in Task
  BY <1>t DEF TypeOK
<1>1. ASSUME NEW w \in Worker, Take(w) PROVE OnlyPushed' /\ Once'
  <2>1. /\ Len(tasks) > 0 /\ Head(tasks) = tasks[1] /\ tasks' = Tail(tasks)
        /\ Len(tasks') = Len(tasks) - 1
        /\ \A i \in 1 .. Len(tasks') : tasks'[i] = tasks[i + 1]
    BY <1>1, <1>s DEF Take
  <2>2. held' = [held EXCEPT ![w] = tasks[1]] /\ done' = done /\ pushed' = pushed
        /\ pc' = [pc EXCEPT ![w] = "run"] /\ pc[w] = "take"
    BY <1>1, <2>1 DEF Take, MainUnchanged, Goto, At
  <2>3. tasks[1] # NoTask
    BY <1>s, <2>1, ConstantAssumption DEF Task, NoTask
  <2>4. \A i \in 1 .. Len(tasks') : i + 1 \in 1 .. Len(tasks) /\ i + 1 # 1
    BY <2>1, <1>s
  <2>5. OnlyPushed'
    BY <1>t, <1>s, <2>1, <2>2, <2>4 DEF OnlyPushed, TypeOK
  <2>6. \A i, j \in 1 .. Len(tasks') : tasks'[i] = tasks'[j] => i = j
    BY <1>t, <1>s, <2>1, <2>4 DEF Once
  <2>7. \A v \in Worker : held'[v] = IF v = w THEN tasks[1] ELSE held[v]
    BY <1>t, <2>2 DEF TypeOK
  <2>8. \A v, u \in Worker : held'[v] = held'[u] /\ held'[v] # NoTask => v = u
    BY <1>t, <2>1, <2>7 DEF Once
  <2>9. \A v \in Worker : held'[v] \notin done'
    BY <1>t, <2>1, <2>2, <2>7 DEF Once
  <2>10. \A v \in Worker : \A i \in 1 .. Len(tasks') : held'[v] # tasks'[i]
    BY <1>t, <2>1, <2>4, <2>7 DEF Once
  <2>11. \A i \in 1 .. Len(tasks') : tasks'[i] \notin done'
    BY <1>t, <2>1, <2>2, <2>4 DEF Once
  <2>12. \A v \in Worker : held'[v] # NoTask <=> pc'[v] = "run"
    BY <1>t, <2>2, <2>3, <2>7 DEF Once, TypeOK
  <2> QED
    BY <2>5, <2>6, <2>8, <2>9, <2>10, <2>11, <2>12 DEF Once
<1>2. ASSUME NEW w \in Worker, Run(w) PROVE OnlyPushed' /\ Once'
  <2>1. /\ done' = done \cup {held[w]} /\ held' = [held EXCEPT ![w] = NoTask]
        /\ pc' = [pc EXCEPT ![w] = "lock"] /\ pc[w] = "run"
        /\ tasks' = tasks /\ pushed' = pushed
    BY <1>2 DEF Run, Goto, At, MainUnchanged
  <2>2. held[w] # NoTask /\ NoTask \notin Task
    BY <1>t, <2>1 DEF Once, Task, NoTask
  <2>3. OnlyPushed'
    BY <1>t, <1>s, <2>1, ConstantAssumption DEF OnlyPushed, TypeOK, NoTask, Task
  <2>4. \A v \in Worker : held'[v] = IF v = w THEN NoTask ELSE held[v]
    BY <1>t, <2>1 DEF TypeOK
  <2>5. NoTask \notin done'
    BY <1>t, <2>1, <2>2 DEF TypeOK
  <2>6. \A v \in Worker : held'[v] \notin done'
    BY <1>t, <2>1, <2>2, <2>4, <2>5 DEF Once
  <2>7. \A v \in Worker : held'[v] # NoTask <=> pc'[v] = "run"
    BY <1>t, <2>1, <2>4 DEF Once, TypeOK
  <2>8. \A v \in Worker : \A i \in 1 .. Len(tasks') : held'[v] # tasks'[i]
    BY <1>t, <1>s, <2>1, <2>2, <2>4 DEF Once
  <2>9. \A i \in 1 .. Len(tasks') : tasks'[i] \notin done'
    BY <1>t, <2>1 DEF Once
  <2>10. \A v, u \in Worker : held'[v] = held'[u] /\ held'[v] # NoTask => v = u
    BY <1>t, <2>4 DEF Once
  <2>11. \A i, j \in 1 .. Len(tasks') : tasks'[i] = tasks'[j] => i = j
    BY <1>t, <2>1 DEF Once
  <2> QED
    BY <2>3, <2>6, <2>7, <2>8, <2>9, <2>10, <2>11 DEF Once
<1>3. CASE nThreadPoolPushTask
  <2>1. /\ tasks' = <<pushed + 1>> \o tasks /\ pushed' = pushed + 1
        /\ held' = held /\ done' = done
    BY <1>3 DEF nThreadPoolPushTask
  <2>2. /\ pushed + 1 \in Task
        /\ pushed \in Nat
    BY <1>t, <1>3, ConstantAssumption DEF nThreadPoolPushTask, TypeOK, Task
  <2>3. /\ Len(tasks') = Len(tasks) + 1
        /\ \A i \in 1 .. Len(tasks') : tasks'[i] = IF i = 1 THEN pushed + 1 ELSE tasks[i - 1]
    BY <1>s, <2>1, <2>2
  <2>4. \A i \in 1 .. Len(tasks') : i # 1 => i - 1 \in 1 .. Len(tasks)
    BY <1>s, <2>3
  <2>5. /\ \A i \in 1 .. Len(tasks) : tasks[i] # pushed + 1
        /\ \A w \in Worker : held[w] # pushed + 1
        /\ pushed + 1 \notin done
    BY <1>t, <1>s, <2>2 DEF OnlyPushed
  <2>6. OnlyPushed'
    <3>1. \A i \in 1 .. Len(tasks) : tasks[i] \in Int
      BY <1>s DEF Task
    <3>2. \A w \in Worker : held[w] \in Int
      BY <1>t DEF TypeOK, Task, NoTask
    <3>3. \A t \in done : t \in Int
      BY <1>t DEF TypeOK, Task
    <3> QED
      BY <1>t, <2>1, <2>2, <2>3, <2>4, <3>1, <3>2, <3>3 DEF OnlyPushed
  <2>7. \A w \in Worker : pc'[w] = "run" <=> pc[w] = "run"
    BY <1>t, <1>3 DEF nThreadPoolPushTask, Signal, Waiting, TypeOK
  <2>8. \A i, j \in 1 .. Len(tasks') : tasks'[i] = tasks'[j] => i = j
    BY <1>t, <1>s, <2>3, <2>4, <2>5 DEF Once
  <2>9. \A w \in Worker : \A i \in 1 .. Len(tasks') : held'[w] # tasks'[i]
    BY <1>t, <2>1, <2>3, <2>4, <2>5 DEF Once
  <2>10. \A i \in 1 .. Len(tasks') : tasks'[i] \notin done'
    BY <1>t, <2>1, <2>3, <2>4, <2>5 DEF Once
  <2>11. /\ \A v, w \in Worker : held'[v] = held'[w] /\ held'[v] # NoTask => v = w
         /\ \A w \in Worker : held'[w] \notin done'
         /\ \A w \in Worker : held'[w] # NoTask <=> pc'[w] = "run"
    BY <1>t, <2>1, <2>7 DEF Once
  <2> QED
    BY <2>6, <2>8, <2>9, <2>10, <2>11 DEF Once
<1>4. CASE Clear
  <2>1. Len(tasks') = 0
    BY <1>4 DEF Clear
  <2> QED
    BY <1>t, <1>4, <2>1 DEF Clear, OnlyPushed, Once
<1>5. ASSUME UNCHANGED <<tasks, held, done, pushed>>,
             \A v \in Worker : pc'[v] = "run" <=> pc[v] = "run"
      PROVE  OnlyPushed' /\ Once'
  BY <1>t, <1>5 DEF OnlyPushed, Once
<1>6. ASSUME NEW w \in Worker, ~Take(w), ~Run(w), WorkerStep(w) \/ SpuriousWakeup(w)
      PROVE  OnlyPushed' /\ Once'
  <2>1. UNCHANGED <<tasks, held, done, pushed>>
    BY <1>6 DEF WorkerStep, Lock, Test, Idle, Check, Free, SpuriousWakeup, MainUnchanged
  <2>2. \A v \in Worker : pc'[v] = "run" <=> pc[v] = "run"
    BY <1>6, <1>t DEF WorkerStep, Lock, Test, Idle, Check, Free, SpuriousWakeup, At, Goto, TypeOK
  <2> QED
    BY <1>5, <2>1, <2>2
<1>7. ASSUME MainStep, ~nThreadPoolPushTask, ~Clear PROVE OnlyPushed' /\ Once'
  <2>1. UNCHANGED <<tasks, held, done, pushed>>
    BY <1>7 DEF MainStep, nThreadPoolCreate, MallocFails, AllPushed, nThreadPoolDestory, Mark,
      Step, WakeAll, Return
  <2>2. \A v \in Worker : pc'[v] = "run" <=> pc[v] = "run"
    <3>1. CASE nThreadPoolCreate
      <4>1. \A v \in Worker : v = created + 1 => pc[v] = "new"
        BY <1>t, ConstantAssumption DEF IInv, Lifecycle, TypeOK, Worker
      <4> QED
        BY <1>t, <3>1, <4>1 DEF nThreadPoolCreate, Goto, TypeOK
    <3>2. CASE WakeAll
      BY <1>t, <3>2 DEF WakeAll, Broadcast, TypeOK
    <3>3. CASE UNCHANGED pc
      BY <3>3
    <3> QED
      BY <1>7, <3>1, <3>2, <3>3 DEF MainStep, MallocFails, AllPushed, nThreadPoolDestory, Mark,
        Step, Return
  <2> QED
    BY <1>5, <2>1, <2>2
<1>8. CASE UNCHANGED vars
  BY <1>5, <1>8 DEF vars
<1> QED
  BY <1>1, <1>2, <1>3, <1>4, <1>6, <1>7, <1>8 DEF Next, Exited

(* Who goes to sleep has seen the list empty under the mutex, and who      *)
(* pushes under the mutex wakes a sleeper.                                 *)
LEMMA NextNoLostWakeup == IInv /\ [Next]_vars => NoLostWakeup'
<1> SUFFICES ASSUME IInv, [Next]_vars,
                    main' \notin Destroying, tasks' # <<>>, created' > 0
             PROVE  \E w \in Worker : Awake(w)'
  BY DEF NoLostWakeup
<1>t. TypeOK /\ Lifecycle /\ ListKnown /\ NoLostWakeup /\ Lifecycle'
  BY NextLifecycle DEF IInv
<1>a. \A w \in Worker : Awake(w)' <=> pc'[w] \notin {"new", "wait"}
  BY <1>t DEF Awake, Lifecycle
<1>1. ASSUME NEW w \in Worker, WorkerStep(w) \/ SpuriousWakeup(w)
      PROVE  \E v \in Worker : Awake(v)'
  <2>1. CASE Idle(w)
    <3>1. tasks = <<>> /\ tasks' = tasks
      BY <1>t, <2>1 DEF Idle, At, ListKnown
    <3> QED
      BY <3>1
  <2>2. CASE ~Idle(w)
    <3>1. pc'[w] \notin {"new", "wait"}
      BY <1>1, <1>t, <2>2 DEF WorkerStep, Lock, Test, Check, Take, Run, Free, SpuriousWakeup,
        Goto, TypeOK
    <3> QED
      BY <1>a, <3>1
  <2> QED
    BY <2>1, <2>2
<1>2. CASE nThreadPoolCreate
  <2>1. PICK v \in Worker : pc'[v] # "new" /\ pc'[v] # "wait"
    <3>1. CASE created' = created
      <4>1. PICK v \in Worker : Awake(v)
        BY <1>t, <1>2, <3>1 DEF NoLostWakeup, nThreadPoolCreate, Destroying
      <4>2. pc' = pc
        BY <1>2, <1>t, <3>1 DEF nThreadPoolCreate, TypeOK
      <4> QED
        BY <4>1, <4>2 DEF Awake
    <3>2. CASE created' # created
      <4>1. created + 1 \in Worker
        BY <1>t, <1>2, <3>2, ConstantAssumption DEF nThreadPoolCreate, TypeOK, Worker
      <4> QED
        BY <1>t, <1>2, <3>2, <4>1 DEF nThreadPoolCreate, Goto, TypeOK
    <3> QED
      BY <3>1, <3>2
  <2> QED
    BY <1>a, <2>1
<1>3. CASE nThreadPoolPushTask
  <2>1. CASE Waiting = {} /\ UNCHANGED pc
    <3>1. 1 \in Worker /\ 1 <= created
      BY <1>t, <1>3, ConstantAssumption DEF nThreadPoolPushTask, Worker, TypeOK
    <3>2. pc[1] # "new"
      BY <1>t, <3>1 DEF Lifecycle, TypeOK
    <3>3. pc[1] # "wait"
      BY <2>1, <3>1 DEF Waiting
    <3> QED
      BY <1>a, <2>1, <3>1, <3>2, <3>3
  <2>2. CASE \E v \in Waiting : pc' = [pc EXCEPT ![v] = "relock"]
    <3>1. PICK v \in Waiting : pc' = [pc EXCEPT ![v] = "relock"]
      BY <2>2
    <3>2. v \in Worker /\ pc'[v] = "relock"
      BY <1>t, <3>1 DEF Waiting, TypeOK
    <3> QED
      BY <1>a, <3>2
  <2> QED
    BY <1>3, <2>1, <2>2 DEF nThreadPoolPushTask, Signal
<1>4. CASE AllPushed \/ UNCHANGED vars
  <2>1. main \notin Destroying /\ tasks # <<>> /\ created > 0 /\ pc' = pc
    BY <1>4 DEF AllPushed, vars, Destroying
  <2> QED
    BY <1>t, <2>1 DEF NoLostWakeup, Awake
<1>5. CASE MallocFails \/ nThreadPoolDestory \/ Mark \/ Step \/ WakeAll \/ Clear \/ Return
  BY <1>5 DEF MallocFails, nThreadPoolDestory, Mark, Step, WakeAll, Clear, Return, Destroying
<1> QED
  BY <1>1, <1>2, <1>3, <1>4, <1>5 DEF Next, MainStep, Exited

(* The invariant holds before main has created a worker.                   *)
LEMMA InitIInv == Init => IInv
<1> SUFFICES ASSUME Init PROVE IInv
  OBVIOUS
<1> USE ConstantAssumption DEF Init, Worker, Task, NoTask
<1>1. TypeOK
  BY DEF TypeOK, WorkerPc, MainPc, Destroying
<1>2. MutualExclusion /\ ListKnown
  BY DEF MutualExclusion, ListKnown, Critical
<1>3. Lifecycle
  BY DEF Lifecycle, Destroying
<1>4. OnlyPushed /\ Once
  <2>1. Len(tasks) = 0
    OBVIOUS
  <2> QED
    BY <2>1 DEF OnlyPushed, Once
<1>5. NoLostWakeup
  BY DEF NoLostWakeup
<1> QED
  BY <1>1, <1>2, <1>3, <1>4, <1>5 DEF IInv

(* The invariant of the whole pool, from which the theorems follow.        *)
LEMMA SpecIInv == Spec => []IInv
<1>1. IInv /\ [Next]_vars => IInv'
  BY NextTypeOK, NextMutualExclusion, NextLifecycle, NextListKnown, NextOnce, NextNoLostWakeup
  DEF IInv
<1> QED
  BY InitIInv, <1>1, PTL DEF Spec

------------------------------------------------------------------------------
(* Any number of workers and tasks: the pool's types, among them that the  *)
(* loop of nThreadPoolDestory ends with the list.                          *)
THEOREM TypeCorrect == Spec => []TypeOK
<1>1. IInv => TypeOK
  BY DEF IInv
<1> QED
  BY SpecIInv, <1>1, PTL

(* At most one worker is in a section under the mutex.                     *)
THEOREM MutexCorrect == Spec => []MutualExclusion
<1>1. IInv => MutualExclusion
  BY DEF IInv
<1> QED
  BY SpecIInv, <1>1, PTL

(* The unlocked tasks = NULL of nThreadPoolDestory never makes a worker    *)
(* take a task off an empty list.                                          *)
THEOREM TakeSafe == Spec => []TakeFindsTask
<1>1. IInv => TakeFindsTask
  BY DEF IInv, ListKnown, TakeFindsTask
<1> QED
  BY SpecIInv, <1>1, PTL

(* No task is run twice, whatever the interleaving.                        *)
THEOREM TasksRunOnce == Spec => []RunOnce
<1>1. IInv => RunOnce
  BY DEF IInv, Once, RunOnce, Pending
<1> QED
  BY SpecIInv, <1>1, PTL

(* No signal of nThreadPoolPushTask is lost while the pool lives.          *)
THEOREM WakeupNotLost == Spec => []NoLostWakeup
<1>1. IInv => NoLostWakeup
  BY DEF IInv
<1> QED
  BY SpecIInv, <1>1, PTL
==============================================================================
