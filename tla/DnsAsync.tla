------------------------------- MODULE DnsAsync -------------------------------
(***************************************************************************)
(* The asynchronous DNS client (00/06_dns/dns_async.c): main starts one    *)
(* detached thread per name, keeps the tasks in a list under a mutex,      *)
(* works, waits and collects the results.  The threads store their results *)
(* in the tasks without the mutex, and split the names with strtok, whose  *)
(* position is shared by all of them.                                      *)
(*                                                                         *)
(* Time passes while main sleeps, in seconds.  In a prompt behaviour it    *)
(* passes only when no thread can run, as on a machine that is not busy.   *)
(***************************************************************************)
EXTENDS Integers, Sequences, FiniteSets, SequencesExt, FiniteSetsExt

CONSTANTS
  Label,         \* Label[i]: the labels in the name of task i, which main adds i-th
  RecvTimeout,   \* seconds recvfrom waits
  WorkRounds,    \* seconds main works
  WaitTimeout    \* seconds dns_wait_all waits

Task == DOMAIN Label

ASSUME DnsAssumption ==
  /\ Label \in Seq(Nat \ {0}) /\ Label # <<>>
  /\ {RecvTimeout, WorkRounds, WaitTimeout} \subseteq Nat \ {0}
  /\ RecvTimeout < WaitTimeout

VARIABLES
  prompt,        \* whether threads run before time passes
  main,          \* main: where it is, and its counters
  g_task_list,   \* the tasks in the list
  task,          \* the tasks in memory
  thread,        \* the thread of each task
  strtok         \* the static position of strtok: a name and its next label

vars == <<prompt, main, g_task_list, task, thread, strtok>>

Nowhere == [name |-> 0, next |-> 0]
Junk == <<0, 0>>

------------------------------------------------------------------------------
(* main.                                                                    *)
Goto(at) == main' = [main EXCEPT !.at = at]

Blocked(t) ==
  \/ thread[t].at \in {"none", "end"}
  \/ thread[t].at = "recv" /\ thread[t].left > 0

TimeMayPass == prompt => \A t \in Task : Blocked(t)

(* A second passes while main sleeps: the timeouts of recvfrom come nearer. *)
Second ==
  thread' = [t \in Task |-> IF thread[t].at = "recv" /\ thread[t].left > 0
                            THEN [thread[t] EXCEPT !.left = @ - 1] ELSE thread[t]]

(* The thread starts before the task is in the list; or it cannot be made,  *)
(* and the task is dropped.                                                 *)
CreateThread ==
  /\ main.at = "add"
  /\ task' = [task EXCEPT ![main.i] = [mem |-> "live", status |-> 0, response_len |-> 0]]
  /\ thread' = [thread EXCEPT ![main.i].at = "start"]
  /\ Goto("insert")
  /\ UNCHANGED <<prompt, g_task_list, strtok>>

NoThread ==
  /\ main.at = "add"
  /\ Goto("pause")
  /\ UNCHANGED <<prompt, g_task_list, task, thread, strtok>>

dns_add_task ==
  /\ main.at = "insert"
  /\ g_task_list' = <<main.i>> \o g_task_list
  /\ Goto("pause")
  /\ UNCHANGED <<prompt, task, thread, strtok>>

(* Mutant of Pause: the next name follows at once.                          *)
Pause_none ==
  /\ main.at = "pause"
  /\ main' = IF main.i < Len(Label) THEN [main EXCEPT !.at = "add", !.i = @ + 1]
                                    ELSE [main EXCEPT !.at = "work", !.i = 0]
  /\ UNCHANGED <<prompt, g_task_list, task, thread, strtok>>

(* The short sleep after each task.                                         *)
Pause ==
  /\ main.at = "pause" /\ TimeMayPass
  /\ main' = IF main.i < Len(Label) THEN [main EXCEPT !.at = "add", !.i = @ + 1]
                                    ELSE [main EXCEPT !.at = "work", !.i = 0]
  /\ UNCHANGED <<prompt, g_task_list, task, thread, strtok>>

Work ==
  /\ main.at = "work" /\ TimeMayPass
  /\ main' = IF main.i < WorkRounds THEN [main EXCEPT !.i = @ + 1]
                                    ELSE [main EXCEPT !.at = "wait", !.i = 0]
  /\ IF main.i < WorkRounds THEN Second ELSE UNCHANGED thread
  /\ UNCHANGED <<prompt, g_task_list, task, strtok>>

Active == {t \in ToSet(g_task_list) : task[t].status = 0}

(* Waiting ends when no task of the list is active, or after the timeout.   *)
dns_wait_all ==
  /\ main.at = "wait"
  /\ \/ /\ main.i < WaitTimeout /\ Active # {} /\ TimeMayPass
        /\ main' = [main EXCEPT !.i = @ + 1]
        /\ Second
     \/ /\ main.i < WaitTimeout /\ Active = {}
        /\ Goto("collect")
        /\ UNCHANGED thread
     \/ /\ main.i = WaitTimeout
        /\ main' = [main EXCEPT !.at = "collect", !.expired = TRUE]
        /\ UNCHANGED thread
  /\ UNCHANGED <<prompt, g_task_list, task, strtok>>

(* Mutant of Completed: every task of the list is taken.                    *)
Completed_all == ToSet(g_task_list)

(* Mutant of Completed: failed tasks are passed over.                       *)
Completed_ok == {t \in ToSet(g_task_list) : task[t].status = 1}

Completed == ToSet(g_task_list) \ Active

(* A task with a result leaves the list, is counted and freed.  The scan    *)
(* passes tasks whose result comes a moment later.                          *)
dns_find_completed_task ==
  /\ main.at = "collect"
  /\ \/ \E t \in Completed :
          /\ g_task_list' = RemoveFirst(g_task_list, t)
          /\ task' = [task EXCEPT ![t].mem = "freed"]
          /\ main' = IF task[t].status = 1
                     THEN [main EXCEPT !.success_count = @ + 1, !.bytes = @ \cup {task[t].response_len}]
                     ELSE [main EXCEPT !.fail_count = @ + 1]
     \/ /\ Completed = {}
        /\ Goto("exit")
        /\ UNCHANGED <<g_task_list, task>>
  /\ UNCHANGED <<prompt, thread, strtok>>

------------------------------------------------------------------------------
(* The thread of task t.                                                    *)
Running(t, at) == thread[t].at = at /\ main.at # "exit"

(* No socket: the task has failed.                                          *)
socket(t) ==
  /\ Running(t, "start")
  /\ thread' = [thread EXCEPT ![t].at = "end"]
  /\ task' = [task EXCEPT ![t].status = -1]
  /\ UNCHANGED <<prompt, main, g_task_list, strtok>>

(* dns_create_question: the first call of strtok takes a copy of the name.  *)
FirstLabel(t) ==
  /\ Running(t, "start")
  /\ thread' = [thread EXCEPT ![t].at = "split", ![t].name = <<<<t, 1>>>>]
  /\ strtok' = [name |-> t, next |-> 2]
  /\ UNCHANGED <<prompt, main, g_task_list, task>>

(* The next calls go on wherever the last call of any thread stopped: in    *)
(* the thread's own name, in another's, or in memory that is freed since.   *)
OwnerDone == thread[strtok.name].at \notin {"start", "split"}

NextLabel(t) ==
  /\ Running(t, "split")
  /\ \/ /\ ~OwnerDone /\ strtok.next <= Label[strtok.name]
        /\ thread' = [thread EXCEPT ![t].name = Append(@, <<strtok.name, strtok.next>>)]
        /\ strtok' = [strtok EXCEPT !.next = @ + 1]
     \/ /\ OwnerDone /\ strtok.next <= Label[strtok.name] + 1
        /\ thread' = [thread EXCEPT ![t].name = Append(@, Junk)]
        /\ strtok' = [strtok EXCEPT !.next = Label[strtok.name] + 2]
     \/ /\ OwnerDone \/ strtok.next > Label[strtok.name]
        /\ thread' = [thread EXCEPT ![t].at = "send"]
        /\ UNCHANGED strtok
  /\ UNCHANGED <<prompt, main, g_task_list, task>>

(* dns_build_requestion and sendto: the name leaves in the request.         *)
dns_build_requestion(t) ==
  /\ Running(t, "send")
  /\ thread' = [thread EXCEPT ![t].at = "recv", ![t].name = <<>>, ![t].left = RecvTimeout]
  /\ UNCHANGED <<prompt, main, g_task_list, task, strtok>>

(* An answer arrives, or none before the timeout: then the failure is       *)
(* stored, and the name is printed from the task after it.                  *)
Answer(t) ==
  /\ Running(t, "recv") /\ thread[t].left > 0
  /\ thread' = [thread EXCEPT ![t].at = "answered", ![t].left = 0]
  /\ UNCHANGED <<prompt, main, g_task_list, task, strtok>>

Timeout(t) ==
  /\ Running(t, "recv") /\ thread[t].left = 0
  /\ thread' = [thread EXCEPT ![t].at = "print"]
  /\ task' = [task EXCEPT ![t].status = -1]
  /\ UNCHANGED <<prompt, main, g_task_list, strtok>>

(* The length is stored before the status; the name is printed after it.    *)
StoreLength(t) ==
  /\ Running(t, "answered")
  /\ thread' = [thread EXCEPT ![t].at = "stored"]
  /\ task' = [task EXCEPT ![t].response_len = 1]
  /\ UNCHANGED <<prompt, main, g_task_list, strtok>>

StoreStatus(t) ==
  /\ Running(t, "stored")
  /\ thread' = [thread EXCEPT ![t].at = "print"]
  /\ task' = [task EXCEPT ![t].status = 1]
  /\ UNCHANGED <<prompt, main, g_task_list, strtok>>

Report(t) ==
  /\ Running(t, "print")
  /\ thread' = [thread EXCEPT ![t].at = "end"]
  /\ UNCHANGED <<prompt, main, g_task_list, task, strtok>>

dns_thread_work(t) ==
  \/ socket(t) \/ FirstLabel(t) \/ NextLabel(t) \/ dns_build_requestion(t)
  \/ Answer(t) \/ Timeout(t) \/ StoreLength(t) \/ StoreStatus(t) \/ Report(t)

------------------------------------------------------------------------------
Init ==
  /\ prompt \in BOOLEAN
  /\ main = [at |-> "add", i |-> 1, expired |-> FALSE, success_count |-> 0,
             fail_count |-> 0, bytes |-> {}]
  /\ g_task_list = <<>>
  /\ task = [t \in Task |-> [mem |-> "none", status |-> 0, response_len |-> 0]]
  /\ thread = [t \in Task |-> [at |-> "none", name |-> <<>>, left |-> 0]]
  /\ strtok = Nowhere

MainStep ==
  \/ CreateThread \/ NoThread \/ dns_add_task \/ Pause \/ Work \/ dns_wait_all
  \/ dns_find_completed_task

Next == MainStep \/ \E t \in Task : dns_thread_work(t)

(* main and the threads are scheduled.                                      *)
Spec ==
  /\ Init /\ [][Next]_vars
  /\ WF_vars(MainStep) /\ \A t \in Task : WF_vars(dns_thread_work(t))

------------------------------------------------------------------------------
(* Type invariant.  The code behaviour behind it: the status of a task and  *)
(* the places of main and of the threads.                                   *)
TypeOK ==
  /\ prompt \in BOOLEAN
  /\ main \in [at : {"add", "insert", "pause", "work", "wait", "collect", "exit"}, i : Nat,
               expired : BOOLEAN, success_count : Nat, fail_count : Nat, bytes : SUBSET {0, 1}]
  /\ g_task_list \in Seq(Task)
  /\ task \in [Task -> [mem : {"none", "live", "freed"}, status : {-1, 0, 1},
                        response_len : {0, 1}]]
  /\ thread \in [Task -> [at : {"none", "start", "split", "send", "recv", "answered", "stored",
                                "print", "end"},
                          name : Seq(Nat \X Nat), left : 0 .. RecvTimeout]]
  /\ strtok \in [name : Task \cup {0}, next : Nat]

Uncollected(t) ==
  IF main.at = "insert" /\ main.i = t THEN t \notin ToSet(g_task_list)
                                      ELSE t \in ToSet(g_task_list)

(* Every task whose thread was started is in one place: about to enter the  *)
(* list, in the list, or collected and counted once.  A task is freed only  *)
(* after its thread has stored its result, although the thread may have     *)
(* ended before the task was in the list and waiting may have given up;     *)
(* what the thread may still do with it is to print its name.  A task       *)
(* counted as a success has its length.                                     *)
TasksCollectedOnce ==
  /\ TypeOK
  /\ IsInjective(g_task_list)
  /\ \A t \in Task : task[t].mem = "live" => Uncollected(t)
  /\ \A t \in Task : task[t].mem = "freed" =>
       /\ t \notin ToSet(g_task_list)
       /\ thread[t].at \in {"print", "end"}
  /\ main.success_count + main.fail_count = Cardinality({t \in Task : task[t].mem = "freed"})
  /\ main.bytes \subseteq {1}

Name(t) == [i \in 1 .. Label[t] |-> <<t, i>>]

(* When threads run promptly the short sleep after each task keeps their    *)
(* use of strtok apart: every query asks for its own name, whole.  Waiting  *)
(* never expires, because recvfrom gives up earlier.                        *)
PromptIsSafe ==
  prompt =>
    /\ \A t \in Task : thread[t].at = "send" => thread[t].name = Name(t)
    /\ ~main.expired

(* main ends, whatever the threads and the server do; and when its waiting  *)
(* did not expire, no task is left.                                         *)
Ends == <>[](main.at = "exit" /\ (~main.expired => g_task_list = <<>>))
===============================================================================
