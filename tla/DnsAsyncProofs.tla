---------------------------- MODULE DnsAsyncProofs ----------------------------
(***************************************************************************)
(* Proofs about the asynchronous DNS client, for any number of names and   *)
(* labels and every timeout shorter than the waiting of main: every task   *)
(* is collected once, and when threads run promptly strtok is shared       *)
(* without harm and the waiting does not expire.                           *)
(***************************************************************************)
EXTENDS DnsAsync, SequencesExt, FiniteSetsExt, FiniteSetTheorems, SequenceTheorems, TLAPS

(* A set of numbers that is not empty has a least member, and Min is it.    *)
LEMMA MinFacts ==
  ASSUME NEW S \in SUBSET Nat, S # {}
  PROVE  Min(S) \in S /\ \A j \in S : Min(S) <= j
<1>1. \E i \in S : \A j \in S : i <= j
  <2> DEFINE R == {ss \in Nat \X Nat : ss[1] < ss[2]}
  <2>1. OpToRel(<, Nat) = R
    BY DEF OpToRel
  <2>2. IsWellFoundedOn(R, Nat)
    BY <2>1, NatLessThanWellFounded
  <2> HIDE DEF R
  <2>3. PICK i \in S : \A j \in S : ~ (<<j, i>> \in R)
    BY <2>2, WFMin
  <2>4. ASSUME NEW j \in S
        PROVE  i <= j
    <3>1. ~ (<<j, i>> \in R)
      BY <2>3
    <3>2. i \in Nat /\ j \in Nat
      OBVIOUS
    <3>3. j < i => <<j, i>> \in R
      BY <3>2 DEF R
    <3>4. QED
      BY <3>1, <3>2, <3>3
  <2>5. QED
    BY <2>4
<1>2. QED
  BY <1>1 DEF Min

(* Adding at the head.                                                      *)
LEMMA ConsFacts ==
  ASSUME NEW T, NEW s \in Seq(T), NEW x \in T
  PROVE  /\ <<x>> \o s \in Seq(T) /\ Len(<<x>> \o s) = Len(s) + 1
         /\ ToSet(<<x>> \o s) = {x} \cup ToSet(s)
         /\ IsInjective(s) /\ x \notin ToSet(s) => IsInjective(<<x>> \o s)
<1> DEFINE c == <<x>> \o s
<1>1. c \in Seq(T) /\ Len(c) = Len(s) + 1 /\ Len(s) \in Nat
  OBVIOUS
<1>2. c[1] = x /\ \A i \in 1 .. Len(s) : c[i + 1] = s[i]
  OBVIOUS
<1>3. \A i \in 1 .. Len(s) + 1 : i # 1 => i - 1 \in 1 .. Len(s) /\ c[i] = s[i - 1]
  OBVIOUS
<1>4. DOMAIN c = 1 .. Len(s) + 1 /\ DOMAIN s = 1 .. Len(s)
  BY <1>1
<1> HIDE DEF c
<1>5. ToSet(c) = {x} \cup ToSet(s)
  <2>1. ASSUME NEW i \in 1 .. Len(s) + 1 PROVE c[i] \in {x} \cup ToSet(s)
    <3>1. CASE i = 1
      BY <1>2, <3>1
    <3>2. CASE i # 1
      BY <1>3, <1>4, <3>2 DEF ToSet
    <3>3. QED
      BY <3>1, <3>2
  <2>2. x \in ToSet(c)
    BY <1>1, <1>2, <1>4, 1 \in 1 .. Len(s) + 1 DEF ToSet
  <2>3. ASSUME NEW i \in 1 .. Len(s) PROVE s[i] \in ToSet(c)
    BY <1>1, <1>2, <1>4, i + 1 \in 1 .. Len(s) + 1 DEF ToSet
  <2>4. QED
    BY <2>1, <2>2, <2>3, <1>4 DEF ToSet
<1>6. ASSUME IsInjective(s), x \notin ToSet(s) PROVE IsInjective(c)
  <2>1. SUFFICES ASSUME NEW i \in 1 .. Len(s) + 1, NEW j \in 1 .. Len(s) + 1, c[i] = c[j]
                 PROVE  i = j
    BY <1>4 DEF IsInjective
  <2>2. \A k \in 1 .. Len(s) : s[k] # x
    BY <1>4, <1>6 DEF ToSet
  <2>3. \A k, l \in 1 .. Len(s) : s[k] = s[l] => k = l
    BY <1>4, <1>6 DEF IsInjective
  <2>4. i \in Int /\ j \in Int /\ Len(s) \in Nat
    BY <1>1
  <2>5. CASE i = 1
    BY <1>2, <1>3, <2>1, <2>2, <2>5
  <2>6. CASE j = 1
    BY <1>2, <1>3, <2>1, <2>2, <2>6
  <2>7. CASE i # 1 /\ j # 1
    BY <1>3, <2>1, <2>3, <2>4, <2>7, i - 1 = j - 1
  <2>8. QED
    BY <2>5, <2>6, <2>7
<1>7. QED
  BY <1>1, <1>5, <1>6 DEF c

(* Taking out one place.                                                    *)
LEMMA RemoveAtFacts ==
  ASSUME NEW T, NEW s \in Seq(T), NEW k \in 1 .. Len(s)
  PROVE  /\ RemoveAt(s, k) \in Seq(T) /\ Len(RemoveAt(s, k)) = Len(s) - 1
         /\ \A i \in 1 .. Len(s) - 1 : RemoveAt(s, k)[i] = IF i < k THEN s[i] ELSE s[i + 1]
<1> DEFINE a == SubSeq(s, 1, k - 1)
           b == SubSeq(s, k + 1, Len(s))
<1>1. Len(s) \in Nat /\ k \in Int
  OBVIOUS
<1>2. a \in Seq(T) /\ Len(a) = k - 1 /\ \A i \in 1 .. k - 1 : a[i] = s[i]
  OBVIOUS
<1>3. b \in Seq(T) /\ Len(b) = Len(s) - k /\ \A i \in 1 .. Len(s) - k : b[i] = s[k + i]
  OBVIOUS
<1> HIDE DEF a, b
<1>4. a \o b \in Seq(T) /\ Len(a \o b) = Len(s) - 1
  <2>1. a \o b \in Seq(T) /\ Len(a \o b) = Len(a) + Len(b)
    BY <1>2, <1>3, ConcatProperties
  <2>2. QED
    BY <1>1, <1>2, <1>3, <2>1
<1>5. ASSUME NEW i \in 1 .. Len(s) - 1
      PROVE  (a \o b)[i] = IF i < k THEN s[i] ELSE s[i + 1]
  <2>0. (a \o b)[i] = IF i <= Len(a) THEN a[i] ELSE b[i - Len(a)]
    <3>1. i \in 1 .. Len(a) + Len(b)
      BY <1>1, <1>2, <1>3
    <3>2. QED
      BY <1>2, <1>3, <3>1, ConcatProperties
  <2>1. CASE i < k
    BY <1>1, <1>2, <2>0, <2>1
  <2>2. CASE ~(i < k)
    <3>1. i - (k - 1) \in 1 .. Len(s) - k /\ k + (i - (k - 1)) = i + 1
      BY <1>1, <2>2
    <3>2. (a \o b)[i] = b[i - (k - 1)]
      BY <1>1, <1>2, <2>0, <2>2
    <3>3. b[i - (k - 1)] = s[i + 1]
      BY <1>3, <3>1
    <3>4. QED
      BY <2>2, <3>2, <3>3
  <2>3. QED
    BY <2>1, <2>2
<1>6. QED
  BY <1>4, <1>5 DEF RemoveAt, a, b

(* Taking a member out of a list without duplicates.                        *)
LEMMA RemoveFirstFacts ==
  ASSUME NEW T, NEW s \in Seq(T), NEW x \in ToSet(s), IsInjective(s)
  PROVE  /\ RemoveFirst(s, x) \in Seq(T) /\ Len(RemoveFirst(s, x)) = Len(s) - 1
         /\ ToSet(RemoveFirst(s, x)) = ToSet(s) \ {x}
         /\ IsInjective(RemoveFirst(s, x))
<1>1. Len(s) \in Nat /\ DOMAIN s = 1 .. Len(s)
  OBVIOUS
<1> DEFINE I == {i \in 1 .. Len(s) : s[i] = x}
           k == Min(I)
           c == RemoveAt(s, k)
<1>2. I \in SUBSET Nat /\ I # {}
  BY <1>1 DEF ToSet
<1>3. k \in I
  BY <1>2, MinFacts
<1>4. RemoveFirst(s, x) = c
  BY <1>1, <1>2 DEF RemoveFirst, SelectInSeq
<1> HIDE DEF k
<1>5. k \in 1 .. Len(s) /\ s[k] = x
  BY <1>3
<1>6. /\ c \in Seq(T) /\ Len(c) = Len(s) - 1
      /\ \A i \in 1 .. Len(s) - 1 : c[i] = IF i < k THEN s[i] ELSE s[i + 1]
  BY <1>5, RemoveAtFacts
<1>7. DOMAIN c = 1 .. Len(s) - 1
  BY <1>6
<1> HIDE DEF c
<1>8. \A i, j \in 1 .. Len(s) : s[i] = s[j] => i = j
  BY <1>1 DEF IsInjective
<1>9. \A i \in 1 .. Len(s) - 1 : i \in 1 .. Len(s) /\ i + 1 \in 1 .. Len(s)
  BY <1>1
<1>10. IsInjective(c)
  <2>1. SUFFICES ASSUME NEW i \in 1 .. Len(s) - 1, NEW j \in 1 .. Len(s) - 1, c[i] = c[j]
                 PROVE  i = j
    BY <1>7 DEF IsInjective
  <2>2. QED
    BY <1>1, <1>5, <1>6, <1>8, <1>9, <2>1
<1>11. ToSet(c) = ToSet(s) \ {x}
  <2>1. ASSUME NEW i \in 1 .. Len(s) - 1
        PROVE  c[i] \in ToSet(s) \ {x}
    <3>1. CASE i < k
      <4>1. c[i] = s[i] /\ i # k /\ i \in 1 .. Len(s)
        BY <1>5, <1>6, <1>9, <3>1
      <4>2. QED
        BY <1>1, <1>5, <1>8, <4>1 DEF ToSet
    <3>2. CASE ~(i < k)
      <4>1. c[i] = s[i + 1] /\ i + 1 # k /\ i + 1 \in 1 .. Len(s)
        BY <1>5, <1>6, <1>9, <3>2
      <4>2. QED
        BY <1>1, <1>5, <1>8, <4>1 DEF ToSet
    <3>3. QED
      BY <3>1, <3>2
  <2>2. ASSUME NEW i \in 1 .. Len(s), s[i] # x
        PROVE  s[i] \in ToSet(c)
    <3>1. CASE i < k
      <4>1. i \in 1 .. Len(s) - 1 /\ c[i] = s[i]
        BY <1>1, <1>5, <1>6, <3>1
      <4>2. QED
        BY <4>1, <1>7 DEF ToSet
    <3>2. CASE ~(i < k)
      <4>1. i # k
        BY <1>5, <2>2
      <4>2. i - 1 \in 1 .. Len(s) - 1 /\ ~(i - 1 < k) /\ (i - 1) + 1 = i
        BY <1>1, <1>5, <3>2, <4>1
      <4>3. c[i - 1] = s[i]
        BY <1>6, <4>2
      <4>4. QED
        BY <4>2, <4>3, <1>7 DEF ToSet
    <3>3. QED
      BY <3>1, <3>2
  <2>3. QED
    BY <1>1, <1>7, <2>1, <2>2 DEF ToSet
<1>12. QED
  BY <1>4, <1>6, <1>10, <1>11

------------------------------------------------------------------------------
TaskRecord == [mem : {"none", "live", "freed"}, status : {-1, 0, 1}, response_len : {0, 1}]

ThreadRecord ==
  [at : {"none", "start", "split", "send", "recv", "answered", "stored", "print", "end"},
   name : Seq(Nat \X Nat), left : 0 .. RecvTimeout]

MainRecord ==
  [at : {"add", "insert", "pause", "work", "wait", "collect", "exit"}, i : Nat,
   expired : BOOLEAN, success_count : Nat, fail_count : Nat, bytes : SUBSET {0, 1}]

(* A task is in memory while its thread was made, has a result when the     *)
(* thread stored it, and has its length when the result is a success.       *)
ResultOfThread(k, r) ==
  /\ k.mem = "none" <=> r.at = "none"
  /\ k.status # 0 <=> r.at \in {"print", "end"}
  /\ r.at = "stored" \/ k.status = 1 => k.response_len = 1

TasksFollowThreads ==
  \A t \in Task : /\ ResultOfThread(task[t], thread[t])
                  /\ t \in ToSet(g_task_list) => task[t].mem = "live"

(* main adds the tasks in order.                                            *)
AddedInOrder ==
  /\ main.at \in {"add", "insert", "pause"} => main.i \in Task
  /\ main.at = "add" => \A t \in Task : t >= main.i => task[t].mem = "none"
  /\ main.at \in {"insert", "pause"} => \A t \in Task : t > main.i => task[t].mem = "none"
  /\ main.at = "insert" => task[main.i].mem = "live"

(* A thread that goes on splitting has called strtok with a name, or        *)
(* another has after it.                                                    *)
StrtokStarted == \A t \in Task : thread[t].at = "split" => strtok.name \in Task

Splitting == {"start", "split", "send"}

(* When threads run promptly only the thread of the task added last splits  *)
(* its name, and what it has so far are the first labels.                   *)
OneSplits ==
  /\ \A t \in Task : thread[t].at \in Splitting =>
       main.at \in {"insert", "pause"} /\ main.i = t
  /\ \A t \in Task : thread[t].at = "split" =>
       /\ strtok.name = t /\ strtok.next \in 2 .. Label[t] + 1
       /\ thread[t].name = [i \in 1 .. strtok.next - 1 |-> <<t, i>>]
  /\ \A t \in Task : thread[t].at = "send" => thread[t].name = Name(t)

(* While main waits the timeouts of recvfrom come nearer as fast as the     *)
(* waiting does, and started no earlier.                                    *)
TimeoutsNear ==
  /\ main.at = "wait" =>
       /\ main.i <= RecvTimeout
       /\ \A t \in Task : thread[t].at = "recv" => thread[t].left <= RecvTimeout - main.i
  /\ ~main.expired

PromptInv == prompt => OneSplits /\ TimeoutsNear

(* The inductive invariant.                                                 *)
IInv == TasksCollectedOnce /\ TasksFollowThreads /\ AddedInOrder /\ StrtokStarted /\ PromptInv

------------------------------------------------------------------------------
(* The tasks are numbered in the order main adds them.                      *)
LEMMA TaskFacts ==
  /\ Task = 1 .. Len(Label) /\ Len(Label) \in Nat \ {0} /\ 1 \in Task /\ IsFiniteSet(Task)
  /\ \A t \in Task : t \in Nat /\ Label[t] \in Nat \ {0}
<1>1. Task = 1 .. Len(Label) /\ Len(Label) \in Nat \ {0}
  BY DnsAssumption DEF Task
<1>2. IsFiniteSet(1 .. Len(Label))
  BY <1>1, FS_Interval, 1 \in Int, Len(Label) \in Int
<1>3. \A t \in Task : t \in Nat /\ Label[t] \in Nat \ {0}
  BY <1>1, DnsAssumption DEF Task
<1>4. QED
  BY <1>1, <1>2, <1>3

(* The set of tasks that are freed.                                         *)
LEMMA FreedFinite ==
  /\ IsFiniteSet({t \in Task : task[t].mem = "freed"})
  /\ Cardinality({t \in Task : task[t].mem = "freed"}) \in Nat
<1>1. {t \in Task : task[t].mem = "freed"} \in SUBSET Task
  OBVIOUS
<1>2. IsFiniteSet({t \in Task : task[t].mem = "freed"})
  BY <1>1, TaskFacts, FS_Subset
<1>3. QED
  BY <1>2, FS_CardinalityType

(* A step of one thread: its own task and place change, it starts nothing   *)
(* over, and it splits only when it did.                                    *)
LEMMA ThreadKeeps ==
  ASSUME IInv, NEW t \in Task, UNCHANGED <<prompt, main, g_task_list>>,
         NEW k \in TaskRecord, task' = [task EXCEPT ![t] = k],
         NEW r \in ThreadRecord, thread' = [thread EXCEPT ![t] = r],
         strtok' \in [name : Task \cup {0}, next : Nat],
         k.mem = task[t].mem, ResultOfThread(k, r),
         thread[t].at \in {"print", "end"} => r.at \in {"print", "end"},
         r.at \in Splitting => thread[t].at \in Splitting,
         strtok' = strtok \/ thread[t].at \in Splitting,
         strtok' = strtok \/ strtok'.name \in Task,
         r.at = "split" => strtok'.name \in Task,
         prompt /\ OneSplits /\ r.at = "split" =>
           /\ strtok'.name = t /\ strtok'.next \in 2 .. Label[t] + 1
           /\ r.name = [i \in 1 .. strtok'.next - 1 |-> <<t, i>>],
         prompt /\ OneSplits /\ r.at = "send" => r.name = Name(t),
         r.at = "recv" => thread[t].at \in Splitting
  PROVE  IInv'
<1>1. /\ task \in [Task -> TaskRecord] /\ thread \in [Task -> ThreadRecord]
      /\ TypeOK
  BY DEF IInv, TasksCollectedOnce, TypeOK, TaskRecord, ThreadRecord
<1>2. /\ task' \in [Task -> TaskRecord] /\ task'[t] = k /\ \A u \in Task : u # t => task'[u] = task[u]
      /\ thread' \in [Task -> ThreadRecord] /\ thread'[t] = r
      /\ \A u \in Task : u # t => thread'[u] = thread[u]
  BY <1>1
<1>3. TypeOK'
  BY <1>1, <1>2 DEF TypeOK, TaskRecord, ThreadRecord
<1>4. \A u \in Task : task'[u].mem = task[u].mem
  BY <1>2
<1>5. TasksCollectedOnce'
  <2>1. \A u \in Task : task'[u].mem = "live" => Uncollected(u)'
    BY <1>4 DEF IInv, TasksCollectedOnce, Uncollected
  <2>2. \A u \in Task : task'[u].mem = "freed" =>
          u \notin ToSet(g_task_list') /\ thread'[u].at \in {"print", "end"}
    <3>1. \A u \in Task : task[u].mem = "freed" =>
            u \notin ToSet(g_task_list) /\ thread[u].at \in {"print", "end"}
      BY DEF IInv, TasksCollectedOnce
    <3>2. QED
      BY <1>2, <1>4, <3>1
  <2>3. {u \in Task : task'[u].mem = "freed"} = {u \in Task : task[u].mem = "freed"}
    BY <1>4
  <2>4. QED
    BY <1>3, <2>1, <2>2, <2>3 DEF IInv, TasksCollectedOnce
<1>6. TasksFollowThreads'
  BY <1>2, <1>4 DEF IInv, TasksFollowThreads
<1>7. AddedInOrder'
  BY <1>4 DEF IInv, AddedInOrder
<1>8. ASSUME prompt'
      PROVE  OneSplits' /\ TimeoutsNear'
  <2>1. prompt /\ OneSplits /\ TimeoutsNear
    BY <1>8 DEF IInv, PromptInv
  <2>2. OneSplits'
    <3>1. \A u \in Task : thread'[u].at \in Splitting => main.at \in {"insert", "pause"} /\ main.i = u
      BY <1>2, <2>1 DEF OneSplits
    <3>2. ASSUME NEW u \in Task, thread'[u].at = "split"
          PROVE  /\ strtok'.name = u /\ strtok'.next \in 2 .. Label[u] + 1
                 /\ thread'[u].name = [i \in 1 .. strtok'.next - 1 |-> <<u, i>>]
      <4>1. CASE u = t
        BY <1>2, <2>1, <3>2, <4>1
      <4>2. CASE u # t
        <5>1. thread[u].at = "split" /\ main.i = u
          BY <1>2, <2>1, <3>2, <4>2 DEF OneSplits, Splitting
        <5>2. thread[t].at \notin Splitting
          BY <2>1, <4>2, <5>1 DEF OneSplits
        <5>3. strtok' = strtok
          BY <5>2
        <5>4. QED
          BY <1>2, <2>1, <4>2, <5>1, <5>3 DEF OneSplits
      <4>3. QED
        BY <4>1, <4>2
    <3>3. \A u \in Task : thread'[u].at = "send" => thread'[u].name = Name(u)
      BY <1>2, <2>1 DEF OneSplits
    <3>4. QED
      BY <3>1, <3>2, <3>3 DEF OneSplits, Name
  <2>3. TimeoutsNear'
    <3>1. ASSUME NEW u \in Task, main.at = "wait", thread'[u].at = "recv"
          PROVE  thread'[u].left <= RecvTimeout - main.i
      <4>1. CASE u = t
        BY <1>2, <2>1, <3>1, <4>1 DEF OneSplits
      <4>2. CASE u # t
        BY <1>2, <2>1, <3>1, <4>2 DEF TimeoutsNear
      <4>3. QED
        BY <4>1, <4>2
    <3>2. QED
      BY <2>1, <3>1 DEF TimeoutsNear
  <2>4. QED
    BY <2>2, <2>3
<1>9. StrtokStarted'
  BY <1>2 DEF IInv, StrtokStarted
<1>10. QED
  BY <1>5, <1>6, <1>7, <1>8, <1>9 DEF IInv, PromptInv
------------------------------------------------------------------------------
(* No socket.                                                               *)
LEMMA SocketStep ==
  ASSUME IInv, NEW t \in Task, socket(t)
  PROVE  IInv'
<1> DEFINE k == [task[t] EXCEPT !.status = -1]
           r == [thread[t] EXCEPT !.at = "end"]
<1>1. /\ task \in [Task -> TaskRecord] /\ thread \in [Task -> ThreadRecord]
      /\ task[t] \in TaskRecord /\ thread[t] \in ThreadRecord /\ TypeOK
      /\ RecvTimeout \in Nat
  BY DnsAssumption DEF IInv, TasksCollectedOnce, TypeOK, TaskRecord, ThreadRecord
<1>2. thread[t].at = "start" /\ UNCHANGED <<prompt, main, g_task_list, strtok>>
  BY DEF socket, Running
<1>3. task' = [task EXCEPT ![t] = k] /\ thread' = [thread EXCEPT ![t] = r]
  BY <1>1 DEF socket
<1>4. k \in TaskRecord /\ k.mem = task[t].mem /\ k.status = -1
  BY <1>1 DEF TaskRecord
<1>5. r \in ThreadRecord /\ r.at = "end"
  BY <1>1 DEF ThreadRecord
<1>6. ResultOfThread(task[t], thread[t])
  BY DEF IInv, TasksFollowThreads
<1> HIDE DEF k, r
<1>7. ResultOfThread(k, r)
  BY <1>2, <1>4, <1>5, <1>6 DEF ResultOfThread
<1>8. strtok' \in [name : Task \cup {0}, next : Nat]
  BY <1>1, <1>2 DEF TypeOK
<1>9. QED
  BY <1>2, <1>3, <1>4, <1>5, <1>7, <1>8, ThreadKeeps DEF Splitting

(* The request is sent.                                                     *)
LEMMA RequestStep ==
  ASSUME IInv, NEW t \in Task, dns_build_requestion(t)
  PROVE  IInv'
<1> DEFINE k == task[t]
           r == [thread[t] EXCEPT !.at = "recv", !.name = <<>>, !.left = RecvTimeout]
<1>1. /\ task \in [Task -> TaskRecord] /\ thread \in [Task -> ThreadRecord]
      /\ task[t] \in TaskRecord /\ thread[t] \in ThreadRecord /\ TypeOK
      /\ RecvTimeout \in Nat
  BY DnsAssumption DEF IInv, TasksCollectedOnce, TypeOK, TaskRecord, ThreadRecord
<1>2. thread[t].at = "send" /\ UNCHANGED <<prompt, main, g_task_list, strtok>>
  BY DEF dns_build_requestion, Running
<1>3. task' = [task EXCEPT ![t] = k] /\ thread' = [thread EXCEPT ![t] = r]
  BY <1>1 DEF dns_build_requestion
<1>4. k \in TaskRecord /\ k.mem = task[t].mem /\ k.status = task[t].status /\ k.response_len = task[t].response_len
  BY <1>1 DEF TaskRecord
<1>5. r \in ThreadRecord /\ r.at = "recv"
  <2>0. RecvTimeout \in 0 .. RecvTimeout /\ <<>> \in Seq(Nat \X Nat) /\ "recv" \in
          {"none", "start", "split", "send", "recv", "answered", "stored", "print", "end"}
    BY <1>1
  <2>1. r \in ThreadRecord
    BY <1>1, <2>0 DEF ThreadRecord
  <2>2. r.at = "recv"
    BY <1>1 DEF ThreadRecord
  <2>3. QED
    BY <2>1, <2>2
<1>6. ResultOfThread(task[t], thread[t])
  BY DEF IInv, TasksFollowThreads
<1> HIDE DEF k, r
<1>7. ResultOfThread(k, r)
  BY <1>2, <1>4, <1>5, <1>6 DEF ResultOfThread
<1>8. strtok' \in [name : Task \cup {0}, next : Nat]
  BY <1>1, <1>2 DEF TypeOK
<1>9. QED
  BY <1>2, <1>3, <1>4, <1>5, <1>7, <1>8, ThreadKeeps DEF Splitting

(* An answer arrives.                                                       *)
LEMMA AnswerStep ==
  ASSUME IInv, NEW t \in Task, Answer(t)
  PROVE  IInv'
<1> DEFINE k == task[t]
           r == [thread[t] EXCEPT !.at = "answered", !.left = 0]
<1>1. /\ task \in [Task -> TaskRecord] /\ thread \in [Task -> ThreadRecord]
      /\ task[t] \in TaskRecord /\ thread[t] \in ThreadRecord /\ TypeOK
      /\ RecvTimeout \in Nat
  BY DnsAssumption DEF IInv, TasksCollectedOnce, TypeOK, TaskRecord, ThreadRecord
<1>2. thread[t].at = "recv" /\ UNCHANGED <<prompt, main, g_task_list, strtok>>
  BY DEF Answer, Running
<1>3. task' = [task EXCEPT ![t] = k] /\ thread' = [thread EXCEPT ![t] = r]
  BY <1>1 DEF Answer
<1>4. k \in TaskRecord /\ k.mem = task[t].mem /\ k.status = task[t].status /\ k.response_len = task[t].response_len
  BY <1>1 DEF TaskRecord
<1>5. r \in ThreadRecord /\ r.at = "answered"
  <2>0. 0 \in 0 .. RecvTimeout
    BY <1>1
  <2>1. r \in ThreadRecord
    BY <1>1, <2>0 DEF ThreadRecord
  <2>2. r.at = "answered"
    BY <1>1 DEF ThreadRecord
  <2>3. QED
    BY <2>1, <2>2
<1>6. ResultOfThread(task[t], thread[t])
  BY DEF IInv, TasksFollowThreads
<1> HIDE DEF k, r
<1>7. ResultOfThread(k, r)
  BY <1>2, <1>4, <1>5, <1>6 DEF ResultOfThread
<1>8. strtok' \in [name : Task \cup {0}, next : Nat]
  BY <1>1, <1>2 DEF TypeOK
<1>9. QED
  BY <1>2, <1>3, <1>4, <1>5, <1>7, <1>8, ThreadKeeps DEF Splitting

(* recvfrom gives up.                                                       *)
LEMMA TimeoutStep ==
  ASSUME IInv, NEW t \in Task, Timeout(t)
  PROVE  IInv'
<1> DEFINE k == [task[t] EXCEPT !.status = -1]
           r == [thread[t] EXCEPT !.at = "print"]
<1>1. /\ task \in [Task -> TaskRecord] /\ thread \in [Task -> ThreadRecord]
      /\ task[t] \in TaskRecord /\ thread[t] \in ThreadRecord /\ TypeOK
      /\ RecvTimeout \in Nat
  BY DnsAssumption DEF IInv, TasksCollectedOnce, TypeOK, TaskRecord, ThreadRecord
<1>2. thread[t].at = "recv" /\ UNCHANGED <<prompt, main, g_task_list, strtok>>
  BY DEF Timeout, Running
<1>3. task' = [task EXCEPT ![t] = k] /\ thread' = [thread EXCEPT ![t] = r]
  BY <1>1 DEF Timeout
<1>4. k \in TaskRecord /\ k.mem = task[t].mem /\ k.status = -1
  BY <1>1 DEF TaskRecord
<1>5. r \in ThreadRecord /\ r.at = "print"
  BY <1>1 DEF ThreadRecord
<1>6. ResultOfThread(task[t], thread[t])
  BY DEF IInv, TasksFollowThreads
<1> HIDE DEF k, r
<1>7. ResultOfThread(k, r)
  BY <1>2, <1>4, <1>5, <1>6 DEF ResultOfThread
<1>8. strtok' \in [name : Task \cup {0}, next : Nat]
  BY <1>1, <1>2 DEF TypeOK
<1>9. QED
  BY <1>2, <1>3, <1>4, <1>5, <1>7, <1>8, ThreadKeeps DEF Splitting

(* The length is stored.                                                    *)
LEMMA StoreLengthStep ==
  ASSUME IInv, NEW t \in Task, StoreLength(t)
  PROVE  IInv'
<1> DEFINE k == [task[t] EXCEPT !.response_len = 1]
           r == [thread[t] EXCEPT !.at = "stored"]
<1>1. /\ task \in [Task -> TaskRecord] /\ thread \in [Task -> ThreadRecord]
      /\ task[t] \in TaskRecord /\ thread[t] \in ThreadRecord /\ TypeOK
      /\ RecvTimeout \in Nat
  BY DnsAssumption DEF IInv, TasksCollectedOnce, TypeOK, TaskRecord, ThreadRecord
<1>2. thread[t].at = "answered" /\ UNCHANGED <<prompt, main, g_task_list, strtok>>
  BY DEF StoreLength, Running
<1>3. task' = [task EXCEPT ![t] = k] /\ thread' = [thread EXCEPT ![t] = r]
  BY <1>1 DEF StoreLength
<1>4. k \in TaskRecord /\ k.mem = task[t].mem /\ k.status = task[t].status /\ k.response_len = 1
  BY <1>1 DEF TaskRecord
<1>5. r \in ThreadRecord /\ r.at = "stored"
  BY <1>1 DEF ThreadRecord
<1>6. ResultOfThread(task[t], thread[t])
  BY DEF IInv, TasksFollowThreads
<1> HIDE DEF k, r
<1>7. ResultOfThread(k, r)
  BY <1>2, <1>4, <1>5, <1>6 DEF ResultOfThread
<1>8. strtok' \in [name : Task \cup {0}, next : Nat]
  BY <1>1, <1>2 DEF TypeOK
<1>9. QED
  BY <1>2, <1>3, <1>4, <1>5, <1>7, <1>8, ThreadKeeps DEF Splitting

(* The status is stored.                                                    *)
LEMMA StoreStatusStep ==
  ASSUME IInv, NEW t \in Task, StoreStatus(t)
  PROVE  IInv'
<1> DEFINE k == [task[t] EXCEPT !.status = 1]
           r == [thread[t] EXCEPT !.at = "print"]
<1>1. /\ task \in [Task -> TaskRecord] /\ thread \in [Task -> ThreadRecord]
      /\ task[t] \in TaskRecord /\ thread[t] \in ThreadRecord /\ TypeOK
      /\ RecvTimeout \in Nat
  BY DnsAssumption DEF IInv, TasksCollectedOnce, TypeOK, TaskRecord, ThreadRecord
<1>2. thread[t].at = "stored" /\ UNCHANGED <<prompt, main, g_task_list, strtok>>
  BY DEF StoreStatus, Running
<1>3. task' = [task EXCEPT ![t] = k] /\ thread' = [thread EXCEPT ![t] = r]
  BY <1>1 DEF StoreStatus
<1>4. k \in TaskRecord /\ k.mem = task[t].mem /\ k.status = 1 /\ k.response_len = task[t].response_len
  BY <1>1 DEF TaskRecord
<1>5. r \in ThreadRecord /\ r.at = "print"
  BY <1>1 DEF ThreadRecord
<1>6. ResultOfThread(task[t], thread[t])
  BY DEF IInv, TasksFollowThreads
<1> HIDE DEF k, r
<1>7. ResultOfThread(k, r)
  BY <1>2, <1>4, <1>5, <1>6 DEF ResultOfThread
<1>8. strtok' \in [name : Task \cup {0}, next : Nat]
  BY <1>1, <1>2 DEF TypeOK
<1>9. QED
  BY <1>2, <1>3, <1>4, <1>5, <1>7, <1>8, ThreadKeeps DEF Splitting

(* The name is printed.                                                     *)
LEMMA ReportStep ==
  ASSUME IInv, NEW t \in Task, Report(t)
  PROVE  IInv'
<1> DEFINE k == task[t]
           r == [thread[t] EXCEPT !.at = "end"]
<1>1. /\ task \in [Task -> TaskRecord] /\ thread \in [Task -> ThreadRecord]
      /\ task[t] \in TaskRecord /\ thread[t] \in ThreadRecord /\ TypeOK
      /\ RecvTimeout \in Nat
  BY DnsAssumption DEF IInv, TasksCollectedOnce, TypeOK, TaskRecord, ThreadRecord
<1>2. thread[t].at = "print" /\ UNCHANGED <<prompt, main, g_task_list, strtok>>
  BY DEF Report, Running
<1>3. task' = [task EXCEPT ![t] = k] /\ thread' = [thread EXCEPT ![t] = r]
  BY <1>1 DEF Report
<1>4. k \in TaskRecord /\ k.mem = task[t].mem /\ k.status = task[t].status /\ k.response_len = task[t].response_len
  BY <1>1 DEF TaskRecord
<1>5. r \in ThreadRecord /\ r.at = "end"
  BY <1>1 DEF ThreadRecord
<1>6. ResultOfThread(task[t], thread[t])
  BY DEF IInv, TasksFollowThreads
<1> HIDE DEF k, r
<1>7. ResultOfThread(k, r)
  BY <1>2, <1>4, <1>5, <1>6 DEF ResultOfThread
<1>8. strtok' \in [name : Task \cup {0}, next : Nat]
  BY <1>1, <1>2 DEF TypeOK
<1>9. QED
  BY <1>2, <1>3, <1>4, <1>5, <1>7, <1>8, ThreadKeeps DEF Splitting

(* The first call of strtok.                                                *)
LEMMA FirstLabelStep ==
  ASSUME IInv, NEW t \in Task, FirstLabel(t)
  PROVE  IInv'
<1> DEFINE k == task[t]
           r == [thread[t] EXCEPT !.at = "split", !.name = <<<<t, 1>>>>]
<1>1. /\ task \in [Task -> TaskRecord] /\ thread \in [Task -> ThreadRecord]
      /\ task[t] \in TaskRecord /\ thread[t] \in ThreadRecord /\ t \in Nat
  BY TaskFacts DEF IInv, TasksCollectedOnce, TypeOK, TaskRecord, ThreadRecord
<1>2. /\ thread[t].at = "start" /\ UNCHANGED <<prompt, main, g_task_list>>
      /\ strtok' = [name |-> t, next |-> 2]
  BY DEF FirstLabel, Running
<1>3. task' = [task EXCEPT ![t] = k] /\ thread' = [thread EXCEPT ![t] = r]
  BY <1>1 DEF FirstLabel
<1>4. <<<<t, 1>>>> \in Seq(Nat \X Nat)
  BY <1>1
<1>5. r \in ThreadRecord /\ r.at = "split" /\ r.name = <<<<t, 1>>>>
  <2>1. r \in ThreadRecord
    BY <1>1, <1>4 DEF ThreadRecord
  <2>2. QED
    BY <1>1, <2>1 DEF ThreadRecord
<1>6. ResultOfThread(task[t], thread[t])
  BY DEF IInv, TasksFollowThreads
<1>7. <<<<t, 1>>>> = [i \in 1 .. 2 - 1 |-> <<t, i>>]
  OBVIOUS
<1>8. 2 \in 2 .. Label[t] + 1
  BY TaskFacts
<1>9. strtok'.name = t /\ strtok'.next = 2 /\ strtok' \in [name : Task \cup {0}, next : Nat]
  BY <1>2
<1> HIDE DEF r
<1>10. ResultOfThread(k, r)
  BY <1>2, <1>5, <1>6 DEF ResultOfThread
<1>11. QED
  BY <1>1, <1>2, <1>3, <1>5, <1>7, <1>8, <1>9, <1>10, ThreadKeeps DEF Splitting

(* The next calls: in a prompt behaviour strtok is where this thread left   *)
(* it.                                                                      *)
LEMMA NextLabelStep ==
  ASSUME IInv, NEW t \in Task, NextLabel(t)
  PROVE  IInv'
<1> DEFINE k == task[t]
<1>1. /\ task \in [Task -> TaskRecord] /\ thread \in [Task -> ThreadRecord]
      /\ task[t] \in TaskRecord /\ thread[t] \in ThreadRecord /\ t \in Nat /\ Label[t] \in Nat \ {0}
      /\ strtok \in [name : Task \cup {0}, next : Nat] /\ thread[t].name \in Seq(Nat \X Nat)
  BY TaskFacts DEF IInv, TasksCollectedOnce, TypeOK, TaskRecord, ThreadRecord
<1>2. /\ thread[t].at = "split" /\ UNCHANGED <<prompt, main, g_task_list, task>>
      /\ ResultOfThread(task[t], thread[t])
  BY DEF NextLabel, Running, IInv, TasksFollowThreads
<1>3. task' = [task EXCEPT ![t] = k]
  BY <1>1, <1>2
<1>0. strtok.name \in Task /\ Label[strtok.name] \in Nat
  BY <1>2, TaskFacts DEF IInv, StrtokStarted
<1>4. ASSUME OneSplits
      PROVE  /\ strtok.name = t /\ strtok.next \in 2 .. Label[t] + 1 /\ ~OwnerDone
             /\ thread[t].name = [i \in 1 .. strtok.next - 1 |-> <<t, i>>]
  BY <1>2, <1>4 DEF OneSplits, OwnerDone
<1>5. CASE /\ ~OwnerDone /\ strtok.next <= Label[strtok.name]
           /\ thread' = [thread EXCEPT ![t].name = Append(@, <<strtok.name, strtok.next>>)]
           /\ strtok' = [strtok EXCEPT !.next = @ + 1]
  <2> DEFINE n == Append(thread[t].name, <<strtok.name, strtok.next>>)
             r == [thread[t] EXCEPT !.name = n]
  <2>1. /\ strtok'.name = strtok.name /\ strtok'.next = strtok.next + 1
        /\ strtok' \in [name : Task \cup {0}, next : Nat]
    BY <1>1, <1>5, SMTT(30)
  <2>2. <<strtok.name, strtok.next>> \in Nat \X Nat
    BY <1>1, TaskFacts
  <2>3. n \in Seq(Nat \X Nat)
    BY <1>1, <2>2
  <2>4. thread' = [thread EXCEPT ![t] = r]
    BY <1>1, <1>5
  <2>5. ASSUME OneSplits
        PROVE  /\ strtok'.name = t /\ strtok'.next \in 2 .. Label[t] + 1
               /\ n = [i \in 1 .. strtok'.next - 1 |-> <<t, i>>]
    <3> DEFINE m == strtok.next
               w == thread[t].name
    <3>1. /\ strtok.name = t /\ m \in 2 .. Label[t] + 1 /\ m <= Label[t]
          /\ w = [i \in 1 .. m - 1 |-> <<t, i>>]
      BY <1>4, <1>5, <2>5
    <3>2. w \in Seq(Nat \X Nat) /\ n = Append(w, <<t, m>>)
      BY <1>1, <3>1
    <3> HIDE DEF m, w, n
    <3>3. m \in Nat /\ m - 1 \in Nat /\ (m + 1) - 1 = m
      BY <1>1, <3>1
    <3>4. Len(w) = m - 1
      BY <3>1, <3>2, <3>3, LenProperties
    <3>5. Append(w, <<t, m>>) = [i \in 1 .. m |-> IF i = m THEN <<t, m>> ELSE w[i]]
      <4>1. <<t, m>> \in Nat \X Nat
        BY <1>1, <3>3
      <4>2. DOMAIN Append(w, <<t, m>>) = 1 .. Len(w) + 1
        BY <3>2, <4>1, AppendProperties, LenProperties
      <4>3. (m - 1) + 1 = m
        BY <3>3
      <4>4. \A i \in 1 .. m : Append(w, <<t, m>>)[i] = IF i = m THEN <<t, m>> ELSE w[i]
        BY <3>2, <3>3, <3>4, <4>1, <4>3, AppendProperties
      <4>5. Append(w, <<t, m>>) = [i \in DOMAIN Append(w, <<t, m>>) |-> Append(w, <<t, m>>)[i]]
        BY <3>2, <4>1, AppendProperties
      <4>6. QED
        BY <3>4, <4>2, <4>3, <4>4, <4>5
    <3>6. \A i \in 1 .. m : (IF i = m THEN <<t, m>> ELSE w[i]) = <<t, i>>
      BY <3>1, <3>3
    <3>7. n = [i \in 1 .. m |-> <<t, i>>]
      BY <3>2, <3>5, <3>6
    <3>8. strtok'.name = t /\ strtok'.next = m + 1 /\ m + 1 \in 2 .. Label[t] + 1
      BY <1>1, <2>1, <3>1, <3>3 DEF m
    <3>9. QED
      BY <3>3, <3>7, <3>8
  <2> HIDE DEF n
  <2>6. r \in ThreadRecord /\ r.at = "split" /\ r.name = n
    <3>1. r \in ThreadRecord
      BY <1>1, <2>3 DEF ThreadRecord
    <3>2. r.at = "split" /\ r.name = n
      BY <1>1, <1>2 DEF ThreadRecord
    <3>3. QED
      BY <3>1, <3>2
  <2> HIDE DEF r
  <2>7. ResultOfThread(k, r)
    BY <1>2, <2>6 DEF ResultOfThread
  <2>8. QED
    BY <1>0, <1>1, <1>2, <1>3, <2>1, <2>4, <2>5, <2>6, <2>7, ThreadKeeps DEF Splitting
<1>6. CASE /\ OwnerDone /\ strtok.next <= Label[strtok.name] + 1
           /\ thread' = [thread EXCEPT ![t].name = Append(@, Junk)]
           /\ strtok' = [strtok EXCEPT !.next = Label[strtok.name] + 2]
  <2> DEFINE n == Append(thread[t].name, Junk)
             r == [thread[t] EXCEPT !.name = n]
  <2>1. n \in Seq(Nat \X Nat)
    BY <1>1 DEF Junk
  <2>2. thread' = [thread EXCEPT ![t] = r]
    BY <1>1, <1>6
  <2> HIDE DEF n
  <2>3. r \in ThreadRecord /\ r.at = "split"
    BY <1>1, <1>2, <2>1 DEF ThreadRecord
  <2>4. ~OneSplits
    BY <1>4, <1>6
  <2> HIDE DEF r
  <2>5. ResultOfThread(k, r)
    BY <1>2, <2>3 DEF ResultOfThread
  <2>6. QED
    <3>1. strtok'.name = strtok.name /\ strtok' \in [name : Task \cup {0}, next : Nat]
      BY <1>0, <1>1, <1>6
    <3>2. QED
      BY <1>0, <1>1, <1>2, <1>3, <2>2, <2>3, <2>4, <2>5, <3>1, ThreadKeeps DEF Splitting
<1>7. CASE /\ OwnerDone \/ strtok.next > Label[strtok.name]
           /\ thread' = [thread EXCEPT ![t].at = "send"]
           /\ UNCHANGED strtok
  <2> DEFINE r == [thread[t] EXCEPT !.at = "send"]
  <2>1. thread' = [thread EXCEPT ![t] = r]
    BY <1>1, <1>7
  <2>2. r \in ThreadRecord /\ r.at = "send" /\ r.name = thread[t].name
    BY <1>1 DEF ThreadRecord
  <2> HIDE DEF r
  <2>3. ASSUME OneSplits
        PROVE  r.name = Name(t)
    <3>1. strtok.next = Label[t] + 1
      BY <1>1, <1>4, <1>7, <2>3
    <3>2. strtok.next - 1 = Label[t]
      BY <1>1, <3>1
    <3>3. QED
      BY <1>4, <2>2, <2>3, <3>2 DEF Name
  <2>4. ResultOfThread(k, r)
    BY <1>2, <2>2 DEF ResultOfThread
  <2>5. QED
    BY <1>1, <1>2, <1>3, <1>7, <2>1, <2>2, <2>3, <2>4, ThreadKeeps DEF Splitting
<1>8. QED
  BY <1>5, <1>6, <1>7 DEF NextLabel
------------------------------------------------------------------------------
(* The types, as the proofs of main's steps use them.                       *)
LEMMA Typed ==
  ASSUME IInv
  PROVE  /\ TypeOK /\ main \in MainRecord /\ task \in [Task -> TaskRecord]
         /\ thread \in [Task -> ThreadRecord] /\ g_task_list \in Seq(Task)
         /\ strtok \in [name : Task \cup {0}, next : Nat] /\ prompt \in BOOLEAN
BY DEF IInv, TasksCollectedOnce, TypeOK, MainRecord, TaskRecord, ThreadRecord

(* A step of main that leaves the tasks, the list and the threads' places   *)
(* alone.                                                                   *)
LEMMA MainMoves ==
  ASSUME IInv, UNCHANGED <<prompt, task, g_task_list, strtok>>,
         thread' \in [Task -> ThreadRecord], main' \in MainRecord,
         \A t \in Task : thread'[t].at = thread[t].at,
         main.at # "insert", main'.at # "insert",
         main'.success_count = main.success_count, main'.fail_count = main.fail_count,
         main'.bytes = main.bytes,
         AddedInOrder',
         prompt => OneSplits' /\ TimeoutsNear'
  PROVE  IInv'
<1>1. TypeOK'
  BY Typed DEF TypeOK, TaskRecord, ThreadRecord, MainRecord
<1>2. TasksCollectedOnce'
  <2>1. \A t \in Task : task[t].mem = "live" => t \in ToSet(g_task_list)
    BY DEF IInv, TasksCollectedOnce, Uncollected
  <2>2. \A t \in Task : task'[t].mem = "live" => Uncollected(t)'
    BY <2>1 DEF Uncollected
  <2>3. \A t \in Task : task'[t].mem = "freed" =>
          t \notin ToSet(g_task_list') /\ thread'[t].at \in {"print", "end"}
    BY DEF IInv, TasksCollectedOnce
  <2>4. QED
    BY <1>1, <2>2, <2>3 DEF IInv, TasksCollectedOnce
<1>3. TasksFollowThreads'
  BY DEF IInv, TasksFollowThreads, ResultOfThread
<1>4. StrtokStarted'
  BY DEF IInv, StrtokStarted
<1>5. QED
  BY <1>2, <1>3, <1>4 DEF IInv, PromptInv

(* The thread of the next task is made.                                     *)
LEMMA CreateThreadStep ==
  ASSUME IInv, CreateThread
  PROVE  IInv'
<1> DEFINE j == main.i
           k == [mem |-> "live", status |-> 0, response_len |-> 0]
           r == [thread[j] EXCEPT !.at = "start"]
<1>1. /\ main.at = "add" /\ main' = [main EXCEPT !.at = "insert"]
      /\ UNCHANGED <<prompt, g_task_list, strtok>>
      /\ task' = [task EXCEPT ![j] = k] /\ thread' = [thread EXCEPT ![j].at = "start"]
  BY DEF CreateThread, Goto
<1>2. j \in Task /\ \A t \in Task : t >= j => task[t].mem = "none"
  BY <1>1 DEF IInv, AddedInOrder
<1>3. j \in Nat /\ \A t \in Task : t \in Nat
  BY <1>2, TaskFacts
<1>4. task[j].mem = "none"
  BY <1>2, <1>3
<1>5. r \in ThreadRecord /\ r.at = "start" /\ thread' = [thread EXCEPT ![j] = r]
  <2>1. thread[j] \in ThreadRecord /\ thread \in [Task -> ThreadRecord]
    BY <1>2, Typed
  <2> HIDE DEF j
  <2>2. QED
    BY <1>1, <2>1 DEF ThreadRecord
<1>6. k \in TaskRecord /\ k.mem = "live"
  BY DEF TaskRecord
<1>7. main' \in MainRecord /\ main'.at = "insert" /\ main'.i = j /\ main'.expired = main.expired
      /\ main'.success_count = main.success_count /\ main'.fail_count = main.fail_count
      /\ main'.bytes = main.bytes
  <2>1. main' \in MainRecord
    BY <1>1, Typed DEF MainRecord
  <2>2. QED
    BY <1>1, <2>1, Typed DEF MainRecord
<1> HIDE DEF j, r, k
<1>8. /\ task' \in [Task -> TaskRecord] /\ task'[j] = k
      /\ \A t \in Task : t # j => task'[t] = task[t]
      /\ thread' \in [Task -> ThreadRecord] /\ thread'[j] = r
      /\ \A t \in Task : t # j => thread'[t] = thread[t]
  BY <1>1, <1>2, <1>5, <1>6, Typed
<1>9. TypeOK'
  BY <1>1, <1>7, <1>8, Typed DEF TypeOK, TaskRecord, ThreadRecord, MainRecord
<1>10. j \notin ToSet(g_task_list)
  BY <1>2, <1>4 DEF IInv, TasksFollowThreads
<1>11. TasksCollectedOnce'
  <2>1. \A t \in Task : task'[t].mem = "live" => Uncollected(t)'
    <3>1. \A t \in Task : task[t].mem = "live" => t \in ToSet(g_task_list)
      BY <1>1 DEF IInv, TasksCollectedOnce, Uncollected
    <3>2. QED
      BY <1>1, <1>7, <1>8, <1>10, <3>1 DEF Uncollected
  <2>2. \A t \in Task : task'[t].mem = "freed" => t # j /\ task[t].mem = "freed"
    BY <1>2, <1>6, <1>8
  <2>3. {t \in Task : task'[t].mem = "freed"} = {t \in Task : task[t].mem = "freed"}
    BY <1>4, <1>8, <2>2
  <2>4. \A t \in Task : task'[t].mem = "freed" =>
          t \notin ToSet(g_task_list') /\ thread'[t].at \in {"print", "end"}
    BY <1>1, <1>8, <2>2 DEF IInv, TasksCollectedOnce
  <2>5. QED
    BY <1>1, <1>7, <1>9, <2>1, <2>3, <2>4 DEF IInv, TasksCollectedOnce
<1>12. TasksFollowThreads'
  <2>1. ResultOfThread(k, r)
    BY <1>5 DEF ResultOfThread, k
  <2>2. QED
    BY <1>1, <1>8, <1>10, <2>1 DEF IInv, TasksFollowThreads
<1>13. AddedInOrder'
  BY <1>2, <1>3, <1>6, <1>7, <1>8 DEF AddedInOrder
<1>14. StrtokStarted'
  BY <1>1, <1>5, <1>8 DEF IInv, StrtokStarted
<1>15. ASSUME prompt
       PROVE  OneSplits' /\ TimeoutsNear'
  <2>1. OneSplits /\ TimeoutsNear
    BY <1>15 DEF IInv, PromptInv
  <2>2. \A t \in Task : t # j => thread'[t].at \notin Splitting
    BY <1>1, <1>8, <2>1 DEF OneSplits
  <2>3. thread'[j].at = "start"
    BY <1>5, <1>8
  <2>4. OneSplits'
    BY <1>7, <2>2, <2>3 DEF OneSplits, Splitting
  <2>5. TimeoutsNear'
    BY <1>7, <2>1 DEF TimeoutsNear
  <2>6. QED
    BY <2>4, <2>5
<1>16. QED
  BY <1>1, <1>11, <1>12, <1>13, <1>14, <1>15 DEF IInv, PromptInv

(* No thread could be made.                                                 *)
LEMMA NoThreadStep ==
  ASSUME IInv, NoThread
  PROVE  IInv'
<1>1. /\ main.at = "add" /\ main' = [main EXCEPT !.at = "pause"]
      /\ UNCHANGED <<prompt, g_task_list, task, thread, strtok>>
  BY DEF NoThread, Goto
<1>2. main' \in MainRecord
  BY <1>1, Typed DEF MainRecord
<1>3. /\ main'.at = "pause" /\ main'.i = main.i /\ main'.expired = main.expired
      /\ main'.success_count = main.success_count /\ main'.fail_count = main.fail_count
      /\ main'.bytes = main.bytes
  BY <1>1, <1>2, Typed DEF MainRecord
<1>4. AddedInOrder'
  <2>1. main.i \in Task /\ \A t \in Task : t >= main.i => task[t].mem = "none"
    BY <1>1 DEF IInv, AddedInOrder
  <2>2. \A t \in Task : t > main.i => t >= main.i
    BY <2>1, TaskFacts
  <2>3. QED
    BY <1>1, <1>3, <2>1, <2>2 DEF AddedInOrder
<1>5. ASSUME prompt
      PROVE  OneSplits' /\ TimeoutsNear'
  <2>1. OneSplits /\ TimeoutsNear
    BY <1>5 DEF IInv, PromptInv
  <2>2. \A t \in Task : thread'[t].at \notin Splitting
    BY <1>1, <2>1 DEF OneSplits
  <2>3. QED
    BY <1>3, <2>1, <2>2 DEF OneSplits, Splitting, TimeoutsNear
<1>6. QED
  BY <1>1, <1>2, <1>3, <1>4, <1>5, Typed, MainMoves

(* The task enters the list.                                                *)
LEMMA AddTaskStep ==
  ASSUME IInv, dns_add_task
  PROVE  IInv'
<1> DEFINE j == main.i
           l == <<j>> \o g_task_list
<1>1. /\ main.at = "insert" /\ main' = [main EXCEPT !.at = "pause"] /\ g_task_list' = l
      /\ UNCHANGED <<prompt, task, thread, strtok>>
  BY DEF dns_add_task, Goto
<1>2. main' \in MainRecord
  BY <1>1, Typed DEF MainRecord
<1>3. /\ main'.at = "pause" /\ main'.i = j /\ main'.expired = main.expired
      /\ main'.success_count = main.success_count /\ main'.fail_count = main.fail_count
      /\ main'.bytes = main.bytes
  BY <1>1, <1>2, Typed DEF MainRecord
<1>4. j \in Task /\ task[j].mem = "live" /\ \A t \in Task : t > j => task[t].mem = "none"
  BY <1>1 DEF IInv, AddedInOrder
<1>5. j \notin ToSet(g_task_list) /\ IsInjective(g_task_list)
  BY <1>1, <1>4 DEF IInv, TasksCollectedOnce, Uncollected
<1> HIDE DEF j
<1>6. l \in Seq(Task) /\ ToSet(l) = {j} \cup ToSet(g_task_list) /\ IsInjective(l)
  BY <1>4, <1>5, Typed, ConsFacts
<1> HIDE DEF l
<1>7. TypeOK'
  BY <1>1, <1>2, <1>6, Typed DEF TypeOK, TaskRecord, ThreadRecord, MainRecord
<1>8. TasksCollectedOnce'
  <2>1. \A t \in Task : task[t].mem = "live" => t \in ToSet(l)
    <3>1. \A t \in Task : task[t].mem = "live" /\ t # j => t \in ToSet(g_task_list)
      BY DEF IInv, TasksCollectedOnce, Uncollected, j
    <3>2. QED
      BY <1>6, <3>1
  <2>2. \A t \in Task : task'[t].mem = "live" => Uncollected(t)'
    BY <1>1, <1>3, <2>1 DEF Uncollected
  <2>3. \A t \in Task : task'[t].mem = "freed" =>
          t \notin ToSet(g_task_list') /\ thread'[t].at \in {"print", "end"}
    BY <1>1, <1>4, <1>6 DEF IInv, TasksCollectedOnce
  <2>4. QED
    BY <1>1, <1>3, <1>6, <1>7, <2>2, <2>3 DEF IInv, TasksCollectedOnce
<1>9. TasksFollowThreads'
  BY <1>1, <1>4, <1>6 DEF IInv, TasksFollowThreads
<1>10. AddedInOrder'
  BY <1>1, <1>3, <1>4 DEF AddedInOrder
<1>11. StrtokStarted'
  BY <1>1 DEF IInv, StrtokStarted
<1>12. ASSUME prompt
       PROVE  OneSplits' /\ TimeoutsNear'
  <2>1. OneSplits /\ TimeoutsNear
    BY <1>12 DEF IInv, PromptInv
  <2>2. OneSplits'
    BY <1>1, <1>3, <2>1 DEF OneSplits, Name, j
  <2>3. TimeoutsNear'
    BY <1>3, <2>1 DEF TimeoutsNear
  <2>4. QED
    BY <2>2, <2>3
<1>13. QED
  BY <1>1, <1>8, <1>9, <1>10, <1>11, <1>12 DEF IInv, PromptInv
(* When time passes in a prompt behaviour no thread is splitting its name.  *)
LEMMA NobodySplits ==
  ASSUME prompt, TimeMayPass
  PROVE  \A t \in Task : /\ Blocked(t) /\ thread[t].at \notin Splitting
                         /\ thread[t].at \in {"none", "end", "recv"}
                         /\ thread[t].at = "recv" => thread[t].left > 0
BY DEF TimeMayPass, Blocked, Splitting

(* A second: the timeouts come nearer, and nothing else changes.            *)
LEMMA SecondFacts ==
  ASSUME IInv, Second
  PROVE  /\ thread' \in [Task -> ThreadRecord]
         /\ \A t \in Task : thread'[t].at = thread[t].at
         /\ \A t \in Task : thread[t].at = "recv" /\ thread[t].left > 0 =>
              thread'[t].left = thread[t].left - 1
<1>1. thread \in [Task -> ThreadRecord] /\ RecvTimeout \in Nat
  BY Typed, DnsAssumption
<1> DEFINE r(t) == [thread[t] EXCEPT !.left = @ - 1]
<1>2. ASSUME NEW t \in Task, thread[t].at = "recv", thread[t].left > 0
      PROVE  r(t) \in ThreadRecord /\ r(t).at = "recv" /\ r(t).left = thread[t].left - 1
  <2>1. thread[t] \in ThreadRecord
    BY <1>1
  <2>2. thread[t].left - 1 \in 0 .. RecvTimeout
    BY <1>1, <1>2, <2>1 DEF ThreadRecord
  <2>3. QED
    BY <1>2, <2>1, <2>2 DEF ThreadRecord
<1>3. \A t \in Task : thread'[t] = IF thread[t].at = "recv" /\ thread[t].left > 0
                                   THEN r(t) ELSE thread[t]
  BY DEF Second
<1>4. thread' = [t \in Task |-> thread'[t]]
  BY DEF Second
<1> HIDE DEF r
<1>5. \A t \in Task : thread'[t] \in ThreadRecord
  BY <1>1, <1>2, <1>3
<1>6. thread' \in [Task -> ThreadRecord]
  BY <1>4, <1>5
<1>7. QED
  BY <1>2, <1>3, <1>6

(* The sleep after each task.                                               *)
LEMMA PauseStep ==
  ASSUME IInv, Pause
  PROVE  IInv'
<1>1. /\ main.at = "pause" /\ TimeMayPass
      /\ UNCHANGED <<prompt, g_task_list, task, thread, strtok>>
      /\ main' = IF main.i < Len(Label) THEN [main EXCEPT !.at = "add", !.i = @ + 1]
                                        ELSE [main EXCEPT !.at = "work", !.i = 0]
  BY DEF Pause
<1>2. /\ main \in MainRecord /\ main.i \in Nat /\ main.i + 1 \in Nat
  BY Typed DEF MainRecord
<1>3. main' \in MainRecord
  <2>1. [main EXCEPT !.at = "add", !.i = @ + 1] \in MainRecord
    BY <1>2 DEF MainRecord
  <2>2. [main EXCEPT !.at = "work", !.i = 0] \in MainRecord
    BY <1>2 DEF MainRecord
  <2>3. QED
    BY <1>1, <2>1, <2>2
<1>4. /\ main'.at \in {"add", "work"} /\ main'.expired = main.expired
      /\ main'.success_count = main.success_count /\ main'.fail_count = main.fail_count
      /\ main'.bytes = main.bytes
      /\ main'.at = "add" => main'.i = main.i + 1 /\ main.i < Len(Label)
  BY <1>1, <1>2 DEF MainRecord
<1>5. AddedInOrder'
  <2>1. main.i \in Task /\ \A t \in Task : t > main.i => task[t].mem = "none"
    BY <1>1 DEF IInv, AddedInOrder
  <2>2. main'.at = "add" => main'.i \in Task
    BY <1>2, <1>4, <2>1, TaskFacts
  <2>3. main'.at = "add" => \A t \in Task : t >= main'.i => t > main.i
    BY <1>2, <1>4, TaskFacts
  <2>4. QED
    BY <1>1, <1>4, <2>1, <2>2, <2>3 DEF AddedInOrder
<1>6. ASSUME prompt
      PROVE  OneSplits' /\ TimeoutsNear'
  <2>1. \A t \in Task : thread'[t].at \notin Splitting
    BY <1>1, <1>6, NobodySplits
  <2>2. ~main.expired
    BY <1>6 DEF IInv, PromptInv, TimeoutsNear
  <2>3. QED
    BY <1>4, <2>1, <2>2 DEF OneSplits, Splitting, TimeoutsNear
<1>7. QED
  BY <1>1, <1>3, <1>4, <1>5, <1>6, Typed, MainMoves

(* main works, then begins to wait.                                         *)
LEMMA WorkStep ==
  ASSUME IInv, Work
  PROVE  IInv'
<1>1. /\ main.at = "work" /\ TimeMayPass /\ UNCHANGED <<prompt, g_task_list, task, strtok>>
      /\ \/ main' = [main EXCEPT !.i = @ + 1] /\ Second
         \/ main' = [main EXCEPT !.at = "wait", !.i = 0] /\ thread' = thread
  BY DEF Work
<1>2. /\ main \in MainRecord /\ main.i \in Nat /\ main.i + 1 \in Nat
      /\ thread \in [Task -> ThreadRecord]
  BY Typed DEF MainRecord
<1>3. thread' \in [Task -> ThreadRecord] /\ \A t \in Task : thread'[t].at = thread[t].at
  BY <1>1, <1>2, SecondFacts
<1>4. main' \in MainRecord
  <2>1. [main EXCEPT !.i = @ + 1] \in MainRecord
    BY <1>2 DEF MainRecord
  <2>2. [main EXCEPT !.at = "wait", !.i = 0] \in MainRecord
    BY <1>2 DEF MainRecord
  <2>3. QED
    BY <1>1, <2>1, <2>2
<1>5. /\ main'.at \in {"work", "wait"} /\ main'.expired = main.expired
      /\ main'.success_count = main.success_count /\ main'.fail_count = main.fail_count
      /\ main'.bytes = main.bytes
      /\ main'.at = "wait" => main'.i = 0
  BY <1>1, <1>2 DEF MainRecord
<1>6. AddedInOrder'
  BY <1>5 DEF AddedInOrder
<1>7. ASSUME prompt
      PROVE  OneSplits' /\ TimeoutsNear'
  <2>1. \A t \in Task : thread'[t].at \notin Splitting
    BY <1>1, <1>3, <1>7, NobodySplits
  <2>2. ~main.expired
    BY <1>7 DEF IInv, PromptInv, TimeoutsNear
  <2>3. \A t \in Task : thread'[t].left <= RecvTimeout - 0
    BY <1>3, DnsAssumption DEF ThreadRecord
  <2>4. 0 <= RecvTimeout
    BY DnsAssumption
  <2>5. QED
    BY <1>5, <2>1, <2>2, <2>3, <2>4 DEF OneSplits, Splitting, TimeoutsNear
<1>8. QED
  BY <1>1, <1>3, <1>4, <1>5, <1>6, <1>7, MainMoves

(* main waits: as long as a task is active, a timeout is still running.     *)
LEMMA WaitStep ==
  ASSUME IInv, dns_wait_all
  PROVE  IInv'
<1>1. main.at = "wait" /\ UNCHANGED <<prompt, g_task_list, task, strtok>>
  BY DEF dns_wait_all
<1>2. /\ main \in MainRecord /\ main.i \in Nat /\ main.i + 1 \in Nat
      /\ thread \in [Task -> ThreadRecord] /\ RecvTimeout \in Nat /\ WaitTimeout \in Nat
      /\ RecvTimeout < WaitTimeout
  BY Typed, DnsAssumption DEF MainRecord
<1>3. CASE /\ main.i < WaitTimeout /\ Active # {} /\ TimeMayPass
           /\ main' = [main EXCEPT !.i = @ + 1]
           /\ Second
  <2>1. /\ thread' \in [Task -> ThreadRecord] /\ \A t \in Task : thread'[t].at = thread[t].at
        /\ \A t \in Task : thread[t].at = "recv" /\ thread[t].left > 0 =>
             thread'[t].left = thread[t].left - 1
    BY <1>3, SecondFacts
  <2>2. main' \in MainRecord
    BY <1>2, <1>3 DEF MainRecord
  <2>3. /\ main'.at = "wait" /\ main'.expired = main.expired
        /\ main'.success_count = main.success_count /\ main'.fail_count = main.fail_count
        /\ main'.bytes = main.bytes /\ main'.i = main.i + 1
    BY <1>1, <1>2, <1>3 DEF MainRecord
  <2>4. AddedInOrder'
    BY <2>3 DEF AddedInOrder
  <2>5. ASSUME prompt
        PROVE  OneSplits' /\ TimeoutsNear'
    <3>1. TimeoutsNear
      BY <2>5 DEF IInv, PromptInv
    <3>2. PICK t \in Task : t \in ToSet(g_task_list) /\ task[t].status = 0
      <4>1. ToSet(g_task_list) \subseteq Task
        BY Typed DEF ToSet
      <4>2. QED
        BY <1>3, <4>1 DEF Active
    <3>3. thread[t].at \notin {"none", "print", "end"}
      BY <3>2 DEF IInv, TasksFollowThreads, ResultOfThread
    <3>4. thread[t].at = "recv" /\ thread[t].left > 0
      BY <1>3, <2>5, <3>3, NobodySplits
    <3>5. main.i + 1 <= RecvTimeout
      <4>1. thread[t].left \in Int /\ thread[t].left <= RecvTimeout - main.i
        BY <1>1, <1>2, <3>1, <3>4 DEF TimeoutsNear, ThreadRecord
      <4>2. QED
        BY <1>2, <3>4, <4>1
    <3>6. \A u \in Task : thread'[u].at \notin Splitting
      BY <1>3, <2>1, <2>5, NobodySplits
    <3>7. ASSUME NEW u \in Task, thread'[u].at = "recv"
          PROVE  thread'[u].left <= RecvTimeout - (main.i + 1)
      <4>1. thread[u].at = "recv" /\ thread[u].left > 0
        BY <1>3, <2>1, <2>5, <3>7, NobodySplits
      <4>2. thread[u].left \in Int /\ thread[u].left <= RecvTimeout - main.i
        BY <1>1, <1>2, <3>1, <4>1 DEF TimeoutsNear, ThreadRecord
      <4>3. thread'[u].left = thread[u].left - 1
        BY <2>1, <4>1
      <4>4. QED
        BY <1>2, <4>2, <4>3
    <3>8. QED
      BY <2>3, <3>1, <3>5, <3>6, <3>7 DEF OneSplits, Splitting, TimeoutsNear
  <2>6. QED
    BY <1>1, <2>1, <2>2, <2>3, <2>4, <2>5, MainMoves
<1>4. ASSUME main' \in MainRecord, main'.at = "collect", thread' = thread,
             main'.success_count = main.success_count, main'.fail_count = main.fail_count,
             main'.bytes = main.bytes, prompt => ~main'.expired
      PROVE  IInv'
  <2>1. AddedInOrder'
    BY <1>4 DEF AddedInOrder
  <2>2. ASSUME prompt
        PROVE  OneSplits' /\ TimeoutsNear'
    <3>1. OneSplits /\ TimeoutsNear
      BY <2>2 DEF IInv, PromptInv
    <3>2. \A t \in Task : thread'[t].at \notin Splitting
      BY <1>1, <1>4, <3>1 DEF OneSplits
    <3>3. QED
      BY <1>4, <2>2, <3>2 DEF OneSplits, Splitting, TimeoutsNear
  <2>3. QED
    BY <1>1, <1>2, <1>4, <2>1, <2>2, MainMoves
<1>5. CASE main' = [main EXCEPT !.at = "collect"] /\ UNCHANGED thread
  <2>1. main' \in MainRecord
    BY <1>2, <1>5 DEF MainRecord
  <2>2. /\ main'.at = "collect" /\ main'.expired = main.expired
        /\ main'.success_count = main.success_count /\ main'.fail_count = main.fail_count
        /\ main'.bytes = main.bytes
    BY <1>2, <1>5 DEF MainRecord
  <2>3. prompt => ~main.expired
    BY DEF IInv, PromptInv, TimeoutsNear
  <2>4. QED
    BY <1>4, <1>5, <2>1, <2>2, <2>3
<1>6. CASE /\ main.i = WaitTimeout
           /\ main' = [main EXCEPT !.at = "collect", !.expired = TRUE] /\ UNCHANGED thread
  <2>1. main' \in MainRecord
    <3>1. TRUE \in BOOLEAN
      OBVIOUS
    <3> DEFINE w == [main EXCEPT !.at = "collect"]
    <3>2. w \in MainRecord
      BY <1>2 DEF MainRecord
    <3>3. main' = [w EXCEPT !.expired = TRUE]
      BY <1>6
    <3> HIDE DEF w
    <3>4. QED
      BY <3>1, <3>2, <3>3 DEF MainRecord
  <2>2. /\ main'.at = "collect"
        /\ main'.success_count = main.success_count /\ main'.fail_count = main.fail_count
        /\ main'.bytes = main.bytes
    BY <1>2, <1>6 DEF MainRecord
  <2>3. ~prompt
    BY <1>1, <1>2, <1>6 DEF IInv, PromptInv, TimeoutsNear
  <2>4. QED
    BY <1>4, <1>6, <2>1, <2>2, <2>3
<1>7. QED
  BY <1>3, <1>5, <1>6 DEF dns_wait_all, Goto
(* A task with a result is counted and freed; its thread is done with it    *)
(* but for printing its name.                                               *)
LEMMA CollectStep ==
  ASSUME IInv, dns_find_completed_task
  PROVE  IInv'
<1>1. main.at = "collect" /\ UNCHANGED <<prompt, thread, strtok>>
  BY DEF dns_find_completed_task
<1>2. /\ main \in MainRecord /\ thread \in [Task -> ThreadRecord] /\ task \in [Task -> TaskRecord]
      /\ g_task_list \in Seq(Task) /\ ToSet(g_task_list) \subseteq Task
  BY Typed DEF ToSet
<1>3. CASE main' = [main EXCEPT !.at = "exit"] /\ UNCHANGED <<g_task_list, task>>
  <2>1. main' \in MainRecord
    BY <1>2, <1>3 DEF MainRecord
  <2>2. /\ main'.at = "exit" /\ main'.expired = main.expired
        /\ main'.success_count = main.success_count /\ main'.fail_count = main.fail_count
        /\ main'.bytes = main.bytes
    BY <1>2, <1>3 DEF MainRecord
  <2>3. AddedInOrder'
    BY <2>2 DEF AddedInOrder
  <2>4. ASSUME prompt
        PROVE  OneSplits' /\ TimeoutsNear'
    <3>1. OneSplits /\ TimeoutsNear
      BY <2>4 DEF IInv, PromptInv
    <3>2. \A t \in Task : thread'[t].at \notin Splitting
      BY <1>1, <3>1 DEF OneSplits
    <3>3. QED
      BY <2>2, <3>1, <3>2 DEF OneSplits, Splitting, TimeoutsNear
  <2>5. QED
    BY <1>1, <1>2, <1>3, <2>1, <2>2, <2>3, <2>4, MainMoves
<1>4. ASSUME NEW t \in Completed,
             g_task_list' = RemoveFirst(g_task_list, t),
             task' = [task EXCEPT ![t].mem = "freed"],
             main' = IF task[t].status = 1
                     THEN [main EXCEPT !.success_count = @ + 1, !.bytes = @ \cup {task[t].response_len}]
                     ELSE [main EXCEPT !.fail_count = @ + 1]
      PROVE  IInv'
  <2> DEFINE k == [task[t] EXCEPT !.mem = "freed"]
             F == {u \in Task : task[u].mem = "freed"}
  <2>1. t \in ToSet(g_task_list) /\ t \in Task /\ task[t].status # 0
    BY <1>2, <1>4 DEF Completed, Active
  <2>2. /\ task[t].mem = "live" /\ ResultOfThread(task[t], thread[t])
        /\ IsInjective(g_task_list)
    BY <2>1 DEF IInv, TasksFollowThreads, TasksCollectedOnce
  <2>3. /\ g_task_list' \in Seq(Task) /\ ToSet(g_task_list') = ToSet(g_task_list) \ {t}
        /\ IsInjective(g_task_list')
    BY <1>2, <1>4, <2>1, <2>2, RemoveFirstFacts
  <2>4. task[t] \in TaskRecord
    BY <1>2, <2>1
  <2>5. /\ k \in TaskRecord /\ k.mem = "freed" /\ k.status = task[t].status
        /\ k.response_len = task[t].response_len
    <3>1. k \in TaskRecord
      BY <2>4 DEF TaskRecord
    <3>2. QED
      BY <2>4, <3>1 DEF TaskRecord
  <2>6. task' = [task EXCEPT ![t] = k]
    BY <1>2, <1>4, <2>1
  <2> HIDE DEF k
  <2>7. /\ task' \in [Task -> TaskRecord] /\ task'[t] = k
        /\ \A u \in Task : u # t => task'[u] = task[u]
    BY <1>2, <2>1, <2>5, <2>6
  <2>8. /\ main.success_count \in Nat /\ main.fail_count \in Nat /\ main.bytes \in SUBSET {0, 1}
        /\ task[t].response_len \in {0, 1}
    BY <1>2, <2>4 DEF MainRecord, TaskRecord
  <2>9. main' \in MainRecord
    <3>1. main.success_count + 1 \in Nat /\ main.fail_count + 1 \in Nat
      BY <2>8
    <3>2. main.bytes \cup {task[t].response_len} \in SUBSET {0, 1}
      BY <2>8
    <3>3. [main EXCEPT !.success_count = @ + 1, !.bytes = @ \cup {task[t].response_len}] \in MainRecord
      BY <1>2, <3>1, <3>2 DEF MainRecord
    <3>4. [main EXCEPT !.fail_count = @ + 1] \in MainRecord
      BY <1>2, <3>1 DEF MainRecord
    <3>5. QED
      BY <1>4, <3>3, <3>4
  <2>10. /\ main'.at = "collect" /\ main'.expired = main.expired
         /\ main'.success_count + main'.fail_count = (main.success_count + main.fail_count) + 1
         /\ main'.bytes \subseteq main.bytes \cup {1}
    <3>1. CASE task[t].status = 1
      <4>1. task[t].response_len = 1
        BY <2>2, <3>1 DEF ResultOfThread
      <4>2. main' = [main EXCEPT !.success_count = main.success_count + 1,
                                 !.bytes = main.bytes \cup {1}]
        BY <1>4, <3>1, <4>1
      <4>3. /\ main'.at = main.at /\ main'.expired = main.expired
            /\ main'.success_count = main.success_count + 1 /\ main'.fail_count = main.fail_count
            /\ main'.bytes = main.bytes \cup {1}
        BY <1>2, <4>2 DEF MainRecord
      <4>4. QED
        BY <1>1, <2>8, <4>3
    <3>2. CASE task[t].status # 1
      <4>1. main' = [main EXCEPT !.fail_count = main.fail_count + 1]
        BY <1>4, <3>2
      <4>2. /\ main'.at = main.at /\ main'.expired = main.expired
            /\ main'.success_count = main.success_count /\ main'.fail_count = main.fail_count + 1
            /\ main'.bytes = main.bytes
        BY <1>2, <4>1 DEF MainRecord
      <4>3. QED
        BY <1>1, <2>8, <4>2
    <3>3. QED
      BY <3>1, <3>2
  <2>11. TypeOK'
    BY <1>1, <1>2, <2>3, <2>7, <2>9, Typed DEF TypeOK, TaskRecord, ThreadRecord, MainRecord
  <2>12. TasksCollectedOnce'
    <3>1. \A u \in Task : task[u].mem = "live" => u \in ToSet(g_task_list)
      BY <1>1 DEF IInv, TasksCollectedOnce, Uncollected
    <3>2. \A u \in Task : task'[u].mem = "live" => Uncollected(u)'
      BY <2>3, <2>5, <2>7, <2>10, <3>1 DEF Uncollected
    <3>3. \A u \in Task : task'[u].mem = "freed" =>
            u \notin ToSet(g_task_list') /\ thread'[u].at \in {"print", "end"}
      <4>1. \A u \in Task : task[u].mem = "freed" =>
              u \notin ToSet(g_task_list) /\ thread[u].at \in {"print", "end"}
        BY DEF IInv, TasksCollectedOnce
      <4>2. thread[t].at \in {"print", "end"}
        BY <2>1, <2>2 DEF ResultOfThread
      <4>3. QED
        BY <1>1, <2>3, <2>7, <4>1, <4>2
    <3>4. Cardinality(F \cup {t}) = Cardinality(F) + 1 /\ Cardinality(F) \in Nat
      <4>1. IsFiniteSet(F) /\ Cardinality(F) \in Nat /\ t \notin F
        BY <2>2, FreedFinite
      <4> HIDE DEF F
      <4>2. QED
        BY <4>1, FS_AddElement
    <3>5. {u \in Task : task'[u].mem = "freed"} = F \cup {t}
      BY <2>1, <2>5, <2>7
    <3>6. main.success_count + main.fail_count = Cardinality(F) /\ main.bytes \subseteq {1}
      BY DEF IInv, TasksCollectedOnce
    <3>7. main'.success_count + main'.fail_count = Cardinality({u \in Task : task'[u].mem = "freed"})
      <4> HIDE DEF F
      <4> QED
        BY <2>10, <3>4, <3>5, <3>6
    <3>8. main'.bytes \subseteq {1}
      BY <2>10, <3>6
    <3>9. QED
      BY <2>3, <2>11, <3>2, <3>3, <3>7, <3>8 DEF TasksCollectedOnce
  <2>13. TasksFollowThreads'
    <3>1. ResultOfThread(k, thread[t])
      BY <2>2, <2>5 DEF ResultOfThread
    <3>2. QED
      BY <1>1, <2>3, <2>7, <3>1 DEF IInv, TasksFollowThreads
  <2>14. AddedInOrder'
    BY <2>10 DEF AddedInOrder
  <2>15. StrtokStarted'
    BY <1>1 DEF IInv, StrtokStarted
  <2>16. ASSUME prompt
         PROVE  OneSplits' /\ TimeoutsNear'
    <3>1. OneSplits /\ TimeoutsNear
      BY <2>16 DEF IInv, PromptInv
    <3>2. \A u \in Task : thread'[u].at \notin Splitting
      BY <1>1, <3>1 DEF OneSplits
    <3>3. QED
      BY <2>10, <3>1, <3>2 DEF OneSplits, Splitting, TimeoutsNear
  <2>17. QED
    BY <1>1, <2>12, <2>13, <2>14, <2>15, <2>16 DEF IInv, PromptInv
<1>5. QED
  BY <1>3, <1>4 DEF dns_find_completed_task, Goto

------------------------------------------------------------------------------
(* The invariant holds when main starts.                                    *)
LEMMA InitHolds == Init => IInv
<1> SUFFICES ASSUME Init
             PROVE  IInv
  OBVIOUS
<1>1. <<>> \in Seq(Task) /\ <<>> \in Seq(Nat \X Nat) /\ ToSet(<<>>) = {} /\ IsInjective(<<>>)
  BY DEF ToSet, IsInjective
<1>2. TypeOK
  <2>1. 0 \in 0 .. RecvTimeout
    BY DnsAssumption
  <2>2. task \in [Task -> [mem : {"none", "live", "freed"}, status : {-1, 0, 1},
                           response_len : {0, 1}]]
    BY DEF Init
  <2>3. thread \in [Task -> [at : {"none", "start", "split", "send", "recv", "answered", "stored",
                                   "print", "end"},
                             name : Seq(Nat \X Nat), left : 0 .. RecvTimeout]]
    BY <1>1, <2>1 DEF Init
  <2>4. main \in [at : {"add", "insert", "pause", "work", "wait", "collect", "exit"}, i : Nat,
                  expired : BOOLEAN, success_count : Nat, fail_count : Nat, bytes : SUBSET {0, 1}]
    BY DEF Init
  <2>5. QED
    BY <1>1, <2>2, <2>3, <2>4 DEF Init, TypeOK, Nowhere
<1>3. /\ \A t \in Task : task[t].mem = "none" /\ thread[t].at = "none" /\ task[t].status = 0
      /\ main.at = "add" /\ main.i = 1 /\ main.expired = FALSE /\ main.success_count = 0
      /\ main.fail_count = 0 /\ main.bytes = {} /\ g_task_list = <<>>
  BY DEF Init
<1>4. TasksCollectedOnce
  <2>1. {t \in Task : task[t].mem = "freed"} = {}
    BY <1>3
  <2>2. Cardinality({}) = 0
    BY FS_EmptySet
  <2>3. main.success_count + main.fail_count = Cardinality({t \in Task : task[t].mem = "freed"})
    <3>1. Cardinality({t \in Task : task[t].mem = "freed"}) = 0
      BY <2>1, <2>2, Zenon
    <3>2. main.success_count + main.fail_count = 0
      BY <1>3
    <3>3. QED
      BY <3>1, <3>2, Zenon
  <2>4. IsInjective(g_task_list) /\ main.bytes \subseteq {1}
    BY <1>1, <1>3
  <2>5. QED
    BY <1>2, <1>3, <2>3, <2>4 DEF TasksCollectedOnce
<1>5. TasksFollowThreads /\ StrtokStarted
  BY <1>1, <1>3 DEF TasksFollowThreads, ResultOfThread, StrtokStarted
<1>6. AddedInOrder
  BY <1>3, TaskFacts DEF AddedInOrder
<1>7. OneSplits /\ TimeoutsNear
  BY <1>3 DEF OneSplits, Splitting, TimeoutsNear
<1>8. QED
  BY <1>4, <1>5, <1>6, <1>7 DEF IInv, PromptInv

(* Every step of main and of the threads keeps it.                          *)
LEMMA NextHolds == IInv /\ [Next]_vars => IInv'
<1> SUFFICES ASSUME IInv, [Next]_vars
             PROVE  IInv'
  OBVIOUS
<1>1. CASE MainStep
  BY <1>1, CreateThreadStep, NoThreadStep, AddTaskStep, PauseStep, WorkStep, WaitStep, CollectStep
     DEF MainStep
<1>2. ASSUME NEW t \in Task, dns_thread_work(t)
      PROVE  IInv'
  BY <1>2, SocketStep, FirstLabelStep, NextLabelStep, RequestStep, AnswerStep, TimeoutStep,
     StoreLengthStep, StoreStatusStep, ReportStep DEF dns_thread_work
<1>3. CASE UNCHANGED vars
  <2>1. TasksCollectedOnce'
    BY <1>3 DEF vars, IInv, TasksCollectedOnce, TypeOK, Uncollected
  <2>2. TasksFollowThreads' /\ AddedInOrder' /\ StrtokStarted'
    BY <1>3 DEF vars, IInv, TasksFollowThreads, AddedInOrder, StrtokStarted
  <2>3. PromptInv'
    BY <1>3 DEF vars, IInv, PromptInv, OneSplits, TimeoutsNear, Name
  <2>4. QED
    BY <2>1, <2>2, <2>3 DEF IInv
<1>4. QED
  BY <1>1, <1>2, <1>3 DEF Next

(* Every task whose thread was started is about to enter the list, in the   *)
(* list or counted once, and is freed only after its thread has stored its  *)
(* result, for any number of names and any schedule of the threads.         *)
THEOREM CollectedOnce == Spec => []TasksCollectedOnce
<1>1. IInv => TasksCollectedOnce
  BY DEF IInv
<1>2. QED
  BY <1>1, InitHolds, NextHolds, PTL DEF Spec

(* When threads run promptly every query asks for its own name, whole, and  *)
(* main's waiting does not expire, for any names and any timeouts of which  *)
(* recvfrom's is the shorter.                                               *)
THEOREM PromptSafe == Spec => []PromptIsSafe
<1>1. IInv => PromptIsSafe
  BY DEF IInv, PromptInv, PromptIsSafe, OneSplits, TimeoutsNear
<1>2. QED
  BY <1>1, InitHolds, NextHolds, PTL DEF Spec
===============================================================================
