---------------------------- MODULE KvArrayProofs ----------------------------
(***************************************************************************)
(* Proofs about the array engine of the kvstore, for every set of keys and *)
(* values, every table size and with or without allocation failures: the   *)
(* table stays consistent, and no entry is overwritten.                    *)
(***************************************************************************)
EXTENDS KvArray, FiniteSetTheorems, TLAPS

(* Slots are written from the first on: behind a slot that malloc left as  *)
(* it was there is no written one.                                         *)
WrittenFromFirst ==
  \A i, j \in Index : i < j /\ table[i].key = Junk => table[j].key = Junk

(* The inductive invariant.  That no scan reads an unwritten slot and that *)
(* entries hide only behind holes follow from it by counting.              *)
IInv == TypeOK /\ TotalCountsEntries /\ WrittenFromFirst

------------------------------------------------------------------------------
(* The slots in use are finitely many.                                     *)
LEMMA OccupiedFinite ==
  /\ IsFiniteSet(Index)
  /\ IsFiniteSet(Occupied) /\ Cardinality(Occupied) \in Nat
<1>1. KVS_ARRAY_SIZE - 1 \in Int
  BY ConstantAssumption
<1>2. IsFiniteSet(Index)
  BY <1>1, FS_Interval DEF Index
<1>3. Occupied \in SUBSET Index
  BY DEF Occupied
<1>4. QED
  BY <1>2, <1>3, FS_Subset, FS_CardinalityType

(* The first n slots.                                                      *)
LEMMA PrefixSize ==
  ASSUME NEW n \in Nat
  PROVE  IsFiniteSet(0 .. n - 1) /\ Cardinality(0 .. n - 1) = n
BY FS_Interval, n - 1 \in Int

(* Fewer than n entries fit into n slots of which one is empty.            *)
LEMMA FullPrefix ==
  ASSUME NEW n \in Nat, NEW h \in 0 .. n - 1, Occupied \subseteq 0 .. n - 1, h \notin Occupied
  PROVE  Cardinality(Occupied) < n
<1>1. IsFiniteSet(0 .. n - 1) /\ Cardinality(0 .. n - 1) = n
  BY PrefixSize
<1>2. IsFiniteSet((0 .. n - 1) \ {h}) /\ Cardinality((0 .. n - 1) \ {h}) = n - 1
  BY <1>1, FS_RemoveElement
<1>3. Occupied \in SUBSET ((0 .. n - 1) \ {h})
  OBVIOUS
<1>4. Cardinality(Occupied) <= Cardinality((0 .. n - 1) \ {h})
  BY <1>2, <1>3, FS_Subset
<1>5. QED
  BY <1>2, <1>4, OccupiedFinite

(* The lowest member of a set of slots.                                    *)
LEMMA LowestFacts ==
  ASSUME NEW S \in SUBSET Nat, S # {}
  PROVE  Lowest(S) \in S /\ \A j \in S : Lowest(S) <= j
<1>1. \E i \in S : \A j \in S : i <= j
  <2> DEFINE R == {ss \in Nat \X Nat : ss[1] < ss[2]}
  <2>1. OpToRel(<, Nat) = R
    BY DEF OpToRel
  <2>2. IsWellFoundedOn(R, Nat)
    BY <2>1, NatLessThanWellFounded
  <2> HIDE DEF R
  <2>3. PICK i \in S : \A j \in S : ~ (<<j, i>> \in R)
    BY <2>2, WFMin
  <2>4. ASSUME NEW j \in S
        PROVE  i <= j
    <3>1. ~ (<<j, i>> \in R)
      BY <2>3
    <3>2. i \in Nat /\ j \in Nat
      OBVIOUS
    <3>3. j < i => <<j, i>> \in R
      BY <3>2 DEF R
    <3>4. QED
      BY <3>1, <3>2, <3>3
  <2>5. QED
    BY <2>4
<1>2. QED
  BY <1>1 DEF Lowest

(* What the scans below total see: an entry or a hole.                     *)
LEMMA ScansSeeWritten ==
  ASSUME IInv
  PROVE  NoJunkRead
<1> SUFFICES ASSUME NEW i \in 0 .. total - 1, table[i].key = Junk
             PROVE  FALSE
  BY DEF NoJunkRead
<1> USE ConstantAssumption
<1>1. total \in Nat /\ i \in Index /\ i \in Nat
  BY DEF IInv, TypeOK, Index
<1>2. Occupied \subseteq 0 .. i
  BY <1>1 DEF IInv, WrittenFromFirst, Occupied, Index
<1>3. i \notin Occupied
  BY DEF Occupied
<1>4. Cardinality(Occupied) < i + 1
  BY <1>1, <1>2, <1>3, FullPrefix, i + 1 \in Nat, i \in 0 .. (i + 1) - 1, (i + 1) - 1 = i
<1>5. QED
  BY <1>1, <1>4 DEF IInv, TotalCountsEntries

(* Entries beyond total imply a hole below it.                             *)
LEMMA HiddenBehindHole ==
  ASSUME IInv
  PROVE  HiddenOnlyBehindHole
<1> SUFFICES ASSUME NEW k \in Index, k >= total, table[k].key \in Key, Matches(NULL) = {}
             PROVE  FALSE
  BY DEF HiddenOnlyBehindHole
<1> USE ConstantAssumption
<1>1. total \in Nat /\ total <= KVS_ARRAY_SIZE
  BY DEF IInv, TypeOK
<1>2. \A i \in 0 .. total - 1 : i \in Index /\ table[i].key \in Key
  BY <1>1, ScansSeeWritten DEF IInv, TypeOK, Index, Item, Matches, NoJunkRead
<1>3. IsFiniteSet(0 .. total - 1) /\ Cardinality(0 .. total - 1) = total
  BY <1>1, PrefixSize
<1>4. k \notin 0 .. total - 1 /\ k \in Occupied
  BY <1>1 DEF Index, Occupied
<1>5. (0 .. total - 1) \in SUBSET Occupied
  BY <1>2 DEF Occupied
<1>6. 0 .. total - 1 = Occupied
  BY <1>3, <1>5, OccupiedFinite, FS_Subset DEF IInv, TotalCountsEntries
<1>7. QED
  BY <1>4, <1>6

(* The slot SET writes holds no entry, and every slot before it is written.*)
LEMMA SetSlotFree ==
  ASSUME IInv, total # KVS_ARRAY_SIZE,
         NEW i, i = IF Matches(NULL) # {} THEN Lowest(Matches(NULL)) ELSE total
  PROVE  /\ i \in Index /\ i \notin Occupied
         /\ \A j \in Index : j < i => table[j].key # Junk
<1> USE ConstantAssumption
<1>1. total \in Nat /\ total < KVS_ARRAY_SIZE
  BY DEF IInv, TypeOK
<1>2. CASE Matches(NULL) # {}
  <2>1. Matches(NULL) \in SUBSET Nat
    BY <1>1 DEF Matches
  <2>2. i \in Matches(NULL)
    BY <1>2, <2>1, LowestFacts
  <2>3. i \in 0 .. total - 1 /\ table[i].key = NULL
    BY <2>2 DEF Matches
  <2>4. QED
    BY <1>1, <2>3, ScansSeeWritten DEF Index, Occupied, NoJunkRead
<1>3. CASE Matches(NULL) = {}
  BY <1>1, <1>3, HiddenBehindHole, ScansSeeWritten
     DEF HiddenOnlyBehindHole, NoJunkRead, Index, Occupied
<1>4. QED
  BY <1>2, <1>3

------------------------------------------------------------------------------
(* The effect on the invariant of storing a key in a slot without an entry,*)
(* of emptying a slot with one, and of writing an entry's value.           *)
LEMMA StoreKeeps ==
  ASSUME IInv, NEW i \in Index, i \notin Occupied,
         \A j \in Index : j < i => table[j].key # Junk,
         NEW key \in Key, NEW value \in Value,
         Put(i, key, value), total' = total + 1, total # KVS_ARRAY_SIZE
  PROVE  /\ table' \in [Index -> Item] /\ total' \in 0 .. KVS_ARRAY_SIZE
         /\ TotalCountsEntries' /\ WrittenFromFirst'
<1> USE ConstantAssumption
<1>1. table \in [Index -> Item] /\ total \in Nat /\ total < KVS_ARRAY_SIZE
  BY DEF IInv, TypeOK
<1>2. [key |-> key, value |-> value] \in Item
  BY DEF Item
<1>3. table' \in [Index -> Item]
  BY <1>1, <1>2 DEF Put
<1>4. Occupied' = Occupied \cup {i}
  BY <1>1 DEF Put, Occupied
<1>5. Cardinality(Occupied') = Cardinality(Occupied) + 1
  BY <1>4, OccupiedFinite, FS_AddElement
<1>6. TotalCountsEntries'
  BY <1>5 DEF IInv, TotalCountsEntries
<1>7. WrittenFromFirst'
  <2> SUFFICES ASSUME NEW a \in Index, NEW b \in Index, a < b, table'[a].key = Junk
               PROVE  table'[b].key = Junk
    BY DEF WrittenFromFirst
  <2>1. a # i /\ table[a].key = Junk
    BY <1>1 DEF Put
  <2>2. ~ (a < i) /\ b # i
    BY <2>1 DEF Index
  <2>3. QED
    BY <1>1, <2>1, <2>2 DEF Put, IInv, WrittenFromFirst
<1>8. QED
  BY <1>1, <1>3, <1>6, <1>7

(* Emptying an occupied slot and counting one entry less.                   *)
LEMMA EmptyKeeps ==
  ASSUME IInv, NEW i \in Occupied, Put(i, NULL, NULL), total' = total - 1
  PROVE  /\ table' \in [Index -> Item] /\ total' \in 0 .. KVS_ARRAY_SIZE
         /\ TotalCountsEntries' /\ WrittenFromFirst'
<1> USE ConstantAssumption
<1>1. table \in [Index -> Item] /\ total \in 0 .. KVS_ARRAY_SIZE /\ i \in Index
  BY DEF IInv, TypeOK, Occupied
<1>2. [key |-> NULL, value |-> NULL] \in Item
  BY DEF Item
<1>3. table' \in [Index -> Item]
  BY <1>1, <1>2 DEF Put
<1>4. Occupied' = Occupied \ {i}
  BY <1>1 DEF Put, Occupied
<1>5. Cardinality(Occupied') = Cardinality(Occupied) - 1
  BY <1>4, OccupiedFinite, FS_RemoveElement
<1>6. Cardinality(Occupied) # 0
  BY OccupiedFinite, FS_EmptySet
<1>7. TotalCountsEntries' /\ total' \in 0 .. KVS_ARRAY_SIZE
  BY <1>1, <1>5, <1>6 DEF IInv, TotalCountsEntries
<1>8. WrittenFromFirst'
  BY <1>1 DEF Put, IInv, WrittenFromFirst, Occupied
<1>9. QED
  BY <1>3, <1>7, <1>8

(* Changing the value in a slot.                                            *)
LEMMA ChangeKeeps ==
  ASSUME IInv, NEW i \in Index, NEW value \in Value \cup {Lost},
         Put(i, table[i].key, value), UNCHANGED total
  PROVE  /\ table' \in [Index -> Item] /\ total' \in 0 .. KVS_ARRAY_SIZE
         /\ TotalCountsEntries' /\ WrittenFromFirst'
         /\ \A j \in Index : table'[j].key = table[j].key
<1> USE ConstantAssumption
<1>1. table \in [Index -> Item] /\ total \in 0 .. KVS_ARRAY_SIZE
  BY DEF IInv, TypeOK
<1>2. [key |-> table[i].key, value |-> value] \in Item
  BY <1>1 DEF Item
<1>3. table' \in [Index -> Item] /\ \A j \in Index : table'[j].key = table[j].key
  BY <1>1, <1>2 DEF Put
<1>4. Occupied' = Occupied
  BY <1>3 DEF Occupied
<1>5. QED
  BY <1>1, <1>3, <1>4 DEF IInv, TotalCountsEntries, WrittenFromFirst

------------------------------------------------------------------------------
(* A scan for a key that finds one stops at an entry.                      *)
LEMMA MatchFacts ==
  ASSUME IInv, NEW S, S # {}, NEW key \in Key,
         S = Matches(key) \/ S = DelReaches(key)
  PROVE  /\ Lowest(S) \in 0 .. total - 1 /\ Lowest(S) \in Index
         /\ table[Lowest(S)].key \in {key, NULL}
         /\ S = Matches(key) => table[Lowest(S)].key = key
         /\ table[Lowest(S)].key = key => Lowest(S) \in Occupied
<1> USE ConstantAssumption
<1>1. total \in Nat /\ total <= KVS_ARRAY_SIZE
  BY DEF IInv, TypeOK
<1>2. S \in SUBSET Nat
  BY <1>1 DEF Matches, DelReaches
<1>3. Lowest(S) \in S
  BY <1>2, LowestFacts
<1>4. QED
  BY <1>1, <1>3 DEF Matches, DelReaches, Index, Occupied

(* The engine answers a GET with a value, or has none.                     *)
LEMMA GetType ==
  ASSUME IInv, NEW key \in Key \cup {NULL}
  PROVE  kvs_array_get(key) \in Value \cup {NULL, Junk, Lost}
<1>1. CASE key = NULL \/ Matches(key) = {}
  BY <1>1 DEF kvs_array_get
<1>2. CASE key \in Key /\ Matches(key) # {}
  <2>1. Lowest(Matches(key)) \in Index
    BY <1>2, MatchFacts
  <2>2. table[Lowest(Matches(key))].value \in Value \cup {NULL, Junk, Lost}
    BY <2>1 DEF IInv, TypeOK, Item
  <2>3. QED
    BY <1>2, <2>2, ConstantAssumption DEF kvs_array_get
<1>3. QED
  BY <1>1, <1>2

------------------------------------------------------------------------------
(* Each request keeps the table, and changes the key of no slot with an    *)
(* entry unless it deletes it.                                             *)
Kept ==
  /\ table' \in [Index -> Item] /\ total' \in 0 .. KVS_ARRAY_SIZE
  /\ TotalCountsEntries' /\ WrittenFromFirst'

(* An operation that changes nothing.                                       *)
LEMMA SameKept ==
  ASSUME IInv, UNCHANGED <<table, total>>
  PROVE  Kept /\ \A i \in Index : table'[i].key = table[i].key
<1>1. Occupied' = Occupied
  BY DEF Occupied
<1>2. QED
  BY <1>1 DEF Kept, IInv, TypeOK, TotalCountsEntries, WrittenFromFirst

(* kvs_array_set.                                                           *)
LEMMA SetKeeps ==
  ASSUME IInv, NEW key \in Key \cup {NULL}, NEW value \in Value \cup {NULL}, NEW ret,
         kvs_array_set(key, value, ret)
  PROVE  Kept /\ \A i \in Occupied : table'[i].key = table[i].key
<1>1. CASE UNCHANGED <<table, total>>
  BY <1>1, SameKept DEF Occupied
<1>2. CASE ~ UNCHANGED <<table, total>>
  <2> DEFINE i == IF Matches(NULL) # {} THEN Lowest(Matches(NULL)) ELSE total
  <2>1. /\ key # NULL /\ value # NULL /\ total # KVS_ARRAY_SIZE
        /\ Put(i, key, value) /\ total' = total + 1
    BY <1>2 DEF kvs_array_set
  <2>2. i \in Index /\ i \notin Occupied /\ \A j \in Index : j < i => table[j].key # Junk
    BY <2>1, SetSlotFree
  <2> HIDE DEF i
  <2>3. Kept
    BY <2>1, <2>2, StoreKeeps DEF Kept
  <2>4. \A j \in Occupied : table'[j].key = table[j].key
    BY <2>1, <2>2 DEF Put, Occupied, IInv, TypeOK
  <2>5. QED
    BY <2>3, <2>4
<1>3. QED
  BY <1>1, <1>2

(* kvs_array_del.                                                           *)
LEMMA DelKeeps ==
  ASSUME IInv, NEW key \in Key \cup {NULL}, NEW ret, kvs_array_del(key, ret)
  PROVE  Kept /\ \A i \in Occupied : table[i].key # key => table'[i].key = table[i].key
<1>1. CASE UNCHANGED <<table, total>>
  BY <1>1, SameKept DEF Occupied
<1>2. CASE ~ UNCHANGED <<table, total>>
  <2> DEFINE i == Lowest(DelReaches(key))
  <2>1. /\ key \in Key /\ DelReaches(key) # {} /\ table[i].key = key
        /\ Put(i, NULL, NULL) /\ total' = total - 1
    BY <1>2 DEF kvs_array_del
  <2>2. i \in Occupied
    BY <2>1, MatchFacts
  <2> HIDE DEF i
  <2>3. Kept
    BY <2>1, <2>2, EmptyKeeps DEF Kept
  <2>4. \A j \in Occupied : table[j].key # key => table'[j].key = table[j].key
    BY <2>1, <2>2 DEF Put, Occupied, IInv, TypeOK
  <2>5. QED
    BY <2>3, <2>4
<1>3. QED
  BY <1>1, <1>2

(* kvs_array_mod.                                                           *)
LEMMA ModKeeps ==
  ASSUME IInv, NEW key \in Key \cup {NULL}, NEW value \in Value \cup {NULL}, NEW ret,
         kvs_array_mod(key, value, ret)
  PROVE  Kept /\ \A i \in Occupied : table'[i].key = table[i].key
<1>1. CASE UNCHANGED <<table, total>>
  BY <1>1, SameKept DEF Occupied
<1>2. CASE ~ UNCHANGED <<table, total>>
  <2> DEFINE i == Lowest(Matches(key))
  <2>1. /\ key \in Key /\ value \in Value /\ Matches(key) # {} /\ UNCHANGED total
        /\ Put(i, key, value) \/ Put(i, key, Lost)
    BY <1>2 DEF kvs_array_mod
  <2>2. i \in Index /\ table[i].key = key
    BY <2>1, MatchFacts
  <2> HIDE DEF i
  <2>3. PICK v \in Value \cup {Lost} : Put(i, table[i].key, v)
    BY <2>1, <2>2
  <2>4. QED
    BY <2>1, <2>2, <2>3, ChangeKeeps DEF Kept, Occupied
<1>3. QED
  BY <1>1, <1>2

(* The answers are of their type.                                          *)
LEMMA AnswerType ==
  ASSUME NEW cmd \in Cmd, NEW key \in Key \cup {NULL}, NEW res \in Res, Answer(cmd, key, res),
         up \in BOOLEAN
  PROVE  up' \in BOOLEAN /\ reply' \in [cmd : Cmd, key : Key \cup {NULL}, res : Res]
BY DEF Answer

(* What a return value is turned into is an answer.                         *)
LEMMA ByRetType ==
  ASSUME NEW ret, NEW positive \in {"exist", "no exist"}
  PROVE  ByRet(ret, positive) \in Res
BY DEF ByRet, Res

------------------------------------------------------------------------------
(* The commands: every step keeps the invariant and every entry.           *)
LEMMA InitInv == Init => IInv
<1> SUFFICES ASSUME Init PROVE IInv
  OBVIOUS
<1> USE ConstantAssumption
<1>1. TypeOK
  BY DEF Init, TypeOK, kvs_array_create, Item, NoReply, Cmd, Res
<1>2. \A i \in Index : table[i].key = Junk
  BY DEF Init, kvs_array_create
<1>3. Occupied = {}
  BY <1>2 DEF Occupied
<1>4. QED
  BY <1>1, <1>2, <1>3, FS_EmptySet DEF Init, IInv, TotalCountsEntries, WrittenFromFirst

(* Every step keeps the invariant and leaves the entries where they are.    *)
LEMMA StepInv ==
  ASSUME IInv, [Next]_vars
  PROVE  IInv' /\ (EntriesStay \/ UNCHANGED vars)
<1> USE ConstantAssumption
<1>1. up \in BOOLEAN /\ reply \in [cmd : Cmd, key : Key \cup {NULL}, res : Res]
  BY DEF IInv, TypeOK
<1>2. ASSUME NEW key \in Key \cup {NULL}, NEW value \in Value \cup {NULL}, SET(key, value)
      PROVE  IInv' /\ EntriesStay
  <2>1. PICK ret \in Ret : /\ kvs_array_set(key, value, ret)
                           /\ Answer("SET", key, ByRet(ret, "exist"))
    BY <1>2 DEF SET
  <2>2. Kept /\ \A i \in Occupied : table'[i].key = table[i].key
    BY <2>1, SetKeeps
  <2>3. up' \in BOOLEAN /\ reply' \in [cmd : Cmd, key : Key \cup {NULL}, res : Res]
    BY <1>1, <2>1, AnswerType, ByRetType, "SET" \in Cmd DEF Cmd
  <2>4. QED
    BY <2>2, <2>3 DEF IInv, TypeOK, Kept, EntriesStay, Occupied
<1>3. ASSUME NEW key \in Key \cup {NULL}, NEW value \in Value \cup {NULL}, MOD(key, value)
      PROVE  IInv' /\ EntriesStay
  <2>1. CASE kvs_array_mod_dies(key, value) /\ Dies
    <3>1. Kept /\ \A i \in Index : table'[i].key = table[i].key
      BY <2>1, SameKept DEF Dies
    <3>2. QED
      BY <1>1, <2>1, <3>1 DEF IInv, TypeOK, Kept, EntriesStay, Dies
  <2>2. CASE \E ret \in Ret : /\ kvs_array_mod(key, value, ret)
                              /\ Answer("MOD", key, ByRet(ret, "no exist"))
    <3>1. PICK ret \in Ret : /\ kvs_array_mod(key, value, ret)
                             /\ Answer("MOD", key, ByRet(ret, "no exist"))
      BY <2>2
    <3>2. Kept /\ \A i \in Occupied : table'[i].key = table[i].key
      BY <3>1, ModKeeps
    <3>3. up' \in BOOLEAN /\ reply' \in [cmd : Cmd, key : Key \cup {NULL}, res : Res]
      BY <1>1, <3>1, AnswerType, ByRetType, "MOD" \in Cmd DEF Cmd
    <3>4. QED
      BY <3>2, <3>3 DEF IInv, TypeOK, Kept, EntriesStay, Occupied
  <2>3. QED
    BY <1>3, <2>1, <2>2 DEF MOD
<1>4. ASSUME NEW key \in Key \cup {NULL}, GET(key)
      PROVE  IInv' /\ EntriesStay
  <2>1. kvs_array_get(key) \in Value \cup {NULL, Junk, Lost}
    BY GetType
  <2>2. (IF kvs_array_get(key) = NULL THEN "no exist" ELSE kvs_array_get(key)) \in Res
    BY <2>1 DEF Res
  <2>3. up' \in BOOLEAN /\ reply' \in [cmd : Cmd, key : Key \cup {NULL}, res : Res]
    BY <1>1, <1>4, <2>2, AnswerType, "GET" \in Cmd DEF Cmd, GET
  <2>4. Kept /\ \A i \in Index : table'[i].key = table[i].key
    BY <1>4, SameKept DEF GET
  <2>5. QED
    BY <2>3, <2>4 DEF IInv, TypeOK, Kept, EntriesStay
<1>5. ASSUME NEW key \in Key \cup {NULL}, EXIST(key)
      PROVE  IInv' /\ EntriesStay
  <2>1. (IF kvs_array_exist(key) = 0 THEN "exist" ELSE "no exist") \in Res
    BY DEF Res
  <2>2. up' \in BOOLEAN /\ reply' \in [cmd : Cmd, key : Key \cup {NULL}, res : Res]
    BY <1>1, <1>5, <2>1, AnswerType, "EXIST" \in Cmd DEF Cmd, EXIST
  <2>3. Kept /\ \A i \in Index : table'[i].key = table[i].key
    BY <1>5, SameKept DEF EXIST
  <2>4. QED
    BY <2>2, <2>3 DEF IInv, TypeOK, Kept, EntriesStay
<1>6. ASSUME NEW key \in Key \cup {NULL}, DEL(key)
      PROVE  IInv' /\ EntriesStay
  <2>1. CASE kvs_array_del_dies(key) /\ Dies
    <3>1. Kept /\ \A i \in Index : table'[i].key = table[i].key
      BY <2>1, SameKept DEF Dies
    <3>2. QED
      BY <1>1, <2>1, <3>1 DEF IInv, TypeOK, Kept, EntriesStay, Dies
  <2>2. CASE \E ret \in Ret : /\ kvs_array_del(key, ret)
                              /\ Answer("DEL", key, ByRet(ret, "no exist"))
    <3>1. PICK ret \in Ret : /\ kvs_array_del(key, ret)
                             /\ Answer("DEL", key, ByRet(ret, "no exist"))
      BY <2>2
    <3>2. Kept /\ \A i \in Occupied : table[i].key # key => table'[i].key = table[i].key
      BY <3>1, DelKeeps
    <3>3. up' \in BOOLEAN /\ reply' \in [cmd : Cmd, key : Key \cup {NULL}, res : Res]
      BY <1>1, <3>1, AnswerType, ByRetType, "DEL" \in Cmd DEF Cmd
    <3>4. reply'.cmd = "DEL" /\ reply'.key = key
      BY <3>1 DEF Answer
    <3>5. QED
      BY <3>2, <3>3, <3>4 DEF IInv, TypeOK, Kept, EntriesStay, Occupied
  <2>3. QED
    BY <1>6, <2>1, <2>2 DEF DEL
<1>7. CASE Restart
  <2>1. Init'
    BY <1>7 DEF Restart, Init
  <2>2. IInv'
    BY <2>1, InitInv, PTL
  <2>3. QED
    BY <1>7, <2>2 DEF Restart, EntriesStay
<1>8. CASE UNCHANGED vars
  <2>1. Kept
    BY <1>8, SameKept DEF vars
  <2>2. QED
    BY <1>1, <1>8, <2>1 DEF IInv, TypeOK, Kept, vars
<1>9. QED
  BY <1>2, <1>3, <1>4, <1>5, <1>6, <1>7, <1>8 DEF Next

------------------------------------------------------------------------------
(* After any sequence of requests, allocation failures, deaths and         *)
(* restarts total is the exact number of entries, no scan of the engine    *)
(* reads a slot malloc left as it was, and an entry that kvs_array_del     *)
(* puts out of reach is behind a hole that the next kvs_array_set fills.   *)
THEOREM TableCorrect == Spec => []TableConsistent
<1>1. Init => IInv
  BY InitInv
<1>2. IInv /\ [Next]_vars => IInv'
  BY StepInv
<1>3. IInv => TableConsistent
  BY ScansSeeWritten, HiddenBehindHole DEF IInv, TableConsistent
<1>4. QED
  BY <1>1, <1>2, <1>3, PTL DEF Spec

(* No request removes another key's entry: in particular kvs_array_set,    *)
(* which writes at total, never writes over an entry hidden there.         *)
THEOREM EntriesSafe == Spec => NoEntryOverwritten
<1>1. Init => IInv
  BY InitInv
<1>2. IInv /\ [Next]_vars => IInv'
  BY StepInv
<1>3. IInv /\ [Next]_vars => [EntriesStay]_vars
  BY StepInv
<1>4. QED
  BY <1>1, <1>2, <1>3, PTL DEF Spec, NoEntryOverwritten
==============================================================================
