------------------------------- MODULE KvArray -------------------------------
(***************************************************************************)
(* The array engine of the kvstore (12_1/kvs_array.c) behind the SET, GET, *)
(* DEL, MOD and EXIST commands of kvs_filter_protocol (12_1/kvstore.c).    *)
(* kvs_* operators are the engine's functions, with the value they return  *)
(* as last parameter where they change state; SET ... EXIST are the        *)
(* protocol's cases.  Indices are those of the C code, from 0.             *)
(***************************************************************************)
EXTENDS Integers, FiniteSets

CONSTANTS
  Key, Value,
  NULL,            \* a null pointer: a missing argument, an empty slot
  Junk,            \* what malloc left in a slot that was never written
  Lost,            \* a value pointer left dangling by a failed MOD
  KVS_ARRAY_SIZE,
  MallocMayFail    \* whether kvs_malloc may return NULL

ASSUME ConstantAssumption ==
  /\ NULL \notin Key \cup Value
  /\ Junk \notin Key \cup Value \cup {NULL}
  /\ Lost \notin Value \cup {NULL, Junk}
  /\ KVS_ARRAY_SIZE \in Nat \ {0}
  /\ MallocMayFail \in BOOLEAN

VARIABLES
  table,  \* slots of [key, value]
  total,  \* the engine's counter, which is also the bound of every scan
  up,     \* the process runs
  reply   \* the last request and its answer

vars == <<table, total, up, reply>>

Index == 0 .. KVS_ARRAY_SIZE - 1

Item == [key : Key \cup {NULL, Junk}, value : Value \cup {NULL, Junk, Lost}]

Cmd == {"none", "SET", "GET", "DEL", "MOD", "EXIST"}

Res == {"none", "ok", "exist", "no exist", "error"} \cup Value \cup {Junk, Lost}

(* Type invariant.  The code behaviour behind it: total stays within the   *)
(* table, since kvs_array_set refuses a full table and kvs_array_del only  *)
(* decrements after it has found a key below total.                        *)
TypeOK ==
  /\ table \in [Index -> Item]
  /\ total \in 0 .. KVS_ARRAY_SIZE
  /\ up \in BOOLEAN
  /\ reply \in [cmd : Cmd, key : Key \cup {NULL}, res : Res]

------------------------------------------------------------------------------
(* The first slot below total that satisfies a test: the engine's scans.   *)
Matches(key) == {i \in 0 .. total - 1 : table[i].key = key}

Lowest(S) == CHOOSE i \in S : \A j \in S : i <= j

(* kvs_array_create from init_kvengine: malloc'ed, not cleared.            *)
kvs_array_create == [i \in Index |-> [key |-> Junk, value |-> Junk]]

kvs_array_get(key) ==
  IF key = NULL \/ Matches(key) = {} THEN NULL ELSE table[Lowest(Matches(key))].value

kvs_array_exist(key) == IF kvs_array_get(key) = NULL THEN 1 ELSE 0

Put(i, key, value) == table' = [table EXCEPT ![i] = [key |-> key, value |-> value]]

(* Mutant of kvs_array_set: a full table takes the key in its last slot.   *)
kvs_array_set_last(key, value, ret) ==
  \/ /\ key = NULL \/ value = NULL
     /\ ret = -1
     /\ UNCHANGED <<table, total>>
  \/ /\ key # NULL /\ value # NULL
     /\ kvs_array_get(key) = NULL
     /\ ret = 0
     /\ Put(IF Matches(NULL) # {} THEN Lowest(Matches(NULL))
            ELSE IF total = KVS_ARRAY_SIZE THEN total - 1 ELSE total, key, value)
     /\ total' = IF total = KVS_ARRAY_SIZE THEN total ELSE total + 1

(* SET fills the first empty slot below total, else the slot at total.     *)
kvs_array_set(key, value, ret) ==
  \/ /\ key = NULL \/ value = NULL \/ total = KVS_ARRAY_SIZE
     /\ ret = -1
     /\ UNCHANGED <<table, total>>
  \/ /\ key # NULL /\ value # NULL /\ total # KVS_ARRAY_SIZE
     /\ kvs_array_get(key) # NULL
     /\ ret = 1
     /\ UNCHANGED <<table, total>>
  \/ /\ key # NULL /\ value # NULL /\ total # KVS_ARRAY_SIZE
     /\ kvs_array_get(key) = NULL
     /\ MallocMayFail
     /\ ret = -2
     /\ UNCHANGED <<table, total>>
  \/ /\ key # NULL /\ value # NULL /\ total # KVS_ARRAY_SIZE
     /\ kvs_array_get(key) = NULL
     /\ ret = 0
     /\ Put(IF Matches(NULL) # {} THEN Lowest(Matches(NULL)) ELSE total, key, value)
     /\ total' = total + 1

(* DEL compares the key with every slot from the first one, and strcmp of  *)
(* an empty slot's null key ends the process.                              *)
DelReaches(key) == Matches(key) \cup Matches(NULL)

(* Mutant of kvs_array_del: the counter goes down for a missing key too.   *)
kvs_array_del_eager(key, ret) ==
  \/ /\ key # NULL /\ DelReaches(key) = {}
     /\ ret = total
     /\ total' = IF total > 0 THEN total - 1 ELSE 0
     /\ UNCHANGED table
  \/ /\ key # NULL /\ DelReaches(key) # {}
     /\ LET i == Lowest(DelReaches(key))
        IN /\ table[i].key = key
           /\ Put(i, NULL, NULL)
     /\ ret = 0
     /\ total' = total - 1

kvs_array_del(key, ret) ==
  \/ /\ key = NULL
     /\ ret = -1
     /\ UNCHANGED <<table, total>>
  \/ /\ key # NULL /\ DelReaches(key) = {}
     /\ ret = total
     /\ UNCHANGED <<table, total>>
  \/ /\ key # NULL /\ DelReaches(key) # {}
     /\ LET i == Lowest(DelReaches(key))
        IN /\ table[i].key = key
           /\ table[i].value # Lost
           /\ Put(i, NULL, NULL)
     /\ ret = 0
     /\ total' = total - 1

(* strcmp(NULL, key), or the second free of a value a failed MOD freed.    *)
kvs_array_del_dies(key) ==
  /\ key # NULL /\ DelReaches(key) # {}
  /\ LET i == Lowest(DelReaches(key)) IN table[i].key = NULL \/ table[i].value = Lost

(* MOD frees the old value before it allocates the new one.                *)
kvs_array_mod(key, value, ret) ==
  \/ /\ key = NULL \/ value = NULL
     /\ ret = -1
     /\ UNCHANGED <<table, total>>
  \/ /\ key # NULL /\ value # NULL
     /\ Matches(key) = {}
     /\ ret = IF total = 0 THEN KVS_ARRAY_SIZE ELSE total
     /\ UNCHANGED <<table, total>>
  \/ /\ key # NULL /\ value # NULL
     /\ Matches(key) # {}
     /\ LET i == Lowest(Matches(key))
        IN /\ table[i].value # Lost
           /\ \/ ret = 0 /\ Put(i, key, value)
              \/ MallocMayFail /\ ret = -2 /\ Put(i, key, Lost)
     /\ UNCHANGED total

kvs_array_mod_dies(key, value) ==
  /\ key # NULL /\ value # NULL
  /\ Matches(key) # {}
  /\ table[Lowest(Matches(key))].value = Lost

------------------------------------------------------------------------------
(* kvs_filter_protocol: the answer for a returned value, and one action    *)
(* for each of its cases.                                                  *)
Ret == -2 .. KVS_ARRAY_SIZE

Answer(cmd, key, res) ==
  /\ reply' = [cmd |-> cmd, key |-> key, res |-> res]
  /\ UNCHANGED up

(* SIGSEGV or abort inside the engine: no answer.                          *)
Dies == up' = FALSE /\ UNCHANGED <<table, total, reply>>

ByRet(ret, positive) == IF ret < 0 THEN "error" ELSE IF ret = 0 THEN "ok" ELSE positive

SET(key, value) ==
  /\ up
  /\ \E ret \in Ret :
       /\ kvs_array_set(key, value, ret)
       /\ Answer("SET", key, ByRet(ret, "exist"))

GET(key) ==
  /\ up
  /\ Answer("GET", key, IF kvs_array_get(key) = NULL THEN "no exist" ELSE kvs_array_get(key))
  /\ UNCHANGED <<table, total>>

DEL(key) ==
  /\ up
  /\ \/ \E ret \in Ret :
          /\ kvs_array_del(key, ret)
          /\ Answer("DEL", key, ByRet(ret, "no exist"))
     \/ kvs_array_del_dies(key) /\ Dies

MOD(key, value) ==
  /\ up
  /\ \/ \E ret \in Ret :
          /\ kvs_array_mod(key, value, ret)
          /\ Answer("MOD", key, ByRet(ret, "no exist"))
     \/ kvs_array_mod_dies(key, value) /\ Dies

EXIST(key) ==
  /\ up
  /\ Answer("EXIST", key, IF kvs_array_exist(key) = 0 THEN "exist" ELSE "no exist")
  /\ UNCHANGED <<table, total>>

NoReply == [cmd |-> "none", key |-> NULL, res |-> "none"]

Init ==
  /\ table = kvs_array_create
  /\ total = 0
  /\ up = TRUE
  /\ reply = NoReply

(* The server is started again after it died; nothing was persisted.       *)
Restart ==
  /\ ~up
  /\ table' = kvs_array_create
  /\ total' = 0
  /\ up' = TRUE
  /\ reply' = NoReply

Next ==
  \/ \E key \in Key \cup {NULL}, value \in Value \cup {NULL} :
       SET(key, value) \/ MOD(key, value)
  \/ \E key \in Key \cup {NULL} : GET(key) \/ DEL(key) \/ EXIST(key)
  \/ Restart

Spec == Init /\ [][Next]_vars

------------------------------------------------------------------------------
Occupied == {i \in Index : table[i].key \in Key}

(* total, which DEL decrements whatever slot it empties, is the number of  *)
(* entries in the whole table, hidden ones included.                       *)
TotalCountsEntries == total = Cardinality(Occupied)

(* Slots are written from the first on, so the scans below total never     *)
(* look at what malloc left in the table.                                  *)
NoJunkRead == \A i \in 0 .. total - 1 : table[i].key # Junk

(* An entry at or above total, which no scan reaches, exists only while    *)
(* some slot below total is empty: SET always finds that slot first and    *)
(* brings the entry back into reach.                                       *)
HiddenOnlyBehindHole ==
  (\E i \in Index : i >= total /\ table[i].key \in Key) => Matches(NULL) # {}

(* Whatever was deleted, in which order, with or without memory: the table *)
(* loses count of no entry, and what DEL hides can be brought back.        *)
TableConsistent == TypeOK /\ TotalCountsEntries /\ NoJunkRead /\ HiddenOnlyBehindHole

(* The step leaves every entry in its slot but the one it deletes.         *)
EntriesStay ==
  ~up \/ \A i \in Index :
    table[i].key \in Key =>
      \/ table'[i].key = table[i].key
      \/ reply'.cmd = "DEL" /\ reply'.key = table[i].key

(* An entry leaves its slot only through a DEL of its own key: appending   *)
(* at total never overwrites an entry that a DEL has hidden there.         *)
NoEntryOverwritten == [][EntriesStay]_vars
==============================================================================
