------------------------------- MODULE KvHash --------------------------------
(***************************************************************************)
(* The hash engine of the kvstore (12_1/kvs_hash.c) behind the H* commands *)
(* of kvs_filter_protocol (12_1/kvstore.c).  A slot of the table is the    *)
(* sequence of the nodes of its chain, head first.  kvs_* operators are    *)
(* the engine's functions, with the value they return as last parameter;   *)
(* HSET ... HEXIST are the protocol's cases.                               *)
(***************************************************************************)
EXTENDS Integers, Sequences, FiniteSets

LOCAL Ext == INSTANCE SequencesExt

CONSTANTS
  Key,             \* keys: strings, that is, sequences of character codes
  Value,           \* values
  NULL,            \* a null pointer: a missing argument, no value
  Lost,            \* a value pointer left dangling by a failed MOD
  MAX_TABLE_SIZE,  \* number of slots
  MallocMayFail    \* whether kvs_malloc may return NULL

(* _hash: the sum of the characters of the key, modulo the table size.     *)
CharSum == [key \in Key |-> Ext!FoldLeft(LAMBDA sum, c : sum + c, 0, key)]

hash_idx(key) == CharSum[key] % MAX_TABLE_SIZE

Slot == 0 .. MAX_TABLE_SIZE - 1

(* Keys whose characters are not negative as C chars land in the table.    *)
ASSUME HashAssumption == \A key \in Key : hash_idx(key) \in Slot

ASSUME ConstantAssumption ==
  /\ NULL \notin Key \cup Value
  /\ Lost \notin Value \cup {NULL}
  /\ MAX_TABLE_SIZE \in Nat \ {0}
  /\ MallocMayFail \in BOOLEAN

VARIABLES
  nodes,  \* the table: a chain of [key, value] nodes for every slot
  count,  \* number of nodes, as the engine counts them
  up,     \* the process runs
  reply   \* the last request and its answer

vars == <<nodes, count, up, reply>>

Node == [key : Key, value : Value \cup {Lost}]

Cmd == {"none", "SET", "GET", "DEL", "MOD", "EXIST"}

Res == {"none", "ok", "exist", "no exist", "error"} \cup Value \cup {Lost}

(* Type invariant.  The code behaviour behind it is that of all functions  *)
(* of kvs_hash.c: slots hold chains of nodes whose keys and values were    *)
(* copied from requests, and the counter never goes below zero.            *)
TypeOK ==
  /\ nodes \in [Slot -> Seq(Node)]
  /\ count \in Nat
  /\ up \in BOOLEAN
  /\ reply \in [cmd : Cmd, key : Key \cup {NULL}, res : Res]

------------------------------------------------------------------------------
(* The search loops: the first node of the chain that holds the key.       *)
Holds(chain, key) == \E i \in 1 .. Len(chain) : chain[i].key = key

IndexOf(chain, key) ==
  CHOOSE i \in 1 .. Len(chain) :
    /\ chain[i].key = key
    /\ \A j \in 1 .. i - 1 : chain[j].key # key

ChainOf(key) == nodes[hash_idx(key)]

Stored(key) == Holds(ChainOf(key), key)

NodeOf(key) == ChainOf(key)[IndexOf(ChainOf(key), key)]

Lookup(chain, key) ==
  IF Holds(chain, key) THEN chain[IndexOf(chain, key)].value ELSE NULL

SetValue(chain, i, value) == [chain EXCEPT ![i].value = value]

Without(chain, i) ==
  [j \in 1 .. Len(chain) - 1 |-> IF j < i THEN chain[j] ELSE chain[j + 1]]

(* kvs_hash_create from init_kvengine: an empty table.                     *)
kvs_hash_create == [s \in Slot |-> <<>>]

_create_node(key, value) == [key |-> key, value |-> value]

(* SET of a new key puts a node at the head of the key's chain.            *)
kvs_hash_set(key, value, ret) ==
  \/ /\ key = NULL \/ value = NULL
     /\ ret = -1
     /\ UNCHANGED <<nodes, count>>
  \/ /\ key # NULL /\ value # NULL
     /\ Stored(key)
     /\ ret = 1
     /\ UNCHANGED <<nodes, count>>
  \/ /\ key # NULL /\ value # NULL
     /\ ~Stored(key)
     /\ ret = 0
     /\ nodes' = [nodes EXCEPT ![hash_idx(key)] = <<_create_node(key, value)>> \o @]
     /\ count' = count + 1

(* The node of a new key cannot be allocated: its null pointer is followed.*)
kvs_hash_set_dies(key, value) ==
  /\ MallocMayFail
  /\ key # NULL /\ value # NULL
  /\ ~Stored(key)

kvs_hash_get(key) ==
  IF key = NULL THEN NULL ELSE Lookup(ChainOf(key), key)

kvs_hash_exist(key) == IF kvs_hash_get(key) = NULL THEN 1 ELSE 0

(* Mutant of kvs_hash_mod: the first node of the chain is written.         *)
kvs_hash_mod_head(key, value, ret) ==
  \/ /\ key = NULL
     /\ ret = -1
     /\ UNCHANGED <<nodes, count>>
  \/ /\ key # NULL
     /\ ~Stored(key)
     /\ ret = 1
     /\ UNCHANGED <<nodes, count>>
  \/ /\ key # NULL /\ value # NULL
     /\ Stored(key)
     /\ ret = 0
     /\ nodes' = [nodes EXCEPT ![hash_idx(key)] = SetValue(@, 1, value)]
     /\ UNCHANGED count

(* MOD frees the old value before it allocates the new one.                *)
kvs_hash_mod(key, value, ret) ==
  \/ /\ key = NULL
     /\ ret = -1
     /\ UNCHANGED <<nodes, count>>
  \/ /\ key # NULL
     /\ ~Stored(key)
     /\ ret = 1
     /\ UNCHANGED <<nodes, count>>
  \/ /\ key # NULL /\ value # NULL
     /\ Stored(key)
     /\ NodeOf(key).value # Lost
     /\ LET s == hash_idx(key)
            i == IndexOf(nodes[s], key)
        IN \/ /\ ret = 0
              /\ nodes' = [nodes EXCEPT ![s] = SetValue(@, i, value)]
           \/ /\ MallocMayFail
              /\ ret = -2
              /\ nodes' = [nodes EXCEPT ![s] = SetValue(@, i, Lost)]
     /\ UNCHANGED count

(* MOD without a value reads through a null pointer, and MOD of a key whose*)
(* value is already freed frees it twice: either ends the process.         *)
kvs_hash_mod_dies(key, value) ==
  /\ key # NULL
  /\ Stored(key)
  /\ value = NULL \/ NodeOf(key).value = Lost

(* Mutant of kvs_hash_del: removing the head forgets the counter.          *)
kvs_hash_del_nocount(key, ret) ==
  \/ /\ key = NULL
     /\ ret = -2
     /\ UNCHANGED <<nodes, count>>
  \/ /\ key # NULL
     /\ ~Stored(key)
     /\ ret = -1
     /\ UNCHANGED <<nodes, count>>
  \/ /\ key # NULL
     /\ Stored(key)
     /\ ret = 0
     /\ LET s == hash_idx(key)
            i == IndexOf(nodes[s], key)
        IN /\ nodes' = [nodes EXCEPT ![s] = Without(@, i)]
           /\ count' = IF i = 1 THEN count ELSE count - 1

(* Mutant of kvs_hash_del: the counter goes down for a missing key too.    *)
kvs_hash_del_eager(key, ret) ==
  \/ /\ key = NULL
     /\ ret = -2
     /\ UNCHANGED <<nodes, count>>
  \/ /\ key # NULL
     /\ ~Stored(key)
     /\ ret = -1
     /\ count' = count - 1
     /\ UNCHANGED nodes
  \/ /\ key # NULL
     /\ Stored(key)
     /\ ret = 0
     /\ nodes' = [nodes EXCEPT ![hash_idx(key)] = Without(@, IndexOf(@, key))]
     /\ count' = count - 1

(* DEL unlinks the node of the key.  A node in the middle of its chain has *)
(* its value freed too, which the head has not.                            *)
kvs_hash_del(key, ret) ==
  \/ /\ key = NULL
     /\ ret = -2
     /\ UNCHANGED <<nodes, count>>
  \/ /\ key # NULL
     /\ ~Stored(key)
     /\ ret = -1
     /\ UNCHANGED <<nodes, count>>
  \/ /\ key # NULL
     /\ Stored(key)
     /\ ret = 0
     /\ LET s == hash_idx(key)
            i == IndexOf(nodes[s], key)
        IN /\ i = 1 \/ nodes[s][i].value # Lost
           /\ nodes' = [nodes EXCEPT ![s] = Without(@, i)]
     /\ count' = count - 1

kvs_hash_del_dies(key) ==
  /\ key # NULL
  /\ Stored(key)
  /\ IndexOf(ChainOf(key), key) # 1
  /\ NodeOf(key).value = Lost

------------------------------------------------------------------------------
(* kvs_filter_protocol: the answer for a returned value, and one action    *)
(* for each of its cases.                                                  *)
Answer(cmd, key, res) ==
  /\ reply' = [cmd |-> cmd, key |-> key, res |-> res]
  /\ UNCHANGED up

(* SIGSEGV or abort inside the engine: no answer.                          *)
Dies == up' = FALSE /\ UNCHANGED <<nodes, count, reply>>

ByRet(ret, positive) == IF ret < 0 THEN "error" ELSE IF ret = 0 THEN "ok" ELSE positive

HSET(key, value) ==
  /\ up
  /\ \/ \E ret \in {-1, 0, 1} :
          /\ kvs_hash_set(key, value, ret)
          /\ Answer("SET", key, ByRet(ret, "exist"))
     \/ kvs_hash_set_dies(key, value) /\ Dies

HGET(key) ==
  /\ up
  /\ Answer("GET", key, IF kvs_hash_get(key) = NULL THEN "no exist" ELSE kvs_hash_get(key))
  /\ UNCHANGED <<nodes, count>>

HDEL(key) ==
  /\ up
  /\ \/ \E ret \in {-2, -1, 0} :
          /\ kvs_hash_del(key, ret)
          /\ Answer("DEL", key, ByRet(ret, "no exist"))
     \/ kvs_hash_del_dies(key) /\ Dies

HMOD(key, value) ==
  /\ up
  /\ \/ \E ret \in {-2, -1, 0, 1} :
          /\ kvs_hash_mod(key, value, ret)
          /\ Answer("MOD", key, ByRet(ret, "no exist"))
     \/ kvs_hash_mod_dies(key, value) /\ Dies

HEXIST(key) ==
  /\ up
  /\ Answer("EXIST", key, IF kvs_hash_exist(key) = 0 THEN "exist" ELSE "no exist")
  /\ UNCHANGED <<nodes, count>>

NoReply == [cmd |-> "none", key |-> NULL, res |-> "none"]

(* main: init_kvengine builds an empty table before the first request.     *)
Init ==
  /\ nodes = kvs_hash_create
  /\ count = 0
  /\ up = TRUE
  /\ reply = NoReply

(* The server is started again after it died; nothing was persisted.       *)
Restart ==
  /\ ~up
  /\ nodes' = kvs_hash_create
  /\ count' = 0
  /\ up' = TRUE
  /\ reply' = NoReply

Next ==
  \/ \E key \in Key \cup {NULL}, value \in Value \cup {NULL} :
       HSET(key, value) \/ HMOD(key, value)
  \/ \E key \in Key \cup {NULL} : HGET(key) \/ HDEL(key) \/ HEXIST(key)
  \/ Restart

Spec == Init /\ [][Next]_vars

------------------------------------------------------------------------------
(* No key has two nodes in a chain: kvs_hash_set refuses a key it finds,   *)
(* or a DEL would uncover an older value of the key.                       *)
NoDuplicates ==
  \A s \in Slot : \A i, j \in 1 .. Len(nodes[s]) :
    nodes[s][i].key = nodes[s][j].key => i = j

(* A node is in the chain of the slot its key hashes to, the only chain    *)
(* that kvs_hash_get, kvs_hash_mod and kvs_hash_del ever search.           *)
InOwnSlot ==
  \A s \in Slot : \A i \in 1 .. Len(nodes[s]) : hash_idx(nodes[s][i].key) = s

Positions == UNION {{s} \X (1 .. Len(nodes[s])) : s \in Slot}

(* count, which kvs_hash_set and both branches of kvs_hash_del keep by     *)
(* hand, is the number of nodes in the table.                              *)
CountIsExact == count = Cardinality(Positions)

(* The three together, after any requests and failures.                    *)
TableConsistent == NoDuplicates /\ InOwnSlot /\ CountIsExact

(* The map a client sees: what GET would find under every key.             *)
stored == [key \in Key |-> kvs_hash_get(key)]

Map == INSTANCE KvMap WITH
  map <- stored,
  DelMissing <- "error"

(* The engine implements the map of KvMap: a command changes the entry of  *)
(* its own key only and answers what that entry says, whatever the order   *)
(* of the nodes in the chains.                                             *)
ImplementsKvMap == Map!MapSpec
==============================================================================
