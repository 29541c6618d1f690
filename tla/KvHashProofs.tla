----------------------------- MODULE KvHashProofs ----------------------------
(***************************************************************************)
(* Proofs about the hash engine of the kvstore, for every set of keys and  *)
(* values, every table size and with or without allocation failures: the   *)
(* structural invariants of the table, and that it implements KvMap.       *)
(***************************************************************************)
EXTENDS KvHash, FiniteSetTheorems, SequenceTheorems, TLAPS

(* The inductive part that is about the table: the three structural        *)
(* invariants depend on each other and on the types, and the counter on    *)
(* the table being finite.                                                 *)
TableOK ==
  /\ nodes \in [Slot -> Seq(Node)]
  /\ count \in Nat
  /\ NoDuplicates
  /\ InOwnSlot
  /\ IsFiniteSet(Positions)
  /\ CountIsExact

Unique(chain) ==
  \A i, j \in 1 .. Len(chain) : chain[i].key = chain[j].key => i = j

------------------------------------------------------------------------------
(* Linking a node before a chain shifts the chain by one.                  *)
LEMMA ConsFacts ==
  ASSUME NEW chain \in Seq(Node), NEW n \in Node
  PROVE  /\ <<n>> \o chain \in Seq(Node)
         /\ Len(<<n>> \o chain) = Len(chain) + 1
         /\ (<<n>> \o chain)[1] = n
         /\ \A i \in 2 .. Len(chain) + 1 : (<<n>> \o chain)[i] = chain[i - 1]
OBVIOUS

(* Unlinking the i-th node closes the gap.                                 *)
LEMMA WithoutFacts ==
  ASSUME NEW chain \in Seq(Node), NEW i \in 1 .. Len(chain)
  PROVE  /\ Without(chain, i) \in Seq(Node)
         /\ Len(Without(chain, i)) = Len(chain) - 1
         /\ \A j \in 1 .. Len(chain) - 1 :
              Without(chain, i)[j] = IF j < i THEN chain[j] ELSE chain[j + 1]
<1>1. Len(chain) \in Nat /\ Len(chain) - 1 \in Nat
  OBVIOUS
<1>2. Without(chain, i) \in [1 .. Len(chain) - 1 -> Node]
  BY <1>1 DEF Without
<1>3. QED
  BY <1>1, <1>2 DEF Without

(* Writing the value of a node changes nothing else in the chain.          *)
LEMMA SetValueFacts ==
  ASSUME NEW chain \in Seq(Node), NEW x \in 1 .. Len(chain), NEW value \in Value \cup {Lost}
  PROVE  /\ SetValue(chain, x, value) \in Seq(Node)
         /\ Len(SetValue(chain, x, value)) = Len(chain)
         /\ \A j \in 1 .. Len(chain) :
              /\ SetValue(chain, x, value)[j].key = chain[j].key
              /\ SetValue(chain, x, value)[j].value = IF j = x THEN value ELSE chain[j].value
<1> DEFINE n == [chain[x] EXCEPT !.value = value]
<1>1. Len(chain) \in Nat /\ chain \in [1 .. Len(chain) -> Node]
  BY LenProperties
<1>2. n \in Node /\ n.key = chain[x].key /\ n.value = value
  BY <1>1 DEF Node
<1>3. SetValue(chain, x, value) = [chain EXCEPT ![x] = n]
  BY DEF SetValue
<1> HIDE DEF n
<1>4. SetValue(chain, x, value) \in [1 .. Len(chain) -> Node]
  BY <1>1, <1>2, <1>3
<1>5. \A j \in 1 .. Len(chain) : SetValue(chain, x, value)[j] = IF j = x THEN n ELSE chain[j]
  BY <1>1, <1>3
<1>6. QED
  BY <1>1, <1>2, <1>4, <1>5

(* In a chain without duplicates the search finds the node of the key.     *)
LEMMA IndexOfFacts ==
  ASSUME NEW chain \in Seq(Node), Unique(chain), NEW key, Holds(chain, key)
  PROVE  /\ IndexOf(chain, key) \in 1 .. Len(chain)
         /\ chain[IndexOf(chain, key)].key = key
         /\ \A i \in 1 .. Len(chain) : chain[i].key = key => i = IndexOf(chain, key)
<1>1. PICK i \in 1 .. Len(chain) : chain[i].key = key
  BY DEF Holds
<1>2. \A j \in 1 .. i - 1 : chain[j].key # key
  BY <1>1 DEF Unique
<1>3. \E k \in 1 .. Len(chain) : /\ chain[k].key = key
                                 /\ \A j \in 1 .. k - 1 : chain[j].key # key
  BY <1>1, <1>2
<1>4. /\ IndexOf(chain, key) \in 1 .. Len(chain)
      /\ chain[IndexOf(chain, key)].key = key
  BY <1>3 DEF IndexOf
<1>5. QED
  BY <1>4 DEF Unique

------------------------------------------------------------------------------
(* A table that satisfies the invariants: every chain is well formed.      *)
LEMMA ChainFacts ==
  ASSUME TableOK, NEW key \in Key
  PROVE  /\ hash_idx(key) \in Slot
         /\ ChainOf(key) \in Seq(Node)
         /\ Unique(ChainOf(key))
         /\ Len(ChainOf(key)) \in Nat
BY HashAssumption DEF TableOK, ChainOf, NoDuplicates, Unique

(* kvs_hash_set of a new key preserves the table's invariants.             *)
LEMMA SetKeepsTable ==
  ASSUME TableOK, NEW key \in Key, NEW value \in Value, ~Stored(key),
         nodes' = [nodes EXCEPT ![hash_idx(key)] = <<_create_node(key, value)>> \o @],
         count' = count + 1
  PROVE  TableOK'
<1> DEFINE s == hash_idx(key)
           n == _create_node(key, value)
           p == <<s, Len(nodes[s]) + 1>>
<1>1. s \in Slot /\ nodes[s] \in Seq(Node) /\ Len(nodes[s]) \in Nat
  BY ChainFacts DEF ChainOf
<1>2. n \in Node /\ n.key = key
  BY DEF _create_node, Node
<1>3. nodes' \in [Slot -> Seq(Node)] /\ nodes'[s] = <<n>> \o nodes[s]
  BY <1>1, <1>2, ConsFacts DEF TableOK
<1>4. /\ Len(nodes'[s]) = Len(nodes[s]) + 1
      /\ nodes'[s][1] = n
      /\ \A i \in 2 .. Len(nodes[s]) + 1 : nodes'[s][i] = nodes[s][i - 1]
  BY <1>1, <1>2, <1>3, ConsFacts
<1>5. \A t \in Slot : t # s => nodes'[t] = nodes[t]
  BY <1>1 DEF TableOK
<1> HIDE DEF s, n
<1>6. \A i \in 1 .. Len(nodes[s]) : nodes[s][i].key # key
  BY DEF Stored, Holds, ChainOf, s
<1>7. NoDuplicates'
  <2> SUFFICES ASSUME NEW t \in Slot, NEW i \in 1 .. Len(nodes'[t]), NEW j \in 1 .. Len(nodes'[t]),
                      nodes'[t][i].key = nodes'[t][j].key
               PROVE  i = j
    BY DEF NoDuplicates
  <2>1. CASE t # s
    BY <2>1, <1>5 DEF TableOK, NoDuplicates
  <2>2. CASE t = s /\ i = 1 /\ j # 1
    BY <2>2, <1>1, <1>2, <1>4, <1>6
  <2>3. CASE t = s /\ i # 1 /\ j = 1
    BY <2>3, <1>1, <1>2, <1>4, <1>6
  <2>4. CASE t = s /\ i # 1 /\ j # 1
    <3>1. i - 1 \in 1 .. Len(nodes[s]) /\ j - 1 \in 1 .. Len(nodes[s])
      BY <2>4, <1>1, <1>4
    <3>2. nodes[s][i - 1].key = nodes[s][j - 1].key
      BY <2>4, <1>1, <1>4
    <3>3. i - 1 = j - 1
      BY <3>1, <3>2, <1>1 DEF TableOK, NoDuplicates
    <3>4. i \in Int /\ j \in Int
      BY <1>1, <1>4, <2>4
    <3>5. QED
      BY <3>3, <3>4
  <2>5. QED
    BY <2>1, <2>2, <2>3, <2>4
<1>8. InOwnSlot'
  <2> SUFFICES ASSUME NEW t \in Slot, NEW i \in 1 .. Len(nodes'[t])
               PROVE  hash_idx(nodes'[t][i].key) = t
    BY DEF InOwnSlot
  <2>1. CASE t # s
    BY <2>1, <1>5 DEF TableOK, InOwnSlot
  <2>2. CASE t = s /\ i = 1
    BY <2>2, <1>2, <1>4 DEF s
  <2>3. CASE t = s /\ i # 1
    <3>1. i - 1 \in 1 .. Len(nodes[s]) /\ nodes'[s][i] = nodes[s][i - 1]
      BY <2>3, <1>1, <1>4
    <3>2. QED
      BY <2>3, <3>1, <1>1 DEF TableOK, InOwnSlot
  <2>4. QED
    BY <2>1, <2>2, <2>3
<1>9. Positions' = Positions \cup {p} /\ p \notin Positions
  BY <1>1, <1>4, <1>5 DEF Positions, TableOK
<1>10. IsFiniteSet(Positions') /\ Cardinality(Positions') = Cardinality(Positions) + 1
  BY <1>9, FS_AddElement DEF TableOK
<1>11. QED
  BY <1>3, <1>7, <1>8, <1>10 DEF TableOK, CountIsExact

(* Writing the value of a node that stays where it is, as kvs_hash_mod     *)
(* does, preserves the table's invariants.                                 *)
LEMMA ModKeepsTable ==
  ASSUME TableOK, NEW key \in Key, Stored(key), NEW value \in Value \cup {Lost},
         nodes' = [nodes EXCEPT ![hash_idx(key)] = SetValue(@, IndexOf(nodes[hash_idx(key)], key), value)],
         count' = count
  PROVE  TableOK'
<1> DEFINE s == hash_idx(key)
           x == IndexOf(nodes[s], key)
<1>1. s \in Slot /\ nodes[s] \in Seq(Node) /\ Len(nodes[s]) \in Nat
  BY ChainFacts DEF ChainOf
<1>2. x \in 1 .. Len(nodes[s])
  BY ChainFacts, IndexOfFacts DEF Stored, ChainOf
<1> HIDE DEF s, x
<1>3. nodes' = [nodes EXCEPT ![s] = SetValue(nodes[s], x, value)]
  BY DEF s, x
<1>4. /\ nodes'[s] = SetValue(nodes[s], x, value)
      /\ \A t \in Slot : t # s => nodes'[t] = nodes[t]
      /\ nodes' \in [Slot -> Seq(Node)]
  <2>1. SetValue(nodes[s], x, value) \in Seq(Node)
    BY <1>1, <1>2, SetValueFacts
  <2>2. QED
    BY <1>1, <1>3, <2>1 DEF TableOK
<1>5. \A t \in Slot : Len(nodes'[t]) = Len(nodes[t])
  BY <1>1, <1>2, <1>4, SetValueFacts
<1>6. \A t \in Slot : \A i \in 1 .. Len(nodes[t]) : nodes'[t][i].key = nodes[t][i].key
  BY <1>1, <1>2, <1>4, SetValueFacts
<1>7. NoDuplicates' /\ InOwnSlot'
  BY <1>5, <1>6 DEF TableOK, NoDuplicates, InOwnSlot
<1>8. Positions' = Positions
  BY <1>5 DEF Positions
<1>9. QED
  BY <1>4, <1>7, <1>8 DEF TableOK, CountIsExact

(* Unlinking the node of the key, as both branches of kvs_hash_del do,     *)
(* preserves the table's invariants.                                       *)
LEMMA DelKeepsTable ==
  ASSUME TableOK, NEW key \in Key, Stored(key),
         nodes' = [nodes EXCEPT ![hash_idx(key)] = Without(@, IndexOf(nodes[hash_idx(key)], key))],
         count' = count - 1
  PROVE  TableOK'
<1> DEFINE s == hash_idx(key)
           x == IndexOf(nodes[s], key)
           p == <<s, Len(nodes[s])>>
<1>1. s \in Slot /\ nodes[s] \in Seq(Node) /\ Len(nodes[s]) \in Nat
  BY ChainFacts DEF ChainOf
<1>2. x \in 1 .. Len(nodes[s])
  BY ChainFacts, IndexOfFacts DEF Stored, ChainOf
<1>3. nodes' = [nodes EXCEPT ![s] = Without(nodes[s], x)]
  OBVIOUS
<1> HIDE DEF s, x
<1>4. /\ nodes'[s] = Without(nodes[s], x)
      /\ \A t \in Slot : t # s => nodes'[t] = nodes[t]
      /\ nodes' \in [Slot -> Seq(Node)]
  BY <1>1, <1>2, <1>3, WithoutFacts DEF TableOK
<1>5. /\ Len(nodes'[s]) = Len(nodes[s]) - 1
      /\ \A j \in 1 .. Len(nodes[s]) - 1 :
           nodes'[s][j] = IF j < x THEN nodes[s][j] ELSE nodes[s][j + 1]
  BY <1>1, <1>2, <1>4, WithoutFacts
<1>6. NoDuplicates'
  <2> SUFFICES ASSUME NEW t \in Slot, NEW i \in 1 .. Len(nodes'[t]), NEW j \in 1 .. Len(nodes'[t]),
                      nodes'[t][i].key = nodes'[t][j].key
               PROVE  i = j
    BY DEF NoDuplicates
  <2>1. CASE t # s
    BY <2>1, <1>4 DEF TableOK, NoDuplicates
  <2>2. CASE t = s
    <3> DEFINE a == IF i < x THEN i ELSE i + 1
               b == IF j < x THEN j ELSE j + 1
    <3>1. /\ i \in Int /\ j \in Int /\ x \in Int
          /\ a \in 1 .. Len(nodes[s]) /\ b \in 1 .. Len(nodes[s])
      BY <2>2, <1>1, <1>2, <1>5
    <3>2. nodes[s][a].key = nodes[s][b].key
      BY <2>2, <1>1, <1>2, <1>5
    <3>3. a = b
      BY <3>1, <3>2, <1>1 DEF TableOK, NoDuplicates
    <3>4. QED
      BY <3>1, <3>3
  <2>3. QED
    BY <2>1, <2>2
<1>7. InOwnSlot'
  <2> SUFFICES ASSUME NEW t \in Slot, NEW i \in 1 .. Len(nodes'[t])
               PROVE  hash_idx(nodes'[t][i].key) = t
    BY DEF InOwnSlot
  <2>1. CASE t # s
    BY <2>1, <1>4 DEF TableOK, InOwnSlot
  <2>2. CASE t = s
    <3>1. \E a \in 1 .. Len(nodes[s]) : nodes'[s][i] = nodes[s][a]
      BY <2>2, <1>1, <1>2, <1>5, SMTT(30)
    <3>2. QED
      BY <2>2, <3>1, <1>1 DEF TableOK, InOwnSlot
  <2>3. QED
    BY <2>1, <2>2
<1>8. Positions' = Positions \ {p} /\ p \in Positions
  BY <1>1, <1>2, <1>4, <1>5 DEF Positions, TableOK
<1>9. IsFiniteSet(Positions') /\ Cardinality(Positions') = Cardinality(Positions) - 1
  BY <1>8, FS_RemoveElement DEF TableOK
<1>10. Cardinality(Positions') \in Nat
  BY <1>9, FS_CardinalityType
<1>11. QED
  BY <1>4, <1>6, <1>7, <1>9, <1>10 DEF TableOK, CountIsExact

------------------------------------------------------------------------------
(* The empty table of kvs_hash_create satisfies the invariants.            *)
LEMMA EmptyTable == nodes = kvs_hash_create /\ count = 0 => TableOK
<1> SUFFICES ASSUME nodes = kvs_hash_create, count = 0 PROVE TableOK
  OBVIOUS
<1>1. nodes \in [Slot -> Seq(Node)] /\ \A s \in Slot : nodes[s] = <<>> /\ Len(nodes[s]) = 0
  BY DEF kvs_hash_create
<1>2. NoDuplicates /\ InOwnSlot
  BY <1>1 DEF NoDuplicates, InOwnSlot
<1>3. Positions = {}
  BY <1>1 DEF Positions
<1>4. QED
  BY <1>1, <1>2, <1>3, FS_EmptySet DEF TableOK, CountIsExact

(* What a step does to the table: nothing, or one of the three changes, or *)
(* the restart with an empty one.                                          *)
LEMMA TableStep ==
  ASSUME TableOK, [Next]_vars
  PROVE  TableOK'
<1>1. CASE UNCHANGED <<nodes, count>>
  BY <1>1 DEF TableOK, NoDuplicates, InOwnSlot, Positions, CountIsExact
<1>2. ASSUME NEW key \in Key \cup {NULL}, NEW value \in Value \cup {NULL}, HSET(key, value)
      PROVE  TableOK'
  BY <1>1, <1>2, SetKeepsTable DEF HSET, kvs_hash_set, Dies
<1>3. ASSUME NEW key \in Key \cup {NULL}, NEW value \in Value \cup {NULL}, HMOD(key, value)
      PROVE  TableOK'
  BY <1>1, <1>3, ModKeepsTable DEF HMOD, kvs_hash_mod, Dies
<1>4. ASSUME NEW key \in Key \cup {NULL}, HDEL(key)
      PROVE  TableOK'
  BY <1>1, <1>4, DelKeepsTable DEF HDEL, kvs_hash_del, Dies
<1>5. ASSUME NEW key \in Key \cup {NULL}, HGET(key) \/ HEXIST(key)
      PROVE  TableOK'
  BY <1>1, <1>5 DEF HGET, HEXIST
<1>6. CASE Restart
  <2>1. nodes' = kvs_hash_create /\ count' = 0
    BY <1>6 DEF Restart
  <2>2. (nodes = kvs_hash_create /\ count = 0 => TableOK)'
    BY EmptyTable, PTL
  <2>3. QED
    BY <2>1, <2>2 DEF kvs_hash_create
<1>7. QED
  BY <1>1, <1>2, <1>3, <1>4, <1>5, <1>6 DEF Next, vars

------------------------------------------------------------------------------
(* What kvs_hash_get reads from a chain without duplicates.                *)
LEMMA LookupFacts ==
  ASSUME NEW chain \in Seq(Node), Unique(chain), NEW key
  PROVE  /\ ~Holds(chain, key) => Lookup(chain, key) = NULL
         /\ \A i \in 1 .. Len(chain) :
              chain[i].key = key => Holds(chain, key) /\ Lookup(chain, key) = chain[i].value
         /\ Holds(chain, key) => Lookup(chain, key) \in Value \cup {Lost}
<1>1. ASSUME NEW i \in 1 .. Len(chain), chain[i].key = key
      PROVE  Holds(chain, key) /\ Lookup(chain, key) = chain[i].value
  <2>1. Holds(chain, key)
    BY <1>1 DEF Holds
  <2>2. i = IndexOf(chain, key)
    BY <1>1, <2>1, IndexOfFacts
  <2>3. QED
    BY <2>1, <2>2 DEF Lookup
<1>2. ASSUME Holds(chain, key)
      PROVE  Lookup(chain, key) \in Value \cup {Lost}
  <2>1. PICK i \in 1 .. Len(chain) : chain[i].key = key
    BY <1>2 DEF Holds
  <2>2. chain[i] \in Node
    BY ElementOfSeq
  <2>3. QED
    BY <1>1, <2>1, <2>2 DEF Node
<1>3. QED
  BY <1>1, <1>2 DEF Lookup

(* The value read for a key after a new node was linked before the chain.  *)
LEMMA LookupCons ==
  ASSUME NEW chain \in Seq(Node), Unique(chain), NEW n \in Node, ~Holds(chain, n.key),
         NEW key, Unique(<<n>> \o chain)
  PROVE  Lookup(<<n>> \o chain, key) = IF key = n.key THEN n.value ELSE Lookup(chain, key)
<1> DEFINE c == <<n>> \o chain
<1>1. /\ c \in Seq(Node) /\ Unique(c) /\ Len(c) = Len(chain) + 1 /\ c[1] = n
      /\ \A i \in 2 .. Len(chain) + 1 : c[i] = chain[i - 1]
      /\ Len(chain) \in Nat
  BY ConsFacts
<1> HIDE DEF c
<1>2. CASE key = n.key
  <2>1. 1 \in 1 .. Len(c) /\ c[1].key = key
    BY <1>1, <1>2
  <2>2. Lookup(c, key) = c[1].value
    BY <1>1, <2>1, LookupFacts
  <2>3. QED
    BY <1>1, <1>2, <2>2 DEF c
<1>3. CASE key # n.key /\ Holds(chain, key)
  <2>1. PICK i \in 1 .. Len(chain) : chain[i].key = key
    BY <1>3 DEF Holds
  <2>2. i + 1 \in 1 .. Len(c) /\ c[i + 1] = chain[i]
    BY <1>1
  <2>3. Lookup(chain, key) = chain[i].value
    BY <2>1, LookupFacts
  <2>4. c[i + 1].key = key
    BY <2>1, <2>2
  <2>5. Lookup(c, key) = c[i + 1].value
    <3>1. c \in Seq(Node) /\ Unique(c)
      BY <1>1
    <3>2. QED
      BY <2>2, <2>4, <3>1, LookupFacts
  <2>6. QED
    BY <1>3, <2>2, <2>3, <2>5 DEF c
<1>4. CASE key # n.key /\ ~Holds(chain, key)
  <2>1. ~Holds(c, key)
    <3> SUFFICES ASSUME NEW i \in 1 .. Len(c), c[i].key = key
                 PROVE  FALSE
      BY DEF Holds
    <3>1. CASE i = 1
      BY <1>1, <1>4, <3>1
    <3>2. CASE i # 1
      <4>1. i - 1 \in 1 .. Len(chain) /\ chain[i - 1].key = key
        BY <1>1, <3>2
      <4>2. QED
        BY <1>4, <4>1 DEF Holds
    <3>3. QED
      BY <3>1, <3>2
  <2>2. QED
    BY <1>4, <2>1 DEF c, Lookup
<1>5. QED
  BY <1>2, <1>3, <1>4

(* The value read for a key after the value of a node was written.         *)
LEMMA LookupSetValue ==
  ASSUME NEW chain \in Seq(Node), Unique(chain), NEW x \in 1 .. Len(chain),
         NEW value \in Value \cup {Lost}, NEW key
  PROVE  Lookup(SetValue(chain, x, value), key)
           = IF key = chain[x].key THEN value ELSE Lookup(chain, key)
<1> DEFINE c == SetValue(chain, x, value)
<1>1. /\ c \in Seq(Node) /\ Len(c) = Len(chain)
      /\ \A i \in 1 .. Len(chain) :
           /\ c[i].key = chain[i].key
           /\ c[i].value = IF i = x THEN value ELSE chain[i].value
  BY SetValueFacts
<1> HIDE DEF c
<1>2. Unique(c)
  BY <1>1 DEF Unique
<1>3. CASE Holds(chain, key)
  <2>1. PICK i \in 1 .. Len(chain) : chain[i].key = key
    BY <1>3 DEF Holds
  <2>2. Lookup(c, key) = c[i].value /\ Lookup(chain, key) = chain[i].value
    BY <1>1, <1>2, <2>1, LookupFacts
  <2>3. i = x <=> key = chain[x].key
    BY <2>1 DEF Unique
  <2>4. QED
    BY <1>1, <2>2, <2>3 DEF c
<1>4. CASE ~Holds(chain, key)
  <2>1. ~Holds(c, key) /\ key # chain[x].key
    BY <1>1, <1>4 DEF Holds
  <2>2. QED
    BY <1>4, <2>1 DEF c, Lookup
<1>5. QED
  BY <1>3, <1>4

(* The value read for a key after a node was unlinked.                     *)
LEMMA LookupWithout ==
  ASSUME NEW chain \in Seq(Node), Unique(chain), NEW x \in 1 .. Len(chain), NEW key,
         Unique(Without(chain, x))
  PROVE  Lookup(Without(chain, x), key) = IF key = chain[x].key THEN NULL ELSE Lookup(chain, key)
<1> DEFINE c == Without(chain, x)
<1>1. /\ c \in Seq(Node) /\ Unique(c) /\ Len(c) = Len(chain) - 1
      /\ \A i \in 1 .. Len(chain) - 1 : c[i] = IF i < x THEN chain[i] ELSE chain[i + 1]
      /\ Len(chain) \in Nat
  BY WithoutFacts
<1> HIDE DEF c
<1>2. CASE key = chain[x].key
  <2>1. ASSUME NEW i \in 1 .. Len(c)
        PROVE  c[i].key # key
    <3>1. \E j \in 1 .. Len(chain) : j # x /\ c[i] = chain[j]
      BY <1>1, <2>1
    <3>2. QED
      BY <1>2, <3>1 DEF Unique
  <2>2. QED
    BY <1>2, <2>1 DEF c, Lookup, Holds
<1>3. CASE key # chain[x].key /\ Holds(chain, key)
  <2>1. PICK i \in 1 .. Len(chain) : chain[i].key = key
    BY <1>3 DEF Holds
  <2>2. i # x
    BY <1>3, <2>1
  <2>3. \E j \in 1 .. Len(c) : c[j] = chain[i]
    <3>1. CASE i < x
      BY <1>1, <2>2, <3>1
    <3>2. CASE i > x
      <4>1. i - 1 \in 1 .. Len(c) /\ c[i - 1] = chain[i]
        BY <1>1, <3>2
      <4>2. QED
        BY <4>1
    <3>3. QED
      BY <2>2, <3>1, <3>2
  <2>4. Lookup(c, key) = chain[i].value /\ Lookup(chain, key) = chain[i].value
    BY <1>1, <2>1, <2>3, LookupFacts
  <2>5. QED
    BY <1>3, <2>4 DEF c
<1>4. CASE key # chain[x].key /\ ~Holds(chain, key)
  <2>1. ~Holds(c, key)
    BY <1>1, <1>4 DEF Holds
  <2>2. QED
    BY <1>4, <2>1 DEF c, Lookup
<1>5. QED
  BY <1>2, <1>3, <1>4

------------------------------------------------------------------------------
(* What HGET answers is well typed.                                        *)
LEMMA GetType ==
  ASSUME TableOK, NEW key \in Key \cup {NULL}
  PROVE  kvs_hash_get(key) \in Value \cup {Lost, NULL}
<1>1. CASE key = NULL
  BY <1>1 DEF kvs_hash_get
<1>2. CASE key \in Key
  <2>1. Lookup(ChainOf(key), key) \in Value \cup {Lost, NULL}
    BY <1>2, ChainFacts, LookupFacts
  <2>2. QED
    BY <1>2, <2>1, ConstantAssumption DEF kvs_hash_get
<1>3. QED
  BY <1>1, <1>2

Replies == [cmd : Cmd, key : Key \cup {NULL}, res : Res]

(* A step keeps up and reply well typed.                                   *)
LEMMA ReplyStep ==
  ASSUME TableOK, up \in BOOLEAN, reply \in Replies, [Next]_vars
  PROVE  up' \in BOOLEAN /\ reply' \in Replies
<1>1. ASSUME NEW key \in Key \cup {NULL}, NEW cmd \in Cmd, NEW res \in Res, Answer(cmd, key, res)
      PROVE  up' \in BOOLEAN /\ reply' \in Replies
  BY <1>1 DEF Answer, Replies
<1>2. ASSUME NEW ret, NEW r \in {"exist", "no exist"}
      PROVE  ByRet(ret, r) \in Res
  BY DEF ByRet, Res
<1>3. CASE Dies
  BY <1>3 DEF Dies, Replies
<1>4. ASSUME NEW key \in Key \cup {NULL}, NEW value \in Value \cup {NULL}, HSET(key, value)
      PROVE  up' \in BOOLEAN /\ reply' \in Replies
  <2>1. CASE \E ret : Answer("SET", key, ByRet(ret, "exist"))
    BY <1>1, <1>2, <2>1 DEF Cmd
  <2>2. QED
    BY <1>3, <1>4, <2>1 DEF HSET
<1>5. ASSUME NEW key \in Key \cup {NULL}, NEW value \in Value \cup {NULL}, HMOD(key, value)
      PROVE  up' \in BOOLEAN /\ reply' \in Replies
  <2>1. CASE \E ret : Answer("MOD", key, ByRet(ret, "no exist"))
    BY <1>1, <1>2, <2>1 DEF Cmd
  <2>2. QED
    BY <1>3, <1>5, <2>1 DEF HMOD
<1>6. ASSUME NEW key \in Key \cup {NULL}, HDEL(key)
      PROVE  up' \in BOOLEAN /\ reply' \in Replies
  <2>1. CASE \E ret : Answer("DEL", key, ByRet(ret, "no exist"))
    BY <1>1, <1>2, <2>1 DEF Cmd
  <2>2. QED
    BY <1>3, <1>6, <2>1 DEF HDEL
<1>7. ASSUME NEW key \in Key \cup {NULL}, HGET(key)
      PROVE  up' \in BOOLEAN /\ reply' \in Replies
  <2>1. (IF kvs_hash_get(key) = NULL THEN "no exist" ELSE kvs_hash_get(key)) \in Res
    BY GetType DEF Res
  <2>2. QED
    BY <1>1, <1>7, <2>1 DEF HGET, Cmd
<1>8. ASSUME NEW key \in Key \cup {NULL}, HEXIST(key)
      PROVE  up' \in BOOLEAN /\ reply' \in Replies
  <2>1. (IF kvs_hash_exist(key) = 0 THEN "exist" ELSE "no exist") \in Res
    BY DEF Res
  <2>2. QED
    BY <1>1, <1>8, <2>1 DEF HEXIST, Cmd
<1>9. CASE Restart
  BY <1>9 DEF Restart, NoReply, Replies, Cmd, Res
<1>10. CASE UNCHANGED vars
  BY <1>10 DEF vars, Replies
<1>11. QED
  BY <1>4, <1>5, <1>6, <1>7, <1>8, <1>9, <1>10 DEF Next

(* The inductive invariant of the engine.                                  *)
IInv == TableOK /\ up \in BOOLEAN /\ reply \in Replies

(* The table of kvs_hash_create satisfies the invariant.                    *)
LEMMA InitIInv == Init => IInv
BY EmptyTable DEF Init, IInv, NoReply, Replies, Cmd, Res

(* Every command and a restart preserve the invariant.                      *)
LEMMA NextIInv == IInv /\ [Next]_vars => IInv'
BY TableStep, ReplyStep DEF IInv, Replies

(* The invariant of the engine, from which the theorems follow.             *)
LEMMA SpecIInv == Spec => []IInv
BY InitIInv, NextIInv, PTL DEF Spec

(* TypeOK is an invariant; in particular the counter that kvs_hash_del     *)
(* decrements never goes below zero.                                       *)
THEOREM TypeCorrect == Spec => []TypeOK
<1>1. IInv => TypeOK
  BY DEF IInv, TableOK, TypeOK, Replies
<1>2. QED
  BY <1>1, SpecIInv, PTL

(* The chains of kvs_hash.c never hold a key twice, hold a key only in the *)
(* slot that is searched for it, and hold count nodes altogether.          *)
THEOREM TableCorrect == Spec => []TableConsistent
<1>1. IInv => TableConsistent
  BY DEF IInv, TableOK, TableConsistent
<1>2. QED
  BY <1>1, SpecIInv, PTL

------------------------------------------------------------------------------
(* The refinement: what a change of the table is to the map of its values. *)

(* What a client can read under a key, from the chain of its slot.          *)
LEMMA StoredFacts ==
  ASSUME TableOK, NEW key \in Key
  PROVE  /\ stored[key] = kvs_hash_get(key)
         /\ stored[key] = Lookup(ChainOf(key), key)
         /\ stored[key] \in Value \cup {Lost, NULL}
         /\ Stored(key) <=> stored[key] # NULL
<1>1. key # NULL
  BY ConstantAssumption
<1>2. stored[key] = kvs_hash_get(key) /\ stored[key] = Lookup(ChainOf(key), key)
  BY <1>1 DEF stored, kvs_hash_get
<1>3. CASE Stored(key)
  BY <1>2, <1>3, ChainFacts, LookupFacts, ConstantAssumption DEF Stored
<1>4. CASE ~Stored(key)
  BY <1>2, <1>4, ChainFacts, LookupFacts DEF Stored
<1>5. QED
  BY <1>2, <1>3, <1>4

(* A step that changes the chain of one key's slot, in a way that changes  *)
(* only what is read for that key, writes one entry of the map.            *)
LEMMA OneEntry ==
  ASSUME NEW key \in Key, hash_idx(key) \in Slot, nodes \in [Slot -> Seq(Node)],
         NEW chain, nodes' = [nodes EXCEPT ![hash_idx(key)] = chain],
         NEW value,
         \A k \in Key : Lookup(chain, k) = IF k = key THEN value ELSE Lookup(ChainOf(key), k)
  PROVE  stored' = [stored EXCEPT ![key] = value]
<1>1. \A k \in Key : k # NULL /\ hash_idx(k) \in Slot
  BY ConstantAssumption, HashAssumption
<1>2. ASSUME NEW k \in Key
      PROVE  /\ stored'[k] = Lookup(nodes'[hash_idx(k)], k)
             /\ stored[k] = Lookup(nodes[hash_idx(k)], k)
  BY <1>1 DEF stored, kvs_hash_get, ChainOf
<1>3. ASSUME NEW k \in Key
      PROVE  stored'[k] = IF k = key THEN value ELSE stored[k]
  <2>1. CASE hash_idx(k) = hash_idx(key)
    BY <1>1, <1>2, <2>1 DEF ChainOf
  <2>2. CASE hash_idx(k) # hash_idx(key)
    BY <1>1, <1>2, <2>2
  <2>3. QED
    BY <2>1, <2>2
<1>4. stored = [k \in Key |-> stored[k]] /\ stored' = [k \in Key |-> stored'[k]]
  BY DEF stored
<1>5. QED
  BY <1>3, <1>4

(* A new head node gives its own key an entry and no other.                 *)
LEMMA SetEntry ==
  ASSUME TableOK, NEW key \in Key, NEW value \in Value, ~Stored(key),
         nodes' = [nodes EXCEPT ![hash_idx(key)] = <<_create_node(key, value)>> \o @],
         count' = count + 1
  PROVE  stored' = [stored EXCEPT ![key] = value]
<1> DEFINE n == _create_node(key, value)
           chain == <<n>> \o ChainOf(key)
<1>1. /\ hash_idx(key) \in Slot /\ ChainOf(key) \in Seq(Node)
      /\ Unique(ChainOf(key)) /\ nodes \in [Slot -> Seq(Node)]
  BY ChainFacts DEF TableOK
<1>2. n \in Node /\ n.key = key /\ n.value = value
  BY DEF _create_node, Node
<1>3. nodes' = [nodes EXCEPT ![hash_idx(key)] = chain]
  BY DEF ChainOf
<1>4. TableOK'
  BY SetKeepsTable
<1>5. nodes'[hash_idx(key)] = chain
  BY <1>1, <1>3
<1>6. Unique(chain)
  BY <1>1, <1>4, <1>5 DEF TableOK, NoDuplicates, Unique
<1> HIDE DEF n
<1>7. ~Holds(ChainOf(key), n.key)
  BY <1>2 DEF Stored
<1>8. \A k \in Key : Lookup(chain, k) = IF k = key THEN value ELSE Lookup(ChainOf(key), k)
  BY <1>1, <1>2, <1>6, <1>7, LookupCons
<1> HIDE DEF chain
<1>9. QED
  BY <1>1, <1>3, <1>8, OneEntry

(* Writing one node's value changes the entry of its key only.              *)
LEMMA ModEntry ==
  ASSUME TableOK, NEW key \in Key, Stored(key), NEW value \in Value \cup {Lost},
         nodes' = [nodes EXCEPT ![hash_idx(key)] = SetValue(@, IndexOf(nodes[hash_idx(key)], key), value)]
  PROVE  stored' = [stored EXCEPT ![key] = value]
<1> DEFINE x == IndexOf(ChainOf(key), key)
           chain == SetValue(ChainOf(key), x, value)
<1>1. /\ hash_idx(key) \in Slot /\ ChainOf(key) \in Seq(Node)
      /\ Unique(ChainOf(key)) /\ nodes \in [Slot -> Seq(Node)]
  BY ChainFacts DEF TableOK
<1>2. x \in 1 .. Len(ChainOf(key)) /\ ChainOf(key)[x].key = key
  BY <1>1, IndexOfFacts DEF Stored
<1>3. nodes' = [nodes EXCEPT ![hash_idx(key)] = chain]
  BY DEF ChainOf
<1> HIDE DEF x
<1>4. \A k \in Key : Lookup(chain, k) = IF k = key THEN value ELSE Lookup(ChainOf(key), k)
  BY <1>1, <1>2, LookupSetValue
<1> HIDE DEF chain
<1>5. QED
  BY <1>1, <1>3, <1>4, OneEntry, ZenonT(60)

(* Unlinking one node removes the entry of its key only.                    *)
LEMMA DelEntry ==
  ASSUME TableOK, NEW key \in Key, Stored(key),
         nodes' = [nodes EXCEPT ![hash_idx(key)] = Without(@, IndexOf(nodes[hash_idx(key)], key))],
         count' = count - 1
  PROVE  stored' = [stored EXCEPT ![key] = NULL]
<1> DEFINE x == IndexOf(ChainOf(key), key)
           chain == Without(ChainOf(key), x)
<1>1. /\ hash_idx(key) \in Slot /\ ChainOf(key) \in Seq(Node)
      /\ Unique(ChainOf(key)) /\ nodes \in [Slot -> Seq(Node)]
  BY ChainFacts DEF TableOK
<1>2. x \in 1 .. Len(ChainOf(key)) /\ ChainOf(key)[x].key = key
  BY <1>1, IndexOfFacts DEF Stored
<1>3. nodes' = [nodes EXCEPT ![hash_idx(key)] = chain]
  BY DEF ChainOf
<1>4. TableOK'
  BY DelKeepsTable
<1>5. nodes'[hash_idx(key)] = chain
  BY <1>1, <1>3
<1>6. Unique(chain)
  BY <1>1, <1>4, <1>5 DEF TableOK, NoDuplicates, Unique
<1> HIDE DEF x
<1>7. \A k \in Key : Lookup(chain, k) = IF k = key THEN NULL ELSE Lookup(ChainOf(key), k)
  BY <1>1, <1>2, <1>6, LookupWithout
<1> HIDE DEF chain
<1>8. QED
  BY <1>1, <1>3, <1>7, OneEntry

(* Steps that leave the table alone leave the map alone.                   *)
LEMMA SameMap == UNCHANGED nodes => UNCHANGED stored
BY DEF stored, kvs_hash_get, ChainOf

(* The table of kvs_hash_create is the empty map.                           *)
LEMMA EmptyMap == nodes = kvs_hash_create => stored = [k \in Key |-> NULL]
<1> SUFFICES ASSUME nodes = kvs_hash_create PROVE stored = [k \in Key |-> NULL]
  OBVIOUS
<1>1. ASSUME NEW key \in Key
      PROVE  kvs_hash_get(key) = NULL
  <2>1. ChainOf(key) = <<>>
    BY <1>1, HashAssumption DEF ChainOf, kvs_hash_create
  <2>2. ~Holds(<<>>, key)
    BY DEF Holds
  <2>3. QED
    BY <2>1, <2>2 DEF kvs_hash_get, Lookup
<1>2. QED
  BY <1>1 DEF stored

(* A death inside the engine is a crash of the abstract map.                *)
LEMMA DiesIsCrash == up /\ Dies => Map!MapCrash
BY SameMap DEF Dies, Map!MapCrash

(* HSET is a SET of the abstract map, malformed, or a crash.                *)
LEMMA HSETRefines ==
  ASSUME TableOK, NEW key \in Key \cup {NULL}, NEW value \in Value \cup {NULL}, HSET(key, value)
  PROVE  Map!MapNext
<1>1. CASE kvs_hash_set_dies(key, value) /\ Dies
  BY <1>1, DiesIsCrash DEF HSET, Map!MapNext
<1>2. ASSUME NEW ret \in {-1, 0, 1}, kvs_hash_set(key, value, ret),
             Answer("SET", key, ByRet(ret, "exist"))
      PROVE  Map!MapNext
  <2>1. CASE key = NULL \/ value = NULL
    <3>1. ret = -1 /\ UNCHANGED stored
      BY <1>2, <2>1, SameMap DEF kvs_hash_set
    <3>2. ByRet(-1, "exist") = "error"
      BY DEF ByRet
    <3>3. Map!MapMalformed("SET")
      BY <1>2, <3>1, <3>2 DEF HSET, Map!MapMalformed, Answer, Map!Answer
    <3>4. QED
      BY <3>3 DEF Map!MapNext
  <2>2. CASE key # NULL /\ value # NULL /\ Stored(key)
    <3>1. ret = 1 /\ UNCHANGED stored /\ stored[key] # NULL /\ ByRet(ret, "exist") = "exist"
      BY <1>2, <2>2, SameMap, StoredFacts DEF kvs_hash_set, ByRet
    <3>2. Map!MapSet(key, value)
      BY <1>2, <3>1 DEF HSET, Map!MapSet, Answer, Map!Answer
    <3>3. QED
      BY <2>2, <3>2 DEF Map!MapNext
  <2>3. CASE key # NULL /\ value # NULL /\ ~Stored(key)
    <3>1. /\ ret = 0 /\ ByRet(ret, "exist") = "ok" /\ stored[key] = NULL
          /\ stored' = [stored EXCEPT ![key] = value]
      BY <1>2, <2>3, SetEntry, StoredFacts DEF kvs_hash_set, ByRet
    <3>2. Map!MapSet(key, value)
      BY <1>2, <3>1 DEF HSET, Map!MapSet, Answer, Map!Answer
    <3>3. QED
      BY <2>3, <3>2 DEF Map!MapNext
  <2>4. QED
    BY <2>1, <2>2, <2>3
<1>3. QED
  BY <1>1, <1>2 DEF HSET

(* HMOD is a MOD of the abstract map, malformed, or a crash.                *)
LEMMA HMODRefines ==
  ASSUME TableOK, NEW key \in Key \cup {NULL}, NEW value \in Value \cup {NULL}, HMOD(key, value)
  PROVE  Map!MapNext
<1>1. CASE kvs_hash_mod_dies(key, value) /\ Dies
  BY <1>1, DiesIsCrash DEF HMOD, Map!MapNext
<1>2. ASSUME NEW ret \in {-2, -1, 0, 1}, kvs_hash_mod(key, value, ret),
             Answer("MOD", key, ByRet(ret, "no exist"))
      PROVE  Map!MapNext
  <2>1. CASE key = NULL
    <3>1. ret = -1 /\ UNCHANGED stored
      BY <1>2, <2>1, SameMap DEF kvs_hash_mod
    <3>2. ByRet(-1, "no exist") = "error"
      BY DEF ByRet
    <3>3. Map!MapMalformed("MOD")
      BY <1>2, <3>1, <3>2 DEF HMOD, Map!MapMalformed, Answer, Map!Answer
    <3>4. QED
      BY <3>3 DEF Map!MapNext
  <2>2. CASE key # NULL /\ ~Stored(key)
    <3>1. ret = 1 /\ UNCHANGED stored /\ stored[key] = NULL /\ ByRet(ret, "no exist") = "no exist"
      <4>1. ret = 1 /\ UNCHANGED nodes
        BY <1>2, <2>2 DEF kvs_hash_mod
      <4>2. ByRet(1, "no exist") = "no exist"
        BY DEF ByRet
      <4>3. QED
        BY <2>2, <4>1, <4>2, SameMap, StoredFacts
    <3>2. CASE value = NULL
      <4>1. Map!MapMalformed("MOD")
        BY <1>2, <3>1 DEF HMOD, Map!MapMalformed, Answer, Map!Answer
      <4>2. QED
        BY <4>1 DEF Map!MapNext
    <3>3. CASE value # NULL
      <4>1. Map!MapMod(key, value)
        BY <1>2, <3>1 DEF HMOD, Map!MapMod, Answer, Map!Answer
      <4>2. QED
        BY <2>2, <3>3, <4>1 DEF Map!MapNext
    <3>4. QED
      BY <3>2, <3>3
  <2>3. CASE key # NULL /\ Stored(key)
    <3>1. /\ value # NULL /\ stored[key] # NULL
          /\ \/ ret = 0 /\ stored' = [stored EXCEPT ![key] = value]
             \/ ret = -2 /\ stored' = [stored EXCEPT ![key] = Lost]
      BY <1>2, <2>3, ModEntry, StoredFacts DEF kvs_hash_mod
    <3>2. ByRet(0, "no exist") = "ok" /\ ByRet(-2, "no exist") = "error"
      BY DEF ByRet
    <3>3. Map!MapMod(key, value)
      BY <1>2, <3>1, <3>2 DEF HMOD, Map!MapMod, Answer, Map!Answer
    <3>4. QED
      BY <2>3, <3>1, <3>3 DEF Map!MapNext
  <2>4. QED
    BY <2>1, <2>2, <2>3
<1>3. QED
  BY <1>1, <1>2 DEF HMOD

(* HDEL is a DEL of the abstract map, malformed, or a crash.                *)
LEMMA HDELRefines ==
  ASSUME TableOK, NEW key \in Key \cup {NULL}, HDEL(key)
  PROVE  Map!MapNext
<1>1. CASE kvs_hash_del_dies(key) /\ Dies
  BY <1>1, DiesIsCrash DEF HDEL, Map!MapNext
<1>2. ASSUME NEW ret \in {-2, -1, 0}, kvs_hash_del(key, ret),
             Answer("DEL", key, ByRet(ret, "no exist"))
      PROVE  Map!MapNext
  <2>1. ByRet(0, "no exist") = "ok" /\ ByRet(-1, "no exist") = "error" /\ ByRet(-2, "no exist") = "error"
    BY DEF ByRet
  <2>2. CASE key = NULL
    <3>1. ret = -2 /\ UNCHANGED stored
      BY <1>2, <2>2, SameMap DEF kvs_hash_del
    <3>2. Map!MapMalformed("DEL")
      BY <1>2, <2>1, <3>1 DEF HDEL, Map!MapMalformed, Answer, Map!Answer
    <3>3. QED
      BY <3>2 DEF Map!MapNext
  <2>3. CASE key # NULL /\ ~Stored(key)
    <3>1. ret = -1 /\ UNCHANGED stored /\ stored[key] = NULL
      BY <1>2, <2>3, SameMap, StoredFacts DEF kvs_hash_del
    <3>2. Map!MapDel(key)
      BY <1>2, <2>1, <3>1 DEF HDEL, Map!MapDel, Answer, Map!Answer
    <3>3. QED
      BY <2>3, <3>2 DEF Map!MapNext
  <2>4. CASE key # NULL /\ Stored(key)
    <3>1. ret = 0 /\ stored[key] # NULL /\ stored' = [stored EXCEPT ![key] = NULL]
      BY <1>2, <2>4, DelEntry, StoredFacts DEF kvs_hash_del
    <3>2. Map!MapDel(key)
      BY <1>2, <2>1, <3>1 DEF HDEL, Map!MapDel, Answer, Map!Answer
    <3>3. QED
      BY <2>4, <3>2 DEF Map!MapNext
  <2>5. QED
    BY <2>2, <2>3, <2>4
<1>3. QED
  BY <1>1, <1>2 DEF HDEL

(* HGET is a GET of the abstract map, or malformed.                         *)
LEMMA HGETRefines ==
  ASSUME TableOK, NEW key \in Key \cup {NULL}, HGET(key)
  PROVE  Map!MapNext
<1>1. UNCHANGED stored
  BY SameMap DEF HGET
<1>2. CASE key = NULL
  <2>1. Map!MapMalformed("GET")
    BY <1>1, <1>2 DEF HGET, Map!MapMalformed, Answer, Map!Answer, kvs_hash_get
  <2>2. QED
    BY <2>1 DEF Map!MapNext
<1>3. CASE key \in Key
  <2>1. kvs_hash_get(key) = stored[key] /\ stored[key] \in Value \cup {Lost, NULL}
    BY <1>3, StoredFacts
  <2>2. Map!MapGet(key)
    BY <1>1, <2>1, ConstantAssumption DEF HGET, Map!MapGet, Answer, Map!Answer
  <2>3. QED
    BY <1>3, <2>2 DEF Map!MapNext
<1>4. QED
  BY <1>2, <1>3

(* HEXIST is an EXIST of the abstract map, or malformed.                    *)
LEMMA HEXISTRefines ==
  ASSUME TableOK, NEW key \in Key \cup {NULL}, HEXIST(key)
  PROVE  Map!MapNext
<1>1. UNCHANGED stored
  BY SameMap DEF HEXIST
<1>2. CASE key = NULL
  <2>1. ~(kvs_hash_exist(key) = 0)
    BY <1>2 DEF kvs_hash_exist, kvs_hash_get
  <2>2. up /\ UNCHANGED up /\ reply' = [cmd |-> "EXIST", key |-> key, res |-> "no exist"]
    BY <2>1 DEF HEXIST, Answer
  <2>3. Map!MapMalformed("EXIST")
    BY <1>1, <2>2 DEF Map!MapMalformed, Map!Answer
  <2>4. QED
    BY <2>3 DEF Map!MapNext
<1>3. CASE key \in Key
  <2>1. /\ stored[key] \in Value \cup {Lost, NULL}
        /\ kvs_hash_exist(key) = 0 <=> ~(stored[key] = NULL)
    BY <1>3, StoredFacts DEF kvs_hash_exist
  <2>2. /\ up /\ UNCHANGED up
        /\ reply' = [cmd |-> "EXIST", key |-> key,
                     res |-> IF stored[key] = NULL THEN "no exist" ELSE "exist"]
    BY <2>1 DEF HEXIST, Answer
  <2>3. Map!MapExist(key)
    BY <1>1, <2>1, <2>2, ConstantAssumption DEF Map!MapExist, Map!Answer
  <2>4. QED
    BY <1>3, <2>3 DEF Map!MapNext
<1>4. QED
  BY <1>2, <1>3

(* The hash engine implements the key-value map: for every hash function   *)
(* into the table, every interleaving of commands and every failing        *)
(* allocation, a command answers from and changes the entry of its own key *)
(* only.                                                                   *)
THEOREM Refinement == Spec => ImplementsKvMap
<1>1. Init => Map!MapInit
  BY EmptyMap DEF Init, Map!MapInit, NoReply, Map!NoReply
<1>2. IInv /\ [Next]_vars => [Map!MapNext]_(Map!mapVars)
  <2> SUFFICES ASSUME IInv, [Next]_vars
               PROVE  [Map!MapNext]_(Map!mapVars)
    OBVIOUS
  <2>1. CASE UNCHANGED vars
    BY <2>1, SameMap DEF vars, Map!mapVars
  <2>2. CASE Restart
    <3>1. (nodes = kvs_hash_create => stored = [k \in Key |-> NULL])'
      BY EmptyMap, PTL
    <3>2. stored' = [k \in Key |-> NULL]
      BY <2>2, <3>1 DEF Restart, kvs_hash_create
    <3>3. Map!MapRestart
      BY <2>2, <3>2 DEF Restart, Map!MapRestart, NoReply, Map!NoReply
    <3>4. QED
      BY <3>3 DEF Map!MapNext
  <2>3. QED
    BY <2>1, <2>2, HSETRefines, HMODRefines, HDELRefines, HGETRefines, HEXISTRefines DEF Next, IInv
<1>3. QED
  BY <1>1, <1>2, SpecIInv, PTL DEF Spec, ImplementsKvMap, Map!MapSpec
==============================================================================
