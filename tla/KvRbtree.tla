------------------------------ MODULE KvRbtree -------------------------------
(***************************************************************************)
(* The red-black tree engine of the kvstore (12_1/kvs_rbtree.c) behind the *)
(* R* commands of kvs_filter_protocol (12_1/kvstore.c).  The tree is kept  *)
(* as the code keeps it: nodes with child and parent pointers and one      *)
(* sentinel, nil.  The mirrored halves of the C functions are written once *)
(* for a side d and its Other(d).                                          *)
(***************************************************************************)
EXTENDS Integers, FiniteSets

CONSTANTS
  Key,             \* integers: keys under the order of strcmp
  Value,
  NULL,            \* a null pointer: a missing argument, no value
  Lost,            \* a failed MOD, in the abstract map
  Workload         \* bound: the keys and values clients use, whether kvs_malloc may fail

ASSUME ConstantAssumption ==
  /\ Key \subseteq Int /\ IsFiniteSet(Key)
  /\ NULL \notin Key \cup Value
  /\ Lost \notin Value \cup {NULL}
  /\ \A w \in Workload : w.keys \subseteq Key /\ w.values \subseteq Value /\ w.fails \in BOOLEAN

VARIABLES
  work,   \* the workload of this behaviour
  tree,   \* [root, child, parent, color, key, value]
  up,     \* the process runs
  reply   \* the last request and its answer

vars == <<work, tree, up, reply>>

nil == 0
Node == 1 .. Cardinality(Key)   \* a key has at most one node
Pointer == Node \cup {nil}
Side == {"left", "right"}
Other(d) == IF d = "left" THEN "right" ELSE "left"

Cmd == {"none", "SET", "GET", "DEL", "MOD", "EXIST"}
Res == {"none", "ok", "exist", "no exist", "error"} \cup Value

(* Type invariant.  The code behaviour behind it: only the sentinel's      *)
(* parent, which kvs_rbtree_create leaves as malloc returned it, is no     *)
(* node; no rotation or deletion stores it anywhere else.                  *)
TypeOK ==
  /\ tree \in [root : Pointer, child : [Side -> [Node -> Pointer]],
               parent : [Pointer -> Pointer \cup {NULL}], color : [Pointer -> {"RED", "BLACK"}],
               key : [Node -> Key \cup {NULL}], value : [Node -> Value \cup {NULL}]]
  /\ \A n \in Node : tree.parent[n] # NULL
  /\ work \in Workload /\ up \in BOOLEAN
  /\ reply \in [cmd : Cmd, key : Key \cup {NULL}, res : Res]

------------------------------------------------------------------------------
(* kvs_rbtree_create: only the sentinel's color is written.  Its other     *)
(* fields are the zeros of a heap nothing was freed to yet.                *)
kvs_rbtree_create ==
  [root   |-> nil,
   child  |-> [d \in Side |-> [n \in Node |-> nil]],
   parent |-> [p \in Pointer |-> IF p = nil THEN NULL ELSE nil],
   color  |-> [p \in Pointer |-> "BLACK"],
   key    |-> [n \in Node |-> NULL],
   value  |-> [n \in Node |-> NULL]]

(* Puts y where x hangs, below x's parent or as the root.                  *)
Hang(T, x, y) ==
  LET p == T.parent[x]
  IN IF p = nil THEN [T EXCEPT !.root = y]
     ELSE IF x = T.child["left"][p] THEN [T EXCEPT !.child["left"][p] = y]
     ELSE [T EXCEPT !.child["right"][p] = y]

(* rbtree_left_rotate (d = "left") and rbtree_right_rotate (d = "right").  *)
rbtree_rotate(T, d, x) ==
  LET y  == T.child[Other(d)][x]
      b  == T.child[d][y]
      T1 == [T EXCEPT !.child[Other(d)][x] = b]
      T2 == IF b # nil THEN [T1 EXCEPT !.parent[b] = x] ELSE T1
      T3 == Hang([T2 EXCEPT !.parent[y] = T.parent[x]], x, y)
  IN [T3 EXCEPT !.child[d][y] = x, !.parent[x] = y]

(* Mutant of rbtree_insert_fixup: the red uncle is not looked at.          *)
RECURSIVE rbtree_insert_fixup_nouncle(_, _)
rbtree_insert_fixup_nouncle(T, z) ==
  LET p == T.parent[z]
  IN IF T.color[p] # "RED" THEN [T EXCEPT !.color[T.root] = "BLACK"]
     ELSE LET g  == T.parent[p]
              d  == IF p = T.child["left"][g] THEN "left" ELSE "right"
              bent == z = T.child[Other(d)][p]
              T1 == IF bent THEN rbtree_rotate(T, d, p) ELSE T
              z1 == IF bent THEN p ELSE z
              T2 == [T1 EXCEPT !.color[T1.parent[z1]] = "BLACK", !.color[g] = "RED"]
          IN rbtree_insert_fixup_nouncle(rbtree_rotate(T2, Other(d), g), z1)

RECURSIVE rbtree_insert_fixup(_, _)
rbtree_insert_fixup(T, z) ==
  LET p == T.parent[z]
  IN IF T.color[p] # "RED" THEN [T EXCEPT !.color[T.root] = "BLACK"]
     ELSE LET g == T.parent[p]
              d == IF p = T.child["left"][g] THEN "left" ELSE "right"
              y == T.child[Other(d)][g]
          IN IF T.color[y] = "RED"
             THEN rbtree_insert_fixup(
                    [T EXCEPT !.color[p] = "BLACK", !.color[y] = "BLACK", !.color[g] = "RED"], g)
             ELSE LET bent == z = T.child[Other(d)][p]
                      T1   == IF bent THEN rbtree_rotate(T, d, p) ELSE T
                      z1   == IF bent THEN p ELSE z
                      T2   == [T1 EXCEPT !.color[T1.parent[z1]] = "BLACK", !.color[g] = "RED"]
                  IN rbtree_insert_fixup(rbtree_rotate(T2, Other(d), g), z1)

(* The walk of rbtree_insert and rbtree_search: the last node visited, and *)
(* the node of the key or nil.                                             *)
RECURSIVE Walk(_, _, _, _)
Walk(T, key, y, x) ==
  IF x = nil \/ T.key[x] = key THEN <<y, x>>
  ELSE Walk(T, key, x, T.child[IF key < T.key[x] THEN "left" ELSE "right"][x])

rbtree_search(T, key) == Walk(T, key, nil, T.root)[2]

(* z is not in the tree yet; its key and value are set.                    *)
rbtree_insert(T, z) ==
  LET y  == Walk(T, T.key[z], nil, T.root)[1]
      T1 == [T EXCEPT !.parent[z] = y, !.color[z] = "RED",
                      !.child["left"][z] = nil, !.child["right"][z] = nil]
      T2 == IF y = nil THEN [T1 EXCEPT !.root = z]
            ELSE IF T.key[z] < T.key[y] THEN [T1 EXCEPT !.child["left"][y] = z]
            ELSE [T1 EXCEPT !.child["right"][y] = z]
  IN rbtree_insert_fixup(T2, z)

(* The repair after a black node was unlinked above x.  NULL: the loop     *)
(* follows the sentinel's parent, a null pointer.                          *)
RECURSIVE rbtree_delete_fixup(_, _)
rbtree_delete_fixup(T, x) ==
  LET p == T.parent[x]
  IN IF x = T.root \/ T.color[x] = "RED" THEN [T EXCEPT !.color[x] = "BLACK"]
     ELSE IF p = NULL THEN NULL
     ELSE LET d  == IF x = T.child["left"][p] THEN "left" ELSE "right"
              w0 == T.child[Other(d)][p]
              T1 == IF T.color[w0] = "RED"
                    THEN rbtree_rotate([T EXCEPT !.color[w0] = "BLACK", !.color[p] = "RED"], d, p)
                    ELSE T
              w1 == T1.child[Other(d)][p]
              near == T1.child[d][w1]
              far  == T1.child[Other(d)][w1]
          IN IF T1.color[near] = "BLACK" /\ T1.color[far] = "BLACK"
             THEN rbtree_delete_fixup([T1 EXCEPT !.color[w1] = "RED"], p)
             ELSE LET T2 == IF T1.color[far] = "BLACK"
                            THEN rbtree_rotate([T1 EXCEPT !.color[near] = "BLACK",
                                                          !.color[w1] = "RED"], Other(d), w1)
                            ELSE T1
                      w2 == T2.child[Other(d)][p]
                      T3 == [T2 EXCEPT !.color[w2] = T2.color[p], !.color[p] = "BLACK",
                                       !.color[T2.child[Other(d)][w2]] = "BLACK"]
                      T4 == rbtree_rotate(T3, d, p)
                  IN rbtree_delete_fixup(T4, T4.root)

RECURSIVE rbtree_mini(_, _)
rbtree_mini(T, x) == IF T.child["left"][x] = nil THEN x ELSE rbtree_mini(T, T.child["left"][x])

(* kvs_free of a node: it can be allocated again.                          *)
kvs_free(T, n) ==
  [T EXCEPT !.child["left"][n] = nil, !.child["right"][n] = nil, !.parent[n] = nil,
            !.color[n] = "BLACK", !.key[n] = NULL, !.value[n] = NULL]

(* Mutant of rbtree_delete: the key moves up to z, its value does not.     *)
rbtree_delete_keyonly(T, z) ==
  LET two == T.child["left"][z] # nil /\ T.child["right"][z] # nil
      y   == IF two THEN rbtree_mini(T, T.child["right"][z]) ELSE z
      x   == IF T.child["left"][y] # nil THEN T.child["left"][y] ELSE T.child["right"][y]
      T1  == Hang(IF x # nil THEN [T EXCEPT !.parent[x] = T.parent[y]] ELSE T, y, x)
      T2  == IF y # z THEN [T1 EXCEPT !.key[z] = T.key[y]] ELSE T1
      T3  == IF T.color[y] = "BLACK" THEN rbtree_delete_fixup(T2, x) ELSE T2
  IN IF T3 = NULL THEN NULL ELSE kvs_free(T3, y)

(* rbtree_delete and the kvs_free of the node it returns: y is unlinked,   *)
(* after its key and value have moved into z when y is z's successor.      *)
rbtree_delete(T, z) ==
  LET two == T.child["left"][z] # nil /\ T.child["right"][z] # nil
      y   == IF two THEN rbtree_mini(T, T.child["right"][z]) ELSE z
      x   == IF T.child["left"][y] # nil THEN T.child["left"][y] ELSE T.child["right"][y]
      T1  == Hang(IF x # nil THEN [T EXCEPT !.parent[x] = T.parent[y]] ELSE T, y, x)
      T2  == IF y # z THEN [T1 EXCEPT !.key[z] = T.key[y], !.value[z] = T.value[y]] ELSE T1
      T3  == IF T.color[y] = "BLACK" THEN rbtree_delete_fixup(T2, x) ELSE T2
  IN IF T3 = NULL THEN NULL ELSE kvs_free(T3, y)

------------------------------------------------------------------------------
NodeOf(key) == rbtree_search(tree, key)

Stored(key) == NodeOf(key) # nil

kvs_malloc == CHOOSE n \in Node : tree.key[n] = NULL

kvs_rbtree_set(key, value, ret) ==
  \/ /\ key = NULL \/ value = NULL
     /\ ret = -1
     /\ UNCHANGED tree
  \/ /\ key # NULL /\ value # NULL
     /\ Stored(key)
     /\ ret = 1
     /\ UNCHANGED tree
  \/ /\ key # NULL /\ value # NULL
     /\ ~Stored(key)
     /\ work.fails
     /\ ret = -2
     /\ UNCHANGED tree
  \/ /\ key # NULL /\ value # NULL
     /\ ~Stored(key)
     /\ ret = 0
     /\ LET z == kvs_malloc
        IN tree' = rbtree_insert([tree EXCEPT !.key[z] = key, !.value[z] = value], z)

(* The node itself cannot be allocated: its null pointer is written to.    *)
kvs_rbtree_set_dies(key, value) ==
  /\ work.fails
  /\ key # NULL /\ value # NULL
  /\ ~Stored(key)

kvs_rbtree_get(key) ==
  IF key = NULL \/ ~Stored(key) THEN NULL ELSE tree.value[NodeOf(key)]

kvs_rbtree_exist(key) ==
  IF key = NULL THEN -1 ELSE IF Stored(key) THEN 0 ELSE 1

kvs_rbtree_del(key, ret) ==
  \/ /\ key = NULL
     /\ ret = -1
     /\ UNCHANGED tree
  \/ /\ key # NULL
     /\ ~Stored(key)
     /\ ret = 1
     /\ UNCHANGED tree
  \/ /\ key # NULL
     /\ Stored(key)
     /\ ret = 0
     /\ rbtree_delete(tree, NodeOf(key)) # NULL
     /\ tree' = rbtree_delete(tree, NodeOf(key))

kvs_rbtree_del_dies(key) ==
  /\ key # NULL
  /\ Stored(key)
  /\ rbtree_delete(tree, NodeOf(key)) = NULL

(* A MOD that cannot allocate leaves the node with a null value.           *)
kvs_rbtree_mod(key, value, ret) ==
  \/ /\ key = NULL \/ value = NULL
     /\ ret = -1
     /\ UNCHANGED tree
  \/ /\ key # NULL /\ value # NULL
     /\ ~Stored(key)
     /\ ret = 1
     /\ UNCHANGED tree
  \/ /\ key # NULL /\ value # NULL
     /\ Stored(key)
     /\ \/ ret = 0 /\ tree' = [tree EXCEPT !.value[NodeOf(key)] = value]
        \/ work.fails /\ ret = -2 /\ tree' = [tree EXCEPT !.value[NodeOf(key)] = NULL]

------------------------------------------------------------------------------
(* kvs_filter_protocol: the answer for a returned value, and one action    *)
(* for each of its cases.                                                  *)
Answer(cmd, key, res) ==
  /\ reply' = [cmd |-> cmd, key |-> key, res |-> res]
  /\ UNCHANGED up

(* SIGSEGV inside the engine: no answer.                                   *)
Dies == up' = FALSE /\ UNCHANGED <<tree, reply>>

ByRet(ret, positive) == IF ret < 0 THEN "error" ELSE IF ret = 0 THEN "ok" ELSE positive

RSET(key, value) ==
  /\ up
  /\ \/ \E ret \in {-2, -1, 0, 1} :
          /\ kvs_rbtree_set(key, value, ret)
          /\ Answer("SET", key, ByRet(ret, "exist"))
     \/ kvs_rbtree_set_dies(key, value) /\ Dies

RGET(key) ==
  /\ up
  /\ Answer("GET", key, IF kvs_rbtree_get(key) = NULL THEN "no exist" ELSE kvs_rbtree_get(key))
  /\ UNCHANGED tree

RDEL(key) ==
  /\ up
  /\ \/ \E ret \in {-1, 0, 1} :
          /\ kvs_rbtree_del(key, ret)
          /\ Answer("DEL", key, ByRet(ret, "no exist"))
     \/ kvs_rbtree_del_dies(key) /\ Dies

RMOD(key, value) ==
  /\ up
  /\ \E ret \in {-2, -1, 0, 1} :
       /\ kvs_rbtree_mod(key, value, ret)
       /\ Answer("MOD", key, ByRet(ret, "no exist"))

REXIST(key) ==
  /\ up
  /\ Answer("EXIST", key, IF kvs_rbtree_exist(key) = 0 THEN "exist" ELSE "no exist")
  /\ UNCHANGED tree

NoReply == [cmd |-> "none", key |-> NULL, res |-> "none"]

(* main: init_kvengine builds an empty tree before the first request.      *)
Init ==
  /\ work \in Workload
  /\ tree = kvs_rbtree_create
  /\ up = TRUE
  /\ reply = NoReply

(* The server is started again after it died; nothing was persisted.       *)
Restart ==
  /\ ~up
  /\ tree' = kvs_rbtree_create
  /\ up' = TRUE
  /\ reply' = NoReply

Next ==
  /\ \/ \E key \in work.keys \cup {NULL}, value \in work.values \cup {NULL} :
          RSET(key, value) \/ RMOD(key, value)
     \/ \E key \in work.keys \cup {NULL} : RGET(key) \/ RDEL(key) \/ REXIST(key)
     \/ Restart
  /\ UNCHANGED work

Spec == Init /\ [][Next]_vars

------------------------------------------------------------------------------
RECURSIVE NodesBelow(_)
NodesBelow(p) ==
  IF p = nil THEN {}
  ELSE {p} \cup NodesBelow(tree.child["left"][p]) \cup NodesBelow(tree.child["right"][p])

(* Every allocated node is in the tree, and the parent pointers, which the *)
(* rotations and the repair climb, invert the child pointers.              *)
PointersAgree ==
  /\ NodesBelow(tree.root) = {n \in Node : tree.key[n] # NULL}
  /\ tree.root # nil => tree.parent[tree.root] = nil
  /\ \A n \in NodesBelow(tree.root), d \in Side :
       tree.child[d][n] # nil => tree.parent[tree.child[d][n]] = n

(* Keys are in search order below every node, so the walk of rbtree_search *)
(* finds each of them after any number of rotations.                       *)
SearchOrder ==
  \A n \in NodesBelow(tree.root) :
    /\ \A m \in NodesBelow(tree.child["left"][n]) : tree.key[m] < tree.key[n]
    /\ \A m \in NodesBelow(tree.child["right"][n]) : tree.key[m] > tree.key[n]

RECURSIVE BlackHeights(_)
BlackHeights(p) ==
  IF p = nil THEN {0}
  ELSE {h + (IF tree.color[p] = "BLACK" THEN 1 ELSE 0) :
          h \in BlackHeights(tree.child["left"][p]) \cup BlackHeights(tree.child["right"][p])}

(* The balance that rbtree_insert_fixup and rbtree_delete_fixup maintain:  *)
(* a black root, no red child of a red node, and as many black nodes on    *)
(* every way down.                                                         *)
RedBlack ==
  /\ tree.color[tree.root] = "BLACK" /\ tree.color[nil] = "BLACK"
  /\ \A n \in NodesBelow(tree.root), d \in Side :
       tree.color[n] = "RED" => tree.color[tree.child[d][n]] = "BLACK"
  /\ Cardinality(BlackHeights(tree.root)) = 1

(* The tree is a red-black tree after every request, however rotations and *)
(* repairs cascade, until the repair of a removed black leaf kills the     *)
(* server.                                                                 *)
WellFormed == TypeOK /\ PointersAgree /\ SearchOrder /\ RedBlack

(* The map a client sees.  A node whose value a failed MOD took away is    *)
(* still found by EXIST and not by GET.                                    *)
stored ==
  [key \in Key |->
     IF ~Stored(key) THEN NULL
     ELSE IF tree.value[NodeOf(key)] = NULL THEN Lost ELSE tree.value[NodeOf(key)]]

Map == INSTANCE KvMap WITH
  map <- stored,
  DelMissing <- "no exist"

(* The engine implements the map of KvMap: while the tree turns nodes over *)
(* and moves keys between them, a command changes the entry of its own key *)
(* only and answers what that entry says.                                  *)
ImplementsKvMap == Map!MapSpec
==============================================================================
