------------------------------ MODULE MCKvRbtree -----------------------------
(* The red-black tree engine over integer keys: deep trees of nine keys,   *)
(* and up to five keys with two values and allocations that fail.          *)
EXTENDS KvRbtree, TLC

CONSTANTS v1, v2

MCWorkload ==
  { [keys |-> Key, values |-> {v1}, fails |-> FALSE],
    [keys |-> 1 .. 5, values |-> Value, fails |-> TRUE] }

(* The tree up to the names of its nodes, each told by its key, without    *)
(* the last answer: neither decides what any step does to the tree or      *)
(* answers.                                                                *)
KeyOf(p) == IF p \in Node THEN tree.key[p] ELSE NULL

Shape ==
  <<work, KeyOf(tree.root), up,
    {[key |-> tree.key[n], value |-> tree.value[n], color |-> tree.color[n], parent |-> KeyOf(tree.parent[n]),
      left |-> KeyOf(tree.child["left"][n]), right |-> KeyOf(tree.child["right"][n])] :
       n \in {m \in Node : tree.key[m] # NULL}}>>
==============================================================================
