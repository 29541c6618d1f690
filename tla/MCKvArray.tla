------------------------------ MODULE MCKvArray ------------------------------
(* The array engine with a table of three slots and as many keys.          *)
EXTENDS KvArray, TLC

(* Keys and values are only copied and compared.                           *)
MCSymmetry == Permutations(Key) \cup Permutations(Value)
==============================================================================
