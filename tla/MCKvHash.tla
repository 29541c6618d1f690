------------------------------ MODULE MCKvHash -------------------------------
(* The hash engine with two slots, three keys of one slot and one of the   *)
(* other.                                                                  *)
EXTENDS KvHash, TLC

(* <<1, 2>> and <<2, 1>> are anagrams, which the character sum cannot tell  *)
(* apart, <<3>> has the same sum, and <<2>> another slot.                   *)
MCKey == {<<1, 2>>, <<2, 1>>, <<3>>, <<2>>}

(* Values are only copied and compared.                                     *)
MCSymmetry == Permutations(Value)
==============================================================================
