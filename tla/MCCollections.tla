--------------------------- MODULE MCCollections ----------------------------
(* Collections with two objects, one foreach, an array of four places, and  *)
(* a hash with four names, of which two share a chain, other two once the   *)
(* table has grown.                                                         *)
EXTENDS Collections, TLC

CONSTANTS k1, k2, k3, k4

Hashes == (k1 :> 0) @@ (k2 :> 5) @@ (k3 :> 6) @@ (k4 :> 10)

(* Nothing tells one object or one address from another.                    *)
Alike == Permutations(Value) \cup Permutations(Slot)

=============================================================================
