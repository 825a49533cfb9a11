---------------------------- MODULE Collections -----------------------------
(***************************************************************************)
(* Arrays and hashes together: a behaviour is one of ObjectArray or one of *)
(* ObjectHash.  Neither class of collections knows of the other.           *)
(***************************************************************************)
EXTENDS ObjectArray, ObjectHash

ASSUME HashesAssumption == HashAssumption

VARIABLE which

CollectionsInit == which \in {"array", "hash"} /\ Init /\ HashInit

CollectionsNext ==
  \/ which = "array" /\ Next /\ UNCHANGED <<which, hashVars>>
  \/ which = "hash" /\ HashNext /\ UNCHANGED <<which, vars>>

CollectionsSpec ==
  CollectionsInit /\ [][CollectionsNext]_<<which, vars, hashVars>>

(* The array writes within its bounds; every entry of the hash is in the    *)
(* chain of its name, once, and none is counted that is not there.          *)
TypesOK == TypeOK /\ HashTypeOK

(* Chains, growth and reloading are invisible: the hash is a map            *)
(* (ImplementsMap, of which the steps of the array need no check).          *)
HashIsMap == M!Init /\ [][which = "array" \/ M!Next]_(M!vars)

=============================================================================
