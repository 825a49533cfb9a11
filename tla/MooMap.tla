------------------------------- MODULE MooMap -------------------------------
(***************************************************************************)
(* What a hash of the language promises: a map from names to objects, in   *)
(* which a name has one value or none.  ret is the sequence of what the    *)
(* last call returned.                                                     *)
(***************************************************************************)
EXTENDS Integers, SequencesExt

CONSTANTS
  Key,       (* the names                                                  *)
  Value,     (* the objects                                                *)
  None       (* no object                                                  *)

VARIABLES map, ret

Init == map = [k \in Key |-> None] /\ ret = <<>>

Present == {k \in Key : map[k] # None}

Get == \E k \in Key : ret' = <<map[k]>> /\ UNCHANGED map

Put == \E k \in Key, v \in Value : map' = [map EXCEPT ![k] = v] /\ ret' = <<TRUE>>

Delete ==
  \E k \in Key :
    /\ map' = [map EXCEPT ![k] = None]
    /\ ret' = <<map[k] # None>>

(* The names, or what they stand for, each once, in any order.              *)
Keys == ret' \in SetToSeqs(Present) /\ UNCHANGED map

Values ==
  /\ \E order \in SetToSeqs(Present) : ret' = [i \in DOMAIN order |-> map[order[i]]]
  /\ UNCHANGED map

(* A foreach by itself changes nothing.                                     *)
Foreach == ret' = <<TRUE>> /\ UNCHANGED map

Next == Get \/ Put \/ Delete \/ Keys \/ Values \/ Foreach

vars == <<map, ret>>

Spec == Init /\ [][Next]_vars

=============================================================================
