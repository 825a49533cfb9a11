------------------------------- MODULE MooList ------------------------------
(***************************************************************************)
(* What an array of the language promises: a list, whose places may be     *)
(* empty, without any notion of room.  ret is the element the last call    *)
(* returned, if it returned one.                                           *)
(***************************************************************************)
EXTENDS Integers, SequencesExt

CONSTANTS
  Value,     (* what the places hold                                       *)
  Empty,     (* an empty place                                             *)
  Unknown,   (* what a get past the end may return instead of Empty        *)
  Index      (* the indices the callers use                                *)

VARIABLES list, ret

Init == list = <<>> /\ ret = Empty

(* Indices count from 0.                                                    *)
Has(i) == i \in 0..(Len(list) - 1)
Element(i) == list[i + 1]

Get ==
  /\ \E i \in Index :
       IF Has(i) THEN ret' = Element(i) ELSE ret' \in {Empty, Unknown}
  /\ UNCHANGED list

(* Places between the end and a place that is set are empty.                *)
Put ==
  \E i \in Index, v \in Value :
    \/ /\ Has(i)
       /\ list' = [list EXCEPT ![i + 1] = v]
       /\ ret' = v
    \/ /\ i >= Len(list)
       /\ list' = list \o [k \in 1..(i - Len(list)) |-> Empty] \o <<v>>
       /\ ret' = v
    \/ /\ i < 0
       /\ UNCHANGED list
       /\ ret' = Empty

(* An element taken out leaves its place empty; the list never ends with    *)
(* the place it leaves.                                                     *)
Trimmed(l) ==
  SubSeq(l, 1, CHOOSE n \in 0..Len(l) :
                 /\ n = 0 \/ l[n] # Empty
                 /\ \A k \in (n + 1)..Len(l) : l[k] = Empty)

Vacate ==
  \E v \in Value :
    \/ /\ \A i \in DOMAIN list : list[i] # v
       /\ UNCHANGED list
       /\ ret' = Empty
    \/ \E i \in DOMAIN list :
         /\ list[i] = v /\ \A j \in 1..(i - 1) : list[j] # v
         /\ list' = IF i = Len(list) THEN Trimmed([list EXCEPT ![i] = Empty])
                    ELSE [list EXCEPT ![i] = Empty]
         /\ ret' = Empty

Insert ==
  \E i \in Index \cup {0, Len(list)}, v \in Value :
    \/ /\ i \in 0..Len(list)
       /\ list' = InsertAt(list, i + 1, v)
       /\ ret' = Empty
    \/ /\ i \notin 0..Len(list)
       /\ UNCHANGED list
       /\ ret' = Empty

Splice ==
  \E i \in Index \cup {0, Len(list) - 1} :
    \/ /\ Has(i)
       /\ list' = RemoveAt(list, i + 1)
       /\ ret' = Element(i)
    \/ /\ ~Has(i)
       /\ UNCHANGED list
       /\ ret' = Empty

Next == Get \/ Put \/ Vacate \/ Insert \/ Splice

vars == <<list, ret>>

Spec == Init /\ [][Next]_vars

=============================================================================
