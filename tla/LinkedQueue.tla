---------------------------- MODULE LinkedQueue ----------------------------
(***************************************************************************)
(* The linked list of TaskList next to the queue of TaskQueue it stands    *)
(* for: the queue is read off the list after every step, so that the       *)
(* properties of the list's queue are TaskQueue's own.                     *)
(***************************************************************************)
EXTENDS TaskQueue

CONSTANT NULL   (* the null pointer                                        *)

(* The null pointer is no address.                                          *)
ASSUME NullAssumption == NULL \notin Slot

VARIABLES entry, first, last

List == INSTANCE TaskList

listVars == <<entry, first, last, vars>>

ListInit == List!Init /\ queue = List!Sequence
ListNext == List!Next /\ queue' = List!Sequence'
ListSpec == ListInit /\ [][ListNext]_listVars

-----------------------------------------------------------------------------

(* m_first, m_last and the links lead to allocated entries or nowhere, and  *)
(* forwards and backwards schedule() and consume() leave the same list of   *)
(* all of them.                                                             *)
WellLinked == List!TypeOK /\ List!WellLinked

(* The linked list does what the ordered sequence does: the list's pointers *)
(* implement TaskQueue.                                                     *)
ImplementsTaskQueue == Spec

=============================================================================
