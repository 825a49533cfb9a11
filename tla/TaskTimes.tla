------------------------------ MODULE TaskTimes -----------------------------
(***************************************************************************)
(* The parameters of the task queue (code/task.cpp), shared by its models. *)
(***************************************************************************)
EXTENDS Naturals

CONSTANTS
  Frame,    (* the code frames (MooCodeFrame objects)                      *)
  Slot,     (* the addresses at which queue entries are allocated          *)
  MaxTime   (* the wall clock and every delay stay within 0..MaxTime       *)

ASSUME TimeAssumption == MaxTime \in Nat

=============================================================================
