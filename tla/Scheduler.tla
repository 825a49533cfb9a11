----------------------------- MODULE Scheduler -----------------------------
(***************************************************************************)
(* What MooTaskQueue promises its callers (code/task.cpp), with no order   *)
(* of storage: a set of calls to schedule() that have not been honoured    *)
(* yet.  Each call has a time of its own; consume() may honour one only    *)
(* once that time has come, and never while an earlier one is pending.     *)
(***************************************************************************)
EXTENDS Naturals

CONSTANTS
  Frame,    (* the code frames (MooCodeFrame objects)                      *)
  Slot,     (* the addresses at which queue entries are allocated          *)
  MaxTime   (* the wall clock and every delay stay within 0..MaxTime       *)

VARIABLES
  pending,  (* the scheduled tasks: records [time, frame, slot]            *)
  now       (* the wall clock, as gettimeofday reports it                  *)

Used == {e.slot : e \in pending}

Init ==
  /\ pending = {}
  /\ now \in 0..MaxTime

Schedule(f, delay, s) ==
  /\ s \notin Used
  /\ pending' = pending \cup {[time |-> now + delay, frame |-> f, slot |-> s]}
  /\ UNCHANGED now

Consume ==
  \E e \in pending :
    /\ e.time <= now
    /\ \A other \in pending : e.time <= other.time
    /\ pending' = pending \ {e}
    /\ UNCHANGED now

SetClock ==
  /\ now' \in 0..MaxTime
  /\ UNCHANGED pending

Next ==
  \/ \E f \in Frame, delay \in 0..MaxTime, s \in Slot : Schedule(f, delay, s)
  \/ Consume
  \/ SetClock

Spec == Init /\ [][Next]_<<pending, now>>

=============================================================================
