----------------------------- MODULE TaskQueue -----------------------------
(***************************************************************************)
(* MooTaskQueue (code/task.cpp) as the sequence its entries form.  There   *)
(* is one queue in the program, g_task_queue.  schedule() keeps it ordered *)
(* by due time, consume() only looks at the front.  Times come from the    *)
(* wall clock (gettimeofday), which may be set forwards or backwards       *)
(* between any two calls.                                                  *)
(***************************************************************************)
EXTENDS TaskTimes, SequencesExt

VARIABLES
  queue,    (* the entries from m_first to m_last                          *)
  now       (* the wall clock                                              *)

vars == <<queue, now>>

Entry == [time : Nat, frame : Frame, slot : Slot]

TypeOK ==
  /\ queue \in Seq(Entry)
  /\ now \in 0..MaxTime

-----------------------------------------------------------------------------

(* schedule() walks over the entries due strictly earlier than t and stops  *)
(* at position p: at the first entry not due before t, or past the end.     *)
WalkStopsAt(q, t, p) ==
  /\ p \in 1..(Len(q) + 1)
  /\ \A i \in 1..(p - 1) : q[i].time < t
  /\ p <= Len(q) => ~(q[p].time < t)

Init ==
  /\ queue = <<>>
  /\ now \in 0..MaxTime

(* MooTaskQueue::schedule.  new returns memory no live entry occupies.      *)
Schedule(f, delay, s) ==
  /\ \A i \in DOMAIN queue : queue[i].slot # s
  /\ \E p \in 1..(Len(queue) + 1) :
       /\ WalkStopsAt(queue, now + delay, p)
       /\ queue' = InsertAt(queue, p, [time |-> now + delay, frame |-> f, slot |-> s])
  /\ UNCHANGED now

(* MooTaskQueue::consume, when it has an entry to return; otherwise it      *)
(* returns NULL and changes nothing.                                        *)
Consume ==
  /\ queue # <<>>
  /\ Head(queue).time <= now
  /\ queue' = Tail(queue)
  /\ UNCHANGED now

(* gettimeofday: time passes, or the administrator or NTP sets the clock.   *)
SetClock ==
  /\ now' \in 0..MaxTime
  /\ UNCHANGED queue

Next ==
  \/ \E f \in Frame, delay \in 0..MaxTime, s \in Slot : Schedule(f, delay, s)
  \/ Consume
  \/ SetClock

Spec == Init /\ [][Next]_vars

-----------------------------------------------------------------------------

(* Whatever the clock does, the entries stay ordered by due time: this is   *)
(* what lets consume() look at m_first alone.                               *)
Sorted ==
  \A i, j \in DOMAIN queue : i < j => queue[i].time <= queue[j].time

(* Two positions of the queue never hold the same entry: an entry that      *)
(* occurred twice would be deleted by the first consume() and then read.    *)
NoSharedEntry ==
  \A i, j \in DOMAIN queue : queue[i].slot = queue[j].slot => i = j

Inv == TypeOK /\ Sorted /\ NoSharedEntry

(* The queue implements the set of pending calls: no call is lost or        *)
(* honoured twice, none is honoured early, none overtakes an earlier one.   *)
Pending == {queue[i] : i \in DOMAIN queue}
Abstract == INSTANCE Scheduler WITH pending <- Pending
ImplementsScheduler == Abstract!Spec

=============================================================================
