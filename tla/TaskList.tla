------------------------------ MODULE TaskList ------------------------------
(***************************************************************************)
(* MooTaskQueue (code/task.cpp) down to its pointers: the doubly linked    *)
(* list of MooTaskQueueEntry objects between m_first and m_last.  The      *)
(* sequence of TaskQueue is what a walk along m_next meets.                *)
(***************************************************************************)
EXTENDS TaskTimes, FiniteSets, SequencesExt

CONSTANT NULL   (* the null pointer                                        *)

VARIABLES
  entry,    (* the allocated entries: a function on a subset of Slot       *)
  first,    (* m_first                                                     *)
  last,     (* m_last                                                      *)
  now       (* the wall clock                                              *)

vars == <<entry, first, last, now>>

Live == DOMAIN entry
Pointer == Live \cup {NULL}

TypeOK ==
  /\ Live \subseteq Slot
  /\ \A s \in Live : entry[s] \in [time : Nat, frame : Frame, next : Pointer, prev : Pointer]
  /\ first \in Pointer
  /\ last \in Pointer
  /\ now \in 0..MaxTime

-----------------------------------------------------------------------------

(* A walk over p starts at s and follows a link from each entry to the next *)
(* one; it has then got to After(p, s, link).                               *)
After(p, s, link) == IF p = <<>> THEN s ELSE link[p[Len(p)]]

Follows(p, s, link) ==
  \A i \in DOMAIN p : p[i] = IF i = 1 THEN s ELSE link[p[i - 1]]

(* No walk that ends is longer than there are entries.                      *)
Walks == UNION {[1..n -> Live] : n \in 0..Cardinality(Live)}

Nexts == [s \in Live |-> entry[s].next]
Prevs == [s \in Live |-> entry[s].prev]

(* Mutant: the walk goes past the entries due at the same time.             *)
WalkPastTies(p, t) ==
  /\ Follows(p, first, Nexts)
  /\ \A i \in DOMAIN p : entry[p[i]].time <= t
  /\ LET cur == After(p, first, Nexts)
     IN cur # NULL => ~(entry[cur].time <= t)

(* schedule()'s walk for time t goes over the entries p due before t, and   *)
(* stops at the first that is not, or at NULL.                              *)
Walk(p, t) ==
  /\ Follows(p, first, Nexts)
  /\ \A i \in DOMAIN p : entry[p[i]].time < t
  /\ LET cur == After(p, first, Nexts)
     IN cur # NULL => ~(entry[cur].time < t)

Init ==
  /\ entry = <<>>
  /\ first = NULL
  /\ last = NULL
  /\ now \in 0..MaxTime

(* Mutant: the entry after the new one is not pointed back at it.           *)
LinkForward(new, fields) ==
  entry' = [s \in Live \cup {new} |->
              IF s = new THEN fields
              ELSE [time  |-> entry[s].time,
                    frame |-> entry[s].frame,
                    next  |-> IF s = fields.prev THEN new ELSE entry[s].next,
                    prev  |-> entry[s].prev]]

(* Store new's fields and point its neighbours back at it; the neighbour    *)
(* that is NULL is the head or the tail pointer of the queue instead.       *)
Link(new, fields) ==
  entry' = [s \in Live \cup {new} |->
              IF s = new THEN fields
              ELSE [time  |-> entry[s].time,
                    frame |-> entry[s].frame,
                    next  |-> IF s = fields.prev THEN new ELSE entry[s].next,
                    prev  |-> IF s = fields.next THEN new ELSE entry[s].prev]]

(* MooTaskQueue::schedule *)
Schedule(f, delay, new) ==
  /\ new \notin Live
  /\ \E walked \in Walks :
       LET time == now + delay
           prev == IF walked = <<>> THEN NULL ELSE walked[Len(walked)]
           cur  == After(walked, first, Nexts)
       IN /\ Walk(walked, time)
          /\ Link(new, [time |-> time, frame |-> f, next |-> cur, prev |-> prev])
          /\ last'  = IF cur = NULL THEN new ELSE last
          /\ first' = IF prev = NULL THEN new ELSE first
  /\ UNCHANGED now

(* Mutant: the entry is returned before its time.                           *)
ConsumeEarly ==
  /\ first # NULL
  /\ first' = entry[first].next
  /\ entry' = [s \in Live \ {first} |->
                 IF s = first' THEN [entry[s] EXCEPT !.prev = NULL] ELSE entry[s]]
  /\ last' = IF last = first THEN NULL ELSE last
  /\ UNCHANGED now

(* MooTaskQueue::consume, when it has an entry to return; the entry is      *)
(* deleted, so its address may be allocated again.                          *)
Consume ==
  /\ first # NULL
  /\ entry[first].time <= now
  /\ first' = entry[first].next
  /\ entry' = [s \in Live \ {first} |->
                 IF s = first' THEN [entry[s] EXCEPT !.prev = NULL] ELSE entry[s]]
  /\ last' = IF last = first THEN NULL ELSE last
  /\ UNCHANGED now

SetClock ==
  /\ now' \in 0..MaxTime
  /\ UNCHANGED <<entry, first, last>>

Next ==
  \/ \E f \in Frame, delay \in 0..MaxTime, s \in Slot : Schedule(f, delay, s)
  \/ Consume
  \/ SetClock

Spec == Init /\ [][Next]_vars

-----------------------------------------------------------------------------

(* A walk over p, all of it, ends at NULL.                                  *)
Ends(p, s, link) == Follows(p, s, link) /\ After(p, s, link) = NULL

(* Forwards and backwards a walk meets every allocated entry once, in       *)
(* opposite orders, and m_last is the end of the list: no entry leaks, none *)
(* is met after its deletion.  (Nothing walks backwards today; m_prev and   *)
(* m_last are kept for the removal that frame.cpp's TODO asks for.)         *)
WellLinked ==
  \E p \in Walks :
    /\ Len(p) = Cardinality(Live)
    /\ Ends(p, first, Nexts)
    /\ Ends(Reverse(p), last, Prevs)

(* The sequence of TaskQueue that the list stands for.                      *)
Sequence ==
  LET met == CHOOSE p \in Walks : Ends(p, first, Nexts)
  IN [i \in 1..Len(met) |-> [time  |-> entry[met[i]].time,
                             frame |-> entry[met[i]].frame,
                             slot  |-> met[i]]]

=============================================================================
