-------------------------- MODULE TaskQueueProofs --------------------------
(***************************************************************************)
(* For every set of frames, every set of addresses and every bound on the  *)
(* clock: the task queue stays ordered, and it implements the set of       *)
(* pending calls specified in Scheduler.                                   *)
(***************************************************************************)
EXTENDS LinkedQueue, SequenceTheorems, FiniteSetTheorems, NaturalsInduction, TLAPS

(* What inserting an element into a sequence yields, position by position.  *)
LEMMA InsertAtProperties ==
  ASSUME NEW S, NEW q \in Seq(S), NEW e \in S, NEW p \in 1..(Len(q) + 1)
  PROVE  /\ InsertAt(q, p, e) \in Seq(S)
         /\ Len(InsertAt(q, p, e)) = Len(q) + 1
         /\ \A i \in 1..(Len(q) + 1) :
              InsertAt(q, p, e)[i] = IF i < p THEN q[i]
                                     ELSE IF i = p THEN e
                                     ELSE q[i - 1]
<1> DEFINE front == SubSeq(q, 1, p - 1)
           back  == SubSeq(q, p, Len(q))
<1>1. /\ front \in Seq(S) /\ Len(front) = p - 1
      /\ \A i \in 1..(p - 1) : front[i] = q[i]
  OBVIOUS
<1>2. /\ back \in Seq(S) /\ Len(back) = Len(q) - p + 1
      /\ \A i \in 1..(Len(q) - p + 1) : back[i] = q[p + i - 1]
  OBVIOUS
<1>3. <<e>> \in Seq(S) /\ Len(<<e>>) = 1 /\ <<e>>[1] = e
  OBVIOUS
<1> HIDE DEF front, back
<1> DEFINE head == front \o <<e>>
<1>4. /\ head \in Seq(S) /\ Len(head) = p
      /\ \A i \in 1..p : head[i] = IF i < p THEN front[i] ELSE e
  BY <1>1, <1>3
<1> HIDE DEF head
<1>5. /\ head \o back \in Seq(S) /\ Len(head \o back) = Len(q) + 1
      /\ \A i \in 1..(Len(q) + 1) :
           (head \o back)[i] = IF i <= p THEN head[i] ELSE back[i - p]
  <2>1. Len(head) + Len(back) = Len(q) + 1
    BY <1>2, <1>4
  <2>2. /\ head \o back \in Seq(S)
        /\ Len(head \o back) = Len(head) + Len(back)
        /\ \A i \in 1..(Len(head) + Len(back)) :
             (head \o back)[i] = IF i <= Len(head) THEN head[i] ELSE back[i - Len(head)]
    BY <1>2, <1>4, ConcatProperties
  <2> QED
    BY <1>4, <2>1, <2>2
<1>6. InsertAt(q, p, e) = head \o back
  BY DEF InsertAt, head, front, back
<1>7. ASSUME NEW i \in 1..(Len(q) + 1)
      PROVE  (head \o back)[i] = IF i < p THEN q[i]
                                 ELSE IF i = p THEN e
                                 ELSE q[i - 1]
  <2>1. CASE i < p
    BY <1>1, <1>4, <1>5, <2>1
  <2>2. CASE i = p
    BY <1>4, <1>5, <2>2
  <2>3. CASE i > p
    <3>1. i - p \in 1..(Len(q) - p + 1) /\ p + (i - p) - 1 = i - 1
      BY <2>3
    <3>2. (head \o back)[i] = back[i - p]
      BY <1>5, <2>3
    <3> QED
      BY <1>2, <2>3, <3>1, <3>2
  <2>4. i \in Nat /\ p \in Nat
    BY LenProperties
  <2>5. i < p \/ i = p \/ i > p
    BY <2>4
  <2> QED
    BY <2>1, <2>2, <2>3, <2>4, <2>5
<1> QED
  BY <1>5, <1>6, <1>7

(* Every entry that schedule() adds is typed, later than what it follows,   *)
(* no later than what it precedes, and stored at an address of its own.     *)
LEMMA ScheduleInv ==
  ASSUME Inv, NEW f \in Frame, NEW delay \in 0..MaxTime, NEW s \in Slot,
         Schedule(f, delay, s)
  PROVE  Inv'
<1> DEFINE e == [time |-> now + delay, frame |-> f, slot |-> s]
<1>1. /\ queue \in Seq(Entry)
      /\ now \in 0..MaxTime /\ now \in Nat /\ delay \in Nat
  BY TimeAssumption DEF Inv, TypeOK
<1>2. e \in Entry
  BY <1>1 DEF Entry
<1>3. PICK p \in 1..(Len(queue) + 1) :
        /\ WalkStopsAt(queue, now + delay, p)
        /\ queue' = InsertAt(queue, p, e)
  BY DEF Schedule
<1>4. now' = now /\ \A i \in DOMAIN queue : queue[i].slot # s
  BY DEF Schedule
<1>5. Len(queue) \in Nat /\ DOMAIN queue = 1..Len(queue)
  BY <1>1, LenProperties
<1> DEFINE At(i) == IF i < p THEN queue[i] ELSE IF i = p THEN e ELSE queue[i - 1]
<1>6. /\ queue' \in Seq(Entry)
      /\ Len(queue') = Len(queue) + 1
      /\ \A i \in 1..(Len(queue) + 1) : queue'[i] = At(i)
  BY <1>1, <1>2, <1>3, InsertAtProperties
<1>7. DOMAIN queue' = 1..(Len(queue) + 1)
  BY <1>6, LenProperties
<1>8. e.time = now + delay /\ e.slot = s
  OBVIOUS
<1>9. \A i \in 1..Len(queue) : queue[i] \in Entry /\ queue[i].time \in Nat
  <2>1. \A i \in 1..Len(queue) : queue[i] \in Entry
    BY <1>1, ElementOfSeq
  <2> QED
    BY <2>1 DEF Entry
<1>10. TypeOK'
  BY <1>1, <1>4, <1>6 DEF TypeOK
<1>11. Sorted'
  <2>1. \A i \in 1..Len(queue) : i < p => queue[i].time <= e.time
    BY <1>1, <1>3, <1>5, <1>8, <1>9 DEF WalkStopsAt
  <2>2. \A i \in 1..Len(queue) : p <= i => e.time <= queue[i].time
    <3> SUFFICES ASSUME NEW i \in 1..Len(queue), p <= i
                 PROVE  e.time <= queue[i].time
      OBVIOUS
    <3>1. p \in 1..Len(queue) /\ ~(queue[p].time < now + delay)
      BY <1>3, <1>5 DEF WalkStopsAt
    <3>2. p < i => queue[p].time <= queue[i].time
      BY <1>5, <3>1 DEF Inv, Sorted
    <3> QED
      BY <1>1, <1>5, <1>8, <1>9, <3>1, <3>2
  <2> HIDE DEF At
  <2> SUFFICES ASSUME NEW i \in 1..(Len(queue) + 1), NEW j \in 1..(Len(queue) + 1), i < j
               PROVE  At(i).time <= At(j).time
    BY <1>6, <1>7, SMTT(30) DEF Sorted
  <2> USE DEF At
  <2>3. \A k, l \in 1..Len(queue) : k < l => queue[k].time <= queue[l].time
    BY <1>5 DEF Inv, Sorted
  <2>4. CASE j < p
    BY <1>3, <1>5, <2>3, <2>4
  <2>5. CASE j = p
    BY <1>3, <1>5, <2>1, <2>5
  <2>6. CASE j > p
    <3>1. j - 1 \in 1..Len(queue) /\ p <= j - 1
      BY <1>3, <1>5, <2>6
    <3>2. CASE i < p
      BY <1>3, <1>5, <2>3, <2>6, <3>1, <3>2
    <3>3. CASE i = p
      BY <1>3, <1>5, <2>2, <2>6, <3>1, <3>3
    <3>4. CASE i > p
      BY <1>3, <1>5, <2>3, <2>6, <3>1, <3>4
    <3> QED
      BY <1>3, <1>5, <3>2, <3>3, <3>4
  <2> QED
    BY <1>3, <1>5, <2>4, <2>5, <2>6
<1>12. NoSharedEntry'
  <2> HIDE DEF At
  <2> SUFFICES ASSUME NEW i \in 1..(Len(queue) + 1), NEW j \in 1..(Len(queue) + 1),
                      At(i).slot = At(j).slot
               PROVE  i = j
    BY <1>6, <1>7, SMTT(30) DEF NoSharedEntry
  <2> USE DEF At
  <2>1. \A k \in 1..Len(queue) : queue[k].slot # e.slot
    BY <1>4, <1>5, <1>8
  <2>2. \A k, l \in 1..Len(queue) : queue[k].slot = queue[l].slot => k = l
    BY <1>5 DEF Inv, NoSharedEntry
  <2> QED
    BY <1>3, <1>5, <2>1, <2>2
<1> QED
  BY <1>10, <1>11, <1>12 DEF Inv

(* Taking the front entry away disturbs neither the order nor the identity  *)
(* of the others.                                                           *)
LEMMA ConsumeInv ==
  ASSUME Inv, Consume
  PROVE  Inv'
<1>1. queue \in Seq(Entry) /\ queue # <<>> /\ queue' = Tail(queue) /\ now' = now
  BY DEF Inv, TypeOK, Consume
<1>2. /\ queue' \in Seq(Entry)
      /\ Len(queue') = Len(queue) - 1
      /\ \A i \in 1..Len(queue') : queue'[i] = queue[i + 1]
  BY <1>1, HeadTailProperties
<1>3. /\ Len(queue) \in Nat /\ DOMAIN queue = 1..Len(queue)
      /\ Len(queue') \in Nat /\ DOMAIN queue' = 1..Len(queue')
  BY <1>1, <1>2, LenProperties
<1>4. TypeOK'
  BY <1>1, <1>2 DEF Inv, TypeOK
<1>5. \A i \in 1..Len(queue') : i + 1 \in 1..Len(queue)
  BY <1>2, <1>3
<1>6. Sorted'
  <2> SUFFICES ASSUME NEW i \in 1..Len(queue'), NEW j \in 1..Len(queue'), i < j
               PROVE  queue'[i].time <= queue'[j].time
    BY <1>3 DEF Sorted
  <2>1. i + 1 \in DOMAIN queue /\ j + 1 \in DOMAIN queue /\ i + 1 < j + 1
    BY <1>3, <1>5
  <2> QED
    BY <1>2, <2>1 DEF Inv, Sorted
<1>7. NoSharedEntry'
  <2> SUFFICES ASSUME NEW i \in 1..Len(queue'), NEW j \in 1..Len(queue'),
                      queue'[i].slot = queue'[j].slot
               PROVE  i = j
    BY <1>3 DEF NoSharedEntry
  <2>1. i + 1 \in DOMAIN queue /\ j + 1 \in DOMAIN queue
    BY <1>3, <1>5
  <2>2. i + 1 = j + 1
    BY <1>2, <2>1 DEF Inv, NoSharedEntry
  <2> QED
    BY <2>2
<1> QED
  BY <1>4, <1>6, <1>7 DEF Inv

(* The empty queue is typed and ordered.                                    *)
LEMMA InitInv == Init => Inv
  BY DEF Init, Inv, TypeOK, Sorted, NoSharedEntry

(* Every step preserves the invariant.                                      *)
LEMMA NextInv == Inv /\ [Next]_vars => Inv'
<1> SUFFICES ASSUME Inv, [Next]_vars
             PROVE  Inv'
  OBVIOUS
<1>1. CASE \E f \in Frame, delay \in 0..MaxTime, s \in Slot : Schedule(f, delay, s)
  BY <1>1, ScheduleInv
<1>2. CASE Consume
  BY <1>2, ConsumeInv
<1>3. CASE SetClock
  BY <1>3 DEF SetClock, Inv, TypeOK, Sorted, NoSharedEntry
<1>4. CASE UNCHANGED vars
  BY <1>4 DEF vars, Inv, TypeOK, Sorted, NoSharedEntry
<1> QED
  BY <1>1, <1>2, <1>3, <1>4 DEF Next

(* In every reachable state the queue and the clock are well typed, the     *)
(* entries are ordered by due time and no entry occurs twice.               *)
THEOREM QueueInvariant == Spec => []Inv
  BY InitInv, NextInv, PTL DEF Spec

(* MooTaskQueue::schedule keeps the queue ordered whatever the wall clock   *)
(* does, so the front entry is always one that is due first.                *)
THEOREM AlwaysSorted == Spec => []Sorted
<1>1. Inv => Sorted
  BY DEF Inv
<1> QED
  BY <1>1, QueueInvariant, PTL

-----------------------------------------------------------------------------

(* schedule() adds its entry to the set of pending calls and no other.      *)
LEMMA ScheduleAdds ==
  ASSUME Inv, NEW f \in Frame, NEW delay \in 0..MaxTime, NEW s \in Slot,
         Schedule(f, delay, s)
  PROVE  Abstract!Schedule(f, delay, s)
<1> DEFINE e == [time |-> now + delay, frame |-> f, slot |-> s]
<1>1. queue \in Seq(Entry) /\ e \in Entry
  BY TimeAssumption DEF Inv, TypeOK, Entry
<1>2. PICK p \in 1..(Len(queue) + 1) : queue' = InsertAt(queue, p, e)
  BY DEF Schedule
<1>3. Len(queue) \in Nat /\ DOMAIN queue = 1..Len(queue)
  BY <1>1, LenProperties
<1>4. /\ queue' \in Seq(Entry)
      /\ Len(queue') = Len(queue) + 1
      /\ \A i \in 1..(Len(queue) + 1) :
           queue'[i] = IF i < p THEN queue[i] ELSE IF i = p THEN e ELSE queue[i - 1]
  BY <1>1, <1>2, InsertAtProperties, SMTT(30)
<1>5. DOMAIN queue' = 1..(Len(queue) + 1)
  BY <1>4, LenProperties
<1>6. Pending' \subseteq Pending \cup {e}
  <2> HIDE DEF e
  <2> SUFFICES ASSUME NEW i \in 1..(Len(queue) + 1)
               PROVE  queue'[i] = e \/ \E j \in 1..Len(queue) : queue'[i] = queue[j]
    BY <1>3, <1>5 DEF Pending
  <2>1. i < p => i \in 1..Len(queue)
    BY <1>2, <1>3
  <2>2. ~(i < p) /\ i # p => i - 1 \in 1..Len(queue)
    BY <1>2, <1>3
  <2> QED
    BY <1>4, <2>1, <2>2
<1>7. Pending \subseteq Pending'
  <2> SUFFICES ASSUME NEW i \in 1..Len(queue)
               PROVE  \E k \in DOMAIN queue' : queue'[k] = queue[i]
    BY <1>3 DEF Pending
  <2>1. CASE i < p
    BY <1>2, <1>3, <1>4, <1>5, <2>1
  <2>2. CASE p <= i
    <3>1. i + 1 \in DOMAIN queue' /\ queue'[i + 1] = queue[i]
      BY <1>2, <1>3, <1>4, <1>5, <2>2
    <3> QED
      BY <3>1
  <2> QED
    BY <1>2, <1>3, <2>1, <2>2
<1>8. e \in Pending'
  <2>1. p \in DOMAIN queue' /\ queue'[p] = e
    BY <1>2, <1>3, <1>4, <1>5
  <2> QED
    BY <2>1 DEF Pending
<1>9. Pending' = Pending \cup {e}
  BY <1>6, <1>7, <1>8
<1>10. s \notin Abstract!Used
  BY DEF Schedule, Abstract!Used, Pending
<1>11. now' = now
  BY DEF Schedule
<1> QED
  BY <1>9, <1>10, <1>11 DEF Abstract!Schedule

(* consume() honours one pending call, due and among the earliest.          *)
LEMMA ConsumeRemoves ==
  ASSUME Inv, Consume
  PROVE  Abstract!Consume
<1>1. queue \in Seq(Entry) /\ queue # <<>> /\ queue' = Tail(queue) /\ now' = now
  BY DEF Inv, TypeOK, Consume
<1>2. /\ queue' \in Seq(Entry)
      /\ Len(queue') = Len(queue) - 1
      /\ \A i \in 1..Len(queue') : queue'[i] = queue[i + 1]
  BY <1>1, HeadTailProperties
<1>3. /\ Len(queue) \in Nat /\ DOMAIN queue = 1..Len(queue)
      /\ Len(queue') \in Nat /\ DOMAIN queue' = 1..Len(queue')
  BY <1>1, <1>2, LenProperties
<1>4. 1 \in DOMAIN queue
  BY <1>2, <1>3
<1>5. Head(queue) = queue[1]
  BY <1>1
<1>6. queue[1] \in Pending /\ queue[1].time <= now
  BY <1>4, <1>5 DEF Consume, Pending
<1>7. \A other \in Pending : queue[1].time <= other.time
  <2> SUFFICES ASSUME NEW i \in 1..Len(queue)
               PROVE  queue[1].time <= queue[i].time
    BY <1>3 DEF Pending
  <2>1. queue[1].time \in Nat
    <3>1. queue[1] \in Entry
      BY <1>1, <1>3, <1>4, ElementOfSeq
    <3> QED
      BY <3>1 DEF Entry
  <2>2. CASE i = 1
    BY <2>1, <2>2
  <2>3. CASE 1 < i
    BY <1>3, <1>4, <2>3 DEF Inv, Sorted
  <2> QED
    BY <1>3, <2>2, <2>3
<1>8. Pending' = Pending \ {queue[1]}
  <2>1. \A i \in 1..Len(queue) : queue[i] = queue[1] => i = 1
    BY <1>3, <1>4 DEF Inv, NoSharedEntry
  <2>2. Pending' \subseteq Pending \ {queue[1]}
    <3> SUFFICES ASSUME NEW i \in 1..Len(queue')
                 PROVE  queue'[i] \in Pending \ {queue[1]}
      BY <1>3 DEF Pending
    <3>1. i + 1 \in 1..Len(queue) /\ i + 1 # 1 /\ queue'[i] = queue[i + 1]
      BY <1>2, <1>3
    <3> QED
      BY <1>3, <2>1, <3>1 DEF Pending
  <2>3. Pending \ {queue[1]} \subseteq Pending'
    <3> SUFFICES ASSUME NEW i \in 1..Len(queue), queue[i] # queue[1]
                 PROVE  \E k \in DOMAIN queue' : queue'[k] = queue[i]
      BY <1>3 DEF Pending
    <3>1. i - 1 \in 1..Len(queue') /\ (i - 1) + 1 = i
      BY <1>2, <1>3
    <3>2. i - 1 \in DOMAIN queue' /\ queue'[i - 1] = queue[i]
      BY <1>2, <1>3, <3>1
    <3> QED
      BY <3>2
  <2> QED
    BY <2>2, <2>3
<1> QED
  BY <1>1, <1>6, <1>7, <1>8 DEF Abstract!Consume

(* The ordered list honours exactly the pending calls that the Scheduler    *)
(* specification allows: none early, none twice, none lost, none overtaking *)
(* an earlier one.                                                          *)
THEOREM QueueImplementsScheduler == Spec => ImplementsScheduler
<1>1. Init => Abstract!Init
  BY DEF Init, Abstract!Init, Pending
<1>2. Inv /\ [Next]_vars => [Abstract!Next]_<<Pending, now>>
  <2> SUFFICES ASSUME Inv, [Next]_vars
               PROVE  [Abstract!Next]_<<Pending, now>>
    OBVIOUS
  <2>1. CASE \E f \in Frame, delay \in 0..MaxTime, s \in Slot : Schedule(f, delay, s)
    BY <2>1, ScheduleAdds DEF Abstract!Next
  <2>2. CASE Consume
    BY <2>2, ConsumeRemoves DEF Abstract!Next
  <2>3. CASE SetClock
    BY <2>3 DEF SetClock, Pending, Abstract!Next, Abstract!SetClock
  <2>4. CASE UNCHANGED vars
    BY <2>4 DEF vars, Pending
  <2> QED
    BY <2>1, <2>2, <2>3, <2>4 DEF Next
<1> QED
  BY <1>1, <1>2, QueueInvariant, PTL DEF Spec, ImplementsScheduler, Abstract!Spec

-----------------------------------------------------------------------------
(* The linked list.                                                         *)

(* A set of natural numbers that is not empty has a least element.          *)
LEMMA LeastExists ==
  ASSUME NEW S, S \subseteq Nat, S # {}
  PROVE  \E n \in S : \A k \in S : n <= k
<1> DEFINE R == OpToRel(<, Nat)
<1>1. IsWellFoundedOn(R, Nat)
  BY NatLessThanWellFounded
<1>2. \A x, y \in Nat : x < y => <<x, y>> \in R
  BY DEF OpToRel
<1> HIDE DEF R
<1>3. PICK n \in S : \A k \in S : ~ (<<k, n>> \in R)
  BY <1>1, WFMin
<1>4. ASSUME NEW k \in S PROVE n <= k
  <2>1. k \in Nat /\ n \in Nat
    OBVIOUS
  <2>2. ~ (k < n)
    BY <1>2, <1>3, <2>1
  <2> QED
    BY <2>1, <2>2
<1> QED
  BY <1>4

(* The fields of the entry at position i of the list that stands for q.     *)
Linked(q, i) ==
  [time  |-> q[i].time,
   frame |-> q[i].frame,
   next  |-> IF i = Len(q) THEN NULL ELSE q[i + 1].slot,
   prev  |-> IF i = 1 THEN NULL ELSE q[i - 1].slot]

(* The list stands for q: an entry for each of q's, linked to its two       *)
(* neighbours, and m_first and m_last at the ends.                          *)
LinkedAs(q) ==
  /\ List!Live = {q[i].slot : i \in 1..Len(q)}
  /\ \A i \in 1..Len(q) : entry[q[i].slot] = Linked(q, i)
  /\ first = IF Len(q) = 0 THEN NULL ELSE q[1].slot
  /\ last = IF Len(q) = 0 THEN NULL ELSE q[Len(q)].slot

(* A queue no two entries of which share an address.                        *)
Distinct(q) ==
  /\ q \in Seq(Entry)
  /\ \A i, j \in 1..Len(q) : q[i].slot = q[j].slot => i = j

(* What is known of the entries of such a queue.                            *)
LEMMA SlotsAre ==
  ASSUME NEW q, Distinct(q)
  PROVE  /\ Len(q) \in Nat /\ DOMAIN q = 1..Len(q)
         /\ \A i \in 1..Len(q) : /\ q[i] \in Entry /\ q[i].slot \in Slot
                                 /\ q[i].slot # NULL /\ q[i].time \in Nat /\ q[i].frame \in Frame
<1>1. q \in Seq(Entry) /\ Len(q) \in Nat /\ DOMAIN q = 1..Len(q)
  BY LenProperties DEF Distinct
<1>2. \A i \in 1..Len(q) : q[i] \in Entry
  BY <1>1, ElementOfSeq
<1> QED
  BY <1>1, <1>2, NullAssumption DEF Entry

(* A walk along m_next meets the entries in the queue's order.              *)
LEMMA WalkMeetsQueue ==
  ASSUME NEW q, Distinct(q), LinkedAs(q),
         NEW p \in List!Walks, List!Follows(p, first, List!Nexts)
  PROVE  /\ Len(p) \in 0..Len(q)
         /\ p = [i \in 1..Len(p) |-> q[i].slot]
<1>1. PICK n \in Nat : p \in [1..n -> List!Live]
  BY DEF List!Walks
<1>2. p \in Seq(List!Live) /\ Len(p) = n /\ DOMAIN p = 1..n
  BY <1>1, SeqDef, LenProperties
<1>3. /\ Len(q) \in Nat
      /\ \A i \in 1..Len(q) : q[i].slot \in List!Live /\ q[i].slot # NULL
      /\ NULL \notin List!Live
  BY SlotsAre DEF LinkedAs
<1> DEFINE Bad == {i \in 1..n : ~(i <= Len(q) /\ p[i] = q[i].slot)}
<1>4. Bad = {}
  <2> SUFFICES ASSUME Bad # {}
               PROVE  FALSE
    OBVIOUS
  <2>0. Bad \subseteq Nat
    OBVIOUS
  <2>1. PICK i \in Bad : \A k \in Bad : i <= k
    <3> HIDE DEF Bad
    <3> QED
      BY <2>0, LeastExists
  <2>2. i \in 1..n /\ p[i] \in List!Live /\ p[i] # NULL
    BY <1>1, <1>3, <2>1
  <2>3. CASE i = 1
    <3>1. p[1] = first
      BY <1>2, <2>2, <2>3 DEF List!Follows
    <3>2. Len(q) # 0 /\ first = q[1].slot
      BY <2>2, <2>3, <3>1 DEF LinkedAs
    <3> QED
      BY <1>3, <2>1, <2>3, <3>1, <3>2
  <2>4. CASE i # 1
    <3>1. i - 1 \in 1..n /\ i - 1 \notin Bad
      BY <2>1, <2>2, <2>4
    <3>2. i - 1 <= Len(q) /\ i - 1 \in 1..Len(q) /\ p[i - 1] = q[i - 1].slot
      BY <1>3, <3>1
    <3>3. p[i] = List!Nexts[p[i - 1]]
      BY <1>2, <2>2, <2>4 DEF List!Follows
    <3>4. List!Nexts[p[i - 1]] = entry[q[i - 1].slot].next
      BY <1>3, <3>2 DEF List!Nexts
    <3>5. entry[q[i - 1].slot] = Linked(q, i - 1)
      BY <3>2 DEF LinkedAs
    <3>6. p[i] = IF i - 1 = Len(q) THEN NULL ELSE q[(i - 1) + 1].slot
      BY <3>3, <3>4, <3>5 DEF Linked
    <3>7. i - 1 # Len(q) /\ (i - 1) + 1 = i
      BY <2>2, <3>6
    <3> QED
      BY <1>3, <2>1, <3>2, <3>6, <3>7
  <2> QED
    BY <2>3, <2>4
<1>5. \A i \in 1..n : i <= Len(q) /\ p[i] = q[i].slot
  BY <1>4
<1>6. n <= Len(q)
  <2>1. n = 0 \/ n \in 1..n
    OBVIOUS
  <2> QED
    BY <1>3, <1>5, <2>1
<1> QED
  BY <1>1, <1>2, <1>3, <1>5, <1>6

(* Where such a walk has got to.                                            *)
LEMMA WalkGetsTo ==
  ASSUME NEW q, Distinct(q), LinkedAs(q),
         NEW p \in List!Walks, List!Follows(p, first, List!Nexts)
  PROVE  List!After(p, first, List!Nexts) = IF Len(p) = Len(q) THEN NULL ELSE q[Len(p) + 1].slot
<1>1. Len(p) \in 0..Len(q) /\ p = [i \in 1..Len(p) |-> q[i].slot] /\ Len(q) \in Nat
  BY WalkMeetsQueue, SlotsAre
<1>2. CASE Len(p) = 0
  <2>1. p = <<>>
    <3>1. p = [i \in 1..0 |-> q[i].slot]
      BY <1>1, <1>2
    <3> QED
      BY <3>1
  <2>2. List!After(p, first, List!Nexts) = first
    BY <2>1 DEF List!After
  <2> QED
    BY <1>1, <1>2, <2>2 DEF LinkedAs
<1>3. CASE Len(p) # 0
  <2>1. Len(p) \in 1..Len(q) /\ p # <<>>
    BY <1>1, <1>3
  <2>2. p[Len(p)] = q[Len(p)].slot /\ q[Len(p)].slot \in List!Live
    BY <1>1, <2>1 DEF LinkedAs
  <2>3. List!After(p, first, List!Nexts) = entry[q[Len(p)].slot].next
    BY <2>1, <2>2 DEF List!After, List!Nexts
  <2>4. entry[q[Len(p)].slot] = Linked(q, Len(p))
    BY <2>1 DEF LinkedAs
  <2> QED
    BY <2>3, <2>4 DEF Linked
<1> QED
  BY <1>2, <1>3

(* Cardinality is the same operator in an instance.                         *)
LEMMA SameCardinality == \A S : List!Cardinality(S) = Cardinality(S)
  BY DEF List!Cardinality, Cardinality

(* There are as many entries as the queue is long.                          *)
LEMMA LiveCounts ==
  ASSUME NEW q, Distinct(q), LinkedAs(q)
  PROVE  List!Cardinality(List!Live) = Len(q)
<1> DEFINE s == [i \in 1..Len(q) |-> q[i].slot]
<1>1. Len(q) \in Nat
  BY SlotsAre
<1>2. s \in Bijection(1..Len(q), List!Live)
  BY DEF Distinct, LinkedAs, Bijection, Injection, Surjection, IsInjective
<1>3. ExistsBijection(1..Len(q), List!Live)
  BY <1>2 DEF ExistsBijection
<1> QED
  BY <1>1, <1>3, FS_CountingElements, SameCardinality

(* The queue's addresses are walks of the list, forwards and backwards.     *)
LEMMA SlotsWalked ==
  ASSUME NEW q, Distinct(q), LinkedAs(q), NEW s, s = [i \in 1..Len(q) |-> q[i].slot]
  PROVE  /\ s \in List!Walks /\ Len(s) = Len(q)
         /\ List!Ends(s, first, List!Nexts)
         /\ List!Ends(List!Reverse(s), last, List!Prevs)
<1>1. Len(q) \in Nat /\ List!Cardinality(List!Live) = Len(q) /\ NULL \notin List!Live
  BY SlotsAre, LiveCounts DEF LinkedAs
<1>2. s \in [1..Len(q) -> List!Live] /\ s \in Seq(List!Live) /\ Len(s) = Len(q)
      /\ DOMAIN s = 1..Len(q)
  <2>1. s \in [1..Len(q) -> List!Live]
    BY DEF LinkedAs
  <2> QED
    BY <1>1, <2>1, SeqDef, LenProperties
<1>3. s \in List!Walks
  <2>1. Len(q) \in 0..List!Cardinality(List!Live)
    BY <1>1
  <2>2. [1..Len(q) -> List!Live] \in {[1..n -> List!Live] : n \in 0..List!Cardinality(List!Live)}
    BY <2>1
  <2> QED
    BY <1>2, <2>2, Zenon DEF List!Walks
<1>4. \A i \in 1..Len(q) : /\ s[i] \in List!Live
                           /\ List!Nexts[s[i]] = IF i = Len(q) THEN NULL ELSE s[i + 1]
                           /\ List!Prevs[s[i]] = IF i = 1 THEN NULL ELSE s[i - 1]
  <2> SUFFICES ASSUME NEW i \in 1..Len(q)
               PROVE  /\ s[i] \in List!Live
                      /\ List!Nexts[s[i]] = IF i = Len(q) THEN NULL ELSE s[i + 1]
                      /\ List!Prevs[s[i]] = IF i = 1 THEN NULL ELSE s[i - 1]
    OBVIOUS
  <2>1. s[i] = q[i].slot /\ s[i] \in List!Live
    BY <1>2
  <2>2. entry[s[i]] = Linked(q, i)
    BY <2>1 DEF LinkedAs
  <2>3. i # Len(q) => s[i + 1] = q[i + 1].slot
    BY <1>1
  <2>4. i # 1 => s[i - 1] = q[i - 1].slot
    BY <1>1
  <2>5. List!Nexts[s[i]] = entry[s[i]].next /\ List!Prevs[s[i]] = entry[s[i]].prev
    BY <2>1 DEF List!Nexts, List!Prevs
  <2> QED
    BY <2>1, <2>2, <2>3, <2>4, <2>5 DEF Linked
<1>5. List!Ends(s, first, List!Nexts)
  <2>1. List!Follows(s, first, List!Nexts)
    <3> SUFFICES ASSUME NEW i \in 1..Len(q)
                 PROVE  s[i] = IF i = 1 THEN first ELSE List!Nexts[s[i - 1]]
      BY <1>2 DEF List!Follows
    <3>1. CASE i = 1
      <4>1. Len(q) # 0 /\ 1 \in 1..Len(q)
        BY <1>1, <3>1
      <4>2. first = q[1].slot
        BY <4>1 DEF LinkedAs
      <4>3. s[1] = q[1].slot
        BY <4>1
      <4> QED
        BY <3>1, <4>2, <4>3
    <3>2. CASE i # 1
      <4>1. i - 1 \in 1..Len(q) /\ i - 1 # Len(q) /\ (i - 1) + 1 = i
        BY <1>1, <3>2
      <4> QED
        BY <1>4, <3>2, <4>1
    <3> QED
      BY <3>1, <3>2
  <2>2. List!After(s, first, List!Nexts) = NULL
    BY <1>2, <1>3, <2>1, WalkGetsTo
  <2> QED
    BY <2>1, <2>2 DEF List!Ends
<1>6. List!Ends(List!Reverse(s), last, List!Prevs)
  <2> DEFINE r == List!Reverse(s)
  <2>1. /\ DOMAIN r = 1..Len(q) /\ Len(r) = Len(q)
        /\ \A i \in 1..Len(q) : r[i] = s[Len(q) - i + 1]
    <3>1. r = [i \in 1..Len(q) |-> s[(Len(q) - i) + 1]]
      BY <1>2 DEF List!Reverse
    <3>2. \A i \in 1..Len(q) : s[(Len(q) - i) + 1] \in List!Live
      BY <1>1, <1>2
    <3>3. r \in Seq(List!Live)
      BY <1>1, <3>1, <3>2, IsASeq
    <3> QED
      <4>1. DOMAIN r = 1..Len(q)
        BY <3>1
      <4> HIDE DEF r
      <4>2. Len(r) \in Nat /\ DOMAIN r = 1..Len(r)
        BY <3>3, LenProperties
      <4>3. Len(r) = Len(q)
        BY <1>1, <4>1, <4>2
      <4> QED
        BY <3>1, <4>1, <4>3
  <2> HIDE DEF r
  <2>2. List!Follows(r, last, List!Prevs)
    <3> SUFFICES ASSUME NEW i \in 1..Len(q)
                 PROVE  r[i] = IF i = 1 THEN last ELSE List!Prevs[r[i - 1]]
      BY <2>1 DEF List!Follows
    <3>1. CASE i = 1
      <4>1. Len(q) # 0 /\ Len(q) - 1 + 1 = Len(q) /\ Len(q) \in 1..Len(q)
        BY <1>1
      <4>2. last = s[Len(q)]
        BY <1>2, <4>1 DEF LinkedAs
      <4> QED
        BY <2>1, <3>1, <4>1, <4>2
    <3>2. CASE i # 1
      <4> DEFINE j == Len(q) - (i - 1) + 1
      <4>1. i - 1 \in 1..Len(q) /\ j \in 1..Len(q) /\ j # 1 /\ j - 1 = Len(q) - i + 1
        BY <1>1, <3>2
      <4>2. r[i - 1] = s[j]
        BY <2>1, <4>1
      <4> HIDE DEF j
      <4>3. List!Prevs[s[j]] = s[j - 1]
        BY <1>4, <4>1
      <4> QED
        BY <2>1, <3>2, <4>1, <4>2, <4>3
    <3> QED
      BY <3>1, <3>2
  <2>3. List!After(r, last, List!Prevs) = NULL
    <3>1. CASE Len(q) = 0
      <4>1. r = <<>>
        BY <2>1, <3>1, EmptySeq DEF r, List!Reverse
      <4> QED
        BY <3>1, <4>1 DEF List!After, LinkedAs
    <3>2. CASE Len(q) # 0
      <4>1. Len(q) \in 1..Len(q) /\ 1 \in 1..Len(q) /\ Len(q) - Len(q) + 1 = 1
        BY <1>1, <3>2
      <4>2. r[Len(r)] = s[1] /\ r # <<>>
        BY <2>1, <4>1
      <4> QED
        BY <1>4, <4>1, <4>2 DEF List!After
    <3> QED
      BY <3>1, <3>2
  <2> QED
    BY <2>2, <2>3 DEF List!Ends, r
<1> QED
  BY <1>2, <1>3, <1>5, <1>6

(* What the list stands for is what is read off it.                         *)
ReadsOff == \A q : Distinct(q) /\ LinkedAs(q) => List!Sequence = q

LEMMA ReadOff == ReadsOff
<1> SUFFICES ASSUME NEW q, Distinct(q), LinkedAs(q)
             PROVE  List!Sequence = q
  BY DEF ReadsOff
<1> DEFINE met == CHOOSE p \in List!Walks : List!Ends(p, first, List!Nexts)
           s == [i \in 1..Len(q) |-> q[i].slot]
<1>1. /\ Len(q) \in Nat /\ q \in Seq(Entry) /\ DOMAIN q = 1..Len(q)
      /\ \A i \in 1..Len(q) : q[i] \in Entry
  BY SlotsAre DEF Distinct
<1>2. s \in List!Walks /\ List!Ends(s, first, List!Nexts)
  BY SlotsWalked
<1>3. met \in List!Walks /\ List!Ends(met, first, List!Nexts)
  BY <1>2
<1> HIDE DEF met, s
<1>4. /\ Len(met) \in 0..Len(q) /\ met = [i \in 1..Len(met) |-> q[i].slot]
      /\ NULL = IF Len(met) = Len(q) THEN NULL ELSE q[Len(met) + 1].slot
  BY <1>3, WalkMeetsQueue, WalkGetsTo DEF List!Ends
<1>5. Len(met) = Len(q)
  <2>1. CASE Len(met) # Len(q)
    <3>1. Len(met) + 1 \in 1..Len(q)
      <4>1. Len(met) \in 0..Len(q)
        BY <1>4
      <4> QED
        BY <1>1, <2>1, <4>1
    <3> QED
      BY <1>4, <2>1, <3>1, SlotsAre
  <2> QED
    BY <2>1
<1>6. List!Sequence = [i \in 1..Len(q) |-> [time  |-> entry[q[i].slot].time,
                                            frame |-> entry[q[i].slot].frame,
                                            slot  |-> q[i].slot]]
  <2>1. \A i \in 1..Len(q) : met[i] = q[i].slot
    BY <1>4, <1>5
  <2> QED
    BY <1>5, <2>1 DEF List!Sequence, met
<1>7. ASSUME NEW i \in 1..Len(q)
      PROVE  [time |-> entry[q[i].slot].time, frame |-> entry[q[i].slot].frame, slot |-> q[i].slot]
               = q[i]
  <2>1. entry[q[i].slot] = Linked(q, i)
    BY DEF LinkedAs
  <2>2. entry[q[i].slot].time = q[i].time /\ entry[q[i].slot].frame = q[i].frame
    BY <2>1 DEF Linked
  <2>3. q[i] \in Entry
    BY <1>1
  <2> QED
    BY <2>2, <2>3 DEF Entry
<1>8. q = [i \in 1..Len(q) |-> q[i]]
  BY <1>1, SeqDef
<1> QED
  BY <1>6, <1>7, <1>8

LEMMA ReadOffNext == ReadsOff'
  BY ReadOff, PTL

(* The list's invariant: it stands for the queue, which is as before.       *)
LinkedInv == Inv /\ LinkedAs(queue)

LEMMA QueueIsDistinct == Inv => Distinct(queue)
  BY LenProperties DEF Inv, TypeOK, NoSharedEntry, Distinct

(* A list that stands for the queue is well linked.                         *)
LEMMA StandsThenLinked == LinkedInv => WellLinked
<1> SUFFICES ASSUME LinkedInv
             PROVE  WellLinked
  OBVIOUS
<1>1. Distinct(queue) /\ LinkedAs(queue)
  BY QueueIsDistinct DEF LinkedInv
<1>2. /\ Len(queue) \in Nat
      /\ \A i \in 1..Len(queue) : /\ queue[i].slot \in Slot /\ queue[i].slot \in List!Live
                                  /\ queue[i].time \in Nat /\ queue[i].frame \in Frame
  BY <1>1, SlotsAre DEF LinkedAs
<1>3. List!Live \subseteq Slot
  BY <1>1, <1>2 DEF LinkedAs
<1>4. ASSUME NEW s \in List!Live
      PROVE  entry[s] \in [time : Nat, frame : Frame, next : List!Pointer, prev : List!Pointer]
  <2>1. PICK i \in 1..Len(queue) : s = queue[i].slot
    BY <1>1 DEF LinkedAs
  <2>2. entry[s] = Linked(queue, i)
    BY <1>1, <2>1 DEF LinkedAs
  <2>3. (i # Len(queue) => i + 1 \in 1..Len(queue)) /\ (i # 1 => i - 1 \in 1..Len(queue))
    BY <1>2
  <2> QED
    BY <1>2, <2>2, <2>3 DEF Linked, List!Pointer
<1>5. first \in List!Pointer /\ last \in List!Pointer
  <2>1. Len(queue) # 0 => 1 \in 1..Len(queue) /\ Len(queue) \in 1..Len(queue)
    BY <1>2
  <2> QED
    BY <1>1, <1>2, <2>1 DEF LinkedAs, List!Pointer
<1>6. List!TypeOK
  BY <1>3, <1>4, <1>5 DEF List!TypeOK, LinkedInv, Inv, TypeOK
<1>7. List!WellLinked
  <2> DEFINE s == [i \in 1..Len(queue) |-> queue[i].slot]
  <2>1. /\ s \in List!Walks /\ Len(s) = Len(queue)
        /\ List!Ends(s, first, List!Nexts)
        /\ List!Ends(List!Reverse(s), last, List!Prevs)
    BY <1>1, SlotsWalked
  <2>2. List!Cardinality(List!Live) = Len(queue)
    BY <1>1, LiveCounts
  <2> HIDE DEF s
  <2> QED
    BY <2>1, <2>2 DEF List!WellLinked
<1> QED
  BY <1>6, <1>7 DEF WellLinked

(* schedule() links its entry in where the queue takes it.                  *)
LEMMA ListSchedules ==
  ASSUME LinkedInv, NEW f \in Frame, NEW delay \in 0..MaxTime, NEW new \in Slot,
         List!Schedule(f, delay, new), queue' = List!Sequence'
  PROVE  Schedule(f, delay, new) /\ LinkedAs(queue)'
<1> DEFINE time == now + delay
           e == [time |-> time, frame |-> f, slot |-> new]
           n == Len(queue)
<1>1. /\ Distinct(queue) /\ LinkedAs(queue) /\ queue \in Seq(Entry)
      /\ now \in Nat /\ delay \in Nat /\ time \in Nat /\ e \in Entry
  BY QueueIsDistinct, TimeAssumption DEF LinkedInv, Inv, TypeOK, Entry
<1>2. /\ n \in Nat /\ DOMAIN queue = 1..n
      /\ \A i \in 1..n : /\ queue[i] \in Entry /\ queue[i].slot \in List!Live
                         /\ queue[i].slot # NULL /\ queue[i].time \in Nat
                         /\ entry[queue[i].slot] = Linked(queue, i)
  BY <1>1, SlotsAre DEF LinkedAs
<1>linked. \A i \in 1..n : /\ entry[queue[i].slot].time = queue[i].time
                        /\ entry[queue[i].slot].frame = queue[i].frame
                        /\ entry[queue[i].slot].next = Linked(queue, i).next
                        /\ entry[queue[i].slot].prev = Linked(queue, i).prev
  <2> SUFFICES ASSUME NEW i \in 1..n
               PROVE  /\ entry[queue[i].slot].time = queue[i].time
                      /\ entry[queue[i].slot].frame = queue[i].frame
                      /\ entry[queue[i].slot].next = Linked(queue, i).next
                      /\ entry[queue[i].slot].prev = Linked(queue, i).prev
    OBVIOUS
  <2>1. entry[queue[i].slot] = Linked(queue, i)
    BY <1>2
  <2> QED
    BY <2>1 DEF Linked
<1>3. \A i, j \in 1..n : queue[i].slot = queue[j].slot => i = j
  BY <1>1 DEF Distinct
<1>4. new \notin List!Live /\ now' = now /\ new # NULL
  BY NullAssumption DEF List!Schedule
<1>5. PICK walked \in List!Walks :
        LET prev == IF walked = <<>> THEN NULL ELSE walked[Len(walked)]
            cur  == List!After(walked, first, List!Nexts)
        IN /\ List!Walk(walked, time)
           /\ List!Link(new, [time |-> time, frame |-> f, next |-> cur, prev |-> prev])
           /\ last'  = IF cur = NULL THEN new ELSE last
           /\ first' = IF prev = NULL THEN new ELSE first
  BY DEF List!Schedule
<1> DEFINE m == Len(walked)
           k == m + 1
           prev == IF m = 0 THEN NULL ELSE queue[m].slot
           cur == IF m = n THEN NULL ELSE queue[k].slot
           fields == [time |-> time, frame |-> f, next |-> cur, prev |-> prev]
<1>6. List!Follows(walked, first, List!Nexts)
  BY <1>5 DEF List!Walk
<1>7. /\ m \in 0..n /\ m \in Nat /\ DOMAIN walked = 1..m
      /\ \A i \in 1..m : walked[i] = queue[i].slot
      /\ m = 0 <=> walked = <<>>
      /\ List!After(walked, first, List!Nexts) = cur
  <2>1. /\ Len(walked) \in 0..Len(queue)
        /\ walked = [i \in 1..Len(walked) |-> queue[i].slot]
        /\ List!After(walked, first, List!Nexts)
             = IF Len(walked) = Len(queue) THEN NULL ELSE queue[Len(walked) + 1].slot
    BY <1>1, <1>6, WalkMeetsQueue, WalkGetsTo
  <2>2. ASSUME NEW l \in Nat, Len(walked) = l
        PROVE  l = 0 <=> walked = <<>>
    <3>1. walked = [i \in 1..l |-> queue[i].slot]
      BY <2>1, <2>2
    <3>2. CASE l = 0
      <4>1. walked = [i \in 1..0 |-> queue[i].slot]
        BY <3>1, <3>2
      <4> QED
        BY <3>2, <4>1
    <3>3. CASE l # 0
      <4>1. 1 \in DOMAIN walked
        BY <3>1, <3>3
      <4> QED
        BY <3>3, <4>1
    <3> QED
      BY <3>2, <3>3
  <2>3. Len(walked) \in Nat
    <3>1. Len(queue) \in Nat /\ Len(walked) \in 0..Len(queue)
      BY <1>2, <2>1
    <3> QED
      BY <3>1
  <2> QED
    BY <2>1, <2>2, <2>3
<1> HIDE DEF m, n
<1>8. (IF walked = <<>> THEN NULL ELSE walked[Len(walked)]) = prev
  <2>1. Len(walked) = m
    BY DEF m
  <2>2. m # 0 => m \in 1..m
    BY <1>7
  <2> QED
    BY <1>7, <2>1, <2>2
<1>9. /\ List!Walk(walked, time)
      /\ List!Link(new, fields)
      /\ last'  = IF cur = NULL THEN new ELSE last
      /\ first' = IF prev = NULL THEN new ELSE first
  BY <1>5, <1>7, <1>8
<1>10. k \in 1..(n + 1) /\ m \in Nat
  BY <1>2, <1>7
<1>11. WalkStopsAt(queue, time, k)
  <2>1. \A i \in 1..m : entry[walked[i]].time < time
    <3>1. DOMAIN walked = 1..m
      BY <1>7
    <3> QED
      BY <1>9, <3>1 DEF List!Walk
  <2>2. \A i \in 1..(k - 1) : queue[i].time < time
    <3> SUFFICES ASSUME NEW i \in 1..(k - 1)
                 PROVE  queue[i].time < time
      OBVIOUS
    <3>1. i \in 1..m /\ i \in 1..n
      BY <1>2, <1>7, <1>10
    <3>2. walked[i] = queue[i].slot /\ entry[queue[i].slot].time = queue[i].time
      BY <1>linked, <1>7, <3>1
    <3> QED
      BY <2>1, <3>1, <3>2
  <2>3. ASSUME k <= n
        PROVE  ~(queue[k].time < time)
    <3>1. m # n /\ k \in 1..n
      BY <1>2, <1>10, <2>3
    <3>2. cur = queue[k].slot /\ cur # NULL /\ entry[cur].time = queue[k].time
      BY <1>2, <1>linked, <3>1
    <3>3. ~(entry[cur].time < time)
      BY <1>7, <1>9, <3>2 DEF List!Walk
    <3> QED
      BY <3>2, <3>3
  <2>4. k \in 1..(Len(queue) + 1) /\ n = Len(queue)
    BY <1>10 DEF n
  <2> HIDE DEF k
  <2> QED
    BY <2>2, <2>3, <2>4 DEF WalkStopsAt
<1> HIDE DEF time, e
<1>12. PICK q : q = InsertAt(queue, k, e)
  OBVIOUS
<1>13. /\ q \in Seq(Entry)
       /\ Len(q) = n + 1
       /\ \A i \in 1..(n + 1) :
            q[i] = IF i < k THEN queue[i] ELSE IF i = k THEN e ELSE queue[i - 1]
  <2>1. queue \in Seq(Entry) /\ e \in Entry /\ k \in 1..(Len(queue) + 1) /\ n = Len(queue)
    BY <1>1, <1>10 DEF n
  <2> HIDE DEF k
  <2>2. PICK l \in 1..(Len(queue) + 1) : l = k
    BY <2>1
  <2>3. /\ InsertAt(queue, l, e) \in Seq(Entry)
        /\ Len(InsertAt(queue, l, e)) = Len(queue) + 1
        /\ \A i \in 1..(Len(queue) + 1) :
             InsertAt(queue, l, e)[i] = IF i < l THEN queue[i] ELSE IF i = l THEN e ELSE queue[i - 1]
    BY <1>1, InsertAtProperties
  <2>4. /\ InsertAt(queue, k, e) \in Seq(Entry)
        /\ Len(InsertAt(queue, k, e)) = Len(queue) + 1
        /\ \A i \in 1..(Len(queue) + 1) :
             InsertAt(queue, k, e)[i] = IF i < k THEN queue[i] ELSE IF i = k THEN e ELSE queue[i - 1]
    BY <2>2, <2>3
  <2> QED
    BY <1>12, <2>1, <2>4
<1>14. e.time = time /\ e.frame = f /\ e.slot = new
  BY DEF e
<1> DEFINE Old(i) == IF i < k THEN i ELSE i - 1
<1>15. \A i \in 1..(n + 1) : i # k => Old(i) \in 1..n /\ q[i] = queue[Old(i)]
  BY <1>2, <1>10, <1>13
<1>16. Distinct(q)
  <2>0. q \in Seq(Entry) /\ Len(q) = n + 1
    BY <1>13
  <2> SUFFICES ASSUME NEW i \in 1..(n + 1), NEW j \in 1..(n + 1), q[i].slot = q[j].slot
               PROVE  i = j
    BY <2>0, Zenon DEF Distinct
  <2>1. q[k] = e
    BY <1>2, <1>10, <1>13
  <2>2. \A l \in 1..(n + 1) : l # k => q[l].slot # new
    BY <1>2, <1>4, <1>15
  <2>3. CASE i = k \/ j = k
    BY <1>14, <2>1, <2>2, <2>3
  <2>4. CASE i # k /\ j # k
    <3>1. Old(i) = Old(j)
      BY <1>3, <1>15, <2>4
    <3> QED
      BY <1>10, <2>4, <3>1
  <2> QED
    BY <2>3, <2>4
<1>17. LinkedAs(q)'
  <2>1. entry' = [s \in List!Live \cup {new} |->
                    IF s = new THEN fields
                    ELSE [time  |-> entry[s].time,
                          frame |-> entry[s].frame,
                          next  |-> IF s = fields.prev THEN new ELSE entry[s].next,
                          prev  |-> IF s = fields.next THEN new ELSE entry[s].prev]]
    BY <1>9 DEF List!Link
  <2>2. List!Live' = List!Live \cup {new} /\ fields.next = cur /\ fields.prev = prev
    BY <2>1 DEF List!Live
  <2> HIDE DEF fields
  <2>3. entry'[new] = fields
    BY <2>1
  <2>4. \A s \in List!Live : entry'[s] = [time  |-> entry[s].time,
                                          frame |-> entry[s].frame,
                                          next  |-> IF s = prev THEN new ELSE entry[s].next,
                                          prev  |-> IF s = cur THEN new ELSE entry[s].prev]
    BY <1>4, <2>1, <2>2
  <2>5. List!Live' = {q[i].slot : i \in 1..Len(q)}
    <3>1. List!Live = {queue[i].slot : i \in 1..n}
      BY <1>1 DEF LinkedAs, n
    <3>2. \A i \in 1..(n + 1) : q[i].slot \in List!Live \cup {new}
      BY <1>2, <1>13, <1>14, <1>15
    <3>3. q[k].slot = new /\ k \in 1..(n + 1)
      BY <1>2, <1>10, <1>13, <1>14
    <3>4. ASSUME NEW i \in 1..n
          PROVE  \E j \in 1..(n + 1) : queue[i].slot = q[j].slot
      <4>1. CASE i < k
        <5>1. i \in 1..(n + 1) /\ q[i] = queue[i]
          BY <1>2, <1>13, <4>1
        <5> QED
          BY <5>1
      <4>2. CASE ~(i < k)
        <5>1. i + 1 \in 1..(n + 1) /\ ~(i + 1 < k) /\ i + 1 # k /\ (i + 1) - 1 = i
          BY <1>2, <1>10, <4>2
        <5>2. q[i + 1] = queue[i]
          BY <1>13, <5>1
        <5> QED
          BY <5>1, <5>2
      <4> QED
        BY <4>1, <4>2
    <3> QED
      BY <1>13, <2>2, <3>1, <3>2, <3>3, <3>4
  <2>6. ASSUME NEW i \in 1..(n + 1)
        PROVE  entry'[q[i].slot] = Linked(q, i)
    <3>1. CASE i = k
      <4>1. q[k] = e /\ q[i].slot = new
        BY <1>2, <1>13, <1>14, <3>1
      <4>2. k # n + 1 => q[k + 1] = queue[k] /\ k + 1 \in 1..(n + 1) /\ m # n
        BY <1>2, <1>10, <1>13
      <4>3. k # 1 => q[k - 1] = queue[m] /\ m # 0 /\ k - 1 = m
        BY <1>2, <1>10, <1>13
      <4>4. (k = n + 1 => m = n) /\ (k = 1 => m = 0)
        BY <1>2, <1>10
      <4>5. Linked(q, k).next = cur /\ Linked(q, k).prev = prev
        BY <1>13, <4>2, <4>3, <4>4 DEF Linked
      <4>6. Linked(q, k) = [time |-> time, frame |-> f, next |-> cur, prev |-> prev]
        BY <1>14, <4>1, <4>5 DEF Linked
      <4> QED
        BY <2>3, <3>1, <4>1, <4>6 DEF fields
    <3>2. CASE i < m
      <4>1. i \in 1..n /\ q[i] = queue[i] /\ q[i + 1] = queue[i + 1] /\ (i # 1 => q[i - 1] = queue[i - 1])
            /\ i # n /\ i # n + 1 /\ m \in 1..n
        BY <1>2, <1>7, <1>10, <1>13, <3>2
      <4>2. queue[i].slot # prev /\ queue[i].slot # cur
        <5>1. queue[i].slot # queue[m].slot /\ m # 0
          BY <1>3, <3>2, <4>1
        <5>2. m # n => k \in 1..n /\ i # k
          BY <1>2, <1>7, <1>10, <3>2, <4>1
        <5> QED
          BY <1>2, <1>3, <4>1, <5>1, <5>2
      <4>3. entry'[q[i].slot] = Linked(queue, i)
        <5>1. queue[i].slot \in List!Live
          BY <1>2, <4>1
        <5>2. entry'[queue[i].slot] = [time  |-> entry[queue[i].slot].time,
                                       frame |-> entry[queue[i].slot].frame,
                                       next  |-> entry[queue[i].slot].next,
                                       prev  |-> entry[queue[i].slot].prev]
          BY <2>4, <4>2, <5>1
        <5> QED
          BY <1>linked, <4>1, <5>2 DEF Linked
      <4>4. Linked(queue, i) = Linked(q, i)
        BY <1>13, <4>1 DEF Linked, n
      <4> QED
        BY <4>3, <4>4
    <3>3. CASE i = m
      <4>1. i \in 1..n /\ q[i] = queue[i] /\ q[i + 1] = e /\ (i # 1 => q[i - 1] = queue[i - 1])
            /\ i # n + 1 /\ m # 0
        BY <1>2, <1>7, <1>10, <1>13, <3>3
      <4>2. queue[i].slot = prev /\ queue[i].slot # cur
        <5>1. m # n => k \in 1..n /\ i # k
          BY <1>2, <1>7, <1>10, <3>3
        <5> QED
          BY <1>2, <1>3, <3>3, <4>1, <5>1
      <4>3. entry'[q[i].slot] = [time |-> queue[i].time, frame |-> queue[i].frame,
                               next |-> new, prev |-> Linked(queue, i).prev]
        <5>1. queue[i].slot \in List!Live
          BY <1>2, <4>1
        <5>2. entry'[queue[i].slot] = [time  |-> entry[queue[i].slot].time,
                                       frame |-> entry[queue[i].slot].frame,
                                       next  |-> new,
                                       prev  |-> entry[queue[i].slot].prev]
          BY <2>4, <4>2, <5>1
        <5> QED
          BY <1>linked, <4>1, <5>2
      <4>4. [time |-> queue[i].time, frame |-> queue[i].frame,
             next |-> new, prev |-> Linked(queue, i).prev] = Linked(q, i)
        BY <1>13, <1>14, <4>1 DEF Linked
      <4> QED
        BY <4>3, <4>4
    <3>4. CASE i = k + 1
      <4>1. k \in 1..n /\ q[i] = queue[k] /\ q[i - 1] = e /\ i # 1 /\ m # n /\ i - 1 = k
            /\ (i # n + 1 => q[i + 1] = queue[k + 1]) /\ (i = n + 1 <=> k = n)
        BY <1>2, <1>7, <1>10, <1>13, <3>4, SMTT(30)
      <4>2. queue[k].slot = cur /\ queue[k].slot # prev
        <5>1. m # 0 => m \in 1..n /\ m # k
          BY <1>2, <1>7, <1>10
        <5> QED
          BY <1>2, <1>3, <4>1, <5>1
      <4>3. entry'[q[i].slot] = [time |-> queue[k].time, frame |-> queue[k].frame,
                               next |-> Linked(queue, k).next, prev |-> new]
        BY <1>2, <1>linked, <2>4, <4>1, <4>2
      <4>4. [time |-> queue[k].time, frame |-> queue[k].frame,
             next |-> Linked(queue, k).next, prev |-> new] = Linked(q, i)
        <5>1. Linked(queue, k).next = Linked(q, i).next
          BY <1>13, <4>1 DEF Linked, n
        <5>2. Linked(q, i).prev = new
          BY <1>13, <1>14, <4>1 DEF Linked
        <5> QED
          BY <4>1, <5>1, <5>2 DEF Linked
      <4> QED
        BY <4>3, <4>4
    <3>5. CASE i > k + 1
      <4> DEFINE o == i - 1
      <4>1. o \in 1..n /\ q[i] = queue[o] /\ q[i - 1] = queue[o - 1] /\ i # 1 /\ o # 1
            /\ (i # n + 1 => q[i + 1] = queue[o + 1]) /\ (i = n + 1 <=> o = n)
            /\ k < o /\ m < o /\ m # n /\ k \in 1..n
        BY <1>2, <1>7, <1>10, <1>13, <3>5
      <4> HIDE DEF o
      <4>2. queue[o].slot # prev /\ queue[o].slot # cur
        <5>1. m # 0 => m \in 1..n /\ m # o
          BY <1>2, <1>10, <4>1
        <5>2. k # o
          BY <1>10, <4>1
        <5> QED
          BY <1>2, <1>3, <4>1, <5>1, <5>2
      <4>3. entry'[q[i].slot] = Linked(queue, o)
        <5>1. queue[o].slot \in List!Live
          BY <1>2, <4>1
        <5>2. entry'[queue[o].slot] = [time  |-> entry[queue[o].slot].time,
                                       frame |-> entry[queue[o].slot].frame,
                                       next  |-> entry[queue[o].slot].next,
                                       prev  |-> entry[queue[o].slot].prev]
          BY <2>4, <4>2, <5>1
        <5> QED
          BY <1>linked, <4>1, <5>2 DEF Linked
      <4>4. Linked(queue, o) = Linked(q, i)
        BY <1>13, <4>1 DEF Linked, n
      <4> QED
        BY <4>3, <4>4
    <3>6. i < m \/ i = m \/ i = k \/ i = k + 1 \/ i > k + 1
      BY <1>2, <1>10
    <3> QED
      BY <3>1, <3>2, <3>3, <3>4, <3>5, <3>6
  <2>7. first' = IF Len(q) = 0 THEN NULL ELSE q[1].slot
    <3>1. Len(q) # 0 /\ 1 \in 1..(n + 1)
      BY <1>2, <1>13
    <3>2. CASE m = 0
      <4>1. q[1] = e
        BY <1>13, <3>1, <3>2
      <4> QED
        BY <1>9, <1>14, <3>1, <3>2, <4>1
    <3>3. CASE m # 0
      <4>1. m \in 1..n /\ q[1] = queue[1] /\ n # 0
        BY <1>2, <1>7, <1>10, <1>13, <3>1, <3>3
      <4>2. first' = first
        BY <1>2, <1>9, <3>3, <4>1
      <4> QED
        BY <1>1, <3>1, <4>1, <4>2 DEF LinkedAs, n
    <3> QED
      BY <3>2, <3>3
  <2>8. last' = IF Len(q) = 0 THEN NULL ELSE q[Len(q)].slot
    <3>1. Len(q) # 0 /\ Len(q) = n + 1 /\ n + 1 \in 1..(n + 1)
      BY <1>2, <1>13
    <3>2. CASE m = n
      <4>1. q[n + 1] = e
        BY <1>2, <1>13, <3>1, <3>2
      <4> QED
        BY <1>9, <1>14, <3>1, <3>2, <4>1
    <3>3. CASE m # n
      <4>1. k \in 1..n /\ q[n + 1] = queue[n] /\ n # 0
        BY <1>2, <1>7, <1>10, <1>13, <3>1, <3>3
      <4>2. last' = last
        BY <1>2, <1>9, <3>3, <4>1
      <4> QED
        BY <1>1, <3>1, <4>1, <4>2 DEF LinkedAs, n
    <3> QED
      BY <3>2, <3>3
  <2> QED
    BY <1>13, <2>5, <2>6, <2>7, <2>8 DEF LinkedAs
<1>18. \A r : Distinct(r)' /\ LinkedAs(r)' => List!Sequence' = r
  BY ReadOffNext DEF ReadsOff
<1>19. List!Sequence' = q
  <2>1. Distinct(q)'
    BY <1>16 DEF Distinct
  <2> QED
    BY <1>17, <1>18, <2>1
<1>20. queue' = q
  BY <1>19
<1>21. LinkedAs(queue)'
  BY <1>17, <1>20 DEF LinkedAs
<1>22. \A i \in DOMAIN queue : queue[i].slot # new
  BY <1>2, <1>4
<1> QED
  BY <1>4, <1>10, <1>11, <1>12, <1>20, <1>21, <1>22 DEF Schedule, time, e, n

(* consume() unlinks the entry the queue loses.                             *)
LEMMA ListConsumes ==
  ASSUME LinkedInv, List!Consume, queue' = List!Sequence'
  PROVE  Consume /\ LinkedAs(queue)'
<1> DEFINE n == Len(queue)
           q == Tail(queue)
<1>1. Distinct(queue) /\ LinkedAs(queue) /\ queue \in Seq(Entry)
  BY QueueIsDistinct DEF LinkedInv, Inv, TypeOK
<1>2. /\ n \in Nat /\ DOMAIN queue = 1..n
      /\ \A i \in 1..n : /\ queue[i] \in Entry /\ queue[i].slot \in List!Live
                         /\ queue[i].slot # NULL /\ queue[i].time \in Nat
                         /\ entry[queue[i].slot] = Linked(queue, i)
  BY <1>1, SlotsAre DEF LinkedAs
<1>3. \A i, j \in 1..n : queue[i].slot = queue[j].slot => i = j
  BY <1>1 DEF Distinct
<1>4. /\ first # NULL /\ entry[first].time <= now /\ now' = now
      /\ first' = entry[first].next
      /\ entry' = [s \in List!Live \ {first} |->
                     IF s = first' THEN [entry[s] EXCEPT !.prev = NULL] ELSE entry[s]]
      /\ last' = IF last = first THEN NULL ELSE last
  BY DEF List!Consume
<1>5. n # 0 /\ 1 \in 1..n /\ n \in 1..n /\ first = queue[1].slot /\ last = queue[n].slot
  BY <1>1, <1>2, <1>4 DEF LinkedAs
<1>6. entry[first] = Linked(queue, 1)
  BY <1>2, <1>5
<1>7. /\ queue # <<>> /\ Head(queue) = queue[1]
      /\ q \in Seq(Entry) /\ Len(q) = n - 1
      /\ \A i \in 1..(n - 1) : q[i] = queue[i + 1]
  <2>1. queue # <<>>
    BY <1>5, EmptySeq
  <2> QED
    BY <1>1, <2>1, HeadTailProperties
<1>8. first' = IF n = 1 THEN NULL ELSE queue[2].slot
  BY <1>4, <1>6 DEF Linked, n
<1> HIDE DEF n
<1>9. PICK r : r = q
  OBVIOUS
<1> HIDE DEF q
<1>10. /\ r \in Seq(Entry) /\ Len(r) = n - 1
       /\ \A i \in 1..(n - 1) : r[i] = queue[i + 1] /\ i + 1 \in 1..n
  BY <1>2, <1>5, <1>7, <1>9
<1>11. Distinct(r)
  <2> SUFFICES ASSUME NEW i \in 1..(n - 1), NEW j \in 1..(n - 1), r[i].slot = r[j].slot
               PROVE  i = j
    BY <1>10 DEF Distinct
  <2>1. i + 1 = j + 1
    BY <1>3, <1>10
  <2> QED
    BY <2>1
<1>12. LinkedAs(r)'
  <2>1. List!Live' = List!Live \ {first}
    BY <1>4 DEF List!Live
  <2>2. List!Live' = {r[i].slot : i \in 1..Len(r)}
    <3>1. List!Live = {queue[i].slot : i \in 1..n}
      BY <1>1 DEF LinkedAs, n
    <3>2. ASSUME NEW i \in 1..(n - 1)
          PROVE  r[i].slot \in List!Live \ {first}
      <4>1. i + 1 \in 1..n /\ i + 1 # 1 /\ r[i].slot = queue[i + 1].slot
        BY <1>10
      <4> QED
        BY <1>2, <1>3, <1>5, <4>1
    <3>3. ASSUME NEW i \in 1..n, queue[i].slot # first
          PROVE  \E j \in 1..(n - 1) : queue[i].slot = r[j].slot
      <4>1. i - 1 \in 1..(n - 1) /\ (i - 1) + 1 = i
        BY <1>2, <1>5, <3>3
      <4>2. r[i - 1] = queue[i]
        BY <1>10, <4>1
      <4> QED
        BY <4>1, <4>2
    <3>4. {r[i].slot : i \in 1..(n - 1)} \subseteq List!Live \ {first}
      BY <3>2
    <3>5. List!Live \ {first} \subseteq {r[i].slot : i \in 1..(n - 1)}
      BY <3>1, <3>3
    <3> QED
      BY <1>10, <2>1, <3>4, <3>5
  <2>3. ASSUME NEW i \in 1..(n - 1)
        PROVE  entry'[r[i].slot] = Linked(r, i)
    <3>1. /\ i + 1 \in 1..n /\ i + 1 # 1 /\ r[i] = queue[i + 1]
          /\ (i # n - 1 => r[i + 1] = queue[(i + 1) + 1])
          /\ (i = n - 1 <=> i + 1 = n)
          /\ (i # 1 => r[i - 1] = queue[i])
          /\ (i + 1) - 1 = i
      BY <1>2, <1>10
    <3>2. /\ entry[queue[i + 1].slot] = Linked(queue, i + 1)
          /\ queue[i + 1].slot \in List!Live \ {first}
      BY <1>2, <1>3, <1>5, <3>1
    <3>3. Linked(queue, i + 1).next = Linked(r, i).next
      BY <1>10, <3>1 DEF Linked, n
    <3>4. CASE i = 1
      <4>1. queue[i + 1].slot = first'
        BY <1>8, <3>1, <3>4
      <4>2. entry'[queue[i + 1].slot] = [entry[queue[i + 1].slot] EXCEPT !.prev = NULL]
        BY <1>4, <3>2, <4>1
      <4>3. Linked(r, i).prev = NULL
        BY <3>4 DEF Linked
      <4> QED
        BY <3>1, <3>2, <3>3, <4>2, <4>3 DEF Linked
    <3>5. CASE i # 1
      <4>1. queue[i + 1].slot # first'
        <5>1. n # 1 /\ 2 \in 1..n /\ i + 1 # 2
          BY <1>2, <3>1, <3>5
        <5> QED
          BY <1>3, <1>8, <3>1, <5>1
      <4>2. entry'[queue[i + 1].slot] = Linked(queue, i + 1)
        BY <1>4, <3>2, <4>1
      <4>3. Linked(r, i).prev = Linked(queue, i + 1).prev
        BY <3>1, <3>5 DEF Linked
      <4> QED
        BY <3>1, <3>3, <4>2, <4>3 DEF Linked
    <3> QED
      BY <3>4, <3>5
  <2>4. first' = IF Len(r) = 0 THEN NULL ELSE r[1].slot
    <3>1. n # 1 => 1 \in 1..(n - 1) /\ 1 + 1 = 2 /\ Len(r) # 0
      BY <1>2, <1>5, <1>10
    <3>2. n = 1 => Len(r) = 0
      BY <1>10
    <3> QED
      BY <1>8, <1>10, <3>1, <3>2
  <2>5. last' = IF Len(r) = 0 THEN NULL ELSE r[Len(r)].slot
    <3>1. n # 1 => n - 1 \in 1..(n - 1) /\ (n - 1) + 1 = n /\ Len(r) # 0
      BY <1>2, <1>5, <1>10
    <3>2. n = 1 => Len(r) = 0
      BY <1>10
    <3>3. n # 1 => last # first
      BY <1>3, <1>5
    <3> QED
      BY <1>4, <1>5, <1>10, <3>1, <3>2, <3>3
  <2> QED
    BY <1>10, <2>2, <2>3, <2>4, <2>5 DEF LinkedAs
<1>13. List!Sequence' = r
  <2>1. Distinct(r)'
    BY <1>11 DEF Distinct
  <2> QED
    BY <1>12, <2>1, ReadOffNext DEF ReadsOff
<1>14. queue' = Tail(queue) /\ queue' = r
  BY <1>9, <1>13 DEF q
<1>15. LinkedAs(queue)'
  BY <1>12, <1>14 DEF LinkedAs
<1>16. Head(queue).time <= now
  BY <1>4, <1>6, <1>7 DEF Linked
<1> QED
  BY <1>4, <1>7, <1>14, <1>15, <1>16 DEF Consume

(* The first list stands for the empty queue.                               *)
LEMMA ListInitInv == ListInit => Init /\ LinkedInv
<1> SUFFICES ASSUME ListInit
             PROVE  Init /\ LinkedInv
  OBVIOUS
<1>1. entry = <<>> /\ first = NULL /\ last = NULL /\ now \in 0..MaxTime /\ queue = List!Sequence
  BY DEF ListInit, List!Init
<1>2. Distinct(<<>>) /\ Len(<<>>) = 0
  BY EmptySeq DEF Distinct
<1>3. LinkedAs(<<>>)
  BY <1>1, <1>2 DEF LinkedAs, List!Live
<1>4. queue = <<>>
  BY <1>1, <1>2, <1>3, ReadOff DEF ReadsOff
<1>5. Init
  BY <1>1, <1>4 DEF Init
<1> QED
  BY <1>3, <1>4, <1>5, InitInv DEF LinkedInv

(* Every step of the list is that step of the queue.                        *)
LEMMA ListNextInv == LinkedInv /\ [ListNext]_listVars => [Next]_vars /\ LinkedInv'
<1> SUFFICES ASSUME LinkedInv, [ListNext]_listVars
             PROVE  [Next]_vars /\ LinkedInv'
  OBVIOUS
<1>1. CASE \E f \in Frame, delay \in 0..MaxTime, s \in Slot :
             List!Schedule(f, delay, s) /\ queue' = List!Sequence'
  <2>1. PICK f \in Frame, delay \in 0..MaxTime, s \in Slot :
          List!Schedule(f, delay, s) /\ queue' = List!Sequence'
    BY <1>1
  <2>2. Schedule(f, delay, s) /\ LinkedAs(queue)'
    BY <2>1, ListSchedules
  <2> QED
    BY <2>2, ScheduleInv DEF Next, LinkedInv
<1>2. CASE List!Consume /\ queue' = List!Sequence'
  <2>1. Consume /\ LinkedAs(queue)'
    BY <1>2, ListConsumes
  <2> QED
    BY <2>1, ConsumeInv DEF Next, LinkedInv
<1>3. CASE List!SetClock /\ queue' = List!Sequence'
  <2>1. entry' = entry /\ first' = first /\ last' = last /\ now' \in 0..MaxTime
    BY <1>3 DEF List!SetClock
  <2>2. Distinct(queue) /\ LinkedAs(queue)
    BY QueueIsDistinct DEF LinkedInv
  <2>3. PICK q : q = queue
    OBVIOUS
  <2>4. Distinct(q)' /\ LinkedAs(q)'
    BY <2>1, <2>2, <2>3 DEF Distinct, LinkedAs, List!Live
  <2>5. queue' = queue
    BY <1>3, <2>3, <2>4, ReadOffNext DEF ReadsOff
  <2>6. SetClock /\ LinkedAs(queue)'
    BY <2>1, <2>2, <2>5 DEF SetClock, LinkedAs, List!Live
  <2>7. Next
    BY <2>6 DEF Next
  <2> QED
    BY <2>6, <2>7, NextInv DEF LinkedInv
<1>4. CASE UNCHANGED listVars
  <2>1. UNCHANGED vars /\ entry' = entry /\ first' = first /\ last' = last
    BY <1>4 DEF listVars
  <2>2. LinkedAs(queue)'
    BY <2>1 DEF LinkedInv, vars, LinkedAs, List!Live
  <2> QED
    BY <2>1, <2>2, NextInv DEF LinkedInv
<1> QED
  BY <1>1, <1>2, <1>3, <1>4 DEF ListNext, List!Next

(* For any number of entries, the pointers of the list are consistent:      *)
(* whatever schedule() and consume() do in whatever order, both directions  *)
(* meet every allocated entry once, and no pointer leads to a deleted one.  *)
THEOREM ListIsWellLinked == ListSpec => []WellLinked
<1>1. ListSpec => []LinkedInv
  BY ListInitInv, ListNextInv, PTL DEF ListSpec
<1> QED
  BY <1>1, StandsThenLinked, PTL

(* What schedule() and consume() do to the list's pointers is what they do  *)
(* to the ordered queue.                                                    *)
THEOREM ListImplementsQueue == ListSpec => ImplementsTaskQueue
  BY ListInitInv, ListNextInv, PTL DEF ListSpec, ImplementsTaskQueue, Spec

(* And so the linked list honours exactly the pending calls that Scheduler  *)
(* allows.                                                                  *)
THEOREM ListImplementsScheduler == ListSpec => ImplementsScheduler
  BY ListImplementsQueue, QueueImplementsScheduler, PTL DEF ImplementsTaskQueue

=============================================================================
