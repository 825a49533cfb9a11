------------------------- MODULE TelnetServerProofs -------------------------
(***************************************************************************)
(* For every set of connections, every content of fresh memory, every      *)
(* choice of the outcomes a line may have and every bound: no connection's *)
(* frame is orphaned while no fatal exception has stopped them all.        *)
(***************************************************************************)
EXTENDS TelnetServer, SequenceTheorems, TLAPS

(* What inserting an element into a sequence yields, position by position.  *)
LEMMA InsertAtProperties ==
  ASSUME NEW S, NEW q \in Seq(S), NEW e \in S, NEW p \in 1..(Len(q) + 1)
  PROVE  /\ InsertAt(q, p, e) \in Seq(S)
         /\ Len(InsertAt(q, p, e)) = Len(q) + 1
         /\ \A i \in 1..(Len(q) + 1) :
              InsertAt(q, p, e)[i] = IF i < p THEN q[i]
                                     ELSE IF i = p THEN e
                                     ELSE q[i - 1]
<1> DEFINE front == SubSeq(q, 1, p - 1)
           back  == SubSeq(q, p, Len(q))
<1>1. /\ front \in Seq(S) /\ Len(front) = p - 1
      /\ \A i \in 1..(p - 1) : front[i] = q[i]
  OBVIOUS
<1>2. /\ back \in Seq(S) /\ Len(back) = Len(q) - p + 1
      /\ \A i \in 1..(Len(q) - p + 1) : back[i] = q[p + i - 1]
  OBVIOUS
<1>3. <<e>> \in Seq(S) /\ Len(<<e>>) = 1 /\ <<e>>[1] = e
  OBVIOUS
<1> HIDE DEF front, back
<1> DEFINE head == front \o <<e>>
<1>4. /\ head \in Seq(S) /\ Len(head) = p
      /\ \A i \in 1..p : head[i] = IF i < p THEN front[i] ELSE e
  BY <1>1, <1>3
<1> HIDE DEF head
<1>5. /\ head \o back \in Seq(S) /\ Len(head \o back) = Len(q) + 1
      /\ \A i \in 1..(Len(q) + 1) :
           (head \o back)[i] = IF i <= p THEN head[i] ELSE back[i - p]
  <2>1. Len(head) + Len(back) = Len(q) + 1
    BY <1>2, <1>4
  <2>2. /\ head \o back \in Seq(S)
        /\ Len(head \o back) = Len(head) + Len(back)
        /\ \A i \in 1..(Len(head) + Len(back)) :
             (head \o back)[i] = IF i <= Len(head) THEN head[i] ELSE back[i - Len(head)]
    BY <1>2, <1>4, ConcatProperties
  <2> QED
    BY <1>4, <2>1, <2>2
<1>6. InsertAt(q, p, e) = head \o back
  BY DEF InsertAt, head, front, back
<1>7. ASSUME NEW i \in 1..(Len(q) + 1)
      PROVE  (head \o back)[i] = IF i < p THEN q[i]
                                 ELSE IF i = p THEN e
                                 ELSE q[i - 1]
  <2>1. CASE i < p
    BY <1>1, <1>4, <1>5, <2>1
  <2>2. CASE i = p
    BY <1>4, <1>5, <2>2
  <2>3. CASE i > p
    <3>1. i - p \in 1..(Len(q) - p + 1) /\ p + (i - p) - 1 = i - 1
      BY <2>3
    <3>2. (head \o back)[i] = back[i - p]
      BY <1>5, <2>3
    <3> QED
      BY <1>2, <2>3, <3>1, <3>2
  <2>4. i \in Nat /\ p \in Nat
    BY LenProperties
  <2>5. i < p \/ i = p \/ i > p
    BY <2>4
  <2> QED
    BY <2>1, <2>2, <2>3, <2>4, <2>5
<1> QED
  BY <1>5, <1>6, <1>7

QEntry == [time : Int, frame : Conn]

(* Scheduling a frame queues it, and drops no other from the queue.         *)
LEMMA EnqueueQueues ==
  ASSUME queue \in Seq(QEntry), NEW f \in Conn, NEW delay \in Int, Enqueue(f, delay)
  PROVE  /\ queue' \in Seq(QEntry)
         /\ Queued(f)'
         /\ \A g : Queued(g) => Queued(g)'
<1> DEFINE e == [time |-> delay, frame |-> f]
<1>1. e \in QEntry
  BY DEF QEntry
<1>2. PICK p \in 1..(Len(queue) + 1) : queue' = InsertAt(queue, p, e)
  BY DEF Enqueue
<1> HIDE DEF e
<1>3. /\ queue' \in Seq(QEntry)
      /\ Len(queue') = Len(queue) + 1
      /\ \A i \in 1..(Len(queue) + 1) :
           queue'[i] = IF i < p THEN queue[i] ELSE IF i = p THEN e ELSE queue[i - 1]
  <2>1. queue \in Seq(QEntry)
    OBVIOUS
  <2>2. /\ InsertAt(queue, p, e) \in Seq(QEntry)
        /\ Len(InsertAt(queue, p, e)) = Len(queue) + 1
        /\ \A i \in 1..(Len(queue) + 1) :
             InsertAt(queue, p, e)[i] = IF i < p THEN queue[i] ELSE IF i = p THEN e ELSE queue[i - 1]
    BY <1>1, <2>1, InsertAtProperties
  <2> QED
    BY <1>2, <2>2
<1>4. Len(queue) \in Nat /\ DOMAIN queue = 1..Len(queue) /\ DOMAIN queue' = 1..(Len(queue) + 1)
  BY <1>3, LenProperties
<1>5. Queued(f)'
  <2>1. p \in DOMAIN queue' /\ queue'[p] = e
    BY <1>3, <1>4
  <2>2. e.frame = f
    BY DEF e
  <2> QED
    BY <2>1, <2>2 DEF Queued
<1>6. ASSUME NEW g, Queued(g)
      PROVE  Queued(g)'
  <2>1. PICK i \in DOMAIN queue : queue[i].frame = g
    BY <1>6 DEF Queued
  <2>2. CASE i < p
    <3>1. i \in DOMAIN queue' /\ queue'[i] = queue[i]
      BY <1>3, <1>4, <2>2
    <3> QED
      BY <2>1, <3>1 DEF Queued
  <2>3. CASE ~(i < p)
    <3>1. i + 1 \in DOMAIN queue' /\ i + 1 \in 1..(Len(queue) + 1) /\ ~(i + 1 < p) /\ i + 1 # p
      BY <1>4, <2>3
    <3>2. queue'[i + 1] = queue[(i + 1) - 1] /\ (i + 1) - 1 = i
      BY <1>3, <1>4, <3>1
    <3> QED
      BY <2>1, <3>1, <3>2 DEF Queued
  <2> QED
    BY <2>2, <2>3
<1> QED
  BY <1>3, <1>5, <1>6

(* Taking the first entry drops no other frame from the queue.              *)
LEMMA TailKeepsOthers ==
  ASSUME queue \in Seq(QEntry), queue # <<>>, queue' = Tail(queue)
  PROVE  /\ Head(queue).frame \in Conn
         /\ queue' \in Seq(QEntry)
         /\ \A g : Queued(g) /\ g # Head(queue).frame => Queued(g)'
<1>1. /\ Head(queue) \in QEntry /\ Head(queue) = queue[1]
      /\ Tail(queue) \in Seq(QEntry) /\ Len(Tail(queue)) = Len(queue) - 1
      /\ \A i \in 1..(Len(queue) - 1) : Tail(queue)[i] = queue[i + 1]
      /\ Len(queue) \in Nat
  BY HeadTailProperties, LenProperties
<1>2. ASSUME NEW g, Queued(g), g # Head(queue).frame
      PROVE  Queued(g)'
  <2>1. PICK i \in DOMAIN queue : queue[i].frame = g
    BY <1>2 DEF Queued
  <2>2. i \in 1..Len(queue) /\ i # 1
    BY <1>1, <1>2, <2>1
  <2>3. /\ i - 1 \in DOMAIN queue'
        /\ queue'[i - 1] = queue[i]
    BY <1>1, <2>2
  <2> QED
    BY <2>1, <2>3 DEF Queued
<1> QED
  BY <1>1, <1>2 DEF QEntry

(* A second's passing changes only the times of the entries.                *)
LEMMA TickKeepsAll ==
  ASSUME queue \in Seq(QEntry), Tick
  PROVE  /\ queue' \in Seq(QEntry)
         /\ \A g : Queued(g) => Queued(g)'
<1>1. queue' = [i \in DOMAIN queue |->
                  [queue[i] EXCEPT !.time = IF @ = -1 THEN -1 ELSE @ - 1]]
  BY DEF Tick
<1>2. DOMAIN queue' = DOMAIN queue
  BY <1>1
<1>3. ASSUME NEW i \in DOMAIN queue
      PROVE  queue'[i] \in QEntry /\ queue'[i].frame = queue[i].frame
  <2>1. queue[i] \in QEntry
    BY ElementOfSeq, LenProperties
  <2>2. queue'[i] = [queue[i] EXCEPT !.time = IF @ = -1 THEN -1 ELSE @ - 1]
    BY <1>1
  <2> QED
    BY <2>1, <2>2 DEF QEntry
<1>4. queue' \in Seq(QEntry)
  <2>1. queue' = [i \in 1..Len(queue) |-> queue'[i]] /\ Len(queue) \in Nat
    BY <1>1, <1>2, LenProperties
  <2>2. \A i \in 1..Len(queue) : queue'[i] \in QEntry
    BY <1>3, LenProperties
  <2> QED
    BY <2>1, <2>2, SeqDef
<1>5. ASSUME NEW g, Queued(g)
      PROVE  Queued(g)'
  BY <1>2, <1>3, <1>5 DEF Queued
<1> QED
  BY <1>4, <1>5

-----------------------------------------------------------------------------
(* The invariant, step by step.                                             *)

HasWork(c) == at[c] \in {"wait", "read", "eval", "print", "catch"}

(* A step about one connection c preserves the invariant if it leaves the   *)
(* others as they are and leaves c's frame running, queued or waiting.      *)
LEMMA OneConnection ==
  ASSUME Inv, NEW c \in Conn,
         queue' \in Seq(QEntry),
         current' \in Conn \cup {NULL}, Halted => Halted',
         pc' \notin {"frame", "crashed"} => current' = NULL \/ Halted',
         waiter' = [d \in Conn |-> waiter'[d]], waiter'[c] \in {c, NULL, Stray},
         at' = [d \in Conn |-> at'[d]],
         \A d \in Conn \ {c} : /\ waiter'[d] = waiter[d]
                               /\ at'[d] = at[d]
                               /\ Queued(d) => Queued(d)'
                               /\ current = d => current' = d,
         HasWork(c)' => current' = c \/ Queued(c)' \/ waiter'[c] = c
  PROVE  Inv'
<1>1. Typed'
  BY DEF Typed, QEntry
<1>2. OwnFrameWaits'
  BY DEF Inv, OwnFrameWaits
<1>3. ThreadIsFree'
  BY DEF ThreadIsFree
<1>4. NoOrphan'
  <2> SUFFICES ASSUME NEW d \in Conn, HasWork(d)', ~Halted
               PROVE  current' = d \/ Queued(d)' \/ waiter'[d] = d
    BY DEF NoOrphan, HasWork
  <2>1. CASE d = c
    BY <2>1
  <2>2. CASE d # c
    <3>1. HasWork(d)
      BY <2>2 DEF HasWork
    <3>2. current = d \/ Queued(d) \/ waiter[d] = d
      BY <3>1 DEF Inv, NoOrphan, HasWork
    <3> QED
      BY <2>2, <3>2
  <2> QED
    BY <2>1, <2>2
<1> QED
  BY <1>1, <1>2, <1>3, <1>4 DEF Inv

(* A driver that is handled schedules the frame it forgets.                 *)
LEMMA HandleInv ==
  ASSUME Inv, NEW c \in Conn, Handle(c), pc \in {"scan", "service"}, UNCHANGED <<current, at>>
  PROVE  Inv'
<1>1. /\ queue \in Seq(QEntry) /\ current \in Conn \cup {NULL}
      /\ current = NULL \/ Halted
      /\ waiter = [d \in Conn |-> waiter[d]] /\ at = [d \in Conn |-> at[d]]
      /\ waiter[c] \in {c, NULL, Stray}
  BY DEF Inv, Typed, ThreadIsFree, OwnFrameWaits, QEntry
<1>2. Halted' = Halted
  BY DEF Halted
<1>3. CASE UNCHANGED <<queue, waiter>> /\ (UNCHANGED pc \/ pc' = "crashed")
  BY <1>3, <1>2 DEF Inv, Typed, OwnFrameWaits, ThreadIsFree, NoOrphan, Queued
<1>4. CASE /\ waiter[c] \in Conn /\ waiter[c] = current /\ Enqueue(waiter[c], 0)
           /\ pc' = "crashed" /\ UNCHANGED waiter
  <2>1. Halted'
    BY <1>1, <1>2, <1>4, ServerAssumption
  <2>2. queue' \in Seq(QEntry)
    BY <1>1, <1>4, EnqueueQueues
  <2> QED
    BY <1>1, <1>4, <2>1, <2>2
    DEF Inv, Typed, OwnFrameWaits, ThreadIsFree, NoOrphan, QEntry
<1>5. CASE /\ waiter[c] \in Conn \ {current} /\ Enqueue(waiter[c], 0)
           /\ waiter' = [waiter EXCEPT ![c] = NULL] /\ UNCHANGED pc
  <2>1. waiter[c] = c
    BY <1>1, <1>5, ServerAssumption
  <2>2. /\ queue' \in Seq(QEntry)
        /\ Queued(c)'
        /\ \A g : Queued(g) => Queued(g)'
    BY <1>1, <1>5, <2>1, EnqueueQueues
  <2>3. /\ waiter' = [d \in Conn |-> waiter'[d]] /\ waiter'[c] = NULL
        /\ \A d \in Conn \ {c} : waiter'[d] = waiter[d]
    BY <1>1, <1>5
  <2>4. at' = [d \in Conn |-> at'[d]] /\ \A d \in Conn : at'[d] = at[d]
    BY <1>1
  <2> QED
    BY <1>1, <1>2, <2>2, <2>3, <2>4, OneConnection
<1> QED
  BY <1>3, <1>4, <1>5 DEF Handle

(* A new connection's frame is queued.                                      *)
LEMMA AcceptInv ==
  ASSUME Inv, NEW c \in Conn, AcceptConnection(c)
  PROVE  Inv'
<1>1. /\ queue \in Seq(QEntry) /\ pc = "service" /\ at[c] = "backlog"
      /\ current \in Conn \cup {NULL} /\ (current = NULL \/ Halted)
      /\ waiter = [d \in Conn |-> waiter[d]] /\ at = [d \in Conn |-> at[d]]
  BY DEF Inv, Typed, ThreadIsFree, QEntry, AcceptConnection
<1>2. PICK frame \in {NULL, Stray} : waiter' = [waiter EXCEPT ![c] = frame]
  BY ServerAssumption DEF AcceptConnection
<1>3. at' = [at EXCEPT ![c] = "wait"] /\ pc' = pc /\ current' = current /\ Enqueue(c, 0)
  BY DEF AcceptConnection
<1>4. queue' \in Seq(QEntry) /\ Queued(c)' /\ \A g : Queued(g) => Queued(g)'
  BY <1>1, <1>3, EnqueueQueues
<1>5. /\ waiter' = [d \in Conn |-> waiter'[d]] /\ waiter'[c] \in {c, NULL, Stray}
      /\ at' = [d \in Conn |-> at'[d]]
      /\ \A d \in Conn \ {c} : waiter'[d] = waiter[d] /\ at'[d] = at[d]
  BY <1>1, <1>2, <1>3
<1>6. Halted => Halted'
  BY <1>1, <1>3, <1>5 DEF Halted
<1> QED
  BY <1>1, <1>3, <1>4, <1>5, <1>6, OneConnection

(* The frame taken off the queue is the one that runs.                      *)
LEMMA RunNextInv ==
  ASSUME Inv, RunNext
  PROVE  Inv'
<1>1. /\ queue \in Seq(QEntry) /\ queue # <<>> /\ queue' = Tail(queue)
      /\ pc = "run" /\ pc' = "frame" /\ current = NULL /\ current' = Head(queue).frame
      /\ waiter' = waiter /\ at' = at
      /\ waiter = [d \in Conn |-> waiter[d]] /\ at = [d \in Conn |-> at[d]]
  BY DEF Inv, Typed, QEntry, RunNext, Due
<1>2. /\ Head(queue).frame \in Conn
      /\ queue' \in Seq(QEntry)
      /\ \A g : Queued(g) /\ g # Head(queue).frame => Queued(g)'
  BY <1>1, TailKeepsOthers
<1>3. waiter[Head(queue).frame] \in {Head(queue).frame, NULL, Stray}
  BY <1>2 DEF Inv, OwnFrameWaits
<1>4. (\A d \in Conn : current # d) /\ ~Halted
  BY <1>1, ServerAssumption DEF Halted
<1> QED
  BY <1>1, <1>2, <1>3, <1>4, OneConnection

(* Once a fatal exception has halted the frames, dropping entries loses     *)
(* nothing more.                                                            *)
LEMMA RunRefusedInv ==
  ASSUME Inv, RunRefused
  PROVE  Inv'
<1>1. /\ queue \in Seq(QEntry) /\ queue # <<>> /\ queue' = Tail(queue)
      /\ pc = "run" /\ current # NULL
      /\ UNCHANGED <<pc, current, waiter, at>>
  BY DEF Inv, Typed, QEntry, RunRefused, Due, loopVars
<1>2. Halted /\ Halted'
  BY <1>1 DEF Inv, ThreadIsFree, Halted
<1>3. queue' \in Seq(QEntry)
  BY <1>1, TailKeepsOthers
<1> QED
  BY <1>1, <1>2, <1>3 DEF Inv, Typed, OwnFrameWaits, ThreadIsFree, NoOrphan, QEntry

(* What a frame does while it runs concerns its own connection only; and    *)
(* when it gives up the thread with work left, it has arranged to be        *)
(* scheduled.                                                               *)
LEMMA FrameStepInv ==
  ASSUME Inv, NEW c \in Conn, FrameStep(c)
  PROVE  Inv'
<1>1. /\ queue \in Seq(QEntry)
      /\ waiter = [d \in Conn |-> waiter[d]] /\ at = [d \in Conn |-> at[d]]
      /\ waiter[c] \in {c, NULL, Stray}
  BY DEF Inv, Typed, OwnFrameWaits, QEntry
<1>2. pc = "frame" /\ current = c /\ ~Halted
  BY DEF FrameStep, WaitRefused, WaitReturns, WaitSuspends, ReadLine, EvalReturns, EvalSleeps,
         EvalRunsAway, RunawayEnds, EvalFatal, EvalRedefines, CatchReturns, CatchSleeps,
         ShellThrows, HandlerFails, ThrownGoesOn, FrameEnds, Running, Halted
<1>3. ASSUME at' = [at EXCEPT ![c] = at'[c]]
      PROVE  at' = [d \in Conn |-> at'[d]] /\ \A d \in Conn \ {c} : at'[d] = at[d]
  BY <1>1, <1>3
<1>4. \A d \in Conn \ {c} : current # d
  BY <1>2
<1>5. CASE \/ WaitRefused(c) \/ ReadLine(c) \/ EvalReturns(c) \/ RunawayEnds(c) \/ CatchReturns(c)
           \/ EvalRedefines(c) \/ ShellThrows(c) \/ ThrownGoesOn(c)
  <2>1. UNCHANGED <<pc, current, queue, waiter>> /\ \E call : at' = [at EXCEPT ![c] = call]
    BY <1>5 DEF WaitRefused, ReadLine, EvalReturns, RunawayEnds, CatchReturns, EvalRedefines,
                ShellThrows, ThrownGoesOn, loopVars, Goto
  <2>2. at' = [d \in Conn |-> at'[d]] /\ \A d \in Conn \ {c} : at'[d] = at[d]
    BY <1>1, <2>1
  <2>3. \A d : Queued(d) => Queued(d)'
    BY <2>1 DEF Queued
  <2> QED
    BY <1>1, <1>2, <2>1, <2>2, <2>3, OneConnection
<1>6. CASE WaitReturns(c)
  <2>1. /\ UNCHANGED <<pc, current, queue>>
        /\ at' = [at EXCEPT ![c] = "read"] /\ waiter' = [waiter EXCEPT ![c] = c]
    BY <1>6 DEF WaitReturns, loopVars, Goto
  <2>2. /\ at' = [d \in Conn |-> at'[d]] /\ waiter' = [d \in Conn |-> waiter'[d]]
        /\ waiter'[c] = c
        /\ \A d \in Conn \ {c} : at'[d] = at[d] /\ waiter'[d] = waiter[d]
    BY <1>1, <2>1
  <2>3. \A d : Queued(d) => Queued(d)'
    BY <2>1 DEF Queued
  <2> QED
    BY <1>1, <1>2, <2>1, <2>2, <2>3, OneConnection
<1>7. CASE WaitSuspends(c)
  <2>1. /\ pc' = "run" /\ current' = NULL /\ queue' = queue
        /\ at' = [at EXCEPT ![c] = "read"] /\ waiter' = [waiter EXCEPT ![c] = c]
    BY <1>7 DEF WaitSuspends, LeaveFrame, Goto
  <2>2. /\ at' = [d \in Conn |-> at'[d]] /\ waiter' = [d \in Conn |-> waiter'[d]]
        /\ waiter'[c] = c
        /\ \A d \in Conn \ {c} : at'[d] = at[d] /\ waiter'[d] = waiter[d]
    BY <1>1, <2>1
  <2>3. \A d : Queued(d) => Queued(d)'
    BY <2>1 DEF Queued
  <2>4. /\ queue' \in Seq(QEntry) /\ current' \in Conn \cup {NULL}
        /\ waiter'[c] \in {c, NULL, Stray}
        /\ \A d \in Conn \ {c} : current = d => current' = d
    BY <1>1, <1>4, <2>1, <2>2
  <2> QED
    BY <1>2, <2>1, <2>2, <2>3, <2>4, OneConnection
<1>8. CASE EvalSleeps(c) \/ CatchSleeps(c)
  <2>1. /\ pc' = "run" /\ current' = NULL /\ waiter' = waiter
        /\ \E call : at' = [at EXCEPT ![c] = call]
    <3>1. CASE EvalSleeps(c)
      BY <1>1, <3>1 DEF EvalSleeps, LeaveFrame
    <3>2. CASE CatchSleeps(c)
      BY <3>2 DEF CatchSleeps, LeaveFrame, Goto
    <3> QED
      BY <1>8, <3>1, <3>2
  <2>2. \E delay \in Int : Enqueue(c, delay)
    BY <1>8 DEF EvalSleeps, CatchSleeps
  <2>3. queue' \in Seq(QEntry) /\ Queued(c)' /\ \A g : Queued(g) => Queued(g)'
    BY <1>1, <2>2, EnqueueQueues
  <2>4. at' = [d \in Conn |-> at'[d]] /\ \A d \in Conn \ {c} : at'[d] = at[d]
    BY <1>1, <2>1
  <2> QED
    BY <1>1, <1>2, <1>4, <2>1, <2>3, <2>4, OneConnection
<1>9. CASE EvalRunsAway(c) \/ HandlerFails(c) \/ FrameEnds(c)
  <2>1. /\ pc' = "run" /\ current' = NULL /\ UNCHANGED <<queue, waiter>>
        /\ at' = [at EXCEPT ![c] = at'[c]] /\ at'[c] \in {"stuck", "thrown", "done"}
    <3>1. CASE EvalRunsAway(c) \/ HandlerFails(c)
      BY <1>1, <3>1 DEF EvalRunsAway, HandlerFails, LeaveFrame, Goto
    <3>2. CASE FrameEnds(c)
      BY <1>1, <3>2 DEF FrameEnds, LeaveFrame, Running
    <3> QED
      BY <1>9, <3>1, <3>2
  <2>2. at' = [d \in Conn |-> at'[d]] /\ \A d \in Conn \ {c} : at'[d] = at[d]
    BY <1>1, <2>1
  <2>3. \A d : Queued(d) => Queued(d)'
    BY <2>1 DEF Queued
  <2>4. ~HasWork(c)'
    BY <2>1 DEF HasWork
  <2> QED
    BY <1>1, <1>2, <1>4, <2>1, <2>2, <2>3, <2>4, OneConnection
<1>10. CASE EvalFatal(c)
  <2>1. pc' = "run" /\ UNCHANGED <<current, queue, waiter>> /\ at' = [at EXCEPT ![c] = "fatal"]
    BY <1>10 DEF EvalFatal, Goto
  <2>2. /\ at' = [d \in Conn |-> at'[d]] /\ at'[c] = "fatal"
        /\ \A d \in Conn \ {c} : at'[d] = at[d]
    BY <1>1, <2>1
  <2>3. Halted' /\ ~HasWork(c)'
    BY <1>2, <2>1, <2>2 DEF Halted, HasWork
  <2>4. \A d : Queued(d) => Queued(d)'
    BY <2>1 DEF Queued
  <2> QED
    BY <1>1, <1>2, <2>1, <2>2, <2>3, <2>4, OneConnection
<1> QED
  BY <1>5, <1>6, <1>7, <1>8, <1>9, <1>10 DEF FrameStep

(* Connecting, sending, closing and waiting change nothing about frames.    *)
LEMMA EnvironmentInv ==
  ASSUME Inv, Environment
  PROVE  Inv'
<1>1. CASE Tick
  <2>1. queue \in Seq(QEntry)
    BY DEF Inv, Typed, QEntry
  <2>2. queue' \in Seq(QEntry) /\ \A g : Queued(g) => Queued(g)'
    BY <1>1, <2>1, TickKeepsAll
  <2>3. UNCHANGED <<pc, current, waiter, at>>
    BY <1>1 DEF Tick, loopVars
  <2> QED
    BY <2>2, <2>3 DEF Inv, Typed, OwnFrameWaits, ThreadIsFree, NoOrphan, Halted, QEntry
<1>2. ASSUME NEW c \in Conn, Connect(c)
      PROVE  Inv'
  <2>1. /\ at[c] = "unconnected" /\ at' = [at EXCEPT ![c] = "backlog"]
        /\ UNCHANGED <<pc, current, queue, waiter>>
    BY <1>2 DEF Connect, loopVars
  <2>2. /\ at = [d \in Conn |-> at[d]] /\ waiter = [d \in Conn |-> waiter[d]]
        /\ queue \in Seq(QEntry) /\ current \in Conn \cup {NULL}
        /\ pc \notin {"frame", "crashed"} => current = NULL \/ Halted
        /\ waiter[c] \in {c, NULL, Stray}
    BY DEF Inv, Typed, OwnFrameWaits, ThreadIsFree, QEntry
  <2>3. /\ at' = [d \in Conn |-> at'[d]] /\ at'[c] = "backlog"
        /\ \A d \in Conn \ {c} : at'[d] = at[d]
    BY <2>1, <2>2
  <2>4. \A d : Queued(d) => Queued(d)'
    BY <2>1 DEF Queued
  <2>5. ~HasWork(c)' /\ (Halted => Halted')
    BY <2>1, <2>3 DEF HasWork, Halted
  <2> QED
    BY <2>1, <2>2, <2>3, <2>4, <2>5, OneConnection
<1>3. ASSUME NEW c \in Conn, Close(c) \/ \E byte \in Byte : Send(c, byte)
      PROVE  Inv'
  <2>1. UNCHANGED <<pc, current, queue, waiter, at>>
    BY <1>3 DEF Close, Send, loopVars
  <2> QED
    BY <2>1 DEF Inv, Typed, OwnFrameWaits, ThreadIsFree, NoOrphan, Halted, Queued
<1>4. ASSUME NEW c \in Conn, PrintReturns(c)
      PROVE  Inv'
  <2>1. /\ UNCHANGED <<pc, current, queue, waiter>> /\ current = c /\ pc = "frame" /\ ~Halted
        /\ at' = [at EXCEPT ![c] = "wait"]
    BY <1>4 DEF PrintReturns, Running, Halted, Goto, loopVars
  <2>2. /\ at = [d \in Conn |-> at[d]] /\ waiter = [d \in Conn |-> waiter[d]]
        /\ queue \in Seq(QEntry)
        /\ waiter[c] \in {c, NULL, Stray}
    BY DEF Inv, Typed, OwnFrameWaits, QEntry
  <2>3. /\ at' = [d \in Conn |-> at'[d]]
        /\ \A d \in Conn \ {c} : at'[d] = at[d]
    BY <2>1, <2>2
  <2>4. \A d : Queued(d) => Queued(d)'
    BY <2>1 DEF Queued
  <2> QED
    BY <2>1, <2>2, <2>3, <2>4, OneConnection
<1>5. ASSUME NEW c \in Conn, PrintKills(c)
      PROVE  Inv'
  <2>1. pc' = "crashed" /\ UNCHANGED <<current, queue, waiter, at>>
    BY <1>5 DEF PrintKills
  <2> QED
    BY <2>1 DEF Inv, Typed, OwnFrameWaits, ThreadIsFree, NoOrphan, Halted, Queued
<1> QED
  BY <1>1, <1>2, <1>3, <1>4, <1>5 DEF Environment

(* The first state has no frames.                                           *)
LEMMA InitInv == Init => Inv
  BY DEF Init, Inv, Typed, OwnFrameWaits, ThreadIsFree, NoOrphan

(* Every step of the server and of its clients preserves the invariant.     *)
LEMMA NextInv == Inv /\ [Next]_vars => Inv'
<1> SUFFICES ASSUME Inv, [Next]_vars
             PROVE  Inv'
  OBVIOUS
<1>1. ASSUME NEW c \in Conn, HandleReady(c) \/ HandleReadable(c)
      PROVE  Inv'
  <2>1. Handle(c) /\ pc \in {"scan", "service"} /\ UNCHANGED <<current, at>>
    BY <1>1 DEF HandleReady, HandleReadable
  <2> QED
    BY <2>1, HandleInv
<1>2. ASSUME NEW c \in Conn, AcceptConnection(c)
      PROVE  Inv'
  BY <1>2, AcceptInv
<1>3. CASE ScanEnds \/ Select \/ ServiceEnds \/ RunEnds
  <2>1. pc \notin {"frame", "crashed"} /\ UNCHANGED <<current, queue, waiter, at>>
    BY <1>3 DEF ScanEnds, Select, ServiceEnds, RunEnds
  <2> QED
    BY <2>1 DEF Inv, Typed, OwnFrameWaits, ThreadIsFree, NoOrphan, Halted, Queued
<1>4. CASE RunNext \/ RunRefused
  BY <1>4, RunNextInv, RunRefusedInv
<1>5. ASSUME NEW c \in Conn, FrameStep(c)
      PROVE  Inv'
  BY <1>5, FrameStepInv
<1>6. CASE Environment
  BY <1>6, EnvironmentInv
<1>7. CASE UNCHANGED vars
  BY <1>7 DEF vars, Inv, Typed, OwnFrameWaits, ThreadIsFree, NoOrphan, Halted, Queued
<1> QED
  BY <1>1, <1>2, <1>3, <1>4, <1>5, <1>6, <1>7 DEF Next, Server

(* Suspension never orphans a connection's frame: as long as no line has    *)
(* raised a fatal exception, a frame with work left is running, or in the   *)
(* task queue, or the one its driver will schedule, unless it ran out of    *)
(* cycles or threw in its own catch.                                        *)
THEOREM NeverOrphaned == Spec => []NoOrphan
<1>1. Inv => NoOrphan
  BY DEF Inv
<1> QED
  BY <1>1, InitInv, NextInv, PTL DEF Spec

-----------------------------------------------------------------------------
(* Types: the queue's times stay within a second of the present, and what a *)
(* driver holds stays bytes however arrivals and calls interleave.          *)

SEntry == [time : {-1, 0, 1}, frame : Conn]

(* Every entry that is scheduled is due at once or in a second.             *)
LEMMA EnqueueKeepsTimes ==
  ASSUME queue \in Seq(SEntry), NEW f \in Conn, NEW delay \in {0, 1}, Enqueue(f, delay)
  PROVE  queue' \in Seq(SEntry)
<1> DEFINE e == [time |-> delay, frame |-> f]
<1>1. e \in SEntry
  BY DEF SEntry
<1>2. PICK p \in 1..(Len(queue) + 1) : queue' = InsertAt(queue, p, e)
  BY DEF Enqueue
<1> HIDE DEF e
<1> QED
  BY <1>1, <1>2, InsertAtProperties

(* The entry taken is one of them, and the others stay.                     *)
LEMMA TailKeepsTimes ==
  ASSUME queue \in Seq(SEntry), queue # <<>>
  PROVE  Head(queue).frame \in Conn /\ Tail(queue) \in Seq(SEntry)
<1>1. Head(queue) \in SEntry /\ Tail(queue) \in Seq(SEntry)
  BY HeadTailProperties
<1> QED
  BY <1>1 DEF SEntry

(* A second's passing leaves no time below -1.                              *)
LEMMA TickKeepsTimes ==
  ASSUME queue \in Seq(SEntry), Tick
  PROVE  queue' \in Seq(SEntry)
<1>1. queue' = [i \in 1..Len(queue) |->
                  [queue[i] EXCEPT !.time = IF @ = -1 THEN -1 ELSE @ - 1]]
  BY LenProperties DEF Tick
<1>2. ASSUME NEW i \in 1..Len(queue)
      PROVE  [queue[i] EXCEPT !.time = IF @ = -1 THEN -1 ELSE @ - 1] \in SEntry
  <2>1. queue[i] \in SEntry
    BY ElementOfSeq
  <2> QED
    BY <2>1 DEF SEntry
<1>3. Len(queue) \in Nat
  BY LenProperties
<1> QED
  BY <1>1, <1>2, <1>3, IsASeq

(* A driver whose bits change is still a driver.                            *)
LEMMA BitsChange ==
  ASSUME NEW d \in Driver, NEW bit \in BOOLEAN
  PROVE  /\ [d EXCEPT !.ready = bit] \in Driver
         /\ [d EXCEPT !.connected = bit] \in Driver
         /\ [d EXCEPT !.eof = bit] \in Driver
  BY DEF Driver

(* What check_ready(), recv_to_buffer() and read_pos() leave is a driver.   *)
LEMMA DriverStays ==
  ASSUME NEW d \in Driver
  PROVE  /\ CheckReady(d) \in Driver
         /\ RecvToBuffer(d) \in Driver
         /\ \A i \in Nat : ReadPos(d, i) \in Driver
<1>1. CheckReady(d) \in Driver
  BY DEF CheckReady, Readable, Driver
<1>2. RecvToBuffer(d) \in Driver
  <2>1. CASE ~Readable(d)
    BY <2>1 DEF RecvToBuffer
  <2>2. CASE Readable(d)
    <3> DEFINE room == Capacity - Len(d.data) - 1
               n == IF room < Len(d.sock) THEN room ELSE Len(d.sock)
               in == Incoming(d)
               rest == SubSeq(d.sock, Len(in) + 1, Len(d.sock))
    <3>1. d.sock \in Seq(Byte) /\ d.data \in Seq(Byte) /\ Len(d.sock) \in Nat /\ Len(d.data) \in Nat
      BY LenProperties DEF Driver
    <3>2. n \in Int /\ n <= Len(d.sock)
      BY <3>1, BufferAssumption
    <3>3. in = SubSeq(d.sock, 1, n)
      BY DEF Incoming
    <3> HIDE DEF n
    <3>4. \A i \in 1..n : d.sock[i] \in Byte
      BY <3>1, <3>2, ElementOfSeq
    <3>5. in \in Seq(Byte)
      BY <3>2, <3>3, <3>4, SubSeqProperties
    <3> HIDE DEF in
    <3>6. Len(in) \in Nat
      BY <3>5, LenProperties
    <3>7. \A i \in (Len(in) + 1)..Len(d.sock) : d.sock[i] \in Byte
      BY <3>1, <3>6, ElementOfSeq
    <3>8. rest \in Seq(Byte)
      BY <3>1, <3>6, <3>7, SubSeqProperties
    <3>9. d.data \o in \in Seq(Byte)
      BY <3>1, <3>5, ConcatProperties
    <3>10. RecvToBuffer(d) = [d EXCEPT !.sock = rest, !.data = d.data \o in, !.ready = TRUE]
      BY <2>2 DEF RecvToBuffer, in, rest
    <3> HIDE DEF rest
    <3> QED
      BY <3>8, <3>9, <3>10 DEF Driver
  <2> QED
    BY <2>1, <2>2
<1>3. ASSUME NEW i \in Nat
      PROVE  ReadPos(d, i) \in Driver
  <2>1. CASE i >= Len(d.data)
    <3>1. ReadPos(d, i) = [d EXCEPT !.ready = FALSE, !.pos = 0, !.data = <<>>]
      BY <2>1 DEF ReadPos
    <3>2. <<>> \in Seq(Byte) /\ 0 \in Nat
      BY EmptySeq
    <3>3. ReadPos(d, i) = [sock |-> d.sock, eof |-> d.eof, data |-> <<>>, pos |-> 0,
                           ready |-> FALSE, connected |-> d.connected]
      BY <3>1 DEF Driver
    <3> QED
      BY <3>2, <3>3 DEF Driver
  <2>2. CASE ~(i >= Len(d.data))
    <3>1. ReadPos(d, i) = [d EXCEPT !.ready = TRUE, !.pos = i]
      BY <2>2 DEF ReadPos
    <3> QED
      BY <3>1 DEF Driver
  <2> QED
    BY <2>1, <2>2
<1> QED
  BY <1>1, <1>2, <1>3

(* A driver is handled: its frame is scheduled, or a stray pointer is       *)
(* followed.                                                                *)
LEMMA HandleTyped ==
  ASSUME TypeOK, NEW c \in Conn, Handle(c)
  PROVE  /\ pc' \in {pc, "crashed"}
         /\ queue' \in Seq(SEntry)
         /\ waiter' \in [Conn -> Conn \cup {NULL, Stray}]
<1>1. queue \in Seq(SEntry) /\ waiter \in [Conn -> Conn \cup {NULL, Stray}]
  BY DEF TypeOK, SEntry
<1>2. CASE /\ waiter[c] \in Conn /\ Enqueue(waiter[c], 0)
           /\ waiter' \in {waiter, [waiter EXCEPT ![c] = NULL]}
           /\ pc' \in {pc, "crashed"}
  <2>1. queue' \in Seq(SEntry)
    BY <1>1, <1>2, EnqueueKeepsTimes
  <2> QED
    BY <1>1, <1>2, <2>1
<1> QED
  BY <1>1, <1>2 DEF Handle

(* Polling the drivers and accepting.                                       *)
LEMMA PollTyped ==
  ASSUME TypeOK, NEW c \in Conn, HandleReady(c) \/ HandleReadable(c) \/ AcceptConnection(c)
  PROVE  TypeOK'
<1>1. /\ queue \in Seq(SEntry) /\ driver \in [Conn -> Driver]
      /\ waiter \in [Conn -> Conn \cup {NULL, Stray}]
  BY DEF TypeOK, SEntry
<1>2. CASE HandleReady(c) \/ HandleReadable(c)
  <2>1. /\ Handle(c) /\ driver' = [driver EXCEPT ![c].ready = FALSE]
        /\ UNCHANGED <<current, calm, redefined, at>> /\ serviced' \in BOOLEAN /\ fdset' \subseteq fdset
    BY <1>2 DEF HandleReady, HandleReadable, TypeOK
  <2>2. /\ pc' \in {pc, "crashed"} /\ queue' \in Seq(SEntry)
        /\ waiter' \in [Conn -> Conn \cup {NULL, Stray}]
    BY <2>1, HandleTyped
  <2>3. driver' \in [Conn -> Driver]
    BY <1>1, <2>1, BitsChange
  <2> QED
    BY <2>1, <2>2, <2>3 DEF TypeOK, SEntry
<1>3. CASE AcceptConnection(c)
  <2>1. Enqueue(c, 0) /\ UNCHANGED <<pc, serviced, current, calm, redefined>> /\ fdset' \subseteq fdset
    BY <1>3 DEF AcceptConnection
  <2>2. queue' \in Seq(SEntry)
    BY <1>1, <2>1, EnqueueKeepsTimes
  <2>3. driver' \in [Conn -> Driver]
    BY <1>1, <1>3, BitsChange DEF AcceptConnection
  <2>4. waiter' \in [Conn -> Conn \cup {NULL, Stray}]
    BY <1>1, <1>3, ServerAssumption DEF AcceptConnection
  <2>5. at' = [at EXCEPT ![c] = "wait"]
    BY <1>3 DEF AcceptConnection
  <2> QED
    BY <2>1, <2>2, <2>3, <2>4, <2>5 DEF TypeOK, SEntry
<1> QED
  BY <1>2, <1>3

(* The main loop's other steps.                                             *)
LEMMA LoopTyped ==
  ASSUME TypeOK, ScanEnds \/ Select \/ ServiceEnds \/ RunNext \/ RunRefused \/ RunEnds
  PROVE  TypeOK'
<1>1. CASE ScanEnds \/ Select \/ ServiceEnds \/ RunEnds
  <2>1. pc' \in {"scan", "select", "service", "run"} /\ serviced' \in BOOLEAN
    BY <1>1 DEF ScanEnds, Select, ServiceEnds, RunEnds, TypeOK
  <2>2. fdset' \subseteq Conn \cup {Listener}
    BY <1>1 DEF ScanEnds, Select, ServiceEnds, RunEnds, TypeOK
  <2>3. UNCHANGED <<current, redefined, queue, driver, waiter, at>>
    BY <1>1 DEF ScanEnds, Select, ServiceEnds, RunEnds
  <2>4. calm' \in BOOLEAN
    <3>1. CASE Select
      BY <3>1, SMT DEF Select
    <3>2. CASE ScanEnds \/ ServiceEnds \/ RunEnds
      <4>1. calm' = calm
        BY <3>2 DEF ScanEnds, ServiceEnds, RunEnds
      <4> QED
        BY <4>1, Zenon DEF TypeOK
    <3> QED
      BY <1>1, <3>1, <3>2
  <2> QED
    BY <2>1, <2>2, <2>3, <2>4 DEF TypeOK
<1>2. CASE RunNext
  <2>1. queue # <<>> /\ current' = Head(queue).frame /\ queue' = Tail(queue) /\ pc' = "frame"
        /\ UNCHANGED <<serviced, fdset, calm, redefined, driver, waiter, at>>
    BY <1>2 DEF RunNext, Due
  <2>2. current' \in Conn /\ queue' \in Seq(SEntry)
    BY <2>1, TailKeepsTimes DEF TypeOK, SEntry
  <2> QED
    BY <2>1, <2>2 DEF TypeOK, SEntry
<1>3. CASE RunRefused
  <2>1. queue # <<>> /\ queue' = Tail(queue) /\ UNCHANGED <<loopVars, driver, waiter, at>>
    BY <1>3 DEF RunRefused, Due
  <2>2. queue' \in Seq(SEntry)
    BY <2>1, TailKeepsTimes DEF TypeOK, SEntry
  <2> QED
    BY <2>1, <2>2 DEF TypeOK, loopVars, SEntry
<1> QED
  BY <1>1, <1>2, <1>3

(* Reading a line leaves a driver a driver.                                 *)
LEMMA ReadLineTyped ==
  ASSUME TypeOK, NEW c \in Conn, ReadLine(c)
  PROVE  driver' \in [Conn -> Driver] /\ \E call \in {"catch", "eval"} : Goto(c, call)
<1> DEFINE filled == RecvToBuffer(driver[c])
<1>1. driver \in [Conn -> Driver] /\ driver[c] \in Driver
  BY DEF TypeOK
<1>2. filled \in Driver
  BY <1>1, DriverStays
<1>3. CASE driver' = [driver EXCEPT ![c].connected = FALSE] /\ Goto(c, "catch")
  BY <1>1, <1>3, BitsChange
<1>4. CASE driver' = [driver EXCEPT ![c] = filled] /\ Goto(c, "catch")
  BY <1>1, <1>2, <1>4
<1>5. CASE \E i \in DOMAIN filled.data :
             /\ DelimAt(filled, i)
             /\ driver' = [driver EXCEPT ![c] = ReadPos(filled, i)]
             /\ Goto(c, IF i = driver[c].pos + 1 THEN "catch" ELSE "eval")
  <2>1. PICK i \in DOMAIN filled.data :
          /\ driver' = [driver EXCEPT ![c] = ReadPos(filled, i)]
          /\ Goto(c, IF i = driver[c].pos + 1 THEN "catch" ELSE "eval")
    BY <1>5
  <2> HIDE DEF filled
  <2>2. filled.data \in Seq(Byte)
    BY <1>2 DEF Driver
  <2>3. i \in Nat
    BY <2>2, LenProperties
  <2>4. ReadPos(filled, i) \in Driver
    BY <1>2, <2>3, DriverStays
  <2> QED
    BY <1>1, <2>1, <2>4
<1>6. \/ driver' = [driver EXCEPT ![c].connected = FALSE] /\ Goto(c, "catch")
      \/ driver' = [driver EXCEPT ![c] = filled] /\ Goto(c, "catch")
      \/ \E i \in DOMAIN filled.data :
             /\ DelimAt(filled, i)
             /\ driver' = [driver EXCEPT ![c] = ReadPos(filled, i)]
             /\ Goto(c, IF i = driver[c].pos + 1 THEN "catch" ELSE "eval")
  BY DEF ReadLine
<1> QED
  BY <1>3, <1>4, <1>5, <1>6

(* A frame's steps.                                                         *)
LEMMA FrameStepTyped ==
  ASSUME TypeOK, NEW c \in Conn, FrameStep(c)
  PROVE  TypeOK'
<1> DEFINE Calls == {"wait", "read", "eval", "print", "catch", "done", "stuck", "thrown",
                    "fatal"}
<1>1. /\ queue \in Seq(SEntry) /\ driver \in [Conn -> Driver] /\ driver[c] \in Driver
      /\ waiter \in [Conn -> Conn \cup {NULL, Stray}]
  BY DEF TypeOK, SEntry
<1>2. CASE \/ WaitRefused(c) \/ EvalReturns(c) \/ RunawayEnds(c) \/ CatchReturns(c)
           \/ ShellThrows(c) \/ ThrownGoesOn(c)
  <2>1. UNCHANGED <<loopVars, queue, driver, waiter>> /\ \E call \in Calls : Goto(c, call)
    BY <1>2 DEF WaitRefused, EvalReturns, RunawayEnds, CatchReturns, ShellThrows, ThrownGoesOn
  <2> QED
    BY <2>1 DEF TypeOK, Goto, loopVars
<1>3. CASE ReadLine(c)
  <2>1. UNCHANGED <<loopVars, queue, waiter>>
    BY <1>3 DEF ReadLine
  <2>2. driver' \in [Conn -> Driver] /\ \E call \in Calls : Goto(c, call)
    BY <1>3, ReadLineTyped
  <2> QED
    BY <2>1, <2>2 DEF TypeOK, Goto, loopVars
<1>4. CASE WaitReturns(c) \/ WaitSuspends(c)
  <2>1. /\ waiter' = [waiter EXCEPT ![c] = c]
        /\ driver' = [driver EXCEPT ![c] = CheckReady(@)]
        /\ Goto(c, "read") /\ queue' = queue
    BY <1>4 DEF WaitReturns, WaitSuspends
  <2>2. driver' \in [Conn -> Driver]
    BY <1>1, <2>1, DriverStays
  <2>3. /\ pc' \in {pc, "run"} /\ UNCHANGED <<serviced, fdset, calm, redefined>>
        /\ current' \in {current, NULL}
    BY <1>4 DEF WaitReturns, WaitSuspends, LeaveFrame, loopVars
  <2> QED
    BY <1>1, <2>1, <2>2, <2>3 DEF TypeOK, Goto, SEntry
<1>5. CASE EvalSleeps(c) \/ CatchSleeps(c)
  <2>1. \E delay \in {0, 1} : Enqueue(c, delay)
    BY <1>5 DEF EvalSleeps, CatchSleeps
  <2>2. queue' \in Seq(SEntry)
    BY <1>1, <2>1, EnqueueKeepsTimes
  <2>3. LeaveFrame /\ UNCHANGED <<driver, waiter>> /\ (at' = at \/ Goto(c, "wait"))
    BY <1>5 DEF EvalSleeps, CatchSleeps
  <2> QED
    BY <2>2, <2>3 DEF TypeOK, Goto, LeaveFrame, SEntry
<1>6. CASE EvalRunsAway(c) \/ HandlerFails(c) \/ FrameEnds(c)
  <2>1. /\ LeaveFrame /\ UNCHANGED <<queue, driver, waiter>>
        /\ at' = at \/ \E call \in Calls : Goto(c, call)
    BY <1>6 DEF EvalRunsAway, HandlerFails, FrameEnds
  <2> QED
    BY <2>1 DEF TypeOK, Goto, LeaveFrame
<1>7. CASE EvalFatal(c) \/ EvalRedefines(c)
  <2>1. /\ pc' \in {pc, "run"} /\ UNCHANGED <<serviced, fdset, current, calm>>
        /\ redefined' \in {redefined, TRUE} /\ UNCHANGED <<queue, driver, waiter>>
        /\ \E call \in Calls : Goto(c, call)
    BY <1>7 DEF EvalFatal, EvalRedefines
  <2> QED
    BY <2>1 DEF TypeOK, Goto
<1> QED
  BY <1>2, <1>3, <1>4, <1>5, <1>6, <1>7 DEF FrameStep

(* The clients', the clock's and the network's steps.                       *)
LEMMA EnvironmentTyped ==
  ASSUME TypeOK, Environment
  PROVE  TypeOK'
<1>1. CASE Tick
  <2>1. queue' \in Seq(SEntry) /\ UNCHANGED <<loopVars, driver, waiter, at>>
    <3>1. queue \in Seq(SEntry)
      BY DEF TypeOK, SEntry
    <3> QED
      BY <1>1, <3>1, TickKeepsTimes DEF Tick
  <2> QED
    BY <2>1 DEF TypeOK, loopVars, SEntry
<1>2. ASSUME NEW c \in Conn, Connect(c)
      PROVE  TypeOK'
  BY <1>2 DEF Connect, TypeOK, loopVars
<1>3. ASSUME NEW c \in Conn, Close(c)
      PROVE  TypeOK'
  <2>1. driver' \in [Conn -> Driver]
    BY <1>3, BitsChange DEF Close, TypeOK
  <2> QED
    BY <1>3, <2>1 DEF Close, TypeOK, loopVars
<1>4. ASSUME NEW c \in Conn, NEW byte \in Byte, Send(c, byte)
      PROVE  TypeOK'
  <2>1. driver[c].sock \in Seq(Byte) /\ driver[c] \in Driver /\ driver \in [Conn -> Driver]
    BY DEF TypeOK, Driver
  <2>2. Append(driver[c].sock, byte) \in Seq(Byte)
    BY <2>1, AppendProperties
  <2>3. driver' = [driver EXCEPT ![c] = [driver[c] EXCEPT !.sock = Append(driver[c].sock, byte)]]
    BY <1>4, <2>1 DEF Send
  <2>4. [driver[c] EXCEPT !.sock = Append(driver[c].sock, byte)] \in Driver
    BY <2>1, <2>2 DEF Driver
  <2>5. driver' \in [Conn -> Driver]
    BY <2>1, <2>3, <2>4
  <2> QED
    BY <1>4, <2>5 DEF Send, TypeOK, loopVars
<1>5. ASSUME NEW c \in Conn, PrintReturns(c) \/ PrintKills(c)
      PROVE  TypeOK'
  BY <1>5 DEF PrintReturns, PrintKills, TypeOK, Goto, loopVars
<1> QED
  BY <1>1, <1>2, <1>3, <1>4, <1>5 DEF Environment

(* The state of the main loop, the queue, the drivers and the frames is     *)
(* what the code's types say: only connections' frames are scheduled, due   *)
(* at most a second ahead, and a buffer only ever holds bytes.              *)
THEOREM ServerIsTyped == Spec => []TypeOK
<1>1. Init => TypeOK
  <2> SUFFICES ASSUME Init
               PROVE  TypeOK
    OBVIOUS
  <2>1. queue \in Seq(SEntry)
    BY EmptySeq DEF Init
  <2>2. FreshDriver \in Driver
    BY EmptySeq DEF FreshDriver, Driver
  <2>3. driver \in [Conn -> Driver]
    BY <2>2 DEF Init, Driver
  <2> QED
    BY <2>1, <2>3 DEF Init, TypeOK, SEntry
<1>2. TypeOK /\ [Next]_vars => TypeOK'
  <2> SUFFICES ASSUME TypeOK, [Next]_vars
               PROVE  TypeOK'
    OBVIOUS
  <2>1. CASE \E c \in Conn : HandleReady(c) \/ HandleReadable(c) \/ AcceptConnection(c)
    BY <2>1, PollTyped
  <2>2. CASE ScanEnds \/ Select \/ ServiceEnds \/ RunNext \/ RunRefused \/ RunEnds
    BY <2>2, LoopTyped
  <2>3. CASE \E c \in Conn : FrameStep(c)
    BY <2>3, FrameStepTyped
  <2>4. CASE Environment
    BY <2>4, EnvironmentTyped
  <2>5. CASE UNCHANGED vars
    BY <2>5 DEF vars, TypeOK
  <2> QED
    BY <2>1, <2>2, <2>3, <2>4, <2>5 DEF Next, Server
<1> QED
  BY <1>1, <1>2, PTL DEF Spec

=============================================================================
