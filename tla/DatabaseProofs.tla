--------------------------- MODULE DatabaseProofs ---------------------------
(***************************************************************************)
(* Proofs about the database.  Of the store: whatever is loaded, created,  *)
(* saved and lost in a crash, an identifier means one object, in memory    *)
(* and in the files.  Of the file of a thing: whatever the thing holds,    *)
(* it is the same thing when it was saved and loaded, and stays so when it *)
(* is saved again.                                                         *)
(***************************************************************************)
EXTENDS Database, MooArrayLemmas, SequenceTheorems, FiniteSetTheorems

-----------------------------------------------------------------------------
(* The inductive invariant                                                  *)

(* The name of an object to be born is new.                                 *)
Names == 0..(MaxId + births - 1)
Objects == [id : Id \cup {None}, name : Names, ref : Nat \cup {NULL}]

Typed ==
  /\ heap \in Seq(Objects)
  /\ Sound(table)
  /\ \A i \in 0..(table.size - 1) : table.data[i] \in DOMAIN heap \cup {NULL}
  /\ disk = [i \in Id |-> disk[i]]
  /\ \A i \in Id : Good(disk[i]) => disk[i].name \in Names
  /\ stack \in Seq(Loading \cup Assigning)
  /\ \A k \in DOMAIN stack : stack[k].obj \in DOMAIN heap
  /\ births \in Nat

(* The object that is about to read its id.                                 *)
Arriving(o, i) ==
  stack # <<>> /\ Top.call = "id" /\ Top.obj = o /\ Top.id = i

(* It has none yet, its file is there, and nobody else has that identifier. *)
ArrivesAlone ==
  \A k \in DOMAIN stack : stack[k].call = "id" =>
    /\ k = Len(stack)
    /\ NotInTable(stack[k].id) /\ Good(disk[stack[k].id])
    /\ heap[stack[k].obj].id = None
    /\ heap[stack[k].obj].name = disk[stack[k].id].name

(* An object that is given an identifier has none yet and is not the one    *)
(* that is being read meanwhile.                                            *)
AssignedOnce ==
  \A k \in DOMAIN stack : stack[k].call = "assign" =>
    /\ heap[stack[k].obj].id = None
    /\ \A l \in DOMAIN stack : stack[l].obj = stack[k].obj => l = k

SavesAlone == saving # None => stack = <<>>

(* No two files hold the same object.                                       *)
OneFileEach ==
  \A i, j \in Id : Good(disk[i]) /\ Good(disk[j]) /\ disk[i].name = disk[j].name => i = j

(* Who is in the database under an identifier is in memory under no other.  *)
AtHome ==
  \A o \in DOMAIN heap : \A i \in Id :
    Good(disk[i]) /\ disk[i].name = heap[o].name => heap[o].id = i \/ Arriving(o, i)

IInv ==
  /\ Typed
  /\ ArrivesAlone /\ AssignedOnce /\ SavesAlone
  /\ OneFileEach /\ AtHome
  /\ Registered /\ NeverTwice /\ NoHijack


-----------------------------------------------------------------------------
(* What the invariant says in other words                                   *)

(* A sequence grows at its end.                                             *)
LEMMA Appended ==
  ASSUME NEW S, NEW s \in Seq(S), NEW e \in S
  PROVE  /\ Append(s, e) \in Seq(S)
         /\ Len(Append(s, e)) = Len(s) + 1 /\ DOMAIN Append(s, e) = 1..(Len(s) + 1)
         /\ Append(s, e)[Len(s) + 1] = e
         /\ \A k \in 1..Len(s) : Append(s, e)[k] = s[k]
  BY AppendProperties, LenProperties

(* The object o gets an identifier ...                                      *)
LEMMA IdChanged ==
  ASSUME Typed, NEW o \in DOMAIN heap, NEW i \in Id
  PROVE  /\ [heap EXCEPT ![o].id = i] \in Seq(Objects)
         /\ [heap EXCEPT ![o].id = i] =
              [q \in DOMAIN heap |->
                 IF q = o THEN [id |-> i, name |-> heap[q].name, ref |-> heap[q].ref] ELSE heap[q]]
<1>1. heap[o] \in Objects /\ o \in 1..Len(heap)
  BY LenProperties DEF Typed
<1>2. [heap[o] EXCEPT !.id = i] = [id |-> i, name |-> heap[o].name, ref |-> heap[o].ref]
  BY <1>1 DEF Objects
<1>3. [heap[o] EXCEPT !.id = i] \in Objects
  BY <1>1 DEF Objects
<1>4. [heap EXCEPT ![o] = [heap[o] EXCEPT !.id = i]] \in Seq(Objects)
  BY <1>1, <1>3, ExceptSeq DEF Typed
<1>5. heap = [q \in DOMAIN heap |-> heap[q]]
  BY LenProperties DEF Typed
<1> QED
  BY <1>2, <1>4, <1>5

(* ... or another property.                                                 *)
LEMMA RefChanged ==
  ASSUME Typed, NEW o \in DOMAIN heap, NEW p \in Nat \cup {NULL}
  PROVE  /\ [heap EXCEPT ![o].ref = p] \in Seq(Objects)
         /\ DOMAIN [heap EXCEPT ![o].ref = p] = DOMAIN heap
         /\ \A q \in DOMAIN heap :
              /\ [heap EXCEPT ![o].ref = p][q].id = heap[q].id
              /\ [heap EXCEPT ![o].ref = p][q].name = heap[q].name
<1>1. heap[o] \in Objects /\ o \in 1..Len(heap)
  BY LenProperties DEF Typed
<1>2. [heap[o] EXCEPT !.ref = p] = [id |-> heap[o].id, name |-> heap[o].name, ref |-> p]
  BY <1>1 DEF Objects
<1>3. [heap[o] EXCEPT !.ref = p] \in Objects
  BY <1>1 DEF Objects
<1>4. [heap EXCEPT ![o] = [heap[o] EXCEPT !.ref = p]] \in Seq(Objects)
  BY <1>1, <1>3, ExceptSeq DEF Typed
<1> DEFINE e == [id |-> heap[o].id, name |-> heap[o].name, ref |-> p]
<1>5. [heap EXCEPT ![o].ref = p] = [heap EXCEPT ![o] = e]
  BY <1>2
<1>6. e.id = heap[o].id /\ e.name = heap[o].name
  OBVIOUS
<1> HIDE DEF e
<1>7. \A q \in DOMAIN heap : [heap EXCEPT ![o] = e][q] = IF q = o THEN e ELSE heap[q]
  OBVIOUS
<1> QED
  BY <1>4, <1>2, <1>5, <1>6, <1>7

(* Removing the top of a stack.                                             *)
LEMMA TopRemoved ==
  ASSUME NEW S, NEW s \in Seq(S), s # <<>>
  PROVE  LET t == SubSeq(s, 1, Len(s) - 1)
         IN /\ t \in Seq(S) /\ Len(t) = Len(s) - 1
            /\ \A k \in 1..(Len(s) - 1) : t[k] = s[k]
<1>1. Len(s) \in Nat /\ Len(s) >= 1
  BY EmptySeq
<1>2. \A k \in 1..(Len(s) - 1) : s[k] \in S
  BY <1>1, ElementOfSeq
<1>3. /\ SubSeq(s, 1, Len(s) - 1) \in Seq(S)
      /\ Len(SubSeq(s, 1, Len(s) - 1)) = IF 1 <= Len(s) - 1 THEN (Len(s) - 1) - 1 + 1 ELSE 0
      /\ \A k \in 1..((Len(s) - 1) - 1 + 1) : SubSeq(s, 1, Len(s) - 1)[k] = s[1 + k - 1]
  BY <1>1, <1>2, SubSeqProperties
<1>4. (Len(s) - 1) - 1 + 1 = Len(s) - 1 /\ \A k \in 1..(Len(s) - 1) : 1 + k - 1 = k
  <2>1. \A n \in Nat : (n - 1) - 1 + 1 = n - 1 /\ \A k \in 1..(n - 1) : 1 + k - 1 = k
    OBVIOUS
  <2> QED
    BY <1>1, <2>1
<1>5. (IF 1 <= Len(s) - 1 THEN (Len(s) - 1) - 1 + 1 ELSE 0) = Len(s) - 1
  <2>1. \A n \in Nat : n >= 1 => (IF 1 <= n - 1 THEN (n - 1) - 1 + 1 ELSE 0) = n - 1
    OBVIOUS
  <2> QED
    BY <1>1, <2>1
<1> QED
  BY <1>3, <1>4, <1>5

(* Replacing the top of a stack.                                            *)
LEMMA TopReplaced ==
  ASSUME NEW S, NEW s \in Seq(S), s # <<>>, NEW e \in S
  PROVE  LET t == Append(SubSeq(s, 1, Len(s) - 1), e)
         IN /\ t \in Seq(S) /\ Len(t) = Len(s) /\ t[Len(s)] = e
            /\ \A k \in 1..(Len(s) - 1) : t[k] = s[k]
<1>1. Len(s) \in Nat /\ Len(s) >= 1
  BY EmptySeq
<1> DEFINE b == SubSeq(s, 1, Len(s) - 1)
<1>2. b \in Seq(S) /\ Len(b) = Len(s) - 1 /\ \A k \in 1..(Len(s) - 1) : b[k] = s[k]
  BY <1>1, TopRemoved
<1> HIDE DEF b
<1>3. /\ Append(b, e) \in Seq(S) /\ Len(Append(b, e)) = Len(s) /\ Append(b, e)[Len(s)] = e
      /\ \A k \in 1..(Len(s) - 1) : Append(b, e)[k] = b[k]
  BY <1>1, <1>2, Appended
<1> QED
  BY <1>2, <1>3 DEF b

(* The call in progress, if there is one.                                   *)
LEMMA TopIs ==
  ASSUME Typed, stack # <<>>
  PROVE  Len(stack) \in DOMAIN stack /\ Top = stack[Len(stack)]
<1>1. stack \in Seq(Loading \cup Assigning)
  BY DEF Typed
<1>2. Len(stack) \in Nat \ {0} /\ DOMAIN stack = 1..Len(stack)
  BY <1>1, EmptySeq, LenProperties
<1> QED
  BY <1>2 DEF Top

(* What the types of the memory, the table and the calls come to.           *)
LEMMA HeapFacts ==
  ASSUME Typed
  PROVE  /\ Len(heap) \in Nat /\ DOMAIN heap = 1..Len(heap)
         /\ \A o \in DOMAIN heap : heap[o].id \in Id \cup {None} /\ heap[o].name \in Names
         /\ NULL \notin DOMAIN heap
         /\ table.size \in Nat /\ DOMAIN table.data = 0..(table.size - 1)
         /\ Len(stack) \in Nat /\ DOMAIN stack = 1..Len(stack)
         /\ MaxId \in Nat /\ None \notin Id
<1>1. MaxId \in Nat /\ None \notin Id /\ NULL \notin Int
  BY StoreAssumption, ArrayAssumption DEF MaxId, Id, None
<1>2. /\ Len(heap) \in Nat /\ DOMAIN heap = 1..Len(heap)
      /\ \A o \in DOMAIN heap : heap[o] \in Objects
  BY LenProperties DEF Typed
<1>5. \A o \in DOMAIN heap : heap[o].id \in Id \cup {None} /\ heap[o].name \in Names
  BY <1>2 DEF Objects
<1>3. Len(stack) \in Nat /\ DOMAIN stack = 1..Len(stack)
  BY LenProperties DEF Typed
<1>4. table.size \in Nat /\ DOMAIN table.data = 0..(table.size - 1)
  BY DEF Typed, Sound, Shaped
<1> QED
  BY <1>1, <1>2, <1>3, <1>4, <1>5

(* Whoever the table gives is in memory.                                    *)
LEMMA GetsAnObject ==
  ASSUME Typed, NEW i
  PROVE  Get(table, i) \in DOMAIN heap \cup {NULL} /\ Get(table, i) \in Nat \cup {NULL}
<1>1. Get(table, i) \in DOMAIN heap \cup {NULL}
  BY DEF Get, Typed
<1>2. DOMAIN heap \subseteq Nat
  BY HeapFacts
<1> QED
  BY <1>1, <1>2

(* An index up to the last one in use is an identifier, and an identifier   *)
(* somebody is found under is one of them.                                  *)
LEMMA WithinTheTable ==
  ASSUME Typed
  PROVE  /\ table.last \in Int
         /\ \A i \in 0..table.last : i \in 0..(table.size - 1) /\ i \in Id
         /\ \A i \in Int : Get(table, i) # NULL =>
              i \in 0..(table.size - 1) /\ table.data[i] = Get(table, i) /\ i <= table.last
<1>1. /\ table.size \in Nat /\ table.last \in -1..(table.size - 1)
      /\ \A i \in 0..(table.size - 1) : i > table.last => table.data[i] = NULL
  BY HeapFacts DEF Typed, Sound, Shaped
<1>2. table.size <= MaxSize /\ MaxSize \in Nat
  BY StoreAssumption, ArrayAssumption DEF Typed, Sound
<1>3. table.last \in Int
  BY <1>1
<1>4. ASSUME NEW i \in 0..table.last
      PROVE  i \in 0..(table.size - 1) /\ i \in Id
  BY <1>1, <1>2, <1>3 DEF Id, MaxId
<1>5. ASSUME NEW i \in Int, Get(table, i) # NULL
      PROVE  i \in 0..(table.size - 1) /\ table.data[i] = Get(table, i) /\ i <= table.last
  <2>1. i \in 0..(table.size - 1) /\ table.data[i] = Get(table, i)
    BY <1>5 DEF Get
  <2> QED
    BY <1>1, <1>3, <1>5, <2>1
<1> QED
  BY <1>3, <1>4, <1>5

(* Who is found under an identifier has it.                                 *)
LEMMA FoundIsKnown ==
  ASSUME Typed, Registered
  PROVE  /\ \A i \in Int : Get(table, i) # NULL =>
               Get(table, i) \in DOMAIN heap /\ heap[Get(table, i)].id = i
         /\ \A o \in DOMAIN heap : heap[o].id # None => Get(table, heap[o].id) = o
  BY HeapFacts DEF Typed, Registered, Get, Known

(* Below an object that is not being read nothing arrives.                  *)
LEMMA NobodyArrives ==
  ASSUME Typed, ArrivesAlone, stack = <<>> \/ Top.call # "id"
  PROVE  /\ \A k \in DOMAIN stack : stack[k].call # "id"
         /\ \A o, i : ~Arriving(o, i)
  BY HeapFacts DEF ArrivesAlone, Arriving, Top

-----------------------------------------------------------------------------
(* The steps                                                                *)

(* At the start nobody is in memory.                                        *)
LEMMA InitIInv == Init => IInv
<1> SUFFICES ASSUME Init PROVE IInv
  OBVIOUS
<1>1. Sound(table) /\ \A i \in 0..(table.size - 1) : table.data[i] = NULL
  BY StoreAssumption DEF Init, NewArray, Sound, Shaped
<1>2. /\ disk = [i \in Id |-> disk[i]]
      /\ \A i \in Id : Good(disk[i]) => disk[i].name = i
  BY DEF Init, Databases, Good
<1>3. /\ heap = <<>> /\ DOMAIN heap = {} /\ stack = <<>> /\ DOMAIN stack = {}
      /\ saving = None /\ births = 0
  BY DEF Init
<1>4. Typed
  <2>1. heap \in Seq(Objects)
    BY <1>3, EmptySeq
  <2>2. stack \in Seq(Loading \cup Assigning)
    BY <1>3, EmptySeq
  <2>3. \A i \in Id : Good(disk[i]) => disk[i].name \in Names
    BY <1>2, <1>3, ArrayAssumption DEF Id, Names, MaxId
  <2> QED
    BY <1>1, <1>2, <1>3, <2>1, <2>2, <2>3 DEF Typed
<1>5. Registered
  BY <1>1, <1>3 DEF Registered, Known, Sound, Shaped
<1>6. OneFileEach /\ AtHome
  BY <1>2, <1>3 DEF OneFileEach, AtHome
<1> QED
  BY <1>3, <1>4, <1>5, <1>6 DEF IInv, ArrivesAlone, AssignedOnce, SavesAlone, Known,
       NeverTwice, NoHijack

(* An object begins to be read.                                             *)
LEMMA PushLoadIInv ==
  ASSUME IInv, NEW i, Loads(i), PushLoad(i), stack = <<>> \/ Top.call # "id",
         saving = None, UNCHANGED <<disk, saving, births>>
  PROVE  IInv'
<1> DEFINE n == Len(heap) + 1
           new == [id |-> None, name |-> disk[i].name, ref |-> NULL]
           call == [call |-> "id", obj |-> n, id |-> i]
<1> USE HeapFacts DEF IInv
<1>1. i \in Id /\ NotInTable(i) /\ Good(disk[i])
  BY DEF Loads
<1>2. heap' = Append(heap, new) /\ stack' = Append(stack, call) /\ table' = table
  BY DEF PushLoad
<1>3. /\ DOMAIN heap' = DOMAIN heap \cup {n} /\ n \notin DOMAIN heap /\ n \in Nat
      /\ heap'[n] = new /\ \A o \in DOMAIN heap : heap'[o] = heap[o]
      /\ heap' \in Seq(Objects)
  <2>1. new \in Objects
    BY <1>1 DEF Typed, Objects
  <2> HIDE DEF new
  <2> QED
    BY <1>2, <2>1, Appended DEF Typed
<1>4. /\ Len(stack') = Len(stack) + 1 /\ DOMAIN stack' = 1..(Len(stack) + 1)
      /\ stack' \in Seq(Loading \cup Assigning)
      /\ stack'[Len(stack) + 1] = call /\ \A k \in DOMAIN stack : stack'[k] = stack[k]
  BY <1>1, <1>2, <1>3 DEF Typed, Loading
<1> HIDE DEF n
<1>5. Typed'
  <2>1. Names' = Names /\ Objects' = Objects
    BY DEF Names, Objects
  <2>2. \A k \in DOMAIN stack' : stack'[k].obj \in DOMAIN heap'
    <3> SUFFICES ASSUME NEW k \in DOMAIN stack' PROVE stack'[k].obj \in DOMAIN heap'
      OBVIOUS
    <3>1. CASE k = Len(stack) + 1
      BY <1>3, <1>4, <3>1
    <3>2. CASE k # Len(stack) + 1
      <4>1. k \in DOMAIN stack /\ stack'[k] = stack[k]
        BY <1>4, <3>2
      <4>2. stack[k].obj \in DOMAIN heap
        BY <4>1 DEF Typed
      <4> QED
        BY <1>3, <4>1, <4>2
    <3> QED
      BY <3>1, <3>2
  <2>3. Sound(table)' /\ \A j \in 0..(table'.size - 1) : table'.data[j] \in DOMAIN heap' \cup {NULL}
    BY <1>2, <1>3 DEF Typed
  <2>4. disk' = [j \in Id |-> disk'[j]] /\ births' \in Nat
    BY DEF Typed
  <2>5. \A j \in Id : Good(disk'[j]) => disk'[j].name \in Names'
    BY <2>1 DEF Typed
  <2> QED
    BY <1>3, <1>4, <2>1, <2>2, <2>3, <2>4, <2>5 DEF Typed
<1>6. \A k \in DOMAIN stack : stack[k].call # "id"
  BY NobodyArrives
<1>7. ArrivesAlone'
  BY <1>1, <1>2, <1>3, <1>4, <1>6 DEF ArrivesAlone, NotInTable
<1>8. AssignedOnce'
  <2> SUFFICES ASSUME NEW k \in DOMAIN stack', stack'[k].call = "assign"
               PROVE  /\ heap'[stack'[k].obj].id = None
                      /\ \A l \in DOMAIN stack' : stack'[l].obj = stack'[k].obj => l = k
    BY DEF AssignedOnce
  <2>1. k \in DOMAIN stack /\ stack'[k] = stack[k]
    BY <1>4
  <2>2. stack[k].obj \in DOMAIN heap /\ stack[k].obj # n
    BY <1>3, <2>1 DEF Typed
  <2>3. heap'[stack'[k].obj].id = None
    BY <1>3, <2>1, <2>2 DEF AssignedOnce
  <2>4. ASSUME NEW l \in DOMAIN stack', stack'[l].obj = stack'[k].obj
        PROVE  l = k
    <3>1. l # Len(stack) + 1
      BY <1>4, <2>1, <2>2, <2>4
    <3>2. l \in DOMAIN stack /\ stack'[l] = stack[l]
      BY <1>4, <3>1
    <3> QED
      BY <2>1, <2>4, <3>2 DEF AssignedOnce
  <2> QED
    BY <2>3, <2>4
<1>9. SavesAlone' /\ OneFileEach'
  BY DEF SavesAlone, OneFileEach
<1>10. AtHome'
  <2> SUFFICES ASSUME NEW o \in DOMAIN heap', NEW j \in Id,
                      Good(disk[j]), disk[j].name = heap'[o].name
               PROVE  heap'[o].id = j \/ Arriving(o, j)'
    BY DEF AtHome
  <2>1. CASE o \in DOMAIN heap
    BY <1>3, <2>1, NobodyArrives DEF AtHome
  <2>2. CASE o = n
    <3>1. j = i
      BY <1>1, <1>3, <2>2 DEF OneFileEach
    <3>2. stack' # <<>> /\ Top' = call
      BY <1>4 DEF Top
    <3> QED
      BY <2>2, <3>1, <3>2 DEF Arriving
  <2> QED
    BY <1>3, <2>1, <2>2
<1>11. Known' = Known
  BY <1>3 DEF Known
<1>12. Registered'
  BY <1>2, <1>3, <1>11 DEF Registered, Known, Typed
<1>13. ASSUME NEW o \in DOMAIN heap, heap[o].name = disk[i].name
       PROVE  FALSE
  <2>1. heap[o].id = i
    BY <1>1, <1>13, NobodyArrives DEF AtHome
  <2> QED
    BY <1>1, <2>1, FoundIsKnown DEF NotInTable
<1>14. NeverTwice'
  BY <1>3, <1>13 DEF NeverTwice
<1>15. NoHijack'
  BY <1>3, <1>11 DEF NoHijack, Known
<1> QED
  BY <1>5, <1>7, <1>8, <1>9, <1>10, <1>12, <1>14, <1>15

(* The object on top of the stack takes a free identifier.                  *)
LEMMA RegisterIInv ==
  ASSUME IInv, NEW i \in Id, NEW o \in DOMAIN heap, Register(o, i),
         NotInTable(i), heap[o].id = None, saving = None,
         \A j \in Id : Good(disk[j]) /\ disk[j].name = heap[o].name => j = i,
         Good(disk[i]) => disk[i].name = heap[o].name,
         \A p, j : Arriving(p, j) => p = o,
         stack' \in Seq(Loading \cup Assigning),
         \A k \in DOMAIN stack' :
           k \in DOMAIN stack /\ stack'[k].obj = stack[k].obj /\ stack'[k].call # "id",
         \A k \in DOMAIN stack' : stack'[k].call = "assign" =>
           stack[k].call = "assign" /\ stack[k].obj # o,
         UNCHANGED <<disk, saving, births>>
  PROVE  IInv'
<1> USE HeapFacts DEF IInv
<1>1. CanSet(table, i, o)
  BY DEF CanSet, NotInTable, Id, MaxId
<1>2. /\ table' = Set(table, i, o) /\ heap' = [heap EXCEPT ![o].id = i]
      /\ Sound(table) /\ i \in Int /\ o # NULL
  BY <1>1 DEF Register, Typed, Id
<1>3. Sound(table') /\ \A j \in Int : Get(table', j) = IF j = i THEN o ELSE Get(table, j)
  BY <1>1, <1>2, SetSound, SetThenGet
<1>4. /\ DOMAIN heap' = DOMAIN heap /\ heap'[o].id = i
      /\ \A p \in DOMAIN heap : heap'[p].name = heap[p].name
      /\ \A p \in DOMAIN heap : p # o => heap'[p] = heap[p]
      /\ heap' \in Seq(Objects)
  <2>1. /\ heap' \in Seq(Objects)
        /\ heap' = [q \in DOMAIN heap |->
                     IF q = o THEN [id |-> i, name |-> heap[q].name, ref |-> heap[q].ref]
                     ELSE heap[q]]
    <3>1. /\ heap \in Seq(Objects)
          /\ i \in Id \cup {None} /\ o \in DOMAIN heap
      BY DEF Typed
    <3> QED
      BY <1>2, <3>1, IdChanged
  <2> QED
    BY <2>1
<1>5. table'.size \in Nat /\ DOMAIN table'.data = 0..(table'.size - 1)
  BY <1>3 DEF Sound, Shaped
<1>6. \A j \in 0..(table'.size - 1) : table'.data[j] = IF j = i THEN o ELSE Get(table, j)
  BY <1>3, <1>5 DEF Get
<1>7. \A j \in Int : Get(table, j) # NULL =>
        Get(table, j) \in DOMAIN heap /\ heap[Get(table, j)].id = j
  BY FoundIsKnown
<1>8. Typed'
  <2>1. Names' = Names /\ Objects' = Objects
    BY DEF Names, Objects
  <2>2. \A j \in 0..(table'.size - 1) : table'.data[j] \in DOMAIN heap' \cup {NULL}
    BY <1>4, <1>5, <1>6, <1>7
  <2>3. disk' = [j \in Id |-> disk'[j]] /\ births' \in Nat
    BY DEF Typed
  <2>4. \A j \in Id : Good(disk'[j]) => disk'[j].name \in Names'
    BY <2>1 DEF Typed
  <2>5. \A k \in DOMAIN stack' : stack'[k].obj \in DOMAIN heap'
    BY <1>4 DEF Typed
  <2> QED
    BY <1>3, <1>4, <2>1, <2>2, <2>3, <2>4, <2>5 DEF Typed
<1>9. ArrivesAlone' /\ SavesAlone' /\ OneFileEach'
  BY DEF ArrivesAlone, SavesAlone, OneFileEach
<1>10. AssignedOnce'
  <2> SUFFICES ASSUME NEW k \in DOMAIN stack', stack'[k].call = "assign"
               PROVE  /\ heap'[stack'[k].obj].id = None
                      /\ \A l \in DOMAIN stack' : stack'[l].obj = stack'[k].obj => l = k
    BY DEF AssignedOnce
  <2>1. /\ k \in DOMAIN stack /\ stack'[k].obj = stack[k].obj
        /\ stack[k].call = "assign" /\ stack[k].obj # o
    OBVIOUS
  <2>2. stack[k].obj \in DOMAIN heap /\ heap[stack[k].obj].id = None
    BY <2>1 DEF Typed, AssignedOnce
  <2>3. \A l \in DOMAIN stack' : stack'[l].obj = stack'[k].obj => l = k
    BY <2>1 DEF AssignedOnce
  <2> QED
    BY <1>4, <2>1, <2>2, <2>3
<1>11. AtHome'
  BY <1>4 DEF AtHome
<1>12. Registered'
  <2>1. ASSUME NEW p \in DOMAIN heap', heap'[p].id # None
        PROVE  Get(table', heap'[p].id) = p
    <3>1. CASE p = o
      BY <1>2, <1>3, <1>4, <3>1
    <3>2. CASE p # o
      <4>1. heap'[p] = heap[p] /\ heap[p].id \in Int /\ Get(table, heap[p].id) = p
        BY <1>4, <2>1, <3>2, FoundIsKnown DEF Id
      <4>2. heap[p].id # i
        BY <1>2, <1>4, <4>1 DEF NotInTable
      <4> QED
        BY <1>3, <4>1, <4>2
    <3> QED
      BY <3>1, <3>2
  <2>2. ASSUME NEW j \in 0..(table'.size - 1), table'.data[j] # NULL
        PROVE  heap'[table'.data[j]].id = j
    <3>1. CASE j = i
      BY <1>4, <1>6, <3>1
    <3>2. CASE j # i
      <4>1. table'.data[j] = Get(table, j) /\ Get(table, j) \in DOMAIN heap /\ heap[Get(table, j)].id = j
        BY <1>6, <1>7, <2>2, <3>2
      <4>2. Get(table, j) # o
        BY <4>1 DEF None
      <4> QED
        BY <1>4, <4>1, <4>2
    <3> QED
      BY <3>1, <3>2
  <2> QED
    BY <1>5, <2>1, <2>2 DEF Registered, Known
<1>13. NeverTwice'
  BY <1>4 DEF NeverTwice
<1>14. NoHijack'
  BY <1>4 DEF NoHijack, Known
<1> QED
  BY <1>8, <1>9, <1>10, <1>11, <1>12, <1>13, <1>14

(* The id entry of a file is read.                                          *)
LEMMA ReadIdIInv ==
  ASSUME IInv, ReadId
  PROVE  IInv'
<1> DEFINE o == Top.obj
           i == Top.id
<1> USE HeapFacts DEF IInv
<1>1. /\ stack # <<>> /\ Top.call = "id" /\ Register(o, i)
      /\ stack' = Append(Below, [Top EXCEPT !.call = "property"])
      /\ UNCHANGED <<disk, saving, births>>
  BY DEF ReadId
<1>2. Len(stack) \in DOMAIN stack /\ Top = stack[Len(stack)]
  BY <1>1, TopIs DEF IInv
<1>3. /\ o \in DOMAIN heap /\ NotInTable(i) /\ Good(disk[i])
      /\ heap[o].id = None /\ heap[o].name = disk[i].name
  BY <1>1, <1>2 DEF Typed, ArrivesAlone
<1>4. Top \in Loading
  BY <1>1, <1>2 DEF Typed, Loading, Assigning
<1>5. i \in Id /\ saving = None
  BY <1>1, <1>4 DEF Loading, SavesAlone
<1>6. \A j \in Id : Good(disk[j]) /\ disk[j].name = heap[o].name => j = i
  BY <1>3, <1>5 DEF OneFileEach
<1>7. \A p, j : Arriving(p, j) => p = o
  BY DEF Arriving
<1> DEFINE e == [Top EXCEPT !.call = "property"]
<1>8. e \in Loading /\ e.call = "property" /\ e.obj = o
  BY <1>4 DEF Loading
<1> HIDE DEF e
<1>9. /\ stack' \in Seq(Loading \cup Assigning) /\ Len(stack') = Len(stack)
      /\ stack'[Len(stack)] = e /\ \A k \in 1..(Len(stack) - 1) : stack'[k] = stack[k]
  BY <1>1, <1>8, TopReplaced DEF e, Below, Typed
<1>10. DOMAIN stack' = DOMAIN stack
  BY <1>9
<1>11. \A k \in DOMAIN stack' :
         stack'[k].obj = stack[k].obj /\ stack'[k].call # "id"
  BY <1>2, <1>8, <1>9, <1>10 DEF ArrivesAlone
<1>12. \A k \in DOMAIN stack' : stack'[k].call = "assign" =>
         stack[k].call = "assign" /\ stack[k].obj # o
  <2> SUFFICES ASSUME NEW k \in DOMAIN stack', stack'[k].call = "assign"
               PROVE  stack[k].call = "assign" /\ stack[k].obj # o
    OBVIOUS
  <2>1. k # Len(stack) /\ stack'[k] = stack[k]
    BY <1>8, <1>9, <1>10
  <2> QED
    BY <1>2, <1>10, <2>1 DEF AssignedOnce
<1> QED
  <2> HIDE DEF o, i
  <2>1. \A k \in DOMAIN stack' :
          k \in DOMAIN stack /\ stack'[k].obj = stack[k].obj /\ stack'[k].call # "id"
    BY <1>10, <1>11
  <2> QED
    BY <1>1, <1>3, <1>5, <1>6, <1>7, <1>9, <1>12, <2>1, RegisterIInv

(* The search for an identifier ends at a free one.                         *)
LEMMA AssignTakesIInv ==
  ASSUME IInv, AssignTakes
  PROVE  IInv'
<1> DEFINE o == Top.obj
           i == Top.id
<1> USE HeapFacts DEF IInv
<1>1. /\ stack # <<>> /\ Top.call = "assign" /\ i < MaxId /\ FindsNothing(i)
      /\ Register(o, i) /\ stack' = Below
      /\ UNCHANGED <<disk, saving, births>>
  BY DEF AssignTakes
<1>2. Len(stack) \in DOMAIN stack /\ Top = stack[Len(stack)]
  BY <1>1, TopIs DEF IInv
<1>3. Top \in Assigning
  BY <1>1, <1>2, SMTT(30) DEF Typed, Loading, Assigning
<1>4. /\ i \in Id /\ saving = None /\ NotInTable(i) /\ ~Good(disk[i])
      /\ o \in DOMAIN heap /\ heap[o].id = None
  BY <1>1, <1>2, <1>3 DEF Assigning, SavesAlone, FindsNothing, AssignedOnce, Typed, Id, MaxId
<1>5. \A k \in DOMAIN stack : stack[k].call # "id"
  BY <1>1, NobodyArrives
<1>6. \A p, j : ~Arriving(p, j)
  BY <1>1, NobodyArrives
<1>7. \A j \in Id : ~(Good(disk[j]) /\ disk[j].name = heap[o].name)
  BY <1>4, <1>6 DEF AtHome
<1>8. /\ stack' \in Seq(Loading \cup Assigning) /\ Len(stack') = Len(stack) - 1
      /\ \A k \in 1..(Len(stack) - 1) : stack'[k] = stack[k]
  BY <1>1, TopRemoved DEF Below, Typed
<1>9. DOMAIN stack' = 1..(Len(stack) - 1)
  BY <1>8
<1>10. \A k \in DOMAIN stack' : stack[k].obj # o
  BY <1>1, <1>2, <1>9 DEF AssignedOnce
<1>11. \A k \in DOMAIN stack' : k \in DOMAIN stack /\ stack'[k] = stack[k]
  BY <1>8, <1>9
<1> QED
  <2> HIDE DEF o, i
  <2>1. \A k \in DOMAIN stack' :
          k \in DOMAIN stack /\ stack'[k].obj = stack[k].obj /\ stack'[k].call # "id"
    BY <1>5, <1>11
  <2>2. \A k \in DOMAIN stack' : stack'[k].call = "assign" =>
          stack[k].call = "assign" /\ stack[k].obj # o
    BY <1>10, <1>11
  <2> QED
    BY <1>1, <1>4, <1>6, <1>7, <1>8, <2>1, <2>2, RegisterIInv

(* Identifiers, names and files stay as they are, and no call begins.       *)
LEMMA SameObjectsIInv ==
  ASSUME IInv, stack = <<>> \/ Top.call # "id",
         heap' \in Seq(Objects),
         DOMAIN heap' = DOMAIN heap,
         \A o \in DOMAIN heap : heap'[o].id = heap[o].id /\ heap'[o].name = heap[o].name,
         stack' \in Seq(Loading \cup Assigning),
         \A k \in DOMAIN stack' :
           k \in DOMAIN stack /\ stack'[k].obj = stack[k].obj /\ stack'[k].call = stack[k].call,
         SavesAlone', UNCHANGED <<table, disk, births>>
  PROVE  IInv'
<1> USE HeapFacts DEF IInv
<1>1. /\ \A k \in DOMAIN stack : stack[k].call # "id"
      /\ \A o, i : ~Arriving(o, i)
  BY NobodyArrives
<1>2. Typed'
  <2>1. Names' = Names /\ Objects' = Objects
    BY DEF Names, Objects
  <2> QED
    BY <2>1 DEF Typed
<1>3. ArrivesAlone'
  BY <1>1 DEF ArrivesAlone
<1>4. AssignedOnce'
  BY SMTT(30) DEF AssignedOnce, Typed
<1>5. OneFileEach'
  BY DEF OneFileEach
<1>6. AtHome'
  BY <1>1 DEF AtHome
<1>7. Registered'
  BY DEF Registered, Known, Typed
<1>8. NeverTwice' /\ NoHijack'
  BY DEF NeverTwice, NoHijack, Known
<1> QED
  BY <1>2, <1>3, <1>4, <1>5, <1>6, <1>7, <1>8

(* The property of a file is read.                                          *)
LEMMA ReadPropertyIInv ==
  ASSUME IInv, ReadProperty
  PROVE  IInv'
<1> DEFINE ref == disk[Top.id].ref
<1> USE HeapFacts DEF IInv
<1>1. stack # <<>> /\ Top.call = "property" /\ UNCHANGED <<disk, saving, births>>
  BY DEF ReadProperty
<1>2. saving = None
  BY <1>1 DEF SavesAlone
<1>3. CASE Loads(ref) /\ PushLoad(ref)
  BY <1>1, <1>2, <1>3, PushLoadIInv
<1>4. CASE ~(Loads(ref) /\ PushLoad(ref))
  <2>1. /\ stack' = Below /\ heap' = [heap EXCEPT ![Top.obj].ref = Get(table, ref)]
        /\ UNCHANGED table
    BY <1>4 DEF ReadProperty
  <2>2. /\ stack' \in Seq(Loading \cup Assigning) /\ Len(stack') = Len(stack) - 1
        /\ \A k \in 1..(Len(stack) - 1) : stack'[k] = stack[k]
    BY <1>1, <2>1, TopRemoved DEF Below, Typed
  <2>3. \A k \in DOMAIN stack' : k \in DOMAIN stack /\ stack'[k] = stack[k]
    BY <2>2
  <2>4. Get(table, ref) \in Nat \cup {NULL}
    BY GetsAnObject
  <2>5. /\ heap' \in Seq(Objects)
        /\ DOMAIN heap' = DOMAIN heap
        /\ \A o \in DOMAIN heap : heap'[o].id = heap[o].id /\ heap'[o].name = heap[o].name
    <3>1. Len(stack) \in DOMAIN stack
      BY <1>1, EmptySeq DEF Typed
    <3>2. Top.obj \in DOMAIN heap
      BY <3>1 DEF Top, Typed
    <3>3. heap \in Seq(Objects)
      BY DEF Typed
    <3> QED
      BY <2>1, <2>4, <3>2, <3>3, RefChanged
  <2>6. SavesAlone'
    BY <1>1, <1>2 DEF SavesAlone
  <2> QED
    BY <1>1, <2>1, <2>2, <2>3, <2>5, <2>6, SameObjectsIInv
<1> QED
  BY <1>3, <1>4

(* The search for an identifier goes on, or ends at none.                   *)
LEMMA AssignGoesOnIInv ==
  ASSUME IInv, AssignNext \/ AssignThrows
  PROVE  IInv'
<1> USE HeapFacts DEF IInv
<1>1. /\ stack # <<>> /\ Top.call = "assign"
      /\ UNCHANGED <<heap, table, disk, saving, births>>
  BY DEF AssignNext, AssignThrows, memory
<1>2. Len(stack) \in DOMAIN stack /\ Top = stack[Len(stack)]
  BY <1>1, TopIs DEF IInv
<1>3. Top \in Assigning
  <2>1. Top \in Loading \cup Assigning
    BY <1>2 DEF Typed
  <2> QED
    BY <1>1, <2>1 DEF Loading, Assigning
<1> DEFINE e == [Top EXCEPT !.id = @ + 1]
<1>4. e \in Assigning /\ e.call = Top.call /\ e.obj = Top.obj
  BY <1>3 DEF Assigning
<1>5. stack' = Append(Below, e) \/ stack' = Below
  BY DEF AssignNext, AssignThrows
<1> HIDE DEF e
<1>6. /\ stack' \in Seq(Loading \cup Assigning)
      /\ \A k \in DOMAIN stack' :
           k \in DOMAIN stack /\ stack'[k].obj = stack[k].obj /\ stack'[k].call = stack[k].call
  <2>1. CASE stack' = Append(Below, e)
    <3>1. /\ stack' \in Seq(Loading \cup Assigning) /\ Len(stack') = Len(stack)
          /\ stack'[Len(stack)] = e /\ \A k \in 1..(Len(stack) - 1) : stack'[k] = stack[k]
      BY <1>1, <1>4, <2>1, TopReplaced DEF Below, Typed
    <3> QED
      BY <1>2, <1>4, <3>1
  <2>2. CASE stack' = Below
    <3>1. /\ stack' \in Seq(Loading \cup Assigning) /\ Len(stack') = Len(stack) - 1
          /\ \A k \in 1..(Len(stack) - 1) : stack'[k] = stack[k]
      BY <1>1, <2>2, TopRemoved DEF Below, Typed
    <3> QED
      <4>1. DOMAIN stack' = 1..(Len(stack) - 1)
        BY <3>1, LenProperties
      <4> QED
        BY <3>1, <4>1
  <2> QED
    BY <1>5, <2>1, <2>2
<1>7. SavesAlone'
  BY <1>1 DEF SavesAlone
<1>8. heap' \in Seq(Objects)
  BY <1>1 DEF Typed
<1> QED
  BY <1>1, <1>6, <1>7, <1>8, SameObjectsIInv

(* A thing is born: its name is new, and it has no identifier yet.          *)
LEMMA CloneIInv ==
  ASSUME IInv, Clone
  PROVE  IInv'
<1> DEFINE n == Len(heap) + 1
           new == [id |-> None, name |-> MaxId + births, ref |-> NULL]
           call == [call |-> "assign", obj |-> n, id |-> table.nextSpace]
<1> USE HeapFacts DEF IInv
<1>1. /\ stack = <<>> /\ saving = None /\ births \in Nat /\ births' = births + 1
      /\ heap' = Append(heap, new) /\ stack' = <<call>>
      /\ UNCHANGED <<table, disk, saving>>
  BY DEF Clone, Idle, Typed
<1>2. table.nextSpace \in Nat
  BY DEF Typed, Sound, Shaped
<1>3. Names \subseteq Names' /\ MaxId + births \in Names' /\ MaxId + births \notin Names
  BY <1>1 DEF Names
<1>4. /\ DOMAIN heap' = DOMAIN heap \cup {n} /\ n \notin DOMAIN heap /\ n \in Nat
      /\ heap'[n] = new /\ \A o \in DOMAIN heap : heap'[o] = heap[o]
  BY <1>1, Appended DEF Typed
<1>5. heap' \in Seq(Objects')
  <2>1. Objects \subseteq Objects' /\ new \in Objects'
    BY <1>3 DEF Objects
  <2>2. heap \in Seq(Objects')
    BY <2>1, SeqMonotonic DEF Typed
  <2> HIDE DEF new
  <2> QED
    BY <1>1, <2>1, <2>2, Appended
<1>6. /\ stack' \in Seq(Loading \cup Assigning) /\ DOMAIN stack' = {1}
      /\ stack'[1] = call /\ stack' # <<>> /\ Top' = call
  BY <1>1, <1>2, <1>4 DEF Assigning, Top
<1> HIDE DEF n
<1>7. Typed'
  BY <1>1, <1>3, <1>4, <1>5, <1>6 DEF Typed
<1>8. ArrivesAlone' /\ AssignedOnce' /\ SavesAlone' /\ OneFileEach'
  BY <1>1, <1>4, <1>6 DEF ArrivesAlone, AssignedOnce, SavesAlone, OneFileEach
<1>9. AtHome'
  <2> SUFFICES ASSUME NEW o \in DOMAIN heap', NEW j \in Id,
                      Good(disk[j]), disk[j].name = heap'[o].name
               PROVE  heap'[o].id = j
    BY <1>1 DEF AtHome
  <2>1. o # n
    BY <1>3, <1>4 DEF Typed
  <2> QED
    BY <1>1, <1>4, <2>1, NobodyArrives DEF AtHome
<1>10. Known' = Known
  BY <1>4 DEF Known
<1>11. Registered' /\ NoHijack'
  <2>1. Registered'
    BY <1>1, <1>4, <1>10 DEF Registered, Known, Typed
  <2>2. NoHijack'
    BY <1>1, <1>4, <1>10 DEF NoHijack, Known
  <2> QED
    BY <2>1, <2>2
<1>12. NeverTwice'
  BY <1>3, <1>4 DEF NeverTwice
<1> QED
  BY <1>7, <1>8, <1>9, <1>11, <1>12

(* The file of an object is emptied, or filled with what it is now.         *)
LEMMA SaveIInv ==
  ASSUME IInv, SaveOpens \/ SaveWrites
  PROVE  IInv'
<1> DEFINE p == table.data[saving]
<1> USE HeapFacts DEF IInv
<1>1. /\ saving \in 0..table.last /\ p # NULL
      /\ saving' \in Int /\ UNCHANGED <<heap, table, stack, births>>
  BY DEF SaveOpens, SaveWrites, memory
<1>2. /\ saving \in 0..(table.size - 1) /\ saving \in Id
  BY <1>1, WithinTheTable
<1>3. p \in DOMAIN heap /\ heap[p].id = saving
  BY <1>1, <1>2 DEF Typed, Registered
<1>4. stack = <<>>
  BY <1>1 DEF SavesAlone, None
<1>5. \A o, i : ~Arriving(o, i)
  BY <1>4 DEF Arriving
<1>6. /\ disk' = [i \in Id |-> disk'[i]]
      /\ \A i \in Id : i # saving => disk'[i] = disk[i]
      /\ Good(disk'[saving]) => disk'[saving].name = heap[p].name
  BY <1>2 DEF SaveOpens, SaveWrites, Typed, Good, Written
<1>7. Typed'
  <2>1. Names' = Names /\ Objects' = Objects
    BY <1>1 DEF Names, Objects
  <2>2. \A i \in Id : Good(disk'[i]) => disk'[i].name \in Names'
    BY <1>3, <1>6, <2>1 DEF Typed
  <2> QED
    BY <1>1, <1>6, <2>1, <2>2 DEF Typed
<1>8. ArrivesAlone' /\ AssignedOnce' /\ SavesAlone'
  BY <1>1, <1>4 DEF ArrivesAlone, AssignedOnce, SavesAlone
<1>9. AtHome'
  <2> SUFFICES ASSUME NEW o \in DOMAIN heap, NEW i \in Id,
                      Good(disk'[i]), disk'[i].name = heap[o].name
               PROVE  heap[o].id = i
    BY <1>1 DEF AtHome
  <2>1. CASE i = saving
    BY <1>3, <1>6, <2>1 DEF NeverTwice
  <2>2. CASE i # saving
    BY <1>5, <1>6, <2>2 DEF AtHome
  <2> QED
    BY <2>1, <2>2
<1>10. OneFileEach'
  BY <1>1, <1>3, <1>5, <1>6 DEF OneFileEach, AtHome
<1>11. Registered' /\ NeverTwice'
  BY <1>1 DEF Registered, NeverTwice, Known
<1>12. NoHijack'
  <2> SUFFICES ASSUME NEW o \in DOMAIN heap, heap[o].id # None, Good(disk'[heap[o].id])
               PROVE  disk'[heap[o].id].name = heap[o].name
    BY <1>1 DEF NoHijack, Known
  <2>1. CASE heap[o].id = saving
    BY <1>3, <1>6, <2>1, FoundIsKnown
  <2>2. CASE heap[o].id # saving
    BY <1>6, <2>2 DEF NoHijack, Known
  <2> QED
    BY <2>1, <2>2
<1> QED
  BY <1>7, <1>8, <1>9, <1>10, <1>11, <1>12

(* A crash leaves the files.                                                *)
LEMMA CrashIInv ==
  ASSUME IInv, Crash
  PROVE  IInv'
<1>1. Sound(table') /\ \A i \in 0..(table'.size - 1) : table'.data[i] = NULL
  BY StoreAssumption DEF Crash, NewArray, Sound, Shaped
<1>2. Typed'
  BY <1>1 DEF Crash, IInv, Typed, Names
<1>3. DOMAIN table'.data = 0..(table'.size - 1)
  BY <1>1 DEF Sound, Shaped
<1> QED
  BY <1>1, <1>2, <1>3 DEF Crash, IInv, ArrivesAlone, AssignedOnce, SavesAlone, OneFileEach,
       AtHome, Registered, Known, NeverTwice, NoHijack

(* Every step keeps the invariant.                                          *)
LEMMA NextIInv ==
  ASSUME IInv, [Next]_vars
  PROVE  IInv'
<1> USE HeapFacts DEF IInv
<1>1. ASSUME NEW i \in Id, Lookup(i) PROVE IInv'
  BY <1>1, PushLoadIInv DEF Lookup, Idle
<1>2. CASE ReadId \/ ReadProperty
  BY <1>2, ReadIdIInv, ReadPropertyIInv
<1>3. CASE Clone
  BY <1>3, CloneIInv
<1>4. CASE AssignNext \/ AssignTakes \/ AssignThrows
  BY <1>4, AssignGoesOnIInv, AssignTakesIInv
<1>5. CASE AssignLoads
  BY <1>5, PushLoadIInv DEF AssignLoads, SavesAlone
<1>6. ASSUME NEW o \in Known, NEW p \in Known \cup {NULL}, SetProperty(o, p)
      PROVE  IInv'
  <2>1. /\ stack = <<>> /\ heap' = [heap EXCEPT ![o].ref = p]
        /\ UNCHANGED <<table, disk, stack, saving, births>>
    BY <1>6 DEF SetProperty, Idle
  <2>2. p \in Nat \cup {NULL}
    BY DEF Known
  <2>3. /\ heap' \in Seq(Objects) /\ DOMAIN heap' = DOMAIN heap
        /\ \A q \in DOMAIN heap : heap'[q].id = heap[q].id /\ heap'[q].name = heap[q].name
    <3>1. heap \in Seq(Objects) /\ o \in DOMAIN heap
      BY DEF Typed, Known
    <3> QED
      BY <2>1, <2>2, <3>1, RefChanged
  <2> QED
    BY <2>1, <2>3, SameObjectsIInv DEF SavesAlone, Typed
<1>7. CASE SaveAll \/ SaveNothing \/ SaveEnds
  <2>1. stack = <<>> /\ UNCHANGED <<heap, table, disk, stack, births>>
    BY <1>7 DEF SaveAll, SaveNothing, SaveEnds, Idle, SavesAlone, memory, None
  <2> QED
    BY <2>1, SameObjectsIInv DEF SavesAlone, Typed
<1>8. CASE SaveOpens \/ SaveWrites
  BY <1>8, SaveIInv
<1>9. CASE Crash
  BY <1>9, CrashIInv
<1>10. CASE UNCHANGED vars
  <2>1. Typed'
    <3>1. Names' = Names /\ Objects' = Objects
      BY <1>10 DEF vars, Names, Objects
    <3> QED
      BY <1>10, <3>1 DEF vars, Typed
  <2>2. ArrivesAlone' /\ AssignedOnce' /\ SavesAlone'
    BY <1>10 DEF vars, ArrivesAlone, AssignedOnce, SavesAlone, NotInTable
  <2>3. OneFileEach' /\ AtHome'
    BY <1>10 DEF vars, OneFileEach, AtHome, Arriving, Top
  <2>4. Registered' /\ NeverTwice' /\ NoHijack'
    BY <1>10 DEF vars, Registered, Known, NeverTwice, NoHijack
  <2> QED
    BY <2>1, <2>2, <2>3, <2>4
<1> QED
  BY <1>1, <1>2, <1>3, <1>4, <1>5, <1>6, <1>7, <1>8, <1>9, <1>10 DEF Next

-----------------------------------------------------------------------------
(* What a file says of its object                                           *)

(* Files refer to objects in the database, objects to objects that have     *)
(* identifiers.                                                             *)
FilesRefer == \A i \in Id : Good(disk[i]) => disk[i].ref \in Id \cup {None}
RefsKnown ==
  \A o \in DOMAIN heap : heap[o].ref # NULL =>
    heap[o].ref \in DOMAIN heap /\ heap[heap[o].ref].id \in Id

(* What is being read is in the database, what is being born is not.        *)
ReadsItsFile ==
  \A k \in DOMAIN stack : stack[k].call = "property" =>
    /\ stack[k].id \in Id /\ Good(disk[stack[k].id])
    /\ heap[stack[k].obj].id = stack[k].id
BornDirty ==
  \A k \in DOMAIN stack : stack[k].call = "assign" => stack[k].obj \in dirty

(* An object that has not changed has yet to read its property, or is in    *)
(* the middle of being saved, or is as its file says.                       *)
Pending(o) == \E k \in DOMAIN stack : stack[k].obj = o /\ stack[k].call = "property"
Emptied(o) == saving = heap[o].id /\ disk[saving] = Torn
FileSays(o) ==
  /\ disk[heap[o].id].name = heap[o].name
  /\ disk[heap[o].id].ref = IF heap[o].ref = NULL THEN None ELSE heap[heap[o].ref].id
Faithful == \A o \in Known \ dirty : Pending(o) \/ Emptied(o) \/ FileSays(o)

FilesInv == FilesRefer /\ RefsKnown /\ ReadsItsFile /\ BornDirty /\ Faithful

(* At the start there are files and no objects.                             *)
LEMMA InitFilesInv == Init => FilesInv
<1> SUFFICES ASSUME Init PROVE FilesInv
  OBVIOUS
<1>1. DOMAIN heap = {} /\ DOMAIN stack = {}
  BY DEF Init
<1>2. FilesRefer
  BY DEF FilesRefer, Init, Databases, Good
<1> QED
  BY <1>1, <1>2 DEF FilesInv, RefsKnown, ReadsItsFile, BornDirty, Faithful, Known

(* A file goes on saying what it said of an object that does not change.    *)
LEMMA StillSays ==
  ASSUME RefsKnown, NEW q \in DOMAIN heap, FileSays(q), heap'[q] = heap[q],
         \A p \in DOMAIN heap : heap[p].id \in Id => heap'[p].id = heap[p].id,
         disk'[heap[q].id] = disk[heap[q].id]
  PROVE  FileSays(q)'
  BY DEF RefsKnown, FileSays

(* An object that is being read is not in the database yet.                 *)
LEMMA PushLoadFilesInv ==
  ASSUME IInv, FilesInv, NEW i, Loads(i), PushLoad(i), UNCHANGED <<disk, saving>>
  PROVE  FilesInv'
<1> DEFINE n == Len(heap) + 1
           new == [id |-> None, name |-> disk[i].name, ref |-> NULL]
           call == [call |-> "id", obj |-> n, id |-> i]
<1> USE HeapFacts DEF IInv, FilesInv
<1>1. i \in Id /\ Good(disk[i])
  BY DEF Loads
<1>2. /\ heap' = Append(heap, new) /\ stack' = Append(stack, call)
      /\ table' = table /\ dirty' = dirty
  BY DEF PushLoad
<1>3. /\ DOMAIN heap' = DOMAIN heap \cup {n} /\ n \notin DOMAIN heap /\ n \in Nat
      /\ heap'[n] = new /\ \A o \in DOMAIN heap : heap'[o] = heap[o]
  <2>1. new \in Objects
    BY <1>1 DEF Typed, Objects
  <2> HIDE DEF new
  <2> QED
    BY <1>2, <2>1, Appended DEF Typed
<1>4. /\ DOMAIN stack' = DOMAIN stack \cup {Len(stack) + 1}
      /\ stack'[Len(stack) + 1] = call /\ \A k \in DOMAIN stack : stack'[k] = stack[k]
  <2>1. call \in Loading \cup Assigning
    BY <1>1, <1>3 DEF Loading
  <2> HIDE DEF call
  <2> QED
    BY <1>2, <2>1, Appended DEF Typed
<1> HIDE DEF n
<1>5. \A k \in DOMAIN stack : stack[k].obj \in DOMAIN heap
  BY DEF Typed
<1>6. FilesRefer' /\ RefsKnown'
  BY <1>3 DEF FilesRefer, RefsKnown
<1>7. ReadsItsFile' /\ BornDirty'
  BY <1>2, <1>3, <1>4, <1>5 DEF ReadsItsFile, BornDirty
<1>8. ASSUME NEW o \in Known' \ dirty'
      PROVE  Pending(o)' \/ Emptied(o)' \/ FileSays(o)'
  <2>1. o \in DOMAIN heap /\ heap'[o] = heap[o] /\ o \in Known \ dirty
    BY <1>2, <1>3 DEF Known
  <2>2. CASE Pending(o)
    BY <1>4, <2>2 DEF Pending
  <2>3. CASE Emptied(o)
    BY <2>1, <2>3 DEF Emptied
  <2>4. CASE FileSays(o)
    BY <1>3, <2>1, <2>4, StillSays
  <2> QED
    BY <2>1, <2>2, <2>3, <2>4 DEF Faithful
<1> QED
  BY <1>6, <1>7, <1>8 DEF Faithful

(* Taking an identifier changes one object, which was nobody's reference.   *)
LEMMA RegisterDoes ==
  ASSUME Typed, NEW i \in Id, NEW o \in DOMAIN heap, Register(o, i), NotInTable(i)
  PROVE  /\ DOMAIN heap' = DOMAIN heap
         /\ heap'[o].id = i /\ heap'[o].ref = heap[o].ref
         /\ \A p \in DOMAIN heap : p # o => heap'[p] = heap[p]
<1>1. CanSet(table, i, o)
  BY HeapFacts DEF CanSet, NotInTable, Id, MaxId
<1>2. heap' = [heap EXCEPT ![o].id = i]
  BY <1>1 DEF Register
<1>3. heap' = [q \in DOMAIN heap |->
                IF q = o THEN [id |-> i, name |-> heap[q].name, ref |-> heap[q].ref]
                ELSE heap[q]]
  BY <1>2, IdChanged
<1> QED
  BY <1>3

(* An object that arrives has its property still to read.                   *)
LEMMA RegisterFilesInv ==
  ASSUME IInv, FilesInv, NEW i \in Id, NEW o \in DOMAIN heap, Register(o, i), NotInTable(i),
         heap[o].id = None, o \in dirty \/ Pending(o)',
         \A k \in DOMAIN stack' :
           \/ k \in DOMAIN stack /\ stack'[k] = stack[k]
           \/ stack'[k] = [call |-> "property", obj |-> o, id |-> i] /\ Good(disk[i]),
         \A k \in DOMAIN stack : stack[k].call = "property" =>
           k \in DOMAIN stack' /\ stack'[k] = stack[k],
         UNCHANGED <<disk, saving, dirty>>
  PROVE  FilesInv'
<1> USE HeapFacts DEF IInv, FilesInv
<1>1. /\ DOMAIN heap' = DOMAIN heap
      /\ heap'[o].id = i /\ heap'[o].ref = heap[o].ref
      /\ \A p \in DOMAIN heap : p # o => heap'[p] = heap[p]
  BY RegisterDoes
<1>2. \A p \in DOMAIN heap : heap[p].id \in Id => heap'[p].id = heap[p].id
  BY <1>1
<1>3. \A p \in DOMAIN heap : heap'[p].ref = heap[p].ref
  BY <1>1
<1>4. FilesRefer' /\ RefsKnown'
  BY <1>1, <1>2, <1>3 DEF FilesRefer, RefsKnown
<1>5. ReadsItsFile'
  <2> SUFFICES ASSUME NEW k \in DOMAIN stack', stack'[k].call = "property"
               PROVE  /\ stack'[k].id \in Id /\ Good(disk[stack'[k].id])
                      /\ heap'[stack'[k].obj].id = stack'[k].id
    BY DEF ReadsItsFile
  <2>1. CASE k \in DOMAIN stack /\ stack'[k] = stack[k]
    BY <1>2, <2>1 DEF ReadsItsFile, Typed
  <2>2. CASE stack'[k] = [call |-> "property", obj |-> o, id |-> i] /\ Good(disk[i])
    BY <1>1, <2>2
  <2> QED
    BY <2>1, <2>2
<1>6. BornDirty'
  BY DEF BornDirty
<1>7. ASSUME NEW q \in Known' \ dirty'
      PROVE  Pending(q)' \/ Emptied(q)' \/ FileSays(q)'
  <2>1. CASE q = o
    BY <2>1
  <2>2. CASE q # o
    <3>1. q \in DOMAIN heap /\ heap'[q] = heap[q] /\ q \in Known \ dirty
      BY <1>1, <2>2 DEF Known
    <3>2. CASE Pending(q)
      <4>1. PICK k \in DOMAIN stack : stack[k].obj = q /\ stack[k].call = "property"
        BY <3>2 DEF Pending
      <4>2. k \in DOMAIN stack' /\ stack'[k] = stack[k]
        BY <4>1
      <4> QED
        BY <4>1, <4>2 DEF Pending
    <3>3. CASE Emptied(q)
      BY <3>1, <3>3 DEF Emptied
    <3>4. CASE FileSays(q)
      BY <1>2, <3>1, <3>4, StillSays
    <3> QED
      BY <3>1, <3>2, <3>3, <3>4 DEF Faithful
  <2> QED
    BY <2>1, <2>2
<1> QED
  BY <1>4, <1>5, <1>6, <1>7 DEF Faithful

(* The object that reads its id takes its place and goes on to its property.*)
LEMMA ReadIdFilesInv ==
  ASSUME IInv, FilesInv, ReadId
  PROVE  FilesInv'
<1>0. PICK o, i : o = Top.obj /\ i = Top.id
  OBVIOUS
<1> DEFINE e == [Top EXCEPT !.call = "property"]
<1> USE HeapFacts DEF IInv
<1>1. /\ stack # <<>> /\ Top.call = "id" /\ Register(o, i) /\ stack' = Append(Below, e)
      /\ UNCHANGED <<disk, saving, dirty>>
  BY <1>0 DEF ReadId
<1>2. Len(stack) \in DOMAIN stack /\ Top = stack[Len(stack)]
  BY <1>1, TopIs DEF IInv
<1>3. o \in DOMAIN heap /\ NotInTable(i) /\ Good(disk[i]) /\ heap[o].id = None
  BY <1>0, <1>1, <1>2 DEF Typed, ArrivesAlone
<1>4. Top \in Loading
  BY <1>1, <1>2 DEF Typed, Loading, Assigning
<1>5. i \in Id /\ e = [call |-> "property", obj |-> o, id |-> i] /\ e \in Loading
  BY <1>0, <1>4 DEF Loading
<1> HIDE DEF e
<1>6. /\ DOMAIN stack' = DOMAIN stack /\ stack'[Len(stack)] = e
      /\ \A k \in 1..(Len(stack) - 1) : stack'[k] = stack[k]
  <2>1. /\ stack' \in Seq(Loading \cup Assigning) /\ Len(stack') = Len(stack)
        /\ stack'[Len(stack)] = e /\ \A k \in 1..(Len(stack) - 1) : stack'[k] = stack[k]
    BY <1>1, <1>5, TopReplaced DEF Below, Typed
  <2> QED
    BY <2>1, LenProperties
<1>7. \A k \in DOMAIN stack' :
        \/ k \in DOMAIN stack /\ stack'[k] = stack[k]
        \/ stack'[k] = [call |-> "property", obj |-> o, id |-> i] /\ Good(disk[i])
  BY <1>3, <1>5, <1>6
<1>8. \A k \in DOMAIN stack : stack[k].call = "property" =>
        k \in DOMAIN stack' /\ stack'[k] = stack[k]
  <2> SUFFICES ASSUME NEW k \in DOMAIN stack, stack[k].call = "property"
               PROVE  k \in DOMAIN stack' /\ stack'[k] = stack[k]
    OBVIOUS
  <2>1. k # Len(stack)
    BY <1>1, <1>2
  <2>2. k \in 1..(Len(stack) - 1)
    BY <2>1
  <2> QED
    BY <1>6, <2>2
<1>9. Pending(o)'
  BY <1>2, <1>5, <1>6 DEF Pending
<1> QED
  BY <1>1, <1>3, <1>5, <1>7, <1>8, <1>9, RegisterFilesInv

(* An object that is given an identifier has no file that speaks of it.     *)
LEMMA AssignTakesFilesInv ==
  ASSUME IInv, FilesInv, AssignTakes
  PROVE  FilesInv'
<1> DEFINE o == Top.obj
           i == Top.id
<1> USE HeapFacts DEF IInv, FilesInv
<1>1. /\ stack # <<>> /\ Top.call = "assign" /\ i < MaxId /\ NotInTable(i)
      /\ Register(o, i) /\ stack' = Below
      /\ UNCHANGED <<disk, saving, dirty>>
  BY DEF AssignTakes, FindsNothing
<1>2. Len(stack) \in DOMAIN stack /\ Top = stack[Len(stack)]
  BY <1>1, TopIs DEF IInv
<1>3. Top \in Assigning
  BY <1>1, <1>2 DEF Typed, Loading, Assigning
<1>4. i \in Id /\ o \in DOMAIN heap /\ heap[o].id = None /\ o \in dirty
  BY <1>1, <1>2, <1>3 DEF Assigning, AssignedOnce, BornDirty, Typed, Id, MaxId
<1>5. /\ DOMAIN stack' = 1..(Len(stack) - 1)
      /\ \A k \in 1..(Len(stack) - 1) : stack'[k] = stack[k]
  <2>1. /\ stack' \in Seq(Loading \cup Assigning) /\ Len(stack') = Len(stack) - 1
        /\ \A k \in 1..(Len(stack) - 1) : stack'[k] = stack[k]
    BY <1>1, TopRemoved DEF Below, Typed
  <2> QED
    BY <2>1, LenProperties
<1>6. \A k \in DOMAIN stack' : k \in DOMAIN stack /\ stack'[k] = stack[k]
  BY <1>5
<1>7. \A k \in DOMAIN stack : stack[k].call = "property" =>
        k \in DOMAIN stack' /\ stack'[k] = stack[k]
  BY <1>1, <1>2, <1>5
<1> HIDE DEF o, i
<1> QED
  BY <1>1, <1>4, <1>6, <1>7, RegisterFilesInv

(* Calls end or go on, and save_all goes on, without touching an object or  *)
(* a file.                                                                  *)
LEMMA SameFilesInv ==
  ASSUME IInv, FilesInv, UNCHANGED <<heap, disk, dirty>>,
         \A k \in DOMAIN stack' :
           k \in DOMAIN stack /\ stack'[k].obj = stack[k].obj /\ stack'[k].call = stack[k].call,
         \A k \in DOMAIN stack : stack[k].call = "property" =>
           k \in DOMAIN stack' /\ stack'[k] = stack[k],
         saving' = saving \/ \A o \in Known : saving # heap[o].id
  PROVE  FilesInv'
<1> USE DEF FilesInv
<1>1. FilesRefer' /\ RefsKnown'
  BY DEF FilesRefer, RefsKnown
<1>2. ReadsItsFile' /\ BornDirty'
  BY DEF ReadsItsFile, BornDirty
<1>3. ASSUME NEW o \in Known' \ dirty'
      PROVE  Pending(o)' \/ Emptied(o)' \/ FileSays(o)'
  <2>1. o \in Known \ dirty
    BY DEF Known
  <2>2. CASE Pending(o)
    BY <2>2 DEF Pending
  <2>3. CASE Emptied(o)
    BY <2>1, <2>3 DEF Emptied
  <2>4. CASE FileSays(o)
    BY <2>4 DEF FileSays
  <2> QED
    BY <2>1, <2>2, <2>3, <2>4 DEF Faithful
<1> QED
  BY <1>1, <1>2, <1>3 DEF Faithful

(* The property read is the one the file says.                              *)
LEMMA ReadPropertyFilesInv ==
  ASSUME IInv, FilesInv, ReadProperty
  PROVE  FilesInv'
<1>0. PICK o, i, ref : o = Top.obj /\ i = Top.id /\ ref = disk[i].ref
  OBVIOUS
<1> USE HeapFacts DEF IInv, FilesInv
<1>1. stack # <<>> /\ Top.call = "property" /\ UNCHANGED <<disk, saving>>
  BY DEF ReadProperty
<1>2. CASE Loads(ref) /\ PushLoad(ref)
  BY <1>1, <1>2, PushLoadFilesInv
<1>3. CASE ~(Loads(ref) /\ PushLoad(ref))
  <2>1. /\ stack' = Below /\ heap' = [heap EXCEPT ![o].ref = Get(table, ref)]
        /\ ~Loads(ref)
        /\ dirty' = IF ref # None /\ FindsNothing(ref) THEN dirty \cup {o} ELSE dirty
    BY <1>0, <1>3 DEF ReadProperty
  <2>2. Len(stack) \in DOMAIN stack /\ Top = stack[Len(stack)]
    BY <1>1, TopIs DEF IInv
  <2>3. /\ o \in DOMAIN heap /\ i \in Id /\ Good(disk[i]) /\ heap[o].id = i
        /\ ref \in Id \cup {None}
    BY <1>0, <1>1, <2>2 DEF Typed, ReadsItsFile, FilesRefer
  <2>4. Get(table, ref) # NULL =>
          Get(table, ref) \in DOMAIN heap /\ heap[Get(table, ref)].id = ref /\ ref # None
    BY <2>3, FoundIsKnown DEF Id, None, Get
  <2>5. /\ DOMAIN heap' = DOMAIN heap
        /\ \A q \in DOMAIN heap : heap'[q].id = heap[q].id /\ heap'[q].name = heap[q].name
        /\ \A q \in DOMAIN heap : q # o => heap'[q] = heap[q]
        /\ heap'[o].ref = Get(table, ref)
    <3>1. heap = [q \in DOMAIN heap |-> heap[q]] /\ heap[o] \in Objects
      BY <2>3, LenProperties DEF Typed
    <3>2. Get(table, ref) \in Nat \cup {NULL}
      BY <2>4
    <3>3. /\ DOMAIN heap' = DOMAIN heap
          /\ \A q \in DOMAIN heap : heap'[q].id = heap[q].id /\ heap'[q].name = heap[q].name
      BY <2>1, <2>3, <3>2, RefChanged
    <3>4. [heap[o] EXCEPT !.ref = Get(table, ref)].ref = Get(table, ref)
      BY <3>1 DEF Objects
    <3> QED
      BY <2>1, <2>3, <3>1, <3>3, <3>4
  <2>6. /\ DOMAIN stack' = 1..(Len(stack) - 1)
        /\ \A k \in 1..(Len(stack) - 1) : stack'[k] = stack[k]
    <3>1. /\ stack' \in Seq(Loading \cup Assigning) /\ Len(stack') = Len(stack) - 1
          /\ \A k \in 1..(Len(stack) - 1) : stack'[k] = stack[k]
      BY <1>1, <2>1, TopRemoved DEF Below, Typed
    <3> QED
      BY <3>1, LenProperties
  <2>7. \A k \in DOMAIN stack' : k \in DOMAIN stack /\ stack'[k] = stack[k]
    BY <2>6
  <2>8. FilesRefer' /\ RefsKnown'
    <3>1. FilesRefer'
      BY <1>1 DEF FilesRefer
    <3>2. ASSUME NEW q \in DOMAIN heap', heap'[q].ref # NULL
          PROVE  heap'[q].ref \in DOMAIN heap' /\ heap'[heap'[q].ref].id \in Id
      <4>1. CASE q = o
        BY <2>3, <2>4, <2>5, <3>2, <4>1
      <4>2. CASE q # o
        BY <2>5, <3>2, <4>2 DEF RefsKnown
      <4> QED
        BY <4>1, <4>2
    <3> QED
      BY <3>1, <3>2 DEF RefsKnown
  <2>9. ReadsItsFile' /\ BornDirty'
    <3>1. dirty \subseteq dirty'
      BY <2>1
    <3>2. \A k \in DOMAIN stack : stack[k].obj \in DOMAIN heap
      BY DEF Typed
    <3> QED
      BY <1>1, <2>5, <2>7, <3>1, <3>2 DEF ReadsItsFile, BornDirty
  <2>10. ASSUME NEW q \in Known' \ dirty'
         PROVE  Pending(q)' \/ Emptied(q)' \/ FileSays(q)'
    <3>1. q \in DOMAIN heap /\ q \in Known /\ q \notin dirty /\ q \notin dirty'
      BY <2>1, <2>5 DEF Known
    <3>2. CASE q = o
      <4>1. ref = None \/ Get(table, ref) # NULL
        BY <2>1, <2>3, <3>1, <3>2 DEF FindsNothing, Loads, NotInTable
      <4>2. disk[i].name = heap[o].name
        BY <2>3, <3>1, <3>2 DEF NoHijack
      <4>3. disk[i].ref = IF heap'[o].ref = NULL THEN None ELSE heap'[heap'[o].ref].id
        BY <1>0, <2>3, <2>4, <2>5, <4>1
      <4> QED
        BY <1>1, <2>3, <2>5, <3>2, <4>2, <4>3 DEF FileSays
    <3>3. CASE q # o
      <4>1. heap'[q] = heap[q]
        BY <2>5, <3>1, <3>3
      <4>2. CASE Pending(q)
        <5>1. PICK k \in DOMAIN stack : stack[k].obj = q /\ stack[k].call = "property"
          BY <4>2 DEF Pending
        <5>2. k # Len(stack)
          BY <1>0, <2>2, <3>3, <5>1
        <5>3. k \in 1..(Len(stack) - 1)
          BY <5>2
        <5> QED
          BY <2>6, <5>1, <5>3 DEF Pending
      <4>3. CASE Emptied(q)
        BY <1>1, <4>1, <4>3 DEF Emptied
      <4>4. CASE FileSays(q)
        BY <1>1, <2>5, <3>1, <4>1, <4>4, StillSays
      <4> QED
        BY <3>1, <4>2, <4>3, <4>4 DEF Faithful
    <3> QED
      BY <3>2, <3>3
  <2> QED
    BY <2>8, <2>9, <2>10 DEF Faithful
<1> QED
  BY <1>2, <1>3

(* The search for an identifier changes no object and no file.              *)
LEMMA AssignGoesOnFilesInv ==
  ASSUME IInv, FilesInv, AssignNext \/ AssignThrows
  PROVE  FilesInv'
<1> DEFINE e == [Top EXCEPT !.id = @ + 1]
<1> USE HeapFacts DEF IInv
<1>1. /\ stack # <<>> /\ Top.call = "assign" /\ UNCHANGED <<heap, disk, dirty, saving>>
      /\ stack' = Append(Below, e) \/ stack' = Below
  BY DEF AssignNext, AssignThrows, memory
<1>2. Len(stack) \in DOMAIN stack /\ Top = stack[Len(stack)]
  BY <1>1, TopIs DEF IInv
<1>3. Top \in Assigning
  BY <1>1, <1>2 DEF Typed, Loading, Assigning
<1>4. e \in Loading \cup Assigning /\ e.call = Top.call /\ e.obj = Top.obj
  BY <1>3 DEF Assigning
<1> HIDE DEF e
<1>5. /\ \/ DOMAIN stack' = 1..Len(stack) /\ stack'[Len(stack)] = e
         \/ DOMAIN stack' = 1..(Len(stack) - 1)
      /\ \A k \in 1..(Len(stack) - 1) : stack'[k] = stack[k]
  <2>1. CASE stack' = Append(Below, e)
    <3>1. /\ stack' \in Seq(Loading \cup Assigning) /\ Len(stack') = Len(stack)
          /\ stack'[Len(stack)] = e /\ \A k \in 1..(Len(stack) - 1) : stack'[k] = stack[k]
      BY <1>1, <1>4, <2>1, TopReplaced DEF Below, Typed
    <3> QED
      BY <3>1, LenProperties
  <2>2. CASE stack' = Below
    <3>1. /\ stack' \in Seq(Loading \cup Assigning) /\ Len(stack') = Len(stack) - 1
          /\ \A k \in 1..(Len(stack) - 1) : stack'[k] = stack[k]
      BY <1>1, <2>2, TopRemoved DEF Below, Typed
    <3> QED
      BY <3>1, LenProperties
  <2> QED
    BY <1>1, <2>1, <2>2
<1>6. \A k \in DOMAIN stack' :
        k \in DOMAIN stack /\ stack'[k].obj = stack[k].obj /\ stack'[k].call = stack[k].call
  <2> SUFFICES ASSUME NEW k \in DOMAIN stack'
               PROVE  /\ k \in DOMAIN stack
                      /\ stack'[k].obj = stack[k].obj /\ stack'[k].call = stack[k].call
    OBVIOUS
  <2>1. CASE k \in 1..(Len(stack) - 1)
    BY <1>5, <2>1
  <2>2. CASE k \notin 1..(Len(stack) - 1)
    <3>1. k = Len(stack) /\ stack'[k] = e
      BY <1>5, <2>2
    <3> QED
      BY <1>2, <1>4, <3>1
  <2> QED
    BY <2>1, <2>2
<1>7. \A k \in DOMAIN stack : stack[k].call = "property" =>
        k \in DOMAIN stack' /\ stack'[k] = stack[k]
  <2> SUFFICES ASSUME NEW k \in DOMAIN stack, stack[k].call = "property"
               PROVE  k \in DOMAIN stack' /\ stack'[k] = stack[k]
    OBVIOUS
  <2>1. k # Len(stack)
    BY <1>1, <1>2
  <2>2. k \in 1..(Len(stack) - 1)
    BY <2>1
  <2> QED
    BY <1>5, <2>2
<1> QED
  BY <1>1, <1>6, <1>7, SameFilesInv

(* An object that is born is changed from the start.                        *)
LEMMA CloneFilesInv ==
  ASSUME IInv, FilesInv, Clone
  PROVE  FilesInv'
<1> DEFINE n == Len(heap) + 1
           new == [id |-> None, name |-> MaxId + births, ref |-> NULL]
           call == [call |-> "assign", obj |-> n, id |-> table.nextSpace]
<1> USE HeapFacts DEF IInv, FilesInv
<1>1. /\ stack = <<>> /\ saving = None /\ heap' = Append(heap, new) /\ stack' = <<call>>
      /\ dirty' = dirty \cup {n} /\ UNCHANGED <<disk, saving>>
  BY DEF Clone, Idle
<1>2. /\ DOMAIN heap' = DOMAIN heap \cup {n} /\ n \notin DOMAIN heap
      /\ heap'[n] = new /\ \A o \in DOMAIN heap : heap'[o] = heap[o]
  <2>1. heap \in Seq(Objects \cup {new})
    BY SeqMonotonic DEF Typed
  <2> HIDE DEF new
  <2> QED
    BY <1>1, <2>1, Appended
<1>3. DOMAIN stack' = {1} /\ stack'[1] = call /\ call.call = "assign" /\ call.obj = n
  BY <1>1
<1> HIDE DEF n, call
<1>4. FilesRefer' /\ RefsKnown'
  BY <1>1, <1>2 DEF FilesRefer, RefsKnown
<1>5. ReadsItsFile' /\ BornDirty'
  BY <1>1, <1>3 DEF ReadsItsFile, BornDirty
<1>6. ASSUME NEW o \in Known' \ dirty'
      PROVE  FileSays(o)'
  <2>1. o \in DOMAIN heap /\ heap'[o] = heap[o] /\ o \in Known \ dirty
    BY <1>1, <1>2 DEF Known
  <2>2. ~Pending(o) /\ ~Emptied(o)
    BY <1>1, <2>1 DEF Pending, Emptied, Known
  <2> QED
    BY <1>1, <1>2, <2>1, <2>2, StillSays DEF Faithful
<1> QED
  BY <1>4, <1>5, <1>6 DEF Faithful

(* An object whose property is set is changed until it is saved.            *)
LEMMA SetPropertyFilesInv ==
  ASSUME IInv, FilesInv, NEW o \in Known, NEW p \in Known \cup {NULL}, SetProperty(o, p)
  PROVE  FilesInv'
<1> USE HeapFacts DEF IInv, FilesInv
<1>1. /\ stack = <<>> /\ saving = None /\ heap' = [heap EXCEPT ![o].ref = p]
      /\ dirty' = dirty \cup {o} /\ UNCHANGED <<disk, stack, saving>>
  BY DEF SetProperty, Idle
<1>2. o \in DOMAIN heap /\ p \in Nat \cup {NULL} /\ (p # NULL => p \in DOMAIN heap /\ heap[p].id \in Id)
  BY DEF Known
<1>3. /\ DOMAIN heap' = DOMAIN heap
      /\ \A q \in DOMAIN heap : heap'[q].id = heap[q].id
      /\ \A q \in DOMAIN heap : q # o => heap'[q] = heap[q]
      /\ heap'[o].ref = p
  <2>1. heap = [q \in DOMAIN heap |-> heap[q]] /\ heap[o] \in Objects
    BY <1>2, LenProperties DEF Typed
  <2>2. /\ DOMAIN heap' = DOMAIN heap
        /\ \A q \in DOMAIN heap : heap'[q].id = heap[q].id
    BY <1>1, <1>2, RefChanged
  <2>3. [heap[o] EXCEPT !.ref = p].ref = p
    BY <2>1 DEF Objects
  <2> QED
    BY <1>1, <1>2, <2>1, <2>2, <2>3
<1>4. FilesRefer'
  BY <1>1 DEF FilesRefer
<1>5. RefsKnown'
  <2> SUFFICES ASSUME NEW q \in DOMAIN heap, heap'[q].ref # NULL
               PROVE  heap'[q].ref \in DOMAIN heap /\ heap'[heap'[q].ref].id \in Id
    BY <1>3 DEF RefsKnown
  <2>1. CASE q = o
    BY <1>2, <1>3, <2>1
  <2>2. CASE q # o
    BY <1>3, <2>2 DEF RefsKnown
  <2> QED
    BY <2>1, <2>2
<1>6. ReadsItsFile' /\ BornDirty'
  BY <1>1 DEF ReadsItsFile, BornDirty
<1>7. ASSUME NEW q \in Known' \ dirty'
      PROVE  FileSays(q)'
  <2>1. q \in DOMAIN heap /\ heap'[q] = heap[q] /\ q \in Known \ dirty
    BY <1>1, <1>3 DEF Known
  <2>2. ~Pending(q) /\ ~Emptied(q)
    BY <1>1, <2>1 DEF Pending, Emptied, Known
  <2> QED
    BY <1>1, <1>3, <2>1, <2>2, StillSays DEF Faithful
<1> QED
  BY <1>4, <1>5, <1>6, <1>7 DEF Faithful

(* The file is emptied, then says what the object is.                       *)
LEMMA SaveFilesInv ==
  ASSUME IInv, FilesInv, SaveOpens \/ SaveWrites
  PROVE  FilesInv'
<1>0. PICK n, p : n = saving /\ p = table.data[saving]
  OBVIOUS
<1> USE HeapFacts DEF IInv, FilesInv
<1>1. n \in 0..table.last /\ p # NULL /\ UNCHANGED <<heap, stack>>
  BY <1>0 DEF SaveOpens, SaveWrites, memory
<1>2. n \in 0..(table.size - 1) /\ n \in Id
  BY <1>1, WithinTheTable
<1>3. p \in DOMAIN heap /\ heap[p].id = n
  BY <1>0, <1>1, <1>2 DEF Typed, Registered
<1>4. DOMAIN stack = {}
  BY <1>0, <1>1 DEF SavesAlone, None
<1>5. \A q \in DOMAIN heap : heap[q].id = n => q = p
  BY <1>2, <1>3, FoundIsKnown
<1>6. RefsKnown' /\ ReadsItsFile' /\ BornDirty'
  BY <1>1, <1>4 DEF RefsKnown, ReadsItsFile, BornDirty
<1>7. \A q \in DOMAIN heap : heap'[q] = heap[q]
  BY <1>1
<1>8. CASE SaveOpens
  <2>1. saving' = n /\ dirty' = dirty /\ disk' = [disk EXCEPT ![n] = Torn]
    BY <1>0, <1>8 DEF SaveOpens, memory
  <2>2. disk'[n] = Torn /\ \A i \in Id : i # n => disk'[i] = disk[i]
    BY <1>2, <2>1 DEF Typed
  <2>3. FilesRefer'
    BY <2>2 DEF FilesRefer, Good
  <2>4. ASSUME NEW q \in Known' \ dirty'
        PROVE  Emptied(q)' \/ FileSays(q)'
    <3>1. q \in DOMAIN heap /\ heap[q].id \in Id /\ q \in Known \ dirty
      BY <1>1, <2>1 DEF Known
    <3>2. CASE heap[q].id = n
      BY <1>1, <2>1, <2>2, <3>2 DEF Emptied
    <3>3. CASE heap[q].id # n
      <4>1. ~Pending(q) /\ ~Emptied(q)
        BY <1>0, <1>4, <3>3 DEF Pending, Emptied
      <4> QED
        BY <1>1, <2>2, <3>1, <3>3, <4>1, StillSays DEF Faithful
    <3> QED
      BY <3>2, <3>3
  <2> QED
    BY <1>6, <2>3, <2>4 DEF Faithful
<1>9. CASE SaveWrites
  <2>1. dirty' = dirty \ {p} /\ disk' = [disk EXCEPT ![n] = Written(p)]
    BY <1>0, <1>9 DEF SaveWrites
  <2>2. disk'[n] = Written(p) /\ \A i \in Id : i # n => disk'[i] = disk[i]
    BY <1>2, <2>1 DEF Typed
  <2>3. Written(p).ref = IF heap[p].ref = NULL THEN None ELSE heap[heap[p].ref].id
    BY DEF Written
  <2>4. Written(p).name = heap[p].name
    BY DEF Written
  <2>5. FilesRefer'
    BY <1>3, <2>2, <2>3 DEF FilesRefer, RefsKnown
  <2>6. ASSUME NEW q \in Known' \ dirty'
        PROVE  FileSays(q)'
    <3>1. q \in DOMAIN heap /\ heap[q].id \in Id
      BY <1>1 DEF Known
    <3>2. CASE q = p
      BY <1>1, <1>3, <2>2, <2>3, <2>4, <3>2 DEF FileSays
    <3>3. CASE q # p
      <4>1. heap[q].id # n /\ q \in Known \ dirty
        BY <1>1, <1>5, <2>1, <3>1, <3>3 DEF Known
      <4>2. ~Pending(q) /\ ~Emptied(q)
        BY <1>0, <1>4, <4>1 DEF Pending, Emptied
      <4> QED
        BY <1>1, <2>2, <3>1, <4>1, <4>2, StillSays DEF Faithful
    <3> QED
      BY <3>2, <3>3
  <2> QED
    BY <1>6, <2>5, <2>6 DEF Faithful
<1> QED
  BY <1>8, <1>9

(* Between two objects save_all() writes nothing.                           *)
LEMMA SavingGoesOnFilesInv ==
  ASSUME IInv, FilesInv, SaveAll \/ SaveNothing \/ SaveEnds
  PROVE  FilesInv'
<1> USE HeapFacts DEF IInv
<1>1. UNCHANGED <<heap, disk, dirty, stack>>
  BY DEF SaveAll, SaveNothing, SaveEnds, memory
<1>2. ASSUME NEW o \in Known PROVE saving # heap[o].id
  <2>1. /\ heap[o].id \in Id /\ heap[o].id # None /\ Get(table, heap[o].id) = o /\ o # NULL
    BY FoundIsKnown DEF Known
  <2>2. /\ heap[o].id \in 0..(table.size - 1) /\ table.data[heap[o].id] = o
        /\ heap[o].id <= table.last /\ table.last \in Int
    <3>1. heap[o].id \in Int
      BY <2>1 DEF Id
    <3>2. Typed
      OBVIOUS
    <3> HIDE DEF IInv
    <3> QED
      BY <2>1, <3>1, <3>2, WithinTheTable
  <2>3. CASE SaveAll
    BY <2>1, <2>3 DEF SaveAll, Idle
  <2>4. CASE SaveNothing
    BY <2>1, <2>2, <2>4 DEF SaveNothing
  <2>5. CASE SaveEnds
    BY <2>1, <2>2, <2>5 DEF SaveEnds, Id
  <2> QED
    BY <2>3, <2>4, <2>5
<1> QED
  BY <1>1, <1>2, SameFilesInv

(* Every step keeps what the files say.                                     *)
LEMMA NextFilesInv ==
  ASSUME IInv, FilesInv, [Next]_vars
  PROVE  FilesInv'
<1>1. ASSUME NEW i \in Id, Lookup(i) PROVE FilesInv'
  BY <1>1, PushLoadFilesInv DEF Lookup
<1>2. CASE ReadId \/ ReadProperty
  BY <1>2, ReadIdFilesInv, ReadPropertyFilesInv
<1>3. CASE Clone
  BY <1>3, CloneFilesInv
<1>4. CASE AssignNext \/ AssignTakes \/ AssignThrows
  BY <1>4, AssignGoesOnFilesInv, AssignTakesFilesInv
<1>5. CASE AssignLoads
  BY <1>5, PushLoadFilesInv DEF AssignLoads
<1>6. ASSUME NEW o \in Known, NEW p \in Known \cup {NULL}, SetProperty(o, p)
      PROVE  FilesInv'
  BY <1>6, SetPropertyFilesInv
<1>7. CASE SaveAll \/ SaveNothing \/ SaveEnds
  BY <1>7, SavingGoesOnFilesInv
<1>8. CASE SaveOpens \/ SaveWrites
  BY <1>8, SaveFilesInv
<1>9. CASE Crash
  <2>1. DOMAIN heap' = {} /\ DOMAIN stack' = {} /\ disk' = disk
    BY <1>9 DEF Crash
  <2> QED
    BY <2>1 DEF FilesInv, FilesRefer, RefsKnown, ReadsItsFile, BornDirty, Faithful, Known
<1>10. CASE UNCHANGED vars
  BY <1>10, SameFilesInv DEF vars
<1> QED
  BY <1>1, <1>2, <1>3, <1>4, <1>5, <1>6, <1>7, <1>8, <1>9, <1>10 DEF Next

-----------------------------------------------------------------------------
(* TypeOK                                                                   *)

(* What IInv does not need: the bounds, and what files look like.           *)
Bounded ==
  /\ births \in 0..Births /\ writes \in 0..Writes
  /\ saving \in Id \cup {None, MaxId}
  /\ dirty \subseteq DOMAIN heap
  /\ \A i \in Id : Good(disk[i]) => disk[i] = [name |-> disk[i].name, ref |-> disk[i].ref]

LEMMA InitBounded == Init => Bounded
<1> SUFFICES ASSUME Init, NEW i \in Id, Good(disk[i])
             PROVE  disk[i] = [name |-> disk[i].name, ref |-> disk[i].ref]
  BY StoreAssumption DEF Init, Bounded, None
<1>1. PICK f :
        disk = [j \in Id |-> IF j \in DOMAIN f THEN [name |-> j, ref |-> f[j]] ELSE NoFile]
  BY DEF Init, Databases
<1>2. disk[i] = [name |-> i, ref |-> f[i]]
  BY <1>1 DEF Good
<1> QED
  BY <1>2

(* Objects are added to memory, some become dirty, and nothing is written.  *)
LEMMA ReadsBounded ==
  ASSUME Bounded, UNCHANGED <<disk, saving, births, writes>>,
         DOMAIN heap \subseteq DOMAIN heap',
         dirty' \subseteq dirty \cup DOMAIN heap'
  PROVE  Bounded'
<1>1. \A i \in Id : Good(disk[i])' = Good(disk[i])
  BY DEF Good
<1> QED
  BY <1>1 DEF Bounded

(* load_object() adds one.                                                  *)
LEMMA PushLoadGrows ==
  ASSUME Typed, NEW i, PushLoad(i)
  PROVE  DOMAIN heap \subseteq DOMAIN heap' /\ dirty' = dirty
<1>1. heap' = Append(heap, [id |-> None, name |-> disk[i].name, ref |-> NULL]) /\ dirty' = dirty
  BY DEF PushLoad
<1> DEFINE e == [id |-> None, name |-> disk[i].name, ref |-> NULL]
<1> HIDE DEF e
<1>2. heap \in Seq(Objects \cup {e}) /\ e \in Objects \cup {e}
  <2>1. heap \in Seq(Objects) /\ Objects \subseteq Objects \cup {e}
    BY DEF Typed
  <2> QED
    BY <2>1
<1>3. Len(heap) \in Nat /\ DOMAIN heap = 1..Len(heap)
  BY LenProperties DEF Typed
<1>4. DOMAIN Append(heap, e) = 1..(Len(heap) + 1)
  BY <1>2, Appended
<1> QED
  BY <1>1, <1>3, <1>4 DEF e

(* save_all() goes through the table, and one further.                      *)
LEMMA SavingOn ==
  ASSUME Typed, saving \in 0..table.last
  PROVE  saving \in Id /\ saving + 1 \in Id \cup {None, MaxId}
<1>1. table.size \in Nat /\ table.last \in -1..(table.size - 1) /\ table.size <= MaxId
  BY StoreAssumption, ArrayAssumption DEF Typed, Sound, Shaped, MaxId
<1>2. MaxId \in Nat
  BY ArrayAssumption DEF MaxId
<1> QED
  BY <1>1, <1>2 DEF Id

LEMMA NextBounded ==
  ASSUME IInv, Bounded, [Next]_vars
  PROVE  Bounded'
<1> USE DEF IInv
<1>1. Len(heap) \in Nat /\ DOMAIN heap = 1..Len(heap)
  BY LenProperties DEF Typed
<1>2. ASSUME NEW i \in Id, Lookup(i) PROVE Bounded'
  BY <1>2, PushLoadGrows, ReadsBounded DEF Lookup
<1>3. CASE ReadId
  <2>1. DOMAIN heap \subseteq DOMAIN heap'
    BY <1>3 DEF ReadId, Register
  <2> QED
    BY <1>3, <2>1, ReadsBounded DEF ReadId
<1>4. CASE ReadProperty
  <2>1. UNCHANGED <<disk, saving, births, writes>>
    BY <1>4 DEF ReadProperty
  <2>2. CASE PushLoad(disk[Top.id].ref)
    BY <2>1, <2>2, PushLoadGrows, ReadsBounded
  <2>3. CASE ~ PushLoad(disk[Top.id].ref)
    <3>1. /\ DOMAIN heap' = DOMAIN heap
          /\ dirty' = dirty \/ dirty' = dirty \cup {Top.obj}
      BY <1>4, <2>3 DEF ReadProperty
    <3>2. Top.obj \in DOMAIN heap
      BY <1>4, TopIs DEF ReadProperty, Typed
    <3> QED
      BY <2>1, <3>1, <3>2, ReadsBounded
  <2> QED
    BY <2>2, <2>3
<1>5. CASE Clone
  <2>1. /\ births' = births + 1 /\ births < Births
        /\ dirty' = dirty \cup {Len(heap) + 1} /\ UNCHANGED <<disk, saving, writes>>
    BY <1>5 DEF Clone
  <2> DEFINE e == [id |-> None, name |-> MaxId + births, ref |-> NULL]
  <2>2. heap' = Append(heap, e)
    BY <1>5 DEF Clone
  <2>3. heap \in Seq(Objects \cup {e}) /\ e \in Objects \cup {e}
    BY DEF Typed
  <2> HIDE DEF e
  <2>4. DOMAIN heap' = 1..(Len(heap) + 1)
    BY <2>2, <2>3, Appended
  <2>5. births' \in 0..Births
    BY <2>1, StoreAssumption DEF Bounded
  <2>6. dirty' \subseteq DOMAIN heap'
    BY <1>1, <2>1, <2>4 DEF Bounded
  <2> QED
    BY <2>1, <2>5, <2>6 DEF Bounded, Good
<1>6. CASE AssignNext \/ AssignThrows
  BY <1>6, ReadsBounded DEF AssignNext, AssignThrows, memory
<1>7. CASE AssignLoads
  BY <1>7, PushLoadGrows, ReadsBounded DEF AssignLoads
<1>8. CASE AssignTakes
  <2>1. DOMAIN heap \subseteq DOMAIN heap'
    BY <1>8 DEF AssignTakes, Register
  <2> QED
    BY <1>8, <2>1, ReadsBounded DEF AssignTakes
<1>9. ASSUME NEW o \in Known, NEW p \in Known \cup {NULL}, SetProperty(o, p)
      PROVE  Bounded'
  <2>1. /\ writes' = writes + 1 /\ writes < Writes /\ DOMAIN heap' = DOMAIN heap
        /\ dirty' = dirty \cup {o} /\ UNCHANGED <<disk, saving, births>>
    BY <1>9 DEF SetProperty
  <2>2. writes' \in 0..Writes
    BY <2>1, StoreAssumption DEF Bounded
  <2> QED
    BY <2>1, <2>2 DEF Bounded, Good, Known
<1>10. CASE SaveAll \/ SaveEnds
  <2>1. saving' \in Id \cup {None, MaxId}
    BY <1>10, ArrayAssumption, StoreAssumption DEF SaveAll, SaveEnds, Id, MaxId
  <2> QED
    BY <1>10, <2>1 DEF SaveAll, SaveEnds, memory, Bounded, Good
<1>11. CASE SaveNothing
  BY <1>11, SavingOn DEF SaveNothing, memory, Bounded, Good
<1>12. CASE SaveOpens
  <2>1. disk' = [disk EXCEPT ![saving] = Torn] /\ saving \in 0..table.last
        /\ UNCHANGED <<heap, dirty, saving, births, writes>>
    BY <1>12 DEF SaveOpens, memory
  <2>2. \A i \in Id : disk'[i] = IF i = saving THEN Torn ELSE disk[i]
    BY <2>1 DEF Typed
  <2> QED
    BY <2>1, <2>2 DEF Bounded, Good
<1>13. CASE SaveWrites
  <2> DEFINE w == Written(table.data[saving])
  <2>1. disk' = [disk EXCEPT ![saving] = w] /\ saving \in 0..table.last
        /\ dirty' \subseteq dirty /\ saving' = saving + 1
        /\ UNCHANGED <<heap, births, writes>>
    BY <1>13 DEF SaveWrites
  <2>2. w = [name |-> w.name, ref |-> w.ref]
    BY DEF Written
  <2> HIDE DEF w
  <2>3. \A i \in Id : disk'[i] = IF i = saving THEN w ELSE disk[i]
    BY <2>1 DEF Typed
  <2>4. saving' \in Id \cup {None, MaxId}
    BY <2>1, SavingOn
  <2> QED
    BY <2>1, <2>2, <2>3, <2>4 DEF Bounded, Good
<1>14. CASE Crash
  BY <1>14 DEF Crash, Bounded, Good
<1>15. CASE UNCHANGED vars
  BY <1>15 DEF vars, Bounded, Good
<1> QED
  BY <1>2, <1>3, <1>4, <1>5, <1>6, <1>7, <1>8, <1>9, <1>10, <1>11, <1>12, <1>13, <1>14, <1>15
     DEF Next

LEMMA InvIsTypeOK == IInv /\ FilesInv /\ Bounded => TypeOK
<1> SUFFICES ASSUME IInv, FilesInv, Bounded PROVE TypeOK
  OBVIOUS
<1>1. Names \subseteq Name
  BY ArrayAssumption, StoreAssumption DEF Bounded, Names, Name, MaxId
<1>2. heap \in Seq(Object)
  <2>1. Objects \subseteq Object
    BY <1>1 DEF Objects, Object
  <2> QED
    BY <2>1 DEF IInv, Typed
<1>3. Shaped(table) /\ table.size <= MaxId /\ DOMAIN table.data = 0..(table.size - 1)
  BY ArrayAssumption, StoreAssumption DEF IInv, Typed, Sound, Shaped, MaxId
<1>4. \A o \in DOMAIN heap : heap[o].ref \in DOMAIN heap \cup {NULL}
  BY DEF FilesInv, RefsKnown
<1>5. ASSUME NEW i \in Id, Good(disk[i]) PROVE disk[i] \in File
  <2>1. /\ disk[i] = [name |-> disk[i].name, ref |-> disk[i].ref]
        /\ disk[i].name \in Name /\ disk[i].ref \in Id \cup {None}
    BY <1>1, <1>5 DEF Bounded, FilesInv, FilesRefer, IInv, Typed
  <2> DEFINE n == disk[i].name
             r == disk[i].ref
  <2>2. disk[i] = [name |-> n, ref |-> r] /\ n \in Name /\ r \in Id \cup {None}
    BY <2>1
  <2> HIDE DEF n, r
  <2> QED
    BY <2>2 DEF File
<1> QED
  BY <1>2, <1>3, <1>4, <1>5 DEF TypeOK, IInv, Typed, Bounded

-----------------------------------------------------------------------------
(* The theorems                                                             *)

(* The table and the objects agree on who has which identifier, through     *)
(* loading, creation, growth of the table and crashes (assign_id).          *)
THEOREM TableAgrees == Spec => []Registered
<1>1. IInv => Registered
  BY DEF IInv
<1> QED
  BY <1>1, InitIInv, NextIInv, PTL DEF Spec

(* No object is in memory twice, whatever refers to what while files are    *)
(* being read (load_object, read_entry).                                    *)
THEOREM OneObjectEach == Spec => []NeverTwice
<1>1. IInv => NeverTwice
  BY DEF IInv
<1> QED
  BY <1>1, InitIInv, NextIInv, PTL DEF Spec

(* An object in memory under an identifier is the one that its file holds,  *)
(* so that saving never overwrites another (assign_id, save_all).           *)
THEOREM NobodyHijacked == Spec => []NoHijack
<1>1. IInv => NoHijack
  BY DEF IInv
<1> QED
  BY <1>1, InitIInv, NextIInv, PTL DEF Spec

(* An object that has not changed since it was read or written is as its    *)
(* file says, down to the object it refers to, whatever crashes came before *)
(* (load_moo_thing, save_object).                                           *)
THEOREM FilesSayWhatIs == Spec => []RoundTrip
<1>1. IInv /\ FilesInv => RoundTrip
  <2> SUFFICES ASSUME IInv, FilesInv, Idle, NEW o \in Known \ dirty
               PROVE  FileSays(o)
    BY DEF RoundTrip, FileSays
  <2>1. ~Pending(o) /\ ~Emptied(o)
    BY DEF Idle, Pending, Emptied, Known
  <2> QED
    BY <2>1 DEF FilesInv, Faithful
<1> QED
  BY <1>1, InitIInv, NextIInv, InitFilesInv, NextFilesInv, PTL DEF Spec

(* Whatever is loaded, created, saved and lost: the table, the objects and  *)
(* the files refer to each other only as their types allow, and no look-up  *)
(* or search for an identifier in progress is of an object that is not      *)
(* there (mutable.cpp).                                                     *)
THEOREM StoreIsTyped == Spec => []TypeOK
<1> QED
  BY InvIsTypeOK, InitIInv, NextIInv, InitFilesInv, NextFilesInv, InitBounded, NextBounded, PTL
     DEF Spec

-----------------------------------------------------------------------------
(* Sequences and texts                                                      *)

IsSeq(s) == \E S : s \in Seq(S)

LEMMA SeqFacts ==
  ASSUME NEW s, IsSeq(s)
  PROVE  Len(s) \in Nat /\ DOMAIN s = 1..Len(s) /\ s \in Seq({s[i] : i \in 1..Len(s)})
<1>1. PICK S : s \in Seq(S)
  BY DEF IsSeq
<1>2. Len(s) \in Nat /\ DOMAIN s = 1..Len(s)
  BY <1>1, LenProperties
<1>3. s = [i \in 1..Len(s) |-> s[i]]
  BY <1>1
<1>4. s \in [1..Len(s) -> {s[i] : i \in 1..Len(s)}]
  <2> DEFINE R == {s[i] : i \in 1..Len(s)}
  <2>1. \A i \in 1..Len(s) : s[i] \in R
    OBVIOUS
  <2> HIDE DEF R
  <2>2. s \in [1..Len(s) -> R]
    BY <1>3, <2>1
  <2> QED
    BY <2>2 DEF R
<1> QED
  BY <1>2, <1>4, SeqDef

(* The loops that look for a character stop at one or at the end.           *)
LEMMA FirstNotInExists ==
  ASSUME NEW s, IsSeq(s), NEW C, NEW i \in 1..(Len(s) + 1)
  PROVE  LET p == FirstNotIn(s, i, C)
         IN /\ p \in i..(Len(s) + 1)
            /\ p <= Len(s) => s[p] \notin C
            /\ \A o \in i..(p - 1) : s[o] \in C
<1> DEFINE n == Len(s) + 1
           S == {p \in i..n : p = n \/ s[p] \notin C}
<1>1. n \in Nat /\ i \in Nat /\ i <= n
  BY SeqFacts
<1>2. S \subseteq Nat /\ n \in S
  BY <1>1
<1>3. PICK p \in S : \A q \in S : p <= q
  <2> HIDE DEF S
  <2> QED
    BY <1>2, LeastExists
<1>4. p \in i..n /\ (p = n \/ s[p] \notin C)
  OBVIOUS
<1>5. ASSUME NEW o \in i..(p - 1), s[o] \notin C
      PROVE  FALSE
  <2>1. o \in S
    BY <1>1, <1>4, <1>5
  <2> QED
    BY <1>1, <1>3, <1>4, <2>1
<1>6. p <= Len(s) => s[p] \notin C
  BY <1>1, <1>4, SeqFacts
<1> QED
  BY <1>4, <1>5, <1>6 DEF FirstNotIn

LEMMA FirstNotInIs ==
  ASSUME NEW s, IsSeq(s), NEW C, NEW i \in 1..(Len(s) + 1), NEW p \in i..(Len(s) + 1),
         p <= Len(s) => s[p] \notin C,
         \A o \in i..(p - 1) : s[o] \in C
  PROVE  FirstNotIn(s, i, C) = p
<1> DEFINE q == FirstNotIn(s, i, C)
<1>1. /\ q \in i..(Len(s) + 1)
      /\ q <= Len(s) => s[q] \notin C
      /\ \A o \in i..(q - 1) : s[o] \in C
  BY FirstNotInExists
<1>2. Len(s) \in Nat
  BY SeqFacts
<1> HIDE DEF q
<1>3. ~ (q < p)
  BY <1>1, <1>2
<1>4. ~ (p < q)
  BY <1>1, <1>2
<1> QED
  BY <1>1, <1>2, <1>3, <1>4 DEF q

(* A text made of texts.                                                    *)
FlatTo(seqs, n, f) ==
  f = [i \in 1..n |-> IF i = 1 THEN seqs[i] ELSE f[i - 1] \o seqs[i]]

LEMMA FlatToExists ==
  ASSUME NEW seqs, NEW n \in Nat, n >= 1
  PROVE  \E f : FlatTo(seqs, n, f)
<1> DEFINE Bad == {k \in 1..n : ~ \E f : FlatTo(seqs, k, f)}
<1> SUFFICES ASSUME Bad # {} PROVE FALSE
  <2>1. n \in 1..n
    OBVIOUS
  <2> QED
    BY <2>1
<1>1. PICK k \in Bad : \A j \in Bad : k <= j
  <2>1. Bad \subseteq Nat
    OBVIOUS
  <2> HIDE DEF Bad
  <2> QED
    BY <2>1, LeastExists
<1>2. k \in 1..n /\ ~ \E f : FlatTo(seqs, k, f)
  BY <1>1
<1>3. CASE k = 1
  <2> DEFINE f == [i \in {1} |-> seqs[i]]
  <2>1. 1..k = {1}
    BY <1>3
  <2>2. FlatTo(seqs, k, f)
    BY <2>1 DEF FlatTo
  <2> QED
    BY <1>2, <2>2
<1>4. CASE k # 1
  <2>1. k - 1 \in 1..n /\ k - 1 \notin Bad
    BY <1>1, <1>2, <1>4
  <2>2. PICK f : FlatTo(seqs, k - 1, f)
    BY <2>1
  <2> DEFINE old == 1..(k - 1)
             top == f[k - 1] \o seqs[k]
             g   == [i \in 1..k |-> IF i = k THEN top ELSE f[i]]
  <2>3. \A i \in old : f[i] = IF i = 1 THEN seqs[i] ELSE f[i - 1] \o seqs[i]
    BY <2>2 DEF FlatTo
  <2>4. 1..k = old \cup {k} /\ k \notin old /\ k - 1 \in old
    BY <1>2, <1>4
  <2>5. \A i \in old : i # 1 => i - 1 \in old
    BY <1>2
  <2> HIDE DEF old, top
  <2>6. \A i \in old : g[i] = f[i]
    BY <2>4
  <2>7. ASSUME NEW i \in 1..k
        PROVE  g[i] = IF i = 1 THEN seqs[i] ELSE g[i - 1] \o seqs[i]
    <3>1. CASE i = k
      BY <1>4, <2>4, <2>6, <3>1 DEF top
    <3>2. CASE i # k
      <4>1. i \in old
        BY <2>4, <3>2
      <4> HIDE DEF g
      <4> QED
        BY <2>3, <2>5, <2>6, <4>1
    <3> QED
      BY <3>1, <3>2
  <2>8. FlatTo(seqs, k, g)
    BY <2>7 DEF FlatTo
  <2> QED
    BY <1>2, <2>8
<1> QED
  BY <1>3, <1>4

LEMMA FlattenSeqIs ==
  ASSUME NEW seqs, Len(seqs) \in Nat, Len(seqs) # 0
  PROVE  \E f : FlatTo(seqs, Len(seqs), f) /\ FlattenSeq(seqs) = f[Len(seqs)]
<1> DEFINE n == Len(seqs)
           Unfolds(f) == f = [i \in 1..n |-> IF i = 1 THEN seqs[i] ELSE f[i - 1] \o seqs[i]]
           flat == CHOOSE f : Unfolds(f)
<1>1. PICK f : FlatTo(seqs, n, f)
  BY FlatToExists
<1>2. Unfolds(f)
  BY <1>1 DEF FlatTo
<1>3. Unfolds(flat)
  <2> HIDE DEF Unfolds
  <2> QED
    BY <1>2
<1>4. FlattenSeq(seqs) = flat[n]
  BY DEF FlattenSeq
<1>5. FlatTo(seqs, n, flat)
  <2> HIDE DEF flat
  <2> QED
    BY <1>3 DEF FlatTo
<1> QED
  BY <1>4, <1>5

LEMMA FlattenSeqType ==
  ASSUME NEW S, NEW seqs, IsSeq(seqs), \A i \in 1..Len(seqs) : seqs[i] \in Seq(S)
  PROVE  FlattenSeq(seqs) \in Seq(S)
<1> DEFINE n == Len(seqs)
<1>1. n \in Nat
  BY SeqFacts
<1>2. CASE n = 0
  <2>1. seqs = <<>>
    BY <1>2, EmptySeq DEF IsSeq
  <2> QED
    BY <1>2, <2>1 DEF FlattenSeq
<1>3. CASE n # 0
  <2>1. PICK f : FlatTo(seqs, n, f) /\ FlattenSeq(seqs) = f[n]
    BY <1>1, <1>3, FlattenSeqIs
  <2> DEFINE Bad == {i \in 1..n : f[i] \notin Seq(S)}
  <2>2. Bad = {}
    <3> SUFFICES ASSUME Bad # {} PROVE FALSE
      OBVIOUS
    <3>1. PICK i \in Bad : \A j \in Bad : i <= j
      <4>1. Bad \subseteq Nat
        OBVIOUS
      <4> HIDE DEF Bad
      <4> QED
        BY <4>1, LeastExists
    <3>2. i \in 1..n /\ f[i] \notin Seq(S)
      BY <3>1
    <3>3. f[i] = IF i = 1 THEN seqs[i] ELSE f[i - 1] \o seqs[i]
      BY <2>1, <3>2 DEF FlatTo
    <3>4. CASE i = 1
      BY <3>2, <3>3, <3>4
    <3>5. CASE i # 1
      <4>1. i - 1 \in 1..n /\ i - 1 \notin Bad
        BY <1>1, <3>1, <3>2, <3>5
      <4>2. f[i - 1] \in Seq(S)
        BY <4>1
      <4>3. f[i - 1] \o seqs[i] \in Seq(S)
        BY <3>2, <4>2, ConcatProperties
      <4> QED
        BY <3>2, <3>3, <3>5, <4>3
    <3> QED
      BY <3>4, <3>5
  <2>3. n \in 1..n
    BY <1>1, <1>3
  <2> QED
    BY <2>1, <2>2, <2>3
<1> QED
  BY <1>2, <1>3

(* A text that is all there is.                                             *)
LEMMA FlattenSeqOne ==
  ASSUME NEW seqs, Len(seqs) = 1
  PROVE  FlattenSeq(seqs) = seqs[1]
<1>1. Len(seqs) \in Nat /\ Len(seqs) # 0
  OBVIOUS
<1>2. PICK f : FlatTo(seqs, Len(seqs), f) /\ FlattenSeq(seqs) = f[Len(seqs)]
  BY <1>1, FlattenSeqIs
<1> QED
  BY <1>2 DEF FlatTo

-----------------------------------------------------------------------------
(* Numbers in texts                                                         *)

Bases == {8, 10}

LEMMA DivFacts ==
  ASSUME NEW m \in Nat, NEW base \in Bases
  PROVE  /\ m \div base \in 0..m /\ m % base \in 0..(base - 1)
         /\ m % base = m - base * (m \div base)
         /\ m >= base => m \div base < m /\ m \div base > 0
<1>1. /\ m \div 8 \in 0..m /\ m % 8 \in 0..7
      /\ m % 8 = m - 8 * (m \div 8)
      /\ m >= 8 => m \div 8 < m /\ m \div 8 > 0
  OBVIOUS
<1>2. /\ m \div 10 \in 0..m /\ m % 10 \in 0..9
      /\ m % 10 = m - 10 * (m \div 10)
      /\ m >= 10 => m \div 10 < m /\ m \div 10 > 0
  OBVIOUS
<1>3. 8 - 1 = 7 /\ 10 - 1 = 9
  OBVIOUS
<1>4. base = 8 \/ base = 10
  BY DEF Bases
<1>5. CASE base = 8
  BY <1>1, <1>3, <1>5, Zenon
<1>6. CASE base = 10
  BY <1>2, <1>3, <1>6, Zenon
<1> QED
  BY <1>4, <1>5, <1>6

DigitsTo(n, base, f) ==
  f = [m \in 0..n |->
         (IF m < base THEN <<>> ELSE f[m \div base]) \o <<DigitChar[(m % base) + 1]>>]

LEMMA DigitsToExists ==
  ASSUME NEW n \in Nat, NEW base \in Bases
  PROVE  \E f : DigitsTo(n, base, f)
<1> DEFINE Bad == {k \in Nat : ~ \E f : DigitsTo(k, base, f)}
<1> SUFFICES ASSUME Bad # {} PROVE FALSE
  OBVIOUS
<1>1. PICK k \in Bad : \A j \in Bad : k <= j
  <2>1. Bad \subseteq Nat
    OBVIOUS
  <2> HIDE DEF Bad
  <2> QED
    BY <2>1, LeastExists
<1>2. k \in Nat /\ ~ \E f : DigitsTo(k, base, f)
  BY <1>1
<1> DEFINE Step(m, f) == (IF m < base THEN <<>> ELSE f[m \div base])
                            \o <<DigitChar[(m % base) + 1]>>
<1>3. PICK f : k # 0 => DigitsTo(k - 1, base, f)
  <2>1. k # 0 => k - 1 \in Nat /\ ~(k <= k - 1)
    BY <1>2
  <2>2. k # 0 => k - 1 \notin Bad
    BY <1>1, <2>1, Zenon
  <2> QED
    BY <2>1, <2>2
<1> DEFINE g == [m \in 0..k |-> IF m = k THEN Step(k, f) ELSE f[m]]
<1>4. \A m \in 0..(k - 1) : f[m] = Step(m, f)
  <2>1. CASE k = 0
    <3>1. 0..(k - 1) = {}
      BY <2>1
    <3> QED
      BY <3>1, Zenon
  <2>2. CASE k # 0
    <3>1. f = [m \in 0..(k - 1) |-> Step(m, f)]
      BY <1>3, <2>2, Zenon DEF DigitsTo
    <3> HIDE DEF Step
    <3> QED
      BY <3>1, Zenon
  <2> QED
    BY <2>1, <2>2
<1>5. ASSUME NEW m \in 0..k
      PROVE  g[m] = Step(m, g)
  <2>1. m >= base => m \div base \in 0..k /\ m \div base # k
    BY <1>2, DivFacts
  <2>2. m >= base => g[m \div base] = f[m \div base]
    BY <2>1
  <2>3. m < base \/ m >= base
    BY DEF Bases
  <2>4. Step(m, g) = Step(m, f)
    BY <2>2, <2>3 DEF Bases
  <2> HIDE DEF Step
  <2>5. CASE m = k
    BY <2>4, <2>5
  <2>6. CASE m # k
    <3>1. m \in 0..(k - 1)
      BY <1>2, <2>6
    <3> QED
      BY <1>4, <2>4, <2>6, <3>1
  <2> QED
    BY <2>5, <2>6
<1>6. DigitsTo(k, base, g)
  BY <1>5, Zenon DEF DigitsTo
<1> QED
  BY <1>2, <1>6

LEMMA DigitsToSame ==
  ASSUME NEW n \in Nat, NEW k \in Nat, NEW base \in Bases, NEW f, NEW g,
         DigitsTo(n, base, f), DigitsTo(k, base, g)
  PROVE  \A m \in 0..n : m <= k => f[m] = g[m]
<1> DEFINE Bad == {m \in 0..n : m <= k /\ f[m] # g[m]}
<1> SUFFICES ASSUME Bad # {} PROVE FALSE
  OBVIOUS
<1>1. PICK m \in Bad : \A j \in Bad : m <= j
  <2>1. Bad \subseteq Nat
    OBVIOUS
  <2> HIDE DEF Bad
  <2> QED
    BY <2>1, LeastExists
<1>2. m \in 0..n /\ m \in 0..k /\ f[m] # g[m]
  BY <1>1
<1>3. f[m] = (IF m < base THEN <<>> ELSE f[m \div base]) \o <<DigitChar[(m % base) + 1]>>
  BY <1>2, Zenon DEF DigitsTo
<1>4. g[m] = (IF m < base THEN <<>> ELSE g[m \div base]) \o <<DigitChar[(m % base) + 1]>>
  BY <1>2, Zenon DEF DigitsTo
<1>5. m >= base => f[m \div base] = g[m \div base]
  <2>1. m >= base => m \div base \in 0..n /\ m \div base <= k /\ m \div base < m
    BY <1>2, DivFacts
  <2> QED
    BY <1>1, <1>2, <2>1
<1>6. m < base \/ m >= base
  BY DEF Bases
<1> QED
  BY <1>2, <1>3, <1>4, <1>5, <1>6, Zenon

(* The digits of a number: its last digit after those of the rest.          *)
LEMMA DigitsIs ==
  ASSUME NEW n \in Nat, NEW base \in Bases
  PROVE  Digits(n, base) = (IF n < base THEN <<>> ELSE Digits(n \div base, base))
                             \o <<DigitChar[(n % base) + 1]>>
<1> DEFINE Unfolds(k, f) == f = [m \in 0..k |->
                (IF m < base THEN <<>> ELSE f[m \div base]) \o <<DigitChar[(m % base) + 1]>>]
           Of(k) == CHOOSE f : Unfolds(k, f)
<1>1. ASSUME NEW k \in Nat
      PROVE  DigitsTo(k, base, Of(k)) /\ Digits(k, base) = Of(k)[k]
  <2>1. PICK f : DigitsTo(k, base, f)
    <3> HIDE DEF Unfolds, Of
    <3> QED
      BY DigitsToExists
  <2>2. Unfolds(k, f)
    BY <2>1 DEF DigitsTo
  <2>3. Unfolds(k, Of(k))
    <3> HIDE DEF Unfolds
    <3> QED
      BY <2>2
  <2>4. Digits(k, base) = Of(k)[k]
    BY DEF Digits
  <2> HIDE DEF Of
  <2> QED
    BY <2>3, <2>4, Zenon DEF DigitsTo
<1> HIDE DEF Of
<1>2. Of(n)[n] = (IF n < base THEN <<>> ELSE Of(n)[n \div base]) \o <<DigitChar[(n % base) + 1]>>
  BY <1>1 DEF DigitsTo
<1>3. n >= base => Of(n)[n \div base] = Digits(n \div base, base)
  <2> SUFFICES ASSUME n >= base PROVE Of(n)[n \div base] = Digits(n \div base, base)
    OBVIOUS
  <2>1. n \div base \in Nat /\ n \div base <= n /\ n \div base \in 0..n
    BY DivFacts
  <2>2. DigitsTo(n, base, Of(n)) /\ DigitsTo(n \div base, base, Of(n \div base))
    BY <1>1, <2>1
  <2>3. Of(n)[n \div base] = Of(n \div base)[n \div base]
    BY <2>1, <2>2, DigitsToSame
  <2> QED
    BY <1>1, <2>1, <2>3
<1>4. n < base \/ n >= base
  BY DEF Bases
<1> QED
  BY <1>1, <1>2, <1>3, <1>4

LEMMA Extended ==
  ASSUME NEW S, NEW s \in Seq(S), NEW c \in S
  PROVE  /\ s \o <<c>> \in Seq(S) /\ Len(s) \in Nat /\ Len(s \o <<c>>) = Len(s) + 1
         /\ \A i \in 1..Len(s) : (s \o <<c>>)[i] = s[i]
         /\ (s \o <<c>>)[Len(s) + 1] = c
<1>1. <<c>> \in Seq(S) /\ Len(<<c>>) = 1
  OBVIOUS
<1>2. Len(s) \in Nat
  BY LenProperties
<1>3. /\ s \o <<c>> \in Seq(S) /\ Len(s \o <<c>>) = Len(s) + 1
      /\ \A i \in 1..(Len(s) + 1) : (s \o <<c>>)[i] = IF i <= Len(s) THEN s[i] ELSE <<c>>[i - Len(s)]
  BY <1>1, ConcatProperties
<1>4. \A i \in 1..Len(s) : (s \o <<c>>)[i] = s[i]
  BY <1>2, <1>3
<1>5. (s \o <<c>>)[Len(s) + 1] = <<c>>[1]
  <2> DEFINE n == Len(s)
             t == s \o <<c>>
  <2>1. n + 1 \in 1..(n + 1) /\ ~ (n + 1 <= n) /\ (n + 1) - n = 1
    BY <1>2
  <2> HIDE DEF n
  <2>2. t[n + 1] = IF n + 1 <= n THEN s[n + 1] ELSE <<c>>[(n + 1) - n]
    BY <1>3, <2>1 DEF n
  <2> HIDE DEF t
  <2>3. t[n + 1] = <<c>>[1]
    BY <2>1, <2>2
  <2> QED
    BY <2>3 DEF t, n
<1> QED
  BY <1>2, <1>3, <1>4, <1>5

LEMMA DigitFacts ==
  ASSUME NEW d \in 0..9
  PROVE  /\ DigitChar[d + 1] \in Digit /\ DigitOf(DigitChar[d + 1]) = d
         /\ DigitChar[d + 1] = "0" <=> d = 0
<1>1. \A e \in 0..9 : /\ DigitChar[e + 1] \in Digit
                      /\ DigitChar[e + 1] = "0" <=> e = 0
                      /\ DigitChar[e + 1] = DigitChar[d + 1] => e = d
  <2> SUFFICES ASSUME NEW e \in 0..9
               PROVE  /\ DigitChar[e + 1] \in Digit
                      /\ DigitChar[e + 1] = "0" <=> e = 0
                      /\ DigitChar[e + 1] = DigitChar[d + 1] => e = d
    OBVIOUS
  <2>1. /\ DigitChar[1] = "0" /\ DigitChar[2] = "1" /\ DigitChar[3] = "2" /\ DigitChar[4] = "3"
        /\ DigitChar[5] = "4" /\ DigitChar[6] = "5" /\ DigitChar[7] = "6" /\ DigitChar[8] = "7"
        /\ DigitChar[9] = "8" /\ DigitChar[10] = "9"
    BY DEF DigitChar
  <2>2. /\ e \in {0, 1, 2, 3, 4, 5, 6, 7, 8, 9}
        /\ d \in {0, 1, 2, 3, 4, 5, 6, 7, 8, 9}
    OBVIOUS
  <2> QED
    BY <2>1, <2>2 DEF Digit
<1>2. DigitOf(DigitChar[d + 1]) = d
  BY <1>1 DEF DigitOf
<1> QED
  BY <1>1, <1>2

LEMMA DigitOfType ==
  ASSUME NEW c \in Digit
  PROVE  DigitOf(c) \in 0..9
<1>1. \E d \in 0..9 : DigitChar[d + 1] = c
  <2>1. /\ DigitChar[1] = "0" /\ DigitChar[2] = "1" /\ DigitChar[3] = "2" /\ DigitChar[4] = "3"
        /\ DigitChar[5] = "4" /\ DigitChar[6] = "5" /\ DigitChar[7] = "6" /\ DigitChar[8] = "7"
        /\ DigitChar[9] = "8" /\ DigitChar[10] = "9"
    BY DEF DigitChar
  <2>2. /\ DigitChar[0 + 1] = "0" /\ DigitChar[1 + 1] = "1" /\ DigitChar[2 + 1] = "2"
        /\ DigitChar[3 + 1] = "3" /\ DigitChar[4 + 1] = "4" /\ DigitChar[5 + 1] = "5"
        /\ DigitChar[6 + 1] = "6" /\ DigitChar[7 + 1] = "7" /\ DigitChar[8 + 1] = "8"
        /\ DigitChar[9 + 1] = "9"
    BY <2>1
  <2>3. 0 \in 0..9 /\ 1 \in 0..9 /\ 2 \in 0..9 /\ 3 \in 0..9 /\ 4 \in 0..9 /\ 5 \in 0..9
        /\ 6 \in 0..9 /\ 7 \in 0..9 /\ 8 \in 0..9 /\ 9 \in 0..9
    OBVIOUS
  <2> QED
    BY <2>2, <2>3, Zenon DEF Digit
<1> QED
  BY <1>1 DEF DigitOf

LEMMA DigitsType ==
  ASSUME NEW n \in Nat, NEW base \in Bases
  PROVE  LET d == Digits(n, base)
         IN d \in Seq(Digit) /\ Len(d) \in Nat \ {0} /\ (n # 0 => d[1] # "0")
<1> DEFINE Fine(k) == /\ Digits(k, base) \in Seq(Digit) /\ Len(Digits(k, base)) \in Nat \ {0}
                      /\ k # 0 => Digits(k, base)[1] # "0"
           Bad == {k \in Nat : ~ Fine(k)}
<1> SUFFICES ASSUME Bad # {} PROVE FALSE
  OBVIOUS
<1>1. PICK k \in Bad : \A j \in Bad : k <= j
  <2>1. Bad \subseteq Nat
    OBVIOUS
  <2> HIDE DEF Bad
  <2> QED
    BY <2>1, LeastExists
<1>2. k \in Nat /\ ~ Fine(k)
  BY <1>1
<1> DEFINE c == DigitChar[(k % base) + 1]
           q == k \div base
<1>3. k % base \in 0..9 /\ (k < base => k % base = k)
  <2>1. k < 8 => k % 8 = k
    BY <1>2
  <2>2. k < 10 => k % 10 = k
    BY <1>2
  <2>3. base = 8 \/ base = 10
    BY DEF Bases
  <2>4. CASE base = 8
    <3>1. k % 8 \in 0..7
      BY <1>2
    <3> QED
      BY <2>1, <2>4, <3>1
  <2>5. CASE base = 10
    <3>1. k % 10 \in 0..9
      BY <1>2
    <3> QED
      BY <2>2, <2>5, <3>1
  <2> QED
    BY <2>3, <2>4, <2>5
<1>4. c \in Digit /\ (k < base /\ k # 0 => c # "0")
  <2>1. c \in Digit /\ (c = "0" <=> k % base = 0)
    BY <1>3, DigitFacts
  <2> QED
    BY <1>3, <2>1
<1>5. Digits(k, base) = (IF k < base THEN <<>> ELSE Digits(q, base)) \o <<c>>
  BY <1>2, DigitsIs
<1> HIDE DEF c
<1>6. CASE k < base
  <2>1. Digits(k, base) = <<c>>
    <3>1. <<>> \in Seq(Digit) /\ <<c>> \in Seq(Digit)
      BY <1>4
    <3> QED
      BY <1>5, <1>6, <3>1, ConcatEmptySeq
  <2>2. <<c>> \in Seq(Digit) /\ Len(<<c>>) = 1 /\ <<c>>[1] = c
    BY <1>4
  <2> QED
    BY <1>2, <1>4, <1>6, <2>1, <2>2
<1>7. CASE ~ (k < base)
  <2>1. q \in Nat /\ q < k /\ q # 0
    <3>1. k >= base
      BY <1>2, <1>7 DEF Bases
    <3> QED
      BY <1>2, <3>1, DivFacts
  <2> HIDE DEF q
  <2>2. Fine(q)
    BY <1>1, <1>2, <2>1
  <2> DEFINE d == Digits(q, base)
  <2>3. d \in Seq(Digit) /\ Len(d) \in Nat \ {0} /\ d[1] # "0"
    BY <2>1, <2>2
  <2>4. Digits(k, base) = d \o <<c>>
    BY <1>5, <1>7
  <2> HIDE DEF d
  <2>5. d \o <<c>> \in Seq(Digit) /\ Len(d \o <<c>>) = Len(d) + 1 /\ (d \o <<c>>)[1] = d[1]
    <3>1. 1 \in 1..Len(d)
      BY <2>3
    <3> QED
      BY <1>4, <2>3, <3>1, Extended
  <2> QED
    BY <1>2, <2>3, <2>4, <2>5
<1> QED
  BY <1>6, <1>7

(* What digits stand for.                                                   *)
ValueTo(digits, base, n, f) ==
  f = [m \in 0..n |-> IF m = 0 THEN 0 ELSE f[m - 1] * base + DigitOf(digits[m])]

LEMMA ValueToExists ==
  ASSUME NEW digits, NEW base, NEW n \in Nat
  PROVE  \E f : ValueTo(digits, base, n, f)
<1> DEFINE Bad == {k \in Nat : ~ \E f : ValueTo(digits, base, k, f)}
<1> SUFFICES ASSUME Bad # {} PROVE FALSE
  OBVIOUS
<1>1. PICK k \in Bad : \A j \in Bad : k <= j
  <2>1. Bad \subseteq Nat
    OBVIOUS
  <2> HIDE DEF Bad
  <2> QED
    BY <2>1, LeastExists
<1>2. k \in Nat /\ ~ \E f : ValueTo(digits, base, k, f)
  BY <1>1
<1> DEFINE Step(m, f) == IF m = 0 THEN 0 ELSE f[m - 1] * base + DigitOf(digits[m])
<1>3. PICK f : k # 0 => ValueTo(digits, base, k - 1, f)
  <2>1. k # 0 => k - 1 \in Nat /\ ~(k <= k - 1)
    BY <1>2
  <2>2. k # 0 => k - 1 \notin Bad
    BY <1>1, <2>1, Zenon
  <2> QED
    BY <2>1, <2>2
<1> DEFINE g == [m \in 0..k |-> IF m = k THEN Step(k, f) ELSE f[m]]
<1>4. \A m \in 0..(k - 1) : f[m] = Step(m, f)
  BY <1>2, <1>3 DEF ValueTo
<1>5. ASSUME NEW m \in 0..k
      PROVE  g[m] = Step(m, g)
  <2>1. m # 0 => m - 1 \in 0..k /\ m - 1 # k
    BY <1>2
  <2>2. m # 0 => g[m - 1] = f[m - 1]
    BY <2>1
  <2>3. Step(m, g) = Step(m, f)
    BY <2>2
  <2> HIDE DEF Step
  <2>4. CASE m = k
    BY <2>3, <2>4
  <2>5. CASE m # k
    <3>1. m \in 0..(k - 1)
      BY <1>2, <2>5
    <3> QED
      BY <1>4, <2>3, <2>5, <3>1
  <2> QED
    BY <2>4, <2>5
<1>6. ValueTo(digits, base, k, g)
  BY <1>5 DEF ValueTo
<1> QED
  BY <1>2, <1>6

LEMMA ValueToSame ==
  ASSUME NEW d, NEW e, NEW base, NEW n \in Nat, NEW k \in Nat, n <= k, NEW f, NEW g,
         ValueTo(d, base, n, f), ValueTo(e, base, k, g),
         \A i \in 1..n : d[i] = e[i]
  PROVE  f[n] = g[n]
<1> DEFINE Bad == {m \in 0..n : f[m] # g[m]}
<1>1. Bad = {}
  <2> SUFFICES ASSUME Bad # {} PROVE FALSE
    OBVIOUS
  <2>1. PICK m \in Bad : \A j \in Bad : m <= j
    <3>1. Bad \subseteq Nat
      OBVIOUS
    <3> HIDE DEF Bad
    <3> QED
      BY <3>1, LeastExists
  <2>2. m \in 0..n /\ m \in 0..k /\ f[m] # g[m]
    BY <2>1
  <2>3. f[m] = IF m = 0 THEN 0 ELSE f[m - 1] * base + DigitOf(d[m])
    BY <2>2 DEF ValueTo
  <2>4. g[m] = IF m = 0 THEN 0 ELSE g[m - 1] * base + DigitOf(e[m])
    BY <2>2 DEF ValueTo
  <2>5. CASE m = 0
    BY <2>2, <2>3, <2>4, <2>5
  <2>6. CASE m # 0
    <3>1. m - 1 \in 0..n /\ m - 1 < m /\ m \in 1..n
      BY <2>2, <2>6
    <3>2. f[m - 1] = g[m - 1]
      BY <2>1, <3>1
    <3>3. d[m] = e[m]
      BY <3>1
    <3> QED
      BY <2>2, <2>3, <2>4, <2>6, <3>2, <3>3
  <2> QED
    BY <2>5, <2>6
<1> QED
  BY <1>1

LEMMA DigitsValueIs ==
  ASSUME NEW digits, IsSeq(digits), NEW base
  PROVE  \E f : ValueTo(digits, base, Len(digits), f) /\ DigitsValue(digits, base) = f[Len(digits)]
<1> DEFINE n == Len(digits)
           Unfolds(f) == f = [m \in 0..n |->
                                IF m = 0 THEN 0 ELSE f[m - 1] * base + DigitOf(digits[m])]
           value == CHOOSE f : Unfolds(f)
<1>0. n \in Nat
  BY SeqFacts
<1>1. PICK f : ValueTo(digits, base, n, f)
  BY <1>0, ValueToExists
<1>2. Unfolds(f)
  BY <1>1 DEF ValueTo
<1>3. Unfolds(value)
  <2> HIDE DEF Unfolds
  <2> QED
    BY <1>2
<1>4. DigitsValue(digits, base) = value[n]
  BY DEF DigitsValue
<1>5. ValueTo(digits, base, n, value)
  <2> HIDE DEF value
  <2> QED
    BY <1>3 DEF ValueTo
<1> QED
  BY <1>4, <1>5

LEMMA DigitsValueRec ==
  ASSUME NEW d \in Seq(Digit), NEW c \in Digit, NEW base
  PROVE  /\ DigitsValue(<<>>, base) = 0
         /\ DigitsValue(d \o <<c>>, base) = DigitsValue(d, base) * base + DigitOf(c)
<1> DEFINE n == Len(d)
           e == d \o <<c>>
<1>1. /\ e \in Seq(Digit) /\ n \in Nat /\ Len(e) = n + 1
      /\ \A i \in 1..n : e[i] = d[i]
      /\ e[n + 1] = c
  BY Extended
<1>2. IsSeq(d) /\ IsSeq(e) /\ IsSeq(<<>>)
  <2>1. <<>> \in Seq(Digit)
    OBVIOUS
  <2> HIDE DEF e
  <2> QED
    BY <1>1, <2>1 DEF IsSeq
<1>3. PICK f : ValueTo(d, base, n, f) /\ DigitsValue(d, base) = f[n]
  BY <1>2, DigitsValueIs
<1> HIDE DEF e, n
<1>4. PICK g : ValueTo(e, base, Len(e), g) /\ DigitsValue(e, base) = g[Len(e)]
  BY <1>2, DigitsValueIs
<1>5. f[n] = g[n]
  <2>1. n <= Len(e) /\ Len(e) \in Nat
    BY <1>1
  <2> QED
    BY <1>1, <1>3, <1>4, <2>1, ValueToSame
<1>6. g[n + 1] = g[n] * base + DigitOf(c)
  <2>1. n + 1 \in 0..Len(e) /\ n + 1 # 0 /\ (n + 1) - 1 = n
    BY <1>1
  <2> QED
    BY <1>1, <1>4, <2>1 DEF ValueTo
<1>7. DigitsValue(<<>>, base) = 0
  <2>1. PICK h : ValueTo(<<>>, base, Len(<<>>), h) /\ DigitsValue(<<>>, base) = h[Len(<<>>)]
    BY <1>2, DigitsValueIs
  <2>2. Len(<<>>) = 0 /\ 0 \in 0..0
    OBVIOUS
  <2> QED
    BY <2>1, <2>2 DEF ValueTo
<1> QED
  BY <1>1, <1>3, <1>4, <1>5, <1>6, <1>7 DEF e

LEMMA DigitsValueType ==
  ASSUME NEW digits \in Seq(Digit), NEW base \in Bases
  PROVE  DigitsValue(digits, base) \in Nat
<1> DEFINE n == Len(digits)
<1>1. IsSeq(digits) /\ n \in Nat
  BY LenProperties DEF IsSeq
<1>2. PICK f : ValueTo(digits, base, n, f) /\ DigitsValue(digits, base) = f[n]
  BY <1>1, DigitsValueIs
<1> DEFINE Bad == {m \in 0..n : f[m] \notin Nat}
<1>3. Bad = {}
  <2> SUFFICES ASSUME Bad # {} PROVE FALSE
    OBVIOUS
  <2>1. PICK m \in Bad : \A j \in Bad : m <= j
    <3>1. Bad \subseteq Nat
      OBVIOUS
    <3> HIDE DEF Bad
    <3> QED
      BY <3>1, LeastExists
  <2>2. m \in 0..n /\ f[m] \notin Nat
    BY <2>1
  <2>3. f[m] = IF m = 0 THEN 0 ELSE f[m - 1] * base + DigitOf(digits[m])
    BY <1>2, <2>2 DEF ValueTo
  <2>4. CASE m = 0
    BY <2>2, <2>3, <2>4
  <2>5. CASE m # 0
    <3>1. m - 1 \in 0..n /\ m - 1 < m /\ m \in 1..n
      BY <1>1, <2>2, <2>5
    <3>2. f[m - 1] \in Nat
      BY <2>1, <3>1
    <3>3. digits[m] \in Digit
      BY <3>1, ElementOfSeq
    <3>4. DigitOf(digits[m]) \in 0..9
      BY <3>3, DigitOfType
    <3>5. \A x \in Nat : \A y \in 0..9 : x * 8 + y \in Nat /\ x * 10 + y \in Nat
      OBVIOUS
    <3> QED
      BY <2>2, <2>3, <2>5, <3>2, <3>4, <3>5 DEF Bases
  <2> QED
    BY <2>4, <2>5
<1>4. n \in 0..n
  BY <1>1
<1> QED
  BY <1>2, <1>3, <1>4

(* The digits of a number stand for it.                                     *)
LEMMA DigitsStandFor ==
  ASSUME NEW n \in Nat, NEW base \in Bases
  PROVE  DigitsValue(Digits(n, base), base) = n
<1> DEFINE Bad == {k \in Nat : DigitsValue(Digits(k, base), base) # k}
<1> SUFFICES ASSUME Bad # {} PROVE FALSE
  OBVIOUS
<1>1. PICK k \in Bad : \A j \in Bad : k <= j
  <2>1. Bad \subseteq Nat
    OBVIOUS
  <2> HIDE DEF Bad
  <2> QED
    BY <2>1, LeastExists
<1>2. k \in Nat /\ DigitsValue(Digits(k, base), base) # k
  BY <1>1
<1> DEFINE r == k % base
           c == DigitChar[r + 1]
           q == k \div base
           d == IF k < base THEN <<>> ELSE Digits(q, base)
<1>3. /\ r \in 0..9 /\ q \in Nat /\ k = base * q + r
      /\ k < base => q = 0
      /\ ~ (k < base) => q < k
  <2>1. /\ k \div 8 \in Nat /\ k % 8 \in 0..9 /\ k % 8 = k - 8 * (k \div 8)
        /\ k < 8 => k \div 8 = 0
        /\ ~ (k < 8) => k \div 8 < k
    BY <1>2
  <2>2. /\ k \div 10 \in Nat /\ k % 10 \in 0..9 /\ k % 10 = k - 10 * (k \div 10)
        /\ k < 10 => k \div 10 = 0
        /\ ~ (k < 10) => k \div 10 < k
    BY <1>2
  <2>3. \A x \in Nat, y \in Nat : (y = k - 8 * x => k = 8 * x + y) /\ (y = k - 10 * x => k = 10 * x + y)
    BY <1>2
  <2>4. k % 8 \in Nat /\ k % 10 \in Nat
    BY <1>2
  <2>5. CASE base = 8
    BY <2>1, <2>3, <2>4, <2>5, Zenon
  <2>6. CASE base = 10
    BY <2>2, <2>3, <2>4, <2>6, Zenon
  <2> QED
    BY <2>5, <2>6 DEF Bases
<1>4. c \in Digit /\ DigitOf(c) = r
  BY <1>3, DigitFacts
<1>5. Digits(k, base) = d \o <<c>>
  BY <1>2, DigitsIs
<1>6. d \in Seq(Digit) /\ DigitsValue(d, base) = q
  <2>1. CASE k < base
    <3>1. <<>> \in Seq(Digit)
      OBVIOUS
    <3> QED
      BY <1>3, <1>4, <2>1, <3>1, DigitsValueRec
  <2>2. CASE ~ (k < base)
    <3>1. Digits(q, base) \in Seq(Digit)
      BY <1>3, DigitsType
    <3>2. q \notin Bad
      BY <1>1, <1>2, <1>3, <2>2
    <3> QED
      BY <1>3, <2>2, <3>1, <3>2
  <2> QED
    BY <2>1, <2>2
<1> HIDE DEF c, d, q, r
<1>7. DigitsValue(Digits(k, base), base) = q * base + r
  BY <1>4, <1>5, <1>6, DigitsValueRec
<1>8. q * base = base * q
  BY <1>3 DEF Bases
<1> QED
  BY <1>2, <1>3, <1>7, <1>8

-----------------------------------------------------------------------------
(* Nodes                                                                    *)

(* The way to a node on one of the first levels, step by step.              *)
LEMMA NodeAtIs ==
  ASSUME NEW node, NEW path, IsSeq(path), Len(path) <= 3
  PROVE  /\ Len(path) = 0 => NodeAt(node, path) = node
         /\ Len(path) = 1 => NodeAt(node, path) = node.kids[path[1]]
         /\ Len(path) = 2 => NodeAt(node, path) = node.kids[path[1]].kids[path[2]]
         /\ Len(path) = 3 => NodeAt(node, path) = node.kids[path[1]].kids[path[2]].kids[path[3]]
<1>1. Len(path) \in 0..3
  <2>1. Len(path) \in Nat
    BY SeqFacts
  <2>2. \A n \in Nat : n <= 3 => n \in 0..3
    OBVIOUS
  <2> QED
    BY <2>1, <2>2
<1> DEFINE Unfolds(at) == at = [n \in 0..Len(path) |->
                                  IF n = 0 THEN node ELSE at[n - 1].kids[path[n]]]
           one   == node.kids[path[1]]
           two   == one.kids[path[2]]
           three == two.kids[path[3]]
           f == [n \in 0..Len(path) |-> IF n = 0 THEN node ELSE IF n = 1 THEN one
                                        ELSE IF n = 2 THEN two ELSE three]
           at == CHOOSE g : Unfolds(g)
<1>2. Unfolds(f)
  <2> SUFFICES ASSUME NEW n \in 0..Len(path)
               PROVE  f[n] = IF n = 0 THEN node ELSE f[n - 1].kids[path[n]]
    BY Zenon
  <2>1. n \in {0, 1, 2, 3}
    BY <1>1
  <2> HIDE DEF one, two, three
  <2>2. CASE n = 0
    BY <2>2
  <2>3. CASE n = 1
    BY <1>1, <2>3 DEF one
  <2>4. CASE n = 2
    BY <1>1, <2>4 DEF two
  <2>5. CASE n = 3
    BY <1>1, <2>5 DEF three
  <2> QED
    BY <2>1, <2>2, <2>3, <2>4, <2>5
<1>3. Unfolds(at)
  <2> HIDE DEF Unfolds, f
  <2> QED
    BY <1>2
<1>4. NodeAt(node, path) = at[Len(path)]
  BY DEF NodeAt
<1> HIDE DEF at, f
<1>5. at[0] = node
  BY <1>1, <1>3
<1>6. Len(path) >= 1 => at[1] = one
  BY <1>1, <1>3, <1>5
<1>7. Len(path) >= 2 => at[2] = two
  BY <1>1, <1>3, <1>6
<1>8. Len(path) >= 3 => at[3] = three
  BY <1>1, <1>3, <1>7
<1> QED
  BY <1>1, <1>4, <1>5, <1>6, <1>7, <1>8

-----------------------------------------------------------------------------
(* Integers in texts                                                        *)

LEMMA WrappedIs ==
  ASSUME NEW n \in Integer
  PROVE  Wrapped(n) = n /\ n \in Int /\ Whole(n) = [float |-> FALSE, p |-> n, q |-> 1]
<1> DEFINE P == 2 ^ (Width - 1)
<1>1. P \in Int
  BY NumberAssumption
<1>2. MinInt = -P /\ MaxInt = P - 1
  BY DEF MinInt, MaxInt
<1>3. MaxInt >= 63
  <2>1. MaxInt \in Int
    BY <1>1, <1>2
  <2> QED
    BY <2>1, FileAssumption DEF DefaultMode
<1> HIDE DEF P
<1>4. P \in Nat /\ P >= 64
  BY <1>1, <1>2, <1>3
<1>5. n \in Int /\ -P <= n /\ n <= P - 1
  BY <1>2, <1>4 DEF Integer
<1> DEFINE x == n + P
           m == 2 * P
<1>6. x \in Nat /\ m \in Nat /\ x < m
  BY <1>4, <1>5
<1>7. x % m = x
  <2> HIDE DEF x, m
  <2> QED
    BY <1>6
<1>8. n - MinInt = x /\ MaxInt - MinInt + 1 = m
  BY <1>2, <1>4, <1>5
<1>9. Wrapped(n) = x + MinInt
  BY <1>7, <1>8 DEF Wrapped
<1>10. x + MinInt = n
  BY <1>2, <1>4, <1>5
<1> QED
  BY <1>5, <1>9, <1>10 DEF Whole

LEMMA IntegerFacts ==
  /\ Integer \subseteq Int /\ Identifier \subseteq Integer /\ Mode \subseteq Integer
  /\ MinInt \in Integer /\ MaxInt \in Integer /\ -1 \in Identifier /\ DefaultMode \in Mode
  /\ Whole(0) = [float |-> FALSE, p |-> 0, q |-> 1]
<1> DEFINE P == 2 ^ (Width - 1)
<1>1. P \in Int
  BY NumberAssumption
<1>2. MinInt = -P /\ MaxInt = P - 1
  BY DEF MinInt, MaxInt
<1>3. MaxInt >= 63
  <2>1. MaxInt \in Int
    BY <1>1, <1>2
  <2> QED
    BY <2>1, FileAssumption DEF DefaultMode
<1> HIDE DEF P
<1>4. /\ Integer \subseteq Int /\ Identifier \subseteq Integer /\ Mode \subseteq Integer
      /\ MinInt \in Integer /\ MaxInt \in Integer /\ -1 \in Identifier /\ DefaultMode \in Mode
      /\ 0 \in Integer
  BY <1>1, <1>2, <1>3 DEF Integer, Identifier, Mode, DefaultMode
<1> QED
  BY <1>4, WrappedIs

(* A sequence with an element before it.                                    *)
LEMMA Preceded ==
  ASSUME NEW S, NEW s \in Seq(S), NEW c \in S
  PROVE  /\ <<c>> \o s \in Seq(S) /\ Len(s) \in Nat /\ Len(<<c>> \o s) = Len(s) + 1
         /\ (<<c>> \o s)[1] = c
         /\ \A i \in 1..Len(s) : (<<c>> \o s)[i + 1] = s[i]
         /\ Tail(<<c>> \o s) = s
<1> DEFINE t == <<c>> \o s
           one == <<c>>
<1>1. one \in Seq(S) /\ Len(one) = 1 /\ one[1] = c
  OBVIOUS
<1> HIDE DEF one
<1>2. /\ one \o s \in Seq(S) /\ Len(one \o s) = 1 + Len(s)
      /\ \A i \in 1..(1 + Len(s)) : (one \o s)[i] = IF i <= 1 THEN one[i] ELSE s[i - 1]
  <2>1. /\ one \o s \in Seq(S) /\ Len(one \o s) = Len(one) + Len(s)
        /\ \A i \in 1..(Len(one) + Len(s)) :
             (one \o s)[i] = IF i <= Len(one) THEN one[i] ELSE s[i - Len(one)]
    BY <1>1, ConcatProperties
  <2> QED
    BY <1>1, <2>1
<1>3. Len(s) \in Nat
  BY LenProperties
<1>4. t = one \o s
  BY DEF one
<1> HIDE DEF t
<1>5. t \in Seq(S) /\ Len(t) = Len(s) + 1 /\ t[1] = c
  BY <1>1, <1>2, <1>3, <1>4
<1>6. \A i \in 1..Len(s) : t[i + 1] = s[i]
  <2> TAKE i \in 1..Len(s)
  <2>1. i + 1 \in 1..(1 + Len(s)) /\ ~ (i + 1 <= 1) /\ (i + 1) - 1 = i
    BY <1>3
  <2>2. t[i + 1] = s[(i + 1) - 1]
    BY <1>2, <1>4, <2>1
  <2> QED
    BY <2>1, <2>2
<1>7. Tail(t) = s
  <2>1. t # <<>>
    BY <1>3, <1>5, EmptySeq
  <2>2. /\ Tail(t) \in Seq(S) /\ Len(Tail(t)) = Len(t) - 1
        /\ \A i \in 1..Len(Tail(t)) : Tail(t)[i] = t[i + 1]
    BY <1>5, <2>1, HeadTailProperties
  <2>3. Len(Tail(t)) = Len(s)
    BY <1>3, <1>5, <2>2
  <2>4. \A i \in 1..Len(Tail(t)) : Tail(t)[i] = s[i]
    BY <1>6, <2>2, <2>3
  <2> QED
    BY <2>2, <2>3, <2>4, SeqEqual
<1> QED
  BY <1>3, <1>5, <1>6, <1>7 DEF t

LEMMA DigitTexts ==
  ASSUME NEW d \in Seq(Digit)
  PROVE  /\ d \in Seq(Digit \cup {"-"}) /\ Len(d) \in Nat /\ IsSeq(d)
         /\ \A i \in 1..Len(d) : d[i] \in Digit /\ d[i] \notin Whitespace /\ d[i] # "-" /\ d[i] # "."
         /\ ~ Contains(d, ".")
<1>2. d \in Seq(Digit \cup {"-"})
  BY SeqMonotonic
<1>3. Len(d) \in Nat /\ \A i \in 1..Len(d) : d[i] \in Digit
  BY LenProperties, ElementOfSeq
<1>4. \A c \in Digit : c \notin Whitespace /\ c # "-" /\ c # "."
  BY DEF Digit, Whitespace
<1> QED
  BY <1>2, <1>3, <1>4 DEF IsSeq, Contains

(* Digits, and digits behind a minus sign, are a number.                    *)
Clipped(n) == IF n > MaxInt THEN MaxInt ELSE IF n < MinInt THEN MinInt ELSE n
BaseOf(d) == IF d[1] = "0" THEN 8 ELSE 10

LEMMA NumberOfDigits ==
  ASSUME NEW d \in Seq(Digit), Len(d) # 0
  PROVE  /\ IsNumber(d) /\ NumberOf(d) = Whole(Clipped(1 * DigitsValue(d, BaseOf(d))))
         /\ IsNumber(<<"-">> \o d)
         /\ NumberOf(<<"-">> \o d) = Whole(Clipped((-1) * DigitsValue(d, BaseOf(d))))
<1> DEFINE t == <<"-">> \o d
<1>1. /\ d \in Seq(Digit \cup {"-"}) /\ Len(d) \in Nat \ {0}
      /\ d[1] \in Digit /\ d[1] # "-" /\ ~ Contains(d, ".")
  BY DigitTexts
<1>2. t \in Seq(Digit \cup {"-"}) /\ Len(t) = Len(d) + 1 /\ t[1] = "-" /\ t[2] = d[1] /\ Tail(t) = d
  <2>1. 1 \in 1..Len(d) /\ 1 + 1 = 2 /\ "-" \in Digit \cup {"-"}
    BY <1>1
  <2> QED
    BY <1>1, <2>1, Preceded
<1> HIDE DEF t
<1>3. CharAt(d, 1) = d[1] /\ CharAt(t, 1) = "-" /\ CharAt(t, 2) = d[1]
  BY <1>1, <1>2 DEF CharAt
<1>4. IsNumber(d) /\ IsNumber(t)
  BY <1>1, <1>3 DEF IsNumber
<1>5. Unsigned(d) = d /\ Unsigned(t) = d
  BY <1>1, <1>2, <1>3 DEF Unsigned
<1>6. Octal(d) = (d[1] = "0")
  BY <1>3 DEF Octal
<1>7. NumberOf(d) = Whole(Clipped(1 * DigitsValue(d, BaseOf(d))))
  BY <1>1, <1>3, <1>5, <1>6 DEF NumberOf, Clipped, BaseOf
<1>8. NumberOf(t) = Whole(Clipped((-1) * DigitsValue(d, BaseOf(d))))
  BY <1>1, <1>3, <1>5, <1>6 DEF NumberOf, Clipped, BaseOf
<1> QED
  BY <1>4, <1>7, <1>8 DEF t

LEMMA ClippedType ==
  ASSUME NEW n \in Int
  PROVE  Clipped(n) \in Integer /\ (n \in Integer => Clipped(n) = n)
<1>1. MinInt \in Integer /\ MaxInt \in Integer /\ Integer \subseteq Int
  BY IntegerFacts
<1>2. MinInt \in Int /\ MaxInt \in Int
  BY <1>1
<1> QED
  BY <1>1, <1>2 DEF Clipped, Integer

(* What strtol() makes of a text is a long int ...                          *)
LEMMA IntegerOfType ==
  ASSUME NEW text, IsSeq(text)
  PROVE  IntegerOf(text) \in Integer
<1> DEFINE from   == FirstNotIn(text, 1, Whitespace)
           digits == IF CharAt(text, from) = "-" THEN from + 1 ELSE from
           after  == FirstNotIn(text, digits, Digit)
           number == SubSeq(text, from, after - 1)
           d      == SubSeq(text, digits, after - 1)
<1>1. PICK S : text \in Seq(S)
  BY DEF IsSeq
<1>2. Len(text) \in Nat
  BY SeqFacts
<1>3. from \in 1..(Len(text) + 1)
  <2>1. 1 \in 1..(Len(text) + 1)
    BY <1>2
  <2> QED
    BY <2>1, FirstNotInExists
<1> HIDE DEF from
<1>4. digits \in from..(Len(text) + 1) /\ (digits = from \/ digits = from + 1)
  <2>1. CharAt(text, from) = "-" => from <= Len(text)
    BY <1>2, <1>3 DEF CharAt
  <2> QED
    BY <1>2, <1>3, <2>1
<1>5. digits # from => from <= Len(text) /\ text[from] = "-"
  BY <1>2, <1>3, <1>4 DEF CharAt
<1> HIDE DEF digits
<1>6. after \in digits..(Len(text) + 1) /\ \A o \in digits..(after - 1) : text[o] \in Digit
  <2>1. digits \in 1..(Len(text) + 1)
    BY <1>2, <1>3, <1>4
  <2> QED
    BY <2>1, FirstNotInExists
<1> HIDE DEF after
<1>7. d \in Seq(Digit) /\ (d = <<>> \/ Len(d) # 0)
  <2>1. digits \in Int /\ after - 1 \in Int
    BY <1>2, <1>3, <1>4, <1>6
  <2>2. d \in Seq(Digit)
    BY <1>6, <2>1, SubSeqProperties
  <2> QED
    BY <2>2, EmptySeq
<1>8. number = d \/ (digits = from + 1 /\ number = <<"-">> \o d)
  <2>1. CASE digits = from
    BY <2>1
  <2>2. CASE digits # from
    <3>1. from \in 1..Len(text) /\ after - 1 \in from..Len(text) /\ digits = from + 1
      BY <1>2, <1>3, <1>4, <1>5, <1>6, <2>2
    <3>2. number = <<text[from]>> \o SubSeq(text, from + 1, after - 1)
      BY <1>1, <3>1, SubSeqRecursiveFirst
    <3> QED
      BY <1>5, <2>2, <3>1, <3>2
  <2> QED
    BY <2>1, <2>2
<1> HIDE DEF d, number
<1>9. IsNumber(number) => NumberOf(number).p \in Integer
  <2> SUFFICES ASSUME IsNumber(number) PROVE NumberOf(number).p \in Integer
    OBVIOUS
  <2>1. Len(d) # 0
    <3> SUFFICES ASSUME d = <<>> PROVE FALSE
      BY <1>7
    <3>1. number = <<>> \/ number = <<"-">>
      <4>1. <<"-">> \in Seq({"-"})
        OBVIOUS
      <4>2. <<"-">> \o <<>> = <<"-">>
        BY <4>1, ConcatEmptySeq
      <4> QED
        BY <1>8, <4>2
    <3>2. CASE number = <<>>
      <4>1. Len(<<>>) = 0
        OBVIOUS
      <4> QED
        BY <3>2, <4>1 DEF IsNumber, CharAt, Digit
    <3>3. CASE number = <<"-">>
      <4>1. Len(<<"-">>) = 1 /\ <<"-">>[1] = "-"
        OBVIOUS
      <4> QED
        BY <3>3, <4>1 DEF IsNumber, CharAt, Digit
    <3> QED
      BY <3>1, <3>2, <3>3
  <2> DEFINE v == DigitsValue(d, BaseOf(d))
  <2>2. v \in Nat
    <3>1. BaseOf(d) \in Bases
      BY DEF BaseOf, Bases
    <3> QED
      BY <1>7, <3>1, DigitsValueType
  <2>3. NumberOf(number) = Whole(Clipped(1 * v)) \/ NumberOf(number) = Whole(Clipped((-1) * v))
    BY <1>7, <1>8, <2>1, NumberOfDigits
  <2> HIDE DEF v
  <2>4. 1 * v \in Int /\ (-1) * v \in Int
    BY <2>2
  <2>5. PICK n \in Integer : NumberOf(number) = Whole(n)
    BY <2>3, <2>4, ClippedType
  <2> QED
    BY <2>5, WrappedIs
<1>10. 0 \in Integer
  <2>1. /\ Identifier \subseteq Integer /\ Mode \subseteq Integer /\ MaxInt \in Int
        /\ DefaultMode \in Mode
    BY IntegerFacts
  <2> QED
    BY <2>1 DEF Mode, DefaultMode
<1>11. IntegerOf(text) = IF IsNumber(number) THEN NumberOf(number).p ELSE 0
  BY DEF IntegerOf, number, after, digits, from
<1> QED
  BY <1>9, <1>10, <1>11

(* ... and all of a text that is a number.                                  *)
LEMMA IntegerOfNumber ==
  ASSUME NEW d \in Seq(Digit), Len(d) # 0, NEW text, text = d \/ text = <<"-">> \o d
  PROVE  IntegerOf(text) = NumberOf(text).p
<1>1. /\ d \in Seq(Digit \cup {"-"}) /\ Len(d) \in Nat \ {0}
      /\ \A i \in 1..Len(d) : d[i] \in Digit /\ d[i] \notin Whitespace /\ d[i] # "-"
  BY DigitTexts
<1>2. IsNumber(text)
  BY NumberOfDigits
<1> DEFINE first == IF text = d THEN 1 ELSE 2
<1>3. /\ text \in Seq(Digit \cup {"-"}) /\ Len(text) \in Nat /\ IsSeq(text)
      /\ first <= Len(text) /\ first = (IF text[1] = "-" THEN 2 ELSE 1)
      /\ text[1] \notin Whitespace
      /\ \A o \in first..Len(text) : text[o] \in Digit
  <2>1. CASE text = d
    <3>1. 1 \in 1..Len(d)
      BY <1>1
    <3> QED
      BY <1>1, <2>1, <3>1 DEF IsSeq
  <2>2. CASE text # d
    <3>1. "-" \in Digit \cup {"-"} /\ "-" \notin Whitespace
      BY DEF Whitespace
    <3>2. /\ text \in Seq(Digit \cup {"-"}) /\ Len(text) = Len(d) + 1 /\ text[1] = "-"
          /\ \A i \in 1..Len(d) : text[i + 1] = d[i]
      <4>1. text = <<"-">> \o d
        BY <2>2
      <4>2. /\ <<"-">> \o d \in Seq(Digit \cup {"-"}) /\ Len(<<"-">> \o d) = Len(d) + 1
            /\ (<<"-">> \o d)[1] = "-"
            /\ \A i \in 1..Len(d) : (<<"-">> \o d)[i + 1] = d[i]
        BY <1>1, <3>1, Preceded
      <4> QED
        BY <4>1, <4>2
    <3>3. \A o \in 2..Len(text) : text[o] \in Digit
      <4> TAKE o \in 2..Len(text)
      <4>1. o - 1 \in 1..Len(d) /\ (o - 1) + 1 = o
        BY <1>1, <3>2
      <4>2. text[(o - 1) + 1] = d[o - 1]
        BY <3>2, <4>1
      <4> QED
        BY <1>1, <4>1, <4>2
    <3> QED
      BY <1>1, <2>2, <3>1, <3>2, <3>3 DEF IsSeq
  <2> QED
    BY <2>1, <2>2
<1> HIDE DEF first
<1>4. first \in {1, 2}
  BY <1>3
<1>5. FirstNotIn(text, 1, Whitespace) = 1
  <2>1. 1 \in 1..(Len(text) + 1)
    BY <1>3
  <2>2. \A o \in 1..(1 - 1) : text[o] \in Whitespace
    OBVIOUS
  <2> QED
    BY <1>3, <2>1, <2>2, FirstNotInIs
<1>6. (IF CharAt(text, 1) = "-" THEN 1 + 1 ELSE 1) = first
  BY <1>3, <1>4 DEF CharAt
<1>7. FirstNotIn(text, first, Digit) = Len(text) + 1
  <2>1. first \in 1..(Len(text) + 1) /\ Len(text) + 1 \in first..(Len(text) + 1)
    BY <1>3, <1>4
  <2>2. ~ (Len(text) + 1 <= Len(text)) /\ (Len(text) + 1) - 1 = Len(text)
    BY <1>3
  <2> QED
    BY <1>3, <2>1, <2>2, FirstNotInIs, Zenon
<1>8. SubSeq(text, 1, (Len(text) + 1) - 1) = text
  <2>1. (Len(text) + 1) - 1 = Len(text)
    BY <1>3
  <2> QED
    BY <1>3, <2>1, SubSeqFull, Zenon
<1> QED
  BY <1>2, <1>5, <1>6, <1>7, <1>8, Zenon DEF IntegerOf

(* A zero before digits changes nothing.                                    *)
LEMMA LeadingZero ==
  ASSUME NEW d \in Seq(Digit), NEW base \in Bases
  PROVE  DigitsValue(<<"0">> \o d, base) = DigitsValue(d, base)
<1> DEFINE e == <<"0">> \o d
           n == Len(d)
<1>1. "0" \in Digit
  BY DEF Digit
<1>2. /\ e \in Seq(Digit) /\ n \in Nat /\ Len(e) = n + 1 /\ e[1] = "0"
      /\ \A i \in 1..n : e[i + 1] = d[i]
  BY <1>1, Preceded
<1> HIDE DEF e, n
<1>3. IsSeq(d) /\ IsSeq(e)
  BY <1>2 DEF IsSeq
<1>4. PICK f : ValueTo(d, base, n, f) /\ DigitsValue(d, base) = f[n]
  BY <1>3, DigitsValueIs DEF n
<1>5. PICK g : ValueTo(e, base, n + 1, g) /\ DigitsValue(e, base) = g[n + 1]
  BY <1>2, <1>3, DigitsValueIs
<1> DEFINE Bad == {m \in 0..n : f[m] # g[m + 1]}
<1>6. Bad = {}
  <2> SUFFICES ASSUME Bad # {} PROVE FALSE
    OBVIOUS
  <2>1. PICK m \in Bad : \A j \in Bad : m <= j
    <3>1. Bad \subseteq Nat
      BY <1>2
    <3> HIDE DEF Bad
    <3> QED
      BY <3>1, LeastExists
  <2>2. m \in 0..n /\ f[m] # g[m + 1]
    BY <2>1
  <2>3. f[m] = IF m = 0 THEN 0 ELSE f[m - 1] * base + DigitOf(d[m])
    BY <1>4, <2>2 DEF ValueTo
  <2>4. g[m + 1] = g[m] * base + DigitOf(e[m + 1])
    <3> HIDE DEF Bad
    <3>1. m \in 0..n /\ n \in Nat
      BY <1>2, <2>2
    <3>2. m + 1 \in 0..(n + 1) /\ m + 1 # 0 /\ (m + 1) - 1 = m
      BY <3>1
    <3> QED
      BY <1>5, <3>2 DEF ValueTo
  <2>5. CASE m = 0
    <3>1. g[0] = 0
      <4>1. 0 \in 0..(n + 1)
        BY <1>2
      <4> QED
        BY <1>5, <4>1 DEF ValueTo
    <3>2. DigitOf("0") = 0
      <4>1. DigitChar[0 + 1] = "0"
        BY DEF DigitChar
      <4>2. 0 \in 0..9
        OBVIOUS
      <4> QED
        BY <4>1, <4>2, DigitFacts
    <3>3. g[m + 1] = 0 * base + 0
      BY <1>2, <2>4, <2>5, <3>1, <3>2
    <3> QED
      BY <2>2, <2>3, <2>5, <3>3 DEF Bases
  <2>6. CASE m # 0
    <3>1. m - 1 \in 0..n /\ m - 1 < m /\ m \in 1..n /\ (m - 1) + 1 = m
      BY <1>2, <2>2, <2>6
    <3>2. f[m - 1] = g[m]
      <4>1. ~ (m <= m - 1)
        BY <3>1
      <4>2. m - 1 \notin Bad
        BY <2>1, <4>1
      <4> QED
        BY <3>1, <4>2
    <3>3. d[m] = e[m + 1]
      BY <1>2, <3>1
    <3> QED
      BY <2>2, <2>3, <2>4, <2>6, <3>2, <3>3
  <2> QED
    BY <2>5, <2>6
<1>7. f[n] = g[n + 1]
  <2>1. n \in 0..n
    BY <1>2
  <2> QED
    BY <1>6, <2>1
<1> QED
  BY <1>4, <1>5, <1>7 DEF e

(* An integer is read as it was written, ...                                *)
LEMMA IntegerTextRead ==
  ASSUME NEW n \in Integer
  PROVE  IsSeq(IntegerText(n)) /\ IntegerOf(IntegerText(n)) = n
<1>1. n \in Int
  BY IntegerFacts
<1> DEFINE d == Digits(Abs(n), 10)
<1>2. Abs(n) \in Nat
  BY <1>1 DEF Abs
<1>3. /\ d \in Seq(Digit) /\ Len(d) \in Nat \ {0} /\ (Abs(n) # 0 => d[1] # "0")
      /\ DigitsValue(d, 10) = Abs(n)
  <2>1. 10 \in Bases
    BY DEF Bases
  <2> QED
    BY <1>2, <2>1, DigitsType, DigitsStandFor
<1>4. IntegerText(n) = (IF n < 0 THEN <<"-">> ELSE <<>>) \o d
  <2>1. Whole(0) = [float |-> FALSE, p |-> 0, q |-> 1]
    BY IntegerFacts
  <2> DEFINE w == [Whole(0) EXCEPT !.p = n]
  <2>2. w.float = FALSE /\ w.p = n
    BY <2>1
  <2> HIDE DEF w
  <2>3. NumberText(w) = (IF n < 0 THEN <<"-">> ELSE <<>>) \o d
    BY <2>2 DEF NumberText
  <2> QED
    BY <2>3 DEF IntegerText, w
<1> HIDE DEF d
<1>5. IntegerText(n) = IF n < 0 THEN <<"-">> \o d ELSE d
  <2>1. <<>> \o d = d
    BY <1>3, ConcatEmptySeq
  <2> QED
    BY <1>4, <2>1
<1>6. IsSeq(IntegerText(n))
  <2>1. d \in Seq(Digit \cup {"-"})
    BY <1>3, DigitTexts
  <2>2. <<"-">> \o d \in Seq(Digit \cup {"-"})
    BY <2>1, Preceded
  <2> QED
    BY <1>5, <2>1, <2>2 DEF IsSeq
<1>7. DigitsValue(d, BaseOf(d)) = Abs(n)
  <2>1. CASE d[1] # "0"
    BY <1>3, <2>1 DEF BaseOf
  <2>2. CASE d[1] = "0"
    <3>1. n = 0 /\ Abs(n) = 0
      BY <1>1, <1>3, <2>2 DEF Abs
    <3>2. d = <<"0">>
      <4>1. 10 \in Bases /\ 0 \in Nat /\ 0 < 10 /\ 0 % 10 = 0
        BY DEF Bases
      <4>2. Digits(0, 10) = <<>> \o <<DigitChar[0 + 1]>>
        BY <4>1, DigitsIs
      <4>3. DigitChar[0 + 1] = "0"
        BY DEF DigitChar
      <4>4. <<>> \o <<"0">> = <<"0">>
        <5>1. <<"0">> \in Seq({"0"})
          OBVIOUS
        <5> QED
          BY <5>1, ConcatEmptySeq
      <4> QED
        BY <3>1, <4>2, <4>3, <4>4 DEF d
    <3>3. DigitsValue(<<"0">>, 8) = 0
      <4>1. <<>> \in Seq(Digit) /\ 8 \in Bases
        BY DEF Bases
      <4>2. <<"0">> \o <<>> = <<"0">>
        <5>1. <<"0">> \in Seq({"0"})
          OBVIOUS
        <5> QED
          BY <5>1, ConcatEmptySeq
      <4>3. DigitsValue(<<"0">> \o <<>>, 8) = DigitsValue(<<>>, 8)
        BY <4>1, LeadingZero
      <4>4. "0" \in Digit
        BY DEF Digit
      <4>5. DigitsValue(<<>>, 8) = 0
        BY <4>1, <4>4, DigitsValueRec
      <4> QED
        BY <4>2, <4>3, <4>5
    <3> QED
      BY <2>2, <3>1, <3>2, <3>3 DEF BaseOf
  <2> QED
    BY <2>1, <2>2
<1>8. NumberOf(IntegerText(n)) = Whole(Clipped(n))
  <2>1. CASE n < 0
    <3>1. (-1) * Abs(n) = n
      BY <1>1, <2>1 DEF Abs
    <3> QED
      BY <1>3, <1>5, <1>7, <2>1, <3>1, NumberOfDigits
  <2>2. CASE ~ (n < 0)
    <3>1. 1 * Abs(n) = n
      BY <1>1, <2>2 DEF Abs
    <3> QED
      BY <1>3, <1>5, <1>7, <2>2, <3>1, NumberOfDigits
  <2> QED
    BY <2>1, <2>2
<1>9. NumberOf(IntegerText(n)).p = n
  BY <1>1, <1>8, ClippedType, WrappedIs
<1>10. IntegerOf(IntegerText(n)) = NumberOf(IntegerText(n)).p
  BY <1>3, <1>5, IntegerOfNumber
<1> QED
  BY <1>6, <1>9, <1>10

(* ... in octal as well.                                                    *)
LEMMA OctalTextRead ==
  ASSUME NEW n \in Mode
  PROVE  IsSeq(OctalText(n)) /\ IntegerOf(OctalText(n)) = n
<1>1. n \in Nat /\ n \in Integer
  <2>1. Mode \subseteq Integer /\ MaxInt \in Int
    BY IntegerFacts
  <2> QED
    BY <2>1 DEF Mode
<1> DEFINE d == Digits(n, 8)
<1>2. /\ d \in Seq(Digit) /\ Len(d) \in Nat \ {0}
      /\ DigitsValue(d, 8) = n
  <2>1. 8 \in Bases
    BY DEF Bases
  <2> QED
    BY <1>1, <2>1, DigitsType, DigitsStandFor
<1> HIDE DEF d
<1>3. PICK e \in Seq(Digit) : OctalText(n) = <<"0">> \o e /\ DigitsValue(e, 8) = n
  <2>1. CASE n = 0
    <3>1. <<>> \in Seq(Digit) /\ 8 \in Bases /\ "0" \in Digit
      BY DEF Bases, Digit
    <3>2. <<"0">> \o <<>> = <<"0">>
      <4>1. <<"0">> \in Seq({"0"})
        OBVIOUS
      <4> QED
        BY <4>1, ConcatEmptySeq
    <3>3. DigitsValue(<<>>, 8) = 0
      BY <3>1, DigitsValueRec
    <3> QED
      BY <2>1, <3>1, <3>2, <3>3 DEF OctalText
  <2>2. CASE n # 0
    BY <1>2, <2>2 DEF OctalText, d
  <2> QED
    BY <2>1, <2>2
<1> DEFINE t == <<"0">> \o e
<1>4. t \in Seq(Digit) /\ Len(t) # 0 /\ t[1] = "0" /\ IsSeq(t)
  <2>1. "0" \in Digit
    BY DEF Digit
  <2>2. t \in Seq(Digit) /\ Len(t) = Len(e) + 1 /\ Len(e) \in Nat /\ t[1] = "0"
    BY <2>1, Preceded
  <2> HIDE DEF t
  <2> QED
    BY <2>2 DEF IsSeq
<1>5. DigitsValue(t, 8) = n
  <2>1. 8 \in Bases
    BY DEF Bases
  <2> QED
    BY <1>3, <2>1, LeadingZero
<1> HIDE DEF t
<1>6. NumberOf(t) = Whole(Clipped(n))
  <2>1. 1 * n = n /\ BaseOf(t) = 8
    BY <1>1, <1>4 DEF BaseOf
  <2> QED
    BY <1>4, <1>5, <2>1, NumberOfDigits
<1>7. NumberOf(t).p = n
  BY <1>1, <1>6, ClippedType, WrappedIs
<1>8. IntegerOf(t) = NumberOf(t).p
  BY <1>4, IntegerOfNumber
<1> QED
  BY <1>3, <1>4, <1>7, <1>8 DEF t

-----------------------------------------------------------------------------
(* Texts with one space between their words                                 *)

(* None before the first word, but perhaps one after the last.              *)
Tidy(t) ==
  /\ IsSeq(t)
  /\ t # <<>> => t[1] \notin Whitespace
  /\ \A i \in 1..Len(t) : t[i] \in Whitespace =>
       t[i] = "sp" /\ (i < Len(t) => t[i + 1] \notin Whitespace)

LEMMA AppendFacts ==
  ASSUME NEW t, IsSeq(t), NEW c
  PROVE  /\ IsSeq(Append(t, c)) /\ Len(t) \in Nat
         /\ Len(Append(t, c)) = Len(t) + 1 /\ Append(t, c) # <<>>
         /\ Append(t, c)[Len(t) + 1] = c
         /\ \A i \in 1..Len(t) : Append(t, c)[i] = t[i]
<1>1. PICK S : t \in Seq(S)
  BY DEF IsSeq
<1>2. t \in Seq(S \cup {c})
  BY <1>1, SeqMonotonic
<1>3. c \in S \cup {c}
  OBVIOUS
<1>4. Append(t, c) \in Seq(S \cup {c})
  BY <1>2, <1>3, AppendProperties
<1>5. IsSeq(Append(t, c))
  BY <1>4 DEF IsSeq
<1>6. Len(t) \in Nat
  BY SeqFacts
<1> QED
  BY <1>2, <1>3, <1>5, <1>6, AppendProperties

(* The beginning of a text.                                                 *)
LEMMA CutFacts ==
  ASSUME NEW t, IsSeq(t), NEW n \in 0..Len(t)
  PROVE  LET u == SubSeq(t, 1, n)
         IN /\ IsSeq(u) /\ Len(u) = n /\ Len(t) \in Nat /\ n \in Nat
            /\ \A i \in 1..n : u[i] = t[i]
<1>1. Len(t) \in Nat /\ DOMAIN t = 1..Len(t) /\ t \in Seq({t[i] : i \in 1..Len(t)})
  BY SeqFacts
<1> DEFINE S == {t[i] : i \in 1..Len(t)}
           u == SubSeq(t, 1, n)
<1>2. \A i \in 1..n : t[i] \in S
  BY <1>1
<1> HIDE DEF S
<1>3. n \in Nat
  BY <1>1
<1>4. /\ u \in Seq(S) /\ Len(u) = IF 1 <= n THEN n - 1 + 1 ELSE 0
      /\ \A i \in 1..(n - 1 + 1) : u[i] = t[1 + i - 1]
  BY <1>2, <1>3, SubSeqProperties
<1>5. n - 1 + 1 = n /\ \A i \in 1..n : 1 + i - 1 = i
  <2>1. \A m \in Nat : m - 1 + 1 = m /\ \A i \in 1..m : 1 + i - 1 = i
    OBVIOUS
  <2> QED
    BY <1>3, <2>1
<1> HIDE DEF u
<1>6. Len(u) = n
  BY <1>3, <1>4, <1>5
<1>7. \A i \in 1..n : u[i] = t[i]
  BY <1>4, <1>5
<1> QED
  BY <1>1, <1>3, <1>4, <1>6, <1>7 DEF u, IsSeq

LEMMA TidyCut ==
  ASSUME NEW t, Tidy(t), NEW n \in 0..Len(t)
  PROVE  Tidy(SubSeq(t, 1, n))
<1> DEFINE u == SubSeq(t, 1, n)
<1>1. /\ IsSeq(u) /\ Len(u) = n /\ Len(t) \in Nat /\ n \in Nat
      /\ \A i \in 1..n : u[i] = t[i]
  BY CutFacts DEF Tidy
<1> HIDE DEF u
<1>2. u # <<>> => u[1] \notin Whitespace
  <2> SUFFICES ASSUME u # <<>> PROVE u[1] \notin Whitespace
    OBVIOUS
  <2>1. n # 0
    BY <1>1, EmptySeq DEF IsSeq
  <2>2. Len(t) # 0 /\ 1 \in 1..n
    BY <1>1, <2>1
  <2>3. t # <<>>
    <3>1. Len(<<>>) = 0
      OBVIOUS
    <3> QED
      BY <2>2, <3>1
  <2> QED
    BY <1>1, <2>2, <2>3 DEF Tidy
<1>3. ASSUME NEW i \in 1..n, u[i] \in Whitespace
      PROVE  u[i] = "sp" /\ (i < n => u[i + 1] \notin Whitespace)
  <2>1. i \in 1..Len(t) /\ u[i] = t[i] /\ (i < n => i + 1 \in 1..n /\ i < Len(t))
    BY <1>1
  <2> QED
    BY <1>1, <1>3, <2>1 DEF Tidy
<1> QED
  BY <1>1, <1>2, <1>3 DEF u, Tidy

LEMMA TidyMore ==
  ASSUME NEW t, Tidy(t), NEW c,
         c \notin Whitespace \/ (c = "sp" /\ t # <<>> /\ Last(t) # "sp")
  PROVE  Tidy(Append(t, c))
<1> DEFINE u == Append(t, c)
<1>0. PICK n \in Nat : n = Len(t)
  BY SeqFacts DEF Tidy
<1>1. /\ IsSeq(u) /\ n \in Nat /\ Len(u) = n + 1 /\ u # <<>> /\ u[n + 1] = c
      /\ \A i \in 1..n : u[i] = t[i]
  BY <1>0, AppendFacts DEF Tidy
<1>2. /\ t # <<>> => t[1] \notin Whitespace
      /\ \A i \in 1..n : t[i] \in Whitespace =>
           t[i] = "sp" /\ (i < n => t[i + 1] \notin Whitespace)
  BY <1>0 DEF Tidy
<1>3. (t = <<>> => n = 0) /\ (t # <<>> => n # 0)
  <2>1. Len(<<>>) = 0
    OBVIOUS
  <2> QED
    BY <1>0, <2>1, EmptySeq DEF Tidy, IsSeq
<1>4. c \notin Whitespace \/ (c = "sp" /\ t # <<>> /\ t[n] # "sp")
  BY <1>0 DEF Last
<1> HIDE DEF u
<1>5. u[1] \notin Whitespace
  <2>1. CASE t = <<>>
    BY <1>1, <1>3, <1>4, <2>1
  <2>2. CASE t # <<>>
    <3>1. 1 \in 1..n
      BY <1>1, <1>3, <2>2
    <3> QED
      BY <1>1, <1>2, <2>2, <3>1
  <2> QED
    BY <2>1, <2>2
<1>6. ASSUME NEW i \in 1..(n + 1), u[i] \in Whitespace
      PROVE  u[i] = "sp" /\ (i < n + 1 => u[i + 1] \notin Whitespace)
  <2>1. CASE i = n + 1
    BY <1>1, <1>4, <1>6, <2>1
  <2>2. CASE i # n + 1
    <3>1. i \in 1..n /\ u[i] = t[i]
      BY <1>1, <2>2
    <3>2. u[i] = "sp" /\ (i < n => t[i + 1] \notin Whitespace)
      BY <1>2, <1>6, <3>1
    <3>3. CASE i < n
      <4>1. i + 1 \in 1..n
        BY <1>1, <3>1, <3>3
      <4> QED
        BY <1>1, <3>2, <3>3, <4>1
    <3>4. CASE ~ (i < n)
      <4>1. i = n
        BY <1>1, <3>1, <3>4
      <4>2. c \notin Whitespace
        BY <1>4, <3>1, <3>2, <4>1
      <4> QED
        BY <1>1, <3>2, <4>1, <4>2
    <3> QED
      BY <3>3, <3>4
  <2> QED
    BY <2>1, <2>2
<1> QED
  BY <1>0, <1>1, <1>5, <1>6 DEF u, Tidy

(* How far a text is stripped.                                              *)
Respaced(t, c) ==
  IF c \notin Whitespace THEN Append(t, c)
  ELSE IF t = <<>> \/ Last(t) = "sp" THEN t ELSE Append(t, "sp")

SpacedTo(text, n, f) ==
  f = [m \in 0..n |-> IF m = 0 THEN <<>> ELSE Respaced(f[m - 1], text[m])]

(* ... and without the space at its end.                                    *)
Ended(t) == IF t # <<>> /\ Last(t) = "sp" THEN Front(t) ELSE t

LEMMA SpacedToExists ==
  ASSUME NEW text, NEW n \in Nat
  PROVE  \E f : SpacedTo(text, n, f)
<1> DEFINE Bad == {k \in Nat : ~ \E f : SpacedTo(text, k, f)}
<1> SUFFICES ASSUME Bad # {} PROVE FALSE
  OBVIOUS
<1>1. PICK k \in Bad : \A j \in Bad : k <= j
  <2>1. Bad \subseteq Nat
    OBVIOUS
  <2> HIDE DEF Bad
  <2> QED
    BY <2>1, LeastExists
<1>2. k \in Nat /\ ~ \E f : SpacedTo(text, k, f)
  BY <1>1
<1> DEFINE Step(m, f) == IF m = 0 THEN <<>> ELSE Respaced(f[m - 1], text[m])
<1>3. PICK f : k # 0 => SpacedTo(text, k - 1, f)
  <2>1. k # 0 => k - 1 \in Nat /\ ~(k <= k - 1)
    BY <1>2
  <2>2. k # 0 => k - 1 \notin Bad
    BY <1>1, <2>1, Zenon
  <2> QED
    BY <2>1, <2>2
<1> DEFINE g == [m \in 0..k |-> IF m = k THEN Step(k, f) ELSE f[m]]
<1>4. \A m \in 0..(k - 1) : f[m] = Step(m, f)
  BY <1>2, <1>3 DEF SpacedTo
<1>5. ASSUME NEW m \in 0..k
      PROVE  g[m] = Step(m, g)
  <2>1. m # 0 => m - 1 \in 0..k /\ m - 1 # k
    BY <1>2
  <2>2. m # 0 => g[m - 1] = f[m - 1]
    BY <2>1
  <2>3. Step(m, g) = Step(m, f)
    BY <2>2
  <2> HIDE DEF Step
  <2>4. CASE m = k
    BY <2>3, <2>4
  <2>5. CASE m # k
    <3>1. m \in 0..(k - 1)
      BY <1>2, <2>5
    <3> QED
      BY <1>4, <2>3, <2>5, <3>1
  <2> QED
    BY <2>4, <2>5
<1>6. SpacedTo(text, k, g)
  BY <1>5 DEF SpacedTo
<1> QED
  BY <1>2, <1>6

LEMMA StrippedIs ==
  ASSUME NEW text, IsSeq(text)
  PROVE  \E f : SpacedTo(text, Len(text), f) /\ Stripped(text) = Raw(Ended(f[Len(text)]))
<1> DEFINE n == Len(text)
           Unfolds(f) == f = [m \in 0..n |->
              IF m = 0 THEN <<>>
              ELSE LET t == f[m - 1]
                   IN IF text[m] \notin Whitespace THEN Append(t, text[m])
                      ELSE IF t = <<>> \/ Last(t) = "sp" THEN t ELSE Append(t, "sp")]
           spaced == CHOOSE f : Unfolds(f)
<1>1. PICK f : SpacedTo(text, n, f)
  <2>1. n \in Nat
    BY SeqFacts
  <2> QED
    BY <2>1, SpacedToExists
<1>2. Unfolds(f)
  BY <1>1 DEF SpacedTo, Respaced
<1>3. Unfolds(spaced)
  <2> HIDE DEF Unfolds
  <2> QED
    BY <1>2
<1>4. Stripped(text) = Raw(Ended(spaced[n]))
  BY DEF Stripped, Ended
<1>5. SpacedTo(text, n, spaced)
  <2> HIDE DEF spaced
  <2> QED
    BY <1>3 DEF SpacedTo, Respaced
<1> QED
  BY <1>4, <1>5

LEMMA RespacedTidy ==
  ASSUME NEW t, Tidy(t), NEW c
  PROVE  Tidy(Respaced(t, c))
<1>1. CASE c \notin Whitespace
  BY <1>1, TidyMore DEF Respaced
<1>2. CASE c \in Whitespace /\ (t = <<>> \/ Last(t) = "sp")
  BY <1>2 DEF Respaced
<1>3. CASE c \in Whitespace /\ ~ (t = <<>> \/ Last(t) = "sp")
  BY <1>3, TidyMore DEF Respaced
<1> QED
  BY <1>1, <1>2, <1>3

LEMMA NoText == Tidy(<<>>) /\ Len(<<>>) = 0
<1>1. Len(<<>>) = 0 /\ <<>> \in Seq({})
  OBVIOUS
<1> QED
  BY <1>1 DEF Tidy, IsSeq

(* Whatever is read is stripped, and fits into the buffer.                  *)
LEMMA StrippedTidy ==
  ASSUME NEW text, IsSeq(text)
  PROVE  Tidy(Stripped(text)) /\ Len(Stripped(text)) < StringSize
<1> DEFINE n == Len(text)
<1>1. n \in Nat
  BY SeqFacts
<1>2. PICK f : SpacedTo(text, n, f) /\ Stripped(text) = Raw(Ended(f[n]))
  BY StrippedIs
<1> DEFINE Bad == {m \in 0..n : ~ Tidy(f[m])}
<1>3. Bad = {}
  <2> SUFFICES ASSUME Bad # {} PROVE FALSE
    OBVIOUS
  <2>1. PICK m \in Bad : \A j \in Bad : m <= j
    <3>1. Bad \subseteq Nat
      OBVIOUS
    <3> HIDE DEF Bad
    <3> QED
      BY <3>1, LeastExists
  <2>2. m \in 0..n /\ ~ Tidy(f[m])
    BY <2>1
  <2>3. f[m] = IF m = 0 THEN <<>> ELSE Respaced(f[m - 1], text[m])
    BY <1>2, <2>2 DEF SpacedTo
  <2>4. CASE m = 0
    BY <2>2, <2>3, <2>4, NoText
  <2>5. CASE m # 0
    <3>1. m - 1 \in 0..n /\ ~ (m <= m - 1)
      BY <1>1, <2>2, <2>5
    <3>2. Tidy(f[m - 1])
      BY <2>1, <3>1
    <3> QED
      BY <2>2, <2>3, <2>5, <3>2, RespacedTidy
  <2> QED
    BY <2>4, <2>5
<1>4. Tidy(f[n])
  <2>1. n \in 0..n
    BY <1>1
  <2> QED
    BY <1>3, <2>1
<1> DEFINE all == f[n]
<1> HIDE DEF all
<1>5. Tidy(Ended(all))
  <2>1. CASE all # <<>> /\ Last(all) = "sp"
    <3>1. PICK l \in Nat : l = Len(all)
      BY <1>4, SeqFacts DEF Tidy, all
    <3>2. l # 0
      BY <1>4, <2>1, <3>1, EmptySeq DEF Tidy, IsSeq, all
    <3>3. l - 1 \in 0..Len(all)
      BY <3>1, <3>2
    <3>4. Tidy(SubSeq(all, 1, l - 1))
      BY <1>4, <3>3, TidyCut DEF all
    <3> QED
      BY <2>1, <3>1, <3>4 DEF Ended, Front
  <2>2. CASE ~ (all # <<>> /\ Last(all) = "sp")
    BY <1>4, <2>2 DEF Ended, all
  <2> QED
    BY <2>1, <2>2
<1> DEFINE e == Ended(all)
<1> HIDE DEF e
<1>6. Tidy(Raw(e)) /\ Len(Raw(e)) < StringSize
  <2>1. PICK l \in Nat : l = Len(e)
    BY <1>5, SeqFacts DEF Tidy, e
  <2>2. StringSize \in Nat \ {0}
    BY FileAssumption
  <2>3. CASE l < StringSize
    BY <1>5, <2>1, <2>3 DEF Raw, e
  <2>4. CASE ~ (l < StringSize)
    <3>1. StringSize - 1 \in 0..Len(e)
      BY <2>1, <2>2, <2>4
    <3>2. Tidy(SubSeq(e, 1, StringSize - 1)) /\ Len(SubSeq(e, 1, StringSize - 1)) = StringSize - 1
      BY <1>5, <3>1, TidyCut, CutFacts DEF e, Tidy
    <3>3. Raw(e) = SubSeq(e, 1, StringSize - 1)
      BY <2>1, <2>4 DEF Raw
    <3> QED
      BY <2>2, <3>2, <3>3
  <2> QED
    BY <2>3, <2>4
<1> QED
  BY <1>2, <1>6 DEF e, all

LEMMA CutMore ==
  ASSUME NEW t, IsSeq(t), NEW m \in 1..Len(t)
  PROVE  SubSeq(t, 1, m) = Append(SubSeq(t, 1, m - 1), t[m])
<1>1. PICK S : t \in Seq(S)
  BY DEF IsSeq
<1>2. PICK n \in Nat : n = Len(t)
  BY SeqFacts
<1>3. 1 \in 1..Len(t) /\ m \in 1..Len(t) /\ m - 1 \in 0..Len(t) /\ 1 <= m
  BY <1>2
<1>4. SubSeq(t, 1, m) = SubSeq(t, 1, m - 1) \o <<t[m]>>
  BY <1>1, <1>3, SubSeqRecursiveSecond
<1>5. t[m] \in S /\ \A i \in 1..(m - 1) : t[i] \in S
  <2>1. \A i \in 1..Len(t) : t[i] \in S
    BY <1>1, ElementOfSeq
  <2> QED
    BY <1>2, <2>1
<1>6. SubSeq(t, 1, m - 1) \in Seq(S)
  <2>1. m - 1 \in Int
    BY <1>2
  <2> QED
    BY <1>5, <2>1, SubSeqProperties
<1> QED
  BY <1>4, <1>5, <1>6, AppendIsConcat

(* A text without other spaces only loses that at its end.                  *)
LEMMA StrippedOfTidy ==
  ASSUME NEW t, Tidy(t), Len(t) < StringSize
  PROVE  Stripped(t) = Ended(t)
<1>1. IsSeq(t)
  BY DEF Tidy
<1>2. PICK n \in Nat : n = Len(t)
  BY <1>1, SeqFacts
<1>3. PICK f : SpacedTo(t, n, f) /\ Stripped(t) = Raw(Ended(f[n]))
  BY <1>1, <1>2, StrippedIs
<1> DEFINE Bad == {m \in 0..n : f[m] # SubSeq(t, 1, m)}
<1>4. Bad = {}
  <2> SUFFICES ASSUME Bad # {} PROVE FALSE
    OBVIOUS
  <2>1. PICK m \in Bad : \A j \in Bad : m <= j
    <3>1. Bad \subseteq Nat
      OBVIOUS
    <3> HIDE DEF Bad
    <3> QED
      BY <3>1, LeastExists
  <2>2. m \in 0..n /\ f[m] # SubSeq(t, 1, m)
    BY <2>1
  <2>3. f[m] = IF m = 0 THEN <<>> ELSE Respaced(f[m - 1], t[m])
    BY <1>3, <2>2 DEF SpacedTo
  <2>4. CASE m = 0
    <3>1. SubSeq(t, 1, 0) = <<>>
      BY SubSeqEmpty
    <3> QED
      BY <2>2, <2>3, <2>4, <3>1
  <2>5. CASE m # 0
    <3>1. m \in 1..n /\ m - 1 \in 0..n /\ ~ (m <= m - 1)
      BY <2>2, <2>5
    <3> DEFINE s == SubSeq(t, 1, m - 1)
    <3>2. f[m - 1] = s
      BY <2>1, <3>1
    <3>3. SubSeq(t, 1, m) = Append(s, t[m])
      BY <1>1, <1>2, <3>1, CutMore
    <3>4. f[m] = Respaced(s, t[m])
      BY <2>3, <2>5, <3>2
    <3>5. ASSUME t[m] \in Whitespace
          PROVE  t[m] = "sp" /\ s # <<>> /\ Last(s) # "sp"
      <4>1. t # <<>>
        BY <1>2, <3>1, NoText
      <4>2. t[m] = "sp" /\ m # 1
        BY <1>2, <3>1, <3>5, <4>1 DEF Tidy
      <4>3. m - 1 \in 1..n /\ m - 1 < n /\ (m - 1) + 1 = m /\ m - 1 \in 0..Len(t)
        BY <1>2, <3>1, <4>2
      <4>4. t[m - 1] # "sp"
        <5>1. "sp" \in Whitespace
          BY DEF Whitespace
        <5>2. t[m - 1] \in Whitespace => t[(m - 1) + 1] \notin Whitespace
          BY <1>2, <4>3 DEF Tidy
        <5> QED
          BY <3>5, <4>3, <5>1, <5>2
      <4>5. IsSeq(s) /\ Len(s) = m - 1 /\ \A i \in 1..(m - 1) : s[i] = t[i]
        BY <1>1, <4>3, CutFacts
      <4>6. Last(s) = t[m - 1]
        <5>1. m - 1 \in 1..(m - 1)
          BY <4>3
        <5> QED
          BY <4>5, <5>1 DEF Last
      <4>7. s # <<>>
        BY <4>3, <4>5, NoText
      <4> QED
        BY <4>2, <4>4, <4>6, <4>7
    <3> HIDE DEF s
    <3>6. Respaced(s, t[m]) = Append(s, t[m])
      BY <3>5 DEF Respaced
    <3> QED
      BY <2>2, <3>3, <3>4, <3>6
  <2> QED
    BY <2>4, <2>5
<1>5. f[n] = t
  <2>1. n \in 0..n
    BY <1>2
  <2>2. f[n] = SubSeq(t, 1, n)
    BY <1>4, <2>1
  <2>3. PICK S : t \in Seq(S)
    BY <1>1 DEF IsSeq
  <2> QED
    BY <1>2, <2>2, <2>3, SubSeqFull
<1>6. PICK l \in Nat : l = Len(Ended(t)) /\ l <= n
  <2>1. CASE t # <<>> /\ Last(t) = "sp"
    <3>1. n # 0
      BY <1>1, <1>2, <2>1, EmptySeq DEF IsSeq
    <3>2. n - 1 \in 0..Len(t)
      BY <1>2, <3>1
    <3>3. Len(SubSeq(t, 1, n - 1)) = n - 1
      BY <1>1, <3>2, CutFacts
    <3>4. Ended(t) = SubSeq(t, 1, n - 1)
      BY <1>2, <2>1 DEF Ended, Front
    <3>5. n - 1 \in Nat /\ n - 1 <= n
      BY <3>1
    <3> QED
      BY <3>3, <3>4, <3>5
  <2>2. CASE ~ (t # <<>> /\ Last(t) = "sp")
    BY <1>2, <2>2 DEF Ended
  <2> QED
    BY <2>1, <2>2
<1>7. l < StringSize
  <2>1. n < StringSize /\ StringSize \in Nat
    BY <1>2, FileAssumption
  <2> QED
    BY <1>6, <2>1
<1>8. Raw(Ended(t)) = Ended(t)
  BY <1>6, <1>7 DEF Raw
<1> QED
  BY <1>3, <1>5, <1>8

LEMMA SpacedOnceTidy ==
  ASSUME NEW t, IsSeq(t), SpacedOnce(t)
  PROVE  Tidy(t) /\ Len(t) < StringSize /\ Ended(t) = t /\ Stripped(t) = t
<1>1. PICK n \in Nat : n = Len(t) /\ DOMAIN t = 1..n
  BY SeqFacts
<1>2. /\ n < StringSize
      /\ t # <<>> => t[1] \notin Whitespace /\ Last(t) \notin Whitespace
      /\ \A i \in 1..n : t[i] \in Whitespace => t[i] = "sp" /\ t[i + 1] # "sp"
  BY <1>1 DEF SpacedOnce
<1>3. "sp" \in Whitespace
  BY DEF Whitespace
<1>4. ASSUME NEW i \in 1..n, t[i] \in Whitespace, i < n
      PROVE  t[i + 1] \notin Whitespace
  <2>1. i + 1 \in 1..n
    BY <1>4
  <2> QED
    BY <1>2, <1>4, <2>1
<1>5. Tidy(t)
  BY <1>1, <1>2, <1>4 DEF Tidy
<1>6. Ended(t) = t
  BY <1>2, <1>3 DEF Ended
<1> QED
  BY <1>1, <1>2, <1>5, <1>6, StrippedOfTidy

LEMMA EndedSpacedOnce ==
  ASSUME NEW t, Tidy(t), Len(t) < StringSize
  PROVE  SpacedOnce(Ended(t)) /\ IsSeq(Ended(t))
<1>1. PICK n \in Nat : n = Len(t)
  BY SeqFacts DEF Tidy
<1>2. n < StringSize /\ StringSize \in Nat
  BY <1>1, FileAssumption
<1>3. t # <<>> => n # 0
  BY <1>1, EmptySeq DEF Tidy, IsSeq
<1>4. "sp" \in Whitespace
  BY DEF Whitespace
<1>5. /\ t # <<>> => t[1] \notin Whitespace
      /\ \A i \in 1..n : t[i] \in Whitespace =>
           t[i] = "sp" /\ (i < n => t[i + 1] \notin Whitespace)
  BY <1>1 DEF Tidy
<1>6. PICK m \in Nat : /\ m <= n /\ Ended(t) = SubSeq(t, 1, m)
                       /\ m # 0 => t[m] \notin Whitespace
  <2>1. CASE t # <<>> /\ Last(t) = "sp"
    <3>1. n - 1 \in Nat /\ n - 1 <= n
      BY <1>3, <2>1
    <3>2. Ended(t) = SubSeq(t, 1, n - 1)
      BY <1>1, <2>1 DEF Ended, Front
    <3>3. n - 1 # 0 => t[n - 1] \notin Whitespace
      <4> SUFFICES ASSUME n - 1 # 0, t[n - 1] \in Whitespace PROVE FALSE
        OBVIOUS
      <4>1. n - 1 \in 1..n /\ n - 1 < n /\ (n - 1) + 1 = n
        BY <3>1
      <4>2. t[(n - 1) + 1] \notin Whitespace
        BY <1>5, <4>1
      <4>3. t[n] = "sp"
        BY <1>1, <2>1 DEF Last
      <4> QED
        BY <1>4, <4>1, <4>2, <4>3
    <3> QED
      BY <3>1, <3>2, <3>3
  <2>2. CASE ~ (t # <<>> /\ Last(t) = "sp")
    <3>1. Ended(t) = SubSeq(t, 1, n)
      <4>1. PICK S : t \in Seq(S)
        BY DEF Tidy, IsSeq
      <4>2. SubSeq(t, 1, n) = t
        BY <1>1, <4>1, SubSeqFull
      <4> QED
        BY <2>2, <4>2 DEF Ended
    <3>2. n # 0 => t[n] \notin Whitespace
      <4> SUFFICES ASSUME n # 0, t[n] \in Whitespace PROVE FALSE
        OBVIOUS
      <4>1. n \in 1..n
        OBVIOUS
      <4>2. t[n] = "sp"
        BY <1>5, <4>1
      <4>3. Last(t) = "sp" /\ t # <<>>
        BY <1>1, <4>2, NoText DEF Last
      <4> QED
        BY <2>2, <4>3
    <3>3. n <= n
      OBVIOUS
    <3> QED
      BY <3>1, <3>2, <3>3
  <2> QED
    BY <2>1, <2>2
<1> DEFINE u == SubSeq(t, 1, m)
<1>7. IsSeq(u) /\ Len(u) = m /\ \A i \in 1..m : u[i] = t[i]
  <2>1. m \in 0..Len(t)
    BY <1>1, <1>6
  <2> QED
    BY <2>1, CutFacts DEF Tidy
<1>8. DOMAIN u = 1..m
  BY <1>7, SeqFacts
<1>9. Ended(t) = u
  BY <1>6
<1> HIDE DEF u
<1>10. m < StringSize
  BY <1>2, <1>6
<1>11. u # <<>> => u[1] \notin Whitespace /\ Last(u) \notin Whitespace
  <2> SUFFICES ASSUME u # <<>> PROVE u[1] \notin Whitespace /\ Last(u) \notin Whitespace
    OBVIOUS
  <2>1. m # 0
    BY <1>7, EmptySeq DEF IsSeq
  <2>2. 1 \in 1..m /\ m \in 1..m /\ n # 0
    BY <1>6, <2>1
  <2>3. t # <<>>
    BY <1>1, <2>2, NoText
  <2> QED
    BY <1>5, <1>6, <1>7, <2>1, <2>2, <2>3 DEF Last
<1>12. ASSUME NEW i \in 1..m, u[i] \in Whitespace
       PROVE  u[i] = "sp" /\ u[i + 1] # "sp"
  <2>1. i \in 1..n /\ u[i] = t[i]
    BY <1>6, <1>7
  <2>2. i # m
    BY <1>6, <1>12, <2>1
  <2>3. i + 1 \in 1..m /\ i < n
    BY <1>6, <2>1, <2>2
  <2> QED
    BY <1>4, <1>5, <1>7, <1>12, <2>1, <2>3
<1>13. SpacedOnce(u)
  BY <1>7, <1>8, <1>10, <1>11, <1>12 DEF SpacedOnce
<1> QED
  BY <1>7, <1>9, <1>13

(* Stripping a text twice settles it.                                       *)
LEMMA StrippedTwice ==
  ASSUME NEW t, IsSeq(t)
  PROVE  LET u == Stripped(t)
         IN /\ IsSeq(u) /\ IsSeq(Stripped(u))
            /\ SpacedOnce(Stripped(u))
<1>1. Tidy(Stripped(t)) /\ Len(Stripped(t)) < StringSize
  BY StrippedTidy
<1>2. Stripped(Stripped(t)) = Ended(Stripped(t))
  BY <1>1, StrippedOfTidy
<1> QED
  BY <1>1, <1>2, EndedSpacedOnce DEF Tidy

-----------------------------------------------------------------------------
(* Documents                                                                *)

LEMMA LenIs ==
  ASSUME NEW n \in Nat, NEW s, s = [i \in 1..n |-> s[i]]
  PROVE  IsSeq(s) /\ Len(s) = n /\ DOMAIN s = 1..n
<1> DEFINE S == {s[i] : i \in 1..n}
<1>1. \A i \in 1..n : s[i] \in S
  OBVIOUS
<1>2. DOMAIN s = 1..n
  OBVIOUS
<1> HIDE DEF S
<1>3. s \in [1..n -> S]
  BY <1>1
<1>4. s \in Seq(S)
  BY <1>3, SeqDef
<1>5. Len(s) \in Nat /\ 1..Len(s) = 1..n
  BY <1>2, <1>4, LenProperties
<1>6. \A m \in Nat : 1..m = 1..n => m = n
  <2> TAKE m \in Nat
  <2> SUFFICES ASSUME 1..m = 1..n PROVE m = n
    OBVIOUS
  <2>1. CASE m < n
    <3>1. n \in 1..n /\ n \notin 1..m
      BY <2>1
    <3> QED
      BY <3>1
  <2>2. CASE n < m
    <3>1. m \in 1..m /\ m \notin 1..n
      BY <2>2
    <3> QED
      BY <3>1
  <2> QED
    BY <2>1, <2>2
<1> QED
  BY <1>2, <1>4, <1>5, <1>6 DEF IsSeq

(* What is read of no node and of one.                                      *)
LEMMA TextOfOne ==
  ASSUME NEW node
  PROVE  TextOf(<<>>) = <<>> /\ TextOf(<<node>>) = node.text
<1>1. TextOf(<<>>) = <<>>
  <2> DEFINE s == [i \in DOMAIN <<>> |-> <<>>[i].text]
  <2>1. s = <<>>
    OBVIOUS
  <2>2. Len(<<>>) = 0
    OBVIOUS
  <2> HIDE DEF s
  <2>3. FlattenSeq(s) = <<>>
    BY <2>1, <2>2 DEF FlattenSeq
  <2> QED
    BY <2>3 DEF TextOf, s
<1>2. TextOf(<<node>>) = node.text
  <2> DEFINE s == [i \in DOMAIN <<node>> |-> <<node>>[i].text]
  <2>1. DOMAIN <<node>> = 1..1 /\ <<node>>[1] = node
    OBVIOUS
  <2>2. s[1] = node.text /\ s = [i \in 1..1 |-> s[i]]
    BY <2>1
  <2> HIDE DEF s
  <2>3. Len(s) = 1
    BY <2>2, LenIs
  <2>4. FlattenSeq(s) = s[1]
    BY <2>3, FlattenSeqOne
  <2> QED
    BY <2>2, <2>4 DEF TextOf, s
<1> QED
  BY <1>1, <1>2

LEMMA LeafFacts ==
  ASSUME NEW name, NEW text
  PROVE  /\ Leaf(name, text).name = name /\ Leaf(name, text).text = <<>>
         /\ Leaf(name, text).attrs = <<>>
         /\ TextOf(Leaf(name, text).kids) = text
         /\ RawLeaf(name, text).name = name
         /\ TextOf(RawLeaf(name, text).kids) = text
         /\ Blank.name = "text" /\ Blank.kids = <<>> /\ Blank.text = <<"nl">>
<1>1. Text(text).text = text /\ CData(text).text = text
  BY DEF Text, CData, Node
<1>2. TextOf(<<Text(text)>>) = text /\ TextOf(<<CData(text)>>) = text /\ TextOf(<<>>) = <<>>
  BY <1>1, TextOfOne
<1>3. /\ Leaf(name, text).name = name /\ Leaf(name, text).text = <<>>
      /\ Leaf(name, text).attrs = <<>>
      /\ Leaf(name, text).kids = IF text = <<>> THEN <<>> ELSE <<Text(text)>>
  BY DEF Leaf, Node, NoAttrs
<1>4. RawLeaf(name, text).name = name /\ RawLeaf(name, text).kids = <<CData(text)>>
  BY DEF RawLeaf, Node
<1>5. Blank.name = "text" /\ Blank.kids = <<>> /\ Blank.text = <<"nl">>
  BY DEF Blank, Text, Node
<1> QED
  BY <1>2, <1>3, <1>4, <1>5

(* The children of an element: its elements between blanks.                 *)
LEMMA ElementFacts ==
  ASSUME NEW name, NEW attrs, NEW elements, NEW n \in Nat, Len(elements) = n
  PROVE  LET e == Element(name, attrs, elements)
             K == e.kids
         IN /\ e.name = name /\ e.attrs = attrs /\ e.text = <<>>
            /\ IsSeq(K) /\ Len(K) = 2 * n + 1 /\ DOMAIN K = 1..(2 * n + 1)
            /\ \A i \in 1..n : 2 * i \in DOMAIN K /\ K[2 * i] = elements[i]
            /\ \A j \in DOMAIN K : K[j] = Blank \/ \E i \in 1..n : j = 2 * i /\ K[j] = elements[i]
            /\ K[1] = Blank
<1> DEFINE K == [i \in 1..(2 * n + 1) |-> IF i % 2 = 1 THEN Blank ELSE elements[i \div 2]]
           e == Element(name, attrs, elements)
<1>1. e.name = name /\ e.attrs = attrs /\ e.text = <<>> /\ e.kids = K
  BY DEF Element, Node
<1>2. 2 * n + 1 \in Nat
  OBVIOUS
<1>3. IsSeq(K) /\ Len(K) = 2 * n + 1 /\ DOMAIN K = 1..(2 * n + 1)
  <2>1. K = [i \in 1..(2 * n + 1) |-> K[i]]
    OBVIOUS
  <2> HIDE DEF K
  <2> QED
    BY <1>2, <2>1, LenIs
<1>4. \A i \in 1..n : 2 * i \in 1..(2 * n + 1) /\ K[2 * i] = elements[i]
  <2> TAKE i \in 1..n
  <2>1. 2 * i \in 1..(2 * n + 1) /\ (2 * i) % 2 = 0 /\ (2 * i) \div 2 = i
    OBVIOUS
  <2> QED
    BY <2>1
<1>5. \A j \in 1..(2 * n + 1) : K[j] = Blank \/ \E i \in 1..n : j = 2 * i /\ K[j] = elements[i]
  <2> TAKE j \in 1..(2 * n + 1)
  <2>1. CASE j % 2 = 1
    BY <2>1
  <2>2. CASE j % 2 # 1
    <3>1. j \div 2 \in 1..n /\ j = 2 * (j \div 2)
      BY <2>2
    <3>2. K[j] = elements[j \div 2]
      BY <2>2
    <3> QED
      BY <3>1, <3>2
  <2> QED
    BY <2>1, <2>2
<1>6. K[1] = Blank
  <2>1. 1 \in 1..(2 * n + 1) /\ 1 % 2 = 1
    OBVIOUS
  <2> QED
    BY <2>1
<1> HIDE DEF K, e
<1> QED
  BY <1>1, <1>3, <1>4, <1>5, <1>6 DEF e

-----------------------------------------------------------------------------
(* Values that are read entry by entry                                      *)

(* What may come back for a value.                                          *)
Reached(id) == IF id \in Existing THEN id ELSE -1

Back(v, w) ==
  /\ v.type # "boolean"
  /\ v.type = "nil" => w = Nil
  /\ v.type = "thing" => w = IF v.id \in Existing THEN v ELSE Nil
  /\ v.type \in {"array", "hash"} => w = Nil \/ \E id \in Integer \cap Existing : w = ThingVal(id)
  /\ v.type = "string" => w = StringVal(Stripped(v.text))
  /\ v.type = "server" =>
       w = [type |-> "server", text |-> Stripped(v.text), num |-> v.num, id |-> Reached(v.id),
            params |-> <<>>, code |-> <<>>]
  /\ v.type \in {"expr", "moolambda"} =>
       w = [type |-> v.type, text |-> <<>>, num |-> Whole(0), id |-> -1,
            params |-> IF v.type = "expr" THEN <<>> ELSE w.params, code |-> w.code]
  /\ v.type \in {"expr", "moolambda"} /\ Readable(v) => w = v
  /\ v.type \in {"number", "funcptr", "tcp"} => w = Val(v.type)

(* The types whose values stand in elements of their own.                   *)
ByEntry == {"string", "number", "funcptr", "expr", "moolambda", "server"}

(* What the parser makes of a program.                                      *)
CodeBack(v)   == ParseProgram(Raw(ProgramText(v, "code"))).exprs
ParamsBack(v) == ParseProgram(Stripped(ProgramText(v, "params"))).exprs

(* A value of which the first k nodes are read.                             *)
After(v, k) ==
  LET Part(text, num, id, params, code) ==
        [type |-> v.type, text |-> text, num |-> num, id |-> id, params |-> params, code |-> code]
      Read(at, field, default) == IF k >= at THEN field ELSE default
  IN CASE v.type = "string" ->
            Part(Read(2, Stripped(v.text), <<>>), Whole(0), -1, <<>>, <<>>)
       [] v.type = "expr" -> Part(<<>>, Whole(0), -1, <<>>, Read(2, CodeBack(v), <<>>))
       [] v.type = "moolambda" ->
            Part(<<>>, Whole(0), -1, Read(2, ParamsBack(v), <<>>), Read(4, CodeBack(v), <<>>))
       [] v.type = "server" ->
            Part(Read(6, Stripped(v.text), <<>>), Read(2, v.num, Whole(0)),
                 Read(4, Reached(v.id), -1), <<>>, <<>>)
       [] OTHER -> Part(<<>>, Whole(0), -1, <<>>, <<>>)

(* Reading the nodes of a value one after the other makes it again, or one  *)
(* of them throws, and then nothing was to be read.                         *)
NodeReadsBack(v, node, before, after) ==
  IF node.name \in ProgramsOf(v.type)
  THEN LET program == ParseProgram(Buffered(node))
       IN /\ [before EXCEPT ![node.name] = program.exprs] = after
          /\ program.how = "exprs" \/ Back(v, before)
  ELSE \/ EntryRead(before, node) = after /\ after # Nothing
       \/ EntryRead(before, node) = Nothing /\ Back(v, before)

ReadsBack(v) ==
  LET K == Contents(v)
  IN /\ IsSeq(K) /\ Len(K) \in Nat \ {0} /\ DOMAIN K = 1..Len(K) /\ K # <<>>
     /\ After(v, 0) = Val(v.type)
     /\ \A k \in 1..Len(K) : NodeReadsBack(v, K[k], After(v, k - 1), After(v, k))
     /\ Back(v, After(v, Len(K)))

LEMMA AfterIs ==
  ASSUME NEW v, v.type \in ByEntry, NEW k
  PROVE  After(v, k).type = v.type
  BY DEF After, ByEntry

LEMMA ProgramsAre ==
  /\ ProgramsOf("expr") = {"code"} /\ ProgramsOf("moolambda") = {"params", "code"}
  /\ \A type : type \notin {"expr", "moolambda"} => ProgramsOf(type) = {}
  BY DEF ProgramsOf

LEMMA ElementsFacts ==
  ASSUME NEW elements, NEW n \in {1, 2, 3}, Len(elements) = n
  PROVE  LET K == Elements(elements)
         IN /\ IsSeq(K) /\ Len(K) = 2 * n + 1 /\ DOMAIN K = 1..(2 * n + 1) /\ K # <<>>
            /\ \A i \in 1..n : K[2 * i] = elements[i]
            /\ \A k \in 1..(2 * n + 1) : K[k] = Blank \/ \E i \in 1..n : k = 2 * i
<1> DEFINE K == Elements(elements)
           e == Element("entry", NoAttrs, elements)
<1>1. n \in Nat /\ n # 0
  OBVIOUS
<1>2. K = e.kids
  BY DEF Elements
<1> HIDE DEF K
<1>3. /\ IsSeq(K) /\ Len(K) = 2 * n + 1 /\ DOMAIN K = 1..(2 * n + 1)
      /\ \A i \in 1..n : K[2 * i] = elements[i]
      /\ \A k \in DOMAIN K : K[k] = Blank \/ \E i \in 1..n : k = 2 * i /\ K[k] = elements[i]
  <2>1. /\ IsSeq(e.kids) /\ Len(e.kids) = 2 * n + 1 /\ DOMAIN e.kids = 1..(2 * n + 1)
        /\ \A i \in 1..n : e.kids[2 * i] = elements[i]
        /\ \A k \in DOMAIN e.kids :
             e.kids[k] = Blank \/ \E i \in 1..n : k = 2 * i /\ e.kids[k] = elements[i]
    BY <1>1, ElementFacts
  <2> HIDE DEF e
  <2> QED
    BY <1>2, <2>1
<1>4. K # <<>>
  BY <1>1, <1>3, NoText
<1> QED
  BY <1>3, <1>4 DEF K

LEMMA StringReadsBack ==
  ASSUME NEW v, IsValue(v), v.type = "string"
  PROVE  ReadsBack(v)
<1> DEFINE K == Contents(v)
           leaf == Leaf("value", v.text)
<1>1. K = Elements(<<leaf>>)
  BY DEF Contents, StringData
<1>2. Len(<<leaf>>) = 1 /\ <<leaf>>[1] = leaf
  OBVIOUS
<1>3. /\ IsSeq(K) /\ Len(K) = 3 /\ DOMAIN K = 1..3 /\ K # <<>>
      /\ K[2] = leaf /\ K[1] = Blank /\ K[3] = Blank
  <2>1. 1 \in {1, 2, 3} /\ 2 * 1 + 1 = 3 /\ 1..1 = {1} /\ 2 * 1 = 2
    OBVIOUS
  <2>2. /\ IsSeq(K) /\ Len(K) = 3 /\ DOMAIN K = 1..3 /\ K # <<>>
        /\ K[2] = <<leaf>>[1]
        /\ \A k \in 1..3 : K[k] = Blank \/ k = 2
    BY <1>1, <1>2, <2>1, ElementsFacts
  <2> QED
    BY <1>2, <2>2
<1>4. leaf.name = "value" /\ TextOf(leaf.kids) = v.text /\ Blank.name = "text"
  BY LeafFacts
<1> HIDE DEF K, leaf
<1> DEFINE A(t) == [type |-> "string", text |-> t, num |-> Whole(0), id |-> -1,
                    params |-> <<>>, code |-> <<>>]
<1>5. /\ After(v, 0) = A(<<>>) /\ After(v, 1) = A(<<>>)
      /\ After(v, 2) = A(Stripped(v.text)) /\ After(v, 3) = A(Stripped(v.text))
  BY DEF After
<1>6. /\ \A t : A(t) # Nothing /\ EntryRead(A(t), Blank) = A(t)
      /\ EntryRead(A(<<>>), leaf) = A(Stripped(v.text))
  BY <1>4 DEF EntryRead, StringRead, Nothing
<1>7. Val("string") = A(<<>>) /\ StringVal(Stripped(v.text)) = A(Stripped(v.text))
  BY DEF Val, StringVal
<1>8. Back(v, After(v, 3))
  BY <1>5, <1>7 DEF Back
<1>9. \A k \in 1..3 : EntryRead(After(v, k - 1), K[k]) = After(v, k) /\ After(v, k) # Nothing
  <2> TAKE k \in 1..3
  <2> HIDE DEF A
  <2>1. CASE k = 1
    BY <1>3, <1>5, <1>6, <2>1
  <2>2. CASE k = 2
    BY <1>3, <1>5, <1>6, <2>2
  <2>3. CASE k = 3
    BY <1>3, <1>5, <1>6, <2>3
  <2> QED
    BY <2>1, <2>2, <2>3
<1>10. ProgramsOf(v.type) = {}
  BY ProgramsAre
<1> QED
  BY <1>3, <1>5, <1>7, <1>8, <1>9, <1>10 DEF ReadsBack, NodeReadsBack, K

(* Nothing is read back of a number and of a function of the server.        *)
LEMMA LostReadsBack ==
  ASSUME NEW v, IsValue(v), v.type \in {"number", "funcptr"}
  PROVE  ReadsBack(v)
<1> DEFINE K == Contents(v)
           leaf == IF v.type = "number" THEN Leaf("value", NumberText(v.num))
                   ELSE Leaf("funcptr", <<"*", "*", "*">>)
<1>1. K = Elements(<<leaf>>)
  BY DEF Contents, NumberData, FuncPtrData
<1>2. Len(<<leaf>>) = 1 /\ <<leaf>>[1] = leaf
  OBVIOUS
<1>3. /\ IsSeq(K) /\ Len(K) = 3 /\ DOMAIN K = 1..3 /\ K # <<>>
      /\ K[2] = leaf /\ K[1] = Blank /\ K[3] = Blank
  <2>1. 1 \in {1, 2, 3} /\ 2 * 1 + 1 = 3 /\ 1..1 = {1} /\ 2 * 1 = 2
    OBVIOUS
  <2>2. /\ IsSeq(K) /\ Len(K) = 3 /\ DOMAIN K = 1..3 /\ K # <<>>
        /\ K[2] = <<leaf>>[1]
        /\ \A k \in 1..3 : K[k] = Blank \/ k = 2
    BY <1>1, <1>2, <2>1, ElementsFacts
  <2> QED
    BY <1>2, <2>2
<1>4. /\ v.type = "number" => leaf.name = "value" /\ leaf.attrs = <<>>
      /\ v.type = "funcptr" => leaf.name = "funcptr"
      /\ Blank.name = "text"
  BY LeafFacts
<1> HIDE DEF K, leaf
<1> DEFINE A == [type |-> v.type, text |-> <<>>, num |-> Whole(0), id |-> -1,
                 params |-> <<>>, code |-> <<>>]
<1>5. \A k \in 0..3 : After(v, k) = A
  BY DEF After
<1>6. A # Nothing /\ EntryRead(A, Blank) = A /\ EntryRead(A, leaf) = Nothing
  <2>1. DOMAIN <<>> = {}
    OBVIOUS
  <2> QED
    BY <1>4, <2>1 DEF EntryRead, NumberRead, FuncPtrRead, Nothing
<1>7. Val(v.type) = A
  BY DEF Val
<1>8. Back(v, A)
  BY <1>7 DEF Back
<1>9. \A k \in 1..3 :
        \/ EntryRead(After(v, k - 1), K[k]) = After(v, k) /\ After(v, k) # Nothing
        \/ EntryRead(After(v, k - 1), K[k]) = Nothing /\ Back(v, After(v, k - 1))
  <2> TAKE k \in 1..3
  <2>1. k \in 0..3 /\ k - 1 \in 0..3
    OBVIOUS
  <2> HIDE DEF A
  <2>2. After(v, k) = A /\ After(v, k - 1) = A
    BY <1>5, <2>1
  <2>3. K[k] = Blank \/ K[k] = leaf
    BY <1>3
  <2> QED
    BY <1>6, <1>8, <2>2, <2>3
<1>10. After(v, 0) = A /\ After(v, 3) = A
  <2>1. 0 \in 0..3 /\ 3 \in 0..3
    OBVIOUS
  <2> QED
    BY <1>5, <2>1
<1>11. ProgramsOf(v.type) = {}
  BY ProgramsAre
<1> QED
  BY <1>3, <1>7, <1>8, <1>9, <1>10, <1>11 DEF ReadsBack, NodeReadsBack, K

LEMMA ExprReadsBack ==
  ASSUME NEW v, IsValue(v), v.type = "expr"
  PROVE  ReadsBack(v)
<1> DEFINE K == Contents(v)
           text == ProgramText(v, "code")
           leaf == RawLeaf("code", text)
<1>1. K = Elements(<<leaf>>)
  BY DEF Contents, ExprData
<1>2. Len(<<leaf>>) = 1 /\ <<leaf>>[1] = leaf
  OBVIOUS
<1>3. /\ IsSeq(K) /\ Len(K) = 3 /\ DOMAIN K = 1..3 /\ K # <<>>
      /\ K[2] = leaf /\ K[1] = Blank /\ K[3] = Blank
  <2>1. 1 \in {1, 2, 3} /\ 2 * 1 + 1 = 3 /\ 1..1 = {1} /\ 2 * 1 = 2
    OBVIOUS
  <2>2. /\ IsSeq(K) /\ Len(K) = 3 /\ DOMAIN K = 1..3 /\ K # <<>>
        /\ K[2] = <<leaf>>[1]
        /\ \A k \in 1..3 : K[k] = Blank \/ k = 2
    BY <1>1, <1>2, <2>1, ElementsFacts
  <2> QED
    BY <1>2, <2>2
<1> DEFINE program == ParseProgram(Raw(text))
           C == CodeBack(v)
<1>4. /\ program.exprs = C
      /\ Readable(v) => program.how = "exprs" /\ C = v.code
  BY ProgramsAre DEF Readable, CodeBack
<1>5. /\ leaf.name = "code" /\ Buffered(leaf) = Raw(text)
      /\ Blank.name = "text"
  BY LeafFacts DEF Buffered
<1> HIDE DEF K, leaf, text
<1> DEFINE A(c) == [type |-> "expr", text |-> <<>>, num |-> Whole(0), id |-> -1,
                    params |-> <<>>, code |-> c]
<1>6. /\ After(v, 0) = A(<<>>) /\ After(v, 1) = A(<<>>)
      /\ After(v, 2) = A(C) /\ After(v, 3) = A(C)
  BY DEF After
<1>7. /\ \A c : A(c) # Nothing /\ EntryRead(A(c), Blank) = A(c)
      /\ [A(<<>>) EXCEPT !["code"] = C] = A(C)
  BY DEF EntryRead, Nothing
<1>8. Val("expr") = A(<<>>) /\ v = A(v.code)
  BY DEF Val, IsValue
<1>9. \A c : (Readable(v) => c = v.code) => Back(v, A(c))
  BY <1>8 DEF Back
<1> HIDE DEF A, C, program
<1>10. Back(v, After(v, 3))
  BY <1>4, <1>6, <1>9
<1>11. program.how = "exprs" \/ Back(v, A(<<>>))
  BY <1>4, <1>9
<1>12. \A k \in 1..3 : NodeReadsBack(v, K[k], After(v, k - 1), After(v, k))
  <2> TAKE k \in 1..3
  <2>1. ProgramsOf(v.type) = {"code"} /\ "text" # "code"
    BY ProgramsAre
  <2>2. CASE k = 1
    BY <1>3, <1>5, <1>6, <1>7, <2>1, <2>2 DEF NodeReadsBack
  <2>3. CASE k = 2
    <3>1. K[k] = leaf /\ After(v, k - 1) = A(<<>>) /\ After(v, k) = A(C)
      BY <1>3, <1>6, <2>3
    <3>2. ParseProgram(Buffered(leaf)) = program
      BY <1>5 DEF program
    <3> QED
      BY <1>4, <1>5, <1>7, <1>11, <2>1, <3>1, <3>2 DEF NodeReadsBack
  <2>4. CASE k = 3
    BY <1>3, <1>5, <1>6, <1>7, <2>1, <2>4 DEF NodeReadsBack
  <2> QED
    BY <2>2, <2>3, <2>4
<1> QED
  BY <1>3, <1>6, <1>8, <1>10, <1>12 DEF ReadsBack, K

LEMMA LambdaReadsBack ==
  ASSUME NEW v, IsValue(v), v.type = "moolambda"
  PROVE  ReadsBack(v)
<1> DEFINE K == Contents(v)
           params == ProgramText(v, "params")
           text == ProgramText(v, "code")
           one == RawLeaf("params", params)
           two == RawLeaf("code", text)
           leaves == <<one, two>>
<1>1. K = Elements(leaves)
  BY DEF Contents, LambdaData
<1>2. Len(leaves) = 2 /\ leaves[1] = one /\ leaves[2] = two
  OBVIOUS
<1> DEFINE first  == ParseProgram(Stripped(params))
           second == ParseProgram(Raw(text))
           P == ParamsBack(v)
           C == CodeBack(v)
<1>3. /\ first.exprs = P /\ second.exprs = C
      /\ Readable(v) => /\ first.how = "exprs" /\ P = v.params
                        /\ second.how = "exprs" /\ C = v.code
  BY ProgramsAre DEF Readable, CodeBack, ParamsBack
<1>4. /\ one.name = "params" /\ TextOf(one.kids) = params
      /\ two.name = "code" /\ TextOf(two.kids) = text
      /\ Blank.name = "text"
  BY LeafFacts, Zenon
<1>5. Buffered(one) = Stripped(params) /\ Buffered(two) = Raw(text)
  <2> HIDE DEF one, two, params, text
  <2> QED
    BY <1>4 DEF Buffered
<1> HIDE DEF K, leaves, one, two, text, params
<1>6. /\ IsSeq(K) /\ Len(K) = 5 /\ DOMAIN K = 1..5 /\ K # <<>>
      /\ K[1] = Blank /\ K[2] = one /\ K[3] = Blank /\ K[4] = two /\ K[5] = Blank
  <2>1. 2 \in {1, 2, 3} /\ 2 * 2 + 1 = 5 /\ 1..2 = {1, 2} /\ 2 * 1 = 2 /\ 2 * 2 = 4
    OBVIOUS
  <2>2. /\ IsSeq(K) /\ Len(K) = 5 /\ DOMAIN K = 1..5 /\ K # <<>>
        /\ K[2] = leaves[1] /\ K[4] = leaves[2]
        /\ \A k \in 1..5 : K[k] = Blank \/ k = 2 \/ k = 4
    BY <1>1, <1>2, <2>1, ElementsFacts
  <2> QED
    BY <1>2, <2>2
<1> DEFINE A(p, c) == [type |-> "moolambda", text |-> <<>>, num |-> Whole(0), id |-> -1,
                       params |-> p, code |-> c]
<1>7. /\ After(v, 0) = A(<<>>, <<>>) /\ After(v, 1) = A(<<>>, <<>>)
      /\ After(v, 2) = A(P, <<>>) /\ After(v, 3) = A(P, <<>>)
      /\ After(v, 4) = A(P, C) /\ After(v, 5) = A(P, C)
  BY DEF After
<1>8. /\ \A p, c : A(p, c) # Nothing /\ EntryRead(A(p, c), Blank) = A(p, c)
      /\ \A p, c, q : [A(p, c) EXCEPT !["params"] = q] = A(q, c)
      /\ \A p, c, d : [A(p, c) EXCEPT !["code"] = d] = A(p, d)
  <2>1. \A p, c : A(p, c) # Nothing /\ EntryRead(A(p, c), Blank) = A(p, c)
    BY DEF EntryRead, Nothing
  <2> QED
    BY <2>1
<1>9. Val("moolambda") = A(<<>>, <<>>) /\ v = A(v.params, v.code)
  BY DEF Val, IsValue
<1>10. \A p, c : (Readable(v) => p = v.params /\ c = v.code) => Back(v, A(p, c))
  BY <1>9 DEF Back
<1> HIDE DEF A, P, C, first, second
<1>11. Back(v, After(v, 5))
  BY <1>3, <1>7, <1>10
<1>12. /\ first.how = "exprs" \/ Back(v, A(<<>>, <<>>))
       /\ second.how = "exprs" \/ Back(v, A(P, <<>>))
  BY <1>3, <1>10
<1>13. \A k \in 1..5 : NodeReadsBack(v, K[k], After(v, k - 1), After(v, k))
  <2> TAKE k \in 1..5
  <2>1. ProgramsOf(v.type) = {"params", "code"} /\ "text" # "code" /\ "text" # "params"
    BY ProgramsAre
  <2>2. \A p, c : NodeReadsBack(v, Blank, A(p, c), A(p, c))
    BY <1>4, <1>8, <2>1 DEF NodeReadsBack
  <2>3. CASE k \in {1, 3, 5}
    BY <1>6, <1>7, <2>2, <2>3
  <2>4. CASE k = 2
    <3>1. K[k] = one /\ After(v, k - 1) = A(<<>>, <<>>) /\ After(v, k) = A(P, <<>>)
      BY <1>6, <1>7, <2>4
    <3>2. ParseProgram(Buffered(one)) = first
      BY <1>5 DEF first
    <3> QED
      BY <1>3, <1>4, <1>8, <1>12, <2>1, <3>1, <3>2 DEF NodeReadsBack
  <2>5. CASE k = 4
    <3>1. K[k] = two /\ After(v, k - 1) = A(P, <<>>) /\ After(v, k) = A(P, C)
      BY <1>6, <1>7, <2>5
    <3>2. ParseProgram(Buffered(two)) = second
      BY <1>5 DEF second
    <3> QED
      BY <1>3, <1>4, <1>8, <1>12, <2>1, <3>1, <3>2 DEF NodeReadsBack
  <2> QED
    BY <2>3, <2>4, <2>5
<1> QED
  BY <1>6, <1>7, <1>9, <1>11, <1>13 DEF ReadsBack, K

LEMMA ServerReadsBack ==
  ASSUME NEW v, IsValue(v), v.type = "server"
  PROVE  ReadsBack(v)
<1> DEFINE K == Contents(v)
           port == NumberText(v.num)
           object == IntegerText(v.id)
           method == v.text
           one == Leaf("port", port)
           two == Leaf("object", object)
           three == Leaf("method", method)
           leaves == <<one, two, three>>
<1>1. K = Elements(leaves)
  BY DEF Contents, ServerData
<1>2. Len(leaves) = 3 /\ leaves[1] = one /\ leaves[2] = two /\ leaves[3] = three
  OBVIOUS
<1>3. /\ IntegerOf(port) = v.num.p /\ Whole(v.num.p) = v.num
      /\ IntegerOf(object) = v.id
  <2>1. v.num.p \in Integer /\ v.num = Whole(v.num.p) /\ v.id \in Integer
    BY DEF IsValue
  <2> DEFINE p == v.num.p
  <2>2. p \in Integer /\ v.num = Whole(p)
    BY <2>1
  <2> HIDE DEF p
  <2> DEFINE w == [Whole(0) EXCEPT !.p = p]
             u == v.num
  <2>3. w.float = FALSE /\ w.p = p /\ u.float = FALSE /\ u.p = p
    <3>1. /\ Whole(p) = [float |-> FALSE, p |-> p, q |-> 1]
          /\ Whole(0) = [float |-> FALSE, p |-> 0, q |-> 1]
      BY <2>2, WrappedIs, IntegerFacts
    <3> QED
      BY <2>2, <3>1
  <2>4. port = IntegerText(p)
    <3> HIDE DEF w, u
    <3>1. NumberText(u) = NumberText(w)
      BY <2>3 DEF NumberText
    <3> QED
      BY <3>1 DEF IntegerText, port, w, u
  <2>5. IntegerOf(port) = p /\ IntegerOf(object) = v.id
    BY <2>1, <2>2, <2>4, IntegerTextRead
  <2> QED
    BY <2>2, <2>5 DEF p
<1>4. /\ one.name = "port" /\ TextOf(one.kids) = port
      /\ two.name = "object" /\ TextOf(two.kids) = object
      /\ three.name = "method" /\ TextOf(three.kids) = method
      /\ Blank.name = "text"
  BY LeafFacts
<1> HIDE DEF K, leaves, one, two, three, port, object, method
<1>5. /\ IsSeq(K) /\ Len(K) = 7 /\ DOMAIN K = 1..7 /\ K # <<>>
      /\ K[1] = Blank /\ K[2] = one /\ K[3] = Blank /\ K[4] = two /\ K[5] = Blank
      /\ K[6] = three /\ K[7] = Blank
  <2>1. /\ 3 \in {1, 2, 3} /\ 2 * 3 + 1 = 7 /\ 1..3 = {1, 2, 3}
        /\ 2 * 1 = 2 /\ 2 * 2 = 4 /\ 2 * 3 = 6
    OBVIOUS
  <2>2. /\ IsSeq(K) /\ Len(K) = 7 /\ DOMAIN K = 1..7 /\ K # <<>>
        /\ K[2] = leaves[1] /\ K[4] = leaves[2] /\ K[6] = leaves[3]
        /\ \A k \in 1..7 : K[k] = Blank \/ k = 2 \/ k = 4 \/ k = 6
    BY <1>1, <1>2, <2>1, ElementsFacts
  <2> QED
    BY <1>2, <2>2
<1> DEFINE A(n, i, t) == [type |-> "server", text |-> t, num |-> n, id |-> i,
                          params |-> <<>>, code |-> <<>>]
           N == v.num
           I == Reached(v.id)
           T == Stripped(v.text)
           W == Whole(0)
<1>6. /\ After(v, 0) = A(W, -1, <<>>) /\ After(v, 1) = A(W, -1, <<>>)
      /\ After(v, 2) = A(N, -1, <<>>) /\ After(v, 3) = A(N, -1, <<>>)
      /\ After(v, 4) = A(N, I, <<>>) /\ After(v, 5) = A(N, I, <<>>)
      /\ After(v, 6) = A(N, I, T) /\ After(v, 7) = A(N, I, T)
  BY DEF After
<1>7. /\ \A n, i, t : A(n, i, t) # Nothing /\ EntryRead(A(n, i, t), Blank) = A(n, i, t)
      /\ EntryRead(A(W, -1, <<>>), one) = A(N, -1, <<>>)
      /\ EntryRead(A(N, -1, <<>>), two) = A(N, I, <<>>)
      /\ EntryRead(A(N, I, <<>>), three) = A(N, I, T)
  <2> HIDE DEF N, W
  <2>1. \A n, i, t : A(n, i, t) # Nothing /\ EntryRead(A(n, i, t), Blank) = A(n, i, t)
    BY <1>4 DEF EntryRead, ServerRead, Nothing
  <2>2. EntryRead(A(W, -1, <<>>), one) = A(N, -1, <<>>)
    BY <1>3, <1>4 DEF EntryRead, ServerRead, N
  <2>3. EntryRead(A(N, -1, <<>>), two) = A(N, I, <<>>)
    BY <1>3, <1>4 DEF EntryRead, ServerRead, Reached
  <2>4. EntryRead(A(N, I, <<>>), three) = A(N, I, T)
    BY <1>4 DEF EntryRead, ServerRead, method
  <2> QED
    BY <2>1, <2>2, <2>3, <2>4
<1>8. Val("server") = A(W, -1, <<>>)
  BY DEF Val
<1>9. Back(v, After(v, 7))
  BY <1>6 DEF Back
<1>10. \A k \in 1..7 : EntryRead(After(v, k - 1), K[k]) = After(v, k) /\ After(v, k) # Nothing
  <2> TAKE k \in 1..7
  <2> HIDE DEF A, N, I, T, W
  <2>1. CASE k = 1
    BY <1>5, <1>6, <1>7, <2>1
  <2>2. CASE k = 2
    BY <1>5, <1>6, <1>7, <2>2
  <2>3. CASE k = 3
    BY <1>5, <1>6, <1>7, <2>3
  <2>4. CASE k = 4
    BY <1>5, <1>6, <1>7, <2>4
  <2>5. CASE k = 5
    BY <1>5, <1>6, <1>7, <2>5
  <2>6. CASE k = 6
    BY <1>5, <1>6, <1>7, <2>6
  <2>7. CASE k = 7
    BY <1>5, <1>6, <1>7, <2>7
  <2> QED
    BY <2>1, <2>2, <2>3, <2>4, <2>5, <2>6, <2>7
<1>11. ProgramsOf(v.type) = {}
  BY ProgramsAre
<1> QED
  BY <1>5, <1>6, <1>8, <1>9, <1>10, <1>11 DEF ReadsBack, NodeReadsBack, K

LEMMA EntriesReadBack ==
  ASSUME NEW v, IsValue(v), v.type \in ByEntry
  PROVE  ReadsBack(v)
  BY StringReadsBack, LostReadsBack, ExprReadsBack, LambdaReadsBack, ServerReadsBack DEF ByEntry

-----------------------------------------------------------------------------
(* What is in a file                                                        *)

Fields == {"id", "parent", "owner", "mode"}

(* The entry of a key in a section.                                         *)
EntryNode(h, k) ==
  Node("entry",
       [key |-> k, type |-> h[k].value.type, owner |-> IntegerText(h[k].owner),
        mode |-> OctalText(h[k].mode)],
       Contents(h[k].value), <<>>)

(* A section has the entries of a hash and white space.                     *)
SectionHolds(node, h) ==
  LET M == node.kids
  IN /\ IsSeq(M) /\ Len(M) \in Nat \ {0} /\ M # <<>>
     /\ \A j \in 1..Len(M) :
          /\ M[j].text \in Seq({"nl"})
          /\ M[j].name = "entry" => \E k \in DOMAIN h : M[j] = EntryNode(h, k)
     /\ \A k \in DOMAIN h : \E j \in 1..Len(M) : M[j].name = "entry" /\ M[j].attrs.key = k

(* A file has the fields and the sections of a thing.                       *)
FileHolds(document, t) ==
  LET K == document.kids
  IN /\ IsSeq(K) /\ Len(K) \in Nat \ {0}
     /\ \A i \in 1..Len(K) :
          /\ K[i].name # "bits"
          /\ K[i].name \in Fields => IntegerOf(TextOf(K[i].kids)) = t[K[i].name]
          /\ K[i].name \in Sections =>
               /\ SectionHolds(K[i], t[K[i].name])
               /\ \A m \in 1..Len(K) : K[m].name = K[i].name => m = i
     /\ \A f \in Fields : t[f] = NewThing[f] \/ \E i \in 1..Len(K) : K[i].name = f
     /\ \A s \in Sections : DOMAIN t[s] = {} \/ \E i \in 1..Len(K) : K[i].name = s

-----------------------------------------------------------------------------
(* The inductive invariant                                                  *)

(* A value that was read once, and one that was read twice.                 *)
Once(v) ==
  /\ v.type \notin {"boolean", "array", "hash"}
  /\ v.type \in {"number", "funcptr", "tcp"} => v = Val(v.type)
  /\ v.type \in {"string", "server"} => Tidy(v.text) /\ Len(v.text) < StringSize
  /\ v.type = "thing" => v.id \in Existing
  /\ v.type = "server" => v.id = Reached(v.id)

Settled(v) == Once(v) /\ (v.type \in {"string", "server"} => SpacedOnce(v.text))

Loaded(times, t) ==
  /\ times >= 1 => /\ ~t.wizard
                   /\ \A s \in Sections : \A k \in DOMAIN t[s] : Once(t[s][k].value)
  /\ times >= 2 => \A s \in Sections : \A k \in DOMAIN t[s] : Settled(t[s][k].value)

(* Of the saved thing there is something in memory, as it may come back.    *)
HashOf(h, g) ==
  /\ h = [k \in DOMAIN h |-> h[k]] /\ DOMAIN h \subseteq DOMAIN g
  /\ \A k \in DOMAIN h :
       /\ h[k] = [value |-> h[k].value, owner |-> g[k].owner, mode |-> g[k].mode]
       /\ Back(g[k].value, h[k].value)

Fully(t) ==
  t = [id |-> t.id, parent |-> t.parent, owner |-> t.owner, mode |-> t.mode,
       wizard |-> t.wizard, properties |-> t.properties, methods |-> t.methods]

PartOf(t) ==
  /\ Fully(t) /\ t.wizard = FALSE
  /\ \A f \in Fields : t[f] \in {saved[f], NewThing[f]}
  /\ \A s \in Sections : HashOf(t[s], saved[s])

(* What is not in memory is still to be read: all that comes from the jth   *)
(* node of the ith element on has not been read yet, and of an entry the    *)
(* value is being read.                                                     *)
Done(s, k) == k \in DOMAIN thing[s] \/ saved[s][k].value.type = "boolean" \/ Hidden(s, k)

Key(i, j) == <<file.kids[i].name, file.kids[i].kids[j].attrs.key>>
IsEntry(i, j) == file.kids[i].name \in Sections /\ file.kids[i].kids[j].name = "entry"

ReadUpTo(i, j, pending) ==
  /\ \A f \in Fields :
       \/ thing[f] = saved[f]
       \/ \E m \in 1..Len(file.kids) : file.kids[m].name = f /\ (m > i \/ (m = i /\ j < 0))
  /\ \A s \in Sections : \A k \in DOMAIN saved[s] :
       \/ Done(s, k)
       \/ pending = <<s, k>>
       \/ \E m \in 1..Len(file.kids) : \E n \in 1..Len(file.kids[m].kids) :
            IsEntry(m, n) /\ Key(m, n) = <<s, k>> /\ (m > i \/ (m = i /\ n > j))

ThingCall      == ReadCall("thing", Nothing, NoAttrs, TRUE)
SectionCall(s) == ReadCall(s, Nothing, NoAttrs, TRUE)

InThing(i) ==
  /\ reading = <<ThingCall>> /\ current = <<i>>
  /\ \/ step = "entry" /\ ReadUpTo(i, -1, Nothing)
     \/ step \in {"next", "return"} /\ ReadUpTo(i + 1, -1, Nothing)
  /\ step = "return" => i = Len(file.kids)

InSection(i, j) ==
  /\ file.kids[i].name \in Sections
  /\ reading = <<ThingCall, SectionCall(file.kids[i].name)>> /\ current = <<i, j>>
  /\ \/ step = "entry" /\ ReadUpTo(i, j - 1, Nothing)
     \/ step \in {"next", "return"} /\ ReadUpTo(i, j, Nothing)
  /\ step = "return" => j = Len(file.kids[i].kids)

(* In the value of an entry, at its nth node.                               *)
InValue(i, j, n) ==
  LET entry == file.kids[i].kids[j]
      v     == saved[file.kids[i].name][entry.attrs.key].value
      w     == reading[3].value
  IN /\ current = <<i, j, n>> /\ n \in 1..Len(entry.kids)
     /\ IsEntry(i, j) /\ v.type \in ByEntry
     /\ reading = <<ThingCall, SectionCall(file.kids[i].name),
                    ReadCall("value", w, entry.attrs, TRUE)>>
     /\ \/ step = "entry" /\ w = After(v, n - 1)
        \/ step = "next" /\ w = After(v, n)
        \/ step = "return" /\ Back(v, w)
     /\ ReadUpTo(i, j, Key(i, j))

(* Behind a connection, at the entry after it or a later one.               *)
BehindConnection(i, h, j) ==
  LET entry == file.kids[i].kids[h]
  IN /\ IsEntry(i, h) /\ entry.attrs.type = "tcp" /\ h <= j
     /\ reading = <<ThingCall, SectionCall(file.kids[i].name),
                    ReadCall("value", Val("tcp"), entry.attrs, FALSE)>>
     /\ current = <<i, j>>
     /\ step \in {"entry", "next", "return"} /\ (step = "return" => j = Len(file.kids[i].kids))
     /\ ReadUpTo(i, j, Key(i, h))

Walks ==
  \E i \in 1..Len(file.kids) :
    \/ InThing(i)
    \/ \E j \in 1..Len(file.kids[i].kids) :
         \/ InSection(i, j)
         \/ \E n \in Nat : InValue(i, j, n)
         \/ \E h \in 1..Len(file.kids[i].kids) : BehindConnection(i, h, j)

Fresh ==
  /\ saves = 0 /\ saved = Nothing /\ step = "running" /\ reading = <<>>
  /\ thing = Nothing \/ IsThing(thing)

SavedOnce ==
  /\ saves > 0 /\ IsThing(saved) /\ Loaded(saves - 1, saved) /\ FileHolds(file, saved)
  /\ \/ step = "stopped" /\ thing = Nothing /\ reading = <<>>
     \/ step = "running" /\ thing = Nothing /\ reading = <<>>
     \/ /\ PartOf(thing)
        /\ \/ Walks
           \/ step = "running" /\ reading = <<>> /\ ReadUpTo(Len(file.kids) + 1, -1, Nothing)

FileInv == saves \in 0..MaxSaves /\ (Fresh \/ SavedOnce)

-----------------------------------------------------------------------------
(* Values that come back                                                    *)

LEMMA ReadAgain ==
  ASSUME NEW v, IsValue(v), v.type \in {"string", "server"}
  PROVE  LET t == Stripped(v.text)
         IN /\ IsSeq(v.text) /\ t \in Seq(ToSet(t)) /\ Tidy(t) /\ Len(t) < StringSize
            /\ Tidy(v.text) /\ Len(v.text) < StringSize => SpacedOnce(t)
            /\ SpacedOnce(v.text) => t = v.text
<1>1. IsSeq(v.text)
  BY DEF IsValue, IsSeq
<1> DEFINE text == v.text
           t == Stripped(text)
<1>2. IsSeq(text)
  BY <1>1
<1> HIDE DEF text
<1>3. Tidy(t) /\ Len(t) < StringSize
  BY <1>2, StrippedTidy
<1>4. t \in Seq(ToSet(t))
  <2> HIDE DEF t
  <2>1. IsSeq(t)
    BY <1>3 DEF Tidy
  <2> QED
    BY <2>1, SeqFacts DEF ToSet
<1>5. Tidy(text) /\ Len(text) < StringSize => SpacedOnce(t)
  BY StrippedOfTidy, EndedSpacedOnce
<1>6. SpacedOnce(text) => t = text
  BY <1>2, SpacedOnceTidy
<1> QED
  BY <1>2, <1>3, <1>4, <1>5, <1>6 DEF text

(* What comes back of a value is one.                                       *)
LEMMA BackIsValue ==
  ASSUME NEW v, IsValue(v), NEW w, Back(v, w)
  PROVE  IsValue(w) /\ Once(w)
<1> DEFINE R(type, text, num, id) ==
             [type |-> type, text |-> text, num |-> num, id |-> id, params |-> <<>>, code |-> <<>>]
           O == Whole(0)
<1>1. v.type \in Types
  BY DEF IsValue
<1>2. -1 \in Integer
  BY IntegerFacts
<1>3. ASSUME w = Nil PROVE IsValue(w) /\ Once(w)
  <2>1. w = R("nil", <<>>, O, -1)
    BY <1>3 DEF Nil, Val
  <2> HIDE DEF O
  <2> QED
    BY <2>1 DEF IsValue, Once, Types, AtOnce, O
<1>4. ASSUME NEW id \in Integer \cap Existing, w = ThingVal(id)
      PROVE  IsValue(w) /\ Once(w)
  <2>1. w = R("thing", <<>>, O, id)
    BY <1>4 DEF ThingVal, Val
  <2> HIDE DEF O
  <2> QED
    BY <2>1 DEF IsValue, Once, Types, AtOnce, O
<1>5. CASE v.type \in {"nil", "array", "hash"}
  BY <1>3, <1>4, <1>5 DEF Back
<1>6. CASE v.type = "thing"
  <2>1. v.id \in Integer /\ v = R("thing", <<>>, O, v.id)
    BY <1>6 DEF IsValue
  <2>2. v = ThingVal(v.id)
    BY <2>1 DEF ThingVal, Val
  <2>3. w = Nil \/ (v.id \in Existing /\ w = v)
    BY <1>6 DEF Back
  <2> QED
    BY <1>3, <1>4, <2>1, <2>2, <2>3
<1>7. CASE v.type \in {"number", "funcptr", "tcp"}
  <2>1. w = R(v.type, <<>>, O, -1)
    BY <1>7 DEF Back, Val
  <2>2. w = Val(w.type) /\ w.type = v.type
    BY <2>1 DEF Val
  <2> HIDE DEF O
  <2> QED
    BY <1>7, <2>1, <2>2 DEF IsValue, Once, Types, AtOnce, O
<1>8. CASE v.type = "string"
  <2> DEFINE t == Stripped(v.text)
  <2>1. t \in Seq(ToSet(t)) /\ Tidy(t) /\ Len(t) < StringSize
    BY <1>8, ReadAgain
  <2>2. w = R("string", t, O, -1)
    BY <1>8 DEF Back, StringVal, Val
  <2> HIDE DEF O, t
  <2> QED
    BY <2>1, <2>2 DEF IsValue, Once, Types, AtOnce, O
<1>9. CASE v.type = "server"
  <2> DEFINE t == Stripped(v.text)
             i == Reached(v.id)
             n == v.num
  <2>1. t \in Seq(ToSet(t)) /\ Tidy(t) /\ Len(t) < StringSize
    BY <1>9, ReadAgain
  <2>2. w = R("server", t, n, i)
    BY <1>9 DEF Back
  <2>3. i \in Integer /\ i = Reached(i)
    BY <1>2, <1>9 DEF IsValue, Reached
  <2>4. n.p \in Integer /\ n = Whole(n.p)
    BY <1>9 DEF IsValue
  <2> HIDE DEF O, t, i, n
  <2> QED
    BY <2>1, <2>2, <2>3, <2>4 DEF IsValue, Once, Types, AtOnce
<1>10. CASE v.type \in {"expr", "moolambda"}
  <2>1. w = [type |-> v.type, text |-> <<>>, num |-> O, id |-> -1,
             params |-> IF v.type = "expr" THEN <<>> ELSE w.params, code |-> w.code]
    BY <1>10 DEF Back
  <2> HIDE DEF O
  <2>2. w.type = v.type
    BY <2>1
  <2> QED
    BY <1>10, <2>1, <2>2 DEF IsValue, Once, Types, AtOnce, O
<1>11. v.type # "boolean"
  BY DEF Back
<1> QED
  BY <1>1, <1>5, <1>6, <1>7, <1>8, <1>9, <1>10, <1>11 DEF Types, AtOnce

(* Of a value that was read before, one comes back that is settled, ...     *)
LEMMA BackSettles ==
  ASSUME NEW v, IsValue(v), Once(v), NEW w, Back(v, w)
  PROVE  Settled(w)
<1>1. Once(w)
  BY BackIsValue
<1>2. CASE v.type \in {"string", "server"}
  <2>1. w.text = Stripped(v.text)
    BY <1>2 DEF Back, StringVal, Val
  <2>2. SpacedOnce(Stripped(v.text))
    BY <1>2, ReadAgain DEF Once
  <2> QED
    BY <1>1, <2>1, <2>2 DEF Settled
<1>3. CASE v.type \notin {"string", "server"}
  <2>1. v.type \in Types
    BY DEF IsValue
  <2>2. w.type \notin {"string", "server"}
    BY <1>3, <2>1 DEF Back, Once, Types, AtOnce, Nil, Val
  <2> QED
    BY <1>1, <2>2 DEF Settled
<1> QED
  BY <1>2, <1>3

(* ... and of a settled one the same.                                       *)
LEMMA BackIsSame ==
  ASSUME NEW v, IsValue(v), (Settled(v) /\ Readable(v)) \/ Kept(v), NEW w, Back(v, w)
  PROVE  w = v
<1>1. v.type \in Types
  BY DEF IsValue
<1> DEFINE R(type, text, num, id) ==
             [type |-> type, text |-> text, num |-> num, id |-> id, params |-> <<>>, code |-> <<>>]
           O == Whole(0)
<1>2. CASE v.type = "nil"
  <2>1. v = R("nil", <<>>, O, -1)
    BY <1>2 DEF IsValue
  <2>2. w = Nil /\ Nil = R("nil", <<>>, O, -1)
    BY <1>2 DEF Back, Nil, Val
  <2> QED
    BY <2>1, <2>2
<1>3. CASE v.type \in {"number", "funcptr", "tcp"}
  BY <1>3 DEF Settled, Once, Kept, Back
<1>4. CASE v.type = "thing"
  BY <1>4 DEF Settled, Once, Kept, Back
<1>5. CASE v.type \in {"expr", "moolambda"}
  BY <1>5 DEF Back, Kept
<1>6. CASE v.type = "string"
  <2>1. SpacedOnce(v.text)
    BY <1>6 DEF Settled, Kept
  <2>2. Stripped(v.text) = v.text
    BY <1>6, <2>1, ReadAgain
  <2>3. w = R("string", v.text, O, -1)
    BY <1>6, <2>2 DEF Back, StringVal, Val
  <2>4. v = R("string", v.text, O, -1)
    BY <1>6 DEF IsValue
  <2> QED
    BY <2>3, <2>4
<1>7. CASE v.type = "server"
  <2>1. SpacedOnce(v.text) /\ Reached(v.id) = v.id
    BY <1>7 DEF Settled, Once, Kept, Reached
  <2>2. Stripped(v.text) = v.text
    BY <1>7, <2>1, ReadAgain
  <2>3. w = R("server", v.text, v.num, v.id)
    BY <1>7, <2>1, <2>2 DEF Back
  <2>4. v = R("server", v.text, v.num, v.id)
    BY <1>7 DEF IsValue
  <2> QED
    BY <2>3, <2>4
<1>8. v.type \notin {"boolean", "array", "hash"}
  BY DEF Settled, Once, Kept, Back
<1> QED
  BY <1>1, <1>2, <1>3, <1>4, <1>5, <1>6, <1>7, <1>8 DEF Types, AtOnce

-----------------------------------------------------------------------------
(* What is written                                                          *)

LEMMA OrderCovers ==
  ASSUME NEW S, IsFiniteSet(S), NEW q \in SetToSeqs(S)
  PROVE  /\ IsSeq(q)
         /\ \A i \in 1..Len(q) : q[i] \in S
         /\ \A k \in S : \E i \in 1..Len(q) : q[i] = k
<1> DEFINE n == Cardinality(S)
           D == 1..n
<1>1. n \in Nat
  BY FS_CardinalityType
<1>2. q \in [D -> S] /\ \A i, j \in D : i # j => q[i] # q[j]
  BY DEF SetToSeqs
<1>3. IsFiniteSet(D) /\ Cardinality(D) = n
  <2> HIDE DEF n
  <2> QED
    BY <1>1, FS_Interval
<1> HIDE DEF D, n
<1>4. q \in Injection(D, S)
  BY <1>2 DEF Injection, IsInjective
<1>5. q \in Surjection(D, S)
  BY <1>3, <1>4, FS_Injection DEF n
<1>6. \A k \in S : \E i \in D : q[i] = k
  BY <1>5 DEF Surjection
<1>7. IsSeq(q) /\ Len(q) = n
  <2>1. q = [i \in 1..n |-> q[i]]
    BY <1>2 DEF D
  <2> QED
    BY <1>1, <2>1, LenIs
<1> QED
  BY <1>2, <1>6, <1>7 DEF D

LEMMA SectionIsHeld ==
  ASSUME NEW name, NEW h, IsFiniteSet(DOMAIN h), NEW order \in SetToSeqs(DOMAIN h)
  PROVE  Section(name, h, order).name = name /\ SectionHolds(Section(name, h, order), h)
<1> DEFINE id == Leaf("id", IntegerText(-1))
           s == [i \in DOMAIN order |-> EntryNode(h, order[i])]
           E == <<id>> \o s
           node == Section(name, h, order)
           M == node.kids
           S == {id} \cup {s[i] : i \in 1..Len(order)}
<1>1. /\ IsSeq(order) /\ DOMAIN order = 1..Len(order) /\ Len(order) \in Nat
      /\ \A i \in 1..Len(order) : order[i] \in DOMAIN h
      /\ \A k \in DOMAIN h : \E i \in 1..Len(order) : order[i] = k
  BY OrderCovers, SeqFacts
<1> DEFINE n == Len(order)
<1>2. node = Element(name, NoAttrs, E)
  BY DEF Section, EntryNode
<1>3. s \in Seq(S) /\ Len(s) = n
  <2>1. s = [i \in 1..n |-> s[i]] /\ n \in Nat
    BY <1>1
  <2>2. \A i \in 1..n : s[i] \in S
    OBVIOUS
  <2> HIDE DEF s, S, n
  <2>3. s \in [1..n -> S]
    BY <2>1, <2>2
  <2> QED
    BY <2>1, <2>3, LenIs, SeqDef
<1>4. /\ E \in Seq(S) /\ Len(E) = n + 1 /\ E[1] = id
      /\ \A i \in 1..n : E[i + 1] = EntryNode(h, order[i])
  <2>1. id \in S
    OBVIOUS
  <2>2. \A i \in 1..n : s[i] = EntryNode(h, order[i])
    BY <1>1
  <2> HIDE DEF s, S, n, id
  <2> QED
    BY <1>3, <2>1, <2>2, Preceded
<1>5. n \in Nat /\ n + 1 \in Nat
  BY <1>1
<1> HIDE DEF E, S, s, n
<1>6. /\ node.name = name /\ IsSeq(M) /\ Len(M) = 2 * (n + 1) + 1
      /\ \A i \in 1..(n + 1) : 2 * i \in 1..Len(M) /\ M[2 * i] = E[i]
      /\ \A j \in 1..Len(M) : M[j] = Blank \/ \E i \in 1..(n + 1) : M[j] = E[i]
  <2> DEFINE e == Element(name, NoAttrs, E)
  <2>1. /\ e.name = name /\ IsSeq(e.kids) /\ Len(e.kids) = 2 * (n + 1) + 1
        /\ DOMAIN e.kids = 1..(2 * (n + 1) + 1)
        /\ \A i \in 1..(n + 1) : 2 * i \in DOMAIN e.kids /\ e.kids[2 * i] = E[i]
        /\ \A j \in DOMAIN e.kids : e.kids[j] = Blank \/ \E i \in 1..(n + 1) : e.kids[j] = E[i]
    BY <1>4, <1>5, ElementFacts
  <2> HIDE DEF e
  <2> QED
    BY <1>2, <2>1 DEF e
<1>7. \A i \in 1..(n + 1) : E[i] = id \/ \E m \in 1..n : E[i] = EntryNode(h, order[m])
  <2> TAKE i \in 1..(n + 1)
  <2>1. CASE i = 1
    BY <1>4, <2>1
  <2>2. CASE i # 1
    <3>1. i - 1 \in 1..n /\ (i - 1) + 1 = i
      BY <1>5, <2>2
    <3> QED
      BY <1>4, <3>1
  <2> QED
    BY <2>1, <2>2
<1>8. /\ id.name = "id" /\ id.text = <<>> /\ Blank.name = "text" /\ Blank.text = <<"nl">>
      /\ \A k : /\ EntryNode(h, k).name = "entry" /\ EntryNode(h, k).text = <<>>
                /\ EntryNode(h, k).attrs.key = k
  BY LeafFacts DEF EntryNode, Node
<1>9. <<>> \in Seq({"nl"}) /\ <<"nl">> \in Seq({"nl"})
  OBVIOUS
<1>10. Len(M) \in Nat \ {0} /\ M # <<>>
  BY <1>5, <1>6, NoText
<1> HIDE DEF M, node, id
<1>11. \A j \in 1..Len(M) :
         /\ M[j].text \in Seq({"nl"})
         /\ M[j].name = "entry" => \E k \in DOMAIN h : M[j] = EntryNode(h, k)
  <2> TAKE j \in 1..Len(M)
  <2>1. CASE M[j] = Blank
    BY <1>8, <1>9, <2>1
  <2>2. CASE M[j] = id
    BY <1>8, <1>9, <2>2
  <2>3. ASSUME NEW m \in 1..n, M[j] = EntryNode(h, order[m])
        PROVE  M[j].text \in Seq({"nl"}) /\ \E k \in DOMAIN h : M[j] = EntryNode(h, k)
    <3>1. order[m] \in DOMAIN h
      BY <1>1 DEF n
    <3>2. M[j].text = <<>>
      BY <1>8, <2>3
    <3> QED
      BY <1>9, <2>3, <3>1, <3>2
  <2> QED
    BY <1>6, <1>7, <2>1, <2>2, <2>3
<1>12. ASSUME NEW k \in DOMAIN h
       PROVE  \E j \in 1..Len(M) : M[j].name = "entry" /\ M[j].attrs.key = k
  <2>1. PICK i \in 1..n : order[i] = k
    BY <1>1 DEF n
  <2>2. i + 1 \in 1..(n + 1) /\ E[i + 1] = EntryNode(h, k)
    BY <1>4, <1>5, <2>1
  <2>3. 2 * (i + 1) \in 1..Len(M) /\ M[2 * (i + 1)] = EntryNode(h, k)
    BY <1>6, <2>2
  <2> QED
    BY <1>8, <2>3
<1> QED
  BY <1>6, <1>10, <1>11, <1>12 DEF SectionHolds, M, node

(* Elements in a row, no two with the same name.                            *)
Nodes(q) == {q[i] : i \in 1..Len(q)}
DistinctNames(q) == IsSeq(q) /\ \A i, m \in 1..Len(q) : q[i].name = q[m].name => i = m

LEMMA OneMore ==
  ASSUME NEW q, DistinctNames(q), NEW x, \A y \in Nodes(q) : y.name # x.name,
         NEW part, part = <<>> \/ part = <<x>>
  PROVE  /\ DistinctNames(q \o part)
         /\ Nodes(q \o part) = Nodes(q) \cup (IF part = <<>> THEN {} ELSE {x})
<1>1. q \in Seq(Nodes(q)) /\ Len(q) \in Nat
  BY SeqFacts DEF DistinctNames, Nodes
<1>2. CASE part = <<>>
  <2>1. q \o part = q
    BY <1>1, <1>2, ConcatEmptySeq
  <2> QED
    BY <1>2, <2>1
<1>3. CASE part = <<x>>
  <2> DEFINE r == q \o <<x>>
             S == Nodes(q) \cup {x}
  <2>1. q \in Seq(S) /\ <<x>> \in Seq(S) /\ Len(<<x>>) = 1 /\ <<x>>[1] = x
    <3>1. Nodes(q) \subseteq S /\ x \in S
      OBVIOUS
    <3> HIDE DEF S
    <3> QED
      BY <1>1, <3>1
  <2> HIDE DEF S
  <2>2. PICK n \in Nat : n = Len(q)
    BY <1>1
  <2>3. /\ r \in Seq(S) /\ Len(r) = n + 1
        /\ \A i \in 1..n : r[i] = q[i]
        /\ r[n + 1] = x
    BY <2>1, <2>2, ConcatProperties
  <2> HIDE DEF r
  <2>4. \A i \in 1..(n + 1) : i \in 1..n \/ i = n + 1
    BY <2>2
  <2>5. \A i \in 1..n : q[i] \in Nodes(q) /\ q[i].name # x.name
    BY <2>2 DEF Nodes
  <2>6. DistinctNames(r)
    <3> SUFFICES ASSUME NEW i \in 1..(n + 1), NEW m \in 1..(n + 1), r[i].name = r[m].name
                 PROVE  i = m
      BY <2>3 DEF DistinctNames, IsSeq
    <3>1. CASE i \in 1..n /\ m \in 1..n
      BY <2>2, <2>3, <3>1 DEF DistinctNames
    <3>2. CASE i \in 1..n /\ m = n + 1
      BY <2>3, <2>5, <3>2
    <3>3. CASE i = n + 1 /\ m \in 1..n
      BY <2>3, <2>5, <3>3
    <3> QED
      BY <2>4, <3>1, <3>2, <3>3
  <2>7. Nodes(r) = Nodes(q) \cup {x}
    <3>1. Nodes(r) = {r[i] : i \in 1..(n + 1)} /\ Nodes(q) = {q[i] : i \in 1..n}
      BY <2>2, <2>3 DEF Nodes
    <3>2. n + 1 \in 1..(n + 1) /\ \A i \in 1..n : i \in 1..(n + 1)
      BY <2>2
    <3> QED
      BY <2>3, <2>4, <3>1, <3>2
  <2>8. part # <<>>
    BY <1>3, <2>1, NoText
  <2> QED
    BY <1>3, <2>6, <2>7, <2>8 DEF r
<1> QED
  BY <1>2, <1>3

(* A file holds the thing that was saved in it.                             *)
LEMMA DocumentHolds ==
  ASSUME NEW t, IsThing(t), NEW order \in Orders(t)
  PROVE  FileHolds(Document(t, order), t)
<1> DEFINE When(condition, element) == IF condition THEN <<element>> ELSE <<>>
           id == Leaf("id", IntegerText(t.id))
           parent == Leaf("parent", IntegerText(t.parent))
           owner == Leaf("owner", IntegerText(t.owner))
           mode == Leaf("mode", OctalText(t.mode))
           properties == Section("properties", t.properties, order.properties)
           methods == Section("methods", t.methods, order.methods)
           b == When(t.parent >= 0, parent)
           c == When(t.owner >= 0, owner)
           d == When(t.mode # DefaultMode, mode)
           e == When(t.properties # <<>>, properties)
           f == When(t.methods # <<>>, methods)
           E == <<id>> \o b \o c \o d \o e \o f
           doc == Document(t, order)
           K == doc.kids
           Among(part, x) == IF part = <<>> THEN {} ELSE {x}
<1>1. doc = Element("thing", NoAttrs, E)
  BY DEF Document
<1>2. /\ b = <<>> \/ b = <<parent>>
      /\ c = <<>> \/ c = <<owner>>
      /\ d = <<>> \/ d = <<mode>>
      /\ e = <<>> \/ e = <<properties>>
      /\ f = <<>> \/ f = <<methods>>
  OBVIOUS
<1>3. /\ id.name = "id" /\ parent.name = "parent" /\ owner.name = "owner" /\ mode.name = "mode"
      /\ TextOf(id.kids) = IntegerText(t.id) /\ TextOf(parent.kids) = IntegerText(t.parent)
      /\ TextOf(owner.kids) = IntegerText(t.owner) /\ TextOf(mode.kids) = OctalText(t.mode)
      /\ Blank.name = "text"
  BY LeafFacts
<1>4. /\ IntegerOf(TextOf(id.kids)) = t.id /\ IntegerOf(TextOf(parent.kids)) = t.parent
      /\ IntegerOf(TextOf(owner.kids)) = t.owner /\ IntegerOf(TextOf(mode.kids)) = t.mode
  <2>1. t.id \in Integer /\ t.parent \in Integer /\ t.owner \in Integer /\ t.mode \in Mode
    BY IntegerFacts DEF IsThing
  <2> QED
    BY <1>3, <2>1, IntegerTextRead, OctalTextRead
<1>5. /\ properties.name = "properties" /\ SectionHolds(properties, t.properties)
      /\ methods.name = "methods" /\ SectionHolds(methods, t.methods)
  <2>1. /\ IsFiniteSet(DOMAIN t.properties) /\ IsFiniteSet(DOMAIN t.methods)
        /\ order.properties \in SetToSeqs(DOMAIN t.properties)
        /\ order.methods \in SetToSeqs(DOMAIN t.methods)
    BY DEF IsThing, IsHash, Orders
  <2> QED
    BY <2>1, SectionIsHeld
<1>6. /\ b # <<>> <=> t.parent >= 0
      /\ c # <<>> <=> t.owner >= 0
      /\ d # <<>> <=> t.mode # DefaultMode
      /\ e # <<>> <=> t.properties # <<>>
      /\ f # <<>> <=> t.methods # <<>>
  <2>1. \A x : <<x>> # <<>>
    OBVIOUS
  <2> QED
    BY <2>1
<1> HIDE DEF id, parent, owner, mode, properties, methods, b, c, d, e, f
<1>7. /\ DistinctNames(E)
      /\ Nodes(E) = {id} \cup Among(b, parent) \cup Among(c, owner) \cup Among(d, mode)
                      \cup Among(e, properties) \cup Among(f, methods)
  <2> DEFINE q1 == <<id>>
             q2 == q1 \o b
             q3 == q2 \o c
             q4 == q3 \o d
             q5 == q4 \o e
             q6 == q5 \o f
  <2>1. DistinctNames(q1) /\ Nodes(q1) = {id}
    <3>1. q1 \in Seq({id}) /\ Len(q1) = 1 /\ q1[1] = id /\ 1..1 = {1}
      OBVIOUS
    <3> QED
      BY <3>1 DEF DistinctNames, Nodes, IsSeq
  <2> HIDE DEF q1
  <2>2. DistinctNames(q2) /\ Nodes(q2) = Nodes(q1) \cup Among(b, parent)
    <3>1. \A y \in Nodes(q1) : y.name # parent.name
      BY <1>3, <2>1
    <3> QED
      BY <1>2, <2>1, <3>1, OneMore
  <2> HIDE DEF q2
  <2>3. DistinctNames(q3) /\ Nodes(q3) = Nodes(q2) \cup Among(c, owner)
    <3>1. \A y \in Nodes(q2) : y.name # owner.name
      BY <1>3, <2>1, <2>2
    <3> QED
      BY <1>2, <2>2, <3>1, OneMore
  <2> HIDE DEF q3
  <2>4. DistinctNames(q4) /\ Nodes(q4) = Nodes(q3) \cup Among(d, mode)
    <3>1. \A y \in Nodes(q3) : y.name # mode.name
      BY <1>3, <2>1, <2>2, <2>3
    <3> QED
      BY <1>2, <2>3, <3>1, OneMore
  <2> HIDE DEF q4
  <2>5. DistinctNames(q5) /\ Nodes(q5) = Nodes(q4) \cup Among(e, properties)
    <3>1. \A y \in Nodes(q4) : y.name # properties.name
      BY <1>3, <1>5, <2>1, <2>2, <2>3, <2>4
    <3> QED
      BY <1>2, <2>4, <3>1, OneMore
  <2> HIDE DEF q5
  <2>6. DistinctNames(q6) /\ Nodes(q6) = Nodes(q5) \cup Among(f, methods)
    <3>1. \A y \in Nodes(q5) : y.name # methods.name
      BY <1>3, <1>5, <2>1, <2>2, <2>3, <2>4, <2>5
    <3> QED
      BY <1>2, <2>5, <3>1, OneMore
  <2>7. E = q6
    BY DEF q1, q2, q3, q4, q5
  <2> HIDE DEF q6
  <2> QED
    BY <2>1, <2>2, <2>3, <2>4, <2>5, <2>6, <2>7
<1> HIDE DEF E
<1>8. PICK n \in Nat : n = Len(E)
  BY <1>7, SeqFacts DEF DistinctNames
<1>9. /\ IsSeq(K) /\ Len(K) = 2 * n + 1
      /\ \A i \in 1..n : 2 * i \in 1..Len(K) /\ K[2 * i] = E[i]
      /\ \A j \in 1..Len(K) : K[j] = Blank \/ \E i \in 1..n : j = 2 * i /\ K[j] = E[i]
  <2> DEFINE x == Element("thing", NoAttrs, E)
  <2>1. /\ IsSeq(x.kids) /\ Len(x.kids) = 2 * n + 1
        /\ DOMAIN x.kids = 1..(2 * n + 1)
        /\ \A i \in 1..n : 2 * i \in DOMAIN x.kids /\ x.kids[2 * i] = E[i]
        /\ \A j \in DOMAIN x.kids :
             x.kids[j] = Blank \/ \E i \in 1..n : j = 2 * i /\ x.kids[j] = E[i]
    <3>1. Len(E) = n
      BY <1>8
    <3> HIDE DEF x
    <3>2. x = Element("thing", NoAttrs, E)
      BY DEF x
    <3> QED
      BY <3>1, <3>2, ElementFacts
  <2> HIDE DEF x
  <2> QED
    BY <1>1, <2>1 DEF x
<1>10. Len(K) \in Nat \ {0}
  BY <1>9
<1> HIDE DEF K, doc
<1>11. \A j \in 1..Len(K) : K[j] = Blank \/ K[j] \in Nodes(E)
  BY <1>8, <1>9 DEF Nodes
<1>12. \A x \in Nodes(E) : \E j \in 1..Len(K) : K[j] = x
  BY <1>8, <1>9 DEF Nodes
<1>13. \A x \in Nodes(E) : x \in {id, parent, owner, mode, properties, methods}
  BY <1>7
<1>14. /\ id \in Nodes(E)
       /\ b # <<>> => parent \in Nodes(E)
       /\ c # <<>> => owner \in Nodes(E)
       /\ d # <<>> => mode \in Nodes(E)
       /\ e # <<>> => properties \in Nodes(E)
       /\ f # <<>> => methods \in Nodes(E)
  BY <1>7
<1>15. /\ id \in Nodes(E)
       /\ t.parent >= 0 => parent \in Nodes(E)
       /\ t.owner >= 0 => owner \in Nodes(E)
       /\ t.mode # DefaultMode => mode \in Nodes(E)
       /\ t.properties # <<>> => properties \in Nodes(E)
       /\ t.methods # <<>> => methods \in Nodes(E)
  BY <1>6, <1>14
<1>16. ASSUME NEW i \in 1..Len(K)
       PROVE  /\ K[i].name # "bits"
              /\ K[i].name \in Fields => IntegerOf(TextOf(K[i].kids)) = t[K[i].name]
              /\ K[i].name \in Sections =>
                   /\ SectionHolds(K[i], t[K[i].name])
                   /\ \A m \in 1..Len(K) : K[m].name = K[i].name => m = i
  <2>1. K[i] \in {Blank, id, parent, owner, mode, properties, methods}
    BY <1>11, <1>13
  <2>2. K[i].name # "bits"
    BY <1>3, <1>5, <2>1
  <2>3. K[i].name \in Fields => IntegerOf(TextOf(K[i].kids)) = t[K[i].name]
    BY <1>3, <1>4, <1>5, <2>1 DEF Fields
  <2>4. K[i].name \in Sections => SectionHolds(K[i], t[K[i].name])
    BY <1>3, <1>5, <2>1 DEF Sections
  <2>5. ASSUME K[i].name \in Sections, NEW m \in 1..Len(K), K[m].name = K[i].name
        PROVE  m = i
    <3>1. K[i] # Blank /\ K[m] # Blank
      BY <1>3, <2>5 DEF Sections
    <3>2. PICK o \in 1..n, p \in 1..n : i = 2 * o /\ K[i] = E[o] /\ m = 2 * p /\ K[m] = E[p]
      BY <1>9, <3>1
    <3>3. o = p
      BY <1>7, <1>8, <2>5, <3>2 DEF DistinctNames
    <3> QED
      BY <3>2, <3>3
  <2> QED
    BY <2>2, <2>3, <2>4, <2>5
<1>17. ASSUME NEW g \in Fields
       PROVE  t[g] = NewThing[g] \/ \E i \in 1..Len(K) : K[i].name = g
  <2>1. /\ t.parent \in Int /\ t.parent >= -1 /\ t.owner \in Int /\ t.owner >= -1
    <3>1. Identifier \subseteq Int /\ \A x \in Identifier : x >= -1
      BY IntegerFacts DEF Identifier
    <3> QED
      BY <3>1 DEF IsThing
  <2>2. NewThing.parent = -1 /\ NewThing.owner = -1 /\ NewThing.mode = DefaultMode
    BY DEF NewThing
  <2>3. CASE g = "id"
    BY <1>3, <1>12, <1>15, <2>3
  <2>4. CASE g = "parent"
    <3>1. CASE t.parent >= 0
      BY <1>3, <1>12, <1>15, <2>4, <3>1
    <3>2. CASE ~(t.parent >= 0)
      BY <2>1, <2>2, <2>4, <3>2
    <3> QED
      BY <3>1, <3>2
  <2>5. CASE g = "owner"
    <3>1. CASE t.owner >= 0
      BY <1>3, <1>12, <1>15, <2>5, <3>1
    <3>2. CASE ~(t.owner >= 0)
      BY <2>1, <2>2, <2>5, <3>2
    <3> QED
      BY <3>1, <3>2
  <2>6. CASE g = "mode"
    BY <1>3, <1>12, <1>15, <2>2, <2>6
  <2> QED
    BY <2>3, <2>4, <2>5, <2>6 DEF Fields
<1>18. ASSUME NEW s \in Sections
       PROVE  DOMAIN t[s] = {} \/ \E i \in 1..Len(K) : K[i].name = s
  <2>1. DOMAIN <<>> = {}
    OBVIOUS
  <2>2. CASE s = "properties"
    BY <1>5, <1>12, <1>15, <2>1, <2>2
  <2>3. CASE s = "methods"
    BY <1>5, <1>12, <1>15, <2>1, <2>3
  <2> QED
    BY <2>2, <2>3 DEF Sections
<1> QED
  BY <1>9, <1>10, <1>16, <1>17, <1>18 DEF FileHolds, K, doc

-----------------------------------------------------------------------------
(* The cursor and the calls under way                                       *)

Stacked(a, b, c) ==
  /\ IsSeq(<<a>>) /\ Len(<<a>>) = 1 /\ <<a>>[1] = a
  /\ IsSeq(<<a, b>>) /\ Len(<<a, b>>) = 2 /\ <<a, b>>[1] = a /\ <<a, b>>[2] = b
  /\ IsSeq(<<a, b, c>>) /\ Len(<<a, b, c>>) = 3
  /\ <<a, b, c>>[1] = a /\ <<a, b, c>>[2] = b /\ <<a, b, c>>[3] = c
  /\ Append(<<a>>, b) = <<a, b>> /\ Append(<<a, b>>, c) = <<a, b, c>>
  /\ Front(<<a>>) = <<>> /\ Front(<<a, b>>) = <<a>> /\ Front(<<a, b, c>>) = <<a, b>>
  /\ Last(<<a>>) = a /\ Last(<<a, b>>) = b /\ Last(<<a, b, c>>) = c
  /\ <<a>> # <<>> /\ <<a, b>> # <<>> /\ <<a, b, c>> # <<>>

LEMMA StackFacts ==
  ASSUME NEW a, NEW b, NEW c
  PROVE  Stacked(a, b, c)
<1> DEFINE S == {a, b, c}
<1>1. <<a>> \in Seq(S) /\ <<a, b>> \in Seq(S) /\ <<a, b, c>> \in Seq(S) /\ b \in S /\ c \in S
  OBVIOUS
<1>2. /\ Len(<<a>>) = 1 /\ <<a>>[1] = a
      /\ Len(<<a, b>>) = 2 /\ <<a, b>>[1] = a /\ <<a, b>>[2] = b
      /\ Len(<<a, b, c>>) = 3
      /\ <<a, b, c>>[1] = a /\ <<a, b, c>>[2] = b /\ <<a, b, c>>[3] = c
  OBVIOUS
<1>3. 1..1 = {1} /\ 1..2 = {1, 2} /\ 1..3 = {1, 2, 3} /\ 1..0 = {}
  OBVIOUS
<1> HIDE DEF S
<1>4. Append(<<a>>, b) = <<a, b>>
  <2> DEFINE s == Append(<<a>>, b)
             t == <<a, b>>
  <2>1. s \in Seq(S) /\ Len(s) = 2 /\ s[1] = a /\ s[2] = b
    BY <1>1, <1>2, AppendProperties
  <2>2. t \in Seq(S) /\ Len(t) = 2 /\ t[1] = a /\ t[2] = b
    BY <1>1, <1>2
  <2> HIDE DEF s, t
  <2>3. \A i \in 1..Len(s) : s[i] = t[i]
    BY <1>3, <2>1, <2>2
  <2> QED
    BY <2>1, <2>2, <2>3, SeqEqual DEF s, t
<1>5. Append(<<a, b>>, c) = <<a, b, c>>
  <2> DEFINE s == Append(<<a, b>>, c)
             t == <<a, b, c>>
  <2>1. s \in Seq(S) /\ Len(s) = 3 /\ s[1] = a /\ s[2] = b /\ s[3] = c
    BY <1>1, <1>2, AppendProperties
  <2>2. t \in Seq(S) /\ Len(t) = 3 /\ t[1] = a /\ t[2] = b /\ t[3] = c
    BY <1>1, <1>2
  <2> HIDE DEF s, t
  <2>3. \A i \in 1..Len(s) : s[i] = t[i]
    BY <1>3, <2>1, <2>2
  <2> QED
    BY <2>1, <2>2, <2>3, SeqEqual DEF s, t
<1>6. Front(<<a>>) = <<>>
  BY <1>2 DEF Front
<1>7. Front(<<a, b>>) = <<a>>
  <2> DEFINE s == SubSeq(<<a, b>>, 1, 1)
             t == <<a>>
  <2>1. s \in Seq(S) /\ Len(s) = 1 /\ s[1] = a
    BY <1>1, <1>2, SubSeqProperties
  <2>2. t \in Seq(S) /\ Len(t) = 1 /\ t[1] = a
    BY <1>1, <1>2
  <2>3. Front(<<a, b>>) = s
    BY <1>2 DEF Front
  <2> HIDE DEF s, t
  <2>4. \A i \in 1..Len(s) : s[i] = t[i]
    BY <1>3, <2>1, <2>2
  <2> QED
    BY <2>1, <2>2, <2>3, <2>4, SeqEqual DEF t
<1>8. Front(<<a, b, c>>) = <<a, b>>
  <2> DEFINE s == SubSeq(<<a, b, c>>, 1, 2)
             t == <<a, b>>
  <2>1. s \in Seq(S) /\ Len(s) = 2 /\ s[1] = a /\ s[2] = b
    BY <1>1, <1>2, SubSeqProperties
  <2>2. t \in Seq(S) /\ Len(t) = 2 /\ t[1] = a /\ t[2] = b
    BY <1>1, <1>2
  <2>3. Front(<<a, b, c>>) = s
    BY <1>2 DEF Front
  <2> HIDE DEF s, t
  <2>4. \A i \in 1..Len(s) : s[i] = t[i]
    BY <1>3, <2>1, <2>2
  <2> QED
    BY <2>1, <2>2, <2>3, <2>4, SeqEqual DEF t
<1>9. Last(<<a>>) = a /\ Last(<<a, b>>) = b /\ Last(<<a, b, c>>) = c
  BY <1>2 DEF Last
<1>10. <<a>> # <<>> /\ <<a, b>> # <<>> /\ <<a, b, c>> # <<>>
  BY <1>2, NoText
<1> QED
  BY <1>1, <1>2, <1>4, <1>5, <1>6, <1>7, <1>8, <1>9, <1>10 DEF IsSeq, Stacked

LEMMA Stacks ==
  /\ \A a : /\ IsSeq(<<a>>) /\ Len(<<a>>) = 1 /\ <<a>>[1] = a
            /\ Append(<<>>, a) = <<a>>
            /\ Front(<<a>>) = <<>> /\ Last(<<a>>) = a /\ <<a>> # <<>>
  /\ \A a, b : /\ IsSeq(<<a, b>>) /\ Len(<<a, b>>) = 2 /\ <<a, b>>[1] = a /\ <<a, b>>[2] = b
               /\ Append(<<a>>, b) = <<a, b>>
               /\ Front(<<a, b>>) = <<a>> /\ Last(<<a, b>>) = b /\ <<a, b>> # <<>>
  /\ \A a, b, c : /\ IsSeq(<<a, b, c>>) /\ Len(<<a, b, c>>) = 3
                  /\ <<a, b, c>>[1] = a /\ <<a, b, c>>[2] = b /\ <<a, b, c>>[3] = c
                  /\ Append(<<a, b>>, c) = <<a, b, c>>
                  /\ Front(<<a, b, c>>) = <<a, b>> /\ Last(<<a, b, c>>) = c
                  /\ <<a, b, c>> # <<>>
<1>1. \A a : Append(<<>>, a) = <<a>>
  OBVIOUS
<1>2. ASSUME NEW a
      PROVE  /\ IsSeq(<<a>>) /\ Len(<<a>>) = 1 /\ <<a>>[1] = a
             /\ Front(<<a>>) = <<>> /\ Last(<<a>>) = a /\ <<a>> # <<>>
  <2>1. Stacked(a, a, a)
    BY StackFacts
  <2> QED
    BY <2>1 DEF Stacked
<1>3. ASSUME NEW a, NEW b
      PROVE  /\ IsSeq(<<a, b>>) /\ Len(<<a, b>>) = 2 /\ <<a, b>>[1] = a /\ <<a, b>>[2] = b
             /\ Append(<<a>>, b) = <<a, b>>
             /\ Front(<<a, b>>) = <<a>> /\ Last(<<a, b>>) = b /\ <<a, b>> # <<>>
  <2>1. Stacked(a, b, b)
    BY StackFacts
  <2> QED
    BY <2>1 DEF Stacked
<1>4. ASSUME NEW a, NEW b, NEW c
      PROVE  /\ IsSeq(<<a, b, c>>) /\ Len(<<a, b, c>>) = 3
             /\ <<a, b, c>>[1] = a /\ <<a, b, c>>[2] = b /\ <<a, b, c>>[3] = c
             /\ Append(<<a, b>>, c) = <<a, b, c>>
             /\ Front(<<a, b, c>>) = <<a, b>> /\ Last(<<a, b, c>>) = c
             /\ <<a, b, c>> # <<>>
  <2>1. Stacked(a, b, c)
    BY StackFacts
  <2> QED
    BY <2>1 DEF Stacked
<1> QED
  BY <1>1, <1>2, <1>3, <1>4

(* The nodes on the ways down.                                              *)
LEMMA NodeFacts ==
  ASSUME NEW node, NEW i, NEW j, NEW n
  PROVE  /\ NodeAt(node, <<>>) = node
         /\ NodeAt(node, <<i>>) = node.kids[i]
         /\ NodeAt(node, <<i, j>>) = node.kids[i].kids[j]
         /\ NodeAt(node, <<i, j, n>>) = node.kids[i].kids[j].kids[n]
<1>1. IsSeq(<<>>) /\ Len(<<>>) = 0 /\ 0 <= 3 /\ 1 <= 3 /\ 2 <= 3 /\ 3 <= 3
  BY NoText DEF Tidy
<1>2. NodeAt(node, <<>>) = node
  BY <1>1, NodeAtIs
<1>3. NodeAt(node, <<i>>) = node.kids[i]
  <2> DEFINE p == <<i>>
  <2>1. IsSeq(p) /\ Len(p) = 1 /\ p[1] = i
    BY Stacks
  <2> HIDE DEF p
  <2>2. NodeAt(node, p) = node.kids[p[1]]
    BY <1>1, <2>1, NodeAtIs
  <2> QED
    BY <2>1, <2>2 DEF p
<1>4. NodeAt(node, <<i, j>>) = node.kids[i].kids[j]
  <2> DEFINE p == <<i, j>>
  <2>1. IsSeq(p) /\ Len(p) = 2 /\ p[1] = i /\ p[2] = j
    BY Stacks
  <2> HIDE DEF p
  <2>2. NodeAt(node, p) = node.kids[p[1]].kids[p[2]]
    BY <1>1, <2>1, NodeAtIs
  <2> QED
    BY <2>1, <2>2 DEF p
<1>5. NodeAt(node, <<i, j, n>>) = node.kids[i].kids[j].kids[n]
  <2> DEFINE p == <<i, j, n>>
  <2>1. IsSeq(p) /\ Len(p) = 3 /\ p[1] = i /\ p[2] = j /\ p[3] = n
    BY Stacks
  <2> HIDE DEF p
  <2>2. NodeAt(node, p) = node.kids[p[1]].kids[p[2]].kids[p[3]]
    BY <1>1, <2>1, NodeAtIs
  <2> QED
    BY <2>1, <2>2 DEF p
<1> QED
  BY <1>2, <1>3, <1>4, <1>5

LEMMA NodesAt ==
  /\ \A node : NodeAt(node, <<>>) = node
  /\ \A node, i : NodeAt(node, <<i>>) = node.kids[i]
  /\ \A node, i, j : NodeAt(node, <<i, j>>) = node.kids[i].kids[j]
  /\ \A node, i, j, n : NodeAt(node, <<i, j, n>>) = node.kids[i].kids[j].kids[n]
<1>1. \A node, i, j, n :
        /\ NodeAt(node, <<>>) = node
        /\ NodeAt(node, <<i>>) = node.kids[i]
        /\ NodeAt(node, <<i, j>>) = node.kids[i].kids[j]
        /\ NodeAt(node, <<i, j, n>>) = node.kids[i].kids[j].kids[n]
  BY NodeFacts, Zenon
<1> QED
  BY <1>1

Changed(calls, v) == [calls EXCEPT ![Len(calls)].value = v]
Valued(call, v)   == [call EXCEPT !.value = v]

LEMMA ChangedIs ==
  \A a, b, c, v : Changed(<<a, b, c>>, v) = <<a, b, Valued(c, v)>>
<1> TAKE a, b, c, v
<1> DEFINE d == Valued(c, v)
           calls == <<a, b, c>>
           changed == Changed(calls, v)
<1>1. Len(calls) = 3 /\ DOMAIN calls = 1..3 /\ calls[1] = a /\ calls[2] = b /\ calls[3] = c
  BY Stacks
<1> HIDE DEF calls
<1>2. /\ DOMAIN changed = 1..3
      /\ changed[1] = a /\ changed[2] = b /\ changed[3] = d
      /\ changed = [i \in 1..3 |-> changed[i]]
  <2> HIDE DEF changed, d
  <2> DEFINE n == Len(calls)
             x == Valued(calls[n], v)
  <2>1. changed = [calls EXCEPT ![n] = x]
    BY DEF changed, Changed, Valued
  <2>2. n = 3 /\ x = d
    BY <1>1 DEF d
  <2> HIDE DEF n, x
  <2>3. changed = [m \in DOMAIN calls |-> IF m = n THEN x ELSE calls[m]]
    BY <2>1
  <2>4. changed = [m \in 1..3 |-> IF m = 3 THEN d ELSE calls[m]]
    BY <1>1, <2>2, <2>3
  <2>5. 1 \in 1..3 /\ 2 \in 1..3 /\ 3 \in 1..3
    OBVIOUS
  <2> QED
    BY <1>1, <2>4, <2>5
<1> HIDE DEF changed, d
<1>3. DOMAIN <<a, b, d>> = 1..3 /\ <<a, b, d>> = [i \in 1..3 |-> <<a, b, d>>[i]]
  OBVIOUS
<1>4. <<a, b, d>>[1] = a /\ <<a, b, d>>[2] = b /\ <<a, b, d>>[3] = d /\ 1..3 = {1, 2, 3}
  OBVIOUS
<1>5. \A i \in 1..3 : changed[i] = <<a, b, d>>[i]
  BY <1>2, <1>4
<1>6. changed = <<a, b, d>>
  BY <1>2, <1>3, <1>5
<1> QED
  BY <1>6 DEF changed, d, calls

LEMMA ValuedIs ==
  \A w, attrs, down, v :
    Valued(ReadCall("value", w, attrs, down), v) = ReadCall("value", v, attrs, down)
  BY DEF Valued, ReadCall

LEMMA InThingIs ==
  ASSUME NEW i \in 1..Len(file.kids), InThing(i)
  PROVE  /\ Reader = ThingCall /\ Reader.of = "thing" /\ reading # <<>> /\ Front(reading) = <<>>
         /\ \A c : Append(reading, c) = <<ThingCall, c>>
         /\ Current = file.kids[i] /\ FirstChild = <<i, 1>> /\ Sibling = <<i + 1>>
         /\ HasNext <=> i < Len(file.kids)
         /\ step \in {"entry", "next", "return"}
<1>1. reading = <<ThingCall>> /\ current = <<i>> /\ step \in {"entry", "next", "return"}
  BY DEF InThing
<1>2. ThingCall.of = "thing"
  BY DEF ThingCall, ReadCall
<1>3. /\ Last(current) = i /\ Front(current) = <<>>
      /\ Append(current, 1) = <<i, 1>> /\ Append(<<>>, i + 1) = <<i + 1>>
  BY <1>1, Stacks
<1>4. NodeAt(file, current) = file.kids[i] /\ NodeAt(file, Front(current)) = file
  BY <1>1, <1>3, NodesAt
<1>5. /\ Last(reading) = ThingCall /\ reading # <<>> /\ Front(reading) = <<>>
      /\ \A c : Append(reading, c) = <<ThingCall, c>>
  BY <1>1, Stacks
<1> QED
  BY <1>1, <1>2, <1>3, <1>4, <1>5 DEF Reader, Current, FirstChild, Sibling, HasNext

LEMMA InSectionIs ==
  ASSUME NEW i \in 1..Len(file.kids), NEW j \in 1..Len(file.kids[i].kids), InSection(i, j)
  PROVE  LET s == file.kids[i].name
         IN /\ s \in Sections /\ Reader = SectionCall(s) /\ Reader.of = s
            /\ reading # <<>> /\ Front(reading) = <<ThingCall>>
            /\ \A c : Append(reading, c) = <<ThingCall, SectionCall(s), c>>
            /\ Current = file.kids[i].kids[j] /\ FirstChild = <<i, j, 1>>
            /\ current = <<i, j>> /\ Sibling = <<i, j + 1>> /\ Parent(current) = <<i>>
            /\ HasNext <=> j < Len(file.kids[i].kids)
            /\ step \in {"entry", "next", "return"}
<1> DEFINE s == file.kids[i].name
<1>1. /\ reading = <<ThingCall, SectionCall(s)>> /\ current = <<i, j>>
      /\ step \in {"entry", "next", "return"} /\ s \in Sections
  BY DEF InSection
<1>2. SectionCall(s).of = s
  BY DEF SectionCall, ReadCall
<1>3. /\ Last(current) = j /\ Front(current) = <<i>> /\ Len(current) = 2
      /\ Append(current, 1) = <<i, j, 1>> /\ Append(<<i>>, j + 1) = <<i, j + 1>>
  BY <1>1, Stacks
<1>4. NodeAt(file, current) = file.kids[i].kids[j] /\ NodeAt(file, Front(current)) = file.kids[i]
  BY <1>1, <1>3, NodesAt
<1>5. /\ Last(reading) = SectionCall(s) /\ reading # <<>> /\ Front(reading) = <<ThingCall>>
      /\ \A c : Append(reading, c) = <<ThingCall, SectionCall(s), c>>
  BY <1>1, Stacks
<1>6. Parent(current) = <<i>>
  BY <1>3 DEF Parent
<1> HIDE DEF s
<1>7. /\ s \in Sections /\ Reader = SectionCall(s) /\ Reader.of = s
      /\ Current = file.kids[i].kids[j] /\ FirstChild = <<i, j, 1>> /\ Sibling = <<i, j + 1>>
      /\ HasNext <=> j < Len(file.kids[i].kids)
  BY <1>1, <1>2, <1>3, <1>4, <1>5, Zenon DEF Reader, Current, FirstChild, Sibling, HasNext
<1> QED
  BY <1>1, <1>5, <1>6, <1>7 DEF s

LEMMA InValueIs ==
  ASSUME NEW i \in 1..Len(file.kids), NEW j \in 1..Len(file.kids[i].kids), NEW n, InValue(i, j, n)
  PROVE  LET s == file.kids[i].name
             entry == file.kids[i].kids[j]
             w == reading[3].value
         IN /\ s \in Sections /\ Reader = ReadCall("value", w, entry.attrs, TRUE)
            /\ Reader.of = "value" /\ Reader.value = w /\ Reader.attrs = entry.attrs /\ Reader.down
            /\ reading = <<ThingCall, SectionCall(s), ReadCall("value", w, entry.attrs, TRUE)>>
            /\ reading # <<>> /\ Front(reading) = <<ThingCall, SectionCall(s)>>
            /\ reading[Len(reading) - 1].of = s
            /\ Current = entry.kids[n]
            /\ current = <<i, j, n>> /\ Sibling = <<i, j, n + 1>> /\ Parent(current) = <<i, j>>
            /\ HasNext <=> n < Len(entry.kids)
            /\ step \in {"entry", "next", "return"}
<1> DEFINE s == file.kids[i].name
           entry == file.kids[i].kids[j]
           w == reading[3].value
           call == ReadCall("value", w, entry.attrs, TRUE)
<1>1. /\ reading = <<ThingCall, SectionCall(s), call>> /\ current = <<i, j, n>>
      /\ step \in {"entry", "next", "return"} /\ s \in Sections
  BY Zenon DEF InValue, IsEntry
<1>2. /\ SectionCall(s).of = s
      /\ call.of = "value" /\ call.value = w /\ call.attrs = entry.attrs /\ call.down = TRUE
  BY DEF SectionCall, ReadCall
<1>3. /\ Last(current) = n /\ Front(current) = <<i, j>> /\ Len(current) = 3
      /\ Append(<<i, j>>, n + 1) = <<i, j, n + 1>>
  BY <1>1, Stacks
<1>4. NodeAt(file, current) = entry.kids[n] /\ NodeAt(file, Front(current)) = entry
  BY <1>1, <1>3, NodesAt
<1> HIDE DEF call
<1>5. /\ Last(reading) = call /\ reading # <<>> /\ Front(reading) = <<ThingCall, SectionCall(s)>>
      /\ Len(reading) = 3 /\ reading[2] = SectionCall(s)
  BY <1>1, Stacks
<1>6. Parent(current) = <<i, j>>
  BY <1>3 DEF Parent
<1> HIDE DEF s, entry, w, call
<1>7. Reader = call /\ Current = entry.kids[n] /\ Sibling = <<i, j, n + 1>>
  BY <1>3, <1>4, <1>5 DEF Reader, Current, Sibling
<1>8. HasNext <=> n < Len(entry.kids)
  BY <1>3, <1>4 DEF HasNext
<1>9. reading[Len(reading) - 1].of = s
  BY <1>2, <1>5
<1>10. Reader.of = "value" /\ Reader.value = w /\ Reader.attrs = entry.attrs /\ Reader.down
  BY <1>2, <1>7
<1> QED
  BY <1>1, <1>5, <1>6, <1>7, <1>8, <1>9, <1>10, Zenon DEF s, entry, w, call

LEMMA BehindConnectionIs ==
  ASSUME NEW i \in 1..Len(file.kids), NEW j \in 1..Len(file.kids[i].kids),
         NEW h \in 1..Len(file.kids[i].kids), BehindConnection(i, h, j)
  PROVE  LET s == file.kids[i].name
             entry == file.kids[i].kids[h]
         IN /\ s \in Sections /\ Reader = ReadCall("value", Val("tcp"), entry.attrs, FALSE)
            /\ Reader.of = "value" /\ Reader.value = Val("tcp") /\ Reader.attrs = entry.attrs
            /\ ~Reader.down
            /\ reading = <<ThingCall, SectionCall(s), ReadCall("value", Val("tcp"), entry.attrs, FALSE)>>
            /\ reading # <<>> /\ Front(reading) = <<ThingCall, SectionCall(s)>>
            /\ reading[Len(reading) - 1].of = s
            /\ current = <<i, j>> /\ Sibling = <<i, j + 1>>
            /\ HasNext <=> j < Len(file.kids[i].kids)
            /\ step \in {"entry", "next", "return"}
<1> DEFINE s == file.kids[i].name
           entry == file.kids[i].kids[h]
           call == ReadCall("value", Val("tcp"), entry.attrs, FALSE)
<1>1. /\ reading = <<ThingCall, SectionCall(s), call>> /\ current = <<i, j>>
      /\ step \in {"entry", "next", "return"} /\ s \in Sections
  BY DEF BehindConnection, IsEntry
<1>2. /\ SectionCall(s).of = s
      /\ call.of = "value" /\ call.value = Val("tcp") /\ call.attrs = entry.attrs
      /\ call.down = FALSE
  BY DEF SectionCall, ReadCall
<1>3. /\ Last(current) = j /\ Front(current) = <<i>>
      /\ Append(<<i>>, j + 1) = <<i, j + 1>>
  BY <1>1, Stacks
<1>4. NodeAt(file, Front(current)) = file.kids[i]
  BY <1>1, <1>3, NodesAt
<1> HIDE DEF call
<1>5. /\ Last(reading) = call /\ reading # <<>> /\ Front(reading) = <<ThingCall, SectionCall(s)>>
      /\ Len(reading) = 3 /\ reading[2] = SectionCall(s)
  BY <1>1, Stacks
<1> HIDE DEF s, entry, call
<1>6. Reader = call /\ Sibling = <<i, j + 1>>
  BY <1>3, <1>5 DEF Reader, Sibling
<1>7. HasNext <=> j < Len(file.kids[i].kids)
  BY <1>3, <1>4 DEF HasNext
<1>8. reading[Len(reading) - 1].of = s
  BY <1>2, <1>5
<1>9. Reader.of = "value" /\ Reader.value = Val("tcp") /\ Reader.attrs = entry.attrs /\ ~Reader.down
  BY <1>2, <1>6
<1> QED
  BY <1>1, <1>5, <1>6, <1>7, <1>8, <1>9, Zenon DEF s, entry, call

-----------------------------------------------------------------------------
(* What reading does to the thing                                           *)

Names7 == {"id", "parent", "owner", "mode", "wizard", "properties", "methods"}

LEMMA FullyIs ==
  ASSUME NEW t
  PROVE  Fully(t) <=> DOMAIN t = Names7 /\ t = [f \in Names7 |-> t[f]]
<1> DEFINE r == [id |-> t.id, parent |-> t.parent, owner |-> t.owner, mode |-> t.mode,
                 wizard |-> t.wizard, properties |-> t.properties, methods |-> t.methods]
<1>1. /\ DOMAIN r = Names7 /\ r = [f \in Names7 |-> r[f]]
  BY DEF Names7
<1>2. \A f \in Names7 : r[f] = t[f]
  BY DEF Names7
<1> HIDE DEF r
<1>3. Fully(t) <=> t = r
  BY DEF Fully, r
<1> QED
  BY <1>1, <1>2, <1>3

LEMMA GoesOn ==
  ASSUME saves \in 0..MaxSaves, SavedOnce, UNCHANGED <<file, saved, saves>>,
         PartOf(thing'),
         Walks' \/ (step' = "running" /\ reading' = <<>> /\ ReadUpTo(Len(file.kids) + 1, -1, Nothing)')
  PROVE  FileInv'
<1>1. PartOf(thing)'
  BY DEF PartOf
<1> QED
  BY <1>1 DEF FileInv, SavedOnce

(* The entry at which the cursor may be.                                    *)
LEMMA EntryIs ==
  ASSUME SavedOnce, NEW i \in 1..Len(file.kids), NEW j \in 1..Len(file.kids[i].kids), IsEntry(i, j)
  PROVE  LET s     == file.kids[i].name
             entry == file.kids[i].kids[j]
             k     == entry.attrs.key
             e     == saved[s][k]
         IN /\ s \in Sections /\ k \in DOMAIN saved[s] /\ entry.name = "entry"
            /\ Key(i, j) = <<s, k>>
            /\ entry.attrs.type = e.value.type /\ entry.kids = Contents(e.value)
            /\ IntegerOf(entry.attrs.owner) = e.owner /\ IntegerOf(entry.attrs.mode) = e.mode
            /\ e = [value |-> e.value, owner |-> e.owner, mode |-> e.mode]
            /\ IsValue(e.value) /\ e.value.type \in Types
            /\ e.owner \in Integer /\ e.mode \in Mode
<1> DEFINE s     == file.kids[i].name
           entry == file.kids[i].kids[j]
           h     == saved[s]
<1>1. s \in Sections /\ entry.name = "entry"
  BY DEF IsEntry
<1>2. SectionHolds(file.kids[i], h) /\ IsHash(h)
  BY <1>1 DEF SavedOnce, FileHolds, IsThing, Sections
<1>3. PICK k \in DOMAIN h : entry = EntryNode(h, k)
  BY <1>1, <1>2 DEF SectionHolds
<1>5. IsHashEntry(h[k])
  BY <1>2, <1>3 DEF IsHash
<1>6. IsValue(h[k].value) /\ h[k].owner \in Integer /\ h[k].mode \in Mode
  BY <1>5 DEF IsHashEntry
<1>7. h[k].value.type \in Types
  BY <1>6, Zenon DEF IsValue
<1>8. h[k] = [value |-> h[k].value, owner |-> h[k].owner, mode |-> h[k].mode]
  BY <1>5, Zenon DEF IsHashEntry
<1>9. IntegerOf(IntegerText(h[k].owner)) = h[k].owner /\ IntegerOf(OctalText(h[k].mode)) = h[k].mode
  BY <1>6, IntegerTextRead, OctalTextRead
<1>10. /\ entry.attrs.key = k /\ entry.attrs.type = h[k].value.type
       /\ entry.attrs.owner = IntegerText(h[k].owner) /\ entry.attrs.mode = OctalText(h[k].mode)
       /\ entry.kids = Contents(h[k].value)
  <2>1. entry.attrs = [key |-> k, type |-> h[k].value.type, owner |-> IntegerText(h[k].owner),
                       mode |-> OctalText(h[k].mode)]
    BY <1>3 DEF EntryNode, Node
  <2>2. entry.kids = Contents(h[k].value)
    BY <1>3 DEF EntryNode, Node
  <2> HIDE DEF entry, h
  <2> QED
    BY <2>1, <2>2
<1>11. Key(i, j) = <<s, entry.attrs.key>>
  BY DEF Key
<1> HIDE DEF s, entry, h
<1> QED
  BY <1>1, <1>3, <1>6, <1>7, <1>8, <1>9, <1>10, <1>11, Zenon DEF s, entry, h

(* An entry is put into its hash.                                           *)
LEMMA PutReads ==
  ASSUME SavedOnce, PartOf(thing), UNCHANGED <<file, saved, saves>>,
         NEW i \in 1..Len(file.kids), NEW j \in 1..Len(file.kids[i].kids), IsEntry(i, j),
         NEW w, Back(saved[file.kids[i].name][file.kids[i].kids[j].attrs.key].value, w),
         Put(file.kids[i].name, w, file.kids[i].kids[j].attrs)
  PROVE  /\ PartOf(thing')
         /\ \A f \in Fields : thing'[f] = thing[f]
         /\ \A s \in Sections : \A k \in DOMAIN thing[s] : k \in DOMAIN thing'[s]
         /\ file.kids[i].kids[j].attrs.key \in DOMAIN thing'[file.kids[i].name]
<1> DEFINE s     == file.kids[i].name
           attrs == file.kids[i].kids[j].attrs
           k     == attrs.key
           e     == saved[s][k]
           hash  == thing[s]
           new   == [value |-> w, owner |-> IntegerOf(attrs.owner), mode |-> IntegerOf(attrs.mode)]
           h     == [l \in DOMAIN hash \cup {k} |-> IF l # k THEN hash[l] ELSE new]
<1>1. /\ s \in Sections /\ k \in DOMAIN saved[s]
      /\ IntegerOf(attrs.owner) = e.owner /\ IntegerOf(attrs.mode) = e.mode
  BY EntryIs, Zenon
<1>2. thing' = [thing EXCEPT ![s] = h]
  BY Zenon DEF Put
<1>3. HashOf(hash, saved[s]) /\ Fully(thing)
  BY <1>1, Zenon DEF PartOf
<1>4. Back(e.value, w)
  BY Zenon
<1>5. new = [value |-> w, owner |-> e.owner, mode |-> e.mode]
  BY <1>1, Zenon
<1> HIDE DEF s, attrs, k, e, new
<1>6. /\ DOMAIN h = DOMAIN hash \cup {k} /\ h[k] = new
      /\ \A l \in DOMAIN hash \ {k} : h[l] = hash[l]
      /\ h = [l \in DOMAIN h |-> h[l]]
  BY Zenon
<1> HIDE DEF h
<1>7. HashOf(h, saved[s])
  <2>1. DOMAIN h \subseteq DOMAIN saved[s]
    BY <1>1, <1>3, <1>6, Zenon DEF HashOf
  <2>2. ASSUME NEW l \in DOMAIN h
        PROVE  /\ h[l] = [value |-> h[l].value, owner |-> saved[s][l].owner, mode |-> saved[s][l].mode]
               /\ Back(saved[s][l].value, h[l].value)
    <3>1. CASE l = k
      <4>1. h[l] = new /\ saved[s][l] = e
        BY <1>6, <3>1, Zenon DEF e
      <4>2. new.value = w
        BY <1>5, Zenon
      <4> QED
        BY <1>4, <1>5, <4>1, <4>2, Zenon
    <3>2. CASE l # k
      BY <1>3, <1>6, <2>2, <3>2, Zenon DEF HashOf
    <3> QED
      BY <3>1, <3>2, Zenon
  <2> QED
    BY <1>6, <2>1, <2>2, Zenon DEF HashOf
<1>8. Sections \subseteq Names7 /\ Fields \subseteq Names7 /\ "wizard" \in Names7
      /\ s \notin Fields /\ s # "wizard"
  BY <1>1, Zenon DEF Sections, Names7, Fields
<1>9. Fully(thing') /\ thing'[s] = h /\ \A g \in Names7 \ {s} : thing'[g] = thing[g]
  <2>1. s \in Names7
    BY <1>1, <1>8, Zenon
  <2> QED
    <3>1. DOMAIN thing = Names7
      BY <1>3, FullyIs, Zenon
    <3>2. /\ DOMAIN thing' = Names7 /\ thing' = [g \in Names7 |-> thing'[g]]
          /\ thing'[s] = h /\ \A g \in Names7 \ {s} : thing'[g] = thing[g]
      BY <1>2, <2>1, <3>1, Zenon
    <3> QED
      BY <3>2, FullyIs, Zenon
<1>10. \A f \in Fields : thing'[f] = thing[f]
  BY <1>8, <1>9, Zenon
<1>11. thing'.wizard = FALSE
  <2>1. thing'["wizard"] = thing["wizard"]
    BY <1>8, <1>9, Zenon
  <2> QED
    BY <2>1, Zenon DEF PartOf
<1>12. \A t \in Sections : HashOf(thing'[t], saved[t])
  <2> TAKE t \in Sections
  <2>1. CASE t = s
    BY <1>7, <1>9, <2>1, Zenon
  <2>2. CASE t # s
    BY <1>8, <1>9, <2>2, Zenon DEF PartOf
  <2> QED
    BY <2>1, <2>2, Zenon
<1>13. PartOf(thing')
  BY <1>9, <1>10, <1>11, <1>12, Zenon DEF PartOf
<1>14. ASSUME NEW t \in Sections, NEW l \in DOMAIN thing[t]
       PROVE  l \in DOMAIN thing'[t]
  <2>1. CASE t = s
    BY <1>6, <1>9, <1>14, <2>1, Zenon
  <2>2. CASE t # s
    BY <1>8, <1>9, <1>14, <2>2, Zenon
  <2> QED
    BY <2>1, <2>2, Zenon
<1>15. k \in DOMAIN thing'[s]
  BY <1>6, <1>9, Zenon
<1> QED
  BY <1>10, <1>13, <1>14, <1>15, Zenon DEF s, k, attrs

(* A field is read into the thing.                                          *)
LEMMA FieldReads ==
  ASSUME SavedOnce, PartOf(thing), UNCHANGED <<file, saved, saves>>,
         NEW i \in 1..Len(file.kids), file.kids[i].name \notin Sections,
         thing' = FieldRead(thing, file.kids[i])
  PROVE  /\ PartOf(thing')
         /\ \A f \in Fields : thing'[f] = thing[f] \/ thing'[f] = saved[f]
         /\ file.kids[i].name \in Fields => thing'[file.kids[i].name] = saved[file.kids[i].name]
         /\ \A s \in Sections : thing'[s] = thing[s]
<1> DEFINE node == file.kids[i]
           n == IntegerOf(TextOf(node.kids))
<1>1. node.name # "bits" /\ (node.name \in Fields => n = saved[node.name])
  BY DEF SavedOnce, FileHolds
<1>2. thing' = FieldRead(thing, node)
  OBVIOUS
<1> HIDE DEF node
<1>3. CASE node.name \notin Fields
  <2>1. thing' = thing
    BY <1>1, <1>2, <1>3 DEF FieldRead, Fields
  <2> QED
    BY <1>3, <2>1 DEF node
<1>4. CASE node.name \in Fields
  <2> DEFINE f == node.name
  <2>1. thing' = [thing EXCEPT ![f] = saved[f]]
    BY <1>1, <1>2, <1>4 DEF FieldRead, Fields
  <2>2. Fully(thing) /\ f \in Names7 /\ f \in Fields
    BY <1>4 DEF PartOf, Fields, Names7
  <2> HIDE DEF f
  <2>3. Fully(thing') /\ thing'[f] = saved[f] /\ \A g \in Names7 \ {f} : thing'[g] = thing[g]
    <3>1. DOMAIN thing = Names7
      BY <2>2, FullyIs
    <3>2. /\ DOMAIN thing' = Names7 /\ thing' = [g \in Names7 |-> thing'[g]]
          /\ thing'[f] = saved[f] /\ \A g \in Names7 \ {f} : thing'[g] = thing[g]
      BY <2>1, <2>2, <3>1
    <3> QED
      BY <3>2, FullyIs
  <2>4. /\ Sections \subseteq Names7 \ {f} /\ Fields \subseteq Names7 /\ "wizard" \in Names7 \ {f}
    BY <2>2 DEF Sections, Fields, Names7
  <2>5. \A g \in Fields : (thing'[g] = thing[g] \/ thing'[g] = saved[g])
    BY <2>3, <2>4
  <2>6. \A s \in Sections : thing'[s] = thing[s]
    BY <2>3, <2>4
  <2>7. thing'.wizard = FALSE
    <3>1. thing'["wizard"] = thing["wizard"]
      BY <2>3, <2>4
    <3> QED
      BY <3>1 DEF PartOf
  <2>8. PartOf(thing')
    BY <2>3, <2>5, <2>6, <2>7 DEF PartOf
  <2> QED
    BY <2>3, <2>5, <2>6, <2>8 DEF f, node
<1> QED
  BY <1>3, <1>4

-----------------------------------------------------------------------------
(* What is still to be read                                                 *)

LEMMA HiddenBehind ==
  ASSUME SavedOnce, NEW i \in 1..Len(file.kids),
         NEW h \in 1..Len(file.kids[i].kids), NEW l \in 1..Len(file.kids[i].kids),
         IsEntry(i, h), IsEntry(i, l), h < l, file.kids[i].kids[h].attrs.type = "tcp"
  PROVE  Hidden(file.kids[i].name, file.kids[i].kids[l].attrs.key)
<1> DEFINE K == file.kids
           section == K[i].name
           key == K[i].kids[l].attrs.key
           choice == CHOOSE n \in ToSet(K) : n.name = section
<1>1. section \in Sections
  BY DEF IsEntry
<1>2. /\ IsSeq(K) /\ \A m \in 1..Len(K) : K[m].name = section => m = i
      /\ SectionHolds(K[i], saved[section])
  BY <1>1 DEF SavedOnce, FileHolds
<1>3. DOMAIN K = 1..Len(K)
  BY <1>2, SeqFacts
<1>4. choice = K[i]
  <2>1. K[i] \in ToSet(K) /\ K[i].name = section
    BY <1>3 DEF ToSet
  <2>2. choice \in ToSet(K) /\ choice.name = section
    BY <2>1
  <2> HIDE DEF choice
  <2>3. PICK m \in 1..Len(K) : choice = K[m]
    BY <1>3, <2>2 DEF ToSet
  <2> QED
    BY <1>2, <2>2, <2>3
<1>5. DOMAIN K[i].kids = 1..Len(K[i].kids)
  BY <1>2, SeqFacts DEF SectionHolds
<1>6. K[i].kids[h].name = "entry" /\ K[i].kids[l].name = "entry"
  BY DEF IsEntry
<1> HIDE DEF section, key, choice
<1>7. Hidden(section, key)
  <2>1. Hidden(section, key) <=>
          \E a, b \in DOMAIN choice.kids :
            /\ a < b /\ choice.kids[a].name = "entry" /\ choice.kids[b].name = "entry"
            /\ choice.kids[a].attrs.type = "tcp" /\ choice.kids[b].attrs.key = key
    BY DEF Hidden, choice
  <2>2. h \in DOMAIN choice.kids /\ l \in DOMAIN choice.kids
    BY <1>4, <1>5
  <2>3. choice.kids[h].attrs.type = "tcp" /\ choice.kids[l].attrs.key = key
    BY <1>4 DEF key
  <2> QED
    BY <1>4, <1>6, <2>1, <2>2, <2>3
<1> QED
  BY <1>7 DEF section, key

LEMMA StillToRead ==
  ASSUME UNCHANGED <<file, saved>>, NEW i, NEW j, NEW p, ReadUpTo(i, j, p), NEW m, NEW n, NEW q,
         \A f \in Fields : thing[f] = saved[f] => thing'[f] = saved[f],
         \A s \in Sections : \A k \in DOMAIN thing[s] : k \in DOMAIN thing'[s],
         \A o \in 1..Len(file.kids) :
           file.kids[o].name \in Fields /\ (o > i \/ (o = i /\ j < 0)) =>
             \/ thing'[file.kids[o].name] = saved[file.kids[o].name]
             \/ o > m \/ (o = m /\ n < 0),
         \A s \in Sections : \A k \in DOMAIN saved[s] : p = <<s, k>> => q = p \/ Done(s, k)',
         \A o \in 1..Len(file.kids) : \A l \in 1..Len(file.kids[o].kids) :
           IsEntry(o, l) /\ (o > i \/ (o = i /\ l > j)) =>
             \/ o > m \/ (o = m /\ l > n) \/ q = Key(o, l)
             \/ \A s \in Sections : \A k \in DOMAIN saved[s] : Key(o, l) = <<s, k>> => Done(s, k)'
  PROVE  ReadUpTo(m, n, q)'
<1>1. ASSUME NEW f \in Fields
      PROVE  \/ thing'[f] = saved[f]
             \/ \E o \in 1..Len(file.kids) : file.kids[o].name = f /\ (o > m \/ (o = m /\ n < 0))
  <2>1. CASE thing[f] = saved[f]
    BY <2>1
  <2>2. CASE thing[f] # saved[f]
    <3>1. PICK o \in 1..Len(file.kids) : file.kids[o].name = f /\ (o > i \/ (o = i /\ j < 0))
      BY <2>2 DEF ReadUpTo
    <3> QED
      BY <3>1
  <2> QED
    BY <2>1, <2>2
<1>2. ASSUME NEW s \in Sections, NEW k \in DOMAIN saved[s]
      PROVE  \/ Done(s, k)' \/ q = <<s, k>>
             \/ \E o \in 1..Len(file.kids) : \E l \in 1..Len(file.kids[o].kids) :
                  IsEntry(o, l) /\ Key(o, l) = <<s, k>> /\ (o > m \/ (o = m /\ l > n))
  <2>1. CASE Done(s, k)
    <3>1. Hidden(s, k)' <=> Hidden(s, k)
      BY DEF Hidden
    <3>2. CASE k \in DOMAIN thing[s]
      BY <3>2 DEF Done
    <3>3. CASE saved[s][k].value.type = "boolean"
      BY <3>3 DEF Done
    <3>4. CASE Hidden(s, k)
      BY <3>1, <3>4 DEF Done
    <3> QED
      BY <2>1, <3>2, <3>3, <3>4 DEF Done
  <2>2. CASE p = <<s, k>>
    BY <2>2
  <2>3. CASE ~Done(s, k) /\ p # <<s, k>>
    <3>1. PICK o \in 1..Len(file.kids) : \E l \in 1..Len(file.kids[o].kids) :
            IsEntry(o, l) /\ Key(o, l) = <<s, k>> /\ (o > i \/ (o = i /\ l > j))
      BY <2>3 DEF ReadUpTo
    <3>2. PICK l \in 1..Len(file.kids[o].kids) :
            IsEntry(o, l) /\ Key(o, l) = <<s, k>> /\ (o > i \/ (o = i /\ l > j))
      BY <3>1
    <3> QED
      BY <3>2
  <2> QED
    BY <2>1, <2>2, <2>3
<1>3. \A o, l : IsEntry(o, l)' <=> IsEntry(o, l)
  BY DEF IsEntry
<1>4. \A o, l : Key(o, l)' = Key(o, l)
  BY DEF Key
<1> QED
  BY <1>1, <1>2, <1>3, <1>4 DEF ReadUpTo

-----------------------------------------------------------------------------
(* Each step keeps the invariant                                            *)

LEMMA WhoReads ==
  ASSUME FileInv, reading # <<>>
  PROVE  SavedOnce /\ PartOf(thing) /\ Walks /\ saves \in 0..MaxSaves
  BY DEF FileInv, Fresh, SavedOnce

LEMMA WhoCalls ==
  ASSUME Walks
  PROVE  /\ Reader.of = "thing" => \E i \in 1..Len(file.kids) : InThing(i)
         /\ Reader.of \in Sections =>
              \E i \in 1..Len(file.kids) : \E j \in 1..Len(file.kids[i].kids) : InSection(i, j)
         /\ Reader.of = "value" =>
              \E i \in 1..Len(file.kids) : \E j \in 1..Len(file.kids[i].kids) :
                \/ \E n \in Nat : InValue(i, j, n)
                \/ \E h \in 1..Len(file.kids[i].kids) : BehindConnection(i, h, j)
<1>1. PICK i \in 1..Len(file.kids) :
        \/ InThing(i)
        \/ \E j \in 1..Len(file.kids[i].kids) :
             \/ InSection(i, j)
             \/ \E n \in Nat : InValue(i, j, n)
             \/ \E h \in 1..Len(file.kids[i].kids) : BehindConnection(i, h, j)
  BY DEF Walks
<1>2. "thing" \notin Sections /\ "value" \notin Sections /\ "thing" # "value"
  BY DEF Sections
<1>3. CASE InThing(i)
  <2>1. Reader.of = "thing"
    BY <1>3, InThingIs
  <2> QED
    BY <1>2, <1>3, <2>1
<1>4. ASSUME NEW j \in 1..Len(file.kids[i].kids), InSection(i, j)
      PROVE  Reader.of \in Sections
  BY <1>4, InSectionIs
<1>5. ASSUME NEW j \in 1..Len(file.kids[i].kids), NEW n \in Nat, InValue(i, j, n)
      PROVE  Reader.of = "value"
  BY <1>5, InValueIs
<1>6. ASSUME NEW j \in 1..Len(file.kids[i].kids), NEW h \in 1..Len(file.kids[i].kids),
             BehindConnection(i, h, j)
      PROVE  Reader.of = "value"
  BY <1>6, BehindConnectionIs
<1> QED
  BY <1>1, <1>2, <1>3, <1>4, <1>5, <1>6

LEMMA KidsFacts ==
  ASSUME SavedOnce
  PROVE  /\ Len(file.kids) \in Nat \ {0}
         /\ \A i \in 1..Len(file.kids) : file.kids[i].name \in Sections =>
              Len(file.kids[i].kids) \in Nat \ {0} /\ file.kids[i].kids # <<>>
  BY DEF SavedOnce, FileHolds, SectionHolds

LEMMA ReadSectionInv ==
  ASSUME FileInv, ReadSection
  PROVE  FileInv'
<1>1. /\ step = "entry" /\ reading # <<>> /\ Reader.of \in {"thing"}
      /\ UNCHANGED <<file, saved, saves, thing, step>>
      /\ Current.name \in Sections
      /\ reading' = Append(reading, ReadCall(Current.name, Nothing, NoAttrs, TRUE))
      /\ current' = FirstChild
  BY DEF ReadSection, Reads
<1>2. SavedOnce /\ PartOf(thing) /\ Walks /\ saves \in 0..MaxSaves
  BY <1>1, WhoReads
<1>3. PICK i \in 1..Len(file.kids) : InThing(i)
  BY <1>1, <1>2, WhoCalls
<1> DEFINE s == file.kids[i].name
<1>4. /\ s \in Sections /\ reading' = <<ThingCall, SectionCall(s)>> /\ current' = <<i, 1>>
  BY <1>1, <1>3, InThingIs DEF SectionCall
<1>5. i \in Int /\ 1 \in 1..Len(file.kids[i].kids) /\ 1 - 1 = 0 /\ i + 1 > i
  BY <1>2, <1>4, KidsFacts
<1>6. ReadUpTo(i, -1, Nothing)
  BY <1>1, <1>3 DEF InThing
<1>7. ReadUpTo(i, 0, Nothing)'
  <2>1. \A o \in 1..Len(file.kids) :
          file.kids[o].name \in Fields /\ (o > i \/ (o = i /\ -1 < 0)) =>
            \/ thing'[file.kids[o].name] = saved[file.kids[o].name]
            \/ o > i \/ (o = i /\ 0 < 0)
    BY <1>4 DEF Sections, Fields
  <2>2. \A o \in 1..Len(file.kids) : \A l \in 1..Len(file.kids[o].kids) :
          l > -1 => l > 0
    OBVIOUS
  <2>3. \A t \in Sections : \A k \in DOMAIN saved[t] : Nothing = <<t, k>> => Nothing = Nothing
    OBVIOUS
  <2> QED
    BY <1>1, <1>6, <2>1, <2>2, <2>3, StillToRead
<1>8. InSection(i, 1)'
  BY <1>1, <1>4, <1>5, <1>7 DEF InSection
<1>9. Walks'
  BY <1>1, <1>5, <1>8 DEF Walks
<1> QED
  BY <1>1, <1>2, <1>9, GoesOn

LEMMA ReadFieldInv ==
  ASSUME FileInv, ReadField
  PROVE  FileInv'
<1>1. /\ step = "entry" /\ reading # <<>> /\ Reader.of \in {"thing"}
      /\ UNCHANGED <<file, saved, saves, current, reading>>
      /\ Current.name \notin Sections /\ thing' = FieldRead(thing, Current) /\ step' = "next"
  BY DEF ReadField, Reads
<1>2. SavedOnce /\ PartOf(thing) /\ Walks /\ saves \in 0..MaxSaves
  BY <1>1, WhoReads
<1>3. PICK i \in 1..Len(file.kids) : InThing(i)
  BY <1>1, <1>2, WhoCalls
<1> DEFINE s == file.kids[i].name
<1>4. s \notin Sections /\ thing' = FieldRead(thing, file.kids[i])
  BY <1>1, <1>3, InThingIs
<1>5. i \in Int
  OBVIOUS
<1>6. ReadUpTo(i, -1, Nothing)
  BY <1>1, <1>3 DEF InThing
<1>7. /\ PartOf(thing')
      /\ \A f \in Fields : thing'[f] = thing[f] \/ thing'[f] = saved[f]
      /\ s \in Fields => thing'[s] = saved[s]
      /\ \A t \in Sections : thing'[t] = thing[t]
  BY <1>1, <1>2, <1>4, FieldReads
<1>8. ReadUpTo(i + 1, -1, Nothing)'
  <2>1. \A o \in 1..Len(file.kids) :
          file.kids[o].name \in Fields /\ (o > i \/ (o = i /\ -1 < 0)) =>
            \/ thing'[file.kids[o].name] = saved[file.kids[o].name]
            \/ o > i + 1 \/ (o = i + 1 /\ -1 < 0)
    BY <1>5, <1>7
  <2>2. \A o \in 1..Len(file.kids) : \A l \in 1..Len(file.kids[o].kids) :
          IsEntry(o, l) /\ (o > i \/ (o = i /\ l > -1)) => o > i + 1 \/ (o = i + 1 /\ l > -1)
    <3> TAKE o \in 1..Len(file.kids)
    <3> TAKE l \in 1..Len(file.kids[o].kids)
    <3>1. IsEntry(o, l) => o # i
      BY <1>4 DEF IsEntry
    <3> QED
      BY <1>5, <3>1
  <2>3. \A t \in Sections : \A k \in DOMAIN saved[t] : Nothing = <<t, k>> => Nothing = Nothing
    OBVIOUS
  <2>4. \A f \in Fields : thing[f] = saved[f] => thing'[f] = saved[f]
    BY <1>7
  <2>5. \A t \in Sections : \A k \in DOMAIN thing[t] : k \in DOMAIN thing'[t]
    BY <1>7
  <2> QED
    BY <1>1, <1>6, <2>1, <2>2, <2>3, <2>4, <2>5, StillToRead
<1>9. InThing(i)'
  BY <1>1, <1>3, <1>8 DEF InThing
<1>10. Walks'
  BY <1>1, <1>9 DEF Walks
<1> QED
  BY <1>1, <1>2, <1>7, <1>10, GoesOn

LEMMA ReadNothingInv ==
  ASSUME FileInv, ReadNothing
  PROVE  FileInv'
<1>1. /\ step = "entry" /\ reading # <<>> /\ Reader.of \in Sections
      /\ UNCHANGED <<file, saved, saves, thing, current, reading>>
      /\ Current.name # "entry" /\ step' = "next"
  BY DEF ReadNothing, Reads
<1>2. SavedOnce /\ PartOf(thing) /\ Walks /\ saves \in 0..MaxSaves
  BY <1>1, WhoReads
<1>3. PICK i \in 1..Len(file.kids) : \E j \in 1..Len(file.kids[i].kids) : InSection(i, j)
  BY <1>1, <1>2, WhoCalls
<1>4. PICK j \in 1..Len(file.kids[i].kids) : InSection(i, j)
  BY <1>3
<1>5. file.kids[i].name \in Sections /\ file.kids[i].kids[j].name # "entry"
  BY <1>1, <1>4, InSectionIs
<1>6. i \in Int /\ j \in Int /\ j > 0
  OBVIOUS
<1>7. ReadUpTo(i, j - 1, Nothing)
  BY <1>1, <1>4 DEF InSection
<1>8. ReadUpTo(i, j, Nothing)'
  <2>1. \A o \in 1..Len(file.kids) :
          file.kids[o].name \in Fields /\ (o > i \/ (o = i /\ j - 1 < 0)) =>
            \/ thing'[file.kids[o].name] = saved[file.kids[o].name]
            \/ o > i \/ (o = i /\ j < 0)
    BY <1>6
  <2>2. \A o \in 1..Len(file.kids) : \A l \in 1..Len(file.kids[o].kids) :
          IsEntry(o, l) /\ (o > i \/ (o = i /\ l > j - 1)) => o > i \/ (o = i /\ l > j)
    <3> TAKE o \in 1..Len(file.kids)
    <3> TAKE l \in 1..Len(file.kids[o].kids)
    <3>1. IsEntry(o, l) /\ o = i => l # j
      BY <1>5 DEF IsEntry
    <3> QED
      BY <1>6, <3>1
  <2>3. \A t \in Sections : \A k \in DOMAIN saved[t] : Nothing = <<t, k>> => Nothing = Nothing
    OBVIOUS
  <2> QED
    BY <1>1, <1>7, <2>1, <2>2, <2>3, StillToRead
<1>9. InSection(i, j)'
  BY <1>1, <1>4, <1>5, <1>8 DEF InSection
<1>10. Walks'
  BY <1>1, <1>4, <1>9 DEF Walks
<1> QED
  BY <1>1, <1>2, <1>10, GoesOn

LEMMA SameRead ==
  ASSUME UNCHANGED <<thing, file, saved>>, NEW i, NEW j, NEW p
  PROVE  ReadUpTo(i, j, p)' <=> ReadUpTo(i, j, p)
  BY DEF ReadUpTo, Done, Hidden, IsEntry, Key

LEMMA ReturnSectionInv ==
  ASSUME FileInv, ReturnSection
  PROVE  FileInv'
<1>1. /\ step = "return" /\ Reader.of \in Sections /\ reading' = Front(reading)
      /\ UNCHANGED <<file, saved, saves, thing>>
      /\ current' = Parent(current) /\ step' = "next"
  BY DEF ReturnSection, Returns
<1>2. SavedOnce /\ saves \in 0..MaxSaves /\ PartOf(thing) /\ Walks
  BY <1>1 DEF FileInv, Fresh, SavedOnce
<1>3. PICK i \in 1..Len(file.kids) : \E j \in 1..Len(file.kids[i].kids) : InSection(i, j)
  BY <1>1, <1>2, WhoCalls
<1>4. PICK j \in 1..Len(file.kids[i].kids) : InSection(i, j)
  BY <1>3
<1>5. /\ file.kids[i].name \in Sections /\ reading' = <<ThingCall>> /\ current' = <<i>>
      /\ j = Len(file.kids[i].kids)
  BY <1>1, <1>4, InSectionIs DEF InSection
<1>6. i \in Int /\ j \in Int /\ j > 0
  OBVIOUS
<1>7. ReadUpTo(i, j, Nothing)
  BY <1>1, <1>4 DEF InSection
<1>8. ReadUpTo(i + 1, -1, Nothing)'
  <2>1. \A o \in 1..Len(file.kids) :
          file.kids[o].name \in Fields /\ (o > i \/ (o = i /\ j < 0)) =>
            \/ thing'[file.kids[o].name] = saved[file.kids[o].name]
            \/ o > i + 1 \/ (o = i + 1 /\ -1 < 0)
    BY <1>6
  <2>2. \A o \in 1..Len(file.kids) : \A l \in 1..Len(file.kids[o].kids) :
          IsEntry(o, l) /\ (o > i \/ (o = i /\ l > j)) => o > i + 1 \/ (o = i + 1 /\ l > -1)
    BY <1>5, <1>6
  <2>3. \A t \in Sections : \A k \in DOMAIN saved[t] : Nothing = <<t, k>> => Nothing = Nothing
    OBVIOUS
  <2> QED
    BY <1>1, <1>7, <2>1, <2>2, <2>3, StillToRead
<1>9. InThing(i)'
  BY <1>1, <1>5, <1>8 DEF InThing
<1>10. Walks'
  BY <1>1, <1>9 DEF Walks
<1> QED
  BY <1>1, <1>2, <1>10, GoesOn

LEMMA ReturnThingInv ==
  ASSUME FileInv, ReturnThing
  PROVE  FileInv'
<1>1. /\ step = "return" /\ Reader.of \in {"thing"} /\ reading' = Front(reading)
      /\ UNCHANGED <<file, saved, saves, thing>>
      /\ current' = <<>> /\ step' = "running"
  BY DEF ReturnThing, Returns
<1>2. SavedOnce /\ saves \in 0..MaxSaves /\ PartOf(thing) /\ Walks
  BY <1>1 DEF FileInv, Fresh, SavedOnce
<1>3. PICK i \in 1..Len(file.kids) : InThing(i)
  BY <1>1, <1>2, WhoCalls
<1>4. reading' = <<>>
  BY <1>1, <1>3, InThingIs
<1>5. i = Len(file.kids) /\ ReadUpTo(i + 1, -1, Nothing)
  BY <1>1, <1>3 DEF InThing
<1>6. ReadUpTo(Len(file.kids) + 1, -1, Nothing)'
  BY <1>1, <1>5, SameRead
<1> QED
  BY <1>1, <1>2, <1>4, <1>6, GoesOn

LEMMA LoadObjectInv ==
  ASSUME FileInv, LoadObject
  PROVE  FileInv'
<1>1. step = "stopped" /\ UNCHANGED <<file, saved, saves>>
  BY DEF LoadObject
<1>2. SavedOnce /\ saves \in 0..MaxSaves
  BY <1>1 DEF FileInv, Fresh
<1>3. thing = Nothing /\ reading = <<>>
  <2>1. Walks => step \in {"entry", "next", "return"}
    BY InThingIs, InSectionIs, InValueIs, BehindConnectionIs DEF Walks
  <2> QED
    BY <1>1, <1>2, <2>1 DEF SavedOnce
<1>4. CASE WellFormed(file)
  <2>1. /\ thing' = NewThing /\ step' = "entry" /\ reading' = <<ThingCall>> /\ current' = <<1>>
    BY <1>4 DEF LoadObject, ThingCall
  <2>2. PartOf(thing')
    <3> DEFINE t == NewThing
    <3>1. /\ t = [id |-> t.id, parent |-> t.parent, owner |-> t.owner, mode |-> t.mode,
                  wizard |-> t.wizard, properties |-> t.properties, methods |-> t.methods]
          /\ t.wizard = FALSE /\ t.properties = <<>> /\ t.methods = <<>>
      BY DEF NewThing
    <3>2. \A s : HashOf(<<>>, saved[s])
      <4>1. DOMAIN <<>> = {} /\ <<>> = [k \in {} |-> <<>>[k]]
        OBVIOUS
      <4> QED
        BY <4>1 DEF HashOf
    <3>3. \A s \in Sections : HashOf(t[s], saved[s])
      BY <3>1, <3>2 DEF Sections
    <3> QED
      BY <1>1, <2>1, <3>1, <3>3 DEF PartOf, Fully
  <2>3. FileHolds(file, saved)
    BY <1>2 DEF SavedOnce
  <2>4. ReadUpTo(1, -1, Nothing)'
    <3>1. ASSUME NEW f \in Fields
          PROVE  \/ thing'[f] = saved[f]
                 \/ \E m \in 1..Len(file.kids) : file.kids[m].name = f /\ (m > 1 \/ (m = 1 /\ -1 < 0))
      <4>1. saved[f] = NewThing[f] \/ \E m \in 1..Len(file.kids) : file.kids[m].name = f
        BY <2>3 DEF FileHolds
      <4>2. \A m \in 1..Len(file.kids) : m > 1 \/ (m = 1 /\ -1 < 0)
        OBVIOUS
      <4> QED
        BY <2>1, <4>1, <4>2
    <3>2. ASSUME NEW s \in Sections, NEW k \in DOMAIN saved[s]
          PROVE  \E m \in 1..Len(file.kids) : \E n \in 1..Len(file.kids[m].kids) :
                   IsEntry(m, n) /\ Key(m, n) = <<s, k>> /\ (m > 1 \/ (m = 1 /\ n > -1))
      <4>1. PICK m \in 1..Len(file.kids) : file.kids[m].name = s
        BY <2>3, <3>2 DEF FileHolds
      <4>2. SectionHolds(file.kids[m], saved[s])
        BY <2>3, <4>1 DEF FileHolds
      <4>3. PICK n \in 1..Len(file.kids[m].kids) :
              file.kids[m].kids[n].name = "entry" /\ file.kids[m].kids[n].attrs.key = k
        BY <4>2 DEF SectionHolds
      <4>4. m > 1 \/ (m = 1 /\ n > -1)
        OBVIOUS
      <4> QED
        BY <4>1, <4>3, <4>4 DEF IsEntry, Key
    <3>3. \A o, l : (IsEntry(o, l)' <=> IsEntry(o, l)) /\ Key(o, l)' = Key(o, l)
      BY <1>1 DEF IsEntry, Key
    <3> QED
      BY <1>1, <3>1, <3>2, <3>3 DEF ReadUpTo
  <2>5. 1 \in 1..Len(file.kids)
    BY <2>3 DEF FileHolds
  <2>6. InThing(1)'
    BY <2>1, <2>4 DEF InThing
  <2>7. Walks'
    BY <1>1, <2>5, <2>6 DEF Walks
  <2> QED
    BY <1>1, <1>2, <2>2, <2>7, GoesOn
<1>5. CASE ~WellFormed(file)
  <2>1. step' = "running" /\ UNCHANGED <<thing, reading>>
    BY <1>5 DEF LoadObject
  <2> QED
    BY <1>1, <1>2, <1>3, <2>1 DEF FileInv, SavedOnce
<1> QED
  BY <1>4, <1>5

(* What is in memory can be saved again.                                    *)
LEMMA PartIsThing ==
  ASSUME SavedOnce, saves \in Nat, PartOf(thing)
  PROVE  IsThing(thing) /\ Loaded(saves, thing)
<1>1. IsThing(saved) /\ Loaded(saves - 1, saved)
  BY DEF SavedOnce
<1>2. ASSUME NEW s \in Sections
      PROVE  /\ IsHash(thing[s])
             /\ \A k \in DOMAIN thing[s] :
                  /\ Once(thing[s][k].value)
                  /\ saves >= 2 => Settled(thing[s][k].value)
  <2> DEFINE h == thing[s]
             g == saved[s]
  <2>1. IsHash(g)
    BY <1>1, <1>2 DEF IsThing, Sections
  <2>2. saves >= 2 => \A k \in DOMAIN g : Once(g[k].value)
    <3>1. saves >= 2 => saves - 1 >= 1
      OBVIOUS
    <3> QED
      BY <1>1, <1>2, <3>1 DEF Loaded
  <2>3. HashOf(h, g)
    BY <1>2 DEF PartOf
  <2> HIDE DEF h, g
  <2>4. IsFiniteSet(DOMAIN h)
    <3>1. IsFiniteSet(DOMAIN g) /\ DOMAIN h \subseteq DOMAIN g
      BY <2>1, <2>3 DEF IsHash, HashOf
    <3> QED
      BY <3>1, FS_Subset
  <2>5. ASSUME NEW k \in DOMAIN h
        PROVE  /\ IsHashEntry(h[k]) /\ Once(h[k].value)
               /\ saves >= 2 => Settled(h[k].value)
    <3> DEFINE v == g[k].value
               w == h[k].value
               e == h[k]
    <3>1. /\ e = [value |-> w, owner |-> g[k].owner, mode |-> g[k].mode] /\ Back(v, w)
          /\ k \in DOMAIN g
      BY <2>3, <2>5 DEF HashOf
    <3>2. IsHashEntry(g[k])
      BY <2>1, <3>1 DEF IsHash
    <3>3. IsValue(v) /\ g[k].owner \in Integer /\ g[k].mode \in Mode
      BY <3>2 DEF IsHashEntry
    <3>4. IsValue(w) /\ Once(w)
      BY <3>1, <3>2, <3>3, BackIsValue
    <3>5. saves >= 2 => Settled(w)
      BY <2>2, <3>1, <3>2, <3>3, BackSettles
    <3>6. e.owner = g[k].owner /\ e.mode = g[k].mode
      BY <3>1
    <3>7. IsHashEntry(e)
      BY <3>1, <3>3, <3>4, <3>6 DEF IsHashEntry
    <3> QED
      BY <3>4, <3>5, <3>7
  <2>6. IsHash(h)
    BY <2>3, <2>4, <2>5 DEF IsHash, HashOf
  <2> QED
    BY <2>5, <2>6 DEF h
<1>3. /\ thing.id \in Integer /\ thing.parent \in Identifier /\ thing.owner \in Identifier
      /\ thing.mode \in Mode
  <2>1. \A f \in Fields : thing[f] \in {saved[f], NewThing[f]}
    BY DEF PartOf
  <2>2. /\ thing.id \in {saved.id, NewThing.id} /\ thing.parent \in {saved.parent, NewThing.parent}
        /\ thing.owner \in {saved.owner, NewThing.owner} /\ thing.mode \in {saved.mode, NewThing.mode}
    BY <2>1 DEF Fields
  <2>3. NewThing.id = -1 /\ NewThing.parent = -1 /\ NewThing.owner = -1 /\ NewThing.mode = DefaultMode
    BY DEF NewThing
  <2>4. -1 \in Integer /\ -1 \in Identifier /\ DefaultMode \in Mode
    BY IntegerFacts
  <2> QED
    BY <1>1, <2>2, <2>3, <2>4 DEF IsThing
<1>4. IsThing(thing)
  <2>1. IsHash(thing.properties) /\ IsHash(thing.methods)
    BY <1>2 DEF Sections
  <2>2. Fully(thing) /\ thing.wizard = FALSE
    BY DEF PartOf
  <2>3. thing.wizard \in BOOLEAN
    BY <2>2
  <2> QED
    BY <1>3, <2>1, <2>2, <2>3 DEF IsThing, Fully
<1>5. ~thing.wizard
  BY DEF PartOf
<1> QED
  BY <1>2, <1>4, <1>5 DEF Loaded

LEMMA SaveObjectInv ==
  ASSUME FileInv, SaveObject
  PROVE  FileInv'
<1>1. PICK order \in Orders(thing) : file' = Document(thing, order)
  BY DEF SaveObject
<1>2. /\ step = "running" /\ thing # Nothing /\ saves < MaxSaves
      /\ saved' = thing /\ saves' = saves + 1 /\ thing' = Nothing /\ step' = "stopped"
      /\ UNCHANGED <<current, reading>>
  BY DEF SaveObject
<1>3. MaxSaves \in Nat
  BY FileAssumption
<1>4. saves \in Nat /\ saves' \in 0..MaxSaves /\ saves' > 0 /\ saves' - 1 = saves
  BY <1>2, <1>3 DEF FileInv
<1>5. reading = <<>> /\ IsThing(thing) /\ Loaded(saves, thing)
  <2>1. CASE Fresh
    BY <1>2, <2>1 DEF Fresh, Loaded
  <2>2. CASE SavedOnce
    <3>1. Walks => step \in {"entry", "next", "return"}
      BY InThingIs, InSectionIs, InValueIs, BehindConnectionIs DEF Walks
    <3>2. reading = <<>> /\ PartOf(thing)
      BY <1>2, <2>2, <3>1 DEF SavedOnce
    <3> QED
      BY <1>4, <2>2, <3>2, PartIsThing
  <2> QED
    BY <2>1, <2>2 DEF FileInv
<1>6. FileHolds(file', saved')
  BY <1>1, <1>2, <1>5, DocumentHolds
<1> QED
  BY <1>2, <1>4, <1>5, <1>6 DEF FileInv, SavedOnce

(* A process that ends while it writes leaves the file as it was.           *)
LEMMA SaveOverrunsInv ==
  ASSUME FileInv, SaveOverruns
  PROVE  FileInv'
<1>1. /\ step = "running" /\ thing' = Nothing /\ step' = (IF saves = 0 THEN "running" ELSE "stopped")
      /\ UNCHANGED <<file, reading, saved, saves>>
  BY DEF SaveOverruns
<1>2. CASE Fresh
  BY <1>1, <1>2 DEF FileInv, Fresh
<1>3. CASE SavedOnce
  <2>1. Walks => step \in {"entry", "next", "return"}
    BY InThingIs, InSectionIs, InValueIs, BehindConnectionIs DEF Walks
  <2>2. reading = <<>> /\ saves # 0
    BY <1>1, <1>3, <2>1, FileAssumption DEF FileInv, SavedOnce
  <2> QED
    BY <1>1, <1>3, <2>2 DEF FileInv, SavedOnce
<1> QED
  BY <1>2, <1>3 DEF FileInv

LEMMA NextEntryInv ==
  ASSUME FileInv, NextEntry
  PROVE  FileInv'
<1>1. /\ step = "next" /\ UNCHANGED <<thing, file, reading, saved, saves>>
      /\ HasNext => current' = Sibling /\ step' = "entry"
      /\ ~HasNext => current' = current /\ step' = "return"
  BY DEF NextEntry
<1>2. SavedOnce /\ saves \in 0..MaxSaves /\ PartOf(thing) /\ Walks
  BY <1>1 DEF FileInv, Fresh, SavedOnce
<1>3. PICK i \in 1..Len(file.kids) :
        \/ InThing(i)
        \/ \E j \in 1..Len(file.kids[i].kids) :
             \/ InSection(i, j)
             \/ \E n \in Nat : InValue(i, j, n)
             \/ \E h \in 1..Len(file.kids[i].kids) : BehindConnection(i, h, j)
  BY <1>2 DEF Walks
<1>4. Len(file.kids) \in Nat /\ i \in Int
  BY <1>2, KidsFacts
<1>5. ASSUME InThing(i)
      PROVE  Walks'
  <2>1. ReadUpTo(i + 1, -1, Nothing) /\ reading = <<ThingCall>> /\ current = <<i>>
    BY <1>1, <1>5 DEF InThing
  <2>2. ReadUpTo(i + 1, -1, Nothing)'
    BY <1>1, <2>1, SameRead
  <2>3. CASE HasNext
    <3>1. i + 1 \in 1..Len(file.kids) /\ current' = <<i + 1>> /\ step' = "entry"
      BY <1>1, <1>4, <1>5, <2>3, InThingIs
    <3>2. InThing(i + 1)'
      BY <1>1, <2>1, <2>2, <3>1 DEF InThing
    <3> QED
      BY <1>1, <3>1, <3>2 DEF Walks
  <2>4. CASE ~HasNext
    <3>1. i = Len(file.kids) /\ current' = current /\ step' = "return"
      BY <1>1, <1>4, <1>5, <2>4, InThingIs
    <3>2. InThing(i)'
      BY <1>1, <2>1, <2>2, <3>1 DEF InThing
    <3> QED
      BY <1>1, <3>2 DEF Walks
  <2> QED
    BY <2>3, <2>4
<1>6. ASSUME NEW j \in 1..Len(file.kids[i].kids), InSection(i, j)
      PROVE  Walks'
  <2>1. /\ ReadUpTo(i, j, Nothing) /\ file.kids[i].name \in Sections
        /\ reading = <<ThingCall, SectionCall(file.kids[i].name)>> /\ current = <<i, j>>
    BY <1>1, <1>6 DEF InSection
  <2>2. ReadUpTo(i, j, Nothing)'
    BY <1>1, <2>1, SameRead
  <2>3. Len(file.kids[i].kids) \in Nat /\ j \in Int
    BY <1>2, <2>1, KidsFacts
  <2>4. CASE HasNext
    <3>1. j + 1 \in 1..Len(file.kids[i].kids) /\ current' = <<i, j + 1>> /\ step' = "entry"
      BY <1>1, <1>6, <2>3, <2>4, InSectionIs
    <3>2. (j + 1) - 1 = j
      BY <2>3
    <3>3. InSection(i, j + 1)'
      BY <1>1, <2>1, <2>2, <3>1, <3>2 DEF InSection
    <3> QED
      BY <1>1, <3>1, <3>3 DEF Walks
  <2>5. CASE ~HasNext
    <3>1. j = Len(file.kids[i].kids) /\ current' = current /\ step' = "return"
      BY <1>1, <1>6, <2>3, <2>5, InSectionIs
    <3>2. InSection(i, j)'
      BY <1>1, <2>1, <2>2, <3>1 DEF InSection
    <3> QED
      BY <1>1, <3>2 DEF Walks
  <2> QED
    BY <2>4, <2>5
<1>7. ASSUME NEW j \in 1..Len(file.kids[i].kids), NEW n \in Nat, InValue(i, j, n)
      PROVE  Walks'
  <2> DEFINE entry == file.kids[i].kids[j]
             v == saved[file.kids[i].name][entry.attrs.key].value
             w == reading[3].value
  <2>1. /\ n \in 1..Len(entry.kids) /\ IsEntry(i, j) /\ v.type \in ByEntry
        /\ reading = <<ThingCall, SectionCall(file.kids[i].name),
                       ReadCall("value", w, entry.attrs, TRUE)>>
        /\ w = After(v, n) /\ ReadUpTo(i, j, Key(i, j)) /\ current = <<i, j, n>>
    BY <1>1, <1>7, Zenon DEF InValue
  <2>2. ReadUpTo(i, j, Key(i, j))' /\ IsEntry(i, j)'
    BY <1>1, <2>1, SameRead, Zenon DEF Key, IsEntry
  <2>3. entry.kids = Contents(v) /\ IsValue(v)
    BY <1>2, <2>1, EntryIs, Zenon
  <2>4. ReadsBack(v)
    BY <2>1, <2>3, EntriesReadBack, Zenon
  <2>5. Len(entry.kids) \in Nat /\ Back(v, After(v, Len(entry.kids)))
    BY <2>3, <2>4, Zenon DEF ReadsBack
  <2>8. Sibling = <<i, j, n + 1>> /\ (HasNext <=> n < Len(entry.kids))
    BY <1>7, InValueIs
  <2>6. CASE HasNext
    <3>1. n + 1 \in 1..Len(entry.kids) /\ current' = <<i, j, n + 1>> /\ step' = "entry"
      <4> HIDE DEF entry
      <4> QED
        BY <1>1, <2>5, <2>6, <2>8
    <3>2. (n + 1) - 1 = n /\ n + 1 \in Nat
      OBVIOUS
    <3>3. InValue(i, j, n + 1)'
      BY <1>1, <2>1, <2>2, <3>1, <3>2, Zenon DEF InValue
    <3> QED
      BY <1>1, <3>2, <3>3 DEF Walks
  <2>7. CASE ~HasNext
    <3>1. n = Len(entry.kids) /\ current' = current /\ step' = "return"
      <4> HIDE DEF entry, v, w
      <4> QED
        BY <1>1, <2>1, <2>5, <2>7, <2>8
    <3>2. Back(v, w)
      BY <2>1, <2>5, <3>1, Zenon
    <3>3. InValue(i, j, n)'
      BY <1>1, <2>1, <2>2, <3>1, <3>2, Zenon DEF InValue
    <3> QED
      BY <1>1, <3>3 DEF Walks
  <2> QED
    BY <2>6, <2>7
<1>8. ASSUME NEW j \in 1..Len(file.kids[i].kids), NEW h \in 1..Len(file.kids[i].kids),
             BehindConnection(i, h, j)
      PROVE  Walks'
  <2> DEFINE entry == file.kids[i].kids[h]
             s == file.kids[i].name
  <2>1. /\ IsEntry(i, h) /\ entry.attrs.type = "tcp" /\ h <= j /\ s \in Sections
        /\ reading = <<ThingCall, SectionCall(s),
                       ReadCall("value", Val("tcp"), entry.attrs, FALSE)>>
        /\ current = <<i, j>> /\ ReadUpTo(i, j, Key(i, h))
    BY <1>1, <1>8 DEF BehindConnection, IsEntry
  <2>2. IsEntry(i, h)' /\ Key(i, h)' = Key(i, h)
    BY <1>1, <2>1 DEF Key, IsEntry
  <2>3. Len(file.kids[i].kids) \in Nat /\ j \in Int /\ h \in Int /\ j > 0
    BY <1>2, <2>1, KidsFacts
  <2>6. Sibling = <<i, j + 1>> /\ (HasNext <=> j < Len(file.kids[i].kids))
    BY <1>8, BehindConnectionIs
  <2>4. CASE HasNext
    <3>1. j + 1 \in 1..Len(file.kids[i].kids) /\ current' = <<i, j + 1>> /\ step' = "entry"
      BY <1>1, <2>3, <2>4, <2>6
    <3>2. h <= j + 1 /\ h < j + 1
      BY <2>1, <2>3
    <3>3. IsEntry(i, j + 1) => Hidden(s, file.kids[i].kids[j + 1].attrs.key)
      BY <1>2, <2>1, <3>1, <3>2, HiddenBehind
    <3>4. ReadUpTo(i, j + 1, Key(i, h))'
      <4>1. \A o \in 1..Len(file.kids) :
              file.kids[o].name \in Fields /\ (o > i \/ (o = i /\ j < 0)) =>
                \/ thing'[file.kids[o].name] = saved[file.kids[o].name]
                \/ o > i \/ (o = i /\ j + 1 < 0)
        BY <1>4, <2>3
      <4>2. ASSUME NEW o \in 1..Len(file.kids), NEW l \in 1..Len(file.kids[o].kids),
                   IsEntry(o, l), o > i \/ (o = i /\ l > j)
            PROVE  \/ o > i \/ (o = i /\ l > j + 1)
                   \/ \A t \in Sections : \A k \in DOMAIN saved[t] : Key(o, l) = <<t, k>> => Done(t, k)'
        <5>1. CASE o = i /\ l = j + 1
          <6>1. Hidden(s, file.kids[i].kids[j + 1].attrs.key)
            BY <3>3, <4>2, <5>1
          <6>2. Key(o, l) = <<s, file.kids[i].kids[j + 1].attrs.key>>
            BY <5>1 DEF Key
          <6>3. \A t, k : Key(o, l) = <<t, k>> => Hidden(t, k)
            <7> HIDE DEF s
            <7> QED
              BY <6>1, <6>2
          <6>4. \A t, k : Hidden(t, k) => Done(t, k)'
            <7>1. \A t, k : Hidden(t, k)' <=> Hidden(t, k)
              BY <1>1 DEF Hidden
            <7> QED
              BY <7>1 DEF Done
          <6> QED
            BY <6>3, <6>4
        <5>2. CASE ~(o = i /\ l = j + 1)
          BY <1>4, <2>3, <4>2, <5>2
        <5> QED
          BY <5>1, <5>2
      <4>9. PICK p : p = Key(i, h)
        OBVIOUS
      <4>3. \A t \in Sections : \A k \in DOMAIN saved[t] : p = <<t, k>> => p = p \/ Done(t, k)'
        OBVIOUS
      <4>4. /\ \A f \in Fields : thing[f] = saved[f] => thing'[f] = saved[f]
            /\ \A t \in Sections : \A k \in DOMAIN thing[t] : k \in DOMAIN thing'[t]
        BY <1>1
      <4>5. ReadUpTo(i, j, p) /\ UNCHANGED <<file, saved>>
        BY <1>1, <2>1, <4>9
      <4>6. \A o \in 1..Len(file.kids) : \A l \in 1..Len(file.kids[o].kids) :
              IsEntry(o, l) /\ (o > i \/ (o = i /\ l > j)) =>
                \/ o > i \/ (o = i /\ l > j + 1) \/ p = Key(o, l)
                \/ \A t \in Sections : \A k \in DOMAIN saved[t] : Key(o, l) = <<t, k>> => Done(t, k)'
        BY <4>2, <4>9
      <4>7. ReadUpTo(i, j + 1, p)'
        BY <4>1, <4>3, <4>4, <4>5, <4>6, StillToRead
      <4>8. Key(i, h)' = p
        BY <1>1, <4>9 DEF Key
      <4> QED
        BY <4>7, <4>8
    <3>5. BehindConnection(i, h, j + 1)'
      BY <1>1, <2>1, <2>2, <3>1, <3>2, <3>4 DEF BehindConnection
    <3> QED
      BY <1>1, <3>1, <3>5 DEF Walks
  <2>5. CASE ~HasNext
    <3>1. j = Len(file.kids[i].kids) /\ current' = current /\ step' = "return"
      BY <1>1, <2>3, <2>5, <2>6
    <3>2. ReadUpTo(i, j, Key(i, h))'
      BY <1>1, <2>1, <2>2, SameRead
    <3>3. BehindConnection(i, h, j)'
      BY <1>1, <2>1, <2>2, <3>1, <3>2 DEF BehindConnection
    <3> QED
      BY <1>1, <3>3 DEF Walks
  <2> QED
    BY <2>4, <2>5
<1>9. Walks'
  BY <1>3, <1>5, <1>6, <1>7, <1>8
<1> QED
  BY <1>1, <1>2, <1>9, GoesOn

LEMMA ThingIs ==
  ASSUME NEW v, IsValue(v), v.type = "thing"
  PROVE  v.id \in Integer /\ v = ThingVal(v.id)
<1> DEFINE R(id) == [type |-> "thing", text |-> <<>>, num |-> Whole(0), id |-> id,
                     params |-> <<>>, code |-> <<>>]
<1>1. v.id \in Integer /\ v = R(v.id)
  BY DEF IsValue
<1>2. v = ThingVal(v.id)
  BY <1>1 DEF ThingVal, Val
<1> QED
  BY <1>1, <1>2

(* What is loaded at once is what comes back of a value: of a boolean       *)
(* nothing.                                                                 *)
LEMMA AtOnceBack ==
  ASSUME SavedOnce, NEW i \in 1..Len(file.kids), NEW j \in 1..Len(file.kids[i].kids),
         InSection(i, j), IsEntry(i, j), file.kids[i].kids[j].attrs.type \in AtOnce
  PROVE  LET v == saved[file.kids[i].name][file.kids[i].kids[j].attrs.key].value
             w == LoadedAtOnce(Current.attrs.type, At)
         IN /\ Current = file.kids[i].kids[j]
            /\ \/ w = Nothing /\ v.type = "boolean"
               \/ w # Nothing /\ Back(v, w)
<1> DEFINE entry == file.kids[i].kids[j]
           v     == saved[file.kids[i].name][entry.attrs.key].value
           w     == LoadedAtOnce(Current.attrs.type, At)
<1>1. /\ Current = entry /\ FirstChild = <<i, j, 1>> /\ current = <<i, j>>
      /\ file.kids[i].name \in Sections
  BY InSectionIs
<1>2. /\ entry.attrs.type = v.type /\ entry.kids = Contents(v) /\ IsValue(v) /\ v.type \in AtOnce
  BY EntryIs, Zenon
<1>3. At = IF Contents(v) # <<>> THEN <<i, j, 1>> ELSE <<i, j>>
  BY <1>1, <1>2, Zenon DEF At, Down
<1>4. Current.attrs.type = v.type
  BY <1>1, <1>2, Zenon
<1>5. /\ \A id : ThingVal(id) # Nothing
      /\ Nil # Nothing
  BY DEF ThingVal, Nil, Val, Nothing
<1>6. CASE v.type = "nil"
  <2>1. w = Nil
    BY <1>4, <1>6, Zenon DEF LoadedAtOnce
  <2> QED
    BY <1>1, <1>5, <1>6, <2>1, Zenon DEF Back
<1>7. CASE v.type = "boolean"
  <2> DEFINE leaf == Leaf("value", v.text)
             K == Elements(<<leaf>>)
             node == NodeAt(file, At)
  <2>1. Contents(v) = K
    BY <1>7, Zenon DEF Contents, BooleanData
  <2>2. K # <<>> /\ K[1] = Blank
    <3>1. Len(<<leaf>>) = 1
      OBVIOUS
    <3>2. K # <<>> /\ (K[1] = Blank \/ \E m \in 1..1 : 1 = 2 * m)
      <4> HIDE DEF leaf
      <4> QED
        BY <3>1, ElementsFacts
    <3>3. \A m \in 1..1 : 1 # 2 * m
      OBVIOUS
    <3> HIDE DEF K
    <3> QED
      BY <3>2, <3>3
  <2> HIDE DEF K
  <2>3. node = Blank
    <3>1. At = <<i, j, 1>>
      BY <1>3, <2>1, <2>2
    <3>2. node = entry.kids[1]
      BY <3>1, NodesAt
    <3> QED
      BY <1>2, <2>1, <2>2, <3>2, Zenon
  <2>4. TextOf(node.kids) = <<>>
    BY <2>3, LeafFacts, TextOfOne
  <2>5. Stripped(<<>>) = <<>>
    <3>1. Tidy(<<>>) /\ Len(<<>>) = 0 /\ 0 < StringSize
      BY NoText, FileAssumption
    <3>2. Ended(<<>>) = <<>>
      BY DEF Ended
    <3> QED
      BY <3>1, <3>2, StrippedOfTidy
  <2>6. <<>> \notin {<<"#", "t">>, <<"#", "f">>}
    BY Stacks
  <2>7. BooleanLoaded(node) = Nothing
    BY <2>4, <2>5, <2>6 DEF BooleanLoaded
  <2>8. w = BooleanLoaded(node)
    BY <1>4, <1>7, Zenon DEF LoadedAtOnce
  <2> QED
    BY <1>1, <1>7, <2>7, <2>8, Zenon
<1>8. CASE v.type = "thing"
  <2> DEFINE n == Text(IntegerText(v.id))
  <2>1. Contents(v) = <<n>>
    BY <1>8, Zenon DEF Contents, ReferenceData
  <2>2. At = <<i, j, 1>>
    BY <1>3, <2>1, Stacks, Zenon
  <2>3. Front(At) = <<i, j>> /\ Last(At) = 1
    BY <2>2, Stacks
  <2>4. NodeAt(file, Front(At)).kids = <<n>>
    <3>1. NodeAt(file, <<i, j>>) = entry
      BY NodesAt
    <3> HIDE DEF entry, n, v
    <3> QED
      BY <1>2, <2>1, <2>3, <3>1
  <2>5. SubSeq(<<n>>, 1, 1) = <<n>> /\ Len(<<n>>) = 1
    <3> HIDE DEF n
    <3>1. <<n>> \in Seq({n}) /\ Len(<<n>>) = 1 /\ <<n>>[1] = n /\ 1..1 = {1}
      OBVIOUS
    <3> DEFINE t == SubSeq(<<n>>, 1, 1)
    <3>2. t \in Seq({n}) /\ Len(t) = 1 /\ t[1] = n
      BY <3>1, SubSeqProperties
    <3> HIDE DEF t
    <3>3. t = <<n>>
      <4>1. \A m \in 1..Len(t) : t[m] = <<n>>[m]
        BY <3>1, <3>2
      <4> QED
        BY <3>1, <3>2, <4>1, SeqEqual
    <3> QED
      BY <3>1, <3>3 DEF t
  <2>6. TextFrom(At) = n.text
    BY <2>3, <2>4, <2>5, TextOfOne, Zenon DEF TextFrom
  <2>7. n.text = IntegerText(v.id)
    BY DEF Text, Node
  <2>8. v.id \in Integer
    BY <1>2, <1>8, Zenon DEF IsValue
  <2>9. IntegerOf(TextFrom(At)) = v.id
    BY <2>6, <2>7, <2>8, IntegerTextRead, Zenon
  <2>10. w = IF v.id \in Existing THEN ThingVal(v.id) ELSE Nil
    BY <1>4, <1>8, <2>9, Zenon DEF LoadedAtOnce, Referred
  <2>11. v = ThingVal(v.id)
    <3> HIDE DEF v
    <3> QED
      BY <1>2, <1>8, ThingIs
  <2>12. w = IF v.id \in Existing THEN v ELSE Nil
    BY <2>10, <2>11, Zenon
  <2>13. w # Nothing
    BY <1>5, <2>10, Zenon
  <2>14. Back(v, w)
    BY <1>8, <2>12, Zenon DEF Back
  <2> QED
    BY <1>1, <2>13, <2>14, Zenon
<1>9. CASE v.type \in {"array", "hash"}
  <2>1. Contents(v) = <<>>
    BY <1>9, Zenon DEF Contents
  <2>2. At = <<i, j>>
    BY <1>3, <2>1
  <2> DEFINE M == file.kids[i].kids
             rest == SubSeq(M, j, Len(M))
             texts == [l \in DOMAIN rest |-> rest[l].text]
  <2>3. IsSeq(M) /\ \A l \in 1..Len(M) : M[l].text \in Seq({"nl"})
    BY <1>1 DEF SavedOnce, FileHolds, SectionHolds
  <2>4. TextFrom(At) = FlattenSeq(texts)
    <3>1. Front(At) = <<i>> /\ Last(At) = j
      BY <2>2, Stacks
    <3>2. NodeAt(file, Front(At)).kids = M
      BY <3>1, NodesAt
    <3> QED
      BY <3>1, <3>2 DEF TextFrom, TextOf
  <2>5. j \in 1..Len(M)
    OBVIOUS
  <2> HIDE DEF M
  <2>6. IsSeq(rest) /\ Len(rest) \in Nat /\ \A l \in 1..Len(rest) : rest[l].text \in Seq({"nl"})
    <3>1. PICK S : M \in Seq(S)
      BY <2>3 DEF IsSeq
    <3>2. Len(M) \in Nat
      BY <3>1, LenProperties
    <3>3. /\ rest \in Seq(S) /\ Len(rest) = Len(M) - j + 1
          /\ \A l \in 1..(Len(M) - j + 1) : rest[l] = M[j + l - 1]
      BY <2>5, <3>1, <3>2, SubSeqProperties
    <3>4. \A l \in 1..(Len(M) - j + 1) : j + l - 1 \in 1..Len(M)
      BY <2>5, <3>2
    <3> HIDE DEF rest
    <3>5. \A l \in 1..Len(rest) : rest[l].text \in Seq({"nl"})
      BY <2>3, <3>3, <3>4
    <3> QED
      BY <2>5, <3>2, <3>3, <3>5 DEF IsSeq
  <2> HIDE DEF rest
  <2>7. IsSeq(texts) /\ \A l \in 1..Len(texts) : texts[l] \in Seq({"nl"})
    <3>1. DOMAIN rest = 1..Len(rest)
      BY <2>6, SeqFacts
    <3>2. texts = [l \in 1..Len(rest) |-> texts[l]] /\ \A l \in 1..Len(rest) : texts[l] = rest[l].text
      BY <3>1
    <3> HIDE DEF texts
    <3>3. IsSeq(texts) /\ Len(texts) = Len(rest)
      BY <2>6, <3>2, LenIs
    <3> QED
      BY <2>6, <3>2, <3>3
  <2> HIDE DEF texts
  <2>8. FlattenSeq(texts) \in Seq({"nl"})
    BY <2>7, FlattenSeqType
  <2>9. IntegerOf(TextFrom(At)) \in Integer
    BY <2>4, <2>8, IntegerOfType DEF IsSeq
  <2> DEFINE id == IntegerOf(TextFrom(At))
  <2>10. w = IF id \in Existing THEN ThingVal(id) ELSE Nil
    BY <1>4, <1>9, Zenon DEF LoadedAtOnce, Referred
  <2>11. id \in Integer
    BY <2>9
  <2> HIDE DEF id, w
  <2>12. w # Nothing
    BY <1>5, <2>10
  <2>13. w = Nil \/ \E x \in Integer \cap Existing : w = ThingVal(x)
    BY <2>10, <2>11
  <2>14. Back(v, w)
    BY <1>9, <2>13, Zenon DEF Back
  <2> QED
    BY <1>1, <2>12, <2>14 DEF w
<1> QED
  BY <1>2, <1>6, <1>7, <1>8, <1>9, Zenon DEF AtOnce

LEMMA ReadValueAtOnceInv ==
  ASSUME FileInv, ReadValueAtOnce
  PROVE  FileInv'
<1>0. PICK w : w = LoadedAtOnce(Current.attrs.type, At)
  OBVIOUS
<1>1. /\ step = "entry" /\ reading # <<>> /\ Reader.of \in Sections
      /\ UNCHANGED <<file, saved, saves, current, reading>>
      /\ Current.name = "entry" /\ Current.attrs.type \in AtOnce /\ step' = "next"
      /\ w = Nothing => UNCHANGED thing
      /\ w # Nothing => Put(Reader.of, w, Current.attrs)
  BY <1>0 DEF ReadValueAtOnce, Reads
<1>2. SavedOnce /\ PartOf(thing) /\ Walks /\ saves \in 0..MaxSaves
  BY <1>1, WhoReads
<1>3. PICK i \in 1..Len(file.kids) : \E j \in 1..Len(file.kids[i].kids) : InSection(i, j)
  BY <1>1, <1>2, WhoCalls
<1>4. PICK j \in 1..Len(file.kids[i].kids) : InSection(i, j)
  BY <1>3
<1>5. PICK s, k, v :
        /\ s = file.kids[i].name /\ k = file.kids[i].kids[j].attrs.key
        /\ v = saved[file.kids[i].name][file.kids[i].kids[j].attrs.key].value
  OBVIOUS
<1>6. /\ s \in Sections /\ Reader.of = s /\ Current = file.kids[i].kids[j]
  BY <1>4, <1>5, InSectionIs
<1>7. IsEntry(i, j)
  BY <1>1, <1>5, <1>6, Zenon DEF IsEntry
<1>8. Key(i, j) = <<s, k>>
  BY <1>5 DEF Key
<1>9. (w = Nothing /\ v.type = "boolean") \/ (w # Nothing /\ Back(v, w))
  <2>1. file.kids[i].kids[j].attrs.type \in AtOnce
    BY <1>1, <1>6
  <2>2. LET ww == LoadedAtOnce(Current.attrs.type, At)
            vv == saved[file.kids[i].name][file.kids[i].kids[j].attrs.key].value
        IN (ww = Nothing /\ vv.type = "boolean") \/ (ww # Nothing /\ Back(vv, ww))
    BY <1>2, <1>4, <1>7, <2>1, AtOnceBack, Zenon
  <2> QED
    BY <1>0, <1>5, <2>2, Zenon
<1>10. /\ PartOf(thing')
       /\ \A f \in Fields : thing'[f] = thing[f]
       /\ \A t \in Sections : \A l \in DOMAIN thing[t] : l \in DOMAIN thing'[t]
       /\ k \in DOMAIN thing'[s] \/ v.type = "boolean"
  <2>1. CASE w = Nothing
    <3>1. thing' = thing /\ v.type = "boolean"
      BY <1>1, <1>9, <2>1
    <3> QED
      BY <1>2, <3>1
  <2>2. CASE w # Nothing
    <3>1. Put(file.kids[i].name, w, file.kids[i].kids[j].attrs)
      BY <1>1, <1>5, <1>6, <2>2, Zenon
    <3>2. Back(saved[file.kids[i].name][file.kids[i].kids[j].attrs.key].value, w)
      BY <1>5, <1>9, <2>2, Zenon
    <3>3. /\ PartOf(thing')
          /\ \A f \in Fields : thing'[f] = thing[f]
          /\ \A t \in Sections : \A l \in DOMAIN thing[t] : l \in DOMAIN thing'[t]
          /\ file.kids[i].kids[j].attrs.key \in DOMAIN thing'[file.kids[i].name]
      BY <1>1, <1>2, <1>7, <3>1, <3>2, PutReads, Zenon
    <3> QED
      BY <1>5, <3>3, Zenon
  <2> QED
    BY <2>1, <2>2
<1>11. Done(s, k)'
  <2>1. saved' = saved /\ v = saved[s][k].value
    BY <1>1, <1>5
  <2> QED
    BY <1>10, <2>1 DEF Done
<1>12. i \in Int /\ j \in Int /\ j > 0
  OBVIOUS
<1>13. ReadUpTo(i, j - 1, Nothing)
  BY <1>1, <1>4 DEF InSection
<1>14. ReadUpTo(i, j, Nothing)'
  <2>1. \A o \in 1..Len(file.kids) :
          file.kids[o].name \in Fields /\ (o > i \/ (o = i /\ j - 1 < 0)) =>
            \/ thing'[file.kids[o].name] = saved[file.kids[o].name]
            \/ o > i \/ (o = i /\ j < 0)
    BY <1>12
  <2>2. ASSUME NEW o \in 1..Len(file.kids), NEW l \in 1..Len(file.kids[o].kids),
               IsEntry(o, l), o > i \/ (o = i /\ l > j - 1)
        PROVE  \/ o > i \/ (o = i /\ l > j)
               \/ \A t \in Sections : \A m \in DOMAIN saved[t] : Key(o, l) = <<t, m>> => Done(t, m)'
    <3>1. CASE o = i /\ l = j
      <4>1. Key(o, l) = <<s, k>>
        BY <1>8, <3>1
      <4> QED
        BY <1>11, <4>1
    <3>2. CASE ~(o = i /\ l = j)
      BY <1>12, <2>2, <3>2
    <3> QED
      BY <3>1, <3>2
  <2>3. \A t \in Sections : \A m \in DOMAIN saved[t] : Nothing = <<t, m>> => Nothing = Nothing
    OBVIOUS
  <2>4. \A f \in Fields : thing[f] = saved[f] => thing'[f] = saved[f]
    BY <1>10
  <2>5. \A o \in 1..Len(file.kids) : \A l \in 1..Len(file.kids[o].kids) :
          IsEntry(o, l) /\ (o > i \/ (o = i /\ l > j - 1)) =>
            \/ o > i \/ (o = i /\ l > j) \/ Nothing = Key(o, l)
            \/ \A t \in Sections : \A m \in DOMAIN saved[t] : Key(o, l) = <<t, m>> => Done(t, m)'
    BY <2>2
  <2>6. UNCHANGED <<file, saved>> /\ \A t \in Sections : \A l \in DOMAIN thing[t] : l \in DOMAIN thing'[t]
    BY <1>1, <1>10
  <2> QED
    BY <1>13, <2>1, <2>3, <2>4, <2>5, <2>6, StillToRead
<1>15. InSection(i, j)'
  BY <1>1, <1>4, <1>5, <1>6, <1>14, Zenon DEF InSection
<1>16. Walks'
  BY <1>1, <1>4, <1>15 DEF Walks
<1>17. PartOf(thing') /\ UNCHANGED <<file, saved, saves>>
  BY <1>1, <1>10
<1> QED
  BY <1>2, <1>16, <1>17, GoesOn

LEMMA BeginValueInv ==
  ASSUME FileInv, BeginValue
  PROVE  FileInv'
<1>0. PICK down : down = Down
  OBVIOUS
<1>1. /\ step = "entry" /\ reading # <<>> /\ Reader.of \in Sections
      /\ UNCHANGED <<file, saved, saves, thing, step>>
      /\ Current.name = "entry" /\ Current.attrs.type \notin AtOnce
      /\ reading' = Append(reading, ReadCall("value", Val(Current.attrs.type), Current.attrs, down))
      /\ current' = At
  BY <1>0 DEF BeginValue, Reads
<1>2. SavedOnce /\ PartOf(thing) /\ Walks /\ saves \in 0..MaxSaves
  BY <1>1, WhoReads
<1>3. PICK i \in 1..Len(file.kids) : \E j \in 1..Len(file.kids[i].kids) : InSection(i, j)
  BY <1>1, <1>2, WhoCalls
<1>4. PICK j \in 1..Len(file.kids[i].kids) : InSection(i, j)
  BY <1>3
<1>5. PICK s, entry, v :
        /\ s = file.kids[i].name /\ entry = file.kids[i].kids[j]
        /\ v = saved[file.kids[i].name][file.kids[i].kids[j].attrs.key].value
  BY Zenon
<1>6. /\ s \in Sections /\ Current = entry /\ FirstChild = <<i, j, 1>> /\ current = <<i, j>>
      /\ \A c : Append(reading, c) = <<ThingCall, SectionCall(s), c>>
  BY <1>4, <1>5, InSectionIs, Zenon
<1>7. IsEntry(i, j)
  BY <1>1, <1>5, <1>6, Zenon DEF IsEntry
<1>8. Key(i, j) = <<s, entry.attrs.key>>
  BY <1>5 DEF Key
<1>9. entry.kids = Contents(v) /\ entry.attrs.type = v.type /\ IsValue(v) /\ v.type \in Types
  BY <1>2, <1>5, <1>7, EntryIs, Zenon
<1>10. v.type \in ByEntry \/ v.type = "tcp"
  BY <1>1, <1>6, <1>9 DEF Types, ByEntry
<1>11. reading' = <<ThingCall, SectionCall(s), ReadCall("value", Val(v.type), entry.attrs, down)>>
  BY <1>1, <1>6, <1>9
<1>12. i \in Int /\ j \in Int /\ j > 0
  OBVIOUS
<1>13. ReadUpTo(i, j - 1, Nothing)
  BY <1>1, <1>4 DEF InSection
<1>14. ReadUpTo(i, j, Key(i, j))'
  <2>0. PICK q : q = Key(i, j)
    OBVIOUS
  <2>1. \A o \in 1..Len(file.kids) :
          file.kids[o].name \in Fields /\ (o > i \/ (o = i /\ j - 1 < 0)) =>
            \/ thing'[file.kids[o].name] = saved[file.kids[o].name]
            \/ o > i \/ (o = i /\ j < 0)
    BY <1>12
  <2>2. ASSUME NEW o \in 1..Len(file.kids), NEW l \in 1..Len(file.kids[o].kids),
               IsEntry(o, l), o > i \/ (o = i /\ l > j - 1)
        PROVE  o > i \/ (o = i /\ l > j) \/ q = Key(o, l)
    BY <1>12, <2>0, <2>2
  <2>3. \A t \in Sections : \A m \in DOMAIN saved[t] : Nothing = <<t, m>> => q = Nothing \/ Done(t, m)'
    <3>1. \A t, m : Nothing # <<t, m>>
      BY Stacks DEF Nothing
    <3> QED
      BY <3>1
  <2>4. \A f \in Fields : thing[f] = saved[f] => thing'[f] = saved[f]
    BY <1>1
  <2>5. \A o \in 1..Len(file.kids) : \A l \in 1..Len(file.kids[o].kids) :
          IsEntry(o, l) /\ (o > i \/ (o = i /\ l > j - 1)) =>
            \/ o > i \/ (o = i /\ l > j) \/ q = Key(o, l)
            \/ \A t \in Sections : \A m \in DOMAIN saved[t] : Key(o, l) = <<t, m>> => Done(t, m)'
    BY <2>2
  <2>6. UNCHANGED <<file, saved>> /\ \A t \in Sections : \A l \in DOMAIN thing[t] : l \in DOMAIN thing'[t]
    BY <1>1
  <2>7. ReadUpTo(i, j, q)'
    BY <1>13, <2>1, <2>3, <2>4, <2>5, <2>6, StillToRead
  <2>8. Key(i, j)' = q
    BY <1>1, <2>0 DEF Key
  <2> QED
    BY <2>7, <2>8
<1>15. IsEntry(i, j)'
  BY <1>1, <1>7 DEF IsEntry
<1>16. CASE v.type \in ByEntry
  <2>1. ReadsBack(v)
    BY <1>9, <1>16, EntriesReadBack
  <2>2. Contents(v) # <<>> /\ 1 \in 1..Len(Contents(v)) /\ After(v, 0) = Val(v.type)
    BY <2>1 DEF ReadsBack
  <2>3. down = TRUE /\ At = <<i, j, 1>>
    BY <1>0, <1>6, <1>9, <2>2 DEF Down, At
  <2>4. reading'[3].value = After(v, 0)
    <3> DEFINE c == ReadCall("value", Val(v.type), entry.attrs, down)
    <3>1. c.value = Val(v.type)
      BY DEF ReadCall
    <3> HIDE DEF c
    <3>2. reading' = <<ThingCall, SectionCall(s), c>>
      BY <1>11 DEF c
    <3>3. reading'[3] = c
      BY <3>2, Stacks
    <3> QED
      BY <2>2, <3>1, <3>3
  <2>5. /\ file'.kids[i].name = s /\ file'.kids[i].kids[j] = entry
        /\ saved'[file'.kids[i].name][file'.kids[i].kids[j].attrs.key].value = v
    BY <1>1, <1>5
  <2>6. reading' = <<ThingCall, SectionCall(s), ReadCall("value", reading'[3].value, entry.attrs, TRUE)>>
    BY <1>11, <2>2, <2>3, <2>4
  <2>7. step' = "entry" /\ current' = <<i, j, 1>> /\ 1 - 1 = 0 /\ 1 \in 1..Len(entry.kids) /\ 1 \in Nat
    BY <1>1, <1>9, <2>2, <2>3
  <2>8. InValue(i, j, 1)'
    BY <1>14, <1>15, <1>16, <2>4, <2>5, <2>6, <2>7 DEF InValue
  <2>9. Walks'
    BY <1>1, <2>7, <2>8 DEF Walks
  <2> QED
    BY <1>1, <1>2, <2>9, GoesOn
<1>17. CASE v.type = "tcp"
  <2>1. Contents(v) = <<>>
    BY <1>17 DEF Contents
  <2>2. down = FALSE /\ At = <<i, j>>
    BY <1>0, <1>6, <1>9, <2>1, Zenon DEF Down, At
  <2>3. file'.kids[i].name = s /\ file'.kids[i].kids[j] = entry /\ entry.attrs.type = "tcp"
    BY <1>1, <1>5, <1>9, <1>17, Zenon
  <2>4. reading' = <<ThingCall, SectionCall(s), ReadCall("value", Val("tcp"), entry.attrs, FALSE)>>
    BY <1>11, <1>17, <2>2
  <2>5. current' = <<i, j>> /\ j <= j /\ step' = "entry"
    BY <1>1, <1>12, <2>2
  <2>6. BehindConnection(i, j, j)'
    BY <1>14, <1>15, <2>3, <2>4, <2>5 DEF BehindConnection
  <2>7. Walks'
    BY <1>1, <2>6 DEF Walks
  <2> QED
    BY <1>1, <1>2, <2>7, GoesOn
<1> QED
  BY <1>10, <1>16, <1>17

(* The value in the innermost call is another.                              *)
LEMMA TakenCall ==
  \A a, b, w, attrs, down, r :
    Changed(<<a, b, ReadCall("value", w, attrs, down)>>, r)
      = <<a, b, ReadCall("value", r, attrs, down)>>
<1> TAKE a, b, w, attrs, down, r
<1> DEFINE c == ReadCall("value", w, attrs, down)
           d == ReadCall("value", r, attrs, down)
<1>1. Valued(c, r) = d
  BY ValuedIs
<1> HIDE DEF c, d
<1>2. Changed(<<a, b, c>>, r) = <<a, b, d>>
  BY <1>1, ChangedIs
<1> QED
  BY <1>2 DEF c, d

LEMMA ThirdCall ==
  \A a, b, value, attrs, down : <<a, b, ReadCall("value", value, attrs, down)>>[3].value = value
<1> TAKE a, b, value, attrs, down
<1> DEFINE c == ReadCall("value", value, attrs, down)
<1>1. c.value = value
  BY DEF ReadCall
<1> HIDE DEF c
<1>2. <<a, b, c>>[3] = c
  BY Stacks
<1> QED
  BY <1>1, <1>2 DEF c

LEMMA TakesIs == \A v : Takes(v) => reading' = Changed(reading, v)
  BY DEF Takes, Changed

ValueStack(s, w, attrs) == <<ThingCall, SectionCall(s), ReadCall("value", w, attrs, TRUE)>>

LEMMA TakenStack == \A s, w, attrs, r :
  Changed(ValueStack(s, w, attrs), r) = ValueStack(s, r, attrs) /\ ValueStack(s, r, attrs)[3].value = r
<1> TAKE s, w, attrs, r
<1>0. PICK down : down = TRUE
  OBVIOUS
<1> DEFINE before == <<ThingCall, SectionCall(s), ReadCall("value", w, attrs, down)>>
           after  == <<ThingCall, SectionCall(s), ReadCall("value", r, attrs, down)>>
<1>1. Changed(before, r) = after
  BY TakenCall
<1>2. after[3].value = r
  BY ThirdCall
<1>3. before = ValueStack(s, w, attrs) /\ after = ValueStack(s, r, attrs)
  BY <1>0 DEF ValueStack
<1> HIDE DEF before, after
<1> QED
  BY <1>1, <1>2, <1>3

(* The reader of a value goes on, or ends with what there is to come back.  *)
Continues(i, j, n, v, r) ==
  /\ step = "entry" /\ UNCHANGED <<file, saved, saves>> /\ InValue(i, j, n)
  /\ v = saved[file.kids[i].name][file.kids[i].kids[j].attrs.key].value
  /\ \/ Throws /\ Back(v, After(v, n - 1))
     \/ Takes(r) /\ r = After(v, n)

LEMMA ValueRead ==
  ASSUME NEW i \in 1..Len(file.kids), NEW j \in 1..Len(file.kids[i].kids), NEW n \in Nat,
         NEW v, NEW r, Continues(i, j, n, v, r)
  PROVE  Walks'
<1>0. /\ step = "entry" /\ file' = file /\ saved' = saved /\ thing' = thing /\ InValue(i, j, n)
      /\ v = saved[file.kids[i].name][file.kids[i].kids[j].attrs.key].value
      /\ \/ Throws /\ Back(v, After(v, n - 1))
         \/ Takes(r) /\ r = After(v, n)
  BY DEF Continues, Throws, Takes
<1>1. PICK s, entry, w :
        s = file.kids[i].name /\ entry = file.kids[i].kids[j] /\ w = reading[3].value
  OBVIOUS
<1>2. /\ n \in 1..Len(entry.kids) /\ IsEntry(i, j) /\ v.type \in ByEntry
      /\ w = After(v, n - 1) /\ ReadUpTo(i, j, Key(i, j)) /\ current = <<i, j, n>>
  BY <1>0, <1>1, Zenon DEF InValue
<1>3. reading = <<ThingCall, SectionCall(s), ReadCall("value", w, entry.attrs, TRUE)>>
  BY <1>0, <1>1, InValueIs, Zenon
<1>4. IsEntry(i, j)' /\ ReadUpTo(i, j, Key(i, j))'
  BY <1>0, <1>2, SameRead DEF IsEntry, Key
<1>5. /\ file'.kids[i].name = s /\ file'.kids[i].kids[j] = entry
      /\ saved'[file'.kids[i].name][file'.kids[i].kids[j].attrs.key].value = v
  BY <1>0, <1>1
<1>6. CASE Throws /\ Back(v, w)
  <2>1. step' = "return" /\ reading' = reading /\ current' = current
    BY <1>6 DEF Throws
  <2>2. /\ reading'[3].value = w /\ current' = <<i, j, n>>
        /\ reading' = <<ThingCall, SectionCall(s), ReadCall("value", reading'[3].value, entry.attrs, TRUE)>>
    BY <1>1, <1>2, <1>3, <2>1, Zenon
  <2>3. InValue(i, j, n)'
    BY <1>2, <1>4, <1>5, <1>6, <2>1, <2>2 DEF InValue
  <2> QED
    BY <1>0, <2>3 DEF Walks
<1>7. CASE Takes(r) /\ r = After(v, n)
  <2>1. step' = "next" /\ current' = current /\ r = After(v, n)
    BY <1>7 DEF Takes
  <2>2. reading' = <<ThingCall, SectionCall(s), ReadCall("value", r, entry.attrs, TRUE)>>
        /\ reading'[3].value = r
    <3>1. reading' = Changed(reading, r)
      BY <1>7, TakesIs, Zenon
    <3>2. reading = ValueStack(s, w, entry.attrs)
      BY <1>3, Zenon DEF ValueStack
    <3>3. /\ Changed(ValueStack(s, w, entry.attrs), r) = ValueStack(s, r, entry.attrs)
          /\ ValueStack(s, r, entry.attrs)[3].value = r
      BY TakenStack
    <3>4. reading' = ValueStack(s, r, entry.attrs)
      BY <3>1, <3>2, <3>3, Zenon
    <3>5. reading'[3].value = r
      BY <3>3, <3>4, Zenon
    <3> QED
      BY <3>4, <3>5, Zenon DEF ValueStack
  <2>3. InValue(i, j, n)'
    BY <1>2, <1>4, <1>5, <2>1, <2>2 DEF InValue
  <2> QED
    BY <1>0, <2>3 DEF Walks
<1> QED
  BY <1>0, <1>2, <1>6, <1>7

(* Who reads a value, and what it is of.                                    *)
LEMMA ReadsValue ==
  ASSUME SavedOnce, NEW i \in 1..Len(file.kids), NEW j \in 1..Len(file.kids[i].kids), NEW n \in Nat,
         step = "entry", InValue(i, j, n),
         NEW v, v = saved[file.kids[i].name][file.kids[i].kids[j].attrs.key].value
  PROVE  /\ Reader.value = After(v, n - 1) /\ Reader.value.type = v.type
         /\ NodeReadsBack(v, Current, After(v, n - 1), After(v, n))
<1>1. PICK entry, w : entry = file.kids[i].kids[j] /\ w = reading[3].value
  OBVIOUS
<1>2. n \in 1..Len(entry.kids) /\ IsEntry(i, j) /\ v.type \in ByEntry /\ w = After(v, n - 1)
  BY <1>1, Zenon DEF InValue
<1>3. Reader.value = w /\ Current = entry.kids[n]
  BY <1>1, InValueIs, Zenon
<1>4. entry.kids = Contents(v) /\ IsValue(v)
  BY <1>1, <1>2, EntryIs, Zenon
<1>5. ReadsBack(v)
  BY <1>2, <1>4, EntriesReadBack
<1>6. NodeReadsBack(v, Contents(v)[n], After(v, n - 1), After(v, n))
  BY <1>2, <1>4, <1>5 DEF ReadsBack
<1>7. After(v, n - 1).type = v.type
  BY <1>2, AfterIs
<1>8. Current = Contents(v)[n] /\ Reader.value = After(v, n - 1)
  BY <1>2, <1>3, <1>4
<1> QED
  BY <1>6, <1>7, <1>8, Zenon

LEMMA ReadValueInv ==
  ASSUME FileInv, ReadValue
  PROVE  FileInv'
<1>0. PICK r : r = EntryRead(Reader.value, Current)
  OBVIOUS
<1>1. /\ step = "entry" /\ reading # <<>> /\ Reader.of \in {"value"} /\ ~ReadsProgram
      /\ UNCHANGED <<file, saved, saves, thing, current>>
      /\ r = Nothing => Throws
      /\ r # Nothing => Takes(r)
  BY <1>0 DEF ReadValue, Reads, Throws, Takes
<1>2. SavedOnce /\ PartOf(thing) /\ Walks /\ saves \in 0..MaxSaves
  BY <1>1, WhoReads
<1>3. PICK i \in 1..Len(file.kids) : \E j \in 1..Len(file.kids[i].kids) :
        \/ \E n \in Nat : InValue(i, j, n)
        \/ \E h \in 1..Len(file.kids[i].kids) : BehindConnection(i, h, j)
  BY <1>1, <1>2, WhoCalls
<1>4. PICK j \in 1..Len(file.kids[i].kids) :
        \/ \E n \in Nat : InValue(i, j, n)
        \/ \E h \in 1..Len(file.kids[i].kids) : BehindConnection(i, h, j)
  BY <1>3
<1>5. ASSUME NEW n \in Nat, InValue(i, j, n)
      PROVE  Walks'
  <2>1. PICK v : v = saved[file.kids[i].name][file.kids[i].kids[j].attrs.key].value
    OBVIOUS
  <2>2. /\ Reader.value = After(v, n - 1) /\ Reader.value.type = v.type
        /\ NodeReadsBack(v, Current, After(v, n - 1), After(v, n))
    BY <1>1, <1>2, <1>5, <2>1, ReadsValue
  <2>3. \/ r = After(v, n) /\ r # Nothing
        \/ r = Nothing /\ Back(v, After(v, n - 1))
    BY <1>0, <1>1, <2>2 DEF NodeReadsBack, ReadsProgram
  <2>4. Continues(i, j, n, v, r)
    BY <1>1, <1>5, <2>1, <2>3 DEF Continues
  <2> QED
    BY <2>4, ValueRead
<1>6. ASSUME NEW h \in 1..Len(file.kids[i].kids), BehindConnection(i, h, j)
      PROVE  Walks'
  <2>1. PICK s, entry : s = file.kids[i].name /\ entry = file.kids[i].kids[h]
    OBVIOUS
  <2>2. /\ reading = <<ThingCall, SectionCall(s), ReadCall("value", Val("tcp"), entry.attrs, FALSE)>>
        /\ Reader.value = Val("tcp") /\ current = <<i, j>>
    BY <1>6, <2>1, BehindConnectionIs
  <2>3. IsEntry(i, h) /\ entry.attrs.type = "tcp" /\ h <= j /\ ReadUpTo(i, j, Key(i, h))
    BY <1>6, <2>1 DEF BehindConnection
  <2>4. r = Val("tcp") /\ Val("tcp") # Nothing
    <3>1. Val("tcp").type = "tcp" /\ Val("tcp") # Nothing
      BY DEF Val, Nothing
    <3> QED
      BY <1>0, <2>2, <3>1 DEF EntryRead
  <2>5. step' = "next" /\ reading' = reading /\ current' = current
    <3>0. PICK down : down = FALSE
      OBVIOUS
    <3> DEFINE a == ThingCall
               b == SectionCall(s)
               c == ReadCall("value", r, entry.attrs, down)
    <3>1. Valued(c, r) = c
      BY ValuedIs
    <3>2. reading = <<a, b, c>>
      BY <2>2, <2>4, <3>0
    <3> HIDE DEF a, b, c
    <3>3. Changed(reading, r) = reading
      BY <3>1, <3>2, ChangedIs
    <3> QED
      BY <1>1, <2>4, <3>3 DEF Changed, Takes
  <2>6. IsEntry(i, h)' /\ ReadUpTo(i, j, Key(i, h))'
    BY <1>1, <2>3, SameRead DEF IsEntry, Key
  <2>7. file'.kids[i].name = s /\ file'.kids[i].kids[h] = entry
    BY <1>1, <2>1
  <2>8. /\ reading' = <<ThingCall, SectionCall(s), ReadCall("value", Val("tcp"), entry.attrs, FALSE)>>
        /\ current' = <<i, j>> /\ step' \in {"entry", "next", "return"} /\ step' # "return"
    BY <2>2, <2>5
  <2>9. BehindConnection(i, h, j)'
    BY <2>3, <2>6, <2>7, <2>8 DEF BehindConnection
  <2> QED
    BY <1>1, <2>9 DEF Walks
<1>7. Walks'
  BY <1>4, <1>5, <1>6
<1> QED
  BY <1>1, <1>2, <1>7, GoesOn

LEMMA ReadProgramInv ==
  ASSUME FileInv, ReadProgram
  PROVE  FileInv'
<1>0. PICK program : program = ParseProgram(Buffered(Current))
  OBVIOUS
<1>1. /\ step = "entry" /\ reading # <<>> /\ Reader.of \in {"value"} /\ ReadsProgram
      /\ UNCHANGED <<file, saved, saves>>
      /\ \/ Takes([Reader.value EXCEPT ![Current.name] = program.exprs])
         \/ program.how # "exprs" /\ Throws
         \/ thing' = Nothing /\ reading' = <<>> /\ step' = "running"
  BY <1>0 DEF ReadProgram, Reads
<1>2. SavedOnce /\ PartOf(thing) /\ Walks /\ saves \in 0..MaxSaves
  BY <1>1, WhoReads
<1>3. PICK i \in 1..Len(file.kids) : \E j \in 1..Len(file.kids[i].kids) :
        \/ \E n \in Nat : InValue(i, j, n)
        \/ \E h \in 1..Len(file.kids[i].kids) : BehindConnection(i, h, j)
  BY <1>1, <1>2, WhoCalls
<1>4. PICK j \in 1..Len(file.kids[i].kids) :
        \/ \E n \in Nat : InValue(i, j, n)
        \/ \E h \in 1..Len(file.kids[i].kids) : BehindConnection(i, h, j)
  BY <1>3
<1>5. ASSUME NEW h \in 1..Len(file.kids[i].kids), BehindConnection(i, h, j)
      PROVE  FALSE
  <2>1. Reader.value = Val("tcp")
    BY <1>5, BehindConnectionIs
  <2>2. Val("tcp").type = "tcp"
    BY DEF Val
  <2> QED
    BY <1>1, <2>1, <2>2, ProgramsAre DEF ReadsProgram
<1>6. PICK n \in Nat : InValue(i, j, n)
  BY <1>4, <1>5
<1>7. PICK v : v = saved[file.kids[i].name][file.kids[i].kids[j].attrs.key].value
  OBVIOUS
<1>8. /\ Reader.value = After(v, n - 1)
      /\ [After(v, n - 1) EXCEPT ![Current.name] = program.exprs] = After(v, n)
      /\ program.how = "exprs" \/ Back(v, After(v, n - 1))
  <2>1. /\ Reader.value = After(v, n - 1) /\ Reader.value.type = v.type
        /\ NodeReadsBack(v, Current, After(v, n - 1), After(v, n))
    BY <1>1, <1>2, <1>6, <1>7, ReadsValue
  <2> QED
    BY <1>0, <1>1, <2>1 DEF NodeReadsBack, ReadsProgram
<1>9. CASE \/ Takes([Reader.value EXCEPT ![Current.name] = program.exprs])
           \/ program.how # "exprs" /\ Throws
  <2>1. Takes(After(v, n)) \/ (Throws /\ Back(v, After(v, n - 1)))
    BY <1>8, <1>9, Zenon
  <2>2. Walks'
    <3>1. Continues(i, j, n, v, After(v, n))
      BY <1>1, <1>6, <1>7, <2>1 DEF Continues
    <3> QED
      BY <3>1, ValueRead
  <2>3. thing' = thing
    BY <1>9 DEF Takes, Throws
  <2> QED
    BY <1>1, <1>2, <2>2, <2>3, GoesOn
<1>10. CASE thing' = Nothing /\ reading' = <<>> /\ step' = "running"
  BY <1>1, <1>2, <1>10 DEF FileInv, SavedOnce
<1> QED
  BY <1>1, <1>9, <1>10

LEMMA ReturnValueInv ==
  ASSUME FileInv, ReturnValue
  PROVE  FileInv'
<1>1. /\ step = "return" /\ Reader.of \in {"value"} /\ reading' = Front(reading)
      /\ UNCHANGED <<file, saved, saves>>
      /\ Put(reading[Len(reading) - 1].of, Reader.value, Reader.attrs)
      /\ current' = AfterValue(Reader.down) /\ step' = "next"
  BY DEF ReturnValue, Returns
<1>2. SavedOnce /\ saves \in 0..MaxSaves /\ PartOf(thing) /\ Walks
  BY <1>1 DEF FileInv, Fresh, SavedOnce
<1>3. PICK i \in 1..Len(file.kids) : \E j \in 1..Len(file.kids[i].kids) :
        \/ \E n \in Nat : InValue(i, j, n)
        \/ \E h \in 1..Len(file.kids[i].kids) : BehindConnection(i, h, j)
  BY <1>1, <1>2, WhoCalls
<1>4. PICK j \in 1..Len(file.kids[i].kids) :
        \/ \E n \in Nat : InValue(i, j, n)
        \/ \E h \in 1..Len(file.kids[i].kids) : BehindConnection(i, h, j)
  BY <1>3
(* The entry whose value this is is read now; it is the jth, or one before. *)
<1>5. ASSUME NEW h \in 1..Len(file.kids[i].kids), h <= j, IsEntry(i, h),
             reading[Len(reading) - 1].of = file.kids[i].name,
             Reader.attrs = file.kids[i].kids[h].attrs,
             Back(saved[file.kids[i].name][file.kids[i].kids[h].attrs.key].value, Reader.value),
             reading' = <<ThingCall, SectionCall(file.kids[i].name)>>, current' = <<i, j>>,
             ReadUpTo(i, j, Key(i, h))
      PROVE  FileInv'
  <2>1. PICK s, k, w :
          /\ s = file.kids[i].name /\ k = file.kids[i].kids[h].attrs.key /\ w = Reader.value
    OBVIOUS
  <2>2. Put(file.kids[i].name, w, file.kids[i].kids[h].attrs)
    BY <1>1, <1>5, <2>1, Zenon
  <2>3. Back(saved[file.kids[i].name][file.kids[i].kids[h].attrs.key].value, w)
    BY <1>5, <2>1, Zenon
  <2>4. /\ PartOf(thing')
        /\ \A f \in Fields : thing'[f] = thing[f]
        /\ \A t \in Sections : \A l \in DOMAIN thing[t] : l \in DOMAIN thing'[t]
        /\ k \in DOMAIN thing'[s]
    <3>1. /\ PartOf(thing')
          /\ \A f \in Fields : thing'[f] = thing[f]
          /\ \A t \in Sections : \A l \in DOMAIN thing[t] : l \in DOMAIN thing'[t]
          /\ file.kids[i].kids[h].attrs.key \in DOMAIN thing'[file.kids[i].name]
      BY <1>1, <1>2, <1>5, <2>2, <2>3, PutReads, Zenon
    <3> QED
      BY <2>1, <3>1
  <2>5. Done(s, k)'
    BY <2>4 DEF Done
  <2>6. PICK p : p = Key(i, h)
    OBVIOUS
  <2>7. p = <<s, k>> /\ s \in Sections
    BY <1>5, <2>1, <2>6, Zenon DEF Key, IsEntry
  <2>8. ReadUpTo(i, j, p) /\ UNCHANGED <<file, saved>>
    BY <1>1, <1>5, <2>6, Zenon
  <2>9. ReadUpTo(i, j, Nothing)'
    <3>1. \A o \in 1..Len(file.kids) :
            file.kids[o].name \in Fields /\ (o > i \/ (o = i /\ j < 0)) =>
              \/ thing'[file.kids[o].name] = saved[file.kids[o].name]
              \/ o > i \/ (o = i /\ j < 0)
      OBVIOUS
    <3>2. \A t \in Sections : \A m \in DOMAIN saved[t] : p = <<t, m>> => Nothing = p \/ Done(t, m)'
      BY <2>5, <2>7
    <3>3. \A f \in Fields : thing[f] = saved[f] => thing'[f] = saved[f]
      BY <2>4
    <3>4. \A o \in 1..Len(file.kids) : \A l \in 1..Len(file.kids[o].kids) :
            IsEntry(o, l) /\ (o > i \/ (o = i /\ l > j)) =>
              \/ o > i \/ (o = i /\ l > j) \/ Nothing = Key(o, l)
              \/ \A t \in Sections : \A m \in DOMAIN saved[t] : Key(o, l) = <<t, m>> => Done(t, m)'
      OBVIOUS
    <3>5. \A t \in Sections : \A l \in DOMAIN thing[t] : l \in DOMAIN thing'[t]
      BY <2>4
    <3> QED
      BY <2>8, <3>1, <3>2, <3>3, <3>4, <3>5, StillToRead
  <2>10. file'.kids[i].name = s /\ reading' = <<ThingCall, SectionCall(s)>>
    BY <1>1, <1>5, <2>1, Zenon
  <2>11. InSection(i, j)'
    BY <1>1, <1>5, <2>7, <2>9, <2>10, Zenon DEF InSection
  <2>12. Walks'
    BY <1>1, <2>11 DEF Walks
  <2>13. PartOf(thing') /\ UNCHANGED <<file, saved, saves>>
    BY <1>1, <2>4
  <2> QED
    BY <1>2, <2>12, <2>13, GoesOn
<1>6. ASSUME NEW n \in Nat, InValue(i, j, n)
      PROVE  FileInv'
  <2>1. /\ IsEntry(i, j) /\ ReadUpTo(i, j, Key(i, j))
        /\ Back(saved[file.kids[i].name][file.kids[i].kids[j].attrs.key].value, reading[3].value)
    BY <1>1, <1>6, Zenon DEF InValue
  <2>2. /\ Reader.value = reading[3].value /\ Reader.attrs = file.kids[i].kids[j].attrs /\ Reader.down
        /\ reading' = <<ThingCall, SectionCall(file.kids[i].name)>>
        /\ reading[Len(reading) - 1].of = file.kids[i].name
        /\ Parent(current) = <<i, j>>
    BY <1>1, <1>6, InValueIs
  <2>3. j <= j /\ current' = <<i, j>>
    BY <1>1, <2>2 DEF AfterValue
  <2> QED
    BY <1>5, <2>1, <2>2, <2>3, Zenon
<1>7. ASSUME NEW h \in 1..Len(file.kids[i].kids), BehindConnection(i, h, j)
      PROVE  FileInv'
  <2>1. /\ IsEntry(i, h) /\ ReadUpTo(i, j, Key(i, h)) /\ h <= j
        /\ file.kids[i].kids[h].attrs.type = "tcp"
    BY <1>7 DEF BehindConnection
  <2>2. /\ Reader.value = Val("tcp") /\ Reader.attrs = file.kids[i].kids[h].attrs /\ ~Reader.down
        /\ reading' = <<ThingCall, SectionCall(file.kids[i].name)>>
        /\ reading[Len(reading) - 1].of = file.kids[i].name
        /\ current = <<i, j>>
    BY <1>1, <1>7, BehindConnectionIs
  <2>3. PICK v : v = saved[file.kids[i].name][file.kids[i].kids[h].attrs.key].value
    OBVIOUS
  <2>4. v.type = "tcp"
    BY <1>2, <2>1, <2>3, EntryIs, Zenon
  <2>5. Back(v, Val("tcp"))
    BY <2>4 DEF Back
  <2>6. current' = <<i, j>>
    BY <1>1, <2>2 DEF AfterValue
  <2>7. Back(saved[file.kids[i].name][file.kids[i].kids[h].attrs.key].value, Reader.value)
    BY <2>2, <2>3, <2>5, Zenon
  <2> QED
    BY <1>5, <2>1, <2>2, <2>6, <2>7, Zenon
<1> QED
  BY <1>4, <1>6, <1>7

(* Every thing that is there at first is one.                               *)
LEMMA FileInitInv ==
  ASSUME NothingSaved, thing \in Things \cup {Nothing}
  PROVE  FileInv
<1>1. /\ saves = 0 /\ saved = Nothing /\ step = "running" /\ reading = <<>>
  BY DEF NothingSaved
<1>2. thing = Nothing \/ IsThing(thing)
  BY FileAssumption
<1>3. saves \in 0..MaxSaves
  BY <1>1, FileAssumption
<1> QED
  BY <1>1, <1>2, <1>3 DEF FileInv, Fresh

LEMMA FileNextInv ==
  ASSUME FileInv, [FileNext]_fileVars
  PROVE  FileInv'
<1>1. CASE SaveObject
  BY <1>1, SaveObjectInv
<1>2. CASE LoadObject
  BY <1>2, LoadObjectInv
<1>3. CASE ReadSection
  BY <1>3, ReadSectionInv
<1>4. CASE ReadField
  BY <1>4, ReadFieldInv
<1>5. CASE ReadValueAtOnce
  BY <1>5, ReadValueAtOnceInv
<1>6. CASE BeginValue
  BY <1>6, BeginValueInv
<1>7. CASE ReadNothing
  BY <1>7, ReadNothingInv
<1>8. CASE ReadValue
  BY <1>8, ReadValueInv
<1>9. CASE NextEntry
  BY <1>9, NextEntryInv
<1>10. CASE ReturnValue
  BY <1>10, ReturnValueInv
<1>11. CASE ReturnSection
  BY <1>11, ReturnSectionInv
<1>12. CASE ReturnThing
  BY <1>12, ReturnThingInv
<1>13. CASE SaveOverruns
  BY <1>13, SaveOverrunsInv
<1>14. CASE ReadProgram
  BY <1>14, ReadProgramInv
<1>15. CASE UNCHANGED fileVars
  <2>1. UNCHANGED <<thing, file, current, reading, step, saved, saves>>
    BY <1>15 DEF fileVars
  <2>2. \A i, j, p : ReadUpTo(i, j, p)' <=> ReadUpTo(i, j, p)
    BY <2>1, SameRead
  <2>3. \A i, j : (IsEntry(i, j)' <=> IsEntry(i, j)) /\ Key(i, j)' = Key(i, j)
    BY <2>1 DEF IsEntry, Key
  <2>4. \A i : InThing(i)' <=> InThing(i)
    BY <2>1, <2>2 DEF InThing
  <2>5. \A i, j : InSection(i, j)' <=> InSection(i, j)
    BY <2>1, <2>2 DEF InSection
  <2>6. ASSUME NEW i, NEW j, NEW n, InValue(i, j, n)
        PROVE  InValue(i, j, n)'
    <3>1. ReadUpTo(i, j, Key(i, j))'
      BY <2>1, <2>6, SameRead, Zenon DEF InValue, Key
    <3> QED
      BY <2>1, <2>3, <2>6, <3>1, Zenon DEF InValue
  <2>7. ASSUME NEW i, NEW h, NEW j, BehindConnection(i, h, j)
        PROVE  BehindConnection(i, h, j)'
    <3>1. ReadUpTo(i, j, Key(i, h))'
      BY <2>1, <2>7, SameRead DEF BehindConnection, Key
    <3> QED
      BY <2>1, <2>3, <2>7, <3>1 DEF BehindConnection
  <2>8. Walks => Walks'
    BY <2>1, <2>4, <2>5, <2>6, <2>7 DEF Walks
  <2>9. PartOf(thing) => PartOf(thing)'
    BY <2>1 DEF PartOf
  <2>10. SavedOnce => SavedOnce'
    BY <2>1, <2>2, <2>8, <2>9 DEF SavedOnce
  <2> QED
    BY <2>1, <2>10 DEF FileInv, Fresh
<1> QED
  BY <1>1, <1>2, <1>3, <1>4, <1>5, <1>6, <1>7, <1>8, <1>9, <1>10, <1>11, <1>12, <1>15, <1>13, <1>14
  DEF FileNext, Reload

-----------------------------------------------------------------------------
(* What the invariant says of a thing that was loaded                       *)

LEMMA NotAtRest == Walks => step \in {"entry", "next", "return"} /\ reading # <<>>
  BY InThingIs, InSectionIs, InValueIs, BehindConnectionIs DEF Walks

(* When all is read, what the file holds of the saved thing is in memory.   *)
LEMMA AllIsRead ==
  ASSUME FileInv, Reloaded
  PROVE  /\ SavedOnce /\ PartOf(thing) /\ saves \in Nat
         /\ \A f \in Fields : thing[f] = saved[f]
         /\ \A s \in Sections : \A k \in DOMAIN saved[s] : Done(s, k)
         /\ \A s \in Sections : \A k \in DOMAIN saved[s] :
              /\ IsValue(saved[s][k].value)
              /\ saved[s][k] = [value |-> saved[s][k].value, owner |-> saved[s][k].owner,
                                mode |-> saved[s][k].mode]
         /\ \A s \in Sections : \A k \in DOMAIN thing[s] :
              \/ Settled(saved[s][k].value) /\ Readable(saved[s][k].value)
              \/ Kept(saved[s][k].value)
              => thing[s][k] = saved[s][k]
<1>1. step = "running" /\ saves > 0 /\ thing # Nothing
  BY DEF Reloaded
<1>2. SavedOnce /\ saves \in Nat
  BY <1>1, FileAssumption DEF FileInv, Fresh
<1>3. PartOf(thing) /\ ReadUpTo(Len(file.kids) + 1, -1, Nothing)
  BY <1>1, <1>2, NotAtRest DEF SavedOnce
<1>4. Len(file.kids) \in Nat
  BY <1>2, KidsFacts
<1>5. \A m \in 1..Len(file.kids) : ~(m > Len(file.kids) + 1) /\ m # Len(file.kids) + 1
  BY <1>4
<1>6. \A f \in Fields : thing[f] = saved[f]
  BY <1>3, <1>5 DEF ReadUpTo
<1>7. \A s \in Sections : \A k \in DOMAIN saved[s] : Done(s, k)
  <2>1. \A s, k : Nothing # <<s, k>>
    BY Stacks DEF Nothing
  <2> QED
    BY <1>3, <1>5, <2>1 DEF ReadUpTo
<1>8. ASSUME NEW s \in Sections, NEW k \in DOMAIN saved[s]
      PROVE  /\ IsValue(saved[s][k].value)
             /\ saved[s][k] = [value |-> saved[s][k].value, owner |-> saved[s][k].owner,
                               mode |-> saved[s][k].mode]
  <2>1. IsHash(saved[s])
    BY <1>2, <1>8 DEF SavedOnce, IsThing, Sections
  <2>2. IsHashEntry(saved[s][k])
    BY <1>8, <2>1 DEF IsHash
  <2> QED
    BY <2>2 DEF IsHashEntry
<1>9. ASSUME NEW s \in Sections, NEW k \in DOMAIN thing[s],
             \/ Settled(saved[s][k].value) /\ Readable(saved[s][k].value)
             \/ Kept(saved[s][k].value)
      PROVE  thing[s][k] = saved[s][k]
  <2> DEFINE v == saved[s][k].value
             w == thing[s][k].value
  <2>1. HashOf(thing[s], saved[s])
    BY <1>3 DEF PartOf
  <2>2. /\ k \in DOMAIN saved[s] /\ Back(v, w)
        /\ thing[s][k] = [value |-> w, owner |-> saved[s][k].owner, mode |-> saved[s][k].mode]
    BY <1>9, <2>1 DEF HashOf
  <2>3. w = v
    BY <1>8, <1>9, <2>2, BackIsSame
  <2> HIDE DEF v, w
  <2>4. saved[s][k] = [value |-> v, owner |-> saved[s][k].owner, mode |-> saved[s][k].mode]
    BY <1>8, <2>2 DEF v
  <2> QED
    BY <2>2, <2>3, <2>4
<1> QED
  BY <1>2, <1>3, <1>6, <1>7, <1>8, <1>9

LEMMA InvComesBack ==
  ASSUME FileInv
  PROVE  ComesBack
<1> SUFFICES ASSUME Reloaded
             PROVE  /\ \A field \in {"id", "parent", "owner", "mode"} : thing[field] = saved[field]
                    /\ ~thing.wizard
                    /\ \A section \in Sections :
                         /\ DOMAIN thing[section] \subseteq DOMAIN saved[section]
                         /\ \A k \in DOMAIN saved[section] :
                              Kept(saved[section][k].value) /\ ~Hidden(section, k) =>
                                k \in DOMAIN thing[section] /\ thing[section][k] = saved[section][k]
  BY DEF ComesBack
<1>1. \A field \in {"id", "parent", "owner", "mode"} : thing[field] = saved[field]
  BY AllIsRead DEF Fields
<1>2. ASSUME NEW s \in Sections
      PROVE  DOMAIN thing[s] \subseteq DOMAIN saved[s]
  BY AllIsRead DEF PartOf, HashOf
<1>3. ASSUME NEW s \in Sections, NEW k \in DOMAIN saved[s],
             Kept(saved[s][k].value), ~Hidden(s, k)
      PROVE  k \in DOMAIN thing[s] /\ thing[s][k] = saved[s][k]
  <2>1. Done(s, k)
    BY AllIsRead
  <2>2. saved[s][k].value.type # "boolean"
    BY <1>3 DEF Kept
  <2>3. k \in DOMAIN thing[s]
    BY <1>3, <2>1, <2>2 DEF Done
  <2> QED
    BY <1>3, <2>3, AllIsRead
<1>4. ~thing.wizard
  BY AllIsRead DEF PartOf
<1> QED
  BY <1>1, <1>2, <1>3, <1>4

(* Without a connection nothing is hidden.                                  *)
LEMMA NothingHidden ==
  ASSUME SavedOnce, NEW s \in Sections, NEW k \in DOMAIN saved[s],
         \A l \in DOMAIN saved[s] : saved[s][l].value.type # "tcp"
  PROVE  ~Hidden(s, k)
<1>1. PICK i \in 1..Len(file.kids) : file.kids[i].name = s
  BY DEF SavedOnce, FileHolds
<1> DEFINE choice == CHOOSE n \in ToSet(file.kids) : n.name = s
<1>2. IsSeq(file.kids) /\ \A m \in 1..Len(file.kids) : file.kids[m].name = s => m = i
  BY <1>1 DEF SavedOnce, FileHolds
<1>3. DOMAIN file.kids = 1..Len(file.kids)
  BY <1>2, SeqFacts
<1>4. choice = file.kids[i]
  <2>1. file.kids[i] \in ToSet(file.kids)
    BY <1>3 DEF ToSet
  <2>2. choice \in ToSet(file.kids) /\ choice.name = s
    BY <1>1, <2>1
  <2> HIDE DEF choice
  <2>3. PICK m \in 1..Len(file.kids) : choice = file.kids[m]
    BY <1>3, <2>2 DEF ToSet
  <2> QED
    BY <1>2, <2>2, <2>3
<1>5. SectionHolds(file.kids[i], saved[s])
  BY <1>1 DEF SavedOnce, FileHolds
<1>6. DOMAIN file.kids[i].kids = 1..Len(file.kids[i].kids)
  BY <1>5, SeqFacts DEF SectionHolds
<1>7. ASSUME NEW h \in DOMAIN file.kids[i].kids, file.kids[i].kids[h].name = "entry"
      PROVE  file.kids[i].kids[h].attrs.type # "tcp"
  <2>1. h \in 1..Len(file.kids[i].kids) /\ IsEntry(i, h)
    BY <1>1, <1>6, <1>7 DEF IsEntry
  <2> QED
    BY <1>1, <2>1, EntryIs, Zenon
<1>8. Hidden(s, k) =>
        \E a \in DOMAIN choice.kids : choice.kids[a].name = "entry" /\ choice.kids[a].attrs.type = "tcp"
  BY DEF Hidden
<1> HIDE DEF choice
<1> QED
  BY <1>4, <1>7, <1>8

LEMMA InvSettles ==
  ASSUME FileInv
  PROVE  Settles
<1> SUFFICES ASSUME Reloaded, saves > 2,
                    \A s \in Sections : \A k \in DOMAIN saved[s] : saved[s][k].value.type # "tcp"
             PROVE  /\ \A field \in {"id", "parent", "owner", "mode", "wizard"} :
                         thing[field] = saved[field]
                    /\ \A s \in Sections :
                         /\ DOMAIN thing[s] = DOMAIN saved[s]
                         /\ \A k \in DOMAIN saved[s] :
                              /\ thing[s][k] = [saved[s][k] EXCEPT !.value = thing[s][k].value]
                              /\ Readable(saved[s][k].value) => thing[s][k] = saved[s][k]
  BY DEF Settles
<1>1. SavedOnce /\ PartOf(thing) /\ saves \in Nat
  BY AllIsRead
<1>2. Loaded(saves - 1, saved) /\ saves - 1 >= 1 /\ saves - 1 >= 2 /\ IsThing(saved)
  BY <1>1 DEF SavedOnce
<1>3. ~saved.wizard /\ \A s \in Sections : \A k \in DOMAIN saved[s] : Settled(saved[s][k].value)
  BY <1>2 DEF Loaded
<1>4. ASSUME NEW s \in Sections
      PROVE  /\ DOMAIN thing[s] = DOMAIN saved[s]
             /\ \A k \in DOMAIN saved[s] :
                  /\ thing[s][k] = [saved[s][k] EXCEPT !.value = thing[s][k].value]
                  /\ Readable(saved[s][k].value) => thing[s][k] = saved[s][k]
  <2>1. HashOf(thing[s], saved[s])
    BY <1>1 DEF PartOf
  <2>2. ASSUME NEW k \in DOMAIN saved[s]
        PROVE  k \in DOMAIN thing[s]
    <3>1. ~Hidden(s, k)
      BY <1>1, NothingHidden
    <3>2. saved[s][k].value.type # "boolean"
      BY <1>3 DEF Settled, Once
    <3> QED
      BY <3>1, <3>2, AllIsRead DEF Done
  <2>3. DOMAIN thing[s] = DOMAIN saved[s]
    BY <2>1, <2>2 DEF HashOf
  <2>4. ASSUME NEW k \in DOMAIN saved[s]
        PROVE  thing[s][k] = [saved[s][k] EXCEPT !.value = thing[s][k].value]
    <3> DEFINE e == saved[s][k]
               w == thing[s][k].value
    <3>1. thing[s][k] = [value |-> w, owner |-> e.owner, mode |-> e.mode]
      BY <2>1, <2>3 DEF HashOf
    <3>2. e = [value |-> e.value, owner |-> e.owner, mode |-> e.mode]
      BY AllIsRead
    <3> HIDE DEF e, w
    <3>3. [e EXCEPT !.value = w] = [value |-> w, owner |-> e.owner, mode |-> e.mode]
      BY <3>2
    <3> QED
      BY <3>1, <3>3 DEF e, w
  <2>5. ASSUME NEW k \in DOMAIN saved[s], Readable(saved[s][k].value)
        PROVE  thing[s][k] = saved[s][k]
    BY <1>3, <2>3, <2>5, AllIsRead
  <2> QED
    BY <2>3, <2>4, <2>5
<1>5. thing.wizard = saved.wizard
  <2>1. saved.wizard \in BOOLEAN /\ thing.wizard = FALSE
    BY <1>1, <1>2 DEF IsThing, PartOf
  <2> QED
    BY <1>3, <2>1
<1>6. \A f \in Fields : thing[f] = saved[f]
  BY AllIsRead
<1> QED
  BY <1>4, <1>5, <1>6 DEF Fields

-----------------------------------------------------------------------------
(* The cursor                                                               *)

Begun(a, b, c) ==
  /\ DOMAIN <<a>> = 1..1 /\ DOMAIN <<a, b>> = 1..2 /\ DOMAIN <<a, b, c>> = 1..3
  /\ SubSeq(<<a>>, 1, 0) = <<>> /\ SubSeq(<<a, b>>, 1, 0) = <<>> /\ SubSeq(<<a, b, c>>, 1, 0) = <<>>
  /\ SubSeq(<<a>>, 1, 1) = <<a>> /\ SubSeq(<<a, b>>, 1, 1) = <<a>>
  /\ SubSeq(<<a, b, c>>, 1, 1) = <<a>>
  /\ SubSeq(<<a, b>>, 1, 2) = <<a, b>> /\ SubSeq(<<a, b, c>>, 1, 2) = <<a, b>>

LEMMA BeginningFacts ==
  ASSUME NEW a, NEW b, NEW c
  PROVE  Begun(a, b, c)
<1> DEFINE S == {a, b, c}
<1>1. <<a>> \in Seq(S) /\ <<a, b>> \in Seq(S) /\ <<a, b, c>> \in Seq(S)
  OBVIOUS
<1>2. /\ Len(<<a>>) = 1 /\ <<a>>[1] = a
      /\ Len(<<a, b>>) = 2 /\ <<a, b>>[1] = a /\ <<a, b>>[2] = b
      /\ Len(<<a, b, c>>) = 3 /\ <<a, b, c>>[1] = a /\ <<a, b, c>>[2] = b
  BY Stacks
<1>3. 1..1 = {1} /\ 1..2 = {1, 2}
  OBVIOUS
<1> HIDE DEF S
<1>4. ASSUME NEW s \in Seq(S), Len(s) \in 1..3
      PROVE  SubSeq(s, 1, 0) = <<>>
  OBVIOUS
<1>5. ASSUME NEW s \in Seq(S), Len(s) \in 1..3, s[1] = a
      PROVE  SubSeq(s, 1, 1) = <<a>>
  <2> DEFINE t == SubSeq(s, 1, 1)
  <2>1. t \in Seq(S) /\ Len(t) = 1 /\ t[1] = a
    BY <1>5, SubSeqProperties
  <2> HIDE DEF t
  <2>2. \A i \in 1..Len(t) : t[i] = <<a>>[i]
    BY <1>2, <1>3, <2>1
  <2> QED
    BY <1>1, <1>2, <2>1, <2>2, SeqEqual DEF t
<1>6. ASSUME NEW s \in Seq(S), Len(s) \in 2..3, s[1] = a, s[2] = b
      PROVE  SubSeq(s, 1, 2) = <<a, b>>
  <2> DEFINE t == SubSeq(s, 1, 2)
  <2>1. t \in Seq(S) /\ Len(t) = 2 /\ t[1] = a /\ t[2] = b
    BY <1>6, SubSeqProperties
  <2> HIDE DEF t
  <2>2. \A i \in 1..Len(t) : t[i] = <<a, b>>[i]
    BY <1>2, <1>3, <2>1
  <2> QED
    BY <1>1, <1>2, <2>1, <2>2, SeqEqual DEF t
<1>7. DOMAIN <<a>> = 1..1 /\ DOMAIN <<a, b>> = 1..2 /\ DOMAIN <<a, b, c>> = 1..3
  BY <1>1, <1>2, LenProperties
<1>8. 1 \in 1..3 /\ 2 \in 1..3 /\ 3 \in 1..3 /\ 2 \in 2..3 /\ 3 \in 2..3
  OBVIOUS
<1>9. /\ SubSeq(<<a>>, 1, 0) = <<>> /\ SubSeq(<<a, b>>, 1, 0) = <<>>
      /\ SubSeq(<<a, b, c>>, 1, 0) = <<>>
  BY <1>1, <1>2, <1>4, <1>8
<1>10. /\ SubSeq(<<a>>, 1, 1) = <<a>> /\ SubSeq(<<a, b>>, 1, 1) = <<a>>
       /\ SubSeq(<<a, b, c>>, 1, 1) = <<a>>
  BY <1>1, <1>2, <1>5, <1>8
<1>11. SubSeq(<<a, b>>, 1, 2) = <<a, b>> /\ SubSeq(<<a, b, c>>, 1, 2) = <<a, b>>
  BY <1>1, <1>2, <1>6, <1>8
<1> QED
  BY <1>7, <1>9, <1>10, <1>11 DEF Begun

LEMMA Beginnings ==
  /\ \A a : DOMAIN <<a>> = 1..1 /\ SubSeq(<<a>>, 1, 0) = <<>> /\ SubSeq(<<a>>, 1, 1) = <<a>>
  /\ \A a, b : /\ DOMAIN <<a, b>> = 1..2 /\ SubSeq(<<a, b>>, 1, 0) = <<>>
               /\ SubSeq(<<a, b>>, 1, 1) = <<a>> /\ SubSeq(<<a, b>>, 1, 2) = <<a, b>>
  /\ \A a, b, c : /\ DOMAIN <<a, b, c>> = 1..3 /\ SubSeq(<<a, b, c>>, 1, 0) = <<>>
                  /\ SubSeq(<<a, b, c>>, 1, 1) = <<a>> /\ SubSeq(<<a, b, c>>, 1, 2) = <<a, b>>
<1>1. ASSUME NEW a, NEW b
      PROVE  /\ DOMAIN <<a, b>> = 1..2 /\ SubSeq(<<a, b>>, 1, 0) = <<>>
             /\ SubSeq(<<a, b>>, 1, 1) = <<a>> /\ SubSeq(<<a, b>>, 1, 2) = <<a, b>>
             /\ DOMAIN <<a>> = 1..1 /\ SubSeq(<<a>>, 1, 0) = <<>> /\ SubSeq(<<a>>, 1, 1) = <<a>>
  <2>1. Begun(a, b, b)
    BY BeginningFacts
  <2> QED
    BY <2>1 DEF Begun
<1>2. ASSUME NEW a, NEW b, NEW c
      PROVE  /\ DOMAIN <<a, b, c>> = 1..3 /\ SubSeq(<<a, b, c>>, 1, 0) = <<>>
             /\ SubSeq(<<a, b, c>>, 1, 1) = <<a>> /\ SubSeq(<<a, b, c>>, 1, 2) = <<a, b>>
  <2>1. Begun(a, b, c)
    BY BeginningFacts
  <2> QED
    BY <2>1 DEF Begun
<1> QED
  BY <1>1, <1>2

(* A way that leads through nodes that are there.                           *)
LEMMA PathIs ==
  ASSUME NEW node, NEW i \in DOMAIN node.kids
  PROVE  /\ IsPath(node, <<i>>)
         /\ \A j \in DOMAIN node.kids[i].kids :
              /\ IsPath(node, <<i, j>>)
              /\ \A n \in DOMAIN node.kids[i].kids[j].kids : IsPath(node, <<i, j, n>>)
<1>1. 1..1 = {1} /\ 1..2 = {1, 2} /\ 1..3 = {1, 2, 3} /\ 1 - 1 = 0 /\ 2 - 1 = 1 /\ 3 - 1 = 2
  OBVIOUS
<1>2. IsPath(node, <<i>>)
  <2> DEFINE p == <<i>>
  <2>1. DOMAIN p = {1} /\ SubSeq(p, 1, 0) = <<>> /\ p[1] = i
    BY <1>1, Beginnings, Stacks
  <2> HIDE DEF p
  <2>2. NodeAt(node, SubSeq(p, 1, 0)) = node
    BY <2>1, NodesAt
  <2> QED
    BY <1>1, <2>1, <2>2 DEF IsPath, p
<1>3. ASSUME NEW j \in DOMAIN node.kids[i].kids
      PROVE  IsPath(node, <<i, j>>)
  <2> DEFINE p == <<i, j>>
  <2>1. /\ DOMAIN p = {1, 2} /\ SubSeq(p, 1, 0) = <<>> /\ SubSeq(p, 1, 1) = <<i>>
        /\ p[1] = i /\ p[2] = j
    BY <1>1, Beginnings, Stacks
  <2> HIDE DEF p
  <2>2. NodeAt(node, SubSeq(p, 1, 0)) = node /\ NodeAt(node, SubSeq(p, 1, 1)) = node.kids[i]
    BY <2>1, NodesAt
  <2> QED
    BY <1>1, <2>1, <2>2 DEF IsPath, p
<1>4. ASSUME NEW j \in DOMAIN node.kids[i].kids, NEW n \in DOMAIN node.kids[i].kids[j].kids
      PROVE  IsPath(node, <<i, j, n>>)
  <2> DEFINE p == <<i, j, n>>
  <2>1. /\ DOMAIN p = {1, 2, 3} /\ SubSeq(p, 1, 0) = <<>> /\ SubSeq(p, 1, 1) = <<i>>
        /\ SubSeq(p, 1, 2) = <<i, j>> /\ p[1] = i /\ p[2] = j /\ p[3] = n
    BY <1>1, Beginnings, Stacks
  <2> HIDE DEF p
  <2>2. /\ NodeAt(node, SubSeq(p, 1, 0)) = node /\ NodeAt(node, SubSeq(p, 1, 1)) = node.kids[i]
        /\ NodeAt(node, SubSeq(p, 1, 2)) = node.kids[i].kids[j]
    <3>1. /\ NodeAt(node, <<>>) = node /\ NodeAt(node, <<i>>) = node.kids[i]
          /\ NodeAt(node, <<i, j>>) = node.kids[i].kids[j]
      BY NodesAt
    <3> QED
      BY <2>1, <3>1
  <2>3. /\ p[1] \in DOMAIN NodeAt(node, SubSeq(p, 1, 0)).kids
        /\ p[2] \in DOMAIN NodeAt(node, SubSeq(p, 1, 1)).kids
        /\ p[3] \in DOMAIN NodeAt(node, SubSeq(p, 1, 2)).kids
    BY <2>1, <2>2
  <2>4. ASSUME NEW m \in {1, 2, 3}
        PROVE  p[m] \in DOMAIN NodeAt(node, SubSeq(p, 1, m - 1)).kids
    <3>1. m = 1 \/ m = 2 \/ m = 3
      OBVIOUS
    <3> QED
      BY <1>1, <2>3, <3>1
  <2> QED
    BY <2>1, <2>4 DEF IsPath, p
<1> QED
  BY <1>2, <1>3, <1>4

LEMMA FilePathIs ==
  ASSUME SavedOnce
  PROVE  \A i \in 1..Len(file.kids) :
           /\ IsPath(file, <<i>>)
           /\ \A j \in 1..Len(file.kids[i].kids) : file.kids[i].name \in Sections =>
                /\ IsPath(file, <<i, j>>)
                /\ \A n \in DOMAIN file.kids[i].kids[j].kids : IsPath(file, <<i, j, n>>)
<1>1. DOMAIN file.kids = 1..Len(file.kids)
  BY SeqFacts DEF SavedOnce, FileHolds
<1>2. \A i \in 1..Len(file.kids) :
        file.kids[i].name \in Sections => DOMAIN file.kids[i].kids = 1..Len(file.kids[i].kids)
  BY SeqFacts DEF SavedOnce, FileHolds, SectionHolds
<1>3. ASSUME NEW i \in DOMAIN file.kids
      PROVE  /\ IsPath(file, <<i>>)
             /\ \A j \in DOMAIN file.kids[i].kids :
                  /\ IsPath(file, <<i, j>>)
                  /\ \A n \in DOMAIN file.kids[i].kids[j].kids : IsPath(file, <<i, j, n>>)
  BY PathIs
<1> QED
  BY <1>1, <1>2, <1>3, Zenon

LEMMA WalksOnPaths ==
  ASSUME SavedOnce, Walks
  PROVE  /\ IsPath(file, current) /\ current # <<>>
         /\ Len(reading) \in 1..3 /\ reading[1].of = "thing"
         /\ Len(reading) > 1 => reading[2].of \in Sections
         /\ Len(reading) > 2 => reading[3].of = "value"
<1>1. PICK i \in 1..Len(file.kids) :
        \/ InThing(i)
        \/ \E j \in 1..Len(file.kids[i].kids) :
             \/ InSection(i, j)
             \/ \E n \in Nat : InValue(i, j, n)
             \/ \E h \in 1..Len(file.kids[i].kids) : BehindConnection(i, h, j)
  BY DEF Walks
<1> DEFINE s == file.kids[i].name
<1>2. /\ ThingCall.of = "thing" /\ SectionCall(s).of = s
      /\ \A w, attrs, down : ReadCall("value", w, attrs, down).of = "value"
  BY DEF ThingCall, SectionCall, ReadCall
<1>3. ASSUME NEW a, NEW b, NEW c
      PROVE  /\ a.of = "thing" /\ reading = <<a>> =>
                  Len(reading) \in 1..3 /\ reading[1].of = "thing" /\ ~(Len(reading) > 1)
                    /\ ~(Len(reading) > 2)
             /\ a.of = "thing" /\ b.of \in Sections /\ reading = <<a, b>> =>
                  Len(reading) \in 1..3 /\ reading[1].of = "thing" /\ reading[2].of \in Sections
                    /\ ~(Len(reading) > 2)
             /\ a.of = "thing" /\ b.of \in Sections /\ c.of = "value" /\ reading = <<a, b, c>> =>
                  Len(reading) \in 1..3 /\ reading[1].of = "thing" /\ reading[2].of \in Sections
                    /\ reading[3].of = "value"
  <2>1. ASSUME a.of = "thing", reading = <<a>>
        PROVE  /\ Len(reading) \in 1..3 /\ reading[1].of = "thing" /\ ~(Len(reading) > 1)
               /\ ~(Len(reading) > 2)
    <3>1. Len(reading) = 1 /\ reading[1] = a
      BY <2>1, Stacks
    <3> QED
      BY <2>1, <3>1
  <2>2. ASSUME a.of = "thing", b.of \in Sections, reading = <<a, b>>
        PROVE  /\ Len(reading) \in 1..3 /\ reading[1].of = "thing" /\ reading[2].of \in Sections
               /\ ~(Len(reading) > 2)
    <3>1. Len(reading) = 2 /\ reading[1] = a /\ reading[2] = b
      BY <2>2, Stacks
    <3> QED
      BY <2>2, <3>1
  <2>3. ASSUME a.of = "thing", b.of \in Sections, c.of = "value", reading = <<a, b, c>>
        PROVE  /\ Len(reading) \in 1..3 /\ reading[1].of = "thing" /\ reading[2].of \in Sections
               /\ reading[3].of = "value"
    <3>1. Len(reading) = 3 /\ reading[1] = a /\ reading[2] = b /\ reading[3] = c
      BY <2>3, Stacks
    <3> QED
      BY <2>3, <3>1
  <2> QED
    BY <2>1, <2>2, <2>3
<1> HIDE DEF s
<1>4. CASE InThing(i)
  <2>1. reading = <<ThingCall>> /\ current = <<i>>
    BY <1>4 DEF InThing
  <2>2. IsPath(file, current) /\ current # <<>>
    BY <2>1, FilePathIs, Stacks
  <2> QED
    BY <1>2, <1>3, <2>1, <2>2
<1>5. ASSUME NEW j \in 1..Len(file.kids[i].kids), InSection(i, j)
      PROVE  /\ IsPath(file, current) /\ current # <<>>
             /\ Len(reading) \in 1..3 /\ reading[1].of = "thing"
             /\ Len(reading) > 1 => reading[2].of \in Sections
             /\ Len(reading) > 2 => reading[3].of = "value"
  <2>1. reading = <<ThingCall, SectionCall(s)>> /\ current = <<i, j>> /\ s \in Sections
    BY <1>5 DEF InSection, s
  <2>2. IsPath(file, current) /\ current # <<>>
    BY <2>1, FilePathIs, Stacks DEF s
  <2>3. SectionCall(s).of \in Sections
    BY <1>2, <2>1
  <2> QED
    BY <1>2, <1>3, <2>1, <2>2, <2>3
<1>6. ASSUME NEW j \in 1..Len(file.kids[i].kids), NEW n \in Nat, InValue(i, j, n)
      PROVE  /\ IsPath(file, current) /\ current # <<>>
             /\ Len(reading) \in 1..3 /\ reading[1].of = "thing"
             /\ Len(reading) > 1 => reading[2].of \in Sections
             /\ Len(reading) > 2 => reading[3].of = "value"
  <2>1. PICK entry, w, v, down :
          /\ entry = file.kids[i].kids[j] /\ w = reading[3].value /\ down = TRUE
          /\ v = saved[file.kids[i].name][entry.attrs.key].value
    OBVIOUS
  <2>2. /\ reading = <<ThingCall, SectionCall(s), ReadCall("value", w, entry.attrs, down)>>
        /\ current = <<i, j, n>> /\ s \in Sections /\ n \in 1..Len(entry.kids) /\ IsEntry(i, j)
        /\ v.type \in ByEntry
    BY <1>6, <2>1, Zenon DEF InValue, IsEntry, s
  <2>3. entry.kids = Contents(v) /\ IsValue(v)
    BY <2>1, <2>2, EntryIs, Zenon
  <2>4. DOMAIN entry.kids = 1..Len(entry.kids)
    BY <2>2, <2>3, EntriesReadBack DEF ReadsBack
  <2>5. IsPath(file, current) /\ current # <<>>
    BY <2>1, <2>2, <2>4, FilePathIs, Stacks, Zenon DEF s
  <2>6. SectionCall(s).of \in Sections
    BY <1>2, <2>2
  <2> QED
    BY <1>2, <1>3, <2>2, <2>5, <2>6
<1>7. ASSUME NEW j \in 1..Len(file.kids[i].kids), NEW h \in 1..Len(file.kids[i].kids),
             BehindConnection(i, h, j)
      PROVE  /\ IsPath(file, current) /\ current # <<>>
             /\ Len(reading) \in 1..3 /\ reading[1].of = "thing"
             /\ Len(reading) > 1 => reading[2].of \in Sections
             /\ Len(reading) > 2 => reading[3].of = "value"
  <2>1. PICK entry, down : entry = file.kids[i].kids[h] /\ down = FALSE
    OBVIOUS
  <2>2. /\ reading = <<ThingCall, SectionCall(s), ReadCall("value", Val("tcp"), entry.attrs, down)>>
        /\ current = <<i, j>> /\ s \in Sections
    BY <1>7, <2>1 DEF BehindConnection, IsEntry, s
  <2>3. IsPath(file, current) /\ current # <<>>
    BY <2>2, FilePathIs, Stacks DEF s
  <2>4. SectionCall(s).of \in Sections
    BY <1>2, <2>2
  <2> QED
    BY <1>2, <1>3, <2>2, <2>3, <2>4
<1> QED
  BY <1>1, <1>4, <1>5, <1>6, <1>7

LEMMA InvIsFileTypeOK ==
  ASSUME FileInv
  PROVE  FileTypeOK
<1>1. saves \in 0..MaxSaves /\ saves \in Nat
  BY FileAssumption DEF FileInv
<1>2. \A t : IsThing(t) => t # Nothing
  BY DEF IsThing, Nothing
<1>3. CASE Fresh
  <2>1. thing # Nothing => IsThing(thing)
    BY <1>3 DEF Fresh
  <2> QED
    BY <1>1, <1>3, <2>1 DEF Fresh, FileTypeOK
<1>4. CASE SavedOnce
  <2>1. saves # 0 /\ saved # Nothing
    BY <1>1, <1>2, <1>4 DEF SavedOnce
  <2>2. thing # Nothing => IsThing(thing)
    BY <1>1, <1>4, PartIsThing DEF SavedOnce
  <2>3. CASE Walks
    <3>1. /\ IsPath(file, current) /\ current # <<>>
          /\ Len(reading) \in 1..3 /\ reading[1].of = "thing"
          /\ Len(reading) > 1 => reading[2].of \in Sections
          /\ Len(reading) > 2 => reading[3].of = "value"
      BY <1>4, <2>3, WalksOnPaths
    <3>2. step \in {"entry", "next", "return"} /\ reading # <<>>
      BY <2>3, NotAtRest
    <3> QED
      BY <1>1, <2>1, <2>2, <3>1, <3>2 DEF FileTypeOK
  <2>4. CASE step \in {"running", "stopped"} /\ reading = <<>>
    BY <1>1, <2>1, <2>2, <2>4 DEF FileTypeOK
  <2> QED
    BY <1>4, <2>3, <2>4 DEF SavedOnce
<1> QED
  BY <1>3, <1>4 DEF FileInv

(* A node below comes later, and so does the one beside.                    *)
LEMMA DownIsBefore ==
  /\ \A i : Before(<<i>>, <<i, 1>>)
  /\ \A i, j : Before(<<i, j>>, <<i, j, 1>>)
<1>1. ASSUME NEW i
      PROVE  Before(<<i>>, <<i, 1>>)
  <2> DEFINE p == <<i>>
             q == <<i, 1>>
  <2>1. Len(p) = 1 /\ Len(q) = 2 /\ SubSeq(p, 1, 1) = <<i>> /\ SubSeq(q, 1, 1) = <<i>>
    BY Stacks, Beginnings
  <2> HIDE DEF p, q
  <2>2. p # q /\ IsPrefix(p, q)
    <3>1. p # q /\ Len(p) <= Len(q)
      BY <2>1
    <3>2. SubSeq(p, 1, Len(p)) = SubSeq(q, 1, Len(p))
      BY <2>1, Zenon
    <3> QED
      BY <3>1, <3>2 DEF IsPrefix
  <2> QED
    BY <2>2 DEF Before, IsStrictPrefix, p, q
<1>2. ASSUME NEW i, NEW j
      PROVE  Before(<<i, j>>, <<i, j, 1>>)
  <2> DEFINE p == <<i, j>>
             q == <<i, j, 1>>
  <2>1. Len(p) = 2 /\ Len(q) = 3 /\ SubSeq(p, 1, 2) = <<i, j>> /\ SubSeq(q, 1, 2) = <<i, j>>
    BY Stacks, Beginnings
  <2> HIDE DEF p, q
  <2>2. p # q /\ IsPrefix(p, q)
    <3>1. p # q /\ Len(p) <= Len(q)
      BY <2>1
    <3>2. SubSeq(p, 1, Len(p)) = SubSeq(q, 1, Len(p))
      BY <2>1, Zenon
    <3> QED
      BY <3>1, <3>2 DEF IsPrefix
  <2> QED
    BY <2>2 DEF Before, IsStrictPrefix, p, q
<1> QED
  BY <1>1, <1>2

LEMMA BesideIsBefore ==
  ASSUME NEW p, NEW q, NEW n \in {1, 2, 3}, Len(p) = n, Len(q) = n,
         p[n] \in Int, q[n] = p[n] + 1, \A o \in 1..(n - 1) : p[o] = q[o]
  PROVE  Before(p, q)
<1>1. Min({n, n}) = n
  BY DEF Min
<1>2. n \in 1..n /\ p[n] < q[n]
  OBVIOUS
<1>3. Min({Len(p), Len(q)}) = n
  BY <1>1
<1> QED
  BY <1>2, <1>3 DEF Before

LEMMA SiblingIsBefore ==
  ASSUME SavedOnce, Walks
  PROVE  Before(current, Sibling)
<1>1. PICK i \in 1..Len(file.kids) :
        \/ InThing(i)
        \/ \E j \in 1..Len(file.kids[i].kids) :
             \/ InSection(i, j)
             \/ \E n \in Nat : InValue(i, j, n)
             \/ \E h \in 1..Len(file.kids[i].kids) : BehindConnection(i, h, j)
  BY DEF Walks
<1>2. 1..(1 - 1) = {} /\ 1..(2 - 1) = {1} /\ 1..(3 - 1) = {1, 2}
  OBVIOUS
<1>3. CASE InThing(i)
  <2>1. current = <<i>> /\ Sibling = <<i + 1>>
    BY <1>3, InThingIs DEF InThing
  <2> DEFINE p == <<i>>
             q == <<i + 1>>
  <2>4. i \in Int
    OBVIOUS
  <2>2. Len(p) = 1 /\ p[1] = i /\ Len(q) = 1 /\ q[1] = i + 1 /\ i \in Int
    BY <2>4, Stacks
  <2> HIDE DEF p, q
  <2>3. Before(p, q)
    <3>1. 1 \in {1, 2, 3} /\ \A o \in 1..(1 - 1) : p[o] = q[o]
      BY <1>2
    <3> QED
      BY <2>2, <3>1, BesideIsBefore
  <2> QED
    BY <2>1, <2>3 DEF p, q
<1>4. ASSUME NEW j \in 1..Len(file.kids[i].kids), current = <<i, j>>, Sibling = <<i, j + 1>>
      PROVE  Before(current, Sibling)
  <2> DEFINE p == <<i, j>>
             q == <<i, j + 1>>
  <2>4. j \in Int
    OBVIOUS
  <2>2. Len(p) = 2 /\ p[1] = i /\ p[2] = j /\ Len(q) = 2 /\ q[1] = i /\ q[2] = j + 1 /\ j \in Int
    BY <2>4, Stacks
  <2> HIDE DEF p, q
  <2>3. Before(p, q)
    <3>1. 2 \in {1, 2, 3} /\ \A o \in 1..(2 - 1) : p[o] = q[o]
      BY <1>2, <2>2
    <3> QED
      BY <2>2, <3>1, BesideIsBefore
  <2> QED
    BY <1>4, <2>3 DEF p, q
<1>5. ASSUME NEW j \in 1..Len(file.kids[i].kids), NEW n \in Nat, InValue(i, j, n)
      PROVE  Before(current, Sibling)
  <2>1. current = <<i, j, n>> /\ Sibling = <<i, j, n + 1>>
    BY <1>5, InValueIs
  <2> DEFINE p == <<i, j, n>>
             q == <<i, j, n + 1>>
  <2>2. /\ Len(p) = 3 /\ p[1] = i /\ p[2] = j /\ p[3] = n
        /\ Len(q) = 3 /\ q[1] = i /\ q[2] = j /\ q[3] = n + 1 /\ n \in Int
    BY Stacks
  <2> HIDE DEF p, q
  <2>3. Before(p, q)
    <3>1. 3 \in {1, 2, 3} /\ \A o \in 1..(3 - 1) : p[o] = q[o]
      BY <1>2, <2>2
    <3> QED
      BY <2>2, <3>1, BesideIsBefore
  <2> QED
    BY <2>1, <2>3 DEF p, q
<1> QED
  BY <1>1, <1>3, <1>4, <1>5, InSectionIs, BehindConnectionIs

LEMMA InvOnlyForward ==
  ASSUME FileInv, FileNext, step' = "entry", reading # <<>>
  PROVE  Before(current, current') \/ (current' = current /\ Len(reading') > Len(reading))
<1>1. SavedOnce /\ PartOf(thing) /\ Walks /\ saves \in 0..MaxSaves
  BY WhoReads
<1>2. CASE ReadSection
  <2>1. Reader.of = "thing" /\ current' = FirstChild
    BY <1>2 DEF ReadSection, Reads
  <2>2. PICK i \in 1..Len(file.kids) : InThing(i)
    BY <1>1, <2>1, WhoCalls
  <2>3. current = <<i>> /\ current' = <<i, 1>>
    BY <2>1, <2>2, InThingIs DEF InThing
  <2> QED
    BY <2>3, DownIsBefore
<1>3. CASE BeginValue
  <2>1. /\ Reader.of \in Sections /\ current' = At
        /\ \E c : reading' = Append(reading, c)
    BY <1>3 DEF BeginValue, Reads
  <2>2. PICK i \in 1..Len(file.kids) : \E j \in 1..Len(file.kids[i].kids) : InSection(i, j)
    BY <1>1, <2>1, WhoCalls
  <2>3. PICK j \in 1..Len(file.kids[i].kids) : InSection(i, j)
    BY <2>2
  <2>4. current = <<i, j>> /\ FirstChild = <<i, j, 1>>
    BY <2>3, InSectionIs
  <2>5. CASE Down
    <3>1. current' = <<i, j, 1>>
      BY <2>1, <2>4, <2>5 DEF At
    <3> QED
      BY <2>4, <3>1, DownIsBefore
  <2>6. CASE ~Down
    <3>1. current' = current
      BY <2>1, <2>6 DEF At
    <3>2. reading = <<ThingCall, SectionCall(file.kids[i].name)>>
      BY <2>3 DEF InSection
    <3>3. PICK c : reading' = Append(reading, c)
      BY <2>1
    <3>4. Len(reading) = 2 /\ Len(reading') = 3
      BY <3>2, <3>3, Stacks
    <3> QED
      BY <3>1, <3>4
  <2> QED
    BY <2>5, <2>6
<1>4. CASE NextEntry
  <2>1. current' = Sibling
    BY <1>4 DEF NextEntry
  <2> QED
    BY <1>1, <2>1, SiblingIsBefore
<1>5. CASE LoadObject
  <2>1. step = "stopped"
    BY <1>5 DEF LoadObject
  <2> QED
    BY <1>1, <2>1, NotAtRest
<1>6. /\ ~SaveObject /\ ~SaveOverruns /\ ~ReadField /\ ~ReadValueAtOnce /\ ~ReadNothing
      /\ ~ReadValue /\ ~ReadProgram /\ ~ReturnValue /\ ~ReturnSection /\ ~ReturnThing
  BY DEF SaveObject, SaveOverruns, ReadField, ReadValueAtOnce, ReadNothing, ReadValue, ReadProgram,
         Throws, Takes, ReturnValue, ReturnSection, ReturnThing
<1> QED
  BY <1>2, <1>3, <1>4, <1>5, <1>6 DEF FileNext, Reload

-----------------------------------------------------------------------------
(* The theorems: of the file of a thing                                     *)

LEMMA FileSpecInv == FileSpec => []FileInv
<1>1. FileInit => FileInv
  BY FileInitInv DEF FileInit
<1> QED
  BY <1>1, FileNextInv, PTL DEF FileSpec

(* What was saved comes back, every field but the wizard bit, which is lost,*)
(* and every value that a file can hold, whatever else the thing holds and  *)
(* in whatever order its hashes were written (MooThing::write_object,       *)
(* MooThing::read_entry, MooObjectHash::read_entry).                        *)
THEOREM ThingsComeBack == FileSpec => []ComesBack
<1> QED
  BY FileSpecInv, InvComesBack, PTL

(* What the first two files could not hold is lost then and there: from the *)
(* third on, without a connection, saving and loading changes nothing but   *)
(* programs that are not read as they were written (MooString::read_entry,  *)
(* MooNumber::read_entry, MooCodeParser::encode_string).                    *)
THEOREM ThingsSettle == FileSpec => []Settles
<1> QED
  BY FileSpecInv, InvSettles, PTL

(* However values end, the reader of a file never goes back to a node that  *)
(* it has been at, so that loading ends (MooDataFile, MooObject::read).     *)
THEOREM LoadingGoesOn == FileSpec => OnlyForward
<1>1. FileInv /\ [FileNext]_fileVars =>
        [step' = "entry" /\ reading # <<>> =>
           Before(current, current') \/ (current' = current /\ Len(reading') > Len(reading))]_fileVars
  <2> SUFFICES ASSUME FileInv, FileNext, step' = "entry", reading # <<>>
               PROVE  Before(current, current')
                        \/ (current' = current /\ Len(reading') > Len(reading))
    OBVIOUS
  <2> QED
    BY InvOnlyForward
<1> QED
  BY <1>1, FileSpecInv, PTL DEF FileSpec, OnlyForward

-----------------------------------------------------------------------------
(* The theorems: of the database                                            *)

(* No object at all is a database, too.                                     *)
LEMMA NoStoreIsInit == NoStore => Init
<1>1. [i \in Id |-> NoFile] \in Databases
  <2> DEFINE f == [i \in {} |-> None]
  <2>1. {} \in {T \in SUBSET Id : Cardinality(T) <= StartFiles}
    BY FS_EmptySet, StoreAssumption
  <2>2. f \in [{} -> {} \cup {None}] /\ DOMAIN f = {}
    OBVIOUS
  <2> HIDE DEF f
  <2>3. [i \in Id |-> IF i \in DOMAIN f THEN [name |-> i, ref |-> f[i]] ELSE NoFile]
          = [i \in Id |-> NoFile]
    BY <2>2
  <2> QED
    BY <2>1, <2>2, <2>3 DEF Databases
<1> QED
  BY <1>1 DEF NoStore, Init

(* The invariants of the two parts: a behaviour of the one leaves the other *)
(* as it is.                                                                *)
BothInv == IInv /\ FilesInv /\ Bounded /\ FileInv

LEMMA BothSpecInv == BothSpec => []BothInv
<1>1. BothInit => BothInv
  <2>1. BothInit => Init
    BY NoStoreIsInit DEF BothInit
  <2>2. BothInit => FileInv
    BY FileInitInv DEF BothInit, FileInit
  <2> QED
    BY <2>1, <2>2, InitIInv, InitFilesInv, InitBounded DEF BothInv
<1>2. BothInv /\ [BothNext]_<<which, vars, fileVars>> => BothInv'
  <2> SUFFICES ASSUME BothInv, [BothNext]_<<which, vars, fileVars>> PROVE BothInv'
    OBVIOUS
  <2>1. [Next]_vars /\ [FileNext]_fileVars
    BY DEF BothNext, Finished
  <2> QED
    BY <2>1, NextIInv, NextFilesInv, NextBounded, FileNextInv DEF BothInv
<1> QED
  BY <1>1, <1>2, PTL DEF BothSpec

(* Whatever is loaded, created, saved and lost: the table, the objects and  *)
(* the files refer to each other only as their types allow, and while a     *)
(* file is read the cursor is on a node of it (mutable.cpp, data.cpp).      *)
THEOREM DatabaseIsTyped == BothSpec => []TypesOK
<1>1. BothInv => TypesOK
  BY InvIsTypeOK, InvIsFileTypeOK DEF BothInv, TypesOK
<1> QED
  BY <1>1, BothSpecInv, PTL

=============================================================================
