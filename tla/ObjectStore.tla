---------------------------- MODULE ObjectStore -----------------------------
(***************************************************************************)
(* The persistent objects (mutable.cpp and the things that are its only    *)
(* users): the table of identifiers, objects loaded from their files when  *)
(* first looked up, identifiers for new objects, save_all, and crashes.    *)
(*                                                                         *)
(* An object is a thing with one property, which may refer to a thing.     *)
(* Reading a file that refers to an object looks that object up, and so    *)
(* may read further files; stack holds the calls in progress.  There is    *)
(* one thread: only a crash can come between two steps of a call.          *)
(*                                                                         *)
(* A look-up at an identifier equal to the size of the table reads past    *)
(* its end.  What it finds there is taken for no object, or is some value  *)
(* that assign_id() takes for an object; whoever else uses such a value    *)
(* crashes.                                                                *)
(***************************************************************************)
EXTENDS MooArray, Sequences, FiniteSets

CONSTANTS
  StartSize, (* ID_INIT_SIZE                                               *)
  StartFiles,(* the database holds at most this many objects at first      *)
  Births,    (* at most this many objects are created                      *)
  Writes,    (* at most this many properties are set                       *)
  NoFile,    (* the object has no file                                     *)
  Torn       (* the file is there and cannot be read                       *)

MaxId == MaxSize   (* ID_MAX_SIZE *)
Id == 0..(MaxId - 1)
None == -1

(* Every object has a name, which no two share: those of the first files    *)
(* are their numbers, those born later follow.                              *)
Name == 0..(MaxId + Births - 1)

ASSUME StoreAssumption ==
  /\ StartSize \in Nat /\ StartSize > 3 /\ StartSize <= MaxSize
  /\ ~Replace
  /\ StartFiles \in Nat /\ Births \in Nat /\ Writes \in Nat
  /\ NULL \notin Int /\ NoFile # Torn

VARIABLES
  heap,      (* the objects in memory; a pointer is an index of heap       *)
  table,     (* moo_id_table                                               *)
  disk,      (* the file of each identifier: NoFile, Torn, or what it says *)
  stack,     (* the calls to assign_id() and load_object() in progress     *)
  saving,    (* how far save_all() has got; None outside it                *)
  births,    (* objects created                                            *)
  writes,    (* properties set                                             *)
  dirty      (* objects that are not as their file says                    *)

vars == <<heap, table, disk, stack, saving, births, writes, dirty>>
memory == <<heap, table, dirty>>

File == [name : Name, ref : Id \cup {None}]
Good(f) == f \notin {NoFile, Torn}

Object == [id : Id \cup {None}, name : Name, ref : Nat \cup {NULL}]

(* A file being read is about to give its id or its property.               *)
Loading == [call : {"id", "property"}, obj : Nat, id : Id]
Assigning == [call : {"assign"}, obj : Nat, id : Nat]

TypeOK ==
  /\ heap \in Seq(Object)
  /\ Shaped(table) /\ table.size <= MaxId
  /\ \A i \in DOMAIN table.data : table.data[i] \in DOMAIN heap \cup {NULL}
  /\ \A o \in DOMAIN heap : heap[o].ref \in DOMAIN heap \cup {NULL}
  /\ \A i \in Id : Good(disk[i]) => disk[i] \in File
  /\ stack \in Seq(Loading \cup Assigning)
  /\ saving \in Id \cup {None, MaxId}
  /\ births \in 0..Births /\ writes \in 0..Writes
  /\ dirty \subseteq DOMAIN heap

(* A database as save_all() leaves it.                                      *)
Databases ==
  LET Of(S) == [S -> S \cup {None}]
  IN {[i \in Id |-> IF i \in DOMAIN f THEN [name |-> i, ref |-> f[i]] ELSE NoFile] :
        f \in UNION {Of(S) : S \in {T \in SUBSET Id : Cardinality(T) <= StartFiles}}}

Init ==
  /\ heap = <<>>
  /\ table = NewArray(StartSize)
  /\ disk \in Databases
  /\ stack = <<>>
  /\ saving = None
  /\ births = 0 /\ writes = 0
  /\ dirty = {}

Idle == stack = <<>> /\ saving = None

Top == stack[Len(stack)]
Below == SubSeq(stack, 1, Len(stack) - 1)

-----------------------------------------------------------------------------
(* MooMutable::lookup                                                       *)

(* get() finds no object, or runs past the end of the table.                *)
NotInTable(i) == Get(table, i) = NULL

(* It gets as far as load_object() and the file is there to be read.        *)
Loads(i) == i \in Id /\ NotInTable(i) /\ Good(disk[i])

(* Mutant: whoever is not in memory does not exist.                         *)
FreeInTable(i) == NotInTable(i)

(* It returns NULL: there is no file, or reading it fails.                  *)
FindsNothing(i) == NotInTable(i) /\ (i \in Id => ~Good(disk[i]))

(* Mutant: the property comes before the id.                                *)
PushLoadIdLast(i) ==
  /\ heap' = Append(heap, [id |-> None, name |-> disk[i].name, ref |-> NULL])
  /\ stack' = Append(stack, [call |-> "property", obj |-> Len(heap) + 1, id |-> i])
  /\ UNCHANGED <<table, dirty>>

(* load_object(): a new object, of no identifier yet, begins to read.       *)
PushLoad(i) ==
  /\ heap' = Append(heap, [id |-> None, name |-> disk[i].name, ref |-> NULL])
  /\ stack' = Append(stack, [call |-> "id", obj |-> Len(heap) + 1, id |-> i])
  /\ UNCHANGED <<table, dirty>>

(* A program looks an object up (#i, or a parent).                          *)
Lookup(i) ==
  /\ Idle /\ Loads(i)
  /\ PushLoad(i)
  /\ UNCHANGED <<disk, saving, births, writes>>

-----------------------------------------------------------------------------
(* MooMutable::assign_id                                                    *)

(* Mutant: the object knows its identifier, the table does not.             *)
RegisterOneWay(o, i) ==
  /\ heap' = [heap EXCEPT ![o].id = i]
  /\ UNCHANGED table

(* The object takes the identifier if its place in the table is free.       *)
Register(o, i) ==
  /\ table' = Set(table, i, o)
  /\ heap' = IF CanSet(table, i, o) THEN [heap EXCEPT ![o].id = i] ELSE heap

(* The id entry of a file: MooMutable::read_entry.                          *)
ReadId ==
  /\ stack # <<>> /\ Top.call = "id"
  /\ Register(Top.obj, Top.id)
  /\ stack' = Append(Below, [Top EXCEPT !.call = "property"])
  /\ UNCHANGED <<disk, saving, births, writes, dirty>>

(* The property: load_moo_thing looks its value up.  One that cannot be     *)
(* found is nil.                                                            *)
ReadProperty ==
  /\ stack # <<>> /\ Top.call = "property"
  /\ LET ref == disk[Top.id].ref
     IN \/ /\ Loads(ref)
           /\ PushLoad(ref)
        \/ /\ ~Loads(ref)
           /\ stack' = Below
           /\ heap' = [heap EXCEPT ![Top.obj].ref =
                         Get(table, ref)]
           /\ dirty' = IF ref # None /\ FindsNothing(ref) THEN dirty \cup {Top.obj} ELSE dirty
           /\ UNCHANGED table
  /\ UNCHANGED <<disk, saving, births, writes>>

(* thing_clone: a new thing asks for an identifier.                         *)
Clone ==
  /\ Idle /\ births < Births
  /\ births' = births + 1
  /\ heap' = Append(heap, [id |-> None, name |-> MaxId + births, ref |-> NULL])
  /\ dirty' = dirty \cup {Len(heap) + 1}
  /\ stack' = <<[call |-> "assign", obj |-> Len(heap) + 1, id |-> table.nextSpace]>>
  /\ UNCHANGED <<table, disk, saving, writes>>

(* The loop goes past an identifier that has an object in memory or, past   *)
(* the end of the table, seems to have one.                                 *)
Taken(i) == ~NotInTable(i) \/ Beyond(table, i)

AssignNext ==
  /\ stack # <<>> /\ Top.call = "assign" /\ Top.id < MaxId
  /\ Taken(Top.id)
  /\ stack' = Append(Below, [Top EXCEPT !.id = @ + 1])
  /\ UNCHANGED <<memory, disk, saving, births, writes>>

(* ... loads the object that has it in the database ...                     *)
AssignLoads ==
  /\ stack # <<>> /\ Top.call = "assign" /\ Top.id < MaxId
  /\ Loads(Top.id)
  /\ PushLoad(Top.id)
  /\ UNCHANGED <<disk, saving, births, writes>>

(* ... takes one that nobody has ...                                        *)
AssignTakes ==
  /\ stack # <<>> /\ Top.call = "assign" /\ Top.id < MaxId
  /\ FindsNothing(Top.id)
  /\ Register(Top.obj, Top.id)
  /\ stack' = Below
  /\ UNCHANGED <<disk, saving, births, writes, dirty>>

(* ... and throws when there is none.                                       *)
AssignThrows ==
  /\ stack # <<>> /\ Top.call = "assign" /\ Top.id >= MaxId
  /\ stack' = Below
  /\ UNCHANGED <<memory, disk, saving, births, writes>>

-----------------------------------------------------------------------------
(* Programs change objects, and save_all() writes them.                     *)

Known == {o \in DOMAIN heap : heap[o].id # None}

SetProperty(o, p) ==
  /\ Idle /\ writes < Writes
  /\ heap[o].ref # p
  /\ heap' = [heap EXCEPT ![o].ref = p]
  /\ dirty' = dirty \cup {o}
  /\ writes' = writes + 1
  /\ UNCHANGED <<table, disk, stack, saving, births>>

SaveAll ==
  /\ Idle
  /\ saving' = 0
  /\ UNCHANGED <<memory, disk, stack, births, writes>>

SaveNothing ==
  /\ saving \in 0..table.last /\ table.data[saving] = NULL
  /\ saving' = saving + 1
  /\ UNCHANGED <<memory, disk, stack, births, writes>>

(* ~MooDataFile opens the file, which empties it ...                        *)
SaveOpens ==
  /\ saving \in 0..table.last /\ table.data[saving] # NULL
  /\ disk[saving] # Torn
  /\ disk' = [disk EXCEPT ![saving] = Torn]
  /\ UNCHANGED <<memory, stack, saving, births, writes>>

(* Mutant: a reference to the object itself is left out.                    *)
WrittenNotSelf(o) ==
  [name |-> heap[o].name,
   ref |-> IF heap[o].ref \in {NULL, o} THEN None ELSE heap[heap[o].ref].id]

Written(o) ==
  [name |-> heap[o].name,
   ref |-> IF heap[o].ref = NULL THEN None ELSE heap[heap[o].ref].id]

(* ... and writes what save_object() had gathered.                          *)
SaveWrites ==
  /\ saving \in 0..table.last /\ table.data[saving] # NULL
  /\ disk[saving] = Torn
  /\ disk' = [disk EXCEPT ![saving] = Written(table.data[saving])]
  /\ dirty' = dirty \ {table.data[saving]}
  /\ saving' = saving + 1
  /\ UNCHANGED <<heap, table, stack, births, writes>>

SaveEnds ==
  /\ saving > table.last /\ saving # None
  /\ saving' = None
  /\ UNCHANGED <<memory, disk, stack, births, writes>>

(* The process ends, at any moment, and is started again.                   *)
Crash ==
  /\ heap' = <<>>
  /\ table' = NewArray(StartSize)
  /\ stack' = <<>>
  /\ saving' = None
  /\ dirty' = {}
  /\ UNCHANGED <<disk, births, writes>>

Next ==
  \/ \E i \in Id : Lookup(i)
  \/ ReadId \/ ReadProperty
  \/ Clone \/ AssignNext \/ AssignLoads \/ AssignTakes \/ AssignThrows
  \/ \E o \in Known, p \in Known \cup {NULL} : SetProperty(o, p)
  \/ SaveAll \/ SaveNothing \/ SaveOpens \/ SaveWrites \/ SaveEnds
  \/ Crash

Spec == Init /\ [][Next]_vars

-----------------------------------------------------------------------------
(* Properties                                                               *)

(* The table and the objects agree on who has which identifier              *)
(* (MooMutable::assign_id keeps both).                                      *)
Registered ==
  /\ \A o \in Known : Get(table, heap[o].id) = o
  /\ \A i \in DOMAIN table.data : table.data[i] # NULL => heap[table.data[i]].id = i

(* No object is in memory twice, even when objects refer to each other in a *)
(* circle or to one whose file is still being read (the id is the first     *)
(* entry of a file: MooMutable::write_object).                              *)
NeverTwice ==
  \A o, p \in DOMAIN heap : heap[o].name = heap[p].name => o = p

(* An identifier that is another object's in the database is never given to *)
(* a new one: what is in memory under an identifier is what its file holds, *)
(* unless a crash has torn the file.                                        *)
NoHijack ==
  \A o \in Known : Good(disk[heap[o].id]) => disk[heap[o].id].name = heap[o].name

(* An object that has not changed since it was read or written is as its    *)
(* file says, down to the object it refers to.                              *)
RoundTrip ==
  Idle => \A o \in Known \ dirty :
            LET file == disk[heap[o].id]
            IN /\ file.name = heap[o].name
               /\ IF heap[o].ref = NULL THEN file.ref = None
                  ELSE file.ref = heap[heap[o].ref].id

=============================================================================
