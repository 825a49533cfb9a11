---------------------------- MODULE ObjectArray -----------------------------
(***************************************************************************)
(* An array of the language (array.cpp): every method a program can call   *)
(* on it, from any number of frames, some of them inside a foreach over    *)
(* the same array.  A foreach runs one event per element; between two of   *)
(* them the function it calls may change the array, or sleep and let other *)
(* frames do so.                                                           *)
(***************************************************************************)
EXTENDS MooArray

CONSTANTS
  Value,     (* the objects programs put in arrays; nil is one of them     *)
  Walk,      (* the foreach loops                                          *)
  Stray,     (* whatever lies behind the array in memory                   *)
  StartSize, (* MOO_ARRAY_DEFAULT_SIZE                                     *)
  MaxIndex   (* programs use indices up to this one                        *)

ASSUME ObjectArrayAssumption ==
  /\ NULL \notin Value /\ Stray \notin Value \cup {NULL}
  /\ StartSize \in Nat /\ StartSize > 3 /\ (MaxSize = 0 \/ StartSize <= MaxSize)
  /\ MaxIndex \in Nat

VARIABLES
  a,         (* the array                                                  *)
  ret,       (* the element the last method returned                       *)
  next,      (* the index of each loop's next event; -1 when it has none   *)
  met,       (* the places each loop has called its function for           *)
  steady     (* the places whose element has not moved since it began      *)

vars == <<a, ret, next, met, steady>>

TypeOK ==
  /\ Shaped(a)
  /\ \A i \in DOMAIN a.data : a.data[i] \in Value \cup {NULL}
  /\ ret \in Value \cup {NULL, Stray}
  /\ next \in [Walk -> -1..(MaxIndex + 1)]
  /\ met \in [Walk -> SUBSET (0..MaxIndex)]
  /\ steady \in [Walk -> SUBSET (0..MaxIndex)]

Init ==
  /\ a = NewArray(StartSize)
  /\ ret = NULL
  /\ next = [w \in Walk |-> -1]
  /\ met = [w \in Walk |-> {}]
  /\ steady = [w \in Walk |-> {}]

Index == -1..MaxIndex

(* A method leaves the array b behind and returns r.  What a loop has met   *)
(* is of interest until the first call after it.                            *)
Becomes(b, r) ==
  /\ a' = b
  /\ ret' = r
  /\ steady' = [w \in Walk |->
                  {i \in steady[w] : next[w] # -1 /\ b.data[i] = a.data[i]}]
  /\ met' = [w \in Walk |-> {i \in met[w] : next[w] # -1}]
  /\ UNCHANGED next

-----------------------------------------------------------------------------

ArrayGet(i) ==
  \E r \in IF Beyond(a, i) THEN {NULL, Stray} ELSE {Get(a, i)} : Becomes(a, r)

ArraySet(i, v) == Becomes(Set(a, i, v), IF CanSet(a, i, v) THEN v ELSE NULL)

ArrayRemove(v) == Becomes(Unset(a, v), NULL)

ArrayInsert(i, v) ==
  /\ a.last < MaxIndex
  /\ Becomes(Insert(a, i, v), NULL)

ArrayPush(v) ==
  /\ a.last < MaxIndex
  /\ Becomes(Push(a, v), NULL)

ArrayUnshift(v) == ArrayInsert(0, v)

ArraySplice(i) == Becomes(Splice(a, i), IF CanSplice(a, i) THEN a.data[i] ELSE NULL)

ArrayPop == ArraySplice(a.last)

ArrayShift == ArraySplice(0)

-----------------------------------------------------------------------------

ArrayForeach(w) ==
  /\ next[w] = -1
  /\ next' = [next EXCEPT ![w] = 0]
  /\ met' = [met EXCEPT ![w] = {}]
  /\ steady' = [steady EXCEPT ![w] = {i \in DOMAIN a.data : a.data[i] # NULL}]
  /\ UNCHANGED <<a, ret>>

(* Mutant: the event after this one is pushed for the last element only.    *)
FollowedShort(w) ==
  IF next[w] < a.last - 1 THEN next[w] + 1 ELSE -1

(* Whether another event follows this one is settled before the call.       *)
Followed(w) ==
  IF next[w] < a.last THEN next[w] + 1 ELSE -1

(* ArrayEventForeach::do_event                                              *)
ForeachEvent(w) ==
  /\ next[w] # -1
  /\ \/ /\ next[w] > a.last
        /\ next' = [next EXCEPT ![w] = -1]
        /\ UNCHANGED met
     \/ /\ next[w] <= a.last
        /\ next' = [next EXCEPT ![w] = Followed(w)]
        /\ met' = [met EXCEPT ![w] = @ \cup {next[w]}]
  /\ UNCHANGED <<a, ret, steady>>

Next ==
  \/ \E i \in Index : ArrayGet(i) \/ ArraySplice(i)
  \/ \E v \in Value : ArrayRemove(v) \/ ArrayPush(v) \/ ArrayUnshift(v)
  \/ \E i \in Index, v \in Value : ArraySet(i, v) \/ ArrayInsert(i, v)
  \/ ArrayPop \/ ArrayShift
  \/ \E w \in Walk : ArrayForeach(w) \/ ForeachEvent(w)

Spec == Init /\ [][Next]_vars

-----------------------------------------------------------------------------
(* Properties                                                               *)

(* A foreach calls its function for every element that stays where it is    *)
(* from the beginning of the loop to its end, whatever the calls do to the  *)
(* rest of the array (ArrayEventForeach tests m_last anew at every event).  *)
StayersMet == \A w \in Walk : next[w] = -1 => steady[w] \subseteq met[w]

(* Room is invisible: growing, shifting and trimming (array.h) leave every  *)
(* element where a list without bounds would have it, and every method      *)
(* returns what it would there.                                             *)
L == INSTANCE MooList WITH
       list <- [i \in 1..(a.last + 1) |-> a.data[i - 1]],
       Empty <- NULL, Unknown <- Stray

ImplementsList == L!Spec

=============================================================================
