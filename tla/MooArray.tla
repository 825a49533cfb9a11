------------------------------ MODULE MooArray ------------------------------
(***************************************************************************)
(* MooArray<T> (array.h): the growing array behind the identifier table,   *)
(* the driver list, the event stack and the arrays of the language.        *)
(* Indices count from 0; a free place holds NULL.  An operator here is the *)
(* array a member function leaves behind; what it returns is an operator   *)
(* of its own.  clear() is never called.                                   *)
(***************************************************************************)
EXTENDS Integers

CONSTANTS
  NULL,      (* what a free place holds                                    *)
  MaxSize,   (* m_max, with 0 for the -1 that means none                   *)
  Replace    (* the bit MOO_ABF_REPLACE                                    *)

(* Every array of the program starts with 5 places or more; MOO_ABF_RESIZE  *)
(* is always set.                                                           *)
ASSUME ArrayAssumption ==
  /\ MaxSize \in Nat /\ (MaxSize = 0 \/ MaxSize > 3)
  /\ Replace \in BOOLEAN

NewArray(size) ==
  [data |-> [i \in 0..(size - 1) |-> NULL], size |-> size, last |-> -1, nextSpace |-> 0]

-----------------------------------------------------------------------------

Capped(n) == IF MaxSize > 0 /\ n > MaxSize THEN MaxSize ELSE n

CanResize(a, n) == Capped(n) # a.size

Resize(a, n) ==
  IF CanResize(a, n)
  THEN [data |-> [i \in 0..(Capped(n) - 1) |-> IF i < a.size THEN a.data[i] ELSE NULL],
        size |-> Capped(n),
        last |-> a.last,
        nextSpace |-> a.size]
  ELSE a

(* The first free place from here on, or the size: where the loops that     *)
(* move m_next_space forward stop.                                          *)
NextFree(d, size, from) ==
  CHOOSE j \in from..size :
    /\ j = size \/ d[j] = NULL
    /\ \A k \in from..(j - 1) : d[k] # NULL

(* Where the loop that moves m_last back stops.                             *)
LastTaken(d, from) ==
  CHOOSE j \in -1..from :
    /\ j = -1 \/ d[j] # NULL
    /\ \A k \in (j + 1)..from : d[k] = NULL

-----------------------------------------------------------------------------

(* get() as it was meant; Beyond is where the code reads past the end.      *)
Get(a, i) == IF i \in 0..(a.size - 1) THEN a.data[i] ELSE NULL
Beyond(a, i) == i = a.size

(* set(): (int) (index * 1.25).                                             *)
Room(a, i) == IF i >= a.size THEN Resize(a, (5 * i) \div 4) ELSE a

CanSet(a, i, v) ==
  /\ i >= 0
  /\ i < a.size \/ MaxSize = 0 \/ i < MaxSize
  /\ Get(a, i) # NULL /\ v # NULL => Replace

PutNull(a, i) ==
  LET d == [a.data EXCEPT ![i] = NULL]
  IN [data |-> d, size |-> a.size,
      last |-> IF i = a.last THEN LastTaken(d, i) ELSE a.last,
      nextSpace |-> IF i < a.nextSpace THEN i ELSE a.nextSpace]

(* Mutant: m_last is not moved.                                             *)
PutValueUnseen(a, i, v) ==
  LET d == [a.data EXCEPT ![i] = v]
  IN [data |-> d, size |-> a.size, last |-> a.last,
      nextSpace |-> NextFree(d, a.size, a.nextSpace)]

PutValue(a, i, v) ==
  LET d == [a.data EXCEPT ![i] = v]
  IN [data |-> d, size |-> a.size,
      last |-> IF i > a.last THEN i ELSE a.last,
      nextSpace |-> NextFree(d, a.size, a.nextSpace)]

Set(a, i, v) ==
  IF ~CanSet(a, i, v) THEN a
  ELSE IF v = NULL THEN PutNull(Room(a, i), i)
  ELSE PutValue(Room(a, i), i, v)

(* remove(): the first place that holds the value is set to NULL.           *)
Unset(a, v) ==
  LET at == {i \in 0..(a.size - 1) : a.data[i] = v}
  IN IF at = {} THEN a
     ELSE PutNull(a, CHOOSE i \in at : \A j \in at : i <= j)

-----------------------------------------------------------------------------

Double(a) == Resize(a, 2 * a.size)

Full(a) == a.last + 1 >= a.size

CanInsert(a, i) ==
  /\ i \in 0..(a.last + 1)
  /\ Full(a) => CanResize(a, 2 * a.size)

(* Mutant: the last element is not moved up.                                *)
InsertOverLast(a, i, v) ==
  IF ~CanInsert(a, i) THEN a
  ELSE LET r == IF Full(a) THEN Double(a) ELSE a
           d == [j \in DOMAIN r.data |->
                   IF j = i THEN v
                   ELSE IF j > i /\ j <= a.last THEN r.data[j - 1]
                   ELSE r.data[j]]
       IN [data |-> d, size |-> r.size,
           last |-> a.last + 1,
           nextSpace |-> NextFree(d, r.size, r.nextSpace)]

Insert(a, i, v) ==
  IF ~CanInsert(a, i) THEN a
  ELSE LET r == IF Full(a) THEN Double(a) ELSE a
           d == [j \in DOMAIN r.data |->
                   IF j = i THEN v
                   ELSE IF j > i /\ j <= a.last + 1 THEN r.data[j - 1]
                   ELSE r.data[j]]
       IN [data |-> d, size |-> r.size,
           last |-> a.last + 1,
           nextSpace |-> NextFree(d, r.size, r.nextSpace)]

Push(a, v) == Insert(a, a.last + 1, v)

CanSplice(a, i) == i \in 0..a.last

Splice(a, i) ==
  IF ~CanSplice(a, i) THEN a
  ELSE [data |-> [j \in DOMAIN a.data |->
                    IF j = a.last THEN NULL
                    ELSE IF j >= i /\ j < a.last THEN a.data[j + 1]
                    ELSE a.data[j]],
        size |-> a.size,
        last |-> a.last - 1,
        nextSpace |-> IF a.last < a.nextSpace THEN a.last ELSE a.nextSpace]

-----------------------------------------------------------------------------

(* What never ceases to hold, whichever operations are used.                *)
Shaped(a) ==
  /\ a.size >= 4 /\ DOMAIN a.data = 0..(a.size - 1)
  /\ a.last \in -1..(a.size - 1)
  /\ a.nextSpace \in 0..a.size
  /\ \A i \in 0..(a.size - 1) : i > a.last => a.data[i] = NULL

=============================================================================
