--------------------------- MODULE MooArrayLemmas ----------------------------
(***************************************************************************)
(* Lemmas about the member functions of array.h: each leaves a sound array *)
(* behind, and what get() then finds is what set() has put there.          *)
(***************************************************************************)
EXTENDS MooArray, WellFoundedInduction, TLAPS

-----------------------------------------------------------------------------
(* The loops of array.h                                                     *)

(* A set of numbers has a least one.                                        *)
LEMMA LeastExists ==
  ASSUME NEW S, S \subseteq Nat, S # {}
  PROVE  \E n \in S : \A k \in S : n <= k
<1> DEFINE R == OpToRel(<, Nat)
<1>1. IsWellFoundedOn(R, Nat)
  BY NatLessThanWellFounded
<1>2. \A x, y \in Nat : x < y => <<x, y>> \in R
  BY DEF OpToRel
<1> HIDE DEF R
<1>3. PICK n \in S : \A k \in S : ~ (<<k, n>> \in R)
  BY <1>1, WFMin
<1>4. ASSUME NEW k \in S PROVE n <= k
  <2>1. k \in Nat /\ n \in Nat
    OBVIOUS
  <2>2. ~ (k < n)
    BY <1>2, <1>3, <2>1
  <2> QED
    BY <2>1, <2>2
<1> QED
  BY <1>4

(* The loop that moves m_next_space forward stops at a place or the end.    *)
LEMMA NextFreeExists ==
  ASSUME NEW size \in Nat, NEW d, NEW from \in 0..size
  PROVE  /\ NextFree(d, size, from) \in from..size
         /\ \/ NextFree(d, size, from) = size
            \/ d[NextFree(d, size, from)] = NULL
<1> DEFINE S == {j \in from..size : j = size \/ d[j] = NULL}
<1>1. S \subseteq Nat /\ size \in S
  OBVIOUS
<1>2. PICK j \in S : \A k \in S : j <= k
  BY <1>1, LeastExists
<1>3. j \in from..size /\ (j = size \/ d[j] = NULL)
  BY <1>2
<1>4. \A k \in from..(j - 1) : d[k] # NULL
  <2> SUFFICES ASSUME NEW k \in from..(j - 1), d[k] = NULL
               PROVE  FALSE
    OBVIOUS
  <2>1. k \in S
    BY <1>3
  <2> QED
    BY <1>2, <1>3, <2>1
<1> QED
  BY <1>3, <1>4 DEF NextFree

(* The loop that moves m_last back stops at a taken place or before the     *)
(* first, with nothing but free places behind it.                           *)
LEMMA LastTakenExists ==
  ASSUME NEW d, NEW from \in Int, from >= -1
  PROVE  /\ LastTaken(d, from) \in -1..from
         /\ LastTaken(d, from) = -1 \/ d[LastTaken(d, from)] # NULL
         /\ \A k \in (LastTaken(d, from) + 1)..from : d[k] = NULL
<1> DEFINE S == {n \in 0..(from + 1) : n = from + 1 \/ d[from - n] # NULL}
<1>1. S \subseteq Nat /\ from + 1 \in S
  OBVIOUS
<1>2. PICK n \in S : \A k \in S : n <= k
  BY <1>1, LeastExists
<1> DEFINE j == from - n
<1>3. n \in 0..(from + 1) /\ j \in -1..from /\ (j = -1 \/ d[j] # NULL)
  BY <1>2
<1>4. \A k \in (j + 1)..from : d[k] = NULL
  <2> SUFFICES ASSUME NEW k \in (j + 1)..from, d[k] # NULL
               PROVE  FALSE
    OBVIOUS
  <2>1. from - k \in S
    <3>1. from - k \in 0..(from + 1) /\ from - (from - k) = k
      BY <1>3
    <3> QED
      BY <3>1
  <2> QED
    BY <1>2, <1>3, <2>1
<1> QED
  BY <1>3, <1>4 DEF LastTaken

-----------------------------------------------------------------------------
(* The operations                                                           *)

(* An array as the operations keep it.                                      *)
Sound(b) ==
  /\ b = [data |-> b.data, size |-> b.size, last |-> b.last, nextSpace |-> b.nextSpace]
  /\ b.size \in Nat /\ (MaxSize = 0 \/ b.size <= MaxSize)
  /\ Shaped(b)

(* Growing adds free places and moves nothing.                              *)
LEMMA ResizeSound ==
  ASSUME NEW b, Sound(b), NEW n \in Nat, n >= b.size
  PROVE  /\ Sound(Resize(b, n))
         /\ Resize(b, n).last = b.last
         /\ Resize(b, n).size = IF MaxSize > 0 /\ n > MaxSize THEN MaxSize ELSE n
         /\ \A i \in 0..(b.size - 1) : Resize(b, n).data[i] = b.data[i]
<1> DEFINE c == Capped(n)
           d == [i \in 0..(c - 1) |-> IF i < b.size THEN b.data[i] ELSE NULL]
           r == [data |-> d, size |-> c, last |-> b.last, nextSpace |-> b.size]
<1>1. c \in Nat /\ c >= b.size /\ c = (IF MaxSize > 0 /\ n > MaxSize THEN MaxSize ELSE n)
  BY ArrayAssumption DEF Capped, Sound, Shaped
<1>2. MaxSize = 0 \/ c <= MaxSize
  BY <1>1, ArrayAssumption
<1>3. CASE c = b.size
  <2>1. Resize(b, n) = b
    BY <1>3 DEF Resize, CanResize
  <2> QED
    BY <1>1, <1>3, <2>1
<1>4. CASE c # b.size
  <2>1. Resize(b, n) = r
    BY <1>4 DEF Resize, CanResize, Sound
  <2>2. /\ b.size \in Nat /\ b.size >= 4 /\ b.last \in -1..(b.size - 1)
        /\ \A i \in 0..(b.size - 1) : i > b.last => b.data[i] = NULL
    BY DEF Sound, Shaped
  <2> HIDE DEF c
  <2>3. /\ DOMAIN d = 0..(c - 1)
        /\ \A i \in 0..(c - 1) : i > b.last => d[i] = NULL
        /\ \A i \in 0..(b.size - 1) : d[i] = b.data[i]
    <3>1. DOMAIN d = 0..(c - 1)
      OBVIOUS
    <3>2. \A i \in 0..(c - 1) : d[i] = IF i < b.size THEN b.data[i] ELSE NULL
      OBVIOUS
    <3> HIDE DEF d
    <3>3. ASSUME NEW i \in 0..(c - 1), i > b.last
          PROVE  d[i] = NULL
      <4>1. CASE i < b.size
        <5>1. i \in 0..(b.size - 1)
          BY <2>2, <4>1
        <5> QED
          BY <2>2, <3>2, <3>3, <4>1, <5>1
      <4>2. CASE ~(i < b.size)
        BY <3>2, <4>2
      <4> QED
        BY <4>1, <4>2
    <3>4. ASSUME NEW i \in 0..(b.size - 1)
          PROVE  d[i] = b.data[i]
      <4>1. i \in 0..(c - 1) /\ i < b.size
        BY <1>1, <2>2
      <4> QED
        BY <3>2, <4>1
    <3> QED
      BY <3>1, <3>3, <3>4
  <2> HIDE DEF d
  <2>4. Sound(r)
    BY <1>1, <1>2, <2>2, <2>3 DEF Sound, Shaped
  <2> QED
    BY <1>1, <2>1, <2>3, <2>4
<1> QED
  BY <1>3, <1>4

(* Taking the element at i out.                                             *)
LEMMA PutNullSound ==
  ASSUME NEW b, Sound(b), NEW i \in 0..(b.size - 1)
  PROVE  Sound(PutNull(b, i)) /\ PutNull(b, i).size = b.size
<1> DEFINE d == [b.data EXCEPT ![i] = NULL]
           l == IF i = b.last THEN LastTaken(d, i) ELSE b.last
           n == IF i < b.nextSpace THEN i ELSE b.nextSpace
           r == [data |-> d, size |-> b.size, last |-> l, nextSpace |-> n]
<1>1. /\ b.size \in Nat /\ b.size >= 4 /\ b.last \in -1..(b.size - 1)
      /\ DOMAIN b.data = 0..(b.size - 1) /\ b.nextSpace \in 0..b.size
      /\ \A j \in 0..(b.size - 1) : j > b.last => b.data[j] = NULL
  BY DEF Sound, Shaped
<1>2. PutNull(b, i) = r
  BY DEF PutNull, Sound
<1>3. /\ DOMAIN d = 0..(b.size - 1) /\ d[i] = NULL
      /\ \A j \in 0..(b.size - 1) : j # i => d[j] = b.data[j]
  BY <1>1
<1> HIDE DEF d
<1>4. l \in -1..(b.size - 1) /\ \A j \in 0..(b.size - 1) : j > l => d[j] = NULL
  <2>1. CASE i = b.last
    <3>1. /\ LastTaken(d, i) \in -1..i
          /\ \A k \in (LastTaken(d, i) + 1)..i : d[k] = NULL
      BY LastTakenExists
    <3>2. ASSUME NEW j \in 0..(b.size - 1), j > l
          PROVE  d[j] = NULL
      <4>1. CASE j <= i
        BY <2>1, <3>1, <3>2, <4>1
      <4>2. CASE j > i
        BY <1>1, <1>3, <2>1, <4>2
      <4> QED
        BY <1>1, <4>1, <4>2
    <3> QED
      BY <1>1, <2>1, <3>1, <3>2
  <2>2. CASE i # b.last
    BY <1>1, <1>3, <2>2
  <2> QED
    BY <2>1, <2>2
<1>5. n \in 0..b.size
  BY <1>1
<1> HIDE DEF l, n
<1>6. Sound(r)
  BY <1>1, <1>3, <1>4, <1>5 DEF Sound, Shaped
<1> QED
  BY <1>2, <1>6

(* Storing an element at i.                                                 *)
LEMMA PutValueSound ==
  ASSUME NEW b, Sound(b), NEW i \in 0..(b.size - 1), NEW v
  PROVE  Sound(PutValue(b, i, v)) /\ PutValue(b, i, v).size = b.size
<1> DEFINE d == [b.data EXCEPT ![i] = v]
           l == IF i > b.last THEN i ELSE b.last
           n == NextFree(d, b.size, b.nextSpace)
           r == [data |-> d, size |-> b.size, last |-> l, nextSpace |-> n]
<1>1. /\ b.size \in Nat /\ b.size >= 4 /\ b.last \in -1..(b.size - 1)
      /\ DOMAIN b.data = 0..(b.size - 1) /\ b.nextSpace \in 0..b.size
      /\ \A j \in 0..(b.size - 1) : j > b.last => b.data[j] = NULL
  BY DEF Sound, Shaped
<1>2. PutValue(b, i, v) = r
  BY DEF PutValue, Sound
<1>3. /\ DOMAIN d = 0..(b.size - 1)
      /\ \A j \in 0..(b.size - 1) : j # i => d[j] = b.data[j]
  BY <1>1
<1> HIDE DEF d
<1>4. l \in -1..(b.size - 1) /\ \A j \in 0..(b.size - 1) : j > l => d[j] = NULL
  <2>1. l \in -1..(b.size - 1) /\ l >= i /\ l >= b.last
    BY <1>1
  <2>2. ASSUME NEW j \in 0..(b.size - 1), j > l
        PROVE  d[j] = NULL
    <3>1. j # i /\ j > b.last
      BY <1>1, <2>1, <2>2
    <3> QED
      BY <1>1, <1>3, <3>1
  <2> QED
    BY <2>1, <2>2
<1>5. n \in 0..b.size
  BY <1>1, NextFreeExists
<1> HIDE DEF l, n
<1>6. Sound(r)
  BY <1>1, <1>3, <1>4, <1>5 DEF Sound, Shaped
<1> QED
  BY <1>2, <1>6

(* set() makes enough room for its index: 1.25 times an index of 4 or more  *)
(* is more than the index.  The new room is free.                           *)
LEMMA RoomSound ==
  ASSUME NEW b, Sound(b), NEW i \in Nat, i < b.size \/ MaxSize = 0 \/ i < MaxSize
  PROVE  /\ Sound(Room(b, i)) /\ Room(b, i).size \in Nat
         /\ Room(b, i).size >= b.size /\ i < Room(b, i).size
         /\ \A j \in Int : Get(Room(b, i), j) = Get(b, j)
<1> DEFINE r == Room(b, i)
<1>1. /\ b.size \in Nat /\ b.size >= 4 /\ b.last \in -1..(b.size - 1)
  BY DEF Sound, Shaped
<1>2. CASE i < b.size
  BY <1>1, <1>2 DEF Room
<1>3. CASE i >= b.size
  <2>1. (5 * i) \div 4 \in Nat /\ (5 * i) \div 4 > i
    BY <1>1, <1>3
  <2> DEFINE n == (5 * i) \div 4
  <2> HIDE DEF n
  <2>2. n \in Nat /\ n > i
    BY <2>1 DEF n
  <2>3. r = Resize(b, n)
    BY <1>3 DEF Room, n
  <2>4. /\ Sound(r) /\ r.last = b.last
        /\ r.size = IF MaxSize > 0 /\ n > MaxSize THEN MaxSize ELSE n
        /\ \A j \in 0..(b.size - 1) : r.data[j] = b.data[j]
    BY <1>1, <1>3, <2>2, <2>3, ResizeSound
  <2>5. r.size \in Nat /\ r.size > i
    <3>1. CASE MaxSize > 0 /\ n > MaxSize
      BY <1>1, <1>3, <2>4, <3>1, ArrayAssumption
    <3>2. CASE ~(MaxSize > 0 /\ n > MaxSize)
      BY <2>2, <2>4, <3>2
    <3> QED
      BY <3>1, <3>2
  <2> HIDE DEF r
  <2>6. \A j \in 0..(r.size - 1) : j > b.last => r.data[j] = NULL
    BY <2>4 DEF Sound, Shaped
  <2>7. ASSUME NEW j \in Int PROVE Get(r, j) = Get(b, j)
    BY <1>1, <1>3, <2>4, <2>5, <2>6 DEF Get
  <2> QED
    BY <1>3, <1>1, <2>4, <2>5, <2>7 DEF r
<1> QED
  BY <1>1, <1>2, <1>3

(* set() keeps an array sound.                                              *)
LEMMA SetSound ==
  ASSUME NEW b, Sound(b), NEW i \in Int, NEW v
  PROVE  Sound(Set(b, i, v)) /\ Set(b, i, v).size >= b.size
<1>1. b.size \in Nat /\ b.size >= 4
  BY DEF Sound, Shaped
<1>2. CASE ~CanSet(b, i, v)
  BY <1>1, <1>2 DEF Set
<1>3. CASE CanSet(b, i, v)
  <2> DEFINE r == Room(b, i)
  <2>1. i >= 0 /\ (i < b.size \/ MaxSize = 0 \/ i < MaxSize)
    BY <1>3 DEF CanSet
  <2>2. Sound(r) /\ r.size \in Nat /\ r.size >= b.size /\ i < r.size
    BY <2>1, RoomSound
  <2>3. Set(b, i, v) = IF v = NULL THEN PutNull(r, i) ELSE PutValue(r, i, v)
    BY <1>3 DEF Set
  <2> HIDE DEF r
  <2>4. i \in 0..(r.size - 1)
    BY <2>1, <2>2
  <2> QED
    BY <2>2, <2>3, <2>4, PutNullSound, PutValueSound
<1> QED
  BY <1>2, <1>3

(* What get() finds after an element was stored: that, and elsewhere what   *)
(* was there before.                                                        *)
LEMMA SetThenGet ==
  ASSUME NEW b, Sound(b), NEW i \in Int, NEW v, v # NULL, CanSet(b, i, v)
  PROVE  \A j \in Int : Get(Set(b, i, v), j) = IF j = i THEN v ELSE Get(b, j)
<1> DEFINE r == Room(b, i)
<1>1. i \in Nat /\ (i < b.size \/ MaxSize = 0 \/ i < MaxSize)
  BY DEF CanSet
<1>2. /\ Sound(r) /\ r.size \in Nat /\ i < r.size
      /\ \A j \in Int : Get(r, j) = Get(b, j)
  BY <1>1, RoomSound
<1>3. Set(b, i, v) = PutValue(r, i, v)
  BY DEF Set
<1> HIDE DEF r
<1> DEFINE s == PutValue(r, i, v)
<1>4. DOMAIN r.data = 0..(r.size - 1)
  BY <1>2 DEF Sound, Shaped
<1>5. s.size = r.size /\ s.data = [r.data EXCEPT ![i] = v]
  BY DEF PutValue
<1>6. \A j \in 0..(r.size - 1) : s.data[j] = IF j = i THEN v ELSE r.data[j]
  BY <1>4, <1>5
<1> HIDE DEF s
<1>7. ASSUME NEW j \in Int PROVE Get(s, j) = IF j = i THEN v ELSE Get(r, j)
  BY <1>1, <1>2, <1>5, <1>6 DEF Get
<1> QED
  BY <1>2, <1>3, <1>7 DEF s

(* m_last after it: the further of the two.                                 *)
LEMMA SetThenLast ==
  ASSUME NEW b, Sound(b), NEW i \in Int, NEW v, v # NULL, CanSet(b, i, v)
  PROVE  Set(b, i, v).last = IF i > b.last THEN i ELSE b.last
<1>1. i \in Nat /\ (i < b.size \/ MaxSize = 0 \/ i < MaxSize)
  BY DEF CanSet
<1>2. Set(b, i, v) = PutValue(Room(b, i), i, v)
  BY DEF Set
<1>3. Room(b, i).last = b.last
  BY DEF Room, Resize
<1> QED
  BY <1>2, <1>3 DEF PutValue

(* What get() finds after the element at i was taken out, and where the     *)
(* array then ends.                                                         *)
LEMMA PutNullThenGet ==
  ASSUME NEW b, Sound(b), NEW i \in 0..(b.size - 1), i <= b.last
  PROVE  /\ \A j \in Int : Get(PutNull(b, i), j) = IF j = i THEN NULL ELSE Get(b, j)
         /\ i # b.last => PutNull(b, i).last = b.last
         /\ i = b.last =>
              /\ PutNull(b, i).last \in -1..(i - 1)
              /\ PutNull(b, i).last = -1 \/ Get(b, PutNull(b, i).last) # NULL
              /\ \A j \in (PutNull(b, i).last + 1)..(i - 1) : Get(b, j) = NULL
<1> DEFINE d == [b.data EXCEPT ![i] = NULL]
           r == PutNull(b, i)
<1>1. /\ b.size \in Nat /\ b.last \in -1..(b.size - 1)
      /\ DOMAIN b.data = 0..(b.size - 1)
  BY DEF Sound, Shaped
<1>2. /\ d[i] = NULL
      /\ \A j \in 0..(b.size - 1) : j # i => d[j] = b.data[j]
  BY <1>1
<1>3. /\ r.data = d /\ r.size = b.size
      /\ r.last = IF i = b.last THEN LastTaken(d, i) ELSE b.last
  BY DEF PutNull
<1> HIDE DEF d, r
<1>4. \A j \in Int : Get(r, j) = IF j = i THEN NULL ELSE Get(b, j)
  BY <1>1, <1>2, <1>3 DEF Get
<1>5. ASSUME i = b.last
      PROVE  /\ r.last \in -1..(i - 1)
             /\ r.last = -1 \/ Get(b, r.last) # NULL
             /\ \A j \in (r.last + 1)..(i - 1) : Get(b, j) = NULL
  <2>1. /\ r.last \in -1..i
        /\ r.last = -1 \/ d[r.last] # NULL
        /\ \A k \in (r.last + 1)..i : d[k] = NULL
    BY <1>1, <1>3, <1>5, LastTakenExists
  <2>2. r.last # i
    BY <1>1, <1>2, <2>1
  <2>3. \A j \in 0..(i - 1) : d[j] = Get(b, j)
    BY <1>1, <1>2 DEF Get
  <2> QED
    BY <1>1, <2>1, <2>2, <2>3
<1> QED
  BY <1>3, <1>4, <1>5 DEF r

LEMMA RemoveSound ==
  ASSUME NEW b, Sound(b), NEW v
  PROVE  Sound(Unset(b, v)) /\ Unset(b, v).size = b.size
<1> DEFINE at == {i \in 0..(b.size - 1) : b.data[i] = v}
           i == CHOOSE k \in at : \A j \in at : k <= j
<1>1. CASE at = {}
  BY <1>1 DEF Unset
<1>2. CASE at # {}
  <2>1. b.size \in Nat
    BY DEF Sound
  <2>2. at \subseteq Nat
    BY <2>1
  <2>3. \E k \in at : \A j \in at : k <= j
    BY <1>2, <2>2, LeastExists
  <2>4. i \in at
    BY <2>3
  <2>5. Unset(b, v) = PutNull(b, i)
    BY <1>2 DEF Unset
  <2> HIDE DEF i
  <2>6. i \in 0..(b.size - 1)
    BY <2>4
  <2> QED
    BY <2>5, <2>6, PutNullSound
<1> QED
  BY <1>1, <1>2

(* insert() and push(): what was in the last place moves into a free one.   *)
LEMMA InsertSound ==
  ASSUME NEW b, Sound(b), NEW i \in Int, NEW v
  PROVE  Sound(Insert(b, i, v)) /\ Insert(b, i, v).size >= b.size
<1>1. /\ b.size \in Nat /\ b.size >= 4 /\ b.last \in -1..(b.size - 1)
      /\ DOMAIN b.data = 0..(b.size - 1) /\ b.nextSpace \in 0..b.size
      /\ \A j \in 0..(b.size - 1) : j > b.last => b.data[j] = NULL
  BY DEF Sound, Shaped
<1>2. CASE ~CanInsert(b, i)
  BY <1>1, <1>2 DEF Insert
<1>3. CASE CanInsert(b, i)
  <2> DEFINE r == IF Full(b) THEN Double(b) ELSE b
             d == [j \in DOMAIN r.data |->
                     IF j = i THEN v
                     ELSE IF j > i /\ j <= b.last + 1 THEN r.data[j - 1]
                     ELSE r.data[j]]
             n == NextFree(d, r.size, r.nextSpace)
             m == [data |-> d, size |-> r.size, last |-> b.last + 1, nextSpace |-> n]
  <2>1. Insert(b, i, v) = m
    BY <1>3 DEF Insert
  <2>2. Sound(r) /\ r.last = b.last /\ r.size >= b.size /\ r.size > b.last + 1
    <3>1. CASE ~Full(b)
      BY <1>1, <3>1 DEF Full
    <3>2. CASE Full(b)
      <4> DEFINE k == 2 * b.size
      <4>1. k \in Nat /\ k > b.size /\ b.last + 1 = b.size
        BY <1>1, <3>2 DEF Full
      <4>2. Capped(k) # b.size
        BY <1>3, <3>2 DEF CanInsert, CanResize
      <4>3. MaxSize = 0 \/ b.size <= MaxSize
        BY DEF Sound
      <4> HIDE DEF k
      <4>4. r = Resize(b, k)
        BY <3>2 DEF Double, k
      <4>5. /\ Sound(r) /\ r.last = b.last
            /\ r.size = IF MaxSize > 0 /\ k > MaxSize THEN MaxSize ELSE k
        BY <1>1, <4>1, <4>4, ResizeSound
      <4>6. r.size > b.size /\ r.size \in Nat
        BY <1>1, <4>1, <4>2, <4>3, <4>5, ArrayAssumption DEF Capped, Sound
      <4> QED
        BY <1>1, <4>1, <4>5, <4>6
    <3> QED
      BY <3>1, <3>2
  <2> HIDE DEF r
  <2>3. /\ r.size \in Nat /\ r.size >= 4 /\ DOMAIN r.data = 0..(r.size - 1)
        /\ r.nextSpace \in 0..r.size
        /\ MaxSize = 0 \/ r.size <= MaxSize
        /\ \A j \in 0..(r.size - 1) : j > b.last => r.data[j] = NULL
    BY <2>2 DEF Sound, Shaped
  <2>4. i \in 0..(b.last + 1)
    BY <1>3 DEF CanInsert
  <2>5. DOMAIN d = 0..(r.size - 1)
    BY <2>3
  <2>6. ASSUME NEW j \in 0..(r.size - 1), j > b.last + 1
        PROVE  d[j] = NULL
    <3>1. j # i /\ ~(j <= b.last + 1) /\ j > b.last
      BY <1>1, <2>4, <2>6
    <3>2. d[j] = r.data[j]
      BY <2>3, <3>1
    <3> QED
      BY <2>3, <3>1, <3>2
  <2> HIDE DEF d
  <2>7. n \in 0..r.size
    BY <2>3, NextFreeExists
  <2> HIDE DEF n
  <2>8. b.last + 1 \in -1..(r.size - 1)
    BY <1>1, <2>2, <2>3
  <2>9. Sound(m)
    BY <2>3, <2>5, <2>6, <2>7, <2>8 DEF Sound, Shaped
  <2> QED
    BY <2>1, <2>2, <2>9
<1> QED
  BY <1>2, <1>3

(* What get() finds after v was put in before the element at i.             *)
LEMMA InsertThenGet ==
  ASSUME NEW b, Sound(b), NEW i \in Int, NEW v, CanInsert(b, i)
  PROVE  /\ Insert(b, i, v).last = b.last + 1
         /\ \A j \in 0..(b.last + 1) :
              Get(Insert(b, i, v), j) = IF j < i THEN Get(b, j)
                                        ELSE IF j = i THEN v
                                        ELSE Get(b, j - 1)
<1>1. /\ b.size \in Nat /\ b.size >= 4 /\ b.last \in -1..(b.size - 1)
      /\ i \in 0..(b.last + 1)
  BY DEF Sound, Shaped, CanInsert
<1> DEFINE r == IF Full(b) THEN Double(b) ELSE b
           m == Insert(b, i, v)
<1>2. /\ m.size = r.size /\ m.last = b.last + 1
      /\ m.data = [j \in DOMAIN r.data |->
                     IF j = i THEN v
                     ELSE IF j > i /\ j <= b.last + 1 THEN r.data[j - 1]
                     ELSE r.data[j]]
  BY DEF Insert
<1>3. Sound(m) /\ Sound(r) /\ \A j \in 0..b.last : r.data[j] = b.data[j]
  <2>1. Sound(m)
    BY InsertSound
  <2>2. CASE Full(b)
    <3>1. 2 * b.size \in Nat /\ 2 * b.size >= b.size
      BY <1>1
    <3>2. r = Resize(b, 2 * b.size)
      BY <2>2 DEF Double
    <3>3. Sound(r) /\ \A j \in 0..(b.size - 1) : r.data[j] = b.data[j]
      BY <3>1, <3>2, ResizeSound
    <3> QED
      BY <1>1, <2>1, <3>3
  <2>3. CASE ~Full(b)
    BY <2>1, <2>3
  <2> QED
    BY <2>2, <2>3
<1> HIDE DEF r, m
<1>4. /\ DOMAIN r.data = 0..(r.size - 1) /\ r.size \in Nat
      /\ b.last + 1 <= r.size - 1
  BY <1>1, <1>2, <1>3 DEF Sound, Shaped
<1>5. ASSUME NEW j \in 0..(b.last + 1)
      PROVE  Get(m, j) = IF j < i THEN Get(b, j) ELSE IF j = i THEN v ELSE Get(b, j - 1)
  <2>1. j \in DOMAIN r.data /\ Get(m, j) = m.data[j]
    BY <1>1, <1>2, <1>4 DEF Get
  <2>2. m.data[j] = IF j = i THEN v
                    ELSE IF j > i /\ j <= b.last + 1 THEN r.data[j - 1]
                    ELSE r.data[j]
    BY <1>2, <2>1
  <2>3. CASE j < i
    BY <1>1, <1>3, <2>1, <2>2, <2>3 DEF Get
  <2>4. CASE j = i
    BY <2>1, <2>2, <2>4
  <2>5. CASE j > i
    <3>1. j - 1 \in 0..b.last
      BY <1>1, <2>5
    <3> QED
      BY <1>1, <1>3, <2>1, <2>2, <2>5, <3>1 DEF Get
  <2> QED
    BY <1>1, <2>3, <2>4, <2>5
<1> QED
  BY <1>2, <1>5 DEF m

(* What get() finds after the element at i was cut out.                     *)
LEMMA SpliceThenGet ==
  ASSUME NEW b, Sound(b), NEW i \in Int, CanSplice(b, i)
  PROVE  /\ Splice(b, i).last = b.last - 1
         /\ \A j \in 0..(b.last - 1) :
              Get(Splice(b, i), j) = IF j < i THEN Get(b, j) ELSE Get(b, j + 1)
<1>1. /\ b.size \in Nat /\ b.last \in -1..(b.size - 1)
      /\ DOMAIN b.data = 0..(b.size - 1) /\ i \in 0..b.last
  BY DEF Sound, Shaped, CanSplice
<1> DEFINE m == Splice(b, i)
<1>2. /\ m.size = b.size /\ m.last = b.last - 1
      /\ m.data = [j \in DOMAIN b.data |->
                     IF j = b.last THEN NULL
                     ELSE IF j >= i /\ j < b.last THEN b.data[j + 1]
                     ELSE b.data[j]]
  BY DEF Splice
<1> HIDE DEF m
<1>3. ASSUME NEW j \in 0..(b.last - 1)
      PROVE  Get(m, j) = IF j < i THEN Get(b, j) ELSE Get(b, j + 1)
  <2>1. j \in DOMAIN b.data /\ j + 1 \in 0..(b.size - 1)
    BY <1>1
  <2>2. m.data[j] = IF j = b.last THEN NULL
                    ELSE IF j >= i /\ j < b.last THEN b.data[j + 1]
                    ELSE b.data[j]
    BY <1>2, <2>1
  <2> QED
    BY <1>1, <1>2, <2>1, <2>2 DEF Get
<1> QED
  BY <1>2, <1>3 DEF m

(* splice(), pop() and shift(): the place that was last becomes free.       *)
LEMMA SpliceSound ==
  ASSUME NEW b, Sound(b), NEW i \in Int
  PROVE  Sound(Splice(b, i)) /\ Splice(b, i).size = b.size
<1>1. /\ b.size \in Nat /\ b.size >= 4 /\ b.last \in -1..(b.size - 1)
      /\ DOMAIN b.data = 0..(b.size - 1) /\ b.nextSpace \in 0..b.size
      /\ \A j \in 0..(b.size - 1) : j > b.last => b.data[j] = NULL
  BY DEF Sound, Shaped
<1>2. CASE ~CanSplice(b, i)
  BY <1>2 DEF Splice
<1>3. CASE CanSplice(b, i)
  <2> DEFINE d == [j \in DOMAIN b.data |->
                     IF j = b.last THEN NULL
                     ELSE IF j >= i /\ j < b.last THEN b.data[j + 1]
                     ELSE b.data[j]]
             n == IF b.last < b.nextSpace THEN b.last ELSE b.nextSpace
             m == [data |-> d, size |-> b.size, last |-> b.last - 1, nextSpace |-> n]
  <2>1. Splice(b, i) = m
    BY <1>3 DEF Splice
  <2>2. b.last >= 0
    BY <1>1, <1>3 DEF CanSplice
  <2>3. DOMAIN d = 0..(b.size - 1)
    BY <1>1
  <2>4. ASSUME NEW j \in 0..(b.size - 1), j > b.last - 1
        PROVE  d[j] = NULL
    <3>1. CASE j = b.last
      BY <1>1, <3>1
    <3>2. CASE j # b.last
      <4>1. j > b.last /\ ~(j < b.last)
        BY <1>1, <2>4, <3>2
      <4>2. d[j] = b.data[j]
        BY <1>1, <3>2, <4>1
      <4> QED
        BY <1>1, <4>1, <4>2
    <3> QED
      BY <3>1, <3>2
  <2> HIDE DEF d
  <2>5. n \in 0..b.size
    BY <1>1, <2>2
  <2> HIDE DEF n
  <2>6. b.last - 1 \in -1..(b.size - 1)
    BY <1>1, <2>2
  <2>7. MaxSize = 0 \/ b.size <= MaxSize
    BY DEF Sound
  <2>8. Sound(m)
    BY <1>1, <2>3, <2>4, <2>5, <2>6, <2>7 DEF Sound, Shaped
  <2> QED
    BY <2>1, <2>8
<1> QED
  BY <1>2, <1>3

=============================================================================
