-------------------------- MODULE CollectionProofs --------------------------
(***************************************************************************)
(* Proofs about arrays and hashes.  The first part is about ObjectArray:   *)
(* no method ever writes past the end of the array or loses sight of an    *)
(* element, a foreach meets every element that stays in its place, and the *)
(* whole is a list.  The second is about ObjectHash: every entry is in the *)
(* chain of its name, once, the whole is a map, and a foreach meets every  *)
(* name that stays exactly once.                                           *)
(***************************************************************************)
EXTENDS Collections, MooArrayLemmas, SequencesExt, SequenceTheorems,
        FiniteSetTheorems

-----------------------------------------------------------------------------
(* Arrays                                                                   *)

-----------------------------------------------------------------------------
(* The inductive invariant                                                  *)

(* An element that has not moved since a loop began is still there.         *)
SteadyTaken ==
  \A w \in Walk : \A i \in steady[w] : i \in 0..(a.size - 1) /\ a.data[i] # NULL

(* StayersMet while a loop goes on: what it has yet to meet lies ahead.     *)
StayersAhead ==
  \A w \in Walk :
    \A i \in steady[w] : i \in met[w] \/ (next[w] # -1 /\ i >= next[w])

NextFromZero == \A w \in Walk : next[w] >= -1

IInv ==
  /\ Sound(a)
  /\ next \in [Walk -> Int] /\ NextFromZero
  /\ met = [w \in Walk |-> met[w]]
  /\ steady = [w \in Walk |-> steady[w]]
  /\ SteadyTaken
  /\ StayersAhead

LEMMA InitIInv == Init => IInv
<1> SUFFICES ASSUME Init PROVE IInv
  OBVIOUS
<1>1. Sound(a)
  BY ObjectArrayAssumption DEF Init, NewArray, Sound, Shaped
<1> QED
  BY <1>1 DEF Init, IInv, SteadyTaken, StayersAhead, NextFromZero

(* A method moves some elements; the loops keep track of those it does not. *)
LEMMA BecomesIInv ==
  ASSUME IInv, NEW b, Sound(b), b.size >= a.size, NEW r, Becomes(b, r)
  PROVE  IInv'
<1>1. a' = b /\ next' = next
  BY DEF Becomes
<1>2. a.size \in Nat /\ b.size \in Nat
  BY DEF IInv, Sound
<1>3. \A w \in Walk :
        /\ steady'[w] = {i \in steady[w] : next[w] # -1 /\ b.data[i] = a.data[i]}
        /\ met'[w] = {i \in met[w] : next[w] # -1}
  BY DEF Becomes
<1>4. SteadyTaken'
  <2> SUFFICES ASSUME NEW w \in Walk, NEW i \in steady'[w]
               PROVE  i \in 0..(b.size - 1) /\ b.data[i] # NULL
    BY <1>1 DEF SteadyTaken
  <2>1. i \in steady[w] /\ b.data[i] = a.data[i]
    BY <1>3
  <2>2. i \in 0..(a.size - 1) /\ a.data[i] # NULL
    BY <2>1 DEF IInv, SteadyTaken
  <2> QED
    BY <1>2, <2>1, <2>2
<1>5. StayersAhead'
  <2> SUFFICES ASSUME NEW w \in Walk, NEW i \in steady'[w]
               PROVE  i \in met'[w] \/ (next[w] # -1 /\ i >= next[w])
    BY <1>1 DEF StayersAhead
  <2>1. i \in steady[w] /\ next[w] # -1
    BY <1>3
  <2>2. i \in met[w] \/ i >= next[w]
    BY <2>1 DEF IInv, StayersAhead
  <2> QED
    BY <1>3, <2>1, <2>2
<1>6. next' \in [Walk -> Int]
  BY <1>1 DEF IInv
<1>7. met' = [w \in Walk |-> met'[w]] /\ steady' = [w \in Walk |-> steady'[w]]
  BY DEF Becomes
<1> QED
  BY <1>1, <1>4, <1>5, <1>6, <1>7 DEF IInv, NextFromZero

LEMMA ForeachEventIInv ==
  ASSUME IInv, NEW w \in Walk, ForeachEvent(w)
  PROVE  IInv'
<1>1. a' = a /\ steady' = steady
  BY DEF ForeachEvent
<1>2. next[w] \in Int /\ next \in [Walk -> Int] /\ met = [v \in Walk |-> met[v]]
  BY DEF IInv
<1>3. a.last \in Int
  BY DEF IInv, Sound, Shaped
<1>4. next' \in [Walk -> Int] /\ met' = [v \in Walk |-> met'[v]]
  <2>1. Followed(w) \in Int
    BY <1>2 DEF Followed
  <2> QED
    BY <1>2, <2>1 DEF ForeachEvent
<1>5. \A v \in Walk : v # w => next'[v] = next[v] /\ met'[v] = met[v]
  BY <1>2 DEF ForeachEvent
<1>6. \A i \in steady[w] : i \in Int /\ i <= a.last
  <2> SUFFICES ASSUME NEW i \in steady[w]
               PROVE  i \in Int /\ i <= a.last
    OBVIOUS
  <2>1. i \in 0..(a.size - 1) /\ a.data[i] # NULL
    BY DEF IInv, SteadyTaken
  <2> QED
    BY <2>1 DEF IInv, Sound, Shaped
<1>7. ASSUME NEW i \in steady[w]
      PROVE  i \in met'[w] \/ (next'[w] # -1 /\ i >= next'[w])
  <2>1. i \in met[w] \/ (next[w] # -1 /\ i >= next[w])
    BY <1>7 DEF IInv, StayersAhead
  <2>2. CASE next[w] > a.last
    <3>1. met' = met
      BY <1>2, <1>3, <2>2 DEF ForeachEvent
    <3> QED
      BY <1>2, <1>3, <1>6, <1>7, <2>1, <2>2, <3>1
  <2>3. CASE next[w] <= a.last
    <3>1. /\ met'[w] = met[w] \cup {next[w]}
          /\ next'[w] = IF next[w] < a.last THEN next[w] + 1 ELSE -1
      BY <1>2, <1>3, <2>3 DEF ForeachEvent, Followed
    <3>2. next[w] # -1
      BY DEF ForeachEvent
    <3>3. i \in Int /\ i <= a.last
      BY <1>6, <1>7
    <3>4. CASE i \in met[w]
      BY <3>1, <3>4
    <3>5. CASE i = next[w]
      BY <3>1, <3>5
    <3>6. CASE i > next[w]
      <4>1. next[w] < a.last /\ i >= next[w] + 1
        BY <1>2, <1>3, <3>3, <3>6
      <4>2. next'[w] = next[w] + 1
        BY <3>1, <4>1
      <4>3. next[w] + 1 # -1
        <5>1. next[w] >= -1
          BY <1>2 DEF IInv, NextFromZero
        <5> QED
          BY <1>2, <5>1
      <4> QED
        BY <4>1, <4>2, <4>3
    <3> QED
      BY <1>2, <2>1, <3>3, <3>4, <3>5, <3>6
  <2> QED
    BY <1>2, <1>3, <2>2, <2>3
<1>8. StayersAhead'
  <2> SUFFICES ASSUME NEW v \in Walk, NEW i \in steady[v]
               PROVE  i \in met'[v] \/ (next'[v] # -1 /\ i >= next'[v])
    BY <1>1 DEF StayersAhead
  <2>1. CASE v = w
    BY <1>7, <2>1
  <2>2. CASE v # w
    BY <1>5, <2>2 DEF IInv, StayersAhead
  <2> QED
    BY <2>1, <2>2
<1>9. SteadyTaken' /\ Sound(a)'
  BY <1>1 DEF IInv, SteadyTaken, Sound, Shaped
<1>10. NextFromZero'
  BY <1>2, <1>3 DEF ForeachEvent, Followed, IInv, NextFromZero
<1> QED
  BY <1>1, <1>4, <1>8, <1>9, <1>10 DEF IInv

LEMMA ForeachIInv ==
  ASSUME IInv, NEW w \in Walk, ArrayForeach(w)
  PROVE  IInv'
<1>1. a' = a
  BY DEF ArrayForeach
<1>2. /\ next' = [next EXCEPT ![w] = 0]
      /\ met' = [met EXCEPT ![w] = {}]
      /\ steady' = [steady EXCEPT ![w] = {i \in DOMAIN a.data : a.data[i] # NULL}]
  BY DEF ArrayForeach
<1>3. DOMAIN a.data = 0..(a.size - 1) /\ a.size \in Nat
  BY DEF IInv, Sound, Shaped
<1>4. /\ steady'[w] = {i \in 0..(a.size - 1) : a.data[i] # NULL} /\ next'[w] = 0
      /\ \A v \in Walk : v # w => /\ steady'[v] = steady[v]
                                  /\ next'[v] = next[v] /\ met'[v] = met[v]
  BY <1>2, <1>3 DEF IInv
<1>5. SteadyTaken'
  BY <1>1, <1>4 DEF IInv, SteadyTaken
<1>6. StayersAhead'
  BY <1>1, <1>3, <1>4 DEF IInv, StayersAhead
<1>7. next' \in [Walk -> Int] /\ NextFromZero'
  BY <1>2 DEF IInv, NextFromZero
<1>8. met' = [v \in Walk |-> met'[v]]
  <2>1. met = [v \in Walk |-> met[v]]
    BY DEF IInv
  <2> QED
    BY <1>2, <2>1
<1>9. steady' = [v \in Walk |-> steady'[v]]
  <2> DEFINE taken == {i \in DOMAIN a.data : a.data[i] # NULL}
  <2>1. steady = [v \in Walk |-> steady[v]] /\ steady' = [steady EXCEPT ![w] = taken]
    BY <1>2 DEF IInv
  <2> HIDE DEF taken
  <2> QED
    BY <2>1
<1> QED
  BY <1>1, <1>5, <1>6, <1>7, <1>8, <1>9 DEF IInv, Sound, Shaped

LEMMA NextIInv ==
  ASSUME IInv, [Next]_vars
  PROVE  IInv'
<1>1. Sound(a) /\ a.last \in Int /\ a.size \in Nat
  BY DEF IInv, Sound, Shaped
<1>2. Index \subseteq Int /\ 0 \in Int
  BY ObjectArrayAssumption DEF Index
<1>3. ASSUME NEW i \in Int, ArraySplice(i) PROVE IInv'
  <2>1. Sound(Splice(a, i)) /\ Splice(a, i).size >= a.size
    BY <1>1, SpliceSound
  <2>2. PICK r : Becomes(Splice(a, i), r)
    BY <1>3 DEF ArraySplice
  <2> QED
    BY <2>1, <2>2, BecomesIInv
<1>4. ASSUME NEW i \in Int, NEW v, ArrayInsert(i, v) PROVE IInv'
  <2>1. Sound(Insert(a, i, v)) /\ Insert(a, i, v).size >= a.size
    BY <1>1, InsertSound
  <2>2. Becomes(Insert(a, i, v), NULL)
    BY <1>4 DEF ArrayInsert
  <2> QED
    BY <2>1, <2>2, BecomesIInv
<1>5. ASSUME NEW i \in Index, ArrayGet(i) PROVE IInv'
  <2>1. PICK r : Becomes(a, r)
    BY <1>5 DEF ArrayGet
  <2> QED
    BY <1>1, <2>1, BecomesIInv
<1>6. ASSUME NEW v \in Value, ArrayRemove(v) PROVE IInv'
  <2>1. Sound(Unset(a, v)) /\ Unset(a, v).size >= a.size
    BY <1>1, RemoveSound
  <2>2. Becomes(Unset(a, v), NULL)
    BY <1>6 DEF ArrayRemove
  <2> QED
    BY <2>1, <2>2, BecomesIInv
<1>7. ASSUME NEW v \in Value, ArrayPush(v) PROVE IInv'
  <2>1. a.last + 1 \in Int
    BY <1>1
  <2>2. Sound(Push(a, v)) /\ Push(a, v).size >= a.size
    BY <1>1, <2>1, InsertSound DEF Push
  <2>3. Becomes(Push(a, v), NULL)
    BY <1>7 DEF ArrayPush
  <2> QED
    BY <2>2, <2>3, BecomesIInv
<1>8. ASSUME NEW i \in Index, NEW v \in Value, ArraySet(i, v) PROVE IInv'
  <2>1. Sound(Set(a, i, v)) /\ Set(a, i, v).size >= a.size
    BY <1>1, <1>2, SetSound
  <2>2. PICK r : Becomes(Set(a, i, v), r)
    BY <1>8 DEF ArraySet
  <2> QED
    BY <2>1, <2>2, BecomesIInv
<1>9. ASSUME UNCHANGED vars PROVE IInv'
  BY <1>9 DEF vars, IInv, Sound, Shaped, SteadyTaken, StayersAhead, NextFromZero
<1> QED
  BY <1>1, <1>2, <1>3, <1>4, <1>5, <1>6, <1>7, <1>8, <1>9, ForeachIInv, ForeachEventIInv
     DEF Next, ArrayUnshift, ArrayPop, ArrayShift

-----------------------------------------------------------------------------
(* The array as a list                                                      *)

(* A sequence, of whatever it holds.                                        *)
Tuple(s) == s \in Seq(ToSet(s))

(* What MooList takes an array for.                                         *)
List(b) == [k \in 1..(b.last + 1) |-> b.data[k - 1]]

(* The list has the elements that get() finds.                              *)
LEMMA ListElements ==
  ASSUME NEW b, Sound(b)
  PROVE  /\ b.last + 1 \in Nat /\ Tuple(List(b)) /\ Len(List(b)) = b.last + 1
         /\ \A k \in 1..(b.last + 1) : List(b)[k] = Get(b, k - 1)
         /\ \A k \in 1..(b.last + 1) : List(b)[k] = b.data[k - 1]
<1> DEFINE q == List(b)
<1>1. /\ b.size \in Nat /\ b.last \in -1..(b.size - 1)
  BY DEF Sound, Shaped
<1>2. b.last + 1 \in Nat
  BY <1>1
<1>3. DOMAIN q = 1..(b.last + 1) /\ q = [k \in 1..(b.last + 1) |-> q[k]]
  BY DEF List
<1>4. \A k \in 1..(b.last + 1) : q[k] = b.data[k - 1] /\ q[k] = Get(b, k - 1)
  BY <1>1 DEF List, Get
<1> HIDE DEF q
<1>5. q \in [1..(b.last + 1) -> ToSet(q)]
  BY <1>3 DEF ToSet
<1>6. q \in Seq(ToSet(q))
  BY <1>2, <1>5, SeqDef
<1>7. Len(q) = b.last + 1
  BY <1>2, <1>3, <1>6, LenProperties
<1> QED
  BY <1>2, <1>4, <1>6, <1>7 DEF q, Tuple

(* A sequence that has them is the list.                                    *)
LEMMA ListIs ==
  ASSUME NEW b, Sound(b), NEW S, NEW s \in Seq(S), Len(s) = b.last + 1,
         \A k \in 1..(b.last + 1) : s[k] = Get(b, k - 1)
  PROVE  s = List(b)
<1>1. Tuple(List(b)) /\ Len(List(b)) = Len(s)
      /\ \A k \in 1..Len(s) : s[k] = List(b)[k]
  BY ListElements
<1> DEFINE T == S \cup ToSet(List(b))
<1>2. s \in Seq(T) /\ List(b) \in Seq(T)
  BY <1>1, SeqMonotonic DEF Tuple
<1> HIDE DEF T
<1> QED
  BY <1>1, <1>2, SeqEqual

(* set() of a place there is.                                               *)
LEMMA SetInside ==
  ASSUME NEW b, Sound(b), NEW i \in 0..b.last, NEW v, v # NULL, CanSet(b, i, v)
  PROVE  List(Set(b, i, v)) = [List(b) EXCEPT ![i + 1] = v]
<1> DEFINE q == List(b)
           c == Set(b, i, v)
           s == [q EXCEPT ![i + 1] = v]
           S == ToSet(q) \cup {v}
<1>1. b.last \in Int
  BY DEF Sound, Shaped
<1>2. /\ b.last + 1 \in Nat /\ q \in Seq(S) /\ Len(q) = b.last + 1 /\ v \in S
      /\ \A k \in 1..(b.last + 1) : q[k] = Get(b, k - 1)
  <2>1. Tuple(q)
    BY ListElements
  <2> QED
    BY <2>1, ListElements, SeqMonotonic DEF Tuple
<1>3. /\ Sound(c) /\ c.last = b.last
      /\ \A j \in Int : Get(c, j) = IF j = i THEN v ELSE Get(b, j)
  BY <1>1, SetSound, SetThenLast, SetThenGet
<1> HIDE DEF q, c, S
<1>4. /\ s \in Seq(S) /\ Len(s) = b.last + 1
      /\ \A k \in 1..(b.last + 1) : s[k] = IF k = i + 1 THEN v ELSE q[k]
  BY <1>1, <1>2, ExceptSeq
<1> HIDE DEF s
<1>5. \A k \in 1..(b.last + 1) : s[k] = Get(c, k - 1)
  BY <1>1, <1>2, <1>3, <1>4
<1>6. s = List(c)
  BY <1>3, <1>4, <1>5, ListIs
<1> QED
  BY <1>6 DEF s, c, q

(* set() of a place past the end: those between are empty.                  *)
LEMMA SetBeyond ==
  ASSUME NEW b, Sound(b), NEW i \in Int, i > b.last, NEW v, v # NULL, CanSet(b, i, v)
  PROVE  List(Set(b, i, v)) = List(b) \o [k \in 1..(i - Len(List(b))) |-> NULL] \o <<v>>
<1> DEFINE q == List(b)
           c == Set(b, i, v)
           n == b.last + 1
           gap == [k \in 1..(i - n) |-> NULL]
           S == ToSet(q) \cup {v, NULL}
<1>1. b.last \in Int /\ \A j \in Int : j > b.last => Get(b, j) = NULL
  BY DEF Sound, Shaped, Get
<1>2. /\ n \in Nat /\ q \in Seq(S) /\ Len(q) = n /\ v \in S /\ NULL \in S
      /\ \A k \in 1..n : q[k] = Get(b, k - 1)
  <2>1. Tuple(q)
    BY ListElements
  <2> QED
    BY <2>1, ListElements, SeqMonotonic DEF Tuple
<1>3. /\ Sound(c) /\ c.last = i
      /\ \A j \in Int : Get(c, j) = IF j = i THEN v ELSE Get(b, j)
  BY SetSound, SetThenLast, SetThenGet
<1> HIDE DEF q, c, S
<1>4. i - n \in Nat
  BY <1>1, <1>2
<1>5. gap \in Seq(S) /\ Len(gap) = i - n /\ \A k \in 1..(i - n) : gap[k] = NULL
  <2> DEFINE m == i - n
  <2>1. m \in Nat
    BY <1>4
  <2> HIDE DEF m
  <2>2. [k \in 1..m |-> NULL] \in [1..m -> S] /\ \A k \in 1..m : [j \in 1..m |-> NULL][k] = NULL
    BY <1>2
  <2>3. [k \in 1..m |-> NULL] \in Seq(S)
    BY <2>1, <2>2, SeqDef
  <2>4. Len([k \in 1..m |-> NULL]) = m
    BY <2>1, <2>3, LenProperties
  <2> QED
    BY <2>2, <2>3, <2>4 DEF m
<1> HIDE DEF gap
<1>6. <<v>> \in Seq(S) /\ Len(<<v>>) = 1 /\ <<v>>[1] = v
  BY <1>2
<1> DEFINE r == q \o gap
           s == r \o <<v>>
<1>7. /\ r \in Seq(S) /\ Len(r) = i
      /\ \A k \in 1..i : r[k] = IF k <= n THEN q[k] ELSE gap[k - n]
  <2>1. Len(q) + Len(gap) = i
    BY <1>2, <1>4, <1>5
  <2>2. /\ r \in Seq(S) /\ Len(r) = Len(q) + Len(gap)
        /\ \A k \in 1..(Len(q) + Len(gap)) :
             r[k] = IF k <= Len(q) THEN q[k] ELSE gap[k - Len(q)]
    BY <1>2, <1>5, ConcatProperties
  <2> HIDE DEF r
  <2> QED
    BY <1>2, <2>1, <2>2
<1> HIDE DEF r
<1>8. /\ s \in Seq(S) /\ Len(s) = i + 1
      /\ \A k \in 1..(i + 1) : s[k] = IF k <= i THEN r[k] ELSE <<v>>[k - i]
  <2>1. Len(r) + Len(<<v>>) = i + 1
    BY <1>6, <1>7
  <2> QED
    BY <1>6, <1>7, <2>1, ConcatProperties
<1> HIDE DEF s
<1>9. ASSUME NEW k \in 1..(i + 1) PROVE s[k] = Get(c, k - 1)
  <2>1. CASE k = i + 1
    BY <1>3, <1>6, <1>8, <2>1
  <2>2. CASE k <= n
    <3>1. k <= i /\ k \in 1..i /\ k \in 1..n /\ k - 1 # i /\ k - 1 \in Int
      BY <1>4, <1>2, <2>2
    <3> QED
      BY <1>2, <1>3, <1>7, <1>8, <2>2, <3>1
  <2>3. CASE k > n /\ k <= i
    <3>1. k \in 1..i /\ k - 1 # i /\ k - 1 \in Int /\ k - 1 > b.last /\ k - n \in 1..(i - n) /\ ~(k <= n)
      BY <1>1, <1>2, <2>3
    <3>2. s[k] = gap[k - n]
      BY <1>7, <1>8, <2>3, <3>1
    <3>3. gap[k - n] = NULL /\ Get(c, k - 1) = NULL
      BY <1>1, <1>3, <1>5, <3>1
    <3> QED
      BY <3>2, <3>3
  <2> QED
    BY <1>2, <2>1, <2>2, <2>3
<1>10. s = List(c)
  <2>1. Len(s) = c.last + 1 /\ \A k \in 1..(c.last + 1) : s[k] = Get(c, k - 1)
    BY <1>3, <1>8, <1>9
  <2> QED
    BY <1>3, <1>8, <2>1, ListIs
<1>11. Len(q) = n
  BY <1>2
<1> HIDE DEF n
<1> QED
  BY <1>10, <1>11 DEF s, r, gap, c, q

(* Trimming cuts what is empty off the end.                                 *)
LEMMA TrimmedIs ==
  ASSUME NEW l, NEW n \in 0..Len(l), n = 0 \/ l[n] # NULL,
         Len(l) \in Nat, \A k \in (n + 1)..Len(l) : l[k] = NULL
  PROVE  L!Trimmed(l) = SubSeq(l, 1, n)
<1> DEFINE Ends(m) == /\ m = 0 \/ l[m] # NULL
                      /\ \A k \in (m + 1)..Len(l) : l[k] = NULL
<1>1. Ends(n)
  OBVIOUS
<1>2. ASSUME NEW m \in 0..Len(l), Ends(m) PROVE m = n
  <2>1. CASE m < n
    BY <1>2, <2>1
  <2>2. CASE m > n
    BY <1>2, <2>2
  <2> QED
    BY <2>1, <2>2
<1>3. (CHOOSE m \in 0..Len(l) : Ends(m)) = n
  BY <1>1, <1>2
<1> QED
  BY <1>3 DEF L!Trimmed

(* remove(): the place becomes empty, and the list ends before it.          *)
LEMMA TakenOut ==
  ASSUME NEW b, Sound(b), NEW i \in 0..b.last
  PROVE  List(PutNull(b, i))
           = IF i + 1 = Len(List(b)) THEN L!Trimmed([List(b) EXCEPT ![i + 1] = NULL])
             ELSE [List(b) EXCEPT ![i + 1] = NULL]
<1> DEFINE q == List(b)
           c == PutNull(b, i)
           s == [q EXCEPT ![i + 1] = NULL]
           S == ToSet(q) \cup {NULL}
<1>1. b.last \in Int /\ b.size \in Nat /\ i \in 0..(b.size - 1)
  BY DEF Sound, Shaped
<1>2. /\ b.last + 1 \in Nat /\ q \in Seq(S) /\ Len(q) = b.last + 1 /\ NULL \in S
      /\ \A k \in 1..(b.last + 1) : q[k] = Get(b, k - 1)
  <2>1. Tuple(q)
    BY ListElements
  <2> QED
    BY <2>1, ListElements, SeqMonotonic DEF Tuple
<1>3. /\ Sound(c)
      /\ \A j \in Int : Get(c, j) = IF j = i THEN NULL ELSE Get(b, j)
      /\ i # b.last => c.last = b.last
      /\ i = b.last =>
           /\ c.last \in -1..(i - 1)
           /\ c.last = -1 \/ Get(b, c.last) # NULL
           /\ \A j \in (c.last + 1)..(i - 1) : Get(b, j) = NULL
  BY <1>1, PutNullSound, PutNullThenGet
<1> HIDE DEF q, c, S
<1>4. /\ s \in Seq(S) /\ Len(s) = b.last + 1
      /\ \A k \in 1..(b.last + 1) : s[k] = IF k = i + 1 THEN NULL ELSE q[k]
  BY <1>1, <1>2, ExceptSeq
<1> HIDE DEF s
<1>5. \A k \in 1..(b.last + 1) : s[k] = Get(c, k - 1)
  BY <1>1, <1>2, <1>3, <1>4
<1>6. CASE i # b.last
  <2>1. s = List(c)
    BY <1>3, <1>4, <1>5, <1>6, ListIs
  <2>2. i + 1 # Len(q)
    BY <1>1, <1>2, <1>6
  <2> QED
    BY <2>1, <2>2 DEF s, c, q
<1>7. CASE i = b.last
  <2> DEFINE n == c.last + 1
             t == SubSeq(s, 1, n)
  <2>1. n \in 0..(b.last + 1) /\ n \in Int /\ n - 1 = c.last /\ n <= b.last
    BY <1>1, <1>3, <1>7
  <2>2. n = 0 \/ s[n] # NULL
    <3> SUFFICES ASSUME n # 0 PROVE s[n] # NULL
      OBVIOUS
    <3>1. n \in 1..(b.last + 1) /\ n # i + 1 /\ c.last # -1
      BY <1>1, <1>7, <2>1
    <3>2. s[n] = Get(b, n - 1)
      BY <1>2, <1>4, <3>1
    <3> QED
      BY <1>3, <1>7, <2>1, <3>1, <3>2
  <2>3. \A k \in (n + 1)..(b.last + 1) : s[k] = NULL
    <3> SUFFICES ASSUME NEW k \in (n + 1)..(b.last + 1) PROVE s[k] = NULL
      OBVIOUS
    <3>1. k \in 1..(b.last + 1)
      BY <1>1, <2>1
    <3>2. CASE k = i + 1
      BY <1>4, <3>1, <3>2
    <3>3. CASE k # i + 1
      <4>1. s[k] = Get(b, k - 1)
        BY <1>2, <1>4, <3>1, <3>3
      <4>2. k - 1 \in (c.last + 1)..(i - 1)
        BY <1>1, <1>7, <2>1, <3>1, <3>3
      <4> QED
        BY <1>3, <1>7, <4>1, <4>2
    <3> QED
      BY <3>2, <3>3
  <2> HIDE DEF n
  <2>4. L!Trimmed(s) = t
    <3>1. /\ Len(s) \in Nat /\ n \in 0..Len(s)
          /\ \A k \in (n + 1)..Len(s) : s[k] = NULL
      BY <1>2, <1>4, <2>1, <2>3
    <3> QED
      BY <2>2, <3>1, TrimmedIs
  <2>5. /\ t \in Seq(S) /\ Len(t) = n
        /\ \A k \in 1..n : t[k] = s[k]
    <3>1. \A k \in 1..n : s[k] \in S
      BY <1>1, <1>4, <2>1, ElementOfSeq
    <3>2. 1 \in Int /\ n \in Int /\ (n < 1 => n = 0)
      BY <2>1
    <3> QED
      BY <3>1, <3>2, <2>1, SubSeqProperties
  <2> HIDE DEF t
  <2>6. Len(t) = c.last + 1 /\ \A k \in 1..(c.last + 1) : t[k] = Get(c, k - 1)
    BY <1>1, <1>5, <2>1, <2>5 DEF n
  <2>7. t = List(c)
    BY <1>3, <2>5, <2>6, ListIs
  <2>8. i + 1 = Len(q)
    BY <1>2, <1>7
  <2> QED
    BY <2>4, <2>7, <2>8 DEF s, c, q
<1> QED
  BY <1>6, <1>7

(* insert(), push() and unshift().                                          *)
LEMMA InsertIn ==
  ASSUME NEW b, Sound(b), NEW i \in Int, NEW v, CanInsert(b, i)
  PROVE  List(Insert(b, i, v)) = InsertAt(List(b), i + 1, v)
<1> DEFINE q == List(b)
           c == Insert(b, i, v)
           n == b.last + 1
           S == ToSet(q) \cup {v}
           front == SubSeq(q, 1, i)
           back == SubSeq(q, i + 1, n)
           head == front \o <<v>>
           s == head \o back
<1>1. b.last \in Int /\ i \in 0..n
  BY DEF Sound, Shaped, CanInsert
<1>2. /\ n \in Nat /\ q \in Seq(S) /\ Len(q) = n /\ v \in S
      /\ \A k \in 1..n : q[k] = Get(b, k - 1) /\ q[k] \in S
  <2>1. Tuple(q) /\ Len(q) = n
    BY ListElements
  <2>2. q \in Seq(S)
    BY <2>1, SeqMonotonic DEF Tuple
  <2> QED
    BY <2>1, <2>2, ListElements, ElementOfSeq
<1>3. /\ Sound(c) /\ c.last = n
      /\ \A j \in 0..n : Get(c, j) = IF j < i THEN Get(b, j)
                                     ELSE IF j = i THEN v ELSE Get(b, j - 1)
  BY InsertSound, InsertThenGet
<1>4. InsertAt(q, i + 1, v) = s
  <2>1. (i + 1) - 1 = i
    BY <1>1
  <2> QED
    BY <1>2, <2>1 DEF InsertAt
<1> HIDE DEF q, c, n, S
<1>5. /\ front \in Seq(S) /\ Len(front) = i
      /\ \A k \in 1..i : front[k] = q[k]
  <2>1. \A k \in 1..i : q[k] \in S
    BY <1>1, <1>2
  <2>2. 1 \in Int /\ i \in Int /\ (i < 1 => i = 0) /\ i - 1 + 1 = i
    BY <1>1
  <2> QED
    BY <2>1, <2>2, SubSeqProperties
<1>6. /\ back \in Seq(S) /\ Len(back) = n - i
      /\ \A k \in 1..(n - i) : back[k] = q[i + k]
  <2>1. \A k \in (i + 1)..n : q[k] \in S
    BY <1>1, <1>2
  <2>2. i + 1 \in Int /\ n \in Int /\ (n < i + 1 => n = i) /\ n - (i + 1) + 1 = n - i
    BY <1>1, <1>2
  <2>3. \A k \in Int : (i + 1) + k - 1 = i + k
    BY <1>1
  <2>4. /\ back \in Seq(S) /\ Len(back) = IF i + 1 <= n THEN n - (i + 1) + 1 ELSE 0
        /\ \A k \in 1..(n - (i + 1) + 1) : back[k] = q[(i + 1) + k - 1]
    BY <2>1, <2>2, SubSeqProperties
  <2> HIDE DEF back
  <2> QED
    BY <1>1, <1>2, <2>2, <2>3, <2>4
<1> HIDE DEF front, back
<1>7. <<v>> \in Seq(S) /\ Len(<<v>>) = 1 /\ <<v>>[1] = v
  BY <1>2
<1>8. /\ head \in Seq(S) /\ Len(head) = i + 1
      /\ \A k \in 1..(i + 1) : head[k] = IF k <= i THEN q[k] ELSE v
  BY <1>1, <1>5, <1>7, ConcatProperties
<1> HIDE DEF head
<1>9. /\ s \in Seq(S) /\ Len(s) = n + 1
      /\ \A k \in 1..(n + 1) : s[k] = IF k <= i + 1 THEN head[k] ELSE back[k - (i + 1)]
  <2>1. Len(head) + Len(back) = n + 1
    BY <1>1, <1>2, <1>6, <1>8
  <2>2. /\ s \in Seq(S) /\ Len(s) = Len(head) + Len(back)
        /\ \A k \in 1..(Len(head) + Len(back)) :
             s[k] = IF k <= Len(head) THEN head[k] ELSE back[k - Len(head)]
    BY <1>6, <1>8, ConcatProperties
  <2> HIDE DEF s
  <2> QED
    BY <1>8, <2>1, <2>2
<1> HIDE DEF s
<1>10. ASSUME NEW k \in 1..(n + 1) PROVE s[k] = Get(c, k - 1)
  <2>0. k - 1 \in 0..n
    BY <1>2
  <2>1. CASE k <= i
    <3>1. k \in 1..n /\ k \in 1..(i + 1) /\ k <= i + 1 /\ k - 1 < i
      BY <1>1, <1>2, <2>1
    <3> QED
      BY <1>2, <1>3, <1>8, <1>9, <2>0, <2>1, <3>1
  <2>2. CASE k = i + 1
    <3>1. k \in 1..(i + 1) /\ ~(k <= i) /\ k <= i + 1 /\ k - 1 = i /\ ~(k - 1 < i)
      BY <1>1, <2>2
    <3> QED
      BY <1>3, <1>8, <1>9, <2>0, <3>1
  <2>3. CASE k > i + 1
    <3>1. /\ k - (i + 1) \in 1..(n - i) /\ i + (k - (i + 1)) = k - 1 /\ k - 1 \in 1..n
          /\ ~(k <= i + 1) /\ ~(k - 1 < i) /\ k - 1 # i
      BY <1>1, <1>2, <2>3
    <3>2. s[k] = q[k - 1]
      BY <1>6, <1>9, <3>1
    <3> QED
      BY <1>2, <1>3, <2>0, <3>1, <3>2
  <2> QED
    BY <1>1, <2>1, <2>2, <2>3
<1>11. s = List(c)
  BY <1>3, <1>9, <1>10, ListIs
<1> QED
  BY <1>4, <1>11 DEF c, q

(* splice(), pop() and shift().                                             *)
LEMMA SpliceOut ==
  ASSUME NEW b, Sound(b), NEW i \in Int, CanSplice(b, i)
  PROVE  List(Splice(b, i)) = RemoveAt(List(b), i + 1)
<1> DEFINE q == List(b)
           c == Splice(b, i)
           n == b.last + 1
           S == ToSet(q)
           front == SubSeq(q, 1, i)
           back == SubSeq(q, i + 2, n)
           s == front \o back
<1>1. b.last \in Int /\ i \in 0..(n - 1)
  BY DEF Sound, Shaped, CanSplice
<1>2. /\ n \in Nat /\ q \in Seq(S) /\ Len(q) = n
      /\ \A k \in 1..n : q[k] = Get(b, k - 1) /\ q[k] \in S
  <2>1. Tuple(q) /\ Len(q) = n
    BY ListElements
  <2>2. q \in Seq(S)
    BY <2>1 DEF Tuple
  <2> QED
    BY <2>1, <2>2, ListElements, ElementOfSeq
<1>3. /\ Sound(c) /\ c.last = n - 2
      /\ \A j \in 0..(n - 2) : Get(c, j) = IF j < i THEN Get(b, j) ELSE Get(b, j + 1)
  <2>1. n - 2 = b.last - 1
    BY <1>1
  <2> QED
    BY <2>1, SpliceSound, SpliceThenGet
<1>4. RemoveAt(q, i + 1) = s
  <2>1. (i + 1) - 1 = i /\ (i + 1) + 1 = i + 2
    BY <1>1
  <2> QED
    BY <1>2, <2>1 DEF RemoveAt
<1> HIDE DEF q, c, n, S
<1>5. /\ front \in Seq(S) /\ Len(front) = i
      /\ \A k \in 1..i : front[k] = q[k]
  <2>1. \A k \in 1..i : q[k] \in S
    BY <1>1, <1>2
  <2>2. 1 \in Int /\ i \in Int /\ (i < 1 => i = 0) /\ i - 1 + 1 = i
    BY <1>1
  <2> QED
    BY <2>1, <2>2, SubSeqProperties
<1>6. /\ back \in Seq(S) /\ Len(back) = n - i - 1
      /\ \A k \in 1..(n - i - 1) : back[k] = q[i + 1 + k]
  <2>1. \A k \in (i + 2)..n : q[k] \in S
    BY <1>1, <1>2
  <2>2. i + 2 \in Int /\ n \in Int /\ (n < i + 2 => n = i + 1) /\ n - (i + 2) + 1 = n - i - 1
    BY <1>1, <1>2
  <2>3. \A k \in Int : (i + 2) + k - 1 = i + 1 + k
    BY <1>1
  <2>4. /\ back \in Seq(S) /\ Len(back) = IF i + 2 <= n THEN n - (i + 2) + 1 ELSE 0
        /\ \A k \in 1..(n - (i + 2) + 1) : back[k] = q[(i + 2) + k - 1]
    BY <2>1, <2>2, SubSeqProperties
  <2> HIDE DEF back
  <2> QED
    BY <1>1, <1>2, <2>2, <2>3, <2>4
<1> HIDE DEF front, back
<1>7. /\ s \in Seq(S) /\ Len(s) = n - 1
      /\ \A k \in 1..(n - 1) : s[k] = IF k <= i THEN front[k] ELSE back[k - i]
  <2>1. Len(front) + Len(back) = n - 1
    BY <1>1, <1>2, <1>5, <1>6
  <2>2. /\ s \in Seq(S) /\ Len(s) = Len(front) + Len(back)
        /\ \A k \in 1..(Len(front) + Len(back)) :
             s[k] = IF k <= Len(front) THEN front[k] ELSE back[k - Len(front)]
    BY <1>5, <1>6, ConcatProperties
  <2> HIDE DEF s
  <2> QED
    BY <1>5, <2>1, <2>2
<1> HIDE DEF s
<1>8. ASSUME NEW k \in 1..(n - 1) PROVE s[k] = Get(c, k - 1)
  <2>0. k - 1 \in 0..(n - 2)
    BY <1>2
  <2>1. CASE k <= i
    <3>1. k \in 1..n /\ k \in 1..i /\ k - 1 < i
      BY <1>1, <1>2, <2>1
    <3> QED
      BY <1>2, <1>3, <1>5, <1>7, <2>0, <2>1, <3>1
  <2>2. CASE k > i
    <3>1. /\ k - i \in 1..(n - i - 1) /\ i + 1 + (k - i) = k + 1 /\ k + 1 \in 1..n
          /\ ~(k <= i) /\ ~(k - 1 < i) /\ (k + 1) - 1 = (k - 1) + 1
      BY <1>1, <1>2, <2>2
    <3>2. s[k] = q[k + 1]
      BY <1>6, <1>7, <3>1
    <3> QED
      BY <1>2, <1>3, <2>0, <3>1, <3>2
  <2> QED
    BY <1>1, <2>1, <2>2
<1>9. s = List(c)
  <2>1. Len(s) = c.last + 1 /\ c.last + 1 = n - 1
    BY <1>2, <1>3, <1>7
  <2> QED
    BY <1>3, <1>7, <1>8, <2>1, ListIs
<1> QED
  BY <1>4, <1>9 DEF c, q

(* What a method does to the list, and what it returns.                     *)
LEMMA ListChanges ==
  ASSUME NEW b, NEW r, Becomes(b, r)
  PROVE  a' = b /\ ret' = r
  BY DEF Becomes

(* Every method does to the list what MooList's does.                       *)
LEMMA NextImplementsList ==
  ASSUME MaxSize = 0, Replace, IInv, [Next]_vars
  PROVE  [L!Next]_(L!vars)
<1> DEFINE q == List(a)
<1>1. /\ Sound(a) /\ a.last \in Int /\ a.size \in Nat /\ a.size >= 4
      /\ a.last \in -1..(a.size - 1)
      /\ Tuple(q) /\ Len(q) = a.last + 1 /\ DOMAIN q = 1..(a.last + 1)
      /\ \A k \in 1..(a.last + 1) : q[k] = Get(a, k - 1) /\ q[k] = a.data[k - 1]
  <2>1. /\ Sound(a) /\ a.last \in Int /\ a.size \in Nat /\ a.size >= 4
        /\ a.last \in -1..(a.size - 1)
    BY DEF IInv, Sound, Shaped
  <2>2. /\ Tuple(q) /\ Len(q) = a.last + 1
        /\ \A k \in 1..(a.last + 1) : q[k] = Get(a, k - 1) /\ q[k] = a.data[k - 1]
    BY <2>1, ListElements
  <2> QED
    BY <2>1, <2>2, LenProperties DEF Tuple
<1>2. Index \subseteq Int /\ 0 \in Int
  BY ObjectArrayAssumption DEF Index
<1>4. ASSUME NEW i \in Index \cup {0, a.last}, ArraySplice(i) PROVE L!Next
  <2>1. a' = Splice(a, i) /\ ret' = IF CanSplice(a, i) THEN a.data[i] ELSE NULL
    BY <1>4, ListChanges DEF ArraySplice
  <2>2. i \in Int /\ i \in Index \cup {0, Len(q) - 1}
    <3>1. Len(q) - 1 = a.last
      BY <1>1
    <3> QED
      BY <1>1, <1>2, <1>4, <3>1
  <2>3. CASE CanSplice(a, i)
    <3>1. i \in 0..(Len(q) - 1) /\ q[i + 1] = a.data[i]
      BY <1>1, <2>2, <2>3 DEF CanSplice
    <3>2. List(a') = RemoveAt(q, i + 1) /\ ret' = q[i + 1]
      BY <1>1, <2>1, <2>2, <2>3, <3>1, SpliceOut
    <3> QED
      <4>1. \E j \in Index \cup {0, Len(q) - 1} :
              \/ /\ j \in 0..(Len(q) - 1)
                 /\ List(a') = RemoveAt(q, j + 1)
                 /\ ret' = q[j + 1]
              \/ /\ j \notin 0..(Len(q) - 1)
                 /\ List(a') = q
                 /\ ret' = NULL
        BY <2>2, <3>1, <3>2
      <4> QED
        BY <4>1, Zenon DEF L!Next, L!Splice, L!Has, L!Element, L!RemoveAt, RemoveAt, List
  <2>4. CASE ~CanSplice(a, i)
    <3>1. i \notin 0..(Len(q) - 1) /\ a' = a /\ ret' = NULL
      BY <1>1, <2>1, <2>2, <2>4 DEF CanSplice, Splice
    <3> QED
      BY <2>2, <3>1 DEF L!Next, L!Splice, L!Has, L!Element, L!RemoveAt, RemoveAt, List
  <2> QED
    BY <2>3, <2>4
<1>5. ASSUME NEW i \in Index \cup {0, a.last + 1}, NEW v \in Value,
             a' = Insert(a, i, v), ret' = NULL
      PROVE  L!Next
  <2>1. i \in Int /\ i \in Index \cup {0, Len(q)}
    <3>1. Len(q) = a.last + 1 /\ a.last + 1 \in Int
      BY <1>1
    <3> QED
      BY <1>2, <1>5, <3>1
  <2>2. CASE i \in 0..(a.last + 1)
    <3>1. CanInsert(a, i)
      <4>1. 2 * a.size # a.size
        BY <1>1
      <4> QED
        BY <2>2, <4>1 DEF CanInsert, CanResize, Capped
    <3>2. i \in 0..Len(q) /\ List(a') = InsertAt(q, i + 1, v)
      BY <1>1, <1>5, <2>1, <2>2, <3>1, InsertIn
    <3> QED
      <4>1. \E j \in Index \cup {0, Len(q)}, u \in Value :
              \/ /\ j \in 0..Len(q)
                 /\ List(a') = InsertAt(q, j + 1, u)
                 /\ ret' = NULL
              \/ /\ j \notin 0..Len(q)
                 /\ List(a') = q
                 /\ ret' = NULL
        BY <1>5, <2>1, <3>2
      <4> QED
        BY <4>1, Zenon DEF L!Next, L!Insert, L!InsertAt, InsertAt, List
  <2>3. CASE i \notin 0..(a.last + 1)
    <3>1. i \notin 0..Len(q) /\ a' = a
      BY <1>1, <1>5, <2>3 DEF Insert, CanInsert
    <3> QED
      BY <1>5, <2>1, <3>1 DEF L!Next, L!Insert, List
  <2> QED
    BY <2>2, <2>3
<1>6. ASSUME NEW i \in Index, ArrayGet(i) PROVE L!Next
  <2>1. PICK r \in IF Beyond(a, i) THEN {NULL, Stray} ELSE {Get(a, i)} : a' = a /\ ret' = r
    BY <1>6, ListChanges DEF ArrayGet
  <2>2. CASE i \in 0..(Len(q) - 1)
    <3>1. i + 1 \in 1..(a.last + 1) /\ (i + 1) - 1 = i /\ i # a.size
      BY <1>1, <2>2
    <3>2. ret' = q[i + 1]
      BY <1>1, <2>1, <3>1 DEF Beyond
    <3> QED
      BY <2>1, <2>2, <3>2 DEF L!Next, L!Get, L!Has, L!Element, List
  <2>3. CASE i \notin 0..(Len(q) - 1)
    <3>1. Get(a, i) = NULL
      BY <1>1, <1>2, <2>3 DEF Get, IInv, Sound, Shaped
    <3>2. ret' \in {NULL, Stray}
      BY <2>1, <3>1
    <3> QED
      BY <2>1, <2>3, <3>2 DEF L!Next, L!Get, L!Has, List
  <2> QED
    BY <2>2, <2>3
<1>7. ASSUME NEW v \in Value, ArrayRemove(v) PROVE L!Next
  <2> DEFINE at == {i \in 0..(a.size - 1) : a.data[i] = v}
  <2>1. a' = Unset(a, v) /\ ret' = NULL /\ v # NULL
    BY <1>7, ListChanges, ObjectArrayAssumption DEF ArrayRemove
  <2>2. \A i \in at : i \in 0..a.last
    BY <1>1, <2>1 DEF IInv, Sound, Shaped
  <2>3. CASE at = {}
    <3>1. a' = a
      BY <2>1, <2>3 DEF Unset
    <3>2. ASSUME NEW k \in DOMAIN q, q[k] = v PROVE FALSE
      <4>1. k - 1 \in 0..(a.size - 1) /\ q[k] = a.data[k - 1]
        BY <1>1
      <4>2. k - 1 \in at
        BY <3>2, <4>1
      <4> QED
        BY <2>3, <4>2
    <3> QED
      <4>1. (\A i \in DOMAIN q : q[i] # v) /\ List(a') = q /\ ret' = NULL
        BY <2>1, <3>1, <3>2
      <4> QED
        BY <4>1, Zenon DEF L!Next, L!Vacate, List
  <2>4. CASE at # {}
    <3> DEFINE i == CHOOSE k \in at : \A j \in at : k <= j
               c == PutNull(a, i)
    <3>1. i \in at /\ \A j \in at : i <= j
      <4>1. at \subseteq Nat
        BY <1>1
      <4> QED
        BY <2>4, <4>1, LeastExists
    <3>2. a' = c
      BY <2>1, <2>4 DEF Unset
    <3> HIDE DEF i
    <3>3. i \in 0..a.last /\ a.data[i] = v
      BY <2>2, <3>1
    <3>4. /\ i + 1 \in DOMAIN q /\ q[i + 1] = v
          /\ \A j \in 1..((i + 1) - 1) : q[j] # v
      <4>1. i + 1 \in DOMAIN q /\ q[i + 1] = v
        BY <1>1, <3>3
      <4>2. ASSUME NEW j \in 1..((i + 1) - 1), q[j] = v PROVE FALSE
        <5>1. j \in 1..(a.last + 1) /\ j - 1 \in 0..(a.size - 1) /\ j - 1 < i
          BY <1>1, <3>3
        <5>2. j - 1 \in at
          BY <1>1, <4>2, <5>1
        <5> QED
          BY <3>1, <3>3, <5>1, <5>2
      <4> QED
        BY <4>1, <4>2
    <3>5. List(a') = IF i + 1 = Len(q) THEN L!Trimmed([q EXCEPT ![i + 1] = NULL])
                     ELSE [q EXCEPT ![i + 1] = NULL]
      BY <1>1, <3>2, <3>3, TakenOut
    <3> HIDE DEF c
    <3> QED
      <4>1. \E j \in DOMAIN q :
              /\ q[j] = v /\ \A k \in 1..(j - 1) : q[k] # v
              /\ List(a') = IF j = Len(q) THEN L!Trimmed([q EXCEPT ![j] = NULL])
                           ELSE [q EXCEPT ![j] = NULL]
              /\ ret' = NULL
        BY <2>1, <3>4, <3>5
      <4> QED
        BY <4>1, Zenon DEF L!Next, L!Vacate, List
  <2> QED
    BY <2>3, <2>4
<1>8. ASSUME NEW v \in Value, ArrayPush(v) PROVE L!Next
  <2>1. a' = Insert(a, a.last + 1, v) /\ ret' = NULL
    BY <1>8, ListChanges DEF ArrayPush, Push
  <2> QED
    BY <1>5, <2>1
<1>9. ASSUME NEW i \in Index \cup {0}, NEW v \in Value, ArrayInsert(i, v) PROVE L!Next
  <2>1. a' = Insert(a, i, v) /\ ret' = NULL
    BY <1>9, ListChanges DEF ArrayInsert
  <2> QED
    BY <1>5, <2>1
<1>10. ASSUME NEW i \in Index, NEW v \in Value, ArraySet(i, v) PROVE L!Next
  <2>1. a' = Set(a, i, v) /\ ret' = IF CanSet(a, i, v) THEN v ELSE NULL
    BY <1>10, ListChanges DEF ArraySet
  <2>2. i \in Int /\ v # NULL /\ (CanSet(a, i, v) <=> i >= 0)
    BY <1>2, ObjectArrayAssumption DEF CanSet
  <2>3. CASE i < 0
    <3>1. a' = a /\ ret' = NULL
      BY <2>1, <2>2, <2>3 DEF Set
    <3> QED
      BY <2>3, <3>1 DEF L!Next, L!Put, List
  <2>4. CASE i \in 0..a.last
    <3>1. i \in 0..(Len(q) - 1)
      BY <1>1, <2>4
    <3>2. List(a') = [q EXCEPT ![i + 1] = v] /\ ret' = v
      BY <1>1, <2>1, <2>2, <2>4, SetInside
    <3> QED
      BY <3>1, <3>2 DEF L!Next, L!Put, L!Has, List
  <2>5. CASE i > a.last /\ i >= 0
    <3>1. i >= Len(q)
      BY <1>1, <2>2, <2>5
    <3>2. List(a') = q \o [k \in 1..(i - Len(q)) |-> NULL] \o <<v>> /\ ret' = v
      BY <1>1, <2>1, <2>2, <2>5, SetBeyond
    <3> QED
      BY <3>1, <3>2 DEF L!Next, L!Put, List
  <2> QED
    BY <1>1, <2>2, <2>3, <2>4, <2>5
<1>11. ASSUME a' = a, ret' = ret PROVE UNCHANGED L!vars
  BY <1>11 DEF L!vars
<1>12. ASSUME NEW w \in Walk, ArrayForeach(w) \/ ForeachEvent(w) PROVE UNCHANGED L!vars
  BY <1>11, <1>12 DEF ArrayForeach, ForeachEvent
<1>13. CASE UNCHANGED vars
  BY <1>11, <1>13 DEF vars
<1> QED
  BY <1>4, <1>6, <1>7, <1>8, <1>9, <1>10, <1>12, <1>13
     DEF Next, ArrayUnshift, ArrayPop, ArrayShift

-----------------------------------------------------------------------------
(* TypeOK                                                                   *)

(* The array holds what programs put there, at the indices they use.        *)
Held(b) ==
  /\ Sound(b) /\ b.last <= MaxIndex
  /\ \A j \in Int : Get(b, j) \in Value \cup {NULL}

Typed ==
  /\ Held(a)
  /\ ret \in Value \cup {NULL, Stray}
  /\ next \in [Walk -> -1..(MaxIndex + 1)]
  /\ met \in [Walk -> SUBSET (0..MaxIndex)]
  /\ steady \in [Walk -> SUBSET (0..MaxIndex)]

LEMMA SetHeld ==
  ASSUME NEW b, Held(b), NEW i \in Index, NEW v \in Value
  PROVE  Held(Set(b, i, v))
<1>1. CASE CanSet(b, i, v)
  <2>1. i \in Int /\ i <= MaxIndex /\ v # NULL /\ Sound(b)
    BY ObjectArrayAssumption DEF Index, Held
  <2>2. \A j \in Int : Get(Set(b, i, v), j) = IF j = i THEN v ELSE Get(b, j)
    BY <1>1, <2>1, SetThenGet
  <2>3. Set(b, i, v).last = IF i > b.last THEN i ELSE b.last
    BY <1>1, <2>1, SetThenLast
  <2>4. Sound(Set(b, i, v))
    BY <2>1, SetSound
  <2> QED
    BY <2>1, <2>2, <2>3, <2>4 DEF Held
<1>2. CASE ~ CanSet(b, i, v)
  <2>1. Set(b, i, v) = b
    BY <1>2 DEF Set
  <2> QED
    BY <2>1
<1> QED
  BY <1>1, <1>2

LEMMA RemoveHeld ==
  ASSUME NEW b, Held(b), NEW v \in Value
  PROVE  Held(Unset(b, v))
<1> DEFINE places == {i \in 0..(b.size - 1) : b.data[i] = v}
           i == CHOOSE n \in places : \A k \in places : n <= k
<1>1. Sound(b) /\ b.size \in Nat /\ b.last \in Int /\ v # NULL
  BY ObjectArrayAssumption DEF Held, Sound, Shaped
<1>2. Sound(Unset(b, v))
  BY <1>1, RemoveSound
<1>3. CASE places = {}
  <2>1. Unset(b, v) = b
    BY <1>3 DEF Unset
  <2> QED
    BY <2>1
<1>4. CASE places # {}
  <2>1. places \subseteq Nat
    BY <1>1
  <2>2. i \in places
    <3> HIDE DEF places
    <3> QED
      BY <1>4, <2>1, LeastExists
  <2>3. i \in 0..(b.size - 1) /\ b.data[i] = v
    BY <2>2
  <2>4. Unset(b, v) = PutNull(b, i)
    BY <1>4 DEF Unset
  <2> HIDE DEF i, places
  <2>5. i <= b.last
    BY <1>1, <2>3 DEF Sound, Shaped
  <2>6. \A j \in Int : Get(PutNull(b, i), j) = IF j = i THEN NULL ELSE Get(b, j)
    BY <1>1, <2>3, <2>5, PutNullThenGet
  <2>7. i # b.last => PutNull(b, i).last = b.last
    BY <1>1, <2>3, <2>5, PutNullThenGet
  <2>8. i = b.last => PutNull(b, i).last \in -1..(i - 1)
    BY <1>1, <2>3, <2>5, PutNullThenGet
  <2>9. PutNull(b, i).last <= b.last /\ PutNull(b, i).last \in Int
    BY <1>1, <2>3, <2>7, <2>8
  <2>10. PutNull(b, i).last <= MaxIndex
    BY <1>1, <2>9, ObjectArrayAssumption DEF Held
  <2> QED
    BY <1>2, <2>4, <2>6, <2>10 DEF Held
<1> QED
  BY <1>3, <1>4

(* Past the last element there is nothing.                                  *)
LEMMA HeldToLast ==
  ASSUME NEW b, Sound(b), b.last <= MaxIndex,
         \A j \in 0..b.last : Get(b, j) \in Value \cup {NULL}
  PROVE  Held(b)
<1> SUFFICES ASSUME NEW j \in Int PROVE Get(b, j) \in Value \cup {NULL}
  BY DEF Held
<1>1. CASE j \in 0..b.last
  BY <1>1
<1>2. CASE j \notin 0..b.last
  BY <1>2 DEF Get, Sound, Shaped
<1> QED
  BY <1>1, <1>2

LEMMA InsertHeld ==
  ASSUME NEW b, Held(b), b.last < MaxIndex, NEW i \in Int, NEW v \in Value
  PROVE  Held(Insert(b, i, v))
<1> DEFINE c == Insert(b, i, v)
<1>1. Sound(b) /\ b.last \in Int /\ Sound(c)
  BY InsertSound DEF Held, Sound, Shaped
<1>2. CASE CanInsert(b, i)
  <2>1. /\ c.last = b.last + 1
        /\ \A j \in 0..(b.last + 1) :
             Get(c, j) = IF j < i THEN Get(b, j) ELSE IF j = i THEN v ELSE Get(b, j - 1)
    BY <1>1, <1>2, InsertThenGet
  <2> HIDE DEF c
  <2>2. \A j \in 0..c.last : Get(c, j) \in Value \cup {NULL}
    <3> SUFFICES ASSUME NEW j \in 0..c.last
                 PROVE  Get(c, j) \in Value \cup {NULL}
      OBVIOUS
    <3>1. j \in Int /\ j - 1 \in Int /\ j \in 0..(b.last + 1)
      BY <1>1, <2>1
    <3> QED
      BY <2>1, <3>1 DEF Held
  <2>3. c.last <= MaxIndex
    BY <1>1, <2>1, ObjectArrayAssumption
  <2>4. Held(c)
    BY <1>1, <2>2, <2>3, HeldToLast
  <2> QED
    BY <2>4 DEF c
<1>3. CASE ~ CanInsert(b, i)
  <2>1. c = b
    BY <1>3 DEF Insert
  <2> QED
    BY <2>1
<1> QED
  BY <1>2, <1>3

LEMMA SpliceHeld ==
  ASSUME NEW b, Held(b), NEW i \in Int
  PROVE  Held(Splice(b, i))
<1> DEFINE c == Splice(b, i)
<1>1. Sound(b) /\ b.last \in Int /\ Sound(c)
  BY SpliceSound DEF Held, Sound, Shaped
<1>2. CASE CanSplice(b, i)
  <2>1. /\ c.last = b.last - 1
        /\ \A j \in 0..(b.last - 1) :
             Get(c, j) = IF j < i THEN Get(b, j) ELSE Get(b, j + 1)
    BY <1>1, <1>2, SpliceThenGet
  <2> HIDE DEF c
  <2>2. \A j \in 0..c.last : Get(c, j) \in Value \cup {NULL}
    <3> SUFFICES ASSUME NEW j \in 0..c.last
                 PROVE  Get(c, j) \in Value \cup {NULL}
      OBVIOUS
    <3>1. j \in Int /\ j + 1 \in Int /\ j \in 0..(b.last - 1)
      BY <1>1, <2>1
    <3> QED
      BY <2>1, <3>1 DEF Held
  <2>3. c.last <= MaxIndex
    BY <1>1, <2>1, ObjectArrayAssumption DEF Held
  <2>4. Held(c)
    BY <1>1, <2>2, <2>3, HeldToLast
  <2> QED
    BY <2>4 DEF c
<1>3. CASE ~ CanSplice(b, i)
  <2>1. c = b
    BY <1>3 DEF Splice
  <2> QED
    BY <2>1
<1> QED
  BY <1>2, <1>3

LEMMA BecomesTyped ==
  ASSUME Typed, NEW b, Held(b), NEW r \in Value \cup {NULL, Stray}, Becomes(b, r)
  PROVE  Typed'
<1>1. a' = b /\ ret' = r /\ next' = next
  BY DEF Becomes
<1>2. Held(a)'
  BY <1>1 DEF Held, Sound, Shaped, Get
<1>3. /\ met' \in [Walk -> SUBSET (0..MaxIndex)]
      /\ steady' \in [Walk -> SUBSET (0..MaxIndex)]
  BY DEF Becomes, Typed
<1> QED
  BY <1>1, <1>2, <1>3 DEF Typed

LEMMA ForeachTyped ==
  ASSUME Typed, NEW w \in Walk, ArrayForeach(w) \/ ForeachEvent(w)
  PROVE  Typed'
<1>1. a' = a /\ ret' = ret
  BY DEF ArrayForeach, ForeachEvent
<1>2. Held(a)'
  BY <1>1 DEF Typed, Held, Sound, Shaped, Get
<1>3. a.last \in Int /\ a.last <= MaxIndex /\ MaxIndex \in Nat
  BY ObjectArrayAssumption DEF Typed, Held, Sound, Shaped
<1>4. CASE ArrayForeach(w)
  <2> DEFINE taken == {i \in DOMAIN a.data : a.data[i] # NULL}
  <2>1. taken \subseteq 0..MaxIndex
    <3> SUFFICES ASSUME NEW i \in DOMAIN a.data, a.data[i] # NULL
                 PROVE  i \in 0..MaxIndex
      OBVIOUS
    <3>1. /\ i \in 0..(a.size - 1) /\ a.size \in Nat
          /\ \A j \in 0..(a.size - 1) : j > a.last => a.data[j] = NULL
      BY DEF Typed, Held, Sound, Shaped
    <3> QED
      BY <1>3, <3>1
  <2>2. /\ next' = [next EXCEPT ![w] = 0] /\ met' = [met EXCEPT ![w] = {}]
        /\ steady' = [steady EXCEPT ![w] = taken]
    BY <1>4 DEF ArrayForeach
  <2> HIDE DEF taken
  <2>3. next' \in [Walk -> -1..(MaxIndex + 1)]
    BY <1>3, <2>2 DEF Typed
  <2>4. met' \in [Walk -> SUBSET (0..MaxIndex)]
    BY <2>2 DEF Typed
  <2>5. steady' \in [Walk -> SUBSET (0..MaxIndex)]
    BY <2>1, <2>2 DEF Typed
  <2> QED
    BY <1>1, <1>2, <2>3, <2>4, <2>5 DEF Typed
<1>5. CASE ForeachEvent(w)
  <2>1. next[w] \in -1..(MaxIndex + 1) /\ next[w] # -1 /\ steady' = steady
    BY <1>5 DEF ForeachEvent, Typed
  <2>2. CASE next[w] > a.last
    <3>1. next' = [next EXCEPT ![w] = -1] /\ met' = met
      BY <1>3, <1>5, <2>1, <2>2 DEF ForeachEvent
    <3>2. next' \in [Walk -> -1..(MaxIndex + 1)]
      BY <1>3, <3>1 DEF Typed
    <3> QED
      BY <1>1, <1>2, <2>1, <3>1, <3>2 DEF Typed
  <2>3. CASE next[w] <= a.last
    <3> DEFINE f == Followed(w)
               m == met[w] \cup {next[w]}
    <3>1. next' = [next EXCEPT ![w] = f] /\ met' = [met EXCEPT ![w] = m]
      BY <1>3, <1>5, <2>1, <2>3 DEF ForeachEvent
    <3>2. f \in -1..(MaxIndex + 1)
      BY <1>3, <2>1 DEF Followed
    <3>3. m \subseteq 0..MaxIndex
      <4>1. next[w] \in 0..MaxIndex
        BY <1>3, <2>1, <2>3
      <4> QED
        BY <4>1 DEF Typed
    <3> HIDE DEF f, m
    <3>4. next' \in [Walk -> -1..(MaxIndex + 1)]
      BY <3>1, <3>2 DEF Typed
    <3>5. met' \in [Walk -> SUBSET (0..MaxIndex)]
      BY <3>1, <3>3 DEF Typed
    <3> QED
      BY <1>1, <1>2, <2>1, <3>4, <3>5 DEF Typed
  <2> QED
    BY <1>3, <2>1, <2>2, <2>3
<1> QED
  BY <1>4, <1>5

LEMMA NextTyped ==
  ASSUME Typed, [Next]_vars
  PROVE  Typed'
<1>1. Held(a) /\ a.last \in Int
  BY DEF Typed, Held, Sound, Shaped
<1>2. Index \subseteq Int /\ 0 \in Int
  BY ObjectArrayAssumption DEF Index
<1>3. ASSUME NEW i \in Int, ArraySplice(i) PROVE Typed'
  <2>1. Held(Splice(a, i))
    BY <1>1, SpliceHeld
  <2> DEFINE r == IF CanSplice(a, i) THEN a.data[i] ELSE NULL
  <2>2. r \in Value \cup {NULL, Stray}
    <3>1. CanSplice(a, i) => a.data[i] = Get(a, i)
      BY <1>1 DEF CanSplice, Get, Held, Sound, Shaped
    <3> QED
      BY <1>1, <3>1 DEF Held
  <2>3. Becomes(Splice(a, i), r)
    BY <1>3 DEF ArraySplice
  <2> HIDE DEF r
  <2> QED
    BY <2>1, <2>2, <2>3, BecomesTyped
<1>4. ASSUME NEW i \in Int, NEW v \in Value, ArrayInsert(i, v) PROVE Typed'
  <2>1. Held(Insert(a, i, v))
    BY <1>1, <1>4, InsertHeld DEF ArrayInsert
  <2>2. Becomes(Insert(a, i, v), NULL)
    BY <1>4 DEF ArrayInsert
  <2> QED
    BY <2>1, <2>2, BecomesTyped
<1>5. ASSUME NEW i \in Index, ArrayGet(i) PROVE Typed'
  <2>1. PICK r \in IF Beyond(a, i) THEN {NULL, Stray} ELSE {Get(a, i)} : Becomes(a, r)
    BY <1>5 DEF ArrayGet
  <2>2. r \in Value \cup {NULL, Stray}
    BY <1>1, <1>2, <2>1 DEF Held
  <2> QED
    BY <1>1, <2>1, <2>2, BecomesTyped
<1>6. ASSUME NEW v \in Value, ArrayRemove(v) PROVE Typed'
  <2>1. Held(Unset(a, v)) /\ Becomes(Unset(a, v), NULL)
    BY <1>1, <1>6, RemoveHeld DEF ArrayRemove
  <2> QED
    BY <2>1, BecomesTyped
<1>7. ASSUME NEW v \in Value, ArrayPush(v) PROVE Typed'
  <2>1. a.last + 1 \in Int /\ a.last < MaxIndex
    BY <1>1, <1>7 DEF ArrayPush
  <2>2. Held(Push(a, v))
    BY <1>1, <2>1, InsertHeld DEF Push
  <2>3. Becomes(Push(a, v), NULL)
    BY <1>7 DEF ArrayPush
  <2> QED
    BY <2>2, <2>3, BecomesTyped
<1>8. ASSUME NEW i \in Index, NEW v \in Value, ArraySet(i, v) PROVE Typed'
  <2>1. Held(Set(a, i, v))
    BY <1>1, SetHeld
  <2> DEFINE r == IF CanSet(a, i, v) THEN v ELSE NULL
  <2>2. Becomes(Set(a, i, v), r) /\ r \in Value \cup {NULL, Stray}
    BY <1>8 DEF ArraySet
  <2> HIDE DEF r
  <2> QED
    BY <2>1, <2>2, BecomesTyped
<1>9. ASSUME UNCHANGED vars PROVE Typed'
  BY <1>9 DEF vars, Typed, Held, Sound, Shaped, Get
<1> QED
  BY <1>1, <1>2, <1>3, <1>4, <1>5, <1>6, <1>7, <1>8, <1>9, ForeachTyped
     DEF Next, ArrayUnshift, ArrayPop, ArrayShift

LEMMA InitTyped == Init => Typed
<1> SUFFICES ASSUME Init PROVE Typed
  OBVIOUS
<1>1. Sound(a)
  BY InitIInv DEF IInv
<1>2. a.last = -1 /\ -1 <= MaxIndex /\ MaxIndex \in Nat
  BY ObjectArrayAssumption DEF Init, NewArray
<1>3. \A j \in 0..a.last : Get(a, j) \in Value \cup {NULL}
  BY <1>2
<1>4. Held(a)
  BY <1>1, <1>2, <1>3, HeldToLast
<1> QED
  BY <1>2, <1>4 DEF Init, Typed

-----------------------------------------------------------------------------

(* A foreach (ArrayEventForeach, array.cpp) calls its function for every    *)
(* element that stays in its place while it goes on: for any number of      *)
(* loops over the array, of any size, whatever is called in between.        *)
THEOREM ForeachMeetsStayers == Spec => []StayersMet
<1>1. IInv => StayersMet
  BY DEF IInv, StayersAhead, StayersMet
<1> QED
  BY <1>1, InitIInv, NextIInv, PTL DEF Spec

(* Whatever is called in whatever order, writes fall within the array,      *)
(* nothing lies past m_last, and only objects lie before it; no loop gets   *)
(* to an index the array never had.                                         *)
THEOREM ArrayIsTyped == Spec => []TypeOK
<1>1. Typed => TypeOK
  <2> SUFFICES ASSUME Typed, NEW i \in DOMAIN a.data
               PROVE  a.data[i] \in Value \cup {NULL}
    BY DEF Typed, TypeOK, Held, Sound
  <2>1. i \in 0..(a.size - 1) /\ a.size \in Nat
    BY DEF Typed, Held, Sound, Shaped
  <2>2. Get(a, i) = a.data[i] /\ i \in Int
    BY <2>1 DEF Get
  <2> QED
    BY <2>2 DEF Typed, Held
<1> QED
  BY <1>1, InitTyped, NextTyped, PTL DEF Spec

(* Every array of a program is made without a maximum and with              *)
(* MOO_ABF_REPLACE (array.h:24, :75): its room is invisible.                *)
THEOREM ArrayImplementsList ==
  ASSUME MaxSize = 0, Replace
  PROVE  Spec => ImplementsList
<1>1. Init => L!Init
  <2> SUFFICES ASSUME Init PROVE L!Init
    OBVIOUS
  <2>1. a.last + 1 = 0 /\ ret = NULL
    BY DEF Init, NewArray
  <2>2. [i \in 1..(a.last + 1) |-> a.data[i - 1]] = <<>>
    BY <2>1
  <2> QED
    BY <2>1, <2>2 DEF L!Init
<1>2. IInv /\ [Next]_vars => [L!Next]_(L!vars)
  BY NextImplementsList
<1> QED
  BY <1>1, <1>2, InitIInv, NextIInv, PTL DEF Spec, ImplementsList, L!Spec

-----------------------------------------------------------------------------
(* Hashes                                                                   *)

-----------------------------------------------------------------------------
(* The table of a hash.                                                     *)

(* A sequence that holds everything in S, once.                             *)
Once(c) == \A i, j \in DOMAIN c : c[i] = c[j] => i = j
In(c, s) == \E i \in DOMAIN c : c[i] = s
Orders(c, S) == c \in Seq(S) /\ Once(c) /\ \A s \in S : In(c, s)

(* The entries in S, with the names they have in ent, are in the n chains   *)
(* of t: each in that of its name, once.                                    *)
SoundTable(t, n, ent, S) ==
  /\ n \in Nat /\ n >= 2
  /\ t = [b \in 0..(n - 1) |-> t[b]]
  /\ \A b \in 0..(n - 1) : t[b] \in Seq(S) /\ Once(t[b])
  /\ \A b \in 0..(n - 1) : \A i \in DOMAIN t[b] : Chain(ent[t[b][i]].key, n) = b
  /\ \A s \in S : ent[s].key \in Key /\ In(t[Chain(ent[s].key, n)], s)

LEMMA ChainIs ==
  ASSUME NEW k \in Key, NEW n \in Nat, n >= 1
  PROVE  Chain(k, n) \in 0..(n - 1)
<1>1. HashOf[k] \in Nat
  BY HashesAssumption DEF HashAssumption
<1> DEFINE h == HashOf[k]
<1> HIDE DEF h
<1>2. h % n \in 0..(n - 1)
  BY <1>1 DEF h
<1> QED
  BY <1>2 DEF Chain, h

(* How many chains there are.                                               *)
LEMMA SizeIs ==
  ASSUME NEW t, NEW n \in Nat, DOMAIN t = 0..(n - 1)
  PROVE  Cardinality(DOMAIN t) = n
<1>1. Cardinality(0..(n - 1)) = IF 0 > n - 1 THEN 0 ELSE (n - 1) - 0 + 1
  BY FS_Interval
<1> QED
  BY <1>1

LEMMA SoundEmpty ==
  ASSUME NEW n \in Nat, n >= 2, NEW ent
  PROVE  SoundTable([b \in 0..(n - 1) |-> <<>>], n, ent, {})
<1> DEFINE t == [b \in 0..(n - 1) |-> <<>>]
<1>1. <<>> \in Seq({}) /\ DOMAIN <<>> = {}
  OBVIOUS
<1>2. t = [b \in 0..(n - 1) |-> t[b]] /\ \A b \in 0..(n - 1) : t[b] = <<>>
  OBVIOUS
<1> HIDE DEF t
<1>3. SoundTable(t, n, ent, {})
  BY <1>1, <1>2 DEF SoundTable, Once
<1> QED
  BY <1>3 DEF t

(* Only the names of the entries matter.                                    *)
LEMMA SoundSame ==
  ASSUME NEW t, NEW n, NEW old, NEW new, NEW S, SoundTable(t, n, old, S),
         \A s \in S : new[s].key = old[s].key
  PROVE  SoundTable(t, n, new, S)
<1>1. \A b \in 0..(n - 1) : \A i \in DOMAIN t[b] : t[b][i] \in S
  <2> SUFFICES ASSUME NEW b \in 0..(n - 1), NEW i \in DOMAIN t[b]
               PROVE  t[b][i] \in S
    OBVIOUS
  <2>1. t[b] \in Seq(S)
    BY DEF SoundTable
  <2> QED
    BY <2>1, LenProperties, ElementOfSeq
<1> QED
  BY <1>1 DEF SoundTable

(* One more entry in front of the chain of its name.                        *)
LEMMA SoundInFront ==
  ASSUME NEW t, NEW n, NEW ent, NEW S, SoundTable(t, n, ent, S),
         NEW s, s \notin S, ent[s].key \in Key
  PROVE  SoundTable(InFront(t, s, Chain(ent[s].key, n)), n, ent, S \cup {s})
<1> DEFINE b == Chain(ent[s].key, n)
           c == t[b]
           d == <<s>> \o c
           u == InFront(t, s, b)
           T == S \cup {s}
<1>1. n \in Nat /\ n >= 2 /\ b \in 0..(n - 1)
  BY ChainIs DEF SoundTable
<1>2. c \in Seq(S) /\ Once(c) /\ DOMAIN c = 1..Len(c) /\ Len(c) \in Nat
  <2>1. c \in Seq(S) /\ Once(c)
    BY <1>1 DEF SoundTable
  <2> QED
    BY <2>1, LenProperties
<1>3. u = [home \in 0..(n - 1) |-> IF home = b THEN d ELSE t[home]]
  <2>1. u = [t EXCEPT ![b] = d]
    BY DEF InFront
  <2>2. t = [home \in 0..(n - 1) |-> t[home]]
    BY DEF SoundTable
  <2> HIDE DEF u, b, d
  <2> QED
    BY <1>1, <2>1, <2>2
<1> HIDE DEF c
<1>4. /\ d \in Seq(T) /\ Len(d) = Len(c) + 1 /\ DOMAIN d = 1..(Len(c) + 1)
      /\ d[1] = s
      /\ \A i \in 1..Len(c) : d[i + 1] = c[i]
  <2>1. <<s>> \in Seq(T) /\ Len(<<s>>) = 1 /\ <<s>>[1] = s
    OBVIOUS
  <2>2. c \in Seq(T)
    BY <1>2, SeqMonotonic
  <2>3. /\ d \in Seq(T) /\ Len(d) = Len(<<s>>) + Len(c)
        /\ \A i \in 1..(Len(<<s>>) + Len(c)) :
             d[i] = IF i <= Len(<<s>>) THEN <<s>>[i] ELSE c[i - Len(<<s>>)]
    BY <2>1, <2>2, ConcatProperties
  <2>4. DOMAIN d = 1..Len(d)
    BY <2>3, LenProperties
  <2> HIDE DEF d, T
  <2>5. \A i \in 1..(1 + Len(c)) : d[i] = IF i <= 1 THEN <<s>>[i] ELSE c[i - 1]
    BY <2>1, <2>3
  <2> QED
    BY <1>2, <2>1, <2>3, <2>4, <2>5
<1>5. \A i \in 1..Len(c) : c[i] \in S
  BY <1>2, ElementOfSeq
<1> HIDE DEF d
<1>6. \A i \in DOMAIN d : (i = 1 /\ d[i] = s) \/ (i - 1 \in 1..Len(c) /\ d[i] = c[i - 1])
  <2> SUFFICES ASSUME NEW i \in DOMAIN d
               PROVE  (i = 1 /\ d[i] = s) \/ (i - 1 \in 1..Len(c) /\ d[i] = c[i - 1])
    OBVIOUS
  <2>1. CASE i = 1
    BY <1>4, <2>1
  <2>2. CASE i # 1
    <3>1. i - 1 \in 1..Len(c) /\ (i - 1) + 1 = i
      BY <1>2, <1>4, <2>2
    <3> QED
      BY <1>4, <3>1
  <2> QED
    BY <2>1, <2>2
<1>7. Once(d)
  <2> SUFFICES ASSUME NEW i \in DOMAIN d, NEW j \in DOMAIN d, d[i] = d[j]
               PROVE  i = j
    BY DEF Once
  <2>1. i \in Int /\ j \in Int
    BY <1>4
  <2>2. CASE i = 1 /\ d[i] = s
    BY <1>5, <1>6, <2>2
  <2>3. CASE i - 1 \in 1..Len(c) /\ d[i] = c[i - 1]
    <3>1. j - 1 \in 1..Len(c) /\ d[j] = c[j - 1]
      BY <1>5, <1>6, <2>3
    <3>2. i - 1 = j - 1
      BY <1>2, <2>3, <3>1 DEF Once
    <3> QED
      BY <2>1, <3>2
  <2> QED
    BY <1>6, <2>2, <2>3
<1>8. /\ \A i \in DOMAIN d : Chain(ent[d[i]].key, n) = b
      /\ In(d, s) /\ \A x \in S : In(c, x) => In(d, x)
  <2>1. \A i \in 1..Len(c) : Chain(ent[c[i]].key, n) = b
    BY <1>1, <1>2 DEF SoundTable, c
  <2>2. In(d, s)
    <3>1. 1 \in DOMAIN d
      BY <1>2, <1>4
    <3> QED
      BY <1>4, <3>1 DEF In
  <2>3. ASSUME NEW x \in S, In(c, x) PROVE In(d, x)
    <3>1. PICK i \in 1..Len(c) : c[i] = x
      BY <1>2, <2>3 DEF In
    <3>2. i + 1 \in DOMAIN d /\ d[i + 1] = x
      BY <1>2, <1>4, <3>1
    <3> QED
      BY <3>2 DEF In
  <2> QED
    BY <1>6, <2>1, <2>2, <2>3
<1> HIDE DEF b, u
<1>9. /\ u = [home \in 0..(n - 1) |-> u[home]]
      /\ \A home \in 0..(n - 1) : u[home] = IF home = b THEN d ELSE t[home]
  BY <1>3
<1>10. \A home \in 0..(n - 1) : u[home] \in Seq(T) /\ Once(u[home])
  <2> SUFFICES ASSUME NEW home \in 0..(n - 1), home # b
               PROVE  t[home] \in Seq(T) /\ Once(t[home])
    BY <1>4, <1>7, <1>9
  <2>1. t[home] \in Seq(S) /\ Once(t[home])
    BY DEF SoundTable
  <2> QED
    BY <2>1, SeqMonotonic
<1>11. \A home \in 0..(n - 1) : \A i \in DOMAIN u[home] : Chain(ent[u[home][i]].key, n) = home
  BY <1>8, <1>9 DEF SoundTable
<1>12. \A x \in T : ent[x].key \in Key /\ In(u[Chain(ent[x].key, n)], x)
  <2> SUFFICES ASSUME NEW x \in T
               PROVE  ent[x].key \in Key /\ In(u[Chain(ent[x].key, n)], x)
    OBVIOUS
  <2>1. CASE x = s
    BY <1>1, <1>8, <1>9, <2>1 DEF b
  <2>2. CASE x \in S
    <3>1. ent[x].key \in Key /\ In(t[Chain(ent[x].key, n)], x)
      BY <2>2 DEF SoundTable
    <3>2. Chain(ent[x].key, n) \in 0..(n - 1)
      BY <1>1, <3>1, ChainIs
    <3> QED
      BY <1>8, <1>9, <2>2, <3>1, <3>2 DEF c
  <2> QED
    BY <2>1, <2>2
<1>13. SoundTable(u, n, ent, T)
  BY <1>1, <1>9, <1>10, <1>11, <1>12 DEF SoundTable
<1> QED
  BY <1>13 DEF u, b

-----------------------------------------------------------------------------
(* All of the table, one chain after another.                               *)

(* As many elements as places, if each is in one place.                     *)
LEMMA OrdersCount ==
  ASSUME NEW S, NEW c, Orders(c, S)
  PROVE  Len(c) = Cardinality(S)
<1>1. c \in Seq(S) /\ Len(c) \in Nat /\ c \in [1..Len(c) -> S] /\ DOMAIN c = 1..Len(c)
  <2>1. c \in Seq(S)
    BY DEF Orders
  <2> QED
    BY <2>1, LenProperties
<1>2. c \in Bijection(1..Len(c), S)
  BY <1>1 DEF Orders, Once, In, Bijection, Injection, Surjection, IsInjective
<1>3. ExistsBijection(1..Len(c), S)
  BY <1>2 DEF ExistsBijection
<1> QED
  BY <1>1, <1>3, FS_CountingElements

(* The chains of the first k of n, one after another.                       *)
Chains(t, n) == [b \in 1..n |-> t[b - 1]]
Flat(t, n, k, f) ==
  f = [i \in 1..k |-> IF i = 1 THEN Chains(t, n)[i] ELSE f[i - 1] \o Chains(t, n)[i]]

(* What the first k chains hold.                                            *)
Below(t, k) == UNION {{t[b][i] : i \in DOMAIN t[b]} : b \in 0..(k - 1)}

LEMMA FlatExists ==
  ASSUME NEW t, NEW n \in Nat, n >= 1
  PROVE  \E f : Flat(t, n, n, f)
<1> DEFINE Bad == {k \in 1..n : ~ \E f : Flat(t, n, k, f)}
<1> SUFFICES ASSUME Bad # {} PROVE FALSE
  <2>1. n \in 1..n
    OBVIOUS
  <2> QED
    BY <2>1
<1>1. PICK k \in Bad : \A j \in Bad : k <= j
  <2>1. Bad \subseteq Nat
    OBVIOUS
  <2> HIDE DEF Bad
  <2> QED
    BY <2>1, LeastExists
<1>2. k \in 1..n /\ ~ \E f : Flat(t, n, k, f)
  BY <1>1
<1>3. CASE k = 1
  <2> DEFINE f == [i \in {1} |-> Chains(t, n)[i]]
  <2>1. 1..k = {1}
    BY <1>3
  <2>2. Flat(t, n, k, f)
    BY <2>1 DEF Flat
  <2> QED
    BY <1>2, <2>2
<1>4. CASE k # 1
  <2>1. k - 1 \in 1..n /\ k - 1 \notin Bad
    BY <1>1, <1>2, <1>4
  <2>2. PICK f : Flat(t, n, k - 1, f)
    BY <2>1
  <2> DEFINE old == 1..(k - 1)
             c   == Chains(t, n)
             top == f[k - 1] \o c[k]
             g   == [i \in 1..k |-> IF i = k THEN top ELSE f[i]]
  <2>3. \A i \in old : f[i] = IF i = 1 THEN c[i] ELSE f[i - 1] \o c[i]
    BY <2>2 DEF Flat
  <2>4. 1..k = old \cup {k} /\ k \notin old /\ k - 1 \in old
    BY <1>2, <1>4
  <2>5. \A i \in old : i # 1 => i - 1 \in old
    BY <1>2
  <2> HIDE DEF old, top, c
  <2>6. \A i \in old : g[i] = f[i]
    BY <2>4
  <2>7. ASSUME NEW i \in 1..k
        PROVE  g[i] = IF i = 1 THEN c[i] ELSE g[i - 1] \o c[i]
    <3>1. CASE i = k
      BY <1>4, <2>4, <2>6, <3>1 DEF top
    <3>2. CASE i # k
      <4>1. i \in old
        BY <2>4, <3>2
      <4> HIDE DEF g
      <4> QED
        BY <2>3, <2>5, <2>6, <4>1
    <3> QED
      BY <3>1, <3>2
  <2>8. Flat(t, n, k, g)
    BY <2>7 DEF Flat, c
  <2> QED
    BY <1>2, <2>8
<1> QED
  BY <1>3, <1>4

LEMMA TraversalIs ==
  ASSUME NEW t, NEW n \in Nat, n >= 1, DOMAIN t = 0..(n - 1)
  PROVE  \E f : Flat(t, n, n, f) /\ Traversal(t) = f[n]
<1> DEFINE c == Chains(t, n)
           Unfolds(f) == f = [i \in 1..n |-> IF i = 1 THEN c[i] ELSE f[i - 1] \o c[i]]
           flat == CHOOSE f : Unfolds(f)
<1>1. PICK f : Flat(t, n, n, f)
  BY FlatExists
<1>2. Unfolds(f)
  BY <1>1 DEF Flat
<1>3. Unfolds(flat)
  <2> HIDE DEF Unfolds
  <2> QED
    BY <1>2
<1>4. Len(c) = n
  BY DEF Chains
<1>5. Cardinality(DOMAIN t) = n
  BY SizeIs
<1>6. Traversal(t) = FlattenSeq(c)
  BY <1>5 DEF Traversal, Chains
<1> HIDE DEF c
<1>7. FlattenSeq(c) = flat[n]
  BY <1>4 DEF FlattenSeq
<1>8. Flat(t, n, n, flat)
  <2> HIDE DEF flat
  <2> QED
    BY <1>3 DEF Flat, c
<1> QED
  BY <1>6, <1>7, <1>8

LEMMA ConcatIn ==
  ASSUME NEW S, NEW c \in Seq(S), NEW d \in Seq(S)
  PROVE  /\ c \o d \in Seq(S)
         /\ \A s : In(c \o d, s) <=> In(c, s) \/ In(d, s)
         /\ Once(c) /\ Once(d) /\ (\A s : ~ (In(c, s) /\ In(d, s))) => Once(c \o d)
<1> DEFINE e == c \o d
           m == Len(c)
           n == Len(d)
<1>1. m \in Nat /\ n \in Nat /\ DOMAIN c = 1..m /\ DOMAIN d = 1..n
  BY LenProperties
<1>2. /\ e \in Seq(S) /\ Len(e) = m + n
      /\ \A i \in 1..(m + n) : e[i] = IF i <= m THEN c[i] ELSE d[i - m]
  BY ConcatProperties
<1>3. DOMAIN e = 1..(m + n)
  BY <1>2, LenProperties
<1> HIDE DEF e, m, n
<1>4. \A i \in 1..m : i \in DOMAIN e /\ e[i] = c[i]
  BY <1>1, <1>2, <1>3
<1>5. \A i \in 1..n : i + m \in DOMAIN e /\ e[i + m] = d[i]
  <2> SUFFICES ASSUME NEW i \in 1..n
               PROVE  i + m \in DOMAIN e /\ e[i + m] = d[i]
    OBVIOUS
  <2>1. i + m \in 1..(m + n) /\ ~ (i + m <= m) /\ (i + m) - m = i
    BY <1>1
  <2> QED
    BY <1>2, <1>3, <2>1
<1>6. \A i \in DOMAIN e : \/ i \in 1..m /\ e[i] = c[i]
                          \/ i - m \in 1..n /\ e[i] = d[i - m]
  <2> SUFFICES ASSUME NEW i \in 1..(m + n)
               PROVE  \/ i \in 1..m /\ e[i] = c[i]
                      \/ i - m \in 1..n /\ e[i] = d[i - m]
    BY <1>3
  <2>1. CASE i <= m
    BY <1>1, <1>2, <2>1
  <2>2. CASE ~ (i <= m)
    BY <1>1, <1>2, <2>2
  <2> QED
    BY <2>1, <2>2
<1>7. ASSUME NEW s
      PROVE  In(e, s) <=> In(c, s) \/ In(d, s)
  <2>1. In(e, s) => In(c, s) \/ In(d, s)
    BY <1>1, <1>6 DEF In
  <2>2. In(c, s) => In(e, s)
    BY <1>1, <1>4 DEF In
  <2>3. In(d, s) => In(e, s)
    BY <1>1, <1>5 DEF In
  <2> QED
    BY <2>1, <2>2, <2>3
<1>8. ASSUME Once(c), Once(d), \A s : ~ (In(c, s) /\ In(d, s))
      PROVE  Once(e)
  <2> SUFFICES ASSUME NEW i \in DOMAIN e, NEW j \in DOMAIN e, e[i] = e[j]
               PROVE  i = j
    BY DEF Once
  <2>0. i \in Int /\ j \in Int
    BY <1>3
  <2>1. \A k \in 1..m : In(c, c[k])
    BY <1>1 DEF In
  <2>2. \A k \in 1..n : In(d, d[k])
    BY <1>1 DEF In
  <2>3. CASE i \in 1..m /\ e[i] = c[i]
    <3>1. j \in 1..m /\ e[j] = c[j]
      BY <1>6, <1>8, <2>1, <2>2, <2>3
    <3> QED
      BY <1>1, <1>8, <2>3, <3>1 DEF Once
  <2>4. CASE i - m \in 1..n /\ e[i] = d[i - m]
    <3>1. j - m \in 1..n /\ e[j] = d[j - m]
      BY <1>6, <1>8, <2>1, <2>2, <2>4
    <3>2. i - m = j - m
      BY <1>1, <1>8, <2>4, <3>1 DEF Once
    <3> QED
      BY <1>1, <2>0, <3>2
  <2> QED
    BY <1>6, <2>3, <2>4
<1> QED
  BY <1>2, <1>7, <1>8 DEF e

(* A traversal comes by every entry, once.                                  *)
LEMMA TraversalOrders ==
  ASSUME NEW t, NEW n, NEW ent, NEW S, SoundTable(t, n, ent, S)
  PROVE  Orders(Traversal(t), S)
<1>1. /\ n \in Nat /\ n >= 2 /\ DOMAIN t = 0..(n - 1)
      /\ \A b \in 0..(n - 1) : t[b] \in Seq(S) /\ Once(t[b])
  BY DEF SoundTable
<1>2. PICK f : Flat(t, n, n, f) /\ Traversal(t) = f[n]
  BY <1>1, TraversalIs
<1>3. \A k \in 1..n : f[k] = IF k = 1 THEN t[k - 1] ELSE f[k - 1] \o t[k - 1]
  BY <1>2 DEF Flat, Chains
<1>4. \A s : \A b \in 0..(n - 1) : In(t[b], s) => Chain(ent[s].key, n) = b
  BY DEF SoundTable, In
<1> DEFINE Good(k) == /\ f[k] \in Seq(S) /\ Once(f[k])
                      /\ \A s : In(f[k], s) <=> \E b \in 0..(k - 1) : In(t[b], s)
           Bad == {k \in 1..n : ~ Good(k)}
<1>5. Bad = {}
  <2> SUFFICES ASSUME Bad # {} PROVE FALSE
    OBVIOUS
  <2>1. PICK k \in Bad : \A j \in Bad : k <= j
    <3>1. Bad \subseteq Nat
      BY <1>1
    <3> HIDE DEF Bad
    <3> QED
      BY <3>1, LeastExists
  <2>2. k \in 1..n /\ ~ Good(k)
    BY <2>1
  <2>3. CASE k = 1
    <3>1. f[1] = t[0] /\ 0..(1 - 1) = {0} /\ 0 \in 0..(n - 1)
      <4>1. 1 \in 1..n /\ 1 - 1 = 0 /\ 0 \in 0..(n - 1)
        BY <1>1
      <4>2. f[1] = t[1 - 1]
        BY <1>3, <4>1
      <4> QED
        BY <4>1, <4>2
    <3>2. Good(1)
      <4>1. t[0] \in Seq(S) /\ Once(t[0])
        BY <1>1, <3>1
      <4>2. \A s : In(t[0], s) <=> \E b \in {0} : In(t[b], s)
        OBVIOUS
      <4>3. \A s : In(f[1], s) <=> \E b \in 0..(1 - 1) : In(t[b], s)
        BY <3>1, <4>2
      <4> QED
        BY <3>1, <4>1, <4>3
    <3> HIDE DEF Good
    <3> QED
      BY <2>2, <2>3, <3>2
  <2>4. CASE k # 1
    <3>1. k - 1 \in 1..n /\ ~ (k <= k - 1) /\ k - 1 \in 0..(n - 1)
      BY <1>1, <2>2, <2>4
    <3>2. Good(k - 1)
      <4> HIDE DEF Good
      <4> QED
        BY <2>1, <3>1
    <3>3. f[k] = f[k - 1] \o t[k - 1]
      BY <1>3, <2>2, <2>4
    <3> DEFINE c == f[k - 1]
               d == t[k - 1]
    <3>4. /\ c \in Seq(S) /\ Once(c) /\ d \in Seq(S) /\ Once(d)
          /\ \A s : In(c, s) <=> \E b \in 0..((k - 1) - 1) : In(t[b], s)
      BY <1>1, <3>1, <3>2
    <3>5. \A b \in 0..((k - 1) - 1) : b \in 0..(n - 1) /\ b # k - 1
      BY <1>1, <2>2
    <3> HIDE DEF c, d
    <3>6. \A s : ~ (In(c, s) /\ In(d, s))
      BY <1>4, <3>1, <3>4, <3>5 DEF d
    <3>7. /\ f[k] \in Seq(S) /\ Once(f[k])
          /\ \A s : In(f[k], s) <=> In(c, s) \/ In(d, s)
      <4>1. f[k] = c \o d
        BY <3>3 DEF c, d
      <4> QED
        BY <3>4, <3>6, <4>1, ConcatIn
    <3>8. 0..(k - 1) = 0..((k - 1) - 1) \cup {k - 1}
      BY <2>2, <3>1
    <3>9. Good(k)
      BY <3>4, <3>7, <3>8 DEF d
    <3> HIDE DEF Good
    <3> QED
      BY <2>2, <3>9
  <2> QED
    BY <2>3, <2>4
<1>6. Good(n)
  <2>1. n \in 1..n
    BY <1>1
  <2> HIDE DEF Good
  <2> QED
    BY <1>5, <2>1
<1>7. \A s \in S : In(f[n], s)
  <2> SUFFICES ASSUME NEW s \in S
               PROVE  \E b \in 0..(n - 1) : In(t[b], s)
    BY <1>6
  <2>1. ent[s].key \in Key /\ In(t[Chain(ent[s].key, n)], s)
    BY DEF SoundTable
  <2>2. Chain(ent[s].key, n) \in 0..(n - 1)
    BY <1>1, <2>1, ChainIs
  <2> QED
    BY <2>1, <2>2
<1> QED
  BY <1>2, <1>6, <1>7 DEF Orders

-----------------------------------------------------------------------------
(* Filling a table in the order of a traversal.                             *)

First1(c, k) == {c[i] : i \in 1..k}

LEMMA OrdersGrow ==
  ASSUME NEW S, NEW c, Orders(c, S)
  PROVE  /\ Len(c) \in Nat
         /\ First1(c, 0) = {} /\ First1(c, Len(c)) = S
         /\ \A k \in 1..Len(c) : /\ c[k] \in S
                                 /\ c[k] \notin First1(c, k - 1)
                                 /\ First1(c, k) = First1(c, k - 1) \cup {c[k]}
<1>1. c \in Seq(S) /\ Len(c) \in Nat /\ DOMAIN c = 1..Len(c) /\ Once(c) /\ \A s \in S : In(c, s)
  <2>1. c \in Seq(S) /\ Once(c) /\ \A s \in S : In(c, s)
    BY DEF Orders
  <2> QED
    BY <2>1, LenProperties
<1>2. \A k \in 1..Len(c) : c[k] \in S
  BY <1>1, ElementOfSeq
<1>3. First1(c, 0) = {} /\ First1(c, Len(c)) = S
  BY <1>1, <1>2 DEF First1, In
<1>4. ASSUME NEW k \in 1..Len(c)
      PROVE  /\ c[k] \notin First1(c, k - 1)
             /\ First1(c, k) = First1(c, k - 1) \cup {c[k]}
  <2>1. 1..k = 1..(k - 1) \cup {k} /\ k \notin 1..(k - 1)
    BY <1>1
  <2>2. \A i \in 1..(k - 1) : i \in 1..Len(c)
    BY <1>1
  <2>3. c[k] \notin First1(c, k - 1)
    BY <1>1, <2>1, <2>2 DEF First1, Once
  <2>4. First1(c, k) = First1(c, k - 1) \cup {c[k]}
    BY <2>1 DEF First1
  <2> QED
    BY <2>3, <2>4
<1> QED
  BY <1>1, <1>2, <1>3, <1>4

(* One after another, in front of their new chains.                         *)
Moves(c, ent, n, k, f) ==
  f = [i \in 0..k |->
         IF i = 0 THEN [b \in 0..(n - 1) |-> <<>>]
         ELSE InFront(f[i - 1], c[i], Chain(ent[c[i]].key, n))]

LEMMA MovesExist ==
  ASSUME NEW c, NEW ent, NEW n, NEW m \in Nat
  PROVE  \E f : Moves(c, ent, n, m, f)
<1> DEFINE Bad == {k \in 0..m : ~ \E f : Moves(c, ent, n, k, f)}
           none == [b \in 0..(n - 1) |-> <<>>]
<1> SUFFICES ASSUME Bad # {} PROVE FALSE
  <2>1. m \in 0..m
    OBVIOUS
  <2> QED
    BY <2>1
<1>1. PICK k \in Bad : \A j \in Bad : k <= j
  <2>1. Bad \subseteq Nat
    OBVIOUS
  <2> HIDE DEF Bad
  <2> QED
    BY <2>1, LeastExists
<1>2. k \in 0..m /\ ~ \E f : Moves(c, ent, n, k, f)
  BY <1>1
<1>3. CASE k = 0
  <2> DEFINE f == [i \in {0} |-> none]
  <2>1. 0..k = {0}
    BY <1>3
  <2>2. Moves(c, ent, n, k, f)
    BY <2>1 DEF Moves
  <2> QED
    BY <1>2, <2>2
<1>4. CASE k # 0
  <2>1. k - 1 \in 0..m /\ k - 1 \notin Bad
    BY <1>1, <1>2, <1>4
  <2>2. PICK f : Moves(c, ent, n, k - 1, f)
    BY <2>1
  <2> DEFINE old == 0..(k - 1)
             top == InFront(f[k - 1], c[k], Chain(ent[c[k]].key, n))
             g   == [i \in 0..k |-> IF i = k THEN top ELSE f[i]]
  <2>3. \A i \in old : f[i] = IF i = 0 THEN none
                              ELSE InFront(f[i - 1], c[i], Chain(ent[c[i]].key, n))
    BY <2>2 DEF Moves
  <2>4. 0..k = old \cup {k} /\ k \notin old /\ k - 1 \in old
    BY <1>2, <1>4
  <2>5. \A i \in old : i # 0 => i - 1 \in old
    BY <1>2
  <2> HIDE DEF old, top, none
  <2>6. \A i \in old : g[i] = f[i]
    BY <2>4
  <2>7. ASSUME NEW i \in 0..k
        PROVE  g[i] = IF i = 0 THEN none
                      ELSE InFront(g[i - 1], c[i], Chain(ent[c[i]].key, n))
    <3>1. CASE i = k
      BY <1>4, <2>4, <2>6, <3>1 DEF top
    <3>2. CASE i # k
      <4>1. i \in old
        BY <2>4, <3>2
      <4> HIDE DEF g
      <4> QED
        BY <2>3, <2>5, <2>6, <4>1
    <3> QED
      BY <3>1, <3>2
  <2>8. Moves(c, ent, n, k, g)
    BY <2>7 DEF Moves, none
  <2> QED
    BY <1>2, <2>8
<1> QED
  BY <1>3, <1>4

LEMMA RehashedIs ==
  ASSUME NEW t, NEW ent, NEW n, Len(Traversal(t)) \in Nat
  PROVE  \E f : /\ Moves(Traversal(t), ent, n, Len(Traversal(t)), f)
                /\ Rehashed(t, ent, n) = f[Len(Traversal(t))]
<1> DEFINE c == Traversal(t)
           m == Len(c)
           Unfolds(f) ==
             f = [i \in 0..m |->
                    IF i = 0 THEN [b \in 0..(n - 1) |-> <<>>]
                    ELSE InFront(f[i - 1], c[i], Chain(ent[c[i]].key, n))]
           moved == CHOOSE f : Unfolds(f)
<1>1. PICK f : Moves(c, ent, n, m, f)
  BY MovesExist
<1>2. Unfolds(f)
  BY <1>1 DEF Moves
<1>3. Unfolds(moved)
  <2> HIDE DEF Unfolds
  <2> QED
    BY <1>2
<1>4. Rehashed(t, ent, n) = moved[m]
  BY DEF Rehashed
<1>5. Moves(c, ent, n, m, moved)
  <2> HIDE DEF moved
  <2> QED
    BY <1>3 DEF Moves
<1> QED
  BY <1>4, <1>5

(* After rehash() the same entries are in the new chains.                   *)
LEMMA SoundRehashed ==
  ASSUME NEW t, NEW n, NEW ent, NEW S, SoundTable(t, n, ent, S), NEW m \in Nat, m >= 2
  PROVE  SoundTable(Rehashed(t, ent, m), m, ent, S)
<1> DEFINE c == Traversal(t)
           k == Len(c)
<1>1. Orders(c, S)
  BY TraversalOrders
<1> HIDE DEF c
<1>2. /\ k \in Nat /\ First1(c, 0) = {} /\ First1(c, k) = S
      /\ \A i \in 1..k : /\ c[i] \in S
                         /\ c[i] \notin First1(c, i - 1)
                         /\ First1(c, i) = First1(c, i - 1) \cup {c[i]}
  BY <1>1, OrdersGrow
<1>3. PICK f : Moves(c, ent, m, k, f) /\ Rehashed(t, ent, m) = f[k]
  BY <1>2, RehashedIs DEF c
<1> HIDE DEF k
<1>4. f[0] = [b \in 0..(m - 1) |-> <<>>]
  BY <1>2, <1>3 DEF Moves
<1>5. \A i \in 1..k : f[i] = InFront(f[i - 1], c[i], Chain(ent[c[i]].key, m))
  <2> SUFFICES ASSUME NEW i \in 1..k
               PROVE  f[i] = InFront(f[i - 1], c[i], Chain(ent[c[i]].key, m))
    OBVIOUS
  <2>1. i \in 0..k /\ i # 0
    BY <1>2
  <2> QED
    BY <1>3, <2>1 DEF Moves
<1>6. \A s \in S : ent[s].key \in Key
  BY DEF SoundTable
<1> DEFINE Good(i) == SoundTable(f[i], m, ent, First1(c, i))
           Bad == {i \in 0..k : ~ Good(i)}
<1>7. Bad = {}
  <2> SUFFICES ASSUME Bad # {} PROVE FALSE
    OBVIOUS
  <2>1. PICK i \in Bad : \A j \in Bad : i <= j
    <3>1. Bad \subseteq Nat
      BY <1>2
    <3> HIDE DEF Bad
    <3> QED
      BY <3>1, LeastExists
  <2>2. i \in 0..k /\ ~ Good(i)
    BY <2>1
  <2>3. CASE i = 0
    <3>1. SoundTable([b \in 0..(m - 1) |-> <<>>], m, ent, {})
      BY SoundEmpty
    <3>2. SoundTable(f[0], m, ent, First1(c, 0))
      BY <1>2, <1>4, <3>1
    <3> QED
      BY <2>2, <2>3, <3>2
  <2>4. CASE i # 0
    <3>1. i \in 1..k /\ i - 1 \in 0..k /\ ~ (i <= i - 1)
      BY <1>2, <2>2, <2>4
    <3>2. Good(i - 1)
      <4> HIDE DEF Good
      <4> QED
        BY <2>1, <3>1
    <3>3. Good(i)
      <4>1. ent[c[i]].key \in Key /\ c[i] \notin First1(c, i - 1)
        BY <1>2, <1>6, <3>1
      <4>2. SoundTable(f[i - 1], m, ent, First1(c, i - 1))
        BY <3>2
      <4>3. SoundTable(InFront(f[i - 1], c[i], Chain(ent[c[i]].key, m)), m, ent,
                       First1(c, i - 1) \cup {c[i]})
        BY <4>1, <4>2, SoundInFront
      <4> QED
        BY <1>2, <1>5, <3>1, <4>3
    <3> QED
      BY <2>2, <3>3
  <2> QED
    BY <2>3, <2>4
<1>8. Good(k)
  <2>1. k \in 0..k
    BY <1>2
  <2> HIDE DEF Good
  <2> QED
    BY <1>7, <2>1
<1> QED
  BY <1>2, <1>3, <1>8

(* A table that has as many entries as chains grows, and is then larger.    *)
LEMMA GrowsEnough ==
  ASSUME NEW n \in Nat, n >= 2, NEW count \in Nat, count <= n
  PROVE  /\ Grown(n) \in Nat /\ Grown(n) >= 2 /\ count < Grown(n)
         /\ ~ Grows(count, n) => count < n
<1>1. Grown(n) \in Nat /\ Grown(n) > n
  BY DEF Grown
<1>2. ASSUME count = n PROVE Grows(count, n)
  <2>1. n \div n = 1
    OBVIOUS
  <2> QED
    BY <1>2, <2>1 DEF Grows
<1> QED
  BY <1>1, <1>2

(* set() of a new name: the entry is in the chain of its name, and the table*)
(* has room for another.                                                    *)
Holds(t, ent, S) == \E n : SoundTable(t, n, ent, S) /\ Cardinality(S) < n

LEMMA PrependedHolds ==
  ASSUME NEW t, NEW ent, NEW S, IsFiniteSet(S), NEW s, s \notin S,
         DOMAIN ent = S \cup {s}, ent[s].key \in Key, Holds(t, ent, S)
  PROVE  Holds(Prepended(t, ent, s), ent, S \cup {s})
<1>1. PICK n : SoundTable(t, n, ent, S) /\ Cardinality(S) < n
  BY DEF Holds
<1>2. n \in Nat /\ n >= 2 /\ Cardinality(DOMAIN t) = n
  <2>1. n \in Nat /\ n >= 2 /\ DOMAIN t = 0..(n - 1)
    BY <1>1 DEF SoundTable
  <2> QED
    BY <2>1, SizeIs
<1> DEFINE u == InFront(t, s, Chain(ent[s].key, n))
           T == S \cup {s}
<1>3. SoundTable(u, n, ent, T)
  BY <1>1, SoundInFront
<1>4. Cardinality(T) \in Nat /\ Cardinality(T) <= n
  <2>1. Cardinality(S) \in Nat /\ Cardinality(T) = Cardinality(S) + 1
    BY FS_AddElement, FS_CardinalityType
  <2> QED
    BY <1>1, <1>2, <2>1
<1> DEFINE count == Cardinality(T)
<1>5. Prepended(t, ent, s) = IF Grows(count, n) THEN Rehashed(u, ent, Grown(n)) ELSE u
  BY <1>2 DEF Prepended
<1> HIDE DEF u, T
<1>6. /\ Grown(n) \in Nat /\ Grown(n) >= 2 /\ count < Grown(n)
      /\ ~ Grows(count, n) => count < n
  BY <1>2, <1>4, GrowsEnough
<1>7. CASE Grows(count, n)
  <2>1. SoundTable(Rehashed(u, ent, Grown(n)), Grown(n), ent, T)
    BY <1>3, <1>6, SoundRehashed
  <2>2. Holds(Prepended(t, ent, s), ent, T)
    BY <1>5, <1>6, <1>7, <2>1 DEF Holds
  <2> QED
    BY <2>2 DEF T
<1>8. CASE ~ Grows(count, n)
  <2>1. Holds(Prepended(t, ent, s), ent, T)
    BY <1>3, <1>5, <1>6, <1>8 DEF Holds
  <2> QED
    BY <2>1 DEF T
<1> QED
  BY <1>7, <1>8

(* Reload fills a table with the entries c one after another.               *)
Read(c, ent, k) == [s \in First1(c, k) |-> ent[s]]

Fills(c, ent, k, f) ==
  f = [i \in 0..k |->
         IF i = 0 THEN Empty ELSE Prepended(f[i - 1], Read(c, ent, i), c[i])]

LEMMA FillsExist ==
  ASSUME NEW c, NEW ent, NEW m \in Nat
  PROVE  \E f : Fills(c, ent, m, f)
<1> DEFINE Bad == {k \in 0..m : ~ \E f : Fills(c, ent, k, f)}
<1> SUFFICES ASSUME Bad # {} PROVE FALSE
  <2>1. m \in 0..m
    OBVIOUS
  <2> QED
    BY <2>1
<1>1. PICK k \in Bad : \A j \in Bad : k <= j
  <2>1. Bad \subseteq Nat
    OBVIOUS
  <2> HIDE DEF Bad
  <2> QED
    BY <2>1, LeastExists
<1>2. k \in 0..m /\ ~ \E f : Fills(c, ent, k, f)
  BY <1>1
<1>3. CASE k = 0
  <2> DEFINE f == [i \in {0} |-> Empty]
  <2>1. 0..k = {0}
    BY <1>3
  <2>2. Fills(c, ent, k, f)
    BY <2>1 DEF Fills
  <2> QED
    BY <1>2, <2>2
<1>4. CASE k # 0
  <2>1. k - 1 \in 0..m /\ k - 1 \notin Bad
    BY <1>1, <1>2, <1>4
  <2>2. PICK f : Fills(c, ent, k - 1, f)
    BY <2>1
  <2> DEFINE old == 0..(k - 1)
             top == Prepended(f[k - 1], Read(c, ent, k), c[k])
             g   == [i \in 0..k |-> IF i = k THEN top ELSE f[i]]
  <2>3. \A i \in old : f[i] = IF i = 0 THEN Empty
                              ELSE Prepended(f[i - 1], Read(c, ent, i), c[i])
    BY <2>2 DEF Fills
  <2>4. 0..k = old \cup {k} /\ k \notin old /\ k - 1 \in old
    BY <1>2, <1>4
  <2>5. \A i \in old : i # 0 => i - 1 \in old
    BY <1>2
  <2> HIDE DEF old, top
  <2>6. \A i \in old : g[i] = f[i]
    BY <2>4
  <2>7. ASSUME NEW i \in 0..k
        PROVE  g[i] = IF i = 0 THEN Empty
                      ELSE Prepended(g[i - 1], Read(c, ent, i), c[i])
    <3>1. CASE i = k
      BY <1>4, <2>4, <2>6, <3>1 DEF top
    <3>2. CASE i # k
      <4>1. i \in old
        BY <2>4, <3>2
      <4> HIDE DEF g
      <4> QED
        BY <2>3, <2>5, <2>6, <4>1
    <3> QED
      BY <3>1, <3>2
  <2>8. Fills(c, ent, k, g)
    BY <2>7 DEF Fills
  <2> QED
    BY <1>2, <2>8
<1> QED
  BY <1>3, <1>4

(* Filled so, a table holds what c does.                                    *)
LEMMA FilledHolds ==
  ASSUME NEW S, IsFiniteSet(S), NEW c, Orders(c, S), NEW ent,
         \A s \in S : ent[s].key \in Key,
         NEW f, Fills(c, ent, Len(c), f)
  PROVE  Holds(f[Len(c)], ent, S)
<1> DEFINE k == Len(c)
<1>1. /\ k \in Nat /\ First1(c, 0) = {} /\ First1(c, k) = S
      /\ \A i \in 1..k : /\ c[i] \in S
                         /\ c[i] \notin First1(c, i - 1)
                         /\ First1(c, i) = First1(c, i - 1) \cup {c[i]}
  BY OrdersGrow
<1> HIDE DEF k
<1>2. \A i \in 0..k : f[i] = IF i = 0 THEN Empty
                             ELSE Prepended(f[i - 1], Read(c, ent, i), c[i])
  BY DEF Fills, k
<1>3. Holds(f[0], ent, First1(c, 0))
  <2>1. HashStart \in Nat /\ HashStart >= 2
    BY HashesAssumption DEF HashAssumption
  <2>2. SoundTable(Empty, HashStart, ent, {})
    BY <2>1, SoundEmpty DEF Empty
  <2>3. Cardinality({}) = 0
    BY FS_EmptySet
  <2>4. f[0] = Empty
    BY <1>1, <1>2
  <2>5. Cardinality({}) < HashStart
    BY <2>1, <2>3
  <2>6. Holds(Empty, ent, {})
    BY <2>1, <2>2, <2>5 DEF Holds
  <2> QED
    BY <1>1, <2>4, <2>6
<1> DEFINE Good(i) == Holds(f[i], ent, First1(c, i))
           Bad == {i \in 0..k : ~ Good(i)}
<1>4. Bad = {}
  <2> SUFFICES ASSUME Bad # {} PROVE FALSE
    OBVIOUS
  <2>1. PICK i \in Bad : \A j \in Bad : i <= j
    <3>1. Bad \subseteq Nat
      BY <1>1
    <3> HIDE DEF Bad
    <3> QED
      BY <3>1, LeastExists
  <2>2. i \in 0..k /\ ~ Good(i)
    BY <2>1
  <2>3. i # 0
    <3> HIDE DEF Good
    <3>1. Good(0)
      BY <1>3 DEF Good
    <3> QED
      BY <2>2, <3>1
  <2>4. i \in 1..k /\ i - 1 \in 0..k /\ ~ (i <= i - 1)
    BY <1>1, <2>2, <2>3
  <2>5. Good(i - 1)
    <3> HIDE DEF Good
    <3> QED
      BY <2>1, <2>4
  <2> DEFINE F == First1(c, i - 1)
             G == First1(c, i)
             read == Read(c, ent, i)
  <2>6. /\ c[i] \in S /\ c[i] \notin F /\ G = F \cup {c[i]}
    BY <1>1, <2>4
  <2>7. F \subseteq S /\ IsFiniteSet(F)
    <3>1. \A j \in 1..(i - 1) : c[j] \in S
      BY <1>1, <2>4
    <3>2. F \subseteq S
      BY <3>1 DEF First1
    <3> HIDE DEF F
    <3> QED
      BY <3>2, FS_Subset
  <2>8. DOMAIN read = G /\ \A s \in G : read[s] = ent[s]
    BY DEF Read
  <2>9. f[i] = Prepended(f[i - 1], read, c[i])
    BY <1>2, <2>3, <2>2
  <2> HIDE DEF F, G, read
  <2>10. PICK n : SoundTable(f[i - 1], n, ent, F) /\ Cardinality(F) < n
    BY <2>5 DEF Holds, F
  <2>11. SoundTable(f[i - 1], n, read, F)
    BY <2>6, <2>8, <2>10, SoundSame
  <2>12. Holds(f[i - 1], read, F)
    BY <2>10, <2>11 DEF Holds
  <2>13. read[c[i]].key \in Key
    BY <2>6, <2>8
  <2>14. Holds(f[i], read, F \cup {c[i]})
    BY <2>6, <2>7, <2>8, <2>9, <2>12, <2>13, PrependedHolds
  <2>15. PICK m : SoundTable(f[i], m, read, G) /\ Cardinality(G) < m
    BY <2>6, <2>14 DEF Holds
  <2>16. SoundTable(f[i], m, ent, G)
    BY <2>8, <2>15, SoundSame
  <2>17. Good(i)
    BY <2>15, <2>16 DEF Holds, G
  <2> QED
    BY <2>2, <2>17
<1>5. Good(k)
  <2>1. k \in 0..k
    BY <1>1
  <2> HIDE DEF Good
  <2> QED
    BY <1>4, <2>1
<1> QED
  BY <1>1, <1>5 DEF k

LEMMA ReloadHolds ==
  ASSUME IsFiniteSet(Live), Holds(table, entry, Live), Reload
  PROVE  Holds(table', entry, Live)
<1> DEFINE c == Traversal(table)
           k == Len(c)
           read(n) == [s \in {c[i] : i \in 1..n} |-> entry[s]]
           Unfolds(f) ==
             f = [n \in 0..k |->
                    IF n = 0 THEN Empty ELSE Prepended(f[n - 1], read(n), c[n])]
           filled == CHOOSE f : Unfolds(f)
<1>1. PICK n : SoundTable(table, n, entry, Live)
  BY DEF Holds
<1>2. Orders(c, Live) /\ \A s \in Live : entry[s].key \in Key
  BY <1>1, TraversalOrders DEF SoundTable
<1>3. k \in Nat
  BY <1>2, OrdersGrow
<1>4. table' = filled[k]
  BY DEF Reload
<1> HIDE DEF c
<1>5. PICK f : Fills(c, entry, k, f)
  BY <1>3, FillsExist
<1>6. Unfolds(f)
  BY <1>5 DEF Fills, Read, First1
<1>7. Unfolds(filled)
  <2> HIDE DEF Unfolds
  <2> QED
    BY <1>6
<1>8. Fills(c, entry, k, filled)
  <2> HIDE DEF filled
  <2> QED
    BY <1>7 DEF Fills, Read, First1
<1> HIDE DEF filled
<1> QED
  BY <1>2, <1>4, <1>8, FilledHolds

-----------------------------------------------------------------------------
(* The invariant                                                            *)

(* What is allocated: a name has one entry, and they are counted.           *)
Kept ==
  /\ Live \subseteq Slot /\ IsFiniteSet(Live)
  /\ entry = [s \in Live |-> entry[s]]
  /\ \A s \in Live : entry[s] \in [key : Key, data : Data]
  /\ \A s, t \in Live : entry[s].key = entry[t].key => s = t
  /\ entries = Cardinality(Live)

(* Where it is: every entry is in the chain of its name; until memory that  *)
(* was given back is in use, nothing else is in any chain.                  *)
Placed ==
  /\ Size \in Nat /\ Size >= 2 /\ entries < Size
  /\ table = [b \in 0..(Size - 1) |-> table[b]]
  /\ \A b \in 0..(Size - 1) : table[b] \in Seq(Slot) /\ Once(table[b])
  /\ \A s \in Live : In(table[Chain(entry[s].key, Size)], s)
  /\ wild \in BOOLEAN
  /\ ~ wild => SoundTable(table, Size, entry, Live)

HoldsIsPlaced == Kept /\ Holds(table, entry, Live) /\ wild \in BOOLEAN => Placed

LEMMA HoldsPlaced == HoldsIsPlaced
<1> SUFFICES ASSUME Kept, Holds(table, entry, Live), wild \in BOOLEAN
             PROVE  Placed
  BY DEF HoldsIsPlaced
<1>1. PICK n : SoundTable(table, n, entry, Live) /\ Cardinality(Live) < n
  BY DEF Holds
<1>2. n \in Nat /\ n >= 2 /\ DOMAIN table = 0..(n - 1)
  BY <1>1 DEF SoundTable
<1>3. Size = n
  BY <1>2, SizeIs DEF Size
<1>4. /\ table = [b \in 0..(n - 1) |-> table[b]]
      /\ \A s \in Live : In(table[Chain(entry[s].key, n)], s)
  BY <1>1 DEF SoundTable
<1>5. \A b \in 0..(n - 1) : table[b] \in Seq(Slot) /\ Once(table[b])
  <2> SUFFICES ASSUME NEW b \in 0..(n - 1)
               PROVE  table[b] \in Seq(Slot) /\ Once(table[b])
    OBVIOUS
  <2>1. table[b] \in Seq(Live) /\ Once(table[b])
    BY <1>1 DEF SoundTable
  <2>2. Live \subseteq Slot
    BY DEF Kept
  <2> QED
    BY <2>1, <2>2, SeqMonotonic
<1>6. entries < n
  BY <1>1 DEF Kept
<1> QED
  BY <1>1, <1>2, <1>3, <1>4, <1>5, <1>6 DEF Placed

LEMMA HoldsPlacedNext == HoldsIsPlaced'
BY HoldsPlaced, PTL

LEMMA PlacedHolds ==
  ASSUME Kept, Placed, ~ wild
  PROVE  Holds(table, entry, Live)
BY DEF Kept, Placed, Holds

(* get_entry() finds the entry of a name in its chain, or there is none.    *)
FindsEntries ==
  /\ \A s \in Live : /\ Entries(entry[s].key) = {s}
                    /\ Lookup(entry[s].key) = entry[s].data
                    /\ entry[s].key \in Key /\ entry[s].data \in Data
  /\ \A k \in Key : \/ \E s \in Live : entry[s].key = k /\ Entries(k) = {s}
                   \/ /\ \A s \in Live : entry[s].key # k
                      /\ Entries(k) = {} /\ Lookup(k) = None

LEMMA EntriesAre == Kept /\ Placed => FindsEntries
<1> SUFFICES ASSUME Kept, Placed PROVE FindsEntries
  OBVIOUS
<1>1. \A s \in Live : entry[s].key \in Key /\ entry[s].data \in Data
  BY DEF Kept
<1>2. ASSUME NEW s \in Live
      PROVE  Entries(entry[s].key) = {s}
  <2>1. In(table[Chain(entry[s].key, Size)], s)
    BY DEF Placed
  <2>2. s \in ToSet(table[Chain(entry[s].key, Size)])
    BY <2>1 DEF In, ToSet
  <2> QED
    BY <2>2 DEF Entries, Kept
<1>3. \A s \in Live : Lookup(entry[s].key) = entry[s].data
  <2> SUFFICES ASSUME NEW s \in Live
               PROVE  Lookup(entry[s].key) = entry[s].data
    OBVIOUS
  <2>1. Entries(entry[s].key) = {s} /\ {s} # {}
    BY <1>2
  <2>2. (CHOOSE t \in {s} : TRUE) = s
    OBVIOUS
  <2> QED
    BY <2>1, <2>2 DEF Lookup
<1>4. \A k \in Key : (\A s \in Live : entry[s].key # k) => Entries(k) = {} /\ Lookup(k) = None
  BY DEF Entries, Lookup
<1> QED
  BY <1>1, <1>2, <1>3, <1>4 DEF FindsEntries

LEMMA EntriesAreNext == Kept' /\ Placed' => FindsEntries'
BY EntriesAre, PTL

LEMMA SameHash ==
  ASSUME Kept, Placed, UNCHANGED hash, wild' \in BOOLEAN, wild' \/ ~ wild
  PROVE  Kept' /\ Placed'
<1>1. table' = table /\ entry' = entry /\ entries' = entries
  BY DEF hash
<1>2. Live' = Live /\ Size' = Size
  BY <1>1 DEF Live, Size
<1>3. Kept'
  BY <1>1, <1>2 DEF Kept
<1>4. Placed'
  BY <1>1, <1>2 DEF Placed
<1> QED
  BY <1>3, <1>4

LEMMA ReplaceKept ==
  ASSUME Kept, Placed, ~ wild, NEW k \in Key, NEW v \in Data, HashReplace(k, v)
  PROVE  /\ Kept' /\ Placed' /\ Live' = Live
         /\ \A s \in Live : /\ entry'[s].key = entry[s].key
                            /\ entry'[s].data = IF entry[s].key = k THEN v ELSE entry[s].data
<1>1. /\ entry' = [s \in Live |-> IF s \in Entries(k) THEN [entry[s] EXCEPT !.data = v] ELSE entry[s]]
      /\ table' = table /\ entries' = entries /\ wild' = wild
  BY DEF HashReplace
<1>2. Live' = Live /\ Size' = Size
  <2>1. DOMAIN entry' = Live
    BY <1>1
  <2> QED
    BY <1>1, <2>1 DEF Live, Size
<1>3. \A s \in Live : s \in Entries(k) <=> entry[s].key = k
  BY EntriesAre DEF FindsEntries
<1>4. ASSUME NEW s \in Live
      PROVE  /\ entry'[s] \in [key : Key, data : Data]
             /\ entry'[s].key = entry[s].key
             /\ entry'[s].data = IF entry[s].key = k THEN v ELSE entry[s].data
  <2>1. entry[s] \in [key : Key, data : Data]
    BY DEF Kept
  <2>2. entry'[s] = IF entry[s].key = k THEN [entry[s] EXCEPT !.data = v] ELSE entry[s]
    BY <1>1, <1>3
  <2> QED
    BY <2>1, <2>2
<1>5. Kept'
  <2>1. entry' = [s \in Live |-> entry'[s]]
    BY <1>1
  <2> QED
    BY <1>1, <1>2, <1>4, <2>1 DEF Kept
<1>6. SoundTable(table', Size', entry', Live')
  <2>1. SoundTable(table, Size, entry, Live)
    BY DEF Placed
  <2>2. SoundTable(table, Size, entry', Live)
    BY <1>4, <2>1, SoundSame
  <2> QED
    BY <1>1, <1>2, <2>2
<1>7. Placed'
  <2>1. \A s \in Live : In(table[Chain(entry'[s].key, Size)], s)
    BY <1>4 DEF Placed
  <2> QED
    BY <1>1, <1>2, <1>6, <2>1 DEF Placed
<1> QED
  BY <1>2, <1>4, <1>5, <1>7

LEMMA AddKept ==
  ASSUME Kept, Placed, ~ wild, NEW k \in Key, NEW v \in Data, NEW s \in Slot, HashAdd(k, v, s)
  PROVE  /\ Kept' /\ Placed' /\ s \notin Live /\ Live' = Live \cup {s}
         /\ entry'[s] = [key |-> k, data |-> v] /\ \A t \in Live : entry'[t] = entry[t]
         /\ \A t \in Live : entry[t].key # k
<1>1. /\ entry' = [t \in Live \cup {s} |-> IF t = s THEN [key |-> k, data |-> v] ELSE entry[t]]
      /\ table' = Prepended(table, entry', s) /\ entries' = entries + 1 /\ wild' = wild
      /\ Entries(k) = {} /\ s \notin Live
  BY DEF HashAdd
<1>2. DOMAIN entry' = Live \cup {s} /\ Live' = Live \cup {s}
  <2>1. DOMAIN entry' = Live \cup {s}
    BY <1>1
  <2> QED
    BY <2>1 DEF Live
<1>3. /\ entry'[s] = [key |-> k, data |-> v] /\ \A t \in Live : entry'[t] = entry[t]
      /\ entry' = [t \in Live \cup {s} |-> entry'[t]]
  BY <1>1
<1>4. \A t \in Live : entry[t].key # k
  BY <1>1, EntriesAre DEF FindsEntries
<1>5. IsFiniteSet(Live) /\ IsFiniteSet(Live \cup {s}) /\ Cardinality(Live \cup {s}) = Cardinality(Live) + 1
  <2>1. IsFiniteSet(Live)
    BY DEF Kept
  <2> QED
    BY <1>1, <2>1, FS_AddElement
<1>6. Kept'
  <2>1. \A t \in Live \cup {s} : entry'[t] \in [key : Key, data : Data]
    BY <1>3 DEF Kept
  <2>2. \A t, u \in Live \cup {s} : entry'[t].key = entry'[u].key => t = u
    BY <1>3, <1>4 DEF Kept
  <2> QED
    BY <1>1, <1>2, <1>3, <1>5, <2>1, <2>2 DEF Kept
<1>7. Holds(table, entry', Live)
  <2>1. SoundTable(table, Size, entry, Live) /\ Cardinality(Live) < Size
    BY DEF Kept, Placed
  <2>2. \A t \in Live : entry'[t].key = entry[t].key
    BY <1>3
  <2>3. SoundTable(table, Size, entry', Live)
    BY <2>1, <2>2, SoundSame
  <2> QED
    BY <2>1, <2>3 DEF Holds
<1>8. Holds(table', entry', Live')
  <2>1. entry'[s].key \in Key
    BY <1>3
  <2>2. Holds(Prepended(table, entry', s), entry', Live \cup {s})
    BY <1>1, <1>2, <1>5, <1>7, <2>1, PrependedHolds
  <2> QED
    BY <1>1, <1>2, <2>2
<1>9. Placed'
  <2>1. wild' \in BOOLEAN
    BY <1>1 DEF Placed
  <2> QED
    BY <1>6, <1>8, <2>1, HoldsPlacedNext DEF HoldsIsPlaced
<1> QED
  BY <1>1, <1>2, <1>3, <1>4, <1>6, <1>9

LEMMA ReloadKept ==
  ASSUME Kept, Placed, ~ wild, Reload
  PROVE  Kept' /\ Placed'
<1>1. entry' = entry /\ entries' = entries /\ wild' = wild
  BY DEF Reload
<1>2. Live' = Live
  BY <1>1 DEF Live
<1>3. Kept'
  BY <1>1, <1>2 DEF Kept
<1>4. Holds(table', entry', Live')
  <2>1. IsFiniteSet(Live)
    BY DEF Kept
  <2>2. Holds(table', entry, Live)
    BY <2>1, PlacedHolds, ReloadHolds
  <2> QED
    BY <1>1, <1>2, <2>2
<1>5. wild' \in BOOLEAN
  BY <1>1 DEF Placed
<1> QED
  BY <1>3, <1>4, <1>5, HoldsPlacedNext DEF HoldsIsPlaced

-----------------------------------------------------------------------------
(* One entry less, or more, in front of a chain.                            *)

(* d is s followed by c.                                                    *)
Shifted(c, d, s) ==
  \E m \in Nat :
    /\ DOMAIN c = 1..m /\ DOMAIN d = 1..(m + 1) /\ d[1] = s
    /\ \A i \in 1..m : d[i + 1] = c[i]

(* A walk along c that is at y has come by x.                               *)
Before(c, x, y) == \E i, j \in DOMAIN c : i < j /\ c[i] = x /\ c[j] = y

LEMMA TailShifted ==
  ASSUME NEW S, NEW c \in Seq(S), c # <<>>
  PROVE  /\ Shifted(Tail(c), c, Head(c)) /\ Tail(c) \in Seq(S)
         /\ Head(c) = c[1] /\ 1 \in DOMAIN c
<1>1. /\ Tail(c) \in Seq(S) /\ Len(Tail(c)) = Len(c) - 1
      /\ \A i \in 1..Len(Tail(c)) : Tail(c)[i] = c[i + 1]
  BY HeadTailProperties
<1>2. Len(c) \in Nat /\ DOMAIN c = 1..Len(c) /\ Len(c) # 0
  BY LenProperties, EmptySeq
<1>3. DOMAIN Tail(c) = 1..Len(Tail(c)) /\ Len(Tail(c)) \in Nat
  BY <1>1, LenProperties
<1>4. Head(c) = c[1]
  OBVIOUS
<1> DEFINE d == Tail(c)
           m == Len(d)
<1>5. DOMAIN d = 1..m /\ DOMAIN c = 1..(m + 1) /\ m \in Nat
  BY <1>1, <1>2, <1>3
<1> HIDE DEF d
<1>6. \A i \in 1..m : c[i + 1] = d[i]
  BY <1>1 DEF d
<1> HIDE DEF m
<1>7. Shifted(d, c, Head(c))
  BY <1>4, <1>5, <1>6 DEF Shifted
<1> QED
  BY <1>1, <1>2, <1>4, <1>7 DEF d

LEMMA FrontShifted ==
  ASSUME NEW S, NEW c \in Seq(S), NEW s \in S
  PROVE  Shifted(c, <<s>> \o c, s)
<1> DEFINE d == <<s>> \o c
           m == Len(c)
<1>1. <<s>> \in Seq(S) /\ Len(<<s>>) = 1 /\ <<s>>[1] = s
  OBVIOUS
<1>2. /\ d \in Seq(S) /\ Len(d) = 1 + m
      /\ \A i \in 1..(1 + m) : d[i] = IF i <= 1 THEN <<s>>[i] ELSE c[i - 1]
  BY <1>1, ConcatProperties
<1>3. m \in Nat /\ DOMAIN c = 1..m /\ DOMAIN d = 1..(m + 1)
  <2>1. m \in Nat /\ DOMAIN c = 1..m /\ DOMAIN d = 1..Len(d)
    BY <1>2, LenProperties
  <2> HIDE DEF d, m
  <2> QED
    BY <1>2, <2>1
<1> HIDE DEF d, m
<1>4. d[1] = s /\ \A i \in 1..m : d[i + 1] = c[i]
  BY <1>1, <1>2, <1>3
<1> QED
  BY <1>3, <1>4 DEF Shifted, d

LEMMA ShiftedIs ==
  ASSUME NEW c, NEW d, NEW s, Shifted(c, d, s), Once(d)
  PROVE  /\ Once(c) /\ \A i \in DOMAIN c : c[i] # s
         /\ \A x : In(d, x) <=> x = s \/ In(c, x)
         /\ \A x, y : x # s /\ y # s => (Before(d, x, y) <=> Before(c, x, y))
         /\ \A x : ~ Before(d, x, s)
<1>1. PICK m \in Nat :
        /\ DOMAIN c = 1..m /\ DOMAIN d = 1..(m + 1) /\ d[1] = s
        /\ \A i \in 1..m : d[i + 1] = c[i]
  BY DEF Shifted
<1>2. \A i \in 1..m : i + 1 \in DOMAIN d /\ i + 1 # 1 /\ 1 \in DOMAIN d
  BY <1>1
<1>3. \A i \in DOMAIN c : c[i] # s
  BY <1>1, <1>2 DEF Once
<1>4. Once(c)
  <2> SUFFICES ASSUME NEW i \in DOMAIN c, NEW j \in DOMAIN c, c[i] = c[j]
               PROVE  i = j
    BY DEF Once
  <2>1. i + 1 = j + 1
    BY <1>1, <1>2 DEF Once
  <2> QED
    BY <1>1, <2>1
<1>5. \A i \in DOMAIN d : i = 1 \/ (i - 1 \in DOMAIN c /\ d[i] = c[i - 1])
  <2> SUFFICES ASSUME NEW i \in DOMAIN d, i # 1
               PROVE  i - 1 \in DOMAIN c /\ d[i] = c[i - 1]
    OBVIOUS
  <2>1. i - 1 \in 1..m /\ (i - 1) + 1 = i
    BY <1>1
  <2> QED
    BY <1>1, <2>1
<1>6. \A i \in DOMAIN c : i + 1 \in DOMAIN d /\ d[i + 1] = c[i]
  BY <1>1, <1>2
<1>7. \A x : In(d, x) <=> x = s \/ In(c, x)
  <2>1. 1 \in DOMAIN d
    BY <1>1
  <2> QED
    BY <1>1, <1>5, <1>6, <2>1 DEF In
<1>8. ASSUME NEW x, NEW y, x # s, y # s
      PROVE  Before(d, x, y) <=> Before(c, x, y)
  <2>1. ASSUME Before(c, x, y) PROVE Before(d, x, y)
    <3>1. PICK i \in DOMAIN c, j \in DOMAIN c : i < j /\ c[i] = x /\ c[j] = y
      BY <2>1 DEF Before
    <3>2. i + 1 < j + 1
      BY <1>1, <3>1
    <3> QED
      BY <1>6, <3>1, <3>2 DEF Before
  <2>2. ASSUME Before(d, x, y) PROVE Before(c, x, y)
    <3>1. PICK i \in DOMAIN d, j \in DOMAIN d : i < j /\ d[i] = x /\ d[j] = y
      BY <2>2 DEF Before
    <3>2. i # 1 /\ j # 1
      BY <1>1, <1>8, <3>1
    <3>3. i - 1 < j - 1
      BY <1>1, <3>1
    <3> QED
      BY <1>5, <3>1, <3>2, <3>3 DEF Before
  <2> QED
    BY <2>1, <2>2
<1>9. \A x : ~ Before(d, x, s)
  <2> SUFFICES ASSUME NEW i \in DOMAIN d, NEW j \in DOMAIN d, i < j, d[j] = s
               PROVE  FALSE
    BY DEF Before
  <2>1. j = 1
    BY <1>1 DEF Once
  <2> QED
    BY <1>1, <2>1
<1> QED
  BY <1>3, <1>4, <1>7, <1>8, <1>9

(* Chains of different names share no entry.                                *)
LEMMA ChainsApart ==
  ASSUME NEW t, NEW n, NEW ent, NEW S, SoundTable(t, n, ent, S), NEW b \in 0..(n - 1), NEW s, In(t[b], s)
  PROVE  s \in S /\ b = Chain(ent[s].key, n)
<1>1. PICK i \in DOMAIN t[b] : t[b][i] = s
  BY DEF In
<1>2. t[b] \in Seq(S)
  BY DEF SoundTable
<1>3. s \in S
  BY <1>1, <1>2, LenProperties, ElementOfSeq
<1> QED
  BY <1>1, <1>3 DEF SoundTable

(* remove() of the first of a chain unlinks it, and of no other chain's.    *)
LEMMA UnlinkedIs ==
  ASSUME Kept, Placed, ~ wild, NEW s \in Live, First(s)
  PROVE  /\ Chain(entry[s].key, Size) \in 0..(Size - 1)
         /\ Shifted(Unlinked(s)[Chain(entry[s].key, Size)], table[Chain(entry[s].key, Size)], s)
         /\ Unlinked(s) = [b \in 0..(Size - 1) |->
              IF b = Chain(entry[s].key, Size) THEN Tail(table[b]) ELSE table[b]]
         /\ SoundTable(Unlinked(s), Size, [t \in Live \ {s} |-> entry[t]], Live \ {s})
<1> DEFINE n == Size
           home == Chain(entry[s].key, n)
           T == Live \ {s}
           new == [t \in T |-> entry[t]]
           u == Unlinked(s)
<1>1. SoundTable(table, n, entry, Live) /\ n \in Nat /\ n >= 2 /\ DOMAIN table = 0..(n - 1)
  BY DEF Placed
<1>2. \A b \in 0..(n - 1) : /\ table[b] \in Seq(Live) /\ Once(table[b])
                           /\ \A x : In(table[b], x) => b = Chain(entry[x].key, n)
  <2>1. \A b \in 0..(n - 1) : table[b] \in Seq(Live) /\ Once(table[b])
    BY <1>1 DEF SoundTable
  <2>2. ASSUME NEW b \in 0..(n - 1), NEW x, In(table[b], x)
        PROVE  b = Chain(entry[x].key, n)
    <3> HIDE DEF n
    <3> QED
      BY <1>1, <2>2, ChainsApart
  <2> QED
    BY <2>1, <2>2
<1>3. \A b \in 0..(n - 1) : table[b] # <<>> /\ Head(table[b]) = s => In(table[b], s)
  BY <1>2, TailShifted DEF In
<1>4. home \in 0..(n - 1) /\ table[home] # <<>> /\ Head(table[home]) = s
  <2>1. PICK b \in 0..(n - 1) : table[b] # <<>> /\ Head(table[b]) = s
    BY <1>1 DEF First
  <2>2. b = home
    BY <1>2, <1>3, <2>1
  <2> QED
    BY <2>1, <2>2
<1>5. \A b \in 0..(n - 1) : table[b] # <<>> /\ Head(table[b]) = s => b = home
  BY <1>2, <1>3
<1>6. u = [b \in 0..(n - 1) |-> IF b = home THEN Tail(table[b]) ELSE table[b]]
  BY <1>1, <1>4, <1>5 DEF Unlinked
<1>7. Shifted(Tail(table[home]), table[home], s) /\ Tail(table[home]) \in Seq(Live)
  BY <1>2, <1>4, TailShifted
<1> DEFINE c == Tail(table[home])
<1>8. u[home] = c
  BY <1>4, <1>6
<1> HIDE DEF c, u, home, n
<1>9. /\ Once(c) /\ \A i \in DOMAIN c : c[i] # s
      /\ \A x : In(table[home], x) <=> x = s \/ In(c, x)
  <2>1. Once(table[home]) /\ Shifted(c, table[home], s)
    BY <1>2, <1>4, <1>7 DEF c
  <2> QED
    BY <2>1, ShiftedIs
<1>10. ASSUME NEW b \in 0..(n - 1)
       PROVE  /\ u[b] \in Seq(T) /\ Once(u[b])
              /\ \A i \in DOMAIN u[b] : In(table[b], u[b][i])
  <2>1. /\ u[b] \in Seq(Live) /\ Once(u[b])
        /\ \A i \in DOMAIN u[b] : In(table[b], u[b][i]) /\ u[b][i] # s
    <3>1. CASE b = home
      <4>1. \A i \in DOMAIN c : In(c, c[i])
        BY DEF In
      <4> QED
        BY <1>7, <1>8, <1>9, <3>1, <4>1 DEF c
    <3>2. CASE b # home
      <4>1. u[b] = table[b]
        BY <1>6, <3>2
      <4>2. \A i \in DOMAIN table[b] : In(table[b], table[b][i])
        BY DEF In
      <4>3. ~ In(table[b], s)
        BY <1>2, <3>2 DEF home
      <4> QED
        BY <1>2, <4>1, <4>2, <4>3
    <3> QED
      BY <3>1, <3>2
  <2>2. u[b] \in Seq(T)
    <3>1. DOMAIN u[b] = 1..Len(u[b]) /\ Len(u[b]) \in Nat
      BY <2>1, LenProperties
    <3>2. \A i \in 1..Len(u[b]) : u[b][i] \in T
      <4>1. \A i \in 1..Len(u[b]) : u[b][i] \in Live
        BY <2>1, ElementOfSeq
      <4> QED
        BY <2>1, <3>1, <4>1
    <3>3. u[b] = [i \in 1..Len(u[b]) |-> u[b][i]]
      BY <2>1
    <3> QED
      BY <3>1, <3>2, <3>3, IsASeq
  <2> QED
    BY <2>1, <2>2
<1>11. \A b \in 0..(n - 1) : \A i \in DOMAIN u[b] : Chain(entry[u[b][i]].key, n) = b
  BY <1>2, <1>10
<1>12. ASSUME NEW x \in T
       PROVE  entry[x].key \in Key /\ In(u[Chain(entry[x].key, n)], x)
  <2>1. entry[x].key \in Key /\ In(table[Chain(entry[x].key, n)], x)
    BY <1>1 DEF SoundTable
  <2>2. Chain(entry[x].key, n) \in 0..(n - 1)
    BY <1>1, <2>1, ChainIs
  <2>3. CASE Chain(entry[x].key, n) = home
    BY <1>8, <1>9, <2>1, <2>3
  <2>4. CASE Chain(entry[x].key, n) # home
    BY <1>6, <2>1, <2>2, <2>4
  <2> QED
    BY <2>1, <2>3, <2>4
<1>13. SoundTable(u, n, entry, T)
  <2>1. u = [b \in 0..(n - 1) |-> u[b]]
    BY <1>6
  <2> QED
    BY <1>1, <1>10, <1>11, <1>12, <2>1 DEF SoundTable
<1>14. SoundTable(u, n, new, T)
  <2>1. \A x \in T : new[x].key = entry[x].key
    OBVIOUS
  <2> HIDE DEF new
  <2> QED
    BY <1>13, <2>1, SoundSame
<1> QED
  BY <1>4, <1>6, <1>7, <1>8, <1>14 DEF u, home, n, c

LEMMA RemoveKept ==
  ASSUME Kept, Placed, ~ wild, NEW k \in Key, HashRemove(k)
  PROVE  /\ Kept' /\ Placed' /\ Size' = Size
         /\ \E s \in Live :
              /\ entry[s].key = k /\ Live' = Live \ {s}
              /\ entry' = [t \in Live \ {s} |-> entry[t]]
              /\ IF First(s) THEN table' = Unlinked(s) ELSE table' = table
              /\ Disturb({w \in Loops : loop[w].at = s}, k)
<1> DEFINE found == CHOOSE t \in Entries(k) : TRUE
<1>1. /\ Entries(k) # {} /\ table' = Unlinked(found)
      /\ entry' = [t \in Live \ {found} |-> entry[t]]
      /\ wild' = ~ First(found) /\ entries' = entries - 1
      /\ Disturb({w \in Loops : loop[w].at = found}, k)
  BY DEF HashRemove
<1>2. PICK s \in Live : entry[s].key = k /\ Entries(k) = {s}
  BY <1>1, EntriesAre DEF FindsEntries
<1>3. found = s
  <2>1. (CHOOSE t \in {s} : TRUE) = s
    OBVIOUS
  <2> QED
    BY <1>2, <2>1
<1> HIDE DEF found
<1> DEFINE T == Live \ {s}
           new == [t \in T |-> entry[t]]
<1>4. entry' = new /\ Live' = T
  <2>1. entry' = new
    BY <1>1, <1>3
  <2>2. DOMAIN new = T
    OBVIOUS
  <2> HIDE DEF new, T
  <2>3. Live' = DOMAIN entry'
    BY DEF Live
  <2> QED
    BY <2>1, <2>2, <2>3
<1>5. /\ IsFiniteSet(T) /\ Cardinality(T) = Cardinality(Live) - 1
      /\ Cardinality(T) \in Nat /\ Cardinality(Live) \in Nat
  <2>1. IsFiniteSet(Live)
    BY DEF Kept
  <2>2. IsFiniteSet(T) /\ Cardinality(T) = Cardinality(Live) - 1
    BY <1>2, <2>1, FS_RemoveElement
  <2> QED
    BY <2>1, <2>2, FS_CardinalityType
<1>6. \A t \in T : new[t] = entry[t]
  OBVIOUS
<1>7. Kept'
  <2>1. /\ T \subseteq Slot /\ new = [t \in T |-> new[t]]
        /\ \A t \in T : new[t] \in [key : Key, data : Data]
        /\ \A t, u \in T : new[t].key = new[u].key => t = u
    BY DEF Kept
  <2>2. entries' = Cardinality(T)
    BY <1>1, <1>5 DEF Kept
  <2> HIDE DEF new, T
  <2> QED
    BY <1>4, <1>5, <2>1, <2>2 DEF Kept
<1>8. CASE First(s)
  <2>1. /\ Unlinked(s) = [b \in 0..(Size - 1) |->
             IF b = Chain(entry[s].key, Size) THEN Tail(table[b]) ELSE table[b]]
        /\ SoundTable(Unlinked(s), Size, new, T)
    BY <1>2, <1>8, UnlinkedIs
  <2>2. Cardinality(T) < Size /\ Size \in Nat
    BY <1>5 DEF Kept, Placed
  <2>3. table' = Unlinked(s) /\ wild' \in BOOLEAN
    BY <1>1, <1>3
  <2>4. Holds(table', new, T)
    BY <2>1, <2>2, <2>3 DEF Holds
  <2>5. Placed'
    <3> HIDE DEF new, T
    <3> QED
      BY <1>4, <1>7, <2>3, <2>4, HoldsPlacedNext DEF HoldsIsPlaced
  <2>6. DOMAIN table' = 0..(Size - 1)
    BY <2>1, <2>3
  <2>7. Size' = Size
    <3>1. Cardinality(DOMAIN table') = Size
      BY <2>2, <2>6, SizeIs
    <3> QED
      BY <3>1 DEF Size
  <2> QED
    BY <1>1, <1>2, <1>3, <1>4, <1>7, <1>8, <2>3, <2>5, <2>7
<1>9. CASE ~ First(s)
  <2>1. table' = table
    <3>1. table' = [b \in DOMAIN table |-> table[b]]
      BY <1>1, <1>3, <1>9 DEF Unlinked, First
    <3>2. table = [b \in DOMAIN table |-> table[b]]
      BY DEF Placed
    <3> QED
      BY <3>1, <3>2
  <2>2. Size' = Size
    BY <2>1 DEF Size
  <2>3. wild' = TRUE
    BY <1>1, <1>3, <1>9
  <2>4. \A t \in T : In(table[Chain(new[t].key, Size)], t)
    BY DEF Placed
  <2>5. entries' < Size
    BY <1>1, <1>5 DEF Kept, Placed
  <2> HIDE DEF new, T
  <2>6. Placed'
    BY <1>4, <2>1, <2>2, <2>3, <2>4, <2>5 DEF Placed
  <2> QED
    BY <1>1, <1>2, <1>3, <1>4, <1>7, <1>9, <2>1, <2>2, <2>6 DEF new, T
<1> QED
  BY <1>8, <1>9

-----------------------------------------------------------------------------
(* Steps keep what is allocated where it is found.                          *)

HashCall ==
  \/ \E k \in Key : HashGet(k) \/ HashRemoveNothing(k)
  \/ HashKeys \/ HashToArray

HashLoop ==
  \E w \in Loops : HashForeach(w) \/ ForeachGiven(w) \/ ForeachScans(w) \/ ForeachEnds(w)

LEMMA StepKept ==
  ASSUME Kept, Placed, [HashNext]_hashVars
  PROVE  Kept' /\ Placed'
<1>1. wild \in BOOLEAN
  BY DEF Placed
<1>2. CASE UNCHANGED hashVars
  <2>1. UNCHANGED hash /\ wild' = wild
    BY <1>2 DEF hashVars
  <2> QED
    BY <1>1, <2>1, SameHash
<1>3. CASE HashNext
  <2>1. ~ wild
    BY <1>3 DEF HashNext
  <2>2. CASE HashCall
    <3>1. UNCHANGED hash /\ wild' = wild
      BY <2>2 DEF HashCall, HashGet, HashRemoveNothing, HashKeys, HashToArray
    <3> QED
      BY <1>1, <3>1, SameHash
  <2>3. CASE HashLoop
    <3>1. UNCHANGED hash /\ wild' \in BOOLEAN
      BY <1>1, <2>3 DEF HashLoop, HashForeach, ForeachGiven, ForeachScans, ForeachEnds, Visit
    <3> QED
      BY <2>1, <3>1, SameHash
  <2>4. CASE \E k \in Key : HashRemove(k)
    BY <2>1, <2>4, RemoveKept
  <2>5. CASE \E k \in Key, v \in Data : HashReplace(k, v)
    BY <2>1, <2>5, ReplaceKept
  <2>6. CASE \E k \in Key, v \in Data, s \in Slot : HashAdd(k, v, s)
    BY <2>1, <2>6, AddKept
  <2>7. CASE Reload
    BY <2>1, <2>7, ReloadKept
  <2> QED
    BY <1>3, <2>2, <2>3, <2>4, <2>5, <2>6, <2>7 DEF HashNext, HashCall, HashLoop
<1> QED
  BY <1>2, <1>3

LEMMA InitKept == HashInit => Kept /\ Placed
<1> SUFFICES ASSUME HashInit PROVE Kept /\ Placed
  OBVIOUS
<1>1. table = Empty /\ entry = <<>> /\ entries = 0 /\ wild = FALSE
  BY DEF HashInit
<1>2. Live = {}
  BY <1>1 DEF Live
<1>3. IsFiniteSet({}) /\ Cardinality({}) = 0
  BY FS_EmptySet
<1>4. Kept
  <2>1. entry = [s \in {} |-> entry[s]]
    BY <1>1
  <2> QED
    BY <1>1, <1>2, <1>3, <2>1 DEF Kept
<1>5. HashStart \in Nat /\ HashStart >= 2
  BY HashesAssumption DEF HashAssumption
<1>6. SoundTable(table, HashStart, entry, {})
  BY <1>1, <1>5, SoundEmpty DEF Empty
<1>7. Cardinality({}) < HashStart
  BY <1>3, <1>5
<1>8. Holds(table, entry, Live)
  BY <1>2, <1>6, <1>7 DEF Holds
<1>9. Placed
  BY <1>1, <1>4, <1>8, HoldsPlaced DEF HoldsIsPlaced
<1> QED
  BY <1>4, <1>9

-----------------------------------------------------------------------------
(* A hash is a map.                                                         *)

Map == [k \in Key |-> Lookup(k)]

(* What the map has for a name: what its entry says, or nothing.            *)
MapSays ==
  /\ \A s \in Live : Map[entry[s].key] = entry[s].data /\ entry[s].data # None
  /\ \A k \in Key : (\A s \in Live : entry[s].key # k) => Map[k] = None
  /\ {k \in Key : Map[k] # None} = {entry[s].key : s \in Live}

LEMMA MapIs == Kept /\ Placed => MapSays
<1> SUFFICES ASSUME Kept, Placed PROVE MapSays
  OBVIOUS
<1>1. None \notin Data
  BY HashesAssumption DEF HashAssumption
<1>2. FindsEntries
  BY EntriesAre
<1>3. \A s \in Live : /\ Map[entry[s].key] = entry[s].data /\ entry[s].data # None
                     /\ entry[s].key \in Key
  BY <1>1, <1>2 DEF Map, FindsEntries
<1>4. \A k \in Key : (\A s \in Live : entry[s].key # k) => Map[k] = None
  BY <1>2 DEF Map, FindsEntries
<1>5. {k \in Key : Map[k] # None} = {entry[s].key : s \in Live}
  BY <1>3, <1>4
<1> QED
  BY <1>3, <1>4, <1>5 DEF MapSays

LEMMA MapIsNext == Kept' /\ Placed' => MapSays'
BY MapIs, PTL

LEMMA ReplacePuts ==
  ASSUME Kept, Placed, ~ wild, NEW k \in Key, NEW v \in Data, HashReplace(k, v)
  PROVE  Map' = [Map EXCEPT ![k] = v]
<1>1. /\ Kept' /\ Placed' /\ Live' = Live
      /\ \A s \in Live : /\ entry'[s].key = entry[s].key
                         /\ entry'[s].data = IF entry[s].key = k THEN v ELSE entry[s].data
  BY ReplaceKept
<1>2. MapSays /\ MapSays'
  BY <1>1, MapIs, MapIsNext
<1>3. \E s \in Live : entry[s].key = k
  BY EntriesAre DEF FindsEntries, HashReplace
<1>4. ASSUME NEW j \in Key
      PROVE  Map'[j] = IF j = k THEN v ELSE Map[j]
  <2>1. CASE \E s \in Live : entry[s].key = j
    BY <1>1, <1>2, <2>1 DEF MapSays
  <2>2. CASE \A s \in Live : entry[s].key # j
    BY <1>1, <1>2, <1>3, <2>2 DEF MapSays
  <2> QED
    BY <2>1, <2>2
<1>5. Map' = [j \in Key |-> Map'[j]] /\ Map = [j \in Key |-> Map[j]]
  BY DEF Map
<1> QED
  BY <1>4, <1>5

LEMMA AddPuts ==
  ASSUME Kept, Placed, ~ wild, NEW k \in Key, NEW v \in Data, NEW s \in Slot, HashAdd(k, v, s)
  PROVE  Map' = [Map EXCEPT ![k] = v]
<1>1. /\ Kept' /\ Placed' /\ s \notin Live /\ Live' = Live \cup {s}
      /\ entry'[s] = [key |-> k, data |-> v] /\ \A t \in Live : entry'[t] = entry[t]
      /\ \A t \in Live : entry[t].key # k
  BY AddKept
<1>2. MapSays /\ MapSays'
  BY <1>1, MapIs, MapIsNext
<1>3. ASSUME NEW j \in Key
      PROVE  Map'[j] = IF j = k THEN v ELSE Map[j]
  <2>1. CASE j = k
    BY <1>1, <1>2, <2>1 DEF MapSays
  <2>2. CASE j # k /\ \E t \in Live : entry[t].key = j
    BY <1>1, <1>2, <2>2 DEF MapSays
  <2>3. CASE j # k /\ \A t \in Live : entry[t].key # j
    BY <1>1, <1>2, <2>3 DEF MapSays
  <2> QED
    BY <2>1, <2>2, <2>3
<1>4. Map' = [j \in Key |-> Map'[j]] /\ Map = [j \in Key |-> Map[j]]
  BY DEF Map
<1> QED
  BY <1>3, <1>4

LEMMA RemoveDeletes ==
  ASSUME Kept, Placed, ~ wild, NEW k \in Key, HashRemove(k)
  PROVE  Map' = [Map EXCEPT ![k] = None] /\ Map[k] # None
<1>1. /\ Kept' /\ Placed'
      /\ \E s \in Live : /\ entry[s].key = k /\ Live' = Live \ {s}
                         /\ entry' = [t \in Live \ {s} |-> entry[t]]
  BY RemoveKept
<1>2. PICK s \in Live : /\ entry[s].key = k /\ Live' = Live \ {s}
                        /\ \A t \in Live \ {s} : entry'[t] = entry[t]
  BY <1>1
<1>3. MapSays /\ MapSays'
  BY <1>1, MapIs, MapIsNext
<1>4. \A t \in Live : entry[t].key = k => t = s
  BY <1>2 DEF Kept
<1>5. ASSUME NEW j \in Key
      PROVE  Map'[j] = IF j = k THEN None ELSE Map[j]
  <2>1. CASE j = k
    BY <1>2, <1>3, <1>4, <2>1 DEF MapSays
  <2>2. CASE j # k /\ \E t \in Live : entry[t].key = j
    BY <1>2, <1>3, <2>2 DEF MapSays
  <2>3. CASE j # k /\ \A t \in Live : entry[t].key # j
    BY <1>2, <1>3, <2>3 DEF MapSays
  <2> QED
    BY <2>1, <2>2, <2>3
<1>6. Map' = [j \in Key |-> Map'[j]] /\ Map = [j \in Key |-> Map[j]]
  BY DEF Map
<1> QED
  BY <1>2, <1>3, <1>5, <1>6 DEF MapSays

(* The same entries are the same map, wherever they are.                   *)
LEMMA SameMap ==
  ASSUME Kept, Placed, Kept', Placed', entry' = entry
  PROVE  Map' = Map
<1>1. Live' = Live
  BY DEF Live
<1>2. MapSays /\ MapSays'
  BY MapIs, MapIsNext
<1>3. ASSUME NEW j \in Key
      PROVE  Map'[j] = Map[j]
  <2>1. CASE \E s \in Live : entry[s].key = j
    BY <1>1, <1>2, <2>1 DEF MapSays
  <2>2. CASE \A s \in Live : entry[s].key # j
    BY <1>1, <1>2, <2>2 DEF MapSays
  <2> QED
    BY <2>1, <2>2
<1>4. Map' = [j \in Key |-> Map'[j]] /\ Map = [j \in Key |-> Map[j]]
  BY DEF Map
<1> QED
  BY <1>3, <1>4

(* The names in the order of a traversal: each once.                        *)
Names == [i \in DOMAIN Traversal(table) |-> entry[Traversal(table)[i]].key]

LEMMA NamesAre ==
  ASSUME Kept, Placed, ~ wild
  PROVE  /\ Names \in SetToSeqs({k \in Key : Map[k] # None})
         /\ DOMAIN Names = DOMAIN Traversal(table)
         /\ \A i \in DOMAIN Names : Map[Names[i]] = entry[Traversal(table)[i]].data
         /\ Cardinality(Live) = Len(Traversal(table))
<1> DEFINE c == Traversal(table)
           P == {k \in Key : Map[k] # None}
           m == Len(c)
<1>1. Orders(c, Live)
  <2>1. SoundTable(table, Size, entry, Live)
    BY DEF Placed
  <2> QED
    BY <2>1, TraversalOrders
<1>2. P = {entry[s].key : s \in Live} /\ MapSays
  BY MapIs DEF MapSays
<1> HIDE DEF c
<1>3. c \in Seq(Live) /\ Once(c) /\ \A s \in Live : In(c, s)
  BY <1>1 DEF Orders
<1>4. m \in Nat /\ DOMAIN c = 1..m /\ \A i \in 1..m : c[i] \in Live
  BY <1>3, LenProperties, ElementOfSeq
<1>5. Names = [i \in 1..m |-> entry[c[i]].key]
  BY <1>4 DEF Names, c
<1> HIDE DEF m
<1>6. Names \in [1..m -> P] /\ DOMAIN Names = 1..m
  BY <1>2, <1>4, <1>5
<1>7. \A i, j \in 1..m : Names[i] = Names[j] => i = j
  <2> SUFFICES ASSUME NEW i \in 1..m, NEW j \in 1..m, Names[i] = Names[j]
               PROVE  i = j
    OBVIOUS
  <2>1. c[i] = c[j]
    BY <1>4, <1>5 DEF Kept
  <2> QED
    BY <1>3, <1>4, <2>1 DEF Once
<1>8. Orders(Names, P)
  <2>1. Names \in Seq(P)
    BY <1>4, <1>6 DEF m
  <2>2. ASSUME NEW k \in P PROVE In(Names, k)
    <3>1. PICK s \in Live : entry[s].key = k
      BY <1>2
    <3>2. PICK i \in 1..m : c[i] = s
      BY <1>3, <1>4 DEF In
    <3>3. Names[i] = k
      BY <1>5, <3>1, <3>2
    <3> QED
      BY <1>6, <3>3 DEF In
  <2>3. Once(Names)
    BY <1>6, <1>7 DEF Once
  <2> QED
    BY <2>1, <2>2, <2>3 DEF Orders
<1>9. Cardinality(Live) = m /\ Cardinality(P) = m
  <2>1. Cardinality(Live) = m
    BY <1>1, OrdersCount DEF m
  <2>2. Len(Names) = m
    BY <1>4, <1>6
  <2>3. Cardinality(P) = Len(Names)
    BY <1>8, OrdersCount
  <2> QED
    BY <2>1, <2>2, <2>3
<1>10. Names \in SetToSeqs(P)
  BY <1>6, <1>7, <1>9 DEF SetToSeqs, IsInjective
<1>11. \A i \in 1..m : Map[Names[i]] = entry[c[i]].data
  BY <1>2, <1>4, <1>5 DEF MapSays
<1> QED
  BY <1>4, <1>6, <1>9, <1>10, <1>11 DEF c, m

LEMMA StepIsMap ==
  ASSUME Kept, Placed, [HashNext]_hashVars
  PROVE  [M!Next]_(M!vars)
<1> DEFINE Stays == Map' = Map /\ hret' = hret
<1>0. Kept' /\ Placed'
  BY StepKept
<1>1. Stays => UNCHANGED M!vars
  BY DEF M!vars, Map
<1>2. SUFFICES ASSUME HashNext PROVE M!Next \/ Stays
  <2>1. CASE UNCHANGED hashVars
    <3>1. entry' = entry /\ hret' = hret
      BY <2>1 DEF hashVars, hash
    <3>2. Stays
      BY <1>0, <3>1, SameMap
    <3> QED
      BY <1>1, <3>2
  <2> QED
    BY <1>1, <2>1
<1>3. ~ wild
  BY <1>2 DEF HashNext
<1>4. \A k \in Key : Lookup(k) = Map[k]
  BY DEF Map
<1>5. ASSUME NEW k \in Key, HashGet(k) PROVE M!Next
  <2>1. entry' = entry /\ hret' = <<Map[k]>>
    BY <1>4, <1>5 DEF HashGet, hash
  <2>2. Map' = Map
    BY <1>0, <2>1, SameMap
  <2> QED
    BY <2>1, <2>2 DEF M!Next, M!Get, Map
<1>6. ASSUME NEW k \in Key, HashRemove(k) PROVE M!Next
  <2>1. Map' = [Map EXCEPT ![k] = None] /\ Map[k] # None
    BY <1>3, <1>6, RemoveDeletes
  <2>2. hret' = <<Map[k] # None>>
    BY <1>6, <2>1 DEF HashRemove
  <2> QED
    BY <2>1, <2>2 DEF M!Next, M!Delete, Map
<1>7. ASSUME NEW k \in Key, HashRemoveNothing(k) PROVE M!Next
  <2>1. entry' = entry /\ hret' = <<FALSE>> /\ Entries(k) = {}
    BY <1>7 DEF HashRemoveNothing, hash
  <2>2. Map[k] = None
    BY <1>4, <2>1 DEF Lookup
  <2>3. hret' = <<Map[k] # None>>
    BY <2>1, <2>2
  <2>4. Map' = Map
    BY <1>0, <2>1, SameMap
  <2>5. Map' = [Map EXCEPT ![k] = None]
    BY <2>2, <2>4 DEF Map
  <2> QED
    BY <2>3, <2>5 DEF M!Next, M!Delete, Map
<1>8. ASSUME NEW k \in Key, NEW v \in Data, HashReplace(k, v) PROVE M!Next
  <2>1. Map' = [Map EXCEPT ![k] = v] /\ hret' = <<TRUE>>
    BY <1>3, <1>8, ReplacePuts DEF HashReplace
  <2> QED
    BY <2>1 DEF M!Next, M!Put, Map
<1>9. ASSUME NEW k \in Key, NEW v \in Data, NEW s \in Slot, HashAdd(k, v, s) PROVE M!Next
  <2>1. Map' = [Map EXCEPT ![k] = v]
    BY <1>3, <1>9, AddPuts
  <2>2. hret' = <<TRUE>>
    BY <1>9 DEF HashAdd
  <2> QED
    BY <2>1, <2>2 DEF M!Next, M!Put, Map
<1>10. M!Present = {k \in Key : Map[k] # None}
  BY DEF M!Present, Map
<1>11. \A S : M!SetToSeqs(S) = SetToSeqs(S)
  <2>1. \A S : M!Cardinality(S) = Cardinality(S)
    BY DEF M!Cardinality, Cardinality
  <2> QED
    BY <2>1 DEF M!SetToSeqs, SetToSeqs
<1>12. /\ Names \in M!SetToSeqs(M!Present)
       /\ DOMAIN Names = DOMAIN Traversal(table)
       /\ \A i \in DOMAIN Names : Map[Names[i]] = entry[Traversal(table)[i]].data
  BY <1>3, <1>10, <1>11, NamesAre
<1>13. ASSUME HashKeys PROVE M!Next
  <2>1. entry' = entry /\ hret' = Names
    BY <1>13 DEF HashKeys, hash, Names
  <2>2. Map' = Map
    BY <1>0, <2>1, SameMap
  <2> QED
    BY <1>12, <2>1, <2>2 DEF M!Next, M!Keys, Map
<1>14. ASSUME HashToArray PROVE M!Next
  <2>1. entry' = entry /\ hret' = [i \in DOMAIN Traversal(table) |-> entry[Traversal(table)[i]].data]
    BY <1>14 DEF HashToArray, hash
  <2>2. hret' = [i \in DOMAIN Names |-> Map[Names[i]]]
    BY <1>12, <2>1
  <2>3. Map' = Map
    BY <1>0, <2>1, SameMap
  <2> QED
    BY <1>12, <2>2, <2>3 DEF M!Next, M!Values, Map
<1>15. ASSUME Reload PROVE Stays
  <2>1. entry' = entry /\ hret' = hret
    BY <1>15 DEF Reload
  <2> QED
    BY <1>0, <2>1, SameMap
<1>16. ASSUME NEW w \in Loops, HashForeach(w) PROVE M!Next
  <2>1. entry' = entry /\ hret' = <<TRUE>>
    BY <1>16 DEF HashForeach, hash
  <2>2. Map' = Map
    BY <1>0, <2>1, SameMap
  <2> QED
    BY <2>1, <2>2 DEF M!Next, M!Foreach, Map
<1>17. ASSUME NEW w \in Loops, ForeachGiven(w) \/ ForeachScans(w) \/ ForeachEnds(w) PROVE Stays
  <2>1. entry' = entry /\ hret' = hret
    BY <1>17 DEF ForeachGiven, ForeachScans, ForeachEnds, Visit, hash
  <2> QED
    BY <1>0, <2>1, SameMap
<1> HIDE DEF Stays
<1> QED
  BY <1>2, <1>5, <1>6, <1>7, <1>8, <1>9, <1>13, <1>14, <1>15, <1>16, <1>17 DEF HashNext

(* get(), set(), remove(), keys and the rest (hash.h, hash.cpp) do and      *)
(* return what they would on a map from names to objects, for any hash      *)
(* function and any number of names, entries and loops.                     *)
THEOREM HashImplementsMap == HashSpec => ImplementsMap
<1>1. HashInit => M!Init
  <2> SUFFICES ASSUME HashInit PROVE M!Init
    OBVIOUS
  <2>1. Kept /\ Placed /\ Live = {} /\ hret = <<>>
    BY InitKept DEF HashInit, Live
  <2>2. \A k \in Key : Lookup(k) = None
    BY <2>1, EntriesAre DEF FindsEntries
  <2> QED
    BY <2>1, <2>2 DEF M!Init
<1>2. HashInit => Kept /\ Placed
  BY InitKept
<1>3. Kept /\ Placed /\ [HashNext]_hashVars => Kept' /\ Placed' /\ [M!Next]_(M!vars)
  BY StepKept, StepIsMap
<1> QED
  BY <1>1, <1>2, <1>3, PTL DEF HashSpec, ImplementsMap, M!Spec

-----------------------------------------------------------------------------
(* foreach.                                                                 *)

(* A loop whose next event is for the entry at of chain i, or for the first *)
(* it finds from chain i on, has come by s.                                 *)
Passed(t, n, ent, i, at, s) ==
  LET b == Chain(ent[s].key, n)
  IN b < i \/ (b = i /\ at # None /\ Before(t[b], s, at))

(* What has been there since the loop began is still there, so is its next  *)
(* entry, and what it has come by was met once, the rest not yet.           *)
Counts(t, n, ent, S, lp, st, mt) ==
  /\ st \subseteq {ent[s].key : s \in S}
  /\ ~ lp.on => st = {}
  /\ \A k \in Key : k \notin st => mt[k] = 0
  /\ st # {} /\ lp.at # None => lp.at \in S /\ In(t[lp.index], lp.at)
  /\ \A s \in S : ent[s].key \in st =>
       mt[ent[s].key] = IF Passed(t, n, ent, lp.index, lp.at, s) THEN 1 ELSE 0

LEMMA CountsNothing ==
  ASSUME NEW t, NEW n, NEW ent, NEW S, NEW lp, NEW mt, \A k \in Key : mt[k] = 0
  PROVE  Counts(t, n, ent, S, lp, {}, mt)
BY DEF Counts

(* Only the names of the entries matter.                                    *)
LEMMA CountsSame ==
  ASSUME NEW t, NEW n, NEW ent, NEW new, NEW S, NEW lp, NEW st, NEW mt,
         Counts(t, n, ent, S, lp, st, mt), \A s \in S : new[s].key = ent[s].key
  PROVE  Counts(t, n, new, S, lp, st, mt)
<1>1. {new[s].key : s \in S} = {ent[s].key : s \in S}
  OBVIOUS
<1>2. \A s \in S : Passed(t, n, new, lp.index, lp.at, s) <=> Passed(t, n, ent, lp.index, lp.at, s)
  BY DEF Passed
<1> QED
  BY <1>1, <1>2 DEF Counts

(* All but s are in the chains of u in the order in which they are in t's.  *)
SameOrder(t, u, n, s) ==
  \A b \in 0..(n - 1) :
    /\ \A x : x # s => (In(t[b], x) <=> In(u[b], x))
    /\ \A x, y : x # s /\ y # s => (Before(t[b], x, y) <=> Before(u[b], x, y))

(* A loop does not notice that the entry s comes or goes.                   *)
LEMMA CountsStay ==
  ASSUME NEW t, NEW n \in Nat, n >= 1, NEW ent, NEW S, NEW lp, NEW st, NEW mt,
         Counts(t, n, ent, S, lp, st, mt),
         lp.index \in Nat, lp.at # None => lp.index < n,
         NEW u, NEW new, NEW T, NEW s, SameOrder(t, u, n, s),
         S \ {s} = T \ {s},
         \A x \in S \ {s} : new[x].key = ent[x].key /\ ent[x].key \in Key,
         NEW st2, st2 \subseteq st, st2 # {} => lp.at # s,
         s \in S => ent[s].key \notin st2, s \in T => new[s].key \notin st2,
         st2 \subseteq Key,
         NEW mt2, mt2 = [j \in Key |-> IF j \in st2 THEN mt[j] ELSE 0]
  PROVE  Counts(u, n, new, T, lp, st2, mt2)
<1>1. \A k \in Key : k \notin st2 => mt2[k] = 0
  OBVIOUS
<1>2. ~ lp.on => st2 = {}
  BY DEF Counts
<1>3. st2 \subseteq {new[x].key : x \in T}
  <2> SUFFICES ASSUME NEW k \in st2 PROVE \E x \in T : new[x].key = k
    OBVIOUS
  <2>1. PICK x \in S : ent[x].key = k
    BY DEF Counts
  <2>2. x # s
    BY <2>1
  <2>3. x \in S \ {s} /\ x \in T
    BY <2>1, <2>2
  <2> QED
    BY <2>1, <2>3
<1>4. ASSUME st2 # {}, lp.at # None
      PROVE  lp.at \in T /\ In(u[lp.index], lp.at)
  <2>1. st # {} /\ lp.at # s
    BY <1>4
  <2>2. lp.at \in S /\ In(t[lp.index], lp.at)
    BY <1>4, <2>1 DEF Counts
  <2>3. lp.index \in 0..(n - 1)
    BY <1>4
  <2>4. lp.at \in T
    BY <2>1, <2>2
  <2> QED
    BY <2>1, <2>2, <2>3, <2>4 DEF SameOrder
<1>5. ASSUME NEW x \in T, new[x].key \in st2
      PROVE  mt2[new[x].key] = IF Passed(u, n, new, lp.index, lp.at, x) THEN 1 ELSE 0
  <2>1. x # s /\ x \in S \ {s} /\ x \in S
    BY <1>5
  <2>2. new[x].key = ent[x].key /\ ent[x].key \in Key /\ ent[x].key \in st
    BY <1>5, <2>1
  <2>3. Chain(ent[x].key, n) \in 0..(n - 1)
    BY <2>2, ChainIs
  <2>4. lp.at # s
    BY <1>5
  <2>5. Passed(u, n, new, lp.index, lp.at, x) <=> Passed(t, n, ent, lp.index, lp.at, x)
    <3> DEFINE b == Chain(ent[x].key, n)
    <3>1. Before(t[b], x, lp.at) <=> Before(u[b], x, lp.at)
      BY <2>1, <2>3, <2>4 DEF SameOrder
    <3> QED
      BY <2>2, <3>1 DEF Passed
  <2>6. mt[ent[x].key] = IF Passed(t, n, ent, lp.index, lp.at, x) THEN 1 ELSE 0
    BY <2>1, <2>2 DEF Counts
  <2>7. mt2[new[x].key] = mt[ent[x].key]
    BY <1>5, <2>2
  <2> QED
    BY <2>5, <2>6, <2>7
<1> QED
  BY <1>1, <1>2, <1>3, <1>4, <1>5 DEF Counts

(* What a walk along a chain has come by when it goes on.                   *)
LEMMA NextInChain ==
  ASSUME NEW S, NEW c \in Seq(S), Once(c), NEW p \in DOMAIN c, NEW x, In(c, x)
  PROVE  /\ p < Len(c) => /\ p + 1 \in DOMAIN c
                           /\ Before(c, x, c[p + 1]) <=> Before(c, x, c[p]) \/ x = c[p]
         /\ ~ (p < Len(c)) => Before(c, x, c[p]) \/ x = c[p]
         /\ ~ Before(c, c[p], c[p])
<1>1. DOMAIN c = 1..Len(c) /\ Len(c) \in Nat
  BY LenProperties
<1>2. PICK i \in DOMAIN c : c[i] = x
  BY DEF In
<1>3. \A q \in DOMAIN c : Before(c, x, c[q]) <=> i < q
  <2> SUFFICES ASSUME NEW q \in DOMAIN c PROVE Before(c, x, c[q]) <=> i < q
    OBVIOUS
  <2>1. \A j \in DOMAIN c : c[j] = x => j = i
    BY <1>2 DEF Once
  <2>2. \A j \in DOMAIN c : c[j] = c[q] => j = q
    BY DEF Once
  <2> QED
    BY <1>2, <2>1, <2>2 DEF Before
<1>4. x = c[p] <=> i = p
  BY <1>2 DEF Once
<1>5. ~ Before(c, c[p], c[p])
  <2>1. \A j \in DOMAIN c : c[j] = c[p] => j = p
    BY DEF Once
  <2>2. ~ (p < p)
    BY <1>1
  <2> QED
    BY <2>1, <2>2 DEF Before
<1>6. i \in Int /\ p \in Int
  BY <1>1
<1>7. p < Len(c) => p + 1 \in DOMAIN c
  BY <1>1
<1> QED
  BY <1>1, <1>2, <1>3, <1>4, <1>5, <1>6, <1>7

(* What loops, and what they have met, look like.                           *)
Event == [on : BOOLEAN, index : Nat, at : Slot \cup {None}]

GoodEvent(lp, n) ==
  /\ lp \in Event /\ lp.index <= n
  /\ lp.at # None => lp.on /\ lp.index < n

Looping ==
  /\ loop = [w \in Loops |-> loop[w]]
  /\ hsteady = [w \in Loops |-> hsteady[w]]
  /\ hmet = [w \in Loops |-> hmet[w]]
  /\ \A w \in Loops :
       /\ GoodEvent(loop[w], Size)
       /\ hmet[w] = [k \in Key |-> hmet[w][k]]
       /\ Counts(table, Size, entry, Live, loop[w], hsteady[w], hmet[w])

(* The chain and the place of an entry, and what comes next.                *)
LEMMA NextEventIs ==
  ASSUME Kept, Placed, ~ wild, NEW i, NEW s \in Live
  PROVE  \E b \in 0..(Size - 1), p \in Nat :
           /\ p \in DOMAIN table[b] /\ b = Chain(entry[s].key, Size) /\ table[b][p] = s
           /\ table[b] \in Seq(Live) /\ Once(table[b])
           /\ NextEvent(i, s) =
                IF p < Len(table[b]) THEN [on |-> TRUE, index |-> i, at |-> table[b][p + 1]]
                ELSE [on |-> TRUE, index |-> i + 1, at |-> None]
<1> DEFINE n == Size
           b == Chain(entry[s].key, n)
           c == CHOOSE d \in DOMAIN table : s \in ToSet(table[d])
<1>1. SoundTable(table, n, entry, Live) /\ n \in Nat /\ n >= 2 /\ DOMAIN table = 0..(n - 1)
  BY DEF Placed
<1>2. entry[s].key \in Key /\ In(table[b], s)
  BY <1>1 DEF SoundTable
<1>3. b \in 0..(n - 1) /\ table[b] \in Seq(Live) /\ Once(table[b])
  <2>1. b \in 0..(n - 1)
    BY <1>1, <1>2, ChainIs
  <2> QED
    BY <1>1, <2>1 DEF SoundTable
<1>4. \A d \in 0..(n - 1) : s \in ToSet(table[d]) => d = b
  <2> SUFFICES ASSUME NEW d \in 0..(n - 1), s \in ToSet(table[d]) PROVE d = b
    OBVIOUS
  <2>1. In(table[d], s)
    BY DEF In, ToSet
  <2> HIDE DEF n
  <2> QED
    BY <1>1, <2>1, ChainsApart
<1>5. s \in ToSet(table[b])
  BY <1>2 DEF In, ToSet
<1>6. c = b
  BY <1>1, <1>3, <1>4, <1>5
<1> DEFINE q == CHOOSE r \in DOMAIN table[b] : table[b][r] = s
<1>7. q \in DOMAIN table[b] /\ table[b][q] = s
  BY <1>2 DEF In
<1>8. NextEvent(i, s) =
        IF q < Len(table[b]) THEN [on |-> TRUE, index |-> i, at |-> table[b][q + 1]]
        ELSE [on |-> TRUE, index |-> i + 1, at |-> None]
  BY <1>6 DEF NextEvent
<1> HIDE DEF q, b
<1>9. q \in Nat
  BY <1>3, <1>7, LenProperties
<1> QED
  BY <1>3, <1>7, <1>8, <1>9 DEF b

(* One visit: the entry s is met, and the loop has come by it.              *)
LEMMA VisitCounts ==
  ASSUME Kept, Placed, ~ wild, Looping, NEW w \in Loops, NEW s \in Live,
         NEW i \in 0..(Size - 1), Visit(w, i, s),
         hsteady[w] # {} => In(table[i], s),
         \A x \in Live : entry[x].key \in hsteady[w] =>
           hmet[w][entry[x].key] = IF Passed(table, Size, entry, i, s, x) THEN 1 ELSE 0
  PROVE  /\ GoodEvent(loop'[w], Size)
         /\ hmet'[w] = [k \in Key |-> hmet'[w][k]]
         /\ Counts(table, Size, entry, Live, loop'[w], hsteady[w], hmet'[w])
<1> DEFINE n == Size
           key == entry[s].key
           st == hsteady[w]
           mt == hmet'[w]
           lp == loop'[w]
<1>1. n \in Nat /\ n >= 2 /\ Live \subseteq Slot /\ None \notin Slot
  BY HashesAssumption DEF HashAssumption, Kept, Placed
<1>2. /\ lp = NextEvent(i, s)
      /\ mt = [k \in Key |-> IF k = key /\ k \in st THEN hmet[w][k] + 1 ELSE hmet[w][k]]
  BY DEF Visit, Looping
<1>3. PICK b \in 0..(n - 1), p \in Nat :
           /\ p \in DOMAIN table[b] /\ b = Chain(key, n) /\ table[b][p] = s
           /\ table[b] \in Seq(Live) /\ Once(table[b])
           /\ lp = IF p < Len(table[b]) THEN [on |-> TRUE, index |-> i, at |-> table[b][p + 1]]
                   ELSE [on |-> TRUE, index |-> i + 1, at |-> None]
  BY <1>2, NextEventIs
<1>4. DOMAIN table[b] = 1..Len(table[b]) /\ Len(table[b]) \in Nat
      /\ \A j \in DOMAIN table[b] : table[b][j] \in Live
  BY <1>3, LenProperties, ElementOfSeq
<1>5. p < Len(table[b]) => p + 1 \in DOMAIN table[b] /\ table[b][p + 1] \in Live
  BY <1>3, <1>4
<1>6. GoodEvent(lp, n) /\ lp.on
  <2>1. CASE p < Len(table[b])
    <3>1. lp = [on |-> TRUE, index |-> i, at |-> table[b][p + 1]] /\ table[b][p + 1] \in Slot
      BY <1>1, <1>3, <1>5, <2>1
    <3>2. i \in 0..(n - 1)
      OBVIOUS
    <3> HIDE DEF lp, n
    <3> QED
      BY <1>1, <3>1, <3>2 DEF GoodEvent, Event
  <2>2. CASE ~ (p < Len(table[b]))
    <3>1. lp = [on |-> TRUE, index |-> i + 1, at |-> None]
      BY <1>3, <2>2
    <3>2. i \in 0..(n - 1)
      OBVIOUS
    <3> HIDE DEF lp, n
    <3> QED
      BY <1>1, <3>1, <3>2 DEF GoodEvent, Event
  <2> QED
    BY <2>1, <2>2
<1>7. mt = [k \in Key |-> mt[k]]
  BY <1>2
<1>8. Counts(table, n, entry, Live, loop[w], st, hmet[w])
  BY DEF Looping
<1>9. \A k \in Key : k \notin st => mt[k] = 0
  BY <1>2, <1>8 DEF Counts
<1>10. CASE st = {}
  <2> HIDE DEF mt, st, lp, n
  <2>1. Counts(table, n, entry, Live, lp, st, mt)
    BY <1>9, <1>10, CountsNothing
  <2> QED
    BY <1>6, <1>7, <2>1 DEF mt, st, lp, n
<1>11. CASE st # {}
  <2>1. i = b
    <3>1. In(table[i], s) /\ SoundTable(table, n, entry, Live)
      BY <1>11 DEF Placed
    <3> HIDE DEF n
    <3> QED
      BY <1>3, <3>1, ChainsApart DEF n
  <2>2. lp.at # None => lp.at \in Live /\ In(table[lp.index], lp.at)
    <3>1. CASE p < Len(table[b])
      <4>1. lp.index = b /\ lp.at = table[b][p + 1]
        BY <1>3, <2>1, <3>1
      <4> QED
        BY <1>5, <3>1, <4>1 DEF In
    <3>2. CASE ~ (p < Len(table[b]))
      <4>1. lp.at = None
        BY <1>3, <3>2
      <4> QED
        BY <4>1
    <3> QED
      BY <3>1, <3>2
  <2>3. ASSUME NEW x \in Live
        PROVE  /\ Passed(table, n, entry, lp.index, lp.at, x)
                    <=> Passed(table, n, entry, i, s, x) \/ x = s
               /\ ~ Passed(table, n, entry, i, s, s)
    <3> DEFINE home == Chain(entry[x].key, n)
    <3>1. entry[x].key \in Key /\ In(table[home], x)
      BY DEF Kept, Placed
    <3>2. home \in 0..(n - 1)
      BY <1>1, <3>1, ChainIs
    <3>3. s # None /\ ~ Before(table[b], s, s)
      <4>1. In(table[b], s)
        BY <1>3 DEF In
      <4>2. ~ Before(table[b], s, s)
        BY <1>3, <4>1, NextInChain
      <4> QED
        BY <1>1, <4>2
    <3>4. ~ Passed(table, n, entry, i, s, s)
      BY <1>1, <1>3, <2>1, <3>3 DEF Passed
    <3>5. CASE home # b
      <4>1. x # s
        BY <1>3, <3>5
      <4>2. Passed(table, n, entry, i, s, x) <=> home < i
        BY <2>1, <3>5 DEF Passed
      <4>3. Passed(table, n, entry, lp.index, lp.at, x) <=> home < i
        <5>1. CASE p < Len(table[b])
          <6>1. lp.index = i
            BY <1>3, <5>1
          <6> QED
            BY <2>1, <3>5, <6>1 DEF Passed
        <5>2. CASE ~ (p < Len(table[b]))
          <6>1. lp.index = i + 1 /\ lp.at = None
            BY <1>3, <5>2
          <6>2. home < i + 1 <=> home < i
            BY <2>1, <3>2, <3>5
          <6> QED
            BY <6>1, <6>2 DEF Passed
        <5> QED
          BY <5>1, <5>2
      <4> QED
        BY <3>4, <4>1, <4>2, <4>3
    <3>6. CASE home = b
      <4>1. Passed(table, n, entry, i, s, x) <=> Before(table[b], x, s)
        BY <1>1, <2>1, <3>2, <3>3, <3>6 DEF Passed
      <4>2. /\ p < Len(table[b]) =>
                 (Before(table[b], x, table[b][p + 1]) <=> Before(table[b], x, s) \/ x = s)
            /\ ~ (p < Len(table[b])) => Before(table[b], x, s) \/ x = s
        <5>1. In(table[b], x)
          BY <3>1, <3>6
        <5> QED
          BY <1>3, <5>1, NextInChain
      <4>3. Passed(table, n, entry, lp.index, lp.at, x) <=> Before(table[b], x, s) \/ x = s
        <5>1. CASE p < Len(table[b])
          <6>1. lp.index = b /\ lp.at = table[b][p + 1] /\ lp.at # None
            BY <1>1, <1>3, <1>5, <2>1, <5>1
          <6> QED
            BY <3>2, <3>6, <4>2, <5>1, <6>1 DEF Passed
        <5>2. CASE ~ (p < Len(table[b]))
          <6>1. lp.index = b + 1 /\ lp.at = None
            BY <1>3, <2>1, <5>2
          <6>2. home < b + 1
            BY <3>2, <3>6
          <6> QED
            BY <4>2, <5>2, <6>1, <6>2 DEF Passed
        <5> QED
          BY <5>1, <5>2
      <4> QED
        BY <3>4, <4>1, <4>3
    <3> QED
      BY <3>5, <3>6
  <2>4. ASSUME NEW x \in Live, entry[x].key \in st
        PROVE  mt[entry[x].key] = IF Passed(table, n, entry, lp.index, lp.at, x) THEN 1 ELSE 0
    <3>1. entry[x].key \in Key /\ (entry[x].key = key <=> x = s)
      BY DEF Kept
    <3>2. hmet[w][entry[x].key] = IF Passed(table, n, entry, i, s, x) THEN 1 ELSE 0
      BY <2>4
    <3>3. mt[entry[x].key] = IF x = s THEN hmet[w][entry[x].key] + 1 ELSE hmet[w][entry[x].key]
      BY <1>2, <2>4, <3>1
    <3> QED
      BY <2>3, <3>2, <3>3
  <2> HIDE DEF mt, lp, n
  <2>5. Counts(table, n, entry, Live, lp, st, mt)
    BY <1>6, <1>8, <1>9, <2>2, <2>4 DEF Counts
  <2> QED
    BY <1>6, <1>7, <2>5 DEF mt, lp, n
<1> QED
  BY <1>10, <1>11

(* The loops as they are, while the hash changes under them.                *)
LEMMA DisturbLooping ==
  ASSUME Looping, Placed, Placed', NEW loops, NEW k, Disturb(loops, k), loop' = loop, Size <= Size',
         \A w \in Loops : Counts(table', Size', entry', Live', loop[w], hsteady'[w], hmet'[w])
  PROVE  Looping'
<1>1. /\ hsteady' = [w \in Loops |-> IF w \in loops THEN {} ELSE hsteady[w] \ {k}]
      /\ hmet' = [w \in Loops |-> [j \in Key |-> IF j \in hsteady'[w] THEN hmet[w][j] ELSE 0]]
  BY DEF Disturb
<1>2. loop = [w \in Loops |-> loop[w]] /\ \A w \in Loops : GoodEvent(loop[w], Size)
  BY DEF Looping
<1>3. hsteady' = [w \in Loops |-> hsteady'[w]] /\ hmet' = [w \in Loops |-> hmet'[w]]
  BY <1>1
<1>4. \A w \in Loops : hmet'[w] = [j \in Key |-> hmet'[w][j]]
  BY <1>1
<1>5. \A w \in Loops : GoodEvent(loop[w], Size')
  <2>1. Size \in Nat /\ Size' \in Nat
    BY DEF Placed
  <2> DEFINE n == Size
             m == Size'
  <2>2. n \in Nat /\ m \in Nat /\ n <= m /\ \A w \in Loops : GoodEvent(loop[w], n)
    BY <1>2, <2>1
  <2> HIDE DEF n, m
  <2>3. \A w \in Loops : GoodEvent(loop[w], m)
    BY <2>2 DEF GoodEvent, Event
  <2> QED
    BY <2>3 DEF m
<1> QED
  BY <1>2, <1>3, <1>4, <1>5 DEF Looping

(* What Disturb leaves of one loop's names.                                 *)
LEMMA DisturbLeaves ==
  ASSUME Kept, Looping, NEW loops, NEW k, Disturb(loops, k), NEW w \in Loops
  PROVE  /\ hsteady'[w] = IF w \in loops THEN {} ELSE hsteady[w] \ {k}
         /\ hmet'[w] = [j \in Key |-> IF j \in hsteady'[w] THEN hmet[w][j] ELSE 0]
         /\ hsteady'[w] \subseteq hsteady[w] /\ hsteady'[w] \subseteq Key /\ k \notin hsteady'[w]
<1>1. /\ hsteady'[w] = IF w \in loops THEN {} ELSE hsteady[w] \ {k}
      /\ hmet'[w] = [j \in Key |-> IF j \in hsteady'[w] THEN hmet[w][j] ELSE 0]
  BY DEF Disturb
<1>2. hsteady[w] \subseteq Key
  BY DEF Looping, Counts, Kept
<1> QED
  BY <1>1, <1>2

(* Where set() of a new name puts its entry.                                *)
LEMMA AddTable ==
  ASSUME Kept, Placed, ~ wild, NEW k \in Key, NEW v \in Data, NEW s \in Slot, HashAdd(k, v, s)
  PROVE  /\ Size <= Size'
         /\ ~ Grows(entries + 1, Size) => Size' = Size /\ SameOrder(table, table', Size, s)
<1> DEFINE n == Size
           T == Live \cup {s}
           home == Chain(k, n)
           u == InFront(table, s, home)
<1>1. /\ s \notin Live /\ Kept' /\ Live' = T
      /\ entry'[s] = [key |-> k, data |-> v] /\ \A t \in Live : entry'[t] = entry[t]
  BY AddKept
<1>2. /\ SoundTable(table, n, entry, Live) /\ n \in Nat /\ n >= 2 /\ DOMAIN table = 0..(n - 1)
      /\ home \in 0..(n - 1)
  <2>1. SoundTable(table, n, entry, Live) /\ n \in Nat /\ n >= 2 /\ DOMAIN table = 0..(n - 1)
    BY DEF Placed
  <2> QED
    BY <2>1, ChainIs
<1>3. SoundTable(u, n, entry', T)
  <2>1. \A t \in Live : entry'[t].key = entry[t].key
    BY <1>1
  <2>2. SoundTable(table, n, entry', Live)
    BY <1>2, <2>1, SoundSame
  <2>3. entry'[s].key = k
    BY <1>1
  <2> HIDE DEF n
  <2>4. SoundTable(InFront(table, s, Chain(entry'[s].key, n)), n, entry', T)
    BY <1>1, <2>2, <2>3, SoundInFront
  <2> QED
    BY <2>3, <2>4
<1>4. table' = IF Grows(entries + 1, n) THEN Rehashed(u, entry', Grown(n)) ELSE u
  <2>1. Cardinality(DOMAIN entry') = entries + 1
    BY <1>1 DEF Kept, Live, HashAdd
  <2>2. table' = Prepended(table, entry', s) /\ entry'[s].key = k
    BY <1>1 DEF HashAdd
  <2> QED
    BY <2>1, <2>2 DEF Prepended, Size
<1>5. CASE Grows(entries + 1, n)
  <2> DEFINE m == Grown(n)
  <2>1. m \in Nat /\ m >= 2 /\ n < m
    BY <1>2, GrowsEnough
  <2> HIDE DEF m, u, n
  <2>2. SoundTable(table', m, entry', T)
    BY <1>3, <1>4, <1>5, <2>1, SoundRehashed DEF m
  <2>3. DOMAIN table' = 0..(m - 1)
    BY <2>2 DEF SoundTable
  <2>4. Cardinality(DOMAIN table') = m
    BY <2>1, <2>3, SizeIs
  <2>5. Size' = m
    BY <2>4 DEF Size
  <2> QED
    BY <1>2, <1>5, <2>1, <2>5 DEF n
<1>6. CASE ~ Grows(entries + 1, n)
  <2>1. table' = u
    BY <1>4, <1>6
  <2>2. u = [b \in 0..(n - 1) |-> IF b = home THEN <<s>> \o table[home] ELSE table[b]]
    <3>1. u = [table EXCEPT ![home] = <<s>> \o table[home]]
      BY DEF InFront
    <3> HIDE DEF u, n, home
    <3> QED
      BY <1>2, <3>1
  <2> HIDE DEF u
  <2>3. Size' = n
    <3>1. DOMAIN table' = 0..(n - 1)
      BY <2>1, <2>2
    <3>2. Cardinality(DOMAIN table') = n
      BY <1>2, <3>1, SizeIs
    <3> QED
      BY <3>2 DEF Size
  <2> HIDE DEF n, home
  <2>4. Shifted(table[home], u[home], s) /\ Once(u[home])
    <3>1. table[home] \in Seq(Live)
      BY <1>2 DEF SoundTable
    <3>2. table[home] \in Seq(T)
      BY <3>1, SeqMonotonic
    <3>3. u[home] = <<s>> \o table[home]
      BY <1>2, <2>2
    <3>4. Shifted(table[home], <<s>> \o table[home], s)
      BY <3>2, FrontShifted
    <3>5. Once(u[home])
      BY <1>2, <1>3 DEF SoundTable
    <3> QED
      BY <3>3, <3>4, <3>5
  <2>5. /\ \A x : x # s => (In(table[home], x) <=> In(u[home], x))
        /\ \A x, y : x # s /\ y # s => (Before(table[home], x, y) <=> Before(u[home], x, y))
    BY <2>4, ShiftedIs
  <2>6. SameOrder(table, u, n, s)
    <3> SUFFICES ASSUME NEW b \in 0..(n - 1)
                 PROVE  /\ \A x : x # s => (In(table[b], x) <=> In(u[b], x))
                        /\ \A x, y : x # s /\ y # s => (Before(table[b], x, y) <=> Before(u[b], x, y))
      BY DEF SameOrder
    <3>1. CASE b = home
      BY <2>5, <3>1
    <3>2. CASE b # home
      <4>1. u[b] = table[b]
        BY <2>2, <3>2
      <4> QED
        BY <4>1
    <3> QED
      BY <3>1, <3>2
  <2> QED
    BY <1>2, <2>1, <2>3, <2>6 DEF n
<1> QED
  BY <1>5, <1>6

LEMMA AddLooping ==
  ASSUME Kept, Placed, Looping, ~ wild,
         NEW k \in Key, NEW v \in Data, NEW s \in Slot, HashAdd(k, v, s)
  PROVE  Looping'
<1> DEFINE loops == IF Grows(entries + 1, Size) THEN Loops ELSE {}
<1>1. /\ s \notin Live /\ Placed' /\ Live' = Live \cup {s}
      /\ entry'[s].key = k /\ \A t \in Live : entry'[t] = entry[t]
      /\ \A t \in Live : entry[t].key # k
  <2>1. /\ s \notin Live /\ Placed' /\ Live' = Live \cup {s}
        /\ entry'[s] = [key |-> k, data |-> v] /\ \A t \in Live : entry'[t] = entry[t]
        /\ \A t \in Live : entry[t].key # k
    BY AddKept
  <2> QED
    BY <2>1
<1>2. Disturb(loops, k) /\ loop' = loop
  BY DEF HashAdd
<1>3. /\ Size <= Size'
      /\ ~ Grows(entries + 1, Size) => Size' = Size /\ SameOrder(table, table', Size, s)
  BY AddTable
<1>4. ASSUME NEW w \in Loops
      PROVE  Counts(table', Size', entry', Live', loop[w], hsteady'[w], hmet'[w])
  <2>1. /\ hsteady'[w] = IF w \in loops THEN {} ELSE hsteady[w] \ {k}
        /\ hmet'[w] = [j \in Key |-> IF j \in hsteady'[w] THEN hmet[w][j] ELSE 0]
        /\ hsteady'[w] \subseteq hsteady[w] /\ hsteady'[w] \subseteq Key /\ k \notin hsteady'[w]
    <3> HIDE DEF loops
    <3> QED
      BY <1>2, DisturbLeaves
  <2>2. CASE Grows(entries + 1, Size)
    <3>1. hsteady'[w] = {} /\ \A j \in Key : hmet'[w][j] = 0
      BY <2>1, <2>2
    <3> QED
      BY <3>1, CountsNothing
  <2>3. CASE ~ Grows(entries + 1, Size)
    <3> DEFINE n == Size
               st2 == hsteady'[w]
               mt2 == hmet'[w]
    <3>1. /\ n \in Nat /\ n >= 1 /\ GoodEvent(loop[w], n)
          /\ Counts(table, n, entry, Live, loop[w], hsteady[w], hmet[w])
      BY DEF Placed, Looping
    <3>2. loop[w].index \in Nat /\ (loop[w].at # None => loop[w].index < n)
      BY <3>1 DEF GoodEvent, Event
    <3>3. st2 # {} => loop[w].at # s
      <4> SUFFICES ASSUME st2 # {}, loop[w].at = s PROVE FALSE
        OBVIOUS
      <4>1. s # None
        BY HashesAssumption DEF HashAssumption
      <4>2. loop[w].at \in Live
        BY <2>1, <3>1, <4>1 DEF Counts
      <4> QED
        BY <1>1, <4>2
    <3>4. \A x \in Live \ {s} : entry'[x].key = entry[x].key /\ entry[x].key \in Key
      BY <1>1 DEF Kept
    <3>5. Live \ {s} = (Live \cup {s}) \ {s}
      OBVIOUS
    <3>6. SameOrder(table, table', n, s) /\ Size' = n
      BY <1>3, <2>3
    <3>7. /\ st2 \subseteq hsteady[w] /\ st2 \subseteq Key /\ entry'[s].key \notin st2
          /\ mt2 = [j \in Key |-> IF j \in st2 THEN hmet[w][j] ELSE 0]
      BY <1>1, <2>1
    <3> HIDE DEF st2, mt2, n
    <3>8. Counts(table', n, entry', Live \cup {s}, loop[w], st2, mt2)
      BY <1>1, <3>1, <3>2, <3>3, <3>4, <3>5, <3>6, <3>7, CountsStay
    <3> QED
      BY <1>1, <3>6, <3>8 DEF st2, mt2
  <2> QED
    BY <2>2, <2>3
<1> HIDE DEF loops
<1> QED
  BY <1>1, <1>2, <1>3, <1>4, DisturbLooping

LEMMA RemoveLooping ==
  ASSUME Kept, Placed, Looping, ~ wild, NEW k \in Key, HashRemove(k)
  PROVE  Looping'
<1> DEFINE n == Size
<1>1. Placed' /\ Size' = n /\ loop' = loop
  BY RemoveKept DEF HashRemove
<1>2. PICK s \in Live :
        /\ entry[s].key = k /\ Live' = Live \ {s}
        /\ entry' = [t \in Live \ {s} |-> entry[t]]
        /\ IF First(s) THEN table' = Unlinked(s) ELSE table' = table
        /\ Disturb({w \in Loops : loop[w].at = s}, k)
  BY RemoveKept
<1>3. n \in Nat /\ n >= 2 /\ \A b \in 0..(n - 1) : Once(table[b])
  BY DEF Placed
<1>4. SameOrder(table, table', n, s)
  <2>1. CASE First(s)
    <3> DEFINE home == Chain(entry[s].key, n)
               u == Unlinked(s)
    <3>1. /\ home \in 0..(n - 1) /\ Shifted(u[home], table[home], s)
          /\ u = [b \in 0..(n - 1) |-> IF b = home THEN Tail(table[b]) ELSE table[b]]
      BY <2>1, UnlinkedIs
    <3>2. table' = u
      BY <1>2, <2>1
    <3> HIDE DEF u, home, n
    <3>3. /\ \A x : x # s => (In(table[home], x) <=> In(u[home], x))
          /\ \A x, y : x # s /\ y # s => (Before(table[home], x, y) <=> Before(u[home], x, y))
      BY <1>3, <3>1, ShiftedIs
    <3> SUFFICES ASSUME NEW b \in 0..(n - 1)
                 PROVE  /\ \A x : x # s => (In(table[b], x) <=> In(u[b], x))
                        /\ \A x, y : x # s /\ y # s => (Before(table[b], x, y) <=> Before(u[b], x, y))
      BY <3>2 DEF SameOrder
    <3>4. CASE b = home
      BY <3>3, <3>4
    <3>5. CASE b # home
      <4>1. u[b] = table[b]
        BY <3>1, <3>5
      <4> QED
        BY <4>1
    <3> QED
      BY <3>4, <3>5
  <2>2. CASE ~ First(s)
    BY <1>2, <2>2 DEF SameOrder
  <2> QED
    BY <2>1, <2>2
<1> DEFINE loops == {w \in Loops : loop[w].at = s}
<1>5. ASSUME NEW w \in Loops
      PROVE  Counts(table', n, entry', Live', loop[w], hsteady'[w], hmet'[w])
  <2> DEFINE st2 == hsteady'[w]
             mt2 == hmet'[w]
  <2>1. /\ st2 = IF w \in loops THEN {} ELSE hsteady[w] \ {k}
        /\ mt2 = [j \in Key |-> IF j \in st2 THEN hmet[w][j] ELSE 0]
        /\ st2 \subseteq hsteady[w] /\ st2 \subseteq Key /\ k \notin st2
    <3>1. Disturb(loops, k)
      BY <1>2
    <3> HIDE DEF loops
    <3> QED
      BY <3>1, DisturbLeaves
  <2>2. /\ GoodEvent(loop[w], n)
        /\ Counts(table, n, entry, Live, loop[w], hsteady[w], hmet[w])
    BY DEF Looping
  <2>3. loop[w].index \in Nat /\ (loop[w].at # None => loop[w].index < n)
    BY <2>2 DEF GoodEvent, Event
  <2>4. st2 # {} => loop[w].at # s
    BY <2>1
  <2>5. \A x \in Live \ {s} : entry'[x].key = entry[x].key /\ entry[x].key \in Key
    BY <1>2 DEF Kept
  <2>6. Live \ {s} = (Live \ {s}) \ {s} /\ entry[s].key \notin st2
    BY <1>2, <2>1
  <2>7. st2 \subseteq hsteady[w] /\ st2 \subseteq Key
    BY <2>1
  <2>8. mt2 = [j \in Key |-> IF j \in st2 THEN hmet[w][j] ELSE 0] /\ n >= 1
    BY <1>3, <2>1
  <2> HIDE DEF st2, mt2, n, loops
  <2>9. Counts(table', n, entry', Live \ {s}, loop[w], st2, mt2)
    BY <1>3, <1>4, <2>2, <2>3, <2>4, <2>5, <2>6, <2>7, <2>8, CountsStay
  <2> QED
    BY <1>2, <2>9 DEF st2, mt2
<1>6. n <= n
  BY <1>3
<1> HIDE DEF n
<1> QED
  BY <1>1, <1>2, <1>5, <1>6, DisturbLooping DEF n

LEMMA ExceptIs ==
  ASSUME NEW S, NEW f, f = [x \in S |-> f[x]], NEW w \in S, NEW v,
         NEW g, g = [f EXCEPT ![w] = v]
  PROVE  /\ g = [x \in S |-> g[x]]
         /\ \A x \in S : g[x] = IF x = w THEN v ELSE f[x]
OBVIOUS

(* The loop w alone goes on, over a hash that stays as it is.               *)
LEMMA OneLoopOn ==
  ASSUME Looping, UNCHANGED hash, NEW w \in Loops, NEW lp, NEW st, NEW mt,
         loop' = [loop EXCEPT ![w] = lp],
         hsteady' = [hsteady EXCEPT ![w] = st],
         hmet' = [hmet EXCEPT ![w] = mt],
         GoodEvent(lp, Size), mt = [k \in Key |-> mt[k]],
         Counts(table, Size, entry, Live, lp, st, mt)
  PROVE  Looping'
<1>1. table' = table /\ entry' = entry
  BY DEF hash
<1>2. Live' = Live /\ Size' = Size
  BY <1>1 DEF Live, Size
<1>0. /\ loop = [x \in Loops |-> loop[x]]
      /\ hsteady = [x \in Loops |-> hsteady[x]]
      /\ hmet = [x \in Loops |-> hmet[x]]
  BY DEF Looping
<1>3. /\ loop' = [x \in Loops |-> loop'[x]]
      /\ \A x \in Loops : loop'[x] = IF x = w THEN lp ELSE loop[x]
  BY <1>0, ExceptIs
<1>4. /\ hsteady' = [x \in Loops |-> hsteady'[x]]
      /\ \A x \in Loops : hsteady'[x] = IF x = w THEN st ELSE hsteady[x]
  BY <1>0, ExceptIs
<1>6. /\ hmet' = [x \in Loops |-> hmet'[x]]
      /\ \A x \in Loops : hmet'[x] = IF x = w THEN mt ELSE hmet[x]
  BY <1>0, ExceptIs
<1>5. ASSUME NEW x \in Loops
      PROVE  /\ GoodEvent(loop'[x], Size)
             /\ hmet'[x] = [k \in Key |-> hmet'[x][k]]
             /\ Counts(table, Size, entry, Live, loop'[x], hsteady'[x], hmet'[x])
  <2>1. CASE x = w
    <3>1. loop'[x] = lp /\ hsteady'[x] = st /\ hmet'[x] = mt
      BY <1>3, <1>4, <1>6, <2>1
    <3>2. mt = [k \in Key |-> mt[k]] /\ GoodEvent(lp, Size)
          /\ Counts(table, Size, entry, Live, lp, st, mt)
      OBVIOUS
    <3> QED
      BY <3>1, <3>2
  <2>2. CASE x # w
    <3>1. loop'[x] = loop[x] /\ hsteady'[x] = hsteady[x] /\ hmet'[x] = hmet[x]
      BY <1>3, <1>4, <1>6, <2>2
    <3> QED
      BY <3>1 DEF Looping
  <2> QED
    BY <2>1, <2>2
<1> QED
  BY <1>1, <1>2, <1>3, <1>4, <1>5, <1>6 DEF Looping

LEMMA ForeachLooping ==
  ASSUME Kept, Placed, Looping, ~ wild, NEW w \in Loops, HashForeach(w)
  PROVE  Looping'
<1> DEFINE lp == [on |-> TRUE, index |-> 0, at |-> None]
           st == {entry[s].key : s \in Live}
<1>1. /\ loop' = [loop EXCEPT ![w] = lp] /\ hsteady' = [hsteady EXCEPT ![w] = st]
      /\ hmet' = [hmet EXCEPT ![w] = hmet[w]] /\ ~ loop[w].on /\ UNCHANGED hash
  <2>2. hmet = [hmet EXCEPT ![w] = hmet[w]]
    BY DEF Looping
  <2> HIDE DEF lp, st
  <2> QED
    BY <2>2 DEF HashForeach, st, lp
<1>2. Counts(table, Size, entry, Live, loop[w], hsteady[w], hmet[w])
      /\ hmet[w] = [k \in Key |-> hmet[w][k]]
  BY DEF Looping
<1>3. \A k \in Key : hmet[w][k] = 0
  BY <1>1, <1>2 DEF Counts
<1>4. GoodEvent(lp, Size)
  BY DEF GoodEvent, Event, Placed
<1>5. Counts(table, Size, entry, Live, lp, st, hmet[w])
  <2>1. \A s \in Live : entry[s].key \in Key /\ ~ Passed(table, Size, entry, lp.index, lp.at, s)
    <3> SUFFICES ASSUME NEW s \in Live
                 PROVE  entry[s].key \in Key /\ ~ Passed(table, Size, entry, 0, None, s)
      OBVIOUS
    <3>1. entry[s].key \in Key /\ Size \in Nat /\ Size >= 1
      BY DEF Kept, Placed
    <3>2. Chain(entry[s].key, Size) \in 0..(Size - 1)
      BY <3>1, ChainIs
    <3> QED
      BY <3>1, <3>2 DEF Passed
  <2> QED
    BY <1>3, <2>1 DEF Counts
<1> HIDE DEF lp, st
<1> QED
  BY <1>1, <1>2, <1>4, <1>5, OneLoopOn

LEMMA GivenLooping ==
  ASSUME Kept, Placed, Looping, ~ wild, NEW w \in Loops, ForeachGiven(w), loop[w].at \in Live
  PROVE  Looping'
<1> DEFINE s == loop[w].at
           i == loop[w].index
<1>1. Visit(w, i, s) /\ s # None
  BY DEF ForeachGiven
<1>2. Counts(table, Size, entry, Live, loop[w], hsteady[w], hmet[w]) /\ GoodEvent(loop[w], Size)
  BY DEF Looping
<1>3. i \in 0..(Size - 1)
  <2>1. i \in Nat /\ i < Size /\ Size \in Nat
    BY <1>1, <1>2 DEF GoodEvent, Event, Placed
  <2> HIDE DEF i
  <2> QED
    BY <2>1
<1>4. hsteady[w] # {} => In(table[i], s)
  BY <1>1, <1>2 DEF Counts
<1>5. \A x \in Live : entry[x].key \in hsteady[w] =>
        hmet[w][entry[x].key] = IF Passed(table, Size, entry, i, s, x) THEN 1 ELSE 0
  BY <1>2 DEF Counts
<1>6. s \in Live
  OBVIOUS
<1> HIDE DEF s, i
<1>7. /\ GoodEvent(loop'[w], Size)
      /\ hmet'[w] = [k \in Key |-> hmet'[w][k]]
      /\ Counts(table, Size, entry, Live, loop'[w], hsteady[w], hmet'[w])
  BY <1>1, <1>3, <1>4, <1>5, <1>6, VisitCounts
<1>8. /\ loop' = [loop EXCEPT ![w] = loop'[w]] /\ hsteady' = [hsteady EXCEPT ![w] = hsteady[w]]
      /\ hmet' = [hmet EXCEPT ![w] = hmet'[w]] /\ UNCHANGED hash
  BY <1>1 DEF Visit, Looping
<1> QED
  BY <1>7, <1>8, OneLoopOn

LEMMA ScansLooping ==
  ASSUME Kept, Placed, Looping, ~ wild, NEW w \in Loops, ForeachScans(w)
  PROVE  Looping'
<1> DEFINE n == Size
           from == loop[w].index
<1>1. Counts(table, n, entry, Live, loop[w], hsteady[w], hmet[w]) /\ GoodEvent(loop[w], n)
  BY DEF Looping
<1>2. loop[w].at = None /\ from \in Nat /\ n \in Nat /\ n >= 2
  BY <1>1 DEF GoodEvent, Event, Placed, ForeachScans
<1>3. PICK i \in from..(n - 1) :
        /\ table[i] # <<>>
        /\ \A j \in from..(i - 1) : table[j] = <<>>
        /\ Visit(w, i, Head(table[i]))
  BY DEF ForeachScans
<1>4. i \in 0..(n - 1) /\ i \in Nat /\ from <= i
  BY <1>2, <1>3
<1> DEFINE s == Head(table[i])
<1>5. table[i] \in Seq(Live) /\ Once(table[i])
  BY <1>4 DEF Placed, SoundTable
<1>6. /\ s \in Live /\ In(table[i], s) /\ \A x : ~ Before(table[i], x, s)
  <2>1. /\ Shifted(Tail(table[i]), table[i], s) /\ s = table[i][1] /\ 1 \in DOMAIN table[i]
    BY <1>3, <1>5, TailShifted
  <2>2. table[i][1] \in Live
    BY <1>5, <2>1, LenProperties, ElementOfSeq
  <2> QED
    BY <1>5, <2>1, <2>2, ShiftedIs DEF In
<1>7. Visit(w, i, s)
  BY <1>3
<1> HIDE DEF s, from
<1>8. ASSUME NEW x \in Live
      PROVE  Passed(table, n, entry, i, s, x) <=> Passed(table, n, entry, from, None, x)
  <2> DEFINE b == Chain(entry[x].key, n)
  <2>1. entry[x].key \in Key /\ In(table[b], x)
    BY DEF Kept, Placed
  <2>2. b \in 0..(n - 1)
    BY <1>2, <2>1, ChainIs
  <2>3. table[b] # <<>>
    BY <2>1 DEF In
  <2>4. ~ (b \in from..(i - 1))
    BY <1>3, <2>3
  <2>5. b < i <=> b < from
    BY <1>2, <1>4, <2>2, <2>4
  <2>6. Passed(table, n, entry, i, s, x) <=> b < i
    BY <1>6 DEF Passed
  <2>7. Passed(table, n, entry, from, None, x) <=> b < from
    BY DEF Passed
  <2> QED
    BY <2>5, <2>6, <2>7
<1>9. \A x \in Live : entry[x].key \in hsteady[w] =>
        hmet[w][entry[x].key] = IF Passed(table, n, entry, i, s, x) THEN 1 ELSE 0
  BY <1>1, <1>2, <1>8 DEF Counts, from
<1>10. /\ GoodEvent(loop'[w], n)
       /\ hmet'[w] = [k \in Key |-> hmet'[w][k]]
       /\ Counts(table, n, entry, Live, loop'[w], hsteady[w], hmet'[w])
  BY <1>4, <1>6, <1>7, <1>9, VisitCounts
<1>11. /\ loop' = [loop EXCEPT ![w] = loop'[w]] /\ hsteady' = [hsteady EXCEPT ![w] = hsteady[w]]
       /\ hmet' = [hmet EXCEPT ![w] = hmet'[w]] /\ UNCHANGED hash
  BY <1>7 DEF Visit, Looping
<1> QED
  BY <1>10, <1>11, OneLoopOn

LEMMA SameLooping ==
  ASSUME Looping, UNCHANGED <<hash, loop, hsteady, hmet>>
  PROVE  Looping'
<1>1. table' = table /\ entry' = entry /\ loop' = loop /\ hsteady' = hsteady /\ hmet' = hmet
  BY DEF hash
<1>2. Live' = Live /\ Size' = Size
  BY <1>1 DEF Live, Size
<1> QED
  BY <1>1, <1>2 DEF Looping

(* Nothing is on: at the start, and after a restart.                        *)
LEMMA IdleLooping ==
  ASSUME NEW t, NEW n \in Nat, NEW ent, NEW S
  PROVE  GoodEvent(Idle, n) /\ Counts(t, n, ent, S, Idle, {}, NoneMet)
         /\ NoneMet = [k \in Key |-> NoneMet[k]]
<1>1. \A k \in Key : NoneMet[k] = 0
  BY DEF NoneMet
<1>2. Counts(t, n, ent, S, Idle, {}, NoneMet)
  BY <1>1, CountsNothing
<1>3. GoodEvent(Idle, n)
  BY DEF GoodEvent, Event, Idle
<1> QED
  BY <1>2, <1>3 DEF NoneMet

LEMMA ReloadLooping ==
  ASSUME Kept, Placed, ~ wild, Reload
  PROVE  Looping'
<1>1. /\ loop' = [w \in Loops |-> Idle] /\ hsteady' = [w \in Loops |-> {}]
      /\ hmet' = [w \in Loops |-> NoneMet]
  BY DEF Reload
<1>2. Size' \in Nat
  BY ReloadKept DEF Placed
<1>3. /\ GoodEvent(Idle, Size') /\ Counts(table', Size', entry', Live', Idle, {}, NoneMet)
      /\ NoneMet = [k \in Key |-> NoneMet[k]]
  BY <1>2, IdleLooping
<1> QED
  BY <1>1, <1>3 DEF Looping

LEMMA InitLooping == HashInit => Looping
<1> SUFFICES ASSUME HashInit PROVE Looping
  OBVIOUS
<1>1. /\ loop = [w \in Loops |-> Idle] /\ hsteady = [w \in Loops |-> {}]
      /\ hmet = [w \in Loops |-> NoneMet]
  BY DEF HashInit
<1>2. Size \in Nat
  BY InitKept DEF Placed
<1>3. /\ GoodEvent(Idle, Size) /\ Counts(table, Size, entry, Live, Idle, {}, NoneMet)
      /\ NoneMet = [k \in Key |-> NoneMet[k]]
  BY <1>2, IdleLooping
<1> QED
  BY <1>1, <1>3 DEF Looping

LEMMA StepLooping ==
  ASSUME Kept, Placed, Looping, [HashNext]_hashVars
  PROVE  Looping'
<1>1. CASE UNCHANGED hashVars
  <2>1. UNCHANGED <<hash, loop, hsteady, hmet>>
    BY <1>1 DEF hashVars
  <2> QED
    BY <2>1, SameLooping
<1>2. CASE HashNext
  <2>1. ~ wild
    BY <1>2 DEF HashNext
  <2>2. CASE HashCall
    <3>1. UNCHANGED <<hash, loop, hsteady, hmet>>
      BY <2>2 DEF HashCall, HashGet, HashRemoveNothing, HashKeys, HashToArray
    <3> QED
      BY <3>1, SameLooping
  <2>3. ASSUME NEW w \in Loops, HashForeach(w) PROVE Looping'
    BY <2>1, <2>3, ForeachLooping
  <2>4. ASSUME NEW w \in Loops, ForeachGiven(w) PROVE Looping'
    <3>1. CASE loop[w].at \in Live
      BY <2>1, <2>4, <3>1, GivenLooping
    <3>2. CASE loop[w].at \notin Live
      <4>1. UNCHANGED <<hash, loop, hsteady, hmet>>
        BY <2>4, <3>2 DEF ForeachGiven
      <4> QED
        BY <4>1, SameLooping
    <3> QED
      BY <3>1, <3>2
  <2>5. ASSUME NEW w \in Loops, ForeachScans(w) PROVE Looping'
    BY <2>1, <2>5, ScansLooping
  <2>6. ASSUME NEW w \in Loops, ForeachEnds(w) PROVE Looping'
    <3>1. /\ loop' = [loop EXCEPT ![w] = Idle] /\ hsteady' = [hsteady EXCEPT ![w] = {}]
          /\ hmet' = [hmet EXCEPT ![w] = NoneMet] /\ UNCHANGED hash
      BY <2>6 DEF ForeachEnds
    <3>2. Size \in Nat
      BY DEF Placed
    <3>3. /\ GoodEvent(Idle, Size) /\ Counts(table, Size, entry, Live, Idle, {}, NoneMet)
          /\ NoneMet = [k \in Key |-> NoneMet[k]]
      BY <3>2, IdleLooping
    <3> QED
      BY <3>1, <3>3, OneLoopOn
  <2>7. CASE \E k \in Key : HashRemove(k)
    BY <2>1, <2>7, RemoveLooping
  <2>8. ASSUME NEW k \in Key, NEW v \in Data, HashReplace(k, v) PROVE Looping'
    <3>1. Live' = Live /\ \A s \in Live : entry'[s].key = entry[s].key
      BY <2>1, <2>8, ReplaceKept
    <3>2. table' = table /\ loop' = loop /\ hsteady' = hsteady /\ hmet' = hmet
      BY <2>8 DEF HashReplace
    <3>3. Size' = Size
      BY <3>2 DEF Size
    <3>4. ASSUME NEW w \in Loops
          PROVE  Counts(table, Size, entry', Live, loop[w], hsteady[w], hmet[w])
      <4>1. Counts(table, Size, entry, Live, loop[w], hsteady[w], hmet[w])
        BY DEF Looping
      <4> QED
        BY <3>1, <4>1, CountsSame
    <3> QED
      BY <3>1, <3>2, <3>3, <3>4 DEF Looping
  <2>9. CASE \E k \in Key, v \in Data, s \in Slot : HashAdd(k, v, s)
    BY <2>1, <2>9, AddLooping
  <2>10. CASE Reload
    BY <2>1, <2>10, ReloadLooping
  <2> QED
    BY <1>2, <2>2, <2>3, <2>4, <2>5, <2>6, <2>7, <2>8, <2>9, <2>10 DEF HashNext, HashCall
<1> QED
  BY <1>1, <1>2

LEMMA LoopingMeets == Kept /\ Placed /\ Looping => StayersMetOnce
<1> SUFFICES ASSUME Kept, Placed, Looping, NEW w \in Loops, AtEnd(w), NEW k \in hsteady[w]
             PROVE  hmet[w][k] = 1
  BY DEF StayersMetOnce
<1>1. Counts(table, Size, entry, Live, loop[w], hsteady[w], hmet[w]) /\ GoodEvent(loop[w], Size)
  BY DEF Looping
<1>2. PICK s \in Live : entry[s].key = k
  BY <1>1 DEF Counts
<1> DEFINE b == Chain(k, Size)
<1>3. k \in Key /\ In(table[b], s) /\ Size \in Nat /\ Size >= 2
  BY <1>2 DEF Kept, Placed
<1>4. b \in 0..(Size - 1)
  BY <1>3, ChainIs
<1>5. loop[w].index \in Nat
  BY <1>1 DEF GoodEvent, Event
<1>6. b < loop[w].index
  <2>1. table[b] # <<>>
    BY <1>3 DEF In
  <2>2. ~ (b \in loop[w].index..(Size - 1))
    BY <2>1 DEF AtEnd
  <2> HIDE DEF b
  <2> QED
    BY <1>3, <1>4, <1>5, <2>2
<1>7. Passed(table, Size, entry, loop[w].index, loop[w].at, s)
  BY <1>2, <1>6 DEF Passed
<1> QED
  BY <1>1, <1>2, <1>7 DEF Counts

LEMMA InvIsTypeOK == Kept /\ Placed /\ Looping => HashTypeOK
<1> SUFFICES ASSUME Kept, Placed, Looping PROVE HashTypeOK
  OBVIOUS
<1>1. \A s \in Live : \E i \in DOMAIN table[Chain(entry[s].key, Size)] :
        table[Chain(entry[s].key, Size)][i] = s
  BY DEF Placed, In
<1>2. wild \/ Cardinality(Live) = Len(Traversal(table))
  BY NamesAre
<1>3. \A w \in Loops : loop[w].at \in Slot \cup {None} /\ loop[w].index \in 0..Size
  <2> SUFFICES ASSUME NEW w \in Loops
               PROVE  loop[w].at \in Slot \cup {None} /\ loop[w].index \in 0..Size
    OBVIOUS
  <2>1. GoodEvent(loop[w], Size) /\ Size \in Nat
    BY DEF Looping, Placed
  <2> QED
    BY <2>1 DEF GoodEvent, Event
<1> QED
  BY <1>1, <1>2, <1>3 DEF HashTypeOK, Kept, Placed

LEMMA HashInductive ==
  /\ HashInit => Kept /\ Placed /\ Looping
  /\ Kept /\ Placed /\ Looping /\ [HashNext]_hashVars => Kept' /\ Placed' /\ Looping'
<1>1. HashInit => Kept /\ Placed /\ Looping
  BY InitKept, InitLooping
<1>2. Kept /\ Placed /\ Looping /\ [HashNext]_hashVars => Kept' /\ Placed' /\ Looping'
  BY StepKept, StepLooping
<1> QED
  BY <1>1, <1>2

-----------------------------------------------------------------------------

(* Every entry is in the chain of its name, once, no name has two, m_entries*)
(* counts them, and there are more chains than entries: for any hash        *)
(* function, through growth, removal and reloading (hash.h).                *)
THEOREM HashIsTyped == HashSpec => []HashTypeOK
<1> QED
  BY HashInductive, InvIsTypeOK, PTL DEF HashSpec

(* A foreach over a hash (HashEventForeach, hash.cpp) calls its function    *)
(* once for every name that stays from its beginning to its end, for any    *)
(* number of loops, names and chains, as long as the entry it would come to *)
(* next stays and the table does not grow.                                  *)
THEOREM HashForeachMeetsOnce == HashSpec => []StayersMetOnce
<1> QED
  BY HashInductive, LoopingMeets, PTL DEF HashSpec

(* Both, as they are checked together.                                      *)
LEMMA CollectionsAreBoth == CollectionsSpec => Spec /\ HashSpec
<1>1. CollectionsInit => Init /\ HashInit
  BY DEF CollectionsInit
<1>2. [CollectionsNext]_<<which, vars, hashVars>> => [Next]_vars /\ [HashNext]_hashVars
  BY DEF CollectionsNext
<1> QED
  BY <1>1, <1>2, PTL DEF CollectionsSpec, Spec, HashSpec

(* The array writes within its bounds; every entry of the hash is in the    *)
(* chain of its name, once, and none is counted that is not there.          *)
THEOREM CollectionsAreTyped == CollectionsSpec => []TypesOK
<1>1. TypeOK /\ HashTypeOK => TypesOK
  BY DEF TypesOK
<1> QED
  BY <1>1, CollectionsAreBoth, ArrayIsTyped, HashIsTyped, PTL

(* The hash of the composition is the map, too.                             *)
THEOREM CollectionsKeepTheMap == CollectionsSpec => HashIsMap
<1>1. [M!Next]_(M!vars) => [which = "array" \/ M!Next]_(M!vars)
  OBVIOUS
<1> QED
  BY <1>1, CollectionsAreBoth, HashImplementsMap, PTL
     DEF ImplementsMap, M!Spec, HashIsMap

=============================================================================
