---------------------------- MODULE ThingsProofs ----------------------------
(***************************************************************************)
(* For every set of frames, owners, names and values and any number of     *)
(* things: every entry stays an entry and every line of parents ends, no   *)
(* sequence of writes changes whose a property is, what is written to a    *)
(* thing reaches only the thing and its clones, and a clone is initialised *)
(* from its most distant parent to its nearest, by all of them unless one  *)
(* of the methods cannot be read or throws.                                *)
(***************************************************************************)
EXTENDS Things, SequenceTheorems, WellFoundedInduction, NaturalsInduction, TLAPS

-----------------------------------------------------------------------------
(* Lines of parents.                                                        *)

(* Things are numbered as they are made, after their parents.               *)
Older(n) ==
  /\ n \in Nat
  /\ Made = 0..(n - 1)
  /\ \A t \in Made : parent[t] \in -1..(t - 1)

(* Every set of numbers that is not empty has a least one.                  *)
LEMMA LeastExists ==
  ASSUME NEW S, S \subseteq Nat, S # {}
  PROVE  \E n \in S : \A k \in S : n <= k
<1> DEFINE R == OpToRel(<, Nat)
<1>1. IsWellFoundedOn(R, Nat)
  BY NatLessThanWellFounded
<1>2. \A x, y \in Nat : x < y => <<x, y>> \in R
  BY DEF OpToRel
<1> HIDE DEF R
<1>3. PICK n \in S : \A k \in S : ~ (<<k, n>> \in R)
  BY <1>1, WFMin
<1>4. ASSUME NEW k \in S PROVE n <= k
  <2>1. k \in Nat /\ n \in Nat
    OBVIOUS
  <2>2. ~ (k < n)
    BY <1>2, <1>3, <2>1
  <2> QED
    BY <2>1, <2>2
<1> QED
  BY <1>4

(* Up to any thing, there is a function that has the lines of parents.      *)
LineTo(n, g) ==
  g = [t \in -1..(n - 1) |-> IF t = -1 THEN <<>> ELSE <<t>> \o g[parent[t]]]

LEMMA LinesExist ==
  ASSUME NEW n, Older(n)
  PROVE  \E g : LineTo(n, g)
<1> DEFINE Bad == {k \in 0..n : ~ \E g : LineTo(k, g)}
<1>0. n \in Nat /\ \A t \in 0..(n - 1) : parent[t] \in -1..(t - 1)
  BY DEF Older
<1> SUFFICES ASSUME Bad # {} PROVE FALSE
  <2>1. n \in 0..n
    BY <1>0
  <2> QED
    BY <2>1
<1>1. PICK k \in Bad : \A j \in Bad : k <= j
  <2>1. Bad \subseteq Nat
    BY <1>0
  <2> HIDE DEF Bad
  <2> QED
    BY <2>1, LeastExists
<1>2. k \in 0..n /\ ~ \E g : LineTo(k, g)
  BY <1>1
<1>3. CASE k = 0
  <2> DEFINE g == [t \in {-1} |-> <<>>]
  <2>1. -1..(k - 1) = {-1}
    BY <1>3
  <2>2. LineTo(k, g)
    BY <2>1 DEF LineTo
  <2> QED
    BY <1>2, <2>2
<1>4. CASE k # 0
  <2>1. k - 1 \in 0..n /\ k - 1 \notin Bad
    BY <1>0, <1>1, <1>2, <1>4
  <2>2. PICK g : LineTo(k - 1, g)
    BY <2>1
  <2> DEFINE old == -1..((k - 1) - 1)
             top == <<k - 1>> \o g[parent[k - 1]]
             h   == [t \in -1..(k - 1) |-> IF t = k - 1 THEN top ELSE g[t]]
  <2>3. /\ DOMAIN g = old
        /\ \A t \in old : g[t] = IF t = -1 THEN <<>> ELSE <<t>> \o g[parent[t]]
    BY <2>2 DEF LineTo
  <2>4. -1..(k - 1) = old \cup {k - 1} /\ k - 1 \notin old /\ k - 1 # -1
    BY <1>0, <1>2, <1>4
  <2>5. \A t \in (-1..(k - 1)) \ {-1} : parent[t] \in old
    BY <1>0, <1>2, <1>4
  <2> HIDE DEF old, top
  <2>6. \A t \in old : h[t] = g[t]
    BY <2>4
  <2>7. \A t \in -1..(k - 1) : h[t] = IF t = -1 THEN <<>> ELSE <<t>> \o h[parent[t]]
    <3> SUFFICES ASSUME NEW t \in -1..(k - 1)
                 PROVE  h[t] = IF t = -1 THEN <<>> ELSE <<t>> \o h[parent[t]]
      OBVIOUS
    <3>1. CASE t = k - 1
      BY <2>4, <2>5, <2>6, <3>1 DEF top
    <3>2. CASE t # k - 1
      <4>1. t \in old
        BY <2>4, <3>2
      <4> HIDE DEF h
      <4> QED
        BY <2>3, <2>5, <2>6, <4>1
    <3> QED
      BY <3>1, <3>2
  <2>8. LineTo(k, h)
    BY <2>7 DEF LineTo
  <2> QED
    BY <1>2, <2>8
<1> QED
  BY <1>3, <1>4

(* A thing's line of parents is the thing and its parent's.                 *)
LEMMA AncestryUnfolds ==
  ASSUME NEW n, Older(n)
  PROVE  /\ Ancestry[-1] = <<>>
         /\ \A t \in Made : Ancestry[t] = <<t>> \o Ancestry[parent[t]]
<1>1. PICK g : LineTo(n, g)
  BY LinesExist
<1>2. Made \cup {-1} = -1..(n - 1) /\ -1 \notin Made
  BY DEF Older
<1> DEFINE Unfolds(a) ==
      a = [t \in Made \cup {-1} |-> IF t = -1 THEN <<>> ELSE <<t>> \o a[parent[t]]]
<1>3. Unfolds(g)
  BY <1>1, <1>2 DEF LineTo
<1>4. Ancestry = CHOOSE a : Unfolds(a)
  BY DEF Ancestry
<1>5. Unfolds(Ancestry)
  <2> HIDE DEF Unfolds
  <2> QED
    BY <1>3, <1>4
<1> QED
  BY <1>2, <1>5

(* From any place of a line on, the line is that of the thing there.        *)
Rest(line, i) ==
  /\ Len(Ancestry[line[i]]) = Len(line) + 1 - i
  /\ \A j \in 1..(Len(line) + 1 - i) : Ancestry[line[i]][j] = line[i + j - 1]

Straight(t) ==
  /\ Ancestry[t] \in Seq(Made)
  /\ Len(Ancestry[t]) > 0
  /\ \A i \in 1..Len(Ancestry[t]) : Rest(Ancestry[t], i)

LEMMA LinesAreStraight ==
  ASSUME NEW n, Older(n)
  PROVE  \A t \in Made : Straight(t)
<1> DEFINE Bad == {t \in Made : ~ Straight(t)}
<1>0. /\ n \in Nat /\ Made = 0..(n - 1)
      /\ \A t \in Made : parent[t] \in -1..(t - 1)
  BY DEF Older
<1>1. /\ Ancestry[-1] = <<>>
      /\ \A t \in Made : Ancestry[t] = <<t>> \o Ancestry[parent[t]]
  BY AncestryUnfolds
<1> HIDE DEF Bad
<1> SUFFICES ASSUME Bad # {} PROVE FALSE
  BY DEF Bad
<1>2. PICK t \in Bad : \A k \in Bad : t <= k
  <2>1. Bad \subseteq Nat
    BY <1>0 DEF Bad
  <2> QED
    BY <2>1, LeastExists
<1>3. t \in Made /\ ~ Straight(t)
  BY <1>2 DEF Bad
<1> DEFINE above == Ancestry[parent[t]]
           line  == Ancestry[t]
<1>4. above \in Seq(Made) /\ \A i \in 1..Len(above) : Rest(above, i)
  <2>1. CASE parent[t] = -1
    <3>1. above = <<>>
      BY <1>1, <2>1
    <3>2. 1..Len(<<>>) = {}
      OBVIOUS
    <3> QED
      BY <3>1, <3>2
  <2>2. CASE parent[t] # -1
    <3>1. parent[t] \in Made /\ ~ (t <= parent[t])
      BY <1>0, <1>3, <2>2
    <3>2. parent[t] \notin Bad
      BY <1>2, <3>1
    <3> QED
      BY <3>1, <3>2 DEF Bad, Straight
  <2> QED
    BY <2>1, <2>2
<1>5. <<t>> \in Seq(Made) /\ Len(<<t>>) = 1 /\ <<t>>[1] = t
  BY <1>3
<1>6. line = <<t>> \o above
  BY <1>1, <1>3
<1> HIDE DEF above, line
<1>7. /\ line \in Seq(Made) /\ Len(line) = Len(above) + 1 /\ Len(above) \in Nat
      /\ line[1] = t
      /\ \A i \in 1..Len(above) : line[i + 1] = above[i]
  <2>1. Len(above) \in Nat
    BY <1>4, LenProperties
  <2>2. /\ <<t>> \o above \in Seq(Made)
        /\ Len(<<t>> \o above) = Len(<<t>>) + Len(above)
        /\ \A i \in 1..(Len(<<t>>) + Len(above)) :
             (<<t>> \o above)[i] = IF i <= Len(<<t>>) THEN <<t>>[i] ELSE above[i - Len(<<t>>)]
    BY <1>4, <1>5, ConcatProperties
  <2>3. /\ line \in Seq(Made) /\ Len(line) = 1 + Len(above)
        /\ \A i \in 1..(1 + Len(above)) : line[i] = IF i <= 1 THEN t ELSE above[i - 1]
    <3>1. \A i \in 1..(1 + Len(above)) : i <= 1 => i = 1
      BY <2>1
    <3> QED
      BY <1>5, <1>6, <2>1, <2>2, <3>1
  <2> QED
    BY <2>1, <2>3
<1>8. ASSUME NEW i \in 1..Len(line)
      PROVE  Rest(line, i)
  <2>1. CASE i = 1
    BY <1>7, <2>1 DEF Rest, line
  <2>2. CASE i # 1
    <3>1. i - 1 \in 1..Len(above) /\ line[i] = above[i - 1]
      BY <1>7, <2>2
    <3>2. Rest(above, i - 1)
      BY <1>4, <3>1
    <3>3. Len(line) + 1 - i = Len(above) + 1 - (i - 1)
      BY <1>7
    <3>4. ASSUME NEW j \in 1..(Len(line) + 1 - i)
          PROVE  above[(i - 1) + j - 1] = line[i + j - 1]
      <4>1. (i - 1) + j - 1 \in 1..Len(above) /\ ((i - 1) + j - 1) + 1 = i + j - 1
        BY <1>7, <3>1, <3>3
      <4> QED
        BY <1>7, <4>1
    <3> QED
      BY <3>1, <3>2, <3>3, <3>4 DEF Rest
  <2> QED
    BY <2>1, <2>2
<1>9. Straight(t)
  BY <1>7, <1>8 DEF Straight, line
<1> QED
  BY <1>3, <1>9

(* The first place of a line where a table has an entry, if there is one.   *)
Has(tab, line, n) == {i \in DOMAIN line : n \in DOMAIN tab[line[i]]}
Nearest(tab, line, n) == CHOOSE i \in Has(tab, line, n) : \A j \in Has(tab, line, n) : i <= j

LEMMA NearestHolds ==
  ASSUME NEW tab, NEW S, NEW line \in Seq(S), NEW n, Has(tab, line, n) # {}
  PROVE  /\ Nearest(tab, line, n) \in Has(tab, line, n)
         /\ \A j \in Has(tab, line, n) : Nearest(tab, line, n) <= j
<1>1. Has(tab, line, n) \subseteq Nat
  BY LenProperties DEF Has
<1>2. \E i \in Has(tab, line, n) : \A j \in Has(tab, line, n) : i <= j
  BY <1>1, LeastExists
<1> QED
  BY <1>2 DEF Nearest

LEMMA HolderIsNearest ==
  ASSUME NEW tab, NEW t, NEW n
  PROVE  Holder(tab, t, n) =
           IF Has(tab, Ancestry[t], n) = {} THEN None
           ELSE Ancestry[t][Nearest(tab, Ancestry[t], n)]
BY DEF Holder, Has, Nearest

-----------------------------------------------------------------------------
(* Every entry is an entry, whatever is written.                            *)

Func == Value \cup {None, Denied}
Call == [func : Func, this : Made]

Table(entries) == entries \in [DOMAIN entries -> Entry]
Tables(tab) ==
  /\ tab = [t \in Made |-> tab[t]]
  /\ \A t \in Made : Table(tab[t])

Methods(tab) == \A t \in Made : DOMAIN tab[t] \subseteq Method

Results == Value \cup {None, Native, Denied, Mistyped}

Typed ==
  /\ inits \in Seq(Seq(Func))
  /\ Older(Len(inits))
  /\ Len(inits) <= MaxThings
  /\ Len(due) = Len(inits) /\ \E S : due \in Seq(S)
  /\ Tables(prop)
  /\ Tables(meth) /\ Methods(meth)
  /\ calls \in [Frame -> Seq(Call)]
  /\ ret \in Results

LEMMA TypedIsTypeOK == Typed => TypeOK
<1> SUFFICES ASSUME Typed
             PROVE  TypeOK
  OBVIOUS
<1>1. /\ Made = 0..(Len(inits) - 1)
      /\ \A t \in Made : parent[t] \in -1..(t - 1)
  BY DEF Typed, Older
<1>2. \A t \in Made : \A n \in DOMAIN prop[t] : prop[t][n] \in Entry
  BY DEF Typed, Tables, Table
<1>3. \A t \in Made : \A n \in DOMAIN meth[t] : n \in Method /\ meth[t][n] \in Entry
  BY DEF Typed, Tables, Table, Methods
<1>4. ret \in Value \cup {None, Native, Denied, Mistyped}
  BY DEF Typed, Results
<1>5. ASSUME NEW f \in Frame, NEW i \in DOMAIN calls[f]
      PROVE  calls[f][i].this \in Made
  <2>1. calls[f] \in Seq(Call)
    BY DEF Typed
  <2>2. i \in 1..Len(calls[f])
    BY <2>1, LenProperties
  <2>3. calls[f][i] \in Call
    BY <2>1, <2>2, ElementOfSeq
  <2> QED
    BY <2>3 DEF Call
<1> QED
  BY <1>1, <1>2, <1>3, <1>4, <1>5 DEF TypeOK

(* Every thing that is made is one of the things, and so a value.           *)
LEMMA MadeAreValues == Typed => Made \subseteq Value /\ Made \subseteq Nat
BY ThingsAssumption DEF Typed, Older, Value, Thing

(* An entry is looked up in the line of parents and found or not.           *)
LEMMA HolderHas ==
  ASSUME Typed, NEW tab, NEW t \in Made, NEW n, Holder(tab, t, n) # None
  PROVE  /\ Holder(tab, t, n) \in Made
         /\ n \in DOMAIN tab[Holder(tab, t, n)]
<1> DEFINE line == Ancestry[t]
<1>1. line \in Seq(Made)
  BY LinesAreStraight DEF Typed, Straight
<1>2. /\ Has(tab, line, n) # {}
      /\ Holder(tab, t, n) = line[Nearest(tab, line, n)]
  BY HolderIsNearest
<1> HIDE DEF line
<1>3. Nearest(tab, line, n) \in Has(tab, line, n)
  BY <1>1, <1>2, NearestHolds
<1>4. /\ Nearest(tab, line, n) \in 1..Len(line)
      /\ n \in DOMAIN tab[line[Nearest(tab, line, n)]]
  BY <1>1, <1>3, LenProperties DEF Has
<1> QED
  BY <1>1, <1>2, <1>4, ElementOfSeq

LEMMA FoundTyped ==
  ASSUME Typed, NEW f, NEW tab, Tables(tab), NEW t \in Made, NEW n
  PROVE  Found(f, tab, t, n) \in Func
<1> DEFINE h == Holder(tab, t, n)
<1>1. CASE h = None
  BY <1>1 DEF Found, Func
<1>2. CASE h # None
  <2>1. h \in Made /\ n \in DOMAIN tab[h]
    BY <1>2, HolderHas
  <2> HIDE DEF h
  <2>2. tab[h][n] \in Entry
    BY <2>1 DEF Tables, Table
  <2>3. tab[h][n].data \in Value
    BY <2>2 DEF Entry
  <2> QED
    BY <2>3 DEF Found, Func, h
<1> QED
  BY <1>1, <1>2

(* Storing a value keeps an entry's owner and mode, and the other entries.  *)
Keeps(old, new, n) ==
  /\ DOMAIN new = DOMAIN old \cup {n}
  /\ \A m \in DOMAIN old : new[m].owner = old[m].owner /\ new[m].mode = old[m].mode

LEMMA StoredKeeps ==
  ASSUME NEW f \in Frame, NEW entries, NEW n, NEW v \in Value, Table(entries)
  PROVE  /\ Table(Stored(f, entries, n, v))
         /\ Keeps(entries, Stored(f, entries, n, v), n)
<1> DEFINE s == Stored(f, entries, n, v)
<1>1. CASE n \in DOMAIN entries
  <2> DEFINE e == [data |-> v, owner |-> entries[n].owner, mode |-> entries[n].mode]
  <2>1. entries[n] \in Entry
    BY <1>1 DEF Table
  <2>2. [entries[n] EXCEPT !.data = v] = e
    BY <2>1 DEF Entry
  <2>3. s = [m \in DOMAIN entries |-> IF m = n THEN e ELSE entries[m]]
    <3>1. s = [entries EXCEPT ![n] = [entries[n] EXCEPT !.data = v]]
      BY <1>1 DEF Stored
    <3> HIDE DEF e, s
    <3> QED
      BY <2>2, <3>1 DEF Table
  <2>4. e \in Entry /\ e.owner = entries[n].owner /\ e.mode = entries[n].mode
    BY <2>1 DEF Entry
  <2> HIDE DEF e, s
  <2>5. DOMAIN s = DOMAIN entries /\ \A m \in DOMAIN s : s[m] = IF m = n THEN e ELSE entries[m]
    BY <2>3
  <2>6. Table(s)
    BY <2>3, <2>4, <2>5 DEF Table
  <2> QED
    BY <1>1, <2>4, <2>5, <2>6 DEF Keeps, s
<1>2. CASE n \notin DOMAIN entries
  <2> DEFINE e == [data |-> v, owner |-> OwnerOf[f], mode |-> Default]
  <2>1. s = [m \in DOMAIN entries \cup {n} |-> IF m = n THEN e ELSE entries[m]]
    BY <1>2 DEF Stored
  <2>2. e \in Entry /\ e.mode = Default
    BY ThingsAssumption DEF Entry, Default
  <2> HIDE DEF e, s
  <2>3. /\ DOMAIN s = DOMAIN entries \cup {n}
        /\ \A m \in DOMAIN s : s[m] = IF m = n THEN e ELSE entries[m]
    BY <2>1
  <2>4. Table(s)
    BY <2>1, <2>2, <2>3 DEF Table
  <2> QED
    BY <1>2, <2>2, <2>3, <2>4 DEF Keeps, s
<1> QED
  BY <1>1, <1>2

(* Only the table of the thing itself is written.                           *)
LEMMA WrittenKeeps ==
  ASSUME NEW f \in Frame, NEW tab, Tables(tab), NEW t \in Made, NEW n, NEW v \in Value
  PROVE  /\ Tables(Written(f, tab, t, n, v))
         /\ \A u \in Made : Written(f, tab, t, n, v)[u] =
                              IF u = t THEN Stored(f, tab[t], n, v) ELSE tab[u]
<1> DEFINE w == Written(f, tab, t, n, v)
           s == Stored(f, tab[t], n, v)
<1>1. w = [tab EXCEPT ![t] = s]
  BY DEF Written
<1>2. Table(s)
  BY StoredKeeps DEF Tables
<1> HIDE DEF w, s
<1>3. w = [u \in Made |-> IF u = t THEN s ELSE tab[u]]
  BY <1>1 DEF Tables
<1>4. \A u \in Made : w[u] = IF u = t THEN s ELSE tab[u]
  BY <1>3
<1>5. Tables(w)
  BY <1>2, <1>3, <1>4 DEF Tables
<1> QED
  BY <1>4, <1>5 DEF w, s

(* The one thing read from its file has number 0.                           *)
LEMMA InitTyped == Init => Typed
<1> SUFFICES ASSUME Init
             PROVE  Typed
  OBVIOUS
<1>1. /\ inits = <<<<>>>> /\ due = <<<<>>>> /\ parent = [t \in {0} |-> -1]
      /\ ret = None /\ calls = [f \in Frame |-> <<>>]
  BY DEF Init
<1>2. PICK e \in [data : Plain, owner : {OwnerOf[f] : f \in Frame}, mode : Mode] :
        /\ \E n \in {p \in Path : Len(p) = 1} : prop = [t \in {0} |-> [m \in {n} |-> e]]
        /\ \E l \in Lambda :
             meth = [t \in {0} |-> [m \in {initialize} |-> [e EXCEPT !.data = l]]]
  BY DEF Init
<1>3. PICK n \in {p \in Path : Len(p) = 1} : prop = [t \in {0} |-> [m \in {n} |-> e]]
  BY <1>2
<1>a. PICK l \in Lambda :
        meth = [t \in {0} |-> [m \in {initialize} |-> [e EXCEPT !.data = l]]]
  BY <1>2
<1>4. /\ inits \in Seq(Seq(Func)) /\ Len(inits) = 1
      /\ Len(due) = 1 /\ due \in Seq({<<>>})
  BY <1>1
<1>5. Made = {0} /\ 0..(1 - 1) = {0} /\ \A t \in Made : parent[t] \in -1..(t - 1)
  BY <1>1 DEF Made
<1>6. Older(1)
  BY <1>5 DEF Older
<1>7. e \in Entry
  <2>1. {OwnerOf[f] : f \in Frame} \subseteq Int /\ Mode \subseteq SUBSET Right
    BY ThingsAssumption
  <2> QED
    BY <2>1 DEF Entry, Value
<1>8. Tables(prop)
  <2>1. prop = [t \in {0} |-> prop[t]] /\ prop[0] = [m \in {n} |-> e]
    BY <1>3
  <2>2. Table(prop[0])
    BY <1>7, <2>1 DEF Table
  <2> QED
    BY <1>5, <2>1, <2>2 DEF Tables
<1>9. Tables(meth) /\ Methods(meth)
  <2> DEFINE d == [e EXCEPT !.data = l]
  <2>1. d \in Entry
    BY <1>7 DEF Entry, Value
  <2> HIDE DEF d
  <2>2. meth = [t \in {0} |-> meth[t]] /\ meth[0] = [m \in {initialize} |-> d]
    BY <1>a DEF d
  <2>3. DOMAIN meth[0] = {initialize} /\ meth[0][initialize] = d
    BY <2>2
  <2>4. Table(meth[0])
    BY <2>1, <2>2, <2>3 DEF Table
  <2>5. initialize \in Method
    BY ThingsAssumption
  <2> QED
    BY <1>5, <2>1, <2>2, <2>3, <2>4, <2>5 DEF Tables, Methods
<1>10. calls \in [Frame -> Seq(Call)]
  BY <1>1
<1>11. 1 <= MaxThings /\ ret \in Results
  BY <1>1, ThingsAssumption DEF Results
<1> QED
  BY <1>4, <1>6, <1>8, <1>9, <1>10, <1>11 DEF Typed

(* A step that makes nothing and pushes nothing only has to write tables.   *)
LEMMA WritingTyped ==
  ASSUME Typed, UNCHANGED <<parent, calls, inits, due>>,
         Tables(prop'), Tables(meth'), Methods(meth'), ret' \in Results
  PROVE  Typed'
<1>1. Made' = Made
  BY DEF Made
<1>2. Tables(prop)' /\ Tables(meth)' /\ Methods(meth)'
  BY <1>1 DEF Tables, Methods
<1>3. Call' = Call
  BY <1>1 DEF Call
<1>4. Older(Len(inits))'
  BY <1>1 DEF Typed, Older
<1> QED
  BY <1>2, <1>3, <1>4 DEF Typed

LEMMA GetPropertyTyped ==
  ASSUME Typed, NEW f \in Frame, NEW t \in Made, NEW path \in Path, GetProperty(f, t, path)
  PROVE  Typed'
<1> DEFINE target == Target(f, t, path)
<1>1. UNCHANGED <<parent, prop, meth, calls, inits, due>>
  BY DEF GetProperty, table, cloning
<1>2. ret' = IF target \in Made THEN Found(f, prop, target, LastName(path)) ELSE Outcome(target)
  BY DEF GetProperty, Yields
<1>3. Outcome(target) \in Results
  BY DEF Outcome, Results
<1> HIDE DEF target
<1>4. target \in Made => Found(f, prop, target, LastName(path)) \in Func
  BY FoundTyped DEF Typed
<1>5. ret' \in Results
  BY <1>2, <1>3, <1>4 DEF Func, Results
<1>6. Tables(prop') /\ Tables(meth') /\ Methods(meth')
  BY <1>1 DEF Typed
<1> QED
  BY <1>1, <1>5, <1>6, WritingTyped

LEMMA SetPropertyTyped ==
  ASSUME Typed, NEW f \in Frame, NEW t \in Made, NEW path \in Path, NEW v \in Made \cup Plain,
         SetProperty(f, t, path, v)
  PROVE  Typed'
<1> DEFINE target == Target(f, t, path)
           n      == LastName(path)
<1>1. UNCHANGED <<parent, meth, calls, inits, due>>
  BY DEF SetProperty, cloning
<1>2. Tables(prop) /\ Tables(meth') /\ Methods(meth')
  BY <1>1 DEF Typed
<1>3. v \in Value
  BY MadeAreValues DEF Value
<1>4. CASE UNCHANGED prop /\ ret' \in {Outcome(target), Denied}
  <2>1. ret' \in Results
    BY <1>4 DEF Outcome, Results
  <2> QED
    BY <1>1, <1>2, <1>4, <2>1, WritingTyped
<1>5. CASE target \in Made /\ prop' = Written(f, prop, target, n, v) /\ ret' = v
  <2> HIDE DEF target, n
  <2>1. Tables(prop')
    BY <1>2, <1>3, <1>5, WrittenKeeps
  <2>2. ret' \in Results
    BY <1>3, <1>5 DEF Results
  <2> QED
    BY <1>1, <1>2, <2>1, <2>2, WritingTyped
<1> QED
  BY <1>4, <1>5 DEF SetProperty, Yields

LEMMA GetMethodTyped ==
  ASSUME Typed, NEW f \in Frame, NEW t \in Made, NEW n \in Method, GetMethod(f, t, n)
  PROVE  Typed'
<1>1. UNCHANGED <<parent, prop, meth, calls, inits, due>>
  BY DEF GetMethod, table, cloning
<1>2. ret' \in {Native, Found(f, meth, t, n)}
  BY DEF GetMethod, Yields
<1>3. Found(f, meth, t, n) \in Func
  BY FoundTyped DEF Typed
<1>4. ret' \in Results
  BY <1>2, <1>3 DEF Func, Results
<1>5. Tables(prop') /\ Tables(meth') /\ Methods(meth')
  BY <1>1 DEF Typed
<1> QED
  BY <1>1, <1>4, <1>5, WritingTyped

LEMMA SetMethodTyped ==
  ASSUME Typed, NEW f \in Frame, NEW t \in Made, NEW n \in Method, NEW l \in Lambda,
         SetMethod(f, t, n, l)
  PROVE  Typed'
<1>1. UNCHANGED <<parent, prop, calls, inits, due>>
  BY DEF SetMethod, cloning
<1>2. Tables(prop') /\ Tables(meth) /\ Methods(meth)
  BY <1>1 DEF Typed
<1>3. l \in Value /\ l \in Results /\ Denied \in Results
  BY DEF Value, Results
<1>4. CASE UNCHANGED meth /\ ret' = Denied
  BY <1>1, <1>2, <1>3, <1>4, WritingTyped
<1>5. CASE meth' = Written(f, meth, t, n, l) /\ ret' = l
  <2> DEFINE s == Stored(f, meth[t], n, l)
  <2>1. /\ Tables(meth')
        /\ \A u \in Made : meth'[u] = IF u = t THEN s ELSE meth[u]
    BY <1>2, <1>3, <1>5, WrittenKeeps
  <2>2. Keeps(meth[t], s, n)
    <3>1. Table(meth[t])
      BY <1>2 DEF Tables
    <3> QED
      BY <1>3, <3>1, StoredKeeps
  <2> HIDE DEF s
  <2>3. DOMAIN s \subseteq Method
    BY <1>2, <2>2 DEF Keeps, Methods
  <2>4. Methods(meth')
    BY <1>2, <2>1, <2>3 DEF Methods
  <2> QED
    BY <1>1, <1>2, <1>3, <1>5, <2>1, <2>4, WritingTyped
<1> QED
  BY <1>4, <1>5 DEF SetMethod, Yields

LEMMA RemoveMethodTyped ==
  ASSUME Typed, NEW f \in Frame, NEW t \in Made, NEW n \in Method, RemoveMethod(f, t, n)
  PROVE  Typed'
<1> DEFINE s == [m \in DOMAIN meth[t] \ {n} |-> meth[t][m]]
<1>1. UNCHANGED <<parent, prop, calls, inits, due>> /\ ret' = None
  BY DEF RemoveMethod, Yields, cloning
<1>2. Tables(prop') /\ Tables(meth) /\ Methods(meth)
  BY <1>1 DEF Typed
<1>3. meth' = [meth EXCEPT ![t] = s]
  BY DEF RemoveMethod
<1>4. /\ Table(s)
      /\ DOMAIN s \subseteq Method
  <2>1. Table(meth[t])
    BY <1>2 DEF Tables
  <2> QED
    BY <1>2, <2>1 DEF Table, Methods
<1> HIDE DEF s
<1>5. /\ meth' = [u \in Made |-> IF u = t THEN s ELSE meth[u]]
      /\ \A u \in Made : meth'[u] = IF u = t THEN s ELSE meth[u]
  BY <1>2, <1>3 DEF Tables
<1>6. Tables(meth') /\ Methods(meth')
  BY <1>2, <1>4, <1>5 DEF Tables, Methods
<1> QED
  BY <1>1, <1>2, <1>6, WritingTyped DEF Results

-----------------------------------------------------------------------------
(* What a clone has from where in its line of parents.                      *)

(* What a thing on a line has is the nearest there is from there on.        *)
From(tab, line, n, i) == {j \in Has(tab, line, n) : i <= j}

HasNearest(tab, line, n, i) ==
  IF From(tab, line, n, i) = {} THEN Holder(tab, line[i], n) = None
  ELSE \E j \in From(tab, line, n, i) :
         /\ \A m \in From(tab, line, n, i) : j <= m
         /\ Holder(tab, line[i], n) = line[j]

LEMMA HolderOnLine ==
  ASSUME Typed, NEW t \in Made, NEW tab, NEW n, NEW i \in 1..Len(Ancestry[t])
  PROVE  HasNearest(tab, Ancestry[t], n, i)
<1> DEFINE line == Ancestry[t]
           rest == Ancestry[line[i]]
           on   == From(tab, line, n, i)
<1>1. line \in Seq(Made) /\ Rest(line, i)
  BY LinesAreStraight DEF Typed, Straight
<1>2. line[i] \in Made
  BY <1>1, ElementOfSeq
<1>3. rest \in Seq(Made)
  BY <1>2, LinesAreStraight DEF Typed, Straight
<1>4. /\ Len(rest) = Len(line) + 1 - i
      /\ \A j \in 1..(Len(line) + 1 - i) : rest[j] = line[i + j - 1]
  BY <1>1 DEF Rest
<1>5. /\ Len(line) \in Nat /\ DOMAIN line = 1..Len(line) /\ i \in 1..Len(line)
      /\ DOMAIN rest = 1..Len(rest)
  BY <1>1, <1>3, LenProperties
<1>6. Holder(tab, line[i], n) =
        IF Has(tab, rest, n) = {} THEN None ELSE rest[Nearest(tab, rest, n)]
  BY HolderIsNearest
<1> HIDE DEF line, rest
<1>7. \A j \in Has(tab, rest, n) : i + j - 1 \in on /\ rest[j] = line[i + j - 1]
  <2> SUFFICES ASSUME NEW j \in Has(tab, rest, n)
               PROVE  i + j - 1 \in on /\ rest[j] = line[i + j - 1]
    OBVIOUS
  <2>1. j \in 1..Len(rest) /\ n \in DOMAIN tab[rest[j]]
    BY <1>5 DEF Has
  <2>2. j \in 1..(Len(line) + 1 - i)
    BY <1>4, <2>1
  <2>3. i + j - 1 \in 1..Len(line) /\ i <= i + j - 1
    BY <1>5, <2>2
  <2>4. rest[j] = line[i + j - 1]
    BY <1>4, <2>2
  <2> QED
    BY <1>5, <2>1, <2>3, <2>4 DEF Has, From
<1>8. \A j \in on : j + 1 - i \in Has(tab, rest, n)
  <2> SUFFICES ASSUME NEW j \in on
               PROVE  j + 1 - i \in Has(tab, rest, n)
    OBVIOUS
  <2>1. j \in 1..Len(line) /\ i <= j /\ n \in DOMAIN tab[line[j]]
    BY <1>5 DEF Has, From
  <2>2. j + 1 - i \in 1..(Len(line) + 1 - i) /\ i + (j + 1 - i) - 1 = j
    BY <1>5, <2>1
  <2>3. rest[j + 1 - i] = line[j]
    BY <1>4, <2>2
  <2> QED
    BY <1>4, <1>5, <2>1, <2>2, <2>3 DEF Has
<1> HIDE DEF on
<1>9. CASE on = {}
  BY <1>6, <1>7, <1>9 DEF HasNearest, on, line
<1>10. CASE on # {}
  <2> DEFINE k == Nearest(tab, rest, n)
  <2>1. Has(tab, rest, n) # {}
    BY <1>8, <1>10
  <2>2. k \in Has(tab, rest, n) /\ \A j \in Has(tab, rest, n) : k <= j
    BY <1>3, <2>1, NearestHolds
  <2>3. k \in 1..Len(rest)
    BY <1>5, <2>2 DEF Has
  <2> HIDE DEF k
  <2>4. i + k - 1 \in on /\ Holder(tab, line[i], n) = line[i + k - 1]
    BY <1>6, <1>7, <2>1, <2>2 DEF k
  <2>5. \A m \in on : i + k - 1 <= m
    <3> SUFFICES ASSUME NEW m \in on
                 PROVE  i + k - 1 <= m
      OBVIOUS
    <3>1. k <= m + 1 - i
      BY <1>8, <2>2
    <3>2. m \in 1..Len(line)
      BY <1>5 DEF on, From, Has
    <3> QED
      BY <1>4, <1>5, <2>3, <3>1, <3>2
  <2> QED
    BY <1>10, <2>4, <2>5 DEF HasNearest, on, line
<1> QED
  BY <1>9, <1>10

(* The parents that have or inherit an initialize method are the first of a *)
(* line, and the last of them has one of its own.                           *)
LEMMA InitializedAreFirst ==
  ASSUME Typed, NEW t \in Made
  PROVE  LET line == Ancestry[t]
             own  == Has(meth, line, initialize)
         IN \E k \in 0..Len(line) :
              /\ Initialized(line) = 1..k
              /\ own \subseteq 1..k
              /\ k # 0 => k \in own
<1> DEFINE line == Ancestry[t]
           own  == Has(meth, line, initialize)
           S    == {k \in 0..Len(line) : \A j \in own : j <= k}
<1>1. line \in Seq(Made)
  BY LinesAreStraight DEF Typed, Straight
<1>2. Len(line) \in Nat /\ DOMAIN line = 1..Len(line)
  BY <1>1, LenProperties
<1>3. own \subseteq 1..Len(line)
  BY <1>2 DEF Has
<1>4. \A i \in 1..Len(line) :
        Holder(meth, line[i], initialize) # None <=> \E j \in own : i <= j
  <2> SUFFICES ASSUME NEW i \in 1..Len(line)
               PROVE  Holder(meth, line[i], initialize) # None <=> \E j \in own : i <= j
    OBVIOUS
  <2>1. HasNearest(meth, line, initialize, i)
    BY HolderOnLine
  <2>2. \A j \in own : line[j] # None
    <3>1. \A j \in own : line[j] \in Made
      BY <1>1, <1>3, ElementOfSeq
    <3> QED
      BY <3>1, MadeAreValues, ThingsAssumption
  <2>3. From(meth, line, initialize, i) = {j \in own : i <= j}
    BY DEF From
  <2> HIDE DEF own, line
  <2> QED
    BY <2>1, <2>2, <2>3 DEF HasNearest
<1> HIDE DEF own, line
<1>5. \E k \in S : \A m \in S : k <= m
  <2>1. Len(line) \in S /\ S \subseteq Nat
    BY <1>2, <1>3
  <2> HIDE DEF S
  <2> QED
    BY <2>1, LeastExists
<1>6. PICK k \in S : \A m \in S : k <= m
  BY <1>5
<1>7. k \in 0..Len(line) /\ own \subseteq 1..k
  BY <1>2, <1>3, <1>6
<1>8. k # 0 => k \in own
  <2> SUFFICES ASSUME k # 0
               PROVE  k \in own
    OBVIOUS
  <2>1. k - 1 \in 0..Len(line) /\ k - 1 \notin S
    <3>1. k - 1 \in 0..Len(line) /\ ~ (k <= k - 1)
      BY <1>2, <1>7
    <3> HIDE DEF S
    <3> QED
      BY <1>6, <3>1
  <2>2. PICK j \in own : ~ (j <= k - 1)
    BY <2>1
  <2> HIDE DEF S
  <2>3. j \in 1..k /\ k \in Nat
    BY <1>2, <1>7
  <2>4. j = k
    BY <2>2, <2>3
  <2> QED
    BY <2>4
<1>9. Initialized(line) = 1..k
  <2>1. ASSUME NEW i \in 1..Len(line)
        PROVE  (\E j \in own : i <= j) <=> i \in 1..k
    BY <1>2, <1>7, <1>8
  <2>2. Initialized(line) = {i \in 1..Len(line) : Holder(meth, line[i], initialize) # None}
    BY <1>2 DEF Initialized
  <2> QED
    BY <1>2, <1>4, <1>7, <2>1, <2>2
<1> QED
  BY <1>7, <1>8, <1>9 DEF own, line

(* A set of numbers that has with any of them those below is all up to one. *)
LEMMA FirstOnes ==
  ASSUME NEW k \in Nat, NEW S, S \subseteq 1..k, \A i \in S : 1..i \subseteq S
  PROVE  \E r \in 0..k : S = 1..r
<1> DEFINE Out == (1..(k + 1)) \ S
<1>1. Out \subseteq Nat /\ k + 1 \in Out
  OBVIOUS
<1>2. PICK m \in Out : \A j \in Out : m <= j
  <2> HIDE DEF Out
  <2> QED
    BY <1>1, LeastExists
<1>3. m \in 1..(k + 1) /\ m \notin S /\ m - 1 \in 0..k
  BY <1>2
<1>4. ASSUME NEW i \in 1..(m - 1)
      PROVE  i \in S
  <2>1. i \in 1..(k + 1) /\ ~ (m <= i)
    BY <1>3
  <2> QED
    BY <1>2, <2>1
<1>5. ASSUME NEW i \in S
      PROVE  i \in 1..(m - 1)
  <2>1. i \in 1..k /\ ~ (m \in 1..i)
    BY <1>3
  <2> QED
    BY <1>3, <2>1
<1> QED
  BY <1>3, <1>4, <1>5

(* So are those whose method a frame can read up to there.                  *)
LEMMA ReadableAreFirst ==
  ASSUME NEW f, NEW line, NEW k \in Nat, Initialized(line) = 1..k
  PROVE  \E r \in 0..k :
           /\ Readable(f, line) = 1..r
           /\ \A i \in 1..r : Found(f, meth, line[i], initialize) # Denied
<1> DEFINE S == Readable(f, line)
<1>1. S = {i \in 1..k : \A j \in 1..i : Found(f, meth, line[j], initialize) # Denied}
  BY DEF Readable
<1>2. S \subseteq 1..k
  BY <1>1
<1>3. ASSUME NEW i \in S, NEW m \in 1..i
      PROVE  m \in S
  <2>1. i \in 1..k /\ m \in 1..k /\ 1..m \subseteq 1..i
    BY <1>2
  <2> QED
    BY <1>1, <2>1
<1>4. \A i \in S : Found(f, meth, line[i], initialize) # Denied
  <2>1. \A i \in S : i \in 1..i
    BY <1>2
  <2> QED
    BY <1>1, <2>1
<1> HIDE DEF S
<1>5. \E r \in 0..k : S = 1..r
  BY <1>2, <1>3, FirstOnes
<1> QED
  BY <1>4, <1>5 DEF S

(* A clone has a number, tables of its own, and calls for its parents.      *)
LEMMA CloneTyped ==
  ASSUME Typed, NEW f \in Frame, NEW t \in Made, Clone(f, t)
  PROVE  Typed'
<1> DEFINE new  == Len(inits)
           line == Ancestry[t]
           push == Pushed(f, line, new)
           news == OwnInitialize(line)
<1>1. /\ parent' = [u \in Made \cup {new} |-> IF u = new THEN NewParent(t, new) ELSE parent[u]]
      /\ prop' = [u \in Made \cup {new} |-> IF u = new THEN <<>> ELSE prop[u]]
      /\ meth' = [u \in Made \cup {new} |-> IF u = new THEN <<>> ELSE meth[u]]
      /\ \/ calls' = [calls EXCEPT ![f] = push]
         \/ calls' = [calls EXCEPT ![f] = <<>>]
      /\ inits' = Append(inits, <<>>)
      /\ due' = Append(due, news)
      /\ ret' \in {new, Denied}
      /\ new < MaxThings
  BY DEF Clone, Yields
<1>2. /\ inits \in Seq(Seq(Func)) /\ Older(new) /\ new \in Nat
      /\ Made = 0..(new - 1) /\ new \notin Made
  <2>1. inits \in Seq(Seq(Func)) /\ Older(new)
    BY DEF Typed
  <2>2. new \in Nat /\ Made = 0..(new - 1)
    BY <2>1 DEF Older
  <2> QED
    BY <2>1, <2>2
<1>3. line \in Seq(Made) /\ DOMAIN line = 1..Len(line) /\ Len(line) \in Nat
  <2>1. line \in Seq(Made)
    BY LinesAreStraight DEF Typed, Straight
  <2> QED
    BY <2>1, LenProperties
<1>b. PICK l \in 0..Len(line) : Initialized(line) = 1..l
  BY InitializedAreFirst
<1>4. PICK k \in 0..Len(line) : Readable(f, line) = 1..k
  <2>1. l \in Nat /\ 0..l \subseteq 0..Len(line)
    BY <1>3
  <2> HIDE DEF line
  <2>2. PICK r \in 0..l : Readable(f, line) = 1..r
    BY <1>b, <2>1, ReadableAreFirst
  <2> QED
    BY <2>1, <2>2
<1>5. \A i \in 1..k : Found(f, meth, line[i], initialize) \in Func
  <2> SUFFICES ASSUME NEW i \in 1..k
               PROVE  Found(f, meth, line[i], initialize) \in Func
    OBVIOUS
  <2>1. i \in 1..Len(line)
    BY <1>3, <1>4
  <2>2. line[i] \in Made
    BY <1>3, <2>1, ElementOfSeq
  <2> HIDE DEF line
  <2> QED
    BY <2>2, FoundTyped DEF Typed
<1>6. inits' \in Seq(Seq(Func)) /\ Len(inits') = new + 1
  <2>1. <<>> \in Seq(Func)
    OBVIOUS
  <2> QED
    BY <1>1, <1>2, <2>1, AppendProperties
<1>7. Len(due') = new + 1 /\ \E S : due' \in Seq(S)
  <2>1. PICK S : due \in Seq(S)
    BY DEF Typed
  <2> HIDE DEF news
  <2>2. due \in Seq(S \cup {news})
    BY <2>1, SeqMonotonic
  <2>3. Append(due, news) \in Seq(S \cup {news}) /\ Len(Append(due, news)) = Len(due) + 1
    BY <2>2, AppendProperties
  <2> QED
    BY <1>1, <2>3 DEF Typed
<1> HIDE DEF new, push, news
<1>8. Made' = Made \cup {new} /\ Made' = 0..((new + 1) - 1) /\ 0..((new + 1) - 1) = 0..new
  <2>1. Made' = Made \cup {new}
    BY <1>1 DEF Made
  <2> QED
    BY <1>2, <2>1
<1>9. \A u \in Made' : parent'[u] \in -1..(u - 1)
  <2>1. t \in 0..(new - 1) /\ NewParent(t, new) = t
    BY <1>2 DEF NewParent
  <2>2. parent'[new] = t /\ t \in -1..(new - 1)
    BY <1>1, <1>2, <2>1
  <2>3. \A u \in Made : parent'[u] = parent[u] /\ parent[u] \in -1..(u - 1)
    BY <1>1, <1>2 DEF Older
  <2>4. Made' = Made \cup {new}
    BY <1>8
  <2> QED
    BY <2>2, <2>3, <2>4
<1>10. Older(Len(inits))'
  <2>1. Made' = 0..(Len(inits') - 1)
    BY <1>6, <1>8
  <2>2. Len(inits') \in Nat
    BY <1>2, <1>6
  <2> QED
    BY <1>9, <2>1, <2>2 DEF Older
<1>11. Table(<<>>)
  BY DEF Table
<1>12. Tables(prop)'
  <2>1. /\ prop' = [u \in Made' |-> prop'[u]] /\ prop'[new] = <<>>
        /\ \A u \in Made : prop'[u] = prop[u]
    BY <1>1, <1>2, <1>8
  <2>2. \A u \in Made' : Table(prop'[u])
    BY <1>8, <1>11, <2>1 DEF Typed, Tables
  <2> QED
    BY <2>1, <2>2 DEF Tables, Table
<1>13. Tables(meth)' /\ Methods(meth)'
  <2>1. /\ meth' = [u \in Made' |-> meth'[u]] /\ meth'[new] = <<>> /\ DOMAIN <<>> = {}
        /\ \A u \in Made : meth'[u] = meth[u]
    BY <1>1, <1>2, <1>8
  <2>2. \A u \in Made' : Table(meth'[u])
    BY <1>8, <1>11, <2>1 DEF Typed, Tables
  <2>3. Methods(meth)'
    BY <1>8, <2>1 DEF Typed, Methods
  <2> QED
    BY <2>1, <2>2, <2>3 DEF Tables, Table
<1>14. Func' = Func /\ Call \subseteq Call' /\ \A x \in Func : [func |-> x, this |-> new] \in Call'
  BY <1>8 DEF Func, Call
<1>15. push \in Seq(Call')
  <2>1. push = [i \in 1..k |-> [func |-> Found(f, meth, line[i], initialize), this |-> new]]
    BY <1>4 DEF push, Pushed, new
  <2>2. push \in [1..k -> Call']
    BY <1>5, <1>14, <2>1
  <2>3. k \in Nat
    BY <1>3, <1>4
  <2> QED
    BY <2>2, <2>3, SeqDef
<1>16. calls' \in [Frame -> Seq(Call')]
  <2>1. \A g \in Frame : calls[g] \in Seq(Call')
    BY <1>14, SeqMonotonic DEF Typed
  <2>2. <<>> \in Seq(Call')
    OBVIOUS
  <2> QED
    BY <1>1, <1>15, <2>1, <2>2 DEF Typed
<1>17. new + 1 <= MaxThings /\ ret' \in Results
  <2>1. new \in Thing
    BY <1>1, <1>2, ThingsAssumption DEF Thing
  <2> QED
    BY <1>1, <1>2, <2>1, ThingsAssumption DEF Results, Value
<1> QED
  BY <1>6, <1>7, <1>10, <1>12, <1>13, <1>14, <1>16, <1>17 DEF Typed, Results

(* The last call is recorded, and what the frame is left with are calls.    *)
LEMMA RunningTyped ==
  ASSUME Typed, NEW f \in Frame, RunInitialize(f) \/ InitializeThrows(f)
  PROVE  Typed'
<1> DEFINE cs   == calls[f]
           call == Last(cs)
           s    == Append(inits[call.this + 1], call.func)
<1>1. /\ cs # <<>>
      /\ inits' = [inits EXCEPT ![call.this + 1] = s]
      /\ \/ calls' = [calls EXCEPT ![f] = Front(cs)]
         \/ calls' = [calls EXCEPT ![f] = <<>>]
      /\ UNCHANGED <<parent, prop, meth, due>>
  BY DEF RunInitialize, InitializeThrows, Idle, table
<1>2. ret' \in Results
  BY MadeAreValues DEF RunInitialize, InitializeThrows, Yields, Results, Value
<1>3. cs \in Seq(Call)
  BY DEF Typed
<1> HIDE DEF cs
<1>4. Len(cs) \in Nat \ {0}
  BY <1>1, <1>3, EmptySeq
<1>5. Front(cs) \in Seq(Call) /\ <<>> \in Seq(Call)
  <2>1. \A i \in 1..(Len(cs) - 1) : cs[i] \in Call
    BY <1>3, <1>4, ElementOfSeq
  <2> QED
    BY <1>4, <2>1, SubSeqProperties DEF Front
<1>6. call \in Call
  BY <1>3, <1>4, ElementOfSeq DEF Last
<1> HIDE DEF call
<1>7. inits \in Seq(Seq(Func)) /\ Made = 0..(Len(inits) - 1) /\ Len(inits) \in Nat
  BY DEF Typed, Older
<1>8. call.this + 1 \in 1..Len(inits) /\ call.func \in Func
  BY <1>6, <1>7 DEF Call
<1>9. s \in Seq(Func)
  <2>1. inits[call.this + 1] \in Seq(Func)
    BY <1>7, <1>8, ElementOfSeq
  <2> QED
    BY <1>8, <2>1, AppendProperties
<1> HIDE DEF s
<1>10. inits' \in Seq(Seq(Func)) /\ Len(inits') = Len(inits)
  <2>1. inits' = [inits EXCEPT ![call.this + 1] = s]
    BY <1>1
  <2> QED
    BY <1>7, <1>8, <1>9, <2>1, ExceptSeq
<1>11. calls' \in [Frame -> Seq(Call)]
  BY <1>1, <1>5 DEF Typed
<1>12. Made' = Made /\ Call' = Call /\ Func' = Func
  BY <1>1 DEF Made, Call, Func
<1>13. Older(Len(inits))' /\ Tables(prop)' /\ Tables(meth)' /\ Methods(meth)'
  BY <1>1, <1>10, <1>12 DEF Typed, Older, Tables, Methods
<1> QED
  BY <1>1, <1>2, <1>10, <1>11, <1>12, <1>13 DEF Typed

LEMMA NextTyped ==
  ASSUME Typed, [Next]_vars
  PROVE  Typed'
<1>1. CASE UNCHANGED vars
  <2>1. UNCHANGED <<parent, prop, meth, ret, calls, inits, due>>
    BY <1>1 DEF vars, table, cloning
  <2>2. Tables(prop') /\ Tables(meth') /\ Methods(meth') /\ ret' \in Results
    BY <2>1 DEF Typed
  <2> QED
    BY <2>1, <2>2, WritingTyped
<1>2. ASSUME NEW f \in Frame, NEW t \in Made, NEW p \in Path, GetProperty(f, t, p)
      PROVE  Typed'
  BY <1>2, GetPropertyTyped
<1>3. ASSUME NEW f \in Frame, NEW t \in Made, NEW p \in Path, NEW v \in Made \cup Plain,
             SetProperty(f, t, p, v)
      PROVE  Typed'
  BY <1>3, SetPropertyTyped
<1>4. ASSUME NEW f \in Frame, NEW t \in Made, NEW n \in Method,
             GetMethod(f, t, n) \/ RemoveMethod(f, t, n) \/ \E l \in Lambda : SetMethod(f, t, n, l)
      PROVE  Typed'
  BY <1>4, GetMethodTyped, RemoveMethodTyped, SetMethodTyped
<1>5. ASSUME NEW f \in Frame, NEW t \in Made, Clone(f, t)
      PROVE  Typed'
  BY <1>5, CloneTyped
<1>6. ASSUME NEW f \in Frame, RunInitialize(f) \/ InitializeThrows(f)
      PROVE  Typed'
  BY <1>6, RunningTyped
<1> QED
  BY <1>1, <1>2, <1>3, <1>4, <1>5, <1>6 DEF Next

(* Whatever frames do, tables hold entries, what is returned is a value or  *)
(* says what went wrong, and every parent is older than its clones.         *)
THEOREM ThingsAreTyped == Spec => []TypeOK
<1>1. Typed /\ [Next]_vars => Typed'
  BY NextTyped
<1> QED
  BY InitTyped, TypedIsTypeOK, <1>1, PTL DEF Spec

-----------------------------------------------------------------------------
(* What a write reaches.                                                    *)

(* A step leaves the properties of every thing alone, or writes one of one. *)
Leaves == \A u \in Made : prop'[u] = prop[u]
Writes ==
  \E f \in Frame, t \in Made, v \in Value : \E n :
    wrote' = t /\ prop' = Written(f, prop, t, n, v)

LEMMA StepsLeaveOrWrite ==
  ASSUME Typed, [Next]_vars
  PROVE  Leaves \/ Writes
<1>1. CASE prop' = prop
  BY <1>1 DEF Leaves
<1>2. ASSUME NEW f \in Frame, NEW t \in Made, NEW p \in Path, NEW v \in Made \cup Plain,
             SetProperty(f, t, p, v), prop' # prop
      PROVE  Writes
  <2>1. v \in Value
    BY MadeAreValues DEF Value
  <2>2. /\ Target(f, t, p) \in Made /\ wrote' = Target(f, t, p)
        /\ prop' = Written(f, prop, Target(f, t, p), LastName(p), v)
    BY <1>2 DEF SetProperty
  <2> QED
    BY <2>1, <2>2 DEF Writes
<1>3. ASSUME NEW f \in Frame, NEW t \in Made, Clone(f, t)
      PROVE  Leaves
  <2>1. prop' = [u \in Made \cup {Len(inits)} |-> IF u = Len(inits) THEN <<>> ELSE prop[u]]
    BY <1>3 DEF Clone
  <2>2. Len(inits) \notin Made
    BY DEF Typed, Older
  <2> QED
    BY <2>1, <2>2 DEF Leaves
<1>4. ASSUME NEW f \in Frame, NEW t \in Made, NEW p \in Path, GetProperty(f, t, p)
      PROVE  prop' = prop
  BY <1>4 DEF GetProperty, table
<1>5. ASSUME NEW f \in Frame, NEW t \in Made, NEW n \in Method,
             GetMethod(f, t, n) \/ RemoveMethod(f, t, n) \/ \E l \in Lambda : SetMethod(f, t, n, l)
      PROVE  prop' = prop
  BY <1>5 DEF GetMethod, RemoveMethod, SetMethod, table
<1>6. ASSUME NEW f \in Frame, RunInitialize(f) \/ InitializeThrows(f)
      PROVE  prop' = prop
  BY <1>6 DEF RunInitialize, InitializeThrows, table
<1>7. CASE UNCHANGED vars
  BY <1>1, <1>7 DEF vars, table
<1> QED
  BY <1>1, <1>2, <1>3, <1>4, <1>5, <1>6, <1>7 DEF Next

(* What the two do not touch stays as it is, and so does an entry's owner   *)
(* and mode.                                                                *)
LEMMA WriteKeeps ==
  ASSUME Typed, Writes
  PROVE  /\ \A u \in Made : u # wrote' => prop'[u] = prop[u]
         /\ \A u \in Made : \A m \in DOMAIN prop[u] :
              /\ m \in DOMAIN prop'[u]
              /\ prop'[u][m].owner = prop[u][m].owner
              /\ prop'[u][m].mode = prop[u][m].mode
<1>1. PICK f \in Frame, t \in Made, v \in Value : \E n :
        wrote' = t /\ prop' = Written(f, prop, t, n, v)
  BY DEF Writes
<1>2. PICK n : wrote' = t /\ prop' = Written(f, prop, t, n, v)
  BY <1>1
<1> DEFINE s == Stored(f, prop[t], n, v)
<1>3. Tables(prop) /\ Table(prop[t])
  BY DEF Typed, Tables
<1>4. \A u \in Made : prop'[u] = IF u = t THEN s ELSE prop[u]
  BY <1>2, <1>3, WrittenKeeps
<1>5. Keeps(prop[t], s, n)
  BY <1>3, StoredKeeps
<1> HIDE DEF s
<1> QED
  BY <1>2, <1>4, <1>5 DEF Keeps

(* No sequence of writes, by whatever frames, changes whose a property is   *)
(* or what others may do with it.                                           *)
THEOREM NobodyTakesOver == Spec => RightsKept
<1>1. Typed /\ [Next]_vars => Typed'
  BY NextTyped
<1>2. Typed /\ [Next]_vars =>
        [\A t \in Made : \A n \in DOMAIN prop[t] :
           /\ n \in DOMAIN prop'[t]
           /\ prop'[t][n].owner = prop[t][n].owner
           /\ prop'[t][n].mode = prop[t][n].mode]_vars
  BY StepsLeaveOrWrite, WriteKeeps DEF Leaves
<1> QED
  BY InitTyped, <1>1, <1>2, PTL DEF Spec, RightsKept

(* What a thing has depends on the tables of its line only.                 *)
LEMMA SeenOnLine ==
  ASSUME Typed, NEW old, NEW new, NEW u \in Made, NEW n,
         \A i \in 1..Len(Ancestry[u]) : new[Ancestry[u][i]] = old[Ancestry[u][i]]
  PROVE  Seen(new, u, n) = Seen(old, u, n)
<1> DEFINE line == Ancestry[u]
<1>1. line \in Seq(Made) /\ DOMAIN line = 1..Len(line)
  <2>1. line \in Seq(Made)
    BY LinesAreStraight DEF Typed, Straight
  <2> QED
    BY <2>1, LenProperties
<1>2. Has(new, line, n) = Has(old, line, n)
  BY <1>1 DEF Has
<1>3. Holder(new, u, n) = Holder(old, u, n)
  <2>1. Nearest(new, line, n) = Nearest(old, line, n)
    BY <1>2 DEF Nearest
  <2>2. /\ Holder(new, u, n) =
             IF Has(new, line, n) = {} THEN None ELSE line[Nearest(new, line, n)]
        /\ Holder(old, u, n) =
             IF Has(old, line, n) = {} THEN None ELSE line[Nearest(old, line, n)]
    BY HolderIsNearest
  <2> QED
    BY <1>2, <2>1, <2>2
<1>4. CASE Has(old, line, n) = {}
  BY <1>3, <1>4, HolderIsNearest DEF Seen
<1>5. CASE Has(old, line, n) # {}
  <2>1. Holder(old, u, n) = line[Nearest(old, line, n)]
    BY <1>5, HolderIsNearest
  <2>2. Nearest(old, line, n) \in 1..Len(line)
    BY <1>1, <1>5, NearestHolds DEF Has
  <2>3. new[Holder(old, u, n)] = old[Holder(old, u, n)]
    BY <2>1, <2>2
  <2> QED
    BY <1>3, <2>3 DEF Seen
<1> QED
  BY <1>4, <1>5

(* What a program writes to a thing is seen in the thing and the clones it  *)
(* is a parent of, and nowhere else.                                        *)
THEOREM WritesReachClones == Spec => WritesStayBelow
<1>1. Typed /\ [Next]_vars => Typed'
  BY NextTyped
<1>2. Typed /\ [Next]_vars =>
        [prop' # prop =>
           \A u \in Made : \A n \in Named :
             Seen(prop', u, n) # Seen(prop, u, n) => Contains(Ancestry[u], wrote')]_vars
  <2> SUFFICES ASSUME Typed, [Next]_vars, NEW u \in Made, NEW n \in Named,
                      ~ Contains(Ancestry[u], wrote')
               PROVE  Seen(prop', u, n) = Seen(prop, u, n)
    OBVIOUS
  <2> DEFINE line == Ancestry[u]
  <2>1. line \in Seq(Made)
    BY LinesAreStraight DEF Typed, Straight
  <2>2. \A i \in 1..Len(line) : line[i] \in Made /\ line[i] # wrote'
    BY <2>1, ElementOfSeq DEF Contains
  <2>3. \A i \in 1..Len(line) : prop'[line[i]] = prop[line[i]]
    BY <2>2, StepsLeaveOrWrite, WriteKeeps DEF Leaves
  <2> QED
    BY <2>3, SeenOnLine
<1> QED
  BY InitTyped, <1>1, <1>2, PTL DEF Spec, WritesStayBelow

-----------------------------------------------------------------------------
(* In what order a clone is initialised.                                    *)

(* What has run, and after it what is still to run, the last call first.    *)
Whole(s, cs) ==
  [i \in 1..(Len(s) + Len(cs)) |->
     IF i <= Len(s) THEN s[i] ELSE cs[Len(s) + Len(cs) + 1 - i].func]

(* The calls of one frame are for one thing, and those of two frames for two*)
Apart ==
  /\ \A f \in Frame : \A i, j \in DOMAIN calls[f] : calls[f][i].this = calls[f][j].this
  /\ \A f, g \in Frame : \A t \in Made : Waits(f, t) /\ Waits(g, t) => f = g

(* Some of d in order; the first of them, and none left out; and all.       *)
Down(s, d)     == \E from \in [DOMAIN s -> DOMAIN d] : Descends(s, d, from)
Begun(s, d)    == \E from \in [DOMAIN s -> DOMAIN d] : Descends(s, d, from) /\ Gapless(s, d, from)
RunsDown(s, d) == \E from \in [DOMAIN s -> DOMAIN d] : Descends(s, d, from) /\ Covers(s, d, from)

(* What has run and will run on a thing t, with no the things that had a    *)
(* method nobody could read, and what has run on it once its calls are over,*)
(* with short those that something threw for.                               *)
Planned(t, no, w, d) == IF t \in no THEN Down(w, d) ELSE RunsDown(w, d)
Done(t, no, short, s, d) ==
  IF t \in no THEN Down(s, d) ELSE IF t \in short THEN Begun(s, d) ELSE RunsDown(s, d)

(* What runs on a thing and will run on it is what was due to it.           *)
InOrder ==
  \A t \in Made :
    /\ DOMAIN due[t + 1] \subseteq Nat
    /\ \A f \in Frame :
         Waits(f, t) => Planned(t, denied, Whole(inits[t + 1], calls[f]), due[t + 1])
    /\ (\A f \in Frame : ~ Waits(f, t)) => Done(t, denied, cut, inits[t + 1], due[t + 1])

Marked == denied \cup cut \subseteq Made

Cloning == Typed /\ Apart /\ Marked /\ InOrder

LEMMA WholeAlone ==
  ASSUME NEW S, NEW s \in Seq(S)
  PROVE  Whole(s, <<>>) = s
<1>1. Len(s) \in Nat /\ s = [i \in 1..Len(s) |-> s[i]]
  BY LenProperties
<1>2. \A i \in 1..Len(s) : i <= Len(s)
  BY <1>1
<1>3. Len(s) + Len(<<>>) = Len(s)
  BY <1>1
<1>4. Whole(s, <<>>) = [i \in 1..Len(s) |-> s[i]]
  BY <1>2, <1>3 DEF Whole
<1> QED
  BY <1>1, <1>4

(* What goes down and leaves nothing out passes over nothing either.        *)
LEMMA CoversGapless ==
  ASSUME NEW S, NEW s \in Seq(S), NEW d, DOMAIN d \subseteq Nat,
         NEW from \in [DOMAIN s -> DOMAIN d], Descends(s, d, from), Covers(s, d, from)
  PROVE  Gapless(s, d, from)
<1>1. DOMAIN s = 1..Len(s) /\ Len(s) \in Nat
  BY LenProperties
<1>2. ASSUME NEW i \in DOMAIN s, NEW k \in DOMAIN d, k > from[i]
      PROVE  \E j \in 1..(i - 1) : from[j] = k
  <2>1. PICK j \in DOMAIN s : from[j] = k
    BY DEF Covers
  <2>2. i \in Nat /\ j \in Nat /\ 1 <= j /\ from[i] \in Nat /\ from[j] \in Nat
    BY <1>1
  <2>3. i # j /\ ~ (i < j)
    BY <1>2, <2>1, <2>2 DEF Descends
  <2> QED
    BY <2>1, <2>2, <2>3
<1> QED
  BY <1>2 DEF Gapless

(* What has run of what is to run comes first in it.                        *)
LEMMA WholeBegins ==
  ASSUME NEW S, NEW s \in Seq(S), NEW C, NEW cs \in Seq(C)
  PROVE  LET w == Whole(s, cs)
         IN /\ DOMAIN w = 1..(Len(s) + Len(cs))
            /\ DOMAIN s = 1..Len(s) /\ DOMAIN s \subseteq DOMAIN w
            /\ \A i \in DOMAIN s : w[i] = s[i]
            /\ \E R : w \in Seq(R)
<1>1. Len(s) \in Nat /\ Len(cs) \in Nat /\ DOMAIN s = 1..Len(s)
  BY LenProperties
<1> DEFINE w == Whole(s, cs)
<1>2. /\ DOMAIN w = 1..(Len(s) + Len(cs))
      /\ \A i \in DOMAIN w : w[i] = IF i <= Len(s) THEN s[i] ELSE cs[Len(s) + Len(cs) + 1 - i].func
      /\ w = [i \in 1..(Len(s) + Len(cs)) |-> w[i]]
  BY DEF Whole
<1> HIDE DEF w
<1>3. \E R : w \in Seq(R)
  <2>1. w \in [1..(Len(s) + Len(cs)) -> {w[i] : i \in DOMAIN w}]
    BY <1>2
  <2>2. Len(s) + Len(cs) \in Nat
    BY <1>1
  <2> QED
    BY <2>1, <2>2, SeqDef
<1>4. DOMAIN s \subseteq DOMAIN w /\ \A i \in DOMAIN s : w[i] = s[i]
  BY <1>1, <1>2
<1> QED
  BY <1>1, <1>2, <1>3, <1>4 DEF w

(* A part of a sequence that goes down goes down, and if the whole leaves   *)
(* nothing out, the part passes over nothing.                               *)
LEMMA PartDown ==
  ASSUME NEW S, NEW s \in Seq(S), NEW C, NEW cs \in Seq(C), NEW d, DOMAIN d \subseteq Nat
  PROVE  /\ Down(Whole(s, cs), d) => Down(s, d)
         /\ RunsDown(Whole(s, cs), d) => Begun(s, d)
<1> DEFINE w == Whole(s, cs)
<1>1. /\ DOMAIN s = 1..Len(s) /\ DOMAIN s \subseteq DOMAIN w
      /\ \A i \in DOMAIN s : w[i] = s[i]
      /\ \E R : w \in Seq(R)
  BY WholeBegins
<1>a. Len(s) \in Nat
  BY LenProperties
<1> HIDE DEF w
<1>2. ASSUME NEW from \in [DOMAIN w -> DOMAIN d], Descends(w, d, from)
      PROVE  \E g \in [DOMAIN s -> DOMAIN d] :
               /\ Descends(s, d, g)
               /\ Covers(w, d, from) => Gapless(s, d, g)
  <2> DEFINE g == [i \in DOMAIN s |-> from[i]]
  <2>1. g \in [DOMAIN s -> DOMAIN d] /\ \A i \in DOMAIN s : g[i] = from[i]
    BY <1>1
  <2> HIDE DEF g
  <2>2. Descends(s, d, g)
    BY <1>1, <1>2, <2>1 DEF Descends
  <2>3. ASSUME Covers(w, d, from), NEW i \in DOMAIN s, NEW k \in DOMAIN d, k > g[i]
        PROVE  \E j \in 1..(i - 1) : g[j] = k
    <3>1. Gapless(w, d, from)
      BY <1>1, <1>2, <2>3, CoversGapless
    <3>2. PICK j \in 1..(i - 1) : from[j] = k
      BY <1>1, <2>1, <2>3, <3>1 DEF Gapless
    <3>3. j \in DOMAIN s
      BY <1>1, <1>a
    <3> QED
      BY <2>1, <3>2, <3>3
  <2>4. Covers(w, d, from) => Gapless(s, d, g)
    BY <2>3 DEF Gapless
  <2> QED
    BY <2>1, <2>2, <2>4
<1>3. Down(w, d) => Down(s, d)
  BY <1>2 DEF Down
<1>4. RunsDown(w, d) => Begun(s, d)
  <2> SUFFICES ASSUME RunsDown(w, d)
               PROVE  Begun(s, d)
    OBVIOUS
  <2>1. PICK from \in [DOMAIN w -> DOMAIN d] : Descends(w, d, from) /\ Covers(w, d, from)
    BY DEF RunsDown
  <2>2. PICK g \in [DOMAIN s -> DOMAIN d] : Descends(s, d, g) /\ Gapless(s, d, g)
    BY <1>2, <2>1
  <2> QED
    BY <2>2 DEF Begun
<1> QED
  BY <1>3, <1>4 DEF w

(* When all that was planned has run, ...                                   *)
LEMMA PlannedIsDone ==
  ASSUME NEW S, NEW s \in Seq(S), NEW d, DOMAIN d \subseteq Nat,
         NEW t, NEW no, NEW short, Planned(t, no, s, d)
  PROVE  Done(t, no, short, s, d)
<1>1. RunsDown(s, d) => Begun(s, d)
  <2>1. <<>> \in Seq({}) /\ Whole(s, <<>>) = s
    BY WholeAlone
  <2> QED
    BY <2>1, PartDown
<1> QED
  BY <1>1 DEF Planned, Done

(* ... and when the rest of it is dropped.                                  *)
LEMMA PartIsDone ==
  ASSUME NEW S, NEW s \in Seq(S), NEW C, NEW cs \in Seq(C), NEW d, DOMAIN d \subseteq Nat,
         NEW t, NEW no, NEW short, t \in short, Planned(t, no, Whole(s, cs), d)
  PROVE  Done(t, no, short, s, d)
BY PartDown DEF Planned, Done

(* Running the last call moves it from what is to run to what has run.      *)
LEMMA WholeStays ==
  ASSUME NEW S, NEW s \in Seq(S), NEW C, NEW cs \in Seq(C), cs # <<>>, Last(cs).func \in S
  PROVE  Whole(Append(s, Last(cs).func), Front(cs)) = Whole(s, cs)
<1> DEFINE a == Append(s, Last(cs).func)
           b == Front(cs)
           m == Len(s)
           n == Len(cs)
<1>1. m \in Nat /\ n \in Nat \ {0}
  BY LenProperties, EmptySeq
<1>2. /\ Len(a) = m + 1
      /\ \A i \in 1..m : a[i] = s[i]
      /\ a[m + 1] = cs[n].func
  BY AppendProperties DEF Last
<1>3. /\ Len(b) = n - 1
      /\ \A i \in 1..(n - 1) : b[i] = cs[i]
  <2>1. \A i \in 1..(n - 1) : cs[i] \in C
    BY <1>1, ElementOfSeq
  <2>2. /\ Len(b) = IF 1 <= n - 1 THEN (n - 1) - 1 + 1 ELSE 0
        /\ \A i \in 1..((n - 1) - 1 + 1) : b[i] = cs[1 + i - 1]
    BY <1>1, <2>1, SubSeqProperties DEF Front
  <2> HIDE DEF b, n
  <2> QED
    BY <1>1, <2>2
<1> HIDE DEF a, b, m, n
<1>4. Len(a) + Len(b) = m + n
  BY <1>1, <1>2, <1>3
<1>5. ASSUME NEW i \in 1..(m + n)
      PROVE  (IF i <= Len(a) THEN a[i] ELSE b[m + n + 1 - i].func) =
             (IF i <= m THEN s[i] ELSE cs[m + n + 1 - i].func)
  <2>1. CASE i <= m
    BY <1>1, <1>2, <2>1
  <2>2. CASE i = m + 1
    <3>1. m + n + 1 - i = n /\ ~ (i <= m) /\ i <= Len(a)
      BY <1>1, <1>2, <2>2
    <3> QED
      BY <1>2, <2>2, <3>1
  <2>3. CASE ~ (i <= m + 1)
    <3>1. m + n + 1 - i \in 1..(n - 1) /\ ~ (i <= m) /\ ~ (i <= Len(a))
      BY <1>1, <1>2, <2>3
    <3> QED
      BY <1>3, <3>1
  <2> QED
    BY <1>1, <2>1, <2>2, <2>3
<1>6. [i \in 1..(m + n) |-> IF i <= Len(a) THEN a[i] ELSE b[m + n + 1 - i].func] =
      [i \in 1..(m + n) |-> IF i <= m THEN s[i] ELSE cs[m + n + 1 - i].func]
  BY <1>5
<1>7. Whole(a, b) = [i \in 1..(m + n) |-> IF i <= Len(a) THEN a[i] ELSE b[m + n + 1 - i].func]
  BY <1>4 DEF Whole
<1>8. Whole(s, cs) = [i \in 1..(m + n) |-> IF i <= m THEN s[i] ELSE cs[m + n + 1 - i].func]
  BY DEF Whole, m, n
<1> QED
  BY <1>6, <1>7, <1>8 DEF a, b

(* What a frame may read as a thing's initialize is what the nearest on its *)
(* line has.                                                                *)
LEMMA InitializeFound ==
  ASSUME Typed, NEW f \in Frame, NEW t \in Made, NEW i \in 1..Len(Ancestry[t]),
         From(meth, Ancestry[t], initialize, i) # {},
         Found(f, meth, Ancestry[t][i], initialize) # Denied
  PROVE  LET line == Ancestry[t]
             on   == From(meth, line, initialize, i)
         IN \E j \in on :
              /\ \A m \in on : j <= m
              /\ Found(f, meth, line[i], initialize) = meth[line[j]][initialize].data
<1> DEFINE line == Ancestry[t]
           on   == From(meth, line, initialize, i)
<1>1. HasNearest(meth, line, initialize, i)
  BY HolderOnLine
<1>2. PICK j \in on : (\A m \in on : j <= m) /\ Holder(meth, line[i], initialize) = line[j]
  BY <1>1 DEF HasNearest
<1>3. line \in Seq(Made) /\ DOMAIN line = 1..Len(line)
  <2>1. line \in Seq(Made)
    BY LinesAreStraight DEF Typed, Straight
  <2> QED
    BY <2>1, LenProperties
<1>4. j \in 1..Len(line) /\ initialize \in DOMAIN meth[line[j]]
  BY <1>3 DEF From, Has
<1>5. line[j] \in Made /\ line[j] # None
  <2>1. line[j] \in Made
    BY <1>3, <1>4, ElementOfSeq
  <2> QED
    BY <2>1, MadeAreValues, ThingsAssumption
<1>6. Found(f, meth, line[i], initialize) # Denied
  OBVIOUS
<1>8. Found(f, meth, line[i], initialize) = meth[line[j]][initialize].data
  <2> HIDE DEF line
  <2> QED
    BY <1>2, <1>5, <1>6 DEF Found
<1> QED
  BY <1>2, <1>8

(* The calls that are pushed run what the parents have, the most distant    *)
(* first, and all of it if the frame may read it.                           *)
LEMMA PushedRunsDown ==
  ASSUME Typed, NEW f \in Frame, NEW t \in Made, NEW new
  PROVE  LET line == Ancestry[t]
             w    == Whole(<<>>, Pushed(f, line, new))
         IN /\ Down(w, OwnInitialize(line))
            /\ Initialized(line) = Readable(f, line) => RunsDown(w, OwnInitialize(line))
<1> DEFINE line == Ancestry[t]
           own  == Has(meth, line, initialize)
           push == Pushed(f, line, new)
           news == OwnInitialize(line)
           F(i) == From(meth, line, initialize, i)
           Near(i, j) == /\ j \in F(i)
                         /\ \A m \in F(i) : j <= m
                         /\ Found(f, meth, line[i], initialize) = news[j]
<1>1. line \in Seq(Made) /\ DOMAIN line = 1..Len(line) /\ Len(line) \in Nat
  <2>1. line \in Seq(Made)
    BY LinesAreStraight DEF Typed, Straight
  <2> QED
    BY <2>1, LenProperties
<1>2. PICK k \in 0..Len(line) :
        /\ Initialized(line) = 1..k
        /\ own \subseteq 1..k
        /\ k # 0 => k \in own
  BY InitializedAreFirst
<1>a. k \in Nat
  BY <1>1, <1>2
<1>b. PICK n \in 0..k :
        /\ Readable(f, line) = 1..n
        /\ \A i \in 1..n : Found(f, meth, line[i], initialize) # Denied
  <2> HIDE DEF line, own
  <2> QED
    BY <1>2, <1>a, ReadableAreFirst
<1>c. n \in Nat /\ n <= k /\ 1..n \subseteq 1..k
  BY <1>a
<1>3. DOMAIN news = own /\ \A j \in own : news[j] = meth[line[j]][initialize].data
  BY DEF OwnInitialize, Has
<1>4. push = [i \in 1..n |-> [func |-> Found(f, meth, line[i], initialize), this |-> new]]
  BY <1>b DEF Pushed
<1>5. ASSUME NEW i \in 1..n
      PROVE  \E j \in own : Near(i, j)
  <2>a. i \in 1..k /\ k # 0
    BY <1>c
  <2>1. k \in F(i) /\ i \in 1..Len(line) /\ F(i) \subseteq own
    BY <1>1, <1>2, <1>a, <2>a DEF From
  <2>b. Found(f, meth, line[i], initialize) # Denied
    BY <1>b
  <2>2. \E j \in F(i) : /\ \A m \in F(i) : j <= m
                        /\ Found(f, meth, line[i], initialize) = meth[line[j]][initialize].data
    BY <2>1, <2>b, InitializeFound
  <2> HIDE DEF own, line, news
  <2> QED
    BY <1>3, <2>1, <2>2
<1>6. /\ Len(push) = n
      /\ \A i \in 1..n : push[i].func = Found(f, meth, line[i], initialize)
  <2> HIDE DEF line, push
  <2> QED
    BY <1>4, <1>c
<1> DEFINE near == [i \in 1..n |-> CHOOSE j \in own : Near(i, j)]
<1>7. ASSUME NEW i \in 1..n
      PROVE  near[i] \in own /\ Near(i, near[i])
  <2> HIDE DEF Near, own
  <2> QED
    BY <1>5
<1>8. \A i \in 1..k : \A m \in own : i <= m => m \in F(i)
  BY DEF From
<1>9. \A i \in 1..k : \A m \in F(i) : m \in own /\ i <= m
  BY DEF From
<1> DEFINE w    == Whole(<<>>, push)
           from == [i \in 1..n |-> near[n + 1 - i]]
<1>10. DOMAIN w = 1..n /\ \A i \in 1..n : w[i] = push[n + 1 - i].func
  <2>1. Len(<<>>) + Len(push) = n /\ \A i \in 1..n : ~ (i <= Len(<<>>))
    BY <1>6, <1>c
  <2> HIDE DEF push
  <2>2. w = [i \in 1..n |-> IF i <= Len(<<>>) THEN <<>>[i] ELSE push[n + 1 - i].func]
    BY <2>1 DEF Whole
  <2> HIDE DEF w
  <2> QED
    BY <2>1, <2>2
<1>11. \A i \in 1..n : n + 1 - i \in 1..n
  BY <1>6, <1>c
<1> HIDE DEF near, w, push, news, own, line
<1>12. from \in [DOMAIN w -> DOMAIN news]
  BY <1>3, <1>7, <1>10, <1>11
<1>13. \A i \in DOMAIN w : w[i] = news[from[i]]
  <2> SUFFICES ASSUME NEW i \in 1..n
               PROVE  w[i] = news[from[i]]
    BY <1>10
  <2>1. n + 1 - i \in 1..n
    BY <1>11
  <2>2. w[i] = Found(f, meth, line[n + 1 - i], initialize)
    BY <1>6, <1>10, <2>1
  <2>3. Found(f, meth, line[n + 1 - i], initialize) = news[near[n + 1 - i]]
    BY <1>7, <2>1
  <2> QED
    BY <2>2, <2>3
<1>14. \A i, j \in DOMAIN w : i < j => from[i] >= from[j]
  <2> SUFFICES ASSUME NEW i \in 1..n, NEW j \in 1..n, i < j
               PROVE  from[i] >= from[j]
    BY <1>10
  <2>1. n + 1 - i \in 1..n /\ n + 1 - j \in 1..n /\ n + 1 - j <= n + 1 - i
    BY <1>6, <1>c
  <2>2. near[n + 1 - i] \in F(n + 1 - i)
    BY <1>7, <2>1
  <2>3. near[n + 1 - i] \in own /\ n + 1 - i <= near[n + 1 - i]
    BY <1>9, <2>1, <2>2
  <2>4. near[n + 1 - i] \in 1..k
    BY <1>2, <2>3
  <2>5. n + 1 - j <= near[n + 1 - i]
    BY <1>a, <1>c, <2>1, <2>3, <2>4
  <2>6. near[n + 1 - i] \in F(n + 1 - j)
    BY <1>8, <2>1, <2>3, <2>5
  <2>7. near[n + 1 - j] <= near[n + 1 - i]
    BY <1>7, <2>1, <2>6
  <2>8. near[n + 1 - j] \in 1..k
    BY <1>2, <1>7, <2>1
  <2> QED
    BY <2>4, <2>7, <2>8
<1>15. ASSUME n = k, NEW d \in DOMAIN news
       PROVE  \E i \in DOMAIN w : from[i] = d
  <2>a. d \in own
    BY <1>3
  <2>1. d \in 1..n
    BY <1>2, <1>15, <2>a
  <2>2. d \in F(d)
    BY <1>8, <1>15, <2>1, <2>a
  <2>3. near[d] <= d /\ near[d] \in F(d)
    BY <1>7, <2>1, <2>2
  <2>4. d <= near[d] /\ near[d] \in 1..k
    BY <1>2, <1>9, <1>15, <2>1, <2>3
  <2>5. near[d] = d
    BY <1>15, <2>1, <2>3, <2>4
  <2>6. n + 1 - d \in 1..n /\ n + 1 - (n + 1 - d) = d
    BY <1>c, <2>1
  <2>7. from[n + 1 - d] = d
    BY <2>5, <2>6
  <2> QED
    BY <1>10, <2>6, <2>7
<1>16. Initialized(line) = Readable(f, line) => n = k
  <2>1. (1..k) = (1..n) => n = k
    <3>1. k = 0 => n = k
      BY <1>a, <1>c
    <3>2. k # 0 => k \in 1..k
      BY <1>a
    <3> QED
      BY <1>a, <1>c, <3>1, <3>2
  <2> QED
    BY <1>2, <1>b, <2>1
<1> HIDE DEF from
<1>17. Down(w, news)
  BY <1>12, <1>13, <1>14 DEF Down, Descends
<1>18. n = k => RunsDown(w, news)
  BY <1>12, <1>13, <1>14, <1>15 DEF RunsDown, Descends, Covers
<1> QED
  BY <1>16, <1>17, <1>18 DEF w, push, news, line

(* Whatever a frame calls, it calls on a thing that is made.                *)
LEMMA CallsAreCalls ==
  ASSUME Typed, NEW f \in Frame
  PROVE  /\ calls[f] \in Seq(Call)
         /\ DOMAIN calls[f] = 1..Len(calls[f])
         /\ \A i \in DOMAIN calls[f] : calls[f][i] \in Call /\ calls[f][i].this \in Made
<1>1. calls[f] \in Seq(Call)
  BY DEF Typed
<1>2. DOMAIN calls[f] = 1..Len(calls[f])
  BY <1>1, LenProperties
<1>3. \A i \in DOMAIN calls[f] : calls[f][i] \in Call
  BY <1>1, <1>2, ElementOfSeq
<1> QED
  BY <1>1, <1>2, <1>3 DEF Call

LEMMA CloningIsTopDown == Cloning => InitializedTopDown
<1> SUFFICES ASSUME Cloning, NEW t \in Made
             PROVE  LET s == inits[t + 1]
                        d == due[t + 1]
                    IN \E from \in [DOMAIN s -> DOMAIN d] :
                         /\ Descends(s, d, from)
                         /\ t \notin denied => Gapless(s, d, from)
                         /\ t \notin denied \cup cut /\ ~(\E f \in Frame : Waits(f, t))
                              => Covers(s, d, from)
  BY DEF InitializedTopDown
<1> DEFINE s == inits[t + 1]
           d == due[t + 1]
<1>1. Typed /\ InOrder
  BY DEF Cloning
<1>2. DOMAIN d \subseteq Nat
  BY <1>1 DEF InOrder
<1>3. s \in Seq(Func)
  <2>1. inits \in Seq(Seq(Func)) /\ t + 1 \in 1..Len(inits)
    BY <1>1 DEF Typed, Older
  <2> QED
    BY <2>1, ElementOfSeq
<1>4. ASSUME NEW f \in Frame, Waits(f, t)
      PROVE  Planned(t, denied, Whole(s, calls[f]), d)
  BY <1>1, <1>4 DEF InOrder
<1>5. (\A f \in Frame : ~ Waits(f, t)) => Done(t, denied, cut, s, d)
  BY <1>1 DEF InOrder
<1> HIDE DEF s, d
<1>6. CASE \E f \in Frame : Waits(f, t)
  <2>1. PICK f \in Frame : Waits(f, t)
    BY <1>6
  <2>2. calls[f] \in Seq(Call)
    BY <1>1, CallsAreCalls
  <2>3. Done(t, denied, {t}, s, d)
    <3>1. Planned(t, denied, Whole(s, calls[f]), d) /\ t \in {t}
      BY <1>4, <2>1
    <3> QED
      BY <1>2, <1>3, <2>2, <3>1, PartIsDone
  <2>4. \E from \in [DOMAIN s -> DOMAIN d] :
          Descends(s, d, from) /\ (t \notin denied => Gapless(s, d, from))
    BY <2>3 DEF Done, Down, Begun
  <2> QED
    BY <1>6, <2>4 DEF s, d
<1>7. CASE ~ \E f \in Frame : Waits(f, t)
  <2>1. Done(t, denied, cut, s, d)
    BY <1>5, <1>7
  <2>2. CASE t \in denied \/ t \in cut
    <3>1. \E from \in [DOMAIN s -> DOMAIN d] :
            Descends(s, d, from) /\ (t \notin denied => Gapless(s, d, from))
      BY <2>1, <2>2 DEF Done, Down, Begun
    <3> QED
      BY <2>2, <3>1 DEF s, d
  <2>3. CASE t \notin denied /\ t \notin cut
    <3>1. PICK from \in [DOMAIN s -> DOMAIN d] : Descends(s, d, from) /\ Covers(s, d, from)
      BY <2>1, <2>3 DEF Done, RunsDown
    <3>2. Gapless(s, d, from)
      BY <1>2, <1>3, <3>1, CoversGapless
    <3> QED
      BY <3>1, <3>2 DEF s, d
  <2> QED
    BY <2>2, <2>3
<1> QED
  BY <1>6, <1>7

LEMMA InitCloning == Init => Cloning
<1> SUFFICES ASSUME Init
             PROVE  Apart /\ Marked /\ InOrder
  BY InitTyped DEF Cloning
<1>1. /\ inits = <<<<>>>> /\ due = <<<<>>>> /\ parent = [t \in {0} |-> -1]
      /\ calls = [f \in Frame |-> <<>>] /\ denied = {} /\ cut = {}
  BY DEF Init
<1>2. Made = {0} /\ inits[0 + 1] = <<>> /\ due[0 + 1] = <<>>
  BY <1>1 DEF Made
<1>3. \A f \in Frame : DOMAIN calls[f] = {}
  BY <1>1
<1>4. DOMAIN <<>> \subseteq Nat /\ RunsDown(<<>>, <<>>)
  <2>1. DOMAIN <<>> = {} /\ <<>> \in [DOMAIN <<>> -> DOMAIN <<>>]
    OBVIOUS
  <2> QED
    BY <2>1 DEF RunsDown, Descends, Covers
<1>5. Done(0, denied, cut, inits[0 + 1], due[0 + 1])
  BY <1>1, <1>2, <1>4 DEF Done
<1> QED
  BY <1>1, <1>2, <1>3, <1>4, <1>5 DEF Apart, InOrder, Waits, Marked

(* Reading, writing, and doing nothing leaves the calls alone.              *)
LEMMA OthersCloning ==
  ASSUME Apart, Marked, InOrder, UNCHANGED <<parent, cloning>>
  PROVE  Apart' /\ Marked' /\ InOrder'
<1>0. UNCHANGED <<calls, inits, due, denied, cut>>
  BY DEF cloning
<1>1. Made' = Made /\ \A f, t : Waits(f, t)' <=> Waits(f, t)
  BY <1>0 DEF Made, Waits
<1>2. Apart' /\ Marked'
  BY <1>0, <1>1 DEF Apart, Marked
<1>3. InOrder'
  BY <1>0, <1>1 DEF InOrder
<1> QED
  BY <1>2, <1>3

(* The new thing has all of its calls on the frame that made it.            *)
LEMMA CloneCloning ==
  ASSUME Cloning, NEW f \in Frame, NEW t \in Made, Clone(f, t)
  PROVE  Apart' /\ Marked' /\ InOrder'
<1>a. PICK new : new = Len(inits)
  OBVIOUS
<1> DEFINE line == Ancestry[t]
           push == Pushed(f, line, new)
           news == OwnInitialize(line)
           refused == Initialized(line) # Readable(f, line)
<1>0. Typed /\ Apart /\ Marked /\ InOrder
  BY DEF Cloning
<1>1. /\ parent' = [u \in Made \cup {new} |-> IF u = new THEN NewParent(t, new) ELSE parent[u]]
      /\ \/ calls' = [calls EXCEPT ![f] = push]
         \/ refused /\ calls' = [calls EXCEPT ![f] = <<>>]
      /\ inits' = Append(inits, <<>>)
      /\ due' = Append(due, news)
      /\ denied' = IF refused THEN denied \cup {new} ELSE denied
      /\ cut' = cut
      /\ calls[f] = <<>>
  BY <1>a DEF Clone, Idle
<1>2. /\ new \in Nat /\ Made = 0..(new - 1) /\ new \notin Made
      /\ inits \in Seq(Seq(Func)) /\ Len(due) = new
  <2>1. inits \in Seq(Seq(Func)) /\ Older(new) /\ Len(due) = new
    BY <1>0, <1>a DEF Typed
  <2>2. new \in Nat /\ Made = 0..(new - 1)
    BY <2>1 DEF Older
  <2> QED
    BY <2>1, <2>2
<1>3. /\ Down(Whole(<<>>, push), news)
      /\ ~ refused => RunsDown(Whole(<<>>, push), news)
  BY <1>0, PushedRunsDown
<1>b. DOMAIN news \subseteq Nat
  <2>1. line \in Seq(Made)
    BY <1>0, LinesAreStraight DEF Typed, Straight
  <2>2. DOMAIN line = 1..Len(line)
    BY <2>1, LenProperties
  <2>3. DOMAIN news \subseteq DOMAIN line
    BY DEF OwnInitialize
  <2> QED
    BY <2>2, <2>3
<1>4. \A i \in DOMAIN push : push[i].this = new
  BY DEF Pushed
<1>5. push = <<>> => Whole(<<>>, push) = <<>>
  <2>1. <<>> \in Seq({})
    OBVIOUS
  <2>2. Whole(<<>>, <<>>) = <<>>
    BY <2>1, WholeAlone
  <2> HIDE DEF push
  <2> QED
    BY <2>2
<1>6. push # <<>> => DOMAIN push # {}
  <2>1. CASE DOMAIN push = {}
    <3>1. \A i \in DOMAIN push : push[i] = <<>>[i]
      BY <2>1
    <3>2. push = [i \in DOMAIN push |-> push[i]]
      BY DEF Pushed
    <3> HIDE DEF push
    <3> QED
      BY <2>1, <3>2
  <2> QED
    BY <2>1
<1>7. /\ \A u \in Made : inits'[u + 1] = inits[u + 1] /\ due'[u + 1] = due[u + 1]
      /\ inits'[new + 1] = <<>> /\ due'[new + 1] = news
  <2> HIDE DEF news
  <2>1. \A u \in Made : u + 1 \in 1..new
    BY <1>2
  <2>2. <<>> \in Seq(Func)
    OBVIOUS
  <2>3. (\A i \in 1..new : inits'[i] = inits[i]) /\ inits'[new + 1] = <<>>
    BY <1>1, <1>2, <1>a, <2>2, AppendProperties
  <2>4. PICK S : due \in Seq(S)
    BY <1>0 DEF Typed
  <2> DEFINE T == S \cup {news}
  <2>5. due \in Seq(T) /\ news \in T
    BY <2>4, SeqMonotonic
  <2> HIDE DEF T
  <2>a. due' = Append(due, news) /\ Len(due) = new
    BY <1>1, <1>2
  <2>6. (\A i \in 1..new : due'[i] = due[i]) /\ due'[new + 1] = news
    BY <2>5, <2>a, AppendProperties
  <2> QED
    BY <2>1, <2>3, <2>6
<1> HIDE DEF push, news, refused
<1>8. Made' = Made \cup {new}
  BY <1>1 DEF Made
<1>9. /\ \A g \in Frame : g # f => calls'[g] = calls[g]
      /\ \/ calls'[f] = push
         \/ refused /\ calls'[f] = <<>>
  BY <1>0, <1>1 DEF Typed
<1>c. /\ \A u \in Made : u \in denied' <=> u \in denied
      /\ new \in denied' <=> refused
      /\ new \notin cut' /\ cut' = cut
  BY <1>0, <1>1, <1>2 DEF Marked
<1>d. Marked'
  BY <1>0, <1>1, <1>8 DEF Marked
<1>10. \A u : ~ Waits(f, u)
  BY <1>1 DEF Waits
<1>11. \A g \in Frame : ~ Waits(g, new)
  BY <1>0, <1>2, CallsAreCalls DEF Waits
<1>12. \A g \in Frame : g # f => \A u : Waits(g, u)' <=> Waits(g, u)
  BY <1>9 DEF Waits
<1>13. /\ \A u : Waits(f, u)' => u = new /\ calls'[f] = push
       /\ calls'[f] = push /\ DOMAIN push # {} => Waits(f, new)'
  <2>1. DOMAIN <<>> = {}
    OBVIOUS
  <2> QED
    BY <1>4, <1>9, <2>1 DEF Waits
<1>14. Apart'
  <2>a. DOMAIN <<>> = {}
    OBVIOUS
  <2>1. \A g \in Frame : \A i, j \in DOMAIN calls'[g] : calls'[g][i].this = calls'[g][j].this
    BY <1>0, <1>4, <1>9, <2>a DEF Apart
  <2>2. ASSUME NEW g \in Frame, NEW h \in Frame, NEW u \in Made', Waits(g, u)', Waits(h, u)'
        PROVE  g = h
    <3>1. CASE u = new
      BY <1>11, <1>12, <2>2, <3>1
    <3>2. CASE u # new
      <4>1. g # f /\ h # f /\ u \in Made
        BY <1>8, <1>13, <2>2, <3>2
      <4> QED
        BY <1>0, <1>12, <2>2, <4>1 DEF Apart
    <3> QED
      BY <3>1, <3>2
  <2> QED
    BY <2>1, <2>2 DEF Apart
<1>15. ASSUME NEW u \in Made
       PROVE  /\ DOMAIN due'[u + 1] \subseteq Nat
              /\ \A g \in Frame :
                   Waits(g, u)' => Planned(u, denied', Whole(inits'[u + 1], calls'[g]), due'[u + 1])
              /\ (\A g \in Frame : ~ Waits(g, u)') =>
                   Done(u, denied', cut', inits'[u + 1], due'[u + 1])
  <2>1. \A g \in Frame : Waits(g, u)' <=> Waits(g, u)
    BY <1>2, <1>10, <1>12, <1>13
  <2>2. \A g \in Frame : Waits(g, u) => calls'[g] = calls[g]
    BY <1>9, <1>10
  <2>3. u \in denied' <=> u \in denied
    BY <1>c
  <2>4. /\ \A w, d : Planned(u, denied', w, d) <=> Planned(u, denied, w, d)
        /\ \A w, d : Done(u, denied', cut', w, d) <=> Done(u, denied, cut, w, d)
    BY <1>c, <2>3 DEF Planned, Done
  <2> QED
    BY <1>0, <1>7, <2>1, <2>2, <2>4 DEF InOrder
<1>16. /\ DOMAIN due'[new + 1] \subseteq Nat
       /\ \A g \in Frame :
            Waits(g, new)' => Planned(new, denied', Whole(inits'[new + 1], calls'[g]), due'[new + 1])
       /\ (\A g \in Frame : ~ Waits(g, new)') =>
            Done(new, denied', cut', inits'[new + 1], due'[new + 1])
  <2>1. \A g \in Frame : Waits(g, new)' => g = f /\ calls'[g] = push
    BY <1>11, <1>12, <1>13
  <2>2. Planned(new, denied', Whole(<<>>, push), news)
    BY <1>3, <1>c DEF Planned
  <2>3. ASSUME \A g \in Frame : ~ Waits(g, new)'
        PROVE  Done(new, denied', cut', <<>>, news)
    <3>1. CASE push = <<>>
      <4>1. Planned(new, denied', <<>>, news) /\ <<>> \in Seq({})
        BY <1>5, <2>2, <3>1
      <4> QED
        BY <1>b, <4>1, PlannedIsDone
    <3>2. CASE push # <<>>
      <4>1. refused
        BY <1>6, <1>9, <1>13, <2>3, <3>2
      <4>2. DOMAIN <<>> = {} /\ <<>> \in [DOMAIN <<>> -> DOMAIN news]
        OBVIOUS
      <4>3. Down(<<>>, news)
        BY <4>2 DEF Down, Descends
      <4> QED
        BY <1>c, <4>1, <4>3 DEF Done
    <3> QED
      BY <3>1, <3>2
  <2> QED
    BY <1>7, <1>b, <2>1, <2>2, <2>3
<1>17. InOrder'
  BY <1>8, <1>15, <1>16 DEF InOrder
<1> QED
  BY <1>14, <1>17, <1>d

(* The last call leaves the frame for what has run on its thing, and the    *)
(* others stay, or are dropped for good.                                    *)
LEMMA RunningCloning ==
  ASSUME Cloning, NEW f \in Frame, RunInitialize(f) \/ InitializeThrows(f)
  PROVE  Apart' /\ Marked' /\ InOrder'
<1>0. Typed /\ Apart /\ Marked /\ InOrder
  BY DEF Cloning
<1> DEFINE cs == calls[f]
<1>1. PICK call : call = Last(cs)
  OBVIOUS
<1>2. PICK t : t = call.this
  OBVIOUS
<1> DEFINE s == Append(inits[t + 1], call.func)
<1>3. /\ cs # <<>>
      /\ inits' = [inits EXCEPT ![t + 1] = s]
      /\ \/ calls' = [calls EXCEPT ![f] = Front(cs)] /\ cut' = cut
         \/ calls' = [calls EXCEPT ![f] = <<>>] /\ cut' = cut \cup {t}
      /\ UNCHANGED <<parent, due, denied>>
  BY <1>1, <1>2 DEF RunInitialize, InitializeThrows, Idle, table
<1>4. /\ cs \in Seq(Call) /\ Len(cs) \in Nat \ {0} /\ DOMAIN cs = 1..Len(cs)
      /\ call = cs[Len(cs)] /\ call \in Call
  <2>1. cs \in Seq(Call)
    BY <1>0, CallsAreCalls
  <2> HIDE DEF cs
  <2>2. Len(cs) \in Nat \ {0} /\ DOMAIN cs = 1..Len(cs)
    BY <1>3, <2>1, EmptySeq, LenProperties
  <2>3. Len(cs) \in 1..Len(cs)
    BY <2>2
  <2> QED
    BY <1>1, <2>1, <2>2, <2>3, ElementOfSeq DEF Last
<1>5. t \in Made /\ call.func \in Func
  BY <1>2, <1>4 DEF Call
<1>6. inits \in Seq(Seq(Func)) /\ t + 1 \in 1..Len(inits) /\ inits[t + 1] \in Seq(Func)
  <2>1. inits \in Seq(Seq(Func)) /\ t + 1 \in 1..Len(inits)
    BY <1>0, <1>5 DEF Typed, Older
  <2> QED
    BY <2>1, ElementOfSeq
<1>7. Front(cs) \in Seq(Call) /\ Len(Front(cs)) = Len(cs) - 1
      /\ \A i \in DOMAIN Front(cs) : Front(cs)[i] = cs[i] /\ i \in DOMAIN cs
  <2> HIDE DEF cs
  <2>1. \A i \in 1..(Len(cs) - 1) : cs[i] \in Call
    BY <1>4, ElementOfSeq
  <2>2. /\ Front(cs) \in Seq(Call)
        /\ Len(Front(cs)) = IF 1 <= Len(cs) - 1 THEN (Len(cs) - 1) - 1 + 1 ELSE 0
        /\ \A i \in 1..((Len(cs) - 1) - 1 + 1) : Front(cs)[i] = cs[1 + i - 1]
    BY <1>4, <2>1, SubSeqProperties DEF Front
  <2>3. DOMAIN Front(cs) = 1..Len(Front(cs))
    BY <2>2, LenProperties
  <2> DEFINE b == Front(cs)
             n == Len(cs)
  <2>4. n \in Nat \ {0} /\ DOMAIN cs = 1..n
    BY <1>4
  <2>5. /\ b \in Seq(Call) /\ DOMAIN b = 1..Len(b)
        /\ Len(b) = IF 1 <= n - 1 THEN (n - 1) - 1 + 1 ELSE 0
        /\ \A i \in 1..((n - 1) - 1 + 1) : b[i] = cs[1 + i - 1]
    BY <2>2, <2>3
  <2> HIDE DEF b, n
  <2>6. Len(b) = n - 1
    BY <2>4, <2>5
  <2>7. \A i \in 1..(n - 1) : b[i] = cs[i] /\ i \in 1..n
    BY <2>4, <2>5
  <2> QED
    BY <2>4, <2>5, <2>6, <2>7 DEF b, n
<1>8. \A i \in DOMAIN cs : cs[i].this = t
  <2>1. Len(cs) \in DOMAIN cs
    BY <1>4
  <2> QED
    BY <1>0, <1>2, <1>4, <2>1 DEF Apart
<1>9. Waits(f, t)
  BY <1>2, <1>4 DEF Waits
<1>10. Whole(s, Front(cs)) = Whole(inits[t + 1], cs)
  <2>1. cs # <<>> /\ cs \in Seq(Call) /\ call = Last(cs)
    BY <1>1, <1>3, <1>4
  <2>2. inits[t + 1] \in Seq(Func) /\ Last(cs).func \in Func
    BY <1>5, <1>6, <2>1
  <2> DEFINE before == inits[t + 1]
  <2> HIDE DEF cs, before
  <2>3. Whole(Append(before, Last(cs).func), Front(cs)) = Whole(before, cs)
    BY <2>1, <2>2, WholeStays DEF before
  <2> QED
    BY <2>1, <2>3 DEF before
<1>11. s \in Seq(Func)
  BY <1>5, <1>6, AppendProperties
<1>12. Front(cs) = <<>> => Whole(s, Front(cs)) = s
  BY <1>11, WholeAlone
<1>13. Front(cs) # <<>> => DOMAIN Front(cs) # {}
  <2> HIDE DEF cs
  <2>1. Front(cs) # <<>> => Len(Front(cs)) \in Nat \ {0}
    BY <1>7, EmptySeq
  <2> QED
    BY <1>7, <2>1, LenProperties
<1>14. DOMAIN due[t + 1] \subseteq Nat /\ Planned(t, denied, Whole(inits[t + 1], cs), due[t + 1])
  BY <1>0, <1>5, <1>9 DEF InOrder
<1> HIDE DEF s, cs
<1>15. \A u \in Made : inits'[u + 1] = IF u = t THEN s ELSE inits[u + 1]
  <2>1. \A u \in Made : u + 1 \in 1..Len(inits) /\ u \in Int
    BY <1>0 DEF Typed, Older
  <2>2. \A i \in 1..Len(inits) : inits'[i] = IF i = t + 1 THEN s ELSE inits[i]
    BY <1>3, <1>6, <1>11, ExceptSeq
  <2> QED
    BY <1>5, <2>1, <2>2
<1>16. Made' = Made
  BY <1>3 DEF Made
<1>17. /\ \A g \in Frame : g # f => calls'[g] = calls[g]
       /\ \/ calls'[f] = Front(cs) /\ cut' = cut
          \/ calls'[f] = <<>> /\ cut' = cut \cup {t}
  BY <1>0, <1>3 DEF Typed
<1>a. /\ denied' = denied
      /\ \A u \in Made : u # t => (u \in cut' <=> u \in cut)
  BY <1>3
<1>b. Marked'
  BY <1>0, <1>3, <1>5, <1>16 DEF Marked
<1>c. DOMAIN <<>> = {}
  OBVIOUS
<1>18. \A g \in Frame : g # f => \A u : Waits(g, u)' <=> Waits(g, u)
  BY <1>17 DEF Waits
<1>19. /\ \A u : Waits(f, u)' => u = t /\ calls'[f] = Front(cs)
       /\ calls'[f] = Front(cs) /\ DOMAIN Front(cs) # {} => Waits(f, t)'
  BY <1>7, <1>8, <1>17, <1>c DEF Waits
<1>20. \A u : Waits(f, u) => u = t
  BY <1>8 DEF Waits, cs
<1>21. Apart'
  <2>1. \A g \in Frame : \A i, j \in DOMAIN calls'[g] : calls'[g][i].this = calls'[g][j].this
    BY <1>0, <1>7, <1>8, <1>17, <1>c DEF Apart
  <2>2. \A g \in Frame : \A u : Waits(g, u)' => Waits(g, u)
    BY <1>9, <1>18, <1>19
  <2> QED
    BY <1>0, <1>16, <2>1, <2>2 DEF Apart
<1>22. ASSUME NEW u \in Made, u # t
       PROVE  /\ DOMAIN due'[u + 1] \subseteq Nat
              /\ \A g \in Frame :
                   Waits(g, u)' => Planned(u, denied', Whole(inits'[u + 1], calls'[g]), due'[u + 1])
              /\ (\A g \in Frame : ~ Waits(g, u)') =>
                   Done(u, denied', cut', inits'[u + 1], due'[u + 1])
  <2>1. \A g \in Frame : Waits(g, u)' <=> Waits(g, u)
    BY <1>18, <1>19, <1>20, <1>22
  <2>2. \A g \in Frame : Waits(g, u) => calls'[g] = calls[g]
    BY <1>17, <1>20, <1>22
  <2>3. inits'[u + 1] = inits[u + 1] /\ due' = due
    BY <1>3, <1>15, <1>22
  <2>4. \A w, d : Done(u, denied', cut', w, d) <=> Done(u, denied, cut, w, d)
    BY <1>22, <1>a DEF Done
  <2> QED
    BY <1>0, <1>a, <2>1, <2>2, <2>3, <2>4 DEF InOrder
<1>23. /\ DOMAIN due'[t + 1] \subseteq Nat
       /\ \A g \in Frame :
            Waits(g, t)' => Planned(t, denied', Whole(inits'[t + 1], calls'[g]), due'[t + 1])
       /\ (\A g \in Frame : ~ Waits(g, t)') => Done(t, denied', cut', inits'[t + 1], due'[t + 1])
  <2>1. inits'[t + 1] = s /\ due' = due
    BY <1>3, <1>5, <1>15
  <2>2. \A g \in Frame : Waits(g, t)' => g = f /\ calls'[g] = Front(cs)
    BY <1>0, <1>5, <1>9, <1>18, <1>19 DEF Apart
  <2>3. Planned(t, denied, Whole(s, Front(cs)), due[t + 1])
    BY <1>10, <1>14
  <2>4. ASSUME \A g \in Frame : ~ Waits(g, t)'
        PROVE  Done(t, denied, cut', s, due[t + 1])
    <3>1. CASE Front(cs) = <<>>
      <4>1. Planned(t, denied, s, due[t + 1])
        BY <1>12, <2>3, <3>1
      <4> QED
        BY <1>11, <1>14, <4>1, PlannedIsDone
    <3>2. CASE Front(cs) # <<>>
      <4>1. t \in cut'
        BY <1>13, <1>17, <1>19, <2>4, <3>2
      <4> QED
        BY <1>7, <1>11, <1>14, <2>3, <4>1, PartIsDone
    <3> QED
      BY <3>1, <3>2
  <2> QED
    BY <1>14, <1>a, <2>1, <2>2, <2>3, <2>4
<1>24. InOrder'
  BY <1>16, <1>22, <1>23 DEF InOrder
<1> QED
  BY <1>21, <1>24, <1>b

LEMMA NextCloning ==
  ASSUME Cloning, [Next]_vars
  PROVE  Cloning'
<1>0. Typed /\ Apart /\ Marked /\ InOrder
  BY DEF Cloning
<1>1. Typed'
  BY <1>0, NextTyped
<1>2. ASSUME UNCHANGED <<parent, cloning>>
      PROVE  Apart' /\ Marked' /\ InOrder'
  BY <1>0, <1>2, OthersCloning
<1>3. ASSUME UNCHANGED vars
      PROVE  Apart' /\ Marked' /\ InOrder'
  BY <1>2, <1>3 DEF vars, table
<1>4. ASSUME NEW f \in Frame, NEW t \in Made, NEW p \in Path, NEW v \in Made \cup Plain,
             SetProperty(f, t, p, v)
      PROVE  Apart' /\ Marked' /\ InOrder'
  BY <1>2, <1>4 DEF SetProperty
<1>5. ASSUME NEW f \in Frame, NEW t \in Made, NEW p \in Path, GetProperty(f, t, p)
      PROVE  Apart' /\ Marked' /\ InOrder'
  BY <1>2, <1>5 DEF GetProperty, table
<1>6. ASSUME NEW f \in Frame, NEW t \in Made, NEW n \in Method,
             GetMethod(f, t, n) \/ RemoveMethod(f, t, n) \/ \E l \in Lambda : SetMethod(f, t, n, l)
      PROVE  Apart' /\ Marked' /\ InOrder'
  BY <1>2, <1>6 DEF GetMethod, RemoveMethod, SetMethod, table
<1>7. ASSUME NEW f \in Frame, NEW t \in Made, Clone(f, t)
      PROVE  Apart' /\ Marked' /\ InOrder'
  BY <1>7, CloneCloning
<1>8. ASSUME NEW f \in Frame, RunInitialize(f) \/ InitializeThrows(f)
      PROVE  Apart' /\ Marked' /\ InOrder'
  BY <1>8, RunningCloning
<1>9. Apart' /\ Marked' /\ InOrder'
  BY <1>3, <1>4, <1>5, <1>6, <1>7, <1>8 DEF Next
<1> QED
  BY <1>1, <1>9 DEF Cloning

(* Whatever frames do while a clone is initialised, the methods its parents *)
(* had for it run from the most distant parent to the nearest: none is      *)
(* passed over unless one could not be read, and in the end every one has   *)
(* run unless one threw.                                                    *)
THEOREM ClonesInitializedTopDown == Spec => []InitializedTopDown
<1>1. Cloning /\ [Next]_vars => Cloning'
  BY NextCloning
<1> QED
  BY InitCloning, CloningIsTopDown, <1>1, PTL DEF Spec

=============================================================================
