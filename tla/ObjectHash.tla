----------------------------- MODULE ObjectHash -----------------------------
(***************************************************************************)
(* A hash of the language (objs/hash.h, objs/hash.cpp): a table of chains  *)
(* of entries.  An entry is a piece of memory, known by its address; new   *)
(* ones are put in front of their chain, and the table grows when it has   *)
(* as many entries as chains.  Programs call the methods, and run foreach  *)
(* loops during which the functions they call may change the same hash.    *)
(*                                                                         *)
(* Once a chain or a loop leads to memory that was given back, what the    *)
(* program does is undefined: the model marks the state and stops there.   *)
(***************************************************************************)
EXTENDS Integers, FiniteSets, SequencesExt

CONSTANTS
  Key,       (* names, up to case                                          *)
  HashOf,    (* moo_hash_func: a number for every name                     *)
  Data,      (* the objects                                                *)
  None,      (* NULL: no object, no entry                                  *)
  Slot,      (* the addresses malloc() may return for an entry             *)
  Loops,     (* the foreach loops                                          *)
  HashStart  (* MOO_HASH_DEFAULT_SIZE                                      *)

(* What the constants are, assumed wherever there is a hash.                *)
HashAssumption ==
  /\ HashOf \in [Key -> Nat]
  /\ None \notin Data \cup Slot
  /\ HashStart \in Nat /\ HashStart >= 2

VARIABLES
  table,     (* m_table: the chains, as sequences of addresses             *)
  entry,     (* the entries that are allocated: key and data               *)
  entries,   (* m_entries                                                  *)
  hret,      (* what the last method returned                              *)
  loop,      (* each foreach: its next event's index and entry, if it has one *)
  hsteady,   (* the names that have been there since the loop began        *)
  hmet,      (* how often the loop has called its function for such a name *)
  wild       (* memory that was given back is in use                       *)

hash == <<table, entry, entries>>
hashVars == <<hash, hret, loop, hsteady, hmet, wild>>

Live == DOMAIN entry
Size == Cardinality(DOMAIN table)

(* The chain of a name in a table of n chains.                              *)
Chain(k, n) == HashOf[k] % n

(* reset() and next_entry() to the end: the chains one after another.       *)
Traversal(t) == FlattenSeq([b \in 1..Cardinality(DOMAIN t) |-> t[b - 1]])

NoneMet == [k \in Key |-> 0]

Idle == [on |-> FALSE, index |-> 0, at |-> None]

(* Every entry is in the chain of its name, once, no name has two, and the  *)
(* table has more chains than entries.                                      *)
HashTypeOK ==
  /\ Live \subseteq Slot
  /\ \A s \in Live : entry[s] \in [key : Key, data : Data]
  /\ entries = Cardinality(Live) /\ entries < Size
  /\ \A s, t \in Live : entry[s].key = entry[t].key => s = t
  /\ \A s \in Live : \E i \in DOMAIN table[Chain(entry[s].key, Size)] :
       table[Chain(entry[s].key, Size)][i] = s
  /\ wild \/ Cardinality(Live) = Len(Traversal(table))
  /\ \A w \in Loops : loop[w].at \in Slot \cup {None} /\ loop[w].index \in 0..Size

Empty == [b \in 0..(HashStart - 1) |-> <<>>]

HashInit ==
  /\ table = Empty
  /\ entry = <<>>
  /\ entries = 0
  /\ hret = <<>>
  /\ loop = [w \in Loops |-> Idle]
  /\ hsteady = [w \in Loops |-> {}]
  /\ hmet = [w \in Loops |-> NoneMet]
  /\ wild = FALSE

-----------------------------------------------------------------------------
(* The table.                                                               *)

(* get_entry: the entries of a name, at most one.                           *)
Entries(k) ==
  {s \in ToSet(table[Chain(k, Size)]) \cap Live : entry[s].key = k}

Lookup(k) == IF Entries(k) = {} THEN None ELSE entry[CHOOSE s \in Entries(k) : TRUE].data

(* The entry at s is put in front of chain b of t.                          *)
InFront(t, s, b) == [t EXCEPT ![b] = <<s>> \o @]

(* rehash: every entry is taken from the old chains in order and put in     *)
(* front of its new one.                                                    *)
Rehashed(t, ent, n) ==
  LET order == Traversal(t)
      moved[i \in 0..Len(order)] ==
        IF i = 0 THEN [b \in 0..(n - 1) |-> <<>>]
        ELSE InFront(moved[i - 1], order[i], Chain(ent[order[i]].key, n))
  IN moved[Len(order)]

(* m_entries / m_size is a division of integers: it exceeds 0.75 when there *)
(* are as many entries as chains.  The new size is m_size * 1.75, cut off.  *)
Grows(count, n) == count \div n > 0
Grown(n) == (n * 7) \div 4

(* A table t with the entries ent, after a new one at s.                    *)
Prepended(t, ent, s) ==
  LET n == Cardinality(DOMAIN t)
      u == InFront(t, s, Chain(ent[s].key, n))
  IN IF Grows(Cardinality(DOMAIN ent), n) THEN Rehashed(u, ent, Grown(n)) ELSE u

(* A loop's events are on the code frame, where they hold an index and an   *)
(* address, and nothing tells them what becomes of either: a loop whose next*)
(* entry is removed, or whose table is replaced, is bound to meet nothing.  *)
Disturb(loops, k) ==
  /\ hsteady' = [w \in Loops |-> IF w \in loops THEN {} ELSE hsteady[w] \ {k}]
  /\ hmet' = [w \in Loops |-> [j \in Key |-> IF j \in hsteady'[w] THEN hmet[w][j] ELSE 0]]

-----------------------------------------------------------------------------
(* The methods.                                                             *)

HashGet(k) ==
  /\ hret' = <<Lookup(k)>>
  /\ UNCHANGED <<hash, loop, hmet, hsteady, wild>>

(* MooHash::set of a name that is there ...                                 *)
HashReplace(k, v) ==
  /\ Entries(k) # {}
  /\ entry' = [s \in Live |-> IF s \in Entries(k) THEN [entry[s] EXCEPT !.data = v] ELSE entry[s]]
  /\ hret' = <<TRUE>>
  /\ UNCHANGED <<table, entries, loop, hmet, hsteady, wild>>

(* ... and of one that is not.                                              *)
HashAdd(k, v, s) ==
  /\ Entries(k) = {} /\ s \notin Live
  /\ entry' = [t \in Live \cup {s} |-> IF t = s THEN [key |-> k, data |-> v] ELSE entry[t]]
  /\ table' = Prepended(table, entry', s)
  /\ entries' = entries + 1
  /\ hret' = <<TRUE>>
  /\ Disturb(IF Grows(entries + 1, Size) THEN Loops ELSE {}, k)
  /\ UNCHANGED <<loop, wild>>

(* Mutant: the chain is cut where the entry was.                            *)
UnlinkedAll(s) == [b \in DOMAIN table |-> IF s \in ToSet(table[b]) THEN <<>> ELSE table[b]]

(* Only the first of a chain is unlinked.  For any other the code assigns   *)
(* to its local prev, and the chain keeps the entry it frees.               *)
Unlinked(s) ==
  [b \in DOMAIN table |->
     IF table[b] # <<>> /\ Head(table[b]) = s THEN Tail(table[b]) ELSE table[b]]

First(s) == \E b \in DOMAIN table : table[b] # <<>> /\ Head(table[b]) = s

HashRemove(k) ==
  /\ Entries(k) # {}
  /\ LET s == CHOOSE t \in Entries(k) : TRUE
     IN /\ table' = Unlinked(s)
        /\ entry' = [t \in Live \ {s} |-> entry[t]]
        /\ wild' = ~First(s)
        /\ Disturb({w \in Loops : loop[w].at = s}, k)
  /\ entries' = entries - 1
  /\ hret' = <<TRUE>>
  /\ UNCHANGED loop

HashRemoveNothing(k) ==
  /\ Entries(k) = {}
  /\ hret' = <<FALSE>>
  /\ UNCHANGED <<hash, loop, hmet, hsteady, wild>>

HashKeys ==
  /\ LET order == Traversal(table) IN hret' = [i \in DOMAIN order |-> entry[order[i]].key]
  /\ UNCHANGED <<hash, loop, hmet, hsteady, wild>>

HashToArray ==
  /\ LET order == Traversal(table) IN hret' = [i \in DOMAIN order |-> entry[order[i]].data]
  /\ UNCHANGED <<hash, loop, hmet, hsteady, wild>>

(* write_object() saves the entries in the order of a traversal; after a    *)
(* restart read_entry() sets them one by one in a new table.  Nothing of    *)
(* the frames, and so of the loops, is saved.                               *)
Reload ==
  /\ LET order == Traversal(table)
         read(n) == [s \in {order[i] : i \in 1..n} |-> entry[s]]
         filled[n \in 0..Len(order)] ==
           IF n = 0 THEN Empty ELSE Prepended(filled[n - 1], read(n), order[n])
     IN table' = filled[Len(order)]
  /\ loop' = [w \in Loops |-> Idle]
  /\ hsteady' = [w \in Loops |-> {}]
  /\ hmet' = [w \in Loops |-> NoneMet]
  /\ UNCHANGED <<entry, entries, hret, wild>>

-----------------------------------------------------------------------------
(* foreach.                                                                 *)

HashForeach(w) ==
  /\ ~loop[w].on
  /\ loop' = [loop EXCEPT ![w] = [on |-> TRUE, index |-> 0, at |-> None]]
  /\ hsteady' = [hsteady EXCEPT ![w] = {entry[s].key : s \in Live}]
  /\ hret' = <<TRUE>>
  /\ UNCHANGED <<hash, hmet, wild>>

(* Mutant: the rest of the chain is forgotten.                              *)
NextEventAfter(i, s) == [on |-> TRUE, index |-> i + 1, at |-> None]

(* The event pushed before the function is called for the entry s, found    *)
(* while the loop is at chain i.                                            *)
NextEvent(i, s) ==
  LET b == CHOOSE c \in DOMAIN table : s \in ToSet(table[c])
      p == CHOOSE q \in DOMAIN table[b] : table[b][q] = s
  IN IF p < Len(table[b])
     THEN [on |-> TRUE, index |-> i, at |-> table[b][p + 1]]
     ELSE [on |-> TRUE, index |-> i + 1, at |-> None]

Visit(w, i, s) ==
  /\ loop' = [loop EXCEPT ![w] = NextEvent(i, s)]
  /\ hmet' = [hmet EXCEPT ![w] =
               [k \in Key |-> IF k = entry[s].key /\ k \in hsteady[w] THEN @[k] + 1 ELSE @[k]]]
  /\ UNCHANGED <<hash, hret, hsteady, wild>>

(* HashEventForeach::do_event: the entry it was given, ...                  *)
ForeachGiven(w) ==
  /\ loop[w].on /\ loop[w].at # None
  /\ IF loop[w].at \in Live
     THEN Visit(w, loop[w].index, loop[w].at)
     ELSE wild' = TRUE /\ UNCHANGED <<hash, hret, loop, hsteady, hmet>>

(* ... or the first of the next chain that has any, ...                     *)
ForeachScans(w) ==
  /\ loop[w].on /\ loop[w].at = None
  /\ \E i \in loop[w].index..(Size - 1) :
       /\ table[i] # <<>>
       /\ \A j \in loop[w].index..(i - 1) : table[j] = <<>>
       /\ Visit(w, i, Head(table[i]))

(* ... or, if there is none, nothing: the loop is over.                     *)
AtEnd(w) ==
  /\ loop[w].on /\ loop[w].at = None
  /\ \A i \in loop[w].index..(Size - 1) : table[i] = <<>>

ForeachEnds(w) ==
  /\ AtEnd(w)
  /\ loop' = [loop EXCEPT ![w] = Idle]
  /\ hsteady' = [hsteady EXCEPT ![w] = {}]
  /\ hmet' = [hmet EXCEPT ![w] = NoneMet]
  /\ UNCHANGED <<hash, hret, wild>>

HashNext ==
  /\ ~wild
  /\ \/ \E k \in Key : HashGet(k) \/ HashRemove(k) \/ HashRemoveNothing(k)
     \/ \E k \in Key, v \in Data : HashReplace(k, v)
     \/ \E k \in Key, v \in Data, s \in Slot : HashAdd(k, v, s)
     \/ HashKeys \/ HashToArray \/ Reload
     \/ \E w \in Loops :
          HashForeach(w) \/ ForeachGiven(w) \/ ForeachScans(w) \/ ForeachEnds(w)

HashSpec == HashInit /\ [][HashNext]_hashVars

-----------------------------------------------------------------------------
(* Properties                                                               *)

(* A foreach calls its function exactly once for every name that is in the  *)
(* hash from its beginning to its end, whatever the calls add, replace or   *)
(* remove, as long as the entry it would come to next is not removed and    *)
(* the table does not grow (HashEventForeach keeps both across the calls).  *)
StayersMetOnce ==
  \A w \in Loops :
    AtEnd(w) => \A k \in hsteady[w] : hmet[w][k] = 1

(* Chains, growth and reloading are invisible: the hash is a map, and every *)
(* method returns what the map would (hash.h).                              *)
M == INSTANCE MooMap WITH
       map <- [k \in Key |-> Lookup(k)], ret <- hret, Value <- Data
ImplementsMap == M!Spec

(* hash.h:17, "Allow entries to be removed": what remove() has removed is   *)
(* in no chain any more.                                                    *)
RemovedIsGone ==
  \A b \in DOMAIN table : ToSet(table[b]) \subseteq Live

=============================================================================
