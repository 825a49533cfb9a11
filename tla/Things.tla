------------------------------- MODULE Things -------------------------------
(***************************************************************************)
(* Things (objs/thing.cpp) as programs see them: their properties and      *)
(* methods are looked up through their parents and written to themselves,  *)
(* every entry has an owner and a mode, dotted names lead from thing to    *)
(* thing (objs/object.cpp, code/frame.cpp), and a clone is initialised by  *)
(* calls pushed onto the frame that made it, between which other frames    *)
(* may run.                                                                *)
(*                                                                         *)
(* A dotted name is a sequence of names; the name of an entry is one too,  *)
(* because only the first dot of a name is ever looked for.                *)
(***************************************************************************)
EXTENDS Integers, SequencesExt

CONSTANTS
  MaxThings,   (* as many things are ever made                             *)
  Path,        (* the dotted names programs use                            *)
  Method,      (* the names of methods                                     *)
  Plain,       (* the values that are no things                            *)
  Lambda,      (* the functions                                            *)
  Frame,       (* the code frames                                          *)
  OwnerOf,     (* m_owner of every frame                                   *)
  Wizard,      (* the owners that have the wizard bit                      *)
  Mode,        (* the modes that entries in data files have                *)
  MaxWrites,   (* programs write this many times                           *)
  None,        (* NULL                                                     *)
  Native,      (* the builtin method                                       *)
  Denied,      (* moo_permissions was thrown                               *)
  Mistyped     (* moo_type_error was thrown                                *)

initialize == "initialize"
builtin    == "clone"     \* one of thing_methods

Thing == 0..(MaxThings - 1)
Value == Thing \cup Plain \cup Lambda

Right   == {"owner", "else"} \X {"r", "w"}    \* MOO_MODE_OR, _OW, _ER, _EW
Default == Right                              \* MOO_DEFAULT_MODE

ASSUME ThingsAssumption ==
  /\ MaxThings \in Nat \ {0} /\ MaxWrites \in Nat
  /\ OwnerOf \in [Frame -> Int]
  /\ Mode \subseteq SUBSET Right
  /\ {initialize, builtin} \subseteq Method
  /\ None \notin Value

VARIABLES
  parent,      (* m_parent of every thing; -1 is no thing                  *)
  prop,        (* m_properties: a function of names on every thing         *)
  meth,        (* m_methods                                                *)
  ret,         (* what the last operation returned                         *)
  calls,       (* the initialize calls on each frame's stack, the next last*)
  inits,       (* history: the initialize functions run on each thing      *)
  due,         (* history: the ones its parents had for it when it was made*)
  denied,      (* history: the things for which one of those could not be  *)
               (* read                                                     *)
  cut,         (* history: the things one of which threw for               *)
  wrote,       (* history: the thing whose property was set just now       *)
  writes       (* how often programs have written                          *)

table == <<parent, prop, meth>>
cloning == <<calls, inits, due, denied, cut>>
vars  == <<table, ret, cloning, wrote, writes>>

Made  == DOMAIN parent
Entry == [data : Value, owner : Int, mode : SUBSET Right]

(* The thing and its parents, nearest first.                                *)
Ancestry[t \in Made \cup {-1}] == IF t = -1 THEN <<>> ELSE <<t>> \o Ancestry[parent[t]]

(* A parent is older than its clones, so looking things up always ends.     *)
TypeOK ==
  /\ Made = 0..(Len(inits) - 1)
  /\ \A t \in Made : parent[t] \in -1..(t - 1)
  /\ \A t \in Made : \A n \in DOMAIN prop[t] : prop[t][n] \in Entry
  /\ \A t \in Made : \A n \in DOMAIN meth[t] : n \in Method /\ meth[t][n] \in Entry
  /\ ret \in Value \cup {None, Native, Denied, Mistyped}
  /\ \A f \in Frame : \A i \in DOMAIN calls[f] : calls[f][i].this \in Made

(* A database that holds one thing, read from its file: a property and an   *)
(* initialize method, owned alike.                                          *)
Init ==
  /\ parent = [t \in {0} |-> -1]
  /\ \E e \in [data : Plain, owner : {OwnerOf[f] : f \in Frame}, mode : Mode] :
       /\ \E n \in {p \in Path : Len(p) = 1} : prop = [t \in {0} |-> [m \in {n} |-> e]]
       /\ \E l \in Lambda :
            meth = [t \in {0} |-> [m \in {initialize} |-> [e EXCEPT !.data = l]]]
  /\ wrote = None
  /\ writes = 0
  /\ ret = None
  /\ calls = [f \in Frame |-> <<>>]
  /\ inits = <<<<>>>>
  /\ due = <<<<>>>>
  /\ denied = {}
  /\ cut = {}

-----------------------------------------------------------------------------
(* Looking up.                                                              *)

(* MooThing::check                                                          *)
Allowed(f, right, owner, mode) ==
  \/ OwnerOf[f] \in Wizard
  \/ <<IF owner = OwnerOf[f] THEN "owner" ELSE "else", right>> \in mode

(* The first of t and its parents that has an entry n in tab, or None.      *)
Holder(tab, t, n) ==
  LET line == Ancestry[t]
      has  == {i \in DOMAIN line : n \in DOMAIN tab[line[i]]}
  IN IF has = {} THEN None ELSE line[CHOOSE i \in has : \A j \in has : i <= j]

Found(f, tab, t, n) ==
  LET h == Holder(tab, t, n)
  IN IF h = None THEN None
     ELSE IF Allowed(f, "r", tab[h][n].owner, tab[h][n].mode) THEN tab[h][n].data
     ELSE Denied

(* Where resolve_property() ends up: the first name is a property of t that *)
(* must be there, and all that follows its dot is one name of what it holds.*)
Target(f, t, path) == IF Len(path) = 1 THEN t ELSE Found(f, prop, t, <<Head(path)>>)
LastName(path) == IF Len(path) = 1 THEN path ELSE Tail(path)

(* access_property and access_method throw for what is not a thing.         *)
Outcome(target) ==
  CASE target \in {None, Denied} -> target
    [] OTHER -> Mistyped

Yields(r) == ret' = r

Idle(f) == calls[f] = <<>>

-----------------------------------------------------------------------------
(* Properties.                                                              *)

GetProperty(f, t, path) ==
  /\ Idle(f)
  /\ LET target == Target(f, t, path)
     IN Yields(IF target \in Made THEN Found(f, prop, target, LastName(path))
                  ELSE Outcome(target))
  /\ wrote' = None
  /\ UNCHANGED <<table, cloning, writes>>

(* Mutant: the entry is made anew.                                          *)
StoredAnew(f, entries, n, v) ==
  [m \in DOMAIN entries \cup {n} |->
     IF m = n THEN [data |-> v, owner |-> OwnerOf[f], mode |-> Default] ELSE entries[m]]

(* The entry n of t holds v: it keeps its owner and its mode, and a new one *)
(* is the frame's.                                                          *)
Stored(f, entries, n, v) ==
  IF n \in DOMAIN entries
  THEN [entries EXCEPT ![n].data = v]
  ELSE [m \in DOMAIN entries \cup {n} |->
          IF m = n THEN [data |-> v, owner |-> OwnerOf[f], mode |-> Default] ELSE entries[m]]

(* Mutant: an inherited entry is written where it is.                       *)
WrittenAbove(f, tab, t, n, v) ==
  [tab EXCEPT ![IF Holder(tab, t, n) = None THEN t ELSE Holder(tab, t, n)] = Stored(f, @, n, v)]

(* Only the thing itself is written, whatever its parents have.             *)
Written(f, tab, t, n, v) == [tab EXCEPT ![t] = Stored(f, @, n, v)]

(* m_owner and m_mode of a thing are -1 and the default.                    *)
Writable(f, tab, t, n) ==
  IF n \in DOMAIN tab[t] THEN Allowed(f, "w", tab[t][n].owner, tab[t][n].mode)
  ELSE Allowed(f, "w", -1, Default)

Writing == writes < MaxWrites /\ writes' = writes + 1

SetProperty(f, t, path, v) ==
  /\ Idle(f) /\ Writing
  /\ LET target == Target(f, t, path)
         n      == LastName(path)
     IN /\ wrote' = target
        /\ IF target \notin Made THEN Yields(Outcome(target)) /\ UNCHANGED prop
           ELSE IF ~Writable(f, prop, target, n) THEN Yields(Denied) /\ UNCHANGED prop
           ELSE Yields(v) /\ prop' = Written(f, prop, target, n, v)
  /\ UNCHANGED <<parent, meth, cloning>>

-----------------------------------------------------------------------------
(* Methods.                                                                 *)

(* The builtin methods come before a thing's own.                           *)
GetMethod(f, t, n) ==
  /\ Idle(f)
  /\ Yields(IF n = builtin THEN Native ELSE Found(f, meth, t, n))
  /\ wrote' = None
  /\ UNCHANGED <<table, cloning, writes>>

SetMethod(f, t, n, l) ==
  /\ Idle(f) /\ Writing
  /\ IF Writable(f, meth, t, n)
     THEN Yields(l) /\ meth' = Written(f, meth, t, n, l)
     ELSE Yields(Denied) /\ UNCHANGED meth
  /\ wrote' = None
  /\ UNCHANGED <<parent, prop, cloning>>

(* Setting a method to nil removes it, without a look at its mode.          *)
RemoveMethod(f, t, n) ==
  /\ Idle(f) /\ Writing
  /\ meth' = [meth EXCEPT ![t] = [m \in DOMAIN @ \ {n} |-> @[m]]]
  /\ Yields(None)
  /\ wrote' = None
  /\ UNCHANGED <<parent, prop, cloning>>

-----------------------------------------------------------------------------
(* Cloning.                                                                 *)

(* Where a line of parents has or inherits an initialize method.            *)
Initialized(line) == {i \in DOMAIN line : Holder(meth, line[i], initialize) # None}

(* Those before the first that the frame may not read.                      *)
Readable(f, line) ==
  {i \in Initialized(line) : \A j \in 1..i : Found(f, meth, line[j], initialize) # Denied}

(* Mutant: the calls are pushed the other way round.                        *)
PushedNearestLast(f, line, this) ==
  LET n == Cardinality(Readable(f, line))
  IN [i \in Readable(f, line) |->
        [func |-> Found(f, meth, line[n + 1 - i], initialize), this |-> this]]

(* thing_clone pushes one call for every parent that has or inherits an     *)
(* initialize method, beginning with the nearest.  Those are the first of   *)
(* the line: what a parent has, all its clones inherit.                     *)
Pushed(f, line, this) ==
  [i \in Readable(f, line) |->
     [func |-> Found(f, meth, line[i], initialize), this |-> this]]

(* What the parents have of their own, by how far away they are.            *)
OwnInitialize(line) ==
  [i \in {j \in DOMAIN line : initialize \in DOMAIN meth[line[j]]} |->
     meth[line[i]][initialize].data]

(* Mutant: the new thing is its own parent.                                 *)
ParentSelf(t, new) == new

(* MooThing::clone                                                          *)
NewParent(t, new) == t

(* The thing is made first.  A method that may not be read throws after     *)
(* nearer ones were pushed: a handler of the program takes them off again,  *)
(* and without one they are what the frame goes on with, if it ever does.   *)
Clone(f, t) ==
  /\ Idle(f) /\ Len(inits) < MaxThings
  /\ LET new     == Len(inits)
         line    == Ancestry[t]
         push    == Pushed(f, line, new)
         refused == Initialized(line) # Readable(f, line)
     IN /\ parent' = [u \in Made \cup {new} |-> IF u = new THEN NewParent(t, new) ELSE parent[u]]
        /\ prop' = [u \in Made \cup {new} |-> IF u = new THEN <<>> ELSE prop[u]]
        /\ meth' = [u \in Made \cup {new} |-> IF u = new THEN <<>> ELSE meth[u]]
        /\ \/ calls' = [calls EXCEPT ![f] = push]
           \/ refused /\ calls' = [calls EXCEPT ![f] = <<>>]
        /\ inits' = Append(inits, <<>>)
        /\ due' = Append(due, OwnInitialize(line))
        /\ denied' = IF refused THEN denied \cup {new} ELSE denied
        /\ Yields(IF refused THEN Denied ELSE new)
  /\ wrote' = None
  /\ UNCHANGED <<cut, writes>>

(* The call on top of the frame's stack; what it returns is the frame's     *)
(* value from then on.  (An exception in it that nothing catches ends the   *)
(* run, and if the frame ever goes on, it is with the next call.)           *)
RunInitialize(f) ==
  /\ ~Idle(f)
  /\ LET call == Last(calls[f])
     IN /\ inits' = [inits EXCEPT ![call.this + 1] = Append(@, call.func)]
        /\ calls' = [calls EXCEPT ![f] = Front(@)]
        /\ \E v \in Plain \cup Made : Yields(v)
  /\ wrote' = None
  /\ UNCHANGED <<table, due, denied, cut, writes>>

(* It throws, and the handler is one around the clone: the calls still to   *)
(* come are taken off the stack.                                            *)
InitializeThrows(f) ==
  /\ ~Idle(f)
  /\ LET call == Last(calls[f])
     IN /\ inits' = [inits EXCEPT ![call.this + 1] = Append(@, call.func)]
        /\ cut' = cut \cup {call.this}
  /\ calls' = [calls EXCEPT ![f] = <<>>]
  /\ Yields(None)
  /\ wrote' = None
  /\ UNCHANGED <<table, due, denied, writes>>

Next ==
  \/ \E f \in Frame, t \in Made, p \in Path : GetProperty(f, t, p)
  \/ \E f \in Frame, t \in Made, p \in Path, v \in Made \cup Plain : SetProperty(f, t, p, v)
  \/ \E f \in Frame, t \in Made, n \in Method :
       \/ GetMethod(f, t, n) \/ RemoveMethod(f, t, n)
       \/ \E l \in Lambda : SetMethod(f, t, n, l)
  \/ \E f \in Frame, t \in Made : Clone(f, t)
  \/ \E f \in Frame : RunInitialize(f) \/ InitializeThrows(f)

Spec == Init /\ [][Next]_vars

-----------------------------------------------------------------------------
(* Properties                                                               *)

(* The sequence s holds members of d, those with higher numbers first, each *)
(* once or several times in a row: s[i] is the from[i]-th.                  *)
Descends(s, d, from) ==
  /\ \A i \in DOMAIN s : s[i] = d[from[i]]
  /\ \A i, j \in DOMAIN s : i < j => from[i] >= from[j]

(* None is passed over, ...                                                 *)
Gapless(s, d, from) ==
  \A i \in DOMAIN s : \A k \in DOMAIN d : k > from[i] => \E j \in 1..(i - 1) : from[j] = k

(* ... and none is left out.                                                *)
Covers(s, d, from) == \A k \in DOMAIN d : \E i \in DOMAIN s : from[i] = k

Waits(f, t) == \E i \in DOMAIN calls[f] : calls[f][i].this = t

(* thing.cpp:334, "Call the 'initialize' method of each parent object (Most *)
(* distant parent will be called first)": at any time and whatever other    *)
(* frames define in between, a clone has been initialised by methods its    *)
(* parents had when it was made, those of distant parents first; unless one *)
(* of them could not be read, none was passed over; and unless one threw,   *)
(* it has been initialised by all of them once its calls are over.  (A      *)
(* parent without a method of its own has the call of the next one          *)
(* repeated.)                                                               *)
InitializedTopDown ==
  \A t \in Made :
    LET s == inits[t + 1]
        d == due[t + 1]
    IN \E from \in [DOMAIN s -> DOMAIN d] :
         /\ Descends(s, d, from)
         /\ t \notin denied => Gapless(s, d, from)
         /\ t \notin denied \cup cut /\ ~(\E f \in Frame : Waits(f, t)) => Covers(s, d, from)

(* Everything a frame with all rights reads as t's n.                       *)
Seen(tab, t, n) == LET h == Holder(tab, t, n) IN IF h = None THEN None ELSE tab[h][n].data

Named == {<<Head(p)>> : p \in Path} \cup {LastName(p) : p \in Path}

(* What a thing has from its parents changes only by a change to the parent *)
(* it has it from, or to a nearer one: writing to a clone reaches neither   *)
(* its parents nor its siblings (access_property writes to m_properties of  *)
(* the thing itself).                                                       *)
WritesStayBelow ==
  [][prop' # prop =>
       \A u \in Made : \A n \in Named :
         Seen(prop', u, n) # Seen(prop, u, n) => Contains(Ancestry[u], wrote')]_vars

(* No sequence of writes changes whose a property is or what others may do  *)
(* with it.  (Of properties only: a method can be removed, whatever its     *)
(* mode, and defined again by anyone.)                                      *)
RightsKept ==
  [][\A t \in Made : \A n \in DOMAIN prop[t] :
       /\ n \in DOMAIN prop'[t]
       /\ prop'[t][n].owner = prop[t][n].owner
       /\ prop'[t][n].mode = prop[t][n].mode]_vars

=============================================================================
