------------------------------ MODULE SavedThing ------------------------------
(***************************************************************************)
(* How a thing is written to its file: MooThing, the hashes of its         *)
(* properties and methods and the values in them as XML (data.cpp,         *)
(* thing.cpp, hash.cpp and the write_data() of each type).  DataFile reads *)
(* it again.                                                               *)
(*                                                                         *)
(* The XML library is external: a file is a tree of nodes; it is written   *)
(* indented, so that white space, a node of its own, surrounds the         *)
(* elements in an element.                                                 *)
(***************************************************************************)
EXTENDS NumberTexts, FiniteSets

CONSTANTS
  ParseProgram(_),        (* Parse and Generate of the module Parser, or   *)
  GenerateProgram(_, _)   (* another grammar's                             *)

DefaultMode == 63
Sections    == {"properties", "methods"}

(* A value of the language, with what its type has.                         *)
Val(type) ==
  [type |-> type, text |-> <<>>, num |-> Whole(0), id |-> -1,
   params |-> <<>>, code |-> <<>>]

Nil          == Val("nil")
StringVal(t) == [Val("string") EXCEPT !.text = t]
ThingVal(id) == [Val("thing") EXCEPT !.id = id]

(* MooThing::MooThing; owners and modes are kept with each entry.           *)
NewThing ==
  [id |-> -1, parent |-> -1, owner |-> -1, mode |-> DefaultMode, wizard |-> FALSE,
   properties |-> <<>>, methods |-> <<>>]

(* The types whose load function looks at the current node and returns, and *)
(* those whose values read entries of their own.                            *)
AtOnce == {"nil", "boolean", "thing", "array", "hash"}
Types  == AtOnce \cup {"string", "number", "funcptr", "moolambda", "expr", "tcp", "server"}

(* A long int, and of it what an identifier or a mode may be.               *)
Integer    == MinInt..MaxInt
Identifier == -1..MaxInt
Mode       == 0..MaxInt

(* A value has what its type has, and nothing of another.                   *)
IsValue(v) ==
  LET In(types, field, default) == IF v.type \in types THEN field ELSE default
  IN /\ v.type \in Types
     /\ v = [type   |-> v.type,
             text   |-> In({"string", "boolean", "funcptr", "server"}, v.text, <<>>),
             num    |-> In({"number", "server"}, v.num, Whole(0)),
             id     |-> In({"thing", "server"}, v.id, -1),
             params |-> In({"moolambda"}, v.params, <<>>),
             code   |-> In({"expr", "moolambda"}, v.code, <<>>)]
     /\ v.type \in {"string", "server"} => v.text \in Seq(ToSet(v.text))
     /\ v.type \in {"thing", "server"} => v.id \in Integer
     /\ v.type = "server" => v.num.p \in Integer /\ v.num = Whole(v.num.p)

IsHashEntry(e) ==
  e = [value |-> e.value, owner |-> e.owner, mode |-> e.mode]
    /\ IsValue(e.value) /\ e.owner \in Integer /\ e.mode \in Mode

IsHash(h) ==
  h = [k \in DOMAIN h |-> h[k]] /\ IsFiniteSet(DOMAIN h) /\ \A k \in DOMAIN h : IsHashEntry(h[k])

IsThing(t) ==
  /\ t = [id |-> t.id, parent |-> t.parent, owner |-> t.owner, mode |-> t.mode,
          wizard |-> t.wizard, properties |-> t.properties, methods |-> t.methods]
  /\ t.id \in Integer /\ t.parent \in Identifier /\ t.owner \in Identifier /\ t.mode \in Mode
  /\ t.wizard \in BOOLEAN /\ IsHash(t.properties) /\ IsHash(t.methods)

-----------------------------------------------------------------------------
(* Writing.                                                                 *)

Node(name, attrs, kids, text) == [name |-> name, attrs |-> attrs, kids |-> kids, text |-> text]
NoAttrs  == <<>>
Text(t)  == Node("text", NoAttrs, <<>>, t)
CData(t) == Node("cdata", NoAttrs, <<>>, t)
Blank    == Text(<<"nl">>)

(* An element of elements, and one of a text; an empty text is none.        *)
Element(name, attrs, elements) ==
  Node(name, attrs,
       [i \in 1..(2 * Len(elements) + 1) |-> IF i % 2 = 1 THEN Blank ELSE elements[i \div 2]],
       <<>>)
Leaf(name, text) == Node(name, NoAttrs, IF text = <<>> THEN <<>> ELSE <<Text(text)>>, <<>>)

IntegerText(n) == NumberText([Whole(0) EXCEPT !.p = n])

(* Mutant: %lo.                                                             *)
OctalTextUnmarked(n) == Digits(n, 8)

(* %#lo: a zero marks the number as octal.                                  *)
OctalText(n) == IF n = 0 THEN <<"0">> ELSE <<"0">> \o Digits(n, 8)

(* write_data() of each type: what it puts into the entry of a value.       *)
Elements(elements) == Element("entry", NoAttrs, elements).kids
(* The programs that the values of a type have, and the text of one.        *)
ProgramsOf(type) ==
  CASE type = "expr" -> {"code"} [] type = "moolambda" -> {"params", "code"} [] OTHER -> {}
ProgramText(v, what) ==
  (IF what = "code" THEN <<"nl">> ELSE <<>>) \o GenerateProgram(v[what], 0)
RawLeaf(name, text) == Node(name, NoAttrs, <<CData(text)>>, <<>>)

StringData(v) == Elements(<<Leaf("value", v.text)>>)
(* Its format is not written.                                               *)
NumberData(v) == Elements(<<Leaf("value", NumberText(v.num))>>)
BooleanData(v) == Elements(<<Leaf("value", v.text)>>)
(* The name that the server knows a function by is only set by reading it.  *)
FuncPtrData == Elements(<<Leaf("funcptr", <<"*", "*", "*">>)>>)
ExprData(v) == Elements(<<RawLeaf("code", ProgramText(v, "code"))>>)
LambdaData(v) == Elements(<<RawLeaf("params", ProgramText(v, "params")),
                              RawLeaf("code", ProgramText(v, "code"))>>)
ServerData(v) == Elements(<<Leaf("port", NumberText(v.num)), Leaf("object", IntegerText(v.id)),
                              Leaf("method", v.text)>>)
(* Of a wizard also the bits, which nobody reads there.                     *)
ReferenceData(v) == <<Text(IntegerText(v.id))>>

(* An array or a hash held by a thing has no identifier to refer to it by,  *)
(* and of a connection nothing is written.                                  *)
Contents(v) ==
  CASE v.type = "string"    -> StringData(v)
    [] v.type = "number"    -> NumberData(v)
    [] v.type = "boolean"   -> BooleanData(v)
    [] v.type = "funcptr"   -> FuncPtrData
    [] v.type = "expr"      -> ExprData(v)
    [] v.type = "moolambda" -> LambdaData(v)
    [] v.type = "server"    -> ServerData(v)
    [] v.type = "thing"     -> ReferenceData(v)
    [] OTHER -> <<>>

(* MooObjectHash::write_object; the hash is in no order of its own.         *)
Section(name, hash, order) ==
  Element(name, NoAttrs,
    <<Leaf("id", IntegerText(-1))>> \o
    [i \in DOMAIN order |->
       LET e == hash[order[i]]
       IN Node("entry",
               [key |-> order[i], type |-> e.value.type, owner |-> IntegerText(e.owner),
                mode |-> OctalText(e.mode)],
               Contents(e.value), <<>>)])

(* MooThing::write_object.  The wizard bit is not written.                  *)
Document(t, order) ==
  LET When(condition, element) == IF condition THEN <<element>> ELSE <<>>
  IN Element("thing", NoAttrs,
       <<Leaf("id", IntegerText(t.id))>>
         \o When(t.parent >= 0, Leaf("parent", IntegerText(t.parent)))
         \o When(t.owner >= 0, Leaf("owner", IntegerText(t.owner)))
         \o When(t.mode # DefaultMode, Leaf("mode", OctalText(t.mode)))
         \o When(t.properties # <<>>, Section("properties", t.properties, order.properties))
         \o When(t.methods # <<>>, Section("methods", t.methods, order.methods)))

(* The orders in which the entries of both hashes may come.                 *)
Orders(t) ==
  [properties : SetToSeqs(DOMAIN t.properties), methods : SetToSeqs(DOMAIN t.methods)]

=============================================================================
