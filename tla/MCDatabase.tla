----------------------------- MODULE MCDatabase -----------------------------
(* ObjectStore with room for five identifiers; and, in behaviours of its    *)
(* own, DataFile for one thing with up to two properties and a method.      *)
EXTENDS Database, Parser

-----------------------------------------------------------------------------
(* The things of DataFile.                                                  *)

a == Atom("identifier", <<"a">>)
Lambda(params, code) == [Val("moolambda") EXCEPT !.params = params, !.code = code]
Program == <<Call(<<a, Atom("string", <<"a", "sp", "sp", "b">>), NumberAtom(Whole(-12))>>), a>>

Long == [i \in 1..StringSize |-> IF i = StringSize - 1 THEN "sp" ELSE "a"]

Says(t) == <<Atom("string", t)>>
(* Read as another program each time, as none, behind its end, and longer   *)
(* than the buffers, which end behind a backslash.                          *)
Halved   == Says(<<"\\", "\\", "\\", "\\">>)
Quoting  == Says(<<"a", "quote", "(">>)
Comments == Says(<<"a", "quote", ";">>)
Tabs     == Says([i \in 1..StringSize |-> "tab"])

Values ==
  {Nil, ThingVal(0), ThingVal(1), ThingVal(9), Val("array"), Val("hash"), Val("tcp"),
   [Val("boolean") EXCEPT !.text = <<"#", "t">>], [Val("funcptr") EXCEPT !.text = <<"a">>],
   [Val("server") EXCEPT !.num = Whole(23), !.id = 1, !.text = <<"a">>],
   [Val("number") EXCEPT !.num = Whole(7)], [Val("number") EXCEPT !.num = Float(3, 2)],
   [Val("expr") EXCEPT !.code = Program], Lambda(<<a>>, Program), Lambda(<<>>, <<a>>)}
  \cup {StringVal(t) : t \in {<<>>, <<"a">>, <<"a", "sp", "b">>, <<"sp", "a", "sp", "tab", "b", "nl">>,
                              <<"esc", "a">>, Long}}

Unreadable ==
  {[Val("expr") EXCEPT !.code = p] : p \in {Halved, Quoting, Comments, Tabs}}
  \cup {Lambda(Comments, Halved), Lambda(<<a>>, Tabs)}

Owned(v)   == [value |-> v, owner |-> 1, mode |-> 45]
Anyones(v) == [value |-> v, owner |-> -1, mode |-> DefaultMode]
Properties ==
  {<<>>} \cup {"k1" :> Owned(v) : v \in Values \cup Unreadable}
         \cup {("k1" :> Owned(v)) @@ ("k2" :> Anyones(StringVal(<<"a">>))) : v \in Unreadable}
         \cup {("k1" :> Owned(v)) @@ ("k2" :> Anyones(w)) : v \in Values, w \in Values}

AllThings ==
  {[NewThing EXCEPT !.id = 1, !.properties = p] : p \in Properties}
  \cup {[id |-> 1, parent |-> 0, owner |-> 1, mode |-> 49, wizard |-> TRUE, properties |-> p,
         methods |-> "m" :> Owned(Lambda(<<a, a>>, Program))] : p \in Properties}

=============================================================================
