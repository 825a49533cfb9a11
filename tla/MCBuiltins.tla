----------------------------- MODULE MCBuiltins -----------------------------
EXTENDS Builtins, Parser

Nothing == [exprs |-> <<>>, words |-> <<>>, pieces |-> <<>>]

(* Every object there is, and calls with any two of them, NULL among them,  *)
(* and with any three numbers.                                              *)
AllObjects ==
  <<BooleanObj, BooleanObj, Other("nil")>>
    \o [i \in 1..9 |-> NumberObj(Whole(<<0, 1, 2, 7, 12, 13, 15, -1, -16>>[i]))]
    \o <<NumberObj(Float(1, 2)), NumberObj(Float(-3, 2)), NumberObj(Float(2, 1)),
         StringObj(<<"1", "2">>), StringObj(<<"#", "t">>), ArrayObj(<<5, 1, 16>>),
         Other("hash"), Other("thing"), Other("lambda")>>

NumberAddress == {a \in DOMAIN AllObjects : AllObjects[a].type = "number"}
Address == {NULL} \cup DOMAIN AllObjects

ObjectCalls ==
  {[text |-> <<>>, args |-> a, source |-> Nothing] :
     a \in {<<>>} \cup (Address \X Address) \cup (NumberAddress \X NumberAddress \X NumberAddress)
             \cup {<<x>> : x \in Address}
             \cup {<<16, p, n>> : p \in {0, 4, 5, 6, 11, 14, 16}, n \in {0, 4, 5, 6, 11, 16}}}

TextCall(text, from) ==
  [text |-> text, args |-> <<Len(AllObjects) + 1>>, source |-> from]

Joined(texts, between) ==
  FlattenSeq([i \in DOMAIN texts |-> texts[i] \o (IF i < Len(texts) THEN between ELSE <<>>)])

UpTo(S, n) == UNION {[1..k -> S] : k \in 0..n}

(* Whatever a short text may hold.                                          *)
AnyTexts == UNION {UpTo({"a", "sp", "quote", "(", ")", ";", "\\", "$", "{", "&", "1", "-"}, 3),
                   UpTo({"a", "sp", "quote"}, 6)}

(* Programs of calls three deep with strings of every kind of character.    *)
Atoms == {Atom("true", <<>>), Atom("false", <<>>), NumberAtom(Whole(-13)),
          NumberAtom(Float(5, 4)), NumberAtom(Float(-1, 10)), NumberAtom(Float(8, 1)), Atom("identifier", <<"a">>), Atom("identifier", <<"#", "1">>)}
           \cup {Atom("string", t) : t \in UpTo({"a", "sp", "tab", "nl", ")"}, 2)}
Few   == {Atom("identifier", <<"a">>), Atom("string", <<"nl">>), Atom("string", <<>>), Call(<<>>)}
Trees == {Call(s) : s \in UpTo(Few, 3)}
Exprs == Atoms \cup Trees \cup {Call(<<t, u>>) : t \in Trees, u \in Few}
Programs == {<<e>> : e \in Exprs} \cup {<<e, f>> : e \in Few, f \in Atoms \cup Trees}

ProgramCalls == {TextCall(Generate(p, 0), [Nothing EXCEPT !.exprs = p]) : p \in Programs}

(* Lists of words as a program writes them, with white space around.        *)
WordList == UpTo({<<"a">>, <<"a", "b">>, <<>>, <<"a", "sp">>, <<"sp">>, <<"1">>}, 3) \ {<<>>}
Bare(word) == word # <<>> /\ \A i \in DOMAIN word : word[i] \notin Whitespace
Shown(word) == IF Bare(word) THEN word ELSE <<"quote">> \o word \o <<"quote">>

WordCalls ==
  {TextCall(before \o Joined([i \in DOMAIN words |-> Shown(words[i])], between) \o after,
            [Nothing EXCEPT !.words = words]) :
     words \in WordList, before \in UpTo({"sp"}, 1), between \in {<<"sp">>, <<"tab", "sp">>},
     after \in UpTo({"sp"}, 1)}

(* Pieces of a text to expand: as it is written, and what it stands for.    *)
Piece(written, meant) == [written |-> written, meant |-> meant]
Values == <<"a">> :> <<"1">> @@ <<"b">> :> <<"$", "a">> @@ <<"x">> :> <<>>
            @@ <<"n">> :> <<"$", "&", "n">>
Pieces == {Piece(<<"\\", "$">>, <<"$">>), Piece(<<"\\", "n">>, <<"nl">>), Piece(<<"a">>, <<"a">>),
           Piece(<<"\\", "\\">>, <<"\\">>), Piece(<<"\\", "1", "2">>, <<"byte">>),
           Piece(<<"$", "{", "a", "}">>, <<"1">>), Piece(<<"$", "{", "b", "}">>, <<"$", "a">>),
           Piece(<<"$", "&", "{", "b", "}">>, <<"1">>), Piece(<<"$", "&", "{", "x", "}">>, <<>>),
           Piece(<<"$", "{", "_", "}">>, <<>>), Piece(<<"$", "a", "sp">>, <<"1", "sp">>),
           Piece(<<"$", "&", "b", "sp">>, <<"1", "sp">>), Piece(<<"sp">>, <<"sp">>)}

PieceCalls ==
  {TextCall(FlattenSeq([i \in DOMAIN s |-> s[i].written]),
            [Nothing EXCEPT !.pieces = <<FlattenSeq([i \in DOMAIN s |-> s[i].meant])>>]) :
     s \in UpTo(Pieces, 3) \ {<<>>}}
  \cup {TextCall(t, Nothing) : t \in {<<"$", "&", "n">>, <<"$", "{", "a">>, <<"\\", "x", "1">>}}

Calls == UNION {ObjectCalls, ProgramCalls, WordCalls, PieceCalls,
                {TextCall(t, Nothing) : t \in AnyTexts}}

ProgramFiles == {<<>>, <<"(", "a", ")">>, <<"1", "a">>}
=============================================================================
