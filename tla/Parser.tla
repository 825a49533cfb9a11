------------------------------- MODULE Parser -------------------------------
(***************************************************************************)
(* MooCodeParser (code/parser.cpp, code/parser.h): from a text to the      *)
(* expressions of a program, and back.  An expression is a record of what  *)
(* it is (op), its text or number, and for a call the expressions in it.   *)
(***************************************************************************)
EXTENDS NumberTexts

Call(args)     == [op |-> "call", text |-> <<>>, num |-> Whole(0), args |-> args]
Atom(op, text) == [op |-> op, text |-> text, num |-> Whole(0), args |-> <<>>]
NumberAtom(n)  == [op |-> "number", text |-> <<>>, num |-> n, args |-> <<>>]

-----------------------------------------------------------------------------
(* Reading.                                                                 *)

(* Mutant: an escaped letter is read as it is.                              *)
UnescapedNever(c) == c

(* parser_escape_char                                                       *)
Unescaped(c) ==
  CASE c = "t" -> "tab" [] c = "r" -> "cr" [] c = "n" -> "nl" [] OTHER -> c

Token(type, text, next) == [type |-> type, text |-> text, next |-> next]

(* The rest of a string from i on, in quotation marks.                      *)
RECURSIVE Quoted(_, _, _)
Quoted(s, i, text) ==
  CASE i > Len(s)        -> Token("string", text, i)
    [] CharAt(s, i) = "quote" -> Token("string", text, i + 1)
    [] CharAt(s, i) = "\\" ->
         IF i = Len(s) THEN Token("string", text, i + 2)
         ELSE Quoted(s, i + 2, Append(text, Unescaped(s[i + 1])))
    [] OTHER -> Quoted(s, i + 1, Append(text, s[i]))

(* A word from i on; the white space that ends it is taken, a bracket is    *)
(* not.                                                                     *)
Word(s, type, from, i) ==
  LET stop == FirstIn(s, i, Whitespace \cup {")"} \cup (IF type = "word" THEN {"("} ELSE {}))
      text == SubSeq(s, from, stop - 1)
  IN IF CharAt(s, stop) = "(" THEN Token("error", text, stop)
     ELSE Token(type, text, IF CharAt(s, stop) \in Whitespace THEN stop + 1 ELSE stop)

(* read_token.  A comment that the end of the text ends is read beyond it.  *)
RECURSIVE ReadToken(_, _)
ReadToken(s, i) ==
  LET c == CharAt(s, i)
  IN CASE i > Len(s) -> Token("end", <<>>, i)
       [] c \in Whitespace -> ReadToken(s, i + 1)
       [] c = ";" -> ReadToken(s, FirstIn(s, i + 1, {"nl"}) + 1)
       [] c = "(" -> Token("open", <<>>, i + 1)
       [] c = ")" -> Token("close", <<>>, i + 1)
       [] c = "quote" -> Quoted(s, i + 1, <<>>)
       [] c = "apostrophe" -> Word(s, "string", i + 1, i + 1)
       [] c = "backquote" -> LET stop == FirstIn(s, i + 1, {"apostrophe", "backquote"})
                     IN Token("string", SubSeq(s, i + 1, stop - 1),
                              IF stop > Len(s) THEN stop ELSE stop + 1)
       [] OTHER -> Word(s, "word", i, i + 1)

(* What parse_token makes of a string or a word.                            *)
Read(token) ==
  CASE token.type = "string"    -> Atom("string", token.text)
    [] token.text = <<"#", "t">> -> Atom("true", <<>>)
    [] token.text = <<"#", "f">> -> Atom("false", <<>>)
    [] IsNumber(token.text)     -> NumberAtom(NumberOf(token.text))
    [] OTHER                    -> Atom("identifier", token.text)

Invalid(token) ==
  token.type = "error" \/ (token.type = "word" /\ IsNumber(token.text) /\ ~ValidNumber(token.text))

Parsed(how, exprs, next) == [how |-> how, exprs |-> exprs, next |-> next]

(* parse_list: the expressions from i on, up to a closing bracket, whether  *)
(* one was opened or not, or the end, whether one is missing or not.  When  *)
(* it reads beyond the text, these are the ones if a null byte is there.    *)
RECURSIVE ParseList(_, _, _)
ParseList(s, i, exprs) ==
  LET token == ReadToken(s, i)
  IN IF token.next > Len(s) + 1
       THEN Parsed("beyond", exprs \o (IF token.type = "string" THEN <<Read(token)>> ELSE <<>>), i)
     ELSE IF token.type \in {"end", "close"} THEN Parsed("exprs", exprs, token.next)
     ELSE IF Invalid(token) THEN Parsed("error", exprs, i)
     ELSE IF token.type # "open" THEN ParseList(s, token.next, Append(exprs, Read(token)))
     ELSE LET inner  == ParseList(s, token.next, <<>>)
              called == Append(exprs, Call(inner.exprs))
          IN CASE inner.how = "exprs"  -> ParseList(s, inner.next, called)
               [] inner.how = "beyond" -> [inner EXCEPT !.exprs = called]
               [] OTHER -> inner

Parse(s) == ParseList(s, 1, <<>>)

-----------------------------------------------------------------------------
(* Writing.                                                                 *)

Indent(level) == [i \in 1..(2 * level) |-> "sp"]

(* encode_string; quotation marks and backslashes are written as they are.  *)
Encoded(c) ==
  CASE c = "tab" -> <<"\\", "t">> [] c = "cr" -> <<"\\", "r">> [] c = "nl" -> <<"\\", "n">>
    [] OTHER -> <<c>>

RECURSIVE Generate(_, _), GenerateExpr(_, _)

GenerateExpr(e, level) ==
  CASE e.op = "true"   -> <<"#", "t">>
    [] e.op = "false"  -> <<"#", "f">>
    [] e.op = "string" ->
         <<"quote">> \o FlattenSeq([i \in DOMAIN e.text |-> Encoded(e.text[i])]) \o <<"quote">>
    [] e.op = "number" -> NumberText(e.num)
    [] e.op = "call"   ->
         <<"(">> \o (IF e.args = <<>> THEN <<>>
                     ELSE GenerateExpr(Head(e.args), level + 1)
                       \o (IF Len(e.args) = 1 THEN <<>>
                           ELSE <<"nl">> \o Generate(Tail(e.args), level + 1)))
               \o <<")">>
    [] OTHER -> e.text

(* One expression on a line, each indented by its level.                    *)
Generate(exprs, level) ==
  FlattenSeq([i \in DOMAIN exprs |->
    Indent(level) \o GenerateExpr(exprs[i], level) \o (IF i < Len(exprs) THEN <<"nl">> ELSE <<>>)])

=============================================================================
