------------------------------- MODULE Texts -------------------------------
(***************************************************************************)
(* The string functions (lib/strings.cpp) on texts, which are sequences of *)
(* characters.  Texts are shorter than the buffers the functions have for  *)
(* them.  Where the code goes on reading behind the end of a text, what it *)
(* finds there is undefined, and so is the result: "beyond".               *)
(***************************************************************************)
EXTENDS Integers, SequencesExt

CONSTANT Depth   (* the calls string_expand() may nest before its memory ends *)

Whitespace == {"sp", "tab", "nl", "cr"}
Digit      == {"0", "1", "2", "3", "4", "5", "6", "7", "8", "9"}
NameChar   == Digit \cup {"a", "b", "n", "x", ".", "_"}   \* IS_VALID_CHAR

(* The first position from i on whose character is in (or, not in) C, or    *)
(* the one of the end.                                                      *)
FirstIn(s, i, C) ==
  CHOOSE p \in i..(Len(s) + 1) :
    /\ p <= Len(s) => s[p] \in C
    /\ \A o \in i..(p - 1) : s[o] \notin C

FirstNotIn(s, i, C) ==
  CHOOSE p \in i..(Len(s) + 1) :
    /\ p <= Len(s) => s[p] \notin C
    /\ \A o \in i..(p - 1) : s[o] \in C

CharAt(s, i) == IF i <= Len(s) THEN s[i] ELSE "end"

From(s, i) == SubSeq(s, i, Len(s))

-----------------------------------------------------------------------------
(* string_expand.                                                           *)

(* string_escape_char: what the characters from i on stand for, and how many*)
(* they are.  A character given by its number is "byte".                    *)
Escape(s, i) ==
  LET c == CharAt(s, i)
  IN CASE c = "n" -> [char |-> "nl", used |-> 1]
       [] c = "r" -> [char |-> "cr", used |-> 1]
       [] c = "t" -> [char |-> "tab", used |-> 1]
       [] c = "e" -> [char |-> "esc", used |-> 1]
       [] c = "x" -> [char |-> "byte", used |-> 3]
       [] c \in Digit ->
            [char |-> "byte",
             used |-> IF CharAt(s, i + 1) \notin Digit THEN 1
                      ELSE IF CharAt(s, i + 2) \notin Digit THEN 2 ELSE 3]
       [] OTHER -> [char |-> c, used |-> 1]

(* Mutant: the character after an unbraced name is taken with it.           *)
ReferenceAndNext(s, i) ==
  LET r     == IF CharAt(s, i + 1) = "&" THEN i + 2 ELSE i + 1
      b     == IF CharAt(s, r) = "{" THEN r + 1 ELSE r
      after == FirstNotIn(s, b, NameChar)
  IN [name |-> SubSeq(s, b, after - 1), deep |-> r = i + 2, next |-> after + 1]

(* The reference that begins at i: $name, ${name}, $&name or $&{name}.  The *)
(* character after a braced name is taken for the closing brace, even the   *)
(* end of the text.                                                         *)
Reference(s, i) ==
  LET r     == IF CharAt(s, i + 1) = "&" THEN i + 2 ELSE i + 1
      b     == IF CharAt(s, r) = "{" THEN r + 1 ELSE r
      after == FirstNotIn(s, b, NameChar)
  IN [name |-> SubSeq(s, b, after - 1), deep |-> r = i + 2,
      next |-> IF b = r THEN after ELSE after + 1]

Result(how, text) == [how |-> how, text |-> text]

(* A text with its references replaced by their values in env, which is a   *)
(* function of names: what t is from i on, when depth calls are nested.     *)
StringExpand(s, env) ==
  LET Expanded[depth \in 0..(Depth + 1), t \in Seq(STRING), i \in Nat] ==
        LET Then(text, next) ==
              LET rest == Expanded[depth, t, next]
              IN [rest EXCEPT !.text = text \o @]
        IN CASE depth > Depth    -> Result("endless", <<>>)
             [] i > Len(t) + 1   -> Result("beyond", <<>>)
             [] i = Len(t) + 1   -> Result("text", <<>>)
             [] CharAt(t, i) = "\\" /\ i = Len(t) -> Result("text", <<>>)
             [] CharAt(t, i) = "\\" /\ i < Len(t) ->
                  LET e == Escape(t, i + 1) IN Then(<<e.char>>, i + 1 + e.used)
             [] CharAt(t, i) = "$" ->
                  LET ref   == Reference(t, i)
                      plain == IF ref.name \in DOMAIN env THEN env[ref.name] ELSE <<>>
                      value == IF ref.deep THEN Expanded[depth + 1, plain, 1]
                               ELSE Result("text", plain)
                  IN IF value.how = "text" THEN Then(value.text, ref.next) ELSE value
             [] OTHER -> Then(<<t[i]>>, i + 1)
  IN Expanded[0, s, 1]

-----------------------------------------------------------------------------
(* Pieces of texts.                                                         *)

Chop(s)  == IF s = <<>> THEN s ELSE Front(s)
Ltrim(s) == From(s, FirstNotIn(s, 1, Whitespace))

(* From a position in the text or at its end; len is -1 for all there is.   *)
Substr(s, pos, len) ==
  IF pos < 0 THEN <<>>
  ELSE SubSeq(s, pos + 1, IF len = -1 \/ pos + len > Len(s) THEN Len(s) ELSE pos + len)

RemoveWord(s) ==
  LET word  == FirstNotIn(s, 1, Whitespace)
      after == FirstIn(s, word, Whitespace)
  IN From(s, FirstNotIn(s, after, Whitespace))

(* basic_parse_words has got to i, and the word it is in begins at start:   *)
(* that word and those after it.  A quotation mark ends a word as white     *)
(* space does.                                                              *)
WordsFrom(s, first) ==
  LET words[i \in Nat, start \in Nat] ==
        LET stop == FirstIn(s, i, Whitespace \cup {"quote"})
            Closed(from, at) ==
              LET next == FirstNotIn(s, at + 1, Whitespace)
              IN <<SubSeq(s, from, at - 1)>> \o words[next, next]
        IN IF stop > Len(s)
           THEN IF start > Len(s) THEN <<>> ELSE <<From(s, start)>>
           ELSE IF s[stop] # "quote" THEN Closed(start, stop)
           ELSE IF start < stop THEN <<SubSeq(s, start, stop - 1)>> \o words[stop, stop]
           ELSE LET end == FirstIn(s, stop + 1, {"quote"})
                IN IF end <= Len(s) THEN Closed(stop + 1, end)
                   ELSE IF stop = Len(s) THEN <<>> ELSE <<From(s, stop + 1)>>
  IN words[first, first]

(* Mutant: white space before the first word is not skipped.                *)
ParseWordsUntrimmed(s) == WordsFrom(s, 1)

ParseWords(s) == WordsFrom(s, FirstNotIn(s, 1, Whitespace))

=============================================================================
