------------------------------ MODULE Builtins ------------------------------
(***************************************************************************)
(* One call of a built-in function (lib/basic.cpp, lib/strings.cpp): the   *)
(* frame has evaluated the arguments, the function reads the objects they  *)
(* point to, may make new ones, and sets the frame's return value or throws*)
(* an exception.                                                           *)
(***************************************************************************)
EXTENDS NumberTexts

CONSTANTS
  ParseProgram(_),        (* Parse and Generate of the module Parser,      *)
  GenerateProgram(_, _),  (* or another grammar's                          *)
  Objects,   (* the objects there are, #t, #f and nil first of all         *)
  Given,     (* the calls to make: a string that is added to the objects,  *)
             (* what it was written from, and the arguments                *)
  Files,     (* what files of programs hold                                *)
  Env        (* the texts of the frame's variables                         *)

VARIABLES
  heap,      (* the objects, by address                                    *)
  args,      (* the addresses the function gets; 0 is NULL                 *)
  source,    (* history: what the first argument's text was written from   *)
  func,      (* the function that has been called                          *)
  ret,       (* the frame's return value, or how the call ended instead    *)
  printed,   (* what it has printed                                        *)
  code       (* the program it has pushed on the frame                     *)

vars == <<heap, args, source, func, ret, printed, code>>

NULL     == 0
True     == 1     \* moo_true, moo_false and moo_nil are there from the start
False    == 2
NilObj   == 3
Thrown   == -1    \* an exception that a try of the program may catch
Crashed  == -2    \* NULL was dereferenced, or the processor trapped

Object(type, num, text, items) == [type |-> type, num |-> num, text |-> text, items |-> items]

BooleanObj      == Object("boolean", Whole(0), <<>>, <<>>)
NumberObj(n)    == Object("number", n, <<>>, <<>>)
StringObj(text) == Object("string", Whole(0), text, <<>>)
ArrayObj(items) == Object("array", Whole(0), <<>>, items)
Other(type)     == Object(type, Whole(0), <<>>, <<>>)


Init ==
  /\ \E given \in Given :
       /\ heap = Append(Objects, StringObj(given.text))
       /\ args = given.args
       /\ source = given.source
  /\ func = "none"
  /\ ret = NULL
  /\ printed = <<>>
  /\ code = <<>>

-----------------------------------------------------------------------------

Calling(name) == func = "none" /\ func' = name /\ UNCHANGED <<args, source>>

Gives(address) == ret' = address /\ UNCHANGED <<heap, printed, code>>
Throws         == Gives(Thrown)
Crashes        == Gives(Crashed)
GivesIf(cond)  == Gives(IF cond THEN True ELSE False)

Makes(object) ==
  /\ heap' = Append(heap, object)
  /\ ret' = Len(heap) + 1
  /\ UNCHANGED <<printed, code>>

Is(a, type) == a # NULL /\ heap[a].type = type
Number(a)   == heap[a].num

(* What to_string() writes.                                                 *)
ToText(a) ==
  LET text[o \in DOMAIN heap] ==
        CASE heap[o].type = "number"  -> NumberText(Number(o))
          [] heap[o].type = "string"  -> heap[o].text
          [] heap[o].type = "boolean" -> <<"#", IF o = True THEN "t" ELSE "f">>
          [] heap[o].type = "array"   ->
               FlattenSeq([i \in DOMAIN heap[o].items |->
                 (IF i = 1 THEN <<>> ELSE <<"sp">>) \o text[heap[o].items[i]]])
          [] OTHER                    -> <<heap[o].type>>
  IN text[a]

(* to_string() of a hash returns whatever it finds, and of a lambda leaves  *)
(* out the terminator; what becomes of such calls is left out.              *)
Writable == \A i \in DOMAIN args : ~Is(args[i], "hash") /\ ~Is(args[i], "lambda")

-----------------------------------------------------------------------------
(* Arithmetic.                                                              *)

Value(how, n) == [how |-> how, n |-> n]

(* The operands one after the other, until one is no number or the operation*)
(* fails.                                                                   *)
Computed(Op(_, _), start, operands) ==
  FoldLeft(LAMBDA v, a : IF v.how # "number" THEN v
                         ELSE IF ~Is(a, "number") THEN Value("throws", v.n)
                         ELSE Op(v.n, Number(a)),
           Value("number", start), operands)

Outcome(v) ==
  CASE v.how = "number" -> Makes(NumberObj(v.n))
    [] v.how = "throws" -> Throws
    [] v.how = "traps"  -> Crashes

(* The first operand is copied, and the copy changed.                       *)
FromFirst(name, Op(_, _)) ==
  /\ Calling(name)
  /\ IF Len(args) < 2 \/ ~Is(Head(args), "number") THEN Throws
     ELSE Outcome(Computed(Op, Number(Head(args)), Tail(args)))

BasicAdd ==
  /\ Calling("+")
  /\ IF Len(args) < 2 THEN Throws
     ELSE Outcome(Computed(LAMBDA n, m : Value("number", Add(n, m)), Whole(0), args))

(* Mutant: the first operand itself is changed.                             *)
BasicSubtractInPlace ==
  /\ Calling("-")
  /\ IF Len(args) < 2 \/ \E i \in DOMAIN args : ~Is(args[i], "number") THEN Throws
     ELSE /\ ret' = Head(args)
          /\ heap' = [heap EXCEPT ![Head(args)].num =
               Computed(LAMBDA n, m : Value("number", Subtract(n, m)), @, Tail(args)).n]
          /\ UNCHANGED <<printed, code>>

BasicSubtract == FromFirst("-", LAMBDA n, m : Value("number", Subtract(n, m)))
BasicMultiply == FromFirst("*", LAMBDA n, m : Value("number", Multiply(n, m)))

BasicDivide ==
  FromFirst("/", LAMBDA n, m : IF DivideThrows(m) THEN Value("throws", n)
                               ELSE IF DivideTraps(n, m) THEN Value("traps", n)
                               ELSE Value("number", Divide(n, m)))

-----------------------------------------------------------------------------
(* Comparisons.                                                             *)

(* The first argument is compared with the others in turn; the first that   *)
(* does not compare as it should, or is no number, decides.                 *)
Comparing(name, Holds(_)) ==
  /\ Calling(name)
  /\ IF Len(args) < 2 \/ ~Is(Head(args), "number") THEN Throws
     ELSE LET fails == {i \in 2..Len(args) :
                          Is(args[i], "number") =>
                            ~Holds(Compare(Number(Head(args)), Number(args[i])))}
          IN IF fails = {} THEN GivesIf(TRUE)
             ELSE IF Is(args[CHOOSE i \in fails : \A j \in fails : i <= j], "number")
             THEN GivesIf(FALSE)
             ELSE Throws

BasicNumEqual    == Comparing("=", LAMBDA c : c = 0)
BasicNumNotEqual == Comparing("!=", LAMBDA c : c # 0)
BasicGt          == Comparing(">", LAMBDA c : c = 1)
BasicGe          == Comparing(">=", LAMBDA c : c # -1)
BasicLt          == Comparing("<", LAMBDA c : c = -1)
BasicLe          == Comparing("<=", LAMBDA c : c # 1)

(* By identity: is it the same object?                                      *)
SameObject == \A i \in DOMAIN args : args[i] = args[1]

BasicEqv    == Calling("eqv?") /\ IF Len(args) < 2 THEN Throws ELSE GivesIf(SameObject)
BasicNotEqv == Calling("!eqv?") /\ IF Len(args) < 2 THEN Throws ELSE GivesIf(~SameObject)

(* By what to_string() writes, whatever the types are.                      *)
BasicEqual ==
  /\ Calling("equal?") /\ Writable
  /\ IF Len(args) < 2 \/ Head(args) = NULL THEN Throws
     ELSE LET differs == {i \in 2..Len(args) :
                            args[i] = NULL \/ ToText(args[i]) # ToText(Head(args))}
          IN IF differs = {} THEN GivesIf(TRUE)
             ELSE IF args[CHOOSE i \in differs : \A j \in differs : i <= j] = NULL THEN Throws
             ELSE GivesIf(FALSE)

BasicNull ==
  /\ Calling("null?")
  /\ IF Len(args) # 1 THEN Throws ELSE GivesIf(args[1] \in {NULL, NilObj})

(* NULL counts as true here, and as false in the forms.                     *)
BasicNot == Calling("not") /\ IF Len(args) # 1 THEN Throws ELSE GivesIf(args[1] = False)

-----------------------------------------------------------------------------
(* Types and the functions that make objects.                               *)

BasicType ==
  /\ Calling("type")
  /\ IF Len(args) # 1 THEN Throws
     ELSE IF args[1] = NULL THEN Crashes
     ELSE Makes(StringObj(<<heap[args[1]].type>>))

TypeIs(name, type) ==
  Calling(name) /\ IF Len(args) # 1 THEN Throws ELSE GivesIf(Is(args[1], type))

BasicBooleanQ == TypeIs("boolean?", "boolean")
BasicNumberQ  == TypeIs("number?", "number")
BasicStringQ  == TypeIs("string?", "string")
BasicArrayQ   == TypeIs("array?", "array")
BasicHashQ    == TypeIs("hash?", "hash")
BasicThingQ   == TypeIs("thing?", "thing")
BasicLambdaQ  == TypeIs("lambda?", "lambda")

(* The array of the arguments itself.                                       *)
BasicArray == Calling("array") /\ Makes(ArrayObj(args))

BasicHash == Calling("hash") /\ IF args # <<>> THEN Throws ELSE Makes(Other("hash"))

(* print needs a thing in *out* to print with.                              *)
BasicPrint ==
  /\ Calling("print") /\ Writable
  /\ \/ Throws
     \/ /\ args # <<>> /\ NULL \notin ToSet(args)
        /\ printed' = FlattenSeq([i \in DOMAIN args |-> ToText(args[i])])
        /\ UNCHANGED <<heap, ret, code>>

BasicTime ==
  /\ Calling("time")
  /\ IF args # <<>> THEN Throws ELSE \E t \in 0..1 : Makes(NumberObj(Float(t, 2)))

-----------------------------------------------------------------------------
(* Programs.                                                                *)

(* get_string(): of no object it is no text either, which nothing checks.   *)
FirstText(Op(_)) ==
  IF args = <<>> \/ Head(args) = NULL THEN Crashes
  ELSE IF ~Is(Head(args), "string") THEN Throws
  ELSE Op(heap[Head(args)].text)

Runs(text) ==
  LET parsed == ParseProgram(text)
  IN CASE parsed.how = "error"  -> Throws
       [] parsed.how = "beyond" -> Crashes
       [] OTHER -> code' = parsed.exprs /\ UNCHANGED <<heap, ret, printed>>

BasicEval == Calling("eval") /\ FirstText(Runs)

(* load: what the file of that name holds, if it can be read.               *)
BasicLoad ==
  /\ Calling("load") /\ Writable
  /\ IF Len(args) # 1 THEN Throws
     ELSE IF args[1] = NULL THEN Gives(ret)
     ELSE Throws \/ \E text \in Files : Runs(text)

(* MooCodeExpr::write_data and read_entry: a program saved in a file and    *)
(* loaded again is parsed from the text generated for it.                   *)
Reload ==
  /\ Calling("reload") /\ source.exprs # <<>>
  /\ Runs(<<"nl">> \o GenerateProgram(source.exprs, 0))

-----------------------------------------------------------------------------
(* Texts.                                                                   *)

(* The functions of one argument.                                           *)
OneText(name, Op(_)) ==
  Calling(name) /\ IF Len(args) # 1 THEN Throws ELSE FirstText(Op)

OneObject(name, Op(_)) ==
  /\ Calling(name) /\ Writable
  /\ IF Len(args) # 1 \/ args[1] = NULL THEN Throws ELSE Op(ToText(args[1]))

BasicExpand ==
  OneText("expand", LAMBDA text :
    LET e == StringExpand(text, Env)
    IN IF e.how = "text" THEN Makes(StringObj(e.text)) ELSE Crashes)

BasicStrlen ==
  /\ Calling("strlen")
  /\ IF Len(args) # 1 \/ ~Is(args[1], "string") THEN Throws
     ELSE Makes(NumberObj(Whole(Len(heap[args[1]].text))))

(* NULL is written as nil.                                                  *)
BasicConcat ==
  /\ Calling("concat") /\ Writable
  /\ IF args = <<>> THEN Throws
     ELSE Makes(StringObj(FlattenSeq([i \in DOMAIN args |->
                            ToText(IF args[i] = NULL THEN NilObj ELSE args[i])])))

BasicChop  == OneObject("chop", LAMBDA text : Makes(StringObj(Chop(text))))
BasicLtrim == OneObject("ltrim", LAMBDA text : Makes(StringObj(Ltrim(text))))

(* From a position behind the text on, the buffer holds what it held before *)
(* or, behind a string or nil, null bytes (strncpy); beyond the buffer is   *)
(* anything, or the process ends.                                           *)
SubstrOf(a, pos, len) ==
  LET text == ToText(a)
  IN IF pos <= Len(text) \/ Is(a, "string") \/ Is(a, "nil")
     THEN Makes(StringObj(Substr(text, pos, len)))
     ELSE Crashes \/ \E left \in {<<>>, <<"byte">>} : Makes(StringObj(Substr(left, 0, len)))

BasicSubstr ==
  /\ Calling("substr") /\ Writable
  /\ IF Len(args) \notin {2, 3} \/ args[1] = NULL \/ ~Is(args[2], "number") THEN Throws
     ELSE LET pos == GetInteger(Number(args[2]))
          IN IF pos < 0 THEN Makes(StringObj(<<>>))
             ELSE IF Len(args) = 2 THEN SubstrOf(args[1], pos, -1)
             ELSE IF ~Is(args[3], "number") THEN Throws
             ELSE SubstrOf(args[1], pos, GetInteger(Number(args[3])))

BasicParseWords ==
  OneText("parse-words", LAMBDA text :
    LET words == ParseWords(text)
    IN /\ heap' = heap \o [i \in DOMAIN words |-> StringObj(words[i])]
                       \o <<ArrayObj([i \in DOMAIN words |-> Len(heap) + i])>>
       /\ ret' = Len(heap) + Len(words) + 1
       /\ UNCHANGED <<printed, code>>)

BasicRemoveWord == OneText("remove-word", LAMBDA text : Makes(StringObj(RemoveWord(text))))

-----------------------------------------------------------------------------

Next ==
  \/ BasicAdd \/ BasicSubtract \/ BasicMultiply \/ BasicDivide
  \/ BasicNumEqual \/ BasicNumNotEqual \/ BasicGt \/ BasicGe \/ BasicLt \/ BasicLe
  \/ BasicEqv \/ BasicNotEqv \/ BasicEqual \/ BasicNull \/ BasicNot
  \/ BasicType \/ BasicBooleanQ \/ BasicNumberQ \/ BasicStringQ \/ BasicArrayQ
  \/ BasicHashQ \/ BasicThingQ \/ BasicLambdaQ \/ BasicArray \/ BasicHash
  \/ BasicPrint \/ BasicTime \/ BasicEval \/ BasicLoad \/ Reload
  \/ BasicExpand \/ BasicStrlen \/ BasicConcat \/ BasicChop \/ BasicLtrim
  \/ BasicSubstr \/ BasicParseWords \/ BasicRemoveWord

Spec == Init /\ [][Next]_vars

-----------------------------------------------------------------------------
(* Properties                                                               *)

(* Numbers are changed in place by MooNumber::add and the like, and a       *)
(* variable, an array and a literal of the program may all hold the same    *)
(* one: none of these functions changes an object that was there before.    *)
ArgumentsKept == [][\A a \in DOMAIN heap : heap'[a] = heap[a]]_vars

(* The operands as far as the integers among them are concerned.            *)
Operands   == [i \in DOMAIN args |-> Number(args[i])]
AllNumbers == args # <<>> /\ \A i \in DOMAIN args : Is(args[i], "number")
AllInts    == \A i \in DOMAIN args : ~Operands[i].float

Sum(s)     == FoldLeft(LAMBDA x, n : Float(x.p * n.q + n.p * x.q, x.q * n.q), Float(0, 1), s)
Product(s) == FoldLeft(LAMBDA x, n : Float(x.p * n.p, x.q * n.q), Float(1, 1), s)

(* What arithmetic would make of the operands, all at once.                 *)
Meant(s) ==
  LET rest == IF s = <<>> THEN <<>> ELSE Tail(s)
      n    == Head(s)
  IN CASE func = "+" -> Sum(s)
       [] func = "*" -> Product(s)
       [] func = "-" -> LET r == Sum(rest) IN Float(n.p * r.q - r.p * n.q, n.q * r.q)
       [] func = "/" -> LET r == Product(rest)
                        IN IF AllInts THEN Float(Truncated(n.p, r.p), 1)
                           ELSE Float(n.p * r.q, n.q * r.p)

(* No integer on the way is too large, and no fraction of an integer is cut *)
(* off before the first double turns up.                                    *)
Representable ==
  /\ \A n \in 1..Len(args) :
       (\A i \in 1..n : ~Operands[i].float) => Meant(SubSeq(Operands, 1, n)).p \in MinInt..MaxInt
  /\ func = "/" => \/ AllInts /\ Product(Tail(Operands)).p \in MinInt..MaxInt
                   \/ Operands[1].float \/ Operands[2].float

(* + - * / of integers and doubles in any mixture and order are what        *)
(* arithmetic says, integer quotients cut off once, and integers stay       *)
(* integers; only a divisor of zero makes them fail (number.h converts the  *)
(* left operand alone, and only when the two differ).                       *)
ArithmeticAgrees ==
  func \in {"+", "-", "*", "/"} /\ AllNumbers /\ Len(args) > 1 =>
    IF func = "/" /\ \E i \in 2..Len(args) : Operands[i].p = 0 THEN ret \in {Thrown, Crashed}
    ELSE Representable => /\ ret > 0
                          /\ Number(ret) = [Meant(Operands) EXCEPT !.float = ~AllInts]

(* Further apart than rounding to single precision can bring two numbers.   *)
Apart(n, m) ==
  LET x == n.p * m.q
      y == m.p * n.q
  IN Abs(x - y) * 2 ^ (Precision - 1) > Max({Abs(x), Abs(y)})

(* compare() rounds to single precision, so numbers that differ may compare *)
(* as equal; but none of the six comparisons ever turns two numbers round,  *)
(* and of numbers that are equal or far enough apart each of them says what *)
(* is so (number.h:46-59, basic.cpp:222-340).                               *)
OrderKept ==
  func \in {"=", "!=", "<", "<=", ">", ">="} /\ AllNumbers /\ Len(args) > 1 =>
    LET exact   == [i \in 2..Len(args) |-> ExactCompare(Operands[1], Operands[i])]
        wanted  == CASE func = "="  -> {0}     [] func = "!=" -> {-1, 1}
                     [] func = "<"  -> {-1}    [] func = ">=" -> {0, 1}
                     [] func = ">"  -> {1}     [] func = "<=" -> {-1, 0}
        IsSo    == \A i \in 2..Len(args) : exact[i] \in wanted
        Certain == \A i \in 2..Len(args) : exact[i] = 0 \/ Apart(Operands[1], Operands[i])
    IN /\ ret \in {True, False}
       /\ func \in {"<", ">", "!="} /\ ret = True => IsSo
       /\ func \in {"<=", ">=", "="} /\ IsSo => ret = True
       /\ Certain => (ret = True <=> IsSo)

(* A program comes back as it was when it is written out, for the log, a    *)
(* lambda's text or a file, and parsed again, if its strings hold neither   *)
(* quotation marks nor backslashes and its doubles no more decimals than %f *)
(* writes (generate(), encode_string()).                                    *)
ParsesBack ==
  func \in {"eval", "reload"} /\ source.exprs # <<>> => code = source.exprs

(* Words written one after the other, in quotation marks where they are     *)
(* empty or hold white space, are the words parse-words returns; and without*)
(* quotation marks remove-word leaves all but the first.                    *)
WordsComeBack ==
  /\ func = "parse-words" /\ source.words # <<>> =>
       [i \in DOMAIN heap[ret].items |-> heap[heap[ret].items[i]].text] = source.words
  /\ func = "remove-word" /\ ret > 0 /\ ~Contains(heap[args[1]].text, "quote") =>
       LET words == ParseWords(heap[args[1]].text)
       IN ParseWords(heap[ret].text) = (IF words = <<>> THEN <<>> ELSE Tail(words))

(* A text made of plain characters, escapes and references in any of their  *)
(* four forms, a name without braces up to the space behind it, expands to  *)
(* what its pieces stand for (strings.cpp:22-52, 91-122).  Where a name ends*)
(* before any space, at a character that no name may have, the comment and  *)
(* the code differ, and nothing is said: "the substring up to the next space*)
(* is taken to be a reference name" (24-25), but IS_VALID_CHAR decides (94).*)
ExpandsAsWritten ==
  func = "expand" /\ source.pieces # <<>> =>
    ret > 0 /\ heap[ret].text = source.pieces[1]

=============================================================================
