---------------------------- MODULE NumberTexts -----------------------------
(***************************************************************************)
(* Numbers in texts: what MooNumber writes (to_string()) and what the      *)
(* parser, MooNumber and MooDataFile read from a text (code/parser.cpp,    *)
(* objs/number.cpp, data.cpp).                                             *)
(***************************************************************************)
EXTENDS Texts, Numbers

CONSTANT Decimals   (* those that %f writes                                *)

DigitChar == <<"0", "1", "2", "3", "4", "5", "6", "7", "8", "9">>

Digits(n, base) ==
  LET digits[m \in 0..n] ==
        (IF m < base THEN <<>> ELSE digits[m \div base]) \o <<DigitChar[(m % base) + 1]>>
  IN digits[n]

(* to_string(): %ld or %f.                                                  *)
NumberText(n) ==
  LET scaled == Nearest(Abs(n.p) * 10 ^ Decimals, n.q)
  IN (IF n.p < 0 THEN <<"-">> ELSE <<>>)
       \o IF ~n.float THEN Digits(Abs(n.p), 10)
          ELSE Digits(scaled \div 10 ^ Decimals, 10) \o <<".">>
                 \o [i \in 1..Decimals |-> DigitChar[((scaled \div 10 ^ (Decimals - i)) % 10) + 1]]

IsNumber(text) ==
  CharAt(text, 1) \in Digit \/ (CharAt(text, 1) = "-" /\ CharAt(text, 2) \in Digit)

Unsigned(text) == IF CharAt(text, 1) = "-" THEN Tail(text) ELSE text
Octal(digits)  == CharAt(digits, 1) = "0"

(* Exponents and hexadecimal numbers are left out.                          *)
ValidNumber(text) ==
  LET digits == Unsigned(text)
  IN IF Contains(digits, ".") THEN /\ ToSet(digits) \subseteq Digit \cup {"."}
                                   /\ Len(SelectSeq(digits, LAMBDA c : c = ".")) = 1
     ELSE ToSet(digits) \subseteq Digit \ (IF Octal(digits) THEN {"8", "9"} ELSE {})

DigitOf(c) == CHOOSE d \in 0..9 : DigitChar[d + 1] = c

DigitsValue(digits, base) ==
  LET value[n \in 0..Len(digits)] ==
        IF n = 0 THEN 0 ELSE value[n - 1] * base + DigitOf(digits[n])
  IN value[Len(digits)]

(* strtod() and strtol(), which takes a leading zero for octal and stops at *)
(* the largest number.                                                      *)
NumberOf(text) ==
  LET digits == Unsigned(text)
      s      == IF CharAt(text, 1) = "-" THEN -1 ELSE 1
      n      == s * DigitsValue(digits, IF Octal(digits) THEN 8 ELSE 10)
  IN IF Contains(digits, ".")
     THEN LET dot == FirstIn(digits, 1, {"."})
          IN Float(s * DigitsValue(Remove(digits, "."), 10), 10 ^ (Len(digits) - dot))
     ELSE Whole(IF n > MaxInt THEN MaxInt ELSE IF n < MinInt THEN MinInt ELSE n)

=============================================================================
