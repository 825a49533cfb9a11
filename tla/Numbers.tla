------------------------------ MODULE Numbers ------------------------------
(***************************************************************************)
(* MooNumber (objs/number.h, objs/number.cpp): an integer of Width bits or *)
(* a double, which takes part in arithmetic in place and is compared in    *)
(* single precision.                                                       *)
(*                                                                         *)
(* A number is a fraction p/q in lowest terms.  Doubles are exact here; it *)
(* is the floats of compare() whose Precision is cut down.                 *)
(***************************************************************************)
EXTENDS Integers, SequencesExt

CONSTANTS
  Width,      (* the bits of a long int                                    *)
  Precision   (* the bits of a float's mantissa                            *)

ASSUME NumberAssumption ==
  /\ Width \in Nat /\ Width >= 2
  /\ Precision \in Nat \ {0}

Abs(n)  == IF n < 0 THEN -n ELSE n
Sign(n) == IF n < 0 THEN -1 ELSE IF n = 0 THEN 0 ELSE 1

Gcd[a \in Nat, b \in Nat] == IF b = 0 THEN a ELSE Gcd[b, a % b]

MinInt == -(2 ^ (Width - 1))
MaxInt == 2 ^ (Width - 1) - 1

(* Division in C cuts the fraction off.                                     *)
Truncated(p, q) == Sign(p) * Sign(q) * (Abs(p) \div Abs(q))

(* Overflow of a long int wraps in what the compiler makes of it.           *)
Wrapped(n) == ((n - MinInt) % (MaxInt - MinInt + 1)) + MinInt

Whole(n) == [float |-> FALSE, p |-> Wrapped(n), q |-> 1]
Float(p, q) == LET s == IF q < 0 THEN -1 ELSE 1
                   g == Gcd[Abs(p), Abs(q)]
               IN [float |-> TRUE, p |-> (s * p) \div g, q |-> (s * q) \div g]

(* get_integer and set_format.                                              *)
GetInteger(n) == IF n.float THEN Truncated(n.p, n.q) ELSE n.p
SetFloat(n)   == [n EXCEPT !.float = TRUE]

(* Mutant: a float is cut off to be added to an integer.                    *)
ConvertedNever(n, m) == n

(* An integer becomes a double when it meets one; a double stays one.       *)
Converted(n, m) == IF m.float /\ ~n.float THEN SetFloat(n) ELSE n

Add(n, m) ==
  LET c == Converted(n, m)
  IN IF c.float THEN Float(c.p * m.q + m.p * c.q, c.q * m.q) ELSE Whole(c.p + GetInteger(m))

Subtract(n, m) ==
  LET c == Converted(n, m)
  IN IF c.float THEN Float(c.p * m.q - m.p * c.q, c.q * m.q) ELSE Whole(c.p - GetInteger(m))

Multiply(n, m) ==
  LET c == Converted(n, m)
  IN IF c.float THEN Float(c.p * m.p, c.q * m.q) ELSE Whole(c.p * GetInteger(m))

Divide(n, m) ==
  LET c == Converted(n, m)
  IN IF c.float THEN Float(c.p * m.q, c.q * m.p) ELSE Whole(Truncated(c.p, GetInteger(m)))

(* Divide throws for a divisor of zero, ...                                 *)
DivideThrows(m) == m.p = 0

(* ... and for the one quotient a long int cannot hold the processor traps. *)
DivideTraps(n, m) == ~n.float /\ ~m.float /\ n.p = MinInt /\ m.p = -1

-----------------------------------------------------------------------------

(* The integer nearest to p/q, the even one of two.                         *)
Nearest(p, q) ==
  LET low == p \div q
      r   == 2 * (p % q)
  IN IF r < q \/ (r = q /\ low % 2 = 0) THEN low ELSE low + 1

(* A number as a float: Precision bits of it, as a multiple of 1/16.        *)
Single(n) ==
  LET a == Abs(n.p) * 16
      e == CHOOSE i \in 0..(Width + 8) :
             /\ a < n.q * 2 ^ (Precision + i)
             /\ i > 0 => a >= n.q * 2 ^ (Precision + i - 1)
  IN Sign(n.p) * Nearest(a, n.q * 2 ^ e) * 2 ^ e

(* Mutant: numbers that are as large count as larger.                       *)
CompareTiesUp(n, m) == IF Single(n) >= Single(m) THEN 1 ELSE -1

Compare(n, m) == Sign(Single(n) - Single(m))

(* What compare() stands for.                                               *)
ExactCompare(n, m) == Sign(n.p * m.q - m.p * n.q)

=============================================================================
