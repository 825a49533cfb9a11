-------------------------- MODULE CodeFrameProofs ---------------------------
(***************************************************************************)
(* Proofs about CodeFrame, for any frames and any programs: the events on  *)
(* a frame's stack refer to environments and argument arrays it has made,  *)
(* two return points never lie on one another, one frame has the thread    *)
(* however often it is queued, and no frame is forgotten.                  *)
(***************************************************************************)
EXTENDS CodeFrame, SequenceTheorems, WellFoundedInduction, TLAPS

-----------------------------------------------------------------------------
(* The inductive invariant                                                  *)

(* A sequence, of whatever it holds.                                        *)
Tuple(s) == s \in Seq(ToSet(s))

(* An event whose environment is one of envs, its array one of the first n. *)
Good(e, envs, n) ==
  /\ e = [kind |-> e.kind, env |-> e.env, args |-> e.args, expr |-> e.expr, next |-> e.next]
  /\ e.kind \in Kind /\ e.env \in envs /\ e.args \in 0..n

(* A stack of such events, where no return point lies on another.           *)
Sane(s, envs, n) ==
  /\ Tuple(s)
  /\ \A i \in DOMAIN s : Good(s[i], envs, n)
  /\ \A i \in DOMAIN s : i > 1 /\ s[i].kind = "rp" => s[i - 1].kind # "rp"

(* What may have become of a frame.                                         *)
Endings == {"not yet", "done", "asleep", "waits", "thrown", "limit", "fatal"}

(* Where the thread is, and what the frames have made.                      *)
Typed ==
  /\ running \in Frame \cup {NULL} /\ current \in Frame \cup {NULL}
  /\ entries \in [Frame -> Nat] /\ waits \subseteq Frame /\ astray \subseteq Frame
  /\ cycles \in 0..(Limit + 1)
  /\ ended \in [Frame -> Endings]
  /\ stack = [f \in Frame |-> stack[f]]
  /\ scope = [f \in Frame |-> scope[f]] /\ array = [f \in Frame |-> array[f]]
  /\ \A f \in Frame : Tuple(scope[f]) /\ Tuple(array[f])

(* Every stack refers to its own frame's environments and arrays.           *)
AllSane == \A f \in Frame : Sane(stack[f], DOMAIN scope[f], Len(array[f]))

(* The inductive invariant.                                                 *)
IInv == Typed /\ AllSane /\ OneAtATime /\ NoneForgotten

-----------------------------------------------------------------------------
(* Stacks                                                                   *)

(* The places of a sequence.                                                *)
LEMMA TupleFacts ==
  ASSUME NEW s, Tuple(s)
  PROVE  Len(s) \in Nat /\ DOMAIN s = 1..Len(s)
  BY LenProperties DEF Tuple

(* What is in a sequence of a set is a sequence of its own elements.        *)
LEMMA IsTuple ==
  ASSUME NEW S, NEW s \in Seq(S)
  PROVE  Tuple(s)
<1>1. Len(s) \in Nat /\ DOMAIN s = 1..Len(s) /\ s \in [1..Len(s) -> S]
  BY LenProperties
<1>2. s \in [1..Len(s) -> ToSet(s)]
  BY <1>1 DEF ToSet
<1> QED
  BY <1>1, <1>2, SeqDef DEF Tuple

(* A sequence grows at its end.                                             *)
LEMMA Grows ==
  ASSUME NEW s, Tuple(s), NEW e
  PROVE  /\ Tuple(Append(s, e)) /\ s \o <<e>> = Append(s, e)
         /\ Len(Append(s, e)) = Len(s) + 1
         /\ DOMAIN Append(s, e) = 1..(Len(s) + 1)
         /\ Append(s, e)[Len(s) + 1] = e
         /\ \A i \in 1..Len(s) : Append(s, e)[i] = s[i]
<1> DEFINE S == ToSet(s) \cup {e}
<1>1. s \in Seq(S)
  BY SeqMonotonic DEF Tuple
<1> HIDE DEF S
<1>2. e \in S
  BY DEF S
<1>3. Append(s, e) \in Seq(S) /\ s \o <<e>> = Append(s, e)
  BY <1>1, <1>2
<1>4. /\ Len(Append(s, e)) = Len(s) + 1 /\ DOMAIN Append(s, e) = 1..(Len(s) + 1)
      /\ Append(s, e)[Len(s) + 1] = e
      /\ \A i \in 1..Len(s) : Append(s, e)[i] = s[i]
  BY <1>1, <1>2
<1> QED
  BY <1>3, <1>4, IsTuple

(* An event that goes on with the rest of its expressions, or of its clauses*)
Onward(e, x, y) == [e EXCEPT !.expr = x, !.next = y]

(* It is as good as the event it comes from.                                *)
LEMMA RestGood ==
  ASSUME NEW e, NEW envs, NEW n, Good(e, envs, n), NEW x, NEW y
  PROVE  /\ Good([e EXCEPT !.expr = x], envs, n) /\ [e EXCEPT !.expr = x].kind = e.kind
         /\ Good(Onward(e, x, y), envs, n) /\ Onward(e, x, y).kind = e.kind
<1>1. PICK k, v, a, z, w : e = [kind |-> k, env |-> v, args |-> a, expr |-> z, next |-> w]
  BY DEF Good
<1>2. k \in Kind /\ v \in envs /\ a \in 0..n
  BY <1>1 DEF Good
<1>3. [e EXCEPT !.expr = x] = [kind |-> k, env |-> v, args |-> a, expr |-> x, next |-> w]
  BY <1>1
<1>4. [e EXCEPT !.expr = x, !.next = y]
        = [kind |-> k, env |-> v, args |-> a, expr |-> x, next |-> y]
  <2>1. [e EXCEPT !.expr = x, !.next = y] = [[e EXCEPT !.expr = x] EXCEPT !.next = y]
    BY <1>1
  <2> DEFINE r == [e EXCEPT !.expr = x]
  <2>2. r = [kind |-> k, env |-> v, args |-> a, expr |-> x, next |-> w]
    BY <1>3
  <2> HIDE DEF r
  <2>3. [r EXCEPT !.next = y] = [kind |-> k, env |-> v, args |-> a, expr |-> x, next |-> y]
    BY <2>2
  <2> QED
    BY <2>1, <2>3 DEF r
<1>5. Onward(e, x, y) = [kind |-> k, env |-> v, args |-> a, expr |-> x, next |-> y]
  BY <1>4 DEF Onward
<1> QED
  BY <1>1, <1>2, <1>3, <1>5 DEF Good

(* Pushing an event other than a return point.                              *)
LEMMA PushSane ==
  ASSUME NEW s, NEW envs, NEW n, Sane(s, envs, n),
         NEW e, Good(e, envs, n), e.kind # "rp"
  PROVE  Sane(Append(s, e), envs, n) /\ Sane(s \o <<e>>, envs, n)
<1>1. Tuple(s) /\ Len(s) \in Nat /\ DOMAIN s = 1..Len(s)
  BY TupleFacts DEF Sane
<1> DEFINE t == Append(s, e)
<1>2. /\ Tuple(t) /\ s \o <<e>> = t /\ DOMAIN t = 1..(Len(s) + 1)
      /\ t[Len(s) + 1] = e /\ \A i \in 1..Len(s) : t[i] = s[i]
  BY <1>1, Grows
<1> HIDE DEF t
<1>3. \A i \in DOMAIN t : Good(t[i], envs, n)
  BY <1>1, <1>2 DEF Sane
<1>4. ASSUME NEW i \in DOMAIN t, i > 1, t[i].kind = "rp" PROVE t[i - 1].kind # "rp"
  <2>1. i \in 1..Len(s) /\ i - 1 \in 1..Len(s)
    BY <1>1, <1>2, <1>4
  <2> QED
    BY <1>1, <1>2, <1>4, <2>1 DEF Sane
<1>5. Sane(t, envs, n)
  BY <1>2, <1>3, <1>4 DEF Sane
<1> QED
  BY <1>2, <1>5 DEF t

(* Pushing two.                                                             *)
LEMMA PushTwoSane ==
  ASSUME NEW s, NEW envs, NEW n, Sane(s, envs, n),
         NEW e, Good(e, envs, n), e.kind # "rp",
         NEW g, Good(g, envs, n), g.kind # "rp"
  PROVE  Sane(s \o <<e, g>>, envs, n)
<1>1. s \o <<e, g>> = (s \o <<e>>) \o <<g>>
  <2> DEFINE S == ToSet(s) \cup {e, g}
  <2>1. s \in Seq(S)
    BY SeqMonotonic DEF Sane, Tuple
  <2>2. e \in S /\ g \in S
    OBVIOUS
  <2> HIDE DEF S
  <2>3. <<e>> \in Seq(S) /\ <<g>> \in Seq(S)
    BY <2>2
  <2>4. <<e>> \o <<g>> = <<e, g>>
    <3>1. /\ <<e, g>> \in Seq(S) /\ Len(<<e, g>>) = 2
          /\ <<e, g>>[1] = e /\ <<e, g>>[2] = g
      BY <2>2
    <3>2. /\ Len(<<e>>) = 1 /\ <<e>>[1] = e /\ Len(<<g>>) = 1 /\ <<g>>[1] = g
      OBVIOUS
    <3>3. /\ <<e>> \o <<g>> \in Seq(S) /\ Len(<<e>> \o <<g>>) = 2
          /\ (<<e>> \o <<g>>)[1] = e /\ (<<e>> \o <<g>>)[2] = g
      BY <2>3, <3>2, ConcatProperties
    <3> DEFINE p == <<e, g>>
               q == <<e>> \o <<g>>
    <3>4. /\ p \in Seq(S) /\ q \in Seq(S) /\ Len(p) = 2 /\ Len(q) = 2
          /\ p[1] = q[1] /\ p[2] = q[2]
      BY <3>1, <3>3
    <3> HIDE DEF p, q
    <3>5. \A i \in 1..Len(p) : p[i] = q[i]
      BY <3>4
    <3>6. p = q
      BY <3>4, <3>5, SeqEqual
    <3> QED
      BY <3>6 DEF p, q
  <2> QED
    BY <2>1, <2>3, <2>4, ConcatAssociative
<1>2. Sane(s \o <<e>>, envs, n)
  BY PushSane
<1> QED
  BY <1>1, <1>2, PushSane

(* Popping events down to some place.                                       *)
LEMMA CutSane ==
  ASSUME NEW s, NEW envs, NEW n, Sane(s, envs, n), NEW k \in 0..Len(s)
  PROVE  Sane(SubSeq(s, 1, k), envs, n)
<1>1. Tuple(s) /\ Len(s) \in Nat /\ DOMAIN s = 1..Len(s)
  BY TupleFacts DEF Sane
<1> DEFINE t == SubSeq(s, 1, k)
<1>2. t \in Seq(ToSet(s)) /\ Len(t) = k /\ \A i \in 1..k : t[i] = s[i]
  BY <1>1 DEF Tuple
<1> HIDE DEF t
<1>3. Tuple(t) /\ DOMAIN t = 1..k
  BY <1>2, IsTuple, LenProperties
<1>4. \A i \in DOMAIN t : Good(t[i], envs, n)
  BY <1>1, <1>2, <1>3 DEF Sane
<1>5. ASSUME NEW i \in DOMAIN t, i > 1, t[i].kind = "rp" PROVE t[i - 1].kind # "rp"
  <2>1. i \in 1..Len(s) /\ i - 1 \in 1..k
    BY <1>1, <1>3, <1>5
  <2> QED
    BY <1>1, <1>2, <1>3, <1>5, <2>1 DEF Sane
<1> QED
  BY <1>3, <1>4, <1>5 DEF Sane, t

(* The stack of a frame that has nothing left to do.                        *)
LEMMA EmptySane ==
  ASSUME NEW envs, NEW n
  PROVE  Sane(<<>>, envs, n)
<1>1. <<>> \in Seq({}) /\ DOMAIN <<>> = {}
  BY EmptySeq
<1> QED
  BY <1>1, IsTuple DEF Sane

(* A stack stays as good when there are more environments and arrays.       *)
LEMMA MoreSane ==
  ASSUME NEW s, NEW envs, NEW n \in Nat, Sane(s, envs, n),
         NEW more, envs \subseteq more, NEW m \in Nat, n <= m
  PROVE  Sane(s, more, m)
  BY DEF Sane, Good

-----------------------------------------------------------------------------
(* What do_run() does to the stack                                          *)

(* A set of numbers has a least one.                                        *)
LEMMA LeastExists ==
  ASSUME NEW S, S \subseteq Nat, S # {}
  PROVE  \E n \in S : \A k \in S : n <= k
<1> DEFINE R == OpToRel(<, Nat)
<1>1. \A x, y \in Nat : x < y => <<x, y>> \in R
  BY DEF OpToRel
<1>2. IsWellFoundedOn(R, Nat)
  BY NatLessThanWellFounded
<1> HIDE DEF R
<1>3. PICK n \in S : \A k \in S : ~(<<k, n>> \in R)
  BY <1>2, WFMin
<1>4. ASSUME NEW k \in S PROVE n <= k
  <2>1. k \in Nat /\ n \in Nat /\ ~(k < n)
    BY <1>1, <1>3
  <2> QED
    BY <2>1
<1> QED
  BY <1>4

(* The topmost event of a kind exists when there is one.                    *)
LEMMA TopmostExists ==
  ASSUME NEW s, Tuple(s), NEW kind, \E i \in DOMAIN s : s[i].kind = kind
  PROVE  (CHOOSE j \in DOMAIN s : Topmost(s, kind, j)) \in DOMAIN s
<1>1. Len(s) \in Nat /\ DOMAIN s = 1..Len(s)
  BY TupleFacts
<1> DEFINE S == {n \in 0..Len(s) : Len(s) - n \in DOMAIN s /\ s[Len(s) - n].kind = kind}
<1>2. S # {} /\ S \subseteq Nat
  <2>1. PICK i \in DOMAIN s : s[i].kind = kind
    OBVIOUS
  <2>2. Len(s) - i \in 0..Len(s) /\ Len(s) - (Len(s) - i) = i
    BY <1>1
  <2>3. Len(s) - i \in S
    BY <2>1, <2>2
  <2> QED
    BY <2>3
<1>3. PICK n \in S : \A k \in S : n <= k
  BY <1>2, LeastExists
<1> DEFINE i == Len(s) - n
<1>4. i \in DOMAIN s /\ s[i].kind = kind /\ n \in 0..Len(s)
  BY <1>3
<1>5. ASSUME NEW j \in (i + 1)..Len(s) PROVE s[j].kind # kind
  <2>1. /\ j \in DOMAIN s /\ Len(s) - j \in 0..Len(s) /\ Len(s) - (Len(s) - j) = j
        /\ ~(n <= Len(s) - j)
    BY <1>1, <1>4
  <2>2. Len(s) - j \notin S
    BY <1>3, <2>1
  <2> HIDE DEF i
  <2> QED
    BY <2>1, <2>2
<1>6. Topmost(s, kind, i)
  BY <1>4, <1>5 DEF Topmost
<1> HIDE DEF i
<1> QED
  BY <1>4, <1>6

(* The environments and the arrays of the frame that runs.                  *)
Envs == DOMAIN scope[running]
Arrays == Len(array[running])

(* They are sequences, and so are those of the other frames.                *)
LEMMA MemoryFacts ==
  ASSUME IInv, NEW f \in Frame
  PROVE  /\ Len(scope[f]) \in Nat /\ DOMAIN scope[f] = 1..Len(scope[f])
         /\ Len(array[f]) \in Nat /\ DOMAIN array[f] = 1..Len(array[f])
         /\ Tuple(scope[f]) /\ Tuple(array[f])
  BY TupleFacts DEF IInv, Typed

(* The event on top is a good one, and so is what lies below.               *)
LEMMA AtFacts ==
  ASSUME IInv, NEW kind, At(kind)
  PROVE  /\ running \in Frame /\ cycles <= Limit /\ Top.kind = kind
         /\ Good(Top, Envs, Arrays) /\ Sane(Rest, Envs, Arrays)
<1>1. running \in Frame /\ stack[running] # <<>> /\ cycles <= Limit /\ Top.kind = kind
  BY DEF At, IInv, Typed
<1> DEFINE s == stack[running]
<1>2. Sane(s, Envs, Arrays)
  BY <1>1 DEF IInv, AllSane, Envs, Arrays
<1>3. s # <<>> /\ Top = s[Len(s)] /\ Rest = SubSeq(s, 1, Len(s) - 1)
  BY <1>1 DEF Top, Rest, Last, Front
<1> HIDE DEF s
<1>4. Len(s) \in Nat /\ DOMAIN s = 1..Len(s) /\ Len(s) # 0
  BY <1>2, <1>3, TupleFacts, EmptySeq DEF Sane, Tuple
<1>5. Len(s) \in DOMAIN s /\ Len(s) - 1 \in 0..Len(s)
  BY <1>4
<1>6. Good(Top, Envs, Arrays)
  BY <1>2, <1>3, <1>5 DEF Sane
<1>7. Sane(Rest, Envs, Arrays)
  BY <1>2, <1>3, <1>5, CutSane
<1> QED
  BY <1>1, <1>6, <1>7

(* An event made in the environment of the one that is done.                *)
LEMMA EvGood ==
  ASSUME NEW envs, NEW n \in Nat, Good(Top, envs, n), NEW kind \in Kind, NEW expr
  PROVE  Good(Ev(kind, expr), envs, n) /\ Ev(kind, expr).kind = kind
  BY DEF Good, Ev, Event

(* mark_return_point never puts one return point on another.                *)
LEMMA MarkSane ==
  ASSUME NEW s, NEW envs, NEW n \in Nat, Sane(s, envs, n), Good(Top, envs, n)
  PROVE  Sane(MarkReturnPoint(s), envs, n)
<1>1. Tuple(s) /\ Len(s) \in Nat /\ DOMAIN s = 1..Len(s)
  BY TupleFacts DEF Sane
<1>2. CASE s # <<>> /\ Last(s).kind = "rp"
  BY <1>2 DEF MarkReturnPoint
<1>3. CASE ~(s # <<>> /\ Last(s).kind = "rp")
  <2> DEFINE e == Ev("rp", <<>>)
             t == Append(s, e)
  <2>1. MarkReturnPoint(s) = t
    BY <1>3 DEF MarkReturnPoint
  <2>2. Good(e, envs, n)
    BY EvGood DEF Kind
  <2> HIDE DEF e
  <2>3. /\ Tuple(t) /\ DOMAIN t = 1..(Len(s) + 1)
        /\ t[Len(s) + 1] = e /\ \A i \in 1..Len(s) : t[i] = s[i]
    BY <1>1, Grows
  <2> HIDE DEF t
  <2>4. \A i \in DOMAIN t : Good(t[i], envs, n)
    BY <1>1, <2>2, <2>3 DEF Sane
  <2>5. ASSUME NEW i \in DOMAIN t, i > 1, t[i].kind = "rp" PROVE t[i - 1].kind # "rp"
    <3>1. i - 1 \in 1..Len(s) /\ t[i - 1] = s[i - 1]
      BY <1>1, <2>3, <2>5
    <3>2. CASE i \in 1..Len(s)
      BY <1>1, <2>3, <2>5, <3>1, <3>2 DEF Sane
    <3>3. CASE i = Len(s) + 1
      <4>1. s # <<>> /\ t[i - 1] = Last(s)
        BY <1>1, <3>1, <3>3, EmptySeq DEF Last
      <4> QED
        BY <1>3, <4>1
    <3> QED
      BY <1>1, <2>3, <3>2, <3>3
  <2> QED
    BY <2>1, <2>3, <2>4, <2>5 DEF Sane
<1> QED
  BY <1>2, <1>3

(* Returning cuts the stack.                                                *)
LEMMA ReturnSane ==
  ASSUME NEW s, NEW envs, NEW n, Sane(s, envs, n)
  PROVE  Sane(GotoReturnPoint(s), envs, n)
<1>1. Tuple(s) /\ Len(s) \in Nat /\ DOMAIN s = 1..Len(s)
  BY TupleFacts DEF Sane
<1>2. CASE \E i \in DOMAIN s : s[i].kind = "rp"
  <2> DEFINE i == CHOOSE j \in DOMAIN s : Topmost(s, "rp", j)
  <2>1. i \in DOMAIN s
    BY <1>1, <1>2, TopmostExists
  <2>2. GotoReturnPoint(s) = SubSeq(s, 1, i - 1)
    BY <1>2 DEF GotoReturnPoint
  <2> HIDE DEF i
  <2>3. i - 1 \in 0..Len(s)
    BY <1>1, <2>1
  <2> QED
    BY <2>2, <2>3, CutSane
<1>3. CASE ~\E i \in DOMAIN s : s[i].kind = "rp"
  BY <1>3, EmptySane DEF GotoReturnPoint
<1> QED
  BY <1>2, <1>3

(* So does an exception, and the handler's block takes the handler's place. *)
LEMMA RewindSane ==
  ASSUME NEW s, NEW envs, NEW n, Sane(s, envs, n), \E i \in DOMAIN s : s[i].kind = "catch"
  PROVE  Sane(Rewind(s), envs, n)
<1>1. Tuple(s) /\ Len(s) \in Nat /\ DOMAIN s = 1..Len(s)
  BY TupleFacts DEF Sane
<1> DEFINE i == CHOOSE j \in DOMAIN s : Topmost(s, "catch", j)
           e == [s[i] EXCEPT !.kind = "block"]
           t == SubSeq(s, 1, i - 1)
<1>2. i \in DOMAIN s
  BY <1>1, TopmostExists
<1>3. Rewind(s) = t \o (IF s[i].expr = <<>> THEN <<>> ELSE <<e>>)
  BY DEF Rewind
<1> HIDE DEF i
<1>4. i - 1 \in 0..Len(s)
  BY <1>1, <1>2
<1>5. Sane(t, envs, n)
  BY <1>4, CutSane
<1>6. Good(e, envs, n) /\ e.kind = "block"
  <2>1. Good(s[i], envs, n)
    BY <1>2 DEF Sane
  <2> QED
    BY <2>1 DEF Good, Kind
<1> HIDE DEF t, e
<1>7. CASE s[i].expr = <<>>
  <2>1. t \o <<>> = t
    BY <1>5, ConcatEmptySeq DEF Sane, Tuple
  <2> QED
    BY <1>3, <1>5, <1>7, <2>1
<1>8. CASE s[i].expr # <<>>
  BY <1>3, <1>5, <1>6, <1>8, PushSane
<1> QED
  BY <1>7, <1>8

-----------------------------------------------------------------------------
(* How an event ends                                                        *)

(* Environments and arrays are made, and none is unmade.                    *)
MemoryGrows ==
  /\ scope' = [f \in Frame |-> scope'[f]] /\ array' = [f \in Frame |-> array'[f]]
  /\ \A f \in Frame :
       /\ Tuple(scope'[f]) /\ Tuple(array'[f])
       /\ DOMAIN scope[f] \subseteq DOMAIN scope'[f] /\ Len(array[f]) <= Len(array'[f])

(* Most events make no environment and no array.                            *)
LEMMA MemoryStays ==
  ASSUME IInv, UNCHANGED <<scope, array>>
  PROVE  MemoryGrows
<1>1. \A f \in Frame : Len(array[f]) <= Len(array[f])
  BY MemoryFacts
<1> QED
  BY <1>1 DEF MemoryGrows, IInv, Typed

(* The frame that runs gets another stack, the others keep theirs.          *)
LEMMA StackBecomes ==
  ASSUME IInv, running \in Frame, MemoryGrows,
         NEW s, Sane(s, DOMAIN scope'[running], Len(array'[running])),
         stack' = [stack EXCEPT ![running] = s]
  PROVE  AllSane' /\ stack' = [f \in Frame |-> stack'[f]]
<1>1. stack = [f \in Frame |-> stack[f]]
  BY DEF IInv, Typed
<1>2. stack' = [f \in Frame |-> stack'[f]] /\ stack'[running] = s
      /\ \A f \in Frame : f # running => stack'[f] = stack[f]
  BY <1>1
<1>3. ASSUME NEW f \in Frame PROVE Sane(stack'[f], DOMAIN scope'[f], Len(array'[f]))
  <2>1. CASE f = running
    BY <1>2, <2>1
  <2>2. CASE f # running
    <3>1. Sane(stack[f], DOMAIN scope[f], Len(array[f])) /\ Len(array[f]) \in Nat
      BY MemoryFacts DEF IInv, AllSane
    <3>2. Len(array'[f]) \in Nat
      BY TupleFacts DEF MemoryGrows
    <3> QED
      BY <1>2, <2>2, <3>1, <3>2, MoreSane DEF MemoryGrows
  <2> QED
    BY <2>1, <2>2
<1> QED
  BY <1>2, <1>3 DEF AllSane

(* The frame goes on.                                                       *)
LEMMA Continues ==
  ASSUME IInv, running \in Frame, cycles <= Limit, MemoryGrows,
         NEW s, Sane(s, DOMAIN scope'[running], Len(array'[running])), Continue(s)
  PROVE  IInv'
<1>1. /\ AllSane' /\ stack' = [f \in Frame |-> stack'[f]]
      /\ cycles' = cycles + 1 /\ UNCHANGED control
  BY StackBecomes DEF Continue
<1>2. cycles' \in 0..(Limit + 1)
  BY <1>1, FrameAssumption DEF IInv, Typed
<1>3. Typed'
  BY <1>1, <1>2 DEF IInv, Typed, control, MemoryGrows
<1> QED
  BY <1>1, <1>3 DEF IInv, OneAtATime, NoneForgotten, Halted, control

(* The queue has one entry of the frame more, ...                           *)
LEMMA ScheduledFacts ==
  ASSUME IInv, NEW f \in Frame, Scheduled(f)
  PROVE  /\ entries' \in [Frame -> Nat] /\ entries'[f] > 0
         /\ \A g \in Frame : g # f => entries'[g] = entries[g]
         /\ \A g \in Frame : entries'[g] >= entries[g]
  BY DEF IInv, Typed, Scheduled

(* ... or one less.                                                         *)
LEMMA ConsumedFacts ==
  ASSUME IInv, NEW f \in Frame, entries[f] > 0, Consumed(f)
  PROVE  /\ entries' \in [Frame -> Nat]
         /\ \A g \in Frame : g # f => entries'[g] = entries[g]
  BY DEF IInv, Typed, Consumed

(* The frame goes on and has made nothing.                                  *)
LEMMA ContinuesHere ==
  ASSUME IInv, running \in Frame, cycles <= Limit, UNCHANGED <<scope, array>>,
         NEW s, Sane(s, Envs, Arrays), Continue(s)
  PROVE  IInv'
<1>1. Sane(s, DOMAIN scope'[running], Len(array'[running]))
  BY DEF Envs, Arrays
<1> QED
  BY <1>1, MemoryStays, Continues

(* What was more than nothing and has not become less.                      *)
LEMMA StillPositive ==
  ASSUME NEW m \in Nat, NEW n \in Nat, m > 0, n >= m
  PROVE  n > 0
  OBVIOUS

(* The frame gives the thread back, to be run again if it is not through.   *)
LEMMA Leaves ==
  ASSUME IInv, running \in Frame, UNCHANGED <<scope, array>>,
         NEW s, Sane(s, Envs, Arrays), stack' = [stack EXCEPT ![running] = s],
         NEW how \in Endings, Leave(how),
         entries' \in [Frame -> Nat], waits' \subseteq Frame, waits \subseteq waits',
         \A f \in Frame : entries'[f] >= entries[f],
         how \in {"not yet", "asleep", "waits"} => entries'[running] > 0 \/ running \in waits'
  PROVE  IInv'
<1>1. AllSane' /\ stack' = [f \in Frame |-> stack'[f]]
  BY MemoryStays, StackBecomes DEF Envs, Arrays
<1>2. /\ running' = NULL /\ current' = NULL /\ cycles' = cycles
      /\ ended' \in [Frame -> Endings] /\ astray' = astray /\ prog' = prog
      /\ ended'[running] = how /\ \A f \in Frame : f # running => ended'[f] = ended[f]
  BY DEF Leave, IInv, Typed
<1>3. NoneForgotten'
  <2> SUFFICES ASSUME NEW f \in Frame, prog'[f] # <<>>,
                      ended'[f] \in {"not yet", "asleep", "waits"}
               PROVE  entries'[f] > 0 \/ f \in waits'
    BY <1>2 DEF NoneForgotten
  <2>1. CASE f = running
    BY <1>2, <2>1
  <2>2. CASE f # running
    <3>1. ~Halted
      BY FrameAssumption DEF Halted
    <3>2. entries[f] > 0 \/ f \in waits
      BY <1>2, <2>2, <3>1 DEF IInv, NoneForgotten
    <3>3. entries[f] \in Nat /\ entries'[f] \in Nat /\ entries'[f] >= entries[f]
      BY DEF IInv, Typed
    <3>4. entries[f] > 0 => entries'[f] > 0
      BY <3>3, StillPositive, Zenon
    <3>5. f \in waits => f \in waits'
      OBVIOUS
    <3> QED
      BY <3>2, <3>4, <3>5
  <2> QED
    BY <2>1, <2>2
<1> QED
  BY <1>1, <1>2, <1>3, FrameAssumption DEF IInv, Typed, OneAtATime

(* An exception reaches a handler or ends the run.                          *)
LEMMA Throws ==
  ASSUME IInv, running \in Frame, cycles <= Limit, NEW s, Sane(s, Envs, Arrays), Throw(s)
  PROVE  IInv'
<1>1. UNCHANGED <<scope, array>>
  BY DEF Throw, memory
<1>2. CASE \E i \in DOMAIN s : s[i].kind = "catch"
  <2>1. Continue(Rewind(s)) /\ Sane(Rewind(s), Envs, Arrays)
    BY <1>2, RewindSane DEF Throw
  <2> QED
    BY <1>1, <2>1, ContinuesHere
<1>3. CASE ~\E i \in DOMAIN s : s[i].kind = "catch"
  <2>1. /\ stack' = [stack EXCEPT ![running] = s] /\ Leave("thrown")
        /\ entries' = entries /\ waits' = waits /\ "thrown" \in Endings
    BY <1>3 DEF Throw, Endings
  <2>2. /\ entries \in [Frame -> Nat] /\ waits \subseteq Frame
        /\ \A f \in Frame : entries[f] \in Nat /\ entries[f] >= entries[f]
    BY DEF IInv, Typed
  <2> QED
    BY <1>1, <2>1, <2>2, Leaves
<1> QED
  BY <1>2, <1>3

-----------------------------------------------------------------------------
(* The steps                                                                *)

(* A variable is stored in an environment that is there.                    *)
LEMMA StoresContinue ==
  ASSUME IInv, running \in Frame, cycles <= Limit, Sane(Rest, Envs, Arrays),
         NEW env, NEW value, Store(env, value), array' = array, Continue(Rest)
  PROVE  IInv'
<1>1. CASE value = Null
  BY <1>1, ContinuesHere DEF Store
<1>2. CASE value # Null
  <2> DEFINE here == [scope[running] EXCEPT ![env].x = value]
  <2>1. scope' = [scope EXCEPT ![running] = here]
    BY <1>2 DEF Store
  <2>2. Tuple(scope[running]) /\ DOMAIN here = DOMAIN scope[running] /\ Tuple(here)
    <3>1. /\ Tuple(scope[running]) /\ Len(scope[running]) \in Nat
          /\ DOMAIN scope[running] = 1..Len(scope[running])
      BY MemoryFacts
    <3>2. DOMAIN here = 1..Len(scope[running]) /\ here = [i \in DOMAIN here |-> here[i]]
      BY <3>1
    <3> HIDE DEF here
    <3>3. here \in [1..Len(scope[running]) -> ToSet(here)]
      BY <3>2 DEF ToSet
    <3> QED
      BY <3>1, <3>2, <3>3, SeqDef DEF Tuple
  <2> HIDE DEF here
  <2>3. scope = [f \in Frame |-> scope[f]] /\ array = [f \in Frame |-> array[f]]
    BY DEF IInv, Typed
  <2>4. /\ scope' = [f \in Frame |-> scope'[f]] /\ scope'[running] = here
        /\ \A f \in Frame : f # running => scope'[f] = scope[f]
    BY <2>1, <2>3
  <2>5. MemoryGrows
    <3>1. \A f \in Frame : Tuple(scope[f]) /\ Tuple(array[f]) /\ Len(array[f]) <= Len(array[f])
      BY MemoryFacts
    <3> QED
      BY <2>2, <2>3, <2>4, <3>1 DEF MemoryGrows
  <2>6. Sane(Rest, DOMAIN scope'[running], Len(array'[running]))
    BY <2>2, <2>4 DEF Envs, Arrays
  <2> QED
    BY <2>5, <2>6, Continues
<1> QED
  BY <1>1, <1>2

(* A call makes an array for its function and its arguments.                *)
LEMMA CallIInv ==
  ASSUME IInv, At("expr"), EvalCall
  PROVE  IInv'
<1>1. /\ running \in Frame /\ cycles <= Limit
      /\ Good(Top, Envs, Arrays) /\ Sane(Rest, Envs, Arrays) /\ Arrays \in Nat
  <2>1. running \in Frame
    BY AtFacts
  <2> QED
    BY <2>1, AtFacts, MemoryFacts DEF Arrays
<1>2. CASE Throw(Rest)
  BY <1>1, <1>2, Throws
<1>3. CASE ~Throw(Rest)
  <2> DEFINE n == Len(array[running]) + 1
  <2>1. PICK first, args :
          /\ array' = [array EXCEPT ![running] = Append(@, first)]
          /\ Continue(Rest \o <<Event("call", Top.env, n, <<>>), Event("args", Top.env, n, args)>>)
    BY <1>3 DEF EvalCall
  <2>2. scope' = scope
    BY <1>3 DEF EvalCall
  <2>3. array = [f \in Frame |-> array[f]]
    BY DEF IInv, Typed
  <2>4. /\ array' = [f \in Frame |-> array'[f]] /\ array'[running] = Append(array[running], first)
        /\ \A f \in Frame : f # running => array'[f] = array[f]
    BY <1>1, <2>1, <2>3
  <2>5. /\ Tuple(array'[running]) /\ Len(array'[running]) = n
        /\ n \in Nat /\ Arrays <= n /\ n \in 0..n
    BY <1>1, <2>4, MemoryFacts, Grows DEF Arrays
  <2>6. MemoryGrows
    <3>1. \A f \in Frame : /\ Tuple(scope[f]) /\ Tuple(array[f])
                           /\ Len(array[f]) <= Len(array[f])
      BY MemoryFacts
    <3> QED
      BY <2>2, <2>4, <2>5, <3>1 DEF MemoryGrows, IInv, Typed, Arrays
  <2> HIDE DEF n
  <2> DEFINE call == Event("call", Top.env, n, <<>>)
             rest == Event("args", Top.env, n, args)
  <2>7. /\ Good(call, Envs, n) /\ call.kind # "rp"
        /\ Good(rest, Envs, n) /\ rest.kind # "rp"
    BY <1>1, <2>5 DEF Good, Event, Kind
  <2>8. Sane(Rest, Envs, n)
    BY <1>1, <2>5, MoreSane
  <2> HIDE DEF call, rest
  <2>9. Sane(Rest \o <<call, rest>>, Envs, n)
    BY <2>7, <2>8, PushTwoSane
  <2>10. Sane(Rest \o <<call, rest>>, DOMAIN scope'[running], Len(array'[running]))
    BY <2>2, <2>5, <2>9 DEF Envs
  <2> QED
    BY <1>1, <2>1, <2>6, <2>10, Continues DEF call, rest
<1> QED
  BY <1>2, <1>3

(* Evaluating an expression preserves the invariant, ...                    *)
LEMMA EvalIInv ==
  ASSUME IInv, Eval
  PROVE  IInv'
<1>1. At("expr")
  BY DEF Eval, EvalObject, EvalName, EvalCall, EvalMalformed, EvalDefine, EvalUndefine,
         EvalDefined, EvalSet, EvalIf, EvalCond, EvalAnd, EvalOr, EvalBegin, EvalLoop,
         EvalTry, EvalIgnore, EvalCatch, EvalSynchronize, EvalThen, EvalJunction, AtForm
<1>2. /\ running \in Frame /\ cycles <= Limit
      /\ Good(Top, Envs, Arrays) /\ Sane(Rest, Envs, Arrays)
  BY <1>1, AtFacts
<1>3. Arrays \in Nat
  BY <1>2, MemoryFacts DEF Arrays
<1>4. \A kind \in Kind : \A expr :
        Good(Ev(kind, expr), Envs, Arrays) /\ Ev(kind, expr).kind = kind
  BY <1>2, <1>3, EvGood
<1>5. {"expr", "block", "catch", "define", "set", "if", "cond", "and", "or", "loop"} \subseteq Kind
  BY DEF Kind
<1>6. ASSUME NEW e, Good(e, Envs, Arrays), e.kind # "rp",
             Continue(Rest \o <<e>>) \/ Continue(Append(Rest, e)), UNCHANGED <<scope, array>>
      PROVE  IInv'
  BY <1>2, <1>6, PushSane, ContinuesHere
<1>7. ASSUME NEW e, Good(e, Envs, Arrays), e.kind # "rp",
             NEW g, Good(g, Envs, Arrays), g.kind # "rp",
             Continue(Rest \o <<e, g>>), UNCHANGED <<scope, array>>
      PROVE  IInv'
  BY <1>2, <1>7, PushTwoSane, ContinuesHere
<1>8. ASSUME Continue(Rest), UNCHANGED <<scope, array>> PROVE IInv'
  BY <1>2, <1>8, ContinuesHere
<1>9. ASSUME Throw(Rest) PROVE IInv'
  BY <1>2, <1>9, Throws
<1>10. ASSUME NEW form \in Kind \ {"rp"}, NEW later,
              Continue(Rest \o <<Ev(form, later), Ev("expr", Args)>>), UNCHANGED <<scope, array>>
       PROVE  IInv'
  BY <1>4, <1>5, <1>7, <1>10
<1>11. ASSUME NEW form \in Kind \ {"rp"}, NEW later, EvalThen(form, later) PROVE IInv'
  BY <1>10, <1>11 DEF EvalThen, memory
<1>12. ASSUME NEW form \in Kind \ {"rp"}, NEW unit, EvalJunction(form, unit) PROVE IInv'
  <2>1. UNCHANGED <<scope, array>>
    BY <1>12 DEF EvalJunction, memory
  <2>2. Continue(Rest) \/ Continue(Rest \o <<Ev(form, Tail(Args)), Ev("expr", Args)>>)
    BY <1>12 DEF EvalJunction
  <2> QED
    BY <1>8, <1>10, <2>1, <2>2
<1>13. CASE EvalObject \/ EvalDefined \/ EvalCatch \/ EvalSynchronize
  BY <1>8, <1>13 DEF EvalObject, EvalDefined, EvalCatch, EvalSynchronize, memory
<1>14. CASE EvalName \/ EvalMalformed
  BY <1>8, <1>9, <1>14 DEF EvalName, EvalMalformed, memory
<1>15. CASE EvalDefine \/ EvalSet \/ EvalIf
  BY <1>11, <1>15 DEF EvalDefine, EvalSet, EvalIf, Kind
<1>16. CASE EvalAnd \/ EvalOr
  BY <1>12, <1>16 DEF EvalAnd, EvalOr, Kind
<1>17. CASE EvalBegin
  BY <1>4, <1>5, <1>6, <1>17 DEF EvalBegin, memory
<1>18. CASE EvalTry \/ EvalIgnore
  BY <1>4, <1>5, <1>7, <1>18 DEF EvalTry, EvalIgnore, memory
<1>19. CASE EvalLoop
  <2>1. Sane(MarkReturnPoint(Rest), Envs, Arrays)
    BY <1>2, <1>3, MarkSane
  <2>2. Sane(Append(MarkReturnPoint(Rest), Ev("loop", Args)), Envs, Arrays)
    BY <1>4, <1>5, <2>1, PushSane
  <2> QED
    BY <1>2, <1>19, <2>2, ContinuesHere DEF EvalLoop, memory
<1>20. CASE EvalCond
  <2> DEFINE e == [Ev("cond", <<>>) EXCEPT !.next = Args]
  <2>1. Good(e, Envs, Arrays) /\ e.kind = "cond"
    <3>1. Good(Ev("cond", <<>>), Envs, Arrays) /\ Ev("cond", <<>>).kind = "cond"
      BY <1>4, <1>5
    <3> QED
      BY <3>1 DEF Good
  <2>2. Continue(Rest \o <<e>>) /\ UNCHANGED <<scope, array>>
    BY <1>20 DEF EvalCond, memory
  <2> QED
    BY <1>6, <2>1, <2>2
<1>21. CASE EvalUndefine
  <2>1. Continue(Rest) /\ Store(Top.env, Nil) /\ array' = array
    BY <1>21 DEF EvalUndefine
  <2> QED
    BY <1>2, <2>1, StoresContinue
<1>22. CASE EvalCall
  BY <1>1, <1>22, CallIInv
<1> QED
  BY <1>13, <1>14, <1>15, <1>16, <1>17, <1>18, <1>19, <1>20, <1>21, <1>22 DEF Eval

(* The return value is appended to an array of the frame.                   *)
LEMMA AppendIInv ==
  ASSUME IInv, AppendReturn
  PROVE  IInv'
<1>1. /\ running \in Frame /\ cycles <= Limit
      /\ Good(Top, Envs, Arrays) /\ Sane(Rest, Envs, Arrays)
  BY AtFacts DEF AppendReturn
<1> DEFINE here == [array[running] EXCEPT ![Top.args] = Append(@, ret[running])]
<1>2. array' = [array EXCEPT ![running] = here] /\ scope' = scope /\ Continue(Rest)
  BY DEF AppendReturn
<1>3. Tuple(array[running]) /\ Len(here) = Len(array[running]) /\ Tuple(here)
  <2>1. /\ Tuple(array[running]) /\ Len(array[running]) \in Nat
        /\ DOMAIN array[running] = 1..Len(array[running])
    BY <1>1, MemoryFacts
  <2>2. DOMAIN here = 1..Len(array[running]) /\ here = [i \in DOMAIN here |-> here[i]]
    BY <2>1
  <2> HIDE DEF here
  <2>3. here \in [1..Len(array[running]) -> ToSet(here)]
    BY <2>2 DEF ToSet
  <2>4. here \in Seq(ToSet(here))
    BY <2>1, <2>3, SeqDef
  <2>5. Len(here) = Len(array[running])
    BY <2>1, <2>2, <2>4, LenProperties
  <2> QED
    BY <2>1, <2>4, <2>5 DEF Tuple
<1> HIDE DEF here
<1>4. array = [f \in Frame |-> array[f]]
  BY DEF IInv, Typed
<1>5. /\ array' = [f \in Frame |-> array'[f]] /\ array'[running] = here
      /\ \A f \in Frame : f # running => array'[f] = array[f]
  BY <1>1, <1>2, <1>4
<1>6. MemoryGrows
  <2>1. \A f \in Frame : Tuple(scope[f]) /\ Tuple(array[f]) /\ Len(array[f]) <= Len(array[f])
    BY MemoryFacts
  <2> QED
    BY <1>2, <1>3, <1>5, <2>1 DEF MemoryGrows, IInv, Typed
<1>7. Sane(Rest, DOMAIN scope'[running], Len(array'[running]))
  BY <1>1, <1>2, <1>3, <1>5 DEF Envs, Arrays
<1> QED
  BY <1>1, <1>2, <1>6, <1>7, Continues

(* ... and so does doing any other event, ...                               *)
LEMMA DoIInv ==
  ASSUME IInv, Do
  PROVE  IInv'
<1>1. PICK kind \in Kind : At(kind)
  BY DEF Do, Skip, EvalBlock, EvalArgs, AppendReturn, Define, Set, If, Cond, And, Or, Loop, Kind
<1>2. /\ running \in Frame /\ cycles <= Limit
      /\ Good(Top, Envs, Arrays) /\ Sane(Rest, Envs, Arrays)
  BY <1>1, AtFacts
<1>3. Arrays \in Nat
  BY <1>2, MemoryFacts DEF Arrays
<1>4. \A k \in Kind : \A expr : Good(Ev(k, expr), Envs, Arrays) /\ Ev(k, expr).kind = k
  BY <1>2, <1>3, EvGood
<1>5. {"expr", "block", "and", "or"} \subseteq Kind
  BY DEF Kind
<1>6. ASSUME NEW e, Good(e, Envs, Arrays), e.kind # "rp",
             Continue(Rest \o <<e>>) \/ Continue(Append(Rest, e)), UNCHANGED <<scope, array>>
      PROVE  IInv'
  BY <1>2, <1>6, PushSane, ContinuesHere
<1>7. ASSUME NEW e, Good(e, Envs, Arrays), e.kind # "rp",
             NEW g, Good(g, Envs, Arrays), g.kind # "rp",
             Continue(Rest \o <<e, g>>), UNCHANGED <<scope, array>>
      PROVE  IInv'
  BY <1>2, <1>7, PushTwoSane, ContinuesHere
<1>8. ASSUME Continue(Rest), UNCHANGED <<scope, array>> PROVE IInv'
  BY <1>2, <1>8, ContinuesHere
<1>9. Rest \o <<>> = Rest
  BY <1>2, ConcatEmptySeq DEF Sane, Tuple
<1>10. CASE Skip
  BY <1>8, <1>10 DEF Skip, memory
<1>11. ASSUME Top.kind # "rp" PROVE Sane(Rest \o Remaining, Envs, Arrays)
  <2>1. CASE Tail(Top.expr) = <<>>
    BY <1>2, <1>9, <2>1 DEF Remaining
  <2>2. CASE Tail(Top.expr) # <<>>
    <3> DEFINE e == [Top EXCEPT !.expr = Tail(@)]
    <3>1. Good(e, Envs, Arrays) /\ e.kind # "rp"
      BY <1>2, <1>11, RestGood
    <3>2. Remaining = <<e>>
      BY <2>2 DEF Remaining
    <3> HIDE DEF e
    <3> QED
      BY <1>2, <3>1, <3>2, PushSane
  <2> QED
    BY <2>1, <2>2
<1>12. CASE EvalBlock
  <2>1. At("block") /\ Continue(Rest \o Remaining \o <<Ev("expr", Top.expr)>>)
        /\ UNCHANGED <<scope, array>>
    BY <1>12 DEF EvalBlock, memory
  <2>2. Sane(Rest \o Remaining \o <<Ev("expr", Top.expr)>>, Envs, Arrays)
    <3>1. Sane(Rest \o Remaining, Envs, Arrays)
      BY <1>11, <2>1, AtFacts
    <3> QED
      BY <1>4, <1>5, <3>1, PushSane
  <2> QED
    BY <1>2, <2>1, <2>2, ContinuesHere
<1>13. CASE EvalArgs
  <2> DEFINE e == Event("append", Top.env, Top.args, <<>>)
             g == Ev("expr", Top.expr)
  <2>1. At("args") /\ Continue(Rest \o Remaining \o <<e, g>>)
        /\ UNCHANGED <<scope, array>>
    BY <1>13 DEF EvalArgs, memory
  <2>2. Good(e, Envs, Arrays) /\ e.kind # "rp"
    BY <1>2 DEF Good, Event, Kind
  <2>3. Good(g, Envs, Arrays) /\ g.kind # "rp"
    BY <1>4, <1>5
  <2> HIDE DEF e, g
  <2>4. Sane(Rest \o Remaining \o <<e, g>>, Envs, Arrays)
    <3>1. Sane(Rest \o Remaining, Envs, Arrays)
      BY <1>11, <2>1, AtFacts
    <3> QED
      BY <2>2, <2>3, <3>1, PushTwoSane
  <2> QED
    BY <1>2, <2>1, <2>4, ContinuesHere
<1>14. CASE AppendReturn
  BY <1>1, <1>14, AppendIInv
<1>15. CASE Define \/ Set
  <2>1. PICK env : Store(env, ret[running]) /\ array' = array /\ Continue(Rest)
    BY <1>15 DEF Define, Set
  <2> QED
    BY <1>2, <2>1, StoresContinue
<1>16. CASE If
  <2>1. PICK expr : Continue(Append(Rest, Ev("expr", expr))) /\ UNCHANGED <<scope, array>>
    BY <1>16 DEF If, memory
  <2> QED
    BY <1>4, <1>5, <1>6, <2>1
<1>17. CASE Cond
  <2>1. UNCHANGED <<scope, array>> /\ Top.kind # "rp"
    BY <1>17, AtFacts DEF Cond, memory
  <2>2. CASE Continue(Append(Rest, Ev("expr", Top.expr))) \/ Continue(Rest)
    BY <1>4, <1>5, <1>6, <1>8, <2>1, <2>2
  <2>3. CASE \E clause : Continue(Rest \o << [Top EXCEPT !.expr = Tail(clause), !.next = Tail(@)],
                                             Ev("expr", clause) >>)
    <3>1. PICK clause : Continue(Rest \o << [Top EXCEPT !.expr = Tail(clause), !.next = Tail(@)],
                                            Ev("expr", clause) >>)
      BY <2>3
    <3> DEFINE e == [Top EXCEPT !.expr = Tail(clause), !.next = Tail(@)]
    <3>2. Good(e, Envs, Arrays) /\ e.kind # "rp"
      <4>1. \A x, y : Good(Onward(Top, x, y), Envs, Arrays) /\ Onward(Top, x, y).kind = Top.kind
        BY <1>2, RestGood
      <4> QED
        BY <2>1, <4>1, Zenon DEF Onward
    <3> HIDE DEF e
    <3>3. Continue(Rest \o <<e, Ev("expr", clause)>>)
      BY <3>1 DEF e
    <3> QED
      BY <1>4, <1>5, <1>7, <2>1, <3>2, <3>3
  <2> QED
    BY <1>17, <2>2, <2>3 DEF Cond
<1>18. CASE And
  <2>1. UNCHANGED <<scope, array>>
    BY <1>18 DEF And, memory
  <2>2. Continue(Rest) \/ Continue(Rest \o <<>>)
          \/ Continue(Rest \o <<Ev("and", Tail(Top.expr)), Ev("expr", Top.expr)>>)
    BY <1>18 DEF And
  <2> QED
    BY <1>4, <1>5, <1>7, <1>8, <1>9, <2>1, <2>2
<1>19. CASE Or
  <2>1. UNCHANGED <<scope, array>>
    BY <1>19 DEF Or, memory
  <2>2. Continue(Rest \o <<>>)
          \/ Continue(Rest \o <<Ev("or", Tail(Top.expr)), Ev("expr", Top.expr)>>)
    BY <1>19 DEF Or
  <2> QED
    BY <1>4, <1>5, <1>7, <1>8, <1>9, <2>1, <2>2
<1>20. CASE Loop
  <2>1. Top.kind # "rp"
    BY <1>20, AtFacts DEF Loop
  <2>2. Continue(Rest \o <<Top, Ev("block", Top.expr)>>) /\ UNCHANGED <<scope, array>>
    BY <1>20 DEF Loop, memory
  <2> QED
    BY <1>2, <1>4, <1>5, <1>7, <2>1, <2>2
<1> QED
  BY <1>10, <1>12, <1>13, <1>14, <1>15, <1>16, <1>17, <1>18, <1>19, <1>20 DEF Do

(* ... a call of a function among them, ...                                 *)
LEMMA CallsIInv ==
  ASSUME IInv, Call
  PROVE  IInv'
<1>1. At("call")
  BY DEF Call, CallDebug, CallThrow, CallReturn, CallSleep, CallWait, CallExhaust, CallSync,
         CallLambda, Calling
<1>2. /\ running \in Frame /\ cycles <= Limit
      /\ Good(Top, Envs, Arrays) /\ Sane(Rest, Envs, Arrays)
  BY <1>1, AtFacts
<1>3. Arrays \in Nat
  BY <1>2, MemoryFacts DEF Arrays
<1>4. ASSUME Continue(Rest), UNCHANGED <<scope, array>> PROVE IInv'
  BY <1>2, <1>4, ContinuesHere
<1>5. ASSUME Throw(Rest) PROVE IInv'
  BY <1>2, <1>5, Throws
<1>6. CASE CallDebug \/ CallThrow
  BY <1>4, <1>5, <1>6 DEF CallDebug, CallThrow
<1>7. CASE CallReturn
  <2>1. CASE Throw(Rest)
    BY <1>5, <2>1
  <2>2. CASE ~Throw(Rest)
    <3>1. Continue(GotoReturnPoint(Rest)) /\ UNCHANGED <<scope, array>>
      BY <1>7, <2>2 DEF CallReturn, memory
    <3> QED
      BY <1>2, <3>1, ReturnSane, ContinuesHere
  <2> QED
    BY <2>1, <2>2
<1>8. CASE CallSleep
  <2>1. CASE Throw(Rest)
    BY <1>5, <2>1
  <2>2. CASE ~Throw(Rest)
    <3>1. /\ stack' = [stack EXCEPT ![running] = Rest] /\ Leave("asleep")
          /\ Scheduled(running) /\ UNCHANGED <<waits, scope, array>>
      BY <1>8, <2>2 DEF CallSleep, memory
    <3>2. waits' \subseteq Frame /\ waits \subseteq waits' /\ "asleep" \in Endings
      BY <3>1 DEF IInv, Typed, Endings
    <3>3. /\ entries' \in [Frame -> Nat] /\ entries'[running] > 0
          /\ \A f \in Frame : entries'[f] >= entries[f]
      BY <1>2, <3>1, ScheduledFacts
    <3> QED
      BY <1>2, <3>1, <3>2, <3>3, Leaves
  <2> QED
    BY <2>1, <2>2
<1>12. CASE CallWait
  <2>1. CASE Throw(Rest)
    BY <1>5, <2>1
  <2>2. CASE ~Throw(Rest)
    <3>1. /\ waits' = waits \cup {running} /\ stack' = [stack EXCEPT ![running] = Rest]
          /\ UNCHANGED <<entries, scope, array>>
      BY <1>12, <2>2 DEF CallWait, memory
    <3>2. /\ waits' \subseteq Frame /\ waits \subseteq waits' /\ running \in waits'
          /\ entries' \in [Frame -> Nat] /\ \A f \in Frame : entries'[f] >= entries[f]
      BY <1>2, <3>1 DEF IInv, Typed
    <3>3. CASE Leave("waits")
      BY <1>2, <3>1, <3>2, <3>3, Leaves DEF Endings
    <3>4. CASE ~Leave("waits")
      <4>1. cycles' = cycles + 1 /\ UNCHANGED <<prog, running, current, ended, astray>>
        BY <1>12, <2>2, <3>4 DEF CallWait
      <4>2. AllSane' /\ stack' = [f \in Frame |-> stack'[f]]
        BY <1>2, <3>1, MemoryStays, StackBecomes DEF Envs, Arrays
      <4>3. cycles' \in 0..(Limit + 1)
        BY <1>2, <4>1, FrameAssumption DEF IInv, Typed
      <4>4. NoneForgotten'
        BY <3>1, <4>1 DEF IInv, NoneForgotten, Halted
      <4> QED
        BY <3>1, <3>2, <4>1, <4>2, <4>3, <4>4 DEF IInv, Typed, OneAtATime
    <3> QED
      BY <3>3, <3>4
  <2> QED
    BY <2>1, <2>2
<1>9. CASE CallExhaust
  <2>1. /\ stack' = [stack EXCEPT ![running] = Rest]
        /\ ended' = [ended EXCEPT ![running] = "fatal"] /\ running' = NULL
        /\ UNCHANGED <<current, entries, waits, astray, cycles, scope, array>>
    BY <1>9 DEF CallExhaust, memory
  <2>2. AllSane' /\ stack' = [f \in Frame |-> stack'[f]]
    BY <1>2, <2>1, MemoryStays, StackBecomes DEF Envs, Arrays
  <2>3. current = running /\ running # NULL
    BY <1>2, FrameAssumption DEF IInv, OneAtATime
  <2>4. ended'[running] = "fatal" /\ ended' \in [Frame -> Endings]
    BY <1>2, <2>1 DEF IInv, Typed, Endings
  <2>5. Typed'
    BY <2>1, <2>2, <2>4 DEF IInv, Typed
  <2> QED
    BY <2>1, <2>2, <2>3, <2>4, <2>5 DEF IInv, OneAtATime, NoneForgotten, Halted
<1>10. CASE CallSync
  BY <1>4, <1>10 DEF CallSync
<1>11. CASE CallLambda
  <2> DEFINE params == IF Func.op = "lambda" THEN 1 ELSE 0
             x      == IF Func.op = "lambda" THEN Actuals[1] ELSE Null
             s      == MarkReturnPoint(Rest)
             n      == Len(scope[running]) + 1
             e      == Event("block", n, 0, Func.args)
             new    == [parent |-> Top.env, x |-> x]
  <2>1. Sane(s, Envs, Arrays)
    BY <1>2, <1>3, MarkSane
  <2>2. CASE Len(Actuals) # params
    <3>1. Throw(s)
      BY <1>11, <2>2 DEF CallLambda
    <3> HIDE DEF s
    <3> QED
      BY <1>2, <2>1, <3>1, Throws
  <2>3. CASE Len(Actuals) = params
    <3>1. /\ scope' = [scope EXCEPT ![running] = Append(@, new)]
          /\ Continue(Append(s, e)) /\ array' = array
      BY <1>11, <2>3 DEF CallLambda
    <3> HIDE DEF params, x, s, new
    <3>2. scope = [f \in Frame |-> scope[f]]
      BY DEF IInv, Typed
    <3>3. /\ scope' = [f \in Frame |-> scope'[f]]
          /\ scope'[running] = Append(scope[running], new)
          /\ \A f \in Frame : f # running => scope'[f] = scope[f]
      BY <1>2, <3>1, <3>2
    <3>4. /\ Tuple(scope'[running]) /\ DOMAIN scope'[running] = 1..n /\ n \in 1..n
          /\ Envs = 1..Len(scope[running]) /\ Envs \subseteq 1..n
      BY <1>2, <3>3, MemoryFacts, Grows DEF Envs
    <3>5. MemoryGrows
      <4>1. \A f \in Frame : /\ Tuple(scope[f]) /\ Tuple(array[f])
                             /\ Len(array[f]) <= Len(array[f])
        BY MemoryFacts
      <4> QED
        BY <3>1, <3>3, <3>4, <4>1 DEF MemoryGrows, IInv, Typed, Envs
    <3>6. Good(e, 1..n, Arrays) /\ e.kind # "rp"
      BY <1>3, <3>4 DEF Good, Event, Kind
    <3>7. Sane(s, 1..n, Arrays)
      BY <1>3, <2>1, <3>4, MoreSane
    <3> HIDE DEF e, n
    <3>8. Sane(Append(s, e), DOMAIN scope'[running], Len(array'[running]))
      BY <3>1, <3>4, <3>6, <3>7, PushSane DEF Arrays
    <3> QED
      BY <1>2, <3>1, <3>5, <3>8, Continues
  <2> QED
    BY <2>2, <2>3
<1> QED
  BY <1>6, <1>7, <1>8, <1>9, <1>10, <1>11, <1>12 DEF Call

(* ... and starting and ending a run.                                       *)
LEMMA NextIInv ==
  ASSUME IInv, [Next]_vars
  PROVE  IInv'
<1>1. ASSUME NEW f \in Frame, StartRun(f) PROVE IInv'
  <2>1. /\ running = NULL /\ current = NULL /\ running' = f /\ current' = f /\ cycles' = 0
        /\ astray' \in {astray, astray \cup {f}}
        /\ UNCHANGED <<prog, waits, ended, stack, scope, array>>
    BY <1>1 DEF StartRun, memory
  <2>2. /\ entries' \in [Frame -> Nat]
        /\ \A g \in Frame : g # f => entries'[g] = entries[g]
    BY <1>1, ConsumedFacts DEF StartRun
  <2>3. Typed' /\ AllSane'
    BY <2>1, <2>2, FrameAssumption DEF IInv, Typed, AllSane
  <2>4. NoneForgotten'
    <3> SUFFICES ASSUME NEW g \in Frame, prog'[g] # <<>>, g # f,
                        ended'[g] \in {"not yet", "asleep", "waits"}
                 PROVE  entries'[g] > 0 \/ g \in waits'
      BY <2>1 DEF NoneForgotten
    <3>1. ~Halted /\ running # g
      BY <2>1, FrameAssumption DEF Halted
    <3>2. entries[g] > 0 \/ g \in waits
      BY <2>1, <3>1 DEF IInv, NoneForgotten
    <3> QED
      BY <2>1, <2>2, <3>2
  <2> QED
    BY <2>1, <2>3, <2>4, FrameAssumption DEF IInv, OneAtATime
<1>2. ASSUME NEW f \in Frame, NestedRun(f) PROVE IInv'
  <2>1. /\ running = NULL /\ current # NULL
        /\ UNCHANGED <<prog, running, current, waits, ended, astray, cycles, stack, scope, array>>
    BY <1>2 DEF NestedRun, memory
  <2>2. entries' \in [Frame -> Nat]
    BY <1>2, ConsumedFacts DEF NestedRun
  <2> QED
    BY <2>1, <2>2 DEF IInv, Typed, AllSane, OneAtATime, NoneForgotten, Halted
<1>3. ASSUME NEW f \in Frame, Wake(f) PROVE IInv'
  <2>1. /\ running = NULL /\ waits' = waits \ {f}
        /\ UNCHANGED <<prog, running, current, ended, astray, cycles, stack, scope, array>>
    BY <1>3 DEF Wake, memory
  <2>2. /\ entries' \in [Frame -> Nat] /\ entries'[f] > 0
        /\ \A g \in Frame : g # f => entries'[g] = entries[g]
    BY <1>3, ScheduledFacts DEF Wake
  <2>3. Typed' /\ AllSane'
    BY <2>1, <2>2 DEF IInv, Typed, AllSane
  <2>4. NoneForgotten'
    BY <2>1, <2>2 DEF IInv, NoneForgotten, Halted
  <2> QED
    BY <2>1, <2>3, <2>4 DEF IInv, OneAtATime
<1>4. CASE EndRun
  <2>1. /\ running \in Frame
        /\ \E how \in {"done", "limit"} : Leave(how)
        /\ UNCHANGED <<entries, waits, stack, scope, array>>
    BY <1>4 DEF EndRun, memory, IInv, Typed
  <2>2. PICK how \in {"done", "limit"} : Leave(how)
    BY <2>1
  <2>3. /\ running' = NULL /\ current' = NULL /\ cycles' = cycles /\ astray' = astray
        /\ prog' = prog /\ ended' \in [Frame -> Endings] /\ ended'[running] = how
        /\ \A g \in Frame : g # running => ended'[g] = ended[g]
    BY <2>1, <2>2 DEF Leave, IInv, Typed, Endings
  <2>4. Typed' /\ AllSane'
    BY <2>1, <2>3 DEF IInv, Typed, AllSane
  <2>5. NoneForgotten'
    BY <2>1, <2>3, FrameAssumption DEF IInv, NoneForgotten, Halted
  <2> QED
    BY <2>3, <2>4, <2>5, FrameAssumption DEF IInv, OneAtATime
<1>5. CASE UNCHANGED vars
  BY <1>5 DEF vars, control, memory, IInv, Typed, AllSane, OneAtATime, NoneForgotten, Halted
<1> QED
  BY <1>1, <1>2, <1>3, <1>4, <1>5, EvalIInv, DoIInv, CallsIInv DEF Next

(* Before the first run every frame has its program.                        *)
LEMMA InitIInv == Init => IInv
<1> SUFFICES ASSUME Init PROVE IInv
  OBVIOUS
<1>1. Typed
  <2>1. /\ \A f \in Frame : scope[f] = <<[parent |-> 0, x |-> Null]>> /\ array[f] = <<>>
        /\ scope = [f \in Frame |-> scope[f]] /\ array = [f \in Frame |-> array[f]]
        /\ stack = [f \in Frame |-> stack[f]]
    BY DEF Init
  <2>2. \A x : <<x>> \in Seq({x}) /\ <<>> \in Seq({x})
    OBVIOUS
  <2>3. \A f \in Frame : Tuple(scope[f]) /\ Tuple(array[f])
    BY <2>1, <2>2, IsTuple
  <2>4. /\ running = NULL /\ current = NULL /\ cycles \in 0..(Limit + 1)
        /\ entries \in [Frame -> Nat] /\ waits \subseteq Frame /\ astray \subseteq Frame
    <3>1. running = NULL /\ current = NULL /\ cycles = 0
      BY DEF Init
    <3>2. entries \in [Frame -> Nat] /\ waits = {} /\ astray = {}
      BY DEF Init
    <3>3. 0 \in 0..(Limit + 1)
      BY FrameAssumption
    <3> QED
      BY <3>1, <3>2, <3>3
  <2>5. ended \in [Frame -> Endings]
    BY DEF Init, Endings
  <2> QED
    BY <2>1, <2>3, <2>4, <2>5 DEF Typed
<1>2. AllSane
  <2> SUFFICES ASSUME NEW f \in Frame PROVE Sane(stack[f], DOMAIN scope[f], Len(array[f]))
    BY DEF AllSane
  <2>1. CASE prog[f] = <<>>
    BY <2>1, EmptySane DEF Init
  <2>2. CASE prog[f] # <<>>
    <3> DEFINE e == Event("block", 1, 0, prog[f])
    <3>1. stack[f] = <<e>>
      BY <2>2 DEF Init
    <3>2. DOMAIN scope[f] = {1} /\ Len(array[f]) = 0
      <4>1. scope[f] = <<[parent |-> 0, x |-> Null]>> /\ array[f] = <<>>
        BY DEF Init
      <4>2. \A x : DOMAIN <<x>> = {1} /\ Len(<<>>) = 0
        OBVIOUS
      <4> QED
        BY <4>1, <4>2
    <3>3. Good(e, {1}, 0) /\ e.kind # "rp"
      BY DEF Good, Event, Kind
    <3> HIDE DEF e
    <3>4. <<>> \o <<e>> = <<e>>
      <4>1. <<e>> \in Seq({e})
        OBVIOUS
      <4> QED
        BY <4>1, ConcatEmptySeq
    <3>5. Sane(<<e>>, {1}, 0)
      BY <3>3, <3>4, EmptySane, PushSane
    <3> QED
      BY <3>1, <3>2, <3>5
  <2> QED
    BY <2>1, <2>2
<1>3. NoneForgotten
  <2>1. \A f \in Frame : prog[f] # <<>> => entries[f] = 1
    BY DEF Init
  <2>2. \A f \in Frame : prog[f] # <<>> => entries[f] > 0
    BY <2>1
  <2> QED
    BY <2>2 DEF NoneForgotten
<1> QED
  BY <1>1, <1>2, <1>3 DEF Init, IInv, OneAtATime

-----------------------------------------------------------------------------

(* An event refers to an environment and an array its frame has made, and   *)
(* do_run() counts its cycles up to the limit and one more.                 *)
THEOREM StacksAreTyped == Spec => []TypeOK
<1>1. IInv => TypeOK
  <2> SUFFICES ASSUME IInv PROVE TypeOK
    OBVIOUS
  <2>1. /\ running \in Frame \cup {NULL} /\ current \in Frame \cup {NULL}
        /\ entries \in [Frame -> Nat] /\ waits \subseteq Frame /\ astray \subseteq Frame
        /\ cycles \in 0..(Limit + 1) /\ ended \in [Frame -> Endings]
    BY DEF IInv, Typed
  <2>2. \A f \in Frame : \A i \in DOMAIN stack[f] :
          Good(stack[f][i], DOMAIN scope[f], Len(array[f]))
    BY DEF IInv, AllSane, Sane
  <2> QED
    BY <2>1, <2>2 DEF TypeOK, Good, Endings
<1> QED
  BY <1>1, InitIInv, NextIInv, PTL DEF Spec

(* mark_return_point (code/frame.cpp): calls in tail position share one     *)
(* return point, whatever the programs are.                                 *)
THEOREM ReturnPointsShared == Spec => []SharedReturnPoints
<1>1. IInv => SharedReturnPoints
  BY DEF IInv, AllSane, Sane, SharedReturnPoints
<1> QED
  BY <1>1, InitIInv, NextIInv, PTL DEF Spec

(* do_run() (code/frame.cpp): g_current_frame is the frame that runs,       *)
(* however often the queue holds it, and outside a run only a fatal         *)
(* exception of that frame has left it set.                                 *)
THEOREM RunsOneAtATime == Spec => []OneAtATime
<1>1. IInv => OneAtATime
  BY DEF IInv
<1> QED
  BY <1>1, InitIInv, NextIInv, PTL DEF Spec

(* MooCodeFrame::schedule and MooTCP::handle (code/frame.cpp, tcp.cpp): a   *)
(* frame that has not begun, sleeps or waits has an entry or is held by its *)
(* driver, whatever sleeps and wake-ups cross.                              *)
THEOREM FramesNotForgotten == Spec => []NoneForgotten
<1>1. IInv => NoneForgotten
  BY DEF IInv
<1> QED
  BY <1>1, InitIInv, NextIInv, PTL DEF Spec

=============================================================================
