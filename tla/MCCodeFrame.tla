---------------------------- MODULE MCCodeFrame ----------------------------
(* Programs for CodeFrame: forms around simple statements, forms around     *)
(* forms, forms with the wrong arguments, and the few that two frames run   *)
(* against each other.                                                      *)
EXTENDS CodeMeaning

CONSTANT f1

N(op, args) == [op |-> op, args |-> args]

True  == Leaf("true")
False == Leaf("false")
X     == Leaf("x")

Debug(n)  == N("apply", <<Leaf("debug"), n>>)
ThrowIt   == N("apply", <<Leaf("throw"), True>>)
ReturnX   == N("apply", <<Leaf("return"), X>>)
Sleep     == N("apply", <<Leaf("sleep"), Leaf("number")>>)
Wait      == N("apply", <<Leaf("wait")>>)
Exhaust   == N("apply", <<Leaf("exhaust")>>)
CallX     == N("apply", <<X>>)

(* Statements without other statements inside.                              *)
Simple ==
  {True, X, ThrowIt, ReturnX, Sleep, CallX, Debug(X), N("apply", <<Leaf("return")>>),
   N("define", <<False>>), N("set", <<True>>), N("undefine", <<>>), N("defined?", <<>>)}

(* Every form around a statement of S and one of T.                         *)
Around(S, T) ==
  UNION {
    { N("begin", <<a, b>>), N("if", <<X, a, b>>), N("if", <<a, Debug(True)>>),
      N("and", <<a, b>>), N("or", <<a, b>>), N("define", <<a>>), N("set", <<a>>),
      N("cond", <<N("clause", <<a, b>>), N("clause", <<X, True>>)>>),
      N("loop", <<N("if", <<X, b>>), a>>),
      N("try", <<a, N("catch", <<b>>)>>), N("ignore", <<a, b>>),
      N("apply", <<N("lambda", <<a, b>>), False>>),
      N("apply", <<N("thunk", <<a, b>>)>>),
      N("define", <<N("thunk", <<a, b>>)>>),
      N("apply", <<Leaf("debug"), a, b>>) } : a \in S, b \in T }

Sync == N("synchronize", <<>>)

Odd ==
  { Sync, N("apply", <<Sync>>),
    N("begin", <<N("define", <<Sync>>), CallX>>),
    N("begin", <<N("define", <<Sync>>), CallX, Debug(True), CallX>>) } \cup
  { N("and", <<>>), N("or", <<>>), N("cond", <<>>), N("loop", <<>>), N("define", <<>>),
    N("if", <<X>>), N("try", <<X, N("catch", <<>>)>>), N("begin", <<>>),
    N("apply", <<Leaf("debug")>>), N("apply", <<Leaf("sleep"), X>>),
    N("apply", <<Leaf("return"), X, X>>), N("apply", <<True>>),
    N("apply", <<N("lambda", <<X>>)>>) }

Core == {ThrowIt, ReturnX, Debug(X)}

(* A program first gives x a value or leaves it unbound.                    *)
Whole(first, S) == { <<first, n, Debug(X)>> : n \in S }

Shallow == UNION { Whole(first, Around(Simple, Simple) \cup Odd) :
                     first \in {True, N("define", <<False>>)} }

Deep ==
  Whole(N("define", <<True>>),
        Around(Around(Core, {Sleep, Debug(X)}), {Debug(False)})
          \cup Around({Debug(False)}, Around(Core, {Sleep, Debug(X)})))

Programs == Shallow \cup Deep

Idle == <<>>


(* A lambda that calls itself in tail position.                             *)
TailCall == <<N("define", <<N("thunk", <<Debug(True), CallX>>)>>), CallX>>

Small ==
  { <<Sleep, Debug(True), Sleep>>, <<N("loop", <<True>>)>>, TailCall,
    <<N("try", <<Sleep, ThrowIt, N("catch", <<Sleep, Debug(True)>>)>>), ThrowIt, True>>,
    <<Sleep, Exhaust, Debug(True)>>,
    <<Wait, Sleep, Debug(True), Sleep, ThrowIt, Debug(True)>>,
    <<Wait, N("try", <<Sleep, Wait, Debug(True), N("catch", <<Debug(False)>>)>>), Sleep, True>> }

(* One frame with any program, or both with one of the small ones.          *)
Work ==
  {[f \in Frame |-> IF f = f1 THEN p ELSE Idle] : p \in Programs} \cup [Frame -> Small]

=============================================================================
