---------------------------- MODULE CodeMeaning ----------------------------
(***************************************************************************)
(* What a MooCode program means, defined by recursion over the program and *)
(* not by a stack of events: the reference for CodeFrame.  A return ends   *)
(* the innermost loop or lambda, a throw the innermost try, and a lambda   *)
(* sees the variables of its caller.                                       *)
(***************************************************************************)
EXTENDS CodeFrame

CONSTANT Fuel   (* calls and turns of loops before a program counts as endless *)

(* A state of the evaluation: how it stands, the last value, the            *)
(* environments, the mutexes, what has been printed, whether the program    *)
(* has waited for its driver, and the fuel left.                            *)
Start == [how |-> "value", val |-> Null, envs |-> <<[parent |-> 0, x |-> Null]>>,
          lock |-> <<>>, out |-> <<>>, waited |-> FALSE, fuel |-> Fuel]

Thrown(m) == [m EXCEPT !.how = "throw"]

Burn(m) == IF m.fuel = 0 THEN [m EXCEPT !.how = "endless"] ELSE [m EXCEPT !.fuel = @ - 1]

(* What follows happens only to a state that has a value.                   *)
Then(m, Op(_)) == IF m.how = "value" THEN Op(m) ELSE m

(* A return stops here.                                                     *)
Returned(m) == IF m.how = "return" THEN [m EXCEPT !.how = "value"] ELSE m

RECURSIVE Visible(_, _)
Visible(env, m) ==
  IF env = 0 \/ m.envs[env].x # Null THEN env ELSE Visible(m.envs[env].parent, m)

Assign(env, value, m) == IF value = Null THEN m ELSE [m EXCEPT !.envs[env].x = value]

RECURSIVE Node(_, _, _), Block(_, _, _), Repeat(_, _, _), Clauses(_, _, _), Apply(_, _, _, _)

Block(nodes, env, m) ==
  IF nodes = <<>> THEN m
  ELSE Then(Node(Head(nodes), env, m), LAMBDA r : Block(Tail(nodes), env, r))

Repeat(nodes, env, m) ==
  Then(Block(nodes, env, m), LAMBDA r : Then(Burn(r), LAMBDA s : Repeat(nodes, env, s)))

Clauses(clauses, env, m) ==
  IF clauses = <<>> THEN m
  ELSE LET clause == Head(clauses).args
       IN Then(Node(clause[1], env, m),
               LAMBDA r : IF IsTrue(r.val) THEN Block(Tail(clause), env, r)
                          ELSE Clauses(Tail(clauses), env, r))

(* The functions.  Whether a second wait is refused depends on what has     *)
(* arrived in between: from there on the meaning is open.                   *)
Invoke(func, actuals, env, m) ==
  CASE func.op = "debug" /\ actuals # <<>> /\ ~Contains(actuals, Null) ->
         [m EXCEPT !.out = @ \o actuals]
    [] func.op = "return" /\ Len(actuals) <= 1 ->
         [m EXCEPT !.how = "return",
                   !.val = IF actuals \in {<<>>, <<Null>>} THEN Nil ELSE actuals[1]]
    [] func.op = "sleep" /\ Len(actuals) = 1 /\ actuals[1].op \in {"number", "null"} -> m
    [] func.op = "wait" /\ actuals = <<>> ->
         IF m.waited THEN [m EXCEPT !.how = "open"] ELSE [m EXCEPT !.waited = TRUE]
    [] func.op = "exhaust" -> [m EXCEPT !.how = "fatal"]
    [] func.op = "sync" ->
         IF m.lock[func.args[1]] THEN [m EXCEPT !.how = "blocked"]
         ELSE [m EXCEPT !.lock[func.args[1]] = TRUE]
    [] func.op = "thunk" /\ actuals = <<>> ->
         Then(Burn([m EXCEPT !.envs = Append(@, [parent |-> env, x |-> Null])]),
              LAMBDA r : Returned(Block(func.args, Len(r.envs), r)))
    [] func.op = "lambda" /\ Len(actuals) = 1 ->
         Then(Burn([m EXCEPT !.envs = Append(@, [parent |-> env, x |-> actuals[1]])]),
              LAMBDA r : Returned(Block(func.args, Len(r.envs), r)))
    [] OTHER -> Thrown(m)

(* Arguments are evaluated from left to right, values holds those known.    *)
Apply(values, nodes, env, m) ==
  IF nodes = <<>> THEN Invoke(Head(values), Tail(values), env, m)
  ELSE Then(Node(Head(nodes), env, m),
            LAMBDA r : Apply(Append(values, r.val), Tail(nodes), env, r))

Caught(m, handler, env) ==
  IF m.how = "throw"
  THEN Block(handler, env, [m EXCEPT !.how = "value", !.val = Nil])
  ELSE m

Node(n, env, m) ==
  LET holder == Visible(env, m)
      op     == n.op
      args   == n.args
  IN
  CASE op \in Literal \cup Builtin -> [m EXCEPT !.val = n]
    [] op = "x" -> IF holder = 0 THEN Thrown(m) ELSE [m EXCEPT !.val = m.envs[holder].x]
    [] Malformed(n) -> Thrown(m)
    [] op = "define" -> Then(Node(args[1], env, m), LAMBDA r : Assign(env, r.val, r))
    [] op = "set" -> Then(Node(args[1], env, m),
                          LAMBDA r : LET h == Visible(env, r)
                                     IN Assign(IF h = 0 THEN env ELSE h, r.val, r))
    [] op = "undefine" -> Assign(env, Nil, m)
    [] op = "defined?" -> [m EXCEPT !.val = Leaf(IF holder = 0 THEN "false" ELSE "true")]
    [] op = "if" -> Then(Node(args[1], env, m),
                         LAMBDA r : IF IsTrue(r.val) THEN Node(args[2], env, r)
                                    ELSE IF Len(args) = 3 THEN Node(args[3], env, r) ELSE r)
    [] op = "cond" -> Clauses(args, env, [m EXCEPT !.val = Leaf("false")])
    [] op = "and" ->
         IF args = <<>> THEN [m EXCEPT !.val = Leaf("true")]
         ELSE Then(Node(args[1], env, m),
                   LAMBDA r : IF ~IsTrue(r.val) THEN [r EXCEPT !.val = Leaf("false")]
                              ELSE IF Len(args) = 1 THEN r
                              ELSE Node([op |-> "and", args |-> Tail(args)], env, r))
    [] op = "or" ->
         IF args = <<>> THEN [m EXCEPT !.val = Leaf("false")]
         ELSE Then(Node(args[1], env, m),
                   LAMBDA r : IF IsTrue(r.val) \/ Len(args) = 1 THEN r
                              ELSE Node([op |-> "or", args |-> Tail(args)], env, r))
    [] op = "begin" -> Block(args, env, m)
    [] op = "loop" -> Returned(Repeat(args, env, m))
    [] op = "try" -> Caught(Block(args, env, m), Handler(args), env)
    [] op = "ignore" -> Caught(Block(args, env, m), <<>>, env)
    [] op = "catch" -> m
    [] op = "synchronize" ->
         [m EXCEPT !.val = [op |-> "sync", args |-> <<Len(m.lock) + 1>>],
                   !.lock = Append(@, FALSE)]
    [] op = "apply" ->
         IF args[1].op \in Builtin THEN Apply(<<args[1]>>, Tail(args), env, m)
         ELSE IF args[1].op # "x" THEN Apply(<<>>, args, env, m)
         ELSE IF holder = 0 THEN Thrown(m)
         ELSE Apply(<<m.envs[holder].x>>, Tail(args), env, m)

Program == UNION {{work[f] : f \in Frame} : work \in Workload}

Meaning == [program \in Program |-> Block(program, 1, Start)]

-----------------------------------------------------------------------------

(* What has been printed goes along with what is meant to be.               *)
Compatible(printed, meant) ==
  \/ IsPrefix(printed, meant.out)
  \/ meant.how = "endless"
  \/ meant.how \in {"open", "throw"} /\ IsPrefix(meant.out, printed)

(* However a frame's run is cut up by sleeps, by waits, by wake-ups that    *)
(* cut its sleep short or queue it twice, and by the other frames: what it  *)
(* prints, how it ends and the value it ends with are what the program      *)
(* means.  After an exception nothing caught, or where the meaning is open, *)
(* that holds of what it printed up to there.                               *)
RunsAsMeant ==
  \A f \in Frame :
    LET meant == Meaning[prog[f]]
    IN IF f \in astray
       THEN meant.how \in {"throw", "open"} /\ Compatible(out[f], meant)
       ELSE /\ Compatible(out[f], meant)
            /\ \/ meant.how = "open"
               \/ /\ ended[f] = "done"   => /\ meant.how \in {"value", "return"}
                                            /\ out[f] = meant.out
                                            /\ ret[f] = meant.val
                  /\ ended[f] = "thrown" => meant.how = "throw" /\ out[f] = meant.out
                  /\ ended[f] = "fatal"  => meant.how = "fatal" /\ out[f] = meant.out
                  /\ ended[f] = "limit"  => meant.how = "endless"
                  /\ running = f /\ Held => meant.how = "blocked" /\ out[f] = meant.out

=============================================================================
