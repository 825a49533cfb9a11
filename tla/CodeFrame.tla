----------------------------- MODULE CodeFrame -----------------------------
(***************************************************************************)
(* MooCodeFrame (code/frame.cpp) running MooCode: a frame is a stack of    *)
(* events (code/event.cpp); do_run() pops one at a time and does it, which *)
(* pushes others.  Frames take turns on one thread: one runs until it ends,*)
(* throws, sleeps, waits for its driver or exceeds its cycles.             *)
(*                                                                         *)
(* A program is a sequence of nodes [op, args]; a pointer to an expression *)
(* is the sequence of that expression and the ones after it.  The language *)
(* has one variable, x, the form names, lambdas of one parameter x or none *)
(* ("thunk"), and the functions debug, throw, return and sleep; "wait" is  *)
(* the method of the frame's own TCP driver, and "exhaust" is any call that*)
(* makes an array or a hash ask for too much memory.                       *)
(***************************************************************************)
EXTENDS Naturals, SequencesExt

CONSTANTS
  Frame,     (* the code frames                                            *)
  NULL,      (* no frame                                                   *)
  Workload,  (* what the frames may be given to do: a program for each; a  *)
             (* frame that is given none has the empty one                 *)
  Limit,     (* MOO_FRAME_CYCLE_LIMIT                                      *)
  MaxArrays  (* a frame that has made this many argument arrays is not     *)
             (* started again: the bound on programs that sleep in a loop  *)

ASSUME FrameAssumption ==
  /\ NULL \notin Frame
  /\ Limit \in Nat
  /\ MaxArrays \in Nat

VARIABLES
  prog,      (* each frame's program                                       *)
  running,   (* the frame whose do_run() is on the thread's stack, or NULL *)
  current,   (* g_current_frame                                            *)
  entries,   (* how many entries of the task queue each frame has;         *)
             (* TaskQueue models their order                               *)
  waits,     (* the frames that their drivers hold in m_frame              *)
  cycles,    (* do_run()'s count                                           *)
  stack,     (* m_stack of each frame, its top last                        *)
  ret,       (* m_return                                                   *)
  scope,     (* the environments the frame has made: parent and x          *)
  array,     (* the argument arrays it has made                            *)
  lock,      (* the mutex of each synchronisation object it has made: taken?*)
  out,       (* history: what the frame has printed with debug             *)
  ended,     (* history: how the frame's last run ended                    *)
  astray     (* history: frames that went on after an uncaught exception   *)

control == <<prog, running, current, entries, waits, ended, astray>>
memory  == <<scope, array, lock, out>>
vars    == <<control, cycles, stack, ret, memory>>

Kind == {"expr", "block", "call", "args", "append", "rp", "catch",
         "define", "set", "if", "cond", "and", "or", "loop"}

Leaf(op) == [op |-> op, args |-> <<>>]

Null == Leaf("null")     \* no object at all: also what an unbound x holds
Nil  == Leaf("nil")      \* moo_nil

(* What evaluates to itself; sync is what synchronize makes.                *)
Literal == {"true", "false", "nil", "number", "lambda", "thunk"}
Builtin == {"debug", "throw", "return", "sleep", "wait", "exhaust"}

(* MooObject::is_true, and the tests for NULL before it.                    *)
IsTrue(value) == value.op \notin {"false", "null"}

TypeOK ==
  /\ running \in Frame \cup {NULL}
  /\ current \in Frame \cup {NULL}
  /\ entries \in [Frame -> Nat]
  /\ waits \subseteq Frame /\ astray \subseteq Frame
  /\ cycles \in 0..(Limit + 1)
  /\ ended \in [Frame -> {"not yet", "done", "asleep", "waits", "thrown", "limit", "fatal"}]
  /\ \A f \in Frame : \A i \in DOMAIN stack[f] :
       /\ stack[f][i].kind \in Kind
       /\ stack[f][i].env \in DOMAIN scope[f]
       /\ stack[f][i].args \in 0..Len(array[f])

Event(kind, env, args, expr) ==
  [kind |-> kind, env |-> env, args |-> args, expr |-> expr, next |-> <<>>]

(* main and push_code: a new frame, its program pushed as a block.          *)
Init ==
  /\ prog \in Workload
  /\ running = NULL
  /\ current = NULL
  /\ entries = [f \in Frame |-> IF prog[f] = <<>> THEN 0 ELSE 1]
  /\ waits = {}
  /\ astray = {}
  /\ cycles = 0
  /\ stack = [f \in Frame |-> IF prog[f] = <<>> THEN <<>> ELSE <<Event("block", 1, 0, prog[f])>>]
  /\ ret = [f \in Frame |-> Null]
  /\ scope = [f \in Frame |-> <<[parent |-> 0, x |-> Null]>>]
  /\ array = [f \in Frame |-> <<>>]
  /\ lock = [f \in Frame |-> <<>>]
  /\ out = [f \in Frame |-> <<>>]
  /\ ended = [f \in Frame |-> "not yet"]

-----------------------------------------------------------------------------
(* Beginning and ending a run.                                              *)

Scheduled(f) == entries' = [entries EXCEPT ![f] = @ + 1]
Consumed(f)  == entries' = [entries EXCEPT ![f] = @ - 1]

(* run_all() takes an entry off the queue and do_run() starts its frame,    *)
(* which may have more of them, ...                                         *)
StartRun(f) ==
  /\ running = NULL /\ entries[f] > 0 /\ current = NULL
  /\ Len(array[f]) < MaxArrays
  /\ Consumed(f)
  /\ running' = f
  /\ current' = f
  /\ cycles' = 0
  /\ astray' = IF ended[f] = "thrown" THEN astray \cup {f} ELSE astray
  /\ UNCHANGED <<prog, waits, ended, stack, ret, memory>>

(* ... or refuses to, because g_current_frame is set.                       *)
NestedRun(f) ==
  /\ running = NULL /\ entries[f] > 0 /\ current # NULL
  /\ Consumed(f)
  /\ UNCHANGED <<prog, running, current, waits, ended, astray, cycles, stack, ret, memory>>

(* Mutant: the driver forgets the frame and does not schedule it.           *)
WakeForgets(f) ==
  /\ running = NULL /\ f \in waits /\ f # current
  /\ waits' = waits \ {f}
  /\ UNCHANGED <<prog, running, current, entries, ended, astray, cycles, stack, ret, memory>>

(* MooTCP::handle, between two runs of run_all(): the driver of f has input *)
(* and schedules f, whatever entries f has already.  (For the frame that a  *)
(* fatal exception has left current, schedule() throws and the process      *)
(* ends: TelnetServer.)                                                     *)
Wake(f) ==
  /\ running = NULL /\ f \in waits /\ f # current
  /\ Scheduled(f)
  /\ waits' = waits \ {f}
  /\ UNCHANGED <<prog, running, current, ended, astray, cycles, stack, ret, memory>>

(* Mutant: g_current_frame is not reset.                                    *)
LeaveHolding(how) ==
  /\ running' = NULL
  /\ ended' = [ended EXCEPT ![running] = how]
  /\ UNCHANGED <<prog, current, astray, cycles>>

(* What do_run() leaves behind, however the frame stopped.                  *)
Leave(how) ==
  /\ running' = NULL
  /\ current' = NULL
  /\ ended' = [ended EXCEPT ![running] = how]
  /\ UNCHANGED <<prog, astray, cycles>>

(* do_run()'s loop ends: nothing is left, or the cycles are used up.        *)
EndRun ==
  /\ running # NULL
  /\ \/ stack[running] = <<>> /\ Leave("done")
     \/ stack[running] # <<>> /\ cycles > Limit /\ Leave("limit")
  /\ UNCHANGED <<entries, waits, stack, ret, memory>>

-----------------------------------------------------------------------------
(* One turn of do_run()'s loop: the event on top is popped, the frame's     *)
(* environment becomes the event's, and the event is done.                  *)

Top  == Last(stack[running])
Rest == Front(stack[running])

(* Mutant: the cycles are counted and not limited.                          *)
AtUnlimited(kind) ==
  /\ running # NULL /\ stack[running] # <<>>
  /\ Top.kind = kind

At(kind) ==
  /\ running # NULL /\ stack[running] # <<>> /\ cycles <= Limit
  /\ Top.kind = kind

(* The event was done, s is the stack it left, and the frame goes on.       *)
Continue(s) ==
  /\ stack' = [stack EXCEPT ![running] = s]
  /\ cycles' = cycles + 1
  /\ UNCHANGED control

Return(value) == ret' = [ret EXCEPT ![running] = value]

Ev(kind, expr) == Event(kind, Top.env, 0, expr)

(* Mutant: a return point is pushed whatever is on top.                     *)
MarkAlways(s) == Append(s, Ev("rp", <<>>))

(* mark_return_point: two of them are never pushed onto one another.        *)
MarkReturnPoint(s) ==
  IF s # <<>> /\ Last(s).kind = "rp" THEN s ELSE Append(s, Ev("rp", <<>>))

(* The topmost event of a kind is at position i of s.                       *)
Topmost(s, kind, i) ==
  /\ i \in DOMAIN s /\ s[i].kind = kind
  /\ \A j \in (i + 1)..Len(s) : s[j].kind # kind

(* goto_return_point: everything down to the last return point is popped.   *)
GotoReturnPoint(s) ==
  IF \E i \in DOMAIN s : s[i].kind = "rp"
  THEN LET i == CHOOSE j \in DOMAIN s : Topmost(s, "rp", j) IN SubSeq(s, 1, i - 1)
  ELSE <<>>

(* Mutant: the handler that was used stays on the stack.                    *)
RewindTo(s) ==
  LET i == CHOOSE j \in DOMAIN s : Topmost(s, "catch", j)
  IN SubSeq(s, 1, i)
       \o (IF s[i].expr = <<>> THEN <<>> ELSE <<[s[i] EXCEPT !.kind = "block"]>>)

(* handle_exception rewinds the stack to below the last handler and pushes  *)
(* the handler's block, if it has one ...                                   *)
Rewind(s) ==
  LET i == CHOOSE j \in DOMAIN s : Topmost(s, "catch", j)
  IN SubSeq(s, 1, i - 1)
       \o (IF s[i].expr = <<>> THEN <<>> ELSE <<[s[i] EXCEPT !.kind = "block"]>>)

(* ... and without any handler the run ends, what is left of the program    *)
(* staying on the stack.                                                    *)
Throw(s) ==
  /\ IF \E i \in DOMAIN s : s[i].kind = "catch"
     THEN Continue(Rewind(s)) /\ Return(Nil)
     ELSE /\ stack' = [stack EXCEPT ![running] = s]
          /\ Leave("thrown")
          /\ UNCHANGED <<entries, waits, ret>>
  /\ UNCHANGED memory

-----------------------------------------------------------------------------
(* The variable.                                                            *)

(* MooObjectHash::get and mutate look for x from an environment upwards.    *)
Holder(env) ==
  LET envs == scope[running]
      from[e \in 0..Len(envs)] ==
        IF e = 0 \/ envs[e].x # Null THEN e ELSE from[envs[e].parent]
  IN from[env]

Bound == Holder(Top.env) # 0
Value == scope[running][Holder(Top.env)].x

(* MooHash::set refuses NULL.                                               *)
Store(env, value) ==
  scope' = IF value = Null THEN scope ELSE [scope EXCEPT ![running][env].x = value]

-----------------------------------------------------------------------------
(* MooCodeEventEvalExpr and the forms.                                      *)

Expr == Head(Top.expr)
Args == Expr.args

AtForm(op) == At("expr") /\ Top.expr # <<>> /\ Expr.op = op

(* MCT_OBJECT, and the names of the functions.                              *)
EvalObject ==
  /\ \E op \in Literal \cup Builtin : AtForm(op)
  /\ Return(Expr)
  /\ Continue(Rest)
  /\ UNCHANGED memory

EvalName ==
  /\ AtForm("x")
  /\ \/ Bound /\ Return(Value) /\ Continue(Rest) /\ UNCHANGED memory
     \/ ~Bound /\ Throw(Rest)

(* A call of something that is not a form.  A function given by its name is *)
(* looked up now; any other is evaluated along with the arguments.          *)
EvalCall ==
  /\ AtForm("apply")
  /\ \/ Args[1].op = "x" /\ ~Bound /\ Throw(Rest)
     \/ /\ Args[1].op = "x" => Bound
        /\ LET named == Args[1].op \in Builtin \cup {"x"}
               func  == IF Args[1].op = "x" THEN Value ELSE Args[1]
               id    == Len(array[running]) + 1
           IN /\ array' = [array EXCEPT ![running] = Append(@, IF named THEN <<func>> ELSE <<>>)]
              /\ Continue(Rest \o
                   << Event("call", Top.env, id, <<>>),
                      Event("args", Top.env, id, IF named THEN Tail(Args) ELSE Args) >>)
        /\ UNCHANGED <<ret, scope, lock, out>>

(* The forms that check their arguments, and a try without a handler.       *)
HasHandler(args) == \E i \in DOMAIN args : args[i].op = "catch"

Handler(args) ==
  LET i == CHOOSE j \in DOMAIN args :
             args[j].op = "catch" /\ \A k \in 1..(j - 1) : args[k].op # "catch"
  IN args[i].args

Malformed(expr) ==
  LET n == Len(expr.args)
  IN \/ expr.op \in {"define", "set"} /\ n # 1
     \/ expr.op = "if" /\ n \notin {2, 3}
     \/ expr.op \in {"cond", "loop"} /\ n = 0
     \/ expr.op = "try" /\ (HasHandler(expr.args) => Handler(expr.args) = <<>>)

EvalMalformed ==
  /\ At("expr") /\ Top.expr # <<>> /\ Malformed(Expr)
  /\ Throw(Rest)

(* form_define, form_set, form_if: the argument is evaluated, and then the  *)
(* form's own event sees its value.                                         *)
EvalThen(form, later) ==
  /\ AtForm(form) /\ ~Malformed(Expr)
  /\ Continue(Rest \o <<Ev(form, later), Ev("expr", Args)>>)
  /\ UNCHANGED <<ret, memory>>

EvalDefine == EvalThen("define", <<>>)
EvalSet    == EvalThen("set", <<>>)
EvalIf     == EvalThen("if", Tail(Args))

(* form_undefine sets the variable to nil.                                  *)
EvalUndefine ==
  /\ AtForm("undefine")
  /\ Store(Top.env, Nil)
  /\ Continue(Rest)
  /\ UNCHANGED <<ret, array, lock, out>>

EvalDefined ==
  /\ AtForm("defined?")
  /\ Return(Leaf(IF Bound THEN "true" ELSE "false"))
  /\ Continue(Rest)
  /\ UNCHANGED memory

EvalCond ==
  /\ AtForm("cond") /\ ~Malformed(Expr)
  /\ Return(Leaf("false"))
  /\ Continue(Rest \o <<[Ev("cond", <<>>) EXCEPT !.next = Args]>>)
  /\ UNCHANGED memory

(* form_and, form_or; without arguments (and) is true and (or) is false.    *)
EvalJunction(form, unit) ==
  /\ AtForm(form)
  /\ IF Args = <<>>
     THEN Return(Leaf(unit)) /\ Continue(Rest)
     ELSE /\ Continue(Rest \o <<Ev(form, Tail(Args)), Ev("expr", Args)>>)
          /\ UNCHANGED ret
  /\ UNCHANGED memory

EvalAnd == EvalJunction("and", "true")
EvalOr  == EvalJunction("or", "false")

EvalBegin ==
  /\ AtForm("begin")
  /\ Continue(Append(Rest, Ev("block", Args)))
  /\ UNCHANGED <<ret, memory>>

EvalLoop ==
  /\ AtForm("loop") /\ ~Malformed(Expr)
  /\ Continue(Append(MarkReturnPoint(Rest), Ev("loop", Args)))
  /\ UNCHANGED <<ret, memory>>

(* form_try and form_ignore, whose handler is empty.  The block of a try    *)
(* holds the catch as well; reached in order, it does nothing.              *)
EvalTry ==
  /\ AtForm("try") /\ ~Malformed(Expr)
  /\ Continue(Rest \o <<Ev("catch", Handler(Args)), Ev("block", Args)>>)
  /\ UNCHANGED <<ret, memory>>

EvalIgnore ==
  /\ AtForm("ignore")
  /\ Continue(Rest \o <<Ev("catch", <<>>), Ev("block", Args)>>)
  /\ UNCHANGED <<ret, memory>>

(* form_synchronize makes an object of what it is given; evaluating the     *)
(* object takes its mutex, runs nothing and gives nothing back.             *)
EvalSynchronize ==
  /\ AtForm("synchronize")
  /\ lock' = [lock EXCEPT ![running] = Append(@, FALSE)]
  /\ Return([op |-> "sync", args |-> <<Len(lock[running]) + 1>>])
  /\ Continue(Rest)
  /\ UNCHANGED <<scope, array, out>>

EvalCatch ==
  /\ AtForm("catch")
  /\ Continue(Rest)
  /\ UNCHANGED <<ret, memory>>

-----------------------------------------------------------------------------
(* The other events.                                                        *)

(* The events that do nothing when their turn comes.                        *)
Skip ==
  /\ \/ At("rp")
     \/ At("catch")
     \/ \E kind \in {"expr", "block", "args"} : At(kind) /\ Top.expr = <<>>
  /\ Continue(Rest)
  /\ UNCHANGED <<ret, memory>>

(* What is left of a sequence is pushed only if there is any: the last      *)
(* expression of a block is evaluated with nothing of the block on the stack*)
Remaining == IF Tail(Top.expr) = <<>> THEN <<>> ELSE <<[Top EXCEPT !.expr = Tail(@)]>>

EvalBlock ==
  /\ At("block") /\ Top.expr # <<>>
  /\ Continue(Rest \o Remaining \o <<Ev("expr", Top.expr)>>)
  /\ UNCHANGED <<ret, memory>>

EvalArgs ==
  /\ At("args") /\ Top.expr # <<>>
  /\ Continue(Rest \o Remaining \o
       <<Event("append", Top.env, Top.args, <<>>), Ev("expr", Top.expr)>>)
  /\ UNCHANGED <<ret, memory>>

AppendReturn ==
  /\ At("append")
  /\ array' = [array EXCEPT ![running][Top.args] = Append(@, ret[running])]
  /\ Continue(Rest)
  /\ UNCHANGED <<ret, scope, lock, out>>

Define ==
  /\ At("define")
  /\ Store(Top.env, ret[running])
  /\ Continue(Rest)
  /\ UNCHANGED <<ret, array, lock, out>>

Set ==
  /\ At("set")
  /\ Store(IF Bound THEN Holder(Top.env) ELSE Top.env, ret[running])
  /\ Continue(Rest)
  /\ UNCHANGED <<ret, array, lock, out>>

If ==
  /\ At("if")
  /\ Continue(Append(Rest, Ev("expr", IF IsTrue(ret[running]) THEN Top.expr ELSE Tail(Top.expr))))
  /\ UNCHANGED <<ret, memory>>

Cond ==
  /\ At("cond")
  /\ IF IsTrue(ret[running])
     THEN Continue(Append(Rest, Ev("expr", Top.expr)))
     ELSE IF Top.next = <<>>
     THEN Continue(Rest)
     ELSE LET clause == Head(Top.next).args
          IN Continue(Rest \o << [Top EXCEPT !.expr = Tail(clause), !.next = Tail(@)],
                                 Ev("expr", clause) >>)
  /\ UNCHANGED <<ret, memory>>

And ==
  /\ At("and")
  /\ IF ~IsTrue(ret[running])
     THEN Return(Leaf("false")) /\ Continue(Rest)
     ELSE /\ Continue(Rest \o (IF Top.expr = <<>> THEN <<>>
                               ELSE <<Ev("and", Tail(Top.expr)), Ev("expr", Top.expr)>>))
          /\ UNCHANGED ret
  /\ UNCHANGED memory

Or ==
  /\ At("or")
  /\ Continue(Rest \o (IF IsTrue(ret[running]) \/ Top.expr = <<>> THEN <<>>
                       ELSE <<Ev("or", Tail(Top.expr)), Ev("expr", Top.expr)>>))
  /\ UNCHANGED <<ret, memory>>

(* Mutant: every turn of a loop has the cycles to itself.                   *)
LoopAfresh ==
  /\ At("loop")
  /\ stack' = [stack EXCEPT ![running] = Rest \o <<Top, Ev("block", Top.expr)>>]
  /\ cycles' = 0
  /\ UNCHANGED <<control, ret, memory>>

Loop ==
  /\ At("loop")
  /\ Continue(Rest \o <<Top, Ev("block", Top.expr)>>)
  /\ UNCHANGED <<ret, memory>>

-----------------------------------------------------------------------------
(* MooCodeEventCallFunc: the first of the array is the function.            *)

Func    == Head(array[running][Top.args])
Actuals == Tail(array[running][Top.args])

Calling(ops) == At("call") /\ Func.op \in ops

CallDebug ==
  /\ Calling({"debug"})
  /\ IF Actuals = <<>> \/ Contains(Actuals, Null)
     THEN Throw(Rest)
     ELSE /\ out' = [out EXCEPT ![running] = @ \o Actuals]
          /\ Continue(Rest)
          /\ UNCHANGED <<ret, scope, array, lock>>

(* throw, and the values that cannot be called.  (throw of no object at all *)
(* dereferences NULL: nothing runs after it.)                               *)
CallThrow ==
  /\ Calling({"throw", "true", "false", "nil", "number", "null"})
  /\ Func.op = "throw" => Actuals # <<Null>>
  /\ Throw(Rest)

CallReturn ==
  /\ Calling({"return"})
  /\ IF Len(Actuals) > 1
     THEN Throw(Rest)
     ELSE /\ Return(IF Actuals = <<>> \/ Actuals = <<Null>> THEN Nil ELSE Actuals[1])
          /\ Continue(GotoReturnPoint(Rest))
          /\ UNCHANGED memory

(* sleep needs one number; schedule() suspends the frame that calls it.     *)
CallSleep ==
  /\ Calling({"sleep"})
  /\ IF Len(Actuals) # 1 \/ Actuals[1].op \notin {"number", "null"}
     THEN Throw(Rest)
     ELSE /\ stack' = [stack EXCEPT ![running] = Rest]
          /\ Scheduled(running)
          /\ Leave("asleep")
          /\ UNCHANGED <<waits, ret, memory>>

(* MooTCP::wait_for_data: refused while the driver holds a frame already;   *)
(* else it holds this one, which goes on if there is input (the environment *)
(* decides) and is suspended if not.                                        *)
CallWait ==
  /\ Calling({"wait"})
  /\ IF Actuals # <<>> \/ running \in waits
     THEN Throw(Rest)
     ELSE /\ waits' = waits \cup {running}
          /\ stack' = [stack EXCEPT ![running] = Rest]
          /\ \/ /\ cycles' = cycles + 1
                /\ UNCHANGED <<prog, running, current, ended, astray>>
             \/ Leave("waits")
          /\ UNCHANGED <<entries, ret, memory>>

(* moo_mem_error is fatal: it leaves do_run() at once, which does not reset *)
(* g_current_frame.                                                         *)
CallExhaust ==
  /\ Calling({"exhaust"})
  /\ stack' = [stack EXCEPT ![running] = Rest]
  /\ ended' = [ended EXCEPT ![running] = "fatal"]
  /\ running' = NULL
  /\ UNCHANGED <<prog, current, entries, waits, astray, cycles, ret, memory>>

(* MooSync::do_evaluate.  The mutex is not recursive and nothing releases   *)
(* it: a second evaluation never returns, and with it the only thread.      *)
Held == At("call") /\ Func.op = "sync" /\ lock[running][Func.args[1]]

CallSync ==
  /\ Calling({"sync"}) /\ ~Held
  /\ lock' = [lock EXCEPT ![running][Func.args[1]] = TRUE]
  /\ Continue(Rest)
  /\ UNCHANGED <<ret, scope, array, out>>

(* MooCodeLambda::do_evaluate.  The caller's environment is the parent of   *)
(* the new one; map_args checks the number of arguments after the return    *)
(* point is marked.                                                         *)
CallLambda ==
  /\ Calling({"lambda", "thunk"})
  /\ LET params == IF Func.op = "lambda" THEN 1 ELSE 0
         x      == IF Func.op = "lambda" THEN Actuals[1] ELSE Null
     IN IF Len(Actuals) # params
        THEN Throw(MarkReturnPoint(Rest))
        ELSE /\ scope' = [scope EXCEPT ![running] = Append(@, [parent |-> Top.env, x |-> x])]
             /\ Continue(Append(MarkReturnPoint(Rest),
                                Event("block", Len(scope[running]) + 1, 0, Func.args)))
             /\ UNCHANGED <<ret, array, lock, out>>

-----------------------------------------------------------------------------

Eval ==
  \/ EvalObject \/ EvalName \/ EvalCall \/ EvalMalformed
  \/ EvalDefine \/ EvalUndefine \/ EvalDefined \/ EvalSet
  \/ EvalIf \/ EvalCond \/ EvalAnd \/ EvalOr
  \/ EvalBegin \/ EvalLoop \/ EvalTry \/ EvalIgnore \/ EvalCatch \/ EvalSynchronize

Do ==
  \/ Skip \/ EvalBlock \/ EvalArgs \/ AppendReturn
  \/ Define \/ Set \/ If \/ Cond \/ And \/ Or \/ Loop

Call ==
  \/ CallDebug \/ CallThrow \/ CallReturn \/ CallSleep \/ CallWait \/ CallExhaust \/ CallSync \/ CallLambda

Next ==
  \/ \E f \in Frame : StartRun(f) \/ NestedRun(f) \/ Wake(f)
  \/ EndRun
  \/ Eval \/ Do \/ Call

Spec == Init /\ [][Next]_vars

(* The thread keeps going.                                                  *)
FairSpec == Spec /\ WF_vars(Next)

-----------------------------------------------------------------------------
(* Properties                                                               *)

(* g_current_frame is the frame that runs, however many entries of it are   *)
(* in the queue, and outside a run it is set only by a fatal exception of   *)
(* that very frame: no run is ever refused for another reason.              *)
OneAtATime ==
  /\ running # NULL => current = running
  /\ running = NULL /\ current # NULL => ended[current] = "fatal"

(* However sleeps and the driver's wake-ups add up or cross, a frame that   *)
(* has not begun, sleeps or waits will be run again: it has an entry, or    *)
(* its driver holds it.  (Unless a fatal exception has halted them all.)    *)
Halted == running = NULL /\ current # NULL

NoneForgotten ==
  Halted \/ \A f \in Frame :
    prog[f] # <<>> /\ ended[f] \in {"not yet", "asleep", "waits"} =>
      running = f \/ entries[f] > 0 \/ f \in waits

(* Calls in tail position share a return point: no two of them are ever     *)
(* next to each other, so tail calls do not make the stack grow.            *)
SharedReturnPoints ==
  \A f \in Frame : \A i \in DOMAIN stack[f] :
    i > 1 /\ stack[f][i].kind = "rp" => stack[f][i - 1].kind # "rp"

(* A frame cannot keep the thread: every run ends, unless it evaluates a    *)
(* synchronisation object for the second time.                              *)
RunsEnd == \A f \in Frame : running = f ~> running # f \/ Held

=============================================================================
