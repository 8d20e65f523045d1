------------------------------ MODULE RuleMachine ------------------------------
(***************************************************************************)
(* rule_run (rules/rules.cpp): the machine that executes the bytecode of a     *)
(* rule, one instruction per action, with the callbacks of HeishaMon/rules.cpp  *)
(* that read and write variables and find the block that is called, and the    *)
(* functions max, min, coalesce, isset and setTimer (0 seconds stop a timer).    *)
(*                                                                         *)
(* A value is <<>> (NULL) or <<n>>.  The machine has one register, the flag t    *)
(* that the last comparison left; the heap of a rule keeps its constants and     *)
(* its temporaries from one run to the next.  While rules are loaded (parsing)   *)
(* each is run once, with every branch taken, and no command is sent.            *)
(***************************************************************************)
EXTENDS RuleCompiler

CONSTANTS GlobalNames,   \* the names of the variables #... that the rules use,
          LocalNames,    \* those of the variables $..., and
          TopicNames     \* the topics @... : values of the heat pump, and commands

VARIABLES topics,    \* the value of each topic, as the decoder has it
          rules,     \* the rules that are loaded, in the order of the file
          globals,   \* the variables of all rules
          locals,    \* for each rule its own variables
          run,       \* the machine
          timers,    \* the numbers of the rule timers that run
          parsing,   \* rules are being loaded
          sent       \* the last command of the present run

NotRunning == [on |-> FALSE, failed |-> FALSE, r |-> 0, pos |-> 1, t |-> 0, stack |-> <<>>,
               validate |-> FALSE, home |-> 0]
NothingSent == [name |-> "none", value |-> <<>>]
NoGlobals == [x \in GlobalNames |-> <<>>]
NoLocals  == [x \in LocalNames |-> <<>>]

\* The heap as the compiler leaves it.
InitialHeap(heap) == [i \in DOMAIN heap |-> IF heap[i].k = "null" THEN <<>> ELSE <<heap[i].v>>]

-----------------------------------------------------------------------------
(* Values.                                                                  *)

IsComparison(op) == op \in {"==", "!=", ">=", "<=", "<", ">", "&&", "||"}
Truth(op, x, y) ==
  CASE op = "==" -> x = y       [] op = "!=" -> x # y
    [] op = ">=" -> x >= y      [] op = "<=" -> x <= y
    [] op = "<"  -> x < y       [] op = ">"  -> x > y
    [] op = "&&" -> x > 0 /\ y > 0
    [] op = "||" -> x > 0 \/ y > 0
Bit(b) == IF b THEN 1 ELSE 0
Result(op, x, y) ==
  CASE op = "+" -> Signed(x + y) [] op = "-" -> Signed(x - y) [] op = "*" -> Signed(x * y)
    [] OTHER -> Bit(Truth(op, x, y))

\* vm_value_get; a variable that was never assigned is NULL.
ValueOf(name, r) ==
  CASE name \in GlobalNames -> globals[name]
    [] name \in LocalNames  -> locals[r][name]
    [] name \in TopicNames  -> topics[name]

\* The functions take the whole stack, the last argument first; a NULL counts as the
\* argument after it, or 0.
Largest(stack, Better(_, _)) ==
  FoldRight(LAMBDA value, s :
              LET y == IF value = <<>> THEN s.y ELSE value[1]
              IN  [y |-> y, x |-> IF s.first \/ Better(y, s.x) THEN y ELSE s.x, first |-> FALSE],
            stack, [y |-> 0, x |-> 0, first |-> TRUE]).x
Coalesce(stack) ==
  LET at == {i \in DOMAIN stack : stack[i] # <<>>} IN IF at = {} THEN 0 ELSE stack[Min(at)][1]
Called(name, stack) ==
  LET To1(n) == [ok |-> TRUE, stack |-> <<<<n>>>>]
      Fail == [ok |-> FALSE, stack |-> <<>>]
  IN  CASE name = "max"      -> To1(Largest(stack, LAMBDA y, x : y > x))
        [] name = "min"      -> To1(Largest(stack, LAMBDA y, x : y < x))
        [] name = "coalesce" -> To1(Coalesce(stack))
        [] name = "isset"    -> IF Len(stack) # 1 THEN Fail ELSE To1(Bit(stack[1] # <<>>))
        [] name = "setTimer" -> IF Len(stack) # 2 \/ <<>> \in {stack[1], stack[2]} THEN Fail
                                ELSE [ok |-> TRUE, stack |-> <<stack[1]>>]

-----------------------------------------------------------------------------
(* Instructions.                                                            *)

Now(op) == run.on /\ rules[run.r].bc[run.pos].op = op
Here == rules[run.r].bc[run.pos]
OnHeap(x) == rules[run.r].heap[Place(x)]
ToHeap(x, value) == rules' = [rules EXCEPT ![run.r].heap[Place(x)] = value]
NextInstruction == run' = [run EXCEPT !.pos = @ + 1]

\* A comparison sets the flag; with NULL the result is NULL and the flag stays.
StepMath ==
  /\ run.on /\ IsMath(Here.op)
  /\ LET x == OnHeap(Here.b)
         y == OnHeap(Here.c)
         value == IF <<>> \in {x, y} THEN <<>> ELSE <<Result(Here.op, x[1], y[1])>>
     IN  /\ ToHeap(Here.a, value)
         /\ run' = [run EXCEPT !.pos = @ + 1,
                               !.t = IF IsComparison(Here.op) /\ value # <<>> THEN value[1] ELSE @]
  /\ UNCHANGED <<globals, locals, timers, sent>>

StepJump ==
  /\ Now("JMP")
  /\ run' = [run EXCEPT !.pos = @ + (IF run.t = 1 \/ run.validate THEN 1 ELSE Here.a), !.t = 0]
  /\ UNCHANGED <<rules, globals, locals, timers, sent>>

StepTest ==
  /\ Now("TEST")
  /\ LET x == OnHeap(Here.a)
     IN  run' = [run EXCEPT !.pos = @ + 1, !.t = IF x = <<>> THEN 0 ELSE Bit(x[1] > 0)]
  /\ UNCHANGED <<rules, globals, locals, timers, sent>>

StepGet(names) ==
  /\ Now("GETVAL")
  /\ ToHeap(Here.a, ValueOf(names[Here.b + 1], run.r))
  /\ NextInstruction
  /\ UNCHANGED <<globals, locals, timers, sent>>

\* From the heap, or the next argument of the block; vm_value_set, which makes a
\* command of a topic unless rules are being loaded.
StepSet(names) ==
  /\ Now("SETVAL")
  /\ LET name == names[Here.a + 1]
         value == CASE Here.b < 0          -> OnHeap(Here.b)
                    [] run.stack = <<>>    -> <<>>
                    [] OTHER               -> Head(run.stack)
     IN  /\ globals' = IF name \in GlobalNames THEN [globals EXCEPT ![name] = value] ELSE globals
         /\ locals' = IF name \in LocalNames THEN [locals EXCEPT ![run.r][name] = value] ELSE locals
         /\ sent' = IF name \in TopicNames /\ ~parsing THEN [name |-> name, value |-> value] ELSE sent
         /\ run' = [run EXCEPT !.pos = @ + 1,
                      !.stack = IF Here.b < 0 \/ @ = <<>> THEN <<>> ELSE Tail(@)]
  /\ UNCHANGED <<rules, timers>>

StepPush ==
  /\ Now("PUSH")
  /\ run' = [run EXCEPT !.pos = @ + 1, !.stack = Append(@, OnHeap(Here.a))]
  /\ UNCHANGED <<rules, globals, locals, timers, sent>>

StepClear ==
  /\ Now("CLEAR")
  /\ run' = [run EXCEPT !.pos = @ + 1, !.stack = <<>>]
  /\ UNCHANGED <<rules, globals, locals, timers, sent>>

\* The result stays on the stack when its place is the first of the heap.
StepFunction ==
  /\ Now("CALL") /\ Here.c = 0
  /\ LET f == Called(Functions[Here.b + 1], run.stack)
         taken == Len(f.stack) = 1 /\ Place(Here.a) # 1
     IN  IF f.ok
         THEN /\ IF taken THEN ToHeap(Here.a, f.stack[1]) ELSE UNCHANGED rules
              /\ run' = [run EXCEPT !.pos = @ + 1, !.stack = IF taken THEN <<>> ELSE f.stack]
              /\ timers' = IF Functions[Here.b + 1] # "setTimer" THEN timers
                           ELSE IF run.stack[2][1] = 0 THEN timers \ {run.stack[1][1]}
                           ELSE timers \cup {run.stack[1][1]}
         ELSE /\ run' = [run EXCEPT !.on = FALSE, !.failed = TRUE]
              /\ UNCHANGED <<rules, timers>>
  /\ UNCHANGED <<globals, locals, sent>>

RuleByName(name) == {i \in DOMAIN rules : rules[i].name = name}

\* event_cb: the block that is called knows its caller, which knows where to go on.
StepCall(names) ==
  /\ Now("CALL") /\ Here.c = 1
  /\ LET found == RuleByName(names[Here.b + 1])
         callee == Min(found)
     IN  IF found = {}
         THEN /\ run' = [run EXCEPT !.pos = @ + 1, !.stack = <<>>]
              /\ UNCHANGED rules
         ELSE /\ rules' = [rules EXCEPT ![callee].ret = run.r, ![run.r].cont = run.pos + 1]
              /\ run' = [run EXCEPT !.r = callee, !.pos = 1]
  /\ UNCHANGED <<globals, locals, timers, sent>>

\* Mutant of StepReturn: the block that was called remembers its caller.
StaysCalled ==
  /\ Now("RET")
  /\ LET caller == rules[run.r].ret
     IN  run' = IF caller # 0 THEN [run EXCEPT !.r = caller, !.pos = rules[caller].cont]
                ELSE [run EXCEPT !.on = FALSE]
  /\ UNCHANGED <<rules, globals, locals, timers, sent>>
StepReturn ==
  /\ Now("RET")
  /\ LET caller == rules[run.r].ret
     IN  IF caller # 0
         THEN /\ run' = [run EXCEPT !.r = caller, !.pos = rules[caller].cont]
              /\ rules' = [rules EXCEPT ![run.r].ret = 0]
         ELSE /\ run' = [run EXCEPT !.on = FALSE]
              /\ rules' = [rules EXCEPT ![run.r].cont = 0]
  /\ UNCHANGED <<globals, locals, timers, sent>>

MachineStep(names) ==
  /\ \/ StepMath \/ StepJump \/ StepTest \/ StepGet(names) \/ StepSet(names)
     \/ StepPush \/ StepClear \/ StepFunction \/ StepCall(names) \/ StepReturn
  /\ UNCHANGED topics

\* rule_run starts with an empty stack; home is the rule it is asked to run.
Started(r, validate) ==
  [NotRunning EXCEPT !.on = TRUE, !.r = r, !.home = r, !.validate = validate]
=============================================================================
