------------------------------ MODULE RuleCompiler ------------------------------
(***************************************************************************)
(* rule_create (rules/rules.cpp): the compiler of a rule block.  It is a      *)
(* machine of its own, whose state names the kind of token it is about to     *)
(* handle (go) and the kind it comes from (ret); each step below is one case    *)
(* of its loop.  What stands in the innermost parentheses is compiled first,     *)
(* is replaced by a pointer, and the machine starts again at the token it had     *)
(* reached (rewind).                                                        *)
(*                                                                         *)
(* go and ret have the name of a token, "VALUE" for the code that is shared     *)
(* by numbers and variables, and ret is "NUMBER" after a single value.         *)
(***************************************************************************)
EXTENDS RuleBytecode

None == -1
Numbers == {"NULL", "NUM"}

Peek(c, k) == TypeAt(c.text, k)
Reject(c) == [c EXCEPT !.status = "rejected"]
Emit(c, op, a, b, flag) == [c EXCEPT !.bc = Append(@, Instruction(op, a, b, flag))]
To(c, go, ret) == [c EXCEPT !.go = go, !.ret = ret]
Skip(c, k) == [c EXCEPT !.pos = @ + k]

\* The numbers of the names of a rule set, in the order they are met; from 0.
NameAt(c, name) == (CHOOSE i \in DOMAIN c.names : c.names[i] = name) - 1
AddNames(names, text) ==
  FoldLeft(LAMBDA s, token : IF \/ token.t \notin {"VAR", "EVENT"}
                                \/ \E i \in DOMAIN s : s[i] = token.v
                             THEN s ELSE Append(s, token.v), names, text)

\* Functions are numbered too, as they stand in the table of functions.
Functions == <<"max", "min", "coalesce", "round", "ceil", "floor", "concat", "print", "setTimer",
               "isset", "gpio">>
FunctionAt(name) == (CHOOSE i \in DOMAIN Functions : Functions[i] = name) - 1

Prepared(names, p, first) ==
  [go |-> first, ret |-> "none", pos |-> 0, child |-> None, rewind |-> None, paren |-> 0,
   depth |-> 1, cnt |-> 0, val |-> 0, text |-> p.out, bc |-> <<>>, heap |-> <<>>,
   names |-> AddNames(names, p.out), space |-> [bc |-> p.bc, heap |-> p.heap],
   status |-> IF p.ok /\ first \in {"IF", "EVENT"} THEN "compiling" ELSE "rejected"]
StartRule(names, source) ==
  LET p == RulePrepare(source) IN Prepared(names, p, TypeAt(p.out, 0))

-----------------------------------------------------------------------------
(* Jumps: an open one has distance 0 and the depth of its block in b.         *)

OpenJumps(c) == {k \in 2 .. Len(c.bc) : c.bc[k].op = "JMP" /\ c.bc[k].b = c.depth}
CloseLast(c) ==
  LET k == Max(OpenJumps(c))
  IN  IF OpenJumps(c) = {} THEN c
      ELSE [c EXCEPT !.bc[k].a = Len(c.bc) - k + 2, !.bc[k].b = 0]
\* Mutant of CloseAll: the block ends and its jumps stay open.
LeftOpen(c) == c
CloseAll(c) ==
  [c EXCEPT !.bc = [k \in DOMAIN @ |-> IF k \in OpenJumps(c)
                                       THEN [@[k] EXCEPT !.a = Len(c.bc) - k + 1, !.b = 0]
                                       ELSE @[k]]]

ThenStep(c) ==
  LET elseif == c.go = "THEN" /\ NearestBefore(c.text, c.pos, {"IF", "ELSEIF"}) = "ELSEIF"
      closed == [(IF elseif THEN c ELSE CloseLast(c)) EXCEPT !.cnt = 0]
      d == IF c.ret = "EVENT" THEN closed ELSE Emit(closed, "JMP", 0, c.depth, 0)
      type == Peek(c, c.pos)
  IN  CASE type = "ELSEIF" /\ c.go # "THEN"             -> To(d, "IF", "IF")
        [] type \in {"EVENT", "FUNCTION", "IF", "VAR"}  -> To(d, type, c.go)
        [] OTHER                                        -> Reject(d)

EndStep(c) ==
  LET d == CloseAll(Skip(c, 1))
      type == Peek(d, d.pos)
      e == [To(d, type, "IF") EXCEPT !.depth = @ - 1]
  IN  CASE Peek(c, c.pos) # "END" -> Reject(c)
        [] type = "ELSE" -> Skip(e, 1)
        [] type \in {"END", "EOF", "IF", "VAR", "FUNCTION", "EVENT", "ELSEIF"} -> e
        [] OTHER -> Reject(d)

\* The rule is complete: the temporaries get their slots.
WithSlots(c, slots) == [c EXCEPT !.bc = slots.bc, !.heap = slots.heap, !.status = "done"]
FinishStep(c) ==
  WithSlots(c, AssignSlots(Append(c.bc, Instruction("RET", 0, 0, 0)), c.heap, 1))

-----------------------------------------------------------------------------
(* Values and expressions.                                                  *)

Returns(c) == c.ret \in {"NUMBER", "OPERATOR"}
ChildType(c) == IF c.child = None THEN "none" ELSE Peek(c, c.child)
IsArgument(c) == ChildType(c) = "FUNCTION" \/ (ChildType(c) = "EVENT" /\ c.child > 0)

\* The closing parenthesis, reached with the value in it.
CloseValue(c) ==
  LET d == IF Returns(c) /\ IsArgument(c) THEN Emit(c, "PUSH", c.val, 0, 0) ELSE c
  IN  CASE ChildType(c) = "none"   -> Reject(c)
        [] ChildType(c) = "LPAREN" -> To(d, "RPAREN", "LPAREN")
        [] OTHER                   -> To(d, ChildType(c), c.go)

\* A variable is read into a new temporary, a number has its place.
GetVariable(c, name) ==
  LET d == [c EXCEPT !.cnt = @ + 1] IN [Emit(d, "GETVAL", d.cnt, NameAt(c, name), 0) EXCEPT !.val = d.cnt]
GetNumber(c, token) ==
  LET h == IF token.t = "NULL" THEN HeapNull(c.heap) ELSE HeapNumber(c.heap, token.v)
  IN  [c EXCEPT !.heap = h.heap, !.val = h.at]

\* An assignment ends an expression, unless it only copies a variable.
SetVariable(c, name, val) ==
  LET d == Emit(c, "SETVAL", NameAt(c, name), val, 0)
  IN  IF Len(c.bc) > 0 /\ c.bc[Len(c.bc)].op # "GETVAL" THEN [d EXCEPT !.cnt = 0] ELSE d

SingleValue(c) ==
  LET token == c.text[c.pos + 1]
      b == To(c, c.ret, "NUMBER")
      d == IF ChildType(c) = "EVENT" /\ c.child = 0 THEN SetVariable(b, token.v, 0)
           ELSE IF token.t = "VAR" THEN GetVariable(b, token.v)
           ELSE GetNumber(b, token)
  IN  IF \/ ChildType(c) = "EVENT" /\ c.child = 0 /\ token.t # "VAR"
         \/ Peek(c, c.pos + 1) \notin {"COMMA", "SEMICOLON", "THEN", "RPAREN"}
      THEN Reject(c) ELSE Skip(d, 1)

ValueStep(c) ==
  CASE Peek(c, c.pos + 1) = "OPERATOR" -> To(c, "OPERATOR", "NUM")
    [] Peek(c, c.pos) = "RPAREN"       -> CloseValue(c)
    [] Peek(c, c.pos) \in {"VAR"} \cup Numbers -> SingleValue(c)
    [] OTHER                           -> Reject(c)
\* TVAR_AS_VALUE
VariableAsValue(c, ret) == ValueStep(To(c, "VAR", ret))

\* An operand of an expression; in is the instruction it comes from, if any.
Operand(c) ==
  LET token == c.text[c.pos + 1]
      d == CASE token.t = "VPTR" -> [c EXCEPT !.val = c.bc[token.v].a]
             [] token.t = "VAR"  -> GetVariable(c, token.v)
             [] OTHER            -> GetNumber(c, token)
  IN  [c |-> Skip(d, 1),
       in |-> CASE token.t = "VPTR" -> token.v [] token.t = "VAR" -> Len(d.bc) [] OTHER -> 0]
IsOperand(c) == Peek(c, c.pos) \in {"VPTR", "VAR"} \cup Numbers

MaxTemporaries == 63
AddOperator(c, op, left, right) == Emit([c EXCEPT !.cnt = @ + 1], op, c.cnt + 1, left, right)
InOrder(c, in, lim) == [c EXCEPT !.bc = Ordered(@, in, lim), !.val = c.cnt]
RECURSIVE ParseOperators(_, _, _, _), ParseMore(_, _, _)
ParseMore(c, in, lim) ==
  LET d == InOrder(c, in, lim)
  IN  IF c.cnt > MaxTemporaries THEN Reject(c) ELSE ParseOperators(d, Len(d.bc), Len(d.bc), lim)
ParseOperators(c, in, at, limit) ==
  LET right == Operand(Skip(c, 1)).c
      d == AddOperator(right, ValueAt(c.text, c.pos), c.val, right.val)
  IN  IF Peek(c, c.pos) # "OPERATOR" THEN [c EXCEPT !.val = at]
      ELSE IF ~IsOperand(Skip(c, 1)) THEN Reject(c)
      ELSE ParseMore(d, in, Limit(d.bc, limit))

\* The result is the one of the instruction that was added last.
OperatorStep(c) ==
  LET left == Operand(c)
      d == ParseOperators(left.c, left.in, 1, 1)
  IN  IF ~IsOperand(c) \/ d.status = "rejected" THEN Reject(c)
      ELSE To([d EXCEPT !.val = IF Len(d.bc) = 0 THEN 0 ELSE d.bc[d.val].a], c.ret, "OPERATOR")

-----------------------------------------------------------------------------
(* Conditions and statements.                                               *)

\* Into the parentheses, or the call, at child; back to the token at pos afterwards.
Enter(c, child, ret) ==
  [To([c EXCEPT !.child = child, !.pos = child], Peek(c, child), ret) EXCEPT !.rewind = c.pos]

\* A statement that is a call, or a value, is over: its result is dropped.
DropResult(c) ==
  LET d == Emit(c, "CLEAR", 0, 0, 0) IN [Skip(d, 1) EXCEPT !.bc[Len(c.bc)].a = 0]
StatementEnd(c) ==
  LET d == To(DropResult(c), Peek(c, c.pos + 1), "IF")
  IN  IF Len(c.bc) = 0 THEN Reject(c)
      ELSE CASE d.go = "ELSE" -> Skip(d, 1)
             [] d.go \in {"ELSEIF", "IF", "EVENT", "FUNCTION", "LPAREN", "END"} -> [d EXCEPT !.cnt = 0]
             [] d.go = "VAR"  -> d
             [] OTHER         -> Reject(d)

\* A condition that is a single value is tested.
InCondition(c) ==
  LET at == {k \in 0 .. c.pos - 1 : Peek(c, k) \in {"THEN", "ELSE", "ELSEIF", "IF"}}
  IN  at # {} /\ Peek(c, Max(at)) \in {"IF", "ELSEIF"}
Tested(c) ==
  IF c.ret \in {"FUNCTION", "NUMBER"} /\ InCondition(c) THEN Emit(c, "TEST", c.val, 0, 0) ELSE c

Condition(c) ==
  LET type == Peek(c, c.pos + 1)
      d == Skip(c, 1)
  IN  CASE type = "VPTR" /\ c.bc[ValueAt(c.text, c.pos + 1)].op = "CALL" ->
             To(Skip(c, 2), "IF", "FUNCTION")
        [] type = "VPTR" -> IF Peek(c, c.pos + 2) = "THEN" THEN To(Skip(c, 3), "THEN", c.go)
                            ELSE Reject(c)
        [] type = "VAR"  -> VariableAsValue(d, "IF")
        [] type \in Numbers -> To(d, "NUM", "IF")
        [] type \in {"THEN", "ASSIGN", "EOF", "END", "OPERATOR"} -> c
        [] OTHER -> Reject(c)

\* IF is also where the machine looks what follows a condition or a statement.
IfStep(c) ==
  LET type == Peek(c, c.pos)
      d == [c EXCEPT !.depth = @ + (IF NearestBefore(c.text, c.pos, {"IF", "END", "THEN"}) = "IF"
                                    THEN 1 ELSE 0),
                     !.paren = IF type = "SEMICOLON" THEN @ ELSE Len(c.bc)]
      child == IF type = "SEMICOLON" THEN 0 ELSE WhatFirst(c.text, c.pos, "THEN")
      t == Tested(d)
  IN  CASE type \notin {"ELSEIF", "END", "IF", "SEMICOLON", "THEN", "FUNCTION", "VAR"} -> Reject(d)
        [] child > 0 -> IF Peek(c, child) \in {"FUNCTION", "LPAREN"} THEN Enter(d, child, "IF")
                        ELSE Reject(d)
        [] child = 0 /\ Peek(c, c.pos + 2) = "OPERATOR" -> Condition(Skip(To(d, "OPERATOR", "IF"), 1))
        [] OTHER -> CASE type = "SEMICOLON"         -> StatementEnd(t)
                      [] type = "VAR"               -> To(t, "VAR", "IF")
                      [] type = "FUNCTION"          -> [To(t, type, "IF") EXCEPT !.rewind = c.pos]
                      [] type = "THEN"              -> To(Skip(t, 1), "THEN", c.go)
                      [] type \in {"IF", "ELSEIF"}  -> Condition(t)
                      [] OTHER                      -> Reject(t)

\* The name of the block comes first; a call of another block has what follows it here.
EventStep(c) ==
  LET type == Peek(c, c.pos)
      next == Peek(c, 1)
  IN  IF c.pos = 0
      THEN CASE next = "LPAREN" -> [Skip(To(c, "FUNCTION", "EVENT"), 1) EXCEPT !.child = 0,
                                                                              !.rewind = 0]
             [] next \in {"EVENT", "THEN", "END"} -> Skip(To(c, "THEN", "EVENT"), 2)
             [] OTHER -> Reject(c)
      ELSE CASE type \in {"LPAREN", "RPAREN", "COMMA", "END", "EVENT", "OPERATOR", "THEN"} ->
                  To(c, "FUNCTION", "EVENT")
             [] type = "SEMICOLON" -> To(c, "IF", "EVENT")
             [] OTHER -> Reject(c)

\* From the parenthesis block, or the call, at child when there is one.
AssignFrom(c, child, type, before) ==
  [c EXCEPT !.paren = Len(c.bc), !.child = IF child > 0 THEN child ELSE @,
            !.pos = IF child > 0 THEN child ELSE IF before THEN @ + 1 ELSE @,
            !.go = IF child > 0 THEN type ELSE @]
AssignValue(c, d, type) ==
  CASE type = "ASSIGN"    -> Skip(d, 1)
    [] type = "FUNCTION"  -> [Skip(To(d, type, d.go), 1) EXCEPT !.rewind = c.pos]
    [] type = "SEMICOLON" -> To(d, "VAR", d.go)
    [] type = "VPTR"      -> Skip(To(d, "VAR", "ASSIGN"), 1)
    [] type = "LPAREN"    -> [d EXCEPT !.rewind = c.pos]
    [] type = "VAR"       -> VariableAsValue(d, d.go)
    [] type \in Numbers \cup {"OPERATOR"} -> To(d, type, d.go)
    [] OTHER              -> Reject(d)
AssignStep(c) ==
  LET child == WhatFirst(c.text, c.pos, "SEMICOLON")
      before == child = 0 /\ Peek(c, c.pos + 1) # "LPAREN" /\ Peek(c, c.pos + 2) = "OPERATOR"
      type == CASE child > 0 -> Peek(c, child)
                [] before -> "OPERATOR"
                [] Peek(c, c.pos + 1) = "LPAREN" -> "LPAREN"
                [] OTHER -> Peek(c, c.pos)
  IN  AssignValue(c, AssignFrom(c, child, type, before), type)

\* The semicolon after an assignment: to the variable before the last "=".
AssignEnd(c) ==
  LET assigns == {k \in 1 .. c.pos : Peek(c, k) = "ASSIGN"}
      to == Max(assigns) - 1
      d == Skip(SetVariable(c, ValueAt(c.text, to), c.val), 1)
      type == Peek(d, d.pos)
  IN  IF assigns = {} \/ Peek(c, to) # "VAR" \/ type = "none" THEN Reject(c)
      ELSE To(IF type = "ELSE" THEN Skip(d, 1) ELSE d, type, c.go)
VarStep(c) ==
  LET type == Peek(c, c.pos)
  IN  CASE type = "VAR"       -> Skip(c, 1)
        [] type = "ASSIGN"    -> To(c, "ASSIGN", "VAR")
        [] type = "SEMICOLON" -> AssignEnd(c)
        [] OTHER              -> Reject(c)

-----------------------------------------------------------------------------
(* Calls and parentheses.                                                   *)

FunctionStart(c) ==
  LET child == WhatFirst(c.text, c.pos, "SEMICOLON")
  IN  IF child = 0 THEN Reject(c)
      ELSE [To(c, Peek(c, child), "FUNCTION") EXCEPT
              !.rewind = IF @ = None THEN c.pos ELSE @, !.paren = Len(c.bc),
              !.child = child, !.pos = child + 1]
FunctionEnd(c) ==
  LET d == [c EXCEPT !.cnt = @ + 1]
      call == IF ChildType(c) = "FUNCTION"
              THEN [Emit(d, "CALL", d.cnt, FunctionAt(ValueAt(c.text, c.child)), 0) EXCEPT !.val = d.cnt]
              ELSE Emit(d, "CALL", d.cnt, NameAt(c, ValueAt(c.text, c.child)), 1)
  IN  CASE c.child = None -> Reject(c)
        [] c.child = 0    -> To(c, "RPAREN", "FUNCTION")
        [] OTHER          -> To(call, "RPAREN", "FUNCTION")
FunctionStep(c) ==
  LET type == Peek(c, c.pos)
  IN  CASE type \in {"EVENT", "FUNCTION"} -> FunctionStart(c)
        [] type = "RPAREN"    -> FunctionEnd(c)
        [] type = "SEMICOLON" -> To(c, "VAR", "FUNCTION")
        [] type = "LPAREN"    -> To(c, "LPAREN", "FUNCTION")
        [] type = "COMMA"     -> To(Skip(c, 1), "LPAREN", "FUNCTION")
        [] OTHER              -> Reject(c)

CloseStep(c) ==
  LET d == [c EXCEPT !.text = LexerClear(c.text, c.child, c.pos, Len(c.bc)),
                     !.bc = Group(c.bc, c.paren, Len(c.bc)),
                     !.pos = c.rewind, !.rewind = None, !.child = None]
      type == Peek(d, d.pos)
  IN  CASE \/ c.child = None
           \/ Peek(c, c.pos + 1) \notin {"COMMA", "SEMICOLON", "OPERATOR", "RPAREN", "THEN"} -> Reject(c)
        [] type = "ELSEIF" -> To(d, "IF", c.go)
        [] type \in {"ASSIGN", "EVENT", "FUNCTION", "IF", "VAR", "VPTR"} -> To(d, type, c.go)
        [] OTHER -> Reject(c)

PointerStep(c) ==
  LET type == IF c.child = None THEN Peek(c, 0) ELSE Peek(c, c.child)
      call == c.bc[ValueAt(c.text, c.pos)].op = "CALL"
  IN  CASE type \notin {"LPAREN", "EVENT", "FUNCTION", "IF", "VPTR"} -> Reject(c)
        [] type = "VPTR" /\ c.child = None -> To(Skip(c, IF c.pos = 0 THEN 2 ELSE 1), "IF", "LPAREN")
        [] type \in {"FUNCTION", "EVENT"}  -> To(Skip(c, 1), type, "LPAREN")
        [] OTHER -> To(Skip(c, 1), type, IF call THEN "FUNCTION" ELSE "LPAREN")

Push(c, val) == Emit(c, "PUSH", val, 0, 0)
ParenStep(c) ==
  LET operator == Peek(c, c.pos + 2) = "OPERATOR" /\ Peek(c, c.pos + 1) # "RPAREN"
      type == Peek(c, c.pos)
      argument == (c.ret = "NUMBER" /\ IsArgument(c)) \/ c.ret = "OPERATOR"
      pointer == c.ret = "FUNCTION" /\ ChildType(c) \in {"FUNCTION", "EVENT"}
  IN  CASE operator -> To(Skip(IF type = "COMMA" THEN Push(c, c.val) ELSE c, 1), "OPERATOR", "LPAREN")
        [] type = "RPAREN"     -> CloseValue(c)
        [] type = "VAR"        -> VariableAsValue(c, c.go)
        [] type = "LPAREN"     -> IF Peek(c, c.pos + 1) \in {"none", "THEN"} THEN Reject(c) ELSE Skip(c, 1)
        [] type \in Numbers    -> To(c, type, "LPAREN")
        [] type = "COMMA"      -> IF c.ret = "NUMBER" /\ c.child = None THEN Reject(c)
                                  ELSE To(IF argument THEN Push(c, c.val) ELSE c, "FUNCTION", "LPAREN")
        [] type = "VPTR"       -> IF c.ret = "FUNCTION" /\ c.child = None THEN Reject(c)
                                  ELSE To(IF pointer THEN Push(c, c.bc[ValueAt(c.text, c.pos)].a) ELSE c,
                                          "VPTR", "LPAREN")
        [] OTHER               -> Reject(c)

\* One round of the loop.  A token without a case leaves everything as it is.
CompileStep(c) ==
  CASE c.go \in {"THEN", "ELSE", "ELSEIF"} -> ThenStep(c)
    [] c.go = "EVENT"            -> EventStep(c)
    [] c.go = "IF"               -> IfStep(c)
    [] c.go \in Numbers          -> ValueStep(c)
    [] c.go = "ASSIGN"           -> AssignStep(c)
    [] c.go = "VAR"              -> VarStep(c)
    [] c.go = "FUNCTION"         -> FunctionStep(c)
    [] c.go = "OPERATOR"         -> OperatorStep(c)
    [] c.go = "RPAREN"           -> CloseStep(c)
    [] c.go = "VPTR"             -> PointerStep(c)
    [] c.go = "LPAREN"           -> ParenStep(c)
    [] c.go \in {"END", "EOF"}   -> IF Peek(c, c.pos) = "EOF" THEN FinishStep(c) ELSE EndStep(c)
    [] OTHER                     -> c
=============================================================================
