------------------------------- MODULE RuleTokens -------------------------------
(***************************************************************************)
(* From the text of one rule block to the tokens that are compiled           *)
(* (rules/rules.cpp): rule_prepare counts, in the same pass, the space that   *)
(* the bytecode and the values will take, and the compiler writes into that   *)
(* space later.  bc_whatfirst and lexer_clear find and replace the innermost  *)
(* parenthesis block.                                                        *)
(*                                                                         *)
(* A token of the text and of the compiler is [t |-> type, v |-> value]: the  *)
(* name of a variable, function, operator or block, a number, or an index     *)
(* into the bytecode.  ON opens a block, EVENT calls one.  Numbers are whole;  *)
(* quoted strings are left out.  Space is counted in instructions and in      *)
(* values, of four bytes each.                                              *)
(***************************************************************************)
EXTENDS Integers, Sequences, SequencesExt, FiniteSetsExt

Token(t)     == [t |-> t, v |-> 0]
Named(t, v)  == [t |-> t, v |-> v]

Precedence(op) == CASE op = "||" -> 10 [] op = "&&" -> 20
                    [] op \in {"==", "!=", ">=", "<=", "<", ">"} -> 30
                    [] op \in {"+", "-"} -> 60 [] op \in {"*", "%", "/"} -> 70 [] op = "^" -> 80
FromTheRight(op) == op = "^"

\* ctx is what the pass is in the middle of; n counts the tokens that are passed.
Unprepared ==
  [ctx |-> "none", test |-> TRUE, clear |-> TRUE, blocks |-> 0, hooks |-> 0, n |-> 0,
   lparen |-> 0, func |-> 0, bc |-> 0, heap |-> 0, out |-> <<>>, done |-> FALSE, ok |-> TRUE]

Emitted(p, token) == [p EXCEPT !.out = Append(@, token), !.n = @ + 1]
Refused(p) == [p EXCEPT !.ok = FALSE, !.done = TRUE]

\* The tokens looked at for an earlier occurrence: all but the last one, and one
\* less for each ELSEIF, which is not counted.
Seen(p, token) == \E i \in 1 .. p.n - 1 : p.out[i].t = token.t /\ p.out[i].v = token.v

PrepareNumber(p, token) ==
  IF p.ctx = "ON" THEN Refused(p)
  ELSE [Emitted(p, token) EXCEPT !.heap = @ + (IF Seen(p, token) THEN 0 ELSE 1)]

PrepareIf(p, token) ==
  [Emitted(p, token) EXCEPT !.bc = @ + 1, !.test = TRUE, !.ctx = "IF", !.blocks = @ + 1]

PrepareElseIf(p, token) == [p EXCEPT !.out = Append(@, token), !.bc = @ + 2, !.test = TRUE]

PrepareOn(p, token) ==
  IF p.ctx \in {"ON", "THEN"} THEN Refused(p)
  ELSE [Emitted(p, [token EXCEPT !.t = "EVENT"]) EXCEPT
          !.test = FALSE, !.ctx = "ON", !.blocks = @ + 1]

PrepareElse(p, token) == [Emitted(p, token) EXCEPT !.bc = @ + 1]

\* A condition without operator or call gets an instruction that tests it.
PrepareThen(p, token) ==
  [Emitted(p, token) EXCEPT !.bc = @ + (IF p.test THEN 1 ELSE 0), !.test = FALSE, !.ctx = "THEN"]

PrepareEnd(p, token) == [Emitted(p, token) EXCEPT !.blocks = @ - 1]

PrepareNull(p, token) == [Emitted(p, token) EXCEPT !.heap = @ + 1]

PrepareComma(p, token) ==
  [Emitted(p, token) EXCEPT !.heap = @ + 1, !.bc = @ + (IF p.ctx = "ON" THEN 0 ELSE 1)]

\* Parentheses around one character are dropped, except those of a call.
OneCharacter(source, i) ==
  /\ i + 2 <= Len(source) /\ source[i + 2].t = "RPAREN"
  /\ source[i + 1].t = "NUM" /\ source[i + 1].v \in 0 .. 9
PrepareOpen(source, p, i) ==
  LET q == IF OneCharacter(source, i) /\ p.func # i THEN [p EXCEPT !.lparen = 0]
           ELSE [Emitted(p, source[i]) EXCEPT !.lparen = i]
  IN  [q EXCEPT !.hooks = @ + 1]

PrepareClose(source, p, i) ==
  LET q == IF p.lparen > 0 /\ (i - p.lparen >= 2 \/ p.lparen = p.func)
           THEN Emitted(p, source[i]) ELSE p
  IN  IF p.hooks = 0 THEN Refused(p) ELSE [q EXCEPT !.hooks = @ - 1]

PrepareAssign(p, token) == [Emitted(p, token) EXCEPT !.ctx = "ASSIGN", !.clear = FALSE]

PrepareSemicolon(p, token) ==
  [Emitted(p, token) EXCEPT !.bc = @ + (IF p.clear THEN 1 ELSE 0), !.ctx = "SEMICOLON",
                            !.clear = TRUE]

PrepareFunction(p, token, i) ==
  LET q == [Emitted(p, token) EXCEPT !.heap = @ + 1, !.bc = @ + 2, !.func = i + 1]
  IN  IF p.ctx = "ASSIGN" THEN q ELSE [q EXCEPT !.ctx = "FUNCTION", !.clear = TRUE]

\* Mutant of PrepareOperator: its instruction is not counted.
NoInstruction(p, token) == [Emitted(p, token) EXCEPT !.test = FALSE, !.heap = @ + 1]
PrepareOperator(p, token) ==
  [Emitted(p, token) EXCEPT !.test = FALSE, !.bc = @ + 1, !.heap = @ + 1]

PrepareVariable(p, token) ==
  LET seen == Seen(p, token)
  IN  [Emitted(p, token) EXCEPT
         !.bc = @ + (IF p.ctx = "none" THEN 0 ELSE 1),
         !.heap = @ + (IF seen /\ p.ctx # "IF" THEN 0 ELSE 1),
         !.clear = @ /\ p.ctx \notin (IF seen THEN {"ASSIGN", "SEMICOLON", "THEN"}
                                      ELSE {"IF", "ASSIGN", "ON"})]

PrepareCall(source, p, i) ==
  LET empty == /\ i + 2 <= Len(source)
               /\ source[i + 1].t = "LPAREN" /\ source[i + 2].t = "RPAREN"
      q == [Emitted(p, source[i]) EXCEPT !.test = FALSE, !.heap = @ + 1,
                                         !.bc = @ + (IF empty THEN 1 ELSE 2), !.func = i + 1]
  IN  IF p.ctx = "ASSIGN" THEN q ELSE [q EXCEPT !.ctx = "EVENT", !.clear = TRUE]

PrepareToken(source, p, i) ==
  LET token == source[i] IN
  CASE token.t = "NUM"       -> PrepareNumber(p, token)
    [] token.t = "IF"        -> PrepareIf(p, token)
    [] token.t = "ELSEIF"    -> PrepareElseIf(p, token)
    [] token.t = "ON"        -> PrepareOn(p, token)
    [] token.t = "ELSE"      -> PrepareElse(p, token)
    [] token.t = "THEN"      -> PrepareThen(p, token)
    [] token.t = "END"       -> PrepareEnd(p, token)
    [] token.t = "NULL"      -> PrepareNull(p, token)
    [] token.t = "COMMA"     -> PrepareComma(p, token)
    [] token.t = "LPAREN"    -> PrepareOpen(source, p, i)
    [] token.t = "RPAREN"    -> PrepareClose(source, p, i)
    [] token.t = "ASSIGN"    -> PrepareAssign(p, token)
    [] token.t = "SEMICOLON" -> PrepareSemicolon(p, token)
    [] token.t = "FUNCTION"  -> PrepareFunction(p, token, i)
    [] token.t = "OPERATOR"  -> PrepareOperator(p, token)
    [] token.t = "VAR"       -> PrepareVariable(p, token)
    [] token.t = "EVENT"     -> PrepareCall(source, p, i)
    [] OTHER                 -> Refused(p)      \* unknown token

\* The end of the outermost block, or of the text, ends the rule.
PrepareEnded(p) ==
  IF p.hooks > 0 THEN Refused(p)
  ELSE [Emitted(p, Token("EOF")) EXCEPT !.bc = @ + 1, !.done = TRUE]

RulePrepare(source) ==
  LET Step(p, i) == IF p.done THEN p
                    ELSE LET q == PrepareToken(source, p, i)
                         IN  IF q.ok /\ q.blocks = 0 THEN PrepareEnded(q) ELSE q
      p == FoldLeft(Step, Unprepared, [i \in 1 .. Len(source) |-> i])
  IN  IF p.done THEN p ELSE PrepareEnded(p)

-----------------------------------------------------------------------------
(* The tokens of a rule that is compiled are counted from 0.                 *)

TypeAt(text, pos) == IF pos \in 0 .. Len(text) - 1 THEN text[pos + 1].t ELSE "none"
ValueAt(text, pos) == text[pos + 1].v

\* The nearest token before pos, not the first of the rule, that has one of the types.
NearestBefore(text, pos, types) ==
  LET at == {k \in 1 .. pos - 1 : TypeAt(text, k) \in types}
  IN  IF at = {} THEN "none" ELSE TypeAt(text, Max(at))

\* The opening of the last parenthesis block that starts before the first ")", or
\* the call it belongs to; 0 when there is none before the token.
WhatFirst(text, pos, token) ==
  LET stops == {k \in pos .. Len(text) - 1 : TypeAt(text, k) \in {"EOF", token, "RPAREN"}}
      opens == {k \in pos .. Min(stops) : TypeAt(text, k) = "LPAREN"}
      paren == IF stops = {} \/ opens = {} THEN 0 ELSE Max(opens)
  IN  IF paren > 0 /\ TypeAt(text, paren - 1) \in {"FUNCTION", "EVENT"} THEN paren - 1 ELSE paren

\* What is compiled gives way to a pointer to its last instruction.
LexerClear(text, first, last, instruction) ==
  IF instruction = 0 THEN <<>>
  ELSE SubSeq(text, 1, first) \o <<Named("VPTR", instruction)>>
         \o SubSeq(text, last + 2, Len(text))
=============================================================================
