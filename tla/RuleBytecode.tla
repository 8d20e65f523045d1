------------------------------ MODULE RuleBytecode ------------------------------
(***************************************************************************)
(* The bytecode of a rule while it is built (rules/rules.cpp): the values it   *)
(* needs, the order of the operators of an expression, and the slots of the    *)
(* temporary values, which are numbered while an expression is parsed and get   *)
(* their place among the values when the rule is complete.                    *)
(*                                                                         *)
(* An instruction is [op, a, b, c, g]: a is where the result goes, b and c the  *)
(* operands; g > 0 marks what stands in parentheses or is a call, which the     *)
(* reordering leaves alone (the code alternates two marks, of which it only      *)
(* asks whether there is one).  A value is at -i when it is the i-th of the      *)
(* heap, and a positive number is a temporary without a slot.  Instructions are   *)
(* counted from 1, 0 stands for none.                                         *)
(***************************************************************************)
EXTENDS RuleTokens

Instruction(op, a, b, c) == [op |-> op, a |-> a, b |-> b, c |-> c, g |-> 0]
IsMath(op) == op \in {"==", "!=", "+", "-", "*", "%", "&&", "||", "/", ">=", "<=", "<", ">", "^"}
From(first, last) == [i \in 1 .. last - first + 1 |-> first + i - 1]

Group(bc, first, last) ==
  [k \in DOMAIN bc |-> IF k \in first + 1 .. last THEN [bc[k] EXCEPT !.g = 1] ELSE bc[k]]

-----------------------------------------------------------------------------
(* The heap: a sequence of [k |-> "int" or "null", v, g].                     *)

Bits == 16777216
Signed(n) == LET m == n % Bits IN IF m >= Bits \div 2 THEN m - Bits ELSE m
IntValue(n) == [k |-> "int", v |-> Signed(n), g |-> 0]
NullValue(g) == [k |-> "null", v |-> 0, g |-> g]
Nulls(heap) == {i \in DOMAIN heap : heap[i].k = "null"}

\* The place of a number is shared by all its occurrences ...
HeapNumber(heap, n) ==
  LET at == {i \in DOMAIN heap : heap[i].k = "int" /\ heap[i].v = Signed(n)}
  IN  IF at # {} THEN [heap |-> heap, at |-> -Min(at)]
      ELSE [heap |-> Append(heap, IntValue(n)), at |-> -(Len(heap) + 1)]
\* ... and so is the one of NULL, for which any empty place will do.
HeapNull(heap) ==
  IF Nulls(heap) # {} THEN [heap |-> heap, at |-> -Min(Nulls(heap))]
  ELSE [heap |-> Append(heap, NullValue(1)), at |-> -(Len(heap) + 1)]
\* A temporary gets the first empty place after skip others, or a new one.
HeapNext(heap, skip) ==
  LET at == {i \in Nulls(heap) : heap[i].g = 0 /\ Cardinality(Nulls(heap) \cap 1 .. i - 1) >= skip}
  IN  IF at # {} THEN [heap |-> heap, at |-> -Min(at)]
      ELSE [heap |-> Append(heap, NullValue(0)), at |-> -(Len(heap) + 1)]

\* vm_val_pos: the place of an operand, whatever its sign says.
Place(x) == IF x < 0 THEN -x ELSE IF x = 0 THEN 1 ELSE x
IsNull(heap, x) == Place(x) \in Nulls(heap)

-----------------------------------------------------------------------------
(* The order of operators.                                                  *)

\* The nearest instruction before at whose result is a temporary a.
FindMathDep(bc, at, a) ==
  LET deps == {k \in 1 .. at - 1 : bc[k].a = a}
  IN  IF a < 0 \/ deps = {} THEN 0 ELSE Max(deps)

\* Where the first instruction of the expression stands: the last one with result 1.
Limit(bc, limit) ==
  LET ones == {k \in 2 .. Len(bc) : bc[k].a = 1} IN IF ones = {} THEN limit ELSE Max(ones)

\* Two neighbours change places; results stay, and their uses follow.
Swapped(bc, i, limit) ==
  LET x == bc[i]
      y == bc[i + 1]
      Use(u) == IF u = x.a THEN y.a ELSE IF u = y.a THEN x.a ELSE u
      new == [bc EXCEPT ![i] = [y EXCEPT !.a = x.a], ![i + 1] = [x EXCEPT !.a = y.a]]
  IN  [k \in DOMAIN bc |->
        IF k < limit \/ new[k].op \in {"GETVAL", "CALL"} THEN new[k]
        ELSE [new[k] EXCEPT !.b = Use(@), !.c = Use(@)]]
Moved(bc, from, to, limit) ==
  FoldLeft(LAMBDA code, i : Swapped(code, i, limit), bc, From(from, to - 1))

\* A variable that an earlier operator already uses is read before that operator.
ReadEarlier(bc, n, limit, Uses(_, _)) ==
  LET users == {k \in limit .. n - 1 : bc[k].op \notin {"GETVAL", "CALL"} /\ Uses(bc[k], bc[n].a)}
  IN  IF bc[n].a < 0 \/ users = {} THEN [bc |-> bc, at |-> 0]
      ELSE [bc |-> Moved(bc, Max(users), n, limit), at |-> n]

\* The operand at dep moves up to the operator n, when it is not the result of a call.
PulledUp(bc, dep, n, limit) ==
  LET moves == (IsMath(bc[dep].op) \/ bc[dep].op = "GETVAL") /\ dep + 1 >= limit
  IN  [bc |-> IF moves THEN Moved(bc, dep, n - 1, limit) ELSE bc,
       swaps |-> moves /\ dep < n - 1, at |-> IF moves THEN n ELSE dep]
Depth(x) == (IF x.b >= 0 THEN 1 ELSE 0) + (IF x.c >= 0 THEN 1 ELSE 0)
\* Whether it does so: in both cases the left operand has to be the shallower one.
Before(bc, dep, other, left, right) ==
  \/ other = 0
  \/ bc[dep].op = "GETVAL"
  \/ Depth(bc[left]) < Depth(bc[right])

\* One instruction of bc_math_move_closest; s.b is its tmp1B, which it does not reset
\* before it is asked for the right operand.
MoveRead(s, n, limit) ==
  LET right == IF s.bc[n].op # "GETVAL" THEN s
               ELSE LET r == ReadEarlier(s.bc, n, limit, LAMBDA x, a : x.c = a)
                    IN  [bc |-> r.bc, b |-> r.at]
  IN  IF right.bc[n].op # "GETVAL" THEN right
      ELSE LET r == ReadEarlier(right.bc, n, limit, LAMBDA x, a : x.b = a)
           IN  [bc |-> r.bc, b |-> r.at]
MoveRight(s, n, limit) ==
  LET x == s.bc[n]
      dep == FindMathDep(s.bc, n, x.c)
      other == FindMathDep(s.bc, n, x.b)
      p == PulledUp(s.bc, dep, n, limit)
  IN  IF ~IsMath(x.op) \/ dep = 0 \/ s.b < limit THEN s
      ELSE IF ~Before(s.bc, dep, other, other, dep) THEN [s EXCEPT !.b = other]
      ELSE [bc |-> p.bc, b |-> IF p.swaps THEN 0 ELSE other]
MoveLeft(s, n, limit) ==
  LET x == s.bc[n]
      dep == FindMathDep(s.bc, n, x.b)
      other == FindMathDep(s.bc, n, x.c)
      p == PulledUp(s.bc, dep, n, limit)
  IN  IF ~IsMath(x.op) THEN s
      ELSE IF dep < limit \/ ~Before(s.bc, dep, other, dep, other)
      THEN [s EXCEPT !.b = dep]
      ELSE [bc |-> p.bc, b |-> p.at]
MoveClosest(bc, limit) ==
  FoldLeft(LAMBDA s, n : MoveLeft(MoveRight(MoveRead(s, n, limit), n, limit), n, limit),
           [bc |-> bc, b |-> 0],
           Reverse(From(limit + 1, Len(bc)))).bc

\* The operator at k takes the right operand of the one it depends on, at dep.
Rotated(bc, k, dep) ==
  LET x == bc[k]
      z == bc[dep]
  IN  [bc EXCEPT ![k] = [x EXCEPT !.op = z.op, !.b = z.b, !.c = z.a, !.g = z.g],
                 ![dep] = [z EXCEPT !.op = x.op, !.b = z.c, !.c = x.c, !.g = x.g]]
\* Mutant of Binds: among equals the last one is done first.
LastFirst(op, other) == Precedence(op) >= Precedence(other)
Binds(op, other) ==
  Precedence(op) > Precedence(other) \/ (Precedence(op) = Precedence(other) /\ FromTheRight(op))

RECURSIVE RotateLeft(_, _, _)
RotateLeft(bc, k, limit) ==
  IF k - 1 < limit THEN bc
  ELSE IF bc[k].op = "GETVAL" THEN RotateLeft(bc, k - 1, limit)
  ELSE LET dep == FindMathDep(bc, k, bc[k].b) IN
    IF dep = 0 THEN bc
    ELSE IF ~(IsMath(bc[k].op) /\ IsMath(bc[dep].op)) THEN RotateLeft(bc, k - 1, limit)
    ELSE IF bc[dep].g # 0 \/ ~Binds(bc[k].op, bc[dep].op) THEN bc
    ELSE RotateLeft(MoveClosest(Rotated(bc, k, dep), limit), dep, limit)

RECURSIVE RotateRight(_, _, _)
RotateRight(bc, k, limit) ==
  IF k - 1 < limit THEN bc
  ELSE IF ~IsMath(bc[k].op) \/ ~FromTheRight(bc[k].op) THEN RotateRight(bc, k - 1, limit)
  ELSE LET dep == FindMathDep(bc, k, bc[k].b) IN
    IF dep = 0 \/ bc[dep].g # 0 THEN RotateRight(bc, k - 1, limit)
    ELSE IF bc[dep].op = "GETVAL" THEN bc
    ELSE RotateRight(MoveClosest(Rotated(bc, k, dep), limit), k, limit)

\* The operator that was added last takes its place among those before it.
Ordered(bc, in, limit) ==
  LET x == bc[Len(bc)] IN
  IF in = 0 \/ ~IsMath(bc[in].op) \/ bc[in].g # 0 \/ ~Binds(x.op, bc[in].op) THEN bc
  ELSE IF FromTheRight(x.op) THEN RotateRight(bc, Len(bc), limit)
  ELSE RotateLeft(bc, Len(bc), limit)

-----------------------------------------------------------------------------
(* The slots of the temporaries: bc_assign_slots.                            *)

IsText(x) == x.op = "PUSH" /\ x.c = 1
HasResult(x) == x.op \notin {"SETVAL", "CLEAR"} /\ ~IsText(x)

\* The next instructions that share temporaries.
RangeStart(bc, from) ==
  LET at == {k \in from .. Len(bc) : bc[k].a > 0 /\ bc[k].op \notin {"JMP", "SETVAL"}}
  IN  IF at = {} THEN 0 ELSE Min(at)
EndsBefore(bc, k) ==
  \/ k > 2 /\ bc[k].op = "SETVAL" /\ bc[k - 1].op = "CLEAR"
  \/ bc[k].a < 0 /\ bc[k].op # "PUSH"
  \/ bc[k].op \in {"JMP", "TEST", "RET"}
EndsAt(bc, k) ==
  /\ bc[k].op = "SETVAL"
  /\ \/ k < Len(bc) /\ bc[k + 1].op \in {"SETVAL", "GETVAL"}
     \/ bc[k - 1].op = "GETVAL"
RangeStop(bc, start) ==
  LET at == {k \in start + 1 .. Len(bc) : EndsBefore(bc, k) \/ EndsAt(bc, k)}
  IN  IF at = {} THEN 0 ELSE Min(at)
RangeMax(bc, start, stop) ==
  Max({IF IsText(bc[start]) THEN 1 ELSE bc[start].a}
        \cup {bc[k].a : k \in {j \in start + 1 .. stop :
                                 bc[j].op \notin {"JMP", "SETVAL"} /\ ~IsText(bc[j])}})

\* First the temporaries are numbered again, downwards, so that a slot is used twice.
Lower(s, k, c, d) ==
  LET z == s.bc[c]
      vars == s.vars
      z1 == IF HasResult(z) /\ z.a = d THEN [z EXCEPT !.a = vars] ELSE z
      uses == z.op \notin {"GETVAL", "CALL", "CLEAR", "PUSH"}
      z2 == IF uses /\ z1.b = d THEN [z1 EXCEPT !.b = vars] ELSE z1
      clash == z2.b = vars
      new == IF clash THEN vars - 1 ELSE vars
      z3 == [z2 EXCEPT !.c = new, !.a = IF clash /\ @ = vars /\ HasResult(z) THEN vars - 1 ELSE @]
      bc3 == [s.bc EXCEPT ![c] = z3]
  IN  IF ~(uses /\ z2.c = d) THEN [s EXCEPT !.bc = [@ EXCEPT ![c] = z2]]
      ELSE [bc |-> IF clash /\ s.bc[k].op \notin {"CLEAR", "SETVAL"}
                   /\ ~(s.bc[k].op = "PUSH" /\ d = 1)
                   THEN [bc3 EXCEPT ![k].a = new] ELSE bc3,
            vars |-> new, min |-> IF new < s.min THEN new ELSE s.min]
Renumbered(s, k, stop) ==
  LET x == s.bc[k]
      d == x.a
      next == IF x.op = "CALL" /\ k > 1 /\ s.bc[k - 1].op = "PUSH" /\ s.bc[k - 1].a >= s.min
              THEN s.vars
              ELSE IF x.op # "GETVAL" /\ (x.b >= s.vars \/ x.c >= s.vars) THEN Max({x.b, x.c})
              ELSE s.vars - 1
      t == [bc |-> IF HasResult(x) THEN [s.bc EXCEPT ![k].a = next] ELSE s.bc,
            vars |-> next, min |-> IF next < s.min THEN next ELSE s.min]
  IN  IF \/ x.op = "PUSH" /\ (d < 0 \/ d >= s.min)
         \/ x.op = "CALL" /\ d = 0
         \/ x.op = "SETVAL"
      THEN s
      ELSE FoldLeft(LAMBDA r, c : Lower(r, k, c, d), t, From(k + 1, stop))

\* Then each number gets the place of an empty value.
Given(bc, start, stop, d, e) ==
  [k \in DOMAIN bc |->
    IF k \notin start .. stop THEN bc[k]
    ELSE LET z == bc[k] IN
      [z EXCEPT !.a = IF HasResult(z) /\ @ = d THEN e ELSE @,
                !.b = IF z.op \notin {"GETVAL", "CALL", "CLEAR", "PUSH"} /\ @ = d THEN e ELSE @,
                !.c = IF z.op \notin {"SETVAL", "GETVAL", "CALL", "CLEAR", "PUSH"} /\ @ = d
                      THEN e ELSE @]]
Placed(s, k, start, stop, min) ==
  LET x == s.bc[k]
      d == x.a
      call == x.op = "CALL" /\ k < Len(s.bc) /\ s.bc[k + 1].op # "CLEAR"
      kept == /\ ~call /\ x.op # "PUSH" /\ s.first
              /\ IsNull(s.heap, x.b) \/ IsNull(s.heap, x.c)
      skip == s.offset + (IF call \/ kept THEN 1 ELSE 0)
      h == HeapNext(s.heap, skip)
      bc == Given(s.bc, start, stop, d, h.at)
  IN  IF \/ x.op = "PUSH" /\ d < 0
         \/ k = stop /\ x.op = "SETVAL"
         \/ x.op = "CLEAR"
         \/ x.op = "CALL" /\ d = 0
         \/ d < min
      THEN s
      ELSE [bc |-> bc, heap |-> h.heap, first |-> FALSE,
            offset |-> skip + (IF bc # s.bc THEN 1 ELSE 0)]

RenumberRange(bc, start, stop, vars) ==
  FoldLeft(LAMBDA s, k : Renumbered(s, k, stop),
           [bc |-> bc, vars |-> vars, min |-> vars], From(start, stop))
PlaceRange(bc, heap, start, stop, min) ==
  FoldLeft(LAMBDA s, k : Placed(s, k, start, stop, min),
           [bc |-> bc, heap |-> heap, first |-> TRUE, offset |-> 0], From(start, stop))
PlaceRenumbered(r, heap, start, stop) == PlaceRange(r.bc, heap, start, stop, r.min)

RECURSIVE AssignSlots(_, _, _), AssignRange(_, _, _, _), AssignNext(_, _)
AssignNext(p, stop) == AssignSlots(p.bc, p.heap, stop + 1)
AssignRange(bc, heap, start, at) ==
  LET stop == IF EndsBefore(bc, at) THEN at - 1 ELSE at
      r == RenumberRange(bc, start, stop, 2 * RangeMax(bc, start, at))
  IN  AssignNext(PlaceRenumbered(r, heap, start, stop), stop)
AssignSlots(bc, heap, from) ==
  LET start == RangeStart(bc, from)
      at == RangeStop(bc, start)
  IN  IF start = 0 \/ at = 0 THEN [bc |-> bc, heap |-> heap]
      ELSE AssignRange(bc, heap, start, at)
=============================================================================
