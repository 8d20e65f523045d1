-------------------------------- MODULE MCRules --------------------------------
(***************************************************************************)
(* Rules for TLC.  In the part "programs" a rule set is one block, written for  *)
(* the topic @b, whose body is a program of a small language: it is turned into   *)
(* tokens, compiled, validated and run, and what the run does is compared with     *)
(* what the program means.  In the part "sets" rule sets of several blocks are     *)
(* uploaded, accepted or refused, and run by timers and by the topics.            *)
(***************************************************************************)
EXTENDS Rules

VARIABLES part,    \* which of the two; it never changes
          program, \* what the block of the rule set means, in the part "programs"
          before,  \* the variables #... when the run began
          rounds   \* the steps since the compiler or the run began

mcVars == <<topics, rules, globals, locals, run, timers, parsing, sent, txt, new, loadTimer, job,
            rest, compiler, events, uploads, restarts, part, program, before, rounds>>

-----------------------------------------------------------------------------
(* Programs, as trees and as tokens.                                        *)

Num(n)      == [k |-> "num", n |-> n]
Var(x)      == [k |-> "var", x |-> x]
Op(o, l, r) == [k |-> "op", o |-> o, l |-> l, r |-> r]
Fun(f, as)  == [k |-> "fun", f |-> f, as |-> as]
Set(x, e)   == [k |-> "set", x |-> x, e |-> e]
If(ways, otherwise) == [k |-> "if", ways |-> ways, otherwise |-> otherwise]

\* Parentheses where the precedence of the operators asks for them.
Around(tokens) == <<Token("LPAREN")>> \o tokens \o <<Token("RPAREN")>>
RECURSIVE ExprText(_), ArgsText(_), BodyText(_), WaysText(_)
OperandText(e, outer, right) ==
  IF /\ e.k = "op"
     /\ \/ Precedence(e.o) < Precedence(outer)
        \/ Precedence(e.o) = Precedence(outer) /\ right
  THEN Around(ExprText(e)) ELSE ExprText(e)
ArgsText(as) ==
  IF as = <<>> THEN <<>>
  ELSE ExprText(Head(as)) \o (IF Len(as) = 1 THEN <<>> ELSE <<Token("COMMA")>> \o ArgsText(Tail(as)))
ExprText(e) ==
  CASE e.k = "num" -> <<Named("NUM", e.n)>>
    [] e.k = "var" -> <<Named("VAR", e.x)>>
    [] e.k = "op"  -> OperandText(e.l, e.o, FALSE) \o <<Named("OPERATOR", e.o)>>
                      \o OperandText(e.r, e.o, TRUE)
    [] e.k = "fun" -> <<Named(IF e.f \in ToSet(Functions) THEN "FUNCTION" ELSE "EVENT", e.f)>>
                      \o Around(ArgsText(e.as))
WaysText(ways) ==
  IF ways = <<>> THEN <<>>
  ELSE ExprText(ways[1][1]) \o <<Token("THEN")>> \o BodyText(ways[1][2])
       \o (IF Len(ways) = 1 THEN <<>> ELSE <<Token("ELSEIF")>> \o WaysText(Tail(ways)))
StmtText(s) ==
  CASE s.k = "set" -> <<Named("VAR", s.x), Token("ASSIGN")>> \o ExprText(s.e) \o <<Token("SEMICOLON")>>
    [] s.k = "do"  -> ExprText(Fun(s.f, s.as)) \o <<Token("SEMICOLON")>>
    [] s.k = "if"  -> <<Token("IF")>> \o WaysText(s.ways)
                      \o (IF s.otherwise = <<>> THEN <<>> ELSE <<Token("ELSE")>> \o BodyText(s.otherwise))
                      \o <<Token("END")>>
BodyText(stmts) == IF stmts = <<>> THEN <<>> ELSE StmtText(Head(stmts)) \o BodyText(Tail(stmts))
Block(name, stmts) == <<Named("ON", name), Token("THEN")>> \o BodyText(stmts) \o <<Token("END")>>

\* What they mean: NULL in, NULL out, except for isset and coalesce.
RECURSIVE Eval(_, _), Exec(_, _)
Eval(e, env) ==
  CASE e.k = "num" -> <<e.n>>
    [] e.k = "var" -> env[e.x]
    [] e.k = "op"  -> LET x == Eval(e.l, env)
                          y == Eval(e.r, env)
                      IN  IF <<>> \in {x, y} THEN <<>> ELSE <<Result(e.o, x[1], y[1])>>
    [] e.k = "fun" -> LET as == [i \in DOMAIN e.as |-> Eval(e.as[i], env)]
                          set == {as[i][1] : i \in {j \in DOMAIN as : as[j] # <<>>}}
                      IN  CASE e.f = "max"   -> <<Max(set)>>
                            [] e.f = "min"   -> <<Min(set)>>
                            [] e.f = "isset" -> <<Bit(as[1] # <<>>)>>
                            [] e.f = "coalesce" -> IF set = {} THEN <<0>>
                                 ELSE as[Min({i \in DOMAIN as : as[i] # <<>>})]
Holds(e, env) == LET x == Eval(e, env) IN x # <<>> /\ x[1] > 0
Exec(stmts, env) ==
  IF stmts = <<>> THEN env
  ELSE LET s == Head(stmts)
           taken == {i \in DOMAIN s.ways : Holds(s.ways[i][1], env)}
       IN  Exec(Tail(stmts),
                IF s.k = "set" THEN [env EXCEPT ![s.x] = Eval(s.e, env)]
                ELSE Exec(IF taken = {} THEN s.otherwise ELSE s.ways[Min(taken)][2], env))

-----------------------------------------------------------------------------
(* The programs of the part "programs".                                      *)

Ops == {"+", "-", "*", "<", "==", "&&", "||"}
B == Var("@b")
C == Var("@c")
Shapes(o1, o2) ==
  {Op(o2, Op(o1, B, C), Num(1)),                              \* b o1 c o2 1
   Op(o1, B, Op(o2, Num(2), C)),                              \* b o1 (2 o2 c)
   Op(o2, Op(o1, B, Num(1)), Op(o2, C, Num(2)))}
Expressions == UNION {Shapes(o1, o2) : o1 \in Ops, o2 \in Ops}
Conditions  == {Op("<", B, C), Op("&&", Op("<", Num(0), B), Op("==", C, Num(1))),
                Op("||", Op("==", B, C), Op("<", C, Num(1))), Op("<", Op("+", B, C), Num(3))}
Calls == {Fun("max", <<B, C>>), Fun("min", <<Op("+", B, Num(1)), C>>),
          Op("-", Fun("max", <<B, Num(1)>>), Fun("min", <<C, Num(2)>>)),
          Fun("max", <<Fun("min", <<B, C>>), Num(1)>>),
          Op("*", Num(2), Fun("isset", <<Var("#x")>>)), Fun("coalesce", <<Var("#x"), B, Num(2)>>)}
X == Var("#x")
Y == Var("#y")
SetX(n) == <<Set("#x", Num(n))>>
Assignments == {<<Set("#x", e)>> : e \in Expressions \cup Calls}
Branches ==
  UNION {{<<If(<<<<c, SetX(1)>>>>, SetX(2))>>,
          <<If(<<<<c, SetX(1)>>, <<d, SetX(2)>>>>, SetX(3))>>,
          <<If(<<<<c, <<If(<<<<d, SetX(1)>>>>, <<>>), Set("#y", X)>>>>>>, SetX(3))>>,
          <<Set("#y", B), If(<<<<c, <<Set("#x", Op("+", Y, C))>>>>>>, <<>>)>>} :
           c \in Conditions, d \in Conditions}
\* Later runs see what earlier ones left, in the variables and on the heap.
Memories ==
  {<<Set("#y", X), Set("#x", B)>>,
   <<Set("#x", Op("<", X, B)), Set("#y", Op("==", X, Y))>>,
   <<Set("#y", Op("+", X, Num(1))), Set("#x", Op("*", B, C))>>,
   <<If(<<<<Op(">", Op("-", C, X), Num(1)), <<Set("#x", C), Set("#y", X)>>>>>>, <<>>)>>,
   <<Set("@set", Op("-", Num(9), C)), Set("#x", Op("*", C, C))>>,
   <<If(<<<<Op("!=", B, X), <<Set("@set", B), Set("#x", B)>>>>>>, <<Set("@set", Num(0))>>)>>,
   <<If(<<<<Fun("isset", <<Y>>), SetX(1)>>, <<Fun("max", <<C, Num(0)>>), SetX(2)>>>>, SetX(3)), Set("#y", C)>>}
Programs == Assignments \cup Branches \cup Memories

-----------------------------------------------------------------------------
(* Rule sets of several blocks.                                              *)

Do(f, as) == [k |-> "do", f |-> f, as |-> as]
BootBlock(n) == Block("System#Boot", <<Set("#x", Num(n)), Do("setTimer", <<Num(1), Num(5)>>)>>)
TimerBlock1  == Block("timer=1", <<Set("@set", Var("#x")), Do("setTimer", <<Num(2), Var("#x")>>)>>)
SumBlock == <<Named("ON", "sum"), Token("LPAREN"), Named("VAR", "$a"), Token("COMMA"),
              Named("VAR", "$b"), Token("RPAREN"), Token("THEN")>>
            \o BodyText(<<Set("#y", Op("+", Var("$a"), Var("$b")))>>) \o <<Token("END")>>
TopicBlock == Block("@b", <<Do("sum", <<B, Num(2)>>), Set("#x", Num(3))>>)
OwnBlock   == Block("@b", <<Set("#y", Var("$a")), Set("$a", B), Do("away", <<B>>)>>)
\* Refused by the compiler, refused by the run that validates it, and never decided.
Unparsed   == <<Named("ON", "@c"), Token("THEN"), Named("VAR", "#x"), Token("ASSIGN"),
                Named("NUM", 5), Named("OPERATOR", "+"), Named("OPERATOR", "*"), Named("NUM", 3),
                Token("SEMICOLON"), Token("END")>>
Unrunnable == Block("@c", <<Set("#x", Fun("isset", <<Num(1), Num(2)>>))>>)
Undecided  == <<Named("ON", "@c"), Token("THEN"), Named("VAR", "#x"), Token("ASSIGN"),
                Named("NUM", 1), Token("SEMICOLON"), Token("SEMICOLON"), Token("END")>>

Good == {<<BootBlock(1), TimerBlock1, SumBlock, TopicBlock>>, <<OwnBlock, BootBlock(0)>>}
Bad  == {<<BootBlock(2), Unparsed>>, <<BootBlock(2), Unrunnable, SumBlock>>}

-----------------------------------------------------------------------------
(* The instance.                                                            *)

GoodSets     == Good \cup {<<>>}
AllSets      == Good \cup Bad \cup {<<>>}
OwnSet       == {<<OwnBlock>>}
UndecidedSet == {<<OwnBlock, Undecided>>}
\* The values of @b and @c.
Values(b, c) == [x \in {"@b", "@c"} |-> IF x = "@b" THEN <<b>> ELSE <<c>>]
SomeFrames == {Values(0, 1), Values(1, 0), Values(1, 2), Values(2, 1), Values(2, 2)}
Order == <<"@b", "@c">>
BlockOf(nr) == IF nr = 1 THEN "timer=1" ELSE "timer=2"

MCInit ==
  /\ part \in {"programs", "sets"}
  /\ IF part = "sets" THEN program = <<>> /\ Init
     ELSE program \in Programs /\ InitWith(<<Block("@b", program)>>)
  /\ topics = Values(1, 0) /\ before = NoGlobals /\ rounds = 0

\* Programs are neither replaced nor restarted.
Working(c, r) == c.status = "compiling" \/ r.on
MCNext ==
  /\ Next
  /\ part = "programs" => uploads' = 0 /\ restarts' = 0
  /\ part = "sets" => topics' \in {Values(1, 0), Values(2, 1)}
  /\ before' = CASE run'.on /\ ~run.on -> globals
                 [] ~run'.on /\ ~run.on -> NoGlobals
                 [] OTHER -> before
  /\ rounds' = IF Working(compiler, run) /\ Working(compiler', run') THEN rounds + 1 ELSE 0
  /\ UNCHANGED <<part, program>>
MCSpec == MCInit /\ [][MCNext]_mcVars

-----------------------------------------------------------------------------
(* Properties.                                                              *)

\* A program that was accepted does what it says: whatever the topics are and the
\* variables were, a run leaves in the variables what the program assigns to them,
\* run after run on the heap that the run before has used, and the command it sends
\* last is the one of the program (rule_create, rule_run).
Environment ==
  [x \in GlobalNames \cup TopicNames |->
     CASE x \in GlobalNames -> before[x] [] x = "@set" -> <<>> [] OTHER -> topics[x]]
RunsAsWritten ==
  part = "programs" /\ run.r # 0 /\ ~run.on /\ ~run.validate =>
    LET after == Exec(program, Environment)
    IN  /\ ~run.failed
        /\ \A x \in GlobalNames : globals[x] = after[x]
        /\ sent = IF after["@set"] = <<>> THEN NothingSent
                  ELSE [name |-> "@set", value |-> after["@set"]]

\* What the compiler writes fits in the space that was counted beforehand, in one pass
\* over the text that knows nothing of the compiler (rule_prepare; nothing else bounds
\* what vm_heap_push and bc_parent write).
FitsItsSpace ==
  compiler.status \in {"compiling", "done"} =>
    Len(compiler.bc) <= compiler.space.bc /\ Len(compiler.heap) <= compiler.space.heap

\* Both come to an end, the compiler and each run: within MaxRounds steps, more than
\* any of these blocks needs.  The main loop of the firmware waits for them.
MaxRounds == 100
ComesToAnEnd == rounds <= MaxRounds

\* Whatever is uploaded, and whatever happens while it is loaded: a text that was
\* refused never becomes /rules.txt, and the rules that run are those of /rules.txt,
\* unless a crash has disabled them (rules_parse, rules_boot).
Sources == [i \in DOMAIN rules |-> rules[i].source]
OldRulesComeBack ==
  AtRest => txt \notin Bad /\ (Sources = txt \/ (rules = <<>> /\ restarts > 0))

\* No timer of a rule set outlives it: a timer that runs is one that a rule of this set
\* starts.  (Without rules a timer may be left, which finds no block.)
Starts(source, nr) ==
  \E k \in DOMAIN source :
    source[k] = Named("FUNCTION", "setTimer") /\ source[k + 2] = Named("NUM", nr)
TimersAreTheirs ==
  AtRest /\ rules # <<>> => \A nr \in timers : \E i \in DOMAIN rules : Starts(rules[i].source, nr)

\* Rules run with effect exactly when they are not being loaded: no block that is
\* validated sends a command, and no command of a block that runs is swallowed.
CommandsAreHeard == run.on => (run.validate <=> parsing)

\* A run ends in the block it began with, and leaves no block behind that would go on
\* in a caller that is not there (the ctx of a rule: ret and cont).
ReturnsHome ==
  run.r # 0 /\ ~run.on /\ ~run.failed =>
    run.r = run.home /\ \A i \in DOMAIN rules : rules[i].ret = 0

\* A block that is accepted is compiled in its space, ends, and does what it says.
BlocksDoWhatTheySay == FitsItsSpace /\ ComesToAnEnd /\ RunsAsWritten

\* A rule set replaces the one before as a whole or not at all: text, rules, timers, what
\* its runs send and where they return to.
SetsReplaceEachOther == OldRulesComeBack /\ TimersAreTheirs /\ CommandsAreHeard /\ ReturnsHome

\* README.md:72: an invalid rule set is ignored and the old one is loaded again, which
\* needs the compiler to refuse it at some time.
InvalidIsIgnored == compiler.status = "compiling" => rounds <= MaxRounds
=============================================================================
