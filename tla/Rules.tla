--------------------------------- MODULE Rules ---------------------------------
(***************************************************************************)
(* How rules are loaded and when they run (HeishaMon/rules.cpp and timer -4     *)
(* of HeishaMon.ino).  The text that was uploaded is /rules.new; a timer loads    *)
(* it, block by block: compiled, then run once to see that it can be run.  When  *)
(* a block is refused the rules of /rules.txt are loaded again, otherwise the     *)
(* new text becomes /rules.txt.  Then the block System#Boot runs.  A timer, or a  *)
(* topic whose value has changed, runs the block of its name; the main loop does  *)
(* nothing else until the block has ended.                                     *)
(*                                                                         *)
(* A file is a sequence of blocks, <<>> when it is empty or does not exist.       *)
(***************************************************************************)
EXTENDS RuleMachine

CONSTANTS Texts,         \* what is uploaded,
          Installed,     \* and what was in /rules.txt before
          Frames,        \* the values the topics can have
          TopicOrder,    \* the topics in the order their changes are published
          TimerBlock(_), \* the name of the block that a timer runs
          MaxUploads, MaxRestarts \* bounds

VARIABLES txt, new,      \* /rules.txt and /rules.new
          loadTimer,     \* timer -4 runs
          job,           \* the file that is being loaded, "boot" after it, or "none"
          rest,          \* the blocks of it that are still to come
          compiler,      \* what rule_create works on
          events,        \* the topics whose change is still to be told
          uploads, restarts

loading == <<txt, new, loadTimer, job, rest, compiler, events, uploads, restarts>>

NoCompiler(names) == [status |-> "idle", names |-> names]
AtRest == job = "none" /\ run = NotRunning /\ events = <<>>

InitWith(installed) ==
  /\ topics \in Frames /\ txt = installed /\ new = <<>>
  /\ rules = <<>> /\ globals = NoGlobals /\ locals = <<>> /\ run = NotRunning
  /\ timers = {} /\ sent = NothingSent
  /\ loadTimer = FALSE /\ events = <<>> /\ uploads = 0 /\ restarts = 0
  /\ job = (IF txt = <<>> THEN "boot" ELSE "txt") /\ parsing = (txt # <<>>)
  /\ rest = txt /\ compiler = NoCompiler(<<>>)
Init == \E text \in Installed : InitWith(text)

-----------------------------------------------------------------------------
(* Loading: rules_parse.                                                    *)

Upload ==
  /\ AtRest /\ ~loadTimer /\ uploads < MaxUploads
  /\ new' \in Texts /\ loadTimer' = TRUE /\ uploads' = uploads + 1
  /\ UNCHANGED <<topics, rules, globals, locals, run, timers, parsing, sent, txt, job, rest,
                 compiler, events, restarts>>

\* What was loaded is released first, then the blocks come one by one.
Begin(file, text) ==
  /\ job' = file /\ rest' = text /\ parsing' = TRUE
  /\ rules' = <<>> /\ locals' = <<>> /\ globals' = NoGlobals /\ run' = NotRunning
  /\ compiler' = NoCompiler(<<>>)

\* An empty file deletes the rules; the timers and the variables are left alone.
LoadNew ==
  /\ AtRest /\ loadTimer
  /\ loadTimer' = FALSE
  /\ IF new = <<>>
     THEN /\ txt' = <<>> /\ rules' = <<>> /\ locals' = <<>> /\ job' = "boot"
          /\ UNCHANGED <<globals, run, parsing, rest, compiler>>
     ELSE Begin("new", new) /\ UNCHANGED txt
  /\ UNCHANGED <<topics, timers, sent, new, events, uploads, restarts>>

Loading == job \in {"new", "txt"} /\ ~run.on /\ ~run.failed
NextBlock ==
  /\ Loading /\ rest # <<>> /\ compiler.status = "idle"
  /\ compiler' = StartRule(compiler.names, Head(rest))
  /\ UNCHANGED <<topics, rules, globals, locals, run, timers, parsing, sent, txt, new, loadTimer,
                 job, rest, events, uploads, restarts>>
CompileRound ==
  /\ Loading /\ compiler.status = "compiling"
  /\ compiler' = CompileStep(compiler)
  /\ UNCHANGED <<topics, rules, globals, locals, run, timers, parsing, sent, txt, new, loadTimer,
                 job, rest, events, uploads, restarts>>

\* A block that is compiled is run once; the blocks after it find it.
NameOf(source) == IF source[1].t = "ON" THEN source[1].v ELSE "none"
Validate ==
  /\ Loading /\ compiler.status = "done"
  /\ rules' = Append(rules, [name |-> NameOf(Head(rest)), source |-> Head(rest),
                             bc |-> compiler.bc, heap |-> InitialHeap(compiler.heap),
                             ret |-> 0, cont |-> 0])
  /\ locals' = Append(locals, NoLocals)
  /\ run' = Started(Len(rules) + 1, TRUE)
  /\ rest' = Tail(rest)
  /\ compiler' = NoCompiler(compiler.names)
  /\ UNCHANGED <<topics, globals, timers, parsing, sent, txt, new, loadTimer, job, events, uploads,
                 restarts>>

\* Mutants of Loaded: it keeps the timers that run, or goes on as if it were loading.
KeepsTimers ==
  /\ Loading /\ rest = <<>> /\ compiler.status = "idle"
  /\ globals' = NoGlobals /\ run' = NotRunning /\ parsing' = FALSE /\ job' = "boot"
  /\ txt' = IF job = "new" THEN new ELSE txt
  /\ new' = IF job = "new" THEN <<>> ELSE new
  /\ UNCHANGED <<topics, rules, locals, timers, sent, loadTimer, rest, compiler, events, uploads,
                 restarts>>
StillLoading ==
  /\ Loading /\ rest = <<>> /\ compiler.status = "idle"
  /\ timers' = {} /\ globals' = NoGlobals /\ run' = NotRunning /\ job' = "boot"
  /\ txt' = IF job = "new" THEN new ELSE txt
  /\ new' = IF job = "new" THEN <<>> ELSE new
  /\ UNCHANGED <<topics, rules, locals, parsing, sent, loadTimer, rest, compiler, events, uploads,
                 restarts>>

\* All timers and all variables of the rules are cleared, whatever comes of it.
Loaded ==
  /\ Loading /\ rest = <<>> /\ compiler.status = "idle"
  /\ timers' = {} /\ globals' = NoGlobals /\ run' = NotRunning
  /\ parsing' = FALSE /\ job' = "boot"
  /\ txt' = IF job = "new" THEN new ELSE txt
  /\ new' = IF job = "new" THEN <<>> ELSE new
  /\ UNCHANGED <<topics, rules, locals, sent, loadTimer, rest, compiler, events, uploads, restarts>>
\* Mutant of Refuse: the old rules are not loaded again.
NoWayBack ==
  /\ job \in {"new", "txt"} /\ ~run.on
  /\ compiler.status = "rejected" \/ run.failed
  /\ timers' = {} /\ job' = "boot" /\ rest' = <<>> /\ rules' = <<>> /\ locals' = <<>>
  /\ run' = NotRunning /\ globals' = NoGlobals /\ compiler' = NoCompiler(<<>>)
  /\ UNCHANGED <<topics, parsing, sent, txt, new, loadTimer, events, uploads, restarts>>
Refuse ==
  /\ job \in {"new", "txt"} /\ ~run.on
  /\ compiler.status = "rejected" \/ run.failed
  /\ timers' = {}
  /\ IF job = "new" /\ txt # <<>>
     THEN Begin("txt", txt)
     ELSE /\ job' = "boot" /\ rest' = <<>> /\ rules' = <<>> /\ locals' = <<>> /\ run' = NotRunning
          /\ globals' = NoGlobals /\ compiler' = NoCompiler(<<>>) /\ UNCHANGED parsing
  /\ UNCHANGED <<topics, sent, txt, new, loadTimer, events, uploads, restarts>>

-----------------------------------------------------------------------------
(* Running.                                                                 *)

RunBlock(name) ==
  LET found == RuleByName(name)
  IN  /\ run' = IF found = {} THEN run ELSE Started(Min(found), FALSE)
      /\ sent' = NothingSent

Boot ==
  /\ job = "boot" /\ job' = "none"
  /\ RunBlock("System#Boot")
  /\ UNCHANGED <<topics, rules, globals, locals, timers, parsing, txt, new, loadTimer, rest,
                 compiler, events, uploads, restarts>>
TimerCalls(nr) ==
  /\ AtRest /\ nr \in timers
  /\ timers' = timers \ {nr} /\ RunBlock(TimerBlock(nr))
  /\ UNCHANGED <<topics, rules, globals, locals, parsing, loading>>

\* A frame of the heat pump: its values are stored before the first change is told.
Frame ==
  /\ AtRest
  /\ topics' \in Frames /\ topics' # topics
  /\ events' = SelectSeq(TopicOrder, LAMBDA name : topics'[name] # topics[name])
  /\ UNCHANGED <<rules, globals, locals, run, timers, parsing, sent, txt, new, loadTimer, job, rest,
                 compiler, uploads, restarts>>
Event ==
  /\ job = "none" /\ run = NotRunning /\ events # <<>>
  /\ RunBlock(Head(events)) /\ events' = Tail(events)
  /\ UNCHANGED <<topics, rules, globals, locals, timers, parsing, txt, new, loadTimer, job,
                 rest, compiler, uploads, restarts>>

\* The variables of the rules end with the run, when it succeeds.
RunEnds ==
  /\ run.r # 0 /\ ~run.on /\ ~run.validate
  /\ locals' = IF run.failed THEN locals ELSE [i \in DOMAIN rules |-> NoLocals]
  /\ run' = NotRunning /\ sent' = NothingSent
  /\ UNCHANGED <<topics, rules, globals, timers, parsing, loading>>

Execute == MachineStep(compiler.names) /\ UNCHANGED <<parsing, loading>>

\* Everything but the files is lost; after a crash the rules are not loaded.
Restart(crash) ==
  /\ restarts < MaxRestarts /\ restarts' = restarts + 1
  /\ rules' = <<>> /\ globals' = NoGlobals /\ locals' = <<>> /\ run' = NotRunning
  /\ timers' = {} /\ loadTimer' = FALSE /\ events' = <<>> /\ compiler' = NoCompiler(<<>>)
  /\ job' = (IF crash THEN "none" ELSE IF txt = <<>> THEN "boot" ELSE "txt")
  /\ parsing' = (~crash /\ txt # <<>>) /\ rest' = (IF crash THEN <<>> ELSE txt)
  /\ UNCHANGED <<topics, sent, txt, new, uploads>>

Next ==
  \/ Upload \/ LoadNew \/ NextBlock \/ CompileRound \/ Validate \/ Loaded \/ Refuse
  \/ Boot \/ (\E nr \in timers : TimerCalls(nr)) \/ Frame \/ Event \/ RunEnds \/ Execute
  \/ \E crash \in BOOLEAN : Restart(crash)

rulesVars == <<topics, rules, globals, locals, run, timers, parsing, sent, loading>>

Spec == Init /\ [][Next]_rulesVars
=============================================================================
