----------------------------- MODULE Esp8266Link -----------------------------
(***************************************************************************)
(* The serial link to the heat pump on the ESP8266 (HeishaMon.ino): one      *)
(* thread, which in every pass of loop() reads, lets commands through, takes *)
(* one from the buffer, and sends its own requests.  What is sent while an   *)
(* answer is awaited goes to the buffer.                                     *)
(*                                                                         *)
(* Time passes between any two of these, as a pass may be held up.  An       *)
(* answer is a first part, which holds the header, and a last part; both may  *)
(* be garbled or lost.  When the requests of the program itself are due is    *)
(* left open.  The listen-only mode, in which nothing is written, and the     *)
(* saving of the PCB state are left out.                                     *)
(***************************************************************************)
EXTENDS Integers, Sequences

CONSTANTS
  MAXCOMMANDSINBUFFER, SERIALTIMEOUT,
  MaxUnanswered,  \* requests the heat pump keeps
  MaxCommands     \* bound of the model

VARIABLES
  place,    \* where loop() is
  line,     \* the flag, the buffer, what has been read, and the heat pump
  commands  \* how many have been asked for

linkVars == <<place, line, commands>>

\* Requests are numbers, those of the program itself from 0 down.
Query == 0
Extra == -1
Pcb   == -2
Slots == 0 .. MAXCOMMANDSINBUFFER - 1

\* `rx` has arrived and is not read; `wire` requests are not answered, of one of them `half`.
\* History: `waiting` is what was accepted and is not written; `late`, a request was given up
\* while its answer was still to be read; `early`, one was written before that.
LinkInit ==
  /\ place = "callbacks" /\ commands = 0
  /\ line = [sending |-> FALSE, readAge |-> 0, data |-> <<>>, rx |-> <<>>, wire |-> 0,
             half |-> FALSE, buffer |-> [i \in Slots |-> Query], cmdstart |-> 0, cmdend |-> 0,
             cmdnrel |-> 0, waiting |-> <<>>, late |-> FALSE, early |-> FALSE]

-----------------------------------------------------------------------------
(* Sending.                                                                 *)

Next1(slot) == (slot + 1) % MAXCOMMANDSINBUFFER
GivenUp(l) == l.readAge > SERIALTIMEOUT

Written(l) ==
  [l EXCEPT !.sending = TRUE, !.readAge = 0,
            !.wire = IF @ < MaxUnanswered THEN @ + 1 ELSE @,
            !.late = @ \/ (GivenUp(l) /\ (l.wire > 0 \/ l.rx # <<>>)),
            !.early = @ \/ (~GivenUp(l) /\ l.wire > 0)]

\* Variant: a full buffer takes one more.
PushedOver(l, request) ==
  [l EXCEPT !.buffer[l.cmdend] = request, !.cmdend = Next1(@), !.cmdnrel = @ + 1,
            !.waiting = Append(@, request)]

pushCommandBuffer(l, request) ==
  IF l.cmdnrel + 1 > MAXCOMMANDSINBUFFER THEN l
  ELSE [l EXCEPT !.buffer[l.cmdend] = request, !.cmdend = Next1(@), !.cmdnrel = @ + 1,
                 !.waiting = Append(@, request)]

send_command(l, request) ==
  IF l.sending THEN pushCommandBuffer(l, request) ELSE Written(l)

\* The flag is down when it is called; what is left in a free slot does not matter.
popCommandBuffer(l) ==
  [Written(l) EXCEPT !.buffer[l.cmdstart] = Query, !.cmdstart = Next1(@), !.cmdnrel = @ - 1,
                     !.waiting = Tail(@)]

-----------------------------------------------------------------------------
(* Reading.                                                                 *)

\* Variant: anything that is thrown away counts as the answer.
AnythingAnswers(l) ==
  LET d == l.data \o l.rx
  IN  IF d = <<"first">> THEN [l EXCEPT !.rx = <<>>, !.data = d]
      ELSE [l EXCEPT !.rx = <<>>, !.data = <<>>, !.sending = FALSE]

\* Complete as long as the header says, whatever it holds; a wrong header, and more than it
\* says, is thrown away and still waited for.
readSerial(l) ==
  LET d == l.data \o l.rx
      m == [l EXCEPT !.rx = <<>>, !.data = <<>>]
  IN  CASE d[1] # "first" \/ Len(d) > 2 -> m
        [] d[1] = "first" /\ Len(d) = 2 -> [m EXCEPT !.sending = FALSE]
        [] d = <<"first">>              -> [m EXCEPT !.data = d]

readHeatpump(l) ==
  LET m == IF l.sending /\ GivenUp(l) THEN [l EXCEPT !.sending = FALSE, !.data = <<>>] ELSE l
  IN  IF m.sending /\ m.rx # <<>> THEN readSerial(m) ELSE m

-----------------------------------------------------------------------------
(* loop().                                                                  *)

Goto(from, to) == place = from /\ place' = to

\* From MQTT, the web interface, timers and rules, between two passes; and from the command
\* queue, the Scheduler and the workflow, before the buffer gets its turn.
Command ==
  /\ place \in {"callbacks", "commands"} /\ UNCHANGED place
  /\ commands < MaxCommands /\ commands' = commands + 1
  /\ line' = send_command(line, commands')

Read ==
  /\ Goto("callbacks", "commands") /\ line' = readHeatpump(line)
  /\ UNCHANGED commands

Pop ==
  /\ Goto("commands", "pcb")
  /\ line' = IF ~line.sending /\ line.cmdnrel > 0 THEN popCommandBuffer(line) ELSE line
  /\ UNCHANGED commands

send_optionalpcb_query ==
  /\ Goto("pcb", "query")
  /\ \/ ~line.sending /\ line' = send_command(line, Pcb)
     \/ UNCHANGED line
  /\ UNCHANGED commands

\* With the extra block, where the heat pump has it.
send_panasonic_query ==
  /\ Goto("query", "callbacks")
  /\ line' \in {line, send_command(line, Query), send_command(send_command(line, Query), Extra)}
  /\ UNCHANGED commands

Tick ==
  /\ ~GivenUp(line) /\ line' = [line EXCEPT !.readAge = @ + 1]
  /\ UNCHANGED <<place, commands>>

\* The heat pump answers the oldest request, part by part, or leaves it.
Answer ==
  /\ line.wire > 0
  /\ \E came \in {<<IF line.half THEN "last" ELSE "first">>, <<"garbled">>, <<>>} :
       /\ Len(line.rx \o came) <= 3
       /\ line' = [line EXCEPT !.rx = @ \o came, !.half = ~@,
                               !.wire = IF line.half THEN @ - 1 ELSE @]
  /\ UNCHANGED <<place, commands>>

LinkNext ==
  \/ Command \/ Read \/ Pop \/ send_optionalpcb_query \/ send_panasonic_query
  \/ Tick \/ Answer

-----------------------------------------------------------------------------
(* Properties.                                                              *)

\* The buffer holds what was accepted and not written, in that order: a full buffer refuses,
\* and nothing is lost or sent twice where its indices wrap.
BufferIsQueue ==
  /\ line.cmdnrel = Len(line.waiting)
  /\ \A i \in 1 .. Len(line.waiting) :
       line.buffer[(line.cmdstart + i - 1) % MAXCOMMANDSINBUFFER] = line.waiting[i]

\* As long as no request was given up while its answer was still to come or to be read, the
\* heat pump gets the next one only after it has answered.
OneRequestAtATime == line.early => line.late

\* Inductive.
Part == {"first", "last", "garbled"}
Line ==
  [sending : BOOLEAN, readAge : Nat, data : Seq(Part), rx : Seq(Part), wire : Nat, half : BOOLEAN,
   buffer : [Slots -> Int], cmdstart : Slots, cmdend : Slots, cmdnrel : 0 .. MAXCOMMANDSINBUFFER,
   waiting : Seq(Int), late : BOOLEAN, early : BOOLEAN]

BufferInOrder(l) ==
  /\ l.cmdnrel = Len(l.waiting)
  /\ l.cmdend = (l.cmdstart + l.cmdnrel) % MAXCOMMANDSINBUFFER
  /\ \A i \in 1 .. Len(l.waiting) :
       l.buffer[(l.cmdstart + i - 1) % MAXCOMMANDSINBUFFER] = l.waiting[i]

\* Nothing is left of earlier answers: one request at most is not answered, and of its answer
\* no more has come than the heat pump has sent.
AnswerAwaited(l) ==
  /\ ~l.early /\ l.wire <= 1 /\ (l.half => l.wire = 1)
  /\ IF l.sending THEN Len(l.data) + Len(l.rx) <= (IF l.wire = 0 THEN 2 ELSE IF l.half THEN 1 ELSE 0)
     ELSE l.data = <<>> /\ (GivenUp(l) \/ (l.wire = 0 /\ l.rx = <<>>))

LinkIsOrdered ==
  /\ line \in Line /\ commands \in Nat
  /\ BufferInOrder(line) /\ (line.late \/ AnswerAwaited(line))
=============================================================================
