------------------------------ MODULE SerialLink ------------------------------
(***************************************************************************)
(* The serial link to the heat pump on the ESP32 (HeishaMon.ino): the task  *)
(* serialTXTask writes requests, the main loop reads the answers, and the   *)
(* flag `sending` between them says that an answer is awaited.  Both run    *)
(* with the same priority and may be preempted between any two accesses to  *)
(* what they share; the main loop may be held up for any time (WiFi, MQTT). *)
(*                                                                         *)
(* Time goes in ticks; a time stamp is kept as the time since then.  The    *)
(* task runs every millisecond, so at least once in a tick.                 *)
(*                                                                         *)
(* Data.  An answer is a first part, which holds the header, and a last     *)
(* part, which completes it.  What the parts say is left out, whether an    *)
(* answer turns out to be a data block is chosen, and answers for the proxy *)
(* port and the listen-only mode, in which nothing is written, are left out. *)
(***************************************************************************)
EXTENDS Integers, Sequences, Functions

CONSTANTS
  Command,              \* packets of commands, from MQTT, Scheduler, rules, proxy ...
  MAXCOMMANDSINBUFFER,
  SERIALTIMEOUT, OPTIONALPCBQUERYTIME, \* in ticks
  Setup,                \* settings and surroundings, see LinkAssumption
  MAXDATA, RxBuffer,    \* parts of answers that fit into data and into the UART
  MaxUnanswered,        \* bound of the model: requests the heat pump keeps
  MaxOvertakes          \* bound of the model: how far `overtakes` counts

ASSUME LinkAssumption ==
  /\ Command \cap {"pcb", "query", "extra", "none"} = {}
  /\ MAXCOMMANDSINBUFFER \in Nat \ {0}
  /\ SERIALTIMEOUT \in Nat /\ OPTIONALPCBQUERYTIME \in Nat \ {0}
  /\ \A s \in Setup :
       /\ s.optionalPCB \in BOOLEAN   \* is the optional PCB emulated
       /\ s.waitTime \in Nat          \* ticks from one query to the next
       /\ s.hasExtra \in BOOLEAN      \* has the heat pump the extra data block
       /\ s.commands \subseteq Command \* what may be sent
  /\ MAXDATA \in Nat /\ MAXDATA > 2
  /\ RxBuffer \in Nat /\ MaxUnanswered \in Nat \ {0}
  /\ MaxOvertakes \in Nat

VARIABLES
  setup,       \* one of Setup, for good
  sending,     \* an answer is awaited
  readAge,     \* time since sendCommandReadTime
  pcbAge, queryAge, extraAge, \* time since lastPCBSendTime, lastHPSendTime, lastHPExtraSendTime
  cmdQueue,
  extraDataBlockAvailable,
  tx,          \* where the task is, and the request it is sending
  iterated,    \* the task has begun an iteration in this tick
  loop,        \* where the main loop is in readHeatpump
  data,        \* data[0 .. data_length - 1]
  wire,        \* number of requests the heat pump has not begun to answer
  answering,   \* it has sent the first part of an answer
  rx,          \* what has arrived and has not been read
  readsOpen,   \* history: totalreads less the reads counted as good, bad or timed out
  pcbSilence,  \* history: time since the last request of the optional PCB
  overtakes    \* history: other requests begun since then though that one was due

taskVars   == <<tx, iterated, pcbAge, queryAge, extraAge>>
loopVars   == <<loop, data, extraDataBlockAvailable, readsOpen>>
remoteVars == <<wire, answering, rx>>
pcbHistory == <<setup, pcbSilence, overtakes>>
vars == <<sending, readAge, cmdQueue, taskVars, loopVars, remoteVars, pcbHistory>>

optionalPCB == setup.optionalPCB
waitTime    == setup.waitTime

Part == {"first", "last", "garbled"}
Kind == {"pcb", "query", "extra"} \cup Command

TaskTimeout  == SERIALTIMEOUT + OPTIONALPCBQUERYTIME
LongestWait  == TaskTimeout + 1
\* The longest the optional PCB may have waited, when n requests overtook it.
Silence(n)   == OPTIONALPCBQUERYTIME - 1 + (n + 1) * LongestWait
SilenceCap   == Silence(MaxOvertakes - 1) + 1
Elapsed(age, limit) == IF age < limit THEN age + 1 ELSE age

-----------------------------------------------------------------------------
(* serialTXTask: one pass of its loop.                                      *)

At(place) == tx.at = place
Goto(place) == tx' = [at |-> place, kind |-> "none"]

StartIteration ==
  /\ At("delay") /\ Goto("free")
  /\ iterated' = TRUE
  /\ UNCHANGED <<sending, readAge, cmdQueue, pcbAge, queryAge, extraAge, loopVars, remoteVars,
                 pcbHistory>>

\* Variant: only the main loop gives up waiting.
FreeFlagNever ==
  /\ At("free") /\ Goto("pcb")
  /\ UNCHANGED <<sending, readAge, cmdQueue, iterated, pcbAge, queryAge, extraAge, loopVars,
                 remoteVars, pcbHistory>>

\* The task gives up waiting if the main loop does not.
FreeFlag ==
  /\ At("free") /\ Goto("pcb")
  /\ sending' = (sending /\ readAge <= TaskTimeout)
  /\ UNCHANGED <<readAge, cmdQueue, iterated, pcbAge, queryAge, extraAge, loopVars, remoteVars,
                 pcbHistory>>

\* The flag is raised first; sendCommandReadTime is set in a step of its own.
Begin(kind) == sending' = TRUE /\ tx' = [at |-> "mark", kind |-> kind]
Skip(place) == Goto(place) /\ UNCHANGED sending

PcbIsDue == optionalPCB /\ pcbAge >= OPTIONALPCBQUERYTIME

\* Highest priority: the optional PCB.
OfferPcb ==
  /\ At("pcb")
  /\ LET due == ~sending /\ pcbAge >= OPTIONALPCBQUERYTIME
     IN /\ pcbAge' = IF due THEN 0 ELSE pcbAge
        /\ IF due /\ optionalPCB THEN Begin("pcb") ELSE Skip("query")
  /\ UNCHANGED <<readAge, cmdQueue, iterated, queryAge, extraAge, loopVars, remoteVars,
                 pcbHistory>>

\* Second priority: the query of the data block.
OfferQuery ==
  /\ At("query")
  /\ LET due == ~sending /\ queryAge >= waitTime
     IN /\ queryAge' = IF due THEN 0 ELSE queryAge
        /\ IF due THEN Begin("query") ELSE Skip("extra")
  /\ UNCHANGED <<readAge, cmdQueue, iterated, pcbAge, extraAge, loopVars, remoteVars,
                 pcbHistory>>

\* Third priority: the query of the extra data block.
OfferExtra ==
  /\ At("extra")
  /\ LET due == ~sending /\ extraDataBlockAvailable /\ extraAge >= waitTime
     IN /\ extraAge' = IF due THEN 0 ELSE extraAge
        /\ IF due THEN Begin("extra") ELSE Skip("command")
  /\ UNCHANGED <<readAge, cmdQueue, iterated, pcbAge, queryAge, loopVars, remoteVars,
                 pcbHistory>>

\* Variant: the command that is sent stays in the queue.
OfferCommandKeeping ==
  /\ At("command")
  /\ IF cmdQueue # <<>> /\ ~sending THEN Begin(Head(cmdQueue)) ELSE Skip("delay")
  /\ UNCHANGED <<readAge, cmdQueue, iterated, pcbAge, queryAge, extraAge, loopVars, remoteVars,
                 pcbHistory>>

\* Lowest priority: the commands.
OfferCommand ==
  /\ At("command")
  /\ IF ~sending /\ cmdQueue # <<>>
     THEN Begin(Head(cmdQueue)) /\ cmdQueue' = Tail(cmdQueue)
     ELSE Skip("delay") /\ UNCHANGED cmdQueue
  /\ UNCHANGED <<readAge, iterated, pcbAge, queryAge, extraAge, loopVars, remoteVars,
                 pcbHistory>>

Mark ==
  /\ At("mark")
  /\ readAge' = 0
  /\ tx' = [tx EXCEPT !.at = "write"]
  /\ UNCHANGED <<sending, cmdQueue, iterated, pcbAge, queryAge, extraAge, loopVars, remoteVars,
                 pcbHistory>>

Following(kind) ==
  CASE kind = "pcb" -> "query" [] kind = "query" -> "extra" [] kind = "extra" -> "command"
    [] OTHER -> "delay"

Write ==
  /\ At("write")
  /\ wire' = IF wire < MaxUnanswered THEN wire + 1 ELSE wire
  /\ Goto(Following(tx.kind))
  /\ pcbSilence' = IF tx.kind = "pcb" THEN 0 ELSE pcbSilence
  /\ overtakes' = CASE tx.kind = "pcb" -> 0
                    [] tx.kind # "pcb" /\ PcbIsDue -> Elapsed(overtakes, MaxOvertakes)
                    [] OTHER -> overtakes
  /\ UNCHANGED <<setup, sending, readAge, cmdQueue, iterated, pcbAge, queryAge, extraAge,
                 loopVars, answering, rx>>

serialTXTask ==
  \/ StartIteration \/ FreeFlag
  \/ OfferPcb \/ OfferQuery \/ OfferExtra \/ OfferCommand
  \/ Mark \/ Write

-----------------------------------------------------------------------------
(* The main loop.                                                          *)

\* readHeatpump: has the answer failed to come in time?
CheckTimeout ==
  /\ loop = "top"
  /\ loop' = IF sending /\ readAge > SERIALTIMEOUT THEN "expired" ELSE "read"
  /\ UNCHANGED <<sending, readAge, cmdQueue, taskVars, data, extraDataBlockAvailable, readsOpen,
                 remoteVars, pcbHistory>>

\* Variant: a request without any answer is counted as timed out and not as a read.
ExpireUncounted ==
  /\ loop = "expired" /\ loop' = "read"
  /\ readsOpen' = readsOpen - 1
  /\ data' = <<>>
  /\ sending' = FALSE
  /\ UNCHANGED <<readAge, cmdQueue, taskVars, extraDataBlockAvailable, remoteVars,
                 pcbHistory>>

\* Nothing arrived: one more read, which timed out.  Else the read that was begun
\* was too short.
Expire ==
  /\ loop = "expired" /\ loop' = "read"
  /\ readsOpen' = IF data = <<>> THEN readsOpen ELSE readsOpen - 1
  /\ data' = <<>>
  /\ sending' = FALSE
  /\ UNCHANGED <<readAge, cmdQueue, taskVars, extraDataBlockAvailable, remoteVars,
                 pcbHistory>>

CheckRead ==
  /\ loop = "read"
  /\ loop' = IF sending /\ rx # <<>> THEN "reading" ELSE "top"
  /\ UNCHANGED <<sending, readAge, cmdQueue, taskVars, data, extraDataBlockAvailable, readsOpen,
                 remoteVars, pcbHistory>>

\* readSerial: what has arrived is put behind what was read before.
Taken == IF Len(rx) <= MAXDATA - Len(data) THEN Len(rx) ELSE MAXDATA - Len(data)
Received == data \o SubSeq(rx, 1, Taken)

BadHeader(d) == d # <<>> /\ d[1] # "first"

\* Variant: what is too long is read on.
TooLongNever(d) == FALSE

\* More than the header says, or more than fits.
TooLong(d)   == ~BadHeader(d) /\ (Len(d) > 2 \/ Len(d) >= MAXDATA)
Complete(d)  == ~BadHeader(d) /\ Len(d) = 2 /\ d[2] # "first"
ChecksumOk(d) == d[2] = "last"

readSerial ==
  /\ loop = "reading" /\ loop' = "top"
  /\ rx' = SubSeq(rx, Taken + 1, Len(rx))
  /\ LET d     == Received
         over  == BadHeader(d) \/ TooLong(d) \/ Complete(d)
         total == readsOpen + (IF data = <<>> /\ Taken > 0 THEN 1 ELSE 0)
     IN /\ data' = IF over THEN <<>> ELSE d
        /\ readsOpen' = IF over THEN total - 1 ELSE total
        /\ sending' = (sending /\ ~Complete(d))
        /\ \/ setup.hasExtra /\ Complete(d) /\ ChecksumOk(d) /\ extraDataBlockAvailable' = TRUE
           \/ UNCHANGED extraDataBlockAvailable
  /\ UNCHANGED <<readAge, cmdQueue, taskVars, wire, answering, pcbHistory>>

readHeatpump == CheckTimeout \/ Expire \/ CheckRead \/ readSerial

\* send_command: refused, without any trace, when the queue is full.
send_command(c) ==
  /\ loop = "top"
  /\ c \notin Range(cmdQueue) \* bound of the model
  /\ Len(cmdQueue) < MAXCOMMANDSINBUFFER
  /\ cmdQueue' = Append(cmdQueue, c)
  /\ UNCHANGED <<sending, readAge, taskVars, loopVars, remoteVars, pcbHistory>>

-----------------------------------------------------------------------------
(* The heat pump and time.                                                  *)

Arrives(part) == rx' = IF Len(rx) < RxBuffer THEN Append(rx, part) ELSE rx

BeginAnswer ==
  /\ ~answering /\ wire > 0
  /\ answering' = TRUE /\ wire' = wire - 1
  /\ Arrives("first")
  /\ UNCHANGED <<sending, readAge, cmdQueue, taskVars, loopVars, pcbHistory>>

\* An answer may be garbled, or break off.
EndAnswer ==
  /\ answering /\ answering' = FALSE
  /\ \/ \E p \in {"last", "garbled"} : Arrives(p)
     \/ UNCHANGED rx
  /\ UNCHANGED <<sending, readAge, cmdQueue, taskVars, loopVars, wire, pcbHistory>>

NoAnswer ==
  /\ wire > 0 /\ wire' = wire - 1
  /\ UNCHANGED <<sending, readAge, cmdQueue, taskVars, loopVars, answering, rx,
                 pcbHistory>>

Tick ==
  /\ At("delay") /\ iterated /\ iterated' = FALSE
  /\ readAge'    = Elapsed(readAge, LongestWait)
  /\ pcbAge'     = Elapsed(pcbAge, OPTIONALPCBQUERYTIME)
  /\ queryAge'   = Elapsed(queryAge, waitTime)
  /\ extraAge'   = Elapsed(extraAge, waitTime)
  /\ pcbSilence' = IF optionalPCB THEN Elapsed(pcbSilence, SilenceCap) ELSE 0
  /\ UNCHANGED <<setup, sending, cmdQueue, tx, loopVars, remoteVars, overtakes>>

Init ==
  /\ setup \in Setup
  /\ sending = FALSE /\ readAge = LongestWait
  /\ pcbAge = OPTIONALPCBQUERYTIME /\ queryAge = waitTime /\ extraAge = waitTime
  /\ cmdQueue = <<>> /\ extraDataBlockAvailable = FALSE
  /\ tx = [at |-> "delay", kind |-> "none"] /\ iterated = FALSE
  /\ loop = "top" /\ data = <<>>
  /\ wire = 0 /\ answering = FALSE /\ rx = <<>>
  /\ readsOpen = 0 /\ pcbSilence = 0 /\ overtakes = 0

Next ==
  \/ serialTXTask
  \/ readHeatpump
  \/ \E c \in setup.commands : send_command(c)
  \/ BeginAnswer \/ EndAnswer \/ NoAnswer
  \/ Tick

Spec == Init /\ [][Next]_vars

\* The scheduler of the operating system runs the task, and time passes.
Fairness == WF_vars(serialTXTask) /\ SF_vars(Tick)
FairSpec == Spec /\ Fairness

\* The main loop is not held up for ever: not assumed by FairSpec.
LoopRuns == WF_vars(readHeatpump)

-----------------------------------------------------------------------------
(* Properties.                                                             *)

TypeOK ==
  /\ setup \in Setup
  /\ sending \in BOOLEAN /\ iterated \in BOOLEAN
  /\ readAge \in 0 .. LongestWait /\ pcbAge \in 0 .. OPTIONALPCBQUERYTIME
  /\ queryAge \in 0 .. waitTime /\ extraAge \in 0 .. waitTime
  /\ cmdQueue \in Seq(Command) /\ Len(cmdQueue) <= MAXCOMMANDSINBUFFER
  /\ extraDataBlockAvailable \in BOOLEAN
  /\ tx \in [at : {"delay", "free", "pcb", "query", "extra", "command", "mark", "write"},
             kind : Kind \cup {"none"}]
  /\ loop \in {"top", "expired", "read", "reading"}
  /\ data \in Seq(Part) /\ Len(data) <= 2
  /\ wire \in 0 .. MaxUnanswered /\ answering \in BOOLEAN
  /\ rx \in Seq(Part) /\ Len(rx) <= RxBuffer
  /\ readsOpen \in Int /\ pcbSilence \in 0 .. SilenceCap /\ overtakes \in 0 .. MaxOvertakes

\* "gives HeishaMon an obligation to continuously send the Optional PCB Set Command"
\* (OptionalPCB.md): however long the main loop is held up and whatever the heat pump
\* answers, the requests of the optional PCB are no further apart than the time between two
\* of them, less a tick, and the longest wait for an answer, for a request just before this
\* one was due; and one more wait for every request that overtook a due one because the flag
\* fell between two looks at it.
PcbIsRegular ==
  optionalPCB /\ overtakes < MaxOvertakes => pcbSilence <= Silence(overtakes)

\* Why: after the task has looked at the flag for the optional PCB, and not sent its
\* request, either this was not due or an answer is awaited and not yet overdue.
InOffers == tx.at \in {"query", "extra", "command", "mark", "write"}
HasLooked == InOffers \/ (At("delay") /\ iterated)
PcbWaitsForAnswers ==
  /\ tx.kind = "pcb" => tx.at \in {"mark", "write"}
  /\ sending /\ (At("pcb") \/ HasLooked) /\ ~At("mark") => readAge <= TaskTimeout
  /\ optionalPCB =>
       /\ pcbAge < OPTIONALPCBQUERYTIME /\ tx.kind # "pcb" => pcbSilence <= pcbAge
       /\ overtakes < MaxOvertakes =>
            /\ pcbSilence <= Silence(overtakes)
            /\ HasLooked /\ tx.kind # "pcb" => pcbSilence < Silence(overtakes)
            /\ sending /\ tx.at \notin {"mark", "write"} =>
                 pcbSilence <= readAge + Silence(overtakes) - LongestWait

\* The read statistics add up: each read that was counted in totalreads has been
\* counted once as good or as one of the five failures, but for the one in work
\* (readSerial, readHeatpump), also when the task clears the flag in the middle.
ReadsAddUp == readsOpen = IF data = <<>> THEN 0 ELSE 1

\* The link does not lock up: the wait for an answer ends even if the main loop hangs.
WaitEnds == sending ~> ~sending

\* A command that was accepted is taken off the queue to be written, also if the heat
\* pump never answers, as long as the main loop runs and the optional PCB is not
\* emulated; the regular queries leave room for it.
CommandIsTaken ==
  LoopRuns =>
    \A c \in Command : ~optionalPCB /\ c \in Range(cmdQueue) ~> c \notin Range(cmdQueue)

\* "mutex for sending data": a request is begun only when the heat pump has nothing left
\* to answer, or when the time to wait for its answer is over.
OneRequestAtATime ==
  [][~sending /\ sending' => (wire = 0 /\ ~answering) \/ readAge > SERIALTIMEOUT]_vars
=============================================================================
