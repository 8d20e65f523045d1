------------------------------- MODULE SdWriter -------------------------------
(***************************************************************************)
(* How history reaches the SD card (diagnostics_history.cpp, ESP32).  The   *)
(* main loop keeps the last samples and events in rings in RAM and queues   *)
(* work; the task sd-history (sdWriterTask) takes the work, copies what is  *)
(* new from the rings entry by entry, each under a lock, and appends it to  *)
(* the file of the day.  The main loop goes on meanwhile, so a ring may     *)
(* turn under the hands of the task.                                        *)
(*                                                                         *)
(* Data.  An entry is its number, the boot it was made in and its time; what *)
(* it says is left out.  A row of a file remembers the day the file is named *)
(* after.  A daily summary is a map from units of time to how often they     *)
(* were counted.  Left out: the removal of files past the retention period.  *)
(***************************************************************************)
EXTENDS Integers, SequencesExt

CONSTANTS
  Stream,      \* the two rings, "samples" and "events"
  Day,         \* local days
  Missing,     \* a daily summary that is not on the card
  SetUp        \* rings, card and bounds, see WriterAssumption

ASSUME WriterAssumption ==
  /\ Stream = {"samples", "events"}
  /\ Day \subseteq Nat
  /\ \A s \in SetUp :
       /\ s.ring \in Nat \ {0}   \* HISTORY_MAX_SAMPLES, HISTORY_MAX_EVENTS
       /\ s.queue \in Nat \ {0}  \* length of sdWorkQueue
       /\ s.replaces \in BOOLEAN \* rename replaces a file that exists
       /\ s.faults \in BOOLEAN   \* the card may fail
       /\ s.events \in Nat       \* bound of the model: events of a boot
       /\ s.cycles \in Nat       \* bound of the model: cycle records queued at a time
       /\ s.boots \in Nat        \* bound of the model
       /\ s.time \in Nat         \* bound of the model: when the clock stops

VARIABLES
  setup,        \* one of SetUp, for good
  ram,          \* for each stream slots, start and count of its ring
  sequence,     \* sampleSequence, eventSequence
  flushed,      \* sdFlushedSequence, sdFlushedEventSequence
  active,       \* sdState.active
  sdWorkQueue,
  sdFlushQueued,
  writer,       \* where the task is in its work
  rows,         \* for each stream the rows of its files, in the order written
  daily         \* the daily summaries on the card

ramVars    == <<ram, sequence>>
queueVars  == <<sdWorkQueue, sdFlushQueued>>
cardVars   == <<rows, daily>>
writerVars == <<setup, ramVars, flushed, active, queueVars, writer, cardVars>>

-----------------------------------------------------------------------------
(* The main loop's side                                                     *)

Blank == [sequence |-> 0, boot |-> 0, time |-> 0]

EmptyRing(n) == [slots |-> [i \in 0 .. n - 1 |-> Blank], start |-> 0, count |-> 0]

\* An entry displaces the oldest one when the ring is full.
StoredIn(r, entry) ==
  LET full  == r.count = setup.ring
      index == (r.start + r.count) % setup.ring
  IN [slots |-> [r.slots EXCEPT ![index] = entry],
      start |-> IF full THEN (r.start + 1) % setup.ring ELSE r.start,
      count |-> IF full THEN r.count ELSE r.count + 1]

Store(s, boot, time) ==
  /\ sequence' = [sequence EXCEPT ![s] = @ + 1]
  /\ ram' = [ram EXCEPT
       ![s] = StoredIn(@, [sequence |-> sequence'[s], boot |-> boot, time |-> time])]

Room == active /\ Len(sdWorkQueue) < setup.queue

\* Work that finds no room is dropped.
QueueSdWork(item) ==
  sdWorkQueue' = IF Room THEN Append(sdWorkQueue, item) ELSE sdWorkQueue

FlushWork == [type |-> "flush"]
CycleWork == [type |-> "cycle"]
DailyWork(day, energy) == [type |-> "daily", day |-> day, energy |-> energy]

RequestSdFlushStuck ==
  /\ ~sdFlushQueued
  /\ QueueSdWork(FlushWork)
  /\ sdFlushQueued' = TRUE
  /\ UNCHANGED <<ramVars, flushed, active, writer, cardVars>>

RequestSdFlush ==
  /\ ~sdFlushQueued
  /\ QueueSdWork(FlushWork)
  /\ sdFlushQueued' = Room
  /\ UNCHANGED <<ramVars, flushed, active, writer, cardVars>>

\* A compressor cycle has ended.
PersistCycleRecord ==
  /\ active
  /\ Len(SelectSeq(sdWorkQueue, LAMBDA w : w = CycleWork)) < setup.cycles
  /\ QueueSdWork(CycleWork)
  /\ UNCHANGED <<ramVars, flushed, active, sdFlushQueued, writer, cardVars>>

\* The task has been at one piece of work for 15 s: logging is turned off, though the task
\* goes on.
CheckSdWriterHealth ==
  /\ setup.faults
  /\ writer.at # "idle" /\ active
  /\ active' = FALSE
  /\ UNCHANGED <<ramVars, flushed, queueVars, writer, cardVars>>

-----------------------------------------------------------------------------
(* The task                                                                 *)

Idle == [at |-> "idle"]
Begin(s) == [at |-> "begin", stream |-> s]

\* flushSd: samples first, then events.
AfterStream(s) == IF s = "samples" THEN Begin("events") ELSE Idle

Receive ==
  /\ writer.at = "idle" /\ sdWorkQueue # <<>>
  /\ LET item == Head(sdWorkQueue)
     IN /\ writer' = IF item.type = "flush" THEN Begin("samples")
                     ELSE [at |-> item.type, item |-> item]
        /\ sdFlushQueued' = (sdFlushQueued /\ item.type # "flush")
  /\ sdWorkQueue' = Tail(sdWorkQueue)
  /\ UNCHANGED <<ramVars, flushed, active, cardVars>>

\* Where the ring begins and how much it holds is read once, before the file is opened.
BeginStream ==
  /\ writer.at = "begin"
  /\ LET s == writer.stream
     IN writer' = IF active /\ ram[s].count > 0
                  THEN [at |-> "open", stream |-> s,
                        start |-> ram[s].start, count |-> ram[s].count]
                  ELSE AfterStream(s)
  /\ UNCHANGED <<ramVars, flushed, active, queueVars, cardVars>>

WriterError == setup.faults /\ active' = FALSE

\* The first look at a ring of samples raises what counts as flushed to just below the
\* entry found where the ring began.
FlushedBelow(s, oldest) ==
  IF s = "samples" /\ flushed[s] < oldest - 1 THEN oldest - 1 ELSE flushed[s]

\* `day` is the local day of the clock, after which the file is named.
OpenFile(day) ==
  /\ writer.at = "open"
  /\ \/ /\ writer' = [at |-> "look", stream |-> writer.stream, start |-> writer.start,
                      count |-> writer.count, day |-> day]
        /\ UNCHANGED active
     \/ /\ WriterError
        /\ writer' = AfterStream(writer.stream)
  /\ UNCHANGED <<ramVars, flushed, queueVars, cardVars>>

Look ==
  /\ writer.at = "look"
  /\ LET s == writer.stream
     IN /\ flushed' = [flushed EXCEPT
             ![s] = FlushedBelow(s, ram[s].slots[writer.start].sequence)]
        /\ writer' = [at |-> "copy", stream |-> s, start |-> writer.start,
                      count |-> writer.count, day |-> writer.day,
                      offset |-> 0, newest |-> flushed'[s], buffer |-> <<>>]
  /\ UNCHANGED <<ramVars, active, queueVars, cardVars>>

RowOf(entry, day) ==
  [sequence |-> entry.sequence, boot |-> entry.boot, time |-> entry.time, day |-> day]

CopyEntry ==
  /\ writer.at = "copy" /\ writer.offset < writer.count
  /\ LET s     == writer.stream
         entry == ram[s].slots[(writer.start + writer.offset) % setup.ring]
         next  == [writer EXCEPT !.offset = @ + 1]
     IN writer' = IF entry.sequence <= flushed[s] THEN next
                  ELSE [next EXCEPT
                         !.buffer = Append(@, RowOf(entry, writer.day)),
                         !.newest = IF entry.sequence > @ THEN entry.sequence ELSE @]
  /\ UNCHANGED <<ramVars, flushed, active, queueVars, cardVars>>

\* Of a file that was not closed the rows of any prefix may be left.
AppendRows(s, more) == rows' = [rows EXCEPT ![s] = @ \o more]

FlushedUpToNow(s) == [flushed EXCEPT ![s] = sequence[s]]

\* What counts as flushed once the file of stream s is closed.
FlushedAfter(s) == [flushed EXCEPT ![s] = writer.newest]

CloseFile ==
  /\ writer.at = "copy" /\ writer.offset = writer.count
  /\ writer' = AfterStream(writer.stream)
  /\ \/ /\ AppendRows(writer.stream, writer.buffer)
        /\ flushed' = FlushedAfter(writer.stream)
        /\ UNCHANGED active
     \/ /\ WriterError
        /\ \E kept \in Prefixes(writer.buffer) : AppendRows(writer.stream, kept)
        /\ UNCHANGED flushed
  /\ UNCHANGED <<ramVars, queueVars, daily>>

\* A temporary file takes the place of the summary by a rename, which fails where an
\* existing file is not replaced.
WriteDailySummary ==
  /\ writer.at = "daily"
  /\ LET day == writer.item.day
     IN \/ /\ active /\ (daily[day] = Missing \/ setup.replaces)
           /\ daily' = [daily EXCEPT ![day] = writer.item.energy]
           /\ UNCHANGED active
        \/ /\ active
           /\ WriterError \/ (daily[day] # Missing /\ ~setup.replaces /\ active' = FALSE)
           /\ UNCHANGED daily
        \/ /\ ~active
           /\ UNCHANGED <<active, daily>>
  /\ writer' = Idle
  /\ UNCHANGED <<ramVars, flushed, queueVars, rows>>

WriteCycleRecord ==
  /\ writer.at = "cycle"
  /\ writer' = Idle
  /\ UNCHANGED active \/ (active /\ WriterError)
  /\ UNCHANGED <<ramVars, flushed, queueVars, cardVars>>

-----------------------------------------------------------------------------
(* Power fails or the firmware restarts                                      *)

InitRam ==
  /\ ram = [s \in Stream |-> EmptyRing(setup.ring)]
  /\ sequence = [s \in Stream |-> 0]
  /\ flushed = [s \in Stream |-> 0]

InitWriter ==
  /\ setup \in SetUp
  /\ InitRam
  /\ active = TRUE
  /\ sdWorkQueue = <<>> /\ sdFlushQueued = FALSE
  /\ writer = Idle
  /\ rows = [s \in Stream |-> <<>>]
  /\ daily = [d \in Day |-> Missing]

\* The RAM is cleared; of a file being written a part may have reached the card.
LoseRam ==
  /\ ram' = [s \in Stream |-> EmptyRing(setup.ring)]
  /\ sequence' = [s \in Stream |-> 0]
  /\ flushed' = [s \in Stream |-> 0]
  /\ sdWorkQueue' = <<>> /\ sdFlushQueued' = FALSE
  /\ writer' = Idle
  /\ IF writer.at = "copy"
     THEN \E kept \in Prefixes(writer.buffer) : AppendRows(writer.stream, kept)
     ELSE UNCHANGED rows
  /\ UNCHANGED daily
=============================================================================
