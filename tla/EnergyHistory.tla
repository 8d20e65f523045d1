----------------------------- MODULE EnergyHistory -----------------------------
(***************************************************************************)
(* The energy of each day (diagnostics_history.cpp, diagnostics_energy.h).  *)
(* The main loop takes samples and adds up, for each local day, the energy   *)
(* between two samples of one boot that are not too far apart.  The summary  *)
(* of a day goes to the card when the day is over, through the queue of      *)
(* SdWriter.  After a restart the summaries that are missing, and that of    *)
(* today, are made again from the rows on the card.                          *)
(*                                                                         *)
(* Data.  The energy of a summary is how often each unit of time was added;  *)
(* heating and hot water, thermal and electrical power are not told apart,   *)
(* and power is known at every sample.  The clock is valid from the start    *)
(* and is never set back.  Left out: what is published by MQTT, and the      *)
(* accounts kept by boards without a card (energy_reporting.h).              *)
(***************************************************************************)
EXTENDS SdWriter

CONSTANTS
  DayLength,   \* units of time in a day
  Interval,    \* sampleIntervalSeconds
  MaxGap,      \* the 600 s after which two samples are not connected
  TailRows,    \* rows read of the file of a day that is complete
  MaxTime,     \* the latest time of any set-up
  None

ASSUME EnergyAssumption ==
  /\ DayLength \in Nat \ {0} /\ Interval \in Nat \ {0}
  /\ MaxGap \in 0 .. DayLength /\ TailRows \in Nat /\ MaxTime \in Nat
  /\ \A t \in 0 .. MaxTime : t \div DayLength \in Day
  /\ \A s \in SetUp : s.time <= MaxTime
  /\ None \notin Day \cup [boot : Nat, time : Nat] \cup [day : Day, energy : [0 .. MaxTime - 1 -> Nat]]
  /\ Missing \notin [0 .. MaxTime - 1 -> Nat]

VARIABLES
  now,          \* the clock
  boot,         \* historyBootId
  restored,     \* energyHistoryRestored
  summary,      \* dailySummary, None until it is valid
  previous,     \* previousDailySample, None until it is valid
  handledDay,   \* copMqttLocalDay
  flushDue,     \* a minute has passed since lastSdFlushAt
  taken         \* history: boot and time of every sample

dayVars  == <<restored, summary, previous, handledDay>>
timeVars == <<now, boot, flushDue, taken>>
vars     == <<writerVars, dayVars, timeVars>>

-----------------------------------------------------------------------------
(* Adding up (diagnostics_energy.h)                                          *)

DayOf(t) == t \div DayLength
DayStart(d) == d * DayLength

Unit   == 0 .. MaxTime - 1
Energy == [Unit -> Nat]
NoEnergy == [u \in Unit |-> 0]

Reset(day) == [day |-> day, energy |-> NoEnergy]

ConnectedUnlessFar(a, b) == a.time < b.time /\ b.time - a.time <= MaxGap

\* Energy is added only between samples of one boot, and when the gap is short.
Connected(a, b) == a.boot = b.boot /\ a.time < b.time /\ b.time - a.time <= MaxGap

AddEnergyPair(energy, a, b, lower, upper) ==
  IF ~Connected(a, b) THEN energy
  ELSE [u \in Unit |->
         IF u \in a.time .. b.time - 1 /\ u \in lower .. upper - 1
         THEN energy[u] + 1 ELSE energy[u]]

\* The interval is cut at the midnight before `sample` and at the beginning of the day.
Accumulated(s, a, sample) ==
  LET day   == DayOf(sample.time)
      upper == IF day > s.day THEN DayStart(day) ELSE sample.time
  IN IF a = None THEN s
     ELSE [s EXCEPT !.energy = AddEnergyPair(@, a, sample, DayStart(s.day), upper)]

-----------------------------------------------------------------------------
(* The main loop                                                             *)

PersistDailySummary(s) == QueueSdWork(DailyWork(s.day, s.energy))

SampleDue ==
  /\ restored \/ ~active
  /\ previous # None => now - previous.time >= Interval

\* storeSample and updateDailySummary.
TakeSample ==
  /\ SampleDue
  /\ LET sample == [boot |-> boot, time |-> now]
         over   == summary # None /\ summary.day # DayOf(now)
     IN /\ Store("samples", boot, now)
        /\ IF over THEN PersistDailySummary(Accumulated(summary, previous, sample))
           ELSE UNCHANGED sdWorkQueue
        /\ summary' = Accumulated(IF summary = None \/ over THEN Reset(DayOf(now)) ELSE summary,
                                  previous, sample)
        /\ previous' = sample
        /\ taken' = taken \cup {sample}
  /\ UNCHANGED <<setup, flushed, active, sdFlushQueued, writer, cardVars,
                 restored, handledDay, now, boot, flushDue>>

\* The first pass of a day: the summary of the day before goes to the card, though the
\* interval around midnight is still open.
BeginDay ==
  /\ handledDay # DayOf(now)
  /\ handledDay' = DayOf(now)
  /\ IF summary # None /\ summary.day < DayOf(now) THEN PersistDailySummary(summary)
     ELSE UNCHANGED sdWorkQueue
  /\ UNCHANGED <<setup, ramVars, flushed, active, sdFlushQueued, writer, cardVars,
                 restored, summary, previous, timeVars>>

FlushEveryMinute ==
  /\ active /\ flushDue
  /\ flushDue' = FALSE
  /\ RequestSdFlush \/ (sdFlushQueued /\ UNCHANGED writerVars)
  /\ UNCHANGED <<setup, dayVars, now, boot, taken>>

AddEvent ==
  /\ sequence["events"] < setup.events
  /\ Store("events", boot, now)
  /\ UNCHANGED <<setup, flushed, active, queueVars, writer, cardVars, dayVars, timeVars>>

-----------------------------------------------------------------------------
(* Recovery (restoreEnergyHistory)                                           *)

\* A recovery under way: the summary being made, whether its day is complete on the card,
\* the row before, the summaries on the card, that of today, and whether the card works.
Recovery == [summary |-> None, completed |-> FALSE, previous |-> None,
             daily |-> daily, today |-> None, active |-> TRUE]

\* finishRecoveredDay; `failing` is the day whose summary cannot be written, if any.
Finished(r, failing) ==
  IF r.summary = None THEN r
  ELSE LET day == r.summary.day
       IN IF day = DayOf(now) THEN [r EXCEPT !.today = r.summary]
          ELSE IF r.completed \/ ~r.active THEN r
          ELSE IF day = failing THEN [r EXCEPT !.active = FALSE]
          ELSE [r EXCEPT !.daily[day] = r.summary.energy]

OpenedAnew(r, day) == [r EXCEPT !.completed = FALSE, !.summary = Reset(day)]

\* The summary of the day of a row: the one on the card, or a new one.
Opened(r, day) ==
  LET completed == r.daily[day] # Missing
  IN [r EXCEPT !.completed = completed,
               !.summary = [day |-> day,
                            energy |-> IF completed THEN r.daily[day] ELSE NoEnergy]]

\* recoverDailySample adds a row to the summary of its day, unless that is complete.
AddRow(r, row) ==
  IF r.completed THEN r
  ELSE [r EXCEPT !.summary = Accumulated(@, r.previous, row)]

RecoverDailySample(r, row, failing) ==
  LET other == r.summary = None \/ r.summary.day # DayOf(row.time)
      cut   == IF r.summary # None THEN AddRow(r, row) ELSE r
      ready == IF other THEN Opened(Finished(cut, failing), DayOf(row.time)) ELSE r
  IN IF r.previous # None /\ row.time <= r.previous.time THEN r
     ELSE [AddRow(ready, row) EXCEPT !.previous = [boot |-> row.boot, time |-> row.time]]

\* visitRecoveryHistory: all rows, but of a file whose day is over and complete the last.
Complete(day) == day < DayOf(now) /\ daily[day] # Missing
IsRead(n) ==
  LET all   == rows["samples"]
      later == {k \in n + 1 .. Len(all) : all[k].day = all[n].day}
  IN ~Complete(all[n].day) \/ Cardinality(later) < TailRows

RecoveredUnfinished(failing) ==
  LET all == rows["samples"]
      after[n \in 0 .. Len(all)] ==
        IF n = 0 THEN Recovery
        ELSE IF IsRead(n) THEN RecoverDailySample(after[n - 1], all[n], failing)
        ELSE after[n - 1]
  IN after[Len(all)]

Recovered(failing) == Finished(RecoveredUnfinished(failing), failing)

\* The lock of the card is waited for only a tenth of a second; then it is tried again.
RestoreEnergyHistory ==
  /\ ~restored /\ active
  /\ writer.at = "idle"
  /\ restored' = TRUE
  /\ \E failing \in IF setup.faults THEN Day \cup {None} ELSE {None} :
       LET r == Recovered(failing)
       IN /\ daily' = r.daily
          /\ active' = r.active
          /\ summary' = IF r.today # None THEN r.today ELSE summary
  /\ previous' = None
  /\ UNCHANGED <<setup, ramVars, flushed, queueVars, writer, rows, handledDay, timeVars>>

-----------------------------------------------------------------------------
(* The whole                                                                 *)

Init ==
  /\ InitWriter
  /\ restored = FALSE /\ summary = None /\ previous = None /\ handledDay = None
  /\ now = 0 /\ boot = 1 /\ flushDue = TRUE
  /\ taken = {}

Tick ==
  /\ now < setup.time
  /\ now' = now + 1
  /\ flushDue' = TRUE
  /\ UNCHANGED <<writerVars, dayVars, boot, taken>>

\* In a boot without a usable card nothing is logged.
Restart ==
  /\ boot < setup.boots
  /\ boot' = boot + 1
  /\ LoseRam
  /\ active' \in (IF setup.faults THEN BOOLEAN ELSE {TRUE})
  /\ restored' = FALSE /\ summary' = None /\ previous' = None /\ handledDay' = None
  /\ flushDue' = TRUE
  /\ UNCHANGED <<setup, now, taken>>

WriterStep ==
  /\ \/ PersistCycleRecord \/ CheckSdWriterHealth
     \/ Receive \/ BeginStream \/ OpenFile(DayOf(now)) \/ Look \/ CopyEntry \/ CloseFile
     \/ WriteDailySummary \/ WriteCycleRecord
  /\ UNCHANGED <<setup, dayVars, timeVars>>

Next ==
  \/ TakeSample \/ BeginDay \/ FlushEveryMinute \/ AddEvent
  \/ RestoreEnergyHistory
  \/ Tick \/ Restart
  \/ WriterStep

Spec == Init /\ [][Next]_vars
-----------------------------------------------------------------------------
(* Properties                                                                *)

Time    == 0 .. MaxTime
Sample  == [boot : Nat, time : Time]
Entry   == [sequence : Nat, boot : Nat, time : Time]
Row     == [sequence : Nat, boot : Nat, time : Time, day : Day]
Summary == [day : Day, energy : Energy]

\* Types.
TypeOK ==
  /\ setup \in SetUp
  /\ \A s \in Stream :
       /\ ram[s].slots \in [0 .. setup.ring - 1 -> Entry]
       /\ ram[s].start \in 0 .. setup.ring - 1 /\ ram[s].count \in 0 .. setup.ring
       /\ flushed[s] \in 0 .. sequence[s]
       /\ rows[s] \in Seq(Row)
  /\ active \in BOOLEAN /\ sdFlushQueued \in BOOLEAN
  /\ sdFlushQueued => FlushWork \in ToSet(sdWorkQueue)
  /\ Len(sdWorkQueue) <= setup.queue
  /\ daily \in [Day -> Energy \cup {Missing}]
  /\ summary \in Summary \cup {None}
  /\ restored \in BOOLEAN /\ handledDay \in Day \cup {None}

\* No sample and no event is written to the card twice, whatever fails in between; and as
\* long as the ring has not turned none is passed over: what counts as flushed is on the
\* card, though entries are added while the task copies the ring (writeSdSamples,
\* writeSdEvents).
WrittenOnce ==
  \A s \in Stream :
    /\ \A i, j \in DOMAIN rows[s] :
         i # j => <<rows[s][i].boot, rows[s][i].sequence>>
                    # <<rows[s][j].boot, rows[s][j].sequence>>
    /\ sequence[s] <= setup.ring =>
         \A n \in 1 .. flushed[s] :
           \E i \in DOMAIN rows[s] : rows[s][i].boot = boot /\ rows[s][i].sequence = n

\* All summaries there are: on the card, in the queue, being written, and today's.
Summaries ==
  {[day |-> d, energy |-> daily[d]] : d \in {d \in Day : daily[d] # Missing}}
    \cup {[day |-> w.day, energy |-> w.energy] :
            w \in {w \in ToSet(sdWorkQueue) : w.type = "daily"}}
    \cup (IF summary = None THEN {} ELSE {summary})

\* The units between two of `samples` that are connected.
Observed(samples) ==
  {u \in Unit : \E a, b \in samples :
                  a.boot = b.boot /\ b.time - a.time <= MaxGap /\ u \in a.time .. b.time - 1}

\* Energy is counted at most once, in the day it belongs to, and only between samples of one
\* boot: neither midnight, nor a recovery from rows whose day is stored, nor the time the
\* device was off is counted for anything else (diagnostics_history.cpp 2064 and 2211).
CountedAsObserved ==
  \A s \in Summaries : \A u \in Unit :
    /\ s.energy[u] <= 1
    /\ s.energy[u] = 1 => DayOf(u) = s.day /\ u \in Observed(taken)

\* Rows are out of order when a full ring turns while it is copied, and of one time when a
\* boot begins in the unit of time in which the last sample was taken.
InOrder(all) == \A n \in DOMAIN all : \A k \in 1 .. n - 1 : all[k].time < all[n].time

\* The summary of a day on the card misses nothing of what the rows in the file of the day
\* show, except of the last interval before midnight, which is open when the summary is first
\* written and is lost when a restart or a full queue prevents the second writing.
FileOf(d) == {r \in ToSet(rows["samples"]) : r.day = d}

LossIsBounded ==
  InOrder(rows["samples"]) =>
    \A d \in Day : daily[d] # Missing =>
      \A u \in Observed(FileOf(d)) :
        DayOf(u) = d /\ u < DayStart(d + 1) - MaxGap => daily[d][u] = 1

\* After a recovery during which the card did not fail, every earlier day that has rows in a
\* file that is read whole, none of them behind a later row, has a summary on the card,
\* including days whose summary was dropped by a full queue.
RecoveryCompletes ==
  [][~restored /\ restored' /\ active' =>
       LET all == rows["samples"] IN
       \A n \in DOMAIN all :
         DayOf(all[n].time) < DayOf(now) /\ ~Complete(all[n].day)
           /\ (\A k \in 1 .. n - 1 : all[k].time <= all[n].time)
         => daily'[DayOf(all[n].time)] # Missing]_vars
-----------------------------------------------------------------------------
(* Why they hold.                                                            *)

\* What else has a type.
Work == {FlushWork, CycleWork} \cup [type : {"daily"}, day : Day, energy : Energy]

InFile == writer.at \in {"open", "look", "copy"}

WriterTypeOK ==
  \/ writer = Idle
  \/ writer \in [at : {"begin"}, stream : Stream]
  \/ writer \in [at : {"open"}, stream : Stream, start : Nat, count : Nat]
  \/ writer \in [at : {"look"}, stream : Stream, start : Nat, count : Nat, day : Day]
  \/ writer \in [at : {"copy"}, stream : Stream, start : Nat, count : Nat, day : Day,
                 offset : Nat, newest : Nat, buffer : Seq(Row)]
  \/ writer \in [at : {"daily", "cycle"}, item : Work] /\ writer.at = writer.item.type

WorkTypeOK ==
  /\ ram \in [Stream -> [slots : [0 .. setup.ring - 1 -> Entry], start : Nat, count : Nat]]
  /\ sequence \in [Stream -> Nat] /\ flushed \in [Stream -> Nat]
  /\ rows \in [Stream -> Seq(Row)]
  /\ sdWorkQueue \in Seq(Work)
  /\ WriterTypeOK
  /\ now \in 0 .. setup.time /\ boot \in Nat
  /\ taken \subseteq Sample /\ previous \in Sample \cup {None}

\* A slot holds the newest entry of all that belong in it.
RingHolds ==
  \A s \in Stream :
    /\ ram[s].count = IF sequence[s] < setup.ring THEN sequence[s] ELSE setup.ring
    /\ ram[s].start = IF sequence[s] < setup.ring THEN 0 ELSE sequence[s] % setup.ring
    /\ \A i \in 0 .. setup.ring - 1 :
         LET e == ram[s].slots[i]
         IN IF e.sequence = 0 THEN sequence[s] <= i
            ELSE /\ e.sequence \in sequence[s] - setup.ring + 1 .. sequence[s]
                 /\ (e.sequence - 1) % setup.ring = i
                 /\ e.boot = boot

\* While the ring has not turned, the task has copied all it has come by.
CopyHolds ==
  InFile =>
    LET s == writer.stream
    IN  /\ writer.start \in 0 .. setup.ring - 1 /\ writer.count <= setup.ring
        /\ writer.count <= sequence[s]
        /\ sequence[s] <= setup.ring => writer.start = 0
        /\ writer.at = "copy" =>
             /\ writer.offset <= writer.count
             /\ writer.newest \in flushed[s] .. sequence[s]
             /\ \A i \in DOMAIN writer.buffer :
                  /\ writer.buffer[i].boot = boot
                  /\ writer.buffer[i].sequence \in flushed[s] + 1 .. writer.newest
                  /\ \E k \in 0 .. writer.offset - 1 :
                       (writer.buffer[i].sequence - 1) % setup.ring
                         = (writer.start + k) % setup.ring
             /\ \A i, j \in DOMAIN writer.buffer :
                  i # j => writer.buffer[i].sequence # writer.buffer[j].sequence
             /\ sequence[s] <= setup.ring =>
                  /\ writer.newest = IF writer.offset > flushed[s] THEN writer.offset
                                     ELSE flushed[s]
                  /\ \A n \in flushed[s] + 1 .. writer.newest :
                       \E i \in DOMAIN writer.buffer : writer.buffer[i].sequence = n

\* What is on the card counts as flushed, unless the file could not be closed, after which
\* nothing more is written.
RowsAreFlushed ==
  \A s \in Stream : \A i \in DOMAIN rows[s] :
    /\ rows[s][i].boot <= boot
    /\ rows[s][i].boot = boot /\ (active \/ (InFile /\ writer.stream = s)) =>
         rows[s][i].sequence <= flushed[s]

CardInvariant ==
  TypeOK /\ WorkTypeOK /\ WrittenOnce /\ RingHolds /\ CopyHolds /\ RowsAreFlushed

\* A summary that counts only what was observed, once.
IsObserved(s) ==
  \A u \in Unit : /\ s.energy[u] <= 1
                  /\ s.energy[u] = 1 => DayOf(u) = s.day /\ u \in Observed(taken)

\* Every sample in RAM or on the card was taken, and every summary wherever it is counts what
\* was observed; today's, only what came before the last sample.
EnergyIsObserved ==
  /\ \A t \in taken : t.time <= now
  /\ \A i \in 0 .. setup.ring - 1 :
       LET e == ram["samples"].slots[i]
       IN e.sequence # 0 => [boot |-> e.boot, time |-> e.time] \in taken
  /\ writer.at = "copy" /\ writer.stream = "samples" =>
       \A i \in DOMAIN writer.buffer :
         [boot |-> writer.buffer[i].boot, time |-> writer.buffer[i].time] \in taken
  /\ \A i \in DOMAIN rows["samples"] :
       [boot |-> rows["samples"][i].boot, time |-> rows["samples"][i].time] \in taken
  /\ \A d \in Day : daily[d] # Missing => IsObserved([day |-> d, energy |-> daily[d]])
  /\ \A i \in DOMAIN sdWorkQueue :
       sdWorkQueue[i].type = "daily" => IsObserved(sdWorkQueue[i])
  /\ writer.at = "daily" => IsObserved(writer.item)
  /\ summary # None => IsObserved(summary)
  /\ previous # None => previous \in taken
  /\ previous # None /\ summary # None =>
       /\ summary.day = DayOf(previous.time)
       /\ \A u \in Unit : summary.energy[u] = 1 => u < previous.time

\* Why the loss is bounded.  A day that is stored is over and nothing more is written to its
\* file, since its summary and its rows are written by the same task, one after the other.
InFileOf(d) == writer.at \in {"look", "copy"} /\ writer.stream = "samples" /\ writer.day = d

DaysAreOver ==
  /\ \A d \in Day : daily[d] # Missing => d < DayOf(now) /\ ~InFileOf(d)
  /\ \A w \in ToSet(sdWorkQueue) : w.type = "daily" => w.day < DayOf(now)
  /\ writer.at = "daily" => writer.item.day < DayOf(now)

\* The files and the boots follow each other in the order of the rows.
RowsByDay ==
  LET all == rows["samples"] IN
  /\ \A n \in DOMAIN all :
       /\ all[n].day <= DayOf(now)
       /\ \A k \in 1 .. n - 1 : all[k].day <= all[n].day /\ all[k].boot <= all[n].boot
  /\ writer.at \in {"look", "copy"} /\ writer.stream = "samples" =>
       writer.day <= DayOf(now) /\ \A n \in DOMAIN all : all[n].day <= writer.day
  /\ writer.at = "copy" /\ writer.stream = "samples" =>
       \A i \in DOMAIN writer.buffer : writer.buffer[i].day = writer.day

TakenNow == {t \in taken : t.boot = boot}

\* Before the recovery nothing is known of a boot, and then all up to the last sample.
BootIsKnown ==
  /\ \A t \in taken : t.boot <= boot
  /\ \A t \in TakenNow : previous # None /\ t.time <= previous.time
  /\ previous # None => previous.boot = boot /\ summary # None
  /\ summary # None => summary.day <= DayOf(now)
  /\ active /\ ~restored => summary = None /\ previous = None

OldRows(d) == {r \in FileOf(d) : r.boot < boot}

CountsAll(s, samples) == \A u \in Observed(samples) : DayOf(u) = s.day => s.energy[u] >= 1

\* But for the last interval before midnight.
CountsMost(s, samples) ==
  \A u \in Observed(samples) :
    DayOf(u) = s.day /\ u < DayStart(s.day + 1) - MaxGap => s.energy[u] >= 1

\* A summary on the card counts what its file shows; one on its way there also what was taken in
\* this boot, whether or not it is written yet; today's all of it.
StoredDaysCount ==
  \A d \in Day : daily[d] # Missing => CountsMost([day |-> d, energy |-> daily[d]], FileOf(d))

WorkCounts(w) == CountsMost(w, OldRows(w.day)) /\ CountsMost(w, TakenNow)

QueueCounts == \A w \in ToSet(sdWorkQueue) : w.type = "daily" => WorkCounts(w)

ItemCounts == writer.at = "daily" => WorkCounts(writer.item)

TodayCounts ==
  active /\ summary # None =>
    CountsAll(summary, OldRows(summary.day)) /\ CountsAll(summary, TakenNow)

\* A day that begins after the recovery has nothing to recover.
OldDaysAreRecovered ==
  active /\ restored =>
    \A u \in Unit : DayOf(u) >= DayOf(now) /\ u \in Observed(OldRows(DayOf(u))) =>
      summary # None /\ summary.day = DayOf(u)

NothingIsMissed ==
  InOrder(rows["samples"]) =>
    StoredDaysCount /\ QueueCounts /\ ItemCounts /\ TodayCounts /\ OldDaysAreRecovered
=============================================================================
