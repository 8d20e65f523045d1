----------------------------- MODULE EnergyLedger -----------------------------
(***************************************************************************)
(* The recorded energy of a board without a card (energy_reporting.h,        *)
(* energy_mqtt.cpp): a ledger of months in /energy.json, fed with the summary *)
(* of the day that runs, and its periods at the broker, as energy and as COP, *)
(* each with an availability of its own.                                     *)
(*                                                                         *)
(* A unit of time in which energy was observed counts 1, electrical and heat *)
(* alike.  Years are summed like months and are left out, and so are the     *)
(* discovery documents, the second between two attempts, a clock that is set *)
(* back, and a file that cannot be read when it is there.                    *)
(***************************************************************************)
EXTENDS Integers, FiniteSets

CONSTANTS
  DayLength,        \* units of a day
  MonthDays,        \* days of a month
  MaxGap,           \* samples further apart are not connected
  SAVE_INTERVAL, COP_MQTT_PUBLISH_INTERVAL,
  MaxHour, MaxMishaps  \* bounds of the model

VARIABLES
  hour,       \* the time
  clockReady, \* whether the device knows it
  device,     \* the summary of the day, the ledger, what is due; and `json`, /energy.json
  linked,     \* the client believes to be connected
  delivering, \* what it publishes arrives, and the broker says Online of it
  periods,    \* what the broker retains of each period and metric
  looped,     \* history: the day of the last diagnosticsHistoryLoop
  savedAt,    \* history: when it last found a file system that writes
  mishaps     \* lost connections, failed writes and restarts so far

ledgerVars == <<hour, clockReady, device, linked, delivering, periods, looped, savedAt,
                mishaps>>

None == -1
DayOf(t)   == t \div DayLength
MonthOf(d) == d \div MonthDays
Today  == DayOf(hour)
Months == 0 .. MonthOf(DayOf(MaxHour))
More(age, most) == IF age \in {None, most} THEN age ELSE age + 1

-----------------------------------------------------------------------------
(* RecordedEnergyLedger.                                                    *)

\* A month has an entry, or None.  `counted` is history: the units the ledger stands for.
NoLedger == [dayStart |-> None, today |-> 0, months |-> [m \in Months |-> None], counted |-> {}]
Recorded(ledger) == {m \in Months : ledger.months[m] # None}
forMonth(ledger, m) == IF m \in Recorded(ledger) THEN ledger.months[m] ELSE 0

\* Variant: what the session has added already is added again.
DeltaOfAll(device_, day, live) == live

\* Only what the live summary has gained since the last update, in this session and day.
Delta(device_, day, live) ==
  live - (IF device_.sessionDay = day THEN device_.session ELSE 0)

Update(d) ==
  LET day   == d.summary
      delta == Delta(d, day, d.energy)
      old   == IF d.ledger.dayStart = day THEN d.ledger.today ELSE 0
  IN  [d EXCEPT !.sessionDay = day, !.session = d.energy, !.dirty = TRUE,
                !.ledger.dayStart = day, !.ledger.today = old + delta,
                !.ledger.months[MonthOf(day)] = forMonth(d.ledger, MonthOf(day)) + delta]

-----------------------------------------------------------------------------
(* The file, and the summary of the day that feeds the ledger.               *)

loadFallback(d) == IF d.loaded THEN d ELSE [d EXCEPT !.loaded = TRUE, !.ledger = d.json]

\* Variant: the time of the last attempt counts.
SavedAnyway(d, ok) ==
  IF ~d.dirty THEN d
  ELSE IF ok THEN [d EXCEPT !.dirty = FALSE, !.saveAge = 0, !.json = d.ledger]
  ELSE [d EXCEPT !.saveAge = 0]

\* Written to /energy.tmp, which then takes the place of the file, or fails.
saveFallback(d, ok) ==
  IF d.dirty /\ ok
  THEN [d EXCEPT !.dirty = FALSE, !.saveAge = 0, !.json = d.ledger] ELSE d

SaveDue(d) == d.saveAge \in {None, SAVE_INTERVAL}
SavedWhenDue(d, ok) == IF SaveDue(d) THEN saveFallback(d, ok) ELSE d

\* A day that ends is saved at once.
energyMqttUpdateFallback(unloaded, ok) ==
  LET d == loadFallback(unloaded)
      rollover == d.ledger.dayStart \notin {None, d.summary}
  IN  SavedWhenDue(IF rollover THEN saveFallback(Update(d), ok) ELSE Update(d), ok)

\* The units from the last sample on, when the two are connected.
Observed(d) ==
  IF d.sampled # None /\ hour - d.sampled <= MaxGap THEN d.sampled .. hour - 1 ELSE {}
Accumulated(d, units) ==
  [d EXCEPT !.energy = @ + Cardinality(units), !.ledger.counted = @ \cup units]
PublishNow(d) == [d EXCEPT !.pending = TRUE, !.publishAge = None]

\* Variant: the archive is not published again when the old day has got its last interval.
RolledOverQuietly(d) == [d EXCEPT !.summary = Today, !.energy = 0]

RolledOver(d) == [d EXCEPT !.summary = Today, !.energy = 0, !.pending = TRUE]

\* updateDailySummary: an interval over midnight is split between the days.
updateDailySummary(unloaded, ok) ==
  LET d     == loadFallback(unloaded)
      units == Observed(d)
      before == {u \in units : DayOf(u) # Today}
      first == IF d.sampled = None THEN PublishNow(d) ELSE d
      begun == IF first.summary = None
               THEN PublishNow([first EXCEPT !.summary = Today, !.energy = 0])
               ELSE IF first.summary # Today
               THEN RolledOver(energyMqttUpdateFallback(Accumulated(first, before), ok))
               ELSE first
  IN  energyMqttUpdateFallback(
        [Accumulated(begun, units \ before) EXCEPT !.sampled = hour], ok)

-----------------------------------------------------------------------------
(* What is published, in the order of the periods: the day, the month, and     *)
(* each recorded month.  Energy and COP of a period are two messages each, a   *)
(* value, of which we keep the day or month it is of, and its availability.    *)

TheDay   == 0
TheMonth == 1
Dated(m) == m + 2
Current == {TheDay, TheMonth}
Latest  == Dated(MonthOf(DayOf(MaxHour)))
Period  == 0 .. Latest
Metric  == {"kwh", "cop"}

Nothing == [of |-> None, value |-> None]
Valid(of, n) == [online |-> TRUE, number |-> [of |-> of, value |-> n]]
Invalid == [online |-> FALSE, number |-> Nothing]

\* publishRecordedEnergy: the COP of no energy is undefined.
publishRecordedEnergy(of, n) ==
  [metric \in Metric |-> IF metric = "kwh" \/ n > 0 THEN Valid(of, n) ELSE Invalid]

energyMqttPublishFallback(d) ==
  LET l == d.ledger
      now == MonthOf(Today)
      dated == {m \in Recorded(l) : d.pending \/ m = now}
  IN  [p \in Current \cup {Dated(m) : m \in dated} |->
         IF p = TheDay
         THEN publishRecordedEnergy(Today, IF l.dayStart = Today THEN l.today ELSE 0)
         ELSE LET m == IF p = TheMonth THEN now ELSE p - 2
              IN  publishRecordedEnergy(m, forMonth(l, m))]

\* Variant: values of another day stay available.
NoneInvalidated == <<>>

energyMqttInvalidateCurrent ==
  [p \in Current |-> [metric \in Metric |-> [periods[p][metric] EXCEPT !.online = FALSE]]]

\* Variant: Online comes first.
OnlineFirst(old, new) == [old EXCEPT !.online = new.online]

\* The first message of two: a value comes before Online, and Offline before it is removed.
FirstOf(old, new) ==
  IF new.online THEN [new EXCEPT !.online = old.online] ELSE [old EXCEPT !.online = FALSE]

\* What the broker retains when the messages of a publication up to one have arrived.
Arrived(publication, upTo) ==
  [p \in Period |-> [metric \in Metric |->
     LET got == upTo - 4 * p - (IF metric = "kwh" THEN 0 ELSE 2)
     IN  IF p \notin DOMAIN publication \/ got <= 0 THEN periods[p][metric]
         ELSE IF got = 1 THEN FirstOf(periods[p][metric], publication[p][metric])
         ELSE publication[p][metric]]]

Suffered(n) == mishaps + n <= MaxMishaps /\ mishaps' = mishaps + n
Cost(lost) == IF lost THEN 1 ELSE 0

\* All messages arrive; or the connection is lost, only the first do, and the client may
\* notice.  `done`: the client has handed over everything.
Publishing(publication, done, lost) ==
  LET all == 4 * (Latest + 1) IN
  \/ ~lost /\ done /\ periods' = Arrived(publication, all) /\ delivering' = TRUE /\ linked' = TRUE
  \/ /\ lost /\ delivering' = FALSE /\ linked' = done
     /\ \E upTo \in 0 .. all - 1 : periods' = Arrived(publication, upTo)

-----------------------------------------------------------------------------
Initial(json) ==
  [sampled |-> None, summary |-> None, energy |-> 0, sessionDay |-> None, session |-> 0,
   loaded |-> FALSE, ledger |-> NoLedger, json |-> json, dirty |-> FALSE, saveAge |-> None,
   pending |-> TRUE, publishAge |-> None, localDay |-> None]

\* The day has changed: the summary waits for the next sample, and all is published anew.
DayChanged(d, ok) ==
  LET fed == IF d.summary # None /\ d.summary < Today THEN energyMqttUpdateFallback(d, ok) ELSE d
  IN  PublishNow([fed EXCEPT !.localDay = Today])

\* diagnosticsHistoryLoop, as far as energy goes; `take`: a sample is due and can be made.
Looped(take, ok) ==
  LET d == IF take THEN updateDailySummary(device, ok) ELSE device
      e == IF d.localDay # Today THEN DayChanged(d, ok) ELSE d
  IN  SavedWhenDue(loadFallback(e), ok)

PublishDue(d) == d.publishAge \in {None, COP_MQTT_PUBLISH_INTERVAL}

diagnosticsHistoryLoop ==
  /\ clockReady
  /\ \E take, ok, done, lost \in BOOLEAN :
       /\ take => device.sampled # hour
       /\ ok \/ Looped(take, FALSE) # Looped(take, TRUE)
       /\ savedAt' = IF ok THEN hour ELSE savedAt
       /\ Suffered(Cost(lost) + Cost(~ok))
       /\ LET d == Looped(take, ok) IN
          \/ /\ linked /\ PublishDue(d)
             /\ \/ delivering /\ Publishing(energyMqttPublishFallback(d), done, lost)
                \/ ~delivering /\ ~lost /\ linked' = done /\ UNCHANGED <<delivering, periods>>
             /\ device' = IF done THEN [d EXCEPT !.pending = FALSE, !.publishAge = 0] ELSE d
          \/ /\ ~(linked /\ PublishDue(d)) /\ ~done /\ ~lost
             /\ device' = d /\ UNCHANGED <<linked, delivering, periods>>
  /\ looped' = Today
  /\ UNCHANGED <<hour, clockReady>>

\* mqtt_reconnect: nothing of today is known to be true before it is published again.
diagnosticsHistoryMqttConnected ==
  /\ ~linked
  /\ \E done, lost \in BOOLEAN :
       Suffered(Cost(lost)) /\ Publishing(energyMqttInvalidateCurrent, done, lost)
  /\ device' = PublishNow(device)
  /\ UNCHANGED <<hour, clockReady, looped, savedAt>>

LinkBreaks ==
  /\ delivering /\ delivering' = FALSE /\ Suffered(1)
  /\ UNCHANGED <<hour, clockReady, device, linked, periods, looped, savedAt>>

LossNoticed ==
  /\ linked /\ ~delivering /\ linked' = FALSE
  /\ UNCHANGED <<hour, clockReady, device, delivering, periods, looped, savedAt, mishaps>>

\* The network has told the time.
ClockReady ==
  /\ ~clockReady /\ clockReady' = TRUE
  /\ UNCHANGED <<hour, device, linked, delivering, periods, looped, savedAt, mishaps>>

Restart ==
  /\ Suffered(1)
  /\ device' = Initial(device.json)
  /\ clockReady' = FALSE /\ linked' = FALSE /\ delivering' = FALSE
  /\ UNCHANGED <<hour, periods, looped, savedAt>>

Tick ==
  /\ hour < MaxHour /\ hour' = hour + 1
  /\ device' = [device EXCEPT !.saveAge = More(@, SAVE_INTERVAL),
                              !.publishAge = More(@, COP_MQTT_PUBLISH_INTERVAL)]
  /\ UNCHANGED <<clockReady, linked, delivering, periods, looped, savedAt, mishaps>>

LedgerInit ==
  /\ hour = 0 /\ clockReady = FALSE /\ device = Initial(NoLedger)
  /\ linked = FALSE /\ delivering = FALSE
  /\ periods = [p \in Period |-> [metric \in Metric |-> Invalid]]
  /\ looped = 0 /\ savedAt = 0 /\ mishaps = 0

LedgerNext ==
  \/ diagnosticsHistoryLoop \/ diagnosticsHistoryMqttConnected \/ LinkBreaks \/ LossNoticed
  \/ ClockReady \/ Restart \/ Tick

-----------------------------------------------------------------------------
(* Properties.                                                              *)

\* The recorded months and the recorded day are the sums of what was observed in them,
\* whatever is saved, restarted or split at midnight: no unit is counted twice, and none
\* of the day that ends falls between the two.
LedgerAddsUp ==
  \A l \in {device.ledger, device.json} :
    /\ \A m \in Months : forMonth(l, m) = Cardinality({u \in l.counted : MonthOf(DayOf(u)) = m})
    /\ l.dayStart # None => l.today = Cardinality({u \in l.counted : DayOf(u) = l.dayStart})

\* While the file system writes, a restart loses no more than the save interval and one
\* interval between two samples.
CheckpointIsRecent ==
  \A u \in device.ledger.counted \ device.json.counted : u >= savedAt - SAVE_INTERVAL - MaxGap

\* A period of now that is Online is of now: yesterday's values, retained over a restart
\* or a lost connection, are never shown as today's once the loop has come round.
TodayIsToday ==
  delivering /\ looped = Today =>
    \A p \in Current, metric \in Metric : periods[p][metric].online =>
      periods[p][metric].number.of = (IF p = TheDay THEN Today ELSE MonthOf(Today))

\* With nothing pending and the loop come round, what the broker retains of a past month is
\* what the ledger has, with the interval that was split at the end of the month.
HistoryIsCurrent ==
  delivering /\ looped = Today /\ ~device.pending =>
    \A m \in Recorded(device.ledger) \ {MonthOf(Today)} :
      periods[Dated(m)]["kwh"] = Valid(m, device.ledger.months[m])

\* What is Online has a value, even when the connection breaks between two messages.
OnlineHasValue ==
  \A p \in Period, metric \in Metric :
    periods[p][metric].online => periods[p][metric].number # Nothing

RecordedIsPublished ==
  LedgerAddsUp /\ CheckpointIsRecent /\ TodayIsToday /\ HistoryIsCurrent /\ OnlineHasValue

-----------------------------------------------------------------------------
(* Why they hold.                                                            *)

Time   == 0 .. MaxHour
Number == [of : Int, value : Int]
Retainable == [online : BOOLEAN, number : Number]
LedgerType ==
  [dayStart : Nat \cup {None}, today : Nat, months : [Months -> Nat \cup {None}],
   counted : SUBSET Time]
Device ==
  [sampled : Time \cup {None}, summary : Nat \cup {None}, energy : Nat,
   sessionDay : Nat \cup {None}, session : Nat, loaded : BOOLEAN, ledger : LedgerType,
   json : LedgerType, dirty : BOOLEAN, saveAge : 0 .. SAVE_INTERVAL \cup {None},
   pending : BOOLEAN, publishAge : Nat \cup {None}, localDay : Nat \cup {None}]

LedgerTypeOK ==
  /\ hour \in Time /\ savedAt \in 0 .. hour /\ looped \in Nat
  /\ linked \in BOOLEAN /\ delivering \in BOOLEAN
  /\ device \in Device
  /\ periods \in [Period -> [Metric -> Retainable]]

\* A ledger adds up, and its last day is the last of what it counts.
AddsUp(l) ==
  /\ \A m \in Months : forMonth(l, m) = Cardinality({u \in l.counted : MonthOf(DayOf(u)) = m})
  /\ l.dayStart # None => l.today = Cardinality({u \in l.counted : DayOf(u) = l.dayStart})
  /\ \A u \in l.counted : u < hour /\ l.dayStart # None /\ DayOf(u) <= l.dayStart
  /\ l.dayStart # None => l.dayStart <= Today

\* The ledger stands for all of the live summary and for nothing after the last sample.
IsFed(d) ==
  /\ ~d.loaded => d.ledger = NoLedger /\ ~d.dirty /\ d.saveAge = None
  /\ d.summary = None => d.sampled = None /\ d.sessionDay = None
  /\ d.summary # None =>
       /\ d.loaded /\ d.sessionDay = d.summary /\ d.session = d.energy
       /\ d.ledger.dayStart = d.summary
       /\ d.sampled # None /\ d.sampled <= hour /\ d.summary = DayOf(d.sampled)
       /\ \A u \in d.ledger.counted : u < d.sampled

\* What is not saved is no older than the last saving, nor than what it may be.
IsCheckpointed(d) ==
  LET unsaved == d.ledger.counted \ d.json.counted
  IN  /\ ~d.dirty => unsaved = {}
      /\ \A u \in unsaved : /\ u >= savedAt - SAVE_INTERVAL - MaxGap
                            /\ ~SaveDue(d) => u >= hour - d.saveAge - MaxGap

DeviceIsKept(d) ==
  d \in Device /\ AddsUp(d.ledger) /\ AddsUp(d.json) /\ IsFed(d) /\ IsCheckpointed(d)

\* While messages arrive, current periods are of the day the loop has last come round, and the
\* others are what the ledger has.
PeriodsAreKept ==
  /\ delivering => linked
  /\ device.localDay # None => device.localDay = looped /\ device.loaded
  /\ delivering =>
       \A p \in Current, metric \in Metric : periods[p][metric].online =>
         /\ device.localDay # None
         /\ periods[p][metric].number.of
              = (IF p = TheDay THEN device.localDay ELSE MonthOf(device.localDay))
  /\ delivering /\ ~device.pending =>
       /\ device.localDay # None
       /\ \A m \in Recorded(device.ledger) \ {MonthOf(device.localDay)} :
            periods[Dated(m)]["kwh"] = Valid(m, device.ledger.months[m])
  /\ OnlineHasValue

LedgerInvariant == LedgerTypeOK /\ DeviceIsKept(device) /\ PeriodsAreKept
=============================================================================
