------------------------------ MODULE Scheduler ------------------------------
(***************************************************************************)
(* The Scheduler (HeishaMon/scheduler.cpp, scheduler_logic.h): weekly       *)
(* schedules, each a condition and a group of up to four actions.  Once per *)
(* local minute the due schedules are put into a ring of pending groups; a  *)
(* group is worked off one action at a time, with a minimum distance        *)
(* between two actions, and is given up when an action fails.  The          *)
(* configuration is kept in /scheduler.json; the minute a schedule last ran *)
(* in is kept in RAM only.                                                 *)
(*                                                                         *)
(* Time.  The local minutes are numbered; a schedule is due in the minutes  *)
(* that are congruent to its `at` modulo Cycle, which stands for weekday,   *)
(* hour and minute.  The clock may be unset, moves on, and may be set back  *)
(* by less than a cycle in all (NTP, end of daylight saving time).         *)
(*                                                                         *)
(* Data.  What a condition evaluates to is chosen each time it is           *)
(* evaluated, and so is what the dispatcher answers for an action.  The     *)
(* event log and submitAutomationAction, which nothing calls, are left out. *)
(***************************************************************************)
EXTENDS Integers, FiniteSets, Sequences

CONSTANTS
  Id,                      \* schedule IDs, 1 .. 255 in the code
  SCHEDULER_MAX_ENTRIES,   \* schedules, and places in the ring
  SCHEDULER_MAX_ACTIONS,   \* actions of one schedule
  SCHEDULER_DISPATCH_INTERVAL,
  Cycle,                   \* minutes of a week
  None,                    \* no minute
  Torn,                    \* a configuration file that cannot be parsed
  SaveOutcome,             \* what may become of a save, see CommitChange
  InitialEntries,          \* the schedules a device may have been set up with
  MaxMinute,               \* bound of the model: minutes the clock shows
  MaxBack,                 \* minutes by which the clock is set back at most, in all
  MaxReboot,               \* bound of the model: restarts
  MaxEdit                  \* bound of the model: changes made by the user

ASSUME SchedulerAssumption ==
  /\ Id \subseteq Nat \ {0}
  /\ SCHEDULER_MAX_ENTRIES \in Nat \ {0}
  /\ SCHEDULER_MAX_ACTIONS \in Nat \ {0}
  /\ SCHEDULER_DISPATCH_INTERVAL \in Nat
  /\ Cycle \in Nat \ {0}
  /\ None \notin Nat
  /\ SaveOutcome \subseteq {"ok", "short", "failed", "torn"}
  /\ MaxMinute \in Nat /\ MaxReboot \in Nat /\ MaxEdit \in Nat
  /\ MaxBack \in Nat /\ MaxBack < Cycle

VARIABLES
  entries,     \* entries_[0 .. count_ - 1]
  enabled,     \* enabled_: not globally paused
  pending,     \* pending_, pendingStart_ and pendingCount_
  lastChecked, \* lastCheckedMinuteKey_, or None
  sinceDispatch, \* time since lastDispatchAt_, saturating at the interval
  stored,      \* the configuration file, or Torn
  clockValid, minute, \* the local time
  backs,       \* minutes by which the clock has been set back
  reboots, edits, \* counters that bound the environment
  ran,         \* history: <<id, minute, reboots>> of the runs of the schedules that
               \* exist, in the minutes they are configured for
  reran        \* history: those of them that were repeated without a restart

queueVars == <<pending, sinceDispatch>>
clockVars == <<clockValid, minute, backs>>
history == <<ran, reran>>
vars == <<entries, enabled, queueVars, lastChecked, stored, clockVars, reboots, edits, history>>

Settings == [at : 0 .. Cycle - 1, actionCount : 1 .. SCHEDULER_MAX_ACTIONS, enabled : BOOLEAN]
Minute   == 0 .. MaxMinute
Place    == 0 .. SCHEDULER_MAX_ENTRIES - 1

-----------------------------------------------------------------------------
(* The configuration: entries with their IDs, unique; kept in a file.       *)

NewEntry(id, settings) ==
  [id |-> id, settings |-> settings, lastExecutionKey |-> None]

\* The set-ups are configurations the editor accepts, of schedules that have not run.
ASSUME InitialAssumption ==
  \A es \in InitialEntries :
    /\ es \in Seq([id : Id, settings : Settings, lastExecutionKey : {None}])
    /\ Len(es) <= SCHEDULER_MAX_ENTRIES
    /\ \A i, j \in DOMAIN es : es[i].id = es[j].id => i = j

Config(es, en) ==
  [enabled |-> en, entries |-> [i \in DOMAIN es |-> [es[i] EXCEPT !.lastExecutionKey = None]]]

UsedIds == {entries[i].id : i \in DOMAIN entries}

\* Variant: IDs are counted.
NextIdCounted == IF Len(entries) + 1 \in Id THEN Len(entries) + 1 ELSE CHOOSE id \in Id : TRUE

\* The least ID that is free.
NextId == CHOOSE id \in Id \ UsedIds : \A other \in Id \ UsedIds : id <= other

Due(settings, m) == settings.at = m % Cycle

\* The runs of the schedules es in the minutes they are configured for.
Relevant(es) ==
  {r \in ran : \E i \in DOMAIN es : es[i].id = r[1] /\ Due(es[i].settings, r[2])}

\* Variant: the change is kept although it could not be saved.
CommitChangeKept(es, en) ==
  \E outcome \in SaveOutcome :
    /\ stored'  = CASE outcome = "ok" -> Config(es, en)
                    [] outcome = "failed" -> stored
                    [] OTHER -> Torn
    /\ entries' = es /\ enabled' = en
    /\ ran' = Relevant(es)
    /\ edits < MaxEdit /\ edits' = edits + 1
    /\ UNCHANGED <<queueVars, lastChecked, clockVars, reboots, reran>>

\* Write es and en to the file and keep them, or keep what was: a change that
\* is not saved is taken back.  The file may be left as it was ("failed"), be
\* emptied ("torn"), or be cut off with the write still counted as done ("short").
CommitChange(es, en) ==
  \E outcome \in SaveOutcome :
    /\ stored'  = CASE outcome = "ok" -> Config(es, en)
                    [] outcome = "failed" -> stored
                    [] OTHER -> Torn
    /\ entries' = IF outcome \in {"ok", "short"} THEN es ELSE entries
    /\ enabled' = IF outcome \in {"ok", "short"} THEN en ELSE enabled
    /\ ran' = Relevant(entries')
    /\ edits < MaxEdit /\ edits' = edits + 1
    /\ UNCHANGED <<queueVars, lastChecked, clockVars, reboots, reran>>

\* upsert of a new schedule.
Add(settings) ==
  /\ Len(entries) < SCHEDULER_MAX_ENTRIES
  /\ UsedIds # Id
  /\ CommitChange(Append(entries, NewEntry(NextId, settings)), enabled)

\* Variant: the schedule starts anew.
UpdateForgetting(i, settings) ==
  /\ i \in DOMAIN entries
  /\ CommitChange([entries EXCEPT ![i] = NewEntry(@.id, settings)], enabled)

\* upsert of an existing one: the minute it last ran in is kept.
Update(i, settings) ==
  /\ i \in DOMAIN entries
  /\ CommitChange([entries EXCEPT ![i].settings = settings], enabled)

\* What it has queued already stays queued.
Remove(i) ==
  /\ i \in DOMAIN entries
  /\ CommitChange(SubSeq(entries, 1, i - 1) \o SubSeq(entries, i + 1, Len(entries)), enabled)

SetEnabled(en) == CommitChange(entries, en)

-----------------------------------------------------------------------------
(* The ring of pending groups.                                             *)

Group(e) == [id |-> e.id, actionCount |-> e.settings.actionCount, nextActionIndex |-> 0]

\* What is in a place that is not in use (the code leaves there what was, unread).
NoGroup == [id |-> 0, actionCount |-> 1, nextActionIndex |-> 0]

EmptyRing == [slot |-> [p \in Place |-> NoGroup], start |-> 0, count |-> 0]

\* Variant: the write index forgets where the ring starts.
WriteIndexFromZero(q, k) == (q.count + k - 1) % SCHEDULER_MAX_ENTRIES

\* The place of the k-th group that is added.
WriteIndex(q, k) == (q.start + q.count + k - 1) % SCHEDULER_MAX_ENTRIES

\* Variant: the ring does not turn.
PoppedUnturned(q) ==
  [slot  |-> [q.slot EXCEPT ![q.start] = [id |-> 0, actionCount |-> 1, nextActionIndex |-> 0]],
   start |-> q.start + 1,
   count |-> q.count - 1]

\* The groups gs added in their order; those that find the ring full are lost.
Enqueued(q, gs) ==
  LET room == SCHEDULER_MAX_ENTRIES - q.count
      n    == IF Len(gs) <= room THEN Len(gs) ELSE room
  IN [q EXCEPT !.slot = [p \in Place |->
                           IF \E k \in 1 .. n : WriteIndex(q, k) = p
                           THEN gs[CHOOSE k \in 1 .. n : WriteIndex(q, k) = p]
                           ELSE q.slot[p]],
               !.count = @ + n]

Popped(q) ==
  [slot  |-> [q.slot EXCEPT ![q.start] = NoGroup],
   start |-> (q.start + 1) % SCHEDULER_MAX_ENTRIES,
   count |-> q.count - 1]

Result == {"executed", "no change", "busy", "failed"}

SequenceContinues(result) == result \in {"executed", "no change"}

\* Variant: an action that finds the controller busy is tried again.
DispatchedRetrying(q, result) ==
  LET g == q.slot[q.start]
  IN CASE result = "busy" -> q
       [] SequenceContinues(result) /\ g.nextActionIndex + 1 < g.actionCount ->
            [q EXCEPT !.slot[q.start].nextActionIndex = @ + 1]
       [] OTHER -> Popped(q)

Dispatched(q, result) ==
  LET g == q.slot[q.start]
  IN IF SequenceContinues(result) /\ g.nextActionIndex + 1 < g.actionCount
     THEN [q EXCEPT !.slot[q.start].nextActionIndex = @ + 1]
     ELSE Popped(q)

-----------------------------------------------------------------------------
(* loop().                                                                 *)

DueNow(i) ==
  /\ Due(entries[i].settings, minute)
  /\ entries[i].lastExecutionKey # minute

\* Variant: no entry is marked.
MarkedNever == entries

\* Each due entry is marked, also one that is then skipped.
Marked ==
  [i \in DOMAIN entries |->
     IF DueNow(i) THEN [entries[i] EXCEPT !.lastExecutionKey = minute] ELSE entries[i]]

\* The due schedules whose condition holds.
Chosen(passed) ==
  {i \in DOMAIN entries : DueNow(i) /\ enabled /\ entries[i].settings.enabled /\ i \in passed}

\* They are queued in the order of the entries.
InOrder(S) ==
  CHOOSE s \in [1 .. Cardinality(S) -> S] : \A j, k \in DOMAIN s : j < k => s[j] < s[k]

ToRun(passed) == InOrder(Chosen(passed))

CheckSchedules(passed) ==
  LET runs == {<<entries[i].id, minute, reboots>> : i \in Chosen(passed)}
  IN /\ lastChecked' = minute
     /\ entries' = Marked
     /\ ran' = ran \cup runs
     /\ reran' = reran \cup (runs \cap ran)

\* The ring after the check of this minute.
Checked(passed) ==
  LET order == ToRun(passed)
  IN IF lastChecked = minute THEN pending
     ELSE Enqueued(pending, [k \in DOMAIN order |-> Group(entries[order[k]])])

\* Variant: no minimum distance.
DispatchReadyAlways(q) == q.count > 0

DispatchReady(q) == q.count > 0 /\ sinceDispatch = SCHEDULER_DISPATCH_INTERVAL

\* dispatchNext: a paused Scheduler fails the action.
DispatchNext(q, result) ==
  IF DispatchReady(q)
  THEN /\ ~enabled => result = "failed"
       /\ pending' = Dispatched(q, result)
       /\ sinceDispatch' = 0
  ELSE /\ result = "failed" \* not used
       /\ pending' = q
       /\ UNCHANGED sinceDispatch

Loop(passed, result) ==
  /\ clockValid
  /\ IF lastChecked = minute THEN UNCHANGED <<lastChecked, entries, history>>
     ELSE CheckSchedules(passed)
  /\ DispatchNext(Checked(passed), result)
  /\ UNCHANGED <<enabled, stored, clockVars, reboots, edits>>

\* Without a valid time everything that is pending is cancelled.
LoopWithoutTime ==
  /\ ~clockValid
  /\ pending' = EmptyRing
  /\ UNCHANGED <<entries, enabled, sinceDispatch, lastChecked, stored, clockVars,
                 reboots, edits, history>>

\* runNow: at any time, also without a valid clock, if the condition holds and
\* there is room.
RunNow(i) ==
  /\ enabled
  /\ i \in DOMAIN entries
  /\ pending.count < SCHEDULER_MAX_ENTRIES
  /\ edits < MaxEdit /\ edits' = edits + 1
  /\ pending' = Enqueued(pending, <<Group(entries[i])>>)
  /\ UNCHANGED <<entries, enabled, sinceDispatch, lastChecked, stored, clockVars,
                 reboots, history>>

-----------------------------------------------------------------------------
(* Time, and restarts.                                                     *)

TimePasses ==
  /\ sinceDispatch < SCHEDULER_DISPATCH_INTERVAL
  /\ sinceDispatch' = sinceDispatch + 1
  /\ UNCHANGED <<entries, enabled, pending, lastChecked, stored, clockVars, reboots,
                 edits, history>>

NextMinute ==
  /\ clockValid /\ minute < MaxMinute
  /\ minute' = minute + 1
  /\ UNCHANGED <<entries, enabled, queueVars, lastChecked, stored, clockValid, backs,
                 reboots, edits, history>>

\* The clock is set, for the first time or back.
SetClock(m) ==
  /\ IF clockValid
     THEN m < minute /\ backs' = backs + (minute - m) /\ backs' <= MaxBack
     ELSE minute <= m /\ UNCHANGED backs
  /\ clockValid' = TRUE /\ minute' = m
  /\ UNCHANGED <<entries, enabled, queueVars, lastChecked, stored, reboots, edits, history>>

\* The constructor and load(): the minutes the schedules last ran in are lost; an
\* unreadable file leaves no schedule and a paused Scheduler.  The clock is unset
\* after a power cut and still runs after ESP.restart.
Reboot(clockKept) ==
  /\ reboots < MaxReboot /\ reboots' = reboots + 1
  /\ entries' = IF stored = Torn THEN <<>> ELSE stored.entries
  /\ enabled' = IF stored = Torn THEN FALSE ELSE stored.enabled
  /\ pending' = EmptyRing
  /\ lastChecked' = None
  /\ sinceDispatch' = SCHEDULER_DISPATCH_INTERVAL
  /\ clockValid' = (clockKept /\ clockValid)
  /\ ran' = Relevant(entries')
  /\ UNCHANGED <<stored, minute, backs, edits, reran>>

\* The device has just started with a configuration in its file.
Init ==
  /\ entries \in InitialEntries /\ enabled = TRUE
  /\ pending = EmptyRing
  /\ lastChecked = None
  /\ sinceDispatch = SCHEDULER_DISPATCH_INTERVAL
  /\ stored = Config(entries, enabled)
  /\ clockValid = FALSE /\ minute = 0
  /\ backs = 0 /\ reboots = 0 /\ edits = 0
  /\ ran = {} /\ reran = {}

MainLoop ==
  \/ \E passed \in SUBSET DOMAIN entries, result \in Result : Loop(passed, result)
  \/ LoopWithoutTime

UserRequest ==
  \/ \E settings \in Settings :
       Add(settings) \/ \E i \in DOMAIN entries : Update(i, settings)
  \/ \E i \in DOMAIN entries : Remove(i) \/ RunNow(i)
  \/ \E en \in BOOLEAN : SetEnabled(en)

Next ==
  \/ MainLoop
  \/ UserRequest
  \/ TimePasses \/ NextMinute \/ (\E m \in Minute : SetClock(m))
  \/ \E clockKept \in BOOLEAN : Reboot(clockKept)

Spec == Init /\ [][Next]_vars

\* loop() runs again and again, and time passes.
Fairness == WF_vars(MainLoop) /\ WF_vars(TimePasses)
FairSpec == Spec /\ Fairness

-----------------------------------------------------------------------------
(* Properties.                                                             *)

Entry == [id : Id, settings : Settings, lastExecutionKey : Minute \cup {None}]
GroupType ==
  [id : Id \cup {0}, actionCount : 1 .. SCHEDULER_MAX_ACTIONS,
   nextActionIndex : 0 .. SCHEDULER_MAX_ACTIONS - 1]

TypeOK ==
  /\ entries \in Seq(Entry) /\ Len(entries) <= SCHEDULER_MAX_ENTRIES
  /\ enabled \in BOOLEAN
  /\ pending \in [slot : [Place -> GroupType], start : Place, count : 0 .. SCHEDULER_MAX_ENTRIES]
  /\ lastChecked \in Minute \cup {None}
  /\ sinceDispatch \in 0 .. SCHEDULER_DISPATCH_INTERVAL
  /\ clockValid \in BOOLEAN /\ minute \in Minute
  /\ backs \in 0 .. MaxBack /\ reboots \in 0 .. MaxReboot /\ edits \in 0 .. MaxEdit
  /\ \A h \in {ran, reran} : h \subseteq Id \X Minute \X (0 .. MaxReboot)

\* No two schedules have the same ID, which update, deletion and manual run go by,
\* whatever was deleted and added before (nextId, findIndex, load).
UniqueIds ==
  \A i, j \in DOMAIN entries : entries[i].id = entries[j].id => i = j

\* What is in effect is what the file holds, unless the file cannot be read: a change
\* whose save was reported as failed is taken back completely (upsert, remove,
\* setEnabled).
StoredIsCurrent == stored \in {Torn, Config(entries, enabled)}

\* From one restart to the next a schedule is taken up at most once in its minute: also
\* when the clock is set back into the minute, and when the schedule is edited without
\* moving it, disabled and enabled, in that minute (checkSchedules, upsert).
OnceBetweenRestarts == reran = {}

\* Why: a run leaves the minute in the schedule, which no change of the schedule takes
\* away.  The clock is set back by less than a cycle, so the minute of the next run, if it
\* is not that same minute, is a later one.  Schedules that were moved out of the minute
\* of their runs have no relevant runs.
RunsAreMarked ==
  /\ \A i \in DOMAIN entries :
       LET key == entries[i].lastExecutionKey
       IN /\ key # None => key <= minute + backs
          /\ \A r \in ran :
               entries[i].id = r[1] /\ r[3] = reboots =>
                 key # None /\ r[2] <= key /\ Due(entries[i].settings, key)
  /\ ran = Relevant(entries)
  /\ \A r \in ran : r[3] <= reboots

\* The ring q as a sequence of the groups with the actions that are left, for ActionGroups.
PlaceOf(q, k) == (q.start + k - 1) % SCHEDULER_MAX_ENTRIES
Rest(g) == [id |-> g.id, left |-> g.actionCount - g.nextActionIndex]
QueueOf(q) == [k \in 1 .. q.count |-> Rest(q.slot[PlaceOf(q, k)])]

\* Each group that is in use is one of a schedule, with an action that is left.
GroupsAreOpen == QueueOf(pending) \in Seq([id : Id, left : 1 .. SCHEDULER_MAX_ACTIONS])

Abstract ==
  INSTANCE ActionGroups WITH
    Owner     <- Id,
    MaxLeft   <- SCHEDULER_MAX_ACTIONS,
    Capacity  <- SCHEDULER_MAX_ENTRIES,
    Distance  <- SCHEDULER_DISPATCH_INTERVAL,
    queue     <- QueueOf(pending),
    wait      <- SCHEDULER_DISPATCH_INTERVAL - sinceDispatch

\* The ring, with its places, start and count, is a bounded first-in first-out queue
\* of action groups: see ActionGroups (enqueue, dispatchNext, cancelPending).
ImplementsGroups == Abstract!Spec

\* A group does not stay at the head of the ring: it is worked off, given up or
\* cancelled, whatever the dispatcher answers (dispatchNext).
HeadLeaves ==
  \A p \in Place :
    pending.count > 0 /\ pending.start = p ~> pending.count = 0 \/ pending.start # p
=============================================================================
