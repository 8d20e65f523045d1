------------------------------ MODULE TimerQueue ------------------------------
(***************************************************************************)
(* The timer queue (HeishaMon/src/common/timerqueue.cpp): the timers of the *)
(* rules (setTimer, numbers > 0) and of the firmware itself (reboot, WiFi,   *)
(* rules reload, NTP; numbers < 0).                                         *)
(*                                                                         *)
(* Every timer keeps the time it still has to wait, `left`.  A pass of the  *)
(* main loop (timerqueue_update) subtracts what elapsed since the last pass *)
(* from all of them, notes who is due in `calls`, pops due timers from the  *)
(* front of the sorted queue, and then calls timer_cb for every noted one.  *)
(* timerqueue_pop subtracts what the popped timer had left from all others, *)
(* as if the queue held differences.                                        *)
(*                                                                         *)
(* The array and its sort are abstracted to the set `queued`: the front is  *)
(* any timer with the least time left.  Seconds and microseconds are one    *)
(* number of ticks.  A callback may arm and cancel timers; other code does  *)
(* so between passes.                                                      *)
(***************************************************************************)
EXTENDS Integers, FiniteSets, Sequences

CONSTANTS
  Timer,       \* the timer numbers in use
  Delay,       \* the times timers are set to between passes; 0 cancels
  CallbackDelay, \* ... and by the callbacks
  MaxStall,    \* bound of the model: longest time between two passes
  MaxSetTimer, \* bound of the model: setTimer calls of one callback
  None         \* no callback is running

ASSUME TimerAssumption ==
  /\ IsFiniteSet(Timer) /\ None \notin Timer
  /\ Delay \subseteq Nat /\ CallbackDelay \subseteq Nat
  /\ MaxStall \in Nat
  /\ MaxSetTimer \in Nat

VARIABLES
  queued,      \* the timers in the queue (left and promised of the others are 0)
  left,        \* left[t]: time timer t still waits, as of the last pass
  sinceUpdate, \* time since the last pass, curtime - lasttime
  calls,       \* the callbacks the current pass still has to make
  running,     \* the timer whose callback runs, or None
  setTimers,   \* setTimer calls the running callback has made
  \* history variables, read by the properties only
  status,      \* status[t]: "armed" since it was set, "cancelled" since it was
               \* cancelled, or "idle" since it was called
  promised     \* promised[t]: time before t may be called, from when it was set

queueVars == <<queued, left>>
vars == <<queueVars, sinceUpdate, calls, running, setTimers, status, promised>>

Armed  == {t \in Timer : status[t] = "armed"}
Called == {calls[i] : i \in 1 .. Len(calls)}

-----------------------------------------------------------------------------
(* timerqueue_insert(sec, usec, nr).                                       *)

\* calls without the first occurrence of t.
Uncalled(t) ==
  IF t \notin Called THEN calls
  ELSE LET i == CHOOSE j \in 1 .. Len(calls) :
                  calls[j] = t /\ \A k \in 1 .. j - 1 : calls[k] # t
       IN SubSeq(calls, 1, i - 1) \o SubSeq(calls, i + 1, Len(calls))

\* Variant: a queued timer keeps its time if that is sooner.
ArmKeepingSooner(t, d) ==
  /\ d > 0
  /\ queued' = queued \cup {t}
  /\ left' = [left EXCEPT ![t] = IF t \in queued /\ @ < d THEN @ ELSE d]
  /\ status' = [status EXCEPT ![t] = "armed"]
  /\ promised' = [promised EXCEPT ![t] = d - sinceUpdate]
  /\ UNCHANGED calls

\* A new timer, or a new time for a queued one.  The time is entered as if the
\* last pass were now, so sinceUpdate of it is already gone.
Arm(t, d) ==
  /\ d > 0
  /\ queued' = queued \cup {t}
  /\ left' = [left EXCEPT ![t] = d]
  /\ status' = [status EXCEPT ![t] = "armed"]
  /\ promised' = [promised EXCEPT ![t] = d - sinceUpdate]
  /\ UNCHANGED calls

Disarm(t) ==
  /\ queued' = queued \ {t}
  /\ left' = [left EXCEPT ![t] = 0]
  /\ status' = [status EXCEPT ![t] = "cancelled"]
  /\ promised' = [promised EXCEPT ![t] = 0]

\* A queued timer is taken out, of the calls too; any other is ignored.
Cancel(t, d) ==
  /\ d = 0
  /\ Disarm(t)
  /\ calls' = IF t \in queued THEN Uncalled(t) ELSE calls

Insert(t, d) == Arm(t, d) \/ Cancel(t, d)

-----------------------------------------------------------------------------
(* timerqueue_update.                                                      *)

Now(t)   == left[t] - sinceUpdate
Due      == {t \in queued : Now(t) <= 0}
First(t) == t \in queued /\ \A u \in queued : Now(t) <= Now(u)

\* The timers that are popped: those that are due and have the least time left.
\* The pop of the first adds its delay to all others, which puts any due timer
\* with more time left back into the future.
Popped == {t \in Due : First(t)}

\* Variant: the pop leaves the other timers alone.
RemainsUnshifted(t) == Now(t)

Remains(t) ==
  IF Popped = {} THEN Now(t) ELSE Now(t) - Now(CHOOSE u \in Popped : TRUE)

\* The due timers in the order of the queue.
CallOrders ==
  {s \in [1 .. Cardinality(Due) -> Due] :
     /\ \A i, j \in DOMAIN s : i < j => s[i] # s[j] /\ Now(s[i]) <= Now(s[j])}

Update ==
  /\ running = None /\ calls = <<>>
  /\ calls' \in CallOrders
  /\ queued' = queued \ Popped
  /\ left' = [t \in Timer |-> IF t \in queued \ Popped THEN Remains(t) ELSE 0]
  /\ sinceUpdate' = 0
  /\ UNCHANGED <<running, setTimers, status, promised>>

\* timer_cb(calls[0])
StartCallback ==
  /\ running = None /\ calls # <<>>
  /\ running' = Head(calls)
  /\ setTimers' = 0
  /\ status' = [status EXCEPT ![Head(calls)] = "idle"]
  /\ promised' = [promised EXCEPT ![Head(calls)] = 0]
  /\ UNCHANGED <<queueVars, sinceUpdate, calls>>

SetTimerInCallback(t, d) ==
  /\ running # None /\ setTimers < MaxSetTimer
  /\ setTimers' = setTimers + 1
  /\ Insert(t, d)
  /\ UNCHANGED <<sinceUpdate, running>>

\* Variant: the calls end with the first callback.
EndCallbackOfAll ==
  /\ running # None
  /\ running' = None
  /\ calls' = <<>>
  /\ UNCHANGED <<queueVars, sinceUpdate, setTimers, status, promised>>

\* The first call is dropped, if there still is one.
EndCallback ==
  /\ running # None
  /\ running' = None
  /\ calls' = IF calls = <<>> THEN calls ELSE Tail(calls)
  /\ UNCHANGED <<queueVars, sinceUpdate, setTimers, status, promised>>

-----------------------------------------------------------------------------
\* Rules for other events, the web pages and check_wifi run between two passes.
SetTimerOutside(t, d) ==
  /\ running = None /\ calls = <<>>
  /\ Insert(t, d)
  /\ UNCHANGED <<sinceUpdate, running, setTimers>>

\* The clock, micros().  `promised` is not needed below -MaxStall.
Tick ==
  /\ sinceUpdate < MaxStall
  /\ sinceUpdate' = sinceUpdate + 1
  /\ promised' = [t \in Timer |-> IF t \in Armed /\ promised[t] > -MaxStall
                                  THEN promised[t] - 1 ELSE promised[t]]
  /\ UNCHANGED <<queueVars, calls, running, setTimers, status>>

Init ==
  /\ queued = {} /\ status = [t \in Timer |-> "idle"]
  /\ left = [t \in Timer |-> 0]
  /\ promised = [t \in Timer |-> 0]
  /\ sinceUpdate = 0
  /\ calls = <<>> /\ running = None /\ setTimers = 0

Next ==
  \/ \E t \in Timer, d \in Delay : SetTimerOutside(t, d)
  \/ \E t \in Timer, d \in CallbackDelay : SetTimerInCallback(t, d)
  \/ Update \/ StartCallback \/ EndCallback
  \/ Tick

Spec == Init /\ [][Next]_vars

\* loop() makes pass after pass, a callback ends, and the clock runs.
Fairness == WF_vars(Update) /\ WF_vars(StartCallback) /\ WF_vars(EndCallback) /\ WF_vars(Tick)
FairSpec == Spec /\ Fairness

-----------------------------------------------------------------------------
(* Properties.                                                             *)

TypeOK ==
  /\ queued \subseteq Timer
  /\ left \in [Timer -> Nat]
  /\ sinceUpdate \in 0 .. MaxStall
  /\ calls \in Seq(Timer)
  /\ running \in Timer \cup {None}
  /\ setTimers \in 0 .. MaxSetTimer
  /\ status \in [Timer -> {"idle", "armed", "cancelled"}]
  /\ promised \in [Timer -> Int]

\* However late the main loop is, no timer is called before its time: the shifts
\* timerqueue_pop applies to the other timers only ever delay them.  (A timer that
\* is in the queue and called is one that will be called twice.)
NeverEarly ==
  \A t \in Armed : (t \in queued => promised[t] <= left[t] - sinceUpdate)
                   /\ (t \in Called /\ t \notin queued => promised[t] <= 0)

\* After a pass every timer left in the queue lies in the future, so that the
\* passes cannot loop on one that is never popped.
QueueInFuture == \A t \in queued : left[t] > 0

\* Every timer that is set fires, unless it is set again or cancelled for ever.
EveryTimerFires ==
  \A t \in Timer :
    \/ []<>(t \notin Armed)
    \/ []<><<\E d \in Delay : SetTimerOutside(t, d)>>_vars
    \/ []<><<\E d \in CallbackDelay : SetTimerInCallback(t, d)>>_vars
=============================================================================
