--------------------------- MODULE DashboardWorkflow ---------------------------
(***************************************************************************)
(* The forced sterilization that is started from the dashboard              *)
(* (custom_features.cpp): the device remembers the operating mode, switches *)
(* the heat pump to hot water only, forces the cycle, watches the reported  *)
(* data for its end or for a cancellation, and restores the mode.           *)
(*                                                                         *)
(* Two things lie between the workflow and the heat pump: commands wait in  *)
(* the queue of the serial link, and actData is what was read last, which   *)
(* is also what decides that a command "has no changes" and is not sent.    *)
(*                                                                         *)
(* Time goes in ticks; a target time is kept as what is left until then.    *)
(* type is DASHBOARD_WORKFLOW_NONE exactly when the stage is idle.          *)
(***************************************************************************)
EXTENDS Integers, Sequences

CONSTANTS
  Mode,           \* operating modes the user may have chosen, of 0 .. 6
  ForceDelay, ModeDelay,       \* before the force command, without and with a mode switch
  SoonRestore, LateRestore,    \* before the mode is restored, after a failure and an end
  RetryDelay,     \* before a restore that was refused is sent again
  ConfirmTime,    \* a force command is given up that is not confirmed after this time
  FreshTime,      \* age to which actData counts as fresh
  ReadPeriod,     \* a data block is read at least this often
  CommandDelay,   \* a command reaches the heat pump at the latest after this time
  Refusable       \* topics of the commands that may find the command queue full

VARIABLES
  workflow,   \* stage, previousMode, modeChanged, observedActive
  wait,       \* time until nextActionAt
  forceAge,   \* time since forceSentAt
  actData,    \* what the heat pump reported last
  dataAge,    \* time since lastHeatpumpDataAt
  inFlight,   \* commands accepted by send_command that have not reached the heat pump
  pump,       \* the heat pump: its mode, the forced cycle, the tank within 2 degrees
  userMode,   \* history: the mode the user has chosen
  ended       \* history: why the workflow stopped or is stopping

vars == <<workflow, wait, forceAge, actData, dataAge, inFlight, pump, userMode, ended>>

DhwOnly == 3
WithHotWater == {DhwOnly, 4, 5, 6}
Setting == Mode \cup {DhwOnly}
\* Auto is reported with what it is doing: 2 or 7, and 6 or 8 with hot water.
ShownAs(mode) == CASE mode = 2 -> {2, 7} [] mode = 6 -> {6, 8} [] OTHER -> {mode}
SettingOf(shown) == CASE shown = 7 -> 2 [] shown = 8 -> 6 [] OTHER -> shown
Shown == UNION {ShownAs(mode) : mode \in Setting}

NoData   == [mode |-> -1, force |-> 0, warm |-> FALSE]
Reported == [mode : Shown, force : {0, 1}, warm : BOOLEAN]
HasData  == actData # NoData

Delays == {ForceDelay, ModeDelay, SoonRestore, LateRestore, RetryDelay}

Idle == [stage |-> "idle", previousMode |-> -1, modeChanged |-> FALSE, observedActive |-> FALSE]
Running == workflow.stage # "idle"
Less(time) == IF time > 0 THEN time - 1 ELSE 0
More(time, cap) == IF time < cap THEN time + 1 ELSE time

-----------------------------------------------------------------------------
(* dashboardWorkflowSendCommand                                             *)

\* heatpump_command_has_changes, negated: fresh data already reports the value.
NoChanges(topic, value) ==
  /\ HasData /\ dataAge <= FreshTime
  /\ value = IF topic = "mode" THEN SettingOf(actData.mode) ELSE actData.force

Accepted(topic, value) == Append(inFlight, [topic |-> topic, value |-> value, age |-> 0])

\* send_command may refuse; a command without changes counts as sent.
Send(topic, value) ==
  \/ NoChanges(topic, value) /\ UNCHANGED inFlight
  \/ ~NoChanges(topic, value) /\ inFlight' = Accepted(topic, value)

Refused(topic, value) ==
  topic \in Refusable /\ ~NoChanges(topic, value) /\ UNCHANGED inFlight

\* dashboardWorkflowScheduleRestore; `changed` is the workflow but for the stage.
ScheduleRestore(delay, why, changed) ==
  /\ workflow' = [changed EXCEPT !.stage = "restore"]
  /\ wait' = delay
  /\ ended' = why

\* dashboardWorkflowReset
Reset == workflow' = Idle /\ wait' = 0 /\ forceAge' = 0

-----------------------------------------------------------------------------
(* What the dashboard asks for.                                             *)

\* Variant: the mode is taken as it is reported.
StartedShown(mode) ==
  [stage |-> "force", previousMode |-> actData.mode, modeChanged |-> mode # DhwOnly,
   observedActive |-> FALSE]

Started(mode) ==
  [stage |-> "force", previousMode |-> mode, modeChanged |-> mode # DhwOnly,
   observedActive |-> FALSE]

StartSterilization ==
  /\ HasData /\ ~Running /\ actData.force = 0
  /\ LET mode == SettingOf(actData.mode) IN
     \/ /\ mode = DhwOnly /\ workflow' = Started(mode)
        /\ wait' = ForceDelay /\ forceAge' = 0 /\ ended' = "no"
        /\ UNCHANGED inFlight
     \/ /\ mode # DhwOnly /\ Send("mode", DhwOnly) /\ workflow' = Started(mode)
        /\ wait' = ModeDelay /\ forceAge' = 0 /\ ended' = "no"
     \/ /\ mode # DhwOnly /\ Refused("mode", DhwOnly) /\ Reset
        /\ UNCHANGED ended
  /\ UNCHANGED <<actData, dataAge, pump, userMode>>

\* The result of the command that ends the cycle is not looked at.
CancelSterilization ==
  /\ workflow.stage \in {"force", "active"}
  /\ IF workflow.stage = "active"
     THEN Send("force", 0) \/ Refused("force", 0)
     ELSE UNCHANGED inFlight
  /\ ScheduleRestore(LateRestore, "cancelled", workflow)
  /\ UNCHANGED <<forceAge, actData, dataAge, pump, userMode>>

-----------------------------------------------------------------------------
(* processDashboardWorkflow, once in every loop()                           *)

SendForce ==
  /\ workflow.stage = "force" /\ wait = 0
  /\ \/ /\ Send("force", 1)
        /\ workflow' = [workflow EXCEPT !.stage = "active"]
        /\ forceAge' = 0
        /\ UNCHANGED <<wait, ended>>
     \/ /\ Refused("force", 1)
        /\ ScheduleRestore(SoonRestore, "unsent", workflow)
        /\ UNCHANGED forceAge
  /\ UNCHANGED <<actData, dataAge, pump, userMode>>

\* Variant: the cycle need not have been seen to be active.
ObservedAlways == TRUE

Observed == workflow.observedActive \/ actData.force = 1

WatchCycle ==
  /\ workflow.stage = "active" /\ HasData
  /\ LET seen == [workflow EXCEPT !.observedActive = Observed] IN
     IF ~Observed /\ forceAge > ConfirmTime
     THEN ScheduleRestore(SoonRestore, "unconfirmed", seen)
     ELSE IF Observed /\ actData.force = 0 /\ actData.warm
     THEN ScheduleRestore(LateRestore, "complete", seen)
     ELSE workflow' = seen /\ UNCHANGED <<wait, ended>>
  /\ UNCHANGED <<forceAge, actData, dataAge, inFlight, pump, userMode>>

\* Variant: a restore that was refused is forgotten.
RestoreModeOnce ==
  /\ workflow.stage = "restore" /\ wait = 0
  /\ IF workflow.modeChanged
     THEN Send("mode", workflow.previousMode) \/ Refused("mode", workflow.previousMode)
     ELSE UNCHANGED inFlight
  /\ Reset
  /\ UNCHANGED <<actData, dataAge, pump, userMode, ended>>

\* Variant: a restore that was refused is not tried again, and the workflow stays.
RestoreModeStuck ==
  /\ workflow.stage = "restore" /\ wait = 0
  /\ \/ /\ IF workflow.modeChanged THEN Send("mode", workflow.previousMode)
                                   ELSE UNCHANGED inFlight
        /\ Reset
     \/ /\ workflow.modeChanged /\ Refused("mode", workflow.previousMode)
        /\ workflow' = [workflow EXCEPT !.stage = "stuck"]
        /\ UNCHANGED <<wait, forceAge>>
  /\ UNCHANGED <<actData, dataAge, pump, userMode, ended>>

RestoreMode ==
  /\ workflow.stage = "restore" /\ wait = 0
  /\ \/ /\ IF workflow.modeChanged THEN Send("mode", workflow.previousMode)
                                   ELSE UNCHANGED inFlight
        /\ Reset
     \/ /\ workflow.modeChanged /\ Refused("mode", workflow.previousMode)
        /\ wait' = RetryDelay
        /\ UNCHANGED <<workflow, forceAge>>
  /\ UNCHANGED <<actData, dataAge, pump, userMode, ended>>

processDashboardWorkflow == SendForce \/ WatchCycle \/ RestoreMode

-----------------------------------------------------------------------------
(* The serial link, the heat pump and time.                                 *)

\* A data block is read.
ReadData ==
  /\ \E shown \in ShownAs(pump.mode) :
       actData' = [mode |-> shown, force |-> IF pump.forced THEN 1 ELSE 0, warm |-> pump.warm]
  /\ dataAge' = 0
  /\ UNCHANGED <<workflow, wait, forceAge, inFlight, pump, userMode, ended>>

\* The heat pump takes the next command; it may disregard a force command.
TakeCommand ==
  /\ inFlight # <<>>
  /\ LET command == Head(inFlight) IN
     IF command.topic = "mode" THEN pump' = [pump EXCEPT !.mode = command.value]
     ELSE IF command.value = 0 THEN pump' = [pump EXCEPT !.forced = FALSE]
     ELSE \E forced \in {TRUE, pump.forced} : pump' = [pump EXCEPT !.forced = forced]
  /\ inFlight' = Tail(inFlight)
  /\ UNCHANGED <<workflow, wait, forceAge, actData, dataAge, userMode, ended>>

\* The cycle ends with a hot tank; otherwise the tank cools, and heats in hot water modes.
FinishCycle ==
  /\ pump.forced /\ pump' = [pump EXCEPT !.forced = FALSE, !.warm = TRUE]
  /\ UNCHANGED <<workflow, wait, forceAge, actData, dataAge, inFlight, userMode, ended>>
TankCools ==
  /\ ~pump.forced /\ pump.warm /\ pump' = [pump EXCEPT !.warm = FALSE]
  /\ UNCHANGED <<workflow, wait, forceAge, actData, dataAge, inFlight, userMode, ended>>
TankHeats ==
  /\ pump.mode \in WithHotWater /\ ~pump.warm /\ pump' = [pump EXCEPT !.warm = TRUE]
  /\ UNCHANGED <<workflow, wait, forceAge, actData, dataAge, inFlight, userMode, ended>>

Tick ==
  /\ dataAge < ReadPeriod
  /\ \A i \in DOMAIN inFlight : inFlight[i].age < CommandDelay
  /\ dataAge' = dataAge + 1
  /\ inFlight' = [i \in DOMAIN inFlight |-> [inFlight[i] EXCEPT !.age = @ + 1]]
  /\ wait' = Less(wait)
  /\ forceAge' = IF workflow.stage = "active" THEN More(forceAge, ConfirmTime + 1) ELSE forceAge
  /\ UNCHANGED <<workflow, actData, pump, userMode, ended>>

Init ==
  /\ workflow = Idle /\ wait = 0 /\ forceAge = 0
  /\ actData = NoData /\ dataAge = 0
  /\ inFlight = <<>>
  /\ userMode \in Mode
  /\ \E warm \in BOOLEAN : pump = [mode |-> userMode, forced |-> FALSE, warm |-> warm]
  /\ ended = "no"

Next ==
  \/ StartSterilization \/ CancelSterilization
  \/ processDashboardWorkflow
  \/ ReadData \/ TakeCommand
  \/ FinishCycle \/ TankCools \/ TankHeats
  \/ Tick

Spec == Init /\ [][Next]_vars

\* loop() comes round, in the iteration that reads data too, and time passes; data is read
\* again and again; the command queue is not full whenever a mode is restored; the heat pump
\* ends its cycle, heats the tank in a mode with hot water, and data that is read again and
\* again does not always miss the hot tank.
FairSpec ==
  /\ Spec
  /\ WF_vars(SendForce) /\ SF_vars(WatchCycle)
  /\ SF_vars(RestoreMode /\ ~Running')
  /\ WF_vars(ReadData) /\ WF_vars(TakeCommand) /\ WF_vars(Tick)
  /\ WF_vars(FinishCycle)
  /\ SF_vars(ReadData /\ pump.warm)
  /\ WF_vars(TankHeats)

-----------------------------------------------------------------------------
Workflow == [stage : {"idle", "force", "active", "restore"}, previousMode : 0 .. 6 \cup {-1},
             modeChanged : BOOLEAN, observedActive : BOOLEAN]
Command  == [topic : {"mode", "force"}, value : Setting \cup {0, 1}, age : 0 .. CommandDelay]
HeatPump == [mode : Setting, forced : BOOLEAN, warm : BOOLEAN]

TypeOK ==
  /\ workflow \in Workflow
  /\ wait \in Nat /\ (\E delay \in Delays : wait <= delay) /\ forceAge \in 0 .. ConfirmTime + 1
  /\ actData \in Reported \cup {NoData} /\ dataAge \in 0 .. ReadPeriod
  /\ inFlight \in Seq(Command) /\ pump \in HeatPump
  /\ userMode \in Mode
  /\ ended \in {"no", "complete", "cancelled", "unconfirmed", "unsent"}

\* When the workflow is over and its commands have arrived, the heat pump is in the mode the
\* user had chosen, however the workflow ended (dashboardWorkflowScheduleRestore and the
\* comparison with actData that may leave the command out).
RestoresMode == ~Running /\ inFlight = <<>> => pump.mode = userMode

\* "Sterilization complete" is said only after the cycle: nothing is forced any more and no
\* command is on its way that forces it (observedActive in processDashboardWorkflow).
CompleteMeansDone ==
  workflow.stage = "restore" /\ ended = "complete" =>
    /\ ~pump.forced
    /\ \A i \in DOMAIN inFlight : inFlight[i].topic # "force"

\* Inductive, where a restore waits longer than a command and the next reading take: a command
\* has arrived and is seen in actData, or it was given no longer ago than it may take.
UnderWay(topic) == \E i \in DOMAIN inFlight : inFlight[i].topic = topic
SeenMode == SettingOf(actData.mode)

Elapsed == CASE workflow.stage = "active"  -> forceAge
             [] workflow.stage = "restore" -> LateRestore - wait
             [] OTHER                      -> 0
OlderThan(topic, time) ==
  \A i \in DOMAIN inFlight : inFlight[i].topic = topic => time <= inFlight[i].age
TakesItsTime(topic) == Elapsed <= CommandDelay + dataAge /\ OlderThan(topic, Elapsed)

ModeSettled  == ~UnderWay("mode") /\ HasData /\ pump.mode = DhwOnly /\ SeenMode = DhwOnly
ForceSettled == ~UnderWay("force") /\ (actData.force = 0 => ~pump.forced)

OneCommand(topic) ==
  \A i, j \in DOMAIN inFlight :
    inFlight[i].topic = topic /\ inFlight[j].topic = topic => i = j
ModeUnderWay(mode) ==
  \A i \in DOMAIN inFlight : inFlight[i].topic = "mode" => inFlight[i].value = mode

ModeIsKnown ==
  /\ pump.mode \in {userMode, DhwOnly} /\ OneCommand("mode")
  /\ HasData => SeenMode \in {userMode, DhwOnly}
  /\ IF workflow.modeChanged
       THEN /\ Running /\ workflow.previousMode = userMode /\ userMode # DhwOnly
            /\ ModeUnderWay(DhwOnly) /\ (~UnderWay("mode") => pump.mode = DhwOnly)
            /\ ModeSettled \/ TakesItsTime("mode")
       ELSE /\ ModeUnderWay(userMode) /\ (~UnderWay("mode") => pump.mode = userMode)
            /\ UnderWay("mode") => HasData /\ pump.mode = DhwOnly /\ SeenMode = DhwOnly

ForceIsKnown ==
  CASE workflow.stage = "active" ->
         /\ ForceSettled \/ TakesItsTime("force")
         /\ workflow.observedActive \/ actData.force = 1 => ForceSettled
         /\ OneCommand("force") /\ (UnderWay("force") => ~pump.forced)
    [] workflow.stage = "restore" /\ ended = "cancelled" -> ForceSettled \/ TakesItsTime("force")
    [] OTHER -> ForceSettled

WorkflowIsKnown ==
  /\ TypeOK /\ (Running => HasData) /\ ended # "unsent"
  /\ workflow.stage = "force" => ~workflow.observedActive
  /\ workflow.stage = "restore" /\ ended = "complete" => ~pump.forced
  /\ ModeIsKnown /\ ForceIsKnown

\* The workflow does not stay behind, in a mode that makes hot water: the dashboard is
\* free again after every start (processDashboardWorkflow).
WorkflowEnds == Running /\ userMode \in WithHotWater ~> ~Running
=============================================================================
