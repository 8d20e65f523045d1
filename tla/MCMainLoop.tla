------------------------------ MODULE MCMainLoop ------------------------------
(***************************************************************************)
(* What the main loop does later: the timers, and the forced sterilization   *)
(* with its target times.  The two share no state and are checked side by    *)
(* side: a behaviour is one of one part, the other stays as it began.        *)
(***************************************************************************)
EXTENDS TimerQueue

CONSTANTS
  Mode, ForceDelay, ModeDelay, SoonRestore, LateRestore, RetryDelay, ConfirmTime, FreshTime,
  ReadPeriod, CommandDelay, Refusable

ASSUME WorkflowAssumption ==
  /\ Mode \subseteq 0 .. 6 /\ Mode # {}
  /\ {ForceDelay, ModeDelay, SoonRestore, LateRestore, RetryDelay, ConfirmTime, FreshTime,
      ReadPeriod, CommandDelay} \subseteq Nat
  /\ Refusable \subseteq {"mode", "force"}

VARIABLES
  part,  \* the part this behaviour is of
  workflow, wait, forceAge, actData, dataAge, inFlight, pump, userMode, ended

Dashboard == INSTANCE DashboardWorkflow

workflowVars == <<workflow, wait, forceAge, actData, dataAge, inFlight, pump, userMode, ended>>
loopVars     == <<part, vars, workflowVars>>

IdleWorkflow ==
  /\ workflow = [stage |-> "idle"] /\ wait = 0 /\ forceAge = 0 /\ actData = <<>> /\ dataAge = 0
  /\ inFlight = <<>> /\ pump = <<>> /\ userMode = -1 /\ ended = "no"

\* Without a timer the queue is idle.
LoopInit ==
  /\ Init
  /\ \/ part = "timers" /\ IdleWorkflow
     \/ part = "workflow" /\ Dashboard!Init

LoopNext ==
  /\ UNCHANGED part
  /\ \/ part = "timers" /\ Next /\ UNCHANGED workflowVars
     \/ part = "workflow" /\ Dashboard!Next /\ UNCHANGED vars

\* The fairness of the two parts.
TimerFairness ==
  /\ WF_vars(part = "timers" /\ Update) /\ WF_vars(part = "timers" /\ StartCallback)
  /\ WF_vars(part = "timers" /\ EndCallback) /\ WF_vars(part = "timers" /\ Tick)
WorkflowFairness ==
  /\ WF_workflowVars(part = "workflow" /\ Dashboard!SendForce)
  /\ SF_workflowVars(part = "workflow" /\ Dashboard!WatchCycle)
  /\ SF_workflowVars(part = "workflow" /\ Dashboard!RestoreMode /\ ~Dashboard!Running')
  /\ WF_workflowVars(part = "workflow" /\ Dashboard!ReadData)
  /\ WF_workflowVars(part = "workflow" /\ Dashboard!TakeCommand)
  /\ WF_workflowVars(part = "workflow" /\ Dashboard!Tick)
  /\ WF_workflowVars(part = "workflow" /\ Dashboard!FinishCycle)
  /\ SF_workflowVars(part = "workflow" /\ Dashboard!ReadData /\ pump.warm)
  /\ WF_workflowVars(part = "workflow" /\ Dashboard!TankHeats)

LoopSpec == LoopInit /\ [][LoopNext]_loopVars /\ TimerFairness /\ WorkflowFairness

\* When the workflow is over and its commands have arrived, the heat pump is in the mode the
\* user had chosen; and the end of the cycle is not announced before it.
WorkflowIsSafe ==
  part = "workflow" =>
    Dashboard!TypeOK /\ Dashboard!RestoresMode /\ Dashboard!CompleteMeansDone

\* Every workflow in a mode that makes hot water ends.
WorkflowEnds == part = "workflow" => Dashboard!WorkflowEnds
=============================================================================
