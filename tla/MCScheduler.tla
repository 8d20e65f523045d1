----------------------------- MODULE MCScheduler -----------------------------
(* Small instances of the Scheduler.                                        *)
EXTENDS Scheduler

Schedule(id, at, n) ==
  [id |-> id, settings |-> [at |-> at, actionCount |-> n, enabled |-> TRUE],
   lastExecutionKey |-> None]

\* A schedule that has been left over, with the higher ID.
OneSchedule == {<<Schedule(2, 0, 1)>>}

\* Also two schedules for the same minute, and two for minutes that follow each other.
SetUps ==
  OneSchedule \cup
  {<<Schedule(1, 0, 2), Schedule(2, 0, 1)>>, <<Schedule(1, 0, 1), Schedule(2, 1, 2)>>}

\* The configuration stays consistent whatever is added, deleted or cannot be saved: IDs are
\* unique, and what is in effect is what the file holds.
ConfigurationHolds == TypeOK /\ UniqueIds /\ StoredIsCurrent
=============================================================================
