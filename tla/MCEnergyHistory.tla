---------------------------- MODULE MCEnergyHistory ----------------------------
(* A small instance of the energy history.                                  *)
EXTENDS EnergyHistory

Base == [ring |-> 6, queue |-> 2, replaces |-> TRUE, faults |-> FALSE,
         events |-> 0, cycles |-> 0, boots |-> 2, time |-> 4]

\* Rings that turn while they are copied; a queue that overflows at a midnight; a card that
\* fails; one on which a rename does not replace a file; and two restarts.
SmallSetUps ==
  {[Base EXCEPT !.ring = 2, !.events = 4, !.cycles = 1, !.boots = 1, !.time = 1],
   [Base EXCEPT !.ring = 2],
   [Base EXCEPT !.queue = 1, !.time = 5],
   [Base EXCEPT !.faults = TRUE, !.time = 3],
   [Base EXCEPT !.replaces = FALSE],
   [Base EXCEPT !.boots = 3, !.time = 3]}

\* What the main loop and the task share stays consistent at every step of either, and no row
\* is written twice.
CardIsConsistent == TypeOK /\ WrittenOnce
=============================================================================
