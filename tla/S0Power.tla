------------------------------- MODULE S0Power -------------------------------
(***************************************************************************)
(* The power HeishaMon computes from the pulses of a kWh meter on an S0     *)
(* port: countPulse runs in an interrupt, at any edge of the line, s0Loop    *)
(* in the main loop, which reads the time once and then reports port after  *)
(* port (s0.cpp).  The meter here runs at a steady power until it stops.    *)
(* Time is millis(), in ticks and modulo Wrap.                              *)
(***************************************************************************)
EXTENDS Integers

CONSTANTS
  Wrap,            \* 2^32 of unsigned long
  Scale,           \* watts of a pulse per tick, 3600000000 / ppkwh
  MinReport,       \* MINREPORTEDS0TIME
  LowerInterval,   \* lowerPowerInterval
  MinWidth, MaxWidth, \* minimalPulseWidth, maximalPulseWidth
  PulseWidth, Gap, \* of the meter: how long a pulse and the pause after it are
  Hold             \* BOUND: ticks between the reading of the time and a report

VARIABLES
  now,
  running, edgeIn, level,   \* the meter: whether it runs, ticks to its next edge, the line
  lastEdge, badEdge, badPulses, lastPulse, watt, nextReport,  \* of the interrupt
  thisLoop,                 \* millisThisLoop while s0Loop runs, or Idle
  ran,                      \* whether s0Loop has begun in this tick
  reported                  \* watt and what was possible, of the last report

pvars0 == <<now, running, edgeIn, level, lastEdge, badEdge, badPulses, lastPulse, watt,
            nextReport, thisLoop, ran, reported>>

Idle == -1
Minus(a, b) == (a - b) % Wrap
Watts(interval) == Scale \div interval

PowerInit ==
  /\ now = 0
  /\ running = TRUE /\ edgeIn = Gap /\ level = FALSE
  /\ lastEdge = 0 /\ badEdge = FALSE /\ badPulses = 0 /\ lastPulse = 0 /\ watt = 0
  /\ nextReport = MinReport
  /\ thisLoop = Idle /\ ran = FALSE
  /\ reported = [watt |-> 0, possible |-> 0]
-----------------------------------------------------------------------------
\* countPulse: an edge that ends a pulse of the right width counts, two others in a
\* row are a bad pulse.
countPulse(t) ==
  IF Minus(t, lastEdge) \in MinWidth .. MaxWidth
  THEN /\ IF lastPulse > 0
          THEN /\ watt' = Watts(Minus(t, lastPulse))
               /\ nextReport' = IF Minus(nextReport, t) > MinReport THEN 0 ELSE nextReport
          ELSE UNCHANGED <<watt, nextReport>>
       /\ lastPulse' = t
       /\ badEdge' = FALSE
       /\ UNCHANGED badPulses
  ELSE /\ badPulses' = IF badEdge /\ badPulses = 0 THEN 1 ELSE badPulses
       /\ badEdge' = ~badEdge
       /\ UNCHANGED <<watt, nextReport, lastPulse>>

\* Time goes on, and with it the meter.  The main loop comes by in every tick unless
\* it is held up between Begin and Report.
Tick ==
  /\ IF thisLoop = Idle THEN ran ELSE Minus(now, thisLoop) < Hold
  /\ ran' = FALSE
  /\ now' = (now + 1) % Wrap
  /\ IF running /\ edgeIn = 1
     THEN /\ countPulse(now')
          /\ lastEdge' = now'
          /\ level' = ~level
          /\ edgeIn' = IF level THEN Gap ELSE PulseWidth
     ELSE /\ edgeIn' = IF running THEN edgeIn - 1 ELSE edgeIn
          /\ UNCHANGED <<level, lastEdge, badEdge, badPulses, lastPulse, watt, nextReport>>
  /\ UNCHANGED <<running, thisLoop, reported>>

Stop ==
  /\ running /\ ~level
  /\ running' = FALSE
  /\ UNCHANGED <<now, edgeIn, level, lastEdge, badEdge, badPulses, lastPulse, watt, nextReport,
                 thisLoop, ran, reported>>
-----------------------------------------------------------------------------
(* s0Loop                                                                   *)

Begin ==
  /\ thisLoop = Idle /\ ~ran
  /\ thisLoop' = IF now > nextReport THEN now ELSE Idle
  /\ ran' = TRUE
  /\ UNCHANGED <<now, running, edgeIn, level, lastEdge, badEdge, badPulses, lastPulse, watt,
                 nextReport, reported>>

\* The most the meter can have drawn without a pulse since the last one; the
\* conversion of 3600000000.0 / 0 is undefined.
calcMaxWatt == LET interval == Minus(thisLoop, lastPulse)
               IN IF interval = 0 THEN {0, Scale} ELSE {Watts(interval)}

LowPower == watt < Scale \div LowerInterval

\* Variant: power is not brought down while it is low.
KeepsLow(possible) ==
  IF ~LowPower /\ watt > possible THEN possible ELSE watt

BroughtDown(possible) ==
  IF LowPower
  THEN IF watt \div 2 > possible THEN possible \div 2 ELSE watt
  ELSE IF watt > possible THEN possible ELSE watt

\* Other ports come first, so time may have passed since Begin.
Report ==
  /\ thisLoop # Idle
  /\ nextReport' = (thisLoop + (IF LowPower THEN LowerInterval ELSE MinReport)) % Wrap
  /\ \E possible \in calcMaxWatt :
       /\ watt' = BroughtDown(possible)
       /\ reported' = [watt |-> watt', possible |-> possible]
  /\ thisLoop' = Idle /\ ran' = TRUE
  /\ UNCHANGED <<now, running, edgeIn, level, lastEdge, badEdge, badPulses, lastPulse>>

PowerNext == Tick \/ Stop \/ Begin \/ Report
-----------------------------------------------------------------------------
\* No report claims more than twice the power that is possible without a pulse since
\* the last one, and the clean pulses of the meter are never counted as bad ones.
PowerIsPossible ==
  /\ reported.watt <= 2 * reported.possible + 1
  /\ badPulses = 0

\* Inductive: an edge is out of place only when it begins a pulse, and the edge that ends the
\* pulse comes in time.
Times == 0 .. Wrap - 1
MeterIsRegular ==
  /\ {now, lastEdge, lastPulse} \subseteq Times /\ thisLoop \in Times \cup {Idle}
  /\ {running, level, badEdge} \subseteq BOOLEAN /\ watt \in Nat
  /\ level => running /\ edgeIn \in 1 .. PulseWidth
               /\ Minus(now, lastEdge) = PulseWidth - edgeIn
               /\ (lastPulse > 0 =>
                     Minus(now, lastPulse) \in {PulseWidth - edgeIn, Gap + PulseWidth - edgeIn})
  /\ ~level => ~badEdge /\ edgeIn \in 1 .. Gap
  /\ ~level /\ running /\ lastPulse > 0 => Minus(now, lastPulse) = Gap - edgeIn
=============================================================================
