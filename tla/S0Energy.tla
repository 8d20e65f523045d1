------------------------------- MODULE S0Energy -------------------------------
(***************************************************************************)
(* The energy counted on an S0 port, and how the total survives a restart:  *)
(* HeishaMon keeps it in RAM only, publishes it retained, and takes it back *)
(* from the broker when it subscribes to its own topic at every connection  *)
(* (s0.cpp; HeishaMon.ino, mqtt_reconnect and mqtt_callback).  Pulses are    *)
(* counted by an interrupt, also while s0Loop makes its report.             *)
(***************************************************************************)
EXTENDS Integers, Sequences

CONSTANTS
  MaxPulses,   \* BOUND: pulses of the meter
  MaxBoots,    \* BOUND
  MaxReports,  \* BOUND: reports of a boot
  MaxBreaks    \* BOUND: broken connections

VARIABLES
  pulses, pulsesTotal,
  report,      \* what s0Loop has read and not yet published, or None
  connected,
  inbox,       \* what the broker has sent on the topic WatthourTotal
  subscribed,
  retained,    \* the total the broker keeps
  boots, reports, breaks,
  real,        \* pulses of the meter, ever
  counted,     \* pulses of this boot
  sent,        \* the sum of the Watthour reports of this boot
  raced,       \* pulses that came between the reading of the counter and its reset
  known        \* the largest total the broker was ever told

evars == <<pulses, pulsesTotal, report, connected, inbox, subscribed, retained, boots, reports,
           breaks, real, counted, sent, raced, known>>

None == [pulses |-> -1, total |-> -1]
Broker == <<inbox, subscribed, retained, known>>
Ghosts == <<boots, breaks, real>>

EnergyInit ==
  /\ pulses = 0 /\ pulsesTotal = 0 /\ report = None
  /\ connected = FALSE /\ inbox = <<>> /\ subscribed = FALSE
  /\ retained \in {0, 2} /\ known = retained
  /\ boots = 0 /\ reports = 0 /\ breaks = 0
  /\ real = 0 /\ counted = 0 /\ sent = 0 /\ raced = 0
-----------------------------------------------------------------------------
\* countPulse
countPulse ==
  /\ real < MaxPulses
  /\ real' = real + 1 /\ counted' = counted + 1
  /\ pulses' = pulses + 1 /\ pulsesTotal' = pulsesTotal + 1
  /\ raced' = IF report # None THEN raced + 1 ELSE raced
  /\ UNCHANGED <<report, connected, Broker, boots, reports, breaks, sent>>

\* s0Loop reads the counters ...
ReadCounters ==
  /\ report = None
  /\ reports < MaxReports
  /\ report' = [pulses |-> pulses, total |-> pulsesTotal]
  /\ reports' = reports + 1
  /\ UNCHANGED <<pulses, pulsesTotal, connected, Broker, Ghosts, counted, sent, raced>>

\* ... and resets the one of this message before it publishes both.  The broker
\* sends a message on the topic back to who subscribed to it.
\* Variant: the total starts anew as well.
ResetsAll == 0
Total == pulsesTotal

Publish ==
  /\ report # None
  /\ pulses' = 0
  /\ pulsesTotal' = Total
  /\ sent' = sent + report.pulses
  /\ report' = None
  /\ IF connected
     THEN /\ retained' = report.total
          /\ inbox' = IF subscribed THEN Append(inbox, report.total) ELSE inbox
          /\ known' = IF report.total > known THEN report.total ELSE known
     ELSE UNCHANGED <<retained, inbox, known>>
  /\ UNCHANGED <<connected, subscribed, Ghosts, reports, counted, raced>>

\* restore_s0_Watthour, and the end of the subscription.
\* Variant: what the broker says is right.
Obeys(n) == n

Restored(n) == IF n > pulsesTotal THEN n ELSE pulsesTotal

Receive ==
  /\ connected /\ inbox # <<>>
  /\ pulsesTotal' = Restored(Head(inbox))
  /\ inbox' = Tail(inbox)
  /\ subscribed' = FALSE
  /\ UNCHANGED <<pulses, report, connected, retained, known, Ghosts, reports, counted, sent, raced>>

\* mqtt_reconnect subscribes, and the broker answers with what it keeps.
Connect ==
  /\ ~connected
  /\ connected' = TRUE /\ subscribed' = TRUE
  /\ inbox' = <<retained>>
  /\ UNCHANGED <<pulses, pulsesTotal, report, retained, known, Ghosts, reports, counted, sent, raced>>

\* What is under way when the connection breaks is lost.
Break ==
  /\ connected /\ breaks < MaxBreaks
  /\ breaks' = breaks + 1
  /\ connected' = FALSE /\ subscribed' = FALSE /\ inbox' = <<>>
  /\ UNCHANGED <<pulses, pulsesTotal, report, retained, known, boots, real, reports, counted,
                 sent, raced>>

Restart ==
  /\ boots < MaxBoots
  /\ boots' = boots + 1
  /\ pulses' = 0 /\ pulsesTotal' = 0 /\ report' = None /\ reports' = 0
  /\ connected' = FALSE /\ subscribed' = FALSE /\ inbox' = <<>>
  /\ counted' = 0 /\ sent' = 0 /\ raced' = 0
  /\ UNCHANGED <<retained, known, breaks, real>>

EnergyNext ==
  \/ countPulse \/ ReadCounters \/ Publish \/ Receive \/ Connect \/ Break \/ Restart
-----------------------------------------------------------------------------
\* The reports add up to what was counted, but for pulses that fell into a report,
\* and the total misses none of this boot.
EnergyAddsUp ==
  /\ sent + pulses + raced >= counted
  /\ sent + pulses <= counted
  /\ pulsesTotal >= counted

\* What the broker keeps from before this boot is not lost while the power and the
\* connection stay: it is still kept, or on its way back, or part of the total.  (A
\* report made before the answer to the subscription is in replaces the retained
\* total by a lower one, which a power cut at that moment makes final.)
TotalIsHeld ==
  breaks = 0 /\ boots = 0 =>
    known <= retained \/ known <= pulsesTotal \/ \E i \in 1 .. Len(inbox) : known <= inbox[i]

\* Inductive: what a report has read is no more than what is counted, and pulses that came since
\* are among those that fell into a report.
ReportIsPart ==
  /\ {pulses, pulsesTotal, counted, sent, raced, known, retained, breaks, boots} \subseteq Nat
  /\ inbox \in Seq(Nat) /\ connected \in BOOLEAN /\ (inbox # <<>> => connected)
  /\ report # None =>
       /\ report \in [pulses : Nat, total : Nat]
       /\ report.pulses <= pulses /\ report.total <= pulsesTotal
       /\ sent + report.pulses + raced >= counted
  /\ breaks = 0 /\ boots = 0 =>
       IF connected THEN known <= pulsesTotal \/ \E i \in 1 .. Len(inbox) : known <= inbox[i]
                    ELSE known <= retained
=============================================================================
