------------------------ MODULE MCMqttCommandQueue ------------------------
(***************************************************************************)
(* Small instances of MqttCommandQueue.                                     *)
(***************************************************************************)
EXTENDS MqttCommandDelivery

\* Two commands.  SetCurves is confirmed field by field (two points of a curve stand for
\* all).  SetOperationMode has an alias: "auto" (1 here) may be reported as "auto, heating"
\* (2 here).
QueueNames    == {"SetCurves", "SetOperationMode"}
QueueFields   == {"high", "low", "mode"}
QueueFieldsOf ==
  [n \in QueueNames |-> CASE n = "SetCurves"        -> {"high", "low"}
                         [] n = "SetOperationMode" -> {"mode"}]
QueueEncode   == [n \in QueueNames |-> [v \in 0 .. 2 |-> v]]
QueueAlias    == {<<"SetOperationMode", 1, 2>>}
QueueInitial  == {[f \in QueueFields |-> IF f = "mode" THEN mode ELSE 0] : mode \in {0, 2}}

\* For the refinement and for liveness: a switch, and a command without a confirmation topic.
DeliveryNames    == {"SetHeatpump", "SetReset"}
DeliveryFields   == {"state", "reset"}
DeliveryFieldsOf ==
  [n \in DeliveryNames |-> IF n = "SetReset" THEN {"reset"} ELSE {"state"}]
DeliveryEncode   == [n \in DeliveryNames |-> [v \in 0 .. 1 |-> v]]
DeliveryInitial  == [DeliveryFields -> {0}]
=============================================================================
