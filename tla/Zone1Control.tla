---------------------------- MODULE Zone1Control ----------------------------
(***************************************************************************)
(* What HeishaMon writes to zone 1 of the heat pump from the dashboard and  *)
(* the scheduler.  One byte (TOP27) is a shift of the heating curve, a      *)
(* water temperature or a room temperature, as the heating mode and the     *)
(* sensor of the zone say; the heating curve itself has four end points.    *)
(* Every request is judged by the frame read last, its command waits in the *)
(* command queue, and the settings can be changed on the panel meanwhile.   *)
(***************************************************************************)
EXTENDS Integers, Sequences

CONSTANTS
  ShiftValues, WaterValues, RoomValues, \* what is asked for, in range or not
  Targets,                              \* water temperatures of the curve
  Outsides,                             \* outside temperatures of the curve
  waterMin, waterMax,                   \* wpHeatMin, wpHeatMax
  Fresh,                                \* ticks for which a frame is fresh
  QueueSize                             \* BOUND: commands under way

VARIABLES
  subject,  \* what this behaviour is about: "request" or "curve"; rigid
  patient,  \* whether a curve is only asked for while nothing is under way; rigid
  pump,     \* the settings the heat pump has
  frame,    \* the settings it reported last (actData)
  age,      \* ticks since then
  queue,    \* commands under way: what each writes, and the mode it was meant for
  meant     \* the mode and the sensor the command executed last was meant for

zvars == <<subject, patient, pump, frame, age, queue, meant>>

Modes    == {0, 1}   \* TOP76: compensation curve, direct
Sensors  == {0, 1}   \* TOP111: water temperature, anything else
EndPoints == {"targetAtCold", "targetAtWarm", "outsideCold", "outsideWarm"}
Control(s) == <<s.mode, s.sensor>>

\* The meaning of TOP27 and its range.
Semantic(s) ==
  IF s.sensor # 0 THEN [type |-> "room", min |-> 10, max |-> 35]
  ELSE IF s.mode = 0 THEN [type |-> "shift", min |-> -5, max |-> 5]
  ELSE [type |-> "water", min |-> waterMin, max |-> waterMax]

ValueValid(s, v) == v \in Semantic(s).min .. Semantic(s).max

CurveValid(c) ==
  /\ c["targetAtCold"] >= c["targetAtWarm"]
  /\ c["outsideCold"] < c["outsideWarm"]

Init ==
  /\ subject \in {"request", "curve"}
  /\ patient \in (IF subject = "curve" THEN BOOLEAN ELSE {TRUE})
  /\ pump = [mode |-> 0, sensor |-> 0, request |-> 0, curve |-> [e \in EndPoints |->
        CASE e = "outsideCold" -> -15 [] e = "outsideWarm" -> 15 [] OTHER -> 30]]
  /\ frame = pump
  /\ age = 0
  /\ queue = <<>>
  /\ meant = Control(pump)

FreshFrame == age <= Fresh
Enqueue(write) ==
  /\ Len(queue) < QueueSize
  /\ queue' = Append(queue, [write |-> write, for |-> Control(frame)])

Rejected == UNCHANGED queue
Judged   == UNCHANGED <<subject, patient, pump, frame, age, meant>>
-----------------------------------------------------------------------------
\* dispatchZone1HeatSemanticCommand: a water or a room temperature.  The frame
\* may be of any age.
\* Variant: what TOP27 means at the moment is not looked at.
TakesAny(type, v) == ValueValid(frame, v) \/ (type = "room" /\ v \in 10 .. 35)

Takes(type, v) == Semantic(frame).type = type /\ ValueValid(frame, v)

RequestTarget(type, v) ==
  /\ subject = "request"
  /\ \/ /\ Takes(type, v) /\ frame.request # v
        /\ Enqueue([request |-> v])
     \/ /\ ~(Takes(type, v) /\ frame.request # v) \/ Len(queue) = QueueSize
        /\ Rejected
  /\ Judged

\* heatingCurveShiftSet: a shift of the curve, on a fresh frame only.
ShiftAvailable == FreshFrame /\ frame.mode = 0 /\ frame.sensor = 0

RequestShift(v) ==
  /\ subject = "request"
  /\ \/ /\ v \in -5 .. 5 /\ ShiftAvailable /\ frame.request # v
        /\ Enqueue([request |-> v])
     \/ /\ ~(v \in -5 .. 5 /\ ShiftAvailable /\ frame.request # v) \/ Len(queue) = QueueSize
        /\ Rejected
  /\ Judged

\* heatpump_command_has_changes: end points the frame reports as asked are left out.
Changes(c) == {e \in EndPoints : frame.curve[e] # c[e]}

\* heatingCurveSettingsSet and sendCurveTargets: whether something is sent.
\* Variant: any end points are taken.
AsksUnchecked(c) == FreshFrame /\ Changes(c) # {}

Asks(c) == FreshFrame /\ CurveValid(c) /\ Changes(c) # {}

RequestCurve(c) ==
  /\ subject = "curve"
  /\ patient => queue = <<>> /\ frame = pump
  /\ \/ /\ Asks(c)
        /\ Enqueue([e \in Changes(c) |-> c[e]])
     \/ /\ ~Asks(c) \/ Len(queue) = QueueSize
        /\ Rejected
  /\ Judged
-----------------------------------------------------------------------------
\* The heat pump takes the next command from the line.
Execute ==
  /\ queue # <<>>
  /\ LET w == Head(queue).write
     IN  pump' = [pump EXCEPT !.request = IF "request" \in DOMAIN w THEN w["request"] ELSE @,
                              !.curve = [e \in EndPoints |-> IF e \in DOMAIN w THEN w[e] ELSE @[e]]]
  /\ meant' = Head(queue).for
  /\ queue' = Tail(queue)
  /\ UNCHANGED <<subject, patient, frame, age>>

\* Someone changes the mode on the panel; the heat pump has a value for each.
Panel(mode, sensor) ==
  /\ subject = "request"
  /\ <<mode, sensor>> # Control(pump)
  /\ pump' = LET s == [pump EXCEPT !.mode = mode, !.sensor = sensor]
             IN  [s EXCEPT !.request = IF Semantic(s).type = "shift" THEN 0 ELSE 30]
  /\ meant' = <<mode, sensor>>
  /\ UNCHANGED <<subject, patient, frame, age, queue>>

ReadData ==
  /\ frame' = pump /\ age' = 0
  /\ UNCHANGED <<subject, patient, pump, queue, meant>>

Tick ==
  /\ age <= Fresh
  /\ age' = age + 1
  /\ UNCHANGED <<subject, patient, pump, frame, queue, meant>>

Next ==
  \/ \E v \in WaterValues : RequestTarget("water", v)
  \/ \E v \in RoomValues  : RequestTarget("room", v)
  \/ \E v \in ShiftValues : RequestShift(v)
  \/ \E tc \in Targets, tw \in Targets, oc \in Outsides, ow \in Outsides :
       RequestCurve([e \in EndPoints |-> CASE e = "targetAtCold" -> tc [] e = "targetAtWarm" -> tw
                                           [] e = "outsideCold" -> oc [] OTHER -> ow])
  \/ \E mode \in Modes, sensor \in Sensors : Panel(mode, sensor)
  \/ Execute \/ ReadData \/ Tick

Spec == Init /\ [][Next]_zvars
-----------------------------------------------------------------------------
\* The byte that means three things holds a value of the one it means now,
\* unless the command that wrote it was meant for another mode (the panel was
\* used after the frame it was judged by).
RequestFitsItsMeaning == meant = Control(pump) => ValueValid(pump, pump.request)

\* When a curve is asked for only after the one before has arrived and is
\* reported, the curve of the heat pump always falls with the outside
\* temperature, although only the end points that change are sent.
PatientCurveIsOrdered == subject = "curve" /\ patient => CurveValid(pump.curve)

\* Inductive: the commands under way.
Requested == ShiftValues \cup WaterValues \cup RoomValues \cup {0, 30}
Curve     == [EndPoints -> Targets \cup Outsides \cup {-15, 15, 30}]
Settings  == [mode : Modes, sensor : Sensors, request : Requested, curve : Curve]
Command   == [write : [request : Requested] \cup UNION {[es -> Targets \cup Outsides] : es \in SUBSET EndPoints},
              for : Modes \X Sensors]

\* A request fits the mode it was judged by, and a curve that arrives makes an ordered one
\* of that of the heat pump.
WriteFits(command) ==
  "request" \in DOMAIN command.write =>
    ValueValid([mode |-> command.for[1], sensor |-> command.for[2]], command.write["request"])
Written(curve, write) == [e \in EndPoints |-> IF e \in DOMAIN write THEN write[e] ELSE curve[e]]

CommandsFit ==
  /\ subject \in {"request", "curve"} /\ pump \in Settings /\ frame \in Settings
  /\ meant \in Modes \X Sensors
  /\ queue \in Seq(Command) /\ \A n \in 1 .. Len(queue) : WriteFits(queue[n])
  /\ IF subject = "request" THEN \A n \in 1 .. Len(queue) : "request" \in DOMAIN queue[n].write
     ELSE /\ \A s \in {pump, frame} : s.mode = 0 /\ s.sensor = 0 /\ s.request = 0
          /\ \A n \in 1 .. Len(queue) : "request" \notin DOMAIN queue[n].write
  /\ RequestFitsItsMeaning /\ PatientCurveIsOrdered
  /\ subject = "curve" /\ patient /\ queue # <<>> =>
       Len(queue) = 1 /\ CurveValid(Written(pump.curve, queue[1].write))
=============================================================================
