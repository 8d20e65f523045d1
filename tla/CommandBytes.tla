---------------------------- MODULE CommandBytes ----------------------------
(***************************************************************************)
(* The settings of the heat pump as bytes.  A set_* function of             *)
(* commands.cpp writes its request into one byte of an otherwise empty      *)
(* query (set_curves into sixteen), a getBit* or getInt* function of        *)
(* decode.cpp reads a setting back from the byte at the same place of the   *)
(* answer, and several settings share a byte, each in bits of its own.      *)
(* Bits left 0 in a query keep their setting ("if not exists keep default   *)
(* 0x00 value which keeps current setting", commands.cpp:490): that is how  *)
(* the heat pump is modelled.                                               *)
(*                                                                         *)
(* Only one byte of the settings is looked at in a behaviour; any byte is   *)
(* looked at in some behaviour.                                             *)
(***************************************************************************)
EXTENDS Integers, TLC

VARIABLES
  at,     \* the byte that is looked at
  value,  \* what the heat pump keeps in it
  wanted  \* topic |-> what was last asked for, of the topics read from it

bytesVars == <<at, value, wanted>>

Byte(n)     == n % 256
Low(b, n)   == b % 2^n
Pick(b, from, n) == Low(b \div 2^from, n)

\* The ways a set_* function turns a payload into its byte.
Switch(off)   == [how |-> "switch", off |-> off]     \* off, or twice that for 1
Shifted(by)   == [how |-> "shifted", by |-> by]
Listed(codes) == [how |-> "listed", codes |-> codes] \* 0 for what is not listed
Scaled(by)    == [how |-> "scaled", by |-> by]
Masked(bits)  == [how |-> "masked", bits |-> bits]

Encode(code, v) ==
  CASE code.how = "switch"  -> IF v = 1 THEN 2 * code.off ELSE code.off
    [] code.how = "shifted" -> Byte(v + code.by)
    [] code.how = "listed"  -> IF v \in DOMAIN code.codes THEN code.codes[v] ELSE 0
    [] code.how = "scaled"  -> Byte((v + 1) * code.by)
    [] code.how = "masked"  -> Low(Byte(v + 1), code.bits)

Setter(byte, code) == [byte |-> byte, code |-> code]
-----------------------------------------------------------------------------
StateSetters ==
  [ SetHeatpump                 |-> Setter(4, Switch(1)),
    SetPump                     |-> Setter(4, Switch(16)),
    SetMaxPumpDuty              |-> Setter(45, Shifted(1)),
    SetQuietMode                |-> Setter(7, Scaled(8)) ]

TemperatureSetters ==
  [ SetZ1HeatRequestTemperature |-> Setter(38, Shifted(128)),
    SetZ1CoolRequestTemperature |-> Setter(39, Shifted(128)),
    SetZ2HeatRequestTemperature |-> Setter(40, Shifted(128)),
    SetZ2CoolRequestTemperature |-> Setter(41, Shifted(128)),
    SetBivalentStartTemp        |-> Setter(65, Shifted(128)),
    SetBivalentAPStartTemp      |-> Setter(66, Shifted(128)),
    SetBivalentAPStopTemp       |-> Setter(68, Shifted(128)) ]

ForceSetters ==
  [ SetForceDHW                 |-> Setter(4, Switch(64)),
    SetForceDefrost             |-> Setter(8, Listed(1 :> 2)),
    SetForceSterilization       |-> Setter(8, Listed(1 :> 4)),
    SetForceHeater              |-> Setter(5, Switch(4)),
    SetHolidayMode              |-> Setter(5, Switch(16)) ]

ModeSetters ==
  [ SetPowerfulMode             |-> Setter(7, Masked(3)),
    SetDHWTemp                  |-> Setter(42, Shifted(128)),
    SetOperationMode            |-> Setter(6, Listed(0 :> 18 @@ 1 :> 19 @@ 2 :> 24 @@
                                      3 :> 33 @@ 4 :> 34 @@ 5 :> 35 @@ 6 :> 40)),
    SetBivalentControl          |-> Setter(26, Switch(1)),
    SetBivalentMode             |-> Setter(26, Listed(0 :> 4 @@ 1 :> 8 @@ 2 :> 12)) ]

CurveBytes ==
  [ Z1HeatTargetHigh |-> 75, Z1HeatTargetLow |-> 76, Z1HeatOutsideLow |-> 77, Z1HeatOutsideHigh |-> 78,
    Z2HeatTargetHigh |-> 79, Z2HeatTargetLow |-> 80, Z2HeatOutsideLow |-> 81, Z2HeatOutsideHigh |-> 82,
    Z1CoolTargetHigh |-> 86, Z1CoolTargetLow |-> 87, Z1CoolOutsideLow |-> 88, Z1CoolOutsideHigh |-> 89,
    Z2CoolTargetHigh |-> 90, Z2CoolTargetLow |-> 91, Z2CoolOutsideLow |-> 92, Z2CoolOutsideHigh |-> 93 ]

CurveSetters == [key \in DOMAIN CurveBytes |-> Setter(CurveBytes[key], Shifted(128))]

DeltaSetters ==
  [ SetZones                    |-> Setter(6, Listed(0 :> 64 @@ 1 :> 128 @@ 2 :> 192)),
    SetFloorHeatDelta           |-> Setter(84, Shifted(128)),
    SetFloorCoolDelta           |-> Setter(94, Shifted(128)),
    SetDHWHeatDelta             |-> Setter(99, Shifted(128)),
    SetReset                    |-> Setter(8, Listed(1 :> 1)),
    SetHeaterDelayTime          |-> Setter(104, Shifted(1)) ]

HeaterSetters ==
  [ SetHeaterStartDelta         |-> Setter(105, Shifted(128)),
    SetHeaterStopDelta          |-> Setter(106, Shifted(128)),
    SetMainSchedule             |-> Setter(5, Switch(64)),
    SetAltExternalSensor        |-> Setter(20, Switch(16)),
    SetExternalPadHeater        |-> Setter(25, Listed(0 :> 16 @@ 1 :> 32 @@ 2 :> 48)),
    SetBufferDelta              |-> Setter(59, Shifted(128)),
    SetBuffer                   |-> Setter(24, Switch(4)),
    SetHeatingOffOutdoorTemp    |-> Setter(83, Shifted(128)) ]

ExternalSetters ==
  [ SetExternalControl          |-> Setter(23, Switch(1)),
    SetExternalHeatCoolControl  |-> Setter(23, Switch(4)),
    SetExternalError            |-> Setter(23, Switch(16)),
    SetHeatingControl           |-> Setter(30, Switch(4)),
    SetSmartDHW                 |-> Setter(24, Switch(64)),
    SetQuietModePriority        |-> Setter(11, Switch(16)) ]

SensorSetters ==
  [ SetPumpFlowrateMode         |-> Setter(29, Switch(16)),
    SetDHWSensorSelection       |-> Setter(11, Switch(1)),
    SetDHWHeaterState           |-> Setter(9, Switch(4)),
    SetRoomHeaterState          |-> Setter(9, Switch(1)),
    SetHeaterOnOutdoorTemp      |-> Setter(85, Shifted(128)),
    SetExternalCompressorControl |-> Setter(23, Switch(64)) ]

Setters == StateSetters @@ TemperatureSetters @@ ForceSetters @@ ModeSetters @@ CurveSetters
             @@ DeltaSetters @@ HeaterSetters @@ ExternalSetters @@ SensorSetters
-----------------------------------------------------------------------------
\* Reading: the bits a decode function looks at, and what it makes of them.
\* from and n give the bits, minus is subtracted.
Reader(from, n, minus) == [from |-> from, n |-> n, minus |-> minus]

getBit1        == Reader(7, 1, 0)
getBit1and2    == Reader(6, 2, 1)
getBit3and4    == Reader(4, 2, 1)
getBit5and6    == Reader(2, 2, 1)
getBit7and8    == Reader(0, 2, 1)
\* Variant (getBit3and4and5): the two bits above, another setting, are read as well.
getLeft5bits   == Reader(3, 5, 1)
getBit3and4and5 == Reader(3, 3, 1)
getRight3bits  == Reader(0, 3, 1)
getIntMinus1   == Reader(0, 8, 1)
getIntMinus128 == Reader(0, 8, 128)
getFirstByte   == Reader(4, 4, 1)
getSecondByte  == Reader(0, 4, 1)
getOpMode      == Reader(0, 6, 0)

OpModes == 18 :> 0 @@ 19 :> 1 @@ 25 :> 2 @@ 33 :> 3 @@ 34 :> 4 @@ 35 :> 5 @@ 41 :> 6 @@ 26 :> 7 @@ 42 :> 8

Decode(reader, b) ==
  LET bits == Pick(b, reader.from, reader.n)
  IN  IF reader = getOpMode
      THEN IF bits \in DOMAIN OpModes THEN OpModes[bits] ELSE -1
      ELSE bits - reader.minus

\* topicBytes and topicFunctions, for the topics that report a setting.
topicBytes ==
  0 :> 4 @@ 2 :> 4 @@ 3 :> 7 @@ 4 :> 6 @@ 9 :> 42 @@ 13 :> 5 @@ 17 :> 7 @@ 18 :> 7 @@ 19 :> 5 @@
  22 :> 99 @@ 23 :> 84 @@ 24 :> 94 @@ 27 :> 38 @@ 28 :> 39 @@ 29 :> 75 @@ 30 :> 76 @@ 31 :> 78 @@
  32 :> 77 @@ 34 :> 40 @@ 35 :> 41 @@ 58 :> 9 @@ 59 :> 9 @@ 68 :> 5 @@ 72 :> 86 @@ 73 :> 87 @@
  74 :> 89 @@ 75 :> 88 @@ 77 :> 83 @@ 78 :> 85 @@ 82 :> 79 @@ 83 :> 80 @@ 84 :> 82 @@ 85 :> 81 @@
  86 :> 90 @@ 87 :> 91 @@ 88 :> 93 @@ 89 :> 92 @@ 94 :> 6 @@ 95 :> 45 @@ 96 :> 104 @@ 97 :> 105 @@
  98 :> 106 @@ 99 :> 24 @@ 100 :> 24 @@ 101 :> 24 @@ 106 :> 29 @@ 107 :> 20 @@ 108 :> 20 @@
  109 :> 20 @@ 110 :> 20 @@ 113 :> 59 @@ 114 :> 25 @@ 119 :> 23 @@ 120 :> 23 @@ 121 :> 23 @@
  122 :> 23 @@ 129 :> 26 @@ 130 :> 26 @@ 131 :> 65 @@ 132 :> 26 @@ 133 :> 26 @@ 134 :> 66 @@
  135 :> 68 @@ 139 :> 30 @@ 140 :> 24 @@ 141 :> 11 @@ 143 :> 11

topicFunctions == [t \in DOMAIN topicBytes |->
  CASE t \in {0, 59, 100, 110, 119, 129, 143}                  -> getBit7and8
    [] t \in {2, 3, 13, 94, 122, 133, 140}                     -> getBit1and2
    [] t \in {19, 101, 106, 108, 114, 121, 132, 141}           -> getBit3and4
    [] t \in {58, 68, 99, 109, 120, 130, 139}                  -> getBit5and6
    [] t = 4 -> getOpMode  [] t = 17 -> getRight3bits  [] t = 18 -> getBit3and4and5
    [] t = 107 -> getBit1  [] t \in {95, 96} -> getIntMinus1
    [] OTHER -> getIntMinus128]

\* Variant (CurveConfirmedBy): high and low of the outside temperature swapped.
CurveConfirmedSwapped ==
  75 :> 29 @@ 76 :> 30 @@ 77 :> 31 @@ 78 :> 32 @@ 79 :> 82 @@ 80 :> 83 @@ 81 :> 85 @@ 82 :> 84 @@
  86 :> 72 @@ 87 :> 73 @@ 88 :> 75 @@ 89 :> 74 @@ 90 :> 86 @@ 91 :> 87 @@ 92 :> 89 @@ 93 :> 88

\* commandConfirmations and curveConfirmations: the topic that shows a request was taken.
ConfirmedBy ==
  [ SetHeatpump |-> 0, SetHolidayMode |-> 19, SetQuietMode |-> 18, SetPowerfulMode |-> 17,
    SetZ1HeatRequestTemperature |-> 27, SetZ1CoolRequestTemperature |-> 28,
    SetZ2HeatRequestTemperature |-> 34, SetZ2CoolRequestTemperature |-> 35, SetOperationMode |-> 4,
    SetForceDHW |-> 2, SetDHWTemp |-> 9, SetMaxPumpDuty |-> 95, SetZones |-> 94,
    SetFloorHeatDelta |-> 23, SetFloorCoolDelta |-> 24, SetDHWHeatDelta |-> 22,
    SetHeaterDelayTime |-> 96, SetHeaterStartDelta |-> 97, SetHeaterStopDelta |-> 98,
    SetMainSchedule |-> 13, SetBufferDelta |-> 113, SetBuffer |-> 99, SetForceHeater |-> 68,
    SetAltExternalSensor |-> 108, SetExternalPadHeater |-> 114, SetHeatingOffOutdoorTemp |-> 77,
    SetExternalControl |-> 119, SetExternalError |-> 121, SetExternalCompressorControl |-> 122,
    SetExternalHeatCoolControl |-> 120, SetBivalentControl |-> 129, SetBivalentMode |-> 130,
    SetBivalentStartTemp |-> 131, SetBivalentAPStartTemp |-> 134, SetBivalentAPStopTemp |-> 135,
    SetHeatingControl |-> 139, SetSmartDHW |-> 140, SetQuietModePriority |-> 141,
    SetPumpFlowrateMode |-> 106, SetDHWSensorSelection |-> 143, SetDHWHeaterState |-> 58,
    SetRoomHeaterState |-> 59, SetHeaterOnOutdoorTemp |-> 78 ]

CurveConfirmedBy ==
  75 :> 29 @@ 76 :> 30 @@ 77 :> 32 @@ 78 :> 31 @@ 79 :> 82 @@ 80 :> 83 @@ 81 :> 85 @@ 82 :> 84 @@
  86 :> 72 @@ 87 :> 73 @@ 88 :> 75 @@ 89 :> 74 @@ 90 :> 86 @@ 91 :> 87 @@ 92 :> 89 @@ 93 :> 88

ConfirmingTopic(name) ==
  IF name \in DOMAIN CurveBytes THEN CurveConfirmedBy[CurveBytes[name]] ELSE ConfirmedBy[name]

\* expectationMatches: a mode that picks heating or cooling by itself reports either.
Matches(topic, asked, actual) ==
  \/ actual = asked
  \/ (topic = 4 /\ <<asked, actual>> \in {<<2, 7>>, <<6, 8>>})
  \/ (topic = 19 /\ <<asked, actual>> = <<1, 2>>)
-----------------------------------------------------------------------------
\* The payloads MQTT-Topics.md documents for a command.
Documented(name) ==
  CASE name \in {"SetZ1HeatRequestTemperature", "SetZ1CoolRequestTemperature",
                 "SetZ2HeatRequestTemperature", "SetZ2CoolRequestTemperature"} -> (-5 .. 5) \cup (20 .. 65)
    [] name \in {"SetBivalentStartTemp", "SetBivalentAPStartTemp", "SetBivalentAPStopTemp"} -> -15 .. 35
    [] name = "SetDHWTemp" -> 40 .. 75
    [] name = "SetMaxPumpDuty" -> 64 .. 254
    [] name \in {"SetFloorHeatDelta", "SetFloorCoolDelta", "SetHeaterStartDelta", "SetHeaterStopDelta"} -> 1 .. 15
    [] name = "SetDHWHeatDelta" -> -12 .. -2
    [] name = "SetHeaterDelayTime" -> {0, 10, 120}
    [] name = "SetBufferDelta" -> 0 .. 10
    [] name = "SetHeatingOffOutdoorTemp" -> 5 .. 35
    [] name = "SetHeaterOnOutdoorTemp" -> -15 .. 20
    [] name \in DOMAIN CurveBytes -> {-20, 0, 35, 60}
    [] name = "SetOperationMode" -> 0 .. 6
    [] name \in {"SetQuietMode", "SetPowerfulMode"} -> 0 .. 3
    [] name \in {"SetZones", "SetExternalPadHeater", "SetBivalentMode"} -> 0 .. 2
    [] OTHER -> {0, 1}

TopicsAt == [b \in 0 .. 110 |-> {t \in DOMAIN topicBytes : topicBytes[t] = b}]

\* The heat pump leaves alone what a query has 0 for.  In an automatic mode it
\* decides itself between heating (1) and cooling (2).
Merged(b, query) ==
  LET fields == {topicFunctions[t] : t \in TopicsAt[at]}
      Taken(f) == LET bits == Pick(query, f.from, f.n)
                  IN  (IF bits = 0 THEN Pick(b, f.from, f.n) ELSE bits) * 2^f.from
      OneOf[fs \in SUBSET fields] ==
        IF fs = {} THEN 0 ELSE LET f == CHOOSE g \in fs : TRUE IN Taken(f) + OneOf[fs \ {f}]
  IN  OneOf[fields]

Decided(b) ==
  IF at = 6 /\ Low(b, 6) \in {24, 40} THEN {b + 1, b + 2} ELSE {b}

Reports(b) == [t \in TopicsAt[at] |-> Decode(topicFunctions[t], b)]

\* What the heat pump keeps before anything is asked for (every switch off).
InitialByte(b) ==
  CASE b = 6 -> 82  [] b = 7 -> 73  [] b = 20 -> 21
    [] b \in {4, 5, 9, 11, 23, 24, 25, 26, 29, 30} -> 85
    [] OTHER -> 128

BytesInit ==
  /\ at \in {topicBytes[t] : t \in DOMAIN topicBytes}
  /\ value = InitialByte(at)
  /\ wanted = Reports(value)

SettersAt == [b \in 0 .. 110 |-> {name \in DOMAIN Setters : Setters[name].byte = b}]

\* One command, encoded, taken by the heat pump.
Request(name, v) ==
  /\ value' \in Decided(Merged(value, Encode(Setters[name].code, v)))
  /\ wanted' = IF name \in DOMAIN ConfirmedBy \cup DOMAIN CurveBytes
               THEN [wanted EXCEPT ![ConfirmingTopic(name)] = v] ELSE wanted
  /\ UNCHANGED at

\* The heat pump goes over from heating to cooling, or back, by itself.
AutoSwitch ==
  /\ at = 6
  /\ Low(value, 6) \in {25, 26, 41, 42}
  /\ value' = IF Low(value, 2) = 1 THEN value + 1 ELSE value - 1
  /\ UNCHANGED <<at, wanted>>

BytesNext ==
  \/ \E name \in SettersAt[at] : \E v \in Documented(name) : Request(name, v)
  \/ AutoSwitch
-----------------------------------------------------------------------------
\* Every topic that is read from a byte reports what was last asked for of it,
\* in whatever order the settings that share the byte were asked for: what the
\* encoders write is what the decoders read (else a command is repeated until
\* it fails), and no command disturbs another setting.
ReportedAsAsked == \A t \in DOMAIN wanted : Matches(t, wanted[t], Reports(value)[t])
=============================================================================
