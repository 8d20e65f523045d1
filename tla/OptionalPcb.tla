----------------------------- MODULE OptionalPcb -----------------------------
(***************************************************************************)
(* The optional PCB that HeishaMon emulates: optionalPCBQuery, the query    *)
(* that is sent to the heat pump every second.  The set_* functions at the  *)
(* end of commands.cpp write into it, the answer of the heat pump is copied *)
(* back into bytes 4 and 5, and it is saved to and loaded from flash.       *)
(* Bytes a thermistor value goes to are one byte here (temp).               *)
(***************************************************************************)
EXTENDS Integers

CONSTANTS
  StateValues, \* what is asked of the fields of byte 6, refused values with them, none negative
  Hex,      \* temp2hex: temperature |-> byte
  Answers   \* the bytes 4 the heat pump may answer with

VARIABLES
  ack,    \* optionalPCBQuery[4] (and [5])
  byte6,  \* optionalPCBQuery[6]
  temp,   \* a thermistor byte of optionalPCBQuery
  flash,  \* /optionalpcb.raw, or {} when there is none
  asked,  \* the setting last accepted for each field of byte6 and for temp
  kept    \* asked when flash was written

pvars == <<ack, byte6, temp, flash, asked, kept>>

\* The fields of byte 6: the first bit and the mask.
Fields == [ HeatCoolMode |-> [bit |-> 7, base |-> 1], CompressorState |-> [bit |-> 6, base |-> 1],
            SmartGridMode |-> [bit |-> 4, base |-> 3],
            ExternalThermostat1State |-> [bit |-> 2, base |-> 3],
            ExternalThermostat2State |-> [bit |-> 0, base |-> 3] ]

Field(byte, f) == (byte \div 2^Fields[f].bit) % (Fields[f].base + 1)

Settings == DOMAIN Fields \cup {"temp"}

\* Variant: the bits of the old value are left in.
SetByte6Keeping(byte, f, val) == byte + (val - (Field(byte, f) % 2)) * 2^Fields[f].bit

\* set_byte_6: the field's bits are cleared, then written.
SetByte6(byte, f, val) == byte + (val - Field(byte, f)) * 2^Fields[f].bit

PcbInit ==
  /\ ack = 0 /\ byte6 = 64 /\ temp = 255
  /\ flash = {}
  /\ asked = [f \in Settings |-> IF f = "temp" THEN 255 ELSE Field(64, f)]
  /\ kept = asked

\* A one-bit setting takes anything but 1 for 0; a two-bit setting is refused from 4 on.
SetState(f, val) ==
  LET v == IF Fields[f].base = 1 THEN (IF val = 1 THEN 1 ELSE 0) ELSE val
  IN  /\ Fields[f].base = 1 \/ val < 4
      /\ byte6' = SetByte6(byte6, f, v)
      /\ asked' = [asked EXCEPT ![f] = v]
      /\ UNCHANGED <<ack, temp, flash, kept>>

SetTemp(t) ==
  /\ temp' = Hex[t]
  /\ asked' = [asked EXCEPT !.temp = Hex[t]]
  /\ UNCHANGED <<ack, byte6, flash, kept>>

\* decode_optional_heatpump_data: "response to heatpump should contain the data from heatpump".
Answer(b) ==
  /\ ack' = b
  /\ UNCHANGED <<byte6, temp, flash, asked, kept>>

saveOptionalPCB ==
  /\ flash' = {[ack |-> ack, byte6 |-> byte6, temp |-> temp]}
  /\ kept' = asked
  /\ UNCHANGED <<ack, byte6, temp, asked>>

\* A restart: the query as it is linked, then loadOptionalPCB.
Restart ==
  /\ IF flash = {} THEN ack' = 0 /\ byte6' = 64 /\ temp' = 255
     ELSE \E q \in flash : ack' = q.ack /\ byte6' = q.byte6 /\ temp' = q.temp
  /\ asked' = kept
  /\ UNCHANGED <<flash, kept>>

PcbNext ==
  \/ \E f \in DOMAIN Fields, val \in StateValues : SetState(f, val)
  \/ \E t \in DOMAIN Hex : SetTemp(t)
  \/ \E b \in Answers : Answer(b)
  \/ saveOptionalPCB
  \/ Restart

\* Each of the five settings that share a byte, and the thermistor byte, is what
\* was last accepted for it, or what was saved last once the device restarted.
SettingsKept ==
  /\ \A f \in DOMAIN Fields : Field(byte6, f) = asked[f]
  /\ temp = asked.temp

-----------------------------------------------------------------------------
(* Why they are kept: byte 6 is nothing but its five settings, and so is the *)
(* one in flash.                                                             *)

\* Settings that fit into their bits.
AreSettings(s) ==
  s \in [Settings -> Int] /\ \A f \in DOMAIN Fields : s[f] \in 0 .. Fields[f].base

Assembled(s) ==
  128 * s.HeatCoolMode + 64 * s.CompressorState + 16 * s.SmartGridMode
    + 4 * s.ExternalThermostat1State + s.ExternalThermostat2State

PcbInvariant ==
  /\ AreSettings(asked) /\ byte6 = Assembled(asked) /\ temp = asked.temp
  /\ AreSettings(kept)
  /\ flash = {} => Assembled(kept) = 64 /\ kept.temp = 255
  /\ \A q \in flash : q.byte6 = Assembled(kept) /\ q.temp = kept.temp
=============================================================================
