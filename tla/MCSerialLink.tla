---------------------------- MODULE MCSerialLink ----------------------------
(* Small instances of the serial link.                                      *)
EXTENDS SerialLink

PcbSetup(extra) ==
  [optionalPCB |-> TRUE, waitTime |-> 2, hasExtra |-> extra, commands |-> {}]
CommandSetup(wait) ==
  [optionalPCB |-> FALSE, waitTime |-> wait, hasExtra |-> FALSE, commands |-> Command]

\* The optional PCB with both queries, and commands with the first query, which then
\* leaves room for them.
PcbOrCommands == {PcbSetup(TRUE), CommandSetup(4)}

OnlyPcb == {PcbSetup(FALSE)}

\* What the task and the main loop share stays consistent at every step of either, and every
\* read is counted once.
LinkIsConsistent == TypeOK /\ ReadsAddUp
=============================================================================
