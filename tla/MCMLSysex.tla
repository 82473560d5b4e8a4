----------------------------- MODULE MCMLSysex ------------------------------
(***************************************************************************)
(* A short default configuration, and messages of every kind: a note, an    *)
(* other maker's system-exclusive message, a header that stops early, a     *)
(* header with no command, the commands 0 to 3 and an unknown one, writes   *)
(* of no byte at an address out of range, of one and two bytes, and the     *)
(* longest write that fits sysex_index.                                     *)
(***************************************************************************)
EXTENDS MLSysex

MCDefaultConfig == <<CURR_CONFIG_VERSION, 2, 77>>

Command(c, data) == ML_HEADER \o <<c>> \o data \o <<SYSEX_END>>

Longest == [i \in 1..244 |-> i % 15]

MCUsbMessages ==
  {<<144, 64, 127>>, <<240, 103, 1, 247>>, <<240, 125, 77, 247>>, ML_HEADER \o <<247>>,
   Command(0, <<>>), Command(1, <<>>), Command(3, <<>>), Command(9, <<2, 0>>),
   Command(2, <<127, 0, 0, 1>>),
   Command(2, <<0, 0, 0, 0, 0, 4>>),
   Command(2, <<0, 0, 0, 1, 15, 15, 1, 2>>),
   Command(2, <<0, 0, 0, 4>> \o Longest)}

MCSerialMessages ==
  {<<144, 64, 127>>, Command(2, <<0, 0, 0, 1, 2, 3>>)}
=============================================================================
