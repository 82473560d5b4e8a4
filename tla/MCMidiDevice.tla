---------------------------- MODULE MCMidiDevice ----------------------------
(* Instances for TLC: one byte of every kind the parser tells apart (note on, *)
(* program change, song position, tune request, undefined, start and end of a *)
(* system-exclusive message, clock) and two data bytes.                       *)
EXTENDS MidiDeviceProps
MCBytes == {144, 192, 242, 246, 244, 240, 247, 248, 1, 2}
MCSysexBytes == {240, 247, 1, 2}
=============================================================================
