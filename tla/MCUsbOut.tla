------------------------------ MODULE MCUsbOut ------------------------------
(***************************************************************************)
(* Small instances of the way out to USB-MIDI.  One message of each length, *)
(* and a system-exclusive message whose end comes in a packet of its own.   *)
(***************************************************************************)
EXTENDS UsbOutProps

Note == <<144, 1, 1>>
Program == <<192, 1>>
Clock == <<248>>
Sysex == <<240, 1, 1, 247>>

MCPackets == {Note, Clock}
MCChunks == {Program, Sysex}
MCMessages == {Note, Sysex}
MCNoRoute == {}
=============================================================================
