-------------------------------- MODULE Midi --------------------------------
(***************************************************************************)
(* What the firmware needs to know of a MIDI byte (avrmidi/midi.h, midi.c): *)
(* is it a status byte, a realtime byte, and how long is the message that   *)
(* a status byte starts.                                                    *)
(***************************************************************************)
EXTENDS Naturals, Sequences

Byte == 0..255
DataByte == 0..127

SYSEX_BEGIN == 240
SYSEX_END == 247

\* The lengths of midi_packet_length_t.
UNDEFINED == 0
ONE == 1
TWO == 2
THREE == 3

midi_is_statusbyte(b) == b >= 128
midi_is_realtime(b) == b >= 248

\* Channel messages are told apart by their high nibble, system messages by the
\* whole byte: note off, note on, aftertouch, CC, pitch bend, song position; then
\* program change, channel pressure, quarter frame, song select; then tune
\* request and the realtime bytes that midi.h names (253 is none of them).
ThreeByteStatus == 128..191 \cup 224..239 \cup {242}
TwoByteStatus == 192..223 \cup {241, 243}
OneByteStatus == {246} \cup 248..252 \cup {254, 255}

midi_packet_length(status) ==
  IF status \in ThreeByteStatus THEN THREE
  ELSE IF status \in TwoByteStatus THEN TWO
  ELSE IF status \in OneByteStatus THEN ONE
  ELSE UNDEFINED

(***************************************************************************)
(* Reference notions of the MIDI wire format, for the properties only.      *)
(***************************************************************************)
IsWholeMessage(s) ==
  /\ s # <<>>
  /\ Len(s) = midi_packet_length(s[1])
  /\ \A i \in 2..Len(s) : s[i] \in DataByte
=============================================================================
