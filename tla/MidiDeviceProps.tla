-------------------------- MODULE MidiDeviceProps --------------------------
(***************************************************************************)
(* A MIDI device next to a listener that hears the same bytes and works out *)
(* from the rules of the wire, without the parser's buffer and counts, what *)
(* the callback is due to get.  The listener is a history: it never holds   *)
(* the device back.                                                         *)
(***************************************************************************)
EXTENDS MidiDevice

VARIABLES
  status,   \* the status byte that the bytes now heard belong to, or 0
  heard,    \* what was heard and is not yet due
  due,      \* what the callback is due to get of the byte just processed
  garbled   \* a byte was misplaced and no status byte has put it right

listener == <<status, heard, due, garbled>>
wire == <<vars, listener>>

HeardSysex == status = SYSEX_BEGIN

\* Running status is for channel messages only.
Ran(s) == IF s < 240 THEN <<s>> ELSE <<>>

\* A byte after which the device owes nobody anything: data that continues a
\* system common message, the end of no system-exclusive message, and a message
\* that cuts a system-exclusive one short.
Misplaced(b) ==
  \/ ~midi_is_statusbyte(b) /\ status \in {241, 242, 243} /\ heard = <<>>
  \/ b = SYSEX_END /\ ~HeardSysex
  \/ midi_packet_length(b) > 1 /\ HeardSysex

HearStatus(b) ==
  /\ status' = IF b = SYSEX_BEGIN \/ midi_packet_length(b) > 1 THEN b ELSE 0
  /\ due' = IF b = SYSEX_END /\ HeardSysex THEN Append(heard, b)
            ELSE IF midi_packet_length(b) = ONE THEN <<b>> ELSE <<>>
  /\ heard' = IF status' = 0 THEN <<>> ELSE <<b>>
  /\ garbled' = Misplaced(b)

\* A message is due when it is whole.  System-exclusive bytes may be handed over
\* in pieces, and where they are cut is the device's business.
HearData(b) ==
  /\ status' = status
  /\ LET now == Append(heard, b)
         whole == IF HeardSysex THEN call' # <<>>
                  ELSE status # 0 /\ Len(now) = midi_packet_length(status)
     IN /\ due' = IF whole THEN now ELSE <<>>
        /\ heard' = IF status = 0 THEN <<>>
                    ELSE IF ~whole THEN now
                    ELSE Ran(status)
  /\ garbled' = (garbled \/ Misplaced(b))

Hear(b) ==
  IF midi_is_realtime(b) THEN due' = <<b>> /\ UNCHANGED <<status, heard, garbled>>
  ELSE IF midi_is_statusbyte(b) THEN HearStatus(b)
  ELSE HearData(b)

WireInit == Init /\ status = 0 /\ heard = <<>> /\ due = <<>> /\ garbled = FALSE

WireInput == midi_device_input /\ UNCHANGED listener
WireByte == ProcessByte /\ Hear(Head(input_queue))
WireLoop == (ProcessBegin \/ ProcessRemove \/ ProcessEnd) /\ UNCHANGED listener

WireNext == WireInput \/ WireByte \/ WireLoop
WireSpec == WireInit /\ [][WireNext]_wire
WireFairSpec == WireSpec /\ WF_wire(WireByte \/ WireLoop)

-----------------------------------------------------------------------------
(* Properties                                                               *)

Payload(s) == IF s # <<>> /\ Head(s) = SYSEX_BEGIN THEN Tail(s) ELSE s

\* Every message comes out whole, once, with its own status byte, whatever realtime
\* bytes fall between its bytes, under running status or not; every data byte of a
\* system-exclusive message and its end come out in order, a start
\* byte before them not counted; and after a garbled stretch, of which nothing is said, the
\* next status byte puts the parser right.  Bytes that start nothing lead to no call.
\* (midi_process_byte; what counts is the bytes the queue took.)
HeardAsSent == ~garbled => Payload(call) = Payload(due)

\* The bytes of a system-exclusive message come out as they came in, as the test
\* of the device says (dummy_device.c): its start is heard once.
HeardVerbatim == ~garbled => call = due

\* Inside a message the buffer holds its status byte and at most one data byte, so
\* the next one is stored inside the buffer, and the branches of the data byte that
\* the code says should not happen do not.
InsideBuffer == input_state # "IDLE" => input_count \in 1..2

\* midi_device_process never takes off a byte that was not there: the length it read
\* at the start stays a bound while the interrupt adds bytes.
NeverTakesAbsent == left <= Len(input_queue)

\* midi_device_process returns however many bytes keep coming in.
ProcessReturns == pc # "idle" ~> pc = "idle"
=============================================================================
