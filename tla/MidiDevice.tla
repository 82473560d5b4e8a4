----------------------------- MODULE MidiDevice -----------------------------
(***************************************************************************)
(* A MIDI device of avrmidi (midi_device.c): bytes come in through          *)
(* midi_device_input, from the TWI interrupt (md_usbToOSC) or from the main *)
(* loop (md_serial, md_serialToOSC); midi_device_process, in the main loop, *)
(* takes them off the input queue one by one and feeds the parser, which    *)
(* hands whole messages and pieces of system-exclusive ones to a callback.  *)
(* The firmware registers the fallthrough callback only, so every call goes *)
(* there.                                                                   *)
(*                                                                          *)
(* The input queue is a byte queue represented by its contents: the lemmas  *)
(* of ByteQueueProofs say that enqueue appends, or drops when full, and     *)
(* that remove takes the oldest.                                            *)
(***************************************************************************)
EXTENDS Midi, Integers

CONSTANTS
  QueueLength,  \* MIDI_INPUT_QUEUE_LENGTH
  InputBytes    \* the bytes that can come in

ASSUME QueueLengthAssumption == QueueLength \in 2..255
ASSUME InputBytesAssumption == InputBytes \subseteq Byte

VARIABLES
  input_queue,   \* contents of the input queue
  input_state, input_count, input_buffer,
  call,          \* the bytes of the callback that the last byte led to, or <<>>
  pc,            \* midi_device_process: "idle", "process" or "remove"
  left           \* len - i: how many bytes this call has still to process

parser == <<input_state, input_count, input_buffer>>
vars == <<input_queue, parser, call, pc, left>>

States == {"IDLE", "TWO_BYTE_MESSAGE", "THREE_BYTE_MESSAGE", "SYSEX_MESSAGE"}

TypeOK ==
  /\ input_queue \in Seq(Byte) /\ Len(input_queue) <= QueueLength - 1
  /\ input_state \in States
  /\ input_count \in 0..3
  /\ input_buffer \in [0..2 -> Byte]
  /\ call \in Seq(Byte)
  /\ pc \in {"idle", "process", "remove"}
  /\ left \in Nat

\* midi_device_init; the devices are static, so input_buffer starts as zeros.
Init ==
  /\ input_queue = <<>>
  /\ input_state = "IDLE"
  /\ input_count = 0
  /\ input_buffer = [i \in 0..2 |-> 0]
  /\ call = <<>>
  /\ pc = "idle"
  /\ left = 0

\* Mutant: nobody looks whether the queue is full.
midi_device_input_unchecked ==
  /\ \E b \in InputBytes : input_queue' = Append(input_queue, b)
  /\ UNCHANGED <<parser, call, pc, left>>

\* One byte of midi_device_input: a full queue drops it.
midi_device_input ==
  /\ \E b \in InputBytes :
       input_queue' = IF Len(input_queue) < QueueLength - 1
                      THEN Append(input_queue, b) ELSE input_queue
  /\ UNCHANGED <<parser, call, pc, left>>

-----------------------------------------------------------------------------
(* midi_process_byte                                                        *)

\* The callback gets the first cnt bytes of the buffer.
midi_input_callbacks(cnt, buffer) == call' = [i \in 1..cnt |-> buffer[i - 1]]

\* What a status byte finds in the buffer: it is stored first, unless the
\* device is inside a system-exclusive message.
InSysex == input_state = "SYSEX_MESSAGE"
Stored(b) == IF InSysex THEN input_buffer ELSE [input_buffer EXCEPT ![0] = b]
StoredCount == IF InSysex THEN input_count ELSE 1

RealtimeByte(b) ==
  /\ midi_is_realtime(b)
  /\ call' = <<b>>
  /\ UNCHANGED parser

StatusByte(b) ==
  /\ midi_is_statusbyte(b) /\ ~midi_is_realtime(b)
  /\ midi_packet_length(b) # UNDEFINED
  /\ input_buffer' = Stored(b)
  /\ input_count' = StoredCount
  /\ input_state' = CASE midi_packet_length(b) = ONE   -> "IDLE"
                      [] midi_packet_length(b) = TWO   -> "TWO_BYTE_MESSAGE"
                      [] midi_packet_length(b) = THREE -> "THREE_BYTE_MESSAGE"
  /\ call' = IF midi_packet_length(b) = ONE THEN <<b>> ELSE <<>>

SysexBegin(b) ==
  /\ b = SYSEX_BEGIN
  /\ input_state' = "SYSEX_MESSAGE"
  /\ input_buffer' = [input_buffer EXCEPT ![0] = b]
  /\ input_count' = 1
  /\ call' = <<>>

\* Mutant: the byte that ends the message is not stored.
SysexEndUnstored(b) ==
  /\ b = SYSEX_END
  /\ input_buffer' = Stored(b)
  /\ input_count' = StoredCount + 1
  /\ input_state' = "SYSEX_MESSAGE"
  /\ call' = <<>>

\* Whatever is in the buffer goes out with the byte that ends it.
SysexEnd(b) ==
  /\ b = SYSEX_END
  /\ LET n == IF StoredCount > 2 THEN 2 ELSE StoredCount IN
       /\ input_buffer' = [Stored(b) EXCEPT ![n] = b]
       /\ input_count' = n + 1
       /\ midi_input_callbacks(n + 1, input_buffer')
  /\ input_state' = "IDLE"

\* 0xF4 and 0xF5.
UndefinedStatus(b) ==
  /\ b \in {244, 245}
  /\ input_buffer' = Stored(b)
  /\ input_state' = "IDLE"
  /\ input_count' = 0
  /\ call' = <<>>

IgnoredData(b) ==
  /\ ~midi_is_statusbyte(b)
  /\ input_state = "IDLE" \/ input_count > 2
  /\ input_state' = "IDLE"
  /\ call' = <<>>
  /\ UNCHANGED <<input_count, input_buffer>>

\* Mutant: no running status.
CompletesOnce(n) == input_count' = 0 /\ midi_input_callbacks(n, input_buffer')

\* A message of n bytes is complete; its status byte stays for running status.
Completes(n) == input_count' = 1 /\ midi_input_callbacks(n, input_buffer')

MessageData(b) ==
  /\ ~midi_is_statusbyte(b)
  /\ input_state # "IDLE" /\ input_count <= 2
  /\ input_buffer' = [input_buffer EXCEPT ![input_count] = b]
  /\ LET n == input_count + 1 IN
     IF n = 3 THEN Completes(3) /\ UNCHANGED input_state
     ELSE IF n = 2 THEN
       IF input_state = "TWO_BYTE_MESSAGE"
       THEN Completes(2) /\ UNCHANGED input_state
       ELSE input_count' = n /\ call' = <<>> /\ UNCHANGED input_state
     \* "shouldn't happen"
     ELSE IF InSysex
       THEN Completes(1) /\ UNCHANGED input_state
       ELSE input_count' = n /\ call' = <<>> /\ input_state' = "IDLE"

midi_process_byte(b) ==
  \/ RealtimeByte(b)
  \/ StatusByte(b)
  \/ SysexBegin(b)
  \/ SysexEnd(b)
  \/ UndefinedStatus(b)
  \/ IgnoredData(b)
  \/ MessageData(b)

-----------------------------------------------------------------------------
(* midi_device_process: the length is read once; each byte is looked at,    *)
(* processed and then removed, and more bytes may come in meanwhile.        *)

ProcessBegin ==
  /\ pc = "idle"
  /\ left' = Len(input_queue)
  /\ pc' = "process"
  /\ UNCHANGED <<input_queue, parser, call>>

\* Mutant: the byte is taken off before it is looked at.
ProcessByteTaken ==
  /\ pc = "process" /\ left > 0
  /\ input_queue # <<>>
  /\ midi_process_byte(Head(input_queue))
  /\ input_queue' = Tail(input_queue)
  /\ pc' = "remove"
  /\ UNCHANGED left

ProcessByte ==
  /\ pc = "process" /\ left > 0
  /\ midi_process_byte(Head(input_queue))
  /\ pc' = "remove"
  /\ UNCHANGED <<input_queue, left>>

\* Mutant: the loop goes on until the queue is empty.
ProcessRemoveRereads ==
  /\ pc = "remove"
  /\ input_queue' = Tail(input_queue)
  /\ left' = Len(input_queue')
  /\ pc' = "process"
  /\ UNCHANGED <<parser, call>>

ProcessRemove ==
  /\ pc = "remove"
  /\ input_queue' = Tail(input_queue)
  /\ left' = left - 1
  /\ pc' = "process"
  /\ UNCHANGED <<parser, call>>

ProcessEnd ==
  /\ pc = "process" /\ left = 0
  /\ pc' = "idle"
  /\ UNCHANGED <<input_queue, parser, call, left>>

midi_device_process == ProcessBegin \/ ProcessByte \/ ProcessRemove \/ ProcessEnd

Next == midi_device_input \/ midi_device_process

Spec == Init /\ [][Next]_vars

\* The main loop calls midi_device_process again and again.
FairSpec == Spec /\ WF_vars(midi_device_process)
=============================================================================
