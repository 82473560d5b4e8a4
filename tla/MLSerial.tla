------------------------------ MODULE MLSerial ------------------------------
(***************************************************************************)
(* The MIDI jacks (MLSerial.cpp) and who uses them.                         *)
(*                                                                          *)
(* In: the USART interrupt stores each byte in a ring of RX_BUFFER_SIZE     *)
(* bytes; missinglink_midi_process, in the main loop, asks how many there   *)
(* are, reads at most three of them and hands them to the MIDI parser.      *)
(*                                                                          *)
(* Out: HardwareSerial::write polls the USART until its data register is    *)
(* empty, then writes the byte there.  Three callers do that: the main loop *)
(* with interrupts on (midi_send_serial, the thru route), the main loop     *)
(* with interrupts off (sendChunk, the OSC route), and the TWI interrupt    *)
(* (onReceiveService, the USB route).  What is written to a register that   *)
(* is not empty is ignored by the hardware.                                 *)
(*                                                                          *)
(* An interrupt is one action; the main loop is cut wherever it looks at    *)
(* what an interrupt changes.  QSize is RX_BUFFER_SIZE.                     *)
(***************************************************************************)
EXTENDS ByteQueue

CONSTANTS
  LineBytes,   \* the bytes that come in on the jack
  ThruMax,     \* the longest packet the thru route sends; 0: route off
  Budget       \* bound: how many packets and bytes the three writers begin

ASSUME LineAssumption == LineBytes \subseteq Byte
ASSUME BudgetAssumption == ThruMax \in 0..3 /\ Budget \in Nat

VARIABLES
  buffer, head, tail,  \* rx_buffer
  pc,       \* where the main loop is
  amt,      \* missinglink_midi_process: how many bytes it will read
  reg,      \* what Serial.read has found, before it moves the tail
  buf,      \* the bytes read so far
  handed,   \* the bytes just handed to midi_device_input
  udr,      \* the transmitter's data register: the writer of its byte, or "empty"
  thru,     \* how many bytes the thru route has still to write
  lost,     \* history: how many bytes of the thru route were ignored
  cut,      \* history: how many bytes the TWI interrupt wrote
  budget

ring == <<buffer, head, tail>>
reader == <<amt, reg, buf, handed>>
writer == <<udr, thru, lost, cut, budget>>
vars == <<ring, pc, reader, writer>>

Writers == {"thru", "osc", "usb"}

\* What HardwareSerial::read returns when there is nothing to read.
NONE == -1

TypeOK ==
  /\ buffer \in [Index -> Byte] /\ head \in Index /\ tail \in Index
  /\ pc \in {"idle", "read", "step", "poll", "write"}
  /\ amt \in 0..3
  /\ reg \in Byte \cup {NONE}
  /\ buf \in Seq(Byte) /\ handed \in Seq(Byte)
  /\ udr \in Writers \cup {"empty"}
  /\ thru \in 0..3
  /\ lost \in Nat /\ cut \in Nat
  /\ budget \in 0..Budget

Init ==
  /\ buffer = [i \in Index |-> 0] /\ head = 0 /\ tail = 0
  /\ pc = "idle"
  /\ amt = 0 /\ reg = NONE /\ buf = <<>> /\ handed = <<>>
  /\ udr = "empty" /\ thru = 0 /\ lost = 0 /\ cut = 0
  /\ budget = Budget

-----------------------------------------------------------------------------
(* In                                                                       *)

\* Mutant: the room is not checked.
store_char_unchecked(c) ==
  /\ head' = (head + 1) % QSize
  /\ buffer' = [buffer EXCEPT ![head] = c]

\* A full ring drops the byte.
store_char(c) ==
  LET i == (head + 1) % QSize IN
  IF i # tail THEN head' = i /\ buffer' = [buffer EXCEPT ![head] = c]
  ELSE UNCHANGED <<head, buffer>>

USART_RX_vect ==
  /\ \E c \in LineBytes : store_char(c)
  /\ UNCHANGED <<tail, pc, reader, writer>>

\* Mutant: a ring whose head has wrapped looks empty.
available_unwrapped == IF head >= tail THEN head - tail ELSE 0

\* Mutant: one too many.
available_inclusive == ((QSize + head - tail) % QSize) + 1

available == (QSize + head - tail) % QSize

\* missinglink_midi_process: amt = min(Serial.available(), 3).
ProcessBegin ==
  /\ pc = "idle"
  /\ amt' = IF available > 3 THEN 3 ELSE available
  /\ buf' = <<>> /\ handed' = <<>>
  /\ pc' = "read"
  /\ UNCHANGED <<ring, reg, writer>>

\* The first half of Serial.read.
ReadLook ==
  /\ pc = "read" /\ Len(buf) < amt
  /\ reg' = IF head = tail THEN NONE ELSE buffer[tail]
  /\ pc' = "step"
  /\ UNCHANGED <<ring, amt, buf, handed, writer>>

\* Mutant: the tail does not wrap.
ReadStepUnwrapped ==
  /\ pc = "step"
  /\ tail' = tail + 1
  /\ buf' = Append(buf, reg % 256)
  /\ reg' = NONE
  /\ pc' = "read"
  /\ UNCHANGED <<buffer, head, amt, handed, writer>>

\* The second half; buf[i] is a uint8_t, whatever read returned.
ReadStep ==
  /\ pc = "step"
  /\ tail' = IF reg = NONE THEN tail ELSE (tail + 1) % QSize
  /\ buf' = Append(buf, reg % 256)
  /\ reg' = NONE
  /\ pc' = "read"
  /\ UNCHANGED <<buffer, head, amt, handed, writer>>

\* midi_device_input(&md_serial, amt, ...)
ProcessInput ==
  /\ pc = "read" /\ Len(buf) = amt
  /\ handed' = buf
  /\ buf' = <<>> /\ amt' = 0
  /\ pc' = "idle"
  /\ UNCHANGED <<ring, reg, writer>>

-----------------------------------------------------------------------------
(* Out                                                                      *)

Begin == budget > 0 /\ budget' = budget - 1

\* The USART has taken the byte from the register.
Transmit ==
  /\ udr # "empty"
  /\ udr' = "empty"
  /\ UNCHANGED <<ring, pc, reader, thru, lost, cut, budget>>

\* Mutant: the first byte is written without a look at the register.
ThruBeginUnpolled ==
  /\ pc = "idle"
  /\ Begin
  /\ thru' \in 1..ThruMax
  /\ pc' = "write"
  /\ UNCHANGED <<ring, reader, udr, lost, cut>>

\* midi_send_serial, called by the parser.
ThruBegin ==
  /\ pc = "idle"
  /\ Begin
  /\ thru' \in 1..ThruMax
  /\ pc' = "poll"
  /\ UNCHANGED <<ring, reader, udr, lost, cut>>

ThruPoll ==
  /\ pc = "poll"
  /\ udr = "empty"
  /\ pc' = "write"
  /\ UNCHANGED <<ring, reader, writer>>

\* The register may have been filled since the poll.
ThruWrite ==
  /\ pc = "write"
  /\ IF udr = "empty" THEN udr' = "thru" /\ UNCHANGED lost
     ELSE lost' = lost + 1 /\ UNCHANGED udr
  /\ thru' = thru - 1
  /\ pc' = IF thru = 1 THEN "idle" ELSE "poll"
  /\ UNCHANGED <<ring, reader, cut, budget>>

\* HardwareSerial::write with interrupts off: when it has polled enough the
\* register is empty, and nobody else can fill it.
WriteMasked(w) == udr' = w

\* sendByte, from sendChunk.
OscWrite ==
  /\ pc = "idle"
  /\ Begin
  /\ WriteMasked("osc")
  /\ UNCHANGED <<ring, pc, reader, thru, lost, cut>>

\* onReceiveService
UsbWrite ==
  /\ Begin
  /\ WriteMasked("usb")
  /\ cut' = cut + 1
  /\ UNCHANGED <<ring, pc, reader, thru, lost>>

-----------------------------------------------------------------------------
Process == ProcessBegin \/ ReadLook \/ ReadStep \/ ProcessInput

Next ==
  \/ USART_RX_vect \/ Process
  \/ Transmit \/ ThruBegin \/ ThruPoll \/ ThruWrite \/ OscWrite \/ UsbWrite

Spec == Init /\ [][Next]_vars

\* The main loop runs, and the USART sends.
FairSpec == Spec /\ WF_vars(Process) /\ WF_vars(ThruPoll \/ ThruWrite) /\ WF_vars(Transmit)

-----------------------------------------------------------------------------
(* Properties                                                               *)

Ring == [start |-> tail, end |-> head, data |-> buffer]

\* What comes in on the jack goes to the parser in order, at most three bytes at a
\* time, and is dropped only where it comes in: the bytes read and not yet handed
\* over, and those in the ring, are one first-in first-out stream.
Stream == INSTANCE ByteStream
  WITH Capacity <- QSize + 2, MaxTake <- 3, Datum <- LineBytes, AllowUnderrun <- FALSE,
       stream <- buf \o Contents(Ring), handed <- handed
ImplementsStream == Stream!Spec

\* Serial.read never finds the ring empty and never says -1, which would reach the
\* parser as 0xFF, a system reset: what available counted stays there, whatever the
\* interrupt does.
NeverReadsNothing == pc = "step" => reg # NONE

\* Each byte from USB costs the thru route at most one of its own, and nothing else
\* does: a byte is ignored only where the TWI interrupt came between poll and write.
OneLostPerCut ==
  lost + (IF pc = "write" /\ udr # "empty" THEN 1 ELSE 0) <= cut

\* A full ring does not stay full: the main loop comes back to it.
RingDrains == IsFull(Ring) ~> ~IsFull(Ring)
=============================================================================
