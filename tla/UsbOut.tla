------------------------------- MODULE UsbOut -------------------------------
(***************************************************************************)
(* The way out to USB-MIDI (HandleMidi.cpp).  The AVR is a slave on an I2C  *)
(* bus whose master is a PIC that talks USB.  Bytes for the host wait in    *)
(* usb_queue; pin 1 of port C tells the PIC that there are some; the PIC    *)
(* reads them as USB-MIDI packets of at most three bytes.                   *)
(*                                                                          *)
(* Three producers fill the queue:                                          *)
(*   serial   main loop, midi_check_sysex: sendByteUSB with interrupts on   *)
(*   OSC      main loop, sendChunk: sendByteUSB with interrupts off         *)
(*   USB      the TWI interrupt, onReceiveService: the PIC's own bytes back *)
(* and one reader empties it: the TWI interrupt, onRequestService.          *)
(*                                                                          *)
(* An interrupt runs to its end once it has started, so each TWI handler is *)
(* one action.  The main loop can be interrupted between any two of its     *)
(* accesses to the queue or to the port, so each access is one action and   *)
(* what it has read sits in the register `reg'.                             *)
(***************************************************************************)
EXTENDS ByteQueue

CONSTANTS
  SerialPackets,  \* what the serial parser's callback sends to USB; {}: route off
  OscChunks,      \* what an OSC message makes sendChunk send to USB; {}: route off
  UsbMessages,    \* the MIDI messages the PIC writes, if they go back to it; {}: route off
  LedSplit,       \* LED_OFF is a load, a mask and a store that an interrupt can split
  PicWaits,       \* the PIC reads only while the pin says there is something to read
  Budget          \* bound: how many packets, chunks and messages are begun

ASSUME InputAssumption ==
  /\ \A p \in SerialPackets : p \in Seq(Byte) /\ Len(p) \in 1..3
  /\ \A c \in OscChunks : c \in Seq(Byte) /\ c # <<>>
  /\ \A m \in UsbMessages : m \in Seq(Byte) /\ m # <<>>
ASSUME SwitchAssumption ==
  /\ LedSplit \in BOOLEAN
  /\ PicWaits \in BOOLEAN
  /\ Budget \in Nat

VARIABLES
  queue,     \* usb_queue
  pin,       \* PORTC bit 1, the data-ready pin
  sysex,     \* usb_in_sysex_mode
  pc,        \* where the main loop is
  out,       \* bytes the main loop has still to pass to sendByteUSB
  reg,       \* what the main loop has read and not yet used
  usb,       \* bytes the PIC has still to write of its message
  twea,      \* the TWI hardware will ACK the next byte the PIC writes
  reply,     \* the last packet handed to twi_transmit
  open,      \* history: the host has the start of a sysex message and not its end
  lost,      \* history: a byte meant for the host was dropped
  underrun,  \* history: a byte was taken from the empty queue
  budget

mainVars == <<pc, out, reg>>
busVars == <<usb, twea>>
history == <<lost, underrun>>
vars == <<queue, pin, sysex, mainVars, busVars, reply, open, history, budget>>

\* onRequestService leaves `out' unset when it has no packet, and transmits it
\* all the same: what the PIC then reads is whatever was on the stack.
Garbage == [cin |-> 0, bytes |-> <<>>]

Locations == {"idle", "enqueue", "measure", "write", "chunk", "led"}

TypeOK ==
  /\ queue \in Queue
  /\ pin \in BOOLEAN
  /\ sysex \in BOOLEAN
  /\ pc \in Locations
  /\ out \in Seq(Byte)
  /\ reg \in BOOLEAN
  /\ usb \in Seq(Byte)
  /\ twea \in BOOLEAN
  /\ reply \in [cin : 0..15, bytes : Seq(Byte)]
  /\ open \in BOOLEAN
  /\ lost \in BOOLEAN
  /\ underrun \in BOOLEAN
  /\ budget \in 0..Budget

NonEmpty(q) == bytequeue_length(q) > 0

\* setup() and missinglink_init_midi(): the pin low, the queue empty.
Init ==
  /\ queue = bytequeue_init
  /\ pin = FALSE
  /\ sysex = FALSE
  /\ pc = "idle" /\ out = <<>> /\ reg = FALSE
  /\ usb = <<>> /\ twea = TRUE
  /\ reply = Garbage /\ open = FALSE
  /\ lost = FALSE /\ underrun = FALSE
  /\ budget = Budget

Begin == budget > 0 /\ budget' = budget - 1

\* The bytequeue_enqueue of sendByteUSB; a full queue drops the byte.
Enqueue(b) ==
  /\ queue' = bytequeue_enqueue(queue, b)
  /\ lost' = (lost \/ IsFull(queue))

-----------------------------------------------------------------------------
(* The main loop, serial: midi_check_sysex sends a packet byte by byte,     *)
(* and each sendByteUSB is an enqueue, a look at the length, and a write to *)
(* the pin, with interrupts on in between.                                  *)

SerialPacket ==
  /\ pc = "idle"
  /\ Begin
  /\ \E p \in SerialPackets : out' = p
  /\ pc' = "enqueue"
  /\ UNCHANGED <<queue, pin, sysex, reg, busVars, reply, open, history>>

SerialEnqueue ==
  /\ pc = "enqueue"
  /\ Enqueue(Head(out))
  /\ out' = Tail(out)
  /\ pc' = "measure"
  /\ UNCHANGED <<pin, sysex, reg, busVars, reply, open, underrun, budget>>

SerialMeasure ==
  /\ pc = "measure"
  /\ reg' = NonEmpty(queue)
  /\ pc' = "write"
  /\ UNCHANGED <<queue, pin, sysex, out, busVars, reply, open, history, budget>>

SerialWrite ==
  /\ pc = "write"
  /\ pin' = reg
  /\ pc' = IF out = <<>> THEN "idle" ELSE "enqueue"
  /\ UNCHANGED <<queue, sysex, out, reg, busVars, reply, open, history, budget>>

-----------------------------------------------------------------------------
(* The main loop, OSC: sendChunk takes each byte of the chunk to sendByte   *)
(* between cli() and sei(), so an interrupt comes between two bytes only.   *)

OscChunk ==
  /\ pc = "idle"
  /\ Begin
  /\ \E c \in OscChunks : out' = c
  /\ pc' = "chunk"
  /\ UNCHANGED <<queue, pin, sysex, reg, busVars, reply, open, history>>

OscByte ==
  /\ pc = "chunk"
  /\ Enqueue(Head(out))
  /\ pin' = NonEmpty(queue')
  /\ out' = Tail(out)
  /\ pc' = IF Len(out) = 1 THEN "idle" ELSE "chunk"
  /\ UNCHANGED <<sysex, reg, busVars, reply, open, underrun, budget>>

-----------------------------------------------------------------------------
(* The main loop, LED: LED_OFF clears two bits of port C.  A mask of two    *)
(* bits is no sbi or cbi: the port is read, masked and written back, the    *)
(* data-ready pin with it.                                                  *)

LedRead ==
  /\ LedSplit
  /\ pc = "idle"
  /\ reg' = pin
  /\ pc' = "led"
  /\ UNCHANGED <<queue, pin, sysex, out, busVars, reply, open, history, budget>>

LedWrite ==
  /\ pc = "led"
  /\ pin' = reg
  /\ pc' = "idle"
  /\ UNCHANGED <<queue, sysex, out, reg, busVars, reply, open, history, budget>>

-----------------------------------------------------------------------------
(* The TWI interrupt, the PIC writes: the hardware answers each byte before *)
(* the handler sees it, as the handler's last twi_reply told it to.         *)

UsbBegin ==
  /\ usb = <<>>
  /\ Begin
  /\ usb' \in UsbMessages
  /\ UNCHANGED <<queue, pin, sysex, mainVars, twea, reply, open, history>>

\* TW_SR_DATA_ACK: twi_reply(onReceiveService(TWDR)).
UsbByte ==
  /\ usb # <<>>
  /\ twea
  /\ Enqueue(Head(usb))
  /\ pin' = NonEmpty(queue')
  /\ twea' = (~IsFull(queue) /\ bytequeue_length(queue') < QSize - 1)
  /\ usb' = Tail(usb)
  /\ UNCHANGED <<sysex, mainVars, reply, open, underrun, budget>>

\* TW_SR_DATA_NACK: the byte is left unread, and the next one is ACKed again.
\* The PIC knows: it writes the byte once more, or it gives up the message.
UsbRefused ==
  /\ usb # <<>>
  /\ ~twea
  /\ twea' = TRUE
  /\ usb' \in {usb, <<>>}
  /\ UNCHANGED <<queue, pin, sysex, mainVars, reply, open, history, budget>>

\* TW_SR_STOP: twi_stop sets TWEA.
UsbStop ==
  /\ ~twea
  /\ twea' = TRUE
  /\ UNCHANGED <<queue, pin, sysex, mainVars, usb, reply, open, history, budget>>

-----------------------------------------------------------------------------
(* The TWI interrupt, the PIC reads: onRequestService, one action for each  *)
(* way through it.                                                          *)

Min3(n) == IF n < 3 THEN n ELSE 3
qlen == Min3(bytequeue_length(queue))
status_byte == bytequeue_get(queue, 0)
begins == qlen > 0 /\ status_byte = SYSEX_BEGIN
in_sysex_mode == sysex \/ begins
midi_packet_len ==
  IF qlen > 0 /\ ~begins THEN midi_packet_length(status_byte) ELSE 0

Oldest(n) == [i \in 1..n |-> bytequeue_get(queue, i - 1)]

\* `end': how many bytes up to and with the first SYSEX_END.
EndsAt(n) ==
  /\ n \in 1..qlen
  /\ bytequeue_get(queue, n - 1) = SYSEX_END
  /\ \A i \in 0..(n - 2) : bytequeue_get(queue, i) # SYSEX_END

\* Code 4 is a piece of a system-exclusive message with more to come.
HostOpen(packet) == IF packet.cin = 0 THEN open ELSE packet.cin = 4

\* Mutant: the pin goes low whatever is left.
RespondAlwaysClears(n, mode, packet) ==
  /\ PicWaits => pin
  /\ queue' = bytequeue_remove(queue, n)
  /\ sysex' = mode
  /\ reply' = packet
  /\ open' = HostOpen(packet)
  /\ pin' = FALSE
  /\ twea' = TRUE
  /\ UNCHANGED <<mainVars, usb, lost, budget>>

\* The tail of onRequestService, after n bytes have been removed.
Respond(n, mode, packet) ==
  /\ PicWaits => pin
  /\ queue' = bytequeue_remove(queue, n)
  /\ sysex' = mode
  /\ reply' = packet
  /\ open' = HostOpen(packet)
  /\ pin' = (pin /\ NonEmpty(queue'))
  /\ twea' = TRUE
  /\ UNCHANGED <<mainVars, usb, lost, budget>>

\* Mutant: sends a message without waiting for the rest of it.
RequestPacketEarly ==
  /\ ~in_sysex_mode
  /\ midi_packet_len > 0 /\ qlen > 0
  /\ Respond(qlen, sysex,
             [cin |-> status_byte \div 16, bytes |-> Oldest(qlen)])
  /\ UNCHANGED underrun

RequestPacket ==
  /\ ~in_sysex_mode
  /\ midi_packet_len > 0 /\ qlen >= midi_packet_len
  /\ Respond(midi_packet_len, sysex,
             [cin |-> status_byte \div 16, bytes |-> Oldest(midi_packet_len)])
  /\ UNCHANGED underrun

\* The message is not all there yet.
RequestWaits ==
  /\ ~in_sysex_mode
  /\ qlen < midi_packet_len
  /\ Respond(0, sysex, Garbage)
  /\ UNCHANGED underrun

\* Mutant: a byte that starts no message is left where it is.
RequestSkipsNothing ==
  /\ ~in_sysex_mode
  /\ midi_packet_len = 0
  /\ Respond(0, sysex, Garbage)
  /\ UNCHANGED underrun

\* No message starts here: one byte is removed, even from an empty queue.
RequestSkips ==
  /\ ~in_sysex_mode
  /\ midi_packet_len = 0
  /\ Respond(1, sysex, Garbage)
  /\ underrun' = (underrun \/ qlen = 0)

RequestSysexEnd ==
  /\ in_sysex_mode
  /\ \E n \in 1..3 :
       /\ EndsAt(n)
       /\ Respond(n, FALSE, [cin |-> 4 + n, bytes |-> Oldest(n)])
  /\ UNCHANGED underrun

\* Mutant: that the message goes on is not remembered.
RequestSysexFullForgets ==
  /\ in_sysex_mode
  /\ \A n \in 1..3 : ~EndsAt(n)
  /\ qlen >= 3
  /\ Respond(3, sysex, [cin |-> 4, bytes |-> Oldest(3)])
  /\ UNCHANGED underrun

RequestSysexFull ==
  /\ in_sysex_mode
  /\ \A n \in 1..3 : ~EndsAt(n)
  /\ qlen >= 3
  /\ Respond(3, in_sysex_mode, [cin |-> 4, bytes |-> Oldest(3)])
  /\ UNCHANGED underrun

RequestSysexWaits ==
  /\ in_sysex_mode
  /\ \A n \in 1..3 : ~EndsAt(n)
  /\ qlen < 3
  /\ Respond(0, in_sysex_mode, Garbage)
  /\ UNCHANGED underrun

onRequestService ==
  \/ RequestPacket
  \/ RequestWaits
  \/ RequestSkips
  \/ RequestSysexEnd
  \/ RequestSysexFull
  \/ RequestSysexWaits

-----------------------------------------------------------------------------
MainLoop ==
  \/ SerialPacket \/ SerialEnqueue \/ SerialMeasure \/ SerialWrite
  \/ OscChunk \/ OscByte
  \/ LedRead \/ LedWrite

onReceiveService == UsbBegin \/ UsbByte \/ UsbRefused \/ UsbStop

Next == MainLoop \/ onReceiveService \/ onRequestService

Spec == Init /\ [][Next]_vars

\* The main loop goes on with what it has begun, and the PIC reads again and
\* again while the pin is high.
Fairness ==
  /\ WF_vars(SerialEnqueue \/ SerialMeasure \/ SerialWrite \/ OscByte \/ LedWrite)
  /\ WF_vars(pin /\ onRequestService)

FairSpec == Spec /\ Fairness
=============================================================================
