----------------------------- MODULE UsbOutProps ----------------------------
(***************************************************************************)
(* What the way out to USB-MIDI has to do, and what its comments say of it. *)
(***************************************************************************)
EXTENDS UsbOut

\* No lost wakeup: bytes that wait are announced on the pin, unless the main
\* loop has just enqueued one and is on its way to the pin (sendByteUSB).
\* While the LED code holds a copy of the port, the copy must say so too.
DataReady ==
  NonEmpty(queue) =>
    CASE pc = "measure" -> TRUE
      [] pc = "write"   -> reg
      [] pc = "led"     -> pin /\ reg
      [] OTHER          -> pin

\* onRequestService takes bytes only out of a queue that holds some
\* (HandleMidi.cpp:505: there is a byte that is no status byte).
NeverUnderruns == ~underrun

\* A packet that is no part of a system-exclusive message is one whole MIDI
\* message, as its status byte says, as long as no byte was dropped at a full
\* queue and none was taken from an empty one (onRequestService, and the
\* producers that feed it).
WholeMessages ==
  (~lost /\ ~underrun /\ reply.cin > 7) => IsWholeMessage(reply.bytes)

\* The host gets a system-exclusive message in one run of packets: the first
\* begins with SYSEX_BEGIN, those of code 4 are full and hold no SYSEX_END, the
\* last has it as its last byte and counts its bytes in the code, and no other
\* message comes between.  onRequestService sees three bytes at a time and has
\* only usb_in_sysex_mode to go by, over waits in the middle of the message.
Piece(code, bytes) ==
  LET n == Len(bytes) IN
  /\ n = IF code = 4 THEN 3 ELSE code - 4
  /\ \A i \in 1..n : bytes[i] = SYSEX_END <=> (code # 4 /\ i = n)
SysexWhole ==
  [][onRequestService =>
       /\ reply'.cin > 7 => ~open
       /\ reply'.cin \in 4..7 =>
            /\ Piece(reply'.cin, reply'.bytes)
            /\ ~open => reply'.bytes[1] = SYSEX_BEGIN]_vars

\* The queue is a first-in first-out stream from the producers to the packets,
\* whatever interrupts what, but for a read of the empty queue.
Stream == INSTANCE ByteStream
  WITH Capacity <- QSize - 1, MaxTake <- 3, Datum <- Byte,
       AllowUnderrun <- TRUE,
       stream <- Contents(queue), handed <- reply.bytes
ImplementsStream == Stream!Spec

\* A full packet's worth of bytes does not stay in the queue for ever.
Drains == (bytequeue_length(queue) >= 3) ~> (bytequeue_length(queue) < 3)
=============================================================================
