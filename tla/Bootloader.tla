----------------------------- MODULE Bootloader -----------------------------
(***************************************************************************)
(* The AVR's bootloader (bootloader/avr_code/main.c): system-exclusive      *)
(* messages come from the PIC byte by byte, in the TWI interrupt, into a    *)
(* queue; the main loop takes what is there at once, one byte after the     *)
(* other, and carries out a command when its message ends; answers go into   *)
(* another queue, one byte after the other, and the PIC fetches them in      *)
(* packets of three, in the TWI interrupt again.                             *)
(*                                                                          *)
(* A page is first filled, word by word, into the chip's page buffer, then   *)
(* erased and written. The chip keeps the first value a word of the buffer   *)
(* is filled with, and clears the buffer when the page is written.           *)
(***************************************************************************)
EXTENDS Integers, Sequences

CONSTANTS
  midiboot_sysex_id,  \* the bytes that follow F0 in each message
  SPM_PAGESIZE,       \* bytes of a flash page (128 on the chip)
  Pages,              \* how many pages the application may fill; flash beyond them is left out
  MIDIIN_BUF_SIZE,    \* the queue from the PIC (128)
  MIDIOUT_BUF_SIZE,   \* the queue to the PIC (64)
  IN_BUFSIZE,         \* data bytes of a fill message that can be kept (260)
  MaxUnpacked,        \* bytes of address and data a fill message may carry (64)
  Stale               \* what memory that was not written may hold

Byte == 0..255

ASSUME BootAssumption ==
  /\ midiboot_sysex_id \in Seq(0..127) /\ midiboot_sysex_id # <<>>
  /\ SPM_PAGESIZE \in {2, 4, 8, 16, 32, 64, 128} /\ Pages \in Nat \ {0}
  /\ Stale \subseteq Byte /\ Stale # {}
  /\ MIDIIN_BUF_SIZE \in Nat \ {0} /\ MIDIOUT_BUF_SIZE \in Nat \ {0}
  /\ IN_BUFSIZE \in Nat /\ MaxUnpacked \in Nat

SYSEX_BEGIN == 240
SYSEX_END == 247
MIDIBOOT_SYSEX_ID_LEN == Len(midiboot_sysex_id)

MIDIBOOT_INVALID == 0
MIDIBOOT_LEAVE_BOOT == 1
MIDIBOOT_GETPAGESIZE == 2
MIDIBOOT_FILLPAGE == 3
MIDIBOOT_WRITEPAGE == 4

Page == 0..(Pages - 1)
Offset == 0..(SPM_PAGESIZE - 1)
Unfilled == 255   \* a byte of erased flash, or of the buffer where it was not filled

VARIABLES
  mode,            \* "boot", or "app": the application runs
  pc,              \* main loop: "top", "byte", "send", "pin", "erased"
  midiByteQueue, midiOutQueue,
  pin,             \* bit 1 of PORTC: data for the PIC
  size, i,         \* main loop: how many bytes it found, and how many are done
  answer,          \* what is left to send of an answer
  inSysexMode, inByteIndex, sysexMode, cancelTimeout,
  tmpPackedData,   \* as far as it has been filled by this message
  pageAddress,     \* as a page number
  buffer,          \* the chip's page buffer: per word filled, its two bytes
  flash

parser == <<inSysexMode, inByteIndex, sysexMode, tmpPackedData>>
loop == <<size, i>>
memory == <<pageAddress, buffer, flash>>
bootVars == <<mode, pc, midiByteQueue, midiOutQueue, pin, loop, answer, parser,
              cancelTimeout, memory>>

BootTypeOK ==
  /\ mode \in {"boot", "app"}
  /\ pc \in {"top", "byte", "send", "pin", "erased"}
  /\ midiByteQueue \in Seq(Byte) /\ midiOutQueue \in Seq(Byte) /\ answer \in Seq(Byte)
  /\ Len(midiByteQueue) < MIDIIN_BUF_SIZE /\ Len(midiOutQueue) < MIDIOUT_BUF_SIZE
  /\ pin \in BOOLEAN /\ inSysexMode \in BOOLEAN /\ cancelTimeout \in BOOLEAN
  /\ size \in 0..Len(midiByteQueue) /\ i \in 0..size
  /\ inByteIndex \in Nat
  /\ sysexMode \in MIDIBOOT_INVALID..MIDIBOOT_WRITEPAGE
  /\ tmpPackedData \in Seq(Byte) /\ Len(tmpPackedData) <= IN_BUFSIZE
  /\ pageAddress \in 0..(65535 \div SPM_PAGESIZE)
  /\ buffer \in [Offset -> Byte \cup {-1}]
  /\ flash \in [Page -> [Offset -> Byte]]

EmptyBuffer == [o \in Offset |-> -1]

\* What main() sets up, and what a reset of the chip clears.
Started ==
  /\ mode = "boot" /\ pc = "top"
  /\ midiByteQueue = <<>> /\ midiOutQueue = <<>> /\ pin = TRUE
  /\ size = 0 /\ i = 0 /\ answer = <<>>
  /\ inSysexMode = FALSE /\ inByteIndex = 0 /\ sysexMode = MIDIBOOT_INVALID
  /\ tmpPackedData = <<>> /\ cancelTimeout = FALSE
  /\ pageAddress = 0 /\ buffer = EmptyBuffer

Reset ==
  /\ mode' = "boot" /\ pc' = "top"
  /\ midiByteQueue' = <<>> /\ midiOutQueue' = <<>> /\ pin' = TRUE
  /\ size' = 0 /\ i' = 0 /\ answer' = <<>>
  /\ inSysexMode' = FALSE /\ inByteIndex' = 0 /\ sysexMode' = MIDIBOOT_INVALID
  /\ tmpPackedData' = <<>> /\ cancelTimeout' = FALSE
  /\ pageAddress' = 0 /\ buffer' = EmptyBuffer
  /\ UNCHANGED flash

-----------------------------------------------------------------------------
(* The TWI interrupt                                                       *)

\* onReceiveService: one byte from the PIC, refused when the queue is full.
onReceiveService(b) ==
  /\ mode = "boot" /\ pc # "erased"
  /\ midiByteQueue' = IF Len(midiByteQueue) < MIDIIN_BUF_SIZE - 1
                      THEN Append(midiByteQueue, b) ELSE midiByteQueue
  /\ UNCHANGED <<mode, pc, midiOutQueue, pin, loop, answer, parser, cancelTimeout, memory>>

\* onRequestService has a packet: three bytes, or fewer with an end among them.
HasPacket(q) == Len(q) >= 3 \/ \E k \in 1..Len(q) : q[k] = SYSEX_END

\* The first three bytes of the queue, or what there is of it.
Packet(q) == SubSeq(q, 1, IF Len(q) < 3 THEN Len(q) ELSE 3)

\* onRequestService sends the packet or nothing; the pin falls with the last byte.
onRequestService ==
  /\ mode = "boot" /\ pc # "erased"
  /\ midiOutQueue' = IF HasPacket(midiOutQueue)
                     THEN SubSeq(midiOutQueue, Len(Packet(midiOutQueue)) + 1, Len(midiOutQueue))
                     ELSE midiOutQueue
  /\ pin' = (pin /\ midiOutQueue' # <<>>)
  /\ UNCHANGED <<mode, pc, midiByteQueue, loop, answer, parser, cancelTimeout, memory>>

-----------------------------------------------------------------------------
(* The main loop                                                            *)

interrupts == <<midiByteQueue, midiOutQueue, pin>>

\* Mutant: the timeout is not cancelled.
TimeoutAnyway ==
  /\ mode = "boot" /\ pc = "top"
  /\ mode' = "app"
  /\ UNCHANGED <<pc, interrupts, loop, answer, parser, cancelTimeout, memory>>

\* counterLow has wrapped, and nobody has asked for the page size: exit_bootloader.
Timeout ==
  /\ mode = "boot" /\ pc = "top" /\ ~ cancelTimeout
  /\ mode' = "app"
  /\ UNCHANGED <<pc, interrupts, loop, answer, parser, cancelTimeout, memory>>

\* The look at the queue: size is what is there now.
Look ==
  /\ mode = "boot" /\ pc = "top" /\ midiByteQueue # <<>>
  /\ size' = Len(midiByteQueue) /\ i' = 0
  /\ pc' = "byte"
  /\ UNCHANGED <<mode, interrupts, answer, parser, cancelTimeout, memory>>

curByte == midiByteQueue[i + 1]

\* One byte of the batch; each kind of byte is an action of its own.
OneByte ==
  /\ mode = "boot" /\ pc = "byte" /\ i < size
  /\ i' = i + 1
  /\ UNCHANGED <<interrupts, size>>

Stay == pc' = "byte" /\ UNCHANGED <<mode, answer, cancelTimeout, memory>>

BeginByte ==
  /\ OneByte
  /\ curByte = SYSEX_BEGIN
  /\ inSysexMode' = TRUE /\ inByteIndex' = 0
  /\ sysexMode' = MIDIBOOT_INVALID /\ tmpPackedData' = <<>>
  /\ Stay

\* A byte of the prefix; another one ends the message.
PrefixByte ==
  /\ OneByte
  /\ curByte \notin {SYSEX_BEGIN, SYSEX_END}
  /\ inSysexMode /\ inByteIndex < MIDIBOOT_SYSEX_ID_LEN
  /\ IF curByte = midiboot_sysex_id[inByteIndex + 1]
     THEN inByteIndex' = inByteIndex + 1 /\ UNCHANGED inSysexMode
     ELSE inSysexMode' = FALSE /\ UNCHANGED inByteIndex
  /\ UNCHANGED <<sysexMode, tmpPackedData>>
  /\ Stay

CommandByte ==
  /\ OneByte
  /\ curByte \notin {SYSEX_BEGIN, SYSEX_END}
  /\ inSysexMode /\ inByteIndex = MIDIBOOT_SYSEX_ID_LEN
  /\ IF curByte \in MIDIBOOT_LEAVE_BOOT..MIDIBOOT_WRITEPAGE
     THEN sysexMode' = curByte /\ UNCHANGED inSysexMode
     ELSE inSysexMode' = FALSE /\ UNCHANGED sysexMode
  /\ inByteIndex' = inByteIndex + 1
  /\ UNCHANGED tmpPackedData
  /\ Stay

\* Mutant: one byte more than the buffer has.
FitsOneMore == Len(tmpPackedData) <= IN_BUFSIZE

Fits == Len(tmpPackedData) < IN_BUFSIZE

\* A byte of data: kept in a fill message, only counted in another.
DataByte ==
  /\ OneByte
  /\ curByte \notin {SYSEX_BEGIN, SYSEX_END}
  /\ inSysexMode /\ inByteIndex > MIDIBOOT_SYSEX_ID_LEN
  /\ IF sysexMode # MIDIBOOT_FILLPAGE
     THEN UNCHANGED <<inSysexMode, sysexMode, tmpPackedData>>
     ELSE IF Fits
          THEN /\ tmpPackedData' = Append(tmpPackedData, curByte)
               /\ UNCHANGED <<inSysexMode, sysexMode>>
          ELSE /\ sysexMode' = MIDIBOOT_INVALID /\ inSysexMode' = FALSE
               /\ UNCHANGED tmpPackedData
  /\ inByteIndex' = inByteIndex + 1
  /\ Stay

\* A byte outside a message of ours.
StrayByte ==
  /\ OneByte
  /\ curByte # SYSEX_BEGIN /\ ~ inSysexMode
  /\ UNCHANGED parser
  /\ Stay

Ended(command) ==
  /\ curByte = SYSEX_END
  /\ inSysexMode /\ sysexMode = command
  /\ inSysexMode' = FALSE
  /\ UNCHANGED <<inByteIndex, sysexMode, tmpPackedData>>

Answer(bytes) == pc' = "send" /\ answer' = <<SYSEX_BEGIN>> \o midiboot_sysex_id \o bytes

Ack == <<SYSEX_END>>
Nibbles(b) == <<b \div 16, b % 16>>

Leave ==
  /\ OneByte
  /\ Ended(MIDIBOOT_LEAVE_BOOT)
  /\ mode' = "app" /\ pc' = "top"
  /\ UNCHANGED <<answer, cancelTimeout, memory>>

PageSize ==
  /\ OneByte
  /\ Ended(MIDIBOOT_GETPAGESIZE)
  /\ IF inByteIndex = 1 + MIDIBOOT_SYSEX_ID_LEN
     THEN /\ cancelTimeout' = TRUE
          /\ Answer(<<MIDIBOOT_GETPAGESIZE>> \o Nibbles(SPM_PAGESIZE \div 256)
                      \o Nibbles(SPM_PAGESIZE % 256) \o Ack)
     ELSE pc' = "byte" /\ UNCHANGED <<answer, cancelTimeout>>
  /\ UNCHANGED <<mode, memory>>

\* Half bytes to bytes.
unpacked(k) == (tmpPackedData[2 * k - 1] * 16 + tmpPackedData[2 * k]) % 256
UnpackedSize == Len(tmpPackedData) \div 2
writeStartAddr == unpacked(1) * 256 + unpacked(2)

\* Mutant: the words are filled from the start of the page on.
FilledFromStart(stale) ==
  [o \in Offset |->
     LET k == 3 + o
     IN IF buffer[o] = -1 /\ k <= UnpackedSize THEN unpacked(k) ELSE buffer[o]]

\* boot_page_fill for the data of the message: a word that is already filled keeps its
\* value. With an odd number of bytes the last word's other half is not of the message:
\* tmpUnpackedData holds an earlier message's byte there, or one never written.
Filled(stale) ==
  LET end == UnpackedSize + (UnpackedSize % 2)
      at(o) == 3 + ((o - writeStartAddr) % SPM_PAGESIZE)
  IN [o \in Offset |->
        IF buffer[o] # -1 \/ at(o) > end THEN buffer[o]
        ELSE IF at(o) > UnpackedSize THEN stale ELSE unpacked(at(o))]

\* (A message with less than a whole address, for which bytesToWrite would wrap, is not
\* modelled: the uploader sends none.)
FillPage ==
  /\ OneByte
  /\ Ended(MIDIBOOT_FILLPAGE)
  /\ tmpPackedData = <<>> \/ UnpackedSize >= 2
  /\ IF Len(tmpPackedData) > 0 /\ UnpackedSize <= MaxUnpacked
     THEN /\ pageAddress' = writeStartAddr \div SPM_PAGESIZE
          /\ \E stale \in Stale : buffer' = Filled(stale)
          /\ Answer(Ack)
     ELSE pc' = "byte" /\ UNCHANGED <<pageAddress, buffer, answer>>
  /\ UNCHANGED <<mode, cancelTimeout, flash>>

\* The page is erased, then written; interrupts are off, but the power may fail between.
ErasePage ==
  /\ OneByte
  /\ Ended(MIDIBOOT_WRITEPAGE)
  /\ flash' = [flash EXCEPT ![pageAddress] = [o \in Offset |-> Unfilled]]
  /\ pc' = "erased"
  /\ UNCHANGED <<mode, answer, cancelTimeout, pageAddress, buffer>>

WritePage ==
  /\ mode = "boot" /\ pc = "erased"
  /\ flash' = [flash EXCEPT ![pageAddress] =
                 [o \in Offset |-> IF buffer[o] = -1 THEN Unfilled ELSE buffer[o]]]
  /\ buffer' = EmptyBuffer
  /\ Answer(Ack)
  /\ UNCHANGED <<mode, interrupts, loop, parser, cancelTimeout, pageAddress>>

EndOfOther ==
  /\ OneByte
  /\ curByte = SYSEX_END /\ inSysexMode /\ sysexMode = MIDIBOOT_INVALID
  /\ inSysexMode' = FALSE
  /\ UNCHANGED <<inByteIndex, sysexMode, tmpPackedData>>
  /\ Stay

\* midi_send_byte: the byte is queued, then the pin raised.
SendByte ==
  /\ mode = "boot" /\ pc = "send"
  /\ midiOutQueue' = IF Len(midiOutQueue) < MIDIOUT_BUF_SIZE - 1
                     THEN Append(midiOutQueue, Head(answer)) ELSE midiOutQueue
  /\ answer' = Tail(answer)
  /\ pc' = "pin"
  /\ UNCHANGED <<mode, midiByteQueue, pin, loop, parser, cancelTimeout, memory>>

RaisePin ==
  /\ mode = "boot" /\ pc = "pin"
  /\ pin' = TRUE
  /\ pc' = IF answer = <<>> THEN "byte" ELSE "send"
  /\ UNCHANGED <<mode, midiByteQueue, midiOutQueue, loop, answer, parser, cancelTimeout, memory>>

\* Mutant: what was taken stays in the queue.
AfterBatchKept == midiByteQueue

\* Mutant: all that is in the queue by now is removed, not what was looked at.
AfterBatchAll == <<>>

AfterBatch == SubSeq(midiByteQueue, size + 1, Len(midiByteQueue))

\* The end of the batch: it is removed from the queue.
Advance ==
  /\ mode = "boot" /\ pc = "byte" /\ i = size
  /\ midiByteQueue' = AfterBatch
  /\ size' = 0 /\ i' = 0
  /\ pc' = "top"
  /\ UNCHANGED <<mode, midiOutQueue, pin, answer, parser, cancelTimeout, memory>>

MainLoop ==
  \/ Look \/ BeginByte \/ PrefixByte \/ CommandByte \/ DataByte \/ StrayByte
  \/ Leave \/ PageSize \/ FillPage \/ ErasePage \/ WritePage \/ EndOfOther
  \/ SendByte \/ RaisePin \/ Advance
=============================================================================
