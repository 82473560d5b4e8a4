------------------------------ MODULE Uploader ------------------------------
(***************************************************************************)
(* An upload of a new application (bootloader/uploader/main.cpp) through the *)
(* PIC to the AVR's bootloader. The host puts the AVR into its bootloader,   *)
(* asks for the page size, sends the image's pages in chunks, waiting after   *)
(* each message for its ack, and lets the new application start.             *)
(*                                                                          *)
(* What is not in the repository: the PIC, which carries the bytes of the     *)
(* host to the AVR, resets the AVR on a command of its own and polls the AVR  *)
(* while the pin is high; the application, which ignores the bootloader's     *)
(* messages; the power, which may fail at any time.                          *)
(***************************************************************************)
EXTENDS Bootloader

CONSTANTS
  Images,       \* the files that may be uploaded: sequences of bytes
  Installed,    \* the one the flash holds at first
  Other,        \* what other programs may have sent the AVR before
  CHUNK_SIZE,   \* bytes of a page in one message (48)
  MaxRuns,      \* bound: how often the uploader is run
  MaxCuts       \* bound: how often the power fails

ASSUME UploadAssumption ==
  /\ \A f \in Images \cup {Installed} : f \in Seq(Byte) /\ Len(f) \in 1..(Pages * SPM_PAGESIZE)
  /\ Other \subseteq Seq(Byte)
  /\ CHUNK_SIZE \in Nat \ {0} /\ CHUNK_SIZE % 2 = 0
  /\ MaxRuns \in Nat /\ MaxCuts \in Nat

\* The sizes fit: an address is two bytes, and the longest message and the longest answer
\* are within the bootloader's buffers.
ASSUME SizeAssumption ==
  /\ Pages * SPM_PAGESIZE <= 65536
  /\ CHUNK_SIZE + 2 <= MaxUnpacked /\ 2 * (CHUNK_SIZE + 2) <= IN_BUFSIZE
  /\ MIDIBOOT_SYSEX_ID_LEN + 2 * (CHUNK_SIZE + 2) + 3 < MIDIIN_BUF_SIZE
  /\ MIDIBOOT_SYSEX_ID_LEN + 7 < MIDIOUT_BUF_SIZE

RESET == 256   \* the PIC's own command for a reset, among the bytes to the AVR

VARIABLES
  up,              \* the host: "off", "entering", "asking", "waiting", "done", "failed"
  image,           \* what it uploads
  sent, filled,    \* how much of it has gone out, and whether some of that awaits its write
  inSysexMessage, sysexByteCount,   \* its reading of the answer
  wire,            \* what the PIC has not yet carried to the AVR
  got,             \* what the host has not yet read
  runs, cuts       \* how many so far
VARIABLES
  late,            \* this run began when what came before it might still be answered
  cut              \* the power failed in this run

it == <<sent, filled>>
answered == <<inSysexMessage, sysexByteCount>>
history == <<runs, cuts, late, cut>>
upVars == <<up, image, it, answered, wire, got, history>>
vars == <<bootVars, upVars>>

-----------------------------------------------------------------------------
(* The messages of an image                                                 *)

Message(bytes) == <<SYSEX_BEGIN>> \o midiboot_sysex_id \o bytes \o <<SYSEX_END>>

\* simple_bit_pack: each byte as two half bytes.
simple_bit_pack(s) ==
  [k \in 1..(2 * Len(s)) |->
     IF k % 2 = 1 THEN s[(k + 1) \div 2] \div 16 ELSE s[k \div 2] % 16]

Least(a, b) == IF a <= b THEN a ELSE b

\* The page of an address, and where the chunk ends that starts there: within its page.
PageStart(addr) == (addr \div SPM_PAGESIZE) * SPM_PAGESIZE
ChunkEnd(f, addr) ==
  Least(Least(addr + CHUNK_SIZE, PageStart(addr) + SPM_PAGESIZE), Len(f))

FillMessage(f, addr) ==
  Message(<<MIDIBOOT_FILLPAGE>>
            \o simple_bit_pack(<<addr \div 256, addr % 256>> \o SubSeq(f, addr + 1, ChunkEnd(f, addr))))

WriteMessage == Message(<<MIDIBOOT_WRITEPAGE>>)

\* sysexMessages has, page after page, the page's chunks and then its write. The next one
\* is told from the last: a write, when a page or the file ends here.
WriteDue == filled /\ (sent % SPM_PAGESIZE = 0 \/ sent = Len(image))
FillDue == ~ WriteDue /\ sent < Len(image)

-----------------------------------------------------------------------------
(* The host                                                                 *)

\* The variables an answer is read with are not initialised: when its first byte comes
\* they hold anything. (Beyond the longest answer one count is like another.)
Unset == -1
UnsetCounts == 0..(MIDIBOOT_SYSEX_ID_LEN + 4) \cup {MIDIBOOT_SYSEX_ID_LEN + 6}
ReadAnswer == inSysexMessage' = FALSE /\ sysexByteCount' = Unset
Readings == IF sysexByteCount = Unset THEN BOOLEAN \X UnsetCounts
            ELSE {<<inSysexMessage, sysexByteCount>>}

\* The input is opened: what has come for an earlier run is not read. Then MLCommand 3:
\* the PIC is told to put the AVR into its bootloader.
EnterBootloader(f) ==
  /\ up \in {"off", "done", "failed"} /\ runs < MaxRuns
  /\ up' = "entering" /\ image' = f /\ sent' = 0 /\ filled' = FALSE
  /\ wire' = Append(wire, RESET)
  /\ got' = <<>>
  /\ runs' = runs + 1
  /\ late' = (wire \o midiByteQueue \o midiOutQueue \o answer # <<>>) /\ cut' = FALSE
  /\ UNCHANGED <<bootVars, answered, cuts>>

\* getPageSize asks, 1.5 s later: the reset is over by then.
AskPageSize ==
  /\ up = "entering" /\ wire = <<>>
  /\ up' = "asking"
  /\ wire' = Message(<<MIDIBOOT_GETPAGESIZE>>)
  /\ ReadAnswer
  /\ UNCHANGED <<bootVars, image, it, got, history>>

\* The next message goes out, or, after the last, the command to leave and a reset.
SendNext ==
  \/ /\ WriteDue
     /\ wire' = wire \o WriteMessage
     /\ filled' = FALSE /\ UNCHANGED sent
     /\ up' = "waiting" /\ ReadAnswer
  \/ /\ FillDue
     /\ wire' = wire \o FillMessage(image, sent)
     /\ sent' = ChunkEnd(image, sent) /\ filled' = TRUE
     /\ up' = "waiting" /\ ReadAnswer
  \/ /\ ~ WriteDue /\ ~ FillDue
     /\ wire' = wire \o Message(<<MIDIBOOT_LEAVE_BOOT>>) \o <<RESET>>
     /\ up' = "done"
     /\ UNCHANGED <<it, answered>>

\* The byte that the host reads.
inByte == Head(got)

HostReads(state) ==
  /\ up = state /\ got # <<>>
  /\ got' = Tail(got)
  /\ UNCHANGED <<bootVars, image, history>>

\* A byte that begins an answer, for either of the readers.
AnswerBegins ==
  /\ up \in {"asking", "waiting"}
  /\ HostReads(up)
  /\ inByte = SYSEX_BEGIN
  /\ inSysexMessage' = TRUE /\ sysexByteCount' = 0
  /\ UNCHANGED <<up, it, wire>>

\* A byte of the id that is the right one.
IdTaken(count) ==
  count < MIDIBOOT_SYSEX_ID_LEN /\ inByte = midiboot_sysex_id[count + 1]

\* A byte inside an answer is the expected one, or the answer is not for this reader.
Taken(inMessage, count, expected) ==
  /\ inSysexMessage' = (inMessage /\ expected)
  /\ sysexByteCount' = IF inMessage /\ expected THEN count + 1 ELSE count
  /\ UNCHANGED <<up, it, wire>>

\* getPageSize takes each byte in its turn and returns at the end of the message, whole
\* or not: what it did not receive it never set, and 128 may or may not come of it.
PageSizeRead(inMessage, count) ==
  IF inMessage /\ inByte = SYSEX_END
  THEN LET whole == count = MIDIBOOT_SYSEX_ID_LEN + 5
       IN \/ SendNext
          \/ ~ whole /\ up' = "failed" /\ UNCHANGED <<it, answered, wire>>
  ELSE Taken(inMessage, count,
             \/ IdTaken(count)
             \/ count = MIDIBOOT_SYSEX_ID_LEN /\ inByte = MIDIBOOT_GETPAGESIZE
             \/ count \in MIDIBOOT_SYSEX_ID_LEN + 1..MIDIBOOT_SYSEX_ID_LEN + 4)

PageSizeByte ==
  /\ HostReads("asking")
  /\ inByte # SYSEX_BEGIN
  /\ \E r \in Readings : PageSizeRead(r[1], r[2])

\* waitForAck: the id and then at once the end.
IsAck(inMessage, count) ==
  inMessage /\ count = MIDIBOOT_SYSEX_ID_LEN /\ inByte = SYSEX_END

AckRead(inMessage, count) ==
  IF IsAck(inMessage, count) THEN SendNext ELSE Taken(inMessage, count, IdTaken(count))

AckByte ==
  /\ HostReads("waiting")
  /\ inByte # SYSEX_BEGIN
  /\ \E r \in Readings : AckRead(r[1], r[2])

\* Three seconds without the answer, or the user's interrupt: the answer may come yet.
\* (Bound: only when the uploader can be run again.)
GiveUp ==
  /\ up \in {"asking", "waiting"} /\ runs < MaxRuns
  /\ up' = "failed"
  /\ UNCHANGED <<bootVars, image, it, answered, wire, got, history>>

-----------------------------------------------------------------------------
(* The PIC                                                                  *)

\* The next byte reaches the AVR; the application, when it runs, ignores it. The rest
\* of a batch is over long before a message can follow its ack.
Carry ==
  /\ wire # <<>>
  /\ wire' = Tail(wire)
  /\ CASE Head(wire) = RESET -> Reset
       [] Head(wire) # RESET /\ mode = "boot" ->
            /\ Head(wire) = SYSEX_BEGIN => pc = "top" /\ midiByteQueue = <<>>
            /\ onReceiveService(Head(wire))
       [] OTHER -> UNCHANGED bootVars
  /\ UNCHANGED <<up, image, it, answered, got, history>>

\* What of a packet its first byte says is there: what is before the end, or all of it, also
\* with two ends, whose places are added up to a type of another kind.
OnlyEnd(q, k) == \A j \in 1..Len(q) : q[j] = SYSEX_END <=> j = k
Told(q) ==
  IF \E k \in 1..Len(q) : OnlyEnd(q, k)
  THEN SubSeq(q, 1, CHOOSE k \in 1..Len(q) : OnlyEnd(q, k)) ELSE q

\* The PIC polls while the pin is high, and passes on what it gets.
Poll ==
  /\ mode = "boot" /\ pin
  /\ onRequestService
  /\ got' = IF HasPacket(midiOutQueue) THEN got \o Told(Packet(midiOutQueue)) ELSE got
  /\ UNCHANGED <<up, image, it, answered, wire, history>>

\* The power fails and comes back: what was under way is gone. So is what has reached the
\* host and it has not looked at: the host, which polls all the time, is taken to have read
\* it by the time the device is up again, or to have given up.
PowerFails ==
  /\ cuts < MaxCuts
  /\ cuts' = cuts + 1 /\ cut' = TRUE
  /\ Reset
  /\ wire' = <<>> /\ got' = <<>>
  /\ UNCHANGED <<up, image, it, answered, runs, late>>

-----------------------------------------------------------------------------
\* The bytes of a file in flash, the rest as the chip came.
FlashOf(f) ==
  [p \in Page |-> [o \in Offset |->
     LET k == p * SPM_PAGESIZE + o + 1 IN IF k <= Len(f) THEN f[k] ELSE Unfilled]]

Init ==
  /\ Started /\ flash = FlashOf(Installed)
  /\ up = "off" /\ image = Installed /\ sent = 0 /\ filled = FALSE
  /\ inSysexMessage = FALSE /\ sysexByteCount = Unset
  /\ wire \in Other /\ got = <<>>
  /\ runs = 0 /\ cuts = 0 /\ late = (wire # <<>>) /\ cut = FALSE

BootStep == (Timeout \/ MainLoop) /\ UNCHANGED upVars

HostStep ==
  \/ \E f \in Images : EnterBootloader(f)
  \/ AskPageSize \/ AnswerBegins \/ PageSizeByte \/ AckByte \/ GiveUp

Next == BootStep \/ HostStep \/ Carry \/ Poll \/ PowerFails

Spec == Init /\ [][Next]_vars

\* The bootloader's loop runs, the PIC carries and polls, the host reads what it is sent;
\* nobody has to start the uploader, give up or pull the plug.
FairSpec ==
  /\ Spec
  /\ WF_vars(MainLoop /\ UNCHANGED upVars)
  /\ WF_vars(Carry) /\ WF_vars(Poll)
  /\ WF_vars(AskPageSize) /\ WF_vars(AnswerBegins \/ PageSizeByte \/ AckByte)
=============================================================================
