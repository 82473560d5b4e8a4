---------------------------- MODULE UploaderProps ----------------------------
(***************************************************************************)
(* What an upload promises.                                                  *)
(***************************************************************************)
EXTENDS Uploader

\* Every variable of the bootloader and of the upload has its type; the queues never
\* hold more than their buffers keep, and the loop never reads past the batch it found.
UploadTypeOK ==
  /\ BootTypeOK
  /\ up \in {"off", "entering", "asking", "waiting", "done", "failed"}
  /\ image \in Images \cup {Installed}
  /\ sent \in 0..Len(image) /\ filled \in BOOLEAN
  /\ inSysexMessage \in BOOLEAN /\ sysexByteCount \in -1..(MIDIBOOT_SYSEX_ID_LEN + 6)
  /\ wire \in Seq(Byte \cup {RESET}) /\ got \in Seq(Byte)
  /\ runs \in 0..MaxRuns /\ cuts \in 0..MaxCuts /\ late \in BOOLEAN /\ cut \in BOOLEAN

\* The flash holds the first bytes of an image.
Holds(f, length) ==
  \A k \in 1..length :
    flash[(k - 1) \div SPM_PAGESIZE][(k - 1) % SPM_PAGESIZE] = f[k]

\* While the uploader waits for an ack every page whose write has been acknowledged is
\* in flash as the file has it, and when it reports success the whole file is, whatever
\* an earlier, broken upload has left in the page buffer or in the flash, and through
\* power failures. Late runs are exempt, those which began while something of an earlier
\* run could still be answered: the uploader cannot tell whose ack it gets, and from the
\* third run on the page buffer may then hold another page than it believes (uploader
\* main.cpp 439-470, avr_code/main.c 209-262).
FlashAsSent ==
  \/ late
  \/ /\ up = "waiting" => Holds(image, PageStart(sent - 1))
     /\ up = "done" => Holds(image, Len(image))

\* An answer is over before the next begins: the end of one is never followed by another
\* byte in the queue to the PIC. A packet says only where its one end is. Late runs are
\* exempt: in them an answer is begun while an earlier one waits (avr_code/main.c 70-89).
EndLast ==
  \/ late
  \/ \A k \in 1..(Len(midiOutQueue) - 1) : midiOutQueue[k] # SYSEX_END

\* Once the uploader sends its pages, the bootloader does not run into its timeout and
\* start the application, half old and half new, until it is told to leave. Runs in which
\* the power failed and late runs are exempt: in the former it does so by design, in the
\* latter an answer to an earlier run passes for the page size before the bootloader has
\* been asked, and its timeout still counts (avr_code/main.c 173-177, 196-199; uploader
\* main.cpp 154-201).
StaysForUpload == up = "waiting" /\ ~ late /\ ~ cut => mode = "boot"

\* Each message that is sent is answered, and the uploader comes to its end: no interleaving
\* of the bytes that come with the loop that takes them loses one, or leaves an ack in the
\* queue with the pin low. Late runs and runs with a power failure may wait for an ack that
\* does not come, until their time is up (avr_code/main.c 52-94, 106-110, 180-183, 302).
Answered == (up = "waiting") ~> (up # "waiting" \/ late \/ cut)
=============================================================================
