--------------------------- MODULE UploaderProofs ---------------------------
(***************************************************************************)
(* Uploader and bootloader in step: for every image, id, page and chunk size *)
(* and any number of runs and power failures, what is acknowledged is in     *)
(* flash.                                                                    *)
(***************************************************************************)
EXTENDS UploaderProps, SequenceTheorems, TLAPS

-----------------------------------------------------------------------------
(* The inductive invariant                                                  *)

Half == 0..127
Commands == MIDIBOOT_LEAVE_BOOT..MIDIBOOT_WRITEPAGE

\* The data of a fill message, and what goes out for a command.
ChunkData(f, addr) ==
  simple_bit_pack(<<addr \div 256, addr % 256>> \o SubSeq(f, addr + 1, ChunkEnd(f, addr)))
Data(c, addr) == IF c = MIDIBOOT_FILLPAGE THEN ChunkData(image, addr) ELSE <<>>
Stream(c, data) ==
  Message(<<c>> \o data) \o (IF c = MIDIBOOT_LEAVE_BOOT THEN <<RESET>> ELSE <<>>)
MessageLen(data) == MIDIBOOT_SYSEX_ID_LEN + Len(data) + 3

\* What comes back.
Reply(c) ==
  <<SYSEX_BEGIN>> \o midiboot_sysex_id \o
    (IF c = MIDIBOOT_GETPAGESIZE
     THEN <<MIDIBOOT_GETPAGESIZE>> \o Nibbles(SPM_PAGESIZE \div 256)
            \o Nibbles(SPM_PAGESIZE % 256) \o Ack
     ELSE Ack)

\* The parser after n bytes of a message.
ParserAt(c, data, n) ==
  /\ n >= 1 => inSysexMode /\ inByteIndex = n - 1
  /\ n >= 1 /\ n <= MIDIBOOT_SYSEX_ID_LEN + 1 => sysexMode = MIDIBOOT_INVALID /\ tmpPackedData = <<>>
  /\ n >= MIDIBOOT_SYSEX_ID_LEN + 2 =>
       /\ sysexMode = c
       /\ c = MIDIBOOT_FILLPAGE =>
            /\ Len(tmpPackedData) = n - (MIDIBOOT_SYSEX_ID_LEN + 2)
            /\ \A k \in 1..Len(tmpPackedData) : tmpPackedData[k] = data[k]

\* n bytes of a message are read, the rest is in the queue and on the wire.
InTransit(c, data, n) ==
  /\ Len(midiByteQueue) - i + Len(wire) = Len(Stream(c, data)) - n
  /\ \A k \in 1..(Len(midiByteQueue) - i) : midiByteQueue[i + k] = Stream(c, data)[n + k]
  /\ \A k \in 1..Len(wire) : wire[k] = Stream(c, data)[n + (Len(midiByteQueue) - i) + k]
  /\ Len(wire) < Len(Stream(c, data)) => i <= n

NothingBack == got = <<>> /\ midiOutQueue = <<>> /\ answer = <<>>

GoingAt(c, data, n) ==
  /\ mode = "boot" /\ pc \in {"top", "byte", "pin"}
  /\ NothingBack
  /\ n < MessageLen(data)
  /\ InTransit(c, data, n)
  /\ ParserAt(c, data, n)

\* The page is erased and not yet written.
Erasing ==
  /\ mode = "boot" /\ pc = "erased"
  /\ wire = <<>> /\ i = Len(midiByteQueue)
  /\ NothingBack

\* The message is read and carried out, and the host has read r bytes of the reply.
OnWayBack(c, r) ==
  /\ Len(got) + Len(midiOutQueue) + Len(answer) = Len(Reply(c)) - r
  /\ \A k \in 1..Len(got) : got[k] = Reply(c)[r + k]
  /\ \A k \in 1..Len(midiOutQueue) : midiOutQueue[k] = Reply(c)[r + Len(got) + k]
  /\ \A k \in 1..Len(answer) : answer[k] = Reply(c)[r + Len(got) + Len(midiOutQueue) + k]

AnsweringAt(c, r) ==
  /\ mode = "boot" /\ pc \in {"send", "pin", "byte", "top"}
  /\ wire = <<>> /\ i = Len(midiByteQueue)
  /\ pc \in {"byte", "top"} => answer = <<>>
  /\ cancelTimeout
  /\ r < Len(Reply(c))
  /\ OnWayBack(c, r)
  /\ up \in {"asking", "waiting"} /\ r >= 1 => inSysexMessage /\ sysexByteCount = r - 1

\* Nothing is under way, or nobody listens to it.
Quiet ==
  /\ NothingBack
  /\ \A k \in 1..Len(wire) : wire[k] = RESET => k = Len(wire)
  /\ mode = "app" \/ (midiByteQueue = <<>> /\ wire \in {<<>>, <<RESET>>})

\* Pages and places of the file's bytes, counted from 0.
Pg(k) == k \div SPM_PAGESIZE
Of(k) == k % SPM_PAGESIZE
FileBytes == 0..(Len(image) - 1)
InFlash(k) == flash[Pg(k)][Of(k)] = image[k + 1]

\* The page buffer holds what page p has of the file's first n bytes, and nothing more
\* unless the file ends there.
BufferHolds(p, n) ==
  \A k \in Nat : Pg(k) = p =>
    /\ k < n => buffer[Of(k)] = image[k + 1]
    /\ k >= n /\ n < Len(image) => buffer[Of(k)] = -1

\* The command under way and the host agree.
Meant(c, addr) ==
  /\ up = "asking" => c = MIDIBOOT_GETPAGESIZE
  /\ up = "waiting" =>
       IF filled
       THEN /\ c = MIDIBOOT_FILLPAGE /\ addr % 2 = 0
            /\ sent = ChunkEnd(image, addr)
       ELSE /\ c = MIDIBOOT_WRITEPAGE /\ sent >= 1
            /\ Of(sent) = 0 \/ sent = Len(image)
  /\ up = "done" <=> c = MIDIBOOT_LEAVE_BOOT

\* Page buffer and flash, before and after a command is carried out.
Before(c, addr) ==
  /\ c \in {MIDIBOOT_FILLPAGE, MIDIBOOT_WRITEPAGE} => cancelTimeout
  /\ up = "asking" => buffer = EmptyBuffer
  /\ up = "waiting" =>
       /\ c = MIDIBOOT_FILLPAGE => BufferHolds(Pg(addr), addr)
       /\ c = MIDIBOOT_WRITEPAGE => BufferHolds(Pg(sent - 1), sent) /\ pageAddress = Pg(sent - 1)

After(c, addr) ==
  /\ up = "asking" => buffer = EmptyBuffer
  /\ up = "waiting" =>
       /\ c = MIDIBOOT_FILLPAGE => BufferHolds(Pg(addr), sent) /\ pageAddress = Pg(addr)
       /\ c = MIDIBOOT_WRITEPAGE =>
            /\ buffer = EmptyBuffer
            /\ \A k \in FileBytes : k < sent /\ Pg(k) = Pg(sent - 1) => InFlash(k)

Under(c, addr) ==
  \/ Before(c, addr) /\ \E d \in {Data(c, addr)}, n \in Nat : GoingAt(c, d, n)
  \/ Before(c, addr) /\ Erasing /\ c = MIDIBOOT_WRITEPAGE
  \/ After(c, addr) /\ \E r \in Nat : AnsweringAt(c, r) /\ c # MIDIBOOT_LEAVE_BOOT

Idle ==
  /\ Quiet
  /\ up = "waiting" => cut
  /\ up = "entering" =>
       /\ wire \in {<<>>, <<RESET>>}
       /\ wire = <<>> /\ mode = "boot" => buffer = EmptyBuffer

Busy ==
  /\ up \in {"asking", "waiting", "failed", "done"}
  /\ \E c \in Commands, addr \in FileBytes : Meant(c, addr) /\ Under(c, addr)

\* What has been acknowledged is in flash.
Acknowledged ==
  /\ up \in {"entering", "asking"} => sent = 0 /\ filled = FALSE
  /\ up = "waiting" =>
       /\ sent >= 1
       /\ \A k \in FileBytes : Pg(k) < Pg(sent - 1) => InFlash(k)
  /\ up = "done" => \A k \in FileBytes : InFlash(k)

\* The main loop's place in a batch.
BatchInv ==
  /\ mode = "boot" /\ pc = "top" => size = 0 /\ i = 0
  /\ pc # "top" => size >= 1
  /\ pc = "send" => answer # <<>>

IInv ==
  /\ UploadTypeOK
  /\ BatchInv
  /\ ~ late => Acknowledged /\ (Idle \/ Busy)

-----------------------------------------------------------------------------
(* Numbers                                                                  *)

LEMMA Sizes ==
  /\ SPM_PAGESIZE \in {2, 4, 8, 16, 32, 64, 128} /\ SPM_PAGESIZE \in Nat
  /\ Pages \in Nat /\ Pages >= 1 /\ Pages * SPM_PAGESIZE \in Nat /\ Pages * SPM_PAGESIZE <= 65536
  /\ MIDIBOOT_SYSEX_ID_LEN \in Nat /\ MIDIBOOT_SYSEX_ID_LEN >= 1
  /\ CHUNK_SIZE \in Nat /\ CHUNK_SIZE >= 1 /\ CHUNK_SIZE % 2 = 0
  /\ MIDIIN_BUF_SIZE \in Nat /\ MIDIOUT_BUF_SIZE \in Nat /\ IN_BUFSIZE \in Nat /\ MaxUnpacked \in Nat
  /\ midiboot_sysex_id \in Seq(0..127) /\ MIDIBOOT_SYSEX_ID_LEN = Len(midiboot_sysex_id)
<1>1. MIDIBOOT_SYSEX_ID_LEN \in Nat /\ MIDIBOOT_SYSEX_ID_LEN >= 1
  BY BootAssumption, EmptySeq DEF MIDIBOOT_SYSEX_ID_LEN
<1>2. SPM_PAGESIZE \in {2, 4, 8, 16, 32, 64, 128}
  BY BootAssumption
<1>3. Pages * SPM_PAGESIZE \in Nat
  BY BootAssumption, <1>2
<1> QED BY <1>1, <1>2, <1>3, BootAssumption, UploadAssumption, SizeAssumption DEF MIDIBOOT_SYSEX_ID_LEN

\* Division by the size of a page, for the sizes there are.
LEMMA PageOf ==
  ASSUME NEW k \in Nat
  PROVE  /\ Pg(k) \in Nat /\ Of(k) \in Offset /\ PageStart(k) \in Nat
         /\ PageStart(k) <= k /\ k < PageStart(k) + SPM_PAGESIZE
         /\ Of(PageStart(k) + SPM_PAGESIZE) = 0 /\ PageStart(k) % 2 = 0 /\ SPM_PAGESIZE % 2 = 0
<1> USE DEF Pg, Of, PageStart, Offset
<1>1. CASE SPM_PAGESIZE = 2
  BY <1>1
<1>2. CASE SPM_PAGESIZE = 4
  BY <1>2
<1>3. CASE SPM_PAGESIZE = 8
  BY <1>3
<1>4. CASE SPM_PAGESIZE = 16
  BY <1>4
<1>5. CASE SPM_PAGESIZE = 32
  BY <1>5
<1>6. CASE SPM_PAGESIZE = 64
  BY <1>6
<1>7. CASE SPM_PAGESIZE = 128
  BY <1>7
<1> QED BY <1>1, <1>2, <1>3, <1>4, <1>5, <1>6, <1>7, Sizes

LEMMA PageInFlash ==
  ASSUME NEW k \in Nat
  PROVE  /\ k < Pages * SPM_PAGESIZE => Pg(k) \in Page
         /\ k <= 65535 => Pg(k) \in 0..(65535 \div SPM_PAGESIZE)
<1>0. Pages \in Nat /\ Pg(k) \in Nat /\ 65535 \div SPM_PAGESIZE \in Nat
  <2>1. SPM_PAGESIZE \in Nat /\ SPM_PAGESIZE > 0 /\ Pages \in Nat
    BY Sizes
  <2>2. Pg(k) \in Nat
    BY PageOf
  <2> QED BY <2>1, <2>2
<1>1. k <= 65535 => Pg(k) <= 65535 \div SPM_PAGESIZE
  <2>1. CASE SPM_PAGESIZE = 2
    BY <2>1 DEF Pg
  <2>2. CASE SPM_PAGESIZE = 4
    BY <2>2 DEF Pg
  <2>3. CASE SPM_PAGESIZE = 8
    BY <2>3 DEF Pg
  <2>4. CASE SPM_PAGESIZE = 16
    BY <2>4 DEF Pg
  <2>5. CASE SPM_PAGESIZE = 32
    BY <2>5 DEF Pg
  <2>6. CASE SPM_PAGESIZE = 64
    BY <2>6 DEF Pg
  <2>7. CASE SPM_PAGESIZE = 128
    BY <2>7 DEF Pg
  <2> QED BY <2>1, <2>2, <2>3, <2>4, <2>5, <2>6, <2>7, Sizes
<1>2. k < Pages * SPM_PAGESIZE => Pg(k) < Pages
  <2>1. CASE SPM_PAGESIZE = 2
    BY <1>0, <2>1 DEF Pg
  <2>2. CASE SPM_PAGESIZE = 4
    BY <1>0, <2>2 DEF Pg
  <2>3. CASE SPM_PAGESIZE = 8
    BY <1>0, <2>3 DEF Pg
  <2>4. CASE SPM_PAGESIZE = 16
    BY <1>0, <2>4 DEF Pg
  <2>5. CASE SPM_PAGESIZE = 32
    BY <1>0, <2>5 DEF Pg
  <2>6. CASE SPM_PAGESIZE = 64
    BY <1>0, <2>6 DEF Pg
  <2>7. CASE SPM_PAGESIZE = 128
    BY <1>0, <2>7 DEF Pg
  <2> QED BY <2>1, <2>2, <2>3, <2>4, <2>5, <2>6, <2>7, Sizes
<1> QED BY <1>0, <1>1, <1>2 DEF Page

LEMMA PagesInOrder ==
  ASSUME NEW j \in Nat, NEW k \in Nat
  PROVE  /\ j <= k => Pg(j) <= Pg(k)
         /\ j < PageStart(k) <=> Pg(j) < Pg(k)
         /\ PageStart(k) <= j /\ j < PageStart(k) + SPM_PAGESIZE <=> Pg(j) = Pg(k)
         /\ Of(k) = 0 /\ j < k => Pg(j) < Pg(k)
<1> USE DEF Pg, Of, PageStart
<1>1. CASE SPM_PAGESIZE = 2
  BY <1>1
<1>2. CASE SPM_PAGESIZE = 4
  BY <1>2
<1>3. CASE SPM_PAGESIZE = 8
  BY <1>3
<1>4. CASE SPM_PAGESIZE = 16
  BY <1>4
<1>5. CASE SPM_PAGESIZE = 32
  BY <1>5
<1>6. CASE SPM_PAGESIZE = 64
  BY <1>6
<1>7. CASE SPM_PAGESIZE = 128
  BY <1>7
<1> QED BY <1>1, <1>2, <1>3, <1>4, <1>5, <1>6, <1>7, Sizes

LEMMA PageFacts ==
  ASSUME NEW j \in Nat, NEW k \in Nat
  PROVE  /\ Pg(k) \in Nat /\ Of(k) \in Offset /\ PageStart(k) \in Nat
         /\ PageStart(k) <= k /\ k < PageStart(k) + SPM_PAGESIZE
         /\ j <= k => Pg(j) <= Pg(k)
         /\ j < PageStart(k) <=> Pg(j) < Pg(k)
         /\ PageStart(k) <= j /\ j < PageStart(k) + SPM_PAGESIZE <=> Pg(j) = Pg(k)
         /\ Of(k) = 0 /\ j < k => Pg(j) < Pg(k)
         /\ Of(PageStart(k) + SPM_PAGESIZE) = 0 /\ PageStart(k) % 2 = 0 /\ SPM_PAGESIZE % 2 = 0
         /\ k < Pages * SPM_PAGESIZE => Pg(k) \in Page
         /\ k <= 65535 => Pg(k) \in 0..(65535 \div SPM_PAGESIZE)
<1>1. /\ Pg(k) \in Nat /\ Of(k) \in Offset /\ PageStart(k) \in Nat
      /\ PageStart(k) <= k /\ k < PageStart(k) + SPM_PAGESIZE
      /\ Of(PageStart(k) + SPM_PAGESIZE) = 0 /\ PageStart(k) % 2 = 0 /\ SPM_PAGESIZE % 2 = 0
  BY PageOf
<1>2. /\ k < Pages * SPM_PAGESIZE => Pg(k) \in Page
      /\ k <= 65535 => Pg(k) \in 0..(65535 \div SPM_PAGESIZE)
  BY PageInFlash
<1>3. /\ j <= k => Pg(j) <= Pg(k)
      /\ j < PageStart(k) <=> Pg(j) < Pg(k)
      /\ PageStart(k) <= j /\ j < PageStart(k) + SPM_PAGESIZE <=> Pg(j) = Pg(k)
      /\ Of(k) = 0 /\ j < k => Pg(j) < Pg(k)
  BY PagesInOrder
<1> QED BY <1>1, <1>2, <1>3

LEMMA PlaceInPage ==
  ASSUME NEW j \in Nat, NEW k \in Nat, Pg(j) = Pg(k), j <= k
  PROVE  (Of(k) - j) % SPM_PAGESIZE = k - j
<1> USE DEF Pg, Of
<1>1. CASE SPM_PAGESIZE = 2
  BY <1>1
<1>2. CASE SPM_PAGESIZE = 4
  BY <1>2
<1>3. CASE SPM_PAGESIZE = 8
  BY <1>3
<1>4. CASE SPM_PAGESIZE = 16
  BY <1>4
<1>5. CASE SPM_PAGESIZE = 32
  BY <1>5
<1>6. CASE SPM_PAGESIZE = 64
  BY <1>6
<1>7. CASE SPM_PAGESIZE = 128
  BY <1>7
<1>8. SPM_PAGESIZE \in {2, 4, 8, 16, 32, 64, 128}
  BY Sizes
<1> QED BY <1>1, <1>2, <1>3, <1>4, <1>5, <1>6, <1>7, <1>8

LEMMA Places ==
  ASSUME NEW k \in Nat
  PROVE  Of(k) \in Offset /\ Pg(k) \in Nat
BY PageFacts

LEMMA Interval ==
  ASSUME NEW a \in Int, NEW b \in Int, NEW x
  PROVE  x \in a..b <=> x \in Int /\ a <= x /\ x <= b
OBVIOUS

LEMMA ByteRange ==
  ASSUME NEW x
  PROVE  x \in Byte <=> x \in Int /\ 0 <= x /\ x <= 255
<1> DEFINE h == 255
<1>1. Byte = 0..h
  BY Zenon DEF Byte
<1>2. 0 \in Int /\ h \in Int
  OBVIOUS
<1> HIDE DEF h
<1>3. x \in Byte <=> x \in Int /\ 0 <= x /\ x <= h
  BY <1>1, <1>2, Interval
<1> QED BY <1>3 DEF h

LEMMA HalfRange ==
  ASSUME NEW x
  PROVE  x \in Half <=> x \in Int /\ 0 <= x /\ x <= 127
<1> DEFINE h == 127
<1>1. Half = 0..h
  BY Zenon DEF Half
<1>2. 0 \in Int /\ h \in Int
  OBVIOUS
<1> HIDE DEF h
<1>3. x \in Half <=> x \in Int /\ 0 <= x /\ x <= h
  BY <1>1, <1>2, Interval
<1> QED BY <1>3 DEF h

LEMMA HalfByte == Half \subseteq Byte
BY ByteRange, HalfRange

LEMMA Concat ==
  ASSUME NEW S, NEW s \in Seq(S), NEW t \in Seq(S)
  PROVE  /\ s \o t \in Seq(S) /\ Len(s \o t) = Len(s) + Len(t)
         /\ Len(s) \in Nat /\ Len(t) \in Nat
         /\ \A k \in 1..Len(s) : (s \o t)[k] = s[k]
         /\ \A k \in 1..Len(t) : (s \o t)[Len(s) + k] = t[k]
OBVIOUS

-----------------------------------------------------------------------------
(* Messages and replies                                                     *)

LEMMA MessageAt ==
  ASSUME NEW c \in Commands, NEW data \in Seq(Half)
  PROVE  /\ Len(Stream(c, data)) = MessageLen(data) + (IF c = MIDIBOOT_LEAVE_BOOT THEN 1 ELSE 0)
         /\ Stream(c, data) \in Seq(Byte \cup {RESET})
         /\ Message(<<c>> \o data) \in Seq(Byte)
         /\ MessageLen(data) \in Nat /\ Len(data) \in Nat
         /\ Stream(c, data)[1] = SYSEX_BEGIN
         /\ \A k \in 1..MIDIBOOT_SYSEX_ID_LEN : Stream(c, data)[1 + k] = midiboot_sysex_id[k]
         /\ Stream(c, data)[MIDIBOOT_SYSEX_ID_LEN + 2] = c
         /\ \A k \in 1..Len(data) : Stream(c, data)[MIDIBOOT_SYSEX_ID_LEN + 2 + k] = data[k]
         /\ Stream(c, data)[MessageLen(data)] = SYSEX_END
         /\ c = MIDIBOOT_LEAVE_BOOT => Stream(c, data)[MessageLen(data) + 1] = RESET
<1> DEFINE id == midiboot_sysex_id
           m == <<SYSEX_BEGIN>> \o id \o (<<c>> \o data) \o <<SYSEX_END>>
           t == IF c = MIDIBOOT_LEAVE_BOOT THEN <<RESET>> ELSE <<>>
<1>1. c \in Half /\ Seq(Half) \subseteq Seq(Byte) /\ SYSEX_BEGIN \in Byte /\ SYSEX_END \in Byte
  <2>1. c \in Int /\ 0 <= c /\ c <= 127
    BY DEF Commands, MIDIBOOT_LEAVE_BOOT, MIDIBOOT_WRITEPAGE
  <2>2. c \in Half
    BY <2>1, HalfRange
  <2>3. SYSEX_BEGIN \in Byte /\ SYSEX_END \in Byte
    BY ByteRange DEF SYSEX_BEGIN, SYSEX_END
  <2> QED BY <2>2, <2>3, HalfByte
<1>2. id \in Seq(Byte) /\ data \in Seq(Byte) /\ c \in Byte /\ Len(id) = MIDIBOOT_SYSEX_ID_LEN
  <2>1. id \in Seq(Half)
    BY Sizes DEF Half
  <2> QED BY <1>1, <2>1, HalfByte DEF MIDIBOOT_SYSEX_ID_LEN
<1>3. Stream(c, data) = m \o t
  BY Zenon DEF Stream, Message
<1>4. Len(id) \in Nat /\ Len(id) >= 1 /\ Len(data) \in Nat
  BY <1>2, Sizes
<1> HIDE DEF id
<1>5. /\ m \in Seq(Byte) /\ Len(m) = Len(id) + Len(data) + 3
      /\ m[1] = SYSEX_BEGIN /\ \A k \in 1..Len(id) : m[1 + k] = id[k]
      /\ m[Len(id) + 2] = c /\ \A k \in 1..Len(data) : m[Len(id) + 2 + k] = data[k]
      /\ m[Len(id) + Len(data) + 3] = SYSEX_END
  <2> DEFINE b == <<SYSEX_BEGIN>>
             d == <<c>> \o data
             z == <<SYSEX_END>>
             bi == b \o id
             x == bi \o d
  <2>1. b \in Seq(Byte) /\ Len(b) = 1 /\ b[1] = SYSEX_BEGIN /\ z \in Seq(Byte) /\ Len(z) = 1 /\ z[1] = SYSEX_END
    BY <1>1
  <2>2. <<c>> \in Seq(Byte) /\ Len(<<c>>) = 1 /\ <<c>>[1] = c
    BY <1>2
  <2>3. /\ d \in Seq(Byte) /\ Len(d) = 1 + Len(data) /\ d[1] = c
        /\ \A k \in 1..Len(data) : d[1 + k] = data[k]
    BY <1>2, <2>2, Concat
  <2> HIDE DEF b, d, z
  <2>3a. /\ bi \in Seq(Byte) /\ Len(bi) = Len(b) + Len(id)
         /\ \A k \in 1..Len(b) : bi[k] = b[k]
         /\ \A k \in 1..Len(id) : bi[Len(b) + k] = id[k]
    <3>1. b \in Seq(Byte) /\ id \in Seq(Byte)
      BY <1>2, <2>1
    <3> QED BY ONLY <3>1, Concat DEF bi
  <2> HIDE DEF bi
  <2>4. Len(bi) = 1 + Len(id) /\ bi[1] = SYSEX_BEGIN /\ \A k \in 1..Len(id) : bi[1 + k] = id[k]
    BY <1>4, <2>1, <2>3a
  <2>5. /\ x \in Seq(Byte) /\ Len(x) = Len(bi) + Len(d)
        /\ \A k \in 1..Len(bi) : x[k] = bi[k]
        /\ \A k \in 1..Len(d) : x[Len(bi) + k] = d[k]
    <3>1. bi \in Seq(Byte) /\ d \in Seq(Byte)
      BY <2>3, <2>3a
    <3> QED BY ONLY <3>1, Concat DEF x
  <2> HIDE DEF x
  <2> DEFINE y == x \o z
  <2>6a. /\ y \in Seq(Byte) /\ Len(y) = Len(x) + Len(z)
         /\ \A k \in 1..Len(x) : y[k] = x[k]
         /\ \A k \in 1..Len(z) : y[Len(x) + k] = z[k]
    <3>1. x \in Seq(Byte) /\ z \in Seq(Byte)
      BY <2>1, <2>5
    <3> QED BY ONLY <3>1, Concat DEF y
  <2> HIDE DEF y
  <2>6. Len(y) = Len(x) + 1 /\ y[Len(x) + 1] = SYSEX_END
    BY <2>1, <2>6a
  <2>7. m = y
    BY Zenon DEF y, x, bi, b, d, z
  <2>8. Len(x) = Len(id) + Len(data) + 2
    BY <1>4, <2>3, <2>4, <2>5
  <2>9. /\ x[1] = SYSEX_BEGIN /\ \A k \in 1..Len(id) : x[1 + k] = id[k]
        /\ x[Len(id) + 2] = c /\ \A k \in 1..Len(data) : x[Len(id) + 2 + k] = data[k]
    BY <1>4, <2>3, <2>4, <2>5
  <2> HIDE DEF m
  <2>10. /\ 1 \in 1..Len(x) /\ Len(id) + 2 \in 1..Len(x)
         /\ \A k \in 1..Len(id) : 1 + k \in 1..Len(x)
         /\ \A k \in 1..Len(data) : Len(id) + 2 + k \in 1..Len(x)
    BY <1>4, <2>8
  <2>11. /\ y[1] = SYSEX_BEGIN /\ \A k \in 1..Len(id) : y[1 + k] = id[k]
         /\ y[Len(id) + 2] = c /\ \A k \in 1..Len(data) : y[Len(id) + 2 + k] = data[k]
    BY <2>6a, <2>9, <2>10
  <2>12. Len(y) = Len(id) + Len(data) + 3 /\ y[Len(id) + Len(data) + 3] = SYSEX_END
    BY <1>4, <2>6, <2>8
  <2> QED BY <2>6a, <2>7, <2>11, <2>12, Zenon
<1>6. t \in Seq(Byte \cup {RESET}) /\ Len(t) = (IF c = MIDIBOOT_LEAVE_BOOT THEN 1 ELSE 0)
      /\ (c = MIDIBOOT_LEAVE_BOOT => t[1] = RESET)
  OBVIOUS
<1>7. Message(<<c>> \o data) = m
  BY Zenon DEF Message, id
<1> HIDE DEF m, t
<1>8. MessageLen(data) = Len(m) /\ MIDIBOOT_SYSEX_ID_LEN = Len(id)
  BY <1>2, <1>4, <1>5 DEF MessageLen
<1>9. /\ m \o t \in Seq(Byte \cup {RESET}) /\ Len(m \o t) = Len(m) + Len(t)
      /\ \A k \in 1..Len(m) : (m \o t)[k] = m[k]
      /\ c = MIDIBOOT_LEAVE_BOOT => (m \o t)[Len(m) + 1] = RESET
  <2>1. m \in Seq(Byte \cup {RESET})
    BY <1>5
  <2> DEFINE y == m \o t
  <2>2. /\ y \in Seq(Byte \cup {RESET}) /\ Len(y) = Len(m) + Len(t)
        /\ \A k \in 1..Len(m) : y[k] = m[k]
        /\ \A k \in 1..Len(t) : y[Len(m) + k] = t[k]
    <3>1. t \in Seq(Byte \cup {RESET})
      BY <1>6
    <3> QED BY ONLY <2>1, <3>1, Concat DEF y
  <2> HIDE DEF y
  <2>3. c = MIDIBOOT_LEAVE_BOOT => y[Len(m) + 1] = RESET
    BY <1>6, <2>2
  <2> QED BY <2>2, <2>3, Zenon DEF y
<1>10. \A k \in 1..Len(m) : Stream(c, data)[k] = m[k]
  BY <1>3, <1>9
<1>11. Len(m) \in Nat /\ MessageLen(data) = Len(m)
  BY <1>4, <1>5, <1>8
<1>12. /\ 1 \in 1..Len(m) /\ Len(id) + 2 \in 1..Len(m) /\ Len(id) + Len(data) + 3 \in 1..Len(m)
       /\ \A k \in 1..Len(id) : 1 + k \in 1..Len(m)
       /\ \A k \in 1..Len(data) : Len(id) + 2 + k \in 1..Len(m)
  BY <1>4, <1>5
<1>13. /\ Stream(c, data)[1] = SYSEX_BEGIN
       /\ \A k \in 1..Len(id) : Stream(c, data)[1 + k] = id[k]
       /\ Stream(c, data)[Len(id) + 2] = c
       /\ \A k \in 1..Len(data) : Stream(c, data)[Len(id) + 2 + k] = data[k]
       /\ Stream(c, data)[Len(id) + Len(data) + 3] = SYSEX_END
  BY <1>5, <1>10, <1>12
<1>14. MessageLen(data) = Len(id) + Len(data) + 3
  BY <1>5, <1>11
<1>15. Len(Stream(c, data)) = MessageLen(data) + (IF c = MIDIBOOT_LEAVE_BOOT THEN 1 ELSE 0)
  BY <1>3, <1>6, <1>9, <1>11
<1> HIDE DEF m
<1>16. c = MIDIBOOT_LEAVE_BOOT => Stream(c, data)[MessageLen(data) + 1] = RESET
  BY <1>3, <1>9, <1>11
<1>17. Stream(c, data) \in Seq(Byte \cup {RESET}) /\ Message(<<c>> \o data) \in Seq(Byte)
  BY <1>3, <1>5, <1>7, <1>9
<1>18. Stream(c, data)[MessageLen(data)] = SYSEX_END
  BY <1>13, <1>14
<1> QED BY <1>4, <1>8, <1>11, <1>13, <1>15, <1>16, <1>17, <1>18 DEF id

LEMMA ReplyAt ==
  ASSUME NEW c
  PROVE  /\ Reply(c) \in Seq(Byte)
         /\ Len(Reply(c)) = MIDIBOOT_SYSEX_ID_LEN + (IF c = MIDIBOOT_GETPAGESIZE THEN 7 ELSE 2)
         /\ Reply(c)[1] = SYSEX_BEGIN /\ Reply(c)[Len(Reply(c))] = SYSEX_END
         /\ \A k \in 1..MIDIBOOT_SYSEX_ID_LEN : Reply(c)[1 + k] = midiboot_sysex_id[k]
         /\ c = MIDIBOOT_GETPAGESIZE => Reply(c)[MIDIBOOT_SYSEX_ID_LEN + 2] = MIDIBOOT_GETPAGESIZE
         /\ \A k \in 2..(Len(Reply(c)) - 1) : Reply(c)[k] \in Half
<1> DEFINE id == midiboot_sysex_id
           h == <<SYSEX_BEGIN>> \o id
           t == IF c = MIDIBOOT_GETPAGESIZE
                THEN <<MIDIBOOT_GETPAGESIZE>> \o Nibbles(SPM_PAGESIZE \div 256)
                       \o Nibbles(SPM_PAGESIZE % 256) \o Ack
                ELSE Ack
           y == h \o t
<1>1. Reply(c) = y
  BY Zenon DEF Reply
<1>2. id \in Seq(Half) /\ id \in Seq(Byte) /\ MIDIBOOT_SYSEX_ID_LEN = Len(id)
      /\ Len(id) \in Nat /\ Len(id) >= 1
  <2>1. id \in Seq(Half)
    BY Sizes DEF Half
  <2> QED BY <2>1, HalfByte, Sizes
<1>3. SYSEX_BEGIN \in Byte /\ SYSEX_END \in Byte
  BY ByteRange DEF SYSEX_BEGIN, SYSEX_END
<1>4. /\ h \in Seq(Byte) /\ Len(h) = 1 + Len(id) /\ h[1] = SYSEX_BEGIN
      /\ \A k \in 1..Len(id) : h[1 + k] = id[k]
  <2> DEFINE b == <<SYSEX_BEGIN>>
  <2>1. b \in Seq(Byte) /\ Len(b) = 1 /\ b[1] = SYSEX_BEGIN
    BY <1>3
  <2> HIDE DEF b, id
  <2>2. /\ h \in Seq(Byte) /\ Len(h) = Len(b) + Len(id)
        /\ \A k \in 1..Len(b) : h[k] = b[k]
        /\ \A k \in 1..Len(id) : h[Len(b) + k] = id[k]
    <3>1. h = b \o id
      BY DEF b
    <3>2. b \in Seq(Byte) /\ id \in Seq(Byte)
      BY <1>2, <2>1
    <3> HIDE DEF h
    <3> QED BY ONLY <3>1, <3>2, Concat
  <2> HIDE DEF h
  <2> QED BY <1>2, <2>1, <2>2
<1>5. /\ t \in Seq(Byte) /\ Len(t) = (IF c = MIDIBOOT_GETPAGESIZE THEN 6 ELSE 1)
      /\ t[Len(t)] = SYSEX_END
      /\ c = MIDIBOOT_GETPAGESIZE => t[1] = MIDIBOOT_GETPAGESIZE
      /\ \A k \in 1..(Len(t) - 1) : t[k] \in Half
  <2>1. CASE c = MIDIBOOT_GETPAGESIZE
    <3> DEFINE n1 == (SPM_PAGESIZE \div 256) \div 16
               n2 == (SPM_PAGESIZE \div 256) % 16
               n3 == (SPM_PAGESIZE % 256) \div 16
               n4 == (SPM_PAGESIZE % 256) % 16
    <3>1. n1 \in Half /\ n2 \in Half /\ n3 \in Half /\ n4 \in Half /\ MIDIBOOT_GETPAGESIZE \in Half
      <4>1. SPM_PAGESIZE \in Int /\ 2 <= SPM_PAGESIZE /\ SPM_PAGESIZE <= 128
        BY Sizes
      <4>2. MIDIBOOT_GETPAGESIZE \in Half
        BY HalfRange DEF MIDIBOOT_GETPAGESIZE
      <4> QED BY <4>1, <4>2, HalfRange
    <3>2. t = <<MIDIBOOT_GETPAGESIZE>> \o <<n1, n2>> \o <<n3, n4>> \o <<SYSEX_END>>
      BY <2>1 DEF Nibbles, Ack
    <3> HIDE DEF n1, n2, n3, n4
    <3> DEFINE g == <<MIDIBOOT_GETPAGESIZE>>
               p1 == <<n1, n2>>
               p2 == <<n3, n4>>
               z == <<SYSEX_END>>
               u == g \o p1
               v == u \o p2
    <3>3. /\ g \in Seq(Half) /\ Len(g) = 1 /\ g[1] = MIDIBOOT_GETPAGESIZE
          /\ p1 \in Seq(Half) /\ Len(p1) = 2
          /\ p2 \in Seq(Half) /\ Len(p2) = 2
      BY <3>1
    <3>4. /\ u \in Seq(Half) /\ Len(u) = Len(g) + Len(p1)
          /\ \A k \in 1..Len(g) : u[k] = g[k]
      <4>1. g \in Seq(Half) /\ p1 \in Seq(Half)
        BY <3>3
      <4> HIDE DEF g, p1
      <4> QED BY ONLY <4>1, Concat DEF u
    <3> HIDE DEF g, u
    <3>4a. Len(u) = 3 /\ u[1] = MIDIBOOT_GETPAGESIZE
      BY <3>3, <3>4
    <3>5. /\ v \in Seq(Half) /\ Len(v) = Len(u) + Len(p2)
          /\ \A k \in 1..Len(u) : v[k] = u[k]
      <4>1. u \in Seq(Half) /\ p2 \in Seq(Half)
        BY <3>3, <3>4
      <4> HIDE DEF p2
      <4> QED BY ONLY <4>1, Concat DEF v
    <3>5b. t = v \o z
      BY <3>2, Zenon DEF u, g
    <3> HIDE DEF v
    <3>5a. Len(v) = 5 /\ v[1] = MIDIBOOT_GETPAGESIZE
      BY <3>3, <3>4a, <3>5
    <3>7. \A x \in Half : x \in Byte
      BY HalfByte
    <3>8. v \in Seq(Byte) /\ z \in Seq(Byte) /\ Len(z) = 1 /\ z[1] = SYSEX_END
      BY <1>3, <3>5, <3>7
    <3> HIDE DEF z, t
    <3>9. /\ t \in Seq(Byte) /\ Len(t) = Len(v) + Len(z)
          /\ \A k \in 1..Len(v) : t[k] = v[k]
          /\ \A k \in 1..Len(z) : t[Len(v) + k] = z[k]
      <4>1. v \in Seq(Byte) /\ z \in Seq(Byte)
        BY <3>8
      <4> QED BY ONLY <4>1, <3>5b, Concat
    <3> HIDE DEF p1, p2, n1, n2, n3, n4
    <3>10. Len(t) = 6 /\ t[6] = SYSEX_END
      BY <3>5a, <3>8, <3>9
    <3>11. \A k \in 1..5 : t[k] = v[k] /\ v[k] \in Half
      <4> SUFFICES ASSUME NEW k \in 1..5 PROVE t[k] = v[k] /\ v[k] \in Half
        OBVIOUS
      <4>1. k \in 1..Len(v)
        BY <3>5a
      <4> QED BY <3>5, <3>9, <4>1
    <3>12. t[1] = MIDIBOOT_GETPAGESIZE
      BY <3>5a, <3>11
    <3>13. \A k \in 1..(Len(t) - 1) : t[k] \in Half
      BY <3>10, <3>11
    <3> QED BY <2>1, <3>9, <3>10, <3>12, <3>13
  <2>2. CASE c # MIDIBOOT_GETPAGESIZE
    <3>1. t = <<SYSEX_END>>
      BY <2>2 DEF Ack
    <3> HIDE DEF t
    <3> QED BY <1>3, <2>2, <3>1
  <2> QED BY <2>1, <2>2
<1> HIDE DEF h, t, id
<1>6. /\ y \in Seq(Byte) /\ Len(y) = Len(h) + Len(t)
      /\ \A k \in 1..Len(h) : y[k] = h[k]
      /\ \A k \in 1..Len(t) : y[Len(h) + k] = t[k]
  <2>1. h \in Seq(Byte) /\ t \in Seq(Byte)
    BY <1>4, <1>5
  <2> QED BY ONLY <2>1, Concat DEF y
<1> HIDE DEF y
<1>7. Len(t) \in Nat /\ Len(t) >= 1 /\ Len(y) = 1 + Len(id) + Len(t)
  BY <1>2, <1>4, <1>5, <1>6
<1>8. y[1] = SYSEX_BEGIN /\ y[Len(y)] = SYSEX_END /\ \A k \in 1..Len(id) : y[1 + k] = id[k]
  <2>1. 1 \in 1..Len(h) /\ \A k \in 1..Len(id) : 1 + k \in 1..Len(h)
    BY <1>2, <1>4
  <2>2. Len(t) \in 1..Len(t) /\ Len(y) = Len(h) + Len(t)
    BY <1>6, <1>7
  <2> QED BY <1>4, <1>5, <1>6, <2>1, <2>2
<1>9. c = MIDIBOOT_GETPAGESIZE => y[Len(id) + 2] = MIDIBOOT_GETPAGESIZE
  <2>1. 1 \in 1..Len(t) /\ Len(h) + 1 = Len(id) + 2
    BY <1>2, <1>4, <1>7
  <2> QED BY <1>5, <1>6, <2>1
<1>10. \A k \in 2..(Len(y) - 1) : y[k] \in Half
  <2> SUFFICES ASSUME NEW k \in 2..(Len(y) - 1) PROVE y[k] \in Half
    OBVIOUS
  <2>1. CASE k <= Len(h)
    <3>1. k - 1 \in 1..Len(id) /\ 1 + (k - 1) = k
      BY <1>2, <1>4, <1>7, <2>1
    <3>2. y[k] = id[k - 1]
      BY <1>8, <3>1
    <3> QED BY <1>2, <3>1, <3>2
  <2>2. CASE ~ (k <= Len(h))
    <3>1. k - Len(h) \in 1..(Len(t) - 1) /\ k - Len(h) \in 1..Len(t) /\ Len(h) + (k - Len(h)) = k
      BY <1>2, <1>4, <1>7, <2>2
    <3>2. y[k] = t[k - Len(h)]
      BY <1>6, <3>1
    <3> QED BY <1>5, <3>1, <3>2
  <2> QED BY <2>1, <2>2
<1>11. Len(y) = Len(id) + (IF c = MIDIBOOT_GETPAGESIZE THEN 7 ELSE 2)
  BY <1>2, <1>5, <1>7
<1> QED BY <1>1, <1>2, <1>6, <1>8, <1>9, <1>10, <1>11, Zenon DEF id

\* Between its first and its last byte a message has no byte above 127.
LEMMA InnerBytes ==
  ASSUME NEW c \in Commands, NEW data \in Seq(Half), NEW k \in 2..(MessageLen(data) - 1)
  PROVE  Stream(c, data)[k] \in Half
<1> DEFINE L == MIDIBOOT_SYSEX_ID_LEN
           s == Stream(c, data)
<1>0. L \in Nat /\ L >= 1 /\ Len(data) \in Nat /\ MessageLen(data) = L + Len(data) + 3
  BY Sizes, MessageAt DEF MessageLen
<1>1. /\ \A j \in 1..L : s[1 + j] = midiboot_sysex_id[j]
      /\ s[L + 2] = c
      /\ \A j \in 1..Len(data) : s[L + 2 + j] = data[j]
  <2>1. \A j \in 1..L : s[1 + j] = midiboot_sysex_id[j]
    BY MessageAt
  <2>2. s[L + 2] = c
    BY MessageAt
  <2>3. \A j \in 1..Len(data) : s[L + 2 + j] = data[j]
    BY MessageAt
  <2> QED BY <2>1, <2>2, <2>3
<1>2. c \in Half
  <2>1. c \in Int /\ 0 <= c /\ c <= 127
    BY DEF Commands, MIDIBOOT_LEAVE_BOOT, MIDIBOOT_WRITEPAGE
  <2> QED BY <2>1, HalfRange
<1>3. \A j \in 1..L : midiboot_sysex_id[j] \in Half
  BY Sizes DEF Half
<1>4. \A j \in 1..Len(data) : data[j] \in Half
  OBVIOUS
<1> HIDE DEF L, s
<1>5. CASE k <= L + 1
  <2>1. k - 1 \in 1..L /\ 1 + (k - 1) = k
    BY <1>0, <1>5
  <2> QED BY <1>1, <1>3, <2>1 DEF s
<1>6. CASE k = L + 2
  BY <1>1, <1>2, <1>6 DEF s
<1>7. CASE k > L + 2
  <2>1. k - (L + 2) \in 1..Len(data) /\ L + 2 + (k - (L + 2)) = k
    BY <1>0, <1>7
  <2> QED BY <1>1, <1>4, <2>1 DEF s
<1> QED BY <1>0, <1>5, <1>6, <1>7

-----------------------------------------------------------------------------
(* Chunks                                                                   *)

LEMMA Halves ==
  ASSUME NEW v \in Byte
  PROVE  v \div 16 \in Half /\ v % 16 \in Half /\ (v \div 16) * 16 + (v % 16) = v
<1>1. v \in Int /\ 0 <= v /\ v <= 255
  BY ByteRange
<1>2. v \div 16 \in Int /\ 0 <= v \div 16 /\ v \div 16 <= 127
  BY <1>1
<1>3. v % 16 \in Int /\ 0 <= v % 16 /\ v % 16 <= 15
  BY <1>1
<1>4. v = 16 * (v \div 16) + (v % 16)
  BY <1>1
<1>5. (v \div 16) * 16 + (v % 16) = v
  BY <1>1, <1>2, <1>3, <1>4
<1>6. v \div 16 \in Half
  BY <1>2, HalfRange, Zenon
<1>7. v % 16 \in Half
  BY <1>3, HalfRange
<1> QED BY <1>5, <1>6, <1>7

LEMMA AddressBytes ==
  ASSUME NEW a \in Nat, a <= 65535
  PROVE  /\ a \div 256 \in Byte /\ a % 256 \in Byte
         /\ (a \div 256) * 256 + (a % 256) = a
<1>1. a \div 256 \in Int /\ 0 <= a \div 256 /\ a \div 256 <= 255
  OBVIOUS
<1>2. a % 256 \in Int /\ 0 <= a % 256 /\ a % 256 <= 255
  OBVIOUS
<1>3. a = 256 * (a \div 256) + (a % 256)
  OBVIOUS
<1>4. (a \div 256) * 256 + (a % 256) = a
  BY <1>1, <1>2, <1>3
<1>5. a \div 256 \in Byte
  <2> DEFINE q == a \div 256
  <2>1. q \in Int /\ 0 <= q /\ q <= 255
    BY <1>1
  <2> HIDE DEF q
  <2>2. q \in Byte
    BY <2>1, ByteRange
  <2> QED BY <2>2 DEF q
<1>6. a % 256 \in Byte
  BY <1>2, ByteRange
<1> QED BY <1>4, <1>5, <1>6

LEMMA FileFacts ==
  ASSUME NEW f \in Images \cup {Installed}
  PROVE  /\ f \in Seq(Byte) /\ Len(f) \in Nat /\ Len(f) >= 1
         /\ Len(f) <= Pages * SPM_PAGESIZE /\ Len(f) <= 65536
         /\ \A k \in 1..Len(f) : f[k] \in Byte
<1>1. f \in Seq(Byte) /\ Len(f) \in 1..(Pages * SPM_PAGESIZE)
  BY UploadAssumption
<1>2. Len(f) \in Nat /\ Len(f) >= 1 /\ Len(f) <= Pages * SPM_PAGESIZE
  BY <1>1, Sizes
<1> QED BY <1>1, <1>2, Sizes

LEMMA ChunkFacts ==
  ASSUME NEW f \in Images \cup {Installed}, NEW a \in Nat, a < Len(f)
  PROVE  /\ ChunkEnd(f, a) \in Nat /\ a < ChunkEnd(f, a) /\ ChunkEnd(f, a) <= Len(f)
         /\ ChunkEnd(f, a) <= a + CHUNK_SIZE
         /\ \A k \in Nat : a <= k /\ k < ChunkEnd(f, a) => Pg(k) = Pg(a)
         /\ ChunkEnd(f, a) < Len(f) /\ Of(ChunkEnd(f, a)) # 0 => Pg(ChunkEnd(f, a)) = Pg(a)
         /\ ChunkEnd(f, a) < Len(f) /\ a % 2 = 0 =>
              ChunkEnd(f, a) % 2 = 0 /\ (ChunkEnd(f, a) - a) % 2 = 0
<1> DEFINE e == ChunkEnd(f, a)
           s == PageStart(a)
           n == Len(f)
           p == SPM_PAGESIZE
<1>1. /\ s \in Nat /\ s <= a /\ a < s + p /\ s % 2 = 0 /\ p % 2 = 0 /\ Of(s + p) = 0
      /\ \A k \in Nat : s <= k /\ k < s + p => Pg(k) = Pg(a)
  BY PageFacts
<1>2. CHUNK_SIZE \in Nat /\ CHUNK_SIZE >= 1 /\ CHUNK_SIZE % 2 = 0 /\ p \in Nat
  BY Sizes
<1>3. n \in Nat /\ a < n
  BY FileFacts
<1>4. \/ e = a + CHUNK_SIZE /\ e <= s + p /\ e <= n
      \/ e = s + p /\ e <= a + CHUNK_SIZE /\ e <= n
      \/ e = n /\ e <= a + CHUNK_SIZE /\ e <= s + p
  <2>1. e = Least(Least(a + CHUNK_SIZE, s + p), n)
    BY DEF ChunkEnd
  <2> HIDE DEF e, s, n, p
  <2> QED BY <1>1, <1>2, <1>3, <2>1 DEF Least
<1> HIDE DEF e, s, n, p
<1>5. e \in Nat /\ a < e /\ e <= n /\ e <= a + CHUNK_SIZE /\ e <= s + p
  BY <1>1, <1>2, <1>3, <1>4
<1>6. \A k \in Nat : a <= k /\ k < e => Pg(k) = Pg(a)
  <2> SUFFICES ASSUME NEW k \in Nat, a <= k, k < e PROVE Pg(k) = Pg(a)
    OBVIOUS
  <2>1. s <= k /\ k < s + p
    BY <1>1, <1>2, <1>5
  <2> QED BY <1>1, <2>1
<1>7. e < n /\ Of(e) # 0 => Pg(e) = Pg(a)
  <2>1. e = s + p => Of(e) = 0
    BY <1>1
  <2>2. e # s + p => s <= e /\ e < s + p
    BY <1>1, <1>2, <1>5
  <2> QED BY <1>1, <1>5, <2>1, <2>2
<1>8. e < n /\ a % 2 = 0 => e % 2 = 0 /\ (e - a) % 2 = 0
  BY <1>1, <1>2, <1>4, <1>5
<1> QED BY <1>5, <1>6, <1>7, <1>8 DEF e, n

LEMMA ChunkBytes ==
  ASSUME NEW f \in Images \cup {Installed}, NEW a \in Nat, a < Len(f),
         NEW n, n = ChunkEnd(f, a) - a
  PROVE  /\ ChunkData(f, a) \in Seq(Half) /\ Len(ChunkData(f, a)) = 2 * n + 4
         /\ ChunkData(f, a)[1] * 16 + ChunkData(f, a)[2] = a \div 256
         /\ ChunkData(f, a)[3] * 16 + ChunkData(f, a)[4] = a % 256
         /\ \A j \in 1..n :
              ChunkData(f, a)[2 * j + 3] * 16 + ChunkData(f, a)[2 * j + 4] = f[a + j]
<1> DEFINE e == ChunkEnd(f, a)
           h == <<a \div 256, a % 256>>
           b == SubSeq(f, a + 1, e)
           s == h \o b
           d == simple_bit_pack(s)
<1>0. ChunkData(f, a) = d
  BY Zenon DEF ChunkData
<1>1. e \in Nat /\ a < e /\ e <= Len(f) /\ n = e - a /\ n \in Nat
  BY ChunkFacts
<1>2. f \in Seq(Byte) /\ Len(f) \in Nat /\ Len(f) <= 65536
  BY FileFacts
<1> HIDE DEF e
<1>3. h \in Seq(Byte) /\ Len(h) = 2 /\ h[1] = a \div 256 /\ h[2] = a % 256
  <2>1. a \div 256 \in Byte /\ a % 256 \in Byte
    BY <1>1, <1>2, AddressBytes
  <2> QED BY <2>1
<1>4. b \in Seq(Byte) /\ Len(b) = n /\ \A j \in 1..n : b[j] = f[a + j]
  <2>1. \A k \in 1..Len(f) : f[k] \in Byte
    BY <1>2
  <2>2. Len(b) = n /\ \A j \in 1..n : b[j] = f[a + j]
    BY <1>1, <1>2
  <2>3. \A j \in 1..n : a + j \in 1..Len(f)
    BY <1>1, <1>2
  <2>4. b \in Seq(Byte)
    BY <1>1, <1>2
  <2> QED BY <2>2, <2>4
<1> HIDE DEF h, b
<1>5. /\ s \in Seq(Byte) /\ Len(s) = Len(h) + Len(b)
      /\ \A k \in 1..Len(h) : s[k] = h[k]
      /\ \A k \in 1..Len(b) : s[Len(h) + k] = b[k]
  <2>1. h \in Seq(Byte) /\ b \in Seq(Byte)
    BY <1>3, <1>4
  <2> QED BY ONLY <2>1, Concat DEF s
<1> HIDE DEF s
<1>6. Len(s) = n + 2 /\ s[1] = a \div 256 /\ s[2] = a % 256 /\ \A j \in 1..n : s[2 + j] = f[a + j]
  <2>1. 1 \in 1..Len(h) /\ 2 \in 1..Len(h)
    BY <1>3
  <2>2. Len(s) = n + 2
    <3>1. Len(h) = 2 /\ Len(b) = n /\ Len(s) = Len(h) + Len(b) /\ n \in Nat
      BY <1>1, <1>3, <1>4, <1>5, Zenon
    <3> QED BY ONLY <3>1
  <2>3. s[1] = h[1] /\ s[2] = h[2]
    BY <1>5, <2>1
  <2>4. \A j \in 1..n : s[2 + j] = f[a + j]
    BY <1>3, <1>4, <1>5
  <2> QED BY <1>3, <2>2, <2>3, <2>4
<1>7. \A k \in 1..Len(s) : s[k] \in Byte
  BY <1>5
<1> DEFINE m == 2 * Len(s)
<1>8. d = [k \in 1..m |-> IF k % 2 = 1 THEN s[(k + 1) \div 2] \div 16 ELSE s[k \div 2] % 16]
  BY DEF simple_bit_pack
<1>9. m \in Nat /\ m = 2 * n + 4 /\ Len(s) \in Nat
  <2>1. Len(s) = n + 2 /\ n \in Nat
    BY <1>1, <1>6, Zenon
  <2> QED BY ONLY <2>1 DEF m
<1>10. \A k \in 1..m : (IF k % 2 = 1 THEN s[(k + 1) \div 2] \div 16 ELSE s[k \div 2] % 16) \in Half
  <2> SUFFICES ASSUME NEW k \in 1..m
               PROVE  (IF k % 2 = 1 THEN s[(k + 1) \div 2] \div 16 ELSE s[k \div 2] % 16) \in Half
    OBVIOUS
  <2>1. Len(s) \in Nat /\ m = 2 * Len(s)
    BY <1>1, <1>6
  <2>2. CASE k % 2 = 1
    <3>1. (k + 1) \div 2 \in 1..Len(s)
      BY <2>1, <2>2
    <3> DEFINE v == s[(k + 1) \div 2]
    <3>2. v \in Byte
      BY <1>7, <3>1
    <3> HIDE DEF v
    <3>3. v \div 16 \in Half
      BY <3>2, Halves
    <3> QED BY <2>2, <3>3 DEF v
  <2>3. CASE k % 2 # 1
    <3>1. k \div 2 \in 1..Len(s)
      BY <2>1, <2>3
    <3> DEFINE v == s[k \div 2]
    <3>2. v \in Byte
      BY <1>7, <3>1
    <3> HIDE DEF v
    <3>3. v % 16 \in Half
      BY <3>2, Halves
    <3> QED BY <2>3, <3>3 DEF v
  <2> QED BY <2>2, <2>3
<1> HIDE DEF m, d
<1>11. d \in Seq(Half) /\ Len(d) = 2 * n + 4
  <2>1. d \in [1..m -> Half]
    BY ONLY <1>8, <1>10
  <2>2. d \in Seq(Half) /\ Len(d) = m
    BY ONLY <1>9, <2>1
  <2> QED BY <1>9, <2>2
<1>12. \A k \in 1..Len(s) : d[2 * k - 1] * 16 + d[2 * k] = s[k]
  <2> SUFFICES ASSUME NEW k \in 1..Len(s) PROVE d[2 * k - 1] * 16 + d[2 * k] = s[k]
    OBVIOUS
  <2>1. /\ 2 * k - 1 \in 1..m /\ 2 * k \in 1..m
        /\ (2 * k - 1) % 2 = 1 /\ (2 * k) % 2 # 1
        /\ ((2 * k - 1) + 1) \div 2 = k /\ (2 * k) \div 2 = k
    BY <1>1, <1>6 DEF m
  <2>2. d[2 * k - 1] = s[k] \div 16 /\ d[2 * k] = s[k] % 16
    BY <1>8, <2>1
  <2> DEFINE v == s[k]
  <2>3. v \in Byte
    BY <1>7
  <2> HIDE DEF v
  <2>4. (v \div 16) * 16 + (v % 16) = v
    BY <2>3, Halves
  <2> QED BY <2>2, <2>4 DEF v
<1>13. d[1] * 16 + d[2] = a \div 256 /\ d[3] * 16 + d[4] = a % 256
  <2>1. 1 \in 1..Len(s) /\ 2 \in 1..Len(s) /\ 2 * 1 - 1 = 1 /\ 2 * 1 = 2 /\ 2 * 2 - 1 = 3 /\ 2 * 2 = 4
    BY <1>1, <1>6
  <2>2. d[2 * 1 - 1] * 16 + d[2 * 1] = s[1] /\ d[2 * 2 - 1] * 16 + d[2 * 2] = s[2]
    BY <1>12, <2>1
  <2> QED BY <1>6, <2>1, <2>2
<1>14. \A j \in 1..n : d[2 * j + 3] * 16 + d[2 * j + 4] = f[a + j]
  <2> SUFFICES ASSUME NEW j \in 1..n PROVE d[2 * j + 3] * 16 + d[2 * j + 4] = f[a + j]
    OBVIOUS
  <2>1. 2 + j \in 1..Len(s) /\ 2 * (2 + j) - 1 = 2 * j + 3 /\ 2 * (2 + j) = 2 * j + 4
    BY <1>1, <1>6
  <2>2. d[2 * (2 + j) - 1] * 16 + d[2 * (2 + j)] = s[2 + j]
    BY <1>12, <2>1
  <2> QED BY <1>6, <2>1, <2>2
<1> QED BY <1>0, <1>11, <1>13, <1>14

-----------------------------------------------------------------------------
(* Types                                                                    *)

LEMMA FillMessageType ==
  ASSUME NEW f \in Images \cup {Installed}, NEW a \in Nat, a < Len(f)
  PROVE  FillMessage(f, a) \in Seq(Byte)
<1> DEFINE n == ChunkEnd(f, a) - a
           d == ChunkData(f, a)
<1>1. d \in Seq(Half)
  BY ChunkBytes
<1>2. FillMessage(f, a) = Message(<<MIDIBOOT_FILLPAGE>> \o d)
  BY Zenon DEF FillMessage, ChunkData
<1>3. MIDIBOOT_FILLPAGE \in Commands
  BY DEF MIDIBOOT_FILLPAGE, Commands, MIDIBOOT_LEAVE_BOOT, MIDIBOOT_WRITEPAGE
<1> HIDE DEF d
<1> QED BY <1>1, <1>2, <1>3, MessageAt

LEMMA CommandMessageType ==
  ASSUME NEW c \in Commands
  PROVE  Message(<<c>>) \in Seq(Byte) /\ <<c>> \o << >> = <<c>>
<1>1. << >> \in Seq(Half) /\ <<c>> \o << >> = <<c>>
  OBVIOUS
<1>2. Message(<<c>> \o << >>) \in Seq(Byte)
  BY <1>1, MessageAt, Zenon
<1> QED BY <1>1, <1>2

LEMMA CommandNumbers ==
  /\ MIDIBOOT_LEAVE_BOOT \in Commands /\ MIDIBOOT_GETPAGESIZE \in Commands
  /\ MIDIBOOT_FILLPAGE \in Commands /\ MIDIBOOT_WRITEPAGE \in Commands
  /\ MIDIBOOT_INVALID \in Int /\ MIDIBOOT_INVALID \notin Commands
  /\ MIDIBOOT_INVALID \in MIDIBOOT_INVALID..MIDIBOOT_WRITEPAGE
  /\ Commands \subseteq MIDIBOOT_INVALID..MIDIBOOT_WRITEPAGE
  /\ MIDIBOOT_LEAVE_BOOT # MIDIBOOT_GETPAGESIZE /\ MIDIBOOT_LEAVE_BOOT # MIDIBOOT_FILLPAGE
  /\ MIDIBOOT_LEAVE_BOOT # MIDIBOOT_WRITEPAGE /\ MIDIBOOT_GETPAGESIZE # MIDIBOOT_FILLPAGE
  /\ MIDIBOOT_GETPAGESIZE # MIDIBOOT_WRITEPAGE /\ MIDIBOOT_FILLPAGE # MIDIBOOT_WRITEPAGE
BY DEF Commands, MIDIBOOT_INVALID, MIDIBOOT_LEAVE_BOOT, MIDIBOOT_GETPAGESIZE,
       MIDIBOOT_FILLPAGE, MIDIBOOT_WRITEPAGE

LEMMA PageNumber ==
  /\ 0 \in 0..(65535 \div SPM_PAGESIZE)
  /\ \A k \in Nat : k <= 65535 => k \div SPM_PAGESIZE \in 0..(65535 \div SPM_PAGESIZE)
<1>1. \A k \in Nat : k <= 65535 => k \div SPM_PAGESIZE \in 0..(65535 \div SPM_PAGESIZE)
  BY PageFacts DEF Pg
<1>2. 0 \div SPM_PAGESIZE = 0
  BY Sizes
<1> QED BY <1>1, <1>2

LEMMA UnpackedByte ==
  ASSUME tmpPackedData \in Seq(Byte), NEW k \in 1..UnpackedSize
  PROVE  unpacked(k) \in Byte
<1>1. 2 * k - 1 \in 1..Len(tmpPackedData) /\ 2 * k \in 1..Len(tmpPackedData)
  BY DEF UnpackedSize
<1>2. tmpPackedData[2 * k - 1] \in Byte /\ tmpPackedData[2 * k] \in Byte
  BY <1>1
<1> DEFINE v == tmpPackedData[2 * k - 1] * 16 + tmpPackedData[2 * k]
<1>3. v \in Int
  <2> DEFINE h == tmpPackedData[2 * k - 1]
             l == tmpPackedData[2 * k]
  <2>1. h \in Int /\ l \in Int
    BY <1>2, ByteRange
  <2> HIDE DEF h, l
  <2>2. h * 16 + l \in Int
    BY <2>1
  <2> QED BY <2>2 DEF h, l
<1> HIDE DEF v
<1>4. v % 256 \in Int /\ 0 <= v % 256 /\ v % 256 <= 255
  BY <1>3
<1> DEFINE w == v % 256
<1> HIDE DEF w
<1>5. w \in Byte
  BY <1>4, ByteRange DEF w
<1> QED BY <1>5 DEF w, v, unpacked

LEMMA FilledType ==
  ASSUME BootTypeOK, UnpackedSize >= 2, NEW stale \in Stale
  PROVE  /\ writeStartAddr \in Nat /\ writeStartAddr <= 65535
         /\ writeStartAddr \div SPM_PAGESIZE \in 0..(65535 \div SPM_PAGESIZE)
         /\ Filled(stale) \in [Offset -> Byte \cup {-1}]
<1>0. UnpackedSize \in Nat /\ tmpPackedData \in Seq(Byte)
  BY DEF BootTypeOK, UnpackedSize
<1>1. unpacked(1) \in Byte /\ unpacked(2) \in Byte
  BY <1>0, UnpackedByte
<1>2. writeStartAddr \in Nat /\ writeStartAddr <= 65535
  BY <1>1, ByteRange DEF writeStartAddr
<1>3. writeStartAddr \div SPM_PAGESIZE \in 0..(65535 \div SPM_PAGESIZE)
  BY <1>2, PageNumber
<1> DEFINE at(o) == 3 + ((o - writeStartAddr) % SPM_PAGESIZE)
<1>4. ASSUME NEW o \in Offset PROVE at(o) \in Nat /\ at(o) >= 3
  BY <1>2, Sizes DEF Offset
<1>5. ASSUME NEW o \in Offset, at(o) <= UnpackedSize PROVE unpacked(at(o)) \in Byte
  <2> DEFINE a == at(o)
  <2>1. a \in Nat /\ a >= 3 /\ a <= UnpackedSize
    BY <1>4, <1>5
  <2> HIDE DEF a
  <2>2. unpacked(a) \in Byte
    BY <1>0, <2>1, UnpackedByte
  <2> QED BY <2>2 DEF a
<1> DEFINE end == UnpackedSize + (UnpackedSize % 2)
           g(o) == IF buffer[o] # -1 \/ at(o) > end THEN buffer[o]
                   ELSE IF at(o) > UnpackedSize THEN stale ELSE unpacked(at(o))
<1>6. Filled(stale) = [o \in Offset |-> g(o)]
  BY Zenon DEF Filled
<1>7. ASSUME NEW o \in Offset PROVE g(o) \in Byte \cup {-1}
  <2>1. buffer[o] \in Byte \cup {-1} /\ stale \in Byte
    BY BootAssumption DEF BootTypeOK
  <2>2. ~ (at(o) > UnpackedSize) => at(o) <= UnpackedSize
    BY <1>0, <1>4
  <2> HIDE DEF at, end
  <2> QED BY <1>5, <2>1, <2>2
<1> HIDE DEF g
<1> QED BY <1>2, <1>3, <1>6, <1>7

\* The parts of BootTypeOK.
ModesOK == mode \in {"boot", "app"} /\ pc \in {"top", "byte", "send", "pin", "erased"}
QueuesOK ==
  /\ midiByteQueue \in Seq(Byte) /\ midiOutQueue \in Seq(Byte) /\ answer \in Seq(Byte)
  /\ Len(midiByteQueue) < MIDIIN_BUF_SIZE /\ Len(midiOutQueue) < MIDIOUT_BUF_SIZE
FlagsOK == pin \in BOOLEAN /\ inSysexMode \in BOOLEAN /\ cancelTimeout \in BOOLEAN
CountsOK == size \in 0..Len(midiByteQueue) /\ i \in 0..size /\ inByteIndex \in Nat
ParserOK ==
  /\ sysexMode \in MIDIBOOT_INVALID..MIDIBOOT_WRITEPAGE
  /\ tmpPackedData \in Seq(Byte) /\ Len(tmpPackedData) <= IN_BUFSIZE
MemoryOK ==
  /\ pageAddress \in 0..(65535 \div SPM_PAGESIZE)
  /\ buffer \in [Offset -> Byte \cup {-1}] /\ flash \in [Page -> [Offset -> Byte]]
TypeParts == ModesOK /\ QueuesOK /\ FlagsOK /\ CountsOK /\ ParserOK /\ MemoryOK

LEMMA BootTypes == (BootTypeOK <=> TypeParts) /\ (BootTypeOK' <=> TypeParts')
BY DEF BootTypeOK, TypeParts, ModesOK, QueuesOK, FlagsOK, CountsOK, ParserOK, MemoryOK

LEMMA StartedType ==
  ASSUME Started, flash \in [Page -> [Offset -> Byte]]
  PROVE  BootTypeOK /\ BatchInv
<1>1. EmptyBuffer \in [Offset -> Byte \cup {-1}]
  BY DEF EmptyBuffer
<1>2. 0 \in 0..(65535 \div SPM_PAGESIZE)
  BY PageNumber
<1>3. << >> \in Seq(Byte) /\ Len(<< >>) = 0 /\ 0 < MIDIIN_BUF_SIZE /\ 0 < MIDIOUT_BUF_SIZE /\ 0 <= IN_BUFSIZE
  BY BootAssumption
<1>4. ModesOK /\ FlagsOK
  BY Zenon DEF Started, ModesOK, FlagsOK
<1>5. QueuesOK /\ ParserOK
  BY <1>3, CommandNumbers DEF Started, QueuesOK, ParserOK
<1>6. CountsOK
  BY <1>3 DEF Started, CountsOK
<1>7. MemoryOK
  BY <1>1, <1>2 DEF Started, MemoryOK
<1>8. BatchInv
  BY DEF Started, BatchInv
<1> QED BY <1>4, <1>5, <1>6, <1>7, <1>8, BootTypes DEF TypeParts

LEMMA ResetType ==
  ASSUME Reset, flash \in [Page -> [Offset -> Byte]]
  PROVE  BootTypeOK' /\ BatchInv'
<1>1. EmptyBuffer \in [Offset -> Byte \cup {-1}]
  BY DEF EmptyBuffer
<1>2. 0 \in 0..(65535 \div SPM_PAGESIZE)
  BY PageNumber
<1>3. << >> \in Seq(Byte) /\ Len(<< >>) = 0 /\ 0 < MIDIIN_BUF_SIZE /\ 0 < MIDIOUT_BUF_SIZE /\ 0 <= IN_BUFSIZE
  BY BootAssumption
<1>4. ModesOK' /\ FlagsOK'
  BY Zenon DEF Reset, ModesOK, FlagsOK
<1>5. QueuesOK' /\ ParserOK'
  BY <1>3, CommandNumbers DEF Reset, QueuesOK, ParserOK
<1>6. CountsOK'
  BY <1>3 DEF Reset, CountsOK
<1>7. MemoryOK'
  BY <1>1, <1>2 DEF Reset, MemoryOK
<1>8. BatchInv'
  BY DEF Reset, BatchInv
<1> QED BY <1>4, <1>5, <1>6, <1>7, <1>8, BootTypes DEF TypeParts

LEMMA AnswerType ==
  ASSUME NEW c, NEW bytes, Reply(c) = <<SYSEX_BEGIN>> \o midiboot_sysex_id \o bytes, Answer(bytes)
  PROVE  pc' = "send" /\ answer' = Reply(c) /\ answer' \in Seq(Byte) /\ answer' # <<>>
<1>1. pc' = "send" /\ answer' = Reply(c)
  BY DEF Answer
<1>2. Reply(c) \in Seq(Byte) /\ Len(Reply(c)) \in Nat /\ Len(Reply(c)) >= 1
  <2> DEFINE x == IF c = MIDIBOOT_GETPAGESIZE THEN 7 ELSE 2
  <2>1. Reply(c) \in Seq(Byte) /\ Len(Reply(c)) = MIDIBOOT_SYSEX_ID_LEN + x
    BY ReplyAt, Zenon
  <2>2. x \in Nat /\ x >= 1
    OBVIOUS
  <2> HIDE DEF x
  <2> QED BY <2>1, <2>2, Sizes
<1> QED BY <1>1, <1>2

LEMMA Replies ==
  /\ Reply(MIDIBOOT_GETPAGESIZE) =
       <<SYSEX_BEGIN>> \o midiboot_sysex_id \o
         (<<MIDIBOOT_GETPAGESIZE>> \o Nibbles(SPM_PAGESIZE \div 256)
            \o Nibbles(SPM_PAGESIZE % 256) \o Ack)
  /\ \A c : c # MIDIBOOT_GETPAGESIZE => Reply(c) = <<SYSEX_BEGIN>> \o midiboot_sysex_id \o Ack
BY DEF Reply

LEMMA AckReply ==
  ASSUME Answer(Ack)
  PROVE  pc' = "send" /\ answer' \in Seq(Byte) /\ answer' # <<>>
<1>1. MIDIBOOT_FILLPAGE # MIDIBOOT_GETPAGESIZE
  BY CommandNumbers
<1>2. Reply(MIDIBOOT_FILLPAGE) = <<SYSEX_BEGIN>> \o midiboot_sysex_id \o Ack
  BY <1>1, Replies
<1> QED BY <1>2, AnswerType

LEMMA PageSizeReply ==
  ASSUME Answer(<<MIDIBOOT_GETPAGESIZE>> \o Nibbles(SPM_PAGESIZE \div 256)
                  \o Nibbles(SPM_PAGESIZE % 256) \o Ack)
  PROVE  pc' = "send" /\ answer' \in Seq(Byte) /\ answer' # <<>>
<1> DEFINE bytes == <<MIDIBOOT_GETPAGESIZE>> \o Nibbles(SPM_PAGESIZE \div 256)
                      \o Nibbles(SPM_PAGESIZE % 256) \o Ack
<1>1. Reply(MIDIBOOT_GETPAGESIZE) = <<SYSEX_BEGIN>> \o midiboot_sysex_id \o bytes
  BY Replies
<1>2. Answer(bytes)
  OBVIOUS
<1> HIDE DEF bytes
<1> QED BY <1>1, <1>2, AnswerType

LEMMA CurByte ==
  ASSUME BootTypeOK, OneByte
  PROVE  /\ i + 1 \in 1..Len(midiByteQueue) /\ curByte \in Byte /\ i < size
         /\ i \in Nat /\ size \in Nat /\ Len(midiByteQueue) \in Nat
         /\ mode = "boot" /\ pc = "byte" /\ i' = i + 1 /\ size' = size
         /\ midiByteQueue' = midiByteQueue /\ midiOutQueue' = midiOutQueue /\ pin' = pin
<1>1. midiByteQueue \in Seq(Byte) /\ size \in 0..Len(midiByteQueue) /\ i \in 0..size
  BY DEF BootTypeOK
<1>2. i < size /\ mode = "boot" /\ pc = "byte" /\ i' = i + 1 /\ size' = size
      /\ midiByteQueue' = midiByteQueue /\ midiOutQueue' = midiOutQueue /\ pin' = pin
  BY DEF OneByte, interrupts
<1> QED BY <1>1, <1>2 DEF curByte

LEMMA OneByteType ==
  ASSUME BootTypeOK, BatchInv, OneByte
  PROVE  /\ QueuesOK' <=> answer' \in Seq(Byte)
         /\ size' \in 0..Len(midiByteQueue') /\ i' \in 0..size' /\ size' >= 1
<1> QED BY CurByte, BootTypes DEF TypeParts, QueuesOK, CountsOK

LEMMA ParserByteType ==
  ASSUME BootTypeOK, BatchInv, OneByte, Stay
  PROVE  /\ ModesOK' /\ QueuesOK' /\ MemoryOK' /\ BatchInv' /\ pin' \in BOOLEAN /\ cancelTimeout' \in BOOLEAN
         /\ inByteIndex' \in Nat => CountsOK'
<1>1. ModesOK' /\ pin' \in BOOLEAN /\ cancelTimeout' \in BOOLEAN
  BY CurByte, BootTypes, Zenon DEF TypeParts, ModesOK, FlagsOK, Stay
<1>2. QueuesOK' /\ MemoryOK'
  BY OneByteType, BootTypes DEF TypeParts, QueuesOK, MemoryOK, Stay, memory
<1>3. BatchInv'
  BY OneByteType, CurByte DEF BatchInv, Stay
<1> QED BY <1>1, <1>2, <1>3, OneByteType DEF CountsOK

LEMMA EndedType ==
  ASSUME BootTypeOK, BatchInv, OneByte, NEW c, Ended(c),
         ModesOK', answer' \in Seq(Byte), cancelTimeout' \in BOOLEAN, MemoryOK',
         pc' \in {"byte", "send", "erased"} \/ mode' = "app",
         pc' = "send" => answer' # <<>>
  PROVE  BootTypeOK' /\ BatchInv'
<1>1. FlagsOK'
  BY CurByte, BootTypes, Zenon DEF TypeParts, FlagsOK, Ended
<1>2. QueuesOK' /\ CountsOK' /\ ParserOK'
  BY OneByteType, BootTypes DEF TypeParts, CountsOK, ParserOK, Ended
<1>3. BatchInv'
  BY OneByteType, Zenon DEF BatchInv
<1> QED BY <1>1, <1>2, <1>3, BootTypes DEF TypeParts

LEMMA MemoryStaysOK ==
  ASSUME BootTypeOK, NEW g \in [Offset -> Byte], pageAddress' = pageAddress,
         buffer' \in [Offset -> Byte \cup {-1}] \/ buffer' = buffer,
         flash' = [flash EXCEPT ![pageAddress] = g]
  PROVE  MemoryOK'
<1>1. MemoryOK
  BY BootTypes DEF TypeParts
<1> DEFINE S == [Offset -> Byte]
<1>2. flash \in [Page -> S] /\ g \in S
  BY <1>1 DEF MemoryOK
<1> HIDE DEF S
<1>3. flash' \in [Page -> S]
  BY <1>2
<1> USE DEF S
<1> QED BY <1>1, <1>3 DEF MemoryOK

LEMMA MainLoopType ==
  ASSUME BootTypeOK, BatchInv, MainLoop \/ Timeout
  PROVE  BootTypeOK' /\ BatchInv'
<1>t. TypeParts
  BY BootTypes
<1> USE DEF TypeParts
<1>1. CASE Timeout
  BY <1>1, <1>t, BootTypes DEF Timeout, interrupts, loop, parser, memory, ModesOK, QueuesOK, FlagsOK,
     CountsOK, ParserOK, MemoryOK, BatchInv
<1>2. CASE Look
  BY <1>2, <1>t, BootTypes DEF Look, interrupts, loop, parser, memory, ModesOK, QueuesOK, FlagsOK,
     CountsOK, ParserOK, MemoryOK, BatchInv
<1>3. CASE BeginByte
  <2>1. OneByte /\ Stay /\ inByteIndex' = 0 /\ inSysexMode' = TRUE
        /\ sysexMode' = MIDIBOOT_INVALID /\ tmpPackedData' = <<>>
    BY <1>3 DEF BeginByte
  <2>2. ParserOK' 
    BY <2>1, CommandNumbers, BootAssumption DEF ParserOK
  <2> QED BY <2>1, <2>2, ParserByteType, BootTypes DEF FlagsOK
<1>4. CASE PrefixByte
  <2>1. OneByte /\ Stay /\ inSysexMode' \in BOOLEAN
    BY <1>4, <1>t, Zenon DEF PrefixByte, FlagsOK
  <2>2. inByteIndex' = inByteIndex \/ inByteIndex' = inByteIndex + 1
    BY <1>4, Zenon DEF PrefixByte
  <2>3. inByteIndex' \in Nat
    BY <1>t, <2>2 DEF CountsOK
  <2>4. ParserOK'
    BY <1>4, <1>t, Zenon DEF PrefixByte, ParserOK
  <2> QED BY <2>1, <2>3, <2>4, ParserByteType, BootTypes DEF FlagsOK
<1>5. CASE CommandByte
  <2>1. OneByte /\ Stay /\ inSysexMode' \in BOOLEAN
    BY <1>5, <1>t, Zenon DEF CommandByte, FlagsOK
  <2>3. inByteIndex' \in Nat
    BY <1>5, <1>t DEF CommandByte, CountsOK
  <2>2. ParserOK'
    BY <1>5, <1>t, CommandNumbers DEF CommandByte, ParserOK, Commands
  <2> QED BY <2>1, <2>2, <2>3, ParserByteType, BootTypes DEF FlagsOK
<1>6. CASE DataByte
  <2>1. OneByte /\ Stay /\ inSysexMode' \in BOOLEAN
    BY <1>6, <1>t, Zenon DEF DataByte, FlagsOK
  <2>3. inByteIndex' \in Nat
    BY <1>6, <1>t DEF DataByte, CountsOK
  <2>4. \/ sysexMode' = sysexMode /\ tmpPackedData' = tmpPackedData
        \/ sysexMode' = sysexMode /\ tmpPackedData' = Append(tmpPackedData, curByte) /\ Fits
        \/ sysexMode' = MIDIBOOT_INVALID /\ tmpPackedData' = tmpPackedData
    BY <1>6, Zenon DEF DataByte
  <2>5. curByte \in Byte
    BY <2>1, CurByte
  <2>2. ParserOK'
    <3>1. tmpPackedData' = Append(tmpPackedData, curByte) /\ Fits =>
            tmpPackedData' \in Seq(Byte) /\ Len(tmpPackedData') <= IN_BUFSIZE
      <4> SUFFICES ASSUME tmpPackedData' = Append(tmpPackedData, curByte), Fits
                   PROVE  tmpPackedData' \in Seq(Byte) /\ Len(tmpPackedData') <= IN_BUFSIZE
        OBVIOUS
      <4>1. tmpPackedData \in Seq(Byte) /\ Len(tmpPackedData) < IN_BUFSIZE /\ IN_BUFSIZE \in Nat
        BY <1>t, Sizes DEF ParserOK, Fits
      <4> QED BY <2>5, <4>1
    <3> QED BY <1>t, <2>4, <3>1, CommandNumbers, Zenon DEF ParserOK
  <2> QED BY <2>1, <2>2, <2>3, ParserByteType, BootTypes DEF FlagsOK
<1>7. CASE StrayByte
  <2>1. OneByte /\ Stay /\ inByteIndex' \in Nat /\ inSysexMode' \in BOOLEAN /\ ParserOK'
    BY <1>7, <1>t DEF StrayByte, CountsOK, FlagsOK, ParserOK, parser
  <2> QED BY <2>1, ParserByteType, BootTypes DEF FlagsOK
<1>8. CASE EndOfOther
  <2>1. OneByte /\ Stay /\ inByteIndex' \in Nat /\ inSysexMode' \in BOOLEAN /\ ParserOK'
    BY <1>8, <1>t DEF EndOfOther, CountsOK, FlagsOK, ParserOK
  <2> QED BY <2>1, ParserByteType, BootTypes DEF FlagsOK
<1>9. CASE Leave
  <2>1. OneByte /\ Ended(MIDIBOOT_LEAVE_BOOT) /\ mode' = "app" /\ pc' = "top"
        /\ answer' = answer /\ cancelTimeout' = cancelTimeout
    BY <1>9 DEF Leave
  <2>2. ModesOK' /\ answer' \in Seq(Byte) /\ cancelTimeout' \in BOOLEAN
    BY <1>t, <2>1 DEF ModesOK, QueuesOK, FlagsOK
  <2>3. MemoryOK'
    BY <1>9, <1>t DEF Leave, MemoryOK, memory
  <2> QED BY <2>1, <2>2, <2>3, EndedType
<1>10. CASE PageSize
  <2>1. OneByte /\ Ended(MIDIBOOT_GETPAGESIZE) /\ mode' = mode
    BY <1>10 DEF PageSize
  <2>2. MemoryOK'
    BY <1>10, <1>t DEF PageSize, MemoryOK, memory
  <2>3. CASE inByteIndex = 1 + MIDIBOOT_SYSEX_ID_LEN
    <3>1. cancelTimeout' = TRUE /\ pc' = "send" /\ answer' \in Seq(Byte) /\ answer' # <<>>
      <4>1. Answer(<<MIDIBOOT_GETPAGESIZE>> \o Nibbles(SPM_PAGESIZE \div 256)
                     \o Nibbles(SPM_PAGESIZE % 256) \o Ack) /\ cancelTimeout' = TRUE
        BY <1>10, <2>3 DEF PageSize
      <4> QED BY <4>1, PageSizeReply
    <3>2. ModesOK'
      BY <1>t, <2>1, <3>1 DEF ModesOK
    <3> QED BY <2>1, <2>2, <3>1, <3>2, EndedType
  <2>4. CASE inByteIndex # 1 + MIDIBOOT_SYSEX_ID_LEN
    <3>1. pc' = "byte" /\ answer' = answer /\ cancelTimeout' = cancelTimeout
      BY <1>10, <2>4 DEF PageSize
    <3>2. ModesOK' /\ answer' \in Seq(Byte) /\ cancelTimeout' \in BOOLEAN
      BY <1>t, <2>1, <3>1 DEF ModesOK, QueuesOK, FlagsOK
    <3> QED BY <2>1, <2>2, <3>1, <3>2, EndedType
  <2> QED BY <2>3, <2>4
<1>11. CASE FillPage
  <2>1. OneByte /\ Ended(MIDIBOOT_FILLPAGE) /\ mode' = mode /\ cancelTimeout' = cancelTimeout
    BY <1>11 DEF FillPage
  <2>2. CASE Len(tmpPackedData) > 0 /\ UnpackedSize <= MaxUnpacked
    <3>0. Answer(Ack)
      BY <1>11, <2>2, Zenon DEF FillPage
    <3>1. pc' = "send" /\ answer' \in Seq(Byte) /\ answer' # <<>>
      BY <3>0, AckReply
    <3>2. ModesOK' /\ cancelTimeout' \in BOOLEAN
      BY <1>t, <2>1, <3>1 DEF ModesOK, FlagsOK
    <3>3. UnpackedSize >= 2
      BY <1>11, <2>2 DEF FillPage
    <3>4. MemoryOK'
      BY <1>11, <1>t, <2>2, <3>3, FilledType DEF FillPage, MemoryOK
    <3> QED BY <2>1, <3>1, <3>2, <3>4, EndedType
  <2>3. CASE ~ (Len(tmpPackedData) > 0 /\ UnpackedSize <= MaxUnpacked)
    <3>1. pc' = "byte" /\ answer' = answer /\ pageAddress' = pageAddress /\ buffer' = buffer /\ flash' = flash
      BY <1>11, <2>3 DEF FillPage
    <3>2. ModesOK' /\ answer' \in Seq(Byte) /\ cancelTimeout' \in BOOLEAN /\ MemoryOK'
      BY <1>t, <2>1, <3>1 DEF ModesOK, QueuesOK, FlagsOK, MemoryOK
    <3> QED BY <2>1, <3>1, <3>2, EndedType
  <2> QED BY <2>2, <2>3
<1>12. CASE ErasePage
  <2>1. OneByte /\ Ended(MIDIBOOT_WRITEPAGE) /\ mode' = mode /\ pc' = "erased"
        /\ answer' = answer /\ cancelTimeout' = cancelTimeout
    BY <1>12 DEF ErasePage
  <2>2. ModesOK' /\ answer' \in Seq(Byte) /\ cancelTimeout' \in BOOLEAN
    BY <1>t, <2>1 DEF ModesOK, QueuesOK, FlagsOK
  <2>3. Unfilled \in Byte
    BY ByteRange DEF Unfilled
  <2>4. MemoryOK'
    <3> DEFINE g == [o \in Offset |-> Unfilled]
    <3>1. pageAddress' = pageAddress /\ buffer' = buffer /\ flash' = [flash EXCEPT ![pageAddress] = g]
      BY <1>12 DEF ErasePage
    <3>2. g \in [Offset -> Byte]
      BY <2>3
    <3> HIDE DEF g
    <3> QED BY <3>1, <3>2, MemoryStaysOK
  <2> QED BY <2>1, <2>2, <2>4, EndedType
<1>13. CASE WritePage
  <2>1. mode' = mode /\ pc = "erased" /\ Answer(Ack) /\ cancelTimeout' = cancelTimeout
        /\ midiByteQueue' = midiByteQueue /\ midiOutQueue' = midiOutQueue /\ pin' = pin
        /\ size' = size /\ i' = i /\ pageAddress' = pageAddress
        /\ inSysexMode' = inSysexMode /\ inByteIndex' = inByteIndex
        /\ sysexMode' = sysexMode /\ tmpPackedData' = tmpPackedData
    BY <1>13 DEF WritePage, interrupts, loop, parser
  <2>2. pc' = "send" /\ answer' \in Seq(Byte) /\ answer' # <<>>
    BY <2>1, AckReply
  <2>3. ModesOK' /\ FlagsOK'
    BY <1>t, <2>1, <2>2, Zenon DEF ModesOK, FlagsOK
  <2>4. QueuesOK' /\ CountsOK' /\ ParserOK'
    BY <1>t, <2>1, <2>2 DEF QueuesOK, CountsOK, ParserOK
  <2>5. MemoryOK'
    <3>1. Unfilled \in Byte /\ EmptyBuffer \in [Offset -> Byte \cup {-1}]
      BY ByteRange DEF Unfilled, EmptyBuffer
    <3> DEFINE g == [o \in Offset |-> IF buffer[o] = -1 THEN Unfilled ELSE buffer[o]]
    <3>2. g \in [Offset -> Byte]
      BY <1>t, <3>1 DEF MemoryOK
    <3>3. pageAddress' = pageAddress /\ buffer' = EmptyBuffer /\ flash' = [flash EXCEPT ![pageAddress] = g]
      BY <1>13 DEF WritePage
    <3> HIDE DEF g
    <3> QED BY <3>1, <3>2, <3>3, MemoryStaysOK
  <2>6. BatchInv'
    BY <2>1, <2>2 DEF BatchInv
  <2> QED BY <2>3, <2>4, <2>5, <2>6, BootTypes
<1>14. CASE SendByte
  <2>1. answer \in Seq(Byte) /\ answer # <<>> /\ pc = "send"
    BY <1>14, <1>t DEF SendByte, QueuesOK, BatchInv
  <2>2. Head(answer) \in Byte /\ Tail(answer) \in Seq(Byte)
    BY <2>1
  <2>3. ModesOK' /\ FlagsOK'
    BY <1>14, <1>t DEF SendByte, ModesOK, FlagsOK, parser
  <2>4. QueuesOK'
    BY <1>14, <1>t, <2>2, Sizes DEF SendByte, QueuesOK
  <2>5. CountsOK' /\ ParserOK' /\ MemoryOK'
    BY <1>14, <1>t DEF SendByte, CountsOK, ParserOK, MemoryOK, parser, loop, memory
  <2>6. BatchInv'
    BY <1>14 DEF SendByte, BatchInv, loop
  <2> QED BY <2>3, <2>4, <2>5, <2>6, BootTypes
<1>15. CASE RaisePin
  <2>3. ModesOK' /\ FlagsOK'
    BY <1>15, <1>t DEF RaisePin, ModesOK, FlagsOK, parser
  <2>5. QueuesOK' /\ CountsOK' /\ ParserOK' /\ MemoryOK'
    BY <1>15, <1>t DEF RaisePin, QueuesOK, CountsOK, ParserOK, MemoryOK, parser, loop, memory
  <2>6. BatchInv'
    BY <1>15 DEF RaisePin, BatchInv, loop
  <2> QED BY <2>3, <2>5, <2>6, BootTypes
<1>16. CASE Advance
  <2>1. midiByteQueue \in Seq(Byte) /\ Len(midiByteQueue) < MIDIIN_BUF_SIZE /\ size \in 0..Len(midiByteQueue)
    BY <1>t DEF QueuesOK, CountsOK
  <2>2. AfterBatch \in Seq(Byte) /\ Len(AfterBatch) = Len(midiByteQueue) - size
    BY <2>1 DEF AfterBatch
  <2>3. ModesOK' /\ FlagsOK'
    BY <1>16, <1>t DEF Advance, ModesOK, FlagsOK, parser
  <2>4. QueuesOK' /\ CountsOK'
    BY <1>16, <1>t, <2>1, <2>2, Sizes DEF Advance, QueuesOK, CountsOK, parser
  <2>5. ParserOK' /\ MemoryOK'
    BY <1>16, <1>t DEF Advance, ParserOK, MemoryOK, parser, memory
  <2>6. BatchInv'
    BY <1>16 DEF Advance, BatchInv
  <2> QED BY <2>3, <2>4, <2>5, <2>6, BootTypes
<1> QED BY <1>1, <1>2, <1>3, <1>4, <1>5, <1>6, <1>7, <1>8, <1>9, <1>10, <1>11, <1>12, <1>13,
           <1>14, <1>15, <1>16 DEF MainLoop

\* The parts of UploadTypeOK.
HostOK ==
  /\ up \in {"off", "entering", "asking", "waiting", "done", "failed"}
  /\ image \in Images \cup {Installed} /\ filled \in BOOLEAN
SentOK == sent \in 0..Len(image)
ReadingOK == inSysexMessage \in BOOLEAN /\ sysexByteCount \in -1..(MIDIBOOT_SYSEX_ID_LEN + 6)
LinesOK == wire \in Seq(Byte \cup {RESET}) /\ got \in Seq(Byte)
HistoryOK == runs \in 0..MaxRuns /\ cuts \in 0..MaxCuts /\ late \in BOOLEAN /\ cut \in BOOLEAN
UploadParts == BootTypeOK /\ HostOK /\ SentOK /\ ReadingOK /\ LinesOK /\ HistoryOK

LEMMA UploadTypes == (UploadTypeOK <=> UploadParts) /\ (UploadTypeOK' <=> UploadParts')
BY DEF UploadTypeOK, UploadParts, HostOK, SentOK, ReadingOK, LinesOK, HistoryOK

LEMMA BootUnchanged ==
  ASSUME UNCHANGED bootVars
  PROVE  /\ BootTypeOK' <=> BootTypeOK
         /\ BatchInv' <=> BatchInv
<1>1. /\ mode' = mode /\ pc' = pc /\ midiByteQueue' = midiByteQueue /\ midiOutQueue' = midiOutQueue
      /\ pin' = pin /\ size' = size /\ i' = i /\ answer' = answer /\ inSysexMode' = inSysexMode
      /\ inByteIndex' = inByteIndex /\ sysexMode' = sysexMode /\ cancelTimeout' = cancelTimeout
      /\ tmpPackedData' = tmpPackedData /\ pageAddress' = pageAddress /\ buffer' = buffer
      /\ flash' = flash
  BY DEF bootVars, loop, parser, memory
<1>2. (ModesOK' <=> ModesOK) /\ (FlagsOK' <=> FlagsOK) /\ (QueuesOK' <=> QueuesOK)
  BY <1>1, Zenon DEF ModesOK, FlagsOK, QueuesOK
<1>3. (CountsOK' <=> CountsOK) /\ (ParserOK' <=> ParserOK) /\ (MemoryOK' <=> MemoryOK)
  BY <1>1 DEF CountsOK, ParserOK, MemoryOK
<1>4. BatchInv' <=> BatchInv
  BY <1>1 DEF BatchInv
<1> QED BY <1>2, <1>3, <1>4, BootTypes DEF TypeParts

LEMMA onReceiveType ==
  ASSUME BootTypeOK, BatchInv, NEW b \in Byte, onReceiveService(b)
  PROVE  BootTypeOK' /\ BatchInv'
<1> USE BootTypes DEF TypeParts
<1>1. ModesOK' /\ FlagsOK' /\ ParserOK' /\ MemoryOK'
  BY DEF onReceiveService, ModesOK, FlagsOK, ParserOK, MemoryOK, parser, memory
<1>2. /\ \/ midiByteQueue' = midiByteQueue
         \/ midiByteQueue' = Append(midiByteQueue, b) /\ Len(midiByteQueue) < MIDIIN_BUF_SIZE - 1
      /\ midiOutQueue' = midiOutQueue /\ answer' = answer /\ size' = size /\ i' = i
      /\ inByteIndex' = inByteIndex /\ mode' = mode /\ pc' = pc
  <2>1. midiByteQueue' = IF Len(midiByteQueue) < MIDIIN_BUF_SIZE - 1
                         THEN Append(midiByteQueue, b) ELSE midiByteQueue
    BY Zenon DEF onReceiveService
  <2>2. /\ midiOutQueue' = midiOutQueue /\ answer' = answer /\ size' = size /\ i' = i
        /\ inByteIndex' = inByteIndex /\ mode' = mode /\ pc' = pc
    BY DEF onReceiveService, loop, parser
  <2>3. CASE Len(midiByteQueue) < MIDIIN_BUF_SIZE - 1
    BY <2>1, <2>2, <2>3
  <2>4. CASE ~ (Len(midiByteQueue) < MIDIIN_BUF_SIZE - 1)
    BY <2>1, <2>2, <2>4
  <2> QED BY <2>3, <2>4
<1>3. QueuesOK' /\ CountsOK'
  <2> DEFINE y == Append(midiByteQueue, b)
  <2>1. midiByteQueue \in Seq(Byte)
    BY DEF QueuesOK
  <2>2. y \in Seq(Byte) /\ Len(y) = Len(midiByteQueue) + 1
    BY <2>1
  <2>3. \/ midiByteQueue' = midiByteQueue
        \/ midiByteQueue' = y /\ Len(midiByteQueue) < MIDIIN_BUF_SIZE - 1
    BY <1>2, Zenon
  <2> HIDE DEF y
  <2>4. midiByteQueue' \in Seq(Byte) /\ Len(midiByteQueue') < MIDIIN_BUF_SIZE
        /\ Len(midiByteQueue) <= Len(midiByteQueue')
    BY <2>1, <2>2, <2>3, Sizes DEF QueuesOK
  <2> QED BY <1>2, <2>1, <2>4 DEF QueuesOK, CountsOK
<1>4. BatchInv'
  BY <1>2 DEF BatchInv
<1> QED BY <1>1, <1>3, <1>4

LEMMA PacketFacts ==
  ASSUME NEW q \in Seq(Byte)
  PROVE  Packet(q) \in Seq(Byte) /\ Len(Packet(q)) <= Len(q) /\ Told(Packet(q)) \in Seq(Byte)
<1> DEFINE n == IF Len(q) < 3 THEN Len(q) ELSE 3
           x == Packet(q)
<1>1. n \in Nat /\ n <= Len(q)
  OBVIOUS
<1>2. x = SubSeq(q, 1, n)
  BY DEF Packet
<1> HIDE DEF n, x
<1>3. x \in Seq(Byte) /\ Len(x) = n
  BY <1>1, <1>2
<1>4. ASSUME NEW k \in 1..Len(x) PROVE SubSeq(x, 1, k) \in Seq(Byte)
  BY <1>3
<1>5. Told(x) \in Seq(Byte)
  BY <1>3, <1>4 DEF Told
<1> QED BY <1>1, <1>3, <1>5 DEF x

LEMMA onRequestType ==
  ASSUME BootTypeOK, BatchInv, onRequestService
  PROVE  BootTypeOK' /\ BatchInv'
<1> USE BootTypes DEF TypeParts
<1>1. ModesOK' /\ ParserOK' /\ MemoryOK'
  BY DEF onRequestService, ModesOK, ParserOK, MemoryOK, parser, memory
<1>2. FlagsOK'
  BY Zenon DEF onRequestService, FlagsOK, parser
<1>3. /\ midiByteQueue' = midiByteQueue /\ answer' = answer /\ size' = size /\ i' = i
      /\ inByteIndex' = inByteIndex /\ mode' = mode /\ pc' = pc
      /\ \/ midiOutQueue' = midiOutQueue
         \/ midiOutQueue' = SubSeq(midiOutQueue, Len(Packet(midiOutQueue)) + 1, Len(midiOutQueue))
  BY DEF onRequestService, loop, parser
<1>4. midiOutQueue \in Seq(Byte) /\ Len(midiOutQueue) < MIDIOUT_BUF_SIZE
      /\ Len(Packet(midiOutQueue)) \in Nat /\ Len(Packet(midiOutQueue)) <= Len(midiOutQueue)
  BY PacketFacts DEF QueuesOK
<1>5. midiOutQueue' \in Seq(Byte) /\ Len(midiOutQueue') <= Len(midiOutQueue)
  <2> DEFINE m == Len(Packet(midiOutQueue))
  <2> HIDE DEF m
  <2>1. m \in Nat /\ m <= Len(midiOutQueue)
    BY <1>4 DEF m
  <2>2. SubSeq(midiOutQueue, m + 1, Len(midiOutQueue)) \in Seq(Byte)
        /\ Len(SubSeq(midiOutQueue, m + 1, Len(midiOutQueue))) <= Len(midiOutQueue)
    BY <1>4, <2>1
  <2>3. midiOutQueue' = midiOutQueue
        \/ midiOutQueue' = SubSeq(midiOutQueue, m + 1, Len(midiOutQueue))
    BY <1>3, Zenon DEF m
  <2>4. CASE midiOutQueue' = midiOutQueue
    BY <1>4, <2>4
  <2>5. CASE midiOutQueue' = SubSeq(midiOutQueue, m + 1, Len(midiOutQueue))
    BY <2>2, <2>5
  <2> QED BY <2>3, <2>4, <2>5
<1>6. QueuesOK' /\ CountsOK'
  BY <1>3, <1>4, <1>5, Sizes DEF QueuesOK, CountsOK
<1>7. BatchInv'
  BY <1>3 DEF BatchInv
<1> QED BY <1>1, <1>2, <1>6, <1>7

LEMMA SendNextType ==
  ASSUME UploadTypeOK, SendNext
  PROVE  /\ sent' \in 0..Len(image) /\ filled' \in BOOLEAN /\ up' \in {"waiting", "done"}
         /\ ReadingOK' /\ wire' \in Seq(Byte \cup {RESET})
<1>1. UploadParts
  BY UploadTypes
<1> USE DEF UploadParts
<1> DEFINE W == Byte \cup {RESET}
<1>2. wire \in Seq(W) /\ image \in Images \cup {Installed}
  BY <1>1 DEF LinesOK, HostOK
<1>3. ASSUME NEW m \in Seq(Byte) PROVE m \in Seq(W) /\ wire \o m \in Seq(W)
  BY <1>2
<1>4. ReadAnswer => ReadingOK'
  <2> SUFFICES ASSUME ReadAnswer PROVE ReadingOK'
    OBVIOUS
  <2>1. inSysexMessage' \in BOOLEAN /\ sysexByteCount' = -1
    BY DEF ReadAnswer, Unset
  <2>2. -1 \in -1..(MIDIBOOT_SYSEX_ID_LEN + 6)
    BY Sizes
  <2> QED BY <2>1, <2>2, Zenon DEF ReadingOK
<1>5. CASE WriteDue /\ wire' = wire \o WriteMessage /\ filled' = FALSE /\ sent' = sent
           /\ up' = "waiting" /\ ReadAnswer
  <2>1. WriteMessage \in Seq(Byte)
    BY CommandMessageType, CommandNumbers DEF WriteMessage
  <2>2. wire' \in Seq(W)
    BY <1>3, <1>5, <2>1
  <2> QED BY <1>1, <1>4, <1>5, <2>2 DEF SentOK
<1>6. CASE FillDue /\ wire' = wire \o FillMessage(image, sent) /\ sent' = ChunkEnd(image, sent)
           /\ filled' = TRUE /\ up' = "waiting" /\ ReadAnswer
  <2>1. sent \in Nat /\ sent < Len(image) /\ Len(image) \in Nat
    BY <1>1, <1>2, <1>6, FileFacts DEF FillDue, SentOK
  <2>2. FillMessage(image, sent) \in Seq(Byte) /\ ChunkEnd(image, sent) \in 0..Len(image)
    BY <1>2, <2>1, FillMessageType, ChunkFacts
  <2>3. wire' \in Seq(W)
    BY <1>3, <1>6, <2>2
  <2> QED BY <1>4, <1>6, <2>2, <2>3
<1>7. CASE wire' = wire \o Message(<<MIDIBOOT_LEAVE_BOOT>>) \o <<RESET>> /\ up' = "done"
           /\ UNCHANGED <<it, answered>>
  <2>1. Message(<<MIDIBOOT_LEAVE_BOOT>>) \in Seq(Byte)
    BY CommandMessageType, CommandNumbers
  <2> DEFINE y == wire \o Message(<<MIDIBOOT_LEAVE_BOOT>>)
  <2>2. y \in Seq(W)
    BY <1>3, <2>1
  <2>3. wire' = y \o <<RESET>>
    BY <1>7
  <2> HIDE DEF y
  <2>4. wire' \in Seq(W)
    BY <2>2, <2>3
  <2>5. sent' = sent /\ filled' = filled /\ ReadingOK'
    BY <1>1, <1>7 DEF it, answered, ReadingOK
  <2> QED BY <1>1, <1>7, <2>4, <2>5 DEF SentOK, HostOK
<1> QED BY <1>5, <1>6, <1>7 DEF SendNext

LEMMA ReadingsRange ==
  ASSUME UploadTypeOK, NEW r \in Readings
  PROVE  r[1] \in BOOLEAN /\ r[2] \in 0..(MIDIBOOT_SYSEX_ID_LEN + 6)
<1>3. ReadingOK
  BY UploadTypes DEF UploadParts
<1>1. CASE sysexByteCount = Unset
  <2>1. r \in BOOLEAN \X UnsetCounts
    BY <1>1 DEF Readings
  <2>2. r[1] \in BOOLEAN /\ r[2] \in UnsetCounts
    BY <2>1, Zenon
  <2>3. UnsetCounts \subseteq 0..(MIDIBOOT_SYSEX_ID_LEN + 6)
    BY Sizes DEF UnsetCounts
  <2> QED BY <2>2, <2>3
<1>2. CASE sysexByteCount # Unset
  <2>1. r = <<inSysexMessage, sysexByteCount>>
    BY <1>2 DEF Readings
  <2>2. r[1] = inSysexMessage /\ r[2] = sysexByteCount
    BY <2>1
  <2>3. sysexByteCount \in 0..(MIDIBOOT_SYSEX_ID_LEN + 6)
    BY <1>3, <1>2, Sizes DEF ReadingOK, Unset
  <2> QED BY <1>3, <2>2, <2>3, Zenon DEF ReadingOK
<1> QED BY <1>1, <1>2

LEMMA TakenType ==
  ASSUME UploadTypeOK, NEW r \in Readings, NEW e \in BOOLEAN, Taken(r[1], r[2], e),
         e => r[2] <= MIDIBOOT_SYSEX_ID_LEN + 4
  PROVE  ReadingOK'
<1>1. ReadingOK
  BY UploadTypes DEF UploadParts
<1>2. r[1] \in BOOLEAN /\ r[2] \in 0..(MIDIBOOT_SYSEX_ID_LEN + 6)
  BY ReadingsRange
<1>3. inSysexMessage' \in BOOLEAN
  BY <1>2, Zenon DEF Taken
<1>4. sysexByteCount' = r[2] \/ (e /\ sysexByteCount' = r[2] + 1)
  <2>0. sysexByteCount' = IF r[1] /\ e THEN r[2] + 1 ELSE r[2]
    BY Zenon DEF Taken
  <2>1. CASE r[1] /\ e
    BY <2>0, <2>1, Zenon
  <2>2. CASE ~ (r[1] /\ e)
    BY <2>0, <2>2
  <2> QED BY <2>1, <2>2
<1>5. sysexByteCount' \in -1..(MIDIBOOT_SYSEX_ID_LEN + 6)
  BY <1>2, <1>4, Sizes
<1> QED BY <1>3, <1>5 DEF ReadingOK

LEMMA NoBootMove ==
  ASSUME UploadTypeOK, BatchInv, UNCHANGED bootVars
  PROVE  BootTypeOK' /\ BatchInv'
BY BootUnchanged, UploadTypes DEF UploadParts

LEMMA Reads ==
  ASSUME UploadTypeOK, NEW s, HostReads(s)
  PROVE  /\ got \in Seq(Byte) /\ got # <<>> /\ inByte \in Byte /\ got' = Tail(got) /\ got' \in Seq(Byte)
         /\ up = s /\ UNCHANGED bootVars /\ UNCHANGED history /\ image' = image
<1>1. got \in Seq(Byte)
  BY UploadTypes DEF UploadParts, LinesOK
<1> QED BY <1>1 DEF HostReads, inByte

LEMMA HistoryStays ==
  ASSUME UploadTypeOK, UNCHANGED history
  PROVE  HistoryOK'
<1>1. runs' = runs /\ cuts' = cuts /\ late' = late /\ cut' = cut
  BY DEF history
<1> QED BY <1>1, UploadTypes, Zenon DEF UploadParts, HistoryOK

LEMMA SentNextType ==
  ASSUME UploadTypeOK, BatchInv, NEW s, HostReads(s), SendNext
  PROVE  UploadTypeOK' /\ BatchInv'
<1>1. /\ sent' \in 0..Len(image) /\ filled' \in BOOLEAN /\ up' \in {"waiting", "done"}
      /\ ReadingOK' /\ wire' \in Seq(Byte \cup {RESET})
  BY SendNextType
<1>2. got' \in Seq(Byte) /\ image' = image /\ UNCHANGED bootVars /\ HistoryOK'
  BY Reads, HistoryStays
<1>3. HostOK'
  BY <1>1, <1>2, UploadTypes DEF UploadParts, HostOK
<1>4. SentOK' /\ LinesOK'
  BY <1>1, <1>2 DEF SentOK, LinesOK
<1> QED BY <1>1, <1>2, <1>3, <1>4, NoBootMove, UploadTypes DEF UploadParts

LEMMA HostStays ==
  ASSUME UploadTypeOK, image' = image, UNCHANGED it,
         up' \in {"off", "entering", "asking", "waiting", "done", "failed"}
  PROVE  HostOK' /\ SentOK'
<1>1. UploadParts /\ sent' = sent /\ filled' = filled
  BY UploadTypes DEF it
<1> QED BY <1>1, Zenon DEF UploadParts, HostOK, SentOK

LEMMA TakenTypes ==
  ASSUME UploadTypeOK, BatchInv, NEW s, HostReads(s), NEW r \in Readings, NEW e \in BOOLEAN,
         Taken(r[1], r[2], e), e => r[2] <= MIDIBOOT_SYSEX_ID_LEN + 4
  PROVE  UploadTypeOK' /\ BatchInv'
<1>1. ReadingOK'
  BY TakenType
<1>2. got' \in Seq(Byte) /\ image' = image /\ UNCHANGED bootVars /\ HistoryOK'
  BY Reads, HistoryStays
<1>3. up' = up /\ UNCHANGED it /\ wire' = wire
  BY DEF Taken
<1>4. up \in {"off", "entering", "asking", "waiting", "done", "failed"}
      /\ wire \in Seq(Byte \cup {RESET})
  BY UploadTypes DEF UploadParts, HostOK, LinesOK
<1>5. HostOK' /\ SentOK'
  BY <1>2, <1>3, <1>4, HostStays
<1>6. LinesOK'
  BY <1>2, <1>3, <1>4 DEF LinesOK
<1> QED BY <1>1, <1>2, <1>5, <1>6, NoBootMove, UploadTypes DEF UploadParts

LEMMA HostStepType ==
  ASSUME UploadTypeOK, BatchInv, HostStep
  PROVE  UploadTypeOK' /\ BatchInv'
<1>t. UploadParts
  BY UploadTypes
<1> USE DEF UploadParts
<1>1. ASSUME NEW f \in Images, EnterBootloader(f) PROVE UploadTypeOK' /\ BatchInv'
  <2>1. BootTypeOK' /\ BatchInv'
    BY <1>1, NoBootMove DEF EnterBootloader
  <2>2. HostOK'
    BY <1>1 DEF EnterBootloader, HostOK
  <2>3. SentOK'
    BY <1>1, FileFacts DEF EnterBootloader, SentOK
  <2>4. ReadingOK'
    BY <1>1, <1>t, Zenon DEF EnterBootloader, ReadingOK, answered
  <2>5. LinesOK'
    <3>1. RESET \in Byte \cup {RESET}
      OBVIOUS
    <3>2. wire' = Append(wire, RESET) /\ got' = <<>> /\ wire \in Seq(Byte \cup {RESET})
      BY <1>1, <1>t DEF EnterBootloader, LinesOK
    <3> QED BY <3>1, <3>2 DEF LinesOK
  <2>6. HistoryOK'
    <3>1. runs' \in 0..MaxRuns /\ cuts' = cuts
      BY <1>1, <1>t, UploadAssumption DEF EnterBootloader, HistoryOK
    <3>2. late' \in BOOLEAN /\ cut' \in BOOLEAN
      BY <1>1, Zenon DEF EnterBootloader
    <3> QED BY <1>t, <3>1, <3>2, Zenon DEF HistoryOK
  <2> QED BY <2>1, <2>2, <2>3, <2>4, <2>5, <2>6, UploadTypes
<1>2. CASE AskPageSize
  <2>1. BootTypeOK' /\ BatchInv' /\ HistoryOK'
    BY <1>2, NoBootMove, HistoryStays DEF AskPageSize
  <2>2. HostOK' /\ SentOK'
    BY <1>2, HostStays DEF AskPageSize
  <2>3. ReadingOK'
    <3>1. inSysexMessage' = FALSE /\ sysexByteCount' = -1
      BY <1>2 DEF AskPageSize, ReadAnswer, Unset
    <3>2. -1 \in -1..(MIDIBOOT_SYSEX_ID_LEN + 6)
      BY Sizes
    <3> QED BY <3>1, <3>2 DEF ReadingOK
  <2>4. LinesOK'
    <3>1. Message(<<MIDIBOOT_GETPAGESIZE>>) \in Seq(Byte)
      BY CommandMessageType, CommandNumbers
    <3>2. wire' = Message(<<MIDIBOOT_GETPAGESIZE>>) /\ got' = got
      BY <1>2, Zenon DEF AskPageSize
    <3>3. wire' \in Seq(Byte \cup {RESET})
      <4> DEFINE m == Message(<<MIDIBOOT_GETPAGESIZE>>)
      <4>1. m \in Seq(Byte) /\ wire' = m
        BY <3>1, <3>2
      <4> HIDE DEF m
      <4> QED BY <4>1
    <3> QED BY <1>t, <3>2, <3>3, Zenon DEF LinesOK
  <2> QED BY <2>1, <2>2, <2>3, <2>4, UploadTypes
<1>3. CASE AnswerBegins
  <2>1. HostReads(up) /\ up' = up /\ UNCHANGED it /\ wire' = wire
        /\ inSysexMessage' = TRUE /\ sysexByteCount' = 0
    BY <1>3 DEF AnswerBegins
  <2>2. got' \in Seq(Byte) /\ image' = image /\ BootTypeOK' /\ BatchInv' /\ HistoryOK'
    BY <2>1, Reads, HistoryStays, NoBootMove
  <2>3. HostOK' /\ SentOK'
    BY <1>t, <2>1, <2>2, HostStays DEF HostOK
  <2>4. ReadingOK'
    <3>1. 0 \in -1..(MIDIBOOT_SYSEX_ID_LEN + 6)
      BY Sizes
    <3> QED BY <2>1, <3>1 DEF ReadingOK
  <2>5. LinesOK'
    BY <1>t, <2>1, <2>2 DEF LinesOK
  <2> QED BY <2>2, <2>3, <2>4, <2>5, UploadTypes
<1>4. CASE PageSizeByte
  <2>1. HostReads("asking")
    BY <1>4 DEF PageSizeByte
  <2>2. PICK r \in Readings : PageSizeRead(r[1], r[2])
    BY <1>4, Zenon DEF PageSizeByte
  <2>3. CASE r[1] /\ inByte = SYSEX_END
    <3>1. \/ SendNext
          \/ up' = "failed" /\ UNCHANGED <<it, answered, wire>>
      BY <2>2, <2>3, Zenon DEF PageSizeRead
    <3>2. CASE SendNext
      BY <2>1, <3>2, SentNextType
    <3>3. CASE up' = "failed" /\ UNCHANGED <<it, answered, wire>>
      <4>1. got' \in Seq(Byte) /\ image' = image /\ BootTypeOK' /\ BatchInv' /\ HistoryOK'
        BY <2>1, Reads, HistoryStays, NoBootMove
      <4>2. HostOK' /\ SentOK'
        BY <3>3, <4>1, HostStays
      <4>3. ReadingOK' /\ LinesOK'
        BY <1>t, <3>3, <4>1, Zenon DEF ReadingOK, LinesOK, answered
      <4> QED BY <4>1, <4>2, <4>3, UploadTypes
    <3> QED BY <3>1, <3>2, <3>3
  <2>4. CASE ~ (r[1] /\ inByte = SYSEX_END)
    <3> DEFINE e == \/ IdTaken(r[2])
                    \/ r[2] = MIDIBOOT_SYSEX_ID_LEN /\ inByte = MIDIBOOT_GETPAGESIZE
                    \/ r[2] \in MIDIBOOT_SYSEX_ID_LEN + 1..MIDIBOOT_SYSEX_ID_LEN + 4
    <3>1. Taken(r[1], r[2], e)
      BY <2>2, <2>4, Zenon DEF PageSizeRead
    <3>2. e \in BOOLEAN
      BY Zenon DEF IdTaken
    <3>3. e => r[2] <= MIDIBOOT_SYSEX_ID_LEN + 4
      <4>1. r[2] < MIDIBOOT_SYSEX_ID_LEN => r[2] <= MIDIBOOT_SYSEX_ID_LEN + 4
        BY ReadingsRange, Sizes
      <4>2. r[2] = MIDIBOOT_SYSEX_ID_LEN => r[2] <= MIDIBOOT_SYSEX_ID_LEN + 4
        BY Sizes
      <4>3. r[2] \in MIDIBOOT_SYSEX_ID_LEN + 1..MIDIBOOT_SYSEX_ID_LEN + 4 => r[2] <= MIDIBOOT_SYSEX_ID_LEN + 4
        OBVIOUS
      <4> QED BY <4>1, <4>2, <4>3, Zenon DEF IdTaken
    <3> HIDE DEF e
    <3> QED BY <2>1, <3>1, <3>2, <3>3, TakenTypes
  <2> QED BY <2>3, <2>4
<1>5. CASE AckByte
  <2>1. HostReads("waiting")
    BY <1>5 DEF AckByte
  <2>2. PICK r \in Readings : AckRead(r[1], r[2])
    BY <1>5, Zenon DEF AckByte
  <2>3. CASE IsAck(r[1], r[2])
    <3>1. SendNext
      BY <2>2, <2>3, Zenon DEF AckRead
    <3> QED BY <2>1, <3>1, SentNextType
  <2>4. CASE ~ IsAck(r[1], r[2])
    <3> DEFINE e == IdTaken(r[2])
    <3>1. Taken(r[1], r[2], e)
      BY <2>2, <2>4, Zenon DEF AckRead
    <3>2. e \in BOOLEAN
      BY Zenon DEF IdTaken
    <3>3. e => r[2] <= MIDIBOOT_SYSEX_ID_LEN + 4
      BY ReadingsRange, Sizes DEF IdTaken
    <3> HIDE DEF e
    <3> QED BY <2>1, <3>1, <3>2, <3>3, TakenTypes
  <2> QED BY <2>3, <2>4
<1>6. CASE GiveUp
  <2>1. BootTypeOK' /\ BatchInv' /\ HistoryOK'
    BY <1>6, NoBootMove, HistoryStays DEF GiveUp
  <2>2. HostOK' /\ SentOK'
    BY <1>6, HostStays DEF GiveUp
  <2>3. ReadingOK' /\ LinesOK'
    BY <1>6, <1>t, Zenon DEF GiveUp, ReadingOK, LinesOK, answered
  <2> QED BY <2>1, <2>2, <2>3, UploadTypes
<1> QED BY <1>1, <1>2, <1>3, <1>4, <1>5, <1>6 DEF HostStep

LEMMA WireHead ==
  ASSUME UploadTypeOK, wire # <<>>
  PROVE  /\ Head(wire) \in Byte \cup {RESET} /\ Tail(wire) \in Seq(Byte \cup {RESET})
         /\ Head(wire) # RESET => Head(wire) \in Byte
BY UploadTypes DEF UploadParts, LinesOK

LEMMA TypeStep ==
  ASSUME UploadTypeOK, BatchInv, [Next]_vars
  PROVE  UploadTypeOK' /\ BatchInv'
<1>t. UploadParts
  BY UploadTypes
<1> USE DEF UploadParts
<1>1. CASE BootStep
  <2>1. BootTypeOK' /\ BatchInv'
    BY <1>1, <1>t, MainLoopType DEF BootStep
  <2>2. UNCHANGED <<up, image, it, answered, wire, got, history>>
    BY <1>1 DEF BootStep, upVars
  <2>3. HostOK' /\ SentOK' /\ HistoryOK'
    BY <1>t, <2>2, HostStays, HistoryStays DEF HostOK
  <2>4. ReadingOK' /\ LinesOK'
    BY <1>t, <2>2, Zenon DEF ReadingOK, LinesOK, answered
  <2> QED BY <2>1, <2>3, <2>4, UploadTypes
<1>2. CASE HostStep
  BY <1>2, HostStepType
<1>3. CASE Carry
  <2>1. wire # <<>> /\ wire' = Tail(wire) /\ UNCHANGED <<up, image, it, answered, got, history>>
    BY <1>3 DEF Carry
  <2>2. \/ Reset
        \/ onReceiveService(Head(wire)) /\ Head(wire) # RESET
        \/ UNCHANGED bootVars
    BY <1>3 DEF Carry
  <2>3. BootTypeOK' /\ BatchInv'
    BY <1>t, <2>1, <2>2, ResetType, onReceiveType, NoBootMove, WireHead, BootTypes DEF TypeParts, MemoryOK
  <2>4. HostOK' /\ SentOK' /\ HistoryOK'
    BY <1>t, <2>1, HostStays, HistoryStays DEF HostOK
  <2>5. ReadingOK'
    BY <1>t, <2>1, Zenon DEF ReadingOK, answered
  <2>6. LinesOK'
    BY <1>t, <2>1, WireHead, Zenon DEF LinesOK
  <2> QED BY <2>3, <2>4, <2>5, <2>6, UploadTypes
<1>4. CASE Poll
  <2>1. onRequestService /\ UNCHANGED <<up, image, it, answered, wire, history>>
    BY <1>4 DEF Poll
  <2>2. \/ got' = got
        \/ got' = got \o Told(Packet(midiOutQueue))
    BY <1>4, Zenon DEF Poll
  <2>3. BootTypeOK' /\ BatchInv'
    BY <1>t, <2>1, onRequestType
  <2>4. HostOK' /\ SentOK' /\ HistoryOK'
    BY <1>t, <2>1, HostStays, HistoryStays DEF HostOK
  <2>5. ReadingOK'
    BY <1>t, <2>1, Zenon DEF ReadingOK, answered
  <2>6. got' \in Seq(Byte)
    <3> DEFINE p == Told(Packet(midiOutQueue))
    <3>1. p \in Seq(Byte) /\ got \in Seq(Byte)
      BY <1>t, PacketFacts, BootTypes DEF LinesOK, TypeParts, QueuesOK
    <3>2. got' = got \/ got' = got \o p
      BY <2>2
    <3> HIDE DEF p
    <3>3. got \o p \in Seq(Byte)
      BY <3>1
    <3> QED BY <3>1, <3>2, <3>3, Zenon
  <2>7. LinesOK'
    BY <1>t, <2>1, <2>6, Zenon DEF LinesOK
  <2> QED BY <2>3, <2>4, <2>5, <2>7, UploadTypes
<1>5. CASE PowerFails
  <2>1. Reset /\ cuts < MaxCuts /\ cuts' = cuts + 1 /\ cut' = TRUE /\ wire' = <<>> /\ got' = <<>>
        /\ UNCHANGED <<up, image, it, answered, runs, late>>
    BY <1>5 DEF PowerFails
  <2>2. BootTypeOK' /\ BatchInv'
    BY <1>t, <2>1, ResetType, BootTypes DEF TypeParts, MemoryOK
  <2>3. HostOK' /\ SentOK'
    BY <1>t, <2>1, HostStays DEF HostOK
  <2>4. ReadingOK'
    BY <1>t, <2>1, Zenon DEF ReadingOK, answered
  <2>5. LinesOK'
    BY <2>1 DEF LinesOK
  <2>6. HistoryOK'
    <3>1. cuts' \in 0..MaxCuts
      BY <1>t, <2>1, UploadAssumption DEF HistoryOK
    <3> QED BY <1>t, <2>1, <3>1, Zenon DEF HistoryOK
  <2> QED BY <2>2, <2>3, <2>4, <2>5, <2>6, UploadTypes
<1>6. CASE UNCHANGED vars
  <2>1. UNCHANGED <<bootVars, up, image, it, answered, wire, got, history>>
    BY <1>6 DEF vars, upVars
  <2>2. BootTypeOK' /\ BatchInv'
    BY <2>1, NoBootMove
  <2>3. HostOK' /\ SentOK' /\ HistoryOK'
    BY <1>t, <2>1, HostStays, HistoryStays DEF HostOK
  <2>4. ReadingOK' /\ LinesOK'
    BY <1>t, <2>1, Zenon DEF ReadingOK, LinesOK, answered
  <2> QED BY <2>2, <2>3, <2>4, UploadTypes
<1> QED BY <1>1, <1>2, <1>3, <1>4, <1>5, <1>6 DEF Next

LEMMA TypeInit ==
  ASSUME Init
  PROVE  UploadTypeOK /\ BatchInv
<1>1. flash \in [Page -> [Offset -> Byte]]
  <2>1. flash = FlashOf(Installed)
    BY DEF Init
  <2>2. \A k \in 1..Len(Installed) : Installed[k] \in Byte
    BY FileFacts
  <2>3. Unfilled \in Byte
    BY ByteRange DEF Unfilled
  <2>4. ASSUME NEW p \in Page, NEW o \in Offset
        PROVE  p * SPM_PAGESIZE + o + 1 \in Nat /\ p * SPM_PAGESIZE + o + 1 >= 1
    <3>1. p \in Nat /\ o \in Nat /\ SPM_PAGESIZE \in Nat
      BY Sizes DEF Page, Offset
    <3>2. p * SPM_PAGESIZE \in Nat
      BY <3>1
    <3> QED BY <3>1, <3>2
  <2> DEFINE g(p, o) == LET k == p * SPM_PAGESIZE + o + 1
                        IN IF k <= Len(Installed) THEN Installed[k] ELSE Unfilled
  <2>5. ASSUME NEW p \in Page, NEW o \in Offset PROVE g(p, o) \in Byte
    <3> DEFINE k == p * SPM_PAGESIZE + o + 1
    <3>1. k \in Nat /\ k >= 1 /\ Len(Installed) \in Nat
      BY <2>4, FileFacts
    <3> HIDE DEF k
    <3>2. (IF k <= Len(Installed) THEN Installed[k] ELSE Unfilled) \in Byte
      BY <2>2, <2>3, <3>1
    <3> QED BY <3>2 DEF k
  <2>6. flash = [p \in Page |-> [o \in Offset |-> g(p, o)]]
    BY <2>1, Zenon DEF FlashOf
  <2> HIDE DEF g
  <2> QED BY <2>5, <2>6
<1>2. BootTypeOK /\ BatchInv
  BY <1>1, StartedType DEF Init
<1>3. HostOK
  BY DEF Init, HostOK
<1>4. SentOK
  BY FileFacts DEF Init, SentOK
<1>5. ReadingOK
  <2>1. -1 \in -1..(MIDIBOOT_SYSEX_ID_LEN + 6)
    BY Sizes
  <2> QED BY <2>1 DEF Init, ReadingOK, Unset
<1>6. LinesOK
  BY UploadAssumption DEF Init, LinesOK
<1>7. HistoryOK
  <2>1. runs \in 0..MaxRuns /\ cuts \in 0..MaxCuts
    BY UploadAssumption DEF Init
  <2> QED BY <2>1, Zenon DEF Init, HistoryOK
<1> QED BY <1>2, <1>3, <1>4, <1>5, <1>6, <1>7, UploadTypes DEF UploadParts

\* Whatever the image, the sizes and the interleaving, no queue overruns its buffer, the loop
\* stays within the batch that it found, and the page address and the page buffer are what the
\* chip has room for (avr_code/main.c 52-150, 163-266).
THEOREM UploadTypesOK == Spec => []UploadTypeOK
<1>1. Init => UploadTypeOK /\ BatchInv
  BY TypeInit
<1>2. (UploadTypeOK /\ BatchInv) /\ [Next]_vars => (UploadTypeOK /\ BatchInv)'
  BY TypeStep
<1> QED BY <1>1, <1>2, PTL DEF Spec

-----------------------------------------------------------------------------
(* A message on its way to the parser                                       *)

\* What each place of a message may hold.
LEMMA StreamBytes ==
  ASSUME NEW c \in Commands, NEW d \in Seq(Half), NEW k \in 1..Len(Stream(c, d))
  PROVE  /\ Stream(c, d)[k] = SYSEX_BEGIN <=> k = 1
         /\ Stream(c, d)[k] = SYSEX_END <=> k = MessageLen(d)
         /\ Stream(c, d)[k] = RESET <=> k > MessageLen(d)
         /\ k > MessageLen(d) => c = MIDIBOOT_LEAVE_BOOT /\ k = Len(Stream(c, d))
         /\ k <= MessageLen(d) => Stream(c, d)[k] \in Byte
<1> DEFINE s == Stream(c, d)
           m == MessageLen(d)
<1>1. /\ m \in Nat /\ m >= 4 /\ Len(s) = m + (IF c = MIDIBOOT_LEAVE_BOOT THEN 1 ELSE 0)
      /\ s[1] = SYSEX_BEGIN /\ s[m] = SYSEX_END
      /\ c = MIDIBOOT_LEAVE_BOOT => s[m + 1] = RESET
  <2>1. m = MIDIBOOT_SYSEX_ID_LEN + Len(d) + 3 /\ Len(d) \in Nat
    BY MessageAt DEF MessageLen
  <2>2. m \in Nat /\ m >= 4
    BY <2>1, Sizes
  <2>3. Len(s) = m + (IF c = MIDIBOOT_LEAVE_BOOT THEN 1 ELSE 0)
    BY MessageAt
  <2>4. s[1] = SYSEX_BEGIN /\ s[m] = SYSEX_END
    <3>1. s[1] = SYSEX_BEGIN
      BY MessageAt
    <3>2. s[m] = SYSEX_END
      BY MessageAt
    <3> QED BY <3>1, <3>2
  <2>5. c = MIDIBOOT_LEAVE_BOOT => s[m + 1] = RESET
    BY MessageAt
  <2> HIDE DEF m, s
  <2> QED BY <2>2, <2>3, <2>4, <2>5
<1>2. \A j \in 2..(m - 1) : s[j] \in Byte /\ s[j] \in Int /\ 0 <= s[j] /\ s[j] <= 127
  BY InnerBytes, HalfRange, HalfByte
<1>3. SYSEX_BEGIN = 240 /\ SYSEX_END = 247 /\ RESET = 256
  BY DEF SYSEX_BEGIN, SYSEX_END, RESET
<1>3a. SYSEX_BEGIN \in Byte /\ SYSEX_END \in Byte
  BY <1>3, ByteRange
<1>4. k \in Nat /\ k >= 1 /\ k <= Len(s)
  BY <1>1
<1> HIDE DEF s, m
<1> SUFFICES /\ s[k] = SYSEX_BEGIN <=> k = 1
             /\ s[k] = SYSEX_END <=> k = m
             /\ s[k] = RESET <=> k > m
             /\ k > m => c = MIDIBOOT_LEAVE_BOOT /\ k = Len(s)
             /\ k <= m => s[k] \in Byte
  BY Zenon DEF s, m
<1>9. m \in Nat /\ m >= 4
  BY <1>1
<1>5. CASE k = 1
  <2>1. s[k] = SYSEX_BEGIN
    BY <1>1, <1>5
  <2> QED BY <1>3, <1>3a, <1>5, <1>9, <2>1
<1>6. CASE k \in 2..(m - 1)
  BY <1>2, <1>3, <1>6, <1>9
<1>7. CASE k = m
  <2>1. s[k] = SYSEX_END
    BY <1>1, <1>7
  <2> QED BY <1>3, <1>3a, <1>7, <1>9, <2>1
<1>8. CASE k > m
  <2>1. c = MIDIBOOT_LEAVE_BOOT /\ k = m + 1 /\ k = Len(s)
    BY <1>1, <1>4, <1>8
  <2>2. s[k] = RESET
    BY <1>1, <2>1
  <2> QED BY <1>3, <1>8, <1>9, <2>1, <2>2
<1> QED BY <1>4, <1>5, <1>6, <1>7, <1>8, <1>9

LEMMA StreamSizes ==
  ASSUME NEW c \in Commands, NEW d \in Seq(Half), Len(d) <= 2 * (CHUNK_SIZE + 2)
  PROVE  /\ MessageLen(d) = MIDIBOOT_SYSEX_ID_LEN + Len(d) + 3 /\ Len(d) \in Nat
         /\ MessageLen(d) \in Nat /\ MessageLen(d) < MIDIIN_BUF_SIZE /\ Len(d) <= IN_BUFSIZE
         /\ Len(Stream(c, d)) \in Nat
         /\ Len(Stream(c, d)) = MessageLen(d) + (IF c = MIDIBOOT_LEAVE_BOOT THEN 1 ELSE 0)
<1>1. Len(d) \in Nat /\ MessageLen(d) = MIDIBOOT_SYSEX_ID_LEN + Len(d) + 3
  BY MessageAt DEF MessageLen
<1>2. MessageLen(d) \in Nat /\ MessageLen(d) < MIDIIN_BUF_SIZE /\ Len(d) <= IN_BUFSIZE
  BY <1>1, Sizes, SizeAssumption
<1>3. Len(Stream(c, d)) = MessageLen(d) + (IF c = MIDIBOOT_LEAVE_BOOT THEN 1 ELSE 0)
  BY MessageAt, Zenon
<1> QED BY <1>1, <1>2, <1>3

\* What the types say of the queue and the wire.
LEMMA Lines ==
  ASSUME UploadTypeOK
  PROVE  /\ midiByteQueue \in Seq(Byte) /\ Len(midiByteQueue) \in Nat /\ Len(midiByteQueue) < MIDIIN_BUF_SIZE
         /\ wire \in Seq(Byte \cup {RESET}) /\ Len(wire) \in Nat
         /\ size \in Nat /\ i \in Nat /\ i <= size /\ size <= Len(midiByteQueue)
         /\ midiOutQueue \in Seq(Byte) /\ Len(midiOutQueue) \in Nat
         /\ answer \in Seq(Byte) /\ Len(answer) \in Nat /\ got \in Seq(Byte) /\ Len(got) \in Nat
<1>1. /\ midiByteQueue \in Seq(Byte) /\ midiOutQueue \in Seq(Byte) /\ answer \in Seq(Byte)
      /\ Len(midiByteQueue) < MIDIIN_BUF_SIZE /\ size \in 0..Len(midiByteQueue) /\ i \in 0..size
  BY UploadTypes, BootTypes DEF UploadParts, TypeParts, QueuesOK, CountsOK
<1>2. wire \in Seq(Byte \cup {RESET}) /\ got \in Seq(Byte)
  BY UploadTypes DEF UploadParts, LinesOK
<1> QED BY <1>1, <1>2

LEMMA LineSizes ==
  ASSUME UploadTypeOK
  PROVE  /\ Len(midiByteQueue) \in Nat /\ Len(wire) \in Nat
         /\ size \in Nat /\ i \in Nat /\ i <= size /\ size <= Len(midiByteQueue)
         /\ Len(midiOutQueue) \in Nat /\ Len(answer) \in Nat /\ Len(got) \in Nat
BY Lines

\* The loop takes the next byte of the message.
LEMMA NextByte ==
  ASSUME UploadTypeOK, NEW c \in Commands, NEW d \in Seq(Half), Len(d) <= 2 * (CHUNK_SIZE + 2),
         NEW n \in Nat, GoingAt(c, d, n), OneByte, wire' = wire
  PROVE  /\ curByte = Stream(c, d)[n + 1] /\ n + 1 \in 1..MessageLen(d)
         /\ n + 1 \in 1..Len(Stream(c, d))
         /\ InTransit(c, d, n + 1)'
<1> DEFINE s == Stream(c, d)
<1>1. /\ Len(midiByteQueue) - i + Len(wire) = Len(s) - n
      /\ \A k \in 1..(Len(midiByteQueue) - i) : midiByteQueue[i + k] = s[n + k]
      /\ \A k \in 1..Len(wire) : wire[k] = s[n + (Len(midiByteQueue) - i) + k]
      /\ Len(wire) < Len(s) => i <= n
      /\ n < MessageLen(d)
  BY DEF GoingAt, InTransit
<1>2. /\ i < size /\ i' = i + 1 /\ midiByteQueue' = midiByteQueue
      /\ Len(midiByteQueue) \in Nat /\ Len(wire) \in Nat /\ i \in Nat /\ size \in Nat /\ size <= Len(midiByteQueue)
  BY Lines DEF OneByte, interrupts
<1>3. Len(s) \in Nat /\ MessageLen(d) \in Nat /\ MessageLen(d) <= Len(s)
  BY StreamSizes
<1> HIDE DEF s
<1>4. curByte = s[n + 1]
  <2>1. 1 \in 1..(Len(midiByteQueue) - i)
    BY <1>2
  <2> QED BY <1>1, <2>1 DEF curByte
<1>5. /\ Len(midiByteQueue') - i' + Len(wire') = Len(s) - (n + 1)
      /\ Len(wire') < Len(s) => i' <= n + 1
  <2>1. Len(midiByteQueue) - i + Len(wire) = Len(s) - n /\ (Len(wire) < Len(s) => i <= n)
    BY <1>1
  <2> DEFINE q == Len(midiByteQueue)
             w == Len(wire)
             z == Len(s)
  <2>2. q - i + w = z - n /\ (w < z => i <= n) /\ i' = i + 1 /\ i < size /\ size <= q
        /\ q \in Nat /\ w \in Nat /\ z \in Nat /\ i \in Nat /\ size \in Nat
        /\ Len(midiByteQueue') = q /\ Len(wire') = w
    BY <1>2, <1>3, <2>1
  <2> HIDE DEF q, w, z
  <2>3. q - i' + w = z - (n + 1) /\ (w < z => i' <= n + 1)
    BY <2>2
  <2> QED BY <2>2, <2>3 DEF z
<1>6. \A k \in 1..(Len(midiByteQueue') - i') : midiByteQueue'[i' + k] = s[n + 1 + k]
  <2> SUFFICES ASSUME NEW k \in 1..(Len(midiByteQueue') - i')
               PROVE  midiByteQueue'[i' + k] = s[n + 1 + k]
    OBVIOUS
  <2>1. k + 1 \in 1..(Len(midiByteQueue) - i) /\ i' + k = i + (k + 1) /\ n + 1 + k = n + (k + 1)
    BY <1>2
  <2> QED BY <1>1, <1>2, <2>1
<1>7. \A k \in 1..Len(wire') : wire'[k] = s[n + 1 + (Len(midiByteQueue') - i') + k]
  <2> SUFFICES ASSUME NEW k \in 1..Len(wire')
               PROVE  wire'[k] = s[n + 1 + (Len(midiByteQueue') - i') + k]
    OBVIOUS
  <2>1. n + 1 + (Len(midiByteQueue') - i') + k = n + (Len(midiByteQueue) - i) + k
    BY <1>2
  <2> QED BY <1>1, <2>1
<1> QED BY <1>1, <1>3, <1>4, <1>5, <1>6, <1>7 DEF s, InTransit

LEMMA ParserOf ==
  ASSUME UploadTypeOK, NEW c \in Commands, NEW d \in Seq(Half), Len(d) <= 2 * (CHUNK_SIZE + 2),
         NEW n \in Nat, GoingAt(c, d, n)
  PROVE  /\ n >= 1 => inSysexMode /\ inByteIndex = n - 1
         /\ n >= 1 /\ n <= MIDIBOOT_SYSEX_ID_LEN + 1 => sysexMode = MIDIBOOT_INVALID /\ tmpPackedData = <<>>
         /\ n >= MIDIBOOT_SYSEX_ID_LEN + 2 => sysexMode = c
         /\ n >= MIDIBOOT_SYSEX_ID_LEN + 2 /\ c = MIDIBOOT_FILLPAGE =>
              /\ Len(tmpPackedData) = n - (MIDIBOOT_SYSEX_ID_LEN + 2)
              /\ \A k \in 1..Len(tmpPackedData) : tmpPackedData[k] = d[k]
BY DEF GoingAt, ParserAt

\* The parser follows the message.
LEMMA ParserMoves ==
  ASSUME UploadTypeOK, NEW c \in Commands, NEW d \in Seq(Half), Len(d) <= 2 * (CHUNK_SIZE + 2),
         NEW n \in Nat, GoingAt(c, d, n), wire' = wire,
         BeginByte \/ PrefixByte \/ CommandByte \/ DataByte
  PROVE  n + 1 < MessageLen(d) /\ ParserAt(c, d, n + 1)'
<1> DEFINE L == MIDIBOOT_SYSEX_ID_LEN
<1>0. OneByte
  BY DEF BeginByte, PrefixByte, CommandByte, DataByte
<1>1. curByte = Stream(c, d)[n + 1] /\ n + 1 \in 1..MessageLen(d) /\ n + 1 \in 1..Len(Stream(c, d))
  BY <1>0, NextByte
<1>2. /\ curByte = SYSEX_BEGIN <=> n = 0
      /\ curByte = SYSEX_END <=> n + 1 = MessageLen(d)
  <2>1. /\ Stream(c, d)[n + 1] = SYSEX_BEGIN <=> n + 1 = 1
        /\ Stream(c, d)[n + 1] = SYSEX_END <=> n + 1 = MessageLen(d)
    BY <1>1, StreamBytes
  <2> QED BY <1>1, <2>1
<1>3. L \in Nat /\ L >= 1 /\ MessageLen(d) = L + Len(d) + 3 /\ Len(d) \in Nat
  BY Sizes, StreamSizes
<1>4. MessageLen(d) \in Nat /\ MessageLen(d) >= 4
  BY <1>3
<1>p. /\ n >= 1 => inSysexMode /\ inByteIndex = n - 1
      /\ n >= 1 /\ n <= L + 1 => sysexMode = MIDIBOOT_INVALID /\ tmpPackedData = <<>>
      /\ n >= L + 2 => sysexMode = c
      /\ n >= L + 2 /\ c = MIDIBOOT_FILLPAGE =>
           /\ Len(tmpPackedData) = n - (L + 2)
           /\ \A k \in 1..Len(tmpPackedData) : tmpPackedData[k] = d[k]
  BY ParserOf
<1>5. CASE BeginByte
  <2>1. n = 0 /\ inSysexMode' /\ inByteIndex' = 0 /\ sysexMode' = MIDIBOOT_INVALID /\ tmpPackedData' = <<>>
    BY <1>2, <1>5 DEF BeginByte
  <2> QED BY <1>3, <1>4, <2>1 DEF ParserAt
<1>6. CASE PrefixByte
  <2>1. curByte # SYSEX_BEGIN /\ curByte # SYSEX_END /\ inByteIndex < L
    BY <1>6 DEF PrefixByte
  <2>2. n >= 1 /\ n <= L /\ n + 1 < MessageLen(d) /\ inByteIndex = n - 1 /\ inByteIndex + 1 = n
    BY <1>1, <1>2, <1>3, <1>p, <2>1
  <2>3. Stream(c, d)[1 + n] = midiboot_sysex_id[n]
    <3>1. \A k \in 1..L : Stream(c, d)[1 + k] = midiboot_sysex_id[k]
      BY MessageAt, Zenon
    <3>2. n \in 1..L
      BY <1>3, <2>2
    <3> QED BY <3>1, <3>2
  <2>4. curByte = midiboot_sysex_id[inByteIndex + 1]
    <3>1. 1 + n = n + 1
      OBVIOUS
    <3> QED BY <1>1, <2>2, <2>3, <3>1
  <2>5. inByteIndex' = inByteIndex + 1 /\ inSysexMode' = inSysexMode
        /\ sysexMode' = sysexMode /\ tmpPackedData' = tmpPackedData
    BY <1>6, <2>4 DEF PrefixByte
  <2> QED BY <1>3, <1>p, <2>2, <2>5 DEF ParserAt
<1>7. CASE CommandByte
  <2>1. curByte # SYSEX_BEGIN /\ curByte # SYSEX_END /\ inByteIndex = L
    BY <1>7 DEF CommandByte
  <2>2. n = L + 1 /\ n + 1 < MessageLen(d)
    BY <1>1, <1>2, <1>3, <1>p, <2>1
  <2>3. curByte = c
    <3>1. Stream(c, d)[L + 2] = c
      BY MessageAt, Zenon
    <3>2. n + 1 = L + 2
      BY <1>3, <2>2
    <3> QED BY <1>1, <3>1, <3>2
  <2>4. inByteIndex' = inByteIndex + 1 /\ inSysexMode' = inSysexMode
        /\ sysexMode' = c /\ tmpPackedData' = tmpPackedData
    BY <1>7, <2>3 DEF CommandByte, Commands
  <2>5. tmpPackedData' = <<>> /\ inSysexMode' /\ inByteIndex' = n
    BY <1>3, <1>p, <2>1, <2>2, <2>4
  <2> QED BY <1>3, <2>2, <2>4, <2>5 DEF ParserAt
<1>8. CASE DataByte
  <2>1. curByte # SYSEX_BEGIN /\ curByte # SYSEX_END /\ inByteIndex > L /\ inByteIndex' = inByteIndex + 1
    BY <1>8 DEF DataByte
  <2>2. n >= L + 2 /\ n + 1 < MessageLen(d)
    BY <1>1, <1>2, <1>3, <1>p, <2>1
  <2>3. inByteIndex' = n /\ inSysexMode /\ sysexMode = c
    BY <1>3, <1>p, <2>1, <2>2
  <2>4. CASE c # MIDIBOOT_FILLPAGE
    <3>1. inSysexMode' = inSysexMode /\ sysexMode' = sysexMode
      BY <1>8, <2>3, <2>4 DEF DataByte
    <3> QED BY <1>3, <2>2, <2>3, <2>4, <3>1 DEF ParserAt
  <2>5. CASE c = MIDIBOOT_FILLPAGE
    <3>1. Len(tmpPackedData) = n - (L + 2) /\ \A k \in 1..Len(tmpPackedData) : tmpPackedData[k] = d[k]
      BY <1>p, <2>2, <2>5
    <3>2. Len(tmpPackedData) < Len(d) /\ Fits
      BY <1>3, <2>2, <3>1, StreamSizes, Sizes DEF Fits
    <3>3. tmpPackedData' = Append(tmpPackedData, curByte) /\ inSysexMode' = inSysexMode /\ sysexMode' = sysexMode
      BY <1>8, <2>3, <2>5, <3>2 DEF DataByte
    <3> DEFINE j == n - (L + 2) + 1
    <3>4. j \in 1..Len(d) /\ n + 1 = L + 2 + j
      BY <1>3, <2>2
    <3>5. curByte = d[j]
      <4>1. Stream(c, d)[L + 2 + j] = d[j]
        BY <3>4, MessageAt
      <4> QED BY <1>1, <3>4, <4>1
    <3>6. tmpPackedData \in Seq(Byte)
      BY UploadTypes, BootTypes DEF UploadParts, TypeParts, ParserOK
    <3>7. Len(tmpPackedData') = n + 1 - (L + 2)
          /\ \A k \in 1..Len(tmpPackedData') : tmpPackedData'[k] = d[k]
      <4>1. Len(tmpPackedData) + 1 = j
        BY <1>3, <3>1
      <4>2. /\ Len(tmpPackedData') = Len(tmpPackedData) + 1
            /\ \A k \in 1..Len(tmpPackedData) : tmpPackedData'[k] = tmpPackedData[k]
            /\ tmpPackedData'[Len(tmpPackedData) + 1] = curByte
        BY <3>3, <3>6
      <4>3. Len(tmpPackedData) \in Nat
        BY <3>6
      <4> HIDE DEF j
      <4>4. Len(tmpPackedData') = j /\ n + 1 - (L + 2) = j
        BY <1>3, <4>1, <4>2 DEF j
      <4>5. ASSUME NEW k \in 1..Len(tmpPackedData') PROVE tmpPackedData'[k] = d[k]
        <5>1. k = j \/ k \in 1..Len(tmpPackedData)
          BY <4>1, <4>3, <4>4
        <5> QED BY <3>1, <3>5, <4>1, <4>2, <5>1
      <4> QED BY <4>4, <4>5
    <3> HIDE DEF j
    <3> QED BY <1>3, <2>2, <2>3, <3>3, <3>7 DEF ParserAt
  <2> QED BY <2>4, <2>5
<1> QED BY <1>5, <1>6, <1>7, <1>8

LEMMA MessageEnds ==
  ASSUME UploadTypeOK, NEW c \in Commands, NEW d \in Seq(Half), Len(d) <= 2 * (CHUNK_SIZE + 2),
         NEW n \in Nat, GoingAt(c, d, n), OneByte, curByte = SYSEX_END, wire' = wire
  PROVE  /\ inSysexMode /\ sysexMode = c
         /\ inByteIndex = 1 + MIDIBOOT_SYSEX_ID_LEN + Len(d)
         /\ c = MIDIBOOT_FILLPAGE =>
              Len(tmpPackedData) = Len(d) /\ \A k \in 1..Len(d) : tmpPackedData[k] = d[k]
         /\ c # MIDIBOOT_LEAVE_BOOT => wire = <<>> /\ i + 1 = Len(midiByteQueue)
<1> DEFINE L == MIDIBOOT_SYSEX_ID_LEN
<1>1. curByte = Stream(c, d)[n + 1] /\ n + 1 \in 1..MessageLen(d) /\ n + 1 \in 1..Len(Stream(c, d))
      /\ InTransit(c, d, n + 1)'
  BY NextByte
<1>2. n + 1 = MessageLen(d)
  BY <1>1, StreamBytes
<1>3. /\ L \in Nat /\ L >= 1 /\ MessageLen(d) = L + Len(d) + 3 /\ Len(d) \in Nat
      /\ Len(Stream(c, d)) = MessageLen(d) + (IF c = MIDIBOOT_LEAVE_BOOT THEN 1 ELSE 0)
  BY Sizes, StreamSizes
<1>4. n = L + Len(d) + 2
  BY <1>2, <1>3
<1>5. /\ n >= 1 => inSysexMode /\ inByteIndex = n - 1
      /\ n >= L + 2 => sysexMode = c
      /\ n >= L + 2 /\ c = MIDIBOOT_FILLPAGE =>
           /\ Len(tmpPackedData) = n - (L + 2)
           /\ \A k \in 1..Len(tmpPackedData) : tmpPackedData[k] = d[k]
  BY ParserOf
<1>6. inSysexMode /\ inByteIndex = n - 1 /\ sysexMode = c
  <2>1. n >= 1 /\ n >= L + 2
    BY <1>3, <1>4
  <2> QED BY <1>5, <2>1, Zenon
<1>7. inByteIndex = 1 + L + Len(d)
  BY <1>3, <1>4, <1>6
<1>8. c = MIDIBOOT_FILLPAGE =>
        Len(tmpPackedData) = Len(d) /\ \A k \in 1..Len(d) : tmpPackedData[k] = d[k]
  <2> SUFFICES ASSUME c = MIDIBOOT_FILLPAGE
               PROVE  Len(tmpPackedData) = Len(d) /\ \A k \in 1..Len(d) : tmpPackedData[k] = d[k]
    OBVIOUS
  <2>1. Len(tmpPackedData) = n - (L + 2) /\ \A k \in 1..Len(tmpPackedData) : tmpPackedData[k] = d[k]
    BY <1>3, <1>4, <1>5
  <2>2. n - (L + 2) = Len(d)
    BY <1>3, <1>4
  <2> QED BY <2>1, <2>2
<1>9. c # MIDIBOOT_LEAVE_BOOT => wire = <<>> /\ i + 1 = Len(midiByteQueue)
  <2> SUFFICES ASSUME c # MIDIBOOT_LEAVE_BOOT PROVE wire = <<>> /\ i + 1 = Len(midiByteQueue)
    OBVIOUS
  <2>1. Len(midiByteQueue') - i' + Len(wire') = Len(Stream(c, d)) - (n + 1)
    BY <1>1, Zenon DEF InTransit
  <2>2. Len(Stream(c, d)) - (n + 1) = 0
    BY <1>2, <1>3
  <2>3. midiByteQueue' = midiByteQueue /\ i' = i + 1 /\ i < size
    BY DEF OneByte, interrupts
  <2>4. Len(midiByteQueue) - (i + 1) = 0 /\ Len(wire) = 0
    <3>1. wire' = wire
      BY DEF OneByte, interrupts
    <3>2. Len(midiByteQueue) - (i + 1) + Len(wire) = 0
      BY <2>1, <2>2, <2>3, <3>1
    <3> QED BY <2>3, <3>2, LineSizes
  <2> QED BY <2>4, Lines, EmptySeq
<1> QED BY <1>6, <1>7, <1>8, <1>9

\* A reset comes last, and only with the command to leave.
LEMMA ResetLast ==
  ASSUME UploadTypeOK, NEW c \in Commands, NEW d \in Seq(Half), Len(d) <= 2 * (CHUNK_SIZE + 2),
         NEW n \in Nat, GoingAt(c, d, n)
  PROVE  \A k \in 1..Len(wire) : wire[k] = RESET =>
           c = MIDIBOOT_LEAVE_BOOT /\ k = Len(wire)
<1> SUFFICES ASSUME NEW k \in 1..Len(wire), wire[k] = RESET
             PROVE  c = MIDIBOOT_LEAVE_BOOT /\ k = Len(wire)
  OBVIOUS
<1> DEFINE j == n + (Len(midiByteQueue) - i) + k
<1>1. wire[k] = Stream(c, d)[j] /\ Len(midiByteQueue) - i + Len(wire) = Len(Stream(c, d)) - n
  BY DEF GoingAt, InTransit
<1>2. Len(Stream(c, d)) \in Nat
  BY StreamSizes
<1>3. j \in 1..Len(Stream(c, d)) /\ (j = Len(Stream(c, d)) => k = Len(wire))
  <2>1. Len(midiByteQueue) - i + Len(wire) = Len(Stream(c, d)) - n
    BY <1>1
  <2> DEFINE q == Len(midiByteQueue)
             w == Len(wire)
             z == Len(Stream(c, d))
  <2>2. q \in Nat /\ i \in Nat /\ i <= q /\ w \in Nat /\ z \in Nat /\ k \in Nat /\ k >= 1 /\ k <= w
    BY <1>2, LineSizes
  <2>3. q - i + w = z - n /\ j = n + (q - i) + k
    BY <2>1
  <2> HIDE DEF q, w, z, j
  <2>4. j \in Nat /\ j >= 1 /\ j <= z /\ (j = z => k = w)
    BY <2>2, <2>3
  <2> QED BY <2>2, <2>4 DEF z, w
<1> HIDE DEF j
<1>4. j > MessageLen(d)
  BY <1>1, <1>3, StreamBytes
<1> QED BY <1>3, <1>4, StreamBytes

\* The PIC's next byte goes to the end of the queue, or is the reset.
LEMMA GoingCarry ==
  ASSUME UploadTypeOK, BatchInv, NEW c \in Commands, NEW d \in Seq(Half), Len(d) <= 2 * (CHUNK_SIZE + 2),
         NEW n \in Nat, GoingAt(c, d, n), Carry
  PROVE  \/ c = MIDIBOOT_LEAVE_BOOT /\ Reset /\ wire' = <<>>
         \/ /\ GoingAt(c, d, n)'
            /\ UNCHANGED <<mode, cancelTimeout, pageAddress, buffer, flash>>
<1> DEFINE s == Stream(c, d)
<1>0. /\ wire # <<>> /\ wire' = Tail(wire) /\ got' = got
      /\ mode = "boot" /\ pc \in {"top", "byte", "pin"} /\ NothingBack /\ n < MessageLen(d)
      /\ InTransit(c, d, n) /\ ParserAt(c, d, n)
  BY DEF Carry, GoingAt
<1>1. /\ Len(wire) >= 1 /\ Head(wire) = wire[1] /\ Len(wire') = Len(wire) - 1
      /\ \A k \in 1..Len(wire') : wire'[k] = wire[k + 1]
  BY <1>0, Lines
<1>2. CASE Head(wire) = RESET
  <2>1. c = MIDIBOOT_LEAVE_BOOT /\ 1 = Len(wire)
    BY <1>1, <1>2, ResetLast, Lines
  <2>2. wire' = <<>>
    <3>0. Len(wire') = Len(wire) - 1
      BY <1>1
    <3>1. Len(wire') = 0
      BY <2>1, <3>0
    <3>2. wire' \in Seq(Byte \cup {RESET})
      BY <1>0, WireHead
    <3> QED BY <3>1, <3>2, EmptySeq
  <2>3. Reset
    BY <1>2 DEF Carry
  <2> QED BY <2>1, <2>2, <2>3
<1>3. CASE Head(wire) # RESET
  <2>1. (Head(wire) = SYSEX_BEGIN => pc = "top" /\ midiByteQueue = <<>>) /\ onReceiveService(Head(wire))
    BY <1>0, <1>3 DEF Carry
  <2>2. /\ Len(midiByteQueue) - i + Len(wire) = Len(s) - n
        /\ \A k \in 1..(Len(midiByteQueue) - i) : midiByteQueue[i + k] = s[n + k]
        /\ \A k \in 1..Len(wire) : wire[k] = s[n + (Len(midiByteQueue) - i) + k]
        /\ Len(wire) < Len(s) => i <= n
    BY <1>0 DEF InTransit
  <2>3. /\ Len(s) \in Nat /\ MessageLen(d) \in Nat /\ MessageLen(d) < MIDIIN_BUF_SIZE
        /\ Len(s) = MessageLen(d) + (IF c = MIDIBOOT_LEAVE_BOOT THEN 1 ELSE 0)
        /\ MIDIIN_BUF_SIZE \in Nat
    BY StreamSizes, Sizes
  <2> HIDE DEF s
  <2> DEFINE j == n + (Len(midiByteQueue) - i) + 1
  <2>4. j \in 1..Len(s) /\ Head(wire) = s[j]
    <3>1. 1 \in 1..Len(wire)
      BY <1>1, LineSizes
    <3>2. Head(wire) = s[j]
      BY <1>1, <2>2, <3>1
    <3>3. Len(midiByteQueue) - i + Len(wire) = Len(s) - n /\ Len(wire) >= 1 /\ Len(s) \in Nat
      BY <1>1, <2>2, <2>3
    <3>4. j \in 1..Len(s)
      BY <3>3, LineSizes, SMTT(30)
    <3> QED BY <3>2, <3>4
  <2>5. j <= MessageLen(d)
    <3>1. s[j] = RESET <=> j > MessageLen(d)
      BY <2>4, StreamBytes DEF s
    <3> QED BY <1>3, <2>3, <2>4, <3>1
  <2>6. i <= n
    <3>1. CASE Len(wire) < Len(s)
      BY <2>2, <3>1
    <3>2. CASE ~ (Len(wire) < Len(s))
      <4>1. j = 1
        <5>1. Len(midiByteQueue) - i + Len(wire) = Len(s) - n /\ Len(s) \in Nat
          BY <2>2, <2>3
        <5> QED BY <3>2, <5>1, LineSizes, SMTT(30)
      <4>2. s[j] = SYSEX_BEGIN
        BY <2>4, <4>1, StreamBytes DEF s
      <4>3. pc = "top"
        BY <2>1, <2>4, <4>2
      <4> QED BY <1>0, <4>3 DEF BatchInv
    <3> QED BY <3>1, <3>2
  <2>7. Len(midiByteQueue) < MIDIIN_BUF_SIZE - 1
    BY <2>2, <2>3, <2>5, <2>6, LineSizes, SMTT(30)
  <2>8. /\ midiByteQueue' = Append(midiByteQueue, Head(wire))
        /\ UNCHANGED <<mode, pc, midiOutQueue, answer, parser, cancelTimeout, i>>
        /\ UNCHANGED <<pageAddress, buffer, flash>>
    BY <2>1, <2>7 DEF onReceiveService, loop, memory
  <2>9. /\ Len(midiByteQueue') = Len(midiByteQueue) + 1
        /\ \A k \in 1..Len(midiByteQueue) : midiByteQueue'[k] = midiByteQueue[k]
        /\ midiByteQueue'[Len(midiByteQueue) + 1] = Head(wire)
    BY <2>8, Lines
  <2>10. InTransit(c, d, n)'
    <3> DEFINE q == Len(midiByteQueue)
    <3>1. q \in Nat /\ i \in Nat /\ i <= q /\ i' = i /\ Len(midiByteQueue') = q + 1 /\ j = n + (q - i) + 1
      BY <2>8, <2>9, Lines
    <3>2. Len(midiByteQueue') - i' + Len(wire') = Len(s) - n
      BY <1>1, <2>2, <2>3, <3>1, Lines
    <3>3. ASSUME NEW k \in 1..(Len(midiByteQueue') - i') PROVE midiByteQueue'[i' + k] = s[n + k]
      <4>1. CASE k \in 1..(q - i)
        <5>1. i + k \in 1..q
          BY <3>1, <4>1
        <5> QED BY <2>2, <2>9, <3>1, <4>1, <5>1
      <4>2. CASE k = q - i + 1
        <5>1. i + k = q + 1 /\ n + k = j
          BY <3>1, <4>2
        <5> QED BY <2>4, <2>9, <3>1, <5>1
      <4> QED BY <3>1, <4>1, <4>2
    <3>4. ASSUME NEW k \in 1..Len(wire') PROVE wire'[k] = s[n + (Len(midiByteQueue') - i') + k]
      <4>1. k + 1 \in 1..Len(wire) /\ n + (Len(midiByteQueue') - i') + k = n + (q - i) + (k + 1)
        BY <1>1, <3>1, Lines
      <4> QED BY <1>1, <2>2, <4>1
    <3>5. i' <= n
      BY <2>6, <3>1
    <3> QED BY <3>2, <3>3, <3>4, <3>5 DEF s, InTransit
  <2>11. ParserAt(c, d, n)'
    BY <1>0, <2>8 DEF ParserAt, parser
  <2>12. NothingBack'
    BY <1>0, <2>8 DEF NothingBack
  <2> QED BY <1>0, <2>8, <2>10, <2>11, <2>12 DEF GoingAt
<1> QED BY <1>2, <1>3

\* The loop's steps that take no byte.
LEMMA GoingLoop ==
  ASSUME UploadTypeOK, BatchInv, NEW c \in Commands, NEW d \in Seq(Half), Len(d) <= 2 * (CHUNK_SIZE + 2),
         NEW n \in Nat, GoingAt(c, d, n), UNCHANGED upVars, Look \/ Advance \/ RaisePin
  PROVE  GoingAt(c, d, n)' /\ UNCHANGED <<mode, cancelTimeout, pageAddress, buffer, flash>>
<1>0. /\ mode = "boot" /\ pc \in {"top", "byte", "pin"} /\ NothingBack /\ n < MessageLen(d)
      /\ InTransit(c, d, n) /\ ParserAt(c, d, n)
  BY DEF GoingAt
<1>1. wire' = wire /\ got' = got
  BY DEF upVars
<1>2. /\ mode' = mode /\ cancelTimeout' = cancelTimeout /\ UNCHANGED <<pageAddress, buffer, flash>>
      /\ midiOutQueue' = midiOutQueue /\ answer' = answer /\ UNCHANGED parser
  BY DEF Look, Advance, RaisePin, interrupts, memory
<1>3. pc' \in {"top", "byte", "pin"}
  BY <1>0 DEF Look, Advance, RaisePin, NothingBack
<1>4. NothingBack' /\ ParserAt(c, d, n)'
  BY <1>0, <1>1, <1>2 DEF NothingBack, ParserAt, parser
<1>5. InTransit(c, d, n)'
  <2>1. CASE Look \/ RaisePin
    <3>1. midiByteQueue' = midiByteQueue /\ i' = i
      BY <2>1 DEF Look, RaisePin, interrupts, loop, BatchInv
    <3> QED BY <1>0, <1>1, <3>1 DEF InTransit
  <2>2. CASE Advance
    <3>1. midiByteQueue' = AfterBatch /\ i' = 0 /\ i = size
      BY <2>2 DEF Advance
    <3> DEFINE q == Len(midiByteQueue)
    <3>2. /\ Len(midiByteQueue') = q - i
          /\ \A k \in 1..(q - i) : midiByteQueue'[k] = midiByteQueue[i + k]
      <4>1. midiByteQueue \in Seq(Byte) /\ i \in Nat /\ i <= Len(midiByteQueue)
        BY Lines
      <4>2. AfterBatch = SubSeq(midiByteQueue, i + 1, Len(midiByteQueue))
        BY <3>1 DEF AfterBatch
      <4>3. /\ Len(AfterBatch) = q - i
            /\ \A k \in 1..(q - i) : AfterBatch[k] = midiByteQueue[i + k]
        BY <4>1, <4>2
      <4> QED BY <3>1, <4>3
    <3>3. q - i \in Nat /\ Len(midiByteQueue') - i' = q - i /\ \A k \in 1..(q - i) : i' + k = k
      BY <3>1, <3>2, Lines
    <3>4. /\ q - i + Len(wire) = Len(Stream(c, d)) - n
          /\ \A k \in 1..(q - i) : midiByteQueue[i + k] = Stream(c, d)[n + k]
          /\ \A k \in 1..Len(wire) : wire[k] = Stream(c, d)[n + (q - i) + k]
      BY <1>0 DEF InTransit
    <3> HIDE DEF q
    <3>5. \A k \in 1..(q - i) : midiByteQueue'[i' + k] = Stream(c, d)[n + k]
      BY <3>2, <3>3, <3>4
    <3>6. i' <= n
      BY <3>1
    <3> QED BY <1>1, <3>3, <3>4, <3>5, <3>6 DEF InTransit
  <2> QED BY <2>1, <2>2
<1> QED BY <1>0, <1>2, <1>3, <1>4, <1>5 DEF GoingAt

LEMMA DataFacts ==
  ASSUME UploadTypeOK, NEW c \in Commands, NEW addr \in FileBytes
  PROVE  /\ Data(c, addr) \in Seq(Half) /\ Len(Data(c, addr)) <= 2 * (CHUNK_SIZE + 2)
         /\ c # MIDIBOOT_FILLPAGE => Data(c, addr) = <<>>
         /\ c = MIDIBOOT_FILLPAGE => Data(c, addr) = ChunkData(image, addr)
<1>1. image \in Images \cup {Installed}
  BY UploadTypes DEF UploadParts, HostOK
<1>2. addr \in Nat /\ addr < Len(image)
  BY <1>1, FileFacts DEF FileBytes
<1>3. CASE c = MIDIBOOT_FILLPAGE
  <2>1. Data(c, addr) = ChunkData(image, addr)
    BY <1>3 DEF Data
  <2> DEFINE m == ChunkEnd(image, addr) - addr
  <2>2. m \in Int /\ m <= CHUNK_SIZE
    BY <1>1, <1>2, ChunkFacts, Sizes
  <2>3. ChunkData(image, addr) \in Seq(Half) /\ Len(ChunkData(image, addr)) = 2 * m + 4
    BY <1>1, <1>2, ChunkBytes
  <2> HIDE DEF m
  <2> QED BY <1>3, <2>1, <2>2, <2>3, Sizes
<1>4. CASE c # MIDIBOOT_FILLPAGE
  <2>1. Data(c, addr) = <<>>
    BY <1>4 DEF Data
  <2> QED BY <1>4, <2>1, Sizes
<1> QED BY <1>3, <1>4

-----------------------------------------------------------------------------
(* A reply on its way back                                                  *)

LEMMA ReplyBytes ==
  ASSUME NEW c
  PROVE  /\ Len(Reply(c)) \in Nat /\ Len(Reply(c)) >= 2 /\ Len(Reply(c)) + 1 <= MIDIOUT_BUF_SIZE
         /\ Len(Reply(c)) = MIDIBOOT_SYSEX_ID_LEN + (IF c = MIDIBOOT_GETPAGESIZE THEN 7 ELSE 2)
         /\ \A k \in 1..Len(Reply(c)) :
              /\ Reply(c)[k] = SYSEX_BEGIN <=> k = 1
              /\ Reply(c)[k] = SYSEX_END <=> k = Len(Reply(c))
<1> DEFINE s == Reply(c)
           x == IF c = MIDIBOOT_GETPAGESIZE THEN 7 ELSE 2
<1>1. Len(s) = MIDIBOOT_SYSEX_ID_LEN + x
  BY ReplyAt, Zenon
<1>2. x \in Nat /\ x >= 2 /\ x <= 7
  OBVIOUS
<1>3. s[1] = SYSEX_BEGIN /\ s[Len(s)] = SYSEX_END
  BY ReplyAt, Zenon
<1>4. \A k \in 2..(Len(s) - 1) : s[k] \in Int /\ 0 <= s[k] /\ s[k] <= 127
  <2>1. \A k \in 2..(Len(s) - 1) : s[k] \in Half
    BY ReplyAt, Zenon
  <2> QED BY <2>1, HalfRange
<1> HIDE DEF s, x
<1>5. Len(s) \in Nat /\ Len(s) >= 2 /\ Len(s) + 1 <= MIDIOUT_BUF_SIZE
  BY <1>1, <1>2, Sizes, SizeAssumption
<1>6. SYSEX_BEGIN = 240 /\ SYSEX_END = 247
  BY DEF SYSEX_BEGIN, SYSEX_END
<1>7. ASSUME NEW k \in 1..Len(s)
      PROVE  (s[k] = SYSEX_BEGIN <=> k = 1) /\ (s[k] = SYSEX_END <=> k = Len(s))
  <2>1. CASE k = 1
    BY <1>3, <1>5, <1>6, <2>1
  <2>2. CASE k = Len(s)
    BY <1>3, <1>5, <1>6, <2>2
  <2>3. CASE k # 1 /\ k # Len(s)
    <3>1. k \in 2..(Len(s) - 1)
      BY <1>5, <2>3
    <3> QED BY <1>4, <1>6, <2>3, <3>1
  <2> QED BY <2>1, <2>2, <2>3
<1> QED BY <1>1, <1>5, <1>7 DEF s, x

\* While the reply is on its way the loop can only send, or end its batch.
LEMMA AnsweringSteps ==
  ASSUME UploadTypeOK, BatchInv, NEW c \in Commands, NEW r \in Nat, AnsweringAt(c, r), MainLoop \/ Timeout
  PROVE  SendByte \/ RaisePin \/ Advance
<1>0. /\ pc \in {"send", "pin", "byte", "top"} /\ i = Len(midiByteQueue) /\ cancelTimeout /\ mode = "boot"
  BY DEF AnsweringAt
<1>1. ~ OneByte
  <2>1. i <= size /\ size <= Len(midiByteQueue) /\ i \in Nat /\ size \in Nat /\ Len(midiByteQueue) \in Nat
    BY LineSizes
  <2>2. ~ (i < size)
    BY <1>0, <2>1
  <2> QED BY <2>2 DEF OneByte
<1>2. ~ Look
  <2> SUFFICES ASSUME Look PROVE FALSE
    OBVIOUS
  <2>1. i = 0 /\ midiByteQueue # <<>>
    BY DEF Look, BatchInv
  <2> QED BY <1>0, <2>1, Lines, EmptySeq
<1>3. ~ WritePage /\ ~ Timeout
  BY <1>0 DEF WritePage, Timeout
<1> QED BY <1>1, <1>2, <1>3 DEF MainLoop, BeginByte, PrefixByte, CommandByte, DataByte, StrayByte, Leave,
        PageSize, FillPage, ErasePage, EndOfOther

LEMMA AnsweringSends ==
  ASSUME UploadTypeOK, BatchInv, NEW c \in Commands, NEW r \in Nat, AnsweringAt(c, r),
         UNCHANGED upVars, SendByte \/ RaisePin \/ Advance
  PROVE  AnsweringAt(c, r)' /\ UNCHANGED <<pageAddress, buffer, flash>>
<1> DEFINE s == Reply(c)
           g == Len(got)
           o == Len(midiOutQueue)
           a == Len(answer)
<1>0. /\ mode = "boot" /\ pc \in {"send", "pin", "byte", "top"}
      /\ wire = <<>> /\ i = Len(midiByteQueue)
      /\ pc \in {"byte", "top"} => answer = <<>>
      /\ cancelTimeout
      /\ r < Len(s)
      /\ up \in {"asking", "waiting"} /\ r >= 1 => inSysexMessage /\ sysexByteCount = r - 1
  BY DEF AnsweringAt
<1>1. /\ g + o + a = Len(s) - r
      /\ \A k \in 1..g : got[k] = s[r + k]
      /\ \A k \in 1..o : midiOutQueue[k] = s[r + g + k]
      /\ \A k \in 1..a : answer[k] = s[r + g + o + k]
  BY DEF AnsweringAt, OnWayBack
<1>2. got' = got /\ up' = up /\ wire' = wire /\ inSysexMessage' = inSysexMessage /\ sysexByteCount' = sysexByteCount
  BY DEF upVars, answered
<1>3. g \in Nat /\ o \in Nat /\ a \in Nat
  BY LineSizes
<1>4. mode' = mode /\ cancelTimeout' = cancelTimeout /\ UNCHANGED <<pageAddress, buffer, flash>>
  BY DEF SendByte, RaisePin, Advance, memory
<1>5. CASE SendByte
  <2>1. /\ pc = "send" /\ pc' = "pin" /\ midiByteQueue' = midiByteQueue /\ i' = i /\ answer' = Tail(answer)
        /\ midiOutQueue' = IF o < MIDIOUT_BUF_SIZE - 1 THEN Append(midiOutQueue, Head(answer)) ELSE midiOutQueue
    BY <1>5 DEF SendByte, loop
  <2>2. answer # <<>>
    BY <2>1 DEF BatchInv
  <2>3. a >= 1 /\ Head(answer) = answer[1] /\ Len(answer') = a - 1
        /\ \A k \in 1..Len(answer') : answer'[k] = answer[k + 1]
    BY <2>1, <2>2, Lines
  <2>4. o < MIDIOUT_BUF_SIZE - 1
    <3>1. Len(s) \in Nat /\ Len(s) + 1 <= MIDIOUT_BUF_SIZE
      BY ReplyBytes
    <3>2. g + o + a = Len(s) - r /\ a >= 1
      BY <1>1, <2>3
    <3> HIDE DEF s, g, o, a
    <3> QED BY <1>3, <3>1, <3>2, Sizes
  <2>5. midiOutQueue' = Append(midiOutQueue, Head(answer))
    BY <2>1, <2>4
  <2>6. /\ Len(midiOutQueue') = o + 1
        /\ \A k \in 1..o : midiOutQueue'[k] = midiOutQueue[k]
        /\ midiOutQueue'[o + 1] = answer[1]
    BY <2>3, <2>5, Lines
  <2>7. OnWayBack(c, r)'
    <3> HIDE DEF s, g, o, a
    <3>0. g + o + a = Len(s) - r /\ a >= 1 /\ Len(answer') = a - 1 /\ Len(midiOutQueue') = o + 1 /\ Len(got') = g
      BY <1>1, <1>2, <2>3, <2>6 DEF g
    <3>1. Len(got') + Len(midiOutQueue') + Len(answer') = Len(s) - r
      BY <1>3, <3>0
    <3>2. \A k \in 1..Len(got') : got'[k] = s[r + k]
      BY <1>1, <1>2, <3>0
    <3>3. ASSUME NEW k \in 1..Len(midiOutQueue') PROVE midiOutQueue'[k] = s[r + Len(got') + k]
      <4>1. CASE k \in 1..o
        BY <1>1, <2>6, <3>0, <4>1
      <4>2. CASE k = o + 1
        <5>1. 1 \in 1..a /\ r + g + o + 1 = r + g + k
          BY <1>3, <3>0, <4>2
        <5>2. answer[1] = s[r + g + o + 1]
          BY <1>1, <5>1
        <5> QED BY <2>6, <3>0, <4>2, <5>1, <5>2
      <4> QED BY <1>3, <3>0, <4>1, <4>2
    <3>4. ASSUME NEW k \in 1..Len(answer') PROVE answer'[k] = s[r + Len(got') + Len(midiOutQueue') + k]
      <4>1. k + 1 \in 1..a /\ r + g + o + (k + 1) = r + Len(got') + Len(midiOutQueue') + k
        BY <1>3, <3>0
      <4> QED BY <1>1, <2>3, <4>1
    <3> QED BY <3>1, <3>2, <3>3, <3>4 DEF OnWayBack, s
  <2> QED BY <1>0, <1>2, <1>4, <2>1, <2>7 DEF AnsweringAt
<1>6. CASE RaisePin
  <2>1. /\ answer' = answer /\ midiOutQueue' = midiOutQueue /\ midiByteQueue' = midiByteQueue /\ i' = i
        /\ pc' = IF answer = <<>> THEN "byte" ELSE "send"
    BY <1>6 DEF RaisePin, loop
  <2>2. OnWayBack(c, r)'
    BY <1>1, <1>2, <2>1 DEF OnWayBack
  <2> QED BY <1>0, <1>2, <1>4, <2>1, <2>2 DEF AnsweringAt
<1>7. CASE Advance
  <2>1. /\ answer' = answer /\ midiOutQueue' = midiOutQueue /\ midiByteQueue' = AfterBatch /\ i' = 0
        /\ pc = "byte" /\ pc' = "top" /\ i = size
    BY <1>7 DEF Advance
  <2>2. Len(midiByteQueue') = 0
    <3>1. AfterBatch = SubSeq(midiByteQueue, i + 1, Len(midiByteQueue)) /\ i = Len(midiByteQueue)
      BY <1>0, <2>1 DEF AfterBatch
    <3>2. midiByteQueue \in Seq(Byte)
      BY Lines
    <3> QED BY <2>1, <3>1, <3>2
  <2>3. OnWayBack(c, r)'
    BY <1>1, <1>2, <2>1 DEF OnWayBack
  <2> QED BY <1>0, <1>2, <1>4, <2>1, <2>2, <2>3 DEF AnsweringAt
<1> QED BY <1>4, <1>5, <1>6, <1>7

\* The PIC passes on all of a packet: its end, if it has one, is its last byte.
LEMMA AnsweringPolled ==
  ASSUME UploadTypeOK, BatchInv, NEW c \in Commands, NEW r \in Nat, AnsweringAt(c, r), Poll
  PROVE  AnsweringAt(c, r)' /\ UNCHANGED <<pageAddress, buffer, flash>>
<1> DEFINE s == Reply(c)
           g == Len(got)
           o == Len(midiOutQueue)
           a == Len(answer)
           p == Packet(midiOutQueue)
           n == Len(p)
<1>0. /\ mode = "boot" /\ pc \in {"send", "pin", "byte", "top"}
      /\ wire = <<>> /\ i = Len(midiByteQueue)
      /\ pc \in {"byte", "top"} => answer = <<>>
      /\ cancelTimeout
      /\ r < Len(s)
      /\ up \in {"asking", "waiting"} /\ r >= 1 => inSysexMessage /\ sysexByteCount = r - 1
  BY DEF AnsweringAt
<1>1. /\ g + o + a = Len(s) - r
      /\ \A k \in 1..g : got[k] = s[r + k]
      /\ \A k \in 1..o : midiOutQueue[k] = s[r + g + k]
      /\ \A k \in 1..a : answer[k] = s[r + g + o + k]
  BY DEF AnsweringAt, OnWayBack
<1>2. up' = up /\ wire' = wire /\ inSysexMessage' = inSysexMessage /\ sysexByteCount' = sysexByteCount
      /\ mode' = mode /\ pc' = pc /\ midiByteQueue' = midiByteQueue /\ i' = i /\ answer' = answer
      /\ cancelTimeout' = cancelTimeout /\ UNCHANGED <<pageAddress, buffer, flash>>
  BY DEF Poll, onRequestService, answered, loop, memory
<1>3. g \in Nat /\ o \in Nat /\ a \in Nat /\ Len(s) \in Nat
  BY LineSizes, ReplyBytes
<1>4. CASE ~ HasPacket(midiOutQueue)
  <2>1. got' = got /\ midiOutQueue' = midiOutQueue
    BY <1>4 DEF Poll, onRequestService
  <2>2. OnWayBack(c, r)'
    BY <1>1, <1>2, <2>1 DEF OnWayBack
  <2> QED BY <1>0, <1>2, <2>2 DEF AnsweringAt
<1>5. CASE HasPacket(midiOutQueue)
  <2>1. got' = got \o Told(p) /\ midiOutQueue' = SubSeq(midiOutQueue, n + 1, o)
    BY <1>5 DEF Poll, onRequestService
  <2>2. midiOutQueue \in Seq(Byte) /\ got \in Seq(Byte)
    BY Lines
  <2>3. /\ p \in Seq(Byte) /\ n \in Nat /\ n <= o
        /\ \A k \in 1..n : p[k] = midiOutQueue[k]
    <3> DEFINE x == IF o < 3 THEN o ELSE 3
    <3>1. p = SubSeq(midiOutQueue, 1, x)
      BY DEF Packet
    <3>2. x \in Nat /\ x <= o
      BY <1>3
    <3> HIDE DEF x
    <3>3. p \in Seq(Byte) /\ n = x /\ \A k \in 1..x : p[k] = midiOutQueue[k]
      BY <2>2, <3>1, <3>2
    <3> QED BY <3>2, <3>3
  <2> HIDE DEF p
  <2>4. Told(p) = p
    <3>1. CASE ~ \E k \in 1..Len(p) : OnlyEnd(p, k)
      BY <3>1 DEF Told
    <3>2. CASE \E k \in 1..Len(p) : OnlyEnd(p, k)
      <4>1. ASSUME NEW k \in 1..Len(p), OnlyEnd(p, k) PROVE k = Len(p)
        <5>1. p[k] = SYSEX_END
          BY <4>1 DEF OnlyEnd
        <5>2. k \in 1..o /\ r + g + k \in 1..Len(s)
          <6>1. g + o + a = Len(s) - r
            BY <1>1
          <6> HIDE DEF s, g, o, a
          <6> QED BY <1>3, <2>3, <6>1
        <5>3. s[r + g + k] = SYSEX_END
          BY <1>1, <2>3, <5>1, <5>2
        <5>4. r + g + k = Len(s)
          BY <5>2, <5>3, ReplyBytes
        <5>5. g + o + a = Len(s) - r
          BY <1>1
        <5> HIDE DEF s, g, o, a
        <5> QED BY <1>3, <2>3, <5>2, <5>4, <5>5
      <4>2. PICK k \in 1..Len(p) : k = CHOOSE j \in 1..Len(p) : OnlyEnd(p, j)
        BY <3>2
      <4>3. OnlyEnd(p, k)
        BY <3>2, <4>2
      <4>4. k = Len(p)
        BY <4>1, <4>3
      <4>5. Told(p) = SubSeq(p, 1, k)
        BY <3>2, <4>2 DEF Told
      <4> QED BY <2>3, <4>4, <4>5
    <3> QED BY <3>1, <3>2
  <2>5. got' = got \o p
    BY <2>1, <2>4
  <2>6. /\ Len(got') = g + n
        /\ \A k \in 1..g : got'[k] = got[k]
        /\ \A k \in 1..n : got'[g + k] = p[k]
    <3> DEFINE y == got \o p
    <3>1. /\ Len(y) = Len(got) + Len(p)
          /\ \A k \in 1..Len(got) : y[k] = got[k]
          /\ \A k \in 1..Len(p) : y[Len(got) + k] = p[k]
      BY ONLY <2>2, <2>3, Concat
    <3> QED BY <2>5, <3>1
  <2>7. /\ Len(midiOutQueue') = o - n
        /\ \A k \in 1..(o - n) : midiOutQueue'[k] = midiOutQueue[n + k]
    BY <2>1, <2>2, <2>3
  <2>8. OnWayBack(c, r)'
    <3> HIDE DEF s, g, o, a, n
    <3>0. /\ g + o + a = Len(s) - r /\ n \in Nat /\ n <= o /\ Len(got') = g + n
          /\ Len(midiOutQueue') = o - n /\ Len(answer') = a
      BY <1>1, <1>2, <2>3, <2>6, <2>7 DEF a
    <3>1. Len(got') + Len(midiOutQueue') + Len(answer') = Len(s) - r
      BY <1>3, <3>0
    <3>2. ASSUME NEW k \in 1..Len(got') PROVE got'[k] = s[r + k]
      <4>1. CASE k \in 1..g
        BY <1>1, <2>6, <4>1
      <4>2. CASE k > g
        <5>1. k - g \in 1..n /\ k - g \in 1..o /\ g + (k - g) = k /\ r + g + (k - g) = r + k
          BY <1>3, <3>0, <4>2
        <5> QED BY <1>1, <2>3, <2>6, <5>1
      <4> QED BY <1>3, <3>0, <4>1, <4>2
    <3>3. ASSUME NEW k \in 1..Len(midiOutQueue') PROVE midiOutQueue'[k] = s[r + Len(got') + k]
      <4>1. n + k \in 1..o /\ r + g + (n + k) = r + Len(got') + k
        BY <1>3, <3>0
      <4> QED BY <1>1, <2>7, <3>0, <4>1
    <3>4. ASSUME NEW k \in 1..Len(answer') PROVE answer'[k] = s[r + Len(got') + Len(midiOutQueue') + k]
      <4>1. k \in 1..a /\ r + g + o + k = r + Len(got') + Len(midiOutQueue') + k
        BY <1>3, <3>0
      <4> QED BY <1>1, <1>2, <4>1
    <3> QED BY <3>1, <3>2, <3>3, <3>4 DEF OnWayBack, s
  <2> QED BY <1>0, <1>2, <2>8 DEF AnsweringAt
<1> QED BY <1>2, <1>4, <1>5

\* The host reads the next byte of the reply.
LEMMA ReplyRead ==
  ASSUME UploadTypeOK, NEW c \in Commands, NEW r \in Nat, AnsweringAt(c, r), NEW state, HostReads(state)
  PROVE  /\ inByte = Reply(c)[r + 1] /\ r + 1 \in 1..Len(Reply(c))
         /\ inByte = SYSEX_BEGIN <=> r = 0
         /\ inByte = SYSEX_END <=> r + 1 = Len(Reply(c))
         /\ r + 1 = Len(Reply(c)) => got' = <<>> /\ midiOutQueue = <<>> /\ answer = <<>>
         /\ OnWayBack(c, r + 1)'
<1> DEFINE s == Reply(c)
           g == Len(got)
           o == Len(midiOutQueue)
           a == Len(answer)
<1>1. /\ g + o + a = Len(s) - r
      /\ \A k \in 1..g : got[k] = s[r + k]
      /\ \A k \in 1..o : midiOutQueue[k] = s[r + g + k]
      /\ \A k \in 1..a : answer[k] = s[r + g + o + k]
  BY DEF AnsweringAt, OnWayBack
<1>2. got \in Seq(Byte) /\ got # <<>> /\ got' = Tail(got) /\ midiOutQueue' = midiOutQueue /\ answer' = answer
  BY Reads DEF bootVars
<1>3. g \in Nat /\ o \in Nat /\ a \in Nat /\ Len(s) \in Nat
  BY LineSizes, ReplyBytes
<1>4. /\ g >= 1 /\ inByte = got[1] /\ Len(got') = g - 1
      /\ \A k \in 1..Len(got') : got'[k] = got[k + 1]
  BY <1>2 DEF inByte
<1>5. inByte = s[r + 1]
  <2>1. 1 \in 1..g
    BY <1>3, <1>4
  <2> QED BY <1>1, <1>4, <2>1
<1>0. Len(midiOutQueue') = o /\ Len(answer') = a
  BY <1>2
<1> HIDE DEF s, g, o, a
<1>6. r + 1 \in 1..Len(s) /\ r < Len(s) /\ (r + 1 = Len(s) => g = 1 /\ o = 0 /\ a = 0)
  <2>1. g + o + a = Len(s) - r /\ g >= 1
    BY <1>1, <1>4
  <2> QED BY <1>3, <2>1
<1>7. (inByte = SYSEX_BEGIN <=> r = 0) /\ (inByte = SYSEX_END <=> r + 1 = Len(s))
  BY <1>5, <1>6, ReplyBytes DEF s
<1>8. r + 1 = Len(s) => got' = <<>> /\ midiOutQueue = <<>> /\ answer = <<>>
  <2> SUFFICES ASSUME r + 1 = Len(s) PROVE got' = <<>> /\ midiOutQueue = <<>> /\ answer = <<>>
    OBVIOUS
  <2>1. Len(got') = 0 /\ Len(midiOutQueue) = 0 /\ Len(answer) = 0
    BY <1>4, <1>6 DEF o, a
  <2>2. got' \in Seq(Byte) /\ midiOutQueue \in Seq(Byte) /\ answer \in Seq(Byte)
    BY <1>2, Lines
  <2> QED BY <2>1, <2>2, EmptySeq
<1>9. OnWayBack(c, r + 1)'
  <2>0. g + o + a = Len(s) - r /\ g >= 1 /\ Len(got') = g - 1 /\ Len(midiOutQueue') = o /\ Len(answer') = a
    BY <1>0, <1>1, <1>4
  <2>1. Len(got') + Len(midiOutQueue') + Len(answer') = Len(s) - (r + 1)
    BY <1>3, <2>0
  <2>2. ASSUME NEW k \in 1..Len(got') PROVE got'[k] = s[r + 1 + k]
    <3>1. k + 1 \in 1..g /\ r + (k + 1) = r + 1 + k
      BY <1>3, <2>0
    <3> QED BY <1>1, <1>4, <3>1
  <2>3. ASSUME NEW k \in 1..Len(midiOutQueue') PROVE midiOutQueue'[k] = s[r + 1 + Len(got') + k]
    <3>1. k \in 1..o /\ r + g + k = r + 1 + Len(got') + k
      BY <1>3, <2>0
    <3> QED BY <1>1, <1>2, <3>1
  <2>4. ASSUME NEW k \in 1..Len(answer') PROVE answer'[k] = s[r + 1 + Len(got') + Len(midiOutQueue') + k]
    <3>1. k \in 1..a /\ r + g + o + k = r + 1 + Len(got') + Len(midiOutQueue') + k
      BY <1>3, <2>0
    <3> QED BY <1>1, <1>2, <3>1
  <2> QED BY <2>1, <2>2, <2>3, <2>4 DEF OnWayBack, s
<1> QED BY <1>5, <1>6, <1>7, <1>8, <1>9 DEF s

-----------------------------------------------------------------------------
(* The steps of a command                                                   *)

\* What a command leaves alone until it is carried out.
carried == <<mode, cancelTimeout, pageAddress, buffer, flash>>

LEMMA GoingTakes ==
  ASSUME UploadTypeOK, BatchInv, NEW c \in Commands, NEW d \in Seq(Half), Len(d) <= 2 * (CHUNK_SIZE + 2),
         NEW n \in Nat, GoingAt(c, d, n), UNCHANGED upVars,
         BeginByte \/ PrefixByte \/ CommandByte \/ DataByte
  PROVE  GoingAt(c, d, n + 1)' /\ UNCHANGED carried
<1>1. OneByte /\ Stay
  BY DEF BeginByte, PrefixByte, CommandByte, DataByte
<1>2. wire' = wire /\ got' = got
  BY DEF upVars
<1>3. InTransit(c, d, n + 1)'
  BY <1>1, <1>2, NextByte, Zenon
<1>4. n + 1 < MessageLen(d) /\ ParserAt(c, d, n + 1)'
  BY <1>2, ParserMoves, Zenon
<1>5. /\ UNCHANGED carried /\ pc' = "byte" /\ midiOutQueue' = midiOutQueue /\ answer' = answer
  BY <1>1 DEF OneByte, Stay, carried, memory, interrupts
<1>6. mode = "boot" /\ NothingBack
  BY DEF GoingAt
<1>7. NothingBack'
  BY <1>2, <1>5, <1>6 DEF NothingBack
<1>8. mode' = "boot"
  BY <1>5, <1>6 DEF carried
<1> QED BY <1>3, <1>4, <1>5, <1>7, <1>8 DEF GoingAt

\* No byte of a message is one outside a message, and no message ends as another.
LEMMA GoingOnly ==
  ASSUME UploadTypeOK, NEW c \in Commands, NEW d \in Seq(Half), Len(d) <= 2 * (CHUNK_SIZE + 2),
         NEW n \in Nat, GoingAt(c, d, n), UNCHANGED upVars
  PROVE  /\ ~ StrayByte /\ ~ EndOfOther /\ ~ SendByte /\ ~ WritePage
         /\ PageSize => c = MIDIBOOT_GETPAGESIZE
         /\ FillPage => c = MIDIBOOT_FILLPAGE
         /\ ErasePage => c = MIDIBOOT_WRITEPAGE
         /\ Leave => c = MIDIBOOT_LEAVE_BOOT
<1>0. wire' = wire
  BY DEF upVars
<1>1. pc \in {"top", "byte", "pin"}
  BY DEF GoingAt
<1>2. ASSUME OneByte, curByte = SYSEX_END PROVE sysexMode = c
  BY <1>0, <1>2, MessageEnds, Zenon
<1>3. c # MIDIBOOT_INVALID
  BY DEF Commands, MIDIBOOT_LEAVE_BOOT, MIDIBOOT_WRITEPAGE, MIDIBOOT_INVALID
<1>4. ~ EndOfOther
  BY <1>2, <1>3 DEF EndOfOther
<1>5. ~ StrayByte
  <2> SUFFICES ASSUME StrayByte PROVE FALSE
    OBVIOUS
  <2>1. OneByte /\ curByte # SYSEX_BEGIN /\ ~ inSysexMode
    BY DEF StrayByte
  <2>2. curByte = Stream(c, d)[n + 1] /\ n + 1 \in 1..Len(Stream(c, d))
    BY <1>0, <2>1, NextByte
  <2>3. n + 1 # 1
    BY <2>1, <2>2, StreamBytes
  <2>4. n >= 1
    BY <2>3
  <2> QED BY <2>1, <2>4, ParserOf
<1>6. ~ SendByte /\ ~ WritePage
  BY <1>1 DEF SendByte, WritePage
<1>7. PageSize => c = MIDIBOOT_GETPAGESIZE
  BY <1>2 DEF PageSize, Ended
<1>8. FillPage => c = MIDIBOOT_FILLPAGE
  BY <1>2 DEF FillPage, Ended
<1>9. ErasePage => c = MIDIBOOT_WRITEPAGE
  BY <1>2 DEF ErasePage, Ended
<1>10. Leave => c = MIDIBOOT_LEAVE_BOOT
  BY <1>2 DEF Leave, Ended
<1> QED BY <1>4, <1>5, <1>6, <1>7, <1>8, <1>9, <1>10

LEMMA GoingMoves ==
  ASSUME UploadTypeOK, BatchInv, NEW c \in Commands, NEW d \in Seq(Half), Len(d) <= 2 * (CHUNK_SIZE + 2),
         NEW n \in Nat, GoingAt(c, d, n), UNCHANGED upVars, MainLoop
  PROVE  \/ UNCHANGED carried /\ \E m \in Nat : GoingAt(c, d, m)'
         \/ PageSize \/ FillPage \/ ErasePage \/ Leave
<1>1. CASE Look \/ Advance \/ RaisePin
  <2>1. GoingAt(c, d, n)' /\ UNCHANGED <<mode, cancelTimeout, pageAddress, buffer, flash>>
    BY <1>1, GoingLoop, Zenon
  <2> QED BY <2>1 DEF carried
<1>2. CASE BeginByte \/ PrefixByte \/ CommandByte \/ DataByte
  <2>1. GoingAt(c, d, n + 1)' /\ UNCHANGED carried
    BY <1>2, GoingTakes, Zenon
  <2>2. n + 1 \in Nat
    OBVIOUS
  <2> QED BY <2>1, <2>2
<1>3. ~ StrayByte /\ ~ EndOfOther /\ ~ SendByte /\ ~ WritePage
  BY GoingOnly, Zenon
<1> QED BY <1>1, <1>2, <1>3 DEF MainLoop

\* An answer begins.
LEMMA AnswerStarts ==
  ASSUME NEW c, UNCHANGED <<mode, wire, got, midiOutQueue>>,
         mode = "boot", NothingBack, wire = <<>>, i' = Len(midiByteQueue'), cancelTimeout',
         pc' = "send", answer' = Reply(c)
  PROVE  AnsweringAt(c, 0)'
<1>1. got' = <<>> /\ midiOutQueue' = <<>> /\ wire' = <<>> /\ mode' = "boot"
  BY DEF NothingBack
<1>2. Len(Reply(c)) \in Nat /\ Len(Reply(c)) >= 2
  BY ReplyBytes
<1>3. 0 < Len(Reply(c))
  BY <1>2
<1>4. OnWayBack(c, 0)'
  <2>1. Len(got') = 0 /\ Len(midiOutQueue') = 0
    BY <1>1
  <2>2. Len(got') + Len(midiOutQueue') + Len(answer') = Len(Reply(c)) - 0
    BY <1>2, <2>1
  <2>3. \A k \in 1..Len(answer') : answer'[k] = Reply(c)[0 + Len(got') + Len(midiOutQueue') + k]
    BY <2>1
  <2>4. 1..Len(got') = {} /\ 1..Len(midiOutQueue') = {}
    BY <2>1
  <2> QED BY <2>2, <2>3, <2>4 DEF OnWayBack
<1>5. ~ (0 >= 1)
  OBVIOUS
<1> QED BY <1>1, <1>3, <1>4, <1>5 DEF AnsweringAt

LEMMA ReplyOf ==
  ASSUME NEW c
  PROVE  Reply(c) = <<SYSEX_BEGIN>> \o midiboot_sysex_id \o
           (IF c = MIDIBOOT_GETPAGESIZE
            THEN <<MIDIBOOT_GETPAGESIZE>> \o Nibbles(SPM_PAGESIZE \div 256)
                   \o Nibbles(SPM_PAGESIZE % 256) \o Ack
            ELSE Ack)
BY DEF Reply

LEMMA GoingPageSize ==
  ASSUME UploadTypeOK, NEW c \in Commands, NEW d \in Seq(Half), Len(d) <= 2 * (CHUNK_SIZE + 2),
         NEW n \in Nat, GoingAt(c, d, n), UNCHANGED upVars, PageSize, d = <<>>
  PROVE  AnsweringAt(c, 0)' /\ UNCHANGED <<pageAddress, buffer, flash>>
<1>0. wire' = wire /\ got' = got
  BY DEF upVars
<1>1. OneByte /\ curByte = SYSEX_END /\ UNCHANGED <<mode, pageAddress, buffer, flash>>
  BY DEF PageSize, Ended, memory
<1>2. c = MIDIBOOT_GETPAGESIZE
  BY GoingOnly, Zenon
<1>3. inByteIndex = 1 + MIDIBOOT_SYSEX_ID_LEN + Len(d)
  BY <1>0, <1>1, MessageEnds, Zenon
<1>4. inByteIndex = 1 + MIDIBOOT_SYSEX_ID_LEN
  BY <1>3, Sizes
<1>5. cancelTimeout' /\ Answer(<<MIDIBOOT_GETPAGESIZE>> \o Nibbles(SPM_PAGESIZE \div 256)
                      \o Nibbles(SPM_PAGESIZE % 256) \o Ack)
  BY <1>4 DEF PageSize
<1>6. pc' = "send" /\ answer' = Reply(c)
  BY <1>2, <1>5, ReplyOf DEF Answer
<1>7. c # MIDIBOOT_LEAVE_BOOT
  BY <1>2 DEF MIDIBOOT_GETPAGESIZE, MIDIBOOT_LEAVE_BOOT
<1>8. wire = <<>> /\ i + 1 = Len(midiByteQueue)
  BY <1>0, <1>1, <1>7, MessageEnds, Zenon
<1>9. i' = Len(midiByteQueue') /\ midiOutQueue' = midiOutQueue
  BY <1>1, <1>8 DEF OneByte, interrupts
<1>10. mode = "boot" /\ NothingBack
  BY DEF GoingAt
<1> QED BY <1>0, <1>1, <1>5, <1>6, <1>8, <1>9, <1>10, AnswerStarts, Zenon

\* The command to leave is the last thing in the queue but the reset.
LEMMA GoingLeaves ==
  ASSUME UploadTypeOK, NEW c \in Commands, NEW d \in Seq(Half), Len(d) <= 2 * (CHUNK_SIZE + 2),
         NEW n \in Nat, GoingAt(c, d, n), UNCHANGED upVars, Leave \/ Timeout
  PROVE  Quiet'
<1>1. wire' = wire /\ got' = got /\ mode' = "app" /\ answer' = answer /\ midiOutQueue' = midiOutQueue
  BY DEF upVars, Leave, Timeout, OneByte, interrupts
<1>2. NothingBack
  BY DEF GoingAt
<1>3. \A k \in 1..Len(wire) : wire[k] = RESET => k = Len(wire)
  BY ResetLast, Zenon
<1> QED BY <1>1, <1>2, <1>3 DEF Quiet, NothingBack

\* While a message is on its way there is nothing to fetch.
LEMMA GoingPolled ==
  ASSUME NEW c, NEW d, NEW n, GoingAt(c, d, n), Poll
  PROVE  GoingAt(c, d, n)' /\ UNCHANGED carried
<1>1. midiOutQueue = <<>> /\ NothingBack
  BY DEF GoingAt, NothingBack
<1>2. ~ HasPacket(midiOutQueue)
  <2>1. Len(midiOutQueue) = 0
    BY <1>1
  <2> QED BY <2>1 DEF HasPacket
<1>3. /\ got' = got /\ wire' = wire /\ midiOutQueue' = midiOutQueue
      /\ UNCHANGED <<mode, pc, midiByteQueue, loop, answer, parser, cancelTimeout, memory>>
  BY <1>2 DEF Poll, onRequestService
<1>4. InTransit(c, d, n)' /\ ParserAt(c, d, n)' /\ NothingBack'
  BY <1>1, <1>3 DEF GoingAt, InTransit, ParserAt, NothingBack, loop, parser
<1> QED BY <1>3, <1>4 DEF GoingAt, carried, memory

-----------------------------------------------------------------------------
(* The page buffer and the flash                                            *)

LEMMA HostFacts ==
  ASSUME UploadTypeOK
  PROVE  /\ image \in Images \cup {Installed} /\ Len(image) \in Nat /\ Len(image) >= 1
         /\ sent \in Nat /\ sent <= Len(image) /\ filled \in BOOLEAN
         /\ Len(image) <= Pages * SPM_PAGESIZE /\ Len(image) <= 65536
         /\ \A k \in 1..Len(image) : image[k] \in Byte
<1>1. image \in Images \cup {Installed} /\ sent \in 0..Len(image) /\ filled \in BOOLEAN
  BY UploadTypes DEF UploadParts, HostOK, SentOK
<1> QED BY <1>1, FileFacts

LEMMA FileByte ==
  ASSUME UploadTypeOK, NEW k
  PROVE  /\ k \in FileBytes <=> k \in Nat /\ k < Len(image)
         /\ k \in FileBytes => image[k + 1] \in Byte /\ Pg(k) \in Page /\ Of(k) \in Offset
<1>1. k \in FileBytes <=> k \in Nat /\ k < Len(image)
  BY HostFacts DEF FileBytes
<1>2. ASSUME k \in FileBytes PROVE image[k + 1] \in Byte /\ Pg(k) \in Page /\ Of(k) \in Offset
  <2>1. k \in Nat /\ k + 1 \in 1..Len(image) /\ k < Pages * SPM_PAGESIZE
    BY <1>1, <1>2, HostFacts, Sizes
  <2> QED BY <2>1, HostFacts, PageFacts
<1> QED BY <1>1, <1>2

\* What the fill command makes of its data.
LEMMA Unpacking ==
  ASSUME UploadTypeOK, NEW a \in FileBytes, NEW m, m = ChunkEnd(image, a) - a,
         Len(tmpPackedData) = Len(ChunkData(image, a)),
         \A k \in 1..Len(tmpPackedData) : tmpPackedData[k] = ChunkData(image, a)[k]
  PROVE  /\ m \in Nat /\ m >= 1 /\ UnpackedSize = m + 2 /\ UnpackedSize <= MaxUnpacked
         /\ Len(tmpPackedData) > 0
         /\ writeStartAddr = a
         /\ \A j \in 1..m : unpacked(2 + j) = image[a + j]
<1> DEFINE d == ChunkData(image, a)
<1>1. a \in Nat /\ a < Len(image) /\ image \in Images \cup {Installed} /\ a <= 65535
  BY FileByte, HostFacts
<1>2. /\ ChunkEnd(image, a) \in Nat /\ a < ChunkEnd(image, a) /\ ChunkEnd(image, a) <= Len(image)
      /\ ChunkEnd(image, a) <= a + CHUNK_SIZE
  BY <1>1, ChunkFacts
<1>3. m \in Nat /\ m >= 1 /\ m <= CHUNK_SIZE /\ a + m <= Len(image)
  <2> DEFINE z == ChunkEnd(image, a)
             l == Len(image)
  <2>1. a \in Nat /\ z \in Nat /\ l \in Nat /\ CHUNK_SIZE \in Nat
    BY <1>1, <1>2, Sizes, HostFacts
  <2>2. a < z /\ z <= l /\ z <= a + CHUNK_SIZE /\ m = z - a
    BY <1>2
  <2> HIDE DEF z, l
  <2>3. m \in Nat /\ m >= 1 /\ m <= CHUNK_SIZE /\ a + m <= l
    BY ONLY <2>1, <2>2
  <2> QED BY ONLY <2>3 DEF l
<1>4. /\ Len(d) = 2 * m + 4
      /\ d[1] * 16 + d[2] = a \div 256
      /\ d[3] * 16 + d[4] = a % 256
      /\ \A j \in 1..m : d[2 * j + 3] * 16 + d[2 * j + 4] = image[a + j]
  <2>1. m = ChunkEnd(image, a) - a
    OBVIOUS
  <2> QED BY ONLY <1>1, <2>1, ChunkBytes
<1> HIDE DEF d
<1>5. Len(tmpPackedData) = 2 * m + 4 /\ \A k \in 1..(2 * m + 4) : tmpPackedData[k] = d[k]
  BY <1>4 DEF d
<1>6. UnpackedSize = m + 2 /\ UnpackedSize <= MaxUnpacked /\ Len(tmpPackedData) > 0
  <2>1. (2 * m + 4) \div 2 = m + 2
    BY <1>3
  <2>2. m + 2 <= MaxUnpacked
    BY <1>3, Sizes, SizeAssumption
  <2> QED BY <1>3, <1>5, <2>1, <2>2 DEF UnpackedSize
<1>7. unpacked(1) = a \div 256 /\ unpacked(2) = a % 256
  <2>1. 1 \in 1..(2 * m + 4) /\ 2 \in 1..(2 * m + 4) /\ 3 \in 1..(2 * m + 4) /\ 4 \in 1..(2 * m + 4)
    BY <1>3
  <2>2. tmpPackedData[1] * 16 + tmpPackedData[2] = a \div 256 /\ tmpPackedData[3] * 16 + tmpPackedData[4] = a % 256
    BY <1>4, <1>5, <2>1
  <2>3. (a \div 256) % 256 = a \div 256 /\ (a % 256) % 256 = a % 256
    BY <1>1
  <2>4. 2 * 1 - 1 = 1 /\ 2 * 1 = 2 /\ 2 * 2 - 1 = 3 /\ 2 * 2 = 4
    OBVIOUS
  <2> QED BY <2>2, <2>3, <2>4 DEF unpacked
<1>8. writeStartAddr = a
  <2>1. (a \div 256) * 256 + (a % 256) = a
    BY <1>1, AddressBytes
  <2> QED BY <1>7, <2>1 DEF writeStartAddr
<1>9. ASSUME NEW j \in 1..m PROVE unpacked(2 + j) = image[a + j]
  <2>1. /\ 2 * j + 3 \in 1..(2 * m + 4) /\ 2 * j + 4 \in 1..(2 * m + 4)
        /\ 2 * (2 + j) - 1 = 2 * j + 3 /\ 2 * (2 + j) = 2 * j + 4 /\ a + j \in 1..Len(image)
    BY <1>1, <1>3
  <2>2. tmpPackedData[2 * j + 3] * 16 + tmpPackedData[2 * j + 4] = image[a + j]
    BY <1>4, <1>5, <2>1
  <2>3. image[a + j] \in Byte
    BY <2>1, HostFacts
  <2>4. image[a + j] % 256 = image[a + j]
    <3>1. image[a + j] \in Int /\ 0 <= image[a + j] /\ image[a + j] <= 255
      BY <2>3, ByteRange
    <3> QED BY <3>1
  <2> QED BY <2>1, <2>2, <2>4 DEF unpacked
<1> QED BY <1>3, <1>6, <1>8, <1>9

\* A fill adds its chunk to what the buffer has of the page.
LEMMA FilledHolds ==
  ASSUME UploadTypeOK, NEW a \in FileBytes, a % 2 = 0, NEW stale, BufferHolds(Pg(a), a),
         NEW e, e = ChunkEnd(image, a),
         Len(tmpPackedData) = Len(ChunkData(image, a)),
         \A k \in 1..Len(tmpPackedData) : tmpPackedData[k] = ChunkData(image, a)[k],
         NEW k \in Nat, Pg(k) = Pg(a)
  PROVE  /\ k < e => Filled(stale)[Of(k)] = image[k + 1]
         /\ k >= e /\ e < Len(image) => Filled(stale)[Of(k)] = -1
<1> DEFINE m == e - a
           o == Of(k)
           t == 3 + ((o - a) % SPM_PAGESIZE)
           z == UnpackedSize + (UnpackedSize % 2)
<1>1. a \in Nat /\ a < Len(image) /\ image \in Images \cup {Installed} /\ Len(image) \in Nat
  BY FileByte, HostFacts
<1>2. e \in Nat /\ a < e /\ e <= Len(image) /\ (e < Len(image) => (e - a) % 2 = 0)
  BY <1>1, ChunkFacts
<1>3. m \in Nat /\ m >= 1 /\ UnpackedSize = m + 2 /\ writeStartAddr = a
      /\ \A j \in 1..m : unpacked(2 + j) = image[a + j]
  <2>1. m = ChunkEnd(image, a) - a
    OBVIOUS
  <2> HIDE DEF m
  <2> QED BY <2>1, Unpacking, Zenon
<1>4. o \in Offset /\ (Pg(a) = Pg(k) /\ a <= k => (Of(k) - a) % SPM_PAGESIZE = k - a)
  <2>1. o \in Offset
    BY Places, Zenon
  <2>2. ASSUME Pg(a) = Pg(k), a <= k PROVE (Of(k) - a) % SPM_PAGESIZE = k - a
    BY <1>1, <2>2, PlaceInPage, Zenon
  <2> QED BY <2>1, <2>2, Zenon
<1>5. Filled(stale)[o] = IF buffer[o] # -1 \/ t > z THEN buffer[o]
                         ELSE IF t > UnpackedSize THEN stale ELSE unpacked(t)
  BY <1>3, <1>4 DEF Filled
<1> HIDE DEF t, z, o, m
<1>6. CASE k < a
  <2>1. buffer[o] = image[k + 1]
    BY <1>6 DEF BufferHolds, o
  <2>2. image[k + 1] # -1
    <3>0. k < Len(image)
      BY <1>1, <1>6
    <3>1. k \in FileBytes
      BY <3>0, FileByte, Zenon
    <3>2. image[k + 1] \in Byte
      BY <3>1, FileByte
    <3>3. image[k + 1] >= 0
      BY <3>2, ByteRange
    <3> QED BY <3>3
  <2>3. Filled(stale)[o] = image[k + 1]
    BY <1>5, <2>1, <2>2
  <2>4. ~ (k >= e)
    <3>1. a \in Nat /\ e \in Nat /\ a < e
      BY <1>1, <1>2
    <3> QED BY ONLY <1>6, <3>1, k \in Nat
  <2> QED BY <2>3, <2>4, Zenon DEF o
<1>7. CASE k >= a
  <2>1. buffer[o] = -1
    BY <1>1, <1>7 DEF BufferHolds, o
  <2>2. t = 3 + (k - a)
    BY <1>1, <1>4, <1>7 DEF t, o
  <2>3. CASE k < e
    <3>1. k - a + 1 \in 1..m /\ t = 2 + (k - a + 1) /\ a + (k - a + 1) = k + 1 /\ t <= UnpackedSize
      <4>1. e \in Nat /\ a \in Nat /\ UnpackedSize = (e - a) + 2 /\ m = e - a
        BY <1>1, <1>2, <1>3 DEF m
      <4> QED BY ONLY <1>7, <2>2, <2>3, <4>1, k \in Nat
    <3>2. unpacked(t) = image[k + 1]
      BY <1>3, <3>1
    <3>3. ~ (t > z) /\ ~ (t > UnpackedSize)
      <4>1. UnpackedSize \in Nat /\ UnpackedSize % 2 >= 0 /\ UnpackedSize % 2 \in Nat
        BY <1>3
      <4> QED BY <1>1, <2>2, <3>1, <4>1 DEF z
    <3>4. Filled(stale)[o] = image[k + 1]
      BY <1>5, <2>1, <3>2, <3>3
    <3> QED BY <1>2, <2>3, <3>4 DEF o
  <2>4. CASE k >= e
    <3>1. ASSUME e < Len(image) PROVE Filled(stale)[o] = -1
      <4>1. m % 2 = 0
        BY <1>2, <3>1 DEF m
      <4>2. (m + 2) % 2 = 0
        BY <1>3, <4>1
      <4>3. z = m + 2
        BY <1>3, <4>2 DEF z
      <4>4. t > z
        BY <1>1, <1>2, <2>2, <2>4, <4>3 DEF m
      <4> QED BY <1>5, <2>1, <4>4
    <3> QED BY <1>2, <2>4, <3>1 DEF o
  <2> QED BY <1>2, <2>3, <2>4
<1> QED BY <1>1, <1>6, <1>7

\* The fill command is carried out.
LEMMA GoingFills ==
  ASSUME UploadTypeOK, NEW a \in FileBytes, NEW d, d = Data(MIDIBOOT_FILLPAGE, a),
         NEW n \in Nat, GoingAt(MIDIBOOT_FILLPAGE, d, n),
         Meant(MIDIBOOT_FILLPAGE, a), Before(MIDIBOOT_FILLPAGE, a), UNCHANGED upVars, FillPage
  PROVE  AnsweringAt(MIDIBOOT_FILLPAGE, 0)' /\ After(MIDIBOOT_FILLPAGE, a)' /\ flash' = flash
<1> DEFINE c == MIDIBOOT_FILLPAGE
<1>0. wire' = wire /\ got' = got /\ up' = up /\ image' = image /\ sent' = sent /\ filled' = filled
  BY DEF upVars, it
<1>1. c \in Commands /\ c # MIDIBOOT_LEAVE_BOOT /\ c # MIDIBOOT_GETPAGESIZE /\ c # MIDIBOOT_WRITEPAGE
  BY DEF Commands, MIDIBOOT_FILLPAGE, MIDIBOOT_LEAVE_BOOT, MIDIBOOT_GETPAGESIZE, MIDIBOOT_WRITEPAGE
<1>2. d \in Seq(Half) /\ Len(d) <= 2 * (CHUNK_SIZE + 2) /\ d = ChunkData(image, a)
  BY <1>1, DataFacts
<1>3. OneByte /\ curByte = SYSEX_END
  BY DEF FillPage, Ended
<1>4. /\ Len(tmpPackedData) = Len(d) /\ \A k \in 1..Len(d) : tmpPackedData[k] = d[k]
      /\ wire = <<>> /\ i + 1 = Len(midiByteQueue)
  BY <1>0, <1>1, <1>2, <1>3, MessageEnds, Zenon
<1>5. Len(tmpPackedData) = Len(ChunkData(image, a))
      /\ \A k \in 1..Len(tmpPackedData) : tmpPackedData[k] = ChunkData(image, a)[k]
  BY <1>2, <1>4, Zenon
<1>6. UnpackedSize <= MaxUnpacked /\ Len(tmpPackedData) > 0 /\ writeStartAddr = a
  BY <1>5, Unpacking
<1>7. /\ pageAddress' = Pg(a) /\ \E stale \in Stale : buffer' = Filled(stale)
      /\ Answer(Ack) /\ mode' = mode /\ cancelTimeout' = cancelTimeout /\ flash' = flash
  BY <1>6 DEF FillPage, Pg
<1>8. AnsweringAt(c, 0)'
  <2>1. pc' = "send" /\ answer' = Reply(c)
    BY <1>1, <1>7, ReplyOf DEF Answer
  <2>2. i' = Len(midiByteQueue') /\ midiOutQueue' = midiOutQueue
    BY <1>3, <1>4 DEF OneByte, interrupts
  <2>3. mode = "boot" /\ NothingBack /\ cancelTimeout
    BY DEF GoingAt, Before
  <2> QED BY <1>0, <1>4, <1>7, <2>1, <2>2, <2>3, AnswerStarts, Zenon
<1>9. After(c, a)'
  <2>1. up' # "asking"
    BY <1>0, <1>1 DEF Meant
  <2>2. ASSUME up' = "waiting" PROVE BufferHolds(Pg(a), sent)' /\ pageAddress' = Pg(a)
    <3>1. up = "waiting"
      BY <1>0, <2>2
    <3>2. a % 2 = 0 /\ sent = ChunkEnd(image, a)
      BY <1>1, <3>1 DEF Meant
    <3>3. BufferHolds(Pg(a), a)
      BY <3>1 DEF Before
    <3>4. PICK stale \in Stale : buffer' = Filled(stale)
      BY <1>7
    <3>5. ASSUME NEW k \in Nat, Pg(k) = Pg(a)
          PROVE  /\ k < sent => buffer'[Of(k)] = image[k + 1]
                 /\ k >= sent /\ sent < Len(image) => buffer'[Of(k)] = -1
      BY <1>5, <3>2, <3>3, <3>4, <3>5, FilledHolds
    <3>6. BufferHolds(Pg(a), sent)'
      BY <1>0, <3>5 DEF BufferHolds, Pg, Of
    <3> QED BY <1>7, <3>6
  <2> QED BY <1>1, <2>1, <2>2 DEF After, Pg
<1> QED BY <1>7, <1>8, <1>9

\* A write changes the page that was filled and no other.
LEMMA OtherPages ==
  ASSUME UploadTypeOK, NEW p, NEW new, flash' = [flash EXCEPT ![p] = new],
         NEW k \in FileBytes, image' = image, Pg(k) # p, InFlash(k)
  PROVE  InFlash(k)'
<1>1. flash \in [Page -> [Offset -> Byte]] /\ Pg(k) \in Page
  BY UploadTypes, BootTypes, FileByte DEF UploadParts, TypeParts, MemoryOK
<1>2. flash'[Pg(k)] = flash[Pg(k)]
  BY <1>1
<1> QED BY <1>2 DEF InFlash, Pg, Of

\* The write command: the page is erased,
LEMMA GoingErases ==
  ASSUME UploadTypeOK, NEW a \in FileBytes, NEW d, d = Data(MIDIBOOT_WRITEPAGE, a),
         NEW n \in Nat, GoingAt(MIDIBOOT_WRITEPAGE, d, n),
         Meant(MIDIBOOT_WRITEPAGE, a), Before(MIDIBOOT_WRITEPAGE, a), Acknowledged,
         UNCHANGED upVars, ErasePage
  PROVE  Erasing' /\ Before(MIDIBOOT_WRITEPAGE, a)' /\ Acknowledged'
<1> DEFINE c == MIDIBOOT_WRITEPAGE
<1>0. wire' = wire /\ got' = got /\ up' = up /\ image' = image /\ sent' = sent /\ filled' = filled
  BY DEF upVars, it
<1>1. c \in Commands /\ c # MIDIBOOT_LEAVE_BOOT /\ c # MIDIBOOT_GETPAGESIZE /\ c # MIDIBOOT_FILLPAGE
  BY DEF Commands, MIDIBOOT_FILLPAGE, MIDIBOOT_LEAVE_BOOT, MIDIBOOT_GETPAGESIZE, MIDIBOOT_WRITEPAGE
<1>2. d \in Seq(Half) /\ Len(d) <= 2 * (CHUNK_SIZE + 2)
  BY <1>1, DataFacts
<1>3. /\ OneByte /\ curByte = SYSEX_END /\ pc' = "erased"
      /\ UNCHANGED <<mode, answer, cancelTimeout, pageAddress, buffer>>
      /\ flash' = [flash EXCEPT ![pageAddress] = [o \in Offset |-> Unfilled]]
  BY DEF ErasePage, Ended
<1>4. wire = <<>> /\ i + 1 = Len(midiByteQueue)
  BY <1>0, <1>1, <1>2, <1>3, MessageEnds, Zenon
<1>5. Erasing'
  <2>1. mode = "boot" /\ NothingBack
    BY DEF GoingAt
  <2>2. i' = Len(midiByteQueue') /\ midiOutQueue' = midiOutQueue
    BY <1>3, <1>4 DEF OneByte, interrupts
  <2> QED BY <1>0, <1>3, <1>4, <2>1, <2>2 DEF Erasing, NothingBack
<1>6. Before(c, a)'
  BY <1>0, <1>1, <1>3 DEF Before, BufferHolds, Pg, Of
<1>7. up # "done"
  BY <1>1 DEF Meant
<1>8. ASSUME up = "waiting", NEW k \in FileBytes, Pg(k) < Pg(sent - 1) PROVE InFlash(k)'
  <2>1. InFlash(k) /\ sent >= 1
    BY <1>8 DEF Acknowledged
  <2>2. pageAddress = Pg(sent - 1)
    BY <1>1, <1>8 DEF Before
  <2>3. Pg(k) # pageAddress
    <3>1. k \in Nat /\ sent - 1 \in Nat
      BY <2>1, FileByte, HostFacts
    <3>2. Pg(k) \in Nat /\ Pg(sent - 1) \in Nat
      BY <3>1, Places
    <3> QED BY ONLY <1>8, <2>2, <3>2
  <2> QED BY <1>0, <1>3, <2>1, <2>3, OtherPages, Zenon
<1>9. Acknowledged'
  BY <1>0, <1>7, <1>8 DEF Acknowledged, FileBytes, Pg
<1> QED BY <1>5, <1>6, <1>9

\* and then written.
LEMMA ErasingWrites ==
  ASSUME UploadTypeOK, NEW a \in FileBytes, Erasing,
         Meant(MIDIBOOT_WRITEPAGE, a), Before(MIDIBOOT_WRITEPAGE, a), Acknowledged,
         UNCHANGED upVars, WritePage
  PROVE  AnsweringAt(MIDIBOOT_WRITEPAGE, 0)' /\ After(MIDIBOOT_WRITEPAGE, a)' /\ Acknowledged'
<1> DEFINE c == MIDIBOOT_WRITEPAGE
           new == [o \in Offset |-> IF buffer[o] = -1 THEN Unfilled ELSE buffer[o]]
<1>0. wire' = wire /\ got' = got /\ up' = up /\ image' = image /\ sent' = sent /\ filled' = filled
  BY DEF upVars, it
<1>1. c \in Commands /\ c # MIDIBOOT_LEAVE_BOOT /\ c # MIDIBOOT_GETPAGESIZE /\ c # MIDIBOOT_FILLPAGE
  BY DEF Commands, MIDIBOOT_FILLPAGE, MIDIBOOT_LEAVE_BOOT, MIDIBOOT_GETPAGESIZE, MIDIBOOT_WRITEPAGE
<1>2. /\ mode' = mode /\ cancelTimeout' = cancelTimeout /\ pageAddress' = pageAddress
      /\ midiByteQueue' = midiByteQueue /\ midiOutQueue' = midiOutQueue /\ i' = i
      /\ flash' = [flash EXCEPT ![pageAddress] = new] /\ buffer' = EmptyBuffer /\ Answer(Ack)
  BY DEF WritePage, interrupts, loop
<1> HIDE DEF new
<1>3. AnsweringAt(c, 0)'
  <2>1. pc' = "send" /\ answer' = Reply(c)
    BY <1>1, <1>2, ReplyOf DEF Answer
  <2>2. mode = "boot" /\ NothingBack /\ wire = <<>> /\ i' = Len(midiByteQueue')
    BY <1>2 DEF Erasing
  <2>3. cancelTimeout'
    BY <1>2 DEF Before
  <2> QED BY <1>0, <1>2, <2>1, <2>2, <2>3, AnswerStarts, Zenon
<1>4. ASSUME up = "waiting", NEW k \in FileBytes, k < sent, Pg(k) = Pg(sent - 1) PROVE InFlash(k)'
  <2>1. BufferHolds(Pg(sent - 1), sent) /\ pageAddress = Pg(sent - 1)
    BY <1>1, <1>4 DEF Before
  <2>2. k \in Nat /\ image[k + 1] \in Byte /\ Pg(k) \in Page /\ Of(k) \in Offset
    BY FileByte, Zenon
  <2>3. buffer[Of(k)] = image[k + 1]
    BY <1>4, <2>1, <2>2 DEF BufferHolds
  <2>4. image[k + 1] # -1
    <3>1. image[k + 1] >= 0
      BY <2>2, ByteRange
    <3> QED BY <3>1
  <2>5. new[Of(k)] = image[k + 1]
    BY <2>2, <2>3, <2>4 DEF new
  <2>6. flash'[Pg(k)] = new
    <3>1. flash \in [Page -> [Offset -> Byte]]
      BY UploadTypes, BootTypes DEF UploadParts, TypeParts, MemoryOK
    <3> QED BY <1>2, <1>4, <2>1, <2>2, <3>1
  <2> QED BY <1>0, <2>5, <2>6 DEF InFlash, Pg, Of
<1>5. After(c, a)'
  <2>1. up' # "asking"
    BY <1>0, <1>1 DEF Meant
  <2> QED BY <1>0, <1>1, <1>2, <1>4, <2>1 DEF After, FileBytes, Pg
<1>6. up # "done"
  BY <1>1 DEF Meant
<1>7. ASSUME up = "waiting", NEW k \in FileBytes, Pg(k) < Pg(sent - 1) PROVE InFlash(k)'
  <2>1. InFlash(k) /\ sent >= 1
    BY <1>7 DEF Acknowledged
  <2>2. pageAddress = Pg(sent - 1)
    BY <1>1, <1>7 DEF Before
  <2>3. Pg(k) # pageAddress
    <3>1. k \in Nat /\ sent - 1 \in Nat
      BY <2>1, FileByte, HostFacts
    <3>2. Pg(k) \in Nat /\ Pg(sent - 1) \in Nat
      BY <3>1, Places
    <3> QED BY ONLY <1>7, <2>2, <3>2
  <2> QED BY <1>0, <1>2, <2>1, <2>3, OtherPages, Zenon
<1>8. Acknowledged'
  BY <1>0, <1>6, <1>7 DEF Acknowledged, FileBytes, Pg
<1> QED BY <1>3, <1>5, <1>8

-----------------------------------------------------------------------------
(* The next message                                                         *)

LEMMA MessageStarts ==
  ASSUME UploadTypeOK, NEW c \in Commands, NEW d \in Seq(Half), Len(d) <= 2 * (CHUNK_SIZE + 2),
         mode = "boot", pc \in {"top", "byte", "pin"}, i = Len(midiByteQueue),
         UNCHANGED <<mode, pc, midiByteQueue, i>>, NothingBack', wire' = Stream(c, d)
  PROVE  GoingAt(c, d, 0)'
<1>1. /\ MessageLen(d) = MIDIBOOT_SYSEX_ID_LEN + Len(d) + 3 /\ Len(d) \in Nat /\ MIDIBOOT_SYSEX_ID_LEN \in Nat
      /\ Len(Stream(c, d)) \in Nat
  BY StreamSizes, Sizes
<1>2. 0 < MessageLen(d) /\ ~ (0 >= MIDIBOOT_SYSEX_ID_LEN + 2) /\ ~ (0 >= 1)
  BY <1>1
<1>3. Len(midiByteQueue') - i' = 0
  BY LineSizes
<1>4. /\ Len(midiByteQueue') - i' + Len(wire') = Len(Stream(c, d)) - 0
      /\ ~ (Len(wire') < Len(Stream(c, d)))
  BY <1>1, <1>3
<1>5. \A k \in 1..Len(wire') : wire'[k] = Stream(c, d)[0 + (Len(midiByteQueue') - i') + k]
  BY <1>3
<1>6. 1..(Len(midiByteQueue') - i') = {}
  BY <1>3
<1>7. InTransit(c, d, 0)'
  BY <1>4, <1>5, <1>6 DEF InTransit
<1>8. ParserAt(c, d, 0)'
  BY <1>2, Zenon DEF ParserAt
<1> QED BY <1>2, <1>7, <1>8 DEF GoingAt

\* A command without data, as the host sends it.
LEMMA Bare ==
  ASSUME NEW c \in Commands
  PROVE  Stream(c, <<>>) = IF c = MIDIBOOT_LEAVE_BOOT THEN Message(<<c>>) \o <<RESET>> ELSE Message(<<c>>)
<1>1. Message(<<c>>) \in Seq(Byte) /\ <<c>> \o <<>> = <<c>>
  BY CommandMessageType
<1>2. Message(<<c>>) \o <<>> = Message(<<c>>)
  BY <1>1
<1> QED BY <1>1, <1>2 DEF Stream

\* Pages in their order.
LEMMA PageOrder ==
  ASSUME NEW j \in Nat, NEW k \in Nat
  PROVE  /\ j <= k => Pg(j) <= Pg(k)
         /\ Of(k) = 0 /\ j < k => Pg(j) < Pg(k)
         /\ Pg(j) \in Nat /\ Pg(k) \in Nat
<1>1. Pg(j) \in Nat /\ Pg(k) \in Nat
  BY PageOf
<1>2. (j <= k => Pg(j) <= Pg(k)) /\ (Of(k) = 0 /\ j < k => Pg(j) < Pg(k))
  BY PagesInOrder
<1> QED BY <1>1, <1>2

LEMMA EvenPage ==
  ASSUME NEW k \in Nat, Of(k) = 0
  PROVE  k % 2 = 0
<1> USE DEF Of
<1>1. CASE SPM_PAGESIZE = 2
  BY <1>1
<1>2. CASE SPM_PAGESIZE = 4
  BY <1>2
<1>3. CASE SPM_PAGESIZE = 8
  BY <1>3
<1>4. CASE SPM_PAGESIZE = 16
  BY <1>4
<1>5. CASE SPM_PAGESIZE = 32
  BY <1>5
<1>6. CASE SPM_PAGESIZE = 64
  BY <1>6
<1>7. CASE SPM_PAGESIZE = 128
  BY <1>7
<1>8. SPM_PAGESIZE \in {2, 4, 8, 16, 32, 64, 128}
  BY Sizes
<1> QED BY <1>1, <1>2, <1>3, <1>4, <1>5, <1>6, <1>7, <1>8

\* All that has gone out is in flash once its last page is.
LEMMA AllSent ==
  ASSUME UploadTypeOK, Acknowledged, up = "waiting",
         \A j \in FileBytes : j < sent /\ Pg(j) = Pg(sent - 1) => InFlash(j),
         NEW k \in FileBytes, k < sent
  PROVE  InFlash(k)
<1>1. sent \in Nat /\ sent >= 1 /\ k \in Nat
  BY HostFacts, FileByte DEF Acknowledged
<1>2. k <= sent - 1 /\ sent - 1 \in Nat
  BY ONLY <1>1, k < sent
<1>3. Pg(k) <= Pg(sent - 1) /\ Pg(k) \in Nat /\ Pg(sent - 1) \in Nat
  BY <1>1, <1>2, PageOrder
<1>4. CASE Pg(k) = Pg(sent - 1)
  BY <1>4
<1>5. CASE Pg(k) < Pg(sent - 1)
  BY <1>5 DEF Acknowledged
<1>6. Pg(k) = Pg(sent - 1) \/ Pg(k) < Pg(sent - 1)
  BY ONLY <1>3
<1> QED BY <1>4, <1>5, <1>6

\* After a chunk its last byte is on the page that it began on.
LEMMA ChunkPage ==
  ASSUME UploadTypeOK, NEW a \in FileBytes, NEW e, e = ChunkEnd(image, a)
  PROVE  /\ e \in Nat /\ e >= 1 /\ a < e /\ e <= Len(image) /\ Pg(e - 1) = Pg(a)
         /\ e < Len(image) /\ Of(e) # 0 => Pg(e) = Pg(a)
         /\ e < Len(image) /\ a % 2 = 0 => e % 2 = 0
<1>1. a \in Nat /\ a < Len(image) /\ image \in Images \cup {Installed}
  BY FileByte, HostFacts
<1>2. /\ e \in Nat /\ a < e /\ e <= Len(image)
      /\ \A k \in Nat : a <= k /\ k < e => Pg(k) = Pg(a)
      /\ e < Len(image) /\ Of(e) # 0 => Pg(e) = Pg(a)
      /\ e < Len(image) /\ a % 2 = 0 => e % 2 = 0
  BY <1>1, ChunkFacts, Zenon
<1>3. e >= 1 /\ e - 1 \in Nat /\ a <= e - 1 /\ e - 1 < e
  <2>1. a \in Nat /\ e \in Nat /\ a < e
    BY <1>1, <1>2
  <2> QED BY ONLY <2>1
<1> QED BY <1>2, <1>3, Zenon

\* What is under way under a command of the host's.
LEMMA BusyGoing ==
  ASSUME NEW c \in Commands, NEW a \in FileBytes, NEW d, d = Data(c, a), image' = image,
         up' \in {"asking", "waiting", "failed", "done"}, Meant(c, a)', Before(c, a)',
         NEW n \in Nat, GoingAt(c, d, n)'
  PROVE  Busy'
<1>1. FileBytes' = FileBytes /\ Data(c, a)' = Data(c, a)
  BY DEF FileBytes, Data
<1>2. \E x \in {Data(c, a)'}, m \in Nat : GoingAt(c, x, m)'
  <2>1. d \in {Data(c, a)'}
    BY <1>1
  <2> QED BY <2>1
<1>3. Under(c, a)'
  BY <1>2 DEF Under
<1> QED BY <1>1, <1>3 DEF Busy

LEMMA BusyErasing ==
  ASSUME NEW c \in Commands, NEW a \in FileBytes, image' = image, c = MIDIBOOT_WRITEPAGE,
         up' \in {"asking", "waiting", "failed", "done"}, Meant(c, a)', Before(c, a)', Erasing'
  PROVE  Busy'
<1>1. FileBytes' = FileBytes
  BY DEF FileBytes
<1>2. Under(c, a)'
  BY DEF Under
<1> QED BY <1>1, <1>2 DEF Busy

LEMMA BusyAnswering ==
  ASSUME NEW c \in Commands, NEW a \in FileBytes, image' = image, c # MIDIBOOT_LEAVE_BOOT,
         up' \in {"asking", "waiting", "failed", "done"}, Meant(c, a)', After(c, a)',
         NEW r \in Nat, AnsweringAt(c, r)'
  PROVE  Busy'
<1>1. FileBytes' = FileBytes
  BY DEF FileBytes
<1>2. Under(c, a)'
  BY DEF Under
<1> QED BY <1>1, <1>2 DEF Busy

LEMMA NowBusy ==
  ASSUME NEW c \in Commands, NEW a \in FileBytes, NEW d, d = Data(c, a), image' = image,
         up' \in {"waiting", "done"}, Meant(c, a)', Before(c, a)', GoingAt(c, d, 0)'
  PROVE  Busy'
<1>1. 0 \in Nat /\ up' \in {"asking", "waiting", "failed", "done"}
  OBVIOUS
<1> QED BY <1>1, BusyGoing, Zenon

LEMMA MeantStays ==
  ASSUME NEW c, NEW a, Meant(c, a), UNCHANGED <<up, image, sent, filled>>
  PROVE  Meant(c, a)'
BY DEF Meant, Of

LEMMA BeforeStays ==
  ASSUME NEW c, NEW a, Before(c, a), UNCHANGED <<up, image, sent, cancelTimeout, pageAddress, buffer>>
  PROVE  Before(c, a)'
BY DEF Before, BufferHolds, Pg, Of

LEMMA AfterStays ==
  ASSUME NEW c, NEW a, After(c, a), UNCHANGED <<up, image, sent, pageAddress, buffer, flash>>
  PROVE  After(c, a)'
BY DEF After, BufferHolds, FileBytes, InFlash, Pg, Of

LEMMA AcknowledgedStays ==
  ASSUME Acknowledged, UNCHANGED <<image, sent, filled, flash>>,
         up' = up \/ up' = "failed" \/ (up = "entering" /\ up' = "asking")
  PROVE  Acknowledged'
BY DEF Acknowledged, FileBytes, InFlash, Pg, Of

\* The whole reply is there, and nothing else.
ReplyOver(c, a) ==
  /\ UploadTypeOK /\ Acknowledged
  /\ up \in {"asking", "waiting"}
  /\ Meant(c, a) /\ After(c, a)
  /\ mode = "boot" /\ pc \in {"top", "byte", "pin"}
  /\ i = Len(midiByteQueue) /\ wire = <<>>
  /\ cancelTimeout
  /\ midiOutQueue = <<>> /\ answer = <<>>

\* What goes out is a message on its way.
LEMMA GoesOut ==
  ASSUME NEW c, NEW a, ReplyOver(c, a), got' = <<>>, UNCHANGED bootVars,
         NEW b \in Commands, NEW d \in Seq(Half), Len(d) <= 2 * (CHUNK_SIZE + 2), wire' = Stream(b, d)
  PROVE  GoingAt(b, d, 0)'
<1>1. UNCHANGED <<mode, pc, midiByteQueue, i, midiOutQueue, answer>>
  BY DEF bootVars, loop
<1>2. NothingBack'
  BY <1>1 DEF NothingBack, ReplyOver
<1>3. UploadTypeOK /\ mode = "boot" /\ pc \in {"top", "byte", "pin"} /\ i = Len(midiByteQueue)
  BY DEF ReplyOver
<1> QED BY <1>1, <1>2, <1>3, MessageStarts, Zenon

LEMMA CommandsAre ==
  /\ MIDIBOOT_LEAVE_BOOT \in Commands /\ MIDIBOOT_FILLPAGE \in Commands /\ MIDIBOOT_WRITEPAGE \in Commands
  /\ MIDIBOOT_GETPAGESIZE \in Commands
  /\ MIDIBOOT_LEAVE_BOOT # MIDIBOOT_FILLPAGE /\ MIDIBOOT_LEAVE_BOOT # MIDIBOOT_WRITEPAGE
  /\ MIDIBOOT_LEAVE_BOOT # MIDIBOOT_GETPAGESIZE /\ MIDIBOOT_FILLPAGE # MIDIBOOT_WRITEPAGE
  /\ MIDIBOOT_FILLPAGE # MIDIBOOT_GETPAGESIZE /\ MIDIBOOT_WRITEPAGE # MIDIBOOT_GETPAGESIZE
BY DEF Commands, MIDIBOOT_FILLPAGE, MIDIBOOT_LEAVE_BOOT, MIDIBOOT_GETPAGESIZE, MIDIBOOT_WRITEPAGE

\* After the ack of a page's last chunk, its write,
LEMMA SendsWrite ==
  ASSUME NEW c \in Commands, NEW a \in FileBytes, ReplyOver(c, a), got' = <<>>, UNCHANGED <<bootVars, image>>,
         WriteDue, wire' = wire \o WriteMessage, filled' = FALSE, sent' = sent, up' = "waiting"
  PROVE  Acknowledged' /\ Busy'
<1> DEFINE w == MIDIBOOT_WRITEPAGE
<1>0. UNCHANGED <<cancelTimeout, pageAddress, buffer, flash>> /\ image' = image
  BY DEF bootVars, memory
<1>1. /\ UploadTypeOK /\ Acknowledged /\ up \in {"asking", "waiting"} /\ Meant(c, a) /\ After(c, a)
      /\ wire = <<>> /\ cancelTimeout
  BY DEF ReplyOver
<1>2. filled /\ (Of(sent) = 0 \/ sent = Len(image))
  BY DEF WriteDue, Of
<1>3. up = "waiting" /\ c = MIDIBOOT_FILLPAGE /\ sent = ChunkEnd(image, a)
  BY <1>1, <1>2 DEF Acknowledged, Meant
<1>4. BufferHolds(Pg(a), sent) /\ pageAddress = Pg(a)
  BY <1>1, <1>3 DEF After
<1>5. sent >= 1 /\ Pg(sent - 1) = Pg(a)
  BY <1>1, <1>3, ChunkPage, Zenon
<1>6. Meant(w, a)'
  BY <1>0, <1>2, <1>5, CommandsAre DEF Meant, Of
<1>7. Before(w, a)'
  BY <1>0, <1>1, <1>4, <1>5, CommandsAre DEF Before, BufferHolds, Pg, Of
<1>8. wire' = Stream(w, <<>>)
  <2>1. Message(<<w>>) \in Seq(Byte) /\ Stream(w, <<>>) = Message(<<w>>)
    BY CommandMessageType, Bare, CommandsAre, Zenon
  <2>2. <<>> \o Message(<<w>>) = Message(<<w>>)
    BY <2>1
  <2> QED BY <1>1, <2>1, <2>2, Zenon DEF WriteMessage
<1>9. w \in Commands /\ <<>> = Data(w, a) /\ <<>> \in Seq(Half) /\ Len(<<>>) <= 2 * (CHUNK_SIZE + 2)
  BY CommandsAre, Sizes DEF Data
<1>10. GoingAt(w, <<>>, 0)'
  BY <1>8, <1>9, GoesOut, Zenon
<1>11. Busy'
  BY <1>0, <1>6, <1>7, <1>9, <1>10, NowBusy, Zenon
<1>12. Acknowledged'
  BY <1>0, <1>1, <1>3 DEF Acknowledged, FileBytes, InFlash, Pg, Of
<1> QED BY <1>11, <1>12

\* before it and after another page's write, the next chunk,
LEMMA SendsFill ==
  ASSUME NEW c \in Commands, NEW a \in FileBytes, ReplyOver(c, a), got' = <<>>, UNCHANGED <<bootVars, image>>,
         FillDue, wire' = wire \o FillMessage(image, sent), sent' = ChunkEnd(image, sent),
         filled' = TRUE, up' = "waiting"
  PROVE  Acknowledged' /\ Busy'
<1> DEFINE f == MIDIBOOT_FILLPAGE
<1>0. UNCHANGED <<cancelTimeout, pageAddress, buffer, flash>> /\ image' = image
  BY DEF bootVars, memory
<1>1. /\ UploadTypeOK /\ Acknowledged /\ up \in {"asking", "waiting"} /\ Meant(c, a) /\ After(c, a)
      /\ wire = <<>> /\ cancelTimeout
  BY DEF ReplyOver
<1>2. sent < Len(image) /\ (filled => Of(sent) # 0) /\ sent \in Nat /\ sent \in FileBytes /\ filled \in BOOLEAN
  <2>1. sent < Len(image) /\ (filled => Of(sent) # 0)
    BY DEF FillDue, WriteDue, Of
  <2>2. sent \in Nat /\ filled \in BOOLEAN
    BY <1>1, HostFacts
  <2> QED BY <1>1, <2>1, <2>2, FileByte, Zenon
<1>3. /\ sent' \in Nat /\ sent' >= 1 /\ sent < sent' /\ Pg(sent' - 1) = Pg(sent)
  BY <1>1, <1>2, ChunkPage, Zenon
\* The chunk begins at an even place, and the buffer is as it should be there; the pages
\* before it are in flash.
<1>4. /\ sent % 2 = 0 /\ BufferHolds(Pg(sent), sent)
      /\ \A k \in FileBytes : Pg(k) < Pg(sent) => InFlash(k)
  <2>1. CASE up = "asking"
    <3>1. sent = 0 /\ buffer = EmptyBuffer
      BY <1>1, <2>1 DEF Acknowledged, After
    <3>2. \A k \in Nat : Of(k) \in Offset /\ Pg(k) \in Nat
      BY Places
    <3>3. \A k \in Nat : Pg(0) <= Pg(k)
      BY PageOrder
    <3>4. BufferHolds(Pg(sent), sent)
      BY <3>1, <3>2 DEF BufferHolds, EmptyBuffer
    <3>5. ASSUME NEW k \in FileBytes, Pg(k) < Pg(sent) PROVE FALSE
      <4>1. k \in Nat
        BY <1>1, FileByte
      <4>2. Pg(k) \in Nat /\ Pg(0) \in Nat /\ Pg(0) <= Pg(k) /\ Pg(k) < Pg(0)
        BY <3>1, <3>2, <3>3, <3>5, <4>1
      <4> QED BY ONLY <4>2
    <3> QED BY <3>1, <3>4, <3>5
  <2>2. CASE up = "waiting" /\ filled
    <3>1. c = f /\ a % 2 = 0 /\ sent = ChunkEnd(image, a)
      BY <1>1, <2>2 DEF Meant
    <3>2. Pg(sent - 1) = Pg(a) /\ Pg(sent) = Pg(a) /\ sent % 2 = 0
      BY <1>1, <1>2, <2>2, <3>1, ChunkPage, Zenon
    <3>3. BufferHolds(Pg(a), sent)
      BY <1>1, <2>2, <3>1 DEF After
    <3>4. \A k \in FileBytes : Pg(k) < Pg(sent - 1) => InFlash(k)
      BY <1>1, <2>2 DEF Acknowledged
    <3> QED BY <3>2, <3>3, <3>4
  <2>3. CASE up = "waiting" /\ ~ filled
    <3>1. c = MIDIBOOT_WRITEPAGE /\ Of(sent) = 0
      BY <1>2, <1>1, <2>3 DEF Meant
    <3>2. buffer = EmptyBuffer /\ \A k \in FileBytes : k < sent /\ Pg(k) = Pg(sent - 1) => InFlash(k)
      BY <1>1, <2>3, <3>1 DEF After
    <3>3. sent % 2 = 0
      BY <1>2, <3>1, EvenPage
    <3>4. ASSUME NEW k \in Nat, Pg(k) = Pg(sent)
          PROVE  ~ (k < sent) /\ buffer[Of(k)] = -1
      <4>1. Of(k) \in Offset
        BY Places
      <4>2. ~ (k < sent)
        <5>1. k < sent => Pg(k) < Pg(sent) /\ Pg(k) \in Nat
          BY <1>2, <3>1, PageOrder
        <5> QED BY <3>4, <5>1
      <4> QED BY <3>2, <4>1, <4>2 DEF EmptyBuffer
    <3>5. BufferHolds(Pg(sent), sent)
      BY <3>4 DEF BufferHolds
    <3>6. ASSUME NEW k \in FileBytes, Pg(k) < Pg(sent) PROVE InFlash(k)
      <4>1. k \in Nat
        BY <1>1, FileByte
      <4>2. k < sent
        <5>1. sent <= k => Pg(sent) <= Pg(k)
          BY <1>2, <4>1, PageOrder
        <5>2. Pg(sent) \in Nat /\ Pg(k) \in Nat
          BY <1>2, <4>1, Places
        <5> QED BY ONLY <1>2, <3>6, <4>1, <5>1, <5>2
      <4> QED BY <1>1, <2>3, <3>2, <4>2, AllSent, Zenon
    <3> QED BY <3>3, <3>5, <3>6
  <2> QED BY <1>1, <1>2, <2>1, <2>2, <2>3
<1>5. PICK b \in FileBytes : b = sent
  BY <1>2
<1>6. PICK d : d = Data(f, b)
  OBVIOUS
<1>7. Meant(f, b)'
  <2>1. b % 2 = 0 /\ sent' = ChunkEnd(image', b) /\ filled' = TRUE /\ up' = "waiting"
    BY <1>0, <1>4, <1>5
  <2> QED BY <2>1, CommandsAre DEF Meant
<1>8. Before(f, b)'
  <2>1. BufferHolds(Pg(b), b)
    BY <1>4, <1>5
  <2>2. BufferHolds(Pg(b), b)'
    BY <1>0, <2>1 DEF BufferHolds, Pg, Of
  <2> QED BY <1>0, <1>1, <2>2, CommandsAre DEF Before, Pg
<1>9. d \in Seq(Half) /\ Len(d) <= 2 * (CHUNK_SIZE + 2) /\ d = ChunkData(image, b)
  BY <1>1, <1>6, DataFacts, CommandsAre
<1>10. wire' = Stream(f, d)
  <2>1. Message(<<f>> \o d) \in Seq(Byte)
    BY <1>9, CommandsAre, MessageAt, Zenon
  <2>2. FillMessage(image, sent) = Message(<<f>> \o d)
    BY <1>5, <1>9 DEF FillMessage, ChunkData
  <2>3. wire' = Message(<<f>> \o d) /\ Message(<<f>> \o d) \o <<>> = Message(<<f>> \o d)
    <3> DEFINE m == Message(<<f>> \o d)
    <3>1. m \in Seq(Byte) /\ wire' = <<>> \o m
      BY <1>1, <2>1, <2>2
    <3> HIDE DEF m
    <3>2. <<>> \o m = m /\ m \o <<>> = m
      BY ONLY <3>1
    <3> QED BY <3>1, <3>2, Zenon DEF m
  <2>4. Stream(f, d) = Message(<<f>> \o d) \o <<>>
    BY CommandsAre, Zenon DEF Stream
  <2> QED BY <2>3, <2>4, Zenon
<1>11. GoingAt(f, d, 0)'
  BY <1>9, <1>10, CommandsAre, GoesOut, Zenon
<1>12. Busy'
  <2>1. image' = image /\ up' \in {"waiting", "done"} /\ f \in Commands
    BY CommandsAre
  <2> QED BY <1>6, <1>7, <1>8, <1>11, <2>1, NowBusy, Zenon
<1>13. Acknowledged'
  <2>1. Pg(sent' - 1) = Pg(b) /\ sent' >= 1
    BY <1>3, <1>5
  <2>2. \A k \in FileBytes : Pg(k) < Pg(b) => InFlash(k)
    BY <1>4, <1>5
  <2>3. \A k \in FileBytes : Pg(k) < Pg(sent' - 1) => InFlash(k)'
    BY <1>0, <2>1, <2>2 DEF InFlash, Pg, Of
  <2> QED BY <1>0, <2>1, <2>3 DEF Acknowledged, FileBytes, Pg
<1> QED BY <1>12, <1>13

\* and after the last page's write the command to leave.
LEMMA SendsLeave ==
  ASSUME NEW c \in Commands, NEW a \in FileBytes, ReplyOver(c, a), got' = <<>>, UNCHANGED <<bootVars, image>>,
         ~ WriteDue, ~ FillDue, wire' = wire \o Message(<<MIDIBOOT_LEAVE_BOOT>>) \o <<RESET>>,
         UNCHANGED it, up' = "done"
  PROVE  Acknowledged' /\ Busy'
<1> DEFINE l == MIDIBOOT_LEAVE_BOOT
<1>0. UNCHANGED <<cancelTimeout, pageAddress, buffer, flash>> /\ image' = image
  BY DEF bootVars, memory
<1>1. /\ UploadTypeOK /\ Acknowledged /\ up \in {"asking", "waiting"} /\ Meant(c, a) /\ After(c, a)
      /\ wire = <<>> /\ cancelTimeout
  BY DEF ReplyOver
<1>2. sent = Len(image) /\ ~ filled
  <2>1. ~ (sent < Len(image))
    BY DEF FillDue
  <2>2. sent = Len(image)
    BY <1>1, <2>1, HostFacts
  <2> QED BY <2>2 DEF WriteDue
<1>3. up = "waiting" /\ c = MIDIBOOT_WRITEPAGE
  <2>1. Len(image) >= 1 /\ Len(image) \in Nat
    BY <1>1, HostFacts
  <2>2. sent # 0
    BY <1>2, <2>1
  <2>3. up = "waiting"
    BY <1>1, <2>2 DEF Acknowledged
  <2> QED BY <1>1, <1>2, <2>3 DEF Meant
<1>4. \A k \in FileBytes : k < sent /\ Pg(k) = Pg(sent - 1) => InFlash(k)
  BY <1>1, <1>3 DEF After
<1>5. ASSUME NEW k \in FileBytes PROVE InFlash(k)
  <2>1. k < sent
    BY <1>1, <1>2, FileByte
  <2> QED BY <1>1, <1>3, <1>4, <2>1, AllSent, Zenon
<1>6. Acknowledged'
  BY <1>0, <1>5 DEF Acknowledged, FileBytes, InFlash, Pg, Of
<1>7. Meant(l, a)'
  BY DEF Meant
<1>8. Before(l, a)'
  BY CommandsAre DEF Before
<1>9. wire' = Stream(l, <<>>)
  <2>1. Message(<<l>>) \in Seq(Byte) /\ Stream(l, <<>>) = Message(<<l>>) \o <<RESET>>
    BY CommandMessageType, Bare, CommandsAre, Zenon
  <2>2. <<>> \o Message(<<l>>) = Message(<<l>>)
    BY <2>1
  <2> QED BY <1>1, <2>1, <2>2, Zenon
<1>10. l \in Commands /\ <<>> = Data(l, a) /\ <<>> \in Seq(Half) /\ Len(<<>>) <= 2 * (CHUNK_SIZE + 2)
  BY CommandsAre, Sizes DEF Data
<1>11. GoingAt(l, <<>>, 0)'
  BY <1>9, <1>10, GoesOut, Zenon
<1>12. Busy'
  <2>1. image' = image /\ up' \in {"waiting", "done"}
    OBVIOUS
  <2> QED BY <1>7, <1>8, <1>10, <1>11, <2>1, NowBusy, Zenon
<1> QED BY <1>6, <1>12

LEMMA SendsNext ==
  ASSUME NEW c \in Commands, NEW a \in FileBytes, ReplyOver(c, a), got' = <<>>, UNCHANGED <<bootVars, image>>,
         SendNext
  PROVE  Acknowledged' /\ Busy'
<1>1. CASE WriteDue /\ wire' = wire \o WriteMessage /\ filled' = FALSE /\ sent' = sent /\ up' = "waiting"
  BY <1>1, SendsWrite, Zenon
<1>2. CASE /\ FillDue /\ wire' = wire \o FillMessage(image, sent) /\ sent' = ChunkEnd(image, sent)
           /\ filled' = TRUE /\ up' = "waiting"
  BY <1>2, SendsFill, Zenon
<1>3. CASE /\ ~ WriteDue /\ ~ FillDue /\ wire' = wire \o Message(<<MIDIBOOT_LEAVE_BOOT>>) \o <<RESET>>
           /\ UNCHANGED it /\ up' = "done"
  BY <1>3, SendsLeave, Zenon
<1> QED BY <1>1, <1>2, <1>3 DEF SendNext

-----------------------------------------------------------------------------
(* The host reads                                                           *)

\* The next byte of the reply is the expected one.
LEMMA ReadOn ==
  ASSUME UploadTypeOK, NEW c \in Commands, NEW r \in Nat, AnsweringAt(c, r), NEW s, HostReads(s),
         r + 1 # Len(Reply(c)), up' = up, wire' = wire,
         inSysexMessage' = TRUE, sysexByteCount' = r
  PROVE  AnsweringAt(c, r + 1)' /\ UNCHANGED <<pageAddress, buffer, flash>>
<1>1. /\ OnWayBack(c, r + 1)' /\ r + 1 \in 1..Len(Reply(c))
  BY ReplyRead, Zenon
<1>2. Len(Reply(c)) \in Nat
  BY ReplyBytes
<1>3. r + 1 < Len(Reply(c)) /\ (r + 1) - 1 = r
  BY ONLY <1>1, <1>2, r \in Nat, r + 1 # Len(Reply(c))
<1>4. UNCHANGED <<mode, pc, midiByteQueue, i, answer, cancelTimeout, pageAddress, buffer, flash>>
  BY Reads DEF bootVars, loop, memory
<1>5. /\ mode = "boot" /\ pc \in {"send", "pin", "byte", "top"}
      /\ wire = <<>> /\ i = Len(midiByteQueue)
      /\ pc \in {"byte", "top"} => answer = <<>>
      /\ cancelTimeout
  BY DEF AnsweringAt
<1> QED BY <1>1, <1>3, <1>4, <1>5 DEF AnsweringAt

\* The host's place in the reply.
LEMMA Place ==
  ASSUME UploadTypeOK, NEW c \in Commands, NEW r \in Nat, AnsweringAt(c, r), NEW s, HostReads(s),
         s \in {"asking", "waiting"}, inByte # SYSEX_BEGIN, NEW x \in Readings
  PROVE  r >= 1 /\ x[1] = TRUE /\ x[2] = r - 1
<1>1. r >= 1
  BY ReplyRead
<1>2. up = s
  BY Reads, Zenon
<1>3. inSysexMessage /\ sysexByteCount = r - 1
  BY <1>1, <1>2 DEF AnsweringAt
<1>4. sysexByteCount # Unset
  BY <1>1, <1>3 DEF Unset
<1>5. inSysexMessage \in BOOLEAN
  BY UploadTypes DEF UploadParts, ReadingOK
<1>6. x = <<inSysexMessage, sysexByteCount>>
  BY <1>4 DEF Readings
<1> QED BY <1>1, <1>3, <1>5, <1>6

\* With the end of the reply the bootloader is ready for the next message.
LEMMA ReplyEnds ==
  ASSUME UploadTypeOK, BatchInv, Acknowledged, NEW c \in Commands, NEW a \in FileBytes,
         Meant(c, a), After(c, a), NEW r \in Nat, AnsweringAt(c, r), NEW s, HostReads(s),
         s \in {"asking", "waiting"}, inByte = SYSEX_END
  PROVE  ReplyOver(c, a) /\ got' = <<>> /\ UNCHANGED <<bootVars, image>>
<1>1. got' = <<>> /\ midiOutQueue = <<>> /\ answer = <<>>
  BY ReplyRead, Zenon
<1>2. up = s /\ UNCHANGED bootVars /\ image' = image
  BY Reads, Zenon
<1>3. /\ mode = "boot" /\ pc \in {"send", "pin", "byte", "top"}
      /\ wire = <<>> /\ i = Len(midiByteQueue) /\ cancelTimeout
  BY DEF AnsweringAt
<1>4. pc # "send"
  BY <1>1 DEF BatchInv
<1> QED BY <1>1, <1>2, <1>3, <1>4 DEF ReplyOver

LEMMA AnsweringRead ==
  ASSUME UploadTypeOK, BatchInv, Acknowledged, NEW c \in Commands, NEW a \in FileBytes,
         Meant(c, a), After(c, a), NEW r \in Nat, AnsweringAt(c, r),
         AnswerBegins \/ PageSizeByte \/ AckByte
  PROVE  \/ Acknowledged' /\ Busy'
         \/ /\ AnsweringAt(c, r + 1)'
            /\ UNCHANGED <<pageAddress, buffer, flash, image, up, it>>
<1> DEFINE L == MIDIBOOT_SYSEX_ID_LEN
<1>0. L \in Nat
  BY Sizes
<1>1. CASE AnswerBegins
  <2>1. /\ HostReads(up) /\ inByte = SYSEX_BEGIN /\ up \in {"asking", "waiting"}
        /\ inSysexMessage' = TRUE /\ sysexByteCount' = 0 /\ UNCHANGED <<up, it, wire>>
    BY <1>1 DEF AnswerBegins
  <2>2. r = 0
    BY <2>1, ReplyRead, Zenon
  <2>3. r + 1 # Len(Reply(c))
    <3>1. Len(Reply(c)) \in Nat /\ Len(Reply(c)) >= 2
      BY ReplyBytes, Zenon
    <3> DEFINE z == Len(Reply(c))
    <3>2. z \in Nat /\ z >= 2 /\ r + 1 = 1
      BY <2>2, <3>1
    <3> HIDE DEF z
    <3>3. r + 1 # z
      BY ONLY <3>2
    <3> QED BY <3>3 DEF z
  <2>4. AnsweringAt(c, r + 1)' /\ UNCHANGED <<pageAddress, buffer, flash>>
    BY <2>1, <2>2, <2>3, ReadOn, Zenon
  <2>5. image' = image
    BY <2>1, Reads, Zenon
  <2> QED BY <2>1, <2>4, <2>5
<1>2. CASE PageSizeByte
  <2>1. /\ HostReads("asking") /\ inByte # SYSEX_BEGIN
    BY <1>2 DEF PageSizeByte
  <2>2. PICK x \in Readings : PageSizeRead(x[1], x[2])
    BY <1>2 DEF PageSizeByte
  <2>3. r >= 1 /\ x[1] = TRUE /\ x[2] = r - 1
    BY <2>1, Place
  <2>4. c = MIDIBOOT_GETPAGESIZE
    BY <2>1, Reads DEF Meant
  <2>5. Len(Reply(c)) = L + 7
    BY <2>4, ReplyBytes
  <2>6. /\ inByte = Reply(c)[r + 1] /\ r + 1 \in 1..Len(Reply(c))
        /\ inByte = SYSEX_END <=> r + 1 = Len(Reply(c))
    BY <2>1, ReplyRead, Zenon
  <2>7. CASE inByte = SYSEX_END
    <3>1. x[2] = L + 5
      <4>1. r + 1 = L + 7
        BY <2>5, <2>6, <2>7
      <4> QED BY ONLY <1>0, <2>3, <4>1, r \in Nat
    <3>2. SendNext
      BY <2>2, <2>3, <2>7, <3>1 DEF PageSizeRead
    <3>3. ReplyOver(c, a) /\ got' = <<>> /\ UNCHANGED <<bootVars, image>>
      BY <2>1, <2>7, ReplyEnds
    <3> QED BY <3>2, <3>3, SendsNext
  <2>8. CASE inByte # SYSEX_END
    <3> DEFINE n == r - 1
    <3>1. n \in Nat /\ n <= L + 4
      <4>1. r + 1 \in 1..(L + 7) /\ r + 1 # L + 7
        BY <2>5, <2>6, <2>8
      <4> QED BY ONLY <1>0, <2>3, <4>1, r \in Nat
    <3>2. \/ IdTaken(n)
          \/ n = L /\ inByte = MIDIBOOT_GETPAGESIZE
          \/ n \in L + 1..L + 4
      <4>1. CASE n < L
        <5>1. Reply(c)[1 + r] = midiboot_sysex_id[r]
          <6>1. \A k \in 1..L : Reply(c)[1 + k] = midiboot_sysex_id[k]
            BY ReplyAt, Zenon
          <6>2. r \in 1..L
            BY <1>0, <2>3, <4>1
          <6> QED BY <6>1, <6>2
        <5>2. 1 + r = r + 1 /\ n + 1 = r
          OBVIOUS
        <5> HIDE DEF n
        <5> QED BY <2>6, <4>1, <5>1, <5>2 DEF IdTaken
      <4>2. CASE n = L
        <5>1. r + 1 = L + 2
          BY ONLY <1>0, <4>2, r \in Nat
        <5>2. Reply(c)[L + 2] = MIDIBOOT_GETPAGESIZE
          BY <2>4, ReplyAt, Zenon
        <5> QED BY <2>6, <4>2, <5>1, <5>2
      <4>3. CASE n > L
        <5>1. n \in L + 1..L + 4
          BY ONLY <1>0, <3>1, <4>3
        <5> QED BY <5>1
      <4> HIDE DEF n
      <4> QED BY <1>0, <3>1, <4>1, <4>2, <4>3
    <3>3. PageSizeRead(TRUE, n)
      BY <2>2, <2>3
    <3>4. Taken(TRUE, n, TRUE)
      <4> HIDE DEF n
      <4>1. Taken(TRUE, n, \/ IdTaken(n)
                           \/ n = L /\ inByte = MIDIBOOT_GETPAGESIZE
                           \/ n \in L + 1..L + 4)
        BY <2>8, <3>3 DEF PageSizeRead
      <4> QED BY <3>2, <4>1 DEF Taken
    <3>5. inSysexMessage' = TRUE /\ sysexByteCount' = n + 1 /\ UNCHANGED <<up, it, wire>>
      BY <3>4 DEF Taken
    <3>6. sysexByteCount' = r
      <4>1. n + 1 = r
        OBVIOUS
      <4> QED BY <3>5, <4>1
    <3>7. AnsweringAt(c, r + 1)' /\ UNCHANGED <<pageAddress, buffer, flash>>
      BY <2>1, <2>6, <2>8, <3>5, <3>6, ReadOn, Zenon
    <3>8. image' = image
      BY <2>1, Reads, Zenon
    <3> QED BY <3>5, <3>7, <3>8
  <2> QED BY <2>7, <2>8
<1>3. CASE AckByte
  <2>1. /\ HostReads("waiting") /\ inByte # SYSEX_BEGIN
    BY <1>3 DEF AckByte
  <2>2. PICK x \in Readings : AckRead(x[1], x[2])
    BY <1>3 DEF AckByte
  <2>3. r >= 1 /\ x[1] = TRUE /\ x[2] = r - 1
    BY <2>1, Place
  <2>4. c # MIDIBOOT_GETPAGESIZE
    <3>1. up = "waiting"
      BY <2>1, Reads, Zenon
    <3> QED BY <3>1, CommandsAre DEF Meant
  <2>5. Len(Reply(c)) = L + 2
    BY <2>4, ReplyBytes
  <2>6. /\ inByte = Reply(c)[r + 1] /\ r + 1 \in 1..Len(Reply(c))
        /\ inByte = SYSEX_END <=> r + 1 = Len(Reply(c))
    BY <2>1, ReplyRead, Zenon
  <2>7. CASE inByte = SYSEX_END
    <3>1. x[2] = L
      <4>1. r + 1 = L + 2
        BY <2>5, <2>6, <2>7
      <4> QED BY ONLY <1>0, <2>3, <4>1, r \in Nat
    <3>2. SendNext
      BY <2>2, <2>3, <2>7, <3>1 DEF AckRead, IsAck
    <3>3. ReplyOver(c, a) /\ got' = <<>> /\ UNCHANGED <<bootVars, image>>
      BY <2>1, <2>7, ReplyEnds
    <3> QED BY <3>2, <3>3, SendsNext
  <2>8. CASE inByte # SYSEX_END
    <3> DEFINE n == r - 1
    <3>1. n \in Nat /\ n < L
      <4>1. r + 1 \in 1..(L + 2) /\ r + 1 # L + 2
        BY <2>5, <2>6, <2>8
      <4> QED BY ONLY <1>0, <2>3, <4>1, r \in Nat
    <3>2. IdTaken(n)
      <4>1. Reply(c)[1 + r] = midiboot_sysex_id[r]
        <5>1. \A k \in 1..L : Reply(c)[1 + k] = midiboot_sysex_id[k]
          BY ReplyAt, Zenon
        <5>2. r \in 1..L
          BY <1>0, <2>3, <3>1
        <5> QED BY <5>1, <5>2
      <4>2. 1 + r = r + 1 /\ n + 1 = r
        OBVIOUS
      <4> HIDE DEF n
      <4> QED BY <2>6, <3>1, <4>1, <4>2 DEF IdTaken
    <3>3. AckRead(TRUE, n)
      BY <2>2, <2>3
    <3>4. Taken(TRUE, n, TRUE)
      <4> HIDE DEF n
      <4>1. Taken(TRUE, n, IdTaken(n))
        BY <2>8, <3>3 DEF AckRead, IsAck
      <4> QED BY <3>2, <4>1 DEF Taken
    <3>5. inSysexMessage' = TRUE /\ sysexByteCount' = n + 1 /\ UNCHANGED <<up, it, wire>>
      BY <3>4 DEF Taken
    <3>6. sysexByteCount' = r
      <4>1. n + 1 = r
        OBVIOUS
      <4> QED BY <3>5, <4>1
    <3>7. AnsweringAt(c, r + 1)' /\ UNCHANGED <<pageAddress, buffer, flash>>
      BY <2>1, <2>6, <2>8, <3>5, <3>6, ReadOn, Zenon
    <3>8. image' = image
      BY <2>1, Reads, Zenon
    <3> QED BY <3>5, <3>7, <3>8
  <2> QED BY <2>7, <2>8
<1> QED BY <1>1, <1>2, <1>3

-----------------------------------------------------------------------------
(* Every step                                                               *)

\* A run that begins with nothing under way.
LEMMA Enters ==
  ASSUME UploadTypeOK, NEW f \in Images, EnterBootloader(f), ~ late'
  PROVE  Acknowledged' /\ Idle'
<1>1. /\ up' = "entering" /\ sent' = 0 /\ filled' = FALSE /\ got' = <<>> /\ wire' = Append(wire, RESET)
      /\ UNCHANGED bootVars /\ late' = (wire \o midiByteQueue \o midiOutQueue \o answer # <<>>)
  BY DEF EnterBootloader
<1>2. wire = <<>> /\ midiByteQueue = <<>> /\ midiOutQueue = <<>> /\ answer = <<>>
  <2> DEFINE S == Byte \cup {RESET}
  <2>1. wire \in Seq(S) /\ midiByteQueue \in Seq(S) /\ midiOutQueue \in Seq(S) /\ answer \in Seq(S)
    BY Lines
  <2>2. wire \o midiByteQueue \o midiOutQueue \o answer = <<>>
    BY <1>1, Zenon
  <2> HIDE DEF S
  <2>3. wire \o midiByteQueue \in Seq(S) /\ Len(wire \o midiByteQueue) = Len(wire) + Len(midiByteQueue)
    BY ONLY <2>1
  <2>4. /\ wire \o midiByteQueue \o midiOutQueue \in Seq(S)
        /\ Len(wire \o midiByteQueue \o midiOutQueue) = Len(wire \o midiByteQueue) + Len(midiOutQueue)
    BY ONLY <2>1, <2>3
  <2>5. Len(wire \o midiByteQueue \o midiOutQueue \o answer)
          = Len(wire \o midiByteQueue \o midiOutQueue) + Len(answer)
    BY ONLY <2>1, <2>4
  <2>6. Len(wire) + Len(midiByteQueue) + Len(midiOutQueue) + Len(answer) = 0
    BY <2>2, <2>3, <2>4, <2>5
  <2>7. Len(wire) = 0 /\ Len(midiByteQueue) = 0 /\ Len(midiOutQueue) = 0 /\ Len(answer) = 0
    BY <2>6, LineSizes
  <2> QED BY <2>1, <2>7, EmptySeq
<1>3. wire' = <<RESET>>
  BY <1>1, <1>2
<1>4. NothingBack' /\ midiByteQueue' = <<>>
  BY <1>1, <1>2 DEF NothingBack, bootVars
<1>5. Quiet'
  <2>1. \A k \in 1..Len(wire') : wire'[k] = RESET => k = Len(wire')
    BY <1>3
  <2> QED BY <1>3, <1>4, <2>1 DEF Quiet
<1>6. Idle'
  BY <1>1, <1>3, <1>5 DEF Idle
<1>7. Acknowledged'
  BY <1>1 DEF Acknowledged
<1> QED BY <1>6, <1>7

\* After a power failure nothing is under way.
LEMMA PowerBack ==
  ASSUME UploadTypeOK, Acknowledged, PowerFails
  PROVE  Acknowledged' /\ Idle'
<1>1. /\ cut' = TRUE /\ Reset /\ wire' = <<>> /\ got' = <<>> /\ UNCHANGED <<up, image, it>>
  BY DEF PowerFails
<1>2. /\ mode' = "boot" /\ midiByteQueue' = <<>> /\ midiOutQueue' = <<>> /\ answer' = <<>>
      /\ buffer' = EmptyBuffer /\ flash' = flash
  BY <1>1 DEF Reset
<1>3. Quiet' /\ Idle'
  BY <1>1, <1>2 DEF Quiet, NothingBack, Idle
<1> QED BY <1>1, <1>2, <1>3, AcknowledgedStays DEF it

\* Giving up, or no step at all.
LEMMA Stands ==
  ASSUME UploadTypeOK, Acknowledged, Idle \/ Busy, UNCHANGED <<bootVars, image, it, answered, wire, got, cut>>,
         up' = up \/ (up \in {"asking", "waiting"} /\ up' = "failed")
  PROVE  Acknowledged' /\ (Idle' \/ Busy')
<1>2. /\ UNCHANGED <<mode, pc, midiByteQueue, midiOutQueue, i, answer, cancelTimeout, pageAddress, buffer, flash>>
      /\ UNCHANGED <<inSysexMode, inByteIndex, sysexMode, tmpPackedData, inSysexMessage, sysexByteCount>>
      /\ UNCHANGED <<image, sent, filled, wire, got, cut>>
  BY DEF bootVars, it, loop, parser, memory, answered
<1>3. Acknowledged'
  BY <1>2, AcknowledgedStays
<1>4. CASE Idle
  <2>1. Quiet'
    BY <1>2, <1>4 DEF Idle, Quiet, NothingBack
  <2> QED BY <1>2, <1>3, <1>4, <2>1 DEF Idle
<1>5. CASE Busy
  <2>1. PICK c \in Commands, a \in FileBytes : Meant(c, a) /\ Under(c, a)
    BY <1>5 DEF Busy
  <2>2. Meant(c, a)'
    <3>1. CASE up' = up
      BY <1>2, <2>1, <3>1, MeantStays
    <3>2. CASE up \in {"asking", "waiting"} /\ up' = "failed"
      BY <2>1, <3>2 DEF Meant
    <3> QED BY <3>1, <3>2
  <2>3. up' \in {"asking", "waiting", "failed", "done"} /\ image' = image
    BY <1>5 DEF Busy
  <2>b. Before(c, a) => Before(c, a)'
    <3>1. CASE up' = up
      BY <1>2, <3>1, BeforeStays
    <3>2. CASE up' = "failed"
      BY <1>2, <3>2 DEF Before
    <3> QED BY <3>1, <3>2
  <2>a. After(c, a) => After(c, a)'
    <3>1. CASE up' = up
      BY <1>2, <3>1, AfterStays
    <3>2. CASE up' = "failed"
      BY <3>2 DEF After
    <3> QED BY <3>1, <3>2
  <2>4. CASE Before(c, a) /\ \E d \in {Data(c, a)}, n \in Nat : GoingAt(c, d, n)
    <3>1. PICK d \in {Data(c, a)}, n \in Nat : d = Data(c, a) /\ GoingAt(c, d, n)
      BY <2>4
    <3>2. GoingAt(c, d, n)'
      BY <1>2, <3>1 DEF GoingAt, NothingBack, InTransit, ParserAt
    <3> QED BY <1>3, <2>2, <2>3, <2>4, <2>b, <3>1, <3>2, BusyGoing, Zenon
  <2>5. CASE Before(c, a) /\ Erasing /\ c = MIDIBOOT_WRITEPAGE
    <3>1. Erasing'
      BY <1>2, <2>5 DEF Erasing, NothingBack
    <3> QED BY <1>3, <2>2, <2>3, <2>5, <2>b, <3>1, BusyErasing, Zenon
  <2>6. CASE After(c, a) /\ \E r \in Nat : AnsweringAt(c, r) /\ c # MIDIBOOT_LEAVE_BOOT
    <3>1. PICK r \in Nat : AnsweringAt(c, r) /\ c # MIDIBOOT_LEAVE_BOOT
      BY <2>6
    <3>2. AnsweringAt(c, r)'
      BY <1>2, <3>1 DEF AnsweringAt, OnWayBack
    <3> QED BY <1>3, <2>2, <2>3, <2>6, <2>a, <3>1, <3>2, BusyAnswering, Zenon
  <2> QED BY <2>1, <2>4, <2>5, <2>6 DEF Under
<1> QED BY <1>4, <1>5

LEMMA GivesUp ==
  ASSUME UploadTypeOK, Acknowledged, Idle \/ Busy, GiveUp
  PROVE  Acknowledged' /\ (Idle' \/ Busy')
<1>1. /\ up \in {"asking", "waiting"} /\ up' = "failed"
      /\ UNCHANGED <<bootVars, image, it, answered, wire, got, cut>>
  BY DEF GiveUp, history
<1> QED BY <1>1, Stands, Zenon

\* While nothing is under way the loop has nothing to do, and nobody anything to read.
LEMMA IdleRests ==
  ASSUME UploadTypeOK, BatchInv, Idle
  PROVE  /\ ~ MainLoop /\ got = <<>>
         /\ mode = "boot" => pc = "top" /\ i = Len(midiByteQueue)
<1>1. Quiet /\ NothingBack
  BY DEF Idle, Quiet
<1>2. ASSUME mode = "boot" PROVE midiByteQueue = <<>> /\ pc = "top" /\ i = Len(midiByteQueue) /\ size = 0
  <2>1. midiByteQueue = <<>>
    BY <1>1, <1>2 DEF Quiet
  <2>2. Len(midiByteQueue) = 0
    BY <2>1
  <2>3. size = 0 /\ i = 0
    BY <2>2, LineSizes
  <2>4. pc = "top"
    BY <2>3 DEF BatchInv
  <2> QED BY <2>1, <2>2, <2>3, <2>4
<1>3. ASSUME MainLoop PROVE FALSE
  <2>1. mode = "boot" /\ (pc # "top" \/ midiByteQueue # <<>>)
    BY <1>3 DEF MainLoop, Look, OneByte, BeginByte, PrefixByte, CommandByte, DataByte, StrayByte,
         Leave, PageSize, FillPage, ErasePage, WritePage, EndOfOther, SendByte, RaisePin, Advance
  <2> QED BY <1>2, <2>1
<1> QED BY <1>1, <1>2, <1>3 DEF NothingBack

LEMMA NoRead ==
  ASSUME got = <<>>
  PROVE  ~ AnswerBegins /\ ~ PageSizeByte /\ ~ AckByte
BY DEF AnswerBegins, PageSizeByte, AckByte, HostReads

LEMMA IdleStep ==
  ASSUME UploadTypeOK, BatchInv, Acknowledged, Idle, Next, ~ late'
  PROVE  Acknowledged' /\ (Idle' \/ Busy')
<1>0. Quiet /\ NothingBack /\ got = <<>> /\ ~ MainLoop
  BY IdleRests, Zenon DEF Idle, Quiet
<1>1. CASE BootStep
  <2>1. Timeout /\ UNCHANGED upVars
    BY <1>0, <1>1 DEF BootStep
  <2>2. /\ UNCHANGED <<up, image, sent, filled, wire, got, cut>>
        /\ mode' = "app" /\ UNCHANGED <<midiByteQueue, midiOutQueue, answer, flash>>
    BY <2>1 DEF upVars, it, history, Timeout, interrupts, memory
  <2>3. Quiet'
    BY <1>0, <2>2 DEF Quiet, NothingBack
  <2>4. Idle'
    BY <2>2, <2>3 DEF Idle
  <2> QED BY <2>2, <2>4, AcknowledgedStays
<1>2. CASE HostStep
  <2>1. CASE \E f \in Images : EnterBootloader(f)
    BY <2>1, Enters, Zenon
  <2>2. CASE AskPageSize
    <3>0. /\ up = "entering" /\ wire = <<>> /\ up' = "asking" /\ wire' = Message(<<MIDIBOOT_GETPAGESIZE>>)
          /\ UNCHANGED <<bootVars, image, it, got, history>>
      BY <2>2 DEF AskPageSize
    <3>1. /\ UNCHANGED <<mode, pc, midiByteQueue, i, midiOutQueue, answer, cancelTimeout>>
          /\ UNCHANGED <<pageAddress, buffer, flash, image, sent, filled, got>>
      BY <3>0 DEF bootVars, it, loop, memory
    <3>2. Acknowledged'
      BY <3>0, <3>1, AcknowledgedStays
    <3> DEFINE c == MIDIBOOT_GETPAGESIZE
    <3>3. /\ c \in Commands /\ wire' = Stream(c, <<>>) /\ <<>> \in Seq(Half)
          /\ Len(<<>>) <= 2 * (CHUNK_SIZE + 2)
      BY <3>0, Bare, CommandsAre, Sizes
    <3>4. CASE mode = "boot"
      <4>1. pc = "top" /\ i = Len(midiByteQueue) /\ NothingBack'
        BY <1>0, <3>1, <3>4, IdleRests DEF NothingBack
      <4>2. buffer = EmptyBuffer
        BY <3>0, <3>4 DEF Idle
      <4>3. GoingAt(c, <<>>, 0)'
        <5>1. pc \in {"top", "byte", "pin"} /\ UNCHANGED <<mode, pc, midiByteQueue, i>>
          BY <3>1, <4>1
        <5> QED BY <3>3, <3>4, <4>1, <5>1, MessageStarts, Zenon
      <4>4. PICK a \in FileBytes : a = 0
        <5>1. 0 \in Nat /\ 0 < Len(image)
          BY HostFacts
        <5>2. 0 \in FileBytes
          BY <5>1, FileByte, Zenon
        <5> QED BY <5>2
      <4>5. Meant(c, a)'
        BY <3>0, CommandsAre DEF Meant
      <4>6. Before(c, a)'
        BY <3>0, <3>1, <4>2, CommandsAre DEF Before
      <4>7. <<>> = Data(c, a) /\ image' = image /\ up' \in {"asking", "waiting", "failed", "done"} /\ 0 \in Nat
        BY <3>0, CommandsAre DEF Data
      <4>8. Busy'
        BY <3>3, <4>3, <4>5, <4>6, <4>7, BusyGoing, Zenon
      <4> QED BY <3>2, <4>8
    <3>5. CASE mode # "boot"
      <4>1. Len(Stream(c, <<>>)) = MessageLen(<<>>) + 0 /\ MessageLen(<<>>) \in Nat
        BY <3>3, StreamSizes, CommandsAre
      <4>2. ASSUME NEW k \in 1..Len(wire') PROVE wire'[k] # RESET
        <5>1. k \in 1..Len(Stream(c, <<>>)) /\ ~ (k > MessageLen(<<>>))
          BY <3>3, <4>1
        <5> QED BY <3>3, <5>1, StreamBytes, Zenon
      <4>3. Quiet'
        <5>1. mode = "app"
          BY <3>5, UploadTypes, BootTypes DEF UploadParts, TypeParts, ModesOK
        <5> QED BY <1>0, <3>1, <4>2, <5>1 DEF Quiet, NothingBack
      <4>4. Idle'
        BY <3>0, <4>3 DEF Idle
      <4> QED BY <3>2, <4>4
    <3> QED BY <3>4, <3>5
  <2>3. CASE AnswerBegins \/ PageSizeByte \/ AckByte
    BY <1>0, <2>3, NoRead
  <2>4. CASE GiveUp
    BY <2>4, GivesUp
  <2> QED BY <1>2, <2>1, <2>2, <2>3, <2>4 DEF HostStep
<1>3. CASE Carry
  <2>1. /\ wire # <<>> /\ wire' = Tail(wire) /\ UNCHANGED <<up, image, sent, filled, got, cut>>
    BY <1>3 DEF Carry, it, history
  <2>2. /\ Len(wire) >= 1 /\ Head(wire) = wire[1] /\ Len(wire') = Len(wire) - 1 /\ Len(wire) \in Nat
        /\ \A k \in 1..Len(wire') : wire'[k] = wire[k + 1]
        /\ wire \in Seq(Byte \cup {RESET}) /\ wire' \in Seq(Byte \cup {RESET})
    BY <2>1, Lines
  <2>3. \A k \in 1..Len(wire) : wire[k] = RESET => k = Len(wire)
    BY <1>0 DEF Quiet
  <2>4. \A k \in 1..Len(wire') : wire'[k] = RESET => k = Len(wire')
    <3> SUFFICES ASSUME NEW k \in 1..Len(wire'), wire'[k] = RESET PROVE k = Len(wire')
      OBVIOUS
    <3>1. k + 1 \in 1..Len(wire) /\ wire[k + 1] = RESET
      BY <2>2
    <3>2. k + 1 = Len(wire)
      BY <2>3, <3>1
    <3> QED BY <2>2, <3>2
  <2>5. CASE Head(wire) = RESET
    <3>1. Reset
      BY <1>3, <2>5 DEF Carry
    <3>2. wire' = <<>>
      <4>1. 1 \in 1..Len(wire)
        BY <2>2
      <4>2. 1 = Len(wire)
        BY <2>2, <2>3, <2>5, <4>1
      <4>3. Len(wire') = 0
        BY <2>2, <4>2
      <4> QED BY <2>2, <4>3, EmptySeq
    <3>3. /\ mode' = "boot" /\ midiByteQueue' = <<>> /\ midiOutQueue' = <<>> /\ answer' = <<>>
          /\ buffer' = EmptyBuffer /\ flash' = flash
      BY <3>1 DEF Reset
    <3>4. Quiet'
      BY <1>0, <2>1, <3>2, <3>3 DEF Quiet, NothingBack
    <3>5. Idle'
      BY <2>1, <3>2, <3>3, <3>4 DEF Idle
    <3> QED BY <2>1, <3>3, <3>5, AcknowledgedStays
  <2>6. CASE Head(wire) # RESET
    <3>1. wire # <<RESET>>
      BY <2>6
    <3>2. mode = "app" /\ up # "entering"
      BY <1>0, <2>1, <3>1 DEF Quiet, Idle
    <3>3. UNCHANGED bootVars
      BY <1>3, <2>6, <3>2 DEF Carry
    <3>4. UNCHANGED <<mode, midiOutQueue, answer, flash>>
      BY <3>3 DEF bootVars, memory
    <3>5. Quiet'
      BY <1>0, <2>1, <2>4, <3>2, <3>4 DEF Quiet, NothingBack
    <3>6. Idle'
      BY <2>1, <3>2, <3>5 DEF Idle
    <3> QED BY <2>1, <3>4, <3>6, AcknowledgedStays
  <2> QED BY <2>5, <2>6
<1>4. CASE Poll
  <2>1. ~ HasPacket(midiOutQueue)
    BY <1>0 DEF NothingBack, HasPacket
  <2>2. /\ UNCHANGED <<up, image, sent, filled, wire, got, cut>>
        /\ UNCHANGED <<mode, midiByteQueue, midiOutQueue, answer, buffer, flash>>
    BY <1>4, <2>1 DEF Poll, onRequestService, it, history, memory
  <2>3. Quiet' /\ Idle'
    BY <1>0, <2>2 DEF Quiet, NothingBack, Idle
  <2> QED BY <2>2, <2>3, AcknowledgedStays
<1>5. CASE PowerFails
  BY <1>5, PowerBack
<1> QED BY <1>1, <1>2, <1>3, <1>4, <1>5 DEF Next

\* A message on its way,
LEMMA GoingStep ==
  ASSUME UploadTypeOK, BatchInv, Acknowledged, Next, ~ late',
         NEW c \in Commands, NEW a \in FileBytes, NEW d, d = Data(c, a), NEW n \in Nat,
         up \in {"asking", "waiting", "failed", "done"}, Meant(c, a), Before(c, a), GoingAt(c, d, n)
  PROVE  Acknowledged' /\ (Idle' \/ Busy')
<1>0. d \in Seq(Half) /\ Len(d) <= 2 * (CHUNK_SIZE + 2) /\ (c # MIDIBOOT_FILLPAGE => d = <<>>)
  BY DataFacts
<1>g. got = <<>>
  BY DEF GoingAt, NothingBack
<1>1. CASE BootStep
  <2>0. UNCHANGED upVars /\ UNCHANGED <<up, image, sent, filled, cut>>
    BY <1>1 DEF BootStep, upVars, it, history
  <2>u. up' \in {"asking", "waiting", "failed", "done"} /\ Meant(c, a)'
    BY <2>0, MeantStays
  <2>1. CASE UNCHANGED carried /\ \E m \in Nat : GoingAt(c, d, m)'
    <3>1. UNCHANGED <<cancelTimeout, pageAddress, buffer, flash>>
      BY <2>1 DEF carried
    <3>2. Before(c, a)' /\ Acknowledged'
      BY <2>0, <3>1, BeforeStays, AcknowledgedStays
    <3> QED BY <2>0, <2>1, <2>u, <3>2, BusyGoing
  <2>2. CASE PageSize
    <3>1. c = MIDIBOOT_GETPAGESIZE
      BY <1>0, <2>0, <2>2, GoingOnly, Zenon
    <3>2. AnsweringAt(c, 0)' /\ UNCHANGED <<pageAddress, buffer, flash>>
      BY <1>0, <2>0, <2>2, <3>1, CommandsAre, GoingPageSize, Zenon
    <3>3. After(c, a)'
      BY <2>0, <3>1, <3>2, CommandsAre DEF After, Before
    <3>4. Acknowledged' /\ c # MIDIBOOT_LEAVE_BOOT /\ 0 \in Nat
      BY <2>0, <3>1, <3>2, CommandsAre, AcknowledgedStays
    <3> QED BY <2>0, <2>u, <3>2, <3>3, <3>4, BusyAnswering, Zenon
  <2>3. CASE FillPage
    <3>1. c = MIDIBOOT_FILLPAGE
      BY <1>0, <2>0, <2>3, GoingOnly, Zenon
    <3>2. AnsweringAt(c, 0)' /\ After(c, a)' /\ flash' = flash
      BY <2>0, <2>3, <3>1, GoingFills, Zenon
    <3>3. Acknowledged' /\ c # MIDIBOOT_LEAVE_BOOT /\ 0 \in Nat
      BY <2>0, <3>1, <3>2, CommandsAre, AcknowledgedStays
    <3> QED BY <2>0, <2>u, <3>2, <3>3, BusyAnswering, Zenon
  <2>4. CASE ErasePage
    <3>1. c = MIDIBOOT_WRITEPAGE
      BY <1>0, <2>0, <2>4, GoingOnly, Zenon
    <3>2. Erasing' /\ Before(c, a)' /\ Acknowledged'
      BY <2>0, <2>4, <3>1, GoingErases, Zenon
    <3> QED BY <2>0, <2>u, <3>1, <3>2, BusyErasing, Zenon
  <2>5. CASE Leave
    <3>1. up = "done"
      BY <1>0, <2>0, <2>5, GoingOnly, Zenon DEF Meant
    <3>2. Quiet'
      BY <1>0, <2>0, <2>5, GoingLeaves, Zenon
    <3>3. Idle'
      BY <2>0, <3>1, <3>2 DEF Idle
    <3>4. flash' = flash
      BY <2>5 DEF Leave, memory
    <3> QED BY <2>0, <3>3, <3>4, AcknowledgedStays
  <2>6. CASE Timeout
    <3>1. up # "waiting" /\ flash' = flash
      BY <2>6 DEF Timeout, Before, Meant, memory
    <3>2. Quiet'
      BY <1>0, <2>0, <2>6, GoingLeaves, Zenon
    <3>3. Idle'
      BY <2>0, <3>1, <3>2 DEF Idle
    <3> QED BY <2>0, <3>1, <3>3, AcknowledgedStays
  <2>7. MainLoop => \/ UNCHANGED carried /\ \E m \in Nat : GoingAt(c, d, m)'
                    \/ PageSize \/ FillPage \/ ErasePage \/ Leave
    BY <1>0, <2>0, GoingMoves, Zenon
  <2> QED BY <1>1, <2>1, <2>2, <2>3, <2>4, <2>5, <2>6, <2>7 DEF BootStep
<1>2. CASE HostStep
  <2>1. CASE \E f \in Images : EnterBootloader(f)
    BY <2>1, Enters, Zenon
  <2>2. ~ AskPageSize
    BY DEF AskPageSize
  <2>3. ~ AnswerBegins /\ ~ PageSizeByte /\ ~ AckByte
    BY <1>g, NoRead
  <2>4. Busy
    <3>1. Under(c, a)
      BY DEF Under
    <3> QED BY <3>1 DEF Busy
  <2>5. CASE GiveUp
    BY <2>4, <2>5, GivesUp
  <2> QED BY <1>2, <2>1, <2>2, <2>3, <2>5 DEF HostStep
<1>3. CASE Carry
  <2>0. UNCHANGED <<up, image, sent, filled, got, cut>>
    BY <1>3 DEF Carry, it, history
  <2>u. up' \in {"asking", "waiting", "failed", "done"} /\ Meant(c, a)'
    BY <2>0, MeantStays
  <2>1. CASE c = MIDIBOOT_LEAVE_BOOT /\ Reset /\ wire' = <<>>
    <3>1. up = "done"
      BY <2>1 DEF Meant
    <3>2. /\ midiByteQueue' = <<>> /\ midiOutQueue' = <<>> /\ answer' = <<>> /\ flash' = flash
      BY <2>1 DEF Reset
    <3>3. Quiet'
      BY <1>g, <2>0, <2>1, <3>2 DEF Quiet, NothingBack
    <3>4. Idle'
      BY <2>0, <3>1, <3>3 DEF Idle
    <3> QED BY <2>0, <3>2, <3>4, AcknowledgedStays
  <2>2. CASE GoingAt(c, d, n)' /\ UNCHANGED <<mode, cancelTimeout, pageAddress, buffer, flash>>
    <3>1. Before(c, a)' /\ Acknowledged'
      BY <2>0, <2>2, BeforeStays, AcknowledgedStays
    <3> QED BY <2>0, <2>2, <2>u, <3>1, BusyGoing, Zenon
  <2> QED BY <1>0, <1>3, <2>1, <2>2, GoingCarry, Zenon
<1>4. CASE Poll
  <2>0. UNCHANGED <<up, image, sent, filled>>
    BY <1>4 DEF Poll, it
  <2>u. up' \in {"asking", "waiting", "failed", "done"} /\ Meant(c, a)'
    BY <2>0, MeantStays
  <2>1. GoingAt(c, d, n)' /\ UNCHANGED carried
    BY <1>4, GoingPolled, Zenon
  <2>2. Before(c, a)' /\ Acknowledged'
    BY <2>0, <2>1, BeforeStays, AcknowledgedStays DEF carried
  <2> QED BY <2>0, <2>1, <2>2, <2>u, BusyGoing, Zenon
<1>5. CASE PowerFails
  BY <1>5, PowerBack
<1> QED BY <1>1, <1>2, <1>3, <1>4, <1>5 DEF Next

\* a page between its erasure and its write,
LEMMA ErasingStep ==
  ASSUME UploadTypeOK, BatchInv, Acknowledged, Next, ~ late', NEW a \in FileBytes,
         up \in {"asking", "waiting", "failed", "done"},
         Meant(MIDIBOOT_WRITEPAGE, a), Before(MIDIBOOT_WRITEPAGE, a), Erasing
  PROVE  Acknowledged' /\ (Idle' \/ Busy')
<1> DEFINE c == MIDIBOOT_WRITEPAGE
<1>0. got = <<>> /\ wire = <<>> /\ pc = "erased" /\ c \in Commands /\ c # MIDIBOOT_LEAVE_BOOT
  BY CommandsAre DEF Erasing, NothingBack
<1>1. CASE BootStep
  <2>0. UNCHANGED upVars /\ UNCHANGED <<up, image, sent, filled>>
    BY <1>1 DEF BootStep, upVars, it
  <2>1. WritePage
    BY <1>0, <1>1 DEF BootStep, MainLoop, Timeout, Look, OneByte, BeginByte, PrefixByte, CommandByte, DataByte,
         StrayByte, Leave, PageSize, FillPage, ErasePage, EndOfOther, SendByte, RaisePin, Advance
  <2>2. AnsweringAt(c, 0)' /\ After(c, a)' /\ Acknowledged'
    BY <2>0, <2>1, ErasingWrites, Zenon
  <2>3. Meant(c, a)' /\ up' \in {"asking", "waiting", "failed", "done"} /\ 0 \in Nat
    BY <2>0, MeantStays
  <2> QED BY <1>0, <2>0, <2>2, <2>3, BusyAnswering, Zenon
<1>2. CASE HostStep
  <2>1. CASE \E f \in Images : EnterBootloader(f)
    BY <2>1, Enters, Zenon
  <2>2. ~ AskPageSize
    BY DEF AskPageSize
  <2>3. ~ AnswerBegins /\ ~ PageSizeByte /\ ~ AckByte
    BY <1>0, NoRead
  <2>4. Busy
    <3>1. Under(c, a)
      BY DEF Under
    <3> QED BY <1>0, <3>1 DEF Busy
  <2>5. CASE GiveUp
    BY <2>4, <2>5, GivesUp
  <2> QED BY <1>2, <2>1, <2>2, <2>3, <2>5 DEF HostStep
<1>3. ~ Carry /\ ~ Poll
  BY <1>0 DEF Carry, Poll, onRequestService
<1>4. CASE PowerFails
  BY <1>4, PowerBack
<1> QED BY <1>1, <1>2, <1>3, <1>4 DEF Next

\* and a reply on its way back.
LEMMA AnsweringStep ==
  ASSUME UploadTypeOK, BatchInv, Acknowledged, Next, ~ late', NEW c \in Commands, NEW a \in FileBytes,
         NEW r \in Nat, up \in {"asking", "waiting", "failed", "done"}, c # MIDIBOOT_LEAVE_BOOT,
         Meant(c, a), After(c, a), AnsweringAt(c, r)
  PROVE  Acknowledged' /\ (Idle' \/ Busy')
<1>1. CASE BootStep
  <2>0. UNCHANGED upVars /\ UNCHANGED <<up, image, sent, filled>>
    BY <1>1 DEF BootStep, upVars, it
  <2>1. SendByte \/ RaisePin \/ Advance
    BY <1>1, AnsweringSteps, Zenon DEF BootStep
  <2>2. AnsweringAt(c, r)' /\ UNCHANGED <<pageAddress, buffer, flash>>
    BY <2>0, <2>1, AnsweringSends, Zenon
  <2>3. Meant(c, a)' /\ After(c, a)' /\ Acknowledged' /\ up' \in {"asking", "waiting", "failed", "done"}
    BY <2>0, <2>2, MeantStays, AfterStays, AcknowledgedStays
  <2> QED BY <2>0, <2>2, <2>3, BusyAnswering, Zenon
<1>2. CASE HostStep
  <2>1. CASE \E f \in Images : EnterBootloader(f)
    BY <2>1, Enters, Zenon
  <2>2. ~ AskPageSize
    BY DEF AskPageSize
  <2>3. CASE AnswerBegins \/ PageSizeByte \/ AckByte
    <3>1. CASE AnsweringAt(c, r + 1)' /\ UNCHANGED <<pageAddress, buffer, flash, image, up, it>>
      <4>1. Meant(c, a)' /\ After(c, a)' /\ Acknowledged' /\ up' \in {"asking", "waiting", "failed", "done"}
        BY <3>1, MeantStays, AfterStays, AcknowledgedStays DEF it
      <4>2. r + 1 \in Nat /\ image' = image
        BY <3>1
      <4> QED BY <3>1, <4>1, <4>2, BusyAnswering, Zenon
    <3> QED BY <2>3, <3>1, AnsweringRead, Zenon
  <2>4. Busy
    <3>1. Under(c, a)
      BY DEF Under
    <3> QED BY <3>1 DEF Busy
  <2>5. CASE GiveUp
    BY <2>4, <2>5, GivesUp
  <2> QED BY <1>2, <2>1, <2>2, <2>3, <2>5 DEF HostStep
<1>3. ~ Carry
  BY DEF Carry, AnsweringAt
<1>4. CASE Poll
  <2>0. UNCHANGED <<up, image, sent, filled>>
    BY <1>4 DEF Poll, it
  <2>2. AnsweringAt(c, r)' /\ UNCHANGED <<pageAddress, buffer, flash>>
    BY <1>4, AnsweringPolled, Zenon
  <2>3. Meant(c, a)' /\ After(c, a)' /\ Acknowledged' /\ up' \in {"asking", "waiting", "failed", "done"}
    BY <2>0, <2>2, MeantStays, AfterStays, AcknowledgedStays
  <2> QED BY <2>0, <2>2, <2>3, BusyAnswering, Zenon
<1>5. CASE PowerFails
  BY <1>5, PowerBack
<1> QED BY <1>1, <1>2, <1>3, <1>4, <1>5 DEF Next

LEMMA BusyStep ==
  ASSUME UploadTypeOK, BatchInv, Acknowledged, Busy, Next, ~ late'
  PROVE  Acknowledged' /\ (Idle' \/ Busy')
<1>1. PICK c \in Commands, a \in FileBytes : Meant(c, a) /\ Under(c, a)
  BY DEF Busy
<1>0. up \in {"asking", "waiting", "failed", "done"}
  BY DEF Busy
<1>2. CASE Before(c, a) /\ \E d \in {Data(c, a)}, n \in Nat : GoingAt(c, d, n)
  <2>1. PICK d \in {Data(c, a)}, n \in Nat : d = Data(c, a) /\ GoingAt(c, d, n)
    BY <1>2
  <2> QED BY <1>0, <1>1, <1>2, <2>1, GoingStep, Zenon
<1>3. CASE Before(c, a) /\ Erasing /\ c = MIDIBOOT_WRITEPAGE
  BY <1>0, <1>1, <1>3, ErasingStep, Zenon
<1>4. CASE After(c, a) /\ \E r \in Nat : AnsweringAt(c, r) /\ c # MIDIBOOT_LEAVE_BOOT
  <2>1. PICK r \in Nat : AnsweringAt(c, r) /\ c # MIDIBOOT_LEAVE_BOOT
    BY <1>4
  <2> QED BY <1>0, <1>1, <1>4, <2>1, AnsweringStep, Zenon
<1> QED BY <1>1, <1>2, <1>3, <1>4 DEF Under

-----------------------------------------------------------------------------
(* Theorems                                                                 *)

\* In a run that is not late nothing but its own messages is under way; the parser, the
\* loop's place in its batch, the bytes in the two queues and the host's place in the reply
\* fit together, and the page buffer and the flash have what has been acknowledged.
THEOREM Invariance == Spec => []IInv
<1>1. Init => IInv
  <2> SUFFICES ASSUME Init PROVE IInv
    OBVIOUS
  <2>1. UploadTypeOK /\ BatchInv
    BY TypeInit
  <2>2. ASSUME ~ late PROVE Acknowledged /\ Idle
    <3>1. wire = <<>> /\ up = "off"
      BY <2>2, Zenon DEF Init
    <3>2. got = <<>> /\ midiByteQueue = <<>> /\ midiOutQueue = <<>> /\ answer = <<>>
      BY DEF Init, Started
    <3> QED BY <3>1, <3>2 DEF Acknowledged, Idle, Quiet, NothingBack
  <2> QED BY <2>1, <2>2 DEF IInv
<1>2. IInv /\ [Next]_vars => IInv'
  <2> SUFFICES ASSUME IInv, [Next]_vars PROVE IInv'
    OBVIOUS
  <2>0. UploadTypeOK /\ BatchInv /\ (~ late => Acknowledged /\ (Idle \/ Busy))
    BY DEF IInv
  <2>1. UploadTypeOK' /\ BatchInv'
    BY <2>0, TypeStep, Zenon
  <2>2. ASSUME ~ late' PROVE Acknowledged' /\ (Idle' \/ Busy')
    <3>1. CASE \E f \in Images : EnterBootloader(f)
      BY <2>0, <2>2, <3>1, Enters, Zenon
    <3>2. CASE Next /\ ~ \E f \in Images : EnterBootloader(f)
      <4>1. late' = late
        BY <3>2 DEF Next, BootStep, HostStep, AskPageSize, AnswerBegins, PageSizeByte, AckByte, HostReads,
             GiveUp, Carry, Poll, PowerFails, upVars, history
      <4>2. Acknowledged /\ (Idle \/ Busy)
        BY <2>0, <2>2, <4>1
      <4> QED BY <2>0, <2>2, <3>2, <4>2, IdleStep, BusyStep, Zenon
    <3>3. CASE UNCHANGED vars
      <4>1. UNCHANGED <<bootVars, image, it, answered, wire, got, cut>> /\ up' = up /\ late' = late
        BY <3>3 DEF vars, upVars, history
      <4> QED BY <2>0, <2>2, <4>1, Stands, Zenon
    <3> QED BY <3>1, <3>2, <3>3
  <2> QED BY <2>1, <2>2 DEF IInv
<1> QED BY <1>1, <1>2, PTL DEF Spec

\* Whatever the image and however it falls into pages and chunks, in every run that began
\* with nothing of an earlier one left to be answered, through power failures and after
\* any broken runs: a page whose write is acknowledged is in flash while the uploader goes
\* on, and the whole file is when it reports success. Nothing is claimed of late runs
\* (uploader main.cpp 439-470, avr_code/main.c 209-262).
THEOREM FlashIsAsSent == Spec => []FlashAsSent
<1>1. IInv => FlashAsSent
  <2> SUFFICES ASSUME IInv, ~ late
               PROVE  /\ up = "waiting" => Holds(image, PageStart(sent - 1))
                      /\ up = "done" => Holds(image, Len(image))
    BY DEF FlashAsSent
  <2>0. UploadTypeOK /\ Acknowledged
    BY DEF IInv
  <2>f. Len(image) \in Nat /\ sent \in Nat /\ sent <= Len(image)
    BY <2>0, HostFacts
  <2>1. ASSUME NEW k \in Nat, k >= 1, InFlash(k - 1)
        PROVE  flash[(k - 1) \div SPM_PAGESIZE][(k - 1) % SPM_PAGESIZE] = image[k]
    <3>1. (k - 1) + 1 = k
      OBVIOUS
    <3> QED BY <2>1, <3>1 DEF InFlash, Pg, Of
  <2>2. ASSUME up = "waiting" PROVE Holds(image, PageStart(sent - 1))
    <3>1. sent - 1 \in Nat
      BY <2>0, <2>2, <2>f DEF Acknowledged
    <3>2. ASSUME NEW k \in 1..PageStart(sent - 1) PROVE InFlash(k - 1) /\ k \in Nat /\ k >= 1
      <4>1. PageStart(sent - 1) \in Nat /\ PageStart(sent - 1) <= sent - 1
        BY <3>1, PageFacts
      <4>2. k \in Nat /\ k >= 1 /\ k - 1 \in Nat /\ k - 1 < PageStart(sent - 1) /\ k - 1 < Len(image)
        BY <2>f, <3>1, <4>1
      <4>3. Pg(k - 1) < Pg(sent - 1)
        BY <3>1, <4>2, PageFacts
      <4>4. k - 1 \in FileBytes
        BY <2>0, <4>2, FileByte
      <4> QED BY <2>0, <2>2, <4>2, <4>3, <4>4 DEF Acknowledged
    <3> QED BY <2>1, <3>2 DEF Holds
  <2>3. ASSUME up = "done" PROVE Holds(image, Len(image))
    <3>1. ASSUME NEW k \in 1..Len(image) PROVE InFlash(k - 1) /\ k \in Nat /\ k >= 1
      <4>1. k \in Nat /\ k >= 1 /\ k - 1 \in Nat /\ k - 1 < Len(image)
        BY <2>f
      <4>2. k - 1 \in FileBytes
        BY <2>0, <4>1, FileByte
      <4> QED BY <2>0, <2>3, <4>1, <4>2 DEF Acknowledged
    <3> QED BY <2>1, <3>1 DEF Holds
  <2> QED BY <2>2, <2>3
<1> QED BY <1>1, Invariance, PTL

\* In a run that is not late no answer begins in the queue to the PIC before the one before
\* it has gone: what says where a packet ends is never asked about two (avr_code/main.c
\* 70-89).
THEOREM EndComesLast == Spec => []EndLast
<1>1. IInv => EndLast
  <2> SUFFICES ASSUME IInv, ~ late, NEW k \in 1..(Len(midiOutQueue) - 1)
               PROVE  midiOutQueue[k] # SYSEX_END
    BY DEF EndLast
  <2>0. UploadTypeOK /\ (Idle \/ Busy)
    BY DEF IInv
  <2>1. midiOutQueue # <<>>
    BY <2>0, LineSizes
  <2>2. ~ Idle
    BY <2>1 DEF Idle, Quiet, NothingBack
  <2>3. PICK c \in Commands, a \in FileBytes : Under(c, a)
    BY <2>0, <2>2 DEF Busy
  <2>4. ~ (\E d \in {Data(c, a)}, n \in Nat : GoingAt(c, d, n)) /\ ~ Erasing
    BY <2>1 DEF GoingAt, Erasing, NothingBack
  <2>5. PICK r \in Nat : AnsweringAt(c, r)
    BY <2>3, <2>4 DEF Under
  <2> DEFINE g == Len(got)
             o == Len(midiOutQueue)
             z == Len(Reply(c))
  <2>6. /\ g + o + Len(answer) = z - r
        /\ \A j \in 1..o : midiOutQueue[j] = Reply(c)[r + g + j]
    BY <2>5 DEF AnsweringAt, OnWayBack
  <2>7. g \in Nat /\ o \in Nat /\ Len(answer) \in Nat /\ z \in Nat
    BY <2>0, LineSizes, ReplyBytes
  <2>8. midiOutQueue[k] = Reply(c)[r + g + k]
    BY <2>6, <2>7
  <2>9. r + g + k \in 1..z /\ r + g + k # z
    <3>1. g + o + Len(answer) = z - r /\ k \in 1..(o - 1)
      BY <2>6
    <3> HIDE DEF g, o, z
    <3> QED BY <2>7, <3>1
  <2> QED BY <2>8, <2>9, ReplyBytes
<1> QED BY <1>1, Invariance, PTL

\* In a run that is not late and in which the power has not failed, the bootloader is what
\* runs while the uploader waits for an ack: its timeout has been cancelled, and nothing
\* else starts the application (avr_code/main.c 173-177, 196-199).
THEOREM StaysForTheUpload == Spec => []StaysForUpload
<1>1. IInv => StaysForUpload
  <2> SUFFICES ASSUME IInv, up = "waiting", ~ late, ~ cut PROVE mode = "boot"
    BY DEF StaysForUpload
  <2>1. Busy
    BY DEF IInv, Idle
  <2>2. PICK c \in Commands, a \in FileBytes : Under(c, a)
    BY <2>1 DEF Busy
  <2> QED BY <2>2 DEF Under, GoingAt, Erasing, AnsweringAt
<1> QED BY <1>1, Invariance, PTL
=============================================================================
