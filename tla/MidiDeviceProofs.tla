-------------------------- MODULE MidiDeviceProofs --------------------------
(***************************************************************************)
(* What holds of a MIDI device for every queue length and every set of      *)
(* input bytes: the safety properties of MidiDeviceProps.                   *)
(***************************************************************************)
EXTENDS MidiDeviceProps, SequenceTheorems, TLAPS

\* The callback gets the bytes one by one.
LEMMA Called ==
  ASSUME NEW buffer \in [0..2 -> Byte]
  PROVE  /\ [i \in 1..1 |-> buffer[i - 1]] = <<buffer[0]>>
         /\ [i \in 1..2 |-> buffer[i - 1]] = <<buffer[0], buffer[1]>>
         /\ [i \in 1..3 |-> buffer[i - 1]] = <<buffer[0], buffer[1], buffer[2]>>
  BY DEF Byte

\* A completed message.
LEMMA Completed ==
  ASSUME NEW n \in 1..3, Completes(n), input_buffer' \in [0..2 -> Byte]
  PROVE  /\ input_count' = 1
         /\ call' \in Seq(Byte)
         /\ n = 2 => call' = <<input_buffer[0]', input_buffer[1]'>>
         /\ n = 3 => call' = <<input_buffer[0]', input_buffer[1]', input_buffer[2]'>>
<1>1. input_count' = 1 /\ call' = [i \in 1..n |-> input_buffer'[i - 1]]
  BY DEF Completes, midi_input_callbacks
<1>2. CASE n = 1
  BY <1>1, <1>2, Called
<1>3. CASE n = 2
  BY <1>1, <1>3, Called
<1>4. CASE n = 3
  BY <1>1, <1>4, Called
<1> QED
  BY <1>2, <1>3, <1>4

-----------------------------------------------------------------------------
(* The device by itself                                                     *)

\* What a call of midi_device_process still owes is in the queue.
Owed == left <= Len(input_queue) /\ (pc = "remove" => left > 0)

DeviceInv == TypeOK /\ InsideBuffer /\ Owed

\* midi_process_byte leaves the parser in a state of its type, with the buffer not
\* overfull, and hands the callback bytes.
LEMMA ProcessType ==
  ASSUME TypeOK, InsideBuffer, NEW b \in Byte, midi_process_byte(b)
  PROVE  /\ input_state' \in States
         /\ input_count' \in 0..3
         /\ input_buffer' \in [0..2 -> Byte]
         /\ call' \in Seq(Byte)
         /\ InsideBuffer'
<1> USE DEF TypeOK, States, InsideBuffer
<1>0. input_buffer \in [0..2 -> Byte] /\ input_count \in 0..3
  OBVIOUS
<1>1. CASE RealtimeByte(b)
  BY <1>1 DEF RealtimeByte, parser
<1>2. CASE StatusByte(b)
  <2>1. input_buffer' \in [0..2 -> Byte] /\ input_count' \in 0..3
    BY <1>2 DEF StatusByte, Stored, StoredCount
  <2>2. midi_packet_length(b) \in {ONE, TWO, THREE}
    BY <1>2 DEF StatusByte, midi_packet_length
  <2>3. /\ input_state' \in {"IDLE", "TWO_BYTE_MESSAGE", "THREE_BYTE_MESSAGE"}
        /\ call' \in Seq(Byte)
    BY <1>2, <2>2 DEF StatusByte, ONE, TWO, THREE
  <2>4. InsideBuffer'
    BY <1>2, <2>1 DEF StatusByte, StoredCount, InSysex
  <2> QED
    BY <2>1, <2>3, <2>4
<1>3. CASE SysexBegin(b)
  BY <1>3 DEF SysexBegin
<1>4. CASE SysexEnd(b)
  <2> DEFINE n == IF StoredCount > 2 THEN 2 ELSE StoredCount
  <2>1. n \in 0..2
    BY DEF StoredCount
  <2>2. input_buffer' \in [0..2 -> Byte]
    BY <1>4 DEF SysexEnd, Stored
  <2>3. call' = [i \in 1..(n + 1) |-> input_buffer'[i - 1]]
    BY <1>4 DEF SysexEnd, midi_input_callbacks
  <2>4. n + 1 \in 1..3 /\ input_count' = n + 1 /\ input_state' = "IDLE"
    BY <1>4, <2>1 DEF SysexEnd
  <2>5. call' \in Seq(Byte)
    <3>1. CASE n = 0
      BY <2>2, <2>3, <3>1, Called
    <3>2. CASE n = 1
      BY <2>2, <2>3, <3>2, Called
    <3>3. CASE n = 2
      <4>1. call' = [i \in 1..3 |-> input_buffer'[i - 1]]
        BY <2>3, <3>3
      <4>2. /\ call' = <<input_buffer'[0], input_buffer'[1], input_buffer'[2]>>
            /\ input_buffer'[0] \in Byte /\ input_buffer'[1] \in Byte
            /\ input_buffer'[2] \in Byte
        BY <2>2, <4>1, Called
      <4> QED BY ONLY <4>2
    <3> QED
      BY <2>1, <3>1, <3>2, <3>3
  <2> HIDE DEF n
  <2>6. InsideBuffer' /\ input_count' \in 0..3 /\ input_state' \in States
    BY <2>1, <2>4 DEF InsideBuffer, States
  <2> QED
    BY <2>2, <2>5, <2>6
<1>5. CASE UndefinedStatus(b)
  BY <1>5 DEF UndefinedStatus, Stored
<1>6. CASE IgnoredData(b)
  BY <1>6 DEF IgnoredData
<1>7. CASE MessageData(b)
  <2>1. input_buffer' \in [0..2 -> Byte] /\ input_count \in 1..2
    BY <1>7 DEF MessageData
  <2>2. CASE input_count = 2
    <3>1. Completes(3) /\ input_state' = input_state
      BY <1>7, <2>2 DEF MessageData
    <3> QED
      BY <2>1, <2>2, <3>1, Completed
  <2>3. CASE input_count = 1 /\ input_state = "TWO_BYTE_MESSAGE"
    <3>1. Completes(2) /\ input_state' = input_state
      BY <1>7, <2>3 DEF MessageData
    <3> QED
      BY <2>1, <2>3, <3>1, Completed
  <2>4. CASE input_count = 1 /\ input_state # "TWO_BYTE_MESSAGE"
    BY <1>7, <2>1, <2>4 DEF MessageData
  <2> QED
    BY <2>1, <2>2, <2>3, <2>4
<1> QED
  BY <1>1, <1>2, <1>3, <1>4, <1>5, <1>6, <1>7 DEF midi_process_byte

LEMMA DeviceInit == Init => DeviceInv
  BY QueueLengthAssumption
  DEF Init, DeviceInv, TypeOK, InsideBuffer, Owed, States, Byte

LEMMA DeviceStep == DeviceInv /\ [Next]_vars => DeviceInv'
<1> SUFFICES ASSUME DeviceInv, [Next]_vars PROVE DeviceInv'
  OBVIOUS
<1> USE QueueLengthAssumption, InputBytesAssumption DEF DeviceInv
<1>1. CASE midi_device_input
  BY <1>1 DEF midi_device_input, TypeOK, InsideBuffer, Owed, parser
<1>2. CASE ProcessBegin
  BY <1>2 DEF ProcessBegin, TypeOK, InsideBuffer, Owed, parser
<1>3. CASE ProcessByte
  <2>1. Head(input_queue) \in Byte
    BY <1>3 DEF ProcessByte, TypeOK, Owed
  <2>2. /\ input_state' \in States
        /\ input_count' \in 0..3
        /\ input_buffer' \in [0..2 -> Byte]
        /\ call' \in Seq(Byte)
        /\ InsideBuffer'
    BY <1>3, <2>1, ProcessType DEF ProcessByte
  <2> QED
    BY <1>3, <2>2 DEF ProcessByte, TypeOK, Owed
<1>4. CASE ProcessRemove
  BY <1>4 DEF ProcessRemove, TypeOK, InsideBuffer, Owed, parser
<1>5. CASE ProcessEnd
  BY <1>5 DEF ProcessEnd, TypeOK, InsideBuffer, Owed, parser
<1>6. CASE UNCHANGED vars
  BY <1>6 DEF vars, TypeOK, InsideBuffer, Owed, parser
<1> QED
  BY <1>1, <1>2, <1>3, <1>4, <1>5, <1>6 DEF Next, midi_device_process

\* The type invariant.
THEOREM TypeCorrect == Spec => []TypeOK
<1>1. DeviceInv => TypeOK
  BY DEF DeviceInv
<1> QED
  BY DeviceInit, DeviceStep, <1>1, PTL DEF Spec

\* The parser never stores outside its buffer, and its "should not happen" branch
\* for a data byte is dead.
THEOREM BufferSafe == Spec => []InsideBuffer
<1>1. DeviceInv => InsideBuffer
  BY DEF DeviceInv
<1> QED
  BY DeviceInit, DeviceStep, <1>1, PTL DEF Spec

\* midi_device_process never removes a byte that is not there.
THEOREM RemovesWhatIsThere == Spec => []NeverTakesAbsent
<1>1. DeviceInv => NeverTakesAbsent
  BY DEF DeviceInv, Owed, NeverTakesAbsent
<1> QED
  BY DeviceInit, DeviceStep, <1>1, PTL DEF Spec

-----------------------------------------------------------------------------
(* The device and its listener                                              *)

\* The bytes of the message that the parser is in, as far as they came.
Held == IF input_count = 2 THEN <<input_buffer[0], input_buffer[1]>>
        ELSE <<input_buffer[0]>>

\* A system common message that is complete.
Said == status \in {241, 242, 243} /\ heard = <<>>

ListenerType ==
  /\ status \in {0} \cup 128..247
  /\ heard \in Seq(Byte)
  /\ garbled \in BOOLEAN

\* The parser and the listener are in system-exclusive messages together, with the
\* same data; the start of the message is still in the buffer after it was told.
SysexAgrees ==
  /\ HeardSysex <=> InSysex
  /\ HeardSysex => /\ input_buffer[0] = SYSEX_BEGIN
                   /\ heard = Held \/ heard = Tail(Held)
                   /\ input_count = 2 => input_buffer[1] # SYSEX_BEGIN

\* Unless the stream is garbled, the same holds of every other message.
MessageAgrees ==
  ~garbled =>
    /\ status = 0 => input_state = "IDLE"
    /\ status # 0 /\ ~HeardSysex =>
         /\ midi_packet_length(status) \in {TWO, THREE}
         /\ input_state = IF midi_packet_length(status) = TWO
                          THEN "TWO_BYTE_MESSAGE" ELSE "THREE_BYTE_MESSAGE"
         /\ input_buffer[0] = status
         /\ heard = Held \/ (Said /\ input_count = 1)
         /\ input_count = 2 => midi_packet_length(status) = THREE

Agreement == ListenerType /\ SysexAgrees /\ MessageAgrees /\ HeardAsSent

WireInv == DeviceInv /\ Agreement

\* What the sequence operators make of the few bytes of a message.
LEMMA FewBytes ==
  ASSUME NEW x \in Byte, NEW y \in Byte, NEW z \in Byte
  PROVE  /\ Tail(<<x>>) = <<>> /\ Tail(<<x, y>>) = <<y>>
         /\ Append(<<>>, x) = <<x>>
         /\ Append(<<x>>, y) = <<x, y>>
         /\ Append(<<x, y>>, z) = <<x, y, z>>
         /\ Len(<<x, y>>) = 2 /\ Len(<<x, y, z>>) = 3
<1>1. Tail(<<x>>) = <<>>
  OBVIOUS
<1>2. Tail(<<x, y>>) = <<y>>
  OBVIOUS
<1>3. Append(<<>>, x) = <<x>>
  OBVIOUS
<1>4. Append(<<x>>, y) = <<x, y>>
  <2> DEFINE s == Append(<<x>>, y)
  <2>1. <<x>> \in Seq(Byte) /\ Len(<<x>>) = 1
    OBVIOUS
  <2>2. s \in Seq(Byte) /\ Len(s) = 2 /\ s[1] = x /\ s[2] = y
    BY <2>1, AppendProperties
  <2>3. <<x, y>> \in Seq(Byte) /\ Len(<<x, y>>) = 2
    OBVIOUS
  <2> HIDE DEF s
  <2>4. \A i \in 1..Len(s) : s[i] = <<x, y>>[i]
    BY <2>2
  <2>5. s = <<x, y>>
    BY <2>2, <2>3, <2>4, SeqEqual
  <2> QED
    BY <2>5 DEF s
<1>5. Append(<<x, y>>, z) = <<x, y, z>>
  <2> DEFINE s == Append(<<x, y>>, z)
  <2>1. <<x, y>> \in Seq(Byte) /\ Len(<<x, y>>) = 2
    OBVIOUS
  <2>2. s \in Seq(Byte) /\ Len(s) = 3 /\ s[1] = x /\ s[2] = y /\ s[3] = z
    BY <2>1, AppendProperties
  <2>3. <<x, y, z>> \in Seq(Byte) /\ Len(<<x, y, z>>) = 3
    OBVIOUS
  <2> HIDE DEF s
  <2>4. \A i \in 1..Len(s) : s[i] = <<x, y, z>>[i]
    BY <2>2
  <2>5. s = <<x, y, z>>
    BY <2>2, <2>3, <2>4, SeqEqual
  <2> QED
    BY <2>5 DEF s
<1>6. Len(<<x, y>>) = 2 /\ Len(<<x, y, z>>) = 3
  OBVIOUS
<1> QED
  BY <1>1, <1>2, <1>3, <1>4, <1>5, <1>6

\* The start of a system-exclusive message is no payload.
LEMMA Payloads ==
  ASSUME NEW x \in Byte \ {SYSEX_BEGIN}, NEW y \in Byte
  PROVE  /\ Payload(<<SYSEX_BEGIN, x>>) = Payload(<<x>>)
         /\ Payload(<<SYSEX_BEGIN, x, y>>) = Payload(<<x, y>>)
<1>1. SYSEX_BEGIN \in Byte
  BY DEF SYSEX_BEGIN, Byte
<1>2. Payload(<<x>>) = <<x>> /\ Payload(<<x, y>>) = <<x, y>>
  BY DEF Payload
<1>3. Payload(<<SYSEX_BEGIN, x>>) = <<x>> /\ Payload(<<SYSEX_BEGIN, x, y>>) = <<x, y>>
  BY <1>1 DEF Payload
<1> QED
  BY <1>2, <1>3

\* A parser and a listener that are in no message agree.
LEMMA AtRest ==
  ASSUME status = 0, heard = <<>>, garbled \in BOOLEAN, input_state = "IDLE"
  PROVE  ListenerType /\ SysexAgrees /\ MessageAgrees
<1>1. ~HeardSysex /\ ~InSysex
  BY DEF HeardSysex, InSysex, SYSEX_BEGIN
<1>2. ListenerType
  BY DEF ListenerType
<1> QED
  BY <1>1, <1>2 DEF SysexAgrees, MessageAgrees

LEMMA AtRestNext ==
  ASSUME status' = 0, heard' = <<>>, garbled' \in BOOLEAN, input_state' = "IDLE"
  PROVE  ListenerType' /\ SysexAgrees' /\ MessageAgrees'
<1>1. ~HeardSysex' /\ ~InSysex'
  BY DEF HeardSysex, InSysex, SYSEX_BEGIN
<1>2. ListenerType'
  BY DEF ListenerType
<1> QED
  BY <1>1, <1>2 DEF SysexAgrees, MessageAgrees

LEMMA WireStart == WireInit => WireInv
<1> SUFFICES ASSUME WireInit PROVE WireInv
  OBVIOUS
<1>1. DeviceInv
  BY DeviceInit DEF WireInit
<1>2. /\ status = 0 /\ heard = <<>> /\ call = due /\ garbled \in BOOLEAN
      /\ input_state = "IDLE"
  BY DEF WireInit, Init
<1>3. Agreement
  BY <1>2, AtRest DEF Agreement, HeardAsSent
<1> QED
  BY <1>1, <1>3 DEF WireInv

\* What the listener makes of a status byte that is not realtime.
LEMMA HeardStatus ==
  ASSUME NEW b \in Byte, Hear(b), midi_is_statusbyte(b), ~midi_is_realtime(b)
  PROVE  HearStatus(b) /\ b \in 128..247
  BY DEF Hear, midi_is_statusbyte, midi_is_realtime, Byte

\* What it makes of a data byte.
LEMMA HeardData ==
  ASSUME ListenerType, NEW b \in Byte, Hear(b), ~midi_is_statusbyte(b)
  PROVE  /\ HearData(b) /\ b \in DataByte
         /\ status' = status /\ heard' \in Seq(Byte) /\ garbled' \in BOOLEAN
         /\ garbled' <=> garbled \/ Misplaced(b)
<1>1. HearData(b) /\ b \in DataByte
  BY DEF Hear, midi_is_statusbyte, midi_is_realtime, Byte, DataByte
<1>2. status' = status /\ garbled' = (garbled \/ Misplaced(b))
  BY <1>1 DEF HearData
<1>3. garbled' \in BOOLEAN
  BY <1>2 DEF ListenerType, Misplaced
<1>4. garbled' <=> garbled \/ Misplaced(b)
  BY <1>2
<1>5. heard' \in {<<>>, Append(heard, b), Ran(status)}
  BY <1>1 DEF HearData
<1>6. Append(heard, b) \in Seq(Byte)
  BY DEF ListenerType
<1>7. Ran(status) \in Seq(Byte)
  <2>1. status \in Byte
    BY DEF ListenerType, Byte
  <2> QED
    BY <2>1 DEF Ran
<1>8. <<>> \in Seq(Byte)
  OBVIOUS
<1>9. heard' \in Seq(Byte)
  BY <1>5, <1>6, <1>7, <1>8
<1> QED
  BY <1>1, <1>2, <1>3, <1>4, <1>9

\* A byte keeps the parser and the listener in agreement: one case for each case of
\* midi_process_byte.
LEMMA ByteAgrees ==
  ASSUME WireInv, NEW b \in Byte, midi_process_byte(b), Hear(b)
  PROVE  Agreement'
<1> USE DEF WireInv, Agreement
<1>0. /\ input_buffer \in [0..2 -> Byte] /\ input_count \in 0..3
      /\ input_state \in States
      /\ InsideBuffer
  BY DEF DeviceInv, TypeOK
<1>1. CASE RealtimeByte(b)
  <2>1. /\ call' = <<b>> /\ due' = <<b>>
        /\ UNCHANGED <<status, heard, garbled, input_state, input_count, input_buffer>>
    BY <1>1 DEF RealtimeByte, Hear, parser
  <2>2. ListenerType' /\ SysexAgrees' /\ MessageAgrees'
    BY <2>1 DEF ListenerType, SysexAgrees, MessageAgrees, HeardSysex, InSysex, Held, Said
  <2> QED
    BY <2>1, <2>2 DEF HeardAsSent
<1>2. CASE StatusByte(b)
  <2>1. HearStatus(b) /\ b \in 128..247
    BY <1>2, HeardStatus DEF StatusByte
  <2>2. midi_packet_length(b) \in {ONE, TWO, THREE} /\ b # SYSEX_BEGIN /\ b # SYSEX_END
    <3>1. midi_packet_length(240) = UNDEFINED /\ midi_packet_length(247) = UNDEFINED
      BY DEF midi_packet_length, OneByteStatus, TwoByteStatus, ThreeByteStatus
    <3>2. midi_packet_length(b) # UNDEFINED
      BY <1>2 DEF StatusByte
    <3>3. midi_packet_length(b) \in {ONE, TWO, THREE, UNDEFINED}
      BY DEF midi_packet_length
    <3> QED
      BY <3>1, <3>2, <3>3 DEF SYSEX_BEGIN, SYSEX_END
  <2>3. CASE midi_packet_length(b) = ONE
    <3>1. /\ input_state' = "IDLE" /\ call' = <<b>>
          /\ status' = 0 /\ heard' = <<>> /\ due' = <<b>> /\ garbled' \in BOOLEAN
      BY <1>2, <2>1, <2>2, <2>3 DEF StatusByte, HearStatus, ONE, TWO, THREE, Misplaced
    <3> QED
      BY <3>1, AtRestNext DEF HeardAsSent
  <2>4. CASE midi_packet_length(b) \in {TWO, THREE}
    <3>1. /\ input_state' = IF midi_packet_length(b) = TWO
                            THEN "TWO_BYTE_MESSAGE" ELSE "THREE_BYTE_MESSAGE"
          /\ call' = <<>>
          /\ input_buffer' = Stored(b) /\ input_count' = StoredCount
      BY <1>2, <2>4 DEF StatusByte, ONE, TWO, THREE
    <3>2. /\ status' = b /\ heard' = <<b>> /\ due' = <<>>
          /\ garbled' = Misplaced(b) /\ garbled' \in BOOLEAN
      BY <2>1, <2>2, <2>4 DEF HearStatus, ONE, TWO, THREE, Misplaced
    <3>3. ~garbled' => ~InSysex
      BY <2>4, <3>2 DEF Misplaced, SysexAgrees, TWO, THREE
    <3>4. ~garbled' => input_buffer[0]' = b /\ input_count' = 1
      BY <1>0, <3>1, <3>3 DEF Stored, StoredCount
    <3>5. ListenerType' /\ HeardAsSent'
      BY <2>1, <3>1, <3>2 DEF ListenerType, HeardAsSent
    <3>6. SysexAgrees'
      BY <2>2, <3>1, <3>2 DEF SysexAgrees, HeardSysex, InSysex
    <3>7. MessageAgrees'
      BY <2>1, <2>2, <2>4, <3>1, <3>2, <3>4 DEF MessageAgrees, Held, HeardSysex
    <3> QED
      BY <3>5, <3>6, <3>7
  <2> QED
    BY <2>2, <2>3, <2>4
<1>3. CASE SysexBegin(b)
  <2>1. HearStatus(b) /\ b = SYSEX_BEGIN
    BY <1>3, HeardStatus DEF SysexBegin, SYSEX_BEGIN, midi_is_statusbyte, midi_is_realtime
  <2>2. midi_packet_length(b) = UNDEFINED /\ SYSEX_BEGIN # SYSEX_END
    BY <2>1 DEF SYSEX_BEGIN, SYSEX_END, midi_packet_length, OneByteStatus, TwoByteStatus,
                ThreeByteStatus
  <2>3. /\ status' = SYSEX_BEGIN /\ heard' = <<SYSEX_BEGIN>> /\ due' = <<>>
        /\ garbled' \in BOOLEAN
    BY <2>1, <2>2 DEF HearStatus, Misplaced, UNDEFINED, ONE, SYSEX_BEGIN
  <2>4. /\ input_state' = "SYSEX_MESSAGE" /\ input_count' = 1 /\ call' = <<>>
        /\ input_buffer[0]' = SYSEX_BEGIN
    BY <1>0, <1>3 DEF SysexBegin
  <2>5. HeardSysex' /\ InSysex' /\ Held' = heard'
    BY <2>3, <2>4 DEF HeardSysex, InSysex, Held
  <2>6. ListenerType'
    BY <2>3 DEF ListenerType, SYSEX_BEGIN, Byte
  <2>7. SysexAgrees' /\ MessageAgrees'
    BY <2>3, <2>4, <2>5 DEF SysexAgrees, MessageAgrees, SYSEX_BEGIN
  <2> QED
    BY <2>3, <2>4, <2>6, <2>7 DEF HeardAsSent
<1>4. CASE SysexEnd(b)
  <2>1. HearStatus(b) /\ b = SYSEX_END
    BY <1>4, HeardStatus DEF SysexEnd, SYSEX_END, midi_is_statusbyte, midi_is_realtime
  <2>2. midi_packet_length(b) = UNDEFINED /\ SYSEX_BEGIN # SYSEX_END
    BY <2>1 DEF SYSEX_BEGIN, SYSEX_END, midi_packet_length, OneByteStatus, TwoByteStatus,
                ThreeByteStatus
  <2>3. /\ status' = 0 /\ heard' = <<>> /\ garbled' \in BOOLEAN
        /\ HeardSysex => due' = Append(heard, b)
    BY <2>1, <2>2 DEF HearStatus, Misplaced, UNDEFINED, ONE
  <2>0. ~HeardSysex => garbled'
    BY <2>1 DEF HearStatus, Misplaced
  <2>4. input_state' = "IDLE"
    BY <1>4 DEF SysexEnd
  <2>5. ListenerType' /\ SysexAgrees' /\ MessageAgrees'
    BY <2>3, <2>4, AtRestNext
  <2>6. HeardAsSent'
    <3> SUFFICES ASSUME HeardSysex PROVE Payload(call)' = Payload(due)'
      BY <2>0 DEF HeardAsSent
    <3>1. InSysex /\ input_count \in 1..2 /\ input_buffer[0] = SYSEX_BEGIN
      BY <1>0 DEF SysexAgrees, InsideBuffer, InSysex
    <3>2. StoredCount = input_count /\ Stored(b) = input_buffer
      BY <3>1 DEF Stored, StoredCount
    <3>3. (IF StoredCount > 2 THEN 2 ELSE StoredCount) = input_count
      BY <3>1, <3>2
    <3>4. /\ input_buffer' = [input_buffer EXCEPT ![input_count] = b]
          /\ call' = [i \in 1..(input_count + 1) |-> input_buffer'[i - 1]]
      BY <1>4, <3>2, <3>3 DEF SysexEnd, midi_input_callbacks
    <3>5. input_buffer' \in [0..2 -> Byte]
      BY <1>0, <3>4
    <3>6. SYSEX_BEGIN \in Byte /\ b \in Byte \ {SYSEX_BEGIN}
      BY <2>1, <2>2 DEF SYSEX_BEGIN, Byte
    <3>7. CASE input_count = 1
      <4>1. call' = <<SYSEX_BEGIN, b>>
        BY <1>0, <3>1, <3>4, <3>5, <3>7, Called
      <4>2. heard = <<SYSEX_BEGIN>> \/ heard = <<>>
        BY <3>1, <3>6, <3>7, FewBytes DEF SysexAgrees, Held
      <4>3. due' = <<SYSEX_BEGIN, b>> \/ due' = <<b>>
        BY <2>3, <3>6, <4>2, FewBytes
      <4> QED
        BY <3>6, <4>1, <4>3, Payloads
    <3>8. CASE input_count = 2
      <4> DEFINE d == input_buffer[1]
      <4>1. d \in Byte \ {SYSEX_BEGIN}
        BY <1>0, <3>8 DEF SysexAgrees
      <4>2. call' = <<SYSEX_BEGIN, d, b>>
        BY <1>0, <3>1, <3>4, <3>5, <3>8, Called
      <4>3. heard = <<SYSEX_BEGIN, d>> \/ heard = <<d>>
        BY <3>1, <3>6, <3>8, <4>1, FewBytes DEF SysexAgrees, Held
      <4>4. due' = <<SYSEX_BEGIN, d, b>> \/ due' = <<d, b>>
        BY <2>3, <3>6, <4>1, <4>3, FewBytes
      <4> QED
        BY <3>6, <4>1, <4>2, <4>4, Payloads
    <3> QED
      BY <3>1, <3>7, <3>8
  <2> QED
    BY <2>5, <2>6
<1>5. CASE UndefinedStatus(b)
  <2>1. HearStatus(b)
    BY <1>5, HeardStatus DEF UndefinedStatus, midi_is_statusbyte, midi_is_realtime
  <2>2. midi_packet_length(b) = UNDEFINED /\ b # SYSEX_BEGIN /\ b # SYSEX_END
    BY <1>5 DEF UndefinedStatus, SYSEX_BEGIN, SYSEX_END, midi_packet_length,
                OneByteStatus, TwoByteStatus, ThreeByteStatus
  <2>3. status' = 0 /\ heard' = <<>> /\ due' = <<>> /\ garbled' \in BOOLEAN
    BY <2>1, <2>2 DEF HearStatus, Misplaced, UNDEFINED, ONE
  <2>4. input_state' = "IDLE" /\ call' = <<>>
    BY <1>5 DEF UndefinedStatus
  <2> QED
    BY <2>3, <2>4, AtRestNext DEF HeardAsSent
<1>6. CASE IgnoredData(b)
  <2>1. /\ ~midi_is_statusbyte(b) /\ input_state = "IDLE" /\ input_state' = "IDLE"
        /\ call' = <<>>
    BY <1>0, <1>6 DEF IgnoredData, InsideBuffer
  <2>2. /\ HearData(b) /\ status' = status /\ heard' \in Seq(Byte)
        /\ garbled' \in BOOLEAN /\ (garbled' <=> garbled \/ Misplaced(b))
    BY <2>1, HeardData
  <2>3. ~HeardSysex /\ ~HeardSysex' /\ ~InSysex'
    BY <2>1, <2>2 DEF SysexAgrees, InSysex, HeardSysex
  <2>4. ~garbled' => status = 0
    BY <2>1, <2>2, <2>3 DEF MessageAgrees
  <2>5. status = 0 => due' = <<>>
    BY <2>2, <2>3 DEF HearData
  <2>6. ListenerType' /\ SysexAgrees' /\ MessageAgrees'
    BY <2>1, <2>2, <2>3, <2>4 DEF ListenerType, SysexAgrees, MessageAgrees
  <2> QED
    BY <2>1, <2>4, <2>5, <2>6 DEF HeardAsSent
<1>7. CASE MessageData(b)
  <2>1. ~midi_is_statusbyte(b) /\ input_state # "IDLE" /\ input_count \in 1..2
    BY <1>0, <1>7 DEF MessageData, InsideBuffer
  <2>2. /\ HearData(b) /\ b \in DataByte
        /\ status' = status /\ heard' \in Seq(Byte) /\ garbled' \in BOOLEAN
        /\ (garbled' <=> garbled \/ Misplaced(b))
    BY <2>1, HeardData
  <2>3. /\ input_buffer' = [input_buffer EXCEPT ![input_count] = b]
        /\ input_buffer' \in [0..2 -> Byte]
    BY <1>0, <1>7 DEF MessageData
  <2>4. /\ input_count = 2 => Completes(3) /\ input_state' = input_state
        /\ input_count = 1 /\ input_state = "TWO_BYTE_MESSAGE" =>
             Completes(2) /\ input_state' = input_state
        /\ input_count = 1 /\ input_state # "TWO_BYTE_MESSAGE" =>
             input_count' = 2 /\ call' = <<>> /\ input_state' = input_state
    BY <1>7, <2>1 DEF MessageData
  <2>5. input_state' = input_state
    BY <2>1, <2>4
  <2>6. ListenerType'
    BY <2>2 DEF ListenerType
  <2>7. b \in Byte \ {SYSEX_BEGIN} /\ SYSEX_BEGIN \in Byte
    BY <2>2 DEF DataByte, SYSEX_BEGIN, Byte
  <2>8. CASE HeardSysex
    <3>1. /\ InSysex /\ input_buffer[0] = SYSEX_BEGIN
          /\ input_state # "TWO_BYTE_MESSAGE"
      BY <2>8 DEF SysexAgrees, InSysex
    <3>2. HeardSysex' /\ InSysex' /\ input_buffer[0]' = SYSEX_BEGIN
      BY <1>0, <2>1, <2>2, <2>3, <2>5, <2>8, <3>1 DEF HeardSysex, InSysex
    <3>3. MessageAgrees'
      BY <2>2, <2>8, <3>2 DEF MessageAgrees, HeardSysex, SYSEX_BEGIN
    <3>4. CASE input_count = 1
      <4>1. input_count' = 2 /\ call' = <<>> /\ input_buffer[1]' = b
        BY <1>0, <2>3, <2>4, <3>1, <3>4
      <4>2. due' = <<>> /\ heard' = Append(heard, b)
        BY <2>2, <2>8, <4>1 DEF HearData, HeardSysex, SYSEX_BEGIN
      <4>3. heard = <<SYSEX_BEGIN>> \/ heard = <<>>
        BY <2>7, <2>8, <3>1, <3>4, FewBytes DEF SysexAgrees, Held
      <4>4. heard' = <<SYSEX_BEGIN, b>> \/ heard' = <<b>>
        <5>1. CASE heard = <<SYSEX_BEGIN>>
          <6>1. Append(<<SYSEX_BEGIN>>, b) = <<SYSEX_BEGIN, b>>
            BY <2>7, FewBytes, Zenon
          <6> QED BY <4>2, <5>1, <6>1, Zenon
        <5>2. CASE heard = <<>>
          BY <4>2, <5>2
        <5> QED BY <4>3, <5>1, <5>2
      <4>5. Held' = <<SYSEX_BEGIN, b>> /\ Tail(Held') = <<b>>
        BY <2>7, <3>2, <4>1, FewBytes DEF Held
      <4>6. SysexAgrees'
        BY <2>7, <3>2, <4>1, <4>4, <4>5 DEF SysexAgrees
      <4> QED
        BY <2>6, <3>3, <4>1, <4>2, <4>6 DEF HeardAsSent
    <3>5. CASE input_count = 2
      <4> DEFINE d == input_buffer[1]
      <4>0. d \in Byte \ {SYSEX_BEGIN}
        BY <1>0, <2>8, <3>5 DEF SysexAgrees
      <4>1. /\ input_count' = 1
            /\ call' = <<input_buffer[0]', input_buffer[1]', input_buffer[2]'>>
        BY <2>3, <2>4, <3>5, Completed
      <4>2. call' = <<SYSEX_BEGIN, d, b>>
        BY <1>0, <2>3, <3>2, <3>5, <4>1
      <4>3. due' = Append(heard, b) /\ heard' = <<>>
        BY <2>2, <2>8, <4>2 DEF HearData, HeardSysex, SYSEX_BEGIN, Ran
      <4>4. heard = <<SYSEX_BEGIN, d>> \/ heard = <<d>>
        BY <2>7, <2>8, <3>1, <3>5, <4>0, FewBytes DEF SysexAgrees, Held
      <4>5. due' = <<SYSEX_BEGIN, d, b>> \/ due' = <<d, b>>
        <5>1. Append(<<SYSEX_BEGIN, d>>, b) = <<SYSEX_BEGIN, d, b>>
          BY <2>7, <4>0, FewBytes
        <5>2. Append(<<d>>, b) = <<d, b>>
          BY <4>0, FewBytes
        <5> QED
          BY <4>3, <4>4, <5>1, <5>2
      <4>6. Payload(call)' = Payload(due)'
        BY <2>7, <4>0, <4>2, <4>5, Payloads
      <4>7. Held' = <<SYSEX_BEGIN>> /\ Tail(Held') = <<>>
        BY <2>7, <3>2, <4>1, FewBytes DEF Held
      <4>8. SysexAgrees'
        BY <3>2, <4>1, <4>3, <4>7 DEF SysexAgrees
      <4> QED
        BY <2>6, <3>3, <4>6, <4>8 DEF HeardAsSent
    <3> QED
      BY <2>1, <3>4, <3>5
  <2>9. CASE ~HeardSysex
    <3>1. ~HeardSysex' /\ ~InSysex' /\ input_state # "SYSEX_MESSAGE"
      BY <2>2, <2>5, <2>9 DEF SysexAgrees, HeardSysex, InSysex
    <3>2. SysexAgrees'
      BY <3>1 DEF SysexAgrees
    <3>3. CASE garbled'
      BY <2>6, <3>2, <3>3 DEF MessageAgrees, HeardAsSent
    <3>4. CASE ~garbled'
      <4> DEFINE len == midi_packet_length(status)
      <4>1. ~garbled /\ ~Misplaced(b) /\ status # 0
        BY <2>1, <2>2, <3>4 DEF MessageAgrees
      <4>2. /\ len \in {TWO, THREE}
            /\ input_state = IF len = TWO THEN "TWO_BYTE_MESSAGE" ELSE "THREE_BYTE_MESSAGE"
            /\ input_buffer[0] = status
            /\ heard = Held
            /\ input_count = 2 => len = THREE
        BY <2>1, <2>9, <4>1 DEF MessageAgrees, Misplaced, Said
      <4>3. status \in Byte /\ input_buffer[0]' = status
        BY <1>0, <2>1, <2>3, <4>2
      <4>4. TWO = 2 /\ THREE = 3
        BY DEF TWO, THREE
      <4>5. len \in {TWO, THREE} /\ status >= 240 => status \in {241, 242, 243}
        BY <1>0, <4>1 DEF midi_packet_length, ListenerType, UNDEFINED, ONE, TWO, THREE,
                          ThreeByteStatus, TwoByteStatus, OneByteStatus
      <4>6. ASSUME input_count' = 1, heard' = Ran(status), len = THREE \/ input_count = 1
            PROVE  MessageAgrees'
        BY <2>2, <2>5, <4>2, <4>3, <4>4, <4>5, <4>6
        DEF MessageAgrees, Held, Said, Ran, ListenerType
      <4>7. CASE input_count = 1 /\ len = TWO
        <5>1. input_count' = 1 /\ call' = <<input_buffer[0]', input_buffer[1]'>>
          BY <2>3, <2>4, <4>2, <4>7, Completed
        <5>2. call' = <<status, b>>
          BY <1>0, <2>3, <4>3, <4>7, <5>1
        <5>3. Append(heard, b) = <<status, b>> /\ Len(Append(heard, b)) = 2
          <6>1. heard = <<status>>
            BY <4>2, <4>7 DEF Held
          <6> QED
            BY <4>3, <6>1, FewBytes
        <5>4. due' = <<status, b>> /\ heard' = Ran(status)
          BY <2>2, <2>9, <4>1, <4>4, <4>7, <5>3 DEF HearData
        <5> QED
          BY <2>6, <3>2, <4>6, <4>7, <5>1, <5>2, <5>4 DEF HeardAsSent
      <4>8. CASE input_count = 1 /\ len = THREE
        <5>1. input_count' = 2 /\ call' = <<>> /\ input_buffer[1]' = b
          BY <1>0, <2>3, <2>4, <4>2, <4>4, <4>8
        <5>2. Append(heard, b) = <<status, b>> /\ Len(Append(heard, b)) = 2
          <6>1. heard = <<status>>
            BY <4>2, <4>8 DEF Held
          <6> QED
            BY <4>3, <6>1, FewBytes
        <5>3. due' = <<>> /\ heard' = <<status, b>>
          BY <2>2, <2>9, <4>1, <4>4, <4>8, <5>2 DEF HearData
        <5>4. MessageAgrees'
          BY <2>2, <2>5, <3>1, <4>1, <4>2, <4>3, <4>4, <4>8, <5>1, <5>3
          DEF MessageAgrees, Held
        <5> QED
          BY <2>6, <3>2, <5>1, <5>3, <5>4 DEF HeardAsSent
      <4>9. CASE input_count = 2
        <5> DEFINE d == input_buffer[1]
        <5>1. /\ input_count' = 1
              /\ call' = <<input_buffer[0]', input_buffer[1]', input_buffer[2]'>>
          BY <2>3, <2>4, <4>9, Completed
        <5>2. call' = <<status, d, b>> /\ d \in Byte
          BY <1>0, <2>3, <4>3, <4>9, <5>1
        <5>0. heard = <<status, d>>
          BY <4>2, <4>9 DEF Held
        <5>3. Append(heard, b) = <<status, d, b>> /\ Len(Append(heard, b)) = 3
          <6>1. Append(<<status, d>>, b) = <<status, d, b>> /\ Len(<<status, d, b>>) = 3
            BY <4>3, <5>2, FewBytes
          <6> QED
            BY <5>0, <6>1
        <5>4. due' = <<status, d, b>> /\ heard' = Ran(status)
          BY <2>2, <2>9, <4>1, <4>2, <4>4, <4>9, <5>3 DEF HearData
        <5> QED
          BY <2>6, <3>2, <4>2, <4>6, <4>9, <5>1, <5>2, <5>4 DEF HeardAsSent
      <4> QED
        BY <2>1, <4>2, <4>7, <4>8, <4>9
    <3> QED
      BY <3>3, <3>4
  <2> QED
    BY <2>8, <2>9
<1> QED
  BY <1>1, <1>2, <1>3, <1>4, <1>5, <1>6, <1>7 DEF midi_process_byte

\* The listener changes nothing of the device's steps.
LEMMA WireStep == WireInv /\ [WireNext]_wire => WireInv'
<1> SUFFICES ASSUME WireInv, [WireNext]_wire PROVE WireInv'
  OBVIOUS
<1>1. [Next]_vars
  BY DEF WireNext, WireInput, WireByte, WireLoop, wire, Next, midi_device_process
<1>2. DeviceInv'
  BY <1>1, DeviceStep DEF WireInv
<1>3. CASE WireByte
  <2>1. Head(input_queue) \in Byte
    BY <1>3 DEF WireByte, ProcessByte, WireInv, DeviceInv, Owed, TypeOK
  <2> QED
    BY <1>2, <1>3, <2>1, ByteAgrees DEF WireByte, ProcessByte, WireInv
<1>4. CASE UNCHANGED <<parser, call, listener>>
  BY <1>2, <1>4 DEF WireInv, Agreement, ListenerType, SysexAgrees, MessageAgrees,
    HeardAsSent, HeardSysex, InSysex, Held, Said, parser, listener
<1>5. WireInput \/ WireLoop \/ UNCHANGED wire => UNCHANGED <<parser, call, listener>>
  BY DEF WireInput, WireLoop, wire, vars, midi_device_input, ProcessBegin,
    ProcessRemove, ProcessEnd
<1> QED
  BY <1>3, <1>4, <1>5 DEF WireNext

\* As long as no byte has come that the rules of the wire have no place for, and again from
\* the next status byte in its place on, each call to the callback has the payload that these rules say:
\* whole messages, running status, realtime bytes in between, and of system-exclusive
\* messages all but the start byte, which the parser repeats.
THEOREM HearsCorrectly == WireSpec => []HeardAsSent
<1>1. WireInv => HeardAsSent
  BY DEF WireInv, Agreement
<1> QED
  BY WireStart, WireStep, <1>1, PTL DEF WireSpec
=============================================================================
