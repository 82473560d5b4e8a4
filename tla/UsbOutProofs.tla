---------------------------- MODULE UsbOutProofs ----------------------------
(***************************************************************************)
(* Theorems about the way out to USB-MIDI, for every size of the queue and  *)
(* every set of packets, chunks and messages.                               *)
(***************************************************************************)
EXTENDS UsbOutProps, ByteQueueProofs

\* What onRequestService reads off the queue before it decides.
LEMMA RequestReads ==
  ASSUME TypeOK
  PROVE  /\ qlen \in 0..3 /\ qlen <= bytequeue_length(queue)
         /\ bytequeue_length(queue) \in 0..(QSize - 1)
         /\ qlen = 0 <=> bytequeue_length(queue) = 0
         /\ status_byte \in Byte
         /\ midi_packet_len \in 0..3
         /\ midi_packet_len > 0 => status_byte \div 16 \in 8..15
<1>1. queue \in Queue
  BY DEF TypeOK
<1>2. bytequeue_length(queue) \in 0..(QSize - 1)
  BY <1>1, LengthType
<1>3. /\ qlen \in 0..3 /\ qlen <= bytequeue_length(queue)
      /\ qlen = 0 <=> bytequeue_length(queue) = 0
  BY <1>2, QSizeAssumption DEF qlen, Min3
<1>4. 0 \in 0..(QSize - 1)
  BY QSizeAssumption
<1>5. status_byte \in Byte
  BY <1>1, <1>4, GetType DEF status_byte
<1>6. /\ midi_packet_length(status_byte) \in 0..3
      /\ midi_packet_length(status_byte) > 0 => status_byte >= 128
  BY <1>5 DEF midi_packet_length, UNDEFINED, ONE, TWO, THREE, Byte,
     ThreeByteStatus, TwoByteStatus, OneByteStatus
<1>7. /\ midi_packet_len \in 0..3
      /\ midi_packet_len > 0 => status_byte >= 128
  BY <1>6 DEF midi_packet_len
<1>8. status_byte >= 128 => status_byte \div 16 \in 8..15
  BY <1>5 DEF Byte
<1> QED BY <1>2, <1>3, <1>5, <1>7, <1>8

\* The bytes a packet carries are the oldest of the queue.
LEMMA OldestBytes ==
  ASSUME TypeOK, NEW n \in 0..bytequeue_length(queue)
  PROVE  /\ Oldest(n) \in Seq(Byte)
         /\ Len(Oldest(n)) = n
         /\ Oldest(n) = SubSeq(Contents(queue), 1, n)
<1>1. queue \in Queue
  BY DEF TypeOK
<1> DEFINE m == bytequeue_length(queue)
           s == Contents(queue)
<1>2. /\ s \in Seq(Byte) /\ Len(s) = m
      /\ \A i \in 1..m : s[i] = bytequeue_get(queue, i - 1)
  BY <1>1, ContentsType
<1>3. m \in Nat /\ n \in 0..m
  BY <1>1, LengthType, QSizeAssumption
<1> HIDE DEF m, s
<1>4. Oldest(n) = [i \in 1..n |-> s[i]]
  BY <1>2, <1>3 DEF Oldest
<1>5. Oldest(n) = SubSeq(s, 1, n)
  BY <1>2, <1>3, <1>4
<1>6. Oldest(n) \in Seq(Byte) /\ Len(Oldest(n)) = n
  BY <1>2, <1>3, <1>4
<1> QED BY <1>5, <1>6 DEF s

-----------------------------------------------------------------------------
\* Init and every step keep the types (the queue's indices inside the array,
\* and what the reader, the main loop and the bus keep beside it).
Packet == [cin : 0..15, bytes : Seq(Byte)]

LEMMA EnqueueType ==
  ASSUME TypeOK, NEW b \in Byte, Enqueue(b)
  PROVE  queue' \in Queue /\ lost' \in BOOLEAN /\ NonEmpty(queue')
BY EnqueueAppends DEF TypeOK, Enqueue, NonEmpty

LEMMA RespondType ==
  ASSUME TypeOK, NEW n \in 0..bytequeue_length(queue), NEW mode \in BOOLEAN,
         NEW packet \in Packet, Respond(n, mode, packet), underrun' \in BOOLEAN
  PROVE  TypeOK'
<1>1. queue' \in Queue
  BY RemoveTakes DEF TypeOK, Respond
<1>2. open' \in BOOLEAN
  BY DEF TypeOK, Respond, HostOpen
<1> QED BY <1>1, <1>2 DEF TypeOK, Respond, Packet, mainVars

LEMMA GarbageType == Garbage \in Packet
BY DEF Garbage, Packet

LEMMA EmptyType == <<>> \in Seq(Byte)
OBVIOUS

LEMMA TailType ==
  ASSUME NEW s \in Seq(Byte), s # <<>>
  PROVE  /\ Head(s) \in Byte /\ Tail(s) \in Seq(Byte)
         /\ Len(s) # 1 => Tail(s) # <<>>
<1>1. Head(s) \in Byte /\ Tail(s) \in Seq(Byte)
  OBVIOUS
<1>2. Len(Tail(s)) = Len(s) - 1 /\ Len(s) \in Nat
  OBVIOUS
<1>3. Len(s) # 1 => Len(Tail(s)) # 0
  BY <1>2
<1>4. Len(s) # 1 => Tail(s) # <<>>
  BY <1>3
<1> QED BY <1>1, <1>4

LEMMA InputTypes ==
  /\ \A p \in SerialPackets : p \in Seq(Byte) /\ p # <<>>
  /\ \A c \in OscChunks : c \in Seq(Byte) /\ c # <<>>
  /\ \A m \in UsbMessages : m \in Seq(Byte) /\ m # <<>>
<1>1. ASSUME NEW p \in SerialPackets
      PROVE  p \in Seq(Byte) /\ p # <<>>
  <2>1. p \in Seq(Byte) /\ Len(p) \in 1..3
    BY InputAssumption
  <2>2. Len(p) # 0
    BY <2>1
  <2> QED BY <2>1, <2>2
<1> QED BY <1>1, InputAssumption

LEMMA BudgetType ==
  ASSUME TypeOK, Begin
  PROVE  budget' \in 0..Budget
BY SwitchAssumption DEF TypeOK, Begin

LEMMA RequestType ==
  ASSUME TypeOK, onRequestService
  PROVE  TypeOK'
<1> USE RequestReads
<1>0. in_sysex_mode \in BOOLEAN /\ sysex \in BOOLEAN
  BY DEF in_sysex_mode, TypeOK, begins
<1>1. CASE RequestPacket
  <2> DEFINE k == midi_packet_len
             packet == [cin |-> status_byte \div 16, bytes |-> Oldest(k)]
  <2>1. k \in 0..bytequeue_length(queue)
    BY <1>1 DEF RequestPacket
  <2>2. packet \in Packet
    BY <2>1, <1>1, OldestBytes DEF Packet, RequestPacket
  <2>3. Respond(k, sysex, packet) /\ underrun' \in BOOLEAN
    BY <1>1 DEF RequestPacket, TypeOK
  <2> QED BY <2>1, <2>2, <2>3, <1>0, RespondType
<1>2. CASE RequestWaits
  <2>1. Respond(0, sysex, Garbage) /\ underrun' \in BOOLEAN
    BY <1>2 DEF RequestWaits, TypeOK
  <2> QED BY <2>1, <1>0, GarbageType, RespondType
<1>3. CASE RequestSkips
  <2>1. Respond(1, sysex, Garbage) /\ underrun' \in BOOLEAN
    BY <1>3 DEF RequestSkips, TypeOK
  <2>2. CASE qlen > 0
    BY <2>1, <2>2, <1>0, GarbageType, RespondType
  <2>3. CASE qlen = 0
    <3>1. queue' \in Queue
      BY <2>1, <2>3, RemoveUnderruns DEF TypeOK, Respond
    <3>2. open' \in BOOLEAN
      BY <2>1 DEF TypeOK, Respond, HostOpen
    <3> QED BY <2>1, <3>1, <3>2, GarbageType DEF TypeOK, Respond, Packet, mainVars
  <2> QED BY <2>2, <2>3
<1>4. CASE RequestSysexEnd
  <2>1. PICK n \in 1..3 :
          EndsAt(n) /\ Respond(n, FALSE, [cin |-> 4 + n, bytes |-> Oldest(n)])
    BY <1>4 DEF RequestSysexEnd
  <2>2. n \in 0..bytequeue_length(queue)
    BY <2>1 DEF EndsAt
  <2>3. [cin |-> 4 + n, bytes |-> Oldest(n)] \in Packet
    BY <2>2, OldestBytes DEF Packet
  <2>4. underrun' \in BOOLEAN
    BY <1>4 DEF RequestSysexEnd, TypeOK
  <2> QED BY <2>1, <2>2, <2>3, <2>4, RespondType
<1>5. CASE RequestSysexFull
  <2>1. /\ Respond(3, in_sysex_mode, [cin |-> 4, bytes |-> Oldest(3)])
        /\ underrun' \in BOOLEAN /\ qlen >= 3
    BY <1>5 DEF RequestSysexFull, TypeOK
  <2>2. 3 \in 0..bytequeue_length(queue)
    BY <2>1
  <2>3. [cin |-> 4, bytes |-> Oldest(3)] \in Packet
    BY <2>2, OldestBytes DEF Packet
  <2> QED BY <2>1, <2>2, <2>3, <1>0, RespondType
<1>6. CASE RequestSysexWaits
  <2>1. Respond(0, in_sysex_mode, Garbage) /\ underrun' \in BOOLEAN
    BY <1>6 DEF RequestSysexWaits, TypeOK
  <2> QED BY <2>1, <1>0, GarbageType, RespondType
<1> QED BY <1>1, <1>2, <1>3, <1>4, <1>5, <1>6 DEF onRequestService

\* Whatever the main loop still has to send is there to be sent: Head and Tail
\* are taken of a sequence that is not empty.
Pending == pc \in {"enqueue", "chunk"} => out # <<>>

\* TypeOK holds in every reachable state, and the main loop never sends from
\* an empty buffer (HandleMidi.cpp, bytequeue.c).
TypeInv == TypeOK /\ Pending

LEMMA TypeInvStep == TypeInv /\ [Next]_vars => TypeInv'
<1> SUFFICES ASSUME TypeOK, Pending, [Next]_vars
             PROVE  TypeInv'
  BY DEF TypeInv
<1> USE DEF Pending, Locations
<1>1. CASE SerialPacket
  <2>1. budget' \in 0..Budget
    BY <1>1, BudgetType DEF SerialPacket
  <2>2. out' \in Seq(Byte) /\ out' # <<>>
    BY <1>1, InputTypes DEF SerialPacket
  <2> QED BY <1>1, <2>1, <2>2 DEF TypeInv, TypeOK, SerialPacket, busVars, history
<1>2. CASE SerialEnqueue
  <2>1. Head(out) \in Byte /\ Tail(out) \in Seq(Byte)
    BY <1>2 DEF TypeOK, SerialEnqueue
  <2>2. queue' \in Queue /\ lost' \in BOOLEAN
    BY <1>2, <2>1, EnqueueType DEF SerialEnqueue
  <2> QED BY <1>2, <2>1, <2>2 DEF TypeInv, TypeOK, SerialEnqueue, busVars
<1>3. CASE SerialMeasure
  BY <1>3 DEF TypeInv, TypeOK, SerialMeasure, NonEmpty, busVars, history
<1>4. CASE SerialWrite
  BY <1>4 DEF TypeInv, TypeOK, SerialWrite, busVars, history
<1>5. CASE OscChunk
  <2>1. budget' \in 0..Budget
    BY <1>5, BudgetType DEF OscChunk
  <2>2. out' \in Seq(Byte) /\ out' # <<>>
    BY <1>5, InputTypes DEF OscChunk
  <2> QED BY <1>5, <2>1, <2>2 DEF TypeInv, TypeOK, OscChunk, busVars, history
<1>6. CASE OscByte
  <2>0. out \in Seq(Byte) /\ out # <<>>
    BY <1>6 DEF TypeOK, OscByte
  <2>1. /\ Head(out) \in Byte /\ Tail(out) \in Seq(Byte)
        /\ Len(out) # 1 => Tail(out) # <<>>
    BY <2>0, TailType
  <2>2. queue' \in Queue /\ lost' \in BOOLEAN
    BY <1>6, <2>1, EnqueueType DEF OscByte
  <2>3. pin' \in BOOLEAN
    BY <1>6 DEF OscByte, NonEmpty
  <2> QED BY <1>6, <2>1, <2>2, <2>3 DEF TypeInv, TypeOK, OscByte, busVars
<1>7. CASE LedRead
  BY <1>7 DEF TypeInv, TypeOK, LedRead, busVars, history
<1>8. CASE LedWrite
  BY <1>8 DEF TypeInv, TypeOK, LedWrite, busVars, history
<1>9. CASE UsbBegin
  <2>1. budget' \in 0..Budget
    BY <1>9, BudgetType DEF UsbBegin
  <2>2. usb' \in Seq(Byte)
    BY <1>9, InputTypes DEF UsbBegin
  <2> QED BY <1>9, <2>1, <2>2 DEF TypeInv, TypeOK, UsbBegin, mainVars, history
<1>10. CASE UsbByte
  <2>1. Head(usb) \in Byte /\ Tail(usb) \in Seq(Byte)
    BY <1>10 DEF TypeOK, UsbByte
  <2>2. queue' \in Queue /\ lost' \in BOOLEAN
    BY <1>10, <2>1, EnqueueType DEF UsbByte
  <2>3. pin' \in BOOLEAN /\ twea' \in BOOLEAN
    BY <1>10 DEF UsbByte, NonEmpty
  <2> QED BY <1>10, <2>1, <2>2, <2>3 DEF TypeInv, TypeOK, UsbByte, mainVars
<1>11. CASE UsbRefused
  <2>1. usb' \in Seq(Byte)
    BY <1>11, EmptyType, Zenon DEF TypeOK, UsbRefused
  <2> QED BY <1>11, <2>1 DEF TypeInv, TypeOK, UsbRefused, mainVars, history
<1>12. CASE UsbStop
  BY <1>12 DEF TypeInv, TypeOK, UsbStop, mainVars, history
<1>13. CASE onRequestService
  <2>1. TypeOK'
    BY <1>13, RequestType
  <2>2. UNCHANGED mainVars
    BY <1>13 DEF onRequestService, RequestPacket, RequestWaits, RequestSkips,
       RequestSysexEnd, RequestSysexFull, RequestSysexWaits, Respond
  <2> QED BY <2>1, <2>2 DEF TypeInv, mainVars
<1>14. CASE UNCHANGED vars
  BY <1>14 DEF TypeInv, TypeOK, vars, mainVars, busVars, history
<1> QED BY <1>1, <1>2, <1>3, <1>4, <1>5, <1>6, <1>7, <1>8, <1>9, <1>10, <1>11,
           <1>12, <1>13, <1>14 DEF Next, MainLoop, onReceiveService

LEMMA TypeInvInit == Init => TypeInv
<1> SUFFICES ASSUME Init
             PROVE  TypeInv
  OBVIOUS
<1>1. queue \in Queue
  BY InitEmpty DEF Init
<1>2. budget \in 0..Budget
  BY SwitchAssumption DEF Init
<1>3. reply \in [cin : 0..15, bytes : Seq(Byte)]
  BY GarbageType DEF Init, Packet
<1>4. pc \in Locations /\ Pending
  BY DEF Init, Locations, Pending
<1>5. out \in Seq(Byte) /\ usb \in Seq(Byte)
  BY EmptyType, Zenon DEF Init
<1> QED BY <1>1, <1>2, <1>3, <1>4, <1>5 DEF Init, TypeInv, TypeOK

\* The types of every variable hold in every reachable state, for every queue
\* size and every input: no index leaves the array (bytequeue.c).
THEOREM TypeCorrect == Spec => []TypeOK
<1>1. Init => TypeInv
  BY TypeInvInit
<1>2. TypeInv /\ [Next]_vars => TypeInv'
  BY TypeInvStep
<1>3. TypeInv => TypeOK
  BY DEF TypeInv
<1> QED BY <1>1, <1>2, <1>3, PTL DEF Spec

-----------------------------------------------------------------------------
\* Every way through onRequestService ends the same: the pin stays high only
\* over bytes, a PIC that waits for the pin found it high, and the queue has
\* been taken from while it was empty only if `underrun' says so.
LEMMA RequestEffect ==
  ASSUME TypeOK, onRequestService
  PROVE  /\ PicWaits => pin
         /\ pin' = (pin /\ NonEmpty(queue'))
         /\ UNCHANGED <<pc, out, reg, usb>>
         /\ NonEmpty(queue) => underrun' = underrun
<1>1. NonEmpty(queue) => qlen # 0
  BY RequestReads DEF NonEmpty
<1>2. CASE RequestPacket
  BY <1>2 DEF RequestPacket, Respond, mainVars
<1>3. CASE RequestWaits
  BY <1>3 DEF RequestWaits, Respond, mainVars
<1>4. CASE RequestSkips
  BY <1>1, <1>4 DEF RequestSkips, Respond, mainVars, TypeOK
<1>5. CASE RequestSysexEnd
  BY <1>5 DEF RequestSysexEnd, Respond, mainVars
<1>6. CASE RequestSysexFull
  BY <1>6 DEF RequestSysexFull, Respond, mainVars
<1>7. CASE RequestSysexWaits
  BY <1>7 DEF RequestSysexWaits, Respond, mainVars
<1> QED BY <1>2, <1>3, <1>4, <1>5, <1>6, <1>7 DEF onRequestService

\* The strengthening of DataReady that is inductive when the PIC writes nothing
\* into the queue: a byte just enqueued is still there, or the read that took
\* it has cleared the pin; and a low reading about to be written back is only
\* ever written over a low pin.
WakeupInv ==
  /\ TypeInv
  /\ usb = <<>>
  /\ DataReady
  /\ (pc = "measure" /\ pin) => NonEmpty(queue)
  /\ (pc \in {"write", "led"} /\ pin) => reg

LEMMA WakeupStep ==
  ASSUME UsbMessages = {}, PicWaits, WakeupInv, [Next]_vars
  PROVE  WakeupInv'
<1> USE DEF WakeupInv, DataReady
<1>0. TypeInv' /\ TypeOK
  BY TypeInvStep DEF TypeInv
<1>1. CASE SerialPacket
  BY <1>0, <1>1 DEF SerialPacket, busVars
<1>2. CASE SerialEnqueue
  <2>1. out \in Seq(Byte) /\ out # <<>>
    BY <1>0, <1>2 DEF TypeInv, Pending, TypeOK, SerialEnqueue
  <2>2. NonEmpty(queue')
    BY <1>0, <1>2, <2>1, TailType, EnqueueType DEF SerialEnqueue
  <2> QED BY <1>0, <1>2, <2>2 DEF SerialEnqueue, busVars
<1>3. CASE SerialMeasure
  BY <1>0, <1>3 DEF SerialMeasure, busVars
<1>4. CASE SerialWrite
  BY <1>0, <1>4 DEF SerialWrite, busVars
<1>5. CASE OscChunk
  BY <1>0, <1>5 DEF OscChunk, busVars
<1>6. CASE OscByte
  BY <1>0, <1>6 DEF OscByte, busVars
<1>7. CASE LedRead
  BY <1>0, <1>7 DEF LedRead, busVars
<1>8. CASE LedWrite
  BY <1>0, <1>8 DEF LedWrite, busVars
<1>9. CASE onReceiveService
  BY <1>0, <1>9 DEF onReceiveService, UsbBegin, UsbByte, UsbRefused, UsbStop, mainVars
<1>10. CASE onRequestService
  <2>1. /\ pin /\ pin' = (pin /\ NonEmpty(queue'))
        /\ UNCHANGED <<pc, out, reg, usb>>
    BY <1>0, <1>10, RequestEffect
  <2> QED BY <1>0, <2>1
<1>11. CASE UNCHANGED vars
  BY <1>0, <1>11 DEF vars, mainVars, busVars
<1> QED BY <1>1, <1>2, <1>3, <1>4, <1>5, <1>6, <1>7, <1>8, <1>9, <1>10, <1>11
        DEF Next, MainLoop

\* As long as the PIC's own bytes are not routed back to it, and it reads only
\* while the pin is high, waiting bytes are always announced: the unmasked
\* steps of sendByteUSB and the split LED write never hide them.
THEOREM NoLostWakeup ==
  ASSUME UsbMessages = {}, PicWaits
  PROVE  Spec => []DataReady
<1>1. Init => WakeupInv
  <2> SUFFICES ASSUME Init
               PROVE  WakeupInv
    OBVIOUS
  <2>1. TypeInv
    BY TypeInvInit
  <2>2. ~NonEmpty(queue)
    BY InitEmpty DEF Init, NonEmpty
  <2> QED BY <2>1, <2>2 DEF Init, WakeupInv, DataReady
<1>2. WakeupInv /\ [Next]_vars => WakeupInv'
  BY WakeupStep
<1>3. WakeupInv => DataReady
  BY DEF WakeupInv
<1> QED BY <1>1, <1>2, <1>3, PTL DEF Spec

-----------------------------------------------------------------------------
\* Every step of the code is a step of the stream, or leaves it alone.

\* An enqueue puts one byte at the end, or the queue is full and it does nothing.
LEMMA EnqueueRefines ==
  ASSUME TypeOK, NEW b \in Byte, Enqueue(b), UNCHANGED reply
  PROVE  Stream!Put(b) \/ UNCHANGED Stream!vars
<1>1. queue \in Queue
  BY DEF TypeOK
<1>2. CASE IsFull(queue)
  <2>1. queue' = queue
    BY <1>1, <1>2, EnqueueAppends DEF Enqueue
  <2> QED BY <2>1 DEF Stream!vars
<1>3. CASE ~IsFull(queue)
  <2>1. Contents(queue') = Append(Contents(queue), b)
    BY <1>1, <1>3, EnqueueAppends DEF Enqueue
  <2>2. Len(Contents(queue)) < QSize - 1
    <3>1. bytequeue_length(queue) # QSize - 1
      BY <1>1, <1>3, FullLength
    <3>2. bytequeue_length(queue) \in 0..(QSize - 1)
      BY <1>1, LengthType
    <3>3. Len(Contents(queue)) = bytequeue_length(queue)
      BY <1>1, ContentsType
    <3>4. \A k \in 0..(QSize - 1) : k # QSize - 1 => k < QSize - 1
      BY QSizeAssumption
    <3> QED BY <3>1, <3>2, <3>3, <3>4
  <2> QED BY <2>1, <2>2 DEF Stream!Put
<1> QED BY <1>2, <1>3

\* A reply that carries the n oldest bytes and removes them.
LEMMA TakeRefines ==
  ASSUME TypeOK, NEW n \in 1..3, n <= bytequeue_length(queue),
         NEW mode, NEW cin, Respond(n, mode, [cin |-> cin, bytes |-> Oldest(n)])
  PROVE  Stream!Take(n)
<1>1. queue \in Queue
  BY DEF TypeOK
<1>2. n \in 0..bytequeue_length(queue)
  BY <1>1, LengthType, QSizeAssumption
<1>3. reply'.bytes = SubSeq(Contents(queue), 1, n)
  BY <1>2, OldestBytes DEF Respond
<1>4. Contents(queue') = SubSeq(Contents(queue), n + 1, Len(Contents(queue)))
  BY <1>1, <1>2, RemoveTakes DEF Respond
<1>5. n <= Len(Contents(queue))
  BY <1>1, ContentsType
<1> QED BY <1>3, <1>4, <1>5 DEF Stream!Take

\* A reply that carries nothing and removes nothing.
LEMMA WaitRefines ==
  ASSUME TypeOK, NEW mode, Respond(0, mode, Garbage)
  PROVE  Stream!Skip
<1>1. queue \in Queue /\ 0 \in 0..bytequeue_length(queue)
  BY LengthType, QSizeAssumption DEF TypeOK
<1>2. /\ Contents(queue) \in Seq(Byte)
      /\ Contents(queue') = SubSeq(Contents(queue), 1, Len(Contents(queue)))
  BY <1>1, RemoveTakes, ContentsType DEF Respond
<1>3. Contents(queue') = Contents(queue)
  BY <1>2
<1>4. reply'.bytes = <<>>
  BY DEF Respond, Garbage
<1> QED BY <1>3, <1>4 DEF Stream!Skip

\* A reply that carries nothing and removes a byte, from an empty queue too.
LEMMA SkipRefines ==
  ASSUME TypeOK, NEW mode, Respond(1, mode, Garbage)
  PROVE  Stream!Skip \/ Stream!Underrun
<1>1. queue \in Queue /\ bytequeue_length(queue) \in 0..(QSize - 1)
  BY LengthType DEF TypeOK
<1>2. reply'.bytes = <<>>
  BY DEF Respond, Garbage
<1>3. CASE bytequeue_length(queue) # 0
  <2>1. 1 \in 0..bytequeue_length(queue)
    BY <1>1, <1>3, QSizeAssumption
  <2>2. /\ Contents(queue) \in Seq(Byte)
        /\ Len(Contents(queue)) # 0
        /\ Contents(queue') = SubSeq(Contents(queue), 1 + 1, Len(Contents(queue)))
    BY <1>1, <1>3, <2>1, RemoveTakes, ContentsType DEF Respond
  <2>3. Contents(queue) # <<>> /\ Contents(queue') = Tail(Contents(queue))
    BY <2>2
  <2> QED BY <1>2, <2>3 DEF Stream!Skip
<1>4. CASE bytequeue_length(queue) = 0
  <2>1. queue' \in Queue /\ bytequeue_length(queue') = QSize - 1
    BY <1>1, <1>4, RemoveUnderruns DEF Respond
  <2>2. Contents(queue) \in Seq(Byte) /\ Len(Contents(queue)) = 0
    BY <1>1, <1>4, ContentsType
  <2>3. Contents(queue) = <<>>
    BY <2>2
  <2>4. Contents(queue') \in Seq(Byte) /\ Len(Contents(queue')) = QSize - 1
    BY <2>1, ContentsType
  <2>5. Contents(queue') \in [1..(QSize - 1) -> Byte]
    BY <2>4
  <2> QED BY <1>2, <2>3, <2>5 DEF Stream!Underrun
<1> QED BY <1>3, <1>4

LEMMA RequestRefines ==
  ASSUME TypeOK, onRequestService
  PROVE  Stream!Next
<1> USE RequestReads DEF Stream!Next
<1>1. CASE RequestPacket
  <2>1. midi_packet_len \in 1..3 /\ midi_packet_len <= bytequeue_length(queue)
    BY <1>1 DEF RequestPacket
  <2> QED BY <1>1, <2>1, TakeRefines DEF RequestPacket
<1>2. CASE RequestWaits
  BY <1>2, WaitRefines DEF RequestWaits
<1>3. CASE RequestSkips
  BY <1>3, SkipRefines DEF RequestSkips
<1>4. CASE RequestSysexEnd
  <2>1. PICK n \in 1..3 :
          EndsAt(n) /\ Respond(n, FALSE, [cin |-> 4 + n, bytes |-> Oldest(n)])
    BY <1>4 DEF RequestSysexEnd
  <2>2. n <= bytequeue_length(queue)
    BY <2>1 DEF EndsAt
  <2> QED BY <2>1, <2>2, TakeRefines
<1>5. CASE RequestSysexFull
  <2>1. 3 \in 1..3 /\ 3 <= bytequeue_length(queue)
    BY <1>5 DEF RequestSysexFull
  <2> QED BY <1>5, <2>1, TakeRefines DEF RequestSysexFull
<1>6. CASE RequestSysexWaits
  BY <1>6, WaitRefines DEF RequestSysexWaits
<1> QED BY <1>1, <1>2, <1>3, <1>4, <1>5, <1>6 DEF onRequestService

LEMMA StepRefines ==
  ASSUME TypeInv, [Next]_vars
  PROVE  [Stream!Next]_(Stream!vars)
<1>0. TypeOK
  BY DEF TypeInv
<1>1. CASE SerialEnqueue
  <2>1. Head(out) \in Byte
    BY <1>0, <1>1, TailType DEF TypeInv, Pending, TypeOK, SerialEnqueue
  <2> QED BY <1>0, <1>1, <2>1, EnqueueRefines DEF SerialEnqueue, Stream!Next
<1>2. CASE OscByte
  <2>1. Head(out) \in Byte
    BY <1>0, <1>2, TailType DEF TypeInv, Pending, TypeOK, OscByte
  <2> QED BY <1>0, <1>2, <2>1, EnqueueRefines DEF OscByte, Stream!Next
<1>3. CASE UsbByte
  <2>1. Head(usb) \in Byte
    BY <1>0, <1>3, TailType DEF TypeOK, UsbByte
  <2> QED BY <1>0, <1>3, <2>1, EnqueueRefines DEF UsbByte, Stream!Next
<1>4. CASE onRequestService
  BY <1>0, <1>4, RequestRefines
<1>5. CASE UNCHANGED <<queue, reply>>
  BY <1>5 DEF Stream!vars
<1> QED BY <1>1, <1>2, <1>3, <1>4, <1>5
        DEF Next, MainLoop, onReceiveService, SerialPacket, SerialMeasure,
            SerialWrite, OscChunk, LedRead, LedWrite, UsbBegin, UsbRefused,
            UsbStop, vars

\* usb_queue, as the producers and onRequestService use it, is a first-in
\* first-out stream of at most QSize - 1 bytes: nothing overtakes, nothing is
\* overwritten, and what a packet carries are the oldest bytes, for every queue
\* size, every input and every interleaving, with or without the pin.  The one
\* exception is the read of an empty queue, which the stream allows for.
THEOREM Refinement == Spec => ImplementsStream
<1>1. Init => Stream!Init
  BY InitEmpty DEF Init, Stream!Init, Garbage
<1>2. Init => TypeInv
  BY TypeInvInit
<1>3. TypeInv /\ [Next]_vars => TypeInv'
  BY TypeInvStep
<1>4. TypeInv /\ [Next]_vars => [Stream!Next]_(Stream!vars)
  BY StepRefines
<1> QED BY <1>1, <1>2, <1>3, <1>4, PTL DEF Spec, ImplementsStream, Stream!Spec

-----------------------------------------------------------------------------
\* What is in the queue at index i is in the packet at place i + 1.
LEMMA OldestAt ==
  ASSUME NEW n \in 1..3, NEW i \in 1..n
  PROVE  Oldest(n)[i] = bytequeue_get(queue, i - 1)
BY DEF Oldest

\* What the reader's mode says of the host: with a message open the reader is in
\* sysex mode; in sysex mode with nothing open yet, SYSEX_BEGIN is still the
\* oldest byte of the queue.
ModeInv ==
  /\ TypeInv
  /\ open => sysex
  /\ sysex /\ ~open => NonEmpty(queue) /\ status_byte = SYSEX_BEGIN

\* An enqueue leaves the oldest byte of a queue as it is.
LEMMA EnqueueKeepsOldest ==
  ASSUME TypeOK, NEW b \in Byte, Enqueue(b), NonEmpty(queue)
  PROVE  NonEmpty(queue') /\ status_byte' = status_byte
<1>1. queue \in Queue /\ queue' \in Queue
  BY EnqueueType DEF TypeOK
<1>2. NonEmpty(queue')
  BY EnqueueType
<1>3. /\ bytequeue_length(queue) \in Nat /\ bytequeue_length(queue') \in Nat
      /\ bytequeue_length(queue) >= 1 /\ bytequeue_length(queue') >= 1
  BY <1>1, <1>2, LengthType, QSizeAssumption DEF NonEmpty
<1>4. /\ Contents(queue) \in Seq(Byte)
      /\ Len(Contents(queue)) = bytequeue_length(queue)
      /\ Contents(queue)[1] = status_byte
  BY <1>1, <1>3, ContentsType DEF status_byte
<1>5. Contents(queue')[1] = status_byte'
  BY <1>1, <1>3, ContentsType DEF status_byte
<1>6. Contents(queue') \in {Contents(queue), Append(Contents(queue), b)}
  BY <1>1, EnqueueAppends DEF Enqueue
<1>7. Contents(queue')[1] = Contents(queue)[1]
  BY <1>3, <1>4, <1>6
<1> QED BY <1>2, <1>4, <1>5, <1>7

\* Nothing removed: the oldest byte stays.
LEMMA RemoveNothing ==
  ASSUME TypeOK, NEW mode, NEW packet, Respond(0, mode, packet), NonEmpty(queue)
  PROVE  NonEmpty(queue') /\ status_byte' = status_byte
<1>1. queue \in Queue /\ queue' = bytequeue_remove(queue, 0)
  BY DEF TypeOK, Respond
<1>2. bytequeue_length(queue) \in Nat /\ bytequeue_length(queue) >= 1
  BY <1>1, LengthType, QSizeAssumption DEF NonEmpty
<1>3. /\ queue' \in Queue
      /\ Contents(queue') = SubSeq(Contents(queue), 1, Len(Contents(queue)))
  BY <1>1, <1>2, RemoveTakes
<1>4. /\ Contents(queue) \in Seq(Byte)
      /\ Len(Contents(queue)) = bytequeue_length(queue)
      /\ Contents(queue)[1] = status_byte
  BY <1>1, <1>2, ContentsType DEF status_byte
<1>5. Contents(queue') = Contents(queue)
  BY <1>3, <1>4
<1>6. bytequeue_length(queue') = bytequeue_length(queue)
  BY <1>3, <1>4, <1>5, ContentsType
<1>7. Contents(queue')[1] = status_byte'
  BY <1>2, <1>3, <1>6, ContentsType DEF status_byte
<1> QED BY <1>2, <1>4, <1>5, <1>6, <1>7 DEF NonEmpty

\* What every read does for the host, and what it leaves behind.
Handed ==
  /\ reply'.cin > 7 => ~open
  /\ reply'.cin \in 4..7 =>
       /\ Piece(reply'.cin, reply'.bytes)
       /\ ~open => reply'.bytes[1] = SYSEX_BEGIN

LEMMA RespondHost ==
  ASSUME NEW n, NEW mode, NEW cin, NEW bytes,
         Respond(n, mode, [cin |-> cin, bytes |-> bytes])
  PROVE  /\ reply'.cin = cin /\ reply'.bytes = bytes /\ sysex' = mode
         /\ cin # 0 => (open' <=> cin = 4)
<1> DEFINE packet == [cin |-> cin, bytes |-> bytes]
<1>1. packet.cin = cin /\ packet.bytes = bytes
  OBVIOUS
<1>2. Respond(n, mode, packet)
  OBVIOUS
<1> HIDE DEF packet
<1>3. reply'.cin = cin /\ reply'.bytes = bytes /\ sysex' = mode /\ open' = HostOpen(packet)
  BY <1>1, <1>2 DEF Respond
<1>4. cin # 0 => (HostOpen(packet) <=> cin = 4)
  BY <1>1, Zenon DEF HostOpen
<1> QED BY <1>3, <1>4, Zenon

LEMMA RequestHands ==
  ASSUME ModeInv, onRequestService
  PROVE  /\ Handed
         /\ open' => sysex'
         /\ sysex' /\ ~open' => NonEmpty(queue') /\ status_byte' = SYSEX_BEGIN
<1>0. TypeOK /\ sysex \in BOOLEAN /\ open \in BOOLEAN
  BY DEF ModeInv, TypeInv, TypeOK
<1>1. /\ qlen > 0 => NonEmpty(queue)
      /\ NonEmpty(queue) => qlen > 0
  BY <1>0, RequestReads DEF NonEmpty
<1>2. in_sysex_mode /\ ~open => status_byte = SYSEX_BEGIN /\ NonEmpty(queue)
  BY <1>1 DEF ModeInv, in_sysex_mode, begins
<1>3. CASE RequestPacket
  <2>1. /\ reply'.cin \in 8..15 /\ sysex' = sysex /\ open' = FALSE
        /\ ~sysex
    BY <1>0, <1>3, RequestReads DEF RequestPacket, Respond, HostOpen, in_sysex_mode
  <2> QED BY <2>1 DEF ModeInv, Handed
<1>4. CASE RequestWaits \/ RequestSkips
  <2>1. /\ reply'.cin = 0 /\ sysex' = sysex /\ open' = open /\ ~sysex
    BY <1>4 DEF RequestWaits, RequestSkips, Respond, Garbage, HostOpen, in_sysex_mode
  <2> QED BY <2>1 DEF ModeInv, Handed
<1>5. CASE RequestSysexWaits
  <2>1. /\ reply'.cin = 0 /\ sysex' = TRUE /\ open' = open /\ in_sysex_mode
        /\ Respond(0, in_sysex_mode, Garbage)
    BY <1>5 DEF RequestSysexWaits, Respond, Garbage, HostOpen
  <2>2. ~open' => NonEmpty(queue') /\ status_byte' = SYSEX_BEGIN
    BY <1>0, <1>2, <2>1, RemoveNothing
  <2> QED BY <2>1, <2>2 DEF Handed
<1>6. CASE RequestSysexEnd
  <2>1. PICK n \in 1..3 :
          EndsAt(n) /\ Respond(n, FALSE, [cin |-> 4 + n, bytes |-> Oldest(n)])
    BY <1>6 DEF RequestSysexEnd
  <2>2. n \in 0..bytequeue_length(queue)
    BY <1>0, <2>1, RequestReads DEF EndsAt
  <2>3. reply'.cin = 4 + n /\ reply'.bytes = Oldest(n) /\ ~sysex' /\ ~open'
    <3>1. /\ reply'.cin = 4 + n /\ reply'.bytes = Oldest(n) /\ sysex' = FALSE
          /\ 4 + n # 0 => (open' <=> 4 + n = 4)
      BY <2>1, RespondHost
    <3>2. 4 + n # 0 /\ 4 + n # 4
      OBVIOUS
    <3> QED BY <3>1, <3>2
  <2>4. Len(reply'.bytes) = n
    <3>1. Len(Oldest(n)) = n
      BY <1>0, <2>2, OldestBytes
    <3> QED BY <2>3, <3>1
  <2>5. \A i \in 1..n : reply'.bytes[i] = bytequeue_get(queue, i - 1)
    BY <2>3, OldestAt
  <2>6. /\ \A i \in 1..(n - 1) : reply'.bytes[i] # SYSEX_END
        /\ reply'.bytes[n] = SYSEX_END
    BY <2>1, <2>5 DEF EndsAt
  <2>7. Piece(reply'.cin, reply'.bytes)
    BY <2>3, <2>4, <2>6 DEF Piece
  <2>8. reply'.bytes[1] = status_byte
    BY <2>5 DEF status_byte
  <2>9. in_sysex_mode
    BY <1>6 DEF RequestSysexEnd
  <2> QED BY <1>2, <2>3, <2>7, <2>8, <2>9 DEF Handed
<1>7. CASE RequestSysexFull
  <2>1. 3 \in 0..bytequeue_length(queue) /\ qlen = 3 /\ in_sysex_mode
    BY <1>0, <1>7, RequestReads DEF RequestSysexFull
  <2>2. reply'.cin = 4 /\ reply'.bytes = Oldest(3) /\ sysex' /\ open'
    <3>1. Respond(3, in_sysex_mode, [cin |-> 4, bytes |-> Oldest(3)])
      BY <1>7 DEF RequestSysexFull
    <3>2. /\ reply'.cin = 4 /\ reply'.bytes = Oldest(3) /\ sysex' = in_sysex_mode
          /\ 4 # 0 => (open' <=> 4 = 4)
      BY <3>1, RespondHost
    <3>3. sysex'
      BY <2>1, <3>2, Zenon
    <3> QED BY <3>2, <3>3
  <2>3. Len(reply'.bytes) = 3
    BY <1>0, <2>1, <2>2, OldestBytes
  <2>4. /\ bytequeue_get(queue, 0) # SYSEX_END
        /\ bytequeue_get(queue, 1) # SYSEX_END
        /\ bytequeue_get(queue, 2) # SYSEX_END
    BY <1>7, <2>1 DEF RequestSysexFull, EndsAt
  <2>5. \A i \in 1..3 : reply'.bytes[i] = bytequeue_get(queue, i - 1)
    BY <2>2, OldestAt
  <2>6. \A i \in 1..3 : reply'.bytes[i] # SYSEX_END
    BY <2>4, <2>5
  <2>7. Piece(reply'.cin, reply'.bytes)
    BY <2>2, <2>3, <2>6 DEF Piece
  <2>8. reply'.bytes[1] = status_byte
    BY <2>5 DEF status_byte
  <2> QED BY <1>2, <2>1, <2>2, <2>7, <2>8 DEF Handed
<1> QED BY <1>3, <1>4, <1>5, <1>6, <1>7 DEF onRequestService

LEMMA ModeStep ==
  ASSUME ModeInv, [Next]_vars
  PROVE  ModeInv'
<1>0. TypeInv /\ TypeInv' /\ TypeOK /\ sysex \in BOOLEAN /\ open \in BOOLEAN
  BY TypeInvStep DEF ModeInv, TypeInv, TypeOK
<1>1. ASSUME NEW b \in Byte, Enqueue(b), sysex' = sysex, open' = open
      PROVE  ModeInv'
  BY <1>0, <1>1, EnqueueKeepsOldest DEF ModeInv
<1>2. CASE SerialEnqueue
  <2>1. Head(out) \in Byte
    BY <1>0, <1>2, TailType DEF TypeInv, Pending, TypeOK, SerialEnqueue
  <2> QED BY <1>1, <1>2, <2>1 DEF SerialEnqueue
<1>3. CASE OscByte
  <2>1. Head(out) \in Byte
    BY <1>0, <1>3, TailType DEF TypeInv, Pending, TypeOK, OscByte
  <2> QED BY <1>1, <1>3, <2>1 DEF OscByte
<1>4. CASE UsbByte
  <2>1. Head(usb) \in Byte
    BY <1>0, <1>4, TailType DEF TypeOK, UsbByte
  <2> QED BY <1>1, <1>4, <2>1 DEF UsbByte
<1>5. CASE onRequestService
  BY <1>0, <1>5, RequestHands DEF ModeInv
<1>6. CASE UNCHANGED <<queue, sysex, open>>
  BY <1>0, <1>6 DEF ModeInv, status_byte
<1> QED BY <1>2, <1>3, <1>4, <1>5, <1>6
        DEF Next, MainLoop, onReceiveService, SerialPacket, SerialMeasure, SerialWrite,
            OscChunk, LedRead, LedWrite, UsbBegin, UsbRefused, UsbStop, vars

\* A system-exclusive message reaches the host in one run of packets, the first with its
\* start byte, the last with its end byte and no other, with no other message between them,
\* whatever the producers mix, however often the PIC reads, and with bytes lost at a full
\* queue too (onRequestService).
THEOREM SysexReachesHostWhole == Spec => SysexWhole
<1>1. Init => ModeInv
  BY TypeInvInit DEF Init, ModeInv
<1>2. ModeInv /\ [Next]_vars => ModeInv'
  BY ModeStep
<1>3. ModeInv /\ [Next]_vars =>
        [onRequestService =>
           /\ reply'.cin > 7 => ~open
           /\ reply'.cin \in 4..7 =>
                /\ Piece(reply'.cin, reply'.bytes)
                /\ ~open => reply'.bytes[1] = SYSEX_BEGIN]_vars
  BY RequestHands DEF Handed
<1> QED BY <1>1, <1>2, <1>3, PTL DEF Spec, SysexWhole

-----------------------------------------------------------------------------
(* Whole messages                                                           *)

\* How many bytes a message still lacks once byte b has come where x were lacking;
\* InSysex within a system-exclusive message. A byte that starts no message is a
\* message by itself, which onRequestService skips.
InSysex == 3
Follows(b, x, y) ==
  \/ x = InSysex /\ y = (IF b = SYSEX_END THEN 0 ELSE InSysex)
  \/ x = 0 /\ b = SYSEX_BEGIN /\ y = InSysex
  \/ x = 0 /\ b # SYSEX_BEGIN /\ midi_packet_length(b) = 0 /\ y = 0
  \/ x = 0 /\ b # SYSEX_BEGIN /\ midi_packet_length(b) # 0 /\ y = midi_packet_length(b) - 1
  \/ x \in 1..2 /\ b \in DataByte /\ y = x - 1

Traces(s, m) ==
  /\ m \in [0..Len(s) -> 0..3]
  /\ \A k \in 1..Len(s) : Follows(s[k], m[k - 1], m[k])
  /\ m[Len(s)] \in {0, InSysex}

\* Read from x on, every message in s has the data bytes its status byte asks for.
Framed(s, x) == \E m \in [0..Len(s) -> 0..3] : Traces(s, m) /\ m[0] = x

LEMMA PacketLength ==
  ASSUME NEW b \in Byte
  PROVE  /\ midi_packet_length(b) \in 0..3
         /\ b \in {SYSEX_BEGIN, SYSEX_END} => midi_packet_length(b) = 0
         /\ b = SYSEX_END => b \notin DataByte /\ b # SYSEX_BEGIN
BY DEF midi_packet_length, UNDEFINED, ONE, TWO, THREE, Byte, DataByte, SYSEX_BEGIN, SYSEX_END,
   ThreeByteStatus, TwoByteStatus, OneByteStatus

\* An end of a system-exclusive message leaves nothing open, whatever was open before.
LEMMA EndClosesAll ==
  ASSUME NEW x, NEW y, Follows(SYSEX_END, x, y)
  PROVE  y = 0
<1>1. SYSEX_END \in Byte
  BY DEF SYSEX_END, Byte
<1> QED BY <1>1, PacketLength DEF Follows

LEMMA FramedEmpty ==
  ASSUME NEW x \in {0, InSysex}
  PROVE  Framed(<<>>, x)
<1> DEFINE m == [k \in 0..0 |-> x]
<1>1. m \in [0..0 -> 0..3] /\ m[0] = x
  BY DEF InSysex
<1>2. Len(<<>>) = 0
  OBVIOUS
<1> HIDE DEF m
<1>3. Traces(<<>>, m)
  BY <1>1, <1>2 DEF Traces
<1> QED BY <1>1, <1>2, <1>3 DEF Framed

\* What is framed for itself is also framed behind a message that was left open.
LEMMA FramedInSysex ==
  ASSUME NEW s \in Seq(Byte), Framed(s, 0)
  PROVE  Framed(s, InSysex)
<1>1. PICK m \in [0..Len(s) -> 0..3] : Traces(s, m) /\ m[0] = 0
  BY DEF Framed
<1> DEFINE Ended(k) == \E j \in 1..k : s[j] = SYSEX_END
           e == [k \in 0..Len(s) |-> IF Ended(k) THEN m[k] ELSE InSysex]
<1>2. Len(s) \in Nat
  OBVIOUS
<1>3. e \in [0..Len(s) -> 0..3]
  BY <1>1 DEF InSysex
<1>4. \A k \in 0..Len(s) : e[k] = IF Ended(k) THEN m[k] ELSE InSysex
  OBVIOUS
<1>5. ~ Ended(0)
  OBVIOUS
<1>6. \A k \in 1..Len(s) : Ended(k) <=> Ended(k - 1) \/ s[k] = SYSEX_END
  BY <1>2
<1> HIDE DEF e, Ended
<1>7. ASSUME NEW k \in 1..Len(s)
      PROVE  Follows(s[k], e[k - 1], e[k])
  <2>1. k - 1 \in 0..Len(s) /\ k \in 0..Len(s)
    BY <1>2
  <2>2. Follows(s[k], m[k - 1], m[k])
    BY <1>1 DEF Traces
  <2>3. CASE Ended(k - 1)
    <3>1. e[k - 1] = m[k - 1] /\ e[k] = m[k]
      BY <1>4, <1>6, <2>1, <2>3
    <3> QED BY <2>2, <3>1
  <2>4. CASE ~ Ended(k - 1) /\ s[k] = SYSEX_END
    <3>1. e[k - 1] = InSysex /\ e[k] = m[k]
      BY <1>4, <1>6, <2>1, <2>4
    <3>2. m[k] = 0
      BY <2>2, <2>4, EndClosesAll
    <3> QED BY <2>4, <3>1, <3>2 DEF Follows
  <2>5. CASE ~ Ended(k - 1) /\ s[k] # SYSEX_END
    <3>1. e[k - 1] = InSysex /\ e[k] = InSysex
      BY <1>4, <1>6, <2>1, <2>5
    <3> QED BY <2>5, <3>1 DEF Follows
  <2> QED BY <2>3, <2>4, <2>5
<1>8. e[Len(s)] \in {0, InSysex} /\ e[0] = InSysex
  <2>1. Len(s) \in 0..Len(s) /\ 0 \in 0..Len(s)
    BY <1>2
  <2> QED BY <1>1, <1>4, <1>5, <2>1 DEF Traces
<1>9. Traces(s, e)
  BY <1>3, <1>7, <1>8 DEF Traces
<1> QED BY <1>3, <1>8, <1>9 DEF Framed

\* What is framed stays framed with what is framed behind it.
LEMMA FramedConcat ==
  ASSUME NEW s \in Seq(Byte), NEW t \in Seq(Byte), NEW x, Framed(s, x), Framed(t, 0)
  PROVE  Framed(s \o t, x)
<1>1. PICK m \in [0..Len(s) -> 0..3] : Traces(s, m) /\ m[0] = x
  BY DEF Framed
<1>2. m[Len(s)] \in {0, InSysex}
  BY <1>1 DEF Traces
<1>3. Framed(t, m[Len(s)])
  BY <1>2, FramedInSysex
<1>4. PICK n \in [0..Len(t) -> 0..3] : Traces(t, n) /\ n[0] = m[Len(s)]
  BY <1>3 DEF Framed
<1> DEFINE a == Len(s)
           l == Len(t)
           u == s \o t
           e == [k \in 0..(a + l) |-> IF k <= a THEN m[k] ELSE n[k - a]]
<1>5. a \in Nat /\ l \in Nat /\ Len(u) = a + l
  OBVIOUS
<1>6. /\ \A k \in 1..a : u[k] = s[k]
      /\ \A k \in 1..l : u[a + k] = t[k]
  OBVIOUS
<1>7. /\ m \in [0..a -> 0..3] /\ \A k \in 1..a : Follows(s[k], m[k - 1], m[k])
      /\ n \in [0..l -> 0..3] /\ \A k \in 1..l : Follows(t[k], n[k - 1], n[k])
      /\ n[0] = m[a] /\ n[l] \in {0, InSysex} /\ m[0] = x
  BY <1>1, <1>4 DEF Traces
<1> HIDE DEF a, l, u
<1>8. e \in [0..(a + l) -> 0..3]
  <2>1. ASSUME NEW k \in 0..(a + l)
        PROVE  (IF k <= a THEN m[k] ELSE n[k - a]) \in 0..3
    <3>1. CASE k <= a
      <4>1. k \in 0..a
        BY <1>5, <3>1
      <4> QED BY <1>7, <3>1, <4>1
    <3>2. CASE ~ (k <= a)
      <4>1. k - a \in 0..l
        BY <1>5, <3>2
      <4> QED BY <1>7, <3>2, <4>1
    <3> QED BY <3>1, <3>2
  <2> QED BY <2>1
<1>9. \A k \in 0..(a + l) : e[k] = IF k <= a THEN m[k] ELSE n[k - a]
  OBVIOUS
<1> HIDE DEF e
<1>10. /\ \A k \in 0..a : e[k] = m[k]
       /\ \A k \in 0..l : e[a + k] = n[k]
  <2>1. ASSUME NEW k \in 0..a PROVE e[k] = m[k]
    BY <1>5, <1>9
  <2>2. ASSUME NEW k \in 0..l PROVE e[a + k] = n[k]
    <3>1. a + k \in 0..(a + l) /\ (a + k) - a = k /\ a + 0 = a
      BY <1>5
    <3>2. CASE k = 0
      BY <1>5, <1>7, <1>9, <3>1, <3>2
    <3>3. CASE k # 0
      <4>1. ~ (a + k <= a)
        BY <1>5, <3>3
      <4> QED BY <1>9, <3>1, <4>1
    <3> QED BY <3>2, <3>3
  <2> QED BY <2>1, <2>2
<1>11. ASSUME NEW k \in 1..(a + l)
       PROVE  Follows(u[k], e[k - 1], e[k])
  <2>1. CASE k <= a
    <3>1. k \in 1..a /\ k \in 0..a /\ k - 1 \in 0..a
      BY <1>5, <2>1
    <3> QED BY <1>6, <1>7, <1>10, <3>1
  <2>2. CASE ~ (k <= a)
    <3> DEFINE j == k - a
    <3>1. j \in 1..l /\ j \in 0..l /\ j - 1 \in 0..l /\ a + j = k /\ a + (j - 1) = k - 1
      BY <1>5, <2>2
    <3> HIDE DEF j
    <3>2. u[k] = t[j] /\ e[k] = n[j] /\ e[k - 1] = n[j - 1]
      BY <1>6, <1>10, <3>1
    <3> QED BY <1>7, <3>1, <3>2
  <2> QED BY <2>1, <2>2
<1>12. e[0] = x /\ e[a + l] \in {0, InSysex}
  BY <1>5, <1>7, <1>10
<1>13. Traces(u, e)
  BY <1>5, <1>8, <1>11, <1>12 DEF Traces
<1>14. Framed(u, x)
  BY <1>5, <1>8, <1>12, <1>13 DEF Framed
<1> QED BY <1>14 DEF u

\* What is left once n bytes have been taken is framed from there on.
LEMMA FramedRest ==
  ASSUME NEW s \in Seq(Byte), NEW m \in [0..Len(s) -> 0..3], Traces(s, m), NEW n \in 0..Len(s)
  PROVE  Framed(SubSeq(s, n + 1, Len(s)), m[n])
<1> DEFINE l == Len(s)
           t == SubSeq(s, n + 1, l)
           e == [k \in 0..(l - n) |-> m[n + k]]
<1>1. l \in Nat /\ n \in 0..l /\ Len(t) = l - n
  OBVIOUS
<1>2. \A k \in 1..(l - n) : t[k] = s[n + k]
  OBVIOUS
<1>3. /\ m \in [0..l -> 0..3] /\ \A k \in 1..l : Follows(s[k], m[k - 1], m[k])
      /\ m[l] \in {0, InSysex}
  BY DEF Traces
<1> HIDE DEF l, t
<1>4. e \in [0..(l - n) -> 0..3] /\ \A k \in 0..(l - n) : e[k] = m[n + k]
  <2>1. ASSUME NEW k \in 0..(l - n) PROVE m[n + k] \in 0..3
    <3>1. n + k \in 0..l
      BY <1>1
    <3> QED BY <1>3, <3>1
  <2> QED BY <2>1
<1> HIDE DEF e
<1>5. ASSUME NEW k \in 1..(l - n)
      PROVE  Follows(t[k], e[k - 1], e[k])
  <2>1. k \in 0..(l - n) /\ k - 1 \in 0..(l - n) /\ n + k \in 1..l /\ n + (k - 1) = (n + k) - 1
    BY <1>1
  <2>2. Follows(s[n + k], m[(n + k) - 1], m[n + k])
    BY <1>3, <2>1
  <2>3. t[k] = s[n + k] /\ e[k] = m[n + k] /\ e[k - 1] = m[(n + k) - 1]
    BY <1>2, <1>4, <2>1
  <2> QED BY <2>2, <2>3
<1>6. e[0] = m[n] /\ e[l - n] = m[l]
  <2>1. 0 \in 0..(l - n) /\ l - n \in 0..(l - n) /\ n + 0 = n /\ n + (l - n) = l
    BY <1>1
  <2> QED BY <1>4, <2>1
<1>7. Traces(t, e)
  BY <1>1, <1>3, <1>4, <1>5, <1>6 DEF Traces
<1>8. Framed(t, m[n])
  BY <1>1, <1>4, <1>6, <1>7 DEF Framed
<1> QED BY <1>8 DEF t, l

\* What waits in the queue and what the main loop has still to put behind it.
Ahead == Contents(queue) \o out
WholeInputs ==
  /\ UsbMessages = {}
  /\ \A p \in SerialPackets \cup OscChunks : Framed(p, 0)

\* Unless a byte was lost, what is ahead is whole messages, from the place that the
\* reader's mode stands for.
WholeInv ==
  /\ TypeInv
  /\ usb = <<>>
  /\ pc \in {"idle", "led"} => out = <<>>
  /\ ~lost /\ ~underrun => Framed(Ahead, IF sysex THEN InSysex ELSE 0)
  /\ WholeMessages

LEMMA AheadBytes ==
  ASSUME TypeInv
  PROVE  /\ Contents(queue) \in Seq(Byte) /\ out \in Seq(Byte) /\ Ahead \in Seq(Byte)
         /\ Len(Contents(queue)) = bytequeue_length(queue)
         /\ bytequeue_length(queue) \in Nat /\ Len(Ahead) \in Nat
         /\ bytequeue_length(queue) <= Len(Ahead)
         /\ \A k \in 1..bytequeue_length(queue) : Ahead[k] = bytequeue_get(queue, k - 1)
         /\ bytequeue_length(queue) >= 1 => Ahead[1] = status_byte
<1>1. queue \in Queue /\ out \in Seq(Byte)
  BY DEF TypeInv, TypeOK
<1> DEFINE s == Contents(queue)
           l == bytequeue_length(queue)
<1>2. /\ s \in Seq(Byte) /\ Len(s) = l
      /\ \A k \in 1..l : s[k] = bytequeue_get(queue, k - 1)
  BY <1>1, ContentsType
<1>3. l \in Nat
  BY <1>1, LengthType, QSizeAssumption
<1> HIDE DEF s, l
<1>4. s \o out \in Seq(Byte) /\ Len(s \o out) \in Nat /\ l <= Len(s \o out)
  BY <1>1, <1>2, <1>3
<1>5. \A k \in 1..l : (s \o out)[k] = s[k]
  BY <1>1, <1>2, <1>3
<1>6. l >= 1 => (s \o out)[1] = status_byte
  <2> SUFFICES ASSUME l >= 1 PROVE (s \o out)[1] = status_byte
    OBVIOUS
  <2>1. 1 \in 1..l /\ 1 - 1 = 0
    BY <1>3
  <2> QED BY <1>2, <1>5, <2>1 DEF status_byte
<1> QED BY <1>1, <1>2, <1>3, <1>4, <1>5, <1>6 DEF Ahead, s, l

\* A byte that is put into the queue only changes its place.
LEMMA EnqueueKeepsAhead ==
  ASSUME TypeInv, out # <<>>, Enqueue(Head(out)), out' = Tail(out), ~lost'
  PROVE  Ahead' = Ahead
<1>1. queue \in Queue /\ out \in Seq(Byte) /\ ~ IsFull(queue)
      /\ queue' = bytequeue_enqueue(queue, Head(out))
  BY DEF TypeInv, TypeOK, Enqueue
<1>2. Head(out) \in Byte
  BY <1>1
<1>3. Contents(queue') = Append(Contents(queue), Head(out))
  BY <1>1, <1>2, EnqueueAppends
<1> DEFINE s == Contents(queue)
<1>4. s \in Seq(Byte)
  BY AheadBytes
<1> HIDE DEF s
<1>5. Append(s, Head(out)) \o Tail(out) = s \o out
  BY <1>1, <1>4
<1> QED BY <1>3, <1>5 DEF Ahead, s

\* What is taken off the queue is the beginning of what is ahead.
LEMMA RemoveFromAhead ==
  ASSUME TypeInv, NEW n \in 0..bytequeue_length(queue), NEW mode, NEW packet,
         Respond(n, mode, packet)
  PROVE  Ahead' = SubSeq(Ahead, n + 1, Len(Ahead)) /\ n \in 0..Len(Ahead)
<1>1. queue \in Queue /\ queue' = bytequeue_remove(queue, n) /\ out' = out
  BY DEF TypeInv, TypeOK, Respond, mainVars
<1> DEFINE s == Contents(queue)
           l == bytequeue_length(queue)
<1>2. Contents(queue') = SubSeq(s, n + 1, Len(s))
  BY <1>1, RemoveTakes
<1>3. /\ s \in Seq(Byte) /\ out \in Seq(Byte) /\ Len(s) = l /\ l \in Nat /\ n \in 0..l
      /\ l <= Len(Ahead) /\ Len(Ahead) \in Nat
  BY AheadBytes
<1> HIDE DEF s, l
<1>4. SubSeq(s, n + 1, Len(s)) \o out = SubSeq(s \o out, n + 1, Len(s \o out))
  BY <1>3
<1> QED BY <1>1, <1>2, <1>3, <1>4 DEF Ahead, s

LEMMA RequestKeepsFrames ==
  ASSUME TypeInv, Framed(Ahead, IF sysex THEN InSysex ELSE 0), onRequestService, ~underrun'
  PROVE  /\ Framed(Ahead', IF sysex' THEN InSysex ELSE 0)
         /\ reply'.cin > 7 => IsWholeMessage(reply'.bytes)
<1> DEFINE l == bytequeue_length(queue)
           x == IF sysex THEN InSysex ELSE 0
<1>1. PICK m \in [0..Len(Ahead) -> 0..3] : Traces(Ahead, m) /\ m[0] = x
  BY DEF Framed
<1>0. TypeOK
  BY DEF TypeInv
<1>2. /\ qlen \in 0..3 /\ qlen <= l /\ l \in Nat /\ l <= Len(Ahead) /\ Len(Ahead) \in Nat
      /\ qlen = 0 <=> l = 0
      /\ Ahead \in Seq(Byte) /\ status_byte \in Byte
      /\ \A k \in 1..l : Ahead[k] = bytequeue_get(queue, k - 1)
      /\ l >= 1 => Ahead[1] = status_byte
      /\ sysex \in BOOLEAN
  BY <1>0, AheadBytes, RequestReads DEF TypeOK
<1>3. \A k \in 1..l : Follows(Ahead[k], m[k - 1], m[k])
  BY <1>1, <1>2 DEF Traces
<1>4. ASSUME NEW n \in 0..Len(Ahead)
      PROVE  Framed(SubSeq(Ahead, n + 1, Len(Ahead)), m[n])
  BY <1>1, <1>2, FramedRest
<1> HIDE DEF l
\* A piece taken in sysex mode: the mode before its first byte.
<1>6. in_sysex_mode /\ l >= 1 =>
        \/ m[0] = InSysex
        \/ Ahead[1] = SYSEX_BEGIN /\ m[1] = InSysex
  <2> SUFFICES ASSUME in_sysex_mode, l >= 1, m[0] # InSysex
               PROVE  Ahead[1] = SYSEX_BEGIN /\ m[1] = InSysex
    OBVIOUS
  <2>1. ~ sysex /\ begins /\ m[0] = 0
    BY <1>1, <1>2 DEF in_sysex_mode
  <2>2. Ahead[1] = SYSEX_BEGIN
    BY <1>2, <2>1 DEF begins
  <2>3. Follows(Ahead[1], 0, m[1])
    <3>1. 1 \in 1..l /\ 1 - 1 = 0
      BY <1>2
    <3> QED BY <1>3, <2>1, <3>1
  <2> QED BY <2>2, <2>3 DEF Follows, InSysex
\* Within a system-exclusive message, up to its first SYSEX_END.
<1>7. ASSUME NEW n \in 1..3, n <= l, in_sysex_mode,
             \A k \in 1..(n - 1) : Ahead[k] # SYSEX_END
      PROVE  m[n] = IF Ahead[n] = SYSEX_END THEN 0 ELSE InSysex
  <2>1. /\ Follows(Ahead[1], m[0], m[1])
        /\ n >= 2 => Follows(Ahead[2], m[1], m[2])
        /\ n >= 3 => Follows(Ahead[3], m[2], m[3])
    <3>1. l >= 1 /\ (n >= 2 => l >= 2) /\ (n >= 3 => l >= 3)
      BY <1>2, <1>7
    <3>2. 1 \in 1..l /\ (n >= 2 => 2 \in 1..l) /\ (n >= 3 => 3 \in 1..l)
      BY <1>2, <3>1
    <3>3. 1 - 1 = 0 /\ 2 - 1 = 1 /\ 3 - 1 = 2
      OBVIOUS
    <3> QED BY <1>3, <3>2, <3>3
  <2>2. m[1] = IF Ahead[1] = SYSEX_END THEN 0 ELSE InSysex
    <3>1. l >= 1
      BY <1>2, <1>7
    <3>2. CASE m[0] = InSysex
      BY <2>1, <3>2 DEF Follows, InSysex
    <3>3. CASE m[0] # InSysex
      BY <1>6, <1>7, <3>1, <3>3 DEF SYSEX_BEGIN, SYSEX_END
    <3> QED BY <3>2, <3>3
  <2>3. n >= 2 => m[2] = IF Ahead[2] = SYSEX_END THEN 0 ELSE InSysex
    <3> SUFFICES ASSUME n >= 2 PROVE m[2] = IF Ahead[2] = SYSEX_END THEN 0 ELSE InSysex
      OBVIOUS
    <3>1. Ahead[1] # SYSEX_END
      BY <1>7
    <3> QED BY <2>1, <2>2, <3>1 DEF Follows, InSysex
  <2>4. n >= 3 => m[3] = IF Ahead[3] = SYSEX_END THEN 0 ELSE InSysex
    <3> SUFFICES ASSUME n >= 3 PROVE m[3] = IF Ahead[3] = SYSEX_END THEN 0 ELSE InSysex
      OBVIOUS
    <3>1. Ahead[2] # SYSEX_END
      BY <1>7
    <3> QED BY <2>1, <2>3, <3>1 DEF Follows, InSysex
  <2>5. n = 1 \/ n = 2 \/ n = 3
    OBVIOUS
  <2> QED BY <2>2, <2>3, <2>4, <2>5
<1>8. ASSUME NEW n \in 0..l, NEW mode, NEW packet, Respond(n, mode, packet)
      PROVE  Framed(Ahead', m[n]) /\ Ahead' \in Seq(Byte) /\ sysex' = mode /\ reply' = packet
  <2>1. Ahead' = SubSeq(Ahead, n + 1, Len(Ahead)) /\ n \in 0..Len(Ahead)
    BY <1>8, RemoveFromAhead DEF l
  <2>2. Framed(Ahead', m[n])
    BY <1>4, <2>1
  <2>3. Ahead' \in Seq(Byte)
    BY <1>2, <2>1
  <2> QED BY <1>8, <2>2, <2>3 DEF Respond
<1>9. CASE RequestPacket
  <2> DEFINE n == midi_packet_len
  <2>1. /\ n \in 1..3 /\ n <= l /\ n \in 0..l /\ ~ sysex /\ ~ begins
        /\ Respond(n, sysex, [cin |-> status_byte \div 16, bytes |-> Oldest(n)])
        /\ n = midi_packet_length(status_byte)
    <3>1. /\ ~ sysex /\ ~ begins /\ n > 0 /\ qlen >= n
          /\ Respond(n, sysex, [cin |-> status_byte \div 16, bytes |-> Oldest(n)])
      BY <1>9 DEF RequestPacket, in_sysex_mode
    <3>2. n \in 0..3
      BY <1>0, RequestReads
    <3>3. n = midi_packet_length(status_byte)
      BY <3>1 DEF midi_packet_len
    <3> HIDE DEF n
    <3>4. n \in 1..3 /\ n <= l /\ n \in 0..l
      BY <1>2, <3>1, <3>2
    <3> QED BY <3>1, <3>3, <3>4
  <2> HIDE DEF n
  <2>2. status_byte # SYSEX_BEGIN /\ Ahead[1] = status_byte /\ m[0] = 0
    BY <1>1, <1>2, <2>1 DEF begins
  <2>3. /\ Follows(Ahead[1], m[0], m[1])
        /\ n >= 2 => Follows(Ahead[2], m[1], m[2])
        /\ n >= 3 => Follows(Ahead[3], m[2], m[3])
    <3>1. 1 \in 1..l /\ (n >= 2 => 2 \in 1..l) /\ (n >= 3 => 3 \in 1..l)
      BY <1>2, <2>1
    <3>2. 1 - 1 = 0 /\ 2 - 1 = 1 /\ 3 - 1 = 2
      OBVIOUS
    <3> QED BY <1>3, <3>1, <3>2
  <2>4. m[1] = n - 1
    BY <2>1, <2>2, <2>3 DEF Follows, InSysex
  <2>5. n >= 2 => Ahead[2] \in DataByte /\ m[2] = n - 2
    BY <2>1, <2>3, <2>4 DEF Follows, InSysex
  <2>6. n >= 3 => Ahead[3] \in DataByte /\ m[3] = n - 3
    BY <2>1, <2>3, <2>5 DEF Follows, InSysex
  <2>7. m[n] = 0
    <3>1. n = 1 \/ n = 2 \/ n = 3
      BY <2>1
    <3> QED BY <2>4, <2>5, <2>6, <3>1
  <2>8. Framed(Ahead', 0) /\ sysex' = sysex /\ reply'.bytes = Oldest(n)
    BY <1>8, <2>1, <2>7
  <2>9. IsWholeMessage(Oldest(n))
    <3>1. Len(Oldest(n)) = n /\ \A k \in 1..n : Oldest(n)[k] = Ahead[k]
      <4>1. \A k \in 1..n : Oldest(n)[k] = bytequeue_get(queue, k - 1)
        BY <2>1, OldestAt
      <4>2. \A k \in 1..n : k \in 1..l
        BY <1>2, <2>1
      <4>3. Len(Oldest(n)) = n
        BY <1>0, <2>1, OldestBytes DEF l
      <4> QED BY <1>2, <4>1, <4>2, <4>3
    <3>2. Oldest(n)[1] = status_byte
      BY <2>1, <2>2, <3>1
    <3>3. \A k \in 2..n : Oldest(n)[k] \in DataByte
      <4>1. ASSUME NEW k \in 2..n PROVE Oldest(n)[k] \in DataByte
        <5>1. k = 2 \/ k = 3
          BY <2>1
        <5>2. k \in 1..n
          BY <2>1
        <5> QED BY <2>1, <2>5, <2>6, <3>1, <5>1, <5>2
      <4> QED BY <4>1
    <3>4. Oldest(n) # <<>>
      BY <2>1, <3>1
    <3> QED BY <2>1, <3>1, <3>2, <3>3, <3>4 DEF IsWholeMessage
  <2> QED BY <2>1, <2>8, <2>9
<1>10. CASE RequestWaits
  <2>1. Respond(0, sysex, Garbage) /\ 0 \in 0..l
    BY <1>2, <1>10 DEF RequestWaits
  <2>2. Framed(Ahead', x) /\ sysex' = sysex /\ reply'.cin = 0
    <3>1. Framed(Ahead', m[0]) /\ sysex' = sysex /\ reply' = Garbage
      BY <1>8, <2>1
    <3> QED BY <1>1, <3>1 DEF Garbage
  <2> QED BY <2>2
<1>11. CASE RequestSkips
  <2>1. Respond(1, sysex, Garbage) /\ ~ sysex /\ ~ begins /\ midi_packet_len = 0 /\ qlen # 0
    BY <1>11 DEF RequestSkips, in_sysex_mode
  <2>2. l >= 1 /\ 1 \in 0..l /\ 1 \in 1..l /\ 1 - 1 = 0 /\ qlen > 0
    BY <1>2, <2>1
  <2>3. /\ midi_packet_length(status_byte) = 0 /\ status_byte # SYSEX_BEGIN
        /\ Ahead[1] = status_byte /\ m[0] = 0
    BY <1>1, <1>2, <2>1, <2>2 DEF begins, midi_packet_len
  <2>4. Follows(Ahead[1], m[0], m[1])
    BY <1>3, <2>2
  <2>5. m[1] = 0
    BY <2>3, <2>4 DEF Follows, InSysex
  <2>6. Framed(Ahead', 0) /\ sysex' = sysex /\ reply'.cin = 0
    <3>1. Framed(Ahead', m[1]) /\ sysex' = sysex /\ reply' = Garbage
      BY <1>8, <2>1, <2>2
    <3> QED BY <2>5, <3>1 DEF Garbage
  <2> QED BY <2>1, <2>6
<1>12. CASE RequestSysexEnd
  <2>1. in_sysex_mode
    BY <1>12 DEF RequestSysexEnd
  <2>2. PICK n \in 1..3 :
          EndsAt(n) /\ Respond(n, FALSE, [cin |-> 4 + n, bytes |-> Oldest(n)])
    BY <1>12 DEF RequestSysexEnd
  <2>3. n <= l /\ n \in 0..l /\ n \in 1..l
    BY <1>2, <2>2 DEF EndsAt
  <2>4. Ahead[n] = SYSEX_END /\ \A k \in 1..(n - 1) : Ahead[k] # SYSEX_END
    <3>1. Ahead[n] = SYSEX_END
      BY <1>2, <2>2, <2>3 DEF EndsAt
    <3>2. ASSUME NEW k \in 1..(n - 1) PROVE Ahead[k] # SYSEX_END
      <4>1. k - 1 \in 0..(n - 2) /\ k \in 1..l
        BY <1>2, <2>3
      <4> QED BY <1>2, <2>2, <4>1 DEF EndsAt
    <3> QED BY <3>1, <3>2
  <2>5. m[n] = 0
    BY <1>7, <2>1, <2>3, <2>4
  <2>6. Framed(Ahead', 0) /\ sysex' = FALSE /\ reply'.cin = 4 + n
    <3> DEFINE packet == [cin |-> 4 + n, bytes |-> Oldest(n)]
    <3>1. packet.cin = 4 + n /\ Respond(n, FALSE, packet)
      BY <2>2
    <3> HIDE DEF packet
    <3>2. Framed(Ahead', m[n]) /\ sysex' = FALSE /\ reply' = packet
      BY <1>8, <2>3, <3>1
    <3> QED BY <2>5, <3>1, <3>2
  <2> QED BY <2>6
<1>13. CASE RequestSysexFull
  <2>1. in_sysex_mode /\ qlen = 3 /\ Respond(3, in_sysex_mode, [cin |-> 4, bytes |-> Oldest(3)])
    <3>1. in_sysex_mode /\ qlen >= 3 /\ Respond(3, in_sysex_mode, [cin |-> 4, bytes |-> Oldest(3)])
      BY <1>13 DEF RequestSysexFull
    <3>2. qlen = 3
      BY <1>2, <3>1
    <3> QED BY <3>1, <3>2
  <2>2. 3 <= l /\ 3 \in 0..l /\ 1 \in 1..l /\ 2 \in 1..l /\ 3 \in 1..l
    BY <1>2, <2>1
  <2>3. Ahead[1] # SYSEX_END /\ Ahead[2] # SYSEX_END /\ Ahead[3] # SYSEX_END
    <3>1. /\ bytequeue_get(queue, 0) # SYSEX_END
          /\ bytequeue_get(queue, 1) # SYSEX_END
          /\ bytequeue_get(queue, 2) # SYSEX_END
      BY <1>13, <2>1 DEF RequestSysexFull, EndsAt
    <3>2. 1 - 1 = 0 /\ 2 - 1 = 1 /\ 3 - 1 = 2
      OBVIOUS
    <3> QED BY <1>2, <2>2, <3>1, <3>2
  <2>4. m[3] = InSysex
    <3>1. \A k \in 1..(3 - 1) : Ahead[k] # SYSEX_END
      <4>1. \A k \in 1..(3 - 1) : k = 1 \/ k = 2
        OBVIOUS
      <4> QED BY <2>3, <4>1
    <3> QED BY <1>7, <2>1, <2>2, <2>3, <3>1
  <2>5. Framed(Ahead', InSysex) /\ sysex' = in_sysex_mode /\ reply'.cin = 4
    <3> DEFINE packet == [cin |-> 4, bytes |-> Oldest(3)]
    <3>1. packet.cin = 4 /\ Respond(3, in_sysex_mode, packet)
      BY <2>1
    <3> HIDE DEF packet
    <3>2. Framed(Ahead', m[3]) /\ sysex' = in_sysex_mode /\ reply' = packet
      BY <1>8, <2>2, <3>1
    <3> QED BY <2>4, <3>1, <3>2
  <2> QED BY <2>1, <2>5
<1>14. CASE RequestSysexWaits
  <2>1. in_sysex_mode /\ Respond(0, in_sysex_mode, Garbage) /\ 0 \in 0..l
    <3>1. in_sysex_mode /\ Respond(0, in_sysex_mode, Garbage)
      BY <1>14 DEF RequestSysexWaits
    <3>2. 0 \in 0..l
      BY <1>2
    <3> QED BY <3>1, <3>2
  <2>2. Framed(Ahead', m[0]) /\ sysex' = in_sysex_mode /\ reply'.cin = 0
    <3>1. Framed(Ahead', m[0]) /\ sysex' = in_sysex_mode /\ reply' = Garbage
      BY <1>8, <2>1
    <3> QED BY <3>1 DEF Garbage
  <2>3. m[0] \in {0, InSysex} /\ Ahead' \in Seq(Byte)
    <3>1. Ahead' \in Seq(Byte)
      BY <1>8, <2>1
    <3> QED BY <1>1, <3>1
  <2>4. Framed(Ahead', InSysex)
    BY <2>2, <2>3, FramedInSysex
  <2> QED BY <2>1, <2>2, <2>4
<1> QED BY <1>9, <1>10, <1>11, <1>12, <1>13, <1>14 DEF onRequestService

\* A packet begins: behind what is ahead comes what is framed for itself.
LEMMA BeginKeepsFrames ==
  ASSUME TypeInv, NEW p \in Seq(Byte), Framed(p, 0), NEW x, Framed(Ahead, x),
         out = <<>>, out' = p, queue' = queue
  PROVE  Framed(Ahead', x)
<1>1. Contents(queue) \in Seq(Byte) /\ Ahead = Contents(queue) /\ Ahead' = Ahead \o p
  BY AheadBytes DEF Ahead
<1> QED BY <1>1, FramedConcat

LEMMA WholeStep ==
  ASSUME WholeInputs, WholeInv, [Next]_vars
  PROVE  WholeInv'
<1>0. TypeInv /\ TypeInv' /\ TypeOK
  BY TypeInvStep DEF WholeInv, TypeInv
<1>1. CASE SerialPacket \/ OscChunk
  <2>1. /\ pc = "idle" /\ out = <<>> /\ queue' = queue /\ sysex' = sysex /\ usb' = usb
        /\ pc' \in {"enqueue", "chunk"}
        /\ UNCHANGED <<reply, lost, underrun>>
    BY <1>1 DEF WholeInv, SerialPacket, OscChunk, busVars, history
  <2>2. Framed(out', 0) /\ out' \in Seq(Byte)
    BY <1>0, <1>1 DEF WholeInputs, SerialPacket, OscChunk, TypeInv, TypeOK
  <2>3. ~lost' /\ ~underrun' => Framed(Ahead', IF sysex' THEN InSysex ELSE 0)
    <3> SUFFICES ASSUME ~lost', ~underrun' PROVE Framed(Ahead', IF sysex' THEN InSysex ELSE 0)
      OBVIOUS
    <3>1. Framed(Ahead, IF sysex THEN InSysex ELSE 0)
      BY <2>1 DEF WholeInv
    <3> QED BY <1>0, <2>1, <2>2, <3>1, BeginKeepsFrames
  <2> QED BY <1>0, <2>1, <2>3 DEF WholeInv, WholeMessages
<1>2. CASE SerialEnqueue \/ OscByte
  <2>1. /\ pc \in {"enqueue", "chunk"} /\ out # <<>> /\ Enqueue(Head(out)) /\ out' = Tail(out)
        /\ sysex' = sysex /\ usb' = usb /\ UNCHANGED <<reply, underrun>>
    BY <1>0, <1>2 DEF SerialEnqueue, OscByte, busVars, TypeInv, Pending
  <2>2. lost => lost'
    BY <2>1 DEF Enqueue
  <2>3. pc' \in {"idle", "led"} => out' = <<>>
    <3> SUFFICES ASSUME pc' \in {"idle", "led"} PROVE out' = <<>>
      OBVIOUS
    <3>1. OscByte /\ Len(out) = 1
      BY <1>2 DEF SerialEnqueue, OscByte
    <3>2. out \in Seq(Byte)
      BY <1>0 DEF TypeOK
    <3> QED BY <2>1, <3>1, <3>2
  <2>4. ~lost' /\ ~underrun' => Framed(Ahead', IF sysex' THEN InSysex ELSE 0)
    <3> SUFFICES ASSUME ~lost', ~underrun' PROVE Framed(Ahead', IF sysex' THEN InSysex ELSE 0)
      OBVIOUS
    <3>1. Ahead' = Ahead
      BY <1>0, <2>1, EnqueueKeepsAhead
    <3>2. Framed(Ahead, IF sysex THEN InSysex ELSE 0)
      BY <2>1, <2>2 DEF WholeInv
    <3> QED BY <2>1, <3>1, <3>2
  <2>5. WholeMessages'
    BY <2>1, <2>2 DEF WholeInv, WholeMessages
  <2> QED BY <1>0, <2>1, <2>3, <2>4, <2>5 DEF WholeInv
<1>3. CASE onRequestService
  <2>1. /\ UNCHANGED <<pc, out, usb, lost>> /\ (underrun => underrun')
    <3>1. UNCHANGED <<pc, out, usb>>
      BY <1>0, <1>3, RequestEffect
    <3>2. underrun => underrun'
      BY <1>3 DEF onRequestService, RequestPacket, RequestWaits, RequestSkips, RequestSysexEnd,
         RequestSysexFull, RequestSysexWaits
    <3>3. \E n, mode, packet : Respond(n, mode, packet)
      BY <1>3 DEF onRequestService, RequestPacket, RequestWaits, RequestSkips, RequestSysexEnd,
         RequestSysexFull, RequestSysexWaits
    <3>4. lost' = lost
      BY <3>3 DEF Respond
    <3> QED BY <3>1, <3>2, <3>4
  <2>2. ~lost' /\ ~underrun' =>
          /\ Framed(Ahead', IF sysex' THEN InSysex ELSE 0)
          /\ reply'.cin > 7 => IsWholeMessage(reply'.bytes)
    <3> SUFFICES ASSUME ~lost', ~underrun'
                 PROVE  /\ Framed(Ahead', IF sysex' THEN InSysex ELSE 0)
                        /\ reply'.cin > 7 => IsWholeMessage(reply'.bytes)
      OBVIOUS
    <3>1. Framed(Ahead, IF sysex THEN InSysex ELSE 0)
      BY <2>1 DEF WholeInv
    <3> QED BY <1>0, <1>3, <3>1, RequestKeepsFrames
  <2> QED BY <1>0, <2>1, <2>2 DEF WholeInv, WholeMessages
<1>4. CASE /\ UNCHANGED <<queue, out, sysex, usb, reply, lost, underrun>>
           /\ pc' \in {"idle", "led"} => out' = <<>>
  <2>1. Ahead' = Ahead
    BY <1>4 DEF Ahead
  <2> QED BY <1>0, <1>4, <2>1 DEF WholeInv, WholeMessages
<1>5. CASE SerialMeasure \/ SerialWrite \/ LedRead \/ LedWrite \/ UsbStop \/ UNCHANGED vars
  <2>1. /\ UNCHANGED <<queue, out, sysex, usb, reply, lost, underrun>>
        /\ pc' \in {"idle", "led"} => out' = <<>>
    BY <1>5 DEF SerialMeasure, SerialWrite, LedRead, LedWrite, UsbStop, vars, mainVars, busVars,
       history, WholeInv
  <2> QED BY <1>4, <2>1
<1>6. ~ UsbBegin /\ ~ UsbByte /\ ~ UsbRefused
  BY DEF UsbBegin, UsbByte, UsbRefused, WholeInv, WholeInputs
<1> QED BY <1>1, <1>2, <1>3, <1>5, <1>6 DEF Next, MainLoop, onReceiveService

\* As long as no byte is dropped or made up, each packet that is no piece of a
\* system-exclusive message is one whole MIDI message, whatever the main loop's routes send
\* and wherever the PIC's reads come between their bytes: if each packet and each chunk is
\* whole messages (a system-exclusive message may come in pieces, each with its start byte,
\* as the parser hands them over) and the PIC's own bytes are not mixed in
\* (HandleMidi.cpp 479-545).
THEOREM PacketsAreWhole ==
  ASSUME WholeInputs
  PROVE  Spec => []WholeMessages
<1>1. Init => WholeInv
  <2> SUFFICES ASSUME Init PROVE WholeInv
    OBVIOUS
  <2>1. TypeInv
    BY TypeInvInit
  <2>2. Contents(queue) = <<>> /\ out = <<>>
    BY InitEmpty DEF Init
  <2>3. Ahead = <<>>
    BY <2>2 DEF Ahead
  <2>4. Framed(Ahead, 0) /\ ~ sysex
    BY <2>3, FramedEmpty DEF Init
  <2>5. WholeMessages
    BY DEF Init, WholeMessages, Garbage
  <2> QED BY <2>1, <2>4, <2>5 DEF WholeInv, Init
<1>2. WholeInv /\ [Next]_vars => WholeInv'
  BY WholeStep
<1>3. WholeInv => WholeMessages
  BY DEF WholeInv
<1> QED BY <1>1, <1>2, <1>3, PTL DEF Spec
=============================================================================
