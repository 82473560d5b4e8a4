--------------------------- MODULE MLSerialProofs ---------------------------
(***************************************************************************)
(* What the MIDI jacks do, for every ring size, every byte and every        *)
(* interleaving with the interrupts.                                        *)
(*                                                                          *)
(* The ring of MLSerial.cpp works as the byte queue of bytequeue.c does, so *)
(* the lemmas about that one serve here: Ring is a Queue, store_char is     *)
(* bytequeue_enqueue, and the two halves of read are bytequeue_get and      *)
(* bytequeue_remove.  The inductive invariant is TypeOK with ReaderInv: the *)
(* bytes the main loop has still to read were counted, and nobody but the   *)
(* main loop takes any out.                                                 *)
(***************************************************************************)
EXTENDS MLSerial, ByteQueueProofs

\* Where the main loop reads, what it has still to read is in the ring; half way
\* through a read it holds the oldest byte of the ring.
ReaderInv ==
  /\ Len(buf) <= amt
  /\ pc \in {"read", "step"} => amt - Len(buf) <= bytequeue_length(Ring)
  /\ pc = "step" => Len(buf) < amt /\ reg = bytequeue_get(Ring, 0)
  /\ pc \notin {"read", "step"} => amt = 0

ThruInv == pc \in {"poll", "write"} <=> thru > 0

SerialInv == TypeOK /\ ReaderInv /\ ThruInv /\ OneLostPerCut

-----------------------------------------------------------------------------
(* The ring is a byte queue                                                 *)

LEMMA RingQueue ==
  ASSUME TypeOK
  PROVE  /\ Ring \in Queue
         /\ Ring.start = tail /\ Ring.end = head /\ Ring.data = buffer
         /\ bytequeue_length(Ring) \in 0..(QSize - 1)
<1>1. Ring \in Queue
  BY DEF TypeOK, Ring, Queue
<1> QED BY <1>1, LengthType DEF Ring

\* available counts as bytequeue_length does.
LEMMA AvailableIsLength ==
  ASSUME TypeOK
  PROVE  available = bytequeue_length(Ring)
<1>1. head \in Index /\ tail \in Index
  BY DEF TypeOK
<1>2. CASE head >= tail
  <2>1. (QSize + head - tail) % QSize = head - tail
    BY <1>1, <1>2, QSizeAssumption, SMTT(30) DEF Index
  <2> QED BY <1>2, <2>1 DEF available, bytequeue_length, Ring
<1>3. CASE head < tail
  <2>1. QSize + head - tail \in 0..(QSize - 1)
    BY <1>1, <1>3, QSizeAssumption DEF Index
  <2>2. (QSize + head - tail) % QSize = QSize + head - tail
    BY <2>1, QSizeAssumption, SMTT(30)
  <2>3. bytequeue_length(Ring) = (QSize - tail) + head
    BY <1>1, <1>3, QSizeAssumption DEF bytequeue_length, Ring, Index
  <2> QED BY <1>1, <2>2, <2>3, QSizeAssumption DEF available, Index
<1> QED BY <1>1, <1>2, <1>3, QSizeAssumption DEF Index

\* store_char is bytequeue_enqueue.
LEMMA StoreEnqueues ==
  ASSUME TypeOK, NEW c \in Byte, store_char(c), UNCHANGED tail
  PROVE  Ring' = bytequeue_enqueue(Ring, c)
<1>1. IsFull(Ring) <=> (head + 1) % QSize = tail
  BY DEF IsFull, Ring
<1> QED BY <1>1 DEF store_char, bytequeue_enqueue, Ring

\* A step that finds a byte is bytequeue_remove of one.
LEMMA StepRemoves ==
  ASSUME TypeOK, ReadStep, reg # NONE
  PROVE  Ring' = bytequeue_remove(Ring, 1)
BY DEF TypeOK, ReadStep, bytequeue_remove, Ring

-----------------------------------------------------------------------------
(* The invariant                                                            *)

LEMMA SerialInvInit == Init => SerialInv
<1> SUFFICES ASSUME Init PROVE SerialInv
  OBVIOUS
<1>1. TypeOK
  BY QSizeAssumption, BudgetAssumption DEF Init, TypeOK, Index, Byte
<1>2. ReaderInv /\ ThruInv /\ OneLostPerCut
  BY DEF Init, ReaderInv, ThruInv, OneLostPerCut
<1> QED BY <1>1, <1>2 DEF SerialInv

\* Only the interrupt and the second half of read touch the ring, and both keep it
\* a ring.
LEMMA RingStep ==
  ASSUME SerialInv, [Next]_vars
  PROVE  /\ buffer' \in [Index -> Byte] /\ head' \in Index /\ tail' \in Index
<1>0. TypeOK /\ Ring \in Queue
  BY RingQueue DEF SerialInv
<1>1. CASE USART_RX_vect
  <2>1. PICK c \in LineBytes : store_char(c)
    BY <1>1 DEF USART_RX_vect
  <2>2. c \in Byte
    BY LineAssumption
  <2>3. Ring' = bytequeue_enqueue(Ring, c) /\ tail' = tail
    BY <1>0, <1>1, <2>1, <2>2, StoreEnqueues DEF USART_RX_vect
  <2>4. Ring' \in Queue
    BY <1>0, <2>2, <2>3, EnqueueAppends
  <2> QED BY <2>4 DEF Ring, Queue
<1>2. CASE ReadStep
  <2>1. (tail + 1) % QSize \in Index
    BY <1>0, Wrap, QSizeAssumption DEF TypeOK
  <2> QED BY <1>0, <1>2, <2>1 DEF ReadStep, TypeOK
<1>3. CASE UNCHANGED ring
  BY <1>0, <1>3 DEF ring, TypeOK
<1> QED BY <1>1, <1>2, <1>3
        DEF Next, Process, ProcessBegin, ReadLook, ProcessInput, Transmit,
            ThruBegin, ThruPoll, ThruWrite, OscWrite, UsbWrite, vars

\* The interrupt only adds; the second half of read takes the one byte it looked at.
LEMMA LengthStep ==
  ASSUME SerialInv, [Next]_vars
  PROVE  /\ ~ReadStep => bytequeue_length(Ring') >= bytequeue_length(Ring)
         /\ ReadStep => bytequeue_length(Ring') = bytequeue_length(Ring) - 1
<1>0. TypeOK /\ Ring \in Queue /\ bytequeue_length(Ring) \in 0..(QSize - 1)
  BY RingQueue DEF SerialInv
<1>1. CASE USART_RX_vect
  <2>1. PICK c \in LineBytes : store_char(c)
    BY <1>1 DEF USART_RX_vect
  <2>2. c \in Byte
    BY LineAssumption
  <2>3. Ring' = bytequeue_enqueue(Ring, c) /\ pc' = pc /\ tail' = tail
    BY <1>0, <1>1, <2>1, <2>2, StoreEnqueues DEF USART_RX_vect
  <2>4. bytequeue_length(Ring') >= bytequeue_length(Ring)
    <3>1. CASE IsFull(Ring)
      BY <1>0, <2>2, <2>3, <3>1, EnqueueAppends
    <3>2. CASE ~IsFull(Ring)
      <4>1. Ring' \in Queue /\ Contents(Ring') = Append(Contents(Ring), c)
        BY <1>0, <2>2, <2>3, <3>2, EnqueueAppends
      <4>2. /\ Contents(Ring) \in Seq(Byte)
            /\ Len(Contents(Ring)) = bytequeue_length(Ring)
            /\ Len(Contents(Ring')) = bytequeue_length(Ring')
        BY <1>0, <4>1, ContentsType
      <4>3. Len(Contents(Ring')) = Len(Contents(Ring)) + 1
        BY <2>2, <4>1, <4>2
      <4> QED BY <1>0, <4>2, <4>3
    <3> QED BY <3>1, <3>2
  <2>5. ~ReadStep
    BY <1>0, <1>1, <2>3 DEF ReadStep, TypeOK
  <2> QED BY <2>4, <2>5
<1>2. CASE ReadStep
  <2>1. Len(buf) < amt /\ amt \in 0..3 /\ buf \in Seq(Byte) /\ reg \in Byte
        /\ amt - Len(buf) <= bytequeue_length(Ring)
    BY <1>0, <1>2, GetType, QSizeAssumption
       DEF SerialInv, ReaderInv, ReadStep, TypeOK
  <2>2. reg # NONE /\ 1 \in 0..bytequeue_length(Ring)
    BY <1>0, <2>1 DEF NONE, Byte
  <2>3. Ring' = bytequeue_remove(Ring, 1)
    BY <1>0, <1>2, <2>2, StepRemoves
  <2> QED BY <1>0, <1>2, <2>2, <2>3, RemoveTakes
<1>3. CASE UNCHANGED ring /\ ~ReadStep
  <2>1. Ring' = Ring
    BY <1>3 DEF ring, Ring
  <2> QED BY <1>0, <1>3, <2>1
<1> QED BY <1>1, <1>2, <1>3
        DEF Next, Process, ProcessBegin, ReadLook, ProcessInput, Transmit,
            ThruBegin, ThruPoll, ThruWrite, OscWrite, UsbWrite, vars

\* What the byte looked at is stays where it is until it is taken.
LEMMA OldestStays ==
  ASSUME SerialInv, USART_RX_vect, pc = "step"
  PROVE  bytequeue_get(Ring', 0) = bytequeue_get(Ring, 0)
<1>0. TypeOK /\ Ring \in Queue /\ bytequeue_length(Ring) \in 0..(QSize - 1)
  BY RingQueue DEF SerialInv
<1>1. head \in Index /\ tail \in Index /\ buffer \in [Index -> Byte]
  BY <1>0 DEF TypeOK
<1>2. bytequeue_length(Ring) > 0
  BY <1>0 DEF SerialInv, ReaderInv, TypeOK
<1>3. head # tail
  BY <1>0, <1>2, LengthType DEF Ring
<1>4. (tail + 0) % QSize = tail
  BY <1>1, QSizeAssumption, SMTT(30) DEF Index
<1>5. tail' = tail /\ buffer'[tail] = buffer[tail]
  BY <1>1, <1>3 DEF USART_RX_vect, store_char
<1>6. bytequeue_get(Ring, 0) = buffer[tail] /\ bytequeue_get(Ring', 0) = buffer'[tail]
  BY <1>4, <1>5 DEF bytequeue_get, Ring
<1> QED BY <1>5, <1>6

LEMMA TypeStep ==
  ASSUME SerialInv, [Next]_vars
  PROVE  TypeOK'
<1>0. TypeOK /\ ReaderInv /\ ThruInv
  BY DEF SerialInv
<1>1. buffer' \in [Index -> Byte] /\ head' \in Index /\ tail' \in Index
  BY RingStep
<1>2. pc' \in {"idle", "read", "step", "poll", "write"}
  BY <1>0 DEF TypeOK, Next, Process, USART_RX_vect, ProcessBegin, ReadLook, ReadStep,
       ProcessInput, Transmit, ThruBegin, ThruPoll, ThruWrite, OscWrite, UsbWrite,
       reader, writer, vars
<1>3. amt' \in 0..3
  <2>1. available \in 0..(QSize - 1)
    BY <1>0, AvailableIsLength, RingQueue
  <2>2. CASE ProcessBegin
    BY <2>1, <2>2, QSizeAssumption DEF ProcessBegin
  <2>3. CASE amt' \in {amt, 0}
    BY <1>0, <2>3 DEF TypeOK
  <2> QED BY <2>2, <2>3
       DEF Next, Process, USART_RX_vect, ReadLook, ReadStep,
       ProcessInput, Transmit, ThruBegin, ThruPoll, ThruWrite, OscWrite, UsbWrite,
       reader, writer, vars
<1>4. reg' \in Byte \cup {NONE}
  BY <1>0 DEF TypeOK, Index, Next, Process, USART_RX_vect, ProcessBegin, ReadLook,
       ReadStep, ProcessInput, Transmit, ThruBegin, ThruPoll, ThruWrite, OscWrite,
       UsbWrite, reader, writer, vars
<1>5. buf' \in Seq(Byte) /\ handed' \in Seq(Byte)
  <2>1. CASE ReadStep
    <3>1. reg % 256 \in Byte
      BY <1>0 DEF TypeOK, Byte, NONE
    <3> QED BY <1>0, <2>1, <3>1 DEF TypeOK, ReadStep
  <2>2. CASE ~ReadStep
    <3>1. buf' \in {buf, <<>>} /\ handed' \in {handed, buf, <<>>}
      BY <2>2 DEF Next, Process, USART_RX_vect, ProcessBegin, ReadLook,
         ProcessInput, Transmit, ThruBegin, ThruPoll, ThruWrite, OscWrite, UsbWrite,
         reader, writer, vars
    <3>2. <<>> \in Seq(Byte)
      OBVIOUS
    <3> QED BY <1>0, <3>1, <3>2 DEF TypeOK
  <2> QED BY <2>1, <2>2
<1>6. udr' \in Writers \cup {"empty"}
  BY <1>0 DEF TypeOK, Writers, Next, Process, USART_RX_vect, ProcessBegin, ReadLook,
       ReadStep, ProcessInput, Transmit, ThruBegin, ThruPoll, ThruWrite, OscWrite,
       UsbWrite, WriteMasked, reader, writer, vars
<1>7. thru' \in 0..3 /\ lost' \in Nat /\ cut' \in Nat /\ budget' \in 0..Budget
  <2>1. /\ ThruMax \in 0..3 /\ Budget \in Nat
        /\ thru \in 0..3 /\ lost \in Nat /\ cut \in Nat /\ budget \in 0..Budget
    BY <1>0, BudgetAssumption DEF TypeOK
  <2>2. CASE ThruBegin
    BY <2>1, <2>2 DEF ThruBegin, Begin
  <2>3. CASE ThruWrite
    BY <1>0, <2>1, <2>3 DEF ThruWrite, ThruInv
  <2>4. CASE OscWrite \/ UsbWrite
    BY <2>1, <2>4 DEF OscWrite, UsbWrite, Begin
  <2>5. CASE UNCHANGED <<thru, lost, cut, budget>>
    BY <2>1, <2>5
  <2> QED BY <2>2, <2>3, <2>4, <2>5
       DEF Next, Process, USART_RX_vect, ProcessBegin, ReadLook, ReadStep,
       ProcessInput, Transmit, ThruPoll, writer, vars
<1> QED BY <1>1, <1>2, <1>3, <1>4, <1>5, <1>6, <1>7 DEF TypeOK

LEMMA ReaderStep ==
  ASSUME SerialInv, [Next]_vars
  PROVE  ReaderInv'
<1>0. TypeOK /\ ReaderInv /\ bytequeue_length(Ring) \in 0..(QSize - 1) /\ Ring \in Queue
  BY RingQueue DEF SerialInv
<1>a. amt \in 0..3 /\ buf \in Seq(Byte)
  BY <1>0 DEF TypeOK
<1>b. TypeOK' /\ bytequeue_length(Ring') \in Nat
  <2>1. TypeOK'
    BY TypeStep
  <2>2. Ring' \in Queue
    BY <2>1 DEF TypeOK, Ring, Queue
  <2> QED BY <2>1, <2>2, LengthType, QSizeAssumption
<1>c. /\ bytequeue_length(Ring)' = bytequeue_length(Ring')
      /\ bytequeue_get(Ring, 0)' = bytequeue_get(Ring', 0)
  BY DEF bytequeue_length, bytequeue_get
<1>1. CASE USART_RX_vect
  <2>1. UNCHANGED <<pc, amt, reg, buf>>
    BY <1>1 DEF USART_RX_vect, reader
  <2>2. bytequeue_length(Ring') >= bytequeue_length(Ring)
    BY <1>0, <1>1, <2>1, LengthStep DEF ReadStep, TypeOK
  <2>3. pc = "step" => bytequeue_get(Ring', 0) = bytequeue_get(Ring, 0)
    BY <1>1, OldestStays
  <2> QED BY <1>0, <1>a, <1>b, <1>c, <2>1, <2>2, <2>3 DEF ReaderInv
<1>2. CASE ProcessBegin
  <2>1. amt' <= bytequeue_length(Ring) /\ amt' \in 0..3 /\ buf' = <<>> /\ pc' = "read"
    BY <1>0, <1>2, <1>b, AvailableIsLength DEF ProcessBegin, TypeOK
  <2>2. Ring' = Ring
    BY <1>2 DEF ProcessBegin, ring, Ring
  <2> QED BY <1>0, <1>c, <2>1, <2>2 DEF ReaderInv
<1>3. CASE ReadLook
  <2>1. Ring' = Ring /\ UNCHANGED <<amt, buf>> /\ pc' = "step" /\ Len(buf) < amt
        /\ pc = "read"
    BY <1>3 DEF ReadLook, ring, Ring
  <2>2. amt - Len(buf) <= bytequeue_length(Ring)
    BY <1>0, <2>1 DEF ReaderInv
  <2>3. Ring.start # Ring.end
    BY <1>0, <1>a, <2>1, <2>2, LengthType
  <2>4. head # tail /\ tail \in Index
    BY <1>0, <2>3 DEF Ring, TypeOK
  <2>5. (tail + 0) % QSize = tail
    BY <2>4, QSizeAssumption, SMTT(30) DEF Index
  <2>6. reg' = bytequeue_get(Ring, 0)
    BY <1>3, <2>4, <2>5 DEF ReadLook, bytequeue_get, Ring
  <2> QED BY <1>a, <1>c, <2>1, <2>2, <2>6 DEF ReaderInv
<1>4. CASE ReadStep
  <2>1. pc = "step" /\ pc' = "read" /\ amt' = amt /\ buf' = Append(buf, reg % 256)
    BY <1>4 DEF ReadStep
  <2>2. Len(buf) < amt /\ amt - Len(buf) <= bytequeue_length(Ring)
    BY <1>0, <2>1 DEF ReaderInv
  <2>3. Len(buf') = Len(buf) + 1
    BY <1>a, <2>1
  <2>4. bytequeue_length(Ring') = bytequeue_length(Ring) - 1
    BY <1>4, LengthStep
  <2> QED BY <1>0, <1>a, <1>c, <2>1, <2>2, <2>3, <2>4 DEF ReaderInv
<1>5. CASE ProcessInput
  BY <1>5 DEF ProcessInput, ReaderInv
<1>6. CASE UNCHANGED <<ring, reader>> /\ (pc' = pc \/ pc' \notin {"read", "step"})
           /\ (pc' # pc => pc \notin {"read", "step"})
  <2>1. Ring' = Ring /\ UNCHANGED <<amt, reg, buf>>
    BY <1>6 DEF ring, reader, Ring
  <2> QED BY <1>0, <1>6, <1>c, <2>1 DEF ReaderInv
<1> QED BY <1>1, <1>2, <1>3, <1>4, <1>5, <1>6
        DEF Next, Process, Transmit, ThruBegin, ThruPoll, ThruWrite, OscWrite,
            UsbWrite, vars

LEMMA WriterStep ==
  ASSUME SerialInv, [Next]_vars
  PROVE  ThruInv' /\ OneLostPerCut'
<1>0. TypeOK /\ ThruInv /\ OneLostPerCut
  BY DEF SerialInv
<1>1. thru \in 0..3 /\ lost \in Nat /\ cut \in Nat
  BY <1>0 DEF TypeOK
<1>2. CASE ThruBegin
  <2>1. pc = "idle" /\ pc' = "poll" /\ thru' > 0 /\ UNCHANGED <<lost, cut>>
    BY <1>2, BudgetAssumption DEF ThruBegin
  <2> QED BY <1>0, <1>1, <2>1 DEF ThruInv, OneLostPerCut
<1>3. CASE ThruPoll
  BY <1>0, <1>1, <1>3 DEF ThruPoll, ThruInv, OneLostPerCut, writer
<1>4. CASE ThruWrite
  BY <1>0, <1>1, <1>4 DEF ThruWrite, ThruInv, OneLostPerCut
<1>5. CASE UsbWrite
  BY <1>0, <1>1, <1>5 DEF UsbWrite, ThruInv, OneLostPerCut
<1>6. CASE OscWrite \/ Transmit
  BY <1>0, <1>1, <1>6 DEF OscWrite, WriteMasked, Transmit, ThruInv, OneLostPerCut
<1>7. CASE USART_RX_vect \/ Process \/ UNCHANGED vars
  <2>1. /\ UNCHANGED <<udr, thru, lost, cut>>
        /\ pc' = pc \/ {pc, pc'} \subseteq {"idle", "read", "step"}
    BY <1>7 DEF USART_RX_vect, Process, ProcessBegin, ReadLook, ReadStep,
       ProcessInput, writer, vars
  <2> QED BY <1>0, <1>1, <2>1 DEF ThruInv, OneLostPerCut
<1> QED BY <1>2, <1>3, <1>4, <1>5, <1>6, <1>7 DEF Next

LEMMA SerialInvStep ==
  SerialInv /\ [Next]_vars => SerialInv'
BY TypeStep, ReaderStep, WriterStep DEF SerialInv

\* The type invariant.
THEOREM TypeCorrect == Spec => []TypeOK
<1>1. SerialInv => TypeOK
  BY DEF SerialInv
<1> QED BY <1>1, SerialInvInit, SerialInvStep, PTL DEF Spec

\* Serial.read never says -1 to missinglink_midi_process, for every ring size and
\* every moment at which the interrupt comes.
THEOREM ReadsSomething == Spec => []NeverReadsNothing
<1>1. SerialInv => NeverReadsNothing
  <2> SUFFICES ASSUME SerialInv, pc = "step" PROVE reg # NONE
    BY DEF NeverReadsNothing
  <2>1. TypeOK /\ Ring \in Queue /\ reg = bytequeue_get(Ring, 0)
    BY RingQueue DEF SerialInv, ReaderInv
  <2>2. reg \in Byte
    BY <2>1, GetType, QSizeAssumption
  <2> QED BY <2>2 DEF Byte, NONE
<1> QED BY <1>1, SerialInvInit, SerialInvStep, PTL DEF Spec

\* Of the bytes of the thru route at most one is lost for each byte that the TWI
\* interrupt writes.
THEOREM LossBounded == Spec => []OneLostPerCut
<1>1. SerialInv => OneLostPerCut
  BY DEF SerialInv
<1> QED BY <1>1, SerialInvInit, SerialInvStep, PTL DEF Spec

-----------------------------------------------------------------------------
(* The ring and the bytes read are a first-in first-out stream              *)

LEMMA StreamSeq ==
  ASSUME SerialInv
  PROVE  /\ buf \in Seq(Byte) /\ Len(buf) <= 3
         /\ Contents(Ring) \in Seq(Byte)
         /\ Len(Contents(Ring)) = bytequeue_length(Ring)
BY RingQueue, ContentsType DEF SerialInv, TypeOK, ReaderInv

LEMMA StoreRefines ==
  ASSUME SerialInv, USART_RX_vect
  PROVE  [Stream!Next]_(Stream!vars)
<1>0. TypeOK /\ Ring \in Queue
  BY RingQueue DEF SerialInv
<1>1. PICK c \in LineBytes : store_char(c)
  BY DEF USART_RX_vect
<1>2. c \in Byte
  BY LineAssumption
<1>3. Ring' = bytequeue_enqueue(Ring, c) /\ UNCHANGED <<buf, handed>>
  BY <1>0, <1>1, <1>2, StoreEnqueues DEF USART_RX_vect, reader
<1>4. Contents(Ring)' = Contents(Ring')
  BY DEF Contents, bytequeue_length, bytequeue_get
<1>5. CASE IsFull(Ring)
  BY <1>0, <1>2, <1>3, <1>4, <1>5, EnqueueAppends DEF Stream!vars
<1>6. CASE ~IsFull(Ring)
  <2>1. Contents(Ring') = Append(Contents(Ring), c)
    BY <1>0, <1>2, <1>3, <1>6, EnqueueAppends
  <2>2. bytequeue_length(Ring) \in 0..(QSize - 2)
    BY <1>0, <1>6, FullLength, LengthType, QSizeAssumption
  <2>3. Len(buf \o Contents(Ring)) < QSize + 2
    BY <2>2, StreamSeq, QSizeAssumption
  <2>4. buf \o Append(Contents(Ring), c) = Append(buf \o Contents(Ring), c)
    BY <1>2, StreamSeq
  <2>5. Stream!Put(c)
    BY <1>3, <1>4, <2>1, <2>3, <2>4 DEF Stream!Put
  <2> QED BY <2>5 DEF Stream!Next
<1> QED BY <1>5, <1>6

LEMMA MoveFirst ==
  ASSUME NEW s \in Seq(Byte), NEW t \in Seq(Byte), NEW x \in Byte,
         Len(t) >= 1, t[1] = x
  PROVE  Append(s, x) \o SubSeq(t, 2, Len(t)) = s \o t
<1> DEFINE u == Append(s, x)
           v == SubSeq(t, 2, Len(t))
<1>1. u \in Seq(Byte) /\ Len(u) = Len(s) + 1
      /\ \A i \in 1..Len(u) : u[i] = IF i <= Len(s) THEN s[i] ELSE x
  OBVIOUS
<1>2. v \in Seq(Byte) /\ Len(v) = Len(t) - 1
      /\ \A i \in 1..Len(v) : v[i] = t[i + 1]
  OBVIOUS
<1> HIDE DEF u, v
<1>3. /\ u \o v \in Seq(Byte) /\ Len(u \o v) = Len(u) + Len(v)
      /\ s \o t \in Seq(Byte) /\ Len(s \o t) = Len(s) + Len(t)
      /\ Len(s) \in Nat /\ Len(t) \in Nat
  <2>1. u \in Seq(Byte) /\ v \in Seq(Byte)
    BY <1>1, <1>2
  <2>2. u \o v \in Seq(Byte) /\ Len(u \o v) = Len(u) + Len(v)
    BY <2>1
  <2>3. s \o t \in Seq(Byte) /\ Len(s \o t) = Len(s) + Len(t)
    OBVIOUS
  <2> QED BY <2>2, <2>3
<1>4. ASSUME NEW i \in 1..Len(s \o t) PROVE (u \o v)[i] = (s \o t)[i]
  <2>1. CASE i <= Len(s)
    BY <1>1, <1>2, <2>1
  <2>2. CASE i = Len(s) + 1
    BY <1>1, <1>2, <2>2
  <2>3. CASE i > Len(s) + 1
    <3>1. (u \o v)[i] = v[i - Len(u)]
      BY <1>1, <1>2, <1>3, <2>3
    <3>2. (s \o t)[i] = t[i - Len(s)]
      BY <1>3, <2>3
    <3>3. i - Len(u) \in 1..Len(v) /\ i - Len(u) + 1 = i - Len(s)
      BY <1>1, <1>2, <1>3, <2>3
    <3>4. v[i - Len(u)] = t[i - Len(u) + 1]
      BY <1>2, <3>3
    <3> QED BY <3>1, <3>2, <3>3, <3>4
  <2>4. i <= Len(s) \/ i = Len(s) + 1 \/ i > Len(s) + 1
    BY <1>3
  <2> QED BY ONLY <2>1, <2>2, <2>3, <2>4
<1>5. Len(u \o v) = Len(s \o t)
  BY <1>1, <1>2, <1>3
<1>6. u \o v = s \o t
  BY <1>3, <1>4, <1>5
<1> QED BY <1>6 DEF u, v

\* The byte that read returns leaves the ring's front for the end of buf.
LEMMA ReadRefines ==
  ASSUME SerialInv, ReadStep
  PROVE  UNCHANGED Stream!vars
<1>0. TypeOK /\ Ring \in Queue /\ bytequeue_length(Ring) \in 0..(QSize - 1)
  BY RingQueue DEF SerialInv
<1>1. reg = bytequeue_get(Ring, 0) /\ bytequeue_length(Ring) >= 1
  BY <1>0 DEF SerialInv, ReaderInv, ReadStep, TypeOK
<1>2. reg \in Byte /\ reg # NONE /\ reg % 256 = reg
  <2>1. reg \in Byte
    BY <1>0, <1>1, GetType, QSizeAssumption
  <2> QED BY <2>1 DEF Byte, NONE
<1>3. Ring' = bytequeue_remove(Ring, 1)
  BY <1>0, <1>2, StepRemoves
<1>4. Contents(Ring') = SubSeq(Contents(Ring), 2, Len(Contents(Ring)))
  BY <1>0, <1>1, <1>3, RemoveTakes
<1>5. Contents(Ring)[1] = reg
  BY <1>0, <1>1, ContentsType
<1>6. Append(buf, reg) \o SubSeq(Contents(Ring), 2, Len(Contents(Ring)))
        = buf \o Contents(Ring)
  BY <1>0, <1>1, <1>2, <1>5, StreamSeq, MoveFirst
<1>7. Contents(Ring)' = Contents(Ring')
  BY DEF Contents, bytequeue_length, bytequeue_get
<1> QED BY <1>2, <1>4, <1>6, <1>7 DEF ReadStep, Stream!vars

LEMMA InputRefines ==
  ASSUME SerialInv, ProcessInput
  PROVE  Stream!Next
<1>0. TypeOK
  BY DEF SerialInv
<1>1. handed' = buf /\ buf' = <<>> /\ Ring' = Ring /\ Len(buf) \in 0..3
  BY <1>0, StreamSeq DEF ProcessInput, ring, Ring, TypeOK
<1>2. (buf \o Contents(Ring))' = Contents(Ring)
  BY <1>1, StreamSeq DEF Contents, bytequeue_length, bytequeue_get
<1>3. CASE Len(buf) = 0
  <2>1. buf = <<>> /\ buf \o Contents(Ring) = Contents(Ring)
    BY <1>3, StreamSeq
  <2> QED BY <1>1, <1>2, <2>1 DEF Stream!Next, Stream!Skip
<1>4. CASE Len(buf) \in 1..3
  <2> DEFINE s == buf \o Contents(Ring)
  <2>1. SubSeq(s, 1, Len(buf)) = buf
    BY <1>4, StreamSeq
  <2>2. SubSeq(s, Len(buf) + 1, Len(s)) = Contents(Ring)
    BY <1>4, StreamSeq
  <2>3. Len(buf) <= Len(s)
    BY <1>4, StreamSeq
  <2>4. Stream!Take(Len(buf))
    BY <1>1, <1>2, <2>1, <2>2, <2>3 DEF Stream!Take
  <2> QED BY <1>4, <2>4 DEF Stream!Next
<1> QED BY <1>1, <1>3, <1>4

LEMMA SerialRefines ==
  ASSUME SerialInv, [Next]_vars
  PROVE  [Stream!Next]_(Stream!vars)
<1>1. CASE USART_RX_vect
  BY <1>1, StoreRefines
<1>2. CASE ReadStep
  BY <1>2, ReadRefines
<1>3. CASE ProcessInput
  BY <1>3, InputRefines
<1>4. CASE ProcessBegin
  <2>1. buf = <<>> /\ buf' = <<>> /\ handed' = <<>> /\ Ring' = Ring
    <3>1. Len(buf) = 0 /\ buf \in Seq(Byte)
      BY <1>4 DEF SerialInv, ReaderInv, ProcessBegin, TypeOK
    <3> QED BY <1>4, <3>1 DEF ProcessBegin, ring, Ring
  <2>2. Contents(Ring)' = Contents(Ring)
    BY <2>1 DEF Contents, bytequeue_length, bytequeue_get
  <2> QED BY <2>1, <2>2 DEF Stream!Next, Stream!Skip
<1>5. CASE UNCHANGED <<ring, buf, handed>>
  <2>1. Ring' = Ring
    BY <1>5 DEF ring, Ring
  <2>2. Contents(Ring)' = Contents(Ring)
    BY <2>1 DEF Contents, bytequeue_length, bytequeue_get
  <2> QED BY <1>5, <2>2 DEF Stream!vars
<1> QED BY <1>1, <1>2, <1>3, <1>4, <1>5
        DEF Next, Process, ReadLook, Transmit, ThruBegin, ThruPoll, ThruWrite,
            OscWrite, UsbWrite, reader, vars

\* What comes in on the jack reaches the parser in order and whole, but for what a
\* full ring refuses, for every ring size and every interleaving.
THEOREM Refinement == Spec => ImplementsStream
<1>1. Init => Stream!Init
  <2> SUFFICES ASSUME Init PROVE Stream!Init
    OBVIOUS
  <2>1. Ring = bytequeue_init
    BY DEF Init, Ring, bytequeue_init
  <2>2. buf = <<>> /\ handed = <<>> /\ Contents(Ring) = <<>>
    BY <2>1, InitEmpty DEF Init
  <2> QED BY <2>2 DEF Stream!Init
<1>2. SerialInv /\ [Next]_vars => [Stream!Next]_(Stream!vars)
  BY SerialRefines
<1> QED BY <1>1, <1>2, SerialInvInit, SerialInvStep, PTL
        DEF Spec, ImplementsStream, Stream!Spec
=============================================================================
