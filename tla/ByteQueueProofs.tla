-------------------------- MODULE ByteQueueProofs ---------------------------
(***************************************************************************)
(* What the byte queue's functions do to the bytes that wait in it, for     *)
(* every size of the array.                                                 *)
(***************************************************************************)
EXTENDS ByteQueue, TLAPS

\* An index advanced by at most the size of the array, and wrapped: what every
\* index computation of bytequeue.c does.
LEMMA Wrap ==
  ASSUME NEW a \in Index, NEW k \in 0..QSize
  PROVE  /\ (a + k) % QSize = IF a + k < QSize THEN a + k ELSE a + k - QSize
         /\ (a + k) % QSize \in Index
BY QSizeAssumption, SMTT(30) DEF Index

\* bytequeue_init makes an empty queue.
LEMMA InitEmpty ==
  /\ bytequeue_init \in Queue
  /\ bytequeue_length(bytequeue_init) = 0
  /\ Contents(bytequeue_init) = <<>>
<1>1. bytequeue_init \in Queue
  BY QSizeAssumption DEF bytequeue_init, Queue, Index, Byte
<1>2. bytequeue_length(bytequeue_init) = 0
  BY DEF bytequeue_init, bytequeue_length
<1>3. Contents(bytequeue_init) = <<>>
  BY <1>2 DEF Contents
<1> QED BY <1>1, <1>2, <1>3

\* bytequeue_length never says more than the array holds but for the free slot,
\* and says 0 for the empty queue only.
LEMMA LengthType ==
  ASSUME NEW q \in Queue
  PROVE  /\ bytequeue_length(q) \in 0..(QSize - 1)
         /\ bytequeue_length(q) = 0 <=> q.start = q.end
BY QSizeAssumption DEF Queue, Index, bytequeue_length

\* bytequeue_get stays inside the array.
LEMMA GetType ==
  ASSUME NEW q \in Queue, NEW i \in 0..(QSize - 1)
  PROVE  /\ (q.start + i) % QSize \in Index
         /\ bytequeue_get(q, i) \in Byte
<1>1. q.start \in Index /\ q.data \in [Index -> Byte]
  BY DEF Queue
<1>2. i \in 0..QSize
  BY QSizeAssumption
<1>3. (q.start + i) % QSize \in Index
  BY <1>1, <1>2, Wrap, Zenon
<1> QED BY <1>1, <1>3 DEF bytequeue_get

\* The contents are a sequence of bytes as long as bytequeue_length says.
LEMMA ContentsType ==
  ASSUME NEW q \in Queue
  PROVE  /\ Contents(q) \in Seq(Byte)
         /\ Len(Contents(q)) = bytequeue_length(q)
         /\ \A i \in 1..bytequeue_length(q) : Contents(q)[i] = bytequeue_get(q, i - 1)
<1> DEFINE n == bytequeue_length(q)
<1>1. n \in 0..(QSize - 1)
  BY LengthType
<1> HIDE DEF n
<1>2. \A i \in 1..n : bytequeue_get(q, i - 1) \in Byte
  BY <1>1, GetType, QSizeAssumption
<1>3. Contents(q) = [i \in 1..n |-> bytequeue_get(q, i - 1)]
  BY DEF Contents, n
<1>4. Contents(q) \in [1..n -> Byte]
  BY <1>2, <1>3
<1> QED BY <1>1, <1>3, <1>4 DEF n

\* The queue is full when it holds QSize - 1 bytes.
LEMMA FullLength ==
  ASSUME NEW q \in Queue
  PROVE  IsFull(q) <=> bytequeue_length(q) = QSize - 1
<1>1. q.start \in Index /\ q.end \in Index
  BY DEF Queue
<1>2. 1 \in 0..QSize
  BY QSizeAssumption
<1> DEFINE e == (q.end + 1) % QSize
<1>3. e = IF q.end + 1 < QSize THEN q.end + 1 ELSE q.end + 1 - QSize
  BY <1>1, <1>2, Wrap, Zenon
<1>4. IsFull(q) <=> e = q.start
  BY DEF IsFull
<1> HIDE DEF e
<1> QED BY <1>1, <1>3, <1>4, QSizeAssumption DEF bytequeue_length, Index

\* bytequeue_enqueue appends the byte, or does nothing to a full queue.
LEMMA EnqueueAppends ==
  ASSUME NEW q \in Queue, NEW b \in Byte
  PROVE  /\ bytequeue_enqueue(q, b) \in Queue
         /\ bytequeue_length(bytequeue_enqueue(q, b)) > 0
         /\ IsFull(q) => bytequeue_enqueue(q, b) = q
         /\ ~IsFull(q) => Contents(bytequeue_enqueue(q, b)) = Append(Contents(q), b)
<1> DEFINE r == bytequeue_enqueue(q, b)
           n == bytequeue_length(q)
<1>1. q.start \in Index /\ q.end \in Index /\ q.data \in [Index -> Byte]
  BY DEF Queue
<1>0. q.start \in 0..(QSize - 1) /\ q.end \in 0..(QSize - 1) /\ QSize \in Nat
  <2>1. QSize \in Nat
    BY QSizeAssumption
  <2> QED BY <1>1, <2>1, Zenon DEF Index
<1>2. CASE IsFull(q)
  <2>1. r = q
    BY <1>2 DEF bytequeue_enqueue
  <2> QED BY <2>1, <1>2, FullLength, QSizeAssumption
<1>3. CASE ~IsFull(q)
  <2> DEFINE e == (q.end + 1) % QSize
  <2>0. 1 \in 0..QSize
    BY QSizeAssumption
  <2>1. e = IF q.end + 1 < QSize THEN q.end + 1 ELSE q.end + 1 - QSize
    BY <1>1, <2>0, Wrap, Zenon
  <2>2. e \in Index /\ e # q.start
    BY <2>0, <1>1, <1>3, Wrap, Zenon DEF IsFull
  <2> HIDE DEF e
  <2>3. r = [start |-> q.start, end |-> e, data |-> [q.data EXCEPT ![q.end] = b]]
    BY <1>3, <1>1 DEF bytequeue_enqueue, e, Queue
  <2>4. r \in Queue
    BY <2>3, <2>2, <1>1 DEF Queue
  <2>5. /\ n \in 0..(QSize - 2)
        /\ bytequeue_length(r) = n + 1
    <3>1. n = IF q.end >= q.start THEN q.end - q.start ELSE (QSize - q.start) + q.end
      BY DEF bytequeue_length
    <3>2. bytequeue_length(r)
            = IF e >= q.start THEN e - q.start ELSE (QSize - q.start) + e
      BY <2>3 DEF bytequeue_length
    <3> HIDE DEF n, r
    <3> QED BY <3>1, <3>2, <1>0, <2>1, <2>2
  <2> HIDE DEF r
  <2>6. \A i \in 0..(n - 1) : bytequeue_get(r, i) = bytequeue_get(q, i)
    <3> SUFFICES ASSUME NEW i \in 0..(n - 1)
                 PROVE  bytequeue_get(r, i) = bytequeue_get(q, i)
      OBVIOUS
    <3> DEFINE p == (q.start + i) % QSize
    <3>1. i \in 0..QSize
      BY <2>5, QSizeAssumption
    <3>2. /\ p = IF q.start + i < QSize THEN q.start + i ELSE q.start + i - QSize
          /\ p \in Index
      BY <1>1, <3>1, Wrap, Zenon
    <3>3. bytequeue_get(q, i) = q.data[p] /\ bytequeue_get(r, i) = r.data[p]
      BY <2>3 DEF bytequeue_get
    <3> HIDE DEF p
    <3>4. p # q.end
      <4>1. n = IF q.end >= q.start THEN q.end - q.start ELSE (QSize - q.start) + q.end
        BY DEF bytequeue_length
      <4>2. i \in 0..(n - 1) /\ n \in 0..(QSize - 2)
        BY <2>5
      <4> HIDE DEF n
      <4>3. q.start + i \in Nat
        BY <4>2, <1>0
      <4>4. CASE q.end >= q.start
        BY <4>1, <4>2, <4>3, <4>4, <1>0, <3>2
      <4>5. CASE q.end < q.start
        BY <4>1, <4>2, <4>3, <4>5, <1>0, <3>2
      <4> QED BY <4>4, <4>5, <1>0
    <3> QED BY <3>2, <3>3, <3>4, <2>3, <1>1
  <2>7. bytequeue_get(r, n) = b
    <3> DEFINE p == (q.start + n) % QSize
    <3>1. n \in 0..QSize
      BY <2>5, QSizeAssumption
    <3>2. p = IF q.start + n < QSize THEN q.start + n ELSE q.start + n - QSize
      BY <1>1, <3>1, Wrap, Zenon
    <3>3. bytequeue_get(r, n) = r.data[p]
      BY <2>3 DEF bytequeue_get
    <3> HIDE DEF p
    <3>4. p = q.end
      <4>1. n = IF q.end >= q.start THEN q.end - q.start ELSE (QSize - q.start) + q.end
        BY DEF bytequeue_length
      <4> HIDE DEF n
      <4> QED BY <4>1, <1>0, <3>2
    <3> QED BY <3>3, <3>4, <2>3, <1>1
  <2>8. Contents(r) = Append(Contents(q), b)
    <3>1. /\ Contents(q) \in Seq(Byte)
          /\ Len(Contents(q)) = n
          /\ \A i \in 1..n : Contents(q)[i] = bytequeue_get(q, i - 1)
      BY ContentsType
    <3>2. /\ Contents(r) \in Seq(Byte)
          /\ Len(Contents(r)) = n + 1
          /\ \A i \in 1..(n + 1) : Contents(r)[i] = bytequeue_get(r, i - 1)
      BY <2>4, <2>5, ContentsType
    <3> DEFINE s == Contents(q)
               t == Contents(r)
    <3> HIDE DEF n, s, t
    <3>3. n \in Nat
      BY <2>5, QSizeAssumption
    <3>4. \A i \in 1..n : t[i] = s[i]
      BY <3>1, <3>2, <3>3, <2>6 DEF s, t
    <3>5. t[n + 1] = b
      BY <3>2, <3>3, <2>7 DEF t
    <3>6. t = Append(s, b)
      BY <3>1, <3>2, <3>3, <3>4, <3>5 DEF s, t
    <3> QED BY <3>6 DEF s, t
  <2> QED BY <2>4, <2>5, <2>8, <1>3, QSizeAssumption DEF r
<1> QED BY <1>2, <1>3

\* bytequeue_remove takes the oldest bytes, if the queue holds that many.
LEMMA RemoveTakes ==
  ASSUME NEW q \in Queue, NEW k \in 0..bytequeue_length(q)
  PROVE  /\ bytequeue_remove(q, k) \in Queue
         /\ bytequeue_length(bytequeue_remove(q, k)) = bytequeue_length(q) - k
         /\ Contents(bytequeue_remove(q, k)) = SubSeq(Contents(q), k + 1, Len(Contents(q)))
<1> DEFINE r == bytequeue_remove(q, k)
           n == bytequeue_length(q)
           m == (q.start + k) % QSize
<1>1. q.start \in Index /\ q.end \in Index /\ q.data \in [Index -> Byte]
  BY DEF Queue
<1>2. n \in 0..(QSize - 1)
  BY LengthType
<1>0. k \in 0..QSize
  BY <1>2, QSizeAssumption
<1>3. m = IF q.start + k < QSize THEN q.start + k ELSE q.start + k - QSize
  BY <1>1, <1>0, Wrap, Zenon
<1>4. m \in Index
  BY <1>1, <1>0, Wrap, Zenon
<1> HIDE DEF m
<1>5. r = [start |-> m, end |-> q.end, data |-> q.data]
  BY DEF bytequeue_remove, m, Queue
<1>6. r \in Queue
  BY <1>5, <1>4, <1>1 DEF Queue
<1>7. bytequeue_length(r) = n - k
  <2>1. n = IF q.end >= q.start THEN q.end - q.start ELSE (QSize - q.start) + q.end
    BY DEF bytequeue_length
  <2>2. bytequeue_length(r) = IF q.end >= m THEN q.end - m ELSE (QSize - m) + q.end
    BY <1>5 DEF bytequeue_length
  <2>3. k \in 0..n
    OBVIOUS
  <2> HIDE DEF n, r
  <2>4. QSize \in Nat
    BY QSizeAssumption
  <2>5. q.start \in 0..(QSize - 1) /\ q.end \in 0..(QSize - 1)
    BY <1>1, Zenon DEF Index
  <2>6. CASE q.end >= q.start
    BY <1>2, <1>3, <2>1, <2>2, <2>3, <2>4, <2>5, <2>6
  <2>7. CASE q.end < q.start
    BY <1>2, <1>3, <2>1, <2>2, <2>3, <2>4, <2>5, <2>7
  <2> QED BY <2>5, <2>6, <2>7
<1> HIDE DEF r
<1>8. \A i \in 0..(n - k - 1) : bytequeue_get(r, i) = bytequeue_get(q, k + i)
  <2> SUFFICES ASSUME NEW i \in 0..(n - k - 1)
               PROVE  bytequeue_get(r, i) = bytequeue_get(q, k + i)
    OBVIOUS
  <2> DEFINE x == (m + i) % QSize
             y == (q.start + (k + i)) % QSize
  <2>1. i \in 0..QSize /\ k + i \in 0..QSize
    BY <1>2, QSizeAssumption
  <2>2. x = IF m + i < QSize THEN m + i ELSE m + i - QSize
    BY <1>4, <2>1, Wrap, Zenon
  <2>3. y = IF q.start + (k + i) < QSize THEN q.start + (k + i)
            ELSE q.start + (k + i) - QSize
    BY <1>1, <2>1, Wrap, Zenon
  <2>4. bytequeue_get(r, i) = r.data[x] /\ bytequeue_get(q, k + i) = q.data[y]
    BY <1>5 DEF bytequeue_get
  <2> HIDE DEF x, y
  <2>5. x = y
    <3>0. QSize \in Nat
      BY ONLY QSizeAssumption
    <3>1. q.start \in 0..(QSize - 1) /\ QSize \in Nat
      BY <1>1, <3>0, Zenon DEF Index
    <3>2. k \in 0..n /\ i \in 0..(n - k - 1) /\ n \in 0..(QSize - 1)
      BY <1>2
    <3> HIDE DEF n
    <3>3. k \in Nat /\ i \in Nat
      BY <3>1, <3>2
    <3>4. k + i < QSize
      BY <3>1, <3>2
    <3>5. CASE q.start + k < QSize
      BY <3>1, <3>3, <3>4, <3>5, <1>3, <2>2, <2>3
    <3>6. CASE q.start + k >= QSize
      BY <3>1, <3>3, <3>4, <3>6, <1>3, <2>2, <2>3
    <3> QED BY <3>1, <3>3, <3>5, <3>6
  <2> QED BY <2>4, <2>5, <1>5
<1>9. Contents(r) = SubSeq(Contents(q), k + 1, Len(Contents(q)))
  <2>1. /\ Contents(q) \in Seq(Byte)
        /\ Len(Contents(q)) = n
        /\ \A i \in 1..n : Contents(q)[i] = bytequeue_get(q, i - 1)
    BY ContentsType
  <2>2. /\ Contents(r) \in Seq(Byte)
        /\ Len(Contents(r)) = n - k
        /\ \A i \in 1..(n - k) : Contents(r)[i] = bytequeue_get(r, i - 1)
    BY <1>6, <1>7, ContentsType
  <2> DEFINE s == Contents(q)
             t == Contents(r)
  <2> HIDE DEF n, s, t
  <2>3. n \in Nat /\ k \in 0..n
    BY <1>2, QSizeAssumption DEF n
  <2>4. \A i \in 1..(n - k) : t[i] = s[k + i]
    BY <2>1, <2>2, <2>3, <1>8 DEF s, t
  <2>5. t = SubSeq(s, k + 1, n)
    BY <2>1, <2>2, <2>3, <2>4 DEF s, t
  <2> QED BY <2>5, <2>1 DEF s, t
<1> QED BY <1>6, <1>7, <1>9 DEF r

\* A byte removed from an empty queue leaves QSize - 1 bytes in it.
LEMMA RemoveUnderruns ==
  ASSUME NEW q \in Queue, bytequeue_length(q) = 0
  PROVE  /\ bytequeue_remove(q, 1) \in Queue
         /\ bytequeue_length(bytequeue_remove(q, 1)) = QSize - 1
<1> DEFINE m == (q.start + 1) % QSize
<1>1. q.start \in Index /\ q.end = q.start /\ q.data \in [Index -> Byte]
  BY LengthType DEF Queue
<1>0. 1 \in 0..QSize
  BY QSizeAssumption
<1>2. m = IF q.start + 1 < QSize THEN q.start + 1 ELSE q.start + 1 - QSize
  BY <1>0, <1>1, Wrap, Zenon
<1>3. bytequeue_remove(q, 1) = [start |-> m, end |-> q.end, data |-> q.data]
  BY DEF bytequeue_remove, Queue
<1> HIDE DEF m
<1> QED BY <1>1, <1>2, <1>3, QSizeAssumption DEF Queue, Index, bytequeue_length
=============================================================================
