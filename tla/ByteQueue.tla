----------------------------- MODULE ByteQueue ------------------------------
(***************************************************************************)
(* The byte queue every stream of the firmware goes through                 *)
(* (avrmidi/bytequeue.c): a ring over an array of QSize bytes with one slot *)
(* kept free, so that start = end means empty.  Each C function masks       *)
(* interrupts while it works, so each one is a single operator here; what   *)
(* the callers do between two of them is up to the modules that use this    *)
(* one.                                                                     *)
(***************************************************************************)
EXTENDS Midi, Integers

CONSTANT QSize   \* the array's length (USB_OUT_BUFFER_SIZE, MIDI_INPUT_QUEUE_LENGTH)

\* An index is a byteQueueIndex_t, that is uint8_t.
ASSUME QSizeAssumption == QSize \in 2..255

Index == 0..(QSize - 1)
Queue == [start : Index, end : Index, data : [Index -> Byte]]

\* The array is static storage or part of a static device: it starts as zeros.
bytequeue_init == [start |-> 0, end |-> 0, data |-> [i \in Index |-> 0]]

IsFull(q) == (q.end + 1) % QSize = q.start

\* Mutant: the room is not checked.
bytequeue_enqueue_unchecked(q, item) ==
  [start |-> q.start, end |-> (q.end + 1) % QSize, data |-> [q.data EXCEPT ![q.end] = item]]

\* The queue after the call; the call returns ~IsFull(q).
bytequeue_enqueue(q, item) ==
  IF IsFull(q) THEN q
  ELSE [start |-> q.start,
        end   |-> (q.end + 1) % QSize,
        data  |-> [q.data EXCEPT ![q.end] = item]]

bytequeue_length(q) ==
  IF q.end >= q.start THEN q.end - q.start ELSE (QSize - q.start) + q.end

bytequeue_get(q, index) == q.data[(q.start + index) % QSize]

\* Mutant: the start index does not wrap.
bytequeue_remove_nowrap(q, numToRemove) ==
  [q EXCEPT !.start = q.start + numToRemove]

\* No check that the queue holds that many bytes.
bytequeue_remove(q, numToRemove) ==
  [q EXCEPT !.start = (q.start + numToRemove) % QSize]

\* The bytes waiting in the queue, oldest first.
Contents(q) == [i \in 1..bytequeue_length(q) |-> bytequeue_get(q, i - 1)]
=============================================================================
