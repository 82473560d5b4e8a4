----------------------------- MODULE ByteStream -----------------------------
(***************************************************************************)
(* What a byte queue between producers and one reader promises: a bounded   *)
(* first-in first-out stream.  A byte put in while there is no room is      *)
(* refused; the reader takes the oldest bytes, as many as it says, and the  *)
(* bytes it hands on are those.                                             *)
(*                                                                          *)
(* Underrun is the one way out of that promise: a reader that takes a byte  *)
(* from the empty stream gets nothing, and finds Capacity bytes that nobody *)
(* put there.  AllowUnderrun says whether the implementation may do it.     *)
(***************************************************************************)
EXTENDS Naturals, Sequences

CONSTANTS Capacity, MaxTake, Datum, AllowUnderrun

VARIABLES stream,   \* the bytes put in and not yet taken, oldest first
          handed    \* the bytes of the last reply, <<>> if it carried none

vars == <<stream, handed>>

TypeOK ==
  /\ stream \in Seq(Datum)
  /\ Len(stream) <= Capacity
  /\ handed \in Seq(Datum)

Init == stream = <<>> /\ handed = <<>>

Put(b) ==
  /\ Len(stream) < Capacity
  /\ stream' = Append(stream, b)
  /\ UNCHANGED handed

\* A reply that carries the n oldest bytes.
Take(n) ==
  /\ n <= Len(stream)
  /\ handed' = SubSeq(stream, 1, n)
  /\ stream' = SubSeq(stream, n + 1, Len(stream))

\* A reply that carries nothing and drops at most the oldest byte.
Skip ==
  /\ handed' = <<>>
  /\ \/ UNCHANGED stream
     \/ /\ stream # <<>>
        /\ stream' = Tail(stream)

Underrun ==
  /\ AllowUnderrun
  /\ stream = <<>>
  /\ handed' = <<>>
  /\ stream' \in [1..Capacity -> Datum]

Next ==
  \/ \E b \in Datum : Put(b)
  \/ \E n \in 1..MaxTake : Take(n)
  \/ Skip
  \/ Underrun

Spec == Init /\ [][Next]_vars
=============================================================================
