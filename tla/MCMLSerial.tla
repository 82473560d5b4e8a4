----------------------------- MODULE MCMLSerial -----------------------------
(* Two bytes are enough to tell the order in which they come.               *)
EXTENDS MLSerial
MCLineBytes == {1, 2}
=============================================================================
