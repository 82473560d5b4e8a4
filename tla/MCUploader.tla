----------------------------- MODULE MCUploader -----------------------------
(***************************************************************************)
(* Pages of four bytes, sent two by two; a file that fills one page and      *)
(* begins another with an odd byte; an id of one byte.                       *)
(***************************************************************************)
EXTENDS UploaderProps

MCId == <<125>>
MCImages == {<<1, 2, 3, 4, 80>>}
\* What other programs may have sent the bootloader: a note, a message of another maker,
\* ones with no command, an unknown one and too long a question for the page size; a fill
\* that is longer than its buffer.
MCOther ==
  { <<>>, <<144>>, <<240, 1, 247>>, <<240, 125, 247>>, <<240, 125, 9, 247>>,
    <<240, 125, 2, 0, 247>>, <<240, 125, 3>> \o [k \in 1..11 |-> 0] \o <<247>> }
MCInstalled == <<9, 9, 9, 9, 9, 9>>
=============================================================================
