---------------------------- MODULE OscMidiProps ----------------------------
(***************************************************************************)
(* What the way from OSC to MIDI promises.                                   *)
(***************************************************************************)
EXTENDS OscMidi

\* The argument that a variable stands for, and the bits of its value that are wanted.
ArgumentOf(t) == IF t.v = "y" THEN 2 ELSE 1
Bits(value, bits) ==
  CASE bits = "all" -> value
    [] bits = "lsb7" -> value % 128
    [] bits = "msb7" -> (value \div 128) % 128

\* The value of a token as the sender of a message means it: a number; an integer; or the
\* position in the range, rounded up or down.
Means(m, t, b) ==
  IF t.is = "num" THEN b = t.n
  ELSE LET x == m.args[ArgumentOf(t)]
           exact == t.lo * x[2] + x[1] * (t.hi - t.lo)
       IN \E value \in 0..255 :
            /\ b = Bits(value, t.bits)
            /\ IF m.tags[ArgumentOf(t)] = "i" THEN value = x[1]
               ELSE value * x[2] > exact - x[2] /\ value * x[2] < exact + x[2]

VariablesOf(m) == {t \in Range(m.meant) : t.is = "var"}
HasArguments(m) == \A t \in VariablesOf(m) : ArgumentOf(t) <= Len(m.tags)

\* What the code can carry: variables whose arguments are there, and whose values, as they
\* are before lsb7 and msb7 take their bits, are bytes.
Carried(m) ==
  /\ HasArguments(m)
  /\ \A t \in VariablesOf(m) :
       IF m.tags[ArgumentOf(t)] = "i" THEN m.args[ArgumentOf(t)][1] \in 0..255
       ELSE {t.lo, t.hi} \subseteq 0..255

\* A MIDI message of less than three bytes that has met some earlier frame's tags.
BehindOldFrame(m) ==
  \E bytes \in Others, stale \in StaleTags :
    stale.tags # <<>> /\ m = sendMidiOSC(bytes, stale)

\* A message that is handled sends the jack the bytes its sender means and no others: a
\* pad its on, slide or off chunk, a fader its place in the range with both ends within
\* reach, and a MIDI message that another MissingLink has turned into OSC comes out as it
\* went in. Two kinds of messages are exempt, and both are among those sent here. One of
\* less than three bytes whose comma has tags of an earlier frame behind it may not be
\* played at all. Nothing is said of one that refers to an argument it does not have or
\* has a value above 255: getTouchArg makes 255 of the former and cuts the latter to a
\* byte, of which xM, the upper half of 14 bits, keeps one bit
\* (HandleMidi.cpp 218-268, 335-423; Parse.cpp 26-178).
PlayedAsMeant ==
  [][Play /\ fromOSC /\ Carried(Head(air)) =>
       LET m == Head(air)
       IN \/ /\ Len(written') = Len(m.meant)
             /\ \A k \in 1..Len(m.meant) : Means(m, m.meant[k], written'[k])
          \/ BehindOldFrame(m) /\ written' = <<>>]_vars

\* When everything that was sent has arrived, what sounds is what is held down: no order
\* of presses, slides and releases on several controls, of keys on another MissingLink, of
\* configurations and restarts between them leaves a note hanging or cuts one off.
SoundsAsHeld == air = <<>> /\ ~ lost => sounding = held

\* A configuration message writes its numbers and its text, byte for byte, at its field or
\* at the offset it names, and nothing else, as long as numbers and text are set apart by
\* single spaces (MissingLink.cpp 156-213).
ConfigAsMeant ==
  [][Store => LET s == Head(air).meant
              IN eeprom' = IF s.field = "defaults" THEN WithDefaults
                           ELSE Overwritten(eeprom, s.offset, ItemBytes(s.items))]_vars

-----------------------------------------------------------------------------
(* One message at a time: what the theorem about all of them together rests *)
(* on, and what TLC evaluates for the instance.                              *)

Notes == {pad.note : pad \in Pads} \cup {button.note : button \in Buttons} \cup Keys

\* A message that strikes a note or releases it; and one that leaves all notes alone.
Speaks(m) == IsNote(midiDispatch(m))
Strikes(m, note, down) ==
  LET bytes == midiDispatch(m) IN IsNote(bytes) /\ bytes[2] = note /\ (bytes[3] > 0) = down

\* Handled alone, the message of a pad, a button or a key strikes and releases its own
\* note, and no other message does anything to a note.
EachAlone ==
  /\ \A down \in BOOLEAN :
       /\ \A pad \in Pads : Strikes(TouchMessage(pad, down), pad.note, down)
       /\ \A button \in Buttons : Strikes(PushMessage(button, down), button.note, down)
       /\ \A note \in Keys, velocity \in Velocities :
            Strikes(KeyMessage(note, velocity, down), note, down)
       /\ \A numbers \in Switches : ~ Speaks(SwitchMessage(numbers, down))
  /\ \A pad \in Pads : \A x, y \in Positions : ~ Speaks(SlideMessage(pad, x, y))
  /\ \A fader \in Faders, x \in Positions : ~ Speaks(FadeMessage(fader, x))
  /\ \A bytes \in Others, stale \in StaleTags : ~ Speaks(sendMidiOSC(bytes, stale))
  /\ \A m \in Stray : ~ Speaks(m)
=============================================================================
